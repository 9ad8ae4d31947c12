--------------------------- MODULE LifecycleProofs ---------------------------
(***************************************************************************)
(* Proofs about Lifecycle, for any threads, struct kqueues and descriptor  *)
(* numbers: the memory of kqueues is safe.                                 *)
(***************************************************************************)
EXTENDS Lifecycle, TLAPS

Outside == {"idle", "drain_test", "drain_enq", "drain_sleep", "drain_wake"}
Inside == {"copyin", "wait", "woken", "hup", "copyout"}

\* Who has a pointer to a kqueue, and what that means for its memory: it is
\* listed while somebody may still come in, and the one thread in "teardown" is
\* alone with it.
Callers ==
  /\ \A t \in Threads : cur[t] = NoKq <=> pc[t] \in Outside
  /\ \A t \in Threads : cur[t] # NoKq => mem[cur[t]] # "free"
  /\ \A t \in Threads : pc[t] = "lookup" => mem[cur[t]] = "listed"
  /\ \A t \in Threads, k \in Kqs : t \in kq_inflight[k] <=> cur[t] = k /\ pc[t] \in Inside
  /\ \A t \in Threads : pc[t] = "teardown" =>
       mem[cur[t]] = "freeing" /\ kq_inflight[cur[t]] = {}
  /\ \A t, u \in Threads : pc[t] = "teardown" /\ pc[u] = "teardown" /\ cur[t] = cur[u] => t = u
  /\ \A k \in Kqs : mem[k] = "freeing" =>
       kq_inflight[k] # {} \/ \E t \in Threads : pc[t] = "teardown" /\ cur[t] = k

\* What the descriptor table and kqmap say of kqueues.
Named ==
  /\ MapResolves
  /\ \A k \in Kqs : mem[k] # "free" => kq_id[k] \in Fds

\* The monitoring thread has cleaned up, or is about to, because of exit().
Ending == {"cleanup", "cleanuplock", "clear", "joinable"}

\* What the monitoring thread has in hand.
Hand ==
  /\ victim # NoKq <=> mon \in {"closelock", "cleanuplock"}
  /\ victim # NoKq => mem[victim] = "unlisted"
  /\ \A k \in batch : mem[k] = "listed"
  /\ mon \in {"lock", "close", "closelock"} => \A k \in batch : k \notin armed /\ ~Open(k)
  /\ mon \in {"off", "wait", "cancelled", "clear", "joinable"} => batch = {}
  /\ mon \notin Ending => \A k \in armed : mem[k] = "listed"

\* When it runs.
Runs ==
  /\ monitoring_tid <=> mon \notin {"off", "joinable"}
  /\ mon \in Ending \cup {"cancelled"} => cancel
  /\ cancel => exit # "running"
  /\ exit = "join" => cancel /\ mon # "off"
  /\ exit = "running" => \A k \in kq_list : monitoring_tid /\ (k \in armed \/ k \in batch)

\* What a drain waits for stays closed, and is off kq_list once the monitoring
\* thread has answered, or the drain has returned.
DrainLocations == {"drain_test", "drain_enq", "drain_sleep", "drain_wake"}

Awaited ==
  /\ \A t \in Threads : \A k \in owed[t] : mem[k] # "free" /\ ~Open(k)
  /\ exit = "running" =>
       \A t \in Threads : t \in drained \/ pc[t] \notin DrainLocations =>
         \A k \in owed[t] : mem[k] # "listed"

LifeInv == Domains /\ Mutexes /\ Callers /\ Named /\ Hand /\ Runs /\ Awaited

USE OwnersAssumption, ValuesAssumption

LEMMA SameMutexes == ASSUME Mutexes, UNCHANGED <<kq_mtx, lock, pc, cur, mon>> PROVE Mutexes'
  BY DEF Mutexes, MonLocked

LEMMA SameCallers == ASSUME Callers, UNCHANGED <<cur, pc, mem, kq_inflight>> PROVE Callers'
  BY DEF Callers, Outside, Inside

LEMMA SameNamed == ASSUME Named, UNCHANGED <<fd, kqmap, mem, kq_id>> PROVE Named'
  BY DEF Named, MapResolves

LEMMA SameHand == ASSUME Hand, UNCHANGED <<victim, mon, mem, batch, armed, fd>> PROVE Hand'
  BY DEF Hand, Open, Ending

LEMMA SameRuns ==
  ASSUME Runs,
         UNCHANGED <<monitoring_tid, mon, cancel, exit, mem, armed, batch>>
  PROVE  Runs'
  BY DEF Runs, Ending, kq_list

LEMMA SameAwaited == ASSUME Awaited, UNCHANGED <<owed, mem, fd, exit, pc, drained>> PROVE Awaited'
  BY DEF Awaited, Open, DrainLocations

\* Nobody has a pointer to a kqueue that is off the list, not being torn down
\* and has nobody inside.
LEMMA NobodyInside ==
  ASSUME Domains, Callers, NEW k \in Kqs, mem[k] = "unlisted", kq_inflight[k] = {}
  PROVE  \A t \in Threads : cur[t] # k
<1> SUFFICES ASSUME NEW t \in Threads, cur[t] = k PROVE FALSE
  BY Zenon
<1>1. pc[t] \notin Outside
  BY DEF Callers
<1>2. pc[t] \notin Inside
  BY DEF Callers
<1>3. pc[t] # "lookup" /\ pc[t] # "teardown"
  BY DEF Callers
<1>4. pc[t] \in Locations
  BY DEF Domains
<1> QED
  BY <1>1, <1>2, <1>3, <1>4 DEF Locations, Outside, Inside

\* A kqueue that kqueue_free has taken off kq_list is closed.
LEMMA OnlyListedOpen ==
  ASSUME Domains, Named, NEW k \in Kqs, mem[k] # "listed"
  PROVE  ~Open(k)
  BY DEF Domains, Named, MapResolves, Open

LEMMA ListedAreKqs == kq_list \subseteq Kqs
  BY DEF kq_list

LEMMA KqueueInv ==
  ASSUME LifeInv, NEW t \in Threads, NEW k \in Kqs, NEW f \in Fds, Kqueue(t, k, f)
  PROVE  LifeInv'
<1>0. Domains /\ Mutexes /\ Callers /\ Named /\ Hand /\ Runs /\ Awaited
  BY DEF LifeInv
<1>1. \A x \in Kqs : mem[x] = "free" => ~Open(x)
  BY <1>0, OnlyListedOpen
<1>2. Domains'
  BY <1>0, <1>1 DEF Kqueue, callVars, Domains, Phases, Locations, MonLocations
<1>3. Mutexes'
  BY <1>0, <1>1 DEF Kqueue, callVars, Mutexes, MonLocked, Domains
<1>4. Callers'
  BY <1>0, <1>1 DEF Kqueue, callVars, Callers, Outside, Inside, Domains
<1>5. Named'
  BY <1>0, <1>1 DEF Kqueue, callVars, Named, MapResolves, Domains
<1>6. Hand'
  BY <1>0, <1>1 DEF Kqueue, callVars, Hand, Open, Ending, Domains, Runs
<1>7. Runs'
  BY <1>0, <1>1 DEF Kqueue, callVars, Runs, Ending, kq_list, Domains
<1>8. Awaited'
  BY <1>0, <1>1 DEF Kqueue, callVars, Awaited, Open, DrainLocations, Domains
<1> QED
  BY <1>2, <1>3, <1>4, <1>5, <1>6, <1>7, <1>8 DEF LifeInv

LEMMA CloseInv ==
  ASSUME LifeInv, NEW f \in Fds, Close(f)
  PROVE  LifeInv'
<1>0. Domains /\ Mutexes /\ Callers /\ Named /\ Hand /\ Runs /\ Awaited
  BY DEF LifeInv
<1>1. Domains'
  BY <1>0 DEF Close, callVars, monVars, Domains, Phases, Locations, MonLocations
<1>2. Named'
  BY <1>0 DEF Close, callVars, monVars, Named, MapResolves, Domains
<1>3. Hand'
  BY <1>0 DEF Close, callVars, monVars, Hand, Open, Ending, Domains
<1>4. Awaited'
  BY <1>0 DEF Close, callVars, monVars, Awaited, Open, DrainLocations, Domains
<1>5. Mutexes' /\ Callers' /\ Runs'
  BY <1>0, SameMutexes, SameCallers, SameRuns DEF Close, callVars, monVars
<1> QED
  BY <1>1, <1>2, <1>3, <1>4, <1>5 DEF LifeInv

LEMMA OpenOtherInv ==
  ASSUME LifeInv, NEW f \in Fds, OpenOther(f)
  PROVE  LifeInv'
<1>0. Domains /\ Mutexes /\ Callers /\ Named /\ Hand /\ Runs /\ Awaited
  BY DEF LifeInv
<1>1. Domains'
  BY <1>0 DEF OpenOther, callVars, monVars, Domains, Phases, Locations, MonLocations
<1>2. Named'
  BY <1>0 DEF OpenOther, callVars, monVars, Named, MapResolves, Domains
<1>3. Hand'
  BY <1>0 DEF OpenOther, callVars, monVars, Hand, Open, Ending, Domains
<1>4. Awaited'
  BY <1>0 DEF OpenOther, callVars, monVars, Awaited, Open, DrainLocations, Domains
<1>5. Mutexes' /\ Callers' /\ Runs'
  BY <1>0, SameMutexes, SameCallers, SameRuns DEF OpenOther, callVars, monVars
<1> QED
  BY <1>1, <1>2, <1>3, <1>4, <1>5 DEF LifeInv

LEMMA LookupInv ==
  ASSUME LifeInv, NEW t \in Threads, NEW f \in Fds, Lookup(t, f)
  PROVE  LifeInv'
<1>0. Domains /\ Mutexes /\ Callers /\ Named /\ Hand /\ Runs /\ Awaited
  BY DEF LifeInv
<1>1. Domains'
  BY <1>0 DEF Lookup, kqVars, monVars, Domains, Phases, Locations, MonLocations
<1>2. Mutexes'
  BY <1>0 DEF Lookup, kqVars, monVars, Mutexes, MonLocked, Domains
<1>3. Callers'
  BY <1>0 DEF Lookup, kqVars, monVars, Callers, Outside, Inside, Domains, Named, MapResolves
<1>4. Awaited'
  BY <1>0 DEF Lookup, kqVars, monVars, Awaited, Open, DrainLocations, Domains
<1>5. Named' /\ Hand' /\ Runs'
  BY <1>0, SameNamed, SameHand, SameRuns DEF Lookup, kqVars, monVars
<1> QED
  BY <1>1, <1>2, <1>3, <1>4, <1>5 DEF LifeInv

LEMMA LockKqInv ==
  ASSUME LifeInv, NEW t \in Threads, LockKq(t)
  PROVE  LifeInv'
<1>0. Domains /\ Mutexes /\ Callers /\ Named /\ Hand /\ Runs /\ Awaited
  BY DEF LifeInv
<1>1. cur[t] \in Kqs
  BY <1>0 DEF LockKq, Domains, Callers, Outside
<1>2. Domains'
  BY <1>0, <1>1 DEF LockKq, monVars, Domains, Phases, Locations, MonLocations
<1>3. Mutexes'
  BY <1>0, <1>1 DEF LockKq, monVars, Mutexes, MonLocked, Domains
<1>4. Callers'
  BY <1>0, <1>1 DEF LockKq, monVars, Callers, Outside, Inside, Domains
<1>5. Awaited'
  BY <1>0, <1>1 DEF LockKq, monVars, Awaited, Open, DrainLocations, Domains
<1>6. Named' /\ Hand' /\ Runs'
  BY <1>0, SameNamed, SameHand, SameRuns DEF LockKq, monVars
<1> QED
  BY <1>2, <1>3, <1>4, <1>5, <1>6 DEF LifeInv

LEMMA ParkInv ==
  ASSUME LifeInv, NEW t \in Threads, Park(t)
  PROVE  LifeInv'
<1>0. Domains /\ Mutexes /\ Callers /\ Named /\ Hand /\ Runs /\ Awaited
  BY DEF LifeInv
<1>1. cur[t] \in Kqs
  BY <1>0 DEF Park, Domains, Callers, Outside
<1>2. Domains'
  BY <1>0, <1>1 DEF Park, monVars, Domains, Phases, Locations, MonLocations
<1>3. Mutexes'
  BY <1>0, <1>1 DEF Park, monVars, Mutexes, MonLocked, Domains
<1>4. Callers'
  BY <1>0, <1>1 DEF Park, monVars, Callers, Outside, Inside, Domains
<1>5. Awaited'
  BY <1>0, <1>1 DEF Park, monVars, Awaited, Open, DrainLocations, Domains
<1>6. Named' /\ Hand' /\ Runs'
  BY <1>0, SameNamed, SameHand, SameRuns DEF Park, monVars
<1> QED
  BY <1>2, <1>3, <1>4, <1>5, <1>6 DEF LifeInv

LEMMA ReadyInv ==
  ASSUME LifeInv, NEW t \in Threads, Ready(t)
  PROVE  LifeInv'
<1>0. Domains /\ Mutexes /\ Callers /\ Named /\ Hand /\ Runs /\ Awaited
  BY DEF LifeInv
<1>1. Domains'
  BY <1>0 DEF Ready, kqVars, monVars, Domains, Phases, Locations, MonLocations
<1>2. Mutexes'
  BY <1>0 DEF Ready, kqVars, monVars, Mutexes, MonLocked, Domains
<1>3. Callers'
  BY <1>0 DEF Ready, kqVars, monVars, Callers, Outside, Inside, Domains
<1>4. Awaited'
  BY <1>0 DEF Ready, kqVars, monVars, Awaited, Open, DrainLocations, Domains
<1>5. Named' /\ Hand' /\ Runs'
  BY <1>0, SameNamed, SameHand, SameRuns DEF Ready, kqVars, monVars
<1> QED
  BY <1>1, <1>2, <1>3, <1>4, <1>5 DEF LifeInv

LEMMA PipeReadyInv ==
  ASSUME LifeInv, NEW t \in Threads, PipeReady(t)
  PROVE  LifeInv'
<1>0. Domains /\ Mutexes /\ Callers /\ Named /\ Hand /\ Runs /\ Awaited
  BY DEF LifeInv
<1>1. cur[t] \in Kqs
  BY <1>0 DEF PipeReady, Domains, Callers, Outside
<1>2. Domains'
  BY <1>0, <1>1 DEF PipeReady, kqVars, monVars, Domains, Phases, Locations, MonLocations
<1>3. Mutexes'
  BY <1>0, <1>1 DEF PipeReady, kqVars, monVars, Mutexes, MonLocked, Domains
<1>4. Callers'
  BY <1>0, <1>1 DEF PipeReady, kqVars, monVars, Callers, Outside, Inside, Domains
<1>5. Awaited'
  BY <1>0, <1>1 DEF PipeReady, kqVars, monVars, Awaited, Open, DrainLocations, Domains
<1>6. Named' /\ Hand' /\ Runs'
  BY <1>0, SameNamed, SameHand, SameRuns DEF PipeReady, kqVars, monVars
<1> QED
  BY <1>2, <1>3, <1>4, <1>5, <1>6 DEF LifeInv

LEMMA RelockInv ==
  ASSUME LifeInv, NEW t \in Threads, Relock(t)
  PROVE  LifeInv'
<1>0. Domains /\ Mutexes /\ Callers /\ Named /\ Hand /\ Runs /\ Awaited
  BY DEF LifeInv
<1>1. cur[t] \in Kqs
  BY <1>0 DEF Relock, Domains, Callers, Outside
<1>2. wake' \in [Kqs -> BOOLEAN]
  BY ZenonT(30), <1>0, <1>1 DEF Relock, Domains
<1>3. Domains'
  BY <1>0, <1>1, <1>2 DEF Relock, monVars, Domains, Phases, Locations, MonLocations
<1>4. Mutexes'
  BY <1>0, <1>1, <1>2 DEF Relock, monVars, Mutexes, MonLocked, Domains
<1>5. Callers'
  BY <1>0, <1>1, <1>2 DEF Relock, monVars, Callers, Outside, Inside, Domains
<1>6. Awaited'
  BY <1>0, <1>1, <1>2 DEF Relock, monVars, Awaited, Open, DrainLocations, Domains
<1>7. Named' /\ Hand' /\ Runs'
  BY ZenonT(30), <1>0, SameNamed, SameHand, SameRuns DEF Relock, monVars
<1> QED
  BY <1>3, <1>4, <1>5, <1>6, <1>7 DEF LifeInv

LEMMA ExitInv ==
  ASSUME LifeInv, NEW t \in Threads, Exit(t)
  PROVE  LifeInv'
<1>0. Domains /\ Mutexes /\ Callers /\ Named /\ Hand /\ Runs /\ Awaited
  BY DEF LifeInv
<1>1. cur[t] \in Kqs
  BY <1>0 DEF Exit, Domains, Callers, Outside
<1>2. Domains'
  BY <1>0, <1>1 DEF Exit, monVars, Domains, Phases, Locations, MonLocations
<1>3. Mutexes'
  BY <1>0, <1>1 DEF Exit, monVars, Mutexes, MonLocked, Domains
<1>4. Callers'
  BY <1>0, <1>1 DEF Exit, monVars, Callers, Outside, Inside, Domains
<1>5. Awaited'
  BY <1>0, <1>1 DEF Exit, monVars, Awaited, Open, DrainLocations, Domains
<1>6. Named' /\ Hand' /\ Runs'
  BY <1>0, SameNamed, SameHand, SameRuns DEF Exit, monVars
<1> QED
  BY <1>2, <1>3, <1>4, <1>5, <1>6 DEF LifeInv

LEMMA TeardownInv ==
  ASSUME LifeInv, NEW t \in Threads, Teardown(t)
  PROVE  LifeInv'
<1>0. Domains /\ Mutexes /\ Callers /\ Named /\ Hand /\ Runs /\ Awaited
  BY DEF LifeInv
<1>1. cur[t] \in Kqs
  BY SMTT(30), <1>0 DEF Teardown, Domains, Callers, Outside
<1>2. mem[cur[t]] = "freeing" /\ kq_inflight[cur[t]] = {}
  BY <1>0 DEF Teardown, Callers
<1>3. ~Open(cur[t])
  BY <1>0, <1>1, <1>2, OnlyListedOpen
<1>4. fd' = fd
  BY <1>3 DEF Teardown, FreeKq
<1>5. \A u \in Threads : u # t => cur[u] # cur[t]
  BY <1>0, <1>1, <1>2 DEF Callers, Outside, Inside, Domains, Locations, Teardown
<1>6. Domains'
  BY <1>0, <1>1, <1>2, <1>3, <1>4, <1>5 DEF Teardown, monVars, FreeKq, Domains, Phases,
     Locations, MonLocations
<1>7. Mutexes'
  BY SMTT(30), <1>0, <1>1, <1>2, <1>3, <1>4, <1>5 DEF Teardown, monVars, FreeKq, Mutexes,
     MonLocked, Domains
<1>8. Callers'
  BY <1>0, <1>1, <1>2, <1>3, <1>4, <1>5 DEF Teardown, monVars, FreeKq, Callers, Outside,
     Inside, Domains
<1>9. Named'
  BY <1>0, <1>1, <1>2, <1>3, <1>4, <1>5 DEF Teardown, monVars, FreeKq, Named, MapResolves, Domains
<1>10. Hand'
  BY <1>0, <1>1, <1>2, <1>3, <1>4, <1>5 DEF Teardown, monVars, FreeKq, Hand, Open, Ending, Domains
<1>11. Runs'
  BY <1>0, <1>1, <1>2, <1>3, <1>4, <1>5 DEF Teardown, monVars, FreeKq, Runs, Ending, kq_list,
     Domains
<1>12. Awaited'
  BY <1>0, <1>1, <1>2, <1>3, <1>4, <1>5 DEF Teardown, monVars, FreeKq, Awaited, Open,
     DrainLocations, Domains
<1> QED
  BY <1>6, <1>7, <1>8, <1>9, <1>10, <1>11, <1>12 DEF LifeInv

LEMMA DrainInv ==
  ASSUME LifeInv, NEW t \in Threads, Drain(t)
  PROVE  LifeInv'
<1>0. Domains /\ Mutexes /\ Callers /\ Named /\ Hand /\ Runs /\ Awaited
  BY DEF LifeInv
<1>1. {k \in kq_list : ~Open(k)} \in SUBSET Kqs
  BY ListedAreKqs
<1>2. Domains'
  BY <1>0, <1>1 DEF Drain, kqVars, Domains, Phases, Locations, MonLocations
<1>3. Mutexes'
  BY <1>0, <1>1 DEF Drain, kqVars, Mutexes, MonLocked, Domains
<1>4. Callers'
  BY <1>0, <1>1 DEF Drain, kqVars, Callers, Outside, Inside, Domains
<1>5. Awaited'
  BY <1>0, <1>1 DEF Drain, kqVars, Awaited, Open, DrainLocations, Domains, kq_list
<1>6. Named' /\ Hand' /\ Runs'
  BY <1>0, SameNamed, SameHand, SameRuns DEF Drain, kqVars
<1> QED
  BY <1>2, <1>3, <1>4, <1>5, <1>6 DEF LifeInv

LEMMA DrainTestInv ==
  ASSUME LifeInv, NEW t \in Threads, DrainTest(t)
  PROVE  LifeInv'
<1>0. Domains /\ Mutexes /\ Callers /\ Named /\ Hand /\ Runs /\ Awaited
  BY DEF LifeInv
<1>1. Domains'
  BY <1>0 DEF DrainTest, kqVars, monVars, Domains, Phases, Locations, MonLocations
<1>2. Mutexes'
  BY SMTT(30), <1>0 DEF DrainTest, kqVars, monVars, Mutexes, MonLocked, Domains
<1>3. Callers'
  BY SMTT(30), <1>0 DEF DrainTest, kqVars, monVars, Callers, Outside, Inside, Domains
<1>4. Awaited'
  BY <1>0 DEF DrainTest, kqVars, monVars, Awaited, Open, DrainLocations, Domains, Runs, kq_list
<1>5. Named' /\ Hand' /\ Runs'
  BY <1>0, SameNamed, SameHand, SameRuns DEF DrainTest, kqVars, monVars
<1> QED
  BY <1>1, <1>2, <1>3, <1>4, <1>5 DEF LifeInv

LEMMA DrainSleepInv ==
  ASSUME LifeInv, NEW t \in Threads, DrainSleep(t)
  PROVE  LifeInv'
<1>0. Domains /\ Mutexes /\ Callers /\ Named /\ Hand /\ Runs /\ Awaited
  BY DEF LifeInv
<1>1. Domains'
  BY <1>0 DEF DrainSleep, kqVars, monVars, Domains, Phases, Locations, MonLocations
<1>2. Mutexes'
  BY <1>0 DEF DrainSleep, kqVars, monVars, Mutexes, MonLocked, Domains
<1>3. Callers'
  BY <1>0 DEF DrainSleep, kqVars, monVars, Callers, Outside, Inside, Domains
<1>4. Awaited'
  BY <1>0 DEF DrainSleep, kqVars, monVars, Awaited, Open, DrainLocations, Domains
<1>5. Named' /\ Hand' /\ Runs'
  BY <1>0, SameNamed, SameHand, SameRuns DEF DrainSleep, kqVars, monVars
<1> QED
  BY <1>1, <1>2, <1>3, <1>4, <1>5 DEF LifeInv

LEMMA DrainRelockInv ==
  ASSUME LifeInv, NEW t \in Threads, DrainRelock(t)
  PROVE  LifeInv'
<1>0. Domains /\ Mutexes /\ Callers /\ Named /\ Hand /\ Runs /\ Awaited
  BY DEF LifeInv
<1>1. Domains'
  BY <1>0 DEF DrainRelock, kqVars, monVars, Domains, Phases, Locations, MonLocations
<1>2. Mutexes'
  BY <1>0 DEF DrainRelock, kqVars, monVars, Mutexes, MonLocked, Domains
<1>3. Callers'
  BY <1>0 DEF DrainRelock, kqVars, monVars, Callers, Outside, Inside, Domains
<1>4. Awaited'
  BY <1>0 DEF DrainRelock, kqVars, monVars, Awaited, Open, DrainLocations, Domains
<1>5. Named' /\ Hand' /\ Runs'
  BY <1>0, SameNamed, SameHand, SameRuns DEF DrainRelock, kqVars, monVars
<1> QED
  BY <1>1, <1>2, <1>3, <1>4, <1>5 DEF LifeInv

LEMMA MonWaitInv ==
  ASSUME LifeInv, NEW S \in SUBSET Kqs, NEW d \in BOOLEAN, MonWait(S, d)
  PROVE  LifeInv'
<1>0. Domains /\ Mutexes /\ Callers /\ Named /\ Hand /\ Runs /\ Awaited
  BY DEF LifeInv
<1>1. Domains'
  BY <1>0 DEF MonWait, callVars, HupReady, Domains, Phases, Locations, MonLocations
<1>2. Mutexes'
  BY <1>0 DEF MonWait, callVars, HupReady, Mutexes, MonLocked, Domains
<1>3. Hand'
  BY <1>0 DEF MonWait, callVars, HupReady, Hand, Open, Ending, Domains
<1>4. Runs'
  BY <1>0 DEF MonWait, callVars, HupReady, Runs, Ending, kq_list, Domains, Hand
<1>5. Callers' /\ Named' /\ Awaited'
  BY <1>0, SameCallers, SameNamed, SameAwaited DEF MonWait, callVars
<1> QED
  BY <1>1, <1>2, <1>3, <1>4, <1>5 DEF LifeInv

LEMMA MonLockInv ==
  ASSUME LifeInv, MonLock
  PROVE  LifeInv'
<1>0. Domains /\ Mutexes /\ Callers /\ Named /\ Hand /\ Runs /\ Awaited
  BY DEF LifeInv
<1>1. Domains'
  BY <1>0 DEF MonLock, kqVars, callVars, Domains, Phases, Locations, MonLocations
<1>2. Mutexes'
  BY <1>0 DEF MonLock, kqVars, callVars, Mutexes, MonLocked, Domains
<1>3. Hand'
  BY <1>0 DEF MonLock, kqVars, callVars, Hand, Open, Ending, Domains
<1>4. Runs'
  BY <1>0 DEF MonLock, kqVars, callVars, Runs, Ending, kq_list, Domains
<1>5. Callers' /\ Named' /\ Awaited'
  BY <1>0, SameCallers, SameNamed, SameAwaited DEF MonLock, kqVars, callVars
<1> QED
  BY <1>1, <1>2, <1>3, <1>4, <1>5 DEF LifeInv

LEMMA MonCloseInv ==
  ASSUME LifeInv, NEW k \in Kqs, MonClose(k)
  PROVE  LifeInv'
<1>0. Domains /\ Mutexes /\ Callers /\ Named /\ Hand /\ Runs /\ Awaited
  BY DEF LifeInv
<1>1. Domains'
  BY ZenonT(30), <1>0 DEF MonClose, callVars, Unlist, Domains, Phases, Locations, MonLocations
<1>2. Mutexes'
  BY <1>0 DEF MonClose, callVars, Unlist, Mutexes, MonLocked, Domains
<1>3. Callers'
  BY <1>0 DEF MonClose, callVars, Unlist, Callers, Outside, Inside, Domains, Mutexes,
     MonLocked, Hand
<1>4. Named'
  BY <1>0 DEF MonClose, callVars, Unlist, Named, MapResolves, Domains, Hand, Open
<1>5. Hand'
  BY <1>0 DEF MonClose, callVars, Unlist, Hand, Open, Ending, Domains
<1>6. Runs'
  BY <1>0 DEF MonClose, callVars, Unlist, Runs, Ending, kq_list, Domains
<1>7. Awaited'
  BY <1>0 DEF MonClose, callVars, Unlist, Awaited, Open, DrainLocations, Domains
<1> QED
  BY <1>1, <1>2, <1>3, <1>4, <1>5, <1>6, <1>7 DEF LifeInv

LEMMA MonFreeInv ==
  ASSUME LifeInv, MonFree
  PROVE  LifeInv'
<1>0. Domains /\ Mutexes /\ Callers /\ Named /\ Hand /\ Runs /\ Awaited
  BY DEF LifeInv
<1>1. victim \in Kqs /\ mem[victim] = "unlisted"
  BY <1>0 DEF MonFree, Hand, Domains
<1>2. ~Open(victim)
  BY <1>0, <1>1, OnlyListedOpen
<1>3. fd' = fd
  BY <1>2 DEF MonFree, FreeKq
<1>4. kq_inflight[victim] = {} => \A t \in Threads : cur[t] # victim
  BY <1>0, <1>1, NobodyInside
<1>5. Interrupted(victim) \in [Kqs -> BOOLEAN]
  BY DEF Interrupted
<1>6. wake' \in [Kqs -> BOOLEAN]
  BY ZenonT(30), <1>0, <1>1, <1>5 DEF MonFree, FreeKq, Domains
<1>7. /\ mem' \in [Kqs -> Phases] /\ kq_id' \in [Kqs -> Fds \cup {NoFd}]
      /\ armed' \in SUBSET Kqs /\ owed' \in [Threads -> SUBSET Kqs]
  BY <1>0, <1>1 DEF MonFree, FreeKq, Domains, Phases
<1>8. Domains'
  BY <1>0, <1>3, <1>6, <1>7 DEF MonFree, Domains, MonLocations
<1>9. Mutexes'
  BY <1>0, <1>1, <1>2, <1>3, <1>4 DEF MonFree, FreeKq, Interrupted, Mutexes, MonLocked, Domains
<1>10. Callers'
  BY SMTT(30), <1>0, <1>1, <1>2, <1>3, <1>4 DEF MonFree, FreeKq, Interrupted, Callers, Outside,
     Inside, Domains
<1>11. Named'
  BY SMTT(30), <1>0, <1>1, <1>2, <1>3, <1>4 DEF MonFree, FreeKq, Interrupted, Named, MapResolves,
     Domains
<1>12. Hand'
  BY <1>0, <1>1, <1>2, <1>3, <1>4 DEF MonFree, FreeKq, Interrupted, Hand, Open, Ending, Domains
<1>13. Runs'
  BY <1>0, <1>1, <1>2, <1>3, <1>4 DEF MonFree, FreeKq, Interrupted, Runs, Ending, kq_list, Domains
<1>14. Awaited'
  BY <1>0, <1>1, <1>2, <1>3, <1>4 DEF MonFree, FreeKq, Interrupted, Awaited, Open,
     DrainLocations, Domains
<1> QED
  BY <1>8, <1>9, <1>10, <1>11, <1>12, <1>13, <1>14 DEF LifeInv

LEMMA MonDrainInv ==
  ASSUME LifeInv, MonDrain
  PROVE  LifeInv'
<1>0. Domains /\ Mutexes /\ Callers /\ Named /\ Hand /\ Runs /\ Awaited
  BY DEF LifeInv
<1>1. Domains'
  BY ZenonT(30), <1>0 DEF MonDrain, kqVars, callVars, Domains, Phases, Locations, MonLocations
<1>2. Mutexes' /\ Callers' /\ Named' /\ Hand' /\ Runs' /\ Awaited'
  BY <1>0, SameMutexes, SameCallers, SameNamed, SameHand, SameRuns, SameAwaited
     DEF MonDrain, kqVars, callVars
<1> QED
  BY <1>1, <1>2 DEF LifeInv

LEMMA MonSweepInv ==
  ASSUME LifeInv, NEW S \in SUBSET Kqs, MonSweep(S)
  PROVE  LifeInv'
<1>0. Domains /\ Mutexes /\ Callers /\ Named /\ Hand /\ Runs /\ Awaited
  BY DEF LifeInv
<1>1. Domains'
  BY <1>0 DEF MonSweep, callVars, HupReady, Domains, Phases, Locations, MonLocations
<1>2. Hand'
  BY <1>0 DEF MonSweep, callVars, HupReady, Hand, Open, Ending, Domains
<1>3. Runs'
  BY <1>0 DEF MonSweep, callVars, HupReady, Runs, Ending, kq_list, Domains
<1>4. Mutexes' /\ Callers' /\ Named' /\ Awaited'
  BY <1>0, SameMutexes, SameCallers, SameNamed, SameAwaited DEF MonSweep, callVars
<1> QED
  BY <1>1, <1>2, <1>3, <1>4 DEF LifeInv

LEMMA MonAckInv ==
  ASSUME LifeInv, MonAck
  PROVE  LifeInv'
<1>0. Domains /\ Mutexes /\ Callers /\ Named /\ Hand /\ Runs /\ Awaited
  BY DEF LifeInv
<1>1. Domains'
  BY <1>0 DEF MonAck, kqVars, Broadcast, Domains, Phases, Locations, MonLocations
<1>2. Mutexes'
  BY SMTT(30), <1>0 DEF MonAck, kqVars, Broadcast, Mutexes, MonLocked, Domains
<1>3. Callers'
  BY SMTT(30), <1>0 DEF MonAck, kqVars, Broadcast, Callers, Outside, Inside, Domains
<1>4. Awaited'
  BY <1>0 DEF MonAck, kqVars, Broadcast, Awaited, Open, DrainLocations, Domains, Runs, Hand,
     HupReady, kq_list
<1>5. Named' /\ Hand' /\ Runs'
  BY SMTT(30), <1>0, SameNamed, SameHand, SameRuns DEF MonAck, kqVars
<1> QED
  BY <1>1, <1>2, <1>3, <1>4, <1>5 DEF LifeInv

LEMMA MonLoopInv ==
  ASSUME LifeInv, MonLoop
  PROVE  LifeInv'
<1>0. Domains /\ Mutexes /\ Callers /\ Named /\ Hand /\ Runs /\ Awaited
  BY DEF LifeInv
<1>1. Domains'
  BY <1>0 DEF MonLoop, kqVars, callVars, Domains, Phases, Locations, MonLocations
<1>2. Mutexes'
  BY <1>0 DEF MonLoop, kqVars, callVars, Mutexes, MonLocked, Domains
<1>3. Hand'
  BY <1>0 DEF MonLoop, kqVars, callVars, Hand, Open, Ending, Domains
<1>4. Runs'
  BY <1>0 DEF MonLoop, kqVars, callVars, Runs, Ending, kq_list, Domains
<1>5. Callers' /\ Named' /\ Awaited'
  BY <1>0, SameCallers, SameNamed, SameAwaited DEF MonLoop, kqVars, callVars
<1> QED
  BY <1>1, <1>2, <1>3, <1>4, <1>5 DEF LifeInv

LEMMA MonExitInv ==
  ASSUME LifeInv, MonExit
  PROVE  LifeInv'
<1>0. Domains /\ Mutexes /\ Callers /\ Named /\ Hand /\ Runs /\ Awaited
  BY DEF LifeInv
<1>1. Domains'
  BY ZenonT(30), <1>0 DEF MonExit, kqVars, Broadcast, Domains, Phases, Locations, MonLocations
<1>2. Mutexes'
  BY <1>0 DEF MonExit, kqVars, Broadcast, Mutexes, MonLocked, Domains
<1>3. Callers'
  BY <1>0 DEF MonExit, kqVars, Broadcast, Callers, Outside, Inside, Domains
<1>4. Hand'
  BY <1>0 DEF MonExit, kqVars, Broadcast, Hand, Open, Ending, Domains
<1>5. Runs'
  BY <1>0 DEF MonExit, kqVars, Broadcast, Runs, Ending, kq_list, Domains
<1>6. Awaited'
  BY <1>0 DEF MonExit, kqVars, Broadcast, Awaited, Open, DrainLocations, Domains
<1>7. Named'
  BY <1>0, SameNamed DEF MonExit, kqVars
<1> QED
  BY <1>1, <1>2, <1>3, <1>4, <1>5, <1>6, <1>7 DEF LifeInv

LEMMA ExitCancelInv ==
  ASSUME LifeInv, ExitCancel
  PROVE  LifeInv'
<1>0. Domains /\ Mutexes /\ Callers /\ Named /\ Hand /\ Runs /\ Awaited
  BY DEF LifeInv
<1>1. Domains'
  BY SMTT(30), <1>0 DEF ExitCancel, kqVars, callVars, Domains, Phases, Locations, MonLocations
<1>2. Runs'
  BY <1>0 DEF ExitCancel, kqVars, callVars, Runs, Ending, kq_list, Domains
<1>3. Awaited'
  BY <1>0 DEF ExitCancel, kqVars, callVars, Awaited, Open, DrainLocations, Domains
<1>4. Mutexes' /\ Callers' /\ Named' /\ Hand'
  BY <1>0, SameMutexes, SameCallers, SameNamed, SameHand DEF ExitCancel, kqVars, callVars
<1> QED
  BY <1>1, <1>2, <1>3, <1>4 DEF LifeInv

LEMMA ExitJoinInv ==
  ASSUME LifeInv, ExitJoin
  PROVE  LifeInv'
<1>0. Domains /\ Mutexes /\ Callers /\ Named /\ Hand /\ Runs /\ Awaited
  BY DEF LifeInv
<1>1. Domains'
  BY <1>0 DEF ExitJoin, kqVars, callVars, monVars, Domains, Phases, Locations, MonLocations
<1>2. Runs'
  BY SMTT(30), <1>0 DEF ExitJoin, kqVars, callVars, monVars, Runs, Ending, kq_list, Domains
<1>3. Awaited'
  BY <1>0 DEF ExitJoin, kqVars, callVars, monVars, Awaited, Open, DrainLocations, Domains
<1>4. Mutexes' /\ Callers' /\ Named' /\ Hand'
  BY SMTT(30), <1>0, SameMutexes, SameCallers, SameNamed, SameHand DEF ExitJoin, kqVars, callVars,
     monVars
<1> QED
  BY <1>1, <1>2, <1>3, <1>4 DEF LifeInv

LEMMA MonCancelInv ==
  ASSUME LifeInv, MonCancel
  PROVE  LifeInv'
<1>0. Domains /\ Mutexes /\ Callers /\ Named /\ Hand /\ Runs /\ Awaited
  BY DEF LifeInv
<1>1. Domains'
  BY SMTT(30), <1>0 DEF MonCancel, kqVars, callVars, Domains, Phases, Locations, MonLocations
<1>2. Mutexes'
  BY SMTT(30), <1>0 DEF MonCancel, kqVars, callVars, Mutexes, MonLocked, Domains
<1>3. Hand'
  BY SMTT(30), <1>0 DEF MonCancel, kqVars, callVars, Hand, Open, Ending, Domains
<1>4. Runs'
  BY <1>0 DEF MonCancel, kqVars, callVars, Runs, Ending, kq_list, Domains
<1>5. Callers' /\ Named' /\ Awaited'
  BY SMTT(30), <1>0, SameCallers, SameNamed, SameAwaited DEF MonCancel, kqVars, callVars
<1> QED
  BY <1>1, <1>2, <1>3, <1>4, <1>5 DEF LifeInv

LEMMA MonCleanupInv ==
  ASSUME LifeInv, MonCleanup
  PROVE  LifeInv'
<1>0. Domains /\ Mutexes /\ Callers /\ Named /\ Hand /\ Runs /\ Awaited
  BY DEF LifeInv
<1>1. Domains'
  BY <1>0, ListedAreKqs DEF MonCleanup, kqVars, callVars, Domains, Phases, Locations, MonLocations
<1>2. Mutexes'
  BY <1>0 DEF MonCleanup, kqVars, callVars, Mutexes, MonLocked, Domains
<1>3. Hand'
  BY <1>0 DEF MonCleanup, kqVars, callVars, Hand, Open, Ending, Domains, kq_list
<1>4. Runs'
  BY <1>0 DEF MonCleanup, kqVars, callVars, Runs, Ending, kq_list, Domains
<1>5. Callers' /\ Named' /\ Awaited'
  BY SMTT(30), <1>0, SameCallers, SameNamed, SameAwaited DEF MonCleanup, kqVars, callVars
<1> QED
  BY <1>1, <1>2, <1>3, <1>4, <1>5 DEF LifeInv

LEMMA MonCleanupFreeInv ==
  ASSUME LifeInv, NEW k \in Kqs, MonCleanupFree(k)
  PROVE  LifeInv'
<1>0. Domains /\ Mutexes /\ Callers /\ Named /\ Hand /\ Runs /\ Awaited
  BY DEF LifeInv
<1>1. mem[k] = "listed"
  BY <1>0 DEF MonCleanupFree, Hand
<1>2. ~Open(k)
  BY SMTT(30), <1>0 DEF MonCleanupFree, Named, MapResolves, Open, Domains
<1>3. Domains'
  BY ZenonT(30), <1>0, <1>1, <1>2 DEF MonCleanupFree, callVars, Unlist, Domains, Phases,
     Locations, MonLocations
<1>4. Mutexes'
  BY <1>0, <1>1, <1>2 DEF MonCleanupFree, callVars, Unlist, Mutexes, MonLocked, Domains
<1>5. Callers'
  BY <1>0, <1>1 DEF MonCleanupFree, callVars, Unlist, Callers, Outside, Inside, Domains,
     Mutexes, MonLocked
<1>6. Named'
  BY SMTT(30), <1>0, <1>1, <1>2 DEF MonCleanupFree, callVars, Unlist, Named, MapResolves, Domains,
     Open
<1>7. Hand'
  BY SMTT(30), <1>0, <1>1, <1>2 DEF MonCleanupFree, callVars, Unlist, Hand, Open, Ending, Domains
<1>8. Runs'
  BY SMTT(30), <1>0, <1>1, <1>2 DEF MonCleanupFree, callVars, Unlist, Runs, Ending, kq_list, Domains
<1>9. Awaited'
  BY <1>0, <1>1, <1>2 DEF MonCleanupFree, callVars, Unlist, Awaited, Open, DrainLocations, Domains
<1> QED
  BY <1>3, <1>4, <1>5, <1>6, <1>7, <1>8, <1>9 DEF LifeInv

LEMMA MonCleanupSkipInv ==
  ASSUME LifeInv, NEW k \in Kqs, MonCleanupSkip(k)
  PROVE  LifeInv'
<1>0. Domains /\ Mutexes /\ Callers /\ Named /\ Hand /\ Runs /\ Awaited
  BY DEF LifeInv
<1>1. Domains'
  BY <1>0 DEF MonCleanupSkip, callVars, Interrupted, Domains, Phases, Locations, MonLocations
<1>2. Hand'
  BY <1>0 DEF MonCleanupSkip, callVars, Interrupted, Hand, Open, Ending, Domains
<1>3. Runs'
  BY <1>0 DEF MonCleanupSkip, callVars, Interrupted, Runs, Ending, kq_list, Domains
<1>4. Mutexes' /\ Callers' /\ Named' /\ Awaited'
  BY SMTT(30), <1>0, SameMutexes, SameCallers, SameNamed, SameAwaited DEF MonCleanupSkip, callVars
<1> QED
  BY SMTT(30), <1>1, <1>2, <1>3, <1>4 DEF LifeInv

LEMMA MonCleanupUnlockInv ==
  ASSUME LifeInv, MonCleanupUnlock
  PROVE  LifeInv'
<1>0. Domains /\ Mutexes /\ Callers /\ Named /\ Hand /\ Runs /\ Awaited
  BY DEF LifeInv
<1>1. Domains'
  BY SMTT(30), <1>0 DEF MonCleanupUnlock, kqVars, callVars, Domains, Phases, Locations, MonLocations
<1>2. Mutexes'
  BY SMTT(30), <1>0 DEF MonCleanupUnlock, kqVars, callVars, Mutexes, MonLocked, Domains
<1>3. Hand'
  BY SMTT(30), <1>0 DEF MonCleanupUnlock, kqVars, callVars, Hand, Open, Ending, Domains
<1>4. Runs'
  BY <1>0 DEF MonCleanupUnlock, kqVars, callVars, Runs, Ending, kq_list, Domains
<1>5. Callers' /\ Named' /\ Awaited'
  BY SMTT(30), <1>0, SameCallers, SameNamed, SameAwaited DEF MonCleanupUnlock, kqVars, callVars
<1> QED
  BY <1>1, <1>2, <1>3, <1>4, <1>5 DEF LifeInv

LEMMA MonClearInv ==
  ASSUME LifeInv, MonClear
  PROVE  LifeInv'
<1>0. Domains /\ Mutexes /\ Callers /\ Named /\ Hand /\ Runs /\ Awaited
  BY DEF LifeInv
<1>1. Domains'
  BY ZenonT(30), <1>0 DEF MonClear, kqVars, Broadcast, Domains, Phases, Locations, MonLocations
<1>2. Mutexes'
  BY <1>0 DEF MonClear, kqVars, Broadcast, Mutexes, MonLocked, Domains
<1>3. Callers'
  BY <1>0 DEF MonClear, kqVars, Broadcast, Callers, Outside, Inside, Domains
<1>4. Hand'
  BY SMTT(30), <1>0 DEF MonClear, kqVars, Broadcast, Hand, Open, Ending, Domains
<1>5. Runs'
  BY SMTT(30), <1>0 DEF MonClear, kqVars, Broadcast, Runs, Ending, kq_list, Domains
<1>6. Awaited'
  BY <1>0 DEF MonClear, kqVars, Broadcast, Awaited, Open, DrainLocations, Domains
<1>7. Named'
  BY <1>0, SameNamed DEF MonClear, kqVars
<1> QED
  BY <1>1, <1>2, <1>3, <1>4, <1>5, <1>6, <1>7 DEF LifeInv

LEMMA StutterInv ==
  ASSUME LifeInv, UNCHANGED vars
  PROVE  LifeInv'
<1>1. Domains'
  BY DEF LifeInv, Domains, vars
<1> QED
  BY SMTT(30), <1>1, SameMutexes, SameCallers, SameNamed, SameHand, SameRuns,
     SameAwaited DEF LifeInv, vars

LEMMA LifeInit ==
  ASSUME Init
  PROVE  LifeInv
<1>1. Domains
  BY ZenonT(30) DEF Init, Domains, Phases, Locations, MonLocations
<1>2. Mutexes /\ Callers
  BY DEF Init, Mutexes, MonLocked, Callers, Outside, Inside
<1>3. Named /\ Hand /\ Runs /\ Awaited
  BY DEF Init, Named, MapResolves, Hand, Open, Ending, Runs, kq_list, Awaited, DrainLocations
<1> QED
  BY <1>1, <1>2, <1>3 DEF LifeInv

LEMMA LifeStep ==
  ASSUME LifeInv, [Next]_vars
  PROVE  LifeInv'
<1>1. ASSUME NEW t \in Threads, Call(t) PROVE LifeInv'
  BY <1>1, KqueueInv, LookupInv, DrainInv, ReadyInv DEF Call
<1>2. ASSUME NEW t \in Threads, Step(t) PROVE LifeInv'
  BY <1>2, LockKqInv, ParkInv, PipeReadyInv, RelockInv, ExitInv, TeardownInv,
     DrainTestInv, DrainSleepInv, DrainRelockInv DEF Step
<1>3. ASSUME NEW f \in Fds, Close(f) \/ OpenOther(f) PROVE LifeInv'
  BY <1>3, CloseInv, OpenOtherInv
<1>4. CASE MonStep
  BY <1>4, MonWaitInv, MonSweepInv, MonCloseInv, MonLockInv, MonFreeInv, MonDrainInv,
     MonAckInv, MonLoopInv, MonExitInv DEF MonStep
<1>5. CASE ExitStep
  BY <1>5, ExitCancelInv, ExitJoinInv, MonCancelInv, MonCleanupInv, MonCleanupUnlockInv,
     MonClearInv, MonCleanupFreeInv, MonCleanupSkipInv DEF ExitStep
<1>6. CASE UNCHANGED vars
  BY <1>6, StutterInv
<1> QED
  BY <1>1, <1>2, <1>3, <1>4, <1>5, <1>6 DEF Next, RunNext

LEMMA LifeInvariance == Spec => []LifeInv
  BY LifeInit, LifeStep, PTL DEF Spec

\* Every mutex has the owner that the places of the threads say.
THEOREM TypeOKHolds == Spec => []TypeOK
<1>1. LifeInv => TypeOK
  BY DEF LifeInv, Domains, Mutexes, TypeOK
<1> QED
  BY <1>1, LifeInvariance, PTL

\* No caller of kevent(), however long it was parked, and no event the monitoring
\* thread works on, has a pointer to a struct kqueue that was freed; and none is
\* passed to kqueue_free twice.
THEOREM PointersLiveHolds == Spec => []PointersLive
<1>1. LifeInv => PointersLive
  BY SMTT(30) DEF LifeInv, Callers, Hand, PointersLive
<1> QED
  BY <1>1, LifeInvariance, PTL

\* kqmap resolves every open kqueue to itself, across reuse of descriptor
\* numbers, and nothing resolves to one that kqueue_free has started on.
THEOREM MapResolvesHolds == Spec => []MapResolves
<1>1. LifeInv => MapResolves
  BY DEF LifeInv, Named
<1> QED
  BY <1>1, LifeInvariance, PTL

\* A free that kqueue_free has deferred is completed by one thread: there are
\* callers inside, or exactly one that was the last of them.
THEOREM DeferredHasOwnerHolds == Spec => []DeferredHasOwner
<1>1. LifeInv => DeferredHasOwner
  <2> SUFFICES ASSUME LifeInv, NEW k \in Kqs, mem[k] = "freeing"
               PROVE  LET tearing == {t \in Threads : pc[t] = "teardown" /\ cur[t] = k}
                      IN  IF kq_inflight[k] # {} THEN tearing = {}
                          ELSE \E t \in Threads : tearing = {t}
    BY SMTT(30) DEF DeferredHasOwner
  <2> DEFINE tearing == {t \in Threads : pc[t] = "teardown" /\ cur[t] = k}
  <2>1. CASE kq_inflight[k] # {}
    BY <2>1 DEF LifeInv, Callers
  <2>2. CASE kq_inflight[k] = {}
    <3>1. PICK t \in Threads : pc[t] = "teardown" /\ cur[t] = k
      BY SMTT(30), <2>2 DEF LifeInv, Callers
    <3>2. tearing = {t}
      BY <3>1 DEF LifeInv, Callers
    <3> QED
      BY SMTT(30), <2>2, <3>2
  <2> QED
    BY <2>1, <2>2
<1> QED
  BY <1>1, LifeInvariance, PTL

\* Until exit() the monitoring thread runs and waits for, or is dealing with, the
\* close of every kqueue on kq_list.
THEOREM MonitoredHolds == Spec => []Monitored
<1>1. LifeInv => Monitored
  BY DEF LifeInv, Runs, Monitored
<1> QED
  BY <1>1, LifeInvariance, PTL

\* libkqueue_drain_pending_close returns only after kqueue_free was called for
\* every kqueue that was closed before.
THEOREM DrainFlushedHolds == Spec => []DrainFlushed
<1>1. LifeInv => DrainFlushed
  BY DEF LifeInv, Awaited, DrainLocations, DrainFlushed
<1> QED
  BY <1>1, LifeInvariance, PTL

\* exit() never joins a monitoring thread that has detached itself.
THEOREM JoinsJoinableHolds == Spec => []JoinsJoinable
<1>1. LifeInv => JoinsJoinable
  BY DEF LifeInv, Runs, JoinsJoinable
<1> QED
  BY <1>1, LifeInvariance, PTL
==============================================================================
