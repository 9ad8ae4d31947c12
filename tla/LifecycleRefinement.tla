---------------------------- MODULE LifecycleRefinement ----------------------------
(***************************************************************************)
(* Lifecycle implements KqueueObject, for any threads, struct kqueues and  *)
(* descriptor numbers: each of its steps is a step of one kqueue's life or *)
(* leaves every life and every user alone.                                 *)
(***************************************************************************)
EXTENDS LifecycleProofs

USE OwnersAssumption, ValuesAssumption

Life == [k \in Kqs |-> LifeOf(k)]
Users == [k \in Kqs |-> {t \in Threads : cur[t] = k /\ pc[t] # "teardown"}]

LEMMA SameLife ==
  ASSUME mem' = mem, \A k \in Kqs : Open(k)' <=> Open(k)
  PROVE  Life' = Life
<1>1. ASSUME NEW k \in Kqs PROVE LifeOf(k)' = LifeOf(k)
  <2>1. CASE Open(k)
    BY <2>1 DEF LifeOf
  <2>2. CASE ~Open(k)
    BY <2>2 DEF LifeOf
  <2> QED
    BY <2>1, <2>2
<1> QED
  BY <1>1 DEF Life

LEMMA SameUsers ==
  ASSUME cur' = cur, \A t \in Threads : pc'[t] = "teardown" <=> pc[t] = "teardown"
  PROVE  Users' = Users
  BY DEF Users

\* The life of one kqueue goes on.
LEMMA LifeOfOne ==
  ASSUME NEW k \in Kqs, NEW l, LifeOf(k)' = l,
         \A x \in Kqs : x # k => LifeOf(x)' = LifeOf(x)
  PROVE  Life' = [Life EXCEPT ![k] = l]
  BY ZenonT(30) DEF Life

LEMMA CreateStep ==
  ASSUME LifeInv, NEW t \in Threads, NEW k \in Kqs, NEW f \in Fds, Kqueue(t, k, f)
  PROVE  KO!Create(k)
<1>0. Domains /\ Named
  BY DEF LifeInv
<1>1. /\ mem[k] = "free" /\ fd[f] = Closed /\ mem' = [mem EXCEPT ![k] = "listed"]
      /\ fd' = [fd EXCEPT ![f] = k] /\ UNCHANGED <<pc, cur>>
  BY DEF Kqueue, callVars
<1>2. mem'[k] = "listed" /\ \A x \in Kqs : x # k => mem'[x] = mem[x]
  BY <1>0, <1>1 DEF Domains
<1>3. Open(k)' /\ \A x \in Kqs : x # k => (Open(x)' <=> Open(x))
  BY <1>0, <1>1 DEF Domains, Open
<1>4. LifeOf(k) = "none" /\ LifeOf(k)' = "open" /\ \A x \in Kqs : x # k => LifeOf(x)' = LifeOf(x)
  BY <1>1, <1>2, <1>3 DEF LifeOf
<1>5. Life[k] = "none" /\ Life' = [Life EXCEPT ![k] = "open"]
  BY <1>4, LifeOfOne DEF Life
<1>6. Users' = Users
  BY <1>1, SameUsers
<1> QED
  BY <1>5, <1>6 DEF KO!Create, Life, Users

\* close(2) of a kqueue, or of something else; or open(2) of something else.
LEMMA DescriptorStep ==
  ASSUME LifeInv, NEW f \in Fds, Close(f) \/ OpenOther(f)
  PROVE  (\E k \in Kqs : KO!Close(k)) \/ (Life' = Life /\ Users' = Users)
<1>0. Domains /\ Named
  BY DEF LifeInv
<1>1. UNCHANGED <<mem, pc, cur>> /\ \A g \in Fds : g # f => fd'[g] = fd[g]
  BY <1>0 DEF Close, OpenOther, callVars, Domains
<1>2. Users' = Users
  BY <1>1, SameUsers
<1>3. fd'[f] \notin Kqs
  BY <1>0 DEF Close, OpenOther, Domains
<1>4. CASE fd[f] \in Kqs
  <2>0. PICK k \in Kqs : k = fd[f]
    BY <1>4
  <2>1. mem[k] = "listed" /\ \A g \in Fds : fd[g] = k => g = f
    BY <1>0, <2>0 DEF Named, MapResolves, Domains
  <2>2. Open(k) /\ ~Open(k)' /\ \A x \in Kqs : x # k => (Open(x)' <=> Open(x))
    BY <1>0, <1>1, <1>3, <2>0, <2>1 DEF Open
  <2>3. /\ LifeOf(k) = "open" /\ LifeOf(k)' = "closed"
        /\ \A x \in Kqs : x # k => LifeOf(x)' = LifeOf(x)
    BY <1>1, <2>1, <2>2 DEF LifeOf
  <2>4. Life[k] = "open" /\ Life' = [Life EXCEPT ![k] = "closed"]
    BY <2>3, LifeOfOne DEF Life
  <2>5. KO!Close(k)
    BY <1>2, <2>4 DEF KO!Close, Life, Users
  <2> QED
    BY <2>5
<1>5. CASE fd[f] \notin Kqs
  <2>1. \A x \in Kqs : Open(x)' <=> Open(x)
    BY <1>0, <1>1, <1>3, <1>5 DEF Open
  <2> QED
    BY <1>1, <1>2, <2>1, SameLife
<1> QED
  BY <1>4, <1>5

LEMMA EnterStep ==
  ASSUME LifeInv, NEW t \in Threads, NEW f \in Fds, Lookup(t, f)
  PROVE  \E k \in Kqs : KO!Enter(t, k)
<1>0. Domains /\ Callers /\ Named
  BY DEF LifeInv
<1>1. PICK k \in Kqs : k = kqmap[f] /\ mem[k] = "listed"
  BY <1>0 DEF Domains, Named, MapResolves, Lookup
<1>2. /\ pc[t] = "idle" /\ cur[t] = NoKq /\ UNCHANGED <<mem, fd>>
      /\ cur' = [cur EXCEPT ![t] = k] /\ pc' = [pc EXCEPT ![t] = "lookup"]
  BY <1>0, <1>1 DEF Lookup, Callers, Outside, kqVars
<1>3. Life' = Life
  BY <1>2, SameLife DEF Open
<1>4. Life[k] \in {"open", "closed"}
  BY <1>1 DEF Life, LifeOf
<1>5. t \notin Users[k]
  BY <1>1, <1>2 DEF Users
<1>6. Users' = [Users EXCEPT ![k] = @ \cup {t}]
  <2>1. \A u \in Threads, x \in Kqs :
          (cur'[u] = x /\ pc'[u] # "teardown") <=>
          (cur[u] = x /\ pc[u] # "teardown") \/ (u = t /\ x = k)
    BY <1>0, <1>1, <1>2 DEF Domains
  <2>2. Users' = [x \in Kqs |-> Users[x] \cup (IF x = k THEN {t} ELSE {})]
    BY <2>1 DEF Users
  <2>3. [Users EXCEPT ![k] = @ \cup {t}] =
          [x \in Kqs |-> IF x = k THEN Users[k] \cup {t} ELSE Users[x]]
    BY DEF Users
  <2> QED
    BY ZenonT(30), <2>2, <2>3
<1> QED
  BY ZenonT(30), <1>1, <1>3, <1>4, <1>5, <1>6 DEF KO!Enter, Life, Users

LEMMA LeaveStep ==
  ASSUME LifeInv, NEW t \in Threads, Exit(t)
  PROVE  \E k \in Kqs : KO!Leave(t, k)
<1>0. Domains /\ Callers
  BY DEF LifeInv
<1>1. PICK k \in Kqs : k = cur[t] /\ pc[t] \in {"copyin", "copyout"} /\ UNCHANGED <<mem, fd>>
  BY <1>0 DEF Domains, Callers, Outside, Exit
<1>2. /\ \A u \in Threads : u # t => cur'[u] = cur[u] /\ pc'[u] = pc[u]
      /\ cur'[t] = NoKq \/ (pc'[t] = "teardown" /\ cur' = cur)
  BY <1>0 DEF Exit, Domains
<1>3. Life' = Life
  BY <1>1, SameLife DEF Open
<1>4. t \in Users[k]
  BY <1>1 DEF Users
<1>5. Users' = [Users EXCEPT ![k] = @ \ {t}]
  <2>1. \A u \in Threads, x \in Kqs :
          (cur'[u] = x /\ pc'[u] # "teardown") <=>
          (cur[u] = x /\ pc[u] # "teardown") /\ ~(u = t /\ x = k)
    BY <1>0, <1>1, <1>2 DEF Domains
  <2>2. Users' = [x \in Kqs |-> Users[x] \ (IF x = k THEN {t} ELSE {})]
    BY <2>1 DEF Users
  <2>3. [Users EXCEPT ![k] = @ \ {t}] = [x \in Kqs |-> IF x = k THEN Users[k] \ {t} ELSE Users[x]]
    BY DEF Users
  <2> QED
    BY ZenonT(30), <2>2, <2>3
<1> QED
  BY ZenonT(30), <1>1, <1>3, <1>4, <1>5 DEF KO!Leave, Life, Users

LEMMA RetireStep ==
  ASSUME LifeInv, NEW k \in Kqs, MonClose(k) \/ MonCleanupFree(k)
  PROVE  KO!Retire(k)
<1>0. Domains /\ Named /\ Hand
  BY DEF LifeInv
<1>1. mem[k] = "listed" /\ ~Open(k)
  <2>1. mem[k] = "listed"
    BY <1>0 DEF MonClose, MonCleanupFree, Hand
  <2>2. CASE MonClose(k)
    BY <1>0, <2>1, <2>2 DEF MonClose, Hand
  <2>3. CASE MonCleanupFree(k)
    BY <1>0, <2>1, <2>3 DEF MonCleanupFree, Named, MapResolves, Open, Domains
  <2> QED
    BY <2>1, <2>2, <2>3
<1>2. mem' = [mem EXCEPT ![k] = "unlisted"] /\ UNCHANGED <<fd, pc, cur>>
  BY DEF MonClose, MonCleanupFree, Unlist, callVars
<1>3. mem'[k] = "unlisted" /\ \A x \in Kqs : mem'[x] = IF x = k THEN "unlisted" ELSE mem[x]
  BY <1>0, <1>2 DEF Domains
<1>4. \A x \in Kqs : Open(x)' <=> Open(x)
  BY <1>2 DEF Open
<1>5. /\ LifeOf(k) = "closed" /\ LifeOf(k)' = "retired"
      /\ \A x \in Kqs : x # k => LifeOf(x)' = LifeOf(x)
  BY <1>1, <1>3, <1>4 DEF LifeOf
<1>6. Life[k] = "closed" /\ Life' = [Life EXCEPT ![k] = "retired"]
  BY <1>5, LifeOfOne DEF Life
<1>7. Users' = Users
  BY <1>2, SameUsers
<1> QED
  BY <1>6, <1>7 DEF KO!Retire, Life, Users

\* What linux_kqueue_free and free() do to a kqueue nobody uses.
LEMMA DestroyStep ==
  ASSUME LifeInv, NEW k \in Kqs, mem[k] \in {"unlisted", "freeing"}, FreeKq(k),
         Users[k] = {}, Users' = Users
  PROVE  KO!Destroy(k)
<1>0. Domains /\ Named
  BY DEF LifeInv
<1>1. ~Open(k)
  BY <1>0, OnlyListedOpen
<1>2. fd' = fd /\ \A x \in Kqs : mem'[x] = IF x = k THEN "free" ELSE mem[x]
  BY <1>0, <1>1 DEF FreeKq, Domains
<1>3. \A x \in Kqs : Open(x)' <=> Open(x)
  BY <1>2 DEF Open
<1>4. LifeOf(k) = "retired" /\ LifeOf(k)' = "none" /\ \A x \in Kqs : x # k => LifeOf(x)' = LifeOf(x)
  BY <1>2, <1>3 DEF LifeOf
<1>5. Life[k] = "retired" /\ Life' = [Life EXCEPT ![k] = "none"]
  BY <1>4, LifeOfOne DEF Life
<1> QED
  BY <1>5 DEF KO!Destroy, Life, Users

LEMMA TeardownStep ==
  ASSUME LifeInv, NEW t \in Threads, Teardown(t)
  PROVE  \E k \in Kqs : KO!Destroy(k)
<1>0. Domains /\ Callers
  BY DEF LifeInv
<1>1. cur[t] \in Kqs /\ pc[t] = "teardown" /\ mem[cur[t]] = "freeing" /\ kq_inflight[cur[t]] = {}
  BY <1>0 DEF Domains, Callers, Outside, Teardown
<1>2. \A u \in Threads : cur[u] = cur[t] => pc[u] = "teardown"
  BY <1>0, <1>1 DEF Callers, Outside, Inside, Domains, Locations
<1>3. \A u \in Threads : cur'[u] = (IF u = t THEN NoKq ELSE cur[u]) /\ (u # t => pc'[u] = pc[u])
  BY <1>0 DEF Teardown, Domains
<1>4. Users[cur[t]] = {}
  BY <1>1, <1>2 DEF Users
<1>5. Users' = Users
  BY <1>1, <1>3 DEF Users
<1>6. KO!Destroy(cur[t])
  BY <1>1, <1>4, <1>5, DestroyStep DEF Teardown
<1> QED
  BY <1>1, <1>6

\* kqueue_free with the kqueue locked: it is destroyed, or stays retired.
LEMMA FreeStep ==
  ASSUME LifeInv, MonFree
  PROVE  (\E k \in Kqs : KO!Destroy(k)) \/ (Life' = Life /\ Users' = Users)
<1>0. Domains /\ Callers /\ Named /\ Hand
  BY DEF LifeInv
<1>1. victim \in Kqs /\ mem[victim] = "unlisted"
  BY <1>0 DEF MonFree, Hand, Domains
<1>2. Users' = Users
  BY SameUsers DEF MonFree
<1>3. CASE kq_inflight[victim] = {}
  <2>1. \A t \in Threads : cur[t] # victim
    BY <1>0, <1>1, <1>3, NobodyInside
  <2>2. Users[victim] = {}
    BY <1>1, <2>1 DEF Users
  <2>3. FreeKq(victim)
    BY <1>3 DEF MonFree
  <2> QED
    BY <1>1, <1>2, <2>2, <2>3, DestroyStep
<1>4. CASE kq_inflight[victim] # {}
  <2>1. fd' = fd /\ \A x \in Kqs : mem'[x] = IF x = victim THEN "freeing" ELSE mem[x]
    BY <1>0, <1>4 DEF MonFree, Domains
  <2>2. \A x \in Kqs : LifeOf(x)' = LifeOf(x)
    BY SMTT(30), <1>1, <2>1 DEF LifeOf, Open
  <2> QED
    BY <1>2, <2>2 DEF Life
<1> QED
  BY <1>3, <1>4

\* All other steps are of locks, lists and threads only.
LEMMA OtherSteps ==
  ASSUME LifeInv,
         \/ \E t \in Threads :
              \/ Drain(t) \/ Ready(t) \/ LockKq(t) \/ Park(t) \/ PipeReady(t) \/ Relock(t)
              \/ DrainTest(t) \/ DrainSleep(t) \/ DrainRelock(t)
         \/ \E S \in SUBSET Kqs, d \in BOOLEAN : MonWait(S, d)
         \/ \E S \in SUBSET Kqs : MonSweep(S)
         \/ \E k \in Kqs : MonCleanupSkip(k)
         \/ MonLock \/ MonDrain \/ MonAck \/ MonLoop \/ MonExit
         \/ ExitCancel \/ ExitJoin \/ MonCancel \/ MonCleanup \/ MonCleanupUnlock \/ MonClear
         \/ UNCHANGED vars
  PROVE  Life' = Life /\ Users' = Users
<1>0. Domains
  BY SMTT(30) DEF LifeInv
<1>1. UNCHANGED <<mem, fd, cur>>
  BY ZenonT(30) DEF Drain, Ready, LockKq, Park, PipeReady, Relock, DrainTest, DrainSleep,
     DrainRelock, MonWait, MonSweep, MonCleanupSkip, MonLock, MonDrain, MonAck, MonLoop, MonExit,
     ExitCancel, ExitJoin, MonCancel, MonCleanup, MonCleanupUnlock, MonClear, vars,
     kqVars, callVars
<1>2. \A t \in Threads : pc'[t] = "teardown" <=> pc[t] = "teardown"
  <2>1. ASSUME NEW u \in Threads,
               \/ Drain(u) \/ Ready(u) \/ LockKq(u) \/ Park(u) \/ PipeReady(u) \/ Relock(u)
               \/ DrainTest(u) \/ DrainSleep(u) \/ DrainRelock(u)
        PROVE  \E l \in Locations \ {"teardown"} : pc[u] # "teardown" /\ pc' = [pc EXCEPT ![u] = l]
    BY ZenonT(30), <2>1 DEF Drain, Ready, LockKq, Park, PipeReady, Relock, DrainTest, DrainSleep,
       DrainRelock, Locations
  <2>2. ASSUME UNCHANGED pc \/ Broadcast
        PROVE  \A t \in Threads : pc'[t] = "teardown" <=> pc[t] = "teardown"
    BY <1>0, <2>2 DEF Broadcast, Domains
  <2>3. CASE \E u \in Threads :
               \/ Drain(u) \/ Ready(u) \/ LockKq(u) \/ Park(u) \/ PipeReady(u) \/ Relock(u)
               \/ DrainTest(u) \/ DrainSleep(u) \/ DrainRelock(u)
    BY <1>0, <2>1, <2>3 DEF Domains
  <2> QED
    BY ZenonT(30), <2>2, <2>3
       DEF MonWait, MonSweep, MonCleanupSkip, MonLock, MonDrain, MonAck, MonLoop, MonExit,
       ExitCancel, ExitJoin, MonCancel, MonCleanup, MonCleanupUnlock, MonClear, vars, callVars
<1> QED
  BY <1>1, <1>2, SameLife, SameUsers DEF Open

LEMMA StepRefines ==
  ASSUME LifeInv, [Next]_vars
  PROVE  [KO!Next]_(KO!vars)
<1>0. ASSUME Life' = Life /\ Users' = Users PROVE UNCHANGED KO!vars
  BY <1>0 DEF KO!vars, Life, Users
<1>1. ASSUME NEW t \in Threads, NEW k \in Kqs, NEW f \in Fds, Kqueue(t, k, f) PROVE KO!Next
  BY <1>1, CreateStep DEF KO!Next
<1>2. ASSUME NEW f \in Fds, Close(f) \/ OpenOther(f) PROVE [KO!Next]_(KO!vars)
  BY <1>0, <1>2, DescriptorStep DEF KO!Next
<1>3. ASSUME NEW t \in Threads, NEW f \in Fds, Lookup(t, f) PROVE KO!Next
  BY <1>3, EnterStep DEF KO!Next
<1>4. ASSUME NEW t \in Threads, Exit(t) PROVE KO!Next
  BY <1>4, LeaveStep DEF KO!Next
<1>5. ASSUME NEW t \in Threads, Teardown(t) PROVE KO!Next
  BY <1>5, TeardownStep DEF KO!Next
<1>6. ASSUME NEW k \in Kqs, MonClose(k) \/ MonCleanupFree(k) PROVE KO!Next
  BY <1>6, RetireStep DEF KO!Next
<1>7. CASE MonFree
  BY <1>0, <1>7, FreeStep DEF KO!Next
<1>8. CASE \/ \E t \in Threads :
                \/ Drain(t) \/ Ready(t) \/ LockKq(t) \/ Park(t) \/ PipeReady(t) \/ Relock(t)
                \/ DrainTest(t) \/ DrainSleep(t) \/ DrainRelock(t)
           \/ \E S \in SUBSET Kqs, d \in BOOLEAN : MonWait(S, d)
           \/ \E S \in SUBSET Kqs : MonSweep(S)
           \/ \E k \in Kqs : MonCleanupSkip(k)
           \/ MonLock \/ MonDrain \/ MonAck \/ MonLoop \/ MonExit
           \/ ExitCancel \/ ExitJoin \/ MonCancel \/ MonCleanup \/ MonCleanupUnlock \/ MonClear
           \/ UNCHANGED vars
  BY <1>0, <1>8, OtherSteps
<1> QED
  BY <1>1, <1>2, <1>3, <1>4, <1>5, <1>6, <1>7, <1>8
     DEF Next, RunNext, Call, Step, MonStep, ExitStep

\* The library keeps the promise of KqueueObject, which knows no locks,
\* descriptor numbers or monitoring thread: kqueue_free retires a kqueue only
\* after its close, no call finds it from then on, and it is destroyed once,
\* after the last call that found it has left.
THEOREM Refinement == Spec => KqueueObjectSpec
<1>1. Init => KO!Init
  BY DEF Init, KO!Init, LifeOf
<1>2. LifeInv /\ [Next]_vars => [KO!Next]_(KO!vars)
  BY StepRefines
<1> QED
  BY <1>1, <1>2, LifeInvariance, PTL DEF Spec, KqueueObjectSpec, KO!Spec
==============================================================================
