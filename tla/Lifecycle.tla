------------------------------- MODULE Lifecycle -------------------------------
(***************************************************************************)
(* The life of the kqueues of one process under the Linux backend: from    *)
(* kqueue(), through the kevent() calls that use it, to close(2) of its    *)
(* descriptor, which the library only learns of asynchronously.            *)
(*                                                                         *)
(* A kqueue's descriptor kq_id is the write end of a pipe.  The read end   *)
(* is registered, one-shot, in an epoll set watched by a monitoring        *)
(* thread: close() makes it report EPOLLHUP and the thread runs            *)
(* kqueue_free().  Callers still inside kevent() make kqueue_free() defer  *)
(* the teardown to the last of them.  Meanwhile the descriptor number may  *)
(* have been given out again, to another kqueue or to anything else.       *)
(* libkqueue_drain_pending_close() waits for the monitoring thread to      *)
(* catch up, and libkqueue_free(), run by exit(), cancels and joins it.    *)
(***************************************************************************)
EXTENDS Integers

CONSTANTS
  Threads,  \* application threads
  Kqs,      \* addresses calloc() may return for a struct kqueue
  Fds,      \* descriptor numbers
  NoKq,     \* an empty slot of kqmap
  NoFd,     \* kq_id of memory that is not a kqueue
  Closed,   \* a descriptor number that is not open
  Other,    \* a descriptor that is not a kqueue
  Monitor,  \* the monitoring thread, as the owner of a mutex
  Nobody    \* the owner of an unlocked mutex

ASSUME OwnersAssumption ==
  /\ Monitor \notin Threads
  /\ Nobody \notin Threads
  /\ Monitor # Nobody

ASSUME ValuesAssumption ==
  /\ NoKq \notin Kqs
  /\ Closed \notin Kqs
  /\ Other \notin Kqs
  /\ Closed # Other
  /\ NoFd \notin Fds

VARIABLES
  kq_mtx,          \* owner of the global mutex
  lock,            \* owner of each kqueue's own mutex
  mem,             \* each struct kqueue: see Phases
  kq_id,           \* its descriptor number
  kqmap,           \* descriptor number -> kqueue
  fd,              \* what each descriptor number refers to
  wake,            \* the kqueue's pipe holds a wake byte
  armed,           \* kqueues whose one-shot registration in monitoring_epfd is armed
  kq_inflight,     \* the callers inside kevent() on each kqueue
  pc,              \* where each thread is
  cur,             \* the kqueue a thread works on
  drained,         \* threads whose snapshot of monitoring_drain_gen is out of date
  owed,            \* closed kqueues at the time a thread called the drain, not freed since
  mon,             \* where the monitoring thread is
  batch,           \* kqueues it has still to deal with
  victim,          \* the kqueue it is freeing
  drain_req,       \* its handling of a drain request: "no", "req" or "sweep"
  drain_efd,       \* monitoring_drain_efd is readable
  monitoring_tid,  \* not zero
  cancel,          \* pthread_cancel has been called on it
  exit             \* where exit() is in libkqueue_free

vars == <<kq_mtx, lock, mem, kq_id, kqmap, fd, wake, armed, kq_inflight, pc,
          cur, drained, owed, mon, batch, victim, drain_req, drain_efd,
          monitoring_tid, cancel, exit>>

kqVars == <<lock, mem, kq_id, kqmap, fd, wake, armed, kq_inflight>>
callVars == <<pc, cur, drained, owed>>
monVars == <<mon, batch, victim, drain_req, drain_efd, monitoring_tid, cancel>>

\* "listed": on kq_list.   "unlisted": kqueue_free has taken it off kq_list.
\* "freeing": kq_freeing is set, the last caller inside will free it.
Phases == {"free", "listed", "unlisted", "freeing"}

\* "lookup": holds kq_mtx, waits for the kqueue's mutex.  "copyin", "copyout":
\* holds the kqueue's mutex.  "wait": in epoll_wait.  "woken", "hup": it has
\* returned, "hup" with the sentinel of the close-detect pipe.  "teardown": in
\* kqueue_complete_deferred_free.  The others: in libkqueue_drain_pending_close.
Locations == {"idle", "lookup", "copyin", "wait", "woken", "hup", "copyout",
              "teardown", "drain_test", "drain_enq", "drain_sleep", "drain_wake"}

MonLocations == {"off", "wait", "lock", "close", "closelock", "cancelled",
                 "cleanup", "cleanuplock", "clear", "joinable"}

MonLocked == {"close", "closelock", "cleanup", "cleanuplock"}

kq_list == {k \in Kqs : mem[k] = "listed"}

\* The write end of the kqueue's pipe is open.
Open(k) == \E f \in Fds : fd[f] = k

\* The registrations epoll_wait(monitoring_epfd) can report.
HupReady == {k \in armed : ~Open(k)}

\* The values of the variables.
Domains ==
  /\ kq_mtx \in Threads \cup {Monitor, Nobody}
  /\ lock \in [Kqs -> Threads \cup {Nobody}]
  /\ mem \in [Kqs -> Phases]
  /\ kq_id \in [Kqs -> Fds \cup {NoFd}]
  /\ kqmap \in [Fds -> Kqs \cup {NoKq}]
  /\ fd \in [Fds -> Kqs \cup {Closed, Other}]
  /\ wake \in [Kqs -> BOOLEAN]
  /\ armed \in SUBSET Kqs
  /\ kq_inflight \in [Kqs -> SUBSET Threads]
  /\ pc \in [Threads -> Locations]
  /\ cur \in [Threads -> Kqs \cup {NoKq}]
  /\ drained \in SUBSET Threads
  /\ owed \in [Threads -> SUBSET Kqs]
  /\ mon \in MonLocations
  /\ batch \in SUBSET Kqs
  /\ victim \in Kqs \cup {NoKq}
  /\ drain_req \in {"no", "req", "sweep"}
  /\ drain_efd \in BOOLEAN
  /\ monitoring_tid \in BOOLEAN
  /\ cancel \in BOOLEAN
  /\ exit \in {"running", "join", "done"}

\* Who owns a mutex where.
Mutexes ==
  /\ \A t \in Threads : kq_mtx = t <=> pc[t] \in {"lookup", "drain_test", "drain_enq"}
  /\ kq_mtx = Monitor <=> mon \in MonLocked
  /\ \A t \in Threads, k \in Kqs :
       lock[k] = t <=> cur[t] = k /\ pc[t] \in {"copyin", "copyout"}

\* Types, and the owners of the mutexes.
TypeOK == Domains /\ Mutexes

Init ==
  /\ kq_mtx = Nobody
  /\ lock = [k \in Kqs |-> Nobody]
  /\ mem = [k \in Kqs |-> "free"]
  /\ kq_id = [k \in Kqs |-> NoFd]
  /\ kqmap = [f \in Fds |-> NoKq]
  /\ fd = [f \in Fds |-> Closed]
  /\ wake = [k \in Kqs |-> FALSE]
  /\ armed = {}
  /\ kq_inflight = [k \in Kqs |-> {}]
  /\ pc = [t \in Threads |-> "idle"]
  /\ cur = [t \in Threads |-> NoKq]
  /\ drained = {}
  /\ owed = [t \in Threads |-> {}]
  /\ mon = "off"
  /\ batch = {}
  /\ victim = NoKq
  /\ drain_req = "no"
  /\ drain_efd = FALSE
  /\ monitoring_tid = FALSE
  /\ cancel = FALSE
  /\ exit = "running"

--------------------------------------------------------------------------------
(* Helpers shared by kqueue_free and kqueue_complete_deferred_free *)

\* linux_kqueue_free and free(): the pipe's read end and its registration go.
\* If the write end turns out to be open it is closed too, by number.
FreeKq(k) ==
  /\ mem' = [mem EXCEPT ![k] = "free"]
  /\ kq_id' = [kq_id EXCEPT ![k] = NoFd]
  /\ armed' = armed \ {k}
  /\ wake' = [wake EXCEPT ![k] = FALSE]
  /\ fd' = IF Open(k) /\ ~wake[k] THEN [fd EXCEPT ![kq_id[k]] = Closed] ELSE fd
  /\ owed' = [t \in Threads |-> owed[t] \ {k}]

\* The pipe a byte written to kq_id[k] ends up in, if it is a kqueue's pipe.
Interrupted(k) ==
  [q \in Kqs |-> wake[q] \/ fd[kq_id[k]] = q]

\* Faulty: empties the slot of kqmap whichever kqueue it holds.
UnlistAny(k) ==
  /\ mem' = [mem EXCEPT ![k] = "unlisted"]
  /\ kqmap' = [kqmap EXCEPT ![kq_id[k]] = NoKq]

\* kqueue_free up to the lock: off kq_list, and out of kqmap if kqmap still
\* refers to this kqueue.
Unlist(k) ==
  /\ mem' = [mem EXCEPT ![k] = "unlisted"]
  /\ kqmap' = IF kqmap[kq_id[k]] = k THEN [kqmap EXCEPT ![kq_id[k]] = NoKq]
              ELSE kqmap

\* pthread_cond_broadcast(&monitoring_drain_cond)
Broadcast ==
  pc' = [t \in Threads |-> IF pc[t] = "drain_sleep" THEN "drain_wake" ELSE pc[t]]

--------------------------------------------------------------------------------
(* The application's calls *)

\* kqueue(): everything from kqueue_init to kq_cnt++ is under kq_mtx.  A stale
\* kqueue still mapped at the new descriptor's number is evicted from kqmap and
\* left to the monitoring thread, which is started if it is not there.
Kqueue(t, k, f) ==
  /\ pc[t] = "idle"
  /\ exit = "running"
  /\ kq_mtx = Nobody
  /\ mem[k] = "free"
  /\ fd[f] = Closed
  /\ mem' = [mem EXCEPT ![k] = "listed"]
  /\ kq_id' = [kq_id EXCEPT ![k] = f]
  /\ fd' = [fd EXCEPT ![f] = k]
  /\ kqmap' = [kqmap EXCEPT ![f] = k]
  /\ armed' = armed \cup {k}
  /\ mon' = IF monitoring_tid THEN mon ELSE "wait"
  /\ monitoring_tid' = TRUE
  /\ UNCHANGED <<kq_mtx, lock, wake, kq_inflight, callVars, batch, victim,
                 drain_req, drain_efd, cancel, exit>>

\* The user closes a descriptor, a kqueue or not.
Close(f) ==
  /\ fd[f] # Closed
  /\ fd' = [fd EXCEPT ![f] = Closed]
  /\ UNCHANGED <<kq_mtx, lock, mem, kq_id, kqmap, wake, armed, kq_inflight,
                 callVars, monVars, exit>>

\* The user opens something else and gets the number of a closed descriptor.
OpenOther(f) ==
  /\ fd[f] = Closed
  /\ fd' = [fd EXCEPT ![f] = Other]
  /\ UNCHANGED <<kq_mtx, lock, mem, kq_id, kqmap, wake, armed, kq_inflight,
                 callVars, monVars, exit>>

\* kevent(): lock kq_mtx and look the descriptor up; ENOENT changes nothing.
Lookup(t, f) ==
  /\ pc[t] = "idle"
  /\ kq_mtx = Nobody
  /\ kqmap[f] # NoKq
  /\ kq_mtx' = t
  /\ cur' = [cur EXCEPT ![t] = kqmap[f]]
  /\ pc' = [pc EXCEPT ![t] = "lookup"]
  /\ UNCHANGED <<kqVars, drained, owed, monVars, exit>>

\* Faulty: keeps kq_mtx until the call returns.
LockKqKeepingGlobal(t) ==
  /\ pc[t] = "lookup"
  /\ lock[cur[t]] = Nobody
  /\ lock' = [lock EXCEPT ![cur[t]] = t]
  /\ kq_inflight' = [kq_inflight EXCEPT ![cur[t]] = @ \cup {t}]
  /\ pc' = [pc EXCEPT ![t] = "copyin"]
  /\ UNCHANGED <<kq_mtx, mem, kq_id, kqmap, fd, wake, armed, cur, drained, owed,
                 monVars, exit>>

\* Lock the kqueue, let go of kq_mtx, and join kq_inflight.
LockKq(t) ==
  /\ pc[t] = "lookup"
  /\ lock[cur[t]] = Nobody
  /\ lock' = [lock EXCEPT ![cur[t]] = t]
  /\ kq_mtx' = Nobody
  /\ kq_inflight' = [kq_inflight EXCEPT ![cur[t]] = @ \cup {t}]
  /\ pc' = [pc EXCEPT ![t] = "copyin"]
  /\ UNCHANGED <<mem, kq_id, kqmap, fd, wake, armed, cur, drained, owed,
                 monVars, exit>>

Park(t) ==
  /\ pc[t] = "copyin"
  /\ lock' = [lock EXCEPT ![cur[t]] = Nobody]
  /\ pc' = [pc EXCEPT ![t] = "wait"]
  /\ UNCHANGED <<kq_mtx, mem, kq_id, kqmap, fd, wake, armed, kq_inflight, cur,
                 drained, owed, monVars, exit>>

\* epoll_wait returns with events of knotes, a timeout or an error.
Ready(t) ==
  /\ pc[t] = "wait"
  /\ pc' = [pc EXCEPT ![t] = "woken"]
  /\ UNCHANGED <<kq_mtx, kqVars, cur, drained, owed, monVars, exit>>

\* Faulty: EPOLLIN only, so that a hangup wakes nobody.
PipeReadyByte(t) ==
  /\ pc[t] = "wait"
  /\ wake[cur[t]]
  /\ pc' = [pc EXCEPT ![t] = "hup"]
  /\ UNCHANGED <<kq_mtx, kqVars, cur, drained, owed, monVars, exit>>

\* epoll_wait returns with the sentinel EPOLL_UDATA_KQ_WAKE: hangup or a byte.
PipeReady(t) ==
  /\ pc[t] = "wait"
  /\ ~Open(cur[t]) \/ wake[cur[t]]
  /\ pc' = [pc EXCEPT ![t] = "hup"]
  /\ UNCHANGED <<kq_mtx, kqVars, cur, drained, owed, monVars, exit>>

\* Lock the kqueue again and run kevent_copyout, which empties the pipe when it
\* comes to the sentinel (it may run out of room in the eventlist before).
Relock(t) ==
  /\ pc[t] \in {"woken", "hup"}
  /\ lock[cur[t]] = Nobody
  /\ lock' = [lock EXCEPT ![cur[t]] = t]
  /\ wake' \in {wake} \cup (IF pc[t] = "hup" THEN {[wake EXCEPT ![cur[t]] = FALSE]} ELSE {})
  /\ pc' = [pc EXCEPT ![t] = "copyout"]
  /\ UNCHANGED <<kq_mtx, mem, kq_id, kqmap, fd, armed, kq_inflight, cur,
                 drained, owed, monVars, exit>>

\* Faulty: every caller that sees kq_freeing completes the free.
ExitEach(t) ==
  /\ pc[t] \in {"copyin", "copyout"}
  /\ kq_inflight' = [kq_inflight EXCEPT ![cur[t]] = @ \ {t}]
  /\ lock' = [lock EXCEPT ![cur[t]] = Nobody]
  /\ LET needs_free == mem[cur[t]] = "freeing"
     IN  /\ pc' = [pc EXCEPT ![t] = IF needs_free THEN "teardown" ELSE "idle"]
         /\ cur' = IF needs_free THEN cur ELSE [cur EXCEPT ![t] = NoKq]
  /\ UNCHANGED <<kq_mtx, mem, kq_id, kqmap, fd, wake, armed, drained, owed,
                 monVars, exit>>

\* Leave kq_inflight, read kq_freeing, unlock.
Exit(t) ==
  /\ pc[t] \in {"copyin", "copyout"}
  /\ kq_inflight' = [kq_inflight EXCEPT ![cur[t]] = @ \ {t}]
  /\ lock' = [lock EXCEPT ![cur[t]] = Nobody]
  /\ LET needs_free == mem[cur[t]] = "freeing" /\ kq_inflight[cur[t]] = {t}
     IN  /\ pc' = [pc EXCEPT ![t] = IF needs_free THEN "teardown" ELSE "idle"]
         /\ cur' = IF needs_free THEN cur ELSE [cur EXCEPT ![t] = NoKq]
  /\ UNCHANGED <<kq_mtx, mem, kq_id, kqmap, fd, wake, armed, drained, owed,
                 monVars, exit>>

\* kqueue_complete_deferred_free, without kq_mtx.
Teardown(t) ==
  /\ pc[t] = "teardown"
  /\ lock[cur[t]] = Nobody
  /\ FreeKq(cur[t])
  /\ pc' = [pc EXCEPT ![t] = "idle"]
  /\ cur' = [cur EXCEPT ![t] = NoKq]
  /\ UNCHANGED <<kq_mtx, lock, kqmap, kq_inflight, drained, monVars, exit>>

--------------------------------------------------------------------------------
(* libkqueue_drain_pending_close *)

\* The monitoring thread is there: ask it to drain.  (Without it the call
\* returns at once.)
Drain(t) ==
  /\ pc[t] = "idle"
  /\ kq_mtx = Nobody
  /\ monitoring_tid
  /\ kq_mtx' = t
  /\ drained' = drained \ {t}
  /\ drain_efd' = TRUE
  /\ owed' = [owed EXCEPT ![t] = {k \in kq_list : ~Open(k)}]
  /\ pc' = [pc EXCEPT ![t] = "drain_test"]
  /\ UNCHANGED <<kqVars, cur, mon, batch, victim, drain_req, monitoring_tid,
                 cancel, exit>>

\* The condition of the while loop: wait, or unlock and return.
DrainTest(t) ==
  /\ pc[t] = "drain_test"
  /\ IF t \notin drained /\ monitoring_tid
     THEN /\ pc' = [pc EXCEPT ![t] = "drain_enq"]
          /\ UNCHANGED kq_mtx
     ELSE /\ pc' = [pc EXCEPT ![t] = "idle"]
          /\ kq_mtx' = Nobody
  /\ UNCHANGED <<kqVars, cur, drained, owed, monVars, exit>>

\* pthread_cond_wait: start to wait and unlock, in one step.
DrainSleep(t) ==
  /\ pc[t] = "drain_enq"
  /\ pc' = [pc EXCEPT ![t] = "drain_sleep"]
  /\ kq_mtx' = Nobody
  /\ UNCHANGED <<kqVars, cur, drained, owed, monVars, exit>>

DrainRelock(t) ==
  /\ pc[t] = "drain_wake"
  /\ kq_mtx = Nobody
  /\ kq_mtx' = t
  /\ pc' = [pc EXCEPT ![t] = "drain_test"]
  /\ UNCHANGED <<kqVars, cur, drained, owed, monVars, exit>>

--------------------------------------------------------------------------------
(* monitoring_thread_loop *)

\* epoll_wait returns; every registration it reports is disarmed.
MonWait(S, d) ==
  /\ mon = "wait"
  /\ S \subseteq HupReady
  /\ d => drain_efd
  /\ S # {} \/ d
  /\ batch' = S
  /\ armed' = armed \ S
  /\ drain_req' = IF d THEN "req" ELSE "no"
  /\ mon' = "lock"
  /\ UNCHANGED <<kq_mtx, lock, mem, kq_id, kqmap, fd, wake, kq_inflight,
                 callVars, victim, drain_efd, monitoring_tid, cancel, exit>>

MonLock ==
  /\ mon = "lock"
  /\ kq_mtx = Nobody
  /\ kq_mtx' = Monitor
  /\ mon' = "close"
  /\ UNCHANGED <<kqVars, callVars, batch, victim, drain_req, drain_efd,
                 monitoring_tid, cancel, exit>>

\* monitoring_thread_close_kq, up to where kqueue_free locks the kqueue.
MonClose(k) ==
  /\ mon = "close"
  /\ k \in batch
  /\ Unlist(k)
  /\ batch' = batch \ {k}
  /\ victim' = k
  /\ mon' = "closelock"
  /\ UNCHANGED <<kq_mtx, lock, kq_id, fd, wake, armed, kq_inflight, callVars,
                 drain_req, drain_efd, monitoring_tid, cancel, exit>>

\* Faulty: frees without a look at kq_inflight.
MonFreeAtOnce ==
  /\ mon \in {"closelock", "cleanuplock"}
  /\ lock[victim] = Nobody
  /\ FreeKq(victim)
  /\ victim' = NoKq
  /\ mon' = IF mon = "closelock" THEN "close" ELSE "cleanup"
  /\ UNCHANGED <<kq_mtx, lock, kqmap, kq_inflight, pc, cur, drained,
                 batch, drain_req, drain_efd, monitoring_tid, cancel, exit>>

\* The rest of kqueue_free, with the kqueue locked: defer and write the wake
\* byte if there are callers inside, else free.
MonFree ==
  /\ mon \in {"closelock", "cleanuplock"}
  /\ lock[victim] = Nobody
  /\ IF kq_inflight[victim] # {}
     THEN /\ mem' = [mem EXCEPT ![victim] = "freeing"]
          /\ wake' = Interrupted(victim)
          /\ UNCHANGED <<kq_id, armed, fd, owed>>
     ELSE FreeKq(victim)
  /\ victim' = NoKq
  /\ mon' = IF mon = "closelock" THEN "close" ELSE "cleanup"
  /\ UNCHANGED <<kq_mtx, lock, kqmap, kq_inflight, pc, cur, drained,
                 batch, drain_req, drain_efd, monitoring_tid, cancel, exit>>

\* A drain request, once the events are dealt with: clear the eventfd.
MonDrain ==
  /\ mon = "close"
  /\ batch = {}
  /\ drain_req = "req"
  /\ drain_efd' = FALSE
  /\ drain_req' = "sweep"
  /\ UNCHANGED <<kq_mtx, kqVars, callVars, mon, batch, victim, monitoring_tid,
                 cancel, exit>>

\* epoll_wait with a zero timeout finds more closed kqueues.
MonSweep(S) ==
  /\ mon = "close"
  /\ batch = {}
  /\ drain_req = "sweep"
  /\ S \subseteq HupReady
  /\ S # {}
  /\ batch' = S
  /\ armed' = armed \ S
  /\ UNCHANGED <<kq_mtx, lock, mem, kq_id, kqmap, fd, wake, kq_inflight,
                 callVars, mon, victim, drain_req, drain_efd, monitoring_tid,
                 cancel, exit>>

\* Faulty: acknowledges after the first sweep.
MonAckEarly ==
  /\ mon = "close"
  /\ batch = {}
  /\ drain_req = "sweep"
  /\ drain_req' = "no"
  /\ drained' = Threads
  /\ Broadcast
  /\ UNCHANGED <<kq_mtx, kqVars, cur, owed, mon, batch, victim, drain_efd,
                 monitoring_tid, cancel, exit>>

\* It finds none: monitoring_drain_gen++ and broadcast.
MonAck ==
  /\ mon = "close"
  /\ batch = {}
  /\ drain_req = "sweep"
  /\ HupReady = {}
  /\ drain_req' = "no"
  /\ drained' = Threads
  /\ Broadcast
  /\ UNCHANGED <<kq_mtx, kqVars, cur, owed, mon, batch, victim, drain_efd,
                 monitoring_tid, cancel, exit>>

\* There are kqueues left: unlock and wait again.
MonLoop ==
  /\ mon = "close"
  /\ batch = {}
  /\ drain_req = "no"
  /\ kq_list # {}
  /\ kq_mtx' = Nobody
  /\ mon' = "wait"
  /\ UNCHANGED <<kqVars, callVars, batch, victim, drain_req, drain_efd,
                 monitoring_tid, cancel, exit>>

\* Faulty: ends without a look at kq_cnt.
MonExitAlways ==
  /\ mon = "close"
  /\ batch = {}
  /\ drain_req = "no"
  /\ monitoring_tid' = FALSE
  /\ Broadcast
  /\ kq_mtx' = Nobody
  /\ mon' = IF cancel THEN "joinable" ELSE "off"
  /\ UNCHANGED <<kqVars, cur, drained, owed, batch, victim, drain_req,
                 drain_efd, cancel, exit>>

\* Faulty: detaches itself though it has been cancelled.
MonExitDetached ==
  /\ mon = "close"
  /\ batch = {}
  /\ drain_req = "no"
  /\ kq_list = {}
  /\ monitoring_tid' = FALSE
  /\ Broadcast
  /\ kq_mtx' = Nobody
  /\ mon' = "off"
  /\ UNCHANGED <<kqVars, cur, drained, owed, batch, victim, drain_req,
                 drain_efd, cancel, exit>>

\* Faulty: does not wake the threads in libkqueue_drain_pending_close.
MonExitQuiet ==
  /\ mon = "close"
  /\ batch = {}
  /\ drain_req = "no"
  /\ kq_list = {}
  /\ monitoring_tid' = FALSE
  /\ kq_mtx' = Nobody
  /\ mon' = IF cancel THEN "joinable" ELSE "off"
  /\ UNCHANGED <<kqVars, callVars, batch, victim, drain_req,
                 drain_efd, cancel, exit>>

\* kq_cnt == 0: the thread ends and, unless it has been cancelled, detaches
\* itself; the cleanup handler finds kq_list empty.
MonExit ==
  /\ mon = "close"
  /\ batch = {}
  /\ drain_req = "no"
  /\ kq_list = {}
  /\ monitoring_tid' = FALSE
  /\ Broadcast
  /\ kq_mtx' = Nobody
  /\ mon' = IF cancel THEN "joinable" ELSE "off"
  /\ UNCHANGED <<kqVars, cur, drained, owed, batch, victim, drain_req,
                 drain_efd, cancel, exit>>

--------------------------------------------------------------------------------
(* exit(): linux_libkqueue_free, and the cancelled thread's cleanup handler *)

ExitCancel ==
  /\ exit = "running"
  /\ kq_mtx = Nobody
  /\ cancel' = monitoring_tid
  /\ exit' = IF monitoring_tid THEN "join" ELSE "done"
  /\ UNCHANGED <<kq_mtx, kqVars, callVars, mon, batch, victim, drain_req,
                 drain_efd, monitoring_tid>>

ExitJoin ==
  /\ exit = "join"
  /\ mon = "joinable"
  /\ exit' = "done"
  /\ UNCHANGED <<kq_mtx, kqVars, callVars, monVars>>

\* epoll_wait is the cancellation point.
MonCancel ==
  /\ mon = "wait"
  /\ cancel
  /\ mon' = "cancelled"
  /\ UNCHANGED <<kq_mtx, kqVars, callVars, batch, victim, drain_req, drain_efd,
                 monitoring_tid, cancel, exit>>

\* monitoring_thread_cleanup in CANCEL_UNLOCKED: lock, walk kq_list.
MonCleanup ==
  /\ mon = "cancelled"
  /\ kq_mtx = Nobody
  /\ kq_mtx' = Monitor
  /\ batch' = kq_list
  /\ mon' = "cleanup"
  /\ UNCHANGED <<kqVars, callVars, victim, drain_req, drain_efd,
                 monitoring_tid, cancel, exit>>

\* fcntl(kq_id) fails: the descriptor is closed, free the kqueue.
MonCleanupFree(k) ==
  /\ mon = "cleanup"
  /\ k \in batch
  /\ fd[kq_id[k]] = Closed
  /\ Unlist(k)
  /\ batch' = batch \ {k}
  /\ victim' = k
  /\ mon' = "cleanuplock"
  /\ UNCHANGED <<kq_mtx, lock, kq_id, fd, wake, armed, kq_inflight, callVars,
                 drain_req, drain_efd, monitoring_tid, cancel, exit>>

\* fcntl(kq_id) succeeds: wake whoever waits and leave the kqueue.
MonCleanupSkip(k) ==
  /\ mon = "cleanup"
  /\ k \in batch
  /\ fd[kq_id[k]] # Closed
  /\ wake' = Interrupted(k)
  /\ batch' = batch \ {k}
  /\ UNCHANGED <<kq_mtx, lock, mem, kq_id, kqmap, fd, armed, kq_inflight,
                 callVars, mon, victim, drain_req, drain_efd, monitoring_tid,
                 cancel, exit>>

MonCleanupUnlock ==
  /\ mon = "cleanup"
  /\ batch = {}
  /\ kq_mtx' = Nobody
  /\ mon' = "clear"
  /\ UNCHANGED <<kqVars, callVars, batch, victim, drain_req, drain_efd,
                 monitoring_tid, cancel, exit>>

\* monitoring_tid = 0 and the broadcast, with no lock held.
MonClear ==
  /\ mon = "clear"
  /\ monitoring_tid' = FALSE
  /\ Broadcast
  /\ mon' = "joinable"
  /\ UNCHANGED <<kq_mtx, kqVars, cur, drained, owed, batch, victim, drain_req,
                 drain_efd, cancel, exit>>

--------------------------------------------------------------------------------
\* What a thread or the user may choose to do.
Call(t) ==
  \/ \E k \in Kqs, f \in Fds : Kqueue(t, k, f)
  \/ \E f \in Fds : Lookup(t, f)
  \/ Drain(t)
  \/ Ready(t)

\* What a thread inside the library goes on to do by itself.
Step(t) ==
  \/ LockKq(t) \/ Park(t) \/ PipeReady(t) \/ Relock(t) \/ Exit(t) \/ Teardown(t)
  \/ DrainTest(t) \/ DrainSleep(t) \/ DrainRelock(t)

MonStep ==
  \/ \E S \in SUBSET Kqs, d \in BOOLEAN : MonWait(S, d)
  \/ \E S \in SUBSET Kqs : MonSweep(S)
  \/ \E k \in Kqs : MonClose(k)
  \/ MonLock \/ MonFree \/ MonDrain \/ MonAck \/ MonLoop \/ MonExit

ExitStep ==
  \/ ExitCancel \/ ExitJoin
  \/ MonCancel \/ MonCleanup \/ MonCleanupUnlock \/ MonClear
  \/ \E k \in Kqs : MonCleanupFree(k) \/ MonCleanupSkip(k)

\* The process before exit() is called.
RunNext ==
  \/ \E t \in Threads : Call(t) \/ Step(t)
  \/ \E f \in Fds : Close(f) \/ OpenOther(f)
  \/ MonStep

Next == RunNext \/ ExitStep

Spec == Init /\ [][Next]_vars

\* A thread inside the library keeps running, epoll_wait reports a hangup or a
\* byte in the pipe, it does not pass over the same ready registration for ever
\* (the kernel moves what it reports to the end of its ready list), and a mutex
\* that is free again and again is not denied to one thread for ever.  Nothing
\* is assumed of the calls the application makes, nor of events or timeouts.
Fairness ==
  /\ \A t \in Threads :
       /\ WF_vars(\/ Park(t) \/ PipeReady(t) \/ Exit(t) \/ Teardown(t)
                  \/ DrainTest(t) \/ DrainSleep(t))
       /\ SF_vars(LockKq(t) \/ Relock(t) \/ DrainRelock(t))
  /\ SF_vars(\E S \in SUBSET Kqs : MonWait(S, TRUE))
  /\ \A k \in Kqs :
       SF_vars(\E S \in SUBSET Kqs, d \in BOOLEAN : k \in S /\ MonWait(S, d))
  /\ SF_vars(MonLock \/ MonFree)
  /\ WF_vars(\/ \E k \in Kqs : MonClose(k)
             \/ \E S \in SUBSET Kqs : MonSweep(S)
             \/ MonDrain \/ MonAck \/ MonLoop \/ MonExit)

RunSpec == Init /\ [][RunNext]_vars /\ Fairness

--------------------------------------------------------------------------------
(* Properties *)

\* Nobody has a pointer to a struct kqueue that has been freed: not a caller of
\* kevent(), however long it was parked while the descriptor was closed, and
\* not the monitoring thread, whose pointers come out of epoll events.  What
\* the latter is about to pass to kqueue_free is on kq_list, so none is passed
\* twice.
PointersLive ==
  /\ \A t \in Threads : cur[t] # NoKq => mem[cur[t]] # "free"
  /\ \A k \in batch : mem[k] = "listed"
  /\ victim # NoKq => mem[victim] = "unlisted"

\* A descriptor that is an open kqueue resolves to that kqueue, also when its
\* number was used before by one that has not been freed yet; and nothing
\* resolves to a kqueue that kqueue_free has started on.
MapResolves ==
  /\ \A f \in Fds : fd[f] \in Kqs => kqmap[f] = fd[f]
  /\ \A f \in Fds : kqmap[f] # NoKq =>
       mem[kqmap[f]] = "listed" /\ kq_id[kqmap[f]] = f

\* A deferred free always has someone left to complete it, and that is the only
\* thread left: a caller still inside, or the last one, already tearing down.
DeferredHasOwner ==
  \A k \in Kqs :
    mem[k] = "freeing" =>
      LET tearing == {t \in Threads : pc[t] = "teardown" /\ cur[t] = k}
      IN  IF kq_inflight[k] # {} THEN tearing = {}
          ELSE \E t \in Threads : tearing = {t}

\* Until exit() is called no kqueue is forgotten: the monitoring thread runs
\* and is registered for its close, or has it in hand.
Monitored ==
  exit = "running" =>
    \A k \in kq_list :
      /\ monitoring_tid
      /\ mon \notin {"off", "joinable"}
      /\ k \in armed \/ k \in batch

\* When libkqueue_drain_pending_close returns, kqueue_free has been called for
\* every kqueue whose descriptor was closed before the call (until exit() takes
\* the monitoring thread away).
DrainFlushed ==
  exit = "running" =>
    \A t \in Threads :
      pc[t] = "idle" => \A k \in owed[t] : mem[k] # "listed"

\* pthread_join in linux_libkqueue_free is never given a thread that has
\* detached itself.
JoinsJoinable == exit = "join" => mon # "off"

\* Each struct kqueue is created, used, closed, retired and destroyed as
\* KqueueObject says.
LifeOf(k) ==
  IF mem[k] = "free" THEN "none"
  ELSE IF mem[k] \in {"unlisted", "freeing"} THEN "retired"
  ELSE IF Open(k) THEN "open" ELSE "closed"

KO == INSTANCE KqueueObject WITH
        life  <- [k \in Kqs |-> LifeOf(k)],
        users <- [k \in Kqs |-> {t \in Threads : cur[t] = k /\ pc[t] # "teardown"}]

KqueueObjectSpec == KO!Spec

\* Every kqueue the user closes is freed in the end, even if callers are parked
\* in epoll_wait without a timeout and nothing else ever happens.
ClosedIsFreed ==
  \A k \in Kqs : mem[k] = "listed" /\ ~Open(k) ~> mem[k] = "free"

\* libkqueue_drain_pending_close returns.
DrainReturns ==
  \A t \in Threads : pc[t] = "drain_test" ~> pc[t] = "idle"

\* What the comment on the sentinel says: it comes up for a closed kqueue only,
\* so kevent() fails with EBADF only there.
EbadfMeansClosed ==
  exit = "running" => \A t \in Threads : pc[t] = "hup" => ~Open(cur[t])
================================================================================
