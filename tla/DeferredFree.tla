------------------------------ MODULE DeferredFree ------------------------------
(***************************************************************************)
(* Deferred reclamation of struct epoll_udata, the header the kernel hands *)
(* back in epoll_event.data.ptr, for one kqueue of the Linux backend.      *)
(*                                                                         *)
(* kevent() drops the kqueue's mutex around epoll_wait().  A thread whose  *)
(* epoll_wait() has returned holds udata pointers in its thread-local      *)
(* event buffer while another thread, holding the mutex, may EV_DELETE the *)
(* very registrations they belong to.  Each caller takes an epoch on entry *)
(* and is linked on kq_inflight; a deleted udata is marked stale and       *)
(* queued with the current epoch as its boundary; a caller that leaves     *)
(* frees the queued udatas no remaining caller can still see.              *)
(*                                                                         *)
(* The same algorithm is in the Solaris backend (port_udata).              *)
(***************************************************************************)
EXTENDS Integers, Sequences, Functions

CONSTANTS
  Threads,   \* the threads that call kevent() on the kqueue
  Udata,     \* addresses malloc() may return for a struct epoll_udata
  NoThread,  \* the owner of an unlocked mutex
  EpochMax   \* the largest epoch, UINT64_MAX in the code

ASSUME NoThreadAssumption == NoThread \notin Threads
ASSUME EpochMaxAssumption == EpochMax \in Nat /\ EpochMax > 0

VARIABLES
  kq_mtx,            \* owner of the kqueue's mutex
  pc,                \* where each thread is in kevent()
  epoch,             \* state->epoch of each thread's kqueue_kevent_state
  kq_next_epoch,
  kq_inflight,       \* TAILQ of the callers inside kevent(), oldest first
  ud_deferred_free,  \* TAILQ of the stale udatas, oldest first
  ud,                \* each udata: "free", "live" or "stale" (ud_stale set)
  boundary,          \* ud_boundary_epoch of each udata
  interest,          \* udatas registered in the kernel's epoll set
  epoll_events       \* udatas in each thread's event buffer, not yet read

vars == <<kq_mtx, pc, epoch, kq_next_epoch, kq_inflight, ud_deferred_free,
          ud, boundary, interest, epoll_events>>

\* "copyin": in kevent_copyin, mutex held.   "wait": in epoll_wait.
\* "woken": epoll_wait has returned.         "copyout": mutex held again.
\* "sweep": in linux_kevent_exit, mutex held, already off kq_inflight.
Locations == {"idle", "copyin", "wait", "woken", "copyout", "sweep"}

\* A thread at one of these owns the kqueue's mutex.
Locked == {"copyin", "copyout", "sweep"}

Inside == {t \in Threads : pc[t] \in {"copyin", "wait", "woken", "copyout"}}

Epochs == 0 .. EpochMax

\* Types, and the lock discipline kqueue_mutex_assert checks at run time.
TypeOK ==
  /\ kq_mtx \in Threads \cup {NoThread}
  /\ pc \in [Threads -> Locations]
  /\ epoch \in [Threads -> Epochs]
  /\ kq_next_epoch \in Epochs
  /\ kq_inflight \in Seq(Threads)
  /\ ud_deferred_free \in Seq(Udata)
  /\ ud \in [Udata -> {"free", "live", "stale"}]
  /\ boundary \in [Udata -> Epochs]
  /\ interest \in SUBSET Udata
  /\ epoll_events \in [Threads -> SUBSET Udata]
  /\ \A t \in Threads : pc[t] \in Locked <=> kq_mtx = t

Init ==
  /\ kq_mtx = NoThread
  /\ pc = [t \in Threads |-> "idle"]
  /\ epoch = [t \in Threads |-> 0]
  /\ kq_next_epoch = 0
  /\ kq_inflight = << >>
  /\ ud_deferred_free = << >>
  /\ ud = [u \in Udata |-> "free"]
  /\ boundary = [u \in Udata |-> 0]
  /\ interest = {}
  /\ epoll_events = [t \in Threads |-> {}]

--------------------------------------------------------------------------------
(* Epochs are uint64_t: they wrap. *)

Plus1(a) == IF a = EpochMax THEN 0 ELSE a + 1

Minus(a, b) == IF b <= a THEN a - b ELSE (a + EpochMax + 1) - b

\* Faulty: takes off the oldest epoch itself, leaving the oldest caller at 0.
RebaseAmountOffByOne ==
  IF kq_inflight # << >> THEN epoch[Head(kq_inflight)] ELSE kq_next_epoch

\* The amount linux_kqueue_epoch_rebase takes off every live epoch: one less
\* than the oldest caller's, so that the oldest becomes 1.
RebaseAmount ==
  IF kq_inflight # << >>
  THEN Minus(epoch[Head(kq_inflight)], 1)
  ELSE kq_next_epoch

\* What linux_kevent_enter subtracts before it takes the next epoch.
Base == IF kq_next_epoch = EpochMax THEN RebaseAmount ELSE 0

\* TAILQ_REMOVE of one caller from kq_inflight.
Unlinked(t) ==
  LET k == CHOOSE i \in 1 .. Len(kq_inflight) : kq_inflight[i] = t
  IN  SubSeq(kq_inflight, 1, k - 1) \o SubSeq(kq_inflight, k + 1, Len(kq_inflight))

\* Faulty: also frees what was retired while the oldest caller was inside.
HeadEligibleInclusive ==
  /\ ud_deferred_free # << >>
  /\ kq_inflight # << >> =>
       boundary[Head(ud_deferred_free)] <= epoch[Head(kq_inflight)]

\* Faulty: frees only when nobody at all is in flight.
HeadEligibleWhenIdle ==
  /\ ud_deferred_free # << >>
  /\ kq_inflight = << >>

\* The head of ud_deferred_free may be freed: nobody is in flight, or the
\* oldest caller entered after the udata was retired.
HeadEligible ==
  /\ ud_deferred_free # << >>
  /\ kq_inflight # << >> =>
       boundary[Head(ud_deferred_free)] < epoch[Head(kq_inflight)]

--------------------------------------------------------------------------------
(* kevent(): each action is one step of a calling thread. *)

\* Faulty: does not take the mutex before it touches the kqueue.
EnterUnlocked(t) ==
  /\ pc[t] = "idle"
  /\ kq_mtx' = t
  /\ pc' = [pc EXCEPT ![t] = "copyin"]
  /\ kq_next_epoch' = Plus1(Minus(kq_next_epoch, Base))
  /\ epoch' = [epoch EXCEPT ![t] = kq_next_epoch']
  /\ kq_inflight' = Append(kq_inflight, t)
  /\ UNCHANGED <<boundary, ud_deferred_free, ud, interest, epoll_events>>

\* Lock the kqueue and run linux_kevent_enter.
Enter(t) ==
  /\ pc[t] = "idle"
  /\ kq_mtx = NoThread
  /\ kq_mtx' = t
  /\ pc' = [pc EXCEPT ![t] = "copyin"]
  /\ kq_next_epoch' = Plus1(Minus(kq_next_epoch, Base))
  /\ epoch' = [x \in Threads |->
                 IF x = t THEN kq_next_epoch'
                 ELSE IF x \in Range(kq_inflight) THEN Minus(epoch[x], Base)
                 ELSE epoch[x]]
  /\ boundary' = [u \in Udata |->
                    IF u \in Range(ud_deferred_free) THEN Minus(boundary[u], Base)
                    ELSE boundary[u]]
  /\ kq_inflight' = Append(kq_inflight, t)
  /\ UNCHANGED <<ud_deferred_free, ud, interest, epoll_events>>

\* EV_ADD: KN_UDATA_ALLOC (or FDS_, EVENTFD_) and EPOLL_CTL_ADD.  When the
\* kernel refuses, the udata is freed at once and nothing has changed.
AddKnote(t, u) ==
  /\ pc[t] = "copyin"
  /\ ud[u] = "free"
  /\ ud' = [ud EXCEPT ![u] = "live"]
  /\ boundary' = [boundary EXCEPT ![u] = 0]
  /\ interest' = interest \cup {u}
  /\ UNCHANGED <<kq_mtx, pc, epoch, kq_next_epoch, kq_inflight,
                 ud_deferred_free, epoll_events>>

\* EV_DISABLE of a knote that keeps its udata: EPOLL_CTL_DEL only.
DisableKnote(t, u) ==
  /\ pc[t] = "copyin"
  /\ u \in interest
  /\ interest' = interest \ {u}
  /\ UNCHANGED <<kq_mtx, pc, epoch, kq_next_epoch, kq_inflight,
                 ud_deferred_free, ud, boundary, epoll_events>>

\* EV_ENABLE of such a knote: EPOLL_CTL_ADD of the udata it has kept.
EnableKnote(t, u) ==
  /\ pc[t] = "copyin"
  /\ ud[u] = "live"
  /\ u \notin interest
  /\ interest' = interest \cup {u}
  /\ UNCHANGED <<kq_mtx, pc, epoch, kq_next_epoch, kq_inflight,
                 ud_deferred_free, ud, boundary, epoll_events>>

\* Faulty: the boundary is one short, so the newest caller is not waited for.
DeferFreeShort(u) ==
  /\ ud[u] = "live"
  /\ interest' = interest \ {u}
  /\ ud' = [ud EXCEPT ![u] = "stale"]
  /\ boundary' = [boundary EXCEPT ![u] = Minus(kq_next_epoch, 1)]
  /\ ud_deferred_free' = Append(ud_deferred_free, u)

\* epoll_udata_defer_free, after the registration is gone.
DeferFree(u) ==
  /\ ud[u] = "live"
  /\ interest' = interest \ {u}
  /\ ud' = [ud EXCEPT ![u] = "stale"]
  /\ boundary' = [boundary EXCEPT ![u] = kq_next_epoch]
  /\ ud_deferred_free' = Append(ud_deferred_free, u)

\* EV_DELETE, or an EV_DISABLE that tears the registration down (EVFILT_TIMER,
\* EVFILT_VNODE, EVFILT_PROC, EVFILT_USER).
DeleteKnote(t, u) ==
  /\ pc[t] = "copyin"
  /\ DeferFree(u)
  /\ UNCHANGED <<kq_mtx, pc, epoch, kq_next_epoch, kq_inflight, epoll_events>>

\* There is room in the eventlist: drop the mutex and call epoll_wait.
Park(t) ==
  /\ pc[t] = "copyin"
  /\ pc' = [pc EXCEPT ![t] = "wait"]
  /\ kq_mtx' = NoThread
  /\ UNCHANGED <<epoch, kq_next_epoch, kq_inflight, ud_deferred_free, ud,
                 boundary, interest, epoll_events>>

\* epoll_wait returns any set of registered udatas; none on a timeout or an
\* error.
EpollWait(t, S) ==
  /\ pc[t] = "wait"
  /\ S \subseteq interest
  /\ epoll_events' = [epoll_events EXCEPT ![t] = S]
  /\ pc' = [pc EXCEPT ![t] = "woken"]
  /\ UNCHANGED <<kq_mtx, epoch, kq_next_epoch, kq_inflight, ud_deferred_free,
                 ud, boundary, interest>>

Relock(t) ==
  /\ pc[t] = "woken"
  /\ kq_mtx = NoThread
  /\ kq_mtx' = t
  /\ pc' = [pc EXCEPT ![t] = "copyout"]
  /\ UNCHANGED <<epoch, kq_next_epoch, kq_inflight, ud_deferred_free, ud,
                 boundary, interest, epoll_events>>

\* One turn of the loop of linux_kevent_copyout that keeps the registration:
\* the udata is stale and skipped, or its filter delivers the event.
Copyout(t, u) ==
  /\ pc[t] = "copyout"
  /\ u \in epoll_events[t]
  /\ epoll_events' = [epoll_events EXCEPT ![t] = @ \ {u}]
  /\ UNCHANGED <<kq_mtx, pc, epoch, kq_next_epoch, kq_inflight,
                 ud_deferred_free, ud, boundary, interest>>

\* One turn of the loop where knote_copyout_flag_actions deletes the knote
\* (EV_ONESHOT) or disables it with teardown (EV_DISPATCH): only for a udata
\* that is not stale.
CopyoutDelete(t, u) ==
  /\ pc[t] = "copyout"
  /\ u \in epoll_events[t]
  /\ DeferFree(u)
  /\ epoll_events' = [epoll_events EXCEPT ![t] = @ \ {u}]
  /\ UNCHANGED <<kq_mtx, pc, epoch, kq_next_epoch, kq_inflight>>

\* linux_kevent_exit takes the caller off kq_inflight.  The caller leaves from
\* copyin when that failed or filled the eventlist, and from copyout at the end
\* of the loop or where it stops early (eventlist full, a filter's error, the
\* wake sentinel): what is left in the buffer is never looked at again.
Exit(t) ==
  /\ pc[t] \in {"copyin", "copyout"}
  /\ kq_inflight' = Unlinked(t)
  /\ epoll_events' = [epoll_events EXCEPT ![t] = {}]
  /\ pc' = [pc EXCEPT ![t] = "sweep"]
  /\ UNCHANGED <<kq_mtx, epoch, kq_next_epoch, ud_deferred_free, ud, boundary,
                 interest>>

\* One turn of the loop of linux_kqueue_sweep_deferred.
Sweep(t) ==
  /\ pc[t] = "sweep"
  /\ HeadEligible
  /\ ud' = [ud EXCEPT ![Head(ud_deferred_free)] = "free"]
  /\ ud_deferred_free' = Tail(ud_deferred_free)
  /\ UNCHANGED <<kq_mtx, pc, epoch, kq_next_epoch, kq_inflight, boundary,
                 interest, epoll_events>>

\* Faulty: unlocks without finishing the sweep.
LeaveEarly(t) ==
  /\ pc[t] = "sweep"
  /\ pc' = [pc EXCEPT ![t] = "idle"]
  /\ kq_mtx' = NoThread
  /\ UNCHANGED <<epoch, kq_next_epoch, kq_inflight, ud_deferred_free, ud,
                 boundary, interest, epoll_events>>

\* The sweep stops at the first udata that must wait; unlock and return.
Leave(t) ==
  /\ pc[t] = "sweep"
  /\ ~HeadEligible
  /\ pc' = [pc EXCEPT ![t] = "idle"]
  /\ kq_mtx' = NoThread
  /\ UNCHANGED <<epoch, kq_next_epoch, kq_inflight, ud_deferred_free, ud,
                 boundary, interest, epoll_events>>

\* The user closes a watched descriptor: the kernel forgets the registration
\* without the library knowing.
CloseWatched(u) ==
  /\ u \in interest
  /\ interest' = interest \ {u}
  /\ UNCHANGED <<kq_mtx, pc, epoch, kq_next_epoch, kq_inflight,
                 ud_deferred_free, ud, boundary, epoll_events>>

\* The steps of a thread that is already inside kevent().
Step(t) ==
  \/ Park(t) \/ Relock(t) \/ Exit(t) \/ Sweep(t) \/ Leave(t)
  \/ \E u \in Udata :
       \/ AddKnote(t, u) \/ DisableKnote(t, u) \/ EnableKnote(t, u)
       \/ DeleteKnote(t, u) \/ Copyout(t, u) \/ CopyoutDelete(t, u)
  \/ \E S \in SUBSET Udata : EpollWait(t, S)

\* A rebase makes room when it moves the counter at all, which it does unless
\* the oldest caller still holds epoch 1, that is, has been inside for all of
\* EpochMax entries.
EpochRoom == kq_next_epoch = EpochMax => RebaseAmount > 0

Next ==
  \/ \E t \in Threads : (EpochRoom /\ Enter(t)) \/ Step(t)
  \/ \E u \in Udata : CloseWatched(u)

\* The code under the assumption it makes: no caller stays inside kevent()
\* while UINT64_MAX other calls are made.
Spec == Init /\ [][Next]_vars

\* Every thread keeps running: it finishes its changelist, epoll_wait returns
\* (an event, a timeout, or the close of the kqueue), and pthread_mutex_lock
\* does not starve a thread that waits for it.
Fairness ==
  \A t \in Threads :
    /\ WF_vars(Park(t) \/ Exit(t))
    /\ WF_vars(\E S \in SUBSET Udata : EpollWait(t, S))
    /\ SF_vars(Relock(t))
    /\ WF_vars(Sweep(t) \/ Leave(t))

FairSpec == Spec /\ Fairness

--------------------------------------------------------------------------------
(* Properties *)

\* linux_kevent_copyout reads ud_stale through every pointer epoll_wait put in
\* the buffer, however long ago: none of them points to memory that has been
\* freed (and perhaps given out again) since.
NoUseAfterFree ==
  \A t \in Threads : \A u \in epoll_events[t] : ud[u] # "free"

\* "each list is naturally sorted by insertion epoch": the head of kq_inflight
\* is the oldest caller and the head of ud_deferred_free has the smallest
\* boundary, across any number of rebases.
EpochsOrdered ==
  /\ \A i, j \in 1 .. Len(kq_inflight) :
       i < j => epoch[kq_inflight[i]] < epoch[kq_inflight[j]]
  /\ \A i, j \in 1 .. Len(ud_deferred_free) :
       i < j => boundary[ud_deferred_free[i]] <= boundary[ud_deferred_free[j]]
  /\ \A i \in 1 .. Len(kq_inflight) :
       epoch[kq_inflight[i]] \in 1 .. kq_next_epoch
  /\ \A i \in 1 .. Len(ud_deferred_free) :
       boundary[ud_deferred_free[i]] \in 1 .. kq_next_epoch

\* Nothing is kept longer than it must be: outside of a sweep, every udata on
\* ud_deferred_free waits for a caller that is really still in flight.  It is
\* also why the subtraction in linux_kqueue_epoch_rebase never borrows.
EagerReclaim ==
  (\A t \in Threads : pc[t] # "sweep") =>
    \A i \in 1 .. Len(ud_deferred_free) :
      \E k \in 1 .. Len(kq_inflight) :
        epoch[kq_inflight[k]] <= boundary[ud_deferred_free[i]]

\* The callers on kq_inflight are the threads between enter and exit.
InflightIsInside == Range(kq_inflight) = Inside

\* The stale udatas are the ones on ud_deferred_free, each of them once: the
\* assertion !u->ud_stale of epoll_udata_defer_free.
DeferredIsStale ==
  /\ \A u \in Udata : ud[u] = "stale" <=> u \in Range(ud_deferred_free)
  /\ \A i, j \in 1 .. Len(ud_deferred_free) :
       ud_deferred_free[i] = ud_deferred_free[j] => i = j

\* The kernel can only hand out live udatas, and they are looked at only
\* between the return of epoll_wait and the end of copyout.
BuffersFilledFromLive ==
  /\ \A u \in interest : ud[u] = "live"
  /\ \A t \in Threads : epoll_events[t] # {} => pc[t] \in {"woken", "copyout"}

\* A thread that still holds a retired udata entered no later than the udata's
\* boundary.
HeldWithinBoundary ==
  \A t \in Threads : \A u \in epoll_events[t] :
    \/ ud[u] = "live"
    \/ ud[u] = "stale" /\ epoch[t] <= boundary[u]

\* The inductive invariant behind the properties above.
IndInv ==
  /\ TypeOK
  /\ EpochsOrdered
  /\ EagerReclaim
  /\ InflightIsInside
  /\ DeferredIsStale
  /\ BuffersFilledFromLive
  /\ HeldWithinBoundary

\* The epochs and the two lists implement a grace period: a udata is freed only
\* after every caller that was inside kevent() when it was retired has left.
Pending(u) ==
  IF ud[u] = "stale"
  THEN {t \in Range(kq_inflight) : epoch[t] <= boundary[u]}
  ELSE {}

GP == INSTANCE GracePeriod WITH
        readers <- Range(kq_inflight),
        status  <- ud,
        waitfor <- [u \in Udata |-> Pending(u)],
        held    <- epoll_events

GracePeriodSpec == GP!Spec

\* A udata that was retired is given back in the end, however the calls of the
\* threads overlap: a kqueue that is never idle does not leak.
StaleReclaimed ==
  \A u \in Udata : ud[u] = "stale" ~> ud[u] = "free"
================================================================================
