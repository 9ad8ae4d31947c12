------------------------------ MODULE GracePeriod ------------------------------
(***************************************************************************)
(* What the deferred free of struct epoll_udata promises, with no epochs   *)
(* and no lists: an object that is retired is reclaimed only once every    *)
(* reader that was inside kevent() when it was retired has left.  A reader *)
(* may pick up pointers to live objects at any moment it is inside, and it *)
(* looks at them later, so this grace period is what keeps the pointers    *)
(* good.  DeferredFree is shown to implement this specification.           *)
(***************************************************************************)
CONSTANTS Threads, Udata

VARIABLES
  readers,  \* the threads inside kevent()
  status,   \* per object: "free" memory, "live", or "stale" (retired)
  waitfor,  \* per object: the readers its reclamation still waits for
  held      \* per thread: the objects whose address the thread holds

vars == <<readers, status, waitfor, held>>

TypeOK ==
  /\ readers \in SUBSET Threads
  /\ status \in [Udata -> {"free", "live", "stale"}]
  /\ waitfor \in [Udata -> SUBSET Threads]
  /\ held \in [Threads -> SUBSET Udata]

Init ==
  /\ readers = {}
  /\ status = [u \in Udata |-> "free"]
  /\ waitfor = [u \in Udata |-> {}]
  /\ held = [t \in Threads |-> {}]

Begin(t) ==
  /\ t \notin readers
  /\ readers' = readers \cup {t}
  /\ UNCHANGED <<status, waitfor, held>>

\* A reader leaves: nobody waits for it any more, and it holds nothing.
End(t) ==
  /\ t \in readers
  /\ readers' = readers \ {t}
  /\ waitfor' = [u \in Udata |-> waitfor[u] \ {t}]
  /\ held' = [held EXCEPT ![t] = {}]
  /\ UNCHANGED status

Allocate(u) ==
  /\ status[u] = "free"
  /\ status' = [status EXCEPT ![u] = "live"]
  /\ UNCHANGED <<readers, waitfor, held>>

Acquire(t, S) ==
  /\ t \in readers
  /\ \A u \in S : status[u] = "live"
  /\ held' = [held EXCEPT ![t] = S]
  /\ UNCHANGED <<readers, status, waitfor>>

Drop(t, S) ==
  /\ held' = [held EXCEPT ![t] = @ \ S]
  /\ UNCHANGED <<readers, status, waitfor>>

\* Retire u, possibly as the effect of thread t dispatching (and so letting
\* go of) the event that carried u.
Retire(t, u, S) ==
  /\ status[u] = "live"
  /\ status' = [status EXCEPT ![u] = "stale"]
  /\ waitfor' = [waitfor EXCEPT ![u] = readers]
  /\ held' = [held EXCEPT ![t] = @ \ S]
  /\ UNCHANGED readers

Reclaim(u) ==
  /\ status[u] = "stale"
  /\ waitfor[u] = {}
  /\ status' = [status EXCEPT ![u] = "free"]
  /\ UNCHANGED <<readers, waitfor, held>>

Next ==
  \/ \E t \in Threads : Begin(t) \/ End(t)
  \/ \E u \in Udata : Allocate(u) \/ Reclaim(u)
  \/ \E t \in Threads, S \in SUBSET Udata : Acquire(t, S) \/ Drop(t, S)
  \/ \E t \in Threads, u \in Udata, S \in SUBSET Udata : Retire(t, u, S)

Spec == Init /\ [][Next]_vars

\* No reader holds the address of memory that has been given back: the
\* copyout loop of kevent() may read ud_stale through every pointer in its
\* event buffer.
NoDangling ==
  \A t \in Threads : \A u \in held[t] : status[u] # "free"
================================================================================
