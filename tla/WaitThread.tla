----------------------------- MODULE WaitThread -----------------------------
(***************************************************************************)
(* EVFILT_PROC of the POSIX backend.  One wait thread serves all kqueues:  *)
(* it takes SIGCHLD, of which several exits may leave only one, and then   *)
(* asks for the state of every process that is watched.  Knotes of exited  *)
(* processes go to the kf_ready of their kqueue, whose eventfd is raised.  *)
(*                                                                         *)
(* A knote is a pair of a kqueue and a process.  proc_pid_index_mtx is     *)
(* held by the thread from "scan" to the end of its notifications; changes *)
(* hold it while they run.  The walk of kf_ready by a copyout does not.    *)
(***************************************************************************)
EXTENDS Integers, FiniteSets

CONSTANTS
    Kqueues, Pids,
    None,       \* no kqueue, no process
    MaxOpens,   \* bound on calls of kqueue()
    MaxCalls    \* bound on calls of kevent()

VARIABLES
    kq,         \* kqueues: "none", "open", "closing"
    count,      \* proc_count
    joining,    \* evfilt_proc_destroy() waits for the thread to end
    thread,     \* wait thread: "none", "start", "scan", "insert", "raise", "wait"
    todo,       \* processes its scan has not reached
    cur,        \* process whose waiters it notifies
    failed,     \* ... because waitid() failed with ECHILD
    raising,    \* kqueue whose eventfd it is about to raise
    child,      \* processes: "alive", "zombie", "gone"
    chld,       \* process in the info of the pending SIGCHLD
    kn,         \* knotes
    ready,      \* kf_ready of every kqueue
    efd,        \* whether its eventfd is readable
    copyout,    \* where a copyout is: "idle", "lowered", "walk"
    left,       \* knotes its walk of kf_ready has not reached
    short,      \* kqueues that had too little room for kf_ready
    opens, calls,
    silent      \* a delivery was for an enabled knote of a process that exited

walks == <<copyout, left, short, calls>>
vars == <<kq, count, joining, thread, todo, cur, failed, raising, child, chld, kn,
          ready, efd, walks, opens, silent>>

Pairs == Kqueues \X Pids
NoKnote == [live |-> FALSE, disabled |-> FALSE, exit |-> FALSE, waiter |-> FALSE,
            error |-> FALSE]

TypeOK ==
    /\ kq \in [Kqueues -> {"none", "open", "closing"}]
    /\ count \in 0..Cardinality(Kqueues)
    /\ {joining, failed, silent} \subseteq BOOLEAN
    /\ thread \in {"none", "start", "scan", "insert", "raise", "wait"}
    /\ todo \subseteq Pids /\ cur \in Pids \cup {None}
    /\ raising \in Kqueues \cup {None}
    /\ child \in [Pids -> {"alive", "zombie", "gone"}]
    /\ chld \in Pids \cup {None}
    /\ kn \in [Pairs -> [live : BOOLEAN, disabled : BOOLEAN, exit : BOOLEAN,
                         waiter : BOOLEAN, error : BOOLEAN]]
    /\ ready \in [Kqueues -> SUBSET Pids]
    /\ efd \in [Kqueues -> BOOLEAN]
    /\ copyout \in [Kqueues -> {"idle", "lowered", "walk"}]
    /\ left \in [Kqueues -> SUBSET Pids] /\ short \subseteq Kqueues
    /\ opens \in 0..MaxOpens /\ calls \in 0..MaxCalls

Init ==
    /\ kq = [q \in Kqueues |-> "none"]
    /\ count = 0 /\ joining = FALSE
    /\ thread = "none" /\ todo = {} /\ cur = None /\ failed = FALSE /\ raising = None
    /\ child = [p \in Pids |-> "alive"]
    /\ chld = None
    /\ kn = [x \in Pairs |-> NoKnote]
    /\ ready = [q \in Kqueues |-> {}]
    /\ efd = [q \in Kqueues |-> FALSE]
    /\ copyout = [q \in Kqueues |-> "idle"]
    /\ left = [q \in Kqueues |-> {}] /\ short = {}
    /\ opens = 0 /\ calls = 0 /\ silent = TRUE

\* Waiters of a process in the knotes n; proc_pid_index has the processes that
\* have some, and those whose last waiter was disabled, with an empty list.
Waiters(n, p) == {q \in Kqueues : n[<<q, p>>].waiter}

\* Faulty: only the process that SIGCHLD names is looked at.
TodoNamed(p) == {r \in Pids : r = p /\ Waiters(kn, r) # {}}

\* All processes that are watched, whichever SIGCHLD names.
Todo(p) == {r \in Pids : Waiters(kn, r) # {}}

(***************************************************************************)
(* evfilt_proc_init(), evfilt_proc_destroy(): the first filter starts the  *)
(* thread and waits until it runs, the last one cancels and joins it.      *)
(***************************************************************************)
InitFilter(q) ==
    /\ kq[q] = "none" /\ ~joining /\ opens < MaxOpens
    /\ kq' = [kq EXCEPT ![q] = "open"]
    /\ count' = count + 1
    /\ opens' = opens + 1
    /\ thread' = IF count > 0 THEN thread ELSE "start"
    /\ UNCHANGED <<joining, todo, cur, failed, raising, child, chld, kn, ready, efd, walks, silent>>

Close(q) ==
    /\ kq[q] = "open" /\ copyout[q] = "idle"
    /\ kq' = [kq EXCEPT ![q] = "closing"]
    /\ UNCHANGED <<count, joining, thread, todo, cur, failed, raising, child, chld, kn, ready,
                   efd, walks, opens, silent>>

\* Faulty: the thread is stopped by the first kqueue that is closed.
DestroyFirst(q) ==
    /\ kq[q] = "closing" /\ ~joining /\ \A p \in Pids : ~kn[<<q, p>>].live
    /\ kq' = [kq EXCEPT ![q] = "none"]
    /\ count' = count - 1
    /\ joining' = TRUE
    /\ efd' = [efd EXCEPT ![q] = FALSE]
    /\ UNCHANGED <<thread, todo, cur, failed, raising, child, chld, kn, ready, walks,
                   opens, silent>>

Destroy(q) ==
    /\ kq[q] = "closing" /\ ~joining /\ \A p \in Pids : ~kn[<<q, p>>].live
    /\ kq' = [kq EXCEPT ![q] = "none"]
    /\ count' = count - 1
    /\ joining' = (count = 1)
    /\ efd' = [efd EXCEPT ![q] = FALSE]
    /\ UNCHANGED <<thread, todo, cur, failed, raising, child, chld, kn, ready, walks,
                   opens, silent>>

\* The thread is cancelled in sigwaitinfo().
Join ==
    /\ joining /\ thread = "wait"
    /\ thread' = "none" /\ joining' = FALSE
    /\ UNCHANGED <<kq, count, todo, cur, failed, raising, child, chld, kn, ready, efd,
                   walks, opens, silent>>

(***************************************************************************)
(* Processes.  The program reaps its children when it likes.               *)
(***************************************************************************)
Exit(p) ==
    /\ child[p] = "alive"
    /\ child' = [child EXCEPT ![p] = "zombie"]
    /\ chld' = IF chld = None THEN p ELSE chld
    /\ UNCHANGED <<kq, count, joining, thread, todo, cur, failed, raising, kn, ready, efd,
                   walks, opens, silent>>

Reap(p) ==
    /\ child[p] = "zombie"
    /\ child' = [child EXCEPT ![p] = "gone"]
    /\ UNCHANGED <<kq, count, joining, thread, todo, cur, failed, raising, chld, kn, ready,
                   efd, walks, opens, silent>>

(***************************************************************************)
(* wait_thread_loop().                                                     *)
(***************************************************************************)
\* The first time round the index is scanned without a signal.
Start ==
    /\ thread = "start"
    /\ thread' = "scan" /\ todo' = Todo(None)
    /\ UNCHANGED <<kq, count, joining, cur, failed, raising, child, chld, kn, ready, efd,
                   walks, opens, silent>>

\* The waiters of the process that SIGCHLD names are notified at once, with the
\* status in its info; then the others are asked about.
SigWait ==
    /\ thread = "wait" /\ chld # None
    /\ IF Waiters(kn, chld) # {}
         THEN thread' = "insert" /\ cur' = chld /\ failed' = FALSE
         ELSE thread' = "scan" /\ UNCHANGED <<cur, failed>>
    /\ todo' = Todo(chld) \ {chld}
    /\ chld' = None
    /\ UNCHANGED <<kq, count, joining, raising, child, kn, ready, efd, walks, opens,
                   silent>>

\* Faulty: an error is kept for the processes that follow.
ScanKeepsError(p) ==
    /\ thread = "scan" /\ p \in todo
    /\ todo' = todo \ {p}
    /\ IF child[p] # "alive"
         THEN thread' = "insert" /\ cur' = p /\ failed' = (failed \/ child[p] = "gone")
         ELSE UNCHANGED <<thread, cur, failed>>
    /\ UNCHANGED <<kq, count, joining, raising, child, chld, kn, ready, efd, walks, opens,
                   silent>>

\* waitid() for the next process: it exited, somebody reaped it, or it runs.
Scan(p) ==
    /\ thread = "scan" /\ p \in todo
    /\ todo' = todo \ {p}
    /\ IF child[p] # "alive"
         THEN thread' = "insert" /\ cur' = p /\ failed' = (child[p] = "gone")
         ELSE UNCHANGED <<thread, cur, failed>>
    /\ UNCHANGED <<kq, count, joining, raising, child, chld, kn, ready, efd, walks, opens,
                   silent>>

ScanEnd ==
    /\ thread = "scan" /\ todo = {}
    /\ thread' = "wait"
    /\ UNCHANGED <<kq, count, joining, todo, cur, failed, raising, child, chld, kn, ready, efd,
                   walks, opens, silent>>

\* One waiter of the process: first kf_ready ...
Insert(q) ==
    /\ thread = "insert" /\ kn[<<q, cur>>].waiter
    /\ ready' = [ready EXCEPT ![q] = @ \cup {cur}]
    /\ thread' = "raise" /\ raising' = q
    /\ UNCHANGED <<kq, count, joining, todo, cur, failed, child, chld, efd, walks, opens,
                   silent>>

WaiterNotify(q) ==
    /\ ~failed /\ Insert(q)
    /\ kn' = [kn EXCEPT ![<<q, cur>>].waiter = FALSE]

WaiterNotifyError(q) ==
    /\ failed /\ Insert(q)
    /\ kn' = [kn EXCEPT ![<<q, cur>>].waiter = FALSE, ![<<q, cur>>].error = TRUE]

\* Faulty: ... and no event.
NotifyRaiseNone ==
    /\ thread = "raise"
    /\ raising' = None
    /\ thread' = IF Waiters(kn, cur) # {} THEN "insert" ELSE "scan"
    /\ UNCHANGED <<kq, count, joining, todo, cur, failed, child, chld, kn, ready, efd, walks,
                   opens, silent>>

\* ... then the eventfd.
NotifyRaise ==
    /\ thread = "raise"
    /\ efd' = [efd EXCEPT ![raising] = TRUE]
    /\ raising' = None
    /\ thread' = IF Waiters(kn, cur) # {} THEN "insert" ELSE "scan"
    /\ UNCHANGED <<kq, count, joining, todo, cur, failed, child, chld, kn, ready, walks,
                   opens, silent>>

(***************************************************************************)
(* Changes.                                                                *)
(***************************************************************************)
State == [kn |-> kn, ready |-> ready, efd |-> efd]
Becomes(s) == kn' = s.kn /\ ready' = s.ready /\ efd' = s.efd

\* The process may have exited already: then all its waiters are notified.
ProcPidArm(s, q, p) ==
    LET a == [s EXCEPT !.kn[<<q, p>>].waiter = TRUE]
        w == Waiters(a.kn, p)
    IN  IF child[p] # "zombie" THEN a
        ELSE [kn |-> [x \in Pairs |-> IF x[2] = p THEN [a.kn[x] EXCEPT !.waiter = FALSE]
                                       ELSE a.kn[x]],
              ready |-> [r \in Kqueues |-> IF r \in w THEN a.ready[r] \cup {p} ELSE a.ready[r]],
              efd |-> [r \in Kqueues |-> a.efd[r] \/ r \in w]]

\* Faulty: a knote that was notified stays on kf_ready.
ProcPidDisarmWaiter(s, q, p) == [s EXCEPT !.kn[<<q, p>>].waiter = FALSE]

\* proc_pid_disarm(), and what its callers do with kf_ready and the eventfd.
ProcPidDisarm(s, q, p) ==
    [s EXCEPT !.kn[<<q, p>>].waiter = FALSE,
              !.ready[q] = @ \ {p},
              !.efd[q] = @ /\ s.ready[q] \ {p} # {}]

Call == calls < MaxCalls /\ calls' = calls + 1

Unlocked == thread \notin {"scan", "insert", "raise"}

Change(q, p) ==
    /\ Call /\ Unlocked /\ kq[q] = "open" /\ copyout[q] = "idle"
    /\ UNCHANGED <<kq, count, joining, thread, todo, cur, failed, raising, child, chld,
                   copyout, left, short, opens, silent>>

\* Without NOTE_EXIT the knote watches nothing.
Add(q, p) ==
    /\ Change(q, p) /\ ~kn[<<q, p>>].live
    /\ \E exit, disable \in BOOLEAN :
         LET n == [State EXCEPT !.kn[<<q, p>>] = [NoKnote EXCEPT !.live = TRUE, !.exit = exit]]
             a == IF exit THEN ProcPidArm(n, q, p) ELSE n
         IN  /\ exit => child[p] # "gone"
             /\ Becomes(IF disable
                          THEN [ProcPidDisarm(a, q, p) EXCEPT !.kn[<<q, p>>].disabled = TRUE]
                          ELSE a)

\* EV_ADD of a knote that exists: neither EV_DISABLE nor EV_ERROR is kept, and a
\* knote that is not on the list of waiters is put there (again).  One that was
\* notified would be linked into kf_ready a second time; that is left out.
Modify(q, p) ==
    /\ Change(q, p) /\ kn[<<q, p>>].live
    /\ \E exit \in BOOLEAN :
         LET n == [State EXCEPT !.kn[<<q, p>>].disabled = FALSE, !.kn[<<q, p>>].exit = exit,
                                !.kn[<<q, p>>].error = FALSE]
         IN  /\ exit => p \notin ready[q]
             /\ Becomes(IF exit /\ ~kn[<<q, p>>].waiter THEN ProcPidArm(n, q, p)
                        ELSE IF ~exit /\ kn[<<q, p>>].waiter THEN ProcPidDisarm(n, q, p)
                        ELSE n)

Disable(q, p) ==
    /\ Change(q, p) /\ kn[<<q, p>>].live /\ ~kn[<<q, p>>].disabled
    /\ Becomes([ProcPidDisarm(State, q, p) EXCEPT !.kn[<<q, p>>].disabled = TRUE])

\* kn_enable() is kn_create(), and fails if the process is gone.
Enable(q, p) ==
    /\ Change(q, p) /\ kn[<<q, p>>].live /\ kn[<<q, p>>].disabled
    /\ kn[<<q, p>>].exit => child[p] # "gone"
    /\ LET n == [State EXCEPT !.kn[<<q, p>>].disabled = FALSE]
       IN  Becomes(IF kn[<<q, p>>].exit THEN ProcPidArm(n, q, p) ELSE n)

\* Faulty: does not wait for the thread to finish its notifications.
DeleteUnlocked(q, p) ==
    /\ kq[q] # "none" /\ copyout[q] = "idle" /\ kn[<<q, p>>].live
    /\ Becomes([ProcPidDisarm(State, q, p) EXCEPT !.kn[<<q, p>>] = NoKnote])
    /\ UNCHANGED <<kq, count, joining, thread, todo, cur, failed, raising, child, chld,
                   walks, opens, silent>>

\* EV_DELETE, or one step of freeing the kqueue.
Delete(q, p) ==
    /\ Unlocked /\ kq[q] # "none" /\ copyout[q] = "idle" /\ kn[<<q, p>>].live
    /\ Becomes([ProcPidDisarm(State, q, p) EXCEPT !.kn[<<q, p>>] = NoKnote])
    /\ UNCHANGED <<kq, count, joining, thread, todo, cur, failed, raising, child, chld,
                   walks, opens, silent>>

(***************************************************************************)
(* posix_kevent_copyout(): the eventfd is lowered, then kf_ready walked.   *)
(* kq_rfds may be out of date, so that the eventfd need not be readable.   *)
(***************************************************************************)
Lower(q) ==
    /\ Call /\ kq[q] = "open" /\ copyout[q] = "idle"
    /\ efd' = [efd EXCEPT ![q] = FALSE]
    /\ copyout' = [copyout EXCEPT ![q] = "lowered"]
    /\ UNCHANGED <<kq, count, joining, thread, todo, cur, failed, raising, child, chld, kn,
                   ready, left, short, opens, silent>>

Walk(q) ==
    /\ copyout[q] = "lowered"
    /\ copyout' = [copyout EXCEPT ![q] = "walk"]
    /\ left' = [left EXCEPT ![q] = ready[q]]
    /\ UNCHANGED <<kq, count, joining, thread, todo, cur, failed, raising, child, chld, kn,
                   ready, efd, short, opens, calls, silent>>

\* A knote is detached, delivered and, being EV_ONESHOT, deleted, for which the
\* index has to be unlocked.
CopyoutOne(q, p) ==
    /\ copyout[q] = "walk" /\ p \in left[q] /\ Unlocked
    /\ left' = [left EXCEPT ![q] = @ \ {p}]
    /\ Becomes([ProcPidDisarm(State, q, p) EXCEPT !.kn[<<q, p>>] = NoKnote])
    /\ silent' = (silent /\ kn[<<q, p>>].live /\ ~kn[<<q, p>>].disabled /\ child[p] # "alive")
    /\ UNCHANGED <<kq, count, joining, thread, todo, cur, failed, raising, child, chld,
                   copyout, short, opens, calls>>

\* The end of the list, or of the room.
CopyoutEnd(q) ==
    /\ copyout[q] = "walk"
    /\ copyout' = [copyout EXCEPT ![q] = "idle"]
    /\ left' = [left EXCEPT ![q] = {}]
    /\ short' = IF left[q] = {} THEN short ELSE short \cup {q}
    /\ UNCHANGED <<kq, count, joining, thread, todo, cur, failed, raising, child, chld, kn,
                   ready, efd, opens, calls, silent>>

Next ==
    \/ \E q \in Kqueues :
         \/ InitFilter(q) \/ Close(q) \/ Destroy(q)
         \/ Lower(q) \/ Walk(q) \/ CopyoutEnd(q)
         \/ WaiterNotify(q) \/ WaiterNotifyError(q)
         \/ \E p \in Pids : \/ Add(q, p) \/ Modify(q, p) \/ Disable(q, p) \/ Enable(q, p)
                            \/ Delete(q, p) \/ CopyoutOne(q, p)
    \/ \E p \in Pids : Exit(p) \/ Reap(p) \/ Scan(p)
    \/ Join \/ Start \/ SigWait \/ ScanEnd \/ NotifyRaise

Spec == Init /\ [][Next]_vars

-----------------------------------------------------------------------------
(***************************************************************************)
(* Properties.                                                             *)
(***************************************************************************)
\* Although SIGCHLD is coalesced and names one process only, no exit is
\* overlooked: a zombie that is waited for is still to be scanned, is being
\* notified, or has a start or a signal pending that makes the thread scan.
ZombieWillBeSeen ==
    \A p \in Pids : child[p] = "zombie" /\ Waiters(kn, p) # {} =>
        thread = "start" \/ chld # None \/ p \in todo
        \/ (thread \in {"insert", "raise"} /\ cur = p)

\* The thread runs as long as some kqueue may hold knotes, and is not joined
\* while one does.
ThreadServes ==
    (\E x \in Pairs : kn[x].live) => thread # "none" /\ ~joining

\* What the thread and the copyouts refer to still exists: kf_ready and the
\* lists of waiters hold enabled knotes of kqueues that are not freed, and so
\* does the walk of a copyout; the eventfd to be raised is not closed.
ReferencesLive ==
    /\ \A q \in Kqueues, p \in Pids :
         p \in ready[q] \/ p \in left[q] \/ kn[<<q, p>>].waiter =>
             kq[q] # "none" /\ kn[<<q, p>>].live /\ ~kn[<<q, p>>].disabled
    /\ raising # None => kq[raising] # "none"

\* A knote on kf_ready has an event coming: the eventfd is readable or about to
\* be, or a copyout that lowered it has not ended.  Except after a copyout that
\* ran out of room, as the eventfd was lowered first.
ReadyIsReadable ==
    \A q \in Kqueues : ready[q] # {} /\ q \notin short =>
        efd[q] \/ raising = q \/ copyout[q] # "idle"

\* Only exits are delivered, and only for knotes that are enabled.
DeliveriesTrue == silent

\* A knote that reports an error is of a process that was reaped by somebody.
ErrorMeansReaped ==
    \A q \in Kqueues, p \in Pids : kn[<<q, p>>].error => child[p] = "gone"
=============================================================================
