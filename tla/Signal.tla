------------------------------- MODULE Signal -------------------------------
(***************************************************************************)
(* EVFILT_SIGNAL on Linux: one dispatch thread per process reads signals   *)
(* from a signalfd and records them on the knotes of every kqueue; a       *)
(* kqueue's filter keeps the knotes that have something to deliver on      *)
(* sfs_pending and an eventfd, level-triggered in the kqueue's epoll set,  *)
(* that is raised when a knote enters the list.                            *)
(*                                                                         *)
(* The table and the lists are guarded by sigtbl_mtx, which is not held    *)
(* across a step; changes and copyout of a kqueue also hold the kqueue's   *)
(* own mutex, from end to end, and at[k] says where its holder is.         *)
(* A filter has one knote per signal.  Signals coalesce in the kernel.     *)
(***************************************************************************)
EXTENDS Integers, FiniteSets

CONSTANTS
    Kqs,        \* kqueues
    Sigs,       \* signal numbers
    Adds,       \* the flag sets the program passes along with EV_ADD
    Rooms,      \* free slots an eventlist may have
    MaxWoken,   \* bound on the threads returning from epoll_wait on a kqueue
    MaxCount,   \* bound on kn_signal_count
    Nobody      \* the owner of an unlocked sig_init_mtx

Flags == {"EV_DISABLE", "EV_DISPATCH", "EV_ONESHOT"}

ASSUME SignalAssumption ==
    /\ Nobody \notin Kqs /\ IsFiniteSet(Kqs)
    /\ MaxWoken \in Nat /\ MaxCount \in Nat
    /\ Rooms \subseteq Nat
    /\ \A fl \in Adds : fl \subseteq Flags /\ ~ {"EV_DISPATCH", "EV_ONESHOT"} \subseteq fl

VARIABLES
    filt,               \* each kqueue's filter: see FilterStates
    sig_init_mtx,       \* the kqueue on whose behalf it is held, or Nobody
    sig_filter_count,
    thread,             \* the dispatch thread: "off", "starting", "run" or "dead"
    pipe,               \* the write end of sig_pipe is open
    list,               \* which list of its sig_link a knote is on; "none": no knote
    flags,              \* EV_ flags of each knote
    count,              \* kn_signal_count of each knote
    s_links,            \* per signal, the kqueues linked in sigtbl
    sfs_pending,        \* per kqueue, the knotes with something to deliver
    efd,                \* the filter's eventfd is readable
    at,                 \* where the holder of the kqueue's mutex is
    emitted,            \* the knotes copyout has still to apply flag actions to
    woken,              \* threads back from epoll_wait, waiting for the mutex
    sig_active_set,
    mask,               \* the signals the signalfd accepts
    queued,             \* pending for the process
    early               \* those of them sent, or left over, while nobody watched

tableVars == <<list, flags, count, s_links, sfs_pending, sig_active_set, mask, queued, early>>
threadVars == <<sig_init_mtx, sig_filter_count, thread, pipe>>
kqVars == <<filt, efd, at, emitted, woken>>
vars == <<tableVars, threadVars, kqVars>>

\* "starting", "joining": holds sig_init_mtx in sig_dispatch_start or _stop.
\* "leaving": in evfilt_signal_destroy, everything freed but the count.
FilterStates == {"off", "starting", "on", "leaving", "joining"}

TypeOK ==
    /\ filt \in [Kqs -> FilterStates]
    /\ sig_init_mtx \in Kqs \cup {Nobody}
    /\ sig_filter_count \in 0 .. Cardinality(Kqs)
    /\ thread \in {"off", "starting", "run", "dead"}
    /\ pipe \in BOOLEAN
    /\ list \in [Kqs -> [Sigs -> {"none", "enabled", "disabled"}]]
    /\ flags \in [Kqs -> [Sigs -> SUBSET Flags]]
    /\ count \in [Kqs -> [Sigs -> 0 .. MaxCount]]
    /\ s_links \in [Sigs -> SUBSET Kqs]
    /\ sfs_pending \in [Kqs -> SUBSET Sigs]
    /\ efd \in [Kqs -> BOOLEAN]
    /\ at \in [Kqs -> {"idle", "disable", "raise", "flags", "destroy"}]
    /\ emitted \in [Kqs -> SUBSET Sigs]
    /\ woken \in [Kqs -> 0 .. MaxWoken]
    /\ sig_active_set \subseteq Sigs /\ mask \subseteq Sigs /\ queued \subseteq Sigs
    /\ early \subseteq queued
    /\ sig_init_mtx # Nobody <=> \E k \in Kqs : filt[k] \in {"starting", "joining"}

Init ==
    /\ filt = [k \in Kqs |-> "off"]
    /\ sig_init_mtx = Nobody
    /\ sig_filter_count = 0
    /\ thread = "off"
    /\ pipe = FALSE
    /\ list = [k \in Kqs |-> [s \in Sigs |-> "none"]]
    /\ flags = [k \in Kqs |-> [s \in Sigs |-> {}]]
    /\ count = [k \in Kqs |-> [s \in Sigs |-> 0]]
    /\ s_links = [s \in Sigs |-> {}]
    /\ sfs_pending = [k \in Kqs |-> {}]
    /\ efd = [k \in Kqs |-> FALSE]
    /\ at = [k \in Kqs |-> "idle"]
    /\ emitted = [k \in Kqs |-> {}]
    /\ woken = [k \in Kqs |-> 0]
    /\ sig_active_set = {} /\ mask = {} /\ queued = {} /\ early = {}

(***************************************************************************)
(* The filter of a kqueue, and the start and stop of the dispatch thread.  *)
(***************************************************************************)
\* evfilt_signal_init(): the first filter starts the thread and waits for it.
\* A failure undoes everything and is not shown.
FilterInit(k) ==
    /\ filt[k] = "off"
    /\ sig_init_mtx = Nobody
    /\ IF sig_filter_count = 0
         THEN /\ filt' = [filt EXCEPT ![k] = "starting"]
              /\ sig_init_mtx' = k
              /\ thread' = "starting"
              /\ pipe' = TRUE
              /\ sig_active_set' = {} /\ mask' = {}
              /\ UNCHANGED sig_filter_count
         ELSE /\ filt' = [filt EXCEPT ![k] = "on"]
              /\ sig_filter_count' = sig_filter_count + 1
              /\ UNCHANGED <<sig_init_mtx, thread, pipe, sig_active_set, mask>>
    /\ UNCHANGED <<list, flags, count, s_links, sfs_pending, queued, early,
                   efd, at, emitted, woken>>

\* sig_dispatch_loop() has set sig_dispatch_started.
DispatchStarted ==
    /\ thread = "starting"
    /\ thread' = "run"
    /\ UNCHANGED <<tableVars, kqVars, sig_init_mtx, sig_filter_count, pipe>>

FilterInitDone(k) ==
    /\ filt[k] = "starting"
    /\ thread = "run"
    /\ filt' = [filt EXCEPT ![k] = "on"]
    /\ sig_filter_count' = sig_filter_count + 1
    /\ sig_init_mtx' = Nobody
    /\ UNCHANGED <<tableVars, thread, pipe, efd, at, emitted, woken>>

\* evfilt_signal_destroy() up to the count: the lists of the filter are gone.
FilterDestroy(k) ==
    /\ at[k] = "destroy"
    /\ \A s \in Sigs : list[k][s] = "none"
    /\ filt' = [filt EXCEPT ![k] = "leaving"]
    /\ s_links' = [s \in Sigs |-> s_links[s] \ {k}]
    /\ sfs_pending' = [sfs_pending EXCEPT ![k] = {}]
    /\ efd' = [efd EXCEPT ![k] = FALSE]
    /\ at' = [at EXCEPT ![k] = "idle"]
    /\ UNCHANGED <<list, flags, count, sig_active_set, mask, queued, early,
                   threadVars, emitted, woken>>

\* Faulty: does not take sig_init_mtx.
FilterLeaveUnlocked(k) ==
    /\ filt[k] = "leaving"
    /\ sig_filter_count' = sig_filter_count - 1
    /\ filt' = [filt EXCEPT ![k] = IF sig_filter_count' = 0 THEN "joining" ELSE "off"]
    /\ pipe' = IF sig_filter_count' = 0 THEN FALSE ELSE pipe
    /\ UNCHANGED <<tableVars, thread, sig_init_mtx, efd, at, emitted, woken>>

\* Faulty: stops the thread with the first filter that goes.
FilterLeaveFirst(k) ==
    /\ filt[k] = "leaving"
    /\ sig_init_mtx = Nobody
    /\ sig_filter_count' = sig_filter_count - 1
    /\ filt' = [filt EXCEPT ![k] = "joining"]
    /\ pipe' = FALSE
    /\ sig_init_mtx' = k
    /\ UNCHANGED <<tableVars, thread, efd, at, emitted, woken>>

\* Faulty: the last filter joins the thread without closing the pipe.
FilterLeaveQuiet(k) ==
    /\ filt[k] = "leaving"
    /\ sig_init_mtx = Nobody
    /\ sig_filter_count' = sig_filter_count - 1
    /\ filt' = [filt EXCEPT ![k] = IF sig_filter_count' = 0 THEN "joining" ELSE "off"]
    /\ sig_init_mtx' = IF sig_filter_count' = 0 THEN k ELSE Nobody
    /\ UNCHANGED <<tableVars, thread, pipe, efd, at, emitted, woken>>

\* The last filter closes the pipe, and goes on to join the thread.
FilterLeave(k) ==
    /\ filt[k] = "leaving"
    /\ sig_init_mtx = Nobody
    /\ sig_filter_count' = sig_filter_count - 1
    /\ IF sig_filter_count' = 0
         THEN /\ filt' = [filt EXCEPT ![k] = "joining"]
              /\ sig_init_mtx' = k
              /\ pipe' = FALSE
         ELSE /\ filt' = [filt EXCEPT ![k] = "off"]
              /\ UNCHANGED <<sig_init_mtx, pipe>>
    /\ UNCHANGED <<tableVars, thread, efd, at, emitted, woken>>

\* pthread_join() returns, and the signalfd is closed.
DispatchJoined(k) ==
    /\ filt[k] = "joining"
    /\ thread = "dead"
    /\ thread' = "off"
    /\ filt' = [filt EXCEPT ![k] = "off"]
    /\ sig_init_mtx' = Nobody
    /\ mask' = {}
    /\ UNCHANGED <<list, flags, count, s_links, sfs_pending, sig_active_set, queued,
                   early, sig_filter_count, pipe, efd, at, emitted, woken>>

(***************************************************************************)
(* The platform layer: signalfd, under sigtbl_mtx.                         *)
(***************************************************************************)
\* Faulty: what the process has pending is not thrown away.
SigPlatformAddKeep(s) ==
    /\ sig_active_set' = sig_active_set \cup {s}
    /\ mask' = sig_active_set'
    /\ UNCHANGED <<queued, early>>

\* Drain what is pending from before, then watch the signal.
SigPlatformAdd(s) ==
    /\ sig_active_set' = sig_active_set \cup {s}
    /\ mask' = sig_active_set'
    /\ queued' = queued \ {s}
    /\ early' = early \ {s}

\* The update of the signalfd may fail, which is only logged.
SigPlatformRemove(s) ==
    /\ sig_active_set' = sig_active_set \ {s}
    /\ mask' \in {mask, sig_active_set'}
    /\ early' = early \cup (queued \cap {s})
    /\ UNCHANGED queued

(***************************************************************************)
(* The filter's operations on knotes.                                      *)
(***************************************************************************)
\* Faulty: the link of a signal nobody on this kqueue wants stays in sigtbl.
KnDeleteKeepLink(k, s) ==
    /\ list' = [list EXCEPT ![k][s] = "none"]
    /\ flags' = [flags EXCEPT ![k][s] = {}]
    /\ count' = [count EXCEPT ![k][s] = 0]
    /\ sfs_pending' = [sfs_pending EXCEPT ![k] = @ \ {s}]
    /\ UNCHANGED <<s_links, sig_active_set, mask, queued, early>>

\* evfilt_signal_knote_delete(), and the knote is gone.
KnDelete(k, s) ==
    /\ list' = [list EXCEPT ![k][s] = "none"]
    /\ flags' = [flags EXCEPT ![k][s] = {}]
    /\ count' = [count EXCEPT ![k][s] = 0]
    /\ sfs_pending' = [sfs_pending EXCEPT ![k] = @ \ {s}]
    /\ s_links' = [s_links EXCEPT ![s] = @ \ {k}]
    /\ IF s_links'[s] = {} THEN SigPlatformRemove(s)
                           ELSE UNCHANGED <<sig_active_set, mask, queued, early>>

\* Faulty: the knote stays on sfs_pending.
KnDisableKeepPending(k, s) ==
    /\ list' = [list EXCEPT ![k][s] = "disabled"]
    /\ flags' = [flags EXCEPT ![k][s] = @ \cup {"EV_DISABLE"}]
    /\ UNCHANGED <<count, s_links, sfs_pending, sig_active_set, mask, queued, early>>

\* evfilt_signal_knote_disable(): the count is kept.  The caller sets the flag.
KnDisable(k, s) ==
    /\ list' = [list EXCEPT ![k][s] = "disabled"]
    /\ flags' = [flags EXCEPT ![k][s] = @ \cup {"EV_DISABLE"}]
    /\ sfs_pending' = [sfs_pending EXCEPT ![k] = @ \ {s}]
    /\ UNCHANGED <<count, s_links, sig_active_set, mask, queued, early>>

(***************************************************************************)
(* kevent_copyin_one() on kqueue k, one action per branch.                 *)
(***************************************************************************)
Changing(k) == filt[k] = "on" /\ at[k] = "idle"

\* EV_ADD of a new knote.  With EV_DISABLE it is disabled afterwards, in a
\* critical section of its own.
Create(k, s, fl) ==
    /\ Changing(k)
    /\ list[k][s] = "none"
    /\ list' = [list EXCEPT ![k][s] = "enabled"]
    /\ flags' = [flags EXCEPT ![k][s] = fl]
    /\ s_links' = [s_links EXCEPT ![s] = @ \cup {k}]
    /\ IF s_links[s] = {} THEN SigPlatformAdd(s)
                          ELSE UNCHANGED <<sig_active_set, mask, queued, early>>
    /\ at' = IF "EV_DISABLE" \in fl THEN [at EXCEPT ![k] = "disable"] ELSE at
    /\ emitted' = IF "EV_DISABLE" \in fl THEN [emitted EXCEPT ![k] = {s}] ELSE emitted
    /\ UNCHANGED <<count, sfs_pending, threadVars, filt, efd, woken>>

\* sig_platform_add() fails after it has drained the signal: link and knote are
\* taken back.
CreateFailed(k, s) ==
    /\ Changing(k)
    /\ list[k][s] = "none"
    /\ s_links[s] = {}
    /\ queued' = queued \ {s}
    /\ early' = early \ {s}
    /\ UNCHANGED <<list, flags, count, s_links, sfs_pending, sig_active_set, mask,
                   threadVars, kqVars>>

CreateDisable(k, s) ==
    /\ at[k] = "disable"
    /\ s \in emitted[k]
    /\ KnDisable(k, s)
    /\ at' = [at EXCEPT ![k] = "idle"]
    /\ emitted' = [emitted EXCEPT ![k] = {}]
    /\ UNCHANGED <<threadVars, filt, efd, woken>>

\* EV_ADD of an existing knote: its flags are overwritten, EV_DISABLE too, and
\* it stays on the list it is on.
Modify(k, s, fl) ==
    /\ Changing(k)
    /\ list[k][s] # "none"
    /\ "EV_DISABLE" \notin fl
    /\ flags' = [flags EXCEPT ![k][s] = fl]
    /\ UNCHANGED <<list, count, s_links, sfs_pending, sig_active_set, mask, queued,
                   early, threadVars, kqVars>>

Delete(k, s) ==
    /\ Changing(k)
    /\ list[k][s] # "none"
    /\ KnDelete(k, s)
    /\ UNCHANGED <<threadVars, kqVars>>

Disable(k, s) ==
    /\ Changing(k)
    /\ list[k][s] # "none"
    /\ "EV_DISABLE" \notin flags[k][s]
    /\ KnDisable(k, s)
    /\ UNCHANGED <<threadVars, kqVars>>

\* EV_ENABLE: what was counted meanwhile is pending again; the eventfd is raised
\* after sigtbl_mtx has been dropped.
Enable(k, s) ==
    /\ Changing(k)
    /\ "EV_DISABLE" \in flags[k][s]
    /\ list' = [list EXCEPT ![k][s] = "enabled"]
    /\ flags' = [flags EXCEPT ![k][s] = @ \ {"EV_DISABLE"}]
    /\ sfs_pending' = IF count[k][s] > 0 THEN [sfs_pending EXCEPT ![k] = @ \cup {s}]
                                         ELSE sfs_pending
    /\ at' = IF sfs_pending' # sfs_pending THEN [at EXCEPT ![k] = "raise"] ELSE at
    /\ UNCHANGED <<count, s_links, sig_active_set, mask, queued, early, threadVars,
                   filt, efd, emitted, woken>>

EnableRaise(k) ==
    /\ at[k] = "raise"
    /\ efd' = [efd EXCEPT ![k] = TRUE]
    /\ at' = [at EXCEPT ![k] = "idle"]
    /\ UNCHANGED <<tableVars, threadVars, filt, emitted, woken>>

\* kqueue_free() of a kqueue nobody is inside of: knote_delete_all() goes first.
Destroy(k) ==
    /\ Changing(k)
    /\ woken[k] = 0
    /\ at' = [at EXCEPT ![k] = "destroy"]
    /\ UNCHANGED <<tableVars, threadVars, filt, efd, emitted, woken>>

DestroyKnote(k, s) ==
    /\ at[k] = "destroy"
    /\ list[k][s] # "none"
    /\ KnDelete(k, s)
    /\ UNCHANGED <<threadVars, kqVars>>

(***************************************************************************)
(* The dispatch thread.                                                    *)
(***************************************************************************)
\* The knotes sig_dispatch_handle() counts a signal for.
Counted(k, s) == k \in s_links[s] /\ list[k][s] # "none"

\* One turn of sig_platform_wait_dispatch(): read the signalfd and hand each
\* signal to sig_dispatch_handle(), all under sigtbl_mtx.
Dispatch ==
    LET got == queued \cap mask
        new == [k \in Kqs |-> {s \in got : k \in s_links[s] /\ list[k][s] = "enabled"}
                              \ sfs_pending[k]]
    IN /\ thread = "run"
       /\ got # {}
       /\ count' = [k \in Kqs |-> [s \in Sigs |->
                       IF s \in got /\ Counted(k, s) THEN count[k][s] + 1 ELSE count[k][s]]]
       /\ sfs_pending' = [k \in Kqs |-> sfs_pending[k] \cup new[k]]
       /\ efd' = [k \in Kqs |-> efd[k] \/ new[k] # {}]
       /\ queued' = queued \ got
       /\ early' = early \ got
       /\ UNCHANGED <<list, flags, s_links, sig_active_set, mask, threadVars, filt,
                      at, emitted, woken>>

\* The pipe was closed.
DispatchExit ==
    /\ thread = "run"
    /\ ~pipe
    /\ thread' = "dead"
    /\ UNCHANGED <<tableVars, kqVars, sig_init_mtx, sig_filter_count, pipe>>

(***************************************************************************)
(* kevent_wait() and evfilt_signal_copyout().                              *)
(***************************************************************************)
\* epoll_wait() of some thread reports the eventfd.
Wake(k) ==
    /\ filt[k] = "on"
    /\ at[k] # "destroy"
    /\ efd[k]
    /\ woken[k] < MaxWoken
    /\ woken' = [woken EXCEPT ![k] = @ + 1]
    /\ UNCHANGED <<tableVars, threadVars, filt, efd, at, emitted>>

\* The eventlist was full, or the loop left, before this event came up.
CopyoutSkip(k) ==
    /\ Changing(k)
    /\ woken[k] > 0
    /\ woken' = [woken EXCEPT ![k] = @ - 1]
    /\ UNCHANGED <<tableVars, threadVars, filt, efd, at, emitted>>

\* As many pending knotes as there is room for, under sigtbl_mtx.
Copyout(k, S, room) ==
    /\ Changing(k)
    /\ woken[k] > 0
    /\ S \subseteq sfs_pending[k]
    /\ Cardinality(S) = room \/ (S = sfs_pending[k] /\ Cardinality(S) < room)
    /\ woken' = [woken EXCEPT ![k] = @ - 1]
    /\ sfs_pending' = [sfs_pending EXCEPT ![k] = @ \ S]
    /\ count' = [count EXCEPT ![k] = [s \in Sigs |-> IF s \in S THEN 0 ELSE @[s]]]
    /\ emitted' = [emitted EXCEPT ![k] = S]
    /\ at' = [at EXCEPT ![k] = "flags"]
    /\ UNCHANGED <<list, flags, s_links, sig_active_set, mask, queued, early,
                   threadVars, filt, efd>>

\* knote_copyout_flag_actions() of one knote, with sigtbl_mtx taken anew.
CopyoutFlagActions(k, s) ==
    /\ at[k] = "flags"
    /\ s \in emitted[k]
    /\ IF "EV_ONESHOT" \in flags[k][s] THEN KnDelete(k, s)
       ELSE IF "EV_DISPATCH" \in flags[k][s] THEN KnDisable(k, s)
       ELSE UNCHANGED tableVars
    /\ emitted' = [emitted EXCEPT ![k] = @ \ {s}]
    /\ UNCHANGED <<threadVars, filt, efd, at, woken>>

\* kqops.eventfd_lower(), with sigtbl_mtx dropped.
CopyoutLower(k) ==
    /\ at[k] = "flags"
    /\ emitted[k] = {}
    /\ efd' = [efd EXCEPT ![k] = FALSE]
    /\ at' = [at EXCEPT ![k] = "idle"]
    /\ UNCHANGED <<tableVars, threadVars, filt, emitted, woken>>

\* Somebody sends the process a signal.
Kill(s) ==
    /\ s \notin queued
    /\ \A k \in Kqs : count[k][s] < MaxCount
    /\ queued' = queued \cup {s}
    /\ early' = IF s \in sig_active_set THEN early ELSE early \cup {s}
    /\ UNCHANGED <<list, flags, count, s_links, sfs_pending, sig_active_set, mask,
                   threadVars, kqVars>>

-----------------------------------------------------------------------------
\* What the program chooses to do.
Call(k) ==
    \/ FilterInit(k) \/ Destroy(k)
    \/ \E s \in Sigs, fl \in Adds : Create(k, s, fl) \/ Modify(k, s, fl)
    \/ \E s \in Sigs : CreateFailed(k, s) \/ Delete(k, s) \/ Disable(k, s) \/ Enable(k, s)

\* What a thread goes on to do with the kqueue's mutex held.
Finish(k) ==
    \/ FilterInitDone(k) \/ FilterDestroy(k) \/ DispatchJoined(k)
    \/ EnableRaise(k) \/ CopyoutLower(k)
    \/ \E s \in Sigs : CreateDisable(k, s) \/ DestroyKnote(k, s) \/ CopyoutFlagActions(k, s)

Deliver(k) == \E S \in SUBSET Sigs, room \in Rooms : Copyout(k, S, room)

Next ==
    \/ \E k \in Kqs : Call(k) \/ Finish(k) \/ FilterLeave(k)
                     \/ Wake(k) \/ CopyoutSkip(k) \/ Deliver(k)
    \/ \E s \in Sigs : Kill(s)
    \/ DispatchStarted \/ Dispatch \/ DispatchExit

Spec == Init /\ [][Next]_vars

\* The dispatch thread runs; a thread that holds a mutex goes on; mutexes that
\* are free again and again are had in the end; and some thread always waits on
\* each kqueue, returns when its eventfd is readable, and comes to its event.
Fairness ==
    /\ WF_vars(DispatchStarted) /\ WF_vars(Dispatch) /\ WF_vars(DispatchExit)
    /\ \A k \in Kqs :
         /\ WF_vars(Finish(k))
         /\ SF_vars(FilterLeave(k))
         /\ WF_vars(Wake(k))
         /\ SF_vars(Deliver(k))

FairSpec == Spec /\ Fairness

-----------------------------------------------------------------------------
(***************************************************************************)
(* Properties.                                                             *)
(***************************************************************************)

\* A filter that is in use has a dispatch thread that runs and has not been told
\* to stop, however creations of first and destructions of last kqueues overlap.
Served == \A k \in Kqs : filt[k] = "on" => thread = "run" /\ pipe

\* sigtbl links a kqueue to exactly the signals it has knotes for, so that the
\* dispatch thread never reaches a filter that was destroyed; and the library
\* watches a signal exactly as long as some kqueue wants it.
LinksExact ==
    /\ \A s \in Sigs : s_links[s] = {k \in Kqs : list[k][s] # "none"}
    /\ \A k \in Kqs, s \in Sigs : list[k][s] # "none" => filt[k] = "on"
    /\ \A s \in Sigs : s \in sig_active_set <=> s_links[s] # {}

\* What a knote has counted is not forgotten: an enabled knote is on sfs_pending
\* exactly when it has counted something, through every order of dispatches,
\* disables, enables and partial copyouts; a disabled one never is.
CountedIsPending ==
    \A k \in Kqs, s \in Sigs :
        s \in sfs_pending[k] <=> list[k][s] = "enabled" /\ count[k][s] > 0

\* A signal sent while nobody watched it is not reported to whoever adds the
\* first knote for it later: sig_platform_add() drains it.
NoEarlySignal == early \cap sig_active_set = {}

\* evfilt_signal_destroy() comes to an end: the join of the dispatch thread, made
\* with sig_init_mtx held, waits for nobody who waits for that mutex.
DestroyReturns == \A k \in Kqs : filt[k] = "leaving" ~> filt[k] = "off"

\* kevent() returns a signal that was recorded for an enabled knote, unless the
\* program takes the knote back first.
SignalDelivered ==
    \A k \in Kqs, s \in Sigs : s \in sfs_pending[k] ~> s \notin sfs_pending[k]
=============================================================================
