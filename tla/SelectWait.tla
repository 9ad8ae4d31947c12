----------------------------- MODULE SelectWait -----------------------------
(***************************************************************************)
(* The POSIX backend: one kqueue over pselect().  kq_fds is what a wait    *)
(* watches; a change made while a thread is parked writes a byte to the    *)
(* wake pipe, so that the thread looks at kq_fds again.  Timers are a tree *)
(* of deadlines that bound the wait, regular files and vnodes are polled,  *)
(* EVFILT_USER has an eventfd and a list kf_ready.                         *)
(*                                                                         *)
(* The mutex is dropped during posix_kevent_wait(), whose steps interleave *)
(* with everything; changes and copyouts hold it and are atomic.           *)
(***************************************************************************)
EXTENDS Integers, Sequences, FiniteSets, SequencesExt

CONSTANTS
    Threads,    \* callers of kevent()
    Adds,       \* sets of flags a knote is added with
    MaxRoom,    \* largest eventlist
    MaxCalls,   \* bound on calls of kevent() that change, or wait
    MaxEvents   \* bound on what happens at the sources

VARIABLES
    kind,       \* the filter of each knote
    kn,         \* knotes
    fds,        \* knotes whose descriptor is in kq_fds or kq_wfds
    ready,      \* knotes on the kf_ready of their filter
    always,     \* kq_always_ready
    interval,   \* whether kq_file_poll_interval_ns is set
    wake,       \* whether the wake pipe holds a byte
    efd,        \* whether the eventfd of EVFILT_USER does
    rfds,       \* kq_rfds and kq_wrfds: what the last pselect() reported
    src,        \* sources: data or room, end of file; a file changed
    pc, to, only, use, seen, snap, room,   \* threads inside kevent()
    changes, waits, events, \* what the program and the sources may still do
    hits,       \* deliveries since a knote was added, enabled or modified
    short,      \* a copyout left knotes on kf_ready for lack of room
    missed,     \* threads whose wake byte another one took, or they themselves
                \* after they had read the deadlines, of which one is new
    dangling    \* a walk of kf_ready went on from a freed knote

threads == <<pc, to, only, use, seen, snap, room>>
vars == <<kind, kn, fds, ready, always, interval, wake, efd, rfds, src, threads,
          changes, waits, events, hits, short, missed, dangling>>

\* Knotes, by the number of their descriptor, and the library's descriptors.
Slots == {1, 2}
WakeFd == 0
EventFd == 3
Flags == {"EV_CLEAR", "EV_DISPATCH", "EV_ONESHOT", "EV_DISABLE"}
Of(kinds) == {k \in Slots : kind[k] \in kinds}

NoKnote == [live |-> FALSE, flags |-> {}, bumped |-> FALSE,
            tree |-> FALSE, due |-> FALSE, once |-> FALSE, fires |-> 0, passed |-> 0]

TypeOK ==
    /\ kind \in [Slots -> {"read", "write", "file", "vnode", "timer", "user", "none"}]
    /\ kn \in [Slots -> [live : BOOLEAN, flags : SUBSET Flags, bumped : BOOLEAN,
                         tree : BOOLEAN, due : BOOLEAN, once : BOOLEAN, fires : 0..MaxEvents,
                         passed : 0..MaxEvents]]
    /\ fds \subseteq Slots /\ ToSet(ready) \subseteq Slots /\ always \in 0..2
    /\ {interval, wake, efd, short, dangling} \subseteq BOOLEAN
    /\ rfds \subseteq Slots \cup {WakeFd, EventFd}
    /\ src \in [Slots -> [ready : BOOLEAN, hup : BOOLEAN]]
    /\ pc \in [Threads -> {"out", "clamp", "drain", "snapshot", "parked", "copyout"}]
    /\ to \in [Threads -> {"null", "user", "poll"}]
    /\ only \in [Threads -> BOOLEAN]
    /\ use \in [Threads -> {"timeout", "zero", "timer"}]
    /\ missed \subseteq Threads
    /\ seen \in [Threads -> SUBSET Slots]
    /\ snap \in [Threads -> SUBSET Slots]
    /\ room \in [Threads -> 0..MaxRoom]
    /\ changes \in 0..MaxCalls /\ waits \in 0..MaxCalls /\ events \in 0..MaxEvents
    /\ hits \in [Slots -> Nat]

\* posix_kqueue_init(): nothing but the wake pipe is watched.
Init(f, c, w, e) ==
    /\ kind = f
    /\ kn = [k \in Slots |-> NoKnote]
    /\ fds = {} /\ ready = <<>> /\ always = 0 /\ rfds = {}
    /\ interval = FALSE /\ wake = FALSE /\ efd = FALSE
    /\ src = [k \in Slots |-> [ready |-> f[k] = "write", hup |-> FALSE]]
    /\ pc = [t \in Threads |-> "out"]
    /\ to = [t \in Threads |-> "null"]
    /\ only = [t \in Threads |-> FALSE]
    /\ use = [t \in Threads |-> "timeout"]
    /\ seen = [t \in Threads |-> {}]
    /\ snap = [t \in Threads |-> {}]
    /\ room = [t \in Threads |-> 0]
    /\ changes = c /\ waits = w /\ events = e
    /\ hits = [k \in Slots |-> 0]
    /\ short = FALSE /\ missed = {} /\ dangling = FALSE

State(n) ==
    [kn |-> kn, fds |-> fds, ready |-> ready, always |-> always, wake |-> wake,
     efd |-> efd, hits |-> hits, short |-> short, dangling |-> dangling, room |-> n]

Becomes(s) ==
    /\ kn' = s.kn /\ fds' = s.fds /\ ready' = s.ready /\ always' = s.always
    /\ wake' = s.wake /\ efd' = s.efd /\ hits' = s.hits
    /\ short' = s.short /\ dangling' = s.dangling

PosixWakeKqueue(s) == [s EXCEPT !.wake = TRUE]

(***************************************************************************)
(* EVFILT_READ and EVFILT_WRITE.                                           *)
(***************************************************************************)
\* KNFL_ALWAYS_READY_BUMPED: the knote counts in kq_always_ready.
Bump(s, k) ==
    IF s.kn[k].bumped THEN s
    ELSE [s EXCEPT !.ready = <<k>> \o Remove(@, k), !.always = @ + 1, !.kn[k].bumped = TRUE]

\* Faulty: nobody who is parked learns of the new descriptor.
ReadArmQuiet(s, k) ==
    IF kind[k] = "file" THEN PosixWakeKqueue(Bump(s, k))
    ELSE [s EXCEPT !.fds = @ \cup {k}]

ReadArm(s, k) ==
    PosixWakeKqueue(IF kind[k] = "file" THEN Bump(s, k) ELSE [s EXCEPT !.fds = @ \cup {k}])

\* Faulty: relies on kf_ready, which knote_delete() has left already.
ReadDisarmListed(s, k) ==
    IF kind[k] # "file" THEN [s EXCEPT !.fds = @ \ {k}]
    ELSE IF k \notin ToSet(s.ready) THEN s
    ELSE [s EXCEPT !.ready = Remove(@, k), !.always = @ - 1, !.kn[k].bumped = FALSE]

ReadDisarm(s, k) ==
    IF kind[k] # "file" THEN [s EXCEPT !.fds = @ \ {k}]
    ELSE IF ~s.kn[k].bumped THEN s
    ELSE [s EXCEPT !.ready = Remove(@, k), !.always = @ - 1, !.kn[k].bumped = FALSE]

WriteArm(s, k) == PosixWakeKqueue([s EXCEPT !.fds = @ \cup {k}])
WriteDisarm(s, k) == [s EXCEPT !.fds = @ \ {k}]

(***************************************************************************)
(* EVFILT_TIMER: a deadline in the tree, which may be due, and a count of  *)
(* the times it passed; "once" if it is not to be set again.  "passed" is  *)
(* history: deadlines since the timer was set.  Of a vnode, "due" says     *)
(* that the file is not as it was when last looked at.                     *)
(***************************************************************************)
TimerAlloc(s, k) ==
    [s EXCEPT !.kn[k] = [@ EXCEPT !.due = FALSE, !.fires = 0, !.passed = 0,
                                  !.once = "EV_ONESHOT" \in s.kn[k].flags]]
TimerLink(s, k) == [s EXCEPT !.kn[k].tree = TRUE]

TimerCreate(s, k) ==
    PosixWakeKqueue(TimerLink(TimerAlloc([s EXCEPT !.kn[k].flags = @ \cup {"EV_CLEAR"}], k), k))

TimerUnlink(s, k) == [s EXCEPT !.kn[k].tree = FALSE, !.kn[k].due = FALSE]

\* kn_modify() replaces the timer and takes all flags from the change.
TimerModify(s, k, f) == TimerCreate([TimerUnlink(s, k) EXCEPT !.kn[k].flags = f], k)

\* Faulty: expiries from before EV_DISABLE are still counted.
TimerEnableKeepsCount(s, k) ==
    PosixWakeKqueue(TimerLink([s EXCEPT !.kn[k].due = FALSE, !.kn[k].passed = 0], k))

TimerEnable(s, k) ==
    PosixWakeKqueue(TimerLink([s EXCEPT !.kn[k].due = FALSE, !.kn[k].fires = 0,
                                        !.kn[k].passed = 0], k))

\* posix_timer_check(): deadlines that passed are counted; a timer that does
\* not repeat leaves the tree.
TimerCheck(s) ==
    [s EXCEPT !.kn = [k \in Slots |->
        IF k \notin Of({"timer"}) \/ ~s.kn[k].due THEN s.kn[k]
        ELSE [s.kn[k] EXCEPT !.due = FALSE, !.fires = @ + 1, !.tree = ~s.kn[k].once]]]

(***************************************************************************)
(* EVFILT_VNODE.  kn_enable() puts the knote on kf_ready, kn_create() does *)
(* not.                                                                    *)
(***************************************************************************)
VnodeCreate(s, k) ==
    PosixWakeKqueue([s EXCEPT !.always = @ + 1, !.kn[k].bumped = TRUE])

VnodeDelete(s, k) ==
    IF s.kn[k].bumped THEN [s EXCEPT !.always = @ - 1, !.kn[k].bumped = FALSE] ELSE s

\* What changed while the knote was disabled is forgotten.
VnodeEnable(s, k) == PosixWakeKqueue([Bump(s, k) EXCEPT !.kn[k].due = FALSE])

VnodeDisable(s, k) ==
    IF s.kn[k].bumped
      THEN [s EXCEPT !.ready = Remove(@, k), !.always = @ - 1, !.kn[k].bumped = FALSE]
      ELSE s

(***************************************************************************)
(* Dispatch to the filter, and the common code of knotes.                  *)
(***************************************************************************)
KnCreate(s, k) ==
    CASE kind[k] \in {"read", "file"} -> ReadArm(s, k)
      [] kind[k] = "write" -> WriteArm(s, k)
      [] kind[k] = "timer" -> TimerCreate(s, k)
      [] kind[k] = "vnode" -> VnodeCreate(s, k)
      [] kind[k] = "user" -> s

KnEnable(s, k) ==
    CASE kind[k] \in {"read", "file"} -> ReadArm(s, k)
      [] kind[k] = "write" -> WriteArm(s, k)
      [] kind[k] = "timer" -> TimerEnable(s, k)
      [] kind[k] = "vnode" -> VnodeEnable(s, k)
      [] kind[k] = "user" -> s

KnDisable(s, k) ==
    CASE kind[k] \in {"read", "file"} -> ReadDisarm(s, k)
      [] kind[k] = "write" -> WriteDisarm(s, k)
      [] kind[k] = "timer" -> TimerUnlink(s, k)
      [] kind[k] = "vnode" -> VnodeDisable(s, k)
      [] kind[k] = "user" -> s

KnDelete(s, k) ==
    CASE kind[k] \in {"read", "file"} -> ReadDisarm(s, k)
      [] kind[k] = "write" -> WriteDisarm(s, k)
      [] kind[k] = "timer" -> TimerUnlink(s, k)
      [] kind[k] = "vnode" -> VnodeDelete(s, k)
      [] kind[k] = "user" -> s

Disabled(s, k) == "EV_DISABLE" \in s.kn[k].flags

KnoteDelete(s, k) ==
    [KnDelete([s EXCEPT !.ready = Remove(@, k)], k) EXCEPT !.kn[k] = NoKnote]

KnoteDisable(s, k) ==
    IF Disabled(s, k) THEN s
    ELSE [KnDisable(s, k) EXCEPT !.ready = Remove(@, k), !.kn[k].flags = @ \cup {"EV_DISABLE"}]

KnoteCopyoutFlagActions(s, k) ==
    LET d == IF "EV_DISPATCH" \in s.kn[k].flags THEN KnoteDisable(s, k) ELSE s
    IN  IF "EV_ONESHOT" \in s.kn[k].flags THEN KnoteDelete(d, k) ELSE d

Hit(s, k) == KnoteCopyoutFlagActions([s EXCEPT !.hits[k] = @ + 1, !.room = @ - 1], k)

(***************************************************************************)
(* posix_kevent_copyout(): filter by filter, as long as there is room.     *)
(***************************************************************************)
\* Faulty: EV_CLEAR leaves the descriptor watched.
CopyoutReadArmed(s, k) ==
    IF kind[k] = "file" /\ ~src[k].ready THEN s ELSE Hit(s, k)

\* evfilt_read_copyout(): nothing for a file that has been read to its end;
\* EV_CLEAR is approximated by no longer watching the descriptor.
CopyoutRead(s, k) ==
    IF kind[k] = "file" /\ ~src[k].ready THEN s
    ELSE Hit(IF "EV_CLEAR" \in s.kn[k].flags THEN ReadDisarm(s, k) ELSE s, k)

CopyoutWrite(s, k) ==
    Hit(IF "EV_CLEAR" \in s.kn[k].flags THEN WriteDisarm(s, k) ELSE s, k)

\* Faulty: a descriptor that another waiter has disarmed is reported again.
CopyoutFdStale(s, k) ==
    IF s.room = 0 \/ ~s.kn[k].live \/ Disabled(s, k) THEN s
    ELSE IF kind[k] # "file" /\ k \notin rfds THEN s
    ELSE IF kind[k] = "write" THEN CopyoutWrite(s, k) ELSE CopyoutRead(s, k)

\* posix_dispatch_fd_cb(): a descriptor that was reported and is still watched.
CopyoutFd(s, k) ==
    IF s.room = 0 \/ ~s.kn[k].live \/ Disabled(s, k) THEN s
    ELSE IF kind[k] # "file" /\ k \notin rfds \cap s.fds THEN s
    ELSE IF kind[k] = "write" THEN CopyoutWrite(s, k) ELSE CopyoutRead(s, k)

CopyoutTimerOne(s, k) ==
    IF s.room = 0 \/ Disabled(s, k) \/ s.kn[k].fires = 0 THEN s
    ELSE Hit([s EXCEPT !.kn[k].fires = 0], k)

\* vnode_diff_to_note(): the file differs from the stored snapshot.
VnodeDiffers(s, k) == s.kn[k].due

CopyoutVnodeOne(s, k) ==
    IF s.room = 0 \/ ~s.kn[k].live \/ Disabled(s, k) \/ ~VnodeDiffers(s, k) THEN s
    ELSE Hit([s EXCEPT !.kn[k].due = FALSE], k)

\* The order in which knote_foreach() visits the knotes of a filter.
KnoteForeach(kinds) == SelectSeq(<<1, 2>>, LAMBDA k : kind[k] \in kinds)

\* Faulty: a knote is taken off kf_ready only after its copyout.
DispatchReadyLate(s, type) ==
    LET copyout(r, k) == IF type = "user" THEN Hit(r, k)
                         ELSE FoldLeft(CopyoutVnodeOne, r, KnoteForeach({"vnode"}))
        one(r, k) == IF r.room = 0 THEN [r EXCEPT !.short = TRUE]
                     ELSE LET c == copyout(r, k)
                          IN  IF k \notin ToSet(c.ready) THEN [c EXCEPT !.dangling = TRUE]
                              ELSE [c EXCEPT !.ready = Remove(@, k)]
    IN  FoldLeft(one, s, SelectSeq(s.ready, LAMBDA k : kind[k] = type))

\* The walk of kf_ready.  It has the next knote in hand while the copyout of a
\* knote runs, which for EVFILT_VNODE handles every knote of the filter.
DispatchReady(s, type) ==
    LET copyout(r, k) == IF type = "user" THEN Hit(r, k)
                         ELSE FoldLeft(CopyoutVnodeOne, r, KnoteForeach({"vnode"}))
        one(r, k) == IF r.room = 0 THEN [r EXCEPT !.short = TRUE]
                     ELSE IF k \notin ToSet(r.ready) THEN [r EXCEPT !.dangling = TRUE]
                     ELSE copyout([r EXCEPT !.ready = Remove(@, k)], k)
    IN  FoldLeft(one, s, SelectSeq(s.ready, LAMBDA k : kind[k] = type))

CopyoutTimer(s) ==
    IF s.room = 0 THEN s ELSE FoldLeft(CopyoutTimerOne, TimerCheck(s), KnoteForeach({"timer"}))

CopyoutVnode(s) ==
    IF s.room = 0 THEN s
    ELSE IF ToSet(s.ready) \cap Of({"vnode"}) = {} THEN FoldLeft(CopyoutVnodeOne, s, KnoteForeach({"vnode"}))
    ELSE DispatchReady(s, "vnode")

\* Faulty: the eventfd is lowered although the last wait did not report it.
CopyoutUserLowers(s) ==
    IF s.room = 0 THEN s
    ELSE IF EventFd \in rfds THEN DispatchReady([s EXCEPT !.efd = FALSE], "user")
    ELSE [s EXCEPT !.efd = FALSE]

\* The eventfd is lowered, then kf_ready is walked.
CopyoutUser(s) ==
    IF s.room = 0 \/ EventFd \notin rfds THEN s
    ELSE DispatchReady([s EXCEPT !.efd = FALSE], "user")

PosixKeventCopyout(s) ==
    LET w == IF WakeFd \in rfds THEN [s EXCEPT !.wake = FALSE] ELSE s
        r == FoldLeft(CopyoutFd, w, KnoteForeach({"read", "file"}))
    IN  CopyoutUser(CopyoutTimer(CopyoutVnode(FoldLeft(CopyoutFd, r, KnoteForeach({"write"})))))

(***************************************************************************)
(* Changes: a call of kevent() with the mutex held.                        *)
(***************************************************************************)
Call == changes > 0 /\ changes' = changes - 1 /\ UNCHANGED waits

Applied(s) ==
    /\ Becomes(s)
    /\ UNCHANGED <<kind, interval, rfds, src, threads, events, missed>>

Add(k) ==
    /\ Call /\ kind[k] # "none" /\ ~kn[k].live
    /\ \E f \in Adds, disable \in BOOLEAN :
         LET c == KnCreate([State(0) EXCEPT !.kn[k] = [NoKnote EXCEPT !.live = TRUE, !.flags = f],
                                            !.hits[k] = 0], k)
         IN  Applied(IF disable
                       THEN [KnDisable(c, k) EXCEPT !.kn[k].flags = @ \cup {"EV_DISABLE"}]
                       ELSE c)

\* EV_ADD of a knote that exists: only EVFILT_TIMER does anything, and drops
\* EV_DISABLE; EV_DISPATCH is taken from the change.
Modify(k) ==
    /\ Call /\ kn[k].live
    /\ \E f \in Adds :
         LET d == {"EV_DISPATCH"}
             b == [State(0) EXCEPT !.kn[k].flags = (@ \ d) \cup (f \cap d),
                                   !.hits[k] = IF kind[k] = "timer" THEN 0 ELSE @]
         IN  Applied(IF kind[k] = "timer" THEN TimerModify(b, k, f) ELSE b)

Trigger(k) ==
    /\ Call /\ kn[k].live /\ kind[k] = "user"
    /\ Applied(IF Disabled(State(0), k) THEN State(0)
               ELSE [State(0) EXCEPT !.ready = IF k \in ToSet(@) THEN @ ELSE <<k>> \o @,
                                     !.efd = TRUE])

Delete(k) ==
    /\ Call /\ kn[k].live
    /\ Applied(KnoteDelete(State(0), k))

Disable(k) ==
    /\ Call /\ kn[k].live /\ ~Disabled(State(0), k)
    /\ Applied(KnoteDisable(State(0), k))

Enable(k) ==
    /\ Call /\ kn[k].live /\ Disabled(State(0), k)
    /\ Applied([KnEnable(State(0), k) EXCEPT !.kn[k].flags = @ \ {"EV_DISABLE"},
                                             !.hits[k] = 0])

SetFilePollInterval ==
    /\ Call /\ Of({"file", "vnode"}) # {} /\ interval' = ~interval /\ wake' = TRUE
    /\ UNCHANGED <<kind, kn, fds, ready, always, efd, rfds, src, threads, events, hits,
                   short, missed, dangling>>

(***************************************************************************)
(* The sources.                                                            *)
(***************************************************************************)
Event == events > 0 /\ events' = events - 1

Arrive(k) ==
    /\ Event /\ kind[k] \in {"read", "write", "file"}
    /\ \/ src' = [src EXCEPT ![k].ready = ~@]
       \/ kind[k] = "read" /\ ~src[k].hup /\ src' = [src EXCEPT ![k].hup = TRUE]
    /\ UNCHANGED <<kind, kn, fds, ready, always, interval, wake, efd, rfds, threads,
                   changes, waits, hits, short, missed, dangling>>

\* A deadline passes, or a watched file changes.
Expire(k) ==
    /\ Event /\ ~kn[k].due /\ (kn[k].tree \/ (kind[k] = "vnode" /\ kn[k].live))
    /\ kn' = [kn EXCEPT ![k].due = TRUE, ![k].passed = @ + 1]
    /\ UNCHANGED <<kind, fds, ready, always, interval, wake, efd, rfds, src, threads,
                   changes, waits, hits, short, missed, dangling>>

(***************************************************************************)
(* posix_kevent_wait(), without the mutex.                                 *)
(***************************************************************************)
Timers == {k \in Slots : kn[k].tree}
Others(t) == {u \in Threads \ {t} : pc[u] \in {"drain", "snapshot", "parked"}}

\* The poll interval bounds the wait if any knote has to be polled.
Wait(t) ==
    /\ waits > 0 /\ waits' = waits - 1 /\ pc[t] = "out"
    /\ pc' = [pc EXCEPT ![t] = "clamp"]
    /\ \E o \in {"null", "user"} : to' = [to EXCEPT ![t] = IF always > 0 THEN "poll" ELSE o]
    /\ only' = [only EXCEPT ![t] = always > 0 /\ always = Cardinality({k \in Slots : kn[k].live})]
    /\ \E n \in 1..MaxRoom : room' = [room EXCEPT ![t] = n]
    /\ UNCHANGED <<kind, kn, fds, ready, always, interval, wake, efd, rfds, src, use, seen,
                   snap, changes, events, hits, short, missed, dangling>>

\* posix_timer_min_deadline_ns(), with the mutex.
Clamp(t) ==
    /\ pc[t] = "clamp"
    /\ pc' = [pc EXCEPT ![t] = "drain"]
    /\ seen' = [seen EXCEPT ![t] = Timers]
    /\ IF only[t] /\ ~interval THEN use' = [use EXCEPT ![t] = "zero"]
       ELSE \E u \in {"timeout", "timer"} :
              /\ u = "timer" => Timers # {}
              /\ u = "timeout" => Timers = {} \/ to[t] # "null"
              /\ use' = [use EXCEPT ![t] = u]
    /\ UNCHANGED <<kind, kn, fds, ready, always, interval, wake, efd, rfds, src, to, only,
                   snap, room, changes, waits, events, hits, short, missed, dangling>>

DrainWake(t) ==
    /\ pc[t] = "drain"
    /\ pc' = [pc EXCEPT ![t] = "snapshot"]
    /\ wake' = FALSE
    /\ missed' = IF ~wake THEN missed
                 ELSE missed \cup Others(t) \cup (IF Timers \subseteq seen[t] THEN {} ELSE {t})
    /\ UNCHANGED <<kind, kn, fds, ready, always, interval, efd, rfds, src, to, only, use,
                   seen, snap, room, changes, waits, events, hits, short, dangling>>

Snapshot(t) ==
    /\ pc[t] = "snapshot"
    /\ pc' = [pc EXCEPT ![t] = "parked"]
    /\ snap' = [snap EXCEPT ![t] = fds]
    /\ UNCHANGED <<kind, kn, fds, ready, always, interval, wake, efd, rfds, src, to, only,
                   use, seen, room, changes, waits, events, hits, short, missed, dangling>>

Readable(t) ==
    {k \in snap[t] : src[k].ready \/ src[k].hup}
    \cup (IF wake THEN {WakeFd} ELSE {}) \cup (IF efd THEN {EventFd} ELSE {})

Unparked(t, next) ==
    /\ pc' = [pc EXCEPT ![t] = next]
    /\ missed' = missed \ {t}
    /\ seen' = [seen EXCEPT ![t] = {}]
    /\ snap' = [snap EXCEPT ![t] = {}]
    /\ use' = [use EXCEPT ![t] = "timeout"]
    /\ UNCHANGED <<kind, kn, fds, ready, always, interval, wake, efd, src, to, only, room,
                   changes, waits, events, hits, short, dangling>>

\* pselect() reports something; for the wake pipe alone a wait without timeout
\* goes on.
Pselect(t) ==
    /\ pc[t] = "parked" /\ Readable(t) # {}
    /\ rfds' = Readable(t)
    /\ Unparked(t, IF Readable(t) = {WakeFd} /\ to[t] = "null" THEN "clamp" ELSE "copyout")

\* A signal handler ran.
Interrupted(t) ==
    /\ pc[t] = "parked" /\ Readable(t) = {}
    /\ Unparked(t, "clamp") /\ UNCHANGED rfds

\* The timeout, the poll interval or the deadline of a timer passed.
Timeout(t) ==
    /\ pc[t] = "parked" /\ Readable(t) = {}
    /\ CASE use[t] = "timer" -> \E k \in seen[t] : ~kn[k].tree \/ kn[k].due
         [] use[t] = "timeout" -> to[t] # "null"
         [] OTHER -> TRUE
    /\ rfds' = {}
    /\ Unparked(t, IF always > 0 \/ use[t] = "timer" THEN "copyout" ELSE "out")

Copyout(t) ==
    /\ pc[t] = "copyout"
    /\ Becomes(PosixKeventCopyout(State(room[t])))
    /\ pc' = [pc EXCEPT ![t] = "out"]
    /\ room' = [room EXCEPT ![t] = 0]
    /\ missed' = IF wake /\ WakeFd \in rfds THEN missed \cup Others(t) ELSE missed
    /\ UNCHANGED <<kind, interval, rfds, src, to, only, use, seen, snap, changes, waits, events>>

Next ==
    \/ \E k \in Slots : \/ Add(k) \/ Modify(k) \/ Trigger(k) \/ Delete(k)
                        \/ Disable(k) \/ Enable(k) \/ Arrive(k) \/ Expire(k)
    \/ SetFilePollInterval
    \/ \E t \in Threads : \/ Wait(t) \/ Clamp(t) \/ DrainWake(t) \/ Snapshot(t)
                          \/ Pselect(t) \/ Interrupted(t) \/ Timeout(t) \/ Copyout(t)

-----------------------------------------------------------------------------
(***************************************************************************)
(* Properties.                                                             *)
(***************************************************************************)
Enabled(k) == kn[k].live /\ "EV_DISABLE" \notin kn[k].flags

\* kq_always_ready is the number of knotes that have to be polled: those of
\* files and vnodes that are enabled, however they were disabled, delivered
\* (EV_CLEAR disarms a file) or deleted.  If it were too small a wait would not
\* poll, if too large every wait would.
AlwaysReadyExact ==
    /\ always = Cardinality({k \in Slots : kn[k].bumped})
    /\ \A k \in Of({"file", "vnode"}) :
         kn[k].bumped = (Enabled(k) /\ ~(kind[k] = "file" /\ "EV_CLEAR" \in kn[k].flags
                                        /\ hits[k] > 0))

\* kq_fds holds the descriptor of exactly those read and write knotes that are
\* enabled and not disarmed by an EV_CLEAR delivery.
MasterSetExact ==
    \A k \in Slots : k \in fds <=>
        /\ kind[k] \in {"read", "write"} /\ Enabled(k)
        /\ "EV_CLEAR" \in kn[k].flags => hits[k] = 0

\* A thread that is parked watches all of kq_fds and knows of all deadlines, or
\* the wake pipe is about to end its wait.  Except a thread whose wake byte was
\* taken by another one, or by itself between reading deadlines and parking.
ParkedIsCurrent ==
    \A t \in Threads : pc[t] = "parked" /\ t \notin missed =>
        wake \/ (fds \subseteq snap[t] /\ (Timers \subseteq seen[t] \/ use[t] = "zero"))

\* Several threads share kq_rfds and may all have seen a descriptor ready; an
\* EV_CLEAR knote of a descriptor is delivered once nonetheless, and an
\* EV_ONESHOT knote is gone with its delivery.
OncePerArming ==
    \A k \in Slots : kn[k].live /\ hits[k] > 0 =>
        /\ "EV_ONESHOT" \notin kn[k].flags
        /\ kind[k] \in {"read", "write"} /\ "EV_CLEAR" \in kn[k].flags => hits[k] = 1

DeliversEnabled == \A k \in Slots : hits'[k] > hits[k] => Enabled(k)

\* Nothing is delivered for a knote that is disabled or deleted, although a
\* wait that began before saw it ready.
DisabledSilent == [][DeliversEnabled]_vars

\* A timer never reports more expirations than deadlines have passed since it
\* was added, modified or enabled, although a copyout that ran out of room may
\* have counted some before EV_DISABLE; and a disabled one bounds no wait.
ExpirationsCounted ==
    \A k \in Of({"timer"}) :
        /\ Enabled(k) => kn[k].fires <= kn[k].passed
        /\ "EV_DISABLE" \in kn[k].flags => ~kn[k].tree

\* A triggered EVFILT_USER knote waits on kf_ready only while the eventfd is
\* readable.  Except after a copyout that lowered it and ran out of room.
TriggeredIsReadable ==
    ToSet(ready) \cap Of({"user"}) # {} /\ ~short => efd

\* The walk of kf_ready never goes on from a knote that its own copyout removed;
\* except for EVFILT_VNODE, where one copyout handles all knotes.
WalkSafe == dangling => Cardinality(Of({"vnode"})) = 2
=============================================================================
