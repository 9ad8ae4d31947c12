------------------------------- MODULE KnoteFd -------------------------------
(***************************************************************************)
(* The Linux filters that give a knote a descriptor of its own, in one     *)
(* kqueue: EVFILT_USER (an eventfd), EVFILT_TIMER (a timerfd), EVFILT_PROC *)
(* (a pidfd) and EVFILT_VNODE (an inotify descriptor).                     *)
(*                                                                         *)
(* Changes and copyouts hold the kqueue's mutex, so each is one step;      *)
(* epoll_wait() does not, so that two threads may hold an event of one     *)
(* knote.  An event carries the knote's udata; ud_stale is kept with the   *)
(* event, and when the udata is freed is the subject of DeferredFree.      *)
(* The descriptors and epoll are external.  epoll_ctl(ADD) and             *)
(* timerfd_settime() may fail.                                             *)
(***************************************************************************)
EXTENDS Integers, Sequences, FiniteSets, SequencesExt

CONSTANTS
    Threads,        \* threads that wait in kevent()
    Adds,           \* the flag sets passed along with EV_ADD
    MaxRoom,        \* largest eventlist
    MaxFaults       \* bound on the system calls that fail

Slots == {1, 2}
Kinds == {"user", "timer", "proc", "vnode"}

VARIABLES
    kind,       \* the filter, one of Kinds
    kn,         \* the knotes of the two idents
    reg,        \* the registrations of their descriptors in the epoll
    obj,        \* what their descriptors hold
    src,        \* the processes, and the files
    pc,         \* "out" of kevent(), "wait"ing, "got" events
    evbuf,      \* the events epoll_wait() returned to a thread
    max, room,  \* nevents of its call, and what copyin has left of it
    open,       \* number of descriptors the filter has open
    changes, waits, events, faults,     \* what may still happen
    trig,       \* events of the source since the knote was armed
    told,       \* how many of them have been delivered
    owed,       \* EVFILT_VNODE: requested notes that wait for delivery
    late,       \* the last step delivered an event of a disabled knote
    short,      \* some copyout had no room for what was fetched
    failed      \* a copyout failed: an assertion, or the rest is dropped

vars == <<kind, kn, reg, obj, src, pc, evbuf, max, room, open, changes, waits,
          events, faults, trig, told, owed, late, short, failed>>
threads == <<pc, max, room>>

InUse == IF kind \in {"user", "proc"} THEN Slots ELSE {1}

NoKnote == [live |-> FALSE, flags |-> {}, note |-> {}, fd |-> "none", ud |-> FALSE,
            size |-> 0, stray |-> FALSE]
NoReg == [on |-> FALSE, ud |-> FALSE, once |-> FALSE, armed |-> FALSE, edge |-> FALSE]
NoObj == [count |-> 0, running |-> FALSE, mask |-> {}, watch |-> FALSE, queue |-> {}]

\* What a change may ask for: the clock of a timer, the exit of a process, and
\* what should be reported of a file.
Notes ==
    CASE kind = "user" -> {{}}
      [] kind = "timer" -> {{}, {"NOTE_ABSOLUTE"}}
      [] kind = "proc" -> {{}, {"NOTE_EXIT"}}
      [] kind = "vnode" -> {{"NOTE_WRITE", "NOTE_DELETE"}, {"NOTE_TRUNCATE"}}

TypeOK ==
    /\ kind \in Kinds
    /\ kn \in [Slots -> [live : BOOLEAN,
                         flags : SUBSET {"EV_CLEAR", "EV_DISPATCH", "EV_ONESHOT",
                                         "EV_DISABLE"},
                         note : {{}} \cup Notes, fd : {"none", "open", "closed"},
                         ud : BOOLEAN, size : 0..2, stray : BOOLEAN]]
    /\ reg \in [Slots -> [on : BOOLEAN, ud : BOOLEAN, once : BOOLEAN,
                          armed : BOOLEAN, edge : BOOLEAN]]
    /\ \A k \in Slots : reg[k].on => kn[k].fd = "open"
    /\ src \in [Slots -> [proc : {"running", "zombie", "reaped"}, size : 0..2,
                          linked : BOOLEAN]]
    /\ \A t \in Threads : Len(evbuf[t]) <= max[t] /\ room[t] <= max[t]
    /\ open \in Nat /\ faults \in 0..MaxFaults

Init(f, c, w, e) ==
    /\ kind = f
    /\ kn = [k \in Slots |-> NoKnote]
    /\ reg = [k \in Slots |-> NoReg]
    /\ obj = [k \in Slots |-> NoObj]
    /\ src = [k \in Slots |-> [proc |-> "running", size |-> 1, linked |-> TRUE]]
    /\ pc = [t \in Threads |-> "out"]
    /\ evbuf = [t \in Threads |-> <<>>]
    /\ max = [t \in Threads |-> 0]
    /\ room = [t \in Threads |-> 0]
    /\ open = 0
    /\ changes = c /\ waits = w /\ events = e /\ faults = MaxFaults
    /\ trig = [k \in Slots |-> 0]
    /\ told = [k \in Slots |-> 0]
    /\ owed = [k \in Slots |-> {}]
    /\ late = FALSE /\ short = FALSE /\ failed = FALSE

(***************************************************************************)
(* A step threads the shared state through the calls it makes.  rv is what *)
(* the last of them returned, x the system call that fails in this step.   *)
(***************************************************************************)
State(n, x) ==
    [kn |-> kn, reg |-> reg, obj |-> obj, evbuf |-> evbuf, open |-> open,
     trig |-> trig, told |-> told, owed |-> owed, room |-> n, x |-> x, rv |-> 0,
     late |-> FALSE, short |-> short, stop |-> FALSE, failed |-> failed]

Becomes(s) ==
    /\ kn' = s.kn /\ reg' = s.reg /\ obj' = s.obj /\ open' = s.open
    /\ trig' = s.trig /\ told' = s.told /\ owed' = s.owed
    /\ late' = s.late /\ short' = s.short /\ failed' = s.failed

Fail(s) == [s EXCEPT !.rv = -1]
Ok(s) == [s EXCEPT !.rv = 0]
Disabled(s, k) == "EV_DISABLE" \in s.kn[k].flags

\* epoll_ctl(ADD) of the knote's descriptor, with the udata the knote has.
EpollAdd(s, k, once) ==
    IF s.kn[k].fd # "open" \/ s.reg[k].on \/ s.x = "add" THEN Fail(s)
    ELSE Ok([s EXCEPT !.reg[k] = [on |-> TRUE, ud |-> s.kn[k].ud, once |-> once,
                                  armed |-> TRUE, edge |-> FALSE]])

EpollDel(s, k) ==
    IF s.reg[k].on THEN Ok([s EXCEPT !.reg[k] = NoReg]) ELSE Fail(s)

\* A new descriptor; one that the knote still names is lost, and its registration
\* carries no udata, so that its events are skipped.
Open(s, k) ==
    [s EXCEPT !.kn[k].fd = "open", !.open = @ + 1, !.reg[k] = NoReg,
              !.obj[k] = NoObj, !.trig[k] = 0, !.told[k] = 0]

\* Closing the only descriptor of a file also ends its registration.
Close(s, k, fd) ==
    IF s.kn[k].fd = "open"
      THEN [s EXCEPT !.kn[k].fd = fd, !.open = @ - 1, !.reg[k] = NoReg,
                     !.obj[k] = NoObj, !.owed[k] = {}]
      ELSE [s EXCEPT !.kn[k].fd = fd, !.rv = -1]

\* KN_UDATA_DEFER_FREE(): whoever fetched an event of the knote will skip it.
KnUdataDeferFree(s, k) ==
    [s EXCEPT !.kn[k].ud = FALSE,
              !.evbuf = [t \in Threads |-> [i \in DOMAIN s.evbuf[t] |->
                  IF s.evbuf[t][i].k = k THEN [k |-> k, stale |-> TRUE]
                  ELSE s.evbuf[t][i]]]]

(***************************************************************************)
(* EVFILT_USER.                                                            *)
(***************************************************************************)
UserEnable(s, k) == EpollAdd(s, k, FALSE)
UserDisable(s, k) == EpollDel(s, k)

\* If the eventfd cannot be registered it is not closed.
UserCreate(s, k) ==
    LET o == [Open(s, k) EXCEPT !.kn[k].ud = TRUE]
        e == UserEnable(o, k)
    IN  IF Disabled(s, k) THEN o
        ELSE IF e.rv < 0 THEN [e EXCEPT !.kn[k].ud = FALSE] ELSE e

\* eventfd_raise(): a counter that is set already stays set.
EventfdRaise(s, k) == Ok([s EXCEPT !.obj[k].count = 1, !.trig[k] = @ + 1])

\* eventfd_lower() returns 0 if another waiter has taken the trigger.
EventfdLower(s, k) ==
    IF s.obj[k].count = 0 THEN Ok(s) ELSE [s EXCEPT !.obj[k].count = 0, !.rv = 1]

UserModify(s, k, raise) ==
    IF raise /\ ~Disabled(s, k) THEN EventfdRaise(s, k) ELSE Ok(s)

UserDelete(s, k) ==
    LET d == IF Disabled(s, k) THEN s ELSE UserDisable(s, k)
    IN  Close(Ok(KnUdataDeferFree(d, k)), k, "none")

(***************************************************************************)
(* EVFILT_TIMER.                                                           *)
(***************************************************************************)
\* Faulty: every timer is registered with EPOLLONESHOT.
TimerOnceAlways(flags) == TRUE

TimerOnce(flags) == flags \cap {"EV_ONESHOT", "EV_DISPATCH"} # {}

\* timerfd_settime(): what had expired before is forgotten.
Settime(s, k) ==
    IF s.kn[k].fd # "open" \/ s.x = "settime" THEN Fail(s)
    ELSE Ok([s EXCEPT !.obj[k].running = TRUE, !.obj[k].count = 0,
                      !.trig[k] = 0, !.told[k] = 0])

TimerCreate(s, k) ==
    LET t == Settime([Open(s, k) EXCEPT !.kn[k].flags = @ \cup {"EV_CLEAR"}], k)
        e == EpollAdd([t EXCEPT !.kn[k].ud = TRUE], k, TimerOnce(t.kn[k].flags))
    IN  IF t.rv < 0 THEN Fail([s EXCEPT !.kn[k].flags = @ \cup {"EV_CLEAR"}])
        ELSE IF e.rv < 0 THEN Fail([s EXCEPT !.kn[k].flags = @ \cup {"EV_CLEAR"},
                                             !.kn[k].ud = FALSE])
        ELSE e

\* Faulty: a new clock gets a new descriptor and the old one stays open.
TimerModifyLeaks(s, k, flags, note) ==
    LET toggled == note # s.kn[k].note
        a == EpollAdd(Open(EpollDel(s, k), k), k, TimerOnce(flags))
        t == Settime(IF toggled THEN a ELSE s, k)
    IN  IF toggled /\ a.rv < 0
          THEN Fail(Close(a, k, IF s.kn[k].fd = "none" THEN "none" ELSE "closed"))
        ELSE IF t.rv < 0 THEN t
        ELSE [t EXCEPT !.kn[k].flags = flags \cup {"EV_CLEAR"}, !.kn[k].note = note]

\* Another clock takes another timerfd; the old one is closed first, and if the
\* new one cannot be registered the knote keeps the number that was closed.
\* The flags are replaced, so that EV_DISABLE is dropped, but the registration
\* of a timerfd that is kept is not changed.
TimerModify(s, k, flags, note) ==
    LET toggled == note # s.kn[k].note
        a == EpollAdd(Open(Close(EpollDel(s, k), k, "none"), k), k, TimerOnce(flags))
        t == Settime(IF toggled THEN a ELSE s, k)
    IN  IF toggled /\ a.rv < 0
          THEN Fail(Close(a, k, IF s.kn[k].fd = "none" THEN "none" ELSE "closed"))
        ELSE IF t.rv < 0 THEN t
        ELSE [t EXCEPT !.kn[k].flags = flags \cup {"EV_CLEAR"}, !.kn[k].note = note]

TimerDelete(s, k) ==
    LET d == EpollDel(s, k)
        c == Close(KnUdataDeferFree(d, k), k, "none")
    IN  IF s.kn[k].fd = "none" THEN Ok(s)
        ELSE IF d.rv < 0 THEN Fail(c) ELSE c

TimerEnable(s, k) == TimerCreate(s, k)
TimerDisable(s, k) == TimerDelete(s, k)

(***************************************************************************)
(* EVFILT_PROC.                                                            *)
(***************************************************************************)
ProcEnable(s, k) == EpollAdd(s, k, FALSE)
ProcDisable(s, k) == IF s.kn[k].fd = "none" THEN Ok(s) ELSE EpollDel(s, k)

\* linux_proc_arm(): there is no pidfd for a process that has been waited for.
ProcArm(s, k) ==
    LET e == ProcEnable([Open(s, k) EXCEPT !.kn[k].ud = TRUE], k)
    IN  IF src[k].proc = "reaped" THEN Fail(s)
        ELSE IF e.rv < 0 THEN Fail([Close(e, k, "none") EXCEPT !.kn[k].ud = FALSE])
        ELSE e

\* Faulty: the udata is kept while the pidfd is closed.
ProcDisarmKeepsUdata(s, k) ==
    IF s.kn[k].fd = "none" THEN s
    ELSE Ok(Close(IF Disabled(s, k) THEN s ELSE ProcDisable(s, k), k, "none"))

ProcDisarm(s, k) ==
    LET d == IF Disabled(s, k) THEN s ELSE ProcDisable(s, k)
    IN  IF s.kn[k].fd = "none" THEN s
        ELSE Ok(Close(KnUdataDeferFree(d, k), k, "none"))

Forced == {"EV_ONESHOT", "EV_CLEAR"}

ProcCreate(s, k) ==
    LET a == ProcArm(s, k)
    IN  IF "NOTE_EXIT" \notin s.kn[k].note THEN Ok(s)
        ELSE IF a.rv < 0 THEN a ELSE [a EXCEPT !.kn[k].flags = @ \cup Forced]

\* EV_DISABLE is not among the flags that are preserved, while an armed knote
\* stays registered or not as it was.
ProcModify(s, k, flags, note) ==
    LET b == Ok([s EXCEPT !.kn[k].flags = (flags \ Forced) \cup (@ \cap Forced),
                          !.kn[k].note = note])
        a == ProcArm(b, k)
    IN  IF "NOTE_EXIT" \in note /\ s.kn[k].fd = "none"
          THEN IF a.rv < 0 THEN a ELSE [a EXCEPT !.kn[k].flags = @ \cup Forced]
        ELSE IF "NOTE_EXIT" \notin note THEN ProcDisarm(b, k) ELSE b

ProcDelete(s, k) == Ok(ProcDisarm(s, k))

(***************************************************************************)
(* EVFILT_VNODE.                                                           *)
(***************************************************************************)
\* The mask of add_watch(), less the events of directories.
WatchMask(note) ==
    {"IN_CLOSE"}
    \cup (IF note \cap {"NOTE_WRITE", "NOTE_TRUNCATE"} # {} THEN {"IN_MODIFY"} ELSE {})
    \cup (IF note \cap {"NOTE_WRITE", "NOTE_TRUNCATE", "NOTE_DELETE"} # {}
            THEN {"IN_ATTRIB"} ELSE {})

\* Faulty: NOTE_WRITE is not considered either.
ModifyMaskDeleteOnly(note) == WatchMask(note \cap {"NOTE_DELETE"})

\* The mask of kn_modify(), which does not consider NOTE_TRUNCATE.
ModifyMask(note) == WatchMask(note \ {"NOTE_TRUNCATE"})

AddWatch(s, k) ==
    LET o == [Open(s, k) EXCEPT !.obj[k].mask = WatchMask(s.kn[k].note),
                                !.obj[k].watch = TRUE, !.kn[k].ud = TRUE]
        e == EpollAdd(o, k, FALSE)
    IN  IF ~src[k].linked THEN Fail(s)
        ELSE IF e.rv < 0 THEN Fail([Close(e, k, "none") EXCEPT !.kn[k].ud = FALSE])
        ELSE e

DeleteWatch(s, k) ==
    IF s.kn[k].fd = "none" THEN Ok(s)
    ELSE Close(KnUdataDeferFree(EpollDel(s, k), k), k, "none")

VnodeCreate(s, k) == AddWatch([s EXCEPT !.kn[k].size = src[k].size], k)
VnodeDelete(s, k) == DeleteWatch(s, k)
VnodeEnable(s, k) == AddWatch(s, k)
VnodeDisable(s, k) == DeleteWatch(s, k)

\* inotify_add_watch() replaces the mask, and renews a watch that was used up.
VnodeModify(s, k, note) ==
    LET n == [s EXCEPT !.kn[k].note = note,
                       !.owed[k] = IF s.obj[k].watch THEN @ \cap note ELSE {}]
    IN  IF s.kn[k].fd = "none" THEN Ok(n)
        ELSE IF ~src[k].linked THEN Fail(s)
        ELSE Ok([n EXCEPT !.obj[k].mask = ModifyMask(note), !.obj[k].watch = TRUE])

(***************************************************************************)
(* The common code of a change.                                            *)
(***************************************************************************)
KnCreate(s, k) ==
    CASE kind = "user" -> UserCreate(s, k)
      [] kind = "timer" -> TimerCreate(s, k)
      [] kind = "proc" -> ProcCreate(s, k)
      [] kind = "vnode" -> VnodeCreate(s, k)

KnDelete(s, k) ==
    CASE kind = "user" -> UserDelete(s, k)
      [] kind = "timer" -> TimerDelete(s, k)
      [] kind = "proc" -> ProcDelete(s, k)
      [] kind = "vnode" -> VnodeDelete(s, k)

KnEnable(s, k) ==
    CASE kind = "user" -> UserEnable(s, k)
      [] kind = "timer" -> TimerEnable(s, k)
      [] kind = "proc" -> ProcEnable(s, k)
      [] kind = "vnode" -> VnodeEnable(s, k)

KnDisable(s, k) ==
    CASE kind = "user" -> UserDisable(s, k)
      [] kind = "timer" -> TimerDisable(s, k)
      [] kind = "proc" -> ProcDisable(s, k)
      [] kind = "vnode" -> VnodeDisable(s, k)

KnoteDelete(s, k) ==
    LET d == KnDelete(s, k) IN [d EXCEPT !.kn[k] = NoKnote, !.owed[k] = {}]

\* Faulty: a knote that is disabled is disabled again.
KnoteDisableTwice(s, k) ==
    LET d == KnDisable(s, k)
    IN  IF d.rv < 0 THEN d
        ELSE [d EXCEPT !.kn[k].flags = @ \cup {"EV_DISABLE"}, !.owed[k] = {}]

KnoteDisable(s, k) ==
    LET d == KnDisable(s, k)
    IN  IF Disabled(s, k) THEN Ok(s)
        ELSE IF d.rv < 0 THEN d
        ELSE [d EXCEPT !.kn[k].flags = @ \cup {"EV_DISABLE"}, !.owed[k] = {}]

\* Faulty: the flag is cleared whatever kn_enable() returned.
KnoteEnableAlways(s, k) ==
    IF ~Disabled(s, k) THEN Ok(s)
    ELSE [KnEnable(s, k) EXCEPT !.kn[k].flags = @ \ {"EV_DISABLE"}]

KnoteEnable(s, k) ==
    LET e == KnEnable(s, k)
    IN  IF ~Disabled(s, k) THEN Ok(s)
        ELSE IF e.rv < 0 THEN e ELSE [e EXCEPT !.kn[k].flags = @ \ {"EV_DISABLE"}]

KnoteCopyoutFlagActions(s, k) ==
    LET d == IF "EV_DISPATCH" \in s.kn[k].flags THEN KnoteDisable(s, k) ELSE Ok(s)
    IN  IF "EV_ONESHOT" \in s.kn[k].flags THEN KnoteDelete(d, k) ELSE d

\* The system calls a change finds failing: none, epoll_ctl() or timerfd_settime().
Failing == {"none", "add", "settime"}

\* A call of kevent() with one change of k, which x made fail, ends in s.
Change(k, x, s) ==
    /\ changes > 0 /\ k \in InUse
    /\ changes' = changes - 1
    /\ x # "none" => faults > 0
    /\ faults' = IF x # "none" THEN faults - 1 ELSE faults
    /\ Becomes(s)
    /\ evbuf' = s.evbuf
    /\ UNCHANGED <<kind, src, threads, waits, events>>

\* EV_ADD of a new knote.  A failing kn_create() drops the knote; EV_DISABLE
\* is carried out, and kept even if that fails.
Add(k) ==
    /\ ~kn[k].live
    /\ \E f \in Adds, note \in Notes, x \in Failing :
         LET n == [State(0, x) EXCEPT !.kn[k] = [NoKnote EXCEPT !.live = TRUE, !.flags = f,
                                                               !.note = note],
                                      !.trig[k] = 0, !.told[k] = 0]
             c == KnCreate(n, k)
         IN  Change(k, x,
               IF c.rv < 0 THEN [c EXCEPT !.kn[k] = NoKnote, !.reg[k] = NoReg]
               ELSE IF "EV_DISABLE" \in f THEN KnDisable(c, k) ELSE c)

\* EV_ADD of a knote that exists; EV_DISPATCH is the flag it declares anew.
\* stray records that the change was applied to a disabled knote, failed half
\* way, left EPOLLONESHOT as it was, or found it used up by a thread that has
\* fetched the expiration and not yet read it.
Modify(k) ==
    /\ kn[k].live
    /\ \E f \in Adds, note \in Notes, x \in Failing :
         LET flags == f \ {"EV_DISABLE"}
             d == {"EV_DISPATCH"}
             s == State(0, x)
             r == CASE kind = "user" -> [UserModify(s, k, FALSE) EXCEPT
                                            !.trig[k] = obj[k].count, !.told[k] = 0]
                    [] kind = "timer" -> TimerModify(s, k, flags, note)
                    [] kind = "proc" -> ProcModify(s, k, flags, note)
                    [] kind = "vnode" -> VnodeModify(s, k, note)
             m == IF r.rv < 0 THEN r
                  ELSE [r EXCEPT !.kn[k].flags = (@ \ d) \cup (flags \cap d)]
             stray == \/ kind \in {"timer", "proc"} /\ (Disabled(s, k) \/ m.rv < 0)
                      \/ kind = "timer" /\ m.reg[k].once # TimerOnce(m.kn[k].flags)
                      \/ kind = "timer" /\ ~m.reg[k].armed
         IN  Change(k, x, IF stray THEN [m EXCEPT !.kn[k].stray = TRUE] ELSE m)

\* NOTE_TRIGGER, alone or with EV_ENABLE.
Trigger(k) ==
    /\ kn[k].live /\ kind = "user"
    /\ \E enable \in BOOLEAN, x \in Failing :
         LET e == IF enable THEN KnoteEnable(State(0, x), k) ELSE State(0, x)
         IN  Change(k, x, IF e.rv < 0 THEN e ELSE UserModify(e, k, TRUE))

Delete(k) == kn[k].live /\ \E x \in Failing : Change(k, x, KnoteDelete(State(0, x), k))
Disable(k) == kn[k].live /\ \E x \in Failing : Change(k, x, KnoteDisable(State(0, x), k))
Enable(k) == kn[k].live /\ \E x \in Failing : Change(k, x, KnoteEnable(State(0, x), k))

(***************************************************************************)
(* linux_kevent_copyout(): one event of evbuf at a time.                   *)
(***************************************************************************)
Hit(s, k, n) ==
    [s EXCEPT !.told[k] = @ + n, !.room = @ - 1,
              !.late = @ \/ ~s.kn[k].live \/ Disabled(s, k)]

\* Faulty: whoever fetched the event delivers it.
CopyoutUserBlind(s, k) ==
    KnoteCopyoutFlagActions(
        Hit(IF s.kn[k].flags \cap {"EV_DISPATCH", "EV_CLEAR", "EV_ONESHOT"} # {}
              THEN EventfdLower(s, k) ELSE s, k, 1), k)

\* Of several waiters that fetched the event, the one that lowers the eventfd
\* delivers it.
CopyoutUser(s, k) ==
    LET lowers == s.kn[k].flags \cap {"EV_DISPATCH", "EV_CLEAR", "EV_ONESHOT"} # {}
        l == IF lowers THEN EventfdLower(s, k) ELSE s
    IN  IF lowers /\ l.rv = 0 THEN Ok(s) ELSE KnoteCopyoutFlagActions(Hit(l, k, 1), k)

\* Faulty: the number of expirations is not taken from the timerfd.
CopyoutTimerOne(s, k) ==
    IF s.kn[k].fd = "open" /\ s.obj[k].count = 0 THEN Ok(s)
    ELSE KnoteCopyoutFlagActions(Hit([s EXCEPT !.obj[k].count = 0], k, 1), k)

\* A read that fails for another reason than EAGAIN counts as one expiration.
CopyoutTimer(s, k) ==
    LET n == IF s.kn[k].fd = "open" THEN s.obj[k].count ELSE 1
    IN  IF n = 0 THEN Ok(s)
        ELSE KnoteCopyoutFlagActions(Hit([s EXCEPT !.obj[k].count = 0], k, n), k)

\* Faulty: EV_DISABLE is not looked at.
CopyoutProcDisabled(s, k) ==
    IF src[k].proc = "reaped" THEN Fail(s)
    ELSE KnoteCopyoutFlagActions(Hit(s, k, 1), k)

\* waitid() fails if the program has waited for the process.
CopyoutProc(s, k) ==
    IF Disabled(s, k) THEN Ok(s)
    ELSE IF src[k].proc = "reaped" THEN Fail(s)
    ELSE KnoteCopyoutFlagActions(Hit(s, k, 1), k)

\* get_one_event(), as often as there is one: the events merged into one mask.
GetEvents(s, k) == s.obj[k].queue \ {"IN_CLOSE", "IN_IGNORED"}

\* The inotify events are drained, then the file is compared with what it was.
\* NOTE_WRITE stands for NOTE_EXTEND as well.
CopyoutVnode(s, k) ==
    LET merged == GetEvents(s, k)
        fflags == s.kn[k].note \cap
                    ((IF ~src[k].linked THEN {"NOTE_DELETE"} ELSE {})
                     \cup (IF src[k].size < s.kn[k].size THEN {"NOTE_TRUNCATE"} ELSE {})
                     \cup (IF src[k].size > s.kn[k].size \/ "IN_MODIFY" \in merged
                             THEN {"NOTE_WRITE"} ELSE {}))
        d == [s EXCEPT !.obj[k].queue = {}]
        n == [d EXCEPT !.kn[k].size = src[k].size]
    IN  IF merged = {} THEN Ok(d)
        ELSE IF fflags = {} THEN Ok(n)
        ELSE KnoteCopyoutFlagActions(Hit([n EXCEPT !.owed[k] = @ \ fflags], k, 1), k)

CopyoutOne(s, e) ==
    LET c == CASE kind = "user" -> CopyoutUser(s, e.k)
               [] kind = "timer" -> CopyoutTimer(s, e.k)
               [] kind = "proc" -> CopyoutProc(s, e.k)
               [] kind = "vnode" -> CopyoutVnode(s, e.k)
    IN  IF s.stop \/ e.stale THEN s
        ELSE IF s.room = 0 THEN [s EXCEPT !.stop = TRUE, !.short = TRUE]
        ELSE IF c.rv < 0 THEN [c EXCEPT !.stop = TRUE, !.failed = TRUE]
        ELSE c

(***************************************************************************)
(* kevent() of a waiting thread.                                           *)
(***************************************************************************)
Wait(t) ==
    /\ pc[t] = "out" /\ waits > 0
    /\ waits' = waits - 1
    /\ pc' = [pc EXCEPT ![t] = "wait"]
    /\ \E n \in 1..MaxRoom : \E r \in 1..n :
         max' = [max EXCEPT ![t] = n] /\ room' = [room EXCEPT ![t] = r]
    /\ late' = FALSE
    /\ UNCHANGED <<kind, kn, reg, obj, src, evbuf, open, changes, events, faults,
                   trig, told, owed, short, failed>>

Readable(k) ==
    CASE kind = "user" -> obj[k].count > 0
      [] kind = "timer" -> reg[k].edge /\ obj[k].count > 0
      [] kind = "proc" -> src[k].proc # "running"
      [] kind = "vnode" -> obj[k].queue # {}

Reported == {k \in Slots : reg[k].on /\ reg[k].armed /\ Readable(k)}

\* epoll_wait(): an edge is reported once, and with EPOLLONESHOT never again.
EpollWait(t) ==
    /\ pc[t] = "wait"
    /\ \E K \in SUBSET Reported :
         /\ K # {} /\ Cardinality(K) <= max[t]
         /\ evbuf' = [evbuf EXCEPT ![t] =
                        SetToSeq({[k |-> k, stale |-> ~reg[k].ud] : k \in K})]
         /\ reg' = [k \in Slots |-> IF k \in K
                      THEN [reg[k] EXCEPT !.edge = FALSE, !.armed = ~reg[k].once]
                      ELSE reg[k]]
    /\ pc' = [pc EXCEPT ![t] = "got"]
    /\ late' = FALSE
    /\ UNCHANGED <<kind, kn, obj, src, max, room, open, changes, waits, events, faults,
                   trig, told, owed, short, failed>>

Leave(t, s) ==
    /\ Becomes(s)
    /\ evbuf' = [s.evbuf EXCEPT ![t] = <<>>]
    /\ pc' = [pc EXCEPT ![t] = "out"]
    /\ max' = [max EXCEPT ![t] = 0]
    /\ room' = [room EXCEPT ![t] = 0]
    /\ UNCHANGED <<kind, src, changes, waits, events, faults>>

Timeout(t) == pc[t] = "wait" /\ Leave(t, State(0, "none"))

Copyout(t) ==
    /\ pc[t] = "got"
    /\ Leave(t, FoldLeft(CopyoutOne, State(room[t], "none"), evbuf[t]))

(***************************************************************************)
(* The sources.                                                            *)
(***************************************************************************)
Event(k) ==
    /\ events > 0 /\ k \in InUse
    /\ events' = events - 1
    /\ late' = FALSE
    /\ UNCHANGED <<kind, kn, threads, evbuf, open, changes, waits, faults, told,
                   short, failed>>

Expire(k) ==
    /\ kind = "timer" /\ obj[k].running /\ Event(k)
    /\ obj' = [obj EXCEPT ![k].count = @ + 1,
                          ![k].running = kn[k].flags \cap {"EV_ONESHOT"} = {}
                                         /\ "NOTE_ABSOLUTE" \notin kn[k].note]
    /\ reg' = [reg EXCEPT ![k].edge = reg[k].on]
    /\ trig' = [trig EXCEPT ![k] = @ + 1]
    /\ UNCHANGED <<src, owed>>

\* The process exits; then the program waits for it.
Proceed(k) ==
    /\ kind = "proc" /\ src[k].proc # "reaped" /\ Event(k)
    /\ src' = [src EXCEPT ![k].proc = IF @ = "running" THEN "zombie" ELSE "reaped"]
    /\ UNCHANGED <<obj, reg, trig, owed>>

\* Something happens to the file: it is reported to a watch whose mask has it,
\* and IN_ONESHOT ends the watch with its first event.
Happen(k, in, file, notes) ==
    /\ kind = "vnode" /\ Event(k)
    /\ src' = [src EXCEPT ![k] = file]
    /\ LET one == "EV_ONESHOT" \in kn[k].flags
       IN  obj' = IF obj[k].watch /\ in \in obj[k].mask
                    THEN [obj EXCEPT ![k].watch = ~one,
                                     ![k].queue = @ \cup {in}
                                         \cup IF one THEN {"IN_IGNORED"} ELSE {}]
                    ELSE obj
    /\ owed' = [owed EXCEPT ![k] =
                  IF kn[k].live /\ "EV_DISABLE" \notin kn[k].flags
                    THEN @ \cup (notes \cap kn[k].note) ELSE @]
    /\ UNCHANGED <<reg, trig>>

FileEvent(k) ==
    \/ \E z \in 0..2 : src[k].size # z
         /\ Happen(k, "IN_MODIFY", [src[k] EXCEPT !.size = z], {"NOTE_WRITE"})
    \/ src[k].linked
         /\ Happen(k, "IN_ATTRIB", [src[k] EXCEPT !.linked = FALSE], {"NOTE_DELETE"})
    \/ Happen(k, "IN_CLOSE", src[k], {})

Next ==
    \/ \E k \in Slots : \/ Add(k) \/ Modify(k) \/ Trigger(k) \/ Delete(k)
                        \/ Disable(k) \/ Enable(k)
                        \/ Expire(k) \/ Proceed(k) \/ FileEvent(k)
    \/ \E t \in Threads : Wait(t) \/ EpollWait(t) \/ Timeout(t) \/ Copyout(t)

-----------------------------------------------------------------------------
(***************************************************************************)
(* Properties.                                                             *)
(***************************************************************************)
InHand(k) == \E t \in Threads : \E i \in DOMAIN evbuf[t] :
                evbuf[t][i] = [k |-> k, stale |-> FALSE]
IsEnabled(k) == kn[k].live /\ "EV_DISABLE" \notin kn[k].flags

\* What the epoll and the threads hold of a knote is the udata it has now, or one
\* marked stale: no copyout follows a udata to a knote that is gone.
UdataLeadsToKnote ==
    \A k \in Slots : (reg[k].on /\ reg[k].ud) \/ InHand(k) => kn[k].live /\ kn[k].ud

\* An event fetched before EV_DISABLE, EV_DELETE, or the delivery of another
\* thread that did one of them, is dropped; except that EVFILT_USER delivers
\* what was fetched before EV_DISABLE.
FetchedSilent == late => kind = "user"

\* "exactly one waiter dispatches per NOTE_TRIGGER": a knote that takes its
\* trigger delivers at most once per trigger, whatever the number of waiters.
OneDispatchPerTrigger ==
    \A k \in Slots :
        kind = "user" /\ kn[k].flags \cap {"EV_DISPATCH", "EV_CLEAR", "EV_ONESHOT"} # {}
        => told[k] <= trig[k]

\* A knote is registered if it is enabled and not if it is disabled, through
\* every failure of a change; except timers and processes that were modified
\* while disabled or in vain, and a process that is not asked about.
EnabledIsRegistered ==
    \A k \in Slots : kn[k].live /\ ~kn[k].stray =>
        IF IsEnabled(k) THEN (reg[k].on /\ reg[k].ud) \/ (kind = "proc" /\ kn[k].fd = "none")
        ELSE ~reg[k].on

\* No expiration is counted twice or dropped between the threads that race for
\* the timerfd: what was reported and what it holds are all that happened.
ExpirationsCounted ==
    \A k \in Slots :
        kind = "timer" /\ kn[k].fd = "open" => told[k] + obj[k].count = trig[k]

\* An expiration that was not reported wakes a thread, or one has the event in
\* hand; except after a copyout that dropped fetched events, or a modification
\* that did not register anew what EPOLLONESHOT had disarmed, or asked for.
ExpirationWakes ==
    \A k \in Slots :
        kind = "timer" /\ IsEnabled(k) /\ ~kn[k].stray /\ obj[k].count > 0
        /\ ~short /\ ~failed => (reg[k].edge /\ reg[k].armed) \/ InHand(k)

\* Every descriptor the filter opened belongs to a knote; except that a failing
\* epoll_ctl() leaks an eventfd and a failing change of clock a timerfd.
DescriptorsOwned ==
    \/ open = Cardinality({k \in Slots : kn[k].fd = "open"})
    \/ faults < MaxFaults /\ kind \in {"user", "timer"}

\* A write or removal that was asked for stays in the inotify descriptor until
\* it is delivered; except that with EV_ONESHOT some other event, such as a
\* close of the file, may have ended the watch.
ChangeReported ==
    \A k \in Slots : owed[k] # {} =>
        \/ "EV_ONESHOT" \in kn[k].flags /\ ~obj[k].watch
        \/ reg[k].on /\ ("NOTE_WRITE" \in owed[k] => "IN_MODIFY" \in obj[k].queue)
                     /\ ("NOTE_DELETE" \in owed[k] => "IN_ATTRIB" \in obj[k].queue)

\* A copyout fails, which asserts, only for a process that the program has
\* waited for, or for a timer whose change of clock failed.
CopyoutSucceeds ==
    failed => \/ kind = "proc" /\ \E k \in Slots : src[k].proc = "reaped"
              \/ kind = "timer" /\ faults < MaxFaults
=============================================================================
