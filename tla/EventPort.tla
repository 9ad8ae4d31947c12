------------------------------ MODULE EventPort ------------------------------
(***************************************************************************)
(* The Solaris backend: one kqueue on an event port.                       *)
(*                                                                         *)
(* An association with the port is one-shot: port_getn() removes it, and   *)
(* copyout has to associate again.  What a port event carries is not the   *)
(* knote but a struct port_udata, which outlives the knote while some      *)
(* thread may hold an event: it is marked stale and freed when every       *)
(* caller that was inside kevent() at that time has left (epochs).  Timers *)
(* queue their expirations in the port; EVFILT_USER has a sub-port per     *)
(* knote, watched as a descriptor; EVFILT_PROC links knotes on kf_ready    *)
(* and sends one event for the filter (efd_raised).                        *)
(*                                                                         *)
(* Changes and copyouts hold the kqueue's mutex, so each is one step;      *)
(* port_getn() does not hold it.  The event port is external.              *)
(***************************************************************************)
EXTENDS Integers, Sequences, FiniteSets, SequencesExt

CONSTANTS
    Threads,        \* threads that wait in kevent()
    Udatas,         \* memory for struct port_udatas: 1..n
    Adds,           \* the flag sets passed along with EV_ADD
    MaxRoom,        \* largest eventlist
    MaxCalls,       \* bound on the calls of kevent() (kq_next_epoch)
    MaxEvents       \* bound on what happens to the sources

NoUdata == 0

\* Two descriptors; a read and a write knote of one socket; and so on.
Kinds == {"read", "rw", "user", "timer", "file", "proc"}

VARIABLES
    kind,       \* what the knotes are about, one of Kinds
    kn,         \* the knotes of the two idents
    ud,         \* the port_udatas: state, knote, ud_boundary_epoch
    assoc,      \* associations of the objects with the port
    efd,        \* EVFILT_PROC: kf_ready, efd_raised, events sent to the port
    src,        \* the sources: bytes, hangup (process exit, file removed)
    pc,         \* "out" of kevent(), "wait"ing in port_getn(), "got" events
    evbuf,      \* the events port_getn() returned to a thread
    max, room,  \* nevents of its call, and what copyin has left of it
    entry,      \* state->epoch of a thread inside, 0 outside
    epoch,      \* kq_next_epoch
    nevents,    \* events of the sources so far
    hits,       \* events delivered for the knote since EV_ADD or EV_ENABLE
    short       \* some copyout had no room for what was fetched or ready

vars == <<kind, kn, ud, assoc, efd, src, pc, evbuf, max, room, entry, epoch,
          nevents, hits, short>>
threads == <<pc, evbuf, max, room, entry>>

Slots == {1, 2}
InUse == IF kind \in {"read", "rw", "proc"} THEN Slots ELSE {1}

\* The object of a knote's association: the same one for both knotes of a socket.
Object(k) == IF kind = "rw" THEN 1 ELSE k
Want(k) == IF kind = "rw" /\ k = 2 THEN "out" ELSE "in"

NoKnote == [live |-> FALSE, flags |-> {}, ud |-> NoUdata, ctr |-> 0, sub |-> 0,
            running |-> FALSE, pend |-> 0, waiter |-> FALSE]
NoAssoc == [ud |-> NoUdata, want |-> "in", fired |-> FALSE]

TypeOK ==
    /\ kind \in Kinds
    /\ kn \in [Slots -> [live : BOOLEAN,
                         flags : SUBSET {"EV_CLEAR", "EV_DISPATCH", "EV_ONESHOT",
                                         "EV_DISABLE"},
                         ud : Udatas \cup {NoUdata}, ctr : 0..MaxCalls, sub : 0..1,
                         running : BOOLEAN, pend : 0..1, waiter : BOOLEAN]]
    /\ ud \in [Udatas -> [state : {"free", "live", "stale"}, kn : Slots,
                          boundary : 0..MaxCalls]]
    /\ assoc \in [Slots -> [ud : Udatas \cup {NoUdata}, want : {"in", "out"},
                            fired : BOOLEAN]]
    /\ efd \in [ready : SUBSET Slots, raised : BOOLEAN, sent : Nat]
    /\ src \in [Slots -> [bytes : 0..1, hup : BOOLEAN]]
    /\ pc \in [Threads -> {"out", "wait", "got"}]
    /\ \A t \in Threads : Len(evbuf[t]) <= max[t] /\ room[t] <= max[t]
    /\ entry \in [Threads -> 0..MaxCalls]
    /\ epoch \in 0..MaxCalls /\ nevents \in 0..MaxEvents
    /\ hits \in [Slots -> 0..MaxCalls]
    /\ short \in BOOLEAN

\* c calls of kevent() and e events may follow.
Init(k, c, e) ==
    /\ kind = k
    /\ kn = [i \in Slots |-> NoKnote]
    /\ ud = [u \in Udatas |-> [state |-> "free", kn |-> 1, boundary |-> 0]]
    /\ assoc = [i \in Slots |-> NoAssoc]
    /\ efd = [ready |-> {}, raised |-> FALSE, sent |-> 0]
    /\ src = [i \in Slots |-> [bytes |-> 0, hup |-> FALSE]]
    /\ pc = [t \in Threads |-> "out"]
    /\ evbuf = [t \in Threads |-> <<>>]
    /\ max = [t \in Threads |-> 0]
    /\ room = [t \in Threads |-> 0]
    /\ entry = [t \in Threads |-> 0]
    /\ epoch = MaxCalls - c
    /\ nevents = MaxEvents - e
    /\ hits = [i \in Slots |-> 0]
    /\ short = FALSE

(***************************************************************************)
(* A step threads the shared state through the calls it makes.             *)
(***************************************************************************)
State(e, n) ==
    [kn |-> kn, ud |-> ud, assoc |-> assoc, efd |-> efd, hits |-> hits,
     short |-> short, epoch |-> e, room |-> n]

Becomes(s) ==
    /\ kn' = s.kn /\ ud' = s.ud /\ assoc' = s.assoc /\ efd' = s.efd
    /\ hits' = s.hits /\ short' = s.short

(***************************************************************************)
(* Deferred reclamation of port_udatas.                                    *)
(***************************************************************************)
FreeUdatas(s) == {u \in Udatas : s.ud[u].state = "free"}

PortUdataAlloc(s, k) ==
    LET u == CHOOSE v \in FreeUdatas(s) : \A x \in FreeUdatas(s) : v <= x
    IN  IF s.kn[k].ud # NoUdata THEN s
        ELSE [s EXCEPT !.kn[k].ud = u,
                       !.ud[u] = [state |-> "live", kn |-> k, boundary |-> 0]]

PortUdataDeferFree(s, k) ==
    IF s.kn[k].ud = NoUdata THEN s
    ELSE [s EXCEPT !.ud[s.kn[k].ud].state = "stale",
                   !.ud[s.kn[k].ud].boundary = s.epoch,
                   !.kn[k].ud = NoUdata]

\* Faulty: a udata whose boundary is the epoch of the oldest caller is freed.
DeferredSweepEarly(s, inside) ==
    [s EXCEPT !.ud = [u \in Udatas |->
        IF s.ud[u].state = "stale" /\ \A t \in inside : s.ud[u].boundary <= entry[t]
          THEN [state |-> "free", kn |-> 1, boundary |-> 0] ELSE s.ud[u]]]

\* Faulty: the list is swept only when nobody is left inside.
DeferredSweepLate(s, inside) ==
    [s EXCEPT !.ud = [u \in Udatas |->
        IF s.ud[u].state = "stale" /\ inside = {}
          THEN [state |-> "free", kn |-> 1, boundary |-> 0] ELSE s.ud[u]]]

\* ud_deferred_free is ordered by boundary and kq_inflight by epoch, so the loop
\* that stops at the first udata it may not free frees all that it may.
DeferredSweep(s, inside) ==
    [s EXCEPT !.ud = [u \in Udatas |->
        IF s.ud[u].state = "stale" /\ \A t \in inside : s.ud[u].boundary < entry[t]
          THEN [state |-> "free", kn |-> 1, boundary |-> 0] ELSE s.ud[u]]]

Inside == {t \in Threads : entry[t] # 0}

(***************************************************************************)
(* Associations.                                                           *)
(***************************************************************************)
Associate(s, k) ==
    [s EXCEPT !.assoc[Object(k)] = [ud |-> s.kn[k].ud, want |-> Want(k),
                                    fired |-> FALSE]]
Dissociate(s, k) == [s EXCEPT !.assoc[Object(k)] = NoAssoc]

CreateSocket(s, k) == Associate(PortUdataAlloc(s, k), k)
CreateUser(s, k) == Associate(PortUdataAlloc(s, k), k)
CreateTimer(s, k) ==
    [PortUdataAlloc(s, k) EXCEPT !.kn[k].running = TRUE,
                                 !.kn[k].flags = @ \cup {"EV_CLEAR"}]
\* Without the file its path can no longer be associated.
VnodeArm(s, k) == IF src[k].hup THEN s ELSE Associate(PortUdataAlloc(s, k), k)

\* Faulty: efd_raised is set and no event is sent.
EventfdRaiseSilent(e) == [e EXCEPT !.raised = TRUE]

\* eventfd_raise(): one event is sent when efd_raised goes from 0 to 1.
EventfdRaise(e) ==
    IF e.raised THEN e ELSE [e EXCEPT !.raised = TRUE, !.sent = @ + 1]

\* waiter_notify().
WaiterNotify(s, k) ==
    [s EXCEPT !.kn[k].waiter = FALSE,
              !.efd = EventfdRaise([@ EXCEPT !.ready = @ \cup {k}])]

\* A process that has exited already is notified at once.
ProcPidArm(s, k) ==
    IF src[k].hup THEN WaiterNotify(s, k) ELSE [s EXCEPT !.kn[k].waiter = TRUE]

CreateProc(s, k) ==
    [ProcPidArm(s, k) EXCEPT !.kn[k].flags = @ \cup {"EV_ONESHOT", "EV_CLEAR"}]

KnCreate(s, k) ==
    CASE kind \in {"read", "rw"} -> CreateSocket(s, k)
      [] kind = "user" -> CreateUser(s, k)
      [] kind = "timer" -> CreateTimer(s, k)
      [] kind = "file" -> VnodeArm(s, k)
      [] kind = "proc" -> CreateProc(s, k)

\* proc_pid_disarm() and the removal from kf_ready; the eventfd is lowered when
\* nothing is left, though the event it sent may still be in the port.
ProcQuiet(s, k) ==
    LET r == s.efd.ready \ {k}
    IN  [s EXCEPT !.kn[k].waiter = FALSE, !.efd.ready = r,
                  !.efd.raised = @ /\ r # {}]

DeleteSocket(s, k) == PortUdataDeferFree(Dissociate(s, k), k)
DeleteUser(s, k) == PortUdataDeferFree(Dissociate(s, k), k)
\* timer_delete() takes the expirations queued in the port along.
DeleteTimer(s, k) == PortUdataDeferFree([s EXCEPT !.kn[k].pend = 0], k)
DeleteVnode(s, k) == PortUdataDeferFree(Dissociate(s, k), k)

KnDelete(s, k) ==
    CASE kind \in {"read", "rw"} -> DeleteSocket(s, k)
      [] kind = "user" -> DeleteUser(s, k)
      [] kind = "timer" -> DeleteTimer(s, k)
      [] kind = "file" -> DeleteVnode(s, k)
      [] kind = "proc" -> ProcQuiet(s, k)

DisableSocket(s, k) == Dissociate(s, k)

\* Faulty: the counter of triggers survives, so that the next one is not sent.
DisableUserKeepsCounter(s, k) == [Dissociate(s, k) EXCEPT !.kn[k].sub = 0]

\* The sub-port is drained and the counter reset with it.
DisableUser(s, k) == [Dissociate(s, k) EXCEPT !.kn[k].sub = 0, !.kn[k].ctr = 0]
DisableTimer(s, k) == [s EXCEPT !.kn[k].running = FALSE]
DisableVnode(s, k) == Dissociate(s, k)

\* kn_modify().  Sockets and vnodes are associated again even if disabled.
ModifySocket(s, k) == CreateSocket(s, k)
ModifyVnode(s, k) == VnodeArm(Dissociate(s, k), k)

\* A timer is set again and takes over the new flags, EV_DISABLE among them.
ModifyTimer(s, k, f) ==
    [s EXCEPT !.kn[k].running = TRUE, !.kn[k].flags = f \cup {"EV_CLEAR"}]

\* So does a process, which is watched again if it is not.
ModifyProc(s, k, f) ==
    LET b == [s EXCEPT !.kn[k].flags = f \cup {"EV_ONESHOT", "EV_CLEAR"}]
    IN  IF s.kn[k].waiter THEN b ELSE ProcPidArm(b, k)

KnModify(s, k, f) ==
    CASE kind \in {"read", "rw"} -> ModifySocket(s, k)
      [] kind = "timer" -> ModifyTimer(s, k, f)
      [] kind = "file" -> ModifyVnode(s, k)
      [] kind = "proc" -> ModifyProc(s, k, f)

KnDisable(s, k) ==
    CASE kind \in {"read", "rw"} -> DisableSocket(s, k)
      [] kind = "user" -> DisableUser(s, k)
      [] kind = "timer" -> DisableTimer(s, k)
      [] kind = "file" -> DisableVnode(s, k)
      [] kind = "proc" -> ProcQuiet(s, k)

EnableUser(s, k) == Associate(s, k)
EnableTimer(s, k) == [s EXCEPT !.kn[k].running = TRUE]

KnEnable(s, k) ==
    CASE kind = "user" -> EnableUser(s, k)
      [] kind = "timer" -> EnableTimer(s, k)
      [] OTHER -> KnCreate(s, k)

KnoteDelete(s, k) == [KnDelete(s, k) EXCEPT !.kn[k] = NoKnote]
Disabled(s, k) == "EV_DISABLE" \in s.kn[k].flags
KnoteDisable(s, k) ==
    IF Disabled(s, k) THEN s
    ELSE [KnDisable(s, k) EXCEPT !.kn[k].flags = @ \cup {"EV_DISABLE"}]

KnoteCopyoutFlagActions(s, k) ==
    LET d == IF "EV_DISPATCH" \in s.kn[k].flags THEN KnoteDisable(s, k) ELSE s
    IN  IF "EV_ONESHOT" \in d.kn[k].flags THEN KnoteDelete(d, k) ELSE d

(***************************************************************************)
(* solaris_kevent_copyout(): one event of evbuf at a time.                 *)
(***************************************************************************)
Hit(s, k) == [s EXCEPT !.hits[k] = @ + 1, !.room = @ - 1]
Level(s, k) == s.kn[k].flags \cap {"EV_CLEAR", "EV_DISPATCH", "EV_ONESHOT"} = {}

\* evfilt_socket_copyout(): whether there is anything to report, be it bytes, room
\* for them, or the end of the file.
Reports(k) == Want(k) = "out" \/ src[Object(k)].bytes > 0 \/ src[Object(k)].hup

\* Faulty: a knote is only associated again if its event is reported.
CopyoutSocketLazy(s, k) ==
    IF ~Reports(k) THEN s
    ELSE KnoteCopyoutFlagActions(
             Hit(IF Level(s, k) THEN CreateSocket(s, k) ELSE s, k), k)

\* Sockets and pipes: level-triggered knotes are associated again; an event
\* that finds nothing to read and no end of file is not reported.
CopyoutSocket(s, k) ==
    LET a == IF Level(s, k) THEN CreateSocket(s, k) ELSE s
    IN  IF Reports(k) THEN KnoteCopyoutFlagActions(Hit(a, k), k) ELSE a

\* The sub-port is drained and watched again before the counter is collected.
DrainSubport(s, k) == Associate([s EXCEPT !.kn[k].sub = 0], k)

CopyoutUser(s, k) ==
    IF s.kn[k].ctr = 0 THEN s
    ELSE KnoteCopyoutFlagActions(Hit([s EXCEPT !.kn[k].ctr = 0], k), k)

CopyoutTimer(s, k) == KnoteCopyoutFlagActions(Hit(s, k), k)

CopyoutVnode(s, k) == KnoteCopyoutFlagActions(Hit(s, k), k)

\* A level-triggered vnode is watched again, unless what is reported is that the
\* file is gone.  If it is gone but that was not yet fetched, kevent() fails and
\* reports nothing.  The flags of the knote are read after the copyout may have
\* deleted it; the outcome taken here is that the memory is unchanged.
RearmVnode(s, k, gone) ==
    IF ~Level(s, k) \/ gone THEN CopyoutVnode(s, k)
    ELSE IF src[k].hup THEN s
    ELSE VnodeArm(CopyoutVnode(s, k), k)

\* evfilt_proc_knote_copyout() without a knote: kf_ready is drained as far as
\* there is room, and the eventfd lowered when it is empty.
CopyoutProc(s) ==
    LET one(r, k) ==
            IF r.room = 0 THEN [r EXCEPT !.short = TRUE]
            ELSE KnoteCopyoutFlagActions(Hit([r EXCEPT !.efd.ready = @ \ {k}], k), k)
        d == FoldLeft(one, s, SetToSeq(s.efd.ready))
    IN  [d EXCEPT !.efd.raised = @ /\ d.efd.ready # {}]

\* Faulty: an event that was fetched before EV_DISABLE is delivered.
CopyoutOneDisabled(s, e) ==
    LET k == s.ud[e.ud].kn
    IN  IF s.room = 0 THEN [s EXCEPT !.short = TRUE]
        ELSE IF e.type = "filter" THEN CopyoutProc(s)
        ELSE IF s.ud[e.ud].state # "live" THEN s
        ELSE CASE kind \in {"read", "rw"} -> CopyoutSocket(s, k)
               [] kind = "user" -> CopyoutUser(DrainSubport(s, k), k)
               [] kind = "timer" -> CopyoutTimer(s, k)
               [] kind = "file" -> RearmVnode(s, k, e.gone)

CopyoutOne(s, e) ==
    LET k == s.ud[e.ud].kn
    IN  IF s.room = 0 THEN [s EXCEPT !.short = TRUE]
        ELSE IF e.type = "filter" THEN CopyoutProc(s)
        ELSE IF s.ud[e.ud].state # "live" THEN s
        ELSE IF Disabled(s, k) THEN s
        ELSE CASE kind \in {"read", "rw"} -> CopyoutSocket(s, k)
               [] kind = "user" -> CopyoutUser(DrainSubport(s, k), k)
               [] kind = "timer" -> CopyoutTimer(s, k)
               [] kind = "file" -> RearmVnode(s, k, e.gone)

(***************************************************************************)
(* Changes: a call of kevent() that enters, applies one change and leaves. *)
(***************************************************************************)
Call == epoch < MaxCalls /\ epoch' = epoch + 1
Before == State(epoch + 1, 0)

Applied(s) ==
    /\ Becomes(DeferredSweep(s, Inside))
    /\ UNCHANGED <<kind, src, threads, nevents>>

Gone(k) == kind = "file" /\ src[k].hup

Add(k) ==
    /\ Call /\ k \in InUse /\ ~kn[k].live /\ ~Gone(k)
    /\ FreeUdatas(Before) # {}
    /\ \E f \in Adds, disable \in BOOLEAN :
         LET c == KnCreate([Before EXCEPT !.kn[k] = [NoKnote EXCEPT !.live = TRUE,
                                                                    !.flags = f],
                                          !.hits[k] = 0], k)
         IN  Applied(IF disable THEN KnoteDisable(c, k) ELSE c)

\* EV_DISPATCH is taken from the change if kn_modify() succeeds, which it does
\* not for a file that is gone.  A process whose knote is on kf_ready would be
\* linked into that list a second time; this is left out.
Modify(k) ==
    /\ Call /\ kn[k].live /\ kind # "user" /\ k \notin efd.ready
    /\ \E f \in Adds :
         LET d == {"EV_DISPATCH"}
             m == KnModify(Before, k, f)
         IN  Applied(IF Gone(k) THEN m
                     ELSE [m EXCEPT !.kn[k].flags = (@ \ d) \cup (f \cap d),
                                    !.hits[k] = 0])

\* Only the first of several triggers is sent to the sub-port.
Trigger(k) ==
    /\ Call /\ kn[k].live /\ kind = "user"
    /\ Applied(IF Disabled(Before, k) THEN Before
               ELSE [Before EXCEPT !.kn[k].ctr = @ + 1,
                                   !.kn[k].sub = IF kn[k].ctr = 0 THEN 1 ELSE @])

Delete(k) ==
    /\ Call /\ kn[k].live
    /\ Applied(KnoteDelete(Before, k))

Disable(k) ==
    /\ Call /\ kn[k].live /\ "EV_DISABLE" \notin kn[k].flags
    /\ Applied(KnoteDisable(Before, k))

Enable(k) ==
    /\ Call /\ kn[k].live /\ "EV_DISABLE" \in kn[k].flags /\ ~Gone(k)
    /\ Applied([KnEnable(Before, k) EXCEPT !.kn[k].flags = @ \ {"EV_DISABLE"},
                                           !.hits[k] = 0])

(***************************************************************************)
(* The sources.                                                            *)
(***************************************************************************)
Event == nevents < MaxEvents /\ nevents' = nevents + 1

Arrive(k) ==
    /\ Event /\ kind \in {"read", "rw"} /\ k = Object(k) /\ src[k].bytes = 0
    /\ src' = [src EXCEPT ![k].bytes = 1]
    /\ UNCHANGED <<kind, kn, ud, assoc, efd, threads, epoch, hits, short>>

Consume(k) ==
    /\ Event /\ src[k].bytes = 1
    /\ src' = [src EXCEPT ![k].bytes = 0]
    /\ UNCHANGED <<kind, kn, ud, assoc, efd, threads, epoch, hits, short>>

\* The file is written, or removed; what nobody watches is not noticed.
Change(k) ==
    /\ Event /\ kind = "file" /\ k = 1 /\ ~src[k].hup
    /\ \E h \in BOOLEAN : src' = [src EXCEPT ![k].hup = h]
    /\ assoc' = [assoc EXCEPT ![k].fired = assoc[k].ud # NoUdata]
    /\ UNCHANGED <<kind, kn, ud, efd, threads, epoch, hits, short>>

Hangup(k) ==
    /\ Event /\ kind \in {"read", "rw", "proc"} /\ k = Object(k) /\ ~src[k].hup
    /\ src' = [src EXCEPT ![k].hup = TRUE]
    /\ UNCHANGED <<kind, kn, ud, assoc, efd, threads, epoch, hits, short>>

Expire(k) ==
    /\ Event /\ kn[k].running
    /\ kn' = [kn EXCEPT ![k].pend = 1, ![k].running = "EV_ONESHOT" \notin kn[k].flags]
    /\ UNCHANGED <<kind, ud, assoc, efd, src, threads, epoch, hits, short>>

\* The wait thread has seen that the process exited.
Notify(k) ==
    /\ kind = "proc" /\ kn[k].waiter /\ src[k].hup
    /\ Becomes(WaiterNotify(State(epoch, 0), k))
    /\ UNCHANGED <<kind, src, threads, epoch, nevents>>

(***************************************************************************)
(* kevent() of a waiting thread.                                           *)
(***************************************************************************)
Wait(t) ==
    /\ Call /\ pc[t] = "out"
    /\ pc' = [pc EXCEPT ![t] = "wait"]
    /\ entry' = [entry EXCEPT ![t] = epoch + 1]
    /\ \E n \in 1..MaxRoom : \E r \in 1..n :
         max' = [max EXCEPT ![t] = n] /\ room' = [room EXCEPT ![t] = r]
    /\ UNCHANGED <<kind, kn, ud, assoc, efd, src, evbuf, nevents, hits, short>>

\* What is in the port: events of associated objects that are ready, of timers,
\* and of the filter.
Fires(o) ==
    /\ assoc[o].ud # NoUdata
    /\ CASE kind = "file" -> assoc[o].fired
         [] kind = "user" -> kn[o].sub > 0
         [] OTHER -> assoc[o].want = "out" \/ src[o].bytes > 0 \/ src[o].hup

Queued ==
    {[type |-> "fd", ud |-> assoc[o].ud, gone |-> src[o].hup] : o \in {i \in Slots : Fires(i)}}
    \cup {[type |-> "timer", ud |-> kn[k].ud, gone |-> FALSE] : k \in {i \in Slots : kn[i].pend > 0}}
    \cup {[type |-> "filter", ud |-> NoUdata, gone |-> FALSE] : i \in 1..efd.sent}

\* port_getn() with room for max events: the associations it reports are gone.
PortGetn(t) ==
    /\ pc[t] = "wait"
    /\ \E E \in SUBSET Queued :
         /\ E # {} /\ Cardinality(E) <= max[t]
         /\ evbuf' = [evbuf EXCEPT ![t] = SetToSeq(E)]
         /\ assoc' = [o \in Slots |-> IF assoc[o].ud \in {e.ud : e \in E} /\ Fires(o)
                                        THEN NoAssoc ELSE assoc[o]]
         /\ kn' = [k \in Slots |-> IF kn[k].ud \in {e.ud : e \in E}
                                      THEN [kn[k] EXCEPT !.pend = 0] ELSE kn[k]]
         /\ efd' = [efd EXCEPT !.sent = @ - Cardinality({e \in E : e.type = "filter"})]
    /\ pc' = [pc EXCEPT ![t] = "got"]
    /\ UNCHANGED <<kind, ud, src, max, room, entry, epoch, nevents, hits, short>>

\* kevent_exit(): the caller leaves and sweeps.
Leave(t, s) ==
    /\ Becomes(DeferredSweep(s, Inside \ {t}))
    /\ pc' = [pc EXCEPT ![t] = "out"]
    /\ entry' = [entry EXCEPT ![t] = 0]
    /\ evbuf' = [evbuf EXCEPT ![t] = <<>>]
    /\ max' = [max EXCEPT ![t] = 0]
    /\ room' = [room EXCEPT ![t] = 0]
    /\ UNCHANGED <<kind, src, epoch, nevents>>

Timeout(t) == pc[t] = "wait" /\ Leave(t, State(epoch, 0))

Copyout(t) ==
    /\ pc[t] = "got"
    /\ Leave(t, FoldLeft(CopyoutOne, State(epoch, room[t]), evbuf[t]))

Next ==
    \/ \E k \in Slots : \/ Add(k) \/ Modify(k) \/ Trigger(k) \/ Delete(k)
                        \/ Disable(k) \/ Enable(k) \/ Notify(k)
                        \/ Arrive(k) \/ Consume(k) \/ Change(k) \/ Hangup(k) \/ Expire(k)
    \/ \E t \in Threads : Wait(t) \/ PortGetn(t) \/ Timeout(t) \/ Copyout(t)

-----------------------------------------------------------------------------
(***************************************************************************)
(* Properties.                                                             *)
(***************************************************************************)
InHand(u) == \E t \in Threads : \E i \in DOMAIN evbuf[t] : evbuf[t][i].ud = u

\* Whatever the port or a thread's evbuf refers to is memory that has not been
\* freed, however EV_DELETE, EV_ONESHOT and the callers inside interleave.
PortUdataLive ==
    \A u \in Udatas :
        InHand(u) \/ (\E o \in Slots : assoc[o].ud = u) => ud[u].state # "free"

\* A retired udata is kept only for a caller that was inside when it was retired.
StaleHasReader ==
    \A u \in Udatas : ud[u].state = "stale" =>
        \E t \in Inside : entry[t] <= ud[u].boundary

DeliversEnabled ==
    \A k \in Slots : hits'[k] > hits[k] =>
        kn[k].live /\ "EV_DISABLE" \notin kn[k].flags

\* Events that were fetched or queued before EV_DELETE or EV_DISABLE are not
\* delivered after it.
DisabledSilent == [][DeliversEnabled]_vars

\* An EV_ONESHOT knote delivers once, an EV_DISPATCH knote once per EV_ENABLE,
\* although several threads may have fetched an event of it.
OncePerArming ==
    \A k \in Slots :
        kn[k].flags \cap {"EV_DISPATCH", "EV_ONESHOT"} # {} /\ kn[k].live
        /\ "EV_DISABLE" \notin kn[k].flags => hits[k] = 0

\* EVFILT_USER: triggers are pending exactly if the sub-port holds an event, and
\* then the sub-port is being watched or some thread has its event in hand.
TriggerNotLost ==
    kind = "user" /\ kn[1].live =>
        /\ (kn[1].ctr > 0) = (kn[1].sub > 0)
        /\ kn[1].ctr > 0 => assoc[1].ud = kn[1].ud \/ InHand(kn[1].ud)

\* A level-triggered knote that is enabled stays associated with the port, or a
\* thread that holds its event is about to associate it again.  Except after a
\* copyout dropped fetched events for lack of room.
LevelStaysArmed ==
    \A k \in Slots :
        kind \in {"read", "file"} /\ kn[k].live /\ kn[k].flags = {} /\ ~short
        /\ ~Gone(k) => assoc[k].ud = kn[k].ud \/ InHand(kn[k].ud)

\* A process exit is not forgotten: while knotes are on kf_ready the filter's
\* event is in the port or in a thread's hand.  Except after a copyout left
\* some there for lack of room, which leaves efd_raised set and no event.
ReadyHasEvent ==
    efd.ready # {} /\ ~short => efd.raised /\ (efd.sent > 0 \/ InHand(NoUdata))
=============================================================================
