------------------------------ MODULE FdState ------------------------------
(***************************************************************************)
(* EVFILT_READ and EVFILT_WRITE knotes of one socket in one Linux kqueue.  *)
(*                                                                         *)
(* epoll accepts one registration per descriptor, so the two filters share *)
(* a struct fd_state whose slots fds_read and fds_write point at their     *)
(* knotes, and epoll_update() translates every change of either knote into *)
(* an ADD, MOD or DEL of the shared registration.  Changes and copyout run *)
(* under the kqueue's mutex, so each is one step; epoll_wait() runs with   *)
(* the mutex dropped, so between Fetch and Copyout of a thread any other   *)
(* step may happen.                                                        *)
(*                                                                         *)
(* A filter stands for its bit as well: "read" for EPOLLIN, "write" for    *)
(* EPOLLOUT.  The udata that epoll hands back is represented by its        *)
(* ud_stale bit: it is set when the fd_state it points at is freed.        *)
(***************************************************************************)
EXTENDS Integers, FiniteSets

CONSTANTS
    Threads,    \* threads parked in, or returning from, epoll_wait()
    Adds,       \* the flag sets the program passes along with EV_ADD
    Rooms       \* free slots a thread may have left in its eventlist

Filters == {"read", "write"}
Flags == {"EV_DISABLE", "EV_DISPATCH", "EV_ONESHOT", "EV_CLEAR"}

\* kevent_copyin_one() refuses EV_DISPATCH with EV_ONESHOT (EINVAL).
ASSUME AddsAssumption ==
    \A fl \in Adds : fl \subseteq Flags /\ ~ {"EV_DISPATCH", "EV_ONESHOT"} \subseteq fl

ASSUME RoomsAssumption == Rooms \subseteq {1, 2}

NoKnote == {"none"}                 \* no knote of the filter in kf_index
NoReg == [ev |-> {}, et |-> FALSE, stale |-> FALSE]
NoEvent == [ev |-> {}, stale |-> FALSE]

VARIABLES
    kn,         \* flags of each filter's knote, or NoKnote
    slots,      \* the non-NULL slots of the fd_state; {}: there is none
    kern,       \* the descriptor's registration in kq's epoll: EPOLLIN/OUT
                \* bits, EPOLLET, and whether its udata is stale; or NoReg
    rdl,        \* the registration is on epoll's ready list
    sock,       \* "open", "closed", or "reused" by an unrelated open()
    cond,       \* the conditions (readable, writable) that hold now
    hup,        \* the peer reset the connection
    fresh,      \* conditions raised since the filter last delivered
    buf,        \* what each thread fetched with epoll_wait, or NoEvent
    out         \* the filters delivered to the program by the last step

vars == <<kn, slots, kern, rdl, sock, cond, hup, fresh, buf, out>>
world == <<sock, cond, hup>>

Knotes == {f \in Filters : kn[f] # NoKnote}
Enabled == {f \in Knotes : "EV_DISABLE" \notin kn[f]}

TypeOK ==
    /\ kn \in [Filters -> {NoKnote} \cup SUBSET Flags]
    /\ slots \subseteq Filters
    /\ kern \in [ev : SUBSET Filters, et : BOOLEAN, stale : BOOLEAN]
    /\ kern = NoReg => ~rdl
    /\ kern.et => kern.ev # {}
    /\ rdl \in BOOLEAN
    /\ sock \in {"open", "closed", "reused"}
    /\ cond \subseteq Filters
    /\ hup \in BOOLEAN
    /\ fresh \subseteq cond
    /\ buf \in [Threads -> [ev : SUBSET Filters, stale : BOOLEAN]]
    /\ out \subseteq Filters

Init ==
    /\ kn = [f \in Filters |-> NoKnote]
    /\ slots = {}
    /\ kern = NoReg
    /\ rdl = FALSE
    /\ sock = "open"
    /\ cond = {}
    /\ hup = FALSE
    /\ fresh = {}
    /\ buf = [t \in Threads |-> NoEvent]
    /\ out = {}

(***************************************************************************)
(* The state a change works on, threaded through the calls it makes.       *)
(***************************************************************************)
Current == [slots |-> slots, kern |-> kern, rdl |-> rdl, kn |-> kn, rv |-> 0]

\* The step ends in state s.  Freeing the fd_state sets ud_stale, which every
\* thread that fetched that udata will see.
Becomes(s, b) ==
    /\ slots' = s.slots
    /\ kern' = s.kern
    /\ rdl' = s.rdl
    /\ kn' = s.kn
    /\ buf' = [t \in Threads |->
                 IF s.slots = {} /\ b[t] # NoEvent THEN [b[t] EXCEPT !.stale = TRUE]
                                                   ELSE b[t]]

(***************************************************************************)
(* epoll_ctl(2).  ADD of a registered descriptor fails with EEXIST and of  *)
(* a closed one with EBADF; MOD and DEL of a descriptor that is closed, or *)
(* whose number now names another file, fail with EBADF or ENOENT.  ADD    *)
(* and MOD poll the descriptor and queue it when a condition holds.        *)
(***************************************************************************)
Accepts(s, opn) ==
    IF opn = "ADD" THEN sock # "closed" /\ s.kern = NoReg ELSE s.kern # NoReg

EpollCtl(s, opn, ev, et) ==
    IF opn = "DEL"
      THEN [s EXCEPT !.kern = NoReg, !.rdl = FALSE]
      ELSE [s EXCEPT !.kern = [ev |-> ev, et |-> et, stale |-> FALSE],
                     !.rdl = @ \/ hup \/ cond \cap ev # {}]

\* epoll_fd_state(): the slots whose knote is enabled.
FdStateEnabled(s) == {f \in s.slots : "EV_DISABLE" \notin s.kn[f]}

\* epoll_fd_state_mod(): put the knote in its slot, creating the fd_state.
FdStateMod(s, f) == [s EXCEPT !.slots = @ \cup {f}]

\* epoll_fd_state_del(): clear the slot; the last one frees the fd_state and
\* defers the free of its udata, which is stale from then on.
FdStateDel(s, f) ==
    [s EXCEPT !.slots = @ \ {f},
              !.kern.stale = @ \/ (s.slots = {f} /\ s.kern # NoReg)]

\* Faulty: a registration that is already gone leaves the fd_state alone.
EpollRejectedKeep(opn, s, f, want) ==
    IF opn = "ADD" THEN [FdStateDel(FdStateMod(s, f), f) EXCEPT !.rv = -1]
                   ELSE [s EXCEPT !.rv = -1]

\* epoll_update() when epoll_ctl fails.  EBADF and ENOENT of a MOD or DEL mean
\* that the registration is already gone: a knote that was to leave it does.
EpollRejected(opn, s, f, want) ==
    IF opn = "ADD" THEN [FdStateDel(FdStateMod(s, f), f) EXCEPT !.rv = -1]
    ELSE IF f \in s.slots \ want THEN FdStateDel(s, f)
    ELSE [s EXCEPT !.rv = -1]

\* Faulty: ADD asks for the caller's own bit, not for the union with the rest.
EpollWantOwn(op, have, f) == IF op = "ADD" THEN {f} ELSE have \ {f}

\* The EPOLLIN/EPOLLOUT bits the registration shall have.
EpollWant(op, have, f) == IF op = "ADD" THEN have \cup {f} ELSE have \ {f}

(***************************************************************************)
(* epoll_update(op, kn, ev, delete) for the knote of filter f.  The option *)
(* bit EPOLLET is in the new registration only when this call asks for it. *)
(***************************************************************************)
EpollUpdate(op, s, f, et, delete) ==
    LET have == FdStateEnabled(s)
        want == EpollWant(op, have, f)
        opn == IF have = {} THEN "ADD" ELSE IF want = {} THEN "DEL" ELSE "MOD"
        added == IF op = "ADD" THEN FdStateMod(s, f) ELSE s
        done == EpollCtl(added, opn, want, op = "ADD" /\ et)
    IN IF op = "DEL" /\ delete /\ f \in s.slots \ have THEN FdStateDel(s, f)
       ELSE IF have = want THEN s
       ELSE IF ~ Accepts(s, opn) THEN EpollRejected(opn, s, f, want)
       ELSE IF op = "DEL" /\ delete THEN FdStateDel(done, f)
       ELSE done

(***************************************************************************)
(* The filters' kn_enable, kn_disable and kn_delete on a socket.  The      *)
(* epoll_events computed when the knote was created are used again by      *)
(* kn_enable; kn_create ends in the same call.                             *)
(***************************************************************************)
KnEnable(s, f) == EpollUpdate("ADD", s, f, "EV_CLEAR" \in s.kn[f], FALSE)
KnDisable(s, f) == EpollUpdate("DEL", s, f, FALSE, FALSE)
KnDelete(s, f) == EpollUpdate("DEL", s, f, FALSE, TRUE)

\* kn_create: linux_get_descriptor_type() fails on a closed descriptor.
KnCreate(s, f) == IF sock = "closed" THEN [s EXCEPT !.rv = -1] ELSE KnEnable(s, f)

\* kn_modify on a socket accepts a change with EV_CLEAR, and changes no flag.
KnModify(fl) == "EV_CLEAR" \in fl

(***************************************************************************)
(* knote.c.                                                                *)
(***************************************************************************)
\* Faulty: the flag is set before the filter is told.
KnoteDisableFlagFirst(s, f) ==
    IF "EV_DISABLE" \in s.kn[f] THEN [s EXCEPT !.rv = 0]
    ELSE KnDisable([s EXCEPT !.kn[f] = @ \cup {"EV_DISABLE"}], f)

KnoteDisable(s, f) ==
    IF "EV_DISABLE" \in s.kn[f] THEN [s EXCEPT !.rv = 0]
    ELSE LET d == KnDisable(s, f)
         IN IF d.rv = 0 THEN [d EXCEPT !.kn[f] = @ \cup {"EV_DISABLE"}] ELSE d

KnoteEnable(s, f) ==
    IF "EV_DISABLE" \notin s.kn[f] THEN [s EXCEPT !.rv = 0]
    ELSE LET e == KnEnable(s, f)
         IN IF e.rv = 0 THEN [e EXCEPT !.kn[f] = @ \ {"EV_DISABLE"}] ELSE e

\* The knote is released whatever kn_delete returns.
KnoteDelete(s, f) ==
    [KnDelete(s, f) EXCEPT !.kn[f] = NoKnote]

\* Faulty: deletes first, and then disables the knote that is gone.
KnoteCopyoutFlagActionsSwapped(s, f) ==
    LET d == IF "EV_ONESHOT" \in s.kn[f] THEN KnoteDelete(s, f) ELSE s
    IN IF "EV_DISPATCH" \in s.kn[f] THEN KnoteDisable(d, f) ELSE d

\* knote_copyout_flag_actions()
KnoteCopyoutFlagActions(s, f) ==
    LET d == IF "EV_DISPATCH" \in s.kn[f] THEN KnoteDisable(s, f) ELSE s
    IN IF "EV_ONESHOT" \in s.kn[f] THEN KnoteDelete(d, f) ELSE d

(***************************************************************************)
(* kevent_copyin_one(), one action per branch.                             *)
(***************************************************************************)
\* EV_ADD of a new knote: a failed kn_create releases it.  With EV_DISABLE the
\* flag is set already when kn_create and then kn_disable run.
Create(f, fl) ==
    /\ kn[f] = NoKnote
    /\ LET c == KnCreate([Current EXCEPT !.kn[f] = fl], f)
       IN Becomes(IF c.rv # 0 THEN [c EXCEPT !.kn[f] = NoKnote]
                  ELSE IF "EV_DISABLE" \in fl THEN KnDisable(c, f)
                  ELSE c, buf)
    /\ out' = {}
    /\ UNCHANGED <<world, fresh>>

\* EV_ADD of an existing knote: if kn_modify accepts it, EV_DISPATCH is declared
\* anew.
Modify(f, fl) ==
    /\ f \in Knotes
    /\ "EV_DISABLE" \notin fl
    /\ KnModify(fl)
    /\ Becomes([Current EXCEPT !.kn[f] = (@ \ {"EV_DISPATCH"}) \cup (fl \cap {"EV_DISPATCH"})], buf)
    /\ out' = {}
    /\ UNCHANGED <<world, fresh>>

Delete(f) ==
    /\ f \in Knotes
    /\ Becomes(KnoteDelete(Current, f), buf)
    /\ out' = {}
    /\ UNCHANGED <<world, fresh>>

Disable(f) ==
    /\ f \in Knotes
    /\ Becomes(KnoteDisable(Current, f), buf)
    /\ out' = {}
    /\ UNCHANGED <<world, fresh>>

Enable(f) ==
    /\ f \in Knotes
    /\ Becomes(KnoteEnable(Current, f), buf)
    /\ out' = {}
    /\ UNCHANGED <<world, fresh>>

(***************************************************************************)
(* linux_kevent_wait() and linux_kevent_copyout() of thread t.             *)
(***************************************************************************)
\* epoll_wait(2): a hangup is reported whatever bits were asked for, and both
\* filters take it as theirs.  Edge-triggered registrations leave the list.
Fetch(t) ==
    LET ev == IF hup THEN Filters ELSE cond \cap kern.ev
    IN /\ rdl
       /\ buf[t] = NoEvent
       /\ buf' = [buf EXCEPT ![t] = IF ev = {} THEN NoEvent
                                    ELSE [ev |-> ev, stale |-> kern.stale]]
       /\ rdl' = (ev # {} /\ ~kern.et)
       /\ out' = {}
       /\ UNCHANGED <<kn, slots, kern, world, fresh>>

\* Faulty: only the knote of the first slot is looked at.
DeliveredFirst(t, room) ==
    IF "read" \in slots THEN buf[t].ev \cap {"read"} ELSE buf[t].ev \cap slots

\* The filters that an event is for, as far as the eventlist has room.
Delivered(t, room) ==
    LET due == buf[t].ev \cap slots
    IN IF buf[t].stale THEN {}
       ELSE IF room = 1 /\ "read" \in due THEN {"read"}
       ELSE due

Copyout(t, room) ==
    /\ buf[t] # NoEvent
    /\ LET d == Delivered(t, room)
           r == IF "read" \in d THEN KnoteCopyoutFlagActions(Current, "read") ELSE Current
           w == IF "write" \in d THEN KnoteCopyoutFlagActions(r, "write") ELSE r
       IN /\ Becomes(w, [buf EXCEPT ![t] = NoEvent])
          /\ out' = d
          /\ fresh' = fresh \ d
    /\ UNCHANGED world

(***************************************************************************)
(* The socket.                                                             *)
(***************************************************************************)
\* Data or buffer space arrives.
Arrive(f) ==
    /\ sock # "closed"
    /\ cond' = cond \cup {f}
    /\ fresh' = fresh \cup {f}
    /\ rdl' = (rdl \/ f \in kern.ev)
    /\ out' = {}
    /\ UNCHANGED <<kn, slots, kern, sock, hup, buf>>

\* The program reads or writes until EAGAIN.
Consume(f) ==
    /\ ~hup
    /\ f \in cond
    /\ cond' = cond \ {f}
    /\ fresh' = fresh \ {f}
    /\ out' = {}
    /\ UNCHANGED <<kn, slots, kern, rdl, sock, hup, buf>>

\* The peer resets the connection: EPOLLIN, EPOLLOUT, EPOLLERR and EPOLLHUP.
HangUp ==
    /\ sock # "closed"
    /\ ~hup
    /\ hup' = TRUE
    /\ cond' = Filters
    /\ fresh' = Filters
    /\ rdl' = (kern # NoReg)
    /\ out' = {}
    /\ UNCHANGED <<kn, slots, kern, sock, buf>>

\* close(2) of the watched descriptor: epoll drops it, the knotes stay.
CloseFd ==
    /\ sock # "closed"
    /\ sock' = "closed"
    /\ kern' = NoReg
    /\ rdl' = FALSE
    /\ cond' = {}
    /\ hup' = FALSE
    /\ fresh' = {}
    /\ out' = {}
    /\ UNCHANGED <<kn, slots, buf>>

\* The number is given to another socket.
ReopenFd ==
    /\ sock = "closed"
    /\ sock' = IF Knotes = {} THEN "open" ELSE "reused"
    /\ out' = {}
    /\ UNCHANGED <<kn, slots, kern, rdl, cond, hup, fresh, buf>>

Change(f) ==
    \/ \E fl \in Adds : Create(f, fl) \/ Modify(f, fl)
    \/ Delete(f)
    \/ Disable(f)
    \/ Enable(f)

Next ==
    \/ \E f \in Filters : Change(f) \/ Arrive(f) \/ Consume(f)
    \/ \E t \in Threads : Fetch(t) \/ \E room \in Rooms : Copyout(t, room)
    \/ HangUp
    \/ CloseFd
    \/ ReopenFd

Spec == Init /\ [][Next]_vars

-----------------------------------------------------------------------------
(***************************************************************************)
(* Properties.                                                             *)
(***************************************************************************)

\* A slot of the fd_state is a raw pointer to a knote: it never outlives the
\* knote, although knote_delete() releases the knote even when kn_delete()
\* fails, and although the descriptor may have been closed or reused in between.
\* This is what the assertions of epoll_fd_state_mod() rely on.
SlotsHaveKnotes == slots \subseteq Knotes

\* The udata epoll would hand to the next epoll_wait() belongs to an fd_state
\* that exists: epoll_fd_state_del() never frees it under a live registration.
RegisteredUdataLive == kern # NoReg => slots # {} /\ ~kern.stale

\* As long as the socket has stayed open, the kernel watches exactly the bits of
\* the enabled knotes, through every order of EV_ADD, EV_DELETE, EV_ENABLE,
\* EV_DISABLE, EV_DISPATCH and EV_ONESHOT on the two filters.
RegistrationExact == sock = "open" => kern.ev = Enabled

\* A condition raised since the filter last delivered is never forgotten while
\* the knote is enabled: the registration is on epoll's ready list, or a thread
\* holds a fetched event that will deliver it.
NothingLost ==
    sock = "open" =>
        \A f \in fresh \cap Enabled :
            rdl \/ \E t \in Threads : f \in buf[t].ev /\ ~buf[t].stale

\* kevent() does not return the event of a disabled knote.
DisabledNotDelivered == [][out' \subseteq Enabled]_vars
=============================================================================
