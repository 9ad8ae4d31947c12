----------------------------- MODULE KeventCall -----------------------------
(***************************************************************************)
(* One call of kevent(): the changelist is applied by kevent_copyin(),     *)
(* which writes receipts and errors at the front of the eventlist; what is *)
(* left of the eventlist is filled from the kernel by kevent_wait and      *)
(* kevent_copyout; and the return value is computed.                       *)
(*                                                                         *)
(* A change is what kevent_copyin_one() makes of it: it succeeds, it       *)
(* answers with an entry of its own (rv 1, EVFILT_LIBKQUEUE), it fails     *)
(* with errno set, or it fails and leaves errno alone, as the kn_modify of *)
(* EVFILT_READ and EVFILT_WRITE do.                                        *)
(***************************************************************************)
EXTENDS Integers, Sequences

CONSTANTS
    MaxChanges,     \* longest changelist
    MaxEvents       \* longest eventlist

ASSUME BoundsAssumption == MaxChanges \in Nat /\ MaxEvents \in Nat

Change == [does : {"ok", "reply", "error", "silent"}, receipt : BOOLEAN]

\* errno: clear, left over from an earlier call, or set by what failed.
Errno == {"0", "old", "change", "EFAULT", "EINTR", "EBADF"}

\* An entry of the eventlist answers a change, or is an event (from = 0).
Entry == [from : 0 .. MaxChanges, data : Errno]

VARIABLES
    changelist, nevents,    \* the arguments
    cl_p,                   \* the change to process next
    eventlist,              \* the entries written so far
    errno,
    nready,                 \* what kevent_wait returned
    pc,
    ret                     \* the value returned

args == <<changelist, nevents>>
vars == <<args, cl_p, eventlist, errno, nready, pc, ret>>

Full == Len(eventlist) = nevents
Changes(n) == [1 .. n -> Change]

TypeOK ==
    /\ changelist \in UNION {Changes(n) : n \in 0 .. MaxChanges}
    /\ nevents \in 0 .. MaxEvents
    /\ cl_p \in 1 .. Len(changelist) + 1
    /\ Len(eventlist) <= nevents
    /\ \A k \in DOMAIN eventlist : eventlist[k] \in Entry
    /\ errno \in Errno
    /\ nready \in 0 .. MaxEvents
    /\ pc \in {"copyin", "wait", "copyout", "done"}
    /\ ret \in -1 .. MaxEvents

Init ==
    /\ changelist \in UNION {Changes(n) : n \in 0 .. MaxChanges}
    /\ nevents \in 0 .. MaxEvents
    /\ cl_p = 1
    /\ eventlist = <<>>
    /\ errno \in {"0", "old"}
    /\ nready = 0
    /\ pc = "copyin"
    /\ ret = 0

Return(n, e) ==
    /\ pc' = "done"
    /\ ret' = n
    /\ errno' = e

\* Writes one entry and goes on to the next change.
Put(e) ==
    /\ eventlist' = Append(eventlist, e)
    /\ cl_p' = cl_p + 1

(***************************************************************************)
(* kevent_copyin(): one change.                                            *)
(***************************************************************************)
\* The change was applied and asks for no entry.
CopyinOk ==
    /\ pc = "copyin"
    /\ cl_p <= Len(changelist)
    /\ changelist[cl_p].does = "ok" /\ ~changelist[cl_p].receipt
    /\ cl_p' = cl_p + 1
    /\ UNCHANGED <<args, eventlist, errno, nready, pc, ret>>

\* Faulty: a change that asks for a receipt is not given one.
CopyinReceiptSkipped ==
    /\ pc = "copyin"
    /\ cl_p <= Len(changelist)
    /\ changelist[cl_p].does = "reply" \/ (changelist[cl_p].does = "ok" /\ changelist[cl_p].receipt)
    /\ cl_p' = cl_p + 1
    /\ UNCHANGED <<args, eventlist, nready, errno, pc, ret>>

\* The change was applied and has an answer or a receipt: EFAULT without room.
CopyinReceipt ==
    /\ pc = "copyin"
    /\ cl_p <= Len(changelist)
    /\ changelist[cl_p].does = "reply" \/ (changelist[cl_p].does = "ok" /\ changelist[cl_p].receipt)
    /\ IF Full
         THEN Return(-1, "EFAULT") /\ UNCHANGED <<cl_p, eventlist>>
         ELSE Put([from |-> cl_p, data |-> "0"]) /\ UNCHANGED <<pc, ret, errno>>
    /\ UNCHANGED <<args, nready>>

Failed(does) == IF does = "error" THEN "change" ELSE errno

\* Faulty: the test for room comes after the entry is written.
CopyinErrorNoCheck ==
    /\ pc = "copyin"
    /\ cl_p <= Len(changelist)
    /\ changelist[cl_p].does \in {"error", "silent"}
    /\ Put([from |-> cl_p, data |-> Failed(changelist[cl_p].does)])
    /\ errno' = "0"
    /\ UNCHANGED <<args, nready, pc, ret>>

\* Faulty: an error that does not fit ends the changelist, not the call.
CopyinErrorStop ==
    /\ pc = "copyin"
    /\ cl_p <= Len(changelist)
    /\ changelist[cl_p].does \in {"error", "silent"}
    /\ IF Full
         THEN Return(Len(eventlist), errno) /\ UNCHANGED <<cl_p, eventlist>>
         ELSE /\ Put([from |-> cl_p, data |-> Failed(changelist[cl_p].does)])
              /\ errno' = "0"
              /\ UNCHANGED <<pc, ret>>
    /\ UNCHANGED <<args, nready>>

\* The change failed: its entry carries errno, which is then cleared.
CopyinError ==
    /\ pc = "copyin"
    /\ cl_p <= Len(changelist)
    /\ changelist[cl_p].does \in {"error", "silent"}
    /\ IF Full
         THEN Return(-1, Failed(changelist[cl_p].does)) /\ UNCHANGED <<cl_p, eventlist>>
         ELSE /\ Put([from |-> cl_p, data |-> Failed(changelist[cl_p].does)])
              /\ errno' = "0"
              /\ UNCHANGED <<pc, ret>>
    /\ UNCHANGED <<args, nready>>

\* The changelist is done: wait when the eventlist has room left.
CopyinDone ==
    /\ pc = "copyin"
    /\ cl_p = Len(changelist) + 1
    /\ IF Full THEN Return(Len(eventlist), errno)
               ELSE pc' = "wait" /\ UNCHANGED <<ret, errno>>
    /\ UNCHANGED <<args, cl_p, eventlist, nready>>

(***************************************************************************)
(* kevent_wait() and kevent_copyout().                                     *)
(***************************************************************************)
\* kevent_wait is given nevents, not the room that is left.
WaitReady(n) ==
    /\ pc = "wait"
    /\ n \in 1 .. nevents
    /\ nready' = n
    /\ pc' = "copyout"
    /\ UNCHANGED <<args, cl_p, eventlist, errno, ret>>

WaitTimeout ==
    /\ pc = "wait"
    /\ Return(0, errno)
    /\ UNCHANGED <<args, cl_p, eventlist, nready>>

\* A signal interrupts the wait.
WaitFailed ==
    /\ pc = "wait"
    /\ Return(-1, "EINTR")
    /\ UNCHANGED <<args, cl_p, eventlist, nready>>

\* A ready descriptor yields nothing (stale, spurious), one event or, when both
\* filters watch it, two; copyout stops when the eventlist is full.
Copyout(m) ==
    /\ pc = "copyout"
    /\ m <= 2 * nready /\ m <= nevents - Len(eventlist)
    /\ eventlist' = eventlist \o [k \in 1 .. m |-> [from |-> 0, data |-> "0"]]
    /\ Return(Len(eventlist'), errno)
    /\ UNCHANGED <<args, cl_p, nready>>

\* The kqueue was closed meanwhile.
CopyoutWake ==
    /\ pc = "copyout"
    /\ Return(-1, "EBADF")
    /\ UNCHANGED <<args, cl_p, eventlist, nready>>

Next ==
    \/ CopyinOk
    \/ CopyinReceipt
    \/ CopyinError
    \/ CopyinDone
    \/ \E n \in 1 .. MaxEvents : WaitReady(n)
    \/ WaitTimeout
    \/ WaitFailed
    \/ \E m \in 0 .. MaxEvents : Copyout(m)
    \/ CopyoutWake

Spec == Init /\ [][Next]_vars

-----------------------------------------------------------------------------
Fails(j) == changelist[j].does \in {"error", "silent"}
Answered(j) == Fails(j) \/ changelist[j].does = "reply" \/ changelist[j].receipt

\* The eventlist starts with one entry for every processed change that failed or
\* asked for an answer, in the order of the changelist, and goes on with events
\* only: the incremental writing of kevent_copyin() answers what a single pass
\* over the processed prefix of the changelist would.  The answer to a change is
\* written at or before the index of that change, so one array may serve as
\* changelist and eventlist.
EntriesInOrder ==
    LET answers == {k \in DOMAIN eventlist : eventlist[k].from # 0}
    IN  /\ {eventlist[k].from : k \in answers} = {j \in 1 .. cl_p - 1 : Answered(j)}
        /\ \A k \in answers : eventlist[k].from >= k
        /\ \A k \in answers, i \in DOMAIN eventlist :
             i < k => i \in answers /\ eventlist[i].from < eventlist[k].from

\* A call that does not return -1 has processed the whole changelist; and one
\* that returns a positive number says exactly how many entries it wrote.
ReturnMeansProcessed ==
    pc = "done" /\ ret >= 0 =>
        /\ cl_p = Len(changelist) + 1
        /\ ret > 0 => ret = Len(eventlist)

\* Every EV_RECEIPT that was written is covered by the return value.
ReceiptsReturned ==
    pc = "done" /\ ret >= 0 => ret = Len(eventlist)
=============================================================================
