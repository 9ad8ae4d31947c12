--------------------------- MODULE CompletionPort ---------------------------
(***************************************************************************)
(* The Windows backend: one kqueue, the knotes of one ident, and the I/O   *)
(* completion port on which every event reaches kevent().                  *)
(*                                                                         *)
(* A packet carries a raw pointer to a struct knote, and nothing can take  *)
(* it out of the port again: EV_DELETE and EV_DISABLE leave it queued.  So *)
(* every packet owns a reference, and kf_copyout() throws away what is no  *)
(* longer wanted.  Thread-pool callbacks post packets without any lock;    *)
(* UnregisterWaitEx() waits for a running callback, which makes a callback *)
(* one step.  Changes hold the kqueue's mutex.  GetQueuedCompletionStatus  *)
(* runs without it when called by kevent_wait(), and with it when called   *)
(* again by kevent_copyout() to drain the port.                            *)
(*                                                                         *)
(* kind is the filter and flavour of the ident; it never changes.  One     *)
(* knote at a time is in kf_index (cur); deleted ones live on in packets.  *)
(***************************************************************************)
EXTENDS Integers, Sequences, FiniteSets

CONSTANTS
    Threads,        \* threads that call kevent() to wait
    NoThread,       \* the mutex is free
    Knotes,         \* memory for struct knotes
    Nil,            \* no knote: in kf_index, in a thread's hand
    Adds,           \* the flag sets passed along with EV_ADD
    MaxRoom,        \* largest eventlist
    MaxCount,       \* bound on bytes, versions and uncollected fires
    MaxPackets,     \* bound on the packets in the port
    MaxCalls,       \* bound on the calls of kevent() the program makes
    MaxEvents       \* bound on what happens to the source

Kinds == {"user", "timer", "proc", "signal", "vnode", "file", "pipe", "socket",
          "wfile", "wsocket"}

VARIABLES
    kind,       \* the kind of source, one of Kinds
    kn,         \* the struct knotes
    cur,        \* the knote in kf_index, or Nil
    iocp,       \* kq_iocp: knotes, "close" (close detection), "wake" (interrupt)
    data,       \* bytes in the source, or of "wsocket" in the send buffer; of a
                \* vnode, the version of the file
    hup,        \* the peer closed, the process exited, the file was removed
    rec,        \* what the kernel has recorded and no callback has collected
    pc,         \* where each thread is in kevent()
    got,        \* the packet a thread took from the port in kevent_wait()
    forever,    \* the thread waits without a timeout
    mtx,        \* holder of the kqueue's mutex across steps
    room,       \* nevents of the copyout in progress
    events,     \* what the copyout in progress has written to the eventlist
    stamped,    \* knotes whose kn_dispatch_seq is that of this copyout
    ncalls,     \* calls of kevent() made so far
    nevents,    \* events of the source so far
    kq          \* "open"; then "shut" by the program, "closed" once the close
                \* was noticed, "freeing", "freed"; or "aborted"

vars == <<kind, kn, cur, iocp, data, hup, rec, pc, got, forever, mtx, room,
          events, stamped, ncalls, nevents, kq>>
source == <<kind, data, hup, nevents>>
waiting == <<pc, got, forever, mtx, room, events, stamped>>
calls == <<waiting, ncalls, kq>>

Free == [ref |-> 0, deleted |-> FALSE, flags |-> {}, handle |-> FALSE,
         req |-> "none", trigger |-> FALSE, fires |-> 0, synthetic |-> FALSE,
         last |-> 0, eof |-> FALSE, stray |-> FALSE, was |-> FALSE]

\* kn_handle and kn_event_whandle are handle; req is the state of pipe_ov, or of
\* the waitable timer or process handle ("pending": it can still be signalled);
\* last is last_data, or the version a vnode_state remembers.  stray: a wait is
\* registered whose handle has been overwritten, so nobody will unregister it.
\* was is history: the knote has been disabled, by EV_DISABLE or EV_DISPATCH.
KnoteType ==
    [ref : 0..20, deleted : BOOLEAN,
     flags : SUBSET {"EV_CLEAR", "EV_DISPATCH", "EV_ONESHOT", "EV_DISABLE"},
     handle : BOOLEAN, req : {"none", "pending", "data", "broken", "aborted"},
     trigger : BOOLEAN, fires : 0..MaxCount, synthetic : BOOLEAN,
     last : 0..MaxCount, eof : BOOLEAN, stray : BOOLEAN, was : BOOLEAN]

TypeOK ==
    /\ kind \in Kinds
    /\ \A o \in Knotes : kn[o] \in KnoteType /\ (kn[o].ref = 0 => kn[o] = Free)
    /\ cur \in Knotes \cup {Nil}
    /\ iocp \in Seq(Knotes \cup {"close", "wake"})
    /\ data \in 0..MaxCount
    /\ hup \in BOOLEAN
    /\ rec \subseteq {"read", "close", "write", "changed", "set", "exit"}
    /\ pc \in [Threads -> {"out", "parked", "got", "drain", "leaving", "return"}]
    /\ got \in [Threads -> Knotes \cup {"close", "wake", Nil}]
    /\ forever \in [Threads -> BOOLEAN]
    /\ \A t \in Threads : (mtx = t) = (pc[t] \in {"drain", "return"})
    /\ Len(events) <= room /\ room \in 0..MaxRoom
    /\ (mtx = NoThread) => events = <<>> /\ stamped = {} /\ room = 0
    /\ ncalls \in 0..MaxCalls /\ nevents \in 0..MaxEvents
    /\ kq \in {"open", "shut", "closed", "freeing", "freed", "aborted"}

\* c calls of kevent() and e events may follow.
Init(k, c, e) ==
    /\ kind = k
    /\ kn = [o \in Knotes |-> Free]
    /\ cur = Nil
    /\ iocp = <<>>
    /\ data = 0
    /\ hup = FALSE
    /\ rec = {}
    /\ pc = [t \in Threads |-> "out"]
    /\ got = [t \in Threads |-> Nil]
    /\ forever = [t \in Threads |-> FALSE]
    /\ mtx = NoThread
    /\ room = 0
    /\ events = <<>>
    /\ stamped = {}
    /\ ncalls = MaxCalls - c
    /\ nevents = MaxEvents - e
    /\ kq = "open"

Running == kq \notin {"freed", "aborted"}
Unlocked == Running /\ mtx = NoThread

\* The program calls kevent() on the open kqueue and gets its mutex.
Call == Unlocked /\ kq = "open" /\ ncalls < MaxCalls /\ ncalls' = ncalls + 1

\* Something happens to the source; of interest until the kqueue is closed.
Event == kq = "open" /\ nevents < MaxEvents /\ nevents' = nevents + 1

(***************************************************************************)
(* A step works on one knote: w.k is its memory, w.post how many packets   *)
(* for it the step adds to the port, w.rv what the call at hand returned,   *)
(* w.out whether the copyout wrote an event.                               *)
(***************************************************************************)
Work(k) == [k |-> k, post |-> 0, rv |-> 0, out |-> FALSE]
Has(w, flag) == flag \in w.k.flags
EdgeTriggered(w) == w.k.flags \cap {"EV_CLEAR", "EV_DISPATCH"} # {}

KnoteRetain(w) == [w EXCEPT !.k.ref = @ + 1]
KnoteRelease(w) == [w EXCEPT !.k.ref = @ - 1]
Requeue(w) == [w EXCEPT !.post = @ + 1]

\* Faulty: the packet does not own a reference.
PostBorrowed(w) == Requeue(w)

\* knote_retain() and PostQueuedCompletionStatus().
Post(w) == Requeue(KnoteRetain(w))

\* The memory and the port after the step; the last reference frees a knote
\* that is marked KNFL_KNOTE_DELETED.
Becomes(o, w, index, port) ==
    /\ kn' = [kn EXCEPT ![o] = IF w.k.ref = 0 /\ w.k.deleted THEN Free ELSE w.k]
    /\ cur' = IF w.k.deleted /\ index = o THEN Nil ELSE index
    /\ iocp' = port \o [i \in 1..w.post |-> o]
    /\ Len(iocp') <= MaxPackets

(***************************************************************************)
(* kn_create() of each filter.  A callback that finds nothing recorded is  *)
(* not run, so registering the wait is setting handle.                     *)
(***************************************************************************)
Registered(w) == [w EXCEPT !.k.stray = @ \/ w.k.handle, !.k.handle = TRUE,
                           !.k.req = "pending"]

CreateUser(w) == w

CreateTimer(w) ==
    KnoteRetain([Registered(w) EXCEPT !.k.flags = @ \cup {"EV_CLEAR"}])

CreateProc(w) ==
    [Registered(w) EXCEPT !.k.flags = @ \cup {"EV_ONESHOT", "EV_CLEAR"}]

CreateSignal(w) == [w EXCEPT !.k.handle = TRUE, !.k.fires = 0]

CreateVnode(w) == [Registered(w) EXCEPT !.k.last = data]

CreateFile(w) == Post([w EXCEPT !.k.synthetic = TRUE])

\* The zero-byte ReadFile pends; on a broken and empty pipe it fails at once.
CreatePipe(w) ==
    IF hup /\ data = 0 THEN [w EXCEPT !.k.handle = TRUE, !.rv = -1]
    ELSE KnoteRetain([w EXCEPT !.k.handle = TRUE, !.k.req = "pending"])

\* Whatever WSAEnumNetworkEvents still has recorded is reported by a packet;
\* again: it has FD_CLOSE, which Windows may or may not record once more.
CreateSocket(w, again) ==
    LET armed == [w EXCEPT !.k.handle = TRUE, !.k.last = 0, !.k.eof = @ \/ again]
    IN  IF again \/ data > 0 THEN Post(armed) ELSE armed

CreateWrite(w) ==
    IF kind = "wfile" THEN Post([w EXCEPT !.k.synthetic = TRUE])
    ELSE IF data < MaxCount THEN Post([w EXCEPT !.k.handle = TRUE])
    ELSE [w EXCEPT !.k.handle = TRUE]

KnCreate(w, again) ==
    CASE kind = "user" -> CreateUser(w)
      [] kind = "timer" -> CreateTimer(w)
      [] kind = "proc" -> CreateProc(w)
      [] kind = "signal" -> CreateSignal(w)
      [] kind = "vnode" -> CreateVnode(w)
      [] kind = "file" -> CreateFile(w)
      [] kind = "pipe" -> CreatePipe(w)
      [] kind = "socket" -> CreateSocket(w, again)
      [] kind \in {"wfile", "wsocket"} -> CreateWrite(w)

\* What the kernel may have recorded when kn_create() is done: a process stays
\* signalled; FD_READ may come in just before or after the record is cleared.
RecordedAtCreate ==
    CASE kind = "proc" /\ hup -> {{"exit"}}
      [] kind = "socket" /\ data > 0 -> {{}, {"read"}}
      [] OTHER -> {{}}

(***************************************************************************)
(* kn_delete() of each filter, which is its kn_disable() as well.          *)
(***************************************************************************)
Closed(w) == [w EXCEPT !.k.handle = FALSE, !.k.req = "none"]

\* Faulty: the reference of the registered wait is dropped for every timer.
DeleteTimerAlways(w) == IF w.k.handle THEN KnoteRelease(Closed(w)) ELSE w

\* ktimer_delete(): a one-shot timer's wait gives up its own reference when it
\* fires, so it is not dropped here.
DeleteTimer(w) ==
    IF ~w.k.handle THEN w
    ELSE IF Has(w, "EV_ONESHOT") THEN Closed(w) ELSE KnoteRelease(Closed(w))

DeleteFile(w) == [w EXCEPT !.k.synthetic = FALSE]

\* CancelIoEx: the pending read completes, with its reference, in the port.
DeletePipe(w) ==
    IF w.k.handle /\ w.k.req = "pending"
      THEN Requeue([w EXCEPT !.k.handle = FALSE, !.k.req = "aborted"])
      ELSE [w EXCEPT !.k.handle = FALSE]

\* The other waits own no reference; a file or pipe has none to write to.
DeleteProc(w) == Closed(w)
DeleteSignal(w) == Closed(w)
DeleteVnode(w) == Closed(w)
DeleteSocket(w) == Closed(w)
DeleteWrite(w) == IF w.k.handle THEN Closed(w) ELSE w

KnDelete(w) ==
    CASE kind = "user" -> w
      [] kind = "timer" -> DeleteTimer(w)
      [] kind = "proc" -> DeleteProc(w)
      [] kind = "signal" -> DeleteSignal(w)
      [] kind = "vnode" -> DeleteVnode(w)
      [] kind = "file" -> DeleteFile(w)
      [] kind = "pipe" -> DeletePipe(w)
      [] kind = "socket" -> DeleteSocket(w)
      [] kind \in {"wfile", "wsocket"} -> DeleteWrite(w)

KnoteDelete(w) ==
    IF w.k.deleted THEN [w EXCEPT !.rv = -1]
    ELSE KnoteRelease([KnDelete(w) EXCEPT !.k.deleted = TRUE])

KnoteDisable(w) ==
    IF Has(w, "EV_DISABLE") THEN w
    ELSE [KnDelete(w) EXCEPT !.k.flags = @ \cup {"EV_DISABLE"}, !.k.was = TRUE]

KnoteCopyoutFlagActions(w) ==
    LET d == IF Has(w, "EV_DISPATCH") THEN KnoteDisable(w) ELSE w
    IN  IF Has(d, "EV_ONESHOT") THEN KnoteDelete(d) ELSE d

(***************************************************************************)
(* kf_copyout() of each filter.                                            *)
(***************************************************************************)
Unwanted(w) == w.k.deleted \/ Has(w, "EV_DISABLE")
Drop(w) == KnoteRelease(w)
Deliver(w) == [KnoteRelease(KnoteCopyoutFlagActions(w)) EXCEPT !.out = TRUE]

CopyoutUser(w) ==
    IF Unwanted(w) THEN Drop(w)
    ELSE Deliver([w EXCEPT !.k.trigger = @ /\ ~EdgeTriggered(w)])

\* Faulty: the fire counter is read and not reset.
CopyoutTimerKeepsCount(w) == IF Unwanted(w) THEN Drop(w) ELSE Deliver(w)

\* Faulty: a packet for a disabled timer is delivered.
CopyoutTimerDisabled(w) ==
    IF w.k.deleted THEN Drop(w) ELSE Deliver([w EXCEPT !.k.fires = 0])

\* Faulty: a packet for a deleted timer is not recognised.
CopyoutTimerDeleted(w) ==
    IF Has(w, "EV_DISABLE") THEN Drop(w) ELSE Deliver([w EXCEPT !.k.fires = 0])

CopyoutTimer(w) ==
    IF Unwanted(w) THEN Drop(w) ELSE Deliver([w EXCEPT !.k.fires = 0])

CopyoutProc(w) == Deliver(w)

CopyoutSignal(w) ==
    LET drained == [w EXCEPT !.k.fires = 0]
    IN  IF w.k.deleted \/ w.k.fires = 0 THEN Drop(drained) ELSE Deliver(drained)

CopyoutVnode(w) ==
    IF Unwanted(w) \/ (w.k.last = data /\ ~hup) THEN Drop(w)
    ELSE IF hup THEN Deliver(w) ELSE Deliver([w EXCEPT !.k.last = data])

\* A writer to a file or pipe is ready for ever: its packet goes round.
CopyoutWrite(w) ==
    LET a == [KnoteCopyoutFlagActions(w) EXCEPT !.out = TRUE]
    IN  IF Unwanted(w) THEN Drop(w)
        ELSE IF ~w.k.synthetic \/ a.k.deleted THEN KnoteRelease(a) ELSE Requeue(a)

\* A reader of a file at its end stops without giving up the packet's reference.
CopyoutFile(w) ==
    LET a == [KnoteCopyoutFlagActions(w) EXCEPT !.out = TRUE]
    IN  IF data = 0 THEN [w EXCEPT !.k.synthetic = FALSE]
        ELSE IF ~w.k.synthetic \/ a.k.deleted THEN KnoteRelease(a) ELSE Requeue(a)

\* Faulty: a completed read of no bytes is taken for the end of the pipe.
EofOfZeroBytes(w) == w.k.req # "aborted"

\* GetOverlappedResult() of the packet's read says the pipe is broken, or fails
\* with something other than ERROR_OPERATION_ABORTED (the read still pends).
EofOfResult(w) == w.k.req \in {"broken", "pending"}

\* The end of the pipe is latched and its packet goes round; otherwise the next
\* zero-byte read takes over the reference, or fails at once: without a handle,
\* or on a broken and empty pipe.
CopyoutPipe(w) ==
    LET f == [w EXCEPT !.k.eof = @ \/ EofOfResult(w)]
        a == [KnoteCopyoutFlagActions(f) EXCEPT !.out = TRUE]
    IN  IF ~w.k.eof /\ w.k.req = "aborted" THEN Drop(w)
        ELSE IF a.k.deleted THEN KnoteRelease(a)
        ELSE IF a.k.eof THEN Requeue(a)
        ELSE IF ~a.k.handle \/ (hup /\ data = 0)
          THEN Requeue([a EXCEPT !.k.eof = TRUE, !.k.req = "none"])
        ELSE [a EXCEPT !.k.req = "pending"]

CopyoutSocket(w) ==
    LET f == IF EdgeTriggered(w) THEN [w EXCEPT !.k.last = data] ELSE w
        a == [KnoteCopyoutFlagActions(f) EXCEPT !.out = TRUE]
    IN  IF w.k.eof /\ ~EdgeTriggered(w) /\ ~a.k.deleted
          THEN Requeue(a) ELSE KnoteRelease(a)

CopyoutRead(w) ==
    IF Unwanted(w) THEN Drop(w)
    ELSE CASE kind = "file" -> CopyoutFile(w)
           [] kind = "pipe" -> CopyoutPipe(w)
           [] kind = "socket" -> CopyoutSocket(w)

KfCopyout(w) ==
    CASE kind = "user" -> CopyoutUser(w)
      [] kind = "timer" -> CopyoutTimer(w)
      [] kind = "proc" -> CopyoutProc(w)
      [] kind = "signal" -> CopyoutSignal(w)
      [] kind = "vnode" -> CopyoutVnode(w)
      [] kind \in {"file", "pipe", "socket"} -> CopyoutRead(w)
      [] kind \in {"wfile", "wsocket"} -> CopyoutWrite(w)

(***************************************************************************)
(* Changes: kevent_copyin_one() under the mutex.                           *)
(***************************************************************************)
Applied(o, w, records) ==
    /\ Becomes(o, w, cur, iocp)
    /\ rec' \in records
    /\ UNCHANGED <<source, waiting, kq>>

MayRecordAgain == {FALSE} \cup {hup}

\* EV_ADD of a new knote, with EV_DISABLE or without.  A knote that cannot be
\* created is released at once, which leaves the memory as it was.
Add(o) ==
    /\ Call /\ cur = Nil /\ kn[o] = Free
    /\ \E f \in Adds, again \in MayRecordAgain, disable \in BOOLEAN :
         LET c == KnCreate(Work([Free EXCEPT !.ref = 1, !.flags = f]), again)
             w == IF disable THEN KnoteDisable(c) ELSE c
         IN  /\ c.rv = 0
             /\ Becomes(o, w, o, iocp)
             /\ rec' \in RecordedAtCreate
    /\ UNCHANGED <<source, waiting, kq>>

\* kn_modify() of each filter: most tear the wait down and create it again,
\* whether the knote is disabled or not.  A pipe keeps its pending read, a signal
\* its event; a process is only watched if it was not.
ModifyTimer(w) == CreateTimer(DeleteTimer(w))
ModifyProc(w) == IF w.k.handle THEN w ELSE CreateProc(w)
ModifySignal(w) == w
ModifyVnode(w) == CreateVnode(DeleteVnode(w))
ModifyRead(w, again) == IF kind = "pipe" THEN w ELSE KnCreate(KnDelete(w), again)
ModifyWrite(w) == CreateWrite(DeleteWrite(w))

KnModify(w, again) ==
    CASE kind = "timer" -> ModifyTimer(w)
      [] kind = "proc" -> ModifyProc(w)
      [] kind = "signal" -> ModifySignal(w)
      [] kind = "vnode" -> ModifyVnode(w)
      [] kind \in {"file", "pipe", "socket"} -> ModifyRead(w, again)
      [] kind \in {"wfile", "wsocket"} -> ModifyWrite(w)

\* EV_ADD of a knote that is there.  EV_DISPATCH follows the new EV_ADD.
Modify(o) ==
    /\ Call /\ cur = o /\ kind # "user"
    /\ \E f \in Adds, again \in MayRecordAgain :
         LET d == {"EV_DISPATCH"}
             same == kind \in {"pipe", "signal"} \/ (kind = "proc" /\ kn[o].handle)
             c == KnModify(Work(kn[o]), again)
         IN  Applied(o, [c EXCEPT !.k.flags = (@ \ d) \cup (f \cap d)],
                     IF same THEN {rec} ELSE RecordedAtCreate)

\* EVFILT_USER: NOTE_FFCOPY or NOTE_FFAND clears a NOTE_TRIGGER still pending
\* (clears); a trigger posts a packet if none was pending, and is ignored
\* while the knote is disabled.
Trigger(o) ==
    /\ Call /\ cur = o /\ kind = "user"
    /\ \E clears \in BOOLEAN :
         LET w == Work([kn[o] EXCEPT !.trigger = @ /\ ~clears])
         IN  Applied(o, IF Has(w, "EV_DISABLE") THEN w
                        ELSE IF w.k.trigger THEN w
                        ELSE Post([w EXCEPT !.k.trigger = TRUE]), {rec})

Delete(o) ==
    /\ Call /\ cur = o
    /\ Applied(o, KnoteDelete(Work(kn[o])), {{}})

Disable(o) ==
    /\ Call /\ cur = o /\ "EV_DISABLE" \notin kn[o].flags
    /\ Applied(o, KnoteDisable(Work(kn[o])), {{}})

\* A pipe that can no longer be read fails kn_enable() and stays disabled.
Enable(o) ==
    /\ Call /\ cur = o /\ "EV_DISABLE" \in kn[o].flags
    /\ \E again \in MayRecordAgain :
         LET c == KnCreate(Work(kn[o]), again)
         IN  Applied(o, IF c.rv = 0 THEN [c EXCEPT !.k.flags = @ \ {"EV_DISABLE"}]
                        ELSE c, RecordedAtCreate)

(***************************************************************************)
(* What the kernel does: the source changes, a callback runs in the thread *)
(* pool, an overlapped read completes.                                     *)
(***************************************************************************)
Watched == cur # Nil /\ kn[cur].handle
Record(what) == rec' = IF Watched THEN rec \cup {what} ELSE rec

\* Data comes in; of "wsocket", the program fills the send buffer.
Arrive ==
    /\ Event /\ kind \in {"file", "pipe", "socket", "vnode", "wsocket"} /\ ~hup
    /\ data < MaxCount
    /\ data' = data + 1
    /\ CASE kind = "socket" -> Record("read")
         [] kind = "vnode" -> Record("changed")
         [] OTHER -> rec' = rec
    /\ UNCHANGED <<kind, hup, kn, cur, iocp, calls>>

\* The program reads, or the peer does.  Winsock records FD_READ again while
\* bytes are left, and FD_WRITE when a send buffer that was full has room.
Consume ==
    /\ Event /\ kind \in {"file", "pipe", "socket", "wsocket"} /\ data > 0
    /\ data' = data - 1
    /\ CASE kind = "socket" /\ data > 1 -> Record("read")
         [] kind = "wsocket" /\ data = MaxCount -> Record("write")
         [] OTHER -> rec' = rec
    /\ UNCHANGED <<kind, hup, kn, cur, iocp, calls>>

Hangup ==
    /\ Event /\ kind \in {"pipe", "socket", "proc", "vnode"} /\ ~hup
    /\ hup' = TRUE
    /\ CASE kind = "socket" -> Record("close")
         [] kind = "proc" -> Record("exit")
         [] kind = "vnode" -> Record("changed")
         [] OTHER -> rec' = rec
    /\ UNCHANGED <<kind, data, kn, cur, iocp, calls>>

\* Another file of the directory changes; kq_kill() finds the named event, which
\* exists only while someone watches, and sets it.
Noise ==
    /\ Event /\ kind \in {"vnode", "signal"} /\ Watched
    /\ Record(IF kind = "vnode" THEN "changed" ELSE "set")
    /\ UNCHANGED <<kind, data, hup, kn, cur, iocp, calls>>

CallbackTimer(w) ==
    LET f == [w EXCEPT !.k.fires = @ + 1,
                       !.k.req = IF Has(w, "EV_ONESHOT") THEN "none" ELSE @]
        p == Post(f)
    IN  IF w.k.fires > 0 THEN f
        ELSE IF Has(w, "EV_ONESHOT") THEN KnoteRelease(p) ELSE p

CallbackProc(w) == Post([w EXCEPT !.k.req = "none"])
CallbackSignal(w) == Post([w EXCEPT !.k.fires = @ + 1])
CallbackVnode(w) == Post(w)

\* Edge suppression: only FD_CLOSE, or more bytes than were last reported.
CallbackRead(w) ==
    LET f == [w EXCEPT !.k.eof = @ \/ "close" \in rec]
    IN  IF EdgeTriggered(w) /\ "close" \notin rec /\ data <= w.k.last
          THEN [f EXCEPT !.k.last = data]
          ELSE Post(f)

CallbackWrite(w) == Post(w)

\* A callback that finds its knote deleted does nothing.  Of two waits on one
\* knote, one overwritten, either may be the one that runs.
Callback(o) ==
    /\ Running /\ kn[o].ref > 0 /\ ~kn[o].deleted /\ (kn[o].handle \/ kn[o].stray)
    /\ IF kind = "timer" THEN kn[o].req = "pending" ELSE rec # {}
    /\ kn[o].fires < MaxCount
    /\ LET w == Work(kn[o])
       IN  Becomes(o, CASE kind = "timer" -> CallbackTimer(w)
                        [] kind = "proc" -> CallbackProc(w)
                        [] kind = "signal" -> CallbackSignal(w)
                        [] kind = "vnode" -> CallbackVnode(w)
                        [] kind = "socket" -> CallbackRead(w)
                        [] kind = "wsocket" -> CallbackWrite(w),
                   cur, iocp)
    /\ rec' = {}
    /\ UNCHANGED <<source, calls>>

ReadCompletes(o) ==
    /\ Running /\ kind = "pipe" /\ kn[o].req = "pending" /\ (data > 0 \/ hup)
    /\ Becomes(o, Requeue(Work([kn[o] EXCEPT
                   !.req = IF data > 0 THEN "data" ELSE "broken"])), cur, iocp)
    /\ UNCHANGED <<source, rec, calls>>

(***************************************************************************)
(* kevent() of a waiting thread.                                           *)
(***************************************************************************)
Inflight == {t \in Threads : pc[t] # "out"}

\* kevent() up to GetQueuedCompletionStatus() in windows_kevent_wait().
Wait(t) ==
    /\ Call /\ pc[t] = "out"
    /\ pc' = [pc EXCEPT ![t] = "parked"]
    /\ \E f \in BOOLEAN : forever' = [forever EXCEPT ![t] = f]
    /\ UNCHANGED <<source, kn, cur, iocp, rec, got, mtx, room, events,
                   stamped, kq>>

\* A packet; it is thrown away when the kqueue was closed or is being freed.
Dequeue(t) ==
    /\ Running /\ pc[t] = "parked" /\ iocp # <<>>
    /\ iocp' = Tail(iocp)
    /\ IF kq \in {"closed", "freeing"}
         THEN pc' = [pc EXCEPT ![t] = "leaving"] /\ UNCHANGED got
         ELSE /\ pc' = [pc EXCEPT ![t] = "got"]
              /\ got' = [got EXCEPT ![t] = Head(iocp)]
    /\ UNCHANGED <<source, kn, cur, rec, forever, mtx, room, events,
                   stamped, ncalls, kq>>

Timeout(t) ==
    /\ Running /\ pc[t] = "parked" /\ iocp = <<>> /\ ~forever[t]
    /\ pc' = [pc EXCEPT ![t] = "leaving"]
    /\ UNCHANGED <<source, kn, cur, iocp, rec, got, forever, mtx, room, events,
                   stamped, ncalls, kq>>

\* The end of kevent(): the last caller out of a kqueue that is being freed
\* completes the free.
Exit(t) ==
    /\ pc' = [pc EXCEPT ![t] = "out"]
    /\ forever' = [forever EXCEPT ![t] = FALSE]
    /\ got' = [got EXCEPT ![t] = Nil]
    /\ kq' = IF kq = "freeing" /\ Inflight = {t} THEN "freed" ELSE kq
    /\ mtx' = NoThread /\ room' = 0 /\ events' = <<>> /\ stamped' = {}
    /\ UNCHANGED <<source, kn, cur, iocp, rec, ncalls>>

Leave(t) == Unlocked /\ pc[t] = "leaving" /\ Exit(t)
Return(t) == Running /\ pc[t] = "return" /\ Exit(t)

\* Faulty: a packet of a knote that was delivered already is delivered again.
DuplicateNever(p) == FALSE

\* The knote has been delivered, or looked at, in this copyout.
Duplicate(p) == p \in stamped /\ events # <<>>

\* One turn of the loop in windows_kevent_copyout(), with packet p taken from
\* the port and n places in the eventlist.  A kf_copyout() that fails is abort().
Dispatch(t, p, port, n) ==
    /\ p \in Knotes /\ ~Duplicate(p)
    /\ LET w == KfCopyout(Work(kn[p]))
       IN  /\ Becomes(p, w, cur, port)
           /\ events' = IF w.out THEN Append(events, p) ELSE events
           /\ kq' = IF w.rv < 0 THEN "aborted" ELSE kq
    /\ stamped' = stamped \cup {p}
    /\ pc' = [pc EXCEPT ![t] = IF Len(events') = n THEN "return" ELSE "drain"]

\* The packet of the close-detection pipe: the cleanup is left to the pool.
DispatchClose(t, p, port) ==
    /\ p = "close"
    /\ kq' = "closed"
    /\ iocp' = port
    /\ pc' = [pc EXCEPT ![t] = "return"]
    /\ UNCHANGED <<kn, cur, events, stamped>>

\* A wakeup is passed over.
DispatchWake(t, p, port) ==
    /\ p = "wake"
    /\ iocp' = port
    /\ pc' = [pc EXCEPT ![t] = "drain"]
    /\ UNCHANGED <<kn, cur, events, stamped, kq>>

\* A knote of this batch goes back into the port for the next call.
DispatchDuplicate(t, p, port) ==
    /\ p \in Knotes /\ Duplicate(p)
    /\ iocp' = Append(port, p)
    /\ pc' = [pc EXCEPT ![t] = "return"]
    /\ UNCHANGED <<kn, cur, events, stamped, kq>>

\* The packet of the wait, which is no duplicate, and no wakeup: a wait that
\* ends with one returns EBADF.
Copyout(t) ==
    /\ Unlocked /\ pc[t] = "got"
    /\ mtx' = t
    /\ got' = [got EXCEPT ![t] = Nil]
    /\ \E n \in 1..MaxRoom :
         /\ room' = n
         /\ Dispatch(t, got[t], iocp, n) \/ DispatchClose(t, got[t], iocp)
    /\ UNCHANGED <<source, rec, forever, ncalls>>

\* drain_more: the next packet, still under the mutex.
Drain(t) ==
    /\ Running /\ pc[t] = "drain" /\ iocp # <<>>
    /\ LET p == Head(iocp)
           rest == Tail(iocp)
       IN  \/ Dispatch(t, p, rest, room) \/ DispatchClose(t, p, rest)
           \/ DispatchWake(t, p, rest) \/ DispatchDuplicate(t, p, rest)
    /\ UNCHANGED <<source, rec, got, forever, mtx, room, ncalls>>

\* With an event in hand, or after the timeout, an empty port ends the loop.
DrainDone(t) ==
    /\ Running /\ pc[t] = "drain" /\ iocp = <<>>
    /\ events # <<>> \/ ~forever[t]
    /\ Exit(t)

\* The program closes the kqueue's descriptor: the kernel completes the read of
\* the close-detection pipe.
Close ==
    /\ kq = "open" /\ mtx = NoThread
    /\ kq' = "shut"
    /\ iocp' = Append(iocp, "close")
    /\ UNCHANGED <<source, kn, cur, rec, pc, got, forever, mtx, room, events, stamped,
                   ncalls>>

\* Faulty: the kqueue is freed although threads are inside kevent().
CloseCleanupNow ==
    /\ Unlocked /\ kq = "closed"
    /\ kq' = "freed"
    /\ UNCHANGED <<source, kn, cur, iocp, rec, pc, got, forever, mtx, room,
                   events, stamped, ncalls>>

\* windows_kqueue_close_cleanup() in the thread pool: kqueue_free(), which wakes
\* each caller inside with a packet of its own and leaves the rest to them.
CloseCleanup ==
    /\ Unlocked /\ kq = "closed"
    /\ kq' = IF Inflight = {} THEN "freed" ELSE "freeing"
    /\ iocp' = iocp \o [i \in 1..Cardinality(Inflight) |-> "wake"]
    /\ UNCHANGED <<source, kn, cur, rec, pc, got, forever, mtx, room, events, stamped,
                   ncalls>>

Next ==
    \/ \E o \in Knotes : \/ Add(o) \/ Modify(o) \/ Trigger(o) \/ Delete(o)
                         \/ Disable(o) \/ Enable(o) \/ Callback(o) \/ ReadCompletes(o)
    \/ Arrive \/ Consume \/ Hangup \/ Noise
    \/ \E t \in Threads : \/ Wait(t) \/ Dequeue(t) \/ Timeout(t) \/ Leave(t)
                          \/ Return(t) \/ Copyout(t) \/ Drain(t) \/ DrainDone(t)
    \/ Close \/ CloseCleanup

-----------------------------------------------------------------------------
(***************************************************************************)
(* Properties.                                                             *)
(***************************************************************************)
InHand(o) == Cardinality({t \in Threads : got[t] = o})
Packets(o) == Cardinality({i \in DOMAIN iocp : iocp[i] = o}) + InHand(o)
One(b) == IF b THEN 1 ELSE 0

\* Everything that will use the knote: the index, packets queued or in a
\* thread's hand, a timer's wait that can still fire, a pending read.
Owners(o) ==
    One(cur = o) + Packets(o) + One(kind = "pipe" /\ kn[o].req = "pending")
    + One(kind = "timer" /\ kn[o].handle /\ kn[o].req = "pending")

\* A knote outlives everything that points at it: EV_DELETE, EV_ONESHOT and the
\* release in each kf_copyout() never free memory that a packet, a thread, a
\* pending read or a timer's wait still refers to.  Not so for a wait whose
\* handle was overwritten (EV_ADD, then EV_ENABLE, of a disabled knote).
RefsCoverOwners == \A o \in Knotes : ~kn[o].stray => kn[o].ref >= Owners(o)

\* No reference is lost: a deleted knote is freed as soon as its last packet is
\* seen.  Except the reference of a one-shot timer's wait, which only firing
\* gives up, of a packet that met the end of a file, of a second read issued
\* after a pipe was disabled and enabled again, and of packets that are thrown
\* away once the kqueue is closed.
RefsExact ==
    kq \in {"open", "shut"} => \A o \in Knotes :
        \/ kn[o].stray \/ kind = "file" \/ (kind = "pipe" /\ kn[o].was)
        \/ kind = "timer" /\ "EV_ONESHOT" \in kn[o].flags
        \/ kn[o].ref = Owners(o)

DeliversEnabled ==
    \A i \in DOMAIN events' : i > Len(events) =>
        \/ kind = "proc"
        \/ /\ cur = events'[i]
           /\ kind = "signal" \/ "EV_DISABLE" \notin kn[cur].flags

\* Packets outlive EV_DELETE and EV_DISABLE, events do not: what a copyout
\* writes is about the knote in the index, and one that is enabled.  The copyout
\* of EVFILT_PROC tests neither, that of EVFILT_SIGNAL not for EV_DISABLE.
DeletedSilent == [][DeliversEnabled]_vars

\* One call of kevent() reports a knote once, though level-triggered knotes put
\* their packet back into the port that the same call is draining.
OncePerCall == \A i, j \in DOMAIN events : i # j => events[i] # events[j]

\* EV_EOF is reported for a peer that has closed, not for a cancelled or a
\* merely empty read; a pipe that was disabled (EV_DISPATCH included) is the
\* exception.
EofTrue == \A o \in Knotes : kn[o].eof /\ ~kn[o].was => hup

\* An enabled knote whose state says that an event is due, or that the next one
\* will not post a packet because one is on its way.
Owes(o) ==
    CASE kind = "user" -> kn[o].trigger /\ EdgeTriggered(Work(kn[o]))
      [] kind \in {"timer", "signal"} -> kn[o].fires > 0
      [] kind \in {"file", "wfile"} -> kn[o].synthetic
      [] kind = "pipe" -> kn[o].req # "pending"
      [] kind = "socket" -> kn[o].eof /\ ~EdgeTriggered(Work(kn[o]))
      [] OTHER -> FALSE

\* No wakeup is lost by coalescing: such a knote has a packet in the port or in
\* a thread's hand, whatever callbacks, copyouts and changes interleave.  A
\* packet dropped while the knote was disabled does not reset that state, so
\* knotes that were disabled are excluded.
OwedHasPacket ==
    kq \in {"open", "shut"} =>
        \A o \in Knotes : cur = o /\ ~kn[o].was /\ Owes(o) => Packets(o) > 0

\* The copyout never fails, which would be abort() of the process; only that of
\* EVFILT_PROC does, for the packet of a knote deleted meanwhile.
NeverAborts == kq = "aborted" => kind = "proc"

\* The kqueue is freed when the last thread has left kevent().
FreedWhenLeft == kq = "freed" => Inflight = {}
=============================================================================
