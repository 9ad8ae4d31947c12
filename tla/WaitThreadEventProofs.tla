------------------------ MODULE WaitThreadEventProofs ------------------------
(***************************************************************************)
(* Proofs about WaitThread that no exit is overlooked, that what is ready  *)
(* is announced and that what is delivered is true, on top of the          *)
(* invariant WaitInv of WaitThreadProofs.                                  *)
(***************************************************************************)
EXTENDS WaitThreadProofs

Exited(p) == child[p] # "alive"

\* The variables that WaitInv says nothing about.
Bounds ==
    /\ failed \in BOOLEAN /\ short \subseteq Kqueues
    /\ child \in [Pids -> {"alive", "zombie", "gone"}]
    /\ opens \in 0 .. MaxOpens /\ calls \in 0 .. MaxCalls

\* What the thread and a pending SIGCHLD name has exited; an error is passed on
\* while its process is named.
Seen ==
    /\ ZombieWillBeSeen /\ ErrorMeansReaped
    /\ chld # None => Exited(chld)
    /\ thread \in {"insert", "raise"} => Exited(cur) /\ (failed => child[cur] = "gone")

\* What came onto kf_ready since a walk began is announced during the walk
\* already: the walk does not reach it.
Announced ==
    /\ ReadyIsReadable
    /\ \A q \in Kqueues : /\ copyout[q] = "walk" /\ q \notin short /\ ready[q] \ left[q] # {}
                             => efd[q] \/ raising = q
                          /\ \A p \in ready[q] : Exited(p)

Heard == Bounds /\ Seen /\ Announced /\ DeliveriesTrue

\* A change under the lock of the index.
LEMMA BecomesHeard ==
  ASSUME Constants, WaitInv, Seen, Announced, Unlocked, NEW q \in Kqueues, NEW p \in Pids, NEW r,
         Changed(r, State, q, p), Becomes(r),
         \A o \in Kqueues : \/ left'[o] = left[o]
                            \/ r.ready[o] \ left'[o] \subseteq ready[o] \ left[o],
         UNCHANGED <<thread, todo, cur, failed, raising, child, chld, copyout, short>>
  PROVE  Seen' /\ Announced'
<1>1. /\ State.kn = kn /\ State.ready = ready /\ State.efd = efd
      /\ Raised(r, State) /\ Told(r, State, q, p)
      /\ kn' = r.kn /\ ready' = r.ready /\ efd' = r.efd
  BY Fields DEF WaitInv, Changed, Becomes
<1>2. raising = None /\ thread \notin {"insert", "raise"}
  BY DEF WaitInv, Held, Unlocked
<1>3. ZombieWillBeSeen'
  <2> SUFFICES ASSUME NEW i \in Pids, child[i] = "zombie", NEW o \in Kqueues, kn'[<<o, i>>].waiter
               PROVE  thread = "start" \/ chld # None \/ i \in todo
    BY ZenonT(30) DEF ZombieWillBeSeen, Waiters
  <2>1. <<o, i>> \in Pairs
    BY Zenon, PairIn
  <2>2. kn[<<o, i>>].waiter
    BY <1>1, <2>1 DEF Told
  <2> QED
    BY <1>2, <2>2 DEF Seen, ZombieWillBeSeen, Waiters
<1>4. ErrorMeansReaped'
  BY <1>1, PairIn DEF Seen, ErrorMeansReaped, Told
<1>5. Seen'
  BY <1>2, <1>3, <1>4 DEF Seen, Exited
<1>6. ASSUME NEW o \in Kqueues, ~efd'[o]
      PROVE  /\ ready'[o] \subseteq ready[o] /\ (efd[o] => ready'[o] = {})
             /\ ready'[o] \ left'[o] \subseteq ready[o] \ left[o]
  BY <1>1, <1>6 DEF Raised
<1>7. ReadyIsReadable'
  <2> SUFFICES ASSUME NEW o \in Kqueues, ready'[o] # {}, o \notin short, ~efd'[o],
                      copyout[o] = "idle"
               PROVE  FALSE
    BY DEF ReadyIsReadable
  <2> QED
    BY <1>2, <1>6 DEF Announced, ReadyIsReadable, Constants
<1>8. ASSUME NEW o \in Kqueues, copyout[o] = "walk", o \notin short, ready'[o] \ left'[o] # {}
      PROVE  efd'[o]
  BY <1>2, <1>6, <1>8 DEF Announced, Constants
<1>9. \A o \in Kqueues : \A i \in ready'[o] : child[i] # "alive"
  BY <1>1 DEF Announced, Exited, Told
<1>10. Announced'
  BY <1>7, <1>8, <1>9 DEF Announced, Exited
<1> QED
  BY <1>5, <1>10

LEMMA ChangeHeard ==
  ASSUME Constants, WaitInv, Heard, NEW q \in Kqueues, NEW p \in Pids,
         Add(q, p) \/ Modify(q, p) \/ Disable(q, p) \/ Enable(q, p)
  PROVE  Heard'
<1>1. PICK r : Change(q, p) /\ Changed(r, State, q, p) /\ Becomes(r)
  BY AddBecomes, ModifyBecomes, DisableBecomes, EnableBecomes
<1>2. Seen' /\ Announced'
  BY <1>1, BecomesHeard DEF Change, Heard
<1>3. Bounds' /\ DeliveriesTrue'
  BY <1>1 DEF Heard, Bounds, DeliveriesTrue, Change, Call, Constants
<1> QED
  BY <1>2, <1>3 DEF Heard

\* What a walk delivers was on kf_ready all along: the knote is there and enabled,
\* and its process has exited.
LEMMA DeleteHeard ==
  ASSUME Constants, WaitInv, Heard, NEW q \in Kqueues, NEW p \in Pids,
         Delete(q, p) \/ CopyoutOne(q, p)
  PROVE  Heard'
<1>1. PICK r : /\ Changed(r, State, q, p) /\ Becomes(r)
               /\ r.ready = [ready EXCEPT ![q] = @ \ {p}]
  BY ZenonT(30), DeleteBecomes
<1>2. /\ ready \in [Kqueues -> SUBSET Pids] /\ left \in [Kqueues -> SUBSET Pids]
      /\ left[q] \subseteq ready[q] /\ Linked(State) /\ State.kn = kn /\ State.ready = ready
  BY Fields DEF WaitInv, Types, Held
<1>3. \A o \in Kqueues : left'[o] = left[o] \/ r.ready[o] \ left'[o] \subseteq ready[o] \ left[o]
  BY <1>1, <1>2 DEF Delete, CopyoutOne, walks
<1>4. /\ Unlocked
      /\ UNCHANGED <<thread, todo, cur, failed, raising, child, chld, copyout, short, opens, calls>>
  BY DEF Delete, CopyoutOne, walks
<1>5. Seen' /\ Announced'
  BY Zenon, <1>1, <1>3, <1>4, BecomesHeard DEF Heard
<1>6. Bounds'
  BY <1>4 DEF Heard, Bounds
<1>7. DeliveriesTrue'
  <2>1. CASE Delete(q, p)
    BY <2>1 DEF Delete, Heard, DeliveriesTrue
  <2>2. CASE CopyoutOne(q, p)
    <3>1. p \in ready[q]
      BY <1>2, <2>2 DEF CopyoutOne
    <3>2. kn[<<q, p>>].live /\ ~kn[<<q, p>>].disabled /\ child[p] # "alive"
      BY <1>2, <3>1 DEF Linked, Heard, Announced, Exited
    <3> QED
      BY Zenon, <2>2, <3>2 DEF CopyoutOne, Heard, DeliveriesTrue
  <2> QED
    BY <2>1, <2>2
<1> QED
  BY <1>5, <1>6, <1>7 DEF Heard

LEMMA NotifyHeard ==
  ASSUME Constants, WaitInv, Heard, NEW q \in Kqueues, WaiterNotify(q) \/ WaiterNotifyError(q)
  PROVE  Heard'
<1>0. Seen /\ Announced /\ cur \in Pids /\ raising = None /\ ready \in [Kqueues -> SUBSET Pids]
  BY Fields DEF Heard, WaitInv, Types, Held, WaiterNotify, WaiterNotifyError, Insert
<1>1. /\ thread = "insert" /\ thread' = "raise" /\ raising' = q
      /\ ready' = [ready EXCEPT ![q] = @ \cup {cur}]
      /\ UNCHANGED <<todo, cur, failed, child, chld, efd, copyout, left, short, opens, calls,
                     silent>>
  BY DEF WaiterNotify, WaiterNotifyError, Insert, walks
<1>2. \A x \in Pairs : /\ kn'[x].waiter => kn[x].waiter
                       /\ kn'[x].error => kn[x].error \/ (x = <<q, cur>> /\ failed)
  BY NotifyKnotes
<1>3. ZombieWillBeSeen'
  BY ZenonT(30), <1>0, <1>1, <1>2, PairIn DEF Seen, ZombieWillBeSeen, Waiters
<1>4. ErrorMeansReaped'
  <2> SUFFICES ASSUME NEW o \in Kqueues, NEW i \in Pids, kn'[<<o, i>>].error
               PROVE  child[i] = "gone"
    BY <1>1 DEF ErrorMeansReaped
  <2>1. kn[<<o, i>>].error \/ (<<o, i>> = <<q, cur>> /\ failed)
    BY <1>2, PairIn
  <2> QED
    BY <1>0, <1>1, <2>1 DEF Seen, ErrorMeansReaped
<1>5. Seen'
  BY <1>0, <1>1, <1>3, <1>4 DEF Seen, Exited
<1>6. \A o \in Kqueues : IF o = q THEN ready'[o] = ready[o] \cup {cur} ELSE ready'[o] = ready[o]
  BY <1>0, <1>1
<1>7. ReadyIsReadable'
  BY <1>0, <1>1, <1>6 DEF Announced, ReadyIsReadable, Constants
<1>8. ASSUME NEW o \in Kqueues
      PROVE  /\ copyout[o] = "walk" /\ o \notin short /\ ready'[o] \ left[o] # {}
                => efd[o] \/ o = q
             /\ \A i \in ready'[o] : child[i] # "alive"
  BY <1>0, <1>1, <1>6 DEF Announced, Seen, Exited, Constants
<1>9. Announced'
  BY <1>1, <1>7, <1>8 DEF Announced, Exited
<1>10. Bounds' /\ DeliveriesTrue'
  BY <1>1 DEF Heard, Bounds, DeliveriesTrue
<1> QED
  BY <1>5, <1>9, <1>10 DEF Heard

LEMMA RaiseHeard ==
  ASSUME Constants, WaitInv, Heard, NotifyRaise
  PROVE  Heard'
<1>0. Seen /\ Announced /\ efd \in [Kqueues -> BOOLEAN] /\ raising \in Kqueues
  BY Fields DEF Heard, WaitInv, Held, NotifyRaise
<1>1. /\ thread = "raise" /\ thread' = IF Waiters(kn, cur) # {} THEN "insert" ELSE "scan"
      /\ efd' = [efd EXCEPT ![raising] = TRUE]
      /\ UNCHANGED <<todo, cur, failed, child, chld, kn, ready, copyout, left, short, opens,
                     calls, silent>>
  BY DEF NotifyRaise, walks
<1>2. Seen'
  BY Zenon, <1>0, <1>1 DEF Seen, ZombieWillBeSeen, ErrorMeansReaped, Exited, Waiters
<1>3. \A o \in Kqueues : efd[o] \/ raising = o => efd'[o]
  BY <1>0, <1>1
<1>4. Announced'
  BY <1>0, <1>1, <1>3 DEF Announced, ReadyIsReadable, Exited
<1>5. Bounds' /\ DeliveriesTrue'
  BY <1>1 DEF Heard, Bounds, DeliveriesTrue
<1> QED
  BY <1>2, <1>4, <1>5 DEF Heard

LEMMA WalkHeard ==
  ASSUME Constants, WaitInv, Heard, NEW q \in Kqueues, Lower(q) \/ Walk(q) \/ CopyoutEnd(q)
  PROVE  Heard'
<1>0. /\ Seen /\ Announced /\ Bounds /\ efd \in [Kqueues -> BOOLEAN]
      /\ left \in [Kqueues -> SUBSET Pids]
      /\ copyout \in [Kqueues -> {"idle", "lowered", "walk"}]
  BY Fields DEF Heard, WaitInv, Types
<1>1. UNCHANGED <<thread, todo, cur, failed, raising, child, chld, kn, ready, opens, silent>>
  BY DEF Lower, Walk, CopyoutEnd
<1>2. Seen'
  BY Zenon, <1>0, <1>1 DEF Seen, ZombieWillBeSeen, ErrorMeansReaped, Exited, Waiters
<1>3. Announced'
  <2>1. CASE Lower(q)
    BY ZenonT(30), <1>0, <1>1, <2>1 DEF Lower, Announced, ReadyIsReadable, Exited
  <2>2. CASE Walk(q)
    BY <1>0, <1>1, <2>2 DEF Walk, Announced, ReadyIsReadable, Exited
  <2>3. CASE CopyoutEnd(q)
    BY ZenonT(30), <1>0, <1>1, <2>3 DEF CopyoutEnd, Announced, ReadyIsReadable, Exited
  <2> QED
    BY <2>1, <2>2, <2>3
<1>4. Bounds'
  <2>1. short' \subseteq Kqueues
    BY <1>0 DEF Bounds, Lower, Walk, CopyoutEnd
  <2>2. calls' \in 0 .. MaxCalls
    BY <1>0 DEF Bounds, Lower, Walk, CopyoutEnd, Call, Constants
  <2> QED
    BY <1>0, <1>1, <2>1, <2>2 DEF Bounds
<1>5. DeliveriesTrue'
  BY <1>1 DEF Heard, DeliveriesTrue
<1> QED
  BY <1>2, <1>3, <1>4, <1>5 DEF Heard

\* A kqueue that is freed has an empty kf_ready.
LEMMA FilterHeard ==
  ASSUME Constants, WaitInv, Heard, NEW q \in Kqueues, InitFilter(q) \/ Close(q) \/ Destroy(q)
  PROVE  Heard'
<1>0. /\ Seen /\ Announced /\ Bounds /\ efd \in [Kqueues -> BOOLEAN]
      /\ Linked(State) /\ State.ready = ready /\ State.kn = kn
      /\ ready \in [Kqueues -> SUBSET Pids] /\ Counted /\ count \in Nat
  BY Fields DEF Heard, WaitInv, Types, Held
<1>1. UNCHANGED <<todo, cur, failed, raising, child, chld, kn, ready, walks, silent>>
  BY DEF InitFilter, Close, Destroy
<1>2. thread' = thread \/ (thread = "none" /\ thread' = "start")
  BY <1>0 DEF InitFilter, Close, Destroy, Counted
<1>3. Seen'
  BY ZenonT(30), <1>0, <1>1, <1>2 DEF Seen, ZombieWillBeSeen, ErrorMeansReaped, Exited, Waiters
<1>4. \A o \in Kqueues : efd[o] => efd'[o] \/ ready[o] = {}
  <2>1. CASE Destroy(q)
    <3>1. ready[q] = {}
      BY Zenon, <1>0, <2>1 DEF Destroy, Linked
    <3> QED
      BY <1>0, <2>1, <3>1 DEF Destroy
  <2>2. CASE InitFilter(q) \/ Close(q)
    BY <2>2 DEF InitFilter, Close
  <2> QED
    BY <2>1, <2>2
<1>5. Announced'
  BY ZenonT(30), <1>0, <1>1, <1>4 DEF Announced, ReadyIsReadable, Exited, walks
<1>6. Bounds' /\ DeliveriesTrue'
  BY <1>0, <1>1 DEF Heard, Bounds, DeliveriesTrue, InitFilter, Close, Destroy, walks, Constants
<1> QED
  BY <1>3, <1>5, <1>6 DEF Heard

\* A step that leaves knotes, kf_ready, eventfds and copyouts alone.
LEMMA SameAnnounced ==
  ASSUME WaitInv, Heard, UNCHANGED <<ready, efd, raising, walks, opens, silent>>,
         failed' \in BOOLEAN, child' \in [Pids -> {"alive", "zombie", "gone"}],
         \A p \in Pids : child[p] # "alive" => child'[p] # "alive"
  PROVE  Bounds' /\ Announced' /\ DeliveriesTrue'
<1>1. ready \in [Kqueues -> SUBSET Pids] /\ Bounds /\ Announced /\ DeliveriesTrue
  BY Fields DEF WaitInv, Heard
<1>2. \A q \in Kqueues : \A p \in ready[q] : child'[p] # "alive"
  BY <1>1 DEF Announced, Exited
<1>3. Announced'
  BY Zenon, <1>1, <1>2 DEF Announced, ReadyIsReadable, Exited, walks
<1> QED
  BY <1>1, <1>3 DEF Bounds, DeliveriesTrue, walks

LEMMA ProcessHeard ==
  ASSUME Constants, WaitInv, Heard, NEW p \in Pids, Exit(p) \/ Reap(p)
  PROVE  Heard'
<1>0. Seen /\ Bounds /\ chld \in Pids \cup {None}
  BY DEF Heard, WaitInv, Types
<1>1. /\ UNCHANGED <<thread, todo, cur, failed, raising, kn, ready, efd, walks, opens, silent>>
      /\ \/ child[p] = "alive" /\ child' = [child EXCEPT ![p] = "zombie"]
            /\ chld' = IF chld = None THEN p ELSE chld
         \/ child[p] = "zombie" /\ child' = [child EXCEPT ![p] = "gone"] /\ chld' = chld
  BY DEF Exit, Reap
<1>2. /\ child' \in [Pids -> {"alive", "zombie", "gone"}]
      /\ \A i \in Pids : /\ child[i] # "alive" => child'[i] # "alive"
                         /\ child[i] = "gone" => child'[i] = "gone"
                         /\ child'[i] = "zombie" => child[i] = "zombie" \/ chld' # None
  BY <1>0, <1>1 DEF Bounds, Constants
<1>3. Bounds' /\ Announced' /\ DeliveriesTrue'
  BY <1>0, <1>1, <1>2, SameAnnounced DEF Bounds
<1>4. chld # None => chld' # None
  BY <1>1
<1>5. ZombieWillBeSeen'
  BY <1>0, <1>1, <1>2, <1>4 DEF Seen, ZombieWillBeSeen, Waiters
<1>6. ErrorMeansReaped'
  BY <1>0, <1>1, <1>2 DEF Seen, ErrorMeansReaped
<1>7. thread \in {"insert", "raise"} => cur \in Pids
  BY DEF WaitInv, Types
<1>8. chld' # None => chld' \in Pids /\ child'[chld'] # "alive"
  BY <1>0, <1>1, <1>2 DEF Seen, Exited, Bounds
<1>9. Seen'
  BY <1>0, <1>1, <1>2, <1>5, <1>6, <1>7, <1>8 DEF Seen, Exited
<1> QED
  BY <1>3, <1>9 DEF Heard

\* The loop of the thread: it stops only without knotes, and before it waits again
\* it has looked at every process that is waited for.
LEMMA LoopHeard ==
  ASSUME Constants, WaitInv, Heard,
         Join \/ Start \/ SigWait \/ ScanEnd \/ \E p \in Pids : Scan(p)
  PROVE  Heard'
<1>0. Seen /\ Bounds /\ Types /\ Counted /\ Held
  BY DEF Heard, WaitInv
<1>1. UNCHANGED <<raising, child, kn, ready, efd, walks, opens, silent>> /\ failed' \in BOOLEAN
  <2>1. CASE Join \/ Start \/ ScanEnd
    BY <1>0, <2>1 DEF Join, Start, ScanEnd, Bounds
  <2>2. CASE SigWait
    BY Zenon, <1>0, <2>2 DEF SigWait, Bounds
  <2>3. CASE \E p \in Pids : Scan(p)
    BY Zenon, <1>0, <2>3 DEF Scan, Bounds
  <2> QED
    BY SMTT(30), <2>1, <2>2, <2>3
<1>2. Bounds' /\ Announced' /\ DeliveriesTrue'
  BY SMTT(30), <1>0, <1>1, SameAnnounced DEF Bounds
<1>3. ErrorMeansReaped'
  BY <1>0, <1>1 DEF Seen, ErrorMeansReaped
<1>4. CASE Join
  <2>1. InUse = {}
    <3>1. Cardinality(InUse) = 0
      BY <1>0, <1>4 DEF Join, Counted
    <3> QED
      BY <3>1, InUseFinite, FS_EmptySet
  <2>2. \A q \in Kqueues, p \in Pids : ~kn[<<q, p>>].waiter
    <3>1. \A q \in Kqueues, p \in Pids : ~kn[<<q, p>>].live
      BY ZenonT(30), <1>0, <2>1 DEF Held, InUse
    <3>2. State.kn = kn
      BY <1>0, Fields
    <3> QED
      BY ZenonT(30), <1>0, <3>1, <3>2 DEF Held, Linked
  <2>3. ZombieWillBeSeen'
    BY ZenonT(30), <1>1, <2>2 DEF ZombieWillBeSeen, Waiters
  <2> QED
    BY <1>0, <1>1, <1>2, <1>3, <1>4, <2>3 DEF Join, Heard, Seen, Exited
<1>5. CASE Start
  <2>1. ZombieWillBeSeen'
    BY ZenonT(30), <1>1, <1>5 DEF Start, Todo, ZombieWillBeSeen, Waiters
  <2> QED
    BY <1>0, <1>1, <1>2, <1>3, <1>5, <2>1 DEF Start, Heard, Seen, Exited
<1>6. CASE SigWait
  <2>1. ZombieWillBeSeen'
    BY ZenonT(30), <1>1, <1>6 DEF SigWait, Todo, ZombieWillBeSeen, Waiters
  <2>2. thread' \in {"insert", "raise"} => cur' = chld /\ ~failed'
    BY <1>6 DEF SigWait
  <2> QED
    BY <1>0, <1>1, <1>2, <1>3, <1>6, <2>1, <2>2 DEF SigWait, Heard, Seen, Exited
<1>7. CASE ScanEnd
  <2>1. ZombieWillBeSeen'
    BY ZenonT(30), <1>0, <1>1, <1>7 DEF ScanEnd, Seen, ZombieWillBeSeen, Waiters
  <2> QED
    BY <1>0, <1>1, <1>2, <1>3, <1>7, <2>1 DEF ScanEnd, Heard, Seen, Exited
<1>8. ASSUME NEW p \in Pids, Scan(p)
      PROVE  Heard'
  <2>1. ZombieWillBeSeen'
    BY ZenonT(30), <1>0, <1>1, <1>8 DEF Scan, Seen, ZombieWillBeSeen, Waiters
  <2>2. thread' \in {"insert", "raise"} => /\ cur' = p /\ child[p] # "alive"
                                           /\ failed' = (child[p] = "gone")
    BY <1>8 DEF Scan
  <2>3. thread' \in {"insert", "raise"} => /\ child'[cur'] # "alive"
                                           /\ failed' => child'[cur'] = "gone"
    BY <1>1, <2>2
  <2> QED
    BY <1>0, <1>1, <1>2, <1>3, <1>8, <2>1, <2>3 DEF Scan, Heard, Seen, Exited
<1> QED
  BY <1>4, <1>5, <1>6, <1>7, <1>8

LEMMA HeardInit ==
  ASSUME Constants, Init
  PROVE  Heard
<1>1. \A q \in Kqueues, p \in Pids : ~kn[<<q, p>>].waiter /\ ~kn[<<q, p>>].error
  BY PairIn DEF Init, NoKnote
<1>2. Seen
  BY <1>1 DEF Init, Seen, ZombieWillBeSeen, ErrorMeansReaped, Waiters
<1>3. Bounds
  <2>1. failed \in BOOLEAN
    BY Zenon DEF Init
  <2>2. /\ short \subseteq Kqueues /\ child \in [Pids -> {"alive", "zombie", "gone"}]
        /\ opens = 0 /\ calls = 0
    BY DEF Init
  <2> QED
    BY <2>1, <2>2 DEF Constants, Bounds
<1>4. Announced
  BY DEF Init, Announced, ReadyIsReadable
<1>5. DeliveriesTrue
  BY DEF Init, DeliveriesTrue
<1> QED
  BY <1>2, <1>3, <1>4, <1>5 DEF Heard

LEMMA HeardStep ==
  ASSUME Constants, WaitInv, Heard, [Next]_vars
  PROVE  Heard'
<1>1. ASSUME NEW q \in Kqueues, NEW p \in Pids,
             \/ Add(q, p) \/ Modify(q, p) \/ Disable(q, p) \/ Enable(q, p)
             \/ Delete(q, p) \/ CopyoutOne(q, p)
      PROVE  Heard'
  BY <1>1, ChangeHeard, DeleteHeard
<1>2. ASSUME NEW q \in Kqueues,
             \/ InitFilter(q) \/ Close(q) \/ Destroy(q)
             \/ Lower(q) \/ Walk(q) \/ CopyoutEnd(q)
             \/ WaiterNotify(q) \/ WaiterNotifyError(q)
      PROVE  Heard'
  BY <1>2, FilterHeard, WalkHeard, NotifyHeard
<1>3. ASSUME NEW p \in Pids, Exit(p) \/ Reap(p)
      PROVE  Heard'
  BY <1>3, ProcessHeard
<1>4. CASE Join \/ Start \/ SigWait \/ ScanEnd \/ \E p \in Pids : Scan(p)
  BY <1>4, LoopHeard
<1>5. CASE NotifyRaise
  BY <1>5, RaiseHeard
<1>6. CASE UNCHANGED vars
  <2>1. Bounds' /\ Announced' /\ DeliveriesTrue'
    BY <1>6, SameAnnounced DEF vars, Heard, Bounds
  <2>2. Seen'
    BY <1>6 DEF vars, Heard, Seen, ZombieWillBeSeen, ErrorMeansReaped, Waiters, Exited
  <2> QED
    BY <2>1, <2>2 DEF Heard
<1> QED
  BY <1>1, <1>2, <1>3, <1>4, <1>5, <1>6 DEF Next

LEMMA HeardHolds ==
  ASSUME Constants
  PROVE  Spec => [](WaitInv /\ Heard)
<1>1. Init => WaitInv /\ Heard
  BY WaitInit, HeardInit
<1>2. WaitInv /\ Heard /\ [Next]_vars => (WaitInv /\ Heard)'
  BY Invariance, HeardStep
<1> QED
  BY <1>1, <1>2, PTL DEF Spec

\* All variables have their types, and proc_count is at most the kqueues.
THEOREM TypeOKHolds ==
  ASSUME Constants
  PROVE  Spec => []TypeOK
<1>1. WaitInv /\ Heard => TypeOK
  <2> SUFFICES ASSUME WaitInv, Heard PROVE TypeOK
    OBVIOUS
  <2>0. Types /\ Counted /\ Held /\ Bounds /\ DeliveriesTrue
    BY DEF WaitInv, Heard
  <2>1. /\ kn \in [Pairs -> KnRec] /\ ready \in [Kqueues -> SUBSET Pids]
        /\ efd \in [Kqueues -> BOOLEAN]
    BY <2>0, Fields
  <2>2. count \in 0 .. Cardinality(Kqueues)
    <3>1. InUse \subseteq Kqueues
      BY DEF InUse
    <3>2. Cardinality(InUse) <= Cardinality(Kqueues) /\ Cardinality(Kqueues) \in Nat
      BY <3>1, FS_Subset, FS_CardinalityType DEF Constants
    <3> QED
      BY <2>0, <3>2, InUseFinite DEF Counted
  <2>3. raising \in Kqueues \cup {None}
    BY <2>0 DEF Held
  <2>4. {joining, failed, silent} \subseteq BOOLEAN
    BY <2>0 DEF Types, Bounds, DeliveriesTrue
  <2> QED
    BY <2>0, <2>1, <2>2, <2>3, <2>4 DEF TypeOK, Types, Bounds, KnRec
<1> QED
  BY <1>1, HeardHolds, PTL

\* A zombie that is waited for is not overlooked, although SIGCHLD is coalesced.
THEOREM ZombieWillBeSeenHolds ==
  ASSUME Constants
  PROVE  Spec => []ZombieWillBeSeen
<1>1. Heard => ZombieWillBeSeen
  BY DEF Heard, Seen
<1> QED
  BY <1>1, HeardHolds, PTL

\* A knote on kf_ready is announced by the eventfd of its kqueue, whatever the
\* thread, changes and copyouts do at the same time; but for a copyout that had
\* too little room.
THEOREM ReadyIsReadableHolds ==
  ASSUME Constants
  PROVE  Spec => []ReadyIsReadable
<1>1. Heard => ReadyIsReadable
  BY DEF Heard, Announced
<1> QED
  BY <1>1, HeardHolds, PTL

\* Only exits are delivered, for enabled knotes, and errors only for a process
\* that somebody else has reaped.
THEOREM DeliveriesTrueHolds ==
  ASSUME Constants
  PROVE  Spec => [](DeliveriesTrue /\ ErrorMeansReaped)
<1>1. Heard => DeliveriesTrue /\ ErrorMeansReaped
  BY DEF Heard, Seen
<1> QED
  BY <1>1, HeardHolds, PTL
=============================================================================
