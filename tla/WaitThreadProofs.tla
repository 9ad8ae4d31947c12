-------------------------- MODULE WaitThreadProofs --------------------------
(***************************************************************************)
(* Proofs about WaitThread, for any finite set of kqueues, any set of      *)
(* processes and any number of calls.                                      *)
(***************************************************************************)
EXTENDS WaitThread, FiniteSetTheorems, TLAPS

\* What the constants stand for.
Constants ==
    /\ IsFiniteSet(Kqueues) /\ None \notin Kqueues /\ None \notin Pids
    /\ MaxOpens \in Nat /\ MaxCalls \in Nat

KnRec == [live : BOOLEAN, disabled : BOOLEAN, exit : BOOLEAN, waiter : BOOLEAN,
          error : BOOLEAN]

\* The states that are threaded through a change.
States == [kn : [Pairs -> KnRec], ready : [Kqueues -> SUBSET Pids],
           efd : [Kqueues -> BOOLEAN]]

\* A knote on kf_ready or on a list of waiters exists and is enabled.
Linked(s) ==
    \A q \in Kqueues, p \in Pids :
        p \in s.ready[q] \/ s.kn[<<q, p>>].waiter => s.kn[<<q, p>>].live /\ ~s.kn[<<q, p>>].disabled

\* Of a state that a change makes of s: no knote comes to life but that of q and
\* p, and kf_ready of other kqueues only grows.
Local(r, s, q, p) ==
    /\ \A x \in Pairs : r.kn[x].live => s.kn[x].live \/ x = <<q, p>>
    /\ \A o \in Kqueues : o # q => s.ready[o] \subseteq r.ready[o]

\* ... and: an eventfd is lowered only with kf_ready empty, and raised with what
\* comes onto kf_ready.
Raised(r, s) ==
    \A o \in Kqueues : ~r.efd[o] => /\ r.ready[o] \subseteq s.ready[o]
                                    /\ s.efd[o] => r.ready[o] = {}

\* ... and: no error is made up, only processes that have not exited come to be
\* waited for, and only those that have come onto kf_ready.
Told(r, s, q, p) ==
    /\ \A x \in Pairs :
         /\ r.kn[x].error => s.kn[x].error
         /\ r.kn[x].waiter => s.kn[x].waiter \/ (x = <<q, p>> /\ child[p] # "zombie")
    /\ \A o \in Kqueues : r.ready[o] \subseteq s.ready[o] \cup {i \in Pids : child[i] = "zombie"}

InUse == {q \in Kqueues : kq[q] # "none"}

Types ==
    /\ State \in States
    /\ kq \in [Kqueues -> {"none", "open", "closing"}]
    /\ count \in Nat /\ joining \in BOOLEAN
    /\ thread \in {"none", "start", "scan", "insert", "raise", "wait"}
    /\ todo \subseteq Pids /\ chld \in Pids \cup {None}
    /\ cur \in Pids \cup {None} /\ (thread \in {"insert", "raise"} => cur \in Pids)
    /\ copyout \in [Kqueues -> {"idle", "lowered", "walk"}]
    /\ left \in [Kqueues -> SUBSET Pids]

\* proc_count decides about the thread: it runs, or is being joined, as long as
\* some kqueue has the filter.
Counted ==
    /\ count = Cardinality(InUse)
    /\ thread = "none" <=> count = 0 /\ ~joining
    /\ joining => count = 0

\* Knotes are gone before their kqueue; a walk has only what is on kf_ready; and
\* the knote the thread has just put there stays until its eventfd is raised.
Held ==
    /\ Linked(State)
    /\ \A q \in Kqueues, p \in Pids : kn[<<q, p>>].live => kq[q] # "none"
    /\ \A q \in Kqueues : left[q] \subseteq ready[q] /\ (left[q] # {} => copyout[q] = "walk")
    /\ raising # None => raising \in Kqueues /\ thread = "raise" /\ cur \in ready[raising]
    /\ thread = "raise" => raising # None

WaitInv == Types /\ Counted /\ Held

\* The fields of the current state.
LEMMA Fields ==
  ASSUME Types
  PROVE  /\ kn \in [Pairs -> KnRec] /\ ready \in [Kqueues -> SUBSET Pids]
         /\ efd \in [Kqueues -> BOOLEAN]
         /\ State.kn = kn /\ State.ready = ready /\ State.efd = efd
  BY DEF Types, State, States

LEMMA PairIn == ASSUME NEW q \in Kqueues, NEW p \in Pids PROVE <<q, p>> \in Pairs
  BY DEF Pairs

\* Setting one field of one knote.
LEMMA WaiterSet ==
  ASSUME NEW n \in [Pairs -> KnRec], NEW q \in Kqueues, NEW p \in Pids, NEW b \in BOOLEAN
  PROVE  LET m == [n EXCEPT ![<<q, p>>].waiter = b]
         IN  /\ m \in [Pairs -> KnRec]
             /\ \A x \in Pairs : /\ m[x].live = n[x].live
                                 /\ m[x].disabled = n[x].disabled
                                 /\ x # <<q, p>> => m[x] = n[x]
             /\ m[<<q, p>>].waiter = b
  BY PairIn DEF KnRec

\* proc_pid_disarm(): the knote is neither waiting nor ready.
Disarmed(r, s, q, p) ==
    /\ r \in States
    /\ r.kn = [s.kn EXCEPT ![<<q, p>>].waiter = FALSE]
    /\ r.ready = [s.ready EXCEPT ![q] = @ \ {p}]
    /\ Raised(r, s)

LEMMA DisarmLinked ==
  ASSUME NEW s \in States, NEW q \in Kqueues, NEW p \in Pids
  PROVE  Disarmed(ProcPidDisarm(s, q, p), s, q, p)
<1>1. /\ s.kn \in [Pairs -> KnRec] /\ s.ready \in [Kqueues -> SUBSET Pids]
      /\ s.efd \in [Kqueues -> BOOLEAN]
  BY DEF States
<1> DEFINE r == ProcPidDisarm(s, q, p)
           b == s.efd[q] /\ s.ready[q] \ {p} # {}
<1>2. r = [s EXCEPT !.kn = [s.kn EXCEPT ![<<q, p>>].waiter = FALSE],
                    !.ready = [s.ready EXCEPT ![q] = @ \ {p}],
                    !.efd = [s.efd EXCEPT ![q] = b]]
  BY <1>1 DEF ProcPidDisarm, States
<1>3. [s.kn EXCEPT ![<<q, p>>].waiter = FALSE] \in [Pairs -> KnRec]
  BY Zenon, <1>1, WaiterSet
<1>4. [s.ready EXCEPT ![q] = @ \ {p}] \in [Kqueues -> SUBSET Pids]
  BY <1>1
<1>5. [s.efd EXCEPT ![q] = b] \in [Kqueues -> BOOLEAN]
  BY <1>1
<1>6. /\ r \in States /\ r.kn = [s.kn EXCEPT ![<<q, p>>].waiter = FALSE]
      /\ r.ready = [s.ready EXCEPT ![q] = @ \ {p}] /\ r.efd = [s.efd EXCEPT ![q] = b]
  BY Zenon, <1>2, <1>3, <1>4, <1>5 DEF States
<1> HIDE DEF r
<1>7. Raised(r, s)
  <2> SUFFICES ASSUME NEW o \in Kqueues, ~r.efd[o]
               PROVE  r.ready[o] \subseteq s.ready[o] /\ (s.efd[o] => r.ready[o] = {})
    BY DEF Raised
  <2>1. CASE o = q
    <3>1. r.ready[q] = s.ready[q] \ {p} /\ ~b
      BY <1>1, <1>6, <2>1
    <3> QED
      BY <2>1, <3>1
  <2>2. CASE o # q
    BY <1>1, <1>6, <2>2
  <2> QED
    BY <2>1, <2>2
<1> QED
  BY <1>6, <1>7 DEF Disarmed, r

\* proc_pid_arm(): of an enabled knote; and if the process has exited, all its
\* waiters are on kf_ready instead.
LEMMA ArmLinked ==
  ASSUME NEW s \in States, Linked(s), NEW q \in Kqueues, NEW p \in Pids,
         s.kn[<<q, p>>].live, ~s.kn[<<q, p>>].disabled
  PROVE  LET r == ProcPidArm(s, q, p)
         IN  /\ r \in States /\ Linked(r)
             /\ \A x \in Pairs : r.kn[x].live = s.kn[x].live
             /\ \A o \in Kqueues : s.ready[o] \subseteq r.ready[o]
             /\ Raised(r, s) /\ Told(r, s, q, p)
<1>1. /\ s.kn \in [Pairs -> KnRec] /\ s.ready \in [Kqueues -> SUBSET Pids]
      /\ s.efd \in [Kqueues -> BOOLEAN]
  BY DEF States
<1> DEFINE m == [s.kn EXCEPT ![<<q, p>>].waiter = TRUE]
           a == [s EXCEPT !.kn[<<q, p>>].waiter = TRUE]
           w == Waiters(m, p)
           n == [x \in Pairs |-> IF x[2] = p THEN [m[x] EXCEPT !.waiter = FALSE] ELSE m[x]]
           y == [o \in Kqueues |-> IF o \in w THEN s.ready[o] \cup {p} ELSE s.ready[o]]
           e == [o \in Kqueues |-> s.efd[o] \/ o \in w]
           z == [kn |-> n, ready |-> y, efd |-> e]
<1>2. /\ m \in [Pairs -> KnRec]
      /\ \A x \in Pairs : /\ m[x].live = s.kn[x].live
                          /\ m[x].disabled = s.kn[x].disabled
                          /\ m[x].error = s.kn[x].error
                          /\ x # <<q, p>> => m[x] = s.kn[x]
  BY ZenonT(30), <1>1, PairIn DEF KnRec
<1> HIDE DEF m
<1>3. a = [kn |-> m, ready |-> s.ready, efd |-> s.efd]
  BY <1>1 DEF States, m
<1> HIDE DEF a
<1>4. /\ a \in States /\ a.kn = m /\ a.ready = s.ready /\ a.efd = s.efd
  BY <1>1, <1>2, <1>3 DEF States
<1>5. ASSUME NEW o \in Kqueues, NEW i \in Pids, i \in s.ready[o] \/ m[<<o, i>>].waiter
      PROVE  m[<<o, i>>].live /\ ~m[<<o, i>>].disabled
  <2>1. <<o, i>> \in Pairs
    BY PairIn
  <2>2. CASE <<o, i>> = <<q, p>>
    BY <1>2, <2>1, <2>2
  <2>3. CASE <<o, i>> # <<q, p>>
    BY <1>2, <1>5, <2>1, <2>3 DEF Linked
  <2> QED
    BY <2>2, <2>3
<1>6. CASE child[p] # "zombie"
  <2>1. ProcPidArm(s, q, p) = a
    BY <1>6 DEF ProcPidArm, a
  <2>2. Linked(a)
    BY <1>4, <1>5 DEF Linked
  <2>3. Raised(a, s) /\ Told(a, s, q, p)
    BY <1>2, <1>4, <1>6 DEF Raised, Told
  <2> QED
    BY <1>2, <1>4, <2>1, <2>2, <2>3
<1>7. CASE child[p] = "zombie"
  <2>1. ProcPidArm(s, q, p) = z
    <3>1. ProcPidArm(s, q, p) =
            [kn |-> [x \in Pairs |-> IF x[2] = p THEN [a.kn[x] EXCEPT !.waiter = FALSE]
                                     ELSE a.kn[x]],
             ready |-> [o \in Kqueues |-> IF o \in Waiters(a.kn, p) THEN a.ready[o] \cup {p}
                                          ELSE a.ready[o]],
             efd |-> [o \in Kqueues |-> a.efd[o] \/ o \in Waiters(a.kn, p)]]
      BY <1>7 DEF ProcPidArm, a
    <3> QED
      BY <1>4, <3>1
  <2>2. /\ n \in [Pairs -> KnRec]
        /\ \A x \in Pairs : /\ n[x].live = m[x].live /\ n[x].disabled = m[x].disabled
                            /\ n[x].error = m[x].error
                            /\ n[x].waiter => m[x].waiter /\ x # <<q, p>>
    <3>1. ASSUME NEW x \in Pairs
          PROVE  /\ n[x] \in KnRec /\ n[x].live = m[x].live /\ n[x].error = m[x].error
                 /\ n[x].disabled = m[x].disabled
                 /\ n[x].waiter => m[x].waiter /\ x # <<q, p>>
      <4>1. m[x] \in KnRec
        BY <1>2
      <4>2. n[x] = IF x[2] = p THEN [m[x] EXCEPT !.waiter = FALSE] ELSE m[x]
        OBVIOUS
      <4> HIDE DEF n
      <4>3. CASE x[2] = p
        BY Zenon, <4>1, <4>2, <4>3 DEF KnRec
      <4>4. CASE x[2] # p
        BY <4>1, <4>2, <4>4
      <4> QED
        BY <4>3, <4>4
    <3> QED
      BY <3>1
  <2>3. /\ y \in [Kqueues -> SUBSET Pids]
        /\ \A o \in Kqueues : s.ready[o] \subseteq y[o]
        /\ \A o \in Kqueues, i \in Pids :
             i \in y[o] => i \in s.ready[o] \/ (i = p /\ m[<<o, i>>].waiter)
    BY <1>1 DEF Waiters
  <2>4. e \in [Kqueues -> BOOLEAN]
    OBVIOUS
  <2>7. \A o \in Kqueues : ~e[o] => ~s.efd[o] /\ y[o] = s.ready[o]
    BY Zenon
  <2> HIDE DEF n, y, e
  <2>5. z \in States /\ z.kn = n /\ z.ready = y /\ z.efd = e
    BY <2>2, <2>3, <2>4 DEF States
  <2>6. Linked(z)
    <3> SUFFICES ASSUME NEW o \in Kqueues, NEW i \in Pids, i \in y[o] \/ n[<<o, i>>].waiter
                 PROVE  n[<<o, i>>].live /\ ~n[<<o, i>>].disabled
      BY <2>5 DEF Linked
    <3>1. <<o, i>> \in Pairs
      BY PairIn
    <3>2. i \in s.ready[o] \/ m[<<o, i>>].waiter
      BY <2>2, <2>3, <3>1
    <3>3. m[<<o, i>>].live /\ ~m[<<o, i>>].disabled
      BY <1>5, <3>2
    <3> QED
      BY <2>2, <3>1, <3>3
  <2>8. Raised(z, s)
    BY <2>5, <2>7 DEF Raised
  <2>9. Told(z, s, q, p)
    <3>1. \A o \in Kqueues : y[o] \subseteq s.ready[o] \cup {i \in Pids : child[i] = "zombie"}
      BY Zenon, <1>7, <2>3
    <3>2. \A x \in Pairs : (n[x].error => s.kn[x].error) /\ (n[x].waiter => s.kn[x].waiter)
      BY <1>2, <2>2
    <3> QED
      BY <2>5, <3>1, <3>2 DEF Told
  <2> HIDE DEF z
  <2> QED
    BY <1>2, <2>1, <2>2, <2>3, <2>5, <2>6, <2>8, <2>9
<1> QED
  BY <1>6, <1>7

\* A knote that is made anew, gone, or of which only the flags change: the rest
\* of the state is as it was.  On kf_ready it stays only if it is enabled.
LEMMA SetLinked ==
  ASSUME NEW s \in States, Linked(s), NEW q \in Kqueues, NEW p \in Pids, NEW k \in KnRec,
         NEW r \in States, r.kn = [s.kn EXCEPT ![<<q, p>>] = k],
         \A o \in Kqueues : /\ r.ready[o] \subseteq s.ready[o]
                            /\ o # q => r.ready[o] = s.ready[o],
         p \in r.ready[q] \/ k.waiter => k.live /\ ~k.disabled
  PROVE  /\ Linked(r)
         /\ Local(r, s, q, p)
         /\ ~k.live => \A x \in Pairs : r.kn[x].live => s.kn[x].live /\ x # <<q, p>>
<1>1. s.kn \in [Pairs -> KnRec] /\ s.ready \in [Kqueues -> SUBSET Pids]
  BY DEF States
<1>2. \A x \in Pairs : r.kn[x] = IF x = <<q, p>> THEN k ELSE s.kn[x]
  BY <1>1, PairIn
<1>4. ASSUME NEW o \in Kqueues, NEW i \in Pids, i \in r.ready[o] \/ r.kn[<<o, i>>].waiter
      PROVE  r.kn[<<o, i>>].live /\ ~r.kn[<<o, i>>].disabled
  <2>1. <<o, i>> \in Pairs
    BY PairIn
  <2>2. CASE <<o, i>> = <<q, p>>
    <3>1. o = q /\ i = p /\ r.kn[<<o, i>>] = k
      BY <1>2, <2>1, <2>2
    <3> QED
      BY <1>4, <3>1
  <2>3. CASE <<o, i>> # <<q, p>>
    <3>1. r.kn[<<o, i>>] = s.kn[<<o, i>>]
      BY <1>2, <2>1, <2>3
    <3>2. i \in s.ready[o] \/ s.kn[<<o, i>>].waiter
      BY <1>4, <3>1
    <3>3. s.kn[<<o, i>>].live /\ ~s.kn[<<o, i>>].disabled
      BY <3>2 DEF Linked
    <3> QED
      BY <3>1, <3>3
  <2> QED
    BY <2>2, <2>3
<1>5. Linked(r)
  BY <1>4 DEF Linked
<1>6. Local(r, s, q, p)
  <2>1. \A x \in Pairs : r.kn[x].live => s.kn[x].live \/ x = <<q, p>>
    BY <1>2
  <2>2. \A o \in Kqueues : o # q => s.ready[o] \subseteq r.ready[o]
    OBVIOUS
  <2> QED
    BY <2>1, <2>2 DEF Local
<1> QED
  BY <1>2, <1>5, <1>6

LEMMA LocalTrans ==
  ASSUME NEW r, NEW s, NEW v, NEW q \in Kqueues, NEW p \in Pids,
         Local(r, s, q, p), Local(s, v, q, p)
  PROVE  Local(r, v, q, p)
  BY DEF Local

\* What a change may make of a state: the knotes stay linked, and only the knote
\* of q and p may come to life.
Changed(r, s, q, p) ==
    r \in States /\ Linked(r) /\ Local(r, s, q, p) /\ Raised(r, s) /\ Told(r, s, q, p)

LEMMA ChangedTrans ==
  ASSUME NEW r, NEW s, NEW v, NEW q \in Kqueues, NEW p \in Pids,
         Changed(r, s, q, p), Changed(s, v, q, p)
  PROVE  Changed(r, v, q, p)
<1>1. Raised(r, v)
  BY DEF Changed, Raised
<1>2. Told(r, v, q, p)
  BY DEF Changed, Told
<1> QED
  BY <1>1, <1>2, LocalTrans DEF Changed

\* A knote made, or its flags set, that is enabled afterwards.
LEMMA PutChanged ==
  ASSUME NEW s \in States, Linked(s), NEW q \in Kqueues, NEW p \in Pids,
         NEW k \in KnRec, k.live, ~k.disabled,
         k.error => s.kn[<<q, p>>].error, k.waiter => s.kn[<<q, p>>].waiter
  PROVE  LET r == [s EXCEPT !.kn[<<q, p>>] = k]
         IN  Changed(r, s, q, p) /\ r.kn[<<q, p>>] = k /\ r.ready = s.ready
<1> DEFINE r == [s EXCEPT !.kn[<<q, p>>] = k]
<1>1. s.kn \in [Pairs -> KnRec] /\ s.ready \in [Kqueues -> SUBSET Pids]
  BY DEF States
<1>2. /\ r \in States /\ r.kn = [s.kn EXCEPT ![<<q, p>>] = k]
      /\ r.ready = s.ready /\ r.efd = s.efd
  BY SMTT(30), <1>1, PairIn DEF States
<1> HIDE DEF r
<1>3. Linked(r) /\ Local(r, s, q, p)
  BY <1>2, SetLinked
<1>4. \A x \in Pairs : r.kn[x] = IF x = <<q, p>> THEN k ELSE s.kn[x]
  BY <1>1, <1>2, PairIn
<1>5. Raised(r, s) /\ Told(r, s, q, p)
  BY <1>2, <1>4 DEF Raised, Told
<1> QED
  BY <1>2, <1>3, <1>4, <1>5, PairIn DEF Changed, r

LEMMA ArmChanged ==
  ASSUME NEW s \in States, Linked(s), NEW q \in Kqueues, NEW p \in Pids,
         s.kn[<<q, p>>].live, ~s.kn[<<q, p>>].disabled
  PROVE  Changed(ProcPidArm(s, q, p), s, q, p)
<1> DEFINE r == ProcPidArm(s, q, p)
<1>1. /\ r \in States /\ Linked(r)
      /\ \A x \in Pairs : r.kn[x].live = s.kn[x].live
      /\ \A o \in Kqueues : s.ready[o] \subseteq r.ready[o]
      /\ Raised(r, s) /\ Told(r, s, q, p)
  BY ArmLinked, Zenon
<1> HIDE DEF r
<1>2. Local(r, s, q, p)
  BY <1>1 DEF Local
<1> QED
  BY <1>1, <1>2 DEF Changed, r

\* A knote disarmed, that then has the fields of k.
DisarmedTo(r, s, q, p, k) ==
    /\ Changed(r, s, q, p)
    /\ r.kn = [s.kn EXCEPT ![<<q, p>>] = k]
    /\ r.ready = [s.ready EXCEPT ![q] = @ \ {p}]

LEMMA DisarmChanged ==
  ASSUME NEW s \in States, Linked(s), NEW q \in Kqueues, NEW p \in Pids,
         NEW k \in KnRec, ~k.waiter, k.error => s.kn[<<q, p>>].error
  PROVE  DisarmedTo([ProcPidDisarm(s, q, p) EXCEPT !.kn[<<q, p>>] = k], s, q, p, k)
<1> DEFINE d == ProcPidDisarm(s, q, p)
           r == [d EXCEPT !.kn[<<q, p>>] = k]
<1>1. s.kn \in [Pairs -> KnRec] /\ s.ready \in [Kqueues -> SUBSET Pids]
  BY DEF States
<1>2. Disarmed(d, s, q, p)
  BY DisarmLinked
<1> HIDE DEF d
<1>3. /\ r \in States /\ r.kn = [s.kn EXCEPT ![<<q, p>>] = k]
      /\ r.ready = [s.ready EXCEPT ![q] = @ \ {p}] /\ Raised(r, s)
  <2>1. d \in States /\ d.ready = [s.ready EXCEPT ![q] = @ \ {p}] /\ Raised(d, s)
    BY <1>2 DEF Disarmed
  <2>2. /\ r \in States /\ r.ready = d.ready /\ r.kn = [d.kn EXCEPT ![<<q, p>>] = k]
        /\ r.efd = d.efd
    <3>1. d.kn \in [Pairs -> KnRec]
      BY <2>1 DEF States
    <3> QED
      BY Zenon, <2>1, <3>1, PairIn DEF States
  <2>3. [d.kn EXCEPT ![<<q, p>>] = k] = [s.kn EXCEPT ![<<q, p>>] = k]
    BY <1>1, <1>2, PairIn DEF Disarmed
  <2>4. Raised(r, s)
    BY Zenon, <2>1, <2>2 DEF Raised
  <2> QED
    BY <2>1, <2>2, <2>3, <2>4
<1> HIDE DEF r
<1>4. /\ \A o \in Kqueues : /\ r.ready[o] \subseteq s.ready[o]
                            /\ o # q => r.ready[o] = s.ready[o]
      /\ p \in r.ready[q] \/ k.waiter => k.live /\ ~k.disabled
  BY <1>1, <1>3
<1>5. Linked(r) /\ Local(r, s, q, p)
  <2>1. r \in States /\ r.kn = [s.kn EXCEPT ![<<q, p>>] = k]
    BY <1>3
  <2> QED
    BY <1>4, <2>1, SetLinked
<1>6. Told(r, s, q, p)
  <2>1. \A x \in Pairs : r.kn[x] = IF x = <<q, p>> THEN k ELSE s.kn[x]
    BY <1>1, <1>3, PairIn
  <2> QED
    BY <1>4, <2>1 DEF Told
<1> QED
  BY <1>3, <1>5, <1>6 DEF Changed, DisarmedTo, r, d

\* A step under the lock of the index that changes knotes, kf_ready and eventfds.
LEMMA BecomesInv ==
  ASSUME WaitInv, Unlocked, NEW q \in Kqueues, NEW p \in Pids, NEW r,
         Changed(r, State, q, p), Becomes(r),
         r.kn[<<q, p>>].live => kq[q] # "none",
         left' \in [Kqueues -> SUBSET Pids],
         \A o \in Kqueues : o # q => left'[o] = left[o],
         left'[q] \subseteq r.ready[q], left'[q] # {} => copyout[q] = "walk",
         UNCHANGED <<kq, count, joining, thread, todo, cur, raising, chld, copyout>>
  PROVE  WaitInv'
<1>0. Types /\ Counted /\ Held
  BY DEF WaitInv
<1>1. /\ State.kn = kn /\ State.ready = ready
      /\ r \in States /\ Linked(r) /\ Local(r, State, q, p)
  BY <1>0, Fields DEF Changed
<1>2. kn' = r.kn /\ ready' = r.ready /\ efd' = r.efd
  BY DEF Becomes
<1>3. State' = r
  BY <1>1, <1>2 DEF State, States
<1>4. Types'
  BY SMTT(30), <1>0, <1>1, <1>3 DEF Types
<1>5. Counted'
  BY <1>0 DEF Counted, InUse
<1>6. (Linked(State))'
  BY <1>1, <1>3 DEF Linked
<1>7. ASSUME NEW o \in Kqueues, NEW i \in Pids, r.kn[<<o, i>>].live PROVE kq[o] # "none"
  <2>1. <<o, i>> \in Pairs
    BY PairIn
  <2>2. kn[<<o, i>>].live \/ <<o, i>> = <<q, p>>
    BY <1>1, <1>7, <2>1 DEF Local
  <2> QED
    BY <1>0, <1>7, <2>2 DEF Held
<1>8. ASSUME NEW o \in Kqueues
      PROVE  left'[o] \subseteq r.ready[o] /\ (left'[o] # {} => copyout[o] = "walk")
  <2>1. CASE o = q
    BY <2>1
  <2>2. CASE o # q
    <3>1. left'[o] = left[o] /\ ready[o] \subseteq r.ready[o]
      BY <1>1, <2>2 DEF Local
    <3> QED
      BY <1>0, <3>1 DEF Held
  <2> QED
    BY <2>1, <2>2
<1>9. raising = None /\ thread # "raise"
  BY <1>0 DEF Held, Unlocked
<1>10. Held'
  BY <1>2, <1>6, <1>7, <1>8, <1>9 DEF Held
<1> QED
  BY <1>4, <1>5, <1>10 DEF WaitInv

\* EV_ADD, EV_ENABLE and EV_DISABLE: the walk of a copyout holds nothing of q.
LEMMA ChangeInv ==
  ASSUME WaitInv, NEW q \in Kqueues, NEW p \in Pids, Change(q, p), NEW r,
         Changed(r, State, q, p), Becomes(r)
  PROVE  WaitInv'
<1>1. /\ Unlocked /\ kq[q] = "open" /\ copyout[q] = "idle"
      /\ UNCHANGED <<kq, count, joining, thread, todo, cur, raising, chld, copyout, left>>
  BY DEF Change
<1>2. left[q] = {} /\ left \in [Kqueues -> SUBSET Pids]
  BY <1>1 DEF WaitInv, Held, Types
<1> QED
  BY Zenon, <1>1, <1>2, BecomesInv

\* The state that a change starts from.
LEMMA Current ==
  ASSUME WaitInv, NEW q \in Kqueues, NEW p \in Pids
  PROVE  /\ State \in States /\ Linked(State)
         /\ State.kn = kn /\ State.ready = ready /\ kn \in [Pairs -> KnRec]
         /\ kn[<<q, p>>] \in KnRec
  BY Fields, PairIn DEF WaitInv, Types, Held

\* Disarming and disabling a knote.
LEMMA DisableChanged ==
  ASSUME NEW s \in States, Linked(s), NEW q \in Kqueues, NEW p \in Pids
  PROVE  Changed([ProcPidDisarm(s, q, p) EXCEPT !.kn[<<q, p>>].disabled = TRUE], s, q, p)
<1> DEFINE d == ProcPidDisarm(s, q, p)
           k == [s.kn[<<q, p>>] EXCEPT !.waiter = FALSE, !.disabled = TRUE]
<1>1. s.kn \in [Pairs -> KnRec] /\ s.kn[<<q, p>>] \in KnRec
  BY PairIn DEF States
<1>2. k \in KnRec /\ ~k.waiter /\ k.error = s.kn[<<q, p>>].error
  BY Zenon, <1>1 DEF KnRec
<1>3. DisarmedTo([d EXCEPT !.kn[<<q, p>>] = k], s, q, p, k)
  BY Zenon, <1>2, DisarmChanged
<1>4. Disarmed(d, s, q, p)
  BY DisarmLinked
<1> HIDE DEF d
<1>5. d \in States /\ d.kn = [s.kn EXCEPT ![<<q, p>>].waiter = FALSE]
  BY <1>4 DEF Disarmed
<1>6. d.kn[<<q, p>>] = [s.kn[<<q, p>>] EXCEPT !.waiter = FALSE]
  BY <1>1, <1>5, PairIn
<1>7. [d.kn[<<q, p>>] EXCEPT !.disabled = TRUE] = k
  BY <1>1, <1>6 DEF KnRec
<1>8. [d EXCEPT !.kn[<<q, p>>].disabled = TRUE] = [d EXCEPT !.kn[<<q, p>>] = k]
  BY <1>5, <1>7, PairIn DEF States
<1> QED
  BY <1>3, <1>8 DEF DisarmedTo, d

LEMMA AddBecomes ==
  ASSUME WaitInv, NEW q \in Kqueues, NEW p \in Pids, Add(q, p)
  PROVE  Change(q, p) /\ \E r : Changed(r, State, q, p) /\ Becomes(r)
<1> DEFINE k(exit) == [NoKnote EXCEPT !.live = TRUE, !.exit = exit]
           n(exit) == [State EXCEPT !.kn[<<q, p>>] = k(exit)]
           a(exit) == IF exit THEN ProcPidArm(n(exit), q, p) ELSE n(exit)
           d(exit) == [ProcPidDisarm(a(exit), q, p) EXCEPT !.kn[<<q, p>>].disabled = TRUE]
<1>1. PICK exit, disable \in BOOLEAN : Becomes(IF disable THEN d(exit) ELSE a(exit))
  BY Zenon DEF Add
<1>2. /\ k(exit) \in KnRec /\ k(exit).live /\ ~k(exit).disabled
      /\ ~k(exit).error /\ ~k(exit).waiter
  BY Zenon DEF KnRec, NoKnote
<1> HIDE DEF k
<1>3. Changed(n(exit), State, q, p) /\ n(exit).kn[<<q, p>>] = k(exit)
  BY <1>2, Current, PutChanged
<1> HIDE DEF n
<1>4. Changed(a(exit), State, q, p)
  <2>1. Changed(ProcPidArm(n(exit), q, p), n(exit), q, p)
    BY <1>2, <1>3, ArmChanged DEF Changed
  <2> QED
    BY SMTT(30), <1>3, <2>1, ChangedTrans
<1> HIDE DEF a
<1>5. Changed(d(exit), State, q, p)
  <2>1. Changed(d(exit), a(exit), q, p)
    BY <1>4, DisableChanged DEF Changed
  <2> QED
    BY <1>4, <2>1, ChangedTrans
<1> HIDE DEF d
<1>6. Change(q, p)
  BY DEF Add
<1>7. Changed(IF disable THEN d(exit) ELSE a(exit), State, q, p)
  BY <1>4, <1>5
<1> QED
  BY <1>1, <1>6, <1>7

LEMMA ModifyBecomes ==
  ASSUME WaitInv, NEW q \in Kqueues, NEW p \in Pids, Modify(q, p)
  PROVE  Change(q, p) /\ \E r : Changed(r, State, q, p) /\ Becomes(r)
<1> DEFINE k(exit) == [kn[<<q, p>>] EXCEPT !.disabled = FALSE, !.exit = exit, !.error = FALSE]
           n(exit) == [State EXCEPT !.kn[<<q, p>>].disabled = FALSE,
                                    !.kn[<<q, p>>].exit = exit,
                                    !.kn[<<q, p>>].error = FALSE]
           r(exit) == IF exit /\ ~kn[<<q, p>>].waiter THEN ProcPidArm(n(exit), q, p)
                      ELSE IF ~exit /\ kn[<<q, p>>].waiter THEN ProcPidDisarm(n(exit), q, p)
                      ELSE n(exit)
<1>1. PICK exit \in BOOLEAN : Becomes(r(exit))
  BY Zenon DEF Modify
<1>2. Change(q, p) /\ kn[<<q, p>>].live
  BY DEF Modify
<1>3. /\ k(exit) \in KnRec /\ k(exit).live /\ ~k(exit).disabled
      /\ ~k(exit).error /\ k(exit).waiter = kn[<<q, p>>].waiter
  BY ZenonT(30), <1>2, Current DEF KnRec
<1>4. n(exit) = [State EXCEPT !.kn[<<q, p>>] = k(exit)]
  BY ZenonT(30), Current, PairIn DEF States, KnRec
<1> HIDE DEF k, n
<1>5. Changed(n(exit), State, q, p) /\ n(exit).kn[<<q, p>>] = k(exit)
  BY <1>3, <1>4, Current, PutChanged
<1>6. Changed(ProcPidArm(n(exit), q, p), State, q, p)
  <2>1. Changed(ProcPidArm(n(exit), q, p), n(exit), q, p)
    BY <1>3, <1>5, ArmChanged DEF Changed
  <2> QED
    BY SMTT(30), <1>5, <2>1, ChangedTrans
<1>7. Changed(ProcPidDisarm(n(exit), q, p), State, q, p)
  <2> DEFINE e == ProcPidDisarm(n(exit), q, p)
             j == [n(exit).kn[<<q, p>>] EXCEPT !.waiter = FALSE]
  <2>0. n(exit) \in States /\ Linked(n(exit))
    BY <1>5 DEF Changed
  <2>1. n(exit).kn \in [Pairs -> KnRec] /\ n(exit).kn[<<q, p>>] \in KnRec
    BY <2>0, PairIn DEF States
  <2>2. j \in KnRec /\ ~j.waiter /\ j.error = n(exit).kn[<<q, p>>].error
    BY Zenon, <2>1 DEF KnRec
  <2>3. DisarmedTo([e EXCEPT !.kn[<<q, p>>] = j], n(exit), q, p, j)
    BY Zenon, <2>0, <2>2, DisarmChanged
  <2>4. Disarmed(e, n(exit), q, p)
    BY <2>0, DisarmLinked
  <2> HIDE DEF e
  <2>5. e \in States /\ e.kn = [n(exit).kn EXCEPT ![<<q, p>>].waiter = FALSE]
    BY <2>4 DEF Disarmed
  <2>6. e.kn[<<q, p>>] = j
    BY <2>1, <2>5, PairIn
  <2> HIDE DEF j
  <2>7. [e EXCEPT !.kn[<<q, p>>] = j] = e
    BY Zenon, <2>5, <2>6, PairIn DEF States
  <2>8. Changed(e, n(exit), q, p)
    BY <2>3, <2>7 DEF DisarmedTo
  <2> QED
    BY <1>5, <2>8, ChangedTrans DEF e
<1>8. Changed(r(exit), State, q, p)
  BY <1>5, <1>6, <1>7
<1> HIDE DEF r
<1> QED
  BY <1>1, <1>2, <1>8

LEMMA DisableBecomes ==
  ASSUME WaitInv, NEW q \in Kqueues, NEW p \in Pids, Disable(q, p)
  PROVE  Change(q, p) /\ \E r : Changed(r, State, q, p) /\ Becomes(r)
<1> DEFINE r == [ProcPidDisarm(State, q, p) EXCEPT !.kn[<<q, p>>].disabled = TRUE]
<1>1. Change(q, p) /\ Becomes(r)
  BY DEF Disable
<1>2. Changed(r, State, q, p)
  BY Current, DisableChanged
<1> HIDE DEF r
<1> QED
  BY <1>1, <1>2

LEMMA EnableBecomes ==
  ASSUME WaitInv, NEW q \in Kqueues, NEW p \in Pids, Enable(q, p)
  PROVE  Change(q, p) /\ \E r : Changed(r, State, q, p) /\ Becomes(r)
<1> DEFINE k == [kn[<<q, p>>] EXCEPT !.disabled = FALSE]
           n == [State EXCEPT !.kn[<<q, p>>].disabled = FALSE]
           r == IF kn[<<q, p>>].exit THEN ProcPidArm(n, q, p) ELSE n
<1>1. Change(q, p) /\ kn[<<q, p>>].live /\ Becomes(r)
  BY DEF Enable
<1>2. /\ k \in KnRec /\ k.live /\ ~k.disabled
      /\ k.error = kn[<<q, p>>].error /\ k.waiter = kn[<<q, p>>].waiter
  BY Zenon, <1>1, Current DEF KnRec
<1>3. n = [State EXCEPT !.kn[<<q, p>>] = k]
  BY Zenon, Current, PairIn DEF States, KnRec
<1> HIDE DEF k, n
<1>4. Changed(n, State, q, p) /\ n.kn[<<q, p>>] = k
  BY <1>2, <1>3, Current, PutChanged
<1>5. Changed(ProcPidArm(n, q, p), State, q, p)
  <2>1. Changed(ProcPidArm(n, q, p), n, q, p)
    BY <1>2, <1>4, ArmChanged DEF Changed
  <2> QED
    BY SMTT(30), <1>4, <2>1, ChangedTrans
<1>6. Changed(r, State, q, p)
  BY <1>4, <1>5
<1> HIDE DEF r
<1> QED
  BY <1>1, <1>6

\* EV_DELETE, and the delivery of an exit, which deletes the knote.
LEMMA DeleteBecomes ==
  ASSUME WaitInv, NEW q \in Kqueues, NEW p \in Pids, Delete(q, p) \/ CopyoutOne(q, p)
  PROVE  \E r : /\ Changed(r, State, q, p) /\ Becomes(r)
                /\ r.kn = [kn EXCEPT ![<<q, p>>] = NoKnote]
                /\ r.ready = [ready EXCEPT ![q] = @ \ {p}]
<1> DEFINE r == [ProcPidDisarm(State, q, p) EXCEPT !.kn[<<q, p>>] = NoKnote]
<1>1. Becomes(r)
  BY DEF Delete, CopyoutOne
<1>2. NoKnote \in KnRec /\ ~NoKnote.waiter /\ ~NoKnote.live /\ ~NoKnote.error
  BY DEF NoKnote, KnRec
<1>3. DisarmedTo(r, State, q, p, NoKnote)
  BY <1>2, Current, DisarmChanged
<1> HIDE DEF r
<1> QED
  BY Zenon, <1>1, <1>3, Current DEF DisarmedTo

LEMMA DeleteInv ==
  ASSUME WaitInv, NEW q \in Kqueues, NEW p \in Pids, Delete(q, p) \/ CopyoutOne(q, p)
  PROVE  WaitInv'
<1>1. /\ Unlocked
      /\ UNCHANGED <<kq, count, joining, thread, todo, cur, raising, chld, copyout>>
  BY DEF Delete, CopyoutOne, walks
<1>2. NoKnote \in KnRec /\ ~NoKnote.live
  BY DEF NoKnote, KnRec
<1>4. PICK r : /\ Changed(r, State, q, p) /\ Becomes(r)
               /\ r.kn = [kn EXCEPT ![<<q, p>>] = NoKnote]
               /\ r.ready = [ready EXCEPT ![q] = @ \ {p}]
  BY DeleteBecomes
<1>5. ~r.kn[<<q, p>>].live
  BY <1>2, <1>4, Current, PairIn
<1>6. /\ left \in [Kqueues -> SUBSET Pids] /\ left[q] \subseteq ready[q]
      /\ left[q] # {} => copyout[q] = "walk"
      /\ ready \in [Kqueues -> SUBSET Pids]
  BY Fields DEF WaitInv, Types, Held
<1>7. /\ left' \in [Kqueues -> SUBSET Pids]
      /\ \A o \in Kqueues : o # q => left'[o] = left[o]
      /\ left'[q] \subseteq left[q] \ {p}
  <2>1. CASE Delete(q, p)
    <3>1. left[q] = {} /\ left' = left
      BY <1>6, <2>1 DEF Delete, walks
    <3> QED
      BY <1>6, <3>1
  <2>2. CASE CopyoutOne(q, p)
    <3>1. left' = [left EXCEPT ![q] = @ \ {p}]
      BY <2>2 DEF CopyoutOne
    <3> QED
      BY <1>6, <3>1
  <2> QED
    BY <2>1, <2>2
<1>8. left'[q] \subseteq r.ready[q] /\ (left'[q] # {} => copyout[q] = "walk")
  BY <1>4, <1>6, <1>7
<1> QED
  BY Zenon, <1>1, <1>4, <1>5, <1>7, <1>8, BecomesInv

\* A step that leaves knotes and kf_ready alone.
LEMMA SameState ==
  ASSUME WaitInv, UNCHANGED <<kn, ready>>, efd' \in [Kqueues -> BOOLEAN]
  PROVE  State' \in States /\ (Linked(State))'
<1>1. kn \in [Pairs -> KnRec] /\ ready \in [Kqueues -> SUBSET Pids]
  BY Fields DEF WaitInv
<1>2. State' = [kn |-> kn, ready |-> ready, efd |-> efd']
  BY DEF State
<1>3. State' \in States /\ State'.kn = kn /\ State'.ready = ready
  BY <1>1, <1>2 DEF States
<1> QED
  BY <1>3, Fields DEF WaitInv, Held, Linked

\* A step of the thread or of processes that notifies nobody.
LEMMA ThreadInv ==
  ASSUME WaitInv, UNCHANGED <<kq, count, kn, ready, efd, copyout, left, raising>>,
         joining' \in BOOLEAN, todo' \subseteq Pids,
         chld' \in Pids \cup {None}, cur' \in Pids \cup {None},
         thread' \in {"insert", "raise"} => cur' \in Pids,
         \/ UNCHANGED <<thread, cur, joining>>
         \/ /\ thread \notin {"none", "raise"} /\ UNCHANGED joining
            /\ thread' \in {"scan", "insert", "wait"}
         \/ joining /\ ~joining' /\ thread = "wait" /\ thread' = "none"
  PROVE  WaitInv'
<1>0. Types /\ Counted /\ Held
  BY DEF WaitInv
<1>1. State' \in States /\ (Linked(State))'
  BY <1>0, SameState, Fields
<1>2. Types'
  BY <1>0, <1>1 DEF Types
<1>3. Counted'
  BY <1>0 DEF Counted, InUse
<1>4. Held'
  BY <1>0, <1>1 DEF Held
<1> QED
  BY <1>2, <1>3, <1>4 DEF WaitInv

\* The waiters that the thread notifies: kf_ready, then the eventfd.
LEMMA NotifyKnotes ==
  ASSUME WaitInv, NEW q \in Kqueues, WaiterNotify(q) \/ WaiterNotifyError(q)
  PROVE  /\ kn' \in [Pairs -> KnRec]
         /\ \A x \in Pairs : /\ kn'[x].live = kn[x].live
                             /\ kn'[x].disabled = kn[x].disabled
                             /\ kn'[x].waiter => kn[x].waiter
                             /\ kn'[x].error => kn[x].error \/ (x = <<q, cur>> /\ failed)
<1> DEFINE c == <<q, cur>>
<1>0. cur \in Pids /\ kn \in [Pairs -> KnRec] /\ c \in Pairs /\ kn[c] \in KnRec
  BY Fields, PairIn DEF WaitInv, Types, WaiterNotify, WaiterNotifyError, Insert
<1>1. PICK v \in KnRec : /\ kn' = [kn EXCEPT ![c] = v] /\ ~v.waiter
                         /\ v.live = kn[c].live /\ v.disabled = kn[c].disabled
                         /\ v.error => kn[c].error \/ failed
  <2>1. CASE WaiterNotify(q)
    <3> DEFINE v == [kn[c] EXCEPT !.waiter = FALSE]
    <3>1. /\ v \in KnRec /\ ~v.waiter /\ v.live = kn[c].live
          /\ v.disabled = kn[c].disabled /\ v.error = kn[c].error
      BY Zenon, <1>0 DEF KnRec
    <3>2. kn' = [kn EXCEPT ![c] = v]
      BY <2>1 DEF WaiterNotify
    <3> QED
      BY Zenon, <3>1, <3>2
  <2>2. CASE WaiterNotifyError(q)
    <3> DEFINE v == [kn[c] EXCEPT !.waiter = FALSE, !.error = TRUE]
    <3>1. v \in KnRec /\ ~v.waiter /\ v.live = kn[c].live /\ v.disabled = kn[c].disabled
      BY Zenon, <1>0 DEF KnRec
    <3>2. kn' = [kn EXCEPT ![c].waiter = FALSE, ![c].error = TRUE] /\ failed
      BY <2>2 DEF WaiterNotifyError
    <3>3. kn' = [kn EXCEPT ![c] = v]
      BY Zenon, <1>0, <3>2 DEF KnRec
    <3> QED
      BY Zenon, <3>1, <3>2, <3>3
  <2> QED
    BY <2>1, <2>2
<1> HIDE DEF c
<1>2. kn' \in [Pairs -> KnRec] /\ \A x \in Pairs : kn'[x] = IF x = c THEN v ELSE kn[x]
  BY <1>0, <1>1
<1> QED
  BY <1>1, <1>2 DEF c

LEMMA NotifyInv ==
  ASSUME WaitInv, Constants, NEW q \in Kqueues, WaiterNotify(q) \/ WaiterNotifyError(q)
  PROVE  WaitInv'
<1>0. Types /\ Counted /\ Held /\ cur \in Pids
  BY DEF WaitInv, Types, WaiterNotify, WaiterNotifyError, Insert
<1>1. /\ thread = "insert" /\ thread' = "raise" /\ raising' = q
      /\ kn[<<q, cur>>].waiter /\ ready' = [ready EXCEPT ![q] = @ \cup {cur}]
      /\ UNCHANGED <<kq, count, joining, todo, cur, chld, efd, copyout, left>>
  BY DEF WaiterNotify, WaiterNotifyError, Insert, walks
<1>2. /\ kn \in [Pairs -> KnRec] /\ ready \in [Kqueues -> SUBSET Pids]
      /\ efd \in [Kqueues -> BOOLEAN] /\ State.kn = kn /\ State.ready = ready
      /\ <<q, cur>> \in Pairs
  BY <1>0, Fields, PairIn
<1>3. /\ kn' \in [Pairs -> KnRec]
      /\ \A x \in Pairs : /\ kn'[x].live = kn[x].live
                          /\ kn'[x].disabled = kn[x].disabled
                          /\ kn'[x].waiter => kn[x].waiter
  BY NotifyKnotes
<1>4. /\ ready' \in [Kqueues -> SUBSET Pids]
      /\ \A o \in Kqueues : ready[o] \subseteq ready'[o]
      /\ \A o \in Kqueues, i \in Pids : i \in ready'[o] => i \in ready[o] \/ kn[<<o, i>>].waiter
      /\ cur \in ready'[q]
  BY SMTT(30), <1>0, <1>1, <1>2
<1>5. State' \in States /\ State'.kn = kn' /\ State'.ready = ready'
  BY <1>1, <1>2, <1>3, <1>4 DEF State, States
<1>6. (Linked(State))'
  <2> SUFFICES ASSUME NEW o \in Kqueues, NEW i \in Pids, i \in ready'[o] \/ kn'[<<o, i>>].waiter
               PROVE  kn'[<<o, i>>].live /\ ~kn'[<<o, i>>].disabled
    BY <1>5 DEF Linked
  <2>1. <<o, i>> \in Pairs
    BY PairIn
  <2>2. i \in ready[o] \/ kn[<<o, i>>].waiter
    BY SMTT(30), <1>3, <1>4, <2>1
  <2>3. kn[<<o, i>>].live /\ ~kn[<<o, i>>].disabled
    BY SMTT(30), <1>0, <1>2, <2>2 DEF Held, Linked
  <2> QED
    BY <1>3, <2>1, <2>3
<1>7. \A o \in Kqueues, i \in Pids : kn'[<<o, i>>].live => kq'[o] # "none"
  BY SMTT(30), <1>0, <1>1, <1>3, PairIn DEF Held
<1>8. Types'
  BY SMTT(30), <1>0, <1>1, <1>5 DEF Types
<1>9. Counted'
  BY SMTT(30), <1>0, <1>1 DEF Counted, InUse
<1>10. Held'
  BY <1>0, <1>1, <1>4, <1>6, <1>7 DEF Held, Constants
<1> QED
  BY <1>8, <1>9, <1>10 DEF WaitInv

LEMMA RaiseInv ==
  ASSUME WaitInv, NotifyRaise
  PROVE  WaitInv'
<1>0. Types /\ Counted /\ Held
  BY DEF WaitInv
<1>1. /\ thread = "raise" /\ raising' = None /\ thread' \in {"insert", "scan"}
      /\ efd' = [efd EXCEPT ![raising] = TRUE]
      /\ UNCHANGED <<kq, count, joining, todo, cur, chld, kn, ready, copyout, left>>
  BY DEF NotifyRaise, walks
<1>2. efd' \in [Kqueues -> BOOLEAN]
  BY ZenonT(30), <1>0, <1>1, Fields
<1>3. State' \in States /\ (Linked(State))'
  BY <1>1, <1>2, SameState
<1>4. Types'
  BY <1>0, <1>1, <1>3 DEF Types
<1>5. Counted'
  BY <1>0, <1>1 DEF Counted, InUse
<1>6. Held'
  BY <1>0, <1>1, <1>3 DEF Held
<1> QED
  BY <1>4, <1>5, <1>6 DEF WaitInv

\* The steps of a copyout that deliver nothing.
LEMMA WalkInv ==
  ASSUME WaitInv, NEW q \in Kqueues, Lower(q) \/ Walk(q) \/ CopyoutEnd(q)
  PROVE  WaitInv'
<1>0. Types /\ Counted /\ Held
  BY DEF WaitInv
<1>1. UNCHANGED <<kq, count, joining, thread, todo, cur, raising, chld, kn, ready>>
  BY SMTT(30) DEF Lower, Walk, CopyoutEnd
<1>2. /\ left \in [Kqueues -> SUBSET Pids] /\ ready \in [Kqueues -> SUBSET Pids]
      /\ copyout \in [Kqueues -> {"idle", "lowered", "walk"}]
      /\ efd \in [Kqueues -> BOOLEAN]
      /\ \A o \in Kqueues : left[o] \subseteq ready[o] /\ (left[o] # {} => copyout[o] = "walk")
  BY <1>0, Fields DEF Types, Held
<1>3. /\ left' \in [Kqueues -> SUBSET Pids] /\ efd' \in [Kqueues -> BOOLEAN]
      /\ copyout' \in [Kqueues -> {"idle", "lowered", "walk"}]
      /\ \A o \in Kqueues : left'[o] \subseteq ready[o] /\ (left'[o] # {} => copyout'[o] = "walk")
  <2>1. CASE Lower(q)
    BY <1>2, <2>1 DEF Lower
  <2>2. CASE Walk(q)
    BY <1>2, <2>2 DEF Walk
  <2>3. CASE CopyoutEnd(q)
    BY <1>2, <2>3 DEF CopyoutEnd
  <2> QED
    BY <2>1, <2>2, <2>3
<1>4. State' \in States /\ (Linked(State))'
  BY SMTT(30), <1>1, <1>3, SameState
<1>5. Types'
  BY <1>0, <1>1, <1>3, <1>4 DEF Types
<1>6. Counted'
  BY <1>0, <1>1 DEF Counted, InUse
<1>7. Held'
  BY <1>0, <1>1, <1>3, <1>4 DEF Held
<1> QED
  BY <1>5, <1>6, <1>7 DEF WaitInv

\* The steps that open and close a kqueue.
LEMMA InUseFinite ==
  ASSUME Constants
  PROVE  IsFiniteSet(InUse) /\ Cardinality(InUse) \in Nat
<1>1. InUse \subseteq Kqueues
  BY DEF InUse
<1> QED
  BY <1>1, FS_Subset, FS_CardinalityType DEF Constants

LEMMA InitFilterInv ==
  ASSUME WaitInv, Constants, NEW q \in Kqueues, InitFilter(q)
  PROVE  WaitInv'
<1>0. Types /\ Counted /\ Held
  BY DEF WaitInv
<1>1. /\ kq[q] = "none" /\ ~joining /\ kq' = [kq EXCEPT ![q] = "open"] /\ count' = count + 1
      /\ thread' = IF count > 0 THEN thread ELSE "start"
      /\ UNCHANGED <<joining, todo, cur, raising, chld, kn, ready, efd, copyout, left>>
  BY DEF InitFilter, walks
<1>2. State' \in States /\ (Linked(State))'
  BY <1>0, <1>1, SameState, Fields
<1>3. Types'
  BY <1>0, <1>1, <1>2 DEF Types
<1>4. InUse' = InUse \cup {q} /\ q \notin InUse
  BY <1>0, <1>1 DEF InUse, Types
<1>5. Cardinality(InUse') = Cardinality(InUse) + 1
  BY <1>4, InUseFinite, FS_AddElement
<1>6. count \in Nat /\ (count = 0 => thread = "none")
  BY <1>0, <1>1 DEF Types, Counted
<1>7. Counted'
  BY <1>0, <1>1, <1>5, <1>6 DEF Counted
<1>8. \A o \in Kqueues : kq[o] # "none" => kq'[o] # "none"
  BY <1>0, <1>1 DEF Types
<1>9. Held'
  BY <1>0, <1>1, <1>2, <1>6, <1>8 DEF Held
<1> QED
  BY <1>3, <1>7, <1>9 DEF WaitInv

LEMMA CloseInv ==
  ASSUME WaitInv, NEW q \in Kqueues, Close(q)
  PROVE  WaitInv'
<1>0. Types /\ Counted /\ Held
  BY DEF WaitInv
<1>1. /\ kq[q] = "open" /\ kq' = [kq EXCEPT ![q] = "closing"]
      /\ UNCHANGED <<count, joining, thread, todo, cur, raising, chld, kn, ready, efd,
                     copyout, left>>
  BY DEF Close, walks
<1>2. State' \in States /\ (Linked(State))'
  BY <1>0, <1>1, SameState, Fields
<1>3. Types'
  BY <1>0, <1>1, <1>2 DEF Types
<1>4. \A o \in Kqueues : kq[o] # "none" <=> kq'[o] # "none"
  BY <1>0, <1>1 DEF Types
<1>5. InUse' = InUse
  BY <1>4 DEF InUse
<1>6. Counted'
  BY <1>0, <1>1, <1>5 DEF Counted
<1>7. Held'
  BY ZenonT(30), <1>0, <1>1, <1>2, <1>4 DEF Held
<1> QED
  BY <1>3, <1>6, <1>7 DEF WaitInv

LEMMA DestroyInv ==
  ASSUME WaitInv, Constants, NEW q \in Kqueues, Destroy(q)
  PROVE  WaitInv'
<1>0. Types /\ Counted /\ Held
  BY DEF WaitInv
<1>1. /\ kq[q] = "closing" /\ ~joining /\ \A p \in Pids : ~kn[<<q, p>>].live
      /\ kq' = [kq EXCEPT ![q] = "none"] /\ count' = count - 1 /\ joining' = (count = 1)
      /\ efd' = [efd EXCEPT ![q] = FALSE]
      /\ UNCHANGED <<thread, todo, cur, raising, chld, kn, ready, copyout, left>>
  BY DEF Destroy, walks
<1>2. efd' \in [Kqueues -> BOOLEAN]
  BY <1>0, <1>1, Fields
<1>3. State' \in States /\ (Linked(State))'
  BY <1>1, <1>2, SameState
<1>4. InUse' = InUse \ {q} /\ q \in InUse
  BY <1>0, <1>1 DEF InUse, Types
<1>5. Cardinality(InUse') = Cardinality(InUse) - 1
  BY <1>4, InUseFinite, FS_RemoveElement
<1>6. Cardinality(InUse) # 0
  BY <1>4, InUseFinite, FS_EmptySet
<1>7. count \in Nat /\ count # 0
  BY SMTT(30), <1>0, <1>6 DEF Types, Counted
<1>8. Types'
  BY <1>0, <1>1, <1>3, <1>7 DEF Types
<1>9. Counted'
  <2>1. count' = 0 <=> count = 1
    BY <1>1, <1>7
  <2>2. joining' <=> count' = 0
    BY <1>1, <2>1, Zenon
  <2>3. thread' # "none"
    BY SMTT(30), <1>0, <1>1, <1>7 DEF Counted
  <2>4. count' = Cardinality(InUse')
    BY <1>0, <1>1, <1>5 DEF Counted
  <2> QED
    BY SMTT(30), <2>2, <2>3, <2>4 DEF Counted
<1>10. \A o \in Kqueues : o # q => kq'[o] = kq[o]
  BY SMTT(30), <1>0, <1>1 DEF Types
<1>11. \A o \in Kqueues, p \in Pids : kn'[<<o, p>>].live => kq'[o] # "none"
  BY SMTT(30), <1>0, <1>1, <1>10 DEF Held
<1>12. Held'
  BY <1>0, <1>1, <1>3, <1>11 DEF Held
<1> QED
  BY <1>8, <1>9, <1>12 DEF WaitInv

\* The steps of the thread and of processes.
LEMMA LoopInv ==
  ASSUME WaitInv, Constants,
         \/ Join \/ Start \/ SigWait \/ ScanEnd
         \/ \E p \in Pids : Exit(p) \/ Reap(p) \/ Scan(p)
  PROVE  WaitInv'
<1>0. Types
  BY DEF WaitInv
<1>1. CASE Join
  BY ZenonT(30), <1>0, <1>1, ThreadInv DEF Join, walks, Types
<1>2. CASE Start
  BY SMTT(30), <1>0, <1>2, ThreadInv DEF Start, walks, Types, Todo
<1>3. CASE SigWait
  BY SMTT(30), <1>0, <1>3, ThreadInv DEF SigWait, walks, Types, Todo
<1>4. CASE ScanEnd
  BY SMTT(30), <1>0, <1>4, ThreadInv DEF ScanEnd, walks, Types
<1>5. ASSUME NEW p \in Pids, Exit(p)
      PROVE  WaitInv'
  BY SMTT(30), <1>0, <1>5, ThreadInv DEF Exit, walks, Types
<1>6. ASSUME NEW p \in Pids, Reap(p)
      PROVE  WaitInv'
  BY SMTT(30), <1>0, <1>6, ThreadInv DEF Reap, walks, Types
<1>7. ASSUME NEW p \in Pids, Scan(p)
      PROVE  WaitInv'
  BY <1>0, <1>7, ThreadInv DEF Scan, walks, Types
<1> QED
  BY <1>1, <1>2, <1>3, <1>4, <1>5, <1>6, <1>7

LEMMA WaitInit ==
  ASSUME Constants, Init
  PROVE  WaitInv
<1>1. NoKnote \in KnRec /\ ~NoKnote.live /\ ~NoKnote.waiter
  BY DEF NoKnote, KnRec
<1>2. kn \in [Pairs -> KnRec] /\ \A x \in Pairs : ~kn[x].live /\ ~kn[x].waiter
  BY <1>1 DEF Init
<1>3. /\ ready \in [Kqueues -> SUBSET Pids] /\ \A q \in Kqueues : ready[q] = {}
      /\ efd \in [Kqueues -> BOOLEAN]
  BY DEF Init
<1>4. State \in States /\ State.kn = kn /\ State.ready = ready
  BY <1>2, <1>3 DEF State, States
<1>5. Types
  BY Zenon, <1>4 DEF Init, Types
<1>6. InUse = {}
  BY DEF Init, InUse
<1>7. Counted
  BY <1>6, FS_EmptySet DEF Init, Counted
<1>8. Linked(State)
  BY <1>2, <1>3, <1>4, PairIn DEF Linked
<1>9. Held
  BY <1>2, <1>8, PairIn DEF Init, Held
<1> QED
  BY <1>5, <1>7, <1>9 DEF WaitInv

LEMMA Invariance ==
  ASSUME Constants, WaitInv, [Next]_vars
  PROVE  WaitInv'
<1>1. ASSUME NEW q \in Kqueues, NEW p \in Pids,
             \/ Add(q, p) \/ Modify(q, p) \/ Disable(q, p) \/ Enable(q, p)
             \/ Delete(q, p) \/ CopyoutOne(q, p)
      PROVE  WaitInv'
  <2>1. CASE Add(q, p) \/ Modify(q, p) \/ Disable(q, p) \/ Enable(q, p)
    BY <2>1, AddBecomes, ModifyBecomes, DisableBecomes, EnableBecomes, ChangeInv
  <2>2. CASE Delete(q, p) \/ CopyoutOne(q, p)
    BY <2>2, DeleteInv
  <2> QED
    BY <1>1, <2>1, <2>2
<1>2. ASSUME NEW q \in Kqueues,
             \/ InitFilter(q) \/ Close(q) \/ Destroy(q)
             \/ Lower(q) \/ Walk(q) \/ CopyoutEnd(q)
             \/ WaiterNotify(q) \/ WaiterNotifyError(q)
      PROVE  WaitInv'
  BY <1>2, InitFilterInv, CloseInv, DestroyInv, WalkInv, NotifyInv
<1>3. CASE \/ Join \/ Start \/ SigWait \/ ScanEnd
           \/ \E p \in Pids : Exit(p) \/ Reap(p) \/ Scan(p)
  BY <1>3, LoopInv
<1>4. CASE NotifyRaise
  BY SMTT(30), <1>4, RaiseInv
<1>5. CASE UNCHANGED vars
  <2>1. Types
    BY DEF WaitInv
  <2> QED
    BY <1>5, <2>1, ThreadInv DEF vars, walks, Types
<1> QED
  BY <1>1, <1>2, <1>3, <1>4, <1>5 DEF Next

LEMMA WaitInvHolds ==
  ASSUME Constants
  PROVE  Spec => []WaitInv
  BY WaitInit, Invariance, PTL DEF Spec

\* proc_waitable_knotes and kf_ready hold only enabled knotes that exist, of
\* kqueues that have the filter; so does the walk of a copyout; and the eventfd
\* that the wait thread is about to raise is not closed.
THEOREM ReferencesLiveHolds ==
  ASSUME Constants
  PROVE  Spec => []ReferencesLive
<1>1. WaitInv => ReferencesLive
  <2> HAVE WaitInv
  <2>0. Types /\ Held /\ State.kn = kn /\ State.ready = ready
    BY Fields DEF WaitInv
  <2>1. \A q \in Kqueues, p \in Pids :
           p \in ready[q] \/ kn[<<q, p>>].waiter =>
               kq[q] # "none" /\ kn[<<q, p>>].live /\ ~kn[<<q, p>>].disabled
    BY <2>0 DEF Held, Linked
  <2>2. \A q \in Kqueues, p \in Pids : p \in left[q] => p \in ready[q]
    BY <2>0 DEF Held
  <2>3. raising # None => raising \in Kqueues /\ cur \in Pids /\ cur \in ready[raising]
    BY <2>0 DEF Held, Types
  <2> QED
    BY ZenonT(30), <2>1, <2>2, <2>3 DEF ReferencesLive
<1> QED
  BY <1>1, WaitInvHolds, PTL

\* The wait thread runs, and is not being joined, as long as there is a knote:
\* evfilt_proc_destroy() stops it only with the last kqueue, whose knotes are
\* gone by then.
THEOREM ThreadServesHolds ==
  ASSUME Constants
  PROVE  Spec => []ThreadServes
<1>1. WaitInv => ThreadServes
  <2> HAVE WaitInv
  <2>0. Types /\ Counted /\ Held
    BY DEF WaitInv
  <2> SUFFICES ASSUME NEW x \in Pairs, kn[x].live
               PROVE  thread # "none" /\ ~joining
    BY DEF ThreadServes
  <2>1. PICK q \in Kqueues, p \in Pids : x = <<q, p>>
    BY SMTT(30) DEF Pairs
  <2>2. q \in InUse
    BY <2>0, <2>1 DEF Held, InUse
  <2>3. Cardinality(InUse) # 0
    BY <2>2, InUseFinite, FS_EmptySet
  <2> QED
    BY <2>0, <2>3 DEF Counted
<1> QED
  BY <1>1, WaitInvHolds, PTL

=============================================================================
