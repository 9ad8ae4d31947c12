--------------------------- MODULE FdStateProofs ---------------------------
(***************************************************************************)
(* Proofs about FdState, for any number of waiting threads, any eventlist  *)
(* room and any flags that programs pass along with EV_ADD, except that    *)
(* EV_DISABLE is not among them.                                           *)
(***************************************************************************)
EXTENDS FdState, TLAPS

KnValue == {NoKnote} \cup SUBSET Flags
RegValue == [ev : SUBSET Filters, et : BOOLEAN, stale : BOOLEAN]

\* The states that are threaded through the calls of a change.
States == [slots : SUBSET Filters, kern : RegValue, rdl : BOOLEAN,
           kn : [Filters -> KnValue], rv : {0, -1}]

KnotesOf(s) == {f \in Filters : s.kn[f] # NoKnote}

\* Whatever became of the descriptor: slots have knotes, and a registration has
\* the bits of the enabled slots and a udata that is not stale; without one
\* nothing is on the ready list.
Consistent(s) ==
    /\ s.slots \subseteq KnotesOf(s)
    /\ s.kern # NoReg => /\ s.kern.ev = FdStateEnabled(s)
                         /\ s.kern.ev # {}
                         /\ ~s.kern.stale
    /\ s.kern = NoReg => s.rdl = FALSE
    /\ sock = "closed" => s.kern = NoReg

\* As long as it is open no slot and no registration is missing either.
Exact(s) ==
    sock = "open" => /\ s.slots = KnotesOf(s)
                     /\ s.kern = NoReg => FdStateEnabled(s) = {}

Good(s) == s \in States /\ Consistent(s) /\ Exact(s)

FdInv == /\ Good(Current)
         /\ sock \in {"open", "closed", "reused"}

NoDisabledAdds == \A fl \in Adds : "EV_DISABLE" \notin fl

\* From s to r no condition of an enabled knote drops off the ready list: the
\* list stays as it is and no knote is enabled, or epoll_ctl polled the socket.
Keeps(s, r) ==
    \/ r.rdl = s.rdl /\ FdStateEnabled(r) \subseteq FdStateEnabled(s)
    \/ FdStateEnabled(r) \cap cond = {}
    \/ r.rdl = TRUE
    \/ sock # "open"

\* What epoll_update() does for a knote that leaves the registration.
LEMMA UpdateDel ==
  ASSUME NEW s \in States, Consistent(s), NEW f \in Filters, NEW delete \in BOOLEAN
  PROVE  LET u == EpollUpdate("DEL", s, f, FALSE, delete)
             have == FdStateEnabled(s)
         IN  /\ u \in States
             /\ u.kn = s.kn
             /\ u.rv = s.rv
             /\ u.slots = IF delete \/ (f \in have /\ s.kern = NoReg)
                            THEN s.slots \ {f} ELSE s.slots
             /\ u.kern = IF s.kern = NoReg \/ f \notin have THEN s.kern
                         ELSE IF have = {f} THEN NoReg
                         ELSE [ev |-> have \ {f}, et |-> FALSE, stale |-> FALSE]
             /\ s.kern = NoReg \/ f \notin have => u.rdl = s.rdl
             /\ s.kern # NoReg /\ have = {f} => u.rdl = FALSE
             /\ s.kern # NoReg /\ f \in have /\ (have \ {f}) \cap cond # {} => u.rdl = TRUE
<1> DEFINE have == FdStateEnabled(s)
           want == have \ {f}
           opn == IF have = {} THEN "ADD" ELSE IF want = {} THEN "DEL" ELSE "MOD"
           done == EpollCtl(s, opn, want, FALSE)
           u == EpollUpdate("DEL", s, f, FALSE, delete)
<1>0. /\ s.slots \in SUBSET Filters /\ s.kern \in RegValue /\ s.rdl \in BOOLEAN
      /\ s.kn \in [Filters -> KnValue] /\ s.rv \in {0, -1}
      /\ have \in SUBSET s.slots
  BY DEF States, FdStateEnabled
<1>1. u = IF delete /\ f \in s.slots \ have THEN FdStateDel(s, f)
          ELSE IF have = want THEN s
          ELSE IF ~ Accepts(s, opn) THEN EpollRejected(opn, s, f, want)
          ELSE IF delete THEN FdStateDel(done, f)
          ELSE done
  BY ZenonT(30) DEF EpollUpdate, EpollWant
<1>2. NoReg \in RegValue /\ ~NoReg.stale
  BY DEF NoReg, RegValue
<1>3. /\ FdStateDel(s, f) \in States
      /\ FdStateDel(s, f).kn = s.kn /\ FdStateDel(s, f).rv = s.rv
      /\ FdStateDel(s, f).rdl = s.rdl
      /\ FdStateDel(s, f).slots = s.slots \ {f}
      /\ ~(s.slots = {f} /\ s.kern # NoReg) => FdStateDel(s, f).kern = s.kern
  BY ZenonT(30), <1>0 DEF FdStateDel, States, RegValue
<1> HIDE DEF have, u
<1>4. CASE f \notin have
  <2>1. want = have
    BY <1>4
  <2>2. s.slots = {f} => s.kern = NoReg
    BY <1>0, <1>4 DEF Consistent, have
  <2>3. CASE delete /\ f \in s.slots
    BY ZenonT(30), <1>1, <1>3, <1>4, <2>2, <2>3 DEF u, have
  <2>4. CASE ~(delete /\ f \in s.slots)
    <3>1. u = s
      BY ZenonT(30), <1>1, <2>1, <2>4
    <3>2. delete => s.slots = s.slots \ {f}
      BY <2>4
    <3> QED
      BY ZenonT(30), <1>4, <3>1, <3>2 DEF u, have
  <2> QED
    BY ZenonT(30), <2>3, <2>4
<1>5. CASE f \in have /\ s.kern = NoReg
  <2>1. have # want /\ opn # "ADD" /\ f \in s.slots \ want
    BY <1>0, <1>5
  <2>2. u = FdStateDel(s, f)
    BY <1>1, <1>5, <2>1 DEF Accepts, EpollRejected
  <2> QED
    BY ZenonT(30), <1>3, <1>5, <2>2 DEF u, have
<1>6. CASE f \in have /\ s.kern # NoReg
  <2>1. have # want /\ opn # "ADD" /\ f \in s.slots
    BY <1>0, <1>6
  <2>2. u = IF delete THEN FdStateDel(done, f) ELSE done
    BY <1>1, <1>6, <2>1 DEF Accepts
  <2>3. /\ done \in States /\ done.slots = s.slots /\ done.kn = s.kn /\ done.rv = s.rv
        /\ done.kern = IF want = {} THEN NoReg
                       ELSE [ev |-> want, et |-> FALSE, stale |-> FALSE]
        /\ want = {} => done.rdl = FALSE
        /\ want \cap cond # {} => done.rdl = TRUE
    BY ZenonT(30), <1>0, <1>2, <2>1 DEF EpollCtl, States, RegValue
  <2>4. want = {} <=> have = {f}
    BY <1>6
  <2> HIDE DEF done, want
  <2>5. /\ FdStateDel(done, f) \in States /\ FdStateDel(done, f).kn = s.kn
        /\ FdStateDel(done, f).rv = s.rv /\ FdStateDel(done, f).rdl = done.rdl
        /\ FdStateDel(done, f).slots = s.slots \ {f}
        /\ ~(done.slots = {f} /\ done.kern # NoReg) => FdStateDel(done, f).kern = done.kern
    BY ZenonT(30), <2>3 DEF FdStateDel, States, RegValue
  <2>6. done.slots = {f} => done.kern = NoReg
    BY <1>0, <1>6, <2>3, <2>4
  <2> QED
    BY ZenonT(30), <1>6, <2>2, <2>3, <2>4, <2>5, <2>6 DEF u, have, want
<1> QED
  BY ZenonT(30), <1>4, <1>5, <1>6

\* What epoll_update() does for a knote that joins the registration: u is the
\* state it leaves.
Joins(u, s, f, et) ==
    /\ u \in States
    /\ u.kn = s.kn
    /\ u.rv = 0 => /\ u.slots = s.slots \cup {f}
                   /\ u.kern = [ev |-> FdStateEnabled(s) \cup {f}, et |-> et, stale |-> FALSE]
                   /\ sock # "closed"
                   /\ (FdStateEnabled(s) \cup {f}) \cap cond # {} => u.rdl = TRUE
    /\ u.rv # 0 => /\ u.slots \in {s.slots, s.slots \ {f}}
                   /\ u.kern = NoReg /\ s.kern = NoReg /\ u.rdl = s.rdl
                   /\ FdStateEnabled(s) = {} => sock = "closed"
                   /\ sock # "closed" => u.slots = s.slots

LEMMA UpdateAdd ==
  ASSUME NEW s \in States, Consistent(s), NEW f \in Filters, f \notin FdStateEnabled(s),
         NEW et \in BOOLEAN, s.rv = 0
  PROVE  Joins(EpollUpdate("ADD", s, f, et, FALSE), s, f, et)
<1> DEFINE have == FdStateEnabled(s)
           want == have \cup {f}
           opn == IF have = {} THEN "ADD" ELSE "MOD"
           added == FdStateMod(s, f)
           done == EpollCtl(added, opn, want, et)
           u == EpollUpdate("ADD", s, f, et, FALSE)
<1>0. /\ s.slots \in SUBSET Filters /\ s.kern \in RegValue /\ s.rdl \in BOOLEAN
      /\ s.kn \in [Filters -> KnValue] /\ s.rv \in {0, -1}
      /\ have \in SUBSET s.slots
  BY DEF States, FdStateEnabled
<1>1. have # want /\ want # {}
  OBVIOUS
<1>2. u = IF ~ Accepts(s, opn) THEN EpollRejected(opn, s, f, want) ELSE done
  BY <1>1 DEF EpollUpdate, EpollWant
<1>3. /\ added \in States /\ added.slots = s.slots \cup {f} /\ added.kn = s.kn
      /\ added.rv = 0 /\ added.kern = s.kern /\ added.rdl = s.rdl
  BY <1>0 DEF FdStateMod, States
<1>4. have = {} => s.kern = NoReg
  BY DEF Consistent
<1> HIDE DEF added, have
<1>5. CASE Accepts(s, opn)
  <2>1. /\ done \in States /\ done.slots = s.slots \cup {f} /\ done.kn = s.kn /\ done.rv = 0
        /\ done.kern = [ev |-> want, et |-> et, stale |-> FALSE]
        /\ want \cap cond # {} => done.rdl = TRUE
    BY ZenonT(30), <1>0, <1>3 DEF EpollCtl, States, RegValue
  <2>2. sock # "closed"
    BY <1>5 DEF Accepts, Consistent
  <2> QED
    BY ZenonT(30), <1>2, <1>5, <2>1, <2>2 DEF have, Joins
<1>6. CASE ~Accepts(s, opn) /\ have = {}
  <2>1. sock = "closed" /\ s.kern = NoReg
    BY <1>4, <1>6 DEF Accepts
  <2>2. u = [FdStateDel(added, f) EXCEPT !.rv = -1]
    BY ZenonT(30), <1>2, <1>6 DEF EpollRejected, added
  <2> DEFINE d == FdStateDel(added, f)
  <2>3. /\ d \in States /\ d.kn = s.kn /\ d.slots = (s.slots \cup {f}) \ {f}
        /\ d.rdl = s.rdl
        /\ ~(added.slots = {f} /\ added.kern # NoReg) => d.kern = added.kern
    BY ZenonT(30), <1>3 DEF FdStateDel, States, RegValue
  <2> HIDE DEF d
  <2>4. /\ u \in States /\ u.kn = s.kn /\ u.rv = -1 /\ u.slots = s.slots \ {f}
        /\ u.kern = NoReg /\ u.rdl = s.rdl
    <3>1. u = [d EXCEPT !.rv = -1]
      BY ZenonT(30), <2>2 DEF d
    <3>2. d.kern = NoReg /\ d.slots = s.slots \ {f}
      BY <1>3, <2>1, <2>3
    <3> QED
      BY ZenonT(30), <2>3, <3>1, <3>2 DEF States
  <2> HIDE DEF u
  <2>5. u.rv # 0
    BY <2>4
  <2> QED
    BY ZenonT(30), <1>6, <2>1, <2>4, <2>5 DEF u, have, Joins
<1>7. CASE ~Accepts(s, opn) /\ have # {}
  <2>1. s.kern = NoReg
    BY <1>7 DEF Accepts
  <2>2. u = [s EXCEPT !.rv = -1]
    BY ZenonT(30), <1>2, <1>7 DEF EpollRejected
  <2>3. /\ u \in States /\ u.kn = s.kn /\ u.rv = -1 /\ u.slots = s.slots
        /\ u.kern = NoReg /\ u.rdl = s.rdl
    BY ZenonT(30), <1>0, <2>1, <2>2 DEF States
  <2> HIDE DEF u
  <2>4. u.rv # 0
    BY <2>3
  <2> QED
    BY ZenonT(30), <1>7, <2>1, <2>3, <2>4 DEF u, have, Joins
<1> QED
  BY ZenonT(30), <1>5, <1>6, <1>7

\* The components of a state.
LEMMA StateFields ==
  ASSUME NEW s \in States
  PROVE  /\ s.slots \in SUBSET Filters /\ s.kern \in RegValue /\ s.rdl \in BOOLEAN
         /\ s.kn \in [Filters -> KnValue] /\ s.rv \in {0, -1}
         /\ FdStateEnabled(s) = {g \in s.slots : "EV_DISABLE" \notin s.kn[g]}
  BY DEF States, FdStateEnabled

\* knote_delete() leaves no slot and no registration behind.
LEMMA DeleteGood ==
  ASSUME NEW s, Good(s), s.rv = 0, NEW f \in Filters
  PROVE  /\ Good(KnoteDelete(s, f)) /\ KnoteDelete(s, f).rv = 0
         /\ KnotesOf(KnoteDelete(s, f)) = KnotesOf(s) \ {f}
         /\ Keeps(s, KnoteDelete(s, f))
<1> DEFINE u == KnDelete(s, f)
           have == FdStateEnabled(s)
           r == [u EXCEPT !.kn[f] = NoKnote]
<1>0. s \in States /\ Consistent(s) /\ Exact(s) /\ s.rv = 0
  BY DEF Good
<1>1. /\ s.slots \in SUBSET Filters /\ s.kern \in RegValue /\ s.kn \in [Filters -> KnValue]
      /\ have = {g \in s.slots : "EV_DISABLE" \notin s.kn[g]}
  BY <1>0, StateFields
<1>2. /\ u \in States /\ u.kn = s.kn /\ u.rv = 0 /\ u.slots = s.slots \ {f}
      /\ u.kern = IF s.kern = NoReg \/ f \notin have THEN s.kern
                  ELSE IF have = {f} THEN NoReg
                  ELSE [ev |-> have \ {f}, et |-> FALSE, stale |-> FALSE]
      /\ s.kern = NoReg \/ f \notin have => u.rdl = s.rdl
      /\ s.kern # NoReg /\ have = {f} => u.rdl = FALSE
      /\ s.kern # NoReg /\ f \in have /\ (have \ {f}) \cap cond # {} => u.rdl = TRUE
  BY <1>0, UpdateDel, Zenon DEF KnDelete
<1> HIDE DEF u, have
<1>3. /\ r \in States /\ r.slots = u.slots /\ r.kern = u.kern /\ r.rv = 0 /\ r.rdl = u.rdl
      /\ r.kn = [s.kn EXCEPT ![f] = NoKnote]
  BY <1>2 DEF States, KnValue
<1> HIDE DEF r
<1>4. FdStateEnabled(r) = have \ {f}
  BY <1>1, <1>2, <1>3 DEF FdStateEnabled
<1>5. KnotesOf(r) = KnotesOf(s) \ {f}
  BY <1>1, <1>3 DEF KnotesOf
<1>6. Consistent(r)
  <2>1. r.slots \subseteq KnotesOf(r)
    BY <1>0, <1>2, <1>3, <1>5 DEF Consistent
  <2>2. ASSUME r.kern # NoReg
        PROVE  r.kern.ev = have \ {f} /\ r.kern.ev # {} /\ ~r.kern.stale
    BY <1>0, <1>2, <1>3, <2>2 DEF Consistent, have
  <2>3. sock = "closed" => r.kern = NoReg
    BY <1>0, <1>2, <1>3 DEF Consistent
  <2>4. r.kern = NoReg => r.rdl = FALSE
    BY <1>0, <1>2, <1>3 DEF Consistent, NoReg
  <2> QED
    BY <1>4, <2>1, <2>2, <2>3, <2>4 DEF Consistent
<1>7. Exact(r)
  <2> SUFFICES ASSUME sock = "open"
               PROVE  r.slots = KnotesOf(r) /\ (r.kern = NoReg => FdStateEnabled(r) = {})
    BY DEF Exact
  <2>1. s.slots = KnotesOf(s) /\ (s.kern = NoReg => have = {})
    BY <1>0 DEF Exact, have
  <2>2. r.kern = NoReg => have \ {f} = {}
    BY <1>2, <1>3, <2>1 DEF NoReg
  <2> QED
    BY <1>2, <1>3, <1>4, <1>5, <2>1, <2>2
<1>8. KnoteDelete(s, f) = r
  BY DEF KnoteDelete, r, u
<1>9. Keeps(s, r)
  BY <1>2, <1>3, <1>4 DEF Keeps, have
<1> QED
  BY <1>3, <1>5, <1>6, <1>7, <1>8, <1>9 DEF Good

\* knote_disable() takes the bit of the knote out of the registration.
LEMMA DisableGood ==
  ASSUME NEW s, Good(s), s.rv = 0, NEW f \in KnotesOf(s)
  PROVE  /\ Good(KnoteDisable(s, f)) /\ KnoteDisable(s, f).rv = 0
         /\ KnotesOf(KnoteDisable(s, f)) = KnotesOf(s)
         /\ Keeps(s, KnoteDisable(s, f))
<1> DEFINE u == KnDisable(s, f)
           have == FdStateEnabled(s)
           r == [u EXCEPT !.kn[f] = @ \cup {"EV_DISABLE"}]
<1>0. s \in States /\ Consistent(s) /\ Exact(s) /\ s.rv = 0 /\ f \in Filters
      /\ s.kn[f] # NoKnote
  BY DEF Good, KnotesOf
<1>1. /\ s.slots \in SUBSET Filters /\ s.kern \in RegValue /\ s.kn \in [Filters -> KnValue]
      /\ have = {g \in s.slots : "EV_DISABLE" \notin s.kn[g]}
  BY <1>0, StateFields
<1>2. /\ u \in States /\ u.kn = s.kn /\ u.rv = 0
      /\ u.slots = IF f \in have /\ s.kern = NoReg THEN s.slots \ {f} ELSE s.slots
      /\ u.kern = IF s.kern = NoReg \/ f \notin have THEN s.kern
                  ELSE IF have = {f} THEN NoReg
                  ELSE [ev |-> have \ {f}, et |-> FALSE, stale |-> FALSE]
      /\ s.kern = NoReg \/ f \notin have => u.rdl = s.rdl
      /\ s.kern # NoReg /\ have = {f} => u.rdl = FALSE
      /\ s.kern # NoReg /\ f \in have /\ (have \ {f}) \cap cond # {} => u.rdl = TRUE
  BY <1>0, UpdateDel, Zenon DEF KnDisable
<1> HIDE DEF u, have
<1>3. CASE "EV_DISABLE" \in s.kn[f]
  <2>1. KnoteDisable(s, f) = s
    BY <1>0, <1>3 DEF KnoteDisable, States
  <2> QED
    BY <2>1 DEF Keeps
<1>4. CASE "EV_DISABLE" \notin s.kn[f]
  <2>1. KnoteDisable(s, f) = r
    BY <1>2, <1>4 DEF KnoteDisable, r, u
  <2>2. /\ r \in States /\ r.slots = u.slots /\ r.kern = u.kern /\ r.rv = 0 /\ r.rdl = u.rdl
        /\ r.kn = [s.kn EXCEPT ![f] = @ \cup {"EV_DISABLE"}]
        /\ r.kn[f] # NoKnote
    BY <1>0, <1>1, <1>2 DEF States, KnValue, Flags, NoKnote
  <2> HIDE DEF r
  <2>3. FdStateEnabled(r) = have \ {f}
    BY <1>0, <1>1, <1>2, <2>2 DEF FdStateEnabled
  <2>4. KnotesOf(r) = KnotesOf(s)
    BY <1>0, <1>1, <2>2 DEF KnotesOf
  <2>5. Consistent(r)
    <3>1. r.slots \subseteq KnotesOf(r)
      BY <1>0, <1>2, <2>2, <2>4 DEF Consistent
    <3>2. ASSUME r.kern # NoReg
          PROVE  r.kern.ev = have \ {f} /\ r.kern.ev # {} /\ ~r.kern.stale
      BY <1>0, <1>2, <2>2, <3>2 DEF Consistent, have
    <3>3. sock = "closed" => r.kern = NoReg
      BY <1>0, <1>2, <2>2 DEF Consistent
    <3>4. r.kern = NoReg => r.rdl = FALSE
      BY <1>0, <1>2, <2>2 DEF Consistent, NoReg
    <3> QED
      BY <2>3, <3>1, <3>2, <3>3, <3>4 DEF Consistent
  <2>6. Exact(r)
    <3> SUFFICES ASSUME sock = "open"
                 PROVE  r.slots = KnotesOf(r) /\ (r.kern = NoReg => FdStateEnabled(r) = {})
      BY DEF Exact
    <3>1. s.slots = KnotesOf(s) /\ (s.kern = NoReg => have = {})
      BY <1>0 DEF Exact, have
    <3>2. r.kern = NoReg => have \ {f} = {}
      BY <1>2, <2>2, <3>1 DEF NoReg
    <3> QED
      BY <1>2, <2>2, <2>3, <2>4, <3>1, <3>2
  <2>7. Keeps(s, r)
    BY <1>2, <2>2, <2>3 DEF Keeps, have
  <2> QED
    BY <2>1, <2>2, <2>4, <2>5, <2>6, <2>7 DEF Good
<1> QED
  BY <1>3, <1>4

\* A knote that joins the registration, with the flags fl it has afterwards.
LEMMA JoinGood ==
  ASSUME NEW s \in States, Consistent(s), s.rv = 0,
         NEW f \in KnotesOf(s), f \notin FdStateEnabled(s),
         sock = "open" => s.slots \cup {f} = KnotesOf(s),
         NEW et \in BOOLEAN, EpollUpdate("ADD", s, f, et, FALSE).rv = 0,
         NEW fl \in SUBSET Flags, "EV_DISABLE" \notin fl
  PROVE  LET r == [EpollUpdate("ADD", s, f, et, FALSE) EXCEPT !.kn[f] = fl]
         IN  Good(r) /\ Keeps(s, r)
<1> DEFINE u == EpollUpdate("ADD", s, f, et, FALSE)
           have == FdStateEnabled(s)
           r == [u EXCEPT !.kn[f] = fl]
<1>0. f \in Filters /\ s.kn[f] # NoKnote
  BY DEF KnotesOf
<1>1. /\ s.slots \in SUBSET Filters /\ s.kern \in RegValue /\ s.kn \in [Filters -> KnValue]
      /\ have = {g \in s.slots : "EV_DISABLE" \notin s.kn[g]}
  BY StateFields
<1>2. /\ u \in States /\ u.kn = s.kn /\ u.slots = s.slots \cup {f}
      /\ u.kern = [ev |-> have \cup {f}, et |-> et, stale |-> FALSE]
      /\ sock # "closed"
      /\ (have \cup {f}) \cap cond # {} => u.rdl = TRUE
  <2>1. Joins(u, s, f, et) /\ u.rv = 0
    BY ZenonT(30), <1>0, UpdateAdd
  <2> HIDE DEF u
  <2> QED
    BY <2>1 DEF Joins, have
<1> HIDE DEF u, have
<1>3. /\ r \in States /\ r.slots = u.slots /\ r.kern = u.kern /\ r.rdl = u.rdl
      /\ r.kn = [s.kn EXCEPT ![f] = fl] /\ fl # NoKnote
  BY <1>0, <1>1, <1>2 DEF States, KnValue, Flags, NoKnote
<1> HIDE DEF r
<1>4. FdStateEnabled(r) = have \cup {f}
  BY <1>0, <1>1, <1>2, <1>3 DEF FdStateEnabled
<1>5. KnotesOf(r) = KnotesOf(s)
  BY <1>0, <1>1, <1>3 DEF KnotesOf
<1>6. r.kern # NoReg
  BY <1>2, <1>3 DEF NoReg
<1>7. Consistent(r)
  <2>1. r.slots \subseteq KnotesOf(r)
    BY <1>2, <1>3, <1>5 DEF Consistent
  <2>2. r.kern.ev = have \cup {f} /\ r.kern.ev # {} /\ ~r.kern.stale
    BY <1>2, <1>3
  <2> QED
    BY <1>2, <1>4, <1>6, <2>1, <2>2 DEF Consistent
<1>8. Exact(r)
  BY <1>2, <1>3, <1>5, <1>6 DEF Exact
<1>9. Keeps(s, r)
  BY <1>2, <1>3, <1>4 DEF Keeps
<1> QED
  BY <1>3, <1>7, <1>8, <1>9 DEF Good, r, u

\* knote_enable(), whether epoll accepts the registration or not.
LEMMA EnableGood ==
  ASSUME NEW s, Good(s), s.rv = 0, NEW f \in KnotesOf(s)
  PROVE  Good(KnoteEnable(s, f)) /\ Keeps(s, KnoteEnable(s, f))
<1> DEFINE et == "EV_CLEAR" \in s.kn[f]
           u == EpollUpdate("ADD", s, f, et, FALSE)
<1>0. /\ s \in States /\ Consistent(s) /\ Exact(s) /\ f \in Filters
      /\ s.kn[f] # NoKnote /\ et \in BOOLEAN
  BY DEF Good, KnotesOf
<1>1. /\ s.slots \in SUBSET Filters /\ s.kern \in RegValue /\ s.kn \in [Filters -> KnValue]
      /\ FdStateEnabled(s) = {g \in s.slots : "EV_DISABLE" \notin s.kn[g]}
  BY <1>0, StateFields
<1>2. CASE "EV_DISABLE" \notin s.kn[f]
  <2>1. KnoteEnable(s, f) = s
    BY <1>0, <1>2 DEF KnoteEnable, States
  <2> QED
    BY <2>1 DEF Keeps
<1>3. CASE "EV_DISABLE" \in s.kn[f]
  <2>1. f \notin FdStateEnabled(s)
    BY <1>1, <1>3
  <2> HIDE DEF et
  <2>2. Joins(u, s, f, et)
    BY ZenonT(30), <1>0, <2>1, UpdateAdd
  <2>3. KnoteEnable(s, f) = IF u.rv = 0 THEN [u EXCEPT !.kn[f] = @ \ {"EV_DISABLE"}] ELSE u
    BY ZenonT(30), <1>3 DEF KnoteEnable, KnEnable, et
  <2>4. CASE u.rv = 0
    <3>1. s.kn[f] \ {"EV_DISABLE"} \in SUBSET Flags
      BY <1>0, <1>1 DEF KnValue
    <3>2. sock = "open" => s.slots \cup {f} = KnotesOf(s)
      BY <1>0 DEF Exact
    <3>3. LET r == [u EXCEPT !.kn[f] = s.kn[f] \ {"EV_DISABLE"}] IN Good(r) /\ Keeps(s, r)
      BY ZenonT(30), <1>0, <2>1, <2>4, <3>1, <3>2, JoinGood
    <3> HIDE DEF u
    <3>4. [u EXCEPT !.kn[f] = @ \ {"EV_DISABLE"}] = [u EXCEPT !.kn[f] = s.kn[f] \ {"EV_DISABLE"}]
      BY <1>0, <1>1, <2>2 DEF States, Joins
    <3> QED
      BY <2>3, <2>4, <3>3, <3>4 DEF u
  <2>5. CASE u.rv # 0
    <3> HIDE DEF u
    <3>1. Consistent(u)
      BY <1>0, <2>2, <2>5 DEF Consistent, KnotesOf, Joins
    <3>2. sock # "open"
      BY <1>0, <2>2, <2>5 DEF Exact, Joins
    <3> QED
      BY ZenonT(30), <2>2, <2>3, <2>5, <3>1, <3>2 DEF Good, Exact, Joins, Keeps, u
  <2> QED
    BY ZenonT(30), <2>4, <2>5
<1> QED
  BY <1>2, <1>3

LEMMA KeepsTransitive ==
  ASSUME NEW s, NEW r, NEW w, Keeps(s, r), Keeps(r, w)
  PROVE  Keeps(s, w)
  BY DEF Keeps

\* EV_DISPATCH and EV_ONESHOT after a delivery.
LEMMA FlagActionsGood ==
  ASSUME NEW s, Good(s), s.rv = 0, NEW f \in KnotesOf(s)
  PROVE  LET r == KnoteCopyoutFlagActions(s, f)
         IN  /\ Good(r) /\ r.rv = 0 /\ KnotesOf(s) \ {f} \subseteq KnotesOf(r)
             /\ Keeps(s, r)
<1> DEFINE d == IF "EV_DISPATCH" \in s.kn[f] THEN KnoteDisable(s, f) ELSE s
<1>0. f \in Filters
  BY DEF KnotesOf
<1>1. Good(d) /\ d.rv = 0 /\ KnotesOf(d) = KnotesOf(s) /\ Keeps(s, d)
  BY ZenonT(30), DisableGood DEF Keeps
<1> HIDE DEF d
<1>2. /\ Good(KnoteDelete(d, f)) /\ KnoteDelete(d, f).rv = 0
      /\ KnotesOf(KnoteDelete(d, f)) = KnotesOf(d) \ {f}
      /\ Keeps(s, KnoteDelete(d, f))
  BY <1>0, <1>1, DeleteGood, KeepsTransitive
<1>3. KnoteCopyoutFlagActions(s, f) = IF "EV_ONESHOT" \in s.kn[f] THEN KnoteDelete(d, f) ELSE d
  BY DEF KnoteCopyoutFlagActions, d
<1> QED
  BY <1>1, <1>2, <1>3

\* A step that leaves the descriptor alone and ends in a good state.
Changed(b) ==
    /\ \E s : Good(s) /\ Keeps(Current, s) /\ Becomes(s, b)
    /\ UNCHANGED world

LEMMA ChangedInv ==
  ASSUME FdInv, NEW b, Changed(b)
  PROVE  FdInv'
<1>0. PICK s : Good(s) /\ Becomes(s, b)
  BY DEF Changed
<1>1. /\ slots' = s.slots /\ kern' = s.kern /\ rdl' = s.rdl /\ kn' = s.kn /\ sock' = sock
  BY <1>0 DEF Changed, Becomes, world
<1>2. /\ s.slots \in SUBSET Filters /\ s.kern \in RegValue /\ s.rdl \in BOOLEAN
      /\ s.kn \in [Filters -> KnValue]
  BY <1>0, StateFields DEF Good
<1>3. Current' = [slots |-> s.slots, kern |-> s.kern, rdl |-> s.rdl, kn |-> s.kn, rv |-> 0]
  BY <1>1 DEF Current
<1> DEFINE c == [slots |-> s.slots, kern |-> s.kern, rdl |-> s.rdl, kn |-> s.kn, rv |-> 0]
<1>4. /\ c \in States /\ c.slots = s.slots /\ c.kern = s.kern /\ c.kn = s.kn /\ c.rdl = s.rdl
  BY <1>2 DEF States
<1> HIDE DEF c
<1>5. KnotesOf(c) = KnotesOf(s) /\ FdStateEnabled(c) = FdStateEnabled(s)
  BY <1>4 DEF KnotesOf, FdStateEnabled
<1>6. Good(c)
  BY <1>0, <1>4, <1>5 DEF Good, Consistent, Exact
<1>7. (Good(Current))'
  BY <1>1, <1>3, <1>6 DEF Good, Consistent, Exact, KnotesOf, FdStateEnabled, c
<1> QED
  BY <1>1, <1>7 DEF FdInv

\* The fields of the current state.
LEMMA CurrentFields ==
  ASSUME FdInv
  PROVE  /\ Current.slots = slots /\ Current.kern = kern /\ Current.kn = kn
         /\ Current.rdl = rdl /\ Current.rv = 0
         /\ KnotesOf(Current) = Knotes /\ Knotes \subseteq Filters
         /\ slots \in SUBSET Filters /\ kern \in RegValue /\ rdl \in BOOLEAN
         /\ kn \in [Filters -> KnValue]
         /\ FdStateEnabled(Current) = {g \in slots : "EV_DISABLE" \notin kn[g]}
  BY DEF FdInv, Good, Current, States, KnotesOf, Knotes, FdStateEnabled

\* While the socket is open the registration is what the knotes ask for.
LEMMA OpenExact ==
  ASSUME FdInv, sock = "open"
  PROVE  /\ slots = Knotes /\ Enabled = FdStateEnabled(Current) /\ Enabled \subseteq slots
         /\ kern.ev = Enabled
         /\ Enabled # {} => kern # NoReg /\ ~kern.stale
<1>1. /\ slots = Knotes /\ Enabled = FdStateEnabled(Current)
      /\ kern = NoReg => FdStateEnabled(Current) = {}
      /\ kern # NoReg => kern.ev = FdStateEnabled(Current) /\ ~kern.stale
  BY ZenonT(30), CurrentFields DEF FdInv, Good, Consistent, Exact, Enabled
<1> QED
  BY <1>1 DEF NoReg, Enabled

\* EV_ADD of a new knote.
LEMMA CreateChanged ==
  ASSUME FdInv, NoDisabledAdds, NEW f \in Filters, NEW fl \in Adds, Create(f, fl)
  PROVE  Changed(buf)
<1> DEFINE s == [Current EXCEPT !.kn[f] = fl]
           et == "EV_CLEAR" \in fl
           u == EpollUpdate("ADD", s, f, et, FALSE)
           c == KnCreate(s, f)
           back == [c EXCEPT !.kn[f] = NoKnote]
<1>0. /\ fl \in SUBSET Flags /\ fl # NoKnote /\ "EV_DISABLE" \notin fl /\ et \in BOOLEAN
      /\ kn[f] = NoKnote
  BY AddsAssumption DEF NoDisabledAdds, NoKnote, Flags, Create
<1>1. Current \in States /\ Consistent(Current) /\ Exact(Current)
  BY DEF FdInv, Good
<1>2. /\ s \in States /\ s.slots = slots /\ s.kern = kern /\ s.rdl = rdl /\ s.rv = 0
      /\ s.kn = [kn EXCEPT ![f] = fl]
  BY ZenonT(30), <1>0, <1>1, CurrentFields DEF States, KnValue
<1>3. f \notin slots /\ slots \subseteq Knotes
  BY <1>0, <1>1, CurrentFields DEF Consistent, Knotes
<1> HIDE DEF s, et
<1>4. FdStateEnabled(s) = FdStateEnabled(Current)
  BY <1>2, <1>3, CurrentFields DEF FdStateEnabled
<1>4a. ASSUME NEW x, Keeps(s, x) PROVE Keeps(Current, x)
  BY <1>2, <1>4, <1>4a, CurrentFields DEF Keeps
<1>5. KnotesOf(s) = Knotes \cup {f}
  BY <1>0, <1>2, CurrentFields DEF KnotesOf, Knotes
<1>6. Consistent(s)
  BY <1>1, <1>2, <1>3, <1>4, <1>5, CurrentFields DEF Consistent
<1>7. f \notin FdStateEnabled(s)
  BY <1>3, <1>4, CurrentFields
<1>8. Joins(u, s, f, et)
  BY ZenonT(30), <1>0, <1>2, <1>6, <1>7, UpdateAdd
<1>9. c = IF sock = "closed" THEN [s EXCEPT !.rv = -1] ELSE u
  BY <1>2, CurrentFields DEF KnCreate, KnEnable, et
<1>10. Becomes(IF c.rv # 0 THEN back ELSE c, buf) /\ UNCHANGED world
  BY <1>0, Zenon DEF Create, s
<1> HIDE DEF u, c
<1>11. CASE c.rv = 0
  <2>1. sock # "closed" /\ c = u
    BY <1>2, <1>9, <1>11 DEF States
  <2>2. sock = "open" => s.slots \cup {f} = KnotesOf(s)
    BY <1>1, <1>2, <1>5, CurrentFields DEF Exact
  <2>3. Good([u EXCEPT !.kn[f] = fl]) /\ Keeps(s, [u EXCEPT !.kn[f] = fl])
    BY ZenonT(30), <1>0, <1>2, <1>5, <1>6, <1>7, <1>11, <2>1, <2>2, JoinGood DEF u
  <2>4. [u EXCEPT !.kn[f] = fl] = u
    BY <1>2, <1>8, CurrentFields DEF Joins, States
  <2> QED
    BY <1>10, <1>11, <1>4a, <2>1, <2>3, <2>4 DEF Changed
<1>12. CASE c.rv # 0
  <2>1. /\ c \in States /\ c.slots = slots /\ c.kern = kern /\ c.kn = [kn EXCEPT ![f] = fl]
        /\ c.rdl = rdl
    <3>1. CASE sock = "closed"
      BY <1>2, <1>9, <3>1 DEF States
    <3>2. CASE sock # "closed"
      BY <1>2, <1>3, <1>8, <1>9, <1>12, <3>2 DEF Joins
    <3> QED
      BY <3>1, <3>2
  <2>2. /\ back \in States /\ back.slots = slots /\ back.kern = kern /\ back.kn = kn
        /\ back.rdl = rdl
    BY <1>0, <2>1, CurrentFields DEF States, KnValue
  <2> HIDE DEF back
  <2>3. KnotesOf(back) = Knotes /\ FdStateEnabled(back) = FdStateEnabled(Current)
    BY <2>2, CurrentFields DEF KnotesOf, Knotes, FdStateEnabled
  <2>4. Good(back)
    BY <1>1, <2>2, <2>3, CurrentFields DEF Good, Consistent, Exact
  <2>5. Keeps(Current, back)
    BY <2>2, <2>3, CurrentFields DEF Keeps
  <2> QED
    BY <1>10, <1>12, <2>4, <2>5 DEF Changed
<1> QED
  BY <1>11, <1>12

\* A delivery: the read knote's actions are carried out before the write knote's.
LEMMA CopyoutChanged ==
  ASSUME FdInv, NEW t \in Threads, NEW room \in Rooms, Copyout(t, room)
  PROVE  Changed([buf EXCEPT ![t] = NoEvent])
<1> DEFINE d == Delivered(t, room)
           r == IF "read" \in d THEN KnoteCopyoutFlagActions(Current, "read") ELSE Current
           w == IF "write" \in d THEN KnoteCopyoutFlagActions(r, "write") ELSE r
<1>1. d \subseteq slots /\ slots \subseteq Knotes
  BY ZenonT(30), CurrentFields DEF Delivered, FdInv, Good, Consistent
<1>2. Good(Current) /\ Current.rv = 0 /\ d \subseteq KnotesOf(Current)
  BY <1>1, CurrentFields DEF FdInv
<1>3. Becomes(w, [buf EXCEPT ![t] = NoEvent]) /\ UNCHANGED world
  BY DEF Copyout
<1> HIDE DEF d
<1>4. /\ Good(r) /\ r.rv = 0 /\ KnotesOf(Current) \ {"read"} \subseteq KnotesOf(r)
      /\ Keeps(Current, r)
  BY ZenonT(30), <1>2, FlagActionsGood DEF Keeps
<1> HIDE DEF r
<1>5. "write" \in d => "write" \in KnotesOf(r)
  BY <1>2, <1>4
<1>6. Good(w) /\ Keeps(Current, w)
  BY <1>4, <1>5, FlagActionsGood, KeepsTransitive
<1> HIDE DEF w
<1> QED
  BY <1>3, <1>6 DEF Changed

LEMMA FdInit == Init => FdInv
<1> SUFFICES ASSUME Init PROVE FdInv
  OBVIOUS
<1>1. /\ Current \in States /\ Current.slots = {} /\ Current.kern = NoReg
      /\ Current.rdl = FALSE /\ Current.kn = [f \in Filters |-> NoKnote]
  BY ZenonT(30) DEF Init, Current, States, RegValue, NoReg, KnValue
<1>2. KnotesOf(Current) = {} /\ FdStateEnabled(Current) = {}
  BY <1>1 DEF KnotesOf, FdStateEnabled
<1> QED
  BY <1>1, <1>2 DEF FdInv, Good, Consistent, Exact, Init

\* A step that touches neither knotes, slots, registration nor descriptor.
LEMMA SameInv ==
  ASSUME FdInv, UNCHANGED <<kn, slots, kern, sock>>, rdl' \in BOOLEAN, rdl' => rdl \/ kern # NoReg
  PROVE  FdInv'
<1>1. Current' = [Current EXCEPT !.rdl = rdl']
  BY DEF Current
<1>2. Current' \in States
  BY <1>1 DEF FdInv, Good, States
<1>3. /\ Current'.slots = Current.slots /\ Current'.kern = Current.kern /\ Current'.kn = Current.kn
      /\ Current'.rdl = rdl' /\ Current.rdl = rdl /\ Current.kern = kern
  BY DEF Current
<1>4. Current'.kern = NoReg => Current'.rdl = FALSE
  BY <1>3 DEF FdInv, Good, Consistent
<1> QED
  BY <1>2, <1>3, <1>4 DEF FdInv, Good, Consistent, Exact, KnotesOf, FdStateEnabled

\* The descriptor is closed, or its number given away again.
LEMMA DescriptorInv ==
  ASSUME FdInv, CloseFd \/ ReopenFd
  PROVE  FdInv'
<1>0. Current \in States /\ Consistent(Current) /\ Exact(Current)
  BY DEF FdInv, Good
<1>1. CASE CloseFd
  <2>1. /\ slots' = slots /\ kn' = kn /\ kern' = NoReg /\ rdl' = FALSE /\ sock' = "closed"
    BY <1>1 DEF CloseFd
  <2>2. Current' \in States
    BY ZenonT(30), <2>1, CurrentFields DEF Current, States, NoReg, RegValue
  <2>3. Current'.slots = slots /\ Current'.kn = kn /\ Current'.kern = NoReg /\ Current'.rdl = FALSE
    BY <2>1 DEF Current
  <2>4. (Consistent(Current))'
    BY <1>0, <2>1, <2>3, CurrentFields DEF Consistent, KnotesOf, Knotes
  <2> QED
    BY <2>1, <2>2, <2>4 DEF FdInv, Good, Exact
<1>2. CASE ReopenFd
  <2>1. /\ UNCHANGED <<slots, kn, kern, rdl>> /\ sock = "closed"
        /\ sock' = IF Knotes = {} THEN "open" ELSE "reused"
    BY <1>2 DEF ReopenFd
  <2>2. Current' = Current
    BY <2>1 DEF Current
  <2>3. kern = NoReg /\ slots \subseteq Knotes
    BY <1>0, <2>1, CurrentFields DEF Consistent
  <2>4. (Consistent(Current))'
    BY <1>0, <2>1, <2>2, <2>3, CurrentFields DEF Consistent, KnotesOf, FdStateEnabled
  <2>5. (Exact(Current))'
    <3>1. CASE Knotes = {}
      <4>1. slots = {} /\ KnotesOf(Current) = {} /\ FdStateEnabled(Current) = {}
        BY <2>3, <3>1, CurrentFields
      <4> QED
        BY <2>2, <4>1, CurrentFields DEF Exact, KnotesOf, FdStateEnabled
    <3>2. CASE Knotes # {}
      BY <2>1, <3>2 DEF Exact
    <3> QED
      BY <3>1, <3>2
  <2> QED
    BY <1>0, <2>1, <2>2, <2>4, <2>5 DEF FdInv, Good
<1> QED
  BY <1>1, <1>2

\* EV_ADD of a knote that exists changes EV_DISPATCH only.
LEMMA ModifyChanged ==
  ASSUME FdInv, NEW f \in Filters, NEW fl \in Adds, Modify(f, fl)
  PROVE  Changed(buf)
<1> DEFINE v == (kn[f] \ {"EV_DISPATCH"}) \cup (fl \cap {"EV_DISPATCH"})
           s == [Current EXCEPT !.kn[f] = v]
<1>0. /\ Current \in States /\ Consistent(Current) /\ Exact(Current)
      /\ kn[f] # NoKnote /\ fl \subseteq Flags
  BY AddsAssumption DEF FdInv, Good, Modify, Knotes
<1>1. /\ v \in SUBSET Flags /\ v # NoKnote
      /\ "EV_DISABLE" \in v <=> "EV_DISABLE" \in kn[f]
  BY <1>0, CurrentFields DEF KnValue, Flags, NoKnote
<1> HIDE DEF v
<1>2. /\ s \in States /\ s.slots = slots /\ s.kern = kern /\ s.rdl = rdl
      /\ s.kn = [kn EXCEPT ![f] = v]
  BY ZenonT(30), <1>0, <1>1, CurrentFields DEF States, KnValue
<1>3. Becomes(s, buf) /\ UNCHANGED world
  <2>1. [Current EXCEPT !.kn[f] = (@ \ {"EV_DISPATCH"}) \cup (fl \cap {"EV_DISPATCH"})] = s
    BY ZenonT(30), CurrentFields DEF v
  <2> QED
    BY <2>1, Zenon DEF Modify
<1> HIDE DEF s
<1>4. KnotesOf(s) = Knotes /\ FdStateEnabled(s) = FdStateEnabled(Current)
  BY <1>0, <1>1, <1>2, CurrentFields DEF KnotesOf, Knotes, FdStateEnabled
<1>5. Good(s)
  BY <1>0, <1>2, <1>4, CurrentFields DEF Good, Consistent, Exact
<1>6. Keeps(Current, s)
  BY <1>2, <1>4, CurrentFields DEF Keeps
<1> QED
  BY <1>3, <1>5, <1>6 DEF Changed

LEMMA ChangeChanged ==
  ASSUME FdInv, NoDisabledAdds, NEW f \in Filters, Change(f)
  PROVE  Changed(buf)
<1>0. Good(Current) /\ Current.rv = 0 /\ KnotesOf(Current) = Knotes
  BY CurrentFields DEF FdInv
<1>1. ASSUME NEW fl \in Adds, Create(f, fl) PROVE Changed(buf)
  BY <1>1, CreateChanged
<1>2. ASSUME NEW fl \in Adds, Modify(f, fl) PROVE Changed(buf)
  BY <1>2, ModifyChanged
<1>3. CASE Delete(f)
  <2>1. Good(KnoteDelete(Current, f)) /\ Keeps(Current, KnoteDelete(Current, f))
    BY <1>0, DeleteGood
  <2> QED
    BY <1>3, <2>1 DEF Delete, Changed
<1>4. CASE Disable(f)
  <2>1. Good(KnoteDisable(Current, f)) /\ Keeps(Current, KnoteDisable(Current, f))
    BY <1>0, <1>4, DisableGood DEF Disable
  <2> QED
    BY <1>4, <2>1 DEF Disable, Changed
<1>5. CASE Enable(f)
  <2>1. Good(KnoteEnable(Current, f)) /\ Keeps(Current, KnoteEnable(Current, f))
    BY <1>0, <1>5, EnableGood DEF Enable
  <2> QED
    BY <1>5, <2>1 DEF Enable, Changed
<1> QED
  BY <1>1, <1>2, <1>3, <1>4, <1>5 DEF Change

LEMMA FdStep ==
  ASSUME NoDisabledAdds
  PROVE  FdInv /\ [Next]_vars => FdInv'
<1> SUFFICES ASSUME FdInv, [Next]_vars PROVE FdInv'
  OBVIOUS
<1>0. rdl \in BOOLEAN /\ NoReg.ev = {}
  BY CurrentFields DEF NoReg
<1>1. ASSUME NEW f \in Filters, Change(f) PROVE FdInv'
  BY <1>1, ChangeChanged, ChangedInv
<1>2. ASSUME NEW f \in Filters, Arrive(f) \/ Consume(f) PROVE FdInv'
  <2>1. /\ UNCHANGED <<kn, slots, kern, sock>>
        /\ rdl' = rdl \/ rdl' = (rdl \/ f \in kern.ev)
    BY <1>2 DEF Arrive, Consume
  <2>2. rdl' \in BOOLEAN
    BY ZenonT(30), <1>0, <2>1
  <2>3. rdl' => rdl \/ kern # NoReg
    BY ZenonT(30), <1>0, <2>1
  <2> QED
    BY <2>1, <2>2, <2>3, SameInv
<1>3. ASSUME NEW t \in Threads, Fetch(t) PROVE FdInv'
  BY <1>3, SameInv DEF Fetch, world
<1>4. ASSUME NEW t \in Threads, NEW room \in Rooms, Copyout(t, room) PROVE FdInv'
  BY ZenonT(30), <1>4, CopyoutChanged, ChangedInv
<1>5. CASE HangUp
  BY ZenonT(30), <1>5, SameInv DEF HangUp
<1>6. CASE CloseFd \/ ReopenFd
  BY <1>6, DescriptorInv
<1>7. CASE UNCHANGED vars
  BY <1>0, <1>7, SameInv DEF vars
<1> QED
  BY <1>1, <1>2, <1>3, <1>4, <1>5, <1>6, <1>7 DEF Next

LEMMA FdInvariance ==
  ASSUME NoDisabledAdds
  PROVE  Spec => []FdInv
  BY FdInit, FdStep, PTL DEF Spec

\* No slot of an fd_state outlives its knote, although knote_delete() releases
\* the knote whatever kn_delete() returns.
THEOREM SlotsHaveKnotesHolds ==
  ASSUME NoDisabledAdds
  PROVE  Spec => []SlotsHaveKnotes
<1>1. FdInv => SlotsHaveKnotes
  BY ZenonT(30), CurrentFields DEF FdInv, Good, Consistent, SlotsHaveKnotes
<1> QED
  BY <1>1, FdInvariance, PTL

\* epoll_fd_state_del() never frees the udata of a live registration.
THEOREM RegisteredUdataLiveHolds ==
  ASSUME NoDisabledAdds
  PROVE  Spec => []RegisteredUdataLive
<1>1. FdInv => RegisteredUdataLive
  BY ZenonT(30), CurrentFields DEF FdInv, Good, Consistent, RegisteredUdataLive
<1> QED
  BY <1>1, FdInvariance, PTL

\* While the socket is open epoll watches exactly the bits of the enabled knotes:
\* the ADD, MOD and DEL that epoll_update() chooses are always the right ones.
THEOREM RegistrationExactHolds ==
  ASSUME NoDisabledAdds
  PROVE  Spec => []RegistrationExact
<1>1. FdInv => RegistrationExact
  BY OpenExact DEF RegistrationExact
<1> QED
  BY <1>1, FdInvariance, PTL

--------------------------------------------------------------------------------
(* Conditions and fetched events *)

Events == [ev : SUBSET Filters, stale : BOOLEAN]

\* The part of TypeOK that FdInv leaves out.
WorldTypes ==
    /\ cond \subseteq Filters
    /\ hup \in BOOLEAN
    /\ fresh \subseteq cond
    /\ buf \in [Threads -> Events]
    /\ out \subseteq Filters

\* epoll_fd_state_del() marks what the threads have fetched.
LEMMA ChangedTypes ==
  ASSUME NEW b \in [Threads -> Events], Changed(b)
  PROVE  buf' \in [Threads -> Events] /\ UNCHANGED <<sock, cond, hup>>
<1>1. PICK s : Becomes(s, b)
  BY DEF Changed
<1>2. ASSUME NEW e \in Events PROVE [e EXCEPT !.stale = TRUE] \in Events
  BY ZenonT(30) DEF Events
<1> QED
  BY <1>1, <1>2 DEF Becomes, Changed, world

LEMMA TypesStep ==
  ASSUME NoDisabledAdds, FdInv, WorldTypes, [Next]_vars
  PROVE  WorldTypes'
<1>0. NoEvent \in Events /\ kern \in RegValue /\ slots \subseteq Filters
  BY CurrentFields DEF NoEvent, Events
<1>1. ASSUME NEW f \in Filters, Change(f) PROVE WorldTypes'
  <2>1. Changed(buf) /\ out' = {} /\ UNCHANGED fresh
    BY ZenonT(30), <1>1, ChangeChanged DEF Change, Create, Modify, Delete, Disable, Enable
  <2> QED
    BY <2>1, ChangedTypes DEF WorldTypes
<1>2. ASSUME NEW f \in Filters, Arrive(f) \/ Consume(f) PROVE WorldTypes'
  BY <1>2 DEF Arrive, Consume, WorldTypes
<1>3. ASSUME NEW t \in Threads, Fetch(t) PROVE WorldTypes'
  <2> DEFINE ev == IF hup THEN Filters ELSE cond \cap kern.ev
  <2>1. [ev |-> ev, stale |-> kern.stale] \in Events
    BY <1>0 DEF WorldTypes, Events, RegValue
  <2> QED
    BY <1>0, <1>3, <2>1 DEF Fetch, WorldTypes, world
<1>4. ASSUME NEW t \in Threads, NEW room \in Rooms, Copyout(t, room) PROVE WorldTypes'
  <2>1. Changed([buf EXCEPT ![t] = NoEvent]) /\ [buf EXCEPT ![t] = NoEvent] \in [Threads -> Events]
    BY ZenonT(30), <1>0, <1>4, CopyoutChanged DEF WorldTypes
  <2>2. out' \subseteq Filters /\ fresh' \subseteq fresh
    BY <1>0, <1>4 DEF Copyout, Delivered
  <2> QED
    BY ZenonT(30), <2>1, <2>2, ChangedTypes DEF WorldTypes
<1>5. CASE HangUp \/ CloseFd \/ ReopenFd
  BY ZenonT(30), <1>5 DEF HangUp, CloseFd, ReopenFd, WorldTypes
<1>6. CASE UNCHANGED vars
  BY <1>6 DEF vars, WorldTypes
<1> QED
  BY <1>1, <1>2, <1>3, <1>4, <1>5, <1>6 DEF Next

LEMMA TypesInvariance ==
  ASSUME NoDisabledAdds
  PROVE  Spec => []WorldTypes
<1>0. NoEvent \in Events
  BY DEF NoEvent, Events
<1>1. Init => WorldTypes
  BY ZenonT(30), <1>0 DEF Init, WorldTypes
<1>2. FdInv /\ WorldTypes /\ [Next]_vars => WorldTypes'
  BY TypesStep
<1> QED
  BY <1>1, <1>2, FdInvariance, PTL DEF Spec

\* The types, and: nothing is on the ready list without a registration, and a
\* registration that is edge-triggered watches something.
THEOREM TypeOKHolds ==
  ASSUME NoDisabledAdds
  PROVE  Spec => []TypeOK
<1>1. ASSUME FdInv, WorldTypes PROVE TypeOK
  <2>1. Current \in States /\ Consistent(Current)
    BY <1>1 DEF FdInv, Good
  <2>2. (kern = NoReg => ~rdl) /\ (kern.et => kern.ev # {})
    BY SMTT(30), <1>1, <2>1, CurrentFields DEF Consistent, NoReg
  <2> QED
    BY <1>1, <2>2, CurrentFields DEF FdInv, WorldTypes, TypeOK, KnValue, RegValue, Events
<1> QED
  BY <1>1, FdInvariance, TypesInvariance, PTL

\* A step of a knote loses nothing of what is fresh and watched.
LEMMA ChangedLosesNothing ==
  ASSUME FdInv, WorldTypes, NEW b \in [Threads -> Events], Changed(b), fresh' \subseteq cond,
         sock = "open" => \A f \in fresh' \cap Enabled :
                            rdl \/ \E t \in Threads : f \in b[t].ev /\ ~b[t].stale
  PROVE  NothingLost'
<1>1. PICK s : Good(s) /\ Keeps(Current, s) /\ Becomes(s, b)
  BY DEF Changed
<1>2. /\ kn' = s.kn /\ rdl' = s.rdl /\ sock' = sock
      /\ s.slots # {} => buf' = b
  BY <1>1 DEF Changed, Becomes, world
<1> SUFFICES ASSUME sock = "open", NEW f \in fresh', f \in Enabled'
             PROVE  rdl' \/ \E t \in Threads : f \in buf'[t].ev /\ ~buf'[t].stale
  BY <1>2 DEF NothingLost
<1>3. f \in FdStateEnabled(s) /\ s.slots # {}
  BY <1>1, <1>2 DEF Good, Exact, KnotesOf, FdStateEnabled, Enabled, Knotes
<1>4. CASE s.rdl = Current.rdl /\ FdStateEnabled(s) \subseteq FdStateEnabled(Current)
  <2>1. s.rdl = rdl /\ f \in Enabled
    BY <1>3, <1>4, OpenExact, CurrentFields
  <2> QED
    BY <1>2, <1>3, <2>1
<1>5. CASE s.rdl = TRUE
  BY <1>2, <1>5
<1> QED
  BY ZenonT(30), <1>1, <1>3, <1>4, <1>5 DEF Keeps

LEMMA LostStep ==
  ASSUME NoDisabledAdds, 1 \notin Rooms, FdInv, WorldTypes, NothingLost, [Next]_vars
  PROVE  NothingLost'
<1>1. ASSUME NEW f \in Filters, Change(f) PROVE NothingLost'
  <2>1. Changed(buf) /\ UNCHANGED fresh
    BY ZenonT(30), <1>1, ChangeChanged DEF Change, Create, Modify, Delete, Disable, Enable
  <2> QED
    BY <2>1, ChangedLosesNothing DEF WorldTypes, NothingLost
<1>2. ASSUME NEW f \in Filters, Arrive(f) PROVE NothingLost'
  <2>1. sock = "open" /\ f \in Enabled => f \in kern.ev
    BY OpenExact
  <2> QED
    BY ZenonT(30), <1>2, <2>1 DEF Arrive, NothingLost, Enabled, Knotes
<1>3. ASSUME NEW f \in Filters, Consume(f) PROVE NothingLost'
  BY <1>3 DEF Consume, NothingLost, Enabled, Knotes
<1>4. ASSUME NEW t \in Threads, Fetch(t) PROVE NothingLost'
  <2> SUFFICES ASSUME sock = "open", NEW f \in fresh \cap Enabled
               PROVE  f \in buf'[t].ev /\ ~buf'[t].stale
    BY <1>4 DEF Fetch, world, NothingLost, Enabled, Knotes
  <2> DEFINE ev == IF hup THEN Filters ELSE cond \cap kern.ev
  <2>1. f \in ev /\ ~kern.stale
    BY OpenExact DEF WorldTypes
  <2>2. buf'[t] = [ev |-> ev, stale |-> kern.stale]
    BY <1>4, <2>1 DEF Fetch, WorldTypes
  <2> QED
    BY <2>1, <2>2
<1>5. ASSUME NEW t \in Threads, NEW room \in Rooms, Copyout(t, room) PROVE NothingLost'
  <2> DEFINE b == [buf EXCEPT ![t] = NoEvent]
             d == Delivered(t, room)
  <2>1. Changed(b) /\ fresh' = fresh \ d
    BY <1>5, CopyoutChanged DEF Copyout
  <2>2. b \in [Threads -> Events] /\ \A u \in Threads : u # t => b[u] = buf[u]
    BY DEF WorldTypes, NoEvent, Events
  <2>3. sock = "open" => \A f \in Enabled : f \in buf[t].ev /\ ~buf[t].stale => f \in d
    <3>1. room # 1
      OBVIOUS
    <3>2. sock = "open" => Enabled \subseteq slots
      BY OpenExact
    <3> QED
      BY <3>1, <3>2 DEF Delivered
  <2> HIDE DEF b, d
  <2>4. sock = "open" => \A f \in fresh' \cap Enabled :
                           rdl \/ \E u \in Threads : f \in b[u].ev /\ ~b[u].stale
    BY <2>1, <2>2, <2>3 DEF NothingLost
  <2> QED
    BY <2>1, <2>2, <2>4, ChangedLosesNothing DEF WorldTypes
<1>6. CASE HangUp
  <2>1. sock = "open" => \A f \in Enabled : kern # NoReg
    BY OpenExact
  <2> QED
    BY ZenonT(30), <1>6, <2>1 DEF HangUp, NothingLost, Enabled, Knotes
<1>7. CASE CloseFd \/ ReopenFd
  BY <1>7 DEF CloseFd, ReopenFd, NothingLost, Enabled, Knotes
<1>8. CASE UNCHANGED vars
  BY <1>8 DEF vars, NothingLost, Enabled, Knotes
<1> QED
  BY <1>1, <1>2, <1>3, <1>4, <1>5, <1>6, <1>7, <1>8 DEF Next

\* As long as eventlists have room for both filters of a socket, no condition is
\* lost, edge-triggered or not: what was raised since an enabled knote last
\* delivered is on the ready list, or held by a thread that will deliver it.
THEOREM NothingLostHolds ==
  ASSUME NoDisabledAdds, 1 \notin Rooms
  PROVE  Spec => []NothingLost
<1>1. Init => NothingLost
  BY DEF Init, NothingLost
<1>2. FdInv /\ WorldTypes /\ NothingLost /\ [Next]_vars => NothingLost'
  BY LostStep
<1> QED
  BY <1>1, <1>2, FdInvariance, TypesInvariance, PTL DEF Spec
=============================================================================
