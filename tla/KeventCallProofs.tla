-------------------------- MODULE KeventCallProofs --------------------------
(***************************************************************************)
(* Proofs about KeventCall, for changelists and eventlists of any length.  *)
(***************************************************************************)
EXTENDS KeventCall, SequenceTheorems, TLAPS

\* TypeOK with the eventlist as a sequence; and a call that has begun to wait has
\* its changelist behind it, which is what makes ReturnMeansProcessed inductive.
CallInv ==
    /\ changelist \in Seq(Change) /\ Len(changelist) <= MaxChanges
    /\ nevents \in 0 .. MaxEvents
    /\ cl_p \in 1 .. Len(changelist) + 1
    /\ eventlist \in Seq(Entry) /\ Len(eventlist) <= nevents
    /\ errno \in Errno
    /\ nready \in 0 .. MaxEvents
    /\ pc \in {"copyin", "wait", "copyout", "done"}
    /\ ret \in -1 .. MaxEvents
    /\ pc \in {"wait", "copyout"} => cl_p = Len(changelist) + 1
    /\ ReturnMeansProcessed

\* Changes(n) are the sequences of length n.
LEMMA ChangesAreSeq ==
  ASSUME NEW c \in UNION {Changes(n) : n \in 0 .. MaxChanges}
  PROVE  c \in Seq(Change) /\ Len(c) <= MaxChanges
<1>1. PICK n \in 0 .. MaxChanges : c \in [1 .. n -> Change]
  BY DEF Changes
<1>2. n \in Nat
  BY <1>1, BoundsAssumption
<1>3. c \in Seq(Change)
  BY <1>1, <1>2, IsASeq
<1>4. Len(c) = n
  BY <1>1, <1>2, <1>3, LenProperties
<1> QED
  BY <1>1, <1>3, <1>4, BoundsAssumption

\* Writing an entry where there is room, and going on to the next change.
LEMMA PutKeeps ==
  ASSUME CallInv, pc = "copyin", cl_p <= Len(changelist), ~Full,
         NEW d \in Errno, Put([from |-> cl_p, data |-> d])
  PROVE  /\ eventlist' \in Seq(Entry) /\ Len(eventlist') <= nevents
         /\ cl_p' \in 1 .. Len(changelist) + 1
<1>0. Len(changelist) \in Nat /\ Len(eventlist) \in Nat
  BY LenProperties DEF CallInv
<1>1. [from |-> cl_p, data |-> d] \in Entry
  BY <1>0, BoundsAssumption DEF CallInv, Entry
<1>2. Len(eventlist) < nevents
  BY <1>0, BoundsAssumption DEF CallInv, Full
<1> QED
  BY <1>0, <1>1, <1>2, AppendProperties, BoundsAssumption DEF CallInv, Put

LEMMA CallInit == Init => CallInv
<1> SUFFICES ASSUME Init PROVE CallInv
  OBVIOUS
<1>1. changelist \in Seq(Change) /\ Len(changelist) <= MaxChanges
  BY ChangesAreSeq DEF Init
<1>2. Len(changelist) \in Nat
  BY <1>1, LenProperties
<1>3. eventlist \in Seq(Entry) /\ Len(eventlist) = 0
  BY EmptySeq DEF Init
<1> QED
  BY <1>1, <1>2, <1>3, BoundsAssumption DEF Init, CallInv, Errno, ReturnMeansProcessed

\* One step per action; each either leaves the eventlist alone or adds to it no
\* more than fits, and only the end of the changelist leads past "copyin".
LEMMA CallStep == CallInv /\ [Next]_vars => CallInv'
<1> SUFFICES ASSUME CallInv, [Next]_vars PROVE CallInv'
  OBVIOUS
<1>0. Len(changelist) \in Nat /\ Len(eventlist) \in Nat
  BY LenProperties DEF CallInv
<1> USE <1>0, BoundsAssumption
<1>1. CASE CopyinOk
  BY <1>1 DEF CallInv, CopyinOk, args, ReturnMeansProcessed
<1>2. CASE CopyinReceipt
  <2>1. CASE Full
    BY <1>2, <2>1 DEF CallInv, CopyinReceipt, args, Return, Errno, ReturnMeansProcessed
  <2>2. CASE ~Full
    <3>1. Put([from |-> cl_p, data |-> "0"]) /\ UNCHANGED <<pc, ret, errno>>
      BY <1>2, <2>2 DEF CopyinReceipt
    <3>2. /\ eventlist' \in Seq(Entry) /\ Len(eventlist') <= nevents
          /\ cl_p' \in 1 .. Len(changelist) + 1
      BY <1>2, <2>2, <3>1, PutKeeps DEF CopyinReceipt, Errno
    <3> QED
      BY <1>2, <3>1, <3>2 DEF CallInv, CopyinReceipt, args, ReturnMeansProcessed
  <2> QED
    BY <2>1, <2>2
<1>3. CASE CopyinError
  <2>0. Failed(changelist[cl_p].does) \in Errno
    BY DEF CallInv, Failed, Errno
  <2>1. CASE Full
    BY <1>3, <2>0, <2>1 DEF CallInv, CopyinError, args, Return, ReturnMeansProcessed
  <2>2. CASE ~Full
    <3>1. /\ Put([from |-> cl_p, data |-> Failed(changelist[cl_p].does)])
          /\ errno' = "0" /\ UNCHANGED <<pc, ret>>
      BY <1>3, <2>2 DEF CopyinError
    <3>2. /\ eventlist' \in Seq(Entry) /\ Len(eventlist') <= nevents
          /\ cl_p' \in 1 .. Len(changelist) + 1
      BY <1>3, <2>0, <2>2, <3>1, PutKeeps DEF CopyinError
    <3> QED
      BY <1>3, <3>1, <3>2 DEF CallInv, CopyinError, args, Errno, ReturnMeansProcessed
  <2> QED
    BY <2>1, <2>2
<1>4. CASE CopyinDone
  BY <1>4 DEF CallInv, CopyinDone, args, Full, Return, ReturnMeansProcessed
<1>5. ASSUME NEW n \in 1 .. MaxEvents, WaitReady(n) PROVE CallInv'
  BY <1>5 DEF CallInv, WaitReady, args, ReturnMeansProcessed
<1>6. CASE WaitTimeout
  BY <1>6 DEF CallInv, WaitTimeout, args, Return, ReturnMeansProcessed
<1>7. CASE WaitFailed
  BY <1>7 DEF CallInv, WaitFailed, args, Return, Errno, ReturnMeansProcessed
<1>8. ASSUME NEW m \in 0 .. MaxEvents, Copyout(m) PROVE CallInv'
  <2> DEFINE new == [k \in 1 .. m |-> [from |-> 0, data |-> "0"]]
  <2>1. [from |-> 0, data |-> "0"] \in Entry
    BY DEF Entry, Errno
  <2>2. new \in Seq(Entry) /\ Len(new) = m
    <3>1. new \in [1 .. m -> Entry]
      BY <2>1
    <3>2. new \in Seq(Entry)
      BY <3>1, IsASeq
    <3> QED
      BY <3>1, <3>2, LenProperties
  <2> HIDE DEF new
  <2>3. eventlist' = eventlist \o new /\ m <= nevents - Len(eventlist)
    BY <1>8 DEF Copyout, new
  <2>4. eventlist' \in Seq(Entry) /\ Len(eventlist') = Len(eventlist) + m
    BY ZenonT(30), <2>2, <2>3, ConcatProperties DEF CallInv
  <2> QED
    BY <1>8, <2>3, <2>4 DEF CallInv, Copyout, args, Return, ReturnMeansProcessed
<1>9. CASE CopyoutWake
  BY <1>9 DEF CallInv, CopyoutWake, args, Return, Errno, ReturnMeansProcessed
<1>10. CASE UNCHANGED vars
  BY <1>10 DEF CallInv, vars, args, ReturnMeansProcessed
<1> QED
  BY <1>1, <1>2, <1>3, <1>4, <1>5, <1>6, <1>7, <1>8, <1>9, <1>10 DEF Next

LEMMA CallInvariance == Spec => []CallInv
  BY CallInit, CallStep, PTL DEF Spec

\* The types; the eventlist has no more entries than nevents.
THEOREM TypeOKHolds == Spec => []TypeOK
<1>1. ASSUME CallInv PROVE TypeOK
  <2>1. Len(changelist) \in 0 .. MaxChanges /\ changelist \in [1 .. Len(changelist) -> Change]
    BY <1>1, LenProperties, BoundsAssumption DEF CallInv
  <2>2. changelist \in UNION {Changes(n) : n \in 0 .. MaxChanges}
    BY <2>1 DEF Changes
  <2>3. \A k \in DOMAIN eventlist : eventlist[k] \in Entry
    BY <1>1, LenProperties DEF CallInv
  <2> QED
    BY <1>1, <2>2, <2>3 DEF CallInv, TypeOK
<1> QED
  BY <1>1, CallInvariance, PTL

--------------------------------------------------------------------------------
(* The answers in the eventlist *)

\* EntriesInOrder, and: before the wait there are only answers.
OrderInv ==
    /\ EntriesInOrder
    /\ pc = "copyin" => \A k \in DOMAIN eventlist : eventlist[k].from # 0

\* The answer of the change at cl_p.
LEMMA PutInOrder ==
  ASSUME CallInv, OrderInv, pc = "copyin", cl_p <= Len(changelist), Answered(cl_p),
         NEW d \in Errno, Put([from |-> cl_p, data |-> d]), UNCHANGED changelist
  PROVE  OrderInv'
<1> DEFINE n == Len(eventlist)
           e == [from |-> cl_p, data |-> d]
<1>0. /\ n \in Nat /\ Len(changelist) \in Nat /\ cl_p \in Nat \ {0}
      /\ eventlist \in Seq(Entry) /\ DOMAIN eventlist = 1 .. n /\ e \in Entry
  BY LenProperties, BoundsAssumption DEF CallInv, Entry
<1>1. /\ eventlist' = Append(eventlist, e) /\ cl_p' = cl_p + 1
  BY DEF Put
<1> HIDE DEF e
<1>2. /\ DOMAIN eventlist' = 1 .. n + 1 /\ eventlist'[n + 1] = e
      /\ \A k \in 1 .. n : eventlist'[k] = eventlist[k]
  BY <1>0, <1>1, AppendProperties, LenProperties
<1> HIDE DEF n
<1>3. e.from = cl_p
  BY DEF e
<1>4. \A k \in 1 .. n : /\ eventlist[k].from \in 1 .. cl_p - 1 /\ eventlist[k].from >= k
                        /\ \A i \in 1 .. n : i < k => eventlist[i].from < eventlist[k].from
  BY SMTT(30), <1>0 DEF OrderInv, EntriesInOrder
<1>5. n < cl_p
  <2>1. CASE n = 0
    BY <1>0, <2>1
  <2>2. CASE n # 0
    BY <1>0, <1>4, <2>2
  <2> QED
    BY <2>1, <2>2
<1>6. \A k \in 1 .. n + 1 : eventlist'[k].from # 0
  BY <1>0, <1>2, <1>3, <1>4
<1>7. {eventlist'[k].from : k \in 1 .. n + 1} = {j \in 1 .. cl_p : Answered(j)}
  <2>1. {eventlist[k].from : k \in 1 .. n} = {j \in 1 .. cl_p - 1 : Answered(j)}
    BY <1>0 DEF OrderInv, EntriesInOrder
  <2>2. \A k \in 1 .. n + 1 : eventlist'[k].from \in {j \in 1 .. cl_p : Answered(j)}
    <3>1. ASSUME NEW k \in 1 .. n PROVE eventlist'[k].from \in {j \in 1 .. cl_p : Answered(j)}
      <4>1. eventlist[k].from \in {j \in 1 .. cl_p - 1 : Answered(j)}
        BY <2>1
      <4> QED
        BY <1>0, <1>2, <4>1
    <3>2. eventlist'[n + 1].from \in {j \in 1 .. cl_p : Answered(j)}
      BY <1>0, <1>2, <1>3
    <3>3. \A k \in 1 .. n + 1 : k \in 1 .. n \/ k = n + 1
      BY <1>0
    <3> QED
      BY <3>1, <3>2, <3>3
  <2>3. ASSUME NEW j \in 1 .. cl_p, Answered(j) PROVE \E k \in 1 .. n + 1 : eventlist'[k].from = j
    <3>1. CASE j = cl_p
      BY <1>0, <1>2, <1>3, <3>1
    <3>2. CASE j # cl_p
      <4>1. PICK k \in 1 .. n : eventlist[k].from = j
        BY <1>0, <2>1, <2>3, <3>2
      <4> QED
        BY <1>0, <1>2, <4>1
    <3> QED
      BY <3>1, <3>2
  <2> QED
    BY <2>2, <2>3
<1>8. \A k \in 1 .. n + 1 :
        /\ eventlist'[k].from >= k
        /\ \A i \in 1 .. n + 1 : i < k => eventlist'[i].from < eventlist'[k].from
  BY SMTT(30), <1>0, <1>2, <1>3, <1>4, <1>5
<1>9. {k \in DOMAIN eventlist' : eventlist'[k].from # 0} = 1 .. n + 1
  BY <1>2, <1>6
<1>10. {j \in 1 .. cl_p' - 1 : Answered(j)'} = {j \in 1 .. cl_p : Answered(j)}
  BY <1>0, <1>1 DEF Answered, Fails
<1> QED
  BY <1>2, <1>6, <1>7, <1>8, <1>9, <1>10 DEF OrderInv, EntriesInOrder

\* Events behind the answers.
LEMMA CopyoutInOrder ==
  ASSUME CallInv, OrderInv, NEW m \in 0 .. MaxEvents, Copyout(m)
  PROVE  OrderInv'
<1> DEFINE n == Len(eventlist)
           new == [k \in 1 .. m |-> [from |-> 0, data |-> "0"]]
<1>0. n \in Nat /\ m \in Nat /\ eventlist \in Seq(Entry) /\ DOMAIN eventlist = 1 .. n
  BY LenProperties, BoundsAssumption DEF CallInv
<1>1. [from |-> 0, data |-> "0"] \in Entry
  BY BoundsAssumption DEF Entry, Errno
<1>2. new \in Seq(Entry) /\ Len(new) = m
  <2>1. new \in [1 .. m -> Entry]
    BY <1>1
  <2>2. new \in Seq(Entry)
    BY <1>0, <2>1, IsASeq
  <2> QED
    BY <1>0, <2>1, <2>2, LenProperties
<1>3. \A k \in 1 .. m : new[k].from = 0
  OBVIOUS
<1>4. eventlist' = eventlist \o new /\ pc' = "done" /\ UNCHANGED <<changelist, cl_p>>
  BY DEF Copyout, Return, args
<1> HIDE DEF new, n
<1>5. /\ DOMAIN eventlist' = 1 .. n + m
      /\ \A k \in 1 .. n : eventlist'[k] = eventlist[k]
      /\ \A k \in 1 .. n + m : k > n => eventlist'[k] = new[k - n]
  <2>1. /\ eventlist' \in Seq(Entry) /\ Len(eventlist') = n + m
        /\ \A k \in 1 .. n + m : eventlist'[k] = IF k <= n THEN eventlist[k] ELSE new[k - n]
    BY ZenonT(30), <1>0, <1>2, <1>4, ConcatProperties DEF n
  <2>2. DOMAIN eventlist' = 1 .. n + m
    BY <2>1, LenProperties
  <2> QED
    BY <1>0, <2>1, <2>2
<1>6. \A k \in 1 .. n + m : k > n => eventlist'[k].from = 0
  BY <1>0, <1>3, <1>5
<1>7. /\ {k \in DOMAIN eventlist' : eventlist'[k].from # 0} =
           {k \in DOMAIN eventlist : eventlist[k].from # 0}
      /\ 1 .. n \subseteq 1 .. n + m
  BY <1>0, <1>5, <1>6
<1>8. \A j : Answered(j)' <=> Answered(j)
  BY <1>4 DEF Answered, Fails
<1>9. \A k \in 1 .. n, i \in 1 .. n + m : i < k => i \in 1 .. n
  BY <1>0
<1> QED
  BY <1>0, <1>4, <1>5, <1>7, <1>8, <1>9 DEF OrderInv, EntriesInOrder

LEMMA OrderStep == CallInv /\ OrderInv /\ [Next]_vars => OrderInv'
<1> SUFFICES ASSUME CallInv, OrderInv, [Next]_vars PROVE OrderInv'
  OBVIOUS
<1>0. ASSUME UNCHANGED <<changelist, cl_p, eventlist>>, pc' = pc \/ pc' # "copyin" PROVE OrderInv'
  BY <1>0 DEF OrderInv, EntriesInOrder, Answered, Fails
<1>1. CASE CopyinOk
  <2>1. /\ ~Answered(cl_p) /\ cl_p' = cl_p + 1 /\ cl_p \in Nat \ {0}
        /\ UNCHANGED <<changelist, eventlist, pc>>
    BY <1>1, LenProperties DEF CopyinOk, Answered, Fails, args, CallInv
  <2>2. {j \in 1 .. cl_p' - 1 : Answered(j)'} = {j \in 1 .. cl_p - 1 : Answered(j)}
    BY <2>1 DEF Answered, Fails
  <2> QED
    BY <2>1, <2>2 DEF OrderInv, EntriesInOrder
<1>2. CASE CopyinReceipt
  <2>1. CASE Full
    BY <1>0, <1>2, <2>1 DEF CopyinReceipt, Return, args
  <2>2. CASE ~Full
    <3>1. Answered(cl_p) /\ Put([from |-> cl_p, data |-> "0"]) /\ "0" \in Errno
      BY <1>2, <2>2 DEF CopyinReceipt, Answered, Errno
    <3> QED
      BY <1>2, <3>1, PutInOrder DEF CopyinReceipt, args
  <2> QED
    BY <2>1, <2>2
<1>3. CASE CopyinError
  <2>1. CASE Full
    BY <1>0, <1>3, <2>1 DEF CopyinError, Return, args
  <2>2. CASE ~Full
    <3>1. /\ Answered(cl_p) /\ Put([from |-> cl_p, data |-> Failed(changelist[cl_p].does)])
          /\ Failed(changelist[cl_p].does) \in Errno
      BY <1>3, <2>2 DEF CopyinError, Answered, Fails, Failed, Errno, CallInv
    <3> QED
      BY <1>3, <3>1, PutInOrder DEF CopyinError, args
  <2> QED
    BY <2>1, <2>2
<1>4. CASE CopyinDone
  BY <1>0, <1>4 DEF CopyinDone, Return, args
<1>5. ASSUME NEW n \in 1 .. MaxEvents, WaitReady(n) PROVE OrderInv'
  BY <1>0, <1>5 DEF WaitReady, args
<1>6. CASE WaitTimeout \/ WaitFailed \/ CopyoutWake
  BY <1>0, <1>6 DEF WaitTimeout, WaitFailed, CopyoutWake, Return, args
<1>7. ASSUME NEW m \in 0 .. MaxEvents, Copyout(m) PROVE OrderInv'
  BY <1>7, CopyoutInOrder
<1>8. CASE UNCHANGED vars
  BY <1>0, <1>8 DEF vars, args
<1> QED
  BY <1>1, <1>2, <1>3, <1>4, <1>5, <1>6, <1>7, <1>8 DEF Next

\* kevent_copyin() answers every change that failed or asked for an answer, once,
\* in order, in front of all events, and at or before the change's own index.
THEOREM EntriesInOrderHolds == Spec => []EntriesInOrder
<1>1. Init => OrderInv
  <2> SUFFICES ASSUME Init PROVE OrderInv
    OBVIOUS
  <2>1. DOMAIN eventlist = {} /\ 1 .. cl_p - 1 = {}
    BY DEF Init
  <2> QED
    BY <2>1 DEF OrderInv, EntriesInOrder
<1>2. CallInv /\ OrderInv /\ [Next]_vars => OrderInv'
  BY OrderStep
<1>3. OrderInv => EntriesInOrder
  BY DEF OrderInv
<1> QED
  BY <1>1, <1>2, <1>3, CallInvariance, PTL DEF Spec

\* No call writes past the end of its eventlist, whatever the changelist.
THEOREM EventlistFits == Spec => [](Len(eventlist) <= nevents)
<1>1. CallInv => Len(eventlist) <= nevents
  BY DEF CallInv
<1> QED
  BY <1>1, CallInvariance, PTL

\* A call of kevent() that does not return -1 has processed its whole
\* changelist, and a positive value it returns is the number of entries written.
THEOREM ReturnMeansProcessedHolds == Spec => []ReturnMeansProcessed
<1>1. CallInv => ReturnMeansProcessed
  BY DEF CallInv
<1> QED
  BY <1>1, CallInvariance, PTL
=============================================================================
