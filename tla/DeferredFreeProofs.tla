--------------------------- MODULE DeferredFreeProofs ---------------------------
(***************************************************************************)
(* Proofs about DeferredFree, for any threads, any number of udatas and    *)
(* any width of the epoch counter.                                         *)
(***************************************************************************)
EXTENDS DeferredFree, SequenceTheorems, TLAPS

RemoveAt(s, i) == SubSeq(s, 1, i - 1) \o SubSeq(s, i + 1, Len(s))

\* What taking the i-th element out of a list (TAILQ_REMOVE) leaves.
LEMMA RemoveAtProperties ==
  ASSUME NEW S, NEW s \in Seq(S), NEW i \in 1 .. Len(s)
  PROVE  /\ RemoveAt(s, i) \in Seq(S)
         /\ Len(RemoveAt(s, i)) = Len(s) - 1
         /\ \A j \in 1 .. Len(s) - 1 :
              RemoveAt(s, i)[j] = IF j < i THEN s[j] ELSE s[j + 1]
<1> DEFINE a == SubSeq(s, 1, i - 1)
           b == SubSeq(s, i + 1, Len(s))
<1>1. a \in Seq(S) /\ Len(a) = i - 1 /\ \A j \in 1 .. i - 1 : a[j] = s[j]
  BY SubSeqProperties
<1>2. /\ b \in Seq(S) /\ Len(b) = Len(s) - i
      /\ \A j \in 1 .. Len(s) - i : b[j] = s[i + j]
  BY SubSeqProperties
<1> HIDE DEF a, b
<1>3. RemoveAt(s, i) = a \o b
  BY DEF RemoveAt, a, b
<1>4. a \o b \in Seq(S) /\ Len(a \o b) = Len(a) + Len(b)
  <2>1. a \in Seq(S) /\ b \in Seq(S)
    BY <1>1, <1>2
  <2> QED
    BY <2>1, ConcatProperties
<1>5. ASSUME NEW j \in 1 .. Len(s) - 1
      PROVE  (a \o b)[j] = IF j < i THEN s[j] ELSE s[j + 1]
  <2>1. CASE j < i
    BY <1>1, <1>2, <2>1
  <2>2. CASE ~(j < i)
    <3>1. (a \o b)[j] = b[j - (i - 1)]
      BY <1>1, <1>2, <2>2
    <3>2. j - (i - 1) \in 1 .. Len(s) - i
      BY <2>2
    <3>3. b[j - (i - 1)] = s[i + (j - (i - 1))]
      BY <1>2, <3>2
    <3>4. i + (j - (i - 1)) = j + 1
      OBVIOUS
    <3> QED
      BY <2>2, <3>1, <3>3, <3>4
  <2> QED
    BY ZenonT(30), <2>1, <2>2
<1> QED
  BY <1>1, <1>2, <1>3, <1>4, <1>5

\* The members of a list, by position.
LEMMA RangeMember ==
  ASSUME NEW S, NEW s \in Seq(S), NEW x
  PROVE  x \in Range(s) <=> \E i \in 1 .. Len(s) : x = s[i]
<1>1. DOMAIN s = 1 .. Len(s)
  BY LenProperties
<1> QED
  BY <1>1, Zenon DEF Range

\* TAILQ_INSERT_TAIL adds one member.
LEMMA RangeAppend ==
  ASSUME NEW S, NEW s \in Seq(S), NEW e \in S
  PROVE  Range(Append(s, e)) = Range(s) \cup {e}
<1>1. /\ Append(s, e) \in Seq(S)
      /\ Len(Append(s, e)) = Len(s) + 1
      /\ \A i \in 1 .. Len(s) : Append(s, e)[i] = s[i]
      /\ Append(s, e)[Len(s) + 1] = e
  BY AppendProperties
<1>2. Len(s) \in Nat
  BY LenProperties
<1>3. ASSUME NEW x
      PROVE  x \in Range(Append(s, e)) <=> x \in Range(s) \/ x = e
  <2>1. x \in Range(Append(s, e)) <=> \E i \in 1 .. Len(s) + 1 : x = Append(s, e)[i]
    <3>1. \A w \in Seq(S) : x \in Range(w) <=> \E i \in 1 .. Len(w) : x = w[i]
      BY RangeMember
    <3> QED
      BY <1>1, <3>1, Zenon
  <2>2. x \in Range(s) <=> \E i \in 1 .. Len(s) : x = s[i]
    BY RangeMember
  <2>3. \A i : i \in 1 .. Len(s) + 1 <=> i \in 1 .. Len(s) \/ i = Len(s) + 1
    BY <1>2
  <2> QED
    BY <1>1, <2>1, <2>2, <2>3, Zenon
<1> QED
  BY <1>3, Zenon

\* The invariant holds before the first call of kevent().
LEMMA InitInv == Init => IndInv
  BY NoThreadAssumption, EpochMaxAssumption
     DEF Init, IndInv, TypeOK, EpochsOrdered, EagerReclaim, InflightIsInside,
         DeferredIsStale, BuffersFilledFromLive, HeldWithinBoundary, Inside,
         Locations, Locked, Epochs, Range

\* Outside of a sweep, every live epoch is above what a rebase takes off, so
\* the unsigned subtractions of linux_kqueue_epoch_rebase never borrow.
LEMMA RebaseDoesNotBorrow ==
  ASSUME IndInv, kq_mtx = NoThread, EpochRoom
  PROVE  /\ Base \in Nat
         /\ Base <= kq_next_epoch
         /\ kq_next_epoch - Base < EpochMax
         /\ \A i \in 1 .. Len(kq_inflight) : Base < epoch[kq_inflight[i]]
         /\ \A i \in 1 .. Len(ud_deferred_free) :
              Base < boundary[ud_deferred_free[i]]
<1> USE EpochMaxAssumption, NoThreadAssumption DEF Epochs
<1>1. /\ kq_inflight \in Seq(Threads) /\ epoch \in [Threads -> 0 .. EpochMax]
      /\ ud_deferred_free \in Seq(Udata) /\ boundary \in [Udata -> 0 .. EpochMax]
      /\ kq_next_epoch \in 0 .. EpochMax
  BY DEF IndInv, TypeOK
<1>2. \A i \in 1 .. Len(kq_inflight) : epoch[kq_inflight[i]] \in 1 .. kq_next_epoch
  BY DEF IndInv, EpochsOrdered
<1>3. \A i \in 1 .. Len(kq_inflight) : i # 1 =>
        epoch[kq_inflight[1]] < epoch[kq_inflight[i]]
  BY <1>1 DEF IndInv, EpochsOrdered
<1>4. \A i \in 1 .. Len(ud_deferred_free) :
        /\ boundary[ud_deferred_free[i]] \in 1 .. kq_next_epoch
        /\ \E k \in 1 .. Len(kq_inflight) :
             epoch[kq_inflight[k]] <= boundary[ud_deferred_free[i]]
  BY DEF IndInv, EpochsOrdered, EagerReclaim, TypeOK, Locked
<1>5. CASE kq_next_epoch # EpochMax
  BY SMTT(30), <1>1, <1>2, <1>4, <1>5 DEF Base
<1>6. CASE kq_next_epoch = EpochMax /\ kq_inflight = << >>
  <2>1. Base = EpochMax
    BY <1>6 DEF Base, RebaseAmount
  <2> QED
    BY <1>1, <1>4, <1>6, <2>1
<1>7. CASE kq_next_epoch = EpochMax /\ kq_inflight # << >>
  <2>1. /\ Base = epoch[kq_inflight[1]] - 1
        /\ 1 \in 1 .. Len(kq_inflight)
        /\ epoch[kq_inflight[1]] \in 1 .. EpochMax
    BY <1>1, <1>2, <1>7 DEF Base, RebaseAmount, Minus
  <2>2. Base > 0
    BY <1>7 DEF EpochRoom, Base
  <2>3. ASSUME NEW i \in 1 .. Len(kq_inflight)
        PROVE  epoch[kq_inflight[1]] <= epoch[kq_inflight[i]]
    BY SMTT(30), <1>1, <1>2, <1>3, <2>1
  <2>4. \A i \in 1 .. Len(kq_inflight) : Base < epoch[kq_inflight[i]]
    BY <1>1, <1>2, <2>1, <2>3
  <2>5. ASSUME NEW i \in 1 .. Len(ud_deferred_free)
        PROVE  Base < boundary[ud_deferred_free[i]]
    <3>1. PICK k \in 1 .. Len(kq_inflight) :
            epoch[kq_inflight[k]] <= boundary[ud_deferred_free[i]]
      BY <1>4
    <3>2. epoch[kq_inflight[k]] \in Nat /\ boundary[ud_deferred_free[i]] \in Nat
      BY SMTT(30), <1>2, <1>4, <1>1
    <3> QED
      BY SMTT(30), <2>1, <2>4, <3>1, <3>2
  <2> QED
    BY <1>1, <1>7, <2>1, <2>2, <2>4, <2>5
<1> QED
  BY <1>5, <1>6, <1>7

\* linux_kevent_enter, rebase included, preserves the invariant: all live
\* epochs move by the same amount and the new caller's is above them all.
LEMMA EnterInv ==
  ASSUME IndInv, NEW t \in Threads, EpochRoom, Enter(t)
  PROVE  IndInv'
<1> USE EpochMaxAssumption, NoThreadAssumption DEF Epochs
<1>0. /\ kq_inflight \in Seq(Threads) /\ epoch \in [Threads -> 0 .. EpochMax]
      /\ ud_deferred_free \in Seq(Udata) /\ boundary \in [Udata -> 0 .. EpochMax]
      /\ kq_next_epoch \in 0 .. EpochMax
      /\ pc \in [Threads -> Locations]
  BY DEF IndInv, TypeOK
<1>1. /\ Base \in Nat
      /\ Base <= kq_next_epoch
      /\ kq_next_epoch - Base < EpochMax
      /\ \A i \in 1 .. Len(kq_inflight) : Base < epoch[kq_inflight[i]]
      /\ \A i \in 1 .. Len(ud_deferred_free) : Base < boundary[ud_deferred_free[i]]
  BY RebaseDoesNotBorrow DEF Enter
<1>2. kq_next_epoch' = (kq_next_epoch - Base) + 1 /\ kq_next_epoch' \in 1 .. EpochMax
  BY <1>0, <1>1 DEF Enter, Plus1, Minus
<1>3. /\ kq_inflight' \in Seq(Threads)
      /\ Len(kq_inflight') = Len(kq_inflight) + 1
      /\ \A i \in 1 .. Len(kq_inflight) : kq_inflight'[i] = kq_inflight[i]
      /\ kq_inflight'[Len(kq_inflight) + 1] = t
  BY <1>0, AppendProperties DEF Enter
<1>4. t \notin Range(kq_inflight)
  BY DEF IndInv, InflightIsInside, Inside, Enter
<1>5. \A i \in 1 .. Len(kq_inflight) :
        epoch'[kq_inflight[i]] = epoch[kq_inflight[i]] - Base
  BY <1>0, <1>1, <1>4 DEF Enter, Minus, Range
<1>6. epoch'[t] = kq_next_epoch'
  BY <1>0 DEF Enter
<1>7. \A i \in 1 .. Len(ud_deferred_free) :
        boundary'[ud_deferred_free[i]] = boundary[ud_deferred_free[i]] - Base
  BY <1>0, <1>1 DEF Enter, Minus, Range
<1>8. /\ \A i \in 1 .. Len(kq_inflight) : epoch[kq_inflight[i]] \in 1 .. kq_next_epoch
      /\ \A i \in 1 .. Len(ud_deferred_free) :
           boundary[ud_deferred_free[i]] \in 1 .. kq_next_epoch
  BY DEF IndInv, EpochsOrdered
<1>9. \A x \in Threads : pc[x] \notin Locked
  BY DEF IndInv, TypeOK, Enter
<1> DEFINE n == Len(kq_inflight)
           m == Len(ud_deferred_free)
           E(i) == epoch[kq_inflight[i]]
           D(i) == boundary[ud_deferred_free[i]]
           E1(i) == epoch'[kq_inflight'[i]]
           D1(i) == boundary'[ud_deferred_free[i]]
<1>a. n \in Nat /\ m \in Nat
  BY <1>0
<1>b. \A i \in 1 .. n : /\ E(i) \in Nat /\ Base < E(i) /\ E(i) <= kq_next_epoch
                        /\ E1(i) = E(i) - Base
  <2>1. \A i \in 1 .. n : E(i) \in 1 .. kq_next_epoch /\ Base < E(i)
    BY <1>1, <1>8
  <2>2. \A i \in 1 .. n : E1(i) = E(i) - Base
    BY <1>3, <1>5
  <2> HIDE DEF E, E1, n
  <2> QED
    BY <1>0, <2>1, <2>2
<1>c. \A i \in 1 .. m : /\ D(i) \in Nat /\ Base < D(i) /\ D(i) <= kq_next_epoch
                        /\ D1(i) = D(i) - Base
  <2>1. \A i \in 1 .. m : D(i) \in 1 .. kq_next_epoch /\ Base < D(i)
    BY <1>1, <1>8
  <2>2. \A i \in 1 .. m : D1(i) = D(i) - Base
    BY <1>7
  <2> HIDE DEF D, D1, m
  <2> QED
    BY <1>0, <2>1, <2>2
<1>d. E1(n + 1) = kq_next_epoch'
  BY <1>3, <1>6
<1>10. TypeOK'
  <2>1. epoch' \in [Threads -> 0 .. EpochMax]
    <3> SUFFICES ASSUME NEW x \in Threads
                 PROVE  epoch'[x] \in 0 .. EpochMax
      BY DEF Enter
    <3>1. CASE x = t
      BY <1>2, <1>6, <3>1
    <3>2. CASE x # t /\ x \in Range(kq_inflight)
      <4>1. PICK i \in 1 .. n : x = kq_inflight[i]
        BY <1>0, <3>2, RangeMember
      <4>2. epoch'[x] = E(i) - Base
        BY <1>5, <4>1
      <4> HIDE DEF E, E1, n
      <4>3. E(i) \in Nat /\ Base < E(i) /\ E(i) <= kq_next_epoch
        BY <1>b, <4>1
      <4>4. Base \in Nat /\ kq_next_epoch \in 0 .. EpochMax
        BY <1>0, <1>1
      <4> QED
        BY <4>2, <4>3, <4>4
    <3>3. CASE x # t /\ x \notin Range(kq_inflight)
      BY <1>0, <3>3 DEF Enter
    <3> QED
      BY <3>1, <3>2, <3>3
  <2>2. boundary' \in [Udata -> 0 .. EpochMax]
    <3> SUFFICES ASSUME NEW u \in Udata
                 PROVE  boundary'[u] \in 0 .. EpochMax
      BY DEF Enter
    <3>1. CASE u \in Range(ud_deferred_free)
      <4>1. PICK i \in 1 .. m : u = ud_deferred_free[i]
        BY <1>0, <3>1, RangeMember
      <4>2. boundary'[u] = D(i) - Base
        BY <1>7, <4>1
      <4> HIDE DEF D, D1, m
      <4>3. D(i) \in Nat /\ Base < D(i) /\ D(i) <= kq_next_epoch
        BY <1>c, <4>1
      <4>4. Base \in Nat /\ kq_next_epoch \in 0 .. EpochMax
        BY <1>0, <1>1
      <4> QED
        BY <4>2, <4>3, <4>4
    <3>2. CASE u \notin Range(ud_deferred_free)
      BY <1>0, <3>2 DEF Enter
    <3> QED
      BY <3>1, <3>2
  <2>3. \A x \in Threads : pc'[x] \in Locked <=> kq_mtx' = x
    BY <1>0, <1>9 DEF Enter, Locked, Locations
  <2> QED
    BY <1>0, <1>2, <1>3, <2>1, <2>2, <2>3 DEF TypeOK, Enter, IndInv, Locations
<1>11. EpochsOrdered'
  <2>1. /\ \A i, j \in 1 .. n : i < j => E(i) < E(j)
        /\ \A i, j \in 1 .. m : i < j => D(i) <= D(j)
    BY DEF IndInv, EpochsOrdered
  <2>2. ud_deferred_free' = ud_deferred_free /\ Len(kq_inflight') = n + 1
    BY <1>3 DEF Enter
  <2>3. /\ \A i, j \in 1 .. n + 1 : i < j => E1(i) < E1(j)
        /\ \A i \in 1 .. n + 1 : E1(i) \in 1 .. kq_next_epoch'
    <3> HIDE DEF E, E1, D, D1, n, m
    <3>1. ASSUME NEW i \in 1 .. n + 1
          PROVE  E1(i) \in 1 .. kq_next_epoch'
      <4>1. CASE i \in 1 .. n
        BY <1>0, <1>1, <1>2, <1>b, <4>1
      <4>2. CASE i = n + 1
        BY <1>2, <1>d, <4>2
      <4> QED
        BY <1>a, <4>1, <4>2
    <3>2. ASSUME NEW i \in 1 .. n + 1, NEW j \in 1 .. n + 1, i < j
          PROVE  E1(i) < E1(j)
      <4>0. i \in 1 .. n
        BY <1>a, <3>2
      <4>1. CASE j \in 1 .. n
        <5>1. E(i) < E(j)
          BY <2>1, <3>2, <4>0, <4>1
        <5> QED
          BY <1>1, <1>b, <4>0, <4>1, <5>1
      <4>2. CASE j = n + 1
        BY <1>0, <1>1, <1>2, <1>b, <1>d, <4>0, <4>2
      <4> QED
        BY <1>a, <4>1, <4>2
    <3> QED
      BY <3>1, <3>2
  <2>4. /\ \A i, j \in 1 .. m : i < j => D1(i) <= D1(j)
        /\ \A i \in 1 .. m : D1(i) \in 1 .. kq_next_epoch'
    <3> HIDE DEF E, E1, D, D1, n, m
    <3> QED
      BY SMTT(30), <1>0, <1>1, <1>2, <1>a, <1>c, <2>1
  <2> QED
    BY <2>2, <2>3, <2>4 DEF EpochsOrdered
<1>12. EagerReclaim'
  <2> SUFFICES ASSUME NEW i \in 1 .. Len(ud_deferred_free)
               PROVE  \E k \in 1 .. Len(kq_inflight') :
                        epoch'[kq_inflight'[k]] <= boundary'[ud_deferred_free[i]]
    BY ZenonT(30) DEF EagerReclaim, Enter
  <2>1. PICK k \in 1 .. Len(kq_inflight) :
          epoch[kq_inflight[k]] <= boundary[ud_deferred_free[i]]
    BY <1>9 DEF IndInv, EagerReclaim, Locked
  <2>2. k \in 1 .. Len(kq_inflight') /\ kq_inflight'[k] = kq_inflight[k]
    BY <1>0, <1>3
  <2>3. E(k) \in Nat /\ D(i) \in Nat /\ E1(k) = E(k) - Base /\ D1(i) = D(i) - Base
    BY <1>b, <1>c
  <2>4. E1(k) <= D1(i)
    <3>1. E(k) <= D(i)
      BY <2>1
    <3> HIDE DEF E, E1, D, D1
    <3> QED
      BY <1>1, <2>3, <3>1
  <2> QED
    BY <2>2, <2>4
<1>13. InflightIsInside'
  <2>1. Inside' = Inside \cup {t}
    BY <1>0 DEF Inside, Enter, Locations
  <2>2. Range(kq_inflight') = Range(kq_inflight) \cup {t}
    BY <1>0, RangeAppend DEF Enter
  <2> QED
    BY <2>1, <2>2 DEF IndInv, InflightIsInside
<1>14. DeferredIsStale'
  BY DEF IndInv, DeferredIsStale, Enter
<1>15. BuffersFilledFromLive'
  BY <1>0 DEF IndInv, BuffersFilledFromLive, Enter, Locations
<1>16. HeldWithinBoundary'
  <2> SUFFICES ASSUME NEW x \in Threads, NEW u \in epoll_events[x]
               PROVE  ud[u] = "live" \/ (ud[u] = "stale" /\ epoch'[x] <= boundary'[u])
    BY DEF HeldWithinBoundary, Enter
  <2>1. ud[u] = "live" \/ (ud[u] = "stale" /\ epoch[x] <= boundary[u])
    BY DEF IndInv, HeldWithinBoundary
  <2>2. u \in Udata /\ pc[x] \in {"woken", "copyout"}
    BY DEF IndInv, TypeOK, BuffersFilledFromLive
  <2>3. CASE ud[u] = "stale"
    <3>1. PICK i \in 1 .. Len(ud_deferred_free) : u = ud_deferred_free[i]
      BY <1>0, <2>2, <2>3, RangeMember DEF IndInv, DeferredIsStale
    <3>2. x \in Range(kq_inflight)
      BY <2>2 DEF IndInv, InflightIsInside, Inside
    <3>3. PICK k \in 1 .. Len(kq_inflight) : x = kq_inflight[k]
      BY <1>0, <3>2, RangeMember
    <3>4. /\ epoch[x] \in Nat /\ epoch'[x] = epoch[x] - Base
          /\ boundary[u] \in Nat /\ boundary'[u] = boundary[u] - Base
      BY SMTT(30), <1>0, <1>5, <1>7, <2>2, <3>1, <3>3
    <3>5. epoch[x] <= boundary[u]
      BY <2>1, <2>3
    <3> QED
      BY <1>1, <2>3, <3>4, <3>5
  <2> QED
    BY <2>1, <2>3
<1> QED
  BY <1>10, <1>11, <1>12, <1>13, <1>14, <1>15, <1>16 DEF IndInv

\* epoll_udata_defer_free preserves the invariant: the new boundary is the
\* current epoch, no smaller than any boundary on the list and than any
\* caller's epoch.  G is what the caller lets go of: nothing in copyin, the
\* event being dispatched in copyout.
LEMMA DeferFreeInv ==
  ASSUME IndInv, NEW t \in Threads, NEW u \in Udata, NEW G \in SUBSET Udata,
         pc[t] \in {"copyin", "copyout"}, DeferFree(u),
         epoll_events' = [epoll_events EXCEPT ![t] = @ \ G],
         UNCHANGED <<kq_mtx, pc, epoch, kq_next_epoch, kq_inflight>>
  PROVE  IndInv'
<1> USE EpochMaxAssumption, NoThreadAssumption DEF Epochs
<1>0. /\ kq_inflight \in Seq(Threads) /\ epoch \in [Threads -> 0 .. EpochMax]
      /\ ud_deferred_free \in Seq(Udata) /\ boundary \in [Udata -> 0 .. EpochMax]
      /\ ud \in [Udata -> {"free", "live", "stale"}]
      /\ kq_next_epoch \in 0 .. EpochMax
      /\ interest \in SUBSET Udata
      /\ epoll_events \in [Threads -> SUBSET Udata]
      /\ pc \in [Threads -> Locations]
  BY DEF IndInv, TypeOK
<1> DEFINE m == Len(ud_deferred_free)
<1>1. /\ ud_deferred_free' \in Seq(Udata)
      /\ Len(ud_deferred_free') = m + 1
      /\ \A i \in 1 .. m : ud_deferred_free'[i] = ud_deferred_free[i]
      /\ ud_deferred_free'[m + 1] = u
      /\ m \in Nat
  BY <1>0, AppendProperties, LenProperties DEF DeferFree
<1>2. ud[u] = "live" /\ \A i \in 1 .. m : ud_deferred_free[i] # u
  BY ZenonT(30), <1>0, RangeMember DEF DeferFree, IndInv, DeferredIsStale
<1>3. /\ boundary' = [boundary EXCEPT ![u] = kq_next_epoch]
      /\ ud' = [ud EXCEPT ![u] = "stale"]
      /\ interest' = interest \ {u}
  BY DEF DeferFree
<1>4. PICK k \in 1 .. Len(kq_inflight) : t = kq_inflight[k]
  <2>1. t \in Range(kq_inflight)
    BY DEF IndInv, InflightIsInside, Inside
  <2> QED
    BY <1>0, <2>1, RangeMember
<1>5. epoch[t] \in 1 .. kq_next_epoch
  BY <1>4 DEF IndInv, EpochsOrdered
<1>6. /\ \A i \in 1 .. m : boundary'[ud_deferred_free'[i]] = boundary[ud_deferred_free[i]]
      /\ boundary'[ud_deferred_free'[m + 1]] = kq_next_epoch
  <2>1. \A i \in 1 .. m : ud_deferred_free[i] \in Udata
    BY <1>0, ElementOfSeq
  <2>2. \A v \in Udata : v # u => boundary'[v] = boundary[v]
    BY <1>0, <1>3
  <2>3. boundary'[u] = kq_next_epoch
    BY <1>0, <1>3
  <2>4. ASSUME NEW i \in 1 .. m
        PROVE  boundary'[ud_deferred_free'[i]] = boundary[ud_deferred_free[i]]
    BY <1>1, <1>2, <2>1, <2>2
  <2> QED
    BY <1>1, <2>3, <2>4
<1>7. TypeOK'
  BY SMTT(30), <1>0, <1>1, <1>3 DEF IndInv, TypeOK
<1>8. EpochsOrdered'
  <2> DEFINE D(i) == boundary[ud_deferred_free[i]]
             D1(i) == boundary'[ud_deferred_free'[i]]
  <2>1. /\ \A i, j \in 1 .. m : i < j => D(i) <= D(j)
        /\ \A i \in 1 .. m : D(i) \in 1 .. kq_next_epoch
    BY DEF IndInv, EpochsOrdered
  <2>2. \A i \in 1 .. m : D1(i) = D(i)
    BY <1>6
  <2>3. D1(m + 1) = kq_next_epoch
    BY <1>6
  <2>4. /\ \A i, j \in 1 .. m + 1 : i < j => D1(i) <= D1(j)
        /\ \A i \in 1 .. m + 1 : D1(i) \in 1 .. kq_next_epoch
    <3> HIDE DEF D, D1, m
    <3>1. ASSUME NEW i \in 1 .. m + 1
          PROVE  D1(i) \in 1 .. kq_next_epoch
      <4>1. CASE i \in 1 .. m
        BY <2>1, <2>2, <4>1
      <4>2. CASE i = m + 1
        BY <1>0, <1>5, <2>3, <4>2
      <4> QED
        BY <1>1, <4>1, <4>2
    <3>2. ASSUME NEW i \in 1 .. m + 1, NEW j \in 1 .. m + 1, i < j
          PROVE  D1(i) <= D1(j)
      <4>0. i \in 1 .. m
        BY <1>1, <3>2
      <4>1. CASE j \in 1 .. m
        BY <2>1, <2>2, <3>2, <4>0, <4>1
      <4>2. CASE j = m + 1
        BY <1>0, <2>1, <2>2, <2>3, <4>0, <4>2
      <4> QED
        BY <1>1, <4>1, <4>2
    <3> QED
      BY <3>1, <3>2
  <2> QED
    BY <1>1, <2>4 DEF IndInv, EpochsOrdered
<1>9. EagerReclaim'
  <2>1. \A x \in Threads : pc[x] # "sweep"
    BY DEF IndInv, TypeOK, Locked
  <2> SUFFICES ASSUME NEW i \in 1 .. m + 1
               PROVE  \E j \in 1 .. Len(kq_inflight) :
                        epoch[kq_inflight[j]] <= boundary'[ud_deferred_free'[i]]
    BY <1>1 DEF EagerReclaim
  <2>2. CASE i \in 1 .. m
    BY <1>6, <2>1, <2>2 DEF IndInv, EagerReclaim
  <2>3. CASE i = m + 1
    <3>1. epoch[kq_inflight[k]] <= kq_next_epoch
      BY <1>0, <1>4, <1>5
    <3> QED
      BY <1>4, <1>6, <2>3, <3>1
  <2> QED
    BY <1>1, <2>2, <2>3
<1>10. InflightIsInside'
  BY DEF IndInv, InflightIsInside, Inside
<1>11. DeferredIsStale'
  <2>1. Range(ud_deferred_free') = Range(ud_deferred_free) \cup {u}
    BY <1>0, RangeAppend DEF DeferFree
  <2>2. \A v \in Udata : ud'[v] = "stale" <=> v \in Range(ud_deferred_free')
    BY <1>0, <1>3, <2>1 DEF IndInv, DeferredIsStale
  <2>3. ASSUME NEW i \in 1 .. m + 1, NEW j \in 1 .. m + 1,
               ud_deferred_free'[i] = ud_deferred_free'[j]
        PROVE  i = j
    <3>1. CASE i \in 1 .. m /\ j \in 1 .. m
      BY <1>1, <2>3, <3>1 DEF IndInv, DeferredIsStale
    <3>2. CASE i = m + 1 /\ j \in 1 .. m
      BY <1>1, <1>2, <2>3, <3>2
    <3>3. CASE i \in 1 .. m /\ j = m + 1
      BY <1>1, <1>2, <2>3, <3>3
    <3> QED
      BY <1>1, <3>1, <3>2, <3>3
  <2> QED
    BY <1>1, <2>2, <2>3 DEF DeferredIsStale
<1>12. BuffersFilledFromLive'
  BY <1>0, <1>3 DEF IndInv, BuffersFilledFromLive
<1>13. HeldWithinBoundary'
  <2> SUFFICES ASSUME NEW x \in Threads, NEW v \in epoll_events'[x]
               PROVE  ud'[v] = "live" \/ (ud'[v] = "stale" /\ epoch[x] <= boundary'[v])
    BY DEF HeldWithinBoundary
  <2>1. v \in epoll_events[x] /\ v \in Udata
    BY <1>0
  <2>2. CASE v = u
    <3>1. x \in Range(kq_inflight)
      BY <2>1 DEF IndInv, BuffersFilledFromLive, InflightIsInside, Inside
    <3>2. PICK i \in 1 .. Len(kq_inflight) : x = kq_inflight[i]
      BY <1>0, <3>1, RangeMember
    <3>3. epoch[x] \in 1 .. kq_next_epoch
      BY <3>2 DEF IndInv, EpochsOrdered
    <3> QED
      BY <1>0, <1>3, <2>2, <3>3
  <2>3. CASE v # u
    BY <1>0, <1>3, <2>1, <2>3 DEF IndInv, HeldWithinBoundary
  <2> QED
    BY <2>2, <2>3
<1> QED
  BY <1>7, <1>8, <1>9, <1>10, <1>11, <1>12, <1>13 DEF IndInv

\* A caller that leaves takes only itself off kq_inflight.
LEMMA UnlinkedProperties ==
  ASSUME IndInv, NEW t \in Threads, t \in Range(kq_inflight)
  PROVE  \E k \in 1 .. Len(kq_inflight) :
           /\ t = kq_inflight[k]
           /\ Unlinked(t) \in Seq(Threads)
           /\ Len(Unlinked(t)) = Len(kq_inflight) - 1
           /\ \A j \in 1 .. Len(kq_inflight) - 1 :
                Unlinked(t)[j] = IF j < k THEN kq_inflight[j] ELSE kq_inflight[j + 1]
           /\ Range(Unlinked(t)) = Range(kq_inflight) \ {t}
<1>0. kq_inflight \in Seq(Threads) /\ epoch \in [Threads -> Nat]
  BY EpochMaxAssumption DEF IndInv, TypeOK, Epochs
<1> DEFINE n == Len(kq_inflight)
           k == CHOOSE i \in 1 .. n : kq_inflight[i] = t
           r == Unlinked(t)
<1>1. n \in Nat
  BY <1>0, LenProperties
<1>2. k \in 1 .. n /\ kq_inflight[k] = t
  <2>1. \E i \in 1 .. n : t = kq_inflight[i]
    BY <1>0, RangeMember
  <2> QED
    BY <2>1, Zenon
<1> HIDE DEF k
<1>3. /\ r \in Seq(Threads)
      /\ Len(r) = n - 1
      /\ \A j \in 1 .. n - 1 : r[j] = IF j < k THEN kq_inflight[j] ELSE kq_inflight[j + 1]
  <2>1. r = RemoveAt(kq_inflight, k)
    BY DEF Unlinked, RemoveAt, k
  <2> QED
    BY ZenonT(30), <1>0, <1>2, <2>1, RemoveAtProperties
<1>4. \A i \in 1 .. n : i # k => kq_inflight[i] # t
  <2> SUFFICES ASSUME NEW i \in 1 .. n, i # k
               PROVE  kq_inflight[i] # t
    OBVIOUS
  <2>1. i < k => epoch[kq_inflight[i]] < epoch[kq_inflight[k]]
    BY <1>2 DEF IndInv, EpochsOrdered
  <2>2. k < i => epoch[kq_inflight[k]] < epoch[kq_inflight[i]]
    BY <1>2 DEF IndInv, EpochsOrdered
  <2>3. epoch[t] \in Nat
    BY <1>0
  <2> QED
    BY <1>1, <1>2, <2>1, <2>2, <2>3
<1>5. Range(r) = Range(kq_inflight) \ {t}
  <2> HIDE DEF r
  <2>1. ASSUME NEW x \in Range(r)
        PROVE  x \in Range(kq_inflight) \ {t}
    <3>1. PICK j \in 1 .. Len(r) : x = r[j]
      BY <1>3, RangeMember
    <3>2. CASE j < k
      <4>1. j \in 1 .. n /\ j # k /\ x = kq_inflight[j]
        BY <1>1, <1>2, <1>3, <3>1, <3>2
      <4> QED
        BY <1>0, <1>4, <4>1, RangeMember
    <3>3. CASE ~(j < k)
      <4>1. j + 1 \in 1 .. n /\ j + 1 # k /\ x = kq_inflight[j + 1]
        BY <1>1, <1>2, <1>3, <3>1, <3>3
      <4> QED
        BY <1>0, <1>4, <4>1, RangeMember
    <3> QED
      BY <3>2, <3>3
  <2>2. ASSUME NEW x \in Range(kq_inflight) \ {t}
        PROVE  x \in Range(r)
    <3>1. PICK i \in 1 .. n : x = kq_inflight[i]
      BY <1>0, RangeMember
    <3>2. i # k
      BY <1>2, <3>1
    <3>3. CASE i < k
      <4>1. i \in 1 .. Len(r) /\ x = r[i]
        BY <1>1, <1>2, <1>3, <3>1, <3>3
      <4> QED
        BY <1>3, <4>1, RangeMember
    <3>4. CASE k < i
      <4>1. i - 1 \in 1 .. Len(r) /\ x = r[i - 1]
        BY <1>1, <1>2, <1>3, <3>1, <3>4
      <4> QED
        BY <1>3, <4>1, RangeMember
    <3> QED
      BY <1>1, <1>2, <3>2, <3>3, <3>4
  <2> QED
    BY <2>1, <2>2
<1> HIDE DEF r
<1>6. /\ k \in 1 .. n
      /\ t = kq_inflight[k]
      /\ r \in Seq(Threads)
      /\ Len(r) = n - 1
      /\ \A j \in 1 .. n - 1 : r[j] = IF j < k THEN kq_inflight[j] ELSE kq_inflight[j + 1]
      /\ Range(r) = Range(kq_inflight) \ {t}
  BY <1>2, <1>3, <1>5
<1> QED
  BY <1>6, Zenon DEF r

\* linux_kevent_exit, up to its sweep, preserves the invariant.
LEMMA ExitInv ==
  ASSUME IndInv, NEW t \in Threads, Exit(t)
  PROVE  IndInv'
<1> USE EpochMaxAssumption, NoThreadAssumption DEF Epochs
<1>0. /\ kq_inflight \in Seq(Threads) /\ epoch \in [Threads -> 0 .. EpochMax]
      /\ kq_next_epoch \in 0 .. EpochMax
      /\ epoll_events \in [Threads -> SUBSET Udata]
      /\ pc \in [Threads -> Locations]
  BY DEF IndInv, TypeOK
<1> DEFINE n == Len(kq_inflight)
           r == kq_inflight'
<1>1. n \in Nat
  BY <1>0, LenProperties
<1>2. t \in Range(kq_inflight)
  BY DEF IndInv, InflightIsInside, Inside, Exit
<1>3. PICK k \in 1 .. n :
        /\ t = kq_inflight[k]
        /\ r \in Seq(Threads)
        /\ Len(r) = n - 1
        /\ \A j \in 1 .. n - 1 : r[j] = IF j < k THEN kq_inflight[j] ELSE kq_inflight[j + 1]
        /\ Range(r) = Range(kq_inflight) \ {t}
  BY <1>2, UnlinkedProperties DEF Exit
<1>4. TypeOK'
  BY SMTT(30), <1>0, <1>3 DEF IndInv, TypeOK, Exit, Locked, Locations
<1>5. EpochsOrdered'
  <2> DEFINE E(i) == epoch[kq_inflight[i]]
             E1(i) == epoch[kq_inflight'[i]]
  <2>1. /\ \A i, j \in 1 .. n : i < j => E(i) < E(j)
        /\ \A i \in 1 .. n : E(i) \in 1 .. kq_next_epoch
    BY DEF IndInv, EpochsOrdered
  <2>2. \A j \in 1 .. n - 1 : E1(j) = IF j < k THEN E(j) ELSE E(j + 1)
    BY <1>3
  <2>3. /\ \A i, j \in 1 .. n - 1 : i < j => E1(i) < E1(j)
        /\ \A i \in 1 .. n - 1 : E1(i) \in 1 .. kq_next_epoch
    <3> HIDE DEF E, E1, n
    <3>1. ASSUME NEW i \in 1 .. n - 1
          PROVE  E1(i) \in 1 .. kq_next_epoch
      BY <1>1, <2>1, <2>2
    <3>2. ASSUME NEW i \in 1 .. n - 1, NEW j \in 1 .. n - 1, i < j
          PROVE  E1(i) < E1(j)
      <4>1. i \in 1 .. n /\ i + 1 \in 1 .. n /\ j \in 1 .. n /\ j + 1 \in 1 .. n
        BY <1>1
      <4>2. CASE j < k
        BY <2>1, <2>2, <3>2, <4>1, <4>2
      <4>3. CASE i < k /\ ~(j < k)
        BY <2>1, <2>2, <3>2, <4>1, <4>3
      <4>4. CASE ~(i < k)
        BY <2>1, <2>2, <3>2, <4>1, <4>4
      <4> QED
        BY <4>2, <4>3, <4>4
    <3> QED
      BY <3>1, <3>2
  <2> QED
    BY SMTT(30), <1>3, <2>3 DEF IndInv, EpochsOrdered, Exit
<1>6. EagerReclaim'
  BY <1>0 DEF EagerReclaim, Exit
<1>7. InflightIsInside'
  <2>1. Inside' = Inside \ {t}
    BY <1>0 DEF Inside, Exit
  <2> QED
    BY <1>3, <2>1 DEF IndInv, InflightIsInside
<1>8. DeferredIsStale'
  BY DEF IndInv, DeferredIsStale, Exit
<1>9. BuffersFilledFromLive'
  BY <1>0 DEF IndInv, BuffersFilledFromLive, Exit
<1>10. HeldWithinBoundary'
  BY <1>0 DEF IndInv, HeldWithinBoundary, Exit
<1> QED
  BY <1>4, <1>5, <1>6, <1>7, <1>8, <1>9, <1>10 DEF IndInv

\* The oldest caller in flight has the smallest epoch.
LEMMA HeadIsOldest ==
  ASSUME IndInv, NEW x \in Range(kq_inflight)
  PROVE  /\ kq_inflight # << >>
         /\ Head(kq_inflight) \in Threads
         /\ epoch[Head(kq_inflight)] <= epoch[x]
<1>0. kq_inflight \in Seq(Threads) /\ epoch \in [Threads -> Nat]
  BY EpochMaxAssumption DEF IndInv, TypeOK, Epochs
<1>1. PICK i \in 1 .. Len(kq_inflight) : x = kq_inflight[i]
  BY <1>0, RangeMember
<1>2. Len(kq_inflight) \in Nat /\ 1 \in 1 .. Len(kq_inflight)
  BY <1>0, LenProperties
<1>3. kq_inflight # << >> /\ Head(kq_inflight) = kq_inflight[1]
  BY <1>0, <1>2
<1>4. 1 < i => epoch[kq_inflight[1]] < epoch[kq_inflight[i]]
  BY <1>2 DEF IndInv, EpochsOrdered
<1>5. kq_inflight[1] \in Threads /\ kq_inflight[i] \in Threads
  BY <1>0, <1>2, ElementOfSeq
<1> QED
  BY <1>0, <1>1, <1>2, <1>3, <1>4, <1>5

\* No thread holds the udata the sweep is about to free: it would have entered
\* no later than the udata's boundary, and the oldest caller entered after it.
LEMMA EligibleNotHeld ==
  ASSUME IndInv, HeadEligible, NEW x \in Threads
  PROVE  Head(ud_deferred_free) \notin epoll_events[x]
<1> DEFINE u == Head(ud_deferred_free)
<1> SUFFICES ASSUME u \in epoll_events[x]
             PROVE  FALSE
  OBVIOUS
<1>0. /\ ud_deferred_free \in Seq(Udata) /\ ud_deferred_free # << >>
      /\ boundary \in [Udata -> Nat] /\ epoch \in [Threads -> Nat]
  BY EpochMaxAssumption DEF IndInv, TypeOK, Epochs, HeadEligible
<1>1. u \in Udata /\ u \in Range(ud_deferred_free)
  <2>1. /\ 1 \in 1 .. Len(ud_deferred_free)
        /\ u = ud_deferred_free[1]
    BY <1>0
  <2> QED
    BY <1>0, <2>1, RangeMember, ElementOfSeq
<1>2. ud[u] = "stale"
  BY <1>1 DEF IndInv, DeferredIsStale
<1>3. epoch[x] <= boundary[u]
  BY <1>2 DEF IndInv, HeldWithinBoundary
<1>4. x \in Range(kq_inflight)
  BY DEF IndInv, BuffersFilledFromLive, InflightIsInside, Inside
<1>5. /\ kq_inflight # << >>
      /\ Head(kq_inflight) \in Threads
      /\ epoch[Head(kq_inflight)] <= epoch[x]
  BY <1>4, HeadIsOldest
<1>6. boundary[u] < epoch[Head(kq_inflight)]
  BY <1>5 DEF HeadEligible
<1> QED
  BY <1>0, <1>1, <1>3, <1>5, <1>6

\* One turn of the sweep preserves the invariant.
LEMMA SweepInv ==
  ASSUME IndInv, NEW t \in Threads, Sweep(t)
  PROVE  IndInv'
<1> USE EpochMaxAssumption, NoThreadAssumption DEF Epochs
<1>0. /\ ud_deferred_free \in Seq(Udata) /\ boundary \in [Udata -> 0 .. EpochMax]
      /\ ud \in [Udata -> {"free", "live", "stale"}]
      /\ interest \in SUBSET Udata
      /\ epoll_events \in [Threads -> SUBSET Udata]
      /\ kq_next_epoch \in 0 .. EpochMax
  BY DEF IndInv, TypeOK
<1> DEFINE u == Head(ud_deferred_free)
           m == Len(ud_deferred_free)
           d == ud_deferred_free'
<1>1. ud_deferred_free # << >> /\ m \in Nat /\ m > 0
  BY <1>0 DEF Sweep, HeadEligible
<1>2. /\ d \in Seq(Udata) /\ Len(d) = m - 1
      /\ \A i \in 1 .. m - 1 : d[i] = ud_deferred_free[i + 1]
      /\ u = ud_deferred_free[1] /\ u \in Udata
  BY <1>0, <1>1, HeadTailProperties DEF Sweep
<1>3. ud' = [ud EXCEPT ![u] = "free"]
  BY DEF Sweep
<1>4. \A x \in Threads : u \notin epoll_events[x]
  BY EligibleNotHeld DEF Sweep
<1>5. \A i, j \in 1 .. m : ud_deferred_free[i] = ud_deferred_free[j] => i = j
  BY DEF IndInv, DeferredIsStale
<1>6. ud[u] = "stale"
  <2>1. u \in Range(ud_deferred_free)
    BY <1>0, <1>1, <1>2, RangeMember
  <2> QED
    BY <1>2, <2>1 DEF IndInv, DeferredIsStale
<1>7. TypeOK'
  BY SMTT(30), <1>0, <1>2, <1>3 DEF IndInv, TypeOK, Sweep
<1>8. EpochsOrdered'
  <2> DEFINE D(i) == boundary[ud_deferred_free[i]]
             D1(i) == boundary[ud_deferred_free'[i]]
  <2>1. /\ \A i, j \in 1 .. m : i < j => D(i) <= D(j)
        /\ \A i \in 1 .. m : D(i) \in 1 .. kq_next_epoch
    BY DEF IndInv, EpochsOrdered
  <2>2. \A i \in 1 .. m - 1 : D1(i) = D(i + 1)
    BY <1>2
  <2>3. /\ \A i, j \in 1 .. m - 1 : i < j => D1(i) <= D1(j)
        /\ \A i \in 1 .. m - 1 : D1(i) \in 1 .. kq_next_epoch
    <3> HIDE DEF D, D1, m
    <3>1. ASSUME NEW i \in 1 .. m - 1, NEW j \in 1 .. m - 1, i < j
          PROVE  D1(i) <= D1(j)
      <4>1. i + 1 \in 1 .. m /\ j + 1 \in 1 .. m /\ i + 1 < j + 1
        BY <1>1, <3>1
      <4> QED
        BY <2>1, <2>2, <4>1
    <3>2. ASSUME NEW i \in 1 .. m - 1
          PROVE  D1(i) \in 1 .. kq_next_epoch
      BY <1>1, <2>1, <2>2
    <3> QED
      BY <3>1, <3>2
  <2> QED
    BY ZenonT(30), <1>2, <2>3 DEF IndInv, EpochsOrdered, Sweep
<1>9. EagerReclaim'
  BY DEF EagerReclaim, Sweep
<1>10. InflightIsInside'
  BY DEF IndInv, InflightIsInside, Inside, Sweep
<1>11. DeferredIsStale'
  <2>1. ASSUME NEW v \in Udata
        PROVE  v \in Range(d) <=> v \in Range(ud_deferred_free) /\ v # u
    <3>1. v \in Range(d) <=> \E i \in 1 .. m - 1 : v = d[i]
      BY <1>2, RangeMember
    <3>2. v \in Range(ud_deferred_free) <=> \E i \in 1 .. m : v = ud_deferred_free[i]
      BY <1>0, RangeMember
    <3>3. ASSUME NEW i \in 1 .. m - 1, v = d[i]
          PROVE  v \in Range(ud_deferred_free) /\ v # u
      <4>1. i + 1 \in 1 .. m /\ i + 1 # 1 /\ 1 \in 1 .. m
        BY <1>1
      <4>2. v = ud_deferred_free[i + 1]
        BY <1>2, <3>3
      <4> QED
        BY <1>2, <1>5, <3>2, <4>1, <4>2
    <3>4. ASSUME NEW i \in 1 .. m, v = ud_deferred_free[i], v # u
          PROVE  v \in Range(d)
      <4>1. i # 1
        BY <1>2, <3>4
      <4>2. i - 1 \in 1 .. m - 1 /\ v = d[i - 1]
        BY <1>1, <1>2, <3>4, <4>1
      <4> QED
        BY <3>1, <4>2
    <3> QED
      BY <3>1, <3>2, <3>3, <3>4
  <2>2. \A v \in Udata : ud'[v] = "stale" <=> v \in Range(d)
    BY <1>0, <1>2, <1>3, <2>1 DEF IndInv, DeferredIsStale
  <2>3. ASSUME NEW i \in 1 .. m - 1, NEW j \in 1 .. m - 1, d[i] = d[j]
        PROVE  i = j
    <3>1. i + 1 \in 1 .. m /\ j + 1 \in 1 .. m
      BY <1>1
    <3> QED
      BY <1>2, <1>5, <2>3, <3>1
  <2> QED
    BY <1>2, <2>2, <2>3 DEF DeferredIsStale
<1>12. BuffersFilledFromLive'
  <2>1. u \notin interest
    BY <1>6 DEF IndInv, BuffersFilledFromLive
  <2> QED
    BY <1>0, <1>3, <2>1 DEF IndInv, BuffersFilledFromLive, Sweep
<1>13. HeldWithinBoundary'
  BY <1>0, <1>3, <1>4 DEF IndInv, HeldWithinBoundary, Sweep
<1> QED
  BY <1>7, <1>8, <1>9, <1>10, <1>11, <1>12, <1>13 DEF IndInv

\* The sweep stops only when everything still queued has somebody to wait for.
LEMMA LeaveInv ==
  ASSUME IndInv, NEW t \in Threads, Leave(t)
  PROVE  IndInv'
<1> USE EpochMaxAssumption, NoThreadAssumption DEF Epochs
<1>0. /\ kq_inflight \in Seq(Threads) /\ epoch \in [Threads -> 0 .. EpochMax]
      /\ ud_deferred_free \in Seq(Udata) /\ boundary \in [Udata -> 0 .. EpochMax]
      /\ pc \in [Threads -> Locations]
  BY DEF IndInv, TypeOK
<1>1. TypeOK'
  BY SMTT(30), <1>0 DEF IndInv, TypeOK, Leave, Locked, Locations
<1>2. EagerReclaim'
  <2> DEFINE m == Len(ud_deferred_free)
  <2> SUFFICES ASSUME NEW i \in 1 .. m
               PROVE  \E k \in 1 .. Len(kq_inflight) :
                        epoch[kq_inflight[k]] <= boundary[ud_deferred_free[i]]
    BY DEF EagerReclaim, Leave
  <2>1. m \in Nat /\ 1 \in 1 .. m /\ ud_deferred_free # << >>
        /\ Head(ud_deferred_free) = ud_deferred_free[1]
    BY <1>0
  <2>2. /\ kq_inflight # << >>
        /\ ~(boundary[ud_deferred_free[1]] < epoch[Head(kq_inflight)])
    BY <2>1 DEF Leave, HeadEligible
  <2>3. 1 \in 1 .. Len(kq_inflight) /\ Head(kq_inflight) = kq_inflight[1]
    BY <1>0, <2>2
  <2>4. /\ epoch[kq_inflight[1]] \in Nat
        /\ boundary[ud_deferred_free[1]] \in Nat
        /\ boundary[ud_deferred_free[i]] \in Nat
    BY <1>0, <2>1, <2>3
  <2>5. 1 < i => boundary[ud_deferred_free[1]] <= boundary[ud_deferred_free[i]]
    BY <2>1 DEF IndInv, EpochsOrdered
  <2>6. epoch[kq_inflight[1]] <= boundary[ud_deferred_free[i]]
    BY <2>1, <2>2, <2>3, <2>4, <2>5
  <2> QED
    BY <2>3, <2>6
<1>3. InflightIsInside'
  BY <1>0 DEF IndInv, InflightIsInside, Inside, Leave
<1>4. EpochsOrdered' /\ DeferredIsStale' /\ HeldWithinBoundary'
  BY DEF IndInv, EpochsOrdered, DeferredIsStale, HeldWithinBoundary, Leave
<1>5. BuffersFilledFromLive'
  BY <1>0 DEF IndInv, BuffersFilledFromLive, Leave
<1> QED
  BY <1>1, <1>2, <1>3, <1>4, <1>5 DEF IndInv

\* A step that leaves the epochs, the lists and the udatas alone, and moves no
\* thread into, out of or within the sweep, has to account for the rest only.
LEMMA QuietUnchanged ==
  ASSUME IndInv, TypeOK', BuffersFilledFromLive', HeldWithinBoundary',
         UNCHANGED <<epoch, kq_next_epoch, kq_inflight, ud_deferred_free, ud, boundary>>,
         Inside' = Inside,
         \A t \in Threads : pc'[t] = "sweep" <=> pc[t] = "sweep"
  PROVE  IndInv'
<1>1. EpochsOrdered'
  BY DEF IndInv, EpochsOrdered
<1>2. EagerReclaim'
  BY DEF IndInv, EagerReclaim
<1>3. InflightIsInside'
  BY DEF IndInv, InflightIsInside
<1>4. DeferredIsStale'
  BY DEF IndInv, DeferredIsStale
<1> QED
  BY <1>1, <1>2, <1>3, <1>4 DEF IndInv

\* The steps that touch neither the epochs nor the two lists.
LEMMA QuietStepInv ==
  ASSUME IndInv,
         \/ \E t \in Threads : Park(t) \/ Relock(t)
         \/ \E t \in Threads, S \in SUBSET Udata : EpollWait(t, S)
         \/ \E t \in Threads, u \in Udata :
              DisableKnote(t, u) \/ EnableKnote(t, u) \/ Copyout(t, u)
         \/ \E u \in Udata : CloseWatched(u)
  PROVE  IndInv'
<1>0. /\ pc \in [Threads -> Locations]
      /\ interest \in SUBSET Udata
      /\ epoll_events \in [Threads -> SUBSET Udata]
      /\ kq_mtx \in Threads \cup {NoThread}
      /\ \A t \in Threads : pc[t] \in Locked <=> kq_mtx = t
  BY DEF IndInv, TypeOK
<1>b. BuffersFilledFromLive /\ HeldWithinBoundary /\ TypeOK
  BY DEF IndInv
<1> USE NoThreadAssumption DEF Locked, Locations
<1>1. ASSUME NEW t \in Threads, Park(t) PROVE IndInv'
  <2>1. TypeOK'
    BY <1>0, <1>b, <1>1 DEF Park, TypeOK
  <2>2. Inside' = Inside /\ \A x \in Threads : pc'[x] = "sweep" <=> pc[x] = "sweep"
    BY <1>0, <1>1 DEF Park, Inside
  <2>3. BuffersFilledFromLive'
    BY SMTT(30), <1>0, <1>b, <1>1 DEF Park, BuffersFilledFromLive
  <2>4. HeldWithinBoundary'
    BY <1>0, <1>b, <1>1 DEF Park, HeldWithinBoundary
  <2>5. UNCHANGED <<epoch, kq_next_epoch, kq_inflight, ud_deferred_free, ud, boundary>>
    BY <1>1 DEF Park
  <2> QED
    BY <2>1, <2>2, <2>3, <2>4, <2>5, QuietUnchanged
<1>2. ASSUME NEW t \in Threads, Relock(t) PROVE IndInv'
  <2>1. TypeOK'
    BY <1>0, <1>b, <1>2 DEF Relock, TypeOK
  <2>2. Inside' = Inside /\ \A x \in Threads : pc'[x] = "sweep" <=> pc[x] = "sweep"
    BY <1>0, <1>2 DEF Relock, Inside
  <2>3. BuffersFilledFromLive'
    BY SMTT(30), <1>0, <1>b, <1>2 DEF Relock, BuffersFilledFromLive
  <2>4. HeldWithinBoundary'
    BY <1>0, <1>b, <1>2 DEF Relock, HeldWithinBoundary
  <2>5. UNCHANGED <<epoch, kq_next_epoch, kq_inflight, ud_deferred_free, ud, boundary>>
    BY <1>2 DEF Relock
  <2> QED
    BY <2>1, <2>2, <2>3, <2>4, <2>5, QuietUnchanged
<1>3. ASSUME NEW t \in Threads, NEW S \in SUBSET Udata, EpollWait(t, S) PROVE IndInv'
  <2>1. TypeOK'
    BY <1>0, <1>b, <1>3 DEF EpollWait, TypeOK
  <2>2. Inside' = Inside /\ \A x \in Threads : pc'[x] = "sweep" <=> pc[x] = "sweep"
    BY <1>0, <1>3 DEF EpollWait, Inside
  <2>3. BuffersFilledFromLive'
    BY SMTT(30), <1>0, <1>b, <1>3 DEF EpollWait, BuffersFilledFromLive
  <2>4. HeldWithinBoundary'
    BY <1>0, <1>b, <1>3 DEF EpollWait, HeldWithinBoundary, BuffersFilledFromLive
  <2>5. UNCHANGED <<epoch, kq_next_epoch, kq_inflight, ud_deferred_free, ud, boundary>>
    BY <1>3 DEF EpollWait
  <2> QED
    BY <2>1, <2>2, <2>3, <2>4, <2>5, QuietUnchanged
<1>4. ASSUME NEW t \in Threads, NEW u \in Udata, DisableKnote(t, u) PROVE IndInv'
  <2>1. TypeOK'
    BY <1>0, <1>b, <1>4 DEF DisableKnote, TypeOK
  <2>2. Inside' = Inside /\ \A x \in Threads : pc'[x] = "sweep" <=> pc[x] = "sweep"
    BY <1>0, <1>4 DEF DisableKnote, Inside
  <2>3. BuffersFilledFromLive'
    BY SMTT(30), <1>0, <1>b, <1>4 DEF DisableKnote, BuffersFilledFromLive
  <2>4. HeldWithinBoundary'
    BY <1>0, <1>b, <1>4 DEF DisableKnote, HeldWithinBoundary
  <2>5. UNCHANGED <<epoch, kq_next_epoch, kq_inflight, ud_deferred_free, ud, boundary>>
    BY <1>4 DEF DisableKnote
  <2> QED
    BY <2>1, <2>2, <2>3, <2>4, <2>5, QuietUnchanged
<1>5. ASSUME NEW t \in Threads, NEW u \in Udata, EnableKnote(t, u) PROVE IndInv'
  <2>1. TypeOK'
    BY <1>0, <1>b, <1>5 DEF EnableKnote, TypeOK
  <2>2. Inside' = Inside /\ \A x \in Threads : pc'[x] = "sweep" <=> pc[x] = "sweep"
    BY <1>0, <1>5 DEF EnableKnote, Inside
  <2>3. BuffersFilledFromLive'
    BY SMTT(30), <1>0, <1>b, <1>5 DEF EnableKnote, BuffersFilledFromLive
  <2>4. HeldWithinBoundary'
    BY <1>0, <1>b, <1>5 DEF EnableKnote, HeldWithinBoundary
  <2>5. UNCHANGED <<epoch, kq_next_epoch, kq_inflight, ud_deferred_free, ud, boundary>>
    BY <1>5 DEF EnableKnote
  <2> QED
    BY <2>1, <2>2, <2>3, <2>4, <2>5, QuietUnchanged
<1>6. ASSUME NEW t \in Threads, NEW u \in Udata, Copyout(t, u) PROVE IndInv'
  <2>1. TypeOK'
    BY <1>0, <1>b, <1>6 DEF Copyout, TypeOK
  <2>2. Inside' = Inside /\ \A x \in Threads : pc'[x] = "sweep" <=> pc[x] = "sweep"
    BY <1>0, <1>6 DEF Copyout, Inside
  <2>3. BuffersFilledFromLive'
    BY SMTT(30), <1>0, <1>b, <1>6 DEF Copyout, BuffersFilledFromLive
  <2>4. HeldWithinBoundary'
    BY <1>0, <1>b, <1>6 DEF Copyout, HeldWithinBoundary
  <2>5. UNCHANGED <<epoch, kq_next_epoch, kq_inflight, ud_deferred_free, ud, boundary>>
    BY <1>6 DEF Copyout
  <2> QED
    BY <2>1, <2>2, <2>3, <2>4, <2>5, QuietUnchanged
<1>7. ASSUME NEW u \in Udata, CloseWatched(u) PROVE IndInv'
  <2>1. TypeOK'
    BY <1>0, <1>b, <1>7 DEF CloseWatched, TypeOK
  <2>2. Inside' = Inside /\ \A x \in Threads : pc'[x] = "sweep" <=> pc[x] = "sweep"
    BY <1>0, <1>7 DEF CloseWatched, Inside
  <2>3. BuffersFilledFromLive'
    BY SMTT(30), <1>0, <1>b, <1>7 DEF CloseWatched, BuffersFilledFromLive
  <2>4. HeldWithinBoundary'
    BY <1>0, <1>b, <1>7 DEF CloseWatched, HeldWithinBoundary
  <2>5. UNCHANGED <<epoch, kq_next_epoch, kq_inflight, ud_deferred_free, ud, boundary>>
    BY <1>7 DEF CloseWatched
  <2> QED
    BY <2>1, <2>2, <2>3, <2>4, <2>5, QuietUnchanged
<1> QED
  BY <1>1, <1>2, <1>3, <1>4, <1>5, <1>6, <1>7

\* A freshly allocated udata is on no list and in no buffer.
LEMMA AddKnoteInv ==
  ASSUME IndInv, NEW t \in Threads, NEW u \in Udata, AddKnote(t, u)
  PROVE  IndInv'
<1> USE EpochMaxAssumption DEF Epochs
<1>0. /\ ud_deferred_free \in Seq(Udata) /\ boundary \in [Udata -> 0 .. EpochMax]
      /\ ud \in [Udata -> {"free", "live", "stale"}]
      /\ interest \in SUBSET Udata
      /\ epoll_events \in [Threads -> SUBSET Udata]
  BY DEF IndInv, TypeOK
<1>1. /\ ud' = [ud EXCEPT ![u] = "live"] /\ boundary' = [boundary EXCEPT ![u] = 0]
      /\ interest' = interest \cup {u} /\ ud[u] = "free"
      /\ UNCHANGED <<kq_mtx, pc, epoch, kq_next_epoch, kq_inflight,
                     ud_deferred_free, epoll_events>>
  BY DEF AddKnote
<1>2. \A i \in 1 .. Len(ud_deferred_free) :
        boundary'[ud_deferred_free[i]] = boundary[ud_deferred_free[i]]
  <2> SUFFICES ASSUME NEW i \in 1 .. Len(ud_deferred_free)
               PROVE  boundary'[ud_deferred_free[i]] = boundary[ud_deferred_free[i]]
    OBVIOUS
  <2>1. ud_deferred_free[i] \in Udata /\ ud_deferred_free[i] \in Range(ud_deferred_free)
    BY <1>0, ElementOfSeq, RangeMember
  <2>2. ud_deferred_free[i] # u
    BY <1>1, <2>1 DEF IndInv, DeferredIsStale
  <2> QED
    BY <1>0, <1>1, <2>1, <2>2
<1>3. TypeOK'
  BY <1>0, <1>1 DEF IndInv, TypeOK
<1>4. EpochsOrdered'
  BY <1>1, <1>2 DEF IndInv, EpochsOrdered
<1>5. EagerReclaim'
  BY <1>1, <1>2 DEF IndInv, EagerReclaim
<1>6. InflightIsInside'
  BY <1>1 DEF IndInv, InflightIsInside, Inside
<1>7. DeferredIsStale'
  BY <1>0, <1>1 DEF IndInv, DeferredIsStale
<1>8. BuffersFilledFromLive'
  BY <1>0, <1>1 DEF IndInv, BuffersFilledFromLive
<1>9. HeldWithinBoundary'
  BY <1>0, <1>1 DEF IndInv, HeldWithinBoundary
<1> QED
  BY <1>3, <1>4, <1>5, <1>6, <1>7, <1>8, <1>9 DEF IndInv

\* Every step preserves the invariant.
LEMMA StepInv == IndInv /\ [Next]_vars => IndInv'
<1> SUFFICES ASSUME IndInv, [Next]_vars
             PROVE  IndInv'
  OBVIOUS
<1>1. ASSUME NEW t \in Threads, EpochRoom, Enter(t) PROVE IndInv'
  BY <1>1, EnterInv
<1>2. ASSUME NEW t \in Threads, Exit(t) PROVE IndInv'
  BY <1>2, ExitInv
<1>3. ASSUME NEW t \in Threads, Sweep(t) PROVE IndInv'
  BY <1>3, SweepInv
<1>4. ASSUME NEW t \in Threads, Leave(t) PROVE IndInv'
  BY <1>4, LeaveInv
<1>5. ASSUME NEW t \in Threads, NEW u \in Udata, AddKnote(t, u) PROVE IndInv'
  BY <1>5, AddKnoteInv
<1>6. ASSUME NEW t \in Threads, NEW u \in Udata, DeleteKnote(t, u) PROVE IndInv'
  <2>1. epoll_events' = [epoll_events EXCEPT ![t] = @ \ {}]
    BY <1>6 DEF DeleteKnote, IndInv, TypeOK
  <2>2. \A G \in SUBSET Udata :
          epoll_events' = [epoll_events EXCEPT ![t] = @ \ G] => IndInv'
    BY ZenonT(30), <1>6, DeferFreeInv DEF DeleteKnote
  <2>3. {} \in SUBSET Udata
    OBVIOUS
  <2> QED
    BY <2>1, <2>2, <2>3, Zenon
<1>7. ASSUME NEW t \in Threads, NEW u \in Udata, CopyoutDelete(t, u) PROVE IndInv'
  BY ZenonT(30), <1>7, DeferFreeInv DEF CopyoutDelete
<1>8. CASE \/ \E t \in Threads : Park(t) \/ Relock(t)
           \/ \E t \in Threads, S \in SUBSET Udata : EpollWait(t, S)
           \/ \E t \in Threads, u \in Udata :
                DisableKnote(t, u) \/ EnableKnote(t, u) \/ Copyout(t, u)
           \/ \E u \in Udata : CloseWatched(u)
  BY <1>8, QuietStepInv
<1>9. CASE UNCHANGED vars
  BY <1>9 DEF vars, IndInv, TypeOK, EpochsOrdered, EagerReclaim,
              InflightIsInside, DeferredIsStale, BuffersFilledFromLive,
              HeldWithinBoundary, Inside
<1> QED
  BY <1>1, <1>2, <1>3, <1>4, <1>5, <1>6, <1>7, <1>8, <1>9 DEF Next, Step

\* The epoch bookkeeping is consistent in every reachable state: IndInv, with
\* it EpochsOrdered and EagerReclaim.
THEOREM Invariance == Spec => []IndInv
<1>1. Init => IndInv
  BY InitInv
<1>2. IndInv /\ [Next]_vars => IndInv'
  BY StepInv
<1> QED
  BY <1>1, <1>2, PTL DEF Spec

\* The invariant implies that no buffer points to freed memory.
LEMMA InvImpliesSafe == IndInv => NoUseAfterFree
  BY DEF IndInv, HeldWithinBoundary, NoUseAfterFree

\* linux_kevent_copyout never reads a udata that has been freed, for any number
\* of threads and udatas and any width of the epochs.
THEOREM NoUseAfterFreeHolds == Spec => []NoUseAfterFree
<1>1. Spec => []IndInv
  BY Invariance
<1>2. IndInv => NoUseAfterFree
  BY InvImpliesSafe
<1> QED
  BY <1>1, <1>2, PTL

\* Outside of a sweep nothing is retained that nobody can see.
THEOREM EagerReclaimHolds == Spec => []EagerReclaim
<1>1. Spec => []IndInv
  BY Invariance
<1>2. IndInv => EagerReclaim
  BY DEF IndInv
<1> QED
  BY <1>1, <1>2, PTL

\* Both lists stay sorted by epoch and the epochs in range, through rebases.
THEOREM EpochsOrderedHolds == Spec => []EpochsOrdered
<1>1. Spec => []IndInv
  BY Invariance
<1>2. IndInv => EpochsOrdered
  BY SMTT(30) DEF IndInv
<1> QED
  BY <1>1, <1>2, PTL

--------------------------------------------------------------------------------
(* DeferredFree implements GracePeriod. *)

\* Entering with a new epoch keeps every udata's set of awaited callers: the
\* rebase moves both sides of the comparison, and the newcomer is above every
\* boundary.
LEMMA EnterRefines ==
  ASSUME IndInv, IndInv', NEW t \in Threads, EpochRoom, Enter(t)
  PROVE  GP!Begin(t)
<1> USE EpochMaxAssumption, NoThreadAssumption DEF Epochs
<1>0. /\ kq_inflight \in Seq(Threads) /\ epoch \in [Threads -> 0 .. EpochMax]
      /\ ud_deferred_free \in Seq(Udata) /\ boundary \in [Udata -> 0 .. EpochMax]
      /\ epoch' \in [Threads -> 0 .. EpochMax] /\ boundary' \in [Udata -> 0 .. EpochMax]
      /\ kq_next_epoch \in 0 .. EpochMax
  BY SMTT(30) DEF IndInv, TypeOK
<1>1. /\ Base \in Nat
      /\ Base <= kq_next_epoch
      /\ kq_next_epoch - Base < EpochMax
      /\ \A i \in 1 .. Len(kq_inflight) : Base < epoch[kq_inflight[i]]
      /\ \A i \in 1 .. Len(ud_deferred_free) : Base < boundary[ud_deferred_free[i]]
  BY RebaseDoesNotBorrow DEF Enter
<1>2. kq_next_epoch' = (kq_next_epoch - Base) + 1
  BY <1>0, <1>1 DEF Enter, Plus1, Minus
<1>3. t \notin Range(kq_inflight) /\ Range(kq_inflight') = Range(kq_inflight) \cup {t}
  BY <1>0, RangeAppend DEF IndInv, InflightIsInside, Inside, Enter
<1>4. ASSUME NEW u \in Udata
      PROVE  Pending(u)' = Pending(u)
  <2>1. CASE ud[u] # "stale"
    BY SMTT(30), <2>1 DEF Pending, Enter
  <2>2. CASE ud[u] = "stale"
    <3>1. PICK i \in 1 .. Len(ud_deferred_free) : u = ud_deferred_free[i]
      BY SMTT(30), <1>0, <2>2, RangeMember DEF IndInv, DeferredIsStale
    <3>2. /\ Base < boundary[u] /\ boundary[u] <= kq_next_epoch
          /\ boundary[u] \in Nat
      BY SMTT(30), <1>0, <1>1, <3>1 DEF IndInv, EpochsOrdered
    <3>3. boundary'[u] = boundary[u] - Base
      BY SMTT(30), <1>0, <1>1, <2>2, <3>2 DEF Enter, Minus, IndInv, DeferredIsStale
    <3>4. epoch'[t] > boundary'[u]
      <4>1. epoch'[t] = kq_next_epoch'
        BY DEF Enter
      <4> QED
        BY <1>0, <1>1, <1>2, <3>2, <3>3, <4>1
    <3>5. ASSUME NEW x \in Range(kq_inflight)
          PROVE  epoch'[x] <= boundary'[u] <=> epoch[x] <= boundary[u]
      <4>1. PICK j \in 1 .. Len(kq_inflight) : x = kq_inflight[j]
        BY <1>0, RangeMember
      <4>2. x \in Threads /\ x # t /\ Base < epoch[x] /\ epoch[x] \in Nat
        <5>1. x \in Threads
          BY <1>0, <4>1, ElementOfSeq
        <5>2. Base < epoch[x]
          BY <1>1, <4>1
        <5> QED
          BY <1>0, <1>3, <5>1, <5>2
      <4>3. epoch'[x] = epoch[x] - Base
        BY <1>1, <4>2 DEF Enter, Minus
      <4> QED
        BY <1>1, <3>2, <3>3, <4>2, <4>3
    <3>6. /\ Pending(u) = {x \in Range(kq_inflight) : epoch[x] <= boundary[u]}
          /\ Pending(u)' = {x \in Range(kq_inflight') : epoch'[x] <= boundary'[u]}
      BY <2>2 DEF Pending, Enter
    <3>7. ~(epoch'[t] <= boundary'[u])
      BY <1>0, <3>4
    <3> QED
      BY <1>3, <3>5, <3>6, <3>7
  <2> QED
    BY <2>1, <2>2
<1>5. [u \in Udata |-> Pending(u)]' = [u \in Udata |-> Pending(u)]
  BY <1>4
<1> QED
  BY <1>3, <1>5 DEF GP!Begin, Enter

\* A retired udata waits for exactly the callers in flight at that moment.
LEMMA DeferFreeRefines ==
  ASSUME IndInv, NEW t \in Threads, NEW u \in Udata, NEW G \in SUBSET Udata,
         DeferFree(u),
         epoll_events' = [epoll_events EXCEPT ![t] = @ \ G],
         UNCHANGED <<epoch, kq_next_epoch, kq_inflight>>
  PROVE  GP!Retire(t, u, G)
<1>0. /\ kq_inflight \in Seq(Threads) /\ epoch \in [Threads -> Nat]
      /\ boundary \in [Udata -> Nat] /\ kq_next_epoch \in Nat
      /\ ud \in [Udata -> {"free", "live", "stale"}]
  BY EpochMaxAssumption DEF IndInv, TypeOK, Epochs
<1>1. /\ ud[u] = "live" /\ ud' = [ud EXCEPT ![u] = "stale"]
      /\ boundary' = [boundary EXCEPT ![u] = kq_next_epoch]
  BY DEF DeferFree
<1>2. \A x \in Range(kq_inflight) : epoch[x] <= kq_next_epoch
  <2> SUFFICES ASSUME NEW x \in Range(kq_inflight)
               PROVE  epoch[x] <= kq_next_epoch
    OBVIOUS
  <2>1. PICK i \in 1 .. Len(kq_inflight) : x = kq_inflight[i]
    BY <1>0, RangeMember
  <2>2. epoch[x] \in 1 .. kq_next_epoch
    BY <2>1 DEF IndInv, EpochsOrdered
  <2> QED
    BY <1>0, <2>2
<1>3. Pending(u)' = Range(kq_inflight)
  BY <1>0, <1>1, <1>2 DEF Pending
<1>4. \A v \in Udata : v # u => Pending(v)' = Pending(v)
  BY <1>0, <1>1 DEF Pending
<1>5. [v \in Udata |-> Pending(v)]' =
        [[v \in Udata |-> Pending(v)] EXCEPT ![u] = Range(kq_inflight)]
  BY ZenonT(30), <1>3, <1>4
<1> QED
  BY <1>1, <1>5 DEF GP!Retire

\* A caller that leaves is waited for no more.
LEMMA ExitRefines ==
  ASSUME IndInv, NEW t \in Threads, Exit(t)
  PROVE  GP!End(t)
<1>1. t \in Range(kq_inflight)
  BY DEF IndInv, InflightIsInside, Inside, Exit
<1>2. Range(kq_inflight') = Range(kq_inflight) \ {t}
  BY <1>1, UnlinkedProperties DEF Exit
<1>3. \A u \in Udata : Pending(u)' = Pending(u) \ {t}
  BY <1>2 DEF Pending, Exit
<1>4. [u \in Udata |-> Pending(u)]' =
        [u \in Udata |-> [v \in Udata |-> Pending(v)][u] \ {t}]
  BY <1>3
<1> QED
  BY <1>1, <1>2, <1>4 DEF GP!End, Exit

\* What the sweep frees, nobody waits for.
LEMMA SweepRefines ==
  ASSUME IndInv, NEW t \in Threads, Sweep(t)
  PROVE  GP!Reclaim(Head(ud_deferred_free)) /\ Head(ud_deferred_free) \in Udata
<1> DEFINE u == Head(ud_deferred_free)
<1>0. /\ ud_deferred_free \in Seq(Udata) /\ ud_deferred_free # << >>
      /\ boundary \in [Udata -> Nat] /\ epoch \in [Threads -> Nat]
      /\ kq_inflight \in Seq(Threads)
      /\ ud \in [Udata -> {"free", "live", "stale"}]
  BY EpochMaxAssumption DEF IndInv, TypeOK, Epochs, Sweep, HeadEligible
<1>1. u \in Udata /\ ud[u] = "stale"
  <2>1. 1 \in 1 .. Len(ud_deferred_free) /\ u = ud_deferred_free[1]
    BY <1>0
  <2>2. u \in Udata /\ u \in Range(ud_deferred_free)
    BY <1>0, <2>1, RangeMember, ElementOfSeq
  <2> QED
    BY <2>2 DEF IndInv, DeferredIsStale
<1>2. ASSUME NEW x \in Range(kq_inflight)
      PROVE  ~(epoch[x] <= boundary[u])
  <2>1. /\ kq_inflight # << >>
        /\ Head(kq_inflight) \in Threads
        /\ epoch[Head(kq_inflight)] <= epoch[x]
    BY HeadIsOldest
  <2>2. boundary[u] < epoch[Head(kq_inflight)]
    BY <2>1 DEF Sweep, HeadEligible
  <2>3. x \in Threads
    BY SMTT(30), <1>0, RangeMember, ElementOfSeq
  <2> QED
    BY <1>0, <1>1, <2>1, <2>2, <2>3
<1>3. Pending(u) = {}
  BY <1>2 DEF Pending
<1>4. \A v \in Udata : Pending(v)' = Pending(v)
  BY ZenonT(30), <1>0, <1>1, <1>3 DEF Pending, Sweep
<1>5. [v \in Udata |-> Pending(v)]' = [v \in Udata |-> Pending(v)]
  BY <1>4
<1> QED
  BY <1>1, <1>3, <1>5 DEF GP!Reclaim, Sweep

\* Every step of the implementation is a step of the grace period or changes
\* nothing there.
LEMMA StepRefines ==
  ASSUME IndInv, IndInv', [Next]_vars
  PROVE  [GP!Next]_(GP!vars)
<1>0. epoll_events \in [Threads -> SUBSET Udata]
  BY DEF IndInv, TypeOK
<1>1. ASSUME NEW t \in Threads, EpochRoom, Enter(t) PROVE GP!Next
  BY <1>1, EnterRefines DEF GP!Next
<1>2. ASSUME NEW t \in Threads, Exit(t) PROVE GP!Next
  BY <1>2, ExitRefines DEF GP!Next
<1>3. ASSUME NEW t \in Threads, Sweep(t) PROVE GP!Next
  BY <1>3, SweepRefines DEF GP!Next
<1>4. ASSUME NEW t \in Threads, NEW u \in Udata, AddKnote(t, u) PROVE GP!Next
  <2>1. \A v \in Udata : Pending(v)' = Pending(v)
    BY ZenonT(30), <1>4 DEF AddKnote, Pending, IndInv, TypeOK
  <2>2. [v \in Udata |-> Pending(v)]' = [v \in Udata |-> Pending(v)]
    BY <2>1
  <2>3. GP!Allocate(u)
    BY <1>4, <2>2 DEF GP!Allocate, AddKnote
  <2> QED
    BY SMTT(30), <2>3 DEF GP!Next
<1>5. ASSUME NEW t \in Threads, NEW u \in Udata, DeleteKnote(t, u) PROVE GP!Next
  <2>1. epoll_events' = [epoll_events EXCEPT ![t] = @ \ {}]
    BY <1>5 DEF DeleteKnote, IndInv, TypeOK
  <2>2. \A G \in SUBSET Udata :
          epoll_events' = [epoll_events EXCEPT ![t] = @ \ G] => GP!Retire(t, u, G)
    BY ZenonT(30), <1>5, DeferFreeRefines DEF DeleteKnote
  <2>3. {} \in SUBSET Udata
    OBVIOUS
  <2>4. GP!Retire(t, u, {})
    BY <2>1, <2>2, <2>3, Zenon
  <2> QED
    BY <2>3, <2>4 DEF GP!Next
<1>6. ASSUME NEW t \in Threads, NEW u \in Udata, CopyoutDelete(t, u) PROVE GP!Next
  <2>1. GP!Retire(t, u, {u})
    BY ZenonT(30), <1>6, DeferFreeRefines DEF CopyoutDelete
  <2> QED
    BY <2>1 DEF GP!Next
<1>7. ASSUME UNCHANGED <<ud, boundary, epoch, kq_inflight>>
      PROVE  /\ Range(kq_inflight)' = Range(kq_inflight)
             /\ [v \in Udata |-> Pending(v)]' = [v \in Udata |-> Pending(v)]
  BY <1>7 DEF Pending
<1>8. ASSUME NEW t \in Threads, NEW S \in SUBSET Udata, EpollWait(t, S) PROVE GP!Next
  <2>1. t \in Range(kq_inflight)
    BY <1>8 DEF EpollWait, IndInv, InflightIsInside, Inside
  <2>2. \A u \in S : ud[u] = "live"
    BY <1>8 DEF EpollWait, IndInv, BuffersFilledFromLive
  <2>3. GP!Acquire(t, S)
    BY <1>7, <1>8, <2>1, <2>2 DEF GP!Acquire, EpollWait
  <2> QED
    BY <2>3 DEF GP!Next
<1>9. ASSUME NEW t \in Threads, NEW u \in Udata, Copyout(t, u) PROVE GP!Next
  <2>1. GP!Drop(t, {u})
    BY <1>7, <1>9 DEF GP!Drop, Copyout
  <2> QED
    BY SMTT(30), <2>1 DEF GP!Next
<1>10. CASE \/ \E t \in Threads : Park(t) \/ Relock(t) \/ Leave(t)
            \/ \E t \in Threads, u \in Udata : DisableKnote(t, u) \/ EnableKnote(t, u)
            \/ \E u \in Udata : CloseWatched(u)
            \/ UNCHANGED vars
  <2>1. UNCHANGED <<ud, boundary, epoch, kq_inflight, epoll_events>>
    BY <1>10 DEF Park, Relock, Leave, DisableKnote, EnableKnote, CloseWatched, vars
  <2> QED
    BY <1>7, <2>1 DEF GP!vars
<1> QED
  BY <1>1, <1>2, <1>3, <1>4, <1>5, <1>6, <1>8, <1>9, <1>10 DEF Next, Step

\* The epochs, kq_inflight and ud_deferred_free implement the grace period: a
\* udata is freed only once every caller that was inside kevent() when the
\* udata was retired has left.
THEOREM Refinement == Spec => GracePeriodSpec
<1>1. Init => GP!Init
  <2> SUFFICES ASSUME Init PROVE GP!Init
    OBVIOUS
  <2>1. Range(kq_inflight) = {}
    BY DEF Init, Range
  <2>2. [u \in Udata |-> Pending(u)] = [u \in Udata |-> {}]
    BY DEF Init, Pending
  <2> QED
    BY <2>1, <2>2 DEF Init, GP!Init
<1>2. IndInv /\ IndInv' /\ [Next]_vars => [GP!Next]_(GP!vars)
  BY StepRefines
<1>3. Spec => []IndInv
  BY Invariance
<1> QED
  BY <1>1, <1>2, <1>3, PTL DEF Spec, GracePeriodSpec, GP!Spec

================================================================================
