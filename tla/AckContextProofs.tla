-------------------------- MODULE AckContextProofs --------------------------
(***************************************************************************)
(* The safety invariants of AckContext, proved for every bound, every      *)
(* number of ranges per frame and every horizon delay, after the facts     *)
(* about the operators of SackList that they rest on, proved for every     *)
(* list of ranges.                                                         *)
(***************************************************************************)
EXTENDS AckContext, FiniteSetTheorems, WellFoundedInduction, TLAPS

(* A bounded nonempty set of naturals has a largest element.               *)
LEMMA MaxExists ==
  ASSUME NEW S \in SUBSET Nat, S # {}, NEW t \in Nat, \A c \in S : c <= t
  PROVE  \E c \in S : \A d \in S : d <= c
<1> DEFINE D == {n \in Nat : \E c \in S : n = t - c}
<1>1. D \subseteq Nat /\ D # {}
  <2>1. PICK c \in S : TRUE
    OBVIOUS
  <2>2. t - c \in D
    BY <2>1
  <2> QED BY <2>2
<1>2. PICK x \in D : \A y \in D : ~ (<<y, x>> \in OpToRel(<, Nat))
  <2> HIDE DEF D
  <2> QED BY <1>1, NatLessThanWellFounded, WFMin
<1>3. PICK c \in S : x = t - c
  BY <1>2
<1>4. \A d \in S : d <= c
  <2> SUFFICES ASSUME NEW d \in S PROVE d <= c
    OBVIOUS
  <2>1. t - d \in D /\ t - d \in Nat /\ x \in Nat
    OBVIOUS
  <2>2. ~ (t - d < x)
    BY <1>2, <2>1 DEF OpToRel
  <2> QED BY <1>3, <2>1, <2>2
<1> QED BY <1>3, <1>4

-----------------------------------------------------------------------------
(* picoquic_update_sack_list *)

(* At most one absorbed range ends beyond hi, and it is the last one.      *)
LEMMA BeyondUnique ==
  ASSUME NEW sacks \in SUBSET Item, Separated(sacks), NEW lo \in Nat, NEW hi \in Nat
  PROVE  \A i, j \in Beyond(sacks, lo, hi) : i = j
BY DEF Beyond, Absorbed, Separated, Item

(* At most one range of a separated list is joined by an update at lo. *)
LEMMA JoinedUnique ==
  ASSUME NEW sacks \in SUBSET Item, Separated(sacks), NEW lo \in Nat
  PROVE  \A i, j \in RangeJoined(sacks, lo) : i = j
BY DEF RangeJoined, RangeBelow, Separated, Item

(* The merged range is an item and starts at or below lo, ends at hi or    *)
(* above.                                                                  *)
LEMMA MergedItemType ==
  ASSUME NEW sacks \in SUBSET Item, Separated(sacks),
         NEW lo \in Nat, NEW hi \in Nat, lo <= hi, NEW t \in Nat,
         \A i \in sacks : i.created <= t
  PROVE  /\ MergedItem(sacks, lo, hi, t) \in Item
         /\ MergedItem(sacks, lo, hi, t).created <= t
<1>1. MergedStart(sacks, lo) \in Nat
  BY DEF MergedStart, RangeJoined, RangeBelow, Item
<1>2. MergedEnd(sacks, lo, hi) \in Nat
  BY DEF MergedEnd, Beyond, Absorbed, Item
<1>3. MergedCreated(sacks, lo, hi, t) \in Nat /\ MergedCreated(sacks, lo, hi, t) <= t
  <2> DEFINE M == Merged(sacks, lo, hi)
             C == {i.created : i \in M}
  <2>1. CASE RangeJoined(sacks, lo) = {} \/ Beyond(sacks, lo, hi) = {}
    BY <2>1 DEF MergedCreated
  <2>2. CASE ~(RangeJoined(sacks, lo) = {} \/ Beyond(sacks, lo, hi) = {})
    <3>1. M \subseteq sacks /\ M # {}
      BY <2>2 DEF Merged, RangeJoined, RangeBelow, Absorbed, Beyond
    <3>2. C \in SUBSET Nat /\ C # {} /\ \A c \in C : c <= t
      BY <3>1 DEF Item
    <3>3. \E c \in C : \A d \in C : d <= c
      <4> HIDE DEF C
      <4> QED BY <3>2, MaxExists
    <3>4. \E c \in C : \A i \in M : i.created <= c
      BY <3>3
    <3> DEFINE m == CHOOSE c \in C : \A i \in M : i.created <= c
    <3>5. m \in C
      BY <3>4
    <3>6. MergedCreated(sacks, lo, hi, t) = m
      BY <2>2 DEF MergedCreated
    <3> QED BY <3>2, <3>5, <3>6
  <2> QED BY <2>1, <2>2
<1>4. NotSent \in [Tracks -> 0..SentCap]
  BY SackAssumption DEF NotSent, SentCap
<1> QED BY <1>1, <1>2, <1>3, <1>4 DEF MergedItem, Item

(* The bounds of the merged range.                                         *)
LEMMA MergedBounds ==
  ASSUME NEW sacks \in SUBSET Item, Separated(sacks),
         NEW lo \in Nat, NEW hi \in Nat, lo <= hi,
         ~IsDuplicate(sacks, lo, hi)
  PROVE  /\ MergedStart(sacks, lo) <= lo
         /\ hi <= MergedEnd(sacks, lo, hi)
         /\ \A p \in RangeJoined(sacks, lo) : MergedStart(sacks, lo) = p.start
         /\ \A i \in Beyond(sacks, lo, hi) : MergedEnd(sacks, lo, hi) = i.end
         /\ RangeJoined(sacks, lo) = {} => MergedStart(sacks, lo) = lo
         /\ Beyond(sacks, lo, hi) = {} => MergedEnd(sacks, lo, hi) = hi
<1>1. MergedStart(sacks, lo) <= lo
  BY DEF MergedStart, RangeJoined, RangeBelow, Item
<1>2. hi <= MergedEnd(sacks, lo, hi)
  BY DEF MergedEnd, Beyond, Absorbed, Item
<1>3. \A p \in RangeJoined(sacks, lo) : MergedStart(sacks, lo) = p.start
  BY JoinedUnique DEF MergedStart
<1>4. \A i \in Beyond(sacks, lo, hi) : MergedEnd(sacks, lo, hi) = i.end
  BY BeyondUnique DEF MergedEnd
<1> QED BY <1>1, <1>2, <1>3, <1>4 DEF MergedStart, MergedEnd

(* What stays is separated from the merged range.                          *)
LEMMA MergedApart ==
  ASSUME NEW sacks \in SUBSET Item, Separated(sacks),
         NEW lo \in Nat, NEW hi \in Nat, lo <= hi,
         ~IsDuplicate(sacks, lo, hi),
         NEW i \in sacks \ Merged(sacks, lo, hi)
  PROVE  \/ i.end + 1 < MergedStart(sacks, lo)
         \/ MergedEnd(sacks, lo, hi) + 1 < i.start
<1> DEFINE ms == MergedStart(sacks, lo)
           me == MergedEnd(sacks, lo, hi)
<1>0. i.start \in Nat /\ i.end \in Nat /\ i.start <= i.end
  BY DEF Separated, Item
<1>1. CASE i.start <= lo
  <2>1. CASE \E p \in RangeJoined(sacks, lo) : TRUE
    <3>1. PICK p \in RangeJoined(sacks, lo) : TRUE
      BY <2>1
    <3>2. p # i /\ p \in sacks /\ p.start <= lo /\ i.start <= p.start
      BY <1>1, <3>1 DEF Merged, RangeJoined, RangeBelow
    <3>3. p.start \in Nat /\ i.start < p.start
      BY <1>0, <3>2 DEF Separated, Item
    <3>4. i.end + 1 < p.start
      BY <3>2, <3>3 DEF Separated
    <3> QED BY <3>1, <3>4, MergedBounds
  <2>2. CASE RangeJoined(sacks, lo) = {}
    <3>1. ms = lo
      BY <2>2, MergedBounds
    <3>2. i.end + 1 < lo
      <4>1. CASE i \in RangeBelow(sacks, lo)
        BY <1>0, <2>2, <4>1 DEF RangeJoined
      <4>2. CASE i \notin RangeBelow(sacks, lo)
        <5>1. PICK j \in sacks : j.start <= lo /\ ~(j.start <= i.start)
          BY <1>1, <4>2 DEF RangeBelow
        <5>2. j.start \in Nat
          BY DEF Item
        <5>3. i.end + 1 < j.start
          BY <1>0, <5>1, <5>2 DEF Separated
        <5> QED BY <1>0, <5>1, <5>2, <5>3
      <4> QED BY <4>1, <4>2
    <3> QED BY <3>1, <3>2
  <2> QED BY <2>1, <2>2
<1>2. CASE lo < i.start
  <2>1. i.start > hi + 1
    BY <1>0, <1>2 DEF Merged, Absorbed
  <2>2. CASE Beyond(sacks, lo, hi) = {}
    BY <1>0, <2>1, <2>2, MergedBounds
  <2>3. CASE Beyond(sacks, lo, hi) # {}
    <3>1. PICK b \in Beyond(sacks, lo, hi) : TRUE
      BY <2>3
    <3>2. b \in sacks /\ b.start \in Nat /\ b.start - 1 <= hi
      BY <3>1 DEF Beyond, Absorbed, Item
    <3>3. b.end + 1 < i.start
      BY <1>0, <2>1, <3>2 DEF Separated
    <3> QED BY <3>1, <3>3, MergedBounds
  <2> QED BY <2>2, <2>3
<1> QED BY <1>0, <1>1, <1>2

(* picoquic_update_sack_list keeps the list separated.                     *)
LEMMA UpdateSeparated ==
  ASSUME NEW sacks \in SUBSET Item, Separated(sacks),
         NEW lo \in Nat, NEW hi \in Nat, lo <= hi, NEW t \in Nat,
         \A i \in sacks : i.created <= t
  PROVE  /\ UpdatedItems(sacks, lo, hi, t) \in SUBSET Item
         /\ Separated(UpdatedItems(sacks, lo, hi, t))
         /\ \A i \in UpdatedItems(sacks, lo, hi, t) : i.created <= t
<1>1. CASE IsDuplicate(sacks, lo, hi)
  BY <1>1 DEF UpdatedItems
<1>2. CASE ~IsDuplicate(sacks, lo, hi)
  <2> DEFINE m == MergedItem(sacks, lo, hi, t)
             K == sacks \ Merged(sacks, lo, hi)
  <2>1. UpdatedItems(sacks, lo, hi, t) = K \cup {m}
    BY <1>2 DEF UpdatedItems
  <2>2. m \in Item /\ m.created <= t
    BY MergedItemType
  <2>3. m.start = MergedStart(sacks, lo) /\ m.end = MergedEnd(sacks, lo, hi)
    BY DEF MergedItem
  <2>4. m.start <= lo /\ hi <= m.end
    BY <1>2, <2>3, MergedBounds
  <2>5. \A i \in K : i.end + 1 < m.start \/ m.end + 1 < i.start
    BY <1>2, <2>3, MergedApart
  <2>6. K \subseteq Item /\ Separated(K) /\ \A i \in K : i.created <= t
    BY DEF Separated
  <2> HIDE DEF m, K
  <2>7. m.start <= m.end
    BY <2>2, <2>4 DEF Item
  <2>8. Separated(K \cup {m})
    <3>1. \A i \in K \cup {m} : i.start <= i.end
      BY <2>6, <2>7 DEF Separated
    <3>2. \A i, j \in K \cup {m} : i.start < j.start => i.end + 1 < j.start
      BY <2>2, <2>5, <2>6, <2>7, <3>1 DEF Separated, Item
    <3>3. \A i, j \in K \cup {m} : i.start = j.start => i = j
      BY <2>2, <2>5, <2>6, <2>7, <3>1 DEF Separated, Item
    <3> QED BY <3>1, <3>2, <3>3 DEF Separated
  <2> QED BY <2>1, <2>2, <2>6, <2>8
<1> QED BY <1>1, <1>2

(* The recorded range is covered afterwards, and nothing else is added or  *)
(* lost.                                                                   *)
LEMMA UpdateCovers ==
  ASSUME NEW sacks \in SUBSET Item, Separated(sacks),
         NEW lo \in Nat, NEW hi \in Nat, lo <= hi, NEW t \in Nat,
         \A i \in sacks : i.created <= t, NEW pn \in Nat
  PROVE  Covered(UpdatedItems(sacks, lo, hi, t), pn) <=> Covered(sacks, pn) \/ pn \in lo..hi
<1>1. CASE IsDuplicate(sacks, lo, hi)
  <2>1. pn \in lo..hi => Covered(sacks, pn)
    BY <1>1 DEF IsDuplicate, RangeJoined, RangeBelow, Covered, Covers, Item
  <2> QED BY <1>1, <2>1 DEF UpdatedItems
<1>2. CASE ~IsDuplicate(sacks, lo, hi)
  <2> DEFINE m == MergedItem(sacks, lo, hi, t)
             M == Merged(sacks, lo, hi)
  <2>1. UpdatedItems(sacks, lo, hi, t) = (sacks \ M) \cup {m}
    BY <1>2 DEF UpdatedItems
  <2>2. m \in Item /\ m.start = MergedStart(sacks, lo) /\ m.end = MergedEnd(sacks, lo, hi)
    BY MergedItemType DEF MergedItem
  <2>3. m.start <= lo /\ hi <= m.end
    BY <1>2, <2>2, MergedBounds
  <2>4. M \subseteq sacks
    BY DEF Merged, RangeJoined, RangeBelow, Absorbed
  <2>5. ASSUME NEW i \in M, Covers(i, pn) PROVE Covers(m, pn)
    <3>0. i \in sacks /\ i.start \in Nat /\ i.end \in Nat /\ i.start <= i.end
      BY <2>4 DEF Item, Separated
    <3>1. CASE i \in RangeJoined(sacks, lo)
      <4>1. m.start = i.start
        BY <1>2, <2>2, <3>1, MergedBounds
      <4>2. i.end < hi
        BY <1>2, <3>0, <3>1 DEF IsDuplicate
      <4> QED BY <2>2, <2>3, <2>5, <3>0, <4>1, <4>2 DEF Covers, Item
    <3>2. CASE i \in Absorbed(sacks, lo, hi)
      <4>1. lo < i.start
        BY <3>2 DEF Absorbed
      <4>2. i.end <= m.end
        <5>1. CASE i \in Beyond(sacks, lo, hi)
          BY <1>2, <2>2, <3>0, <5>1, MergedBounds
        <5>2. CASE i \notin Beyond(sacks, lo, hi)
          BY <2>2, <2>3, <3>0, <3>2, <5>2 DEF Beyond, Item
        <5> QED BY <5>1, <5>2
      <4> QED BY <2>2, <2>3, <2>5, <3>0, <4>1, <4>2 DEF Covers, Item
    <3> QED BY <3>1, <3>2 DEF Merged
  <2>6. ASSUME Covers(m, pn) PROVE Covered(sacks, pn) \/ pn \in lo..hi
    <3>1. CASE pn < lo
      <4>1. RangeJoined(sacks, lo) # {}
        BY <1>2, <2>2, <2>6, <3>1, MergedBounds DEF Covers
      <4>2. PICK p \in RangeJoined(sacks, lo) : TRUE
        BY <4>1
      <4>3. p.start = m.start
        BY <1>2, <2>2, <4>2, MergedBounds
      <4>4. p \in sacks /\ p.end + 1 >= lo
        BY <4>2 DEF RangeJoined, RangeBelow
      <4> QED BY <2>6, <3>1, <4>3, <4>4 DEF Covered, Covers, Item
    <3>2. CASE pn > hi
      <4>1. Beyond(sacks, lo, hi) # {}
        BY <1>2, <2>2, <2>6, <3>2, MergedBounds DEF Covers
      <4>2. PICK b \in Beyond(sacks, lo, hi) : TRUE
        BY <4>1
      <4>3. b.end = m.end
        BY <1>2, <2>2, <4>2, MergedBounds
      <4>4. b \in sacks /\ b.start - 1 <= hi
        BY <4>2 DEF Beyond, Absorbed
      <4> QED BY <2>6, <3>2, <4>3, <4>4 DEF Covered, Covers, Item
    <3> QED BY <3>1, <3>2
  <2>7. pn \in lo..hi => Covers(m, pn)
    BY <2>2, <2>3 DEF Covers, Item
  <2> HIDE DEF m, M
  <2> QED BY <2>1, <2>4, <2>5, <2>6, <2>7 DEF Covered
<1> QED BY <1>1, <1>2

-----------------------------------------------------------------------------
(* Accounting of range_counts *)

(* Replacing removed by added keeps the accounting exact.                  *)
LEMMA RecountExact ==
  ASSUME NEW sacks, IsFiniteSet(sacks), NEW rc \in RangeCounts, CountsExact(sacks, rc),
         NEW removed \in SUBSET sacks, NEW added, IsFiniteSet(added),
         added \cap (sacks \ removed) = {}
  PROVE  /\ Recount(rc, removed, added) \in RangeCounts
         /\ CountsExact((sacks \ removed) \cup added, Recount(rc, removed, added))
<1> SUFFICES ASSUME NEW r \in Tracks, NEW k \in 0..(Repeat - 1)
             PROVE  /\ Recount(rc, removed, added)[r][k] \in Int
                    /\ Recount(rc, removed, added)[r][k]
                         = Cardinality({i \in (sacks \ removed) \cup added : i.sent[r] = k})
  BY DEF CountsExact, RangeCounts, Recount
<1> DEFINE I == {i \in sacks : i.sent[r] = k}
           R == {i \in removed : i.sent[r] = k}
           A == {i \in added : i.sent[r] = k}
           N == {i \in (sacks \ removed) \cup added : i.sent[r] = k}
<1>1. Recount(rc, removed, added)[r][k] = rc[r][k] - Cardinality(R) + Cardinality(A)
  BY DEF Recount
<1>2. rc[r][k] = Cardinality(I)
  BY DEF CountsExact
<1>3. IsFiniteSet(I) /\ IsFiniteSet(A) /\ IsFiniteSet(R)
  <2>1. I \in SUBSET sacks /\ A \in SUBSET added /\ R \in SUBSET sacks
    OBVIOUS
  <2> HIDE DEF I, A, R
  <2> QED BY <2>1, FS_Subset
<1>4. N = (I \ R) \cup A /\ (I \ R) \cap A = {} /\ I \cap R = R
  OBVIOUS
<1> HIDE DEF I, R, A, N
<1>5. IsFiniteSet(I \ R) /\ Cardinality(I \ R) = Cardinality(I) - Cardinality(R)
  BY <1>3, <1>4, FS_Difference
<1>6. Cardinality(N) = Cardinality(I \ R) + Cardinality(A)
  <2>1. Cardinality((I \ R) \cup A)
          = Cardinality(I \ R) + Cardinality(A) - Cardinality((I \ R) \cap A)
    BY <1>3, <1>5, FS_Union
  <2>2. Cardinality((I \ R) \cap A) = 0
    BY <1>4, FS_EmptySet
  <2>3. Cardinality(I \ R) \in Nat /\ Cardinality(A) \in Nat
    BY <1>3, <1>5, FS_CardinalityType
  <2> QED BY <1>4, <2>1, <2>2, <2>3
<1>7. Cardinality(I) \in Nat /\ Cardinality(R) \in Nat /\ Cardinality(A) \in Nat
  BY <1>3, FS_CardinalityType
<1>8. Recount(rc, removed, added)[r][k] = Cardinality(N)
  BY <1>1, <1>2, <1>5, <1>6, <1>7
<1>9. Recount(rc, removed, added)[r][k] \in Int
  BY <1>1, <1>2, <1>7
<1> QED BY <1>8, <1>9 DEF N

-----------------------------------------------------------------------------
(* picoquic_process_ack_of_ack_range *)

(* The ranges of an ACK frame, as picoquic_format_ack_frame writes them.   *)
FrameWellFormed(frame) ==
  /\ \A g \in frame : g.start \in Nat /\ g.end \in Nat /\ g.start <= g.end
  /\ \A g, h \in frame : g.start = h.start => g = h

(* The last range of a separated list is unique. *)
LEMMA LastUnique ==
  ASSUME NEW sacks \in SUBSET Item, Separated(sacks)
  PROVE  \A i, j \in LastItem(sacks) : i = j
BY DEF LastItem, Separated, Item

(* Ranges of a separated list that share an end are equal. *)
LEMMA EndsUnique ==
  ASSUME NEW sacks \in SUBSET Item, Separated(sacks)
  PROVE  \A i, j \in sacks : i.end = j.end => i = j
BY DEF Separated, Item

(* Every range that stays is the upper part of a range of the old list.    *)
LEMMA AckOfAckOrigin ==
  ASSUME NEW sacks \in SUBSET Item, Separated(sacks), NEW frame, FrameWellFormed(frame),
         NEW n \in AckOfAckItems(sacks, frame)
  PROVE  /\ n \in Item /\ n.start <= n.end
         /\ \E i \in sacks : /\ n.end = i.end /\ i.start <= n.start /\ n.created = i.created
                             /\ n = i \/ n = Retired(i) \/ \E g \in frame : n = Trimmed(i, g)
<1>1. CASE n \in sacks
  BY <1>1 DEF Separated, Item
<1>2. CASE \E tg \in Trims(sacks, frame) : n = Trimmed(tg[1], tg[2])
  <2>1. PICK tg \in Trims(sacks, frame) : n = Trimmed(tg[1], tg[2])
    BY <1>2
  <2>2. tg[1] \in sacks /\ tg[2] \in frame /\ tg[2].start = tg[1].start
    BY <2>1 DEF Trims, LastItem
  <2>3. tg[1] \in Item /\ tg[1].start <= tg[1].end
    BY <2>2 DEF Separated
  <2>4. tg[2].start \in Nat /\ tg[2].end \in Nat /\ tg[2].start <= tg[2].end
    BY <2>2 DEF FrameWellFormed
  <2>5. /\ n \in Item /\ n.start <= n.end /\ n.end = tg[1].end
        /\ tg[1].start <= n.start /\ n.created = tg[1].created
    BY <2>1, <2>2, <2>3, <2>4 DEF Trimmed, Item
  <2> QED BY <2>1, <2>2, <2>5
<1>3. CASE \E i \in Confirmed(sacks, frame) : n = Retired(i)
  <2>1. PICK i \in Confirmed(sacks, frame) : n = Retired(i)
    BY <1>3
  <2>2. i \in sacks /\ i \in Item /\ i.start <= i.end
    BY <2>1 DEF Confirmed, Separated
  <2>3. n \in Item /\ n.start = i.start /\ n.end = i.end /\ n.created = i.created
    BY <2>1, <2>2, SackAssumption DEF Retired, Item, SentCap
  <2> QED BY <2>1, <2>2, <2>3 DEF Item
<1> QED BY <1>1, <1>2, <1>3 DEF AckOfAckItems

(* Ranges that an ACK of ACK leaves and that share an end are equal. *)
LEMMA AckOfAckEnds ==
  ASSUME NEW sacks \in SUBSET Item, Separated(sacks), NEW frame, FrameWellFormed(frame),
         NEW n \in AckOfAckItems(sacks, frame), NEW m \in AckOfAckItems(sacks, frame),
         n.end = m.end
  PROVE  n = m
<1> DEFINE C == Confirmed(sacks, frame)
           T == Trims(sacks, frame)
<1>1. \A i, j \in sacks : i.end = j.end => i = j
  BY EndsUnique
<1>2. \A s \in T : s[1] \in LastItem(sacks) /\ s[1] \in sacks /\ s[2] \in frame
                   /\ s[2].start = s[1].start /\ s[1] \notin C
  BY DEF Trims, LastItem, Confirmed
<1>3. \A s, u \in T : s[1] = u[1] /\ s[2] = u[2]
  BY <1>2, LastUnique DEF FrameWellFormed
<1>4. \A s \in T : Trimmed(s[1], s[2]).end = s[1].end
  BY <1>2 DEF Trimmed, Item
<1>5. C \subseteq sacks /\ \A i \in C : Retired(i).end = i.end
  BY DEF Confirmed, Retired, Item
<1>6. \A x \in AckOfAckItems(sacks, frame) :
        \/ x \in sacks /\ x \notin C /\ \A s \in T : x # s[1]
        \/ \E s \in T : x = Trimmed(s[1], s[2])
        \/ \E i \in C : x = Retired(i)
  BY DEF AckOfAckItems
<1> HIDE DEF C, T
<1>7. CASE n \in sacks /\ n \notin C /\ \A s \in T : n # s[1]
  BY <1>1, <1>2, <1>4, <1>5, <1>6, <1>7
<1>8. CASE \E s \in T : n = Trimmed(s[1], s[2])
  BY <1>1, <1>2, <1>3, <1>4, <1>5, <1>6, <1>8
<1>9. CASE \E i \in C : n = Retired(i)
  BY <1>1, <1>2, <1>4, <1>5, <1>6, <1>9
<1> QED BY <1>6, <1>7, <1>8, <1>9

(* The list stays separated.                                               *)
LEMMA AckOfAckSeparated ==
  ASSUME NEW sacks \in SUBSET Item, Separated(sacks), NEW frame, FrameWellFormed(frame)
  PROVE  /\ AckOfAckItems(sacks, frame) \in SUBSET Item
         /\ Separated(AckOfAckItems(sacks, frame))
<1> DEFINE A == AckOfAckItems(sacks, frame)
<1>1. \A n \in A : n \in Item /\ n.start <= n.end
                  /\ \E i \in sacks : n.end = i.end /\ i.start <= n.start
  BY AckOfAckOrigin
<1>2. \A n, m \in A : n.end = m.end => n = m
  BY AckOfAckEnds
<1> HIDE DEF A
<1>3. ASSUME NEW n \in A, NEW m \in A
      PROVE  /\ n.start < m.start => n.end + 1 < m.start
             /\ n.start = m.start => n = m
  <2>1. PICK i \in sacks : n.end = i.end /\ i.start <= n.start
    BY <1>1
  <2>2. PICK j \in sacks : m.end = j.end /\ j.start <= m.start
    BY <1>1
  <2>3. /\ n.start \in Nat /\ n.end \in Nat /\ m.start \in Nat /\ m.end \in Nat
        /\ i.start \in Nat /\ i.end \in Nat /\ j.start \in Nat /\ j.end \in Nat
        /\ n.start <= n.end /\ m.start <= m.end
    BY <1>1 DEF Item
  <2>4. CASE i = j
    BY <1>2, <2>1, <2>2, <2>3, <2>4
  <2>5. CASE i # j
    <3>1. i.end + 1 < j.start \/ j.end + 1 < i.start
      BY <2>3, <2>5 DEF Separated
    <3> QED BY <2>1, <2>2, <2>3, <3>1
  <2> QED BY <2>4, <2>5
<1> QED BY <1>1, <1>3 DEF A, Separated

(* Only packets the frame reports leave the list, and none enters it.      *)
LEMMA AckOfAckCovers ==
  ASSUME NEW sacks \in SUBSET Item, Separated(sacks), NEW frame, FrameWellFormed(frame),
         NEW pn \in Nat
  PROVE  /\ Covered(AckOfAckItems(sacks, frame), pn) => Covered(sacks, pn)
         /\ Covered(sacks, pn) => Covered(AckOfAckItems(sacks, frame), pn) \/ Covered(frame, pn)
<1>1. Covered(AckOfAckItems(sacks, frame), pn) => Covered(sacks, pn)
  <2> SUFFICES ASSUME NEW n \in AckOfAckItems(sacks, frame), Covers(n, pn)
               PROVE  Covered(sacks, pn)
    BY DEF Covered
  <2>1. PICK i \in sacks : n.end = i.end /\ i.start <= n.start /\ n \in Item
    BY AckOfAckOrigin
  <2> QED BY <2>1 DEF Covered, Covers, Item
<1>2. ASSUME NEW i \in sacks, Covers(i, pn)
      PROVE  Covered(AckOfAckItems(sacks, frame), pn) \/ Covered(frame, pn)
  <2>1. CASE i \in Confirmed(sacks, frame)
    BY <1>2, <2>1 DEF Confirmed, Covered, Covers
  <2>2. CASE \E tg \in Trims(sacks, frame) : i = tg[1]
    <3>1. PICK tg \in Trims(sacks, frame) : i = tg[1]
      BY <2>2
    <3>2. tg[2] \in frame /\ tg[2].start = i.start
      BY <3>1 DEF Trims
    <3>3. Trimmed(i, tg[2]) \in AckOfAckItems(sacks, frame)
      BY <3>1 DEF AckOfAckItems
    <3>4. tg[2].end \in Nat /\ i.start \in Nat /\ i.end \in Nat /\ i \in Item
      BY <3>2 DEF FrameWellFormed, Item
    <3>5. pn <= tg[2].end \/ Covers(Trimmed(i, tg[2]), pn)
      BY <1>2, <3>4 DEF Trimmed, Covers, Item
    <3> QED BY <1>2, <3>2, <3>3, <3>4, <3>5 DEF Covered, Covers
  <2>3. CASE i \notin Confirmed(sacks, frame) /\ \A tg \in Trims(sacks, frame) : i # tg[1]
    <3>1. i \in AckOfAckItems(sacks, frame)
      BY <2>3 DEF AckOfAckItems
    <3> QED BY <1>2, <3>1 DEF Covered
  <2> QED BY <2>1, <2>2, <2>3
<1> QED BY <1>1, <1>2 DEF Covered

(* The accounting follows: a trimmed range keeps its count, a retired one  *)
(* is beyond the counted ones.                                             *)
LEMMA AckOfAckExact ==
  ASSUME NEW sacks \in SUBSET Item, Separated(sacks), IsFiniteSet(sacks),
         NEW rc \in RangeCounts, CountsExact(sacks, rc),
         NEW frame, FrameWellFormed(frame)
  PROVE  /\ IsFiniteSet(AckOfAckItems(sacks, frame))
         /\ AckOfAckCounts(sacks, rc, frame) \in RangeCounts
         /\ CountsExact(AckOfAckItems(sacks, frame), AckOfAckCounts(sacks, rc, frame))
<1> DEFINE C == Confirmed(sacks, frame)
           T == Trims(sacks, frame)
           L == {tg[1] : tg \in T}
           Tm == {Trimmed(tg[1], tg[2]) : tg \in T}
           Rt == IF HorizonDelay > 0 THEN {Retired(i) : i \in C} ELSE {}
<1>1. AckOfAckItems(sacks, frame) = (sacks \ (C \cup L)) \cup (Tm \cup Rt)
  BY DEF AckOfAckItems
<1>2. /\ C \subseteq sacks /\ L \subseteq sacks /\ C \cap L = {}
  BY DEF Confirmed, Trims, LastItem
<1>3. T = {} \/ \E l \in sacks : \E g \in frame :
                   L = {l} /\ Tm = {Trimmed(l, g)} /\ l \notin C
  <2> SUFFICES ASSUME T # {} PROVE \E l \in sacks : \E g \in frame :
                   L = {l} /\ Tm = {Trimmed(l, g)} /\ l \notin C
    OBVIOUS
  <2>1. PICK tg \in T : TRUE
    OBVIOUS
  <2>2. tg[1] \in sacks /\ tg[2] \in frame /\ tg[1] \notin C
    BY <2>1 DEF Trims, LastItem, Confirmed
  <2>3. \A s, u \in T : s[1] = u[1] /\ s[2] = u[2]
    BY LastUnique DEF Trims, FrameWellFormed
  <2>4. L = {tg[1]} /\ Tm = {Trimmed(tg[1], tg[2])}
    BY <2>1, <2>3
  <2> QED BY <2>2, <2>4
<1>4. \A i \in C : /\ Retired(i).end = i.end
                   /\ \A r \in Tracks : Retired(i).sent[r] \in Nat /\ Retired(i).sent[r] >= Repeat
  BY <1>2, SackAssumption DEF Retired, Item, SentCap
<1>5. \A i \in sacks, g \in frame : Trimmed(i, g).end = i.end /\ Trimmed(i, g).sent = i.sent
  BY DEF Trimmed, Item
<1>6. IsFiniteSet(C) /\ IsFiniteSet(C \cup L)
  <2> HIDE DEF C, L
  <2> QED BY <1>2, FS_Subset
<1>7. IsFiniteSet(Rt)
  <2> DEFINE f == [i \in C |-> Retired(i)]
             Q == {Retired(i) : i \in C}
  <2>1. f \in Surjection(C, Q)
    BY DEF Surjection
  <2>2. IsFiniteSet(Q)
    <3> HIDE DEF f, Q, C
    <3> QED BY <1>6, <2>1, FS_Surjection
  <2> QED BY <2>2, FS_EmptySet
<1>8. IsFiniteSet(Tm)
  <2>1. Tm = {} \/ \E x : Tm = {x}
    BY <1>3
  <2> HIDE DEF Tm
  <2> QED BY <2>1, FS_EmptySet, FS_Singleton
<1>9. (Tm \cup Rt) \cap (sacks \ (C \cup L)) = {}
  <2>1. \A n \in Tm : n \in sacks => n \in L
    BY <1>3, <1>5, EndsUnique
  <2>2. \A n \in Rt : n \in sacks => n \in C
    BY <1>2, <1>4, EndsUnique
  <2> QED BY <2>1, <2>2
<1>10. IsFiniteSet(Tm \cup Rt)
  <2> HIDE DEF Tm, Rt
  <2> QED BY <1>7, <1>8, FS_Union
<1>11. Recount(rc, C \cup L, Tm \cup Rt) = Recount(rc, C, {})
  <2> SUFFICES ASSUME NEW r \in Tracks, NEW k \in 0..(Repeat - 1)
               PROVE  rc[r][k] - Cardinality({i \in C \cup L : i.sent[r] = k})
                               + Cardinality({i \in Tm \cup Rt : i.sent[r] = k})
                      = rc[r][k] - Cardinality({i \in C : i.sent[r] = k})
                                 + Cardinality({i \in {} : i.sent[r] = k})
    BY DEF Recount
  <2> DEFINE Ck == {i \in C : i.sent[r] = k}
             Lk == {i \in C \cup L : i.sent[r] = k}
             Ak == {i \in Tm \cup Rt : i.sent[r] = k}
             Zk == {i \in {} : i.sent[r] = k}
  <2> SUFFICES rc[r][k] - Cardinality(Lk) + Cardinality(Ak)
               = rc[r][k] - Cardinality(Ck) + Cardinality(Zk)
    OBVIOUS
  <2>1. IsFiniteSet(Ck) /\ Cardinality(Ck) \in Nat
    <3>1. Ck \in SUBSET C
      OBVIOUS
    <3> HIDE DEF Ck, C
    <3> QED BY <1>6, <3>1, FS_Subset, FS_CardinalityType
  <2>2. rc[r][k] \in Int
    BY DEF RangeCounts
  <2>3. Zk = {} /\ Cardinality(Zk) = 0
    BY FS_EmptySet
  <2>4. Repeat \in Nat /\ k < Repeat /\ k \in Nat
    BY SackAssumption
  <2>5. \A i \in Rt : i.sent[r] # k
    BY <1>4, <2>4
  <2>6. CASE T = {}
    <3>1. Lk = Ck /\ Ak = {}
      BY <2>5, <2>6
    <3> HIDE DEF Lk, Ck, Ak, Zk
    <3> QED BY <2>1, <2>2, <2>3, <3>1, FS_EmptySet
  <2>7. CASE \E l \in sacks : \E g \in frame :
                   L = {l} /\ Tm = {Trimmed(l, g)} /\ l \notin C
    <3>1. PICK l \in sacks, g \in frame : L = {l} /\ Tm = {Trimmed(l, g)} /\ l \notin C
      BY <2>7
    <3>2. CASE l.sent[r] = k
      <4>1. Lk = Ck \cup {l} /\ l \notin Ck /\ Ak = {Trimmed(l, g)}
        BY <1>5, <2>5, <3>1, <3>2
      <4> HIDE DEF Lk, Ck, Ak, Zk
      <4>2. Cardinality(Lk) = Cardinality(Ck) + 1
        BY <2>1, <4>1, FS_AddElement
      <4>3. Cardinality(Ak) = 1
        BY <4>1, FS_Singleton
      <4> QED BY <2>1, <2>2, <2>3, <4>2, <4>3
    <3>3. CASE l.sent[r] # k
      <4>1. Lk = Ck /\ Ak = {}
        BY <1>5, <2>5, <3>1, <3>3
      <4> HIDE DEF Lk, Ck, Ak, Zk
      <4> QED BY <2>1, <2>2, <2>3, <4>1, FS_EmptySet
    <3> QED BY <3>2, <3>3
  <2> QED BY <1>3, <2>6, <2>7
<1>12. AckOfAckCounts(sacks, rc, frame) = Recount(rc, C \cup L, Tm \cup Rt)
  BY <1>11 DEF AckOfAckCounts
<1>13. C \cup L \in SUBSET sacks
  BY <1>2
<1> HIDE DEF C, T, L, Tm, Rt
<1>14. IsFiniteSet((sacks \ (C \cup L)) \cup (Tm \cup Rt))
  BY <1>10, FS_Difference, FS_Union
<1> QED BY <1>1, <1>9, <1>10, <1>12, <1>13, <1>14, RecountExact

(* picoquic_update_sack_list keeps the accounting exact.                   *)
LEMMA UpdateExact ==
  ASSUME NEW sacks \in SUBSET Item, Separated(sacks), IsFiniteSet(sacks),
         NEW rc \in RangeCounts, CountsExact(sacks, rc),
         NEW lo \in Nat, NEW hi \in Nat, lo <= hi, NEW t \in Nat,
         \A i \in sacks : i.created <= t
  PROVE  /\ IsFiniteSet(UpdatedItems(sacks, lo, hi, t))
         /\ UpdatedCounts(sacks, rc, lo, hi, t) \in RangeCounts
         /\ CountsExact(UpdatedItems(sacks, lo, hi, t), UpdatedCounts(sacks, rc, lo, hi, t))
<1>1. CASE IsDuplicate(sacks, lo, hi)
  BY <1>1 DEF UpdatedItems, UpdatedCounts
<1>2. CASE ~IsDuplicate(sacks, lo, hi)
  <2> DEFINE m == MergedItem(sacks, lo, hi, t)
             M == Merged(sacks, lo, hi)
  <2>1. M \in SUBSET sacks
    BY DEF Merged, RangeJoined, RangeBelow, Absorbed
  <2>2. m.start = MergedStart(sacks, lo) /\ m.end = MergedEnd(sacks, lo, hi)
    BY DEF MergedItem
  <2>3. m \in Item
    BY MergedItemType
  <2>4. m.start <= m.end
    BY <1>2, <2>2, <2>3, MergedBounds DEF Item
  <2>5. m \notin sacks \ M
    <3> SUFFICES ASSUME m \in sacks \ M PROVE FALSE
      OBVIOUS
    <3>1. m.end + 1 < m.start \/ m.end + 1 < m.start
      BY <1>2, <2>2, MergedApart
    <3> QED BY <2>3, <2>4, <3>1 DEF Item
  <2>6. /\ UpdatedItems(sacks, lo, hi, t) = (sacks \ M) \cup {m}
        /\ UpdatedCounts(sacks, rc, lo, hi, t) = Recount(rc, M, {m})
    BY <1>2 DEF UpdatedItems, UpdatedCounts
  <2> HIDE DEF m, M
  <2>7. IsFiniteSet({m}) /\ {m} \cap (sacks \ M) = {}
    BY <2>5, FS_Singleton
  <2>8. IsFiniteSet((sacks \ M) \cup {m})
    BY FS_Difference, FS_AddElement
  <2> QED BY <2>1, <2>6, <2>7, <2>8, RecountExact
<1> QED BY <1>1, <1>2

(* A well-formed list new with the accounting rc holds the same ranges as  *)
(* sacks.                                                                  *)
SameRanges(sacks, new, rc) ==
  /\ new \in SUBSET Item /\ Separated(new) /\ IsFiniteSet(new)
  /\ rc \in RangeCounts /\ CountsExact(new, rc)
  /\ \A n \in new : \E i \in sacks :
       n.start = i.start /\ n.end = i.end /\ n.created = i.created
  /\ \A i \in sacks : \E n \in new : n.start = i.start /\ n.end = i.end

(* picoquic_sack_item_record_sent for the ranges of S: only the counts     *)
(* change, and the accounting follows.                                     *)
LEMMA SentExact ==
  ASSUME NEW sacks \in SUBSET Item, Separated(sacks), IsFiniteSet(sacks),
         NEW rc \in RangeCounts, CountsExact(sacks, rc),
         NEW S \in SUBSET sacks, NEW r \in Tracks
  PROVE  SameRanges(sacks, (sacks \ S) \cup RecordedSent(S, r), Recount(rc, S, RecordedSent(S, r)))
<1> DEFINE sent == RecordedSent(S, r)
           new  == (sacks \ S) \cup sent
<1> USE DEF RecordedSent
<1>1. \A i \in sacks : /\ RecordSent(i, r) \in Item
                       /\ RecordSent(i, r).start = i.start /\ RecordSent(i, r).end = i.end
                       /\ RecordSent(i, r).created = i.created
  BY SackAssumption DEF RecordSent, Item, SentCap
<1>2. new \in SUBSET Item
  BY <1>1
<1>3. \A n \in new : \E i \in sacks :
        /\ n.start = i.start /\ n.end = i.end /\ n.created = i.created
        /\ n = IF i \in S THEN RecordSent(i, r) ELSE i
  BY <1>1
<1>4. Separated(new)
  <2> HIDE DEF new
  <2> QED BY <1>2, <1>3 DEF Separated, Item
<1>5. \A i \in sacks : \E n \in new : n.start = i.start /\ n.end = i.end
  BY <1>1
<1>6. IsFiniteSet(S)
  BY FS_Subset
<1>7. IsFiniteSet(sent)
  <2> DEFINE f == [i \in S |-> RecordSent(i, r)]
  <2>1. f \in Surjection(S, sent)
    BY DEF Surjection
  <2> HIDE DEF f, sent
  <2> QED BY <1>6, <2>1, FS_Surjection
<1>8. sent \cap (sacks \ S) = {}
  BY <1>1, EndsUnique
<1>9. IsFiniteSet(new)
  <2> HIDE DEF sent
  <2> QED BY <1>7, FS_Difference, FS_Union
<1>10. Recount(rc, S, sent) \in RangeCounts /\ CountsExact(new, Recount(rc, S, sent))
  <2> HIDE DEF sent
  <2> QED BY <1>7, <1>8, RecountExact
<1> HIDE DEF RecordedSent
<1> QED BY <1>2, <1>3, <1>4, <1>5, <1>9, <1>10 DEF SameRanges

-----------------------------------------------------------------------------
(* The inductive invariant.  RangesSeparated is needed for the list        *)
(* operations to be what they are meant to be, the frames must be well     *)
(* formed for an ACK of an ACK to trim at most one range, and what is on   *)
(* the list must have been received for the next frame to be truthful.     *)
FramesWellFormed == \A frame \in frames : FrameWellFormed(frame)

ItemsReceived == \A i \in items : \A pn \in i.start..i.end : pn \in received

(* The list lies above the horizon, which therefore never moves back.      *)
AboveHorizon ==
  /\ \A i \in items : ack_horizon <= i.start
  /\ HorizonDelay = 0 => ack_horizon = 0

ListOK ==
  /\ items \in SUBSET Item
  /\ IsFiniteSet(items)
  /\ \A i \in items : i.created <= now
  /\ RangesSeparated
  /\ range_counts \in RangeCounts
  /\ RangeCountsExact

IndInv ==
  /\ TypeOK
  /\ ListOK
  /\ FramesWellFormed
  /\ ItemsReceived
  /\ AboveHorizon
  /\ AcksTruthful
  /\ NothingForgotten

-----------------------------------------------------------------------------
(* The empty context satisfies the inductive invariant. *)
LEMMA InitInd == Init => IndInv
<1> SUFFICES ASSUME Init PROVE IndInv
  OBVIOUS
<1> USE DEF Init
<1>1. TypeOK
  BY SackAssumption DEF TypeOK, NoCounts, RangeCounts, Track, NewTrack, Frame
<1>2. RangeCountsExact
  <2> SUFFICES ASSUME NEW r \in Tracks, NEW k \in 0..(Repeat - 1)
               PROVE  range_counts[r][k] = Cardinality({i \in items : i.sent[r] = k})
    BY DEF RangeCountsExact, CountsExact
  <2>1. {i \in items : i.sent[r] = k} = {}
    OBVIOUS
  <2>2. range_counts[r][k] = 0
    BY DEF NoCounts
  <2> QED BY <2>1, <2>2, FS_EmptySet
<1>3. ListOK
  BY <1>1, <1>2, FS_EmptySet DEF ListOK, TypeOK, RangesSeparated, Separated
<1>4. FramesWellFormed /\ ItemsReceived /\ AboveHorizon /\ AcksTruthful /\ NothingForgotten
  BY DEF FramesWellFormed, ItemsReceived, AboveHorizon, AcksTruthful, NothingForgotten
<1> QED BY <1>1, <1>3, <1>4 DEF IndInv

(* The tracks keep their type through every function that changes them.    *)
LEMMA TrackTypes ==
  ASSUME TypeOK, NEW a \in [Tracks -> Track], NEW pn \in Pn
  PROVE  /\ SetAckNeeded(a) \in [Tracks -> Track]
         /\ SetAckAfterFin(a) \in [Tracks -> Track]
         /\ NoteOrder(a, pn) \in [Tracks -> Track]
<1>1. SetAckNeeded(a) \in [Tracks -> Track]
  BY DEF SetAckNeeded, Track, TypeOK
<1>2. SetAckAfterFin(a) \in [Tracks -> Track]
  BY DEF SetAckAfterFin, Track
<1>3. NoteOrder(a, pn) \in [Tracks -> Track]
  BY DEF NoteOrder, Track
<1> QED BY <1>1, <1>2, <1>3

-----------------------------------------------------------------------------
(* The list operations of the three actions keep ListOK.                   *)

(* What picoquic_record_pn_received does to the list of received ranges. *)
LEMMA RecordList ==
  ASSUME IndInv, NEW pn \in Pn, RecordPnReceived(pn), received' = received \cup {pn},
         ~AlreadyReceived(items, ack_horizon, pn), now' = now, confirmed' = confirmed
  PROVE  ListOK' /\ ItemsReceived' /\ AboveHorizon' /\ ack_horizon' \in Nat /\ NothingForgotten'
<1> DEFINE U == UpdatedItems(items, pn, pn, now)
           uc == UpdatedCounts(items, range_counts, pn, pn, now)
           D == BelowHorizon(U, now)
<1>1. /\ items \in SUBSET Item /\ Separated(items) /\ IsFiniteSet(items)
      /\ \A i \in items : i.created <= now
      /\ range_counts \in RangeCounts /\ CountsExact(items, range_counts)
      /\ now \in Nat /\ ack_horizon \in Nat /\ received \subseteq Nat /\ pn \in Nat
  BY AckAssumption DEF IndInv, ListOK, TypeOK, RangesSeparated, RangeCountsExact, Pn
<1>2. U \in SUBSET Item /\ Separated(U) /\ \A i \in U : i.created <= now
  BY <1>1, UpdateSeparated
<1>3. IsFiniteSet(U) /\ uc \in RangeCounts /\ CountsExact(U, uc)
  BY <1>1, UpdateExact
<1>4. \A q \in Nat : Covered(U, q) <=> Covered(items, q) \/ q = pn
  <2> SUFFICES ASSUME NEW q \in Nat PROVE Covered(U, q) <=> Covered(items, q) \/ q = pn
    OBVIOUS
  <2>1. Covered(U, q) <=> Covered(items, q) \/ q \in pn..pn
    BY <1>1, UpdateCovers
  <2>2. q \in pn..pn <=> q = pn
    BY <1>1
  <2> QED BY <2>1, <2>2
<1>5. /\ items' = U \ D
      /\ range_counts' = Recount(uc, D, {})
      /\ ack_horizon' = HorizonOf(D, ack_horizon)
  BY DEF RecordPnReceived
<1>6. D \in SUBSET U
  BY DEF BelowHorizon
<1> HIDE DEF U, uc, D
<1>7. ListOK'
  <2>1. items' = (U \ D) \cup {}
    BY <1>5
  <2>2. IsFiniteSet({}) /\ {} \cap (U \ D) = {}
    BY FS_EmptySet
  <2>3. range_counts' \in RangeCounts /\ CountsExact((U \ D) \cup {}, range_counts')
    BY <1>3, <1>5, <1>6, <2>2, RecountExact
  <2>4. IsFiniteSet(items') /\ items' \in SUBSET Item /\ Separated(items')
    BY <1>2, <1>3, <1>5, FS_Difference DEF Separated
  <2>5. \A i \in items' : i.created <= now'
    BY <1>2, <1>5
  <2> QED BY <2>1, <2>3, <2>4, <2>5 DEF ListOK, RangesSeparated, RangeCountsExact
<1>8a. ASSUME NEW i \in U, NEW q \in i.start..i.end PROVE q \in received'
  <2>1. q \in Nat /\ Covered(U, q)
    BY <1>2 DEF Covered, Covers, Item
  <2>2. CASE Covered(items, q)
    BY <1>1, <2>1, <2>2 DEF Covered, Covers, IndInv, ItemsReceived, Item
  <2> QED BY <1>4, <2>1, <2>2
<1>8. ItemsReceived'
  BY <1>5, <1>8a DEF ItemsReceived
<1>8b. HorizonDelay = 0 => D = {} /\ ack_horizon = 0
  BY DEF D, BelowHorizon, IndInv, AboveHorizon
<1>8c. \A i \in U : ack_horizon <= i.start
  <2> SUFFICES ASSUME NEW i \in U PROVE ack_horizon <= i.start
    OBVIOUS
  <2>1. i.start \in Nat /\ Covered(U, i.start)
    BY <1>2 DEF Covered, Covers, Separated, Item
  <2>2. CASE Covered(items, i.start)
    BY <1>1, <2>1, <2>2 DEF Covered, Covers, IndInv, AboveHorizon, Item
  <2>3. CASE i.start = pn
    BY <1>1, <1>8b, <2>3, SackAssumption DEF AlreadyReceived
  <2> QED BY <1>4, <2>1, <2>2, <2>3
<1>9. D # {} => \E d \in D : /\ \A j \in D : j.start <= d.start
                             /\ HorizonOf(D, ack_horizon) = d.end + 1
  <2> SUFFICES ASSUME D # {} PROVE \E d \in D : \A j \in D : j.start <= d.start
    BY DEF HorizonOf
  <2> DEFINE S == {i.start : i \in D}
  <2>1. S \in SUBSET Nat /\ S # {}
    BY <1>2, <1>6 DEF Item
  <2>3. MaxPn \in Nat /\ \A c \in S : c <= MaxPn
    <3>1. \A i \in U : i.start \in received'
      BY <1>2, <1>8a DEF Separated, Item
    <3>2. received' \subseteq 0..MaxPn
      BY DEF IndInv, TypeOK, Pn
    <3> QED BY <1>6, <3>1, <3>2, AckAssumption
  <2>4. \E c \in S : \A d \in S : d <= c
    <3> HIDE DEF S
    <3> QED BY <2>1, <2>3, MaxExists
  <2> QED BY <2>4
<1>10. ack_horizon' \in Nat
  BY <1>1, <1>2, <1>5, <1>6, <1>9 DEF HorizonOf, Item
<1>12. AboveHorizon'
  <2>1. CASE D = {}
    BY <1>5, <1>8b, <1>8c, <2>1 DEF AboveHorizon, HorizonOf
  <2>2. CASE D # {}
    <3>1. PICK d \in D : (\A j \in D : j.start <= d.start) /\ ack_horizon' = d.end + 1
      BY <1>5, <1>9, <2>2
    <3>2. d \in U /\ d \notin LastItem(U) /\ \A j \in U : j.start <= d.start => Expired(j, now)
      BY <1>8b, <2>2, <3>1 DEF D, BelowHorizon
    <3>3. ASSUME NEW i \in U \ D PROVE d.end + 1 <= i.start
      <4>1. i.start \in Nat /\ i.end \in Nat /\ d.start \in Nat /\ d.end \in Nat
        BY <1>2, <3>2 DEF Item
      <4>2. CASE i.start <= d.start
        <5>1. i.start < d.start
          BY <1>2, <3>1, <3>2, <3>3, <4>1, <4>2 DEF Separated
        <5>2. i \notin LastItem(U) /\ \A j \in U : j.start <= i.start => Expired(j, now)
          BY <1>2, <3>2, <4>1, <5>1 DEF LastItem, Item
        <5>3. i \in D
          BY <1>8b, <2>2, <3>3, <5>2 DEF D, BelowHorizon
        <5> QED BY <3>3, <5>3
      <4>3. CASE d.start < i.start
        BY <1>2, <3>2, <4>1, <4>3 DEF Separated
      <4> QED BY <4>1, <4>2, <4>3
    <3> QED BY <1>5, <1>8b, <2>2, <3>1, <3>3 DEF AboveHorizon
  <2> QED BY <2>1, <2>2
<1>11. NothingForgotten'
  <2> SUFFICES ASSUME NEW q \in received'
               PROVE  Covered(items', q) \/ Covered(confirmed, q) \/ q < ack_horizon'
    BY DEF NothingForgotten
  <2>1. q \in Nat
    BY <1>1
  <2>2. CASE D = {}
    <3>1. items' = U /\ ack_horizon' = ack_horizon
      BY <1>5, <2>2 DEF HorizonOf
    <3>2. CASE q = pn
      BY <1>4, <2>1, <3>1, <3>2
    <3>3. CASE q \in received
      BY <1>4, <2>1, <3>1, <3>3 DEF IndInv, NothingForgotten
    <3> QED BY <3>2, <3>3
  <2>3. CASE D # {}
    <3>1. PICK d \in D : (\A j \in D : j.start <= d.start) /\ ack_horizon' = d.end + 1
      BY <1>5, <1>9, <2>3
    <3>2. d \in U /\ d.start \in Nat /\ d.end \in Nat
      BY <1>2, <1>6 DEF Item
    <3>3. ASSUME NEW i \in U, Covers(i, q) PROVE Covered(items', q) \/ q < ack_horizon'
      <4>1. CASE i \in D
        <5>1. i.start <= d.start /\ i.start \in Nat /\ i.end \in Nat
          BY <1>2, <3>1, <3>2, <4>1 DEF Item
        <5>2. i.end <= d.end
          BY <1>2, <3>2, <5>1 DEF Separated
        <5> QED BY <2>1, <3>1, <3>2, <3>3, <5>1, <5>2 DEF Covers
      <4>2. CASE i \notin D
        BY <1>5, <3>3, <4>2 DEF Covered
      <4> QED BY <4>1, <4>2
    <3>4. ack_horizon < ack_horizon'
      BY <1>1, <1>2, <1>8c, <3>1, <3>2 DEF Separated
    <3>5. CASE q = pn
      BY <1>4, <2>1, <3>3, <3>5 DEF Covered
    <3>6. CASE q \in received
      <4>1. Covered(items, q) \/ Covered(confirmed, q) \/ q < ack_horizon
        BY <3>6 DEF IndInv, NothingForgotten
      <4>2. CASE Covered(items, q)
        BY <1>4, <2>1, <3>3, <4>2 DEF Covered
      <4> QED BY <1>1, <1>10, <2>1, <3>4, <4>1, <4>2
    <3> QED BY <3>5, <3>6
  <2> QED BY <2>2, <2>3
<1> QED BY <1>7, <1>8, <1>10, <1>11, <1>12

(* Formatting an ACK frame leaves the ranges and keeps their counts exact. *)
LEMMA FormatList ==
  ASSUME IndInv, NEW r \in Tracks, NEW room, FormatAck(r, room)
  PROVE  /\ ListOK' /\ ItemsReceived' /\ AboveHorizon' /\ NothingForgotten'
         /\ FramesWellFormed' /\ AcksTruthful' /\ frames' \subseteq Frame
         /\ act' \in [Tracks -> Track] /\ unacked' \subseteq unacked
<1>1. PICK last \in LastItem(items) :
        LET top    == RecordSent(last, r)
            others == items \ {last}
            rc     == Recount(range_counts, {last}, {top})
            picked == SelectedRanges(others, rc, r, top, room)
            sent   == RecordedSent(picked, r)
            frame  == {AckRange(i) : i \in picked \cup {last}}
        IN  /\ items' = (others \ picked) \cup sent \cup {top}
            /\ range_counts' = Recount(rc, picked, sent)
            /\ frames' \in {frames, frames \cup {frame}}
            /\ unacked' = IF r = 0 THEN {u \in unacked : ~Covered(frame, u[1])}
                                   ELSE unacked
            /\ act' = [act EXCEPT ![r] = [@ EXCEPT !.highest_ack_sent = last.end,
                                                   !.ack_needed = FALSE,
                                                   !.ack_after_fin = FALSE,
                                                   !.out_of_order_received = FALSE]]
  BY DEF FormatAck
<1> DEFINE top    == RecordSent(last, r)
           others == items \ {last}
           rc     == Recount(range_counts, {last}, {top})
           picked == SelectedRanges(others, rc, r, top, room)
           sent   == RecordedSent(picked, r)
           frame  == {AckRange(i) : i \in picked \cup {last}}
           mid    == others \cup {top}
<1>2. /\ items \in SUBSET Item /\ Separated(items) /\ IsFiniteSet(items)
      /\ \A i \in items : i.created <= now
      /\ range_counts \in RangeCounts /\ CountsExact(items, range_counts)
  BY DEF IndInv, ListOK, RangesSeparated, RangeCountsExact
<1>3. last \in items /\ last \in Item /\ {last} \in SUBSET items
  BY <1>1, <1>2 DEF LastItem
<1>4. RecordedSent({last}, r) = {top} /\ (items \ {last}) \cup {top} = mid
  BY DEF RecordedSent
<1>5. SameRanges(items, mid, rc)
  <2>1. SameRanges(items, (items \ {last}) \cup RecordedSent({last}, r),
                   Recount(range_counts, {last}, RecordedSent({last}, r)))
    BY <1>2, <1>3, SentExact
  <2> HIDE DEF top, mid
  <2> QED BY <1>4, <2>1
<1>6. picked \subseteq others /\ picked \in SUBSET mid /\ top \notin picked
  <2>1. picked \subseteq others
    BY DEF SelectedRanges, Eligible
  <2>2. top.end = last.end
    BY <1>3 DEF RecordSent, Item
  <2>3. top \notin others
    BY <1>2, <1>3, <2>2, EndsUnique
  <2> QED BY <2>1, <2>3
<1>7. items' = (mid \ picked) \cup sent /\ range_counts' = Recount(rc, picked, sent)
  BY <1>1, <1>6
<1>8. SameRanges(mid, items', range_counts')
  <2> HIDE DEF mid, picked, rc, top
  <2>1. mid \in SUBSET Item /\ Separated(mid) /\ IsFiniteSet(mid)
        /\ rc \in RangeCounts /\ CountsExact(mid, rc)
    BY <1>5 DEF SameRanges
  <2>2. SameRanges(mid, (mid \ picked) \cup RecordedSent(picked, r),
                   Recount(rc, picked, RecordedSent(picked, r)))
    BY <1>6, <2>1, SentExact
  <2> QED BY <1>7, <2>2
<1>9. SameRanges(items, items', range_counts')
  <2> HIDE DEF mid, rc
  <2> QED BY <1>5, <1>8 DEF SameRanges
<1>10. UNCHANGED <<ack_horizon, now, received, confirmed>>
  BY DEF FormatAck
<1>11. ListOK' /\ ItemsReceived' /\ AboveHorizon'
  <2>1. \A i \in items' : i.created <= now'
    BY <1>2, <1>9, <1>10 DEF SameRanges
  <2>2. ItemsReceived'
    BY <1>9, <1>10 DEF SameRanges, IndInv, ItemsReceived
  <2>3. AboveHorizon'
    BY <1>9, <1>10 DEF SameRanges, IndInv, AboveHorizon
  <2> QED BY <1>9, <2>1, <2>2, <2>3 DEF SameRanges, ListOK, RangesSeparated, RangeCountsExact
<1>12. NothingForgotten'
  BY <1>9, <1>10 DEF SameRanges, IndInv, NothingForgotten, Covered, Covers
<1>13. /\ \A g \in frame : \E i \in items : g = AckRange(i)
  BY <1>3, <1>6
<1>14. frame \in Frame /\ FrameWellFormed(frame)
       /\ \A g \in frame : \A pn \in g.start..g.end : pn \in received
  <2> HIDE DEF frame
  <2>1. frame \in Frame
    BY <1>2, <1>13 DEF Frame, AckRange, Item
  <2>2. FrameWellFormed(frame)
    BY <1>2, <1>13 DEF FrameWellFormed, AckRange, Item, Separated
  <2>3. \A g \in frame : \A pn \in g.start..g.end : pn \in received
    BY <1>13 DEF IndInv, ItemsReceived, AckRange
  <2> QED BY <2>1, <2>2, <2>3
<1>15. frames' \subseteq frames \cup {frame}
  BY <1>1
<1>16. FramesWellFormed' /\ AcksTruthful' /\ frames' \subseteq Frame
  <2> HIDE DEF frame
  <2> QED BY <1>10, <1>14, <1>15 DEF IndInv, TypeOK, FramesWellFormed, AcksTruthful
<1>17. act' \in [Tracks -> Track]
  <2>1. last.end \in Nat /\ act \in [Tracks -> Track]
    BY <1>3 DEF Item, IndInv, TypeOK
  <2> QED BY <1>1, <2>1 DEF Track
<1>18. unacked' \subseteq unacked
  BY <1>1
<1> QED BY <1>11, <1>12, <1>16, <1>17, <1>18

-----------------------------------------------------------------------------
(* One lemma per action: the action preserves the inductive invariant.     *)

(* A received packet preserves the inductive invariant. *)
LEMMA ReceiveInd ==
  ASSUME IndInv, NEW pn \in Pn, NEW kind \in Kinds, Receive(pn, kind)
  PROVE  IndInv'
<1>1. /\ RecordPnReceived(pn) /\ received' = received \cup {pn}
      /\ ~AlreadyReceived(items, ack_horizon, pn)
      /\ UNCHANGED <<now, frames, confirmed>>
  BY DEF Receive
<1>2. ListOK' /\ ItemsReceived' /\ AboveHorizon' /\ ack_horizon' \in Nat /\ NothingForgotten'
  BY <1>1, RecordList
<1>3. act' \in [Tracks -> Track]
  <2>1. TypeOK /\ act \in [Tracks -> Track]
    BY DEF IndInv, TypeOK
  <2> DEFINE a == IF kind = "fin" THEN SetAckAfterFin(act) ELSE act
             b == IF kind = "ack_only" THEN a ELSE SetAckNeeded(a)
  <2>2. a \in [Tracks -> Track]
    BY <2>1, TrackTypes
  <2>3. b \in [Tracks -> Track]
    <3> HIDE DEF a
    <3> QED BY <2>1, <2>2, TrackTypes
  <2>4. act' = NoteOrder(b, pn)
    BY DEF Receive
  <2> HIDE DEF b
  <2> QED BY <2>1, <2>3, <2>4, TrackTypes
<1>4. unacked' \subseteq Pn \X Nat /\ received' \subseteq Pn
  BY DEF Receive, IndInv, TypeOK
<1>5. TypeOK'
  BY <1>1, <1>2, <1>3, <1>4 DEF IndInv, TypeOK, ListOK
<1>6. FramesWellFormed' /\ AcksTruthful'
  BY <1>1 DEF IndInv, FramesWellFormed, AcksTruthful
<1> QED BY <1>2, <1>5, <1>6 DEF IndInv

(* Formatting an ACK frame preserves the inductive invariant. *)
LEMMA FormatInd ==
  ASSUME IndInv, NEW r \in Tracks, NEW room \in Rooms, FormatAck(r, room)
  PROVE  IndInv'
<1>1. UNCHANGED <<ack_horizon, now, received, confirmed>>
  BY DEF FormatAck
<1>2. /\ ListOK' /\ ItemsReceived' /\ AboveHorizon' /\ NothingForgotten'
      /\ FramesWellFormed' /\ AcksTruthful' /\ frames' \subseteq Frame
      /\ act' \in [Tracks -> Track] /\ unacked' \subseteq unacked
  BY FormatList
<1>3. TypeOK'
  BY <1>1, <1>2 DEF IndInv, TypeOK, ListOK
<1> QED BY <1>2, <1>3 DEF IndInv

(* Processing the ACK of an ACK preserves the inductive invariant. *)
LEMMA AckOfAckInd ==
  ASSUME IndInv, NEW frame \in frames, ProcessAckOfAck(frame)
  PROVE  IndInv'
<1>1. /\ items' = AckOfAckItems(items, frame)
      /\ range_counts' = AckOfAckCounts(items, range_counts, frame)
      /\ confirmed' = confirmed \cup frame
      /\ UNCHANGED <<ack_horizon, act, now, received, unacked, frames>>
  BY DEF ProcessAckOfAck
<1>2. /\ items \in SUBSET Item /\ Separated(items) /\ IsFiniteSet(items)
      /\ \A i \in items : i.created <= now
      /\ range_counts \in RangeCounts /\ CountsExact(items, range_counts)
      /\ FrameWellFormed(frame)
  BY DEF IndInv, ListOK, RangesSeparated, RangeCountsExact, FramesWellFormed
<1>3. items' \in SUBSET Item /\ Separated(items')
  BY <1>1, <1>2, AckOfAckSeparated
<1>4. IsFiniteSet(items') /\ range_counts' \in RangeCounts /\ CountsExact(items', range_counts')
  BY <1>1, <1>2, AckOfAckExact
<1>5. \A n \in items' : /\ n \in Item
                        /\ \E i \in items : /\ n.end = i.end /\ i.start <= n.start
                                            /\ n.created = i.created
  BY <1>1, <1>2, AckOfAckOrigin
<1>6. ListOK'
  <2>1. \A i \in items' : i.created <= now'
    BY <1>1, <1>2, <1>5
  <2> QED BY <1>3, <1>4, <2>1 DEF ListOK, RangesSeparated, RangeCountsExact
<1>7. ItemsReceived'
  BY <1>1, <1>2, <1>5 DEF IndInv, ItemsReceived, Item
<1>8. AboveHorizon'
  BY <1>1, <1>2, <1>5 DEF IndInv, AboveHorizon, TypeOK, Item
<1>9. NothingForgotten'
  <2> SUFFICES ASSUME NEW pn \in received
               PROVE  Covered(items', pn) \/ Covered(confirmed', pn) \/ pn < ack_horizon
    BY <1>1 DEF NothingForgotten
  <2>1. pn \in Nat
    BY AckAssumption DEF IndInv, TypeOK, Pn
  <2>2. Covered(items, pn) => Covered(items', pn) \/ Covered(frame, pn)
    BY <1>1, <1>2, <2>1, AckOfAckCovers
  <2>3. Covered(items, pn) \/ Covered(confirmed, pn) \/ pn < ack_horizon
    BY DEF IndInv, NothingForgotten
  <2>4. Covered(frame, pn) \/ Covered(confirmed, pn) => Covered(confirmed', pn)
    BY <1>1 DEF Covered
  <2> QED BY <2>2, <2>3, <2>4
<1>10. TypeOK'
  BY <1>1, <1>3, <1>4 DEF IndInv, TypeOK, Frame
<1>11. FramesWellFormed' /\ AcksTruthful'
  BY <1>1 DEF IndInv, FramesWellFormed, AcksTruthful
<1> QED BY <1>6, <1>7, <1>8, <1>9, <1>10, <1>11 DEF IndInv

(* The other steps leave the list and the frames alone.                    *)
LEMMA QuietInd ==
  ASSUME IndInv, Tick \/ (\E r \in Tracks : AskAckNeeded(r)) \/ UNCHANGED vars
  PROVE  IndInv'
<1>1. /\ UNCHANGED <<items, range_counts, ack_horizon, received, unacked, frames, confirmed>>
      /\ now' \in Nat /\ now <= now' /\ act' \in [Tracks -> Track]
  <2>1. now \in Nat /\ act \in [Tracks -> Track]
    BY DEF IndInv, TypeOK
  <2>2. CASE Tick
    BY <2>1, <2>2 DEF Tick
  <2>3. CASE \E r \in Tracks : AskAckNeeded(r)
    <3>1. PICK r \in Tracks : AskAckNeeded(r)
      BY <2>3
    <3>2. act[r] \in Track /\ act' = [act EXCEPT ![r] = [act[r] EXCEPT !.ack_after_fin = FALSE]]
      BY <2>1, <3>1 DEF AskAckNeeded
    <3>3. [act[r] EXCEPT !.ack_after_fin = FALSE] \in Track
      BY <3>2 DEF Track
    <3> QED BY <2>1, <3>1, <3>2, <3>3 DEF AskAckNeeded
  <2>4. CASE UNCHANGED vars
    BY <2>1, <2>4 DEF vars
  <2> QED BY <2>2, <2>3, <2>4
<1>2. TypeOK'
  BY <1>1 DEF IndInv, TypeOK
<1>3. ListOK'
  <2>1. \A i \in items' : i.created <= now'
    BY <1>1 DEF IndInv, ListOK, TypeOK, Item
  <2> QED BY <1>1, <2>1 DEF IndInv, ListOK, RangesSeparated, RangeCountsExact
<1>4. FramesWellFormed' /\ ItemsReceived' /\ AboveHorizon' /\ AcksTruthful' /\ NothingForgotten'
  BY <1>1 DEF IndInv, FramesWellFormed, ItemsReceived, AboveHorizon, AcksTruthful, NothingForgotten
<1> QED BY <1>2, <1>3, <1>4 DEF IndInv

(* Every step preserves the inductive invariant. *)
LEMMA NextInd == IndInv /\ [Next]_vars => IndInv'
<1> SUFFICES ASSUME IndInv, [Next]_vars PROVE IndInv'
  OBVIOUS
<1>1. CASE \E pn \in Pn, kind \in Kinds : Receive(pn, kind)
  BY <1>1, ReceiveInd
<1>2. CASE \E r \in Tracks, room \in Rooms : FormatAck(r, room)
  BY <1>2, FormatInd
<1>3. CASE \E frame \in frames : ProcessAckOfAck(frame)
  BY <1>3, AckOfAckInd
<1>4. CASE Tick \/ (\E r \in Tracks : AskAckNeeded(r)) \/ UNCHANGED vars
  BY <1>4, QuietInd
<1> QED BY <1>1, <1>2, <1>3, <1>4 DEF Next

(* The context always has its type.                                        *)
THEOREM TypeCorrect == Spec => []TypeOK
<1>1. IndInv => TypeOK
  BY DEF IndInv
<1> QED BY InitInd, NextInd, <1>1, PTL DEF Spec

(* picoquic_update_sack_list, picoquic_process_ack_of_ack_range and the    *)
(* horizon keep the ranges disjoint and apart, in every order of arrivals, *)
(* frames and acknowledgements.                                            *)
THEOREM RangesAlwaysSeparated == Spec => []RangesSeparated
<1>1. IndInv => RangesSeparated
  BY DEF IndInv, ListOK
<1> QED BY InitInd, NextInd, <1>1, PTL DEF Spec

(* No ACK frame ever reports a packet that was not processed.              *)
THEOREM AcksAlwaysTruthful == Spec => []AcksTruthful
<1>1. IndInv => AcksTruthful
  BY DEF IndInv
<1> QED BY InitInd, NextInd, <1>1, PTL DEF Spec

(* The figures picoquic_sack_select_ack_ranges relies on are exact.        *)
THEOREM RangeCountsAlwaysExact == Spec => []RangeCountsExact
<1>1. IndInv => RangeCountsExact
  BY DEF IndInv, ListOK
<1> QED BY InitInd, NextInd, <1>1, PTL DEF Spec

(* A processed packet is on the list, confirmed to the peer, or below the  *)
(* horizon.                                                                *)
THEOREM NothingEverForgotten == Spec => []NothingForgotten
<1>1. IndInv => NothingForgotten
  BY DEF IndInv
<1> QED BY InitInd, NextInd, <1>1, PTL DEF Spec
=============================================================================
