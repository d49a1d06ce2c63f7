------------------------------ MODULE SackList ------------------------------
(***************************************************************************)
(* The selective-acknowledgement list of picoquic (picoquic/sacks.c): the  *)
(* operators on a list of ranges, without state of their own.  The list is *)
(* kept in the code as a splay tree ordered by the start of the range;     *)
(* here it is a set of items, and "previous", "next" and "last" are read   *)
(* off the order of the starts.  AckContext uses it for received packets.  *)
(***************************************************************************)
EXTENDS Integers, FiniteSets

CONSTANTS
  Repeat,        (* PICOQUIC_MAX_ACK_RANGE_REPEAT (4 in the code)          *)
  MaxRanges,     (* ranges of an ACK frame beyond the top one (32)         *)
  HorizonDelay   (* horizon_delay of the list; 0 = no horizon              *)

ASSUME SackAssumption ==
  /\ Repeat \in Nat \ {0}
  /\ MaxRanges \in Nat
  /\ HorizonDelay \in Nat

(* Index of the nb_times_sent / range_counts arrays: 0 for ACKs on the     *)
(* nominal path, 1 for opportunistic ones.                                 *)
Tracks == {0, 1}

(* nb_times_sent is only compared with values up to Repeat, so every count *)
(* above Repeat + 1 behaves alike: SentCap bounds the counter.             *)
SentCap == Repeat + 1

Item == [start : Nat, end : Nat, created : Nat, sent : [Tracks -> 0..SentCap]]

RangeCounts == [Tracks -> [0..(Repeat - 1) -> Int]]

NotSent == [r \in Tracks |-> 0]

NoCounts == [r \in Tracks |-> [k \in 0..(Repeat - 1) |-> 0]]

Covers(i, pn) == i.start <= pn /\ pn <= i.end

Covered(items, pn) == \E i \in items : Covers(i, pn)

(* What the functions below rely on and keep: ranges are well formed,       *)
(* disjoint, and separated by at least one number.                          *)
Separated(items) ==
  /\ \A i \in items : i.start <= i.end
  /\ \A i, j \in items : i.start < j.start => i.end + 1 < j.start
  /\ \A i, j \in items : i.start = j.start => i = j

CountsExact(items, rc) ==
  \A r \in Tracks : \A k \in 0..(Repeat - 1) :
    rc[r][k] = Cardinality({i \in items : i.sent[r] = k})

(* The item with the largest start not above pn: a set of at most one.     *)
RangeBelow(items, pn) ==
  {i \in items : i.start <= pn /\ \A j \in items : j.start <= pn => j.start <= i.start}

LastItem(items) == {i \in items : \A j \in items : j.start <= i.start}

(* Accounting of range_counts when the items of removed leave the list, or *)
(* lose their count, and those of added enter it.                          *)
Recount(rc, removed, added) ==
  [r \in Tracks |-> [k \in 0..(Repeat - 1) |->
     rc[r][k] - Cardinality({i \in removed : i.sent[r] = k})
              + Cardinality({i \in added : i.sent[r] = k})]]

-----------------------------------------------------------------------------
(* picoquic_update_sack_list: the range lo..hi is recorded at time t.      *)

(* Mutant: a gap of one number is closed over.                             *)
RangeJoined_OverGap(items, lo) == {p \in RangeBelow(items, lo) : p.end + 2 >= lo}

(* The range below that overlaps lo..hi or touches it.                     *)
RangeJoined(items, lo) == {p \in RangeBelow(items, lo) : p.end + 1 >= lo}

(* Mutant: a range that only touches hi is not absorbed.                   *)
Absorbed_NotAdjacent(items, lo, hi) == {i \in items : lo < i.start /\ i.start <= hi}

(* The ranges above lo that lo..hi reaches; the loop absorbs all of them.  *)
Absorbed(items, lo, hi) == {i \in items : lo < i.start /\ i.start - 1 <= hi}

Merged(items, lo, hi) == RangeJoined(items, lo) \cup Absorbed(items, lo, hi)

(* Ranges are separated, so only the last absorbed one can end beyond hi.  *)
Beyond(items, lo, hi) == {i \in Absorbed(items, lo, hi) : i.end > hi}

IsDuplicate(items, lo, hi) == \E p \in RangeJoined(items, lo) : hi <= p.end

MergedStart(items, lo) ==
  IF RangeJoined(items, lo) = {} THEN lo ELSE (CHOOSE p \in RangeJoined(items, lo) : TRUE).start

MergedEnd(items, lo, hi) ==
  IF Beyond(items, lo, hi) = {} THEN hi
                                ELSE (CHOOSE i \in Beyond(items, lo, hi) : TRUE).end

(* A range extended below or above is as young as the packet; one that     *)
(* only closes a gap is as young as the youngest of the two parts.         *)
MergedCreated(items, lo, hi, t) ==
  IF RangeJoined(items, lo) = {} \/ Beyond(items, lo, hi) = {} THEN t
  ELSE CHOOSE c \in {i.created : i \in Merged(items, lo, hi)} :
         \A i \in Merged(items, lo, hi) : i.created <= c

MergedItem(items, lo, hi, t) ==
  [start   |-> MergedStart(items, lo),
   end     |-> MergedEnd(items, lo, hi),
   created |-> MergedCreated(items, lo, hi, t),
   sent    |-> NotSent]

UpdatedItems(items, lo, hi, t) ==
  IF IsDuplicate(items, lo, hi) THEN items
  ELSE (items \ Merged(items, lo, hi)) \cup {MergedItem(items, lo, hi, t)}

UpdatedCounts(items, rc, lo, hi, t) ==
  IF IsDuplicate(items, lo, hi) THEN rc
  ELSE Recount(rc, Merged(items, lo, hi), {MergedItem(items, lo, hi, t)})

-----------------------------------------------------------------------------
(* picoquic_update_ack_horizon: the lowest ranges are dropped as long as   *)
(* they were sent often enough and are old; the last range stays.          *)

Expired(i, t) == i.sent[0] >= Repeat /\ t - i.created > HorizonDelay

BelowHorizon(items, t) ==
  IF HorizonDelay = 0 THEN {}
  ELSE {i \in items \ LastItem(items) :
          \A j \in items : j.start <= i.start => Expired(j, t)}

(* Mutant: the horizon is put below the dropped range.                     *)
HorizonOf_BelowRange(dropped, horizon) ==
  IF dropped = {} THEN horizon
  ELSE (CHOOSE i \in dropped : \A j \in dropped : j.start <= i.start).start - 1

HorizonOf(dropped, horizon) ==
  IF dropped = {} THEN horizon
  ELSE (CHOOSE i \in dropped : \A j \in dropped : j.start <= i.start).end + 1

(* picoquic_is_pn_already_received *)
AlreadyReceived(items, horizon, pn) ==
  IF HorizonDelay > 0 /\ pn < horizon THEN TRUE
  ELSE \E i \in RangeBelow(items, pn) : pn <= i.end

(* picoquic_sack_list_last: the highest number of the list, 0 if empty.    *)
SackListLast(items) ==
  IF items = {} THEN 0 ELSE (CHOOSE i \in LastItem(items) : TRUE).end

-----------------------------------------------------------------------------
(* picoquic_process_ack_of_ack_range for the ranges of one ACK frame that  *)
(* the peer acknowledged.  A range is found by its start; the last item is *)
(* trimmed, another one must match exactly and is then forgotten, or, with *)
(* a horizon, marked as needing no further repeat.                         *)

(* Mutants: the whole top range is forgotten, also what was received after *)
(* the acknowledged frame was sent; a range is matched by its start alone. *)
Trimmed_Whole(i, g) == [i EXCEPT !.start = i.end]

Trimmed(i, g) == [i EXCEPT !.start = IF g.end < i.end THEN g.end + 1 ELSE i.end]

Confirmed_StartOnly(items, frame) ==
  {i \in items \ LastItem(items) : \E g \in frame : g.start = i.start}

Confirmed(items, frame) ==
  {i \in items \ LastItem(items) : \E g \in frame : g.start = i.start /\ g.end = i.end}

Retired(i) == [i EXCEPT !.sent = [r \in Tracks |-> IF @[r] < Repeat THEN Repeat ELSE @[r]]]

(* The top item with the range of the frame that trims it, if there is one. *)
Trims(items, frame) ==
  {tg \in LastItem(items) \X frame : tg[2].start = tg[1].start}

AckOfAckItems(items, frame) ==
  LET trims == Trims(items, frame)
      gone  == Confirmed(items, frame) \cup {tg[1] : tg \in trims}
  IN  (items \ gone)
        \cup {Trimmed(tg[1], tg[2]) : tg \in trims}
        \cup (IF HorizonDelay > 0 THEN {Retired(i) : i \in Confirmed(items, frame)} ELSE {})

(* Mutant: ranges are forgotten without accounting.                        *)
AckOfAckCounts_None(items, rc, frame) == rc

AckOfAckCounts(items, rc, frame) == Recount(rc, Confirmed(items, frame), {})

-----------------------------------------------------------------------------
(* The choice of the ranges of an ACK frame (picoquic_format_ack_frame_in_ *)
(* context and picoquic_sack_select_ack_ranges).                           *)

RecordSent(i, r) == [i EXCEPT !.sent[r] = IF @ < SentCap THEN @ + 1 ELSE @]

RecordedSent(S, r) == {RecordSent(i, r) : i \in S}

(* Mutant: the top range is counted among the others.                      *)
Cumul_TopIncluded(rc, r, top, k) ==
  LET sum[j \in 0..(Repeat - 1)] == rc[r][j] + IF j = 0 THEN 0 ELSE sum[j - 1]
  IN  sum[k]

(* Ranges sent at most k times, the top range (already counted as sent     *)
(* once more) left out.                                                    *)
Cumul(rc, r, top, k) ==
  LET sum[j \in 0..(Repeat - 1)] == rc[r][j] + IF j = 0 THEN 0 ELSE sum[j - 1]
  IN  sum[k] - IF top.sent[r] <= k THEN 1 ELSE 0

Overfull(rc, r, top) == {k \in 0..(Repeat - 1) : Cumul(rc, r, top, k) >= MaxRanges}

NbSentMax(rc, r, top) ==
  LET over == Overfull(rc, r, top)
  IN  IF over = {} THEN Repeat ELSE CHOOSE k \in over : \A m \in over : k <= m

NbSentMaxSkip(rc, r, top) ==
  IF Overfull(rc, r, top) = {} THEN 0
  ELSE Cumul(rc, r, top, NbSentMax(rc, r, top)) - MaxRanges

(* The items of set that come before i when the list is walked down.       *)
Before(set, i) == {j \in set : j.start > i.start}

Eligible(others, r, sentMax, skip) ==
  {i \in others :
     \/ i.sent[r] < sentMax
     \/ /\ i.sent[r] = sentMax
        /\ Cardinality(Before({j \in others : j.sent[r] = sentMax}, i)) >= skip}

(* rc is the accounting after the top range was recorded as sent; room is  *)
(* the number of further ranges that fit in the packet.                    *)
SelectedRanges(others, rc, r, top, room) ==
  LET fit == Eligible(others, r, NbSentMax(rc, r, top), NbSentMaxSkip(rc, r, top))
  IN  {i \in fit : Cardinality(Before(fit, i)) < (IF room < MaxRanges THEN room ELSE MaxRanges)}

AckRange(i) == [start |-> i.start, end |-> i.end]
=============================================================================
