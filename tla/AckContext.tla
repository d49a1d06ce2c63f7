----------------------------- MODULE AckContext -----------------------------
(***************************************************************************)
(* One acknowledgement context (picoquic_ack_context_t) of a connection:   *)
(* packets arrive in any order and may be duplicated, ACK frames are built *)
(* from the list of received ranges and may be lost, and the peer may      *)
(* acknowledge them late and out of order.  The variables keep the names   *)
(* of the fields; received, unacked, frames and confirmed are history.     *)
(***************************************************************************)
EXTENDS SackList

CONSTANTS
  MaxPn,        (* bound: highest packet number the peer sends             *)
  MaxTime,      (* bound: last tick of the clock                           *)
  MaxFrames,    (* bound: number of distinct ACK frames that reach the peer *)
  Kinds,        (* kinds of packets the peer sends, a subset of PacketKinds *)
  Rooms,        (* how many ranges may fit in a packet after the top one   *)
  AckDelay,     (* ack_delay_remote: longest time an ACK is held back      *)
  AckGap        (* ack_gap_remote: packets that trigger an immediate ACK   *)

(* A packet without ack-eliciting frame, one with, one that also carries   *)
(* the end of a stream.                                                    *)
PacketKinds == {"ack_only", "eliciting", "fin"}

ASSUME AckAssumption ==
  /\ MaxPn \in Nat /\ MaxTime \in Nat /\ MaxFrames \in Nat
  /\ Rooms \subseteq Nat /\ Kinds \subseteq PacketKinds
  /\ AckDelay \in Nat /\ AckGap \in Nat

VARIABLES
  items,         (* sack_list.ack_tree: set of Item                        *)
  range_counts,  (* sack_list.rc[].range_counts                            *)
  ack_horizon,   (* sack_list.ack_horizon                                  *)
  act,           (* act[0..1]: picoquic_ack_context_track_t                *)
  now,           (* current_time                                           *)
  received,      (* history: packet numbers that were processed            *)
  unacked,       (* history: <<pn, arrival>> of ack-eliciting packets that *)
                 (* no ACK frame of track 0 has reported yet               *)
  frames,        (* history: ACK frames the peer got, each a set of ranges *)
  confirmed      (* history: ranges of the ACK frames the peer acked       *)

vars == <<items, range_counts, ack_horizon, act, now, received, unacked, frames, confirmed>>

Pn == 0..MaxPn

Track == [ack_needed : BOOLEAN, ack_after_fin : BOOLEAN, out_of_order_received : BOOLEAN,
          highest_ack_sent : Nat, time_oldest_unack_packet_received : Nat]

NewTrack == [ack_needed |-> FALSE, ack_after_fin |-> FALSE, out_of_order_received |-> FALSE,
             highest_ack_sent |-> 0, time_oldest_unack_packet_received |-> 0]

Frame == SUBSET [start : Nat, end : Nat]

Init ==
  /\ items = {}
  /\ range_counts = NoCounts
  /\ ack_horizon = 0
  /\ act = [r \in Tracks |-> NewTrack]
  /\ now = 0
  /\ received = {}
  /\ unacked = {}
  /\ frames = {}
  /\ confirmed = {}

-----------------------------------------------------------------------------
(* Arrival of a packet *)

(* Mutants: the age of the oldest packet is refreshed by each packet; the   *)
(* context is armed only when no track is.                                  *)
SetAckNeeded_Refresh(a) ==
  [r \in Tracks |-> [a[r] EXCEPT !.ack_needed = TRUE,
                                 !.time_oldest_unack_packet_received = now]]

SetAckNeeded_AnyTrack(a) ==
  IF \E r \in Tracks : a[r].ack_needed THEN a ELSE SetAckNeeded_Refresh(a)

(* picoquic_set_ack_needed: both tracks are armed, but only when track 0   *)
(* is not.                                                                 *)
SetAckNeeded(a) ==
  IF a[0].ack_needed THEN a
  ELSE [r \in Tracks |-> [a[r] EXCEPT !.ack_needed = TRUE,
                                      !.time_oldest_unack_packet_received = now]]

(* A frame with the end of a stream asks for a prompt ACK (packet.c,       *)
(* frames.c set ack_after_fin on both tracks).                             *)
SetAckAfterFin(a) == [r \in Tracks |-> [a[r] EXCEPT !.ack_after_fin = TRUE]]

(* picoquic_record_pn_received: detection of out of order arrivals.        *)
NoteOrder(a, pn) ==
  LET last == SackListLast(items)
      late(r) == IF pn > last THEN pn > last + 1
                              ELSE a[r].ack_needed /\ pn < a[r].highest_ack_sent
  IN  IF items = {} THEN a
      ELSE [r \in Tracks |-> IF late(r) THEN [a[r] EXCEPT !.out_of_order_received = TRUE] ELSE a[r]]

(* The list after pn was recorded, the drop of old ranges included.        *)
RecordPnReceived(pn) ==
  LET recorded == UpdatedItems(items, pn, pn, now)
      dropped  == BelowHorizon(recorded, now)
  IN  /\ items' = recorded \ dropped
      /\ range_counts' = Recount(UpdatedCounts(items, range_counts, pn, pn, now), dropped, {})
      /\ ack_horizon' = HorizonOf(dropped, ack_horizon)

(* picoquic_incoming_segment for a packet that decrypts: duplicates are    *)
(* dropped, other packets have their frames processed and are recorded.    *)
Receive(pn, kind) ==
  /\ now + AckDelay <= MaxTime    \* bound: the clock outlasts the ACK delay
  /\ ~AlreadyReceived(items, ack_horizon, pn)
  /\ act' = LET a == IF kind = "fin" THEN SetAckAfterFin(act) ELSE act
            IN  NoteOrder(IF kind = "ack_only" THEN a ELSE SetAckNeeded(a), pn)
  /\ RecordPnReceived(pn)
  /\ received' = received \cup {pn}
  /\ unacked' = IF kind = "ack_only" THEN unacked ELSE unacked \cup {<<pn, now>>}
  /\ UNCHANGED <<now, frames, confirmed>>

-----------------------------------------------------------------------------
(* Sending an ACK frame *)

(* picoquic_is_ack_needed_in_ctx, application context.  The low-priority    *)
(* ACK forced from time to time when none is needed is among those that may *)
(* leave at any time.                                                       *)
IsAckNeeded(r) ==
  LET a == act[r] IN
  /\ a.ack_needed
  /\ \/ a.ack_after_fin
     \/ a.out_of_order_received
     \/ a.highest_ack_sent + AckGap <= SackListLast(items)
     \/ a.time_oldest_unack_packet_received + AckDelay <= now

(* picoquic_format_ack_frame_in_context: frames are also added to packets  *)
(* that are sent for another reason, so an ACK may leave at any time.      *)
FormatAck(r, room) ==
  /\ UNCHANGED <<ack_horizon, now, received, confirmed>>
  /\ \E last \in LastItem(items) :
       LET top    == RecordSent(last, r)
           others == items \ {last}
           rc     == Recount(range_counts, {last}, {top})
           picked == SelectedRanges(others, rc, r, top, room)
           sent   == RecordedSent(picked, r)
           frame  == {AckRange(i) : i \in picked \cup {last}}
       IN  /\ items' = (others \ picked) \cup sent \cup {top}
           /\ range_counts' = Recount(rc, picked, sent)
           /\ frames' \in {frames, frames \cup {frame}}    \* lost, or received by the peer
           /\ Cardinality(frames') <= MaxFrames
           /\ unacked' = IF r = 0 THEN {u \in unacked : ~Covered(frame, u[1])}
                                  ELSE unacked
           /\ act' = [act EXCEPT ![r] = [@ EXCEPT !.highest_ack_sent = last.end,
                                                  !.ack_needed = FALSE,
                                                  !.ack_after_fin = FALSE,
                                                  !.out_of_order_received = FALSE]]

(* The question alone changes the context: picoquic_is_ack_needed_in_ctx    *)
(* clears ack_after_fin.  picoquic_select_next_path_mp asks it to choose a  *)
(* path, before the packet is prepared, and a frame may also not fit.       *)
AskAckNeeded(r) ==
  /\ act[r].ack_needed /\ act[r].ack_after_fin
  /\ act' = [act EXCEPT ![r].ack_after_fin = FALSE]
  /\ UNCHANGED <<items, range_counts, ack_horizon, now, received, unacked, frames, confirmed>>

(* picoquic_process_ack_of_ack_frame: the peer acknowledged a packet that  *)
(* carried this frame.  Two packets may carry equal frames, so a frame may *)
(* be acknowledged more than once.                                         *)
ProcessAckOfAck(frame) ==
  /\ frame \in frames
  /\ items' = AckOfAckItems(items, frame)
  /\ range_counts' = AckOfAckCounts(items, range_counts, frame)
  /\ confirmed' = confirmed \cup frame
  /\ UNCHANGED <<ack_horizon, act, now, received, unacked, frames>>

Tick ==
  /\ now < MaxTime
  /\ now' = now + 1
  /\ UNCHANGED <<items, range_counts, ack_horizon, act, received, unacked, frames, confirmed>>

Next ==
  \/ \E pn \in Pn, kind \in Kinds : Receive(pn, kind)
  \/ \E r \in Tracks, room \in Rooms : FormatAck(r, room)
  \/ \E r \in Tracks : AskAckNeeded(r)
  \/ \E frame \in frames : ProcessAckOfAck(frame)
  \/ Tick

Spec == Init /\ [][Next]_vars

(* The packet loop calls picoquic_prepare_packet again and again, and time *)
(* passes: an ACK that is_ack_needed asks for on track 0 is sent.          *)
SendNeededAck == IsAckNeeded(0) /\ \E room \in Rooms : FormatAck(0, room)

FairSpec == Spec /\ WF_vars(Tick) /\ WF_vars(SendNeededAck)

-----------------------------------------------------------------------------
(* Properties *)

(* Every field of the context has its type. *)
TypeOK ==
  /\ items \subseteq Item
  /\ range_counts \in RangeCounts
  /\ ack_horizon \in Nat
  /\ act \in [Tracks -> Track]
  /\ now \in Nat
  /\ received \subseteq Pn
  /\ unacked \subseteq Pn \X Nat
  /\ frames \subseteq Frame
  /\ confirmed \in Frame

(* picoquic_update_sack_list and the trimming by an ACK of an ACK keep the *)
(* ranges well formed, disjoint and separated by at least one number that  *)
(* was not received: two ranges are never left that should be one.         *)
RangesSeparated == Separated(items)

(* An ACK frame never reports a packet that was not processed, whatever    *)
(* happened to the list between arrival and frame.                         *)
AcksTruthful ==
  \A frame \in frames : \A g \in frame : \A pn \in g.start..g.end : pn \in received

(* range_counts[r][k] is the number of ranges sent k times, the figure     *)
(* picoquic_sack_select_ack_ranges trusts to choose what to repeat.        *)
RangeCountsExact == CountsExact(items, range_counts)

(* A processed packet leaves the list only when the peer acknowledged an   *)
(* ACK of it or the horizon passed it.                                     *)
NothingForgotten ==
  \A pn \in received :
    Covered(items, pn) \/ Covered(confirmed, pn) \/ pn < ack_horizon

(* When the ranges fit in the packet, picoquic_sack_select_ack_ranges fills *)
(* the frame (MaxRanges ranges, or all those not exhausted) and never       *)
(* passes over a range for one that was sent more often.                    *)
MostUrgentSelected ==
  [][\A r \in Tracks : FormatAck(r, MaxRanges) =>
       LET others == items \ LastItem(items)
           picked == others \ items'
           usable == {i \in others : i.sent[r] <= Repeat}
       IN  /\ \A i \in picked, j \in others \ picked : i.sent[r] <= j.sent[r]
           /\ Cardinality(picked) = IF Cardinality(usable) < MaxRanges
                                    THEN Cardinality(usable) ELSE MaxRanges]_vars

(* ack_needed and time_oldest_unack_packet_received of track 0 cover every  *)
(* ack-eliciting packet that was neither reported on track 0 nor confirmed: *)
(* its ACK is due AckDelay after it arrived at the latest.  This needs the  *)
(* ranges to fit in the frame (Rooms, MaxRanges).                           *)
AckDeadlineKept ==
  \A u \in unacked :
    \/ /\ act[0].ack_needed
       /\ act[0].time_oldest_unack_packet_received <= u[2]
    \/ Covered(confirmed, u[1])

(* Every ack-eliciting packet is eventually reported in an ACK frame of     *)
(* track 0, or known to the peer from an opportunistic one.                 *)
EventuallyReported ==
  \A pn \in Pn :
    (\E u \in unacked : u[1] = pn)
      ~> (\/ \A u \in unacked : u[1] # pn
          \/ Covered(confirmed, pn))
=============================================================================
