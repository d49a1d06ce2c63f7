----------------------------- MODULE StreamTable -----------------------------
(***************************************************************************)
(* The opening of streams of one type: the opener creates them in any      *)
(* order, keeps the ones it may send on in a doubly linked output list and *)
(* learns the limit of the peer, first from its transport parameters, then *)
(* from MAX_STREAMS frames; the granter checks the limit, counts the       *)
(* streams that are done and raises it.                                    *)
(*                                                                         *)
(* A stream is its rank; limits are stream identifiers, as in the code.    *)
(* Abstracted: data and its credit (StreamTransfer): a stream is one frame *)
(* with its end, which arrives once, in any order.  MAX_STREAMS frames are *)
(* lost, reordered and repeated.                                           *)
(***************************************************************************)
EXTENDS Integers, FiniteSets, SequencesExt

CONSTANTS
  OpenerIsClient,
  Bidir,        (* whether the streams are bidirectional                   *)
  FirstRank,    (* initial_max_stream_id of the granter, as a rank         *)
  MaxRank,      (* bound: streams opened                                   *)
  Preferred,    (* bound: streams that get priority                        *)
  Stopped,      (* bound: streams that are stopped                         *)
  Careful       (* the application gives priority only to streams in the   *)
                (* list, and stops only other streams below the limit      *)

ASSUME StreamTableAssumption ==
  /\ OpenerIsClient \in BOOLEAN /\ Bidir \in BOOLEAN
  /\ FirstRank \in Nat \ {0} /\ MaxRank \in Nat

VARIABLES
  limit,        (* opener: max_stream_id_bidir_remote or _unidir_remote    *)
  knows,        (* opener: the transport parameters have arrived           *)
  created,      (* opener: highest rank created; next_stream_id            *)
  queued,       (* opener: streams with data to send                       *)
  fin_sent,     (* opener: streams whose end was sent                      *)
  stopping,     (* opener: streams with stop_sending_requested             *)
  stop_sent,    (* opener: streams whose STOP_SENDING was sent             *)
  list,         (* opener: first, last and is_output_stream, with the      *)
                (* links of each stream; 0 is NULL                         *)
  priority,     (* opener: high_priority_stream_id, 0 when there is none   *)
  spinning,     (* opener: the loop over ready streams makes no progress   *)
  max_local,    (* granter: max_stream_id_bidir_local or _unidir_local     *)
  computed,     (* granter: max_stream_id_*_local_computed                 *)
  rank_acked,   (* granter: max_stream_id_*_rank_acked                     *)
  opened,       (* granter: streams that exist or have existed             *)
  received,     (* granter: streams whose end has arrived                  *)
  answered,     (* granter: streams that it has finished on its side       *)
  unacked,      (* granter: MAX_STREAMS sent and not acknowledged          *)
  net,          (* frames in flight                                        *)
  acks,         (* MAX_STREAMS whose ACK is in flight                      *)
  error         (* STREAM_LIMIT_ERROR                                      *)

openerVars == <<limit, knows, created, queued, fin_sent, stopping, stop_sent, list, priority, spinning>>
granterVars == <<max_local, computed, rank_acked, opened, received, answered, unacked>>
vars == <<openerVars, granterVars, net, acks, error>>

Ranks == 1..MaxRank

(* STREAM_ID_FROM_RANK for the side with client_mode = client, and         *)
(* STREAM_RANK_FROM_ID.                                                    *)
IdFromRank(rank, client) == 4 * (rank - 1) + (IF Bidir THEN 0 ELSE 2) + (IF client THEN 0 ELSE 1)
RankFromId(id) == (id + 4) \div 4

Id(rank) == IdFromRank(rank, OpenerIsClient)
InitialMax == Id(FirstRank)

NoLinks == [first |-> 0, last |-> 0, output |-> {}, next |-> [r \in Ranks |-> 0], prev |-> [r \in Ranks |-> 0]]

Init ==
  /\ limit = 0 /\ knows = FALSE /\ created = 0
  /\ queued = {} /\ fin_sent = {} /\ stopping = {} /\ stop_sent = {}
  /\ list = NoLinks /\ priority = 0 /\ spinning = FALSE
  /\ max_local = InitialMax /\ computed = InitialMax % 4 /\ rank_acked = 0
  /\ opened = {} /\ received = {} /\ answered = {} /\ unacked = {}
  /\ net = {} /\ acks = {} /\ error = FALSE

Up == ~error /\ ~spinning

-----------------------------------------------------------------------------
(* The output list *)

(* The value of Op at x, which TLC computes once. *)
Once(Op(_), x) == CHOOSE y \in {Op(z) : z \in {x}} : TRUE

(* Mutant: the new stream is not linked back to the last one. *)
Appended_OneWay(l, r) ==
  IF l.last = 0 THEN [l EXCEPT !.first = r, !.last = r, !.next[r] = 0, !.prev[r] = 0]
  ELSE [l EXCEPT !.next[l.last] = r, !.last = r, !.next[r] = 0, !.prev[r] = 0]

Appended(l, r) ==
  IF l.last = 0 THEN [l EXCEPT !.first = r, !.last = r, !.next[r] = 0, !.prev[r] = 0]
  ELSE [l EXCEPT !.next[l.last] = r, !.last = r, !.next[r] = 0, !.prev[r] = l.last]

(* In front of the others; last_output_stream stays.                       *)
Prepended(l, r) ==
  LET new == [l EXCEPT !.first = r, !.next[r] = l.first, !.prev[r] = 0]
  IN  IF l.first = 0 THEN new ELSE [new EXCEPT !.prev[l.first] = r]

(* picoquic_insert_output_stream *)
Inserted(l, r) ==
  IF r \in l.output THEN l
  ELSE [(IF r = priority THEN Prepended(l, r) ELSE Appended(l, r)) EXCEPT !.output = @ \cup {r}]

(* picoquic_remove_output_stream *)
Removed(l, r) ==
  LET p == l.prev[r]
      n == l.next[r]
      forward == IF p = 0 THEN [l EXCEPT !.first = n] ELSE [l EXCEPT !.next[p] = n]
      both    == IF n = 0 THEN [forward EXCEPT !.last = p] ELSE [forward EXCEPT !.prev[n] = p]
  IN  IF r \in l.output THEN [both EXCEPT !.output = @ \ {r}] ELSE l

InsertedAll(l, ranks) ==
  LET after[r \in 0..MaxRank] ==
        IF r = 0 THEN l ELSE IF r \in ranks THEN Once(LAMBDA links : Inserted(links, r), after[r - 1])
        ELSE after[r - 1]
  IN  after[MaxRank]

(* picoquic_add_output_streams: from the stream that follows the old limit *)
(* on, if it exists.  The limit 0 is that of rank 1.                       *)
AddOutputStreams(l, new) ==
  LET from == RankFromId(limit) + 1
  IN  IF from > created THEN l
      ELSE InsertedAll(l, {r \in from..created : limit < Id(r) /\ Id(r) <= new})

-----------------------------------------------------------------------------
(* The opener *)

(* Mutant: the limit is not looked at. *)
OutputWhenCreated_Any(r) == TRUE

OutputWhenCreated(r) == Id(r) <= limit

(* picoquic_create_missing_streams, picoquic_create_stream                 *)
CreatedUpTo(r) == InsertedAll(list, {q \in (created + 1)..r : OutputWhenCreated(q)})

(* picoquic_add_to_stream: data and its end.                               *)
Write(r) ==
  /\ Up /\ r \notin queued \cup fin_sent
  /\ IF r > created THEN created' = r /\ list' = CreatedUpTo(r) ELSE UNCHANGED <<created, list>>
  /\ queued' = queued \cup {r}
  /\ UNCHANGED <<limit, knows, fin_sent, stopping, stop_sent, priority, spinning, granterVars, net, acks, error>>

(* picoquic_mark_high_priority_stream *)
MarkPriority(r) ==
  /\ Up /\ r \in Preferred /\ r # priority
  /\ Careful => r \in list.output
  /\ priority' = r
  /\ UNCHANGED <<limit, knows, created, queued, fin_sent, stopping, stop_sent, list, spinning, granterVars, net, acks, error>>

(* picoquic_stop_sending of a stream that carries data in both directions. *)
StopSending(r) ==
  /\ Up /\ Bidir /\ r \in Stopped /\ r <= created /\ r \notin stopping /\ r \notin answered
  /\ Careful => Id(r) <= limit /\ r # priority
  /\ stopping' = stopping \cup {r}
  /\ list' = Inserted(list, r)
  /\ UNCHANGED <<limit, knows, created, queued, fin_sent, stop_sent, priority, spinning, granterVars, net, acks, error>>

(* The transport parameters of the granter.                                *)
LearnLimit ==
  /\ Up /\ ~knows
  /\ knows' = TRUE
  /\ list' = AddOutputStreams(list, InitialMax)
  /\ limit' = InitialMax
  /\ UNCHANGED <<created, queued, fin_sent, stopping, stop_sent, priority, spinning, granterVars, net, acks, error>>

IsReady(r) == r \in queued \/ r \in stopping \ stop_sent
IsExhausted(r) == r \in fin_sent

(* picoquic_find_ready_stream: the first stream that has something to send *)
(* and the list without the exhausted ones before it.                      *)
FindReady ==
  LET step(s) ==
        IF s.at = 0 \/ s.found THEN s
        ELSE IF IsReady(s.at) THEN [s EXCEPT !.found = TRUE]
        ELSE [s EXCEPT !.at = s.links.next[s.at],
                       !.links = IF IsExhausted(s.at) THEN Removed(@, s.at) ELSE @]
      after[n \in 0..(MaxRank + 1)] ==
        IF n = 0 THEN [links |-> list, at |-> list.first, found |-> FALSE] ELSE Once(step, after[n - 1])
  IN  after[MaxRank + 1]

(* picoquic_format_available_stream_frames, one turn of its loop: a ready  *)
(* stream that may not send yet is found again and again.                  *)
SendStream ==
  /\ Up /\ knows /\ list.first # 0
  /\ \E s \in {FindReady}, r \in 0..MaxRank :
         /\ r = s.at
         /\ list' = s.links
         /\ IF ~s.found THEN s.links # list /\ UNCHANGED <<queued, fin_sent, stop_sent, spinning, net>>
            ELSE IF Id(r) > limit THEN spinning' = TRUE /\ UNCHANGED <<queued, fin_sent, stop_sent, net>>
            ELSE IF r \in stopping \ stop_sent
            THEN stop_sent' = stop_sent \cup {r} /\ UNCHANGED <<queued, fin_sent, spinning, net>>
            ELSE /\ queued' = queued \ {r} /\ fin_sent' = fin_sent \cup {r}
                 /\ net' = net \cup {[type |-> "stream", rank |-> r]}
                 /\ UNCHANGED <<stop_sent, spinning>>
  /\ UNCHANGED <<limit, knows, created, stopping, priority, granterVars, acks, error>>

(* picoquic_decode_max_streams_frame; 1-RTT packets cannot be read before  *)
(* the parameters are known.                                               *)
ReceiveMaxStreams(f) ==
  /\ Up /\ knows /\ f \in net /\ f.type = "max"
  /\ net' = net \ {f} /\ acks' = acks \cup {f}
  /\ IF Id(f.rank) > limit
     THEN list' = AddOutputStreams(list, Id(f.rank)) /\ limit' = Id(f.rank)
     ELSE UNCHANGED <<list, limit>>
  /\ UNCHANGED <<knows, created, queued, fin_sent, stopping, stop_sent, priority, spinning, granterVars, error>>

-----------------------------------------------------------------------------
(* The granter *)

(* Mutant: the stream at the limit is above it. *)
Refused_AtLimit(f) == f.rank \notin opened /\ Id(f.rank) >= max_local

(* picoquic_create_missing_streams for a stream of the peer *)
Refused(f) == f.rank \notin opened /\ Id(f.rank) > max_local

(* picoquic_decode_stream_frame: the missing streams below are created.    *)
ReceiveStream(f) ==
  /\ Up /\ f \in net /\ f.type = "stream"
  /\ net' = net \ {f}
  /\ IF Refused(f)
     THEN error' = TRUE /\ UNCHANGED <<opened, received, computed>>
     ELSE /\ opened' = opened \cup 1..f.rank
          /\ received' = received \cup {f.rank}
          /\ computed' = IF Bidir THEN computed ELSE computed + 4
          /\ UNCHANGED error
  /\ UNCHANGED <<openerVars, max_local, rank_acked, answered, unacked, acks>>

(* The application finishes its side of a bidirectional stream; with both  *)
(* ends, picoquic_update_max_stream_ID_local counts the stream.            *)
Answer(r) ==
  /\ Up /\ Bidir /\ r \in received \ answered
  /\ answered' = answered \cup {r}
  /\ computed' = computed + 4
  /\ UNCHANGED <<openerVars, max_local, rank_acked, opened, received, unacked, net, acks, error>>

NewMax == IF Bidir THEN max_local + 4 * RankFromId(InitialMax) + 4 ELSE max_local + InitialMax + 4

(* picoquic_format_max_streams_frame_if_needed *)
SendMaxStreams ==
  /\ Up /\ computed + InitialMax \div 2 > max_local
  /\ max_local <= Id(MaxRank)                                            \* bound
  /\ LET f == [type |-> "max", rank |-> RankFromId(NewMax)]
     IN  net' = net \cup {f} /\ unacked' = unacked \cup {f}
  /\ max_local' = NewMax
  /\ UNCHANGED <<openerVars, computed, rank_acked, opened, received, answered, acks, error>>

(* Mutant: a frame that was sent once is enough. *)
NeedsRepeat_Never(f) == FALSE

(* picoquic_check_max_streams_frame_needs_repeat compares the limit with   *)
(* the identifier that a stream of the granter itself would have.          *)
NeedsRepeat(f) == f.rank > rank_acked /\ max_local <= IdFromRank(f.rank, ~OpenerIsClient)

(* The loss of a frame is noticed: it is sent again, or given up.          *)
RepeatGrant(f) ==
  /\ Up /\ f \in unacked \ net
  /\ IF NeedsRepeat(f) THEN net' = net \cup {f} /\ UNCHANGED unacked
     ELSE unacked' = unacked \ {f} /\ UNCHANGED net
  /\ UNCHANGED <<openerVars, max_local, computed, rank_acked, opened, received, answered, acks, error>>

(* picoquic_process_ack_of_max_streams_frame *)
AckMaxStreams(f) ==
  /\ Up /\ f \in acks
  /\ acks' = acks \ {f} /\ unacked' = unacked \ {f}
  /\ rank_acked' = IF f.rank > rank_acked THEN f.rank ELSE rank_acked
  /\ UNCHANGED <<openerVars, max_local, computed, opened, received, answered, net, error>>

Lose ==
  /\ Up
  /\ \/ \E f \in net : f.type = "max" /\ net' = net \ {f} /\ UNCHANGED acks
     \/ \E f \in acks : acks' = acks \ {f} /\ UNCHANGED net
  /\ UNCHANGED <<openerVars, granterVars, error>>

Next ==
  \/ \E r \in Ranks : Write(r) \/ MarkPriority(r) \/ StopSending(r) \/ Answer(r)
  \/ LearnLimit \/ SendStream
  \/ \E f \in net : ReceiveMaxStreams(f) \/ ReceiveStream(f)
  \/ SendMaxStreams
  \/ \E f \in unacked : RepeatGrant(f)
  \/ \E f \in acks : AckMaxStreams(f)
  \/ Lose

Spec == Init /\ [][Next]_vars

(* The applications finish what they open; the packet loop sends what is   *)
(* there; a frame that is repeated for ever arrives.                       *)
(* The steps of a stream that follow from each other: both ends of it.     *)
Finish(r) == (r <= created /\ Write(r)) \/ Answer(r) \/ ReceiveStream([type |-> "stream", rank |-> r])

RepeatAny == \E f \in unacked : RepeatGrant(f)
ReceiveGrant == ReceiveMaxStreams([type |-> "max", rank |-> 2 * FirstRank + 1])

Fairness ==
  /\ WF_vars(LearnLimit) /\ WF_vars(SendStream) /\ WF_vars(SendMaxStreams)
  /\ \A r \in Ranks : WF_vars(Finish(r))
  /\ WF_vars(RepeatAny) /\ SF_vars(ReceiveGrant)

FairSpec == Spec /\ Fairness

-----------------------------------------------------------------------------
(* Properties *)

(* An opener that keeps to the frames it received is never refused a       *)
(* stream: the limit that the granter checks is the one that the opener    *)
(* computes from the rank in the frame.                                    *)
NoStreamError == ~error

(* The list that is walked from first_output_stream, forwards and          *)
(* backwards, holds the streams marked as being in it: none is lost in the *)
(* insertions in front and at the end and the removals in the middle.      *)
Walk(start, links) ==
  LET at[n \in 0..MaxRank] == IF n = 0 THEN start ELSE IF at[n - 1] = 0 THEN 0 ELSE links[at[n - 1]]
  IN  {at[n] : n \in 0..MaxRank} \ {0}

OutputListExact ==
  Walk(list.first, list.next) = list.output /\ Walk(list.last, list.prev) = list.output

(* The loop that fills a packet never meets a ready stream above the limit *)
(* of the peer, which it would format for ever without a byte.             *)
PacketLoopAdvances == ~spinning

(* The list of streams that may be sent is exact and within the limit.     *)
OutputListSound == OutputListExact /\ PacketLoopAdvances

(* max_stream_id_bidir_local and max_stream_id_unidir_local are the        *)
(* "Highest value sent to the peer" (picoquic_internal.h).                 *)
HighestSent == \A f \in unacked : Id(f.rank) <= max_local

(* All that is written is sent in the end, whatever its stream: the        *)
(* granter raises its limit as streams are done, and a lost MAX_STREAMS is *)
(* made good.                                                              *)
StreamsOpen == \A r \in Ranks : (r \in queued) ~> (r \in received \/ ~Up)
=============================================================================
