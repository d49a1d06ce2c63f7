-------------------------- MODULE StreamTableProofs --------------------------
(***************************************************************************)
(* The limits of bidirectional streams, proved for every initial limit and *)
(* either side as the opener: the granter never refuses a stream that the  *)
(* opener believes to be granted.  Of unidirectional streams this is not   *)
(* true (HighestSent, LimitSent.cfg).                                      *)
(***************************************************************************)
EXTENDS StreamTable, TLAPS

(* The frames in flight, on their way or in doubt.                         *)
Frames == [type : {"stream", "max"}, rank : Nat]

LimitsTyped ==
  /\ max_local \in Nat /\ limit \in Nat
  /\ net \subseteq Frames /\ unacked \subseteq Frames

(* The limit of the granter is the identifier of a stream of the opener,   *)
(* so the rank that is sent says it exactly.                               *)
LimitIsStream == \E rank \in Nat \ {0} : max_local = Id(rank)

GrantsKept == \A f \in net : Id(f.rank) <= max_local

IInv ==
  /\ LimitsTyped /\ LimitIsStream
  /\ limit <= max_local /\ InitialMax <= max_local
  /\ HighestSent /\ GrantsKept /\ ~error

-----------------------------------------------------------------------------

(* STREAM_ID_FROM_RANK, STREAM_RANK_FROM_ID: a rank is found again in its  *)
(* identifier, on either side.                                             *)
LEMMA RankOfId ==
  ASSUME NEW rank \in Nat
  PROVE  Id(rank) \in Int /\ RankFromId(Id(rank)) = rank /\ (rank # 0 => Id(rank) \in Nat)
<1> DEFINE t == (IF Bidir THEN 0 ELSE 2) + (IF OpenerIsClient THEN 0 ELSE 1)
<1>1. t \in 0..3 /\ Id(rank) = 4 * (rank - 1) + t
  BY StreamTableAssumption DEF Id, IdFromRank
<1>2. RankFromId(Id(rank)) = (4 * rank + t) \div 4
  BY <1>1 DEF RankFromId
<1> QED BY <1>1, <1>2

(* The limit that picoquic_format_max_streams_frame_if_needed computes for *)
(* bidirectional streams is again the identifier of one of them.           *)
LEMMA NewLimit ==
  ASSUME Bidir, NEW rank \in Nat \ {0}, max_local = Id(rank)
  PROVE  /\ NewMax = Id(rank + FirstRank + 1)
         /\ RankFromId(NewMax) = rank + FirstRank + 1
         /\ NewMax > max_local
<1>1. RankFromId(InitialMax) = FirstRank
  BY StreamTableAssumption, RankOfId DEF InitialMax
<1>2. NewMax = Id(rank) + 4 * FirstRank + 4
  BY <1>1 DEF NewMax
<1>3. NewMax = Id(rank + FirstRank + 1) /\ NewMax > max_local
  BY <1>2, StreamTableAssumption DEF Id, IdFromRank
<1> QED BY <1>3, RankOfId, StreamTableAssumption

LEMMA Initially == Init => IInv
<1> SUFFICES ASSUME Init PROVE IInv
  OBVIOUS
<1>1. Id(FirstRank) \in Nat /\ FirstRank \in Nat \ {0}
  BY RankOfId, StreamTableAssumption
<1> QED BY <1>1 DEF Init, IInv, LimitsTyped, LimitIsStream, HighestSent, GrantsKept, InitialMax

(* What leaves the limits and the frames as they are, or removes some.     *)
LEMMA Quiet ==
  ASSUME IInv, UNCHANGED <<limit, max_local, error>>, net' \subseteq net, unacked' \subseteq unacked
  PROVE  IInv'
BY DEF IInv, LimitsTyped, LimitIsStream, HighestSent, GrantsKept, Id

(* The parameters: the limit that was announced first is never withdrawn.  *)
LEMMA LearnStep == ASSUME IInv, LearnLimit PROVE IInv'
<1>1. InitialMax \in Nat
  BY RankOfId, StreamTableAssumption DEF InitialMax
<1> QED BY <1>1 DEF LearnLimit, IInv, LimitsTyped, LimitIsStream, HighestSent, GrantsKept,
             granterVars, Id, InitialMax

(* A stream is sent below the limit that the opener knows.                 *)
LEMMA SendStep == ASSUME IInv, SendStream PROVE IInv'
<1>1. UNCHANGED <<limit, max_local, unacked, error>>
  BY DEF SendStream, granterVars
<1>2. CASE net' = net
  BY <1>1, <1>2, Quiet
<1>3. CASE net' # net
  <2>1. PICK r \in 0..MaxRank : net' = net \cup {[type |-> "stream", rank |-> r]} /\ ~(Id(r) > limit)
    BY <1>3 DEF SendStream
  <2>2. r \in Nat /\ Id(r) \in Int
    BY RankOfId, StreamTableAssumption
  <2>3. Id(r) <= max_local
    BY <2>1, <2>2 DEF IInv, LimitsTyped
  <2> QED BY <1>1, <2>1, <2>2, <2>3 DEF IInv, LimitsTyped, LimitIsStream, HighestSent, GrantsKept, Frames, Id
<1> QED BY <1>2, <1>3

LEMMA ReceiveMaxStep ==
  ASSUME IInv, NEW f \in net, ReceiveMaxStreams(f)
  PROVE  IInv'
<1>1. f \in Frames /\ Id(f.rank) <= max_local /\ Id(f.rank) \in Int
  BY RankOfId DEF IInv, LimitsTyped, GrantsKept, Frames
<1>2. limit' \in Nat /\ limit' <= max_local
  BY <1>1 DEF ReceiveMaxStreams, IInv, LimitsTyped
<1>3. UNCHANGED <<max_local, unacked, error>> /\ net' \subseteq net
  BY DEF ReceiveMaxStreams, granterVars
<1> QED BY <1>2, <1>3 DEF IInv, LimitsTyped, LimitIsStream, HighestSent, GrantsKept, Id

(* picoquic_create_missing_streams: what the opener may send is accepted.  *)
LEMMA ReceiveStreamStep ==
  ASSUME IInv, NEW f \in net, ReceiveStream(f)
  PROVE  IInv'
<1>1. f \in Frames /\ Id(f.rank) <= max_local /\ Id(f.rank) \in Int /\ max_local \in Nat
  BY RankOfId DEF IInv, LimitsTyped, GrantsKept, Frames
<1>2. ~Refused(f)
  BY <1>1 DEF Refused
<1> QED BY <1>2, Quiet DEF ReceiveStream, openerVars

(* A new limit: the rank in the frame is that of the granter's own limit.  *)
LEMMA GrantStep ==
  ASSUME Bidir, IInv, SendMaxStreams
  PROVE  IInv'
<1>1. PICK rank \in Nat \ {0} : max_local = Id(rank)
  BY DEF IInv, LimitIsStream
<1> DEFINE new == rank + FirstRank + 1
           f == [type |-> "max", rank |-> new]
<1>2. /\ new \in Nat \ {0} /\ Id(new) \in Nat
      /\ NewMax = Id(new) /\ RankFromId(NewMax) = new /\ NewMax > max_local
  BY <1>1, NewLimit, RankOfId, StreamTableAssumption
<1>3. /\ net' = net \cup {f} /\ unacked' = unacked \cup {f} /\ max_local' = Id(new)
      /\ UNCHANGED <<limit, error>>
  BY <1>2 DEF SendMaxStreams, openerVars
<1>4. f \in Frames /\ f.rank = new
  BY <1>2 DEF Frames
<1>5. Id(new) > max_local /\ max_local \in Nat /\ InitialMax \in Int /\ limit \in Nat
  BY <1>2, RankOfId, StreamTableAssumption DEF IInv, LimitsTyped, InitialMax
<1>6. \A g \in net \cup unacked : g \in Frames /\ Id(g.rank) \in Int /\ Id(g.rank) <= max_local
  BY RankOfId DEF IInv, LimitsTyped, HighestSent, GrantsKept, Frames
<1> HIDE DEF f, new
<1>7. \A g \in net' \cup unacked' : g \in Frames /\ Id(g.rank) <= max_local'
  BY <1>2, <1>3, <1>4, <1>5, <1>6
<1>8. LimitsTyped' /\ LimitIsStream' /\ HighestSent' /\ GrantsKept'
  BY <1>2, <1>3, <1>5, <1>7 DEF LimitsTyped, LimitIsStream, HighestSent, GrantsKept, Id
<1> QED BY <1>3, <1>5, <1>8, <1>2 DEF IInv, InitialMax, Id

LEMMA RepeatStep ==
  ASSUME IInv, NEW f \in unacked, RepeatGrant(f)
  PROVE  IInv'
BY DEF RepeatGrant, openerVars, IInv, LimitsTyped, LimitIsStream, HighestSent, GrantsKept, Id

(* One step, of either end or of the network.                              *)
LEMMA Inductive == Bidir /\ IInv /\ [Next]_vars => IInv'
<1> SUFFICES ASSUME Bidir, IInv, [Next]_vars PROVE IInv'
  OBVIOUS
<1>1. ASSUME NEW r \in Ranks, Write(r) \/ MarkPriority(r) \/ StopSending(r) \/ Answer(r)
      PROVE  IInv'
  BY <1>1, Quiet DEF Write, MarkPriority, StopSending, Answer, openerVars, granterVars
<1>2. ASSUME NEW f \in net, ReceiveMaxStreams(f) \/ ReceiveStream(f)
      PROVE  IInv'
  BY <1>2, ReceiveMaxStep, ReceiveStreamStep
<1>3. ASSUME NEW f \in unacked, RepeatGrant(f)
      PROVE  IInv'
  BY <1>3, RepeatStep
<1>4. ASSUME NEW f \in acks, AckMaxStreams(f)
      PROVE  IInv'
  BY <1>4, Quiet DEF AckMaxStreams, openerVars
<1>5. CASE Lose
  BY <1>5, Quiet DEF Lose, openerVars, granterVars
<1>6. CASE UNCHANGED vars
  BY <1>6, Quiet DEF vars, openerVars, granterVars
<1> QED BY <1>1, <1>2, <1>3, <1>4, <1>5, <1>6, LearnStep, SendStep, GrantStep DEF Next

(* picoquic_create_missing_streams never answers a bidirectional stream of *)
(* picoquic with STREAM_LIMIT_ERROR, whatever is lost, overtaken or        *)
(* repeated.                                                               *)
THEOREM NeverRefused == Bidir => (Spec => []NoStreamError)
<1> SUFFICES ASSUME Bidir PROVE Spec => []NoStreamError
  OBVIOUS
<1>1. IInv => NoStreamError
  BY DEF IInv, NoStreamError
<1>2. IInv /\ [Next]_vars => IInv'
  BY Inductive
<1> QED BY Initially, <1>1, <1>2, PTL DEF Spec

(* picoquic_format_max_streams_frame_if_needed: max_stream_id_bidir_local  *)
(* is the highest value sent to the peer.                                  *)
THEOREM LimitAlwaysHighestSent == Bidir => (Spec => []HighestSent)
<1> SUFFICES ASSUME Bidir PROVE Spec => []HighestSent
  OBVIOUS
<1>1. IInv => HighestSent
  BY DEF IInv
<1>2. IInv /\ [Next]_vars => IInv'
  BY Inductive
<1> QED BY Initially, <1>1, <1>2, PTL DEF Spec
=============================================================================
