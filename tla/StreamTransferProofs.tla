------------------------ MODULE StreamTransferProofs ------------------------
(***************************************************************************)
(* Proofs about StreamTransfer for any number of streams, any sizes and    *)
(* limits, and any number of losses, repetitions, resets and early ends:   *)
(* the receiver never finds an error of flow control or of final offsets,  *)
(* data is kept until the receiver has it, and what the applications see   *)
(* is StreamPipe.                                                          *)
(*                                                                         *)
(* The inductive invariant IInv follows credit on its way: a limit that    *)
(* the receiver has granted is never above what it checks, in a packet on  *)
(* the network, in the retransmit queue (FramesOK) or at the sender        *)
(* (ReceiverOK, ConnectionOK), and what was sent is within it.  For the    *)
(* connection the bytes of all streams are counted as the cells below the  *)
(* offsets of the streams (Counted): those the receiver has heard of are   *)
(* cells the sender has counted.  Final offsets agree since a sender whose *)
(* end is settled (Ended, or reset) stays there (Follows).                 *)
(*                                                                         *)
(* DInv strengthens it for the data: the bytes in every frame and node are *)
(* those of their offsets, the receiver has given away all that it         *)
(* consumed, and each position that the sender has seen acknowledged, or   *)
(* will see by a packet that arrived, is one the receiver has reached.     *)
(***************************************************************************)
EXTENDS StreamTransfer, FiniteSetTheorems, SequenceTheorems, WellFoundedInduction, TLAPS

SndStream ==
  [exists : BOOLEAN, written : Nat, is_active : BOOLEAN, sent_offset : Nat,
   fin_requested : BOOLEAN, fin_sent : BOOLEAN,
   reset_requested : BOOLEAN, reset_sent : BOOLEAN, stop_sending_received : BOOLEAN,
   maxdata_remote : Nat, sack_list : SUBSET Nat,
   is_output_stream : BOOLEAN, is_closed : BOOLEAN]

Node == [offset : Nat, data : Seq(Nat)]

RcvStream ==
  [exists : BOOLEAN, consumed_offset : Nat, fin_offset : Nat, stream_data_tree : SUBSET Node,
   fin_received : BOOLEAN, fin_signalled : BOOLEAN, reset_received : BOOLEAN,
   stop_sending_requested : BOOLEAN, stop_sending_sent : BOOLEAN,
   maxdata_local : Nat, maxdata_local_acked : Nat, delivered : Seq(Nat)]

StreamFrames == [type : {"stream"}, id : Streams, offset : Nat, data : Seq(Nat), fin : BOOLEAN]

Frames ==
  StreamFrames
  \cup [type : {"reset"}, id : Streams, final : Nat]
  \cup [type : {"max_data"}, max : Nat]
  \cup [type : {"max_stream_data"}, id : Streams, max : Nat]
  \cup [type : {"stop_sending"}, id : Streams]

Packets ==
  [frame : Frames, net : {"flying", "arrived", "dropped"},
   snd : {"waiting", "declared", "forgotten"}, was_preemptively_repeated : BOOLEAN]

TypeOK ==
  /\ snd \in [Streams -> SndStream]
  /\ rcv \in [Streams -> RcvStream]
  /\ snd_cnx \in [maxdata_remote : Nat, data_sent : Nat]
  /\ rcv_cnx \in [maxdata_local : Nat, maxdata_local_acked : Nat, data_received : Nat,
                  max_stream_data_needed : BOOLEAN]
  /\ stream_frame_retransmit_queue \in Seq(StreamFrames)
  /\ InTransit \subseteq Packets
  /\ error \in BOOLEAN
  /\ events \in Nat

(* The sender has sent all it will: its end stays where it is.             *)
Ended(st) == st.fin_requested /\ st.fin_sent /\ st.written = st.sent_offset

SenderOK(st) ==
  /\ st.sent_offset <= st.written
  /\ st.sent_offset <= st.maxdata_remote
  /\ st.fin_requested => ~st.is_active
  /\ st.reset_sent => st.reset_requested /\ st.fin_sent
  /\ st.fin_sent => Ended(st) \/ st.reset_sent

ReceiverOK(r, st) ==
  /\ st.maxdata_remote <= r.maxdata_local
  /\ r.consumed_offset <= r.fin_offset
  /\ r.fin_offset <= st.sent_offset
  /\ r.fin_received => Ended(st) /\ r.fin_offset = st.sent_offset
  /\ r.reset_received => st.reset_sent /\ r.fin_offset = st.sent_offset
  /\ r.fin_signalled => r.fin_received /\ r.consumed_offset = r.fin_offset

FrameOK(f) ==
  CASE f.type = "stream" ->
         /\ EndOf(f) <= snd[f.id].sent_offset
         /\ f.fin => Ended(snd[f.id]) /\ EndOf(f) = snd[f.id].sent_offset
    [] f.type = "reset" -> snd[f.id].reset_sent /\ f.final = snd[f.id].sent_offset
    [] f.type = "max_data" -> f.max <= rcv_cnx.maxdata_local
    [] f.type = "max_stream_data" -> f.max <= rcv[f.id].maxdata_local
    [] OTHER -> TRUE

(* Offsets of the streams as cells, to count them all.                     *)
Cells(offset) == {c \in Streams \X Nat : c[2] < offset[c[1]]}

Sent == [s \in Streams |-> snd[s].sent_offset]
Heard == [s \in Streams |-> rcv[s].fin_offset]

Counted ==
  /\ IsFiniteSet(Cells(Sent))
  /\ snd_cnx.data_sent = Cardinality(Cells(Sent))
  /\ rcv_cnx.data_received = Cardinality(Cells(Heard))

Streamwise == \A s \in Streams : SenderOK(snd[s]) /\ ReceiverOK(rcv[s], snd[s])

(* Frames in packets and in the queue.                                     *)
OldFrames ==
  {p.frame : p \in InTransit}
  \cup {stream_frame_retransmit_queue[i] : i \in DOMAIN stream_frame_retransmit_queue}

FramesOK == \A f \in OldFrames : FrameOK(f)

ConnectionOK ==
  /\ snd_cnx.data_sent <= snd_cnx.maxdata_remote
  /\ snd_cnx.maxdata_remote <= rcv_cnx.maxdata_local

(* What a step may do to a sender: its end, once settled, stays.           *)
Follows(old, new) ==
  /\ old.sent_offset <= new.sent_offset
  /\ old.reset_sent => new.reset_sent /\ new.sent_offset = old.sent_offset
  /\ Ended(old) => Ended(new) /\ new.sent_offset = old.sent_offset

Later ==
  /\ \A s \in Streams :
       Follows(snd[s], snd'[s]) /\ rcv[s].maxdata_local <= rcv'[s].maxdata_local
  /\ rcv_cnx.maxdata_local <= rcv_cnx'.maxdata_local

IInv == TypeOK /\ Streamwise /\ FramesOK /\ Counted /\ ConnectionOK /\ ~error

-----------------------------------------------------------------------------
(* Bags and counts.                                                        *)

(* The packets of a sum of bags are those of both; of a difference, some   *)
(* of the first.                                                           *)
LEMMA BagSets ==
  ASSUME NEW B, NEW C
  PROVE  /\ BagToSet(B (+) C) = BagToSet(B) \cup BagToSet(C)
         /\ BagToSet(B (-) C) \subseteq BagToSet(B)
BY DEF BagToSet, (+), (-)

(* SetToBag keeps the members of a set.                                    *)
LEMMA BagOfSet == \A S : BagToSet(SetToBag(S)) = S
BY DEF BagToSet, SetToBag

(* BagUnion has the packets of all its bags.                               *)
LEMMA BagOfAll_ ==
  ASSUME NEW S PROVE BagToSet(BagUnion(S)) = UNION {BagToSet(B) : B \in S}
BY DEF BagToSet, BagUnion

Packet(f) == [frame |-> f, net |-> "flying", snd |-> "waiting", was_preemptively_repeated |-> FALSE]

(* Sending adds a packet to those in transit, a change of one adds only    *)
(* its new form, and a loss adds nothing.                                  *)
LEMMA PacketChanges ==
  /\ \A f : BagToSet(packets (+) Fresh(f)) = InTransit \cup {Packet(f)}
  /\ \A p, q : BagToSet(Become(p, q)) \subseteq InTransit \cup {q}
  /\ \A p : BagToSet(Gone(p)) \subseteq InTransit
BY BagSets, BagOfSet DEF Fresh, Packet, Become, Gone, InTransit

(* n bytes more on one stream are n bytes more of the connection           *)
(* (data_sent, data_received).                                             *)
LEMMA CellsAdd ==
  ASSUME NEW f \in [Streams -> Nat], NEW g \in [Streams -> Nat], NEW s \in Streams, NEW n \in Nat,
         g[s] = f[s] + n, \A t \in Streams \ {s} : g[t] = f[t], IsFiniteSet(Cells(f))
  PROVE  IsFiniteSet(Cells(g)) /\ Cardinality(Cells(g)) = Cardinality(Cells(f)) + n
<1> DEFINE new == {s} \X (f[s]..(f[s] + n - 1))
<1>1. Cells(g) = Cells(f) \cup new
  BY DEF Cells
<1>2. Cells(f) \cap new = {}
  BY DEF Cells
<1>3. IsFiniteSet(f[s]..(f[s] + n - 1)) /\ Cardinality(f[s]..(f[s] + n - 1)) = n
  <2>1. PICK a \in Int, b \in Int : a = f[s] /\ b = f[s] + n - 1 /\ a <= b + 1 /\ b - a + 1 = n
    OBVIOUS
  <2>2. IsFiniteSet(a..b) /\ Cardinality(a..b) = IF a > b THEN 0 ELSE b - a + 1
    BY FS_Interval, Zenon
  <2>3. Cardinality(a..b) = n
    BY <2>1, <2>2
  <2> QED BY <2>1, <2>2, <2>3, Zenon
<1>4. IsFiniteSet({s}) /\ Cardinality({s}) = 1
  BY FS_Singleton
<1>5. IsFiniteSet(new) /\ Cardinality(new) = n
  <2> DEFINE I == f[s]..(f[s] + n - 1)
  <2>1. IsFiniteSet(new) /\ Cardinality(new) = Cardinality({s}) * Cardinality(I)
    <3> HIDE DEF I
    <3> QED BY <1>3, <1>4, FS_Product DEF I
  <2> QED BY <2>1, <1>3, <1>4
<1>6. /\ IsFiniteSet(Cells(f) \cup new)
      /\ Cardinality(Cells(f) \cup new)
           = Cardinality(Cells(f)) + Cardinality(new) - Cardinality(Cells(f) \cap new)
  BY <1>5, FS_Union
<1>7. Cardinality(Cells(f) \cap new) = 0
  BY <1>2, FS_EmptySet
<1>8. Cardinality(Cells(f)) \in Nat
  BY FS_CardinalityType
<1> HIDE DEF new
<1>9. Cardinality(Cells(f) \cup new) = Cardinality(Cells(f)) + n
  BY <1>5, <1>6, <1>7, <1>8
<1> QED BY <1>1, <1>6, <1>9, Zenon

(* Streams that are nowhere ahead of others have no more bytes together.   *)
LEMMA CellsWithin ==
  ASSUME NEW f \in [Streams -> Nat], NEW g \in [Streams -> Nat], IsFiniteSet(Cells(g)),
         \A s \in Streams : f[s] <= g[s]
  PROVE  IsFiniteSet(Cells(f)) /\ Cardinality(Cells(f)) <= Cardinality(Cells(g))
<1>1. Cells(f) \subseteq Cells(g)
  BY DEF Cells
<1> QED BY <1>1, FS_Subset
-----------------------------------------------------------------------------
(* Steps of one end.                                                       *)

(* What every step of a sender owes: the new stream is in order within its *)
(* limit, and data_sent grows by the bytes it sent.                        *)
LEMMA SenderStep ==
  ASSUME TypeOK, Streamwise, Counted,
         NEW s \in Streams, NEW st \in SndStream, NEW length \in Nat,
         snd' = [snd EXCEPT ![s] = st],
         SenderOK(st), Follows(snd[s], st), st.sent_offset = snd[s].sent_offset + length,
         st.maxdata_remote <= rcv[s].maxdata_local,
         snd_cnx' \in [maxdata_remote : Nat, data_sent : Nat],
         snd_cnx'.data_sent = snd_cnx.data_sent + length,
         UNCHANGED <<rcv, rcv_cnx>>
  PROVE  snd' \in [Streams -> SndStream] /\ Streamwise' /\ Counted' /\ Later
<1>1. snd \in [Streams -> SndStream] /\ rcv \in [Streams -> RcvStream]
  BY DEF TypeOK
<1>2. snd' \in [Streams -> SndStream] /\ snd'[s] = st /\ \A t \in Streams \ {s} : snd'[t] = snd[t]
  BY <1>1
<1>3. \A t \in Streams : Follows(snd[t], snd'[t])
  <2> TAKE t \in Streams
  <2>1. CASE t = s
    BY <1>2, <2>1
  <2>2. CASE t # s
    BY <1>1, <1>2, <2>2 DEF Follows, SndStream
  <2> QED BY <2>1, <2>2
<1>4. Streamwise'
  <2> SUFFICES ASSUME NEW t \in Streams PROVE SenderOK(snd'[t]) /\ ReceiverOK(rcv[t], snd'[t])
    BY DEF Streamwise
  <2>1. CASE t # s
    BY <1>2, <2>1 DEF Streamwise
  <2>2. CASE t = s
    <3>1. ReceiverOK(rcv[s], snd[s])
      BY DEF Streamwise
    <3>2. snd[s] \in SndStream /\ rcv[s] \in RcvStream
      BY <1>1
    <3>3. rcv[s].fin_offset <= st.sent_offset
      <4>1. rcv[s].fin_offset \in Nat /\ snd[s].sent_offset \in Nat /\ st.sent_offset \in Nat
        BY <3>2 DEF SndStream, RcvStream
      <4> QED BY <3>1, <4>1 DEF ReceiverOK, Follows
    <3>4. rcv[s].fin_received => Ended(st) /\ rcv[s].fin_offset = st.sent_offset
      BY <3>1, <3>2 DEF ReceiverOK, Follows
    <3>5. rcv[s].reset_received => st.reset_sent /\ rcv[s].fin_offset = st.sent_offset
      BY <3>1, <3>2 DEF ReceiverOK, Follows
    <3>6. ReceiverOK(rcv[s], st)
      BY <3>1, <3>3, <3>4, <3>5 DEF ReceiverOK
    <3> QED BY <1>2, <2>2, <3>6
  <2> QED BY <2>1, <2>2
<1>5. Counted'
  <2>1. Sent \in [Streams -> Nat] /\ Sent' \in [Streams -> Nat]
    BY <1>1, <1>2 DEF Sent, SndStream
  <2>2. Sent'[s] = Sent[s] + length /\ \A t \in Streams \ {s} : Sent'[t] = Sent[t]
    BY <1>1, <1>2 DEF Sent
  <2>3. IsFiniteSet(Cells(Sent')) /\ Cardinality(Cells(Sent')) = Cardinality(Cells(Sent)) + length
    <3>1. IsFiniteSet(Cells(Sent))
      BY DEF Counted
    <3> QED BY <2>1, <2>2, <3>1, CellsAdd, Zenon
  <2>4. Heard' = Heard
    BY DEF Heard
  <2> QED BY <2>3, <2>4 DEF Counted
<1>6. Later
  <2>1. \A t \in Streams : rcv[t].maxdata_local \in Nat
    BY <1>1 DEF RcvStream
  <2>2. rcv_cnx.maxdata_local \in Nat
    BY DEF TypeOK
  <2> QED BY <1>3, <2>1, <2>2 DEF Later
<1> QED BY <1>2, <1>4, <1>5, <1>6

(* What every step of a receiver owes: limits only grow, and data_received *)
(* grows by the new bytes of the stream.                                   *)
LEMMA ReceiverStep ==
  ASSUME TypeOK, Streamwise, Counted,
         NEW s \in Streams, NEW r \in RcvStream, NEW n \in Nat,
         rcv' = [rcv EXCEPT ![s] = r],
         ReceiverOK(r, snd[s]), r.fin_offset = rcv[s].fin_offset + n,
         rcv[s].maxdata_local <= r.maxdata_local,
         rcv_cnx.maxdata_local <= rcv_cnx'.maxdata_local,
         rcv_cnx'.data_received = rcv_cnx.data_received + n,
         UNCHANGED <<snd, snd_cnx>>
  PROVE  rcv' \in [Streams -> RcvStream] /\ Streamwise' /\ Counted' /\ Later
<1>1. snd \in [Streams -> SndStream] /\ rcv \in [Streams -> RcvStream]
  BY DEF TypeOK
<1>2. rcv' \in [Streams -> RcvStream] /\ rcv'[s] = r /\ \A t \in Streams \ {s} : rcv'[t] = rcv[t]
  BY <1>1
<1>3. Streamwise'
  BY <1>2 DEF Streamwise
<1>4. ASSUME NEW t \in Streams PROVE rcv[t].maxdata_local <= rcv'[t].maxdata_local
  <2>1. rcv[t].maxdata_local \in Nat
    BY <1>1 DEF RcvStream
  <2>2. CASE t = s
    BY <1>2, <2>2
  <2>3. CASE t # s
    BY <1>2, <2>1, <2>3
  <2> QED BY <2>2, <2>3
<1>5. Later
  BY <1>1, <1>4 DEF Later, Follows, SndStream
<1>6. Counted'
  <2>1. Heard \in [Streams -> Nat] /\ Heard' \in [Streams -> Nat] /\ Sent \in [Streams -> Nat]
    BY <1>1, <1>2 DEF Heard, Sent, RcvStream, SndStream
  <2>2. Heard'[s] = Heard[s] + n /\ \A t \in Streams \ {s} : Heard'[t] = Heard[t]
    BY <1>1, <1>2 DEF Heard
  <2>3. \A t \in Streams : Heard[t] <= Sent[t]
    BY <1>1 DEF Streamwise, ReceiverOK, Heard, Sent
  <2>4. IsFiniteSet(Cells(Heard))
    BY <2>1, <2>3, CellsWithin DEF Counted
  <2>5. Cardinality(Cells(Heard')) = Cardinality(Cells(Heard)) + n
    BY <2>1, <2>2, <2>4, CellsAdd, Zenon
  <2>6. Sent' = Sent
    BY DEF Sent
  <2> QED BY <2>5, <2>6 DEF Counted
<1> QED BY <1>2, <1>3, <1>5, <1>6

(* A frame of a packet or of the retransmit queue stays in order whatever  *)
(* the ends do, for limits and offsets only grow.                          *)
LEMMA OldFramesOK ==
  ASSUME TypeOK, TypeOK', FramesOK, Later
  PROVE  \A f \in OldFrames : f \in Frames /\ FrameOK(f)'
<1> SUFFICES ASSUME NEW f \in OldFrames PROVE f \in Frames /\ FrameOK(f)'
  OBVIOUS
<1>1. f \in Frames /\ FrameOK(f)
  <2>1. CASE f \in {p.frame : p \in InTransit}
    BY <2>1 DEF FramesOK, TypeOK, Packets
  <2>2. CASE f \in {stream_frame_retransmit_queue[i] : i \in DOMAIN stream_frame_retransmit_queue}
    <3>1. PICK i \in DOMAIN stream_frame_retransmit_queue : f = stream_frame_retransmit_queue[i]
      BY <2>2
    <3>2. f \in StreamFrames
      BY <3>1 DEF TypeOK
    <3> QED BY <3>1, <3>2 DEF FramesOK, Frames
  <2> QED BY <2>1, <2>2 DEF OldFrames
<1>2. FrameOK(f)'
  <2> DEFINE s == f.id
  <2>1. f.type \in {"stream", "reset", "max_data", "max_stream_data", "stop_sending"}
    BY <1>1 DEF Frames, StreamFrames
  <2>2. CASE f.type = "stream"
    <3>1. f \in StreamFrames
      BY <1>1, <2>2 DEF Frames, StreamFrames
    <3>2. s \in Streams /\ EndOf(f) \in Nat /\ EndOf(f)' = EndOf(f)
      BY <3>1 DEF StreamFrames, EndOf
    <3>3. Follows(snd[s], snd'[s]) /\ snd[s] \in SndStream /\ snd'[s] \in SndStream
      BY <3>2 DEF Later, TypeOK
    <3>4. EndOf(f) <= snd[s].sent_offset /\ (f.fin => Ended(snd[s]) /\ EndOf(f) = snd[s].sent_offset)
      BY <1>1, <2>2 DEF FrameOK
    <3>5. EndOf(f) <= snd'[s].sent_offset /\ (f.fin => Ended(snd'[s]) /\ EndOf(f) = snd'[s].sent_offset)
      BY <3>2, <3>3, <3>4 DEF Follows, SndStream
    <3> QED BY <2>2, <3>2, <3>5 DEF FrameOK, Ended
  <2>3. CASE f.type = "reset"
    <3>1. s \in Streams /\ f.final \in Nat
      BY <1>1, <2>3 DEF Frames, StreamFrames
    <3>2. Follows(snd[s], snd'[s])
      BY <3>1 DEF Later
    <3> QED BY <1>1, <2>3, <3>1, <3>2 DEF Follows, FrameOK
  <2>4. CASE f.type = "max_data"
    <3>1. f.max \in Nat
      BY <1>1, <2>4 DEF Frames, StreamFrames
    <3>2. rcv_cnx.maxdata_local \in Nat /\ rcv_cnx'.maxdata_local \in Nat
      BY DEF TypeOK
    <3>3. rcv_cnx.maxdata_local <= rcv_cnx'.maxdata_local
      BY DEF Later
    <3>4. f.max <= rcv_cnx.maxdata_local
      BY <1>1, <2>4 DEF FrameOK
    <3>5. f.max <= rcv_cnx'.maxdata_local
      BY <3>1, <3>2, <3>3, <3>4
    <3> QED BY <2>4, <3>5 DEF FrameOK
  <2>5. CASE f.type = "max_stream_data"
    <3>1. s \in Streams /\ f.max \in Nat
      BY <1>1, <2>5 DEF Frames, StreamFrames
    <3>2. rcv[s].maxdata_local \in Nat /\ rcv'[s].maxdata_local \in Nat
      BY <3>1 DEF TypeOK, RcvStream
    <3> QED BY <1>1, <2>5, <3>1, <3>2 DEF Later, FrameOK
  <2>6. CASE f.type = "stop_sending"
    BY <2>6 DEF FrameOK
  <2> QED BY <2>1, <2>2, <2>3, <2>4, <2>5, <2>6
<1> QED BY <1>1, <1>2

(* FramesOK after a step that formats one frame,                           *)
LEMMA FramesStep ==
  ASSUME TypeOK, TypeOK', FramesOK, Later, NEW f, FrameOK(f)',
         OldFrames' \subseteq {f} \cup OldFrames
  PROVE  FramesOK'
BY OldFramesOK DEF FramesOK

(* and after one that formats none.                                        *)
LEMMA FramesStay ==
  ASSUME TypeOK, TypeOK', FramesOK, Later, OldFrames' \subseteq OldFrames
  PROVE  FramesOK'
BY OldFramesOK DEF FramesOK

(* The packets after a new frame was sent, and after one packet changed.   *)
LEMMA OnePacketMore ==
  ASSUME TypeOK, NEW f \in Frames, InTransit' = InTransit \cup {Packet(f)},
         UNCHANGED stream_frame_retransmit_queue
  PROVE  (InTransit \subseteq Packets)' /\ OldFrames' \subseteq {f} \cup OldFrames
<1>1. Packet(f) \in Packets /\ Packet(f).frame = f
  BY DEF Packet, Packets
<1> QED BY <1>1 DEF TypeOK, OldFrames

(* A packet that changes keeps its frame, so there is no new frame.        *)
LEMMA PacketChanged ==
  ASSUME TypeOK, NEW p \in InTransit, NEW q \in Packets, q.frame = p.frame,
         InTransit' \subseteq InTransit \cup {q},
         UNCHANGED stream_frame_retransmit_queue
  PROVE  (InTransit \subseteq Packets)' /\ OldFrames' \subseteq OldFrames
BY DEF TypeOK, OldFrames

(* The bytes from a to b are b - a numbers.                                *)
LEMMA BytesType ==
  ASSUME NEW a \in Nat, NEW b \in Nat, a <= b
  PROVE  Bytes(a, b) \in Seq(Nat) /\ Len(Bytes(a, b)) = b - a
<1>1. b - a \in Nat
  OBVIOUS
<1>2. Bytes(a, b) \in [1..(b - a) -> Nat]
  BY DEF Bytes
<1> QED BY <1>1, <1>2 DEF Bytes

-----------------------------------------------------------------------------
(* Senders.                                                                *)

(* What picoquic_format_stream_frame changes of a stream.                  *)
LEMMA AdvancedFields ==
  ASSUME NEW st \in SndStream, NEW length \in Nat, NEW fin \in BOOLEAN
  PROVE  LET q == Advanced(st, length, fin) IN
         /\ q \in SndStream
         /\ q.sent_offset = st.sent_offset + length
         /\ q.fin_sent = (st.fin_sent \/ fin)
         /\ q.written = st.written /\ q.fin_requested = st.fin_requested
         /\ q.is_active = st.is_active /\ q.maxdata_remote = st.maxdata_remote
         /\ q.reset_requested = st.reset_requested /\ q.reset_sent = st.reset_sent
<1>1. st.sent_offset + length \in Nat
  BY SMT DEF SndStream
<1>2. Advanced(st, length, fin) \in SndStream
  BY <1>1, Zenon DEF SndStream, Advanced
<1>3. /\ Advanced(st, length, fin).sent_offset = st.sent_offset + length
      /\ Advanced(st, length, fin).fin_sent = (st.fin_sent \/ fin)
      /\ Advanced(st, length, fin).written = st.written
      /\ Advanced(st, length, fin).fin_requested = st.fin_requested
      /\ Advanced(st, length, fin).is_active = st.is_active
      /\ Advanced(st, length, fin).maxdata_remote = st.maxdata_remote
      /\ Advanced(st, length, fin).reset_requested = st.reset_requested
      /\ Advanced(st, length, fin).reset_sent = st.reset_sent
  BY Zenon DEF SndStream, Advanced
<1> QED BY <1>2, <1>3

(* What the data that an active stream provides while the frame is         *)
(* formatted changes of it.                                                *)
LEMMA SuppliedFields ==
  ASSUME NEW st \in SndStream, NEW length \in Nat, NEW fin \in BOOLEAN, NEW still \in BOOLEAN
  PROVE  LET q == Supplied(st, length, fin, still) IN
         /\ q \in SndStream
         /\ q.sent_offset = st.sent_offset + length /\ q.written = st.sent_offset + length
         /\ q.fin_sent = fin /\ q.fin_requested = fin
         /\ q.is_active = (still /\ ~fin) /\ q.maxdata_remote = st.maxdata_remote
         /\ q.reset_requested = st.reset_requested /\ q.reset_sent = st.reset_sent
<1>1. st.sent_offset + length \in Nat
  BY SMT DEF SndStream
<1>2. Supplied(st, length, fin, still) \in SndStream
  BY <1>1, Zenon DEF SndStream, Supplied
<1>3. /\ Supplied(st, length, fin, still).sent_offset = st.sent_offset + length
      /\ Supplied(st, length, fin, still).written = st.sent_offset + length
      /\ Supplied(st, length, fin, still).fin_sent = fin
      /\ Supplied(st, length, fin, still).fin_requested = fin
      /\ Supplied(st, length, fin, still).is_active = (still /\ ~fin)
      /\ Supplied(st, length, fin, still).maxdata_remote = st.maxdata_remote
      /\ Supplied(st, length, fin, still).reset_requested = st.reset_requested
      /\ Supplied(st, length, fin, still).reset_sent = st.reset_sent
  BY Zenon DEF SndStream, Supplied
<1> QED BY <1>2, <1>3

(* picoquic_delete_stream_if_closed leaves offsets and limits alone.       *)
LEMMA DeletedFields ==
  ASSUME NEW st \in SndStream
  PROVE  LET q == DeletedIfClosed(st) IN
         /\ q \in SndStream
         /\ q.sent_offset = st.sent_offset
         /\ q.fin_sent = st.fin_sent
         /\ q.written = st.written /\ q.fin_requested = st.fin_requested
         /\ q.is_active = st.is_active /\ q.maxdata_remote = st.maxdata_remote
         /\ q.reset_requested = st.reset_requested /\ q.reset_sent = st.reset_sent
<1>1. IsStreamClosed(st) \in BOOLEAN /\ IsStreamAcked(st) \in BOOLEAN
  BY DEF IsStreamClosed, IsStreamAcked, SndStream
<1>2. DeletedIfClosed(st) \in SndStream
  <2>1. PICK closed \in BOOLEAN : closed = (st.is_closed \/ IsStreamClosed(st))
    OBVIOUS
  <2>2. PICK exists \in BOOLEAN : exists = ~(closed /\ IsStreamAcked(st))
    OBVIOUS
  <2>3. DeletedIfClosed(st) = [st EXCEPT !.is_closed = closed, !.exists = exists]
    BY <2>1, <2>2, Zenon DEF DeletedIfClosed
  <2> QED BY <2>3 DEF SndStream
<1>3. /\ DeletedIfClosed(st).sent_offset = st.sent_offset
      /\ DeletedIfClosed(st).fin_sent = st.fin_sent
      /\ DeletedIfClosed(st).written = st.written
      /\ DeletedIfClosed(st).fin_requested = st.fin_requested
      /\ DeletedIfClosed(st).is_active = st.is_active
      /\ DeletedIfClosed(st).maxdata_remote = st.maxdata_remote
      /\ DeletedIfClosed(st).reset_requested = st.reset_requested
      /\ DeletedIfClosed(st).reset_sent = st.reset_sent
  BY Zenon DEF SndStream, DeletedIfClosed
<1> QED BY <1>2, <1>3

(* A STREAM frame of the bytes from a to b ends at b.                      *)
LEMMA StreamFrameType ==
  ASSUME NEW s \in Streams, NEW a \in Nat, NEW b \in Nat, a <= b, NEW fin \in BOOLEAN
  PROVE  LET f == StreamFrame(s, a, Bytes(a, b), fin) IN
         /\ f \in StreamFrames /\ f \in Frames
         /\ f.type = "stream" /\ f.id = s /\ f.fin = fin /\ EndOf(f) = b
<1>1. Bytes(a, b) \in Seq(Nat) /\ Len(Bytes(a, b)) = b - a
  BY BytesType
<1> QED BY <1>1 DEF StreamFrame, StreamFrames, Frames, EndOf

(* What a new stream frame asks for.                                       *)
LEMMA DataSent ==
  ASSUME IInv, NEW s \in Streams, NEW q \in SndStream, NEW length \in Nat, NEW fin \in BOOLEAN,
         SenderOK(q), Follows(snd[s], q), fin => Ended(q),
         q.sent_offset = snd[s].sent_offset + length, q.maxdata_remote = snd[s].maxdata_remote,
         length <= AllowedSpace(s),
         packets' = packets (+) Fresh(StreamFrame(s, snd[s].sent_offset,
                       Bytes(snd[s].sent_offset, snd[s].sent_offset + length), fin)),
         snd' = [snd EXCEPT ![s] = q],
         snd_cnx' = [snd_cnx EXCEPT !.data_sent = @ + length],
         UNCHANGED <<rcv, rcv_cnx, stream_frame_retransmit_queue, error, events>>
  PROVE  IInv'
<1> USE DEF IInv
<1>1. snd[s] \in SndStream /\ rcv[s] \in RcvStream
  BY DEF TypeOK
<1>2. PICK a \in Nat : a = snd[s].sent_offset
  BY <1>1 DEF SndStream
<1>3. PICK f : f = StreamFrame(s, a, Bytes(a, a + length), fin)
  OBVIOUS
<1>4. /\ f \in StreamFrames /\ f \in Frames
      /\ f.type = "stream" /\ f.id = s /\ f.fin = fin /\ EndOf(f) = a + length
  BY <1>3, StreamFrameType
<1>5. /\ snd_cnx \in [maxdata_remote : Nat, data_sent : Nat]
      /\ snd_cnx' \in [maxdata_remote : Nat, data_sent : Nat]
      /\ snd_cnx'.data_sent = snd_cnx.data_sent + length
      /\ snd_cnx'.maxdata_remote = snd_cnx.maxdata_remote
  BY DEF TypeOK
<1>6. snd_cnx'.data_sent <= snd_cnx.maxdata_remote
  <2>1. length <= snd_cnx.maxdata_remote - snd_cnx.data_sent
    BY <1>1, <1>5 DEF AllowedSpace, SndStream
  <2> QED BY <1>5, <2>1
<1>7. q.maxdata_remote <= rcv[s].maxdata_local
  BY DEF Streamwise, ReceiverOK
<1>8. snd' \in [Streams -> SndStream] /\ Streamwise' /\ Counted' /\ Later
  BY <1>5, <1>7, SenderStep
<1>9. ConnectionOK'
  BY <1>5, <1>6 DEF ConnectionOK
<1>10. InTransit' = InTransit \cup {Packet(f)}
  BY <1>2, <1>3, PacketChanges DEF InTransit
<1>11. (InTransit \subseteq Packets)' /\ OldFrames' \subseteq {f} \cup OldFrames
  BY <1>4, <1>10, OnePacketMore
<1>12. TypeOK'
  BY <1>5, <1>8, <1>11 DEF TypeOK
<1>13. FrameOK(f)'
  <2>1. snd'[s] = q
    BY DEF TypeOK
  <2>2. q.sent_offset = a + length
    BY <1>2
  <2>3. EndOf(f) <= snd'[s].sent_offset /\ (f.fin => Ended(snd'[s]) /\ EndOf(f) = snd'[s].sent_offset)
    BY <1>4, <2>1, <2>2
  <2> QED BY <1>4, <2>3 DEF FrameOK, EndOf, Ended
<1>14. FramesOK'
  BY <1>8, <1>11, <1>12, <1>13, FramesStep
<1> QED BY <1>8, <1>9, <1>12, <1>14

(* picoquic_format_stream_frame keeps the credit: the frame is cut to      *)
(* maxdata_remote of the stream and of the connection.                     *)
LEMMA SendStreamStep ==
  ASSUME IInv, NEW s \in Streams, NEW length \in Nat, SendStream(s, length)
  PROVE  IInv'
<1>1. PICK st \in SndStream : st = snd[s]
  BY DEF IInv, TypeOK
<1>2. PICK fin \in BOOLEAN : fin = (st.fin_requested /\ length = NbQueued(s))
  BY <1>1 DEF SndStream
<1>3. PICK q : q = Advanced(st, length, fin)
  OBVIOUS
<1>4. /\ q \in SndStream
      /\ q.sent_offset = st.sent_offset + length
      /\ q.fin_sent = (st.fin_sent \/ fin)
      /\ q.written = st.written /\ q.fin_requested = st.fin_requested
      /\ q.is_active = st.is_active /\ q.maxdata_remote = st.maxdata_remote
      /\ q.reset_requested = st.reset_requested /\ q.reset_sent = st.reset_sent
  BY <1>3, AdvancedFields
<1>5. /\ st.sent_offset \in Nat /\ st.written \in Nat /\ st.maxdata_remote \in Nat
      /\ st.sent_offset + length \in Nat
      /\ snd_cnx.data_sent \in Nat /\ snd_cnx.maxdata_remote \in Nat
  BY DEF IInv, TypeOK, SndStream
<1>6. SenderOK(st)
  BY <1>1 DEF IInv, Streamwise
<1>7. length <= NbQueued(s) /\ length <= AllowedSpace(s)
  BY DEF SendStream
<1>8. st.sent_offset + length <= st.maxdata_remote
  BY <1>1, <1>5, <1>7 DEF AllowedSpace
<1>9. SenderOK(q) /\ Follows(st, q) /\ (fin => Ended(q))
  <2>1. CASE st.reset_sent
    <3>1. length = 0 /\ q.sent_offset = st.sent_offset
      BY <1>1, <1>4, <1>5, <1>7, <2>1 DEF NbQueued
    <3>2. st.fin_sent /\ q.fin_sent
      BY <1>4, <1>6, <2>1 DEF SenderOK
    <3>3. fin => st.fin_requested /\ ~st.is_active
      BY <1>2, <1>6 DEF SenderOK
    <3>4. ~fin
      BY <1>1, <1>6, <2>1, <3>3, <3>2 DEF SendStream, IsReady, NbQueued
    <3> QED BY <1>4, <1>5, <1>6, <2>1, <3>1, <3>2, <3>4 DEF SenderOK, Follows, Ended
  <2>2. CASE ~st.reset_sent
    <3>1. NbQueued(s) = st.written - st.sent_offset
      BY <1>1, <2>2 DEF NbQueued
    <3>2. st.sent_offset + length <= st.written
      BY <1>5, <1>7, <3>1
    <3>3. fin => q.fin_requested /\ q.written = q.sent_offset /\ q.fin_sent
      <4>1. fin => st.fin_requested /\ length = NbQueued(s)
        BY <1>2, Zenon
      <4>2. fin => q.fin_requested /\ q.fin_sent
        BY <1>4, <4>1, Zenon
      <4>3. length = NbQueued(s) => q.written = q.sent_offset
        BY <1>4, <1>5, <3>1
      <4> QED BY <4>1, <4>2, <4>3
    <3>4. Ended(st) => length = 0
      BY <1>5, <1>7, <3>1 DEF Ended
    <3>5. st.fin_sent => Ended(st)
      BY <1>6, <2>2 DEF SenderOK
    <3>6. Ended(st) => q.sent_offset = st.sent_offset /\ Ended(q)
      <4>1. length = 0 => q.sent_offset = st.sent_offset
        BY <1>4, <1>5
      <4> QED BY <1>4, <3>4, <4>1, Zenon DEF Ended
    <3>7. fin => Ended(q)
      BY <3>3 DEF Ended
    <3>8. Follows(st, q)
      BY <1>4, <1>5, <2>2, <3>6 DEF Follows
    <3>9. SenderOK(q)
      BY <1>4, <1>5, <1>6, <1>8, <2>2, <3>2, <3>5, <3>6, <3>7 DEF SenderOK
    <3> QED BY <3>7, <3>8, <3>9
  <2> QED BY <2>1, <2>2
<1>10. /\ packets' = packets (+) Fresh(StreamFrame(s, st.sent_offset,
                       Bytes(st.sent_offset, st.sent_offset + length), fin))
       /\ snd' = [snd EXCEPT ![s] = q]
       /\ snd_cnx' = [snd_cnx EXCEPT !.data_sent = @ + length]
       /\ UNCHANGED <<rcv, rcv_cnx, stream_frame_retransmit_queue, error, events>>
  BY <1>1, <1>2, <1>3 DEF SendStream
<1> QED BY <1>1, <1>4, <1>7, <1>9, <1>10, DataSent

(* A step that leaves the offsets alone.                                   *)
LEMMA SenderChanged ==
  ASSUME IInv, NEW s \in Streams, NEW q \in SndStream,
         SenderOK(q), Follows(snd[s], q), q.sent_offset = snd[s].sent_offset,
         q.maxdata_remote <= rcv[s].maxdata_local,
         snd' = [snd EXCEPT ![s] = q],
         UNCHANGED <<rcv, snd_cnx, rcv_cnx, error>>, events' \in Nat,
         (InTransit \subseteq Packets)', stream_frame_retransmit_queue' \in Seq(StreamFrames)
  PROVE  TypeOK' /\ Streamwise' /\ Counted' /\ ConnectionOK' /\ ~error' /\ Later
<1> USE DEF IInv
<1>1. /\ snd_cnx' \in [maxdata_remote : Nat, data_sent : Nat]
      /\ snd_cnx'.data_sent = snd_cnx.data_sent + 0
      /\ q.sent_offset = snd[s].sent_offset + 0
  BY DEF TypeOK, SndStream
<1>2. snd' \in [Streams -> SndStream] /\ Streamwise' /\ Counted' /\ Later
  BY <1>1, SenderStep
<1>3. ConnectionOK' /\ ~error'
  BY DEF ConnectionOK
<1>4. TypeOK'
  BY <1>2 DEF TypeOK
<1> QED BY <1>2, <1>3, <1>4

(* So does a frame that the application fills.                             *)
LEMMA SendActiveStep ==
  ASSUME IInv, NEW s \in Streams, NEW length \in Nat, NEW fin \in BOOLEAN, NEW still \in BOOLEAN,
         SendActive(s, length, fin, still)
  PROVE  IInv'
<1>1. PICK st \in SndStream : st = snd[s]
  BY DEF IInv, TypeOK
<1>2. /\ st.sent_offset \in Nat /\ st.written \in Nat /\ st.maxdata_remote \in Nat
      /\ snd_cnx \in [maxdata_remote : Nat, data_sent : Nat]
  BY DEF IInv, TypeOK, SndStream
<1>3. SenderOK(st)
  BY <1>1 DEF IInv, Streamwise
<1>4. CASE length = 0 /\ ~fin
  <2>1. /\ snd_cnx' = snd_cnx
        /\ UNCHANGED <<snd, packets, rcv, rcv_cnx, stream_frame_retransmit_queue, error, events>>
    BY <1>2, <1>4 DEF SendActive
  <2> QED BY <2>1 DEF IInv, TypeOK, Streamwise, FramesOK, FrameOK, EndOf, Ended, OldFrames, InTransit,
                      Counted, Sent, Heard, Cells, ConnectionOK, SenderOK, ReceiverOK
<1>5. CASE ~(length = 0 /\ ~fin)
  <2>1. PICK q : q = Supplied(st, length, fin, still)
    OBVIOUS
  <2>2. /\ q \in SndStream
        /\ q.sent_offset = st.sent_offset + length /\ q.written = st.sent_offset + length
        /\ q.fin_sent = fin /\ q.fin_requested = fin
        /\ q.is_active = (still /\ ~fin) /\ q.maxdata_remote = st.maxdata_remote
        /\ q.reset_requested = st.reset_requested /\ q.reset_sent = st.reset_sent
    BY <2>1, SuppliedFields
  <2>3. ~st.reset_requested /\ ~st.reset_sent /\ ~st.fin_requested
    BY <1>1, <1>3, <1>5 DEF SendActive, SenderOK
  <2>4. ~Ended(st) /\ ~st.fin_sent
    BY <1>3, <2>3 DEF SenderOK, Ended
  <2>5. length <= AllowedSpace(s)
    BY DEF SendActive
  <2>6. st.sent_offset + length <= st.maxdata_remote
    BY <1>1, <1>2, <2>5 DEF AllowedSpace
  <2>7. fin => Ended(q)
    BY <2>2, Zenon DEF Ended
  <2>8. Follows(st, q)
    BY <1>2, <2>2, <2>3, <2>4 DEF Follows
  <2>9. SenderOK(q)
    <3>1. q.sent_offset <= q.written /\ q.sent_offset <= q.maxdata_remote
      BY <1>2, <2>2, <2>6
    <3> QED BY <2>2, <2>3, <2>7, <3>1, Zenon DEF SenderOK
  <2>10. /\ packets' = packets (+) Fresh(StreamFrame(s, st.sent_offset,
                         Bytes(st.sent_offset, st.sent_offset + length), fin))
         /\ snd' = [snd EXCEPT ![s] = q]
         /\ snd_cnx' = [snd_cnx EXCEPT !.data_sent = @ + length]
         /\ UNCHANGED <<rcv, rcv_cnx, stream_frame_retransmit_queue, error, events>>
    BY <1>1, <1>5, <2>1 DEF SendActive
  <2> QED BY <1>1, <2>2, <2>5, <2>7, <2>8, <2>9, <2>10, DataSent
<1> QED BY <1>4, <1>5

(* RESET_STREAM gives sent_offset as the final size.                       *)
LEMMA SendResetStep ==
  ASSUME IInv, NEW s \in Streams, SendReset(s)
  PROVE  IInv'
<1>1. PICK st \in SndStream : st = snd[s]
  BY DEF IInv, TypeOK
<1>2. PICK q : q = DeletedIfClosed([st EXCEPT !.reset_sent = TRUE, !.fin_sent = TRUE])
  OBVIOUS
<1>3. /\ q \in SndStream
      /\ q.sent_offset = st.sent_offset /\ q.fin_sent /\ q.written = st.written
      /\ q.fin_requested = st.fin_requested /\ q.is_active = st.is_active
      /\ q.maxdata_remote = st.maxdata_remote
      /\ q.reset_requested = st.reset_requested /\ q.reset_sent
  <2>1. PICK r : r = [st EXCEPT !.reset_sent = TRUE, !.fin_sent = TRUE]
    OBVIOUS
  <2>2. /\ r \in SndStream /\ r.reset_sent /\ r.fin_sent
        /\ r.sent_offset = st.sent_offset /\ r.written = st.written
        /\ r.fin_requested = st.fin_requested /\ r.is_active = st.is_active
        /\ r.maxdata_remote = st.maxdata_remote /\ r.reset_requested = st.reset_requested
    BY <2>1, Zenon DEF SndStream
  <2> QED BY <1>2, <2>1, <2>2, DeletedFields
<1>4. SenderOK(st) /\ st.reset_requested /\ st.maxdata_remote <= rcv[s].maxdata_local
  BY <1>1 DEF IInv, Streamwise, SendReset, ReceiverOK
<1>5. st.sent_offset \in Nat
  BY DEF SndStream
<1>6. SenderOK(q) /\ Follows(st, q)
  BY <1>3, <1>4, <1>5 DEF SenderOK, Follows, Ended
<1>7. PICK f : f = [type |-> "reset", id |-> s, final |-> st.sent_offset]
  OBVIOUS
<1>8. f \in Frames /\ f.type = "reset" /\ f.id = s /\ f.final = st.sent_offset
  BY <1>5, <1>7 DEF Frames
<1>9. /\ packets' = packets (+) Fresh(f)
      /\ snd' = [snd EXCEPT ![s] = q]
      /\ UNCHANGED <<rcv, snd_cnx, rcv_cnx, stream_frame_retransmit_queue, error, events>>
  BY <1>1, <1>2, <1>7 DEF SendReset
<1>10. InTransit' = InTransit \cup {Packet(f)}
  BY <1>9, PacketChanges DEF InTransit
<1>11. (InTransit \subseteq Packets)' /\ OldFrames' \subseteq {f} \cup OldFrames
  BY <1>8, <1>9, <1>10, OnePacketMore DEF IInv
<1>12. stream_frame_retransmit_queue' \in Seq(StreamFrames) /\ events' \in Nat
  BY <1>9 DEF IInv, TypeOK
<1>13. TypeOK' /\ Streamwise' /\ Counted' /\ ConnectionOK' /\ ~error' /\ Later
  BY <1>1, <1>3, <1>4, <1>6, <1>9, <1>11, <1>12, SenderChanged
<1>14. FrameOK(f)'
  <2>1. snd'[s] = q
    BY <1>9 DEF IInv, TypeOK
  <2> QED BY <1>3, <1>8, <2>1 DEF FrameOK
<1>15. FramesOK'
  BY <1>11, <1>13, <1>14, FramesStep DEF IInv
<1> QED BY <1>13, <1>15 DEF IInv

(* Steps of the sender without a packet.                                   *)
LEMMA SenderQuiet ==
  ASSUME IInv, NEW s \in Streams, NEW q \in SndStream,
         SenderOK(q), Follows(snd[s], q), q.sent_offset = snd[s].sent_offset,
         q.maxdata_remote <= rcv[s].maxdata_local,
         snd' = [snd EXCEPT ![s] = q],
         UNCHANGED <<rcv, snd_cnx, rcv_cnx, error>>, events' \in Nat,
         (InTransit \subseteq Packets)', stream_frame_retransmit_queue' \in Seq(StreamFrames),
         OldFrames' \subseteq OldFrames
  PROVE  IInv'
<1>1. TypeOK' /\ Streamwise' /\ Counted' /\ ConnectionOK' /\ ~error' /\ Later
  BY SenderChanged
<1>2. FramesOK'
  BY <1>1, FramesStay DEF IInv
<1> QED BY <1>1, <1>2 DEF IInv

(* Without new packets there are no new frames.                            *)
LEMMA NoPackets ==
  ASSUME IInv, UNCHANGED <<packets, stream_frame_retransmit_queue>>
  PROVE  /\ (InTransit \subseteq Packets)' /\ OldFrames' \subseteq OldFrames
         /\ stream_frame_retransmit_queue' \in Seq(StreamFrames)
BY DEF IInv, TypeOK, OldFrames, InTransit

(* Leaving the output list changes no credit.                              *)
LEMMA PassExhaustedStep ==
  ASSUME IInv, NEW s \in Streams, PassExhausted(s)
  PROVE  IInv'
<1>1. PICK st \in SndStream : st = snd[s]
  BY DEF IInv, TypeOK
<1>2. PICK q : q = DeletedIfClosed([st EXCEPT !.is_output_stream = FALSE])
  OBVIOUS
<1>3. /\ q \in SndStream
      /\ q.sent_offset = st.sent_offset /\ q.fin_sent = st.fin_sent /\ q.written = st.written
      /\ q.fin_requested = st.fin_requested /\ q.is_active = st.is_active
      /\ q.maxdata_remote = st.maxdata_remote
      /\ q.reset_requested = st.reset_requested /\ q.reset_sent = st.reset_sent
  <2>1. PICK r : r = [st EXCEPT !.is_output_stream = FALSE]
    OBVIOUS
  <2>2. /\ r \in SndStream /\ r.reset_sent = st.reset_sent /\ r.fin_sent = st.fin_sent
        /\ r.sent_offset = st.sent_offset /\ r.written = st.written
        /\ r.fin_requested = st.fin_requested /\ r.is_active = st.is_active
        /\ r.maxdata_remote = st.maxdata_remote /\ r.reset_requested = st.reset_requested
    BY <2>1, Zenon DEF SndStream
  <2> QED BY <1>2, <2>1, <2>2, DeletedFields
<1>4. SenderOK(st) /\ st.maxdata_remote <= rcv[s].maxdata_local /\ st.sent_offset \in Nat
  BY <1>1 DEF IInv, Streamwise, ReceiverOK, SndStream
<1>5. SenderOK(q) /\ Follows(st, q)
  BY <1>3, <1>4 DEF SenderOK, Follows, Ended
<1>6. snd' = [snd EXCEPT ![s] = q] /\ UNCHANGED <<rcv, snd_cnx, rcv_cnx, error>> /\ events' \in Nat
  BY <1>1, <1>2 DEF PassExhausted, IInv, TypeOK
<1>7. UNCHANGED <<packets, stream_frame_retransmit_queue>>
  BY DEF PassExhausted
<1> QED BY <1>1, <1>3, <1>4, <1>5, <1>6, <1>7, NoPackets, SenderQuiet

(* picoquic_add_to_stream adds bytes that are not sent yet.                *)
LEMMA WriteStep ==
  ASSUME IInv, NEW s \in Streams, NEW length \in Nat, NEW fin \in BOOLEAN, Write(s, length, fin)
  PROVE  IInv'
<1>1. PICK st \in SndStream : st = snd[s]
  BY DEF IInv, TypeOK
<1>2. PICK n \in Nat : n = IF st.reset_sent \/ st.stop_sending_received THEN 0 ELSE length
  OBVIOUS
<1>3. PICK active \in BOOLEAN : active = ((st.reset_sent \/ st.stop_sending_received) /\ st.is_active)
  OBVIOUS
<1>4. PICK q : q = [st EXCEPT !.fin_requested = fin, !.written = st.written + n, !.is_active = active]
  OBVIOUS
<1>5. st.sent_offset \in Nat /\ st.written \in Nat /\ st.written + n \in Nat
  BY DEF SndStream
<1>6. /\ q \in SndStream
      /\ q.sent_offset = st.sent_offset /\ q.fin_sent = st.fin_sent /\ q.written = st.written + n
      /\ q.fin_requested = fin /\ q.is_active = active
      /\ q.maxdata_remote = st.maxdata_remote
      /\ q.reset_requested = st.reset_requested /\ q.reset_sent = st.reset_sent
  BY <1>4, <1>5, Zenon DEF SndStream
<1>7. SenderOK(st) /\ st.maxdata_remote <= rcv[s].maxdata_local
  BY <1>1 DEF IInv, Streamwise, ReceiverOK
<1>8. /\ ~st.fin_requested /\ ~st.reset_requested /\ ~(st.is_active /\ st.stop_sending_received)
      /\ snd' = [snd EXCEPT ![s] = q]
      /\ UNCHANGED <<rcv, snd_cnx, rcv_cnx, stream_frame_retransmit_queue, packets, error, events>>
  BY <1>1, <1>2, <1>3, <1>4 DEF Write
<1>9. ~st.reset_sent /\ ~st.fin_sent /\ ~active /\ ~Ended(st)
  BY <1>3, <1>7, <1>8 DEF SenderOK, Ended
<1>10. SenderOK(q) /\ Follows(st, q)
  BY <1>5, <1>6, <1>7, <1>9 DEF SenderOK, Follows
<1>11. events' \in Nat
  BY <1>8 DEF IInv, TypeOK
<1> QED BY <1>1, <1>6, <1>7, <1>8, <1>10, <1>11, NoPackets, SenderQuiet

(* picoquic_mark_active_stream changes no credit.                          *)
LEMMA MarkActiveStep ==
  ASSUME IInv, NEW s \in Streams, MarkActive(s)
  PROVE  IInv'
<1>1. PICK st \in SndStream : st = snd[s]
  BY DEF IInv, TypeOK
<1>2. PICK q : q = [st EXCEPT !.is_active = TRUE]
  OBVIOUS
<1>3. /\ q \in SndStream
      /\ q.sent_offset = st.sent_offset /\ q.fin_sent = st.fin_sent /\ q.written = st.written
      /\ q.fin_requested = st.fin_requested
      /\ q.maxdata_remote = st.maxdata_remote
      /\ q.reset_requested = st.reset_requested /\ q.reset_sent = st.reset_sent
  BY <1>2, Zenon DEF SndStream
<1>4. SenderOK(st) /\ st.maxdata_remote <= rcv[s].maxdata_local /\ st.sent_offset \in Nat
  BY <1>1 DEF IInv, Streamwise, ReceiverOK, SndStream
<1>5. /\ ~st.fin_requested /\ snd' = [snd EXCEPT ![s] = q]
      /\ UNCHANGED <<rcv, snd_cnx, rcv_cnx, stream_frame_retransmit_queue, packets, error>>
      /\ events' \in Nat
  BY <1>1, <1>2 DEF MarkActive, Rare, IInv, TypeOK
<1>6. SenderOK(q) /\ Follows(st, q)
  BY <1>3, <1>4, <1>5 DEF SenderOK, Follows, Ended
<1> QED BY <1>1, <1>3, <1>4, <1>5, <1>6, NoPackets, SenderQuiet

(* picoquic_reset_stream changes no credit.                                *)
LEMMA ResetStreamStep ==
  ASSUME IInv, NEW s \in Streams, ResetStream(s)
  PROVE  IInv'
<1>1. PICK st \in SndStream : st = snd[s]
  BY DEF IInv, TypeOK
<1>2. PICK q : q = [st EXCEPT !.reset_requested = TRUE]
  OBVIOUS
<1>3. /\ q \in SndStream
      /\ q.sent_offset = st.sent_offset /\ q.fin_sent = st.fin_sent /\ q.written = st.written
      /\ q.fin_requested = st.fin_requested /\ q.is_active = st.is_active
      /\ q.maxdata_remote = st.maxdata_remote
      /\ q.reset_requested /\ q.reset_sent = st.reset_sent
  BY <1>2, Zenon DEF SndStream
<1>4. SenderOK(st) /\ st.maxdata_remote <= rcv[s].maxdata_local /\ st.sent_offset \in Nat
  BY <1>1 DEF IInv, Streamwise, ReceiverOK, SndStream
<1>5. /\ snd' = [snd EXCEPT ![s] = q]
      /\ UNCHANGED <<rcv, snd_cnx, rcv_cnx, stream_frame_retransmit_queue, packets, error>>
      /\ events' \in Nat
  BY <1>1, <1>2 DEF ResetStream, Rare, IInv, TypeOK
<1>6. SenderOK(q) /\ Follows(st, q)
  BY <1>3, <1>4 DEF SenderOK, Follows, Ended
<1> QED BY <1>1, <1>3, <1>4, <1>5, <1>6, NoPackets, SenderQuiet

-----------------------------------------------------------------------------
(* Packets that are lost, repeated and acknowledged.                       *)

(* Offsets and limits that stay are not below what they were.              *)
LEMMA LaterSame ==
  ASSUME TypeOK, UNCHANGED <<snd, rcv, rcv_cnx>>
  PROVE  Later
<1>1. ASSUME NEW s \in Streams
      PROVE  Follows(snd[s], snd'[s]) /\ rcv[s].maxdata_local <= rcv'[s].maxdata_local
  <2>1. snd[s] \in SndStream /\ rcv[s] \in RcvStream
    BY DEF TypeOK
  <2>2. snd[s].sent_offset \in Nat /\ rcv[s].maxdata_local \in Nat
    BY <2>1 DEF SndStream, RcvStream
  <2> QED BY <2>2 DEF Follows
<1>2. rcv_cnx.maxdata_local \in Nat
  BY DEF TypeOK
<1> QED BY <1>1, <1>2 DEF Later

(* A step that leaves both ends alone keeps all that is said of them,      *)
LEMMA NothingElse ==
  ASSUME IInv, UNCHANGED <<snd, rcv, snd_cnx, rcv_cnx, error>>, events' \in Nat,
         (InTransit \subseteq Packets)', stream_frame_retransmit_queue' \in Seq(StreamFrames)
  PROVE  TypeOK' /\ Streamwise' /\ Counted' /\ ConnectionOK' /\ ~error' /\ Later
<1> USE DEF IInv
<1>1. TypeOK' /\ ConnectionOK' /\ ~error' /\ Streamwise'
  BY DEF TypeOK, ConnectionOK, Streamwise
<1>2. Sent' = Sent /\ Heard' = Heard
  BY DEF Sent, Heard
<1>3. Counted'
  BY <1>2 DEF Counted
<1>4. Later
  BY LaterSame
<1> QED BY <1>1, <1>3, <1>4

(* Only packets and the queue change, and some frames are made of old ones. *)
LEMMA PacketsChange ==
  ASSUME IInv, UNCHANGED <<snd, rcv, snd_cnx, rcv_cnx, error>>, events' \in Nat,
         (InTransit \subseteq Packets)', stream_frame_retransmit_queue' \in Seq(StreamFrames),
         NEW E, \A f \in E : FrameOK(f), OldFrames' \subseteq E \cup OldFrames
  PROVE  IInv'
<1>1. TypeOK' /\ Streamwise' /\ Counted' /\ ConnectionOK' /\ ~error' /\ Later
  BY NothingElse
<1>2. \A f \in E : FrameOK(f)'
  BY DEF FrameOK, EndOf, Ended
<1>3. FramesOK'
  BY <1>1, <1>2, OldFramesOK DEF IInv, FramesOK
<1> QED BY <1>1, <1>3 DEF IInv

(* and, when it brings no new frame, the whole invariant.                  *)
LEMMA PacketsSettle ==
  ASSUME IInv, UNCHANGED <<snd, rcv, snd_cnx, rcv_cnx, error>>, events' \in Nat,
         (InTransit \subseteq Packets)', stream_frame_retransmit_queue' \in Seq(StreamFrames),
         OldFrames' \subseteq OldFrames
  PROVE  IInv'
<1>1. TypeOK' /\ Streamwise' /\ Counted' /\ ConnectionOK' /\ ~error' /\ Later
  BY NothingElse
<1>3. FramesOK'
  BY <1>1, FramesStay DEF IInv
<1> QED BY <1>1, <1>3 DEF IInv

(* Each way in which one packet changes is a Become or a Gone.             *)
LEMMA PacketFields ==
  ASSUME NEW p \in Packets
  PROVE  /\ p.frame \in Frames
         /\ \A n \in {"flying", "arrived", "dropped"} :
              [p EXCEPT !.net = n] \in Packets /\ [p EXCEPT !.net = n].frame = p.frame
         /\ \A n \in {"waiting", "declared", "forgotten"} :
              [p EXCEPT !.snd = n] \in Packets /\ [p EXCEPT !.snd = n].frame = p.frame
         /\ [p EXCEPT !.was_preemptively_repeated = TRUE] \in Packets
         /\ [p EXCEPT !.was_preemptively_repeated = TRUE].frame = p.frame
BY Zenon DEF Packets

(* A packet in transit carries a frame that is in order.                   *)
LEMMA PacketOf ==
  ASSUME IInv, NEW p \in InTransit
  PROVE  p \in Packets /\ p.frame \in Frames /\ FrameOK(p.frame) /\ p.frame \in OldFrames
BY DEF IInv, TypeOK, OldFrames, FramesOK, Packets

(* The network loses a packet.                                             *)
LEMMA LoseStep ==
  ASSUME IInv, NEW p \in InTransit, Lose(p)
  PROVE  IInv'
<1>1. p \in Packets /\ events' \in Nat
  BY PacketOf DEF Lose, Rare, IInv, TypeOK
<1>2. PICK q : q = [p EXCEPT !.net = "dropped"]
  OBVIOUS
<1>3. q \in Packets /\ q.frame = p.frame
  BY <1>1, <1>2, PacketFields
<1>4. UNCHANGED <<snd, rcv, snd_cnx, rcv_cnx, stream_frame_retransmit_queue, error>>
  BY DEF Lose
<1>5. BagToSet(packets') \subseteq InTransit \cup {q}
  <2>1. packets' = Become(p, q) \/ packets' = Gone(p)
    BY <1>2 DEF Lose
  <2> QED BY <2>1, PacketChanges
<1>6. (InTransit \subseteq Packets)' /\ OldFrames' \subseteq OldFrames
  BY <1>3, <1>4, <1>5, PacketChanged DEF IInv, InTransit
<1>7. stream_frame_retransmit_queue' \in Seq(StreamFrames)
  BY <1>4 DEF IInv, TypeOK
<1> QED BY <1>1, <1>4, <1>6, <1>7, PacketsSettle

(* A preemptive repeat sends the same frame again.                         *)
LEMMA PreemptiveRepeatStep ==
  ASSUME IInv, NEW p \in InTransit, PreemptiveRepeat(p)
  PROVE  IInv'
<1>1. p \in Packets /\ p.frame \in Frames /\ FrameOK(p.frame) /\ events' \in Nat
  BY PacketOf DEF PreemptiveRepeat, Rare, IInv, TypeOK
<1>2. PICK q : q = [p EXCEPT !.was_preemptively_repeated = TRUE]
  OBVIOUS
<1>3. q \in Packets /\ q.frame = p.frame
  BY <1>1, <1>2, PacketFields
<1>4. UNCHANGED <<snd, rcv, snd_cnx, rcv_cnx, stream_frame_retransmit_queue, error>>
  BY DEF PreemptiveRepeat
<1>5. BagToSet(packets') \subseteq InTransit \cup {q, Packet(p.frame)}
  <2>1. packets' = Become(p, q) (+) Fresh(p.frame)
    BY <1>2 DEF PreemptiveRepeat
  <2>2. BagToSet(Become(p, q)) \subseteq InTransit \cup {q}
    BY PacketChanges
  <2>3. BagToSet(Fresh(p.frame)) = {Packet(p.frame)}
    BY BagOfSet DEF Fresh, Packet
  <2> QED BY <2>1, <2>2, <2>3, BagSets
<1>6. Packet(p.frame) \in Packets /\ Packet(p.frame).frame = p.frame
  BY <1>1 DEF Packet, Packets
<1>7. (InTransit \subseteq Packets)' /\ OldFrames' \subseteq OldFrames
  BY <1>3, <1>4, <1>5, <1>6 DEF IInv, TypeOK, InTransit, OldFrames
<1>8. stream_frame_retransmit_queue' \in Seq(StreamFrames)
  BY <1>4 DEF IInv, TypeOK
<1> QED BY <1>1, <1>4, <1>7, <1>8, PacketsSettle

(* picoquic_retransmit_needed repeats the frame, or queues it when it      *)
(* carries stream data.                                                    *)
LEMMA DeclareLostStep ==
  ASSUME IInv, NEW p \in InTransit, DeclareLost(p)
  PROVE  IInv'
<1>1. p \in Packets /\ p.frame \in Frames /\ FrameOK(p.frame) /\ p.frame \in OldFrames
  BY PacketOf
<1>2. events' \in Nat /\ UNCHANGED <<snd, rcv, snd_cnx, rcv_cnx, error>>
  BY DEF DeclareLost, Rare, IInv, TypeOK
<1>3. PICK q1, q2 : q1 = [p EXCEPT !.snd = "forgotten"] /\ q2 = [p EXCEPT !.snd = "declared"]
  OBVIOUS
<1>4. q1 \in Packets /\ q1.frame = p.frame /\ q2 \in Packets /\ q2.frame = p.frame
  BY <1>1, <1>3, PacketFields
<1>5. BagToSet(Forget(p)) \subseteq InTransit \cup {q1} /\ BagToSet(Declare(p)) \subseteq InTransit \cup {q2}
  BY <1>3, PacketChanges DEF Forget, Declare
<1>6. Packet(p.frame) \in Packets /\ Packet(p.frame).frame = p.frame
  BY <1>1 DEF Packet, Packets
<1>7. BagToSet(Fresh(p.frame)) = {Packet(p.frame)}
  BY BagOfSet DEF Fresh, Packet
<1>8. BagToSet(packets') \subseteq InTransit \cup {q1, q2, Packet(p.frame)}
  <2>1. \/ packets' = Forget(p) \/ packets' = Declare(p) \/ packets' = Declare(p) (+) Fresh(p.frame)
    BY DEF DeclareLost
  <2> QED BY <1>5, <1>7, <2>1, BagSets
<1>9. (InTransit \subseteq Packets)' /\ \A r \in InTransit' : r.frame \in OldFrames
  BY <1>1, <1>4, <1>6, <1>8 DEF IInv, TypeOK, InTransit, OldFrames
<1>10. /\ stream_frame_retransmit_queue' \in Seq(StreamFrames)
       /\ \A i \in DOMAIN stream_frame_retransmit_queue' : stream_frame_retransmit_queue'[i] \in OldFrames
  <2>1. stream_frame_retransmit_queue \in Seq(StreamFrames)
    BY DEF IInv, TypeOK
  <2>2. CASE stream_frame_retransmit_queue' = stream_frame_retransmit_queue
    BY <2>1, <2>2 DEF OldFrames
  <2>3. CASE /\ p.frame.type = "stream"
             /\ stream_frame_retransmit_queue' = Append(stream_frame_retransmit_queue, p.frame)
    <3>1. p.frame \in StreamFrames
      BY <1>1, <2>3 DEF Frames, StreamFrames
    <3> QED BY <1>1, <2>1, <2>3, <3>1 DEF OldFrames
  <2> QED BY <2>2, <2>3 DEF DeclareLost
<1>11. OldFrames' \subseteq OldFrames
  BY <1>9, <1>10 DEF OldFrames
<1> QED BY <1>2, <1>9, <1>10, <1>11, PacketsSettle
(* The first frame of a queue, the others, and a frame before those.       *)
LEMMA QueueParts ==
  ASSUME NEW S, NEW q \in Seq(S), q # << >>
  PROVE  /\ Head(q) \in S /\ Head(q) = q[1] /\ 1 \in DOMAIN q
         /\ Tail(q) \in Seq(S)
         /\ \A i \in DOMAIN Tail(q) : i + 1 \in DOMAIN q /\ Tail(q)[i] = q[i + 1]
         /\ \A x \in S : /\ <<x>> \o Tail(q) \in Seq(S)
                         /\ \A i \in DOMAIN (<<x>> \o Tail(q)) :
                              \/ (<<x>> \o Tail(q))[i] = x
                              \/ \E j \in DOMAIN q : (<<x>> \o Tail(q))[i] = q[j]
<1>1. /\ Head(q) \in S /\ Head(q) = q[1] /\ 1 \in DOMAIN q
      /\ Tail(q) \in Seq(S)
      /\ \A i \in DOMAIN Tail(q) : i + 1 \in DOMAIN q /\ Tail(q)[i] = q[i + 1]
  OBVIOUS
<1>2. ASSUME NEW x \in S
      PROVE  /\ <<x>> \o Tail(q) \in Seq(S)
             /\ \A i \in DOMAIN (<<x>> \o Tail(q)) :
                  \/ (<<x>> \o Tail(q))[i] = x
                  \/ \E j \in DOMAIN q : (<<x>> \o Tail(q))[i] = q[j]
  <2>1. PICK t \in Seq(S) : t = Tail(q)
    BY <1>1
  <2>2. <<x>> \o t \in Seq(S)
    OBVIOUS
  <2>3. ASSUME NEW i \in DOMAIN (<<x>> \o t)
        PROVE  (<<x>> \o t)[i] = x \/ (i - 1 \in DOMAIN t /\ (<<x>> \o t)[i] = t[i - 1])
    OBVIOUS
  <2> QED BY <1>1, <2>1, <2>2, <2>3
<1> QED BY <1>1, <1>2

(* The fields of a STREAM frame that is made of given bytes.               *)
LEMMA FrameFields ==
  ASSUME NEW s \in Streams, NEW offset \in Nat, NEW data \in Seq(Nat), NEW fin \in BOOLEAN,
         NEW g, g = StreamFrame(s, offset, data, fin)
  PROVE  /\ g \in StreamFrames /\ g \in Frames /\ g.type = "stream" /\ g.id = s /\ g.fin = fin
         /\ g.offset = offset /\ g.data = data /\ EndOf(g) = offset + Len(data)
BY DEF StreamFrame, StreamFrames, Frames, EndOf

(* picoquic_copy_stream_frame_for_retransmit may cut a queued frame in     *)
(* two; both parts are within the old one.                                 *)
LEMMA SendQueuedStep ==
  ASSUME IInv, NEW length, SendQueued(length)
  PROVE  IInv'
<1>1. PICK queue \in Seq(StreamFrames) : queue = stream_frame_retransmit_queue
  BY DEF IInv, TypeOK
<1>2. PICK f : f = Head(queue)
  OBVIOUS
<1>3. /\ UNCHANGED <<snd, rcv, snd_cnx, rcv_cnx, error>> /\ events' \in Nat
      /\ queue # << >>
  BY <1>1 DEF SendQueued, IInv, TypeOK
<1>4. /\ f \in StreamFrames /\ f = queue[1] /\ 1 \in DOMAIN queue
      /\ Tail(queue) \in Seq(StreamFrames)
      /\ \A i \in DOMAIN Tail(queue) : i + 1 \in DOMAIN queue /\ Tail(queue)[i] = queue[i + 1]
      /\ \A x \in StreamFrames :
           /\ <<x>> \o Tail(queue) \in Seq(StreamFrames)
           /\ \A i \in DOMAIN (<<x>> \o Tail(queue)) :
                \/ (<<x>> \o Tail(queue))[i] = x
                \/ \E j \in DOMAIN queue : (<<x>> \o Tail(queue))[i] = queue[j]
  BY <1>2, <1>3, QueueParts
<1>5. f \in OldFrames /\ f \in Frames /\ FrameOK(f)
  BY <1>1, <1>4 DEF OldFrames, IInv, FramesOK, Frames
<1>6. CASE packets' = packets /\ stream_frame_retransmit_queue' = Tail(queue)
  <2>1. (InTransit \subseteq Packets)' /\ stream_frame_retransmit_queue' \in Seq(StreamFrames)
    BY <1>4, <1>6 DEF IInv, TypeOK, InTransit
  <2>2. OldFrames' \subseteq OldFrames
    BY <1>1, <1>4, <1>6 DEF OldFrames, InTransit
  <2> QED BY <1>3, <2>1, <2>2, PacketsSettle
<1>7. ASSUME NEW g \in Frames, packets' = packets (+) Fresh(g)
      PROVE  (InTransit \subseteq Packets)' /\ {p.frame : p \in InTransit}' \subseteq {g} \cup OldFrames
  <2>1. Packet(g) \in Packets /\ Packet(g).frame = g
    BY DEF Packet, Packets
  <2>2. InTransit' = InTransit \cup {Packet(g)}
    BY <1>7, PacketChanges DEF InTransit
  <2> QED BY <2>1, <2>2 DEF IInv, TypeOK, OldFrames
<1>8. CASE packets' = packets (+) Fresh(f) /\ stream_frame_retransmit_queue' = Tail(queue)
  <2>1. (InTransit \subseteq Packets)' /\ stream_frame_retransmit_queue' \in Seq(StreamFrames)
    BY <1>4, <1>5, <1>7, <1>8
  <2>2. OldFrames' \subseteq OldFrames
    <3>1. {p.frame : p \in InTransit}' \subseteq OldFrames
      BY <1>5, <1>7, <1>8
    <3>2. \A i \in DOMAIN stream_frame_retransmit_queue' :
             \E j \in DOMAIN queue : stream_frame_retransmit_queue'[i] = queue[j]
      BY <1>4, <1>8
    <3> QED BY <1>1, <3>1, <3>2 DEF OldFrames
  <2> QED BY <1>3, <2>1, <2>2, PacketsSettle
<1>9. CASE /\ length \in 1..(Len(f.data) - 1)
           /\ packets' = packets (+) Fresh(StreamFrame(f.id, f.offset, SubSeq(f.data, 1, length), FALSE))
           /\ stream_frame_retransmit_queue' = <<Rest(f, length)>> \o Tail(queue)
  <2>1. /\ length \in Nat /\ length <= Len(f.data) /\ Len(f.data) \in Nat
        /\ f.offset \in Nat /\ f.fin \in BOOLEAN
    BY <1>4, <1>9 DEF StreamFrames
  <2>2. PICK g : g = StreamFrame(f.id, f.offset, SubSeq(f.data, 1, length), FALSE)
    OBVIOUS
  <2>3. PICK h : h = Rest(f, length)
    OBVIOUS
  <2>4. g \in Frames /\ g.type = "stream" /\ g.id = f.id /\ g.fin = FALSE /\ EndOf(g) = f.offset + length
    <3>1. /\ SubSeq(f.data, 1, length) \in Seq(Nat) /\ Len(SubSeq(f.data, 1, length)) = length
          /\ f.id \in Streams
      BY <1>4, <2>1 DEF StreamFrames
    <3>2. PICK d \in Seq(Nat) : d = SubSeq(f.data, 1, length) /\ Len(d) = length
      BY <3>1
    <3>3. g = StreamFrame(f.id, f.offset, d, FALSE)
      BY <2>2, <3>2
    <3>4. /\ g \in Frames /\ g.type = "stream" /\ g.id = f.id /\ g.fin = FALSE
          /\ EndOf(g) = f.offset + Len(d)
      <4>1. PICK i \in Streams : i = f.id
        BY <3>1
      <4>2. PICK b \in BOOLEAN : b = FALSE
        OBVIOUS
      <4>3. PICK o \in Nat : o = f.offset
        BY <2>1
      <4>4. g = StreamFrame(i, o, d, b)
        BY <3>3, <4>1, <4>2, <4>3, Zenon
      <4>5. g \in Frames /\ g.type = "stream" /\ g.id = i /\ g.fin = b /\ EndOf(g) = o + Len(d)
        BY <4>4, FrameFields
      <4> QED BY <4>1, <4>2, <4>3, <4>5, Zenon
    <3> QED BY <3>2, <3>4
  <2>5. /\ h \in StreamFrames /\ h.type = "stream" /\ h.id = f.id /\ h.fin = f.fin
        /\ EndOf(h) = f.offset + Len(f.data)
    <3>1. /\ SubSeq(f.data, length + 1, Len(f.data)) \in Seq(Nat) /\ f.id \in Streams
          /\ Len(SubSeq(f.data, length + 1, Len(f.data))) = Len(f.data) - length
      BY <1>4, <2>1 DEF StreamFrames
    <3>2. PICK d \in Seq(Nat) :
            d = SubSeq(f.data, length + 1, Len(f.data)) /\ Len(d) = Len(f.data) - length
      BY <3>1
    <3>3. PICK o \in Nat : o = f.offset + length
      BY <2>1
    <3>4. o + Len(d) = f.offset + Len(f.data)
      BY <2>1, <3>2, <3>3
    <3>5. h = StreamFrame(f.id, o, d, f.fin)
      BY <2>3, <3>2, <3>3 DEF Rest
    <3>6. /\ h \in StreamFrames /\ h.type = "stream" /\ h.id = f.id /\ h.fin = f.fin
          /\ EndOf(h) = o + Len(d)
      <4>1. PICK i \in Streams : i = f.id
        BY <3>1
      <4>2. PICK b \in BOOLEAN : b = f.fin
        BY <2>1
      <4> QED BY <3>5, <4>1, <4>2, FrameFields
    <3> QED BY <3>4, <3>6
  <2>6. FrameOK(g) /\ FrameOK(h)
    <3>1. f.type = "stream" /\ EndOf(f) = f.offset + Len(f.data) /\ f.id \in Streams
      BY <1>4 DEF StreamFrames, EndOf
    <3>2. snd[f.id].sent_offset \in Nat
      BY <3>1 DEF IInv, TypeOK, SndStream
    <3>3. EndOf(f) <= snd[f.id].sent_offset /\ (f.fin => Ended(snd[f.id]) /\ EndOf(f) = snd[f.id].sent_offset)
      BY <1>5, <3>1 DEF FrameOK
    <3>4. EndOf(g) <= snd[f.id].sent_offset
      BY <2>1, <2>4, <3>1, <3>2, <3>3
    <3> QED BY <2>4, <2>5, <3>1, <3>3, <3>4 DEF FrameOK
  <2>7. (InTransit \subseteq Packets)' /\ {p.frame : p \in InTransit}' \subseteq {g} \cup OldFrames
    BY <1>7, <1>9, <2>2, <2>4
  <2>8. stream_frame_retransmit_queue' = <<h>> \o Tail(queue)
    BY <1>9, <2>3
  <2>9. stream_frame_retransmit_queue' \in Seq(StreamFrames)
    BY <1>4, <2>5, <2>8
  <2>10. OldFrames' \subseteq {g, h} \cup OldFrames
    <3>1. \A i \in DOMAIN stream_frame_retransmit_queue' :
             \/ stream_frame_retransmit_queue'[i] = h
             \/ \E j \in DOMAIN queue : stream_frame_retransmit_queue'[i] = queue[j]
      BY <1>4, <2>5, <2>8
    <3> QED BY <1>1, <2>7, <3>1 DEF OldFrames
  <2>11. PICK new : new = {g, h}
    OBVIOUS
  <2>12. (\A e \in new : FrameOK(e)) /\ OldFrames' \subseteq new \cup OldFrames
    BY <2>6, <2>10, <2>11
  <2>13. (InTransit \subseteq Packets)'
    BY <2>7
  <2> QED BY <1>3, <2>9, <2>12, <2>13, PacketsChange
<1>10. \/ packets' = packets /\ stream_frame_retransmit_queue' = Tail(queue)
       \/ packets' = packets (+) Fresh(f) /\ stream_frame_retransmit_queue' = Tail(queue)
       \/ /\ length \in 1..(Len(f.data) - 1)
          /\ packets' = packets (+) Fresh(StreamFrame(f.id, f.offset, SubSeq(f.data, 1, length), FALSE))
          /\ stream_frame_retransmit_queue' = <<Rest(f, length)>> \o Tail(queue)
  BY <1>1, <1>2, Zenon DEF SendQueued
<1> QED BY <1>6, <1>8, <1>9, <1>10
-----------------------------------------------------------------------------
(* Receivers.                                                              *)

RcvCnx ==
  [maxdata_local : Nat, maxdata_local_acked : Nat, data_received : Nat,
   max_stream_data_needed : BOOLEAN]

(* A step of the receiver by which no data arrives.                        *)
LEMMA ReceiversChanged ==
  ASSUME IInv, rcv' \in [Streams -> RcvStream],
         \A s \in Streams : /\ ReceiverOK(rcv'[s], snd[s])
                            /\ rcv'[s].fin_offset = rcv[s].fin_offset
                            /\ rcv[s].maxdata_local <= rcv'[s].maxdata_local,
         rcv_cnx' \in RcvCnx,
         rcv_cnx.maxdata_local <= rcv_cnx'.maxdata_local,
         rcv_cnx'.data_received = rcv_cnx.data_received,
         UNCHANGED <<snd, snd_cnx, error>>, events' \in Nat,
         (InTransit \subseteq Packets)', stream_frame_retransmit_queue' \in Seq(StreamFrames)
  PROVE  TypeOK' /\ Streamwise' /\ Counted' /\ ConnectionOK' /\ ~error' /\ Later
<1> USE DEF IInv
<1>1. Streamwise' /\ ~error'
  BY DEF Streamwise
<1>2. Sent' = Sent /\ Heard' = Heard
  BY DEF Sent, Heard
<1>3. Counted'
  BY <1>2 DEF Counted
<1>4. TypeOK'
  BY DEF TypeOK, RcvCnx
<1>5. Later
  BY DEF Later, Follows, TypeOK, SndStream
<1>6. ConnectionOK'
  <2>1. snd_cnx.maxdata_remote \in Nat /\ rcv_cnx.maxdata_local \in Nat /\ rcv_cnx'.maxdata_local \in Nat
    BY DEF TypeOK, RcvCnx
  <2> QED BY <2>1 DEF ConnectionOK
<1> QED BY <1>1, <1>3, <1>4, <1>5, <1>6

(* One new frame, which the state after the step makes true.               *)
LEMMA OneNewFrame ==
  ASSUME IInv, TypeOK' /\ Streamwise' /\ Counted' /\ ConnectionOK' /\ ~error' /\ Later,
         NEW f, FrameOK(f)', OldFrames' \subseteq {f} \cup OldFrames
  PROVE  IInv'
BY FramesStep DEF IInv

(* MAX_DATA carries the new maxdata_local.                                 *)
LEMMA SendMaxDataStep ==
  ASSUME IInv, SendMaxData
  PROVE  IInv'
<1>1. PICK max : max = rcv_cnx.maxdata_local + IncreasedWindow(rcv_cnx.maxdata_local)
  OBVIOUS
<1>2. rcv_cnx \in RcvCnx /\ rcv_cnx.maxdata_local \in Nat /\ max \in Nat /\ rcv_cnx.maxdata_local <= max
  BY <1>1 DEF IInv, TypeOK, RcvCnx, IncreasedWindow
<1>3. PICK f : f = [type |-> "max_data", max |-> max]
  OBVIOUS
<1>4. f \in Frames /\ f.type = "max_data" /\ f.max = max
  BY <1>2, <1>3 DEF Frames
<1>5. /\ rcv_cnx' = [rcv_cnx EXCEPT !.maxdata_local = max] /\ packets' = packets (+) Fresh(f)
      /\ UNCHANGED <<snd, rcv, snd_cnx, stream_frame_retransmit_queue, error, events>>
  BY <1>1, <1>3 DEF SendMaxData
<1>6. rcv_cnx' \in RcvCnx /\ rcv_cnx'.maxdata_local = max /\ rcv_cnx'.data_received = rcv_cnx.data_received
  BY <1>2, <1>5, Zenon DEF RcvCnx
<1>7. InTransit' = InTransit \cup {Packet(f)}
  BY <1>5, PacketChanges DEF InTransit
<1>8. (InTransit \subseteq Packets)' /\ OldFrames' \subseteq {f} \cup OldFrames
  BY <1>4, <1>5, <1>7, OnePacketMore DEF IInv
<1>9. /\ rcv' \in [Streams -> RcvStream] /\ events' \in Nat
      /\ stream_frame_retransmit_queue' \in Seq(StreamFrames)
  BY <1>5 DEF IInv, TypeOK
<1>10. \A s \in Streams : /\ ReceiverOK(rcv'[s], snd[s])
                          /\ rcv'[s].fin_offset = rcv[s].fin_offset
                          /\ rcv[s].maxdata_local <= rcv'[s].maxdata_local
  BY <1>5 DEF IInv, Streamwise, TypeOK, RcvStream
<1>11. TypeOK' /\ Streamwise' /\ Counted' /\ ConnectionOK' /\ ~error' /\ Later
  BY <1>2, <1>5, <1>6, <1>8, <1>9, <1>10, ReceiversChanged
<1>12. FrameOK(f)'
  BY <1>2, <1>4, <1>6 DEF FrameOK
<1> QED BY <1>8, <1>11, <1>12, OneNewFrame

(* One stream of the receiver changes, none of its offsets.                *)
LEMMA ReceiverChanged ==
  ASSUME IInv, NEW s \in Streams, NEW r \in RcvStream, rcv' = [rcv EXCEPT ![s] = r],
         ReceiverOK(r, snd[s]), r.fin_offset = rcv[s].fin_offset,
         rcv[s].maxdata_local <= r.maxdata_local,
         rcv_cnx' \in RcvCnx,
         rcv_cnx.maxdata_local <= rcv_cnx'.maxdata_local,
         rcv_cnx'.data_received = rcv_cnx.data_received,
         UNCHANGED <<snd, snd_cnx, error>>, events' \in Nat,
         (InTransit \subseteq Packets)', stream_frame_retransmit_queue' \in Seq(StreamFrames)
  PROVE  TypeOK' /\ Streamwise' /\ Counted' /\ ConnectionOK' /\ ~error' /\ Later
<1>1. rcv' \in [Streams -> RcvStream] /\ rcv'[s] = r /\ \A t \in Streams \ {s} : rcv'[t] = rcv[t]
  BY DEF IInv, TypeOK
<1>2. \A t \in Streams : /\ ReceiverOK(rcv'[t], snd[t])
                         /\ rcv'[t].fin_offset = rcv[t].fin_offset
                         /\ rcv[t].maxdata_local <= rcv'[t].maxdata_local
  <2> TAKE t \in Streams
  <2>1. CASE t = s
    BY <1>1, <2>1
  <2>2. CASE t # s
    <3>1. rcv'[t] = rcv[t] /\ rcv[t].maxdata_local \in Nat
      BY <1>1, <2>2 DEF IInv, TypeOK, RcvStream
    <3> QED BY <3>1 DEF IInv, Streamwise
  <2> QED BY <2>1, <2>2
<1> QED BY <1>1, <1>2, ReceiversChanged

(* A step on a stream that leaves the connection of the receiver alone.    *)
LEMMA SameConnection ==
  ASSUME IInv, UNCHANGED rcv_cnx
  PROVE  /\ rcv_cnx' \in RcvCnx /\ rcv_cnx.maxdata_local <= rcv_cnx'.maxdata_local
         /\ rcv_cnx'.data_received = rcv_cnx.data_received
BY DEF IInv, TypeOK, RcvCnx

(* picoquic_stop_sending changes no credit.                                *)
LEMMA StopSendingStep ==
  ASSUME IInv, NEW s \in Streams, StopSending(s)
  PROVE  IInv'
<1>1. PICK r \in RcvStream : r = rcv[s]
  BY DEF IInv, TypeOK
<1>2. PICK q : q = [r EXCEPT !.stop_sending_requested = TRUE]
  OBVIOUS
<1>3. /\ q \in RcvStream /\ q.consumed_offset = r.consumed_offset /\ q.fin_offset = r.fin_offset
      /\ q.fin_received = r.fin_received /\ q.reset_received = r.reset_received
      /\ q.fin_signalled = r.fin_signalled /\ q.maxdata_local = r.maxdata_local
  BY <1>2, Zenon DEF RcvStream
<1>4. /\ rcv' = [rcv EXCEPT ![s] = q] /\ events' \in Nat
      /\ UNCHANGED <<snd, snd_cnx, rcv_cnx, stream_frame_retransmit_queue, packets, error>>
  BY <1>1, <1>2 DEF StopSending, Rare, IInv, TypeOK
<1>5. ReceiverOK(q, snd[s]) /\ r.maxdata_local <= q.maxdata_local
  BY <1>1, <1>3 DEF IInv, Streamwise, ReceiverOK, RcvStream
<1>6. /\ (InTransit \subseteq Packets)' /\ OldFrames' \subseteq OldFrames
      /\ stream_frame_retransmit_queue' \in Seq(StreamFrames)
  BY <1>4, NoPackets
<1>7. TypeOK' /\ Streamwise' /\ Counted' /\ ConnectionOK' /\ ~error' /\ Later
  BY <1>1, <1>3, <1>4, <1>5, <1>6, SameConnection, ReceiverChanged
<1> QED BY <1>6, <1>7, FramesStay DEF IInv

(* Nor does sending STOP_SENDING.                                          *)
LEMMA SendStopSendingStep ==
  ASSUME IInv, NEW s \in Streams, SendStopSending(s)
  PROVE  IInv'
<1>1. PICK r \in RcvStream : r = rcv[s]
  BY DEF IInv, TypeOK
<1>2. PICK q : q = [r EXCEPT !.stop_sending_sent = TRUE]
  OBVIOUS
<1>3. /\ q \in RcvStream /\ q.consumed_offset = r.consumed_offset /\ q.fin_offset = r.fin_offset
      /\ q.fin_received = r.fin_received /\ q.reset_received = r.reset_received
      /\ q.fin_signalled = r.fin_signalled /\ q.maxdata_local = r.maxdata_local
  BY <1>2, Zenon DEF RcvStream
<1>4. /\ rcv' = [rcv EXCEPT ![s] = q] /\ events' \in Nat
      /\ UNCHANGED <<snd, snd_cnx, rcv_cnx, stream_frame_retransmit_queue, error>>
      /\ stream_frame_retransmit_queue' \in Seq(StreamFrames)
  BY <1>1, <1>2 DEF SendStopSending, IInv, TypeOK
<1>5. ReceiverOK(q, snd[s]) /\ r.maxdata_local <= q.maxdata_local
  BY <1>1, <1>3 DEF IInv, Streamwise, ReceiverOK, RcvStream
<1>6. PICK f : f = [type |-> "stop_sending", id |-> s]
  OBVIOUS
<1>7. f \in Frames /\ f.type = "stop_sending" /\ FrameOK(f)'
  BY <1>6 DEF Frames, FrameOK
<1>8. packets' = packets \/ packets' = packets (+) Fresh(f)
  BY <1>6 DEF SendStopSending
<1>9. (InTransit \subseteq Packets)' /\ OldFrames' \subseteq {f} \cup OldFrames
  <2>1. CASE packets' = packets
    BY <1>4, <2>1, NoPackets
  <2>2. CASE packets' = packets (+) Fresh(f)
    <3>1. InTransit' = InTransit \cup {Packet(f)}
      BY <2>2, PacketChanges DEF InTransit
    <3> QED BY <1>4, <1>7, <3>1, OnePacketMore DEF IInv
  <2> QED BY <1>8, <2>1, <2>2
<1>10. TypeOK' /\ Streamwise' /\ Counted' /\ ConnectionOK' /\ ~error' /\ Later
  BY <1>1, <1>3, <1>4, <1>5, <1>9, SameConnection, ReceiverChanged
<1> QED BY <1>7, <1>9, <1>10, OneNewFrame

(* picoquic_open_flow_control raises maxdata_local.                        *)
LEMMA OpenFlowControlStep ==
  ASSUME IInv, NEW s \in Streams, OpenFlowControl(s)
  PROVE  IInv'
<1>1. PICK r \in RcvStream : r = rcv[s]
  BY DEF IInv, TypeOK
<1>2. PICK stream, cnx : stream = r.consumed_offset + Expected /\ cnx = rcv_cnx.maxdata_local + Expected
  OBVIOUS
<1>3. /\ Expected \in Nat /\ rcv_cnx \in RcvCnx
  BY StreamTransferAssumption DEF IInv, TypeOK, RcvCnx
<1>4. r.consumed_offset \in Nat /\ r.maxdata_local \in Nat /\ rcv_cnx.maxdata_local \in Nat
  BY <1>3 DEF RcvStream, RcvCnx
<1>5. stream > r.maxdata_local
  BY <1>1, <1>2 DEF OpenFlowControl
<1>6. /\ stream \in Nat /\ r.maxdata_local <= stream
      /\ cnx \in Nat /\ rcv_cnx.maxdata_local <= cnx
  BY <1>2, <1>3, <1>4, <1>5
<1>7. PICK q : q = [r EXCEPT !.maxdata_local = stream]
  OBVIOUS
<1>8. /\ q \in RcvStream /\ q.consumed_offset = r.consumed_offset /\ q.fin_offset = r.fin_offset
      /\ q.fin_received = r.fin_received /\ q.reset_received = r.reset_received
      /\ q.fin_signalled = r.fin_signalled /\ q.maxdata_local = stream
  BY <1>6, <1>7, Zenon DEF RcvStream
<1>9. PICK f, g : /\ f = [type |-> "max_stream_data", id |-> s, max |-> stream]
                  /\ g = [type |-> "max_data", max |-> cnx]
  OBVIOUS
<1>10. /\ f \in Frames /\ f.type = "max_stream_data" /\ f.id = s /\ f.max = stream
       /\ g \in Frames /\ g.type = "max_data" /\ g.max = cnx
  BY <1>6, <1>9 DEF Frames
<1>11. /\ rcv' = [rcv EXCEPT ![s] = q] /\ rcv_cnx' = [rcv_cnx EXCEPT !.maxdata_local = cnx]
       /\ packets' = (packets (+) Fresh(f)) (+) Fresh(g)
       /\ UNCHANGED <<snd, snd_cnx, stream_frame_retransmit_queue, error>>
  BY <1>1, <1>2, <1>7, <1>9 DEF OpenFlowControl
<1>12. events' \in Nat /\ stream_frame_retransmit_queue' \in Seq(StreamFrames)
  BY <1>11 DEF OpenFlowControl, Rare, IInv, TypeOK
<1>13. rcv_cnx' \in RcvCnx /\ rcv_cnx'.maxdata_local = cnx /\ rcv_cnx'.data_received = rcv_cnx.data_received
  BY <1>3, <1>6, <1>11, Zenon DEF RcvCnx
<1>14. ReceiverOK(q, snd[s])
  <2>1. ReceiverOK(r, snd[s]) /\ snd[s].maxdata_remote \in Nat
    BY <1>1 DEF IInv, Streamwise, TypeOK, SndStream
  <2>2. snd[s].maxdata_remote <= q.maxdata_local
    BY <1>4, <1>6, <1>8, <2>1 DEF ReceiverOK
  <2> QED BY <1>8, <2>1, <2>2 DEF ReceiverOK
<1>15. InTransit' = InTransit \cup {Packet(f), Packet(g)}
  <2>1. BagToSet(Fresh(g)) = {Packet(g)}
    BY BagOfSet DEF Fresh, Packet
  <2>2. BagToSet(packets (+) Fresh(f)) = InTransit \cup {Packet(f)}
    BY PacketChanges
  <2> QED BY <1>11, <2>1, <2>2, BagSets DEF InTransit
<1>16. /\ Packet(f) \in Packets /\ Packet(f).frame = f
       /\ Packet(g) \in Packets /\ Packet(g).frame = g
  BY <1>10 DEF Packet, Packets
<1>17. (InTransit \subseteq Packets)' /\ OldFrames' \subseteq {f, g} \cup OldFrames
  BY <1>11, <1>15, <1>16 DEF IInv, TypeOK, OldFrames
<1>18. TypeOK' /\ Streamwise' /\ Counted' /\ ConnectionOK' /\ ~error' /\ Later
  BY <1>1, <1>6, <1>8, <1>11, <1>12, <1>13, <1>14, <1>17, ReceiverChanged
<1>19. FrameOK(f)' /\ FrameOK(g)'
  <2>1. rcv'[s].maxdata_local = stream
    BY <1>8, <1>11 DEF IInv, TypeOK
  <2> QED BY <1>6, <1>10, <1>13, <2>1 DEF FrameOK
<1>20. FramesOK'
  BY <1>17, <1>18, <1>19, OldFramesOK DEF IInv, FramesOK
<1> QED BY <1>18, <1>20 DEF IInv

(* MAX_STREAM_DATA carries the new maxdata_local of a stream.              *)
LEMMA SendMaxStreamDataStep ==
  ASSUME IInv, SendMaxStreamData
  PROVE  IInv'
<1> DEFINE Credit(s) == [type |-> "max_stream_data", id |-> s, max |-> Raised(s)]
           needing == {s \in Streams : NeedsCredit(s)}
           new == {Credit(s) : s \in needing}
<1>1. \A s \in Streams : rcv[s] \in RcvStream /\ Raised(s) \in Nat /\ rcv[s].maxdata_local <= Raised(s)
  <2> TAKE s \in Streams
  <2>1. rcv[s] \in RcvStream
    BY DEF IInv, TypeOK
  <2>2. rcv[s].maxdata_local \in Nat
    BY <2>1 DEF RcvStream
  <2> QED BY <2>1, <2>2 DEF Raised, IncreasedWindow
<1>2. /\ rcv' = [s \in Streams |->
                   IF NeedsCredit(s) THEN [rcv[s] EXCEPT !.maxdata_local = Raised(s)] ELSE rcv[s]]
      /\ rcv_cnx' = [rcv_cnx EXCEPT !.max_stream_data_needed = FALSE]
      /\ UNCHANGED <<snd, snd_cnx, stream_frame_retransmit_queue, error, events>>
      /\ packets' = packets (+) BagUnion({Fresh(Credit(s)) : s \in needing})
  BY DEF SendMaxStreamData
<1>3. \A s \in Streams : /\ rcv'[s] \in RcvStream
                         /\ rcv'[s].consumed_offset = rcv[s].consumed_offset
                         /\ rcv'[s].fin_offset = rcv[s].fin_offset
                         /\ rcv'[s].fin_received = rcv[s].fin_received
                         /\ rcv'[s].reset_received = rcv[s].reset_received
                         /\ rcv'[s].fin_signalled = rcv[s].fin_signalled
                         /\ rcv'[s].maxdata_local = IF s \in needing THEN Raised(s) ELSE rcv[s].maxdata_local
  <2> TAKE s \in Streams
  <2>1. PICK r \in RcvStream : r = rcv[s]
    BY <1>1
  <2>2. PICK max \in Nat : max = Raised(s)
    BY <1>1
  <2>3. PICK q : q = [r EXCEPT !.maxdata_local = max]
    OBVIOUS
  <2>4. /\ q \in RcvStream /\ q.consumed_offset = r.consumed_offset /\ q.fin_offset = r.fin_offset
        /\ q.fin_received = r.fin_received /\ q.reset_received = r.reset_received
        /\ q.fin_signalled = r.fin_signalled /\ q.maxdata_local = max
    BY <2>3, Zenon DEF RcvStream
  <2>5. rcv'[s] = IF s \in needing THEN q ELSE r
    BY <1>2, <2>1, <2>2, <2>3
  <2> QED BY <2>1, <2>2, <2>4, <2>5
<1>4. /\ \A s \in Streams : /\ ReceiverOK(rcv'[s], snd[s])
                            /\ rcv'[s].fin_offset = rcv[s].fin_offset
                            /\ rcv[s].maxdata_local <= rcv'[s].maxdata_local
      /\ rcv' \in [Streams -> RcvStream]
  <2>1. rcv' \in [Streams -> RcvStream]
    BY <1>2, <1>3
  <2>2. ASSUME NEW s \in Streams
        PROVE  /\ ReceiverOK(rcv'[s], snd[s])
               /\ rcv'[s].fin_offset = rcv[s].fin_offset
               /\ rcv[s].maxdata_local <= rcv'[s].maxdata_local
    <3>1. ReceiverOK(rcv[s], snd[s]) /\ snd[s].maxdata_remote \in Nat /\ rcv[s].maxdata_local \in Nat
      BY <1>1 DEF IInv, Streamwise, TypeOK, SndStream, RcvStream
    <3>2. rcv[s].maxdata_local <= rcv'[s].maxdata_local /\ rcv'[s].maxdata_local \in Nat
      <4>1. CASE s \in needing
        BY <1>1, <1>3, <4>1
      <4>2. CASE s \notin needing
        <5>1. rcv'[s].maxdata_local = rcv[s].maxdata_local
          BY <1>3, <4>2
        <5> QED BY <3>1, <5>1
      <4> QED BY <4>1, <4>2
    <3>3. snd[s].maxdata_remote <= rcv'[s].maxdata_local
      BY <3>1, <3>2 DEF ReceiverOK
    <3> HIDE DEF needing
    <3> QED BY <1>3, <3>1, <3>2, <3>3 DEF ReceiverOK
  <2> QED BY <2>1, <2>2
<1>5. /\ rcv_cnx' \in RcvCnx /\ rcv_cnx.maxdata_local <= rcv_cnx'.maxdata_local
      /\ rcv_cnx'.data_received = rcv_cnx.data_received
  <2>1. rcv_cnx \in RcvCnx /\ rcv_cnx.maxdata_local \in Nat
    BY DEF IInv, TypeOK, RcvCnx
  <2>2. /\ rcv_cnx' \in RcvCnx /\ rcv_cnx'.maxdata_local = rcv_cnx.maxdata_local
        /\ rcv_cnx'.data_received = rcv_cnx.data_received
    BY <1>2, <2>1, Zenon DEF RcvCnx
  <2> QED BY <2>1, <2>2
<1>6. InTransit' = InTransit \cup {Packet(Credit(s)) : s \in needing}
  <2>1. InTransit' = InTransit \cup BagToSet(BagUnion({Fresh(Credit(s)) : s \in needing}))
    BY <1>2, BagSets DEF InTransit
  <2>2. BagToSet(BagUnion({Fresh(Credit(s)) : s \in needing}))
          = UNION {BagToSet(B) : B \in {Fresh(Credit(s)) : s \in needing}}
    BY BagOfAll_
  <2>3. \A f : BagToSet(Fresh(f)) = {Packet(f)}
    BY BagOfSet DEF Fresh, Packet
  <2> HIDE DEF Credit, needing
  <2> QED BY <2>1, <2>2, <2>3
<1>7. \A s \in Streams : Credit(s) \in Frames /\ Packet(Credit(s)) \in Packets /\ Packet(Credit(s)).frame = Credit(s)
  BY <1>1 DEF Packet, Packets, Frames
<1>8. (InTransit \subseteq Packets)' /\ OldFrames' \subseteq new \cup OldFrames
  <2> HIDE DEF Credit
  <2> QED BY <1>2, <1>6, <1>7 DEF IInv, TypeOK, OldFrames
<1>9. stream_frame_retransmit_queue' \in Seq(StreamFrames) /\ events' \in Nat
  BY <1>2 DEF IInv, TypeOK
<1>10. TypeOK' /\ Streamwise' /\ Counted' /\ ConnectionOK' /\ ~error' /\ Later
  BY <1>2, <1>4, <1>5, <1>8, <1>9, ReceiversChanged
<1>11. ASSUME NEW f \in new PROVE FrameOK(f)'
  <2>1. PICK s \in needing : f = Credit(s)
    OBVIOUS
  <2>2. f.type = "max_stream_data" /\ f.id = s /\ f.max = Raised(s)
    BY <2>1
  <2>3. rcv'[s].maxdata_local = Raised(s) /\ Raised(s) \in Nat
    BY <1>1, <1>3, <2>1
  <2> QED BY <2>2, <2>3 DEF FrameOK
<1>12. FramesOK'
  <2> HIDE DEF new
  <2> QED BY <1>8, <1>10, <1>11, OldFramesOK DEF IInv, FramesOK
<1> QED BY <1>10, <1>12 DEF IInv
-----------------------------------------------------------------------------
(* Acknowledgements.                                                       *)

(* picoquic_process_ack_of_stream_frame leaves offsets and limits alone.   *)
LEMMA AckFields ==
  ASSUME NEW st \in SndStream, NEW f \in StreamFrames, NEW q, q = AckOfStreamFrame(st, f)
  PROVE  /\ q \in SndStream
         /\ q.sent_offset = st.sent_offset /\ q.fin_sent = st.fin_sent
         /\ q.written = st.written /\ q.fin_requested = st.fin_requested
         /\ q.is_active = st.is_active /\ q.maxdata_remote = st.maxdata_remote
         /\ q.reset_requested = st.reset_requested /\ q.reset_sent = st.reset_sent
<1>1. Positions(f) \subseteq Nat
  BY DEF Positions, StreamFrames
<1>2. PICK P : P = Positions(f)
  OBVIOUS
<1>3. PICK r : r = [st EXCEPT !.sack_list = @ \cup P]
  OBVIOUS
<1>4. st.sack_list \cup P \in SUBSET Nat
  BY <1>1, <1>2 DEF SndStream
<1>5. /\ r \in SndStream /\ r.reset_sent = st.reset_sent /\ r.fin_sent = st.fin_sent
      /\ r.sent_offset = st.sent_offset /\ r.written = st.written
      /\ r.fin_requested = st.fin_requested /\ r.is_active = st.is_active
      /\ r.maxdata_remote = st.maxdata_remote /\ r.reset_requested = st.reset_requested
  BY <1>3, <1>4, Zenon DEF SndStream
<1>6. q = DeletedIfClosed(r)
  BY <1>2, <1>3 DEF AckOfStreamFrame
<1> QED BY <1>5, <1>6, DeletedFields

(* The larger of two numbers.                                              *)
LEMMA LargerType ==
  ASSUME NEW a \in Nat, NEW b \in Nat
  PROVE  Larger(a, b) \in Nat /\ a <= Larger(a, b) /\ (Larger(a, b) = a \/ Larger(a, b) = b)
BY DEF Larger

(* The ACK of a packet changes no credit.                                  *)
LEMMA AckArrivesStep ==
  ASSUME IInv, NEW p \in InTransit, AckArrives(p)
  PROVE  IInv'
<1>1. PICK f : f = p.frame
  OBVIOUS
<1>2. f \in Frames
  BY <1>1, PacketOf
<1>3. /\ packets' = Gone(p) /\ Acked(f)
      /\ UNCHANGED <<snd_cnx, stream_frame_retransmit_queue, error, events>>
  BY <1>1 DEF AckArrives
<1>4. /\ (InTransit \subseteq Packets)' /\ OldFrames' \subseteq OldFrames
      /\ events' \in Nat /\ stream_frame_retransmit_queue' \in Seq(StreamFrames)
  <2>1. InTransit' \subseteq InTransit
    BY <1>3, PacketChanges DEF InTransit
  <2> QED BY <1>3, <2>1 DEF IInv, TypeOK, OldFrames
<1>5. CASE f.type = "stream"
  <2>1. f \in StreamFrames /\ f.id \in Streams
    BY <1>2, <1>5 DEF Frames, StreamFrames
  <2>2. UNCHANGED <<rcv, rcv_cnx>>
    BY <1>3, <1>5 DEF Acked
  <2>3. CASE snd[f.id].exists
    <3>1. PICK st \in SndStream : st = snd[f.id]
      BY <2>1 DEF IInv, TypeOK
    <3>2. PICK q : q = AckOfStreamFrame(st, f)
      OBVIOUS
    <3>3. /\ q \in SndStream
          /\ q.sent_offset = st.sent_offset /\ q.fin_sent = st.fin_sent
          /\ q.written = st.written /\ q.fin_requested = st.fin_requested
          /\ q.is_active = st.is_active /\ q.maxdata_remote = st.maxdata_remote
          /\ q.reset_requested = st.reset_requested /\ q.reset_sent = st.reset_sent
      BY <2>1, <3>2, AckFields
    <3>4. snd' = [snd EXCEPT ![f.id] = q]
      BY <1>3, <1>5, <2>3, <3>1, <3>2 DEF Acked
    <3>5. /\ SenderOK(st) /\ st.maxdata_remote <= rcv[f.id].maxdata_local /\ st.sent_offset \in Nat
      BY <2>1, <3>1 DEF IInv, Streamwise, ReceiverOK, SndStream
    <3>6. SenderOK(q) /\ Follows(st, q)
      BY <3>3, <3>5 DEF SenderOK, Follows, Ended
    <3> QED BY <1>3, <1>4, <2>1, <2>2, <3>1, <3>3, <3>4, <3>5, <3>6, SenderQuiet
  <2>4. CASE ~snd[f.id].exists
    <3>1. UNCHANGED snd
      BY <1>3, <2>4 DEF Acked
    <3> QED BY <1>3, <1>4, <2>2, <3>1, PacketsSettle
  <2> QED BY <2>3, <2>4
<1>6. CASE f.type = "max_stream_data"
  <2>1. f.id \in Streams /\ f.max \in Nat
    BY <1>2, <1>6 DEF Frames, StreamFrames
  <2>2. PICK r \in RcvStream : r = rcv[f.id]
    BY <2>1 DEF IInv, TypeOK
  <2>3. PICK max \in Nat : max = Larger(r.maxdata_local_acked, f.max)
    BY <2>1, LargerType DEF RcvStream
  <2>4. PICK q : q = [r EXCEPT !.maxdata_local_acked = max]
    OBVIOUS
  <2>5. /\ q \in RcvStream /\ q.consumed_offset = r.consumed_offset /\ q.fin_offset = r.fin_offset
        /\ q.fin_received = r.fin_received /\ q.reset_received = r.reset_received
        /\ q.fin_signalled = r.fin_signalled /\ q.maxdata_local = r.maxdata_local
    BY <2>4, Zenon DEF RcvStream
  <2>6. UNCHANGED <<snd, snd_cnx, rcv_cnx, error>> /\ rcv' = [rcv EXCEPT ![f.id] = q]
    BY <1>3, <1>6, <2>2, <2>3, <2>4 DEF Acked
  <2>7. ReceiverOK(q, snd[f.id]) /\ r.maxdata_local <= q.maxdata_local
    BY <2>1, <2>2, <2>5 DEF IInv, Streamwise, ReceiverOK, RcvStream
  <2>8. TypeOK' /\ Streamwise' /\ Counted' /\ ConnectionOK' /\ ~error' /\ Later
    BY <1>4, <2>1, <2>2, <2>5, <2>6, <2>7, SameConnection, ReceiverChanged
  <2> QED BY <1>4, <2>8, FramesStay DEF IInv
<1>7. CASE f.type = "max_data"
  <2>1. f.max \in Nat
    BY <1>2, <1>7 DEF Frames, StreamFrames
  <2>2. PICK c \in RcvCnx : c = rcv_cnx
    BY DEF IInv, TypeOK, RcvCnx
  <2>3. PICK max \in Nat : max = Larger(c.maxdata_local_acked, f.max)
    BY <2>1, LargerType DEF RcvCnx
  <2>4. UNCHANGED <<snd, rcv, snd_cnx, error>> /\ rcv_cnx' = [c EXCEPT !.maxdata_local_acked = max]
    BY <1>3, <1>7, <2>2, <2>3 DEF Acked
  <2>5. /\ rcv_cnx' \in RcvCnx /\ rcv_cnx'.maxdata_local = c.maxdata_local
        /\ rcv_cnx'.data_received = c.data_received
    BY <2>4, Zenon DEF RcvCnx
  <2>6. c.maxdata_local <= rcv_cnx'.maxdata_local
    BY <2>5 DEF RcvCnx
  <2>7. /\ rcv' \in [Streams -> RcvStream]
        /\ \A s \in Streams : /\ ReceiverOK(rcv'[s], snd[s])
                              /\ rcv'[s].fin_offset = rcv[s].fin_offset
                              /\ rcv[s].maxdata_local <= rcv'[s].maxdata_local
    BY <2>4 DEF IInv, Streamwise, TypeOK, RcvStream
  <2>8. TypeOK' /\ Streamwise' /\ Counted' /\ ConnectionOK' /\ ~error' /\ Later
    BY <1>4, <2>2, <2>4, <2>5, <2>6, <2>7, ReceiversChanged
  <2> QED BY <1>4, <2>8, FramesStay DEF IInv
<1>8. CASE f.type \notin {"stream", "max_stream_data", "max_data"}
  <2>1. UNCHANGED <<snd, rcv, snd_cnx, rcv_cnx, error>>
    BY <1>3, <1>8 DEF Acked
  <2> QED BY <1>3, <1>4, <2>1, PacketsSettle
<1> QED BY <1>5, <1>6, <1>7, <1>8

-----------------------------------------------------------------------------
(* Credit that arrives.                                                    *)

(* A delivery brings no new frame.                                         *)
LEMMA DeliveredPacket ==
  ASSUME IInv, NEW p \in InTransit, Deliver(p)
  PROVE  /\ (InTransit \subseteq Packets)' /\ OldFrames' \subseteq OldFrames
         /\ stream_frame_retransmit_queue' \in Seq(StreamFrames) /\ events' \in Nat
<1>1. PICK q : q = [p EXCEPT !.net = "arrived"]
  OBVIOUS
<1>2. p \in Packets
  BY PacketOf
<1>3. q \in Packets /\ q.frame = p.frame
  BY <1>1, <1>2, PacketFields
<1>4. packets' = Gone(p) \/ packets' = Become(p, q)
  BY <1>1 DEF Deliver
<1>5. InTransit' \subseteq InTransit \cup {q}
  BY <1>4, PacketChanges DEF InTransit
<1>6. UNCHANGED <<stream_frame_retransmit_queue, events>>
  BY DEF Deliver
<1> QED BY <1>3, <1>5, <1>6, PacketChanged DEF IInv, TypeOK

(* The limit that MAX_DATA tells is one that was granted.                  *)
LEMMA ReceiveMaxDataStep ==
  ASSUME IInv, NEW p \in InTransit, Deliver(p), p.frame.type = "max_data"
  PROVE  IInv'
<1>1. PICK f : f = p.frame
  OBVIOUS
<1>2. f \in Frames /\ FrameOK(f) /\ f.type = "max_data"
  BY <1>1, PacketOf
<1>3. f.max \in Nat /\ f.max <= rcv_cnx.maxdata_local
  BY <1>2 DEF Frames, StreamFrames, FrameOK
<1>4. PICK c \in [maxdata_remote : Nat, data_sent : Nat] : c = snd_cnx
  BY DEF IInv, TypeOK
<1>5. PICK max \in Nat : /\ max = Larger(c.maxdata_remote, f.max)
                         /\ c.maxdata_remote <= max /\ (max = c.maxdata_remote \/ max = f.max)
  BY <1>3, LargerType
<1>6. /\ snd_cnx' = [c EXCEPT !.maxdata_remote = max]
      /\ UNCHANGED <<snd, rcv, rcv_cnx, error>>
  BY <1>1, <1>2, <1>4, <1>5 DEF Deliver, ReceiveCredit
<1>7. /\ snd_cnx' \in [maxdata_remote : Nat, data_sent : Nat]
      /\ snd_cnx'.maxdata_remote = max /\ snd_cnx'.data_sent = c.data_sent
  BY <1>6, Zenon
<1>8. ConnectionOK'
  <2>1. /\ c.data_sent \in Nat /\ c.maxdata_remote \in Nat /\ rcv_cnx.maxdata_local \in Nat
        /\ c.data_sent <= c.maxdata_remote /\ c.maxdata_remote <= rcv_cnx.maxdata_local
    BY <1>4 DEF IInv, TypeOK, ConnectionOK
  <2> QED BY <1>3, <1>5, <1>6, <1>7, <2>1 DEF ConnectionOK
<1>9. /\ (InTransit \subseteq Packets)' /\ OldFrames' \subseteq OldFrames
      /\ stream_frame_retransmit_queue' \in Seq(StreamFrames) /\ events' \in Nat
  BY DeliveredPacket
<1>10. TypeOK' /\ Streamwise' /\ ~error'
  BY <1>6, <1>7, <1>9 DEF IInv, TypeOK, Streamwise
<1>11. Counted'
  <2>1. Sent' = Sent /\ Heard' = Heard
    BY <1>6 DEF Sent, Heard
  <2> QED BY <1>4, <1>6, <1>7, <2>1 DEF IInv, Counted
<1>12. Later
  BY <1>6, LaterSame DEF IInv
<1>13. FramesOK'
  BY <1>9, <1>10, <1>12, FramesStay DEF IInv
<1> QED BY <1>8, <1>10, <1>11, <1>13 DEF IInv

(* So is that of MAX_STREAM_DATA.                                          *)
LEMMA ReceiveMaxStreamDataStep ==
  ASSUME IInv, NEW p \in InTransit, Deliver(p), p.frame.type = "max_stream_data"
  PROVE  IInv'
<1>1. PICK f : f = p.frame
  OBVIOUS
<1>2. f \in Frames /\ FrameOK(f) /\ f.type = "max_stream_data"
  BY <1>1, PacketOf
<1>3. f.id \in Streams /\ f.max \in Nat /\ f.max <= rcv[f.id].maxdata_local
  BY <1>2 DEF Frames, StreamFrames, FrameOK
<1>4. PICK st \in SndStream : st = snd[f.id]
  BY <1>3 DEF IInv, TypeOK
<1>5. PICK max \in Nat : /\ max = IF st.exists THEN Larger(st.maxdata_remote, f.max) ELSE st.maxdata_remote
                         /\ st.maxdata_remote <= max /\ (max = st.maxdata_remote \/ max = f.max)
  <2>1. st.maxdata_remote \in Nat
    BY DEF SndStream
  <2> QED BY <1>3, <2>1, LargerType
<1>6. PICK q : q = [st EXCEPT !.maxdata_remote = max]
  OBVIOUS
<1>7. /\ q \in SndStream
      /\ q.sent_offset = st.sent_offset /\ q.fin_sent = st.fin_sent /\ q.written = st.written
      /\ q.fin_requested = st.fin_requested /\ q.is_active = st.is_active
      /\ q.maxdata_remote = max
      /\ q.reset_requested = st.reset_requested /\ q.reset_sent = st.reset_sent
  BY <1>6, Zenon DEF SndStream
<1>8. snd' = [snd EXCEPT ![f.id] = q] /\ UNCHANGED <<rcv, snd_cnx, rcv_cnx, error>>
  BY <1>1, <1>2, <1>4, <1>5, <1>6 DEF Deliver, ReceiveCredit
<1>9. /\ SenderOK(st) /\ st.maxdata_remote <= rcv[f.id].maxdata_local
      /\ st.sent_offset \in Nat /\ st.maxdata_remote \in Nat
  BY <1>3, <1>4 DEF IInv, Streamwise, ReceiverOK, SndStream
<1>10. Follows(st, q) /\ q.maxdata_remote <= rcv[f.id].maxdata_local
  BY <1>3, <1>5, <1>7, <1>9 DEF Follows, Ended
<1>11. SenderOK(q)
  <2>1. q.sent_offset <= q.maxdata_remote
    BY <1>5, <1>7, <1>9 DEF SenderOK
  <2> QED BY <1>7, <1>9, <2>1 DEF SenderOK, Ended
<1> QED BY <1>3, <1>4, <1>7, <1>8, <1>10, <1>11, DeliveredPacket, SenderQuiet

(* STOP_SENDING makes the application reset the stream.                    *)
LEMMA ReceiveStopSendingStep ==
  ASSUME IInv, NEW p \in InTransit, Deliver(p), p.frame.type = "stop_sending"
  PROVE  IInv'
<1>1. PICK f : f = p.frame
  OBVIOUS
<1>2. f \in Frames /\ f.type = "stop_sending"
  BY <1>1, PacketOf
<1>3. f.id \in Streams
  BY <1>2 DEF Frames, StreamFrames
<1>4. PICK st \in SndStream : st = snd[f.id]
  BY <1>3 DEF IInv, TypeOK
<1>5. PICK b \in BOOLEAN : b = (st.stop_sending_received \/ (st.exists /\ ~st.reset_requested /\ ~st.fin_sent))
  OBVIOUS
<1>6. PICK q : q = [st EXCEPT !.stop_sending_received = b]
  OBVIOUS
<1>7. /\ q \in SndStream
      /\ q.sent_offset = st.sent_offset /\ q.fin_sent = st.fin_sent /\ q.written = st.written
      /\ q.fin_requested = st.fin_requested /\ q.is_active = st.is_active
      /\ q.maxdata_remote = st.maxdata_remote
      /\ q.reset_requested = st.reset_requested /\ q.reset_sent = st.reset_sent
  BY <1>6, Zenon DEF SndStream
<1>8. snd' = [snd EXCEPT ![f.id] = q] /\ UNCHANGED <<rcv, snd_cnx, rcv_cnx, error>>
  BY <1>1, <1>2, <1>4, <1>5, <1>6 DEF Deliver, ReceiveStopSending
<1>9. SenderOK(st) /\ st.maxdata_remote <= rcv[f.id].maxdata_local /\ st.sent_offset \in Nat
  BY <1>3, <1>4 DEF IInv, Streamwise, ReceiverOK, SndStream
<1>10. SenderOK(q) /\ Follows(st, q)
  BY <1>7, <1>9 DEF SenderOK, Follows, Ended
<1> QED BY <1>3, <1>4, <1>7, <1>8, <1>9, <1>10, DeliveredPacket, SenderQuiet
-----------------------------------------------------------------------------
(* Data that arrives.                                                      *)

(* What has been sent is within what the receiver checks.                  *)
LEMMA NoFlowControlError ==
  ASSUME IInv, NEW s \in Streams, NEW offset \in Nat, offset <= snd[s].sent_offset
  PROVE  ~FlowControlError(rcv[s], offset)
<1>1. snd \in [Streams -> SndStream] /\ rcv \in [Streams -> RcvStream]
  BY DEF IInv, TypeOK
<1>2. /\ snd[s].sent_offset \in Nat /\ snd[s].maxdata_remote \in Nat
      /\ rcv[s].maxdata_local \in Nat /\ rcv[s].fin_offset \in Nat
  BY <1>1 DEF SndStream, RcvStream
<1>3. snd[s].sent_offset <= snd[s].maxdata_remote /\ snd[s].maxdata_remote <= rcv[s].maxdata_local
  BY DEF IInv, Streamwise, SenderOK, ReceiverOK
<1>4. offset <= rcv[s].maxdata_local
  BY <1>2, <1>3
<1>5. CASE offset <= rcv[s].fin_offset
  BY <1>2, <1>4, <1>5 DEF FlowControlError
<1>6. CASE offset > rcv[s].fin_offset
  <2>1. PICK n \in Nat : n = offset - rcv[s].fin_offset
    BY <1>2, <1>6
  <2>2. PICK g : g = [Heard EXCEPT ![s] = offset]
    OBVIOUS
  <2>3. /\ Heard \in [Streams -> Nat] /\ Sent \in [Streams -> Nat] /\ g \in [Streams -> Nat]
        /\ g[s] = offset /\ Heard[s] = rcv[s].fin_offset
        /\ \A t \in Streams \ {s} : g[t] = Heard[t]
    BY <1>1, <2>2 DEF Heard, Sent, RcvStream, SndStream
  <2>4. \A t \in Streams : g[t] <= Sent[t] /\ Heard[t] <= Sent[t]
    <3>1. \A t \in Streams : Heard[t] <= Sent[t]
      BY <1>1 DEF IInv, Streamwise, ReceiverOK, Heard, Sent
    <3>2. g[s] <= Sent[s]
      BY <2>3 DEF Sent
    <3> QED BY <2>3, <3>1, <3>2
  <2>5. IsFiniteSet(Cells(Sent)) /\ IsFiniteSet(Cells(Heard))
    <3>1. IsFiniteSet(Cells(Sent))
      BY DEF IInv, Counted
    <3> QED BY <2>3, <2>4, <3>1, CellsWithin
  <2>6. g[s] = Heard[s] + n
    BY <1>2, <2>1, <2>3
  <2>7. Cardinality(Cells(g)) = Cardinality(Cells(Heard)) + n
    <3>1. Heard \in [Streams -> Nat] /\ g \in [Streams -> Nat] /\ \A t \in Streams \ {s} : g[t] = Heard[t]
      BY <2>3
    <3>2. IsFiniteSet(Cells(Heard))
      BY <2>5
    <3>3. PICK h \in [Streams -> Nat] : h = Heard
      BY <3>1
    <3>4. g[s] = h[s] + n /\ (\A t \in Streams \ {s} : g[t] = h[t]) /\ IsFiniteSet(Cells(h))
      BY <2>6, <3>1, <3>2, <3>3
    <3> QED BY <3>1, <3>3, <3>4, CellsAdd
  <2>8. Cardinality(Cells(g)) <= Cardinality(Cells(Sent))
    BY <2>3, <2>4, <2>5, CellsWithin, Zenon
  <2>9. rcv_cnx.data_received + n <= snd_cnx.data_sent
    BY <2>7, <2>8 DEF IInv, Counted
  <2>10. /\ snd_cnx.data_sent <= snd_cnx.maxdata_remote
         /\ snd_cnx.maxdata_remote <= rcv_cnx.maxdata_local
         /\ snd_cnx.data_sent \in Nat /\ snd_cnx.maxdata_remote \in Nat
         /\ rcv_cnx.maxdata_local \in Nat /\ rcv_cnx.data_received \in Nat
    BY DEF IInv, ConnectionOK, TypeOK
  <2>11. rcv_cnx.data_received + (offset - rcv[s].fin_offset) <= rcv_cnx.maxdata_local
    BY <2>1, <2>9, <2>10
  <2> QED BY <1>2, <1>4, <2>10, <2>11 DEF FlowControlError
<1> QED BY <1>2, <1>5, <1>6

(* The new bytes of a frame are those beyond fin_offset.                   *)
LEMMA NewBytesType ==
  ASSUME NEW r \in RcvStream, NEW offset \in Nat
  PROVE  /\ NewBytes(r, offset) \in Nat
         /\ r.fin_offset + NewBytes(r, offset) = IF offset > r.fin_offset THEN offset ELSE r.fin_offset
BY DEF NewBytes, RcvStream

(* What picoquic_flow_control_check_stream_offset changes of a stream.     *)
LEMMA CommittedFields ==
  ASSUME NEW r \in RcvStream, NEW offset \in Nat
  PROVE  LET q == Committed(r, offset) IN
         /\ q \in RcvStream
         /\ q.fin_offset = IF offset > r.fin_offset THEN offset ELSE r.fin_offset
         /\ q.consumed_offset = r.consumed_offset /\ q.stream_data_tree = r.stream_data_tree
         /\ q.fin_received = r.fin_received /\ q.fin_signalled = r.fin_signalled
         /\ q.reset_received = r.reset_received /\ q.maxdata_local = r.maxdata_local
         /\ q.stop_sending_requested = r.stop_sending_requested /\ q.delivered = r.delivered
<1>1. PICK m \in Nat : /\ m = r.fin_offset + NewBytes(r, offset)
                       /\ m = IF offset > r.fin_offset THEN offset ELSE r.fin_offset
  BY NewBytesType DEF RcvStream
<1>2. PICK q : q = [r EXCEPT !.exists = TRUE, !.fin_offset = m]
  OBVIOUS
<1>3. Committed(r, offset) = q
  BY <1>1, <1>2 DEF Committed
<1>4. /\ q \in RcvStream /\ q.fin_offset = m
      /\ q.consumed_offset = r.consumed_offset /\ q.stream_data_tree = r.stream_data_tree
      /\ q.fin_received = r.fin_received /\ q.fin_signalled = r.fin_signalled
      /\ q.reset_received = r.reset_received /\ q.maxdata_local = r.maxdata_local
      /\ q.stop_sending_requested = r.stop_sending_requested /\ q.delivered = r.delivered
  BY <1>2, Zenon DEF RcvStream
<1> QED BY <1>1, <1>3, <1>4

(* The final size of a RESET_STREAM is within the limits and not below     *)
(* what was received: no error.                                            *)
LEMMA ReceiveResetStep ==
  ASSUME IInv, NEW p \in InTransit, Deliver(p), p.frame.type = "reset"
  PROVE  IInv'
<1>1. PICK f : f = p.frame
  OBVIOUS
<1>2. f \in Frames /\ FrameOK(f) /\ f.type = "reset"
  BY <1>1, PacketOf
<1>3. PICK s \in Streams : s = f.id
  BY <1>2 DEF Frames, StreamFrames
<1>4. PICK final \in Nat : final = f.final
  BY <1>2 DEF Frames, StreamFrames
<1>5. PICK r \in RcvStream : r = rcv[s]
  BY DEF IInv, TypeOK
<1>6. PICK st \in SndStream : st = snd[s]
  BY DEF IInv, TypeOK
<1>7. st.reset_sent /\ final = st.sent_offset /\ ReceiverOK(r, st)
  BY <1>2, <1>3, <1>4, <1>5, <1>6 DEF FrameOK, IInv, Streamwise
<1>8. st.sent_offset \in Nat /\ r.fin_offset \in Nat
  BY DEF SndStream, RcvStream
<1>9. ~FlowControlError(r, final) /\ ((r.fin_received \/ r.reset_received) => final = r.fin_offset)
  <2>1. final <= snd[s].sent_offset
    BY <1>6, <1>7, <1>8
  <2> QED BY <1>5, <1>7, <2>1, NoFlowControlError DEF ReceiverOK
<1>10. PICK c : c = Committed(r, final)
  OBVIOUS
<1>11. PICK n \in Nat : /\ n = NewBytes(r, final)
                        /\ r.fin_offset + n = IF final > r.fin_offset THEN final ELSE r.fin_offset
  BY NewBytesType
<1>12. /\ c \in RcvStream
       /\ c.fin_offset = IF final > r.fin_offset THEN final ELSE r.fin_offset
       /\ c.consumed_offset = r.consumed_offset
       /\ c.fin_received = r.fin_received /\ c.fin_signalled = r.fin_signalled
       /\ c.reset_received = r.reset_received /\ c.maxdata_local = r.maxdata_local
  BY <1>10, CommittedFields
<1>13. c.fin_offset = r.fin_offset + n
  BY <1>11, <1>12
<1>14. PICK q : q = [c EXCEPT !.reset_received = TRUE]
  OBVIOUS
<1>15. /\ q \in RcvStream /\ q.fin_offset = c.fin_offset
       /\ q.consumed_offset = c.consumed_offset
       /\ q.fin_received = c.fin_received /\ q.fin_signalled = c.fin_signalled
       /\ q.reset_received /\ q.maxdata_local = c.maxdata_local
  BY <1>14, <1>12, Zenon DEF RcvStream
<1>16. /\ rcv' = [rcv EXCEPT ![s] = q]
       /\ rcv_cnx' = [rcv_cnx EXCEPT !.data_received = @ + n]
       /\ UNCHANGED <<snd, snd_cnx, error>>
  BY <1>1, <1>2, <1>3, <1>4, <1>5, <1>9, <1>10, <1>14, <1>11 DEF Deliver, ReceiveReset
<1>17. q.fin_offset = st.sent_offset
  <2>1. r.fin_offset <= st.sent_offset
    BY <1>7 DEF ReceiverOK
  <2> QED BY <1>7, <1>8, <1>15, <1>12, <2>1
<1>18. ReceiverOK(q, st)
  <2>1. /\ st.maxdata_remote <= q.maxdata_local /\ q.consumed_offset <= q.fin_offset
        /\ q.fin_offset <= st.sent_offset
    <3>1. r.consumed_offset \in Nat /\ r.consumed_offset <= r.fin_offset /\ r.fin_offset <= st.sent_offset
      BY <1>7 DEF ReceiverOK, RcvStream
    <3> QED BY <1>7, <1>8, <1>15, <1>17, <1>12, <3>1 DEF ReceiverOK
  <2>2. q.fin_received => Ended(st) /\ q.fin_offset = st.sent_offset
    BY <1>7, <1>15, <1>17, <1>12, Zenon DEF ReceiverOK
  <2>3. q.fin_signalled => q.fin_received /\ q.consumed_offset = q.fin_offset
    BY <1>7, <1>15, <1>17, <1>12 DEF ReceiverOK
  <2> QED BY <1>7, <1>17, <2>1, <2>2, <2>3 DEF ReceiverOK
<1>19. /\ rcv_cnx' \in RcvCnx /\ rcv_cnx'.data_received = rcv_cnx.data_received + n
       /\ rcv_cnx.maxdata_local <= rcv_cnx'.maxdata_local
  <2>1. PICK old \in RcvCnx : old = rcv_cnx
    BY DEF IInv, TypeOK, RcvCnx
  <2>2. PICK m \in Nat : m = old.data_received + n
    BY DEF RcvCnx
  <2>3. /\ rcv_cnx' = [old EXCEPT !.data_received = m]
    BY <1>16, <2>1, <2>2
  <2>4. rcv_cnx' \in RcvCnx /\ rcv_cnx'.data_received = m /\ rcv_cnx'.maxdata_local = old.maxdata_local
    BY <2>3, Zenon DEF RcvCnx
  <2> QED BY <2>1, <2>2, <2>4 DEF RcvCnx
<1>20. r.maxdata_local <= q.maxdata_local
  BY <1>15, <1>12 DEF RcvStream
<1>21. rcv' \in [Streams -> RcvStream] /\ Streamwise' /\ Counted' /\ Later
  BY <1>5, <1>6, <1>13, <1>15, <1>11, <1>16, <1>18, <1>19, <1>20, ReceiverStep DEF IInv
<1>22. /\ (InTransit \subseteq Packets)' /\ OldFrames' \subseteq OldFrames
       /\ stream_frame_retransmit_queue' \in Seq(StreamFrames) /\ events' \in Nat
  BY DeliveredPacket
<1>23. TypeOK' /\ ~error'
  BY <1>16, <1>19, <1>21, <1>22 DEF IInv, TypeOK, RcvCnx
<1>24. ConnectionOK'
  <2>1. snd_cnx.maxdata_remote \in Nat /\ rcv_cnx.maxdata_local \in Nat /\ rcv_cnx'.maxdata_local \in Nat
    BY <1>19 DEF IInv, TypeOK, RcvCnx
  <2> QED BY <1>16, <1>19, <2>1 DEF IInv, ConnectionOK
<1>25. FramesOK'
  BY <1>21, <1>22, <1>23, FramesStay DEF IInv
<1> QED BY <1>21, <1>23, <1>24, <1>25 DEF IInv
(* The stream with the new offset and end, before the data is looked at.   *)
Informed(r, f) == [Committed(r, EndOf(f)) EXCEPT !.fin_received = @ \/ f.fin]

Piece(f, i) == [offset |-> i[1], data |-> SubSeq(f.data, i[1] - f.offset + 1, i[2] - f.offset + 1)]

(* The fields of a STREAM frame and where it ends.                         *)
LEMMA EndType ==
  ASSUME NEW f \in StreamFrames
  PROVE  /\ f.offset \in Nat /\ f.data \in Seq(Nat) /\ Len(f.data) \in Nat /\ f.fin \in BOOLEAN
         /\ f.id \in Streams /\ EndOf(f) \in Nat /\ EndOf(f) = f.offset + Len(f.data)
BY DEF StreamFrames, EndOf

(* What a frame tells of the end of its stream.                            *)
LEMMA InformedFields ==
  ASSUME NEW r \in RcvStream, NEW f \in StreamFrames
  PROVE  LET q == Informed(r, f) IN
         /\ q \in RcvStream
         /\ q.fin_offset = IF EndOf(f) > r.fin_offset THEN EndOf(f) ELSE r.fin_offset
         /\ q.fin_received = (r.fin_received \/ f.fin)
         /\ q.consumed_offset = r.consumed_offset /\ q.stream_data_tree = r.stream_data_tree
         /\ q.fin_signalled = r.fin_signalled
         /\ q.reset_received = r.reset_received /\ q.maxdata_local = r.maxdata_local
         /\ q.stop_sending_requested = r.stop_sending_requested /\ q.delivered = r.delivered
<1>1. PICK e \in Nat : e = EndOf(f)
  BY EndType
<1>2. f.fin \in BOOLEAN
  BY EndType
<1>3. PICK c : c = Committed(r, e)
  OBVIOUS
<1>4. /\ c \in RcvStream
      /\ c.fin_offset = IF e > r.fin_offset THEN e ELSE r.fin_offset
      /\ c.consumed_offset = r.consumed_offset /\ c.stream_data_tree = r.stream_data_tree
      /\ c.fin_received = r.fin_received /\ c.fin_signalled = r.fin_signalled
      /\ c.reset_received = r.reset_received /\ c.maxdata_local = r.maxdata_local
      /\ c.stop_sending_requested = r.stop_sending_requested /\ c.delivered = r.delivered
  BY <1>3, CommittedFields
<1>5. PICK b \in BOOLEAN : b = (c.fin_received \/ f.fin)
  OBVIOUS
<1>6. PICK q : q = [c EXCEPT !.fin_received = b]
  OBVIOUS
<1>7. Informed(r, f) = q
  BY <1>1, <1>3, <1>5, <1>6 DEF Informed
<1>8. /\ q \in RcvStream /\ q.fin_offset = c.fin_offset
      /\ q.consumed_offset = c.consumed_offset /\ q.stream_data_tree = c.stream_data_tree
      /\ q.fin_received = b /\ q.fin_signalled = c.fin_signalled
      /\ q.reset_received = c.reset_received /\ q.maxdata_local = c.maxdata_local
      /\ q.stop_sending_requested = c.stop_sending_requested /\ q.delivered = c.delivered
  BY <1>4, <1>6, Zenon DEF RcvStream
<1>9. q.fin_received = (r.fin_received \/ f.fin)
  BY <1>4, <1>5, <1>8, Zenon
<1> QED BY <1>1, <1>4, <1>7, <1>8, <1>9

(* A piece that picoquic_queue_network_input keeps is within the frame and *)
(* after what was consumed.                                                *)
LEMMA PieceType ==
  ASSUME NEW r \in RcvStream, NEW f \in StreamFrames, NEW i \in Runs(NewPositions(r, f))
  PROVE  /\ i[1] \in Nat /\ i[2] \in Nat /\ i[1] <= i[2]
         /\ f.offset <= i[1] /\ i[2] < EndOf(f) /\ r.consumed_offset <= i[1]
         /\ Piece(f, i) \in Node
<1>1. i[1] \in NewPositions(r, f) /\ i[2] \in NewPositions(r, f) /\ i[1] <= i[2]
  BY DEF Runs
<1>2. f.offset \in Nat /\ f.data \in Seq(Nat) /\ Len(f.data) \in Nat /\ EndOf(f) = f.offset + Len(f.data)
  BY EndType
<1>3. /\ i[1] \in Nat /\ i[2] \in Nat
      /\ f.offset <= i[1] /\ i[2] < EndOf(f) /\ r.consumed_offset <= i[1]
  BY <1>1, <1>2 DEF NewPositions
<1>4. PICK a, b \in Nat : a = i[1] - f.offset + 1 /\ b = i[2] - f.offset + 1
  BY <1>1, <1>2, <1>3
<1>5. 1 <= a /\ b <= Len(f.data)
  <2>1. PICK j, k \in Nat : j = i[1] /\ k = i[2]
    BY <1>3
  <2>2. PICK l, o \in Nat : l = Len(f.data) /\ o = f.offset
    BY <1>2
  <2>3. a = j - o + 1 /\ b = k - o + 1 /\ o <= j /\ k < o + l
    BY <1>2, <1>3, <1>4, <2>1, <2>2
  <2>4. 1 <= a /\ b <= l
    BY <2>3
  <2> QED BY <2>2, <2>4, Zenon
<1>6. SubSeq(f.data, a, b) \in Seq(Nat)
  <2>1. PICK d \in Seq(Nat) : d = f.data
    BY <1>2
  <2>4. b <= Len(d) /\ Len(d) \in Nat
    BY <1>5, <2>1
  <2>2. \A j \in a..b : d[j] \in Nat
    BY <1>4, <1>5, <2>4
  <2>3. SubSeq(d, a, b) \in Seq(Nat)
    BY <1>4, <2>2
  <2> QED BY <2>1, <2>3, Zenon
<1>7. Piece(f, i) \in Node
  BY <1>3, <1>4, <1>6 DEF Piece, Node
<1> QED BY <1>1, <1>3, <1>7

(* picoquic_queue_network_input only adds pieces to the tree.              *)
LEMMA QueuedFields ==
  ASSUME NEW r \in RcvStream, NEW f \in StreamFrames
  PROVE  LET q == Queued(r, f) IN
         /\ q \in RcvStream
         /\ q.stream_data_tree
              = r.stream_data_tree \cup {Piece(f, i) : i \in Runs(NewPositions(r, f))}
         /\ q.fin_offset = r.fin_offset /\ q.fin_received = r.fin_received
         /\ q.consumed_offset = r.consumed_offset /\ q.fin_signalled = r.fin_signalled
         /\ q.reset_received = r.reset_received /\ q.maxdata_local = r.maxdata_local
         /\ q.stop_sending_requested = r.stop_sending_requested /\ q.delivered = r.delivered
<1>1. PICK T : T = r.stream_data_tree \cup {Piece(f, i) : i \in Runs(NewPositions(r, f))}
  OBVIOUS
<1>2. T \in SUBSET Node
  BY <1>1, PieceType DEF RcvStream
<1>3. PICK q : q = [r EXCEPT !.stream_data_tree = T]
  OBVIOUS
<1>4. Queued(r, f) = q
  BY <1>1, <1>3 DEF Queued, Piece
<1>5. /\ q \in RcvStream /\ q.stream_data_tree = T
      /\ q.fin_offset = r.fin_offset /\ q.fin_received = r.fin_received
      /\ q.consumed_offset = r.consumed_offset /\ q.fin_signalled = r.fin_signalled
      /\ q.reset_received = r.reset_received /\ q.maxdata_local = r.maxdata_local
      /\ q.stop_sending_requested = r.stop_sending_requested /\ q.delivered = r.delivered
  BY <1>2, <1>3, Zenon DEF RcvStream
<1> QED BY <1>1, <1>4, <1>5

(* What the callback of one chunk changes: consumed_offset, what the       *)
(* application has, and the end.                                           *)
LEMMA ChunkFields ==
  ASSUME NEW r \in RcvStream, NEW data \in Seq(Nat)
  PROVE  LET q == ChunkCallback(r, data) IN
         /\ q \in RcvStream
         /\ q.consumed_offset = r.consumed_offset + Len(data)
         /\ q.delivered = IF r.stop_sending_requested THEN r.delivered ELSE r.delivered \o data
         /\ q.fin_signalled
              = (r.fin_signalled \/ (q.consumed_offset >= r.fin_offset /\ r.fin_received))
         /\ q.stream_data_tree = r.stream_data_tree
         /\ q.fin_offset = r.fin_offset /\ q.fin_received = r.fin_received
         /\ q.reset_received = r.reset_received /\ q.maxdata_local = r.maxdata_local
         /\ q.stop_sending_requested = r.stop_sending_requested
<1>1. r.consumed_offset \in Nat /\ r.delivered \in Seq(Nat) /\ r.fin_signalled \in BOOLEAN
  BY DEF RcvStream
<1>2. PICK to \in Nat : to = r.consumed_offset + Len(data)
  BY <1>1
<1>3. PICK d \in Seq(Nat) : d = IF r.stop_sending_requested THEN r.delivered ELSE r.delivered \o data
  <2>1. r.delivered \o data \in Seq(Nat)
    BY <1>1
  <2> QED BY <1>1, <2>1
<1>4. PICK b \in BOOLEAN : b = (r.fin_signalled \/ (to >= r.fin_offset /\ r.fin_received))
  OBVIOUS
<1>5. PICK q : q = [r EXCEPT !.consumed_offset = to, !.delivered = d, !.fin_signalled = b]
  OBVIOUS
<1>6. ChunkCallback(r, data) = q
  BY <1>2, <1>3, <1>4, <1>5 DEF ChunkCallback
<1>7. /\ q \in RcvStream /\ q.consumed_offset = to /\ q.delivered = d /\ q.fin_signalled = b
      /\ q.stream_data_tree = r.stream_data_tree
      /\ q.fin_offset = r.fin_offset /\ q.fin_received = r.fin_received
      /\ q.reset_received = r.reset_received /\ q.maxdata_local = r.maxdata_local
      /\ q.stop_sending_requested = r.stop_sending_requested
  BY <1>5, Zenon DEF RcvStream
<1>8. q.fin_signalled = (r.fin_signalled \/ (q.consumed_offset >= r.fin_offset /\ r.fin_received))
  BY <1>4, <1>7, Zenon
<1> QED BY <1>2, <1>3, <1>6, <1>7, <1>8

(* The bytes in the tree from consumed_offset to a reachable offset.       *)
LEMMA HeldType ==
  ASSUME NEW r \in RcvStream, NEW to \in Reachable(r)
  PROVE  /\ to \in Nat /\ r.consumed_offset <= to /\ to <= r.fin_offset
         /\ Held(r, to) \in Seq(Nat) /\ Len(Held(r, to)) = to - r.consumed_offset
<1>1. r.consumed_offset \in Nat /\ r.fin_offset \in Nat
  BY DEF RcvStream
<1>2. to \in Nat /\ r.consumed_offset <= to /\ to <= r.fin_offset
  BY <1>1 DEF Reachable
<1>3. ASSUME NEW i \in r.consumed_offset..(to - 1) PROVE HeldByte(r, i) \in Nat
  <2>1. \E n \in r.stream_data_tree : n.offset <= i /\ i < n.offset + Len(n.data)
    BY <1>3 DEF Reachable, Covered
  <2>2. PICK n : n = CHOOSE m \in r.stream_data_tree : m.offset <= i /\ i < m.offset + Len(m.data)
    OBVIOUS
  <2>3. n \in r.stream_data_tree /\ n.offset <= i /\ i < n.offset + Len(n.data)
    BY <2>1, <2>2, Zenon
  <2>4. n.offset \in Nat /\ n.data \in Seq(Nat)
    BY <2>3 DEF RcvStream, Node
  <2>5. HeldByte(r, i) = n.data[i - n.offset + 1]
    BY <2>2 DEF HeldByte
  <2>6. PICK j : j = i - n.offset + 1
    OBVIOUS
  <2>7. PICK d \in Seq(Nat) : d = n.data
    BY <2>4
  <2>8. j \in 1..Len(d)
    BY <1>1, <2>3, <2>4, <2>6, <2>7
  <2>9. d[j] \in Nat
    BY <2>7, <2>8
  <2> QED BY <2>5, <2>6, <2>7, <2>9, Zenon
<1>4. PICK k \in Nat : k = to - r.consumed_offset
  BY <1>1, <1>2
<1>5. \A j \in 1..k : HeldByte(r, r.consumed_offset + j - 1) \in Nat
  <2> TAKE j \in 1..k
  <2>1. r.consumed_offset + j - 1 \in r.consumed_offset..(to - 1)
    BY <1>1, <1>2, <1>4
  <2> QED BY <1>3, <2>1
<1>6. Held(r, to) = [j \in 1..k |-> HeldByte(r, r.consumed_offset + j - 1)]
  BY <1>4 DEF Held
<1> QED BY <1>2, <1>4, <1>5, <1>6

(* What picoquic_stream_data_callback changes.                             *)
LEMMA CalledFields ==
  ASSUME NEW r \in RcvStream, NEW to \in Reachable(r)
  PROVE  LET q == DataCallback(r, to) IN
         /\ q \in RcvStream /\ q.consumed_offset = to
         /\ q.delivered
              = IF r.stop_sending_requested THEN r.delivered ELSE r.delivered \o Held(r, to)
         /\ q.fin_signalled = (r.fin_signalled \/ (to >= r.fin_offset /\ r.fin_received))
         /\ q.stream_data_tree = {n \in r.stream_data_tree : n.offset > to}
         /\ q.fin_offset = r.fin_offset /\ q.fin_received = r.fin_received
         /\ q.reset_received = r.reset_received /\ q.maxdata_local = r.maxdata_local
         /\ q.stop_sending_requested = r.stop_sending_requested
<1>1. PICK data \in Seq(Nat) : data = Held(r, to)
  BY HeldType
<1>2. PICK c : c = ChunkCallback(r, data)
  OBVIOUS
<1>3. /\ c \in RcvStream
      /\ c.consumed_offset = r.consumed_offset + Len(data)
      /\ c.delivered = IF r.stop_sending_requested THEN r.delivered ELSE r.delivered \o data
      /\ c.fin_signalled
           = (r.fin_signalled \/ (c.consumed_offset >= r.fin_offset /\ r.fin_received))
      /\ c.stream_data_tree = r.stream_data_tree
      /\ c.fin_offset = r.fin_offset /\ c.fin_received = r.fin_received
      /\ c.reset_received = r.reset_received /\ c.maxdata_local = r.maxdata_local
      /\ c.stop_sending_requested = r.stop_sending_requested
  BY <1>2, ChunkFields
<1>4. c.consumed_offset = to
  <2>1. to \in Nat /\ r.consumed_offset <= to /\ Len(data) = to - r.consumed_offset
    BY <1>1, HeldType
  <2>2. r.consumed_offset \in Nat
    BY DEF RcvStream
  <2> QED BY <1>3, <2>1, <2>2
<1>5. PICK T : T = {n \in c.stream_data_tree : n.offset > to}
  OBVIOUS
<1>6. T \in SUBSET Node
  BY <1>3, <1>5 DEF RcvStream
<1>7. PICK q : q = [c EXCEPT !.stream_data_tree = T]
  OBVIOUS
<1>8. DataCallback(r, to) = q
  BY <1>1, <1>2, <1>5, <1>7 DEF DataCallback
<1>9. /\ q \in RcvStream /\ q.stream_data_tree = T /\ q.consumed_offset = c.consumed_offset
      /\ q.delivered = c.delivered /\ q.fin_signalled = c.fin_signalled
      /\ q.fin_offset = c.fin_offset /\ q.fin_received = c.fin_received
      /\ q.reset_received = c.reset_received /\ q.maxdata_local = c.maxdata_local
      /\ q.stop_sending_requested = c.stop_sending_requested
  BY <1>3, <1>6, <1>7, Zenon DEF RcvStream
<1>10. q.fin_signalled = (r.fin_signalled \/ (to >= r.fin_offset /\ r.fin_received))
  BY <1>3, <1>4, <1>9, Zenon
<1>11. q.stream_data_tree = {n \in r.stream_data_tree : n.offset > to}
  BY <1>3, <1>5, <1>9, Zenon
<1> QED BY <1>1, <1>3, <1>4, <1>8, <1>9, <1>10, <1>11

(* The bytes of a frame that continues what is consumed.                   *)
LEMMA UnconsumedType ==
  ASSUME NEW r \in RcvStream, NEW f \in StreamFrames,
         f.offset <= r.consumed_offset, r.consumed_offset <= EndOf(f)
  PROVE  /\ Unconsumed(r, f) \in Seq(Nat)
         /\ Len(Unconsumed(r, f)) = EndOf(f) - r.consumed_offset
<1>1. /\ f.offset \in Nat /\ f.data \in Seq(Nat) /\ Len(f.data) \in Nat
      /\ EndOf(f) = f.offset + Len(f.data) /\ r.consumed_offset \in Nat
  BY EndType DEF RcvStream
<1>2. PICK a \in Nat : a = r.consumed_offset - f.offset + 1
  BY <1>1
<1>3. 1 <= a /\ a <= Len(f.data) + 1 /\ Len(f.data) - a + 1 = EndOf(f) - r.consumed_offset
  BY <1>1, <1>2
<1>4. SubSeq(f.data, a, Len(f.data)) \in Seq(Nat) /\ Len(SubSeq(f.data, a, Len(f.data))) = Len(f.data) - a + 1
  <2>1. PICK d \in Seq(Nat) : d = f.data
    BY <1>1
  <2>2. 1 <= a /\ a <= Len(d) + 1
    BY <1>3, <2>1
  <2>3. SubSeq(d, a, Len(d)) \in Seq(Nat) /\ Len(SubSeq(d, a, Len(d))) = Len(d) - a + 1
    BY <2>2
  <2> QED BY <2>1, <2>3
<1> QED BY <1>2, <1>3, <1>4 DEF Unconsumed

(* What a stream frame does to the offsets of a stream.                    *)
Takes(r, f, q) ==
  /\ q \in RcvStream
  /\ q.fin_offset = IF EndOf(f) > r.fin_offset THEN EndOf(f) ELSE r.fin_offset
  /\ q.fin_received = (r.fin_received \/ f.fin)
  /\ q.reset_received = r.reset_received /\ q.maxdata_local = r.maxdata_local
  /\ r.consumed_offset <= q.consumed_offset /\ q.consumed_offset <= q.fin_offset
  /\ q.fin_signalled =>
       r.fin_signalled \/ (q.fin_received /\ q.consumed_offset = q.fin_offset)

(* A frame in order is taken whole,                                        *)
LEMMA ArrivedTakes ==
  ASSUME NEW r \in RcvStream, NEW f \in StreamFrames, r.consumed_offset <= r.fin_offset
  PROVE  Takes(r, f, Arrived(r, f))
<1>1. PICK c : c = Informed(r, f)
  OBVIOUS
<1>2. /\ c \in RcvStream
      /\ c.fin_offset = IF EndOf(f) > r.fin_offset THEN EndOf(f) ELSE r.fin_offset
      /\ c.fin_received = (r.fin_received \/ f.fin)
      /\ c.consumed_offset = r.consumed_offset /\ c.fin_signalled = r.fin_signalled
      /\ c.reset_received = r.reset_received /\ c.maxdata_local = r.maxdata_local
  BY <1>1, InformedFields
<1>3. /\ f.offset \in Nat /\ EndOf(f) \in Nat
      /\ r.consumed_offset \in Nat /\ r.fin_offset \in Nat
  BY EndType DEF RcvStream
<1>4. c.consumed_offset <= c.fin_offset /\ EndOf(f) <= c.fin_offset /\ c.fin_offset \in Nat
  BY <1>2, <1>3
<1>5. Arrived(r, f) = IF c.consumed_offset < f.offset THEN Queued(c, f)
                      ELSE IF EndOf(f) >= c.consumed_offset THEN ChunkCallback(c, Unconsumed(c, f)) ELSE c
  BY <1>1 DEF Arrived, Informed
<1>6. CASE c.consumed_offset < f.offset
  <2>1. PICK q : q = Queued(c, f)
    OBVIOUS
  <2>2. /\ q \in RcvStream
        /\ q.fin_offset = c.fin_offset /\ q.fin_received = c.fin_received
        /\ q.consumed_offset = c.consumed_offset /\ q.fin_signalled = c.fin_signalled
        /\ q.reset_received = c.reset_received /\ q.maxdata_local = c.maxdata_local
    BY <1>2, <2>1, QueuedFields
  <2>3. Takes(r, f, q)
    <3>1. r.consumed_offset <= q.consumed_offset /\ q.consumed_offset <= q.fin_offset
      BY <1>2, <1>3, <1>4, <2>2
    <3> QED BY <1>2, <2>2, <3>1, Zenon DEF Takes
  <2> QED BY <1>5, <1>6, <2>1, <2>3
<1>7. CASE ~(c.consumed_offset < f.offset) /\ EndOf(f) >= c.consumed_offset
  <2>1. f.offset <= c.consumed_offset /\ c.consumed_offset <= EndOf(f)
    BY <1>2, <1>3, <1>7
  <2>2. PICK data \in Seq(Nat) : data = Unconsumed(c, f) /\ Len(data) = EndOf(f) - c.consumed_offset
    BY <1>2, <2>1, UnconsumedType
  <2>3. PICK q : q = ChunkCallback(c, data)
    OBVIOUS
  <2>4. /\ q \in RcvStream
        /\ q.consumed_offset = c.consumed_offset + Len(data)
        /\ q.fin_signalled
             = (c.fin_signalled \/ (q.consumed_offset >= c.fin_offset /\ c.fin_received))
        /\ q.fin_offset = c.fin_offset /\ q.fin_received = c.fin_received
        /\ q.reset_received = c.reset_received /\ q.maxdata_local = c.maxdata_local
    BY <1>2, <2>3, ChunkFields
  <2>5. q.consumed_offset = EndOf(f)
    BY <1>2, <1>3, <2>2, <2>4
  <2>6. r.consumed_offset <= q.consumed_offset /\ q.consumed_offset <= q.fin_offset
    BY <1>2, <1>3, <1>4, <2>1, <2>4, <2>5
  <2>7. q.consumed_offset >= c.fin_offset => q.consumed_offset = q.fin_offset
    BY <1>3, <1>4, <2>4, <2>5, <2>6
  <2>8. q.fin_signalled =>
          r.fin_signalled \/ (q.fin_received /\ q.consumed_offset = q.fin_offset)
    BY <1>2, <2>4, <2>7, Zenon
  <2>9. Takes(r, f, q)
    BY <1>2, <2>4, <2>6, <2>8, Zenon DEF Takes
  <2> QED BY <1>5, <1>7, <2>2, <2>3, <2>9
<1>8. CASE ~(c.consumed_offset < f.offset) /\ ~(EndOf(f) >= c.consumed_offset)
  <2>1. r.consumed_offset <= c.consumed_offset
    BY <1>2, <1>3
  <2>2. Takes(r, f, c)
    BY <1>2, <1>4, <2>1, Zenon DEF Takes
  <2> QED BY <1>5, <1>8, <2>2
<1> QED BY <1>6, <1>7, <1>8

(* and so is any other: the stream ends where the frame or what was known  *)
(* before ends.                                                            *)
LEMMA InputTakes ==
  ASSUME NEW r \in RcvStream, NEW f \in StreamFrames, r.consumed_offset <= r.fin_offset,
         NEW q \in NetworkInput(r, f)
  PROVE  Takes(r, f, q)
<1>1. PICK a : a = Arrived(r, f)
  OBVIOUS
<1>2. Takes(r, f, a)
  BY <1>1, ArrivedTakes
<1>3. CASE ShouldNotify(r, f)
  <2>1. PICK to \in Reachable(a) : q = DataCallback(a, to)
    BY <1>1, <1>3 DEF NetworkInput
  <2>2. a \in RcvStream
    BY <1>2 DEF Takes
  <2>3. to \in Nat /\ a.consumed_offset <= to /\ to <= a.fin_offset
    BY <2>1, <2>2, HeldType
  <2>4. /\ q \in RcvStream /\ q.consumed_offset = to
        /\ q.fin_signalled = (a.fin_signalled \/ (to >= a.fin_offset /\ a.fin_received))
        /\ q.fin_offset = a.fin_offset /\ q.fin_received = a.fin_received
        /\ q.reset_received = a.reset_received /\ q.maxdata_local = a.maxdata_local
    BY <2>1, <2>2, CalledFields
  <2>5. r.consumed_offset \in Nat /\ a.consumed_offset \in Nat /\ a.fin_offset \in Nat
    BY <2>2 DEF RcvStream
  <2>6. /\ r.consumed_offset <= q.consumed_offset /\ q.consumed_offset <= q.fin_offset
        /\ (to >= a.fin_offset => q.consumed_offset = q.fin_offset)
        /\ (a.consumed_offset = a.fin_offset => q.consumed_offset = q.fin_offset)
    BY <1>2, <2>3, <2>4, <2>5 DEF Takes
  <2>7. q.fin_signalled =>
          r.fin_signalled \/ (q.fin_received /\ q.consumed_offset = q.fin_offset)
    BY <1>2, <2>4, <2>6, Zenon DEF Takes
  <2>8. /\ q.fin_offset = IF EndOf(f) > r.fin_offset THEN EndOf(f) ELSE r.fin_offset
        /\ q.fin_received = (r.fin_received \/ f.fin)
        /\ q.reset_received = r.reset_received /\ q.maxdata_local = r.maxdata_local
    BY <1>2, <2>4, Zenon DEF Takes
  <2> QED BY <2>4, <2>6, <2>7, <2>8, Zenon DEF Takes
<1>4. CASE ~ShouldNotify(r, f)
  BY <1>1, <1>2, <1>4 DEF NetworkInput
<1> QED BY <1>3, <1>4

(* A STREAM frame of a sender within its credit is no error, and its new   *)
(* bytes are counted once.                                                 *)
LEMMA ReceiveStreamStep ==
  ASSUME IInv, NEW p \in InTransit, Deliver(p), p.frame.type = "stream"
  PROVE  IInv'
<1>1. PICK f \in StreamFrames : f = p.frame
  <2>1. p.frame \in Frames
    BY PacketOf
  <2> QED BY <2>1 DEF Frames, StreamFrames
<1>2. FrameOK(f) /\ f.type = "stream"
  BY <1>1, PacketOf
<1>3. PICK s \in Streams : s = f.id
  BY EndType
<1>4. PICK r \in RcvStream : r = rcv[s]
  BY DEF IInv, TypeOK
<1>5. PICK st \in SndStream : st = snd[s]
  BY DEF IInv, TypeOK
<1>6. PICK e \in Nat : e = EndOf(f)
  BY EndType
<1>7. e <= st.sent_offset /\ (f.fin => Ended(st) /\ e = st.sent_offset) /\ ReceiverOK(r, st)
  BY <1>2, <1>3, <1>4, <1>5, <1>6 DEF FrameOK, IInv, Streamwise
<1>8. /\ st.sent_offset \in Nat /\ r.fin_offset \in Nat
      /\ r.consumed_offset \in Nat /\ r.consumed_offset <= r.fin_offset
      /\ r.fin_offset <= st.sent_offset
  BY <1>7 DEF SndStream, RcvStream, ReceiverOK
<1>9. ~InputError(r, f)
  <2>1. ~FlowControlError(r, e)
    BY <1>4, <1>5, <1>7, NoFlowControlError
  <2>2. r.fin_received => r.fin_offset = st.sent_offset
    BY <1>7 DEF ReceiverOK
  <2> QED BY <1>6, <1>7, <1>8, <2>1, <2>2 DEF InputError
<1>10. PICK n \in Nat : /\ n = NewBytes(r, e)
                        /\ r.fin_offset + n = IF e > r.fin_offset THEN e ELSE r.fin_offset
  BY NewBytesType
<1>11. PICK q \in NetworkInput(r, f) :
         /\ rcv' = [rcv EXCEPT ![s] = q]
         /\ rcv_cnx' = [rcv_cnx EXCEPT
              !.data_received = @ + n,
              !.max_stream_data_needed = @ \/ (~q.fin_received /\ ~q.reset_received
                                                 /\ 2 * q.consumed_offset > q.maxdata_local)]
         /\ UNCHANGED error
  BY <1>1, <1>2, <1>3, <1>4, <1>6, <1>9, <1>10 DEF Deliver, ReceiveStream
<1>12. UNCHANGED <<snd, snd_cnx>>
  BY <1>1, <1>2 DEF Deliver
<1>13. Takes(r, f, q)
  BY <1>8, <1>11, InputTakes
<1>14. q \in RcvStream /\ q.fin_offset = r.fin_offset + n
  BY <1>6, <1>10, <1>13 DEF Takes
<1>15. /\ q.fin_offset <= st.sent_offset /\ q.fin_offset \in Nat
       /\ (f.fin => q.fin_offset = st.sent_offset)
       /\ (r.fin_offset = st.sent_offset => q.fin_offset = st.sent_offset)
  BY <1>7, <1>8, <1>10, <1>14
<1>16. q.consumed_offset \in Nat
  BY <1>14 DEF RcvStream
<1>17. ReceiverOK(q, st)
  <2>1. st.maxdata_remote <= q.maxdata_local
    BY <1>7, <1>13 DEF ReceiverOK, Takes
  <2>2. q.consumed_offset <= q.fin_offset
    BY <1>13 DEF Takes
  <2>3. q.fin_received => Ended(st) /\ q.fin_offset = st.sent_offset
    BY <1>7, <1>13, <1>15, Zenon DEF ReceiverOK, Takes
  <2>4. q.reset_received => st.reset_sent /\ q.fin_offset = st.sent_offset
    BY <1>7, <1>13, <1>15, Zenon DEF ReceiverOK, Takes
  <2>5. q.fin_signalled => q.fin_received /\ q.consumed_offset = q.fin_offset
    <3>1. CASE r.fin_signalled
      <4>1. q.fin_received /\ r.consumed_offset = st.sent_offset
        BY <1>7, <1>13, <3>1, Zenon DEF ReceiverOK, Takes
      <4>2. r.consumed_offset <= q.consumed_offset
        BY <1>13 DEF Takes
      <4>3. q.consumed_offset = q.fin_offset
        BY <1>8, <1>15, <1>16, <2>2, <4>1, <4>2
      <4> QED BY <4>1, <4>3
    <3>2. CASE ~r.fin_signalled
      BY <1>13, <3>2, Zenon DEF Takes
    <3> QED BY <3>1, <3>2
  <2> QED BY <1>15, <2>1, <2>2, <2>3, <2>4, <2>5 DEF ReceiverOK
<1>18. /\ rcv_cnx' \in RcvCnx /\ rcv_cnx'.data_received = rcv_cnx.data_received + n
       /\ rcv_cnx.maxdata_local <= rcv_cnx'.maxdata_local
  <2>1. PICK old \in RcvCnx : old = rcv_cnx
    BY DEF IInv, TypeOK, RcvCnx
  <2>2. PICK m \in Nat : m = old.data_received + n
    BY DEF RcvCnx
  <2>3. PICK b \in BOOLEAN : b = (old.max_stream_data_needed \/ (~q.fin_received /\ ~q.reset_received
                                                 /\ 2 * q.consumed_offset > q.maxdata_local))
    OBVIOUS
  <2>4. rcv_cnx' = [old EXCEPT !.data_received = m, !.max_stream_data_needed = b]
    BY <1>11, <2>1, <2>2, <2>3
  <2>5. rcv_cnx' \in RcvCnx /\ rcv_cnx'.data_received = m /\ rcv_cnx'.maxdata_local = old.maxdata_local
    BY <2>4, Zenon DEF RcvCnx
  <2> QED BY <2>1, <2>2, <2>5 DEF RcvCnx
<1>19. r.maxdata_local <= q.maxdata_local
  BY <1>13 DEF Takes, RcvStream
<1>20. rcv' \in [Streams -> RcvStream] /\ Streamwise' /\ Counted' /\ Later
  BY <1>4, <1>5, <1>11, <1>12, <1>14, <1>17, <1>18, <1>19, ReceiverStep DEF IInv
<1>21. /\ (InTransit \subseteq Packets)' /\ OldFrames' \subseteq OldFrames
       /\ stream_frame_retransmit_queue' \in Seq(StreamFrames) /\ events' \in Nat
  BY DeliveredPacket
<1>22. TypeOK' /\ ~error'
  BY <1>11, <1>12, <1>18, <1>20, <1>21 DEF IInv, TypeOK, RcvCnx
<1>23. ConnectionOK'
  <2>1. snd_cnx.maxdata_remote \in Nat /\ rcv_cnx.maxdata_local \in Nat /\ rcv_cnx'.maxdata_local \in Nat
    BY <1>18 DEF IInv, TypeOK, RcvCnx
  <2> QED BY <1>12, <1>18, <2>1 DEF IInv, ConnectionOK
<1>24. FramesOK'
  BY <1>20, <1>21, <1>22, FramesStay DEF IInv
<1> QED BY <1>20, <1>22, <1>23, <1>24 DEF IInv

-----------------------------------------------------------------------------
(* The steps of the specification.                                         *)
LEMMA Initially == Init => IInv
<1> SUFFICES ASSUME Init PROVE IInv
  OBVIOUS
<1>1. /\ \A s \in Streams :
           /\ snd[s] \in SndStream /\ rcv[s] \in RcvStream
           /\ snd[s].sent_offset = 0 /\ rcv[s].fin_offset = 0
           /\ SenderOK(snd[s]) /\ ReceiverOK(rcv[s], snd[s])
      /\ snd \in [Streams -> SndStream] /\ rcv \in [Streams -> RcvStream]
  <2>1. InitialMaxStreamData \in Nat
    BY StreamTransferAssumption
  <2>2. \A s \in Streams : snd[s] \in SndStream /\ rcv[s] \in RcvStream
    BY <2>1 DEF Init, SndStream, RcvStream
  <2>3. snd \in [Streams -> SndStream] /\ rcv \in [Streams -> RcvStream]
    BY <2>2 DEF Init
  <2>4. \A s \in Streams :
           /\ snd[s].sent_offset = 0 /\ rcv[s].fin_offset = 0
           /\ SenderOK(snd[s]) /\ ReceiverOK(rcv[s], snd[s])
    BY <2>1 DEF Init, SenderOK, ReceiverOK
  <2> QED BY <2>2, <2>3, <2>4
<1>2. InTransit = {} /\ stream_frame_retransmit_queue = << >>
  BY BagOfSet DEF Init, InTransit, EmptyBag
<1>3. TypeOK
  <2>1. /\ snd_cnx \in [maxdata_remote : Nat, data_sent : Nat]
        /\ rcv_cnx \in [maxdata_local : Nat, maxdata_local_acked : Nat, data_received : Nat,
                        max_stream_data_needed : BOOLEAN]
    BY StreamTransferAssumption DEF Init
  <2>2. stream_frame_retransmit_queue \in Seq(StreamFrames)
    BY <1>2
  <2>3. InTransit \subseteq Packets /\ error \in BOOLEAN /\ events \in Nat
    BY <1>2 DEF Init
  <2> QED BY <1>1, <2>1, <2>2, <2>3 DEF TypeOK
<1>4. FramesOK
  BY <1>2 DEF FramesOK, OldFrames
<1>5. Counted
  <2>1. Cells(Sent) = {} /\ Cells(Heard) = {}
    BY <1>1 DEF Cells, Sent, Heard
  <2>2. snd_cnx.data_sent = 0 /\ rcv_cnx.data_received = 0
    BY DEF Init
  <2> QED BY <2>1, <2>2, FS_EmptySet DEF Counted
<1>6. ConnectionOK /\ ~error
  BY StreamTransferAssumption DEF Init, ConnectionOK
<1> QED BY <1>1, <1>3, <1>4, <1>5, <1>6 DEF IInv, Streamwise

(* Every step keeps the invariant.                                         *)
LEMMA Inductive == IInv /\ [Next]_vars => IInv'
<1> SUFFICES ASSUME IInv, [Next]_vars PROVE IInv'
  OBVIOUS
<1>1. CASE UNCHANGED vars
  <2>1. UNCHANGED <<snd, rcv, snd_cnx, rcv_cnx, stream_frame_retransmit_queue, packets, error, events>>
    BY <1>1 DEF vars
  <2>2. events' \in Nat
    BY <2>1 DEF IInv, TypeOK
  <2> QED BY <2>1, <2>2, NoPackets, PacketsSettle
<1>2. ASSUME NEW s \in Streams, Application(s) PROVE IInv'
  <2>1. ASSUME NEW length \in Lengths(s), NEW fin \in BOOLEAN, Write(s, length, fin) PROVE IInv'
    <3>1. length \in Nat
      BY StreamTransferAssumption DEF Lengths
    <3> QED BY <2>1, <3>1, WriteStep
  <2> QED BY <1>2, <2>1, MarkActiveStep, ResetStreamStep, StopSendingStep, OpenFlowControlStep
           DEF Application
<1>3. ASSUME NEW s \in Streams, Send(s) PROVE IInv'
  <2>1. \A length \in Lengths(s) : length \in Nat
    BY StreamTransferAssumption DEF Lengths
  <2>2. ASSUME NEW length \in Lengths(s), SendStream(s, length) PROVE IInv'
    BY <2>1, <2>2, SendStreamStep
  <2>3. ASSUME NEW length \in Lengths(s), NEW fin \in BOOLEAN, NEW still \in BOOLEAN,
               SendActive(s, length, fin, still)
        PROVE  IInv'
    BY <2>1, <2>3, SendActiveStep
  <2> QED BY <1>3, <2>2, <2>3, SendResetStep, SendStopSendingStep, PassExhaustedStep DEF Send
<1>4. ASSUME NEW p \in InTransit, Deliver(p) PROVE IInv'
  <2>1. p.frame.type \in {"stream", "reset", "max_data", "max_stream_data", "stop_sending"}
    BY <1>4 DEF Deliver
  <2> QED BY <1>4, <2>1, ReceiveStreamStep, ReceiveResetStep, ReceiveMaxDataStep,
             ReceiveMaxStreamDataStep, ReceiveStopSendingStep
<1>5. Repeat => IInv'
  BY SendQueuedStep DEF Repeat
<1> QED BY <1>1, <1>2, <1>3, <1>4, <1>5, SendMaxDataStep, SendMaxStreamDataStep, LoseStep,
           AckArrivesStep, DeclareLostStep, PreemptiveRepeatStep DEF Next

(* Every reachable state satisfies the inductive invariant: credit, frames *)
(* in flight and offsets of the two ends fit together.                     *)
THEOREM Invariance == Spec => []IInv
BY Initially, Inductive, PTL DEF Spec

(* The variables keep their types, whatever is lost, repeated or reset.    *)
THEOREM TypeCorrect == Spec => []TypeOK
<1>1. IInv => TypeOK
  BY DEF IInv
<1> QED BY <1>1, Invariance, PTL

(* picoquic_flow_control_check_stream_offset and the checks of the final   *)
(* offset in picoquic_stream_network_input and                             *)
(* picoquic_decode_stream_reset_frame never fail between two endpoints of  *)
(* this code.                                                              *)
THEOREM CreditAlwaysRespected == Spec => []CreditRespected
<1>1. IInv => CreditRespected
  BY DEF IInv, CreditRespected
<1> QED BY <1>1, Invariance, PTL

-----------------------------------------------------------------------------
(* The data. *)

(* The bytes of a frame or a node are those of its offset.                 *)
Whole(n) == n.data = Bytes(n.offset, n.offset + Len(n.data))

HeldPos(r, i) == i < r.consumed_offset \/ Covered(r, i)

(* The end is the position after the last byte.                            *)
Reached(r, i) == HeldPos(r, i) \/ (i = r.fin_offset /\ r.fin_received)

(* The nodes of the tree.                                                  *)
TreeOK(r) ==
  /\ \A n \in r.stream_data_tree :
       Whole(n) /\ Len(n.data) > 0 /\ n.offset + Len(n.data) <= r.fin_offset
  /\ \A n \in r.stream_data_tree, m \in r.stream_data_tree :
       n.offset < m.offset => n.offset + Len(n.data) <= m.offset

Ahead(r) == \A n \in r.stream_data_tree : n.offset >= r.consumed_offset

DeliveredOK(r) ==
  /\ r.delivered = Bytes(0, Len(r.delivered))
  /\ Len(r.delivered) <= r.consumed_offset
  /\ ~r.stop_sending_requested => Len(r.delivered) = r.consumed_offset

AckedState(st) ==
  /\ ~st.exists => IsStreamAcked(st)
  /\ st.is_closed => ~st.is_output_stream
  /\ st.exists => ~(st.is_closed /\ IsStreamAcked(st))

(* A stream at its two ends.                                               *)
StreamOK(st, r) ==
  /\ AckedState(st)
  /\ TreeOK(r) /\ Ahead(r) /\ DeliveredOK(r)
  /\ \A i \in st.sack_list : Reached(r, i)

PacketOK(p) ==
  p.frame.type = "stream" =>
    /\ Whole(p.frame)
    /\ p.net = "arrived" => \A i \in Positions(p.frame) : Reached(rcv[p.frame.id], i)

DInv ==
  /\ \A s \in Streams : StreamOK(snd[s], rcv[s])
  /\ \A p \in InTransit : PacketOK(p)
  /\ \A i \in DOMAIN stream_frame_retransmit_queue : Whole(stream_frame_retransmit_queue[i])

-----------------------------------------------------------------------------
(* Numbers and sequences.                                                  *)

(* The least-number principle, from well-founded induction on Nat.         *)
LEMMA Least ==
  ASSUME NEW S, S \subseteq Nat, S # {}
  PROVE  \E n \in S : \A m \in S : n <= m
<1>1. \E x \in S : \A y \in S : ~ (<<y, x>> \in OpToRel(<, Nat))
  BY NatLessThanWellFounded, WFMin, Zenon
<1>2. PICK x \in S : \A y \in S : ~ (<<y, x>> \in OpToRel(<, Nat))
  BY <1>1
<1>3. ASSUME NEW y \in S PROVE x <= y
  <2>1. x \in Nat /\ y \in Nat
    OBVIOUS
  <2>2. ~(y < x)
    BY <1>2, <2>1 DEF OpToRel
  <2> QED BY <2>1, <2>2
<1> QED BY <1>3

(* The i-th of the bytes from a to b is a + i - 1,                         *)
LEMMA BytesAt ==
  ASSUME NEW a \in Nat, NEW b \in Nat, a <= b
  PROVE  /\ Bytes(a, b) \in Seq(Nat) /\ Len(Bytes(a, b)) = b - a
         /\ \A i \in 1..(b - a) : Bytes(a, b)[i] = a + i - 1
BY BytesType DEF Bytes

(* and a sequence of which that is true is those bytes.                    *)
LEMMA SameBytes ==
  ASSUME NEW d \in Seq(Nat), NEW a \in Nat, NEW b \in Nat, a <= b, Len(d) = b - a,
         \A i \in 1..Len(d) : d[i] = a + i - 1
  PROVE  d = Bytes(a, b)
<1>1. PICK e \in Seq(Nat) : e = Bytes(a, b) /\ Len(e) = b - a /\ \A i \in 1..(b - a) : e[i] = a + i - 1
  BY BytesAt
<1>2. Len(d) = Len(e) /\ \A i \in 1..Len(d) : d[i] = e[i]
  BY <1>1
<1>3. d = e
  BY <1>2, SeqEqual
<1> QED BY <1>1, <1>3

Joined(a, b, c) == Bytes(a, b) \o Bytes(b, c) = Bytes(a, c)

(* Bytes from a to b and from b to c are those from a to c.                *)
LEMMA BytesConcat ==
  ASSUME NEW a \in Nat, NEW b \in Nat, NEW c \in Nat, a <= b, b <= c
  PROVE  Joined(a, b, c)
<1>1. PICK d \in Seq(Nat) : d = Bytes(a, b) /\ Len(d) = b - a /\ \A i \in 1..(b - a) : d[i] = a + i - 1
  BY BytesAt
<1>2. PICK e \in Seq(Nat) : e = Bytes(b, c) /\ Len(e) = c - b /\ \A i \in 1..(c - b) : e[i] = b + i - 1
  BY BytesAt
<1>3. PICK g \in Seq(Nat) :
        /\ g = d \o e /\ Len(g) = Len(d) + Len(e)
        /\ \A i \in 1 .. Len(d) + Len(e) : g[i] = IF i <= Len(d) THEN d[i] ELSE e[i - Len(d)]
  <2>1. /\ d \o e \in Seq(Nat) /\ Len(d \o e) = Len(d) + Len(e)
        /\ \A i \in 1 .. Len(d) + Len(e) : (d \o e)[i] = IF i <= Len(d) THEN d[i] ELSE e[i - Len(d)]
    OBVIOUS
  <2> QED BY <2>1
<1>4. Len(g) = c - a
  BY <1>1, <1>2, <1>3
<1>5. \A i \in 1..Len(g) : g[i] = a + i - 1
  <2> TAKE i \in 1..Len(g)
  <2>1. CASE i <= Len(d)
    BY <1>1, <1>2, <1>3, <2>1
  <2>2. CASE ~(i <= Len(d))
    <3>1. i - Len(d) \in 1..(c - b)
      BY <1>1, <1>2, <1>3, <2>2
    <3>2. g[i] = e[i - Len(d)]
      BY <1>1, <1>2, <1>3, <2>2
    <3>3. g[i] = b + (i - Len(d)) - 1
      BY <1>2, <3>1, <3>2
    <3> QED BY <1>1, <3>3
  <2> QED BY <2>1, <2>2
<1>6. g = Bytes(a, c)
  BY <1>4, <1>5, SameBytes
<1> QED BY <1>1, <1>2, <1>3, <1>6 DEF Joined

IsPart(a, b, l, m) == SubSeq(Bytes(a, b), l - a + 1, m - a) = Bytes(l, m)

(* A part of the bytes from a to b.                                        *)
LEMMA BytesPart ==
  ASSUME NEW a \in Nat, NEW b \in Nat, NEW l \in Nat, NEW m \in Nat, a <= l, l <= m, m <= b
  PROVE  IsPart(a, b, l, m)
<1>0. PICK j, k \in Nat : j = l - a + 1 /\ k = m - a
  OBVIOUS
<1>1. PICK d \in Seq(Nat) : d = Bytes(a, b) /\ Len(d) = b - a /\ \A i \in 1..(b - a) : d[i] = a + i - 1
  BY BytesAt
<1>2. 1 <= j /\ j <= k + 1 /\ k <= b - a
  BY <1>0
<1>4. PICK e \in Seq(Nat) : e = SubSeq(d, j, k) /\ Len(e) = (IF j <= k THEN k - j + 1 ELSE 0)
                            /\ \A i \in 1..(k - j + 1) : e[i] = d[j + i - 1]
  <2>1. 1 <= j /\ j <= k + 1 /\ k <= Len(d)
    BY <1>1, <1>2
  <2>2. /\ SubSeq(d, j, k) \in Seq(Nat) /\ Len(SubSeq(d, j, k)) = (IF j <= k THEN k - j + 1 ELSE 0)
        /\ \A i \in 1..(k - j + 1) : SubSeq(d, j, k)[i] = d[j + i - 1]
    BY <2>1
  <2> QED BY <2>2
<1>5. Len(e) = m - l /\ l <= m
  BY <1>0, <1>2, <1>4
<1>6. \A i \in 1..Len(e) : e[i] = l + i - 1
  <2> TAKE i \in 1..Len(e)
  <2>1. i \in 1..(k - j + 1) /\ j + i - 1 \in 1..(b - a)
    BY <1>0, <1>5
  <2>2. e[i] = d[j + i - 1] /\ d[j + i - 1] = a + (j + i - 1) - 1
    BY <1>1, <1>4, <2>1
  <2> QED BY <1>0, <2>2
<1>7. e = Bytes(l, m)
  BY <1>5, <1>6, SameBytes
<1> QED BY <1>0, <1>1, <1>4, <1>7 DEF IsPart
-----------------------------------------------------------------------------
(* The data a receiver holds.                                              *)

(* The fields of a node of the tree.                                       *)
LEMMA NodeType ==
  ASSUME NEW r \in RcvStream, NEW n \in r.stream_data_tree
  PROVE  n \in Node /\ n.offset \in Nat /\ n.data \in Seq(Nat) /\ Len(n.data) \in Nat
BY DEF RcvStream, Node

(* The byte at a position of a node.                                       *)
LEMMA WholeByte ==
  ASSUME NEW n \in Node, Whole(n), NEW i \in Nat, n.offset <= i, i < n.offset + Len(n.data)
  PROVE  n.data[i - n.offset + 1] = i
<1>1. PICK a \in Nat : a = n.offset
  BY DEF Node
<1>2. PICK l \in Nat : l = Len(n.data)
  BY DEF Node
<1>3. n.data = Bytes(a, a + l)
  BY <1>1, <1>2 DEF Whole
<1>4. PICK k \in 1..l : k = i - a + 1
  BY <1>1, <1>2
<1>5. Bytes(a, a + l)[k] = a + k - 1
  <2>1. PICK b \in Nat : b = a + l
    OBVIOUS
  <2>2. a <= b /\ k \in 1..(b - a)
    BY <2>1
  <2>3. Bytes(a, b)[k] = a + k - 1
    BY <2>2, BytesAt
  <2> QED BY <2>1, <2>3
<1>6. n.data[k] = i
  BY <1>3, <1>4, <1>5
<1> QED BY <1>1, <1>4, <1>6

(* What the tree holds up to a reachable offset are the bytes of these     *)
(* positions, whichever nodes are taken.                                   *)
LEMMA HeldBytes ==
  ASSUME NEW r \in RcvStream, TreeOK(r), NEW to \in Reachable(r)
  PROVE  Held(r, to) = Bytes(r.consumed_offset, to)
<1>1. /\ to \in Nat /\ r.consumed_offset <= to /\ r.consumed_offset \in Nat
      /\ Held(r, to) \in Seq(Nat) /\ Len(Held(r, to)) = to - r.consumed_offset
  BY HeldType DEF RcvStream
<1>2. PICK c \in Nat : c = r.consumed_offset
  BY <1>1
<1>3. ASSUME NEW i \in c..(to - 1) PROVE HeldByte(r, i) = i
  <2>1. i \in Nat
    BY <1>1, <1>2
  <2>2. \E n \in r.stream_data_tree : n.offset <= i /\ i < n.offset + Len(n.data)
    BY <1>2, <1>3 DEF Reachable, Covered
  <2>3. PICK n : n = CHOOSE m \in r.stream_data_tree : m.offset <= i /\ i < m.offset + Len(m.data)
    OBVIOUS
  <2>4. n \in r.stream_data_tree /\ n.offset <= i /\ i < n.offset + Len(n.data)
    BY <2>2, <2>3, Zenon
  <2>5. n \in Node /\ Whole(n)
    BY <2>4, NodeType DEF TreeOK
  <2>6. HeldByte(r, i) = n.data[i - n.offset + 1]
    BY <2>3 DEF HeldByte
  <2> QED BY <2>1, <2>4, <2>5, <2>6, WholeByte
<1>4. PICK d \in Seq(Nat) : d = Held(r, to) /\ Len(d) = to - c
  BY <1>1, <1>2
<1>5. \A k \in 1..Len(d) : d[k] = c + k - 1
  <2> TAKE k \in 1..Len(d)
  <2>3. PICK l \in Int : l = Len(d) /\ l = to - c
    BY <1>1, <1>2, <1>4
  <2>4. k \in 1..(to - c)
    BY <2>3
  <2>5. PICK m \in Nat : m = to
    BY <1>1
  <2>6. k \in 1..(m - c) => c + k - 1 \in c..(m - 1)
    BY <1>2
  <2>1. c + k - 1 \in c..(to - 1) /\ k \in 1..(to - c)
    BY <2>4, <2>5, <2>6
  <2>2. d[k] = HeldByte(r, c + k - 1)
    BY <1>2, <1>4, <2>1 DEF Held
  <2> QED BY <1>3, <2>1, <2>2
<1>6. d = Bytes(c, to)
  BY <1>1, <1>2, <1>4, <1>5, SameBytes
<1> QED BY <1>2, <1>4, <1>6

(* A part of a frame has the bytes of its positions.                       *)
LEMMA FramePart ==
  ASSUME NEW f \in StreamFrames, Whole(f), NEW a \in Nat, NEW b \in Nat,
         f.offset <= a, a <= b, b <= EndOf(f)
  PROVE  SubSeq(f.data, a - f.offset + 1, b - f.offset) = Bytes(a, b)
<1>1. PICK o, l \in Nat : o = f.offset /\ l = Len(f.data)
  BY EndType
<1>2. b <= o + l /\ o <= a
  BY <1>1, EndType
<1>3. PICK e \in Nat : e = o + l
  OBVIOUS
<1>4. f.data = Bytes(o, e)
  BY <1>1, <1>3 DEF Whole
<1>5. SubSeq(Bytes(o, e), a - o + 1, b - o) = Bytes(a, b)
  <2>1. o <= a /\ b <= e
    BY <1>2, <1>3
  <2>2. IsPart(o, e, a, b)
    BY <2>1, BytesPart, Zenon
  <2> QED BY <2>2 DEF IsPart
<1> QED BY <1>1, <1>4, <1>5

(* So has what the receiver takes from a frame in order.                   *)
LEMMA UnconsumedBytes ==
  ASSUME NEW r \in RcvStream, NEW f \in StreamFrames, Whole(f),
         f.offset <= r.consumed_offset, r.consumed_offset <= EndOf(f)
  PROVE  Unconsumed(r, f) = Bytes(r.consumed_offset, EndOf(f))
<1>1. PICK c, e \in Nat : c = r.consumed_offset /\ e = EndOf(f)
  BY EndType DEF RcvStream
<1>2. SubSeq(f.data, c - f.offset + 1, e - f.offset) = Bytes(c, e)
  BY <1>1, FramePart
<1>3. e - f.offset = Len(f.data)
  BY <1>1, EndType
<1> QED BY <1>1, <1>2, <1>3 DEF Unconsumed

(* So has a piece of a frame that is kept in the tree.                     *)
LEMMA PieceWhole ==
  ASSUME NEW r \in RcvStream, NEW f \in StreamFrames, Whole(f), NEW i \in Runs(NewPositions(r, f)),
         NEW n, n = Piece(f, i)
  PROVE  /\ n \in Node /\ Whole(n) /\ Len(n.data) > 0
         /\ n.offset = i[1] /\ n.offset + Len(n.data) = i[2] + 1
<1>1. /\ i[1] \in Nat /\ i[2] \in Nat /\ i[1] <= i[2]
      /\ f.offset <= i[1] /\ i[2] < EndOf(f) /\ n \in Node
  BY PieceType
<1>2. PICK a, b \in Nat : a = i[1] /\ b = i[2] + 1
  BY <1>1
<1>3. a <= b /\ f.offset <= a /\ b <= EndOf(f) /\ a < b
  BY <1>1, <1>2, EndType
<1>4. n.data = Bytes(a, b)
  <2>1. SubSeq(f.data, a - f.offset + 1, b - f.offset) = Bytes(a, b)
    BY <1>3, FramePart
  <2>2. i[2] - f.offset + 1 = b - f.offset
    BY <1>1, <1>2, EndType
  <2>3. n.data = SubSeq(f.data, i[1] - f.offset + 1, i[2] - f.offset + 1)
    BY DEF Piece
  <2> QED BY <1>2, <2>1, <2>2, <2>3
<1>5. Len(n.data) = b - a
  BY <1>3, <1>4, BytesAt
<1>6. n.offset = a
  BY <1>2 DEF Piece
<1>7. n.offset + Len(n.data) = b
  BY <1>5, <1>6
<1> QED BY <1>1, <1>2, <1>3, <1>4, <1>5, <1>6, <1>7 DEF Whole

(* Nothing that was reached is lost.                                       *)
Keeps(r, q) == \A i \in Nat : Reached(r, i) => Reached(q, i)

(* picoquic_stream_data_callback delivers the next bytes of the stream and *)
(* loses none that waits.                                                  *)
LEMMA CalledData ==
  ASSUME NEW r \in RcvStream, TreeOK(r), DeliveredOK(r), NEW to \in Reachable(r)
  PROVE  LET q == DataCallback(r, to) IN
         TreeOK(q) /\ Ahead(q) /\ DeliveredOK(q) /\ Keeps(r, q)
<1>1. PICK q : q = DataCallback(r, to)
  OBVIOUS
<1>2. /\ q \in RcvStream /\ q.consumed_offset = to
      /\ q.delivered = IF r.stop_sending_requested THEN r.delivered ELSE r.delivered \o Held(r, to)
      /\ q.stream_data_tree = {n \in r.stream_data_tree : n.offset > to}
      /\ q.fin_offset = r.fin_offset /\ q.fin_received = r.fin_received
      /\ q.stop_sending_requested = r.stop_sending_requested
  BY <1>1, CalledFields
<1>3. /\ to \in Nat /\ r.consumed_offset \in Nat /\ r.consumed_offset <= to
      /\ Held(r, to) = Bytes(r.consumed_offset, to)
  BY HeldType, HeldBytes DEF RcvStream
<1>4. TreeOK(q)
  BY <1>2 DEF TreeOK
<1>5. Ahead(q)
  <2> SUFFICES ASSUME NEW n \in q.stream_data_tree PROVE n.offset >= q.consumed_offset
    BY DEF Ahead
  <2>1. n.offset \in Nat /\ n.offset > to
    BY <1>2, NodeType
  <2> QED BY <1>2, <1>3, <2>1
<1>6. DeliveredOK(q)
  <2>1. r.delivered \in Seq(Nat) /\ Len(r.delivered) \in Nat
    BY DEF RcvStream
  <2>2. CASE r.stop_sending_requested
    <3>1. q.delivered = r.delivered /\ q.stop_sending_requested
      BY <1>2, <2>2
    <3>2. Len(r.delivered) <= to
      BY <1>3, <2>1 DEF DeliveredOK
    <3> QED BY <1>2, <3>1, <3>2 DEF DeliveredOK
  <2>3. CASE ~r.stop_sending_requested
    <3>1. PICK c \in Nat : c = r.consumed_offset
      BY <1>3
    <3>2. r.delivered = Bytes(0, c)
      BY <2>3, <3>1 DEF DeliveredOK
    <3>3. Joined(0, c, to)
      <4>1. 0 \in Nat /\ to \in Nat /\ 0 <= c /\ c <= to
        BY <1>3, <3>1
      <4> QED BY <4>1, BytesConcat, Zenon
    <3>4. q.delivered = Bytes(0, to)
      BY <1>2, <1>3, <2>3, <3>1, <3>2, <3>3 DEF Joined
    <3>5. Len(q.delivered) = to
      BY <1>3, <3>4, BytesAt
    <3>6. q.delivered = Bytes(0, Len(q.delivered))
      BY <3>4, <3>5
    <3>7. q.consumed_offset = to /\ to <= to
      BY <1>2, <1>3
    <3> QED BY <3>5, <3>6, <3>7 DEF DeliveredOK
  <2> QED BY <2>2, <2>3
<1>7. Keeps(r, q)
  <2> SUFFICES ASSUME NEW i \in Nat, Reached(r, i) PROVE Reached(q, i)
    BY DEF Keeps
  <2>1. CASE i < r.consumed_offset
    BY <1>2, <1>3, <2>1 DEF Reached, HeldPos
  <2>2. CASE Covered(r, i)
    <3>1. PICK n \in r.stream_data_tree : n.offset <= i /\ i < n.offset + Len(n.data)
      BY <2>2 DEF Covered
    <3>2. n.offset \in Nat /\ Len(n.data) \in Nat
      BY NodeType
    <3>3. CASE n.offset > to
      BY <1>2, <3>1, <3>3 DEF Reached, HeldPos, Covered
    <3>4. CASE ~(n.offset > to)
      <4>1. ~(to < n.offset + Len(n.data))
        BY <1>3, <3>2, <3>4 DEF Reachable, Covered
      <4>2. i < to
        BY <1>3, <3>1, <3>2, <4>1
      <4> QED BY <1>2, <4>2 DEF Reached, HeldPos
    <3> QED BY <3>3, <3>4
  <2>3. CASE i = r.fin_offset /\ r.fin_received
    BY <1>2, <2>3 DEF Reached
  <2> QED BY <2>1, <2>2, <2>3 DEF Reached, HeldPos
<1> QED BY <1>1, <1>4, <1>5, <1>6, <1>7

(* Every new position is in one of the runs in which                       *)
(* picoquic_queue_network_input keeps them.                                *)
LEMMA RunOf ==
  ASSUME NEW P, P \subseteq Nat, NEW e \in Nat, \A x \in P : x < e, NEW i \in P
  PROVE  \E run \in Runs(P) : run[1] <= i /\ i <= run[2]
<1>1. i \in Nat
  OBVIOUS
<1>2. PICK lo \in {a \in Nat : a <= i /\ a..i \subseteq P} :
        \A a \in {a \in Nat : a <= i /\ a..i \subseteq P} : lo <= a
  <2>1. i \in {a \in Nat : a <= i /\ a..i \subseteq P}
    BY <1>1
  <2>2. {a \in Nat : a <= i /\ a..i \subseteq P} # {}
    BY <2>1
  <2>3. {a \in Nat : a <= i /\ a..i \subseteq P} \subseteq Nat
    OBVIOUS
  <2> QED BY <2>2, <2>3, Least
<1>3. lo - 1 \notin P
  <2> SUFFICES ASSUME lo - 1 \in P PROVE FALSE
    OBVIOUS
  <2>1. lo - 1 \in Nat /\ lo - 1 <= i
    BY <1>1, <1>2
  <2>2. (lo - 1)..i \subseteq P
    BY <1>1, <1>2, <2>1
  <2> QED BY <1>2, <2>1, <2>2
<1>4. PICK hi \in {b \in Nat : i <= b /\ b + 1 \notin P} :
        \A b \in {b \in Nat : i <= b /\ b + 1 \notin P} : hi <= b
  <2>1. e \in {b \in Nat : i <= b /\ b + 1 \notin P}
    BY <1>1
  <2>2. {b \in Nat : i <= b /\ b + 1 \notin P} # {}
    BY <2>1
  <2>3. {b \in Nat : i <= b /\ b + 1 \notin P} \subseteq Nat
    OBVIOUS
  <2> QED BY <2>2, <2>3, Least
<1>5. \A x \in i..hi : x \in P
  <2> TAKE x \in i..hi
  <2>1. CASE x = i
    BY <2>1
  <2>2. CASE x # i
    <3>1. x - 1 \in Nat /\ i <= x - 1 /\ ~(hi <= x - 1)
      BY <1>1, <1>4, <2>2
    <3>2. (x - 1) + 1 \in P
      BY <1>4, <3>1
    <3> QED BY <1>1, <1>4, <3>2
  <2> QED BY <2>1, <2>2
<1>6. \A x \in lo..hi : x \in P
  BY <1>1, <1>2, <1>4, <1>5
<1>7. lo \in P /\ hi \in P /\ lo <= hi
  BY <1>1, <1>2, <1>4, <1>6
<1>8. <<lo, hi>> \in Runs(P)
  BY <1>3, <1>4, <1>6, <1>7 DEF Runs
<1> QED BY <1>2, <1>4, <1>8

(* What a stream frame asks of the state it arrives in.                    *)
Fits(r, f) ==
  /\ r.fin_received => EndOf(f) <= r.fin_offset
  /\ f.fin => r.fin_offset <= EndOf(f)

(* What a frame tells of the end changes nothing that was received.        *)
LEMMA InformedData ==
  ASSUME NEW r \in RcvStream, TreeOK(r), Ahead(r), DeliveredOK(r), NEW f \in StreamFrames, Fits(r, f)
  PROVE  LET q == Informed(r, f) IN
         /\ q \in RcvStream /\ TreeOK(q) /\ Ahead(q) /\ DeliveredOK(q) /\ Keeps(r, q)
         /\ EndOf(f) <= q.fin_offset
         /\ f.fin => q.fin_received /\ q.fin_offset = EndOf(f)
<1>1. PICK q : q = Informed(r, f)
  OBVIOUS
<1>2. PICK e \in Nat : e = EndOf(f)
  BY EndType
<1>3. /\ q \in RcvStream
      /\ q.fin_offset = IF e > r.fin_offset THEN e ELSE r.fin_offset
      /\ q.fin_received = (r.fin_received \/ f.fin)
      /\ q.consumed_offset = r.consumed_offset /\ q.stream_data_tree = r.stream_data_tree
      /\ q.stop_sending_requested = r.stop_sending_requested /\ q.delivered = r.delivered
  BY <1>1, <1>2, InformedFields
<1>4. PICK o, o1 \in Nat : o = r.fin_offset /\ o1 = q.fin_offset
  BY <1>3 DEF RcvStream
<1>5. o1 = IF e > o THEN e ELSE o
  BY <1>3, <1>4
<1>6. (r.fin_received => e <= o) /\ (f.fin => o <= e)
  BY <1>2, <1>4 DEF Fits
<1>7. o <= o1 /\ e <= o1 /\ (r.fin_received => o1 = o) /\ (f.fin => o1 = e)
  BY <1>5, <1>6
<1>8. TreeOK(q)
  <2>1. \A n \in r.stream_data_tree : n.offset + Len(n.data) <= o => n.offset + Len(n.data) <= o1
    <3> TAKE n \in r.stream_data_tree
    <3>1. PICK a, b \in Nat : a = n.offset /\ b = Len(n.data)
      BY NodeType
    <3> QED BY <1>7, <3>1
  <2> QED BY <1>3, <1>4, <2>1 DEF TreeOK
<1>9. Ahead(q) /\ DeliveredOK(q)
  BY <1>3 DEF Ahead, DeliveredOK
<1>10. Keeps(r, q)
  <2> SUFFICES ASSUME NEW i \in Nat, Reached(r, i) PROVE Reached(q, i)
    BY DEF Keeps
  <2>1. HeldPos(q, i) = HeldPos(r, i)
    BY <1>3 DEF HeldPos, Covered
  <2>2. i = r.fin_offset /\ r.fin_received => i = q.fin_offset /\ q.fin_received
    BY <1>3, <1>4, <1>7
  <2> QED BY <2>1, <2>2 DEF Reached
<1>11. f.fin => q.fin_received
  BY <1>3
<1> QED BY <1>1, <1>2, <1>3, <1>4, <1>7, <1>8, <1>9, <1>10, <1>11

(* A frame ahead of what is consumed: its new positions become nodes.      *)
LEMMA QueuedData ==
  ASSUME NEW r \in RcvStream, TreeOK(r), Ahead(r), DeliveredOK(r),
         NEW f \in StreamFrames, Whole(f), EndOf(f) <= r.fin_offset
  PROVE  LET q == Queued(r, f) IN
         /\ TreeOK(q) /\ Ahead(q) /\ DeliveredOK(q) /\ Keeps(r, q)
         /\ \A i \in Nat : f.offset <= i /\ i < EndOf(f) => HeldPos(q, i)
<1>1. PICK q : q = Queued(r, f)
  OBVIOUS
<1>2. PICK P : P = NewPositions(r, f)
  OBVIOUS
<1>3. PICK new : new = {Piece(f, i) : i \in Runs(P)}
  OBVIOUS
<1>4. /\ q \in RcvStream /\ q.stream_data_tree = r.stream_data_tree \cup new
      /\ q.fin_offset = r.fin_offset /\ q.fin_received = r.fin_received
      /\ q.consumed_offset = r.consumed_offset
      /\ q.stop_sending_requested = r.stop_sending_requested /\ q.delivered = r.delivered
  BY <1>1, <1>2, <1>3, QueuedFields
<1>5. ASSUME NEW n \in new
      PROVE  \E i \in Runs(P) :
               /\ i[1] \in Nat /\ i[2] \in Nat /\ i[1] <= i[2]
               /\ f.offset <= i[1] /\ i[2] < EndOf(f) /\ r.consumed_offset <= i[1]
               /\ n \in Node /\ Whole(n) /\ Len(n.data) > 0
               /\ n.offset = i[1] /\ n.offset + Len(n.data) = i[2] + 1
  <2>1. PICK i \in Runs(P) : n = Piece(f, i)
    BY <1>3
  <2>2. /\ i[1] \in Nat /\ i[2] \in Nat /\ i[1] <= i[2]
        /\ f.offset <= i[1] /\ i[2] < EndOf(f) /\ r.consumed_offset <= i[1]
    BY <1>2, PieceType
  <2>3. /\ n \in Node /\ Whole(n) /\ Len(n.data) > 0
        /\ n.offset = i[1] /\ n.offset + Len(n.data) = i[2] + 1
    BY <1>2, <2>1, PieceWhole
  <2> QED BY <2>2, <2>3
<1>6. \A i \in Nat : i \in P <=> f.offset <= i /\ i < EndOf(f) /\ i >= r.consumed_offset /\ ~Covered(r, i)
  <2>1. f.offset \in Nat /\ EndOf(f) \in Nat
    BY EndType
  <2> QED BY <1>2, <2>1 DEF NewPositions
<1>7. P \subseteq Nat
  <2>1. f.offset \in Nat /\ EndOf(f) \in Nat
    BY EndType
  <2> QED BY <1>2, <2>1 DEF NewPositions
<1>8. ASSUME NEW n \in q.stream_data_tree
      PROVE  /\ n \in Node /\ Whole(n) /\ Len(n.data) > 0 /\ n.offset + Len(n.data) <= r.fin_offset
             /\ n.offset >= r.consumed_offset
  <2>1. CASE n \in r.stream_data_tree
    BY <2>1, NodeType DEF TreeOK, Ahead
  <2>2. CASE n \in new
    <3>1. PICK i \in Runs(P) :
               /\ i[1] \in Nat /\ i[2] \in Nat /\ i[1] <= i[2]
               /\ f.offset <= i[1] /\ i[2] < EndOf(f) /\ r.consumed_offset <= i[1]
               /\ n \in Node /\ Whole(n) /\ Len(n.data) > 0
               /\ n.offset = i[1] /\ n.offset + Len(n.data) = i[2] + 1
      BY <1>5, <2>2
    <3>2. PICK a, b, e \in Nat : a = i[1] /\ b = i[2] /\ e = EndOf(f)
      BY <3>1, EndType
    <3>3. r.fin_offset \in Nat /\ r.consumed_offset \in Nat
      BY DEF RcvStream
    <3>4. b + 1 <= r.fin_offset /\ a >= r.consumed_offset
      BY <3>1, <3>2, <3>3
    <3> QED BY <3>1, <3>2, <3>4
  <2> QED BY <1>4, <2>1, <2>2
<1>9. ASSUME NEW n \in q.stream_data_tree, NEW m \in q.stream_data_tree, n.offset < m.offset
      PROVE  n.offset + Len(n.data) <= m.offset
  <2>1. PICK a, l, b, k \in Nat : a = n.offset /\ l = Len(n.data) /\ b = m.offset /\ k = Len(m.data)
    BY <1>8 DEF Node
  <2>2. SUFFICES ASSUME b < a + l PROVE FALSE
    BY <2>1
  <2>3. a < b /\ k > 0 /\ l > 0
    BY <1>8, <1>9, <2>1
  <2>4. CASE n \in r.stream_data_tree /\ m \in r.stream_data_tree
    <3>1. a + l <= b
      BY <1>9, <2>1, <2>4 DEF TreeOK
    <3> QED BY <2>1, <2>2, <3>1
  <2>5. CASE n \in r.stream_data_tree /\ m \in new
    <3>1. Covered(r, b)
      BY <2>1, <2>2, <2>3, <2>5 DEF Covered
    <3>2. b \in P
      <4>1. PICK i \in Runs(P) : m.offset = i[1]
        BY <1>5, <2>5
      <4>2. i[1] \in P
        BY DEF Runs
      <4> QED BY <2>1, <4>1, <4>2
    <3> QED BY <1>6, <3>1, <3>2
  <2>6. CASE n \in new
    <3>1. PICK i \in Runs(P) : i[1] = a /\ i[2] + 1 = a + l /\ i[1] \in Nat /\ i[2] \in Nat
      BY <1>5, <2>1, <2>6
    <3>2. a..(a + l - 1) \subseteq P
      <4>1. i[1]..i[2] \subseteq P /\ i[2] = a + l - 1
        BY <3>1 DEF Runs
      <4> QED BY <3>1, <4>1
    <3>3. b \in P /\ b - 1 \in P
      <4>1. b \in a..(a + l - 1) /\ b - 1 \in a..(a + l - 1)
        BY <2>2, <2>3
      <4> QED BY <3>2, <4>1
    <3>4. CASE m \in r.stream_data_tree
      <4>1. Covered(r, b)
        <5>1. m.offset <= b /\ b < m.offset + Len(m.data)
          BY <2>1, <2>3
        <5> QED BY <3>4, <5>1 DEF Covered
      <4> QED BY <1>6, <3>3, <4>1
    <3>5. CASE m \in new
      <4>1. PICK j \in Runs(P) : m.offset = j[1]
        BY <1>5, <3>5
      <4>2. j[1] - 1 \notin P
        BY DEF Runs
      <4> QED BY <2>1, <3>3, <4>1, <4>2
    <3> QED BY <1>4, <3>4, <3>5
  <2> QED BY <1>4, <2>4, <2>5, <2>6
<1>10. TreeOK(q) /\ Ahead(q)
  BY <1>4, <1>8, <1>9 DEF TreeOK, Ahead
<1>11. DeliveredOK(q)
  BY <1>4 DEF DeliveredOK
<1>12. Keeps(r, q)
  BY <1>4 DEF Keeps, Reached, HeldPos, Covered
<1>13. ASSUME NEW i \in Nat, f.offset <= i, i < EndOf(f) PROVE HeldPos(q, i)
  <2>1. CASE i < r.consumed_offset \/ Covered(r, i)
    BY <1>4, <2>1 DEF HeldPos, Covered
  <2>2. CASE ~(i < r.consumed_offset \/ Covered(r, i))
    <3>1. r.consumed_offset \in Nat
      BY DEF RcvStream
    <3>2. i \in P
      BY <1>6, <1>13, <2>2, <3>1
    <3>3. PICK run \in Runs(P) : run[1] <= i /\ i <= run[2]
      <4>1. PICK e \in Nat : e = EndOf(f)
        BY EndType
      <4>2. \A x \in P : x < e
        BY <1>6, <1>7, <4>1
      <4> QED BY <1>7, <3>2, <4>2, RunOf
    <3>4. PICK n : n = Piece(f, run)
      OBVIOUS
    <3>5. n \in q.stream_data_tree
      BY <1>3, <1>4, <3>4
    <3>6. n.offset = run[1] /\ n.offset + Len(n.data) = run[2] + 1 /\ run[2] \in Nat
      BY <1>2, <3>4, PieceWhole, PieceType
    <3>7. n.offset <= i /\ i < n.offset + Len(n.data)
      BY <3>3, <3>6
    <3> QED BY <3>5, <3>7 DEF HeldPos, Covered
  <2> QED BY <2>1, <2>2
<1> QED BY <1>1, <1>10, <1>11, <1>12, <1>13

(* A frame that continues what is consumed.                                *)
LEMMA ChunkData ==
  ASSUME NEW r \in RcvStream, TreeOK(r), DeliveredOK(r), NEW f \in StreamFrames, Whole(f),
         f.offset <= r.consumed_offset, r.consumed_offset <= EndOf(f)
  PROVE  LET q == ChunkCallback(r, Unconsumed(r, f)) IN
         /\ TreeOK(q) /\ DeliveredOK(q) /\ Keeps(r, q)
         /\ \A i \in Nat : f.offset <= i /\ i < EndOf(f) => HeldPos(q, i)
<1>1. PICK c, e \in Nat : c = r.consumed_offset /\ e = EndOf(f)
  BY EndType DEF RcvStream
<1>2. c <= e
  BY <1>1
<1>3. PICK data \in Seq(Nat) : data = Unconsumed(r, f)
  BY UnconsumedType
<1>4. Len(data) = e - c
  BY <1>1, <1>3, UnconsumedType
<1>5. data = Bytes(c, e)
  BY <1>1, <1>3, UnconsumedBytes
<1>6. PICK q : q = ChunkCallback(r, data)
  OBVIOUS
<1>7. /\ q \in RcvStream
      /\ q.consumed_offset = r.consumed_offset + Len(data)
      /\ q.delivered = IF r.stop_sending_requested THEN r.delivered ELSE r.delivered \o data
      /\ q.stream_data_tree = r.stream_data_tree
      /\ q.fin_offset = r.fin_offset /\ q.fin_received = r.fin_received
      /\ q.stop_sending_requested = r.stop_sending_requested
  BY <1>6, ChunkFields
<1>8. q.consumed_offset = e
  BY <1>1, <1>4, <1>7
<1>9. TreeOK(q)
  BY <1>7 DEF TreeOK
<1>10. DeliveredOK(q)
  <2>1. r.delivered \in Seq(Nat) /\ Len(r.delivered) \in Nat
    BY DEF RcvStream
  <2>2. CASE r.stop_sending_requested
    <3>1. q.delivered = r.delivered /\ q.stop_sending_requested
      BY <1>7, <2>2
    <3>2. Len(r.delivered) <= e
      BY <1>1, <1>2, <2>1 DEF DeliveredOK
    <3> QED BY <1>8, <3>1, <3>2 DEF DeliveredOK
  <2>3. CASE ~r.stop_sending_requested
    <3>1. r.delivered = Bytes(0, c)
      BY <1>1, <2>3 DEF DeliveredOK
    <3>2. Joined(0, c, e)
      <4>1. 0 \in Nat /\ 0 <= c /\ c <= e
        BY <1>2
      <4> QED BY <4>1, BytesConcat, Zenon
    <3>3. q.delivered = Bytes(0, e)
      BY <1>5, <1>7, <2>3, <3>1, <3>2 DEF Joined
    <3>4. Len(q.delivered) = e
      BY <3>3, BytesAt
    <3>5. q.delivered = Bytes(0, Len(q.delivered))
      BY <3>3, <3>4
    <3>6. e <= e
      OBVIOUS
    <3> QED BY <1>8, <3>4, <3>5, <3>6 DEF DeliveredOK
  <2> QED BY <2>2, <2>3
<1>11. Keeps(r, q)
  <2> SUFFICES ASSUME NEW i \in Nat, Reached(r, i) PROVE Reached(q, i)
    BY DEF Keeps
  <2>1. i < r.consumed_offset => i < q.consumed_offset
    BY <1>1, <1>2, <1>8
  <2>2. Covered(q, i) = Covered(r, i)
    BY <1>7 DEF Covered
  <2> QED BY <1>7, <2>1, <2>2 DEF Reached, HeldPos
<1>12. \A i \in Nat : f.offset <= i /\ i < EndOf(f) => HeldPos(q, i)
  BY <1>1, <1>8 DEF HeldPos
<1> QED BY <1>3, <1>6, <1>9, <1>10, <1>11, <1>12

(* The positions of a frame: its bytes, and its end when it has the FIN    *)
(* bit.                                                                    *)
LEMMA PositionsOf ==
  ASSUME NEW f \in StreamFrames, NEW i \in Positions(f)
  PROVE  i \in Nat /\ f.offset <= i /\ (i < EndOf(f) \/ (i = EndOf(f) /\ f.fin))
BY EndType DEF Positions

(* The state between the arrival of the bytes and the callback.            *)
LEMMA ArrivedData ==
  ASSUME NEW r \in RcvStream, TreeOK(r), Ahead(r), DeliveredOK(r),
         NEW f \in StreamFrames, Whole(f), Fits(r, f), r.consumed_offset <= r.fin_offset
  PROVE  LET q == Arrived(r, f) IN
         /\ TreeOK(q) /\ DeliveredOK(q) /\ Keeps(r, q)
         /\ \A i \in Positions(f) : Reached(q, i)
         /\ ~ShouldNotify(r, f) => Ahead(q)
<1>1. PICK c : c = Informed(r, f)
  OBVIOUS
<1>2. /\ c \in RcvStream /\ TreeOK(c) /\ Ahead(c) /\ DeliveredOK(c) /\ Keeps(r, c)
      /\ EndOf(f) <= c.fin_offset
      /\ f.fin => c.fin_received /\ c.fin_offset = EndOf(f)
  BY <1>1, InformedData
<1>3. c.consumed_offset = r.consumed_offset
  BY <1>1, InformedFields
<1>4. f.offset \in Nat /\ EndOf(f) \in Nat /\ c.consumed_offset \in Nat
  BY <1>2, EndType DEF RcvStream
<1>5. Arrived(r, f) = IF c.consumed_offset < f.offset THEN Queued(c, f)
                      ELSE IF EndOf(f) >= c.consumed_offset THEN ChunkCallback(c, Unconsumed(c, f)) ELSE c
  BY <1>1 DEF Arrived, Informed
<1>6. ASSUME NEW q, q.fin_offset = c.fin_offset, q.fin_received = c.fin_received,
             \A i \in Nat : f.offset <= i /\ i < EndOf(f) => HeldPos(q, i)
      PROVE  \A i \in Positions(f) : Reached(q, i)
  <2> TAKE i \in Positions(f)
  <2>1. i \in Nat /\ f.offset <= i /\ (i < EndOf(f) \/ (i = EndOf(f) /\ f.fin))
    BY PositionsOf
  <2> QED BY <1>2, <1>6, <2>1 DEF Reached
<1>7. ASSUME NEW q, Keeps(c, q) PROVE Keeps(r, q)
  BY <1>2, <1>7 DEF Keeps
<1>8. CASE c.consumed_offset < f.offset
  <2>1. PICK q : q = Queued(c, f)
    OBVIOUS
  <2>2. q.fin_offset = c.fin_offset /\ q.fin_received = c.fin_received
    BY <1>2, <2>1, QueuedFields
  <2>3. /\ TreeOK(q) /\ Ahead(q) /\ DeliveredOK(q) /\ Keeps(c, q)
        /\ \A i \in Nat : f.offset <= i /\ i < EndOf(f) => HeldPos(q, i)
    BY <1>2, <2>1, QueuedData
  <2> QED BY <1>5, <1>6, <1>7, <1>8, <2>1, <2>2, <2>3
<1>9. CASE ~(c.consumed_offset < f.offset) /\ EndOf(f) >= c.consumed_offset
  <2>1. f.offset <= c.consumed_offset /\ c.consumed_offset <= EndOf(f)
    BY <1>4, <1>9
  <2>2. PICK data \in Seq(Nat) : data = Unconsumed(c, f)
    BY <1>2, <2>1, UnconsumedType
  <2>3. PICK q : q = ChunkCallback(c, data)
    OBVIOUS
  <2>4. q.fin_offset = c.fin_offset /\ q.fin_received = c.fin_received
    BY <1>2, <2>3, ChunkFields
  <2>5. /\ TreeOK(q) /\ DeliveredOK(q) /\ Keeps(c, q)
        /\ \A i \in Nat : f.offset <= i /\ i < EndOf(f) => HeldPos(q, i)
    BY <1>2, <2>1, <2>2, <2>3, ChunkData
  <2>6. ShouldNotify(r, f)
    BY <1>3, <1>9 DEF ShouldNotify
  <2> QED BY <1>5, <1>6, <1>7, <1>9, <2>2, <2>3, <2>4, <2>5, <2>6
<1>10. CASE ~(c.consumed_offset < f.offset) /\ ~(EndOf(f) >= c.consumed_offset)
  <2>1. \A i \in Nat : f.offset <= i /\ i < EndOf(f) => HeldPos(c, i)
    BY <1>4, <1>10 DEF HeldPos
  <2> QED BY <1>2, <1>5, <1>6, <1>10, <2>1
<1> QED BY <1>8, <1>9, <1>10

(* After picoquic_decode_stream_frame every position of the frame has      *)
(* reached the receiver.                                                   *)
LEMMA InputData ==
  ASSUME NEW r \in RcvStream, TreeOK(r), Ahead(r), DeliveredOK(r),
         NEW f \in StreamFrames, Whole(f), Fits(r, f), r.consumed_offset <= r.fin_offset,
         NEW q \in NetworkInput(r, f)
  PROVE  /\ TreeOK(q) /\ Ahead(q) /\ DeliveredOK(q) /\ Keeps(r, q)
         /\ \A i \in Positions(f) : Reached(q, i)
<1>1. PICK a : a = Arrived(r, f)
  OBVIOUS
<1>2. /\ TreeOK(a) /\ DeliveredOK(a) /\ Keeps(r, a)
      /\ \A i \in Positions(f) : Reached(a, i)
      /\ ~ShouldNotify(r, f) => Ahead(a)
  BY <1>1, ArrivedData
<1>3. a \in RcvStream
  BY <1>1, ArrivedTakes DEF Takes
<1>4. CASE ShouldNotify(r, f)
  <2>1. PICK to \in Reachable(a) : q = DataCallback(a, to)
    BY <1>1, <1>4 DEF NetworkInput
  <2>2. TreeOK(q) /\ Ahead(q) /\ DeliveredOK(q) /\ Keeps(a, q)
    BY <1>2, <1>3, <2>1, CalledData
  <2>3. \A i \in Positions(f) : i \in Nat
    BY PositionsOf
  <2> QED BY <1>2, <2>2, <2>3 DEF Keeps
<1>5. CASE ~ShouldNotify(r, f)
  <2>1. q = a
    BY <1>1, <1>5 DEF NetworkInput
  <2> QED BY <1>2, <1>5, <2>1
<1> QED BY <1>4, <1>5

-----------------------------------------------------------------------------
(* Steps of the data part.                                                 *)

(* Steps that leave offsets and tree alone lose nothing.                   *)
LEMMA KeepsSame ==
  ASSUME NEW r, NEW q, q.consumed_offset = r.consumed_offset, q.stream_data_tree = r.stream_data_tree,
         q.fin_offset = r.fin_offset, q.fin_received = r.fin_received
  PROVE  Keeps(r, q)
BY DEF Keeps, Reached, HeldPos, Covered

(* A packet that arrived remains accounted for as long as the receivers    *)
(* lose nothing.                                                           *)
LEMMA PacketKept ==
  ASSUME NEW p \in Packets, PacketOK(p), \A s \in Streams : Keeps(rcv[s], rcv'[s])
  PROVE  PacketOK(p)'
<1> SUFFICES ASSUME p.frame.type = "stream"
             PROVE  /\ Whole(p.frame)
                    /\ p.net = "arrived" => \A i \in Positions(p.frame) : Reached(rcv'[p.frame.id], i)
  BY DEF PacketOK, Positions, EndOf, Whole, Bytes, Reached, HeldPos, Covered
<1>1. p.frame \in StreamFrames
  BY DEF Packets, Frames, StreamFrames
<1>2. Whole(p.frame)
  BY DEF PacketOK
<1>3. ASSUME p.net = "arrived", NEW i \in Positions(p.frame) PROVE Reached(rcv'[p.frame.id], i)
  <2>1. i \in Nat /\ p.frame.id \in Streams
    BY <1>1, PositionsOf, EndType
  <2>2. Reached(rcv[p.frame.id], i)
    BY <1>3 DEF PacketOK
  <2> QED BY <2>1, <2>2 DEF Keeps
<1> QED BY <1>2, <1>3

(* What a step owes for the invariant: streams in order, new packets in    *)
(* order, queued frames whole.                                             *)
LEMMA DataStep ==
  ASSUME IInv, IInv', DInv,
         \A s \in Streams :
           /\ AckedState(snd'[s])
           /\ TreeOK(rcv'[s]) /\ Ahead(rcv'[s]) /\ DeliveredOK(rcv'[s]) /\ Keeps(rcv[s], rcv'[s])
           /\ \A i \in snd'[s].sack_list : i \in snd[s].sack_list \/ Reached(rcv'[s], i),
         NEW new, InTransit' \subseteq InTransit \cup new, \A p \in new : PacketOK(p)',
         \A i \in DOMAIN stream_frame_retransmit_queue' : Whole(stream_frame_retransmit_queue'[i])
  PROVE  DInv'
<1>1. ASSUME NEW s \in Streams PROVE StreamOK(snd'[s], rcv'[s])
  <2>1. \A i \in snd[s].sack_list : Reached(rcv'[s], i)
    <3> TAKE i \in snd[s].sack_list
    <3>1. i \in Nat
      BY DEF IInv, TypeOK, SndStream
    <3>2. Reached(rcv[s], i)
      BY DEF DInv, StreamOK
    <3> QED BY <3>1, <3>2 DEF Keeps
  <2> QED BY <2>1 DEF StreamOK
<1>2. ASSUME NEW p \in InTransit' PROVE PacketOK(p)'
  <2>1. CASE p \in InTransit
    <3>1. p \in Packets /\ PacketOK(p)
      BY <2>1 DEF IInv, TypeOK, DInv
    <3> QED BY <3>1, PacketKept
  <2> QED BY <2>1
<1> QED BY <1>1, <1>2 DEF DInv, StreamOK, AckedState, IsStreamAcked, TreeOK, Ahead, DeliveredOK, Whole,
          Bytes, Reached, HeldPos, Covered

(* A queue that does not change stays whole.                               *)
LEMMA QueueSame ==
  ASSUME DInv, UNCHANGED stream_frame_retransmit_queue
  PROVE  \A i \in DOMAIN stream_frame_retransmit_queue' : Whole(stream_frame_retransmit_queue'[i])
BY DEF DInv

(* What the applications see does not change.                              *)
LEMMA PipeSame ==
  ASSUME \A s \in Streams :
           /\ snd'[s].written = snd[s].written /\ snd'[s].fin_requested = snd[s].fin_requested
           /\ snd'[s].reset_requested = snd[s].reset_requested
           /\ rcv'[s].delivered = rcv[s].delivered /\ rcv'[s].fin_signalled = rcv[s].fin_signalled
           /\ rcv'[s].stop_sending_requested = rcv[s].stop_sending_requested
  PROVE  UNCHANGED Pipe!vars
BY DEF Pipe!vars, Bytes

(* Only packets and the queue change.                                      *)
LEMMA PacketsStep ==
  ASSUME IInv, IInv', DInv, UNCHANGED <<snd, rcv>>,
         NEW new, InTransit' \subseteq InTransit \cup new, \A p \in new : PacketOK(p),
         \A i \in DOMAIN stream_frame_retransmit_queue' : Whole(stream_frame_retransmit_queue'[i])
  PROVE  DInv' /\ UNCHANGED Pipe!vars
<1>1. \A s \in Streams :
        /\ AckedState(snd'[s])
        /\ TreeOK(rcv'[s]) /\ Ahead(rcv'[s]) /\ DeliveredOK(rcv'[s]) /\ Keeps(rcv[s], rcv'[s])
        /\ \A i \in snd'[s].sack_list : i \in snd[s].sack_list \/ Reached(rcv'[s], i)
  BY DEF DInv, StreamOK, Keeps
<1>2. \A p \in new : PacketOK(p)'
  BY DEF PacketOK
<1>3. DInv'
  BY <1>1, <1>2, DataStep
<1>4. UNCHANGED Pipe!vars
  BY PipeSame
<1> QED BY <1>3, <1>4

(* The invariant after a step of one sender.                               *)
LEMMA SenderData ==
  ASSUME IInv, IInv', DInv, NEW s \in Streams, NEW q, snd' = [snd EXCEPT ![s] = q],
         AckedState(q), \A i \in q.sack_list : i \in snd[s].sack_list \/ Reached(rcv[s], i),
         UNCHANGED rcv,
         NEW new, InTransit' \subseteq InTransit \cup new, \A p \in new : PacketOK(p),
         \A i \in DOMAIN stream_frame_retransmit_queue' : Whole(stream_frame_retransmit_queue'[i])
  PROVE  DInv'
<1>1. snd'[s] = q /\ \A t \in Streams \ {s} : snd'[t] = snd[t]
  BY DEF IInv, TypeOK
<1>2. ASSUME NEW t \in Streams
      PROVE  /\ AckedState(snd'[t])
             /\ TreeOK(rcv'[t]) /\ Ahead(rcv'[t]) /\ DeliveredOK(rcv'[t]) /\ Keeps(rcv[t], rcv'[t])
             /\ \A i \in snd'[t].sack_list : i \in snd[t].sack_list \/ Reached(rcv'[t], i)
  <2>1. StreamOK(snd[t], rcv[t])
    BY DEF DInv
  <2>2. TreeOK(rcv'[t]) /\ Ahead(rcv'[t]) /\ DeliveredOK(rcv'[t]) /\ Keeps(rcv[t], rcv'[t])
    BY <2>1 DEF StreamOK, Keeps
  <2>3. AckedState(snd'[t]) /\ \A i \in snd'[t].sack_list : i \in snd[t].sack_list \/ Reached(rcv'[t], i)
    <3>1. CASE t = s
      BY <1>1, <3>1
    <3>2. CASE t # s
      BY <1>1, <2>1, <3>2 DEF StreamOK
    <3> QED BY <3>1, <3>2
  <2> QED BY <2>2, <2>3
<1>3. \A p \in new : PacketOK(p)'
  BY DEF PacketOK
<1> QED BY <1>2, <1>3, DataStep

(* A step of a sender that the pipe does not see.                          *)
LEMMA SenderUnseen ==
  ASSUME IInv, NEW s \in Streams, NEW q, snd' = [snd EXCEPT ![s] = q], UNCHANGED rcv,
         q.written = snd[s].written, q.fin_requested = snd[s].fin_requested,
         q.reset_requested = snd[s].reset_requested
  PROVE  UNCHANGED Pipe!vars
<1>1. snd'[s] = q /\ \A t \in Streams \ {s} : snd'[t] = snd[t]
  BY DEF IInv, TypeOK
<1> QED BY <1>1, PipeSame

(* The invariant after a step of receivers,                                *)
LEMMA ReceiversData ==
  ASSUME IInv, IInv', DInv, UNCHANGED snd,
         \A s \in Streams :
           TreeOK(rcv'[s]) /\ Ahead(rcv'[s]) /\ DeliveredOK(rcv'[s]) /\ Keeps(rcv[s], rcv'[s]),
         NEW new, InTransit' \subseteq InTransit \cup new, \A p \in new : PacketOK(p)',
         \A i \in DOMAIN stream_frame_retransmit_queue' : Whole(stream_frame_retransmit_queue'[i])
  PROVE  DInv'
<1>1. \A s \in Streams :
        AckedState(snd'[s]) /\ \A i \in snd'[s].sack_list : i \in snd[s].sack_list \/ Reached(rcv'[s], i)
  BY DEF DInv, StreamOK
<1> QED BY <1>1, DataStep

(* A receiver whose data stays.                                            *)
LEMMA SameData ==
  ASSUME NEW r, NEW q, TreeOK(r), Ahead(r), DeliveredOK(r),
         q.consumed_offset = r.consumed_offset, q.stream_data_tree = r.stream_data_tree,
         q.fin_offset = r.fin_offset, q.fin_received = r.fin_received, q.delivered = r.delivered,
         r.stop_sending_requested => q.stop_sending_requested
  PROVE  TreeOK(q) /\ Ahead(q) /\ DeliveredOK(q) /\ Keeps(r, q)
BY KeepsSame DEF TreeOK, Ahead, DeliveredOK

(* and of one of them.                                                     *)
LEMMA ReceiverData ==
  ASSUME IInv, IInv', DInv, UNCHANGED snd, NEW s \in Streams, NEW q, rcv' = [rcv EXCEPT ![s] = q],
         TreeOK(q) /\ Ahead(q) /\ DeliveredOK(q) /\ Keeps(rcv[s], q),
         NEW new, InTransit' \subseteq InTransit \cup new, \A p \in new : PacketOK(p)',
         \A i \in DOMAIN stream_frame_retransmit_queue' : Whole(stream_frame_retransmit_queue'[i])
  PROVE  DInv'
<1>1. rcv'[s] = q /\ \A t \in Streams \ {s} : rcv'[t] = rcv[t]
  BY DEF IInv, TypeOK
<1>2. ASSUME NEW t \in Streams
      PROVE  TreeOK(rcv'[t]) /\ Ahead(rcv'[t]) /\ DeliveredOK(rcv'[t]) /\ Keeps(rcv[t], rcv'[t])
  <2>1. CASE t = s
    BY <1>1, <2>1
  <2>2. CASE t # s
    <3>1. StreamOK(snd[t], rcv[t]) /\ rcv'[t] = rcv[t]
      BY <1>1, <2>2 DEF DInv
    <3> QED BY <3>1 DEF StreamOK, Keeps
  <2> QED BY <2>1, <2>2
<1> QED BY <1>2, ReceiversData

(* A step of a receiver that the pipe does not see.                        *)
LEMMA ReceiverUnseen ==
  ASSUME IInv, NEW s \in Streams, NEW q, rcv' = [rcv EXCEPT ![s] = q], UNCHANGED snd,
         q.delivered = rcv[s].delivered, q.fin_signalled = rcv[s].fin_signalled,
         q.stop_sending_requested = rcv[s].stop_sending_requested
  PROVE  UNCHANGED Pipe!vars
<1>1. rcv'[s] = q /\ \A t \in Streams \ {s} : rcv'[t] = rcv[t]
  BY DEF IInv, TypeOK
<1> QED BY <1>1, PipeSame

(* Packets that are new or changed.                                        *)
LEMMA FreshPacket ==
  ASSUME NEW f, f.type = "stream" => Whole(f)
  PROVE  PacketOK(Packet(f))
BY DEF PacketOK, Packet

(* A packet that is acknowledged or lost is still accounted for.           *)
LEMMA ChangedPacket ==
  ASSUME NEW p, NEW q, PacketOK(p), q.frame = p.frame, q.net = "arrived" => p.net = "arrived"
  PROVE  PacketOK(q)
BY DEF PacketOK

(* A new packet has not arrived.                                           *)
LEMMA OneFresh ==
  ASSUME NEW f, packets' = packets (+) Fresh(f), f.type = "stream" => Whole(f)
  PROVE  \E new : InTransit' \subseteq InTransit \cup new /\ \A p \in new : PacketOK(p)
<1>1. InTransit' = InTransit \cup {Packet(f)}
  BY PacketChanges DEF InTransit
<1>2. PICK new : new = {Packet(f)}
  OBVIOUS
<1>3. InTransit' \subseteq InTransit \cup new /\ \A p \in new : PacketOK(p)
  BY <1>1, <1>2, FreshPacket
<1> QED BY <1>3

(* The packets of a step that sends nothing.                               *)
LEMMA NonePacket ==
  ASSUME UNCHANGED packets
  PROVE  \E new : InTransit' \subseteq InTransit \cup new /\ \A p \in new : PacketOK(p)
<1>1. PICK new : new = {}
  OBVIOUS
<1>2. InTransit' \subseteq InTransit \cup new /\ \A p \in new : PacketOK(p)
  BY <1>1 DEF InTransit
<1> QED BY <1>2

-----------------------------------------------------------------------------
(* The pipe.                                                               *)

(* The bytes from the start of a stream.                                   *)
LEMMA FirstBytes ==
  ASSUME NEW n \in Nat
  PROVE  Bytes(0, n) \in Seq(Nat) /\ Len(Bytes(0, n)) = n /\ \A i \in 1..n : Bytes(0, n)[i] = i - 1
<1>1. 0 \in Nat /\ 0 <= n /\ n - 0 = n
  OBVIOUS
<1>2. /\ Bytes(0, n) \in Seq(Nat) /\ Len(Bytes(0, n)) = n - 0
      /\ \A i \in 1..(n - 0) : Bytes(0, n)[i] = 0 + i - 1
  BY <1>1, BytesAt
<1> QED BY <1>1, <1>2

(* What was written before is a prefix of what is written then.            *)
LEMMA WrittenPrefix ==
  ASSUME NEW a \in Nat, NEW b \in Nat, a <= b
  PROVE  Pipe!IsPrefix(Bytes(0, a), Bytes(0, b))
<1>1. PICK d \in Seq(Nat) : d = Bytes(0, a) /\ Len(d) = a /\ \A i \in 1..a : d[i] = i - 1
  BY FirstBytes
<1>2. PICK e \in Seq(Nat) : e = Bytes(0, b) /\ Len(e) = b /\ \A i \in 1..b : e[i] = i - 1
  BY FirstBytes
<1>3. PICK g \in Seq(Nat) : g = SubSeq(e, 1, a) /\ Len(g) = a /\ \A i \in 1..a : g[i] = e[i]
  <2>1. /\ SubSeq(e, 1, a) \in Seq(Nat) /\ Len(SubSeq(e, 1, a)) = a
        /\ \A i \in 1..a : SubSeq(e, 1, a)[i] = e[i]
    BY <1>2
  <2> QED BY <2>1
<1>4. d = g
  <2>1. Len(d) = Len(g) /\ \A i \in 1..Len(d) : d[i] = g[i]
    BY <1>1, <1>2, <1>3
  <2> QED BY <2>1, SeqEqual
<1>5. SubSeq(d, 1, Len(d)) = d
  OBVIOUS
<1>6. Len(d) <= Len(e) /\ SubSeq(d, 1, Len(d)) = SubSeq(e, 1, Len(d))
  BY <1>1, <1>2, <1>3, <1>4, <1>5
<1> QED BY <1>1, <1>2, <1>6 DEF Pipe!IsPrefix

(* A step that adds bytes or an end to a sender is a Write of the pipe.    *)
LEMMA PipeWrite ==
  ASSUME IInv, NEW s \in Streams, NEW q, snd' = [snd EXCEPT ![s] = q], UNCHANGED rcv,
         ~snd[s].fin_requested, q.fin_requested \in BOOLEAN, q.written \in Nat,
         snd[s].written <= q.written, q.reset_requested = snd[s].reset_requested
  PROVE  Pipe!Next
<1>1. snd'[s] = q /\ (\A t \in Streams \ {s} : snd'[t] = snd[t]) /\ snd[s].written \in Nat
  BY DEF IInv, TypeOK, SndStream
<1>2. Pipe!IsPrefix(Bytes(0, snd[s].written), Bytes(0, q.written))
  BY <1>1, WrittenPrefix
<1>3. \A t \in Streams :
        IF t = s THEN Pipe!IsPrefix([u \in Streams |-> Bytes(0, snd[u].written)][t],
                                    [u \in Streams |-> Bytes(0, snd'[u].written)][t])
        ELSE [u \in Streams |-> Bytes(0, snd'[u].written)][t] = [u \in Streams |-> Bytes(0, snd[u].written)][t]
  BY <1>1, <1>2
<1>4. [u \in Streams |-> snd'[u].fin_requested]
        \in {[u \in Streams |-> snd[u].fin_requested],
             [[u \in Streams |-> snd[u].fin_requested] EXCEPT ![s] = TRUE]}
  <2>1. CASE q.fin_requested
    <3>1. \A t \in Streams : snd'[t].fin_requested = (IF t = s THEN TRUE ELSE snd[t].fin_requested)
      <4> TAKE t \in Streams
      <4>1. CASE t = s
        <5>1. q.fin_requested = TRUE
          BY <2>1
        <5> QED BY <1>1, <4>1, <5>1
      <4>2. CASE t # s
        BY <1>1, <4>2
      <4> QED BY <4>1, <4>2
    <3> QED BY <3>1
  <2>2. CASE ~q.fin_requested
    <3>1. \A t \in Streams : snd'[t].fin_requested = snd[t].fin_requested
      <4>1. \A t \in Streams : snd[t].fin_requested \in BOOLEAN
        BY DEF IInv, TypeOK, SndStream
      <4> QED BY <1>1, <2>2, <4>1
    <3> QED BY <3>1
  <2> QED BY <2>1, <2>2
<1>5. /\ \A t \in Streams : snd'[t].reset_requested = snd[t].reset_requested
      /\ UNCHANGED rcv
  BY <1>1
<1>6. Pipe!Write(s)
  BY <1>3, <1>4, <1>5 DEF Pipe!Write, Bytes
<1> QED BY <1>6 DEF Pipe!Next
-----------------------------------------------------------------------------
(* Steps of the sender.                                                    *)

PipeStep == Pipe!Next \/ UNCHANGED Pipe!vars

(* Formatting a frame leaves open what is acknowledged,                    *)
LEMMA AdvancedPending ==
  ASSUME NEW st \in SndStream, NEW length \in Nat, NEW fin \in BOOLEAN
  PROVE  LET q == Advanced(st, length, fin) IN
         /\ q.exists = st.exists /\ q.is_closed = st.is_closed
         /\ q.is_output_stream = st.is_output_stream /\ q.sack_list = st.sack_list
BY Zenon DEF SndStream, Advanced

(* also when the application fills it.                                     *)
LEMMA SuppliedPending ==
  ASSUME NEW st \in SndStream, NEW length \in Nat, NEW fin \in BOOLEAN, NEW still \in BOOLEAN
  PROVE  LET q == Supplied(st, length, fin, still) IN
         /\ q.exists = st.exists /\ q.is_closed = st.is_closed
         /\ q.is_output_stream = st.is_output_stream /\ q.sack_list = st.sack_list
BY Zenon DEF SndStream, Supplied

(* picoquic_delete_stream_if_closed deletes only what is acknowledged in   *)
(* full.                                                                   *)
LEMMA DeletedPending ==
  ASSUME NEW st \in SndStream, st.is_closed => ~st.is_output_stream
  PROVE  LET q == DeletedIfClosed(st) IN AckedState(q) /\ q.sack_list = st.sack_list
<1>1. PICK closed \in BOOLEAN : closed = (st.is_closed \/ IsStreamClosed(st))
  BY DEF IsStreamClosed, SndStream
<1>2. PICK exists \in BOOLEAN : exists = ~(closed /\ IsStreamAcked(st))
  OBVIOUS
<1>3. PICK q : q = [st EXCEPT !.is_closed = closed, !.exists = exists]
  OBVIOUS
<1>4. q = DeletedIfClosed(st)
  BY <1>1, <1>2, <1>3, Zenon DEF DeletedIfClosed
<1>5. /\ q.is_closed = closed /\ q.exists = exists /\ q.is_output_stream = st.is_output_stream
      /\ q.sack_list = st.sack_list /\ q.sent_offset = st.sent_offset /\ q.reset_sent = st.reset_sent
  BY <1>3, Zenon DEF SndStream
<1>6. IsStreamAcked(q) <=> IsStreamAcked(st)
  BY <1>5 DEF IsStreamAcked
<1>7. closed => ~st.is_output_stream
  BY <1>1 DEF IsStreamClosed
<1>8. AckedState(q)
  BY <1>2, <1>5, <1>6, <1>7, Zenon DEF AckedState
<1> QED BY <1>4, <1>5, <1>8

(* A stream that is open owes nothing.                                     *)
LEMMA OpenPending ==
  ASSUME NEW q, q.exists, ~q.is_closed
  PROVE  AckedState(q)
BY DEF AckedState

(* A step that leaves the acknowledgements of a stream alone.              *)
LEMMA AckedSame ==
  ASSUME NEW st, NEW q, AckedState(st),
         q.exists = st.exists, q.is_closed = st.is_closed, q.is_output_stream = st.is_output_stream,
         q.sack_list = st.sack_list, q.sent_offset = st.sent_offset, q.reset_sent = st.reset_sent
  PROVE  AckedState(q)
BY DEF AckedState, IsStreamAcked

(* A frame that is made of the bytes from a to b has the bytes of its      *)
(* positions.                                                              *)
LEMMA StreamFrameWhole ==
  ASSUME NEW s \in Streams, NEW a \in Nat, NEW b \in Nat, a <= b, NEW fin \in BOOLEAN,
         NEW f, f = StreamFrame(s, a, Bytes(a, b), fin)
  PROVE  Whole(f)
<1>1. f.offset = a /\ f.data = Bytes(a, b)
  BY DEF StreamFrame
<1>2. Len(f.data) = b - a
  BY <1>1, BytesAt
<1>3. f.offset + Len(f.data) = b
  BY <1>1, <1>2
<1> QED BY <1>1, <1>3 DEF Whole

(* What the invariant says of one stream.                                  *)
LEMMA StreamState ==
  ASSUME DInv, NEW s \in Streams
  PROVE  /\ AckedState(snd[s]) /\ (\A i \in snd[s].sack_list : Reached(rcv[s], i))
         /\ TreeOK(rcv[s]) /\ Ahead(rcv[s]) /\ DeliveredOK(rcv[s])
BY DEF DInv, StreamOK

(* picoquic_format_stream_frame sends the bytes from sent_offset on.       *)
LEMMA SendStreamData ==
  ASSUME IInv, IInv', DInv, NEW s \in Streams, NEW length \in Nat, SendStream(s, length)
  PROVE  DInv' /\ PipeStep
<1>1. PICK st \in SndStream : st = snd[s]
  BY DEF IInv, TypeOK
<1>2. PICK fin \in BOOLEAN : fin = (st.fin_requested /\ length = NbQueued(s))
  BY <1>1 DEF SndStream
<1>3. PICK q : q = Advanced(st, length, fin)
  OBVIOUS
<1>4. /\ q \in SndStream /\ q.written = st.written /\ q.fin_requested = st.fin_requested
      /\ q.reset_requested = st.reset_requested
      /\ q.exists = st.exists /\ q.is_closed = st.is_closed /\ q.sack_list = st.sack_list
  BY <1>3, AdvancedFields, AdvancedPending
<1>5. PICK a, b \in Nat : a = st.sent_offset /\ b = a + length
  BY DEF SndStream
<1>6. PICK f : f = StreamFrame(s, a, Bytes(a, b), fin)
  OBVIOUS
<1>7. /\ packets' = packets (+) Fresh(f) /\ snd' = [snd EXCEPT ![s] = q]
      /\ UNCHANGED <<rcv, stream_frame_retransmit_queue>>
      /\ st.exists /\ st.is_output_stream
  BY <1>1, <1>2, <1>3, <1>5, <1>6 DEF SendStream, IsReady
<1>8. AckedState(q)
  BY <1>1, <1>4, <1>7, StreamState, OpenPending DEF AckedState
<1>9. Whole(f)
  <2>1. a <= b
    BY <1>5
  <2> QED BY <1>6, <2>1, StreamFrameWhole
<1>10. PICK new : InTransit' \subseteq InTransit \cup new /\ \A p \in new : PacketOK(p)
  BY <1>7, <1>9, OneFresh
<1>11. \A i \in q.sack_list : i \in snd[s].sack_list \/ Reached(rcv[s], i)
  BY <1>1, <1>4
<1>12. DInv'
  BY <1>7, <1>8, <1>10, <1>11, QueueSame, SenderData
<1>13. UNCHANGED Pipe!vars
  BY <1>1, <1>4, <1>7, SenderUnseen
<1> QED BY <1>12, <1>13 DEF PipeStep

(* A frame that the application fills is a Write of the pipe.              *)
LEMMA SendActiveData ==
  ASSUME IInv, IInv', DInv, NEW s \in Streams, NEW length \in Nat, NEW fin \in BOOLEAN,
         NEW still \in BOOLEAN, SendActive(s, length, fin, still)
  PROVE  DInv' /\ PipeStep
<1>1. PICK st \in SndStream : st = snd[s]
  BY DEF IInv, TypeOK
<1>2. CASE length = 0 /\ ~fin
  <2>1. UNCHANGED <<snd, packets, rcv, stream_frame_retransmit_queue>>
    BY <1>2 DEF SendActive
  <2>2. PICK new : InTransit' \subseteq InTransit \cup new /\ \A p \in new : PacketOK(p)
    BY <2>1, NonePacket
  <2> QED BY <2>1, <2>2, QueueSame, PacketsStep DEF PipeStep
<1>3. CASE ~(length = 0 /\ ~fin)
  <2>1. PICK q : q = Supplied(st, length, fin, still)
    OBVIOUS
  <2>2. /\ q \in SndStream /\ q.written = st.sent_offset + length /\ q.fin_requested = fin
        /\ q.reset_requested = st.reset_requested
        /\ q.exists = st.exists /\ q.is_closed = st.is_closed /\ q.sack_list = st.sack_list
    BY <2>1, SuppliedFields, SuppliedPending
  <2>3. PICK a, b, w \in Nat : a = st.sent_offset /\ b = a + length /\ w = st.written
    BY DEF SndStream
  <2>4. PICK f : f = StreamFrame(s, a, Bytes(a, b), fin)
    OBVIOUS
  <2>5. /\ packets' = packets (+) Fresh(f) /\ snd' = [snd EXCEPT ![s] = q]
        /\ UNCHANGED <<rcv, stream_frame_retransmit_queue>>
        /\ st.exists /\ st.is_output_stream /\ ~st.fin_requested
        /\ NbQueued(s) = 0 /\ ~st.reset_requested
    BY <1>1, <1>3, <2>1, <2>3, <2>4 DEF SendActive, IsReady
  <2>6. AckedState(q)
    BY <1>1, <2>2, <2>5, StreamState, OpenPending DEF AckedState
  <2>7. Whole(f)
    <3>1. a <= b
      BY <2>3
    <3> QED BY <2>4, <3>1, StreamFrameWhole
  <2>8. PICK new : InTransit' \subseteq InTransit \cup new /\ \A p \in new : PacketOK(p)
    BY <2>5, <2>7, OneFresh
  <2>9. \A i \in q.sack_list : i \in snd[s].sack_list \/ Reached(rcv[s], i)
    BY <1>1, <2>2
  <2>10. DInv'
    BY <2>5, <2>6, <2>8, <2>9, QueueSame, SenderData
  <2>11. w = a
    <3>1. ~st.reset_sent
      BY <1>1, <2>5 DEF IInv, Streamwise, SenderOK
    <3> QED BY <1>1, <2>3, <2>5, <3>1 DEF NbQueued
  <2>12. q.written = b /\ snd[s].written = a
    BY <1>1, <2>2, <2>3, <2>11
  <2>13. a <= b
    BY <2>3
  <2>14. Pipe!Next
    BY <1>1, <2>2, <2>5, <2>12, <2>13, PipeWrite
  <2> QED BY <2>10, <2>14 DEF PipeStep
<1> QED BY <1>2, <1>3

(* The sending of RESET_STREAM is nothing to the pipe.                     *)
LEMMA SendResetData ==
  ASSUME IInv, IInv', DInv, NEW s \in Streams, SendReset(s)
  PROVE  DInv' /\ PipeStep
<1>1. PICK st \in SndStream : st = snd[s]
  BY DEF IInv, TypeOK
<1>2. PICK r : r = [st EXCEPT !.reset_sent = TRUE, !.fin_sent = TRUE]
  OBVIOUS
<1>3. /\ r \in SndStream /\ r.written = st.written /\ r.fin_requested = st.fin_requested
      /\ r.reset_requested = st.reset_requested /\ r.is_closed = st.is_closed
      /\ r.is_output_stream = st.is_output_stream /\ r.sack_list = st.sack_list
  BY <1>2, Zenon DEF SndStream
<1>4. PICK q : q = DeletedIfClosed(r)
  OBVIOUS
<1>5. r.is_closed => ~r.is_output_stream
  BY <1>1, <1>3, StreamState DEF AckedState
<1>6. /\ q.written = st.written /\ q.fin_requested = st.fin_requested
      /\ q.reset_requested = st.reset_requested /\ AckedState(q) /\ q.sack_list = st.sack_list
  BY <1>3, <1>4, <1>5, DeletedFields, DeletedPending
<1>7. PICK f : f = [type |-> "reset", id |-> s, final |-> st.sent_offset]
  OBVIOUS
<1>8. /\ packets' = packets (+) Fresh(f) /\ snd' = [snd EXCEPT ![s] = q]
      /\ UNCHANGED <<rcv, stream_frame_retransmit_queue>>
  BY <1>1, <1>2, <1>4, <1>7 DEF SendReset
<1>9. f.type # "stream"
  BY <1>7
<1>10. PICK new : InTransit' \subseteq InTransit \cup new /\ \A p \in new : PacketOK(p)
  BY <1>8, <1>9, OneFresh
<1>11. \A i \in q.sack_list : i \in snd[s].sack_list \/ Reached(rcv[s], i)
  BY <1>1, <1>6
<1>12. DInv'
  BY <1>6, <1>8, <1>10, <1>11, QueueSame, SenderData
<1>13. UNCHANGED Pipe!vars
  BY <1>1, <1>6, <1>8, SenderUnseen
<1> QED BY <1>12, <1>13 DEF PipeStep

(* Leaving the output list may delete the stream, with all acknowledged.   *)
LEMMA PassExhaustedData ==
  ASSUME IInv, IInv', DInv, NEW s \in Streams, PassExhausted(s)
  PROVE  DInv' /\ PipeStep
<1>1. PICK st \in SndStream : st = snd[s]
  BY DEF IInv, TypeOK
<1>2. PICK r : r = [st EXCEPT !.is_output_stream = FALSE]
  OBVIOUS
<1>3. /\ r \in SndStream /\ r.written = st.written /\ r.fin_requested = st.fin_requested
      /\ r.reset_requested = st.reset_requested
      /\ r.is_output_stream = FALSE /\ r.sack_list = st.sack_list
  BY <1>2, Zenon DEF SndStream
<1>4. PICK q : q = DeletedIfClosed(r)
  OBVIOUS
<1>5. r.is_closed => ~r.is_output_stream
  BY <1>3
<1>6. /\ q.written = st.written /\ q.fin_requested = st.fin_requested
      /\ q.reset_requested = st.reset_requested /\ AckedState(q) /\ q.sack_list = st.sack_list
  BY <1>3, <1>4, <1>5, DeletedFields, DeletedPending
<1>7. snd' = [snd EXCEPT ![s] = q] /\ UNCHANGED <<rcv, stream_frame_retransmit_queue, packets>>
  BY <1>1, <1>2, <1>4 DEF PassExhausted
<1>8. PICK new : InTransit' \subseteq InTransit \cup new /\ \A p \in new : PacketOK(p)
  BY <1>7, NonePacket
<1>9. \A i \in q.sack_list : i \in snd[s].sack_list \/ Reached(rcv[s], i)
  BY <1>1, <1>6
<1>10. DInv'
  BY <1>6, <1>7, <1>8, <1>9, QueueSame, SenderData
<1>11. UNCHANGED Pipe!vars
  BY <1>1, <1>6, <1>7, SenderUnseen
<1> QED BY <1>10, <1>11 DEF PipeStep

(* picoquic_add_to_stream is a Write of the pipe.                          *)
LEMMA WriteData ==
  ASSUME IInv, IInv', DInv, NEW s \in Streams, NEW length \in Nat, NEW fin \in BOOLEAN,
         Write(s, length, fin)
  PROVE  DInv' /\ PipeStep
<1>1. PICK st \in SndStream : st = snd[s]
  BY DEF IInv, TypeOK
<1>2. PICK n \in Nat : n = IF st.reset_sent \/ st.stop_sending_received THEN 0 ELSE length
  OBVIOUS
<1>3. PICK active \in BOOLEAN : active = ((st.reset_sent \/ st.stop_sending_received) /\ st.is_active)
  OBVIOUS
<1>4. PICK w : w = st.written + n
  OBVIOUS
<1>5. w \in Nat /\ st.written \in Nat /\ st.written <= w
  BY <1>4 DEF SndStream
<1>6. PICK q : q = [st EXCEPT !.fin_requested = fin, !.written = w, !.is_active = active]
  OBVIOUS
<1>7. /\ q.written = w /\ q.fin_requested = fin /\ q.reset_requested = st.reset_requested
      /\ q.exists = st.exists /\ q.is_closed = st.is_closed /\ q.is_output_stream = st.is_output_stream
      /\ q.sack_list = st.sack_list /\ q.sent_offset = st.sent_offset /\ q.reset_sent = st.reset_sent
  BY <1>6, Zenon DEF SndStream
<1>8. /\ ~st.fin_requested /\ snd' = [snd EXCEPT ![s] = q]
      /\ UNCHANGED <<rcv, stream_frame_retransmit_queue, packets>>
  BY <1>1, <1>2, <1>3, <1>4, <1>6 DEF Write
<1>9. AckedState(q)
  BY <1>1, <1>7, StreamState, AckedSame
<1>10. PICK new : InTransit' \subseteq InTransit \cup new /\ \A p \in new : PacketOK(p)
  BY <1>8, NonePacket
<1>11. \A i \in q.sack_list : i \in snd[s].sack_list \/ Reached(rcv[s], i)
  BY <1>1, <1>7
<1>12. DInv'
  BY <1>8, <1>9, <1>10, <1>11, QueueSame, SenderData
<1>13. Pipe!Next
  BY <1>1, <1>5, <1>7, <1>8, PipeWrite
<1> QED BY <1>12, <1>13 DEF PipeStep

(* picoquic_mark_active_stream is nothing to the pipe.                     *)
LEMMA MarkActiveData ==
  ASSUME IInv, IInv', DInv, NEW s \in Streams, MarkActive(s)
  PROVE  DInv' /\ PipeStep
<1>1. PICK st \in SndStream : st = snd[s]
  BY DEF IInv, TypeOK
<1>2. PICK q : q = [st EXCEPT !.is_active = TRUE]
  OBVIOUS
<1>3. /\ q.written = st.written /\ q.fin_requested = st.fin_requested
      /\ q.reset_requested = st.reset_requested
      /\ q.exists = st.exists /\ q.is_closed = st.is_closed /\ q.is_output_stream = st.is_output_stream
      /\ q.sack_list = st.sack_list /\ q.sent_offset = st.sent_offset /\ q.reset_sent = st.reset_sent
  BY <1>2, Zenon DEF SndStream
<1>4. snd' = [snd EXCEPT ![s] = q] /\ UNCHANGED <<rcv, stream_frame_retransmit_queue, packets>>
  BY <1>1, <1>2 DEF MarkActive
<1>5. AckedState(q)
  BY <1>1, <1>3, StreamState, AckedSame
<1>6. PICK new : InTransit' \subseteq InTransit \cup new /\ \A p \in new : PacketOK(p)
  BY <1>4, NonePacket
<1>7. \A i \in q.sack_list : i \in snd[s].sack_list \/ Reached(rcv[s], i)
  BY <1>1, <1>3
<1>8. DInv'
  BY <1>4, <1>5, <1>6, <1>7, QueueSame, SenderData
<1>9. UNCHANGED Pipe!vars
  BY <1>1, <1>3, <1>4, SenderUnseen
<1> QED BY <1>8, <1>9 DEF PipeStep
(* An abort by the sender or by the receiver.                              *)
LEMMA PipeAbort ==
  ASSUME NEW s \in Streams,
         \A t \in Streams :
           /\ snd'[t].written = snd[t].written /\ snd'[t].fin_requested = snd[t].fin_requested
           /\ rcv'[t].delivered = rcv[t].delivered /\ rcv'[t].fin_signalled = rcv[t].fin_signalled,
         \A t \in Streams :
           (snd'[t].reset_requested \/ rcv'[t].stop_sending_requested)
             = (IF t = s THEN TRUE ELSE snd[t].reset_requested \/ rcv[t].stop_sending_requested)
  PROVE  Pipe!Next
<1>1. Pipe!Abort(s)
  BY DEF Pipe!Abort, Bytes
<1> QED BY <1>1 DEF Pipe!Next

(* picoquic_reset_stream is an Abort of the pipe.                          *)
LEMMA ResetStreamData ==
  ASSUME IInv, IInv', DInv, NEW s \in Streams, ResetStream(s)
  PROVE  DInv' /\ PipeStep
<1>1. PICK st \in SndStream : st = snd[s]
  BY DEF IInv, TypeOK
<1>2. PICK q : q = [st EXCEPT !.reset_requested = TRUE]
  OBVIOUS
<1>3. /\ q.written = st.written /\ q.fin_requested = st.fin_requested
      /\ q.reset_requested
      /\ q.exists = st.exists /\ q.is_closed = st.is_closed /\ q.is_output_stream = st.is_output_stream
      /\ q.sack_list = st.sack_list /\ q.sent_offset = st.sent_offset /\ q.reset_sent = st.reset_sent
  BY <1>2, Zenon DEF SndStream
<1>4. snd' = [snd EXCEPT ![s] = q] /\ UNCHANGED <<rcv, stream_frame_retransmit_queue, packets>>
  BY <1>1, <1>2 DEF ResetStream
<1>5. AckedState(q)
  BY <1>1, <1>3, StreamState, AckedSame
<1>6. PICK new : InTransit' \subseteq InTransit \cup new /\ \A p \in new : PacketOK(p)
  BY <1>4, NonePacket
<1>7. \A i \in q.sack_list : i \in snd[s].sack_list \/ Reached(rcv[s], i)
  BY <1>1, <1>3
<1>8. DInv'
  BY <1>4, <1>5, <1>6, <1>7, QueueSame, SenderData
<1>9. snd'[s] = q /\ \A t \in Streams \ {s} : snd'[t] = snd[t]
  BY <1>4 DEF IInv, TypeOK
<1>10. \A t \in Streams :
         /\ snd'[t].written = snd[t].written /\ snd'[t].fin_requested = snd[t].fin_requested
         /\ rcv'[t].delivered = rcv[t].delivered /\ rcv'[t].fin_signalled = rcv[t].fin_signalled
  BY <1>1, <1>3, <1>4, <1>9
<1>11. ASSUME NEW t \in Streams
       PROVE  (snd'[t].reset_requested \/ rcv'[t].stop_sending_requested)
                = (IF t = s THEN TRUE ELSE snd[t].reset_requested \/ rcv[t].stop_sending_requested)
  <2>1. CASE t = s
    BY <1>3, <1>9, <2>1, Zenon
  <2>2. CASE t # s
    <3>1. snd'[t] = snd[t] /\ rcv'[t] = rcv[t]
      BY <1>4, <1>9, <2>2
    <3> QED BY <2>2, <3>1, Zenon
  <2> QED BY <2>1, <2>2
<1> QED BY <1>8, <1>10, <1>11, PipeAbort DEF PipeStep

-----------------------------------------------------------------------------
(* Packets that are lost and repeated.                                     *)

(* A packet that is lost changes nothing that arrived.                     *)
LEMMA LoseData ==
  ASSUME IInv, IInv', DInv, NEW p \in InTransit, Lose(p)
  PROVE  DInv' /\ PipeStep
<1>1. p \in Packets /\ PacketOK(p)
  BY PacketOf DEF DInv
<1>2. PICK q : q = [p EXCEPT !.net = "dropped"]
  OBVIOUS
<1>3. q.frame = p.frame /\ q.net = "dropped"
  BY <1>1, <1>2, Zenon DEF Packets
<1>4. UNCHANGED <<snd, rcv, stream_frame_retransmit_queue>>
  BY DEF Lose
<1>5. InTransit' \subseteq InTransit \cup {q}
  <2>1. packets' = Become(p, q) \/ packets' = Gone(p)
    BY <1>2 DEF Lose
  <2> QED BY <2>1, PacketChanges DEF InTransit
<1>6. PICK new : new = {q}
  OBVIOUS
<1>7. InTransit' \subseteq InTransit \cup new /\ \A r \in new : PacketOK(r)
  <2>1. q.net = "arrived" => p.net = "arrived"
    BY <1>3
  <2> QED BY <1>1, <1>3, <1>5, <1>6, <2>1, ChangedPacket
<1> QED BY <1>4, <1>7, QueueSame, PacketsStep DEF PipeStep

(* The frame of a packet may be sent again.                                *)
LEMMA FrameAgain ==
  ASSUME DInv, NEW p \in InTransit
  PROVE  PacketOK(p) /\ PacketOK(Packet(p.frame)) /\ (p.frame.type = "stream" => Whole(p.frame))
<1>1. PacketOK(p) /\ (p.frame.type = "stream" => Whole(p.frame))
  BY DEF DInv, PacketOK
<1> QED BY <1>1, FreshPacket

(* A preemptive repeat has the bytes of the first packet.                  *)
LEMMA PreemptiveRepeatData ==
  ASSUME IInv, IInv', DInv, NEW p \in InTransit, PreemptiveRepeat(p)
  PROVE  DInv' /\ PipeStep
<1>1. p \in Packets
  BY PacketOf
<1>2. PICK q : q = [p EXCEPT !.was_preemptively_repeated = TRUE]
  OBVIOUS
<1>3. q.frame = p.frame /\ q.net = p.net
  BY <1>1, <1>2, Zenon DEF Packets
<1>4. UNCHANGED <<snd, rcv, stream_frame_retransmit_queue>>
  BY DEF PreemptiveRepeat
<1>5. InTransit' \subseteq InTransit \cup {q, Packet(p.frame)}
  <2>1. packets' = Become(p, q) (+) Fresh(p.frame)
    BY <1>2 DEF PreemptiveRepeat
  <2>2. BagToSet(Become(p, q)) \subseteq InTransit \cup {q}
    BY PacketChanges
  <2>3. BagToSet(Fresh(p.frame)) = {Packet(p.frame)}
    BY BagOfSet DEF Fresh, Packet
  <2> QED BY <2>1, <2>2, <2>3, BagSets DEF InTransit
<1>6. PICK new : new = {q, Packet(p.frame)}
  OBVIOUS
<1>7. PacketOK(q) /\ PacketOK(Packet(p.frame))
  BY <1>3, FrameAgain, ChangedPacket
<1>8. InTransit' \subseteq InTransit \cup new /\ \A r \in new : PacketOK(r)
  BY <1>5, <1>6, <1>7
<1> QED BY <1>4, <1>8, QueueSame, PacketsStep DEF PipeStep

(* What is queued for retransmission is the frame of a packet.             *)
LEMMA DeclareLostData ==
  ASSUME IInv, IInv', DInv, NEW p \in InTransit, DeclareLost(p)
  PROVE  DInv' /\ PipeStep
<1>1. p \in Packets
  BY PacketOf
<1>2. UNCHANGED <<snd, rcv>>
  BY DEF DeclareLost
<1>3. PICK q1, q2 : q1 = [p EXCEPT !.snd = "forgotten"] /\ q2 = [p EXCEPT !.snd = "declared"]
  OBVIOUS
<1>4. q1.frame = p.frame /\ q1.net = p.net /\ q2.frame = p.frame /\ q2.net = p.net
  BY <1>1, <1>3, Zenon DEF Packets
<1>5. BagToSet(Forget(p)) \subseteq InTransit \cup {q1} /\ BagToSet(Declare(p)) \subseteq InTransit \cup {q2}
  BY <1>3, PacketChanges DEF Forget, Declare
<1>6. BagToSet(Fresh(p.frame)) = {Packet(p.frame)}
  BY BagOfSet DEF Fresh, Packet
<1>7. InTransit' \subseteq InTransit \cup {q1, q2, Packet(p.frame)}
  <2>1. \/ packets' = Forget(p) \/ packets' = Declare(p) \/ packets' = Declare(p) (+) Fresh(p.frame)
    BY DEF DeclareLost
  <2> QED BY <1>5, <1>6, <2>1, BagSets DEF InTransit
<1>8. PICK new : new = {q1, q2, Packet(p.frame)}
  OBVIOUS
<1>9. PacketOK(q1) /\ PacketOK(q2) /\ PacketOK(Packet(p.frame))
  BY <1>4, FrameAgain, ChangedPacket
<1>10. InTransit' \subseteq InTransit \cup new /\ \A r \in new : PacketOK(r)
  BY <1>7, <1>8, <1>9
<1>11. \A i \in DOMAIN stream_frame_retransmit_queue' : Whole(stream_frame_retransmit_queue'[i])
  <2>1. stream_frame_retransmit_queue \in Seq(StreamFrames)
    BY DEF IInv, TypeOK
  <2>2. CASE stream_frame_retransmit_queue' = stream_frame_retransmit_queue
    BY <2>2, QueueSame
  <2>3. CASE /\ p.frame.type = "stream"
             /\ stream_frame_retransmit_queue' = Append(stream_frame_retransmit_queue, p.frame)
    <3>1. PICK f : f = p.frame
      OBVIOUS
    <3>2. Whole(f) /\ \A i \in DOMAIN stream_frame_retransmit_queue : Whole(stream_frame_retransmit_queue[i])
      BY <2>3, <3>1, FrameAgain DEF DInv
    <3>3. \A i \in DOMAIN stream_frame_retransmit_queue' :
             \/ stream_frame_retransmit_queue'[i] = f
             \/ i \in DOMAIN stream_frame_retransmit_queue
                  /\ stream_frame_retransmit_queue'[i] = stream_frame_retransmit_queue[i]
      BY <2>1, <2>3, <3>1
    <3> QED BY <3>2, <3>3
  <2> QED BY <2>2, <2>3 DEF DeclareLost
<1> QED BY <1>2, <1>10, <1>11, PacketsStep DEF PipeStep

(* Both parts of a frame that is cut in two have the bytes of their        *)
(* positions.                                                              *)
LEMMA SplitWhole ==
  ASSUME NEW f \in StreamFrames, Whole(f), NEW length \in 1..(Len(f.data) - 1)
  PROVE  Whole(StreamFrame(f.id, f.offset, SubSeq(f.data, 1, length), FALSE)) /\ Whole(Rest(f, length))
<1>1. PICK o, l \in Nat : o = f.offset /\ l = Len(f.data)
  BY EndType
<1>2. PICK m, e \in Nat : m = o + length /\ e = o + l
  BY <1>1
<1>3. o <= m /\ m <= e /\ o <= e /\ o - o + 1 = 1 /\ m - o = length /\ m - o + 1 = length + 1 /\ e - o = l
  <2>1. length \in 1..(l - 1)
    BY <1>1
  <2> QED BY <1>2, <2>1
<1>4. f.data = Bytes(o, e)
  BY <1>1, <1>2 DEF Whole
<1>5. IsPart(o, e, o, m) /\ IsPart(o, e, m, e)
  BY <1>3, BytesPart
<1>6. SubSeq(f.data, 1, length) = Bytes(o, m)
  BY <1>3, <1>4, <1>5 DEF IsPart
<1>7. SubSeq(f.data, length + 1, l) = Bytes(m, e)
  BY <1>3, <1>4, <1>5 DEF IsPart
<1>8. ASSUME NEW g, NEW a \in Nat, NEW b \in Nat, a <= b, g.offset = a, g.data = Bytes(a, b)
      PROVE  Whole(g)
  <2>1. Len(g.data) = b - a
    BY <1>8, BytesAt
  <2>2. g.offset + Len(g.data) = b
    BY <1>8, <2>1
  <2> QED BY <1>8, <2>2 DEF Whole
<1>9. PICK g : g = StreamFrame(f.id, f.offset, SubSeq(f.data, 1, length), FALSE)
  OBVIOUS
<1>10. g.offset = o /\ g.data = Bytes(o, m)
  BY <1>1, <1>6, <1>9, Zenon DEF StreamFrame
<1>11. PICK h : h = Rest(f, length)
  OBVIOUS
<1>12. h.offset = m /\ h.data = Bytes(m, e)
  BY <1>1, <1>2, <1>7, <1>11, Zenon DEF StreamFrame, Rest
<1>13. Whole(g)
  BY <1>3, <1>8, <1>10
<1>14. Whole(h)
  BY <1>3, <1>8, <1>12
<1> QED BY <1>9, <1>11, <1>13, <1>14

(* Retransmitted frames have the bytes of the first ones.                  *)
LEMMA SendQueuedData ==
  ASSUME IInv, IInv', DInv, NEW length, SendQueued(length)
  PROVE  DInv' /\ PipeStep
<1>1. PICK queue \in Seq(StreamFrames) : queue = stream_frame_retransmit_queue
  BY DEF IInv, TypeOK
<1>2. PICK f : f = Head(queue)
  OBVIOUS
<1>3. UNCHANGED <<snd, rcv>> /\ queue # << >>
  BY <1>1 DEF SendQueued
<1>4. /\ f \in StreamFrames /\ f = queue[1] /\ 1 \in DOMAIN queue
      /\ Tail(queue) \in Seq(StreamFrames)
      /\ \A i \in DOMAIN Tail(queue) : i + 1 \in DOMAIN queue /\ Tail(queue)[i] = queue[i + 1]
      /\ \A x \in StreamFrames :
           /\ <<x>> \o Tail(queue) \in Seq(StreamFrames)
           /\ \A i \in DOMAIN (<<x>> \o Tail(queue)) :
                \/ (<<x>> \o Tail(queue))[i] = x
                \/ \E j \in DOMAIN queue : (<<x>> \o Tail(queue))[i] = queue[j]
  BY <1>2, <1>3, QueueParts
<1>5. Whole(f) /\ \A i \in DOMAIN queue : Whole(queue[i])
  BY <1>1, <1>4 DEF DInv
<1>6. \A i \in DOMAIN Tail(queue) : Whole(Tail(queue)[i])
  BY <1>4, <1>5
<1>7. CASE packets' = packets /\ stream_frame_retransmit_queue' = Tail(queue)
  <2>1. PICK new : InTransit' \subseteq InTransit \cup new /\ \A p \in new : PacketOK(p)
    BY <1>7, NonePacket
  <2> QED BY <1>3, <1>6, <1>7, <2>1, PacketsStep DEF PipeStep
<1>8. CASE packets' = packets (+) Fresh(f) /\ stream_frame_retransmit_queue' = Tail(queue)
  <2>1. PICK new : InTransit' \subseteq InTransit \cup new /\ \A p \in new : PacketOK(p)
    BY <1>5, <1>8, OneFresh
  <2> QED BY <1>3, <1>6, <1>8, <2>1, PacketsStep DEF PipeStep
<1>9. CASE /\ length \in 1..(Len(f.data) - 1)
           /\ packets' = packets (+) Fresh(StreamFrame(f.id, f.offset, SubSeq(f.data, 1, length), FALSE))
           /\ stream_frame_retransmit_queue' = <<Rest(f, length)>> \o Tail(queue)
  <2>1. PICK g, h : /\ g = StreamFrame(f.id, f.offset, SubSeq(f.data, 1, length), FALSE)
                    /\ h = Rest(f, length)
    OBVIOUS
  <2>2. Whole(g) /\ Whole(h)
    BY <1>4, <1>5, <1>9, <2>1, SplitWhole
  <2>3. packets' = packets (+) Fresh(g) /\ stream_frame_retransmit_queue' = <<h>> \o Tail(queue)
    BY <1>9, <2>1
  <2>4. PICK new : InTransit' \subseteq InTransit \cup new /\ \A p \in new : PacketOK(p)
    BY <2>2, <2>3, OneFresh
  <2>5. h \in StreamFrames
    <3>1. PICK o, l \in Nat : o = f.offset /\ l = Len(f.data)
      BY <1>4, EndType
    <3>2. length \in Nat /\ length <= l /\ f.data \in Seq(Nat) /\ f.id \in Streams /\ f.fin \in BOOLEAN
      BY <1>4, <1>9, <3>1 DEF StreamFrames
    <3>3. SubSeq(f.data, length + 1, l) \in Seq(Nat)
      BY <3>1, <3>2
    <3>4. PICK d \in Seq(Nat) : d = SubSeq(f.data, length + 1, l)
      BY <3>3
    <3>5. PICK a \in Nat : a = o + length
      BY <3>2
    <3>6. h = StreamFrame(f.id, a, d, f.fin)
      BY <2>1, <3>1, <3>4, <3>5 DEF Rest
    <3> QED BY <3>2, <3>6, FrameFields
  <2>6. \A i \in DOMAIN stream_frame_retransmit_queue' : Whole(stream_frame_retransmit_queue'[i])
    BY <1>4, <1>5, <2>2, <2>3, <2>5
  <2> QED BY <1>3, <2>4, <2>6, PacketsStep DEF PipeStep
<1>10. \/ packets' = packets /\ stream_frame_retransmit_queue' = Tail(queue)
       \/ packets' = packets (+) Fresh(f) /\ stream_frame_retransmit_queue' = Tail(queue)
       \/ /\ length \in 1..(Len(f.data) - 1)
          /\ packets' = packets (+) Fresh(StreamFrame(f.id, f.offset, SubSeq(f.data, 1, length), FALSE))
          /\ stream_frame_retransmit_queue' = <<Rest(f, length)>> \o Tail(queue)
  BY <1>1, <1>2, Zenon DEF SendQueued
<1> QED BY <1>7, <1>8, <1>9, <1>10
-----------------------------------------------------------------------------
(* Steps of the receiver by which no data arrives.                         *)

(* A packet that is not of a stream.                                       *)
LEMMA OtherFresh ==
  ASSUME NEW f, f.type # "stream", packets' = packets (+) Fresh(f)
  PROVE  \E new : InTransit' \subseteq InTransit \cup new /\ \A p \in new : PacketOK(p)'
<1>1. InTransit' = InTransit \cup {Packet(f)}
  BY PacketChanges DEF InTransit
<1>2. PICK new : new = {Packet(f)}
  OBVIOUS
<1>3. \A p \in new : PacketOK(p)'
  BY <1>2 DEF PacketOK, Packet
<1> QED BY <1>1, <1>2, <1>3

(* MAX_DATA is nothing to the pipe.                                        *)
LEMMA SendMaxDataData ==
  ASSUME IInv, IInv', DInv, SendMaxData
  PROVE  DInv' /\ PipeStep
<1>1. PICK f : f = [type |-> "max_data",
                    max |-> rcv_cnx.maxdata_local + IncreasedWindow(rcv_cnx.maxdata_local)]
  OBVIOUS
<1>2. packets' = packets (+) Fresh(f) /\ UNCHANGED <<snd, rcv, stream_frame_retransmit_queue>>
  BY <1>1 DEF SendMaxData
<1>3. f.type # "stream"
  BY <1>1
<1>4. PICK new : InTransit' \subseteq InTransit \cup new /\ \A p \in new : PacketOK(p)
  BY <1>2, <1>3, OneFresh
<1> QED BY <1>2, <1>4, QueueSame, PacketsStep DEF PipeStep

(* Nor is MAX_STREAM_DATA.                                                 *)
LEMMA SendMaxStreamDataData ==
  ASSUME IInv, IInv', DInv, SendMaxStreamData
  PROVE  DInv' /\ PipeStep
<1>1. UNCHANGED <<snd, stream_frame_retransmit_queue>>
  BY DEF SendMaxStreamData
<1>2. PICK fresh : fresh = {Fresh([type |-> "max_stream_data", id |-> s, max |-> Raised(s)]) :
                              s \in {t \in Streams : NeedsCredit(t)}}
  OBVIOUS
<1>3. PICK new : new = UNION {BagToSet(B) : B \in fresh}
  OBVIOUS
<1>4. InTransit' \subseteq InTransit \cup new
  <2>1. packets' = packets (+) BagUnion(fresh)
    BY <1>2 DEF SendMaxStreamData
  <2>2. InTransit' = BagToSet(packets) \cup BagToSet(BagUnion(fresh))
    BY <2>1, BagSets DEF InTransit
  <2> QED BY <1>3, <2>2, BagOfAll_ DEF InTransit
<1>5. \A p \in new : p.frame.type # "stream"
  <2> TAKE p \in new
  <2>1. PICK B \in fresh : p \in BagToSet(B)
    BY <1>3
  <2>2. PICK s \in Streams : B = Fresh([type |-> "max_stream_data", id |-> s, max |-> Raised(s)])
    BY <1>2, <2>1
  <2>3. PICK f : f = [type |-> "max_stream_data", id |-> s, max |-> Raised(s)]
    OBVIOUS
  <2>4. BagToSet(B) = {Packet(f)}
    BY <2>2, <2>3, BagOfSet DEF Fresh, Packet
  <2>5. p.frame = f
    BY <2>1, <2>4 DEF Packet
  <2> QED BY <2>3, <2>5
<1>6. \A p \in new : PacketOK(p)'
  BY <1>5 DEF PacketOK
<1>7. ASSUME NEW s \in Streams
      PROVE  /\ rcv'[s].consumed_offset = rcv[s].consumed_offset
             /\ rcv'[s].stream_data_tree = rcv[s].stream_data_tree
             /\ rcv'[s].fin_offset = rcv[s].fin_offset /\ rcv'[s].fin_received = rcv[s].fin_received
             /\ rcv'[s].delivered = rcv[s].delivered /\ rcv'[s].fin_signalled = rcv[s].fin_signalled
             /\ rcv'[s].stop_sending_requested = rcv[s].stop_sending_requested
  <2>1. PICK r \in RcvStream : r = rcv[s]
    BY DEF IInv, TypeOK
  <2>2. rcv'[s] = r \/ rcv'[s] = [r EXCEPT !.maxdata_local = Raised(s)]
    BY <2>1 DEF SendMaxStreamData
  <2>3. /\ rcv'[s].consumed_offset = r.consumed_offset
        /\ rcv'[s].stream_data_tree = r.stream_data_tree
        /\ rcv'[s].fin_offset = r.fin_offset /\ rcv'[s].fin_received = r.fin_received
        /\ rcv'[s].delivered = r.delivered /\ rcv'[s].fin_signalled = r.fin_signalled
        /\ rcv'[s].stop_sending_requested = r.stop_sending_requested
    BY <2>2, Zenon DEF RcvStream
  <2> QED BY <2>1, <2>3
<1>8. \A s \in Streams :
        TreeOK(rcv'[s]) /\ Ahead(rcv'[s]) /\ DeliveredOK(rcv'[s]) /\ Keeps(rcv[s], rcv'[s])
  BY <1>7, StreamState, SameData
<1>9. DInv'
  BY <1>1, <1>4, <1>6, <1>8, QueueSame, ReceiversData
<1>10. UNCHANGED Pipe!vars
  BY <1>1, <1>7, PipeSame
<1> QED BY <1>9, <1>10 DEF PipeStep

(* Nor is the sending of STOP_SENDING.                                     *)
LEMMA SendStopSendingData ==
  ASSUME IInv, IInv', DInv, NEW s \in Streams, SendStopSending(s)
  PROVE  DInv' /\ PipeStep
<1>1. PICK r \in RcvStream : r = rcv[s]
  BY DEF IInv, TypeOK
<1>2. PICK q : q = [r EXCEPT !.stop_sending_sent = TRUE]
  OBVIOUS
<1>3. /\ q.consumed_offset = r.consumed_offset /\ q.stream_data_tree = r.stream_data_tree
      /\ q.fin_offset = r.fin_offset /\ q.fin_received = r.fin_received /\ q.delivered = r.delivered
      /\ q.fin_signalled = r.fin_signalled /\ q.stop_sending_requested = r.stop_sending_requested
  BY <1>2, Zenon DEF RcvStream
<1>4. rcv' = [rcv EXCEPT ![s] = q] /\ UNCHANGED <<snd, stream_frame_retransmit_queue>>
  BY <1>1, <1>2 DEF SendStopSending
<1>5. PICK f : f = [type |-> "stop_sending", id |-> s]
  OBVIOUS
<1>6. f.type # "stream"
  BY <1>5
<1>7. packets' = packets \/ packets' = packets (+) Fresh(f)
  BY <1>5 DEF SendStopSending
<1>8. \E new : InTransit' \subseteq InTransit \cup new /\ \A p \in new : PacketOK(p)'
  <2>1. CASE packets' = packets
    <3>1. PICK new : new = {}
      OBVIOUS
    <3>2. InTransit' \subseteq InTransit \cup new /\ \A p \in new : PacketOK(p)'
      BY <2>1, <3>1 DEF InTransit
    <3> QED BY <3>2
  <2>2. CASE packets' = packets (+) Fresh(f)
    BY <1>6, <2>2, OtherFresh
  <2> QED BY <1>7, <2>1, <2>2
<1>9. PICK new : InTransit' \subseteq InTransit \cup new /\ \A p \in new : PacketOK(p)'
  BY <1>8
<1>10. TreeOK(q) /\ Ahead(q) /\ DeliveredOK(q) /\ Keeps(rcv[s], q)
  BY <1>1, <1>3, StreamState, SameData
<1>11. DInv'
  BY <1>4, <1>9, <1>10, QueueSame, ReceiverData
<1>12. UNCHANGED Pipe!vars
  BY <1>1, <1>3, <1>4, ReceiverUnseen
<1> QED BY <1>11, <1>12 DEF PipeStep

(* Nor is picoquic_open_flow_control.                                      *)
LEMMA OpenFlowControlData ==
  ASSUME IInv, IInv', DInv, NEW s \in Streams, OpenFlowControl(s)
  PROVE  DInv' /\ PipeStep
<1>1. PICK r \in RcvStream : r = rcv[s]
  BY DEF IInv, TypeOK
<1>2. PICK stream, cnx : stream = r.consumed_offset + Expected /\ cnx = rcv_cnx.maxdata_local + Expected
  OBVIOUS
<1>3. PICK q : q = [r EXCEPT !.maxdata_local = stream]
  OBVIOUS
<1>4. /\ q.consumed_offset = r.consumed_offset /\ q.stream_data_tree = r.stream_data_tree
      /\ q.fin_offset = r.fin_offset /\ q.fin_received = r.fin_received /\ q.delivered = r.delivered
      /\ q.fin_signalled = r.fin_signalled /\ q.stop_sending_requested = r.stop_sending_requested
  BY <1>3, Zenon DEF RcvStream
<1>5. PICK f, g : /\ f = [type |-> "max_stream_data", id |-> s, max |-> stream]
                  /\ g = [type |-> "max_data", max |-> cnx]
  OBVIOUS
<1>6. f.type # "stream" /\ g.type # "stream"
  BY <1>5
<1>7. /\ rcv' = [rcv EXCEPT ![s] = q] /\ UNCHANGED <<snd, stream_frame_retransmit_queue>>
      /\ packets' = packets (+) Fresh(f) (+) Fresh(g)
  BY <1>1, <1>2, <1>3, <1>5 DEF OpenFlowControl
<1>8. PICK new : new = {Packet(f), Packet(g)}
  OBVIOUS
<1>9. InTransit' \subseteq InTransit \cup new
  <2>1. BagToSet(Fresh(f)) = {Packet(f)} /\ BagToSet(Fresh(g)) = {Packet(g)}
    BY BagOfSet DEF Fresh, Packet
  <2> QED BY <1>7, <1>8, <2>1, BagSets DEF InTransit
<1>10. \A p \in new : PacketOK(p)'
  BY <1>6, <1>8 DEF PacketOK, Packet
<1>11. TreeOK(q) /\ Ahead(q) /\ DeliveredOK(q) /\ Keeps(rcv[s], q)
  BY <1>1, <1>4, StreamState, SameData
<1>12. DInv'
  BY <1>7, <1>9, <1>10, <1>11, QueueSame, ReceiverData
<1>13. UNCHANGED Pipe!vars
  BY <1>1, <1>4, <1>7, ReceiverUnseen
<1> QED BY <1>12, <1>13 DEF PipeStep

(* picoquic_stop_sending is an Abort of the pipe.                          *)
LEMMA StopSendingData ==
  ASSUME IInv, IInv', DInv, NEW s \in Streams, StopSending(s)
  PROVE  DInv' /\ PipeStep
<1>1. PICK r \in RcvStream : r = rcv[s]
  BY DEF IInv, TypeOK
<1>2. PICK q : q = [r EXCEPT !.stop_sending_requested = TRUE]
  OBVIOUS
<1>3. /\ q.consumed_offset = r.consumed_offset /\ q.stream_data_tree = r.stream_data_tree
      /\ q.fin_offset = r.fin_offset /\ q.fin_received = r.fin_received /\ q.delivered = r.delivered
      /\ q.fin_signalled = r.fin_signalled /\ q.stop_sending_requested
  BY <1>2, Zenon DEF RcvStream
<1>4. rcv' = [rcv EXCEPT ![s] = q] /\ UNCHANGED <<snd, stream_frame_retransmit_queue, packets>>
  BY <1>1, <1>2 DEF StopSending
<1>5. PICK new : new = {}
  OBVIOUS
<1>6. InTransit' \subseteq InTransit \cup new /\ \A p \in new : PacketOK(p)'
  BY <1>4, <1>5 DEF InTransit
<1>7. TreeOK(q) /\ Ahead(q) /\ DeliveredOK(q) /\ Keeps(rcv[s], q)
  BY <1>1, <1>3, StreamState, SameData
<1>8. DInv'
  BY <1>4, <1>6, <1>7, QueueSame, ReceiverData
<1>9. rcv'[s] = q /\ \A t \in Streams \ {s} : rcv'[t] = rcv[t]
  BY <1>4 DEF IInv, TypeOK
<1>10. \A t \in Streams :
         /\ snd'[t].written = snd[t].written /\ snd'[t].fin_requested = snd[t].fin_requested
         /\ rcv'[t].delivered = rcv[t].delivered /\ rcv'[t].fin_signalled = rcv[t].fin_signalled
  BY <1>1, <1>3, <1>4, <1>9
<1>11. ASSUME NEW t \in Streams
       PROVE  (snd'[t].reset_requested \/ rcv'[t].stop_sending_requested)
                = (IF t = s THEN TRUE ELSE snd[t].reset_requested \/ rcv[t].stop_sending_requested)
  <2>1. CASE t = s
    BY <1>3, <1>9, <2>1, Zenon
  <2>2. CASE t # s
    <3>1. snd'[t] = snd[t] /\ rcv'[t] = rcv[t]
      BY <1>4, <1>9, <2>2
    <3> QED BY <2>2, <3>1, Zenon
  <2> QED BY <2>1, <2>2
<1> QED BY <1>8, <1>10, <1>11, PipeAbort DEF PipeStep
-----------------------------------------------------------------------------
(* Acknowledgements, and credit that arrives.                              *)

(* picoquic_process_ack_of_stream_frame adds the positions of the frame to *)
(* sack_list.                                                              *)
LEMMA AckPending ==
  ASSUME NEW st \in SndStream, NEW f \in StreamFrames, NEW q, q = AckOfStreamFrame(st, f),
         st.is_closed => ~st.is_output_stream
  PROVE  AckedState(q) /\ q.sack_list = st.sack_list \cup Positions(f)
<1>1. Positions(f) \subseteq Nat
  BY PositionsOf
<1>2. PICK P : P = Positions(f)
  OBVIOUS
<1>3. PICK r : r = [st EXCEPT !.sack_list = @ \cup P]
  OBVIOUS
<1>4. st.sack_list \cup P \in SUBSET Nat
  BY <1>1, <1>2 DEF SndStream
<1>5. /\ r \in SndStream /\ r.is_closed = st.is_closed /\ r.is_output_stream = st.is_output_stream
      /\ r.sack_list = st.sack_list \cup P
  BY <1>3, <1>4, Zenon DEF SndStream
<1>6. q = DeletedIfClosed(r)
  BY <1>2, <1>3 DEF AckOfStreamFrame
<1>7. r.is_closed => ~r.is_output_stream
  BY <1>5
<1> QED BY <1>2, <1>5, <1>6, <1>7, DeletedPending

(* An acknowledged frame has arrived, so its positions have reached the    *)
(* receiver.                                                               *)
LEMMA AckArrivesData ==
  ASSUME IInv, IInv', DInv, NEW p \in InTransit, AckArrives(p)
  PROVE  DInv' /\ PipeStep
<1>1. PICK f : f = p.frame
  OBVIOUS
<1>2. f \in Frames
  BY <1>1, PacketOf
<1>3. Acked(f) /\ UNCHANGED stream_frame_retransmit_queue /\ p.net = "arrived"
  BY <1>1 DEF AckArrives
<1>4. InTransit' \subseteq InTransit
  BY PacketChanges DEF AckArrives, InTransit
<1>5. PICK new : new = {}
  OBVIOUS
<1>6. /\ InTransit' \subseteq InTransit \cup new
      /\ (\A r \in new : PacketOK(r)) /\ (\A r \in new : PacketOK(r)')
  BY <1>4, <1>5
<1>7. CASE f.type = "stream" /\ snd[f.id].exists
  <2>1. f \in StreamFrames /\ f.id \in Streams
    BY <1>2, <1>7 DEF Frames, StreamFrames
  <2>2. PICK s \in Streams : s = f.id
    BY <2>1
  <2>3. PICK st \in SndStream : st = snd[s]
    BY DEF IInv, TypeOK
  <2>4. PICK q : q = AckOfStreamFrame(st, f)
    OBVIOUS
  <2>5. snd' = [snd EXCEPT ![s] = q] /\ UNCHANGED rcv
    BY <1>3, <1>7, <2>2, <2>3, <2>4 DEF Acked
  <2>6. st.is_closed => ~st.is_output_stream
    BY <2>3, StreamState DEF AckedState
  <2>7. AckedState(q) /\ q.sack_list = st.sack_list \cup Positions(f)
    BY <2>1, <2>4, <2>6, AckPending
  <2>8. \A i \in Positions(f) : Reached(rcv[s], i)
    <3>1. PacketOK(p)
      BY DEF DInv
    <3> QED BY <1>1, <1>3, <1>7, <2>2, <3>1 DEF PacketOK
  <2>9. \A i \in q.sack_list : i \in snd[s].sack_list \/ Reached(rcv[s], i)
    BY <2>3, <2>7, <2>8
  <2>10. DInv'
    BY <1>3, <1>6, <2>5, <2>7, <2>9, QueueSame, SenderData
  <2>11. /\ q.written = st.written /\ q.fin_requested = st.fin_requested
         /\ q.reset_requested = st.reset_requested
    BY <2>1, <2>4, AckFields
  <2>12. UNCHANGED Pipe!vars
    BY <2>3, <2>5, <2>11, SenderUnseen
  <2> QED BY <2>10, <2>12 DEF PipeStep
<1>8. CASE f.type = "max_stream_data"
  <2>1. PICK s \in Streams : s = f.id
    BY <1>2, <1>8 DEF Frames, StreamFrames
  <2>2. PICK r \in RcvStream : r = rcv[s]
    BY DEF IInv, TypeOK
  <2>3. PICK max : max = Larger(r.maxdata_local_acked, f.max)
    OBVIOUS
  <2>4. PICK q : q = [r EXCEPT !.maxdata_local_acked = max]
    OBVIOUS
  <2>5. /\ q.consumed_offset = r.consumed_offset /\ q.stream_data_tree = r.stream_data_tree
        /\ q.fin_offset = r.fin_offset /\ q.fin_received = r.fin_received /\ q.delivered = r.delivered
        /\ q.fin_signalled = r.fin_signalled /\ q.stop_sending_requested = r.stop_sending_requested
    BY <2>4, Zenon DEF RcvStream
  <2>6. UNCHANGED snd /\ rcv' = [rcv EXCEPT ![s] = q]
    BY <1>3, <1>8, <2>1, <2>2, <2>3, <2>4 DEF Acked
  <2>7. TreeOK(q) /\ Ahead(q) /\ DeliveredOK(q) /\ Keeps(rcv[s], q)
    BY <2>2, <2>5, StreamState, SameData
  <2>8. DInv'
    BY <1>3, <1>6, <2>6, <2>7, QueueSame, ReceiverData
  <2>9. UNCHANGED Pipe!vars
    BY <2>2, <2>5, <2>6, ReceiverUnseen
  <2> QED BY <2>8, <2>9 DEF PipeStep
<1>9. CASE f.type # "max_stream_data" /\ ~(f.type = "stream" /\ snd[f.id].exists)
  <2>1. UNCHANGED <<snd, rcv>>
    BY <1>3, <1>9 DEF Acked
  <2> QED BY <1>3, <1>6, <2>1, QueueSame, PacketsStep DEF PipeStep
<1> QED BY <1>7, <1>8, <1>9

(* The packet that arrives.                                                *)
LEMMA ArrivedPacket ==
  ASSUME IInv, NEW p \in InTransit, Deliver(p)
  PROVE  \E q : /\ InTransit' \subseteq InTransit \cup {q} /\ q.frame = p.frame
                /\ UNCHANGED stream_frame_retransmit_queue
<1>1. PICK q : q = [p EXCEPT !.net = "arrived"]
  OBVIOUS
<1>2. q.frame = p.frame
  BY <1>1, PacketOf, PacketFields
<1>3. packets' = Gone(p) \/ packets' = Become(p, q)
  BY <1>1 DEF Deliver
<1>4. InTransit' \subseteq InTransit \cup {q}
  BY <1>3, PacketChanges DEF InTransit
<1>5. UNCHANGED stream_frame_retransmit_queue
  BY DEF Deliver
<1> QED BY <1>2, <1>4, <1>5

(* The arrival of other frames brings no stream data.                      *)
LEMMA OtherArrived ==
  ASSUME IInv, NEW p \in InTransit, Deliver(p), p.frame.type # "stream"
  PROVE  \E new : /\ InTransit' \subseteq InTransit \cup new
                  /\ (\A r \in new : PacketOK(r)) /\ (\A r \in new : PacketOK(r)')
                  /\ UNCHANGED stream_frame_retransmit_queue
<1>1. PICK q : /\ InTransit' \subseteq InTransit \cup {q} /\ q.frame = p.frame
               /\ UNCHANGED stream_frame_retransmit_queue
  BY ArrivedPacket
<1>2. PICK new : new = {q}
  OBVIOUS
<1>3. (\A r \in new : PacketOK(r)) /\ (\A r \in new : PacketOK(r)')
  BY <1>1, <1>2 DEF PacketOK
<1> QED BY <1>1, <1>2, <1>3

(* MAX_DATA that arrives is nothing to the pipe.                           *)
LEMMA ReceiveMaxDataData ==
  ASSUME IInv, IInv', DInv, NEW p \in InTransit, Deliver(p), p.frame.type = "max_data"
  PROVE  DInv' /\ PipeStep
<1>1. PICK new : /\ InTransit' \subseteq InTransit \cup new
                 /\ (\A r \in new : PacketOK(r)) /\ (\A r \in new : PacketOK(r)')
                 /\ UNCHANGED stream_frame_retransmit_queue
  BY OtherArrived
<1>2. UNCHANGED <<snd, rcv>>
  BY DEF Deliver, ReceiveCredit
<1> QED BY <1>1, <1>2, QueueSame, PacketsStep DEF PipeStep

(* Nor is MAX_STREAM_DATA.                                                 *)
LEMMA ReceiveMaxStreamDataData ==
  ASSUME IInv, IInv', DInv, NEW p \in InTransit, Deliver(p), p.frame.type = "max_stream_data"
  PROVE  DInv' /\ PipeStep
<1>1. PICK new : /\ InTransit' \subseteq InTransit \cup new
                 /\ (\A r \in new : PacketOK(r)) /\ (\A r \in new : PacketOK(r)')
                 /\ UNCHANGED stream_frame_retransmit_queue
  BY OtherArrived
<1>2. PICK f : f = p.frame
  OBVIOUS
<1>3. PICK s \in Streams : s = f.id
  BY <1>2, PacketOf DEF Frames, StreamFrames
<1>4. PICK st \in SndStream : st = snd[s]
  BY DEF IInv, TypeOK
<1>5. PICK max : max = IF st.exists THEN Larger(st.maxdata_remote, f.max) ELSE st.maxdata_remote
  OBVIOUS
<1>6. PICK q : q = [st EXCEPT !.maxdata_remote = max]
  OBVIOUS
<1>7. /\ q.written = st.written /\ q.fin_requested = st.fin_requested
      /\ q.reset_requested = st.reset_requested
      /\ q.exists = st.exists /\ q.is_closed = st.is_closed /\ q.is_output_stream = st.is_output_stream
      /\ q.sack_list = st.sack_list /\ q.sent_offset = st.sent_offset /\ q.reset_sent = st.reset_sent
  BY <1>6, Zenon DEF SndStream
<1>8. snd' = [snd EXCEPT ![s] = q] /\ UNCHANGED rcv
  BY <1>2, <1>3, <1>4, <1>5, <1>6 DEF Deliver, ReceiveCredit
<1>9. AckedState(q)
  BY <1>4, <1>7, StreamState, AckedSame
<1>10. \A i \in q.sack_list : i \in snd[s].sack_list \/ Reached(rcv[s], i)
  BY <1>4, <1>7
<1>11. DInv'
  BY <1>1, <1>8, <1>9, <1>10, QueueSame, SenderData
<1>12. UNCHANGED Pipe!vars
  BY <1>4, <1>7, <1>8, SenderUnseen
<1> QED BY <1>11, <1>12 DEF PipeStep

(* STOP_SENDING makes the application reset the stream: an Abort of the    *)
(* pipe, or nothing.                                                       *)
LEMMA ReceiveStopSendingData ==
  ASSUME IInv, IInv', DInv, NEW p \in InTransit, Deliver(p), p.frame.type = "stop_sending"
  PROVE  DInv' /\ PipeStep
<1>1. PICK new : /\ InTransit' \subseteq InTransit \cup new
                 /\ (\A r \in new : PacketOK(r)) /\ (\A r \in new : PacketOK(r)')
                 /\ UNCHANGED stream_frame_retransmit_queue
  BY OtherArrived
<1>2. PICK f : f = p.frame
  OBVIOUS
<1>3. PICK s \in Streams : s = f.id
  BY <1>2, PacketOf DEF Frames, StreamFrames
<1>4. PICK st \in SndStream : st = snd[s]
  BY DEF IInv, TypeOK
<1>5. PICK b : b = (st.stop_sending_received \/ (st.exists /\ ~st.reset_requested /\ ~st.fin_sent))
  OBVIOUS
<1>6. PICK q : q = [st EXCEPT !.stop_sending_received = b]
  OBVIOUS
<1>7. /\ q.written = st.written /\ q.fin_requested = st.fin_requested
      /\ q.reset_requested = st.reset_requested
      /\ q.exists = st.exists /\ q.is_closed = st.is_closed /\ q.is_output_stream = st.is_output_stream
      /\ q.sack_list = st.sack_list /\ q.sent_offset = st.sent_offset /\ q.reset_sent = st.reset_sent
  BY <1>6, Zenon DEF SndStream
<1>8. snd' = [snd EXCEPT ![s] = q] /\ UNCHANGED rcv
  BY <1>2, <1>3, <1>4, <1>5, <1>6 DEF Deliver, ReceiveStopSending
<1>9. AckedState(q)
  BY <1>4, <1>7, StreamState, AckedSame
<1>10. \A i \in q.sack_list : i \in snd[s].sack_list \/ Reached(rcv[s], i)
  BY <1>4, <1>7
<1>11. DInv'
  BY <1>1, <1>8, <1>9, <1>10, QueueSame, SenderData
<1>12. UNCHANGED Pipe!vars
  BY <1>4, <1>7, <1>8, SenderUnseen
<1> QED BY <1>11, <1>12 DEF PipeStep
-----------------------------------------------------------------------------
(* Data and resets that arrive.                                            *)

(* RESET_STREAM that arrives is not handed on as data.                     *)
LEMMA ReceiveResetData ==
  ASSUME IInv, IInv', DInv, NEW p \in InTransit, Deliver(p), p.frame.type = "reset"
  PROVE  DInv' /\ PipeStep
<1>1. PICK new : /\ InTransit' \subseteq InTransit \cup new
                 /\ (\A r \in new : PacketOK(r)) /\ (\A r \in new : PacketOK(r)')
                 /\ UNCHANGED stream_frame_retransmit_queue
  BY OtherArrived
<1>2. PICK f : f = p.frame
  OBVIOUS
<1>3. f \in Frames /\ FrameOK(f) /\ f.type = "reset"
  BY <1>2, PacketOf
<1>4. PICK s \in Streams : s = f.id
  BY <1>3 DEF Frames, StreamFrames
<1>5. PICK final \in Nat : final = f.final
  BY <1>3 DEF Frames, StreamFrames
<1>6. PICK r \in RcvStream : r = rcv[s]
  BY DEF IInv, TypeOK
<1>7. PICK st \in SndStream : st = snd[s]
  BY DEF IInv, TypeOK
<1>8. st.reset_sent /\ final = st.sent_offset /\ ReceiverOK(r, st)
  BY <1>3, <1>4, <1>5, <1>6, <1>7 DEF FrameOK, IInv, Streamwise
<1>9. st.sent_offset \in Nat /\ r.fin_offset \in Nat
  BY DEF SndStream, RcvStream
<1>10. ~FlowControlError(r, final) /\ ((r.fin_received \/ r.reset_received) => final = r.fin_offset)
  <2>1. final <= snd[s].sent_offset
    BY <1>7, <1>8, <1>9
  <2> QED BY <1>6, <1>8, <2>1, NoFlowControlError DEF ReceiverOK
<1>11. PICK c : c = Committed(r, final)
  OBVIOUS
<1>12. /\ c \in RcvStream
       /\ c.fin_offset = IF final > r.fin_offset THEN final ELSE r.fin_offset
       /\ c.consumed_offset = r.consumed_offset /\ c.stream_data_tree = r.stream_data_tree
       /\ c.fin_received = r.fin_received /\ c.fin_signalled = r.fin_signalled
       /\ c.stop_sending_requested = r.stop_sending_requested /\ c.delivered = r.delivered
  BY <1>11, CommittedFields
<1>13. PICK q : q = [c EXCEPT !.reset_received = TRUE]
  OBVIOUS
<1>14. /\ q.fin_offset = c.fin_offset
       /\ q.consumed_offset = r.consumed_offset /\ q.stream_data_tree = r.stream_data_tree
       /\ q.fin_received = r.fin_received /\ q.fin_signalled = r.fin_signalled
       /\ q.stop_sending_requested = r.stop_sending_requested /\ q.delivered = r.delivered
  BY <1>12, <1>13, Zenon DEF RcvStream
<1>15. rcv' = [rcv EXCEPT ![s] = q] /\ UNCHANGED snd
  BY <1>2, <1>3, <1>4, <1>5, <1>6, <1>10, <1>11, <1>13 DEF Deliver, ReceiveReset
<1>16. TreeOK(r) /\ Ahead(r) /\ DeliveredOK(r)
  BY <1>6, StreamState
<1>17. r.fin_offset <= q.fin_offset /\ (r.fin_received => q.fin_offset = r.fin_offset) /\ q.fin_offset \in Nat
  BY <1>9, <1>10, <1>12, <1>14
<1>18. TreeOK(q)
  <2>1. ASSUME NEW n \in r.stream_data_tree PROVE n.offset + Len(n.data) <= q.fin_offset
    <3>1. n.offset + Len(n.data) <= r.fin_offset /\ n.offset + Len(n.data) \in Nat
      BY <1>16, NodeType DEF TreeOK
    <3> QED BY <1>9, <1>17, <3>1
  <2> QED BY <1>14, <1>16, <2>1 DEF TreeOK
<1>19. Ahead(q) /\ DeliveredOK(q)
  BY <1>14, <1>16 DEF Ahead, DeliveredOK
<1>20. Keeps(rcv[s], q)
  BY <1>6, <1>14, <1>17 DEF Keeps, Reached, HeldPos, Covered
<1>21. DInv'
  BY <1>1, <1>15, <1>18, <1>19, <1>20, QueueSame, ReceiverData
<1>22. UNCHANGED Pipe!vars
  BY <1>6, <1>14, <1>15, ReceiverUnseen
<1> QED BY <1>21, <1>22 DEF PipeStep

(* What a stream frame tells the application.                              *)
Tells(r, q) ==
  /\ q.stop_sending_requested = r.stop_sending_requested
  /\ r.stop_sending_requested => q.delivered = r.delivered
  /\ r.fin_signalled => q.fin_signalled

(* A frame in order only adds to what the application has,                 *)
LEMMA ArrivedTells ==
  ASSUME NEW r \in RcvStream, NEW f \in StreamFrames
  PROVE  Tells(r, Arrived(r, f))
<1>1. PICK c : c = Informed(r, f)
  OBVIOUS
<1>2. /\ c \in RcvStream /\ c.consumed_offset = r.consumed_offset
      /\ c.fin_signalled = r.fin_signalled
      /\ c.stop_sending_requested = r.stop_sending_requested /\ c.delivered = r.delivered
  BY <1>1, InformedFields
<1>3. f.offset \in Nat /\ EndOf(f) \in Nat /\ c.consumed_offset \in Nat
  BY <1>2, EndType DEF RcvStream
<1>4. Arrived(r, f) = IF c.consumed_offset < f.offset THEN Queued(c, f)
                      ELSE IF EndOf(f) >= c.consumed_offset THEN ChunkCallback(c, Unconsumed(c, f)) ELSE c
  BY <1>1 DEF Arrived, Informed
<1>5. CASE c.consumed_offset < f.offset
  <2>1. PICK q : q = Queued(c, f)
    OBVIOUS
  <2>2. /\ q.fin_signalled = c.fin_signalled /\ q.delivered = c.delivered
        /\ q.stop_sending_requested = c.stop_sending_requested
    BY <1>2, <2>1, QueuedFields
  <2>3. Tells(r, q)
    BY <1>2, <2>2, Zenon DEF Tells
  <2> QED BY <1>4, <1>5, <2>1, <2>3
<1>6. CASE ~(c.consumed_offset < f.offset) /\ EndOf(f) >= c.consumed_offset
  <2>1. f.offset <= c.consumed_offset /\ c.consumed_offset <= EndOf(f)
    BY <1>3, <1>6
  <2>2. PICK data \in Seq(Nat) : data = Unconsumed(c, f)
    BY <1>2, <2>1, UnconsumedType
  <2>3. PICK q : q = ChunkCallback(c, data)
    OBVIOUS
  <2>4. /\ q.delivered = IF c.stop_sending_requested THEN c.delivered ELSE c.delivered \o data
        /\ q.fin_signalled
             = (c.fin_signalled \/ (q.consumed_offset >= c.fin_offset /\ c.fin_received))
        /\ q.stop_sending_requested = c.stop_sending_requested
    BY <1>2, <2>3, ChunkFields
  <2>5. c.stop_sending_requested => q.delivered = c.delivered
    BY <2>4
  <2>6. Tells(r, q)
    BY <1>2, <2>4, <2>5, Zenon DEF Tells
  <2> QED BY <1>4, <1>6, <2>2, <2>3, <2>6
<1>7. CASE ~(c.consumed_offset < f.offset) /\ ~(EndOf(f) >= c.consumed_offset)
  <2>1. Tells(r, c)
    BY <1>2, Zenon DEF Tells
  <2> QED BY <1>4, <1>7, <2>1
<1> QED BY <1>5, <1>6, <1>7

(* and so does any other.                                                  *)
LEMMA InputTells ==
  ASSUME NEW r \in RcvStream, NEW f \in StreamFrames, r.consumed_offset <= r.fin_offset,
         NEW q \in NetworkInput(r, f)
  PROVE  Tells(r, q)
<1>1. PICK a : a = Arrived(r, f)
  OBVIOUS
<1>2. Tells(r, a) /\ a \in RcvStream
  BY <1>1, ArrivedTells, ArrivedTakes DEF Takes
<1>3. CASE ShouldNotify(r, f)
  <2>1. PICK to \in Reachable(a) : q = DataCallback(a, to)
    BY <1>1, <1>3 DEF NetworkInput
  <2>2. /\ q.delivered = IF a.stop_sending_requested THEN a.delivered ELSE a.delivered \o Held(a, to)
        /\ q.fin_signalled = (a.fin_signalled \/ (to >= a.fin_offset /\ a.fin_received))
        /\ q.stop_sending_requested = a.stop_sending_requested
    BY <1>2, <2>1, CalledFields
  <2>3. a.stop_sending_requested => q.delivered = a.delivered
    BY <2>2
  <2> QED BY <1>2, <2>2, <2>3, Zenon DEF Tells
<1>4. CASE ~ShouldNotify(r, f)
  BY <1>1, <1>2, <1>4 DEF NetworkInput
<1> QED BY <1>3, <1>4

(* The pipe delivers.                                                      *)
LEMMA PipeDeliver ==
  ASSUME IInv, NEW s \in Streams, NEW q, rcv' = [rcv EXCEPT ![s] = q], UNCHANGED snd,
         NEW a \in Nat, NEW b \in Nat, a <= b, b <= snd[s].written,
         rcv[s].delivered = Bytes(0, a), q.delivered = Bytes(0, b),
         ~rcv[s].fin_signalled, q.fin_signalled \in BOOLEAN,
         q.stop_sending_requested = rcv[s].stop_sending_requested,
         q.fin_signalled => snd[s].fin_requested /\ (rcv[s].stop_sending_requested \/ b = snd[s].written)
  PROVE  Pipe!Next
<1>1. rcv'[s] = q /\ (\A t \in Streams \ {s} : rcv'[t] = rcv[t]) /\ snd[s].written \in Nat
  BY DEF IInv, TypeOK, SndStream
<1>2. /\ Pipe!IsPrefix(Bytes(0, a), Bytes(0, b))
      /\ Pipe!IsPrefix(Bytes(0, b), Bytes(0, snd[s].written))
  BY <1>1, WrittenPrefix
<1>3. ASSUME NEW t \in Streams
      PROVE  IF t = s
             THEN /\ Pipe!IsPrefix(rcv[t].delivered, rcv'[t].delivered)
                  /\ Pipe!IsPrefix(rcv'[t].delivered, Bytes(0, snd[t].written))
             ELSE rcv'[t].delivered = rcv[t].delivered
  <2>1. CASE t = s
    BY <1>1, <1>2, <2>1
  <2>2. CASE t # s
    BY <1>1, <2>2
  <2> QED BY <2>1, <2>2
<1>4. [u \in Streams |-> rcv'[u].fin_signalled]
        \in {[u \in Streams |-> rcv[u].fin_signalled],
             [[u \in Streams |-> rcv[u].fin_signalled] EXCEPT ![s] = TRUE]}
  <2>1. CASE q.fin_signalled
    <3>1. \A t \in Streams : rcv'[t].fin_signalled = (IF t = s THEN TRUE ELSE rcv[t].fin_signalled)
      <4> TAKE t \in Streams
      <4>1. CASE t = s
        <5>1. q.fin_signalled = TRUE
          BY <2>1
        <5> QED BY <1>1, <4>1, <5>1
      <4>2. CASE t # s
        BY <1>1, <4>2
      <4> QED BY <4>1, <4>2
    <3> QED BY <3>1
  <2>2. CASE ~q.fin_signalled
    <3>1. \A t \in Streams : rcv'[t].fin_signalled = rcv[t].fin_signalled
      <4>1. \A t \in Streams : rcv[t].fin_signalled \in BOOLEAN
        BY DEF IInv, TypeOK, RcvStream
      <4> QED BY <1>1, <2>2, <4>1
    <3> QED BY <3>1
  <2> QED BY <2>1, <2>2
<1>5. \A t \in Streams : rcv'[t].stop_sending_requested = rcv[t].stop_sending_requested
  <2> TAKE t \in Streams
  <2>1. CASE t = s
    BY <1>1, <2>1
  <2>2. CASE t # s
    BY <1>1, <2>2
  <2> QED BY <2>1, <2>2
<1>6. rcv'[s].fin_signalled =>
        /\ snd[s].fin_requested
        /\ (snd[s].reset_requested \/ rcv[s].stop_sending_requested) \/ rcv'[s].delivered = Bytes(0, snd[s].written)
  BY <1>1
<1>7. Pipe!Deliver(s)
  BY <1>3, <1>4, <1>5, <1>6 DEF Pipe!Deliver, Bytes
<1> QED BY <1>7 DEF Pipe!Next

(* picoquic_decode_stream_frame is a Deliver of the pipe, or nothing when  *)
(* the bytes must wait.                                                    *)
LEMMA ReceiveStreamData ==
  ASSUME IInv, IInv', DInv, NEW p \in InTransit, Deliver(p), p.frame.type = "stream"
  PROVE  DInv' /\ PipeStep
<1>1. PICK f \in StreamFrames : f = p.frame
  <2>1. p.frame \in Frames
    BY PacketOf
  <2> QED BY <2>1 DEF Frames, StreamFrames
<1>2. FrameOK(f) /\ f.type = "stream" /\ Whole(f)
  BY <1>1, PacketOf, FrameAgain
<1>3. PICK s \in Streams : s = f.id
  BY EndType
<1>4. PICK r \in RcvStream : r = rcv[s]
  BY DEF IInv, TypeOK
<1>5. PICK st \in SndStream : st = snd[s]
  BY DEF IInv, TypeOK
<1>6. PICK e \in Nat : e = EndOf(f)
  BY EndType
<1>7. e <= st.sent_offset /\ (f.fin => Ended(st) /\ e = st.sent_offset) /\ ReceiverOK(r, st) /\ SenderOK(st)
  BY <1>2, <1>3, <1>4, <1>5, <1>6 DEF FrameOK, IInv, Streamwise
<1>8. /\ st.sent_offset \in Nat /\ r.fin_offset \in Nat /\ st.written \in Nat
      /\ r.consumed_offset \in Nat /\ r.consumed_offset <= r.fin_offset
      /\ r.fin_offset <= st.sent_offset /\ st.sent_offset <= st.written
  BY <1>7 DEF SndStream, RcvStream, ReceiverOK, SenderOK
<1>9. ~InputError(r, f)
  <2>1. ~FlowControlError(r, e)
    BY <1>4, <1>5, <1>7, NoFlowControlError
  <2>2. r.fin_received => r.fin_offset = st.sent_offset
    BY <1>7 DEF ReceiverOK
  <2> QED BY <1>6, <1>7, <1>8, <2>1, <2>2 DEF InputError
<1>10. PICK q \in NetworkInput(r, f) : rcv' = [rcv EXCEPT ![s] = q]
  BY <1>1, <1>2, <1>3, <1>4, <1>9 DEF Deliver, ReceiveStream
<1>11. UNCHANGED snd
  BY <1>1, <1>2 DEF Deliver
<1>12. TreeOK(r) /\ Ahead(r) /\ DeliveredOK(r)
  BY <1>4, StreamState
<1>13. Fits(r, f)
  <2>1. r.fin_received => e <= r.fin_offset
    BY <1>7, <1>8 DEF ReceiverOK
  <2>2. f.fin => r.fin_offset <= e
    BY <1>7, <1>8
  <2> QED BY <1>6, <2>1, <2>2 DEF Fits
<1>14. /\ TreeOK(q) /\ Ahead(q) /\ DeliveredOK(q) /\ Keeps(r, q)
       /\ \A i \in Positions(f) : Reached(q, i)
  BY <1>2, <1>8, <1>10, <1>12, <1>13, InputData
<1>15. Takes(r, f, q) /\ Tells(r, q)
  BY <1>8, <1>10, InputTakes, InputTells
<1>16. rcv'[s] = q
  BY <1>10 DEF IInv, TypeOK
<1>17. DInv'
  <2>1. PICK a : /\ InTransit' \subseteq InTransit \cup {a} /\ a.frame = p.frame
                 /\ UNCHANGED stream_frame_retransmit_queue
    BY ArrivedPacket
  <2>2. PICK new : new = {a}
    OBVIOUS
  <2>3. PacketOK(a)'
    BY <1>1, <1>2, <1>3, <1>14, <1>16, <2>1 DEF PacketOK, Whole, Bytes, Positions, EndOf, Reached, HeldPos, Covered
  <2>4. InTransit' \subseteq InTransit \cup new /\ \A x \in new : PacketOK(x)'
    BY <2>1, <2>2, <2>3
  <2> QED BY <1>4, <1>10, <1>11, <1>14, <2>1, <2>4, QueueSame, ReceiverData
<1>18. PICK a, b \in Nat : a = Len(r.delivered) /\ b = Len(q.delivered)
  BY <1>15 DEF Takes, RcvStream
<1>19. r.delivered = Bytes(0, a) /\ q.delivered = Bytes(0, b)
  BY <1>12, <1>14, <1>18 DEF DeliveredOK
<1>20. PICK c \in Nat : c = q.consumed_offset
  BY <1>15 DEF Takes, RcvStream
<1>21. ReceiverOK(q, st)
  BY <1>5, <1>11, <1>16 DEF IInv, Streamwise
<1>22. c <= st.sent_offset /\ r.consumed_offset <= c
  <2>1. q.fin_offset \in Nat /\ q.consumed_offset <= q.fin_offset /\ q.fin_offset <= st.sent_offset
    BY <1>15, <1>21 DEF Takes, RcvStream, ReceiverOK
  <2> QED BY <1>8, <1>15, <1>20, <2>1 DEF Takes
<1>23. b <= c /\ (~r.stop_sending_requested => b = c /\ a = r.consumed_offset)
  BY <1>12, <1>14, <1>15, <1>18, <1>20 DEF DeliveredOK, Tells
<1>24. r.stop_sending_requested => a = b
  BY <1>15, <1>18 DEF Tells
<1>25. a <= b /\ b <= st.written
  BY <1>8, <1>22, <1>23, <1>24
<1>26. CASE r.fin_signalled
  <2>1. q.fin_signalled /\ q.fin_signalled \in BOOLEAN /\ r.fin_signalled \in BOOLEAN
    BY <1>15, <1>26 DEF Tells, Takes, RcvStream
  <2>2. q.fin_signalled = r.fin_signalled
    BY <1>26, <2>1
  <2>3. r.consumed_offset = st.sent_offset
    BY <1>7, <1>26 DEF ReceiverOK
  <2>4. a = b
    BY <1>8, <1>22, <1>23, <1>24, <2>3
  <2>5. q.delivered = r.delivered
    BY <1>19, <2>4
  <2>6. q.stop_sending_requested = r.stop_sending_requested
    BY <1>15 DEF Tells
  <2>7. UNCHANGED Pipe!vars
    BY <1>4, <1>10, <1>11, <2>2, <2>5, <2>6, ReceiverUnseen
  <2> QED BY <1>17, <2>7 DEF PipeStep
<1>27. CASE ~r.fin_signalled
  <2>1. q.fin_signalled \in BOOLEAN /\ q.stop_sending_requested = r.stop_sending_requested
    BY <1>15 DEF Tells, Takes, RcvStream
  <2>2. q.fin_signalled => Ended(st) /\ c = st.sent_offset
    <3>1. q.fin_signalled => q.fin_received /\ q.consumed_offset = q.fin_offset
      BY <1>21 DEF ReceiverOK
    <3>2. q.fin_received => Ended(st) /\ q.fin_offset = st.sent_offset
      BY <1>21 DEF ReceiverOK
    <3> QED BY <1>20, <3>1, <3>2
  <2>3. q.fin_signalled => st.fin_requested /\ (r.stop_sending_requested \/ b = st.written)
    BY <1>23, <2>2 DEF Ended
  <2>4. Pipe!Next
    BY <1>4, <1>5, <1>10, <1>11, <1>19, <1>25, <1>27, <2>1, <2>3, PipeDeliver
  <2> QED BY <1>17, <2>4 DEF PipeStep
<1> QED BY <1>26, <1>27

-----------------------------------------------------------------------------
(* The steps of the specification.                                         *)
LEMMA DataInitially == Init => DInv /\ Pipe!Init
<1> SUFFICES ASSUME Init PROVE DInv /\ Pipe!Init
  OBVIOUS
<1>1. InTransit = {} /\ stream_frame_retransmit_queue = << >>
  BY BagOfSet DEF Init, InTransit, EmptyBag
<1>2. Bytes(0, 0) = << >>
  <2>1. Bytes(0, 0) \in Seq(Nat) /\ Len(Bytes(0, 0)) = 0
    BY BytesAt
  <2> QED BY <2>1
<1>3. ASSUME NEW s \in Streams PROVE StreamOK(snd[s], rcv[s])
  <2>1. /\ snd[s].exists /\ ~snd[s].is_closed /\ snd[s].sack_list = {}
        /\ rcv[s].stream_data_tree = {} /\ rcv[s].consumed_offset = 0 /\ rcv[s].delivered = << >>
    BY DEF Init
  <2>2. AckedState(snd[s])
    BY <2>1, OpenPending
  <2>3. TreeOK(rcv[s]) /\ Ahead(rcv[s])
    BY <2>1 DEF TreeOK, Ahead
  <2>4. DeliveredOK(rcv[s])
    <3>1. Len(rcv[s].delivered) = 0
      BY <2>1
    <3> QED BY <1>2, <2>1, <3>1 DEF DeliveredOK
  <2> QED BY <2>1, <2>2, <2>3, <2>4 DEF StreamOK
<1>4. DInv
  BY <1>1, <1>3 DEF DInv
<1>5. Pipe!Init
  <2>1. \A s \in Streams :
          /\ snd[s].written = 0 /\ snd[s].fin_requested = FALSE /\ snd[s].reset_requested = FALSE
          /\ rcv[s].stop_sending_requested = FALSE /\ rcv[s].delivered = << >>
          /\ rcv[s].fin_signalled = FALSE
    BY DEF Init
  <2>2. \A s \in Streams : Bytes(0, snd[s].written) = << >>
    BY <1>2, <2>1
  <2> QED BY <2>1, <2>2 DEF Pipe!Init, Bytes
<1> QED BY <1>4, <1>5

(* Every step keeps the invariant and is a step of the pipe, or none that  *)
(* it sees.                                                                *)
LEMMA DataInductive == IInv /\ IInv' /\ DInv /\ [Next]_vars => DInv' /\ PipeStep
<1> SUFFICES ASSUME IInv, IInv', DInv, [Next]_vars PROVE DInv' /\ PipeStep
  OBVIOUS
<1>1. CASE UNCHANGED vars
  <2>1. UNCHANGED <<snd, rcv, stream_frame_retransmit_queue, packets>>
    BY <1>1 DEF vars
  <2>2. PICK new : InTransit' \subseteq InTransit \cup new /\ \A p \in new : PacketOK(p)
    BY <2>1, NonePacket
  <2> QED BY <2>1, <2>2, QueueSame, PacketsStep DEF PipeStep
<1>2. ASSUME NEW s \in Streams, Application(s) PROVE DInv' /\ PipeStep
  <2>1. ASSUME NEW length \in Lengths(s), NEW fin \in BOOLEAN, Write(s, length, fin)
        PROVE  DInv' /\ PipeStep
    <3>1. length \in Nat
      BY StreamTransferAssumption DEF Lengths
    <3> QED BY <2>1, <3>1, WriteData
  <2> QED BY <1>2, <2>1, MarkActiveData, ResetStreamData, StopSendingData, OpenFlowControlData
           DEF Application
<1>3. ASSUME NEW s \in Streams, Send(s) PROVE DInv' /\ PipeStep
  <2>1. \A length \in Lengths(s) : length \in Nat
    BY StreamTransferAssumption DEF Lengths
  <2>2. ASSUME NEW length \in Lengths(s), SendStream(s, length) PROVE DInv' /\ PipeStep
    BY <2>1, <2>2, SendStreamData
  <2>3. ASSUME NEW length \in Lengths(s), NEW fin \in BOOLEAN, NEW still \in BOOLEAN,
               SendActive(s, length, fin, still)
        PROVE  DInv' /\ PipeStep
    BY <2>1, <2>3, SendActiveData
  <2> QED BY <1>3, <2>2, <2>3, SendResetData, SendStopSendingData, PassExhaustedData DEF Send
<1>4. ASSUME NEW p \in InTransit, Deliver(p) PROVE DInv' /\ PipeStep
  <2>1. p.frame.type \in {"stream", "reset", "max_data", "max_stream_data", "stop_sending"}
    BY <1>4 DEF Deliver
  <2> QED BY <1>4, <2>1, ReceiveStreamData, ReceiveResetData, ReceiveMaxDataData,
             ReceiveMaxStreamDataData, ReceiveStopSendingData
<1>5. Repeat => DInv' /\ PipeStep
  BY SendQueuedData DEF Repeat
<1> QED BY <1>1, <1>2, <1>3, <1>4, <1>5, SendMaxDataData, SendMaxStreamDataData, LoseData,
           AckArrivesData, DeclareLostData, PreemptiveRepeatData DEF Next

(* The data of the streams in every reachable state.                       *)
LEMMA DataInvariance == Spec => [](IInv /\ DInv)
<1>1. Init => IInv /\ DInv
  BY Initially, DataInitially
<1>2. IInv /\ DInv /\ [Next]_vars => (IInv /\ DInv)'
  BY Inductive, DataInductive
<1> QED BY <1>1, <1>2, PTL DEF Spec

(* No position waits twice, and none beyond the limit.                     *)
LEMMA HeldOnceHolds == IInv /\ DInv => HeldOnce
<1> SUFFICES ASSUME IInv, DInv, NEW s \in Streams
             PROVE  LET r == rcv[s]
                        held == UNION {n.offset..(n.offset + Len(n.data) - 1) : n \in r.stream_data_tree}
                    IN  /\ \A n \in r.stream_data_tree : n.offset >= r.consumed_offset
                        /\ \A n \in r.stream_data_tree, m \in r.stream_data_tree :
                             n.offset < m.offset => n.offset + Len(n.data) <= m.offset
                        /\ held \subseteq 0..(r.maxdata_local - 1)
  BY DEF HeldOnce
<1>1. PICK r \in RcvStream : r = rcv[s]
  BY DEF IInv, TypeOK
<1>2. TreeOK(r) /\ Ahead(r)
  BY <1>1, StreamState
<1>3. r.fin_offset <= r.maxdata_local
  <2>1. PICK st \in SndStream : st = snd[s]
    BY DEF IInv, TypeOK
  <2>2. SenderOK(st) /\ ReceiverOK(r, st)
    BY <1>1, <2>1 DEF IInv, Streamwise
  <2>3. /\ r.fin_offset \in Nat /\ r.maxdata_local \in Nat /\ st.sent_offset \in Nat
        /\ st.maxdata_remote \in Nat
    BY DEF SndStream, RcvStream
  <2> QED BY <2>2, <2>3 DEF SenderOK, ReceiverOK
<1>4. ASSUME NEW n \in r.stream_data_tree
      PROVE  n.offset..(n.offset + Len(n.data) - 1) \subseteq 0..(r.maxdata_local - 1)
  <2>1. PICK a, l \in Nat : a = n.offset /\ l = Len(n.data)
    BY NodeType
  <2>2. PICK m, e \in Nat : m = r.maxdata_local /\ e = r.fin_offset
    BY DEF RcvStream
  <2>3. a + l <= e /\ e <= m
    BY <1>2, <1>3, <2>1, <2>2 DEF TreeOK
  <2>4. a..(a + l - 1) \subseteq 0..(m - 1)
    BY <2>3
  <2> QED BY <2>1, <2>2, <2>4
<1>5. UNION {n.offset..(n.offset + Len(n.data) - 1) : n \in r.stream_data_tree} \subseteq 0..(r.maxdata_local - 1)
  BY <1>4
<1>6. (\A n \in r.stream_data_tree : n.offset >= r.consumed_offset)
  <2> TAKE n \in r.stream_data_tree
  <2>1. n.offset \in Nat /\ r.consumed_offset \in Nat
    BY NodeType DEF RcvStream
  <2> QED BY <1>2, <2>1 DEF Ahead
<1> QED BY <1>1, <1>2, <1>5, <1>6 DEF TreeOK

(* The receiver has all of a stream that its sender has deleted.           *)
LEMMA DestroyedHolds == IInv /\ DInv => DestroyedWhenHeld
<1> SUFFICES ASSUME IInv, DInv, NEW s \in Streams, ~snd[s].exists, ~snd[s].reset_sent
             PROVE  /\ rcv[s].fin_received
                    /\ rcv[s].fin_offset = snd[s].sent_offset
                    /\ \A i \in 0..(snd[s].sent_offset - 1) : i < rcv[s].consumed_offset \/ Covered(rcv[s], i)
  BY DEF DestroyedWhenHeld
<1>1. PICK r \in RcvStream : r = rcv[s]
  BY DEF IInv, TypeOK
<1>2. PICK st \in SndStream : st = snd[s]
  BY DEF IInv, TypeOK
<1>3. PICK sent \in Nat : sent = st.sent_offset
  BY DEF SndStream
<1>4. 0..sent \subseteq st.sack_list
  BY <1>2, <1>3, StreamState DEF AckedState, IsStreamAcked
<1>5. \A i \in 0..sent : Reached(r, i)
  BY <1>1, <1>2, <1>4, StreamState
<1>6. /\ r.fin_offset \in Nat /\ r.consumed_offset \in Nat
      /\ r.consumed_offset <= r.fin_offset /\ r.fin_offset <= sent
  BY <1>1, <1>2, <1>3 DEF IInv, Streamwise, ReceiverOK, RcvStream
<1>7. ~HeldPos(r, sent)
  <2>1. ~(sent < r.consumed_offset)
    BY <1>6
  <2>2. ~Covered(r, sent)
    <3> SUFFICES ASSUME NEW n \in r.stream_data_tree, n.offset <= sent, sent < n.offset + Len(n.data)
                 PROVE  FALSE
      BY DEF Covered
    <3>1. n.offset + Len(n.data) <= r.fin_offset /\ n.offset \in Nat /\ Len(n.data) \in Nat
      BY <1>1, StreamState, NodeType DEF TreeOK
    <3> QED BY <1>6, <3>1
  <2> QED BY <2>1, <2>2 DEF HeldPos
<1>8. sent = r.fin_offset /\ r.fin_received
  <2>1. sent \in 0..sent
    OBVIOUS
  <2> QED BY <1>5, <1>7, <2>1 DEF Reached
<1>9. ASSUME NEW i \in 0..(sent - 1) PROVE i < r.consumed_offset \/ Covered(r, i)
  <2>1. i \in 0..sent /\ i # sent
    BY <1>9
  <2> QED BY <1>5, <1>8, <2>1 DEF Reached, HeldPos
<1> QED BY <1>1, <1>2, <1>3, <1>8, <1>9

(* picoquic_queue_network_input, picoquic_stream_data_callback,            *)
(* picoquic_process_ack_of_stream_frame and                                *)
(* picoquic_delete_stream_if_closed: what waits at the receiver is stored  *)
(* once and within the limit, a sender's stream is gone only when the      *)
(* receiver has all of it, and then it is really gone.                     *)
THEOREM DataAlwaysKept == Spec => []DataKept
<1>1. IInv /\ DInv => ClosedIsPending
  BY StreamState DEF ClosedIsPending, AckedState
<1>2. IInv /\ DInv => DataKept
  BY <1>1, HeldOnceHolds, DestroyedHolds DEF DataKept
<1> QED BY <1>2, DataInvariance, PTL

(* The two endpoints implement the pipe for any loss, reordering and       *)
(* repetition: whatever picoquic_stream_data_callback hands to the         *)
(* application are the bytes given to picoquic_add_to_stream, in order and *)
(* once, and the end comes after all of them unless one side gave up.      *)
THEOREM PipeImplemented == Spec => PipeSpec
<1>1. Init => Pipe!Init
  BY DataInitially
<1>2. IInv /\ IInv' /\ DInv /\ [Next]_vars => [Pipe!Next]_(Pipe!vars)
  BY DataInductive DEF PipeStep
<1> QED BY <1>1, <1>2, DataInvariance, PTL DEF Spec, PipeSpec, Pipe!Spec

=============================================================================
