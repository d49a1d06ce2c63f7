--------------------------- MODULE StreamTransfer ---------------------------
(***************************************************************************)
(* Data of unidirectional streams from one endpoint (the sender) to the    *)
(* other over a network that loses, delays and reorders packets: stream    *)
(* frames, flow control credit of the streams and of the connection, reset *)
(* and stop_sending, loss detection, repetition and late acknowledgements. *)
(*                                                                         *)
(* Abstracted: a packet carries one frame; the room in a packet is any     *)
(* length; timers and RACK may declare any packet lost; the ACK of a       *)
(* packet that arrived reaches the sender in any order.  The sack list of  *)
(* a stream is the set of the positions it holds (AckContextProofs: its    *)
(* ranges are separated), the end of the stream is one position more.      *)
(* Byte number i of a stream has the value i.                              *)
(***************************************************************************)
EXTENDS Integers, Sequences, FiniteSets, Bags

CONSTANTS
  Streams,         (* unidirectional streams opened by the sender          *)
  Size,            (* bound: the bytes an application writes per stream    *)
  InitialMaxStreamData,
  InitialMaxData,
  Expected,        (* bytes announced to picoquic_open_flow_control        *)
  Events,          (* the rare events that may happen: "loss", "repeat",   *)
                   (* "reset", "stop", "poll", "open"                      *)
  MaxEvents        (* bound: the number of rare events                     *)

ASSUME StreamTransferAssumption ==
  /\ Size \in [Streams -> Nat]
  /\ InitialMaxStreamData \in Nat \ {0} /\ InitialMaxData \in Nat \ {0}
  /\ Expected \in Nat /\ MaxEvents \in Nat

VARIABLES
  snd,       (* picoquic_stream_head_t of each stream at the sender        *)
  rcv,       (* ... and at the receiver                                    *)
  snd_cnx,   (* credit of the connection at the sender                     *)
  rcv_cnx,   (* ... and at the receiver                                    *)
  stream_frame_retransmit_queue,
  packets,   (* bag of the packets the sender of them has not settled or   *)
             (* the network still carries                                  *)
  error,     (* the receiver closed the connection for an error            *)
  events     (* rare events so far                                         *)

vars == <<snd, rcv, snd_cnx, rcv_cnx, stream_frame_retransmit_queue, packets, error, events>>

Bytes(from, to) == [i \in 1..(to - from) |-> from + i - 1]

Init ==
  /\ snd = [s \in Streams |->
       [exists |-> TRUE, written |-> 0, is_active |-> FALSE, sent_offset |-> 0,
        fin_requested |-> FALSE, fin_sent |-> FALSE,
        reset_requested |-> FALSE, reset_sent |-> FALSE, stop_sending_received |-> FALSE,
        maxdata_remote |-> InitialMaxStreamData, sack_list |-> {},
        is_output_stream |-> TRUE, is_closed |-> FALSE]]
  /\ rcv = [s \in Streams |->
       [exists |-> FALSE, consumed_offset |-> 0, fin_offset |-> 0, stream_data_tree |-> {},
        fin_received |-> FALSE, fin_signalled |-> FALSE, reset_received |-> FALSE,
        stop_sending_requested |-> FALSE, stop_sending_sent |-> FALSE,
        maxdata_local |-> InitialMaxStreamData, maxdata_local_acked |-> 0,
        delivered |-> << >>]]
  /\ snd_cnx = [maxdata_remote |-> InitialMaxData, data_sent |-> 0]
  /\ rcv_cnx = [maxdata_local |-> InitialMaxData, maxdata_local_acked |-> 0, data_received |-> 0,
                max_stream_data_needed |-> FALSE]
  /\ stream_frame_retransmit_queue = << >>
  /\ packets = EmptyBag
  /\ error = FALSE
  /\ events = 0

-----------------------------------------------------------------------------
(* Frames and packets.  net: where the packet is; snd: what its sender     *)
(* keeps it for, "waiting" in the retransmit queue, "declared" lost and    *)
(* kept in the retransmitted queue, or "forgotten".                        *)

StreamFrame(s, offset, data, fin) ==
  [type |-> "stream", id |-> s, offset |-> offset, data |-> data, fin |-> fin]

EndOf(f) == f.offset + Len(f.data)

(* Positions that the ACK of a stream frame covers.                        *)
Positions(f) == f.offset .. (EndOf(f) - (IF f.fin THEN 0 ELSE 1))

Fresh(f) ==
  SetToBag({[frame |-> f, net |-> "flying", snd |-> "waiting", was_preemptively_repeated |-> FALSE]})

Become(p, q) == (packets (-) SetToBag({p})) (+) SetToBag({q})

Gone(p) == packets (-) SetToBag({p})

InTransit == BagToSet(packets)

(* Bounds the environment.                                                 *)
Rare(event) == event \in Events /\ events < MaxEvents /\ events' = events + 1

MaxSize == CHOOSE n \in {Size[s] : s \in Streams} : \A s \in Streams : Size[s] <= n

-----------------------------------------------------------------------------
(* Sending.                                                                *)

(* What send_queue holds; a reset frees it.                                *)
NbQueued(s) == IF snd[s].reset_sent THEN 0 ELSE snd[s].written - snd[s].sent_offset

IsReady(s) ==
  /\ snd[s].exists /\ snd[s].is_output_stream
  /\ snd_cnx.maxdata_remote > snd_cnx.data_sent
  /\ snd[s].sent_offset < snd[s].maxdata_remote
  /\ snd[s].is_active \/ NbQueued(s) > 0 \/ (snd[s].fin_requested /\ ~snd[s].fin_sent)
  /\ ~(snd[s].reset_requested /\ ~snd[s].reset_sent)

AllowedSpace(s) ==
  LET stream == snd[s].maxdata_remote - snd[s].sent_offset
      cnx == snd_cnx.maxdata_remote - snd_cnx.data_sent
  IN  IF stream < cnx THEN stream ELSE cnx

(* picoquic_is_stream_closed, picoquic_is_stream_acked and                 *)
(* picoquic_delete_stream_if_closed for a stream that only sends.          *)
IsStreamClosed(st) ==
  /\ ~st.is_output_stream
  /\ (st.fin_requested /\ st.fin_sent) \/ (st.reset_requested /\ st.reset_sent)

(* Mutant: the position of the end is not part of what must be acked.      *)
IsStreamAcked_NoFin(st) == st.reset_sent \/ 0..(st.sent_offset - 1) \subseteq st.sack_list

IsStreamAcked(st) == st.reset_sent \/ 0..st.sent_offset \subseteq st.sack_list

DeletedIfClosed(st) ==
  LET closed == st.is_closed \/ IsStreamClosed(st)
  IN  [st EXCEPT !.is_closed = closed, !.exists = ~(closed /\ IsStreamAcked(st))]

Advanced(st, length, fin) == [st EXCEPT !.sent_offset = @ + length, !.fin_sent = @ \/ fin]

(* picoquic_format_stream_frame: a stream frame of length bytes from the   *)
(* queue, with the end if it is requested and the queue is empty then.     *)
SendStream(s, length) ==
  LET st == snd[s]
      fin == st.fin_requested /\ length = NbQueued(s)
  IN  /\ IsReady(s) /\ (NbQueued(s) > 0 \/ st.fin_requested)
      /\ length <= NbQueued(s) /\ length <= AllowedSpace(s)
      /\ length > 0 \/ NbQueued(s) = 0
      /\ packets' = packets (+) Fresh(StreamFrame(s, st.sent_offset,
                                        Bytes(st.sent_offset, st.sent_offset + length), fin))
      /\ snd' = [snd EXCEPT ![s] = Advanced(st, length, fin)]
      /\ snd_cnx' = [snd_cnx EXCEPT !.data_sent = @ + length]
      /\ UNCHANGED <<rcv, rcv_cnx, stream_frame_retransmit_queue, error, events>>

Supplied(st, length, fin, still) ==
  [st EXCEPT !.written = st.sent_offset + length, !.sent_offset = @ + length,
             !.fin_requested = fin, !.fin_sent = fin, !.is_active = still /\ ~fin]

(* ... of an active stream: the application is asked for the bytes.  It    *)
(* has none for a stream it has reset.                                     *)
SendActive(s, length, fin, still) ==
  /\ IsReady(s) /\ snd[s].is_active /\ NbQueued(s) = 0 /\ ~snd[s].fin_requested
  /\ length <= AllowedSpace(s) /\ snd[s].written + length <= Size[s]
  /\ snd[s].reset_requested => length = 0 /\ ~fin
  /\ IF length = 0 /\ ~fin
     THEN UNCHANGED <<snd, packets>>
     ELSE LET st == snd[s]
          IN  /\ packets' = packets (+) Fresh(StreamFrame(s, st.sent_offset,
                                                Bytes(st.sent_offset, st.sent_offset + length), fin))
              /\ snd' = [snd EXCEPT ![s] = Supplied(st, length, fin, still)]
  /\ snd_cnx' = [snd_cnx EXCEPT !.data_sent = @ + length]
  /\ UNCHANGED <<rcv, rcv_cnx, stream_frame_retransmit_queue, error, events>>

(* picoquic_format_stream_reset_frame: what is queued is dropped.          *)
SendReset(s) ==
  /\ snd[s].exists /\ snd[s].is_output_stream
  /\ snd[s].reset_requested /\ ~snd[s].reset_sent
  /\ packets' = packets (+) Fresh([type |-> "reset", id |-> s, final |-> snd[s].sent_offset])
  /\ snd' = [snd EXCEPT ![s] = DeletedIfClosed([snd[s] EXCEPT !.reset_sent = TRUE, !.fin_sent = TRUE])]
  /\ UNCHANGED <<rcv, snd_cnx, rcv_cnx, stream_frame_retransmit_queue, error, events>>

(* picoquic_find_ready_stream passes a stream that has nothing more to     *)
(* send and takes it out of the output list.                               *)
PassExhausted(s) ==
  /\ snd[s].exists /\ snd[s].is_output_stream
  /\ ~IsReady(s)
  /\ (snd[s].fin_requested /\ snd[s].fin_sent) \/ (snd[s].reset_requested /\ snd[s].reset_sent)
  /\ snd' = [snd EXCEPT ![s] = DeletedIfClosed([snd[s] EXCEPT !.is_output_stream = FALSE])]
  /\ UNCHANGED <<rcv, snd_cnx, rcv_cnx, stream_frame_retransmit_queue, packets, error, events>>

(* picoquic_format_stream_frame_for_retransmit for the head of the queue,  *)
(* of which length bytes fit; part of the frame never carries the end.     *)
Dispensable(f) ==
  \/ ~snd[f.id].exists \/ snd[f.id].reset_sent
  \/ f.offset..EndOf(f) \subseteq snd[f.id].sack_list

(* Mutant: the end is repeated with the first part only.                   *)
Rest_NoFin(f, length) ==
  StreamFrame(f.id, f.offset + length, SubSeq(f.data, length + 1, Len(f.data)), FALSE)

Rest(f, length) ==
  StreamFrame(f.id, f.offset + length, SubSeq(f.data, length + 1, Len(f.data)), f.fin)

SendQueued(length) ==
  /\ stream_frame_retransmit_queue # << >>
  /\ LET f == Head(stream_frame_retransmit_queue)
         others == Tail(stream_frame_retransmit_queue)
     IN  \/ /\ Dispensable(f) /\ length = 0
            /\ stream_frame_retransmit_queue' = others
            /\ packets' = packets
         \/ /\ ~Dispensable(f) /\ length = Len(f.data)
            /\ stream_frame_retransmit_queue' = others
            /\ packets' = packets (+) Fresh(f)
         \/ /\ ~Dispensable(f) /\ length \in 1..(Len(f.data) - 1)
            /\ stream_frame_retransmit_queue' = <<Rest(f, length)>> \o others
            /\ packets' = packets (+) Fresh(StreamFrame(f.id, f.offset, SubSeq(f.data, 1, length), FALSE))
  /\ UNCHANGED <<snd, rcv, snd_cnx, rcv_cnx, error, events>>

-----------------------------------------------------------------------------
(* The receiver's own frames: credit and stop_sending.                     *)

(* picoquic_cc_increased_window, for an RTT up to the target.              *)
IncreasedWindow(w) == 2 * w

SendMaxData ==
  /\ 2 * rcv_cnx.data_received > rcv_cnx.maxdata_local
  /\ LET max == rcv_cnx.maxdata_local + IncreasedWindow(rcv_cnx.maxdata_local)
     IN  /\ rcv_cnx' = [rcv_cnx EXCEPT !.maxdata_local = max]
         /\ packets' = packets (+) Fresh([type |-> "max_data", max |-> max])
  /\ UNCHANGED <<snd, rcv, snd_cnx, stream_frame_retransmit_queue, error, events>>

NeedsCredit(s) ==
  /\ rcv[s].exists
  /\ ~rcv[s].fin_received /\ ~rcv[s].reset_received
  /\ 2 * rcv[s].consumed_offset > rcv[s].maxdata_local

Raised(s) == rcv[s].maxdata_local + IncreasedWindow(rcv[s].maxdata_local)

SendMaxStreamData ==
  /\ rcv_cnx.max_stream_data_needed
  /\ rcv' = [s \in Streams |->
               IF NeedsCredit(s) THEN [rcv[s] EXCEPT !.maxdata_local = Raised(s)] ELSE rcv[s]]
  /\ packets' = packets (+) BagUnion({Fresh([type |-> "max_stream_data", id |-> s, max |-> Raised(s)]) :
                                        s \in {t \in Streams : NeedsCredit(t)}})
  /\ rcv_cnx' = [rcv_cnx EXCEPT !.max_stream_data_needed = FALSE]
  /\ UNCHANGED <<snd, snd_cnx, stream_frame_retransmit_queue, error, events>>

SendStopSending(s) ==
  /\ rcv[s].stop_sending_requested /\ ~rcv[s].stop_sending_sent
  /\ rcv' = [rcv EXCEPT ![s].stop_sending_sent = TRUE]
  /\ packets' = IF rcv[s].fin_received \/ rcv[s].reset_received THEN packets
                ELSE packets (+) Fresh([type |-> "stop_sending", id |-> s])
  /\ UNCHANGED <<snd, snd_cnx, rcv_cnx, stream_frame_retransmit_queue, error, events>>

-----------------------------------------------------------------------------
(* Arrival at the receiver.  The nodes of stream_data_tree hold the bytes  *)
(* that are ahead of consumed_offset; picoquic_queue_network_input adds a  *)
(* node for each gap between them that the frame fills.                    *)

Covered(r, i) == \E n \in r.stream_data_tree : n.offset <= i /\ i < n.offset + Len(n.data)

NewPositions(r, f) ==
  {i \in f.offset..(EndOf(f) - 1) : i >= r.consumed_offset /\ ~Covered(r, i)}

Runs(P) ==
  {i \in P \X P : i[1] <= i[2] /\ i[1]..i[2] \subseteq P /\ i[1] - 1 \notin P /\ i[2] + 1 \notin P}

Queued(r, f) ==
  [r EXCEPT !.stream_data_tree =
     @ \cup {[offset |-> i[1], data |-> SubSeq(f.data, i[1] - f.offset + 1, i[2] - f.offset + 1)] :
               i \in Runs(NewPositions(r, f))}]

(* picoquic_stream_data_chunk_callback: the application is told nothing    *)
(* after it has asked to stop.                                             *)
ChunkCallback(r, data) ==
  LET consumed == r.consumed_offset + Len(data)
  IN  [r EXCEPT !.consumed_offset = consumed,
                !.delivered = IF r.stop_sending_requested THEN @ ELSE @ \o data,
                !.fin_signalled = @ \/ (consumed >= r.fin_offset /\ r.fin_received)]

(* Mutant: bytes that another frame has brought are delivered again.       *)
Unconsumed_All(r, f) == f.data

Unconsumed(r, f) == SubSeq(f.data, r.consumed_offset - f.offset + 1, Len(f.data))

(* picoquic_stream_data_callback: the nodes in order, as far as they       *)
(* continue what is consumed, so up to a position that none of them holds, *)
(* and the end if no more data is missing.                                 *)
Reachable(r) ==
  {to \in r.consumed_offset..r.fin_offset :
     ~Covered(r, to) /\ \A i \in r.consumed_offset..(to - 1) : Covered(r, i)}

HeldByte(r, i) ==
  LET n == CHOOSE n \in r.stream_data_tree : n.offset <= i /\ i < n.offset + Len(n.data)
  IN  n.data[i - n.offset + 1]

Held(r, to) == [k \in 1..(to - r.consumed_offset) |-> HeldByte(r, r.consumed_offset + k - 1)]

DataCallback(r, to) ==
  [ChunkCallback(r, Held(r, to)) EXCEPT !.stream_data_tree = {n \in @ : n.offset > to}]

(* picoquic_flow_control_check_stream_offset                               *)
FlowControlError(r, offset) ==
  \/ offset > r.maxdata_local
  \/ offset > r.fin_offset
       /\ rcv_cnx.data_received + (offset - r.fin_offset) > rcv_cnx.maxdata_local

(* Mutant: bytes held out of order count again when the gap is closed.     *)
NewBytes_NotConsumed(r, offset) ==
  IF offset > r.consumed_offset THEN offset - r.consumed_offset ELSE 0

NewBytes(r, offset) == IF offset > r.fin_offset THEN offset - r.fin_offset ELSE 0

Committed(r, offset) == [r EXCEPT !.exists = TRUE, !.fin_offset = @ + NewBytes(r, offset)]

(* picoquic_stream_network_input                                           *)
InputError(r, f) ==
  IF r.fin_received THEN IF f.fin THEN r.fin_offset # EndOf(f) ELSE EndOf(f) > r.fin_offset
  ELSE EndOf(f) > r.fin_offset /\ FlowControlError(r, EndOf(f))

(* A frame that continues what is consumed is delivered at once, one that  *)
(* is ahead of it is queued.                                               *)
Arrived(r0, f) ==
  LET r == [Committed(r0, EndOf(f)) EXCEPT !.fin_received = @ \/ f.fin]
  IN  IF r.consumed_offset < f.offset THEN Queued(r, f)
      ELSE IF EndOf(f) >= r.consumed_offset THEN ChunkCallback(r, Unconsumed(r, f)) ELSE r

ShouldNotify(r0, f) ==
  IF r0.consumed_offset < f.offset
  THEN NewPositions(r0, f) # {} \/ (f.fin /\ ~r0.fin_received)
  ELSE EndOf(f) >= r0.consumed_offset

(* The stream after the frame: one state, as there is one reachable        *)
(* position.                                                               *)
NetworkInput(r0, f) ==
  LET r == Arrived(r0, f)
  IN  IF ShouldNotify(r0, f) THEN {DataCallback(r, to) : to \in Reachable(r)} ELSE {r}

ReceiveStream(f) ==
  LET r == rcv[f.id]
  IN  IF InputError(r, f)
      THEN error' = TRUE /\ UNCHANGED <<rcv, rcv_cnx>>
      ELSE \E q \in NetworkInput(r, f) :
           /\ rcv' = [rcv EXCEPT ![f.id] = q]
           /\ rcv_cnx' = [rcv_cnx EXCEPT
                !.data_received = @ + NewBytes(r, EndOf(f)),
                !.max_stream_data_needed = @ \/ (~q.fin_received /\ ~q.reset_received
                                                   /\ 2 * q.consumed_offset > q.maxdata_local)]
           /\ UNCHANGED error

(* picoquic_decode_stream_reset_frame                                      *)
ReceiveReset(f) ==
  LET r == rcv[f.id]
  IN  IF \/ (r.fin_received \/ r.reset_received) /\ f.final # r.fin_offset
         \/ FlowControlError(r, f.final)
      THEN error' = TRUE /\ UNCHANGED <<rcv, rcv_cnx>>
      ELSE /\ rcv' = [rcv EXCEPT ![f.id] = [Committed(r, f.final) EXCEPT !.reset_received = TRUE]]
           /\ rcv_cnx' = [rcv_cnx EXCEPT !.data_received = @ + NewBytes(r, f.final)]
           /\ UNCHANGED error

(* Arrival at the sender: picoquic_decode_max_data_frame,                  *)
(* picoquic_decode_max_stream_data_frame, picoquic_decode_stop_sending_frame. *)
Larger(a, b) == IF a > b THEN a ELSE b

ReceiveCredit(f) ==
  IF f.type = "max_data"
  THEN snd_cnx' = [snd_cnx EXCEPT !.maxdata_remote = Larger(@, f.max)] /\ UNCHANGED snd
  ELSE snd' = [snd EXCEPT ![f.id].maxdata_remote = IF snd[f.id].exists THEN Larger(@, f.max) ELSE @]
         /\ UNCHANGED snd_cnx

ReceiveStopSending(f) ==
  snd' = [snd EXCEPT ![f.id].stop_sending_received =
            @ \/ (snd[f.id].exists /\ ~snd[f.id].reset_requested /\ ~snd[f.id].fin_sent)]

Deliver(p) ==
  /\ p.net = "flying"
  /\ packets' = IF p.snd = "forgotten" THEN Gone(p) ELSE Become(p, [p EXCEPT !.net = "arrived"])
  /\ \/ p.frame.type = "stream" /\ ReceiveStream(p.frame) /\ UNCHANGED <<snd, snd_cnx>>
     \/ p.frame.type = "reset" /\ ReceiveReset(p.frame) /\ UNCHANGED <<snd, snd_cnx>>
     \/ p.frame.type \in {"max_data", "max_stream_data"} /\ ReceiveCredit(p.frame)
          /\ UNCHANGED <<rcv, rcv_cnx, error>>
     \/ p.frame.type = "stop_sending" /\ ReceiveStopSending(p.frame)
          /\ UNCHANGED <<rcv, snd_cnx, rcv_cnx, error>>
  /\ UNCHANGED <<stream_frame_retransmit_queue, events>>

Lose(p) ==
  /\ p.net = "flying" /\ Rare("loss")
  /\ packets' = IF p.snd = "waiting" THEN Become(p, [p EXCEPT !.net = "dropped"]) ELSE Gone(p)
  /\ UNCHANGED <<snd, rcv, snd_cnx, rcv_cnx, stream_frame_retransmit_queue, error>>

-----------------------------------------------------------------------------
(* Acknowledgement and repetition of the frames of a packet.               *)

(* picoquic_process_ack_of_stream_frame                                    *)
AckOfStreamFrame(st, f) == DeletedIfClosed([st EXCEPT !.sack_list = @ \cup Positions(f)])

(* picoquic_process_ack_of_frames, for a packet of the retransmit queue    *)
(* (picoquic_process_ack_range) or one declared lost                       *)
(* (picoquic_check_spurious_retransmission).                               *)
Acked(f) ==
  /\ snd' = IF f.type = "stream" /\ snd[f.id].exists
            THEN [snd EXCEPT ![f.id] = AckOfStreamFrame(snd[f.id], f)] ELSE snd
  /\ rcv' = IF f.type = "max_stream_data"
            THEN [rcv EXCEPT ![f.id].maxdata_local_acked = Larger(@, f.max)] ELSE rcv
  /\ rcv_cnx' = IF f.type = "max_data"
                THEN [rcv_cnx EXCEPT !.maxdata_local_acked = Larger(@, f.max)] ELSE rcv_cnx

AckArrives(p) ==
  /\ p.net = "arrived"
  /\ packets' = Gone(p)
  /\ Acked(p.frame)
  /\ UNCHANGED <<snd_cnx, stream_frame_retransmit_queue, error, events>>

(* picoquic_check_frame_needs_repeat                                       *)
NeedsRepeat(f) ==
  CASE f.type = "stream" ->
         snd[f.id].exists /\ ~snd[f.id].reset_sent /\ ~(Positions(f) \subseteq snd[f.id].sack_list)
    [] f.type = "max_data" ->
         f.max >= rcv_cnx.maxdata_local /\ f.max > rcv_cnx.maxdata_local_acked
    [] f.type = "max_stream_data" ->
         /\ ~rcv[f.id].fin_received /\ ~rcv[f.id].reset_received /\ ~rcv[f.id].stop_sending_sent
         /\ f.max >= rcv[f.id].maxdata_local /\ f.max > rcv[f.id].maxdata_local_acked
    [] OTHER -> TRUE

Forget(p) == IF p.net = "flying" THEN Become(p, [p EXCEPT !.snd = "forgotten"]) ELSE Gone(p)

Declare(p) == IF p.net = "dropped" THEN Gone(p) ELSE Become(p, [p EXCEPT !.snd = "declared"])

(* picoquic_retransmit_needed_packet and picoquic_copy_before_retransmit,  *)
(* for a packet that was lost, or one that was not: the timer was too      *)
(* short, or packets were reordered.                                       *)
DeclareLost(p) ==
  /\ p.snd = "waiting"
  /\ IF p.net = "dropped" THEN UNCHANGED events ELSE Rare("repeat")
  /\ IF p.was_preemptively_repeated \/ ~NeedsRepeat(p.frame)
     THEN packets' = Forget(p) /\ UNCHANGED stream_frame_retransmit_queue
     ELSE IF p.frame.type = "stream"
     THEN /\ stream_frame_retransmit_queue' = Append(stream_frame_retransmit_queue, p.frame)
          /\ packets' = Declare(p)
     ELSE /\ packets' = Declare(p) (+) Fresh(p.frame)
          /\ UNCHANGED stream_frame_retransmit_queue
  /\ UNCHANGED <<snd, rcv, snd_cnx, rcv_cnx, error>>

(* picoquic_preemptive_retransmit_packet: when there is nothing else to    *)
(* send, packets of finished streams are repeated before they are lost.    *)
PreemptiveRepeat(p) ==
  /\ p.snd = "waiting" /\ ~p.was_preemptively_repeated
  /\ Rare("repeat")
  /\ p.frame.type \in {"stream", "max_data", "max_stream_data"} /\ NeedsRepeat(p.frame)
  /\ p.frame.type = "stream" => snd[p.frame.id].fin_sent
  /\ packets' = Become(p, [p EXCEPT !.was_preemptively_repeated = TRUE]) (+) Fresh(p.frame)
  /\ UNCHANGED <<snd, rcv, snd_cnx, rcv_cnx, stream_frame_retransmit_queue, error>>

-----------------------------------------------------------------------------
(* The applications.                                                       *)

(* picoquic_add_to_stream_with_ctx, with the end or without: it fails for  *)
(* a stream that was reset or stopped, but the end stays requested.  An    *)
(* application writes nothing after the end or its own reset, and not to   *)
(* an active stream that it was told to stop (README, section 3).          *)
Write(s, length, fin) ==
  LET refused == snd[s].reset_sent \/ snd[s].stop_sending_received
  IN  /\ snd[s].exists /\ ~snd[s].fin_requested /\ ~snd[s].reset_requested
      /\ ~(snd[s].is_active /\ snd[s].stop_sending_received)
      /\ length > 0 \/ fin
      /\ snd[s].written + length <= Size[s]
      /\ snd' = [snd EXCEPT ![s] =
                   [snd[s] EXCEPT !.fin_requested = fin,
                                  !.written = snd[s].written + IF refused THEN 0 ELSE length,
                                  !.is_active = refused /\ snd[s].is_active]]
      /\ UNCHANGED <<rcv, snd_cnx, rcv_cnx, stream_frame_retransmit_queue, packets, error, events>>

MarkActive(s) ==
  /\ Rare("poll") /\ snd[s].exists
  /\ ~snd[s].is_active /\ ~snd[s].fin_requested /\ ~snd[s].reset_requested
  /\ snd[s].written < Size[s]
  /\ snd' = [snd EXCEPT ![s].is_active = TRUE]
  /\ UNCHANGED <<rcv, snd_cnx, rcv_cnx, stream_frame_retransmit_queue, packets, error>>

ResetStream(s) ==
  /\ Rare("reset") /\ snd[s].exists
  /\ ~snd[s].fin_sent /\ ~snd[s].reset_requested
  /\ snd' = [snd EXCEPT ![s].reset_requested = TRUE]
  /\ UNCHANGED <<rcv, snd_cnx, rcv_cnx, stream_frame_retransmit_queue, packets, error>>

StopSending(s) ==
  /\ Rare("stop") /\ rcv[s].exists
  /\ ~rcv[s].reset_received /\ ~rcv[s].stop_sending_requested
  /\ rcv' = [rcv EXCEPT ![s].stop_sending_requested = TRUE]
  /\ UNCHANGED <<snd, snd_cnx, rcv_cnx, stream_frame_retransmit_queue, packets, error>>

(* picoquic_open_flow_control                                              *)
OpenFlowControl(s) ==
  /\ Rare("open") /\ rcv[s].exists
  /\ rcv[s].consumed_offset + Expected > rcv[s].maxdata_local
  /\ LET stream == rcv[s].consumed_offset + Expected
         cnx == rcv_cnx.maxdata_local + Expected
     IN  /\ rcv' = [rcv EXCEPT ![s].maxdata_local = stream]
         /\ rcv_cnx' = [rcv_cnx EXCEPT !.maxdata_local = cnx]
         /\ packets' = packets (+) Fresh([type |-> "max_stream_data", id |-> s, max |-> stream])
                                (+) Fresh([type |-> "max_data", max |-> cnx])
  /\ UNCHANGED <<snd, snd_cnx, stream_frame_retransmit_queue, error>>

-----------------------------------------------------------------------------
Lengths(s) == 0..Size[s]

Application(s) ==
  \/ \E length \in Lengths(s), fin \in BOOLEAN : Write(s, length, fin)
  \/ MarkActive(s)
  \/ ResetStream(s)
  \/ StopSending(s)
  \/ OpenFlowControl(s)

Send(s) ==
  \/ \E length \in Lengths(s) :
       \/ SendStream(s, length)
       \/ \E fin, still \in BOOLEAN : SendActive(s, length, fin, still)
  \/ SendReset(s)
  \/ SendStopSending(s)
  \/ PassExhausted(s)

Repeat == \E length \in 0..MaxSize : SendQueued(length)

Next ==
  /\ ~error
  /\ \/ \E s \in Streams : Application(s) \/ Send(s)
     \/ Repeat
     \/ SendMaxData
     \/ SendMaxStreamData
     \/ \E p \in InTransit :
          Deliver(p) \/ Lose(p) \/ AckArrives(p) \/ DeclareLost(p) \/ PreemptiveRepeat(p)

Spec == Init /\ [][Next]_vars

(* The packet loop calls until nothing is left to send; packets arrive or  *)
(* are lost; the receiver's ACK frames repeat a range until one of them    *)
(* arrives; a lost packet meets its timer.  Nothing is asked of the        *)
(* applications.  It is enough that one of these steps is taken whenever   *)
(* there is one, as none of them can be repeated for ever.                 *)
Progress ==
  /\ ~error
  /\ \/ \E s \in Streams :
          \/ \E length \in Lengths(s) : SendStream(s, length)
          \/ SendReset(s)
          \/ PassExhausted(s)
     \/ Repeat
     \/ SendMaxData
     \/ SendMaxStreamData
     \/ \E p \in InTransit :
          \/ Deliver(p)
          \/ p.snd = "waiting" /\ AckArrives(p)
          \/ p.net = "dropped" /\ DeclareLost(p)

FairSpec == Spec /\ WF_vars(Progress)

-----------------------------------------------------------------------------
(* Properties.                                                             *)

(* The receiver never closes the connection for an error of flow control   *)
(* or of final offsets: what a sender may send by the credit it has heard  *)
(* of is within the limits the receiver checks, whatever is lost, repeated *)
(* and reordered.                                                          *)
CreditRespected == ~error

(* The data that the receiver holds back is stored once, ahead of what is  *)
(* consumed, and within the limit it has granted.                          *)
HeldOnce ==
  \A s \in Streams :
    LET r == rcv[s]
        held == UNION {n.offset..(n.offset + Len(n.data) - 1) : n \in r.stream_data_tree}
    IN  /\ \A n \in r.stream_data_tree : n.offset >= r.consumed_offset
        /\ \A n \in r.stream_data_tree, m \in r.stream_data_tree :
             n.offset < m.offset => n.offset + Len(n.data) <= m.offset
        /\ held \subseteq 0..(r.maxdata_local - 1)

(* frames.c, picoquic_check_frame_needs_repeat: a stream is destroyed only *)
(* if it was fully acked.  Then the receiver has all of it and its end,    *)
(* unless the stream was reset.                                            *)
DestroyedWhenHeld ==
  \A s \in Streams :
    ~snd[s].exists /\ ~snd[s].reset_sent
      => /\ rcv[s].fin_received
         /\ rcv[s].fin_offset = snd[s].sent_offset
         /\ \A i \in 0..(snd[s].sent_offset - 1) : i < rcv[s].consumed_offset \/ Covered(rcv[s], i)

(* A closed stream whose data is acked is gone: the functions that use a   *)
(* stream after picoquic_delete_stream_if_closed rely on it.               *)
ClosedIsPending ==
  \A s \in Streams : snd[s].exists => ~(snd[s].is_closed /\ IsStreamAcked(snd[s]))

(* The state of a stream at its two ends fits together, at every moment of *)
(* loss, repetition, reset and deletion.                                   *)
DataKept == HeldOnce /\ DestroyedWhenHeld /\ ClosedIsPending

(* What the applications see is a pipe.                                    *)
Pipe ==
  INSTANCE StreamPipe WITH
    written   <- [s \in Streams |-> Bytes(0, snd[s].written)],
    closed    <- [s \in Streams |-> snd[s].fin_requested],
    aborted   <- [s \in Streams |-> snd[s].reset_requested \/ rcv[s].stop_sending_requested],
    delivered <- [s \in Streams |-> rcv[s].delivered],
    finished  <- [s \in Streams |-> rcv[s].fin_signalled]

(* The bytes arrive in order and once, and the end after all of them.      *)
PipeSpec == Pipe!Spec

(* What is written up to the end arrives, and the sender's stream is       *)
(* deleted, unless the stream is aborted: neither credit nor repetition    *)
(* gets stuck.                                                             *)
AllDelivered ==
  \A s \in Streams :
    snd[s].fin_requested
      ~> \/ rcv[s].fin_signalled /\ ~snd[s].exists
         \/ snd[s].reset_requested \/ rcv[s].stop_sending_requested
=============================================================================
