------------------------------- MODULE PathMtu -------------------------------
(***************************************************************************)
(* The discovery of the MTU of a path.  A probe is longer than the MTU; an *)
(* ACK of a packet that is longer, also a late one, raises it; the loss of *)
(* a probe makes the next one shorter; too many losses of packets of full  *)
(* size start over.  Acknowledgements come in any order, and losses are    *)
(* declared in the order of sending.                                       *)
(***************************************************************************)
EXTENDS Integers

CONSTANTS
  StartMtu,       (* picoquic_create_path: 1440                            *)
  ResetMtu,       (* PICOQUIC_INITIAL_MTU_IPV4: 1252                       *)
  First, Second,  (* 1500 and 1400                                         *)
  RemoteMax,      (* max_packet_size of the peer, 0 if it gave none        *)
  LocalMax,       (* mtu_max less the overhead, 0 if not set               *)
  PracticalMax,   (* PICOQUIC_PRACTICAL_MAX_MTU                            *)
  PacketMax,      (* PICOQUIC_MAX_PACKET_SIZE                              *)
  Buffers,        (* room that the application gives a packet              *)
  Queued,         (* nb_bytes_queued                                       *)
  Cost,           (* 60: what a saved packet is worth                      *)
  Policies,       (* pmtud_policy                                          *)
  LossThreshold,  (* PICOQUIC_MTU_LOSS_THRESHOLD                           *)
  MaxPackets      (* bound: packets sent                                   *)

ASSUME MtuAssumption ==
  /\ {StartMtu, ResetMtu, First, Second, PracticalMax, PacketMax} \subseteq Nat \ {0}
  /\ {RemoteMax, LocalMax, Cost, LossThreshold, MaxPackets} \subseteq Nat
  /\ Second < First
  /\ Buffers \subseteq Nat \ {0} /\ Queued \subseteq Nat

VARIABLES
  policy,         (* pmtud_policy                                          *)
  mtu,            (* send_mtu                                              *)
  tried,          (* send_mtu_max_tried                                    *)
  probing,        (* mtu_probe_sent                                        *)
  losses,         (* nb_mtu_losses                                         *)
  flight,         (* packets of the path that wait for an ACK              *)
  repeated,       (* those declared lost                                   *)
  seen            (* history: packets sent, lengths acknowledged, lengths  *)
                  (* of lost probes, whether discovery started over        *)

pathVars == <<mtu, tried, probing, losses, flight, repeated, seen>>
mtuVars == <<policy, pathVars>>

Lower(a, b) == IF a < b THEN a ELSE b
Higher(a, b) == IF a < b THEN b ELSE a

MtuInit ==
  /\ policy \in Policies
  /\ mtu = StartMtu /\ tried = 0 /\ probing = FALSE /\ losses = 0
  /\ flight = {} /\ repeated = {}
  /\ seen = [number |-> 0, arrived |-> {}, refused |-> {}, reset |-> FALSE]

-----------------------------------------------------------------------------
(* Probes *)

(* picoquic_next_mtu_probe_length.  The last case is never used to probe.  *)
NextLength ==
  CASE tried = 0 /\ RemoteMax > 0 ->
         Higher(IF LocalMax > 0 /\ RemoteMax > LocalMax THEN LocalMax ELSE Lower(RemoteMax, PacketMax), mtu)
    [] tried = 0 /\ RemoteMax = 0 -> IF LocalMax > 0 THEN LocalMax ELSE PracticalMax
    [] tried > First -> First
    [] tried > Second /\ tried <= First -> Second
    [] OTHER -> (mtu + tried) \div 2

(* picoquic_is_mtu_probe_needed in a ready connection.                     *)
Worth(queued) == (queued \div mtu - queued \div NextLength) * Cost > NextLength

(* Mutant: a second probe is sent before the first one is answered. *)
Needed_Again(queued) ==
  IF policy = "blocked" \/ ~(tried = 0 \/ tried > Second) \/ NextLength <= mtu THEN "no"
  ELSE IF policy = "required" \/ Worth(queued) THEN "required"
  ELSE IF policy = "basic" THEN "optional" ELSE "no"

Needed(queued) ==
  IF probing \/ policy = "blocked" \/ ~(tried = 0 \/ tried > Second) \/ NextLength <= mtu THEN "no"
  ELSE IF policy = "required" \/ Worth(queued) THEN "required"
  ELSE IF policy = "basic" THEN "optional" ELSE "no"

Sent(length, probe) ==
  /\ seen.number < MaxPackets
  /\ flight' = flight \cup {[number |-> seen.number + 1, length |-> length, probe |-> probe]}
  /\ seen' = [seen EXCEPT !.number = @ + 1]

(* picoquic_prepare_mtu_probe, with nothing else to send, or before it.    *)
SendProbe(queued, buffer) ==
  /\ Needed(queued) # "no" /\ buffer > mtu
  /\ Sent(Lower(NextLength, buffer), TRUE) /\ probing' = TRUE
  /\ UNCHANGED <<policy, mtu, tried, losses, repeated>>

(* Data, in packets of full size.                                          *)
SendFull(queued, buffer) ==
  /\ Needed(queued) = "required" => buffer <= mtu
  /\ queued >= mtu /\ buffer >= mtu
  /\ Sent(mtu, FALSE)
  /\ UNCHANGED <<policy, mtu, tried, probing, losses, repeated>>

-----------------------------------------------------------------------------
(* Acknowledgements *)

Arrived(length) == seen' = [seen EXCEPT !.arrived = @ \cup {length}]

(* Mutant: the probe stays outstanding. *)
Raised_StillProbing(length) == IF length > mtu THEN mtu' = length /\ UNCHANGED probing ELSE UNCHANGED <<mtu, probing>>

Raised(length) ==
  IF length > mtu THEN mtu' = length /\ probing' = FALSE ELSE UNCHANGED <<mtu, probing>>

(* process_ack_range of a packet that waits.                               *)
AckReceived(p) ==
  /\ flight' = flight \ {p}
  /\ losses' = IF p.length = mtu THEN 0 ELSE losses
  /\ Raised(p.length) /\ Arrived(p.length)
  /\ UNCHANGED <<policy, tried, repeated>>

(* picoquic_check_spurious_retransmission                                  *)
LateAck(p) ==
  /\ repeated' = repeated \ {p}
  /\ tried' = IF p.length > mtu THEN Higher(tried, p.length) ELSE tried
  /\ Raised(p.length) /\ Arrived(p.length)
  /\ UNCHANGED <<policy, losses, flight>>

-----------------------------------------------------------------------------
(* Losses *)

Oldest(p) == \A q \in flight : p.number <= q.number

Declared(p) == flight' = flight \ {p} /\ repeated' = repeated \cup {p}

(* picoquic_copy_before_retransmit of a probe.                             *)
ProbeLost(p) ==
  /\ Oldest(p) /\ p.probe
  /\ probing' = FALSE /\ tried' = p.length
  /\ seen' = [seen EXCEPT !.refused = @ \cup {p.length}]
  /\ Declared(p) /\ UNCHANGED <<policy, mtu, losses>>

(* picoquic_reset_path_mtu leaves nb_mtu_losses.                           *)
Reset == mtu' = ResetMtu /\ tried' = 0 /\ probing' = FALSE

DataLost(p) ==
  /\ Oldest(p) /\ ~p.probe
  /\ losses' = IF p.length = mtu THEN losses + 1 ELSE losses
  /\ IF p.length = mtu /\ losses + 1 > LossThreshold
     THEN Reset /\ seen' = [seen EXCEPT !.reset = TRUE]
     ELSE UNCHANGED <<mtu, tried, probing, seen>>
  /\ Declared(p) /\ UNCHANGED policy

MtuNext ==
  \/ \E queued \in Queued, buffer \in Buffers : SendProbe(queued, buffer) \/ SendFull(queued, buffer)
  \/ \E p \in flight : AckReceived(p) \/ ProbeLost(p) \/ DataLost(p)
  \/ \E p \in repeated : LateAck(p)

MtuSpec == MtuInit /\ [][MtuNext]_mtuVars

-----------------------------------------------------------------------------
(* A probe that is thought outstanding is: it will be answered or declared *)
(* lost, and discovery does not stop on a probe that no one waits for.     *)
ProbeTracked == probing => \E p \in flight : p.probe /\ p.length > mtu

(* Packets are never longer than what the path has carried since, except   *)
(* the first length, the lowest one, and probes.                           *)
LengthsCarried == mtu \in seen.arrived \cup {IF seen.reset THEN ResetMtu ELSE StartMtu}

(* Until it starts over, a length that was lost is not probed again before *)
(* a longer packet arrived, and there is one probe at a time.              *)
ProbedOnce ==
  ~seen.reset =>
    \A p \in flight : p.probe /\ p.length > mtu =>
      p.length \notin seen.refused /\ \A q \in flight : q.length > mtu => q = p

MtuSound == ProbeTracked /\ LengthsCarried /\ ProbedOnce
=============================================================================
