----------------------------- MODULE KeyRotation -----------------------------
(***************************************************************************)
(* Packet numbers and key phases of 1-RTT packets between two endpoints.   *)
(* A packet shows the low bits of its number and the parity of its key;    *)
(* the receiver rebuilds the number from the highest one it has, guesses   *)
(* the key (current, old or next), and moves on when the next one fits.    *)
(* Packets are lost, reordered and delayed.                                *)
(*                                                                         *)
(* A key is the number of its epoch; a packet can be read only with its    *)
(* key and its number.  Packets carry nothing but an acknowledgement.      *)
(* Abstracted: the times (a guard time runs or has ended), the length of a *)
(* packet number on the wire (one window for all), multipath.              *)
(***************************************************************************)
EXTENDS Integers, FiniteSets

CONSTANTS
  Window,       (* numbers that the bits on the wire tell apart; a packet  *)
                (* is never further than half of it from the last one      *)
  EpochLength,  (* crypto_epoch_length_max                                 *)
  MaxPn,        (* bound: packets of an end                                *)
  MaxEpoch,     (* bound: rotations started by an end                      *)
  Confirmed     (* whether an end waits, before it rotates, for the ACK of *)
                (* a packet that it sent with its current key              *)

ASSUME KeyAssumption ==
  /\ Window \in Nat \ {0} /\ EpochLength \in Nat /\ MaxPn \in Nat /\ MaxEpoch \in Nat
  /\ Confirmed \in BOOLEAN

Ends == {"client", "server"}
Peer(e) == IF e = "client" THEN "server" ELSE "client"

None == -1               \* a context that is NULL
Infinite == MaxPn + 1    \* UINT64_MAX

VARIABLES
  end,          (* the crypto contexts of each end                         *)
  net           (* packets in flight                                       *)

vars == <<end, net>>

(* enc, dec: keys of crypto_context[3]; new_enc, new_dec, old_dec: of      *)
(* crypto_context_new and _old; secret: rotations of the secrets; guard:   *)
(* crypto_rotation_time_guard has not passed; rotation: crypto_rotation_   *)
(* sequence; sent: send_sequence; start: crypto_epoch_sequence; highest:   *)
(* last of the sack list; first: number of the first packet with enc.      *)
NewEnd ==
  [enc |-> 0, dec |-> 0, new_enc |-> None, new_dec |-> None, old_dec |-> None, secret |-> 0,
   guard |-> FALSE, rotation |-> Infinite, sent |-> 0, start |-> 0, highest |-> None,
   acked |-> None, first |-> 0]

Init == end = [e \in Ends |-> NewEnd] /\ net = {}

-----------------------------------------------------------------------------
(* Keys *)

(* picoquic_compute_new_rotated_keys can be called.                        *)
CanCompute(s) == (s.new_enc = None) = (s.new_dec = None)

Computed(s) ==
  IF s.new_enc # None /\ s.new_dec # None THEN s
  ELSE [s EXCEPT !.secret = @ + 1, !.new_enc = s.secret + 1, !.new_dec = s.secret + 1]

(* picoquic_apply_rotated_keys                                             *)
EncRotated(s) == [s EXCEPT !.enc = s.new_enc, !.new_enc = None, !.first = s.sent]
DecRotated(s) == [s EXCEPT !.old_dec = s.dec, !.dec = s.new_dec, !.new_dec = None]

(* picoquic_start_key_rotation                                             *)
MayStart(s) == s.start <= s.highest /\ CanCompute(s)
Started(s) == [EncRotated(Computed(s)) EXCEPT !.old_dec = None, !.start = s.sent]

Waited(s) == Confirmed => s.acked >= s.first

-----------------------------------------------------------------------------
(* Sending *)

(* The application asks for a rotation.                                    *)
StartKeyRotation(e) ==
  /\ end[e].enc < MaxEpoch                                               \* bound
  /\ MayStart(end[e]) /\ Waited(end[e])
  /\ end' = [end EXCEPT ![e] = Started(@)]
  /\ UNCHANGED net

(* picoquic_prepare_packet_ready: a rotation that is due, then a packet    *)
(* (picoquic_create_packet_header).                                        *)
Send(e) ==
  LET due == end[e].sent - end[e].start > EpochLength /\ ~end[e].guard
      s   == IF due /\ MayStart(end[e]) THEN Started(end[e]) ELSE end[e]
  IN  /\ end[e].sent <= MaxPn                                            \* bound
      /\ s.enc <= MaxEpoch                                               \* bound
      /\ due => Waited(end[e])
      /\ net' = net \cup {[from |-> e, pn |-> s.sent, wire |-> s.sent % Window, key |-> s.enc, ack |-> s.highest]}
      /\ end' = [end EXCEPT ![e] = [s EXCEPT !.sent = @ + 1]]

-----------------------------------------------------------------------------
(* Receiving *)

(* Mutant: a number from before the last turn of the low bits is taken for *)
(* one of the next turn.                                                   *)
PacketNumber64_NoRoll(highest, wire) ==
  LET expected == highest + 1
      pn64     == expected - (expected % Window) + wire
  IN  IF pn64 < expected /\ Window - (expected - pn64) < expected - pn64 THEN pn64 + Window ELSE pn64

(* picoquic_get_packet_number64                                            *)
PacketNumber64(highest, wire) ==
  LET expected == highest + 1
      pn64     == expected - (expected % Window) + wire
      turn     == expected % Window
  IN  IF pn64 < expected
      THEN IF Window - (expected - pn64) < expected - pn64 THEN pn64 + Window ELSE pn64
      ELSE IF Window - (pn64 - expected) <= pn64 - expected /\ pn64 >= Window THEN pn64 - Window ELSE pn64

Current(s, p) == p.key % 2 = s.dec % 2
Old(s, pn) == (s.rotation = Infinite /\ s.guard) \/ pn < s.rotation

Reads(p, key, pn) == p.key = key /\ p.pn = pn

(* Mutant: crypto_rotation_sequence is set by rotations only. *)
WithCurrent_NotLowered(s, p, pn) == [state |-> s, read |-> Reads(p, s.dec, pn)]

(* picoquic_remove_packet_protection: the state after, and whether the     *)
(* packet was read.                                                        *)
WithCurrent(s, p, pn) ==
  LET read == Reads(p, s.dec, pn)
  IN  [state |-> IF read /\ pn < s.rotation THEN [s EXCEPT !.rotation = pn] ELSE s, read |-> read]

WithOld(s, p, pn) ==
  [state |-> s, read |-> s.guard /\ s.old_dec # None /\ Reads(p, s.old_dec, pn)]

WithNew(s, p, pn) ==
  LET c    == IF s.new_enc = None /\ s.new_dec = None THEN Computed(s) ELSE s
      read == c.new_dec # None /\ Reads(p, c.new_dec, pn)
      d    == DecRotated([c EXCEPT !.guard = TRUE, !.rotation = pn])
  IN  [state |-> IF ~read THEN c ELSE IF d.new_enc # None THEN EncRotated(d) ELSE d, read |-> read]

Unprotected(s, p) ==
  LET pn == PacketNumber64(s.highest, p.wire)
  IN  IF Current(s, p) THEN WithCurrent(s, p, pn)
      ELSE IF Old(s, pn) THEN WithOld(s, p, pn)
      ELSE WithNew(s, p, pn)

(* The code's window is 2^24 when fewer than 2^18 packets are not acked.    *)
InWindow(p) ==
  LET ahead == p.pn - (end[Peer(p.from)].highest + 1)
  IN  ahead \in -(Window \div 2)..(Window \div 2 - 1)

Receive(p) ==
  LET e == Peer(p.from)
      r == Unprotected(end[e], p)
  IN  /\ InWindow(p)                                                     \* bound
      /\ net' = net \ {p}
      /\ end' = [end EXCEPT ![e] =
                   IF r.read
                   THEN [r.state EXCEPT !.highest = IF p.pn > @ THEN p.pn ELSE @,
                                        !.acked = IF p.ack > @ THEN p.ack ELSE @]
                   ELSE r.state]

(* crypto_rotation_time_guard passes.                                      *)
GuardEnds(e) ==
  /\ end[e].guard
  /\ end' = [end EXCEPT ![e].guard = FALSE]
  /\ UNCHANGED net

Lose(p) == net' = net \ {p} /\ UNCHANGED end

Next ==
  \/ \E e \in Ends : StartKeyRotation(e) \/ Send(e) \/ GuardEnds(e)
  \/ \E p \in net : Receive(p) \/ Lose(p)

Spec == Init /\ [][Next]_vars

-----------------------------------------------------------------------------
(* Properties *)

(* A packet that arrives is not taken for another.                         *)
NumbersRebuilt ==
  \A p \in net : InWindow(p) => PacketNumber64(end[Peer(p.from)].highest, p.wire) = p.pn

(* The two ends keep up with each other: an end can read what the other    *)
(* sends with its current key, or is one rotation behind and will find the *)
(* next key when a packet shows it.  Without this the connection is mute   *)
(* for ever.                                                               *)
KeysFollow ==
  \A e \in Ends :
    LET r == end[Peer(e)]
    IN  end[e].enc = r.dec \/ (end[e].enc = r.dec + 1 /\ r.new_dec \in {None, end[e].enc})

(* A packet that arrives can be read: it is tried with the right key among *)
(* the old, the current and the next one, whatever overtook it, as long as *)
(* the guard time of the old key runs.                                     *)
PacketsReadable ==
  \A p \in net :
    LET r == end[Peer(p.from)]
    IN  InWindow(p) /\ (p.key >= r.dec \/ (r.guard /\ p.key = r.old_dec)) => Unprotected(r, p).read

KeysAgree == KeysFollow /\ PacketsReadable

(* "Verify that a packet of the previous rotation was acked"               *)
(* (quicctx.c).                                                            *)
RotationConfirmed ==
  [][\A e \in Ends : end'[e].start # end[e].start /\ end[e].enc > 0 => end[e].acked >= end[e].first]_vars
=============================================================================
