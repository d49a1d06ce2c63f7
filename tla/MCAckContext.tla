--------------------------- MODULE MCAckContext ---------------------------
(* Finite instances of AckContext for TLC. *)
EXTENDS AckContext

CONSTANT Few    (* bound: highest packet number once time passes           *)

(* The run on ranges receives packets that need no ACK: none is asked for. *)
RangesNext ==
  \/ \E pn \in Pn, kind \in Kinds : Receive(pn, kind)
  \/ \E r \in Tracks, room \in Rooms : FormatAck(r, room)
  \/ \E frame \in frames : ProcessAckOfAck(frame)
  \/ Tick

RangesSpec == Init /\ [][RangesNext]_vars

(* Bound of the run on ranges: many packets before the first tick and the  *)
(* first frame at the peer, or few packets at any time.                    *)
ManyOrFew == received \subseteq 0..Few \/ (now = 0 /\ frames = {})
=============================================================================
