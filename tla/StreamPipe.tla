----------------------------- MODULE StreamPipe -----------------------------
(***************************************************************************)
(* What a stream promises to the two applications: the receiver gets the   *)
(* bytes that were written, in order, each once, and the end of the stream *)
(* after the last of them.  Either side may abort: from then on the        *)
(* receiver need not get the rest.                                         *)
(***************************************************************************)
EXTENDS Integers, Sequences, SequencesExt

CONSTANT Streams

VARIABLES
  written,     (* the bytes given to the stack, per stream                 *)
  closed,      (* the sender has announced the end                         *)
  aborted,     (* reset by the sender, or refused by the receiver          *)
  delivered,   (* the bytes given to the receiver                          *)
  finished     (* the receiver knows of the end                            *)

vars == <<written, closed, aborted, delivered, finished>>

Init ==
  /\ written = [s \in Streams |-> << >>]
  /\ closed = [s \in Streams |-> FALSE]
  /\ aborted = [s \in Streams |-> FALSE]
  /\ delivered = [s \in Streams |-> << >>]
  /\ finished = [s \in Streams |-> FALSE]

(* The sender writes, announces the end, or both, and nothing afterwards.  *)
Write(s) ==
  /\ ~closed[s]
  /\ \A t \in Streams : IF t = s THEN IsPrefix(written[t], written'[t]) ELSE written'[t] = written[t]
  /\ closed' \in {closed, [closed EXCEPT ![s] = TRUE]}
  /\ UNCHANGED <<aborted, delivered, finished>>

Abort(s) ==
  /\ aborted' = [aborted EXCEPT ![s] = TRUE]
  /\ UNCHANGED <<written, closed, delivered, finished>>

(* Bytes and the end may come in one call.                                 *)
Deliver(s) ==
  /\ \A t \in Streams :
       IF t = s THEN IsPrefix(delivered[t], delivered'[t]) /\ IsPrefix(delivered'[t], written[t])
       ELSE delivered'[t] = delivered[t]
  /\ ~finished[s]
  /\ finished' \in {finished, [finished EXCEPT ![s] = TRUE]}
  /\ finished'[s] => closed[s] /\ (aborted[s] \/ delivered'[s] = written[s])
  /\ UNCHANGED <<written, closed, aborted>>

Next == \E s \in Streams : Write(s) \/ Abort(s) \/ Deliver(s)

Spec == Init /\ [][Next]_vars
=============================================================================
