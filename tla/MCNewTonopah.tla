---------------------------- MODULE MCNewTonopah ----------------------------
(* Finite instances of NewTonopah for TLC.  Path objects are addresses:    *)
(* the behaviours do not depend on which is which.                         *)
EXTENDS NewTonopah, TLC

Symmetric == Permutations(PathIds)

(* The state after the handshake: one packet has gone out on each of the   *)
(* two paths, both are known and set up, and no interval has started.  The *)
(* long runs start here instead of in Init, which leads here.              *)
Established ==
  \E p, q \in PathIds :
    /\ p # q
    /\ paths = <<p, q>> /\ path1 = p /\ path2 = q /\ dominant = p
    /\ seq = [r \in PathIds |-> 1]
    /\ acked = [r \in PathIds |-> 0]
    /\ srtt = [r \in PathIds |-> InitialRtt]
    /\ cwin = [r \in PathIds |-> CwinInitial]
    /\ nrss = SimReset
    /\ intervals = <<>>
    /\ last_change = 1 /\ now = 1 /\ reduced = 0
    /\ fault = "none" /\ cnx = 1 /\ ready = TRUE /\ marks = 0

(* What an established connection does: both paths are known, so nothing   *)
(* is set up any more.                                                     *)
EstablishedNext ==
  \/ \E p \in CurrentPaths : Send(p) \/ Notify(p)
  \/ Tick

EstablishedSpec == Established /\ [][EstablishedNext]_vars

(* Bound of the run on fair queuing: RTTs change in the first four ticks,   *)
(* or stay as they are until the list of intervals is full and cut.         *)
ShortOrPlain ==
  \/ now <= 4
  \/ \A p \in PathIds : srtt[p] = InitialRtt /\ seq[p] <= 2
=============================================================================
