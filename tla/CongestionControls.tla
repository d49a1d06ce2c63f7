------------------------- MODULE CongestionControls -------------------------
(***************************************************************************)
(* A path and the loss- or delay-based congestion control that it uses:    *)
(* New Reno, Cubic, dcubic or Fast.  The actions are the notifications of  *)
(* picoquic_congestion_notification_t, in the orders in which the receipt  *)
(* of ACKs and the detection of losses produce them; packets are sent and  *)
(* time passes in between.                                                 *)
(***************************************************************************)
EXTENDS NewReno, Cubic, FastCc

CONSTANTS
  Algorithms,   (* of the path: "newreno", "cubic", "dcubic", "fast"       *)
  SeedAlgorithms, (* the ones that are given a remembered window           *)
  Rtts,         (* RTT samples                                             *)
  Windows,      (* windows from a bandwidth estimate or a previous session *)
  Boosts,       (* CwinInitial scaled to rtt_min, 0 below 100 ms           *)
  Step,         (* time between two events                                 *)
  MaxTime,      (* bound: the clock                                        *)
  MaxSent,      (* bound: packets sent                                     *)
  MaxCwin       (* bound: no ACK when the window is larger                 *)

ControlsAssumption ==
  /\ Algorithms \subseteq {"newreno", "cubic", "dcubic", "fast"}
  /\ Rtts \cup Windows \cup Boosts \cup {MaxTime, MaxSent, MaxCwin} \subseteq Nat
  /\ Step \in Nat \ {0}

VARIABLES
  alg,          (* congestion_alg                                          *)
  cc,           (* congestion_alg_state and the window of the path         *)
  boost,        (* tells how long the path is                              *)
  env,          (* now, path_packet_number, path_packet_acked_number       *)
  cut           (* history: the last cut that a loss or a mark caused      *)

vars == <<alg, cc, boost, env, cut>>

Reset(a, now) ==
  CASE a = "newreno" -> NewRenoReset
    [] a \in {"cubic", "dcubic"} -> CubicReset(now)
    [] a = "fast" -> FastReset(now)

NoCut == [time |-> -1, sent |-> 0, window |-> 0]

Init ==
  /\ alg \in Algorithms /\ boost \in Boosts
  /\ env = [now |-> Step, sent |-> 1, acked |-> 0]
  /\ cc = Reset(alg, 0)
  /\ cut = NoCut

-----------------------------------------------------------------------------
(* One notification: alg_notify of the algorithm on the state s.  Fast     *)
(* first looks whether its freeze is over.                                 *)

Ready(s, e) == IF alg = "fast" THEN Thawed(s, e) ELSE s

OnAck(s, e, bytes, limited) ==
  CASE alg = "newreno" -> {NewRenoAck(s, e, bytes, limited)}
    [] alg \in {"cubic", "dcubic"} -> CubicAck(s, e, bytes, limited, e.now - Step)
    [] alg = "fast" -> {FastAck(Ready(s, e), bytes)}

OnRtt(s, e, sample, limited) ==
  CASE alg = "newreno" -> NewRenoRtt(s, e, sample, boost)
    [] alg = "cubic" -> CubicRtt(s, e, sample, boost)
    [] alg = "dcubic" -> DcubicRtt(s, e, sample, boost)
    [] alg = "fast" -> FastRtt(Ready(s, e), e, sample, limited)

OnSeed(s, e, window) ==
  CASE alg = "newreno" -> NewRenoSeed(s, window)
    [] alg = "cubic" -> CubicSeed(s, e, window)
    [] alg = "dcubic" -> DcubicSeed(s, window)
    [] alg = "fast" -> FastSeed(Ready(s, e), window)

OnBandwidth(s, window) ==
  CASE alg = "newreno" -> NewRenoBandwidth(s, window)
    [] alg = "cubic" -> CubicBandwidth(s, window)
    [] OTHER -> s

OnLoss(s, e, kind, number) ==
  CASE alg = "newreno" -> {NewRenoLoss(s, e, kind)}
    [] alg = "cubic" -> CubicLoss(s, e, kind, number)
    [] alg = "dcubic" -> DcubicLoss(s, e, kind, number)
    [] alg = "fast" -> FastLoss(Ready(s, e), e, kind, number)

OnSpurious(s, e) ==
  CASE alg = "newreno" -> {NewRenoSpurious(s, e)}
    [] alg = "cubic" -> CubicSpurious(s, e)
    [] alg = "dcubic" -> {s}
    [] alg = "fast" -> {FastSpurious(Ready(s, e))}

-----------------------------------------------------------------------------
(* A packet with an ACK: what it acknowledges, then the RTT, the window of *)
(* a previous session with the first RTT, the bandwidth (0: no estimate).  *)
AckReceived(bytes, limited, sample, window) ==
  /\ cc.cwin <= MaxCwin
  /\ \E n \in env.acked + 1 .. env.sent - 1 : env' = [env EXCEPT !.acked = n]
  /\ \E s \in OnAck(cc, env', bytes, limited) :
       LET timed == OnRtt(s, env', sample, limited)
           seeded == IF env.acked = 0 /\ alg \in SeedAlgorithms
                     THEN {timed} \cup {OnSeed(timed, env', w) : w \in Windows \ {0}} ELSE {timed}
       IN  \E t \in seeded : cc' = OnBandwidth(t, window)
  /\ UNCHANGED <<alg, boost, cut>>

(* A packet is found lost: one before the highest acknowledged, or by a    *)
(* timer the last one sent; or a CE mark is reported.                      *)
LossNumber(kind) == IF kind = "timeout" THEN env.sent - 1 ELSE env.acked - 1

Loss(kind) ==
  /\ kind = "repeat" => env.acked > 0
  /\ cc' \in OnLoss(cc, env, kind, LossNumber(kind))
  /\ cut' = IF cc'.cwin < cc.cwin
            THEN [time |-> env.now, sent |-> env.sent, window |-> cc.cwin] ELSE cut
  /\ UNCHANGED <<alg, boost, env>>

(* The packet of a loss is acknowledged after all.                         *)
Spurious ==
  /\ cut # NoCut /\ cc.cwin <= MaxCwin
  /\ cc' \in OnSpurious(cc, env)
  /\ cut' = IF cc' # cc THEN NoCut ELSE cut
  /\ UNCHANGED <<alg, boost, env>>

Send ==
  /\ env.sent < MaxSent
  /\ env' = [env EXCEPT !.sent = @ + 1] /\ UNCHANGED <<alg, cc, boost, cut>>

Tick ==
  /\ env.now < MaxTime
  /\ env' = [env EXCEPT !.now = @ + Step] /\ UNCHANGED <<alg, cc, boost, cut>>

AnyAck ==
  \E limited \in BOOLEAN, sample \in Rtts, window \in Windows :
    AckReceived(2 * Mtu, limited, sample, window)

AnyLoss(kinds) == \E kind \in kinds : Loss(kind)

Next ==
  \/ AnyAck
  \/ AnyLoss({"repeat", "timeout", "ecn"})
  \/ Spurious \/ Send \/ Tick

Spec == Init /\ [][Next]_vars

-----------------------------------------------------------------------------
(* Whatever is lost, repeated for nothing or delayed, the window stays     *)
(* open: 7/16 of the minimum, when a fall back to slow start is followed   *)
(* by an exit on delay and a restoration; all others keep the minimum.     *)
WindowOpen ==
  IF alg = "cubic" THEN 16 * (cc.cwin + 1) >= 7 * CwinMinimum ELSE cc.cwin >= CwinMinimum

(* An ACK at most doubles the window, plus what it acknowledges, unless an *)
(* estimate justifies more: the algorithm keeps no maximum that the path   *)
(* never had, whatever sequence of losses and restorations came before.    *)
AckAtMostDoubles ==
  [][cc'.cwin > Max({2 * cc.cwin + 2 * Mtu, boost} \cup Windows) => ~AnyAck]_vars

(* The losses of one round trip cut the window once (New Reno, Cubic): a   *)
(* second cut needs a packet acknowledged that was sent after the first,   *)
(* or an RTT in time.                                                      *)
SecondCut == cc'.cwin < cc.cwin /\ cut # NoCut /\ AnyLoss({"repeat", "ecn"})

OneCutPerRound ==
  [][(alg # "fast" /\ SecondCut)
       => (env.now - cut.time > Srtt \/ cut.sent <= env.acked)]_vars

(* New Reno: a loss found spurious before anything sent after it is        *)
(* acknowledged gives back the window of before, but for one byte.         *)
SpuriousRestores ==
  [][(alg = "newreno" /\ env.now - cut.time < Srtt /\ cut.sent > env.acked /\ Spurious)
       => cc'.cwin + 1 >= cut.window]_vars
=============================================================================
