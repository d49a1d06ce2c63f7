------------------------------ MODULE NewReno -------------------------------
(***************************************************************************)
(* New Reno (newreno.c), on a connection without multipath: the window and *)
(* the simulated state are one record, since the code keeps the window of  *)
(* the path equal to the one of nrss.  e is the environment: the time, the *)
(* next packet number and the highest one acknowledged.                    *)
(***************************************************************************)
EXTENDS CcCommon

NewRenoReset ==
  [alg_state |-> "slow_start", cwin |-> CwinInitial, ssthresh |-> Unset, residual_ack |-> 0,
   recovery_start |-> 0, recovery_sequence |-> 0, rtt_filter |-> NewFilter]

NewRenoInitialSlowStart(s) == s.alg_state = "slow_start" /\ s.ssthresh = Unset

NewRenoEnterRecovery(s, e, kind) ==
  LET half == Max({s.cwin \div 2, CwinMinimum})
  IN  [s EXCEPT !.ssthresh = half,
                !.cwin = IF kind = "timeout" THEN CwinMinimum ELSE half,
                !.alg_state = IF kind = "timeout" THEN "slow_start" ELSE "congestion_avoidance",
                !.recovery_start = e.now, !.recovery_sequence = e.sent, !.residual_ack = 0]

NewRenoAck(s, e, bytes, limited) ==
  LET delta == bytes * Mtu + s.residual_ack
  IN  IF limited THEN s
      ELSE IF s.alg_state = "slow_start"
      THEN [s EXCEPT !.cwin = @ + bytes,
                     !.alg_state = IF s.cwin + bytes >= s.ssthresh THEN "congestion_avoidance" ELSE @]
      ELSE [s EXCEPT !.residual_ack = delta % s.cwin, !.cwin = @ + delta \div s.cwin]

NewRenoLoss_Every(s, e, kind) == NewRenoEnterRecovery(s, e, kind)

(* ecn, repeat and timeout: once per round trip.                           *)
NewRenoLoss(s, e, kind) ==
  IF e.now - s.recovery_start > Srtt \/ s.recovery_sequence <= e.acked
  THEN NewRenoEnterRecovery(s, e, kind) ELSE s

NewRenoSpurious_Half(s, e) ==
  IF /\ e.now - s.recovery_start < Srtt /\ s.recovery_sequence > e.acked
     /\ s.ssthresh # Unset /\ s.cwin < s.ssthresh
  THEN [s EXCEPT !.cwin = s.ssthresh, !.alg_state = "congestion_avoidance"]
  ELSE s

NewRenoSpurious(s, e) ==
  IF /\ e.now - s.recovery_start < Srtt /\ s.recovery_sequence > e.acked
     /\ s.ssthresh # Unset /\ s.cwin < 2 * s.ssthresh
  THEN [s EXCEPT !.cwin = 2 * s.ssthresh, !.alg_state = "congestion_avoidance"]
  ELSE s

(* boost: the initial window scaled to the delay of the path, or 0.        *)
NewRenoRtt(s, e, rtt, boost) ==
  LET raised == [s EXCEPT !.cwin = Max({@, boost}),
                          !.rtt_filter = Hystart(@, rtt, e.now)]
  IN  IF ~NewRenoInitialSlowStart(s) THEN s
      ELSE IF HystartExit(s.rtt_filter, rtt, e.now)
      THEN [raised EXCEPT !.ssthresh = raised.cwin, !.alg_state = "congestion_avoidance"]
      ELSE raised

NewRenoBandwidth(s, window) ==
  IF NewRenoInitialSlowStart(s) THEN [s EXCEPT !.cwin = Max({@, window \div 2})] ELSE s

NewRenoSeed(s, window) ==
  IF NewRenoInitialSlowStart(s) /\ window > s.cwin
  THEN [s EXCEPT !.cwin = window, !.ssthresh = window, !.alg_state = "congestion_avoidance"]
  ELSE s
=============================================================================
