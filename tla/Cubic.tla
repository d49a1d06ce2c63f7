-------------------------------- MODULE Cubic -------------------------------
(***************************************************************************)
(* Cubic and its delay-based variant dcubic (cubic.c).  W_max, W_last_max  *)
(* and W_reno are kept in bytes instead of packets, beta is 7/8.  The      *)
(* cubic curve is abstracted to the set of its possible values: it starts  *)
(* at beta * W_max and passes W_max after K.  The state alg_recovery of    *)
(* the code is never entered and left out.                                 *)
(***************************************************************************)
EXTENDS CcCommon

CONSTANTS K   (* time to the plateau of the curve                          *)

CubicAssumption == K \in Nat \ {0}

CubicReset(now) ==
  [alg_state |-> "slow_start", cwin |-> CwinInitial, ssthresh |-> Unset,
   W_max |-> Unset, W_last_max |-> Unset, W_reno |-> CwinInitial, recovery_sequence |-> 0,
   start_of_epoch |-> now, previous_start_of_epoch |-> 0, rtt_filter |-> NewFilter]

Beta(w) == (w * 7) \div 8

(* picoquic_cubic_W_cubic *)
WCubic(s, now) ==
  LET age == now - s.start_of_epoch
  IN  CASE age = 0 -> {Beta(s.W_max)}
        [] age \in 1..K-1 -> {Beta(s.W_max), s.W_max}
        [] age = K -> {s.W_max}
        [] OTHER -> {s.W_max, s.W_max + Mtu}

EnterAvoidance(s, time) ==
  [s EXCEPT !.alg_state = "congestion_avoidance", !.start_of_epoch = time,
            !.previous_start_of_epoch = time]

Larger(s, w) == [s EXCEPT !.cwin = Max({w, s.W_reno})]

CubicEnterRecovery(s, e, kind) ==
  LET w == IF s.cwin < s.W_last_max THEN Beta(s.cwin) ELSE s.cwin
      t == [s EXCEPT !.recovery_sequence = e.sent, !.W_last_max = s.cwin, !.W_max = w,
                     !.ssthresh = Beta(w)]
      slow == [t EXCEPT !.alg_state = "slow_start", !.cwin = CwinMinimum,
                        !.previous_start_of_epoch = s.start_of_epoch, !.start_of_epoch = e.now]
  IN  IF t.ssthresh < CwinMinimum
      THEN [slow EXCEPT !.ssthresh = Unset, !.W_reno = CwinMinimum]
      ELSE IF kind = "timeout" THEN slow
      ELSE LET c == EnterAvoidance([t EXCEPT !.W_reno = s.cwin \div 2], e.now)
           IN  Larger(c, CHOOSE x \in WCubic(c, e.now) : TRUE)

(* picoquic_cubic_correct_spurious *)
CubicSpurious(s, e) ==
  IF s.ssthresh = Unset THEN {s}
  ELSE LET c == EnterAvoidance([s EXCEPT !.W_max = s.W_last_max], s.previous_start_of_epoch)
       IN  {[c EXCEPT !.W_reno = w, !.cwin = w, !.ssthresh = Beta(c.W_max)] : w \in WCubic(c, e.now)}

(* limited: no data frame acknowledged since the sender was limited, at    *)
(* the time limit.                                                         *)
CubicAck(s, e, bytes, limited, limit) ==
  LET grown == [s EXCEPT !.cwin = @ + bytes]
      late == [s EXCEPT !.start_of_epoch = Max({@, limit}), !.W_reno = @ + (bytes * Mtu) \div @]
  IN  IF limited THEN {s}
      ELSE IF s.alg_state = "slow_start"
      THEN {IF grown.cwin >= s.ssthresh
            THEN EnterAvoidance([grown EXCEPT !.W_reno = grown.cwin \div 2], e.now) ELSE grown}
      ELSE {Larger(late, w) : w \in WCubic(late, e.now)}

NewEvent(s, e) == e.now - s.start_of_epoch > Srtt \/ s.recovery_sequence <= e.acked

(* repeat, ecn, timeout of Cubic *)
CubicLoss(s, e, kind, number) ==
  LET t == IF kind = "ecn" THEN s ELSE [s EXCEPT !.rtt_filter = Lost(@, number)]
  IN  {IF high /\ NewEvent(s, e) THEN CubicEnterRecovery(t, e, kind) ELSE t :
         high \in IF kind = "ecn" THEN {TRUE} ELSE LossTest(s.rtt_filter, kind, number)}

CubicPlateau_KeepsMax(s, now) ==
  [EnterAvoidance([s EXCEPT !.ssthresh = s.cwin, !.W_reno = s.cwin], now) EXCEPT
     !.start_of_epoch = Max({0, now - K})]

(* The curve is shifted so that it is at its plateau now.                  *)
CubicPlateau(s, now) ==
  [EnterAvoidance([s EXCEPT !.ssthresh = s.cwin, !.W_max = s.cwin, !.W_last_max = s.cwin,
                            !.W_reno = s.cwin], now) EXCEPT !.start_of_epoch = Max({0, now - K})]

CubicRtt(s, e, rtt, boost) ==
  LET t == [s EXCEPT !.rtt_filter = Hystart(@, rtt, e.now)]
      base == IF boost > 0 THEN (s.cwin * CwinInitial) \div boost ELSE s.cwin
  IN  IF s.alg_state # "slow_start" \/ s.ssthresh # Unset THEN s
      ELSE IF HystartExit(s.rtt_filter, rtt, e.now)
      THEN CubicPlateau([t EXCEPT !.cwin = @ - (@ - base) \div 2], e.now)
      ELSE t

CubicBandwidth(s, window) ==
  IF s.alg_state = "slow_start" THEN [s EXCEPT !.cwin = Max({@, window \div 2})] ELSE s

CubicSeed(s, e, window) ==
  IF s.alg_state # "slow_start" \/ s.ssthresh # Unset THEN s
  ELSE EnterAvoidance([s EXCEPT !.cwin = Max({@, window}), !.ssthresh = window], e.now)

-----------------------------------------------------------------------------
(* dcubic *)

DcubicExitSlowStart(s, e, kind) ==
  IF s.ssthresh = Unset THEN CubicPlateau(s, e.now)
  ELSE IF NewEvent(s, e) THEN CubicEnterRecovery(s, e, kind) ELSE s

DcubicLoss(s, e, kind, number) ==
  LET t == [s EXCEPT !.rtt_filter = Lost(@, number)]
  IN  IF kind = "ecn" THEN {s}
      ELSE {IF ~high THEN t
            ELSE IF s.alg_state = "slow_start" THEN DcubicExitSlowStart(t, e, kind)
            ELSE IF number > s.recovery_sequence THEN CubicEnterRecovery(t, e, kind) ELSE t :
              high \in LossTest(s.rtt_filter, kind, number)}

DcubicRtt(s, e, rtt, boost) ==
  LET t == [s EXCEPT !.rtt_filter = Hystart(@, rtt, e.now),
                     !.cwin = IF s.alg_state = "slow_start" /\ s.ssthresh = Unset
                              THEN Max({@, boost}) ELSE @]
  IN  IF ~HystartExit(s.rtt_filter, rtt, e.now) THEN t
      ELSE IF s.alg_state = "slow_start" THEN DcubicExitSlowStart(t, e, "rtt")
      ELSE IF NewEvent(s, e) THEN CubicEnterRecovery(t, e, "rtt") ELSE t

DcubicSeed(s, window) ==
  IF s.alg_state = "slow_start" /\ s.ssthresh = Unset THEN [s EXCEPT !.cwin = Max({@, window})] ELSE s
=============================================================================
