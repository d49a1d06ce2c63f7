------------------------------- MODULE FastCc -------------------------------
(***************************************************************************)
(* The delay-based congestion control of fastcc.c.  Times and RTTs are     *)
(* numbers of 64 bits in the code: Unset + 1 stands for 2^64 here.         *)
(***************************************************************************)
EXTENDS CcCommon

CONSTANTS
  Period,       (* FASTCC_PERIOD                                           *)
  NbPeriod,     (* FASTCC_NB_PERIOD                                        *)
  Repeats,      (* FASTCC_REPEAT_THRESHOLD                                 *)
  DelayMax      (* FASTCC_DELAY_THRESHOLD_MAX                              *)

FastAssumption == {Period, NbPeriod, Repeats, DelayMax} \subseteq Nat \ {0}

DelayThreshold(rtt) == Min({rtt \div 8, DelayMax})

FastReset(now) ==
  [alg_state |-> "initial", cwin |-> CwinInitial, end_of_freeze |-> 0,
   nb_bytes_ack_since_rtt |-> 0, end_of_epoch |-> now + Period, recovery_sequence |-> 0,
   rtt_min |-> Srtt, rolling_rtt_min |-> Srtt, delay_threshold |-> DelayThreshold(Srtt),
   last_rtt_min |-> [i \in 1..NbPeriod |-> 0], nb_cc_events |-> 0,
   last_freeze_was_timeout |-> FALSE, last_freeze_was_not_delay |-> FALSE,
   rtt_min_is_trusted |-> FALSE, rtt_filter |-> NewFilter]

(* fastcc_notify_congestion *)
Ignored(s, is_delay, is_timeout) ==
  /\ s.alg_state = "freeze"
  /\ ~is_timeout \/ ~s.last_freeze_was_timeout
  /\ ~is_delay \/ ~s.last_freeze_was_not_delay

FastCut_NoFloor(cwin, is_delay, is_timeout) == IF is_delay THEN cwin - cwin \div 8 ELSE cwin \div 2

FastCut(cwin, is_delay, is_timeout) ==
  LET cut == IF is_delay THEN cwin - cwin \div 8 ELSE cwin \div 2
  IN  IF is_timeout THEN CwinMinimum ELSE Max({cut, CwinMinimum})

FastCongestion(s, e, is_delay, is_timeout) ==
  IF Ignored(s, is_delay, is_timeout) THEN s
  ELSE [s EXCEPT !.last_freeze_was_not_delay = ~is_delay, !.last_freeze_was_timeout = is_timeout,
                 !.alg_state = "freeze", !.end_of_freeze = (e.now + s.rtt_min) % (Unset + 1),
                 !.recovery_sequence = e.sent, !.nb_cc_events = 0,
                 !.cwin = FastCut(@, is_delay, is_timeout)]

(* The first thing picoquic_fastcc_notify does with any notification.      *)
Thawed(s, e) ==
  IF s.alg_state = "freeze" /\ (e.now > s.end_of_freeze \/ s.recovery_sequence <= e.acked)
  THEN [s EXCEPT !.alg_state = IF s.last_freeze_was_timeout THEN "initial" ELSE "eval",
                 !.last_freeze_was_not_delay = FALSE, !.last_freeze_was_timeout = FALSE,
                 !.nb_cc_events = 0, !.nb_bytes_ack_since_rtt = 0]
  ELSE s

FastAck(s, bytes) ==
  IF s.alg_state = "freeze" THEN s ELSE [s EXCEPT !.nb_bytes_ack_since_rtt = @ + bytes]

FastLoss(s, e, kind, number) ==
  LET t == [s EXCEPT !.rtt_filter = Lost(@, number)]
  IN  IF kind = "ecn" THEN {FastCongestion(s, e, FALSE, FALSE)}
      ELSE {IF high THEN FastCongestion(t, e, FALSE, kind = "timeout") ELSE t :
              high \in LossTest(s.rtt_filter, kind, number)}

FastSpurious(s) == [s EXCEPT !.nb_cc_events = Max({0, @ - 1})]

(* The minimum of the periods that were complete before the last one, or   *)
(* UINT64_MAX when there is none.                                          *)
Remembered(s) == {s.last_rtt_min[i] : i \in 1..NbPeriod-1} \ {0}

(* The RTT minimum over the last periods, from the largest of the last     *)
(* samples.                                                                *)
FastEpoch(s, now) ==
  LET hi == Max(SampleSet(s.rtt_filter))
      lowest == Min(Remembered(s) \cup {Unset})
  IN  IF ~IsInit(s.rtt_filter) THEN s
      ELSE IF now > s.end_of_epoch
      THEN [s EXCEPT !.rtt_min = lowest, !.delay_threshold = DelayThreshold(lowest),
                     !.last_rtt_min = [i \in 1..NbPeriod |-> IF i = 1 THEN s.rolling_rtt_min ELSE @[i - 1]],
                     !.rolling_rtt_min = hi, !.end_of_epoch = now + Period]
      ELSE IF hi < s.rolling_rtt_min \/ s.rolling_rtt_min = 0
      THEN [s EXCEPT !.rolling_rtt_min = hi, !.rtt_min = Min({@, hi})]
      ELSE s

(* What a sample says of the delay in the queue.                           *)
FastDelay(s, rtt) ==
  IF rtt >= s.rtt_min /\ s.rtt_min_is_trusted THEN rtt - s.rtt_min ELSE 0

FastTrust(s, rtt) ==
  IF rtt < s.rtt_min THEN [s EXCEPT !.delay_threshold = DelayThreshold(s.rtt_min)]
  ELSE IF s.rtt_min_is_trusted THEN s
  ELSE [s EXCEPT !.rtt_min = rtt, !.rolling_rtt_min = rtt, !.rtt_min_is_trusted = TRUE]

FastIncrease(s, delta) ==
  IF s.alg_state = "initial" THEN s.nb_bytes_ack_since_rtt
  ELSE (s.nb_bytes_ack_since_rtt * (s.delay_threshold - delta)) \div (4 * s.delay_threshold)

FastRtt(s, e, rtt, limited) ==
  LET t == FastEpoch([s EXCEPT !.rtt_filter = Sampled(@, rtt)], e.now)
      delta == FastDelay(t, rtt)
      u == FastTrust(t, rtt)
      more == [u EXCEPT !.nb_cc_events = @ + 1]
  IN  IF s.alg_state = "freeze" THEN t
      ELSE IF delta < u.delay_threshold
      THEN [u EXCEPT !.nb_cc_events = 0, !.nb_bytes_ack_since_rtt = 0,
                     !.cwin = IF limited THEN @ ELSE @ + FastIncrease(u, delta)]
      ELSE IF more.nb_cc_events >= Repeats THEN FastCongestion(more, e, TRUE, FALSE) ELSE more

FastSeed(s, window) ==
  IF s.alg_state = "initial" THEN [s EXCEPT !.cwin = Max({@, window})] ELSE s
=============================================================================
