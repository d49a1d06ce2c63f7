-------------------------------- MODULE Bbr --------------------------------
(***************************************************************************)
(* The congestion control of picoquic/bbr.c on one path: the states of the *)
(* probing machine, the cycle of gains, the detection of a policer (the lt fields)  *)
(* and the window.                                                         *)
(*                                                                         *)
(* Abstracted: bandwidths and times.  What a measurement says of them is   *)
(* an input (Sample); windows are in packets.  The fields that no caller   *)
(* ever sets (packet_conservation, idle_restart) are left out; fields that *)
(* are written before they are read again go back to their first value.    *)
(***************************************************************************)
EXTENDS Integers

CONSTANTS
  CwinMin,     (* PICOQUIC_CWIN_MINIMUM                                    *)
  MinPipe,     (* BBR_MIN_PIPE_CWND                                        *)
  CwinInitial, (* PICOQUIC_CWIN_INITIAL                                    *)
  CycleLen,    (* BBR_GAIN_CYCLE_LEN                                       *)
  MaxStart,    (* BBR_GAIN_CYCLE_MAX_START                                 *)
  NormalStart, (* first phase of the cycle with a normal RTT: 2            *)
  LtMin,       (* BBR_LT_BW_INTERVAL_MIN_RTT                               *)
  LtMax,       (* BBR_LT_BW_INTERVAL_MAX_RTT                               *)
  LtUse,       (* BBR_LT_BW_MAX_RTTS                                       *)
  Targets,     (* values of target_cwnd                                    *)
  Seeds,       (* windows remembered from earlier connections              *)
  MaxCwin      (* bound: largest window                                    *)

VARIABLES
  b,           (* picoquic_bbr_state_t                                     *)
  cwin,        (* path_x->cwin                                             *)
  entry        (* history: the window with which probe_rtt was entered     *)

vars == <<b, cwin, entry>>

States == {"startup", "startup_long_rtt", "drain", "probe_bw", "probe_rtt"}

(* What a bw_measurement brings: a round trip is over, the estimate was    *)
(* limited by the application, the bandwidth grows, the losses of the      *)
(* sampling interval, the phase of the cycle is over, few packets are in   *)
(* flight, the target window.                                              *)
Sample == [round : BOOLEAN, limited : BOOLEAN, grows : BOOLEAN,
           loss : {"none", "few", "alike", "unlike"},
           phase : BOOLEAN, drained : BOOLEAN, target : Targets]

(* The losses have been looked at already.                                 *)
Quiet(i) == [i EXCEPT !.loss = "none"]

(* picoquic_bbr_reset *)
Reset == [state |-> "startup", gain |-> "high", filled |-> FALSE, full_count |-> 0, round_start |-> FALSE,
          cycle_index |-> 0, cycle_start |-> 0, increased |-> FALSE, on_loss |-> FALSE,
          expired |-> FALSE, done |-> "none", round_done |-> FALSE, prior |-> 0,
          lt_use |-> FALSE, lt_sampling |-> FALSE, lt_bw |-> FALSE, lt_rtt |-> 0,
          recent |-> FALSE, was_timeout |-> FALSE]

Init == b = Reset /\ cwin = CwinInitial /\ entry = 0

AtMost(x, y) == IF x < y THEN x ELSE y
AtLeast(x, y) == IF x > y THEN x ELSE y

-----------------------------------------------------------------------------
(* The policer.  Each operation maps a state to a state. *)

LtResetInterval(s) == [s EXCEPT !.lt_rtt = 0]

(* Mutant: the remembered rate is cleared, its use is not. *)
LtResetSampling_StillUsed(s) == LtResetInterval([s EXCEPT !.lt_bw = FALSE, !.lt_sampling = FALSE])

LtResetSampling(s) ==
  LtResetInterval([s EXCEPT !.lt_bw = FALSE, !.lt_use = FALSE, !.lt_sampling = FALSE])

(* BBRltbwIntervalDone: two intervals in a row at like rates.              *)
LtIntervalDone(s, loss) ==
  IF s.lt_bw /\ loss = "alike" THEN [s EXCEPT !.lt_use = TRUE, !.gain = "one", !.lt_rtt = 0]
  ELSE LtResetInterval([s EXCEPT !.lt_bw = TRUE])

Gain(index) == IF index = CycleLen - 2 THEN "probe" ELSE IF index = CycleLen - 1 THEN "slow" ELSE "one"

(* BBRAdvanceCyclePhase: a cycle that found more bandwidth makes the next  *)
(* one shorter.                                                            *)
AdvanceCyclePhase(s) ==
  LET wraps == s.cycle_index + 1 >= CycleLen
      start == IF ~wraps THEN s.cycle_start
               ELSE IF s.increased THEN AtMost(s.cycle_start + 1, MaxStart)
               ELSE AtLeast(s.cycle_start - 1, 0)
      next  == IF wraps THEN start ELSE s.cycle_index + 1
  IN  [s EXCEPT !.on_loss = FALSE, !.cycle_index = next, !.cycle_start = start,
                !.increased = @ /\ ~wraps, !.gain = Gain(next)]

ResetProbeBwMode(s) == AdvanceCyclePhase([s EXCEPT !.state = "probe_bw", !.cycle_index = NormalStart])

(* BBRltbwSampling *)
LtSampling(s, i) ==
  LET counts  == s.lt_use /\ s.state = "probe_bw" /\ s.round_start
      counted == IF counts THEN [s EXCEPT !.lt_rtt = @ + 1] ELSE s
      begun   == IF s.lt_sampling THEN counted ELSE [LtResetSampling(counted) EXCEPT !.lt_sampling = TRUE]
      longer  == [begun EXCEPT !.lt_rtt = @ + 1]
  IN  IF counts /\ counted.lt_rtt > LtUse THEN ResetProbeBwMode(LtResetSampling(counted))
      ELSE IF ~s.lt_sampling /\ i.loss = "none" THEN counted
      ELSE IF i.limited THEN LtResetSampling(begun)
      ELSE IF ~s.round_start THEN begun
      ELSE IF longer.lt_rtt < LtMin THEN longer
      ELSE IF longer.lt_rtt > LtMax THEN LtResetSampling(longer)
      ELSE IF i.loss \in {"none", "few"} THEN longer
      ELSE LtIntervalDone(longer, i.loss)

-----------------------------------------------------------------------------
(* The states *)

EnterStartup(s) == [s EXCEPT !.state = "startup", !.gain = "high"]

(* Its sampling comes after another one for the same losses.               *)
EnterProbeBW(s, start, i) ==
  LtSampling(AdvanceCyclePhase([s EXCEPT !.state = "probe_bw", !.cycle_index = start, !.cycle_start = start,
                                         !.increased = TRUE]), Quiet(i))

EnterDrain(s, i) == LtSampling([s EXCEPT !.state = "drain", !.gain = "drain"], i)

(* The phase that the cycle starts from: by default, or with a long RTT.   *)
Starts == {NormalStart, MaxStart}

(* BBRUpdateBtlBw *)
UpdateBtlBw(s, i) ==
  [LtSampling([s EXCEPT !.round_start = i.round], i) EXCEPT !.increased = @ \/ (s.state = "probe_bw" /\ i.grows)]

CheckCyclePhase(s, i) == IF s.state = "probe_bw" /\ i.phase THEN AdvanceCyclePhase(s) ELSE s

(* BBRCheckFullPipe: three rounds without growth.                          *)
CheckFullPipe(s, i) ==
  IF s.filled \/ ~s.round_start \/ i.limited THEN s
  ELSE IF i.grows THEN [s EXCEPT !.full_count = 0]
  ELSE IF s.full_count < 2 THEN [s EXCEPT !.full_count = @ + 1]
  ELSE [s EXCEPT !.full_count = 0, !.filled = TRUE]

Drained(s, i, start) == IF s.state = "drain" /\ i.drained THEN EnterProbeBW(s, start, i) ELSE s

CheckDrain(s, i, start) ==
  Drained(IF s.state = "startup" /\ s.filled THEN EnterDrain(s, Quiet(i)) ELSE s, i, start)

(* BBRCheckProbeRTT: when rt_prop has expired the path is emptied for a    *)
(* while to measure it again.  BBRSaveCwnd is called after the change of   *)
(* state, so that it always takes the present window.                      *)
(* Mutant: the window is saved after it was cut down. *)
EnterProbeRTT_SavesLate(s, c) ==
  [s EXCEPT !.state = "probe_rtt", !.gain = "one", !.prior = AtMost(c, MinPipe), !.done = "none"]

EnterProbeRTT(s, c) ==
  [s EXCEPT !.state = "probe_rtt", !.gain = "one", !.prior = c, !.done = "none",
            !.cycle_index = 0, !.cycle_start = 0, !.increased = FALSE]

(* BBRHandleProbeRTT once the path has been empty for a round and for      *)
(* BBR_PROBE_RTT_DURATION.                                                 *)
ProbeRttOver(s, i) == s.done = "over" /\ (s.round_done \/ s.round_start)

HandleProbeRTT(s, i) ==
  IF s.done = "none"
  THEN IF i.drained THEN [s EXCEPT !.done = "running", !.round_done = FALSE] ELSE s
  ELSE [s EXCEPT !.round_done = @ \/ s.round_start]

ExitProbeRTT(s, i, start) ==
  LET left == [s EXCEPT !.prior = 0, !.done = "none", !.round_done = FALSE]
  IN  IF s.filled THEN EnterProbeBW(left, start, i) ELSE EnterStartup(left)

-----------------------------------------------------------------------------
(* BBRSetCwnd: the window after a measurement that delivered a packet.     *)
SetCwnd(s, c, i) ==
  LET grown == IF s.filled THEN AtMost(c + 1, i.target)
               ELSE IF c < i.target THEN c + 1 ELSE c
      open  == AtLeast(grown, MinPipe)
  IN  IF s.state = "probe_rtt" THEN AtMost(open, MinPipe) ELSE open

(* bw_measurement outside startup_long_rtt: BBRUpdateOnACK.  Whatever the  *)
(* RTT, rt_prop is fresh when it had expired (BBRUpdateRTprop).            *)
Measure(i, start) ==
  /\ b.state # "startup_long_rtt"
  /\ LET s1 == CheckDrain(CheckFullPipe(CheckCyclePhase(UpdateBtlBw(b, i), i), i), i, start)
         enters == s1.state # "probe_rtt" /\ s1.expired
         s2 == [(IF enters THEN EnterProbeRTT(s1, cwin) ELSE s1) EXCEPT !.expired = FALSE]
         over == s2.state = "probe_rtt" /\ ProbeRttOver(s2, i)
     IN  /\ b' = IF over THEN ExitProbeRTT(s2, i, start)
                 ELSE IF s2.state = "probe_rtt" THEN HandleProbeRTT(s2, i) ELSE s2
         /\ cwin' = SetCwnd(b', IF over THEN AtLeast(cwin, s2.prior) ELSE cwin, i)
         /\ entry' = IF enters THEN cwin ELSE IF over THEN 0 ELSE entry
  /\ cwin' <= MaxCwin                                                    \* bound

(* bw_measurement in startup_long_rtt.                                     *)
MeasureLong(i) ==
  /\ b.state = "startup_long_rtt"
  /\ b' = UpdateBtlBw(b, i)
  /\ cwin' = AtLeast(cwin + 1, i.target \div 2) /\ cwin' <= MaxCwin      \* bound
  /\ UNCHANGED entry

(* rtt_measurement: a long RTT changes the way startup works; a growing    *)
(* one ends it.                                                            *)
EnterStartupLongRTT(win) ==
  /\ b.state = "startup"
  /\ b' = [b EXCEPT !.state = "startup_long_rtt"]
  /\ cwin' = AtLeast(cwin, win)
  /\ UNCHANGED entry

(* BBRExitStartupLongRtt *)
ExitLongRtt(s, i, start) ==
  Drained(EnterDrain([s EXCEPT !.round_start = TRUE, !.full_count = 0, !.filled = TRUE], i), i, start)

RttGrown(i, start) ==
  /\ b.state = "startup_long_rtt"
  /\ b' = ExitLongRtt(b, i, start)
  /\ UNCHANGED <<cwin, entry>>

Reduced(timeout) == IF timeout THEN CwinMin ELSE AtLeast(cwin \div 2, CwinMin)

(* picoquic_bbr_notify_congestion: a CE mark, a loss that passes the test  *)
(* of picoquic_hystart_loss_test, or a timeout; one per RTT and cycle,     *)
(* unless a timeout follows another loss.                                  *)
Congestion(timeout) ==
  /\ ~((b.on_loss \/ b.recent) /\ (~timeout \/ b.was_timeout))
  /\ cwin' = Reduced(timeout)
  /\ UNCHANGED entry

CongestionInStartup(timeout, i, start) ==
  /\ b.state \in {"startup", "startup_long_rtt"}
  /\ Congestion(timeout)
  /\ LET s == [b EXCEPT !.recent = TRUE, !.was_timeout = timeout]
     IN  b' = IF s.state = "startup" THEN EnterDrain([s EXCEPT !.filled = TRUE, !.full_count = 0], i)
              ELSE ExitLongRtt(s, i, start)

CongestionLater(timeout) ==
  /\ b.state \notin {"startup", "startup_long_rtt"}
  /\ Congestion(timeout)
  /\ b' = [b EXCEPT !.recent = TRUE, !.was_timeout = timeout, !.on_loss = TRUE]

(* seed_cwin.  In startup only estimates change.                           *)
Seed(win, i, start) ==
  /\ b.state = "startup_long_rtt"
  /\ b' = Drained(EnterDrain(b, i), i, start)
  /\ cwin' = win
  /\ UNCHANGED entry

(* Time passes: rt_prop grows old, the loss leaves the last RTT, the time  *)
(* of probe_rtt is over.                                                   *)
Elapse ==
  /\ \/ ~b.expired /\ b' = [b EXCEPT !.expired = TRUE]
     \/ b.recent /\ b' = [b EXCEPT !.recent = FALSE, !.was_timeout = @ /\ b.on_loss]
     \/ b.done = "running" /\ b' = [b EXCEPT !.done = "over"]
  /\ UNCHANGED <<cwin, entry>>

(* The samples that differ in what the present state makes of them.        *)
When(p) == IF p THEN BOOLEAN ELSE {FALSE}

Samples ==
  {i \in [round : BOOLEAN, limited : When(~b.filled \/ b.lt_sampling), grows : When(~b.filled \/ b.state = "probe_bw"),
          loss : {"none", "alike"} \cup (IF b.lt_sampling THEN {"few"} ELSE {}) \cup (IF b.lt_bw THEN {"unlike"} ELSE {}),
          phase : When(b.state = "probe_bw"), drained : When(b.state # "probe_bw"),
          target : IF b.filled THEN Targets ELSE {CwinInitial}] :
     /\ i.limited \/ (b.lt_sampling /\ ~i.round) => i.loss = "none"
     /\ i.grows => ~i.limited /\ (i.round \/ b.state = "probe_bw")}

Next ==
  \/ \E i \in Samples, start \in Starts :
       \/ Measure(i, start)
       \/ RttGrown(i, start)
       \/ \E timeout \in BOOLEAN : CongestionInStartup(timeout, i, start)
       \/ \E win \in Seeds : Seed(win, i, start)
  \/ \E i \in Samples : MeasureLong(i)
  \/ \E timeout \in BOOLEAN : CongestionLater(timeout)
  \/ \E win \in Seeds : EnterStartupLongRTT(win)
  \/ Elapse

Spec == Init /\ [][Next]_vars

-----------------------------------------------------------------------------
(* Properties *)

(* The pieces of the state agree.  A full pipe never means startup; the     *)
(* pacing gain in probe_bw is that of the phase of the cycle, or 1 since a  *)
(* policed rate was adopted; and the policed rate is used only when    *)
(* there is one: BBRGetBtlBW would pace at rate 0.                          *)
PhasesConsistent ==
  /\ b.filled => b.state \notin {"startup", "startup_long_rtt"}
  /\ b.state = "probe_bw" => /\ b.cycle_index \in 0..(CycleLen - 1)
                             /\ b.cycle_start \in 0..MaxStart
                             /\ b.gain \in {Gain(b.cycle_index), "one"}
  /\ b.lt_use => b.lt_bw /\ b.lt_sampling

(* The window never closes below PICOQUIC_CWIN_MINIMUM, whatever the order  *)
(* of losses, timeouts, measurements of the RTT and seeds.                  *)
WindowOpen == cwin >= CwinMin

(* The measurement of the RTT costs no window: when probe_rtt ends, the     *)
(* window of its beginning is back, up to the target.                       *)
WindowRestored ==
  [][ b.state = "probe_rtt" /\ b'.state # "probe_rtt" =>
        cwin' >= entry \/ (b'.filled /\ cwin' \in Targets) ]_vars
============================================================================
