------------------------------ MODULE CcCommon ------------------------------
(***************************************************************************)
(* What the congestion controls of picoquic share (cc_common.c): the       *)
(* filter of RTT samples and the two tests that end slow start.            *)
(*                                                                         *)
(* A window is a number of bytes, UINT64_MAX is Unset; the loss rate that  *)
(* picoquic_hystart_loss_test smooths is abstracted: it may exceed the     *)
(* threshold at any loss of a packet with a new number.                    *)
(***************************************************************************)
EXTENDS Integers, Sequences, FiniteSetsExt

CONSTANTS
  Mtu,          (* send_mtu                                                *)
  CwinInitial,  (* PICOQUIC_CWIN_INITIAL                                   *)
  CwinMinimum,  (* PICOQUIC_CWIN_MINIMUM                                   *)
  Unset,        (* UINT64_MAX                                              *)
  Srtt,         (* smoothed_rtt of the path                                *)
  Scope         (* PICOQUIC_MIN_MAX_RTT_SCOPE                              *)

CcAssumption ==
  /\ {Mtu, CwinInitial, CwinMinimum, Unset, Srtt, Scope} \subseteq Nat \ {0}
  /\ CwinMinimum <= CwinInitial /\ 2 * CwinInitial < Unset

NewFilter ==
  [samples |-> <<>>, filtered_min |-> 0, nb_rtt_excess |-> 0,
   last_rtt_sample_time |-> 0, last_lost |-> 0]

IsInit(f) == Len(f.samples) = Scope

SampleSet(f) == {f.samples[i] : i \in DOMAIN f.samples}

(* picoquic_filter_rtt_min_max: the last Scope samples.                    *)
Sampled(f, rtt) ==
  [f EXCEPT !.samples = IF IsInit(f) THEN Append(Tail(@), rtt) ELSE Append(@, rtt)]

(* picoquic_hystart_test: the filter after a sample, and whether the RTT   *)
(* has grown for Scope samples.                                            *)
Hystart(f, rtt, now) ==
  IF now <= f.last_rtt_sample_time THEN f
  ELSE LET g == [Sampled(f, rtt) EXCEPT !.last_rtt_sample_time = now]
           lo == Min(SampleSet(g))  hi == Max(SampleSet(g))
           base == IF g.filtered_min = 0 \/ g.filtered_min > hi THEN hi ELSE g.filtered_min
       IN  IF ~IsInit(g) THEN g
           ELSE [g EXCEPT !.filtered_min = base,
                          !.nb_rtt_excess = IF lo <= base THEN 0
                                            ELSE IF lo > base + base \div 4 /\ @ < Scope THEN @ + 1
                                            ELSE @]

(* The test succeeds on a sample that counts as an excess.                 *)
HystartExit(f, rtt, now) ==
  LET g == Hystart(f, rtt, now)
  IN  /\ now > f.last_rtt_sample_time /\ IsInit(g)
      /\ g.nb_rtt_excess = Scope
      /\ Min(SampleSet(g)) > g.filtered_min + g.filtered_min \div 4

(* picoquic_hystart_loss_test *)
LossTest(f, kind, number) ==
  IF number <= f.last_lost THEN {FALSE} ELSE IF kind = "timeout" THEN {TRUE} ELSE BOOLEAN

Lost(f, number) == [f EXCEPT !.last_lost = Max({@, number})]
=============================================================================
