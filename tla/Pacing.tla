------------------------------- MODULE Pacing -------------------------------
(***************************************************************************)
(* The leaky bucket that paces the packets of a path, filled by the clock  *)
(* and emptied by packets.  Some packets ask it first; ACKs and others are *)
(* only counted, and Tonopah with two paths does not heed the answer.      *)
(*                                                                         *)
(* A rate is a pair of bytes and nanoseconds, and floating point numbers   *)
(* are fractions rounded down where the code converts them.                *)
(***************************************************************************)
EXTENDS Integers

CONSTANTS
  Nano,         (* nanoseconds per unit of time: 1000                      *)
  RateUnit,     (* nanoseconds in the unit of pacing_rate: 10^9            *)
  Mtu,          (* send_mtu                                                *)
  Rtts,         (* smoothed_rtt, at least 1                                *)
  Cwins,        (* windows                                                 *)
  RateBytes,    (* pacing rates of BBR: bytes ...                          *)
  RateNanos,    (* ... in nanoseconds                                      *)
  Quanta,       (* its send_quantum: unset, or at least a packet           *)
  LongRtt,      (* 4 * PICOQUIC_MAX_BANDWIDTH_TIME_INTERVAL_MAX            *)
  SlowQuantum,  (* quantum_min                                             *)
  Decreases, Increases,   (* thresholds of a subscription                  *)
  NoThreshold,  (* UINT64_MAX, larger than any rate                        *)
  Train,        (* packet_train_mode                                       *)
  MaxTime       (* bound: the clock                                        *)

ASSUME PacingAssumption ==
  /\ {Nano, RateUnit, Mtu} \subseteq Nat \ {0}
  /\ Rtts \subseteq Nat \ {0} /\ Cwins \subseteq Nat \ {0}
  /\ RateBytes \subseteq Nat \ {0} /\ RateNanos \subseteq Nat \ {0}
  /\ \A quantum \in Quanta : quantum \in Nat /\ (quantum = 0 \/ quantum >= Mtu)
  /\ LongRtt \in Nat /\ SlowQuantum \in Nat
  /\ Decreases \subseteq Nat /\ Increases \subseteq Nat /\ NoThreshold \in Nat
  /\ Train \in BOOLEAN /\ MaxTime \in Nat

VARIABLES
  pacer,        (* the pacing fields of the path                           *)
  app,          (* the subscription of the application; history: whether   *)
                (* the rate was set under its thresholds                   *)
  time,         (* current_time                                            *)
  wait,         (* when the path may send, as it was told, or None         *)
  meter         (* history: packets that asked, since the rate changed     *)

pacingVars == <<pacer, app, time, wait, meter>>

NoWait == -1
Least(a, b) == IF a < b THEN a ELSE b
Most(a, b) == IF a < b THEN b ELSE a

Metered(p) == [from |-> p.evaluation, paced |-> 0]

(* picoquic_create_path                                                    *)
PacingInit ==
  /\ pacer = [evaluation |-> 0, bucket |-> 16, max |-> 16, packet |-> 1, rate |-> 0]
  /\ app = [requested |-> FALSE, decrease |-> 0, increase |-> 0,
            signalled |-> 0, told |-> FALSE]
  /\ time = 0 /\ wait = NoWait /\ meter = Metered(pacer)

-----------------------------------------------------------------------------
(* The bucket *)

(* picoquic_update_pacing_bucket                                           *)
Filled(p, t) ==
  LET owed == Most(p.bucket, -p.packet)
  IN  IF t > p.evaluation
      THEN [p EXCEPT !.evaluation = t, !.bucket = Least(owed + (t - p.evaluation) * Nano, p.max)]
      ELSE [p EXCEPT !.bucket = owed]

Authorized(p) == p.bucket >= p.packet

Lacking(p) ==
  IF Train THEN Least(p.max, 10 * p.packet) - p.bucket ELSE p.packet - p.bucket

(* Mutant: the remainder of the division is not waited for. *)
NextTime_Early(p, t) == t + Lacking(p) \div Nano

NextTime(p, t) == t + 1 + Lacking(p) \div Nano

(* picoquic_update_pacing_after_send                                       *)
AfterSend(p, t) == LET f == Filled(p, t) IN [f EXCEPT !.bucket = @ - f.packet]

(* A packet that asks: it is sent, or was not needed, or has to wait.      *)
Ask ==
  LET f == Filled(pacer, time)
  IN  IF Authorized(f)
      THEN \/ /\ pacer' = AfterSend(f, time)
              /\ meter' = [meter EXCEPT !.paced = @ + f.packet] /\ wait' = NoWait
              /\ UNCHANGED <<app, time>>
           \/ pacer' = f /\ wait' = NoWait /\ UNCHANGED <<app, time, meter>>
      ELSE pacer' = f /\ wait' = NextTime(f, time) /\ UNCHANGED <<app, time, meter>>

(* A packet that does not, or that is sent whatever the answer: Filled     *)
(* twice is Filled.                                                        *)
SendUnasked ==
  pacer' = AfterSend(pacer, time) /\ wait' = NoWait /\ UNCHANGED <<app, time, meter>>

(* picoquic_retransmit_needed: a lost packet of which nothing is repeated. *)
RepeatNothing ==
  /\ pacer.bucket >= -pacer.packet                                       \* bound
  /\ pacer' = [pacer EXCEPT !.bucket = @ - pacer.packet] /\ wait' = NoWait
  /\ UNCHANGED <<app, time, meter>>

-----------------------------------------------------------------------------
(* The rate *)

Duration(bytes, rate) == (bytes * rate.nanos) \div rate.bytes

PacketTime(rate, rtt) ==
  IF Duration(Mtu, rate) = 0 THEN 1 ELSE Least(Duration(Mtu, rate), rtt * Nano)

(* Mutant: the bucket keeps what it holds. *)
WithMax_NotCut(p, max) == [p EXCEPT !.max = max]

WithMax(p, max) == [p EXCEPT !.max = max, !.bucket = Least(@, max)]

(* picoquic_update_pacing_rate                                             *)
WithRate(p, rate, quantum, rtt) ==
  LET packet == PacketTime(rate, rtt)
      max    == IF Duration(quantum, rate) = 0 THEN 16 * packet ELSE Duration(quantum, rate)
  IN  WithMax([p EXCEPT !.packet = packet, !.rate = (rate.bytes * RateUnit) \div rate.nanos], max)

(* The application hears of a rate that is too far from the last one, on   *)
(* the first path.                                                         *)
Signalled(a, rate) ==
  IF a.requested /\ (rate - a.signalled >= Most(a.increase, 1) \/ a.signalled - rate > a.decrease)
  THEN [a EXCEPT !.signalled = rate, !.told = TRUE] ELSE [a EXCEPT !.told = TRUE]

(* picoquic_update_pacing_data.  With Tonopah on two paths no window is    *)
(* small.                                                                  *)
Small(cwin, rtt) == cwin < 8 * Mtu \/ rtt * Nano <= Nano

RateOf(cwin, rtt, slow) ==
  IF slow THEN [bytes |-> 5 * cwin, nanos |-> 4 * rtt * Nano] ELSE [bytes |-> cwin, nanos |-> rtt * Nano]

(* The quantum is compared with the window's rate before slow start raises *)
(* it.                                                                     *)
Quantum(cwin, rtt, slow) ==
  LET quarter == cwin \div 4
  IN  IF quarter < 2 * Mtu THEN 2 * Mtu
      ELSE IF slow /\ rtt > LongRtt
      THEN IF quarter < SlowQuantum THEN SlowQuantum ELSE Most(quarter, (cwin * LongRtt) \div (4 * rtt))
      ELSE Least(quarter, 16 * Mtu)

Changed(p) == pacer' = p /\ meter' = Metered(p) /\ wait' = NoWait

UpdatePacingRate(rate, quantum, rtt) ==
  /\ Changed(WithRate(pacer, rate, quantum, rtt))
  /\ app' = Signalled(app, pacer'.rate)
  /\ UNCHANGED time

UpdatePacingData(cwin, rtt, slow) ==
  IF Small(cwin, rtt)
  THEN Changed(WithMax([pacer EXCEPT !.packet = 1], rtt * Nano)) /\ UNCHANGED <<app, time>>
  ELSE UpdatePacingRate(RateOf(cwin, rtt, slow), Quantum(cwin, rtt, slow), rtt)

(* picoquic_subscribe_pacing_rate_updates                                  *)
Subscribe(decrease, increase) ==
  /\ app' = [app EXCEPT !.requested = decrease # NoThreshold \/ increase # NoThreshold,
                        !.decrease = decrease, !.increase = increase, !.told = FALSE]
  /\ UNCHANGED <<pacer, time, wait, meter>>

PacingTick == time < MaxTime /\ time' = time + 1 /\ UNCHANGED <<pacer, app, wait, meter>>

PacingNext ==
  \/ Ask \/ SendUnasked \/ RepeatNothing \/ PacingTick
  \/ \E rtt \in Rtts :
       \/ \E bytes \in RateBytes, nanos \in RateNanos, quantum \in Quanta :
            UpdatePacingRate([bytes |-> bytes, nanos |-> nanos], quantum, rtt)
       \/ \E cwin \in Cwins, slow \in BOOLEAN : UpdatePacingData(cwin, rtt, slow)
  \/ \E decrease \in Decreases, increase \in Increases : Subscribe(decrease, increase)

PacingSpec == PacingInit /\ [][PacingNext]_pacingVars

-----------------------------------------------------------------------------
(* A path that is told to wait may send when the time has come, and the    *)
(* wait is worth at most two packets, or a train: whatever was sent        *)
(* without asking before, the loop neither spins nor sleeps for long.      *)
WaitsExact ==
  wait # NoWait =>
    /\ Authorized(Filled(pacer, Most(wait, time)))
    /\ (wait - 1 - pacer.evaluation) * Nano <= (IF Train THEN 11 ELSE 2) * pacer.packet

(* The packets that ask go at the rate: in any time no more than the time  *)
(* allows and one bucket.                                                  *)
RateKept == meter.paced <= pacer.max + (time - meter.from) * Nano

(* An application that subscribed knows the rate within its thresholds,    *)
(* from the first time the rate is set under them.                         *)
RateKnown ==
  app.requested /\ app.told =>
    pacer.rate < app.signalled + Most(app.increase, 1) /\ app.signalled - pacer.rate <= app.decrease

PacingSound == WaitsExact /\ RateKept /\ RateKnown
=============================================================================
