------------------------------ MODULE Tonopah ------------------------------
(***************************************************************************)
(* The older congestion control of picoquic/tonopah.c.  As in NewTonopah   *)
(* two paths share one window, but here the larger share changes sides     *)
(* with every measurement interval, and fair queuing is inferred when the  *)
(* path with the larger share did not get the larger bandwidth over        *)
(* Required intervals in a row.                                            *)
(*                                                                         *)
(* Abstracted: one connection (the globals outlive it as in NewTonopah),   *)
(* a fixed RTT, small windows, any of Growth as increase per ACK in        *)
(* congestion avoidance.                                                   *)
(***************************************************************************)
EXTENDS Integers, Sequences, SequencesExt

CONSTANTS
  Required,      (* INTERVALS_REQUIRED                                     *)
  IntervalTime,  (* minimum_interval = maximum_interval                    *)
  CwinMin,       (* PICOQUIC_CWIN_MINIMUM                                  *)
  CwinInitial,   (* PICOQUIC_CWIN_INITIAL                                  *)
  Unlimited,     (* UINT64_MAX as ssthresh                                 *)
  Rtt,           (* smoothed_rtt of both paths                             *)
  Growth,        (* increases by one ACK in congestion avoidance           *)
  Seeds,         (* windows suggested by seed, RTT and bandwidth           *)
  MaxCwin,       (* bound: largest window                                  *)
  MaxTime,       (* bound: last tick of the clock                          *)
  MaxSeq,        (* bound: packets sent per path                           *)
  MaxAcks        (* bound: ACKs counted per interval and path              *)

VARIABLES
  nb_paths,      (* cnx->nb_paths                                          *)
  known,         (* path1, path2: the paths in the order they were noticed *)
  dominant,      (* dominant_path, 0 before the first notification         *)
  intervals,     (* interval_list_first .. interval_list_last              *)
  last_change,   (* last_change                                            *)
  nrss,          (* picoquic_tonopah_sim_state_t of path[0]                *)
  cwin,          (* path->cwin                                             *)
  seq,           (* path->path_packet_number                               *)
  acked,         (* path->path_packet_acked_number                         *)
  now            (* current time                                           *)

vars == <<nb_paths, known, dominant, intervals, last_change, nrss, cwin, seq, acked, now>>

Path == 1..2
Zero == [p \in Path |-> 0]

(* picoquic_tonopah_sim_reset *)
SimReset == [alg_state |-> "slow_start", cwin |-> CwinInitial, ssthresh |-> Unlimited,
             recovery_start |-> 0, recovery_sequence |-> 0]

(* picoquic_tonopah_init of path[0]; path[1] follows when it is created.   *)
Init ==
  /\ nb_paths = 1 /\ known = <<>> /\ dominant = 0
  /\ intervals = <<>> /\ last_change = 0
  /\ nrss = SimReset
  /\ cwin = [p \in Path |-> CwinInitial]
  /\ seq = <<1, 0>> /\ acked = Zero
  /\ now = 1

-----------------------------------------------------------------------------
(* What picoquic_tonopah_notify notes of path p first *)

Known(p) == IF p \in ToSet(known) THEN known ELSE Append(known, p)

Dominant == IF dominant = 0 THEN 1 ELSE dominant

LastChange == IF dominant = 0 THEN now ELSE last_change

Side(p, k) == IF Known(p)[1] = k THEN 1 ELSE 2

-----------------------------------------------------------------------------
(* Measurement intervals *)

Exchanged(d) == 3 - d

NewInterval(p, d) ==
  [first_seq |-> [s \in Path |-> seq[Known(p)[s]]], first_ack |-> Zero, last_ack |-> Zero,
   bytes |-> Zero, finished |-> [s \in Path |-> FALSE], dominant_id |-> Side(p, d)]

(* At most 2 * INTERVALS_REQUIRED intervals are kept.                      *)
KeepYoungest(list) == IF Len(list) > 2 * Required THEN Tail(list) ELSE list

BothFinished(list, i) == \A s \in Path : list[i].finished[s]

(* aggregate_intervals goes back from the youngest interval to the first   *)
(* Required ones in a row that are finished on both paths.                 *)
Aggregated(list) ==
  LET rows == {i \in 1..(Len(list) - Required + 1) : \A j \in i..(i + Required - 1) : BothFinished(list, j)}
  IN  IF rows = {} THEN {} ELSE LET i == CHOOSE i \in rows : \A j \in rows : j <= i
                                IN  i..(i + Required - 1)

Total(list, run, value(_, _)) ==
  LET sum[n \in 0..Len(list)] ==
        IF n = 0 THEN 0 ELSE sum[n - 1] + (IF n \in run THEN value(n, list[n].dominant_id) ELSE 0)
  IN  sum[Len(list)]

(* The share of the bandwidth that the dominant paths got, against the     *)
(* share of the packets they were given, over the intervals run.  A time   *)
(* of 0 makes a bandwidth infinite; products compare as the doubles do,    *)
(* infinities and NaN included.  ratio = 0.6, so "enough" is over 0.575.   *)
DetectedFq(list) ==
  LET run == Aggregated(list)
      bytes(n, s) == list[n].bytes[s]
      time(n, s) == list[n].last_ack[s] - list[n].first_ack[s]
      sent(n, s) == list[n + 1].first_seq[s] - list[n].first_seq[s]
      x == Total(list, run, bytes) * Total(list, run, LAMBDA n, s : time(n, 3 - s))
      y == Total(list, run, LAMBDA n, s : bytes(n, 3 - s)) * Total(list, run, time)
      d == Total(list, run, sent)
      r == Total(list, run, LAMBDA n, s : sent(n, 3 - s))
  IN  /\ run # {}
      /\ 1000 * d > 575 * (d + r)
      /\ 4 * x * (d + r) < (x + y) * (3 * d + r)

(* find_right_interval: the youngest interval that had started when packet *)
(* num was sent; the one before it is finished if anything was measured.   *)
RightIntervals(list, side, num) ==
  {i \in 1..Len(list) : /\ num >= list[i].first_seq[side]
                        /\ \A j \in (i + 1)..Len(list) : num < list[j].first_seq[side]}

Measured(iv, side) == iv.first_ack[side] # 0 /\ iv.bytes[side] # 0 /\ iv.first_seq[side] # 0

Finish(iv, side) == [iv EXCEPT !.finished[side] = @ \/ Measured(iv, side)]

CountAck(iv, side) ==
  [iv EXCEPT !.bytes[side] = @ + 1, !.last_ack[side] = now,
             !.first_ack[side] = IF @ = 0 THEN now ELSE @]

Account(list, side, num) ==
  LET right == RightIntervals(list, side, num)
      step(done, iv) ==
        LET i == Len(done) + 1
        IN  Append(done, IF i \in right THEN CountAck(iv, side)
                         ELSE IF i + 1 \in right THEN Finish(iv, side) ELSE iv)
  IN  FoldLeft(step, <<>>, list)

-----------------------------------------------------------------------------
(* The shared window *)

AtLeast(c) == IF c < CwinMin THEN CwinMin ELSE c

IntervalDue == LastChange + IntervalTime < now

FqReduced(n) == [n EXCEPT !.ssthresh = (7 * n.cwin) \div 8, !.cwin = (7 * n.cwin) \div 8]

Carried(fq, n, list) == IF fq \/ n.alg_state # "congestion_avoidance" THEN <<>> ELSE list

(* Mutant: the shares do not change sides with the dominant path. *)
Shares_Fixed(d, c) == [k \in Path |-> IF k = 1 THEN AtLeast((3 * c) \div 5) ELSE AtLeast((2 * c) \div 5)]

Shares(d, c) == [k \in Path |-> IF k = d THEN AtLeast((3 * c) \div 5) ELSE AtLeast((2 * c) \div 5)]

(* set_path with the window state n and the list of intervals list, after  *)
(* a notification for p.  The shares are those of the window c.            *)
SetPath(p, n, list, c) ==
  IF nb_paths = 2 /\ Len(Known(p)) = 2
  THEN LET fq == IntervalDue /\ DetectedFq(list) /\ n.alg_state = "congestion_avoidance"
           d  == IF IntervalDue THEN Exchanged(Dominant) ELSE Dominant
       IN  /\ dominant' = d
           /\ nrss' = IF fq THEN FqReduced(n) ELSE n
           /\ intervals' = IF ~IntervalDue THEN list
                           ELSE KeepYoungest(Append(Carried(fq, n, list), NewInterval(p, d)))
           /\ last_change' = IF IntervalDue THEN now ELSE LastChange
           /\ cwin' = Shares(d, c)
  ELSE /\ dominant' = Dominant /\ nrss' = n /\ intervals' = list /\ last_change' = LastChange
       /\ UNCHANGED cwin

Unmoved == dominant' = Dominant /\ last_change' = LastChange /\ UNCHANGED <<nrss, intervals, cwin>>

Notify(p) == p <= nb_paths /\ known' = Known(p) /\ UNCHANGED <<nb_paths, seq, now>>

InRecovery(n) == <<n.recovery_start, n.recovery_sequence>>

InitialSlowStart == nrss.alg_state = "slow_start" /\ nrss.ssthresh = Unlimited

-----------------------------------------------------------------------------
(* Notifications *)

AckedWindow(growth) ==
  IF nrss.alg_state = "congestion_avoidance" THEN [nrss EXCEPT !.cwin = @ + growth]
  ELSE [nrss EXCEPT !.cwin = @ + 1,
                    !.alg_state = IF nrss.cwin + 1 >= nrss.ssthresh THEN "congestion_avoidance" ELSE @]

(* An ACK while the sender is not limited by the application.              *)
NotifyAck(p, num, growth) ==
  /\ Notify(p)
  /\ num \in acked[p]..(seq[p] - 1)
  /\ \A i \in RightIntervals(intervals, Side(p, p), num) :
       intervals[i].bytes[Side(p, p)] < MaxAcks                          \* bound
  /\ acked' = [acked EXCEPT ![p] = num]
  /\ AckedWindow(growth).cwin <= MaxCwin                                 \* bound
  /\ SetPath(p, AckedWindow(growth), Account(intervals, Side(p, p), num), AckedWindow(growth).cwin)

(* Otherwise, and when the window is full, only the path is noted.         *)
NotifyIdle(p) == Notify(p) /\ Unmoved /\ UNCHANGED acked

OutOfRecovery == now - nrss.recovery_start > Rtt \/ nrss.recovery_sequence <= acked[1]

LossIgnored == nrss.alg_state = "congestion_avoidance" /\ intervals = <<>>

(* picoquic_tonopah_sim_enter_recovery *)
Recovered(kind) ==
  LET half == AtLeast(nrss.cwin \div 2)
  IN  [alg_state |-> IF kind = "timeout" THEN "slow_start" ELSE "congestion_avoidance",
       cwin      |-> IF kind = "timeout" THEN CwinMin ELSE half,
       ssthresh  |-> half,
       recovery_start |-> now,
       recovery_sequence |-> seq[1]]

Reacts == OutOfRecovery /\ ~LossIgnored

AfterRecovery(p) == IF Reacts /\ Len(Known(p)) = 2 THEN <<>> ELSE intervals

(* A loss (repeat), a timeout or a CE mark.                                *)
NotifyLoss(p, kind) ==
  /\ Notify(p)
  /\ LET n == IF Reacts THEN Recovered(kind) ELSE nrss IN SetPath(p, n, AfterRecovery(p), n.cwin)
  /\ UNCHANGED acked

NotifySpurious(p, num) ==
  /\ Notify(p)
  /\ num \in acked[p]..(seq[p] - 1)
  /\ acked' = [acked EXCEPT ![p] = num]
  /\ LET undo == /\ now - nrss.recovery_start < Rtt
                 /\ nrss.recovery_sequence > acked'[1]
                 /\ nrss.ssthresh # Unlimited /\ nrss.cwin < 2 * nrss.ssthresh
         n == IF undo THEN [nrss EXCEPT !.cwin = 2 * nrss.ssthresh, !.alg_state = "congestion_avoidance"]
              ELSE nrss
     IN  /\ n.cwin <= MaxCwin                                            \* bound
         /\ SetPath(p, n, intervals, n.cwin)

(* seed_cwin: the window of an earlier connection.                         *)
NotifySeed(p, win) ==
  /\ Notify(p)
  /\ LET n == IF InitialSlowStart /\ win > nrss.cwin
              THEN [nrss EXCEPT !.cwin = win, !.ssthresh = win, !.alg_state = "congestion_avoidance"]
              ELSE nrss
     IN  SetPath(p, n, intervals, n.cwin)
  /\ UNCHANGED acked

(* A long RTT or the estimated bandwidth raises the window to win.         *)
NotifyRaise(p, win) ==
  /\ Notify(p)
  /\ IF InitialSlowStart /\ win > nrss.cwin
     THEN SetPath(p, [nrss EXCEPT !.cwin = win], intervals, win)
     ELSE Unmoved
  /\ UNCHANGED acked

(* The RTT grew so much that the initial slow start ends.                  *)
NotifyRttGrown(p) ==
  /\ Notify(p)
  /\ InitialSlowStart
  /\ SetPath(p, [nrss EXCEPT !.ssthresh = nrss.cwin, !.alg_state = "congestion_avoidance"], intervals, nrss.cwin)
  /\ UNCHANGED acked

-----------------------------------------------------------------------------
AddPath ==
  /\ nb_paths = 1 /\ nb_paths' = 2
  /\ cwin' = [cwin EXCEPT ![2] = CwinInitial]
  /\ UNCHANGED <<known, dominant, intervals, last_change, nrss, seq, acked, now>>

Send(p) ==
  /\ seq[p] < MaxSeq                                                    \* bound
  /\ seq' = [seq EXCEPT ![p] = @ + 1]
  /\ UNCHANGED <<nb_paths, known, dominant, intervals, last_change, nrss, cwin, acked, now>>

Tick ==
  /\ now < MaxTime /\ now' = now + 1
  /\ UNCHANGED <<nb_paths, known, dominant, intervals, last_change, nrss, cwin, seq, acked>>

Next ==
  \/ \E p \in Path :
       \/ \E num \in 0..MaxSeq, growth \in Growth : NotifyAck(p, num, growth)
       \/ \E num \in 0..MaxSeq : NotifySpurious(p, num)
       \/ \E kind \in {"repeat", "timeout"} : NotifyLoss(p, kind)
       \/ \E win \in Seeds : NotifySeed(p, win) \/ NotifyRaise(p, win)
       \/ NotifyRttGrown(p)
       \/ NotifyIdle(p)
       \/ p <= nb_paths /\ Send(p)
  \/ AddPath
  \/ Tick

Spec == Init /\ [][Next]_vars

-----------------------------------------------------------------------------
(* Properties *)

(* The sums by dominant_path_id compare like with like only if the larger   *)
(* share changed sides from each interval of the list to the next, and the  *)
(* youngest one is that of the present dominant path.                       *)
SharesAlternate ==
  /\ \A i \in 1..(Len(intervals) - 1) : intervals[i].dominant_id # intervals[i + 1].dominant_id
  /\ intervals # <<>> /\ Len(known) = 2 =>
       known[intervals[Len(intervals)].dominant_id] = dominant

(* What aggregate_intervals counts was measured: a finished side has        *)
(* packets, bytes and times in order, and the next interval, whose first    *)
(* packet number is read, exists although the list is cut at both ends and  *)
(* ACKs skip intervals.                                                     *)
FinishedMeasured ==
  \A i \in DOMAIN intervals : \A s \in Path :
    intervals[i].finished[s] =>
      /\ i < Len(intervals)
      /\ intervals[i].bytes[s] > 0
      /\ 0 < intervals[i].first_ack[s] /\ intervals[i].first_ack[s] <= intervals[i].last_ack[s]
      /\ intervals[i].first_seq[s] < intervals[i + 1].first_seq[s]

(* Once both paths are known and the window was split, the dominant path    *)
(* has the larger share, whatever notification came last.                   *)
DominantAhead == intervals # <<>> => cwin[dominant] >= cwin[3 - dominant]
============================================================================
