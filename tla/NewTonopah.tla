----------------------------- MODULE NewTonopah -----------------------------
(***************************************************************************)
(* The congestion control of picoquic/new_tonopah.c: one window shared by  *)
(* two paths, split 2/3 to 1/3, and a list of measurement intervals from   *)
(* which fair queuing at the bottleneck is inferred.  The list, the two    *)
(* path pointers and the dominant path are globals of the process; the     *)
(* window state (nrss) belongs to path[0] of the connection.               *)
(*                                                                         *)
(* Abstracted: RTTs and windows are small numbers, the increase per ACK in *)
(* congestion avoidance is any member of Growth, and the fields no         *)
(* decision reads (bytes_received, ack times, dont_use) are left out.      *)
(***************************************************************************)
EXTENDS Integers, Sequences

CONSTANTS
  PathIds,       (* addresses of path objects                              *)
  NULL,
  CwinMin,       (* PICOQUIC_CWIN_MINIMUM                                  *)
  CwinInitial,   (* PICOQUIC_CWIN_INITIAL                                  *)
  Unlimited,     (* UINT64_MAX as ssthresh                                 *)
  MaxInterval,   (* new_tonopah_maximum_interval                           *)
  Threshold,     (* RTT difference that tells fair queuing (5000 us)       *)
  AckBytes,      (* sizes of acknowledged packets                          *)
  Growth,        (* increases by one ACK in congestion avoidance           *)
  Seeds,         (* windows suggested by seed, RTT and bandwidth           *)
  Rtts,          (* values of smoothed_rtt                                 *)
  InitialRtt,    (* PICOQUIC_INITIAL_RTT                                   *)
  MaxCwin,       (* bound: largest window                                  *)
  MaxTime,       (* bound: last tick of the clock                          *)
  MaxSeq,        (* bound: packets sent per path                           *)
  MaxFlight,     (* bound: packets sent after the highest acknowledged one *)
  MaxAcks,       (* bound: ACKs accounted per interval and path            *)
  MaxMarks,      (* bound: CE marks without effect                         *)
  MaxCnx         (* bound: connections of the process, one after another   *)

ASSUME TonopahAssumption ==
  /\ NULL \notin PathIds
  /\ CwinMin \in Nat /\ CwinInitial \in Nat /\ CwinMin <= CwinInitial
  /\ MaxCwin \in Nat /\ CwinInitial <= MaxCwin /\ Unlimited \in Nat /\ MaxCwin < Unlimited
  /\ MaxInterval \in Nat /\ Threshold \in Nat
  /\ AckBytes \subseteq Nat /\ Growth \subseteq Nat /\ Seeds \subseteq 0..MaxCwin
  /\ Rtts \subseteq Nat \ {0} /\ InitialRtt \in Rtts
  /\ MaxTime \in Nat /\ MaxSeq \in Nat /\ MaxFlight \in Nat /\ MaxAcks \in Nat /\ MaxMarks \in Nat /\ MaxCnx \in Nat

VARIABLES
  paths,         (* cnx->path[0..nb_paths-1], from index 1 here            *)
  path1, path2,  (* new_tonopah_path1, new_tonopah_path2                   *)
  dominant,      (* new_tonopah_dominant_path                              *)
  intervals,     (* new_tonopah_interval_list_first .. _last               *)
  last_change,   (* new_tonopah_last_change                                *)
  nrss,          (* picoquic_new_tonopah_sim_state_t of path[0]            *)
  cwin,          (* path->cwin                                             *)
  seq,           (* path->path_packet_number                               *)
  acked,         (* path->path_packet_acked_number                         *)
  srtt,          (* path->smoothed_rtt                                     *)
  now,           (* current time                                           *)
  fault,         (* what stopped the process, if anything did              *)
  cnx,           (* number of the connection                               *)
  ready,         (* path[1] has its congestion_alg_state                   *)
  marks,         (* history: CE marks of the other path that had no effect *)
  reduced        (* history: time of the last recovery or decrease of cwin *)

globals == <<path1, path2, dominant, intervals, last_change>>
vars == <<paths, path1, path2, dominant, intervals, last_change, nrss, cwin, seq, acked,
          srtt, now, fault, cnx, ready, marks, reduced>>

Side == 1..2

AlgState == {"slow_start", "congestion_avoidance"}

Sim == [alg_state : AlgState, cwin : Nat, ssthresh : Nat,
        recovery_start : Nat, recovery_sequence : Nat]

Interval == [first_seq : [Side -> Nat], rtt_sum : [Side -> Nat], num_acks : [Side -> Nat],
             finished : [Side -> BOOLEAN], dominant_id : Side]

(* picoquic_new_tonopah_sim_reset *)
SimReset == [alg_state |-> "slow_start", cwin |-> CwinInitial, ssthresh |-> Unlimited,
             recovery_start |-> 0, recovery_sequence |-> 0]

Faults == {"none", "unknown_path", "missing_path"}

(* The process has one connection on one path; picoquic_new_tonopah_init   *)
(* has set up its window.                                                  *)
Init ==
  /\ \E p \in PathIds : paths = <<p>>
  /\ path1 = NULL /\ path2 = NULL /\ dominant = NULL
  /\ intervals = <<>>
  /\ last_change = 0
  /\ nrss = SimReset
  /\ cwin = [p \in PathIds |-> CwinInitial]
  /\ seq = [p \in PathIds |-> 0]
  /\ acked = [p \in PathIds |-> 0]
  /\ srtt = [p \in PathIds |-> InitialRtt]
  /\ now = 1
  /\ fault = "none"
  /\ cnx = 1
  /\ ready = FALSE
  /\ marks = 0
  /\ reduced = 0

-----------------------------------------------------------------------------
(* The globals once picoquic_new_tonopah_notify has looked at path p *)

Path1(p) == IF path1 = NULL THEN p ELSE path1

Path2(p) == IF path1 # NULL /\ p # path1 /\ path2 = NULL THEN p ELSE path2

KnownPath(p) == p \in {Path1(p), Path2(p)}

BothKnown(p) == Path1(p) # NULL /\ Path2(p) # NULL

Dominant == IF dominant = NULL THEN paths[1] ELSE dominant

LastChange == IF dominant = NULL THEN now ELSE last_change

SideOf(p) == IF p = Path1(p) THEN 1 ELSE 2

SmoothedRtt(rtts) ==
  IF Len(paths) = 2 THEN (rtts[paths[1]] + rtts[paths[2]]) \div 2 ELSE rtts[paths[1]]

IntervalLength(rtts) == IF SmoothedRtt(rtts) < MaxInterval THEN SmoothedRtt(rtts) ELSE MaxInterval

-----------------------------------------------------------------------------
(* Measurement intervals *)

(* Mutant: an interval decides before it is over. *)
FinishedIntervals_Open(list) == 1..Len(list)

(* new_tonopah_aggregate_intervals, INTERVALS_REQUIRED = 1: the youngest   *)
(* interval that is finished on both paths decides.  Without an ACK on one *)
(* side the mean is not a number and the comparison is false.              *)
FinishedIntervals(list) == {i \in 1..Len(list) : \A s \in Side : list[i].finished[s]}

RttGap(iv) ==
  LET d == iv.dominant_id
      s == 3 - d
  IN  /\ \A k \in Side : iv.num_acks[k] > 0
      /\ iv.rtt_sum[d] * iv.num_acks[s] - iv.rtt_sum[s] * iv.num_acks[d]
           > Threshold * iv.num_acks[d] * iv.num_acks[s]

AggregateIntervals(list) ==
  \E i \in FinishedIntervals(list) :
    /\ \A j \in FinishedIntervals(list) : j <= i
    /\ RttGap(list[i])

(* Mutant: the two sides are exchanged. *)
NewInterval_Exchanged(p) ==
  [first_seq   |-> [s \in Side |-> seq[IF s = 1 THEN Path2(p) ELSE Path1(p)]],
   rtt_sum     |-> [s \in Side |-> 0],
   num_acks    |-> [s \in Side |-> 0],
   finished    |-> [s \in Side |-> FALSE],
   dominant_id |-> IF Dominant = Path1(p) THEN 1 ELSE 2]

NewInterval(p) ==
  [first_seq   |-> [s \in Side |-> seq[IF s = 1 THEN Path1(p) ELSE Path2(p)]],
   rtt_sum     |-> [s \in Side |-> 0],
   num_acks    |-> [s \in Side |-> 0],
   finished    |-> [s \in Side |-> FALSE],
   dominant_id |-> IF Dominant = Path1(p) THEN 1 ELSE 2]

(* Mutant: the list is cut one interval late. *)
KeepYoungest_OneMore(list) == IF Len(list) > 5 THEN Tail(list) ELSE list

(* At most four intervals are kept (4 * INTERVALS_REQUIRED).               *)
KeepYoungest(list) == IF Len(list) > 4 THEN Tail(list) ELSE list

(* new_tonopah_find_right_interval: the youngest interval that had started *)
(* when packet num of the path was sent.  The one before it is finished.   *)
RightIntervals(list, side, num) ==
  {i \in 1..Len(list) :
     /\ num >= list[i].first_seq[side]
     /\ \A j \in (i + 1)..Len(list) : num < list[j].first_seq[side]}

CountAck(iv, side, rtt) ==
  [iv EXCEPT !.rtt_sum[side] = @ + rtt, !.num_acks[side] = @ + 1]

Finish(iv, side) == [iv EXCEPT !.finished[side] = TRUE]

(* Mutant: the interval itself is finished, not the one before it. *)
Account_FinishesOwn(list, side, num, rtt) ==
  [i \in 1..Len(list) |->
     IF i \in RightIntervals(list, side, num)
     THEN Finish(CountAck(list[i], side, rtt), side)
     ELSE list[i]]

Account(list, side, num, rtt) ==
  [i \in 1..Len(list) |->
     IF i \in RightIntervals(list, side, num)
     THEN CountAck(list[i], side, rtt)
     ELSE IF i + 1 \in RightIntervals(list, side, num) THEN Finish(list[i], side) ELSE list[i]]

-----------------------------------------------------------------------------
(* The shared window *)

DominantShare(c) == IF (2 * c) \div 3 > CwinMin THEN (2 * c) \div 3 ELSE CwinMin

(* Mutant: the smaller share has no floor. *)
SubmissiveShare_NoFloor(c) == c \div 3

SubmissiveShare(c) == IF c \div 3 > CwinMin THEN c \div 3 ELSE CwinMin

(* Mutant: the shares are exchanged. *)
Split_Exchanged(p, c) ==
  [cwin EXCEPT ![paths[1]] = SubmissiveShare(c), ![paths[2]] = DominantShare(c)]

Split(p, c) ==
  IF Dominant = Path1(p)
  THEN [cwin EXCEPT ![paths[1]] = DominantShare(c), ![paths[2]] = SubmissiveShare(c)]
  ELSE IF Dominant = Path2(p)
       THEN [cwin EXCEPT ![paths[2]] = DominantShare(c), ![paths[1]] = SubmissiveShare(c)]
       ELSE cwin

(* The interval changes when the current one lasted a smoothed RTT.        *)
IntervalDue(rtts) == LastChange + IntervalLength(rtts) < now

FqDetected(n, list) ==
  AggregateIntervals(list) /\ n.alg_state = "congestion_avoidance"

FqReduced(n) == [n EXCEPT !.ssthresh = (7 * n.cwin) \div 8, !.cwin = (7 * n.cwin) \div 8]

(* The list starts afresh after a detection and outside congestion         *)
(* avoidance.                                                              *)
Carried(fq, n, list) == IF fq \/ n.alg_state # "congestion_avoidance" THEN <<>> ELSE list

(* new_tonopah_set_path for the window state n and the list of intervals   *)
(* list.  The shares are those of the window before the reduction.         *)
SetPath(p, n, list, rtts) ==
  IF Len(paths) = 2 /\ BothKnown(p)
  THEN LET due == IntervalDue(rtts)
           fq  == due /\ FqDetected(n, list)
       IN  /\ nrss' = IF fq THEN FqReduced(n) ELSE n
           /\ intervals' = IF ~due THEN list
                           ELSE KeepYoungest(Append(Carried(fq, n, list), NewInterval(p)))
           /\ last_change' = IF due THEN now ELSE LastChange
           /\ cwin' = Split(p, n.cwin)
  ELSE /\ nrss' = n
       /\ intervals' = list
       /\ last_change' = LastChange
       /\ UNCHANGED cwin

NoteReduced ==
  reduced' = IF \/ nrss'.cwin < nrss.cwin
                \/ nrss'.recovery_start # nrss.recovery_start
                \/ nrss'.recovery_sequence # nrss.recovery_sequence
             THEN now ELSE reduced

(* What every notification for path p does first: the path is registered,  *)
(* or the process aborts.                                                  *)
Register(p) ==
  /\ fault = "none"
  /\ path1' = Path1(p)
  /\ path2' = Path2(p)
  /\ dominant' = IF KnownPath(p) THEN Dominant ELSE dominant
  /\ UNCHANGED <<paths, seq, now, cnx, ready>>

Abort(p) ==
  /\ Register(p)
  /\ ~KnownPath(p)
  /\ fault' = "unknown_path"
  /\ UNCHANGED <<intervals, last_change, nrss, cwin, acked, srtt, marks, reduced>>

-----------------------------------------------------------------------------
(* Notifications: picoquic_new_tonopah_notify, one action per kind *)

SlowStartAck(n, bytes) ==
  [n EXCEPT !.cwin = @ + bytes,
            !.alg_state = IF n.cwin + bytes >= n.ssthresh THEN "congestion_avoidance" ELSE @]

(* A packet of path p is acknowledged and num is now the highest one that  *)
(* is, while the sender is not limited by the application.  In congestion  *)
(* avoidance cnx->path[1] is read, and without a second path that is past  *)
(* the end of the array: what the process does then is not modelled.       *)
NotifyAck(p, num, bytes, growth) ==
  /\ KnownPath(p) /\ Register(p)
  /\ num \in acked[p]..(seq[p] - 1)
  /\ acked' = [acked EXCEPT ![p] = num]
  /\ \A i \in RightIntervals(intervals, SideOf(p), num) :
       intervals[i].num_acks[SideOf(p)] < MaxAcks                       \* bound
  /\ IF nrss.alg_state = "congestion_avoidance" /\ Len(paths) = 1
     THEN /\ fault' = "missing_path"
          /\ UNCHANGED <<intervals, last_change, nrss, cwin>>
     ELSE LET n == IF nrss.alg_state = "slow_start" THEN SlowStartAck(nrss, bytes)
                   ELSE [nrss EXCEPT !.cwin = @ + growth]
          IN  /\ n.cwin <= MaxCwin                                      \* bound
              /\ SetPath(p, n, Account(intervals, SideOf(p), num, srtt[p]), srtt)
              /\ UNCHANGED fault
  /\ NoteReduced
  /\ UNCHANGED <<srtt, marks>>

(* Notifications that only register the path: an ACK while the sender is   *)
(* limited by the application, cwin_blocked.                               *)
NotifyIdle(p) ==
  /\ KnownPath(p) /\ Register(p)
  /\ last_change' = LastChange
  /\ UNCHANGED <<intervals, nrss, cwin, acked, srtt, fault, marks, reduced>>

(* picoquic_new_tonopah_sim_notify lets a loss through once per RTT,       *)
(* measured by the packets of path[0] whatever path lost the packet.       *)
OutOfRecovery ==
  \/ now - nrss.recovery_start > SmoothedRtt(srtt)
  \/ nrss.recovery_sequence <= acked[paths[1]]

(* In congestion avoidance a loss is ignored while no interval has started *)
(* since the last reduction.                                               *)
LossIgnored == nrss.alg_state = "congestion_avoidance" /\ intervals = <<>>

HalfWindow == IF nrss.cwin \div 2 < CwinMin THEN CwinMin ELSE nrss.cwin \div 2

(* picoquic_new_tonopah_sim_enter_recovery *)
Recovered(kind) ==
  [alg_state |-> IF kind = "timeout" THEN "slow_start" ELSE "congestion_avoidance",
   cwin      |-> IF kind = "timeout" THEN CwinMin ELSE HalfWindow,
   ssthresh  |-> HalfWindow,
   recovery_start |-> now,
   recovery_sequence |-> seq[paths[1]]]

Reacts == OutOfRecovery /\ ~LossIgnored

(* A recovery starts the list of intervals afresh.                         *)
AfterRecovery(p) == IF Reacts /\ BothKnown(p) THEN <<>> ELSE intervals

EnterRecovery(p, kind) ==
  /\ KnownPath(p) /\ Register(p)
  /\ SetPath(p, IF Reacts THEN Recovered(kind) ELSE nrss, AfterRecovery(p), srtt)
  /\ NoteReduced
  /\ UNCHANGED <<acked, srtt, fault>>

(* A packet of path p is declared lost by the ACKs of later ones (repeat)  *)
(* or by the timer (timeout).                                              *)
NotifyLoss(p, kind) == seq[p] > 0 /\ EnterRecovery(p, kind) /\ UNCHANGED marks

(* The path that is told of a CE mark on path p: picoquic_decode_ack_frame *)
(* names path[0] whatever p is.                                            *)
EcnPath(p) == paths[1]

(* A mark is acted upon unless the path is the dominant one.               *)
NotifyEcn(p) ==
  \/ /\ seq[p] > 0
     /\ Dominant = EcnPath(p)
     /\ KnownPath(EcnPath(p)) /\ Register(EcnPath(p))
     /\ last_change' = LastChange
     /\ marks < MaxMarks                                                \* bound
     /\ marks' = IF p # Dominant /\ Reacts THEN marks + 1 ELSE marks
     /\ UNCHANGED <<intervals, nrss, cwin, acked, srtt, fault, reduced>>
  \/ /\ seq[p] > 0
     /\ Dominant # EcnPath(p)
     /\ EnterRecovery(EcnPath(p), "ecn_ec")
     /\ UNCHANGED marks

(* Packet num of path p was declared lost and arrives after all: the       *)
(* window is restored during the RTT of the recovery.                      *)
NotifySpurious(p, num) ==
  /\ KnownPath(p) /\ Register(p)
  /\ num \in acked[p]..(seq[p] - 1)
  /\ acked' = [acked EXCEPT ![p] = num]
  /\ LET undo == /\ now - nrss.recovery_start < SmoothedRtt(srtt)
                 /\ nrss.recovery_sequence > acked'[paths[1]]
                 /\ nrss.ssthresh # Unlimited
                 /\ nrss.cwin < 2 * nrss.ssthresh
         n == IF undo THEN [nrss EXCEPT !.cwin = 2 * nrss.ssthresh,
                                        !.alg_state = "congestion_avoidance"] ELSE nrss
     IN  /\ n.cwin <= MaxCwin                                           \* bound
         /\ SetPath(p, n, intervals, srtt)
  /\ NoteReduced
  /\ UNCHANGED <<srtt, fault, marks>>

InitialSlowStart == nrss.alg_state = "slow_start" /\ nrss.ssthresh = Unlimited

LeaveSlowStart(n) == [n EXCEPT !.ssthresh = n.cwin, !.alg_state = "congestion_avoidance"]

Raised(win) == [nrss EXCEPT !.cwin = IF win > @ THEN win ELSE @]

(* The window of a previous connection is tried (seed_cwin).               *)
NotifySeed(p, win) ==
  /\ seq[p] > 0
  /\ KnownPath(p) /\ Register(p)
  /\ LET n == IF InitialSlowStart /\ win > nrss.cwin
              THEN LeaveSlowStart(Raised(win)) ELSE nrss
     IN  SetPath(p, n, intervals, srtt)
  /\ NoteReduced
  /\ UNCHANGED <<acked, srtt, fault, marks>>

(* The RTT of path p is measured.  In the initial slow start a long RTT    *)
(* raises the window to win (set_path runs, and starts the list afresh if  *)
(* the interval is over); then the RTT may have grown so much that slow    *)
(* start ends (picoquic_hystart_test, here left), and set_path runs again. *)
NotifyRtt(p, rtt, win, left) ==
  LET raises == win > nrss.cwin
      n == IF left THEN LeaveSlowStart(Raised(win)) ELSE Raised(win)
  IN  /\ seq[p] > 0
      /\ KnownPath(p) /\ Register(p)
      /\ srtt' = [srtt EXCEPT ![p] = rtt]
      /\ IF InitialSlowStart /\ (raises \/ left)
         THEN SetPath(p, n, IF raises /\ IntervalDue(srtt') THEN <<>> ELSE intervals, srtt')
         ELSE /\ last_change' = LastChange
              /\ UNCHANGED <<intervals, nrss, cwin>>
      /\ NoteReduced
      /\ UNCHANGED <<acked, fault, marks>>

(* The bandwidth is measured: half of it raises the initial window.        *)
NotifyBandwidth(p, win) ==
  /\ seq[p] > 0
  /\ KnownPath(p) /\ Register(p)
  /\ IF InitialSlowStart /\ win > nrss.cwin
     THEN SetPath(p, Raised(win), intervals, srtt)
     ELSE /\ last_change' = LastChange
          /\ UNCHANGED <<intervals, nrss, cwin>>
  /\ NoteReduced
  /\ UNCHANGED <<acked, srtt, fault, marks>>

-----------------------------------------------------------------------------
(* The connection around the algorithm *)

Send(p) ==
  /\ fault = "none"
  /\ seq[p] < MaxSeq /\ seq[p] <= acked[p] + MaxFlight                 \* bounds
  /\ seq' = [seq EXCEPT ![p] = @ + 1]
  /\ UNCHANGED <<globals, nrss, cwin, paths, acked, srtt, now, fault, cnx, ready, marks, reduced>>

(* The application asks for the second path once data arrives, so after    *)
(* the first notifications for path[0] (picoquic_create_path).             *)
AddPath(p) ==
  /\ fault = "none"
  /\ Len(paths) = 1 /\ p # paths[1]
  /\ path1 # NULL /\ seq[paths[1]] > 0
  /\ paths' = Append(paths, p)
  /\ ready' = FALSE
  /\ cwin' = [cwin EXCEPT ![p] = CwinInitial]
  /\ seq' = [seq EXCEPT ![p] = 0]
  /\ acked' = [acked EXCEPT ![p] = 0]
  /\ srtt' = [srtt EXCEPT ![p] = InitialRtt]
  /\ UNCHANGED <<globals, nrss, now, fault, cnx, marks, reduced>>

(* The challenge of the second path is answered: the path scheduler calls  *)
(* picoquic_new_tonopah_init, which sets the window of the path whatever   *)
(* share it had got by then.                                               *)
InitPath ==
  /\ fault = "none"
  /\ Len(paths) = 2 /\ ~ready
  /\ ready' = TRUE
  /\ cwin' = [cwin EXCEPT ![paths[2]] = CwinInitial]
  /\ UNCHANGED <<globals, nrss, paths, seq, acked, srtt, now, fault, cnx, marks, reduced>>

(* The connection ends (picoquic_new_tonopah_delete frees its state only)  *)
(* and another one of the same process starts on a new path object.  What  *)
(* the freed objects hold, junk, is read if a global still points there.   *)
NewConnection(p, junk) ==
  /\ fault = "none"
  /\ cnx < MaxCnx
  /\ cnx' = cnx + 1
  /\ paths' = <<p>>
  /\ ready' = FALSE
  /\ nrss' = SimReset
  /\ cwin' = [cwin EXCEPT ![p] = CwinInitial]
  /\ seq' = [junk EXCEPT ![p] = 0]
  /\ acked' = [acked EXCEPT ![p] = 0]
  /\ srtt' = [srtt EXCEPT ![p] = InitialRtt]
  /\ UNCHANGED <<globals, now, fault, marks, reduced>>

Tick ==
  /\ fault = "none"
  /\ now < MaxTime
  /\ now' = now + 1
  /\ UNCHANGED <<globals, nrss, cwin, paths, seq, acked, srtt, fault, cnx, ready, marks, reduced>>

CurrentPaths == {paths[i] : i \in 1..Len(paths)}

Notify(p) ==
  \/ Abort(p)
  \/ \E num \in 0..MaxSeq, bytes \in AckBytes, growth \in Growth : NotifyAck(p, num, bytes, growth)
  \/ NotifyIdle(p)
  \/ \E kind \in {"repeat", "timeout"} : NotifyLoss(p, kind)
  \/ NotifyEcn(p)
  \/ \E num \in 0..MaxSeq : NotifySpurious(p, num)
  \/ \E win \in Seeds : NotifySeed(p, win) \/ NotifyBandwidth(p, win)
  \/ \E rtt \in Rtts, win \in Seeds \cup {0}, left \in BOOLEAN : NotifyRtt(p, rtt, win, left)

Next ==
  \/ \E p \in CurrentPaths : Send(p) \/ Notify(p)
  \/ \E p \in PathIds : AddPath(p)
  \/ \E p \in PathIds, junk \in [PathIds -> 0..MaxSeq] : NewConnection(p, junk)
  \/ InitPath
  \/ Tick

Spec == Init /\ [][Next]_vars

-----------------------------------------------------------------------------
(* Properties *)

(* The list of intervals is bounded as find_right_interval and set_path    *)
(* leave it, and windows, marks and times stay in their ranges.            *)
TypeOK ==
  /\ paths \in Seq(PathIds) /\ Len(paths) \in 1..2
  /\ path1 \in PathIds \cup {NULL} /\ path2 \in PathIds \cup {NULL}
  /\ dominant \in PathIds \cup {NULL}
  /\ intervals \in Seq(Interval) /\ Len(intervals) <= 4
  /\ last_change \in 0..now
  /\ nrss \in Sim
  /\ cwin \in [PathIds -> Nat]
  /\ seq \in [PathIds -> Nat] /\ acked \in [PathIds -> Nat]
  /\ srtt \in [PathIds -> Rtts]
  /\ now \in Nat
  /\ fault \in Faults
  /\ cnx \in Nat /\ ready \in BOOLEAN /\ marks \in 0..MaxMarks /\ reduced \in 0..now

(* new_tonopah_aggregate_intervals follows current_elem->next of every     *)
(* interval that is finished on both paths: whatever the order of ACKs on  *)
(* the two paths and however the list is cut, an interval marked finished  *)
(* on one path is never the last of the list, so next is not NULL.         *)
FinishedHasNext ==
  \A i \in 1..Len(intervals), s \in Side : intervals[i].finished[s] => i < Len(intervals)

(* new_tonopah_find_right_interval searches from the youngest interval and *)
(* stops at the first that had started: that finds the interval in which a *)
(* packet was sent because first_seq_num grows along the list on each path *)
(* and is never ahead of the packets sent.  So it is in the first          *)
(* connection of a process: the next one finds the list of the last.       *)
IntervalsOrdered ==
  cnx = 1 => \A i \in 1..Len(intervals), s \in Side :
    /\ intervals[i].first_seq[s] <= seq[IF s = 1 THEN path1 ELSE path2]
    /\ i < Len(intervals) => intervals[i].first_seq[s] <= intervals[i + 1].first_seq[s]

(* new_tonopah_set_path never gives a path less than                       *)
(* PICOQUIC_CWIN_MINIMUM, although the shared window, which the reduction  *)
(* by 1/8 does not keep above it, may be smaller.                          *)
CwinFloor == \A p \in PathIds : cwin[p] >= CwinMin

SharesOf(c) == cwin[paths[1]] = DominantShare(c) /\ cwin[paths[2]] = SubmissiveShare(c)

(* Once an interval has started in the first connection of a process, the  *)
(* windows of the two paths, whose sum is what limits the sender, are the  *)
(* 2/3 and the 1/3 share of the shared window.  There are two exceptions:  *)
(* after a detection of fair queuing they are the shares of the window     *)
(* before the reduction, and path[1] has the initial window when           *)
(* picoquic_new_tonopah_init ran after the split.                          *)
SharesFollowWindow ==
  cnx = 1 /\ intervals # <<>> =>
    \/ SharesOf(nrss.cwin)
    \/ /\ nrss.cwin = nrss.ssthresh /\ Len(intervals) = 1
       /\ \E c \in 0..MaxCwin : nrss.cwin = (7 * c) \div 8 /\ SharesOf(c)
    \/ ready /\ cwin[paths[2]] = CwinInitial

(* Lower bounds of the time between the starts of two intervals.           *)
Spacings == {d + 1 : d \in {e \in 0..MaxInterval : \A r \in Rtts : e <= r}}

FqCut ==
  /\ nrss'.cwin < nrss.cwin
  /\ nrss'.alg_state = "congestion_avoidance"
  /\ nrss'.recovery_start = nrss.recovery_start
  /\ nrss'.recovery_sequence = nrss.recovery_sequence

(* A reduction for fair queuing rests on an interval that began after the  *)
(* last reduction and on a later one: it never comes sooner than two       *)
(* intervals after the previous recovery or decrease, be it for a loss or  *)
(* for fair queuing, whatever ACKs are still under way at that time.    *)
FqCutsSpaced == [][FqCut => \A d \in Spacings : now - reduced >= 2 * d]_vars

(* The assertion of picoquic_new_tonopah_notify that the path is one of    *)
(* the two it knows.                                                       *)
PathsKnown == fault # "unknown_path"

(* "ce on submissive path; acting": a CE mark of a packet that was sent on *)
(* the path that is not dominant leads to a recovery.                      *)
EcnActedOn == marks = 0

=============================================================================
