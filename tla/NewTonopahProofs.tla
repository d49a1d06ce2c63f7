-------------------------- MODULE NewTonopahProofs --------------------------
(***************************************************************************)
(* Proofs about NewTonopah for every set of paths, every RTT and window:   *)
(* its types, the safety of the interval list, the floor of the windows,   *)
(* the spacing of the reductions for fair queuing, and for the first       *)
(* connection the order of the intervals and the shares of the window.     *)
(***************************************************************************)
EXTENDS NewTonopah, TLAPS

(* The windows are numbers of bytes, and no share is below the minimum.    *)
LEMMA Shares ==
  ASSUME NEW c \in Nat
  PROVE  /\ DominantShare(c) \in Nat /\ DominantShare(c) >= CwinMin
         /\ SubmissiveShare(c) \in Nat /\ SubmissiveShare(c) >= CwinMin
  BY TonopahAssumption, SMT DEF DominantShare, SubmissiveShare

(* A reduction for fair queuing keeps the type of the window state.        *)
LEMMA FqReducedType ==
  ASSUME NEW n \in Sim
  PROVE  /\ FqReduced(n) \in Sim
         /\ FqReduced(n).recovery_start = n.recovery_start
         /\ FqReduced(n).recovery_sequence = n.recovery_sequence
         /\ FqReduced(n).alg_state = n.alg_state
<1>1. (7 * n.cwin) \div 8 \in Nat
  BY SMT DEF Sim
<1> QED BY <1>1, Zenon DEF Sim, FqReduced

(* What accounting does to one interval.                                   *)
LEMMA AccountInterval ==
  ASSUME NEW iv \in Interval, NEW side \in Side, NEW rtt \in Nat
  PROVE  /\ CountAck(iv, side, rtt) \in Interval
         /\ CountAck(iv, side, rtt).finished = iv.finished
         /\ Finish(iv, side) \in Interval
<1>1. iv.rtt_sum[side] + rtt \in Nat /\ iv.num_acks[side] + 1 \in Nat
  BY SMT DEF Interval
<1> QED BY <1>1, Zenon DEF Interval, CountAck, Finish

(* Accounting an ACK keeps the length and the type of the list, and marks  *)
(* as finished only intervals that have a successor.                       *)
LEMMA AccountList ==
  ASSUME NEW list \in Seq(Interval), NEW side \in Side, NEW num \in Nat, NEW rtt \in Nat
  PROVE  /\ Account(list, side, num, rtt) \in Seq(Interval)
         /\ Len(Account(list, side, num, rtt)) = Len(list)
         /\ \A i \in 1..Len(list), s \in Side :
              Account(list, side, num, rtt)[i].finished[s]
                => list[i].finished[s] \/ i < Len(list)
<1> DEFINE A == Account(list, side, num, rtt)
           R == RightIntervals(list, side, num)
<1>1. R \subseteq 1..Len(list)
  BY DEF RightIntervals
<1>2. A = [i \in 1..Len(list) |->
             IF i \in R
             THEN CountAck(list[i], side, rtt)
             ELSE IF i + 1 \in R THEN Finish(list[i], side) ELSE list[i]]
  BY DEF Account
<1> HIDE DEF R, A
<1>3. ASSUME NEW i \in 1..Len(list) PROVE A[i] \in Interval
  <2>1. list[i] \in Interval
    OBVIOUS
  <2> QED BY <1>2, <2>1, AccountInterval
<1>4. A \in Seq(Interval) /\ Len(A) = Len(list)
  <2>1. A = [i \in 1..Len(list) |-> A[i]]
    BY <1>2
  <2>2. A \in [1..Len(list) -> Interval] /\ Len(list) \in Nat
    BY <2>1, <1>3
  <2> QED BY <2>2, SMT
<1>5. ASSUME NEW i \in 1..Len(list), NEW s \in Side, A[i].finished[s]
      PROVE  list[i].finished[s] \/ i < Len(list)
  <2>0. list[i] \in Interval /\ i \in Int /\ Len(list) \in Nat
    OBVIOUS
  <2>1. CASE i \in R
    <3>1. A[i].finished = list[i].finished
      BY <1>2, <2>0, <2>1, AccountInterval
    <3> QED BY <3>1, <1>5, Zenon
  <2>2. CASE i \notin R /\ i + 1 \in R
    BY <1>1, <2>0, <2>2, SMT
  <2>3. CASE i \notin R /\ i + 1 \notin R
    BY <1>2, <1>5, <2>3
  <2> QED BY <2>1, <2>2, <2>3
<1> QED BY <1>4, <1>5 DEF A

-----------------------------------------------------------------------------
(* The length of an interval and the list of intervals *)

(* The mean of two numbers.                                                *)
LEMMA Mean ==
  ASSUME NEW a \in Nat, NEW b \in Nat, NEW e \in Nat, e <= a, e <= b
  PROVE  (a + b) \div 2 \in Nat /\ e <= (a + b) \div 2
  BY SMT

(* The paths of the connection are path objects.                           *)
LEMMA PathsTyped ==
  ASSUME TypeOK
  PROVE  paths[1] \in PathIds /\ (Len(paths) = 2 => paths[2] \in PathIds) /\ Len(paths) \in 1..2
<1>1. paths \in Seq(PathIds) /\ Len(paths) \in 1..2
  BY Zenon DEF TypeOK
<1>2. \A i \in 1..Len(paths) : paths[i] \in PathIds
  BY <1>1
<1>3. 1 \in 1..Len(paths) /\ (Len(paths) = 2 => 2 \in 1..Len(paths))
  BY <1>1
<1> QED BY <1>1, <1>2, <1>3, Zenon

(* No interval is shorter than the spacings.                               *)
LEMMA IntervalLengthBound ==
  ASSUME TypeOK, NEW rtts \in [PathIds -> Rtts]
  PROVE  /\ SmoothedRtt(rtts) \in Nat /\ SmoothedRtt(rtts) > 0
         /\ IntervalLength(rtts) \in Nat
         /\ \A d \in Spacings : d \in Nat /\ d <= IntervalLength(rtts) + 1
<1>1. paths[1] \in PathIds /\ (Len(paths) = 2 => paths[2] \in PathIds) /\ Len(paths) \in 1..2
  BY PathsTyped
<1>2. /\ rtts[paths[1]] \in Rtts
      /\ Len(paths) = 2 => rtts[paths[2]] \in Rtts
  BY <1>1
<1>3. Rtts \subseteq Nat \ {0} /\ MaxInterval \in Nat
  BY TonopahAssumption
<1>4. ASSUME NEW e \in 0..MaxInterval, \A r \in Rtts : e <= r
      PROVE  /\ e <= SmoothedRtt(rtts) /\ SmoothedRtt(rtts) \in Nat /\ SmoothedRtt(rtts) > 0
             /\ IntervalLength(rtts) \in Nat /\ e <= IntervalLength(rtts)
  <2>1. \A r \in Rtts : r \in Nat /\ 1 <= r /\ e <= r
    BY <1>3, <1>4, SMT
  <2>2. e <= SmoothedRtt(rtts) /\ SmoothedRtt(rtts) \in Nat /\ 1 <= SmoothedRtt(rtts)
    <3>1. CASE Len(paths) = 2
      <4>1. SmoothedRtt(rtts) = (rtts[paths[1]] + rtts[paths[2]]) \div 2
        BY <3>1 DEF SmoothedRtt
      <4>2. /\ rtts[paths[1]] \in Nat /\ 1 <= rtts[paths[1]] /\ e <= rtts[paths[1]]
            /\ rtts[paths[2]] \in Nat /\ 1 <= rtts[paths[2]] /\ e <= rtts[paths[2]]
        BY <1>2, <2>1, <3>1
      <4> QED BY <4>1, <4>2, Mean
    <3>2. CASE Len(paths) # 2
      BY <1>2, <2>1, <3>2 DEF SmoothedRtt
    <3> QED BY <3>1, <3>2
  <2> QED BY <1>3, <2>2, SMT DEF IntervalLength
<1>5. 0 \in 0..MaxInterval /\ \A r \in Rtts : 0 <= r
  BY <1>3
<1>6. /\ SmoothedRtt(rtts) \in Nat /\ SmoothedRtt(rtts) > 0
      /\ IntervalLength(rtts) \in Nat
  BY <1>4, <1>5
<1>7. ASSUME NEW d \in Spacings
      PROVE  d \in Nat /\ d <= IntervalLength(rtts) + 1
  <2>1. PICK e \in 0..MaxInterval : d = e + 1 /\ \A r \in Rtts : e <= r
    BY DEF Spacings
  <2>2. e <= IntervalLength(rtts)
    BY <1>4, <2>1
  <2> QED BY <2>1, <2>2, <1>3, <1>6, SMT
<1> QED BY <1>6, <1>7

(* The list while no interval at its end is finished.                      *)
Open(list) == \A i \in 1..Len(list), s \in Side : list[i].finished[s] => i < Len(list)

(* A new interval is well formed and not finished.                         *)
LEMMA NewIntervalType ==
  ASSUME TypeOK, NEW p \in PathIds, BothKnown(p)
  PROVE  NewInterval(p) \in Interval /\ \A s \in Side : ~NewInterval(p).finished[s]
<1>1. Path1(p) \in PathIds /\ Path2(p) \in PathIds
  BY DEF BothKnown, Path1, Path2, TypeOK
<1>2. \A s \in Side : seq[IF s = 1 THEN Path1(p) ELSE Path2(p)] \in Nat
  BY <1>1 DEF TypeOK
<1>3. (IF Dominant = Path1(p) THEN 1 ELSE 2) \in Side
  BY DEF Side
<1>4. NewInterval(p) \in Interval
  BY <1>2, <1>3, SMT DEF NewInterval, Interval
<1>5. NewInterval(p).finished = [s \in Side |-> FALSE]
  BY DEF NewInterval
<1> QED BY <1>4, <1>5

(* A list of at most four intervals is extended by one and cut to four.    *)
LEMMA ExtendedList ==
  ASSUME NEW list \in Seq(Interval), Len(list) <= 4, Open(list),
         NEW iv \in Interval, \A s \in Side : ~iv.finished[s]
  PROVE  LET new == KeepYoungest(Append(list, iv))
         IN  /\ new \in Seq(Interval) /\ Len(new) <= 4 /\ Open(new)
             /\ Len(new) >= 1 /\ (Len(new) >= 2 => Len(list) >= 1)
<1> DEFINE app == Append(list, iv)
           new == KeepYoungest(app)
<1>0. Len(list) \in Nat
  OBVIOUS
<1>1. /\ app \in Seq(Interval) /\ Len(app) = Len(list) + 1
      /\ \A i \in 1..Len(list) : app[i] = list[i]
      /\ app[Len(list) + 1] = iv
  OBVIOUS
<1>2. Open(app)
  <2> SUFFICES ASSUME NEW i \in 1..Len(app), NEW s \in Side, app[i].finished[s]
               PROVE  i < Len(app)
    BY DEF Open
  <2>1. CASE i = Len(list) + 1
    BY <1>1, <2>1, Zenon
  <2>2. CASE i # Len(list) + 1
    BY <1>0, <1>1, <2>2, SMT
  <2> QED BY <2>1, <2>2
<1> HIDE DEF app
<1>3. CASE Len(app) > 4
  <2>1. new = Tail(app) /\ app # <<>>
    BY <1>3, <1>1 DEF KeepYoungest
  <2>2. /\ Tail(app) \in Seq(Interval) /\ Len(Tail(app)) = Len(app) - 1
        /\ \A i \in 1..Len(Tail(app)) : Tail(app)[i] = app[i + 1]
    BY <1>1, <1>3, SMT
  <2>3. Open(Tail(app))
    <3> SUFFICES ASSUME NEW i \in 1..Len(Tail(app)), NEW s \in Side, Tail(app)[i].finished[s]
                 PROVE  i < Len(Tail(app))
      BY DEF Open
    <3>1. app[i + 1].finished[s] /\ i + 1 \in 1..Len(app)
      <4>1. i + 1 \in 1..Len(app)
        BY <1>0, <1>1, <2>2, SMT
      <4> QED BY <2>2, <4>1, Zenon
    <3>2. i + 1 < Len(app)
      BY <3>1, <1>2 DEF Open
    <3> QED BY <3>2, <2>2, <1>0, <1>1, SMT
  <2>4. new \in Seq(Interval) /\ Open(new)
    BY <2>1, <2>2, <2>3, Zenon
  <2>5. Len(new) = Len(app) - 1
    BY <2>1, <2>2, Zenon
  <2>6. Len(new) <= 4 /\ Len(new) >= 1 /\ Len(list) >= 1
    BY <1>0, <1>1, <1>3, <2>5, SMT
  <2> QED BY <2>4, <2>6, Zenon DEF app
<1>4. CASE ~(Len(app) > 4)
  <2>1. new = app
    BY <1>4 DEF KeepYoungest
  <2>2. new \in Seq(Interval) /\ Open(new)
    BY <1>1, <1>2, <2>1, Zenon
  <2>3. Len(new) <= 4 /\ Len(new) >= 1 /\ (Len(new) >= 2 => Len(list) >= 1)
    BY <1>0, <1>1, <1>4, <2>1, SMT
  <2> QED BY <2>2, <2>3, Zenon DEF app
<1> QED BY <1>3, <1>4

-----------------------------------------------------------------------------
(* new_tonopah_set_path *)

(* A list of len intervals of which the first is not older than t and the  *)
(* last started at time last.                                              *)
SpacedFrom(len, t, last) ==
  /\ len >= 1 => t <= last
  /\ \A d \in Spacings : len >= 2 => t + d <= last

(* The type of the state set_path leaves, with the floor of the windows.   *)
LEMMA SetPathCwin ==
  ASSUME TypeOK, CwinFloor, NEW p \in PathIds, NEW n \in Sim,
         NEW list, NEW rtts, SetPath(p, n, list, rtts)
  PROVE  cwin' \in [PathIds -> Nat] /\ CwinFloor'
<1>1. n.cwin \in Nat
  BY DEF Sim
<1>2. CASE Len(paths) = 2 /\ BothKnown(p)
  <2>1. cwin' = Split(p, n.cwin)
    BY <1>2 DEF SetPath
  <2>2. paths[1] \in PathIds /\ paths[2] \in PathIds
    BY <1>2, PathsTyped
  <2>3. cwin \in [PathIds -> Nat] /\ \A q \in PathIds : cwin[q] >= CwinMin
    BY DEF TypeOK, CwinFloor
  <2>4. Split(p, n.cwin) \in [PathIds -> Nat] /\ \A q \in PathIds : Split(p, n.cwin)[q] >= CwinMin
    BY <1>1, <2>2, <2>3, Shares, SMT DEF Split
  <2> QED BY <2>1, <2>4 DEF CwinFloor
<1>3. CASE ~(Len(paths) = 2 /\ BothKnown(p))
  <2>1. cwin' = cwin
    BY <1>3 DEF SetPath
  <2> QED BY <2>1 DEF TypeOK, CwinFloor
<1> QED BY <1>2, <1>3

(* A detection needs an interval that is finished, so two intervals.       *)
LEMMA DetectionNeedsTwo ==
  ASSUME NEW list \in Seq(Interval), Open(list), NEW n, FqDetected(n, list)
  PROVE  Len(list) >= 2
<1>1. PICK i \in FinishedIntervals(list) : TRUE
  BY DEF FqDetected, AggregateIntervals
<1>2. i \in 1..Len(list) /\ list[i].finished[1]
  BY <1>1 DEF FinishedIntervals, Side
<1>3. i < Len(list)
  BY <1>2 DEF Open, Side
<1> QED BY <1>2, <1>3, SMT

(* What set_path does to the window and to the list, for a list that is    *)
(* spaced from time t on.                                                  *)
LEMMA SetPathList ==
  ASSUME TypeOK, NEW p \in PathIds, NEW n \in Sim,
         NEW list \in Seq(Interval), Len(list) <= 4, Open(list),
         NEW rtts \in [PathIds -> Rtts], SetPath(p, n, list, rtts),
         NEW t \in 0..now, SpacedFrom(Len(list), t, last_change)
  PROVE  /\ intervals' \in Seq(Interval) /\ Len(intervals') <= 4 /\ Open(intervals')
         /\ intervals' # <<>> => list # <<>> \/ BothKnown(p)
         /\ last_change' \in 0..now
         /\ SpacedFrom(Len(intervals'), t, last_change')
         /\ \/ nrss' = n
            \/ /\ nrss' = FqReduced(n)
               /\ SpacedFrom(Len(intervals'), now, last_change')
               /\ \A d \in Spacings : now - t >= 2 * d
<1>0. /\ now \in Nat /\ t \in Nat /\ t <= now /\ last_change \in Nat /\ last_change <= now
      /\ LastChange \in 0..now /\ last_change <= LastChange /\ Len(list) \in Nat
  BY TonopahAssumption, SMT DEF TypeOK, LastChange
<1>1. CASE ~(Len(paths) = 2 /\ BothKnown(p))
  <2>1. nrss' = n /\ intervals' = list /\ last_change' = LastChange
    BY <1>1 DEF SetPath
  <2>2. SpacedFrom(Len(list), t, LastChange)
    <3>1. \A d \in Spacings : d \in Nat
      BY IntervalLengthBound
    <3> QED BY <1>0, <3>1, SMT DEF SpacedFrom
  <2> QED BY <1>0, <2>1, <2>2, Zenon
<1>2. CASE (Len(paths) = 2 /\ BothKnown(p)) /\ ~IntervalDue(rtts)
  <2>1. nrss' = n /\ intervals' = list /\ last_change' = LastChange
    BY <1>2 DEF SetPath
  <2>2. SpacedFrom(Len(list), t, LastChange)
    <3>1. \A d \in Spacings : d \in Nat
      BY IntervalLengthBound
    <3> QED BY <1>0, <3>1, SMT DEF SpacedFrom
  <2> QED BY <1>0, <1>2, <2>1, <2>2, Zenon
<1>3. CASE (Len(paths) = 2 /\ BothKnown(p)) /\ IntervalDue(rtts)
  <2> DEFINE fq == IntervalDue(rtts) /\ FqDetected(n, list)
             kept == Carried(fq, n, list)
  <2>1. /\ nrss' = IF fq THEN FqReduced(n) ELSE n
        /\ intervals' = KeepYoungest(Append(kept, NewInterval(p)))
        /\ last_change' = now
    BY <1>3, Zenon DEF SetPath
  <2>2. kept \in Seq(Interval) /\ Len(kept) <= 4 /\ Open(kept) /\ Len(kept) \in {0, Len(list)}
        /\ (fq => Len(kept) = 0)
    <3>1. <<>> \in Seq(Interval) /\ Len(<<>>) = 0 /\ Open(<<>>)
      BY SMT DEF Open
    <3>2. kept = <<>> \/ (kept = list /\ ~fq)
      BY DEF Carried
    <3>3. CASE kept = <<>>
      <4>1. 0 <= 4
        OBVIOUS
      <4> QED BY <3>1, <3>3, <4>1, Zenon
    <3>4. CASE kept = list /\ ~fq
      BY <3>4, Zenon
    <3> QED BY <3>2, <3>3, <3>4, Zenon
  <2>3. /\ intervals' \in Seq(Interval) /\ Len(intervals') <= 4 /\ Open(intervals')
        /\ Len(intervals') >= 1 /\ (Len(intervals') >= 2 => Len(kept) >= 1)
    BY <1>3, <2>1, <2>2, NewIntervalType, ExtendedList, Zenon
  <2>4. \A d \in Spacings : d \in Nat /\ LastChange + d <= now
    BY <1>0, <1>3, IntervalLengthBound, SMT DEF IntervalDue
  <2>5. SpacedFrom(Len(intervals'), t, now)
    <3>1. Len(intervals') \in Nat
      BY <2>3
    <3>2. ASSUME NEW d \in Spacings, Len(intervals') >= 2 PROVE t + d <= now
      <4>1. Len(list) >= 1
        BY <1>0, <2>2, <2>3, <3>2, SMT
      <4>2. t <= last_change
        BY <4>1 DEF SpacedFrom
      <4> QED BY <1>0, <2>4, <4>2, SMT
    <3> QED BY <1>0, <3>1, <3>2 DEF SpacedFrom
  <2>6. last_change' \in 0..now
    BY <1>0, <2>1, SMT
  <2>7. CASE ~fq
    BY <1>3, <2>1, <2>3, <2>5, <2>6, <2>7, Zenon
  <2>8. CASE fq
    <3>1. Len(list) >= 2
      BY <2>8, DetectionNeedsTwo
    <3>2. ASSUME NEW d \in Spacings PROVE now - t >= 2 * d
      <4>1. t + d <= last_change
        BY <3>1 DEF SpacedFrom
      <4> QED BY <1>0, <2>4, <4>1, SMT
    <3>3. SpacedFrom(Len(intervals'), now, last_change')
      <4>1. Len(intervals') \in Nat /\ ~(Len(intervals') >= 2)
        <5>1. Len(kept) = 0
          BY <2>2, <2>8, Zenon
        <5> QED BY <2>3, <5>1, SMT
      <4> QED BY <1>0, <2>1, <4>1, SMT DEF SpacedFrom
    <3> QED BY <1>3, <2>1, <2>3, <2>5, <2>6, <2>8, <3>2, <3>3, Zenon
  <2> QED BY <2>7, <2>8
<1> QED BY <1>1, <1>2, <1>3

-----------------------------------------------------------------------------
(* The inductive invariant *)

(* path[0] has sent before there is a second path, and only packets that   *)
(* were sent are acknowledged.                                             *)
PathsOK ==
  /\ Len(paths) = 2 => paths[1] # paths[2] /\ seq[paths[1]] > 0
  /\ \A p \in CurrentPaths : acked[p] = 0 \/ acked[p] < seq[p]

(* Intervals start only when both paths are known.                         *)
ListKnown == intervals # <<>> => path1 # NULL /\ path2 # NULL

(* The intervals of the list started after the last reduction, and the     *)
(* second one a full interval after the first.                             *)
Spaced == SpacedFrom(Len(intervals), reduced, last_change)

IndInv == TypeOK /\ CwinFloor /\ FinishedHasNext /\ PathsOK /\ ListKnown /\ Spaced

(* Changes of the window state that are no decrease, or a new recovery     *)
(* after which the list is empty.                                          *)
Grown(n) ==
  /\ n.cwin >= nrss.cwin
  /\ n.recovery_start = nrss.recovery_start
  /\ n.recovery_sequence = nrss.recovery_sequence

Recovering(n) ==
  \/ n.recovery_start # nrss.recovery_start
  \/ n.recovery_sequence # nrss.recovery_sequence

(* An ACK, in slow start and in congestion avoidance, keeps the type of    *)
(* the window state.                                                       *)
LEMMA AckGrows ==
  ASSUME TypeOK, NEW bytes \in Nat, NEW growth \in Nat
  PROVE  /\ SlowStartAck(nrss, bytes) \in Sim /\ Grown(SlowStartAck(nrss, bytes))
         /\ [nrss EXCEPT !.cwin = @ + growth] \in Sim
         /\ Grown([nrss EXCEPT !.cwin = @ + growth])
<1>0. nrss \in Sim
  BY DEF TypeOK
<1>1. /\ nrss.cwin + bytes \in Nat /\ nrss.cwin + bytes >= nrss.cwin
      /\ nrss.cwin + growth \in Nat /\ nrss.cwin + growth >= nrss.cwin
  BY <1>0, SMT DEF Sim
<1>2. (IF nrss.cwin + bytes >= nrss.ssthresh THEN "congestion_avoidance" ELSE nrss.alg_state)
        \in AlgState
  BY <1>0 DEF Sim, AlgState
<1>3. SlowStartAck(nrss, bytes) \in Sim /\ Grown(SlowStartAck(nrss, bytes))
  BY <1>0, <1>1, <1>2, Zenon DEF Sim, SlowStartAck, Grown
<1>4. [nrss EXCEPT !.cwin = @ + growth] \in Sim /\ Grown([nrss EXCEPT !.cwin = @ + growth])
  BY <1>0, <1>1, Zenon DEF Sim, Grown
<1> QED BY <1>3, <1>4

(* A larger window, kept or with the end of slow start.                    *)
LEMMA RaisedGrows ==
  ASSUME TypeOK, NEW win \in Nat
  PROVE  /\ Raised(win) \in Sim /\ Grown(Raised(win))
         /\ LeaveSlowStart(Raised(win)) \in Sim /\ Grown(LeaveSlowStart(Raised(win)))
<1>0. nrss \in Sim
  BY DEF TypeOK
<1> DEFINE c == IF win > nrss.cwin THEN win ELSE nrss.cwin
<1>1. c \in Nat /\ c >= nrss.cwin
  BY <1>0, SMT DEF Sim
<1>2. Raised(win) = [nrss EXCEPT !.cwin = c]
  BY DEF Raised
<1> HIDE DEF c
<1>3. [nrss EXCEPT !.cwin = c] \in Sim /\ [nrss EXCEPT !.cwin = c].cwin = c
      /\ Grown([nrss EXCEPT !.cwin = c])
  BY <1>0, <1>1, Zenon DEF Sim, Grown
<1>4. ASSUME NEW m \in Sim, Grown(m) PROVE LeaveSlowStart(m) \in Sim /\ Grown(LeaveSlowStart(m))
  <2>1. "congestion_avoidance" \in AlgState
    BY DEF AlgState
  <2> QED BY <2>1, <1>4, Zenon DEF Sim, LeaveSlowStart, Grown
<1> QED BY <1>2, <1>3, <1>4, Zenon

(* The window after a recovery.                                            *)
LEMMA RecoveredType ==
  ASSUME TypeOK, NEW kind
  PROVE  Recovered(kind) \in Sim
<1>1. nrss \in Sim /\ now \in Nat /\ seq[paths[1]] \in Nat
  BY PathsTyped DEF TypeOK
<1>2. HalfWindow \in Nat /\ CwinMin \in Nat
  BY <1>1, TonopahAssumption, SMT DEF HalfWindow, Sim
<1>3. "slow_start" \in AlgState /\ "congestion_avoidance" \in AlgState
  BY DEF AlgState
<1> QED BY <1>1, <1>2, <1>3, Zenon DEF Recovered, Sim

-----------------------------------------------------------------------------
(* One step *)

(* What a step owes: the invariant, and the spacing of a cut.              *)
CutSpaced == FqCut => \A d \in Spacings : now - reduced >= 2 * d

(* The current paths are path objects.                                     *)
LEMMA CurrentTyped ==
  ASSUME TypeOK, NEW p \in CurrentPaths
  PROVE  p \in PathIds /\ (p # paths[1] => Len(paths) = 2 /\ p = paths[2])
<1>1. PICK i \in 1..Len(paths) : p = paths[i]
  BY DEF CurrentPaths
<1>2. i = 1 \/ (i = 2 /\ Len(paths) = 2)
  BY <1>1, PathsTyped, SMT
<1> QED BY <1>1, <1>2, PathsTyped

(* Registering a path keeps what the pointers know.                        *)
LEMMA Registering ==
  ASSUME TypeOK, NEW p \in PathIds, Register(p)
  PROVE  /\ path1' \in PathIds \cup {NULL} /\ path2' \in PathIds \cup {NULL}
         /\ dominant' \in PathIds \cup {NULL}
         /\ BothKnown(p) => path1' # NULL /\ path2' # NULL
         /\ path1 # NULL /\ path2 # NULL => BothKnown(p)
<1>1. paths[1] \in PathIds
  BY PathsTyped
<1>2. Dominant \in PathIds
  BY <1>1 DEF Dominant, TypeOK
<1>3. path1 \in PathIds \cup {NULL} /\ path2 \in PathIds \cup {NULL} /\ dominant \in PathIds \cup {NULL}
  BY DEF TypeOK
<1>4. path1' = Path1(p) /\ path2' = Path2(p) /\ dominant' \in {Dominant, dominant}
  BY DEF Register
<1>5. NULL \notin PathIds
  BY TonopahAssumption
<1> QED BY <1>2, <1>3, <1>4, <1>5 DEF Path1, Path2, BothKnown

(* The acknowledged packets after a step that acknowledges num, or none.   *)
AckedStep(p) ==
  \/ acked' = acked
  \/ \E num \in acked[p]..(seq[p] - 1) : acked' = [acked EXCEPT ![p] = num]

(* Acknowledging only what was sent keeps PathsOK.                         *)
LEMMA AckedInd ==
  ASSUME TypeOK, PathsOK, NEW p \in CurrentPaths, AckedStep(p), UNCHANGED <<paths, seq>>
  PROVE  acked' \in [PathIds -> Nat] /\ PathsOK'
<1>0. p \in PathIds /\ acked \in [PathIds -> Nat] /\ seq \in [PathIds -> Nat]
  BY CurrentTyped DEF TypeOK
<1>1. CASE acked' = acked
  BY <1>0, <1>1 DEF PathsOK, CurrentPaths
<1>2. CASE acked' # acked
  <2>1. PICK num \in acked[p]..(seq[p] - 1) : acked' = [acked EXCEPT ![p] = num]
    BY <1>2 DEF AckedStep
  <2>2. num \in Nat /\ num < seq[p]
    BY <1>0, <2>1, SMT
  <2>3. acked' \in [PathIds -> Nat]
    BY <1>0, <2>1, <2>2
  <2>4. CurrentPaths' = CurrentPaths
    BY DEF CurrentPaths
  <2>5. ASSUME NEW q \in CurrentPaths PROVE acked'[q] = 0 \/ acked'[q] < seq[q]
    <3>1. q \in PathIds
      BY CurrentTyped
    <3>2. CASE q = p
      BY <1>0, <2>1, <2>2, <3>2
    <3>3. CASE q # p
      <4>1. acked'[q] = acked[q]
        BY <1>0, <2>1, <3>1, <3>3
      <4> QED BY <4>1 DEF PathsOK
    <3> QED BY <3>2, <3>3
  <2> QED BY <2>3, <2>4, <2>5 DEF PathsOK
<1> QED BY <1>1, <1>2

(* A notification that runs set_path with the window state n and the list  *)
(* list.                                                                   *)
LEMMA SetPathInd ==
  ASSUME IndInv, NEW p \in CurrentPaths, Register(p), AckedStep(p),
         NEW n \in Sim, NEW list \in Seq(Interval), Len(list) <= 4, Open(list),
         list # <<>> => intervals # <<>>,
         SpacedFrom(Len(list), reduced, last_change),
         Grown(n) \/ (Recovering(n) /\ Len(list) = 0),
         srtt' \in [PathIds -> Rtts], SetPath(p, n, list, srtt'), NoteReduced,
         fault' \in Faults, marks' \in 0..MaxMarks
  PROVE  IndInv' /\ CutSpaced
<1>0. TypeOK /\ p \in PathIds
  BY CurrentTyped DEF IndInv
<1>1. /\ reduced \in 0..now /\ now \in Nat
  BY <1>0 DEF TypeOK
<1>2. UNCHANGED <<paths, seq, now, cnx, ready>>
  BY DEF Register
<1>3. /\ intervals' \in Seq(Interval) /\ Len(intervals') <= 4 /\ Open(intervals')
      /\ intervals' # <<>> => list # <<>> \/ BothKnown(p)
      /\ last_change' \in 0..now
      /\ SpacedFrom(Len(intervals'), reduced, last_change')
      /\ \/ nrss' = n
         \/ /\ nrss' = FqReduced(n)
            /\ SpacedFrom(Len(intervals'), now, last_change')
            /\ \A d \in Spacings : now - reduced >= 2 * d
  BY <1>0, <1>1, SetPathList
<1>4. nrss' \in Sim
  BY <1>3, FqReducedType, Zenon
<1>5. cwin' \in [PathIds -> Nat] /\ CwinFloor'
  BY <1>0, SetPathCwin DEF IndInv
<1>6. acked' \in [PathIds -> Nat] /\ PathsOK'
  BY <1>0, <1>2, AckedInd DEF IndInv
<1>7. ListKnown'
  BY <1>0, <1>3, Registering DEF IndInv, ListKnown
<1>8. reduced' \in {reduced, now} /\ reduced' \in 0..now
  BY <1>1, SMT DEF NoteReduced
<1>9. TypeOK'
  <2>1. /\ path1' \in PathIds \cup {NULL} /\ path2' \in PathIds \cup {NULL}
        /\ dominant' \in PathIds \cup {NULL}
    BY <1>0, Registering
  <2>2. /\ paths \in Seq(PathIds) /\ Len(paths) \in 1..2 /\ seq \in [PathIds -> Nat]
        /\ cnx \in Nat /\ ready \in BOOLEAN
    BY <1>0 DEF TypeOK
  <2> QED BY <1>1, <1>2, <1>3, <1>4, <1>5, <1>6, <1>8, <2>1, <2>2, Zenon DEF TypeOK
<1>10. FinishedHasNext'
  BY <1>3 DEF FinishedHasNext, Open
<1>11. nrss' # n => SpacedFrom(Len(intervals'), now, last_change')
  BY <1>3, Zenon
<1>12. Recovering(n) /\ Len(list) = 0 => SpacedFrom(Len(intervals'), now, last_change')
  <2>1. ASSUME Len(list) = 0 PROVE SpacedFrom(Len(list), now, last_change)
    BY <2>1, SMT DEF SpacedFrom
  <2>2. now \in 0..now
    BY <1>1, SMT
  <2> QED BY <1>0, <2>1, <2>2, SetPathList
<1>13. Spaced'
  <2>1. CASE reduced' = reduced
    BY <1>3, <2>1, Zenon DEF Spaced
  <2>2. CASE reduced' # reduced
    <3>1. reduced' = now
      BY <1>8, <2>2
    <3>2. \/ nrss'.cwin < nrss.cwin
          \/ nrss'.recovery_start # nrss.recovery_start
          \/ nrss'.recovery_sequence # nrss.recovery_sequence
      BY <2>2 DEF NoteReduced
    <3>3. nrss' # n \/ ~Grown(n)
      <4>0. n.cwin \in Nat /\ nrss.cwin \in Nat
        BY <1>0 DEF TypeOK, Sim
      <4> QED BY <4>0, <3>2, SMT DEF Grown
    <3> QED BY <1>11, <1>12, <3>1, <3>3, Zenon DEF Spaced
  <2> QED BY <2>1, <2>2
<1>14. CutSpaced
  <2> SUFFICES ASSUME FqCut PROVE \A d \in Spacings : now - reduced >= 2 * d
    BY DEF CutSpaced
  <2>1. nrss' # n
    <3>0. n.cwin \in Nat /\ nrss.cwin \in Nat
      BY <1>0 DEF TypeOK, Sim
    <3> QED BY <3>0, SMT DEF FqCut, Grown, Recovering
  <2> QED BY <1>3, <2>1, Zenon
<1> QED BY <1>5, <1>6, <1>7, <1>9, <1>10, <1>13, <1>14 DEF IndInv

(* A notification that leaves the window and the list alone.               *)
LEMMA QuietInd ==
  ASSUME IndInv, NEW p \in CurrentPaths, Register(p), AckedStep(p),
         last_change' \in {last_change, LastChange},
         UNCHANGED <<intervals, nrss, cwin, reduced>>,
         srtt' \in [PathIds -> Rtts], fault' \in Faults, marks' \in 0..MaxMarks
  PROVE  IndInv' /\ CutSpaced
<1>0. TypeOK /\ p \in PathIds
  BY CurrentTyped DEF IndInv
<1>1. UNCHANGED <<paths, seq, now, cnx, ready>>
  BY DEF Register
<1>2. last_change' \in 0..now /\ last_change <= last_change' /\ last_change \in Nat /\ reduced \in Nat
  BY <1>0, SMT DEF TypeOK, LastChange
<1>3. acked' \in [PathIds -> Nat] /\ PathsOK'
  BY <1>0, <1>1, AckedInd DEF IndInv
<1>4. /\ path1' \in PathIds \cup {NULL} /\ path2' \in PathIds \cup {NULL}
      /\ dominant' \in PathIds \cup {NULL}
  BY <1>0, Registering
<1>5. ListKnown'
  BY <1>0, Registering DEF IndInv, ListKnown
<1>6. TypeOK'
  BY <1>0, <1>1, <1>2, <1>3, <1>4, Zenon DEF TypeOK
<1>7. Spaced'
  <2>1. \A d \in Spacings : d \in Nat
    <3>1. srtt \in [PathIds -> Rtts]
      BY <1>0 DEF TypeOK
    <3> QED BY <1>0, <3>1, IntervalLengthBound
  <2>2. SpacedFrom(Len(intervals), reduced, last_change) /\ Len(intervals) \in Nat
    BY <1>0 DEF IndInv, Spaced, TypeOK
  <2>3. SpacedFrom(Len(intervals), reduced, last_change')
    BY <1>2, <2>1, <2>2, SMT DEF SpacedFrom
  <2> QED BY <2>3 DEF Spaced
<1>8. CwinFloor' /\ FinishedHasNext'
  BY DEF IndInv, CwinFloor, FinishedHasNext
<1>9. CutSpaced
  <2>1. ~(nrss.cwin < nrss.cwin)
    BY <1>0, SMT DEF TypeOK, Sim
  <2> QED BY <2>1 DEF CutSpaced, FqCut
<1> QED BY <1>3, <1>5, <1>6, <1>7, <1>8, <1>9 DEF IndInv

(* The list as it is.                                                      *)
LEMMA SameList ==
  ASSUME IndInv
  PROVE  /\ intervals \in Seq(Interval) /\ Len(intervals) <= 4 /\ Open(intervals)
         /\ SpacedFrom(Len(intervals), reduced, last_change)
         /\ <<>> \in Seq(Interval) /\ Len(<<>>) = 0 /\ Len(<<>>) <= 4 /\ Open(<<>>)
         /\ SpacedFrom(Len(<<>>), reduced, last_change)
         /\ srtt \in [PathIds -> Rtts] /\ fault \in Faults /\ marks \in 0..MaxMarks
         /\ nrss \in Sim /\ Grown(nrss)
<1>1. /\ intervals \in Seq(Interval) /\ Len(intervals) <= 4
      /\ srtt \in [PathIds -> Rtts] /\ fault \in Faults /\ marks \in 0..MaxMarks /\ nrss \in Sim
  BY DEF IndInv, TypeOK
<1>2. Open(intervals) /\ SpacedFrom(Len(intervals), reduced, last_change)
  BY DEF IndInv, FinishedHasNext, Open, Spaced
<1>3. <<>> \in Seq(Interval) /\ Len(<<>>) = 0 /\ Len(<<>>) <= 4
  BY SMT
<1>4. Open(<<>>)
  BY SMT DEF Open
<1>5. SpacedFrom(Len(<<>>), reduced, last_change)
  BY SMT DEF SpacedFrom
<1>6. Grown(nrss)
  BY <1>1, SMT DEF Grown, Sim
<1> QED BY <1>1, <1>2, <1>3, <1>4, <1>5, <1>6

(* picoquic_congestion_notification_acknowledgement *)
LEMMA AckInd ==
  ASSUME IndInv, NEW p \in CurrentPaths, NEW num \in Nat, NEW bytes \in AckBytes, NEW growth \in Growth,
         NotifyAck(p, num, bytes, growth)
  PROVE  IndInv' /\ CutSpaced
<1>0. TypeOK /\ p \in PathIds
  BY CurrentTyped DEF IndInv
<1>1. /\ Register(p) /\ num \in acked[p]..(seq[p] - 1) /\ acked' = [acked EXCEPT ![p] = num]
      /\ NoteReduced /\ UNCHANGED <<srtt, marks>>
  BY DEF NotifyAck
<1>2. AckedStep(p) /\ srtt' \in [PathIds -> Rtts] /\ marks' \in 0..MaxMarks /\ bytes \in Nat /\ growth \in Nat
  BY <1>1, SameList, TonopahAssumption DEF AckedStep
<1>3. CASE nrss.alg_state = "congestion_avoidance" /\ Len(paths) = 1
  <2>1. fault' = "missing_path" /\ UNCHANGED <<intervals, last_change, nrss, cwin>>
    BY <1>3 DEF NotifyAck
  <2>2. UNCHANGED reduced
    <3>1. ~(nrss.cwin < nrss.cwin)
      BY <1>0, SMT DEF TypeOK, Sim
    <3> QED BY <1>1, <2>1, <3>1 DEF NoteReduced
  <2>3. fault' \in Faults
    BY <2>1 DEF Faults
  <2> QED BY <1>1, <1>2, <2>1, <2>2, <2>3, QuietInd
<1>4. CASE ~(nrss.alg_state = "congestion_avoidance" /\ Len(paths) = 1)
  <2> DEFINE n == IF nrss.alg_state = "slow_start" THEN SlowStartAck(nrss, bytes)
                  ELSE [nrss EXCEPT !.cwin = @ + growth]
             list == Account(intervals, SideOf(p), num, srtt[p])
  <2>1. SetPath(p, n, list, srtt) /\ UNCHANGED fault
    BY <1>4 DEF NotifyAck
  <2>2. n \in Sim /\ Grown(n)
    BY <1>0, <1>2, AckGrows
  <2>3. srtt[p] \in Nat /\ SideOf(p) \in Side
    <3>1. srtt[p] \in Rtts /\ Rtts \subseteq Nat \ {0}
      BY <1>0, SameList, TonopahAssumption
    <3>2. SideOf(p) \in Side
      BY SMT DEF SideOf, Side
    <3> QED BY <3>1, <3>2
  <2>4. /\ list \in Seq(Interval) /\ Len(list) = Len(intervals)
        /\ \A i \in 1..Len(intervals), s \in Side :
             list[i].finished[s] => intervals[i].finished[s] \/ i < Len(intervals)
    BY <2>3, SameList, AccountList
  <2> HIDE DEF n, list
  <2>5. Open(list)
    <3> SUFFICES ASSUME NEW i \in 1..Len(list), NEW s \in Side, list[i].finished[s]
                 PROVE  i < Len(list)
      BY DEF Open
    <3>1. intervals[i].finished[s] \/ i < Len(intervals)
      BY <2>4
    <3>2. intervals[i].finished[s] => i < Len(intervals)
      BY <2>4, SameList DEF Open
    <3> QED BY <2>4, <3>1, <3>2
  <2>6. list # <<>> => intervals # <<>>
    BY <2>4, SameList, SMT
  <2>7. Len(list) <= 4 /\ SpacedFrom(Len(list), reduced, last_change)
    BY <2>4, SameList
  <2>8. SetPath(p, n, list, srtt') /\ fault' \in Faults
    BY <1>1, <2>1, SameList
  <2> QED BY <1>1, <1>2, <2>2, <2>4, <2>5, <2>6, <2>7, <2>8, SetPathInd
<1> QED BY <1>3, <1>4

(* Losses and CE marks: the list is empty after a recovery, and the        *)
(* recovery is a new one because path[0] has sent a packet that is not     *)
(* acknowledged.                                                           *)
LEMMA RecoveryInd ==
  ASSUME IndInv, NEW p \in CurrentPaths, NEW q \in CurrentPaths, seq[q] > 0,
         NEW kind, EnterRecovery(p, kind), marks' \in 0..MaxMarks
  PROVE  IndInv' /\ CutSpaced
<1>0. TypeOK /\ p \in PathIds
  BY CurrentTyped DEF IndInv
<1>1. /\ Register(p) /\ NoteReduced /\ UNCHANGED <<acked, srtt, fault>>
      /\ SetPath(p, IF Reacts THEN Recovered(kind) ELSE nrss, AfterRecovery(p), srtt)
  BY DEF EnterRecovery
<1>2. AckedStep(p) /\ srtt' \in [PathIds -> Rtts] /\ fault' \in Faults
  BY <1>1, SameList DEF AckedStep
<1>3. CASE ~Reacts
  <2>1. SetPath(p, nrss, intervals, srtt')
    BY <1>1, <1>3, Zenon DEF AfterRecovery
  <2> QED BY <1>1, <1>2, <2>1, SameList, SetPathInd
<1>4. CASE Reacts
  <2>1. AfterRecovery(p) = <<>>
    <3>1. ~BothKnown(p) => intervals = <<>>
      BY <1>0, <1>1, Registering DEF IndInv, ListKnown
    <3> QED BY <1>4, <3>1 DEF AfterRecovery
  <2>2. SetPath(p, Recovered(kind), <<>>, srtt')
    BY <1>1, <1>4, <2>1, Zenon
  <2>3. seq[paths[1]] > 0 /\ acked[paths[1]] < seq[paths[1]]
    <3>1. paths[1] \in CurrentPaths
      BY <1>0, PathsTyped, SMT DEF CurrentPaths
    <3>2. seq[paths[1]] > 0
      <4>1. CASE q = paths[1]
        BY <4>1
      <4>2. CASE q # paths[1]
        BY <1>0, <4>2, CurrentTyped DEF IndInv, PathsOK
      <4> QED BY <4>1, <4>2
    <3>3. seq[paths[1]] \in Nat /\ (acked[paths[1]] = 0 \/ acked[paths[1]] < seq[paths[1]])
      BY <1>0, <3>1, PathsTyped DEF IndInv, PathsOK, TypeOK
    <3> QED BY <3>2, <3>3, SMT
  <2>4. Recovering(Recovered(kind))
    <3>1. Recovered(kind).recovery_start = now /\ Recovered(kind).recovery_sequence = seq[paths[1]]
      BY DEF Recovered
    <3>2. SUFFICES ASSUME nrss.recovery_start = now, nrss.recovery_sequence = seq[paths[1]]
                   PROVE  FALSE
      BY <3>1 DEF Recovering
    <3>3. now - now > SmoothedRtt(srtt) \/ seq[paths[1]] <= acked[paths[1]]
      BY <1>4, <3>2 DEF Reacts, OutOfRecovery
    <3>4. SmoothedRtt(srtt) \in Nat /\ now \in Nat
      BY <1>0, IntervalLengthBound, SameList DEF TypeOK
    <3>5. seq[paths[1]] \in Nat /\ acked[paths[1]] \in Nat
      BY <1>0, PathsTyped DEF TypeOK
    <3> QED BY <2>3, <3>3, <3>4, <3>5, SMT
  <2>5. Recovered(kind) \in Sim
    BY <1>0, RecoveredType
  <2> QED BY <1>1, <1>2, <2>2, <2>4, <2>5, SameList, SetPathInd
<1> QED BY <1>3, <1>4

(* repeat and timeout *)
LEMMA LossInd ==
  ASSUME IndInv, NEW p \in CurrentPaths, NEW kind, NotifyLoss(p, kind)
  PROVE  IndInv' /\ CutSpaced
<1>1. seq[p] > 0 /\ EnterRecovery(p, kind) /\ marks' = marks
  BY DEF NotifyLoss
<1> QED BY <1>1, SameList, RecoveryInd

(* ecn_ec *)
LEMMA EcnInd ==
  ASSUME IndInv, NEW p \in CurrentPaths, NotifyEcn(p)
  PROVE  IndInv' /\ CutSpaced
<1>0. EcnPath(p) \in CurrentPaths
  <2>1. TypeOK
    BY DEF IndInv
  <2> QED BY <2>1, PathsTyped, SMT DEF EcnPath, CurrentPaths
<1>1. CASE Dominant = EcnPath(p)
  <2>1. /\ Register(EcnPath(p)) /\ last_change' = LastChange
        /\ marks < MaxMarks /\ (marks' = marks \/ marks' = marks + 1)
        /\ UNCHANGED <<intervals, nrss, cwin, acked, srtt, fault, reduced>>
    BY <1>1 DEF NotifyEcn
  <2>2. marks' \in 0..MaxMarks
    BY <2>1, SameList, TonopahAssumption, SMT
  <2>3. AckedStep(EcnPath(p)) /\ srtt' \in [PathIds -> Rtts] /\ fault' \in Faults
    BY <2>1, SameList DEF AckedStep
  <2> QED BY <1>0, <2>1, <2>2, <2>3, QuietInd
<1>2. CASE Dominant # EcnPath(p)
  <2>1. seq[p] > 0 /\ EnterRecovery(EcnPath(p), "ecn_ec") /\ marks' = marks
    BY <1>2 DEF NotifyEcn
  <2> QED BY <1>0, <2>1, SameList, RecoveryInd
<1> QED BY <1>1, <1>2

(* spurious_repeat *)
LEMMA SpuriousInd ==
  ASSUME IndInv, NEW p \in CurrentPaths, NEW num \in Nat, NotifySpurious(p, num)
  PROVE  IndInv' /\ CutSpaced
<1> DEFINE undo == /\ now - nrss.recovery_start < SmoothedRtt(srtt)
                   /\ nrss.recovery_sequence > acked'[paths[1]]
                   /\ nrss.ssthresh # Unlimited
                   /\ nrss.cwin < 2 * nrss.ssthresh
           n == IF undo THEN [nrss EXCEPT !.cwin = 2 * nrss.ssthresh,
                                          !.alg_state = "congestion_avoidance"] ELSE nrss
<1>1. /\ Register(p) /\ num \in acked[p]..(seq[p] - 1) /\ acked' = [acked EXCEPT ![p] = num]
      /\ SetPath(p, n, intervals, srtt) /\ NoteReduced /\ UNCHANGED <<srtt, fault, marks>>
  BY Zenon DEF NotifySpurious
<1>2. /\ AckedStep(p) /\ srtt' \in [PathIds -> Rtts] /\ fault' \in Faults /\ marks' \in 0..MaxMarks
  BY <1>1, SameList DEF AckedStep
<1>3. n \in Sim /\ Grown(n)
  <2>1. CASE ~undo
    BY <2>1, SameList
  <2>2. CASE undo
    <3>1. 2 * nrss.ssthresh \in Nat /\ 2 * nrss.ssthresh >= nrss.cwin
      BY <2>2, SameList, SMT DEF Sim
    <3>2. "congestion_avoidance" \in AlgState /\ nrss \in Sim
      BY SameList DEF AlgState
    <3> QED BY <2>2, <3>1, <3>2, Zenon DEF Sim, Grown
  <2> QED BY <2>1, <2>2
<1> HIDE DEF n
<1>4. SetPath(p, n, intervals, srtt')
  BY <1>1
<1> QED BY <1>1, <1>2, <1>3, <1>4, SameList, SetPathInd

(* seed_cwin *)
LEMMA SeedInd ==
  ASSUME IndInv, NEW p \in CurrentPaths, NEW win \in Nat, NotifySeed(p, win)
  PROVE  IndInv' /\ CutSpaced
<1> DEFINE n == IF InitialSlowStart /\ win > nrss.cwin THEN LeaveSlowStart(Raised(win)) ELSE nrss
<1>1. /\ Register(p) /\ SetPath(p, n, intervals, srtt) /\ NoteReduced
      /\ UNCHANGED <<acked, srtt, fault, marks>>
  BY Zenon DEF NotifySeed
<1>2. n \in Sim /\ Grown(n)
  <2>1. TypeOK
    BY DEF IndInv
  <2> QED BY <2>1, RaisedGrows, SameList
<1> HIDE DEF n
<1>3. SetPath(p, n, intervals, srtt')
  BY <1>1
<1>4. /\ AckedStep(p) /\ srtt' \in [PathIds -> Rtts] /\ fault' \in Faults /\ marks' \in 0..MaxMarks
  BY <1>1, SameList DEF AckedStep
<1> QED BY <1>1, <1>2, <1>3, <1>4, SameList, SetPathInd

(* rtt_measurement *)
LEMMA RttInd ==
  ASSUME IndInv, NEW p \in CurrentPaths, NEW rtt \in Rtts, NEW win \in Nat, NEW left \in BOOLEAN,
         NotifyRtt(p, rtt, win, left)
  PROVE  IndInv' /\ CutSpaced
<1> DEFINE raises == win > nrss.cwin
           n == IF left THEN LeaveSlowStart(Raised(win)) ELSE Raised(win)
           list == IF raises /\ IntervalDue(srtt') THEN <<>> ELSE intervals
<1>0. TypeOK
  BY DEF IndInv
<1>1. /\ Register(p) /\ srtt' = [srtt EXCEPT ![p] = rtt] /\ NoteReduced
      /\ UNCHANGED <<acked, fault, marks>>
  BY DEF NotifyRtt
<1>2. /\ AckedStep(p) /\ srtt' \in [PathIds -> Rtts] /\ fault' \in Faults /\ marks' \in 0..MaxMarks
  BY <1>1, SameList DEF AckedStep
<1>3. CASE InitialSlowStart /\ (raises \/ left)
  <2>1. SetPath(p, n, list, srtt')
    BY <1>3, Zenon DEF NotifyRtt
  <2>2. n \in Sim /\ Grown(n)
    BY <1>0, RaisedGrows
  <2>3. list = intervals \/ list = <<>>
    OBVIOUS
  <2> HIDE DEF n, list
  <2>4. CASE list = intervals
    BY <1>1, <1>2, <2>1, <2>2, <2>4, SameList, SetPathInd
  <2>5. CASE list = <<>>
    BY <1>1, <1>2, <2>1, <2>2, <2>5, SameList, SetPathInd
  <2> QED BY <2>3, <2>4, <2>5
<1>4. CASE ~(InitialSlowStart /\ (raises \/ left))
  <2>1. last_change' = LastChange /\ UNCHANGED <<intervals, nrss, cwin>>
    BY <1>4, Zenon DEF NotifyRtt
  <2>2. UNCHANGED reduced
    <3>1. ~(nrss.cwin < nrss.cwin)
      BY <1>0, SMT DEF TypeOK, Sim
    <3> QED BY <1>1, <2>1, <3>1 DEF NoteReduced
  <2> QED BY <1>1, <1>2, <2>1, <2>2, QuietInd
<1> QED BY <1>3, <1>4

(* bw_measurement *)
LEMMA BandwidthInd ==
  ASSUME IndInv, NEW p \in CurrentPaths, NEW win \in Nat, NotifyBandwidth(p, win)
  PROVE  IndInv' /\ CutSpaced
<1>0. TypeOK
  BY DEF IndInv
<1>1. Register(p) /\ NoteReduced /\ UNCHANGED <<acked, srtt, fault, marks>>
  BY DEF NotifyBandwidth
<1>2. /\ AckedStep(p) /\ srtt' \in [PathIds -> Rtts] /\ fault' \in Faults /\ marks' \in 0..MaxMarks
  BY <1>1, SameList DEF AckedStep
<1>3. CASE InitialSlowStart /\ win > nrss.cwin
  <2>1. SetPath(p, Raised(win), intervals, srtt')
    BY <1>1, <1>3, Zenon DEF NotifyBandwidth
  <2>2. Raised(win) \in Sim /\ Grown(Raised(win))
    BY <1>0, RaisedGrows
  <2> QED BY <1>1, <1>2, <2>1, <2>2, SameList, SetPathInd
<1>4. CASE ~(InitialSlowStart /\ win > nrss.cwin)
  <2>1. last_change' = LastChange /\ UNCHANGED <<intervals, nrss, cwin>>
    BY <1>4, Zenon DEF NotifyBandwidth
  <2>2. UNCHANGED reduced
    <3>1. ~(nrss.cwin < nrss.cwin)
      BY <1>0, SMT DEF TypeOK, Sim
    <3> QED BY <1>1, <2>1, <3>1 DEF NoteReduced
  <2> QED BY <1>1, <1>2, <2>1, <2>2, QuietInd
<1> QED BY <1>3, <1>4

(* Every notification.                                                     *)
LEMMA NotifyInd ==
  ASSUME IndInv, NEW p \in CurrentPaths, Notify(p)
  PROVE  IndInv' /\ CutSpaced
<1>0. Seeds \subseteq Nat /\ MaxSeq \in Nat
  BY TonopahAssumption, SMT
<1>1. CASE Abort(p)
  <2>1. /\ Register(p) /\ fault' = "unknown_path"
        /\ UNCHANGED <<intervals, last_change, nrss, cwin, acked, srtt, marks, reduced>>
    BY <1>1 DEF Abort
  <2>2. /\ AckedStep(p) /\ srtt' \in [PathIds -> Rtts] /\ fault' \in Faults /\ marks' \in 0..MaxMarks
    BY <2>1, SameList DEF AckedStep, Faults
  <2> QED BY <2>1, <2>2, QuietInd
<1>2. CASE NotifyIdle(p)
  <2>1. /\ Register(p) /\ last_change' = LastChange
        /\ UNCHANGED <<intervals, nrss, cwin, acked, srtt, fault, marks, reduced>>
    BY <1>2 DEF NotifyIdle
  <2>2. /\ AckedStep(p) /\ srtt' \in [PathIds -> Rtts] /\ fault' \in Faults /\ marks' \in 0..MaxMarks
    BY <2>1, SameList DEF AckedStep
  <2> QED BY <2>1, <2>2, QuietInd
<1>3. ASSUME NEW num \in 0..MaxSeq, NEW bytes \in AckBytes, NEW growth \in Growth,
             NotifyAck(p, num, bytes, growth)
      PROVE  IndInv' /\ CutSpaced
  BY <1>0, <1>3, AckInd
<1>4. ASSUME NEW kind \in {"repeat", "timeout"}, NotifyLoss(p, kind)
      PROVE  IndInv' /\ CutSpaced
  BY <1>4, LossInd
<1>5. CASE NotifyEcn(p)
  BY <1>5, EcnInd
<1>6. ASSUME NEW num \in 0..MaxSeq, NotifySpurious(p, num)
      PROVE  IndInv' /\ CutSpaced
  BY <1>0, <1>6, SpuriousInd
<1>7. ASSUME NEW win \in Seeds, NotifySeed(p, win) \/ NotifyBandwidth(p, win)
      PROVE  IndInv' /\ CutSpaced
  BY <1>0, <1>7, SeedInd, BandwidthInd
<1>8. ASSUME NEW rtt \in Rtts, NEW win \in Seeds \cup {0}, NEW left \in BOOLEAN,
             NotifyRtt(p, rtt, win, left)
      PROVE  IndInv' /\ CutSpaced
  BY <1>0, <1>8, RttInd
<1> QED BY <1>1, <1>2, <1>3, <1>4, <1>5, <1>6, <1>7, <1>8, Zenon DEF Notify

(* Steps outside the algorithm leave the window and the list alone.        *)
LEMMA SameWindow ==
  ASSUME IndInv, UNCHANGED <<path1, path2, intervals, last_change, nrss, reduced>>
  PROVE  /\ ListKnown' /\ FinishedHasNext' /\ Spaced' /\ CutSpaced
         /\ UNCHANGED cwin => CwinFloor'
<1>1. ListKnown' /\ FinishedHasNext'
  BY DEF IndInv, ListKnown, FinishedHasNext
<1>2. Spaced'
  BY DEF IndInv, Spaced, SpacedFrom
<1>3. UNCHANGED cwin => CwinFloor'
  BY DEF IndInv, CwinFloor
<1>4. CutSpaced
  <2>1. ~(nrss.cwin < nrss.cwin)
    BY SMT DEF IndInv, TypeOK, Sim
  <2> QED BY <2>1 DEF CutSpaced, FqCut
<1> QED BY <1>1, <1>2, <1>3, <1>4

(* The window state a connection starts with.                              *)
LEMMA SimResetType == SimReset \in Sim /\ SimReset.alg_state = "slow_start"
<1>1. CwinInitial \in Nat /\ Unlimited \in Nat /\ "slow_start" \in AlgState /\ 0 \in Nat
  BY TonopahAssumption DEF AlgState
<1> QED BY <1>1 DEF SimReset, Sim

(* A packet is sent.                                                       *)
LEMMA SendInd ==
  ASSUME IndInv, NEW p \in CurrentPaths, Send(p)
  PROVE  IndInv' /\ CutSpaced
<1>0. TypeOK /\ p \in PathIds /\ seq \in [PathIds -> Nat] /\ acked \in [PathIds -> Nat]
  BY CurrentTyped DEF IndInv, TypeOK
<1>1. /\ seq' = [seq EXCEPT ![p] = @ + 1]
      /\ UNCHANGED <<path1, path2, dominant, intervals, last_change, nrss, cwin, paths, acked,
                     srtt, now, fault, cnx, ready, marks, reduced>>
  BY DEF Send, globals
<1>2. seq' \in [PathIds -> Nat] /\ \A q \in PathIds : seq'[q] >= seq[q]
  BY <1>0, <1>1, SMT
<1>3. PathsOK'
  <2>1. paths' = paths /\ acked' = acked /\ CurrentPaths' = CurrentPaths
    BY <1>1 DEF CurrentPaths
  <2>2. Len(paths) = 2 => paths[1] # paths[2] /\ seq'[paths[1]] > 0
    <3>1. Len(paths) = 2 => paths[1] # paths[2] /\ seq[paths[1]] > 0
      BY DEF IndInv, PathsOK
    <3>2. paths[1] \in PathIds
      BY <1>0, PathsTyped
    <3>3. seq'[paths[1]] >= seq[paths[1]] /\ seq[paths[1]] \in Nat /\ seq'[paths[1]] \in Nat
      BY <1>0, <1>2, <3>2
    <3> QED BY <3>1, <3>3, SMT
  <2>3. ASSUME NEW q \in CurrentPaths PROVE acked[q] = 0 \/ acked[q] < seq'[q]
    <3>1. q \in PathIds
      BY <1>0, CurrentTyped
    <3>2. acked[q] = 0 \/ acked[q] < seq[q]
      BY DEF IndInv, PathsOK
    <3>3. seq'[q] >= seq[q] /\ seq[q] \in Nat /\ seq'[q] \in Nat /\ acked[q] \in Nat
      BY <1>0, <1>2, <3>1
    <3> QED BY <3>2, <3>3, SMT
  <2> QED BY <2>1, <2>2, <2>3 DEF PathsOK
<1>4. TypeOK'
  BY <1>0, <1>1, <1>2, Zenon DEF TypeOK
<1> QED BY <1>1, <1>3, <1>4, SameWindow DEF IndInv

(* The clock moves on.                                                     *)
LEMMA TickInd ==
  ASSUME IndInv, Tick
  PROVE  IndInv' /\ CutSpaced
<1>1. /\ now' = now + 1
      /\ UNCHANGED <<path1, path2, dominant, intervals, last_change, nrss, cwin, paths, seq, acked,
                     srtt, fault, cnx, ready, marks, reduced>>
  BY DEF Tick, globals
<1>2. now' \in Nat /\ last_change \in 0..now' /\ reduced \in 0..now'
  BY <1>1, SMT DEF IndInv, TypeOK
<1>3. TypeOK'
  <2>1. TypeOK
    BY DEF IndInv
  <2> QED BY <1>1, <1>2, <2>1, Zenon DEF TypeOK
<1>4. PathsOK'
  BY <1>1 DEF IndInv, PathsOK, CurrentPaths
<1> QED BY <1>1, <1>3, <1>4, SameWindow DEF IndInv

(* The second path is set up.                                              *)
LEMMA InitPathInd ==
  ASSUME IndInv, InitPath
  PROVE  IndInv' /\ CutSpaced
<1>0. TypeOK /\ paths[2] \in PathIds
  BY PathsTyped DEF IndInv, InitPath
<1>1. /\ ready' = TRUE /\ cwin' = [cwin EXCEPT ![paths[2]] = CwinInitial]
      /\ UNCHANGED <<path1, path2, dominant, intervals, last_change, nrss, paths, seq, acked,
                     srtt, now, fault, cnx, marks, reduced>>
  BY DEF InitPath, globals
<1>2. CwinInitial \in Nat /\ CwinInitial >= CwinMin
  BY TonopahAssumption, SMT
<1>3. cwin' \in [PathIds -> Nat] /\ CwinFloor'
  <2>1. cwin \in [PathIds -> Nat] /\ \A q \in PathIds : cwin[q] >= CwinMin
    BY <1>0 DEF TypeOK, IndInv, CwinFloor
  <2> QED BY <1>0, <1>1, <1>2, <2>1 DEF CwinFloor
<1>4. TypeOK'
  BY <1>0, <1>1, <1>3, Zenon DEF TypeOK
<1>5. PathsOK'
  BY <1>1 DEF IndInv, PathsOK, CurrentPaths
<1> QED BY <1>1, <1>3, <1>4, <1>5, SameWindow DEF IndInv

(* The second path appears.                                                *)
LEMMA AddPathInd ==
  ASSUME IndInv, NEW p \in PathIds, AddPath(p)
  PROVE  IndInv' /\ CutSpaced
<1>0. TypeOK /\ paths[1] \in PathIds /\ Len(paths) = 1 /\ p # paths[1] /\ seq[paths[1]] > 0
  BY PathsTyped DEF IndInv, AddPath
<1>1. /\ paths' = Append(paths, p) /\ ready' = FALSE
      /\ cwin' = [cwin EXCEPT ![p] = CwinInitial]
      /\ seq' = [seq EXCEPT ![p] = 0] /\ acked' = [acked EXCEPT ![p] = 0]
      /\ srtt' = [srtt EXCEPT ![p] = InitialRtt]
      /\ UNCHANGED <<path1, path2, dominant, intervals, last_change, nrss, now, fault, cnx, marks,
                     reduced>>
  BY DEF AddPath, globals
<1>2. CwinInitial \in Nat /\ CwinInitial >= CwinMin /\ InitialRtt \in Rtts
  BY TonopahAssumption, SMT
<1>3. cwin' \in [PathIds -> Nat] /\ CwinFloor'
  <2>1. cwin \in [PathIds -> Nat] /\ \A q \in PathIds : cwin[q] >= CwinMin
    BY <1>0 DEF TypeOK, IndInv, CwinFloor
  <2> QED BY <1>0, <1>1, <1>2, <2>1 DEF CwinFloor
<1>4. paths' \in Seq(PathIds) /\ Len(paths') = 2 /\ paths'[1] = paths[1] /\ paths'[2] = p
  <2>1. paths \in Seq(PathIds) /\ Len(paths) = 1 /\ paths' = Append(paths, p)
    BY <1>0, <1>1 DEF TypeOK
  <2>2. paths' \in Seq(PathIds) /\ Len(paths') = Len(paths) + 1
    <3>1. \A s \in Seq(PathIds) : /\ Append(s, p) \in Seq(PathIds)
                                  /\ Len(Append(s, p)) = Len(s) + 1
      OBVIOUS
    <3> QED BY <2>1, <3>1, Zenon
  <2>3. paths'[1] = paths[1] /\ paths'[2] = p
    BY <2>1
  <2> QED BY <2>1, <2>2, <2>3, SMT
<1>5. /\ seq' \in [PathIds -> Nat] /\ acked' \in [PathIds -> Nat] /\ srtt' \in [PathIds -> Rtts]
      /\ seq'[p] = 0 /\ acked'[p] = 0
      /\ seq'[paths[1]] = seq[paths[1]] /\ acked'[paths[1]] = acked[paths[1]]
  BY <1>0, <1>1, <1>2 DEF TypeOK
<1>6. TypeOK'
  <2>1. Len(paths') \in 1..2
    BY <1>4, SMT
  <2> QED BY <1>0, <1>1, <1>3, <1>4, <1>5, <2>1, Zenon DEF TypeOK
<1>7. PathsOK'
  <2>1. CurrentPaths' = {paths[1], p}
    BY <1>4, SMT DEF CurrentPaths
  <2>2. acked[paths[1]] = 0 \/ acked[paths[1]] < seq[paths[1]]
    <3>1. paths[1] \in CurrentPaths
      BY <1>0, SMT DEF CurrentPaths
    <3> QED BY <3>1 DEF IndInv, PathsOK
  <2> QED BY <1>0, <1>4, <1>5, <2>1, <2>2 DEF PathsOK
<1> QED BY <1>1, <1>3, <1>6, <1>7, SameWindow DEF IndInv

(* The next connection starts.                                             *)
LEMMA NewConnectionInd ==
  ASSUME IndInv, NEW p \in PathIds, NEW junk \in [PathIds -> 0..MaxSeq], NewConnection(p, junk)
  PROVE  IndInv' /\ CutSpaced
<1>0. TypeOK /\ MaxSeq \in Nat
  BY TonopahAssumption DEF IndInv
<1>1. /\ paths' = <<p>> /\ ready' = FALSE /\ cnx' = cnx + 1 /\ nrss' = SimReset
      /\ cwin' = [cwin EXCEPT ![p] = CwinInitial]
      /\ seq' = [junk EXCEPT ![p] = 0] /\ acked' = [acked EXCEPT ![p] = 0]
      /\ srtt' = [srtt EXCEPT ![p] = InitialRtt]
      /\ UNCHANGED <<path1, path2, dominant, intervals, last_change, now, fault, marks, reduced>>
  BY DEF NewConnection, globals
<1>2. /\ CwinInitial \in Nat /\ CwinInitial >= CwinMin /\ InitialRtt \in Rtts
  BY TonopahAssumption, SMT
<1>3. cwin' \in [PathIds -> Nat] /\ CwinFloor'
  <2>1. cwin \in [PathIds -> Nat] /\ \A q \in PathIds : cwin[q] >= CwinMin
    BY <1>0 DEF TypeOK, IndInv, CwinFloor
  <2> QED BY <1>0, <1>1, <1>2, <2>1 DEF CwinFloor
<1>4. paths' \in Seq(PathIds) /\ Len(paths') = 1 /\ paths'[1] = p
  BY <1>1, SMT
<1>5. seq' \in [PathIds -> Nat] /\ acked' \in [PathIds -> Nat] /\ srtt' \in [PathIds -> Rtts]
      /\ acked'[p] = 0
  <2>1. junk \in [PathIds -> Nat]
    <3>1. \A q \in PathIds : junk[q] \in Nat
      BY <1>0, SMT
    <3> QED BY <3>1, Zenon
  <2>2. seq' \in [PathIds -> Nat]
    BY <1>1, <2>1
  <2> QED BY <1>0, <1>1, <1>2, <2>2 DEF TypeOK
<1>6. SimReset \in Sim /\ SimReset.alg_state = "slow_start"
  BY SimResetType
<1>7. TypeOK'
  <2>1. Len(paths') \in 1..2
    BY <1>4, SMT
  <2>2. cnx' \in Nat
    <3>1. cnx \in Nat
      BY <1>0 DEF TypeOK
    <3> QED BY <1>1, <3>1
  <2> QED BY <1>0, <1>1, <1>3, <1>4, <1>5, <1>6, <2>1, <2>2, Zenon DEF TypeOK
<1>8. PathsOK'
  <2>1. CurrentPaths' = {p}
    BY <1>4, SMT DEF CurrentPaths
  <2>2. Len(paths') # 2
    BY <1>4
  <2> QED BY <1>5, <2>1, <2>2 DEF PathsOK
<1>9. ListKnown' /\ FinishedHasNext' /\ Spaced'
  BY <1>1 DEF IndInv, ListKnown, FinishedHasNext, Spaced, SpacedFrom
<1>10. CutSpaced
  BY <1>1, <1>6 DEF CutSpaced, FqCut
<1> QED BY <1>3, <1>7, <1>8, <1>9, <1>10 DEF IndInv

-----------------------------------------------------------------------------
(* The theorems *)

(* The invariant holds at first.                                           *)
LEMMA InitInd == Init => IndInv
<1> SUFFICES ASSUME Init PROVE IndInv
  OBVIOUS
<1>0. PICK p \in PathIds : paths = <<p>>
  BY DEF Init
<1>1. /\ path1 = NULL /\ path2 = NULL /\ dominant = NULL /\ intervals = <<>> /\ last_change = 0
      /\ nrss = SimReset /\ cwin = [q \in PathIds |-> CwinInitial] /\ seq = [q \in PathIds |-> 0]
      /\ acked = [q \in PathIds |-> 0] /\ srtt = [q \in PathIds |-> InitialRtt]
      /\ now = 1 /\ fault = "none" /\ cnx = 1 /\ ready = FALSE /\ marks = 0 /\ reduced = 0
  BY DEF Init
<1>2. /\ CwinInitial \in Nat /\ CwinInitial >= CwinMin /\ InitialRtt \in Rtts /\ MaxMarks \in Nat
  BY TonopahAssumption, SMT
<1>3. paths \in Seq(PathIds) /\ Len(paths) = 1 /\ paths[1] = p
  BY <1>0, SMT
<1>4. intervals \in Seq(Interval) /\ Len(intervals) = 0
  BY <1>1, SMT
<1>5. TypeOK
  <2>1. Len(paths) \in 1..2 /\ Len(intervals) <= 4 /\ last_change \in 0..now /\ reduced \in 0..now
        /\ marks \in 0..MaxMarks /\ now \in Nat /\ cnx \in Nat
    BY <1>1, <1>2, <1>3, <1>4, SMT
  <2>2. fault \in Faults /\ ready \in BOOLEAN
    BY <1>1 DEF Faults
  <2>3. /\ cwin \in [PathIds -> Nat] /\ seq \in [PathIds -> Nat] /\ acked \in [PathIds -> Nat]
        /\ srtt \in [PathIds -> Rtts]
    BY <1>1, <1>2
  <2>4. nrss \in Sim
    BY <1>1, SimResetType
  <2>5. path1 \in PathIds \cup {NULL} /\ path2 \in PathIds \cup {NULL} /\ dominant \in PathIds \cup {NULL}
    BY <1>1
  <2> QED BY <1>3, <1>4, <2>1, <2>2, <2>3, <2>4, <2>5, Zenon DEF TypeOK
<1>6. CwinFloor
  BY <1>1, <1>2 DEF CwinFloor
<1>7. FinishedHasNext /\ Spaced
  BY <1>4, SMT DEF FinishedHasNext, Spaced, SpacedFrom
<1>8. PathsOK
  <2>1. CurrentPaths = {p} /\ Len(paths) # 2
    BY <1>3, SMT DEF CurrentPaths
  <2> QED BY <1>1, <2>1 DEF PathsOK
<1>9. ListKnown
  BY <1>1 DEF ListKnown
<1> QED BY <1>5, <1>6, <1>7, <1>8, <1>9 DEF IndInv

(* Every step keeps the invariant, and its cuts are spaced.                *)
LEMMA NextInd == IndInv /\ [Next]_vars => IndInv' /\ (CutSpaced \/ UNCHANGED vars)
<1> SUFFICES ASSUME IndInv, [Next]_vars PROVE IndInv' /\ (CutSpaced \/ UNCHANGED vars)
  OBVIOUS
<1>1. CASE UNCHANGED vars
  BY <1>1 DEF vars, IndInv, TypeOK, CwinFloor, FinishedHasNext, PathsOK, CurrentPaths, ListKnown,
              Spaced, SpacedFrom
<1>2. CASE \E p \in CurrentPaths : Send(p) \/ Notify(p)
  BY <1>2, SendInd, NotifyInd
<1>3. CASE \E p \in PathIds : AddPath(p)
  BY <1>3, AddPathInd
<1>4. CASE \E p \in PathIds, junk \in [PathIds -> 0..MaxSeq] : NewConnection(p, junk)
  BY <1>4, NewConnectionInd
<1>5. CASE InitPath
  BY <1>5, InitPathInd
<1>6. CASE Tick
  BY <1>6, TickInd
<1> QED BY <1>1, <1>2, <1>3, <1>4, <1>5, <1>6 DEF Next

(* The invariant of NewTonopah.                                            *)
THEOREM Invariance == Spec => []IndInv
<1>1. IndInv /\ [Next]_vars => IndInv'
  BY NextInd
<1> QED BY InitInd, <1>1, PTL DEF Spec

(* The state of the algorithm keeps its types; the interval list never     *)
(* holds more than 4 * INTERVALS_REQUIRED intervals.                       *)
THEOREM TypeCorrect == Spec => []TypeOK
<1>1. IndInv => TypeOK
  BY DEF IndInv
<1> QED BY Invariance, <1>1, PTL

(* new_tonopah_aggregate_intervals never follows a NULL next pointer.      *)
THEOREM FinishedAlwaysHasNext == Spec => []FinishedHasNext
<1>1. IndInv => FinishedHasNext
  BY DEF IndInv
<1> QED BY Invariance, <1>1, PTL

(* No path ever has less than PICOQUIC_CWIN_MINIMUM.                       *)
THEOREM CwinAboveFloor == Spec => []CwinFloor
<1>1. IndInv => CwinFloor
  BY DEF IndInv
<1> QED BY Invariance, <1>1, PTL

(* Reductions for fair queuing are at least two intervals apart.           *)
THEOREM FqCutsAlwaysSpaced == Spec => FqCutsSpaced
<1>1. IndInv /\ [Next]_vars
        => [FqCut => \A d \in Spacings : now - reduced >= 2 * d]_vars
  BY NextInd DEF CutSpaced
<1> QED BY Invariance, <1>1, PTL DEF Spec, FqCutsSpaced

-----------------------------------------------------------------------------
(***************************************************************************)
(* In the first connection of a process: the order of the intervals and    *)
(* the shares of the window, for every RTT, window and schedule.  Both     *)
(* rest on what the globals are then: path1 and path2 are the paths of the *)
(* connection in their order, and the first is the dominant one.           *)
(***************************************************************************)

(* The globals of the first connection.                                    *)
GlobalsFirst ==
  /\ cnx >= 1
  /\ cnx = 1 =>
       /\ path1 \in {NULL, paths[1]}
       /\ path2 # NULL => Len(paths) = 2 /\ path2 = paths[2]
       /\ Len(paths) = 2 => path1 # NULL
       /\ dominant \in {NULL, paths[1]}

WindowBounded == cnx = 1 => nrss.cwin <= MaxCwin

ShareInv == GlobalsFirst /\ WindowBounded /\ IntervalsOrdered /\ SharesFollowWindow

-----------------------------------------------------------------------------
(* Lists of intervals *)

(* The list begins its intervals in order, none after top.                 *)
InOrder(list, top) ==
  \A i \in 1..Len(list), s \in Side :
    /\ list[i].first_seq[s] <= top[s]
    /\ i < Len(list) => list[i].first_seq[s] <= list[i + 1].first_seq[s]

(* What has been sent on the two sides.                                    *)
Sent == [s \in Side |-> seq[paths[s]]]

(* Accounting an ACK moves no interval.                                    *)
LEMMA AccountOrdered ==
  ASSUME NEW list \in Seq(Interval), NEW side \in Side, NEW num \in Nat, NEW rtt \in Nat,
         NEW top, InOrder(list, top)
  PROVE  InOrder(Account(list, side, num, rtt), top)
<1> DEFINE A == Account(list, side, num, rtt)
           R == RightIntervals(list, side, num)
<1>1. Len(A) = Len(list)
  BY AccountList
<1>2. ASSUME NEW i \in 1..Len(list)
      PROVE  A[i].first_seq = list[i].first_seq
  <2>1. list[i] \in Interval
    OBVIOUS
  <2>2. /\ CountAck(list[i], side, rtt).first_seq = list[i].first_seq
        /\ Finish(list[i], side).first_seq = list[i].first_seq
    BY <2>1 DEF Interval, CountAck, Finish
  <2>3. A[i] = IF i \in R THEN CountAck(list[i], side, rtt)
               ELSE IF i + 1 \in R THEN Finish(list[i], side) ELSE list[i]
    BY DEF Account
  <2> QED BY <2>2, <2>3
<1> HIDE DEF A
<1>3. ASSUME NEW i \in 1..Len(list), NEW s \in Side
      PROVE  /\ A[i].first_seq[s] <= top[s]
             /\ i < Len(list) => A[i].first_seq[s] <= A[i + 1].first_seq[s]
  <2>1. A[i].first_seq = list[i].first_seq
    BY <1>2
  <2>2. i < Len(list) => i + 1 \in 1..Len(list)
    BY SMT
  <2>3. i < Len(list) => A[i + 1].first_seq = list[i + 1].first_seq
    BY <1>2, <2>2
  <2> QED BY <2>1, <2>3, Zenon DEF InOrder
<1> QED BY <1>1, <1>3 DEF InOrder, A

(* An interval that begins with what has been sent comes last.             *)
LEMMA ExtendedOrdered ==
  ASSUME NEW list \in Seq(Interval), NEW top \in [Side -> Nat], InOrder(list, top),
         NEW iv \in Interval, iv.first_seq = top
  PROVE  InOrder(KeepYoungest(Append(list, iv)), top)
<1> DEFINE app == Append(list, iv)
<1>0. Len(list) \in Nat
  OBVIOUS
<1>1. /\ app \in Seq(Interval) /\ Len(app) = Len(list) + 1
      /\ \A i \in 1..Len(list) : app[i] = list[i]
      /\ app[Len(list) + 1] = iv
  OBVIOUS
<1>2. InOrder(app, top)
  <2> SUFFICES ASSUME NEW i \in 1..Len(app), NEW s \in Side
               PROVE  /\ app[i].first_seq[s] <= top[s]
                      /\ i < Len(app) => app[i].first_seq[s] <= app[i + 1].first_seq[s]
    BY DEF InOrder
  <2>1. CASE i = Len(list) + 1
    <3>1. app[i].first_seq[s] = top[s] /\ top[s] \in Nat
      BY <1>1, <2>1
    <3> QED BY <1>0, <1>1, <2>1, <3>1, SMT
  <2>2. CASE i # Len(list) + 1
    <3>1. i \in 1..Len(list)
      BY <1>0, <1>1, <2>2, SMT
    <3>2. app[i] = list[i] /\ list[i].first_seq[s] <= top[s]
      BY <1>1, <3>1 DEF InOrder
    <3>3. CASE i = Len(list)
      BY <1>1, <3>2, <3>3
    <3>4. CASE i # Len(list)
      <4>1. i < Len(list) /\ i + 1 \in 1..Len(list)
        BY <1>0, <3>1, <3>4, SMT
      <4>2. app[i + 1] = list[i + 1]
        BY <1>1, <4>1
      <4> QED BY <3>1, <3>2, <4>1, <4>2 DEF InOrder
    <3> QED BY <3>3, <3>4
  <2> QED BY <2>1, <2>2
<1> HIDE DEF app
<1>3. CASE Len(app) > 4
  <2>1. /\ Tail(app) \in Seq(Interval) /\ Len(Tail(app)) = Len(app) - 1
        /\ \A i \in 1..Len(Tail(app)) : Tail(app)[i] = app[i + 1]
    BY <1>1, <1>3, SMT
  <2>2. ASSUME NEW i \in 1..Len(Tail(app)), NEW s \in Side
        PROVE  /\ Tail(app)[i].first_seq[s] <= top[s]
               /\ i < Len(Tail(app)) => Tail(app)[i].first_seq[s] <= Tail(app)[i + 1].first_seq[s]
    <3>1. i + 1 \in 1..Len(app) /\ (i < Len(Tail(app)) => i + 1 < Len(app) /\ i + 1 \in 1..Len(Tail(app)))
      BY <1>0, <1>1, <2>1, SMT
    <3>2. /\ Tail(app)[i] = app[i + 1]
          /\ i < Len(Tail(app)) => Tail(app)[i + 1] = app[(i + 1) + 1]
      BY <2>1, <3>1
    <3> QED BY <1>2, <3>1, <3>2 DEF InOrder
  <2> QED BY <1>3, <2>2 DEF InOrder, KeepYoungest, app
<1>4. CASE ~(Len(app) > 4)
  BY <1>2, <1>4 DEF KeepYoungest, app
<1> QED BY <1>3, <1>4

(* An order holds for every later count of what was sent.                  *)
LEMMA OrderedLater ==
  ASSUME NEW list \in Seq(Interval), NEW a \in [Side -> Nat], NEW b \in [Side -> Nat],
         InOrder(list, a), \A s \in Side : a[s] <= b[s]
  PROVE  InOrder(list, b)
<1>1. ASSUME NEW i \in 1..Len(list), NEW s \in Side PROVE list[i].first_seq[s] <= b[s]
  <2>1. list[i] \in Interval
    OBVIOUS
  <2>2. list[i].first_seq[s] \in Nat /\ a[s] \in Nat /\ b[s] \in Nat
    BY <2>1 DEF Interval
  <2>3. list[i].first_seq[s] <= a[s] /\ a[s] <= b[s]
    BY DEF InOrder
  <2> QED BY <2>2, <2>3, SMT
<1> QED BY <1>1 DEF InOrder

-----------------------------------------------------------------------------
(* The globals *)

(* In the first connection a notification for path p leaves the pointers   *)
(* to the paths in order and the first path dominant.                      *)
LEMMA FirstRegistered ==
  ASSUME IndInv, GlobalsFirst, cnx = 1, NEW p \in CurrentPaths, Register(p)
  PROVE  /\ GlobalsFirst' /\ Path1(p) = paths[1] /\ Dominant = paths[1]
         /\ Path2(p) # NULL => Len(paths) = 2 /\ Path2(p) = paths[2]
         /\ UNCHANGED <<paths, seq, now, cnx, ready>>
         /\ path1' = Path1(p) /\ path2' = Path2(p)
<1>1. TypeOK /\ p \in PathIds /\ (p # paths[1] => Len(paths) = 2 /\ p = paths[2])
      /\ paths[1] \in PathIds /\ NULL \notin PathIds /\ Len(paths) \in 1..2
  BY CurrentTyped, PathsTyped, TonopahAssumption DEF IndInv
<1>2. Path1(p) = paths[1]
  <2>1. CASE path1 = NULL
    BY <1>1, <2>1 DEF GlobalsFirst, Path1
  <2>2. CASE path1 # NULL
    BY <2>2 DEF GlobalsFirst, Path1
  <2> QED BY <2>1, <2>2
<1>3. Dominant = paths[1]
  BY DEF GlobalsFirst, Dominant
<1>4. Path2(p) # NULL => Len(paths) = 2 /\ Path2(p) = paths[2]
  BY <1>1 DEF GlobalsFirst, Path2
<1>5. /\ path1' = Path1(p) /\ path2' = Path2(p) /\ dominant' \in {Dominant, dominant}
      /\ UNCHANGED <<paths, seq, now, cnx, ready>>
  BY DEF Register
<1>6. Path1(p) # NULL
  BY <1>1, <1>2
<1>7. GlobalsFirst'
  BY <1>2, <1>3, <1>4, <1>5, <1>6 DEF GlobalsFirst
<1> QED BY <1>2, <1>3, <1>4, <1>5, <1>7

(* In a later connection nothing is said but that there was a first.       *)
LEMMA LaterConnection ==
  ASSUME ShareInv, cnx # 1, cnx' >= cnx, cnx \in Nat, cnx' \in Nat
  PROVE  ShareInv'
<1>1. cnx' # 1 /\ cnx' >= 1
  BY SMT DEF ShareInv, GlobalsFirst
<1> QED BY <1>1 DEF ShareInv, GlobalsFirst, WindowBounded, IntervalsOrdered, SharesFollowWindow

(* With intervals, both paths are there.                                   *)
LEMMA ListTyped ==
  ASSUME IndInv, GlobalsFirst, cnx = 1, intervals # <<>>
  PROVE  /\ Len(paths) = 2 /\ path1 = paths[1] /\ path2 = paths[2]
         /\ paths[1] \in PathIds /\ paths[2] \in PathIds /\ paths[1] # paths[2]
  BY PathsTyped DEF IndInv, ListKnown, GlobalsFirst, PathsOK

(* The order of the intervals, by the paths of the connection.             *)
LEMMA OrderBySides ==
  ASSUME IndInv, GlobalsFirst, cnx = 1, intervals # <<>>
  PROVE  /\ IntervalsOrdered <=> InOrder(intervals, Sent)
         /\ Sent \in [Side -> Nat]
<1>1. /\ path1 = paths[1] /\ path2 = paths[2] /\ paths[1] \in PathIds /\ paths[2] \in PathIds
  BY ListTyped
<1>2. \A s \in Side : s = 1 \/ s = 2
  BY SMT DEF Side
<1>3. \A s \in Side : seq[IF s = 1 THEN path1 ELSE path2] = Sent[s]
  BY <1>1, <1>2 DEF Sent
<1>4. seq \in [PathIds -> Nat]
  BY DEF IndInv, TypeOK
<1>5. Sent \in [Side -> Nat]
  BY <1>1, <1>2, <1>4 DEF Sent
<1> QED BY <1>3, <1>5 DEF IntervalsOrdered, InOrder

-----------------------------------------------------------------------------
(* new_tonopah_set_path in the first connection *)

(* A new interval begins with what has been sent.                          *)
LEMMA NewIntervalSent ==
  ASSUME IndInv, GlobalsFirst, cnx = 1, NEW p \in CurrentPaths, Register(p), BothKnown(p)
  PROVE  NewInterval(p).first_seq = Sent
<1>1. Path1(p) = paths[1] /\ Path2(p) = paths[2]
  BY FirstRegistered DEF BothKnown
<1>2. \A s \in Side : seq[IF s = 1 THEN Path1(p) ELSE Path2(p)] = seq[paths[s]]
  BY <1>1, SMT DEF Side
<1> QED BY <1>2 DEF NewInterval, Sent

(* The split gives the first path the larger share.                        *)
LEMMA SplitFirst ==
  ASSUME IndInv, GlobalsFirst, cnx = 1, NEW p \in CurrentPaths, Register(p), BothKnown(p),
         Len(paths) = 2, NEW c \in Nat
  PROVE  /\ Split(p, c)[paths[1]] = DominantShare(c)
         /\ Split(p, c)[paths[2]] = SubmissiveShare(c)
<1>1. Dominant = Path1(p)
  BY FirstRegistered
<1>2. paths[1] \in PathIds /\ paths[2] \in PathIds /\ paths[1] # paths[2]
      /\ cwin \in [PathIds -> Nat]
  BY PathsTyped DEF IndInv, PathsOK, TypeOK
<1> QED BY <1>1, <1>2 DEF Split

(* What set_path leaves when it splits the window.                         *)
LEMMA SplitShares ==
  ASSUME IndInv, ShareInv, cnx = 1, NEW p \in CurrentPaths, Register(p),
         NEW n \in Sim, n.cwin <= MaxCwin,
         NEW list \in Seq(Interval), Len(list) <= 4, list # <<>> => InOrder(list, Sent),
         NEW rtts, SetPath(p, n, list, rtts), Len(paths) = 2, BothKnown(p)
  PROVE  /\ WindowBounded' /\ SharesFollowWindow'
         /\ InOrder(intervals', Sent)
<1> DEFINE due == IntervalDue(rtts)
           fq == due /\ FqDetected(n, list)
           kept == Carried(fq, n, list)
<1>0. TypeOK /\ GlobalsFirst /\ p \in PathIds /\ n.cwin \in 0..MaxCwin /\ n.cwin \in Nat
  <2>1. TypeOK /\ GlobalsFirst
    BY DEF IndInv, ShareInv
  <2>2. p \in PathIds
    BY <2>1, CurrentTyped
  <2>3. n.cwin \in Nat /\ MaxCwin \in Nat
    BY TonopahAssumption DEF Sim
  <2> QED BY <2>1, <2>2, <2>3, SMT
<1>1. /\ nrss' = IF fq THEN FqReduced(n) ELSE n
      /\ intervals' = IF ~due THEN list ELSE KeepYoungest(Append(kept, NewInterval(p)))
      /\ cwin' = Split(p, n.cwin)
  BY Zenon DEF SetPath
<1>2. paths' = paths /\ SharesOf(n.cwin)'
  <2>1. paths' = paths
    BY DEF Register
  <2>2. cwin'[paths[1]] = DominantShare(n.cwin) /\ cwin'[paths[2]] = SubmissiveShare(n.cwin)
    BY <1>0, <1>1, SplitFirst
  <2> QED BY <2>1, <2>2 DEF SharesOf
<1>3. <<>> \in Seq(Interval) /\ Len(<<>>) = 0 /\ Open(<<>>) /\ InOrder(<<>>, Sent)
  BY SMT DEF Open, InOrder
<1>4. kept \in Seq(Interval) /\ InOrder(kept, Sent) /\ (fq => kept = <<>>)
  <2>1. kept = <<>> \/ (kept = list /\ ~fq)
    BY DEF Carried
  <2>2. InOrder(list, Sent)
    BY <1>3
  <2> QED BY <1>3, <2>1, <2>2, Zenon
<1>5. NewInterval(p) \in Interval /\ NewInterval(p).first_seq = Sent
  BY <1>0, NewIntervalType, NewIntervalSent
<1>6. Sent \in [Side -> Nat]
  <2>1. paths[1] \in PathIds /\ paths[2] \in PathIds /\ seq \in [PathIds -> Nat]
    BY <1>0, PathsTyped DEF TypeOK
  <2>2. \A s \in Side : s = 1 \/ s = 2
    BY SMT DEF Side
  <2> QED BY <2>1, <2>2 DEF Sent
<1>7. InOrder(intervals', Sent)
  <2>1. CASE ~due
    BY <1>1, <1>3, <2>1, Zenon
  <2>2. CASE due
    <3>1. intervals' = KeepYoungest(Append(kept, NewInterval(p)))
      BY <1>1, <2>2
    <3> QED BY <1>4, <1>5, <1>6, <3>1, ExtendedOrdered, Zenon
  <2> QED BY <2>1, <2>2
<1>8. CASE ~fq
  <2>1. nrss' = n
    BY <1>1, <1>8
  <2> QED BY <1>2, <1>7, <2>1 DEF WindowBounded, SharesFollowWindow
<1>9. CASE fq
  <2>1. nrss' = FqReduced(n)
    BY <1>1, <1>9
  <2>2. nrss'.cwin = (7 * n.cwin) \div 8 /\ nrss'.ssthresh = (7 * n.cwin) \div 8
    <3>1. \A c : [n EXCEPT !.ssthresh = c, !.cwin = c].cwin = c /\ [n EXCEPT !.ssthresh = c, !.cwin = c].ssthresh = c
      BY DEF Sim
    <3> QED BY <2>1, <3>1, Zenon DEF FqReduced
  <2>3. (7 * n.cwin) \div 8 <= MaxCwin
    BY <1>0, TonopahAssumption, SMT
  <2>4. Len(intervals') = 1
    <3>1. kept = <<>> /\ intervals' = KeepYoungest(Append(kept, NewInterval(p)))
      BY <1>1, <1>4, <1>9
    <3>2. \A e : Append(<<>>, e) = <<e>> /\ Len(<<e>>) = 1
      OBVIOUS
    <3>3. ~(1 > 4)
      BY SMT
    <3>4. intervals' = <<NewInterval(p)>>
      BY <3>1, <3>2, <3>3, Zenon DEF KeepYoungest
    <3> QED BY <3>2, <3>4, Zenon
  <2>5. \E c \in 0..MaxCwin : nrss'.cwin = (7 * c) \div 8 /\ SharesOf(c)'
    BY <1>0, <1>2, <2>2
  <2>6. SharesFollowWindow'
    BY <2>2, <2>4, <2>5, Zenon DEF SharesFollowWindow
  <2> QED BY <1>7, <2>2, <2>3, <2>6 DEF WindowBounded
<1> QED BY <1>8, <1>9

(* The order of the intervals after a notification.                        *)
LEMMA OrderedNotified ==
  ASSUME IndInv, ShareInv, cnx = 1, NEW p \in CurrentPaths, Register(p),
         InOrder(intervals', Sent), intervals' # <<>> => BothKnown(p)
  PROVE  IntervalsOrdered'
<1>1. GlobalsFirst /\ paths' = paths /\ seq' = seq /\ path1' = Path1(p) /\ path2' = Path2(p)
  BY DEF ShareInv, Register
<1>2. CASE intervals' = <<>>
  BY <1>2, SMT DEF IntervalsOrdered
<1>3. CASE intervals' # <<>>
  <2>1. path1' = paths[1] /\ path2' = paths[2]
    BY <1>1, <1>3, FirstRegistered DEF BothKnown
  <2>2. \A s \in Side : seq'[IF s = 1 THEN path1' ELSE path2'] = Sent[s]
    BY <1>1, <2>1, SMT DEF Sent, Side
  <2> QED BY <2>2 DEF IntervalsOrdered, InOrder
<1> QED BY <1>2, <1>3

(* With intervals, both paths are known before the notification.           *)
LEMMA KnownBefore ==
  ASSUME IndInv, ShareInv, cnx = 1, NEW p \in CurrentPaths, Register(p), intervals # <<>>
  PROVE  BothKnown(p) /\ Len(paths) = 2 /\ InOrder(intervals, Sent)
<1>1. TypeOK /\ GlobalsFirst /\ p \in PathIds /\ path1 # NULL /\ path2 # NULL
  BY CurrentTyped DEF IndInv, ShareInv, ListKnown
<1> QED BY <1>1, Registering, OrderBySides, ListTyped DEF ShareInv

(* A notification that runs set_path with the window n and the list list.  *)
LEMMA SetPathShares ==
  ASSUME IndInv, ShareInv, cnx = 1, NEW p \in CurrentPaths, Register(p),
         NEW n \in Sim, n.cwin <= MaxCwin,
         NEW list \in Seq(Interval), Len(list) <= 4,
         list # <<>> => intervals # <<>> /\ InOrder(list, Sent),
         NEW rtts, SetPath(p, n, list, rtts)
  PROVE  ShareInv'
<1>1. GlobalsFirst'
  BY FirstRegistered DEF ShareInv
<1>2. CASE Len(paths) = 2 /\ BothKnown(p)
  <2>1. /\ WindowBounded' /\ SharesFollowWindow' /\ InOrder(intervals', Sent)
    BY <1>2, SplitShares
  <2> QED BY <1>1, <1>2, <2>1, OrderedNotified DEF ShareInv
<1>3. CASE ~(Len(paths) = 2 /\ BothKnown(p))
  <2>1. nrss' = n /\ intervals' = list
    BY <1>3 DEF SetPath
  <2>2. list = <<>>
    BY <1>3, KnownBefore
  <2>3. InOrder(<<>>, Sent)
    BY SMT DEF InOrder
  <2>4. IntervalsOrdered'
    BY <2>1, <2>2, <2>3, OrderedNotified
  <2> QED BY <1>1, <2>1, <2>2, <2>4 DEF ShareInv, WindowBounded, SharesFollowWindow
<1> QED BY <1>2, <1>3

(* A notification that leaves the window and the list alone.               *)
LEMMA QuietShares ==
  ASSUME IndInv, ShareInv, cnx = 1, NEW p \in CurrentPaths, Register(p),
         UNCHANGED <<intervals, nrss, cwin>>
  PROVE  ShareInv'
<1>1. GlobalsFirst' /\ UNCHANGED <<paths, ready, cnx>>
  BY FirstRegistered DEF ShareInv
<1>2. SharesFollowWindow'
  BY <1>1 DEF ShareInv, SharesFollowWindow, SharesOf
<1>3. InOrder(intervals', Sent)
  <2>1. CASE intervals = <<>>
    BY <2>1, SMT DEF InOrder
  <2>2. CASE intervals # <<>>
    BY <2>2, KnownBefore
  <2> QED BY <2>1, <2>2
<1>4. IntervalsOrdered'
  BY <1>3, KnownBefore, OrderedNotified
<1> QED BY <1>1, <1>2, <1>4 DEF ShareInv, WindowBounded

-----------------------------------------------------------------------------
(* Each notification in the first connection *)

(* The list as it is, and the empty list, serve for SetPathShares.         *)
LEMMA SameShares ==
  ASSUME IndInv, ShareInv, cnx = 1, NEW p \in CurrentPaths, Register(p)
  PROVE  /\ intervals \in Seq(Interval) /\ Len(intervals) <= 4
         /\ intervals # <<>> => InOrder(intervals, Sent)
         /\ <<>> \in Seq(Interval) /\ Len(<<>>) <= 4
         /\ nrss \in Sim /\ nrss.cwin <= MaxCwin
<1>1. /\ intervals \in Seq(Interval) /\ Len(intervals) <= 4 /\ nrss \in Sim
      /\ nrss.cwin <= MaxCwin
  BY DEF IndInv, TypeOK, ShareInv, WindowBounded
<1>2. <<>> \in Seq(Interval) /\ Len(<<>>) <= 4
  BY SMT
<1> QED BY <1>1, <1>2, KnownBefore

(* An acknowledged packet splits the shared window again, or leaves the    *)
(* windows in their shares.                                                *)
LEMMA AckShares ==
  ASSUME IndInv, ShareInv, cnx = 1, NEW p \in CurrentPaths, NEW num \in Nat,
         NEW bytes \in AckBytes, NEW growth \in Growth, NotifyAck(p, num, bytes, growth)
  PROVE  ShareInv'
<1>0. TypeOK /\ p \in PathIds /\ Register(p)
  BY CurrentTyped DEF IndInv, NotifyAck
<1>1. CASE nrss.alg_state = "congestion_avoidance" /\ Len(paths) = 1
  <2>1. UNCHANGED <<intervals, nrss, cwin>>
    BY <1>1 DEF NotifyAck
  <2> QED BY <1>0, <2>1, QuietShares
<1>2. CASE ~(nrss.alg_state = "congestion_avoidance" /\ Len(paths) = 1)
  <2> DEFINE n == IF nrss.alg_state = "slow_start" THEN SlowStartAck(nrss, bytes)
                  ELSE [nrss EXCEPT !.cwin = @ + growth]
             list == Account(intervals, SideOf(p), num, srtt[p])
  <2>1. SetPath(p, n, list, srtt) /\ n.cwin <= MaxCwin
    BY <1>2 DEF NotifyAck
  <2>2. n \in Sim
    <3>1. bytes \in Nat /\ growth \in Nat
      BY TonopahAssumption
    <3> QED BY <1>0, <3>1, AckGrows
  <2>3. srtt[p] \in Nat /\ SideOf(p) \in Side
    <3>1. srtt[p] \in Rtts /\ Rtts \subseteq Nat \ {0}
      BY <1>0, SameList, TonopahAssumption
    <3>2. SideOf(p) \in Side
      BY SMT DEF SideOf, Side
    <3> QED BY <3>1, <3>2
  <2>4. list \in Seq(Interval) /\ Len(list) = Len(intervals)
    BY <1>0, <2>3, SameShares, AccountList
  <2>5. InOrder(intervals, Sent) => InOrder(list, Sent)
    BY <1>0, <2>3, SameShares, AccountOrdered
  <2> HIDE DEF n, list
  <2>6. list # <<>> => intervals # <<>>
    BY <2>4, SameShares, SMT
  <2>7. Len(list) <= 4
    BY <1>0, <2>4, SameShares
  <2> QED BY <1>0, <2>1, <2>2, <2>4, <2>5, <2>6, <2>7, SameShares, SetPathShares
<1> QED BY <1>1, <1>2

(* A recovery reduces a window and notes that it did.                      *)
LEMMA RecoveryShares ==
  ASSUME IndInv, ShareInv, cnx = 1, NEW p \in CurrentPaths, NEW kind, EnterRecovery(p, kind)
  PROVE  ShareInv'
<1>0. TypeOK /\ Register(p) /\ nrss \in Sim
  BY DEF IndInv, EnterRecovery, TypeOK
<1> DEFINE n == IF Reacts THEN Recovered(kind) ELSE nrss
<1>1. SetPath(p, n, AfterRecovery(p), srtt)
  BY DEF EnterRecovery
<1>2. n \in Sim
  BY <1>0, RecoveredType
<1>3. n.cwin <= MaxCwin
  <2>1. nrss.cwin <= MaxCwin
    BY DEF ShareInv, WindowBounded
  <2>2. Recovered(kind).cwin \in {CwinMin, HalfWindow}
    BY DEF Recovered
  <2>3. HalfWindow <= MaxCwin /\ CwinMin <= MaxCwin
    BY <1>0, <2>1, TonopahAssumption, SMT DEF HalfWindow, Sim
  <2> QED BY <2>1, <2>2, <2>3
<1>4. AfterRecovery(p) = <<>> \/ AfterRecovery(p) = intervals
  BY DEF AfterRecovery
<1> HIDE DEF n
<1>5. CASE AfterRecovery(p) = <<>>
  BY <1>0, <1>1, <1>2, <1>3, <1>5, SameShares, SetPathShares
<1>6. CASE AfterRecovery(p) = intervals
  BY <1>0, <1>1, <1>2, <1>3, <1>6, SameShares, SetPathShares
<1> QED BY <1>4, <1>5, <1>6

(* So does an ECN mark.                                                    *)
LEMMA EcnShares ==
  ASSUME IndInv, ShareInv, cnx = 1, NEW p \in CurrentPaths, NotifyEcn(p)
  PROVE  ShareInv'
<1>0. EcnPath(p) \in CurrentPaths
  <2>1. TypeOK
    BY DEF IndInv
  <2> QED BY <2>1, PathsTyped, SMT DEF EcnPath, CurrentPaths
<1>1. CASE Dominant = EcnPath(p)
  <2>1. Register(EcnPath(p)) /\ UNCHANGED <<intervals, nrss, cwin>>
    BY <1>1 DEF NotifyEcn
  <2> QED BY <1>0, <2>1, QuietShares
<1>2. CASE Dominant # EcnPath(p)
  BY <1>0, <1>2, RecoveryShares DEF NotifyEcn
<1> QED BY <1>1, <1>2

(* A spurious repeat restores the shares.                                  *)
LEMMA SpuriousShares ==
  ASSUME IndInv, ShareInv, cnx = 1, NEW p \in CurrentPaths, NEW num \in Nat, NotifySpurious(p, num)
  PROVE  ShareInv'
<1> DEFINE undo == /\ now - nrss.recovery_start < SmoothedRtt(srtt)
                   /\ nrss.recovery_sequence > acked'[paths[1]]
                   /\ nrss.ssthresh # Unlimited
                   /\ nrss.cwin < 2 * nrss.ssthresh
           n == IF undo THEN [nrss EXCEPT !.cwin = 2 * nrss.ssthresh,
                                          !.alg_state = "congestion_avoidance"] ELSE nrss
<1>1. Register(p) /\ SetPath(p, n, intervals, srtt) /\ n.cwin <= MaxCwin
  BY Zenon DEF NotifySpurious
<1>2. n \in Sim
  <2>1. nrss \in Sim
    BY SameList
  <2>2. 2 * nrss.ssthresh \in Nat /\ "congestion_avoidance" \in AlgState
    BY <2>1, SMT DEF Sim, AlgState
  <2> QED BY <2>1, <2>2, Zenon DEF Sim
<1> HIDE DEF n
<1> QED BY <1>1, <1>2, SameShares, SetPathShares

(* The windows that are tried are within the bound.                        *)
LEMMA RaisedBounded ==
  ASSUME IndInv, ShareInv, cnx = 1, NEW win \in Nat, win <= MaxCwin
  PROVE  /\ Raised(win) \in Sim /\ Raised(win).cwin <= MaxCwin
         /\ LeaveSlowStart(Raised(win)) \in Sim /\ LeaveSlowStart(Raised(win)).cwin <= MaxCwin
<1>1. TypeOK /\ nrss \in Sim /\ nrss.cwin <= MaxCwin
  BY DEF IndInv, TypeOK, ShareInv, WindowBounded
<1>2. Raised(win) \in Sim /\ LeaveSlowStart(Raised(win)) \in Sim
  BY <1>1, RaisedGrows
<1>3. Raised(win).cwin <= MaxCwin
  BY <1>1 DEF Raised, Sim
<1>4. LeaveSlowStart(Raised(win)).cwin = Raised(win).cwin
  BY <1>2 DEF LeaveSlowStart, Sim
<1> QED BY <1>2, <1>3, <1>4

(* A seed sets the window before there are intervals.                      *)
LEMMA SeedShares ==
  ASSUME IndInv, ShareInv, cnx = 1, NEW p \in CurrentPaths, NEW win \in Nat, win <= MaxCwin,
         NotifySeed(p, win) \/ NotifyBandwidth(p, win)
  PROVE  ShareInv'
<1> DEFINE n == IF InitialSlowStart /\ win > nrss.cwin THEN LeaveSlowStart(Raised(win)) ELSE nrss
<1>0. Register(p)
  BY DEF NotifySeed, NotifyBandwidth
<1>1. CASE NotifySeed(p, win)
  <2>1. SetPath(p, n, intervals, srtt)
    BY <1>1, Zenon DEF NotifySeed
  <2>2. n \in Sim /\ n.cwin <= MaxCwin
    BY <1>0, RaisedBounded, SameShares
  <2> HIDE DEF n
  <2> QED BY <1>0, <2>1, <2>2, SameShares, SetPathShares
<1>2. CASE NotifyBandwidth(p, win) /\ InitialSlowStart /\ win > nrss.cwin
  <2>1. SetPath(p, Raised(win), intervals, srtt)
    BY <1>2, Zenon DEF NotifyBandwidth
  <2> QED BY <1>0, <2>1, RaisedBounded, SameShares, SetPathShares
<1>3. CASE NotifyBandwidth(p, win) /\ ~(InitialSlowStart /\ win > nrss.cwin)
  <2>1. UNCHANGED <<intervals, nrss, cwin>>
    BY <1>3, Zenon DEF NotifyBandwidth
  <2> QED BY <1>0, <2>1, QuietShares
<1> QED BY <1>1, <1>2, <1>3

(* An RTT sample leaves the windows alone, or ends slow start with shares. *)
LEMMA RttShares ==
  ASSUME IndInv, ShareInv, cnx = 1, NEW p \in CurrentPaths, NEW rtt \in Rtts,
         NEW win \in Nat, win <= MaxCwin, NEW left \in BOOLEAN, NotifyRtt(p, rtt, win, left)
  PROVE  ShareInv'
<1> DEFINE raises == win > nrss.cwin
           n == IF left THEN LeaveSlowStart(Raised(win)) ELSE Raised(win)
           list == IF raises /\ IntervalDue(srtt') THEN <<>> ELSE intervals
<1>0. Register(p)
  BY DEF NotifyRtt
<1>1. CASE InitialSlowStart /\ (raises \/ left)
  <2>1. SetPath(p, n, list, srtt')
    BY <1>1, Zenon DEF NotifyRtt
  <2>2. n \in Sim /\ n.cwin <= MaxCwin
    BY RaisedBounded
  <2>3. list = intervals \/ list = <<>>
    OBVIOUS
  <2> HIDE DEF n, list
  <2>4. CASE list = intervals
    BY <1>0, <2>1, <2>2, <2>4, SameShares, SetPathShares
  <2>5. CASE list = <<>>
    BY <1>0, <2>1, <2>2, <2>5, SameShares, SetPathShares
  <2> QED BY <2>3, <2>4, <2>5
<1>2. CASE ~(InitialSlowStart /\ (raises \/ left))
  <2>1. UNCHANGED <<intervals, nrss, cwin>>
    BY <1>2, Zenon DEF NotifyRtt
  <2> QED BY <1>0, <2>1, QuietShares
<1> QED BY <1>1, <1>2

(* Every notification in the first connection.                             *)
LEMMA NotifyFirst ==
  ASSUME IndInv, ShareInv, cnx = 1, NEW p \in CurrentPaths, Notify(p)
  PROVE  ShareInv'
<1>0. /\ MaxSeq \in Nat /\ MaxCwin \in Nat
      /\ \A win \in Seeds \cup {0} : win \in Nat /\ win <= MaxCwin
  BY TonopahAssumption, SMT
<1>1. CASE Abort(p) \/ NotifyIdle(p)
  <2>1. Register(p) /\ UNCHANGED <<intervals, nrss, cwin>>
    BY <1>1 DEF Abort, NotifyIdle
  <2> QED BY <2>1, QuietShares
<1>2. ASSUME NEW num \in 0..MaxSeq, NEW bytes \in AckBytes, NEW growth \in Growth,
             NotifyAck(p, num, bytes, growth)
      PROVE  ShareInv'
  BY <1>0, <1>2, AckShares
<1>3. ASSUME NEW kind \in {"repeat", "timeout"}, NotifyLoss(p, kind)
      PROVE  ShareInv'
  BY <1>3, RecoveryShares DEF NotifyLoss
<1>4. CASE NotifyEcn(p)
  BY <1>4, EcnShares
<1>5. ASSUME NEW num \in 0..MaxSeq, NotifySpurious(p, num)
      PROVE  ShareInv'
  BY <1>0, <1>5, SpuriousShares
<1>6. ASSUME NEW win \in Seeds, NotifySeed(p, win) \/ NotifyBandwidth(p, win)
      PROVE  ShareInv'
  BY <1>0, <1>6, SeedShares
<1>7. ASSUME NEW rtt \in Rtts, NEW win \in Seeds \cup {0}, NEW left \in BOOLEAN,
             NotifyRtt(p, rtt, win, left)
      PROVE  ShareInv'
  BY <1>0, <1>7, RttShares
<1> QED BY <1>1, <1>2, <1>3, <1>4, <1>5, <1>6, <1>7, Zenon DEF Notify

-----------------------------------------------------------------------------
(* Every step *)

(* A packet is sent: the intervals began before it.                        *)
LEMMA SendShares ==
  ASSUME IndInv, ShareInv, cnx = 1, NEW p \in CurrentPaths, Send(p)
  PROVE  ShareInv'
<1>0. TypeOK /\ p \in PathIds /\ GlobalsFirst
  BY CurrentTyped DEF IndInv, ShareInv
<1>1. /\ seq' = [seq EXCEPT ![p] = @ + 1]
      /\ UNCHANGED <<path1, path2, dominant, intervals, nrss, cwin, paths, cnx, ready>>
  BY DEF Send, globals
<1>2. GlobalsFirst' /\ WindowBounded' /\ SharesFollowWindow'
  BY <1>1 DEF ShareInv, GlobalsFirst, WindowBounded, SharesFollowWindow, SharesOf
<1>3. IntervalsOrdered'
  <2>1. CASE intervals = <<>>
    BY <1>1, <2>1, SMT DEF IntervalsOrdered
  <2>2. CASE intervals # <<>>
    <3>1. /\ InOrder(intervals, Sent) /\ Sent \in [Side -> Nat]
          /\ path1 = paths[1] /\ path2 = paths[2] /\ paths[1] \in PathIds /\ paths[2] \in PathIds
      BY <1>0, <2>2, OrderBySides, ListTyped DEF ShareInv
    <3>2. \A q \in PathIds : seq[q] \in Nat /\ seq'[q] \in Nat /\ seq[q] <= seq'[q]
      BY <1>0, <1>1, SMT DEF TypeOK
    <3>3. \A s \in Side : s = 1 \/ s = 2
      BY SMT DEF Side
    <3> DEFINE later == [s \in Side |-> seq'[paths[s]]]
    <3>4. later \in [Side -> Nat] /\ \A s \in Side : Sent[s] <= later[s]
      BY <3>1, <3>2, <3>3 DEF Sent
    <3>5. \A s \in Side : seq'[IF s = 1 THEN path1' ELSE path2'] = later[s]
      BY <1>1, <3>1, <3>3
    <3>6. intervals \in Seq(Interval)
      BY <1>0 DEF TypeOK
    <3> HIDE DEF later
    <3>7. InOrder(intervals, later)
      BY <3>1, <3>4, <3>6, OrderedLater
    <3> QED BY <1>1, <3>5, <3>7 DEF IntervalsOrdered, InOrder
  <2> QED BY <2>1, <2>2
<1> QED BY <1>2, <1>3 DEF ShareInv

(* There is no list before the second path appears.                        *)
LEMMA AddPathShares ==
  ASSUME IndInv, ShareInv, cnx = 1, NEW p \in PathIds, AddPath(p)
  PROVE  ShareInv'
<1>0. TypeOK /\ GlobalsFirst /\ Len(paths) = 1 /\ path1 # NULL /\ path2 = NULL
  BY DEF IndInv, ShareInv, AddPath, GlobalsFirst
<1>1. paths' = Append(paths, p) /\ UNCHANGED <<path1, path2, dominant, intervals, nrss, cnx>>
  BY DEF AddPath, globals
<1>2. paths'[1] = paths[1]
  BY <1>0, <1>1 DEF TypeOK
<1>3. intervals = <<>>
  BY <1>0 DEF IndInv, ListKnown
<1>4. IntervalsOrdered'
  BY <1>1, <1>3, SMT DEF IntervalsOrdered
<1> QED BY <1>0, <1>1, <1>2, <1>3, <1>4
      DEF ShareInv, GlobalsFirst, WindowBounded, SharesFollowWindow

(* The second path gets the initial window.                                *)
LEMMA InitPathShares ==
  ASSUME IndInv, ShareInv, InitPath
  PROVE  ShareInv'
<1>1. /\ ready' = TRUE /\ cwin' = [cwin EXCEPT ![paths[2]] = CwinInitial]
      /\ UNCHANGED <<path1, path2, dominant, intervals, nrss, paths, seq, cnx>>
  BY DEF InitPath, globals
<1>2. cwin'[paths'[2]] = CwinInitial
  <2>1. paths[2] \in PathIds /\ cwin \in [PathIds -> Nat]
    BY PathsTyped DEF IndInv, InitPath, TypeOK
  <2> QED BY <1>1, <2>1
<1> QED BY <1>1, <1>2 DEF ShareInv, GlobalsFirst, WindowBounded, IntervalsOrdered, SharesFollowWindow

(* Every step keeps the invariant.                                         *)
LEMMA ShareNext == IndInv /\ ShareInv /\ [Next]_vars => ShareInv'
<1> SUFFICES ASSUME IndInv, ShareInv, [Next]_vars PROVE ShareInv'
  OBVIOUS
<1>0. TypeOK /\ cnx \in Nat
  BY DEF IndInv, TypeOK
<1>1. CASE UNCHANGED vars
  BY <1>1 DEF vars, ShareInv, GlobalsFirst, WindowBounded, IntervalsOrdered, SharesFollowWindow, SharesOf
<1>2. ASSUME NEW p \in CurrentPaths, Send(p) \/ Notify(p) PROVE ShareInv'
  <2>1. CASE cnx = 1
    BY <1>2, <2>1, SendShares, NotifyFirst
  <2>2. CASE cnx # 1
    <3>1. UNCHANGED cnx
      BY <1>2 DEF Send, Notify, Abort, NotifyAck, NotifyIdle, NotifyLoss, NotifyEcn, NotifySpurious,
                  NotifySeed, NotifyBandwidth, NotifyRtt, EnterRecovery, Register
    <3> QED BY <1>0, <2>2, <3>1, LaterConnection
  <2> QED BY <2>1, <2>2
<1>3. ASSUME NEW p \in PathIds, AddPath(p) PROVE ShareInv'
  <2>1. CASE cnx = 1
    BY <1>3, <2>1, AddPathShares
  <2>2. CASE cnx # 1
    BY <1>0, <1>3, <2>2, LaterConnection DEF AddPath
  <2> QED BY <2>1, <2>2
<1>4. ASSUME NEW p \in PathIds, NEW junk \in [PathIds -> 0..MaxSeq], NewConnection(p, junk)
      PROVE  ShareInv'
  <2>1. cnx' = cnx + 1
    BY <1>4 DEF NewConnection
  <2>2. cnx >= 1
    BY DEF ShareInv, GlobalsFirst
  <2>3. cnx' >= 1 /\ cnx' # 1
    BY <1>0, <2>1, <2>2, SMT
  <2> QED BY <2>3 DEF ShareInv, GlobalsFirst, WindowBounded, IntervalsOrdered, SharesFollowWindow
<1>5. CASE InitPath
  BY <1>5, InitPathShares
<1>6. CASE Tick
  BY <1>6 DEF Tick, globals, ShareInv, GlobalsFirst, WindowBounded, IntervalsOrdered,
              SharesFollowWindow, SharesOf
<1> QED BY <1>1, <1>2, <1>3, <1>4, <1>5, <1>6 DEF Next

(* The invariant holds at first.                                           *)
LEMMA ShareInit == Init => ShareInv
<1> SUFFICES ASSUME Init PROVE ShareInv
  OBVIOUS
<1>1. /\ path1 = NULL /\ path2 = NULL /\ dominant = NULL /\ intervals = <<>>
      /\ nrss = SimReset /\ cnx = 1 /\ \E p \in PathIds : paths = <<p>>
  BY DEF Init
<1>2. Len(paths) # 2
  BY <1>1
<1>3. nrss.cwin = CwinInitial /\ CwinInitial <= MaxCwin
  BY <1>1, TonopahAssumption DEF SimReset
<1>4. IntervalsOrdered
  BY <1>1, SMT DEF IntervalsOrdered
<1>5. cnx >= 1
  BY <1>1
<1> QED BY <1>1, <1>2, <1>3, <1>4, <1>5 DEF ShareInv, GlobalsFirst, WindowBounded, SharesFollowWindow

(* The invariant of the first connection.                                  *)
THEOREM ShareInvariance == Spec => []ShareInv
<1>1. IndInv /\ ShareInv /\ [Next]_vars => ShareInv'
  BY ShareNext
<1> QED BY ShareInit, <1>1, Invariance, PTL DEF Spec

(* The intervals of the list began in its order on both paths, none after  *)
(* the last packet sent: new_tonopah_find_right_interval may stop at the   *)
(* first interval that had started.                                        *)
THEOREM IntervalsAlwaysOrdered == Spec => []IntervalsOrdered
<1>1. ShareInv => IntervalsOrdered
  BY DEF ShareInv
<1> QED BY ShareInvariance, <1>1, PTL

(* The windows of the two paths are the two shares of the shared window,   *)
(* but for the two exceptions.                                             *)
THEOREM SharesAlwaysFollow == Spec => []SharesFollowWindow
<1>1. ShareInv => SharesFollowWindow
  BY DEF ShareInv
<1> QED BY ShareInvariance, <1>1, PTL
=============================================================================
