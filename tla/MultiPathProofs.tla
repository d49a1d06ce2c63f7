-------------------------- MODULE MultiPathProofs --------------------------
(***************************************************************************)
(* Proofs about MultiPath: what has failed or is demoted is never          *)
(* forgotten, and a connection is given up only when no path is usable.    *)
(*                                                                         *)
(* A call of picoquic_prepare_packet_ex hands a view from step to step, so *)
(* the invariant is one of views: every path of the table that failed or   *)
(* is demoted has path_demotion_needed set (Tracked), and a path with too  *)
(* many timeouts has failed (Worn).  The second is what makes it sound to  *)
(* disconnect when all paths exceed the limit.                             *)
(***************************************************************************)
EXTENDS MultiPath, FiniteSetTheorems, SequenceTheorems, WellFoundedInduction, TLAPS

View == [order : Seq(PathIds), st : [PathIds -> PathState], needed : BOOLEAN]

Tracked(s, needed) == (s.challenge_failed \/ s.path_is_demoted) => needed
Worn(s) == s.nb_retransmit > MaxRetransmit => s.challenge_failed

PathOK(s, needed) == Tracked(s, needed) /\ Worn(s)

ViewOK(v) == \A p \in Members(v.order) : PathOK(v.st[p], v.needed)

PathsTyped ==
  /\ paths \in Seq(PathIds)
  /\ path \in [PathIds -> PathState]
  /\ path_demotion_needed \in BOOLEAN
  /\ cnx_state \in {"ready", "disconnected"}
  /\ orphaned \in BOOLEAN /\ fault \in BOOLEAN

IInv ==
  /\ PathsTyped
  /\ \A p \in CurrentPaths : PathOK(path[p], path_demotion_needed)

NoneUsable(v) == \A p \in Members(v.order) : ~Usable(v.st[p])

-----------------------------------------------------------------------------
(* Numbers and sequences.                                                  *)

(* The least-number principle, from well-founded induction on Nat.         *)
LEMMA Least ==
  ASSUME NEW S, S \subseteq Nat, S # {}
  PROVE  \E n \in S : \A m \in S : n <= m
<1>1. \E x \in S : \A y \in S : ~ (<<y, x>> \in OpToRel(<, Nat))
  BY NatLessThanWellFounded, WFMin, Zenon
<1>2. PICK x \in S : \A y \in S : ~ (<<y, x>> \in OpToRel(<, Nat))
  BY <1>1
<1>3. ASSUME NEW y \in S PROVE x <= y
  <2>1. x \in Nat /\ y \in Nat
    OBVIOUS
  <2>2. ~(y < x)
    BY <1>2, <2>1 DEF OpToRel
  <2> QED BY <2>1, <2>2
<1> QED BY <1>3

(* The paths of a table.                                                   *)
LEMMA MembersType ==
  ASSUME NEW order \in Seq(PathIds)
  PROVE  /\ Members(order) \subseteq PathIds /\ Len(order) \in Nat
         /\ \A i \in 1..Len(order) : order[i] \in Members(order)
         /\ \A p \in Members(order) : \E i \in 1..Len(order) : order[i] = p
BY DEF Members

(* A table that is made of places of another one has no other paths.       *)
LEMMA PlacesType ==
  ASSUME NEW order \in Seq(PathIds), NEW n \in Nat, NEW place,
         NEW new \in [1..n -> PathIds],
         \A k \in 1..n : place[k] \in 1..Len(order) /\ new[k] = order[place[k]]
  PROVE  new \in Seq(PathIds) /\ Len(new) = n /\ Members(new) \subseteq Members(order)
<1>1. \A k \in 1..n : new[k] = order[place[k]] /\ place[k] \in 1..Len(order)
  OBVIOUS
<1>2. \A k \in 1..n : new[k] \in PathIds
  BY <1>1
<1>3. new \in Seq(PathIds) /\ Len(new) = n
  BY <1>2
<1>4. \A p \in Members(new) : p \in Members(order)
  BY <1>1, <1>3 DEF Members
<1> QED BY <1>3, <1>4

-----------------------------------------------------------------------------
(* The state of one path.                                                  *)

(* picoquic_demote_path changes nothing but the demotion.                  *)
LEMMA DemotedFields ==
  ASSUME NEW s \in PathState
  PROVE  /\ Demoted(s) \in PathState
         /\ Demoted(s).challenge_failed = s.challenge_failed
         /\ Demoted(s).nb_retransmit = s.nb_retransmit
         /\ Demoted(s).path_is_demoted
<1>1. CASE s.path_is_demoted
  BY <1>1 DEF Demoted
<1>2. CASE ~s.path_is_demoted
  <2>1. DemotionDelay \in Nat
    BY MultiPathAssumption
  <2>2. PICK q : q = [s EXCEPT !.path_is_demoted = TRUE, !.demotion_wait = DemotionDelay]
    OBVIOUS
  <2>3. Demoted(s) = q
    BY <1>2, <2>2 DEF Demoted
  <2>4. q \in PathState
    BY <2>1, <2>2, Zenon DEF PathState
  <2>5. /\ q.challenge_failed = s.challenge_failed /\ q.nb_retransmit = s.nb_retransmit
        /\ q.path_is_demoted
    BY <2>2, Zenon DEF PathState
  <2> QED BY <2>3, <2>4, <2>5
<1> QED BY <1>1, <1>2

(* A new path has neither failed nor is it demoted, challenged or not.     *)
LEMMA NewPathFields ==
  /\ NewPath \in PathState /\ ~NewPath.challenge_failed /\ ~NewPath.path_is_demoted
  /\ NewPath.nb_retransmit = 0
  /\ Challenged(NewPath) \in PathState
  /\ ~Challenged(NewPath).challenge_failed /\ ~Challenged(NewPath).path_is_demoted
  /\ Challenged(NewPath).nb_retransmit = 0
<1>1. 0 \in 0..RepeatMax /\ 0 \in 0..(MaxRetransmit + 1) /\ 0 \in Nat
  BY MultiPathAssumption
<1>2. NewPath \in PathState
  BY <1>1, Zenon DEF NewPath, PathState
<1>3. /\ ~NewPath.challenge_failed /\ ~NewPath.path_is_demoted /\ NewPath.nb_retransmit = 0
      /\ ~NewPath.challenge_required
  BY DEF NewPath
<1>4. PICK q : q = [NewPath EXCEPT !.challenge_required = TRUE, !.challenge_verified = FALSE,
                                   !.challenge_wait = 0, !.challenge_repeat_count = 0]
  OBVIOUS
<1>5. Challenged(NewPath) = q
  BY <1>3, <1>4 DEF Challenged
<1>6. q \in PathState
  BY <1>1, <1>2, <1>4, Zenon DEF PathState
<1>7. ~q.challenge_failed /\ ~q.path_is_demoted /\ q.nb_retransmit = 0
  BY <1>3, <1>4 DEF NewPath
<1> QED BY <1>2, <1>3, <1>5, <1>6, <1>7, Zenon

(* picoquic_set_path_challenge does not forget a failure.                  *)
LEMMA ChallengedFields ==
  ASSUME NEW s \in PathState
  PROVE  /\ Challenged(s) \in PathState
         /\ Challenged(s).challenge_failed = s.challenge_failed
         /\ Challenged(s).path_is_demoted = s.path_is_demoted
         /\ Challenged(s).nb_retransmit = s.nb_retransmit
<1>1. CASE s.challenge_required /\ ~s.challenge_verified
  BY <1>1 DEF Challenged
<1>2. CASE ~(s.challenge_required /\ ~s.challenge_verified)
  <2>1. 0 \in 0..RepeatMax /\ 0 \in Nat
    BY MultiPathAssumption
  <2>2. PICK q : q = [s EXCEPT !.challenge_required = TRUE, !.challenge_verified = FALSE,
                               !.challenge_wait = 0, !.challenge_repeat_count = 0]
    OBVIOUS
  <2>3. Challenged(s) = q
    BY <1>2, <2>2 DEF Challenged
  <2>4. q \in PathState
    BY <2>1, <2>2, Zenon DEF PathState
  <2>5. /\ q.challenge_failed = s.challenge_failed /\ q.path_is_demoted = s.path_is_demoted
        /\ q.nb_retransmit = s.nb_retransmit
    BY <2>2, Zenon DEF PathState
  <2> QED BY <2>3, <2>4, <2>5
<1> QED BY <1>1, <1>2

-----------------------------------------------------------------------------
(* The steps of a call.                                                    *)

(* A view is a record of its three parts.                                  *)
LEMMA ViewFields ==
  ASSUME NEW order \in Seq(PathIds), NEW st \in [PathIds -> PathState], NEW b \in BOOLEAN,
         NEW w, w = [order |-> order, st |-> st, needed |-> b]
  PROVE  w \in View /\ w.order = order /\ w.st = st /\ w.needed = b
<1>1. w.order = order /\ w.st = st /\ w.needed = b
  BY Zenon
<1>2. w \in View
  BY Zenon DEF View
<1> QED BY <1>1, <1>2, Zenon

(* picoquic_delete_abandoned_paths demotes what failed before it decides   *)
(* whether it must come again.                                             *)
LEMMA SweptFields ==
  ASSUME PathsTyped, NEW idle, NEW st, st = Swept(idle)
  PROVE  /\ st \in [PathIds -> PathState]
         /\ \A p \in CurrentPaths :
              /\ st[p].challenge_failed = path[p].challenge_failed
              /\ st[p].nb_retransmit = path[p].nb_retransmit
              /\ st[p].challenge_failed => st[p].path_is_demoted
<1>1. CurrentPaths \subseteq PathIds
  BY MembersType DEF PathsTyped, CurrentPaths
<1>2. \A p \in PathIds : path[p] \in PathState
  BY DEF PathsTyped
<1>3. \A p \in PathIds :
        st[p] = IF p \in CurrentPaths /\ (path[p].challenge_failed \/ p \in idle)
                THEN Demoted(path[p]) ELSE path[p]
  BY DEF Swept
<1>4. \A p \in PathIds : st[p] \in PathState
  BY <1>2, <1>3, DemotedFields
<1>5. st \in [PathIds -> PathState]
  BY <1>4 DEF Swept
<1>6. ASSUME NEW p \in CurrentPaths
      PROVE  /\ st[p].challenge_failed = path[p].challenge_failed
             /\ st[p].nb_retransmit = path[p].nb_retransmit
             /\ st[p].challenge_failed => st[p].path_is_demoted
  BY <1>1, <1>2, <1>3, DemotedFields
<1> QED BY <1>5, <1>6

(* The view after the deletion is in order, and has no other paths.        *)
LEMMA DeletionView ==
  ASSUME IInv, NEW v \in AfterDeletion
  PROVE  v \in View /\ ViewOK(v)
<1>1. CASE ~path_demotion_needed
  <2>1. v = [order |-> paths, st |-> path, needed |-> FALSE]
    BY <1>1 DEF AfterDeletion
  <2>2. v \in View
    BY <2>1 DEF View, IInv, PathsTyped
  <2>3. \A p \in CurrentPaths : PathOK(path[p], FALSE)
    BY <1>1 DEF IInv, PathsTyped
  <2> QED BY <2>1, <2>2, <2>3 DEF ViewOK, CurrentPaths
<1>2. CASE path_demotion_needed
  <2>1. PICK idle : v \in Packed(Swept(idle))
    BY <1>2 DEF AfterDeletion
  <2>2. PICK st : st = Swept(idle)
    OBVIOUS
  <2>3. /\ st \in [PathIds -> PathState]
        /\ \A p \in CurrentPaths :
             /\ st[p].challenge_failed = path[p].challenge_failed
             /\ st[p].nb_retransmit = path[p].nb_retransmit
             /\ st[p].challenge_failed => st[p].path_is_demoted
    BY <2>2, SweptFields DEF IInv
  <2>4. PICK kept \in Staying(st) :
          v = [order  |-> [k \in DOMAIN kept |-> paths[kept[k]]],
               st     |-> [p \in PathIds |-> IF p \in CurrentPaths /\ Expired(st[p]) THEN NewPath ELSE st[p]],
               needed |-> \E p \in CurrentPaths : st[p].path_is_demoted]
    BY <2>1, <2>2 DEF Packed
  <2>5. PICK places : places = {i \in 1..Len(paths) : ~Expired(st[paths[i]])}
    OBVIOUS
  <2>6. Len(paths) \in Nat /\ paths \in Seq(PathIds) /\ CurrentPaths \subseteq PathIds
    BY MembersType DEF IInv, PathsTyped, CurrentPaths
  <2>7. Cardinality(places) \in Nat
    <3>1. IsFiniteSet(1..Len(paths))
      BY <2>6, FS_Interval
    <3>2. IsFiniteSet(places)
      BY <2>5, <3>1, FS_Subset
    <3> QED BY <3>2, FS_CardinalityType
  <2>8. PICK n \in Nat : n = Cardinality(places)
    BY <2>7
  <2>9. kept \in [1..n -> places]
    BY <2>4, <2>5, <2>8 DEF Staying
  <2>10. kept \in [1..n -> 1..Len(paths)] /\ DOMAIN kept = 1..n
    <3>1. places \subseteq 1..Len(paths)
      BY <2>5, Zenon
    <3> QED BY <2>9, <3>1, Zenon
  <2>11. v.order = [k \in 1..n |-> paths[kept[k]]]
    BY <2>4, <2>10
  <2>12. v.order \in Seq(PathIds) /\ Len(v.order) = n /\ Members(v.order) \subseteq CurrentPaths
    <3>1. \A k \in 1..n : kept[k] \in 1..Len(paths)
      BY <2>10
    <3>4. [k \in 1..n |-> paths[kept[k]]] \in [1..n -> PathIds]
      BY <2>6, <3>1
    <3>2. PICK o \in [1..n -> PathIds] : o = v.order /\ \A k \in 1..n : o[k] = paths[kept[k]]
      BY <2>11, <3>4
    <3>3. o \in Seq(PathIds) /\ Len(o) = n /\ Members(o) \subseteq Members(paths)
      BY <2>6, <3>1, <3>2, PlacesType
    <3> QED BY <3>2, <3>3 DEF CurrentPaths
  <2>13. v.st = [p \in PathIds |-> IF p \in CurrentPaths /\ Expired(st[p]) THEN NewPath ELSE st[p]]
    BY <2>4
  <2>14. v.st \in [PathIds -> PathState]
    BY <2>3, <2>13, NewPathFields
  <2>15. v.needed = \E p \in CurrentPaths : st[p].path_is_demoted
    BY <2>4, Zenon
  <2>16. v \in View
    <3>1. v.needed \in BOOLEAN
      BY <2>15
    <3>2. v = [order |-> v.order, st |-> v.st, needed |-> v.needed]
      BY <2>4, Zenon
    <3> QED BY <2>12, <2>14, <3>1, <3>2, Zenon DEF View
  <2>17. ASSUME NEW p \in Members(v.order) PROVE PathOK(v.st[p], v.needed)
    <3>1. p \in CurrentPaths /\ p \in PathIds /\ Worn(path[p])
      BY <2>6, <2>12 DEF IInv, PathOK
    <3>2. CASE Expired(st[p])
      <4>1. v.st[p] = NewPath
        BY <2>13, <3>1, <3>2
      <4> QED BY <4>1, NewPathFields, MultiPathAssumption DEF PathOK, Tracked, Worn
    <3>3. CASE ~Expired(st[p])
      <4>1. v.st[p] = st[p]
        BY <2>13, <3>1, <3>3
      <4>2. Worn(st[p])
        BY <2>3, <3>1 DEF Worn
      <4>3. Tracked(st[p], v.needed)
        BY <2>3, <2>15, <3>1 DEF Tracked
      <4> QED BY <4>1, <4>2, <4>3 DEF PathOK
    <3> QED BY <3>2, <3>3
  <2> QED BY <2>16, <2>17 DEF ViewOK
<1> QED BY <1>1, <1>2 DEF IInv, PathsTyped

(* picoquic_select_next_path_mp demotes only what has failed, which is     *)
(* tracked already.                                                        *)
LEMMA ScheduledView ==
  ASSUME NEW v \in View, ViewOK(v), NEW next, NEW w, w = Scheduled(v, next)
  PROVE  w \in View /\ ViewOK(w) /\ w.order = v.order
<1>1. v.order \in Seq(PathIds) /\ v.st \in [PathIds -> PathState] /\ v.needed \in BOOLEAN
  BY DEF View
<1>2. Members(v.order) \subseteq PathIds
  BY <1>1, MembersType
<1> DEFINE at(p) == CHOOSE i \in 1..Len(v.order) : v.order[i] = p
<1>3. ASSUME NEW p \in Members(v.order) PROVE at(p) \in 1..Len(v.order) /\ v.order[at(p)] = p
  BY <1>1, <1>3, MembersType, Zenon
<1>4. ASSUME NEW p \in Members(v.order)
      PROVE  LET q == VisitedPath(v, next, at(p)) IN
             /\ q \in PathState
             /\ q.challenge_failed = v.st[p].challenge_failed
             /\ q.nb_retransmit = v.st[p].nb_retransmit
             /\ q.path_is_demoted => (v.st[p].path_is_demoted \/ v.st[p].challenge_failed)
  <2>1. PICK s \in PathState : s = v.st[p]
    BY <1>1, <1>2
  <2>2. v.st[v.order[at(p)]] = s
    BY <1>3, <2>1
  <2>3. PICK q : q = VisitedPath(v, next, at(p))
    OBVIOUS
  <2>4. \/ q = s
        \/ s.challenge_failed /\ q = Demoted(s)
        \/ q = [s EXCEPT !.is_multipath_probe_needed = TRUE]
    BY <2>2, <2>3 DEF VisitedPath
  <2>5. CASE q = s
    BY <2>1, <2>3, <2>5
  <2>6. CASE s.challenge_failed /\ q = Demoted(s)
    <3>1. /\ q \in PathState /\ q.challenge_failed = s.challenge_failed
          /\ q.nb_retransmit = s.nb_retransmit
      BY <2>6, DemotedFields
    <3> QED BY <2>1, <2>3, <2>6, <3>1
  <2>7. CASE q = [s EXCEPT !.is_multipath_probe_needed = TRUE]
    <3>1. /\ q \in PathState /\ q.challenge_failed = s.challenge_failed
          /\ q.nb_retransmit = s.nb_retransmit /\ q.path_is_demoted = s.path_is_demoted
      BY <2>7 DEF PathState
    <3> QED BY <2>1, <2>3, <3>1
  <2> QED BY <2>4, <2>5, <2>6, <2>7
<1>5. PICK st : st = [p \in PathIds |-> IF p \in Members(v.order) THEN VisitedPath(v, next, at(p)) ELSE v.st[p]]
  OBVIOUS
<1>6. PICK more \in BOOLEAN : more = \E i \in Visited(v, next) :
                       LET s == v.st[v.order[i]]
                       IN  s.challenge_failed /\ ~s.path_is_demoted
  OBVIOUS
<1>7. w = [v EXCEPT !.st = st, !.needed = @ \/ more]
  BY <1>5, <1>6, Zenon DEF Scheduled
<1>8. st \in [PathIds -> PathState]
  BY <1>1, <1>4, <1>5
<1>9. w.order = v.order /\ w.st = st /\ w.needed = (v.needed \/ more) /\ w \in View
  <2>1. PICK b \in BOOLEAN : b = (v.needed \/ more)
    OBVIOUS
  <2>2. PICK o \in Seq(PathIds) : o = v.order
    BY <1>1
  <2>3. w = [v EXCEPT !.st = st, !.needed = b]
    BY <1>7, <2>1, Zenon
  <2>4. w = [order |-> v.order, st |-> st, needed |-> b]
    BY <2>3, Zenon DEF View
  <2>5. w = [order |-> o, st |-> st, needed |-> b]
    BY <2>2, <2>4, Zenon
  <2>6. w \in View /\ w.order = o /\ w.st = st /\ w.needed = b
    BY <1>8, <2>5, ViewFields
  <2> QED BY <2>1, <2>2, <2>6, Zenon
<1>10. w \in View
  BY <1>9
<1>11. ASSUME NEW p \in Members(v.order) PROVE PathOK(w.st[p], w.needed)
  <2>1. PICK q : q = VisitedPath(v, next, at(p))
    OBVIOUS
  <2>2. w.st[p] = q
    BY <1>2, <1>5, <1>9, <2>1
  <2>3. PathOK(v.st[p], v.needed)
    BY DEF ViewOK
  <2>4. /\ q.challenge_failed = v.st[p].challenge_failed
        /\ q.nb_retransmit = v.st[p].nb_retransmit
        /\ q.path_is_demoted => (v.st[p].path_is_demoted \/ v.st[p].challenge_failed)
    BY <1>4, <2>1
  <2>5. Worn(q)
    BY <2>3, <2>4 DEF PathOK, Worn
  <2>6. Tracked(q, w.needed)
    BY <1>9, <2>3, <2>4 DEF PathOK, Tracked
  <2> QED BY <2>2, <2>5, <2>6 DEF PathOK
<1> QED BY <1>9, <1>10, <1>11 DEF ViewOK

(* picoquic_retransmit_needed: a path that exceeds the limit fails, and    *)
(* its failure is tracked.                                                 *)
LEMMA LossView ==
  ASSUME NEW v \in View, ViewOK(v), NEW loss \in Losses(v), NEW rest,
         NEW w, w = AfterLoss(v, loss, rest)
  PROVE  w \in View /\ ViewOK(w) /\ w.order = v.order
<1>1. v.order \in Seq(PathIds) /\ v.st \in [PathIds -> PathState] /\ v.needed \in BOOLEAN
  BY DEF View
<1>2. Members(v.order) \subseteq PathIds
  BY <1>1, MembersType
<1> DEFINE after(p) == [v.st[p] EXCEPT
                         !.nb_retransmit = NbRetransmit(v.st[p], loss[p]),
                         !.challenge_failed = @ \/ TooMany(v.st[p], loss[p]),
                         !.in_transit = @ /\ (loss[p] = "none" \/ p \in rest)]
<1>3. ASSUME NEW p \in Members(v.order)
      PROVE  /\ after(p) \in PathState
             /\ after(p).challenge_failed = (v.st[p].challenge_failed \/ TooMany(v.st[p], loss[p]))
             /\ after(p).path_is_demoted = v.st[p].path_is_demoted
             /\ Worn(after(p))
  <2>1. PICK s \in PathState : s = v.st[p]
    BY <1>1, <1>2
  <2>2. PICK kind : kind = loss[p]
    OBVIOUS
  <2>3. s.nb_retransmit \in Nat /\ s.nb_retransmit <= MaxRetransmit + 1 /\ MaxRetransmit \in Nat
    BY MultiPathAssumption DEF PathState
  <2>4. PICK n \in 0..(MaxRetransmit + 1) : n = NbRetransmit(s, kind)
    BY <2>3 DEF NbRetransmit
  <2>5. PICK failed \in BOOLEAN : failed = (s.challenge_failed \/ TooMany(s, kind))
    BY DEF PathState, TooMany
  <2>6. PICK transit \in BOOLEAN : transit = (s.in_transit /\ (kind = "none" \/ p \in rest))
    BY DEF PathState
  <2>7. PICK q : q = [s EXCEPT !.nb_retransmit = n, !.challenge_failed = failed, !.in_transit = transit]
    OBVIOUS
  <2>8. after(p) = q
    BY <2>1, <2>2, <2>4, <2>5, <2>6, <2>7, Zenon
  <2>9. /\ q \in PathState /\ q.challenge_failed = failed /\ q.nb_retransmit = n
        /\ q.path_is_demoted = s.path_is_demoted
    BY <2>7 DEF PathState
  <2>10. Worn(s)
    BY <2>1 DEF ViewOK, PathOK
  <2>11. n > MaxRetransmit => failed
    BY <2>3, <2>4, <2>5, <2>10 DEF Worn, NbRetransmit, TooMany
  <2> QED BY <2>1, <2>2, <2>5, <2>8, <2>9, <2>11 DEF Worn
<1>4. PICK st : st = [p \in PathIds |-> IF p \notin Members(v.order) THEN v.st[p] ELSE after(p)]
  OBVIOUS
<1>5. PICK more \in BOOLEAN : more = \E p \in Members(v.order) : TooMany(v.st[p], loss[p])
  OBVIOUS
<1>6. w = [v EXCEPT !.st = st, !.needed = @ \/ more]
  BY <1>4, <1>5, Zenon DEF AfterLoss
<1>7. st \in [PathIds -> PathState]
  BY <1>1, <1>3, <1>4
<1>8. w.order = v.order /\ w.st = st /\ w.needed = (v.needed \/ more) /\ w \in View
  <2>1. PICK b \in BOOLEAN : b = (v.needed \/ more)
    OBVIOUS
  <2>2. PICK o \in Seq(PathIds) : o = v.order
    BY <1>1
  <2>3. w = [v EXCEPT !.st = st, !.needed = b]
    BY <1>6, <2>1, Zenon
  <2>4. w = [order |-> v.order, st |-> st, needed |-> b]
    BY <2>3, Zenon DEF View
  <2>5. w = [order |-> o, st |-> st, needed |-> b]
    BY <2>2, <2>4, Zenon
  <2>6. w \in View /\ w.order = o /\ w.st = st /\ w.needed = b
    BY <1>7, <2>5, ViewFields
  <2> QED BY <2>1, <2>2, <2>6, Zenon
<1>9. w \in View
  BY <1>8
<1>10. ASSUME NEW p \in Members(v.order) PROVE PathOK(w.st[p], w.needed)
  <2>1. PICK q : q = after(p)
    OBVIOUS
  <2>2. w.st[p] = q
    BY <1>2, <1>4, <1>8, <2>1
  <2>3. Tracked(v.st[p], v.needed)
    BY DEF ViewOK, PathOK
  <2>4. Tracked(q, w.needed)
    BY <1>3, <1>5, <1>8, <2>1, <2>3 DEF Tracked
  <2>5. Worn(q)
    BY <1>3, <2>1
  <2> QED BY <2>2, <2>4, <2>5 DEF PathOK
<1> QED BY <1>8, <1>9, <1>10 DEF ViewOK

(* A packet sent again changes nothing but what is in transit.             *)
LEMMA ResentView ==
  ASSUME NEW v \in View, ViewOK(v), NEW x \in Members(v.order), NEW w, w = Resent(v, x)
  PROVE  /\ w \in View /\ ViewOK(w) /\ w.order = v.order
         /\ \A p \in Members(v.order) : w.st[p].challenge_failed = v.st[p].challenge_failed
<1>1. v.order \in Seq(PathIds) /\ v.st \in [PathIds -> PathState] /\ v.needed \in BOOLEAN
  BY DEF View
<1>2. Members(v.order) \subseteq PathIds
  BY <1>1, MembersType
<1>3. PICK q : q = [v.st[x] EXCEPT !.in_transit = TRUE]
  OBVIOUS
<1>4. /\ q \in PathState /\ q.challenge_failed = v.st[x].challenge_failed
      /\ q.path_is_demoted = v.st[x].path_is_demoted /\ q.nb_retransmit = v.st[x].nb_retransmit
  BY <1>1, <1>2, <1>3 DEF PathState
<1>5. PICK st : st = [v.st EXCEPT ![x] = q]
  OBVIOUS
<1>6. w = [order |-> v.order, st |-> st, needed |-> v.needed]
  <2>1. w = [v EXCEPT !.st = [v.st EXCEPT ![x].in_transit = TRUE]]
    BY DEF Resent
  <2>2. [v.st EXCEPT ![x].in_transit = TRUE] = st
    BY <1>3, <1>5
  <2>3. v = [order |-> v.order, st |-> v.st, needed |-> v.needed]
    BY Zenon DEF View
  <2> QED BY <2>1, <2>2, <2>3, Zenon
<1>7. st \in [PathIds -> PathState] /\ \A p \in PathIds : st[p] = IF p = x THEN q ELSE v.st[p]
  BY <1>1, <1>4, <1>5
<1>8. w \in View
  BY <1>1, <1>6, <1>7, ViewFields
<1>9. ASSUME NEW p \in Members(v.order)
      PROVE  w.st[p].challenge_failed = v.st[p].challenge_failed /\ PathOK(w.st[p], w.needed)
  <2>1. w.st[p] = IF p = x THEN q ELSE v.st[p]
    BY <1>2, <1>6, <1>7
  <2>2. PathOK(v.st[p], v.needed) /\ w.needed = v.needed
    BY <1>6 DEF ViewOK
  <2> QED BY <1>4, <2>1, <2>2 DEF PathOK, Tracked, Worn
<1> QED BY <1>6, <1>8, <1>9 DEF ViewOK

(* A challenge that is sent, and the frames with it, change nothing that   *)
(* the invariant is about.                                                 *)
LEMMA SentFields ==
  ASSUME NEW s \in PathState, NEW data \in BOOLEAN, NEW q, q = SentFrames(SentChallenge(s), data)
  PROVE  /\ q \in PathState /\ q.challenge_failed = s.challenge_failed
         /\ q.path_is_demoted = s.path_is_demoted /\ q.nb_retransmit = s.nb_retransmit
         /\ q.challenge_verified = s.challenge_verified
<1>1. PICK c : c = SentChallenge(s)
  OBVIOUS
<1>2. /\ c \in PathState /\ c.challenge_failed = s.challenge_failed
      /\ c.path_is_demoted = s.path_is_demoted /\ c.nb_retransmit = s.nb_retransmit
      /\ c.challenge_verified = s.challenge_verified
  <2>1. CASE MustChallenge(s) /\ ~GivesUp(s)
    <3>1. s.challenge_repeat_count + 1 \in 0..RepeatMax
      BY <2>1, MultiPathAssumption DEF GivesUp, PathState
    <3>2. PICK n \in 0..RepeatMax : n = s.challenge_repeat_count + 1
      BY <3>1
    <3>3. PICK wait \in Nat : wait = IF s.challenge_repeat_count + 1 >= 2 THEN LongWait ELSE ShortWait
      BY MultiPathAssumption
    <3>4. c = [s EXCEPT !.challenge_repeat_count = n, !.challenge_wait = wait, !.in_transit = TRUE]
      BY <1>1, <2>1, <3>2, <3>3, Zenon DEF SentChallenge
    <3> QED BY <3>4 DEF PathState
  <2>2. CASE ~(MustChallenge(s) /\ ~GivesUp(s))
    <3>1. c = s
      BY <1>1, <2>2 DEF SentChallenge
    <3> QED BY <3>1
  <2> QED BY <2>1, <2>2
<1>3. PICK transit \in BOOLEAN :
        transit = (c.in_transit \/ c.response_required \/ c.is_multipath_probe_needed
                                \/ (c.challenge_verified /\ data))
  BY <1>2 DEF PathState
<1>4. q = [c EXCEPT !.response_required = FALSE, !.is_multipath_probe_needed = FALSE, !.in_transit = transit]
  BY <1>1, <1>3, Zenon DEF SentFrames
<1>5. /\ q \in PathState /\ q.challenge_failed = c.challenge_failed
      /\ q.path_is_demoted = c.path_is_demoted /\ q.nb_retransmit = c.nb_retransmit
      /\ q.challenge_verified = c.challenge_verified
  BY <1>2, <1>4 DEF PathState
<1> QED BY <1>2, <1>5

(* The table with the first path exchanged for another has the same paths. *)
LEMMA SwappedType ==
  ASSUME NEW v \in View, NEW x
  PROVE  Swapped(v, x) \in Seq(PathIds) /\ Members(Swapped(v, x)) \subseteq Members(v.order)
<1>1. v.order \in Seq(PathIds)
  BY DEF View
<1>2. PICK n \in Nat : n = Len(v.order)
  BY <1>1
<1>3. Promoted(v) \subseteq 1..n
  BY <1>2 DEF Promoted, Alternates
<1> DEFINE place == [k \in 1..n |->
                       IF x # v.order[1] \/ Promoted(v) = {} THEN k
                       ELSE IF k = 1 THEN CHOOSE i \in Promoted(v) : TRUE
                       ELSE IF k \in Promoted(v) THEN 1 ELSE k]
<1>4. ASSUME NEW k \in 1..n PROVE place[k] \in 1..n /\ v.order[place[k]] = Swapped(v, x)[k]
  <2>1. CASE x # v.order[1] \/ Promoted(v) = {}
    BY <1>2, <2>1 DEF Swapped
  <2>2. CASE x = v.order[1] /\ Promoted(v) # {} /\ k = 1
    <3>1. (CHOOSE i \in Promoted(v) : TRUE) \in Promoted(v)
      BY <2>2
    <3>2. place[k] = CHOOSE i \in Promoted(v) : TRUE
      BY <2>2
    <3>3. Swapped(v, x)[k] = v.order[CHOOSE i \in Promoted(v) : TRUE]
      BY <1>2, <2>2 DEF Swapped
    <3> HIDE DEF place
    <3> QED BY <1>3, <3>1, <3>2, <3>3, Zenon
  <2>3. CASE x = v.order[1] /\ Promoted(v) # {} /\ k # 1 /\ k \in Promoted(v)
    BY <1>2, <2>3 DEF Swapped
  <2>4. CASE x = v.order[1] /\ Promoted(v) # {} /\ k # 1 /\ k \notin Promoted(v)
    BY <1>2, <2>4 DEF Swapped
  <2> QED BY <2>1, <2>2, <2>3, <2>4
<1>5. \A k \in 1..n : place[k] \in 1..Len(v.order)
  <2> HIDE DEF place
  <2> QED BY <1>2, <1>4
<1>6. Swapped(v, x) = [k \in 1..n |-> v.order[place[k]]]
  <2>1. Swapped(v, x) = [k \in 1..n |-> Swapped(v, x)[k]]
    BY <1>2 DEF Swapped
  <2> HIDE DEF place
  <2> QED BY <1>4, <2>1
<1> HIDE DEF place
<1>9. PICK o \in Seq(PathIds) : o = v.order
  BY <1>1
<1>7. PICK new \in [1..n -> PathIds] : new = Swapped(v, x) /\ \A k \in 1..n : new[k] = o[place[k]]
  <2>1. [k \in 1..n |-> o[place[k]]] \in [1..n -> PathIds]
    BY <1>2, <1>5, <1>9
  <2> QED BY <1>6, <1>9, <2>1
<1>8. new \in Seq(PathIds) /\ Members(new) \subseteq Members(o)
  <2>1. \A k \in 1..n : place[k] \in 1..Len(o) /\ new[k] = o[place[k]]
    BY <1>5, <1>7, <1>9
  <2>2. \A k \in 1..n : new[k] \in Members(o)
    BY <2>1 DEF Members
  <2>3. new \in Seq(PathIds) /\ Len(new) = n
    OBVIOUS
  <2> QED BY <2>2, <2>3 DEF Members
<1> QED BY <1>7, <1>8, <1>9

(* picoquic_prepare_packet_ready on a path: a challenge that was repeated  *)
(* too often fails it, which is tracked, and ends the connection only when *)
(* every other path has failed.                                            *)
LEMMA FramedView ==
  ASSUME NEW v \in View, ViewOK(v), NEW x \in Members(v.order), NEW data \in BOOLEAN,
         NEW w, w = Framed(v, x, data)
  PROVE  /\ w \in View /\ ViewOK(w) /\ Members(w.order) \subseteq Members(v.order)
         /\ \A p \in Members(v.order) : v.st[p].challenge_failed => w.st[p].challenge_failed
         /\ Ended(v, x) => NoneUsable(w)
<1>1. v.order \in Seq(PathIds) /\ v.st \in [PathIds -> PathState] /\ v.needed \in BOOLEAN
  BY DEF View
<1>2. Members(v.order) \subseteq PathIds
  BY <1>1, MembersType
<1>3. PICK s \in PathState : s = v.st[x]
  BY <1>1, <1>2
<1>4. PICK failing \in BOOLEAN : failing = (GivesUp(s) /\ ~NoAlternative(v, x))
  OBVIOUS
<1>5. PICK c : c = SentFrames(SentChallenge(s), data)
  OBVIOUS
<1>6. /\ c \in PathState /\ c.challenge_failed = s.challenge_failed
      /\ c.path_is_demoted = s.path_is_demoted /\ c.nb_retransmit = s.nb_retransmit
      /\ c.challenge_verified = s.challenge_verified
  BY <1>5, SentFields
<1>7. PICK q : q = [c EXCEPT !.challenge_failed = @ \/ failing]
  OBVIOUS
<1>8. /\ q \in PathState /\ q.challenge_failed = (c.challenge_failed \/ failing)
      /\ q.path_is_demoted = c.path_is_demoted /\ q.nb_retransmit = c.nb_retransmit
      /\ q.challenge_verified = c.challenge_verified
  <2>1. PICK failed \in BOOLEAN : failed = (c.challenge_failed \/ failing)
    BY <1>6 DEF PathState
  <2>2. q = [c EXCEPT !.challenge_failed = failed]
    BY <1>7, <2>1, Zenon
  <2>3. /\ q \in PathState /\ q.challenge_failed = failed
        /\ q.path_is_demoted = c.path_is_demoted /\ q.nb_retransmit = c.nb_retransmit
        /\ q.challenge_verified = c.challenge_verified
    BY <1>6, <2>2 DEF PathState
  <2> QED BY <2>1, <2>3
<1>9. PICK order : order = IF GivesUp(s) THEN Swapped(v, x) ELSE v.order
  OBVIOUS
<1>10. order \in Seq(PathIds) /\ Members(order) \subseteq Members(v.order)
  BY <1>1, <1>9, SwappedType
<1>11. PICK st : st = [v.st EXCEPT ![x] = q]
  OBVIOUS
<1>12. w = [order |-> order, st |-> st, needed |-> v.needed \/ failing]
  BY <1>3, <1>4, <1>5, <1>7, <1>9, <1>11, Zenon DEF Framed
<1>13. st \in [PathIds -> PathState] /\ \A p \in PathIds : st[p] = IF p = x THEN q ELSE v.st[p]
  BY <1>1, <1>8, <1>11
<1>15. w.order = order /\ w.st = st /\ w.needed = (v.needed \/ failing) /\ w \in View
  <2>1. PICK b \in BOOLEAN : b = (v.needed \/ failing)
    OBVIOUS
  <2>2. w = [order |-> order, st |-> st, needed |-> b]
    BY <1>12, <2>1, Zenon
  <2>3. w \in View /\ w.order = order /\ w.st = st /\ w.needed = b
    BY <1>10, <1>13, <2>2, ViewFields
  <2> QED BY <2>1, <2>3, Zenon
<1>14. w \in View
  BY <1>15
<1>16. ASSUME NEW p \in Members(v.order)
       PROVE  /\ v.st[p].challenge_failed => w.st[p].challenge_failed
              /\ PathOK(w.st[p], w.needed)
  <2>1. w.st[p] = IF p = x THEN q ELSE v.st[p]
    BY <1>2, <1>13, <1>15
  <2>2. PathOK(v.st[p], v.needed)
    BY DEF ViewOK
  <2>3. CASE p # x
    BY <1>15, <2>1, <2>2, <2>3 DEF PathOK, Tracked, Worn
  <2>4. CASE p = x
    <3>1. v.st[p] = s /\ w.st[p] = q
      BY <1>3, <2>1, <2>4
    <3>2. s.challenge_failed => q.challenge_failed
      BY <1>6, <1>8
    <3>3. Worn(q)
      BY <1>6, <1>8, <2>2, <3>1, <3>2 DEF PathOK, Worn
    <3>4. Tracked(q, w.needed)
      BY <1>6, <1>8, <1>15, <2>2, <3>1 DEF PathOK, Tracked
    <3> QED BY <3>1, <3>2, <3>3, <3>4 DEF PathOK
  <2> QED BY <2>3, <2>4
<1>17. ASSUME Ended(v, x) PROVE NoneUsable(w)
  <2>1. ~s.challenge_verified /\ x = v.order[1] /\ Promoted(v) = {}
    BY <1>3, <1>17 DEF Ended, GivesUp, MustChallenge, NoAlternative
  <2>2. Alternates(v) = {}
    <3>1. Alternates(v) \subseteq Nat
      BY DEF Alternates
    <3>2. ASSUME Alternates(v) # {} PROVE FALSE
      <4>1. PICK i \in Alternates(v) : \A j \in Alternates(v) : i <= j
        BY <3>1, <3>2, Least
      <4> QED BY <2>1, <4>1 DEF Promoted
    <3> QED BY <3>2
  <2>3. ASSUME NEW p \in Members(v.order), p # x PROVE v.st[p].challenge_failed
    <3>1. PICK i \in 1..Len(v.order) : v.order[i] = p
      BY <1>1, MembersType
    <3>2. i \in 2..Len(v.order)
      BY <1>1, <2>1, <2>3, <3>1
    <3> QED BY <2>2, <3>1, <3>2 DEF Alternates
  <2>4. ASSUME NEW p \in Members(w.order) PROVE ~Usable(w.st[p])
    <3>1. p \in Members(v.order)
      BY <1>10, <1>15
    <3>2. CASE p = x
      <4>1. w.st[p] = q
        BY <1>2, <1>13, <1>15, <3>1, <3>2
      <4> QED BY <1>6, <1>8, <2>1, <4>1 DEF Usable
    <3>3. CASE p # x
      BY <1>16, <2>3, <3>1, <3>3 DEF Usable
    <3> QED BY <3>2, <3>3
  <2> QED BY <2>4 DEF NoneUsable
<1> QED BY <1>10, <1>14, <1>15, <1>16, <1>17 DEF ViewOK

-----------------------------------------------------------------------------
(* A call.                                                                 *)

(* What picoquic_prepare_packet_ex leaves.                                 *)
OutcomeOK(r) ==
  /\ r.order \in Seq(PathIds) /\ r.st \in [PathIds -> PathState] /\ r.needed \in BOOLEAN
  /\ \A p \in Members(r.order) : PathOK(r.st[p], r.needed)
  /\ r.dead => NoneUsable(r)

(* A view that is in order, and not dead unless nothing is usable.         *)
LEMMA DeadOutcome ==
  ASSUME NEW v \in View, ViewOK(v), NEW dead, dead => NoneUsable(v), NEW r, r = Dead(v, dead)
  PROVE  OutcomeOK(r)
<1>1. r.order = v.order /\ r.st = v.st /\ r.needed = v.needed /\ r.dead = dead
  BY DEF Dead
<1> QED BY <1>1 DEF OutcomeOK, View, ViewOK, NoneUsable

(* New frames.                                                             *)
LEMMA FreshOutcome ==
  ASSUME NEW w \in View, ViewOK(w), NEW x \in Members(w.order), NEW data \in BOOLEAN,
         NEW r, r = Fresh(w, x, data)
  PROVE  OutcomeOK(r)
<1>1. PICK f : f = Framed(w, x, data)
  OBVIOUS
<1>2. f \in View /\ ViewOK(f) /\ (Ended(w, x) => NoneUsable(f))
  BY <1>1, FramedView
<1>3. r = Dead(f, Ended(w, x))
  BY <1>1 DEF Fresh
<1> QED BY <1>2, <1>3, DeadOutcome

(* A packet after a loss: when all paths exceed the limit, all have        *)
(* failed.                                                                 *)
LEMMA LossOutcome ==
  ASSUME NEW w \in View, ViewOK(w), NEW x \in Members(w.order), NEW loss,
         NEW r \in LossOutcomes(w, x, loss)
  PROVE  OutcomeOK(r)
<1>1. ASSUME TimedOut(w, loss), NEW p \in Members(w.order) PROVE w.st[p].challenge_failed
  BY <1>1 DEF TimedOut, AllPathsBad, ViewOK, PathOK, Worn
<1>2. CASE r = Repeated(w, x, loss)
  <2>1. PICK f : f = Resent(w, x)
    OBVIOUS
  <2>2. /\ f \in View /\ ViewOK(f) /\ f.order = w.order
        /\ \A p \in Members(w.order) : f.st[p].challenge_failed = w.st[p].challenge_failed
    BY <2>1, ResentView
  <2>3. TimedOut(w, loss) => NoneUsable(f)
    BY <1>1, <2>2 DEF NoneUsable, Usable
  <2>4. r = Dead(f, TimedOut(w, loss))
    BY <1>2, <2>1 DEF Repeated
  <2> QED BY <2>2, <2>3, <2>4, DeadOutcome
<1>3. CASE TimedOut(w, loss) /\ r = Dead(Framed(w, x, FALSE), TRUE)
  <2>1. PICK f : f = Framed(w, x, FALSE)
    OBVIOUS
  <2>2. /\ f \in View /\ ViewOK(f) /\ Members(f.order) \subseteq Members(w.order)
        /\ \A p \in Members(w.order) : w.st[p].challenge_failed => f.st[p].challenge_failed
    BY <2>1, FramedView
  <2>3. NoneUsable(f)
    BY <1>1, <1>3, <2>2 DEF NoneUsable, Usable
  <2> QED BY <1>3, <2>1, <2>2, <2>3, DeadOutcome
<1>4. CASE \E data \in BOOLEAN : r = Fresh(w, x, data)
  BY <1>4, FreshOutcome
<1> QED BY <1>2, <1>3, <1>4 DEF LossOutcomes

(* The selected path is one of the table.                                  *)
LEMMA SelectedPath ==
  ASSUME NEW v \in View, v.order # << >>, NEW next \in {0, 1}, NEW i \in Selectable(v, next)
  PROVE  v.order[i] \in Members(v.order)
<1>1. v.order \in Seq(PathIds)
  BY DEF View
<1>2. PICK n \in Nat : n = Len(v.order)
  BY <1>1
<1>3. n # 0
  BY <1>1, <1>2, EmptySeq
<1>4. Fallback(v, next) \in 1..n
  <2>1. CASE Paired(v)
    <3>1. n = 2
      BY <1>2, <2>1 DEF Paired
    <3> QED BY <2>1, <3>1 DEF Fallback
  <2>2. CASE ~Paired(v)
    BY <1>2, <1>3, <2>2 DEF Fallback
  <2> QED BY <2>1, <2>2
<1>5. i \in 1..n
  BY <1>2, <1>4 DEF Selectable, StopAt, Candidates
<1> QED BY <1>2, <1>5 DEF Members

(* Every outcome of a call leaves the paths in order.                      *)
LEMMA CallOutcome ==
  ASSUME NEW v \in View, ViewOK(v), v.order # << >>, NEW next \in {0, 1}, NEW lossy,
         NEW r \in PrepareOutcomes(v, next, lossy)
  PROVE  OutcomeOK(r)
<1>1. PICK w : w = Scheduled(v, next)
  OBVIOUS
<1>2. w \in View /\ ViewOK(w) /\ w.order = v.order
  BY <1>1, ScheduledView
<1>3. PICK i \in Selectable(v, next) : r \in CalmOutcomes(w, v.order[i]) \cup Lossy(w, v.order[i])
  BY <1>1 DEF PrepareOutcomes
<1>4. PICK x \in Members(w.order) : x = v.order[i]
  BY <1>2, SelectedPath
<1>5. CASE r \in CalmOutcomes(w, x)
  BY <1>2, <1>5, FreshOutcome DEF CalmOutcomes
<1>6. CASE r \in Lossy(w, x)
  <2>1. PICK loss \in Losses(w) :
          r \in UNION {LossOutcomes(after, x, loss) :
                         after \in {AfterLoss(w, loss, rest) : rest \in SUBSET Lost(loss)}}
    BY <1>6 DEF Lossy
  <2>2. PICK rest \in SUBSET Lost(loss) : r \in LossOutcomes(AfterLoss(w, loss, rest), x, loss)
    BY <2>1
  <2>3. PICK after : after = AfterLoss(w, loss, rest)
    OBVIOUS
  <2>4. after \in View /\ ViewOK(after) /\ after.order = w.order
    BY <1>2, <2>3, LossView
  <2> QED BY <2>2, <2>3, <2>4, LossOutcome
<1> QED BY <1>3, <1>4, <1>5, <1>6

(* picoquic_prepare_packet_ex *)
LEMMA PrepareStep ==
  ASSUME IInv, NEW next \in {0, 1}, NEW lossy, Prepare(next, lossy)
  PROVE  IInv' /\ (cnx_state' # cnx_state => \A p \in CurrentPaths' : ~Usable(path'[p]))
<1>1. PICK v \in AfterDeletion :
        /\ orphaned' = (orphaned \/ Orphans(v))
        /\ fault' = (v.order = << >>)
        /\ \E r \in (IF v.order = << >> THEN {Dead(v, FALSE)} ELSE PrepareOutcomes(v, next, lossy)) :
             /\ paths' = r.order
             /\ path' = r.st
             /\ path_demotion_needed' = r.needed
             /\ cnx_state' = IF r.dead THEN "disconnected" ELSE "ready"
  BY DEF Prepare
<1>2. PICK r \in (IF v.order = << >> THEN {Dead(v, FALSE)} ELSE PrepareOutcomes(v, next, lossy)) :
        /\ paths' = r.order
        /\ path' = r.st
        /\ path_demotion_needed' = r.needed
        /\ cnx_state' = IF r.dead THEN "disconnected" ELSE "ready"
  BY <1>1
<1>3. v \in View /\ ViewOK(v)
  BY DeletionView
<1>4. OutcomeOK(r)
  <2>1. CASE v.order = << >>
    <3>1. r = Dead(v, FALSE)
      BY <1>2, <2>1
    <3> QED BY <1>3, <3>1, DeadOutcome
  <2>2. CASE v.order # << >>
    <3>1. r \in PrepareOutcomes(v, next, lossy)
      BY <1>2, <2>2
    <3> QED BY <1>3, <2>2, <3>1, CallOutcome
  <2> QED BY <2>1, <2>2
<1>5. cnx_state = "ready"
  BY DEF Prepare, Running
<1>6. orphaned' \in BOOLEAN /\ fault' \in BOOLEAN
  BY <1>1
<1>7. PathsTyped'
  BY <1>2, <1>4, <1>6 DEF PathsTyped, OutcomeOK
<1>8. \A p \in CurrentPaths' : PathOK(path'[p], path_demotion_needed')
  BY <1>2, <1>4 DEF OutcomeOK, CurrentPaths
<1>9. cnx_state' # cnx_state => \A p \in CurrentPaths' : ~Usable(path'[p])
  BY <1>2, <1>4, <1>5 DEF OutcomeOK, NoneUsable, CurrentPaths
<1> QED BY <1>7, <1>8, <1>9 DEF IInv, PathOK, Tracked, Worn

-----------------------------------------------------------------------------
(* Between two calls.                                                      *)

(* A step on some paths of the table that forgets no failure: it may       *)
(* demote a path when it sets path_demotion_needed.                        *)
LEMMA PathsStep ==
  ASSUME IInv, PathsTyped',
         \A p \in CurrentPaths' : PathOK(path'[p], path_demotion_needed')
  PROVE  IInv'
BY DEF IInv, PathOK, Tracked, Worn

(* The change of one path of the table.                                    *)
LEMMA OnePath ==
  ASSUME IInv, NEW p \in CurrentPaths, NEW q, path' = [path EXCEPT ![p] = q],
         q \in PathState, PathOK(q, path_demotion_needed'),
         path_demotion_needed \in BOOLEAN, path_demotion_needed => path_demotion_needed',
         path_demotion_needed' \in BOOLEAN,
         UNCHANGED <<paths, orphaned, fault>>, cnx_state' \in {"ready", "disconnected"}
  PROVE  IInv'
<1>1. p \in PathIds /\ CurrentPaths \subseteq PathIds
  BY MembersType DEF IInv, PathsTyped, CurrentPaths
<1>2. \A o \in PathIds : path'[o] = IF o = p THEN q ELSE path[o]
  BY DEF IInv, PathsTyped
<1>3. PathsTyped'
  BY <1>1 DEF IInv, PathsTyped
<1>4. CurrentPaths' = CurrentPaths
  BY DEF CurrentPaths
<1>5. ASSUME NEW o \in CurrentPaths PROVE PathOK(path'[o], path_demotion_needed')
  <2>1. CASE o = p
    BY <1>1, <1>2, <2>1
  <2>2. CASE o # p
    <3>1. path'[o] = path[o] /\ PathOK(path[o], path_demotion_needed)
      BY <1>1, <1>2, <2>2 DEF IInv
    <3> QED BY <3>1 DEF PathOK, Tracked
  <2> QED BY <2>1, <2>2
<1> QED BY <1>3, <1>4, <1>5, PathsStep

(* A path that is added to the table, and what another one becomes.        *)
LEMMA NewPathStep ==
  ASSUME IInv, NEW p \in PathIds \ CurrentPaths, paths' = Append(paths, p),
         path' \in [PathIds -> PathState],
         path'[p] = Challenged(NewPath),
         \A o \in CurrentPaths :
           /\ path'[o].challenge_failed = path[o].challenge_failed
           /\ path'[o].path_is_demoted = path[o].path_is_demoted
           /\ path'[o].nb_retransmit = path[o].nb_retransmit,
         UNCHANGED <<path_demotion_needed, cnx_state, orphaned, fault>>
  PROVE  IInv'
<1>1. paths \in Seq(PathIds)
  BY DEF IInv, PathsTyped
<1>2. PathsTyped'
  BY <1>1 DEF IInv, PathsTyped
<1>3. CurrentPaths' = CurrentPaths \cup {p}
  <2>1. PICK n \in Nat : n = Len(paths)
    BY <1>1
  <2>2. Len(paths') = n + 1 /\ paths'[n + 1] = p /\ \A i \in 1..n : paths'[i] = paths[i]
    BY <1>1, <2>1
  <2>3. {paths'[i] : i \in 1..(n + 1)} = {paths[i] : i \in 1..n} \cup {p}
    <3>1. \A i \in 1..(n + 1) : i \in 1..n \/ i = n + 1
      OBVIOUS
    <3>2. \A i \in 1..n : i \in 1..(n + 1)
      OBVIOUS
    <3>3. n + 1 \in 1..(n + 1)
      OBVIOUS
    <3> QED BY <2>2, <3>1, <3>2, <3>3
  <2> QED BY <2>1, <2>2, <2>3 DEF CurrentPaths, Members
<1>4. ASSUME NEW o \in CurrentPaths' PROVE PathOK(path'[o], path_demotion_needed')
  <2>1. CASE o = p
    BY <2>1, NewPathFields, MultiPathAssumption DEF PathOK, Tracked, Worn
  <2>2. CASE o \in CurrentPaths
    BY <2>2 DEF IInv, PathOK, Tracked, Worn
  <2> QED BY <1>3, <2>1, <2>2
<1> QED BY <1>2, <1>4, PathsStep

(* The steps of the peer, the network and the application.                 *)
LEMMA PathStep ==
  ASSUME IInv, NEW p \in PathIds,
         \/ ProbePath(p) \/ \E old \in PathIds : NatRebinding(p, old)
         \/ PathChallengeReceived(p) \/ PathResponseReceived(p)
         \/ AckReceived(p) \/ LateAck(p) \/ AbandonPath(p) \/ PathAbandonFrame(p)
  PROVE  IInv' /\ cnx_state' = cnx_state
<1>1. /\ paths \in Seq(PathIds) /\ path \in [PathIds -> PathState]
      /\ path_demotion_needed \in BOOLEAN /\ cnx_state \in {"ready", "disconnected"}
  BY DEF IInv, PathsTyped
<1>2. PICK s \in PathState : s = path[p]
  BY <1>1
<1>3. p \in CurrentPaths => PathOK(s, path_demotion_needed)
  BY <1>2 DEF IInv
<1>4. CurrentPaths \subseteq PathIds
  BY <1>1, MembersType DEF CurrentPaths
<1>5. CASE ProbePath(p)
  <2>1. path' = [path EXCEPT ![p] = Challenged(NewPath)]
    BY <1>5 DEF ProbePath, Update
  <2>2. path' \in [PathIds -> PathState] /\ path'[p] = Challenged(NewPath)
    BY <1>1, <2>1, NewPathFields
  <2>3. \A o \in CurrentPaths : path'[o] = path[o]
    BY <1>1, <1>4, <1>5, <2>1 DEF ProbePath
  <2>4. p \in PathIds \ CurrentPaths /\ paths' = Append(paths, p)
        /\ UNCHANGED <<path_demotion_needed, cnx_state, orphaned, fault>>
    BY <1>5 DEF ProbePath, Update
  <2> QED BY <2>2, <2>3, <2>4, NewPathStep
<1>6. CASE \E old \in PathIds : NatRebinding(p, old)
  <2>1. PICK old \in PathIds : NatRebinding(p, old)
    BY <1>6
  <2>2. old \in CurrentPaths /\ p \notin CurrentPaths /\ old # p
    BY <2>1 DEF NatRebinding
  <2>3. path' = [path EXCEPT ![p] = Challenged(NewPath), ![old] = Challenged(@)]
    BY <2>1 DEF NatRebinding
  <2>4. \A o \in PathIds : path'[o] = IF o = p THEN Challenged(NewPath)
                                      ELSE IF o = old THEN Challenged(path[o]) ELSE path[o]
    BY <1>1, <2>2, <2>3
  <2>5. \A o \in PathIds : path[o] \in PathState
    BY <1>1
  <2>6. path' \in [PathIds -> PathState]
    BY <1>1, <2>3, <2>4, <2>5, NewPathFields, ChallengedFields
  <2>7. \A o \in CurrentPaths :
           /\ path'[o].challenge_failed = path[o].challenge_failed
           /\ path'[o].path_is_demoted = path[o].path_is_demoted
           /\ path'[o].nb_retransmit = path[o].nb_retransmit
    BY <1>4, <2>2, <2>4, <2>5, ChallengedFields
  <2>8. /\ paths' = Append(paths, p)
        /\ UNCHANGED <<path_demotion_needed, cnx_state, orphaned, fault>>
    BY <2>1 DEF NatRebinding
  <2> QED BY <2>2, <2>4, <2>6, <2>7, <2>8, NewPathStep
<1>7. CASE PathChallengeReceived(p)
  <2>1. PICK q : q = [s EXCEPT !.response_required = TRUE]
    OBVIOUS
  <2>2. /\ q \in PathState /\ q.challenge_failed = s.challenge_failed
        /\ q.path_is_demoted = s.path_is_demoted /\ q.nb_retransmit = s.nb_retransmit
    BY <2>1 DEF PathState
  <2>3. /\ p \in CurrentPaths /\ path' = [path EXCEPT ![p] = q]
        /\ UNCHANGED <<paths, path_demotion_needed, cnx_state, orphaned, fault>>
    BY <1>2, <1>7, <2>1 DEF PathChallengeReceived, Update
  <2>4. PathOK(q, path_demotion_needed')
    BY <1>3, <2>2, <2>3 DEF PathOK, Tracked, Worn
  <2> QED BY <1>1, <2>2, <2>3, <2>4, OnePath
<1>8. CASE PathResponseReceived(p)
  <2>1. PICK q : q = [s EXCEPT !.challenge_verified = TRUE, !.challenge_wait = 0]
    OBVIOUS
  <2>2. /\ q \in PathState /\ q.challenge_failed = s.challenge_failed
        /\ q.path_is_demoted = s.path_is_demoted /\ q.nb_retransmit = s.nb_retransmit
    BY <2>1 DEF PathState
  <2>3. /\ p \in CurrentPaths /\ path' = [path EXCEPT ![p] = q]
        /\ UNCHANGED <<paths, path_demotion_needed, cnx_state, orphaned, fault>>
    BY <1>2, <1>8, <2>1 DEF PathResponseReceived, Update
  <2>4. PathOK(q, path_demotion_needed')
    BY <1>3, <2>2, <2>3 DEF PathOK, Tracked, Worn
  <2> QED BY <1>1, <2>2, <2>3, <2>4, OnePath
<1>9. CASE AckReceived(p)
  <2>1. PICK newer \in BOOLEAN, rest \in BOOLEAN :
          Update(p, [path[p] EXCEPT !.nb_retransmit = IF newer THEN 0 ELSE @, !.in_transit = rest])
    BY <1>9 DEF AckReceived
  <2>2. PICK n \in {0, s.nb_retransmit} : n = IF newer THEN 0 ELSE s.nb_retransmit
    OBVIOUS
  <2>3. PICK q : q = [s EXCEPT !.nb_retransmit = n, !.in_transit = rest]
    OBVIOUS
  <2>4. n \in 0..(MaxRetransmit + 1) /\ n <= s.nb_retransmit /\ s.nb_retransmit \in Nat
    BY <2>2, MultiPathAssumption DEF PathState
  <2>5. /\ q \in PathState /\ q.challenge_failed = s.challenge_failed
        /\ q.path_is_demoted = s.path_is_demoted /\ q.nb_retransmit = n
    BY <2>3, <2>4 DEF PathState
  <2>6. /\ p \in CurrentPaths /\ path' = [path EXCEPT ![p] = q]
        /\ UNCHANGED <<paths, path_demotion_needed, cnx_state, orphaned, fault>>
    BY <1>2, <1>9, <2>1, <2>2, <2>3 DEF AckReceived, Update
  <2>7. PathOK(q, path_demotion_needed')
    BY <1>3, <2>4, <2>5, <2>6, MultiPathAssumption DEF PathOK, Tracked, Worn
  <2> QED BY <1>1, <2>5, <2>6, <2>7, OnePath
<1>10. CASE LateAck(p)
  <2>1. PICK q : q = [s EXCEPT !.nb_retransmit = 0]
    OBVIOUS
  <2>2. /\ q \in PathState /\ q.challenge_failed = s.challenge_failed
        /\ q.path_is_demoted = s.path_is_demoted /\ q.nb_retransmit = 0
    BY <2>1, MultiPathAssumption DEF PathState
  <2>3. /\ p \in CurrentPaths /\ path' = [path EXCEPT ![p] = q]
        /\ UNCHANGED <<paths, path_demotion_needed, cnx_state, orphaned, fault>>
    BY <1>2, <1>10, <2>1 DEF LateAck, Update
  <2>4. PathOK(q, path_demotion_needed')
    BY <1>3, <2>2, <2>3, MultiPathAssumption DEF PathOK, Tracked, Worn
  <2> QED BY <1>1, <2>2, <2>3, <2>4, OnePath
<1>11. CASE AbandonPath(p) \/ PathAbandonFrame(p)
  <2>1. /\ p \in CurrentPaths /\ path' = [path EXCEPT ![p] = Demoted(s)]
        /\ path_demotion_needed' = TRUE
        /\ UNCHANGED <<paths, cnx_state, orphaned, fault>>
    BY <1>2, <1>11 DEF AbandonPath, PathAbandonFrame, Update
  <2>2. PathOK(Demoted(s), path_demotion_needed')
    BY <1>3, <2>1, DemotedFields DEF PathOK, Tracked, Worn
  <2>3. Demoted(s) \in PathState
    BY DemotedFields
  <2> QED BY <1>1, <2>1, <2>2, <2>3, OnePath
<1> QED BY <1>5, <1>6, <1>7, <1>8, <1>9, <1>10, <1>11

(* picoquic_notify_destination_unreachable disconnects when every other    *)
(* path is demoted, and this one is now.                                   *)
LEMMA UnreachableStep ==
  ASSUME IInv, NEW p \in PathIds, Unreachable(p)
  PROVE  IInv' /\ (cnx_state' # cnx_state => \A q \in CurrentPaths' : ~Usable(path'[q]))
<1>1. /\ path \in [PathIds -> PathState] /\ path_demotion_needed \in BOOLEAN
      /\ CurrentPaths \subseteq PathIds
  BY MembersType DEF IInv, PathsTyped, CurrentPaths
<1>2. PICK s \in PathState : s = path[p]
  BY <1>1
<1>3. PICK q : q = [s EXCEPT !.path_is_demoted = TRUE, !.demotion_wait = 0]
  OBVIOUS
<1>4. /\ q \in PathState /\ q.challenge_failed = s.challenge_failed
      /\ q.path_is_demoted /\ q.nb_retransmit = s.nb_retransmit
  BY <1>3 DEF PathState
<1>5. /\ p \in CurrentPaths /\ path' = [path EXCEPT ![p] = q]
      /\ path_demotion_needed' = TRUE /\ UNCHANGED <<paths, orphaned, fault>>
      /\ cnx_state' = IF \A o \in CurrentPaths \ {p} : path[o].path_is_demoted
                      THEN "disconnected" ELSE "ready"
      /\ cnx_state = "ready"
  BY <1>2, <1>3 DEF Unreachable, Update, Running
<1>6. PathOK(q, path_demotion_needed')
  BY <1>2, <1>4, <1>5 DEF IInv, PathOK, Tracked, Worn
<1>7. cnx_state' \in {"ready", "disconnected"}
  BY <1>5
<1>8. IInv'
  BY <1>1, <1>4, <1>5, <1>6, <1>7, OnePath
<1>9. ASSUME cnx_state' # cnx_state, NEW o \in CurrentPaths' PROVE ~Usable(path'[o])
  <2>1. o \in CurrentPaths /\ o \in PathIds
    BY <1>1, <1>5 DEF CurrentPaths
  <2>2. path'[o] = IF o = p THEN q ELSE path[o]
    BY <1>1, <1>5, <2>1
  <2>3. o # p => path[o].path_is_demoted
    BY <1>5, <1>9, <2>1
  <2> QED BY <1>4, <2>2, <2>3 DEF Usable
<1> QED BY <1>8, <1>9

(* Time passes.                                                            *)
LEMMA TickStep ==
  ASSUME IInv, Tick
  PROVE  IInv' /\ cnx_state' = cnx_state
<1>1. /\ path \in [PathIds -> PathState] /\ CurrentPaths \subseteq PathIds
  BY MembersType DEF IInv, PathsTyped, CurrentPaths
<1> DEFINE after(p) == [path[p] EXCEPT !.challenge_wait = CountDown(@), !.demotion_wait = CountDown(@)]
<1>2. path' = [p \in PathIds |-> after(p)]
  BY DEF Tick
<1>3. ASSUME NEW p \in PathIds
      PROVE  /\ after(p) \in PathState /\ after(p).challenge_failed = path[p].challenge_failed
             /\ after(p).path_is_demoted = path[p].path_is_demoted
             /\ after(p).nb_retransmit = path[p].nb_retransmit
  <2>1. PICK s \in PathState : s = path[p]
    BY <1>1
  <2>2. PICK a \in Nat, b \in Nat : a = CountDown(s.challenge_wait) /\ b = CountDown(s.demotion_wait)
    <3>1. s.challenge_wait \in Nat /\ s.demotion_wait \in Nat
      BY DEF PathState
    <3> QED BY <3>1 DEF CountDown
  <2>3. PICK q : q = [s EXCEPT !.challenge_wait = a, !.demotion_wait = b]
    OBVIOUS
  <2>4. after(p) = q
    BY <2>1, <2>2, <2>3, Zenon
  <2>5. /\ q \in PathState /\ q.challenge_failed = s.challenge_failed
        /\ q.path_is_demoted = s.path_is_demoted /\ q.nb_retransmit = s.nb_retransmit
    BY <2>3 DEF PathState
  <2> QED BY <2>1, <2>4, <2>5
<1> HIDE DEF after
<1>4. path' \in [PathIds -> PathState] /\ \A p \in PathIds : path'[p] = after(p)
  BY <1>2, <1>3
<1>5. UNCHANGED <<paths, path_demotion_needed, cnx_state, orphaned, fault>>
  BY DEF Tick
<1>6. PathsTyped'
  BY <1>4, <1>5 DEF IInv, PathsTyped
<1>7. ASSUME NEW p \in CurrentPaths' PROVE PathOK(path'[p], path_demotion_needed')
  <2>1. p \in CurrentPaths /\ p \in PathIds
    BY <1>1, <1>5 DEF CurrentPaths
  <2>2. PathOK(path[p], path_demotion_needed)
    BY <2>1 DEF IInv
  <2> QED BY <1>3, <1>4, <1>5, <2>1, <2>2 DEF PathOK, Tracked, Worn
<1> QED BY <1>5, <1>6, <1>7, PathsStep

-----------------------------------------------------------------------------
(* The handshake leaves one path, which is usable.                         *)
LEMMA Initially == Init => IInv
<1> SUFFICES ASSUME Init PROVE IInv
  OBVIOUS
<1>1. PICK p \in PathIds : paths = <<p>>
  BY DEF Init
<1>2. paths \in Seq(PathIds) /\ CurrentPaths = {p}
  BY <1>1 DEF CurrentPaths, Members
<1>3. PICK first : first = [NewPath EXCEPT !.challenge_verified = TRUE]
  OBVIOUS
<1>4. /\ first \in PathState /\ ~first.challenge_failed /\ ~first.path_is_demoted
      /\ first.nb_retransmit = 0
  <2>1. NewPath \in PathState /\ ~NewPath.challenge_failed /\ ~NewPath.path_is_demoted
        /\ NewPath.nb_retransmit = 0
    BY NewPathFields
  <2>2. first \in PathState
    BY <1>3, <2>1, Zenon DEF PathState
  <2>3. /\ first.challenge_failed = NewPath.challenge_failed
        /\ first.path_is_demoted = NewPath.path_is_demoted
        /\ first.nb_retransmit = NewPath.nb_retransmit
    BY <1>3, Zenon DEF NewPath
  <2> QED BY <2>1, <2>2, <2>3
<1>5. path = [o \in PathIds |-> IF o = p THEN first ELSE NewPath]
  BY <1>1, <1>3 DEF Init
<1>6. path \in [PathIds -> PathState] /\ path[p] = first
  BY <1>4, <1>5, NewPathFields
<1>7. PathsTyped
  BY <1>2, <1>6 DEF Init, PathsTyped
<1>8. PathOK(path[p], path_demotion_needed)
  BY <1>4, <1>6, MultiPathAssumption DEF PathOK, Tracked, Worn
<1> QED BY <1>2, <1>7, <1>8 DEF IInv

(* Every step keeps the invariant, and gives the connection up only when   *)
(* no path is usable.                                                      *)
LEMMA Inductive ==
  IInv /\ [Next]_vars
    => IInv' /\ (cnx_state' # cnx_state => \A p \in CurrentPaths' : ~Usable(path'[p]))
<1> SUFFICES ASSUME IInv, [Next]_vars
             PROVE  IInv' /\ (cnx_state' # cnx_state => \A p \in CurrentPaths' : ~Usable(path'[p]))
  OBVIOUS
<1>1. CASE \E next \in {0, 1} : Prepare(next, TRUE)
  BY <1>1, PrepareStep
<1>2. ASSUME NEW p \in PathIds,
             \/ ProbePath(p) \/ \E old \in PathIds : NatRebinding(p, old)
             \/ PathChallengeReceived(p) \/ PathResponseReceived(p)
             \/ AckReceived(p) \/ LateAck(p) \/ AbandonPath(p) \/ PathAbandonFrame(p)
      PROVE  IInv' /\ cnx_state' = cnx_state
  BY <1>2, PathStep
<1>3. ASSUME NEW p \in PathIds, Unreachable(p)
      PROVE  IInv' /\ (cnx_state' # cnx_state => \A q \in CurrentPaths' : ~Usable(path'[q]))
  BY <1>3, UnreachableStep
<1>4. CASE AckOrphan
  BY <1>4 DEF AckOrphan, IInv, PathsTyped, CurrentPaths
<1>5. CASE Tick
  BY <1>5, TickStep
<1>6. CASE UNCHANGED vars
  BY <1>6 DEF vars, IInv, PathsTyped, CurrentPaths
<1>7. CASE Usual
  BY <1>1, <1>2, <1>4, <1>5, <1>7 DEF Usual
<1>8. CASE Rare
  <2> PICK p \in PathIds : \/ \E old \in PathIds : NatRebinding(p, old)
                          \/ AbandonPath(p) \/ PathAbandonFrame(p) \/ Unreachable(p)
    BY <1>8 DEF Rare
  <2>1. CASE Unreachable(p)
    BY <1>3, <2>1
  <2>2. CASE ~Unreachable(p)
    BY <1>2, <2>2
  <2> QED BY <2>1, <2>2
<1> QED BY <1>6, <1>7, <1>8 DEF Next

(* The invariant.                                                          *)
THEOREM Invariance == Spec => []IInv
<1> QED BY Initially, Inductive, PTL DEF Spec

(* picoquic_demote_path, picoquic_delete_abandoned_paths: a path that has  *)
(* failed or is demoted is never left without path_demotion_needed, which  *)
(* alone makes a later call delete it.                                     *)
THEOREM DemotionAlwaysTracked == Spec => []DemotionTracked
<1>1. IInv => DemotionTracked
  BY DEF IInv, DemotionTracked, PathOK, Tracked
<1> QED BY <1>1, Invariance, PTL

(* A connection is disconnected for lack of an answer only when no path of *)
(* the table is validated, not failed and not demoted: the test of all     *)
(* paths against the limit of timeouts, the failed challenge of path[0]    *)
(* and the unreachable destination overlook none.                          *)
THEOREM DisconnectsOnlyWhenNoneUsable == Spec => DisconnectOnlyWhenNoneUsable
<1>1. IInv /\ [Next]_vars
        => [GivesUpLast]_vars
  BY Inductive DEF GivesUpLast
<1> QED BY <1>1, Invariance, PTL DEF Spec, DisconnectOnlyWhenNoneUsable
=============================================================================
