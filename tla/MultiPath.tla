------------------------------ MODULE MultiPath ------------------------------
(***************************************************************************)
(* The paths of a connection in simple multipath mode: validation by       *)
(* challenges, scheduling (picoquic_select_next_path_mp), retransmission   *)
(* limits, demotion and deletion.  One call of picoquic_prepare_packet_ex  *)
(* is one step; between calls the peer, the network and the application    *)
(* act.                                                                    *)
(*                                                                         *)
(* Abstracted: pacing, windows, RTTs and times of the last packet decide   *)
(* only among the paths that are eligible, so any of those may be chosen;  *)
(* a path has packets in transit or has none; timers count down.  The code *)
(* never sets path_priority, which is left out.                            *)
(***************************************************************************)
EXTENDS Integers, Sequences, FiniteSets

CONSTANTS
  PathIds,         (* addresses of path objects                            *)
  Tonopah,         (* the algorithm is Tonopah or New Tonopah              *)
  RepeatMax,       (* PICOQUIC_CHALLENGE_REPEAT_MAX (3)                    *)
  MaxRetransmit,   (* timeouts in a row that a path survives (7)           *)
  MaxPaths,        (* PICOQUIC_NB_PATH_TARGET (8)                          *)
  ShortWait,       (* wait after the first challenge                       *)
  LongWait,        (* wait after the next ones                             *)
  DemotionDelay,   (* 3 * demote_timer                                     *)
  Events,          (* bound: the rare events that happen, of RareEvents    *)
  Watched          (* bound: the paths the liveness properties are about;  *)
                   (* path objects are interchangeable, so one is enough   *)

RareEvents == {"idle", "nat", "abandon", "abandon_frame", "unreachable"}

ASSUME MultiPathAssumption ==
  /\ Tonopah \in BOOLEAN
  /\ RepeatMax \in Nat /\ MaxRetransmit \in Nat /\ MaxPaths \in Nat
  /\ ShortWait \in Nat /\ LongWait \in Nat /\ DemotionDelay \in Nat
  /\ Events \subseteq RareEvents /\ Watched \subseteq PathIds

VARIABLES
  paths,                  (* cnx->path[0..nb_paths-1], from index 1 here   *)
  path,                   (* the picoquic_path_t of each address           *)
  path_demotion_needed,
  cnx_state,
  orphaned,               (* a packet in transit whose path was deleted    *)
  fault                   (* picoquic_prepare_packet_ex finds no path      *)

vars == <<paths, path, path_demotion_needed, cnx_state, orphaned, fault>>

PathState ==
  [challenge_required : BOOLEAN, challenge_verified : BOOLEAN, challenge_failed : BOOLEAN,
   challenge_repeat_count : 0..RepeatMax, challenge_wait : Nat,
   response_required : BOOLEAN, path_is_demoted : BOOLEAN, demotion_wait : Nat,
   is_multipath_probe_needed : BOOLEAN,
   nb_retransmit : 0..(MaxRetransmit + 1), in_transit : BOOLEAN]

NewPath ==
  [challenge_required |-> FALSE, challenge_verified |-> FALSE, challenge_failed |-> FALSE,
   challenge_repeat_count |-> 0, challenge_wait |-> 0,
   response_required |-> FALSE, path_is_demoted |-> FALSE, demotion_wait |-> 0,
   is_multipath_probe_needed |-> FALSE,
   nb_retransmit |-> 0, in_transit |-> FALSE]

(* The handshake is complete on the first path, which needs no challenge.  *)
Init ==
  /\ \E p \in PathIds : paths = <<p>>
  /\ path = [p \in PathIds |->
               IF p = paths[1] THEN [NewPath EXCEPT !.challenge_verified = TRUE] ELSE NewPath]
  /\ path_demotion_needed = FALSE
  /\ cnx_state = "ready"
  /\ orphaned = FALSE
  /\ fault = FALSE

Members(order) == {order[i] : i \in 1..Len(order)}

CurrentPaths == Members(paths)

Running == cnx_state = "ready" /\ ~fault

Usable(s) == s.challenge_verified /\ ~s.challenge_failed /\ ~s.path_is_demoted

(* picoquic_demote_path *)
Demoted(s) ==
  IF s.path_is_demoted THEN s
  ELSE [s EXCEPT !.path_is_demoted = TRUE, !.demotion_wait = DemotionDelay]

(* picoquic_set_path_challenge *)
Challenged(s) ==
  IF s.challenge_required /\ ~s.challenge_verified THEN s
  ELSE [s EXCEPT !.challenge_required = TRUE, !.challenge_verified = FALSE,
                 !.challenge_wait = 0, !.challenge_repeat_count = 0]

(* picoquic_next_challenge_time has come.                                  *)
ChallengeDue(s) == s.challenge_repeat_count = 0 \/ s.challenge_wait = 0

-----------------------------------------------------------------------------
(* picoquic_delete_abandoned_paths: failed paths and idle ones other than  *)
(* path[0] are demoted, and those whose demotion time has come are deleted *)
(* with the queues of their packets.                                       *)

(* Paths that may have been idle for the idle timeout.                     *)
MayIdle ==
  {p \in CurrentPaths : "idle" \in Events /\ p # paths[1] /\ path[p].challenge_verified}

Swept(idle) ==
  [p \in PathIds |->
     IF p \in CurrentPaths /\ (path[p].challenge_failed \/ p \in idle) THEN Demoted(path[p])
     ELSE path[p]]

Expired(s) == s.path_is_demoted /\ s.demotion_wait = 0

(* The places of the paths that stay, in the order of the table: the only  *)
(* sequence of this kind.                                                  *)
Staying(st) ==
  LET places == {i \in 1..Len(paths) : ~Expired(st[paths[i]])}
  IN  {kept \in [1..Cardinality(places) -> places] :
         \A k \in DOMAIN kept, l \in DOMAIN kept : k < l => kept[k] < kept[l]}

(* Mutant: paths that wait for their demotion time do not count.           *)
Packed_Forgetful(st) ==
  {[order  |-> [k \in DOMAIN kept |-> paths[kept[k]]],
    st     |-> [p \in PathIds |-> IF p \in CurrentPaths /\ Expired(st[p]) THEN NewPath ELSE st[p]],
    needed |-> \E p \in CurrentPaths : Expired(st[p])] : kept \in Staying(st)}

(* What the steps of a call hand on, a view: the table of paths, their     *)
(* state and path_demotion_needed.                                         *)
Packed(st) ==
  {[order  |-> [k \in DOMAIN kept |-> paths[kept[k]]],
    st     |-> [p \in PathIds |-> IF p \in CurrentPaths /\ Expired(st[p]) THEN NewPath ELSE st[p]],
    needed |-> \E p \in CurrentPaths : st[p].path_is_demoted] : kept \in Staying(st)}

AfterDeletion ==
  IF path_demotion_needed
  THEN UNION {Packed(Swept(idle)) : idle \in SUBSET MayIdle}
  ELSE {[order |-> paths, st |-> path, needed |-> FALSE]}

-----------------------------------------------------------------------------
(* picoquic_select_next_path_mp on the view v, where next is the random    *)
(* choice next_path of Tonopah (0 or 1).                                   *)

Paired(v) == Tonopah /\ Len(v.order) = 2

(* Mutant: the loop always starts at the last path.                        *)
Upwards_Never(v, next) == FALSE

Upwards(v, next) == Paired(v) /\ next = 0

(* The loop ends at a path that must send a response, a challenge or a     *)
(* probe.                                                                  *)
Probes(s) == s.challenge_verified /\ s.nb_retransmit > 0 /\ ~s.in_transit

Stops(s) ==
  /\ ~s.path_is_demoted /\ ~s.challenge_failed
  /\ \/ s.response_required
     \/ s.challenge_required /\ ~s.challenge_verified /\ ChallengeDue(s)
     \/ Probes(s)

StopAt(v, next) ==
  {i \in 1..Len(v.order) :
     /\ Stops(v.st[v.order[i]])
     /\ \A j \in 1..Len(v.order) :
          Stops(v.st[v.order[j]]) => IF Upwards(v, next) THEN i <= j ELSE j <= i}

Visited(v, next) ==
  {i \in 1..Len(v.order) :
     \A j \in 1..Len(v.order) :
       Stops(v.st[v.order[j]]) => IF Upwards(v, next) THEN i <= j ELSE j <= i}

(* Candidates for data: validated paths with the fewest timeouts.          *)
Candidates(v) ==
  {i \in 1..Len(v.order) :
     /\ Usable(v.st[v.order[i]])
     /\ \A j \in 1..Len(v.order) :
          Usable(v.st[v.order[j]])
            => v.st[v.order[i]].nb_retransmit <= v.st[v.order[j]].nb_retransmit}

(* The paths that may be selected: the one the loop stops at, or a         *)
(* candidate.  Without a candidate that pacing allows, it is the first     *)
(* path, or next_path with Tonopah.                                        *)
Fallback(v, next) == IF Paired(v) THEN next + 1 ELSE 1

Selectable(v, next) ==
  IF \E i \in 1..Len(v.order) : Stops(v.st[v.order[i]]) THEN StopAt(v, next)
  ELSE Candidates(v) \cup {Fallback(v, next)}

(* Failed paths on the way are demoted; a stop for a probe asks for it.    *)
VisitedPath(v, next, i) ==
  LET s == v.st[v.order[i]]
  IN  IF i \notin Visited(v, next) THEN s
      ELSE IF s.challenge_failed THEN Demoted(s)
      ELSE IF i \in StopAt(v, next) /\ ~s.response_required /\ Probes(s)
           THEN [s EXCEPT !.is_multipath_probe_needed = TRUE] ELSE s

Scheduled(v, next) ==
  [v EXCEPT
     !.st = [p \in PathIds |->
               IF p \in Members(v.order)
               THEN VisitedPath(v, next, CHOOSE i \in 1..Len(v.order) : v.order[i] = p)
               ELSE v.st[p]],
     !.needed = @ \/ \E i \in Visited(v, next) :
                       LET s == v.st[v.order[i]]
                       IN  s.challenge_failed /\ ~s.path_is_demoted]

-----------------------------------------------------------------------------
(* picoquic_retransmit_needed: what it finds among the packets of a path.  *)
(* "repeat" is a loss seen from ACKs, "timer" a timeout.  A timeout that   *)
(* is not counted (it is of the same event, or of packets older than one   *)
(* acknowledged) has the effect of a repeat, unless the limit is exceeded  *)
(* already, when counting makes no difference.  The packets of deleted     *)
(* paths are in no queue it looks at.                                      *)

LossKinds == {"none", "repeat", "timer"}

Lost(loss) == {p \in DOMAIN loss : loss[p] # "none"}

Losses(v) ==
  {loss \in [Members(v.order) -> LossKinds] :
     /\ Lost(loss) # {}
     /\ \A p \in Lost(loss) : v.st[p].in_transit}

NbRetransmit(s, kind) ==
  IF kind = "timer" /\ s.nb_retransmit <= MaxRetransmit THEN s.nb_retransmit + 1
  ELSE s.nb_retransmit

TooMany(s, kind) == kind = "timer" /\ NbRetransmit(s, kind) > MaxRetransmit

(* rest: the lossy paths that keep other packets in transit.               *)
AfterLoss(v, loss, rest) ==
  [v EXCEPT
     !.st = [p \in PathIds |->
               IF p \notin Members(v.order) THEN v.st[p]
               ELSE [v.st[p] EXCEPT
                       !.nb_retransmit = NbRetransmit(v.st[p], loss[p]),
                       !.challenge_failed = @ \/ TooMany(v.st[p], loss[p]),
                       !.in_transit = @ /\ (loss[p] = "none" \/ p \in rest)]],
     !.needed = @ \/ \E p \in Members(v.order) : TooMany(v.st[p], loss[p])]

(* A timeout on a path that exceeds the limit disconnects when every path  *)
(* of the table, demoted or not, exceeds it.                               *)
AllPathsBad(v) == \A p \in Members(v.order) : v.st[p].nb_retransmit > MaxRetransmit

TimedOut(v, loss) ==
  /\ \E p \in Members(v.order) :
       loss[p] = "timer" /\ v.st[p].nb_retransmit > MaxRetransmit
  /\ AllPathsBad(v)

-----------------------------------------------------------------------------
(* The frames of picoquic_prepare_packet_ready on the selected path x when *)
(* nothing is retransmitted.                                               *)

MustChallenge(s) == ~s.challenge_verified /\ ~s.challenge_failed /\ ChallengeDue(s)

GivesUp(s) == MustChallenge(s) /\ s.challenge_repeat_count >= RepeatMax

SentChallenge(s) ==
  IF MustChallenge(s) /\ ~GivesUp(s)
  THEN [s EXCEPT !.challenge_repeat_count = @ + 1,
                 !.challenge_wait = IF s.challenge_repeat_count + 1 >= 2 THEN LongWait ELSE ShortWait,
                 !.in_transit = TRUE]
  ELSE s

(* Mutant: the search for another path skips the second.                   *)
Alternates_FromThird(v) == {i \in 3..Len(v.order) : ~v.st[v.order[i]].challenge_failed}

(* A first path that gives up changes places with the first other path     *)
(* that has not failed.                                                    *)
Alternates(v) == {i \in 2..Len(v.order) : ~v.st[v.order[i]].challenge_failed}

Promoted(v) ==
  {i \in Alternates(v) : \A j \in Alternates(v) : i <= j}

Swapped(v, x) ==
  [k \in 1..Len(v.order) |->
     IF x # v.order[1] \/ Promoted(v) = {} THEN v.order[k]
     ELSE IF k = 1 THEN v.order[CHOOSE i \in Promoted(v) : TRUE]
     ELSE IF k \in Promoted(v) THEN x
     ELSE v.order[k]]

NoAlternative(v, x) == x = v.order[1] /\ Promoted(v) = {}

(* The response and the probe, and data if the path is validated.          *)
SentFrames(s, data) ==
  [s EXCEPT !.response_required = FALSE,
            !.is_multipath_probe_needed = FALSE,
            !.in_transit = @ \/ s.response_required \/ s.is_multipath_probe_needed
                             \/ (s.challenge_verified /\ data)]

Ended(v, x) == GivesUp(v.st[x]) /\ NoAlternative(v, x)

Framed(v, x, data) ==
  LET s == v.st[x]
      failing == GivesUp(s) /\ ~NoAlternative(v, x)
  IN  [order  |-> IF GivesUp(s) THEN Swapped(v, x) ELSE v.order,
       st     |-> [v.st EXCEPT ![x] =
                     [SentFrames(SentChallenge(s), data)
                        EXCEPT !.challenge_failed = @ \/ failing]],
       needed |-> v.needed \/ failing]

Resent(v, x) == [v EXCEPT !.st[x].in_transit = TRUE]

-----------------------------------------------------------------------------
(* picoquic_prepare_packet_ex, one packet per call: deletion, selection of *)
(* the path, and either a retransmission or new frames.  The outcomes are  *)
(* views with the flag dead: the connection is given up.                   *)

Dead(v, dead) == [order |-> v.order, st |-> v.st, needed |-> v.needed, dead |-> dead]

Repeated(w, x, loss) == Dead(Resent(w, x), TimedOut(w, loss))

Fresh(w, x, data) == Dead(Framed(w, x, data), Ended(w, x))

(* What may be sent on x after losses, and without any.                    *)
LossOutcomes(w, x, loss) ==
  {Repeated(w, x, loss)}
    \cup (IF TimedOut(w, loss) THEN {Dead(Framed(w, x, FALSE), TRUE)}
          ELSE {Fresh(w, x, data) : data \in BOOLEAN})

CalmOutcomes(w, x) == {Fresh(w, x, data) : data \in BOOLEAN}

Lossy(w, x) ==
  UNION {UNION {LossOutcomes(after, x, loss) :
                  after \in {AfterLoss(w, loss, rest) : rest \in SUBSET Lost(loss)}} :
           loss \in Losses(w)}

PrepareOutcomes(v, next, lossy) ==
  UNION {UNION {CalmOutcomes(w, x) \cup (IF lossy THEN Lossy(w, x) ELSE {}) :
                  x \in {v.order[i] : i \in Selectable(v, next)}} :
           w \in {Scheduled(v, next)}}

Orphans(v) == \E p \in CurrentPaths \ Members(v.order) : path[p].in_transit

Prepare(next, lossy) ==
  /\ Running
  /\ \E v \in AfterDeletion :
       /\ orphaned' = (orphaned \/ Orphans(v))
       /\ fault' = (v.order = << >>)
       /\ \E r \in (IF v.order = << >> THEN {Dead(v, FALSE)} ELSE PrepareOutcomes(v, next, lossy)) :
            /\ paths' = r.order
            /\ path' = r.st
            /\ path_demotion_needed' = r.needed
            /\ cnx_state' = IF r.dead THEN "disconnected" ELSE "ready"

-----------------------------------------------------------------------------
(* What happens between two calls.                                         *)

Update(p, s) ==
  /\ path' = [path EXCEPT ![p] = s]
  /\ UNCHANGED <<orphaned, fault>>

(* picoquic_probe_new_path_ex, or the peer's first packet on a new path.   *)
ProbePath(p) ==
  /\ Running
  /\ p \notin CurrentPaths /\ Len(paths) < MaxPaths
  /\ paths' = Append(paths, p)
  /\ Update(p, Challenged(NewPath))
  /\ UNCHANGED <<path_demotion_needed, cnx_state>>

(* picoquic_find_incoming_path: a new address with a connection ID that an *)
(* old path uses; both are challenged.                                     *)
NatRebinding(p, old) ==
  /\ Running /\ "nat" \in Events
  /\ p \notin CurrentPaths /\ old \in CurrentPaths /\ Len(paths) < MaxPaths
  /\ paths' = Append(paths, p)
  /\ path' = [path EXCEPT ![p] = Challenged(NewPath), ![old] = Challenged(@)]
  /\ UNCHANGED <<path_demotion_needed, cnx_state, orphaned, fault>>

PathChallengeReceived(p) ==
  /\ Running /\ p \in CurrentPaths
  /\ Update(p, [path[p] EXCEPT !.response_required = TRUE])
  /\ UNCHANGED <<paths, path_demotion_needed, cnx_state>>

(* The response is to any of the challenges sent; the path may have failed *)
(* or been demoted meanwhile.  The wait for a next challenge is over.      *)
PathResponseReceived(p) ==
  /\ Running /\ p \in CurrentPaths
  /\ path[p].challenge_repeat_count > 0
  /\ Update(p, [path[p] EXCEPT !.challenge_verified = TRUE, !.challenge_wait = 0])
  /\ UNCHANGED <<paths, path_demotion_needed, cnx_state>>

(* picoquic_process_ack_range; newer: the ACK is of a later packet than    *)
(* all before, rest: other packets remain in transit.                      *)
AckReceived(p) ==
  /\ Running /\ p \in CurrentPaths
  /\ path[p].in_transit
  /\ \E newer \in BOOLEAN, rest \in BOOLEAN :
       Update(p, [path[p] EXCEPT !.nb_retransmit = IF newer THEN 0 ELSE @, !.in_transit = rest])
  /\ UNCHANGED <<paths, path_demotion_needed, cnx_state>>

(* The ACK of a packet that was declared lost.                             *)
LateAck(p) ==
  /\ Running /\ p \in CurrentPaths
  /\ path[p].nb_retransmit > 0
  /\ Update(p, [path[p] EXCEPT !.nb_retransmit = 0])
  /\ UNCHANGED <<paths, path_demotion_needed, cnx_state>>

AckOrphan ==
  /\ Running /\ orphaned
  /\ orphaned' = FALSE
  /\ UNCHANGED <<paths, path, path_demotion_needed, cnx_state, fault>>

(* picoquic_abandon_path                                                   *)
AbandonPath(p) ==
  /\ Running /\ "abandon" \in Events
  /\ p \in CurrentPaths /\ Len(paths) # 1 /\ ~path[p].path_is_demoted
  /\ Update(p, Demoted(path[p]))
  /\ path_demotion_needed' = TRUE
  /\ UNCHANGED <<paths, cnx_state>>

(* picoquic_decode_path_abandon_frame: any path, the last one too.         *)
PathAbandonFrame(p) ==
  /\ Running /\ "abandon_frame" \in Events
  /\ p \in CurrentPaths /\ ~path[p].path_is_demoted
  /\ Update(p, Demoted(path[p]))
  /\ path_demotion_needed' = TRUE
  /\ UNCHANGED <<paths, cnx_state>>

(* picoquic_notify_destination_unreachable                                 *)
Unreachable(p) ==
  /\ Running /\ "unreachable" \in Events
  /\ p \in CurrentPaths
  /\ Update(p, [path[p] EXCEPT !.path_is_demoted = TRUE, !.demotion_wait = 0])
  /\ path_demotion_needed' = TRUE
  /\ cnx_state' = IF \A q \in CurrentPaths \ {p} : path[q].path_is_demoted
                  THEN "disconnected" ELSE "ready"
  /\ UNCHANGED paths

CountDown(n) == IF n > 0 THEN n - 1 ELSE 0

Tick ==
  /\ Running
  /\ \E p \in CurrentPaths : path[p].challenge_wait > 0 \/ path[p].demotion_wait > 0
  /\ path' = [p \in PathIds |->
                [path[p] EXCEPT !.challenge_wait = CountDown(@), !.demotion_wait = CountDown(@)]]
  /\ UNCHANGED <<paths, path_demotion_needed, cnx_state, orphaned, fault>>

Usual ==
  \/ \E next \in {0, 1} : Prepare(next, TRUE)
  \/ \E p \in PathIds :
       \/ ProbePath(p)
       \/ PathChallengeReceived(p)
       \/ PathResponseReceived(p)
       \/ AckReceived(p)
       \/ LateAck(p)
  \/ AckOrphan
  \/ Tick

Rare ==
  \E p \in PathIds :
    \/ \E old \in PathIds : NatRebinding(p, old)
    \/ AbandonPath(p)
    \/ PathAbandonFrame(p)
    \/ Unreachable(p)

Next == Usual \/ Rare

Spec == Init /\ [][Next]_vars

(* Time passes, the loop keeps calling (picoquic_prepare_packet_ex         *)
(* reinserts the connection by wake time), a call that finds no loss comes *)
(* again and again, and so does each of the two random choices.            *)
Fairness ==
  /\ WF_vars(Tick)
  /\ WF_vars(Prepare(0, FALSE))
  /\ WF_vars(Prepare(1, FALSE))

FairSpec == Spec /\ Fairness

-----------------------------------------------------------------------------
(* Properties.                                                             *)

(* While a path of the table has failed or is demoted,                     *)
(* path_demotion_needed is set: otherwise no later call would delete it.   *)
DemotionTracked ==
  (\E p \in CurrentPaths : path[p].challenge_failed \/ path[p].path_is_demoted)
    => path_demotion_needed

(* picoquic gives up the connection (too many challenges, too many         *)
(* retransmissions, unreachable) only when no path of the table is         *)
(* validated, not failed and not demoted.                                  *)
GivesUpLast == cnx_state' # cnx_state => \A p \in CurrentPaths' : ~Usable(path'[p])
DisconnectOnlyWhenNoneUsable == [][GivesUpLast]_vars

(* A challenge is answered or given up: every path that waits for its      *)
(* validation is validated, fails or leaves, whatever the other path does. *)
ChallengeDecided ==
  \A p \in Watched :
    (p \in CurrentPaths /\ ~path[p].challenge_verified)
      ~> (p \notin CurrentPaths \/ path[p].challenge_verified \/ path[p].challenge_failed
          \/ ~Running)

(* A path that is demoted is deleted in the end.                           *)
DemotedLeave ==
  \A p \in Watched :
    (p \in CurrentPaths /\ path[p].path_is_demoted) ~> (p \notin CurrentPaths \/ ~Running)

(* architecture.md: the stack will "either switch to an alternate path if  *)
(* one is available, or terminate the connection otherwise".               *)
PathOrTermination == ~fault

(* sender.c, of a packet whose sending path has been deleted: "the packet  *)
(* should be retransmitted immediately".                                   *)
OrphansRetransmitted == orphaned ~> (~orphaned \/ ~Running)
=============================================================================
