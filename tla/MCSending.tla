------------------------------ MODULE MCSending ------------------------------
(* One run of what decides how, and how much, packets are sent: the keys   *)
(* and numbers of packets, the MTU and the pacing of a path, and the       *)
(* congestion controls that keep their state to themselves: New Reno,      *)
(* Cubic, dcubic and Fast (CongestionControls), BBR, the older Tonopah,    *)
(* and New Tonopah when a process has two connections, one after the       *)
(* other.  Each behaviour is one of one of them; the variables of the      *)
(* others stay as Init has them.  The two Tonopahs share variables.        *)
EXTENDS KeyRotation, PathMtu, Pacing, Sequences

VARIABLES
  which,                                                       \* the part of the behaviour
  alg, cc, boost, env, cut,                                    \* CongestionControls
  b, bbr_cwin, entry,                                          \* Bbr
  nb_paths, known, dominant, intervals, last_change, nrss,     \* Tonopah
  cwin, seq, acked, now,
  paths, path1, path2, srtt, fault, cnx, ready, marks, reduced \* NewTonopah besides

ccVars == <<alg, cc, boost, env, cut>>
bbrVars == <<b, bbr_cwin, entry>>
tonopahVars == <<nb_paths, known, dominant, intervals, last_change, nrss, cwin, seq, acked, now>>
newVars == <<paths, path1, path2, srtt, fault, cnx, ready, marks, reduced>>

C == INSTANCE CongestionControls WITH
       Mtu <- 4, CwinInitial <- 16, CwinMinimum <- 8, Unset <- 1023, Srtt <- 8, Scope <- 1, K <- 8,
       Period <- 3, NbPeriod <- 2, Repeats <- 2, DelayMax <- 3, Step <- 4,
       Algorithms <- {"newreno", "cubic", "dcubic", "fast"},
       SeedAlgorithms <- {"newreno", "dcubic", "fast"},
       Rtts <- {8, 12}, Windows <- {0, 40}, Boosts <- {0, 24},
       MaxTime <- 16, MaxSent <- 3, MaxCwin <- 40

ASSUME ControlsAssumed == C!CcAssumption /\ C!CubicAssumption /\ C!FastAssumption /\ C!ControlsAssumption

B == INSTANCE Bbr WITH
       CwinMin <- 2, MinPipe <- 3, CwinInitial <- 5, CycleLen <- 4, MaxStart <- 1, NormalStart <- 1,
       LtMin <- 1, LtMax <- 1, LtUse <- 1, Targets <- {5}, Seeds <- {2}, MaxCwin <- 5,
       cwin <- bbr_cwin

T == INSTANCE Tonopah WITH
       Required <- 1, IntervalTime <- 0, CwinMin <- 2, CwinInitial <- 4, Unlimited <- 1000, Rtt <- 1,
       Growth <- {0}, Seeds <- {5}, MaxCwin <- 5, MaxTime <- 4, MaxSeq <- 4, MaxAcks <- 2

N == INSTANCE NewTonopah WITH
       PathIds <- {"a", "b", "c"}, NULL <- "NULL", CwinMin <- 4, CwinInitial <- 12,
       Unlimited <- 1000, MaxInterval <- 0, Threshold <- 0, AckBytes <- {4}, Growth <- {0},
       Seeds <- {16}, Rtts <- {1}, InitialRtt <- 1, MaxCwin <- 20, MaxTime <- 2, MaxSeq <- 1,
       MaxFlight <- 1, MaxAcks <- 1, MaxMarks <- 0, MaxCnx <- 2

(* The addresses of paths are interchangeable: the first path is "a", the  *)
(* second one of the first connection is "b".                              *)
InOrder == cnx = 1 => paths \in {<<"a">>, <<"a", "b">>}

(* Tonopah in congestion avoidance on two paths, one packet sent on each,  *)
(* before the first interval.                                              *)
TonopahEstablished ==
  /\ nb_paths = 2 /\ known = <<1, 2>> /\ dominant = 2 /\ intervals = <<>> /\ last_change = 1
  /\ nrss = [T!SimReset EXCEPT !.alg_state = "congestion_avoidance", !.ssthresh = 4]
  /\ cwin = T!Shares(2, 4)
  /\ seq = <<1, 1>> /\ acked = <<0, 0>> /\ now = 1

MCInit ==
  /\ which \in {"keys", "mtu", "pacing", "controls", "bbr", "tonopah", "tonopah_fq", "connections"}
  /\ Init /\ PacingInit /\ MtuInit /\ (which # "mtu" => policy = "basic")
  /\ C!Init /\ (which # "controls" => alg = "newreno" /\ boost = 0) /\ (alg = "fast" => boost = 0)
  /\ B!Init
  /\ IF which = "connections" THEN nb_paths = 0 /\ known = <<>> /\ paths = <<"a">> /\ N!Init
     ELSE /\ paths = <<>> /\ path1 = "NULL" /\ path2 = "NULL" /\ srtt = 0 /\ fault = FALSE
          /\ cnx = 0 /\ ready = FALSE /\ marks = 0 /\ reduced = 0
          /\ IF which = "tonopah_fq" THEN TonopahEstablished ELSE T!Init

MCNext ==
  /\ UNCHANGED which
  /\ \/ /\ UNCHANGED <<ccVars, bbrVars, tonopahVars, newVars>>
        /\ \/ which = "keys" /\ Next /\ UNCHANGED <<mtuVars, pacingVars>>
           \/ which = "mtu" /\ MtuNext /\ UNCHANGED <<vars, pacingVars>>
           \/ which = "pacing" /\ PacingNext /\ UNCHANGED <<vars, mtuVars>>
     \/ /\ UNCHANGED <<vars, mtuVars, pacingVars>>
        /\ \/ which = "controls" /\ C!Next /\ UNCHANGED <<bbrVars, tonopahVars, newVars>>
           \/ which = "bbr" /\ B!Next /\ UNCHANGED <<ccVars, tonopahVars, newVars>>
           \/ which \in {"tonopah", "tonopah_fq"} /\ T!Next /\ UNCHANGED <<ccVars, bbrVars, newVars>>
           \/ /\ which = "connections" /\ N!Next /\ InOrder'
              /\ UNCHANGED <<ccVars, bbrVars, nb_paths, known>>

MCSpec == MCInit /\ [][MCNext]_<<which, vars, mtuVars, pacingVars, ccVars, bbrVars, tonopahVars, newVars>>

-----------------------------------------------------------------------------
(* Bounds of the run. *)

(* BBR samples for a policer with the first window or the smallest one and *)
(* no recent loss; a loss leaves the last RTT before probe_rtt.            *)
BbrFocus ==
  /\ b.recent => ~b.expired /\ b.state # "probe_rtt"
  /\ b.lt_sampling => ~b.recent /\ (bbr_cwin = 5 \/ (bbr_cwin = 3 /\ b.prior = 0 /\ ~b.expired))

(* The start of Tonopah lasts two ticks; the established connection keeps  *)
(* sending and is in recovery in the last tick only.                           *)
TonopahFocus ==
  CASE which = "tonopah" -> now <= 2 /\ \A p \in {1, 2} : seq[p] <= 2
    [] which = "tonopah_fq" ->
         /\ nrss.alg_state = "congestion_avoidance"
         /\ T!InRecovery(nrss) # <<0, 0>> => now >= 4
         /\ now = 1 => intervals = <<>>
         /\ now = 2 => Len(intervals) <= 1
         /\ now >= 3 => Len(intervals) >= 1
         /\ now >= 4 => T!DetectedFq(intervals)
         /\ intervals = <<>> => \A p \in {1, 2} : seq[p] = 1
         /\ \A p \in {1, 2} : acked[p] = 0 \/ seq[p] <= acked[p] + 2
    [] OTHER -> TRUE

Focus == BbrFocus /\ TonopahFocus

-----------------------------------------------------------------------------
(* The properties of the instances. *)

(* An ACK and a loss in CongestionControls: an ACK at most doubles the     *)
(* window, and losses cut it once in a round trip.                         *)
StepsModerate == C!AckAtMostDoubles /\ C!OneCutPerRound

(* What took the window away for nothing gives it back.                    *)
WindowRestored == C!SpuriousRestores /\ B!WindowRestored

(* No algorithm closes its window, and the modes of BBR fit together.  The *)
(* older Tonopah keeps the window of the dominant path open and larger,    *)
(* never measures one path with the share of the other, and uses a         *)
(* measurement when it is over.  New Tonopah's shares are those of its     *)
(* intervals, which are in order, also for the second connection of a      *)
(* process.                                                                *)
ControlsSound ==
  CASE which = "controls" -> C!WindowOpen
    [] which = "bbr" -> B!WindowOpen /\ B!PhasesConsistent
    [] which = "connections" -> N!SharesFollowWindow /\ N!IntervalsOrdered
    [] which \in {"tonopah", "tonopah_fq"} -> T!SharesAlternate /\ T!FinishedMeasured /\ T!DominantAhead
    [] OTHER -> TRUE
=============================================================================
