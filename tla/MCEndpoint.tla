----------------------------- MODULE MCEndpoint -----------------------------
(* One run of the parts of an endpoint that keep their state to            *)
(* themselves: the opening of streams (StreamTable) and the exchange of    *)
(* connection identifiers (CidExchange), and the acknowledgements it owes  *)
(* (AckContext).  Each behaviour is one of one of them; the variables of   *)
(* the others stay as Init has them.                                       *)
EXTENDS StreamTable

VARIABLES
  which,                                                       \* the part of the behaviour
  local, next, nb, expired, retire_before,                     \* CidExchange
  stash, paths, cnxid_before, queue, cid_net, cid_acks, cid_error,
  items, range_counts, ack_horizon, act, now, pns, owed, ack_frames, confirmed \* AckContext

ackVars == <<items, range_counts, ack_horizon, act, now, pns, owed, ack_frames, confirmed>>
cidVars == <<local, next, nb, expired, retire_before, stash, paths, cnxid_before, queue, cid_net, cid_acks, cid_error>>
mcVars == <<which, vars, cidVars, ackVars>>

C == INSTANCE CidExchange WITH
       Limit <- 2, Target <- 8, MaxPaths <- 2, MaxSeq <- 2, LongTtl <- TRUE, Tight <- FALSE,
       Spurious <- {"retire"}, net <- cid_net, acks <- cid_acks, error <- cid_error

A == INSTANCE AckContext WITH
       Repeat <- 1, MaxRanges <- 2, HorizonDelay <- 0, MaxPn <- 1, MaxTime <- 2, MaxFrames <- 1,
       Kinds <- {"eliciting", "fin"}, Rooms <- {2}, AckDelay <- 1, AckGap <- 1,
       received <- pns, unacked <- owed, frames <- ack_frames

MCInit == which \in {"streams", "cids", "acks"} /\ Init /\ C!Init /\ A!Init

MCNext ==
  \/ which = "streams" /\ Next /\ UNCHANGED <<which, cidVars, ackVars>>
  \/ which = "cids" /\ C!Next /\ UNCHANGED <<which, vars, ackVars>>
  \/ which = "acks" /\ A!Next /\ UNCHANGED <<which, vars, cidVars>>

(* The fairness of each part, in the behaviours that are its own.          *)
MCFairness ==
  /\ WF_mcVars(which = "streams" /\ LearnLimit /\ UNCHANGED <<which, cidVars, ackVars>>)
  /\ WF_mcVars(which = "streams" /\ SendStream /\ UNCHANGED <<which, cidVars, ackVars>>)
  /\ WF_mcVars(which = "streams" /\ SendMaxStreams /\ UNCHANGED <<which, cidVars, ackVars>>)
  /\ \A r \in Ranks : WF_mcVars(which = "streams" /\ Finish(r) /\ UNCHANGED <<which, cidVars, ackVars>>)
  /\ WF_mcVars(which = "streams" /\ RepeatAny /\ UNCHANGED <<which, cidVars, ackVars>>)
  /\ SF_mcVars(which = "streams" /\ ReceiveGrant /\ UNCHANGED <<which, cidVars, ackVars>>)
  /\ \A seq \in C!Cid :
       /\ WF_mcVars(which = "cids" /\ C!SendRetireAny(seq) /\ UNCHANGED <<which, vars, ackVars>>)
       /\ SF_mcVars(which = "cids" /\ C!ReceiveRetireAny(seq) /\ UNCHANGED <<which, vars, ackVars>>)
       /\ SF_mcVars(which = "cids" /\ C!AckOfRetireAny(seq) /\ UNCHANGED <<which, vars, ackVars>>)
  /\ WF_mcVars(which = "acks" /\ A!Tick /\ UNCHANGED <<which, vars, cidVars>>)
  /\ WF_mcVars(which = "acks" /\ A!SendNeededAck /\ UNCHANGED <<which, vars, cidVars>>)

MCSpec == MCInit /\ [][MCNext]_mcVars /\ MCFairness

-----------------------------------------------------------------------------
(* The properties of the instance. *)

CidsAgree == C!CidsAgree
RetirementCompletes == C!RetirementCompletes
EventuallyReported == A!EventuallyReported
=============================================================================
