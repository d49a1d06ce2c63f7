------------------------------ MODULE MCParts ------------------------------
(* One run of parts that share no state and no constants: each behaviour   *)
(* is one of one of them.  The paths of a connection, with every rare      *)
(* event, have the variables and constants of MultiPath; v1, v2, ... stand *)
(* for those of the other parts; what a part does not use stays as MCInit  *)
(* has it.                                                                 *)
EXTENDS MCMultiPath

VARIABLES which, v1, v2, v3, v4, v5, v6, v7, v8, v9, v10, v11, v12, v13, v14

mcVars == <<vars, which, v1, v2, v3, v4, v5, v6, v7, v8, v9, v10, v11, v12, v13, v14>>

(* The variables that a part with two, four, six, ... does not use.        *)
From11 == <<v11, v12, v13, v14>>
From10 == <<v10, From11>>
From9 == <<v9, From10>>
From8 == <<v8, From9>>
From7 == <<v7, From8>>
From5 == <<v5, v6, From7>>
From3 == <<v3, v4, From5>>
From1 == <<v1, v2, From3>>
Idle11 == v11 = 0 /\ v12 = 0 /\ v13 = 0 /\ v14 = 0
Idle10 == v10 = 0 /\ Idle11
Idle9 == v9 = 0 /\ Idle10
Idle8 == v8 = 0 /\ Idle9
Idle7 == v7 = 0 /\ Idle8
Idle5 == v5 = 0 /\ v6 = 0 /\ Idle7
Idle3 == v3 = 0 /\ v4 = 0 /\ Idle5
Idle1 == v1 = 0 /\ v2 = 0 /\ Idle3

-----------------------------------------------------------------------------
(* Frames and those who read them. *)

F == INSTANCE FrameFormats WITH
       packet <- v1, frames <- v2, ends <- v3, whole <- v4, at <- v5, crossed <- v6,
       expects <- v7, readable <- v8

(* The binary log and its conversion. *)

L == INSTANCE LogEvents WITH
       Cnx <- {1, 2}, MaxLogs <- 1, MaxEvents <- 3, open <- v1, nb <- v2, file <- v3, qlog <- v4

(* Deadlines of acknowledgements. *)

A == INSTANCE AckContext WITH
       Repeat <- 1, MaxRanges <- 2, HorizonDelay <- 0, MaxPn <- 2, MaxTime <- 2, MaxFrames <- 1,
       Kinds <- {"eliciting", "fin"}, Rooms <- {2}, AckDelay <- 1, AckGap <- 2,
       items <- v1, range_counts <- v2, ack_horizon <- v3, act <- v4, now <- v5,
       received <- v6, unacked <- v7, frames <- v8, confirmed <- v9

(* Transport parameters of a handshake.  The server may upgrade version 1  *)
(* to itself or to 2 or 5.                                                 *)

P == INSTANCE TransportParams WITH
       Upgrades <- {<<1, 2>>, <<1, 1>>, <<2, 2>>, <<1, 5>>}, V4Only <- TRUE,
       ends <- v1, wire <- v2, step <- v3, altered <- v4

(* Address validation tokens. *)

V == INSTANCE TokenStore WITH
       Addrs <- {1, 2}, CheckToken <- TRUE, MaxCnx <- 2, MaxTokens <- 3, MaxTime <- 2,
       now <- v1, up <- v2, tokens <- v3, disk <- v4, cnx <- v5, net <- v6, contexts <- v7,
       reuse <- v8, made <- v9, proofs <- v10

(* Session tickets. *)

S == INSTANCE TicketStore WITH
       Versions <- {1, 2}, Ways <- {<<1, 1>>, <<2, 2>>}, Lives <- {1, 2}, Bdp <- TRUE,
       MaxCnx <- 2, MaxTime <- 1,
       now <- v1, up <- v2, tickets <- v3, disk <- v4, cnx <- v5, srv <- v6, issued <- v7

(* Connection contexts and the tables that find them. *)

C == INSTANCE CnxTables WITH
       Modes <- {[zero |-> FALSE, multi |-> FALSE], [zero |-> TRUE, multi |-> FALSE],
                 [zero |-> FALSE, multi |-> TRUE]},
       Addrs <- {1, 2}, Icids <- {<<0, 1>>}, MaxHalfOpen <- 1, MaxCnx <- 2, MaxPaths <- 2,
       MaxSecrets <- 1, MaxChanges <- 2,
       mode <- v1, quic <- v2, changes <- v3, resets <- v4

(* The packet loop with its wake list, and any splay tree.                 *)

W == INSTANCE PacketLoop WITH
       Nodes <- {1, 2, 3}, Keys <- 0..3, Width <- 4, MaxTime <- 3, DelayMax <- 2, MaxAhead <- 1,
       MaxPosts <- 2, MaxPackets <- 2, Careful <- TRUE,
       tree <- v1, key <- v2, cnx <- v3, todo <- v4, stateless <- v5, pc <- v6, now <- v7,
       current_time <- v8, immediate <- v9, since <- v10, until <- v11, last <- v12,
       posts <- v13, packets <- v14

Y == INSTANCE SplayTree WITH
       Nodes <- 1..5, Keys <- {0, 1}, Width <- 4, tree <- v1, key <- v2

(* Identifiers for a load balancer. *)

LbText(method, encodes, length, nonce, sid) ==
  [method |-> method, encodes |-> encodes, length |-> length, nonce |-> nonce, sid |-> sid,
   rotation |-> IF encodes THEN 2 ELSE 1, keyed |-> method # "clear", key |-> 1]

B == INSTANCE LbCid WITH
       Cnxs <- {1, 2}, MaxCid <- 5, Block <- 3, NonceMin <- 1, DefaultLength <- 4, Lengths <- {3, 4},
       Texts <- {LbText("clear", TRUE, 4, 0, <<1>>), LbText("clear", FALSE, 3, 0, <<1, 0>>),
                 LbText("clear", FALSE, 0, 0, <<1>>), LbText("stream", TRUE, 4, 1, <<1, 0>>),
                 LbText("stream", FALSE, 5, 2, <<1>>), LbText("stream", FALSE, 4, 0, <<1>>),
                 LbText("block", TRUE, 4, 0, <<1, 1>>), LbText("block", FALSE, 5, 0, <<1, 1, 1>>)},
       quic <- v1, cids <- v2

-----------------------------------------------------------------------------
(* Tables change a second time only with identifiers and one path.         *)
FewChanges == v1 = [zero |-> FALSE, multi |-> FALSE] \/ v3 < 2

(* The first connection of the client has its first address, and the first *)
(* version.                                                                *)
FirstToken == v5[1].addr < 2
FirstTicket == v5[1].addr < 2 /\ v5[1].v < 2

(* There are at most two identifiers for the balancer.                     *)
FewCids == Cardinality(v2) <= 2

MCInit ==
  /\ Init
  /\ \/ which = "frames" /\ F!Init /\ Idle9
     \/ which = "log" /\ L!Init /\ Idle5
     \/ which = "acks" /\ A!Init /\ Idle10
     \/ which = "params" /\ P!Init /\ Idle5
     \/ which = "tokens" /\ V!Init /\ Idle11
     \/ which = "tickets" /\ S!Init /\ Idle8
     \/ which = "tables" /\ C!Init /\ Idle5
     \/ which = "paths" /\ Idle1
     \/ which = "loop" /\ W!Init
     \/ which = "tree" /\ Y!TreeInit /\ Idle3
     \/ which = "balancer" /\ B!LbInit /\ Idle3

MCNext ==
  /\ UNCHANGED which
  /\ \/ which = "paths" /\ Next /\ UNCHANGED From1
     \/ /\ UNCHANGED vars
        /\ \/ which = "frames" /\ F!Next /\ UNCHANGED From9
           \/ which = "log" /\ L!Next /\ UNCHANGED From5
           \/ which = "acks" /\ A!Next /\ UNCHANGED From10
           \/ which = "params" /\ P!Next /\ UNCHANGED From5
           \/ which = "tokens" /\ V!Next /\ FirstToken' /\ UNCHANGED From11
           \/ which = "tickets" /\ S!Next /\ FirstTicket' /\ UNCHANGED From8
           \/ which = "tables" /\ C!Next /\ FewChanges' /\ UNCHANGED From5
           \/ which = "loop" /\ W!Next
           \/ which = "tree" /\ Y!TreeNext /\ UNCHANGED From3
           \/ which = "balancer" /\ B!LbNext /\ FewCids' /\ UNCHANGED From3

MCSpec == MCInit /\ [][MCNext]_mcVars

-----------------------------------------------------------------------------
(* The properties of the parts; those of the paths are in MultiPath. *)

PacketsUnderstood ==
  /\ which = "frames" => F!PacketsUnderstood
  /\ which = "log" => L!LogTold
ParamsAgree == which = "params" => P!ParamsAgree
StoresSound ==
  /\ which = "tokens" => V!TokensProveOnce
  /\ which = "tickets" => S!TicketsSound
  /\ which = "tables" => C!TablesSound
  /\ which = "balancer" => B!LbSound

(* What is due is done in time: ACKs, and the work of the packet loop.     *)
DeadlinesKept ==
  /\ which = "acks" => A!AckDeadlineKept
  /\ which = "loop" => W!LoopSound
  /\ which = "tree" => Y!TreeSound /\ Y!TreeComplete
=============================================================================
