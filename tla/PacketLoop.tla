---------------------------- MODULE PacketLoop ----------------------------
(* The packet loop of a process (sockloop.c) and the list from which it      *)
(* takes the next connection to serve (quicctx.c, sender.c): it waits for a  *)
(* packet or for the earliest wake time, takes in packets as long as there   *)
(* are any, then lets connections send until one has nothing to send.        *)
(*                                                                           *)
(* A context is a node of the tree, its wake time the key.  Times have Width *)
(* bits; the clock stays far below the last one, which means never.          *)
EXTENDS SplayTree

CONSTANTS
  MaxTime,       (* bound of the clock                                       *)
  DelayMax,      (* delay_max                                                *)
  MaxAhead,      (* bound: how far ahead a wake time is set                  *)
  MaxPosts,      (* bound: calls of the application                          *)
  MaxPackets,    (* bound: packets that arrive                               *)
  Careful        (* the application deletes the contexts of clients that     *)
                 (* have ended as soon as it is called                       *)

VARIABLES
  cnx,           (* per context: "none", "server", "client", "ended"         *)
  todo,          (* it has a packet to send, or has to end: "no", "send",    *)
                 (* "end"                                                    *)
  stateless,     (* quic->pending_stateless_packet                           *)
  pc,            (* where the loop is                                        *)
  now,           (* the clock                                                *)
  current_time,  (* as the loop read it last                                 *)
  immediate,     (* loop_immediate                                           *)
  since, until,  (* of the wait, 0 when there is none                        *)
  last,          (* history: served last in this round, 0 for none           *)
  posts, packets (* bounded                                                  *)

loopVars == <<cnx, todo, stateless, pc, now, current_time, immediate, since, until, last, posts, packets>>
vars == <<treeVars, loopVars>>

Never == 2^Width - 1
Live == {c \in Nodes : cnx[c] # "none"}

-----------------------------------------------------------------------------
(* The wake list *)

List(t, k) == tree' = t /\ key' = k

(* picoquic_reinsert_by_wake_time; of a new context, its first insertion.   *)
Reinsert(t, c, time) ==
  LET k == [key EXCEPT ![c] = time]
  IN List(Insert(IF c \in Members(t) THEN Delete(t, c) ELSE t, k, c), k)

Drop(c) == List(Delete(tree, c), [key EXCEPT ![c] = 0])

(* picoquic_get_earliest_cnx_to_wake; 0 for none.                           *)
Earliest(time) ==
  LET c == Lowest(tree) IN IF c # 0 /\ time # 0 /\ key[c] > time THEN 0 ELSE c

(* picoquic_get_next_wake_delay: signed, and not above the maximum.         *)
NextWakeDelay(time) ==
  LET wake == IF stateless THEN time ELSE IF tree.root = 0 THEN Never ELSE key[Lowest(tree)]
  IN IF wake = Never \/ Compare(wake, time) > DelayMax THEN DelayMax ELSE Compare(wake, time)

-----------------------------------------------------------------------------
(* Actions.  pc is "top", "select" while the loop waits, "send" and         *)
(* "callback" while the application runs.                                   *)

Init ==
  /\ TreeInit
  /\ cnx = [c \in Nodes |-> "none"] /\ todo = [c \in Nodes |-> "no"] /\ stateless = FALSE
  /\ pc = "callback" /\ now = 1 /\ current_time = 1 /\ immediate = FALSE
  /\ since = 0 /\ until = 0 /\ last = 0 /\ posts = 0 /\ packets = 0

(* A packet takes time to process, and the loop is told after a wait.       *)
Tick ==
  /\ now < MaxTime
  /\ pc = "select" => now < until
  /\ now' = now + 1
  /\ UNCHANGED <<treeVars, cnx, todo, stateless, pc, current_time, immediate, since, until, last, posts, packets>>

(* A mutant: what is due only later is believed due now.                    *)
Wait_Early ==
  /\ pc = "top"
  /\ pc' = "select" /\ immediate' = FALSE
  /\ since' = now /\ until' = now + DelayMax
  /\ UNCHANGED <<treeVars, cnx, todo, stateless, now, current_time, last, posts, packets>>

Wait ==
  /\ pc = "top"
  /\ pc' = "select" /\ immediate' = FALSE
  /\ since' = now
  /\ until' = LET delta_t == IF immediate THEN 0 ELSE NextWakeDelay(current_time)
              IN now + IF delta_t > 0 THEN delta_t ELSE 0
  /\ UNCHANGED <<treeVars, cnx, todo, stateless, now, current_time, last, posts, packets>>

(* A packet: of a context, which then may have something to send or is to   *)
(* end; of none, which is dropped or answered without a context; of a new   *)
(* one, which may not outlive the packet.                                   *)
Receive ==
  /\ pc = "select" /\ packets < MaxPackets
  /\ current_time' = now /\ immediate' = TRUE /\ pc' = "callback" /\ packets' = packets + 1
  /\ since' = 0 /\ until' = 0
  /\ \/ \E c \in Live, does \in {"no", "send", "end"} :
          /\ Reinsert(tree, c, now)
          /\ todo' = [todo EXCEPT ![c] = IF does = "no" \/ @ = "end" THEN @ ELSE does]
          /\ UNCHANGED <<cnx, stateless>>
     \/ stateless' \in BOOLEAN /\ (stateless => stateless')
        /\ UNCHANGED <<treeVars, cnx, todo>>
     \/ \E c \in Nodes \ Live :
          /\ Reinsert(tree, c, now)
          /\ cnx' = [cnx EXCEPT ![c] = "server"] /\ todo' = [todo EXCEPT ![c] = "send"]
          /\ UNCHANGED stateless
     \/ \E c \in Nodes \ Live :
          LET k == [key EXCEPT ![c] = now]
          IN List(Delete(Insert(tree, k, c), c), key) /\ UNCHANGED <<cnx, todo, stateless>>
  /\ UNCHANGED <<now, last, posts>>

Timeout ==
  /\ pc = "select" /\ now >= until
  /\ pc' = "send" /\ current_time' = now /\ since' = 0 /\ until' = 0
  /\ UNCHANGED <<treeVars, cnx, todo, stateless, now, immediate, last, posts, packets>>

(* picoquic_prepare_next_packet_ex, with what picoquic_prepare_packet_ex    *)
(* may do; a packet is sent, or the round is over.                          *)
SendStateless ==
  /\ pc = "send" /\ stateless
  /\ stateless' = FALSE
  /\ UNCHANGED <<treeVars, cnx, todo, pc, now, current_time, immediate, since, until, last, posts, packets>>

NoneDue ==
  /\ pc = "send" /\ ~stateless /\ Earliest(current_time) = 0
  /\ pc' = "callback" /\ last' = 0
  /\ UNCHANGED <<treeVars, cnx, todo, stateless, now, current_time, immediate, since, until, posts, packets>>

Serve ==
  /\ pc = "send" /\ ~stateless
  /\ LET c == Earliest(current_time)
     IN /\ c # 0
        /\ last' = IF todo[c] = "send" THEN c ELSE 0
        /\ \/ /\ todo[c] = "send"
              /\ todo' = [todo EXCEPT ![c] = "no"]
              /\ Reinsert(tree, c, current_time)
              /\ UNCHANGED <<cnx, pc>>
           \/ /\ todo[c] = "no"
              /\ \E ahead \in 1..MaxAhead : Reinsert(tree, c, current_time + ahead)
              /\ pc' = "callback"
              /\ UNCHANGED <<cnx, todo>>
           \/ /\ todo[c] = "end"
              /\ todo' = [todo EXCEPT ![c] = "no"]
              /\ IF cnx[c] = "server"
                 THEN Drop(c) /\ cnx' = [cnx EXCEPT ![c] = "none"]
                 ELSE Reinsert(tree, c, Never) /\ cnx' = [cnx EXCEPT ![c] = "ended"]
              /\ pc' = "callback"
  /\ UNCHANGED <<stateless, now, current_time, immediate, since, until, posts, packets>>

(* The application, when it is called: it starts a client, gives a          *)
(* connection something to send or closes it, or deletes its context.       *)
Call(c) ==
  /\ pc = "callback" /\ posts < MaxPosts /\ posts' = posts + 1
  /\ \/ /\ c \notin Live
        /\ cnx' = [cnx EXCEPT ![c] = "client"] /\ todo' = [todo EXCEPT ![c] = "send"]
        /\ Reinsert(tree, c, now)
     \/ /\ cnx[c] \in {"server", "client"}
        /\ \E does \in {"send", "end"} : todo' = [todo EXCEPT ![c] = IF @ = "end" THEN @ ELSE does]
        /\ Reinsert(tree, c, now)
        /\ UNCHANGED cnx
     \/ /\ cnx[c] \in {"server", "client"}
        /\ cnx' = [cnx EXCEPT ![c] = "none"] /\ todo' = [todo EXCEPT ![c] = "no"]
        /\ Drop(c)
  /\ UNCHANGED <<stateless, pc, now, current_time, immediate, since, until, last, packets>>

Forget(c) ==
  /\ pc = "callback" /\ cnx[c] = "ended"
  /\ cnx' = [cnx EXCEPT ![c] = "none"] /\ Drop(c)
  /\ UNCHANGED <<todo, stateless, pc, now, current_time, immediate, since, until, last, posts, packets>>

Return ==
  /\ pc = "callback" /\ (Careful => \A c \in Nodes : cnx[c] # "ended")
  /\ pc' = "top"
  /\ UNCHANGED <<treeVars, cnx, todo, stateless, now, current_time, immediate, since, until, last, posts, packets>>

Next ==
  \/ Tick \/ Wait \/ Receive \/ Timeout \/ SendStateless \/ NoneDue \/ Serve \/ Return
  \/ \E c \in Nodes : Call(c) \/ Forget(c)

Spec == Init /\ [][Next]_vars

-----------------------------------------------------------------------------
(* Properties *)

(* The list has the contexts that exist, sorted by wake time.               *)
WakeListKept == TreeSound /\ TreeComplete /\ Members(tree) = Live

(* "Management of the list of connections, sorted by wake time": the first  *)
(* one wakes first, whenever the loop looks at it.                          *)
SortedByWakeTime == pc # "callback" => \A c \in Live : key[Lowest(tree)] <= key[c]

(* The loop never waits beyond the wake time of a connection, except for    *)
(* the time it has itself spent since it last read the clock, nor while an  *)
(* answer waits to be sent.                                                 *)
NoneOverslept ==
  pc = "select" =>
    LET spent == since - current_time
    IN /\ \A c \in Live : until <= since \/ until - spent <= key[c]
       /\ stateless => until = since

(* Connections that are due take turns: one that has sent a packet is       *)
(* behind all others that are due when the next packet is sent.             *)
TurnsTaken ==
  pc = "send" /\ last # 0 /\ (\E c \in Live \ {last} : key[c] <= current_time) =>
    Earliest(current_time) # last

LoopSound == WakeListKept /\ SortedByWakeTime /\ NoneOverslept /\ TurnsTaken
=============================================================================
