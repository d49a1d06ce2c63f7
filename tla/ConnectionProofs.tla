-------------------------- MODULE ConnectionProofs --------------------------
(***************************************************************************)
(* The handshake of Connection, for any scenario, flight, number of faults *)
(* and of packets in the network: both ends agree on how far it has come,  *)
(* and a closed end stays closed.                                          *)
(***************************************************************************)
EXTENDS Connection, WellFoundedInduction, TLAPS

(* What each end sends; F is the flight of the server.                     *)
FromClient == {CH, CF, ACKONLY, CLOSE} \cup Pings
FromServer(F) == {SH, DONE, CLOSE} \cup F
Sends(e, F) == IF e = "client" THEN FromClient ELSE FromServer(F)

TlsOf(F) == {CH, SH, CF} \cup F
Flight(F) == {SH} \cup F

EarlyStates == {"client_init", "client_init_sent"}
LateStates == {"client_almost_ready", "client_ready_start", "ready"}
ClientStates == EarlyStates \cup {"client_handshake_start"} \cup LateStates \cup Closed
ServerStates ==
  {"none", "server_init", "server_handshake", "server_false_start", "server_almost_ready", "ready"}
  \cup Closed
StatesOf(e) == IF e = "client" THEN ClientStates ELSE ServerStates

AllKeys == {"initial", "handshake", "app_send", "app_receive"}

(* Packets to e, those that e may store, and the contexts of e.            *)
PacketTo(e, F) ==
  [to : {e}, epoch : Epochs \cup {"retry"}, msgs : SUBSET Sends(Peer(e), F),
   ack : SUBSET Sends(e, F), cid : BOOLEAN, token : BOOLEAN]

Usable(e, F) == {p \in PacketTo(e, F) : p.epoch \in Epochs}

Cnx(e, F) ==
  [state : StatesOf(e), keys : SUBSET AllKeys, tosend : SUBSET Sends(e, F),
   unacked : SUBSET Sends(e, F), due : SUBSET Sends(e, F), seen : SUBSET Sends(Peer(e), F),
   got : SUBSET Sends(Peer(e), F), ack_needed : SUBSET Epochs, sooner : SUBSET Usable(e, F)]

-----------------------------------------------------------------------------
(* Messages and states *)

(* The messages of the two ends are told apart.                            *)
LEMMA Distinct ==
  /\ CH # SH /\ CH # CF /\ CH # DONE /\ CH # CLOSE /\ CH # ACKONLY
  /\ SH # CF /\ SH # DONE /\ SH # CLOSE /\ SH # ACKONLY
  /\ CF # DONE /\ CF # CLOSE /\ CF # ACKONLY
  /\ DONE # CLOSE /\ DONE # ACKONLY /\ CLOSE # ACKONLY
  /\ {CH, SH, CF, DONE, CLOSE, ACKONLY} \cap (Pings \cup ServerFlight) = {}
  /\ Pings \cap ServerFlight = {}
<1>1. /\ CH.type = "client_hello" /\ SH.type = "server_hello" /\ CF.type = "client_finished"
      /\ DONE.type = "handshake_done" /\ CLOSE.type = "close" /\ ACKONLY.type = "ack_only"
  BY DEF CH, SH, CF, DONE, CLOSE, ACKONLY, Msg
<1>2. \A m \in Pings : m.type \in {"ping_initial", "ping_handshake"}
  BY DEF Pings, Ping, Msg
<1>3. \A m \in ServerFlight : m.type = "server_flight"
  BY DEF ServerFlight
<1> QED BY <1>1, <1>2, <1>3

(* The encryption levels of the messages of TLS.                           *)
LEMMA EpochIs ==
  /\ EpochOf(CH) = "initial" /\ EpochOf(SH) = "initial" /\ EpochOf(CF) = "handshake"
  /\ \A m \in ServerFlight : EpochOf(m) = "handshake"
<1> DEFINE I == {CH, SH, Ping("initial")}
           H == {CF, Ping("handshake"), ACKONLY} \cup ServerFlight
<1>1. Ping("initial") \in Pings /\ Ping("handshake") \in Pings /\ Ping("initial") # Ping("handshake")
  BY DEF Pings, Ping, Msg
<1>2. I \cap H = {} /\ DONE \notin I \cup H
  BY <1>1, Distinct
<1>3. \A m \in I : EpochOf(m) = "initial"
  BY <1>2 DEF EpochOf
<1>4. \A m \in H : EpochOf(m) = "handshake"
  BY <1>2 DEF EpochOf
<1> QED BY <1>3, <1>4

(* The order of picoquic_state_enum.                                       *)
LEMMA Ranks ==
  /\ Rank["none"] = 1 /\ Rank["client_init"] = 2 /\ Rank["client_init_sent"] = 3
  /\ Rank["server_init"] = 4 /\ Rank["server_handshake"] = 5
  /\ Rank["client_handshake_start"] = 6 /\ Rank["handshake_failure"] = 7
  /\ Rank["handshake_failure_resend"] = 8 /\ Rank["client_almost_ready"] = 9
  /\ Rank["server_false_start"] = 10 /\ Rank["server_almost_ready"] = 11
  /\ Rank["client_ready_start"] = 12 /\ Rank["ready"] = 13 /\ Rank["disconnecting"] = 14
  /\ Rank["closing_received"] = 15 /\ Rank["closing"] = 16 /\ Rank["draining"] = 17
  /\ Rank["disconnected"] = 18
<1>1. /\ StateOrder[1] = "none" /\ StateOrder[2] = "client_init" /\ StateOrder[3] = "client_init_sent"
      /\ StateOrder[4] = "server_init" /\ StateOrder[5] = "server_handshake"
      /\ StateOrder[6] = "client_handshake_start" /\ StateOrder[7] = "handshake_failure"
      /\ StateOrder[8] = "handshake_failure_resend" /\ StateOrder[9] = "client_almost_ready"
      /\ StateOrder[10] = "server_false_start" /\ StateOrder[11] = "server_almost_ready"
      /\ StateOrder[12] = "client_ready_start" /\ StateOrder[13] = "ready"
      /\ StateOrder[14] = "disconnecting" /\ StateOrder[15] = "closing_received"
      /\ StateOrder[16] = "closing" /\ StateOrder[17] = "draining" /\ StateOrder[18] = "disconnected"
      /\ DOMAIN StateOrder = 1..18
  BY DEF StateOrder
<1>2. \A i, j \in 1..18 : StateOrder[i] = StateOrder[j] => i = j
  BY <1>1
<1>3. \A i \in 1..18 : Rank[StateOrder[i]] = i
  BY <1>1, <1>2 DEF Rank, States
<1> QED BY <1>1, <1>3

-----------------------------------------------------------------------------
(* What handlers do to a context *)

(* The fields that an update of the others leaves.                         *)
LEMMA RecordedIs ==
  ASSUME NEW e \in Ends, NEW c \in Cnx(e, ServerFlight), NEW p \in PacketTo(e, ServerFlight),
         p.epoch \in Epochs
  PROVE  LET d == Recorded(c, p)
         IN  /\ d \in Cnx(e, ServerFlight)
             /\ d.state = c.state /\ d.keys = c.keys /\ d.tosend = c.tosend
             /\ d.unacked = c.unacked /\ d.due = c.due /\ d.got = c.got /\ d.sooner = c.sooner
             /\ d.seen = c.seen \cup (p.msgs \ {CLOSE})
<1>1. p.msgs \subseteq Sends(Peer(e), ServerFlight)
  BY DEF PacketTo
<1> QED BY <1>1 DEF Recorded, Cnx

(* ACK and CRYPTO frames, before the frames that change the state.         *)
ReadFrames(c, p) ==
  [Recorded(c, p) EXCEPT !.unacked = @ \ p.ack, !.due = @ \ p.ack,
                         !.got = @ \cup (p.msgs \cap Crypto)]

(* Frames that were read only add to what is known of the peer, and        *)
(* acknowledge.                                                            *)
LEMMA ReadIs ==
  ASSUME NEW e \in Ends, NEW c \in Cnx(e, ServerFlight), NEW p \in PacketTo(e, ServerFlight),
         p.epoch \in Epochs
  PROVE  LET d == ReadFrames(c, p)
         IN  /\ d \in Cnx(e, ServerFlight)
             /\ d.state = c.state /\ d.keys = c.keys /\ d.tosend = c.tosend /\ d.sooner = c.sooner
             /\ d.unacked = c.unacked \ p.ack /\ d.due = c.due \ p.ack
             /\ d.got = c.got \cup (p.msgs \cap Crypto)
             /\ d.seen = c.seen \cup (p.msgs \ {CLOSE})
<1> DEFINE r == Recorded(c, p)
<1>1. p.msgs \subseteq Sends(Peer(e), ServerFlight)
  BY DEF PacketTo
<1>2. /\ r \in Cnx(e, ServerFlight)
      /\ r.state = c.state /\ r.keys = c.keys /\ r.tosend = c.tosend
      /\ r.unacked = c.unacked /\ r.due = c.due /\ r.got = c.got /\ r.sooner = c.sooner
      /\ r.seen = c.seen \cup (p.msgs \ {CLOSE})
  BY RecordedIs
<1> QED BY <1>1, <1>2 DEF ReadFrames, Cnx

(* A change of state alone.                                                *)
LEMMA StateSet ==
  ASSUME NEW e \in Ends, NEW c \in Cnx(e, ServerFlight), NEW x \in StatesOf(e)
  PROVE  LET d == [c EXCEPT !.state = x]
         IN  /\ d \in Cnx(e, ServerFlight) /\ d.state = x
             /\ d.keys = c.keys /\ d.tosend = c.tosend /\ d.unacked = c.unacked /\ d.due = c.due
             /\ d.seen = c.seen /\ d.got = c.got /\ d.sooner = c.sooner
BY DEF Cnx

(* Dropping an epoch frees its key and forgets what was sent with it       *)
(* (picoquic_implicit_handshake_ack).                                      *)
LEMMA DropIs ==
  ASSUME NEW e \in Ends, NEW c \in Cnx(e, ServerFlight), NEW epoch
  PROVE  LET d == DropEpoch(c, epoch)
         IN  /\ d \in Cnx(e, ServerFlight)
             /\ d.state = c.state /\ d.tosend = c.tosend /\ d.sooner = c.sooner
             /\ d.seen = c.seen /\ d.got = c.got
             /\ d.keys = c.keys \ {epoch}
             /\ d.unacked = c.unacked \ Of(c.unacked, epoch)
             /\ d.due \subseteq c.due
BY DEF DropEpoch, Cnx

(* picoquic_ready_state_transition drops both epochs of the handshake; a   *)
(* server queues HANDSHAKE_DONE.                                           *)
LEMMA ReadyIs ==
  ASSUME NEW e \in Ends, NEW c \in Cnx(e, ServerFlight)
  PROVE  LET d == ReadyTransition(c, e)
         IN  /\ d \in Cnx(e, ServerFlight) /\ d.state = "ready"
             /\ d.seen = c.seen /\ d.got = c.got /\ d.sooner = c.sooner
             /\ d.keys = c.keys \ {"initial", "handshake"}
             /\ d.tosend = IF e = "server" THEN {DONE} ELSE {}
             /\ d.unacked \subseteq c.unacked /\ d.due \subseteq c.due
<1> DEFINE a == DropEpoch(c, "initial")
           b == DropEpoch(a, "handshake")
<1>1. a \in Cnx(e, ServerFlight) /\ a.seen = c.seen /\ a.got = c.got /\ a.sooner = c.sooner
      /\ a.keys = c.keys \ {"initial"} /\ a.unacked \subseteq c.unacked /\ a.due \subseteq c.due
  BY DropIs
<1>2. b \in Cnx(e, ServerFlight) /\ b.seen = a.seen /\ b.got = a.got /\ b.sooner = a.sooner
      /\ b.keys = a.keys \ {"handshake"} /\ b.unacked \subseteq a.unacked /\ b.due \subseteq a.due
  BY <1>1, DropIs
<1>3. "ready" \in StatesOf(e)
  BY DEF StatesOf, ClientStates, ServerStates, LateStates
<1>4. (IF e = "server" THEN {DONE} ELSE {}) \subseteq Sends(e, ServerFlight)
  BY DEF Sends, FromServer
<1> HIDE DEF b
<1>5. LET d == [b EXCEPT !.state = "ready", !.tosend = IF e = "server" THEN {DONE} ELSE {}]
      IN  /\ d \in Cnx(e, ServerFlight) /\ d.state = "ready"
          /\ d.seen = b.seen /\ d.got = b.got /\ d.sooner = b.sooner /\ d.keys = b.keys
          /\ d.tosend = (IF e = "server" THEN {DONE} ELSE {})
          /\ d.unacked = b.unacked /\ d.due = b.due
  BY <1>2, <1>3, <1>4 DEF Cnx
<1> USE DEF b
<1>6. ReadyTransition(c, e) = [b EXCEPT !.state = "ready", !.tosend = IF e = "server" THEN {DONE} ELSE {}]
  BY DEF ReadyTransition
<1> QED BY <1>1, <1>2, <1>5, <1>6

(* The context has lost to p what its ACK names, and got what it carries.  *)
Took(c, d, p) ==
  /\ d.sooner = c.sooner
  /\ d.got = c.got \cup (p.msgs \cap Crypto)
  /\ d.seen = c.seen \cup (p.msgs \ {CLOSE})
  /\ d.due \subseteq c.due /\ d.unacked \subseteq c.unacked

Unfreed(c, d, p) ==
  d.keys = c.keys /\ d.tosend = c.tosend /\ d.unacked = c.unacked \ p.ack

(* HANDSHAKE_DONE makes a client ready that waits for it, and is an error  *)
(* before.                                                                 *)
LEMMA DoneIs ==
  ASSUME NEW c \in Cnx("client", ServerFlight)
  PROVE  LET d == HandshakeDoneReceived(c)
         IN  /\ d \in Cnx("client", ServerFlight)
             /\ d.seen = c.seen /\ d.got = c.got /\ d.sooner = c.sooner
             /\ d.unacked \subseteq c.unacked /\ d.due \subseteq c.due
             /\ \/ /\ c.state = "client_ready_start" /\ d.state = "ready"
                   /\ d.keys \subseteq c.keys /\ d.tosend = {}
                \/ /\ d.state \in {c.state} \cup Closed /\ (c.state \in Closed => d.state \in Closed)
                   /\ d.keys = c.keys /\ d.tosend = c.tosend /\ d.unacked = c.unacked
<1>1. c.state \in ClientStates
  BY DEF Cnx, StatesOf
<1>2. CASE c.state = "client_ready_start"
  <2>1. HandshakeDoneReceived(c) = ReadyTransition(c, "client")
    BY <1>2 DEF HandshakeDoneReceived
  <2> QED BY <1>2, <2>1, ReadyIs DEF Ends
<1>3. CASE c.state # "client_ready_start" /\ ~Before(c.state, "client_ready_start")
  <2>1. HandshakeDoneReceived(c) = c
    BY <1>3 DEF HandshakeDoneReceived
  <2> QED BY <2>1
<1>4. CASE c.state # "client_ready_start" /\ Before(c.state, "client_ready_start")
  <2> DEFINE x == CASE c.state \in {"ready", "client_ready_start", "server_false_start"} -> "disconnecting"
                    [] Before(c.state, "server_false_start") /\ c.state # "handshake_failure_resend" -> "handshake_failure"
                    [] OTHER -> c.state
  <2>1. x \in {c.state} \cup Closed /\ x \in ClientStates /\ (c.state \in Closed => x \in Closed)
    <3>1. CASE c.state \in {"ready", "server_false_start"}
      BY <1>1, <1>4, <3>1, Ranks DEF Before, ClientStates, EarlyStates, LateStates, Closed
    <3>2. CASE c.state \notin {"ready", "server_false_start"}
      BY <1>1, <1>4, <3>2 DEF Closed, ClientStates
    <3> QED BY <3>1, <3>2
  <2>2. HandshakeDoneReceived(c) = [c EXCEPT !.state = x]
    BY <1>4 DEF HandshakeDoneReceived, ConnectionError
  <2>3. x \in StatesOf("client") /\ "client" \in Ends
    BY <2>1 DEF StatesOf, Ends
  <2> HIDE DEF x
  <2>4. LET d == [c EXCEPT !.state = x]
        IN  /\ d \in Cnx("client", ServerFlight) /\ d.state = x
            /\ d.keys = c.keys /\ d.tosend = c.tosend /\ d.unacked = c.unacked /\ d.due = c.due
            /\ d.seen = c.seen /\ d.got = c.got /\ d.sooner = c.sooner
    BY <2>3, StateSet
  <2> QED BY <2>1, <2>2, <2>4
<1> QED BY <1>2, <1>3, <1>4

(* CONNECTION_CLOSE leaves nothing but a change of state.                  *)
LEMMA CloseIs ==
  ASSUME NEW e \in Ends, NEW c \in Cnx(e, ServerFlight)
  PROVE  LET d == CloseReceived(c)
         IN  /\ d \in Cnx(e, ServerFlight) /\ d.state \in {"disconnected", "closing_received"}
             /\ d.keys = c.keys /\ d.tosend = c.tosend /\ d.unacked = c.unacked /\ d.due = c.due
             /\ d.seen = c.seen /\ d.got = c.got /\ d.sooner = c.sooner
<1> DEFINE x == IF Before(c.state, "client_ready_start") \/ "app_receive" \notin c.keys
                THEN "disconnected" ELSE "closing_received"
<1>1. x \in {"disconnected", "closing_received"}
  OBVIOUS
<1>2. x \in StatesOf(e)
  BY <1>1 DEF StatesOf, ClientStates, ServerStates, Closed
<1>3. CloseReceived(c) = [c EXCEPT !.state = x]
  BY DEF CloseReceived
<1> HIDE DEF x
<1> QED BY <1>1, <1>2, <1>3, StateSet

(* picoquic_decode_frames at a client: only HANDSHAKE_DONE makes it ready. *)
LEMMA DecodeClientIs ==
  ASSUME NEW c \in Cnx("client", ServerFlight), NEW p \in PacketTo("client", ServerFlight),
         p.epoch \in Epochs
  PROVE  LET d == DecodeFrames(c, p)
         IN  /\ d \in Cnx("client", ServerFlight) /\ Took(c, d, p)
             /\ \/ /\ c.state = "client_ready_start" /\ d.state = "ready" /\ DONE \in p.msgs
                   /\ d.keys \subseteq c.keys /\ d.tosend = {}
                \/ /\ d.state \in {c.state} \cup Closed /\ (c.state \in Closed => d.state \in Closed)
                   /\ Unfreed(c, d, p)
<1> DEFINE r == ReadFrames(c, p)
<1>0. "client" \in Ends
  BY DEF Ends
<1>1. /\ r \in Cnx("client", ServerFlight)
      /\ r.state = c.state /\ r.keys = c.keys /\ r.tosend = c.tosend /\ r.sooner = c.sooner
      /\ r.unacked = c.unacked \ p.ack /\ r.due = c.due \ p.ack
      /\ r.got = c.got \cup (p.msgs \cap Crypto)
      /\ r.seen = c.seen \cup (p.msgs \ {CLOSE})
  BY <1>0, ReadIs
<1> HIDE DEF r
<1>2. CASE CLOSE \in p.msgs
  <2>1. DecodeFrames(c, p) = CloseReceived(r)
    BY <1>2 DEF DecodeFrames, r, ReadFrames
  <2>2. {"disconnected", "closing_received"} \subseteq Closed
    BY DEF Closed
  <2> QED BY <1>0, <1>1, <2>1, <2>2, CloseIs DEF Took, Unfreed
<1>3. CASE CLOSE \notin p.msgs /\ DONE \in p.msgs
  <2>1. DecodeFrames(c, p) = HandshakeDoneReceived(r)
    BY <1>3 DEF DecodeFrames, r, ReadFrames
  <2> QED BY <1>1, <1>3, <2>1, DoneIs DEF Took, Unfreed
<1>4. CASE CLOSE \notin p.msgs /\ DONE \notin p.msgs
  <2>1. DecodeFrames(c, p) = r
    BY <1>4 DEF DecodeFrames, r, ReadFrames
  <2> QED BY <1>1, <2>1 DEF Took, Unfreed
<1> QED BY <1>2, <1>3, <1>4

(* At a server it changes the state only when the peer closes.             *)
LEMMA DecodeServerIs ==
  ASSUME NEW c \in Cnx("server", ServerFlight), NEW p \in PacketTo("server", ServerFlight),
         p.epoch \in Epochs
  PROVE  LET d == DecodeFrames(c, p)
         IN  /\ d \in Cnx("server", ServerFlight) /\ Took(c, d, p) /\ Unfreed(c, d, p)
             /\ d.state \in {c.state, "disconnected", "closing_received"}
<1> DEFINE r == ReadFrames(c, p)
<1>0. "server" \in Ends
  BY DEF Ends
<1>1. /\ r \in Cnx("server", ServerFlight)
      /\ r.state = c.state /\ r.keys = c.keys /\ r.tosend = c.tosend /\ r.sooner = c.sooner
      /\ r.unacked = c.unacked \ p.ack /\ r.due = c.due \ p.ack
      /\ r.got = c.got \cup (p.msgs \cap Crypto)
      /\ r.seen = c.seen \cup (p.msgs \ {CLOSE})
  BY <1>0, ReadIs
<1>d. DONE \notin p.msgs
  BY Distinct DEF PacketTo, Sends, Peer, FromClient
<1> HIDE DEF r
<1>2. CASE CLOSE \in p.msgs
  <2>1. DecodeFrames(c, p) = CloseReceived(r)
    BY <1>2 DEF DecodeFrames, r, ReadFrames
  <2> QED BY <1>0, <1>1, <2>1, CloseIs DEF Took, Unfreed
<1>4. CASE CLOSE \notin p.msgs
  <2>1. DecodeFrames(c, p) = r
    BY <1>d, <1>4 DEF DecodeFrames, r, ReadFrames
  <2> QED BY <1>1, <2>1 DEF Took, Unfreed
<1> QED BY <1>2, <1>4

(* TLS gives the client its Handshake keys with the server hello, and all  *)
(* keys and the client finished with the whole flight.                     *)
LEMMA TlsClientIs ==
  ASSUME NEW c \in Cnx("client", ServerFlight)
  PROVE  LET d == TlsProcessClient(c)
         IN  \/ d = c
             \/ /\ d \in Cnx("client", ServerFlight)
                /\ d.seen = c.seen /\ d.got = c.got /\ d.sooner = c.sooner
                /\ d.unacked = c.unacked /\ d.due = c.due
                /\ c.state \in EarlyStates \cup {"client_handshake_start"}
                /\ SH \in c.got
                /\ \/ /\ d.state = c.state /\ d.tosend = c.tosend
                      /\ d.keys = c.keys \cup {"handshake"}
                   \/ /\ ServerFlight \subseteq c.got
                      /\ d.state = "client_almost_ready" /\ d.tosend = c.tosend \cup {CF}
                      /\ d.keys = c.keys \cup {"handshake", "app_send", "app_receive"}
<1>1. c.state \in ClientStates
  BY DEF Cnx, StatesOf
<1>2. CASE Before("client_handshake_start", c.state) \/ SH \notin c.got
  <2>1. TlsProcessClient(c) = c
    BY <1>2 DEF TlsProcessClient
  <2> QED BY <2>1
<1>3. CASE ~Before("client_handshake_start", c.state) /\ SH \in c.got
  <2>1. c.state \in EarlyStates \cup {"client_handshake_start"}
    BY <1>1, <1>3, Ranks DEF Before, ClientStates, LateStates, EarlyStates, Closed
  <2>2. CASE ServerFlight \subseteq c.got
    <3>1. TlsProcessClient(c) =
            [c EXCEPT !.state = "client_almost_ready", !.tosend = @ \cup {CF},
                      !.keys = @ \cup {"handshake", "app_send", "app_receive"}]
      BY <1>3, <2>2 DEF TlsProcessClient
    <3>2. CF \in Sends("client", ServerFlight) /\ "client_almost_ready" \in StatesOf("client")
          /\ {"handshake", "app_send", "app_receive"} \subseteq AllKeys
      BY DEF Sends, FromClient, StatesOf, ClientStates, LateStates, AllKeys
    <3>3. LET d == [c EXCEPT !.state = "client_almost_ready", !.tosend = @ \cup {CF},
                             !.keys = @ \cup {"handshake", "app_send", "app_receive"}]
          IN  /\ d \in Cnx("client", ServerFlight)
              /\ d.seen = c.seen /\ d.got = c.got /\ d.sooner = c.sooner
              /\ d.unacked = c.unacked /\ d.due = c.due
              /\ d.state = "client_almost_ready" /\ d.tosend = c.tosend \cup {CF}
              /\ d.keys = c.keys \cup {"handshake", "app_send", "app_receive"}
      BY <3>2 DEF Cnx
    <3> QED BY <1>3, <2>1, <2>2, <3>1, <3>3
  <2>3. CASE ~(ServerFlight \subseteq c.got)
    <3>1. TlsProcessClient(c) = [c EXCEPT !.keys = @ \cup {"handshake"}]
      BY <1>3, <2>3 DEF TlsProcessClient
    <3>2. "handshake" \in AllKeys
      BY DEF AllKeys
    <3> QED BY <1>3, <2>1, <3>1, <3>2 DEF Cnx
  <2> QED BY <2>2, <2>3
<1> QED BY <1>2, <1>3

(* What a packet does to the client.                                       *)
ClientTook(c, d, p) ==
  /\ d \in Cnx("client", ServerFlight)
  /\ d.state \notin EarlyStates /\ (c.state \in Closed => d.state \in Closed)
  /\ d.sooner = c.sooner /\ d.due \subseteq c.due /\ d.unacked \subseteq c.unacked
  /\ c.got \subseteq d.got /\ d.got \subseteq c.got \cup p.msgs
  /\ d.seen \subseteq c.seen \cup p.msgs
  /\ d.seen \cap Crypto \subseteq c.seen \cup d.got \/ c.state \in LateStates \cup Closed
  /\ \/ d.state = "ready" /\ DONE \in p.msgs /\ d.keys \subseteq c.keys /\ d.tosend = {}
        /\ c.state = "client_ready_start"
     \/ /\ d.state = "ready" => c.state = "ready"
        /\ c.keys \subseteq d.keys /\ c.tosend \subseteq d.tosend /\ c.unacked \ p.ack \subseteq d.unacked
        /\ \/ d.keys = c.keys /\ d.tosend = c.tosend /\ d.state \in {c.state, "client_handshake_start"} \cup Closed
              /\ (c.state \in LateStates => d.state \in {c.state} \cup Closed)
              /\ (d.state \in LateStates => c.state \in LateStates)
           \/ /\ d.state = "client_handshake_start" /\ d.tosend = c.tosend
              /\ d.keys = c.keys \cup {"handshake"} /\ SH \in d.got
           \/ /\ d.state = "client_almost_ready" /\ d.tosend = c.tosend \cup {CF}
              /\ d.keys = c.keys \cup {"handshake", "app_send", "app_receive"}
              /\ Flight(ServerFlight) \subseteq d.got

(* Frames are processed, then TLS runs.                                    *)
LEMMA ReadClient ==
  ASSUME NEW c \in Cnx("client", ServerFlight), NEW p \in PacketTo("client", ServerFlight),
         p.epoch \in Epochs, c.state \notin EarlyStates
  PROVE  /\ ClientTook(c, DecodeFrames(c, p), p)
         /\ ClientTook(c, TlsProcessClient(DecodeFrames(c, p)), p)
<1> DEFINE r == DecodeFrames(c, p)
<1>1. /\ r \in Cnx("client", ServerFlight) /\ Took(c, r, p)
      /\ \/ /\ c.state = "client_ready_start" /\ r.state = "ready" /\ DONE \in p.msgs
            /\ r.keys \subseteq c.keys /\ r.tosend = {}
         \/ /\ r.state \in {c.state} \cup Closed /\ (c.state \in Closed => r.state \in Closed)
            /\ Unfreed(c, r, p)
  BY DecodeClientIs
<1>2. EarlyStates \cap Closed = {} /\ LateStates \cap Closed = {} /\ LateStates \cap EarlyStates = {}
      /\ "client_handshake_start" \notin Closed \cup EarlyStates \cup LateStates
      /\ {"ready", "client_ready_start", "client_almost_ready"} \subseteq LateStates
  BY DEF EarlyStates, LateStates, Closed
<1> HIDE DEF r
<1>3. ClientTook(c, r, p)
  <2>1. CASE c.state = "client_ready_start" /\ r.state = "ready"
    BY <1>1, <1>2, <2>1 DEF ClientTook, Took
  <2>2. CASE ~(c.state = "client_ready_start" /\ r.state = "ready")
    BY <1>1, <1>2, <2>2 DEF ClientTook, Took, Unfreed
  <2> QED BY <2>1, <2>2
<1>4. ClientTook(c, TlsProcessClient(r), p)
  <2> DEFINE d == TlsProcessClient(r)
  <2>1. \/ d = r
        \/ /\ d \in Cnx("client", ServerFlight)
           /\ d.seen = r.seen /\ d.got = r.got /\ d.sooner = r.sooner
           /\ d.unacked = r.unacked /\ d.due = r.due
           /\ r.state \in EarlyStates \cup {"client_handshake_start"}
           /\ SH \in r.got
           /\ \/ /\ d.state = r.state /\ d.tosend = r.tosend
                 /\ d.keys = r.keys \cup {"handshake"}
              \/ /\ ServerFlight \subseteq r.got
                 /\ d.state = "client_almost_ready" /\ d.tosend = r.tosend \cup {CF}
                 /\ d.keys = r.keys \cup {"handshake", "app_send", "app_receive"}
    BY <1>1, TlsClientIs
  <2> HIDE DEF d
  <2>2. d = r => ClientTook(c, d, p)
    BY <1>3
  <2>3. ASSUME d # r PROVE ClientTook(c, d, p)
    <3>1. r.state = "client_handshake_start" /\ c.state = "client_handshake_start" /\ Unfreed(c, r, p)
      BY <1>1, <1>2, <2>1, <2>3
    <3>2. CASE d.state = r.state
      BY <1>1, <1>2, <2>1, <2>3, <3>1, <3>2 DEF ClientTook, Took, Unfreed
    <3>3. CASE d.state # r.state
      BY <1>1, <1>2, <2>1, <2>3, <3>1, <3>3 DEF ClientTook, Took, Unfreed, Flight
    <3> QED BY <3>2, <3>3
  <2> QED BY <2>2, <2>3 DEF d
<1> QED BY <1>3, <1>4 DEF r

(* A packet that changes nothing, or whose number is all that is kept.     *)
LEMMA IgnoredClient ==
  ASSUME NEW c \in Cnx("client", ServerFlight), NEW p, c.state \notin EarlyStates
  PROVE  ClientTook(c, c, p)
BY DEF ClientTook

(* A packet of a late client is only recorded.                             *)
LEMMA RecordedClient ==
  ASSUME NEW c \in Cnx("client", ServerFlight), NEW p \in PacketTo("client", ServerFlight),
         p.epoch \in Epochs, c.state \in LateStates \cup Closed
  PROVE  ClientTook(c, Recorded(c, p), p)
<1> DEFINE d == Recorded(c, p)
<1>1. /\ d \in Cnx("client", ServerFlight)
      /\ d.state = c.state /\ d.keys = c.keys /\ d.tosend = c.tosend
      /\ d.unacked = c.unacked /\ d.due = c.due /\ d.got = c.got /\ d.sooner = c.sooner
      /\ d.seen = c.seen \cup (p.msgs \ {CLOSE})
  BY RecordedIs DEF Ends
<1>2. c.state \notin EarlyStates
  BY DEF EarlyStates, LateStates, Closed
<1> HIDE DEF d
<1>3. ClientTook(c, d, p)
  BY <1>1, <1>2 DEF ClientTook
<1> QED BY <1>3 DEF d

(* What an Initial packet does to the client                               *)
(* (picoquic_incoming_server_initial),                                     *)
LEMMA InitialClient ==
  ASSUME NEW c \in Cnx("client", ServerFlight), NEW p \in PacketTo("client", ServerFlight),
         p.epoch \in Epochs, c.state # "client_init"
  PROVE  ClientTook(c, IncomingServerInitial(c, p), p)
<1> DEFINE x == IF c.state = "client_init_sent" THEN "client_handshake_start" ELSE c.state
           b == [c EXCEPT !.state = x]
           d == IncomingServerInitial(c, p)
<1>1. c.state \in ClientStates
  BY DEF Cnx, StatesOf
<1>2. x \in ClientStates \ EarlyStates /\ x \in StatesOf("client")
      /\ (x \in LateStates <=> c.state \in LateStates) /\ (x \in Closed <=> c.state \in Closed)
  BY <1>1 DEF ClientStates, EarlyStates, LateStates, Closed, StatesOf
<1>3. /\ b \in Cnx("client", ServerFlight) /\ b.state = x
      /\ b.keys = c.keys /\ b.tosend = c.tosend /\ b.unacked = c.unacked /\ b.due = c.due
      /\ b.seen = c.seen /\ b.got = c.got /\ b.sooner = c.sooner
  BY <1>2, StateSet DEF Ends
<1>4. d = IF ~Before("client_handshake_start", b.state) THEN TlsProcessClient(DecodeFrames(b, p))
          ELSE IF Before(b.state, "ready") THEN Recorded(b, p) ELSE b
  BY DEF IncomingServerInitial
<1> HIDE DEF b, d
<1>5. ClientTook(b, d, p)
  <2>1. CASE ~Before("client_handshake_start", b.state)
    BY <1>2, <1>3, <1>4, <2>1, ReadClient
  <2>2. CASE Before("client_handshake_start", b.state)
    <3>1. b.state \in LateStates \cup Closed
      BY <1>2, <1>3, <2>2, Ranks DEF Before, ClientStates, EarlyStates
    <3>2. d \in {Recorded(b, p), b}
      BY <1>4, <2>2
    <3> QED BY <1>2, <1>3, <3>1, <3>2, RecordedClient, IgnoredClient
  <2> QED BY <2>1, <2>2
<1>6. x = c.state \/ (c.state = "client_init_sent" /\ x = "client_handshake_start")
  OBVIOUS
<1>7. "client_init_sent" \notin LateStates \cup Closed /\ "client_handshake_start" \notin LateStates \cup Closed
      /\ {"ready", "client_ready_start", "client_almost_ready"} \subseteq LateStates
  BY DEF LateStates, Closed
<1> HIDE DEF x
<1>8. ClientTook(c, d, p)
  <2>1. CASE x = c.state
    BY <1>3, <1>5, <2>1 DEF ClientTook
  <2>2. CASE c.state = "client_init_sent" /\ x = "client_handshake_start"
    BY <1>3, <1>5, <1>7, <2>2 DEF ClientTook
  <2> QED BY <1>6, <2>1, <2>2
<1> QED BY <1>8 DEF d

(* and any packet that it can decrypt.                                     *)
LEMMA IncomingClient ==
  ASSUME NEW c \in Cnx("client", ServerFlight), NEW p \in PacketTo("client", ServerFlight),
         p.epoch \in Epochs, ReceiveKey(p.epoch) \in c.keys,
         c.state # "client_init", c.state \in EarlyStates => c.keys = {"initial"}
  PROVE  ClientTook(c, Incoming(c, "client", p), p)
<1>1. CASE p.epoch = "initial"
  <2>1. Incoming(c, "client", p) = IncomingServerInitial(c, p)
    BY <1>1 DEF Incoming
  <2> QED BY <2>1, InitialClient
<1>2. ASSUME p.epoch # "initial" PROVE c.state \notin EarlyStates
  BY <1>2 DEF ReceiveKey, Epochs
<1>3. CASE p.epoch = "handshake"
  <2>1. Incoming(c, "client", p) = IncomingServerHandshake(c, p)
    BY <1>3 DEF Incoming
  <2>2. IncomingServerHandshake(c, p) \in {c, TlsProcessClient(DecodeFrames(c, p)), DecodeFrames(c, p)}
    BY DEF IncomingServerHandshake
  <2> QED BY <1>2, <1>3, <2>1, <2>2, IgnoredClient, ReadClient
<1>4. CASE p.epoch = "app"
  <2>1. Incoming(c, "client", p) = Incoming1rtt(c, "client", p)
    BY <1>4 DEF Incoming
  <2> DEFINE r == Recorded(c, p)
             x == [c EXCEPT !.state = "disconnected"]
             y == [r EXCEPT !.ack_needed = @ \cup {"app"}]
  <2>2. \/ Incoming1rtt(c, "client", p) \in {c, DecodeFrames(c, p)}
        \/ c.state \in {"closing", "disconnecting"} /\ Incoming1rtt(c, "client", p) \in {x, y}
    BY DEF Incoming1rtt
  <2>3. ASSUME c.state \in {"closing", "disconnecting"} PROVE ClientTook(c, x, p)
    <3>1. LET d == x
          IN  /\ d \in Cnx("client", ServerFlight) /\ d.state = "disconnected"
              /\ d.keys = c.keys /\ d.tosend = c.tosend /\ d.unacked = c.unacked /\ d.due = c.due
              /\ d.seen = c.seen /\ d.got = c.got /\ d.sooner = c.sooner
      <4>1. "disconnected" \in StatesOf("client") /\ "client" \in Ends
        BY DEF StatesOf, ClientStates, Closed, Ends
      <4> QED BY <4>1, StateSet
    <3>2. "disconnected" \in Closed /\ "disconnected" \notin EarlyStates \cup LateStates
          /\ c.state \notin LateStates
      BY <2>3 DEF Closed, EarlyStates, LateStates
    <3> HIDE DEF x
    <3> QED BY <3>1, <3>2 DEF ClientTook
  <2>4. ASSUME c.state \in {"closing", "disconnecting"} PROVE ClientTook(c, y, p)
    <3>1. c.state \in Closed /\ ClientTook(c, r, p)
      BY <2>4, RecordedClient DEF Closed
    <3>2. r \in Cnx("client", ServerFlight)
      BY <3>1 DEF ClientTook
    <3> HIDE DEF r
    <3>3. LET d == y
          IN  /\ d \in Cnx("client", ServerFlight) /\ d.state = r.state
              /\ d.keys = r.keys /\ d.tosend = r.tosend /\ d.unacked = r.unacked /\ d.due = r.due
              /\ d.seen = r.seen /\ d.got = r.got /\ d.sooner = r.sooner
      BY <3>2 DEF Cnx, Epochs
    <3> HIDE DEF y
    <3> QED BY <3>1, <3>3 DEF ClientTook
  <2> HIDE DEF x, y, r
  <2> QED BY <1>2, <1>4, <2>1, <2>2, <2>3, <2>4, IgnoredClient, ReadClient
<1> QED BY <1>1, <1>3, <1>4 DEF Epochs

(* TLS answers the client hello with the flight of the server, and takes   *)
(* its keys for receiving with the client finished.                        *)
LEMMA TlsServerIs ==
  ASSUME NEW c \in Cnx("server", ServerFlight)
  PROVE  LET d == TlsProcessServer(c)
         IN  \/ d = c /\ CF \notin c.got
             \/ /\ d \in Cnx("server", ServerFlight)
                /\ d.seen = c.seen /\ d.got = c.got /\ d.sooner = c.sooner
                /\ d.unacked = c.unacked /\ d.due = c.due
                /\ \/ /\ CF \in c.got /\ d.tosend = c.tosend /\ d.keys = c.keys \cup {"app_receive"}
                      /\ \/ d.state = c.state
                         \/ scenario.auth /\ c.state = "server_handshake" /\ d.state = "server_false_start"
                   \/ /\ CF \notin c.got /\ CH \in c.got /\ "app_send" \notin c.keys
                      /\ d.tosend = c.tosend \cup {SH} \cup ServerFlight
                      /\ d.keys = c.keys \cup {"handshake", "app_send"}
                      /\ \/ d.state = c.state
                         \/ c.state = "server_init" /\ d.state = "server_almost_ready"
<1>1. {"server_false_start", "server_almost_ready", c.state} \subseteq StatesOf("server")
  BY DEF Cnx, StatesOf, ServerStates
<1>2. {"handshake", "app_send", "app_receive"} \subseteq AllKeys
      /\ {SH} \cup ServerFlight \subseteq Sends("server", ServerFlight)
  BY DEF AllKeys, Sends, FromServer
<1>3. CASE CF \in c.got
  <2> DEFINE x == IF scenario.auth /\ c.state = "server_handshake" THEN "server_false_start" ELSE c.state
  <2>1. x \in StatesOf("server")
        /\ (x = c.state \/ (scenario.auth /\ c.state = "server_handshake" /\ x = "server_false_start"))
    BY <1>1
  <2>2. TlsProcessServer(c) = [c EXCEPT !.keys = @ \cup {"app_receive"}, !.state = x]
    BY <1>3 DEF TlsProcessServer
  <2> HIDE DEF x
  <2>3. LET d == [c EXCEPT !.keys = @ \cup {"app_receive"}, !.state = x]
        IN  /\ d \in Cnx("server", ServerFlight)
            /\ d.seen = c.seen /\ d.got = c.got /\ d.sooner = c.sooner
            /\ d.unacked = c.unacked /\ d.due = c.due /\ d.tosend = c.tosend
            /\ d.keys = c.keys \cup {"app_receive"} /\ d.state = x
    BY <1>2, <2>1 DEF Cnx
  <2> QED BY <1>3, <2>1, <2>2, <2>3
<1>4. CASE CF \notin c.got /\ CH \in c.got /\ "app_send" \notin c.keys
  <2> DEFINE x == IF c.state = "server_init" THEN "server_almost_ready" ELSE c.state
  <2>1. x \in StatesOf("server")
        /\ (x = c.state \/ (c.state = "server_init" /\ x = "server_almost_ready"))
    BY <1>1
  <2>2. TlsProcessServer(c) =
          [c EXCEPT !.keys = @ \cup {"handshake", "app_send"},
                    !.tosend = @ \cup {SH} \cup ServerFlight, !.state = x]
    BY <1>4 DEF TlsProcessServer
  <2> HIDE DEF x
  <2>3. LET d == [c EXCEPT !.keys = @ \cup {"handshake", "app_send"},
                           !.tosend = @ \cup {SH} \cup ServerFlight, !.state = x]
        IN  /\ d \in Cnx("server", ServerFlight)
            /\ d.seen = c.seen /\ d.got = c.got /\ d.sooner = c.sooner
            /\ d.unacked = c.unacked /\ d.due = c.due
            /\ d.tosend = c.tosend \cup {SH} \cup ServerFlight
            /\ d.keys = c.keys \cup {"handshake", "app_send"} /\ d.state = x
    BY <1>2, <2>1 DEF Cnx
  <2> QED BY <1>4, <2>1, <2>2, <2>3
<1>5. CASE CF \notin c.got /\ ~(CH \in c.got /\ "app_send" \notin c.keys)
  <2>1. TlsProcessServer(c) = c
    BY <1>5 DEF TlsProcessServer
  <2> QED BY <1>5, <2>1
<1> QED BY <1>3, <1>4, <1>5

(* What a packet does to the server: it completes the handshake, or        *)
(* something of the context stays as it was.                               *)
ServerKept(c, d, p) ==
  /\ c.tosend \subseteq d.tosend
  /\ p.epoch # "handshake" => c.unacked \ p.ack \subseteq d.unacked /\ c.keys \subseteq d.keys
  /\ p.epoch = "handshake" =>
       (c.unacked \ Of(c.unacked, "initial")) \ p.ack \subseteq d.unacked
       /\ c.keys \ {"initial"} \subseteq d.keys
  /\ d.state = "ready" => c.state = "ready"
  /\ c.state \in Closed => d.state \in Closed
  /\ \/ /\ d.tosend = c.tosend
        /\ d.keys \subseteq c.keys \cup {"app_receive"}
        /\ CF \notin d.got => "app_receive" \in c.keys \/ "app_receive" \notin d.keys
        /\ \/ d.state \in {c.state, "disconnected", "closing_received", "draining"}
           \/ scenario.auth /\ c.state = "server_handshake" /\ d.state = "server_false_start"
     \/ /\ CH \in d.got /\ "app_send" \notin c.keys
        /\ d.tosend = c.tosend \cup {SH} \cup ServerFlight
        /\ d.keys \subseteq c.keys \cup {"handshake", "app_send"} /\ {"handshake", "app_send"} \subseteq d.keys
        /\ \/ d.state \in {c.state, "disconnected", "closing_received", "draining"}
           \/ c.state = "server_init" /\ d.state = "server_almost_ready"

ServerCompletes(c, d, p) ==
  /\ p.epoch = "handshake" /\ Before(c.state, "server_almost_ready")
  /\ d.state = "ready" /\ CF \in d.got /\ "app_receive" \in d.keys
  /\ d.keys \subseteq c.keys \cup {"app_receive"} /\ d.tosend = {DONE}

ServerTook(c, d, p) ==
  /\ d \in Cnx("server", ServerFlight) /\ d.sooner = c.sooner
  /\ d.due \subseteq c.due /\ d.unacked \subseteq c.unacked
  /\ c.got \subseteq d.got /\ d.got \subseteq c.got \cup p.msgs
  /\ d.seen \subseteq c.seen \cup p.msgs
  /\ d.seen \cap Crypto \subseteq c.seen \cup d.got \/ c.state = "server_almost_ready" \/ CF \in d.got
  /\ c.keys \cap {"app_send", "app_receive"} \subseteq d.keys
  /\ d.state # "none"
  /\ ServerKept(c, d, p) \/ ServerCompletes(c, d, p)

(* A packet that the server ignores changes nothing,                       *)
LEMMA IgnoredServer ==
  ASSUME NEW c \in Cnx("server", ServerFlight), NEW p, c.state # "none"
  PROVE  ServerTook(c, c, p)
BY DEF ServerTook, ServerKept

(* one that it records acknowledges nothing new,                           *)
LEMMA RecordedServer ==
  ASSUME NEW c \in Cnx("server", ServerFlight), NEW p \in PacketTo("server", ServerFlight),
         p.epoch \in Epochs, c.state # "none", c.state = "server_almost_ready" \/ CF \in c.got
  PROVE  ServerTook(c, Recorded(c, p), p)
<1> DEFINE d == Recorded(c, p)
<1>1. /\ d \in Cnx("server", ServerFlight)
      /\ d.state = c.state /\ d.keys = c.keys /\ d.tosend = c.tosend
      /\ d.unacked = c.unacked /\ d.due = c.due /\ d.got = c.got /\ d.sooner = c.sooner
      /\ d.seen = c.seen \cup (p.msgs \ {CLOSE})
  BY RecordedIs DEF Ends
<1> HIDE DEF d
<1>3. ServerTook(c, d, p)
  BY <1>1 DEF ServerTook, ServerKept
<1> QED BY <1>3 DEF d

(* and one that it decodes moves TLS on.                                   *)
LEMMA DecodedServer ==
  ASSUME NEW c \in Cnx("server", ServerFlight), NEW p \in PacketTo("server", ServerFlight),
         p.epoch \in Epochs, c.state # "none"
  PROVE  /\ ServerTook(c, DecodeFrames(c, p), p)
         /\ ServerTook(c, TlsProcessServer(DecodeFrames(c, p)), p)
<1> DEFINE r == DecodeFrames(c, p)
           d == TlsProcessServer(r)
<1>1. /\ r \in Cnx("server", ServerFlight) /\ Took(c, r, p) /\ Unfreed(c, r, p)
      /\ r.state \in {c.state, "disconnected", "closing_received"}
  BY DecodeServerIs
<1>c. {"disconnected", "closing_received"} \subseteq Closed /\ "server_init" \notin Closed
      /\ "server_handshake" \notin Closed /\ {"disconnected", "closing_received"} \cap
         {"none", "ready", "server_init", "server_handshake", "server_almost_ready"} = {}
  BY DEF Closed
<1>2. \/ d = r /\ CF \notin r.got
      \/ /\ d \in Cnx("server", ServerFlight)
         /\ d.seen = r.seen /\ d.got = r.got /\ d.sooner = r.sooner
         /\ d.unacked = r.unacked /\ d.due = r.due
         /\ \/ /\ CF \in r.got /\ d.tosend = r.tosend /\ d.keys = r.keys \cup {"app_receive"}
               /\ \/ d.state = r.state
                  \/ scenario.auth /\ r.state = "server_handshake" /\ d.state = "server_false_start"
            \/ /\ CF \notin r.got /\ CH \in r.got /\ "app_send" \notin r.keys
               /\ d.tosend = r.tosend \cup {SH} \cup ServerFlight
               /\ d.keys = r.keys \cup {"handshake", "app_send"}
               /\ \/ d.state = r.state
                  \/ r.state = "server_init" /\ d.state = "server_almost_ready"
  BY <1>1, TlsServerIs
<1> HIDE DEF r, d
<1>3. ServerTook(c, r, p)
  BY <1>1, <1>c DEF ServerTook, ServerKept, Took, Unfreed
<1>4. d # r => ServerTook(c, d, p)
  <2>1. ASSUME d # r, CF \in r.got PROVE ServerTook(c, d, p)
    BY <1>1, <1>2, <1>c, <2>1 DEF ServerTook, ServerKept, Took, Unfreed
  <2>2. ASSUME d # r, CF \notin r.got PROVE ServerTook(c, d, p)
    BY <1>1, <1>2, <1>c, <2>2 DEF ServerTook, ServerKept, Took, Unfreed
  <2> QED BY <2>1, <2>2
<1>5. ServerTook(c, d, p)
  BY <1>3, <1>4
<1> QED BY <1>3, <1>5 DEF r, d

(* A Handshake packet with the client finished makes the server ready      *)
(* (picoquic_incoming_client_handshake).                                   *)
LEMMA HandshakeServer ==
  ASSUME NEW c \in Cnx("server", ServerFlight), NEW p \in PacketTo("server", ServerFlight),
         p.epoch = "handshake", "app_send" \in c.keys, Before(c.state, "server_almost_ready"),
         c.state # "none"
  PROVE  ServerTook(c, IncomingClientHandshake(c, p), p)
<1> DEFINE r == DecodeFrames(c, p)
           x == DropEpoch(r, "initial")
           y == TlsProcessServer(x)
           d == IncomingClientHandshake(c, p)
<1>0. p.epoch \in Epochs /\ "server" \in Ends
  BY DEF Epochs, Ends
<1>1. /\ r \in Cnx("server", ServerFlight) /\ Took(c, r, p) /\ Unfreed(c, r, p)
      /\ r.state \in {c.state, "disconnected", "closing_received"}
  BY <1>0, DecodeServerIs
<1>2. /\ x \in Cnx("server", ServerFlight)
      /\ x.state = r.state /\ x.tosend = r.tosend /\ x.sooner = r.sooner
      /\ x.seen = r.seen /\ x.got = r.got /\ x.keys = r.keys \ {"initial"}
      /\ x.unacked = r.unacked \ Of(r.unacked, "initial") /\ x.due \subseteq r.due
  BY <1>0, <1>1, DropIs
<1>3. /\ y \in Cnx("server", ServerFlight)
      /\ y.seen = x.seen /\ y.got = x.got /\ y.sooner = x.sooner
      /\ y.unacked = x.unacked /\ y.due = x.due /\ y.tosend = x.tosend
      /\ \/ y = x /\ CF \notin x.got
         \/ /\ CF \in x.got /\ y.keys = x.keys \cup {"app_receive"}
            /\ \/ y.state = x.state
               \/ scenario.auth /\ x.state = "server_handshake" /\ y.state = "server_false_start"
  <2>1. "app_send" \in x.keys
    BY <1>1, <1>2 DEF Unfreed
  <2>2. \/ y = x /\ CF \notin x.got
        \/ /\ y \in Cnx("server", ServerFlight)
           /\ y.seen = x.seen /\ y.got = x.got /\ y.sooner = x.sooner
           /\ y.unacked = x.unacked /\ y.due = x.due
           /\ CF \in x.got /\ y.tosend = x.tosend /\ y.keys = x.keys \cup {"app_receive"}
           /\ \/ y.state = x.state
              \/ scenario.auth /\ x.state = "server_handshake" /\ y.state = "server_false_start"
    BY <1>2, <2>1, TlsServerIs
  <2> QED BY <1>2, <2>2
<1>4. d = IF Before(y.state, "ready") /\ CF \in y.got THEN ReadyTransition(y, "server") ELSE y
  BY Ranks, <1>0 DEF IncomingClientHandshake
<1>c. {"disconnected", "closing_received"} \subseteq Closed
      /\ {"server_handshake", "server_false_start", "ready", "none"} \cap Closed = {}
  BY DEF Closed
<1>s. c.state # "ready" /\ c.state # "server_almost_ready"
  BY Ranks DEF Before
<1>e. Of(r.unacked, "initial") \cap c.unacked \subseteq Of(c.unacked, "initial")
  BY DEF Of
<1>5. CASE Before(y.state, "ready") /\ CF \in y.got
  <2> DEFINE z == ReadyTransition(y, "server")
  <2>1. /\ z \in Cnx("server", ServerFlight) /\ z.state = "ready"
        /\ z.seen = y.seen /\ z.got = y.got /\ z.sooner = y.sooner
        /\ z.keys = y.keys \ {"initial", "handshake"} /\ z.tosend = {DONE}
        /\ z.unacked \subseteq y.unacked /\ z.due \subseteq y.due
    BY <1>0, <1>3, ReadyIs
  <2>2. d = z
    BY <1>4, <1>5
  <2> HIDE DEF r, x, y, z, d
  <2>3. ServerCompletes(c, z, p)
    BY <1>1, <1>2, <1>3, <1>5, <2>1 DEF ServerCompletes, Took, Unfreed
  <2>4. ServerTook(c, z, p)
    BY <1>1, <1>2, <1>3, <1>5, <2>1, <2>3 DEF ServerTook, Took, Unfreed
  <2> QED BY <2>2, <2>4 DEF d
<1>6. CASE ~(Before(y.state, "ready") /\ CF \in y.got)
  <2>1. d = y
    BY <1>4, <1>6
  <2> HIDE DEF r, x, y, d
  <2>2. CF \in y.got => y.state \in {"disconnected", "closing_received"} \/ ~Before(c.state, "ready")
    <3>1. Before("server_false_start", "ready")
      BY Ranks DEF Before
    <3> QED BY <1>1, <1>2, <1>3, <1>6, <3>1
  <2>3. Before(c.state, "ready")
    <3>1. c.state \in ServerStates
      BY DEF Cnx, StatesOf
    <3> QED BY <3>1, Ranks DEF Before, ServerStates, Closed
  <2>4. ServerKept(c, y, p)
    <3>1. c.unacked \ p.ack = r.unacked
      BY <1>1 DEF Unfreed
    <3>2. (c.unacked \ Of(c.unacked, "initial")) \ p.ack \subseteq y.unacked
      BY <1>2, <1>3, <1>e, <3>1
    <3>3. /\ y.tosend = c.tosend /\ c.keys \ {"initial"} \subseteq y.keys
          /\ y.keys \subseteq c.keys \cup {"app_receive"}
          /\ CF \notin y.got => "app_receive" \in c.keys \/ "app_receive" \notin y.keys
      BY <1>1, <1>2, <1>3 DEF Unfreed
    <3>4. y.state \in {c.state, "disconnected", "closing_received"}
      BY <1>1, <1>2, <1>3, <2>2, <2>3
    <3> QED BY <1>c, <1>s, <3>2, <3>3, <3>4 DEF ServerKept
  <2>5. ServerTook(c, y, p)
    BY <1>1, <1>2, <1>3, <2>4, <1>c DEF ServerTook, Took, Unfreed
  <2> QED BY <2>1, <2>5 DEF d
<1> QED BY <1>5, <1>6

(* What any packet that it can decrypt does to the server.                 *)
LEMMA IncomingServer ==
  ASSUME NEW c \in Cnx("server", ServerFlight), NEW p \in PacketTo("server", ServerFlight),
         p.epoch \in Epochs, c.state # "none",
         p.epoch = "handshake" => "app_send" \in c.keys,
         p.epoch = "app" => CF \in c.got,
         c.state = "ready" => CF \in c.got
  PROVE  ServerTook(c, Incoming(c, "server", p), p)
<1>1. CASE p.epoch = "initial"
  <2>1. Incoming(c, "server", p) = IncomingClientInitial(c, p)
    BY <1>1 DEF Incoming
  <2>2. CASE Before(c.state, "server_almost_ready")
    BY <1>1, <2>1, <2>2, DecodedServer DEF IncomingClientInitial
  <2>3. CASE ~Before(c.state, "server_almost_ready") /\ Before(c.state, "ready")
    <3>1. c.state = "server_almost_ready"
      BY <2>3, Ranks DEF Before, Cnx, StatesOf, ServerStates, Closed
    <3> QED BY <2>1, <2>3, <3>1, RecordedServer DEF IncomingClientInitial
  <2>4. CASE ~Before(c.state, "server_almost_ready") /\ ~Before(c.state, "ready")
    BY <2>1, <2>4, IgnoredServer DEF IncomingClientInitial
  <2> QED BY <2>2, <2>3, <2>4
<1>2. CASE p.epoch = "handshake"
  <2>1. Incoming(c, "server", p) = IncomingClientHandshake(c, p)
    BY <1>2 DEF Incoming
  <2>2. CASE Before(c.state, "server_almost_ready")
    BY <1>2, <2>1, <2>2, HandshakeServer
  <2>3. CASE ~Before(c.state, "server_almost_ready") /\ ~Before("ready", c.state)
    <3>1. c.state \in {"server_almost_ready", "ready"}
      BY <2>3, Ranks DEF Before, Cnx, StatesOf, ServerStates, Closed
    <3>2. IncomingClientHandshake(c, p) = Recorded(c, p)
      BY <2>3 DEF IncomingClientHandshake
    <3> QED BY <2>1, <3>1, <3>2, RecordedServer
  <2>4. CASE ~Before(c.state, "server_almost_ready") /\ Before("ready", c.state)
    <3>1. IncomingClientHandshake(c, p) = c
      BY <2>4 DEF IncomingClientHandshake
    <3> QED BY <2>1, <3>1, IgnoredServer
  <2> QED BY <2>2, <2>3, <2>4
<1>3. CASE p.epoch = "app"
  <2>1. Incoming(c, "server", p) = Incoming1rtt(c, "server", p)
    BY <1>3 DEF Incoming
  <2> DEFINE r == Recorded(c, p)
             x == [c EXCEPT !.state = "draining"]
             y == [r EXCEPT !.ack_needed = @ \cup {"app"}]
  <2>2. \/ Incoming1rtt(c, "server", p) \in {c, DecodeFrames(c, p)}
        \/ c.state \in {"closing", "disconnecting"} /\ Incoming1rtt(c, "server", p) \in {x, y}
    BY DEF Incoming1rtt
  <2>c. "draining" \in Closed /\ "draining" \notin {"none", "ready"}
        /\ {"closing", "disconnecting"} \subseteq Closed /\ CF \in c.got
    BY <1>3 DEF Closed
  <2>3. ASSUME c.state \in {"closing", "disconnecting"} PROVE ServerTook(c, x, p)
    <3>1. LET d == x
          IN  /\ d \in Cnx("server", ServerFlight) /\ d.state = "draining"
              /\ d.keys = c.keys /\ d.tosend = c.tosend /\ d.unacked = c.unacked /\ d.due = c.due
              /\ d.seen = c.seen /\ d.got = c.got /\ d.sooner = c.sooner
      <4>1. "draining" \in StatesOf("server") /\ "server" \in Ends
        BY DEF StatesOf, ServerStates, Closed, Ends
      <4> QED BY <4>1, StateSet
    <3> HIDE DEF x
    <3> QED BY <1>3, <2>c, <3>1 DEF ServerTook, ServerKept
  <2>4. ASSUME c.state \in {"closing", "disconnecting"} PROVE ServerTook(c, y, p)
    <3>1. ServerTook(c, r, p)
      BY <2>c, RecordedServer
    <3>2. r \in Cnx("server", ServerFlight)
      BY <3>1 DEF ServerTook
    <3> HIDE DEF r
    <3>3. LET d == y
          IN  /\ d \in Cnx("server", ServerFlight) /\ d.state = r.state
              /\ d.keys = r.keys /\ d.tosend = r.tosend /\ d.unacked = r.unacked /\ d.due = r.due
              /\ d.seen = r.seen /\ d.got = r.got /\ d.sooner = r.sooner
      BY <3>2 DEF Cnx, Epochs
    <3>4. ServerKept(c, r, p)
      BY <1>3, <3>1 DEF ServerTook, ServerCompletes
    <3> HIDE DEF y
    <3> QED BY <3>1, <3>3, <3>4 DEF ServerTook, ServerKept
  <2>5. ServerTook(c, DecodeFrames(c, p), p)
    BY <2>c, DecodedServer
  <2> HIDE DEF x, y, r
  <2> QED BY <2>1, <2>2, <2>3, <2>4, <2>5, IgnoredServer
<1> QED BY <1>1, <1>2, <1>3 DEF Epochs

-----------------------------------------------------------------------------
(* The invariant, as a predicate on the flight F and the policy of the     *)
(* server, the contexts c and s of the two ends, the packets n in the      *)
(* network and whether the client has used a Retry.                        *)

(* Packets on the way or stored.                                           *)
Wire(c, s, n) == n \cup c.sooner \cup s.sooner

Carried(w, e, m) == \E p \in w : p.to = e /\ m \in p.msgs

Queue(c) == c.tosend \cup c.unacked \cup c.due

Typed(F, c, s, n, r) ==
  /\ c \in Cnx("client", F) /\ s \in Cnx("server", F)
  /\ n \subseteq PacketTo("client", F) \cup PacketTo("server", F)
  /\ r \in BOOLEAN

(* Nothing happens before the client has sent its hello, and a client that *)
(* has heard of no server has nothing.                                     *)
Fresh(c, s, n) ==
  /\ c.state = "client_init" => n = {} /\ c = NewCnx("client_init", {CH}) /\ s.state = "none"
  /\ s.state = "none" => s = NewCnx("none", {})

EarlyOK(c) ==
  c.state \in EarlyStates => c.keys = {"initial"} /\ c.got = {} /\ c.seen = {}

(* What is acknowledged was given to TLS.                                  *)
AcksHonest(F, c, s, w) ==
  /\ s.seen \cap TlsOf(F) \subseteq s.got
  /\ c.seen \cap TlsOf(F) \subseteq c.got \/ c.state \in Closed
  /\ \A p \in w : p.to = "client" => p.ack \cap TlsOf(F) \subseteq s.got
  /\ \A p \in w : p.to = "server" => p.ack \cap TlsOf(F) \subseteq c.got \/ c.state \in Closed

(* Each message exists only after the one it answers was received: the     *)
(* flight after the client hello, the client finished after the flight,    *)
(* HANDSHAKE_DONE and readiness after the client finished.                 *)
HelloKnown(F, c, s, w) ==
  \/ \E m \in Flight(F) : m \in Queue(s) \cup c.got \cup c.seen \/ Carried(w, "client", m)
  \/ "handshake" \in s.keys \/ "app_send" \in s.keys
  => CH \in s.got /\ "app_send" \in s.keys

FlightKnown(F, c, s, w) ==
  \/ CF \in Queue(c) \cup s.got \cup s.seen \/ Carried(w, "server", CF)
  \/ "app_send" \in c.keys \/ c.state \in LateStates
  => Flight(F) \subseteq c.got

FinishedKnown(c, s, w) ==
  /\ "app_receive" \in s.keys => CF \in s.got
  /\ \/ DONE \in Queue(s) \/ Carried(w, "client", DONE) \/ c.state = "ready" \/ s.state = "ready"
     => CF \in s.got /\ "app_receive" \in s.keys

HandshakeKeyed(c, w) ==
  "handshake" \in c.keys \/ (\E p \in w : p.to = "server" /\ p.epoch = "handshake") => SH \in c.got

(* What the server has not sent yet is nowhere else, and the server hello  *)
(* is sent before anything else.                                           *)
HelloFirst(F, c, s, w) ==
  /\ s.state = "server_almost_ready" => SH \in s.tosend
  /\ \A m \in Flight(F) : m \in s.tosend =>
       m \notin s.due \cup s.unacked \cup c.got \cup c.seen /\ ~Carried(w, "client", m)

RetryOnce(P, s, w, r) ==
  /\ \A p \in w : p.epoch = "retry" => p.to = "client" /\ P = "retry"
  /\ \A p \in w : p.token => r
  /\ P = "retry" /\ ~r => s.state = "none"

(* A message that the other end lacks is queued, and can be sent.          *)
Held(c, m, epoch) == m \in c.tosend \cup c.unacked /\ epoch \in c.keys

ClientHolds(c, s) ==
  /\ CH \in s.got \/ c.state \in Closed \/ Held(c, CH, "initial")
  /\ "app_send" \in c.keys => CF \in s.got \/ c.state \in Closed \/ Held(c, CF, "handshake")

ServerHolds(F, c, s) ==
  "app_send" \in s.keys =>
    /\ SH \in c.got \/ c.state \in Closed \/ Held(s, SH, "initial")
    /\ \A m \in F : m \in c.got \/ c.state \in Closed \/ Held(s, m, "handshake")

Inv(F, P, c, s, n, r) ==
  /\ Typed(F, c, s, n, r)
  /\ Fresh(c, s, n) /\ EarlyOK(c)
  /\ AcksHonest(F, c, s, Wire(c, s, n))
  /\ HelloKnown(F, c, s, Wire(c, s, n))
  /\ FlightKnown(F, c, s, Wire(c, s, n))
  /\ FinishedKnown(c, s, Wire(c, s, n))
  /\ HandshakeKeyed(c, Wire(c, s, n))
  /\ HelloFirst(F, c, s, Wire(c, s, n))
  /\ RetryOnce(P, s, Wire(c, s, n), r)
  /\ ClientHolds(c, s) /\ ServerHolds(F, c, s)

View(c, s, n, r) == Inv(ServerFlight, scenario.policy, c, s, n, r)

(* What a server has left to send: a handshake that it abandons before it  *)
(* is complete was never complete at the client.  With a client            *)
(* certificate the handshake of the server lasts longer than its flight.   *)
Failing == {"handshake_failure", "handshake_failure_resend"}
Starting == {"server_init", "server_handshake", "server_almost_ready"} \cup Failing

SomeLeft(s) ==
  /\ s.state \in Starting =>
       /\ s.tosend \subseteq Flight(ServerFlight)
       /\ SH \in s.tosend => ServerFlight \subseteq s.tosend
       /\ ~scenario.auth /\ "app_send" \in s.keys => s.tosend # {}
  /\ scenario.auth /\ scenario.closes = 0 => s.state \notin Failing

ClosesEarly == ~(scenario.auth => scenario.closes = 0)

Onward(s, d) ==
  SomeLeft(s) => SomeLeft(d) /\ (s.state \in Closed => d.state \in Closed \/ ClosesEarly)

Contexts == Cnx("client", ServerFlight) \cup Cnx("server", ServerFlight)

IndInv ==
  /\ scenario \in Scenarios
  /\ closes \in Nat
  /\ cnx \in [Ends -> Contexts]
  /\ View(cnx["client"], cnx["server"], net, retried)

(* The invariant after a step, with the scenario before it.                *)
Reached ==
  /\ cnx' \in [Ends -> Contexts]
  /\ View(cnx'["client"], cnx'["server"], net', retried')
  /\ cnx["client"].state \in Closed => cnx'["client"].state \in Closed
  /\ Onward(cnx["server"], cnx'["server"])

-----------------------------------------------------------------------------
(* Steps of one end *)

(* A packet that the client may send.                                      *)
ClientPacket(c, r, q) ==
  /\ q.to = "server" /\ q.epoch \in Epochs /\ (q.token => r)
  /\ CF \in q.msgs => CF \in Queue(c)
  /\ q.ack \subseteq c.seen
  /\ q.epoch = "handshake" => "handshake" \in c.keys

(* What a step of the client from c to d must respect.                     *)
ClientMove(F, c, d, s, n, n2, r) ==
  /\ d \in Cnx("client", F)
  /\ n2 \subseteq PacketTo("client", F) \cup PacketTo("server", F)
  /\ d.state # "client_init" /\ EarlyOK(d)
  /\ c.got \subseteq d.got /\ (c.state \in Closed => d.state \in Closed)
  /\ d.seen \cap TlsOf(F) \subseteq d.got \/ d.state \in Closed
  /\ \A q \in n2 \cup d.sooner : q \in Wire(c, s, n) \/ ClientPacket(c, r, q)
  /\ CF \in Queue(d) \/ "app_send" \in d.keys \/ d.state \in LateStates => Flight(F) \subseteq d.got
  /\ \A m \in Flight(F) : m \in d.got \cup d.seen =>
       m \in c.got \cup c.seen \/ Carried(Wire(c, s, n), "client", m)
  /\ d.state = "ready" => CF \in s.got /\ "app_receive" \in s.keys
  /\ "handshake" \in d.keys => SH \in d.got
  /\ ClientHolds(d, s)

(* A step of the client within these bounds keeps the invariant,           *)
LEMMA ClientStep ==
  ASSUME NEW F, NEW P, NEW c, NEW d, NEW s, NEW n, NEW n2, NEW r,
         Inv(F, P, c, s, n, r), ClientMove(F, c, d, s, n, n2, r)
  PROVE  Inv(F, P, d, s, n2, r)
<1> DEFINE w == Wire(c, s, n)
           v == Wire(d, s, n2)
<1>1. \A q \in v : q \in w \/ ClientPacket(c, r, q)
  BY DEF ClientMove, Wire
<1>2. \A m : Carried(v, "client", m) => Carried(w, "client", m)
  BY <1>1 DEF Carried, ClientPacket
<1>3. Carried(v, "server", CF) => Carried(w, "server", CF) \/ CF \in Queue(c)
  BY <1>1 DEF Carried, ClientPacket
<1> USE DEF Inv, ClientMove
<1> HIDE DEF w, v
<1>w. /\ AcksHonest(F, c, s, w) /\ HelloKnown(F, c, s, w) /\ FlightKnown(F, c, s, w)
      /\ FinishedKnown(c, s, w) /\ HandshakeKeyed(c, w) /\ HelloFirst(F, c, s, w) /\ RetryOnce(P, s, w, r)
  BY DEF w
<1>4. Typed(F, d, s, n2, r)
  BY DEF Typed
<1>5. Fresh(d, s, n2) /\ EarlyOK(d)
  BY DEF Fresh
<1>6. AcksHonest(F, d, s, v)
  BY <1>1, <1>w DEF AcksHonest, ClientPacket
<1>7. HelloKnown(F, d, s, v)
  BY <1>2, <1>w DEF HelloKnown, w
<1>8. FlightKnown(F, d, s, v)
  BY <1>3, <1>w DEF FlightKnown
<1>9. FinishedKnown(d, s, v)
  BY <1>2, <1>w DEF FinishedKnown
<1>10. HandshakeKeyed(d, v)
  BY <1>1, <1>w DEF HandshakeKeyed, ClientPacket
<1>11. HelloFirst(F, d, s, v)
  BY <1>2, <1>w DEF HelloFirst, Flight, w
<1>12. RetryOnce(P, s, v, r)
  BY <1>1, <1>w DEF RetryOnce, ClientPacket, Epochs
<1>13. ServerHolds(F, d, s)
  BY DEF ServerHolds
<1> QED BY <1>4, <1>5, <1>6, <1>7, <1>8, <1>9, <1>10, <1>11, <1>12, <1>13 DEF v

(* The same for the server.                                                *)
ServerPacket(F, P, s, d, q) ==
  /\ q.to = "client" /\ ~q.token /\ (q.epoch = "retry" => P = "retry")
  /\ \A m \in Flight(F) \cup {DONE} : m \in q.msgs => m \in Queue(s)
  /\ \A m \in Flight(F) : m \in q.msgs => m \notin d.tosend
  /\ q.ack \subseteq s.seen

ServerMove(F, P, c, s, d, n, n2, r) ==
  /\ d \in Cnx("server", F)
  /\ n2 \subseteq PacketTo("client", F) \cup PacketTo("server", F)
  /\ c.state # "client_init" /\ (d.state = "none" => d = s)
  /\ s.got \subseteq d.got /\ s.keys \cap {"app_send", "app_receive"} \subseteq d.keys
  /\ d.seen \cap TlsOf(F) \subseteq d.got
  /\ \A q \in n2 \cup d.sooner : q \in Wire(c, s, n) \/ ServerPacket(F, P, s, d, q)
  /\ (\E m \in Flight(F) : m \in Queue(d)) \/ "handshake" \in d.keys \/ "app_send" \in d.keys
       => CH \in d.got /\ "app_send" \in d.keys
  /\ "app_receive" \in d.keys => CF \in d.got
  /\ DONE \in Queue(d) \/ d.state = "ready" => CF \in d.got /\ "app_receive" \in d.keys
  /\ CF \in d.got \cup d.seen => CF \in s.got \cup s.seen \/ Carried(Wire(c, s, n), "server", CF)
  /\ d.state = "server_almost_ready" => SH \in d.tosend
  /\ \A m \in Flight(F) : m \in d.tosend =>
       m \notin d.due \cup d.unacked \cup c.got \cup c.seen /\ ~Carried(Wire(c, s, n), "client", m)
  /\ P = "retry" /\ ~r => d.state = "none"
  /\ ServerHolds(F, c, d)

(* and a step of the server within its bounds.                             *)
LEMMA ServerStep ==
  ASSUME NEW F, NEW P, NEW c, NEW d, NEW s, NEW n, NEW n2, NEW r,
         Inv(F, P, c, s, n, r), ServerMove(F, P, c, s, d, n, n2, r)
  PROVE  Inv(F, P, c, d, n2, r)
<1> DEFINE w == Wire(c, s, n)
           v == Wire(c, d, n2)
<1>1. \A q \in v : q \in w \/ ServerPacket(F, P, s, d, q)
  BY DEF ServerMove, Wire
<1>2. \A m \in Flight(F) \cup {DONE} : Carried(v, "client", m) => Carried(w, "client", m) \/ m \in Queue(s)
  BY <1>1 DEF Carried, ServerPacket
<1>3. Carried(v, "server", CF) => Carried(w, "server", CF)
  BY <1>1 DEF Carried, ServerPacket
<1> USE DEF Inv, ServerMove
<1> HIDE DEF w, v
<1>w. /\ AcksHonest(F, c, s, w) /\ HelloKnown(F, c, s, w) /\ FlightKnown(F, c, s, w)
      /\ FinishedKnown(c, s, w) /\ HandshakeKeyed(c, w) /\ HelloFirst(F, c, s, w) /\ RetryOnce(P, s, w, r)
  BY DEF w
<1>4. Typed(F, c, d, n2, r)
  BY DEF Typed
<1>5. Fresh(c, d, n2) /\ EarlyOK(c)
  BY DEF Fresh
<1>6. AcksHonest(F, c, d, v)
  BY <1>1, <1>w DEF AcksHonest, ServerPacket
<1>7. HelloKnown(F, c, d, v)
  BY <1>2, <1>w DEF HelloKnown, w
<1>8. FlightKnown(F, c, d, v)
  BY <1>3, <1>w DEF FlightKnown, w
<1>9. FinishedKnown(c, d, v)
  BY <1>2, <1>w DEF FinishedKnown
<1>10. HandshakeKeyed(c, v)
  BY <1>1, <1>w DEF HandshakeKeyed, ServerPacket
<1>11. HelloFirst(F, c, d, v)
  <2>1. \A m \in Flight(F) : m \in d.tosend => ~Carried(v, "client", m)
    BY <1>1 DEF Carried, ServerPacket, w
  <2> QED BY <2>1, <1>w DEF HelloFirst, w
<1>12. RetryOnce(P, d, v, r)
  BY <1>1, <1>w DEF RetryOnce, ServerPacket
<1>13. ClientHolds(c, d)
  BY DEF ClientHolds
<1> QED BY <1>4, <1>5, <1>6, <1>7, <1>8, <1>9, <1>10, <1>11, <1>12, <1>13 DEF v

-----------------------------------------------------------------------------
(* Packets that arrive *)

(* The client processes a packet from the network, or a stored one.        *)
LEMMA ClientReads ==
  ASSUME NEW c, NEW s, NEW n, NEW r, View(c, s, n, r), NEW b \in Cnx("client", ServerFlight),
         b.state = c.state, b.keys = c.keys, b.tosend = c.tosend, b.unacked = c.unacked,
         b.due = c.due, b.seen = c.seen, b.got = c.got, b.sooner \subseteq c.sooner,
         NEW p \in n \cup c.sooner, p.to = "client", p.epoch \in Epochs,
         ReceiveKey(p.epoch) \in c.keys, NEW n2 \in SUBSET n
  PROVE  /\ View(Incoming(b, "client", p), s, n2, r)
         /\ c.state \in Closed => Incoming(b, "client", p).state \in Closed
<1> DEFINE F == ServerFlight
           P == scenario.policy
           w == Wire(c, s, n)
           d == Incoming(b, "client", p)
<1>1. Inv(F, P, c, s, n, r)
  BY DEF View
<1> HIDE DEF F
<1>2. /\ c \in Cnx("client", F) /\ s \in Cnx("server", F)
      /\ n \subseteq PacketTo("client", F) \cup PacketTo("server", F)
      /\ Fresh(c, s, n) /\ EarlyOK(c) /\ AcksHonest(F, c, s, w) /\ HelloKnown(F, c, s, w)
      /\ FlightKnown(F, c, s, w) /\ FinishedKnown(c, s, w) /\ HandshakeKeyed(c, w)
      /\ ClientHolds(c, s)
  BY <1>1 DEF Inv, Typed
<1>3. p \in PacketTo("client", F) /\ p \in w
  <2>1. CASE p \in n
    <3>1. p \notin PacketTo("server", F)
      BY DEF PacketTo
    <3> QED BY <1>2, <2>1, <3>1 DEF Wire
  <2>2. CASE p \in c.sooner
    <3>1. c.sooner \subseteq PacketTo("client", F)
      BY <1>2 DEF Cnx, Usable
    <3> QED BY <2>2, <3>1 DEF Wire
  <2> QED BY <2>1, <2>2
<1>4. c.state # "client_init"
  BY <1>2 DEF Fresh, NewCnx
<1>5. c.state \in EarlyStates => c.keys = {"initial"}
  BY <1>2 DEF EarlyOK
<1>6. ClientTook(b, d, p)
  BY <1>3, <1>4, <1>5, IncomingClient DEF F
<1> HIDE DEF d
<1>c. LateStates \cap Closed = {} /\ "client_init" \in EarlyStates
      /\ {"ready", "client_ready_start", "client_almost_ready"} \subseteq LateStates
      /\ "client_handshake_start" \notin LateStates
  BY DEF LateStates, Closed, EarlyStates
<1>k. Crypto = TlsOf(F) /\ {CH, CF} \subseteq TlsOf(F) /\ Flight(F) \subseteq TlsOf(F)
      /\ CF \notin Flight(F) /\ CH # CF
  BY Distinct DEF Crypto, TlsOf, Flight, F
<1>a. p.ack \cap TlsOf(F) \subseteq s.got
  BY <1>2, <1>3 DEF AcksHonest
<1>b. DONE \in p.msgs => CF \in s.got /\ "app_receive" \in s.keys
  BY <1>2, <1>3 DEF FinishedKnown, Carried
<1>f. CF \in s.got => Flight(F) \subseteq c.got
  BY <1>2 DEF FlightKnown
<1>h. CF \in s.got => CH \in s.got
  BY <1>2, <1>f DEF HelloKnown, Flight
<1>m. p.msgs \subseteq Sends("server", F)
  BY <1>3 DEF PacketTo, Peer
<1>q. /\ d \in Cnx("client", F)
      /\ d.state \notin EarlyStates /\ (c.state \in Closed => d.state \in Closed)
      /\ d.sooner = b.sooner /\ d.due \subseteq c.due /\ d.unacked \subseteq c.unacked
      /\ c.got \subseteq d.got /\ d.got \subseteq c.got \cup p.msgs
      /\ d.seen \subseteq c.seen \cup p.msgs
      /\ d.seen \cap TlsOf(F) \subseteq c.seen \cup d.got \/ c.state \in LateStates \cup Closed
  BY <1>6, <1>k DEF ClientTook, F
<1>r. \/ /\ d.state = "ready" /\ DONE \in p.msgs /\ d.keys \subseteq c.keys /\ d.tosend = {}
         /\ c.state = "client_ready_start"
      \/ /\ d.state = "ready" => c.state = "ready"
         /\ c.keys \subseteq d.keys /\ c.tosend \subseteq d.tosend /\ c.unacked \ p.ack \subseteq d.unacked
         /\ \/ /\ d.keys = c.keys /\ d.tosend = c.tosend
               /\ d.state \in LateStates => c.state \in LateStates
            \/ /\ d.state = "client_handshake_start" /\ d.tosend = c.tosend
               /\ d.keys = c.keys \cup {"handshake"} /\ SH \in d.got
            \/ /\ d.state = "client_almost_ready" /\ d.tosend = c.tosend \cup {CF}
               /\ d.keys = c.keys \cup {"handshake", "app_send", "app_receive"}
               /\ Flight(F) \subseteq d.got
  BY <1>6 DEF ClientTook, F
<1>7. EarlyOK(d) /\ d.state # "client_init"
  BY <1>q, <1>c DEF EarlyOK
<1>8. d.seen \cap TlsOf(F) \subseteq d.got \/ d.state \in Closed
  <2>1. CASE c.state \in Closed
    BY <1>q, <2>1
  <2>2. CASE c.state \notin Closed
    <3>1. c.seen \cap TlsOf(F) \subseteq c.got
      BY <1>2, <2>2 DEF AcksHonest
    <3>2. CASE c.state \in LateStates
      <4>1. Flight(F) \subseteq c.got
        BY <1>2, <3>2 DEF FlightKnown
      <4>2. p.msgs \cap TlsOf(F) \subseteq Flight(F)
        BY <1>m, Distinct DEF TlsOf, Flight, Sends, FromServer, F
      <4> QED BY <1>q, <3>1, <4>1, <4>2
    <3>3. CASE c.state \notin LateStates
      BY <1>q, <2>2, <3>1, <3>3
    <3> QED BY <3>2, <3>3
  <2> QED BY <2>1, <2>2
<1>9. \A q \in n2 \cup d.sooner : q \in Wire(c, s, n)
  BY <1>q DEF Wire
<1>10. CF \in Queue(d) \/ "app_send" \in d.keys \/ d.state \in LateStates => Flight(F) \subseteq d.got
  <2>1. CF \in Queue(c) \/ "app_send" \in c.keys \/ c.state \in LateStates => Flight(F) \subseteq d.got
    BY <1>2, <1>q DEF FlightKnown
  <2> QED BY <1>q, <1>r, <1>c, <2>1 DEF Queue
<1>11. \A m \in Flight(F) : m \in d.got \cup d.seen =>
         m \in c.got \cup c.seen \/ Carried(Wire(c, s, n), "client", m)
  BY <1>q, <1>3 DEF Carried
<1>12. d.state = "ready" => CF \in s.got /\ "app_receive" \in s.keys
  BY <1>r, <1>b, <1>2, <1>c DEF FinishedKnown
<1>13. "handshake" \in d.keys => SH \in d.got
  <2>1. "handshake" \in c.keys => SH \in d.got
    BY <1>2, <1>q DEF HandshakeKeyed
  <2> QED BY <1>r, <2>1 DEF Flight
<1>14. ClientHolds(d, s)
  <2>1. CASE d.state = "ready" /\ DONE \in p.msgs
    BY <1>b, <1>h, <2>1 DEF ClientHolds
  <2>2. CASE ~(d.state = "ready" /\ DONE \in p.msgs)
    <3>1. CH \in s.got \/ d.state \in Closed \/ Held(d, CH, "initial")
      BY <1>2, <1>q, <1>r, <1>a, <1>k, <2>2 DEF ClientHolds, Held
    <3>2. ASSUME "app_send" \in d.keys PROVE CF \in s.got \/ d.state \in Closed \/ Held(d, CF, "handshake")
      <4>1. CASE "app_send" \in c.keys
        BY <1>2, <1>q, <1>r, <1>a, <1>k, <2>2, <4>1 DEF ClientHolds, Held
      <4>2. CASE "app_send" \notin c.keys
        BY <1>r, <2>2, <3>2, <4>2 DEF Held
      <4> QED BY <4>1, <4>2
    <3> QED BY <3>1, <3>2 DEF ClientHolds
  <2> QED BY <2>1, <2>2
<1>15. n2 \subseteq PacketTo("client", F) \cup PacketTo("server", F)
  BY <1>2
<1>16. ClientMove(F, c, d, s, n, n2, r)
  BY <1>q, <1>7, <1>8, <1>9, <1>10, <1>11, <1>12, <1>13, <1>14, <1>15 DEF ClientMove
<1>17. Inv(F, P, d, s, n2, r)
  BY <1>1, <1>16, ClientStep
<1> QED BY <1>16, <1>17 DEF View, ClientMove, F, d

(* The server processes a packet from the network, or a stored one.        *)
LEMMA ServerReads ==
  ASSUME NEW c, NEW s, NEW n, NEW r, View(c, s, n, r), NEW b \in Cnx("server", ServerFlight),
         b.state = s.state, b.keys = s.keys, b.tosend = s.tosend, b.unacked = s.unacked,
         b.due = s.due, b.seen = s.seen, b.got = s.got, b.sooner \subseteq s.sooner,
         NEW p \in n \cup s.sooner, p.to = "server", p.epoch \in Epochs, s.state # "none",
         ReceiveKey(p.epoch) \in s.keys, NEW n2 \in SUBSET n
  PROVE  View(c, Incoming(b, "server", p), n2, r) /\ Onward(s, Incoming(b, "server", p))
<1> DEFINE F == ServerFlight
           P == scenario.policy
           w == Wire(c, s, n)
           d == Incoming(b, "server", p)
<1>1. Inv(F, P, c, s, n, r)
  BY DEF View
<1> HIDE DEF F
<1>2. /\ c \in Cnx("client", F) /\ s \in Cnx("server", F)
      /\ n \subseteq PacketTo("client", F) \cup PacketTo("server", F)
      /\ Fresh(c, s, n) /\ AcksHonest(F, c, s, w) /\ HelloKnown(F, c, s, w)
      /\ FlightKnown(F, c, s, w) /\ FinishedKnown(c, s, w) /\ HandshakeKeyed(c, w)
      /\ HelloFirst(F, c, s, w) /\ RetryOnce(P, s, w, r) /\ ServerHolds(F, c, s)
  BY <1>1 DEF Inv, Typed
<1>3. p \in PacketTo("server", F) /\ p \in w
  <2>1. CASE p \in n
    <3>1. p \notin PacketTo("client", F)
      BY DEF PacketTo
    <3> QED BY <1>2, <2>1, <3>1 DEF Wire
  <2>2. CASE p \in s.sooner
    <3>1. s.sooner \subseteq PacketTo("server", F)
      BY <1>2 DEF Cnx, Usable
    <3> QED BY <2>2, <3>1 DEF Wire
  <2> QED BY <2>1, <2>2
<1>4. p.epoch = "handshake" => "app_send" \in s.keys
  BY <1>2 DEF HelloKnown, ReceiveKey
<1>5. p.epoch = "app" => CF \in s.got
  BY <1>2 DEF FinishedKnown, ReceiveKey
<1>6. s.state = "ready" => CF \in s.got
  BY <1>2 DEF FinishedKnown
<1>7. ServerTook(b, d, p)
  BY <1>3, <1>4, <1>5, <1>6, IncomingServer DEF F
<1> HIDE DEF d
<1>k. Crypto = TlsOf(F) /\ {CH, CF} \subseteq TlsOf(F) /\ Flight(F) \subseteq TlsOf(F)
      /\ CF \notin Flight(F) /\ CH \notin Flight(F) /\ CH # CF /\ DONE \notin Flight(F)
      /\ SH # DONE /\ Flight(F) = {SH} \cup F
  BY Distinct DEF Crypto, TlsOf, Flight, F
<1>m. p.msgs \cap TlsOf(F) \subseteq {CH, CF}
  <2>1. p.msgs \subseteq Sends("client", F)
    BY <1>3 DEF PacketTo, Peer
  <2> QED BY <2>1, Distinct DEF TlsOf, Sends, FromClient, F
<1>f. CF \in s.got \cup s.seen \cup p.msgs => Flight(F) \subseteq c.got
  BY <1>2, <1>3 DEF FlightKnown, Carried
<1>h. SH \in c.got => CH \in s.got /\ "app_send" \in s.keys
  BY <1>2 DEF HelloKnown, Flight
<1>q. /\ d \in Cnx("server", F) /\ d.sooner = b.sooner
      /\ d.due \subseteq s.due /\ d.unacked \subseteq s.unacked
      /\ s.got \subseteq d.got /\ d.got \subseteq s.got \cup p.msgs
      /\ d.seen \subseteq s.seen \cup p.msgs
      /\ d.seen \cap TlsOf(F) \subseteq s.seen \cup d.got \/ s.state = "server_almost_ready" \/ CF \in d.got
      /\ s.keys \cap {"app_send", "app_receive"} \subseteq d.keys
      /\ d.state # "none"
  BY <1>7, <1>k DEF ServerTook, F
<1>r. \/ /\ d.state = "ready" /\ CF \in d.got /\ "app_receive" \in d.keys
         /\ d.keys \subseteq s.keys \cup {"app_receive"} /\ d.tosend = {DONE}
      \/ /\ s.tosend \subseteq d.tosend
         /\ p.epoch # "handshake" => s.unacked \ p.ack \subseteq d.unacked /\ s.keys \subseteq d.keys
         /\ p.epoch = "handshake" =>
              (s.unacked \ Of(s.unacked, "initial")) \ p.ack \subseteq d.unacked
              /\ s.keys \ {"initial"} \subseteq d.keys
         /\ d.state = "ready" => s.state = "ready"
         /\ \/ /\ d.tosend = s.tosend
               /\ d.keys \subseteq s.keys \cup {"app_receive"}
               /\ CF \notin d.got => "app_receive" \in s.keys \/ "app_receive" \notin d.keys
               /\ d.state = "server_almost_ready" => s.state = "server_almost_ready"
            \/ /\ CH \in d.got /\ "app_send" \notin s.keys
               /\ d.tosend = s.tosend \cup {SH} \cup F
               /\ d.keys \subseteq s.keys \cup {"handshake", "app_send"} /\ {"handshake", "app_send"} \subseteq d.keys
  BY <1>7 DEF ServerTook, ServerKept, ServerCompletes, F
<1>8. c.state # "client_init"
  BY <1>2 DEF Fresh
<1>9. d.seen \cap TlsOf(F) \subseteq d.got
  <2>1. s.seen \cap TlsOf(F) \subseteq d.got
    BY <1>2, <1>q DEF AcksHonest
  <2>2. CASE CF \in d.got
    <3>1. CH \in d.got
      BY <1>f, <1>h, <1>q, <2>2 DEF Flight
    <3> QED BY <1>m, <1>q, <2>1, <2>2, <3>1
  <2>3. CASE s.state = "server_almost_ready"
    <3>1. SH \in s.tosend /\ SH \notin c.got
      BY <1>2, <1>k, <2>3 DEF HelloFirst
    <3>2. CH \in s.got
      BY <1>2, <3>1 DEF HelloKnown, Flight, Queue
    <3>3. CF \notin p.msgs
      BY <1>f, <3>1 DEF Flight
    <3> QED BY <1>m, <1>q, <2>1, <3>2, <3>3
  <2> QED BY <1>q, <2>1, <2>2, <2>3
<1>10. \A q \in n2 \cup d.sooner : q \in Wire(c, s, n)
  BY <1>q DEF Wire
<1>11. (\E m \in Flight(F) : m \in Queue(d)) \/ "handshake" \in d.keys \/ "app_send" \in d.keys
         => CH \in d.got /\ "app_send" \in d.keys
  <2>1. (\E m \in Flight(F) : m \in Queue(s)) \/ "handshake" \in s.keys \/ "app_send" \in s.keys
          => CH \in d.got /\ "app_send" \in d.keys
    BY <1>2, <1>q DEF HelloKnown
  <2> QED BY <1>q, <1>r, <1>k, <2>1 DEF Queue
<1>12. "app_receive" \in d.keys => CF \in d.got
  BY <1>2, <1>q, <1>r DEF FinishedKnown
<1>13. DONE \in Queue(d) \/ d.state = "ready" => CF \in d.got /\ "app_receive" \in d.keys
  <2>1. DONE \in Queue(s) \/ s.state = "ready" => CF \in d.got /\ "app_receive" \in d.keys
    BY <1>2, <1>q DEF FinishedKnown
  <2> QED BY <1>q, <1>r, <1>k, <2>1 DEF Queue
<1>14. CF \in d.got \cup d.seen => CF \in s.got \cup s.seen \/ Carried(Wire(c, s, n), "server", CF)
  BY <1>q, <1>3 DEF Carried
<1>15. d.state = "server_almost_ready" => SH \in d.tosend
  BY <1>2, <1>r DEF HelloFirst
<1>16. ASSUME NEW m \in Flight(F), m \in d.tosend
       PROVE  m \notin d.due \cup d.unacked \cup c.got \cup c.seen /\ ~Carried(Wire(c, s, n), "client", m)
  <2>1. m \in s.tosend \/ "app_send" \notin s.keys
    BY <1>r, <1>k, <1>16
  <2>2. CASE m \in s.tosend
    BY <1>2, <1>q, <2>2 DEF HelloFirst
  <2>3. CASE "app_send" \notin s.keys
    BY <1>2, <1>q, <2>3 DEF HelloKnown, Queue
  <2> QED BY <2>1, <2>2, <2>3
<1>17. ~(P = "retry" /\ ~r)
  BY <1>2 DEF RetryOnce
<1>18. ServerHolds(F, c, d)
  <2>1. CASE CF \in d.got
    BY <1>f, <1>q, <1>k, <2>1 DEF ServerHolds
  <2>2. CASE CF \notin d.got
    <3>1. p.ack \cap Flight(F) \subseteq c.got \/ c.state \in Closed
      BY <1>2, <1>3, <1>k DEF AcksHonest
    <3>2. p.epoch = "handshake" => SH \in c.got
      BY <1>2, <1>3 DEF HandshakeKeyed
    <3>3. CASE "app_send" \in s.keys
      <4>1. SH \in c.got \/ c.state \in Closed \/ Held(d, SH, "initial")
        BY <1>2, <1>r, <1>k, <2>2, <3>1, <3>2, <3>3 DEF ServerHolds, Held
      <4>2. ASSUME NEW m \in F PROVE m \in c.got \/ c.state \in Closed \/ Held(d, m, "handshake")
        <5>1. m \notin Of(s.unacked, "initial")
          BY EpochIs DEF F, Of
        <5> QED BY <1>2, <1>r, <1>k, <2>2, <3>1, <3>3, <5>1 DEF ServerHolds, Held
      <4> QED BY <4>1, <4>2 DEF ServerHolds
    <3>4. CASE "app_send" \notin s.keys
      <4>1. p.epoch = "initial"
        BY <1>4, <1>5, <1>q, <2>2, <3>4 DEF Epochs
      <4>2. "initial" \in d.keys \/ "app_send" \notin d.keys
        BY <1>r, <2>2, <4>1 DEF ReceiveKey
      <4> QED BY <1>r, <1>k, <2>2, <3>4, <4>2 DEF ServerHolds, Held
    <3> QED BY <3>3, <3>4
  <2> QED BY <2>1, <2>2
<1>19. n2 \subseteq PacketTo("client", F) \cup PacketTo("server", F)
  BY <1>2
<1>20. ServerMove(F, P, c, s, d, n, n2, r)
  BY <1>q, <1>8, <1>9, <1>10, <1>11, <1>12, <1>13, <1>14, <1>15, <1>16, <1>17, <1>18, <1>19 DEF ServerMove
<1>21. Inv(F, P, c, d, n2, r)
  BY <1>1, <1>20, ServerStep
<1>22. ASSUME SomeLeft(s)
       PROVE  SomeLeft(d) /\ (s.state \in Closed => d.state \in Closed \/ ClosesEarly)
  <2>1. "ready" \notin Starting \cup Failing
    BY DEF Starting, Failing
  <2>2. CASE ServerCompletes(b, d, p)
    <3>1. d.state = "ready" /\ CF \in d.got /\ Before(s.state, "server_almost_ready")
      BY <2>2 DEF ServerCompletes
    <3>2. s.state \in Closed => s.state \in Failing
      BY <3>1, Ranks DEF Closed, Failing, Before
    <3>3. s.state \in Closed => ClosesEarly
      <4>1. ASSUME s.state \in Closed, ~ClosesEarly PROVE FALSE
        <5>1. ~scenario.auth
          BY <1>22, <3>2, <4>1 DEF SomeLeft, ClosesEarly
        <5>2. Flight(F) \subseteq c.got /\ "app_send" \in s.keys
          BY <1>f, <1>h, <1>k, <1>q, <3>1
        <5>3. s.tosend \subseteq Flight(F) /\ s.tosend # {}
          BY <1>22, <3>2, <4>1, <5>1, <5>2 DEF SomeLeft, Starting, F
        <5> QED BY <1>2, <5>2, <5>3 DEF HelloFirst
      <4> QED BY <4>1
    <3> QED BY <2>1, <3>1, <3>3 DEF SomeLeft
  <2>3. CASE ServerKept(b, d, p)
    <3> DEFINE Ended == {"disconnected", "closing_received", "draining"}
    <3>1. /\ Ended \cap (Starting \cup Failing) = {} /\ "server_false_start" \notin Starting \cup Failing
          /\ {"server_init", "server_almost_ready"} \subseteq Starting
          /\ "server_almost_ready" \notin Failing
      BY DEF Starting, Failing
    <3>2. /\ \/ d.state \in {s.state} \cup Ended \cup {"server_false_start"}
             \/ s.state = "server_init" /\ d.state = "server_almost_ready"
          /\ s.state \in Closed => d.state \in Closed
          /\ \/ d.tosend = s.tosend /\ d.keys \subseteq s.keys \cup {"app_receive"}
             \/ d.tosend = s.tosend \cup {SH} \cup F
      BY <2>3 DEF ServerKept, F
    <3>3. d.state \in Starting => s.state \in Starting
      BY <3>1, <3>2
    <3>4. d.state \in Failing => s.state \in Failing
      BY <3>1, <3>2
    <3>5. ASSUME d.state \in Starting
          PROVE  /\ d.tosend \subseteq Flight(F)
                 /\ SH \in d.tosend => F \subseteq d.tosend
                 /\ ~scenario.auth /\ "app_send" \in d.keys => d.tosend # {}
      BY <1>22, <1>k, <3>2, <3>3, <3>5 DEF SomeLeft, F
    <3> QED BY <1>22, <3>2, <3>4, <3>5 DEF SomeLeft, F
  <2> QED BY <1>7, <2>2, <2>3 DEF ServerTook
<1> QED BY <1>21, <1>22 DEF View, Onward, F, d

(* The first packet of a connection that the server accepts.               *)
LEMMA ServerStarts ==
  ASSUME NEW c, NEW s, NEW n, NEW r, View(c, s, n, r), s.state = "none",
         NEW p \in n, p.to = "server", p.epoch = "initial", ~Refused(p)
  PROVE  /\ View(c, IncomingClientInitial(NewCnx("server_init", {}), p), n \ {p}, r)
         /\ Onward(s, IncomingClientInitial(NewCnx("server_init", {}), p))
<1> DEFINE F == ServerFlight
           P == scenario.policy
           w == Wire(c, s, n)
           b == NewCnx("server_init", {})
           d == IncomingClientInitial(b, p)
<1>1. Inv(F, P, c, s, n, r)
  BY DEF View
<1> HIDE DEF F
<1>2. /\ c \in Cnx("client", F)
      /\ n \subseteq PacketTo("client", F) \cup PacketTo("server", F)
      /\ Fresh(c, s, n) /\ AcksHonest(F, c, s, w) /\ HelloKnown(F, c, s, w)
      /\ FlightKnown(F, c, s, w) /\ RetryOnce(P, s, w, r)
  BY <1>1 DEF Inv, Typed
<1>3. p \in PacketTo("server", F) /\ p \in w
  <2>1. p \notin PacketTo("client", F)
    BY DEF PacketTo
  <2> QED BY <1>2, <2>1 DEF Wire
<1>4. s = NewCnx("none", {})
  BY <1>2 DEF Fresh
<1>5. s.got = {} /\ s.seen = {} /\ s.keys = {"initial"} /\ s.sooner = {}
  BY <1>4 DEF NewCnx
<1>6. /\ b \in Cnx("server", F) /\ b.state = "server_init" /\ b.keys = {"initial"}
      /\ b.tosend = {} /\ b.unacked = {} /\ b.due = {} /\ b.seen = {} /\ b.got = {} /\ b.sooner = {}
  <2>1. "server_init" \in StatesOf("server") /\ {"initial"} \subseteq AllKeys
    BY DEF StatesOf, ServerStates, AllKeys
  <2> QED BY <2>1 DEF NewCnx, Cnx
<1>7. ServerTook(b, d, p)
  <2>1. Incoming(b, "server", p) = d
    BY DEF Incoming
  <2>2. p.epoch \in Epochs
    BY DEF Epochs
  <2> HIDE DEF b, d
  <2> QED BY <1>3, <1>6, <2>1, <2>2, IncomingServer DEF F
<1> HIDE DEF b, d
<1>k. Crypto = TlsOf(F) /\ DONE \notin Flight(F) /\ CF \in TlsOf(F) /\ Flight(F) = {SH} \cup F
  BY Distinct DEF Crypto, TlsOf, Flight, F
<1>8. ~(\E m \in Flight(F) : m \in c.got \cup c.seen \/ Carried(w, "client", m))
  BY <1>2, <1>5 DEF HelloKnown
<1>9. CF \notin p.msgs
  BY <1>2, <1>3, <1>8 DEF FlightKnown, Carried, Flight
<1>10. ServerKept(b, d, p)
  BY <1>7 DEF ServerTook, ServerCompletes
<1>11. /\ d \in Cnx("server", F) /\ d.sooner = {} /\ d.due = {} /\ d.unacked = {}
       /\ d.got \subseteq p.msgs /\ d.seen \subseteq p.msgs
       /\ d.seen \cap TlsOf(F) \subseteq d.got /\ d.state # "none"
  BY <1>6, <1>7, <1>9, <1>k DEF ServerTook, F
<1>12. /\ d.state \notin {"ready", "server_almost_ready"} \/ (d.state = "server_almost_ready" /\ SH \in d.tosend)
       /\ \/ d.tosend = {} /\ d.keys \subseteq {"initial", "app_receive"}
             /\ ("app_receive" \notin d.keys)
          \/ CH \in d.got /\ d.tosend = {SH} \cup F
             /\ d.keys \subseteq {"initial", "handshake", "app_send"} /\ {"initial", "handshake", "app_send"} \subseteq d.keys
  <2>1. p.epoch # "handshake"
    OBVIOUS
  <2> QED BY <1>6, <1>9, <1>10, <1>11, <2>1 DEF ServerKept, F
<1>13. P # "retry" \/ r
  BY <1>2, <1>3 DEF RetryOnce, Refused
<1>14. ServerHolds(F, c, d)
  BY <1>12 DEF ServerHolds, Held
<1>15. c.state # "client_init"
  BY <1>2 DEF Fresh
<1>16. CF \notin d.got \cup d.seen
  BY <1>9, <1>11
<1>17. \A m \in Flight(F) : m \notin c.got \cup c.seen /\ ~Carried(w, "client", m)
  BY <1>8
<1>18. DONE \notin Queue(d) /\ (\A m \in Flight(F) : m \in Queue(d) => CH \in d.got /\ "app_send" \in d.keys)
  BY <1>11, <1>12, <1>k DEF Queue
<1>19. ServerMove(F, P, c, s, d, n, n \ {p}, r)
  <2>1. \A q \in (n \ {p}) \cup d.sooner : q \in Wire(c, s, n)
    BY <1>11 DEF Wire
  <2>2. s.got \subseteq d.got /\ s.keys \cap {"app_send", "app_receive"} \subseteq d.keys
    BY <1>5
  <2> QED BY <1>2, <1>11, <1>12, <1>13, <1>14, <1>15, <1>16, <1>17, <1>18, <2>1, <2>2 DEF ServerMove
<1>20. Inv(F, P, c, d, n \ {p}, r)
  BY <1>1, <1>19, ServerStep
<1>21. SomeLeft(d)
  <2>1. d.state \notin Failing
    BY <1>6, <1>7, <1>9, <1>10 DEF ServerKept, Failing
  <2>2. d.tosend = {} \/ d.tosend = {SH} \cup F
    BY <1>12
  <2>3. "app_send" \in d.keys => d.tosend # {}
    BY <1>12
  <2> QED BY <1>k, <2>1, <2>2, <2>3, Distinct DEF SomeLeft, F
<1>22. s.state \notin Closed
  BY DEF Closed
<1> QED BY <1>20, <1>21, <1>22 DEF View, Onward, F, d, b

(* A Retry resets the client.                                              *)
LEMMA ClientRetries ==
  ASSUME NEW c, NEW s, NEW n, NEW r, View(c, s, n, r), NEW p \in n, p.epoch = "retry",
         c.state = "client_init_sent", r # TRUE, NEW r2, r2 = TRUE
  PROVE  View(NewCnx("client_init_sent", {CH}), s, n \ {p}, r2)
<1> DEFINE F == ServerFlight
           P == scenario.policy
           w == Wire(c, s, n)
           d == NewCnx("client_init_sent", {CH})
           v == Wire(d, s, n \ {p})
<1>1. Inv(F, P, c, s, n, r)
  BY DEF View
<1> HIDE DEF F
<1>2. /\ s \in Cnx("server", F)
      /\ n \subseteq PacketTo("client", F) \cup PacketTo("server", F)
      /\ Fresh(c, s, n) /\ EarlyOK(c) /\ AcksHonest(F, c, s, w) /\ HelloKnown(F, c, s, w)
      /\ FlightKnown(F, c, s, w) /\ FinishedKnown(c, s, w) /\ HandshakeKeyed(c, w)
      /\ RetryOnce(P, s, w, r)
  BY <1>1 DEF Inv, Typed
<1>3. p \in w
  BY DEF Wire
<1>4. s.state = "none"
  BY <1>2, <1>3 DEF RetryOnce
<1>5. s = NewCnx("none", {})
  BY <1>2, <1>4 DEF Fresh
<1>6. s.got = {} /\ s.seen = {} /\ s.keys = {"initial"} /\ s.tosend = {} /\ s.unacked = {} /\ s.due = {}
  BY <1>5 DEF NewCnx
<1>7. c.got = {} /\ c.seen = {} /\ c.state \notin Closed
  BY <1>2 DEF EarlyOK, EarlyStates, Closed
<1>8. /\ d \in Cnx("client", F) /\ d.state = "client_init_sent" /\ d.keys = {"initial"}
      /\ d.tosend = {CH} /\ d.unacked = {} /\ d.due = {} /\ d.seen = {} /\ d.got = {} /\ d.sooner = {}
  <2>1. "client_init_sent" \in StatesOf("client") /\ {"initial"} \subseteq AllKeys /\ CH \in Sends("client", F)
    BY DEF StatesOf, ClientStates, EarlyStates, AllKeys, Sends, FromClient
  <2> QED BY <2>1 DEF NewCnx, Cnx
<1>9. v \subseteq w
  BY <1>8 DEF Wire
<1> HIDE DEF d, w, v
<1>10. Typed(F, d, s, n \ {p}, r2)
  BY <1>2, <1>8 DEF Typed
<1>11. Fresh(d, s, n \ {p}) /\ EarlyOK(d)
  BY <1>5, <1>8 DEF Fresh, EarlyOK
<1>12. AcksHonest(F, d, s, v)
  BY <1>2, <1>6, <1>7, <1>8, <1>9 DEF AcksHonest
<1>13. HelloKnown(F, d, s, v)
  BY <1>2, <1>6, <1>8, <1>9 DEF HelloKnown, Carried, Queue
<1>14. FlightKnown(F, d, s, v)
  <2>1. ~Carried(w, "server", CF)
    BY <1>2, <1>7 DEF FlightKnown, Flight
  <2>2. ~Carried(v, "server", CF)
    BY <1>9, <2>1 DEF Carried
  <2>3. CF \notin Queue(d) \cup s.got \cup s.seen
    BY <1>6, <1>8, Distinct DEF Queue
  <2> QED BY <1>8, <2>2, <2>3 DEF FlightKnown, LateStates
<1>15. FinishedKnown(d, s, v)
  <2>1. ~Carried(w, "client", DONE)
    BY <1>2, <1>6 DEF FinishedKnown
  <2>2. ~Carried(v, "client", DONE)
    BY <1>9, <2>1 DEF Carried
  <2> QED BY <1>4, <1>6, <1>8, <2>2 DEF FinishedKnown, Queue
<1>16. HandshakeKeyed(d, v)
  BY <1>2, <1>7, <1>8, <1>9 DEF HandshakeKeyed
<1>17. HelloFirst(F, d, s, v)
  BY <1>4, <1>6 DEF HelloFirst
<1>18. RetryOnce(P, s, v, r2)
  BY <1>2, <1>9 DEF RetryOnce
<1>19. ClientHolds(d, s) /\ ServerHolds(F, d, s)
  BY <1>6, <1>8 DEF ClientHolds, ServerHolds, Held
<1> QED BY <1>10, <1>11, <1>12, <1>13, <1>14, <1>15, <1>16, <1>17, <1>18, <1>19 DEF Inv, View, v, F, d

-----------------------------------------------------------------------------
(* Steps that give an end nothing new *)

(* A step of the client that gives it nothing new: what is queued stays    *)
(* queued, and the Initial keys go only when the client finished is sent.  *)
QuietClient(c, d) ==
  /\ d \in Cnx("client", ServerFlight)
  /\ d.got = c.got /\ d.seen = c.seen
  /\ \/ /\ d.keys = c.keys
        /\ (c.tosend \cup c.unacked) \ {CLOSE} \subseteq d.tosend \cup d.unacked
     \/ /\ CF \in Queue(c) /\ d.keys = c.keys \ {"initial"}
        /\ CF \in c.tosend \cup c.unacked => CF \in d.tosend \cup d.unacked
  /\ CF \in Queue(d) => CF \in Queue(c)
  /\ d.state # "client_init" /\ (c.state \in Closed => d.state \in Closed)
  /\ d.state \in EarlyStates => c.state \in EarlyStates
  /\ d.state \in LateStates => c.state \in LateStates
  /\ d.state = "ready" => c.state = "ready"

(* A step of the client that receives nothing keeps it when each new       *)
(* packet is one that it may send.                                         *)
LEMMA ClientQuiet ==
  ASSUME NEW c, NEW s, NEW n, NEW r, View(c, s, n, r), NEW d, QuietClient(c, d),
         NEW n2 \in SUBSET (PacketTo("client", ServerFlight) \cup PacketTo("server", ServerFlight)),
         \A q \in n2 \cup d.sooner : q \in Wire(c, s, n) \/ ClientPacket(c, r, q)
  PROVE  View(d, s, n2, r)
<1> DEFINE F == ServerFlight
           P == scenario.policy
           w == Wire(c, s, n)
<1>1. Inv(F, P, c, s, n, r)
  BY DEF View
<1> HIDE DEF F
<1> USE DEF QuietClient
<1>2. /\ EarlyOK(c) /\ AcksHonest(F, c, s, w) /\ FlightKnown(F, c, s, w) /\ FinishedKnown(c, s, w)
      /\ HandshakeKeyed(c, w) /\ ClientHolds(c, s)
  BY <1>1 DEF Inv
<1>3. EarlyOK(d)
  <2>1. CF \in Queue(c) => c.state \notin EarlyStates
    BY <1>2 DEF EarlyOK, FlightKnown, Flight
  <2> QED BY <1>2, <2>1 DEF EarlyOK
<1>4. d.seen \cap TlsOf(F) \subseteq d.got \/ d.state \in Closed
  BY <1>2 DEF AcksHonest
<1>5. CF \in Queue(d) \/ "app_send" \in d.keys \/ d.state \in LateStates => Flight(F) \subseteq d.got
  BY <1>2 DEF FlightKnown
<1>6. d.state = "ready" => CF \in s.got /\ "app_receive" \in s.keys
  BY <1>2 DEF FinishedKnown
<1>7. ClientHolds(d, s)
  <2>1. CF \in Queue(c) => CH \in s.got
    BY <1>1 DEF Inv, FlightKnown, HelloKnown, Flight
  <2> QED BY <1>2, <2>1, Distinct DEF ClientHolds, Held
<1>8. "handshake" \in d.keys => SH \in d.got
  BY <1>2 DEF HandshakeKeyed
<1>9. ClientMove(F, c, d, s, n, n2, r)
  BY <1>3, <1>4, <1>5, <1>6, <1>7, <1>8 DEF ClientMove, F
<1> QED BY <1>1, <1>9, ClientStep DEF View, F

(* A server that keeps state, keys and queue goes onward.                  *)
LEMMA SameOnward ==
  ASSUME NEW s, NEW d, d.state = s.state, d.keys = s.keys, d.tosend = s.tosend
  PROVE  Onward(s, d)
BY DEF Onward, SomeLeft

(* The same for the server.                                                *)
QuietServer(s, d) ==
  /\ d \in Cnx("server", ServerFlight)
  /\ d.got = s.got /\ d.seen = s.seen /\ d.keys = s.keys
  /\ (s.tosend \cup s.unacked) \ {CLOSE} \subseteq d.tosend \cup d.unacked
  /\ \A m \in Flight(ServerFlight) \cup {DONE} : m \in Queue(d) => m \in Queue(s)
  /\ (d.state = "none" => d = s) /\ (s.state = "none" => d.state = "none")
  /\ d.state = "ready" => s.state = "ready"
  /\ d.state = "server_almost_ready" => s.state = "server_almost_ready" /\ SH \in d.tosend
  /\ \A m \in Flight(ServerFlight) : m \in d.tosend => m \in s.tosend /\ m \notin d.due \cup d.unacked
  /\ Onward(s, d)

(* The same for a server that receives nothing.                            *)
LEMMA ServerQuiet ==
  ASSUME NEW c, NEW s, NEW n, NEW r, View(c, s, n, r), NEW d, QuietServer(s, d),
         c.state # "client_init",
         NEW n2 \in SUBSET (PacketTo("client", ServerFlight) \cup PacketTo("server", ServerFlight)),
         \A q \in n2 \cup d.sooner :
           q \in Wire(c, s, n) \/ ServerPacket(ServerFlight, scenario.policy, s, d, q)
  PROVE  View(c, d, n2, r)
<1> DEFINE F == ServerFlight
           P == scenario.policy
           w == Wire(c, s, n)
<1>1. Inv(F, P, c, s, n, r)
  BY DEF View
<1> HIDE DEF F
<1> USE DEF QuietServer
<1>2. /\ AcksHonest(F, c, s, w) /\ HelloKnown(F, c, s, w) /\ FinishedKnown(c, s, w)
      /\ HelloFirst(F, c, s, w) /\ RetryOnce(P, s, w, r) /\ ServerHolds(F, c, s)
  BY <1>1 DEF Inv
<1>3. d.seen \cap TlsOf(F) \subseteq d.got
  BY <1>2 DEF AcksHonest
<1>4. (\E m \in Flight(F) : m \in Queue(d)) \/ "handshake" \in d.keys \/ "app_send" \in d.keys
        => CH \in d.got /\ "app_send" \in d.keys
  BY <1>2 DEF HelloKnown, F
<1>5. /\ "app_receive" \in d.keys => CF \in d.got
      /\ DONE \in Queue(d) \/ d.state = "ready" => CF \in d.got /\ "app_receive" \in d.keys
  BY <1>2 DEF FinishedKnown
<1>6. \A m \in Flight(F) : m \in d.tosend =>
        m \notin d.due \cup d.unacked \cup c.got \cup c.seen /\ ~Carried(w, "client", m)
  BY <1>2 DEF HelloFirst, F
<1>7. P = "retry" /\ ~r => d.state = "none"
  BY <1>2 DEF RetryOnce
<1>8. ServerHolds(F, c, d)
  BY <1>2, Distinct DEF ServerHolds, Held, F
<1>9. ServerMove(F, P, c, s, d, n, n2, r)
  BY <1>3, <1>4, <1>5, <1>6, <1>7, <1>8 DEF ServerMove, F
<1> QED BY <1>1, <1>9, ServerStep DEF View, F

-----------------------------------------------------------------------------
(* What ends send *)

(* What was sent leaves the queues and waits for its acknowledgement.      *)
LEMMA SentIs ==
  ASSUME NEW e \in Ends, NEW c \in Cnx(e, ServerFlight), NEW epoch,
         NEW msgs \in SUBSET Sends(e, ServerFlight)
  PROVE  LET d == Sent(c, epoch, msgs)
         IN  /\ d \in Cnx(e, ServerFlight)
             /\ d.state = c.state /\ d.keys = c.keys /\ d.sooner = c.sooner
             /\ d.seen = c.seen /\ d.got = c.got
             /\ d.tosend = c.tosend \ msgs /\ d.due = c.due \ msgs
             /\ d.unacked = c.unacked \cup (msgs \ {CLOSE})
BY DEF Sent, Cnx

(* The packet of an end.                                                   *)
LEMMA PacketIs ==
  ASSUME NEW e \in Ends, cnx[e] \in Cnx(e, ServerFlight), retried \in BOOLEAN,
         NEW epoch \in Epochs \cup {"retry"}, NEW msgs \in SUBSET Sends(e, ServerFlight),
         NEW ack \in SUBSET cnx[e].seen
  PROVE  LET q == Packet(e, epoch, msgs, ack)
         IN  /\ q \in PacketTo(Peer(e), ServerFlight)
             /\ q.to = Peer(e) /\ q.epoch = epoch /\ q.msgs = msgs /\ q.ack = ack
             /\ q.token => e = "client" /\ retried
<1>1. Peer(Peer(e)) = e
  BY DEF Peer, Ends
<1>2. cnx[e].seen \subseteq Sends(Peer(e), ServerFlight)
  BY DEF Cnx
<1> QED BY <1>1, <1>2 DEF Packet, PacketTo

(* The least-number principle, from well-founded induction on Nat.         *)
LEMMA Least ==
  ASSUME NEW S, S \subseteq Nat, S # {}
  PROVE  \E n \in S : \A m \in S : n <= m
<1>1. \E x \in S : \A y \in S : ~ (<<y, x>> \in OpToRel(<, Nat))
  BY NatLessThanWellFounded, WFMin, Zenon
<1>2. PICK x \in S : \A y \in S : ~ (<<y, x>> \in OpToRel(<, Nat))
  BY <1>1
<1>3. ASSUME NEW y \in S PROVE x <= y
  <2>1. x \in Nat /\ y \in Nat
    OBVIOUS
  <2>2. ~(y < x)
    BY <1>2, <2>1 DEF OpToRel
  <2> QED BY <2>1, <2>2
<1> QED BY <1>3

(* The part of the server's data that goes next: the numbers of the parts  *)
(* are natural, so there is a least one.                                   *)
LEMMA NextPartIs ==
  ASSUME NEW c \in Cnx("server", ServerFlight), c.tosend # {}
  PROVE  NextPart(c) \in c.tosend /\ (SH \in c.tosend => NextPart(c) = SH)
<1>1. \A m \in Sends("server", ServerFlight) : m.part \in Nat
  <2>1. \A m \in ServerFlight : m.part \in Nat
    <3>1. \A i \in 1..scenario.flight : i \in Nat
      OBVIOUS
    <3> QED BY <3>1 DEF ServerFlight
  <2>2. SH.part = 0 /\ DONE.part = 0 /\ CLOSE.part = 0
    BY DEF SH, DONE, CLOSE, Msg
  <2> QED BY <2>1, <2>2 DEF Sends, FromServer
<1>2. CASE SH \in c.tosend
  BY <1>2 DEF NextPart
<1>3. CASE SH \notin c.tosend
  <2>1. c.tosend \subseteq Sends("server", ServerFlight)
    BY DEF Cnx
  <2> DEFINE T == {m.part : m \in c.tosend}
  <2>2. T \in SUBSET Nat /\ T # {}
    BY <1>1, <2>1
  <2> HIDE DEF T
  <2>3. PICK k \in T : \A j \in T : k <= j
    BY <2>2, Least
  <2> USE DEF T
  <2>5. PICK m \in c.tosend : m.part = k
    OBVIOUS
  <2>6. \A x \in c.tosend : m.part <= x.part
    BY <2>3, <2>5
  <2> QED BY <1>3, <2>6 DEF NextPart
<1> QED BY <1>2, <1>3

-----------------------------------------------------------------------------
(* The actions *)

(* The types that the invariant gives to its parts.                        *)
LEMMA InvTypes ==
  ASSUME NEW c, NEW s, NEW n, NEW r, View(c, s, n, r)
  PROVE  /\ c \in Cnx("client", ServerFlight) /\ s \in Cnx("server", ServerFlight)
         /\ n \subseteq PacketTo("client", ServerFlight) \cup PacketTo("server", ServerFlight)
         /\ r \in BOOLEAN /\ Fresh(c, s, n)
BY DEF View, Inv, Typed

(* It is enough to look at the end that a step changes: the client,        *)
LEMMA ClientChanges ==
  ASSUME IndInv, NEW d, cnx' = [cnx EXCEPT !["client"] = d], View(d, cnx["server"], net', retried'),
         cnx["client"].state \in Closed => d.state \in Closed
  PROVE  Reached
<1>1. d \in Contexts
  BY InvTypes DEF Contexts
<1>2. cnx \in [Ends -> Contexts] /\ "client" \in Ends /\ "server" \in Ends
  BY DEF IndInv, Ends
<1>3. cnx' \in [Ends -> Contexts] /\ cnx'["client"] = d /\ cnx'["server"] = cnx["server"]
  BY <1>1, <1>2
<1> QED BY <1>3 DEF Reached, Onward

(* or the server.                                                          *)
LEMMA ServerChanges ==
  ASSUME IndInv, NEW d, cnx' = [cnx EXCEPT !["server"] = d], View(cnx["client"], d, net', retried'),
         Onward(cnx["server"], d)
  PROVE  Reached
<1>1. d \in Contexts
  BY InvTypes DEF Contexts
<1>2. cnx \in [Ends -> Contexts] /\ "client" \in Ends /\ "server" \in Ends
  BY DEF IndInv, Ends
<1>3. cnx' \in [Ends -> Contexts] /\ cnx'["server"] = d /\ cnx'["client"] = cnx["client"]
  BY <1>1, <1>2
<1> QED BY <1>3 DEF Reached, Onward

(* Packets may only disappear from the network.                            *)
LEMMA NetShrinks ==
  ASSUME IndInv, cnx' = cnx, net' \subseteq net, retried' = retried
  PROVE  Reached
<1> DEFINE c == cnx["client"]
           s == cnx["server"]
<1>1. View(c, s, net, retried)
  BY DEF IndInv
<1>2. CASE c.state = "client_init"
  <2>1. net = {}
    BY <1>1, <1>2, InvTypes DEF Fresh
  <2>2. net' = net
    BY <2>1
  <2> QED BY <2>2 DEF IndInv, Reached, Onward
<1>3. CASE c.state # "client_init"
  <2> HIDE DEF c, s
  <2>1. \A q \in net' \cup c.sooner : q \in Wire(c, s, net)
    BY DEF Wire
  <2>2. c \in Cnx("client", ServerFlight)
        /\ net' \in SUBSET (PacketTo("client", ServerFlight) \cup PacketTo("server", ServerFlight))
    BY <1>1, InvTypes
  <2>3. View(c, s, net', retried)
    BY <1>1, <1>3, <2>1, <2>2, ClientQuiet DEF QuietClient
  <2> QED BY <2>3 DEF c, s, IndInv, Reached, Onward
<1> QED BY <1>2, <1>3

(* A lost packet takes nothing from what the ends hold.                    *)
LEMMA LoseKeeps ==
  ASSUME IndInv, NEW p \in net, Lose(p)
  PROVE  Reached
BY NetShrinks DEF Lose

-----------------------------------------------------------------------------

(* A server that refuses a connection stays without one.                   *)
LEMMA RefusedKeeps ==
  ASSUME IndInv, NEW p \in net, p.to = "server", p.epoch = "initial", Refused(p),
         net' = (net \ {p}) \cup {Refusal}, cnx' = cnx, retried' = retried
  PROVE  Reached
<1> DEFINE c == cnx["client"]
           s == cnx["server"]
           q == Refusal
<1>1. View(c, s, net, retried)
  BY DEF IndInv
<1>2. /\ c \in Cnx("client", ServerFlight) /\ s \in Cnx("server", ServerFlight)
      /\ net \subseteq PacketTo("client", ServerFlight) \cup PacketTo("server", ServerFlight)
      /\ retried \in BOOLEAN /\ Fresh(c, s, net)
  BY <1>1, InvTypes
<1>3. /\ q \in PacketTo("client", ServerFlight) /\ q.to = "client" /\ ~q.token
      /\ q.ack = {} /\ q.msgs \subseteq {CLOSE} /\ (q.epoch = "retry" => scenario.policy = "retry")
  <2>1. {CLOSE} \in SUBSET Sends("server", ServerFlight) /\ {} \in SUBSET Sends("server", ServerFlight)
        /\ "server" \in Ends /\ Peer("server") = "client" /\ {} \in SUBSET cnx["server"].seen
        /\ "initial" \in Epochs \cup {"retry"} /\ "retry" \in Epochs \cup {"retry"}
    BY DEF Sends, FromServer, Ends, Peer, Epochs
  <2>2. CASE scenario.policy = "busy"
    <3>1. q = Packet("server", "initial", {CLOSE}, {})
      BY <2>2 DEF Refusal
    <3> HIDE DEF q
    <3> QED BY <1>2, <2>1, <3>1, PacketIs
  <2>3. CASE scenario.policy # "busy"
    <3>1. q = Packet("server", "retry", {}, {}) /\ scenario.policy = "retry"
      BY <2>3 DEF Refusal, Refused
    <3> HIDE DEF q
    <3> QED BY <1>2, <2>1, <3>1, PacketIs
  <2> QED BY <2>2, <2>3
<1> HIDE DEF q, c, s
<1>k. CLOSE \notin Flight(ServerFlight) \cup {DONE}
  BY Distinct DEF Flight
<1>4. c.state # "client_init"
  BY <1>2 DEF Fresh
<1>5. ServerPacket(ServerFlight, scenario.policy, s, s, q)
  BY <1>3, <1>k, Distinct DEF ServerPacket
<1>6. \A x \in net' \cup s.sooner : x \in Wire(c, s, net) \/ ServerPacket(ServerFlight, scenario.policy, s, s, x)
  BY <1>5 DEF Wire, q
<1>7. net' \in SUBSET (PacketTo("client", ServerFlight) \cup PacketTo("server", ServerFlight))
  BY <1>2, <1>3 DEF q
<1>8. HelloFirst(ServerFlight, c, s, Wire(c, s, net))
  BY <1>1 DEF View, Inv
<1>9. View(c, s, net', retried)
  BY <1>1, <1>2, <1>4, <1>6, <1>7, <1>8, SameOnward, ServerQuiet DEF HelloFirst, QuietServer
<1> QED BY <1>9 DEF c, s, IndInv, Reached, Onward

(* The first Initial packet creates the connection of the server.          *)
LEMMA NewInitialKeeps ==
  ASSUME IndInv, NEW p \in net, DeliverNewInitial(p)
  PROVE  Reached
<1> DEFINE c == cnx["client"]
           s == cnx["server"]
           d == IncomingClientInitial(NewCnx("server_init", {}), p)
<1>1. View(c, s, net, retried)
  BY DEF IndInv
<1>2. CASE Refused(p)
  BY <1>2, RefusedKeeps DEF DeliverNewInitial
<1>3. CASE ~Refused(p) /\ CH \notin p.msgs
  BY <1>3, NetShrinks DEF DeliverNewInitial
<1>4. CASE ~Refused(p) /\ CH \in p.msgs
  <2>1. /\ s.state = "none" /\ p.to = "server" /\ p.epoch = "initial" /\ retried' = retried
        /\ net' = net \ {p} /\ cnx' = [cnx EXCEPT !["server"] = d]
    BY <1>4 DEF DeliverNewInitial
  <2>2. View(c, d, net', retried') /\ Onward(s, d)
    BY <1>1, <1>4, <2>1, ServerStarts
  <2> HIDE DEF d
  <2> QED BY <2>1, <2>2, ServerChanges
<1> QED BY <1>2, <1>3, <1>4

(* After a Retry the client starts again, before it has received anything. *)
LEMMA RetryKeeps ==
  ASSUME IndInv, NEW p \in net, DeliverRetry(p)
  PROVE  Reached
<1> DEFINE c == cnx["client"]
           s == cnx["server"]
           d == NewCnx("client_init_sent", {CH})
<1>1. View(c, s, net, retried)
  BY DEF IndInv
<1>2. retried \in BOOLEAN
  BY <1>1, InvTypes
<1>3. CASE c.state = "client_init_sent" /\ retried # TRUE
  <2>1. /\ p.epoch = "retry" /\ retried' = TRUE
        /\ net' = net \ {p} /\ cnx' = [cnx EXCEPT !["client"] = d]
    BY <1>2, <1>3 DEF DeliverRetry
  <2>2. View(d, s, net \ {p}, retried')
    BY <1>1, <1>3, <2>1, ClientRetries
  <2>3. View(d, s, net', retried')
    BY <2>1, <2>2
  <2>4. c.state \notin Closed
    BY <1>3 DEF Closed
  <2> HIDE DEF d
  <2> QED BY <2>1, <2>3, <2>4, ClientChanges
<1>4. CASE ~(c.state = "client_init_sent" /\ retried # TRUE)
  <2>1. cnx' = cnx /\ net' = net \ {p} /\ retried' = retried
    BY <1>2, <1>4 DEF DeliverRetry
  <2> QED BY <2>1, NetShrinks
<1> QED BY <1>3, <1>4

-----------------------------------------------------------------------------

(* Every packet in the network is to one of the ends.                      *)
LEMMA PacketTyped ==
  ASSUME NEW c, NEW s, NEW n, NEW r, View(c, s, n, r), NEW p \in n, NEW e \in Ends, p.to = e
  PROVE  p \in PacketTo(e, ServerFlight) /\ p.epoch \in Epochs \cup {"retry"}
BY InvTypes DEF PacketTo, Ends

(* A packet without its key waits or is dropped.                           *)
LEMMA WaitIs ==
  ASSUME NEW e \in Ends, NEW c \in Cnx(e, ServerFlight), NEW p \in Usable(e, ServerFlight)
  PROVE  LET d == NotDecrypted(c, e, p)
         IN  /\ d \in Cnx(e, ServerFlight) /\ d.sooner \subseteq c.sooner \cup {p}
             /\ d.state = c.state /\ d.keys = c.keys /\ d.tosend = c.tosend
             /\ d.unacked = c.unacked /\ d.due = c.due /\ d.seen = c.seen /\ d.got = c.got
<1> DEFINE w == [c EXCEPT !.sooner = @ \cup {p}]
<1>1. /\ w \in Cnx(e, ServerFlight) /\ w.sooner \subseteq c.sooner \cup {p}
      /\ w.state = c.state /\ w.keys = c.keys /\ w.tosend = c.tosend
      /\ w.unacked = c.unacked /\ w.due = c.due /\ w.seen = c.seen /\ w.got = c.got
  BY DEF Cnx
<1>2. NotDecrypted(c, e, p) \in {c, w}
  BY DEF NotDecrypted
<1> HIDE DEF w
<1> QED BY <1>1, <1>2

(* A packet is delivered to the client, or kept until its key comes,       *)
LEMMA ToClientKeeps ==
  ASSUME IndInv, NEW p \in net, DeliverToClient(p)
  PROVE  Reached
<1> DEFINE c == cnx["client"]
           s == cnx["server"]
<1>1. View(c, s, net, retried)
  BY DEF IndInv
<1>2. /\ p.to = "client" /\ p.epoch # "retry" /\ net' = net \ {p} /\ retried' = retried
      /\ "client" \in Ends
  BY DEF DeliverToClient, Ends
<1>3. p \in PacketTo("client", ServerFlight) /\ p.epoch \in Epochs
  BY <1>1, <1>2, PacketTyped
<1>4. /\ c \in Cnx("client", ServerFlight) /\ Fresh(c, s, net)
      /\ net \subseteq PacketTo("client", ServerFlight) \cup PacketTo("server", ServerFlight)
  BY <1>1, InvTypes
<1>5. CASE ReceiveKey(p.epoch) \in c.keys
  <2> DEFINE d == Incoming(c, "client", p)
  <2>1. cnx' = [cnx EXCEPT !["client"] = d]
    BY <1>5 DEF DeliverToClient
  <2>2. View(d, s, net', retried') /\ (c.state \in Closed => d.state \in Closed)
    <3>1. p \in net \cup c.sooner /\ net' \in SUBSET net /\ c.sooner \subseteq c.sooner
      BY <1>2
    <3> HIDE DEF c, s
    <3>2. View(d, s, net', retried) /\ (c.state \in Closed => d.state \in Closed)
      BY <1>1, <1>2, <1>3, <1>4, <1>5, <3>1, ClientReads
    <3> QED BY <1>2, <3>2
  <2> HIDE DEF d
  <2> QED BY <2>1, <2>2, ClientChanges
<1>6. CASE ReceiveKey(p.epoch) \notin c.keys
  <2> DEFINE d == NotDecrypted(c, "client", p)
  <2>1. cnx' = [cnx EXCEPT !["client"] = d]
    BY <1>6 DEF DeliverToClient
  <2>2. /\ d \in Cnx("client", ServerFlight) /\ d.sooner \subseteq c.sooner \cup {p}
        /\ d.state = c.state /\ d.keys = c.keys /\ d.tosend = c.tosend
        /\ d.unacked = c.unacked /\ d.due = c.due /\ d.seen = c.seen /\ d.got = c.got
    BY <1>2, <1>3, <1>4, WaitIs DEF Usable
  <2> HIDE DEF d
  <2>3. View(d, s, net', retried')
    <3> HIDE DEF c, s
    <3>1. c.state # "client_init"
      BY <1>4 DEF Fresh
    <3>2. net' \in SUBSET (PacketTo("client", ServerFlight) \cup PacketTo("server", ServerFlight))
      BY <1>2, <1>4
    <3>3. \A q \in net' \cup d.sooner : q \in Wire(c, s, net) \/ ClientPacket(c, retried, q)
      BY <1>2, <2>2 DEF Wire
    <3>4. c.tosend \cup c.unacked \subseteq d.tosend \cup d.unacked /\ Queue(d) = Queue(c)
      BY <2>2 DEF Queue
    <3>5. View(d, s, net', retried)
      BY <1>1, <2>2, <3>1, <3>2, <3>3, <3>4, ClientQuiet DEF QuietClient
    <3> QED BY <1>2, <3>5
  <2> QED BY <2>1, <2>2, <2>3, ClientChanges
<1> QED BY <1>5, <1>6

(* or to the server,                                                       *)
LEMMA ToServerKeeps ==
  ASSUME IndInv, NEW p \in net, DeliverToServer(p)
  PROVE  Reached
<1> DEFINE c == cnx["client"]
           s == cnx["server"]
<1>1. View(c, s, net, retried)
  BY DEF IndInv
<1>2. /\ p.to = "server" /\ s.state # "none" /\ net' = net \ {p} /\ retried' = retried
      /\ "server" \in Ends
  BY DEF DeliverToServer, Ends
<1>w. RetryOnce(scenario.policy, s, Wire(c, s, net), retried) /\ HelloFirst(ServerFlight, c, s, Wire(c, s, net))
  BY <1>1 DEF View, Inv
<1>3. p \in PacketTo("server", ServerFlight) /\ p.epoch \in Epochs
  <2>1. p.epoch # "retry"
    BY <1>2, <1>w DEF RetryOnce, Wire
  <2> QED BY <1>1, <1>2, <2>1, PacketTyped
<1>4. /\ s \in Cnx("server", ServerFlight) /\ Fresh(c, s, net)
      /\ net \subseteq PacketTo("client", ServerFlight) \cup PacketTo("server", ServerFlight)
  BY <1>1, InvTypes
<1>5. CASE ReceiveKey(p.epoch) \in s.keys
  <2> DEFINE d == Incoming(s, "server", p)
  <2>1. cnx' = [cnx EXCEPT !["server"] = d]
    BY <1>5 DEF DeliverToServer
  <2>2. View(c, d, net', retried') /\ Onward(s, d)
    <3>1. p \in net \cup s.sooner /\ net' \in SUBSET net /\ s.sooner \subseteq s.sooner
      BY <1>2
    <3> HIDE DEF c, s
    <3>2. View(c, d, net', retried) /\ Onward(s, d)
      BY <1>1, <1>2, <1>3, <1>4, <1>5, <3>1, ServerReads
    <3> QED BY <1>2, <3>2
  <2> HIDE DEF d
  <2> QED BY <2>1, <2>2, ServerChanges
<1>6. CASE ReceiveKey(p.epoch) \notin s.keys
  <2> DEFINE d == NotDecrypted(s, "server", p)
  <2>1. cnx' = [cnx EXCEPT !["server"] = d]
    BY <1>6 DEF DeliverToServer
  <2>2. /\ d \in Cnx("server", ServerFlight) /\ d.sooner \subseteq s.sooner \cup {p}
        /\ d.state = s.state /\ d.keys = s.keys /\ d.tosend = s.tosend
        /\ d.unacked = s.unacked /\ d.due = s.due /\ d.seen = s.seen /\ d.got = s.got
    BY <1>2, <1>3, <1>4, WaitIs DEF Usable
  <2> HIDE DEF d
  <2>3. View(c, d, net', retried')
    <3> HIDE DEF c, s
    <3>1. c.state # "client_init"
      BY <1>4 DEF Fresh
    <3>2. net' \in SUBSET (PacketTo("client", ServerFlight) \cup PacketTo("server", ServerFlight))
      BY <1>2, <1>4
    <3>3. \A q \in net' \cup d.sooner :
            q \in Wire(c, s, net) \/ ServerPacket(ServerFlight, scenario.policy, s, d, q)
      BY <1>2, <2>2 DEF Wire
    <3>4. /\ s.tosend \cup s.unacked \subseteq d.tosend \cup d.unacked /\ Queue(d) = Queue(s)
          /\ \A m \in Flight(ServerFlight) : m \in d.tosend => m \in s.tosend /\ m \notin d.due \cup d.unacked
          /\ d.state = "server_almost_ready" => s.state = "server_almost_ready" /\ SH \in d.tosend
      BY <1>w, <2>2 DEF Queue, HelloFirst
    <3>5. View(c, d, net', retried)
      BY <1>1, <1>2, <2>2, <3>1, <3>2, <3>3, <3>4, SameOnward, ServerQuiet DEF QuietServer
    <3> QED BY <1>2, <3>5
  <2>4. Onward(s, d)
    BY <2>2, SameOnward
  <2> QED BY <2>1, <2>3, <2>4, ServerChanges
<1> QED BY <1>5, <1>6

(* or a packet that was kept is processed                                  *)
(* (picoquic_process_sooner_packets).                                      *)
LEMMA SoonerKeeps ==
  ASSUME IndInv, NEW e \in Ends, ProcessSooner(e)
  PROVE  Reached
<1> DEFINE c == cnx["client"]
           s == cnx["server"]
<1>1. View(c, s, net, retried)
  BY DEF IndInv
<1>2. PICK p \in cnx[e].sooner :
        /\ ReceiveKey(p.epoch) \in cnx[e].keys
        /\ cnx' = [cnx EXCEPT ![e] = Incoming([cnx[e] EXCEPT !.sooner = cnx[e].sooner \ {p}], e, p)]
  BY DEF ProcessSooner
<1>3. net' = net /\ retried' = retried
  BY DEF ProcessSooner
<1>4. c \in Cnx("client", ServerFlight) /\ s \in Cnx("server", ServerFlight) /\ Fresh(c, s, net)
  BY <1>1, InvTypes
<1>5. CASE e = "client"
  <2> DEFINE b == [c EXCEPT !.sooner = c.sooner \ {p}]
             d == Incoming(b, "client", p)
  <2>1. /\ b \in Cnx("client", ServerFlight) /\ b.sooner \subseteq c.sooner
        /\ b.state = c.state /\ b.keys = c.keys /\ b.tosend = c.tosend
        /\ b.unacked = c.unacked /\ b.due = c.due /\ b.seen = c.seen /\ b.got = c.got
    BY <1>4 DEF Cnx
  <2>2. p \in c.sooner /\ p.to = "client" /\ p.epoch \in Epochs /\ ReceiveKey(p.epoch) \in c.keys
    BY <1>2, <1>4, <1>5 DEF Cnx, Usable, PacketTo
  <2>3. cnx' = [cnx EXCEPT !["client"] = d]
    BY <1>2, <1>5, Zenon
  <2>4. View(d, s, net', retried') /\ (c.state \in Closed => d.state \in Closed)
    <3> HIDE DEF b, c, s
    <3>1. p \in net \cup c.sooner /\ net \in SUBSET net
      BY <2>2
    <3>2. View(d, s, net, retried) /\ (c.state \in Closed => d.state \in Closed)
      BY <1>1, <2>1, <2>2, <3>1, ClientReads
    <3> QED BY <1>3, <3>2
  <2> HIDE DEF d
  <2> QED BY <2>3, <2>4, ClientChanges
<1>6. CASE e = "server"
  <2> DEFINE b == [s EXCEPT !.sooner = s.sooner \ {p}]
             d == Incoming(b, "server", p)
  <2>1. /\ b \in Cnx("server", ServerFlight) /\ b.sooner \subseteq s.sooner
        /\ b.state = s.state /\ b.keys = s.keys /\ b.tosend = s.tosend
        /\ b.unacked = s.unacked /\ b.due = s.due /\ b.seen = s.seen /\ b.got = s.got
    BY <1>4 DEF Cnx
  <2>2. p \in s.sooner /\ p.to = "server" /\ p.epoch \in Epochs /\ ReceiveKey(p.epoch) \in s.keys
    BY <1>2, <1>4, <1>6 DEF Cnx, Usable, PacketTo
  <2>5. s.state # "none"
    <3>1. NewCnx("none", {}).sooner = {}
      BY DEF NewCnx
    <3> QED BY <1>4, <2>2, <3>1 DEF Fresh
  <2>3. cnx' = [cnx EXCEPT !["server"] = d]
    BY <1>2, <1>6, Zenon
  <2>4. View(c, d, net', retried') /\ Onward(s, d)
    <3> HIDE DEF b, c, s
    <3>1. p \in net \cup s.sooner /\ net \in SUBSET net
      BY <2>2
    <3>2. View(c, d, net, retried) /\ Onward(s, d)
      BY <1>1, <2>1, <2>2, <2>5, <3>1, ServerReads
    <3> QED BY <1>3, <3>2
  <2> HIDE DEF d
  <2> QED BY <2>3, <2>4, ServerChanges
<1> QED BY <1>5, <1>6 DEF Ends

-----------------------------------------------------------------------------

(* A quiet step of an end that sends at most one packet.                   *)
Emits(e, epoch, msgs) == net' = net \cup {Packet(e, epoch, msgs, Of(cnx[e].seen, epoch))}

(* A packet of the client carries what it holds and acknowledges what it   *)
(* saw,                                                                    *)
LEMMA ClientEmits ==
  ASSUME IndInv, NEW d, QuietClient(cnx["client"], d), d.sooner = cnx["client"].sooner,
         cnx' = [cnx EXCEPT !["client"] = d], retried' = retried,
         NEW epoch \in Epochs, NEW msgs \in SUBSET Sends("client", ServerFlight),
         \/ net' = net
         \/ /\ Emits("client", epoch, msgs)
            /\ CF \in msgs => CF \in Queue(cnx["client"])
            /\ epoch = "handshake" => "handshake" \in cnx["client"].keys
  PROVE  Reached
<1> DEFINE c == cnx["client"]
           s == cnx["server"]
           ack == Of(c.seen, epoch)
           q == Packet("client", epoch, msgs, ack)
<1>1. View(c, s, net, retried)
  BY DEF IndInv
<1>2. /\ c \in Cnx("client", ServerFlight) /\ retried \in BOOLEAN
      /\ net \subseteq PacketTo("client", ServerFlight) \cup PacketTo("server", ServerFlight)
  BY <1>1, InvTypes
<1>3. /\ q \in PacketTo("server", ServerFlight) /\ q.to = "server" /\ q.epoch = epoch
      /\ q.msgs = msgs /\ q.ack = ack /\ (q.token => retried) /\ ack \subseteq c.seen
  <2>1. "client" \in Ends /\ Peer("client") = "server" /\ ack \in SUBSET c.seen
        /\ epoch \in Epochs \cup {"retry"}
    BY DEF Ends, Peer, Of
  <2> HIDE DEF ack
  <2> QED BY <1>2, <2>1, PacketIs
<1>n. \/ net' = net
      \/ /\ net' = net \cup {q}
         /\ CF \in msgs => CF \in Queue(c)
         /\ epoch = "handshake" => "handshake" \in c.keys
  BY DEF Emits
<1> HIDE DEF q, ack
<1>4. \/ net' = net
      \/ net' = net \cup {q} /\ ClientPacket(c, retried, q)
  BY <1>3, <1>n DEF ClientPacket
<1>5. View(d, s, net', retried)
  <2>1. net' \in SUBSET (PacketTo("client", ServerFlight) \cup PacketTo("server", ServerFlight))
    BY <1>2, <1>3, <1>4
  <2>2. \A x \in net' \cup d.sooner : x \in Wire(c, s, net) \/ ClientPacket(c, retried, x)
    BY <1>4 DEF Wire
  <2> HIDE DEF c, s
  <2> QED BY <1>1, <2>1, <2>2, ClientQuiet DEF c
<1> QED BY <1>5, ClientChanges DEF QuietClient

(* and so does a packet of the server.                                     *)
LEMMA ServerEmits ==
  ASSUME IndInv, NEW d, QuietServer(cnx["server"], d), d.sooner = cnx["server"].sooner,
         cnx["server"].state # "none",
         cnx' = [cnx EXCEPT !["server"] = d], retried' = retried,
         NEW epoch \in Epochs, NEW msgs \in SUBSET Sends("server", ServerFlight),
         \/ net' = net
         \/ /\ Emits("server", epoch, msgs)
            /\ \A m \in Flight(ServerFlight) \cup {DONE} : m \in msgs => m \in Queue(cnx["server"])
            /\ \A m \in Flight(ServerFlight) : m \in msgs => m \notin d.tosend
  PROVE  Reached
<1> DEFINE c == cnx["client"]
           s == cnx["server"]
           ack == Of(s.seen, epoch)
           q == Packet("server", epoch, msgs, ack)
<1>1. View(c, s, net, retried)
  BY DEF IndInv
<1>2. /\ s \in Cnx("server", ServerFlight) /\ retried \in BOOLEAN /\ Fresh(c, s, net)
      /\ net \subseteq PacketTo("client", ServerFlight) \cup PacketTo("server", ServerFlight)
  BY <1>1, InvTypes
<1>3. /\ q \in PacketTo("client", ServerFlight) /\ q.to = "client" /\ q.epoch = epoch
      /\ q.msgs = msgs /\ q.ack = ack /\ ~q.token /\ ack \subseteq s.seen /\ q.epoch # "retry"
  <2>1. "server" \in Ends /\ Peer("server") = "client" /\ ack \in SUBSET s.seen
        /\ epoch \in Epochs \cup {"retry"} /\ epoch # "retry"
    BY DEF Ends, Peer, Of, Epochs
  <2> HIDE DEF ack
  <2> QED BY <1>2, <2>1, PacketIs
<1>n. \/ net' = net
      \/ /\ net' = net \cup {q}
         /\ \A m \in Flight(ServerFlight) \cup {DONE} : m \in msgs => m \in Queue(s)
         /\ \A m \in Flight(ServerFlight) : m \in msgs => m \notin d.tosend
  BY DEF Emits
<1> HIDE DEF q, ack
<1>4. \/ net' = net
      \/ net' = net \cup {q} /\ ServerPacket(ServerFlight, scenario.policy, s, d, q)
  BY <1>3, <1>n DEF ServerPacket
<1>6. c.state # "client_init"
  BY <1>2 DEF Fresh
<1>5. View(c, d, net', retried)
  <2>1. net' \in SUBSET (PacketTo("client", ServerFlight) \cup PacketTo("server", ServerFlight))
    BY <1>2, <1>3, <1>4
  <2>2. \A x \in net' \cup d.sooner :
          x \in Wire(c, s, net) \/ ServerPacket(ServerFlight, scenario.policy, s, d, x)
    BY <1>4 DEF Wire
  <2> HIDE DEF c, s
  <2> QED BY <1>1, <1>6, <2>1, <2>2, ServerQuiet DEF s
<1> QED BY <1>5, ServerChanges DEF QuietServer

(* A change of state alone, of an open end or between closed states.       *)
LEMMA StateKeeps ==
  ASSUME IndInv, NEW e \in Ends, cnx[e].state # "none", NEW x \in Closed,
         e = "server" /\ x \in Failing =>
           cnx[e].state \in Starting /\ ~(scenario.auth /\ scenario.closes = 0),
         cnx' = [cnx EXCEPT ![e].state = x], net' = net, retried' = retried
  PROVE  Reached
<1> DEFINE c == cnx[e]
           d == [c EXCEPT !.state = x]
<1>1. View(cnx["client"], cnx["server"], net, retried) /\ cnx \in [Ends -> Contexts]
  BY DEF IndInv
<1>2. c \in Cnx(e, ServerFlight)
  BY <1>1, InvTypes DEF Ends
<1>3. /\ d \in Cnx(e, ServerFlight) /\ d.state = x
      /\ d.keys = c.keys /\ d.tosend = c.tosend /\ d.unacked = c.unacked /\ d.due = c.due
      /\ d.seen = c.seen /\ d.got = c.got /\ d.sooner = c.sooner
  <2>1. x \in StatesOf(e)
    BY DEF StatesOf, ClientStates, ServerStates
  <2> HIDE DEF c
  <2> QED BY <1>2, <2>1, StateSet
<1>4. cnx' = [cnx EXCEPT ![e] = d]
  BY <1>1
<1>5. x \notin EarlyStates \cup LateStates \cup {"none", "server_almost_ready", "ready", "client_init"}
  BY DEF Closed, EarlyStates, LateStates
<1>6. {} \in SUBSET Sends(e, ServerFlight) /\ "initial" \in Epochs
  BY DEF Epochs
<1> HIDE DEF d
<1>7. CASE e = "client"
  <2>1. QuietClient(c, d)
    BY <1>3, <1>5, <1>7 DEF QuietClient, Queue
  <2> QED BY <1>3, <1>4, <1>6, <1>7, <2>1, ClientEmits
<1>8. CASE e = "server"
  <2>1. HelloFirst(ServerFlight, cnx["client"], cnx["server"], Wire(cnx["client"], cnx["server"], net))
    BY <1>1 DEF View, Inv
  <2>3. Onward(c, d)
    <3>1. x \in Starting => x \in Failing
      BY DEF Starting, Failing, Closed
    <3> QED BY <1>3, <1>8, <3>1 DEF Onward, SomeLeft
  <2>2. QuietServer(c, d)
    BY <1>3, <1>5, <1>8, <2>1, <2>3 DEF QuietServer, Queue, HelloFirst
  <2> QED BY <1>3, <1>4, <1>6, <1>8, <2>2, ServerEmits
<1> QED BY <1>7, <1>8 DEF Ends

(* picoquic_close.                                                         *)
LEMMA CloseKeeps ==
  ASSUME IndInv, NEW e \in Ends, Close(e)
  PROVE  Reached
<1> DEFINE x == CloseResult(cnx[e].state)
<1>1. cnx[e].state \in StatesOf(e) /\ cnx[e].state \notin {"none"} \cup Closed
  <2>1. cnx[e] \in Cnx(e, ServerFlight)
    BY InvTypes DEF IndInv, Ends
  <2> QED BY <2>1 DEF Close, Cnx
<1>2. x \in Closed
  <2>1. cnx[e].state \in EarlyStates \cup LateStates
          \cup {"client_handshake_start", "server_init", "server_handshake", "server_false_start",
                "server_almost_ready"}
    BY <1>1 DEF StatesOf, ClientStates, ServerStates, LateStates, EarlyStates, Closed
  <2> HIDE DEF x
  <2>2. x \in {"disconnecting", "handshake_failure"}
    BY <2>1, Ranks DEF x, CloseResult, Before, EarlyStates, LateStates
  <2> QED BY <2>2 DEF Closed
<1>3. cnx' = [cnx EXCEPT ![e].state = x] /\ net' = net /\ retried' = retried
  BY DEF Close
<1>4. ASSUME e = "server", x \in Failing
      PROVE  cnx[e].state \in Starting /\ ~(scenario.auth /\ scenario.closes = 0)
  <2>1. scenario.closes # 0
    BY DEF Close, IndInv
  <2>2. cnx[e].state \in {"server_init", "server_handshake", "server_almost_ready", "server_false_start", "ready"}
    BY <1>1, <1>4 DEF StatesOf, ServerStates
  <2>3. cnx[e].state \notin {"server_false_start", "ready"}
    <3>1. cnx[e].state \in {"server_false_start", "ready"} => x = "disconnecting"
      BY DEF CloseResult
    <3> QED BY <1>4, <3>1 DEF Failing
  <2> QED BY <2>1, <2>2, <2>3 DEF Starting
<1> HIDE DEF x
<1> QED BY <1>1, <1>2, <1>3, <1>4, StateKeeps

(* The end of the closing period.                                          *)
LEMMA LeaveKeeps ==
  ASSUME IndInv, NEW e \in Ends, LeaveClosing(e)
  PROVE  Reached
<1>1. "disconnected" \in Closed \ Failing
  BY DEF Closed, Failing
<1> QED BY <1>1, StateKeeps DEF LeaveClosing

(* The idle timer disconnects.                                             *)
LEMMA IdleKeeps ==
  ASSUME IndInv, NEW e \in Ends, IdleTimeout(e)
  PROVE  Reached
<1>1. "disconnected" \in Closed \ Failing
  BY DEF Closed, Failing
<1> QED BY <1>1, StateKeeps DEF IdleTimeout

-----------------------------------------------------------------------------

(* A timer only changes what is due.                                       *)
LEMMA TimeoutKeeps ==
  ASSUME IndInv, NEW e \in Ends, Timeout(e)
  PROVE  Reached
<1> DEFINE c == cnx[e]
           x == Expired(c, e)
           d == [c EXCEPT !.due = x]
<1>1. View(cnx["client"], cnx["server"], net, retried) /\ cnx \in [Ends -> Contexts]
  BY DEF IndInv
<1>2. c \in Cnx(e, ServerFlight) /\ Fresh(cnx["client"], cnx["server"], net)
  BY <1>1, InvTypes DEF Ends
<1>3. /\ c.state \notin {"none"} \cup Closed /\ ~(x \subseteq c.due)
      /\ cnx' = [cnx EXCEPT ![e] = d] /\ net' = net /\ retried' = retried
  BY <1>1 DEF Timeout
<1>4. x \subseteq c.unacked \cup Pings /\ (e = "server" => x \subseteq c.unacked)
  BY DEF Expired, Pings, ClientEpoch
<1>5. x \subseteq Sends(e, ServerFlight)
  <2>1. c.unacked \subseteq Sends(e, ServerFlight)
    BY <1>2 DEF Cnx
  <2> QED BY <1>4, <2>1 DEF Sends, FromClient, Ends
<1>6. e = "client" => c.state # "client_init"
  <2>1. ASSUME e = "client", c.state = "client_init" PROVE FALSE
    <3>1. c = NewCnx("client_init", {CH})
      BY <1>2, <2>1 DEF Fresh
    <3>2. c.unacked = {} /\ c.tosend = {CH} /\ c.due = {} /\ c.keys = {"initial"}
      BY <3>1 DEF NewCnx
    <3> HIDE DEF c
    <3>3. ~ForceAllowed(c, ClientEpoch(c))
      BY <3>2 DEF ForceAllowed, ClientEpoch
    <3>4. x = {}
      BY <3>2, <3>3 DEF Expired
    <3> QED BY <1>3, <3>4
  <2> QED BY <2>1
<1> HIDE DEF x
<1>7. /\ d \in Cnx(e, ServerFlight) /\ d.state = c.state /\ d.due = x
      /\ d.keys = c.keys /\ d.tosend = c.tosend /\ d.unacked = c.unacked
      /\ d.seen = c.seen /\ d.got = c.got /\ d.sooner = c.sooner
  BY <1>2, <1>5 DEF Cnx
<1>8. {} \in SUBSET Sends(e, ServerFlight) /\ "initial" \in Epochs
  BY DEF Epochs
<1> HIDE DEF d
<1>9. CASE e = "client"
  <2>1. QuietClient(c, d)
    BY <1>4, <1>6, <1>7, <1>9, Distinct DEF QuietClient, Queue
  <2> QED BY <1>3, <1>7, <1>8, <1>9, <2>1, ClientEmits
<1>10. CASE e = "server"
  <2>1. HelloFirst(ServerFlight, cnx["client"], cnx["server"], Wire(cnx["client"], cnx["server"], net))
    BY <1>1 DEF View, Inv
  <2>2. QuietServer(c, d)
    BY <1>3, <1>4, <1>7, <1>10, <2>1, SameOnward DEF QuietServer, Queue, HelloFirst
  <2> QED BY <1>3, <1>7, <1>8, <1>10, <2>2, ServerEmits
<1> QED BY <1>9, <1>10 DEF Ends

(* What an end repeats, or a packet with an ACK alone.                     *)
LEMMA OldContextKeeps ==
  ASSUME IndInv, NEW e \in Ends, NEW epoch \in Epochs, PrepareOldContext(e, epoch),
         cnx[e].state \notin {"none", "client_init", "server_almost_ready"}
  PROVE  Reached
<1> DEFINE c == cnx[e]
<1>1. View(cnx["client"], cnx["server"], net, retried)
  BY DEF IndInv
<1>2. c \in Cnx(e, ServerFlight)
  BY <1>1, InvTypes DEF Ends
<1>3. PICK msgs \in OldContextMsgs(c, epoch) :
        /\ cnx' = [cnx EXCEPT ![e] = Sent(c, epoch, msgs)]
        /\ IF SendKey(epoch) \in c.keys
           THEN Emit(e, epoch, msgs) /\ UNCHANGED keyless
           ELSE keyless' = TRUE /\ UNCHANGED net
  BY DEF PrepareOldContext
<1>4. retried' = retried
  BY DEF PrepareOldContext
<1>5. msgs \subseteq c.due \ Pings
  BY DEF OldContextMsgs, Of
<1>6. msgs \in SUBSET Sends(e, ServerFlight)
  BY <1>2, <1>5 DEF Cnx
<1>7. \/ net' = net
      \/ Emits(e, epoch, msgs) /\ (epoch = "handshake" => "handshake" \in c.keys)
  BY <1>3 DEF Emit, Emits, SendKey
<1> DEFINE d == Sent(c, epoch, msgs)
<1>8. /\ d \in Cnx(e, ServerFlight)
      /\ d.state = c.state /\ d.keys = c.keys /\ d.sooner = c.sooner
      /\ d.seen = c.seen /\ d.got = c.got
      /\ d.tosend = c.tosend \ msgs /\ d.due = c.due \ msgs
      /\ d.unacked = c.unacked \cup (msgs \ {CLOSE})
  BY <1>2, <1>6, SentIs
<1>9. cnx' = [cnx EXCEPT ![e] = d]
  BY <1>3
<1> HIDE DEF d
<1>10. CASE e = "client"
  <2>1. QuietClient(c, d)
    BY <1>5, <1>8, <1>10 DEF QuietClient, Queue
  <2>2. CF \in msgs => CF \in Queue(c)
    BY <1>5 DEF Queue
  <2> QED BY <1>4, <1>6, <1>7, <1>8, <1>9, <1>10, <2>1, <2>2, ClientEmits
<1>11. CASE e = "server"
  <2>1. HelloFirst(ServerFlight, cnx["client"], cnx["server"], Wire(cnx["client"], cnx["server"], net))
    BY <1>1 DEF View, Inv
  <2>5. Onward(c, d)
    <3>1. ASSUME SomeLeft(c), c.state \in Starting PROVE d.tosend = c.tosend
      BY <1>5, <1>8, <1>11, <2>1, <3>1 DEF SomeLeft, HelloFirst
    <3> QED BY <1>8, <3>1 DEF Onward, SomeLeft
  <2>2. QuietServer(c, d)
    BY <1>5, <1>8, <1>11, <2>1, <2>5 DEF QuietServer, Queue, HelloFirst
  <2>3. \A m \in Flight(ServerFlight) \cup {DONE} : m \in msgs => m \in Queue(c)
    BY <1>5 DEF Queue
  <2>4. \A m \in Flight(ServerFlight) : m \in msgs => m \notin d.tosend
    BY <1>8
  <2> QED BY <1>4, <1>6, <1>7, <1>8, <1>9, <1>11, <2>2, <2>3, <2>4, ServerEmits
<1> QED BY <1>10, <1>11 DEF Ends

(* picoquic_prepare_packet_almost_ready.                                   *)
LEMMA AlmostReadyKeeps ==
  ASSUME IndInv, NEW e \in Ends, PrepareAlmostReady(e)
  PROVE  Reached
<1>1. cnx[e].state \notin {"none", "client_init", "server_almost_ready"}
  BY DEF PrepareAlmostReady
<1>2. PrepareOldContext(e, "initial") \/ PrepareOldContext(e, "handshake") \/ PrepareOldContext(e, "app")
  BY DEF PrepareAlmostReady
<1>3. {"initial", "handshake", "app"} = Epochs
  BY DEF Epochs
<1> QED BY <1>1, <1>2, <1>3, OldContextKeeps

(* picoquic_prepare_packet_ready.                                          *)
LEMMA ReadyKeeps ==
  ASSUME IndInv, NEW e \in Ends, PrepareReady(e)
  PROVE  Reached
<1> DEFINE c == cnx[e]
<1>1. View(cnx["client"], cnx["server"], net, retried)
  BY DEF IndInv
<1>2. c \in Cnx(e, ServerFlight)
  BY <1>1, InvTypes DEF Ends
<1>3. c.state = "ready" /\ retried' = retried
  BY DEF PrepareReady
<1>4. PICK msgs \in {{m} : m \in c.tosend \cup c.due}
                     \cup (IF "app" \in c.ack_needed THEN {{}} ELSE {}) :
           /\ Emit(e, "app", msgs)
           /\ cnx' = [cnx EXCEPT ![e] = Sent(c, "app", msgs)]
  BY DEF PrepareReady
<1>5. msgs \subseteq c.tosend \cup c.due
  OBVIOUS
<1>6. msgs \in SUBSET Sends(e, ServerFlight) /\ "app" \in Epochs
  BY <1>2, <1>5 DEF Cnx, Epochs
<1>7. Emits(e, "app", msgs)
  BY <1>4 DEF Emit, Emits
<1> DEFINE d == Sent(c, "app", msgs)
<1>8. /\ d \in Cnx(e, ServerFlight)
      /\ d.state = c.state /\ d.keys = c.keys /\ d.sooner = c.sooner
      /\ d.seen = c.seen /\ d.got = c.got
      /\ d.tosend = c.tosend \ msgs /\ d.due = c.due \ msgs
      /\ d.unacked = c.unacked \cup (msgs \ {CLOSE})
  BY <1>2, <1>6, SentIs
<1>9. cnx' = [cnx EXCEPT ![e] = d]
  BY <1>4
<1> HIDE DEF d
<1>10. CASE e = "client"
  <2>1. QuietClient(c, d)
    BY <1>3, <1>5, <1>8, <1>10 DEF QuietClient, Queue
  <2>2. CF \in msgs => CF \in Queue(c)
    BY <1>5 DEF Queue
  <2> QED BY <1>3, <1>6, <1>7, <1>8, <1>9, <1>10, <2>1, <2>2, ClientEmits
<1>11. CASE e = "server"
  <2>1. HelloFirst(ServerFlight, cnx["client"], cnx["server"], Wire(cnx["client"], cnx["server"], net))
    BY <1>1 DEF View, Inv
  <2>5. Onward(c, d)
    BY <1>3, <1>8 DEF Onward, SomeLeft, Starting, Failing, Closed
  <2>2. QuietServer(c, d)
    BY <1>3, <1>5, <1>8, <1>11, <2>1, <2>5 DEF QuietServer, Queue, HelloFirst
  <2>3. \A m \in Flight(ServerFlight) \cup {DONE} : m \in msgs => m \in Queue(c)
    BY <1>5 DEF Queue
  <2>4. \A m \in Flight(ServerFlight) : m \in msgs => m \notin d.tosend
    BY <1>8
  <2> QED BY <1>3, <1>6, <1>7, <1>8, <1>9, <1>11, <2>2, <2>3, <2>4, ServerEmits
<1> QED BY <1>10, <1>11 DEF Ends

(* A CONNECTION_CLOSE.                                                     *)
LEMMA ClosingKeeps ==
  ASSUME IndInv, NEW e \in Ends, PrepareClosing(e)
  PROVE  Reached
<1> DEFINE c == cnx[e]
           epoch == ClosingEpoch(c)
           x == AfterClose(c)
           d == [c EXCEPT !.state = x, !.ack_needed = c.ack_needed \ {epoch}]
<1>1. View(cnx["client"], cnx["server"], net, retried) /\ cnx \in [Ends -> Contexts]
  BY DEF IndInv
<1>2. c \in Cnx(e, ServerFlight)
  BY <1>1, InvTypes DEF Ends
<1>3. /\ c.state \in Closed
      /\ cnx' = [cnx EXCEPT ![e].state = x, ![e].ack_needed = @ \ {epoch}]
      /\ \/ net' = net
         \/ Emit(e, epoch, {CLOSE}) /\ SendKey(epoch) \in c.keys
      /\ retried' = retried
  BY DEF PrepareClosing, ClosingSends, Closed
<1>4. x \in Closed /\ (x \in Failing => c.state \in Failing)
  BY DEF AfterClose, Closed, Failing
<1>5. epoch \in Epochs
  BY DEF ClosingEpoch, Epochs
<1>6. cnx' = [cnx EXCEPT ![e] = d]
  BY <1>1, <1>3
<1> HIDE DEF x, epoch
<1>7. /\ d \in Cnx(e, ServerFlight) /\ d.state = x
      /\ d.keys = c.keys /\ d.tosend = c.tosend /\ d.unacked = c.unacked /\ d.due = c.due
      /\ d.seen = c.seen /\ d.got = c.got /\ d.sooner = c.sooner
  <2>1. x \in StatesOf(e)
    BY <1>4 DEF StatesOf, ClientStates, ServerStates
  <2> HIDE DEF c
  <2> QED BY <1>2, <2>1 DEF Cnx
<1>8. x \notin EarlyStates \cup LateStates \cup {"none", "server_almost_ready", "ready", "client_init"}
  BY <1>4 DEF Closed, EarlyStates, LateStates
<1>9. {CLOSE} \in SUBSET Sends(e, ServerFlight) /\ CF \notin {CLOSE} /\ SH \notin {CLOSE}
      /\ \A m \in Flight(ServerFlight) \cup {DONE} : m \notin {CLOSE}
  BY Distinct DEF Sends, FromClient, FromServer, Flight
<1>10. \/ net' = net
       \/ Emits(e, epoch, {CLOSE}) /\ (epoch = "handshake" => "handshake" \in c.keys)
  BY <1>3 DEF Emit, Emits, SendKey
<1>c. "none" \notin Closed
  BY DEF Closed
<1> HIDE DEF d
<1>11. CASE e = "client"
  <2>1. QuietClient(c, d)
    BY <1>4, <1>7, <1>8, <1>11 DEF QuietClient, Queue
  <2> QED BY <1>3, <1>5, <1>6, <1>7, <1>9, <1>10, <1>11, <2>1, ClientEmits
<1>12. CASE e = "server"
  <2>1. HelloFirst(ServerFlight, cnx["client"], cnx["server"], Wire(cnx["client"], cnx["server"], net))
    BY <1>1 DEF View, Inv
  <2>3. Onward(c, d)
    <3>1. x \in Starting => c.state \in Starting
      BY <1>4 DEF Starting, Failing, Closed
    <3> QED BY <1>4, <1>7, <3>1 DEF Onward, SomeLeft
  <2>2. QuietServer(c, d)
    BY <1>3, <1>4, <1>7, <1>8, <1>12, <1>c, <2>1, <2>3 DEF QuietServer, Queue, HelloFirst
  <2> QED BY <1>3, <1>5, <1>6, <1>7, <1>9, <1>10, <1>12, <1>c, <2>2, ServerEmits
<1> QED BY <1>11, <1>12 DEF Ends

(* The handshake packets of the client; with its last one it frees the     *)
(* Initial context.                                                        *)
LEMMA ClientSentIs ==
  ASSUME NEW c \in Cnx("client", ServerFlight), NEW epoch,
         NEW msgs \in SUBSET Sends("client", ServerFlight),
         epoch = "initial" => CF \notin msgs,
         c.state \in {"client_init", "client_init_sent", "client_handshake_start", "client_almost_ready"}
  PROVE  LET d == ClientSent(c, epoch, msgs)
         IN  /\ d \in Cnx("client", ServerFlight) /\ d.sooner = c.sooner
             /\ d.seen = c.seen /\ d.got = c.got
             /\ d.tosend = c.tosend \ msgs /\ d.due \subseteq c.due
             /\ d.unacked \subseteq c.unacked \cup msgs
             /\ d.keys = IF CF \in msgs THEN c.keys \ {"initial"} ELSE c.keys
             /\ c.unacked \cup (msgs \ {CLOSE}) \subseteq d.unacked
                \/ (CF \in msgs /\ CF \in d.unacked)
             /\ d.state = CASE c.state = "client_init" -> "client_init_sent"
                            [] c.state = "client_almost_ready" -> "client_ready_start"
                            [] OTHER -> c.state
<1> DEFINE x == CASE c.state = "client_init" -> "client_init_sent"
                  [] c.state = "client_almost_ready" -> "client_ready_start"
                  [] OTHER -> c.state
           a == [c EXCEPT !.state = x]
           b == Sent(a, epoch, msgs)
           f == DropEpoch(b, "initial")
           g == IF CF \in msgs THEN f ELSE b
           h == [g EXCEPT !.ack_needed = g.ack_needed \ {"initial"}]
<1>1. /\ a \in Cnx("client", ServerFlight) /\ a.state = x
      /\ a.keys = c.keys /\ a.tosend = c.tosend /\ a.unacked = c.unacked /\ a.due = c.due
      /\ a.seen = c.seen /\ a.got = c.got /\ a.sooner = c.sooner
  <2>1. x \in StatesOf("client") /\ "client" \in Ends
    BY DEF StatesOf, ClientStates, EarlyStates, LateStates, Ends
  <2> HIDE DEF x
  <2> QED BY <2>1, StateSet
<1> HIDE DEF x, a
<1>2. /\ b \in Cnx("client", ServerFlight) /\ b.state = x /\ b.keys = c.keys /\ b.sooner = c.sooner
      /\ b.seen = c.seen /\ b.got = c.got
      /\ b.tosend = c.tosend \ msgs /\ b.due \subseteq c.due
      /\ b.unacked = c.unacked \cup (msgs \ {CLOSE})
  <2>1. "client" \in Ends
    BY DEF Ends
  <2> QED BY <1>1, <2>1, SentIs
<1> HIDE DEF b
<1>3. /\ f \in Cnx("client", ServerFlight) /\ f.state = x /\ f.sooner = c.sooner
      /\ f.seen = c.seen /\ f.got = c.got /\ f.keys = c.keys \ {"initial"}
      /\ f.tosend = c.tosend \ msgs /\ f.due \subseteq c.due
      /\ f.unacked = b.unacked \ Of(b.unacked, "initial")
  <2>1. "client" \in Ends
    BY DEF Ends
  <2>2. /\ f \in Cnx("client", ServerFlight)
        /\ f.state = b.state /\ f.tosend = b.tosend /\ f.sooner = b.sooner
        /\ f.seen = b.seen /\ f.got = b.got /\ f.keys = b.keys \ {"initial"}
        /\ f.unacked = b.unacked \ Of(b.unacked, "initial") /\ f.due \subseteq b.due
    <3>1. b \in Cnx("client", ServerFlight)
      BY <1>2
    <3> QED BY <2>1, <3>1, DropIs
  <2> HIDE DEF f
  <2> QED BY <1>2, <2>2
<1>4. CF \in msgs => CF \in f.unacked
  BY <1>2, <1>3, EpochIs, Distinct DEF Of
<1> HIDE DEF f
<1>5. /\ g \in Cnx("client", ServerFlight) /\ g.state = x /\ g.sooner = c.sooner
      /\ g.seen = c.seen /\ g.got = c.got
      /\ g.keys = (IF CF \in msgs THEN c.keys \ {"initial"} ELSE c.keys)
      /\ g.tosend = c.tosend \ msgs /\ g.due \subseteq c.due
      /\ g.unacked \subseteq c.unacked \cup msgs
      /\ c.unacked \cup (msgs \ {CLOSE}) \subseteq g.unacked \/ (CF \in msgs /\ CF \in g.unacked)
  BY <1>2, <1>3, <1>4
<1> HIDE DEF g
<1>6. /\ h \in Cnx("client", ServerFlight) /\ h.state = x /\ h.sooner = c.sooner
      /\ h.seen = c.seen /\ h.got = c.got /\ h.keys = g.keys
      /\ h.tosend = g.tosend /\ h.due = g.due /\ h.unacked = g.unacked
  BY <1>5 DEF Cnx
<1>7. CASE epoch = "initial"
  <2>1. ClientSent(c, epoch, msgs) = b
    BY <1>7 DEF ClientSent, b, a, x
  <2> QED BY <1>2, <1>7, <2>1 DEF x
<1>8. CASE epoch # "initial"
  <2>1. ClientSent(c, epoch, msgs) = h
    BY <1>8 DEF ClientSent, g, f, b, a, x
  <2> HIDE DEF h
  <2> QED BY <1>5, <1>6, <2>1 DEF x
<1> QED BY <1>7, <1>8

(* picoquic_prepare_packet_client_init.                                    *)
LEMMA ClientInitKeeps ==
  ASSUME IndInv, PrepareClientInit
  PROVE  Reached
<1> DEFINE c == cnx["client"]
           epoch == ClientEpoch(c)
<1>1. View(c, cnx["server"], net, retried)
  BY DEF IndInv
<1>2. c \in Cnx("client", ServerFlight)
  BY <1>1, InvTypes
<1>3. /\ c.state \in {"client_init", "client_init_sent", "client_handshake_start", "client_almost_ready"}
      /\ retried' = retried
  BY DEF PrepareClientInit
<1>4. PICK msgs \in ClientMsgs(c, epoch) :
        /\ Emit("client", epoch, msgs)
        /\ cnx' = [cnx EXCEPT !["client"] = ClientSent(c, epoch, msgs)]
  BY DEF PrepareClientInit
<1>5. epoch \in Epochs /\ (epoch = "handshake" => "handshake" \in c.keys)
  BY DEF ClientEpoch, Epochs
<1> HIDE DEF epoch, c
<1>6. \A m \in msgs : m = ACKONLY \/ (m \in c.due \cup c.tosend /\ EpochOf(m) = epoch)
  BY DEF ClientMsgs, Of
<1>7. msgs \in SUBSET Sends("client", ServerFlight)
  BY <1>2, <1>6 DEF Cnx, Sends, FromClient
<1>8. CF \in msgs => CF \in Queue(c) /\ epoch = "handshake"
  BY <1>6, EpochIs, Distinct DEF Queue
<1> DEFINE d == ClientSent(c, epoch, msgs)
<1>9. /\ d \in Cnx("client", ServerFlight) /\ d.sooner = c.sooner
      /\ d.seen = c.seen /\ d.got = c.got
      /\ d.tosend = c.tosend \ msgs /\ d.due \subseteq c.due
      /\ d.unacked \subseteq c.unacked \cup msgs
      /\ d.keys = (IF CF \in msgs THEN c.keys \ {"initial"} ELSE c.keys)
      /\ c.unacked \cup (msgs \ {CLOSE}) \subseteq d.unacked \/ (CF \in msgs /\ CF \in d.unacked)
      /\ d.state = CASE c.state = "client_init" -> "client_init_sent"
                     [] c.state = "client_almost_ready" -> "client_ready_start"
                     [] OTHER -> c.state
  BY <1>2, <1>3, <1>7, <1>8, ClientSentIs
<1> HIDE DEF d
<1>10. QuietClient(c, d)
  <2>1. /\ d.state # "client_init" /\ c.state \notin Closed /\ d.state # "ready"
        /\ d.state \in EarlyStates => c.state \in EarlyStates
        /\ d.state \in LateStates => c.state \in LateStates
    BY <1>3, <1>9 DEF EarlyStates, LateStates, Closed
  <2>2. CF \in Queue(d) => CF \in Queue(c)
    BY <1>8, <1>9 DEF Queue
  <2>3. \/ /\ d.keys = c.keys
           /\ (c.tosend \cup c.unacked) \ {CLOSE} \subseteq d.tosend \cup d.unacked
        \/ /\ CF \in Queue(c) /\ d.keys = c.keys \ {"initial"}
           /\ CF \in c.tosend \cup c.unacked => CF \in d.tosend \cup d.unacked
    <3>1. CASE CF \in msgs
      <4>1. CF \in d.unacked
        BY <1>9, <3>1, Distinct
      <4> QED BY <1>8, <1>9, <3>1, <4>1
    <3>2. CASE CF \notin msgs
      BY <1>9, <3>2
    <3> QED BY <3>1, <3>2
  <2> QED BY <1>9, <2>1, <2>2, <2>3 DEF QuietClient
<1>11. Emits("client", epoch, msgs)
  BY <1>4 DEF Emit, Emits, c
<1>12. cnx' = [cnx EXCEPT !["client"] = d]
  BY <1>4 DEF d
<1> QED BY <1>3, <1>5, <1>7, <1>8, <1>9, <1>10, <1>11, <1>12, ClientEmits DEF c

(* New TLS data of the server: once it sends the server hello it leaves    *)
(* server_almost_ready.                                                    *)
LEMMA ServerSentIs ==
  ASSUME NEW c \in Cnx("server", ServerFlight), NEW epoch,
         NEW msgs \in SUBSET Sends("server", ServerFlight)
  PROVE  LET d == ServerSent(c, epoch, msgs)
         IN  /\ d \in Cnx("server", ServerFlight) /\ d.sooner = c.sooner
             /\ d.seen = c.seen /\ d.got = c.got /\ d.keys = c.keys
             /\ d.tosend = c.tosend \ msgs /\ d.due \subseteq c.due
             /\ d.unacked = c.unacked \cup (msgs \ {CLOSE})
             /\ \/ d.state \in {"server_handshake", "server_false_start"}
                \/ d.state = c.state /\ SH \notin msgs
             /\ \/ SH \in msgs \/ c.tosend # msgs
                \/ scenario.auth \/ d.state = "server_false_start"
<1> DEFINE b == Sent(c, epoch, msgs)
           x == IF SH \in msgs \/ (c.tosend = msgs /\ scenario.auth) THEN "server_handshake"
                ELSE IF c.tosend = msgs THEN "server_false_start" ELSE b.state
           d == [b EXCEPT !.state = x]
<1>1. /\ b \in Cnx("server", ServerFlight)
      /\ b.state = c.state /\ b.keys = c.keys /\ b.sooner = c.sooner
      /\ b.seen = c.seen /\ b.got = c.got
      /\ b.tosend = c.tosend \ msgs /\ b.due = c.due \ msgs
      /\ b.unacked = c.unacked \cup (msgs \ {CLOSE})
  <2>1. "server" \in Ends
    BY DEF Ends
  <2> HIDE DEF b
  <2> QED BY <2>1, SentIs DEF b
<1>2. ServerSent(c, epoch, msgs) = d
  BY DEF ServerSent
<1> HIDE DEF b
<1>3. /\ x \in {"server_handshake", "server_false_start"} \/ (x = c.state /\ SH \notin msgs)
      /\ SH \in msgs \/ c.tosend # msgs \/ scenario.auth \/ x = "server_false_start"
      /\ x \in StatesOf("server")
  <2>1. c.state \in StatesOf("server") /\ {"server_handshake", "server_false_start"} \subseteq StatesOf("server")
    BY DEF Cnx, StatesOf, ServerStates
  <2> QED BY <1>1, <2>1
<1> HIDE DEF x
<1>4. /\ d \in Cnx("server", ServerFlight) /\ d.state = x
      /\ d.keys = b.keys /\ d.tosend = b.tosend /\ d.unacked = b.unacked /\ d.due = b.due
      /\ d.seen = b.seen /\ d.got = b.got /\ d.sooner = b.sooner
  <2>1. "server" \in Ends
    BY DEF Ends
  <2> QED BY <1>1, <1>3, <2>1, StateSet
<1> HIDE DEF d
<1> QED BY <1>1, <1>2, <1>3, <1>4

(* The flight of the server has at least one message, for its size is not  *)
(* 0.                                                                      *)
LEMMA FlightSome ==
  ASSUME IndInv
  PROVE  ServerFlight # {}
<1>1. scenario.flight \in Nat \ {0}
  BY ConnectionAssumption DEF IndInv
<1>2. 1 \in 1..scenario.flight
  BY <1>1
<1> QED BY <1>2 DEF ServerFlight

(* The server sends the next part of its flight, the server hello first.   *)
LEMMA ServerSendsKeeps ==
  ASSUME IndInv, NEW epoch \in Epochs,
         cnx["server"].state \in {"server_init", "server_handshake", "server_almost_ready"},
         cnx["server"].tosend # {},
         Emit("server", epoch, {NextPart(cnx["server"])}),
         cnx' = [cnx EXCEPT !["server"] =
                   ServerSent(cnx["server"], epoch, {NextPart(cnx["server"])})],
         retried' = retried
  PROVE  Reached
<1> DEFINE s == cnx["server"]
           m == NextPart(s)
           d == ServerSent(s, epoch, {m})
<1>1. View(cnx["client"], s, net, retried)
  BY DEF IndInv
<1>2. s \in Cnx("server", ServerFlight)
  BY <1>1, InvTypes
<1>3. m \in s.tosend /\ (SH \in s.tosend => m = SH)
  BY <1>2, NextPartIs
<1>4. HelloFirst(ServerFlight, cnx["client"], s, Wire(cnx["client"], s, net))
  BY <1>1 DEF View, Inv
<1>5. Emits("server", epoch, {m}) /\ cnx' = [cnx EXCEPT !["server"] = d]
  BY DEF Emit, Emits
<1>6. s.state \notin {"none", "ready"}
  OBVIOUS
<1>s. s.state \in {"server_init", "server_handshake", "server_almost_ready"}
  OBVIOUS
<1> HIDE DEF m, s
<1>7. {m} \in SUBSET Sends("server", ServerFlight)
  BY <1>2, <1>3 DEF Cnx
<1>8. /\ d \in Cnx("server", ServerFlight) /\ d.sooner = s.sooner
      /\ d.seen = s.seen /\ d.got = s.got /\ d.keys = s.keys
      /\ d.tosend = s.tosend \ {m} /\ d.due \subseteq s.due
      /\ d.unacked = s.unacked \cup ({m} \ {CLOSE})
      /\ \/ d.state \in {"server_handshake", "server_false_start"}
         \/ d.state = s.state /\ SH \notin {m}
      /\ \/ SH \in {m} \/ s.tosend # {m}
         \/ scenario.auth \/ d.state = "server_false_start"
  BY <1>2, <1>7, ServerSentIs
<1> HIDE DEF d
<1>9. QuietServer(s, d)
  <2>1. \A k \in Flight(ServerFlight) \cup {DONE} : k \in Queue(d) => k \in Queue(s)
    BY <1>3, <1>8 DEF Queue
  <2>2. (s.tosend \cup s.unacked) \ {CLOSE} \subseteq d.tosend \cup d.unacked
    BY <1>8
  <2>3. \A k \in Flight(ServerFlight) : k \in d.tosend => k \in s.tosend /\ k \notin d.due \cup d.unacked
    BY <1>4, <1>8 DEF HelloFirst
  <2>4. d.state = "server_almost_ready" => s.state = "server_almost_ready" /\ SH \in d.tosend
    <3>1. ASSUME d.state = "server_almost_ready" PROVE FALSE
      <4>1. s.state = "server_almost_ready" /\ SH # m
        BY <1>8, <3>1
      <4> QED BY <1>3, <1>4, <4>1 DEF HelloFirst
    <3> QED BY <3>1
  <2>5. d.state \notin {"none", "ready"}
    BY <1>6, <1>8
  <2>6. Onward(s, d)
    <3>1. s.state \notin Closed /\ d.state \notin Failing
      BY <1>8, <1>s DEF Closed, Failing
    <3>2. ASSUME SomeLeft(s), d.state \in Starting
          PROVE  /\ d.tosend \subseteq Flight(ServerFlight) /\ SH \notin d.tosend
                 /\ ~scenario.auth /\ "app_send" \in d.keys => d.tosend # {}
      <4>1. /\ s.tosend \subseteq Flight(ServerFlight)
            /\ SH \in s.tosend => ServerFlight \subseteq s.tosend
        BY <1>s, <3>2 DEF SomeLeft, Starting
      <4>2. d.tosend \subseteq Flight(ServerFlight) /\ SH \notin d.tosend
        BY <1>3, <1>8, <4>1
      <4>3. ASSUME ~scenario.auth PROVE d.tosend # {}
        <5>1. d.state # "server_false_start"
          BY <3>2 DEF Starting, Failing
        <5>2. CASE SH = m
          <6>1. \E k \in ServerFlight : k # SH
            BY FlightSome, Distinct
          <6> QED BY <1>3, <1>8, <4>1, <5>2, <6>1
        <5>3. CASE SH # m
          BY <1>3, <1>8, <4>3, <5>1, <5>3
        <5> QED BY <5>2, <5>3
      <4> QED BY <4>2, <4>3
    <3> QED BY <3>1, <3>2 DEF Onward, SomeLeft
  <2> QED BY <1>6, <1>8, <2>1, <2>2, <2>3, <2>4, <2>5, <2>6 DEF QuietServer
<1>10. /\ \A k \in Flight(ServerFlight) \cup {DONE} : k \in {m} => k \in Queue(s)
       /\ \A k \in Flight(ServerFlight) : k \in {m} => k \notin d.tosend
  BY <1>3, <1>8 DEF Queue
<1> QED BY <1>5, <1>6, <1>7, <1>8, <1>9, <1>10, ServerEmits DEF s

(* picoquic_prepare_packet_server_init, as far as the credit of the        *)
(* address allows.                                                         *)
LEMMA ServerInitKeeps ==
  ASSUME IndInv, PrepareServerInit
  PROVE  Reached
<1> DEFINE s == cnx["server"]
           epoch == IF SH \in s.tosend THEN "initial" ELSE "handshake"
<1>1. View(cnx["client"], s, net, retried)
  BY DEF IndInv
<1>2. HelloFirst(ServerFlight, cnx["client"], s, Wire(cnx["client"], s, net))
  BY <1>1 DEF View, Inv
<1>3. /\ s.state \in {"server_init", "server_handshake", "server_almost_ready"}
      /\ \/ epoch = "handshake" /\ PrepareOldContext("server", "initial")
         \/ /\ s.tosend # {}
            /\ Emit("server", epoch, {NextPart(s)})
            /\ cnx' = [cnx EXCEPT !["server"] = ServerSent(s, epoch, {NextPart(s)})]
            /\ retried' = retried
         \/ s.tosend = {} /\ PrepareOldContext("server", "handshake")
  BY DEF PrepareServerInit
<1>4. epoch \in Epochs /\ "initial" \in Epochs /\ "handshake" \in Epochs /\ "server" \in Ends
  BY DEF Epochs, Ends
<1>5. SH \notin s.tosend => s.state \notin {"none", "client_init", "server_almost_ready"}
  BY <1>2, <1>3 DEF HelloFirst
<1>6. CASE epoch = "handshake" /\ PrepareOldContext("server", "initial")
  <2>1. SH \notin s.tosend
    BY <1>6
  <2> QED BY <1>4, <1>5, <1>6, <2>1, OldContextKeeps
<1>7. CASE /\ s.tosend # {}
           /\ Emit("server", epoch, {NextPart(s)})
           /\ cnx' = [cnx EXCEPT !["server"] = ServerSent(s, epoch, {NextPart(s)})]
           /\ retried' = retried
  <2> HIDE DEF epoch
  <2> QED BY <1>3, <1>4, <1>7, ServerSendsKeeps
<1>8. CASE s.tosend = {} /\ PrepareOldContext("server", "handshake")
  <2>1. SH \notin s.tosend
    BY <1>8
  <2> QED BY <1>4, <1>5, <1>8, <2>1, OldContextKeeps
<1> QED BY <1>3, <1>6, <1>7, <1>8

-----------------------------------------------------------------------------
(* The theorem *)

(* Every step of Next keeps the invariant.                                 *)
LEMMA StepKeeps ==
  ASSUME IndInv, Next
  PROVE  Reached
<1>1. ASSUME NEW p \in net, Deliver(p) \/ Lose(p) PROVE Reached
  BY <1>1, NewInitialKeeps, ToServerKeeps, ToClientKeeps, RetryKeeps, LoseKeeps DEF Deliver
<1>2. ASSUME NEW e \in Ends, ProcessSooner(e) \/ Timeout(e) PROVE Reached
  BY <1>2, SoonerKeeps, TimeoutKeeps
<1>3. ASSUME NEW e \in Ends, Prepare(e) PROVE Reached
  BY <1>3, ClientInitKeeps, ServerInitKeeps, AlmostReadyKeeps, ReadyKeeps, ClosingKeeps DEF Prepare
<1>4. ASSUME NEW e \in Ends, Close(e) \/ LeaveClosing(e) \/ IdleTimeout(e) PROVE Reached
  BY <1>4, CloseKeeps, LeaveKeeps, IdleKeeps
<1> QED BY <1>1, <1>2, <1>3, <1>4 DEF Next

(* It holds before the client starts.                                      *)
LEMMA InitHolds ==
  ASSUME Init
  PROVE  IndInv
<1> DEFINE c == NewCnx("client_init", {CH})
           s == NewCnx("none", {})
           F == ServerFlight
<1>1. scenario \in Scenarios /\ cnx = [client |-> c, server |-> s] /\ net = {} /\ retried = FALSE
  BY DEF Init
<1>2. cnx["client"] = c /\ cnx["server"] = s
  BY <1>1
<1>3. /\ c \in Cnx("client", F) /\ c.state = "client_init" /\ c.keys = {"initial"}
      /\ c.tosend = {CH} /\ c.unacked = {} /\ c.due = {} /\ c.seen = {} /\ c.got = {} /\ c.sooner = {}
  <2>1. "client_init" \in StatesOf("client") /\ {"initial"} \subseteq AllKeys /\ CH \in Sends("client", F)
    BY DEF StatesOf, ClientStates, EarlyStates, AllKeys, Sends, FromClient
  <2> QED BY <2>1 DEF NewCnx, Cnx
<1>4. /\ s \in Cnx("server", F) /\ s.state = "none" /\ s.keys = {"initial"}
      /\ s.tosend = {} /\ s.unacked = {} /\ s.due = {} /\ s.seen = {} /\ s.got = {} /\ s.sooner = {}
  <2>1. "none" \in StatesOf("server") /\ {"initial"} \subseteq AllKeys
    BY DEF StatesOf, ServerStates, AllKeys
  <2> QED BY <2>1 DEF NewCnx, Cnx
<1>5. cnx \in [Ends -> Contexts]
  BY <1>1, <1>3, <1>4 DEF Ends, Contexts
<1>6. Fresh(c, s, {})
  BY <1>3, <1>4 DEF Fresh
<1> HIDE DEF c, s, F
<1>7. Wire(c, s, {}) = {}
  BY <1>3, <1>4 DEF Wire
<1>8. Typed(F, c, s, {}, FALSE) /\ EarlyOK(c)
  BY <1>3, <1>4 DEF Typed, EarlyOK
<1>9. AcksHonest(F, c, s, {})
  BY <1>3, <1>4 DEF AcksHonest
<1>10. HelloKnown(F, c, s, {})
  BY <1>3, <1>4 DEF HelloKnown, Carried, Queue
<1>11. FlightKnown(F, c, s, {})
  <2>1. CF # CH
    BY Distinct
  <2> QED BY <1>3, <1>4, <2>1 DEF FlightKnown, Carried, Queue, LateStates
<1>12. FinishedKnown(c, s, {}) /\ HandshakeKeyed(c, {}) /\ HelloFirst(F, c, s, {})
  BY <1>3, <1>4 DEF FinishedKnown, HandshakeKeyed, HelloFirst, Carried, Queue
<1>13. RetryOnce(scenario.policy, s, {}, FALSE)
  BY <1>4 DEF RetryOnce
<1>14. ClientHolds(c, s) /\ ServerHolds(F, c, s)
  BY <1>3, <1>4 DEF ClientHolds, ServerHolds, Held
<1>15. View(c, s, {}, FALSE)
  BY <1>6, <1>7, <1>8, <1>9, <1>10, <1>11, <1>12, <1>13, <1>14 DEF View, Inv, F
<1>16. closes \in Nat
  BY DEF Init
<1> QED BY <1>1, <1>2, <1>5, <1>15, <1>16 DEF IndInv

(* No step changes the scenario.                                           *)
LEMMA ScenarioKept ==
  ASSUME IndInv, Next
  PROVE  scenario' = scenario /\ closes' \in Nat
<1> USE DEF IndInv
<1>1. ASSUME NEW p \in net, Deliver(p) \/ Lose(p) PROVE UNCHANGED <<scenario, closes>>
  BY <1>1 DEF Deliver, DeliverNewInitial, DeliverToServer, DeliverToClient, DeliverRetry, Lose
<1>2. ASSUME NEW e \in Ends, ProcessSooner(e) \/ Timeout(e) PROVE UNCHANGED <<scenario, closes>>
  BY <1>2 DEF ProcessSooner, Timeout
<1>3. ASSUME NEW e \in Ends, Prepare(e) PROVE UNCHANGED <<scenario, closes>>
  BY <1>3 DEF Prepare, PrepareClientInit, PrepareServerInit, PrepareOldContext,
              PrepareAlmostReady, PrepareReady, PrepareClosing
<1>4. ASSUME NEW e \in Ends, Close(e) PROVE scenario' = scenario /\ closes' = closes + 1
  BY <1>4 DEF Close
<1>5. ASSUME NEW e \in Ends, LeaveClosing(e) \/ IdleTimeout(e) PROVE UNCHANGED <<scenario, closes>>
  BY <1>5 DEF LeaveClosing, IdleTimeout
<1> QED BY <1>1, <1>2, <1>3, <1>4, <1>5 DEF Next

(* So it is inductive.                                                     *)
LEMMA IndInvKept ==
  ASSUME IndInv, [Next]_vars
  PROVE  IndInv'
<1>1. CASE UNCHANGED vars
  BY <1>1 DEF vars, IndInv, View, ServerFlight, Contexts
<1>2. CASE Next
  <2>1. scenario' = scenario /\ closes' \in Nat
    BY <1>2, ScenarioKept
  <2>2. ServerFlight' = ServerFlight
    BY <2>1 DEF ServerFlight
  <2>3. Reached
    BY <1>2, StepKeeps
  <2>4. Inv(ServerFlight, scenario.policy, cnx'["client"], cnx'["server"], net', retried')
    BY <2>3 DEF Reached, View
  <2>5. Inv(ServerFlight', scenario.policy', cnx'["client"], cnx'["server"], net', retried')
    BY <2>1, <2>2, <2>4
  <2>6. Contexts' = Contexts
    BY <2>2 DEF Contexts
  <2> QED BY <2>1, <2>3, <2>5, <2>6 DEF IndInv, Reached, View
<1> QED BY <1>1, <1>2

(* What the invariant says of the messages gives HandshakeAgreed.          *)
LEMMA IndInvAgrees ==
  ASSUME IndInv
  PROVE  HandshakeAgreed
<1> DEFINE c == cnx["client"]
           s == cnx["server"]
           F == ServerFlight
           w == Wire(c, s, net)
<1>1. FlightKnown(F, c, s, w) /\ FinishedKnown(c, s, w) /\ ClientHolds(c, s) /\ ServerHolds(F, c, s)
  BY DEF IndInv, View, Inv
<1> HIDE DEF w
<1>2. ReadyMeansComplete
  <2>1. s.state = "ready" => F \subseteq c.got
    BY <1>1 DEF FinishedKnown, FlightKnown, Flight
  <2> QED BY <1>1, <2>1 DEF FinishedKnown, ReadyMeansComplete
<1>3. NothingAbandoned
  <2>1. ASSUME NEW m \in Produced("client")
        PROVE  \/ m \in s.got \/ c.state \in Closed
               \/ m \in c.tosend \cup c.unacked /\ EpochOf(m) \in c.keys
    <3>1. m = CH \/ (m = CF /\ "app_send" \in c.keys)
      BY <2>1 DEF Produced
    <3> QED BY <1>1, <3>1, EpochIs DEF ClientHolds, Held
  <2>2. ASSUME NEW m \in Produced("server")
        PROVE  \/ m \in c.got \/ c.state \in Closed
               \/ m \in s.tosend \cup s.unacked /\ EpochOf(m) \in s.keys
    <3>1. "app_send" \in s.keys /\ (m = SH \/ m \in F)
      BY <2>2 DEF Produced
    <3> QED BY <1>1, <3>1, EpochIs DEF ServerHolds, Held
  <2> QED BY <2>1, <2>2 DEF NothingAbandoned, Ends, Peer
<1> QED BY <1>2, <1>3 DEF HandshakeAgreed

(* Both ends agree on how far the handshake has come (picoquic_ready_state *)
(* _transition, picoquic_implicit_handshake_ack), for every scenario: any  *)
(* policy and flight of the server, client certificate or not, any number  *)
(* of packets lost and of timers that expire too early, and any closes.    *)
THEOREM HandshakeAlwaysAgreed == Spec => []HandshakeAgreed
<1>1. Init => IndInv
  BY InitHolds
<1>2. IndInv /\ [Next]_vars => IndInv'
  BY IndInvKept
<1>3. IndInv => HandshakeAgreed
  BY IndInvAgrees
<1> QED BY <1>1, <1>2, <1>3, PTL DEF Spec

(* A connection that closes never opens again (picoquic_close, the states  *)
(* after handshake_failure and disconnecting, and the packets that arrive  *)
(* then): the client for every scenario, the server unless it is closed    *)
(* while it waits for a client certificate, when the client finished makes *)
(* it ready again.                                                         *)
THEOREM ClosedAlwaysStaysClosed ==
  (\A x \in Scenarios : x.auth => x.closes = 0) => (Spec => ClosedStaysClosed)
<1> SUFFICES ASSUME \A x \in Scenarios : x.auth => x.closes = 0 PROVE Spec => ClosedStaysClosed
  OBVIOUS
<1> DEFINE I == IndInv /\ SomeLeft(cnx["server"])
<1>1. Init => I
  <2>1. ASSUME Init PROVE SomeLeft(cnx["server"])
    <3>1. cnx["server"].state = "none"
      BY <2>1 DEF Init, NewCnx
    <3> QED BY <3>1 DEF SomeLeft, Starting, Failing
  <2> QED BY <2>1, InitHolds
<1>2. ASSUME I, [Next]_vars
      PROVE  I' /\ [\A e \in Ends : cnx[e].state \in Closed => cnx'[e].state \in Closed]_vars
  <2>1. IndInv'
    BY <1>2, IndInvKept
  <2>2. CASE UNCHANGED vars
    BY <1>2, <2>1, <2>2 DEF vars, SomeLeft, ServerFlight
  <2>3. CASE Next
    <3>1. scenario' = scenario
      BY <1>2, <2>3, ScenarioKept
    <3>2. Reached
      BY <1>2, <2>3, StepKeeps
    <3>3. ~ClosesEarly
      BY <1>2 DEF IndInv, ClosesEarly
    <3>4. SomeLeft(cnx'["server"]) /\ (cnx["server"].state \in Closed => cnx'["server"].state \in Closed)
      BY <1>2, <3>2, <3>3 DEF Reached, Onward
    <3>5. SomeLeft(cnx["server"])'
      BY <3>1, <3>4 DEF SomeLeft, ServerFlight
    <3>6. cnx["client"].state \in Closed => cnx'["client"].state \in Closed
      BY <3>2 DEF Reached
    <3> QED BY <2>1, <3>4, <3>5, <3>6 DEF Ends
  <2> QED BY <1>2, <2>2, <2>3
<1> QED BY <1>1, <1>2, PTL DEF Spec, ClosedStaysClosed

=============================================================================
