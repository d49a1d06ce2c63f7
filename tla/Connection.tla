----------------------------- MODULE Connection -----------------------------
(***************************************************************************)
(* Setup and end of a connection: the states of a client and of a server,  *)
(* the keys they hold, the TLS messages they exchange in Initial and       *)
(* Handshake packets, address validation with its limit on what a server   *)
(* may send, Retry, packets that arrive before their keys, and closing.    *)
(*                                                                         *)
(* Abstracted: a packet is as long as the MTU and travels alone (coalesced *)
(* packets are lost and reordered more freely than in the code); a packet  *)
(* is what it carries, so an ACK names messages instead of numbers; timers *)
(* of retransmission expire when neither a message nor its ACK is on the   *)
(* way, or too early; the two long timers (the end of the handshake, idle) *)
(* expire when the peer is gone.  0-RTT, version negotiation               *)
(* and stateless resets are left out.  TLS is external: see Messages.      *)
(***************************************************************************)
EXTENDS Integers, FiniteSets

CONSTANTS
  Scenarios,    (* what a behaviour may meet, see Init                     *)
  MaxInFlight,  (* bound: packets in the network at a time                 *)
  MaxCredit     (* bound: what the server believes it may send, in packets *)

ASSUME ConnectionAssumption ==
  /\ Scenarios \subseteq [policy : {"accept", "retry", "busy"}, flight : Nat \ {0},
                          auth : BOOLEAN, faults : Nat, closes : Nat]
  /\ MaxInFlight \in Nat \ {0} /\ MaxCredit \in Nat \ {0}

VARIABLES
  scenario,     (* policy of the server (accept, ask for a token: retry, or *)
                (* busy), packets of its flight, whether it requires a     *)
                (* client certificate (auth), bounds on packets lost or    *)
                (* repeated too early (faults) and on calls of             *)
                (* picoquic_close (closes)                                 *)
  cnx,          (* picoquic_cnx_t of the client and of the server          *)
  validated,    (* initial_validated of the server                         *)
  credit,       (* 3 * initial_data_received - initial_data_sent in MTUs,  *)
                (* while it matters                                        *)
  retried,      (* the client has used a Retry: original_cnxid is set      *)
  net,          (* packets in the network                                  *)
  keyless,      (* a packet was built for an epoch without a key           *)
  faults,
  closes

vars == <<scenario, cnx, validated, credit, retried, net, keyless, faults, closes>>

Ends == {"client", "server"}

Peer(e) == IF e = "client" THEN "server" ELSE "client"

-----------------------------------------------------------------------------
(* picoquic_state_enum: conditions of the code compare positions here.     *)

StateOrder ==
  <<"none", "client_init", "client_init_sent", "server_init", "server_handshake",
    "client_handshake_start", "handshake_failure", "handshake_failure_resend",
    "client_almost_ready", "server_false_start", "server_almost_ready",
    "client_ready_start", "ready", "disconnecting", "closing_received", "closing",
    "draining", "disconnected">>

States == {StateOrder[i] : i \in DOMAIN StateOrder}

Rank == [s \in States |-> CHOOSE i \in DOMAIN StateOrder : StateOrder[i] = s]

Before(s, t) == Rank[s] < Rank[t]

Closed ==
  {"handshake_failure", "handshake_failure_resend", "disconnecting",
   "closing_received", "closing", "draining", "disconnected"}

-----------------------------------------------------------------------------
(* Messages.  TLS: the client hello is answered by the server hello (which *)
(* gives the Handshake keys) and the server's flight, whose last packet    *)
(* completes TLS at the client (1-RTT keys, client finished); the client's *)
(* finished completes it at the server, which has sent with 1-RTT keys     *)
(* since the client hello.                                                 *)

ServerFlight == {[type |-> "server_flight", part |-> i] : i \in 1..scenario.flight}

Msg(type) == [type |-> type, part |-> 0]

CH == Msg("client_hello")
SH == Msg("server_hello")
CF == Msg("client_finished")
DONE == Msg("handshake_done")
CLOSE == Msg("close")

Ping(epoch) == Msg(IF epoch = "initial" THEN "ping_initial" ELSE "ping_handshake")

Pings == {Ping("initial"), Ping("handshake")}

(* Marks a Handshake packet of the client with nothing but an ACK: it is   *)
(* queued as any packet, but neither acked for its sake nor repeated.      *)
ACKONLY == Msg("ack_only")

NotEliciting == {CLOSE, ACKONLY}

Crypto == {CH, SH, CF} \cup ServerFlight

Epochs == {"initial", "handshake", "app"}

EpochOf(m) ==
  CASE m \in {CH, SH, Ping("initial")} -> "initial"
    [] m \in {CF, Ping("handshake"), ACKONLY} \cup ServerFlight -> "handshake"
    [] m = DONE -> "app"

Of(msgs, epoch) == {m \in msgs : EpochOf(m) = epoch}

(* The two directions of the 1-RTT keys appear apart at the server.        *)
SendKey(epoch) == IF epoch = "app" THEN "app_send" ELSE epoch
ReceiveKey(epoch) == IF epoch = "app" THEN "app_receive" ELSE epoch

(* seen: what the ACKs of an epoch report; got: what TLS was given;        *)
(* due: what a retransmission timer asks to send; sooner: packets that     *)
(* arrived before their keys.                                              *)
NewCnx(state, tosend) ==
  [state |-> state, keys |-> {"initial"}, tosend |-> tosend, unacked |-> {}, due |-> {},
   seen |-> {}, got |-> {}, ack_needed |-> {}, sooner |-> {}]

Init ==
  /\ scenario \in Scenarios
  /\ cnx = [client |-> NewCnx("client_init", {CH}), server |-> NewCnx("none", {})]
  /\ validated = FALSE /\ credit = 0 /\ retried = FALSE
  /\ net = {} /\ keyless = FALSE /\ faults = 0 /\ closes = 0

(* cid: the destination is the one the server chose; token: of a Retry.    *)
Packet(e, epoch, msgs, ack) ==
  [to |-> Peer(e), epoch |-> epoch, msgs |-> msgs, ack |-> ack,
   cid |-> e = "server" \/ Before("client_init_sent", cnx[e].state),
   token |-> e = "client" /\ retried]

-----------------------------------------------------------------------------
(* What changes a context.                                                 *)

(* picoquic_implicit_handshake_ack and picoquic_crypto_context_free.       *)
DropEpoch(c, epoch) ==
  [c EXCEPT !.keys = @ \ {epoch}, !.unacked = @ \ Of(@, epoch), !.due = @ \ Of(@, epoch)]

ReadyTransition(c, e) ==
  [DropEpoch(DropEpoch(c, "initial"), "handshake") EXCEPT
     !.state = "ready", !.tosend = IF e = "server" THEN {DONE} ELSE {}]

ConnectionError(c) ==
  [c EXCEPT !.state =
     CASE @ \in {"ready", "client_ready_start", "server_false_start"} -> "disconnecting"
       [] Before(@, "server_false_start") /\ @ # "handshake_failure_resend" -> "handshake_failure"
       [] OTHER -> @]

(* CONNECTION_CLOSE of the peer.                                           *)
CloseReceived(c) ==
  [c EXCEPT !.state =
     IF Before(@, "client_ready_start") \/ "app_receive" \notin c.keys
     THEN "disconnected" ELSE "closing_received"]

HandshakeDoneReceived(c) ==
  IF c.state = "client_ready_start" THEN ReadyTransition(c, "client")
  ELSE IF Before(c.state, "client_ready_start") THEN ConnectionError(c)
  ELSE c

(* The number of the packet is recorded, for the next ACK.                 *)
Recorded(c, p) ==
  [c EXCEPT !.seen = @ \cup (p.msgs \ {CLOSE}),
            !.ack_needed = IF p.msgs \subseteq NotEliciting THEN @ ELSE @ \cup {p.epoch}]

(* ACK and CRYPTO frames, then the frames that change the state.           *)
DecodeFrames(c, p) ==
  LET read == [Recorded(c, p) EXCEPT !.unacked = @ \ p.ack, !.due = @ \ p.ack,
                                     !.got = @ \cup (p.msgs \cap Crypto)]
  IN  IF CLOSE \in p.msgs THEN CloseReceived(read)
      ELSE IF DONE \in p.msgs THEN HandshakeDoneReceived(read)
      ELSE read

TlsProcessClient(c) ==
  IF Before("client_handshake_start", c.state) \/ SH \notin c.got THEN c
  ELSE IF ServerFlight \subseteq c.got
  THEN [c EXCEPT !.state = "client_almost_ready", !.tosend = @ \cup {CF},
                 !.keys = @ \cup {"handshake", "app_send", "app_receive"}]
  ELSE [c EXCEPT !.keys = @ \cup {"handshake"}]

TlsProcessServer(c) ==
  IF CF \in c.got
  THEN [c EXCEPT !.keys = @ \cup {"app_receive"},
                 !.state = IF scenario.auth /\ @ = "server_handshake" THEN "server_false_start" ELSE @]
  ELSE IF CH \in c.got /\ "app_send" \notin c.keys
  THEN [c EXCEPT !.keys = @ \cup {"handshake", "app_send"},
                 !.tosend = @ \cup {SH} \cup ServerFlight,
                 !.state = IF @ = "server_init" THEN "server_almost_ready" ELSE @]
  ELSE c

-----------------------------------------------------------------------------
(* Incoming packets: the context after the packet.                         *)

IncomingServerInitial(c, p) ==
  LET started == [c EXCEPT !.state = IF @ = "client_init_sent" THEN "client_handshake_start" ELSE @]
  IN  IF ~Before("client_handshake_start", started.state)
      THEN TlsProcessClient(DecodeFrames(started, p))
      ELSE IF Before(started.state, "ready") THEN Recorded(started, p) ELSE started

IncomingServerHandshake(c, p) ==
  IF ~Before(c.state, "ready") THEN c
  ELSE IF c.state = "client_handshake_start" THEN TlsProcessClient(DecodeFrames(c, p))
  ELSE DecodeFrames(c, p)

IncomingClientInitial(c, p) ==
  IF Before(c.state, "server_almost_ready") THEN TlsProcessServer(DecodeFrames(c, p))
  ELSE IF Before(c.state, "ready") THEN Recorded(c, p) ELSE c

IncomingClientHandshake(c, p) ==
  IF Before(c.state, "server_almost_ready")
  THEN LET read == TlsProcessServer(DropEpoch(DecodeFrames(c, p), "initial"))
       IN  IF Before(read.state, "ready") /\ CF \in read.got
           THEN ReadyTransition(read, "server") ELSE read
  ELSE IF ~Before("ready", c.state) THEN Recorded(c, p) ELSE c

Incoming1rtt(c, e, p) ==
  IF Before(c.state, "client_almost_ready") THEN c
  ELSE IF Before(c.state, "disconnecting") THEN DecodeFrames(c, p)
  ELSE IF c.state \notin {"closing", "disconnecting"} THEN c
  ELSE IF CLOSE \in p.msgs
  THEN [c EXCEPT !.state = IF e = "client" THEN "disconnected" ELSE "draining"]
  ELSE [Recorded(c, p) EXCEPT !.ack_needed = @ \cup {"app"}]

Incoming(c, e, p) ==
  CASE p.epoch = "app" -> Incoming1rtt(c, e, p)
    [] p.epoch = "handshake" /\ e = "client" -> IncomingServerHandshake(c, p)
    [] p.epoch = "handshake" /\ e = "server" -> IncomingClientHandshake(c, p)
    [] p.epoch = "initial" /\ e = "client" -> IncomingServerInitial(c, p)
    [] p.epoch = "initial" /\ e = "server" -> IncomingClientInitial(c, p)

(* Without the key a packet waits for it, if it may come.                  *)
NotDecrypted(c, e, p) ==
  IF /\ Before(c.state, "ready") /\ p.cid
     /\ p.epoch = "app" \/ (p.epoch = "handshake" /\ e = "client")
  THEN [c EXCEPT !.sooner = @ \cup {p}]
  ELSE c

(* First packet of a connection: it is created, unless the server is busy  *)
(* or wants a token; a context that TLS did not start is deleted again.    *)
Refused(p) == scenario.policy = "busy" \/ (scenario.policy = "retry" /\ ~p.token)

Refusal ==
  IF scenario.policy = "busy" THEN Packet("server", "initial", {CLOSE}, {})
  ELSE Packet("server", "retry", {}, {})

DeliverNewInitial(p) ==
  /\ p \in net /\ p.to = "server" /\ p.epoch = "initial"
  /\ cnx["server"].state = "none" \/ Refused(p)
  /\ IF Refused(p)
     THEN net' = (net \ {p}) \cup {Refusal} /\ UNCHANGED <<cnx, validated, credit>>
     ELSE /\ net' = net \ {p}
          /\ IF CH \in p.msgs
             THEN /\ cnx' = [cnx EXCEPT !["server"] =
                               IncomingClientInitial(NewCnx("server_init", {}), p)]
                  /\ validated' = p.token /\ credit' = IF p.token THEN 0 ELSE 3
             ELSE UNCHANGED <<cnx, validated, credit>>
  /\ UNCHANGED <<retried, scenario, keyless, faults, closes>>

CappedCredit(n) == IF n > MaxCredit THEN MaxCredit ELSE n

DeliverToServer(p) ==
  /\ p \in net /\ p.to = "server" /\ cnx["server"].state # "none" /\ ~(p.epoch = "initial" /\ Refused(p))
  /\ net' = net \ {p}
  /\ LET c == cnx["server"]  readable == ReceiveKey(p.epoch) \in c.keys
     IN  /\ cnx' = [cnx EXCEPT !["server"] =
                      IF readable THEN Incoming(c, "server", p) ELSE NotDecrypted(c, "server", p)]
         /\ validated' = (validated \/ (readable /\ p.epoch \in {"initial", "handshake"} /\ p.cid))
         /\ credit' = IF validated' THEN 0
                      ELSE IF readable /\ p.epoch = "initial" THEN CappedCredit(credit + 3)
                      ELSE credit
  /\ UNCHANGED <<retried, scenario, keyless, faults, closes>>

DeliverToClient(p) ==
  /\ p \in net /\ p.to = "client" /\ p.epoch # "retry"
  /\ net' = net \ {p}
  /\ LET c == cnx["client"]
     IN  cnx' = [cnx EXCEPT !["client"] =
                   IF ReceiveKey(p.epoch) \in c.keys THEN Incoming(c, "client", p)
                   ELSE NotDecrypted(c, "client", p)]
  /\ UNCHANGED <<validated, credit, retried, scenario, keyless, faults, closes>>

(* A Retry resets the contexts and starts TLS again, once.                 *)
DeliverRetry(p) ==
  /\ p \in net /\ p.epoch = "retry"
  /\ net' = net \ {p}
  /\ LET accepted == cnx["client"].state = "client_init_sent" /\ ~retried
     IN  /\ cnx' = IF accepted
                   THEN [cnx EXCEPT !["client"] = NewCnx("client_init_sent", {CH})]
                   ELSE cnx
         /\ retried' = (retried \/ accepted)
  /\ UNCHANGED <<validated, credit, scenario, keyless, faults, closes>>

Deliver(p) == DeliverNewInitial(p) \/ DeliverToServer(p) \/ DeliverToClient(p) \/ DeliverRetry(p)

ProcessSooner(e) ==
  LET c == cnx[e]
  IN  /\ \E p \in c.sooner :
           /\ ReceiveKey(p.epoch) \in c.keys
           /\ cnx' = [cnx EXCEPT ![e] = Incoming([c EXCEPT !.sooner = @ \ {p}], e, p)]
      /\ UNCHANGED <<validated, credit, retried, scenario, net, keyless, faults, closes>>

Lose(p) ==
  /\ faults < scenario.faults
  /\ net' = net \ {p} /\ faults' = faults + 1
  /\ UNCHANGED <<cnx, validated, credit, retried, scenario, keyless, closes>>

-----------------------------------------------------------------------------
(* Outgoing packets.  A packet carries the ACK of its epoch if it has room *)
(* and the epoch has one.                                                  *)

Emit(e, epoch, msgs) ==
  /\ Cardinality(net) < MaxInFlight
  /\ net' = net \cup {Packet(e, epoch, msgs, Of(cnx[e].seen, epoch))}

(* c after sending msgs: queued for retransmission, the ACK is no longer   *)
(* needed.                                                                 *)
Sent(c, epoch, msgs) ==
  [c EXCEPT !.tosend = @ \ msgs, !.unacked = @ \cup (msgs \ {CLOSE}), !.due = @ \ msgs,
            !.ack_needed = @ \ {epoch}]

ClientEpoch(c) ==
  IF CH \notin c.tosend /\ "handshake" \in c.keys THEN "handshake" ELSE "initial"

ForceAllowed_Never(c, epoch) == FALSE

(* The client must send something when the server may be waiting for the   *)
(* right to send.                                                          *)
ForceAllowed(c, epoch) ==
  IF epoch = "handshake"
  THEN "initial" \in c.ack_needed \/ Of(c.unacked, epoch) # {}
  ELSE CH \notin c.unacked \cup c.tosend

(* What is due when a retransmission timer expires: all that was sent and  *)
(* not acked, PINGs and ACKs apart, and the client must send something.    *)
Expired(c, e) ==
  (c.unacked \ (Pings \cup NotEliciting))
  \cup (IF e = "client" /\ ForceAllowed(c, ClientEpoch(c)) THEN {Ping(ClientEpoch(c))} ELSE {})

ClientMsgs(c, epoch) ==
  (IF c.state = "client_almost_ready" THEN {} ELSE {{m} : m \in Of(c.due, epoch)})
  \cup (IF Of(c.tosend, epoch) # {} THEN {Of(c.tosend, epoch)}
        ELSE IF epoch \in c.ack_needed THEN {{ACKONLY}} ELSE {})

ClientSent(c, epoch, msgs) ==
  LET sent == Sent([c EXCEPT !.state =
                      CASE @ = "client_init" -> "client_init_sent"
                        [] @ = "client_almost_ready" -> "client_ready_start"
                        [] OTHER -> @], epoch, msgs)
  IN  IF epoch = "initial" THEN sent
      ELSE [(IF CF \in msgs THEN DropEpoch(sent, "initial") ELSE sent) EXCEPT
              !.ack_needed = @ \ {"initial"}]

PrepareClientInit ==
  LET c == cnx["client"]  epoch == ClientEpoch(c)
  IN  /\ c.state \in {"client_init", "client_init_sent", "client_handshake_start", "client_almost_ready"}
      /\ \E msgs \in ClientMsgs(c, epoch) :
           /\ Emit("client", epoch, msgs)
           /\ cnx' = [cnx EXCEPT !["client"] = ClientSent(c, epoch, msgs)]
      /\ UNCHANGED <<validated, credit, retried, scenario, keyless, faults, closes>>

(* A server that has not validated the client may send three times what it *)
(* received.                                                               *)
MaySend(e) == e = "client" \/ validated \/ credit >= 1

Charge(e) == credit' = IF e = "server" /\ ~validated THEN credit - 1 ELSE credit

(* picoquic_prepare_packet_old_context: repeat something or send an ACK;   *)
(* the keys of the epoch are not looked at.                                *)
OldContextMsgs(c, epoch) ==
  {{m} : m \in Of(c.due, epoch) \ Pings} \cup (IF epoch \in c.ack_needed THEN {{}} ELSE {})

PrepareOldContext(e, epoch) ==
  LET c == cnx[e]
  IN  /\ \E msgs \in OldContextMsgs(c, epoch) :
           /\ cnx' = [cnx EXCEPT ![e] = Sent(c, epoch, msgs)]
           /\ IF SendKey(epoch) \in c.keys
              THEN Emit(e, epoch, msgs) /\ UNCHANGED keyless
              ELSE keyless' = TRUE /\ UNCHANGED net
      /\ Charge(e)
      /\ UNCHANGED <<validated, retried, scenario, faults, closes>>

(* New TLS data: the server hello, then its flight packet by packet.       *)
NextPart(c) ==
  IF SH \in c.tosend THEN SH
  ELSE CHOOSE m \in c.tosend : \A n \in c.tosend : m.part <= n.part

ServerSent_KeyFreed(c, epoch, msgs) ==
  DropEpoch([Sent(c, epoch, msgs) EXCEPT
     !.state = IF SH \in msgs THEN "server_handshake"
               ELSE IF c.tosend = msgs THEN "server_false_start" ELSE @], "initial")

ServerSent(c, epoch, msgs) ==
  [Sent(c, epoch, msgs) EXCEPT
     !.state = IF SH \in msgs \/ (c.tosend = msgs /\ scenario.auth) THEN "server_handshake"
               ELSE IF c.tosend = msgs THEN "server_false_start" ELSE @]

PrepareServerInit ==
  LET c == cnx["server"]
      epoch == IF SH \in c.tosend THEN "initial" ELSE "handshake"
  IN  /\ c.state \in {"server_init", "server_handshake", "server_almost_ready"}
      /\ MaySend("server")
      /\ \/ epoch = "handshake" /\ PrepareOldContext("server", "initial")
         \/ /\ c.tosend # {}
            /\ epoch = "handshake" => "initial" \notin c.ack_needed
            /\ Emit("server", epoch, {NextPart(c)})
            /\ cnx' = [cnx EXCEPT !["server"] = ServerSent(c, epoch, {NextPart(c)})]
            /\ Charge("server")
            /\ UNCHANGED <<validated, retried, scenario, keyless, faults, closes>>
         \/ /\ c.tosend = {} /\ "initial" \notin c.ack_needed
            /\ PrepareOldContext("server", "handshake")

PrepareAlmostReady(e) ==
  /\ cnx[e].state \in {"server_false_start", "client_ready_start"}
  /\ MaySend(e)
  /\ \/ "initial" \in cnx[e].keys /\ PrepareOldContext(e, "initial")
     \/ PrepareOldContext(e, "handshake")
     \/ PrepareOldContext(e, "app")

PrepareReady(e) ==
  LET c == cnx[e]
  IN  /\ c.state = "ready"
      /\ \E msgs \in {{m} : m \in c.tosend \cup c.due}
                     \cup (IF "app" \in c.ack_needed THEN {{}} ELSE {}) :
           /\ Emit(e, "app", msgs)
           /\ cnx' = [cnx EXCEPT ![e] = Sent(c, "app", msgs)]
      /\ UNCHANGED <<validated, credit, retried, scenario, keyless, faults, closes>>

-----------------------------------------------------------------------------
(* Closing.                                                                *)

CloseResult_NoFalseStart(s) ==
  CASE s \in {"ready", "client_ready_start"} -> "disconnecting"
    [] Before(s, "client_ready_start") -> "handshake_failure"
    [] OTHER -> s

(* picoquic_close by the application.                                      *)
CloseResult(s) ==
  IF s \in {"ready", "server_false_start", "client_ready_start"} THEN "disconnecting"
  ELSE IF Before(s, "client_ready_start") THEN "handshake_failure" ELSE s

Close(e) ==
  /\ closes < scenario.closes /\ cnx[e].state \notin {"none"} \cup Closed
  /\ cnx' = [cnx EXCEPT ![e].state = CloseResult(@)]
  /\ closes' = closes + 1
  /\ UNCHANGED <<validated, credit, retried, scenario, net, keyless, faults>>

ClosingEpoch(c) ==
  IF c.state \notin {"handshake_failure", "handshake_failure_resend"} THEN "app"
  ELSE IF c.state = "handshake_failure" /\ ("handshake" \notin c.keys \/ Of(c.seen, "handshake") = {})
  THEN "initial" ELSE "handshake"

ClosingSends(c) ==
  \/ c.state \in {"handshake_failure", "handshake_failure_resend", "disconnecting", "closing_received"}
  \/ c.state = "closing" /\ "app" \in c.ack_needed

AfterClose(c) ==
  CASE c.state \in {"handshake_failure", "handshake_failure_resend"} ->
         IF c.state = "handshake_failure" /\ ClosingEpoch(c) = "initial" /\ "handshake" \in c.keys
         THEN "handshake_failure_resend" ELSE "disconnected"
    [] c.state = "closing_received" -> "draining"
    [] OTHER -> "closing"

PrepareClosing(e) ==
  LET c == cnx[e]  epoch == ClosingEpoch(c)
  IN  /\ ClosingSends(c)
      /\ cnx' = [cnx EXCEPT ![e].state = AfterClose(c), ![e].ack_needed = @ \ {epoch}]
      /\ IF SendKey(epoch) \in c.keys
         THEN Emit(e, epoch, {CLOSE}) /\ UNCHANGED keyless
         ELSE keyless' = TRUE /\ UNCHANGED net
      /\ UNCHANGED <<validated, credit, retried, scenario, faults, closes>>

(* Three retransmission timers after the last progress.                    *)
LeaveClosing(e) ==
  /\ cnx[e].state \in {"closing", "draining"}
  /\ cnx' = [cnx EXCEPT ![e].state = "disconnected"]
  /\ UNCHANGED <<validated, credit, retried, scenario, net, keyless, faults, closes>>

(* picoquic_check_idle_timer: the longest timers, so they expire only when *)
(* the peer is gone and nothing of it is on the way.                       *)
Gone(e) == cnx[e].state \in {"draining", "disconnected"}

IdleTimeout(e) ==
  /\ cnx[e].state # "none" /\ ~Gone(e) /\ Gone(Peer(e))
  /\ \A p \in net : p.to = e => p.epoch = "retry"
  /\ cnx' = [cnx EXCEPT ![e].state = "disconnected"]
  /\ UNCHANGED <<validated, credit, retried, scenario, net, keyless, faults, closes>>

-----------------------------------------------------------------------------
Prepare(e) ==
  \/ e = "client" /\ PrepareClientInit
  \/ e = "server" /\ PrepareServerInit
  \/ PrepareAlmostReady(e) \/ PrepareReady(e) \/ PrepareClosing(e)

(* A retransmission timer is longer than a round trip, so it expires when  *)
(* nothing is on the way or about to be sent; or else too early.           *)
Quiet == net = {} /\ ~ENABLED \E e \in Ends : Prepare(e)

Timeout(e) ==
  LET c == cnx[e]
  IN  /\ c.state \notin {"none"} \cup Closed
      /\ ~(Expired(c, e) \subseteq c.due)
      /\ Quiet \/ faults < scenario.faults
      /\ faults' = IF Quiet THEN faults ELSE faults + 1
      /\ cnx' = [cnx EXCEPT ![e].due = Expired(c, e)]
      /\ UNCHANGED <<validated, credit, retried, scenario, net, keyless, closes>>

Next ==
  \/ \E p \in net : Deliver(p) \/ Lose(p)
  \/ \E e \in Ends : ProcessSooner(e) \/ Timeout(e) \/ Prepare(e) \/ Close(e) \/ LeaveClosing(e) \/ IdleTimeout(e)

Spec == Init /\ [][Next]_vars

(* Fairness: what stays in the network arrives, an end that has something  *)
(* to send sends, timers expire (strong: the timer of one end does not     *)
(* start again when the other end sends).                                  *)
Fairness ==
  /\ WF_vars(\E p \in net : Deliver(p))
  /\ \A e \in Ends :
       /\ WF_vars(Prepare(e)) /\ WF_vars(ProcessSooner(e)) /\ SF_vars(Timeout(e))
       /\ WF_vars(LeaveClosing(e)) /\ WF_vars(IdleTimeout(e))

FairSpec == Spec /\ Fairness

-----------------------------------------------------------------------------
(* Being ready is a joint decision: a server is ready only when the client *)
(* completed TLS, and a client only when the server did (through the       *)
(* HANDSHAKE_DONE of the server), whatever was lost or repeated.           *)
ReadyMeansComplete ==
  /\ cnx["server"].state = "ready" => ServerFlight \subseteq cnx["client"].got
  /\ cnx["client"].state = "ready" => CF \in cnx["server"].got /\ "app_receive" \in cnx["server"].keys

(* A message of TLS that one end produced and an open peer still misses is *)
(* queued at its sender, which holds the key to send it, so that freeing   *)
(* keys and implicit ACKs never lose it.                                   *)
Produced(e) ==
  IF e = "client"
  THEN {CH} \cup (IF "app_send" \in cnx[e].keys THEN {CF} ELSE {})
  ELSE IF "app_send" \in cnx[e].keys THEN {SH} \cup ServerFlight ELSE {}

NothingAbandoned ==
  \A e \in Ends : \A m \in Produced(e) :
    \/ m \in cnx[Peer(e)].got
    \/ cnx[e].state \in Closed \/ cnx[Peer(e)].state \in Closed
    \/ m \in cnx[e].tosend \cup cnx[e].unacked /\ EpochOf(m) \in cnx[e].keys

(* Both ends agree on how far the handshake has come (picoquic_ready_state *)
(* _transition, picoquic_implicit_handshake_ack): neither is ahead of what *)
(* the other has, and nothing the other still needs is forgotten.          *)
HandshakeAgreed == ReadyMeansComplete /\ NothingAbandoned

(* A connection that closes never opens again.                             *)
ClosedStaysClosed ==
  [][\A e \in Ends : cnx[e].state \in Closed => cnx'[e].state \in Closed]_vars

(* Without faults for ever, both ends become ready, or the client learns   *)
(* that the server is busy, although the server may not send more than     *)
(* three times what it received and the client cannot know.                *)
HandshakeCompletes ==
  <>(\/ closes > 0 \/ keyless
     \/ scenario.policy = "busy" /\ cnx["client"].state = "disconnected"
     \/ \A e \in Ends : cnx[e].state = "ready")

(* After a close by either end at any moment both ends end.                *)
CloseCompletes ==
  closes > 0 ~> (keyless \/ \A e \in Ends : cnx[e].state \in {"none", "disconnected"})

(* A connection comes to its end: ready, or closed on both sides.          *)
ConnectionCompletes == HandshakeCompletes /\ CloseCompletes
=============================================================================
