---------------------------- MODULE TicketStore ----------------------------
(* Session tickets: the client's store and its file (ticket_store.c), the   *)
(* server's table of the tickets it issued (quicctx.c), and what a new      *)
(* connection takes from them: the peer's limits and the round trip and     *)
(* window to start with, with or without the BDP frame.  The client program *)
(* exits and saves, or crashes, and starts again.                           *)
(*                                                                          *)
(* A ticket is named by the connection that issued it; a measure by the     *)
(* connection that made it and the address of the peer it was made with,    *)
(* which is what it is good for.  Connections are to one server name.       *)
EXTENDS Integers, Sequences, SequencesExt, FiniteSets

CONSTANTS
  Versions,     (* versions the ends speak; a server upgrades to a higher one*)
  Ways,         (* addresses of the client and of the server                 *)
  Lives,        (* lifetimes of tickets                                      *)
  Bdp,          (* both ends enable the BDP frame                            *)
  MaxCnx,       (* bound: connections                                        *)
  MaxTime       (* bound: clock                                              *)

VARIABLES
  now,
  up,           (* the client program runs                                   *)
  tickets,      (* quic->p_first_ticket                                      *)
  disk,         (* the file                                                  *)
  cnx,          (* the connections at the client                             *)
  srv,          (* the connections at the server                             *)
  issued        (* table_issued_tickets: the measure for each ticket         *)

vars == <<now, up, tickets, disk, cnx, srv, issued>>

Ids == 1..MaxCnx
Nothing == [by |-> 0, addr |-> 0]
Measured(c, addr) == [by |-> c, addr |-> addr]

-----------------------------------------------------------------------------
(* The store *)

NoTicket == [id |-> 0, v |-> 0, until |-> 0, limits |-> 0, addr |-> 0, local |-> Nothing,
             client |-> 0, remote |-> Nothing]

(* picoquic_store_ticket: in front; tickets for the same version that do    *)
(* not last longer are dropped.                                             *)
Stored(t) == <<t>> \o SelectSeq(tickets, LAMBDA o : ~(o.until <= t.until /\ o.v = t.v))

(* picoquic_get_stored_ticket: the first that is valid, or, for a ticket    *)
(* identifier, the one that has it; 0 if there is none.  No caller marks    *)
(* a ticket used.                                                           *)
Found(v, id) ==
  LET valid == {i \in DOMAIN tickets : /\ tickets[i].until > now /\ tickets[i].v = v
                                       /\ id = 0 \/ tickets[i].id = id}
  IN IF valid = {} THEN 0 ELSE CHOOSE i \in valid : \A j \in valid : i <= j
TicketFor(v) == IF Found(v, 0) = 0 THEN NoTicket ELSE tickets[Found(v, 0)]

(* picoquic_update_stored_ticket, by the ticket that the connection was     *)
(* issued, or any if that has not arrived.                                  *)
Updated(c) ==
  LET i == Found(cnx[c].v, cnx[c].issued)
  IN IF i = 0 THEN tickets
     ELSE [tickets EXCEPT ![i].addr = cnx[c].server,
                          ![i].local = Measured(c, cnx[c].server),
                          ![i].client = cnx[c].remote.addr,
                          ![i].remote = cnx[c].remote]

(* A mutant: of a loaded list the last comes first.                         *)
Loaded_LastFirst ==
  LET all == SelectSeq(disk, LAMBDA t : t.until >= now)
  IN [i \in DOMAIN all |-> all[Len(all) + 1 - i]]

(* picoquic_save_tickets, picoquic_load_tickets.  A ticket without the      *)
(* client's address loses that of the server (picoquic_format_ticket).      *)
Saved == SelectSeq(tickets, LAMBDA t : t.until > now)
Loaded ==
  LET all == SelectSeq(disk, LAMBDA t : t.until >= now)
  IN [i \in DOMAIN all |-> IF all[i].client = 0 THEN [all[i] EXCEPT !.addr = 0] ELSE all[i]]

-----------------------------------------------------------------------------
(* Connections *)

NoCnx == [state |-> "none", v |-> 0, addr |-> 0, server |-> 0, took |-> 0, limits |-> 0,
          seed |-> Nothing, match |-> 0, issued |-> 0, bdp |-> NoTicket, seeded |-> FALSE,
          remote |-> Nothing, used |-> Nothing, acked |-> FALSE]
NoSrv == [v |-> 0, resumed |-> 0, early |-> 0, seed |-> Nothing, match |-> 0, seeded |-> FALSE,
          told |-> FALSE, used |-> Nothing, acked |-> FALSE]

Init ==
  /\ now = 0 /\ up = TRUE /\ tickets = <<>> /\ disk = <<>>
  /\ cnx = [c \in Ids |-> NoCnx] /\ srv = [c \in Ids |-> NoSrv]
  /\ issued = [c \in Ids |-> Nothing]

(* picoquic_initialize_tls_stream, client: a ticket brings the limits for   *)
(* 0-RTT and the seed, and the address it is for.                           *)
Connect(c, v, addr, server) ==
  /\ up /\ cnx[c].state = "none"
  /\ \A b \in Ids : b < c => cnx[b].state # "none"
  /\ LET t == TicketFor(v)
     IN cnx' = [cnx EXCEPT ![c] =
                  [NoCnx EXCEPT !.state = "started", !.v = v, !.addr = addr, !.server = server,
                                !.took = t.id, !.limits = t.limits,
                                !.seed = t.local, !.match = t.addr]]
  /\ UNCHANGED <<now, up, tickets, disk, srv, issued>>

(* The client's BDP frame goes into its first 0-RTT packet.                 *)
SendBdp(c) ==
  /\ Bdp /\ cnx[c].state = "started" /\ cnx[c].took # 0 /\ cnx[c].bdp.id = 0
  /\ TicketFor(cnx[c].v).remote.by # 0
  /\ cnx' = [cnx EXCEPT ![c].bdp = TicketFor(cnx[c].v)]
  /\ UNCHANGED <<now, up, tickets, disk, srv, issued>>

(* picoquic_server_encrypt_ticket_call_back for the client's ticket, which  *)
(* must have the version of this connection, and the BDP frame, which must  *)
(* have the client's address.  Then the handshake ends; a ticket is issued. *)
Accept(c, v) ==
  LET resumed == cnx[c].took # 0 /\ cnx[c].v = v
      frame == cnx[c].bdp
      told == resumed /\ frame.id # 0 /\ frame.client = cnx[c].addr
      own == issued[cnx[c].took]
  IN /\ cnx[c].state = "started" /\ v >= cnx[c].v
     /\ srv' = [srv EXCEPT ![c] =
                  [NoSrv EXCEPT
                     !.v = v, !.resumed = IF resumed THEN cnx[c].took ELSE 0,
                     !.early = IF resumed THEN cnx[c].limits ELSE 0,
                     !.seed = IF told THEN frame.remote ELSE IF resumed THEN own ELSE Nothing,
                     !.match = IF told THEN frame.client ELSE IF resumed THEN own.addr ELSE 0]]
     /\ cnx' = [cnx EXCEPT ![c].state = "ready", ![c].v = v, ![c].limits = c]
     /\ UNCHANGED <<now, up, tickets, disk, issued>>

(* picoquic_client_save_ticket_call_back.                                   *)
ReceiveTicket(c, life) ==
  /\ cnx[c].state = "ready" /\ cnx[c].issued = 0
  /\ tickets' = Stored([NoTicket EXCEPT !.id = c, !.v = cnx[c].v, !.until = now + life,
                                        !.limits = cnx[c].limits])
  /\ cnx' = [cnx EXCEPT ![c].issued = c]
  /\ UNCHANGED <<now, up, disk, srv, issued>>

(* The first round trip (picoquic_update_path_rtt): the seed is taken if    *)
(* the round trip is near the remembered one and the address the same.      *)
FirstAck(c, near) ==
  \/ /\ cnx[c].state = "ready" /\ ~cnx[c].acked
     /\ cnx' = [cnx EXCEPT ![c].acked = TRUE,
                  ![c].used = IF near /\ cnx[c].match = cnx[c].server THEN cnx[c].seed ELSE @]
     /\ UNCHANGED <<now, up, tickets, disk, srv, issued>>
  \/ /\ cnx[c].state = "ready" /\ ~srv[c].acked
     /\ srv' = [srv EXCEPT ![c].acked = TRUE,
                  ![c].used = IF near /\ srv[c].match = cnx[c].addr THEN srv[c].seed ELSE @]
     /\ UNCHANGED <<now, up, tickets, disk, cnx, issued>>

(* Slow start has ended (picoquic_seed_ticket), at either end.              *)
ClientMeasures(c) ==
  /\ cnx[c].state = "ready" /\ cnx[c].acked /\ ~cnx[c].seeded
  /\ tickets' = Updated(c)
  /\ cnx' = [cnx EXCEPT ![c].seeded = TRUE]
  /\ UNCHANGED <<now, up, disk, srv, issued>>
ServerMeasures(c) ==
  /\ cnx[c].state = "ready" /\ srv[c].acked /\ ~srv[c].seeded
  /\ issued' = [issued EXCEPT ![c] = Measured(c, cnx[c].addr)]
  /\ srv' = [srv EXCEPT ![c].seeded = TRUE]
  /\ UNCHANGED <<now, up, tickets, disk, cnx>>

(* The server's BDP frame reaches the client, which updates its ticket      *)
(* again when it is there.                                                  *)
ReceiveBdp(c) ==
  /\ Bdp /\ srv[c].seeded /\ ~srv[c].told /\ cnx[c].state = "ready"
  /\ srv' = [srv EXCEPT ![c].told = TRUE]
  /\ cnx' = [cnx EXCEPT ![c].remote = issued[c]]
  /\ tickets' = LET i == Found(cnx[c].v, cnx[c].issued)
                IN IF i = 0 THEN tickets
                   ELSE [tickets EXCEPT ![i].addr = cnx[c].server,
                                        ![i].local = Measured(c, cnx[c].server),
                                        ![i].client = issued[c].addr,
                                        ![i].remote = issued[c]]
  /\ UNCHANGED <<now, up, disk, issued>>

(* The program saves its store when it ends, or it crashes.                 *)
Gone(x) ==
  IF x.state = "none" THEN NoCnx
  ELSE [NoCnx EXCEPT !.state = "closed", !.addr = x.addr, !.server = x.server, !.used = x.used]
Left(y) == [NoSrv EXCEPT !.v = y.v, !.resumed = y.resumed, !.early = y.early, !.used = y.used]
Stop(saves) ==
  /\ up /\ up' = FALSE /\ tickets' = <<>>
  /\ cnx' = [c \in Ids |-> Gone(cnx[c])] /\ srv' = [c \in Ids |-> Left(srv[c])]
  /\ disk' = IF saves THEN Saved ELSE disk
  /\ UNCHANGED <<now, issued>>
Start ==
  /\ ~up /\ up' = TRUE /\ tickets' = Loaded
  /\ UNCHANGED <<now, disk, cnx, srv, issued>>

Tick == now < MaxTime /\ now' = now + 1 /\ UNCHANGED <<up, tickets, disk, cnx, srv, issued>>

Next ==
  \/ \E c \in Ids, v \in Versions, w \in Ways : Connect(c, v, w[1], w[2])
  \/ \E c \in Ids : SendBdp(c) \/ ClientMeasures(c) \/ ServerMeasures(c) \/ ReceiveBdp(c)
  \/ \E c \in Ids, v \in Versions : Accept(c, v)
  \/ \E c \in Ids, life \in Lives : ReceiveTicket(c, life)
  \/ \E c \in Ids, near \in BOOLEAN : FirstAck(c, near)
  \/ \E saves \in BOOLEAN : Stop(saves)
  \/ Start \/ Tick

Spec == Init /\ [][Next]_vars

-----------------------------------------------------------------------------
(* Properties *)

(* Of the tickets that a connection could take the newest comes first, and  *)
(* what is behind it lasts longer: the list cannot grow beyond the distinct *)
(* lifetimes, through files and updates.                                    *)
NewestFirst ==
  \A i, j \in DOMAIN tickets :
    i < j /\ tickets[i].v = tickets[j].v
    => tickets[i].until < tickets[j].until

(* A window taken from memory was measured by an earlier connection, with   *)
(* the peer at the address it has now: at the client with the server's, at  *)
(* the server with the client's, whichever way it came (its own table, or   *)
(* the client's ticket and a BDP frame).                                    *)
SeedsFit ==
  \A c \in Ids :
    /\ cnx[c].used.by # 0 => cnx[c].used.by < c /\ cnx[c].used.addr = cnx[c].server
    /\ srv[c].used.by # 0 => srv[c].used.by < c /\ srv[c].used.addr = cnx[c].addr

(* A resumed connection sent its early data within the limits of the        *)
(* connection that issued its ticket, in the same version.                  *)
ResumesOwn ==
  \A c \in Ids : srv[c].resumed # 0 => /\ srv[c].early = srv[c].resumed
                                       /\ srv[srv[c].resumed].v = srv[c].v

TicketsSound == NewestFirst /\ SeedsFit /\ ResumesOwn
=============================================================================
