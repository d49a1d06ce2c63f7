--------------------------- MODULE TransportParams ---------------------------
(* The exchange of transport parameters (transport.c) as the TLS callbacks  *)
(* run it: the client prepares its extension, the server reads it and       *)
(* prepares its own in one callback, the client reads that.  The client may *)
(* have followed a Retry, remember parameters of an earlier session, and    *)
(* ask for another version.  The peer of an end may be another program: one *)
(* of its parameters is missing, repeated, unknown or does not decode.      *)
(*                                                                          *)
(* Times are milliseconds, ack_delay microseconds; a preferred address is   *)
(* its two ports.                                                           *)
EXTENDS Integers, Sequences, SequencesExt, FiniteSets

CONSTANTS
  Upgrades,     (* <<current, desired>> versions a client may start with     *)
  V4Only        (* a server's preferred address has one port for IPv4 and IPv6 *)

VARIABLES
  ends,         (* the client and the server                                *)
  wire,         (* the extension on its way, a sequence of parameters       *)
  step,         (* "start", "hello", "reply", "done"                        *)
  altered       (* whose extension comes from another program: "none", ...  *)

vars == <<ends, wire, step, altered>>

None == 0
NoAddress == <<0, 0>>
DefaultAckDelay == 25000        (* PICOQUIC_ACK_DELAY_MAX_DEFAULT            *)
Versions == <<1, 2, 29>>        (* picoquic_supported_versions, three of them *)
PathDefault == 2                (* PICOQUIC_NB_PATH_DEFAULT                  *)
NbPathTarget == 8               (* PICOQUIC_NB_PATH_TARGET                   *)

(* Connection IDs: of the client, the first destination it chose, the       *)
(* source of a Retry, of the server.                                        *)
ClientCid == 1  InitialCid == 2  RetryCid == 3  ServerCid == 4

-----------------------------------------------------------------------------
(* What is announced: picoquic_prepare_transport_extensions.                *)

If(condition, type, value) == IF condition THEN <<[type |-> type, value |-> value, decodes |-> TRUE]>>
                              ELSE <<>>

(* picoquic_prepare_transport_param_stream_id                               *)
Rank(id) == 1 + id \div 4

(* A server answers a client that takes datagrams by taking them too.       *)
DatagramSize(e) ==
  IF ~e.client /\ e.local.datagram = 0 /\ e.remote.datagram > 0 THEN 1536 ELSE e.local.datagram

(* The versions a client prefers or a server knows, after the chosen one.   *)
VersionInformation(e) ==
  [chosen |-> e.version,
   others |-> IF ~e.client THEN Versions
              ELSE (IF e.desired \notin {None, e.version} THEN <<e.desired>> ELSE <<>>) \o <<e.version>>]

Announced(e) ==
  LET l == e.local IN
  If(TRUE, "bidi_local", l.bidi_local) \o If(TRUE, "data", l.data)
  \o If(l.max_bidir > 0, "max_bidir", Rank(l.max_bidir)) \o If(l.idle > 0, "idle", l.idle)
  \o If(TRUE, "size", l.size) \o If(l.exponent # 3, "exponent", l.exponent)
  \o If(l.max_unidir > 0, "max_unidir", Rank(l.max_unidir))
  \o If(l.preferred # NoAddress, "preferred", <<l.preferred[1], l.preferred[1]>>)
  \o If(l.no_migration = 1, "no_migration", 1)
  \o If(l.bidi_remote > 0, "bidi_remote", l.bidi_remote) \o If(l.uni > 0, "uni", l.uni)
  \o If(l.cid_limit > 0, "cid_limit", l.cid_limit)
  \o If(l.ack_delay # DefaultAckDelay, "ack_delay", (l.ack_delay + 999) \div 1000)
  \o If(TRUE, "hcid", e.local_cid)
  \o (IF e.client THEN <<>>
      ELSE If(e.original_cid # None, "ocid", e.original_cid)
           \o If(e.original_cid # None, "rcid", e.initial_cid)
           \o If(e.original_cid = None /\ e.hcid_verified, "ocid", e.initial_cid)
           \o If(TRUE, "reset_token", 1))
  \o If(DatagramSize(e) > 0, "datagram", DatagramSize(e))
  \o If(l.loss > 0, "loss", IF l.loss > 1 THEN 1 ELSE 0)
  \o If(l.min_ack_delay > 0, "min_ack_delay", l.min_ack_delay)
  \o If(l.time_stamp > 0, "time_stamp", l.time_stamp)
  \o If(l.grease = 1, "grease", 1)
  \o If(l.multipath > 0, "multipath", l.multipath)
  \o If(e.negotiates, "versions", VersionInformation(e))
  \o If(l.bdp > 0, "bdp", l.bdp)

Prepared(e) == [e EXCEPT !.local.datagram = DatagramSize(e)]

-----------------------------------------------------------------------------
(* What is understood: picoquic_receive_transport_extensions.  A parameter  *)
(* that fails leaves the rest unread; picoquic_connection_error also ends   *)
(* the connection, while "refused" only makes the function return -1, which *)
(* picoquic_tls_collected_extensions_cb overrides.                          *)

NoRemote ==
  [bidi_local |-> 0, data |-> 0, max_bidir |-> 0, idle |-> 0, size |-> 0, exponent |-> 3,
   max_unidir |-> 0, preferred |-> NoAddress, no_migration |-> 0, bidi_remote |-> 0, uni |-> 0,
   cid_limit |-> 0, ack_delay |-> 0, datagram |-> 0, loss |-> 0, min_ack_delay |-> 0,
   time_stamp |-> 0, grease |-> 0, multipath |-> 0, bdp |-> 0]

(* Types below 64 must not be repeated.                                     *)
Low == {"bidi_local", "data", "max_bidir", "idle", "size", "exponent", "max_unidir", "preferred",
        "no_migration", "bidi_remote", "uni", "cid_limit", "ack_delay", "hcid", "ocid", "rcid",
        "reset_token", "datagram"}
ServerOnly == {"preferred", "ocid", "rcid", "reset_token"}

(* picoquic_decode_transport_param_stream_id: ids that the receiver opens.  *)
StreamId(rank, e, unidir) == 4 * (rank - 1) + 2 * unidir + (IF e.client THEN 0 ELSE 1)

InRange(type, v) ==
  CASE type = "size" -> v \in 1200..65527
    [] type = "ack_delay" -> v <= 16384
    [] type = "loss" -> v \in {0, 1}
    [] type = "min_ack_delay" -> v > 0
    [] type = "time_stamp" -> v \in 1..3
    [] type = "multipath" -> v <= 3
    [] type = "bdp" -> v <= 1
    [] OTHER -> TRUE

(* picoquic_process_version_upgrade: "refused" unless v1 becomes v2.        *)
WithVersions(e, info) ==
  LET known == {i \in DOMAIN info.others : info.others[i] \in Range(Versions)}
      first == info.others[CHOOSE i \in known : \A j \in known : i <= j]
      e2 == [e EXCEPT !.negotiates = TRUE]
  IN IF info.chosen # e.version THEN [e EXCEPT !.ret = "error"]
     ELSE IF e.client \/ known = {} \/ first = e.version THEN e2
     ELSE IF <<e.version, first>> = <<1, 2>> THEN [e2 EXCEPT !.version = 2]
     ELSE [e2 EXCEPT !.ret = "refused"]

(* A stream that 0-RTT opened: picoquic_update_stream_initial_remote.       *)
WithStream(e) ==
  [e EXCEPT !.early = IF @ # None /\ @ < e.remote.bidi_remote THEN e.remote.bidi_remote ELSE @]

TakeNumber(e, type, v) ==
  CASE type = "max_bidir" ->
         [e EXCEPT !.remote.max_bidir = StreamId(v, e, 0), !.max_bidir = StreamId(v, e, 0)]
    [] type = "max_unidir" ->
         [e EXCEPT !.remote.max_unidir = StreamId(v, e, 1), !.max_unidir = StreamId(v, e, 1)]
    [] type = "ack_delay" -> [e EXCEPT !.remote.ack_delay = 1000 * v]
    [] type = "loss" -> [e EXCEPT !.remote.loss = v + 1]
    [] type = "data" -> [e EXCEPT !.remote.data = v, !.maxdata = v]
    [] type = "min_ack_delay" ->
         [e EXCEPT !.remote.min_ack_delay = v, !.ack_frequency = e.local.min_ack_delay > 0]
    [] OTHER -> WithStream([e EXCEPT !.remote[type] = v])

Take(e, p) ==
  LET v == p.value
      e1 == [e EXCEPT !.present = @ \cup {p.type}]
  IN IF e.ret # "ok" THEN e
     ELSE IF p.type \in Low \cap e.present \/ ~p.decodes THEN [e1 EXCEPT !.ret = "error"]
     ELSE CASE p.type = "unknown" -> e1
            [] p.type = "versions" -> WithVersions(e1, v)
            [] p.type = "hcid" ->
                 IF v # e.remote_cid THEN [e1 EXCEPT !.ret = "error"]
                 ELSE [e1 EXCEPT !.hcid_verified = TRUE]
            [] p.type \in {"ocid", "rcid"} -> [e1 EXCEPT !.cids[p.type] = v]
            [] p.type = "reset_token" -> IF e.client THEN e1 ELSE [e1 EXCEPT !.ret = "error"]
            [] OTHER -> IF InRange(p.type, v) THEN TakeNumber(e1, p.type, v) ELSE [e1 EXCEPT !.ret = "error"]

(* The shorter of two idle timeouts that are set; a keep alive interval is  *)
(* at most half of it.                                                      *)
WithIdle(e) ==
  LET l == e.local.idle   r == e.remote.idle
      idle == IF l = 0 \/ (r > 0 /\ r < l) THEN r ELSE l
  IN [e EXCEPT !.idle = idle,
               !.keep_alive = IF idle > 0 /\ @ > idle \div 2 THEN idle \div 2 ELSE @]

WithDefaults(e) ==
  IF e.ret # "ok" THEN e
  ELSE [e EXCEPT !.remote.ack_delay = IF "ack_delay" \in e.present THEN @ ELSE DefaultAckDelay,
                 !.remote.cid_limit = IF "cid_limit" \in e.present THEN @
                                      ELSE IF e.local_cid = None THEN 0 ELSE PathDefault]

(* The connection IDs that the handshake went through.                      *)
CidsRight(e) ==
  IF e.original_cid # None
  THEN {"ocid", "rcid"} \subseteq e.present
       /\ e.cids = [ocid |-> e.original_cid, rcid |-> e.initial_cid]
  ELSE "rcid" \notin e.present /\ "ocid" \in e.present /\ e.cids.ocid = e.initial_cid

Verified(e) ==
  IF /\ e.ret = "ok"
     /\ \/ ~e.client /\ e.present \cap ServerOnly # {}
        \/ "hcid" \notin e.present
        \/ e.client /\ ~CidsRight(e)
  THEN [e EXCEPT !.ret = "error"] ELSE e

Bit(v, b) == (v \div b) % 2 = 1

(* A mutant: a server that falls back to simple multipath does not say so.  *)
WithMultipath_Untold(e) ==
  LET l == e.local.multipath   r == e.remote.multipath
      simple == Bit(l, 1) /\ Bit(r, 1)
      full == Bit(l, 2) /\ Bit(r, 2)
  IN IF e.ret # "ok" THEN e
     ELSE [e EXCEPT !.multipath =
             IF simple /\ full THEN IF ~e.client /\ e.remote_cid = None THEN "simple" ELSE "full"
             ELSE IF simple THEN "simple" ELSE IF full THEN "full" ELSE "off"]

(* picoquic_negotiate_multipath_option                                      *)
WithMultipath(e) ==
  LET l == e.local.multipath   r == e.remote.multipath
      simple == Bit(l, 1) /\ Bit(r, 1)
      full == Bit(l, 2) /\ Bit(r, 2)
  IN IF e.ret # "ok" THEN e
     ELSE IF simple /\ full
     THEN IF ~e.client /\ e.remote_cid = None
          THEN [e EXCEPT !.multipath = "simple", !.local.multipath = 1]
          ELSE [e EXCEPT !.multipath = "full"]
     ELSE [e EXCEPT !.multipath = IF simple THEN "simple" ELSE IF full THEN "full" ELSE "off"]

(* Options that both ends must support.  A server answers what the client   *)
(* asks for.                                                                *)
WithOptions(e) ==
  LET l == e.local   r == e.remote
      stamps == IF e.client
                THEN [in |-> Bit(l.time_stamp, 1) /\ Bit(r.time_stamp, 2),
                      out |-> Bit(l.time_stamp, 2) /\ Bit(r.time_stamp, 1)]
                ELSE [in |-> Bit(r.time_stamp, 2), out |-> Bit(r.time_stamp, 1)]
      e1 == [e EXCEPT !.loss_out = l.loss > 1 /\ r.loss > 0,
                      !.loss_in = l.loss > 0 /\ r.loss > 1,
                      !.bdp = l.bdp > 0 /\ r.bdp > 0,
                      !.stamps = stamps]
  IN IF e.client THEN [e1 EXCEPT !.grease = l.grease = 1 /\ r.grease = 1]
     ELSE [e1 EXCEPT
             !.grease = r.grease = 1,
             !.local.time_stamp =
                IF r.time_stamp = 0 THEN @
                ELSE (IF stamps.out THEN 2 ELSE 0) + (IF stamps.in THEN 1 ELSE 0),
             !.local.grease = IF r.grease = 1 /\ ~e.one_way THEN 1 ELSE 0,
             !.local.min_ack_delay = IF e1.ack_frequency THEN @ ELSE 0]

Received(e, extension) ==
  LET cleared == [e EXCEPT !.remote = NoRemote, !.maxdata = 0, !.max_bidir = 0, !.max_unidir = 0,
                           !.present = {}, !.ret = "ok", !.cids = [ocid |-> None, rcid |-> None],
                           !.heard = extension]
      read == FoldLeft(Take, cleared, extension)
  IN WithOptions(WithMultipath(Verified(WithDefaults(WithIdle(read)))))

-----------------------------------------------------------------------------
(* Configurations: each parameter with the values that matter, on both ends. *)

Usual(client) ==
  [bidi_local |-> 20, data |-> 10, max_bidir |-> IF client THEN 5 ELSE 4, idle |-> 30,
   size |-> 1440, exponent |-> 3, max_unidir |-> IF client THEN 7 ELSE 6, preferred |-> NoAddress,
   no_migration |-> 0, bidi_remote |-> 6, uni |-> 6, cid_limit |-> NbPathTarget,
   ack_delay |-> 10000, datagram |-> 0, loss |-> 2, min_ack_delay |-> 1, time_stamp |-> 0,
   grease |-> 0, multipath |-> 0, bdp |-> 0]

Values ==
  [idle |-> {0, 20, 30}, exponent |-> {3, 4}, no_migration |-> {0, 1}, cid_limit |-> {2, 8},
   ack_delay |-> {10000, 10500, 25000}, datagram |-> {0, 100}, loss |-> 0..2,
   min_ack_delay |-> {0, 1}, time_stamp |-> 0..3, grease |-> {0, 1}, multipath |-> 0..3,
   bdp |-> {0, 1}, data |-> {10, 12}, bidi_remote |-> {6, 8}, uni |-> {0, 6}]

Ports == {<<0, 0>>, <<4, 4>>} \cup (IF V4Only THEN {} ELSE {<<4, 6>>})

(* What the application and the path to the connection bring.               *)
Usually == [retry |-> FALSE, null_cid |-> FALSE, one_way |-> FALSE, keep_alive |-> 0,
            remembered |-> 0, versions |-> <<1, None>>, ports |-> NoAddress]
Situations ==
  {Usually, [Usually EXCEPT !.retry = TRUE], [Usually EXCEPT !.null_cid = TRUE],
   [Usually EXCEPT !.one_way = TRUE], [Usually EXCEPT !.keep_alive = 14],
   [Usually EXCEPT !.remembered = 6]}
  \cup {[Usually EXCEPT !.versions = u] : u \in Upgrades}
  \cup {[Usually EXCEPT !.ports = p] : p \in Ports}

End(client, local, s) ==
  [client |-> client, local |-> local, remote |-> NoRemote, heard |-> <<>>, ret |-> "ok", present |-> {},
   cids |-> [ocid |-> None, rcid |-> None],
   local_cid |-> IF ~client THEN ServerCid ELSE IF s.null_cid THEN None ELSE ClientCid,
   remote_cid |-> IF client THEN ServerCid ELSE IF s.null_cid THEN None ELSE ClientCid,
   original_cid |-> IF s.retry THEN InitialCid ELSE None,
   initial_cid |-> IF s.retry THEN RetryCid ELSE InitialCid,
   hcid_verified |-> FALSE, version |-> s.versions[1],
   desired |-> IF client THEN s.versions[2] ELSE None,
   negotiates |-> client /\ s.versions[2] # None,
   one_way |-> ~client /\ s.one_way, keep_alive |-> s.keep_alive, idle |-> 0,
   maxdata |-> 0, max_bidir |-> 0, max_unidir |-> 0,
   early |-> IF client THEN s.remembered ELSE None, multipath |-> "off", ack_frequency |-> FALSE,
   loss_out |-> FALSE, loss_in |-> FALSE, bdp |-> FALSE, grease |-> FALSE,
   stamps |-> [in |-> FALSE, out |-> FALSE]]

Init ==
  /\ \E s \in Situations, f \in DOMAIN Values : \E x, y \in Values[f] :
       ends = [client |-> End(TRUE, [Usual(TRUE) EXCEPT ![f] = x], s),
               server |-> End(FALSE, [Usual(FALSE) EXCEPT ![f] = y, !.preferred = s.ports], s)]
  /\ altered \in {"none", "client", "server"}
  /\ altered # "none" =>
       /\ ends.client.local \in {Usual(TRUE), [Usual(TRUE) EXCEPT !.time_stamp = 3]}
       /\ ends.server.local \in {Usual(FALSE), [Usual(FALSE) EXCEPT !.time_stamp = 3]}
  /\ wire = <<>> /\ step = "start"

-----------------------------------------------------------------------------
(* Actions *)

(* picoquic_initialize_tls_stream: the client's extension.                  *)
SendHello ==
  /\ step = "start" /\ step' = "hello"
  /\ ends' = [ends EXCEPT !.client = Prepared(@)]
  /\ wire' = Announced(ends.client)
  /\ UNCHANGED altered

(* Another program sends one parameter less, one more, or one that does not *)
(* decode or is out of range (but the versions once).                       *)
OutOfRange == [size |-> {1199, 65528}, ack_delay |-> {16385}, loss |-> {2}, min_ack_delay |-> {0},
               time_stamp |-> {0, 4}, multipath |-> {4}, bdp |-> {2}]
Others ==
  {RemoveAt(wire, i) : i \in DOMAIN wire}
  \cup {Append(wire, wire[i]) : i \in {j \in DOMAIN wire : wire[j].type # "versions"}}
  \cup {[wire EXCEPT ![i].decodes = FALSE] : i \in DOMAIN wire}
  \cup UNION {{wire \o If(TRUE, t, v) : v \in OutOfRange[t]} :
                t \in DOMAIN OutOfRange \ {wire[i].type : i \in DOMAIN wire}}
  \cup {wire \o If(TRUE, t, RetryCid) : t \in {"unknown", "rcid", "ocid"}}

Alter ==
  /\ \/ step = "hello" /\ altered = "client"
     \/ step = "reply" /\ altered = "server"
  /\ wire' \in Others
  /\ altered' = "done"
  /\ UNCHANGED <<ends, step>>

(* picoquic_tls_collected_extensions_cb on the server: read, then prepare.  *)
ServerReads ==
  /\ step = "hello" /\ altered # "client"
  /\ LET e == Received(ends.server, wire) IN
       /\ ends' = [ends EXCEPT !.server = Prepared(e)]
       /\ wire' = Announced(e)
       /\ step' = IF e.ret = "error" THEN "done" ELSE "reply"
  /\ UNCHANGED altered

(* The first packet of the server has its version (packet.c), then the      *)
(* callback on the client.                                                  *)
UpgradedByPacket(e, v) ==
  IF v # e.version /\ v = e.desired /\ <<e.version, v>> = <<1, 2>> THEN [e EXCEPT !.version = v]
  ELSE e
ClientReads ==
  /\ step = "reply" /\ altered # "server"
  /\ step' = "done"
  /\ ends' = [ends EXCEPT !.client = Received(UpgradedByPacket(@, ends.server.version), wire)]
  /\ UNCHANGED <<wire, altered>>

Next == SendHello \/ Alter \/ ServerReads \/ ClientReads

Spec == Init /\ [][Next]_vars

-----------------------------------------------------------------------------
(* Properties *)

(* What an end has told its peer; ack_delay goes over in milliseconds.      *)
Told(e) == [e.local EXCEPT !.ack_delay = 1000 * ((@ + 999) \div 1000)]

(* What an extension means, whatever the order of its parameters: a missing *)
(* one has its default, and of a repeated one the last counts.              *)
Given(x, type) == {i \in DOMAIN x : x[i].type = type}
Legal(e) ==
  LET x == e.heard
      cid(type) == {x[i].value : i \in Given(x, type)}
  IN /\ \A i \in DOMAIN x : x[i].decodes /\ InRange(x[i].type, x[i].value)
     /\ \A type \in Low : Cardinality(Given(x, type)) <= 1
     /\ cid("hcid") = {e.remote_cid}
     /\ IF ~e.client THEN \A type \in ServerOnly : Given(x, type) = {}
        ELSE IF e.original_cid = None THEN cid("ocid") = {e.initial_cid} /\ cid("rcid") = {}
        ELSE cid("ocid") = {e.original_cid} /\ cid("rcid") = {e.initial_cid}
Default(e, type) ==
  CASE type = "ack_delay" -> DefaultAckDelay
    [] type = "exponent" -> 3
    [] type = "preferred" -> NoAddress
    [] type = "cid_limit" -> IF e.local_cid = None THEN 0 ELSE PathDefault
    [] OTHER -> 0
Meaning(e, type) ==
  LET at == Given(e.heard, type)
      v == e.heard[CHOOSE i \in at : \A j \in at : j <= i].value
  IN IF at = {} THEN Default(e, type)
     ELSE CASE type = "ack_delay" -> 1000 * v
            [] type = "loss" -> v + 1
            [] type = "max_bidir" -> StreamId(v, e, 0)
            [] type = "max_unidir" -> StreamId(v, e, 1)
            [] OTHER -> v

(* An extension is accepted exactly when it is legal, and then each end     *)
(* uses what it says (picoquic_receive_transport_extensions), whoever wrote *)
(* it.                                                                      *)
Understood ==
  \A e \in {ends.client, ends.server} :
    e.heard # <<>> =>
      /\ (e.ret = "ok") <=> Legal(e)
      /\ e.ret = "ok" => \A type \in DOMAIN e.remote : e.remote[type] = Meaning(e, type)

(* Two picoquic ends always come to an agreement: each knows what the other *)
(* told, and both have the same idea of the version, the idle timeout and   *)
(* every option of one that the other has to know of.                       *)
Agreed ==
  LET c == ends.client   s == ends.server IN
  step = "done" /\ altered = "none" =>
    /\ c.ret = "ok" /\ s.ret = "ok"
    /\ c.remote = Told(s) /\ s.remote = Told(c)
    /\ c.version = s.version /\ c.idle = s.idle
    /\ \A e \in {c, s} : e.idle > 0 => 2 * e.keep_alive <= e.idle
    /\ c.multipath = s.multipath /\ c.ack_frequency = s.ack_frequency /\ c.bdp = s.bdp
    /\ c.loss_out = s.loss_in /\ c.loss_in = s.loss_out
    /\ c.stamps.in = s.stamps.out /\ c.stamps.out = s.stamps.in
    /\ c.grease => s.local.grease = 1
    /\ s.grease => c.local.grease = 1
    /\ c.maxdata = s.local.data
    /\ c.early # None => c.early >= s.local.bidi_remote

ParamsAgree == Understood /\ Agreed
=============================================================================
