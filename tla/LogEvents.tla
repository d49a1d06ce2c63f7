------------------------------ MODULE LogEvents ------------------------------
(***************************************************************************)
(* The binary log of a connection and its conversion to qlog.              *)
(*                                                                         *)
(* While a connection lives, its events are appended to a file: a chunk    *)
(* per event, a run of fields without names.  When it ends, or restarts    *)
(* after a Retry, the file is closed and converted: the reader knows the   *)
(* fields of each event a second time, and shows most values only when     *)
(* they differ from those it showed before.  The number of files open at   *)
(* the same time is limited for the whole process.                         *)
(*                                                                         *)
(* A field is its encoding ("v" integer, "8", "16", "32" bits, "cid",      *)
(* "addr", "str" a length with its bytes), its meaning and its value.      *)
(* Left out: names of files, errors of the file system, the text of a      *)
(* message, the inside of frames (FrameFormats), several paths.            *)
(***************************************************************************)
EXTENDS Integers, Sequences, SequencesExt, FiniteSets, TLC

CONSTANTS
    Cnx,         \* connections of the process; the first logs events, all count
    MaxLogs,     \* max_simultaneous_logs
    MaxEvents    \* bound: events in a file between its first and its last chunk

First == CHOOSE c \in Cnx : TRUE

VARIABLES
    open,        \* connections with f_binlog # NULL
    nb,          \* current_number_of_open_logs
    file,        \* events in the file of the first connection
    qlog         \* the last conversion
vars == <<open, nb, file, qlog>>

-----------------------------------------------------------------------------
(* Events *)

VN == "version_negotiation"
Long == { VN, "initial", "retry", "handshake" }
Packet(rx, t, phase, spin, token) ==
    [id |-> "packet", rx |-> rx, ptype |-> t, phase |-> phase, spin |-> spin, token |-> token,
     vn |-> IF t \in {"1rtt", VN} THEN 0 ELSE 1, frames |-> 1 + token]
Packets ==
    { Packet(FALSE, "1rtt", phase, spin, 0) : phase \in 0 .. 1, spin \in 0 .. 1 }
    \cup { Packet(TRUE, "1rtt", phase, 0, 0) : phase \in 0 .. 1 }
    \cup { Packet(TRUE, t, 0, 0, 0) : t \in Long } \cup { Packet(TRUE, "initial", 0, 0, 1) }
Pdus  == { [id |-> "pdu", rx |-> TRUE, peer |-> a, local |-> 1] : a \in 1 .. 2 }
Drops == { [id |-> "dropped", raw |-> r] : r \in 0 .. 1 }
Lost  == { [id |-> "lost", dcid |-> d] : d \in 0 .. 1 }
Alpns == { [id |-> "alpn", sni |-> s, list |-> 2 * s, alpn |-> 1 - s] : s \in 0 .. 1 }
Ccs   == { [id |-> "cc", acked |-> a, cwin |-> w, rtt |-> a, inflight |-> w - 1] : a \in 0 .. 1, w \in 1 .. 2 }
Plain == { [id |-> k] : k \in {"buffered", "param", "key", "info"} }
Written == Packets \cup Pdus \cup Drops \cup Lost \cup Alpns \cup Ccs \cup Plain

-----------------------------------------------------------------------------
(* Writing *)

F(kind, name, x) == <<[k |-> kind, n |-> name, x |-> x]>>
V(name, x) == F("v", name, x)
When(cond, fields) == IF cond THEN fields ELSE <<>>
Times(n, fields) == FlattenSeq([i \in 1 .. n |-> fields])

(* binlog_compose_event_header *)
Header(id) == F("cid", "initial_cnxid", 0) \o V("time", 0) \o V("path_id", 0) \o V("id", id)

WriteStart ==
    F("8", "client_mode", 1) \o F("32", "proposed_version", 1) \o F("cid", "remote_cnxid", 0)
    \o F("str", "congestion_algorithm", 0) \o V("spin_policy", 0)
WritePdu(e) == F("addr", "addr_peer", e.peer) \o V("byte_length", 0) \o F("addr", "addr_local", e.local)
WritePacket(e) ==
    V("packet_length", 0) \o F("8", "flags", 2 * e.spin + e.phase) \o V("payload_length", 0)
    \o V("ptype", e.ptype) \o V("pn64", 0) \o F("cid", "dest_cnx_id", 0) \o F("cid", "srce_cnx_id", 0)
    \o When(e.ptype \notin {"1rtt", VN}, F("32", "vn", e.vn))
    \o When(e.ptype = "initial", F("str", "token", e.token))
    \o Times(IF e.ptype \in {VN, "retry"} THEN 1 ELSE e.frames, F("str", "frame", 0))
WriteDropped(e) == V("ptype", 0) \o V("packet_size", 0) \o V("err", 0) \o F("str", "raw", e.raw)
WriteBuffered   == V("ptype", 0) \o F("str", "trigger", 0)
WriteLost(e) ==
    V("ptype", 0) \o V("sequence", 0) \o F("str", "trigger", 0)
    \o (IF e.dcid = 1 THEN F("cid", "dcid", 1) ELSE F("8", "no dcid", 0)) \o V("packet_size", 0)
WriteAlpn(e) ==
    V("owner", 0) \o F("str", "sni", e.sni) \o V("alpn_count", e.list)
    \o Times(e.list, F("str", "proposed", 0)) \o F("str", "alpn", e.alpn)
WriteParam == V("owner", 0) \o F("str", "parameters", 0)
WriteCc(e) ==
    V("sequence", 0) \o V("packet_rcvd", e.acked)
    \o When(e.acked # 0, V("highest_ack", 0) \o V("high_ack_time", 0) \o V("last_time_ack", 0))
    \o V("cwin", e.cwin) \o V("one_way_delay", 0) \o V("rtt_sample", e.rtt) \o V("SRTT", 0) \o V("RTT_min", e.rtt)
    \o V("bandwidth_estimate", 0) \o V("receive_rate_estimate", 0) \o V("Send_MTU", 0) \o V("pacing_packet_time", 0)
    \o V("nb_retrans", 0) \o V("nb_spurious", 0) \o V("cwin_blkd", 0) \o V("flow_blkd", 0) \o V("stream_blkd", 0)
    \o V("cc_state", 0) \o V("cc_param", 0) \o V("bw_max", 0) \o V("bytes_in_transit", e.inflight)

Chunk(e) ==
    Header(e.id) \o
    CASE e.id = "start" -> WriteStart
      [] e.id = "pdu" -> WritePdu(e)
      [] e.id = "packet" -> WritePacket(e)
      [] e.id = "dropped" -> WriteDropped(e)
      [] e.id = "buffered" -> WriteBuffered
      [] e.id = "lost" -> WriteLost(e)
      [] e.id = "alpn" -> WriteAlpn(e)
      [] e.id \in {"param", "key"} -> WriteParam
      [] e.id = "cc" -> WriteCc(e)
      [] e.id = "info" -> F("rest", "message", 0)
      [] e.id = "close" -> <<>>

-----------------------------------------------------------------------------
(* Reading: the fields in the order in which the reader takes them; x is   *)
(* what it has taken.                                                      *)

R(kind, names) == [i \in DOMAIN names |-> <<kind, names[i]>>]

ReadHeader == R("cid", <<"initial_cnxid">>) \o R("v", <<"time", "path_id", "id">>)
ReadStart  == R("8", <<"client_mode">>) \o R("32", <<"proposed_version">>) \o R("cid", <<"remote_cnxid">>)
ReadPdu    == R("addr", <<"addr_peer">>) \o R("v", <<"byte_length">>) \o R("addr", <<"addr_local">>)
ReadPacketHeader(x) ==
    R("8", <<"flags">>) \o R("v", <<"payload_length", "ptype", "pn64">>) \o R("cid", <<"dest_cnx_id", "srce_cnx_id">>)
    \o When(x["ptype"] \notin {"1rtt", VN}, R("32", <<"vn">>))
    \o When(x["ptype"] = "initial", R("str", <<"token">>))
ReadPacket(x) == R("v", <<"packet_length">>) \o ReadPacketHeader(x)
ReadDropped   == R("v", <<"ptype", "packet_size", "err">>) \o R("str", <<"raw">>)
ReadBuffered  == R("v", <<"ptype">>) \o R("str", <<"trigger">>)
ReadLost(x) ==
    R("v", <<"ptype", "sequence">>) \o R("str", <<"trigger">>)
    \o (IF "dcid" \in DOMAIN x THEN R("cid", <<"dcid">>) ELSE R("8", <<"no dcid">>)) \o R("v", <<"packet_size">>)
ReadAlpn(x) ==
    R("v", <<"owner">>) \o R("str", <<"sni">>) \o R("v", <<"alpn_count">>)
    \o Times(x["alpn_count"], R("str", <<"proposed">>)) \o R("str", <<"alpn">>)
ReadParam == R("v", <<"owner">>) \o R("str", <<"parameters">>)
ReadCc(x) ==
    R("v", <<"sequence", "packet_rcvd">>)
    \o When(x["packet_rcvd"] # 0, R("v", <<"highest_ack", "high_ack_time", "last_time_ack">>))
    \o R("v", <<"cwin", "one_way_delay", "rtt_sample", "SRTT", "RTT_min", "bandwidth_estimate", "receive_rate_estimate",
                "Send_MTU", "pacing_packet_time", "nb_retrans", "nb_spurious", "cwin_blkd", "flow_blkd", "stream_blkd",
                "cc_state", "cc_param", "bw_max", "bytes_in_transit">>)

Reads(id, x) ==
    ReadHeader \o
    CASE id = "start" -> ReadStart
      [] id = "pdu" -> ReadPdu
      [] id = "packet" -> ReadPacket(x)
      [] id = "dropped" -> ReadDropped
      [] id = "buffered" -> ReadBuffered
      [] id = "lost" -> ReadLost(x)
      [] id = "alpn" -> ReadAlpn(x)
      [] id = "param" -> ReadParam
      [] id = "cc" -> ReadCc(x)
      [] id = "info" -> R("rest", <<"message">>)
      [] OTHER -> <<>>

Taken(c) == [n \in { c[i].n : i \in DOMAIN c } |-> c[CHOOSE i \in DOMAIN c : c[i].n = n].x]
Fields(c) == [i \in DOMAIN c |-> <<c[i].k, c[i].n>>]

(* What follows the fields: frames, each with its length; the end of the   *)
(* chunk of a new connection and the chunks of keys are not read.          *)
Understood(c) ==
    LET x    == Taken(c)
        id   == x["id"]
        want == Reads(id, x)
        rest == SubSeq(Fields(c), Len(want) + 1, Len(c))
    IN  /\ IsPrefix(want, Fields(c))
        /\ \/ rest = <<>>
           \/ id \in {"start", "key"}
           \/ id = "packet" /\ \A i \in DOMAIN rest : rest[i] = <<"str", "frame">>

-----------------------------------------------------------------------------
(* The qlog writer: its context holds what was shown last.                 *)

NewContext ==
    [state |-> 0, cwin |-> 0, rtt_sample |-> 0, RTT_min |-> 0, bytes_in_transit |-> 0, addr_peer |-> 0, addr_local |-> 0,
     vn |-> 0, spin |-> -1, sent |-> -1, received |-> -1]
Quiet(ctx) == [ctx |-> ctx, out |-> <<>>]

(* The fields of next that differ from those of ctx are shown.             *)
Shows(what, ctx, next) ==
    LET names == { n \in DOMAIN next : next[n] # ctx[n] }
    IN  [ctx |-> next, out |-> <<[what |-> what, shown |-> [n \in names |-> next[n]]]>>]

(* qlog_cc_update *)
CcUpdate(ctx, x) ==
    LET next == [ctx EXCEPT !.cwin = x["cwin"], !.rtt_sample = x["rtt_sample"], !.RTT_min = x["RTT_min"],
                            !.bytes_in_transit = x["bytes_in_transit"]]
    IN  IF next = ctx THEN Quiet(ctx) ELSE Shows("cc", ctx, next)

(* Mutant: one memory for the key phases of both directions. *)
PacketStart_OnePhase(ctx, x, rx) ==
    IF x["ptype"] # "1rtt" THEN Shows("packet", ctx, [ctx EXCEPT !.vn = IF "vn" \in DOMAIN x THEN x["vn"] ELSE 0])
    ELSE Shows("packet", ctx, [ctx EXCEPT !.sent = x["flags"] % 2])

(* qlog_packet_start *)
PacketStart(ctx, x, rx) ==
    LET spin  == x["flags"] \div 2
        phase == x["flags"] % 2
        long  == [ctx EXCEPT !.vn = IF "vn" \in DOMAIN x THEN x["vn"] ELSE 0]
        spun  == [ctx EXCEPT !.spin = spin]
    IN  IF x["ptype"] # "1rtt" THEN Shows("packet", ctx, long)
        ELSE IF rx THEN Shows("packet", ctx, [ctx EXCEPT !.received = phase])
        ELSE LET s == Shows("packet", spun, [spun EXCEPT !.sent = phase])
             IN  IF ctx.spin \notin {-1, spin} THEN [s EXCEPT !.out = Shows("spin", ctx, spun).out \o @] ELSE s

(* qlog_pdu *)
Pdu(ctx, x) == Shows("pdu", ctx, [ctx EXCEPT !.addr_peer = x["addr_peer"], !.addr_local = x["addr_local"]])

(* binlog_convert_event *)
Converted(q, e) ==
    LET c == Chunk(e)
        x == Taken(c)
        r == CASE e.id = "start" -> Quiet([NewContext EXCEPT !.state = 1])
               [] e.id = "close" -> Quiet([q.ctx EXCEPT !.state = 2])
               [] e.id = "pdu" -> Pdu(q.ctx, x)
               [] e.id = "packet" -> PacketStart(q.ctx, x, e.rx)
               [] e.id = "cc" -> CcUpdate(q.ctx, x)
               [] e.id = "key" -> Quiet(q.ctx)
               [] OTHER -> Shows(e.id, q.ctx, q.ctx)
    IN  [ctx |-> r.ctx, out |-> q.out \o r.out, ok |-> q.ok /\ Understood(c)]

(* qlog_convert *)
Convert(f) == FoldLeft(Converted, [ctx |-> NewContext, out |-> <<>>, ok |-> TRUE], f)

-----------------------------------------------------------------------------
(* The life of a log *)

NotYet == [ctx |-> NewContext, out |-> <<>>, ok |-> TRUE]

Init == open = {} /\ nb = 0 /\ file = <<>> /\ qlog = NotYet

(* binlog_new_connection, when the connection is created or starts again   *)
(* after a Retry.                                                          *)
NewConnection(c) ==
    /\ c \notin open
    /\ IF nb >= MaxLogs THEN UNCHANGED vars
       ELSE /\ open' = open \cup {c} /\ nb' = nb + 1
            /\ IF c = First THEN file' = <<[id |-> "start"]>> /\ qlog' = NotYet ELSE UNCHANGED <<file, qlog>>

(* picoquic_log_...: an event of the connection, when it has a file.       *)
Log(e) ==
    /\ First \in open /\ Len(file) <= MaxEvents
    /\ file' = Append(file, e)
    /\ UNCHANGED <<open, nb, qlog>>

(* binlog_close_connection, which ends in autoqlog: when the connection is *)
(* deleted, and by a client that gets a Retry.                             *)
Close(c) ==
    /\ c \in open
    /\ open' = open \ {c} /\ nb' = (IF nb > 0 THEN nb - 1 ELSE nb)
    /\ IF c = First THEN file' = Append(file, [id |-> "close"]) /\ qlog' = Convert(file')
       ELSE UNCHANGED <<file, qlog>>

Next == (\E c \in Cnx : NewConnection(c) \/ Close(c)) \/ (\E e \in Written : Log(e))

Spec == Init /\ [][Next]_vars

-----------------------------------------------------------------------------
(* Properties *)

(* What a reader of the qlog knows in the end, having applied the changes. *)
Replay(out) == FoldLeft(LAMBDA known, entry : entry.shown @@ known, NewContext, out)

(* The value of field n in the last event of the file that p holds of.     *)
LastOf(p, n, default) ==
    LET s == SelectSeq(file, LAMBDA e : p[e])
    IN  IF s = <<>> THEN default ELSE Last(s)[n]
Kind(test(_)) == [e \in Range(file) |-> test(e)]
Short(e, rx) == e.id = "packet" /\ e.ptype = "1rtt" /\ e.rx = rx

ValuesTold ==
    LET known == Replay(qlog.out)
        cc    == Kind(LAMBDA e : e.id = "cc")
        pdu   == Kind(LAMBDA e : e.id = "pdu")
        sent  == Kind(LAMBDA e : Short(e, FALSE))
    IN  /\ known.cwin = LastOf(cc, "cwin", 0) /\ known.rtt_sample = LastOf(cc, "rtt", 0)
        /\ known.RTT_min = LastOf(cc, "rtt", 0) /\ known.bytes_in_transit = LastOf(cc, "inflight", 0)
        /\ known.addr_peer = LastOf(pdu, "peer", 0) /\ known.addr_local = LastOf(pdu, "local", 0)
        /\ known.vn = LastOf(Kind(LAMBDA e : e.id = "packet" /\ e.ptype # "1rtt"), "vn", 0)
        /\ known.sent = LastOf(sent, "phase", -1)
        /\ known.received = LastOf(Kind(LAMBDA e : Short(e, TRUE)), "phase", -1)
        /\ \/ known.spin = LastOf(sent, "spin", -1)
           \/ known.spin = -1 /\ \A e, f \in Range(file) : Short(e, FALSE) /\ Short(f, FALSE) => e.spin = f.spin

(* Each event has its entry, in order; the metrics only when they change.  *)
EntriesTold ==
    [i \in DOMAIN SelectSeq(qlog.out, LAMBDA o : o.what \notin {"spin", "cc"}) |->
        SelectSeq(qlog.out, LAMBDA o : o.what \notin {"spin", "cc"})[i].what]
    = LET s == SelectSeq(file, LAMBDA e : e.id \notin {"start", "close", "key", "cc"}) IN [i \in DOMAIN s |-> s[i].id]

(***************************************************************************)
(* The qlog of a connection that has ended tells what happened: the reader *)
(* has taken every field for what it is, and the changes it shows add up   *)
(* to the last values logged.  And the process counts its open files       *)
(* exactly, whatever connections come, restart and go.                     *)
(***************************************************************************)
LogTold ==
    /\ nb = Cardinality(open) /\ nb <= MaxLogs
    /\ qlog # NotYet => qlog.ok /\ qlog.ctx.state = 2 /\ ValuesTold /\ EntriesTold
=============================================================================
