---------------------------- MODULE FrameFormats ----------------------------
(***************************************************************************)
(* The frames of a packet and the programs that walk through them.         *)
(*                                                                         *)
(* A packet is a run of frames without lengths of their own: to find the   *)
(* next frame one has to know the fields of this one.  Five pieces of code *)
(* know them, each written out separately: the formatters, the decoder of  *)
(* received packets (picoquic_decode_frames), the skipper used on packets  *)
(* that are acknowledged or lost (picoquic_skip_frame), the text log and   *)
(* the binary log; and the reader of the binary log (qlog) knows them a    *)
(* sixth time.  Here each of them is a table from frame types to fields.   *)
(*                                                                         *)
(* A byte below Two is a one-byte integer; Two starts a two-byte integer,  *)
(* as all longer ones.  The types of the extensions take two bytes.  Data  *)
(* of fixed size (challenges, reset secrets) has two bytes here.           *)
(***************************************************************************)
EXTENDS Naturals, Sequences, SequencesExt, TLC

Two   == 64
Fixed == 2

(* Codes of the types; those of the extensions start at Two. *)
Code ==
    [ padding |-> 0, ping |-> 1, ack |-> 2, ack_ecn |-> 3, reset_stream |-> 4, stop_sending |-> 5,
      crypto_hs |-> 6, new_token |-> 7, stream |-> 8, stream_l |-> 10, stream_o |-> 12, stream_ol |-> 14,
      max_data |-> 16, max_stream_data |-> 17, max_streams |-> 18, data_blocked |-> 20,
      stream_data_blocked |-> 21, streams_blocked |-> 22, new_connection_id |-> 24,
      retire_connection_id |-> 25, path_challenge |-> 26, path_response |-> 27, connection_close |-> 28,
      application_close |-> 29, handshake_done |-> 30, datagram |-> 48, datagram_l |-> 49,
      ack_frequency |-> 64, time_stamp |-> 65, ack_mp |-> 66, ack_mp_ecn |-> 67, path_abandon |-> 68, bdp |-> 69 ]
Types == DOMAIN Code

(***************************************************************************)
(* Fields: "b" one byte, "v" an integer, "L" a length and its data, "h" a  *)
(* length whose data the binary log leaves out, "x" data of fixed size,    *)
(* "cid" a byte with the length of an identifier, the identifier and the   *)
(* secret, "id" the identifier of a path, "ip" an address, "n" the number  *)
(* of ACK blocks with the first block and the blocks, "rest" all that is   *)
(* left, "run" the bytes equal to the first.                               *)
(***************************************************************************)
Each(S, fields) == [t \in S |-> fields]
Ecn == <<"v", "v", "v">>

(* The formatters. *)
FormatControl ==
    Each({"reset_stream"}, <<"b", "v", "v", "v">>) @@ Each({"stop_sending"}, <<"b", "v", "v">>)
FormatClose ==
    Each({"connection_close"}, <<"b", "v", "v", "L">>) @@ Each({"application_close"}, <<"b", "v", "0">>)
FormatCredit ==
    Each({"max_data", "max_streams"}, <<"b", "v">>) @@ Each({"max_stream_data"}, <<"b", "v", "v">>)
FormatBlocked ==
    Each({"data_blocked", "streams_blocked"}, <<"b", "v">>) @@ Each({"stream_data_blocked"}, <<"b", "v", "v">>)
FormatData ==
    Each({"stream"}, <<"b", "v", "rest">>) @@ Each({"stream_l"}, <<"b", "v", "L">>)
    @@ Each({"stream_o"}, <<"b", "v", "v", "rest">>) @@ Each({"stream_ol"}, <<"b", "v", "v", "L">>)
FormatCrypto   == Each({"crypto_hs"}, <<"b", "v", "L">>)
FormatDatagram == Each({"datagram_l"}, <<"b", "L">>) @@ Each({"datagram"}, <<"b", "rest">>)
FormatCids ==
    Each({"new_connection_id"}, <<"b", "v", "v", "cid">>) @@ Each({"retire_connection_id"}, <<"b", "v">>)
FormatToken    == Each({"new_token"}, <<"b", "L">>)
FormatPath     == Each({"path_challenge", "path_response"}, <<"b", "x">>)
FormatAck ==
    Each({"ack"}, <<"v", "v", "v", "n">>) @@ Each({"ack_ecn"}, <<"v", "v", "v", "n">> \o Ecn)
    @@ Each({"ack_mp"}, <<"v", "v", "v", "v", "n">>) @@ Each({"ack_mp_ecn"}, <<"v", "v", "v", "v", "n">> \o Ecn)
FormatSingle   == Each({"padding", "ping"}, <<"run">>) @@ Each({"handshake_done"}, <<"b">>)
FormatExtensions ==
    Each({"ack_frequency"}, <<"v", "v", "v", "v", "b">>) @@ Each({"time_stamp"}, <<"v", "v">>)
    @@ Each({"path_abandon"}, <<"v", "id", "v", "L">>) @@ Each({"bdp"}, <<"v", "v", "v", "v", "ip">>)
Format ==
    FormatControl @@ FormatClose @@ FormatCredit @@ FormatBlocked @@ FormatData @@ FormatCrypto
    @@ FormatDatagram @@ FormatCids @@ FormatToken @@ FormatPath @@ FormatAck @@ FormatSingle @@ FormatExtensions

(* The decoder of received packets. *)
DecodeReset   == Each({"reset_stream"}, <<"b", "v", "v", "v">>)
DecodeStop    == Each({"stop_sending"}, <<"b", "v", "v">>)
DecodeClose ==
    Each({"connection_close"}, <<"b", "v", "v", "L">>) @@ Each({"application_close"}, <<"b", "v", "L">>)
DecodeCredit ==
    Each({"max_data", "max_streams"}, <<"b", "v">>) @@ Each({"max_stream_data"}, <<"b", "v", "v">>)
DecodeBlocked ==
    Each({"data_blocked", "streams_blocked"}, <<"b", "v">>) @@ Each({"stream_data_blocked"}, <<"b", "v", "v">>)
DecodeStream ==
    Each({"stream"}, <<"b", "v", "rest">>) @@ Each({"stream_l"}, <<"b", "v", "L">>)
    @@ Each({"stream_o"}, <<"b", "v", "v", "rest">>) @@ Each({"stream_ol"}, <<"b", "v", "v", "L">>)
DecodeCrypto   == Each({"crypto_hs"}, <<"b", "v", "L">>)
DecodeDatagram == Each({"datagram"}, <<"b", "rest">>) @@ Each({"datagram_l"}, <<"b", "L">>)
DecodeNewCid   == Each({"new_connection_id"}, <<"b", "v", "v", "cid">>)
DecodeRetire   == Each({"retire_connection_id"}, <<"b", "v">>)
DecodeToken    == Each({"new_token"}, <<"b", "L">>)
DecodePath     == Each({"path_challenge", "path_response"}, <<"b", "x">>)
ParseAckHeader == <<"v", "v", "v">>
DecodeAck ==
    Each({"ack"}, ParseAckHeader \o <<"n">>) @@ Each({"ack_ecn"}, ParseAckHeader \o <<"n">> \o Ecn)
    @@ Each({"ack_mp"}, <<"v">> \o ParseAckHeader \o <<"n">>)
    @@ Each({"ack_mp_ecn"}, <<"v">> \o ParseAckHeader \o <<"n">> \o Ecn)
DecodeSingle   == Each({"padding", "ping"}, <<"run">>) @@ Each({"handshake_done"}, <<"b">>)
DecodeAckFrequency == Each({"ack_frequency"}, <<"v", "v", "v", "v", "b">>)
DecodeTimeStamp    == Each({"time_stamp"}, <<"v", "v">>)
DecodePathAbandon  == Each({"path_abandon"}, <<"v", "id", "v", "L">>)
DecodeBdp          == Each({"bdp"}, <<"v", "v", "v", "v", "ip">>)
Decode ==
    DecodeReset @@ DecodeStop @@ DecodeClose @@ DecodeCredit @@ DecodeBlocked @@ DecodeStream @@ DecodeCrypto
    @@ DecodeDatagram @@ DecodeNewCid @@ DecodeRetire @@ DecodeToken @@ DecodePath @@ DecodeAck @@ DecodeSingle
    @@ DecodeAckFrequency @@ DecodeTimeStamp @@ DecodePathAbandon @@ DecodeBdp
(* The decoder asks for an acknowledgement of every packet with one of these. *)
AckNeeded == Types \ { "padding", "ack", "ack_ecn", "ack_mp", "ack_mp_ecn", "path_challenge", "path_response", "time_stamp" }

(* The skipper, used on packets that were sent. *)
SkipStream ==
    Each({"stream"}, <<"b", "v", "rest">>) @@ Each({"stream_l"}, <<"b", "v", "L">>)
    @@ Each({"stream_o"}, <<"b", "v", "v", "rest">>) @@ Each({"stream_ol"}, <<"b", "v", "v", "L">>)
SkipCrypto == Each({"crypto_hs"}, <<"b", "v", "L">>)
SkipClose  == Each({"connection_close"}, <<"b", "v", "v", "L">>) @@ Each({"application_close"}, <<"b", "v", "L">>)
SkipAck_BehindType ==
    Each({"ack"}, <<"v", "v", "v", "n">>) @@ Each({"ack_ecn"}, <<"v", "v", "v", "n">> \o Ecn)
    @@ Each({"ack_mp"}, <<"v", "v", "v", "v", "v", "n">>) @@ Each({"ack_mp_ecn"}, <<"v", "v", "v", "v", "v", "n">> \o Ecn)
SkipAck ==
    Each({"ack"}, <<"v", "v", "v", "n">>) @@ Each({"ack_ecn"}, <<"v", "v", "v", "n">> \o Ecn)
    @@ Each({"ack_mp"}, <<"v", "v", "v", "v", "n">>) @@ Each({"ack_mp_ecn"}, <<"v", "v", "v", "v", "n">> \o Ecn)
SkipSimple ==
    Each({"reset_stream"}, <<"b", "v", "v", "v">>) @@ Each({"stop_sending", "max_stream_data"}, <<"b", "v", "v">>)
    @@ Each({"stream_data_blocked"}, <<"b", "v", "v">>) @@ Each({"padding", "ping"}, <<"run">>)
    @@ Each({"max_data", "max_streams", "data_blocked", "streams_blocked"}, <<"b", "v">>)
    @@ Each({"path_challenge", "path_response"}, <<"b", "x">>) @@ Each({"handshake_done"}, <<"b">>)
SkipNewCid       == Each({"new_connection_id"}, <<"v", "v", "v", "cid">>)
SkipRetire       == Each({"retire_connection_id"}, <<"b", "v">>)
SkipToken        == Each({"new_token"}, <<"b", "L">>)
SkipDatagram     == Each({"datagram"}, <<"b", "rest">>) @@ Each({"datagram_l"}, <<"b", "L">>)
SkipAckFrequency == Each({"ack_frequency"}, <<"v", "v", "v", "v", "b">>)
SkipTimeStamp    == Each({"time_stamp"}, <<"v", "v">>)
SkipPathAbandon  == Each({"path_abandon"}, <<"v", "id", "v", "L">>)
SkipBdp          == Each({"bdp"}, <<"v", "v", "v", "v", "L">>)
Skip ==
    SkipStream @@ SkipCrypto @@ SkipClose @@ SkipAck @@ SkipSimple @@ SkipNewCid @@ SkipRetire @@ SkipToken
    @@ SkipDatagram @@ SkipAckFrequency @@ SkipTimeStamp @@ SkipPathAbandon @@ SkipBdp

(* Frames the skipper calls pure acknowledgements: a packet of these alone is not repeated. *)
PureAck == { "padding", "ack", "ack_ecn", "ack_mp", "ack_mp_ecn", "path_challenge", "path_response", "time_stamp" }

(* Acknowledged packets are read once more, to see what has been delivered. *)
AckedStream ==
    Each({"stream"}, <<"b", "v", "rest">>) @@ Each({"stream_l"}, <<"b", "v", "L">>)
    @@ Each({"stream_o"}, <<"b", "v", "v", "rest">>) @@ Each({"stream_ol"}, <<"b", "v", "v", "L">>)
AckedAck ==
    Each({"ack"}, ParseAckHeader \o <<"n">>) @@ Each({"ack_ecn"}, ParseAckHeader \o <<"n">> \o Ecn)
    @@ Each({"ack_mp"}, <<"v">> \o ParseAckHeader \o <<"n">>)
    @@ Each({"ack_mp_ecn"}, <<"v">> \o ParseAckHeader \o <<"n">> \o Ecn)
AckedCrypto     == Each({"crypto_hs"}, <<"b", "v", "L">>)
AckedNewCid     == Each({"new_connection_id"}, <<"b", "v", "v", "cid">>)
AckedRetire     == Each({"retire_connection_id"}, <<"b", "v">>)
AckedMaxData    == Each({"max_data"}, <<"b", "v">>)
AckedMaxStream  == Each({"max_stream_data"}, <<"b", "v", "v">>)
AckedMaxStreams == Each({"max_streams"}, <<"b", "v">>)
Acked ==
    AckedStream @@ AckedAck @@ AckedCrypto @@ AckedNewCid @@ AckedRetire @@ AckedMaxData @@ AckedMaxStream
    @@ AckedMaxStreams @@ Each({"handshake_done"}, <<"v">>) @@ Skip

(* The text log. *)
TextStream ==
    Each({"stream"}, <<"b", "v", "rest">>) @@ Each({"stream_l"}, <<"b", "v", "L">>)
    @@ Each({"stream_o"}, <<"b", "v", "v", "rest">>) @@ Each({"stream_ol"}, <<"b", "v", "v", "L">>)
TextAck ==
    Each({"ack"}, ParseAckHeader \o <<"n">>) @@ Each({"ack_ecn"}, ParseAckHeader \o <<"n">> \o Ecn)
    @@ Each({"ack_mp"}, <<"v">> \o ParseAckHeader \o <<"n">>)
    @@ Each({"ack_mp_ecn"}, <<"v">> \o ParseAckHeader \o <<"n">> \o Ecn)
TextReset ==
    Each({"reset_stream"}, <<"b", "v", "v", "v">>) @@ Each({"stop_sending"}, <<"b", "v", "v">>)
TextClose ==
    Each({"connection_close"}, <<"b", "v", "v", "L">>) @@ Each({"application_close"}, <<"b", "v", "L">>)
TextCredit ==
    Each({"max_data", "max_streams"}, <<"b", "v">>) @@ Each({"max_stream_data"}, <<"b", "v", "v">>)
TextBlocked ==
    Each({"data_blocked", "streams_blocked"}, <<"b", "v">>) @@ Each({"stream_data_blocked"}, <<"b", "v", "v">>)
TextCids ==
    Each({"new_connection_id"}, <<"b", "v", "v", "cid">>) @@ Each({"retire_connection_id"}, <<"b", "v">>)
    @@ Each({"new_token"}, <<"b", "L">>)
TextPath ==
    Each({"path_challenge", "path_response"}, <<"b", "x">>) @@ Each({"crypto_hs"}, <<"b", "v", "L">>)
TextDatagram == Each({"datagram"}, <<"b", "rest">>) @@ Each({"datagram_l"}, <<"b", "L">>)
TextExtensions ==
    Each({"ack_frequency"}, <<"v", "v", "v", "v", "b">>) @@ Each({"time_stamp"}, <<"v", "v">>)
    @@ Each({"path_abandon"}, <<"v", "any_id", "v", "L">>) @@ Each({"bdp"}, <<"v", "v", "v", "v", "ip">>)
Text ==
    TextStream @@ TextAck @@ TextReset @@ TextClose @@ TextCredit @@ TextBlocked @@ TextCids @@ TextPath
    @@ TextDatagram @@ TextExtensions @@ Each({"padding", "ping"}, <<"run">>) @@ Each({"handshake_done"}, <<"b">>)

(***************************************************************************)
(* The binary log.  "h" is a length of which the data is not logged,       *)
(* "unlogged" the same without a length, "counted" data up to the end of   *)
(* the packet that is logged behind a length the packet does not have, and *)
(* of a "run" one byte is logged.                                          *)
(***************************************************************************)
BinStream ==
    Each({"stream"}, <<"b", "v", "counted">>) @@ Each({"stream_l"}, <<"b", "v", "L">>)
    @@ Each({"stream_o"}, <<"b", "v", "v", "counted">>) @@ Each({"stream_ol"}, <<"b", "v", "v", "L">>)
BinAck ==
    Each({"ack"}, <<"v", "v", "v", "n">>) @@ Each({"ack_ecn"}, <<"v", "v", "v", "n">> \o Ecn)
    @@ Each({"ack_mp"}, <<"v", "v", "v", "v", "n">>) @@ Each({"ack_mp_ecn"}, <<"v", "v", "v", "v", "n">> \o Ecn)
BinReset ==
    Each({"reset_stream"}, <<"b", "v", "v", "v">>) @@ Each({"stop_sending"}, <<"b", "v", "v">>)
BinClose ==
    Each({"connection_close"}, <<"b", "v", "v", "L">>) @@ Each({"application_close"}, <<"b", "v", "L">>)
BinCredit ==
    Each({"max_data", "max_streams"}, <<"b", "v">>) @@ Each({"max_stream_data"}, <<"b", "v", "v">>)
BinBlocked ==
    Each({"data_blocked", "streams_blocked"}, <<"b", "v">>) @@ Each({"stream_data_blocked"}, <<"b", "v", "v">>)
BinCids ==
    Each({"new_connection_id"}, <<"b", "v", "v", "cid">>) @@ Each({"retire_connection_id"}, <<"b", "v">>)
    @@ Each({"new_token"}, <<"b", "L">>)
BinPath ==
    Each({"path_challenge", "path_response"}, <<"b", "x">>) @@ Each({"crypto_hs"}, <<"b", "v", "h">>)
    @@ Each({"handshake_done"}, <<"b">>)
BinDatagram == Each({"datagram"}, <<"b", "unlogged">>) @@ Each({"datagram_l"}, <<"b", "h">>)
BinExtensions ==
    Each({"ack_frequency"}, <<"v", "v", "v", "v", "b">>) @@ Each({"time_stamp"}, <<"v", "v">>)
    @@ Each({"path_abandon"}, <<"v", "id", "v", "L">>) @@ Each({"bdp"}, <<"v", "v", "v", "v", "L">>)
    @@ Each({"padding", "ping"}, <<"run">>)
Bin ==
    BinStream @@ BinAck @@ BinReset @@ BinClose @@ BinCredit @@ BinBlocked @@ BinCids @@ BinPath @@ BinDatagram
    @@ BinExtensions

(* The reader of the binary log; "cause" is the error with, unless it is 0, the type of the frame. *)
QlogStream ==
    Each({"stream", "stream_l"}, <<"v", "v", "v", "rest">>) @@ Each({"stream_o", "stream_ol"}, <<"v", "v", "v", "v", "rest">>)
QlogAck ==
    Each({"ack"}, <<"v", "v", "v", "n">>) @@ Each({"ack_ecn"}, <<"v", "v", "v", "n">> \o Ecn)
    @@ Each({"ack_mp"}, <<"v", "v", "v", "v", "n">>) @@ Each({"ack_mp_ecn"}, <<"v", "v", "v", "v", "n">> \o Ecn)
QlogReset ==
    Each({"reset_stream"}, <<"v", "v", "v", "v">>) @@ Each({"stop_sending"}, <<"v", "v", "v">>)
QlogClosing ==
    Each({"connection_close"}, <<"v", "cause", "L">>) @@ Each({"application_close"}, <<"v", "v", "L">>)
QlogCredit ==
    Each({"max_data", "max_streams"}, <<"v", "v">>) @@ Each({"max_stream_data"}, <<"v", "v", "v">>)
QlogBlocked ==
    Each({"data_blocked", "streams_blocked"}, <<"v", "v">>) @@ Each({"stream_data_blocked"}, <<"v", "v", "v">>)
QlogCids ==
    Each({"new_connection_id"}, <<"v", "v", "v", "cid">>) @@ Each({"retire_connection_id"}, <<"v", "v">>)
    @@ Each({"new_token"}, <<"v", "L">>)
QlogPath ==
    Each({"path_challenge", "path_response"}, <<"v", "x">>) @@ Each({"crypto_hs"}, <<"v", "v", "v">>)
    @@ Each({"datagram"}, <<"v">>) @@ Each({"datagram_l"}, <<"v", "v">>)
QlogExtensions ==
    Each({"time_stamp"}, <<"v", "v">>) @@ Each({"path_abandon"}, <<"v", "any_id", "v", "L">>)
    @@ Each({"ack_frequency"}, <<"v", "v", "v", "v", "b">>) @@ Each({"bdp"}, <<"v", "v", "v", "v", "L">>)
Qlog ==
    QlogStream @@ QlogAck @@ QlogReset @@ QlogClosing @@ QlogCredit @@ QlogBlocked @@ QlogCids @@ QlogPath
    @@ QlogExtensions @@ Each({"padding", "ping", "handshake_done"}, <<"v">>)

(***************************************************************************)
(* Reading: positions in the packet, 0 for a failure (NULL).               *)
(***************************************************************************)
Adv(p, i, n)     == IF i = 0 \/ i + n > Len(p) + 1 THEN 0 ELSE i + n
VarintSkip(p, i) == IF i = 0 \/ i > Len(p) THEN 0 ELSE Adv(p, i, IF p[i] = Two THEN 2 ELSE 1)
Varint(p, i)     == IF p[i] = Two THEN Two + p[i + 1] ELSE p[i]

(* The position behind k integers. *)
Varints(p, i, k) == LET at[j \in 0 .. k] == IF j = 0 THEN i ELSE VarintSkip(p, at[j - 1]) IN at[k]

(* The position behind an integer and what follows it for that value of it. *)
Then(p, i, After(_, _)) == LET e == VarintSkip(p, i) IN IF e = 0 THEN 0 ELSE After(Varint(p, i), e)

FieldEnd(p, kind, i) ==
    CASE i = 0 -> 0
      [] kind = "b" -> Adv(p, i, 1)
      [] kind = "v" -> VarintSkip(p, i)
      [] kind \in {"L", "h"} -> Then(p, i, LAMBDA n, e : Adv(p, e, n))
      [] kind = "x" -> Adv(p, i, Fixed)
      [] kind = "cid" -> IF i > Len(p) THEN 0 ELSE Adv(p, i, 1 + p[i] + Fixed)
      [] kind = "id" -> Then(p, i, LAMBDA t, e : IF t = 2 THEN e ELSE IF t > 2 THEN 0 ELSE VarintSkip(p, e))
      [] kind = "any_id" -> Then(p, i, LAMBDA t, e : IF t = 2 THEN e ELSE VarintSkip(p, e))
      [] kind = "ip" -> Then(p, i, LAMBDA n, e : IF n \in {Fixed, 2 * Fixed} THEN Adv(p, e, n) ELSE 0)
      [] kind = "n" -> Then(p, i, LAMBDA n, e : Varints(p, e, 1 + 2 * n))
      [] kind = "cause" -> Then(p, i, LAMBDA c, e : IF c = 0 THEN e ELSE VarintSkip(p, e))
      [] kind \in {"rest", "counted", "unlogged"} -> Len(p) + 1
      [] kind = "run" -> IF \E j \in i .. Len(p) : p[j] # p[i]
                         THEN CHOOSE j \in i .. Len(p) : p[j] # p[i] /\ \A l \in i .. j - 1 : p[l] = p[i]
                         ELSE Len(p) + 1

Unknown == "unknown"
TypeAt(p, i) ==
    LET known == { t \in Types : VarintSkip(p, i) # 0 /\ Code[t] = Varint(p, i) }
    IN IF known = {} THEN Unknown ELSE CHOOSE t \in known : TRUE

FrameEnd(table, p, i) ==
    IF i = 0 \/ i > Len(p) THEN i
    ELSE LET t == TypeAt(p, i)
         IN IF t = Unknown THEN 0
            ELSE FoldLeft(LAMBDA at, kind : FieldEnd(p, kind, at), i, table[t])

(* What the binary log writes of the frame at i. *)
Logged(p, kind, i) ==
    LET e == FieldEnd(p, kind, i)
    IN CASE kind = "h" -> SubSeq(p, i, VarintSkip(p, i) - 1)
         [] kind = "counted" -> <<e - i>> \o SubSeq(p, i, e - 1)
         [] kind = "unlogged" -> <<>>
         [] kind = "run" -> <<p[i]>>
         [] OTHER -> SubSeq(p, i, e - 1)
Record(p, i) ==
    FoldLeft(LAMBDA r, kind : [at |-> FieldEnd(p, kind, r.at), out |-> r.out \o Logged(p, kind, r.at)],
             [at |-> i, out |-> <<>>], Bin[TypeAt(p, i)]).out

(***************************************************************************)
(* Packets: what the formatters can write in a field.  The largest number  *)
(* acknowledged is large enough for the blocks.                            *)
(***************************************************************************)
Integers == { <<0>>, <<Two, 1>> }
Data     == { <<>>, <<Two>>, <<3, 0>> }
Blocks   == { <<0, 0>>, <<1, 0, 0, 0>>, <<1, 3, Two, 1, 0>>, <<2, 0, 3, 0, 0, 3>> }
Counted(d) == <<Len(d)>> \o d

Written(t, kind, first) ==
    IF first /\ kind \in {"b", "v"} THEN { IF Code[t] < Two THEN <<Code[t]>> ELSE <<Two, Code[t] - Two>> }
    ELSE
    CASE kind = "run" -> { <<Code[t]>>, <<Code[t], Code[t]>> }
      [] kind = "b" -> { <<0>>, <<1>> }
      [] kind = "v" -> Integers
      [] kind = "L" -> { Counted(d) : d \in Data }
      [] kind = "x" -> { <<Two, 3>> }
      [] kind = "cid" -> { <<1, 3, 0, Two>>, <<2, Two, 0, 3, 1>> }
      [] kind = "id" -> { <<t2>> \o v : t2 \in {0, 1}, v \in Integers } \cup { <<2>> }
      [] kind = "ip" -> { <<2, 1, Two>>, <<4, 1, 0, 0, 3>> }
      [] kind = "n" -> Blocks
      [] kind = "rest" -> Data
      [] kind = "0" -> { <<0>> }

(* In an ACK frame the field of the largest number comes first, behind the path if there is one. *)
Largest(t, j) == (t \in {"ack", "ack_ecn"} /\ j = 2) \/ (t \in {"ack_mp", "ack_mp_ecn"} /\ j = 3)
FramesOf(t) ==
    LET part(j) == IF Largest(t, j) THEN { <<Two, Two - 1>> } ELSE Written(t, Format[t][j], j = 1)
        upTo[j \in 0 .. Len(Format[t])] ==
            IF j = 0 THEN { <<>> } ELSE { f \o x : f \in upTo[j - 1], x \in part(j) }
    IN upTo[Len(Format[t])]
AllFrames == [t \in Types |-> FramesOf(t)]

(* A frame with data up to the end of the packet is the last one; runs of the same byte are one frame. *)
MayFollow(t, u) == Format[t][Len(Format[t])] # "rest" /\ ~(t = u /\ Format[t] = <<"run">>)

VARIABLES
    packet,     \* the bytes
    frames,     \* the types of the frames in it
    ends,       \* where the formatters ended them
    whole,      \* nothing has been cut off
    at,         \* walker -> position behind the frames it has crossed
    crossed,    \* frames crossed
    expects,    \* [asked: the receiver will acknowledge, asking: the sender does not take it for a pure ACK]
    readable    \* the binary log can be read up to here
vars == <<packet, frames, ends, whole, at, crossed, expects, readable>>

Table  == [decode |-> Decode, skip |-> Skip, acked |-> Acked, text |-> Text, bin |-> Bin]
Walker == DOMAIN Table

Init ==
    /\ packet = <<>> /\ frames = <<>> /\ ends = <<1>> /\ whole = TRUE /\ crossed = 0
    /\ at = [w \in Walker |-> 1]
    /\ expects = [asked |-> FALSE, asking |-> FALSE]
    /\ readable = TRUE

(* A formatter appends a frame; the second frame of a packet is a small one. *)
Append1(t, f) ==
    /\ packet' = packet \o f /\ frames' = Append(frames, t) /\ ends' = Append(ends, Len(packet) + Len(f) + 1)
    /\ UNCHANGED <<whole, at, crossed, expects, readable>>
FormatFrame ==
    /\ crossed = 0 /\ whole /\ Len(frames) < 2
    /\ \E t \in Types :
        /\ frames # <<>> => MayFollow(Last(frames), t)
        /\ \E f \in (IF frames = <<>> THEN AllFrames[t] ELSE { CHOOSE f \in AllFrames[t] : TRUE }) : Append1(t, f)

(* Decrypted garbage is not modelled; a packet cut short stands for a length that lies. *)
Cut ==
    /\ crossed = 0 /\ whole /\ Len(frames) = 1
    /\ \E n \in 1 .. Len(packet) - 1 : packet' = SubSeq(packet, 1, n)
    /\ whole' = FALSE
    /\ UNCHANGED <<frames, ends, at, crossed, expects, readable>>

(* Every walker crosses one frame. *)
Cross ==
    /\ crossed < Len(frames)
    /\ at' = [w \in Walker |-> FrameEnd(Table[w], packet, at[w])]
    /\ crossed' = crossed + 1
    /\ expects' = [asked  |-> expects.asked \/ TypeAt(packet, at["decode"]) \in AckNeeded,
                   asking |-> expects.asking \/ TypeAt(packet, at["skip"]) \notin PureAck]
    /\ readable' = (readable /\ (at'["bin"] = 0 \/
                    LET r == Record(packet, at["bin"]) IN FrameEnd(Qlog, r, 1) = Len(r) + 1))
    /\ UNCHANGED <<packet, frames, ends, whole>>

Next == FormatFrame \/ Cut \/ Cross
Spec == Init /\ [][Next]_vars

(* Every walker ends every frame where its formatter ended it. *)
LayoutsAgree == whole => \A w \in Walker : at[w] = ends[crossed + 1]

(* A packet cut short is refused by the decoder, the skipper and the binary log, or by none of them. *)
CutsAgree == ~whole => (at["decode"] = 0) = (at["skip"] = 0) /\ (at["skip"] = 0) = (at["bin"] = 0)

(* The reader of the binary log reads what was written; not the close without an error, whose frame type it skips. *)
CloseWithoutError == \E j \in DOMAIN frames : frames[j] = "connection_close" /\ packet[ends[j] + 1] = 0
LogReadable == whole /\ ~CloseWithoutError => readable

(* The sender waits for an acknowledgement of a packet exactly if the receiver gives one. *)
AckExpected == whole => (expects.asked <=> expects.asking)

(***************************************************************************)
(* A packet means the same to all who read it.  A walker that disagrees on *)
(* one field of one frame reads the frames behind it from the wrong byte:  *)
(* on the receiver it closes the connection, on the sender it repeats the  *)
(* wrong frames or none, in the logs it shows what was not sent.           *)
(***************************************************************************)
PacketsUnderstood == LayoutsAgree /\ CutsAgree /\ LogReadable /\ AckExpected
=============================================================================
