-------------------------------- MODULE LbCid --------------------------------
(***************************************************************************)
(* Connection identifiers that a load balancer can route: the identifier   *)
(* of the server is written in the clear, masked by a stream cipher that   *)
(* takes a nonce, or encrypted as a block (picoquic_lb.c).  The server     *)
(* parses a configuration, installs it in its context and generates the    *)
(* identifiers of its connections; the balancer decodes them.              *)
(*                                                                         *)
(* A byte is a bit, except the first one, a pair of the two bits of the    *)
(* configuration and the rest.  An identifier is kept in a buffer of the   *)
(* largest size.                                                           *)
(***************************************************************************)
EXTENDS Naturals, Sequences

CONSTANTS
  Cnxs,        (* connections                                              *)
  Texts,       (* configurations as they are written                       *)
  MaxCid,      (* PICOQUIC_CONNECTION_ID_MAX_SIZE                          *)
  Block,       (* bytes of an AES block: 16                                *)
  NonceMin,    (* 8                                                        *)
  DefaultLength,  (* of picoquic_create                                    *)
  Lengths      (* lengths an application asks for, at least 1              *)

VARIABLES
  quic,        (* local_cnxid_length and the configuration in force        *)
  cids         (* identifiers of open connections, and what made them      *)

lbVars == <<quic, cids>>

NoLb == [method |-> "none"]

Byte == {0, 1}
Xor(a, b) == (a + b) % 2
Zeros(n) == [i \in 1..n |-> 0]

(* Bytes i+1 .. i+n replaced.                                              *)
Write(s, i, t) == [k \in 1..Len(s) |-> IF k \in (i + 1)..(i + Len(t)) THEN t[k - i] ELSE s[k]]
Read(s, i, n) == SubSeq(s, i + 1, i + n)

ValueOf(bytes) ==
  LET v[i \in 0..Len(bytes)] == IF i = 0 THEN 0 ELSE 2 * v[i - 1] + bytes[i] IN v[Len(bytes)]
BytesOf(v, n) == [i \in 1..n |-> (v \div 2 ^ (n - i)) % 2]

-----------------------------------------------------------------------------
(* The ciphers: a mask from padded bytes, and a permutation of blocks with *)
(* its inverse.                                                            *)

Mask(key, nonce, i) == ((nonce + key + i) % 3) % 2

Encrypt(key, s) == [i \in 1..Block |-> Xor(s[Block + 1 - i], key + i)]
Decrypt(key, s) == [i \in 1..Block |-> Xor(s[Block + 1 - i], key + Block + 1 - i)]

(* picoquic_lb_compat_cid_one_pass_stream                                  *)
OnePass(key, s, from, n, to, m) ==
  LET nonce == ValueOf(Read(s, from, n))
  IN  Write(s, to, [i \in 1..m |-> Xor(s[to + i], Mask(key, nonce, i))])

(* Mutant: two passes. *)
Stream_TwoPasses(lb, s) ==
  LET Sid(t)   == OnePass(lb.key, t, 0, lb.nonce, lb.nonce, Len(lb.sid))
      Nonce(t) == OnePass(lb.key, t, lb.nonce, Len(lb.sid), 0, lb.nonce)
  IN  Nonce(Sid(s))

(* Server identifier masked, nonce masked with the result, and again.      *)
Stream(lb, s) ==
  LET Sid(t)   == OnePass(lb.key, t, 0, lb.nonce, lb.nonce, Len(lb.sid))
      Nonce(t) == OnePass(lb.key, t, lb.nonce, Len(lb.sid), 0, lb.nonce)
  IN  Sid(Nonce(Sid(s)))

-----------------------------------------------------------------------------
(* Identifiers *)

(* picoquic_lb_compat_cid_generate, on a random identifier.                *)
Generated(lb, random) ==
  IF lb = NoLb THEN random
  ELSE LET first == [rotation |-> lb.rotation,
                     rest |-> IF lb.encodes THEN quic.length - 1 ELSE random.first.rest]
           Cleartext(i) == Write(random.bytes, i, lb.sid)
           bytes == CASE lb.method = "clear"  -> Cleartext(0)
                      [] lb.method = "stream" -> Stream(lb, Cleartext(lb.nonce))
                      [] lb.method = "block"  ->
                           Write(random.bytes, 0, Encrypt(lb.key, Read(Cleartext(0), 0, Block)))
       IN  [random EXCEPT !.first = first, !.bytes = bytes]

(* picoquic_lb_compat_cid_verify: the server, or None.                     *)
None == [server |-> "none"]

Verified(lb, id) ==
  IF id.length # lb.length THEN None
  ELSE LET n == Len(lb.sid)
       IN  [server |-> ValueOf(CASE lb.method = "clear"  -> Read(id.bytes, 0, n)
                                 [] lb.method = "stream" -> Read(Stream(lb, id.bytes), lb.nonce, n)
                                 [] lb.method = "block"  ->
                                      Read(Decrypt(lb.key, Read(id.bytes, 0, Block)), 0, n))]

(* What picoquic_create_random_cnx_id fills: zeros after the length.  The  *)
(* rest of the first byte is fixed here, to a length that none has.        *)
Random(length) ==
  {[length |-> length, first |-> [rotation |-> 0, rest |-> MaxCid], bytes |-> b \o Zeros(MaxCid - length)] :
     b \in [1..(length - 1) -> Byte]}

(* Identifiers are compared over their length.                             *)
Same(x, y) ==
  x.length = y.length /\ x.first = y.first /\ Read(x.bytes, 0, x.length - 1) = Read(y.bytes, 0, y.length - 1)

(* picoquic_create_local_cnxid.  A value in use is drawn again, and after  *)
(* 32 times there is no identifier.                                        *)
CreateCid(c) ==
  \E random \in Random(quic.length) :
    LET id == Generated(quic.lb, random)
    IN  /\ \A x \in cids : ~Same(x.id, id)
        /\ cids' = cids \cup {[cnx |-> c, id |-> id, lb |-> quic.lb]}
        /\ UNCHANGED quic

(* A connection closes: its identifiers are deleted.                       *)
DeleteCnx(c) ==
  /\ \E x \in cids : x.cnx = c
  /\ cids' = {x \in cids : x.cnx # c} /\ UNCHANGED quic

-----------------------------------------------------------------------------
(* Configurations *)

(* picoquic_lb_compat_cid_config_parse of a text without stray characters. *)
(* A length of 0 is accepted.                                              *)
Parses(text) ==
  /\ Len(text.sid) > 0
  /\ text.method # "stream" => text.nonce = 0
  /\ text.keyed <=> text.method # "clear"
  /\ text.length # 0 =>
       text.length >= 1 + Len(text.sid) + text.nonce /\ (text.method = "block" => text.length > Block)

Parsed(text) ==
  [method |-> text.method, rotation |-> text.rotation, encodes |-> text.encodes, nonce |-> text.nonce,
   length |-> text.length, sidLength |-> Len(text.sid), value |-> ValueOf(text.sid), key |-> text.key]

(* What picoquic_lb_compat_cid_config verifies.                            *)
Supported(config) ==
  /\ config.length <= MaxCid
  /\ CASE config.method = "clear"  -> config.sidLength + 1 <= config.length
       [] config.method = "stream" ->
            config.nonce >= NonceMin /\ config.nonce <= Block
            /\ config.nonce + config.sidLength + 1 <= config.length
       [] config.method = "block"  -> config.length > Block /\ config.sidLength < Block
  /\ config.value < 2 ^ config.sidLength

Installed(config) ==
  [method |-> config.method, rotation |-> config.rotation, encodes |-> config.encodes,
   nonce |-> config.nonce, length |-> config.length, key |-> config.key,
   sid |-> BytesOf(config.value, config.sidLength)]

(* Mutant: the length changes under open connections. *)
Configure_AnyLength(config) ==
  /\ quic.lb = NoLb
  /\ Supported(config)
  /\ quic' = [length |-> config.length, lb |-> Installed(config)] /\ UNCHANGED cids

(* picoquic_lb_compat_cid_config, when it returns 0.                       *)
Configure(config) ==
  /\ cids = {} \/ quic.length = config.length
  /\ quic.lb = NoLb
  /\ Supported(config)
  /\ quic' = [length |-> config.length, lb |-> Installed(config)] /\ UNCHANGED cids

(* picoquic_lb_compat_cid_config_free, with connections or without.        *)
ConfigFree ==
  /\ quic.lb # NoLb
  /\ quic' = [quic EXCEPT !.lb = NoLb] /\ UNCHANGED cids

(* picoquic_set_default_connection_id_length, whatever is configured.      *)
SetLength(n) ==
  /\ n # quic.length /\ n <= MaxCid /\ cids = {}
  /\ quic' = [quic EXCEPT !.length = n] /\ UNCHANGED cids

LbInit == quic = [length |-> DefaultLength, lb |-> NoLb] /\ cids = {}

LbNext ==
  \/ \E c \in Cnxs : CreateCid(c) \/ DeleteCnx(c)
  \/ \E text \in Texts : Parses(text) /\ Configure(Parsed(text))
  \/ ConfigFree
  \/ \E n \in Lengths : SetLength(n)

LbSpec == LbInit /\ [][LbNext]_lbVars

-----------------------------------------------------------------------------
(* The balancer finds the server in every identifier made with its         *)
(* configuration, unless the application changed the length since; and     *)
(* stays able to after the configuration is freed or replaced.             *)
CidsRouted ==
  \A x \in cids : x.lb # NoLb /\ x.id.length = x.lb.length =>
    Verified(x.lb, x.id) = [server |-> ValueOf(x.lb.sid)] /\ x.id.first.rotation = x.lb.rotation

(* All identifiers have the length that the parser of short headers        *)
(* expects, the one that their first byte tells, and are distinct.         *)
CidsParsed ==
  \A x, y \in cids :
    /\ x.id.length = quic.length
    /\ x.lb # NoLb => (x.lb.encodes => x.id.first.rest = quic.length - 1)
    /\ Same(x.id, y.id) => x = y

LbSound == CidsRouted /\ CidsParsed
=============================================================================
