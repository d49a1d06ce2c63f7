---------------------------- MODULE CnxTables ----------------------------
(* The connection contexts of one process and the four tables by which a   *)
(* packet finds its context (quicctx.c, packet.c): by connection ID, by     *)
(* the peer's address when IDs have no length, by the Initial's ID, and by  *)
(* the secret of a stateless reset.  Contexts are made for Initials that    *)
(* find none and by the application, and may be deleted at any time; their  *)
(* paths, and the identifiers of both ends, come and go.                    *)
(*                                                                          *)
(* A connection ID is <<context, sequence number>>: random ones differ.  So *)
(* are the peer's IDs, each with the secret that came with it.  An address  *)
(* is the peer's; several paths may have it, with other local addresses.    *)
EXTENDS Naturals, Sequences, SequencesExt, FiniteSets

CONSTANTS
  Modes,        (* [zero |-> quic->local_cnxid_length is zero,               *)
                (*  multi |-> paths are deleted as for multipath]            *)
  Addrs, Icids,
  MaxHalfOpen,  (* quic->max_half_open_before_retry                          *)
  MaxCnx,       (* bound: contexts made                                      *)
  MaxPaths,     (* PICOQUIC_NB_PATH_TARGET                                   *)
  MaxSecrets,   (* bound: connection IDs of a peer after its first           *)
  MaxChanges    (* bound: paths, connection IDs and renewals after the first *)

VARIABLES
  mode,
  quic,         (* contexts, tables, current_number_half_open, check_token   *)
  changes,      (* bounded                                                   *)
  resets        (* IDs for which a stateless reset was sent                  *)

vars == <<mode, quic, changes, resets>>

Ids == 1..MaxCnx
None == [addr |-> 0, key |-> <<0, 0>>]

NoCnx == [state |-> "none", client |-> FALSE, half |-> FALSE, ready |-> FALSE,
          icid_key |-> None, secret_key |-> None, paths |-> <<>>, cids |-> {},
          nextPath |-> 0, nextCid |-> 0, nextSecret |-> 0]

Gone(x) == [NoCnx EXCEPT !.state = "gone", !.nextCid = x.nextCid]

Live(q) == {c \in Ids : q.cnx[c].state = "live"}
Path(q, c, i) == q.cnx[c].paths[i]

-----------------------------------------------------------------------------
(* Entries of the tables *)

(* A mutant: what is there is overwritten.                                  *)
RegisterNet_Takes(q, c, addr) ==
  [q EXCEPT !.by_net = {e \in @ : e.addr # addr}
                       \cup {[addr |-> addr, cnx |-> c, path |-> Path(q, c, 1).seq]}]

(* picoquic_register_path: the key belongs to the first path, and the first *)
(* one that registers an address has it.                                    *)
RegisterNet(q, c, addr) ==
  IF \E e \in q.by_net : e.addr = addr THEN q
  ELSE [q EXCEPT !.by_net = @ \cup {[addr |-> addr, cnx |-> c, path |-> Path(q, c, 1).seq]}]

(* picoquic_register_net_secret: the new key comes before the old one goes. *)
RegisterSecret(q, c) ==
  LET key == [addr |-> Path(q, c, 1).addr, key |-> Path(q, c, 1).secret]
  IN IF \E e \in q.by_secret : e.key = key THEN q
     ELSE [q EXCEPT !.by_secret = {e \in @ : e.key # q.cnx[c].secret_key}
                                  \cup {[key |-> key, cnx |-> c]},
                    !.cnx[c].secret_key = key]

(* picoquic_register_net_icid, and whether it fails.                        *)
IcidTaken(q, key) == \E e \in q.by_icid : e.key = key
RegisterIcid(q, c, key) ==
  [q EXCEPT !.by_icid = @ \cup {[key |-> key, cnx |-> c]}, !.cnx[c].icid_key = key]

(* picoquic_create_local_cnxid and picoquic_register_cnx_id.                *)
NewCid(q, c) ==
  LET cid == <<c, q.cnx[c].nextCid>>
  IN [q EXCEPT !.cnx[c].cids = @ \cup {cid}, !.cnx[c].nextCid = @ + 1,
               !.by_id = IF mode.zero THEN @ ELSE @ \cup {[cid |-> cid, cnx |-> c]}]

(* picoquic_delete_local_cnxid.                                             *)
RetireCid(q, c, cid) ==
  [q EXCEPT !.cnx[c].cids = @ \ {cid}, !.by_id = {e \in @ : e.cid # cid}]

-----------------------------------------------------------------------------
(* Paths *)

(* History: whether another context had the address.                        *)
AddPath(q, c, addr, secret) ==
  LET path == [seq |-> q.cnx[c].nextPath, addr |-> addr, secret |-> secret, demoted |-> FALSE,
               taken |-> \E e \in q.by_net : e.addr = addr /\ e.cnx # c]
  IN [q EXCEPT !.cnx[c].paths = Append(@, path), !.cnx[c].nextPath = @ + 1]

(* picoquic_delete_path for the paths with sequence numbers S: with a path  *)
(* go the keys it owns.                                                     *)
DeletePaths(q, c, S) ==
  [q EXCEPT !.cnx[c].paths = SelectSeq(@, LAMBDA p : p.seq \notin S),
            !.by_net = {e \in @ : ~(e.cnx = c /\ e.path \in S)}]

(* A remote connection ID from the stash; its number is used up.            *)
HasSecret(q, c) == q.cnx[c].nextSecret <= MaxSecrets
TakeSecret(q, c) == [q EXCEPT !.cnx[c].nextSecret = @ + 1]
NextSecret(q, c) == <<c, q.cnx[c].nextSecret>>

-----------------------------------------------------------------------------
(* Contexts *)

(* A mutant: the secret's key is left in the table.                         *)
Delete_KeepsSecret(q, c) ==
  [q EXCEPT !.half_open = IF q.cnx[c].half THEN @ - 1 ELSE @,
            !.by_icid = {e \in @ : e.key # q.cnx[c].icid_key},
            !.by_net = {e \in @ : e.cnx # c},
            !.by_id = {e \in @ : e.cid \notin q.cnx[c].cids},
            !.cnx[c] = Gone(q.cnx[c])]

(* picoquic_delete_cnx, picoquic_remove_cnx_from_list.                      *)
Delete(q, c) ==
  LET noPaths == DeletePaths(q, c, {p.seq : p \in ToSet(q.cnx[c].paths)})
  IN [noPaths EXCEPT
        !.half_open = IF q.cnx[c].half THEN @ - 1 ELSE @,
        !.by_icid = {e \in @ : e.key # q.cnx[c].icid_key},
        !.by_secret = {e \in @ : e.key # q.cnx[c].secret_key},
        !.by_id = {e \in @ : e.cid \notin q.cnx[c].cids},
        !.cnx[c] = Gone(q.cnx[c])]

(* picoquic_create_cnx.  The peer of a server has an Initial's ID and a     *)
(* random secret.  A context whose icid is taken, or for which TLS fails,   *)
(* is deleted again.                                                        *)
Create(q, c, client, addr, icid) ==
  LET new == [q EXCEPT !.cnx[c] = [NoCnx EXCEPT !.state = "live", !.client = client,
                                                !.half = ~client, !.nextSecret = 1]]
      path == AddPath(NewCid(new, c), c, addr, <<c, 0>>)
      net == RegisterNet(path, c, addr)
      half == IF client THEN net
              ELSE [net EXCEPT !.half_open = @ + 1,
                               !.check_token = @ \/ net.half_open + 1 > MaxHalfOpen]
  IN IF client \/ mode.zero THEN half
     ELSE IF IcidTaken(half, [addr |-> addr, key |-> icid]) THEN Delete(half, c)
     ELSE RegisterIcid(half, c, [addr |-> addr, key |-> icid])

-----------------------------------------------------------------------------
(* The context of a packet *)

ByNet(addr) == {e.cnx : e \in {x \in quic.by_net : x.addr = addr}}
ById(cid) == {e.cnx : e \in {x \in quic.by_id : x.cid = cid}}
ByIcid(addr, icid) == {e.cnx : e \in {x \in quic.by_icid : x.key = [addr |-> addr, key |-> icid]}}
BySecret(addr, secret) ==
  {e.cnx : e \in {x \in quic.by_secret : x.key = [addr |-> addr, key |-> secret]}}

(* picoquic_parse_short_packet_header, and long headers after the client    *)
(* has learned the server's ID.                                             *)
Finds(addr, cid) == IF mode.zero THEN ByNet(addr) ELSE ById(cid)
(* picoquic_parse_long_packet_header, Initial and 0-RTT with the first ID.  *)
FindsInitial(addr, icid) == IF mode.zero THEN ByNet(addr) ELSE ByIcid(addr, icid)

-----------------------------------------------------------------------------
(* Actions *)

Init ==
  /\ mode \in Modes
  /\ quic = [cnx |-> [c \in Ids |-> NoCnx], by_id |-> {}, by_net |-> {}, by_icid |-> {},
             by_secret |-> {}, half_open |-> 0, check_token |-> FALSE]
  /\ changes = 0 /\ resets = {}

Fresh(c) == quic.cnx[c].state = "none" /\ \A b \in Ids : b < c => quic.cnx[b].state # "none"
Step(q) == quic' = q /\ UNCHANGED <<mode, changes, resets>>
Change(q) ==
  changes < MaxChanges /\ changes' = changes + 1 /\ quic' = q /\ UNCHANGED <<mode, resets>>

(* An Initial that finds no context makes one, which does not outlive the   *)
(* packet when it cannot be decrypted, is answered by a Retry or fails      *)
(* (picoquic_parse_header_and_decrypt, picoquic_incoming_client_initial).   *)
IncomingInitial(c, addr, icid, ok) ==
  /\ Fresh(c) /\ FindsInitial(addr, icid) = {}
  /\ LET q == Create(quic, c, FALSE, addr, icid)
     IN Step(IF ok \/ q.cnx[c].state # "live" THEN q ELSE Delete(q, c))

CreateClient(c, addr) == Fresh(c) /\ Step(Create(quic, c, TRUE, addr, <<0, 0>>))

DeleteCnx(c) == c \in Live(quic) /\ Step(Delete(quic, c))

(* picoquic_ready_state_transition.                                         *)
Ready(c) ==
  /\ c \in Live(quic) /\ ~quic.cnx[c].ready
  /\ LET q == RegisterSecret([quic EXCEPT !.cnx[c].ready = TRUE, !.cnx[c].half = FALSE], c)
         left == q.half_open - 1
     IN Step(IF ~quic.cnx[c].half THEN q
             ELSE [q EXCEPT !.half_open = left,
                            !.check_token = IF left < MaxHalfOpen THEN FALSE ELSE @])

(* A path is probed (picoquic_probe_new_path_ex), with a remote ID of its   *)
(* own, or a packet comes from where none came before                       *)
(* (picoquic_find_incoming_path), perhaps with that of another path.        *)
NewPath(c, addr) ==
  /\ c \in Live(quic) /\ quic.cnx[c].ready /\ Len(quic.cnx[c].paths) < MaxPaths
  /\ \/ /\ HasSecret(quic, c)
        /\ Change(RegisterNet(TakeSecret(AddPath(quic, c, addr, NextSecret(quic, c)), c), c, addr))
     \/ /\ ~HasSecret(quic, c)
        /\ c \in Finds(addr, <<c, 0>>) \/ (~mode.zero /\ quic.cnx[c].cids # {})
        /\ \E p \in ToSet(quic.cnx[c].paths) :
             Change(RegisterNet(AddPath(quic, c, addr, p.secret), c, addr))

(* picoquic_demote_path, of a path that failed or was abandoned.            *)
Demote(c, i) ==
  /\ c \in Live(quic) /\ i \in DOMAIN quic.cnx[c].paths
  /\ i > 1 \/ mode.multi
  /\ ~Path(quic, c, i).demoted
  /\ Step([quic EXCEPT !.cnx[c].paths[i].demoted = TRUE])

(* picoquic_promote_path_to_default.                                        *)
Promote(c, i) ==
  /\ c \in Live(quic) /\ ~mode.multi
  /\ i \in DOMAIN quic.cnx[c].paths /\ i > 1 /\ ~Path(quic, c, i).demoted
  /\ LET old == [Path(quic, c, 1) EXCEPT !.demoted = TRUE]
     IN Step(RegisterSecret([quic EXCEPT !.cnx[c].paths[1] = Path(quic, c, i),
                                         !.cnx[c].paths[i] = old], c))

(* picoquic_delete_abandoned_paths, for paths whose time has come.  When    *)
(* none is left the connection ends (MultiPath).                            *)
DeleteAbandoned(c, S) ==
  /\ c \in Live(quic) /\ S # {}
  /\ \A i \in S : i \in DOMAIN quic.cnx[c].paths /\ Path(quic, c, i).demoted
  /\ S # DOMAIN quic.cnx[c].paths
  /\ 1 \in S => mode.multi
  /\ Step(DeletePaths(quic, c, {Path(quic, c, i).seq : i \in S}))

(* picoquic_renew_path_connection_id.                                       *)
Renew(c, i) ==
  /\ c \in Live(quic) /\ quic.cnx[c].ready
  /\ i \in DOMAIN quic.cnx[c].paths /\ HasSecret(quic, c)
  /\ LET q == TakeSecret([quic EXCEPT !.cnx[c].paths[i].secret = NextSecret(quic, c)], c)
     IN Change(IF i = 1 THEN RegisterSecret(q, c) ELSE q)

AddCid(c) ==
  /\ c \in Live(quic) /\ quic.cnx[c].ready /\ Change(NewCid(quic, c))
Retire(c, cid) ==
  /\ c \in Live(quic) /\ cid \in quic.cnx[c].cids /\ quic.cnx[c].ready
  /\ Step(RetireCid(quic, c, cid))

(* picoquic_process_unexpected_cnxid: a packet for an ID that some context  *)
(* had finds none by it, nor by its last bytes.                             *)
SendReset(cid) ==
  /\ ~mode.zero /\ ById(cid) = {} /\ cid[2] < quic.cnx[cid[1]].nextCid
  /\ resets' = resets \cup {cid}
  /\ UNCHANGED <<mode, quic, changes>>

Next ==
  \/ \E c \in Ids, addr \in Addrs :
       \/ CreateClient(c, addr) \/ NewPath(c, addr)
       \/ \E icid \in Icids, ok \in BOOLEAN : IncomingInitial(c, addr, icid, ok)
  \/ \E c \in Ids : DeleteCnx(c) \/ Ready(c) \/ AddCid(c)
  \/ \E c \in Ids, i \in 1..MaxPaths : Demote(c, i) \/ Promote(c, i) \/ Renew(c, i)
  \/ \E c \in Ids, S \in SUBSET (1..MaxPaths) : DeleteAbandoned(c, S)
  \/ \E c \in Ids, n \in 0..MaxChanges : Retire(c, <<c, n>>) \/ SendReset(<<c, n>>)

Spec == Init /\ [][Next]_vars

-----------------------------------------------------------------------------
(* Properties *)

(* No table names a context or a path that is gone.                         *)
NothingStale ==
  /\ \A e \in quic.by_id : e.cnx \in Live(quic) /\ e.cid \in quic.cnx[e.cnx].cids
  /\ \A e \in quic.by_net :
       /\ e.cnx \in Live(quic)
       /\ \E p \in ToSet(quic.cnx[e.cnx].paths) : p.seq = e.path
  /\ \A e \in quic.by_icid \cup quic.by_secret : e.cnx \in Live(quic)

(* A packet that the peer sends finds its context: by any ID the context    *)
(* has given out, by the first ID of a client for as long as the server has *)
(* the context, so that an Initial that is repeated makes no second one,    *)
(* and without IDs by the address of a path, unless another context had it  *)
(* first, or the first path is gone and took the keys with it.              *)
EveryContextFound ==
  \A c \in Live(quic) :
    LET x == quic.cnx[c]
    IN IF mode.zero
       THEN \A p \in ToSet(x.paths) :
              \/ c \in ByNet(p.addr)
              \/ p.taken
              \/ \A r \in ToSet(x.paths) : r.seq # 0
       ELSE /\ \A cid \in x.cids : Finds(0, cid) = {c}
            /\ ~x.client => FindsInitial(x.icid_key.addr, x.icid_key.key) = {c}

(* The peer's stateless reset of the connection, from the address and with  *)
(* the secret of its default path, finds it through migrations and changed  *)
(* IDs, and an outdated secret does not; with multipath a default path that *)
(* is deleted leaves its secret behind.                                     *)
SecretsCurrent ==
  ~mode.multi =>
    \A c \in Live(quic) :
      {e.key : e \in {x \in quic.by_secret : x.cnx = c}} =
        IF quic.cnx[c].ready
        THEN {[addr |-> Path(quic, c, 1).addr, key |-> Path(quic, c, 1).secret]}
        ELSE {}

(* A connection ID that is in use is never answered by a stateless reset,   *)
(* nor one that was comes into use again.                                   *)
NoneReset == \A c \in Live(quic) : quic.cnx[c].cids \cap resets = {}

(* The contexts whose handshake has not ended are counted, whichever way    *)
(* they end, and when there are too many a Retry is asked for.              *)
HalfOpenCounted ==
  /\ quic.half_open = Cardinality({c \in Live(quic) : quic.cnx[c].half})
  /\ quic.half_open > MaxHalfOpen => quic.check_token

TablesSound ==
  NothingStale /\ EveryContextFound /\ SecretsCurrent /\ NoneReset /\ HalfOpenCounted
=============================================================================
