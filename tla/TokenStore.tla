----------------------------- MODULE TokenStore -----------------------------
(* Address validation tokens: the client's store and its file               *)
(* (token_store.c), and the server that makes and checks them (tls_api.c)   *)
(* and remembers the used ones (quicctx.c).  Initials are repeated and      *)
(* delayed by the network; the client program exits and saves, or crashes,  *)
(* and starts again.                                                        *)
(*                                                                          *)
(* A token is what the server encrypted in it, its random number n, and the *)
(* address it authenticates.  Time is counted in lives of a token.          *)
EXTENDS Integers

CONSTANTS
  Addrs,        (* addresses of the client                                   *)
  CheckToken,   (* quic->check_token: an Initial without a token is retried  *)
  MaxCnx,       (* bound: connections the client starts                      *)
  MaxTokens,    (* bound: tokens the server makes                            *)
  MaxTime       (* bound: clock                                              *)

VARIABLES
  now,
  up,           (* the client program runs                                   *)
  tokens,       (* quic->p_first_token, the client's list                    *)
  disk,         (* the file                                                  *)
  cnx,          (* the client's connections                                  *)
  net,          (* Initials and NEW_TOKEN frames; they may arrive again      *)
  contexts,     (* the server's connection contexts, by initial CID          *)
  reuse,        (* quic->token_reuse_tree                                    *)
  made,         (* tokens made by the server so far                          *)
  proofs        (* history: contexts, and what validated them                *)

serverVars == <<contexts, reuse, made, proofs>>
vars == <<now, up, tokens, disk, cnx, net, serverVars>>

Ids == 1..MaxCnx
NoToken == [n |-> 0, new |-> TRUE, addr |-> 0, time |-> 0, c |-> 0]
Life == 1           (* a day: picoquic_store_token                           *)
LongDelay == 1      (* PICOQUIC_TOKEN_DELAY_LONG, to which                   *)
TokenLife == 1      (* picoquic_prepare_retry_token adds a day once more     *)
RetryLife == 0      (* two minutes and four seconds                          *)

-----------------------------------------------------------------------------
(* The client's store *)

(* picoquic_store_token puts a token in front and drops what does not last  *)
(* longer: what is behind a token lasts longer, and the set has no need of  *)
(* an order.                                                                *)
Stored(e) == {e} \cup {o \in tokens : o.until > e.until}

(* picoquic_get_token without an address: of the unused ones the one that   *)
(* lasts longest.                                                           *)
Usable == {e \in tokens : e.until > now /\ ~e.used}
Best(e) == e \in Usable /\ \A o \in Usable : o.until <= e.until

(* picoquic_save_tokens; picoquic_load_tokens drops what has expired since. *)
Saved == {e \in tokens : e.until > now /\ ~e.used}
Loaded == {e \in disk : e.until >= now}

-----------------------------------------------------------------------------
(* The server's tokens *)

Token(new, addr, c) ==
  [n |-> made + 1, new |-> new, addr |-> addr, c |-> c,
   time |-> IF new THEN now + LongDelay + TokenLife ELSE now + RetryLife]

(* picoquic_verify_retry_token: an expired token is never registered, what  *)
(* has expired is cleared first, and a retry token belongs to the ID that   *)
(* the Retry gave.                                                          *)
Cleared == {t \in reuse : t.time >= now}
Decrypts(m) == m.token.addr = m.addr /\ m.token.time >= now

(* A mutant: only the tokens of NEW_TOKEN frames are registered.            *)
Registered_LongOnly(m) ==
  IF Decrypts(m) THEN Cleared \cup (IF m.token.new THEN {m.token} ELSE {}) ELSE reuse

Registered(m) == IF Decrypts(m) THEN Cleared \cup {m.token} ELSE reuse
Verifies(m) ==
  /\ Decrypts(m)
  /\ m.token \notin Cleared
  /\ m.token.new \/ (m.retried /\ m.token.c = m.c)

-----------------------------------------------------------------------------
(* Actions of the client *)

NoCnx == [state |-> "none", addr |-> 0, retried |-> FALSE]

Init ==
  /\ now = 0 /\ up = TRUE /\ tokens = {} /\ disk = {}
  /\ cnx = [c \in Ids |-> NoCnx] /\ net = {}
  /\ contexts = {} /\ reuse = {} /\ made = 0 /\ proofs = {}

Initial(c, addr, token, retried) ==
  [kind |-> "initial", c |-> c, addr |-> addr, token |-> token, retried |-> retried]

(* The first Initial of a connection takes a token.                         *)
Connect(c, addr) ==
  /\ up /\ cnx[c].state = "none"
  /\ \A b \in Ids : b < c => cnx[b].state # "none"
  /\ cnx' = [cnx EXCEPT ![c] = [state |-> "started", addr |-> addr, retried |-> FALSE]]
  /\ \/ /\ Usable = {}
        /\ net' = net \cup {Initial(c, addr, NoToken, FALSE)}
        /\ tokens' = tokens
     \/ \E e \in tokens :
          /\ Best(e)
          /\ net' = net \cup {Initial(c, addr, e.token, FALSE)}
          /\ tokens' = (tokens \ {e}) \cup {[token |-> e.token, until |-> e.until, used |-> TRUE]}
  /\ UNCHANGED <<now, up, disk, serverVars>>

(* picoquic_incoming_retry: the token comes back in a new Initial.          *)
ReceiveRetry(c, m) ==
  /\ m \in net /\ m.kind = "retry" /\ m.token.c = c
  /\ cnx[c].state = "started" /\ ~cnx[c].retried
  /\ cnx' = [cnx EXCEPT ![c].retried = TRUE]
  /\ net' = net \cup {Initial(c, cnx[c].addr, m.token, TRUE)}
  /\ UNCHANGED <<now, up, tokens, disk, serverVars>>

(* The handshake of a connection whose Initial has a context; the server    *)
(* sends a NEW_TOKEN frame (picoquic_false_start_transition).               *)
Complete(c) ==
  /\ cnx[c].state = "started" /\ made < MaxTokens
  /\ [c |-> c, retried |-> cnx[c].retried] \in contexts
  /\ cnx' = [cnx EXCEPT ![c].state = "ready"]
  /\ net' = net \cup {[kind |-> "new_token", c |-> c, token |-> Token(TRUE, cnx[c].addr, c)]}
  /\ made' = made + 1
  /\ UNCHANGED <<now, up, tokens, disk, contexts, reuse, proofs>>

(* picoquic_decode_new_token_frame, also for a frame that was repeated.     *)
ReceiveToken(c, m) ==
  /\ m \in net /\ m.kind = "new_token" /\ m.c = c /\ cnx[c].state = "ready"
  /\ tokens' = Stored([token |-> m.token, until |-> now + Life, used |-> FALSE])
  /\ UNCHANGED <<now, up, disk, cnx, net, serverVars>>

(* The program saves its store when it ends, or it crashes.                *)
Gone == [c \in Ids |-> IF cnx[c].state = "none" THEN NoCnx ELSE [cnx[c] EXCEPT !.state = "closed"]]
Exit ==
  /\ up /\ up' = FALSE /\ disk' = Saved
  /\ tokens' = {} /\ cnx' = Gone
  /\ UNCHANGED <<now, net, serverVars>>
Crash ==
  /\ up /\ up' = FALSE
  /\ tokens' = {} /\ cnx' = Gone
  /\ UNCHANGED <<now, disk, net, serverVars>>
Start ==
  /\ ~up /\ up' = TRUE
  /\ tokens' = Loaded
  /\ UNCHANGED <<now, disk, cnx, net, serverVars>>

-----------------------------------------------------------------------------
(* Actions of the server *)

(* picoquic_incoming_client_initial, always for a new context: one that     *)
(* exists has left server_init.  A retry token that is wrong ends the       *)
(* attempt; any other wrong token counts as none.                           *)
IncomingInitial(m) ==
  /\ m \in net /\ m.kind = "initial"
  /\ [c |-> m.c, retried |-> m.retried] \notin contexts
  /\ LET has == m.token # NoToken
         right == has /\ Verifies(m)
         id == [c |-> m.c, retried |-> m.retried]
     IN /\ reuse' = IF has THEN Registered(m) ELSE reuse
        /\ \/ /\ has /\ ~right /\ ~m.token.new           (* INVALID_TOKEN    *)
              /\ UNCHANGED <<net, contexts, made, proofs>>
           \/ /\ ~right /\ m.token.new /\ CheckToken     (* Retry            *)
              /\ made < MaxTokens /\ made' = made + 1
              /\ net' = net \cup {[kind |-> "retry", token |-> Token(FALSE, m.addr, m.c)]}
              /\ UNCHANGED <<contexts, proofs>>
           \/ /\ right \/ (m.token.new /\ ~CheckToken)
              /\ contexts' = contexts \cup {id}
              /\ proofs' = IF right THEN proofs \cup {[id |-> id, token |-> m.token,
                            addr |-> m.addr, at |-> now,
                            before |-> {p \in proofs : p.token = m.token}]}
                           ELSE proofs
              /\ UNCHANGED <<net, made>>
  /\ UNCHANGED <<now, up, tokens, disk, cnx>>

DeleteContext(id) ==
  /\ id \in contexts /\ contexts' = contexts \ {id}
  /\ UNCHANGED <<now, up, tokens, disk, cnx, net, reuse, made, proofs>>

Tick == now < MaxTime /\ now' = now + 1
        /\ UNCHANGED <<up, tokens, disk, cnx, net, serverVars>>

Next ==
  \/ \E c \in Ids, addr \in Addrs : Connect(c, addr)
  \/ \E c \in Ids, m \in net : ReceiveRetry(c, m) \/ ReceiveToken(c, m)
  \/ \E c \in Ids : Complete(c)
  \/ \E m \in net : IncomingInitial(m)
  \/ \E id \in contexts : DeleteContext(id)
  \/ Exit \/ Crash \/ Start \/ Tick

Spec == Init /\ [][Next]_vars

-----------------------------------------------------------------------------
(* Properties *)

(* A token proves an address once: every context that a token validated has *)
(* the address the token was made for, the token was alive, and no other    *)
(* context was ever validated by it, although the client may store a token  *)
(* that comes twice, load one from before a crash, and Initials come again  *)
(* when their context is gone.  A retry token proves only the connection    *)
(* that was retried.                                                        *)
TokensProveOnce ==
  /\ \A p \in proofs : p.addr = p.token.addr /\ p.at <= p.token.time
  /\ \A p, q \in proofs : p.token.n = q.token.n => p = q
  /\ \A p \in proofs : ~p.token.new => p.id.retried /\ p.id.c = p.token.c
=============================================================================
