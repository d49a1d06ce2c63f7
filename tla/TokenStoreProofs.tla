-------------------------- MODULE TokenStoreProofs --------------------------
(* A token proves an address once, for any number of connections, tokens    *)
(* and addresses and any run of the clock.                                  *)
EXTENDS TokenStore, TLAPS

(* Where tokens are.                                                        *)
AllTokens ==
  {e.token : e \in tokens} \cup {e.token : e \in disk} \cup {m.token : m \in net}
    \cup reuse \cup {p.token : p \in proofs}

(* A token that is anywhere was made, and its number names it.              *)
Numbered ==
  /\ now \in Nat /\ made \in Nat
  /\ \A t \in AllTokens : t.n \in 0..made /\ t.time \in Nat
  /\ \A t \in AllTokens : t.n = 0 => t = NoToken
  /\ \A t, u \in AllTokens : t.n = u.n => t = u

(* A token that validated a context is remembered until it has expired.     *)
Remembered ==
  \A p \in proofs : /\ p.token # NoToken
                    /\ p.token \in reuse \/ p.token.time < now

IndInv == Numbered /\ Remembered /\ TokensProveOnce

-----------------------------------------------------------------------------
(* The tokens of the next state are those of this one, and at most one that *)
(* is made by the step.                                                     *)
LEMMA NumberedStep ==
  ASSUME Numbered, NEW t0, now' \in {now, now + 1},
         AllTokens' \subseteq AllTokens \cup {NoToken, t0},
         \/ made' = made /\ t0 = NoToken
         \/ made' = made + 1 /\ t0.n = made + 1 /\ t0.time \in Nat
  PROVE  Numbered'
<1> NoToken.n = 0 /\ NoToken.time = 0
  BY DEF NoToken
<1>1. now' \in Nat /\ made' \in Nat /\ made <= made'
  BY DEF Numbered
<1>2. \A t \in AllTokens' : t \in AllTokens \/ t = NoToken \/ t = t0
  OBVIOUS
<1>3. \A t \in AllTokens' : /\ t.n \in 0..made' /\ t.time \in Nat
                            /\ t.n = 0 => t = NoToken
  BY <1>1, <1>2 DEF Numbered
<1>4. ASSUME NEW t \in AllTokens', NEW u \in AllTokens', t.n = u.n
      PROVE  t = u
  <2>1. CASE t \in AllTokens /\ u \in AllTokens
    BY <1>4, <2>1 DEF Numbered
  <2>2. CASE t = NoToken \/ u = NoToken
    BY <1>3, <1>4, <2>2
  <2>3. CASE t = t0 /\ u \in AllTokens
    BY <1>3, <1>4, <2>3 DEF Numbered
  <2>4. CASE u = t0 /\ t \in AllTokens
    BY <1>3, <1>4, <2>4 DEF Numbered
  <2>5. QED
    BY <1>2, <2>1, <2>2, <2>3, <2>4
<1>5. QED
  BY <1>1, <1>3, <1>4 DEF Numbered

(* The same for a step that changes neither what the server knows nor the   *)
(* clock.                                                                   *)
LEMMA ClientStep ==
  ASSUME IndInv, UNCHANGED <<now, serverVars>>,
         AllTokens' \subseteq AllTokens \cup {NoToken}
  PROVE  IndInv'
<1>1. Numbered'
  BY NumberedStep DEF IndInv, serverVars
<1>2. QED
  BY <1>1 DEF IndInv, Remembered, TokensProveOnce, serverVars

(* The invariant holds before any connection.                              *)
LEMMA InitInd == Init => IndInv
  BY DEF Init, IndInv, Numbered, AllTokens, Remembered, TokensProveOnce

(* A client that connects sends a token that it holds, if any.             *)
LEMMA ConnectInd ==
  ASSUME IndInv, NEW c, NEW addr, Connect(c, addr)
  PROVE  IndInv'
<1>1. PICK t \in AllTokens \cup {NoToken} : net' = net \cup {Initial(c, addr, t, FALSE)}
  BY DEF Connect, AllTokens
<1>2. \A e \in tokens' : \E o \in tokens : e.token = o.token
  <2>1. CASE tokens' = tokens
    BY <2>1
  <2>2. ASSUME NEW e \in tokens,
               tokens' = (tokens \ {e}) \cup {[token |-> e.token, until |-> e.until, used |-> TRUE]}
        PROVE  \A f \in tokens' : \E o \in tokens : f.token = o.token
    BY <2>2
  <2>3. QED
    BY <2>1, <2>2 DEF Connect
<1>3. UNCHANGED <<now, disk, serverVars>>
  BY DEF Connect
<1>4. \A m \in net' : m.token \in AllTokens \cup {NoToken}
  BY <1>1 DEF Initial, AllTokens
<1>5. AllTokens' \subseteq AllTokens \cup {NoToken}
  BY <1>2, <1>3, <1>4 DEF AllTokens, serverVars
<1>6. QED
  BY <1>3, <1>5, ClientStep

(* A client that is retried repeats its Initial with the token of the      *)
(* Retry.                                                                  *)
LEMMA RetryInd ==
  ASSUME IndInv, NEW c, NEW m \in net, ReceiveRetry(c, m)
  PROVE  IndInv'
<1>1. UNCHANGED <<now, tokens, disk, serverVars>>
  BY DEF ReceiveRetry
<1>2. \A x \in net' : x.token \in AllTokens
  BY DEF ReceiveRetry, Initial, AllTokens
<1>3. AllTokens' \subseteq AllTokens \cup {NoToken}
  BY <1>1, <1>2 DEF AllTokens, serverVars
<1>4. QED
  BY <1>1, <1>3, ClientStep

(* A NEW_TOKEN frame is stored as it came.                                 *)
LEMMA TokenInd ==
  ASSUME IndInv, NEW c, NEW m \in net, ReceiveToken(c, m)
  PROVE  IndInv'
<1>1. /\ \A e \in tokens' : e \in tokens \/ e.token = m.token
      /\ UNCHANGED <<now, disk, net, serverVars>>
  BY DEF ReceiveToken, Stored
<1>2. AllTokens' \subseteq AllTokens \cup {NoToken}
  BY <1>1 DEF AllTokens, serverVars
<1>3. QED
  BY <1>1, <1>2, ClientStep DEF IndInv

(* Saving, crashing and loading bring no token that was not there.         *)
LEMMA ProgramInd ==
  ASSUME IndInv, Exit \/ Crash \/ Start
  PROVE  IndInv'
<1>1. AllTokens' \subseteq AllTokens \cup {NoToken}
  BY DEF Exit, Crash, Start, Saved, Loaded, AllTokens, serverVars
<1>2. QED
  BY <1>1, ClientStep DEF Exit, Crash, Start, IndInv

(* A handshake that completes makes a token with a number of its own.      *)
LEMMA CompleteInd ==
  ASSUME IndInv, NEW c, Complete(c)
  PROVE  IndInv'
<1> DEFINE t0 == Token(TRUE, cnx[c].addr, c)
<1>1. t0.n = made + 1 /\ t0.time \in Nat
  BY DEF Token, IndInv, Numbered, LongDelay, TokenLife
<1>2. /\ net' = net \cup {[kind |-> "new_token", c |-> c, token |-> t0]}
      /\ made' = made + 1 /\ UNCHANGED <<now, tokens, disk, reuse, proofs>>
  BY DEF Complete
<1> HIDE DEF t0
<1>3. AllTokens' \subseteq AllTokens \cup {NoToken, t0}
  BY <1>2 DEF AllTokens
<1>4. Numbered'
  BY <1>1, <1>2, <1>3, NumberedStep DEF IndInv
<1>5. QED
  BY <1>2, <1>4 DEF IndInv, Remembered, TokensProveOnce

(* A token that was registered is not cleared while it decrypts.            *)
LEMMA RegisteredKeeps ==
  ASSUME IndInv, NEW m \in net, NEW p \in proofs
  PROVE  p.token \in Registered(m) \/ p.token.time < now
<1>1. p.token \in AllTokens
  BY DEF AllTokens
<1>2. QED
  BY <1>1 DEF Registered, Cleared, IndInv, Numbered, Remembered

(* An Initial whose token is good starts a context: its number goes to the *)
(* reuse list, in which it was not.                                        *)
LEMMA InitialInd ==
  ASSUME IndInv, NEW m \in net, IncomingInitial(m)
  PROVE  IndInv'
<1> DEFINE has == m.token # NoToken
           id == [c |-> m.c, retried |-> m.retried]
           t0 == Token(FALSE, m.addr, m.c)
           proof == [id |-> id, token |-> m.token, addr |-> m.addr, at |-> now,
                     before |-> {p \in proofs : p.token = m.token}]
<1>1. m.token \in AllTokens
  BY DEF AllTokens
<1>2. /\ reuse' = IF has THEN Registered(m) ELSE reuse
      /\ UNCHANGED <<now, tokens, disk>>
  BY DEF IncomingInitial
<1>3. reuse' \subseteq AllTokens
  BY <1>1, <1>2 DEF Registered, Cleared, AllTokens
<1>4. \A p \in proofs : p.token # NoToken /\ (p.token \in reuse' \/ p.token.time < now)
  BY <1>2, RegisteredKeeps DEF IndInv, Remembered
<1>5. t0.n = made + 1 /\ t0.time \in Nat
  BY DEF Token, IndInv, Numbered, RetryLife
<1>6. CASE proofs' = proofs
  <2>1. CASE UNCHANGED <<net, made>>
    <3>1. AllTokens' \subseteq AllTokens \cup {NoToken}
      BY <1>2, <1>3, <1>6, <2>1 DEF AllTokens
    <3>2. Numbered'
      BY <1>2, <2>1, <3>1, NumberedStep DEF IndInv
    <3>3. QED
      BY <1>2, <1>4, <1>6, <2>1, <3>2 DEF IndInv, Remembered, TokensProveOnce
  <2>2. CASE made' = made + 1 /\ net' = net \cup {[kind |-> "retry", token |-> t0]}
    <3> HIDE DEF t0
    <3>1. \A x \in net' : x \in net \/ (x.kind = "retry" /\ x.token = t0)
      BY <2>2
    <3>2. AllTokens' \subseteq AllTokens \cup {NoToken, t0}
      BY <1>2, <1>3, <1>6, <3>1 DEF AllTokens
    <3>3. Numbered'
      BY <1>2, <1>5, <2>2, <3>2, NumberedStep DEF IndInv
    <3>4. QED
      BY <1>2, <1>4, <1>6, <3>3 DEF IndInv, Remembered, TokensProveOnce
  <2>3. QED
    BY <1>6, <2>1, <2>2 DEF IncomingInitial
<1>7. CASE /\ has /\ Verifies(m) /\ proofs' = proofs \cup {proof}
           /\ UNCHANGED <<net, made>>
  <2>1. m.token \in reuse'
    BY <1>2, <1>7 DEF Verifies, Registered
  <2>2. AllTokens' \subseteq AllTokens \cup {NoToken}
    BY <1>1, <1>2, <1>3, <1>7 DEF AllTokens
  <2>3. Numbered'
    BY <1>2, <1>7, <2>2, NumberedStep DEF IndInv
  <2>4. Remembered'
    BY <1>2, <1>4, <1>7, <2>1 DEF Remembered
  <2>5. proof.addr = proof.token.addr /\ proof.at <= proof.token.time
    <3>1. m.token.time \in Nat
      BY <1>1 DEF IndInv, Numbered
    <3>2. QED
      BY <1>7, <3>1 DEF Verifies, Decrypts, IndInv, Numbered
  (* A context validated by the same token would be remembered.             *)
  <2>6. \A p \in proofs : p.token.n # proof.token.n
    <3>1. SUFFICES ASSUME NEW p \in proofs, p.token.n = m.token.n
                   PROVE  FALSE
      OBVIOUS
    <3>2. p.token \in AllTokens
      BY DEF AllTokens
    <3>3. p.token = m.token
      BY <1>1, <3>1, <3>2 DEF IndInv, Numbered
    <3>4. m.token.time \in Nat
      BY <1>1 DEF IndInv, Numbered
    <3>5. m.token \in Cleared
      BY <1>7, <3>3, <3>4 DEF IndInv, Numbered, Remembered, Cleared, Verifies, Decrypts
    <3>6. QED
      BY <1>7, <3>5 DEF Verifies
  <2>7. ~proof.token.new => proof.id.retried /\ proof.id.c = proof.token.c
    BY <1>7 DEF Verifies, IncomingInitial, IndInv
  <2>8. TokensProveOnce'
    <3> HIDE DEF proof
    <3>1. \A p \in proofs' : p \in proofs \/ p = proof
      BY <1>7
    <3>2. QED
      BY <2>5, <2>6, <2>7, <3>1 DEF IndInv, TokensProveOnce
  <2>9. QED
    BY <2>3, <2>4, <2>8 DEF IndInv
<1>8. QED
  BY <1>6, <1>7 DEF IncomingInitial

(* The clock and the deletion of a context make no token,                  *)
LEMMA ServerInd ==
  ASSUME IndInv, Tick \/ \E id \in contexts : DeleteContext(id)
  PROVE  IndInv'
<1>1. /\ AllTokens' \subseteq AllTokens \cup {NoToken}
      /\ made' = made /\ now' \in {now, now + 1}
  BY DEF Tick, DeleteContext, AllTokens, serverVars
<1>2. Numbered'
  BY <1>1, NumberedStep DEF IndInv
<1>3. TokensProveOnce'
  BY DEF Tick, DeleteContext, IndInv, TokensProveOnce, serverVars
<1>4. \A p \in proofs : p.token \in AllTokens
  BY DEF AllTokens
<1>5. Remembered'
  BY <1>4 DEF Tick, DeleteContext, IndInv, Remembered, Numbered, serverVars
<1>6. QED
  BY <1>2, <1>3, <1>5 DEF IndInv

(* so every step keeps the invariant.                                      *)
LEMMA NextInd == IndInv /\ [Next]_vars => IndInv'
<1> SUFFICES ASSUME IndInv, [Next]_vars PROVE IndInv'
  OBVIOUS
<1>1. CASE UNCHANGED vars
  BY <1>1 DEF vars, serverVars, IndInv, Numbered, AllTokens, Remembered, TokensProveOnce
<1>2. CASE Next
  BY <1>2, ConnectInd, RetryInd, TokenInd, CompleteInd, InitialInd, ServerInd, ProgramInd DEF Next
<1>3. QED
  BY <1>1, <1>2

(* However often Initials and NEW_TOKEN frames are repeated and delayed, the *)
(* client crashes and contexts are deleted, no token validates two contexts, *)
(* nor an address or a connection that it was not made for.                  *)
THEOREM TokensAlwaysProveOnce == Spec => []TokensProveOnce
<1>1. IndInv => TokensProveOnce
  BY DEF IndInv
<1>2. QED
  BY InitInd, NextInd, <1>1, PTL DEF Spec
=============================================================================
