---------------------------- MODULE SendingProofs ----------------------------
(***************************************************************************)
(* What decides how packets are sent, proved for every value of the        *)
(* constants.                                                              *)
(*                                                                         *)
(* Packet numbers and key phases, for every window, every length of an     *)
(* epoch and any number of packets and rotations: a packet in the window   *)
(* is never taken for another, and two ends that wait for an ACK of their  *)
(* current key before they rotate always read each other.                  *)
(*                                                                         *)
(* The discovery of the MTU, for all lengths and any order of ACKs.        *)
(*                                                                         *)
(* Pacing, for all rates, quanta, windows and round trips.                 *)
(***************************************************************************)
EXTENDS KeyRotation, PathMtu, Pacing, TLAPS

(***************************************************************************)
(* Keys                                                                    *)
(***************************************************************************)

KeyOrNone == Nat \cup {None}

EndState ==
  [enc : Nat, dec : Nat, new_enc : KeyOrNone, new_dec : KeyOrNone, old_dec : KeyOrNone,
   secret : Nat, guard : BOOLEAN, rotation : Nat, sent : Nat, start : Nat,
   highest : KeyOrNone, acked : KeyOrNone, first : Nat]

Packet == [from : Ends, pn : 0..MaxPn, wire : Int, key : Nat, ack : KeyOrNone]

Typed(ends, packets) ==
  /\ ends \in [Ends -> EndState]
  /\ packets \subseteq Packet
  /\ \A p \in packets : p.wire = p.pn % Window

-----------------------------------------------------------------------------
(* Packet numbers *)

(* A multiple of the window that is less than two windows away from 0.     *)
LEMMA NearMultiple ==
  ASSUME NEW W \in Nat \ {0}, NEW j \in Int, j * W < 2 * W, j * W > -(2 * W)
  PROVE  j \in {-1, 0, 1}
<1>1. CASE j >= 2
  <2>1. j * W >= 2 * W
    BY <1>1
  <2> QED BY <2>1
<1>2. CASE j <= -2
  <2>1. j * W <= -(2 * W)
    BY <1>2
  <2> QED BY <2>1
<1> QED BY <1>1, <1>2

(* picoquic_get_packet_number64 finds the number again from its low bits   *)
(* and the highest number received, within half a window on either side.   *)
LEMMA NumberRebuilt ==
  ASSUME NEW highest \in Nat \cup {-1}, NEW pn \in Nat,
         pn - (highest + 1) \in -(Window \div 2)..(Window \div 2 - 1)
  PROVE  PacketNumber64(highest, pn % Window) = pn
<1> DEFINE W == Window
           E == highest + 1
           a == E % W
           b == pn % W
           q == E \div W
           k == pn \div W
           pn64 == E - a + b
<1>1. W \in Nat \ {0} /\ E \in Nat /\ pn \in Nat
  BY KeyAssumption
<1>2. a \in 0..(W - 1) /\ b \in 0..(W - 1) /\ q \in Int /\ k \in Int
  BY <1>1
<1>3. E = W * q + a /\ pn = W * k + b
  BY <1>1
<1>4. PICK h \in Nat : 2 * h <= W /\ pn - E >= -h /\ pn - E <= h - 1
  BY <1>1, 2 * (W \div 2) <= W, W \div 2 \in Nat
<1>5. pn64 = W * q + b /\ pn64 \in Int
  BY <1>1, <1>2, <1>3
<1>6. PacketNumber64(highest, b) =
        IF pn64 < E
        THEN IF W - (E - pn64) < E - pn64 THEN pn64 + W ELSE pn64
        ELSE IF W - (pn64 - E) <= pn64 - E /\ pn64 >= W THEN pn64 - W ELSE pn64
  BY DEF PacketNumber64
<1> SUFFICES PacketNumber64(highest, b) = pn
  OBVIOUS
<1> HIDE DEF W, E, a, b, q, k, pn64
<1>7. (k - q) * W = W * k - W * q /\ k - q \in Int
  BY <1>1, <1>2
<1>8. (k - q) * W < 2 * W /\ (k - q) * W > -(2 * W)
  BY <1>1, <1>2, <1>3, <1>4, <1>7
<1>9. k - q \in {-1, 0, 1}
  BY <1>1, <1>7, <1>8, NearMultiple
<1>10. CASE k - q = 0
  <2>1. pn64 = pn
    BY <1>1, <1>2, <1>3, <1>5, <1>7, <1>10
  <2> QED BY <2>1, <1>1, <1>4, <1>6
<1>11. CASE k - q = 1
  <2>1. pn = pn64 + W
    BY <1>1, <1>2, <1>3, <1>5, <1>7, <1>11
  <2> QED BY <2>1, <1>1, <1>4, <1>5, <1>6
<1>12. CASE k - q = -1
  <2>1. pn = pn64 - W
    BY <1>1, <1>2, <1>3, <1>5, <1>7, <1>12
  <2> QED BY <2>1, <1>1, <1>4, <1>5, <1>6
<1> QED BY <1>9, <1>10, <1>11, <1>12

-----------------------------------------------------------------------------
(* What the operations do to the contexts of an end *)

LEMMA EncRotatedFields ==
  ASSUME NEW s \in EndState, s.new_enc # None
  PROVE  LET t == EncRotated(s)
         IN  /\ t \in EndState
             /\ t.enc = s.new_enc /\ t.new_enc = None /\ t.first = s.sent
             /\ t.dec = s.dec /\ t.new_dec = s.new_dec /\ t.old_dec = s.old_dec
             /\ t.secret = s.secret /\ t.guard = s.guard /\ t.rotation = s.rotation
             /\ t.sent = s.sent /\ t.highest = s.highest /\ t.acked = s.acked
<1>1. s.new_enc \in Nat /\ s.sent \in Nat /\ None \in KeyOrNone
  BY DEF EndState, KeyOrNone
<1>2. EncRotated(s) \in EndState
  BY <1>1 DEF EncRotated, EndState
<1> QED BY <1>2 DEF EncRotated, EndState

(* picoquic_start_key_rotation *)
LEMMA StartedFields ==
  ASSUME NEW s \in EndState, MayStart(s)
  PROVE  LET t == Started(s)
         IN  /\ t \in EndState
             /\ t.secret = IF s.new_enc = None THEN s.secret + 1 ELSE s.secret
             /\ t.enc = IF s.new_enc = None THEN s.secret + 1 ELSE s.new_enc
             /\ t.new_dec = IF s.new_enc = None THEN s.secret + 1 ELSE s.new_dec
             /\ t.new_enc = None /\ t.old_dec = None /\ t.dec = s.dec
             /\ t.guard = s.guard /\ t.rotation = s.rotation /\ t.sent = s.sent
             /\ t.highest = s.highest /\ t.acked = s.acked /\ t.first = s.sent
<1> DEFINE c == Computed(s)
<1>1. /\ c \in EndState
      /\ c.secret = IF s.new_enc = None THEN s.secret + 1 ELSE s.secret
      /\ c.new_enc = IF s.new_enc = None THEN s.secret + 1 ELSE s.new_enc
      /\ c.new_dec = IF s.new_enc = None THEN s.secret + 1 ELSE s.new_dec
      /\ c.new_enc \in Nat
      /\ c.enc = s.enc /\ c.dec = s.dec /\ c.guard = s.guard /\ c.rotation = s.rotation
      /\ c.sent = s.sent /\ c.highest = s.highest /\ c.acked = s.acked
  <2>1. CASE s.new_enc = None
    <3>1. c = [s EXCEPT !.secret = @ + 1, !.new_enc = s.secret + 1, !.new_dec = s.secret + 1]
      BY <2>1 DEF Computed
    <3>2. s.secret + 1 \in Nat /\ s.secret + 1 \in KeyOrNone
      BY DEF EndState, KeyOrNone
    <3> HIDE DEF c
    <3>3. c \in EndState
      BY <3>1, <3>2 DEF EndState
    <3> QED BY <2>1, <3>1, <3>2, <3>3 DEF EndState
  <2>2. CASE s.new_enc # None
    <3>1. c = s
      BY <2>2 DEF Computed, MayStart, CanCompute
    <3> HIDE DEF c
    <3> QED BY <2>2, <3>1 DEF EndState, KeyOrNone, None
  <2> QED BY <2>1, <2>2
<1>2. Started(s) = [EncRotated(c) EXCEPT !.old_dec = None, !.start = s.sent]
  BY DEF Started
<1> DEFINE d == EncRotated(c)
<1>3. /\ d \in EndState
      /\ d.enc = c.new_enc /\ d.new_enc = None /\ d.first = c.sent
      /\ d.dec = c.dec /\ d.new_dec = c.new_dec /\ d.secret = c.secret /\ d.guard = c.guard
      /\ d.rotation = c.rotation /\ d.sent = c.sent /\ d.highest = c.highest /\ d.acked = c.acked
  BY <1>1, EncRotatedFields, None \notin Nat DEF None
<1> HIDE DEF c, d
<1>4. s.sent \in Nat /\ None \in KeyOrNone
  BY DEF EndState, KeyOrNone
<1>5. Started(s) = [d EXCEPT !.old_dec = None, !.start = s.sent]
  BY <1>2 DEF d
<1>6. Started(s) \in EndState
  BY <1>3, <1>4, <1>5 DEF EndState
<1>7. LET t == Started(s)
      IN  /\ t.secret = d.secret /\ t.enc = d.enc /\ t.new_dec = d.new_dec /\ t.new_enc = d.new_enc
          /\ t.old_dec = None /\ t.dec = d.dec /\ t.guard = d.guard /\ t.rotation = d.rotation
          /\ t.sent = d.sent /\ t.highest = d.highest /\ t.acked = d.acked /\ t.first = d.first
  BY <1>3, <1>5 DEF EndState
<1> QED BY <1>1, <1>3, <1>6, <1>7

(* The keys that are computed when a packet may have the next one.         *)
Prepared(s) == IF s.new_enc = None /\ s.new_dec = None THEN Computed(s) ELSE s

LEMMA PreparedFields ==
  ASSUME NEW s \in EndState
  PROVE  LET c    == Prepared(s)
             both == s.new_enc = None /\ s.new_dec = None
         IN  /\ c \in EndState
             /\ c.secret = IF both THEN s.secret + 1 ELSE s.secret
             /\ c.new_enc = IF both THEN s.secret + 1 ELSE s.new_enc
             /\ c.new_dec = IF both THEN s.secret + 1 ELSE s.new_dec
             /\ c.enc = s.enc /\ c.dec = s.dec /\ c.old_dec = s.old_dec /\ c.guard = s.guard
             /\ c.rotation = s.rotation /\ c.sent = s.sent /\ c.first = s.first
             /\ c.highest = s.highest /\ c.acked = s.acked
<1>1. CASE s.new_enc = None /\ s.new_dec = None
  <2>1. Prepared(s) = [s EXCEPT !.secret = @ + 1, !.new_enc = s.secret + 1, !.new_dec = s.secret + 1]
    BY <1>1 DEF Prepared, Computed
  <2>2. s.secret + 1 \in Nat /\ s.secret + 1 \in KeyOrNone
    BY DEF EndState, KeyOrNone
  <2>3. Prepared(s) \in EndState
    BY <2>1, <2>2 DEF EndState
  <2> QED BY <1>1, <2>1, <2>3 DEF EndState
<1>2. CASE ~(s.new_enc = None /\ s.new_dec = None)
  <2>1. Prepared(s) = s
    BY <1>2 DEF Prepared
  <2> QED BY <1>2, <2>1 DEF EndState
<1> QED BY <1>1, <1>2

(* picoquic_apply_rotated_keys, on both sides when the peer started.       *)
Moved(s, pn) ==
  LET d == DecRotated([s EXCEPT !.guard = TRUE, !.rotation = pn])
  IN  IF d.new_enc # None THEN EncRotated(d) ELSE d

LEMMA MovedFields ==
  ASSUME NEW s \in EndState, s.new_dec # None, NEW pn \in Nat
  PROVE  LET t == Moved(s, pn)
         IN  /\ t \in EndState
             /\ t.enc = IF s.new_enc = None THEN s.enc ELSE s.new_enc
             /\ t.first = IF s.new_enc = None THEN s.first ELSE s.sent
             /\ t.dec = s.new_dec /\ t.old_dec = s.dec /\ t.secret = s.secret
             /\ t.new_enc = None /\ t.new_dec = None /\ t.guard = TRUE /\ t.rotation = pn
             /\ t.sent = s.sent /\ t.highest = s.highest /\ t.acked = s.acked
<1> DEFINE d == DecRotated([s EXCEPT !.guard = TRUE, !.rotation = pn])
<1>1. /\ d \in EndState
      /\ d.dec = s.new_dec /\ d.old_dec = s.dec /\ d.new_dec = None /\ d.guard = TRUE
      /\ d.rotation = pn /\ d.new_enc = s.new_enc /\ d.enc = s.enc /\ d.first = s.first
      /\ d.secret = s.secret /\ d.sent = s.sent /\ d.highest = s.highest /\ d.acked = s.acked
  BY DEF DecRotated, EndState, KeyOrNone, None
<1>2. Moved(s, pn) = IF d.new_enc # None THEN EncRotated(d) ELSE d
  BY DEF Moved
<1> HIDE DEF d
<1>3. CASE s.new_enc = None
  BY <1>1, <1>2, <1>3
<1>4. CASE s.new_enc # None
  <2>1. Moved(s, pn) = EncRotated(d)
    BY <1>1, <1>2, <1>4
  <2>2. /\ EncRotated(d) \in EndState
        /\ EncRotated(d).enc = d.new_enc /\ EncRotated(d).new_enc = None /\ EncRotated(d).first = d.sent
        /\ EncRotated(d).dec = d.dec /\ EncRotated(d).new_dec = d.new_dec
        /\ EncRotated(d).old_dec = d.old_dec /\ EncRotated(d).secret = d.secret
        /\ EncRotated(d).guard = d.guard /\ EncRotated(d).rotation = d.rotation
        /\ EncRotated(d).sent = d.sent /\ EncRotated(d).highest = d.highest
        /\ EncRotated(d).acked = d.acked
    BY <1>1, <1>4, EncRotatedFields
  <2> QED BY <1>1, <1>4, <2>1, <2>2
<1> QED BY <1>3, <1>4

Lowered(s, pn) == IF pn < s.rotation THEN [s EXCEPT !.rotation = pn] ELSE s

(* picoquic_remove_packet_protection, for a packet whose number is rebuilt.*)
LEMMA Outcomes ==
  ASSUME NEW s \in EndState, NEW p \in Packet, PacketNumber64(s.highest, p.wire) = p.pn
  PROVE  LET u == Unprotected(s, p)
             c == Prepared(s)
         IN  \/ u.read = TRUE /\ p.key = s.dec /\ u.state = Lowered(s, p.pn)
             \/ u.read = TRUE /\ s.guard = TRUE /\ p.key = s.old_dec /\ u.state = s
             \/ u.read = TRUE /\ c.new_dec # None /\ p.key = c.new_dec /\ u.state = Moved(c, p.pn)
             \/ u.read = FALSE /\ u.state \in {s, c}
<1>1. CASE Current(s, p)
  BY <1>1 DEF Unprotected, WithCurrent, Reads, Lowered
<1>2. CASE ~Current(s, p) /\ Old(s, p.pn)
  BY <1>2 DEF Unprotected, WithOld, Reads, EndState
<1>3. CASE ~Current(s, p) /\ ~Old(s, p.pn)
  <2>1. Unprotected(s, p) = WithNew(s, p, p.pn)
    BY <1>3 DEF Unprotected
  <2>2. WithNew(s, p, p.pn).read = (Prepared(s).new_dec # None /\ Reads(p, Prepared(s).new_dec, p.pn))
    BY DEF WithNew, Prepared
  <2>3. WithNew(s, p, p.pn).state =
          IF ~WithNew(s, p, p.pn).read THEN Prepared(s) ELSE Moved(Prepared(s), p.pn)
    BY DEF WithNew, Prepared, Moved
  <2> QED BY <2>1, <2>2, <2>3 DEF Reads
<1> QED BY <1>1, <1>2, <1>3

-----------------------------------------------------------------------------
(* The two ends *)

(* The keys of an end: nothing computed ahead; the next keys computed for  *)
(* a packet that seemed to need them; or a rotation of its own under way,  *)
(* which the peer has not followed yet.                                    *)
Shape(s) ==
  /\ s.old_dec \in {None, s.dec - 1}
  /\ \/ s.new_enc = None /\ s.new_dec = None /\ s.enc = s.secret /\ s.dec = s.secret
     \/ s.new_enc = s.secret /\ s.new_dec = s.secret /\ s.enc = s.secret - 1 /\ s.dec = s.secret - 1
     \/ s.new_enc = None /\ s.new_dec = s.secret /\ s.enc = s.secret /\ s.dec = s.secret - 1

(* What sender s and receiver r know of each other: the receiver is at     *)
(* most one key behind, what it has of the current key shows that it is    *)
(* not, and crypto_rotation_sequence separates the numbers of its key and  *)
(* of the next.                                                            *)
Linked(s, r) ==
  /\ s.enc \in {r.dec, r.dec + 1}
  /\ s.acked <= r.highest /\ r.highest < s.sent /\ s.first <= s.sent
  /\ r.highest >= s.first => r.dec = s.enc
  /\ r.rotation = Infinite => r.guard = FALSE /\ r.highest = None /\ r.enc = 0 /\ s.enc = 0
  /\ r.rotation = Infinite \/ r.rotation < s.sent
  /\ s.enc = r.dec + 1 => r.rotation < s.first

(* A packet from s to r: its number tells on which side of the two         *)
(* rotations it is.                                                        *)
Placed(p, s, r) ==
  /\ p.pn < s.sent /\ p.key <= s.enc /\ (p.key < s.enc <=> p.pn < s.first)
  /\ p.ack <= s.highest
  /\ p.key < r.dec => p.pn < r.rotation
  /\ p.key > r.dec => p.pn > r.rotation

Ordered(packets) ==
  \A p, q \in packets : p.from = q.from /\ p.key < q.key => p.pn < q.pn

(* Of the end e with state s and its peer with state r.                    *)
Between(s, r, e, packets) ==
  /\ Shape(s) /\ Shape(r) /\ Linked(s, r) /\ Linked(r, s)
  /\ \A p \in packets : IF p.from = e THEN Placed(p, s, r) ELSE Placed(p, r, s)
  /\ Ordered(packets)

LEMMA Constants == Infinite \in Nat /\ None = -1 /\ \A n \in 0..MaxPn : n \in Nat /\ n < Infinite
BY KeyAssumption DEF Infinite, None

LEMMA StartKeeps ==
  ASSUME NEW s \in EndState, NEW r \in EndState, NEW e \in Ends, NEW packets \in SUBSET Packet,
         Between(s, r, e, packets), MayStart(s), s.acked >= s.first
  PROVE  Between(Started(s), r, e, packets)
<1> DEFINE t == Started(s)
<1>1. /\ t \in EndState
      /\ t.secret = IF s.new_enc = None THEN s.secret + 1 ELSE s.secret
      /\ t.enc = IF s.new_enc = None THEN s.secret + 1 ELSE s.new_enc
      /\ t.new_dec = IF s.new_enc = None THEN s.secret + 1 ELSE s.new_dec
      /\ t.new_enc = None /\ t.old_dec = None /\ t.dec = s.dec
      /\ t.guard = s.guard /\ t.rotation = s.rotation /\ t.sent = s.sent
      /\ t.highest = s.highest /\ t.acked = s.acked /\ t.first = s.sent
  BY StartedFields
<1> HIDE DEF t
<1>2. (s.new_enc = None) = (s.new_dec = None)
  BY DEF MayStart, CanCompute
<1>3. s.enc = s.dec /\ t.enc = s.enc + 1 /\ t.secret = t.enc /\ t.new_dec = t.secret
  BY <1>1, <1>2, Constants DEF Between, Shape, EndState
<1>4. r.dec = s.enc /\ r.highest \in Nat /\ r.rotation # Infinite
  BY Constants DEF Between, Linked, EndState, KeyOrNone
<1>5. s.highest \in Nat /\ s.rotation # Infinite
  BY Constants DEF Between, Linked, EndState, KeyOrNone, MayStart
<1>6. Shape(t)
  BY <1>1, <1>3, Constants DEF Shape, EndState
<1>7. Linked(t, r)
  BY <1>1, <1>3, <1>4, Constants DEF Between, Linked, EndState, KeyOrNone
<1>8. Linked(r, t)
  BY <1>1, <1>3, <1>4, <1>5, Constants DEF Between, Linked, EndState, KeyOrNone
<1>9. ASSUME NEW p \in packets PROVE IF p.from = e THEN Placed(p, t, r) ELSE Placed(p, r, t)
  <2>1. p \in Packet /\ IF p.from = e THEN Placed(p, s, r) ELSE Placed(p, r, s)
    BY DEF Between
  <2> QED BY <1>1, <1>3, <1>4, <2>1 DEF Placed, Packet, EndState, KeyOrNone
<1> QED BY <1>6, <1>7, <1>8, <1>9 DEF Between, t

(* A packet is sent with the current key.                                  *)
LEMMA SendKeeps ==
  ASSUME NEW s \in EndState, NEW r \in EndState, NEW e \in Ends, NEW packets \in SUBSET Packet,
         Between(s, r, e, packets), s.sent <= MaxPn,
         NEW q \in Packet, q.from = e, q.pn = s.sent, q.key = s.enc, q.ack = s.highest
  PROVE  Between([s EXCEPT !.sent = @ + 1], r, e, packets \cup {q})
<1> DEFINE t == [s EXCEPT !.sent = @ + 1]
<1>1. /\ t.sent = s.sent + 1 /\ t.enc = s.enc /\ t.dec = s.dec /\ t.new_enc = s.new_enc
      /\ t.new_dec = s.new_dec /\ t.old_dec = s.old_dec /\ t.secret = s.secret
      /\ t.guard = s.guard /\ t.rotation = s.rotation /\ t.highest = s.highest
      /\ t.acked = s.acked /\ t.first = s.first
  BY DEF EndState
<1> HIDE DEF t
<1>2. Shape(t) /\ Linked(t, r) /\ Linked(r, t)
  BY <1>1, Constants DEF Between, Shape, Linked, EndState, KeyOrNone
<1>3. Placed(q, t, r)
  BY <1>1, Constants DEF Between, Linked, Placed, EndState, KeyOrNone, Packet
<1>4. ASSUME NEW p \in packets PROVE IF p.from = e THEN Placed(p, t, r) ELSE Placed(p, r, t)
  <2>1. p \in Packet /\ IF p.from = e THEN Placed(p, s, r) ELSE Placed(p, r, s)
    BY DEF Between
  <2> QED BY <1>1, <2>1 DEF Placed, Packet, EndState
<1>5. Ordered(packets \cup {q})
  <2> SUFFICES ASSUME NEW x \in packets \cup {q}, NEW y \in packets \cup {q},
                      x.from = y.from, x.key < y.key
               PROVE  x.pn < y.pn
    BY DEF Ordered
  <2>1. CASE x \in packets /\ y \in packets
    BY <2>1 DEF Between, Ordered
  <2>2. CASE x = q /\ y \in packets
    BY <2>2 DEF Between, Placed, Packet, EndState
  <2>3. CASE x \in packets /\ y = q
    BY <2>3 DEF Between, Placed
  <2>4. CASE x = q /\ y = q
    BY <2>4 DEF Packet
  <2> QED BY <2>1, <2>2, <2>3, <2>4
<1> QED BY <1>2, <1>3, <1>4, <1>5 DEF Between, t

(* The next keys are computed and not used yet.                            *)
LEMMA PrepareKeeps ==
  ASSUME NEW s \in EndState, NEW r \in EndState, NEW e \in Ends, NEW packets \in SUBSET Packet,
         Between(s, r, e, packets)
  PROVE  Between(Prepared(s), r, e, packets)
<1> DEFINE t == Prepared(s)
<1>1. /\ t.secret = IF s.new_enc = None /\ s.new_dec = None THEN s.secret + 1 ELSE s.secret
      /\ t.new_enc = IF s.new_enc = None /\ s.new_dec = None THEN s.secret + 1 ELSE s.new_enc
      /\ t.new_dec = IF s.new_enc = None /\ s.new_dec = None THEN s.secret + 1 ELSE s.new_dec
      /\ t.enc = s.enc /\ t.dec = s.dec /\ t.old_dec = s.old_dec /\ t.guard = s.guard
      /\ t.rotation = s.rotation /\ t.sent = s.sent /\ t.first = s.first
      /\ t.highest = s.highest /\ t.acked = s.acked
  BY PreparedFields
<1> HIDE DEF t
<1>2. Shape(t)
  BY <1>1, Constants DEF Between, Shape, EndState, KeyOrNone
<1>3. Linked(t, r) /\ Linked(r, t)
  BY <1>1 DEF Between, Linked
<1>4. \A p \in packets : IF p.from = e THEN Placed(p, t, r) ELSE Placed(p, r, t)
  BY <1>1 DEF Between, Placed
<1> QED BY <1>2, <1>3, <1>4 DEF Between, t

(* A packet with the current key and a smaller number than any before.     *)
LEMMA LowerKeeps ==
  ASSUME NEW s \in EndState, NEW r \in EndState, NEW e \in Ends, NEW packets \in SUBSET Packet,
         Between(s, r, e, packets), NEW p \in packets, p.from # e, p.key = s.dec
  PROVE  /\ Between(Lowered(s, p.pn), r, e, packets)
         /\ Lowered(s, p.pn) \in EndState /\ Lowered(s, p.pn).rotation # Infinite
         /\ Lowered(s, p.pn).dec = s.dec
<1> DEFINE t == Lowered(s, p.pn)
<1>1. p \in Packet /\ p.pn \in Nat /\ p.pn < Infinite /\ Placed(p, r, s)
  BY Constants DEF Packet, Between
<1>2. CASE ~(p.pn < s.rotation)
  <2>1. t = s /\ s.rotation # Infinite
    BY <1>1, <1>2, Constants DEF Lowered, EndState
  <2> QED BY <2>1
<1>3. CASE p.pn < s.rotation
  <2>1. t = [s EXCEPT !.rotation = p.pn]
    BY <1>3 DEF Lowered
  <2>2. t \in EndState
    BY <1>1, <2>1 DEF EndState
  <2>3. /\ t.rotation = p.pn /\ t.enc = s.enc /\ t.dec = s.dec /\ t.new_enc = s.new_enc
        /\ t.new_dec = s.new_dec /\ t.old_dec = s.old_dec /\ t.secret = s.secret
        /\ t.guard = s.guard /\ t.sent = s.sent /\ t.highest = s.highest
        /\ t.acked = s.acked /\ t.first = s.first
    BY <2>1 DEF EndState
  <2> HIDE DEF t
  <2>4. Shape(t)
    BY <2>3 DEF Between, Shape
  <2>5. Linked(t, r)
    BY <2>3 DEF Between, Linked
  <2>6. Linked(r, t)
    BY <1>1, <1>3, <2>3, Constants DEF Between, Linked, Placed, EndState
  <2>7. ASSUME NEW x \in packets PROVE IF x.from = e THEN Placed(x, t, r) ELSE Placed(x, r, t)
    <3>1. x \in Packet /\ IF x.from = e THEN Placed(x, s, r) ELSE Placed(x, r, s)
      BY DEF Between
    <3>2. CASE x.from = e
      BY <2>3, <3>1, <3>2 DEF Placed
    <3>3. CASE x.from # e
      <4>1. x.from = p.from
        BY <1>1, <3>1, <3>3 DEF Packet, Ends
      <4>2. x.key < s.dec => x.pn < p.pn
        BY <4>1 DEF Between, Ordered
      <4> QED BY <1>1, <1>3, <2>3, <3>1, <3>3, <4>2 DEF Placed, Packet, EndState
    <3> QED BY <3>2, <3>3
  <2>8. t.rotation # Infinite
    BY <1>1, <2>3, Constants
  <2>9. Between(t, r, e, packets)
    BY <2>4, <2>5, <2>6, <2>7 DEF Between
  <2> QED BY <2>2, <2>3, <2>8, <2>9 DEF t
<1> QED BY <1>2, <1>3

(* A packet shows that the peer has moved on.                              *)
LEMMA MoveKeeps ==
  ASSUME NEW s \in EndState, NEW r \in EndState, NEW e \in Ends, NEW packets \in SUBSET Packet,
         Between(s, r, e, packets), NEW p \in packets, p.from # e,
         s.new_dec # None, p.key = s.new_dec
  PROVE  /\ Between(Moved(s, p.pn), r, e, packets)
         /\ Moved(s, p.pn) \in EndState /\ Moved(s, p.pn).rotation # Infinite
         /\ Moved(s, p.pn).dec = p.key
<1> DEFINE t == Moved(s, p.pn)
<1>1. p \in Packet /\ p.pn \in Nat /\ p.pn < Infinite /\ Placed(p, r, s)
  BY Constants DEF Packet, Between
<1>2. /\ t \in EndState
      /\ t.enc = IF s.new_enc = None THEN s.enc ELSE s.new_enc
      /\ t.first = IF s.new_enc = None THEN s.first ELSE s.sent
      /\ t.dec = s.new_dec /\ t.old_dec = s.dec /\ t.secret = s.secret
      /\ t.new_enc = None /\ t.new_dec = None /\ t.guard = TRUE /\ t.rotation = p.pn
      /\ t.sent = s.sent /\ t.highest = s.highest /\ t.acked = s.acked
  BY <1>1, MovedFields
<1> HIDE DEF t
<1>3. s.new_dec = s.secret /\ s.dec = s.secret - 1 /\ r.enc = s.secret
  BY <1>1, Constants DEF Between, Shape, Linked, Placed, EndState, KeyOrNone
<1>4. p.pn >= r.first /\ p.pn < r.sent
  BY <1>1, <1>3 DEF Placed, Packet, EndState
<1>5. r.rotation # Infinite
  BY <1>3, Constants DEF Between, Linked, EndState
<1>6. s.new_enc # None => s.enc = s.secret - 1 /\ s.new_enc = s.secret /\ r.dec = s.enc
  BY <1>3, Constants DEF Between, Shape, Linked, EndState, KeyOrNone
<1>7. Shape(t)
  BY <1>2, <1>3, Constants DEF Between, Shape, EndState, KeyOrNone
<1>8. Linked(t, r)
  <2>1. CASE s.new_enc = None
    BY <1>2, <1>5, <2>1 DEF Between, Linked
  <2>2. CASE s.new_enc # None
    BY <1>2, <1>5, <1>6, <2>2, Constants DEF Between, Linked, EndState, KeyOrNone
  <2> QED BY <2>1, <2>2
<1>9. Linked(r, t)
  BY <1>1, <1>2, <1>3, <1>4, Constants DEF Between, Linked, EndState
<1>10. ASSUME NEW x \in packets PROVE IF x.from = e THEN Placed(x, t, r) ELSE Placed(x, r, t)
  <2>1. x \in Packet /\ IF x.from = e THEN Placed(x, s, r) ELSE Placed(x, r, s)
    BY DEF Between
  <2>2. CASE x.from = e /\ s.new_enc = None
    BY <1>2, <2>1, <2>2 DEF Placed
  <2>3. CASE x.from = e /\ s.new_enc # None
    BY <1>2, <1>6, <2>1, <2>3 DEF Placed, Packet, EndState
  <2>4. CASE x.from # e
    BY <1>1, <1>2, <1>3, <1>4, <2>1, <2>4 DEF Placed, Packet, EndState
  <2> QED BY <2>2, <2>3, <2>4
<1>11. Between(t, r, e, packets)
  BY <1>7, <1>8, <1>9, <1>10 DEF Between
<1> QED BY <1>1, <1>2, <1>11, Constants DEF t

(* The sack list and the ACK of a packet that was read.                    *)
Heard(s, p) ==
  [s EXCEPT !.highest = IF p.pn > @ THEN p.pn ELSE @, !.acked = IF p.ack > @ THEN p.ack ELSE @]

LEMMA HearKeeps ==
  ASSUME NEW s \in EndState, NEW r \in EndState, NEW e \in Ends, NEW packets \in SUBSET Packet,
         Between(s, r, e, packets), NEW p \in packets, p.from # e,
         p.key <= s.dec, s.rotation # Infinite
  PROVE  Between(Heard(s, p), r, e, packets)
<1> DEFINE t == Heard(s, p)
<1>1. p \in Packet /\ Placed(p, r, s)
  BY DEF Between
<1>2. /\ t.highest = IF p.pn > s.highest THEN p.pn ELSE s.highest
      /\ t.acked = IF p.ack > s.acked THEN p.ack ELSE s.acked
      /\ t.rotation = s.rotation /\ t.enc = s.enc /\ t.dec = s.dec /\ t.new_enc = s.new_enc
      /\ t.new_dec = s.new_dec /\ t.old_dec = s.old_dec /\ t.secret = s.secret
      /\ t.guard = s.guard /\ t.sent = s.sent /\ t.first = s.first
  BY DEF Heard, EndState
<1> HIDE DEF t
<1>3. Shape(t)
  BY <1>2 DEF Between, Shape
<1>4. Linked(t, r)
  BY <1>1, <1>2 DEF Between, Linked, Placed, EndState
<1>5. Linked(r, t)
  BY <1>1, <1>2, Constants DEF Between, Linked, Placed, Packet, EndState, KeyOrNone
<1>6. ASSUME NEW x \in packets PROVE IF x.from = e THEN Placed(x, t, r) ELSE Placed(x, r, t)
  <2>1. x \in Packet /\ IF x.from = e THEN Placed(x, s, r) ELSE Placed(x, r, s)
    BY DEF Between
  <2> QED BY <1>1, <1>2, <2>1, Constants DEF Placed, Packet, EndState, KeyOrNone
<1> QED BY <1>3, <1>4, <1>5, <1>6 DEF Between, t

(* crypto_rotation_time_guard passes.                                      *)
LEMMA GuardKeeps ==
  ASSUME NEW s \in EndState, NEW r \in EndState, NEW e \in Ends, NEW packets \in SUBSET Packet,
         Between(s, r, e, packets)
  PROVE  Between([s EXCEPT !.guard = FALSE], r, e, packets)
<1> DEFINE t == [s EXCEPT !.guard = FALSE]
<1>1. /\ t.guard = FALSE
      /\ t.rotation = s.rotation /\ t.enc = s.enc /\ t.dec = s.dec /\ t.new_enc = s.new_enc
      /\ t.new_dec = s.new_dec /\ t.old_dec = s.old_dec /\ t.secret = s.secret
      /\ t.sent = s.sent /\ t.first = s.first /\ t.highest = s.highest /\ t.acked = s.acked
  BY DEF EndState
<1> HIDE DEF t
<1>2. Shape(t) /\ Linked(t, r) /\ Linked(r, t)
  BY <1>1 DEF Between, Shape, Linked
<1>3. \A p \in packets : IF p.from = e THEN Placed(p, t, r) ELSE Placed(p, r, t)
  BY <1>1 DEF Between, Placed
<1> QED BY <1>2, <1>3 DEF Between, t

LEMMA FewerKeep ==
  ASSUME NEW s, NEW r, NEW e, NEW packets, NEW fewer \in SUBSET packets,
         Between(s, r, e, packets)
  PROVE  Between(s, r, e, fewer)
BY DEF Between, Ordered

-----------------------------------------------------------------------------
(* The state *)

TypeOK == Typed(end, net)

KeysInv == Between(end["client"], end["server"], "client", net)

LEMMA EndsFacts ==
  \A e \in Ends : Peer(e) \in Ends /\ Peer(e) # e /\ Peer(Peer(e)) = e /\ \A f \in Ends : f = e \/ f = Peer(e)
BY DEF Ends, Peer

(* The invariant is the same from both sides.                              *)
LEMMA EitherSide ==
  ASSUME NEW ends, NEW packets \in SUBSET Packet, NEW e \in Ends
  PROVE  Between(ends["client"], ends["server"], "client", packets)
           <=> Between(ends[e], ends[Peer(e)], e, packets)
<1>1. CASE e = "client"
  BY <1>1 DEF Peer
<1>2. CASE e = "server"
  <2>1. \A p \in packets : p.from \in {"client", "server"}
    BY DEF Packet, Ends
  <2> QED BY <1>2, <2>1 DEF Between, Peer
<1> QED BY <1>1, <1>2 DEF Ends

(* What has to be shown of a step that changes the end e and the packets.  *)
LEMMA StepOf ==
  ASSUME TypeOK, TypeOK', NEW e \in Ends, NEW s, end' = [end EXCEPT ![e] = s],
         Between(s, end[Peer(e)], e, net')
  PROVE  KeysInv'
<1>1. end'[e] = s /\ end'[Peer(e)] = end[Peer(e)]
  BY EndsFacts DEF TypeOK, Typed
<1> QED BY <1>1, EitherSide DEF KeysInv, TypeOK, Typed

(* A packet that is read leaves its number and its ACK at the receiver.    *)
LEMMA ReceivedState ==
  ASSUME NEW p \in net, Receive(p), TypeOK
  PROVE  LET e == Peer(p.from)
             u == Unprotected(end[e], p)
         IN  /\ e \in Ends /\ p \in Packet /\ end[e] \in EndState
             /\ PacketNumber64(end[e].highest, p.wire) = p.pn
             /\ net' = net \ {p}
             /\ end' = [end EXCEPT ![e] = IF u.read THEN Heard(u.state, p) ELSE u.state]
<1> DEFINE e == Peer(p.from)
<1>1. p \in Packet /\ p.wire = p.pn % Window /\ p.from \in Ends
  BY DEF TypeOK, Typed, Packet
<1>2. e \in Ends /\ end[e] \in EndState
  BY <1>1, EndsFacts DEF TypeOK, Typed
<1>3. end[e].highest \in Nat \cup {-1} /\ p.pn \in Nat
  BY <1>1, <1>2, Constants DEF EndState, KeyOrNone, Packet
<1>4. p.pn - (end[e].highest + 1) \in -(Window \div 2)..(Window \div 2 - 1)
  BY DEF Receive, InWindow
<1>5. PacketNumber64(end[e].highest, p.wire) = p.pn
  BY <1>1, <1>3, <1>4, NumberRebuilt
<1> QED BY <1>1, <1>2, <1>5 DEF Receive, Heard

LEMMA HeardTyped ==
  ASSUME NEW s \in EndState, NEW p \in Packet
  PROVE  Heard(s, p) \in EndState
<1>1. p.pn \in KeyOrNone /\ p.ack \in KeyOrNone
  BY Constants DEF Packet, KeyOrNone
<1>2. \E h \in KeyOrNone, a \in KeyOrNone : Heard(s, p) = [s EXCEPT !.highest = h, !.acked = a]
  BY <1>1 DEF Heard, EndState
<1> QED BY <1>2 DEF EndState

LEMMA UnprotectedTyped ==
  ASSUME NEW s \in EndState, NEW p \in Packet, PacketNumber64(s.highest, p.wire) = p.pn
  PROVE  Unprotected(s, p).state \in EndState
<1>1. Prepared(s) \in EndState
  BY PreparedFields
<1>2. Lowered(s, p.pn) \in EndState
  BY Constants DEF Lowered, EndState, Packet
<1>3. Prepared(s).new_dec # None => Moved(Prepared(s), p.pn) \in EndState
  BY <1>1, MovedFields, Constants DEF Packet
<1> QED BY <1>1, <1>2, <1>3, Outcomes

(* A packet that is sent, after the rotation that was due.                 *)
Due(e) == end[e].sent - end[e].start > EpochLength /\ ~end[e].guard
Sender(e) == IF Due(e) /\ MayStart(end[e]) THEN Started(end[e]) ELSE end[e]
Made(e, s) == [from |-> e, pn |-> s.sent, wire |-> s.sent % Window, key |-> s.enc, ack |-> s.highest]

LEMMA SentState ==
  ASSUME NEW e \in Ends, Send(e), TypeOK
  PROVE  LET s == Sender(e)
         IN  /\ s \in EndState /\ s.sent = end[e].sent /\ s.sent <= MaxPn
             /\ Made(e, s) \in Packet /\ Made(e, s).wire = Made(e, s).pn % Window
             /\ net' = net \cup {Made(e, s)}
             /\ end' = [end EXCEPT ![e] = [s EXCEPT !.sent = @ + 1]]
             /\ [s EXCEPT !.sent = @ + 1] \in EndState
<1> DEFINE s == Sender(e)
<1>1. end[e] \in EndState
  BY DEF TypeOK, Typed
<1>2. s \in EndState /\ s.sent = end[e].sent
  BY <1>1, StartedFields DEF Sender
<1>3. /\ end[e].sent <= MaxPn /\ net' = net \cup {Made(e, s)}
      /\ end' = [end EXCEPT ![e] = [s EXCEPT !.sent = @ + 1]]
  BY DEF Send, Sender, Due, Made
<1> HIDE DEF s
<1>4. s.sent \in Nat /\ s.sent % Window \in Int /\ s.sent \in 0..MaxPn
  BY <1>2, <1>3, KeyAssumption DEF EndState
<1>5. Made(e, s) \in Packet
  BY <1>2, <1>4 DEF Made, Packet, EndState
<1>6. Made(e, s).wire = Made(e, s).pn % Window
  BY DEF Made
<1>7. [s EXCEPT !.sent = @ + 1] \in EndState
  BY <1>2, <1>4, s.sent + 1 \in Nat DEF EndState
<1> QED BY <1>2, <1>3, <1>5, <1>6, <1>7 DEF s

LEMMA TypeStep == TypeOK /\ [Next]_vars => TypeOK'
<1> SUFFICES ASSUME TypeOK, [Next]_vars PROVE TypeOK'
  OBVIOUS
<1>1. ASSUME NEW e \in Ends, StartKeyRotation(e) PROVE TypeOK'
  <2>1. Started(end[e]) \in EndState
    BY <1>1, StartedFields DEF StartKeyRotation, TypeOK, Typed
  <2> QED BY <1>1, <2>1 DEF StartKeyRotation, TypeOK, Typed
<1>2. ASSUME NEW e \in Ends, Send(e) PROVE TypeOK'
  BY <1>2, SentState DEF TypeOK, Typed
<1>3. ASSUME NEW e \in Ends, GuardEnds(e) PROVE TypeOK'
  <2>1. [end[e] EXCEPT !.guard = FALSE] \in EndState
    BY DEF TypeOK, Typed, EndState
  <2> QED BY <1>3, <2>1 DEF GuardEnds, TypeOK, Typed
<1>4. ASSUME NEW p \in net, Receive(p) PROVE TypeOK'
  <2> DEFINE e == Peer(p.from)
             u == Unprotected(end[e], p)
             t == IF u.read THEN Heard(u.state, p) ELSE u.state
  <2>1. e \in Ends /\ p \in Packet /\ net' = net \ {p} /\ end' = [end EXCEPT ![e] = t]
    BY <1>4, ReceivedState
  <2>2. u.state \in EndState
    BY <1>4, ReceivedState, UnprotectedTyped
  <2>3. t \in EndState
    BY <2>1, <2>2, HeardTyped
  <2> HIDE DEF t
  <2> QED BY <2>1, <2>3 DEF TypeOK, Typed
<1>5. ASSUME NEW p \in net, Lose(p) PROVE TypeOK'
  BY <1>5 DEF Lose, TypeOK, Typed
<1>6. CASE UNCHANGED vars
  BY <1>6 DEF vars, TypeOK, Typed
<1> QED BY <1>1, <1>2, <1>3, <1>4, <1>5, <1>6 DEF Next

LEMMA TypeInit == Init => TypeOK
<1>1. Init => NewEnd \in EndState
  BY KeyAssumption, Constants DEF NewEnd, EndState, KeyOrNone
<1> QED BY <1>1 DEF Init, TypeOK, Typed

(* The contexts of both ends and the packets keep their types.             *)
THEOREM TypeCorrect == Spec => []TypeOK
BY TypeInit, TypeStep, PTL DEF Spec

(* picoquic_get_packet_number64: whatever is lost or overtaken, a packet   *)
(* within half a window of the highest one is not taken for another.       *)
THEOREM NumbersAlwaysRebuilt == Spec => []NumbersRebuilt
<1>1. TypeOK => NumbersRebuilt
  <2> SUFFICES ASSUME TypeOK, NEW p \in net, InWindow(p)
               PROVE  PacketNumber64(end[Peer(p.from)].highest, p.wire) = p.pn
    BY DEF NumbersRebuilt
  <2>1. p \in Packet /\ p.wire = p.pn % Window /\ end[Peer(p.from)] \in EndState
    BY EndsFacts DEF TypeOK, Typed, Packet
  <2>2. end[Peer(p.from)].highest \in Nat \cup {-1} /\ p.pn \in Nat
    BY <2>1, Constants DEF EndState, KeyOrNone, Packet
  <2> QED BY <2>1, <2>2, NumberRebuilt DEF InWindow
<1> QED BY <1>1, TypeCorrect, PTL

-----------------------------------------------------------------------------
(* Keys *)

LEMMA KeysInit == Init => KeysInv
<1> SUFFICES ASSUME Init PROVE KeysInv
  OBVIOUS
<1>1. end["client"] = NewEnd /\ end["server"] = NewEnd /\ net = {}
  BY DEF Init, Ends
<1>2. Shape(NewEnd)
  BY DEF NewEnd, Shape, None
<1>3. Linked(NewEnd, NewEnd)
  BY Constants DEF NewEnd, Linked
<1> QED BY <1>1, <1>2, <1>3 DEF KeysInv, Between, Ordered

(* The packets and contexts after a packet arrived.                        *)
LEMMA ReceiveStep ==
  ASSUME TypeOK, TypeOK', KeysInv, NEW p \in net, Receive(p)
  PROVE  KeysInv'
<1> DEFINE e == Peer(p.from)
           s == end[e]
           r == end[Peer(e)]
           u == Unprotected(s, p)
           c == Prepared(s)
<1>1. /\ e \in Ends /\ p \in Packet /\ s \in EndState /\ r \in EndState /\ p.from # e
      /\ PacketNumber64(s.highest, p.wire) = p.pn
      /\ net' = net \ {p} /\ net \in SUBSET Packet /\ net \ {p} \in SUBSET net
      /\ end' = [end EXCEPT ![e] = IF u.read THEN Heard(u.state, p) ELSE u.state]
  BY ReceivedState, EndsFacts DEF TypeOK, Typed, Packet
<1>2. Between(s, r, e, net)
  BY <1>1, EitherSide DEF KeysInv
<1>3. c \in EndState /\ Between(c, r, e, net) /\ c.guard = s.guard
  BY <1>1, <1>2, PreparedFields, PrepareKeeps
<1>4. Placed(p, r, s)
  BY <1>1, <1>2 DEF Between
<1>5. \/ u.read = TRUE /\ p.key = s.dec /\ u.state = Lowered(s, p.pn)
      \/ u.read = TRUE /\ s.guard = TRUE /\ p.key = s.old_dec /\ u.state = s
      \/ u.read = TRUE /\ c.new_dec # None /\ p.key = c.new_dec /\ u.state = Moved(c, p.pn)
      \/ u.read = FALSE /\ u.state \in {s, c}
  BY <1>1, Outcomes
<1> HIDE DEF c, u, s, r, e
<1>6. ASSUME NEW t \in EndState, Between(t, r, e, net), p.key <= t.dec, t.rotation # Infinite,
             u.read = TRUE, u.state = t
      PROVE  KeysInv'
  <2>1. Between(Heard(t, p), r, e, net)
    BY <1>1, <1>6, HearKeeps
  <2>2. Between(Heard(t, p), r, e, net')
    BY <1>1, <2>1, FewerKeep
  <2>3. end' = [end EXCEPT ![e] = Heard(t, p)]
    BY <1>1, <1>6
  <2> QED BY <1>1, <2>2, <2>3, StepOf DEF r
<1>7. CASE u.read = TRUE /\ p.key = s.dec /\ u.state = Lowered(s, p.pn)
  <2>1. /\ Between(Lowered(s, p.pn), r, e, net) /\ Lowered(s, p.pn) \in EndState
        /\ Lowered(s, p.pn).rotation # Infinite /\ Lowered(s, p.pn).dec = s.dec
    BY <1>1, <1>2, <1>7, LowerKeeps
  <2>2. p.key <= Lowered(s, p.pn).dec
    BY <1>1, <1>7, <2>1 DEF EndState
  <2> QED BY <1>6, <1>7, <2>1, <2>2
<1>8. CASE u.read = TRUE /\ s.guard = TRUE /\ p.key = s.old_dec /\ u.state = s
  <2>1. p.key <= s.dec
    BY <1>1, <1>2, <1>8, Constants DEF Between, Shape, EndState, Packet
  <2>2. s.rotation # Infinite
    BY <1>2, <1>8 DEF Between, Linked
  <2> QED BY <1>1, <1>2, <1>6, <1>8, <2>1, <2>2
<1>9. CASE u.read = TRUE /\ c.new_dec # None /\ p.key = c.new_dec /\ u.state = Moved(c, p.pn)
  <2>1. /\ Between(Moved(c, p.pn), r, e, net) /\ Moved(c, p.pn) \in EndState
        /\ Moved(c, p.pn).rotation # Infinite /\ Moved(c, p.pn).dec = p.key
    BY <1>1, <1>3, <1>9, MoveKeeps
  <2>2. p.key <= Moved(c, p.pn).dec
    BY <1>1, <2>1 DEF Packet
  <2> QED BY <1>6, <1>9, <2>1, <2>2
<1>10. CASE u.read = FALSE /\ u.state \in {s, c}
  <2>1. end' = [end EXCEPT ![e] = u.state]
    BY <1>1, <1>10
  <2>2. Between(u.state, r, e, net)
    BY <1>2, <1>3, <1>10
  <2>3. Between(u.state, r, e, net')
    BY <1>1, <2>2, FewerKeep
  <2> QED BY <1>1, <2>1, <2>3, StepOf DEF r
<1> QED BY <1>5, <1>7, <1>8, <1>9, <1>10

LEMMA KeysStep ==
  ASSUME Confirmed, TypeOK, TypeOK', KeysInv, [Next]_vars
  PROVE  KeysInv'
<1>1. ASSUME NEW e \in Ends
      PROVE  /\ end[e] \in EndState /\ end[Peer(e)] \in EndState /\ net \in SUBSET Packet
             /\ Between(end[e], end[Peer(e)], e, net)
  BY EndsFacts, EitherSide DEF TypeOK, Typed, KeysInv
<1>2. ASSUME NEW e \in Ends, StartKeyRotation(e) PROVE KeysInv'
  <2>1. MayStart(end[e]) /\ end[e].acked >= end[e].first
    BY <1>2 DEF StartKeyRotation, Waited
  <2>2. Between(Started(end[e]), end[Peer(e)], e, net)
    BY <1>1, <2>1, StartKeeps
  <2>3. end' = [end EXCEPT ![e] = Started(end[e])] /\ net' = net
    BY <1>2 DEF StartKeyRotation
  <2> QED BY <2>2, <2>3, StepOf
<1>3. ASSUME NEW e \in Ends, Send(e) PROVE KeysInv'
  <2> DEFINE s == Sender(e)
  <2>1. Between(s, end[Peer(e)], e, net)
    <3>1. CASE Due(e) /\ MayStart(end[e])
      <4>1. end[e].acked >= end[e].first
        BY <1>3, <3>1 DEF Send, Due, Waited
      <4> QED BY <1>1, <3>1, <4>1, StartKeeps DEF Sender
    <3>2. CASE ~(Due(e) /\ MayStart(end[e]))
      BY <1>1, <3>2 DEF Sender
    <3> QED BY <3>1, <3>2
  <2>2. /\ s \in EndState /\ s.sent <= MaxPn /\ Made(e, s) \in Packet
        /\ net' = net \cup {Made(e, s)}
        /\ end' = [end EXCEPT ![e] = [s EXCEPT !.sent = @ + 1]]
    BY <1>3, SentState
  <2> HIDE DEF s
  <2>3. /\ Made(e, s).from = e /\ Made(e, s).pn = s.sent
        /\ Made(e, s).key = s.enc /\ Made(e, s).ack = s.highest
    BY DEF Made
  <2>4. Between([s EXCEPT !.sent = @ + 1], end[Peer(e)], e, net')
    BY <1>1, <2>1, <2>2, <2>3, SendKeeps
  <2> QED BY <2>2, <2>4, StepOf
<1>4. ASSUME NEW e \in Ends, GuardEnds(e) PROVE KeysInv'
  <2>1. Between([end[e] EXCEPT !.guard = FALSE], end[Peer(e)], e, net)
    BY <1>1, GuardKeeps
  <2>2. end' = [end EXCEPT ![e] = [end[e] EXCEPT !.guard = FALSE]] /\ net' = net
    BY <1>4 DEF GuardEnds, TypeOK, Typed
  <2> QED BY <2>1, <2>2, StepOf
<1>5. ASSUME NEW p \in net, Receive(p) PROVE KeysInv'
  BY <1>5, ReceiveStep
<1>6. ASSUME NEW p \in net, Lose(p) PROVE KeysInv'
  BY <1>6, FewerKeep DEF Lose, KeysInv
<1>7. CASE UNCHANGED vars
  BY <1>7 DEF vars, KeysInv
<1> QED BY <1>2, <1>3, <1>4, <1>5, <1>6, <1>7 DEF Next

(* What the invariant says of a packet: the key that is tried is its key.  *)
LEMMA Readable ==
  ASSUME TypeOK, KeysInv, NEW p \in net, InWindow(p),
         \/ p.key >= end[Peer(p.from)].dec
         \/ end[Peer(p.from)].guard /\ p.key = end[Peer(p.from)].old_dec
  PROVE  Unprotected(end[Peer(p.from)], p).read
<1> DEFINE e == Peer(p.from)
           s == end[e]
           r == end[Peer(e)]
<1>1. /\ e \in Ends /\ p \in Packet /\ p.wire = p.pn % Window /\ s \in EndState /\ r \in EndState
      /\ p.from # e /\ net \in SUBSET Packet
  BY EndsFacts DEF TypeOK, Typed, Packet
<1>2. Between(s, r, e, net)
  BY <1>1, EitherSide DEF KeysInv
<1>3. Shape(s) /\ Linked(r, s) /\ Placed(p, r, s)
  BY <1>1, <1>2 DEF Between
<1>4. PacketNumber64(s.highest, p.wire) = p.pn
  BY <1>1, Constants, NumberRebuilt DEF InWindow, EndState, KeyOrNone, Packet
<1>5. p.key \in Nat /\ s.dec \in Nat /\ p.pn \in Nat /\ p.pn < Infinite /\ s.rotation \in Nat
  BY <1>1, Constants DEF Packet, EndState
<1>6. p.key <= s.dec + 1
  BY <1>1, <1>3, <1>5 DEF Linked, Placed, EndState
<1>7. (p.key >= s.dec \/ (s.guard /\ p.key = s.old_dec)) <=> TRUE
  OBVIOUS
<1> HIDE DEF s, r, e
<1>8. CASE p.key = s.dec
  BY <1>4, <1>8 DEF Unprotected, Current, WithCurrent, Reads, s, e
<1>9. CASE p.key = s.dec + 1
  <2>1. ~Current(s, p)
    BY <1>5, <1>9 DEF Current
  <2>2. r.enc = s.dec + 1 /\ s.rotation < p.pn
    BY <1>1, <1>3, <1>5, <1>9 DEF Linked, Placed, EndState
  <2>3. s.rotation # Infinite
    BY <1>3, <1>5, <2>2 DEF Linked
  <2>4. ~Old(s, p.pn)
    BY <1>5, <2>2, <2>3 DEF Old
  <2>5. Prepared(s).new_dec = s.dec + 1 /\ s.dec + 1 # None
    BY <1>1, <1>3, <1>5, PreparedFields, Constants DEF Shape, EndState, KeyOrNone
  <2>6. Unprotected(s, p) = WithNew(s, p, p.pn)
    BY <1>4, <2>1, <2>4 DEF Unprotected
  <2>7. WithNew(s, p, p.pn).read = (Prepared(s).new_dec # None /\ Reads(p, Prepared(s).new_dec, p.pn))
    BY DEF WithNew, Prepared
  <2> QED BY <1>9, <2>5, <2>6, <2>7 DEF Reads, s, e
<1>10. CASE s.guard /\ p.key = s.old_dec /\ p.key < s.dec
  <2>1. p.key = s.dec - 1 /\ s.old_dec # None
    BY <1>3, <1>5, <1>10, Constants DEF Shape
  <2>2. ~Current(s, p)
    BY <1>5, <2>1 DEF Current
  <2>3. Old(s, p.pn)
    BY <1>3, <1>10 DEF Old, Placed
  <2> QED BY <1>4, <1>10, <2>1, <2>2, <2>3 DEF Unprotected, WithOld, Reads, s, e
<1>11. \/ p.key = s.dec \/ p.key = s.dec + 1 \/ (s.guard /\ p.key = s.old_dec /\ p.key < s.dec)
  BY <1>5, <1>6, <1>7
<1> QED BY <1>8, <1>9, <1>10, <1>11

(* Keys follow each other, and a packet that arrives is read.              *)
LEMMA Agreement == TypeOK /\ KeysInv => KeysAgree
<1> SUFFICES ASSUME TypeOK, KeysInv PROVE KeysAgree
  OBVIOUS
<1>1. KeysFollow
  <2> SUFFICES ASSUME NEW e \in Ends
               PROVE  LET r == end[Peer(e)]
                      IN  end[e].enc = r.dec \/ (end[e].enc = r.dec + 1 /\ r.new_dec \in {None, end[e].enc})
    BY DEF KeysFollow
  <2>1. end[e] \in EndState /\ end[Peer(e)] \in EndState /\ Between(end[e], end[Peer(e)], e, net)
    BY EndsFacts, EitherSide DEF TypeOK, Typed, KeysInv
  <2>2. Shape(end[Peer(e)]) /\ Linked(end[e], end[Peer(e)])
    BY <2>1 DEF Between
  <2> QED BY <2>1, <2>2 DEF Shape, Linked, EndState
<1>2. PacketsReadable
  BY Readable DEF PacketsReadable
<1> QED BY <1>1, <1>2 DEF KeysAgree

(* picoquic_remove_packet_protection: when both ends wait for an ACK of    *)
(* the current key before they rotate, neither is ever more than one key   *)
(* ahead, and a packet is tried with its own key, however late it comes    *)
(* within the guard time.                                                  *)
THEOREM KeysAlwaysAgree == Confirmed => (Spec => []KeysAgree)
<1> SUFFICES ASSUME Confirmed PROVE Spec => []KeysAgree
  OBVIOUS
<1>1. TypeOK /\ TypeOK' /\ KeysInv /\ [Next]_vars => KeysInv'
  BY KeysStep
<1> QED BY TypeCorrect, KeysInit, Agreement, <1>1, PTL DEF Spec

-----------------------------------------------------------------------------
(***************************************************************************)
(* Discovery of the MTU                                                    *)
(***************************************************************************)

Packets == [number : Nat, length : Nat \ {0}, probe : BOOLEAN]

MtuTypeOK ==
  /\ mtu \in Nat \ {0} /\ tried \in Nat /\ probing \in BOOLEAN /\ losses \in Nat
  /\ flight \in SUBSET Packets /\ repeated \in SUBSET Packets
  /\ seen \in [number : Nat, arrived : SUBSET Nat, refused : SUBSET (Nat \ {0}), reset : BOOLEAN]

(* Before the discovery starts over: what is longer than the MTU is a      *)
(* probe that is shorter than what was lost, and alone.                    *)
Ahead ==
  \A p \in flight : p.length > mtu =>
    /\ p.probe /\ probing
    /\ \A r \in seen.refused : p.length < r \/ r <= mtu
    /\ \A q \in flight : q.length > mtu => q = p

(* A lost length bounds the next probe, or was carried after all.          *)
Bounded == \A r \in seen.refused : tried # 0 /\ (tried <= r \/ r <= mtu)

(* What was declared lost and is longer than the MTU was a probe.          *)
LostProbes == \A p \in repeated : p.length > mtu => p.length \in seen.refused

(* A probe overtaken by the MTU ends the discovery.                        *)
Overtaken ==
  \A p \in flight : p.probe /\ p.length <= mtu =>
    tried # 0 /\ tried <= mtu /\ \A q \in flight : q.length <= mtu

MtuIInv ==
  /\ MtuTypeOK /\ ProbeTracked /\ LengthsCarried
  /\ ~seen.reset => Ahead /\ Bounded /\ LostProbes /\ Overtaken

(* What is probed next is a length, and after a loss a shorter one.        *)
LEMMA NextLengthShorter ==
  ASSUME MtuTypeOK
  PROVE  /\ NextLength \in Nat
         /\ tried > Second => NextLength < tried
<1> USE MtuAssumption DEF MtuTypeOK
<1>1. CASE tried = 0 /\ RemoteMax > 0
  BY <1>1, SMT DEF NextLength, Lower, Higher
<1>2. CASE tried = 0 /\ RemoteMax = 0
  BY <1>2, SMT DEF NextLength
<1>3. CASE tried > First
  BY <1>3, SMT DEF NextLength
<1>4. CASE tried > Second /\ tried <= First
  BY <1>4, SMT DEF NextLength
<1>5. CASE tried # 0 /\ tried <= Second
  BY <1>5, SMT DEF NextLength
<1> QED BY <1>1, <1>2, <1>3, <1>4, <1>5

(* A probe that is needed is longer than the MTU, also when the buffer     *)
(* cuts it, and alone.                                                     *)
LEMMA NeededLonger ==
  ASSUME MtuTypeOK, NEW queued \in Queued, NEW buffer \in Buffers,
         Needed(queued) # "no", buffer > mtu
  PROVE  LET length == Lower(NextLength, buffer)
         IN  /\ ~probing /\ length \in Nat \ {0} /\ length > mtu
             /\ tried # 0 => length < tried
<1>1. ~probing /\ (tried = 0 \/ tried > Second) /\ NextLength > mtu
  BY NextLengthShorter, SMT DEF Needed, MtuTypeOK
<1> QED BY <1>1, NextLengthShorter, MtuAssumption, SMT DEF Lower, MtuTypeOK

LEMMA MtuTypeStep ==
  ASSUME MtuTypeOK, [MtuNext]_mtuVars
  PROVE  MtuTypeOK'
<1> USE MtuAssumption
<1>1. ASSUME NEW queued \in Queued, NEW buffer \in Buffers, SendProbe(queued, buffer)
      PROVE  MtuTypeOK'
  <2>1. Lower(NextLength, buffer) \in Nat \ {0}
    BY <1>1, NeededLonger DEF SendProbe
  <2> DEFINE p == [number |-> seen.number + 1, length |-> Lower(NextLength, buffer), probe |-> TRUE]
  <2>2. p \in Packets
    BY <2>1 DEF Packets, MtuTypeOK
  <2>3. flight' = flight \cup {p}
    BY <1>1 DEF SendProbe, Sent
  <2> HIDE DEF p
  <2>4. flight' \in SUBSET Packets
    BY <2>2, <2>3 DEF MtuTypeOK
  <2>5. seen' \in [number : Nat, arrived : SUBSET Nat, refused : SUBSET (Nat \ {0}), reset : BOOLEAN]
    BY <1>1 DEF SendProbe, Sent, MtuTypeOK
  <2> QED BY <1>1, <2>4, <2>5 DEF SendProbe, MtuTypeOK
<1>2. ASSUME NEW queued \in Queued, NEW buffer \in Buffers, SendFull(queued, buffer)
      PROVE  MtuTypeOK'
  <2> DEFINE p == [number |-> seen.number + 1, length |-> mtu, probe |-> FALSE]
  <2>1. p \in Packets
    BY DEF Packets, MtuTypeOK
  <2>2. flight' = flight \cup {p}
    BY <1>2 DEF SendFull, Sent
  <2> HIDE DEF p
  <2>3. flight' \in SUBSET Packets
    BY <2>1, <2>2 DEF MtuTypeOK
  <2>4. seen' \in [number : Nat, arrived : SUBSET Nat, refused : SUBSET (Nat \ {0}), reset : BOOLEAN]
    BY <1>2 DEF SendFull, Sent, MtuTypeOK
  <2> QED BY <1>2, <2>3, <2>4 DEF SendFull, MtuTypeOK
<1>3. ASSUME NEW p \in flight, AckReceived(p)
      PROVE  MtuTypeOK'
  BY <1>3 DEF AckReceived, Raised, Arrived, MtuTypeOK, Packets
<1>4. ASSUME NEW p \in flight, ProbeLost(p)
      PROVE  MtuTypeOK'
  BY <1>4 DEF ProbeLost, Declared, MtuTypeOK, Packets
<1>5. ASSUME NEW p \in flight, DataLost(p)
      PROVE  MtuTypeOK'
  <2>1. mtu' \in Nat \ {0} /\ tried' \in Nat /\ probing' \in BOOLEAN
    <3>1. Reset \/ UNCHANGED <<mtu, tried, probing>>
      BY <1>5 DEF DataLost
    <3>2. CASE Reset
      BY <3>2, MtuAssumption DEF Reset
    <3>3. CASE UNCHANGED <<mtu, tried, probing>>
      BY <3>3 DEF MtuTypeOK
    <3> QED BY <3>1, <3>2, <3>3
  <2>2. losses' \in Nat
    BY <1>5 DEF DataLost, MtuTypeOK
  <2>3. flight' \in SUBSET Packets /\ repeated' \in SUBSET Packets
    BY <1>5 DEF DataLost, Declared, MtuTypeOK
  <2>4. seen' \in [number : Nat, arrived : SUBSET Nat, refused : SUBSET (Nat \ {0}), reset : BOOLEAN]
    BY <1>5 DEF DataLost, MtuTypeOK
  <2> QED BY <2>1, <2>2, <2>3, <2>4 DEF MtuTypeOK
<1>6. ASSUME NEW p \in repeated, LateAck(p)
      PROVE  MtuTypeOK'
  BY <1>6 DEF LateAck, Raised, Arrived, Higher, MtuTypeOK, Packets
<1>7. CASE UNCHANGED mtuVars
  BY <1>7 DEF mtuVars, pathVars, MtuTypeOK
<1> QED BY <1>1, <1>2, <1>3, <1>4, <1>5, <1>6, <1>7 DEF MtuNext

(* The parts of a sent packet and of the state it leaves.                  *)
LEMMA SentFields ==
  ASSUME MtuTypeOK, NEW length \in Nat \ {0}, NEW probe \in BOOLEAN, Sent(length, probe)
  PROVE  \E p \in Packets : p.length = length /\ p.probe = probe /\ flight' = flight \cup {p}
<1> DEFINE p == [number |-> seen.number + 1, length |-> length, probe |-> probe]
<1>1. p \in Packets
  BY DEF Packets, MtuTypeOK
<1> QED BY <1>1 DEF Sent

LEMMA SeenFields ==
  ASSUME MtuTypeOK
  PROVE  /\ \A length, probe : Sent(length, probe) =>
              seen'.arrived = seen.arrived /\ seen'.refused = seen.refused /\ seen'.reset = seen.reset
         /\ \A length \in Nat : Arrived(length) =>
              /\ seen'.arrived = seen.arrived \cup {length}
              /\ seen'.refused = seen.refused /\ seen'.reset = seen.reset
BY DEF Sent, Arrived, MtuTypeOK

(* A probe that is thought outstanding is.                                 *)
LEMMA TrackedStep ==
  ASSUME MtuTypeOK, ProbeTracked, [MtuNext]_mtuVars
  PROVE  ProbeTracked'
<1>1. ASSUME NEW queued \in Queued, NEW buffer \in Buffers, SendProbe(queued, buffer)
      PROVE  ProbeTracked'
  <2>1. Lower(NextLength, buffer) \in Nat \ {0} /\ Lower(NextLength, buffer) > mtu
    BY <1>1, NeededLonger DEF SendProbe
  <2>2. PICK p \in Packets : p.length = Lower(NextLength, buffer) /\ p.probe = TRUE /\ flight' = flight \cup {p}
    BY <1>1, <2>1, SentFields DEF SendProbe
  <2> QED BY <1>1, <2>1, <2>2 DEF SendProbe, ProbeTracked
<1>2. ASSUME NEW queued \in Queued, NEW buffer \in Buffers, SendFull(queued, buffer)
      PROVE  ProbeTracked'
  BY <1>2 DEF SendFull, Sent, ProbeTracked
<1>3. ASSUME NEW p \in flight, AckReceived(p)
      PROVE  ProbeTracked'
  BY <1>3 DEF AckReceived, Raised, ProbeTracked
<1>4. ASSUME NEW p \in flight, ProbeLost(p)
      PROVE  ProbeTracked'
  BY <1>4 DEF ProbeLost, ProbeTracked
<1>5. ASSUME NEW p \in flight, DataLost(p)
      PROVE  ProbeTracked'
  BY <1>5 DEF DataLost, Declared, Reset, ProbeTracked
<1>6. ASSUME NEW p \in repeated, LateAck(p)
      PROVE  ProbeTracked'
  BY <1>6 DEF LateAck, Raised, ProbeTracked
<1>7. CASE UNCHANGED mtuVars
  BY <1>7 DEF mtuVars, pathVars, ProbeTracked
<1> QED BY <1>1, <1>2, <1>3, <1>4, <1>5, <1>6, <1>7 DEF MtuNext

(* The MTU is a length that arrived, the first one or the lowest one.      *)
LEMMA CarriedStep ==
  ASSUME MtuTypeOK, LengthsCarried, [MtuNext]_mtuVars
  PROVE  LengthsCarried'
<1>1. ASSUME NEW queued \in Queued, NEW buffer \in Buffers,
             SendProbe(queued, buffer) \/ SendFull(queued, buffer)
      PROVE  LengthsCarried'
  BY <1>1, SeenFields DEF SendProbe, SendFull, LengthsCarried
<1>2. ASSUME NEW p \in Packets, Raised(p.length), Arrived(p.length)
      PROVE  LengthsCarried'
  <2>1. p.length \in Nat
    BY DEF Packets
  <2> QED BY <1>2, <2>1, SeenFields DEF Raised, LengthsCarried
<1>3. ASSUME NEW p \in flight, AckReceived(p)
      PROVE  LengthsCarried'
  BY <1>2, <1>3 DEF AckReceived, MtuTypeOK
<1>4. ASSUME NEW p \in flight, ProbeLost(p)
      PROVE  LengthsCarried'
  BY <1>4 DEF ProbeLost, LengthsCarried, MtuTypeOK
<1>5. ASSUME NEW p \in flight, DataLost(p)
      PROVE  LengthsCarried'
  BY <1>5 DEF DataLost, Reset, LengthsCarried, MtuTypeOK
<1>6. ASSUME NEW p \in repeated, LateAck(p)
      PROVE  LengthsCarried'
  BY <1>2, <1>6 DEF LateAck, MtuTypeOK
<1>7. CASE UNCHANGED mtuVars
  BY <1>7 DEF mtuVars, pathVars, LengthsCarried
<1> QED BY <1>1, <1>3, <1>4, <1>5, <1>6, <1>7 DEF MtuNext

(* The order of probes, before the discovery starts over.                  *)
ProbesOrdered == Ahead /\ Bounded /\ LostProbes /\ Overtaken

LEMMA OrderedProbe ==
  ASSUME MtuTypeOK, ProbesOrdered, NEW queued \in Queued, NEW buffer \in Buffers, SendProbe(queued, buffer)
  PROVE  ProbesOrdered'
<1> DEFINE length == Lower(NextLength, buffer)
<1>1. /\ ~probing /\ length \in Nat \ {0} /\ length > mtu
      /\ tried # 0 => length < tried
  BY NeededLonger DEF SendProbe
<1>2. PICK p \in Packets : p.length = length /\ p.probe = TRUE /\ flight' = flight \cup {p}
  BY <1>1, SentFields DEF SendProbe
<1>3. seen'.refused = seen.refused
  BY SeenFields DEF SendProbe
<1>4. mtu' = mtu /\ tried' = tried /\ probing' = TRUE /\ repeated' = repeated
  BY DEF SendProbe
<1> HIDE DEF length
<1>5. \A q \in flight : q.length <= mtu
  BY <1>1 DEF ProbesOrdered, Ahead, MtuTypeOK, Packets
<1>6. \A q \in flight : ~q.probe
  <2> SUFFICES ASSUME NEW q \in flight, q.probe
               PROVE  FALSE
    OBVIOUS
  <2>1. tried # 0 /\ tried <= mtu
    BY <1>5 DEF ProbesOrdered, Overtaken
  <2> QED BY <1>1, <2>1 DEF MtuTypeOK
<1>7. Ahead'
  <2>1. \A r \in seen.refused : length < r \/ r <= mtu
    BY <1>1 DEF ProbesOrdered, Bounded, MtuTypeOK
  <2> QED BY <1>2, <1>3, <1>4, <1>5, <2>1 DEF Ahead, MtuTypeOK, Packets
<1>8. Overtaken'
  BY <1>1, <1>2, <1>4, <1>6 DEF Overtaken, MtuTypeOK
<1> QED BY <1>3, <1>4, <1>7, <1>8 DEF ProbesOrdered, Bounded, LostProbes

LEMMA OrderedFull ==
  ASSUME MtuTypeOK, ProbesOrdered, NEW queued \in Queued, NEW buffer \in Buffers, SendFull(queued, buffer)
  PROVE  ProbesOrdered'
<1>1. PICK p \in Packets : p.length = mtu /\ p.probe = FALSE /\ flight' = flight \cup {p}
  BY SentFields DEF SendFull, MtuTypeOK
<1>2. seen'.refused = seen.refused
  BY SeenFields DEF SendFull
<1>3. mtu' = mtu /\ tried' = tried /\ probing' = probing /\ repeated' = repeated
  BY DEF SendFull
<1>4. Ahead'
  BY <1>1, <1>2, <1>3 DEF ProbesOrdered, Ahead, MtuTypeOK
<1>5. Overtaken'
  BY <1>1, <1>3 DEF ProbesOrdered, Overtaken, MtuTypeOK
<1> QED BY <1>2, <1>3, <1>4, <1>5 DEF ProbesOrdered, Bounded, LostProbes

LEMMA OrderedAck ==
  ASSUME MtuTypeOK, ProbesOrdered, NEW p \in flight, AckReceived(p)
  PROVE  ProbesOrdered'
<1>1. p.length \in Nat
  BY DEF MtuTypeOK, Packets
<1>2. seen'.refused = seen.refused
  BY <1>1, SeenFields DEF AckReceived
<1>3. flight' = flight \ {p} /\ tried' = tried /\ repeated' = repeated
  BY DEF AckReceived
<1>4. CASE p.length <= mtu
  <2>1. mtu' = mtu /\ probing' = probing
    BY <1>1, <1>4 DEF AckReceived, Raised, MtuTypeOK
  <2> QED BY <1>2, <1>3, <2>1 DEF ProbesOrdered, Ahead, Bounded, LostProbes, Overtaken
<1>5. CASE p.length > mtu
  <2>1. mtu' = p.length
    BY <1>5 DEF AckReceived, Raised
  <2>2. \A q \in flight' : q.length <= mtu /\ ~q.probe
    <3> SUFFICES ASSUME NEW q \in flight, q # p
                 PROVE  q.length <= mtu /\ ~q.probe
      BY <1>3
    <3>1. q.length <= mtu
      BY <1>5 DEF ProbesOrdered, Ahead, MtuTypeOK, Packets
    <3>2. q.probe => p.length <= mtu
      BY <3>1 DEF ProbesOrdered, Overtaken
    <3> QED BY <1>1, <1>5, <3>1, <3>2 DEF MtuTypeOK
  <2>3. \A q \in flight' : q.length \in Nat
    BY <1>3 DEF MtuTypeOK, Packets
  <2>4. Ahead' /\ Overtaken'
    BY <1>1, <1>5, <2>1, <2>2, <2>3 DEF Ahead, Overtaken, MtuTypeOK
  <2>5. Bounded' /\ LostProbes'
    BY <1>1, <1>2, <1>3, <1>5, <2>1 DEF ProbesOrdered, Bounded, LostProbes, MtuTypeOK, Packets
  <2> QED BY <2>4, <2>5 DEF ProbesOrdered
<1> QED BY <1>1, <1>4, <1>5 DEF MtuTypeOK

LEMMA OrderedLoss ==
  ASSUME MtuTypeOK, ProbesOrdered, NEW p \in flight, ProbeLost(p)
  PROVE  ProbesOrdered'
<1>1. p.length \in Nat \ {0} /\ mtu \in Nat
  BY DEF MtuTypeOK, Packets
<1>2. seen'.refused = seen.refused \cup {p.length}
  BY DEF ProbeLost, MtuTypeOK
<1>3. flight' = flight \ {p} /\ repeated' = repeated \cup {p} /\ tried' = p.length /\ mtu' = mtu /\ p.probe
  BY DEF ProbeLost, Declared
<1>4. \A q \in flight' : q.length <= mtu
  <2> SUFFICES ASSUME NEW q \in flight, q # p
               PROVE  q.length <= mtu
    BY <1>3
  <2>1. CASE p.length > mtu
    BY <2>1 DEF ProbesOrdered, Ahead, MtuTypeOK, Packets
  <2>2. CASE p.length <= mtu
    BY <1>3, <2>2 DEF ProbesOrdered, Overtaken
  <2> QED BY <1>1, <2>1, <2>2
<1>5. Ahead'
  BY <1>1, <1>3, <1>4 DEF Ahead, MtuTypeOK, Packets
<1>6. Bounded'
  <2> SUFFICES ASSUME NEW r \in seen.refused \cup {p.length}
               PROVE  p.length <= r \/ r <= mtu
    BY <1>1, <1>2, <1>3 DEF Bounded
  <2>1. r \in Nat
    BY <1>1 DEF MtuTypeOK
  <2>2. CASE r \in seen.refused /\ p.length > mtu
    BY <1>1, <2>1, <2>2 DEF ProbesOrdered, Ahead
  <2> QED BY <1>1, <2>1, <2>2
<1>7. LostProbes'
  BY <1>2, <1>3 DEF ProbesOrdered, LostProbes
<1>8. Overtaken'
  <2> SUFFICES ASSUME NEW q \in flight, q # p, q.probe
               PROVE  p.length <= mtu
    BY <1>1, <1>3, <1>4 DEF Overtaken
  <2>1. q.length <= mtu
    BY <1>3, <1>4
  <2> QED BY <2>1 DEF ProbesOrdered, Overtaken
<1> QED BY <1>5, <1>6, <1>7, <1>8 DEF ProbesOrdered

LEMMA OrderedData ==
  ASSUME MtuTypeOK, ProbesOrdered, NEW p \in flight, DataLost(p), UNCHANGED <<mtu, tried, probing, seen>>
  PROVE  ProbesOrdered'
<1>1. flight' = flight \ {p} /\ repeated' = repeated \cup {p} /\ ~p.probe
  BY DEF DataLost, Declared
<1>2. ~(p.length > mtu)
  BY <1>1 DEF ProbesOrdered, Ahead
<1> QED BY <1>1, <1>2 DEF ProbesOrdered, Ahead, Bounded, LostProbes, Overtaken

LEMMA OrderedLate ==
  ASSUME MtuTypeOK, ProbesOrdered, NEW p \in repeated, LateAck(p)
  PROVE  ProbesOrdered'
<1>1. p.length \in Nat /\ mtu \in Nat /\ tried \in Nat
  BY DEF MtuTypeOK, Packets
<1>2. seen'.refused = seen.refused
  BY <1>1, SeenFields DEF LateAck
<1>3. flight' = flight /\ repeated' = repeated \ {p}
  BY DEF LateAck
<1>4. CASE p.length <= mtu
  <2>1. mtu' = mtu /\ probing' = probing /\ tried' = tried
    BY <1>1, <1>4 DEF LateAck, Raised
  <2> QED BY <1>2, <1>3, <2>1 DEF ProbesOrdered, Ahead, Bounded, LostProbes, Overtaken
<1>5. CASE p.length > mtu
  <2>1. p.length \in seen.refused /\ tried # 0 /\ tried <= p.length
    BY <1>1, <1>5 DEF ProbesOrdered, LostProbes, Bounded
  <2>2. mtu' = p.length /\ tried' = p.length
    BY <1>1, <1>5, <2>1 DEF LateAck, Raised, Higher
  <2>3. \A q \in flight : q.length <= p.length
    BY <1>1, <1>5, <2>1 DEF ProbesOrdered, Ahead, MtuTypeOK, Packets
  <2>4. Ahead' /\ Overtaken'
    BY <1>1, <1>3, <2>1, <2>2, <2>3 DEF Ahead, Overtaken, MtuTypeOK, Packets
  <2>5. Bounded'
    BY <1>1, <1>2, <2>1, <2>2 DEF Bounded, MtuTypeOK
  <2>6. LostProbes'
    BY <1>1, <1>2, <1>3, <1>5, <2>2 DEF ProbesOrdered, LostProbes, MtuTypeOK, Packets
  <2> QED BY <2>4, <2>5, <2>6 DEF ProbesOrdered
<1> QED BY <1>1, <1>4, <1>5

LEMMA OrderedStep ==
  ASSUME MtuTypeOK, ~seen.reset => ProbesOrdered, [MtuNext]_mtuVars
  PROVE  (~seen.reset => ProbesOrdered)'
<1>1. ASSUME NEW queued \in Queued, NEW buffer \in Buffers,
             SendProbe(queued, buffer) \/ SendFull(queued, buffer)
      PROVE  (~seen.reset => ProbesOrdered)'
  <2>1. seen'.reset = seen.reset
    BY <1>1, SeenFields DEF SendProbe, SendFull
  <2> QED BY <1>1, <2>1, OrderedProbe, OrderedFull
<1>2. ASSUME NEW p \in flight, AckReceived(p)
      PROVE  (~seen.reset => ProbesOrdered)'
  <2>1. seen'.reset = seen.reset
    BY <1>2, SeenFields DEF AckReceived, MtuTypeOK, Packets
  <2> QED BY <1>2, <2>1, OrderedAck
<1>3. ASSUME NEW p \in flight, ProbeLost(p)
      PROVE  (~seen.reset => ProbesOrdered)'
  <2>1. seen'.reset = seen.reset
    BY <1>3 DEF ProbeLost, MtuTypeOK
  <2> QED BY <1>3, <2>1, OrderedLoss
<1>4. ASSUME NEW p \in flight, DataLost(p)
      PROVE  (~seen.reset => ProbesOrdered)'
  <2>1. CASE UNCHANGED <<mtu, tried, probing, seen>>
    BY <1>4, <2>1, OrderedData
  <2>2. CASE seen' = [seen EXCEPT !.reset = TRUE]
    BY <2>2 DEF MtuTypeOK
  <2> QED BY <1>4, <2>1, <2>2 DEF DataLost
<1>5. ASSUME NEW p \in repeated, LateAck(p)
      PROVE  (~seen.reset => ProbesOrdered)'
  <2>1. seen'.reset = seen.reset
    BY <1>5, SeenFields DEF LateAck, MtuTypeOK, Packets
  <2> QED BY <1>5, <2>1, OrderedLate
<1>6. CASE UNCHANGED mtuVars
  BY <1>6 DEF mtuVars, pathVars, ProbesOrdered, Ahead, Bounded, LostProbes, Overtaken
<1> QED BY <1>1, <1>2, <1>3, <1>4, <1>5, <1>6 DEF MtuNext

LEMMA MtuInvariant == MtuSpec => []MtuIInv
<1>1. MtuInit => MtuIInv
  <2> SUFFICES ASSUME MtuInit
               PROVE  MtuIInv
    OBVIOUS
  <2>1. MtuTypeOK
    <3>1. seen \in [number : Nat, arrived : SUBSET Nat, refused : SUBSET (Nat \ {0}), reset : BOOLEAN]
      BY DEF MtuInit
    <3> QED BY <3>1, MtuAssumption DEF MtuInit, MtuTypeOK
  <2>2. ProbeTracked /\ LengthsCarried
    BY DEF MtuInit, ProbeTracked, LengthsCarried
  <2>3. Ahead /\ Bounded /\ LostProbes /\ Overtaken
    BY DEF MtuInit, Ahead, Bounded, LostProbes, Overtaken
  <2> QED BY <2>1, <2>2, <2>3 DEF MtuIInv
<1>2. MtuIInv /\ [MtuNext]_mtuVars => MtuIInv'
  BY MtuTypeStep, TrackedStep, CarriedStep, OrderedStep DEF MtuIInv, ProbesOrdered
<1> QED BY <1>1, <1>2, PTL DEF MtuSpec

(* The discovery of the MTU, for any lengths, buffers, policy and order of *)
(* acknowledgements: it waits only for a probe that is tracked, takes only *)
(* lengths that were carried, and does not repeat itself                   *)
(* (picoquic_is_mtu_probe_needed, picoquic_check_spurious_retransmission). *)
THEOREM MtuAlwaysSound == MtuSpec => []MtuSound
<1>1. MtuIInv => MtuSound
  <2> SUFFICES ASSUME MtuIInv, ~seen.reset, NEW p \in flight, p.probe, p.length > mtu
               PROVE  p.length \notin seen.refused /\ \A q \in flight : q.length > mtu => q = p
    BY DEF MtuIInv, MtuSound, ProbedOnce
  <2>1. \A r \in seen.refused : p.length < r \/ r <= mtu
    BY DEF MtuIInv, Ahead
  <2>2. p.length \in Nat /\ mtu \in Nat
    BY DEF MtuIInv, MtuTypeOK, Packets
  <2> QED BY <2>1, <2>2 DEF MtuIInv, Ahead
<1> QED BY <1>1, MtuInvariant, PTL

-----------------------------------------------------------------------------
(***************************************************************************)
(* Pacing                                                                  *)
(***************************************************************************)

PacerType ==
  [evaluation : Nat, bucket : Int, max : Nat, packet : Nat \ {0}, rate : Nat]

AppType ==
  [requested : BOOLEAN, decrease : Nat, increase : Nat, signalled : Nat, told : BOOLEAN]

PacingTypeOK ==
  /\ pacer \in PacerType /\ time \in Nat /\ wait \in Nat \cup {NoWait}
  /\ app \in AppType
  /\ meter \in [from : Nat, paced : Nat]

(* The bucket holds a packet and no more than its size, and what it        *)
(* allowed is what it was filled with.                                     *)
Allowance == pacer.max + (pacer.evaluation - meter.from) * Nano

Metering ==
  /\ pacer.packet <= pacer.max /\ pacer.bucket <= pacer.max
  /\ pacer.evaluation <= time /\ meter.from <= pacer.evaluation
  /\ meter.paced <= Allowance /\ meter.paced + pacer.bucket <= Allowance

(* A path waits for what the bucket lacked when it asked.                  *)
Waiting ==
  wait # NoWait =>
    /\ wait = NextTime(pacer, pacer.evaluation)
    /\ -pacer.packet <= pacer.bucket /\ pacer.bucket < pacer.packet

PacingIInv == PacingTypeOK /\ Metering /\ Waiting /\ RateKnown

LEMMA Quotient ==
  ASSUME NEW x \in Nat, NEW n \in Nat \ {0}
  PROVE  x \div n \in Nat /\ (x \div n) * n <= x /\ x < (x \div n + 1) * n
BY SMT

LEMMA QuotientGrows ==
  ASSUME NEW x \in Nat, NEW y \in Nat, NEW n \in Nat \ {0}, x <= y
  PROVE  x \div n <= y \div n
BY SMT

(* The clock fills the bucket, also one that was emptied by packets that   *)
(* did not ask, up to its size.                                            *)
LEMMA FilledFacts ==
  ASSUME NEW p \in PacerType, NEW t \in Nat, p.packet <= p.max, p.bucket <= p.max, p.evaluation <= t
  PROVE  LET f == Filled(p, t)
         IN  /\ f \in PacerType
             /\ f.evaluation = t /\ f.max = p.max /\ f.packet = p.packet /\ f.rate = p.rate
             /\ f.bucket = IF t > p.evaluation
                           THEN Least(Most(p.bucket, -p.packet) + (t - p.evaluation) * Nano, p.max)
                           ELSE Most(p.bucket, -p.packet)
<1> DEFINE owed == Most(p.bucket, -p.packet)
           poured == Least(owed + (t - p.evaluation) * Nano, p.max)
<1>1. owed \in Int
  BY SMT DEF Most, PacerType
<1>2. poured \in Int
  <2>1. (t - p.evaluation) * Nano \in Int
    BY PacingAssumption, SMT DEF PacerType
  <2> QED BY <1>1, <2>1, SMT DEF Least, PacerType
<1>3. CASE t > p.evaluation
  <2>1. Filled(p, t) = [p EXCEPT !.evaluation = t, !.bucket = poured]
    BY <1>3 DEF Filled
  <2> HIDE DEF poured
  <2>2. Filled(p, t) \in PacerType
    BY <1>2, <2>1, Zenon DEF PacerType
  <2>3. LET f == Filled(p, t)
        IN  f.evaluation = t /\ f.bucket = poured /\ f.max = p.max /\ f.packet = p.packet /\ f.rate = p.rate
    BY <2>1 DEF PacerType
  <2> QED BY <1>3, <2>2, <2>3 DEF poured
<1>4. CASE ~(t > p.evaluation)
  <2>1. Filled(p, t) = [p EXCEPT !.bucket = owed]
    BY <1>4 DEF Filled
  <2> HIDE DEF owed
  <2>2. Filled(p, t) \in PacerType
    BY <1>1, <2>1, Zenon DEF PacerType
  <2>3. LET f == Filled(p, t)
        IN  f.evaluation = p.evaluation /\ f.bucket = owed /\ f.max = p.max /\ f.packet = p.packet /\ f.rate = p.rate
    BY <2>1 DEF PacerType
  <2>4. p.evaluation = t
    BY <1>4, SMT DEF PacerType
  <2> QED BY <1>4, <2>2, <2>3, <2>4 DEF owed
<1> QED BY <1>3, <1>4

(* Filling keeps what was allowed within what the time allows.             *)
LEMMA FilledMetered ==
  ASSUME PacingTypeOK, Metering
  PROVE  LET f == Filled(pacer, time)
             allowance == pacer.max + (time - meter.from) * Nano
         IN  /\ f \in PacerType /\ f.evaluation = time /\ f.max = pacer.max /\ f.packet = pacer.packet
             /\ f.rate = pacer.rate
             /\ f.bucket <= f.max /\ -f.packet <= f.bucket
             /\ meter.paced <= allowance /\ meter.paced + f.bucket <= allowance
<1> DEFINE f == Filled(pacer, time)
           owed == Most(pacer.bucket, -pacer.packet)
           gain == (time - pacer.evaluation) * Nano
           before == (pacer.evaluation - meter.from) * Nano
           after == (time - meter.from) * Nano
<1>1. /\ pacer \in PacerType /\ time \in Nat /\ pacer.packet <= pacer.max /\ pacer.bucket <= pacer.max
      /\ pacer.evaluation <= time /\ meter.from <= pacer.evaluation /\ meter.from \in Nat /\ meter.paced \in Nat
  BY DEF PacingTypeOK, Metering
<1>2. /\ f \in PacerType /\ f.evaluation = time /\ f.max = pacer.max /\ f.packet = pacer.packet
      /\ f.rate = pacer.rate
      /\ f.bucket = IF time > pacer.evaluation THEN Least(owed + gain, pacer.max) ELSE owed
  BY <1>1, FilledFacts
<1> HIDE DEF f
<1>3. gain \in Nat /\ before \in Nat /\ after = before + gain
  BY <1>1, PacingAssumption, SMT DEF PacerType
<1>4. /\ meter.paced <= pacer.max + before
      /\ meter.paced + pacer.bucket <= pacer.max + before
  BY DEF Metering, Allowance
<1> HIDE DEF gain, before, after
<1>5. pacer.bucket \in Int /\ pacer.packet \in Nat \ {0} /\ pacer.max \in Nat
  BY <1>1 DEF PacerType
<1>6. owed \in Int /\ -pacer.packet <= owed /\ owed <= pacer.max /\ meter.paced + owed <= pacer.max + before
  BY <1>1, <1>3, <1>4, <1>5, SMT DEF Most
<1> HIDE DEF owed
<1>7. f.bucket \in Int /\ f.bucket <= pacer.max /\ -pacer.packet <= f.bucket /\ f.bucket <= owed + gain
  BY <1>1, <1>2, <1>3, <1>5, <1>6, SMT DEF Least
<1>8. meter.paced <= pacer.max + after /\ meter.paced + f.bucket <= pacer.max + after
  BY <1>1, <1>3, <1>4, <1>5, <1>6, <1>7, SMT
<1> QED BY <1>2, <1>7, <1>8 DEF f, after

(* A new state of the bucket, the same meter and subscription.             *)
LEMMA PacingState ==
  ASSUME PacingTypeOK, pacer' \in PacerType, UNCHANGED <<app, time>>,
         wait' \in Nat \cup {NoWait}, meter' \in [from : Nat, paced : Nat]
  PROVE  PacingTypeOK'
BY DEF PacingTypeOK

LEMMA TellingKept ==
  ASSUME RateKnown, UNCHANGED app, pacer'.rate = pacer.rate
  PROVE  RateKnown'
BY DEF RateKnown

(* What is waited for.                                                     *)
LEMMA LackingFacts ==
  ASSUME NEW p \in PacerType, p.packet <= p.max, -p.packet <= p.bucket, p.bucket < p.packet
  PROVE  /\ Lacking(p) \in Nat
         /\ p.packet <= p.bucket + Lacking(p)
         /\ Lacking(p) <= (IF Train THEN 11 ELSE 2) * p.packet
<1>1. p.bucket \in Int /\ p.packet \in Nat \ {0} /\ p.max \in Nat
  BY DEF PacerType
<1>2. CASE Train
  BY <1>1, <1>2, SMT DEF Lacking, Least
<1>3. CASE ~Train
  BY <1>1, <1>3, SMT DEF Lacking
<1> QED BY <1>2, <1>3

LEMMA AskStep ==
  ASSUME PacingTypeOK, Metering, RateKnown, Ask
  PROVE  PacingTypeOK' /\ Metering' /\ Waiting' /\ RateKnown'
<1> DEFINE f == Filled(pacer, time)
           allowance == pacer.max + (time - meter.from) * Nano
<1>1. /\ f \in PacerType /\ f.evaluation = time /\ f.max = pacer.max /\ f.packet = pacer.packet
      /\ f.rate = pacer.rate
      /\ f.bucket <= f.max /\ -f.packet <= f.bucket
      /\ meter.paced <= allowance /\ meter.paced + f.bucket <= allowance
  BY FilledMetered
<1>2. /\ time \in Nat /\ pacer.packet <= pacer.max /\ pacer.evaluation <= time
      /\ meter.from <= pacer.evaluation /\ pacer.evaluation \in Nat
      /\ meter \in [from : Nat, paced : Nat]
  BY DEF PacingTypeOK, Metering, PacerType
<1>3. UNCHANGED <<app, time>>
  BY DEF Ask
<1>4. CASE Authorized(f) /\ pacer' = AfterSend(f, time) /\ meter' = [meter EXCEPT !.paced = @ + f.packet] /\ wait' = NoWait
  <2> DEFINE g == Filled(f, time)
  <2>1. /\ g \in PacerType /\ g.evaluation = time /\ g.max = pacer.max /\ g.packet = pacer.packet /\ g.rate = pacer.rate
        /\ g.bucket = Most(f.bucket, -f.packet)
    <3> HIDE DEF f
    <3>1. f.packet <= f.max /\ f.evaluation <= time /\ ~(time > f.evaluation)
      BY <1>1, <1>2, SMT
    <3> QED BY <1>1, <1>2, <3>1, FilledFacts
  <2>2. f.bucket \in Int /\ f.packet \in Nat \ {0} /\ f.packet <= f.bucket
    <3> HIDE DEF f
    <3> QED BY <1>1, <1>4 DEF PacerType, Authorized
  <2>3. pacer' = [g EXCEPT !.bucket = @ - g.packet]
    BY <1>4 DEF AfterSend
  <2> HIDE DEF f, g
  <2>4. g.bucket = f.bucket
    BY <1>1, <2>1, <2>2, SMT DEF Most
  <2>5. /\ pacer' \in PacerType /\ pacer'.evaluation = time /\ pacer'.max = pacer.max
        /\ pacer'.packet = pacer.packet /\ pacer'.rate = pacer.rate
        /\ pacer'.bucket = f.bucket - f.packet
    BY <1>1, <2>1, <2>2, <2>3, <2>4 DEF PacerType
  <2>6. /\ meter' \in [from : Nat, paced : Nat]
        /\ meter'.from = meter.from /\ meter'.paced = meter.paced + f.packet
    BY <1>2, <1>4, <2>2
  <2>7. allowance \in Int
    BY <1>1, <1>2, PacingAssumption, SMT DEF PacerType
  <2>8. Allowance' = allowance
    BY <1>2, <2>5, <2>6 DEF Allowance
  <2> HIDE DEF allowance
  <2>9. Metering'
    BY <1>1, <1>2, <1>3, <2>2, <2>5, <2>6, <2>7, <2>8, SMT DEF Metering, PacerType
  <2>10. PacingTypeOK'
    BY <1>3, <1>4, <2>5, <2>6, PacingState
  <2>11. RateKnown'
    BY <1>3, <2>5, TellingKept
  <2> QED BY <1>4, <2>9, <2>10, <2>11 DEF Waiting
<1>5. CASE pacer' = f /\ meter' = meter /\ (wait' = NoWait \/ (~Authorized(f) /\ wait' = NextTime(f, time)))
  <2> HIDE DEF f
  <2>1. Allowance' = allowance
    BY <1>1, <1>5 DEF Allowance
  <2>2. Metering'
    <3> HIDE DEF allowance
    <3> QED BY <1>1, <1>2, <1>3, <1>5, <2>1, SMT DEF Metering, PacerType
  <2>3. wait' # NoWait => wait' = NextTime(f, time) /\ f.bucket < f.packet /\ wait' \in Nat
    <3> SUFFICES ASSUME ~Authorized(f)
                 PROVE  f.bucket < f.packet /\ NextTime(f, time) \in Nat
      BY <1>5
    <3>1. f.bucket < f.packet
      BY <1>1, SMT DEF PacerType, Authorized
    <3>2. Lacking(f) \in Nat
      BY <1>1, <1>2, <3>1, LackingFacts
    <3>3. Lacking(f) \div Nano \in Nat
      BY <3>2, Quotient, PacingAssumption
    <3> QED BY <1>2, <3>1, <3>3 DEF NextTime
  <2>4. wait' \in Nat \cup {NoWait}
    BY <1>5, <2>3
  <2>5. PacingTypeOK'
    BY <1>1, <1>2, <1>3, <1>5, <2>4, PacingState
  <2>6. Waiting'
    BY <1>1, <1>5, <2>3 DEF Waiting, NextTime, Lacking
  <2> QED BY <1>1, <1>3, <1>5, <2>2, <2>5, <2>6, TellingKept
<1> QED BY <1>4, <1>5 DEF Ask

(* Packets that do not ask take what is there, and a packet's worth more.  *)
LEMMA SpendStep ==
  ASSUME PacingTypeOK, Metering, RateKnown, NEW g \in PacerType,
         g.evaluation \in pacer.evaluation..time, g.max = pacer.max, g.packet = pacer.packet, g.rate = pacer.rate,
         g.bucket <= g.max, 
         meter.paced <= pacer.max + (g.evaluation - meter.from) * Nano,
         meter.paced + g.bucket <= pacer.max + (g.evaluation - meter.from) * Nano,
         pacer' = [g EXCEPT !.bucket = @ - g.packet], wait' = NoWait, UNCHANGED <<app, time, meter>>
  PROVE  PacingTypeOK' /\ Metering' /\ Waiting' /\ RateKnown'
<1>1. /\ g.bucket \in Int /\ g.packet \in Nat \ {0} /\ g.evaluation \in Nat /\ pacer.max \in Nat
      /\ meter.from \in Nat /\ meter.paced \in Nat /\ meter \in [from : Nat, paced : Nat]
  BY DEF PacingTypeOK, PacerType
<1>2. /\ pacer' \in PacerType /\ pacer'.evaluation = g.evaluation /\ pacer'.max = g.max
      /\ pacer'.packet = g.packet /\ pacer'.rate = g.rate /\ pacer'.bucket = g.bucket - g.packet
  BY <1>1 DEF PacerType
<1> DEFINE allowance == pacer.max + (g.evaluation - meter.from) * Nano
<1>3. allowance \in Int /\ Allowance' = allowance
  BY <1>1, <1>2, PacingAssumption, SMT DEF Allowance
<1>4. meter.paced <= allowance /\ meter.paced + g.bucket <= allowance
  OBVIOUS
<1> HIDE DEF allowance
<1>5. Metering'
  <2>1. pacer.evaluation \in Nat /\ time \in Nat /\ pacer.packet <= pacer.max /\ meter.from <= pacer.evaluation
    BY DEF PacingTypeOK, PacerType, Metering
  <2> QED BY <1>1, <1>2, <1>3, <1>4, <2>1, SMT DEF Metering
<1>6. PacingTypeOK'
  BY <1>1, <1>2, PacingState
<1> QED BY <1>2, <1>5, <1>6, TellingKept DEF Waiting

LEMMA UnaskedStep ==
  ASSUME PacingTypeOK, Metering, RateKnown, SendUnasked
  PROVE  PacingTypeOK' /\ Metering' /\ Waiting' /\ RateKnown'
<1> DEFINE g == Filled(pacer, time)
<1>1. /\ g \in PacerType /\ g.evaluation = time /\ g.max = pacer.max /\ g.packet = pacer.packet
      /\ g.rate = pacer.rate /\ g.bucket <= g.max
      /\ meter.paced <= pacer.max + (time - meter.from) * Nano
      /\ meter.paced + g.bucket <= pacer.max + (time - meter.from) * Nano
  BY FilledMetered
<1>2. pacer' = [g EXCEPT !.bucket = @ - g.packet] /\ wait' = NoWait /\ UNCHANGED <<app, time, meter>>
  BY DEF SendUnasked, AfterSend
<1> HIDE DEF g
<1>3. g.evaluation \in pacer.evaluation..time
  BY <1>1, SMT DEF PacingTypeOK, Metering, PacerType
<1> QED BY <1>1, <1>2, <1>3, SpendStep

LEMMA RepeatStep ==
  ASSUME PacingTypeOK, Metering, RateKnown, RepeatNothing
  PROVE  PacingTypeOK' /\ Metering' /\ Waiting' /\ RateKnown'
<1>1. pacer \in PacerType /\ pacer.evaluation \in pacer.evaluation..time
  BY DEF PacingTypeOK, Metering, PacerType
<1>2. pacer' = [pacer EXCEPT !.bucket = @ - pacer.packet] /\ wait' = NoWait /\ UNCHANGED <<app, time, meter>>
  BY DEF RepeatNothing
<1> QED BY <1>1, <1>2, SpendStep DEF Metering, Allowance

RateType == [bytes : Nat \ {0}, nanos : Nat \ {0}]

(* The time of a packet is at least a nanosecond, and at most that of what *)
(* the bucket holds.                                                       *)
LEMMA DurationFacts ==
  ASSUME NEW rate \in RateType, NEW bytes \in Nat
  PROVE  /\ Duration(bytes, rate) \in Nat
         /\ \A more \in Nat : bytes <= more => Duration(bytes, rate) <= Duration(more, rate)
<1>1. rate.bytes \in Nat \ {0} /\ rate.nanos \in Nat \ {0}
  BY DEF RateType
<1>2. bytes * rate.nanos \in Nat
  BY <1>1, SMT
<1>3. Duration(bytes, rate) \in Nat
  BY <1>1, <1>2, Quotient DEF Duration
<1>4. ASSUME NEW more \in Nat, bytes <= more
      PROVE  Duration(bytes, rate) <= Duration(more, rate)
  <2>1. more * rate.nanos \in Nat /\ bytes * rate.nanos <= more * rate.nanos
    BY <1>1, <1>4, SMT
  <2> QED BY <1>1, <1>2, <2>1, QuotientGrows DEF Duration
<1> QED BY <1>3, <1>4

LEMMA PacketTimeFacts ==
  ASSUME NEW rate \in RateType, NEW rtt \in Rtts
  PROVE  /\ PacketTime(rate, rtt) \in Nat \ {0}
         /\ \A quantum \in Nat : quantum >= Mtu /\ Duration(quantum, rate) # 0 =>
              PacketTime(rate, rtt) <= Duration(quantum, rate)
<1>1. Mtu \in Nat /\ rtt * Nano \in Nat \ {0}
  BY PacingAssumption, SMT
<1>2. Duration(Mtu, rate) \in Nat
  BY <1>1, DurationFacts
<1>3. \A quantum \in Nat : quantum >= Mtu => Duration(quantum, rate) \in Nat /\ Duration(Mtu, rate) <= Duration(quantum, rate)
  BY <1>1, DurationFacts
<1>4. CASE Duration(Mtu, rate) = 0
  BY <1>3, <1>4, SMT DEF PacketTime
<1>5. CASE Duration(Mtu, rate) # 0
  <2>1. PacketTime(rate, rtt) = Least(Duration(Mtu, rate), rtt * Nano)
    BY <1>5 DEF PacketTime
  <2>2. PacketTime(rate, rtt) \in Nat \ {0} /\ PacketTime(rate, rtt) <= Duration(Mtu, rate)
    BY <1>1, <1>2, <1>5, <2>1, SMT DEF Least
  <2> QED BY <1>2, <1>3, <2>2, SMT
<1> QED BY <1>4, <1>5

(* After any change of the rate the bucket holds a packet and no more than *)
(* its size.                                                               *)
LEMMA WithMaxFacts ==
  ASSUME NEW p \in PacerType, NEW max \in Nat, p.packet <= max
  PROVE  LET w == WithMax(p, max)
         IN  /\ w \in PacerType /\ w.max = max /\ w.packet = p.packet /\ w.evaluation = p.evaluation
             /\ w.rate = p.rate /\ w.bucket <= w.max /\ w.packet <= w.max
<1> DEFINE left == Least(p.bucket, max)
<1>1. left \in Int /\ left <= max
  BY SMT DEF Least, PacerType
<1>2. WithMax(p, max) = [p EXCEPT !.max = max, !.bucket = left]
  BY DEF WithMax
<1> HIDE DEF left
<1> QED BY <1>1, <1>2 DEF PacerType

LEMMA WithRateFacts ==
  ASSUME NEW p \in PacerType, NEW rate \in RateType, NEW rtt \in Rtts,
         NEW quantum \in Nat, quantum = 0 \/ quantum >= Mtu
  PROVE  LET w == WithRate(p, rate, quantum, rtt)
         IN  /\ w \in PacerType /\ w.evaluation = p.evaluation
             /\ w.bucket <= w.max /\ w.packet <= w.max
<1> DEFINE packet == PacketTime(rate, rtt)
           max == IF Duration(quantum, rate) = 0 THEN 16 * packet ELSE Duration(quantum, rate)
           speed == (rate.bytes * RateUnit) \div rate.nanos
           q == [p EXCEPT !.packet = packet, !.rate = speed]
<1>1. packet \in Nat \ {0} /\ Duration(quantum, rate) \in Nat
  BY PacketTimeFacts, DurationFacts
<1>2. Duration(quantum, rate) # 0 => packet <= Duration(quantum, rate)
  <2>1. quantum = 0 => Duration(quantum, rate) = 0
    <3>1. rate.nanos \in Nat \ {0} /\ rate.bytes \in Nat \ {0}
      BY DEF RateType
    <3>2. 0 * rate.nanos = 0 /\ 0 \div rate.bytes = 0
      BY <3>1, SMT
    <3> QED BY <3>2 DEF Duration
  <2> QED BY <2>1, PacketTimeFacts
<1>3. max \in Nat /\ packet <= max
  BY <1>1, <1>2, SMT
<1>4. speed \in Nat
  <2>1. rate.bytes \in Nat /\ rate.nanos \in Nat \ {0} /\ RateUnit \in Nat
    BY PacingAssumption DEF RateType
  <2>2. rate.bytes * RateUnit \in Nat
    BY <2>1, SMT
  <2> QED BY <2>1, <2>2, Quotient
<1>5. WithRate(p, rate, quantum, rtt) = WithMax(q, max)
  BY DEF WithRate
<1> HIDE DEF packet, max, speed
<1>6. q \in PacerType /\ q.packet = packet /\ q.evaluation = p.evaluation
  BY <1>1, <1>4 DEF PacerType
<1> HIDE DEF q
<1> QED BY <1>3, <1>5, <1>6, WithMaxFacts

(* The meter starts over with a new rate.                                  *)
LEMMA ChangedStep ==
  ASSUME PacingTypeOK, Metering, NEW w \in PacerType, w.evaluation = pacer.evaluation,
         w.bucket <= w.max, w.packet <= w.max, Changed(w), UNCHANGED time,
         app' \in AppType
  PROVE  PacingTypeOK' /\ Metering' /\ Waiting'
<1>1. pacer' = w /\ wait' = NoWait /\ meter' = [from |-> w.evaluation, paced |-> 0]
  BY DEF Changed, Metered
<1>2. w.evaluation \in Nat /\ w.max \in Nat /\ w.bucket \in Int /\ w.evaluation <= time
  BY DEF PacerType, Metering
<1>3. /\ meter' \in [from : Nat, paced : Nat]
      /\ meter'.from = w.evaluation /\ meter'.paced = 0
  BY <1>1, <1>2
<1>4. (w.evaluation - w.evaluation) * Nano = 0
  BY <1>2, PacingAssumption, SMT
<1>5. Allowance' = w.max
  BY <1>1, <1>2, <1>3, <1>4, SMT DEF Allowance
<1>6. Metering'
  BY <1>1, <1>2, <1>3, <1>5, SMT DEF Metering
<1> QED BY <1>1, <1>3, <1>6 DEF PacingTypeOK, Waiting

(* The application hears of a rate beyond its thresholds.                  *)
LEMMA SignalledFacts ==
  ASSUME NEW a \in AppType, NEW rate \in Nat
  PROVE  LET b == Signalled(a, rate)
         IN  /\ b \in AppType
             /\ b.requested => rate < b.signalled + Most(b.increase, 1) /\ b.signalled - rate <= b.decrease
<1> DEFINE told == [a EXCEPT !.signalled = rate, !.told = TRUE]
           same == [a EXCEPT !.told = TRUE]
<1>1. /\ told \in AppType
      /\ told.requested = a.requested /\ told.signalled = rate
      /\ told.increase = a.increase /\ told.decrease = a.decrease
      /\ same \in AppType
      /\ same.requested = a.requested /\ same.signalled = a.signalled
      /\ same.increase = a.increase /\ same.decrease = a.decrease
  BY DEF AppType
<1> HIDE DEF told, same
<1>2. a.signalled \in Nat /\ a.increase \in Nat /\ a.decrease \in Nat /\ Most(a.increase, 1) \in Nat \ {0}
  BY SMT DEF Most, AppType
<1>3. CASE a.requested /\ (rate - a.signalled >= Most(a.increase, 1) \/ a.signalled - rate > a.decrease)
  <2>1. Signalled(a, rate) = told
    BY <1>3 DEF Signalled, told
  <2>2. rate < rate + Most(a.increase, 1) /\ rate - rate <= a.decrease
    BY <1>2, SMT
  <2> QED BY <1>1, <1>3, <2>1, <2>2
<1>4. CASE ~(a.requested /\ (rate - a.signalled >= Most(a.increase, 1) \/ a.signalled - rate > a.decrease))
  <2>1. Signalled(a, rate) = same
    BY <1>4 DEF Signalled, same
  <2>2. a.requested => rate < a.signalled + Most(a.increase, 1) /\ a.signalled - rate <= a.decrease
    BY <1>2, <1>4, SMT
  <2> QED BY <1>1, <2>1, <2>2
<1> QED BY <1>3, <1>4

LEMMA RateStep ==
  ASSUME PacingTypeOK, Metering, RateKnown, NEW rate \in RateType, NEW rtt \in Rtts,
         NEW quantum \in Nat, quantum = 0 \/ quantum >= Mtu, UpdatePacingRate(rate, quantum, rtt)
  PROVE  PacingTypeOK' /\ Metering' /\ Waiting' /\ RateKnown'
<1> DEFINE w == WithRate(pacer, rate, quantum, rtt)
<1>1. /\ w \in PacerType /\ w.evaluation = pacer.evaluation
      /\ w.bucket <= w.max /\ w.packet <= w.max
  BY WithRateFacts DEF PacingTypeOK
<1>2. Changed(w) /\ app' = Signalled(app, pacer'.rate) /\ UNCHANGED time
  BY DEF UpdatePacingRate
<1> HIDE DEF w
<1>3. pacer' = w /\ pacer'.rate \in Nat
  BY <1>1, <1>2 DEF Changed, PacerType
<1>4. app \in AppType
  BY DEF PacingTypeOK
<1>5. /\ app' \in AppType
      /\ app'.requested => pacer'.rate < app'.signalled + Most(app'.increase, 1) /\ app'.signalled - pacer'.rate <= app'.decrease
  BY <1>2, <1>3, <1>4, SignalledFacts
<1>6. RateKnown'
  BY <1>5 DEF RateKnown
<1> QED BY <1>1, <1>2, <1>5, <1>6, ChangedStep

(* The quantum of a window is at least two packets.                        *)
LEMMA QuantumFacts ==
  ASSUME NEW cwin \in Cwins, NEW rtt \in Rtts, NEW slow \in BOOLEAN
  PROVE  Quantum(cwin, rtt, slow) \in Nat /\ Quantum(cwin, rtt, slow) >= Mtu
<1>1. cwin \in Nat /\ rtt \in Nat \ {0} /\ Mtu \in Nat /\ LongRtt \in Nat /\ SlowQuantum \in Nat
  BY PacingAssumption
<1>2. cwin \div 4 \in Nat
  BY <1>1, Quotient
<1>3. (cwin * LongRtt) \div (4 * rtt) \in Nat
  <2>1. cwin * LongRtt \in Nat /\ 4 * rtt \in Nat \ {0}
    BY <1>1, SMT
  <2> QED BY <2>1, Quotient
<1> DEFINE quarter == cwin \div 4
           long == (cwin * LongRtt) \div (4 * rtt)
<1>4. Quantum(cwin, rtt, slow) =
        IF quarter < 2 * Mtu THEN 2 * Mtu
        ELSE IF slow /\ rtt > LongRtt
        THEN IF quarter < SlowQuantum THEN SlowQuantum ELSE Most(quarter, long)
        ELSE Least(quarter, 16 * Mtu)
  BY DEF Quantum
<1>5. quarter \in Nat /\ long \in Nat
  BY <1>2, <1>3
<1> HIDE DEF quarter, long
<1> QED BY <1>1, <1>4, <1>5, SMT DEF Most, Least

LEMMA DataStep ==
  ASSUME PacingTypeOK, Metering, RateKnown, NEW cwin \in Cwins, NEW rtt \in Rtts, NEW slow \in BOOLEAN,
         UpdatePacingData(cwin, rtt, slow)
  PROVE  PacingTypeOK' /\ Metering' /\ Waiting' /\ RateKnown'
<1>1. cwin \in Nat \ {0} /\ rtt \in Nat \ {0} /\ Nano \in Nat \ {0}
  BY PacingAssumption
<1>2. rtt * Nano \in Nat \ {0} /\ 5 * cwin \in Nat \ {0}
  BY <1>1, SMT
<1>3. 4 * rtt * Nano \in Nat \ {0}
  BY <1>1, SMT
<1>4. CASE Small(cwin, rtt)
  <2> DEFINE p == [pacer EXCEPT !.packet = 1]
             w == WithMax(p, rtt * Nano)
  <2>1. p \in PacerType /\ p.packet = 1 /\ p.evaluation = pacer.evaluation /\ p.rate = pacer.rate
    BY DEF PacingTypeOK, PacerType
  <2>2. Changed(w) /\ UNCHANGED <<app, time>>
    BY <1>4 DEF UpdatePacingData
  <2> HIDE DEF p
  <2>3. 1 <= rtt * Nano
    BY <1>2
  <2>4. /\ w \in PacerType /\ w.packet = p.packet /\ w.evaluation = p.evaluation
        /\ w.rate = p.rate /\ w.bucket <= w.max /\ w.packet <= w.max
    BY <1>2, <2>1, <2>3, WithMaxFacts
  <2> HIDE DEF w
  <2>5. app' \in AppType
    BY <2>2 DEF PacingTypeOK
  <2>6. PacingTypeOK' /\ Metering' /\ Waiting'
    BY <2>1, <2>2, <2>4, <2>5, ChangedStep
  <2> QED BY <2>1, <2>2, <2>4, <2>6, TellingKept DEF Changed
<1>5. CASE ~Small(cwin, rtt)
  <2>1. RateOf(cwin, rtt, slow) \in RateType
    BY <1>1, <1>2, <1>3 DEF RateOf, RateType
  <2>2. UpdatePacingRate(RateOf(cwin, rtt, slow), Quantum(cwin, rtt, slow), rtt)
    BY <1>5 DEF UpdatePacingData
  <2> QED BY <2>1, <2>2, QuantumFacts, RateStep
<1> QED BY <1>4, <1>5

LEMMA SubscribeStep ==
  ASSUME PacingTypeOK, Metering, Waiting, RateKnown, NEW decrease \in Decreases, NEW increase \in Increases,
         Subscribe(decrease, increase)
  PROVE  PacingTypeOK' /\ Metering' /\ Waiting' /\ RateKnown'
<1>1. decrease \in Nat /\ increase \in Nat
  BY PacingAssumption
<1>2. /\ app' \in AppType
      /\ ~app'.told
  BY <1>1 DEF Subscribe, PacingTypeOK, AppType
<1>3. UNCHANGED <<pacer, time, wait, meter>>
  BY DEF Subscribe
<1>4. RateKnown'
  BY <1>2 DEF RateKnown
<1> QED BY <1>2, <1>3, <1>4 DEF PacingTypeOK, Metering, Allowance, Waiting, NextTime, Lacking

LEMMA TickStep ==
  ASSUME PacingTypeOK, Metering, Waiting, RateKnown, PacingTick
  PROVE  PacingTypeOK' /\ Metering' /\ Waiting' /\ RateKnown'
<1>1. time \in Nat /\ time' = time + 1 /\ UNCHANGED <<pacer, app, wait, meter>>
  BY DEF PacingTick, PacingTypeOK
<1>2. pacer.evaluation \in Nat
  BY DEF PacingTypeOK, PacerType
<1>3. Metering'
  BY <1>1, <1>2, SMT DEF Metering, Allowance
<1> QED BY <1>1, <1>3 DEF PacingTypeOK, Waiting, NextTime, Lacking, RateKnown

LEMMA PacingStep == PacingIInv /\ [PacingNext]_pacingVars => PacingIInv'
<1> SUFFICES ASSUME PacingIInv, [PacingNext]_pacingVars
             PROVE  PacingIInv'
  OBVIOUS
<1>1. PacingTypeOK /\ Metering /\ Waiting /\ RateKnown
  BY DEF PacingIInv
<1>2. ASSUME NEW bytes \in RateBytes, NEW nanos \in RateNanos, NEW quantum \in Quanta, NEW rtt \in Rtts,
             UpdatePacingRate([bytes |-> bytes, nanos |-> nanos], quantum, rtt)
      PROVE  PacingIInv'
  <2>1. [bytes |-> bytes, nanos |-> nanos] \in RateType
    BY PacingAssumption DEF RateType
  <2>2. quantum \in Nat /\ (quantum = 0 \/ quantum >= Mtu)
    BY PacingAssumption
  <2> QED BY <1>1, <1>2, <2>1, <2>2, RateStep DEF PacingIInv
<1>3. ASSUME NEW cwin \in Cwins, NEW slow \in BOOLEAN, NEW rtt \in Rtts, UpdatePacingData(cwin, rtt, slow)
      PROVE  PacingIInv'
  BY <1>1, <1>3, DataStep DEF PacingIInv
<1>4. CASE Ask
  BY <1>1, <1>4, AskStep DEF PacingIInv
<1>5. CASE SendUnasked
  BY <1>1, <1>5, UnaskedStep DEF PacingIInv
<1>6. CASE RepeatNothing
  BY <1>1, <1>6, RepeatStep DEF PacingIInv
<1>7. CASE PacingTick
  BY <1>1, <1>7, TickStep DEF PacingIInv
<1>8. ASSUME NEW decrease \in Decreases, NEW increase \in Increases, Subscribe(decrease, increase)
      PROVE  PacingIInv'
  BY <1>1, <1>8, SubscribeStep DEF PacingIInv
<1>9. CASE UNCHANGED pacingVars
  BY <1>1, <1>9 DEF pacingVars, PacingIInv, PacingTypeOK, Metering, Allowance, Waiting, NextTime, Lacking, RateKnown
<1> QED BY <1>2, <1>3, <1>4, <1>5, <1>6, <1>7, <1>8, <1>9 DEF PacingNext

LEMMA PacingStart == PacingInit => PacingIInv
<1> SUFFICES ASSUME PacingInit
             PROVE  PacingIInv
  OBVIOUS
<1>1. /\ pacer \in PacerType /\ pacer.evaluation = 0 /\ pacer.bucket = 16 /\ pacer.max = 16 /\ pacer.packet = 1
      /\ app \in AppType
      /\ ~app.told
      /\ meter \in [from : Nat, paced : Nat] /\ meter.from = 0 /\ meter.paced = 0
  BY DEF PacingInit, Metered, PacerType, AppType
<1>2. time = 0 /\ wait = NoWait
  BY DEF PacingInit
<1>3. (0 - 0) * Nano = 0
  BY PacingAssumption, SMT
<1>4. Metering
  BY <1>1, <1>2, <1>3, SMT DEF Metering, Allowance
<1> QED BY <1>1, <1>2, <1>4 DEF PacingIInv, PacingTypeOK, Waiting, RateKnown

(* What a path is told to wait is enough, and not more than two packets or *)
(* a train.                                                                *)
LEMMA WaitIsExact ==
  ASSUME PacingIInv
  PROVE  WaitsExact
<1> SUFFICES ASSUME wait # NoWait
             PROVE  /\ Authorized(Filled(pacer, Most(wait, time)))
                    /\ (wait - 1 - pacer.evaluation) * Nano <= (IF Train THEN 11 ELSE 2) * pacer.packet
  BY DEF WaitsExact
<1> DEFINE q == Lacking(pacer) \div Nano
<1>1. /\ pacer \in PacerType /\ pacer.evaluation \in Nat /\ pacer.bucket \in Int
      /\ pacer.packet \in Nat \ {0} /\ pacer.max \in Nat /\ pacer.packet <= pacer.max
      /\ pacer.bucket <= pacer.max /\ pacer.evaluation <= time /\ time \in Nat
      /\ -pacer.packet <= pacer.bucket /\ pacer.bucket < pacer.packet
      /\ wait = pacer.evaluation + 1 + q
  BY DEF PacingIInv, PacingTypeOK, PacerType, Metering, Waiting, NextTime
<1>2. /\ Lacking(pacer) \in Nat /\ pacer.packet <= pacer.bucket + Lacking(pacer)
      /\ Lacking(pacer) <= (IF Train THEN 11 ELSE 2) * pacer.packet
  BY <1>1, LackingFacts
<1>3. q \in Nat /\ q * Nano <= Lacking(pacer) /\ Lacking(pacer) < (q + 1) * Nano /\ Nano \in Nat \ {0}
  BY <1>2, Quotient, PacingAssumption
<1> HIDE DEF q
<1>4. (wait - 1 - pacer.evaluation) * Nano <= (IF Train THEN 11 ELSE 2) * pacer.packet
  <2>1. wait - 1 - pacer.evaluation = q
    BY <1>1, <1>3, SMT
  <2>2. q * Nano \in Nat /\ 11 * pacer.packet \in Nat /\ 2 * pacer.packet \in Nat
    BY <1>1, <1>3, SMT
  <2> QED BY <1>2, <1>3, <2>1, <2>2, SMT
<1>5. Authorized(Filled(pacer, Most(wait, time)))
  <2> DEFINE t == Most(wait, time)
             gain == (t - pacer.evaluation) * Nano
  <2>1. t \in Nat /\ t > pacer.evaluation /\ t - pacer.evaluation >= q + 1
    BY <1>1, <1>3, SMT DEF Most
  <2>2. gain \in Nat /\ gain >= (q + 1) * Nano
    BY <1>1, <1>3, <2>1, SMT
  <2> DEFINE f == Filled(pacer, t)
             owed == Most(pacer.bucket, -pacer.packet)
  <2>3. f.packet = pacer.packet /\ f.bucket = Least(owed + gain, pacer.max)
    <3> HIDE DEF t
    <3>1. pacer.evaluation <= t
      BY <1>1, <2>1, SMT
    <3> QED BY <1>1, <2>1, <3>1, FilledFacts
  <2>4. owed = pacer.bucket
    BY <1>1, SMT DEF Most
  <2> HIDE DEF gain, f, owed, t
  <2>5. Lacking(pacer) \in Nat /\ (q + 1) * Nano \in Nat
    BY <1>2, <1>3, SMT
  <2>6. pacer.packet <= pacer.bucket + gain
    BY <1>1, <1>2, <1>3, <2>2, <2>5, SMT
  <2>7. f.bucket >= f.packet
    BY <1>1, <2>2, <2>3, <2>4, <2>6, SMT DEF Least
  <2> QED BY <2>7 DEF Authorized, f, t
<1> QED BY <1>4, <1>5

LEMMA RateIsKept ==
  ASSUME PacingIInv
  PROVE  RateKept
<1>1. /\ pacer.evaluation \in Nat /\ pacer.max \in Nat /\ time \in Nat /\ meter.from \in Nat /\ meter.paced \in Nat
      /\ pacer.evaluation <= time /\ meter.from <= pacer.evaluation /\ Nano \in Nat
      /\ meter.paced <= pacer.max + (pacer.evaluation - meter.from) * Nano
  BY PacingAssumption DEF PacingIInv, PacingTypeOK, PacerType, Metering, Allowance
<1>2. (pacer.evaluation - meter.from) * Nano <= (time - meter.from) * Nano
  BY <1>1, SMT
<1>3. (pacer.evaluation - meter.from) * Nano \in Int /\ (time - meter.from) * Nano \in Int
  BY <1>1, SMT
<1> QED BY <1>1, <1>2, <1>3, SMT DEF RateKept

(* Pacing, for any rates, quanta, windows and clock, with packets that do  *)
(* not ask in between: who asks keeps to the rate, a wait is exact, and    *)
(* the application knows the rate within its thresholds                    *)
(* (picoquic_update_pacing_bucket, picoquic_update_pacing_rate).           *)
THEOREM PacingAlwaysSound == PacingSpec => []PacingSound
<1>1. PacingIInv => PacingSound
  BY WaitIsExact, RateIsKept DEF PacingSound, PacingIInv, RateKnown
<1> QED BY <1>1, PacingStart, PacingStep, PTL DEF PacingSpec
=============================================================================
