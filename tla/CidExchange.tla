----------------------------- MODULE CidExchange -----------------------------
(***************************************************************************)
(* Connection identifiers in one direction: the issuer keeps a list of     *)
(* local CIDs, announces them in NEW_CONNECTION_ID frames and lets them    *)
(* expire; the user stashes them, gives them to its paths and retires      *)
(* them.  Frames may be lost, reordered, and repeated while the ACK of an  *)
(* earlier copy is on its way.  A CID is its sequence number.              *)
(*                                                                         *)
(* Abstracted: the TTL (any prefix of the CIDs may expire at any time),    *)
(* values and reset secrets, the disabling of migration.  Frames of one    *)
(* packet travel on their own.                                             *)
(***************************************************************************)
EXTENDS Integers, Sequences, FiniteSets, SequencesExt

CONSTANTS
  Limit,       (* active_connection_id_limit of the user                   *)
  Target,      (* PICOQUIC_NB_PATH_TARGET                                  *)
  MaxPaths,    (* bound: paths of the user                                 *)
  MaxSeq,      (* bound: highest sequence number issued                    *)
  LongTtl,     (* whether CIDs outlive the announcement: they expire once  *)
               (* it was acknowledged                                      *)
  Tight,       (* whether a packet may lack room for a NEW_CONNECTION_ID   *)
  Spurious     (* frame types that may be repeated after they arrived      *)

VARIABLES
  local,         (* local_cnxid_first: set of [seq, acked, before]         *)
  next,          (* local_cnxid_sequence_next                              *)
  nb,            (* nb_local_cnxid                                         *)
  expired,       (* nb_local_cnxid_expired                                 *)
  retire_before, (* local_cnxid_retire_before                              *)
  stash,         (* cnxid_stash_first: sequence of Stashed                 *)
  paths,         (* path[i]: [cid, demoted]                                *)
  cnxid_before,  (* retire_cnxid_before of the user                        *)
  queue,         (* RETIRE_CONNECTION_ID frames in the misc queue          *)
  net,           (* frames in flight                                       *)
  acks,          (* frames whose ACK is in flight                          *)
  error          (* error with which an end closed the connection          *)

issuer == <<local, next, nb, expired, retire_before>>
user == <<stash, paths, cnxid_before, queue>>
vars == <<local, next, nb, expired, retire_before, stash, paths, cnxid_before, queue, net, acks, error>>

Cid == 0..MaxSeq
Stashed == [seq : Cid, refs : 0..MaxPaths, needs_removal : BOOLEAN, retire_sent : BOOLEAN]
NewCid == [type : {"new"}, seq : Cid, before : 0..(MaxSeq + 1)]
Retire == [type : {"retire"}, seq : Cid, dest : Cid]

(* After the handshake: CID 0 of the issuer is that of the user's path.    *)
Init ==
  /\ local = {[seq |-> 0, acked |-> TRUE, before |-> 0]}
  /\ next = 1 /\ nb = 1 /\ expired = 0 /\ retire_before = 0
  /\ stash = <<[seq |-> 0, refs |-> 1, needs_removal |-> FALSE, retire_sent |-> FALSE]>>
  /\ paths = <<[cid |-> 0, demoted |-> FALSE]>>
  /\ cnxid_before = 0 /\ queue = {}
  /\ net = {} /\ acks = {} /\ error = "none"

Open == error = "none"
LocalSeqs == {l.seq : l \in local}

-----------------------------------------------------------------------------
(* The issuer *)

(* picoquic_check_local_cnxid_ttl: the CIDs below limit are as old as the  *)
(* TTL; they are created in the order of their numbers.                    *)
ExpireBelow(limit) ==
  LET old == {s \in LocalSeqs : s < limit}
  IN  /\ expired' = Cardinality(old)
      /\ retire_before' = IF old = {} \/ Max(old) < retire_before THEN retire_before
                          ELSE Max(old) + 1

(* How many CIDs picoquic_format_new_local_id_as_needed creates.           *)
Wanted == Min({Limit + expired' - nb, Target + 1 + expired' - nb})

(* picoquic_format_new_local_id_as_needed: of the CIDs that are wanted, as *)
(* many as fit are created and announced.  The one that does not fit is    *)
(* deleted, which is counted twice.                                        *)
Issue(limit, fit) ==
  /\ Open
  /\ limit \in retire_before..next
  /\ LongTtl => \A l \in local : limit > retire_before => l.acked
  /\ ExpireBelow(limit)
  /\ LET made == next..(next + fit - 1)
     IN  /\ fit \in 0..Wanted \/ (fit = 0 /\ Wanted <= 0)
         /\ fit < Wanted => Tight
         /\ next + fit <= MaxSeq + 1                                     \* bound
         /\ fit > 0 \/ retire_before' # retire_before \/ fit < Wanted
         /\ local' = local \cup {[seq |-> s, acked |-> FALSE, before |-> retire_before'] : s \in made}
         /\ next' = next + fit
         /\ nb' = IF fit < Wanted THEN nb + fit - 1 ELSE nb + fit
         /\ net' = net \cup {[type |-> "new", seq |-> s, before |-> retire_before'] : s \in made}
  /\ UNCHANGED <<user, acks, error>>

(* picoquic_delete_local_cnxid: the expired count.                         *)
ExpiredAfter(seq) == IF seq < retire_before /\ expired > 0 THEN expired - 1 ELSE expired

(* picoquic_decode_retire_connection_id_frame.  A packet to an unknown CID *)
(* is not for this connection.                                             *)
ReceiveRetire(f) ==
  /\ Open
  /\ f \in net /\ f.type = "retire"
  /\ net' = net \ {f}
  /\ IF f.dest \notin LocalSeqs THEN UNCHANGED <<issuer, acks, error>>
     ELSE IF f.seq >= next \/ f.seq = f.dest
     THEN error' = "violation" /\ UNCHANGED <<issuer, acks>>
     ELSE /\ local' = {l \in local : l.seq # f.seq}
          /\ IF f.seq \in LocalSeqs
             THEN nb' = nb - 1 /\ expired' = ExpiredAfter(f.seq)
             ELSE UNCHANGED <<nb, expired>>
          /\ acks' = acks \cup {[type |-> "retire", seq |-> f.seq]}
          /\ UNCHANGED <<next, retire_before, error>>
  /\ UNCHANGED user

(* picoquic_process_ack_of_new_cid_frame *)
AckOfNewCid(a) ==
  /\ Open
  /\ a \in acks /\ a.type = "new"
  /\ acks' = acks \ {a}
  /\ local' = {IF l.seq = a.seq THEN [l EXCEPT !.acked = TRUE] ELSE l : l \in local}
  /\ UNCHANGED <<next, nb, expired, retire_before, user, net, error>>

(* A frame is repeated unless picoquic_check_new_cid_needs_repeat says no: *)
(* the bytes are those of the first copy.                                  *)
RepeatNewCid(l) ==
  /\ Open
  /\ l \in local /\ ~l.acked
  /\ \A f \in net : f.type = "new" => f.seq # l.seq
  /\ [type |-> "new", seq |-> l.seq] \in acks => "new" \in Spurious
  /\ net' = net \cup {[type |-> "new", seq |-> l.seq, before |-> l.before]}
  /\ UNCHANGED <<issuer, user, acks, error>>

-----------------------------------------------------------------------------
(* The user's stash.  The operations work on a record of the user's state. *)

State == [stash |-> stash, paths |-> paths, queue |-> queue, error |-> "none"]

IndexOf(st, seq) == CHOOSE i \in 1..Len(st) : st[i].seq = seq

(* Mutant: the CID is retired although another path uses it. *)
Dereferenced_Shared(u, i) ==
  LET k == IndexOf(u.stash, u.paths[i].cid)
  IN  [u EXCEPT !.stash[k].retire_sent = TRUE, !.queue = @ \cup {u.stash[k].seq}]

(* picoquic_dereference_stashed_cnxid.  The last reference is not taken    *)
(* back: it keeps the entry from being obtained again.                     *)
Dereferenced(u, i) ==
  LET k == IndexOf(u.stash, u.paths[i].cid)
      e == u.stash[k]
  IN  IF e.refs > 1 THEN [u EXCEPT !.stash[k].refs = @ - 1]
      ELSE [u EXCEPT !.stash[k].retire_sent = TRUE,
                     !.queue = IF e.retire_sent THEN @ ELSE @ \cup {e.seq}]

(* picoquic_obtain_stashed_cnxid: the first that no path uses.             *)
Obtainable(u) == {k \in 1..Len(u.stash) : u.stash[k].refs = 0 /\ ~u.stash[k].needs_removal}

(* picoquic_renew_path_connection_id when a CID is available.              *)
Renewed(u, i) ==
  LET k == Min(Obtainable(u))
  IN  [Dereferenced(u, i) EXCEPT !.stash[k].refs = @ + 1, !.paths[i].cid = u.stash[k].seq]

(* picoquic_remove_not_before_cid: the CIDs that are retired at once.      *)
Removed(st, before) ==
  {e.seq : e \in {x \in ToSet(st) : /\ x.needs_removal \/ x.seq < before
                                    /\ x.refs = 0 /\ ~x.retire_sent}}

MarkRemoved(u, before) ==
  LET gone == Removed(u.stash, before)
      mark(done, e) == Append(done, [e EXCEPT !.needs_removal = @ \/ e.seq < before,
                                              !.retire_sent = @ \/ e.seq \in gone])
  IN  [u EXCEPT !.stash = FoldLeft(mark, <<>>, @), !.queue = @ \cup gone]

(* The loop over the paths that still use a removed CID: each gets another *)
(* one, or is demoted; the default path must get one.                      *)
RenewBefore(u, before) ==
  LET after[i \in 0..Len(u.paths)] ==
        IF i = 0 THEN u
        ELSE LET w == after[i - 1]
             IN  IF w.error # "none" \/ w.paths[i].cid >= before \/ w.paths[i].demoted THEN w
                 ELSE IF Obtainable(w) # {} THEN Renewed(w, i)
                 ELSE IF i = 1 THEN [w EXCEPT !.error = "violation"]
                 ELSE [w EXCEPT !.paths[i].demoted = TRUE]
  IN  after[Len(u.paths)]

(* picoquic_enqueue_cnxid_stash: the limit does not count the CIDs that    *)
(* are retired or that this frame retires.                                 *)
TooMany(f) ==
  Len(stash) >= Limit + Cardinality({k \in DOMAIN stash :
                                       \/ stash[k].seq < Max({f.before, cnxid_before})
                                       \/ stash[k].retire_sent})

Enqueued(f) == Append(stash, [seq |-> f.seq, refs |-> 0, needs_removal |-> FALSE, retire_sent |-> FALSE])

(* picoquic_decode_new_connection_id_frame *)
ReceiveNewCid(f) ==
  /\ Open
  /\ f \in net /\ f.type = "new"
  /\ net' = net \ {f}
  /\ LET known == \E k \in DOMAIN stash : stash[k].seq = f.seq
         full  == ~known /\ TooMany(f)
         u     == [State EXCEPT !.stash = IF known THEN @ ELSE Enqueued(f)]
         w     == IF f.before > cnxid_before
                  THEN RenewBefore(MarkRemoved(u, f.before), f.before) ELSE u
     IN  IF full
         THEN error' = "limit" /\ UNCHANGED <<stash, paths, cnxid_before, queue>>
         ELSE /\ stash' = w.stash /\ paths' = w.paths /\ queue' = w.queue /\ error' = w.error
              /\ cnxid_before' = Max({f.before, cnxid_before})
  /\ acks' = IF error' = "none" THEN acks \cup {[type |-> "new", seq |-> f.seq]} ELSE acks
  /\ UNCHANGED issuer

(* The path gets a fresh CID: a client after a silence, a server whose     *)
(* peer switched (picoquic_renew_connection_id).                           *)
Renew(i) ==
  /\ Open
  /\ Obtainable(State) # {}
  /\ LET w == Renewed(State, i) IN stash' = w.stash /\ paths' = w.paths /\ queue' = w.queue
  /\ UNCHANGED <<issuer, cnxid_before, net, acks, error>>

(* picoquic_probe_new_path_ex; picoquic_assign_peer_cnxid_to_path          *)
ProbeNewPath ==
  /\ Open
  /\ Len(paths) < MaxPaths
  /\ Obtainable(State) # {}
  /\ LET k == Min(Obtainable(State))
     IN  /\ stash' = [stash EXCEPT ![k].refs = @ + 1]
         /\ paths' = Append(paths, [cid |-> stash[k].seq, demoted |-> FALSE])
  /\ UNCHANGED <<issuer, cnxid_before, queue, net, acks, error>>

(* picoquic_find_incoming_path: a packet from a new address when no CID is *)
(* left; the new path shares the CID of another.                           *)
RebindPath(i) ==
  /\ Open
  /\ Len(paths) < MaxPaths
  /\ Obtainable(State) = {}
  /\ stash' = [stash EXCEPT ![IndexOf(stash, paths[i].cid)].refs = @ + 1]
  /\ paths' = Append(paths, [cid |-> paths[i].cid, demoted |-> FALSE])
  /\ UNCHANGED <<issuer, cnxid_before, queue, net, acks, error>>

(* picoquic_delete_abandoned_paths, picoquic_delete_path.  The connection  *)
(* ends with its last path that is not demoted (MultiPath).                *)
DeletePath(i) ==
  /\ Open
  /\ \E j \in DOMAIN paths \ {i} : ~paths[j].demoted
  /\ LET w == Dereferenced(State, i) IN stash' = w.stash /\ queue' = w.queue
  /\ paths' = RemoveAt(paths, i)
  /\ UNCHANGED <<issuer, cnxid_before, net, acks, error>>

(* Mutant: the retirement is not repeated. *)
RetireNeedsRepeat_Never(seq) == FALSE

(* picoquic_check_retire_connection_id_needs_repeat *)
RetireNeedsRepeat(seq) == \E k \in DOMAIN stash : stash[k].seq = seq /\ stash[k].retire_sent

(* The misc frame leaves on a path that is in use; so does its repetition, *)
(* as long as it is needed.                                                *)
SendRetire(seq, i) ==
  /\ Open
  /\ ~paths[i].demoted
  /\ \A f \in net : f.type = "retire" => f.seq # seq
  /\ \/ seq \in queue
     \/ /\ RetireNeedsRepeat(seq)
        /\ [type |-> "retire", seq |-> seq] \in acks => "retire" \in Spurious
  /\ queue' = queue \ {seq}
  /\ net' = net \cup {[type |-> "retire", seq |-> seq, dest |-> paths[i].cid]}
  /\ UNCHANGED <<issuer, stash, paths, cnxid_before, acks, error>>

(* picoquic_process_ack_of_retire_connection_id_frame *)
AckOfRetire(a) ==
  /\ Open
  /\ a \in acks /\ a.type = "retire"
  /\ acks' = acks \ {a}
  /\ stash' = SelectSeq(stash, LAMBDA e : e.seq # a.seq)
  /\ UNCHANGED <<issuer, paths, cnxid_before, queue, net, error>>

-----------------------------------------------------------------------------
Lose ==
  /\ Open
  /\ \/ \E f \in net : net' = net \ {f} /\ UNCHANGED acks
     \/ \E a \in acks : a.type \in Spurious /\ acks' = acks \ {a} /\ UNCHANGED net
  /\ UNCHANGED <<issuer, user, error>>

Receive(f) == ReceiveNewCid(f) \/ ReceiveRetire(f)
AckOf(a) == AckOfNewCid(a) \/ AckOfRetire(a)

Next ==
  \/ \E limit \in 0..(MaxSeq + 1), fit \in 0..(MaxSeq + 1) : Issue(limit, fit)
  \/ \E f \in net : Receive(f)
  \/ \E a \in acks : AckOf(a)
  \/ \E l \in local : RepeatNewCid(l)
  \/ \E i \in DOMAIN paths : Renew(i) \/ RebindPath(i) \/ DeletePath(i)
  \/ ProbeNewPath
  \/ \E i \in DOMAIN paths, seq \in Cid : SendRetire(seq, i)
  \/ Lose

Spec == Init /\ [][Next]_vars

(* The packet loop sends what is queued and repeats what is lost; a frame  *)
(* that is repeated for ever arrives in the end, and so does its ACK.      *)
SendRetireAny(seq) == \E i \in DOMAIN paths : SendRetire(seq, i)
ReceiveRetireAny(seq) == \E f \in net : f.seq = seq /\ ReceiveRetire(f)
AckOfRetireAny(seq) == AckOfRetire([type |-> "retire", seq |-> seq])

FairSpec ==
  /\ Spec
  /\ \A seq \in Cid :
       WF_vars(SendRetireAny(seq)) /\ SF_vars(ReceiveRetireAny(seq)) /\ SF_vars(AckOfRetireAny(seq))

-----------------------------------------------------------------------------
(* Properties *)

(* Two endpoints that follow the code never close for a CID: the issuer's   *)
(* count of what the peer holds and the user's count of what is active      *)
(* agree on the limit, although RETIRE frames, their ACKs and expiries are   *)
(* seen at different times, and the default path always finds a CID.        *)
NoCidError == error = "none"

(* A path never sends to a CID that the issuer has forgotten: a CID is      *)
(* retired only when no path uses it, shared CIDs included.                 *)
PathsReachPeer == \A i \in DOMAIN paths : paths[i].cid \in LocalSeqs

(* nb_local_cnxid and nb_local_cnxid_expired, kept incrementally, are the   *)
(* numbers of local CIDs and of those that are to be retired.               *)
LocalCountsExact ==
  /\ nb = Cardinality(local)
  /\ expired = Cardinality({l \in local : l.seq < retire_before})

(* The two ends of a list of CIDs agree, whatever is lost, repeated and    *)
(* reordered between them.                                                 *)
CidsAgree == NoCidError /\ PathsReachPeer /\ LocalCountsExact

(* "We need to stop transmitting data to the old CID": no path that is not  *)
(* on its way out uses a CID below retire_cnxid_before.                     *)
OldCidsUnused ==
  Open => \A i \in DOMAIN paths : paths[i].demoted \/ paths[i].cid >= cnxid_before

(* A CID that was retired leaves the stash and the issuer's list: losses    *)
(* of the RETIRE frame and of its ACK are made good.                        *)
RetirementCompletes ==
  \A seq \in Cid :
    (\E k \in DOMAIN stash : stash[k].seq = seq /\ stash[k].retire_sent)
      ~> (~Open \/ (seq \notin LocalSeqs /\ \A k \in DOMAIN stash : stash[k].seq # seq))
=============================================================================
