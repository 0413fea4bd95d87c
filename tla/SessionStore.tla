---------------------------- MODULE SessionStore ----------------------------
(***************************************************************************)
(* The session registry of one device: class SessionStore and class        *)
(* PeerSession of session_store.py, with the three callers that change it: *)
(* X25519SessionCoordinator.ensure_session (sessions this device opens),   *)
(* _drain_inbound_handshakes of main.py (sessions peers open), and         *)
(* SecureChannel.seal / open (activity, counters, confirmation).           *)
(*                                                                         *)
(* _by_session_id is recorded (its keys) and sess (its values); _by_peer   *)
(* is byPeer.  Dictionary and list order only break ties between equal     *)
(* timestamps, so eviction and selection choose freely among equals.       *)
(* Timestamps are ages: age = now - created_at, idle = now - last_activity,*)
(* both saturating one tick past the key lifetime, where every comparison  *)
(* the code makes has settled.  next_send_counter is sent + 1 throughout,  *)
(* and MAX_COUNTER lies beyond MAX_MESSAGES_PER_KEY, so sent stands for    *)
(* both.  A session id not recorded is a fresh one: ids are unique.        *)
(***************************************************************************)
EXTENDS Integers, FiniteSets

CONSTANTS
  Peers,                \* device ids of the peers
  Sids,                 \* session ids
  NoPeer,               \* the dialing slot is empty
  MaxSessionsPerPeer,   \* max_sessions_per_peer, 8
  MaxUnconfirmedPerPeer,\* max_unconfirmed_per_peer, 4
  GlobalSessionCap,     \* global_session_cap, 256
  KeyLifetime,          \* max_key_lifetime_s, 24 h, in ticks
  IdleConfirmed,        \* idle_timeout_confirmed_s, 1 h, in ticks
  IdleUnconfirmed,      \* idle_timeout_unconfirmed_s, 60 s, in ticks
  MaxMessages           \* MAX_MESSAGES_PER_KEY, 2^32

ASSUME PeersAssumption == NoPeer \notin Peers
ASSUME SidsAssumption == IsFiniteSet(Sids)
ASSUME CapsAssumption ==
  /\ MaxUnconfirmedPerPeer \in Nat \ {0}
  /\ MaxSessionsPerPeer \in Nat \ {0}
  /\ GlobalSessionCap \in Nat \ {0}
ASSUME TimesAssumption ==
  /\ KeyLifetime \in Nat /\ IdleConfirmed \in Nat /\ IdleUnconfirmed \in Nat
  /\ IdleUnconfirmed <= IdleConfirmed /\ IdleConfirmed <= KeyLifetime
ASSUME MaxMessagesAssumption == MaxMessages \in Nat \ {0}

VARIABLES
  recorded,  \* the keys of _by_session_id
  sess,      \* the PeerSession of every recorded id
  byPeer,    \* _by_peer: the ids indexed under each peer
  dialing    \* the peer ensure_session is awaiting a handshake with

vars == <<recorded, sess, byPeer, dialing>>

Roles == {"initiator", "responder"}

\* The field confirmed, as a name.
Statuses == {"unconfirmed", "confirmed"}

Ages == 0 .. (KeyLifetime + 1)

Session ==
  [peer : Peers \union {NoPeer}, role : Roles, status : Statuses,
   age : Ages, idle : Ages, sent : 0 .. MaxMessages]

\* PeerSession(...) with its defaults.
NewSession(p, r, c) ==
  [peer |-> p, role |-> r, status |-> c, age |-> 0, idle |-> 0, sent |-> 0]

\* The value of sess at an id nothing is recorded under.
Blank == NewSession(NoPeer, "initiator", "unconfirmed")

Init ==
  /\ recorded = {}
  /\ sess = [s \in Sids |-> Blank]
  /\ byPeer = [p \in Peers |-> {}]
  /\ dialing = NoPeer

----------------------------------------------------------------------------
(* Lookups *)

IsConfirmed(s) == sess[s].status = "confirmed"

\* PeerSession's exhaustion test, shared by allocate_counter and can_send.
Exhausted(s) == sess[s].sent >= MaxMessages

\* can_send: no idle test here.
CanSend(s) == IsConfirmed(s) /\ sess[s].age <= KeyLifetime /\ ~Exhausted(s)

\* sessions_for_peer
SessionsForPeer(p) == {s \in byPeer[p] : s \in recorded}

\* get_send_session: the most recently active usable sessions (None is {}).
SendSessions(p) ==
  LET usable == {s \in SessionsForPeer(p) : CanSend(s)}
  IN  {s \in usable : \A t \in usable : sess[s].idle <= sess[t].idle}

\* has_confirmed_session: any confirmed session, usable or not.
HasConfirmedSession(p) == \E s \in SessionsForPeer(p) : IsConfirmed(s)

\* _is_expired
IsExpired(s) ==
  \/ sess[s].age > KeyLifetime
  \/ sess[s].idle > IF IsConfirmed(s) THEN IdleConfirmed ELSE IdleUnconfirmed

----------------------------------------------------------------------------
(* Recording and eviction *)

Unconfirmed(S) == {s \in S : ~IsConfirmed(s)}
Confirmed(S) == {s \in S : IsConfirmed(s)}

\* The loop "while len(S) >= cap: evict" removes this many sessions.
Excess(S, cap) == IF Cardinality(S) >= cap THEN Cardinality(S) - cap + 1 ELSE 0

Least(n, S) == IF n <= Cardinality(S) THEN n ELSE Cardinality(S)

\* The sets that n calls of _evict_oldest_created may remove from S: the
\* oldest of the unconfirmed, all of them if there are no more than n.
OldestCreated(S, n) ==
  {V \in SUBSET Unconfirmed(S) :
     /\ Cardinality(V) = Least(n, Unconfirmed(S))
     /\ \A v \in V, u \in Unconfirmed(S) \ V : sess[v].age >= sess[u].age}

\* The sets that n calls of _evict_lru_confirmed may remove from S.
LruConfirmed(S, n) ==
  {V \in SUBSET Confirmed(S) :
     /\ Cardinality(V) = Least(n, Confirmed(S))
     /\ \A v \in V, u \in Confirmed(S) \ V : sess[v].idle >= sess[u].idle}

\* Variant of the eviction loop that goes straight to the LRU session.
EvictionsToCapLruFirst(S, cap) ==
  UNION {{C \union U : U \in OldestCreated(S, Excess(S, cap) - Cardinality(C))} :
           C \in LruConfirmed(S, Excess(S, cap))}

\* The loop shared by _enforce_peer_caps and _enforce_global_cap: unconfirmed
\* sessions go first, confirmed ones once no unconfirmed one is left.
EvictionsToCap(S, cap) ==
  UNION {{U \union C : C \in LruConfirmed(S, Excess(S, cap) - Cardinality(U))} :
           U \in OldestCreated(S, Excess(S, cap))}

\* Variant that leaves the unconfirmed cap to the total cap.
PeerEvictionsTotalOnly(S) == EvictionsToCap(S, MaxSessionsPerPeer)

\* _enforce_peer_caps, on the sessions of the peer that are left after pruning.
PeerEvictions(S) ==
  UNION {{U \union W : W \in EvictionsToCap(S \ U, MaxSessionsPerPeer)} :
           U \in OldestCreated(S, Excess(Unconfirmed(S), MaxUnconfirmedPerPeer))}

\* Variant of _remove that leaves the per-peer index alone.
ForgetKeepsIndex(V) == byPeer

\* _remove, for every session of V.
Forget(V) == [p \in Peers |-> byPeer[p] \ {v \in V : sess[v].peer = p}]

\* Variant of the collision check of put that lets an id be recorded again.
FreshAny(s) == TRUE

\* put refuses an id that is recorded (SessionIdCollisionError).
Fresh(s) == s \notin recorded

\* put: prune, make room under the peer's caps, then under the global cap,
\* then record and index the new session.
Put(p, s, r, c) ==
  /\ Fresh(s)
  /\ LET expired == {t \in recorded : IsExpired(t)}
         kept    == recorded \ expired
     IN \E V \in PeerEvictions(byPeer[p] \ expired) :
        \E G \in EvictionsToCap(kept \ V, GlobalSessionCap) :
          LET gone == expired \union V \union G IN
          /\ recorded' = (recorded \ gone) \union {s}
          /\ sess' = [t \in Sids |->
                        IF t = s THEN NewSession(p, r, c)
                        ELSE IF t \in gone THEN Blank ELSE sess[t]]
          /\ byPeer' = [Forget(gone) EXCEPT ![p] = @ \union {s}]

----------------------------------------------------------------------------
(* The callers *)

\* ensure_session up to its await: return at once if a confirmed session
\* exists, else start a handshake.  The synchronisation loop handles one
\* peer at a time.
EnsureSession(p) ==
  /\ dialing = NoPeer
  /\ ~HasConfirmedSession(p)
  /\ dialing' = p
  /\ UNCHANGED <<recorded, sess, byPeer>>

\* ensure_session after its await: the initiator's session is confirmed, and
\* recorded under the id of the device p that answered, whoever was dialled.
DialDone(p, s) ==
  /\ dialing \in Peers
  /\ Put(p, s, "initiator", "confirmed")
  /\ dialing' = NoPeer

\* initiate raised: nothing is recorded.
DialFailed ==
  /\ dialing \in Peers
  /\ dialing' = NoPeer
  /\ UNCHANGED <<recorded, sess, byPeer>>

\* _drain_inbound_handshakes records what the handshake server accepted.
InboundHandshake(p, s) ==
  /\ Put(p, s, "responder", "unconfirmed")
  /\ UNCHANGED dialing

\* SecureChannel.seal: allocate_counter raises when the key is used up.
Seal(s) ==
  /\ ~Exhausted(s)
  /\ sess' = [sess EXCEPT ![s].sent = @ + 1, ![s].idle = 0]
  /\ UNCHANGED <<recorded, byPeer, dialing>>

\* A chunk or a request goes out on the session get_send_session picks.
Send(p) == \E s \in SendSessions(p) : Seal(s)

\* The manifest server answers on the session the request was opened under,
\* which get_send_session did not choose.
Reply(s) == s \in recorded /\ IsConfirmed(s) /\ Seal(s)

\* SecureChannel.open accepted a frame: confirm a responder's session, mark
\* it active.  get_by_session_id looks at no clock.
Open(s) ==
  /\ s \in recorded
  /\ sess' = [sess EXCEPT
       ![s].status = IF sess[s].role = "responder" THEN "confirmed" ELSE @,
       ![s].idle = 0]
  /\ UNCHANGED <<recorded, byPeer, dialing>>

\* remove_by_peer
RemoveByPeer(p) ==
  LET gone == SessionsForPeer(p) IN
  /\ gone # {}
  /\ recorded' = recorded \ gone
  /\ sess' = [t \in Sids |-> IF t \in gone THEN Blank ELSE sess[t]]
  /\ byPeer' = Forget(gone)
  /\ UNCHANGED dialing

\* Time passes: nothing in the store runs on a timer.
Older(a) == IF a > KeyLifetime THEN a ELSE a + 1

Tick ==
  /\ sess' = [t \in Sids |->
                IF t \in recorded
                THEN [sess[t] EXCEPT !.age = Older(@), !.idle = Older(@)]
                ELSE sess[t]]
  /\ UNCHANGED <<recorded, byPeer, dialing>>

Next ==
  \/ \E p \in Peers : EnsureSession(p)
  \/ \E p \in Peers, s \in Sids : DialDone(p, s)
  \/ DialFailed
  \/ \E p \in Peers, s \in Sids : InboundHandshake(p, s)
  \/ \E p \in Peers : Send(p)
  \/ \E s \in Sids : Reply(s)
  \/ \E s \in Sids : Open(s)
  \/ \E p \in Peers : RemoveByPeer(p)
  \/ Tick

Spec == Init /\ [][Next]_vars

\* More than the code does: ensure_session is called again and again for
\* every peer, and handshakes that are tried again and again complete with the
\* peer that was dialled.
FairSpec ==
  /\ Spec
  /\ \A p \in Peers : WF_vars(EnsureSession(p))
  /\ SF_vars(\E s \in Sids : DialDone(dialing, s))

----------------------------------------------------------------------------
(* Properties *)

\* The fields of the store; sent within the limit of allocate_counter.
TypeOK ==
  /\ recorded \subseteq Sids
  /\ sess \in [Sids -> Session]
  /\ byPeer \in [Peers -> SUBSET Sids]
  /\ dialing \in Peers \union {NoPeer}

\* _by_peer and _by_session_id agree after every put, prune, eviction and
\* purge.  _enforce_peer_caps subscripts _by_session_id with the ids of the
\* index, so a stale id would be a KeyError; a missing one would survive
\* remove_by_peer.
IndexConsistent ==
  /\ \A p \in Peers : byPeer[p] = {s \in recorded : sess[s].peer = p}
  /\ \A s \in recorded : sess[s].peer \in Peers

\* The three caps hold after every operation, also when confirmation and
\* expiry change what counts between two puts.
CapsHold ==
  /\ Cardinality(recorded) <= GlobalSessionCap
  /\ \A p \in Peers :
       /\ Cardinality(byPeer[p]) <= MaxSessionsPerPeer
       /\ Cardinality(Unconfirmed(byPeer[p])) <= MaxUnconfirmedPerPeer

\* "A session that is already confirmed is never downgraded or reset"
\* (docs/protocol.md 6.5): while a session stays recorded its peer, role and
\* confirmation stand and its send counter never goes back.
NeverReset ==
  [][\A s \in recorded \intersect recorded' :
       /\ sess'[s].peer = sess[s].peer
       /\ sess'[s].role = sess[s].role
       /\ IsConfirmed(s) => IsConfirmed(s)'
       /\ sess'[s].sent >= sess[s].sent]_vars

\* "confirmed sessions only as a last resort" (docs/protocol.md 6.5): a put
\* drops a confirmed session that has not expired only when its peer, or the
\* store, is full of confirmed sessions.
ConfirmedLastResort ==
  [][\A t \in recorded \ recorded' :
       (IsConfirmed(t) /\ ~IsExpired(t) /\ ~(recorded' \subseteq recorded)) =>
         LET p == sess[t].peer IN
         \/ /\ Cardinality(byPeer'[p]) = MaxSessionsPerPeer
            /\ \A u \in byPeer'[p] \intersect recorded : IsConfirmed(u)
         \/ /\ Cardinality(recorded') = GlobalSessionCap
            /\ \A u \in recorded' \intersect recorded : IsConfirmed(u)]_vars

----------------------------------------------------------------------------
(* Statements of the documentation that do not hold *)

\* "a flood of replayed hellos evicts only other unconfirmed sessions and can
\* never displace a confirmed one" (session_store.py, MAX_UNCONFIRMED_PER_PEER).
UnconfirmedNeverDisplacesConfirmed ==
  [][\A s \in recorded' \ recorded, t \in recorded \ recorded' :
       (~IsConfirmed(s)' /\ sess[t].peer = sess'[s].peer /\ ~IsExpired(t))
         => ~IsConfirmed(t)]_vars

\* "Idle expiry is a lazy sweep on access" (docs/design/1d-replay-protection.md):
\* a session found past its idle timeout or key lifetime is dropped, not used.
ExpiredNeverRevived ==
  [][\A s \in recorded \intersect recorded' :
       IsExpired(s) => sess'[s].idle >= sess[s].idle]_vars

\* "On counter exhaustion or key expiry the sender opens a new session ... is
\* never a dead end" (docs/design/1d-replay-protection.md): when no confirmed
\* session of a peer is usable any more, sooner or later one is usable again,
\* a handshake with the peer is under way, or its sessions have been purged.
NeverADeadEnd ==
  \A p \in Peers :
    (HasConfirmedSession(p) /\ SendSessions(p) = {})
      ~> (SendSessions(p) # {} \/ dialing = p \/ SessionsForPeer(p) = {})
=============================================================================
