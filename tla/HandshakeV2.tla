---------------------------- MODULE HandshakeV2 ----------------------------
(***************************************************************************)
(* The handshake main.py runs: X25519Handshake and HandshakeServer of      *)
(* x25519_handshake.py, with the key schedule of session_keys.py, the      *)
(* trust store, and the queue _drain_inbound_handshakes empties.           *)
(*                                                                         *)
(* Names as in HandshakeV3: an exchange is one end of one connection and   *)
(* stands for its fresh ephemeral key (and, for an initiator, its salt).   *)
(* Connections lose, delay, repeat and cross messages.  They do not change *)
(* them: that the signature leaves out device id and ports, so that such a *)
(* change goes unnoticed, is recorded in docs/adr/0027.                    *)
(***************************************************************************)
EXTENDS SourceRateLimiter

CONSTANTS
  Hosts,
  Initiations,    \* calls of initiate
  HostOf,         \* the host an exchange runs on
  SourceOf,       \* the address a connection comes from
  Ids, IdOf, Keys, PublicOf, PrivateOf,
  NoKey,          \* get_trusted_key returned None
  NoMessage,      \* nothing read yet
  MaxConnections  \* MAX_CONCURRENT_CONNECTIONS, 256

ASSUME ExchangesAssumption ==
  /\ Initiations \intersect Connections = {}
  /\ IsFiniteSet(Connections)
  /\ HostOf \in [Initiations \union Connections -> Hosts]
  /\ SourceOf \in [Connections -> Sources]
ASSUME HostsAssumption ==
  /\ IdOf \in [Hosts -> Ids]
  /\ PublicOf \in [Hosts -> Keys]
  /\ PrivateOf \in [Hosts -> Keys]
ASSUME NoKeyAssumption == NoKey \notin Keys
ASSUME MaxConnectionsAssumption == MaxConnections \in Nat \ {0}

VARIABLES
  ini,      \* the calls of initiate: state and reply
  res,      \* the connections served: state and request
  pins,     \* the trust store of every host
  active,   \* _active_connections
  results,  \* what is in the queue results
  sessions  \* what has been recorded in the session store

vars == <<ini, res, pins, active, results, sessions, limiterVars>>

Init ==
  /\ ini = [i \in Initiations |-> [st |-> "idle", m2 |-> NoMessage]]
  /\ res = [r \in Connections |-> [st |-> "new", m1 |-> NoMessage]]
  /\ pins = [h \in Hosts |-> [d \in Ids |-> NoKey]]
  /\ active = [h \in Hosts |-> 0]
  /\ results = [h \in Hosts |-> {}]
  /\ sessions = [h \in Hosts |-> {}]
  /\ LimiterInit

----------------------------------------------------------------------------
(* Messages and keys *)

\* Message of x, signed over the initiator's salt and x's ephemeral key.
Message(x, salt) ==
  [ex |-> x, id |-> IdOf[HostOf[x]], key |-> PublicOf[HostOf[x]],
   sig |-> [by |-> PrivateOf[HostOf[x]], over |-> <<salt, x>>]]

Hello(i) == Message(i, i)
Reply(r, m1) == Message(r, m1.ex)

\* derive_session_id: salt, shared secret and both ephemeral keys.
SessionId(e_i, e_r) == <<e_i, e_r>>

\* derive_directional_keys, by the roles they belong to.
DirectionalKey(direction, e_i, e_r, id_i, id_r) ==
  <<direction, SessionId(e_i, e_r), id_i, id_r>>

\* Variant that hands both roles the same pair.
KeysUnswapped(role, e_i, e_r, id_i, id_r) ==
  [sid |-> SessionId(e_i, e_r), role |-> role,
   send |-> DirectionalKey("i2r", e_i, e_r, id_i, id_r),
   receive |-> DirectionalKey("r2i", e_i, e_r, id_i, id_r)]

\* derive_session_keys: the responder's pair is the initiator's, swapped.
SessionKeys(role, e_i, e_r, id_i, id_r) ==
  LET i2r == DirectionalKey("i2r", e_i, e_r, id_i, id_r)
      r2i == DirectionalKey("r2i", e_i, e_r, id_i, id_r)
  IN  [sid |-> SessionId(e_i, e_r), role |-> role,
       send |-> IF role = "initiator" THEN i2r ELSE r2i,
       receive |-> IF role = "initiator" THEN r2i ELSE i2r]

InitiatorKeys(i, m2) == SessionKeys("initiator", i, m2.ex, IdOf[HostOf[i]], m2.id)
ResponderKeys(r, m1) == SessionKeys("responder", m1.ex, r, m1.id, IdOf[HostOf[r]])

----------------------------------------------------------------------------
(* _verify_and_trust *)

\* Variant without the comparison with the pin.
AcceptableAnyKey(x, m, salt) == m.sig = [by |-> m.key, over |-> <<salt, m.ex>>]

\* Neither InvalidHandshakeSignatureError nor PeerIdentityMismatchError.
Acceptable(x, m, salt) ==
  /\ m.sig = [by |-> m.key, over |-> <<salt, m.ex>>]
  /\ pins[HostOf[x]][m.id] \in {NoKey, m.key}

Trust(x, m) == pins' = [pins EXCEPT ![HostOf[x]][m.id] = m.key]

\* SessionStore.put refuses a session id that is already recorded, with
\* SessionIdCollisionError.  Only a device that has dialled itself meets one
\* (SessionIdsFresh); _drain_inbound_handshakes catches nothing (main.py), and
\* that its task would end there is left out.
Put(h, k) ==
  sessions' = [sessions EXCEPT ![h] =
    IF \E s \in @ : s.sid = k.sid THEN @ ELSE @ \union {k}]

----------------------------------------------------------------------------
(* initiate *)

Initiate(i) ==
  /\ ini[i].st = "idle"
  /\ ini' = [ini EXCEPT ![i].st = "waiting"]
  /\ UNCHANGED <<res, pins, active, results, sessions, limiterVars>>

\* The reply verifies: pin, derive, and ensure_session records the session.
ReplyArrives(i, m2) ==
  /\ ini[i].st = "waiting"
  /\ Acceptable(i, m2, i)
  /\ Trust(i, m2)
  /\ ini' = [ini EXCEPT ![i] = [st |-> "done", m2 |-> m2]]
  /\ Put(HostOf[i], InitiatorKeys(i, m2))
  /\ UNCHANGED <<res, active, results, limiterVars>>

\* Refused, timed out, closed, or a reply that does not verify.
InitiationFails(i) ==
  /\ ini[i].st = "waiting"
  /\ ini' = [ini EXCEPT ![i].st = "failed"]
  /\ UNCHANGED <<res, pins, active, results, sessions, limiterVars>>

----------------------------------------------------------------------------
(* HandshakeServer._handle_connection and accept *)

RoomForConnection(h) == active[h] < MaxConnections

\* Let through by the rate limiter and under the cap.
Serve(r) ==
  /\ res[r].st = "new"
  /\ AllowFrom(SourceOf[r], r)
  /\ RoomForConnection(HostOf[r])
  /\ active' = [active EXCEPT ![HostOf[r]] = @ + 1]
  /\ res' = [res EXCEPT ![r].st = "reading"]
  /\ UNCHANGED <<ini, pins, results, sessions>>

\* Rate limited: closed at once.
TurnAway(r) ==
  /\ res[r].st = "new"
  /\ DenyFrom(SourceOf[r])
  /\ res' = [res EXCEPT ![r].st = "failed"]
  /\ UNCHANGED <<ini, pins, active, results, sessions>>

\* Over the cap: the attempt has been recorded all the same.
TooMany(r) ==
  /\ res[r].st = "new"
  /\ AllowFrom(SourceOf[r], r)
  /\ ~RoomForConnection(HostOf[r])
  /\ res' = [res EXCEPT ![r].st = "failed"]
  /\ UNCHANGED <<ini, pins, active, results, sessions>>

\* The request verifies: pin its sender, then write the reply.
HelloArrives(r, m1) ==
  /\ res[r].st = "reading"
  /\ Acceptable(r, m1, m1.ex)
  /\ Trust(r, m1)
  /\ res' = [res EXCEPT ![r] = [st |-> "replying", m1 |-> m1]]
  /\ UNCHANGED <<ini, active, results, sessions, limiterVars>>

\* Variant of the finally clause that does not give the place back.
KeepPlace(r) == UNCHANGED active

\* The finally clause.
GiveBackPlace(r) == active' = [active EXCEPT ![HostOf[r]] = @ - 1]

\* The reply is out: derive the keys and publish the result.
ReplySent(r) ==
  /\ res[r].st = "replying"
  /\ res' = [res EXCEPT ![r].st = "done"]
  /\ results' = [results EXCEPT ![HostOf[r]] = @ \union {ResponderKeys(r, res[r].m1)}]
  /\ GiveBackPlace(r)
  /\ UNCHANGED <<ini, pins, sessions, limiterVars>>

\* No request within the read timeout, one that does not verify, or a
\* connection that breaks, also while the reply is being written.
ServingFails(r) ==
  /\ res[r].st \in {"reading", "replying"}
  /\ res' = [res EXCEPT ![r].st = "failed"]
  /\ GiveBackPlace(r)
  /\ UNCHANGED <<ini, pins, results, sessions, limiterVars>>

\* Variant of the drain loop that leaves the result in the queue.
DrainKeeps(h) ==
  \E k \in results[h] :
    /\ sessions' = [sessions EXCEPT ![h] = @ \union {k}]
    /\ UNCHANGED <<ini, res, pins, active, results, limiterVars>>

\* _drain_inbound_handshakes.
Drain(h) ==
  \E k \in results[h] :
    /\ results' = [results EXCEPT ![h] = @ \ {k}]
    /\ Put(h, k)
    /\ UNCHANGED <<ini, res, pins, active, limiterVars>>

----------------------------------------------------------------------------
\* Everything ever written may arrive on any connection, at any time.
Hellos == {Hello(i) : i \in {j \in Initiations : ini[j].st # "idle"}}
Replies == {Reply(r, res[r].m1) : r \in {q \in Connections : res[q].m1 # NoMessage}}

Next ==
  \/ \E i \in Initiations : Initiate(i)
  \/ \E i \in Initiations, m2 \in Replies : ReplyArrives(i, m2)
  \/ \E i \in Initiations : InitiationFails(i)
  \/ \E r \in Connections : Serve(r)
  \/ \E r \in Connections : TurnAway(r)
  \/ \E r \in Connections : TooMany(r)
  \/ \E r \in Connections, m1 \in Hellos : HelloArrives(r, m1)
  \/ \E r \in Connections : ReplySent(r)
  \/ \E r \in Connections : ServingFails(r)
  \/ \E h \in Hosts : Drain(h)
  \/ (Prune \/ Tick) /\ UNCHANGED <<ini, res, pins, active, results, sessions>>

Spec == Init /\ [][Next]_vars

\* Reads time out after MESSAGE_READ_TIMEOUT; the drain task keeps running.
FairSpec ==
  /\ Spec
  /\ \A r \in Connections : WF_vars(ServingFails(r))
  /\ \A h \in Hosts : WF_vars(Drain(h))

----------------------------------------------------------------------------
(* Properties *)

\* The states of both ends, the trust stores, the connection counters and
\* the limiter.
TypeOK ==
  /\ \A i \in Initiations : ini[i].st \in {"idle", "waiting", "done", "failed"}
  /\ \A r \in Connections : res[r].st \in {"new", "reading", "replying", "done", "failed"}
  /\ pins \in [Hosts -> [Ids -> Keys \union {NoKey}]]
  /\ active \in [Hosts -> 0 .. MaxConnections]
  /\ LimiterTypeOK

\* _active_connections counts the connections being served, on every path
\* out of the handler.
ActiveExact ==
  \A h \in Hosts :
    active[h] = Cardinality({r \in Connections :
                               HostOf[r] = h /\ res[r].st \in {"reading", "replying"}})

\* The state of the server is well formed, within its cap, and the counter
\* exact (HandshakeServer._handle_connection).
ServerInv == TypeOK /\ ActiveExact

\* Trust-on-first-use: check and pin happen in one step of the event loop,
\* so that with any interleaving of handshakes, dialled and served, that
\* claim one id with different keys, the first key pinned stays
\* (domain/identity.py: "every later handshake must present that same key").
PinNeverReplaced ==
  [][\A h \in Hosts, d \in Ids : pins[h][d] # NoKey => pins'[h][d] = pins[h][d]]_vars

\* A pinned key belongs to a host that goes by the id and holds the key.
PinsAuthentic ==
  \A h \in Hosts, d \in Ids : pins[h][d] # NoKey =>
    \E g \in Hosts : /\ IdOf[g] = d
                     /\ PublicOf[g] = pins[h][d] /\ PrivateOf[g] = pins[h][d]

\* Wherever two sessions of the run have one session id, they are the two
\* ends of one handshake and each sends under the key the other receives
\* under: also when a hello was served twice, or a reply crossed over.
KeysMirror ==
  \A g, h \in Hosts : \A s \in sessions[g], t \in sessions[h] :
    (s # t /\ s.sid = t.sid) =>
      s.role # t.role /\ s.send = t.receive /\ s.receive = t.send

\* A hello that is delivered again yields a session id of its own: a result
\* is refused by SessionStore.put as a collision only where a device has made
\* a handshake with itself.
SessionIdsFresh ==
  \A h \in Hosts : \A k \in results[h], s \in sessions[h] :
    k.sid = s.sid => HostOf[k.sid[1]] = HostOf[k.sid[2]]

\* What handshakes leave behind, in whichever order their messages arrive, and
\* however often: authentic pins, mirrored keys, fresh session ids (initiate,
\* accept and derive_session_keys).
HandshakeInv == PinsAuthentic /\ KeysMirror /\ SessionIdsFresh

\* Every published result is recorded, sooner or later.
PublishedIsRecorded ==
  \A r \in Connections :
    res[r].st = "done"
      ~> \E s \in sessions[HostOf[r]] : s.sid[2] = r /\ s \notin results[HostOf[r]]

\* A server at its cap serves again, although its peers stay silent.
PlacesRecover ==
  \A h \in {HostOf[r] : r \in Connections} :
    active[h] = MaxConnections ~> active[h] < MaxConnections

\* The server makes progress whatever its peers do (_handle_connection and
\* _drain_inbound_handshakes).
ServerProgress == PublishedIsRecorded /\ PlacesRecover
=============================================================================
