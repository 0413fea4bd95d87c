---------------------------- MODULE HandshakeV3 ----------------------------
(***************************************************************************)
(* The four-message handshake of handshake_v3.py, with the messages and    *)
(* transcripts of handshake_messages.py, the key schedule of               *)
(* handshake_keys.py and the trust store of file_trusted_peer_repository.  *)
(*                                                                         *)
(* A host is one running program: one HandshakeV3 object, one trust store. *)
(* An exchange is one connection, seen from one end.  Its own name stands  *)
(* for its fresh ephemeral key and nonce.  Hashes, signatures and MACs are *)
(* the terms they are computed from, so two are equal exactly when every   *)
(* input is.  A connection delivers what some host wrote on some           *)
(* connection of the run, possibly with one plain field changed, or        *)
(* something undecodable, or nothing.                                      *)
(*                                                                         *)
(* An exchange runs without interruption between two waits on its socket:  *)
(* the trust store never suspends the coroutine that calls it.  A wait for *)
(* drain and the wait for the next message fail alike and are one wait.    *)
(***************************************************************************)
EXTENDS GlobalHandshakeLimiter, FiniteSets

CONSTANTS
  Initiations,   \* exchanges started by initiate
  Acceptances,   \* exchanges started by accept
  HostOf,        \* the host an exchange runs on
  Ids, IdOf,     \* own_device_id of a host
  Keys,
  PublicOf,      \* own_identity.public_key of a host
  PrivateOf,     \* the public key that own_identity.private_key belongs to
  Ports, PortOf, \* the ports a host announces
  NoKey,         \* get_trusted_key returned None
  NoMessage,     \* nothing read yet
  Malformed,     \* bytes that no decoder takes
  MaxHalfOpen    \* max_half_open, 64

Exchanges == Initiations \union Acceptances

ASSUME ExchangesAssumption ==
  /\ Initiations \intersect Acceptances = {}
  /\ IsFiniteSet(Acceptances)
  /\ HostOf \in [Exchanges -> Hosts]
ASSUME HostsAssumption ==
  /\ IdOf \in [Hosts -> Ids]
  /\ PublicOf \in [Hosts -> Keys]
  /\ PrivateOf \in [Hosts -> Keys]
  /\ PortOf \in [Hosts -> Ports]
ASSUME NoKeyAssumption == NoKey \notin Keys
ASSUME MaxHalfOpenAssumption == MaxHalfOpen \in Nat \ {0}

VARIABLES
  ini,      \* the initiator exchanges: state, message 2, outcome
  res,      \* the responder exchanges: state, messages 1 and 3, message 4
  pins,     \* the trust store of every host: device id -> key
  halfOpen, \* _half_open of every host
  sessions  \* the sessions recorded on every host

vars == <<ini, res, pins, halfOpen, sessions, limiterVars>>

InitiatorStates == {"IDLE", "SENT_HELLO", "SENT_CONFIRM", "CONFIRMED", "FAILED"}

\* ResponderState, with NEW before accept admits the connection and the two
\* waits for message 4 to be written told apart.
ResponderStates ==
  {"NEW", "WAIT_HELLO", "SENT_REPLY", "ACCEPTING", "REJECTING", "CONFIRMED", "FAILED"}

\* What run() ends with: the two rejections, any other error, a result.
Outcomes == {"none", "rejected", "unverified", "error", "result"}

Init ==
  /\ ini = [i \in Initiations |->
              [st |-> "IDLE", m2 |-> NoMessage, outcome |-> "none"]]
  /\ res = [r \in Acceptances |->
              [st |-> "NEW", m1 |-> NoMessage, m3 |-> NoMessage, m4 |-> NoMessage,
               trust |-> "untouched"]]
  /\ pins = [h \in Hosts |-> [d \in Ids |-> NoKey]]
  /\ halfOpen = [h \in Hosts |-> 0]
  /\ sessions = [h \in Hosts |-> {}]
  /\ LimiterInit

----------------------------------------------------------------------------
(* Messages, transcripts and keys *)

\* What both message 1 and the body of message 2 say of their sender.
Introduction(x) ==
  [ex |-> x, id |-> IdOf[HostOf[x]], key |-> PublicOf[HostOf[x]],
   port |-> PortOf[HostOf[x]]]

\* encode_hello
Hello(i) == Introduction(i)

\* Variant of transcript_t2 that leaves the ports out.
TranscriptWithoutPorts(m1, body) == <<m1.ex, m1.id, m1.key, body.ex, body.id, body.key>>

\* transcript_t2: all of message 1 and the body of message 2.
TranscriptT2(m1, body) == <<m1, body>>

Signature(x, label, transcript) ==
  [by |-> PrivateOf[HostOf[x]], over |-> <<label, transcript>>]

\* derive_handshake_secrets: the shared secret of two ephemeral keys, bound
\* to both nonces and to t2.  Everything else is derived from it.
Secrets(x, y, t2) == [dh |-> {x, y}, t2 |-> t2]

\* confirmation_mac, with the key named by its role.
Mac(k, secrets, transcript) == [key |-> k, secrets |-> secrets, over |-> transcript]

\* encode_reply: the body, sig_r over t2, mac_r over t2 and sig_r.
Reply(r, m1) ==
  LET body == Introduction(r)
      t2   == TranscriptT2(m1, body)
      sig  == Signature(r, "responder", t2)
  IN  [body |-> body, sig |-> sig,
       mac |-> Mac("k_r", Secrets(r, m1.ex, t2), <<t2, sig>>)]

\* t2s, from message 1 and message 2 as one end knows them.
TranscriptT2s(m1, m2) == <<TranscriptT2(m1, m2.body), m2.sig>>

\* t3s, which adds mac_r and sig_i.
TranscriptT3s(m1, m2, sig) == <<TranscriptT2s(m1, m2), m2.mac, sig>>

\* encode_confirm: sig_i over t2s, mac_i over t3s.
Confirm(i, m2) ==
  LET sig == Signature(i, "initiator", TranscriptT2s(Hello(i), m2))
  IN  [sig |-> sig,
       mac |-> Mac("k_i", Secrets(i, m2.body.ex, TranscriptT2(Hello(i), m2.body)),
                   TranscriptT3s(Hello(i), m2, sig))]

\* mac_f of an accept: the whole transcript, t_final.
AcceptMac(secrets, m1, m2, m3) ==
  Mac("k_r", secrets, <<"accept", TranscriptT3s(m1, m2, m3.sig), m3.mac>>)

\* mac_f of a reject: t2s and message 3 as it arrived.
RejectMac(secrets, m1, m2, m3) ==
  Mac("k_r", secrets, <<"reject", TranscriptT2s(m1, m2), m3>>)

\* The secrets as each end derives them.
InitiatorSecrets(i, m2) == Secrets(i, m2.body.ex, TranscriptT2(Hello(i), m2.body))
ResponderSecrets(r, m1) == Secrets(r, m1.ex, TranscriptT2(m1, Introduction(r)))

----------------------------------------------------------------------------
(* What can arrive *)

\* One plain field of an introduction changed on the way.
Changed(m) ==
  {[m EXCEPT !.id = d] : d \in Ids} \union {[m EXCEPT !.port = p] : p \in Ports}
    \union {[m EXCEPT !.key = k] : k \in Keys}

\* What decode_hello makes of the bytes that arrive: an introduction, or
\* Malformed where it raises.
HellosArriving ==
  {Malformed} \union
  UNION {Changed(Hello(i)) : i \in {j \in Initiations : ini[j].st # "IDLE"}}

\* decode_reply
RepliesArriving ==
  {Malformed} \union
  UNION {{[Reply(r, res[r].m1) EXCEPT !.body = b] : b \in Changed(Introduction(r))} :
           r \in {q \in Acceptances : res[q].m1 # NoMessage}}

\* decode_confirm.  Message 3 is a signature and a MAC; a changed one is as good as one
\* written by an exchange that saw another message 2.
ConfirmsArriving ==
  {Malformed} \union
  {Confirm(i, ini[i].m2) : i \in {j \in Initiations : ini[j].m2 # NoMessage}}

\* decode_final
FinalsArriving ==
  {Malformed} \union
  UNION {{[res[r].m4 EXCEPT !.status = s] : s \in {"accept", "reject"}} :
           r \in {q \in Acceptances : res[q].m4 # NoMessage}}

----------------------------------------------------------------------------
(* Checks *)

\* check_not_self
NotSelf(x, m) == m.id # IdOf[HostOf[x]] /\ m.key # PublicOf[HostOf[x]]

\* identity_provider.verify, for a key that introduced itself as m.
Verifies(m, sig, label, transcript) ==
  sig = [by |-> m.key, over |-> <<label, transcript>>]

\* get_trusted_key: unknown or the same key.
KeyMatchesPin(x, m) == pins[HostOf[x]][m.id] \in {NoKey, m.key}

\* trust: writes whatever was there.
Trust(x, m) == pins' = [pins EXCEPT ![HostOf[x]][m.id] = m.key]

\* The initiator's checks on message 2.
ReplyAcceptable(i, m2) ==
  LET t2 == TranscriptT2(Hello(i), m2.body) IN
  /\ NotSelf(i, m2.body)
  /\ Verifies(m2.body, m2.sig, "responder", t2)
  /\ KeyMatchesPin(i, m2.body)
  /\ m2.mac = Mac("k_r", InitiatorSecrets(i, m2), <<t2, m2.sig>>)

\* The checks of _verify_message_3.
ConfirmAcceptable(r, m3) ==
  LET m1 == res[r].m1
      m2 == Reply(r, m1)
  IN
  /\ m3 # Malformed
  /\ Verifies(m1, m3.sig, "initiator", TranscriptT2s(m1, m2))
  /\ KeyMatchesPin(r, m1)
  /\ m3.mac = Mac("k_i", ResponderSecrets(r, m1), TranscriptT3s(m1, m2, m3.sig))

----------------------------------------------------------------------------
(* The initiator *)

\* initiate, connected: message 1 goes out.
Initiate(i) ==
  /\ ini[i].st = "IDLE"
  /\ ini' = [ini EXCEPT ![i].st = "SENT_HELLO"]
  /\ UNCHANGED <<res, pins, halfOpen, sessions, limiterVars>>

\* Message 2 passes every check: message 3 goes out.  The pin is read here
\* and not written.
ReplyArrives(i, m2) ==
  /\ ini[i].st = "SENT_HELLO"
  /\ m2 # Malformed
  /\ ReplyAcceptable(i, m2)
  /\ ini' = [ini EXCEPT ![i].st = "SENT_CONFIRM", ![i].m2 = m2]
  /\ UNCHANGED <<res, pins, halfOpen, sessions, limiterVars>>

\* The HandshakeResult of either end: keys, session id and role come from
\* the secrets, the rest from the other end's introduction.
Result(role, peer, secrets) ==
  [role |-> role, peer |-> peer.id, port |-> peer.port, secrets |-> secrets]

\* Message 4 accepts and its MAC verifies: pin, then return the result.
AcceptArrives(i, m4) ==
  LET m2 == ini[i].m2 IN
  /\ ini[i].st = "SENT_CONFIRM"
  /\ m4 # Malformed /\ m4.status = "accept"
  /\ m4.mac = AcceptMac(InitiatorSecrets(i, m2), Hello(i), m2, Confirm(i, m2))
  /\ Trust(i, m2.body)
  /\ sessions' = [sessions EXCEPT ![HostOf[i]] =
                    @ \union {Result("initiator", m2.body, InitiatorSecrets(i, m2))}]
  /\ ini' = [ini EXCEPT ![i].st = "CONFIRMED", ![i].outcome = "result"]
  /\ UNCHANGED <<res, halfOpen, limiterVars>>

\* _require_authenticated_reject
AuthenticReject(i, m4) ==
  /\ m4 # Malformed /\ m4.status = "reject"
  /\ m4.mac = RejectMac(InitiatorSecrets(i, ini[i].m2), Hello(i), ini[i].m2,
                        Confirm(i, ini[i].m2))

\* HandshakeRejectedError
RejectArrives(i, m4) ==
  /\ ini[i].st = "SENT_CONFIRM"
  /\ AuthenticReject(i, m4)
  /\ ini' = [ini EXCEPT ![i].st = "FAILED", ![i].outcome = "rejected"]
  /\ UNCHANGED <<res, pins, halfOpen, sessions, limiterVars>>

\* HandshakeRejectionUnverifiedError: undecodable, or a reject nobody signed.
UnverifiedRejectArrives(i, m4) ==
  /\ ini[i].st = "SENT_CONFIRM"
  /\ m4 # Malformed => m4.status = "reject"
  /\ ~AuthenticReject(i, m4)
  /\ ini' = [ini EXCEPT ![i].st = "FAILED", ![i].outcome = "unverified"]
  /\ UNCHANGED <<res, pins, halfOpen, sessions, limiterVars>>

\* Every other way out of _exchange: the deadline, a closed connection, a
\* message 2 that is undecodable or fails a check, a bad MAC on an accept.
InitiationFails(i) ==
  /\ ini[i].st \in {"SENT_HELLO", "SENT_CONFIRM"}
  /\ ini' = [ini EXCEPT ![i].st = "FAILED", ![i].outcome = "error"]
  /\ UNCHANGED <<res, pins, halfOpen, sessions, limiterVars>>

----------------------------------------------------------------------------
(* The responder *)

\* accept, past the global limiter.
Admit(r) ==
  /\ res[r].st = "NEW"
  /\ TakeToken(HostOf[r])
  /\ res' = [res EXCEPT ![r].st = "WAIT_HELLO"]
  /\ UNCHANGED <<ini, pins, halfOpen, sessions>>

\* HandshakeRateLimitedError
RateLimited(r) ==
  /\ res[r].st = "NEW"
  /\ Refuse(HostOf[r])
  /\ res' = [res EXCEPT ![r].st = "FAILED"]
  /\ UNCHANGED <<ini, pins, halfOpen, sessions>>

\* Variant of begin_half_open with an off-by-one at the cap.
RoomForHalfOpenPlusOne(h) == halfOpen[h] <= MaxHalfOpen

\* begin_half_open's test.
RoomForHalfOpen(h) == halfOpen[h] < MaxHalfOpen

\* Variant that pins the sender of an unsigned message 1.
HelloArrivesPinsEarly(r, m1) ==
  /\ res[r].st = "WAIT_HELLO"
  /\ m1 # Malformed /\ NotSelf(r, m1)
  /\ RoomForHalfOpen(HostOf[r])
  /\ halfOpen' = [halfOpen EXCEPT ![HostOf[r]] = @ + 1]
  /\ res' = [res EXCEPT ![r].st = "SENT_REPLY", ![r].m1 = m1]
  /\ Trust(r, m1)
  /\ UNCHANGED <<ini, sessions, limiterVars>>

\* Message 1 decodes and is not this host's own: count the exchange, answer.
HelloArrives(r, m1) ==
  /\ res[r].st = "WAIT_HELLO"
  /\ m1 # Malformed /\ NotSelf(r, m1)
  /\ RoomForHalfOpen(HostOf[r])
  /\ halfOpen' = [halfOpen EXCEPT ![HostOf[r]] = @ + 1]
  /\ res' = [res EXCEPT ![r].st = "SENT_REPLY", ![r].m1 = m1]
  /\ UNCHANGED <<ini, pins, sessions, limiterVars>>

\* Deadline, closed connection, undecodable, this host itself, or
\* HandshakeBusyError: nothing has been counted yet.
HelloFails(r) ==
  /\ res[r].st = "WAIT_HELLO"
  /\ res' = [res EXCEPT ![r].st = "FAILED"]
  /\ UNCHANGED <<ini, pins, halfOpen, sessions, limiterVars>>

\* Variant of end_half_open that is not reached.
StillHalfOpen(h) == halfOpen

\* end_half_open
EndHalfOpen(h) == [halfOpen EXCEPT ![h] = IF @ > 0 THEN @ - 1 ELSE @]

\* Message 4 with its MAC, or nothing when the deadline has passed by then.
AcceptWritten(r, m3) ==
  LET m1 == res[r].m1 IN
  {NoMessage,
   [status |-> "accept",
    mac |-> AcceptMac(ResponderSecrets(r, m1), m1, Reply(r, m1), m3)]}

RejectWritten(r, m3) ==
  LET m1 == res[r].m1 IN
  {NoMessage,
   [status |-> "reject",
    mac |-> RejectMac(ResponderSecrets(r, m1), m1, Reply(r, m1), m3)]}

\* Message 3 verifies: pin, record the session through on_confirmed, then
\* write message 4.
ConfirmArrives(r, m3) ==
  /\ res[r].st = "SENT_REPLY"
  /\ ConfirmAcceptable(r, m3)
  /\ Trust(r, res[r].m1)
  /\ sessions' = [sessions EXCEPT ![HostOf[r]] = @ \union
                    {Result("responder", res[r].m1, ResponderSecrets(r, res[r].m1))}]
  /\ \E m4 \in AcceptWritten(r, m3) :
       res' = [res EXCEPT ![r].st = "ACCEPTING", ![r].m3 = m3, ![r].m4 = m4,
                          ![r].trust = "pinned"]
  /\ UNCHANGED <<ini, halfOpen, limiterVars>>

\* on_confirmed raises (SessionStore.put refuses the id): the pin stands,
\* and the exchange is rejected.
RecordingFails(r, m3) ==
  /\ res[r].st = "SENT_REPLY"
  /\ ConfirmAcceptable(r, m3)
  /\ Trust(r, res[r].m1)
  /\ \E m4 \in RejectWritten(r, m3) :
       res' = [res EXCEPT ![r].st = "REJECTING", ![r].m3 = m3, ![r].m4 = m4,
                          ![r].trust = "pinned"]
  /\ UNCHANGED <<ini, halfOpen, sessions, limiterVars>>

\* _verify_message_3 raises before anything is pinned: message 3 does not
\* verify, or trust cannot write its file.  Reject, best effort.
ConfirmRefused(r, m3) ==
  /\ res[r].st = "SENT_REPLY"
  /\ \E m4 \in RejectWritten(r, m3) :
       res' = [res EXCEPT ![r].st = "REJECTING", ![r].m3 = m3, ![r].m4 = m4]
  /\ UNCHANGED <<ini, pins, halfOpen, sessions, limiterVars>>

\* No message 3: deadline or closed connection.  No reject is sent.
ReplyUnanswered(r) ==
  /\ res[r].st = "SENT_REPLY"
  /\ res' = [res EXCEPT ![r].st = "FAILED"]
  /\ halfOpen' = EndHalfOpen(HostOf[r])
  /\ UNCHANGED <<ini, pins, sessions, limiterVars>>

\* The accept drained.
AcceptSent(r) ==
  /\ res[r].st = "ACCEPTING" /\ res[r].m4 # NoMessage
  /\ res' = [res EXCEPT ![r].st = "CONFIRMED"]
  /\ halfOpen' = EndHalfOpen(HostOf[r])
  /\ UNCHANGED <<ini, pins, sessions, limiterVars>>

\* The accept was not written, or its drain failed: run() raises, although
\* the bytes may have left.
AcceptFails(r) ==
  /\ res[r].st = "ACCEPTING"
  /\ res' = [res EXCEPT ![r].st = "FAILED"]
  /\ halfOpen' = EndHalfOpen(HostOf[r])
  /\ UNCHANGED <<ini, pins, sessions, limiterVars>>

\* The reject is out, or given up.
RejectDone(r) ==
  /\ res[r].st = "REJECTING"
  /\ res' = [res EXCEPT ![r].st = "FAILED"]
  /\ halfOpen' = EndHalfOpen(HostOf[r])
  /\ UNCHANGED <<ini, pins, sessions, limiterVars>>

----------------------------------------------------------------------------
InitiatorStep(i) ==
  \/ Initiate(i)
  \/ \E m2 \in RepliesArriving : ReplyArrives(i, m2)
  \/ \E m4 \in FinalsArriving : AcceptArrives(i, m4)
  \/ \E m4 \in FinalsArriving : RejectArrives(i, m4)
  \/ \E m4 \in FinalsArriving : UnverifiedRejectArrives(i, m4)
  \/ InitiationFails(i)

\* The steps that need no message: the deadline bounds every wait.
ResponderGivesUp(r) ==
  HelloFails(r) \/ ReplyUnanswered(r) \/ AcceptFails(r) \/ RejectDone(r)

ResponderStep(r) ==
  \/ Admit(r)
  \/ RateLimited(r)
  \/ \E m1 \in HellosArriving : HelloArrives(r, m1)
  \/ \E m3 \in ConfirmsArriving : ConfirmArrives(r, m3)
  \/ \E m3 \in ConfirmsArriving : RecordingFails(r, m3)
  \/ \E m3 \in ConfirmsArriving : ConfirmRefused(r, m3)
  \/ AcceptSent(r)
  \/ ResponderGivesUp(r)

Next ==
  \/ \E i \in Initiations : InitiatorStep(i)
  \/ \E r \in Acceptances : ResponderStep(r)
  \/ Tick /\ UNCHANGED <<ini, res, pins, halfOpen, sessions>>

Spec == Init /\ [][Next]_vars

\* HANDSHAKE_DEADLINE_S ends every wait of either end.
FairSpec ==
  /\ Spec
  /\ \A i \in Initiations : WF_vars(InitiationFails(i))
  /\ \A r \in Acceptances : WF_vars(ResponderGivesUp(r))

----------------------------------------------------------------------------
(* Properties *)

\* The state of the exchanges, the trust stores the half-open counters
\* and the limiters.
TypeOK ==
  /\ \A i \in Initiations :
       ini[i].st \in InitiatorStates /\ ini[i].outcome \in Outcomes
  /\ \A r \in Acceptances : res[r].st \in ResponderStates
  /\ pins \in [Hosts -> [Ids -> Keys \union {NoKey}]]
  /\ halfOpen \in [Hosts -> Nat]
  /\ LimiterTypeOK

\* Message 4 decides usability: an initiator that is CONFIRMED read exactly
\* what one responder wrote, that responder read exactly this initiator's
\* message 1, ports included, holds the identity key it claimed, and has
\* recorded its session, under the same secrets, by then (so a first data
\* frame never meets UnknownSessionError).
InitiatorAgreement ==
  \A i \in Initiations : ini[i].st = "CONFIRMED" =>
    \E r \in Acceptances :
      /\ res[r].m1 = Hello(i)
      /\ ini[i].m2 = Reply(r, Hello(i))
      /\ PublicOf[HostOf[r]] = PrivateOf[HostOf[r]]
      /\ Result("responder", Hello(i), InitiatorSecrets(i, ini[i].m2))
           \in sessions[HostOf[r]]

\* The other direction: a session a responder records belongs to one
\* initiator that sent message 1 as it was read, holds the key it claimed,
\* and has itself checked this responder's message 2.
ResponderAgreement ==
  \A r \in {q \in Acceptances : res[q].m1 # NoMessage} :
    Result("responder", res[r].m1, ResponderSecrets(r, res[r].m1))
      \in sessions[HostOf[r]] =>
    \E i \in Initiations :
      /\ res[r].m1 = Hello(i)
      /\ ini[i].m2 = Reply(r, Hello(i))
      /\ PublicOf[HostOf[i]] = PrivateOf[HostOf[i]]

\* No trust store ever pins a key for an id unless some host goes by that
\* id and holds that key: a changed id or key, or a host whose key files do
\* not belong together, is never pinned, on any path of either end.
PinsAuthentic ==
  \A h \in Hosts, d \in Ids : pins[h][d] # NoKey =>
    \E g \in Hosts : /\ IdOf[g] = d
                     /\ PublicOf[g] = pins[h][d] /\ PrivateOf[g] = pins[h][d]

\* HandshakeRejectedError is raised only when a responder really rejected
\* this exchange: the only rejection "a caller may count against a peer".
RejectionAuthentic ==
  \A i \in Initiations : ini[i].outcome = "rejected" =>
    \E r \in Acceptances :
      /\ res[r].m1 = Hello(i)
      /\ res[r].m3 = Confirm(i, ini[i].m2)
      /\ res[r].m4 # NoMessage /\ res[r].m4.status = "reject"

\* What an end concludes from an exchange is true of the other end
\* (docs/design/1e-handshake.md): confirmed, recorded or rejected.
Agreement == InitiatorAgreement /\ ResponderAgreement /\ RejectionAuthentic

Counted == {"SENT_REPLY", "ACCEPTING", "REJECTING"}

\* _half_open is the number of exchanges between message 2 and message 4,
\* whatever path each of them takes, and never above the cap.
HalfOpenExact ==
  \A h \in Hosts :
    /\ halfOpen[h] = Cardinality({r \in Acceptances : HostOf[r] = h /\ res[r].st \in Counted})
    /\ halfOpen[h] <= MaxHalfOpen

\* The state is well formed and the half-open counter exact (begin_half_open
\* and end_half_open on every path of _ResponderExchange.run).
HalfOpenInv == TypeOK /\ HalfOpenExact

\* A responder at its cap has room again, although its peers stay silent.
HalfOpenRecovers ==
  \A h \in Hosts : halfOpen[h] = MaxHalfOpen ~> halfOpen[h] < MaxHalfOpen

----------------------------------------------------------------------------
(* Statements of the documentation that do not hold *)

\* "A failed or aborted handshake must leave the trust store untouched"
\* (docs/design/1e-handshake.md 4.9, handshake_v3.py): an exchange that ends
\* in FAILED has not called trust.
FailedLeavesTrustUntouched ==
  \A r \in Acceptances : res[r].st = "FAILED" => res[r].trust = "untouched"

\* "the first handshake with a given device_id pins its public key; every
\* later handshake must present that same key" (domain/identity.py): a pin
\* is never replaced by another key.
PinNeverReplaced ==
  [][\A h \in Hosts, d \in Ids : pins[h][d] # NoKey => pins'[h][d] = pins[h][d]]_vars
=============================================================================
