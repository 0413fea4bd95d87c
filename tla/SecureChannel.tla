---------------------------- MODULE SecureChannel ----------------------------
(***************************************************************************)
(* The encrypted channel between devices: SecureChannel.seal / open        *)
(* (secure_channel.py) as TcpTransferTransport and TcpManifestExchange     *)
(* drive it over a network that loses, delays, duplicates, reorders and    *)
(* corrupts frames, with devices that restart and sessions that expire.    *)
(*                                                                         *)
(* A chunk frame waits in the inbox and is opened when the push receiver   *)
(* gets to it; a request or a response is opened by the task that read it. *)
(* All three share the window of the session.  A session is its two ends:  *)
(* the initiator records its end when the handshake reply verifies, the    *)
(* responder when the drain task of main.py takes the result off the       *)
(* queue, in either order.  SessionStore says which sessions are dropped;  *)
(* here Forget may drop any, at any time.  AntiReplayWindow implements     *)
(* ReplayGuard, and ReplayGuard is the window used here.                   *)
(*                                                                         *)
(* A frame is its plaintext header and whether its ciphertext is the one   *)
(* seal produced.  Keys are left out: the AEAD is external, and accepts a  *)
(* frame exactly when it was sealed for that session, direction, counter   *)
(* and packet type.                                                        *)
(***************************************************************************)
EXTENDS Integers, Sequences, FiniteSets

CONSTANTS
  Devices,
  Sids,
  Initiator,     \* [Sids -> Devices]: who dialled
  Responder,     \* [Sids -> Devices]: who answered
  Window,        \* DEFAULT_REPLAY_WINDOW_SIZE, 128
  MaxMessages,   \* [Devices -> Nat]: MAX_MESSAGES_PER_KEY, 2^32
  MaxCounter,    \* MAX_COUNTER, 2^63 - 1
  AlteredCounters, \* bound: counters an altered frame may show
  InboxMaxSize   \* INBOX_MAX_SIZE, 4096

ASSUME RolesAssumption ==
  /\ Initiator \in [Sids -> Devices]
  /\ Responder \in [Sids -> Devices]
  /\ \A s \in Sids : Initiator[s] # Responder[s]
ASSUME WindowAssumption == Window \in Nat \ {0}
ASSUME BoundsAssumption ==
  /\ MaxCounter \in Nat
  /\ MaxMessages \in [Devices -> 0 .. MaxCounter]
  /\ AlteredCounters \subseteq 1 .. MaxCounter
  /\ InboxMaxSize \in Nat

VARIABLES
  end,        \* end[d][s]: what d holds of session s
  sent,       \* sent[d][s]: counters d has allocated in s
  window,     \* window[d][s]: the receive window, as in ReplayGuard
  sealed,     \* every frame ever sealed; the network keeps them all
  inbox,      \* inbox[d]: chunk frames read and not yet opened
  awaiting,   \* awaiting[d]: requests d waits for the response of
  serving,    \* serving[d]: requests d has opened and not yet answered
  delivered   \* history: how often d has handed a frame to the application

vars == <<end, sent, window, sealed, inbox, awaiting, serving, delivered>>

Counters == 1 .. MaxCounter

Directions == {"i2r", "r2i"}

\* CHUNK_DATA to the transfer port; a request; its response.
Kinds == {"chunk", "request", "response"}

Frames ==
  [sid : Sids, dir : Directions, ctr : Counters, kind : Kinds,
   body : {"sealed", "altered"}]

\* none: no handshake yet; pending: keys derived, not recorded; gone: lost
\* to expiry, eviction, a failed dial or a restart.
EndStates == {"none", "pending", "unconfirmed", "confirmed", "gone"}

NewWindow == [highest |-> 0, admitted |-> [c \in Counters |-> 0]]

Init ==
  /\ end = [d \in Devices |-> [s \in Sids |-> "none"]]
  /\ sent = [d \in Devices |-> [s \in Sids |-> 0]]
  /\ window = [d \in Devices |-> [s \in Sids |-> NewWindow]]
  /\ sealed = {}
  /\ inbox = [d \in Devices |-> <<>>]
  /\ awaiting = [d \in Devices |-> {}]
  /\ serving = [d \in Devices |-> {}]
  /\ delivered = [d \in Devices |-> [f \in Frames |-> 0]]

----------------------------------------------------------------------------
(* Sessions *)

Recorded(d, s) == end[d][s] \in {"unconfirmed", "confirmed"}

\* The responder has answered a hello and derived the keys.  The dialler is
\* waiting for the answer, or is not (a lost reply, a repeated hello).
Accept(s) ==
  /\ end[Responder[s]][s] = "none"
  /\ \E e \in {"pending", "gone"} :
       end' = [end EXCEPT ![Responder[s]][s] = "pending",
                          ![Initiator[s]][s] = e]
  /\ UNCHANGED <<sent, window, sealed, inbox, awaiting, serving, delivered>>

\* ensure_session records the initiator's end, confirmed.
RecordInitiator(s) ==
  /\ end[Initiator[s]][s] = "pending"
  /\ end' = [end EXCEPT ![Initiator[s]][s] = "confirmed"]
  /\ UNCHANGED <<sent, window, sealed, inbox, awaiting, serving, delivered>>

\* Variant of the drain task that records the session as usable at once.
RecordResponderConfirmed(s) ==
  /\ end[Responder[s]][s] = "pending"
  /\ end' = [end EXCEPT ![Responder[s]][s] = "confirmed"]
  /\ UNCHANGED <<sent, window, sealed, inbox, awaiting, serving, delivered>>

\* _drain_inbound_handshakes records the responder's end, unconfirmed.
RecordResponder(s) ==
  /\ end[Responder[s]][s] = "pending"
  /\ end' = [end EXCEPT ![Responder[s]][s] = "unconfirmed"]
  /\ UNCHANGED <<sent, window, sealed, inbox, awaiting, serving, delivered>>

\* The store drops a session: expiry, a cap, or remove_by_peer.  The tasks
\* that are serving a request keep the PeerSession object they hold.
Forget(d, s) ==
  /\ Recorded(d, s)
  /\ end' = [end EXCEPT ![d][s] = "gone"]
  /\ UNCHANGED <<sent, window, sealed, inbox, awaiting, serving, delivered>>

\* A device crashes or is stopped and comes back: nothing of the channel is
\* persisted.
Restart(d) ==
  /\ end' = [end EXCEPT ![d] = [s \in Sids |->
               IF end[d][s] = "none" THEN "none" ELSE "gone"]]
  /\ inbox' = [inbox EXCEPT ![d] = <<>>]
  /\ awaiting' = [awaiting EXCEPT ![d] = {}]
  /\ serving' = [serving EXCEPT ![d] = {}]
  /\ UNCHANGED <<sent, window, sealed, delivered>>

----------------------------------------------------------------------------
(* SecureChannel *)

\* outgoing_direction and incoming_direction, for the role of d in s.
Outgoing(d, s) == IF d = Initiator[s] THEN "i2r" ELSE "r2i"
Incoming(d, s) == IF d = Initiator[s] THEN "r2i" ELSE "i2r"

\* The frame seal makes of the next counter.
NextFrame(d, s, k) ==
  [sid |-> s, dir |-> Outgoing(d, s), ctr |-> sent[d][s] + 1, kind |-> k,
   body |-> "sealed"]

\* Variant of seal that gives the counter back when the connection fails.
SealGivesBack(d, s, k) ==
  /\ sent[d][s] < MaxMessages[d]
  /\ \E n \in {0, 1} : sent' = [sent EXCEPT ![d][s] = @ + n]
  /\ sealed' = sealed \union {NextFrame(d, s, k)}

\* seal: allocate_counter, then encrypt.  The frame exists from here on even
\* if the connection it is meant for fails.
Seal(d, s, k) ==
  /\ sent[d][s] < MaxMessages[d]
  /\ sent' = [sent EXCEPT ![d][s] = @ + 1]
  /\ sealed' = sealed \union {NextFrame(d, s, k)}

\* The receive window of d in s.
Replay(d, s) == INSTANCE ReplayGuard WITH
                  highest <- window[d][s].highest,
                  admitted <- window[d][s].admitted

\* The AEAD (external): the ciphertext verifies for this header.
Authentic(f) == f \in sealed

\* Variant of open without the direction check.
AcceptableAnyDirection(d, f) ==
  /\ Recorded(d, f.sid)
  /\ Replay(d, f.sid)!Admissible(f.ctr)
  /\ Authentic(f)

\* The checks of open: session, direction, would_accept, AEAD.
Acceptable(d, f) ==
  /\ Recorded(d, f.sid)
  /\ f.dir = Incoming(d, f.sid)
  /\ Replay(d, f.sid)!Admissible(f.ctr)
  /\ Authentic(f)

\* receive_window.accept.
Admitted(w, c) ==
  [highest |-> IF c > w.highest THEN c ELSE w.highest,
   admitted |-> [w.admitted EXCEPT ![c] = 1]]

\* Variant of open that advances the window before it authenticates.
OpenAcceptsFirst(d, f) ==
  /\ Recorded(d, f.sid)
  /\ f.dir = Incoming(d, f.sid)
  /\ Replay(d, f.sid)!Admissible(f.ctr)
  /\ window' = [window EXCEPT ![d][f.sid] = Admitted(@, f.ctr)]
  /\ IF Authentic(f)
     THEN /\ end' = [end EXCEPT ![d][f.sid] =
                       IF d = Responder[f.sid] THEN "confirmed" ELSE @]
          /\ delivered' = [delivered EXCEPT ![d][f] = @ + 1]
     ELSE UNCHANGED <<end, delivered>>

\* Variant of open that never marks the counter as used.
OpenNoAccept(d, f) ==
  /\ Acceptable(d, f)
  /\ end' = [end EXCEPT ![d][f.sid] =
               IF d = Responder[f.sid] THEN "confirmed" ELSE @]
  /\ delivered' = [delivered EXCEPT ![d][f] = @ + 1]
  /\ UNCHANGED window

\* open, when it returns: advance the window, confirm a responder's session,
\* hand the packet over.
Open(d, f) ==
  /\ Acceptable(d, f)
  /\ window' = [window EXCEPT ![d][f.sid] = Admitted(@, f.ctr)]
  /\ end' = [end EXCEPT ![d][f.sid] =
               IF d = Responder[f.sid] THEN "confirmed" ELSE @]
  /\ delivered' = [delivered EXCEPT ![d][f] = @ + 1]

\* open, when it raises: nothing changes.  A frame that passes every other
\* check may still be outside the timestamp skew.
Reject == UNCHANGED <<window, end, delivered>>

----------------------------------------------------------------------------
(* Transfer: one frame per connection, queued, opened by receive_pushes *)

\* send_chunk, on a session get_send_session may choose.
SendChunk(d, s) ==
  /\ end[d][s] = "confirmed"
  /\ Seal(d, s, "chunk")
  /\ UNCHANGED <<end, window, inbox, awaiting, serving, delivered>>

\* Frames no seal produced: their tag does not verify.
Altered == {f \in Frames : f.body = "altered" /\ f.ctr \in AlteredCounters}

\* What the network may bring: a sealed frame, at any time and as often as
\* it likes, or an altered one.  A port only gets frames meant for it.
OnTheWire == sealed \union Altered

\* _handle_connection and _try_enqueue: a full inbox drops the frame.
ChunkArrives(d, f) ==
  /\ f.kind = "chunk"
  /\ Len(inbox[d]) < InboxMaxSize
  /\ inbox' = [inbox EXCEPT ![d] = Append(@, f)]
  /\ UNCHANGED <<end, sent, window, sealed, awaiting, serving, delivered>>

\* receive_pushes: take a frame off the inbox, open it or drop it.
ReceivePush(d) ==
  /\ inbox[d] # <<>>
  /\ inbox' = [inbox EXCEPT ![d] = Tail(@)]
  /\ Open(d, Head(inbox[d])) \/ Reject
  /\ UNCHANGED <<sent, sealed, awaiting, serving>>

----------------------------------------------------------------------------
(* Manifest and chunk requests: one request and one response per connection *)

\* request_manifest and request_chunks up to the await.
SendRequest(d, s) ==
  /\ end[d][s] = "confirmed"
  /\ Seal(d, s, "request")
  /\ awaiting' = [awaiting EXCEPT ![d] = @ \union {NextFrame(d, s, "request")}]
  /\ UNCHANGED <<end, window, inbox, serving, delivered>>

\* _handle_connection of the manifest server, up to the await that builds
\* the answer.  A request that open rejects closes the connection.
ServeRequest(d, f) ==
  /\ f.kind = "request"
  /\ Open(d, f)
  /\ serving' = [serving EXCEPT ![d] = @ \union {f}]
  /\ UNCHANGED <<sent, sealed, inbox, awaiting>>

\* The rest of it: seal the answer on the session of the request, which may
\* have been dropped from the store meanwhile.
Reply(d, q) ==
  /\ q \in serving[d]
  /\ serving' = [serving EXCEPT ![d] = @ \ {q}]
  /\ Seal(d, q.sid, "response")
  /\ UNCHANGED <<end, window, inbox, awaiting, delivered>>

\* The answer could not be built, or the key is used up.
ReplyFails(d, q) ==
  /\ q \in serving[d]
  /\ serving' = [serving EXCEPT ![d] = @ \ {q}]
  /\ UNCHANGED <<end, sent, window, sealed, inbox, awaiting, delivered>>

\* The requester reads a response on its connection and opens it; the error
\* open raises ends the request.
ReceiveResponse(d, q, f) ==
  /\ q \in awaiting[d]
  /\ f.kind = "response"
  /\ awaiting' = [awaiting EXCEPT ![d] = @ \ {q}]
  /\ Open(d, f) \/ Reject
  /\ UNCHANGED <<sent, sealed, inbox, serving>>

\* The connection fails, or closes without an answer.
RequestFails(d, q) ==
  /\ q \in awaiting[d]
  /\ awaiting' = [awaiting EXCEPT ![d] = @ \ {q}]
  /\ UNCHANGED <<end, sent, window, sealed, inbox, serving, delivered>>

Next ==
  \/ \E s \in Sids : Accept(s)
  \/ \E s \in Sids : RecordInitiator(s)
  \/ \E s \in Sids : RecordResponder(s)
  \/ \E d \in Devices, s \in Sids : Forget(d, s)
  \/ \E d \in Devices : Restart(d)
  \/ \E d \in Devices, s \in Sids : SendChunk(d, s)
  \/ \E d \in Devices, f \in OnTheWire : ChunkArrives(d, f)
  \/ \E d \in Devices : ReceivePush(d)
  \/ \E d \in Devices, s \in Sids : SendRequest(d, s)
  \/ \E d \in Devices, f \in OnTheWire : ServeRequest(d, f)
  \/ \E d \in Devices : \E q \in serving[d] : Reply(d, q)
  \/ \E d \in Devices : \E q \in serving[d] : ReplyFails(d, q)
  \/ \E d \in Devices, f \in OnTheWire : \E q \in awaiting[d] : ReceiveResponse(d, q, f)
  \/ \E d \in Devices : \E q \in awaiting[d] : RequestFails(d, q)

Spec == Init /\ [][Next]_vars

----------------------------------------------------------------------------
(* Properties *)

\* The state of the channel; no inbox exceeds INBOX_MAX_SIZE and no counter
\* MAX_COUNTER.
TypeOK ==
  /\ end \in [Devices -> [Sids -> EndStates]]
  /\ sent \in [Devices -> [Sids -> 0 .. MaxCounter]]
  /\ window \in [Devices ->
                  [Sids -> [highest : 0 .. MaxCounter, admitted : [Counters -> 0 .. 1]]]]
  /\ sealed \subseteq Frames
  /\ inbox \in [Devices -> Seq(Frames)]
  /\ \A d \in Devices : Len(inbox[d]) <= InboxMaxSize
  /\ awaiting \in [Devices -> SUBSET Frames]
  /\ serving \in [Devices -> SUBSET Frames]
  /\ delivered \in [Devices -> [Frames -> Nat]]

Sender(f) == IF f.dir = "i2r" THEN Initiator[f.sid] ELSE Responder[f.sid]
Receiver(f) == IF f.dir = "i2r" THEN Responder[f.sid] ELSE Initiator[f.sid]

\* "concurrent sends from multiple tasks never reuse a counter/nonce"
\* (docs/design/1d-replay-protection.md 9): the nonce is direction and
\* counter, so no two frames of a session share both, whether they are
\* pushes, requests or answers sealed after the session was dropped.
NonceUnique ==
  \A f, g \in sealed :
    (f.sid = g.sid /\ f.dir = g.dir /\ f.ctr = g.ctr) => f = g

\* A frame reaches the application at most once: not again from the inbox, on
\* a second connection, or after its receiver has restarted.
DeliveredAtMostOnce ==
  \A d \in Devices, f \in Frames : delivered[d][f] <= 1

\* What reaches the application was sealed by the other end of the session:
\* neither an altered frame nor one of the device's own coming back.
DeliveredFromPeer ==
  \A d \in Devices, f \in Frames :
    delivered[d][f] > 0 => f \in sealed /\ d = Receiver(f)

\* A responder's session is confirmed by "the first inbound frame that
\* authenticates, which proves the peer actually holds the derived keys"
\* (main.py, _drain_inbound_handshakes): a responder sends nothing in a
\* session its initiator has not sealed a frame in.
ResponderWaitsForProof ==
  \A s \in Sids :
    (end[Responder[s]][s] = "confirmed" \/ sent[Responder[s]][s] > 0)
      => sent[Initiator[s]][s] > 0

\* "Because the window advances only at step 6, a forged frame with a high
\* counter cannot lock the legitimate sender out" (docs/protocol.md 6.6): the
\* window of an end never runs ahead of what the other end has sent.
WindowBehindSender ==
  \A s \in Sids :
    /\ window[Responder[s]][s].highest <= sent[Initiator[s]][s]
    /\ window[Initiator[s]][s].highest <= sent[Responder[s]][s]

----------------------------------------------------------------------------
(* The inductive invariant behind the properties *)

\* A sealed frame carries a counter its sender has allocated.
SealedUpToSent ==
  \A f \in sealed : f.body = "sealed" /\ f.ctr <= sent[Sender(f)][f.sid]

\* Only its two ends ever hold anything of a session.
OnlyEnds ==
  \A d \in Devices, s \in Sids :
    end[d][s] # "none" => d \in {Initiator[s], Responder[s]}

\* A request being served came from the other end.
ServingFromPeer ==
  \A d \in Devices : \A q \in serving[d] : q \in sealed /\ d = Receiver(q)

\* The window knows of every delivery.
DeliveredAdmitted ==
  \A d \in Devices, f \in Frames :
    delivered[d][f] <= window[d][f.sid].admitted[f.ctr]

ChannelInv ==
  /\ TypeOK
  /\ SealedUpToSent
  /\ OnlyEnds
  /\ ServingFromPeer
  /\ DeliveredAdmitted
  /\ NonceUnique
  /\ DeliveredFromPeer
  /\ ResponderWaitsForProof
  /\ WindowBehindSender
=============================================================================
