---------------------------- MODULE Orchestrator ----------------------------
(***************************************************************************)
(* SyncOrchestrator (orchestration.py) in the process that main.py builds  *)
(* around it, with DiscoverPeersUseCase (discover_peers.py),               *)
(* MdnsDiscoveryService (mdns_discovery.py) and InMemoryPeerRepository     *)
(* (in_memory_peer_repository.py).                                         *)
(*                                                                         *)
(* The tasks are the sync loop, bootstrap, the stop() of a signal, and the *)
(* callers of pause() and resume(); a step is what one of them does        *)
(* between two awaits that really suspend (a lock nobody holds does not).  *)
(* What zeroconf reports is queued for the event loop in order.            *)
(***************************************************************************)
EXTENDS Integers, Sequences, FiniteSets

CONSTANTS
  Peers,
  NoPeer,      \* the loop is not in handle_peer_discovered; nobody we know
  LostName,    \* LostName[p]: whom remove_service names when p leaves
  MaxChanges,  \* bound: peers appearing on the network or leaving it
  MaxPauses    \* bound: calls of pause()

ASSUME NoPeerAssumption == NoPeer \notin Peers
ASSUME LostNameAssumption == LostName \in [Peers -> Peers \union {NoPeer}]
ASSUME BoundsAssumption == MaxChanges \in Nat /\ MaxPauses \in Nat

VARIABLES
  state,      \* _state: the SyncState
  stopEvent,  \* _stop_event
  loop,       \* where _run_sync_loop is
  batch,      \* new_peers still to be handled
  peer,       \* the peer being handled
  active,     \* _active_peers
  discovery,  \* whether MdnsDiscoveryService is running
  status,     \* status[p]: what the peer repository says of p
  session,    \* peers with a confirmed session
  main,       \* where bootstrap is
  stopping,   \* where the stop() of the signal handler is
  present,    \* the peers on the network
  reports,    \* what zeroconf has reported and the event loop not yet handled
  changes, pauses,  \* counters for the bounds
  missed,     \* history: peers whose last departure was not handed over
  again       \* history: peers reported again since the loop last took them up

loopVars == <<loop, batch, peer, active, session, again>>
discoveryVars == <<status, present, reports, missed, changes>>
lifeVars == <<state, stopEvent, discovery, main, stopping, pauses>>
vars == <<loopVars, discoveryVars, lifeVars>>

Init ==
  /\ state = "IDLE" /\ stopEvent = FALSE /\ discovery = FALSE
  /\ loop = "none" /\ batch = {} /\ peer = NoPeer /\ active = {} /\ session = {}
  /\ status = [p \in Peers |-> "unknown"] /\ present = {} /\ reports = <<>>
  /\ main = "starting" /\ stopping = "no"
  /\ changes = 0 /\ pauses = 0 /\ again = {} /\ missed = {}

Online == {p \in Peers : status[p] = "online"}

----------------------------------------------------------------------------
(* bootstrap *)

\* orchestrator.start()
Start ==
  /\ main = "starting" /\ main' = "waiting"
  /\ \/ /\ state = "IDLE" /\ state' = "SCANNING"
        /\ stopEvent' = FALSE
        /\ discovery' = TRUE
        /\ loop' = "top"
     \/ /\ state # "IDLE"
        /\ UNCHANGED <<state, stopEvent, discovery, loop>>
  /\ UNCHANGED <<batch, peer, active, session, again, discoveryVars, stopping,
                 pauses>>

\* wait_until_stopped returns; the servers, the background tasks and the
\* metadata repository are shut down.
ShutDown ==
  /\ main = "waiting" /\ stopEvent
  /\ main' = "closed"
  /\ UNCHANGED <<loopVars, discoveryVars, state, stopEvent, discovery,
                 stopping, pauses>>

\* bootstrap returns and asyncio.run cancels the tasks that are left, the
\* sync loop and stop() among them.
Exit ==
  /\ main = "closed" /\ main' = "exited"
  /\ loop' = IF loop = "none" THEN "none" ELSE "done"
  /\ peer' = NoPeer /\ batch' = {}
  /\ state' = IF loop \in {"none", "done"} THEN state ELSE "IDLE"
  /\ UNCHANGED <<active, session, again, discoveryVars, stopEvent, discovery,
                 stopping, pauses>>

Alive == main # "exited"

----------------------------------------------------------------------------
(* stop, pause and resume *)

\* A signal: stop() runs up to its await of the sync task.
Stop ==
  /\ main \in {"waiting", "closed"} /\ stopping = "no"
  /\ stopping' = "awaiting"
  /\ stopEvent' = TRUE
  /\ UNCHANGED <<loopVars, discoveryVars, state, discovery, main, pauses>>

\* The sync task has ended: the rest of stop().
FinishStop ==
  /\ Alive /\ stopping = "awaiting"
  /\ loop \in {"none", "done"}
  /\ stopping' = "done"
  /\ discovery' = FALSE
  /\ state' = "IDLE"
  /\ UNCHANGED <<loopVars, discoveryVars, stopEvent, main, pauses>>

Pause ==
  /\ Alive
  /\ pauses < MaxPauses /\ pauses' = pauses + 1
  /\ state' = "PAUSED"
  /\ UNCHANGED <<loopVars, discoveryVars, stopEvent, discovery, main, stopping>>

Resume ==
  /\ Alive
  /\ state = "PAUSED" /\ state' = "SYNCING"
  /\ UNCHANGED <<loopVars, discoveryVars, stopEvent, discovery, main, stopping,
                 pauses>>

----------------------------------------------------------------------------
(* _run_sync_loop *)

\* The loop is over; the finally clause says IDLE, after an error too.
EndLoop ==
  /\ loop' = "done" /\ batch' = {} /\ peer' = NoPeer
  /\ state' = "IDLE"

\* Variant of the head of the loop that looks at the stop event only when it
\* is not paused.
IterateDeaf ==
  /\ loop = "top"
  /\ \/ /\ state = "PAUSED"
        /\ loop' = "sleeping"
        /\ UNCHANGED <<state, batch, peer>>
     \/ /\ state # "PAUSED" /\ stopEvent
        /\ EndLoop
     \/ /\ state # "PAUSED" /\ ~stopEvent
        /\ batch' = Online \ active
        /\ loop' = IF Online \subseteq active THEN "sleeping" ELSE "handling"
        /\ UNCHANGED <<state, peer>>
  /\ UNCHANGED <<active, session, again, discoveryVars, stopEvent, discovery,
                 main, stopping, pauses>>

\* Variant of the head of the loop that looks for peers only while scanning.
IterateWhileScanning ==
  /\ loop = "top"
  /\ \/ /\ stopEvent
        /\ EndLoop
     \/ /\ ~stopEvent /\ state # "SCANNING"
        /\ loop' = "sleeping"
        /\ UNCHANGED <<state, batch, peer>>
     \/ /\ ~stopEvent /\ state = "SCANNING"
        /\ batch' = Online \ active
        /\ loop' = IF Online \subseteq active THEN "sleeping" ELSE "handling"
        /\ UNCHANGED <<state, peer>>
  /\ UNCHANGED <<active, session, again, discoveryVars, stopEvent, discovery,
                 main, stopping, pauses>>

\* The head of the loop: list_online_peers, unless stopped or paused.
Iterate ==
  /\ loop = "top"
  /\ \/ /\ stopEvent
        /\ EndLoop
     \/ /\ ~stopEvent /\ state = "PAUSED"
        /\ loop' = "sleeping"
        /\ UNCHANGED <<state, batch, peer>>
     \/ /\ ~stopEvent /\ state # "PAUSED"
        /\ batch' = Online \ active
        /\ loop' = IF Online \subseteq active THEN "sleeping" ELSE "handling"
        /\ UNCHANGED <<state, peer>>
  /\ UNCHANGED <<active, session, again, discoveryVars, stopEvent, discovery,
                 main, stopping, pauses>>

\* _wait_or_timeout: the interval passes or the stop event is set.
Wake ==
  /\ loop = "sleeping" /\ loop' = "top"
  /\ UNCHANGED <<batch, peer, active, session, again, discoveryVars, lifeVars>>

\* handle_peer_discovered, up to the handshake of ensure_session.
BeginPeer(p) ==
  /\ loop = "handling" /\ peer = NoPeer /\ p \in batch
  /\ peer' = p /\ batch' = batch \ {p}
  /\ active' = active \union {p}
  /\ again' = again \ {p}
  /\ loop' = "dialling"
  /\ UNCHANGED <<session, discoveryVars, lifeVars>>

\* ensure_session returns, at once when there is a session; a failed handshake
\* is logged and the peer handled all the same.
Dialled ==
  /\ loop = "dialling" /\ loop' = "syncing"
  /\ \/ session' = session \union {peer}
     \/ peer \notin session /\ UNCHANGED session
  /\ UNCHANGED <<batch, peer, active, again, discoveryVars, lifeVars>>

\* After a peer: the next of the batch, or the wait for the next poll.
NextPeer == IF batch = {} THEN "sleeping" ELSE "handling"

\* list_all_files and _auto_push_known_files: a file that fails to sync, as
\* all do without a session, is logged and skipped.
FilesDone ==
  /\ loop = "syncing"
  /\ loop' = NextPeer /\ peer' = NoPeer
  /\ state' = IF state = "SCANNING" THEN "SYNCING" ELSE state
  /\ UNCHANGED <<batch, active, session, again, discoveryVars, stopEvent,
                 discovery, main, stopping, pauses>>

\* The metadata repository raises, as it does once bootstrap has closed it:
\* ERROR and, in the same step, IDLE.
LoopFails ==
  /\ loop = "syncing"
  /\ EndLoop
  /\ UNCHANGED <<active, session, again, discoveryVars, stopEvent, discovery,
                 main, stopping, pauses>>

----------------------------------------------------------------------------
(* Peer discovery *)

Event(kind, p) == [kind |-> kind, peer |-> p]

\* A peer appears on the network or leaves it, and zeroconf calls add_service
\* or remove_service, which hand a coroutine to the running event loop.  In
\* zeroconf's own thread no loop is running: get_running_loop raises there and
\* nothing is handed over.  A peer without a service info is not reported
\* either.  A loss is reported under the service name up to its first dot, not
\* under the device id of the properties.
Appear(p) ==
  /\ p \notin present /\ present' = present \union {p}
  /\ changes < MaxChanges /\ changes' = changes + 1
  /\ \/ discovery /\ reports' = Append(reports, Event("found", p))
     \/ UNCHANGED reports
  /\ UNCHANGED <<loopVars, status, missed, lifeVars>>

Leave(p) ==
  /\ p \in present /\ present' = present \ {p}
  /\ changes < MaxChanges /\ changes' = changes + 1
  /\ \/ /\ discovery /\ reports' = Append(reports, Event("lost", LostName[p]))
        /\ missed' = missed \ {p}
     \/ /\ missed' = missed \union {p}
        /\ UNCHANGED reports
  /\ UNCHANGED <<loopVars, status, lifeVars>>

\* A peer advertises itself again: update_service is add_service.
Refresh(p) ==
  /\ p \in present /\ discovery
  /\ changes < MaxChanges /\ changes' = changes + 1
  /\ \/ reports' = Append(reports, Event("found", p))
     \/ UNCHANGED reports
  /\ UNCHANGED <<loopVars, present, status, missed, lifeVars>>

\* Variant of on_peer_lost that leaves the peer as it is.
StatusAfterLostKept(e) ==
  IF e.kind = "found" /\ discovery THEN "online" ELSE status[e.peer]

\* on_peer_discovered, while the use case is subscribed, and on_peer_lost, which
\* changes only a peer that is known.
StatusAfter(e) ==
  CASE e.kind = "found" /\ discovery -> "online"
    [] e.kind = "lost" /\ status[e.peer] # "unknown" -> "offline"
    [] OTHER -> status[e.peer]

\* _handle_discovered_service or on_peer_lost, on the event loop.
ReportHandled ==
  /\ Alive /\ reports # <<>> /\ reports' = Tail(reports)
  /\ LET e == Head(reports) IN
     /\ status' = [p \in Peers |-> IF p = e.peer THEN StatusAfter(e) ELSE status[p]]
     /\ again' = IF e.kind = "found" /\ discovery /\ e.peer \in active
                THEN again \union {e.peer} ELSE again
  /\ UNCHANGED <<loop, batch, peer, active, session, present, missed, changes,
                 lifeVars>>

----------------------------------------------------------------------------

LoopStep ==
  Iterate \/ Wake \/ (\E p \in Peers : BeginPeer(p)) \/ Dialled \/ FilesDone \/ LoopFails

Next ==
  \/ Start \/ ShutDown \/ Exit
  \/ Stop \/ FinishStop \/ Pause \/ Resume
  \/ Iterate \/ Wake
  \/ \E p \in Peers : BeginPeer(p)
  \/ Dialled \/ FilesDone \/ LoopFails
  \/ \E p \in Peers : Appear(p)
  \/ \E p \in Peers : Leave(p)
  \/ \E p \in Peers : Refresh(p)
  \/ ReportHandled

Spec == Init /\ [][Next]_vars

\* The event loop runs every task that can run.  A wait of the sync loop ends
\* with its timeout, a handshake with that of its reads (30 s, message_io.py)
\* or of its connection.  Nothing is assumed of FilesDone: send_chunk writes,
\* drains and closes without a timeout (tcp_transport.py), and a peer that does
\* not read keeps the loop there.
FairSpec ==
  /\ Spec
  /\ WF_vars(Iterate \/ Wake \/ (\E p \in Peers : BeginPeer(p)) \/ Dialled)
  /\ WF_vars(ReportHandled)
  /\ WF_vars(FinishStop)

----------------------------------------------------------------------------
(* Properties *)

\* The state of the process; the loop has a peer at hand exactly while it is
\* in handle_peer_discovered.
TypeOK ==
  /\ state \in {"IDLE", "SCANNING", "SYNCING", "PAUSED"}
  /\ stopEvent \in BOOLEAN /\ discovery \in BOOLEAN
  /\ loop \in {"none", "top", "sleeping", "handling", "dialling", "syncing", "done"}
  /\ batch \subseteq Peers /\ active \subseteq Peers
  /\ session \subseteq Peers /\ again \subseteq Peers
  /\ peer \in Peers \union {NoPeer}
  /\ (peer # NoPeer) = (loop \in {"dialling", "syncing"})
  /\ batch # {} => loop \in {"handling", "dialling", "syncing"}
  /\ loop = "handling" => batch # {}
  /\ status \in [Peers -> {"unknown", "online", "offline"}]
  /\ main \in {"starting", "waiting", "closed", "exited"}
  /\ stopping \in {"no", "awaiting", "done"}
  /\ present \subseteq Peers /\ missed \subseteq Peers
  /\ reports \in Seq([kind : {"found", "lost"}, peer : Peers \union {NoPeer}])

\* The peers whose departure reaches the peer repository: it was handed to the
\* event loop, and under the id the peer is known by.
Noticed == {p \in Peers \ missed : LostName[p] = p}

\* Once everything that was handed over is handled, no such peer that has left
\* is still listed as online, however often it came and went and in whatever
\* order its finds, refreshes and losses were handed over (discover_peers.py,
\* on_peer_lost), as long as discovery runs.
NoGhostPeers ==
  discovery /\ reports = <<>> => Online \intersect Noticed \subseteq present

\* The bookkeeping of the loop and of discovery (orchestration.py).
EngineInv == TypeOK /\ NoGhostPeers

Running == loop \notin {"none", "done"}

\* A push to one peer never returns.
Hung == [](loop = "syncing")

\* A peer that is online and has never been handled is taken up by the loop,
\* unless it goes away or the engine is paused, stops or fails, or the push to
\* a peer before it never returns.
NewPeersHandled ==
  \A p \in Peers :
    (Running /\ status[p] = "online") ~>
      (p \in active \/ status[p] # "online" \/ state = "PAUSED" \/ ~Running \/ Hung)

\* stop() gets through from wherever the loop is, and whether or not it is
\* paused: the loop ends and discovery is stopped, unless bootstrap has
\* returned first or the push at hand never returns.
StopCompletes ==
  stopping = "awaiting" ~>
    (main = "exited" \/ (stopping = "done" /\ ~Running /\ ~discovery) \/ Hung)

----------------------------------------------------------------------------
(* Statements of the documentation that do not hold *)

\* wait_until_stopped: "Block until stop has been called and processed"
\* (orchestration.py): when bootstrap goes on to close the servers and the
\* repositories, no peer is being synced with them.
WaitMeansStopped == main = "closed" => peer = NoPeer

\* pause: "Temporarily pause synchronization" (orchestration.py): no peer is
\* taken up while the engine is paused.
PauseStopsNewPeers == [][state = "PAUSED" => active' = active]_vars

\* A file that failed "isn't picked up again until the next time this peer is
\* (re)discovered" (ADR-0023): a peer that is found again is taken up again.
RediscoveryRetries ==
  \A p \in Peers :
    (Running /\ p \in again) ~> (p \notin again \/ status[p] # "online" \/ ~Running)
=============================================================================
