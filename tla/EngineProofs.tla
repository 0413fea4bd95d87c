---------------------------- MODULE EngineProofs ----------------------------
(***************************************************************************)
(* Proofs about what runs by itself on a device: the sync loop with peer   *)
(* discovery (Orchestrator), the file watcher with its debouncer           *)
(* (FileWatcher, Debounce) and the chunk reader (ChunkReader), for any     *)
(* peers, paths, observers, window, chunk and block sizes.                 *)
(***************************************************************************)
EXTENDS Orchestrator, FileWatcher, ChunkReader, SequenceTheorems,
        FiniteSetTheorems, TLAPS

----------------------------------------------------------------------------
(* Orchestrator *)

Report == [kind : {"found", "lost"}, peer : Peers \union {NoPeer}]

\* Until start() there is no loop, nothing is reported and nobody online.
Unstarted ==
  main = "starting" =>
    /\ loop = "none" /\ ~discovery /\ reports = <<>>
    /\ \A p \in Peers : status[p] # "online"

\* A loss of p is reported after position i of the queue.
LostAfter(p, i) ==
  \E j \in DOMAIN reports :
    j > i /\ reports[j].kind = "lost" /\ reports[j].peer = p

\* While discovery runs, whoever has left, had the departure handed over under
\* the right id, and is listed as online, or will be when the queue has been
\* handled up to some point, is reported lost later on in the queue.
DeparturesReported ==
  discovery => \A p \in Noticed \ present :
    /\ status[p] = "online" => LostAfter(p, 0)
    /\ \A i \in DOMAIN reports :
         reports[i].kind = "found" /\ reports[i].peer = p => LostAfter(p, i)

OrchestratorInv == TypeOK /\ Unstarted /\ DeparturesReported

\* Every step of the process keeps the types, and the loop has a peer at hand
\* exactly while it is in handle_peer_discovered.
LEMMA OrchestratorTypes ==
  ASSUME TypeOK, Unstarted, [Next]_vars
  PROVE  TypeOK'
<1> USE NoPeerAssumption, LostNameAssumption DEF TypeOK
<1> USE DEF loopVars, discoveryVars, lifeVars
<1>0. reports \in Seq(Report)
  BY DEF Report
<1>1. CASE UNCHANGED vars
  BY <1>1 DEF vars
<1>2. CASE Start
  <2>1. CASE state = "IDLE" /\ state' = "SCANNING" /\ stopEvent' = FALSE
             /\ discovery' = TRUE /\ loop' = "top"
    <3>1. /\ state' = "SCANNING" /\ loop' = "top" /\ main' = "waiting"
          /\ stopEvent' \in BOOLEAN /\ discovery' \in BOOLEAN
          /\ UNCHANGED <<batch, peer, active, session, again, discoveryVars,
                         stopping>>
      BY <1>2, <2>1 DEF Start
    <3>2. peer = NoPeer /\ batch = {}
      BY <1>2 DEF Start, Unstarted
    <3> QED
      BY <3>1, <3>2
  <2>2. CASE UNCHANGED <<state, stopEvent, discovery, loop>>
    BY <1>2, <2>2 DEF Start
  <2> QED
    BY <1>2, <2>1, <2>2 DEF Start
<1>3. CASE ShutDown
  BY <1>3 DEF ShutDown
<1>4. CASE Exit
  BY <1>4 DEF Exit
<1>5. CASE Stop
  BY <1>5 DEF Stop
<1>6. CASE FinishStop
  BY <1>6 DEF FinishStop
<1>7. CASE Pause
  BY <1>7 DEF Pause
<1>8. CASE Resume
  BY <1>8 DEF Resume
<1>9. CASE Iterate
  BY <1>9 DEF Iterate, EndLoop, Online
<1>10. CASE Wake
  BY <1>10 DEF Wake
<1>11. ASSUME NEW p \in Peers, BeginPeer(p) PROVE TypeOK'
  BY <1>11 DEF BeginPeer
<1>12. CASE Dialled
  BY <1>12 DEF Dialled
<1>13. CASE FilesDone
  BY <1>13 DEF FilesDone, NextPeer
<1>14. CASE LoopFails
  BY <1>14 DEF LoopFails, EndLoop
<1>15. ASSUME NEW p \in Peers, Appear(p) PROVE TypeOK'
  <2>1. reports' \in Seq(Report)
    <3>1. Append(reports, Event("found", p)) \in Seq(Report)
      BY <1>0 DEF Event, Report
    <3>2. reports' = Append(reports, Event("found", p)) \/ reports' = reports
      BY <1>15 DEF Appear
    <3> QED
      BY <1>0, <3>1, <3>2
  <2>2. present' \subseteq Peers /\ UNCHANGED <<loopVars, status, missed, lifeVars>>
    BY <1>15 DEF Appear
  <2> QED
    BY <2>1, <2>2 DEF Report
<1>16. ASSUME NEW p \in Peers, Leave(p) PROVE TypeOK'
  <2>1. reports' \in Seq(Report)
    <3>1. Append(reports, Event("lost", LostName[p])) \in Seq(Report)
      BY <1>0 DEF Event, Report
    <3>2. reports' = Append(reports, Event("lost", LostName[p])) \/ reports' = reports
      BY <1>16 DEF Leave
    <3> QED
      BY <1>0, <3>1, <3>2
  <2>2. /\ present' \subseteq Peers /\ missed' \subseteq Peers
        /\ UNCHANGED <<loopVars, status, lifeVars>>
    BY <1>16 DEF Leave
  <2> QED
    BY <2>1, <2>2 DEF Report
<1>17. ASSUME NEW p \in Peers, Refresh(p) PROVE TypeOK'
  <2>1. Append(reports, Event("found", p)) \in Seq(Report)
    BY <1>0 DEF Event, Report
  <2>2. reports' = Append(reports, Event("found", p)) \/ reports' = reports
    BY <1>17 DEF Refresh
  <2>3. UNCHANGED <<loopVars, present, status, missed, lifeVars>>
    BY <1>17 DEF Refresh
  <2>4. reports' \in Seq(Report)
    BY <1>0, <2>1, <2>2
  <2> QED
    BY <2>3, <2>4 DEF Report
<1>18. CASE ReportHandled
  <2> DEFINE e == Head(reports)
  <2>1. e \in Report /\ reports' \in Seq(Report)
    <3> HIDE DEF TypeOK
    <3> QED
      BY <1>0, <1>18 DEF ReportHandled
  <2>2. e.peer \in Peers => StatusAfter(e) \in {"unknown", "online", "offline"}
    BY <2>1 DEF StatusAfter, Report
  <2>3. status' \in [Peers -> {"unknown", "online", "offline"}]
    BY <1>18, <2>1, <2>2 DEF ReportHandled, Report
  <2>4. again' \subseteq Peers
    BY <1>18, <2>1 DEF ReportHandled, Report
  <2>5. UNCHANGED <<loop, batch, peer, active, session, present, missed, lifeVars>>
    BY <1>18 DEF ReportHandled
  <2> QED
    BY <2>1, <2>3, <2>4, <2>5 DEF Report
<1> QED
  BY <1>1, <1>2, <1>3, <1>4, <1>5, <1>6, <1>7, <1>8, <1>9, <1>10, <1>11, <1>12,
     <1>13, <1>14, <1>15, <1>16, <1>17, <1>18 DEF Next

\* What leaves is reported: every step keeps a report of the loss in the queue
\* behind everything that could still list the peer as online.
LEMMA OrchestratorDepartures ==
  ASSUME OrchestratorInv, [Next]_vars
  PROVE  Unstarted' /\ DeparturesReported'
<1> USE DEF loopVars, discoveryVars, lifeVars
<1>0. /\ TypeOK /\ reports \in Seq(Report)
      /\ status \in [Peers -> {"unknown", "online", "offline"}]
  BY DEF OrchestratorInv, TypeOK, Report
<1>1. ASSUME UNCHANGED <<status, present, reports, missed, discovery>>,
             main' = "starting" => main = "starting" /\ (loop = "none" => loop' = loop)
      PROVE  Unstarted' /\ DeparturesReported'
  BY <1>1 DEF OrchestratorInv, Unstarted, DeparturesReported, Noticed, LostAfter
<1>2. CASE Start
  <2>1. Unstarted /\ UNCHANGED <<status, present, reports>> /\ main' # "starting"
        /\ reports = <<>> /\ \A p \in Peers : status[p] # "online"
    BY <1>2 DEF Start, OrchestratorInv, Unstarted
  <2> QED
    BY <2>1 DEF Unstarted, DeparturesReported, Noticed
<1>3. CASE FinishStop
  BY <1>3 DEF FinishStop, OrchestratorInv, Unstarted, DeparturesReported
\* A report of a peer is added at the end: of the loss of q for everyone who
\* has left with this step, or of a q who is there.
<1>4. ASSUME NEW k \in {"found", "lost"}, NEW q \in Peers \union {NoPeer}, discovery,
             reports' = Append(reports, Event(k, q)),
             UNCHANGED <<main, loop, discovery, status>>,
             \A p \in Noticed' \ present' : p # q => p \in Noticed \ present,
             k = "found" => q \in present'
      PROVE  Unstarted' /\ DeparturesReported'
  <2>1. /\ Len(reports) \in Nat /\ DOMAIN reports = 1 .. Len(reports)
        /\ Len(reports') = Len(reports) + 1
        /\ DOMAIN reports' = 1 .. (Len(reports) + 1)
        /\ \A i \in 1 .. Len(reports) : reports'[i] = reports[i]
        /\ reports'[Len(reports) + 1] = [kind |-> k, peer |-> q]
    BY <1>0, <1>4 DEF Event, Report
  <2>2. ASSUME NEW p \in Peers, NEW i \in Nat, LostAfter(p, i)
        PROVE  LostAfter(p, i)'
    BY <2>1, <2>2 DEF LostAfter
  <2>3. Unstarted'
    BY <1>4 DEF OrchestratorInv, Unstarted
  <2>4. ASSUME NEW p \in Noticed' \ present'
        PROVE  /\ status'[p] = "online" => LostAfter(p, 0)'
               /\ \A i \in DOMAIN reports' :
                    reports'[i].kind = "found" /\ reports'[i].peer = p
                      => LostAfter(p, i)'
    <3>1. CASE p = q
      <4>1. ASSUME NEW i \in Nat, i <= Len(reports) PROVE LostAfter(p, i)'
        BY <1>4, <2>1, <2>4, <3>1, <4>1 DEF LostAfter
      <4> QED
        BY <1>4, <2>1, <2>4, <3>1, <4>1
    <3>2. CASE p # q
      <4>1. p \in Noticed \ present /\ p \in Peers
        BY <1>4, <2>4, <3>2 DEF Noticed
      <4>2. status'[p] = "online" => LostAfter(p, 0)'
        BY <1>4, <2>2, <4>1 DEF OrchestratorInv, DeparturesReported
      <4>3. ASSUME NEW i \in DOMAIN reports', reports'[i].kind = "found",
                   reports'[i].peer = p
            PROVE  LostAfter(p, i)'
        <5>1. i \in DOMAIN reports /\ i \in Nat /\ reports[i] = reports'[i]
          BY <2>1, <3>2, <4>3
        <5> QED
          BY <1>4, <2>2, <4>1, <4>3, <5>1 DEF OrchestratorInv, DeparturesReported
      <4> QED
        BY <4>2, <4>3
    <3> QED
      BY <3>1, <3>2
  <2> QED
    BY <2>3, <2>4 DEF DeparturesReported
\* No report is added, and whoever leaves with this step is missed.
<1>5. ASSUME UNCHANGED <<main, loop, discovery, status, reports>>,
             Noticed' \ present' \subseteq Noticed \ present
      PROVE  Unstarted' /\ DeparturesReported'
  BY <1>5 DEF OrchestratorInv, Unstarted, DeparturesReported, LostAfter
<1>6. ASSUME NEW p \in Peers, Appear(p) PROVE Unstarted' /\ DeparturesReported'
  <2>1. /\ UNCHANGED <<main, loop, discovery, status, missed>>
        /\ present' = present \union {p} /\ Noticed' = Noticed
    BY <1>6 DEF Appear, Noticed
  <2>2. CASE discovery /\ reports' = Append(reports, Event("found", p))
    BY <1>4, <2>1, <2>2
  <2>3. CASE UNCHANGED reports
    BY <1>5, <2>1, <2>3
  <2> QED
    BY <1>6, <2>2, <2>3 DEF Appear
<1>7. ASSUME NEW p \in Peers, Leave(p) PROVE Unstarted' /\ DeparturesReported'
  <2>1. UNCHANGED <<main, loop, discovery, status>> /\ present' = present \ {p}
    BY <1>7 DEF Leave
  <2>2. CASE /\ discovery /\ reports' = Append(reports, Event("lost", LostName[p]))
             /\ missed' = missed \ {p}
    <3>1. LostName[p] \in Peers \union {NoPeer}
      BY LostNameAssumption
    <3>2. \A q \in Noticed' \ present' : q # LostName[p] => q \in Noticed \ present
      BY <2>1, <2>2 DEF Noticed
    <3> QED
      BY <1>4, <2>1, <2>2, <3>1, <3>2
  <2>3. CASE missed' = missed \union {p} /\ UNCHANGED reports
    <3>1. Noticed' \ present' \subseteq Noticed \ present
      BY <2>1, <2>3 DEF Noticed
    <3> QED
      BY <1>5, <2>1, <2>3, <3>1
  <2> QED
    BY <1>7, <2>2, <2>3 DEF Leave
<1>12. ASSUME NEW p \in Peers, Refresh(p) PROVE Unstarted' /\ DeparturesReported'
  <2>1. /\ UNCHANGED <<main, loop, discovery, status, missed, present>>
        /\ discovery /\ p \in present /\ Noticed' = Noticed
    BY <1>12 DEF Refresh, Noticed
  <2>2. CASE reports' = Append(reports, Event("found", p))
    BY <1>4, <2>1, <2>2
  <2>3. CASE UNCHANGED reports
    BY <1>5, <2>1, <2>3
  <2> QED
    BY <1>12, <2>2, <2>3 DEF Refresh
<1>8. CASE ReportHandled
  <2> DEFINE e == Head(reports)
  <2>1. /\ Len(reports) \in Nat /\ DOMAIN reports = 1 .. Len(reports)
        /\ Len(reports) > 0 /\ e = reports[1] /\ e \in Report
        /\ DOMAIN reports' = 1 .. (Len(reports) - 1)
        /\ \A i \in 1 .. (Len(reports) - 1) : reports'[i] = reports[i + 1]
    BY <1>0, <1>8 DEF ReportHandled
  <2>2. UNCHANGED <<main, loop, discovery, present>> /\ Noticed' = Noticed
    BY <1>8 DEF ReportHandled, Noticed
  <2>3. Unstarted'
    BY <1>8, <2>2 DEF ReportHandled, OrchestratorInv, Unstarted
  \* A later loss moves up with the queue.
  <2>4. ASSUME NEW p \in Peers, NEW i \in Nat, LostAfter(p, i + 1)
        PROVE  LostAfter(p, i)'
    <3>1. PICK j \in DOMAIN reports :
            j > i + 1 /\ reports[j].kind = "lost" /\ reports[j].peer = p
      BY <2>4 DEF LostAfter
    <3>2. j - 1 \in DOMAIN reports' /\ j - 1 > i /\ reports'[j - 1] = reports[j]
      BY <2>1, <3>1
    <3> QED
      BY <3>1, <3>2 DEF LostAfter
  <2>5. ASSUME NEW p \in Noticed \ present, discovery
        PROVE  /\ status'[p] = "online" => LostAfter(p, 0)'
               /\ \A i \in DOMAIN reports' :
                    reports'[i].kind = "found" /\ reports'[i].peer = p
                      => LostAfter(p, i)'
    <3>1. /\ status[p] = "online" => LostAfter(p, 0)
          /\ \A i \in DOMAIN reports :
               reports[i].kind = "found" /\ reports[i].peer = p => LostAfter(p, i)
      BY <2>5 DEF OrchestratorInv, DeparturesReported
    <3>2. p \in Peers /\ status'[p] = IF p = e.peer THEN StatusAfter(e) ELSE status[p]
      BY <1>8, <2>5 DEF ReportHandled, Noticed
    <3>3. ASSUME status'[p] = "online" PROVE LostAfter(p, 1)
      <4>1. CASE e.peer = p /\ e.kind = "found"
        BY <2>1, <3>1, <4>1
      <4>2. CASE e.peer = p /\ e.kind = "lost"
        BY <1>0, <2>1, <3>2, <3>3, <4>2 DEF StatusAfter
      <4>3. CASE e.peer # p
        <5>1. LostAfter(p, 0)
          BY <1>0, <3>1, <3>2, <3>3, <4>3
        <5> QED
          BY <2>1, <4>3, <5>1 DEF LostAfter
      <4> QED
        BY <2>1, <4>1, <4>2, <4>3 DEF Report
    <3>4. status'[p] = "online" => LostAfter(p, 0)'
      BY <2>4, <3>2, <3>3
    <3>5. ASSUME NEW i \in DOMAIN reports', reports'[i].kind = "found",
                 reports'[i].peer = p
          PROVE  LostAfter(p, i)'
      <4>1. i \in Nat /\ i + 1 \in DOMAIN reports /\ reports[i + 1] = reports'[i]
        BY <2>1
      <4> QED
        BY <2>4, <3>1, <3>2, <3>5, <4>1
    <3> QED
      BY <3>4, <3>5
  <2> QED
    BY <2>2, <2>3, <2>5 DEF DeparturesReported
<1>9. CASE UNCHANGED vars
  BY <1>1, <1>9 DEF vars
<1>10. CASE ShutDown \/ Exit \/ Stop \/ Pause \/ Resume
  BY <1>1, <1>10 DEF ShutDown, Exit, Stop, Pause, Resume
<1>11. CASE Iterate \/ Wake \/ (\E p \in Peers : BeginPeer(p)) \/ Dialled
            \/ FilesDone \/ LoopFails
  BY <1>1, <1>11 DEF Iterate, Wake, BeginPeer, Dialled, FilesDone, LoopFails
<1> QED
  BY <1>2, <1>3, <1>6, <1>7, <1>8, <1>9, <1>10, <1>11, <1>12 DEF Next

\* The process and its queue of reports keep OrchestratorInv from the first
\* step of bootstrap on.
THEOREM OrchestratorInvariant == Spec => []OrchestratorInv
<1>1. Init => OrchestratorInv
  <2> SUFFICES ASSUME Init PROVE OrchestratorInv
    OBVIOUS
  <2>1. TypeOK
    <3>1. stopEvent \in BOOLEAN /\ discovery \in BOOLEAN
      BY DEF Init
    <3>2. /\ state = "IDLE" /\ loop = "none" /\ batch = {} /\ peer = NoPeer
          /\ active = {} /\ session = {} /\ again = {} /\ present = {}
          /\ status = [p \in Peers |-> "unknown"] /\ reports = <<>>
          /\ main = "starting" /\ stopping = "no" /\ missed = {}
      BY DEF Init
    <3> QED
      BY <3>1, <3>2, NoPeerAssumption DEF TypeOK
  <2>2. Unstarted
    BY DEF Init, Unstarted
  <2>3. DeparturesReported
    BY Zenon DEF Init, DeparturesReported
  <2> QED
    BY <2>1, <2>2, <2>3 DEF OrchestratorInv
<1>2. OrchestratorInv /\ [Next]_vars => OrchestratorInv'
  BY OrchestratorTypes, OrchestratorDepartures DEF OrchestratorInv
<1> QED
  BY <1>1, <1>2, PTL DEF Spec

\* For any peers: the loop's bookkeeping stays consistent, and once what
\* was handed over by zeroconf's callbacks is handled no peer whose departure
\* was among it, under the peer's own id, is listed as online, however often
\* peers came and went before, during and after the handling.
THEOREM OrchestratorEngine == Spec => []EngineInv
<1>1. OrchestratorInv => EngineInv
  <2> SUFFICES ASSUME OrchestratorInv, discovery, reports = <<>>,
                      NEW p \in Online \intersect Noticed, p \notin present
               PROVE  FALSE
    BY DEF EngineInv, OrchestratorInv, NoGhostPeers, Online
  <2>1. LostAfter(p, 0)
    BY DEF OrchestratorInv, DeparturesReported, Online
  <2> QED
    BY <2>1 DEF LostAfter
<1> QED
  BY <1>1, OrchestratorInvariant, PTL

----------------------------------------------------------------------------
(* Why stop() gets through *)

\* The stop event is set only after start(), which clears it.
StopAfterStart == stopEvent => main # "starting"

\* Only what zeroconf has reported is ever online or in a batch.
FinitelyMany == IsFiniteSet(Online) /\ IsFiniteSet(batch)

\* An upper bound of the steps the loop can still take once it is to stop: up
\* to three for every peer of the batch, and the way from where it is to the
\* head of the loop.
LoopRank ==
  3 * Cardinality(batch) +
    (CASE loop = "dialling" -> 5
       [] loop = "syncing"  -> 4
       [] loop = "handling" -> 3
       [] loop = "sleeping" -> 2
       [] loop = "top"      -> 1
       [] OTHER             -> 0)

\* The stop event stays set; from then on every step of the loop brings it
\* nearer to its end, and nothing else the process does, or a peer that comes
\* or goes, sets it back (_run_sync_loop, stop).
StopDrains ==
  [][stopEvent => /\ stopEvent'
                  /\ LoopRank' <= LoopRank
                  /\ LoopStep => LoopRank' < LoopRank]_vars

\* What the argument needs of every state.
StopInv == OrchestratorInv /\ StopAfterStart /\ FinitelyMany

\* Every step keeps the stop event away from start() and the sets finite.
LEMMA StopStep ==
  ASSUME StopInv, [Next]_vars
  PROVE  StopAfterStart' /\ FinitelyMany'
<1> USE DEF StopInv
<1>1. StopAfterStart'
  BY DEF StopAfterStart, Next, vars, loopVars, discoveryVars, lifeVars,
       Start, ShutDown, Exit, Stop, FinishStop, Pause, Resume, Iterate, Wake,
       BeginPeer, Dialled, FilesDone, LoopFails, Appear, Leave, Refresh,
       ReportHandled
<1>2. IsFiniteSet(Online')
  <2>1. CASE UNCHANGED status
    <3>1. Online' = Online
      BY <2>1 DEF Online
    <3> QED
      BY <3>1 DEF FinitelyMany
  <2>2. CASE ReportHandled
    <3> DEFINE q == Head(reports).peer
    <3>1. \A p \in Peers : p # q => status'[p] = status[p]
      BY <2>2 DEF ReportHandled
    <3>2. status \in [Peers -> {"unknown", "online", "offline"}]
      BY DEF OrchestratorInv, TypeOK
    <3> HIDE DEF q
    <3>3. Online' \subseteq Online \union {q}
      BY <3>1, <3>2 DEF Online
    <3>4. IsFiniteSet(Online \union {q})
      BY FS_AddElement DEF FinitelyMany
    <3> QED
      BY <3>3, <3>4, FS_Subset
  <2> QED
    BY <2>1, <2>2
       DEF Next, vars, loopVars, discoveryVars, lifeVars, Start, ShutDown, Exit,
           Stop, FinishStop, Pause, Resume, Iterate, Wake, BeginPeer, Dialled,
           FilesDone, LoopFails, Appear, Leave, Refresh
<1>3. IsFiniteSet(batch')
  <2>1. batch' \subseteq batch \/ batch' \subseteq Online
    BY DEF Next, vars, loopVars, discoveryVars, lifeVars, Start, ShutDown,
         Exit, Stop, FinishStop, Pause, Resume, Iterate, EndLoop, Wake,
         BeginPeer, Dialled, FilesDone, LoopFails, Appear, Leave, Refresh,
         ReportHandled
  <2> QED
    BY <2>1, FS_Subset DEF FinitelyMany
<1> QED
  BY <1>1, <1>2, <1>3 DEF FinitelyMany

\* The loop never has more at hand than finitely many peers, and start() does
\* not come after a stop.
THEOREM StopInvariant == Spec => []StopInv
<1>1. Init => StopAfterStart /\ FinitelyMany
  <2> SUFFICES ASSUME Init PROVE StopAfterStart /\ FinitelyMany
    OBVIOUS
  <2>1. Online = {} /\ batch = {}
    BY DEF Init, Online
  <2> QED
    BY <2>1, FS_EmptySet DEF Init, StopAfterStart, FinitelyMany
<1>2. StopAfterStart /\ FinitelyMany /\ OrchestratorInv /\ [Next]_vars
        => StopAfterStart' /\ FinitelyMany'
  BY StopStep DEF StopInv
<1> QED
  BY <1>1, <1>2, OrchestratorInvariant, PTL DEF Spec, StopInv

\* A step of the loop after the stop event leads to a place nearer to its end.
LEMMA LoopStepFalls ==
  ASSUME TypeOK, FinitelyMany, stopEvent, LoopStep
  PROVE  stopEvent' /\ LoopRank' < LoopRank /\ LoopRank' <= LoopRank
<1> DEFINE n == Cardinality(batch)
<1>0. n \in Nat
  BY FS_CardinalityType DEF FinitelyMany
<1>e. n = 0 <=> batch = {}
  BY FS_EmptySet DEF FinitelyMany
<1>1. ASSUME loop' = "done", batch' = {}, loop \in {"top", "syncing"},
             UNCHANGED stopEvent
      PROVE  stopEvent' /\ LoopRank' < LoopRank /\ LoopRank' <= LoopRank
  <2>1. Cardinality(batch') = 0
    BY <1>1, FS_EmptySet
  <2>2. LoopRank' = 0
    BY <1>1, <2>1 DEF LoopRank
  <2> HIDE DEF n
  <2>3. LoopRank = 3 * n + 1 \/ LoopRank = 3 * n + 4
    BY <1>1 DEF LoopRank, n
  <2> QED
    BY <1>0, <1>1, <2>2, <2>3
<1>2. CASE Iterate
  BY <1>1, <1>2 DEF Iterate, EndLoop
<1>3. CASE Wake
  <2>1. loop = "sleeping" /\ loop' = "top" /\ batch' = batch /\ stopEvent'
    BY <1>3 DEF Wake, lifeVars
  <2> HIDE DEF n
  <2>2. LoopRank = 3 * n + 2 /\ LoopRank' = 3 * n + 1
    BY <2>1 DEF LoopRank, n
  <2> QED
    BY <1>0, <2>1, <2>2
<1>4. ASSUME NEW p \in Peers, BeginPeer(p)
      PROVE  stopEvent' /\ LoopRank' < LoopRank /\ LoopRank' <= LoopRank
  <2>1. loop = "handling" /\ loop' = "dialling" /\ p \in batch /\ batch' = batch \ {p}
        /\ stopEvent'
    BY <1>4 DEF BeginPeer, lifeVars
  <2>2. Cardinality(batch') = n - 1
    BY <2>1, FS_RemoveElement DEF FinitelyMany
  <2> HIDE DEF n
  <2>3. LoopRank = 3 * n + 3 /\ LoopRank' = 3 * (n - 1) + 5
    BY <2>1, <2>2 DEF LoopRank, n
  <2> QED
    BY <1>0, <2>1, <2>3
<1>5. CASE Dialled
  <2>1. loop = "dialling" /\ loop' = "syncing" /\ batch' = batch /\ stopEvent'
    BY <1>5 DEF Dialled, lifeVars
  <2> HIDE DEF n
  <2>2. LoopRank = 3 * n + 5 /\ LoopRank' = 3 * n + 4
    BY <2>1 DEF LoopRank, n
  <2> QED
    BY <1>0, <2>1, <2>2
<1>6. CASE FilesDone
  <2>1. loop = "syncing" /\ loop' \in {"sleeping", "handling"} /\ batch' = batch
        /\ stopEvent'
    BY <1>6 DEF FilesDone, NextPeer
  <2> HIDE DEF n
  <2>2. /\ LoopRank = 3 * n + 4
        /\ LoopRank' = 3 * n + 2 \/ LoopRank' = 3 * n + 3
    BY <2>1 DEF LoopRank, n
  <2> QED
    BY <1>0, <2>1, <2>2
<1>7. CASE LoopFails
  BY <1>1, <1>7 DEF LoopFails, EndLoop
<1> QED
  BY <1>2, <1>3, <1>4, <1>5, <1>6, <1>7 DEF LoopStep

\* With any peers, however many of them come and go meanwhile: after a stop
\* the loop takes at most LoopRank more steps, whether it was asleep, paused,
\* in a handshake or in the middle of a batch, and the stop is not lost.  The
\* one step that may stay away is the end of a push to a peer that does not
\* read (FairSpec); where the steps happen, this is why StopCompletes holds.
THEOREM StopIsBounded ==
  Spec => StopDrains /\ [](LoopRank \in Nat)
<1>1. StopInv => LoopRank \in Nat
  <2> SUFFICES ASSUME FinitelyMany PROVE LoopRank \in Nat
    BY DEF StopInv
  <2> DEFINE n == Cardinality(batch)
  <2>1. n \in Nat
    BY FS_CardinalityType DEF FinitelyMany
  <2> HIDE DEF n
  <2>2. \E w \in 0 .. 5 : LoopRank = 3 * n + w
    BY DEF LoopRank, n
  <2> QED
    BY <2>1, <2>2
<1>2. ASSUME StopInv, [Next]_vars
      PROVE  [stopEvent => /\ stopEvent'
                           /\ LoopRank' <= LoopRank
                           /\ LoopStep => LoopRank' < LoopRank]_vars
  <2> SUFFICES ASSUME stopEvent, Next
               PROVE  stopEvent' /\ LoopRank' <= LoopRank
                      /\ (LoopStep => LoopRank' < LoopRank)
    BY <1>2
  <2>0. LoopRank \in Nat /\ TypeOK /\ FinitelyMany /\ main # "starting"
    BY <1>1, <1>2 DEF StopInv, OrchestratorInv, StopAfterStart
  <2>1. LoopStep => stopEvent' /\ LoopRank' < LoopRank /\ LoopRank' <= LoopRank
    BY <2>0, LoopStepFalls
  <2>2. CASE LoopStep
    BY <2>1, <2>2
  <2>3. CASE ~LoopStep
    <3>1. CASE Exit
      <4>1. batch' = {} /\ loop' \in {"none", "done"} /\ stopEvent'
        BY <3>1 DEF Exit
      <4>2. LoopRank' = 0
        BY <4>1, FS_EmptySet DEF LoopRank
      <4> QED
        BY <2>0, <2>3, <4>1, <4>2
    <3>2. CASE ~Exit
      <4>1. UNCHANGED <<batch, loop>> /\ stopEvent'
        BY <2>0, <2>3, <3>2
           DEF Next, LoopStep, loopVars, discoveryVars, lifeVars, Start, ShutDown,
               Stop, FinishStop, Pause, Resume, Appear, Leave, Refresh,
               ReportHandled
      <4>2. LoopRank' = LoopRank
        BY <4>1 DEF LoopRank
      <4> QED
        BY <2>0, <2>3, <4>1, <4>2
    <3> QED
      BY <3>1, <3>2
  <2> QED
    BY <2>2, <2>3
<1> QED
  BY <1>1, <1>2, StopInvariant, PTL DEF Spec, StopDrains

----------------------------------------------------------------------------
(* ChunkReader *)

\* The accumulator and the read buffer hold the bytes of the file between the
\* end of the last chunk and the position of the file, without a gap.
BytesAtHand ==
  /\ Offset + Len(accumulator) + Len(readBuffer) = pos
  /\ accumulator = Bytes(Offset, Offset + Len(accumulator))
  /\ readBuffer = Bytes(pos - Len(readBuffer), pos)

\* How much is at hand where in the loop, and that a short chunk is the last
\* thing the reader does.
ReaderPlace ==
  /\ Len(readBuffer) <= ReadBlockSize
  /\ pc = "read" => ~atEof /\ Len(accumulator) < ChunkSize
  /\ pc = "cut" => readBuffer = <<>> /\ Len(accumulator) < ChunkSize + ReadBlockSize
  /\ pc = "done" => atEof /\ accumulator = <<>> /\ readBuffer = <<>>
  /\ pc # "done" => \A i \in DOMAIN chunks : Len(chunks[i].data) = ChunkSize

\* In a file nobody changes the reader never gets ahead, and what it takes for
\* the end is the end.
EndIsEnd ==
  resizes = 0 => pos <= length /\ (atEof => pos = length)

ReaderStrongInv ==
  /\ ReaderTypeOK /\ ChunksInPlace /\ OnlyLastShort /\ MemoryBounded
  /\ BytesAtHand /\ ReaderPlace /\ EndIsEnd

\* The bytes of a range, as a sequence.
LEMMA BytesType ==
  ASSUME NEW a \in Nat, NEW b \in Nat, a <= b
  PROVE  /\ Bytes(a, b) \in Seq(Nat) /\ Len(Bytes(a, b)) = b - a
         /\ \A i \in 1 .. (b - a) : Bytes(a, b)[i] = a + i - 1
<1>1. b - a \in Nat /\ \A i \in 1 .. (b - a) : a + i - 1 \in Nat
  OBVIOUS
<1>2. Bytes(a, b) \in [1 .. (b - a) -> Nat]
  BY <1>1 DEF Bytes
<1>3. Bytes(a, b) \in Seq(Nat) /\ Len(Bytes(a, b)) = b - a
  BY <1>1, <1>2
<1> QED
  BY <1>3 DEF Bytes

\* One sequence of bytes after another.
LEMMA SeqConcat ==
  ASSUME NEW s \in Seq(Nat), NEW t \in Seq(Nat)
  PROVE  /\ s \o t \in Seq(Nat) /\ Len(s \o t) = Len(s) + Len(t)
         /\ \A i \in 1 .. Len(s \o t) :
              (s \o t)[i] = IF i <= Len(s) THEN s[i] ELSE t[i - Len(s)]
  BY ConcatProperties

\* The part of a sequence of bytes that follows its first m, up to place n.
LEMMA SeqCut ==
  ASSUME NEW s \in Seq(Nat), NEW m \in Nat, NEW n \in Nat, m <= n, n <= Len(s)
  PROVE  /\ SubSeq(s, m + 1, n) \in Seq(Nat)
         /\ Len(SubSeq(s, m + 1, n)) = n - m
         /\ \A i \in 1 .. (n - m) : SubSeq(s, m + 1, n)[i] = s[m + i]
<1>1. /\ m + 1 \in 1 .. Len(s) + 1 /\ n \in m .. Len(s)
      /\ m + 1 \in Int /\ n \in Int /\ Len(s) \in Nat
  BY LenProperties
<1>2. \A i \in (m + 1) .. n : s[i] \in Nat
  BY <1>1, ElementOfSeq
<1>3. SubSeq(s, m + 1, n) = [i \in 1 .. (n - m) |-> s[m + i]]
  BY <1>1
<1>4. [i \in 1 .. (n - m) |-> s[m + i]] \in [1 .. (n - m) -> Nat]
  BY <1>1, <1>2
<1>5. n - m \in Nat
  BY <1>1
<1> DEFINE k == n - m
           cut == SubSeq(s, m + 1, n)
<1>6. k \in Nat /\ cut \in [1 .. k -> Nat] /\ \A i \in 1 .. k : cut[i] = s[m + i]
  BY <1>3, <1>4, <1>5
<1> HIDE DEF k, cut
<1>7. cut \in Seq(Nat) /\ Len(cut) = k
  BY <1>6
<1> QED
  BY <1>6, <1>7 DEF k, cut

\* Two ranges that meet make one.
LEMMA BytesConcat ==
  ASSUME NEW a \in Nat, NEW b \in Nat, NEW c \in Nat, a <= b, b <= c
  PROVE  Bytes(a, b) \o Bytes(b, c) = Bytes(a, c)
<1> DEFINE s == Bytes(a, b) \o Bytes(b, c)
<1>1. /\ Bytes(a, b) \in Seq(Nat) /\ Len(Bytes(a, b)) = b - a
      /\ \A i \in 1 .. (b - a) : Bytes(a, b)[i] = a + i - 1
  BY BytesType
<1>2. /\ Bytes(b, c) \in Seq(Nat) /\ Len(Bytes(b, c)) = c - b
      /\ \A i \in 1 .. (c - b) : Bytes(b, c)[i] = b + i - 1
  BY BytesType
<1>3. /\ Bytes(a, c) \in Seq(Nat) /\ Len(Bytes(a, c)) = c - a
      /\ \A i \in 1 .. (c - a) : Bytes(a, c)[i] = a + i - 1
  BY BytesType
<1>4. /\ s \in Seq(Nat) /\ Len(s) = (b - a) + (c - b)
      /\ \A i \in 1 .. Len(s) : s[i] = IF i <= b - a THEN Bytes(a, b)[i]
                                       ELSE Bytes(b, c)[i - (b - a)]
  <2> DEFINE x == Bytes(a, b)
             y == Bytes(b, c)
  <2>1. /\ x \in Seq(Nat) /\ y \in Seq(Nat) /\ s = x \o y
        /\ Len(x) = b - a /\ Len(y) = c - b
    BY <1>1, <1>2
  <2> HIDE DEF s, x, y
  <2>2. /\ s \in Seq(Nat) /\ Len(s) = Len(x) + Len(y)
        /\ \A i \in 1 .. Len(s) : s[i] = IF i <= Len(x) THEN x[i] ELSE y[i - Len(x)]
    BY <2>1, SeqConcat
  <2>3. /\ s \in Seq(Nat) /\ Len(s) = (b - a) + (c - b)
        /\ \A i \in 1 .. Len(s) : s[i] = IF i <= b - a THEN x[i] ELSE y[i - (b - a)]
    BY <2>1, <2>2
  <2> QED
    BY <2>3 DEF x, y
<1> HIDE DEF s
<1>5. ASSUME NEW i \in 1 .. Len(s) PROVE s[i] = Bytes(a, c)[i]
  <2>1. CASE i <= b - a
    BY <1>1, <1>3, <1>4, <2>1
  <2>2. CASE i > b - a
    <3>1. i - (b - a) \in 1 .. (c - b) /\ i \in 1 .. (c - a) /\ ~(i <= b - a)
      BY <1>4, <2>2
    <3>2. s[i] = Bytes(b, c)[i - (b - a)]
      BY <1>4, <3>1
    <3>3. Bytes(b, c)[i - (b - a)] = b + (i - (b - a)) - 1
      BY <1>2, <3>1
    <3> QED
      BY <1>3, <3>1, <3>2, <3>3
  <2> QED
    BY <1>4, <2>1, <2>2
<1>6. Len(s) = Len(Bytes(a, c))
  BY <1>3, <1>4
<1>7. s = Bytes(a, c)
  BY <1>3, <1>4, <1>5, <1>6, SeqEqual
<1> QED
  BY <1>7 DEF s

\* A sequence with the right byte in every place is the range.
LEMMA BytesExact ==
  ASSUME NEW a \in Nat, NEW b \in Nat, a <= b,
         NEW s \in Seq(Nat), Len(s) = b - a, \A i \in 1 .. Len(s) : s[i] = a + i - 1
  PROVE  s = Bytes(a, b)
<1>1. /\ Bytes(a, b) \in Seq(Nat) /\ Len(Bytes(a, b)) = b - a
      /\ \A i \in 1 .. (b - a) : Bytes(a, b)[i] = a + i - 1
  BY BytesType
<1>2. \A i \in 1 .. Len(s) : s[i] = Bytes(a, b)[i]
  BY <1>1
<1> QED
  BY <1>1, <1>2, SeqEqual

Chunk == [index : Nat, offset : Nat, data : Seq(Nat)]

\* The block size is positive and no larger than a chunk; the lengths and the
\* offset of the next chunk are numbers.
LEMMA ReaderNumbers ==
  ASSUME ReaderTypeOK
  PROVE  /\ ReadBlockSize \in Nat \ {0} /\ ReadBlockSize <= ChunkSize
         /\ Len(accumulator) \in Nat /\ Len(readBuffer) \in Nat
         /\ Offset \in Nat /\ pos \in Nat /\ length \in Nat
<1>1. ReadBlockSize \in Nat \ {0} /\ ReadBlockSize <= ChunkSize
  BY ChunkSizeAssumption, MaxBlockAssumption DEF ReadBlockSize
<1>2. Offset \in Nat
  <2>1. chunks \in Seq(Chunk)
    BY DEF ReaderTypeOK, Chunk
  <2>2. ASSUME chunks # <<>> PROVE chunks[Len(chunks)] \in Chunk
    BY <2>1, <2>2
  <2>3. ASSUME NEW c \in Chunk PROVE c.offset + Len(c.data) \in Nat
    BY <2>3 DEF Chunk
  <2> QED
    BY <2>2, <2>3 DEF Offset
<1> QED
  BY <1>1, <1>2, LengthAssumption DEF ReaderTypeOK

\* readinto appends the bytes at the position to the read buffer.
LEMMA ReadIntoKeeps ==
  ASSUME ReaderStrongInv, NEW n \in 1 .. ReadBlockSize, ReadInto(n)
  PROVE  ReaderStrongInv'
<1> DEFINE lr == Len(readBuffer)
<1>1. /\ ReadBlockSize \in Nat \ {0} /\ Len(accumulator) \in Nat /\ lr \in Nat
      /\ Offset \in Nat /\ pos \in Nat /\ length \in Nat /\ n \in Nat
  BY ReaderNumbers DEF ReaderStrongInv
<1>2. /\ pc = "read" /\ n > 0 /\ lr + n <= ReadBlockSize /\ pos + n <= length
      /\ readBuffer' = readBuffer \o Bytes(pos, pos + n) /\ pos' = pos + n
      /\ UNCHANGED <<length, resizes, pc, accumulator, atEof, chunks>>
  BY <1>1 DEF ReadInto
<1>3. Offset' = Offset
  BY <1>2 DEF Offset
<1>4. readBuffer' = Bytes(pos - lr, pos + n)
  <2> DEFINE from == pos - lr
             to == pos + n
  <2>1. from \in Nat /\ to \in Nat /\ from <= pos /\ pos <= to
    BY <1>1 DEF ReaderStrongInv, BytesAtHand
  <2>2. readBuffer = Bytes(from, pos) /\ readBuffer' = readBuffer \o Bytes(pos, to)
    BY <1>2 DEF ReaderStrongInv, BytesAtHand
  <2> HIDE DEF from, to
  <2>3. readBuffer' = Bytes(from, to)
    BY <1>1, <2>1, <2>2, BytesConcat
  <2> QED
    BY <2>3 DEF from, to
<1>5. readBuffer' \in Seq(Nat) /\ Len(readBuffer') = lr + n
  <2>1. pos - lr \in Nat /\ pos + n \in Nat /\ pos - lr <= pos + n
        /\ (pos + n) - (pos - lr) = lr + n
    BY <1>1 DEF ReaderStrongInv, BytesAtHand
  <2> QED
    BY <1>4, <2>1, BytesType
<1>6. ReaderTypeOK'
  <2>1. pos' \in 0 .. MaxLength
    BY <1>1, <1>2, LengthAssumption DEF ReaderStrongInv, ReaderTypeOK
  <2> QED
    BY <1>2, <1>5, <2>1 DEF ReaderStrongInv, ReaderTypeOK
<1>7. ChunksInPlace' /\ OnlyLastShort'
  BY <1>2 DEF ReaderStrongInv, ChunksInPlace, OnlyLastShort
<1>8. MemoryBounded'
  BY <1>1, <1>2, <1>5, ChunkSizeAssumption
     DEF ReaderStrongInv, MemoryBounded, ReaderPlace
<1>9. BytesAtHand'
  <2>1. (pos + n) - (lr + n) = pos - lr
    BY <1>1
  <2>2. Offset + Len(accumulator) + (lr + n) = pos + n
    BY <1>1 DEF ReaderStrongInv, BytesAtHand
  <2> QED
    BY <1>2, <1>3, <1>4, <1>5, <2>1, <2>2 DEF ReaderStrongInv, BytesAtHand
<1>10. ReaderPlace'
  BY <1>1, <1>2, <1>5 DEF ReaderStrongInv, ReaderPlace
<1>11. EndIsEnd'
  BY <1>1, <1>2 DEF ReaderStrongInv, EndIsEnd, ReaderPlace
<1> QED
  BY <1>6, <1>7, <1>8, <1>9, <1>10, <1>11 DEF ReaderStrongInv

\* _read_full returns its block: it is empty only at the end of the file, and
\* then there is less than a chunk left.
LEMMA EndReadKeeps ==
  ASSUME ReaderStrongInv, EndRead
  PROVE  ReaderStrongInv'
<1> DEFINE la == Len(accumulator)
           lr == Len(readBuffer)
<1>1. /\ ReadBlockSize \in Nat \ {0} /\ la \in Nat /\ lr \in Nat
      /\ Offset \in Nat /\ pos \in Nat /\ length \in Nat
  BY ReaderNumbers DEF ReaderStrongInv
<1>2. /\ pc = "read" /\ (lr = ReadBlockSize \/ pos >= length)
      /\ accumulator' = accumulator \o readBuffer
      /\ readBuffer' = <<>> /\ pc' = "cut"
      /\ UNCHANGED <<length, resizes, pos, chunks>>
  BY DEF EndRead
<1>3. atEof' \in BOOLEAN /\ (atEof' => readBuffer = <<>>)
  BY DEF EndRead, EmptyBlock
<1>4. Offset' = Offset
  BY <1>2 DEF Offset
<1>5. /\ accumulator' \in Seq(Nat) /\ Len(accumulator') = la + lr
      /\ readBuffer' \in Seq(Nat) /\ Len(readBuffer') = 0
  BY <1>2 DEF ReaderStrongInv, ReaderTypeOK
<1>6. accumulator' = Bytes(Offset, Offset + (la + lr))
  <2> DEFINE from == Offset
             mid == Offset + la
  <2>1. from \in Nat /\ mid \in Nat /\ from <= mid /\ mid <= pos
        /\ pos - lr = mid /\ pos = Offset + (la + lr)
    BY <1>1 DEF ReaderStrongInv, BytesAtHand
  <2>2. accumulator = Bytes(from, mid) /\ readBuffer = Bytes(mid, pos)
    BY <2>1 DEF ReaderStrongInv, BytesAtHand
  <2>3. accumulator' = Bytes(from, mid) \o Bytes(mid, pos)
    BY <1>2, <2>2
  <2> HIDE DEF from, mid
  <2>4. /\ from \in Nat /\ mid \in Nat /\ pos \in Nat /\ from <= mid /\ mid <= pos
    BY <1>1, <2>1
  <2>5. accumulator' = Bytes(from, pos)
    BY <2>3, <2>4, BytesConcat
  <2> QED
    BY <2>1, <2>5 DEF from
<1>7. la < ChunkSize /\ lr <= ReadBlockSize
  BY <1>2 DEF ReaderStrongInv, ReaderPlace
<1>8. atEof' => lr = 0 /\ pos >= length
  BY <1>1, <1>2, <1>3
<1>9. ReaderTypeOK'
  <2>1. atEof' => Len(accumulator') < ChunkSize
    BY <1>1, <1>5, <1>7, <1>8
  <2> QED
    BY <1>2, <1>3, <1>5, <2>1 DEF ReaderStrongInv, ReaderTypeOK
<1>10. ChunksInPlace' /\ OnlyLastShort'
  BY <1>2 DEF ReaderStrongInv, ChunksInPlace, OnlyLastShort
<1>11. MemoryBounded'
  BY <1>1, <1>5, <1>7, ChunkSizeAssumption DEF MemoryBounded
<1>12. BytesAtHand'
  <2>1. readBuffer' = Bytes(pos' - Len(readBuffer'), pos')
    <3>1. pos' - Len(readBuffer') = pos /\ pos' = pos
      BY <1>1, <1>2, <1>5
    <3>2. Bytes(pos, pos) \in Seq(Nat) /\ Len(Bytes(pos, pos)) = 0
      <4>1. pos <= pos /\ pos - pos = 0
        BY <1>1
      <4>2. Bytes(pos, pos) \in Seq(Nat) /\ Len(Bytes(pos, pos)) = pos - pos
        BY <1>1, <4>1, BytesType
      <4> QED
        BY <4>1, <4>2
    <3> QED
      BY <1>2, <3>1, <3>2
  <2>2. Offset + (la + lr) + 0 = pos
    BY <1>1 DEF ReaderStrongInv, BytesAtHand
  <2> QED
    BY <1>2, <1>4, <1>5, <1>6, <2>1, <2>2 DEF BytesAtHand
<1>13. ReaderPlace'
  BY <1>1, <1>2, <1>5, <1>7, ChunkSizeAssumption DEF ReaderStrongInv, ReaderPlace
<1>14. EndIsEnd'
  BY <1>1, <1>2, <1>8 DEF ReaderStrongInv, EndIsEnd
<1> QED
  BY <1>9, <1>10, <1>11, <1>12, <1>13, <1>14 DEF ReaderStrongInv

\* Without a cut the reader has less than a chunk; at the end of the file it
\* has nothing.
LEMMA NoCutKeeps ==
  ASSUME ReaderStrongInv, NoCut
  PROVE  ReaderStrongInv'
<1>1. /\ pc = "cut" /\ NextCut(accumulator, atEof) = 0
      /\ pc' = IF atEof THEN "done" ELSE "read"
      /\ UNCHANGED <<length, resizes, pos, readBuffer, accumulator, atEof, chunks>>
  BY DEF NoCut, readVars
<1>2. Len(accumulator) \in Nat /\ accumulator \in Seq(Nat)
  BY ReaderNumbers DEF ReaderStrongInv, ReaderTypeOK
<1>3. Len(accumulator) < ChunkSize /\ (atEof => accumulator = <<>>)
  BY <1>1, <1>2, ChunkSizeAssumption DEF NextCut
<1>4. Offset' = Offset
  BY <1>1 DEF Offset
<1>5. ReaderTypeOK'
  <2>1. pc' \in {"read", "cut", "done", "failed"}
    BY <1>1
  <2>2. UNCHANGED <<length, resizes, pos, readBuffer, accumulator, atEof, chunks>>
    BY <1>1
  <2> QED
    BY <2>1, <2>2 DEF ReaderStrongInv, ReaderTypeOK
<1>6. ChunksInPlace' /\ OnlyLastShort' /\ MemoryBounded' /\ EndIsEnd'
  BY <1>1 DEF ReaderStrongInv, ChunksInPlace, OnlyLastShort, MemoryBounded, EndIsEnd
<1>7. BytesAtHand'
  BY <1>1, <1>4 DEF ReaderStrongInv, BytesAtHand
<1>8. ReaderPlace'
  <2>1. CASE atEof
    BY <1>1, <1>3, <2>1 DEF ReaderStrongInv, ReaderPlace
  <2>2. CASE ~atEof
    BY <1>1, <1>3, <2>2 DEF ReaderStrongInv, ReaderPlace
  <2> QED
    BY <2>1, <2>2
<1> QED
  BY <1>5, <1>6, <1>7, <1>8 DEF ReaderStrongInv

\* A chunk is cut off the front of the accumulator: it starts where the last
\* one ended, what stays is what follows it, and only at the end of the file,
\* where nothing stays, may it be short.
LEMMA YieldKeeps ==
  ASSUME ReaderStrongInv, Yield
  PROVE  ReaderStrongInv'
<1> DEFINE la == Len(accumulator)
           n == Len(chunks)
           cut == NextCut(accumulator, atEof)
           c == [index |-> n, offset |-> Offset, data |-> SubSeq(accumulator, 1, cut)]
<1>1. /\ ReadBlockSize \in Nat \ {0} /\ ReadBlockSize <= ChunkSize /\ la \in Nat
      /\ Offset \in Nat /\ pos \in Nat /\ length \in Nat
      /\ ChunkSize \in Nat \ {0} /\ accumulator \in Seq(Nat)
  BY ReaderNumbers, ChunkSizeAssumption DEF ReaderStrongInv, ReaderTypeOK
<1>0. \A i \in 1 .. la : accumulator[i] = Offset + i - 1
  <2> DEFINE to == Offset + la
  <2>1. accumulator = Bytes(Offset, to)
    BY DEF ReaderStrongInv, BytesAtHand
  <2>2. to \in Nat /\ Offset <= to /\ to - Offset = la
    BY <1>1
  <2> HIDE DEF to
  <2>3. \A i \in 1 .. (to - Offset) : Bytes(Offset, to)[i] = Offset + i - 1
    BY <1>1, <2>2, BytesType
  <2> QED
    BY <2>1, <2>2, <2>3
<1>2. /\ pc = "cut" /\ cut > 0 /\ chunks' = Append(chunks, c)
      /\ accumulator' = SubSeq(accumulator, cut + 1, la)
      /\ pc' = IF atEof /\ accumulator' = <<>> THEN "done" ELSE "read"
      /\ UNCHANGED <<length, resizes, pos, readBuffer, atEof>>
  BY DEF Yield, Rest
<1>3. /\ readBuffer = <<>> /\ la < ChunkSize + ReadBlockSize
      /\ atEof => la < ChunkSize
      /\ \A i \in DOMAIN chunks : Len(chunks[i].data) = ChunkSize
  BY <1>2 DEF ReaderStrongInv, ReaderPlace, ReaderTypeOK
<1>4. /\ cut \in Nat /\ cut <= la /\ cut <= ChunkSize
      /\ atEof => cut = la
      /\ ~atEof => cut = ChunkSize
  BY <1>1, <1>2, <1>3 DEF NextCut
<1> HIDE DEF cut
<1>5. /\ c.data \in Seq(Nat) /\ Len(c.data) = cut
      /\ c.data = Bytes(Offset, Offset + cut)
  <2>0. 0 \in Nat /\ cut \in Nat /\ 0 <= cut /\ cut <= Len(accumulator)
        /\ cut - 0 = cut /\ 0 + 1 = 1 /\ \A i \in 1 .. cut : 0 + i = i
    BY <1>4
  <2>1. c.data \in Seq(Nat) /\ Len(c.data) = cut
    <3>1. c.data = SubSeq(accumulator, 0 + 1, cut)
      BY <2>0
    <3> HIDE DEF c
    <3> QED
      BY <1>1, <2>0, <3>1, SeqCut
  <2>2. \A i \in 1 .. cut : c.data[i] = accumulator[i]
    <3>1. c.data = SubSeq(accumulator, 0 + 1, cut)
      BY <2>0
    <3> HIDE DEF c
    <3> QED
      BY <1>1, <2>0, <3>1, SeqCut
  <2> DEFINE mid == Offset + cut
             d == c.data
  <2>3. mid \in Nat /\ Offset <= mid /\ d \in Seq(Nat) /\ Len(d) = mid - Offset
    BY <1>1, <1>4, <2>1
  <2>4. \A i \in 1 .. Len(d) : d[i] = Offset + i - 1
    BY <1>0, <1>1, <1>4, <2>1, <2>2
  <2> HIDE DEF mid, d
  <2>5. d = Bytes(Offset, mid)
    BY <1>1, <2>3, <2>4, BytesExact
  <2> QED
    BY <2>1, <2>5 DEF mid, d
<1>6. /\ accumulator' \in Seq(Nat) /\ Len(accumulator') = la - cut
      /\ accumulator' = Bytes(Offset + cut, Offset + la)
  <2>1. /\ accumulator' \in Seq(Nat) /\ Len(accumulator') = la - cut
        /\ \A i \in 1 .. (la - cut) : accumulator'[i] = accumulator[cut + i]
    <3>1. accumulator' = SubSeq(accumulator, cut + 1, la)
      BY <1>2
    <3>2. cut <= la /\ la <= Len(accumulator)
      BY <1>1, <1>4
    <3> QED
      BY <1>1, <1>4, <3>1, <3>2, SeqCut
  <2> DEFINE mid == Offset + cut
             to == Offset + la
  <2>2. /\ mid \in Nat /\ to \in Nat /\ mid <= to
        /\ Len(accumulator') = to - mid
    BY <1>1, <1>4, <2>1
  <2>3. \A i \in 1 .. Len(accumulator') : accumulator'[i] = mid + i - 1
    BY <1>0, <1>1, <1>4, <2>1
  <2> HIDE DEF mid, to
  <2>4. accumulator' = Bytes(mid, to)
    BY <2>1, <2>2, <2>3, BytesExact
  <2> QED
    BY <2>1, <2>4 DEF mid, to
<1>7. chunks \in Seq(Chunk) /\ c \in Chunk
  BY <1>1, <1>5, LenProperties DEF ReaderStrongInv, ReaderTypeOK, Chunk
<1>8. /\ n \in Nat /\ chunks' \in Seq(Chunk) /\ Len(chunks') = n + 1
      /\ DOMAIN chunks' = 1 .. (n + 1) /\ DOMAIN chunks = 1 .. n
      /\ chunks'[n + 1] = c
      /\ \A i \in 1 .. n : chunks'[i] = chunks[i]
  <2> HIDE DEF c
  <2> QED
    BY <1>2, <1>7, AppendProperties, LenProperties
<1>9. Offset' = Offset + cut
  <2>1. chunks' # <<>>
    BY <1>8
  <2>2. Offset' = c.offset + Len(c.data)
    BY <1>8, <2>1 DEF Offset
  <2> QED
    BY <1>5, <2>2
<1>10. ReaderTypeOK'
  <2>1. pc' \in {"read", "cut", "done", "failed"}
    BY <1>2
  <2>2. atEof' => Len(accumulator') < ChunkSize
    BY <1>1, <1>2, <1>3, <1>4, <1>6
  <2>3. chunks' \in Seq([index : Nat, offset : Nat, data : Seq(Nat)])
    BY <1>8 DEF Chunk
  <2>4. UNCHANGED <<length, resizes, pos, readBuffer, atEof>>
    BY <1>2
  <2> QED
    BY <1>6, <2>1, <2>2, <2>3, <2>4 DEF ReaderStrongInv, ReaderTypeOK
<1>11. ChunksInPlace'
  <2> SUFFICES ASSUME NEW i \in DOMAIN chunks'
               PROVE  /\ chunks'[i].data =
                           Bytes(chunks'[i].offset,
                                 chunks'[i].offset + Len(chunks'[i].data))
                      /\ i < Len(chunks') =>
                           chunks'[i + 1].offset =
                             chunks'[i].offset + Len(chunks'[i].data)
    BY DEF ChunksInPlace
  <2>1. CASE i = n + 1
    <3>1. chunks'[i] = c /\ c.offset = Offset /\ ~(i < Len(chunks'))
      BY <1>8, <2>1
    <3>2. c.data = Bytes(c.offset, c.offset + Len(c.data))
      BY <1>5, <3>1
    <3> HIDE DEF c
    <3> QED
      BY <3>1, <3>2
  <2>2. CASE i < n
    <3>1. i \in 1 .. n /\ i + 1 \in 1 .. n
      BY <1>8, <2>2
    <3> QED
      BY <1>8, <2>2, <3>1 DEF ReaderStrongInv, ChunksInPlace
  <2>3. CASE i = n
    <3>1. i \in 1 .. n /\ chunks # <<>> /\ i + 1 = n + 1
      BY <1>8, <2>3
    <3>2. Offset = chunks[i].offset + Len(chunks[i].data)
      BY <2>3, <3>1 DEF Offset
    <3> QED
      BY <1>8, <2>3, <3>1, <3>2 DEF ReaderStrongInv, ChunksInPlace
  <2> QED
    BY <1>8, <2>1, <2>2, <2>3
<1>12. OnlyLastShort'
  <2> SUFFICES ASSUME NEW i \in DOMAIN chunks'
               PROVE  /\ Len(chunks'[i].data) \in 1 .. ChunkSize
                      /\ i < Len(chunks') => Len(chunks'[i].data) = ChunkSize
    BY DEF OnlyLastShort
  <2>1. CASE i = n + 1
    BY <1>2, <1>4, <1>5, <1>8, <2>1
  <2>2. CASE i \in 1 .. n
    BY <1>1, <1>3, <1>8, <2>2
  <2> QED
    BY <1>8, <2>1, <2>2
<1>13. Len(accumulator') < ChunkSize
  <2> HIDE DEF la
  <2>1. la < ChunkSize + ReadBlockSize /\ Len(accumulator') = la - cut
    BY <1>3, <1>6
  <2>2. CASE atEof
    <3>1. la < ChunkSize /\ cut = la
      BY <1>3, <1>4, <2>2
    <3> QED
      BY <1>1, <2>1, <3>1
  <2>3. CASE ~atEof
    <3>1. cut = ChunkSize
      BY <1>4, <2>3
    <3> QED
      BY <1>1, <2>1, <3>1
  <2> QED
    BY <2>2, <2>3
<1>14. MemoryBounded'
  <2>1. Len(readBuffer') = 0
    BY <1>2, <1>3
  <2> QED
    BY <1>1, <1>6, <1>13, <2>1 DEF MemoryBounded
<1>15. BytesAtHand'
  <2>1. Len(readBuffer) = 0 /\ Offset + la + 0 = pos
    BY <1>1, <1>3 DEF ReaderStrongInv, BytesAtHand
  <2>2. (Offset + cut) + (la - cut) = Offset + la /\ Offset + la + 0 = Offset + la
    BY <1>1, <1>4
  <2>3. Offset' + Len(accumulator') + Len(readBuffer') = pos'
    <3>1. Len(readBuffer') = 0 /\ pos' = pos
      BY <1>2, <2>1
    <3> QED
      BY <1>1, <1>4, <1>6, <1>9, <2>1, <2>2, <3>1
  <2>4. accumulator' = Bytes(Offset', Offset' + Len(accumulator'))
    BY <1>6, <1>9, <2>2
  <2>5. readBuffer' = Bytes(pos' - Len(readBuffer'), pos')
    BY <1>2 DEF ReaderStrongInv, BytesAtHand
  <2> QED
    BY <2>3, <2>4, <2>5 DEF BytesAtHand
<1>16. ReaderPlace'
  <2>0. Len(readBuffer') <= ReadBlockSize
    BY <1>2 DEF ReaderStrongInv, ReaderPlace
  <2>1. CASE atEof
    <3>1. accumulator' = <<>> /\ pc' = "done" /\ atEof' /\ readBuffer' = <<>>
      <4>1. cut = la /\ Len(accumulator') = la - cut /\ accumulator' \in Seq(Nat)
        BY <1>4, <1>6, <2>1
      <4> HIDE DEF la
      <4>2. Len(accumulator') = 0
        BY <1>1, <4>1
      <4>3. accumulator' = <<>>
        BY <4>1, <4>2, EmptySeq
      <4> QED
        BY <1>2, <1>3, <2>1, <4>3
    <3> QED
      BY <2>0, <3>1 DEF ReaderPlace
  <2>2. CASE ~atEof
    <3>1. pc' = "read" /\ ~atEof'
      BY <1>2, <2>2
    <3>2. ASSUME NEW i \in DOMAIN chunks' PROVE Len(chunks'[i].data) = ChunkSize
      <4>1. CASE i = n + 1
        BY <1>4, <1>5, <1>8, <2>2, <4>1
      <4>2. CASE i \in 1 .. n
        BY <1>3, <1>8, <4>2
      <4> QED
        BY <1>8, <4>1, <4>2
    <3> QED
      BY <1>13, <2>0, <3>1, <3>2 DEF ReaderPlace
  <2> QED
    BY <2>1, <2>2
<1>17. EndIsEnd'
  BY <1>2 DEF ReaderStrongInv, EndIsEnd
<1> QED
  BY <1>10, <1>11, <1>12, <1>14, <1>15, <1>16, <1>17 DEF ReaderStrongInv

\* The reader keeps ReaderStrongInv from the opening of the file on.
THEOREM ReaderInvariant == ReaderSpec => []ReaderStrongInv
<1>1. ReaderInit => ReaderStrongInv
  <2> SUFFICES ASSUME ReaderInit PROVE ReaderStrongInv
    OBVIOUS
  <2>1. /\ length \in 0 .. MaxLength /\ resizes = 0 /\ pc = "read" /\ pos = 0
        /\ readBuffer = <<>> /\ accumulator = <<>> /\ chunks = <<>>
        /\ atEof \in BOOLEAN /\ ~atEof
    BY DEF ReaderInit
  <2>2. ReaderTypeOK
    BY <2>1, LengthAssumption DEF ReaderTypeOK
  <2>3. Offset = 0 /\ Len(accumulator) = 0 /\ Len(readBuffer) = 0
    BY <2>1 DEF Offset
  <2>4. Bytes(0, 0) = <<>>
    <3>1. Bytes(0, 0) \in Seq(Nat) /\ Len(Bytes(0, 0)) = 0 - 0
      BY BytesType
    <3> QED
      BY <3>1
  <2>5. BytesAtHand
    BY <2>1, <2>3, <2>4 DEF BytesAtHand
  <2>6. MemoryBounded /\ ReaderPlace
    BY <2>1, <2>2, <2>3, ReaderNumbers, ChunkSizeAssumption
       DEF MemoryBounded, ReaderPlace
  <2>7. ChunksInPlace /\ OnlyLastShort /\ EndIsEnd
    BY <2>1 DEF ChunksInPlace, OnlyLastShort, EndIsEnd
  <2> QED
    BY <2>2, <2>5, <2>6, <2>7 DEF ReaderStrongInv
<1>2. ReaderStrongInv /\ [ReaderNext]_allReaderVars => ReaderStrongInv'
  <2> SUFFICES ASSUME ReaderStrongInv, [ReaderNext]_allReaderVars
               PROVE  ReaderStrongInv'
    OBVIOUS
  \* Nothing of the reader's own moves.
  <2>1. ASSUME UNCHANGED <<readVars, chunks>>, length' \in 0 .. MaxLength,
               resizes' \in 0 .. MaxResizes,
               pc' = pc \/ (pc = "read" /\ pc' = "failed"),
               resizes' = 0 => resizes = 0 /\ length' = length
        PROVE  ReaderStrongInv'
    <3>1. UNCHANGED <<pos, readBuffer, accumulator, atEof, chunks>>
      BY <2>1 DEF readVars
    <3>2. ReaderTypeOK'
      BY <2>1, <3>1 DEF ReaderStrongInv, ReaderTypeOK
    <3>3. ChunksInPlace' /\ OnlyLastShort' /\ MemoryBounded'
      BY <3>1 DEF ReaderStrongInv, ChunksInPlace, OnlyLastShort, MemoryBounded
    <3>4. BytesAtHand'
      BY <3>1 DEF ReaderStrongInv, BytesAtHand, Offset
    <3>5. ReaderPlace'
      BY <2>1, <3>1 DEF ReaderStrongInv, ReaderPlace
    <3>6. EndIsEnd'
      BY <2>1, <3>1 DEF ReaderStrongInv, EndIsEnd
    <3> QED
      BY <3>2, <3>3, <3>4, <3>5, <3>6 DEF ReaderStrongInv
  <2>2. length \in 0 .. MaxLength /\ resizes \in 0 .. MaxResizes
    BY DEF ReaderStrongInv, ReaderTypeOK
  <2>3. CASE UNCHANGED allReaderVars
    BY <2>1, <2>2, <2>3 DEF allReaderVars
  <2>4. CASE ReadFails
    BY <2>1, <2>2, <2>4 DEF ReadFails
  <2>5. ASSUME NEW n \in 0 .. MaxLength, Resize(n) PROVE ReaderStrongInv'
    BY <2>1, <2>2, <2>5, LengthAssumption DEF Resize
  <2> QED
    BY <2>3, <2>4, <2>5, ReadIntoKeeps, EndReadKeeps, NoCutKeeps, YieldKeeps
       DEF ReaderNext
<1> QED
  BY <1>1, <1>2, PTL DEF ReaderSpec

\* For every chunk size, block size and file, whatever is read short and
\* however the file changes meanwhile: every chunk holds the bytes at its
\* offset, offsets leave no gap, only the last chunk is short, memory stays
\* below a chunk and a block, and an unchanged file is read to its last byte.
THEOREM ReaderCorrect == ReaderSpec => []ReaderInv
<1>1. ReaderStrongInv => ReaderInv
  <2> SUFFICES ASSUME ReaderStrongInv, pc = "done", resizes = 0
               PROVE  Offset = length
    BY DEF ReaderInv, ReaderStrongInv, WholeFileRead
  <2>1. atEof /\ accumulator = <<>> /\ readBuffer = <<>>
    BY DEF ReaderStrongInv, ReaderPlace
  <2>2. pos = length
    BY <2>1 DEF ReaderStrongInv, EndIsEnd
  <2>3. Len(accumulator) = 0 /\ Len(readBuffer) = 0 /\ Offset \in Nat
    BY <2>1, ReaderNumbers DEF ReaderStrongInv
  <2>4. Offset + 0 + 0 = pos
    BY <2>3 DEF ReaderStrongInv, BytesAtHand
  <2> QED
    BY <2>2, <2>3, <2>4
<1> QED
  BY <1>1, ReaderInvariant, PTL

----------------------------------------------------------------------------
(* Why the reader comes to an end *)

\* How far a is beyond b.
Beyond(a, b) == IF a > b THEN a - b ELSE 0

\* An upper bound of the steps the reader can still take if the file stays as
\* it is: four for every byte it has not read, three for every byte of the
\* block at hand, and the way from where it is to the end of its loop.
ReaderRank ==
  4 * Beyond(length, pos) + 3 * Len(readBuffer) +
    (CASE pc = "cut" /\ ~atEof -> 3
       [] pc = "read"          -> 2
       [] pc = "cut" /\ atEof  -> 1
       [] OTHER                -> 0)

\* Every step of the reader brings it nearer to the end of the file as it is,
\* and a change of the file, at whatever point, sets it back by four steps for
\* every byte that is added and by none when the file shrinks (_read_full,
\* _stream_chunks).
ReaderAdvances ==
  [][IF resizes' = resizes
     THEN ReaderRank' < ReaderRank
     ELSE ReaderRank' <= ReaderRank + 4 * Beyond(length', length)]_allReaderVars

\* A file of length a that grows to c is read on from b no farther than it grew.
LEMMA BeyondGrows ==
  ASSUME NEW a \in Nat, NEW b \in Nat, NEW c \in Nat
  PROVE  /\ Beyond(c, b) \in Nat /\ Beyond(c, a) \in Nat
         /\ Beyond(c, b) <= Beyond(a, b) + Beyond(c, a)
  BY DEF Beyond

\* Only a read that finds nothing ends the loop, so the reader follows a file
\* that grows while it is read, but at no more than four steps for a byte: from
\* any point on it takes at most ReaderRank steps, 4 * length + 2 at the start,
\* and four for every byte the file gains meanwhile, whatever short reads it
\* gets and however the file shrinks.  It ends once the file stops growing;
\* under the fairness of FairReaderSpec this is why ReaderEnds holds.
THEOREM ReaderIsBounded ==
  ReaderSpec => ReaderAdvances /\ [](ReaderRank \in Nat)
<1>1. ReaderStrongInv => ReaderRank \in Nat
  <2> SUFFICES ASSUME ReaderStrongInv PROVE ReaderRank \in Nat
    OBVIOUS
  <2> DEFINE m == Beyond(length, pos)
             lr == Len(readBuffer)
  <2>1. m \in Nat /\ lr \in Nat
    BY LengthAssumption DEF ReaderStrongInv, ReaderTypeOK, Beyond
  <2> HIDE DEF m, lr
  <2>2. \E w \in 0 .. 3 : ReaderRank = 4 * m + 3 * lr + w
    BY DEF ReaderRank, m, lr
  <2> QED
    BY <2>1, <2>2
<1>2. ASSUME ReaderStrongInv, [ReaderNext]_allReaderVars
      PROVE  [IF resizes' = resizes
              THEN ReaderRank' < ReaderRank
              ELSE ReaderRank' <= ReaderRank + 4 * Beyond(length', length)]_allReaderVars
  <2> SUFFICES ASSUME ReaderNext
               PROVE  IF resizes' = resizes
                      THEN ReaderRank' < ReaderRank
                      ELSE ReaderRank' <= ReaderRank + 4 * Beyond(length', length)
    BY <1>2
  <2> DEFINE m == Beyond(length, pos)
             lr == Len(readBuffer)
  <2>0. m \in Nat /\ lr \in Nat /\ pos \in Nat /\ length \in Nat
        /\ readBuffer \in Seq(Nat) /\ ReadBlockSize \in Nat
    BY <1>2, LengthAssumption, ReaderNumbers DEF ReaderStrongInv, ReaderTypeOK, Beyond
  <2>1. ASSUME NEW n \in 1 .. ReadBlockSize, ReadInto(n)
        PROVE  resizes' = resizes /\ ReaderRank' < ReaderRank
    <3>1. /\ pc = "read" /\ UNCHANGED <<length, resizes, pc>> /\ pos' = pos + n
          /\ pos + n <= length /\ readBuffer' = readBuffer \o Bytes(pos, pos + n)
      BY <2>1 DEF ReadInto
    <3>2. /\ n \in Nat \ {0} /\ pos + n \in Nat /\ pos <= pos + n
          /\ (pos + n) - pos = n
      BY <2>0
    <3>3. Bytes(pos, pos + n) \in Seq(Nat) /\ Len(Bytes(pos, pos + n)) = n
      BY <2>0, <3>2, BytesType
    <3>4. Len(readBuffer') = lr + n
      <4> DEFINE new == Bytes(pos, pos + n)
      <4>1. new \in Seq(Nat) /\ Len(new) = n /\ readBuffer' = readBuffer \o new
        BY <3>1, <3>3
      <4> HIDE DEF new
      <4>2. Len(readBuffer') = Len(readBuffer) + Len(new)
        BY <2>0, <4>1, SeqConcat
      <4> QED
        BY <4>1, <4>2
    <3>5. Beyond(length', pos') = m - n /\ m - n \in Nat
      BY <2>0, <3>1, <3>2 DEF Beyond
    <3>6. ReaderRank' = 4 * (m - n) + 3 * (lr + n) + 2
      BY <3>1, <3>4, <3>5 DEF ReaderRank
    <3>7. ReaderRank = 4 * m + 3 * lr + 2
      BY <3>1 DEF ReaderRank
    <3> HIDE DEF m, lr
    <3> QED
      BY <2>0, <3>1, <3>2, <3>5, <3>6, <3>7
  <2>2. CASE EndRead
    <3>1. /\ pc = "read" /\ pc' = "cut" /\ UNCHANGED <<length, resizes, pos>>
          /\ readBuffer' = <<>> /\ Len(readBuffer') = 0
      BY <2>2 DEF EndRead
    <3>2. ReaderRank = 4 * m + 3 * lr + 2
      BY <3>1 DEF ReaderRank
    <3>3. CASE readBuffer = <<>>
      <4>1. atEof' /\ lr = 0
        BY <2>2, <3>3 DEF EndRead, EmptyBlock
      <4>2. ReaderRank' = 4 * m + 3 * 0 + 1
        BY <3>1, <4>1 DEF ReaderRank
      <4> HIDE DEF m, lr
      <4> QED
        BY <2>0, <3>1, <3>2, <4>1, <4>2
    <3>4. CASE readBuffer # <<>>
      <4>0. lr > 0
        <5>1. lr \in Nat \ {0}
          BY <2>0, <3>4, EmptySeq
        <5> HIDE DEF lr
        <5> QED
          BY <5>1
      <4>1. ~atEof'
        BY <2>2, <3>4 DEF EndRead, EmptyBlock
      <4>2. ReaderRank' = 4 * m + 3 * 0 + 3
        BY <3>1, <4>1 DEF ReaderRank
      <4> HIDE DEF m, lr
      <4> QED
        BY <2>0, <3>1, <3>2, <4>0, <4>2
    <3> QED
      BY <3>3, <3>4
  <2>3. CASE NoCut \/ Yield
    <3>1. pc = "cut" /\ UNCHANGED <<length, resizes, pos, readBuffer, atEof>>
      BY <2>3 DEF NoCut, Yield, readVars
    <3>2. CASE atEof
      <4>1. pc' = "done"
        <5>1. CASE NoCut
          BY <3>2, <5>1 DEF NoCut
        <5>2. CASE Yield
          <6>1. ReaderStrongInv'
            BY <1>2, <5>2, YieldKeeps
          <6>2. pc' \in {"read", "done"} /\ atEof'
            BY <3>1, <3>2, <5>2 DEF Yield
          <6> QED
            BY <6>1, <6>2 DEF ReaderStrongInv, ReaderPlace
        <5> QED
          BY <2>3, <5>1, <5>2
      <4>2. ReaderRank = 4 * m + 3 * lr + 1 /\ ReaderRank' = 4 * m + 3 * lr + 0
        BY <3>1, <3>2, <4>1 DEF ReaderRank
      <4> HIDE DEF m, lr
      <4> QED
        BY <2>0, <3>1, <4>2
    <3>3. CASE ~atEof
      <4>1. pc' = "read"
        BY <2>3, <3>3 DEF NoCut, Yield
      <4>2. ReaderRank = 4 * m + 3 * lr + 3 /\ ReaderRank' = 4 * m + 3 * lr + 2
        BY <3>1, <3>3, <4>1 DEF ReaderRank
      <4> HIDE DEF m, lr
      <4> QED
        BY <2>0, <3>1, <4>2
    <3> QED
      BY <3>2, <3>3
  <2>4. CASE ReadFails
    <3>1. /\ pc = "read" /\ pc' = "failed"
          /\ UNCHANGED <<length, resizes, pos, readBuffer>>
      BY <2>4 DEF ReadFails, readVars
    <3>2. ReaderRank = 4 * m + 3 * lr + 2 /\ ReaderRank' = 4 * m + 3 * lr + 0
      BY <3>1 DEF ReaderRank
    <3> HIDE DEF m, lr
    <3> QED
      BY <2>0, <3>1, <3>2
  <2>5. ASSUME NEW n \in 0 .. MaxLength, Resize(n)
        PROVE  /\ resizes' # resizes
               /\ ReaderRank' <= ReaderRank + 4 * Beyond(length', length)
    <3>1. resizes' = resizes + 1 /\ UNCHANGED <<pc, pos, readBuffer, atEof>>
          /\ length' \in Nat
      BY <2>5 DEF Resize, readVars
    <3>2. resizes \in Nat
      BY <1>2, LengthAssumption DEF ReaderStrongInv, ReaderTypeOK
    <3> DEFINE k == Beyond(length', pos)
               g == Beyond(length', length)
    <3>3. k \in Nat /\ g \in Nat /\ k <= m + g
      BY <2>0, <3>1, BeyondGrows
    <3>4. PICK w \in 0 .. 3 :
            ReaderRank = 4 * m + 3 * lr + w /\ ReaderRank' = 4 * k + 3 * lr + w
      BY <3>1 DEF ReaderRank
    <3> HIDE DEF m, lr, k
    <3>5. ReaderRank' <= ReaderRank + 4 * g
      <4> HIDE DEF g
      <4> QED
        BY <2>0, <3>3, <3>4
    <3> QED
      BY <3>1, <3>2, <3>5
  <2> QED
    BY <2>1, <2>2, <2>3, <2>4, <2>5 DEF ReaderNext
<1> QED
  BY <1>1, <1>2, ReaderInvariant, PTL DEF ReaderSpec, ReaderAdvances

----------------------------------------------------------------------------
(* Debounce *)

\* A nonempty set of numbers has a smallest element.
LEMMA SmallestOf ==
  ASSUME NEW S \in SUBSET Nat, S # {}
  PROVE  \E n \in S : \A m \in S : n <= m
<1> DEFINE R == OpToRel(<, Nat)
<1>1. PICK n \in S : \A m \in S : ~(<<m, n>> \in R)
  <2>1. IsWellFoundedOn(R, Nat)
    BY NatLessThanWellFounded
  <2> HIDE DEF R
  <2> QED
    BY <2>1, WFMin
<1>2. \A m \in S : <<m, n>> \in R <=> m < n
  BY DEF OpToRel
<1> HIDE DEF R
<1>3. ASSUME NEW m \in S PROVE n <= m
  <2>1. m \in Nat /\ n \in Nat
    OBVIOUS
  <2>2. ~(m < n)
    BY <1>1, <1>2
  <2> QED
    BY <2>1, <2>2
<1> QED
  BY <1>3

\* RemoveAt drops one element and closes the gap.
LEMMA RemoveAtProperties ==
  ASSUME NEW S, NEW s \in Seq(S), NEW i \in 1 .. Len(s)
  PROVE  /\ RemoveAt(s, i) \in Seq(S)
         /\ Len(RemoveAt(s, i)) = Len(s) - 1
         /\ \A j \in 1 .. (Len(s) - 1) :
              RemoveAt(s, i)[j] = IF j < i THEN s[j] ELSE s[j + 1]
<1> DEFINE front == SubSeq(s, 1, i - 1)
           back == SubSeq(s, i + 1, Len(s))
<1>1. /\ front \in Seq(S) /\ Len(front) = i - 1
      /\ \A j \in 1 .. (i - 1) : front[j] = s[j]
  OBVIOUS
<1>2. /\ back \in Seq(S) /\ Len(back) = Len(s) - i
      /\ \A j \in 1 .. (Len(s) - i) : back[j] = s[i + j]
  OBVIOUS
<1>3. RemoveAt(s, i) = front \o back
  BY DEF RemoveAt
<1> HIDE DEF front, back
<1>4. /\ front \o back \in Seq(S) /\ Len(front \o back) = Len(s) - 1
      /\ \A j \in 1 .. (Len(s) - 1) :
           (front \o back)[j] = IF j <= i - 1 THEN front[j] ELSE back[j - (i - 1)]
  BY <1>1, <1>2, ConcatProperties
<1>5. ASSUME NEW j \in 1 .. (Len(s) - 1)
      PROVE  (front \o back)[j] = IF j < i THEN s[j] ELSE s[j + 1]
  <2>1. CASE j < i
    BY <1>1, <1>4, <2>1
  <2>2. CASE j >= i
    <3>1. j - (i - 1) \in 1 .. (Len(s) - i) /\ i + (j - (i - 1)) = j + 1
          /\ ~(j <= i - 1) /\ ~(j < i)
      BY <2>2
    <3>2. (front \o back)[j] = back[j - (i - 1)]
      BY <1>4, <3>1
    <3>3. back[j - (i - 1)] = s[i + (j - (i - 1))]
      BY <1>2, <3>1
    <3> QED
      BY <3>1, <3>2, <3>3
  <2>3. j < i \/ j >= i
    OBVIOUS
  <2> QED
    BY <2>1, <2>2, <2>3
<1> QED
  BY <1>3, <1>4, <1>5

Entry == [key : Keys, at : 0 .. clock]

\* What the debouncer remembers of a key is the time of its last emission.
RemembersEmission ==
  \A i \in DOMAIN lastSeen : emitted[lastSeen[i].key] = lastSeen[i].at

DebounceInv ==
  /\ DebounceTypeOK
  /\ call \in [Threads -> [key : Keys, now : 0 .. clock] \union {NoCall}]
  /\ RemembersEmission

\* _evict_stale keeps the rest of the dictionary from some entry on, as it is.
LEMMA EvictStaleProperties ==
  ASSUME NEW S, NEW seen \in Seq(S), NEW now
  PROVE  /\ EvictStale(seen, now) \in Seq(S)
         /\ \E d \in Nat : \A i \in DOMAIN EvictStale(seen, now) :
              i + d \in DOMAIN seen /\ EvictStale(seen, now)[i] = seen[i + d]
<1>1. CASE Fresh(seen, now) = {}
  <2>1. EvictStale(seen, now) = <<>>
    BY <1>1 DEF EvictStale
  <2> QED
    BY <2>1
<1>2. CASE Fresh(seen, now) # {}
  <2> DEFINE F == Fresh(seen, now)
             first == CHOOSE i \in F : \A j \in F : i <= j
  <2>1. F \in SUBSET Nat /\ F \subseteq DOMAIN seen
    BY DEF Fresh
  <2>2. \E i \in F : \A j \in F : i <= j
    <3> HIDE DEF F
    <3> QED
      BY <1>2, <2>1, SmallestOf DEF F
  <2>3. first \in DOMAIN seen
    BY <2>1, <2>2
  <2>4. EvictStale(seen, now) = SubSeq(seen, first, Len(seen))
    BY <1>2 DEF EvictStale
  <2> HIDE DEF first
  <2>5. /\ SubSeq(seen, first, Len(seen)) \in Seq(S)
        /\ Len(SubSeq(seen, first, Len(seen))) = Len(seen) - first + 1
        /\ \A i \in 1 .. (Len(seen) - first + 1) :
             SubSeq(seen, first, Len(seen))[i] = seen[first + i - 1]
    BY <2>3
  <2>6. first - 1 \in Nat
    BY <2>3
  <2>7. ASSUME NEW i \in DOMAIN EvictStale(seen, now)
        PROVE  i + (first - 1) \in DOMAIN seen
                 /\ EvictStale(seen, now)[i] = seen[i + (first - 1)]
    <3>1. i \in 1 .. (Len(seen) - first + 1)
      BY <2>4, <2>5
    <3>2. i + (first - 1) = first + i - 1 /\ i + (first - 1) \in 1 .. Len(seen)
      BY <2>3, <3>1
    <3> QED
      BY <2>4, <2>5, <3>1, <3>2
  <2> QED
    BY <2>4, <2>5, <2>6, <2>7
<1> QED
  BY <1>1, <1>2

\* A dictionary with one entry for a key still has one when the key is set and
\* moved to the end, and its other entries stay.
LEMMA RecordProperties ==
  ASSUME NEW S, NEW seen \in Seq(S), NEW k, NEW now, [key |-> k, at |-> now] \in S,
         \A i, j \in DOMAIN seen : seen[i].key = seen[j].key => i = j
  PROVE  LET r == Record(seen, k, now) IN
         /\ r \in Seq(S)
         /\ \A i, j \in DOMAIN r : r[i].key = r[j].key => i = j
         /\ \A i \in DOMAIN r :
              \/ r[i] = [key |-> k, at |-> now]
              \/ \E j \in DOMAIN seen : r[i] = seen[j] /\ seen[j].key # k
<1> DEFINE e == [key |-> k, at |-> now]
           at == {i \in DOMAIN seen : seen[i].key = k}
           others == IF at = {} THEN seen ELSE RemoveAt(seen, CHOOSE i \in at : TRUE)
           r == Record(seen, k, now)
<1>1. e.key = k
  OBVIOUS
<1>2. r = Append(others, e)
  BY DEF Record
<1>3. /\ others \in Seq(S)
      /\ \A i, j \in DOMAIN others : others[i].key = others[j].key => i = j
      /\ \A i \in DOMAIN others :
           \E j \in DOMAIN seen : others[i] = seen[j] /\ seen[j].key # k
  <2>1. CASE at = {}
    <3>1. others = seen
      BY <2>1
    <3>2. \A i \in DOMAIN seen : seen[i].key # k
      BY <2>1
    <3> HIDE DEF others
    <3> QED
      BY <3>1, <3>2
  <2>2. CASE at # {}
    <3> DEFINE x == CHOOSE i \in at : TRUE
    <3>1. x \in at
      BY <2>2
    <3>2. others = RemoveAt(seen, x)
      BY <2>2
    <3>3. x \in 1 .. Len(seen) /\ \A i \in 1 .. Len(seen) : i # x => seen[i].key # k
      BY <3>1
    <3> HIDE DEF x, others, at
    <3>4. /\ others \in Seq(S) /\ Len(others) = Len(seen) - 1
          /\ \A j \in 1 .. (Len(seen) - 1) :
               others[j] = IF j < x THEN seen[j] ELSE seen[j + 1]
      BY <3>2, <3>3, RemoveAtProperties
    <3> DEFINE f(j) == IF j < x THEN j ELSE j + 1
    <3>5. \A j \in DOMAIN others :
            f(j) \in 1 .. Len(seen) /\ f(j) # x /\ others[j] = seen[f(j)]
      BY <3>3, <3>4
    <3>6. \A i, j \in DOMAIN others : f(i) = f(j) => i = j
      BY <3>3, <3>4
    <3> HIDE DEF f
    <3>7. \A i, j \in DOMAIN others : others[i].key = others[j].key => f(i) = f(j)
      BY <3>5
    <3> QED
      BY <3>3, <3>4, <3>5, <3>6, <3>7
  <2> QED
    BY <2>1, <2>2
<1> HIDE DEF others, e
<1>4. /\ r \in Seq(S) /\ Len(r) = Len(others) + 1
      /\ DOMAIN r = 1 .. (Len(others) + 1) /\ DOMAIN others = 1 .. Len(others)
      /\ r[Len(others) + 1] = e
      /\ \A i \in 1 .. Len(others) : r[i] = others[i]
      /\ Len(others) \in Nat
  <2>1. e \in S
    BY DEF e
  <2> QED
    BY <1>2, <1>3, <2>1, AppendProperties, LenProperties
<1> HIDE DEF r
<1>5. ASSUME NEW i \in DOMAIN r
      PROVE  \/ r[i] = e /\ i = Len(others) + 1
             \/ i \in DOMAIN others /\ r[i] = others[i]
  BY <1>4
<1>6. \A i \in DOMAIN others : others[i].key # k
  BY <1>3
<1>7. \A i, j \in DOMAIN r : r[i].key = r[j].key => i = j
  BY <1>1, <1>3, <1>5, <1>6
<1>8. \A i \in DOMAIN r :
        \/ r[i] = e
        \/ \E j \in DOMAIN seen : r[i] = seen[j] /\ seen[j].key # k
  BY <1>3, <1>5
<1> QED
  BY <1>4, <1>7, <1>8 DEF r, e

\* What _evict_stale leaves of the debouncer's dictionary.
LEMMA EvictKeeps ==
  ASSUME DebounceInv, NEW now
  PROVE  LET e == EvictStale(lastSeen, now) IN
         /\ e \in Seq(Entry)
         /\ \A i, j \in DOMAIN e : e[i].key = e[j].key => i = j
         /\ \A i \in DOMAIN e : emitted[e[i].key] = e[i].at
<1> DEFINE e == EvictStale(lastSeen, now)
<1>1. /\ lastSeen \in Seq(Entry)
      /\ \A i, j \in DOMAIN lastSeen : lastSeen[i].key = lastSeen[j].key => i = j
  BY DEF DebounceInv, DebounceTypeOK, Entry
<1>2. e \in Seq(Entry)
  BY <1>1, EvictStaleProperties
<1>3. PICK d \in Nat : \A i \in DOMAIN e :
        i + d \in DOMAIN lastSeen /\ e[i] = lastSeen[i + d]
  BY <1>1, EvictStaleProperties
<1> HIDE DEF e
<1>4. ASSUME NEW i \in DOMAIN e, NEW j \in DOMAIN e, e[i].key = e[j].key
      PROVE  i = j
  <2>1. i + d = j + d
    BY <1>1, <1>3, <1>4
  <2> QED
    BY <1>2, <2>1
<1>5. \A i \in DOMAIN e : emitted[e[i].key] = e[i].at
  BY <1>3 DEF DebounceInv, RemembersEmission
<1> QED
  BY <1>2, <1>4, <1>5 DEF e

\* A thread reads the clock.
LEMMA ReadClockKeeps ==
  ASSUME DebounceInv, NEW t \in Threads, NEW k \in Keys, ReadClock(t, k)
  PROVE  DebounceInv'
<1>1. /\ call' = [call EXCEPT ![t] = [key |-> k, now |-> clock]]
      /\ UNCHANGED <<clock, lastSeen, emitted>>
  BY DEF ReadClock
<1>2. clock \in 0 .. clock
  BY MaxTimeAssumption DEF DebounceInv, DebounceTypeOK
<1>3. call' \in [Threads -> [key : Keys, now : 0 .. clock'] \union {NoCall}]
  BY <1>1, <1>2 DEF DebounceInv
<1>4. \A u \in Threads : call'[u] # NoCall =>
        call'[u].key \in Keys /\ call'[u].now \in 0 .. clock'
  BY <1>3
<1>5. DebounceTypeOK' /\ RemembersEmission'
  BY <1>1, <1>4 DEF DebounceInv, DebounceTypeOK, RemembersEmission
<1> QED
  BY <1>3, <1>5 DEF DebounceInv

\* A call of should_emit ends: the thread is free again.
LEMMA CallEnds ==
  ASSUME DebounceInv, NEW t \in Threads, call' = [call EXCEPT ![t] = NoCall],
         clock' = clock
  PROVE  /\ call' \in [Threads -> [key : Keys, now : 0 .. clock'] \union {NoCall}]
         /\ \A u \in Threads : call'[u] # NoCall =>
              call'[u].key \in Keys /\ call'[u].now \in 0 .. clock'
<1>1. call' \in [Threads -> [key : Keys, now : 0 .. clock'] \union {NoCall}]
  BY DEF DebounceInv
<1> QED
  BY <1>1

\* should_emit returns False.
LEMMA SuppressKeeps ==
  ASSUME DebounceInv, NEW t \in Threads, Suppress(t)
  PROVE  DebounceInv'
<1>1. /\ lastSeen' = EvictStale(lastSeen, call[t].now)
      /\ call' = [call EXCEPT ![t] = NoCall] /\ UNCHANGED <<clock, emitted>>
  BY DEF Suppress
<1>2. /\ call' \in [Threads -> [key : Keys, now : 0 .. clock'] \union {NoCall}]
      /\ \A u \in Threads : call'[u] # NoCall =>
           call'[u].key \in Keys /\ call'[u].now \in 0 .. clock'
  BY <1>1, CallEnds
<1>3. /\ lastSeen' \in Seq(Entry)
      /\ \A i, j \in DOMAIN lastSeen' : lastSeen'[i].key = lastSeen'[j].key => i = j
      /\ \A i \in DOMAIN lastSeen' : emitted[lastSeen'[i].key] = lastSeen'[i].at
  BY <1>1, EvictKeeps
<1>4. Entry' = Entry
  BY <1>1 DEF Entry
<1>5. DebounceTypeOK'
  BY <1>1, <1>2, <1>3, <1>4 DEF DebounceInv, DebounceTypeOK, Entry
<1>6. RemembersEmission'
  BY <1>1, <1>3 DEF RemembersEmission
<1> QED
  BY <1>2, <1>5, <1>6 DEF DebounceInv

\* should_emit returns True: the entry of the key is its emission.
LEMMA EmitKeeps ==
  ASSUME DebounceInv, NEW t \in Threads, Emit(t)
  PROVE  DebounceInv'
<1> DEFINE k == call[t].key
           now == call[t].now
           seen == EvictStale(lastSeen, now)
           r == Record(seen, k, now)
<1>1. /\ call[t] # NoCall /\ lastSeen' = r
      /\ emitted' = [emitted EXCEPT ![k] = now]
      /\ call' = [call EXCEPT ![t] = NoCall] /\ clock' = clock
  BY DEF Emit
<1>2. /\ call' \in [Threads -> [key : Keys, now : 0 .. clock'] \union {NoCall}]
      /\ \A u \in Threads : call'[u] # NoCall =>
           call'[u].key \in Keys /\ call'[u].now \in 0 .. clock'
  BY <1>1, CallEnds
<1>3. k \in Keys /\ now \in 0 .. clock /\ [key |-> k, at |-> now] \in Entry
  BY <1>1 DEF DebounceInv, DebounceTypeOK, Entry
<1>4. /\ seen \in Seq(Entry)
      /\ \A i, j \in DOMAIN seen : seen[i].key = seen[j].key => i = j
      /\ \A i \in DOMAIN seen : emitted[seen[i].key] = seen[i].at
  BY EvictKeeps
<1> HIDE DEF k, now, seen
<1>5. /\ r \in Seq(Entry)
      /\ \A i, j \in DOMAIN r : r[i].key = r[j].key => i = j
      /\ \A i \in DOMAIN r :
           \/ r[i] = [key |-> k, at |-> now]
           \/ \E j \in DOMAIN seen : r[i] = seen[j] /\ seen[j].key # k
  BY <1>3, <1>4, RecordProperties
<1> HIDE DEF r
<1>6. emitted \in [Keys -> (0 .. clock) \union {Never}]
  BY DEF DebounceInv, DebounceTypeOK
<1>7. emitted' \in [Keys -> (0 .. clock') \union {Never}]
  BY <1>1, <1>3, <1>6
<1>8. DebounceTypeOK'
  BY <1>1, <1>2, <1>5, <1>7 DEF DebounceInv, DebounceTypeOK, Entry
<1>9. RemembersEmission'
  <2> SUFFICES ASSUME NEW i \in DOMAIN r PROVE emitted'[r[i].key] = r[i].at
    BY <1>1 DEF RemembersEmission
  <2>1. CASE r[i] = [key |-> k, at |-> now]
    BY <1>1, <1>3, <1>6, <2>1
  <2>2. ASSUME NEW j \in DOMAIN seen, r[i] = seen[j], seen[j].key # k
        PROVE  emitted'[r[i].key] = r[i].at
    <3> DEFINE x == seen[j].key
    <3>0. seen[j] \in Entry
      BY <1>4
    <3>1. x \in Keys /\ x # k
      BY <2>2, <3>0 DEF Entry
    <3>2. emitted[x] = r[i].at /\ r[i].key = x
      BY <1>4, <2>2
    <3> HIDE DEF x
    <3>3. emitted'[x] = emitted[x]
      BY <1>1, <1>6, <3>1
    <3> QED
      BY <3>2, <3>3
  <2> QED
    BY <1>5, <2>1, <2>2
<1> QED
  BY <1>2, <1>8, <1>9 DEF DebounceInv

\* Time passes.
LEMMA TickKeeps ==
  ASSUME DebounceInv, Tick
  PROVE  DebounceInv'
<1>1. /\ clock < MaxTime /\ clock' = clock + 1
      /\ UNCHANGED <<lastSeen, call, emitted>>
  BY DEF Tick
<1>2. clock \in Nat /\ clock' \in 0 .. MaxTime /\ 0 .. clock \subseteq 0 .. clock'
  BY <1>1, MaxTimeAssumption DEF DebounceInv, DebounceTypeOK
<1>3. lastSeen' \in Seq(Entry')
  <2>1. Entry \subseteq Entry'
    BY <1>2 DEF Entry
  <2>2. lastSeen \in Seq(Entry)
    BY DEF DebounceInv, DebounceTypeOK, Entry
  <2> QED
    BY <1>1, <2>1, <2>2, SeqMonotonic
<1>4. call' \in [Threads -> [key : Keys, now : 0 .. clock'] \union {NoCall}]
  BY <1>1, <1>2 DEF DebounceInv
<1>5. \A u \in Threads : call'[u] # NoCall =>
        call'[u].key \in Keys /\ call'[u].now \in 0 .. clock'
  BY <1>4
<1>6. emitted' \in [Keys -> (0 .. clock') \union {Never}]
  BY <1>1, <1>2 DEF DebounceInv, DebounceTypeOK
<1>7. DebounceTypeOK' /\ RemembersEmission'
  BY <1>1, <1>2, <1>3, <1>5, <1>6
     DEF DebounceInv, DebounceTypeOK, RemembersEmission, Entry
<1> QED
  BY <1>4, <1>7 DEF DebounceInv

\* An answer False rests on an emission less than a window before.
LEMMA SuppressionJustified ==
  ASSUME DebounceInv, NEW t \in Threads, Suppressed(t)
  PROVE  /\ emitted[call[t].key] # Never
         /\ call[t].now - emitted[call[t].key] < Window
<1> DEFINE k == call[t].key
           now == call[t].now
           seen == EvictStale(lastSeen, now)
<1>1. PICK i \in DOMAIN seen : now - seen[i].at < Window /\ seen[i].key = k
  BY DEF Suppressed, IsRepeat, Fresh
<1>2. emitted[seen[i].key] = seen[i].at /\ seen[i] \in Entry
  BY EvictKeeps
<1> HIDE DEF k, now, seen
<1>3. emitted[k] = seen[i].at /\ seen[i].at \in Int
  BY <1>1, <1>2 DEF Entry
<1>4. emitted[k] # Never /\ now - emitted[k] < Window
  BY <1>1, <1>3, NeverAssumption
<1> QED
  BY <1>4 DEF k, now

----------------------------------------------------------------------------
(* FileWatcher *)

Task == [key : Keys, list : Seq(Observers), at : Nat,
         called : SUBSET Observers, steady : SUBSET Observers]

\* A notification that has begun goes through a list on which everyone is who
\* has been subscribed since, and has called its observers up to the place
\* where it is.
Told(n) ==
  n.at > 0 =>
    /\ \A o \in n.steady : \E j \in DOMAIN n.list : n.list[j] = o
    /\ \A j \in DOMAIN n.list : j <= n.at => n.list[j] \in n.called

TasksInv == tasks \in Seq(Task) /\ \A i \in DOMAIN tasks : Told(tasks[i])

WatcherStrongInv ==
  /\ DebounceInv
  /\ WatcherTypeOK
  /\ started \in 0 .. MaxStarts
  /\ TasksInv

\* A list without repetitions has none after an observer is added or removed.
LEMMA ObserverLists ==
  ASSUME NEW s \in Seq(Observers), NEW o \in Observers,
         \A i, j \in DOMAIN s : s[i] = s[j] => i = j
  PROVE  /\ WithObserver(s, o) \in Seq(Observers)
         /\ \A i, j \in DOMAIN WithObserver(s, o) :
              WithObserver(s, o)[i] = WithObserver(s, o)[j] => i = j
         /\ WithoutObserver(s, o) \in Seq(Observers)
         /\ \A i, j \in DOMAIN WithoutObserver(s, o) :
              WithoutObserver(s, o)[i] = WithoutObserver(s, o)[j] => i = j
<1>1. /\ WithObserver(s, o) \in Seq(Observers)
      /\ \A i, j \in DOMAIN WithObserver(s, o) :
           WithObserver(s, o)[i] = WithObserver(s, o)[j] => i = j
  <2>1. CASE \E i \in DOMAIN s : s[i] = o
    BY <2>1 DEF WithObserver
  <2>2. CASE \A i \in DOMAIN s : s[i] # o
    <3>1. WithObserver(s, o) = Append(s, o)
      BY <2>2 DEF WithObserver
    <3>2. /\ Append(s, o) \in Seq(Observers) /\ Len(s) \in Nat
          /\ DOMAIN Append(s, o) = 1 .. (Len(s) + 1) /\ DOMAIN s = 1 .. Len(s)
          /\ Append(s, o)[Len(s) + 1] = o
          /\ \A i \in 1 .. Len(s) : Append(s, o)[i] = s[i]
      OBVIOUS
    <3>3. \A i \in 1 .. (Len(s) + 1) : i \in 1 .. Len(s) \/ i = Len(s) + 1
      BY <3>2
    <3> QED
      BY <2>2, <3>1, <3>2, <3>3
  <2> QED
    BY <2>1, <2>2
<1>2. /\ WithoutObserver(s, o) \in Seq(Observers)
      /\ \A i, j \in DOMAIN WithoutObserver(s, o) :
           WithoutObserver(s, o)[i] = WithoutObserver(s, o)[j] => i = j
  <2> DEFINE at == {i \in DOMAIN s : s[i] = o}
             x == CHOOSE i \in at : TRUE
             w == WithoutObserver(s, o)
  <2>1. CASE at = {}
    <3>1. w = s
      BY <2>1 DEF WithoutObserver
    <3> QED
      BY <3>1
  <2>2. CASE at # {}
    <3>1. x \in 1 .. Len(s) /\ w = RemoveAt(s, x)
      BY <2>2 DEF WithoutObserver
    <3> HIDE DEF at, x, w
    <3>2. /\ w \in Seq(Observers) /\ Len(w) = Len(s) - 1
          /\ \A j \in 1 .. (Len(s) - 1) : w[j] = IF j < x THEN s[j] ELSE s[j + 1]
      BY <3>1, RemoveAtProperties
    <3> DEFINE f(j) == IF j < x THEN j ELSE j + 1
    <3>3. \A j \in DOMAIN w : f(j) \in 1 .. Len(s) /\ w[j] = s[f(j)]
      BY <3>1, <3>2
    <3>4. \A i, j \in DOMAIN w : f(i) = f(j) => i = j
      BY <3>1, <3>2
    <3> HIDE DEF f
    <3>5. \A i, j \in DOMAIN w : w[i] = w[j] => f(i) = f(j)
      BY <3>3
    <3>6. \A i, j \in DOMAIN w : w[i] = w[j] => i = j
      BY <3>4, <3>5
    <3> QED
      BY <3>2, <3>6 DEF w
  <2> QED
    BY <2>1, <2>2
<1> QED
  BY <1>1, <1>2

\* The task goes on to position i of its list.
LEMMA AdvanceTells ==
  ASSUME NEW n \in Task, NEW i \in Nat \ {0},
         \A o \in n.steady : \E j \in DOMAIN n.list : n.list[j] = o,
         \A j \in DOMAIN n.list : j < i => n.list[j] \in n.called
  PROVE  Advance(n, i) \in Task /\ Told(Advance(n, i))
<1> DEFINE m == Advance(n, i)
<1>1. /\ n.list \in Seq(Observers) /\ Len(n.list) \in Nat
      /\ DOMAIN n.list = 1 .. Len(n.list)
  BY DEF Task
<1>2. /\ m = [n EXCEPT !.at = i,
              !.called = IF i <= Len(n.list) THEN @ \union {n.list[i]} ELSE @]
  BY DEF Advance, Listeners
<1>3. i <= Len(n.list) => n.list[i] \in Observers
  BY <1>1
<1>4. /\ m.key = n.key /\ m.list = n.list /\ m.steady = n.steady /\ m.at = i
      /\ m.called = IF i <= Len(n.list) THEN n.called \union {n.list[i]} ELSE n.called
  BY <1>2 DEF Task
<1>5. m \in Task
  <2>1. (IF i <= Len(n.list) THEN n.called \union {n.list[i]} ELSE n.called)
          \in SUBSET Observers
    BY <1>3 DEF Task
  <2> QED
    BY <1>2, <2>1 DEF Task
<1> HIDE DEF m
<1>6. ASSUME NEW j \in DOMAIN m.list, j <= m.at PROVE m.list[j] \in m.called
  <2>1. j \in Nat /\ j \in DOMAIN n.list /\ j <= i /\ m.list[j] = n.list[j]
    BY <1>1, <1>4, <1>6
  <2>2. CASE j < i
    BY <1>4, <2>1, <2>2
  <2>3. CASE j = i
    BY <1>1, <1>4, <2>1, <2>3
  <2> QED
    BY <2>1, <2>2, <2>3
<1>7. \A o \in m.steady : \E j \in DOMAIN m.list : m.list[j] = o
  BY <1>4
<1>8. Told(m)
  BY <1>6, <1>7 DEF Told
<1> QED
  BY <1>5, <1>8 DEF m

\* The debouncer's own steps, and what leaves it alone.
LEMMA WatcherDebounce ==
  ASSUME WatcherStrongInv, [WatcherNext]_allWatcherVars
  PROVE  DebounceInv'
<1>1. DebounceInv /\ raw \in [Threads -> Seq(Keys)]
  BY DEF WatcherStrongInv, WatcherTypeOK
<1>2. CASE UNCHANGED debounceVars
  BY <1>1, <1>2 DEF debounceVars, DebounceInv, DebounceTypeOK, RemembersEmission
<1>3. ASSUME NEW t \in Threads, TakeEvent(t) PROVE DebounceInv'
  <2>1. Head(raw[t]) \in Keys /\ ReadClock(t, Head(raw[t]))
    BY <1>1, <1>3 DEF TakeEvent
  <2> QED
    BY <1>1, <2>1, ReadClockKeeps
<1>4. ASSUME NEW t \in Threads, SkipEvent(t) PROVE DebounceInv'
  BY <1>1, <1>4, SuppressKeeps DEF SkipEvent
<1>5. ASSUME NEW t \in Threads, DispatchEvent(t) PROVE DebounceInv'
  BY <1>1, <1>5, EmitKeeps DEF DispatchEvent
<1>6. CASE Tick
  BY <1>1, <1>6, TickKeeps
<1>7. CASE StartWatcher \/ StartWatcherFails \/ StopWatcher
  BY <1>2, <1>7 DEF StartWatcher, StartWatcherFails, StopWatcher
<1>8. ASSUME NEW t \in Threads, ThreadEnds(t) \/ JoinEnds(t) PROVE DebounceInv'
  BY <1>2, <1>8 DEF ThreadEnds, JoinEnds
<1>9. ASSUME NEW k \in Keys, Change(k) PROVE DebounceInv'
  BY <1>2, <1>9 DEF Change
<1>10. ASSUME NEW i \in DOMAIN tasks, BeginNotify(i) \/ ObserverDone(i)
       PROVE  DebounceInv'
  BY <1>2, <1>10 DEF BeginNotify, ObserverDone
<1>11. ASSUME NEW o \in Observers, Subscribe(o) \/ Unsubscribe(o)
       PROVE  DebounceInv'
  BY <1>2, <1>11 DEF Subscribe, Unsubscribe
<1>12. CASE UNCHANGED allWatcherVars
  BY <1>2, <1>12 DEF allWatcherVars
<1> QED
  BY <1>3, <1>4, <1>5, <1>6, <1>7, <1>8, <1>9, <1>10, <1>11, <1>12
     DEF WatcherNext

\* Threads, queues and observers: the flags agree with the threads and nobody
\* is registered twice, whatever the interleaving.
LEMMA WatcherTypes ==
  ASSUME WatcherStrongInv, [WatcherNext]_allWatcherVars
  PROVE  WatcherTypeOK' /\ started' \in 0 .. MaxStarts
<1> DEFINE Threading(r, h, s, a, j) ==
             /\ r \in BOOLEAN /\ h \in BOOLEAN
             /\ a \subseteq 1 .. s /\ j \subseteq 1 .. s
             /\ r => h /\ s \in a
             /\ s \in 0 .. MaxStarts
           Listing(l) == /\ l \in Seq(Observers)
                         /\ \A i, j \in DOMAIN l : l[i] = l[j] => i = j
<1>0. /\ Threading(running, hasLoop, started, alive, joining) /\ Listing(subscribed)
      /\ raw \in [Threads -> Seq(Keys)] /\ unseen \subseteq Keys
  BY DEF WatcherStrongInv, WatcherTypeOK
<1>1. DebounceTypeOK'
  BY WatcherDebounce DEF DebounceInv
<1> SUFFICES /\ Threading(running', hasLoop', started', alive', joining')
             /\ Listing(subscribed')
             /\ raw' \in [Threads -> Seq(Keys)] /\ unseen' \subseteq Keys
  BY <1>1 DEF WatcherTypeOK
<1>2. CASE UNCHANGED allWatcherVars
  <2>1. UNCHANGED <<running, hasLoop, started, alive, joining, subscribed, raw, unseen>>
    BY <1>2 DEF allWatcherVars, watcherVars, taskVars
  <2> QED
    BY <1>0, <2>1
<1>3. CASE StartWatcher
  <2>1. UNCHANGED <<subscribed, raw, unseen, joining>>
    BY <1>3 DEF StartWatcher, taskVars
  <2>2. /\ running' \in BOOLEAN /\ hasLoop' \in BOOLEAN /\ hasLoop'
        /\ started < MaxStarts
        /\ started' = started + 1 /\ alive' = alive \union {started + 1}
    BY <1>3 DEF StartWatcher
  <2>3. /\ started \in Nat /\ alive \subseteq 1 .. started
        /\ joining \subseteq 1 .. started
    BY <1>0
  <2>4. started' \in 0 .. MaxStarts
    BY <2>2, <2>3, WatcherBoundsAssumption
  <2>5. alive' \subseteq 1 .. started' /\ joining' \subseteq 1 .. started'
    BY <2>1, <2>2, <2>3
  <2>6. started' \in alive'
    BY <2>2
  <2>7. Threading(running', hasLoop', started', alive', joining')
    BY <2>2, <2>4, <2>5, <2>6
  <2> QED
    BY <1>0, <2>1, <2>7
<1>4. CASE StartWatcherFails
  <2>1. UNCHANGED <<subscribed, raw, unseen, joining, running, started, alive>>
    BY <1>4 DEF StartWatcherFails, taskVars
  <2>2. hasLoop' \in BOOLEAN /\ hasLoop'
    BY <1>4 DEF StartWatcherFails
  <2>3. Threading(running', hasLoop', started', alive', joining')
    BY <1>0, <2>1, <2>2
  <2> QED
    BY <1>0, <2>1, <2>3
<1>5. CASE StopWatcher
  <2>1. UNCHANGED <<subscribed, raw, started, alive>> /\ unseen' = {}
    BY <1>5 DEF StopWatcher
  <2>2. /\ running' \in BOOLEAN /\ hasLoop' \in BOOLEAN /\ ~running'
        /\ running /\ joining' = joining \union {started}
    BY <1>5 DEF StopWatcher
  <2>3. joining' \subseteq 1 .. started'
    BY <1>0, <2>1, <2>2
  <2>4. Threading(running', hasLoop', started', alive', joining')
    BY <1>0, <2>1, <2>2, <2>3
  <2> QED
    BY <1>0, <2>1, <2>4
<1>6. ASSUME NEW t \in Threads, ThreadEnds(t)
      PROVE  /\ Threading(running', hasLoop', started', alive', joining')
             /\ Listing(subscribed')
             /\ raw' \in [Threads -> Seq(Keys)] /\ unseen' \subseteq Keys
  <2>1. UNCHANGED <<running, hasLoop, started, joining, subscribed, unseen>>
    BY <1>6 DEF ThreadEnds, taskVars
  <2>2. alive' = alive \ {t} /\ (t # started \/ ~running)
    BY <1>6 DEF ThreadEnds
  <2>3. raw' \in [Threads -> Seq(Keys)]
    BY <1>0, <1>6 DEF ThreadEnds
  <2>4. Threading(running', hasLoop', started', alive', joining')
    BY <1>0, <2>1, <2>2
  <2> QED
    BY <1>0, <2>1, <2>3, <2>4
<1>7. ASSUME NEW t \in Threads, JoinEnds(t)
      PROVE  /\ Threading(running', hasLoop', started', alive', joining')
             /\ Listing(subscribed')
             /\ raw' \in [Threads -> Seq(Keys)] /\ unseen' \subseteq Keys
  <2>1. UNCHANGED <<running, hasLoop, started, alive, subscribed, raw, unseen>>
    BY <1>7 DEF JoinEnds, taskVars
  <2>2. joining' \subseteq joining
    BY <1>7 DEF JoinEnds
  <2> QED
    BY <1>0, <2>1, <2>2
\* The other steps leave the threads alone.
<1>8. ASSUME UNCHANGED watcherVars, Listing(subscribed'),
             raw' \in [Threads -> Seq(Keys)], unseen' \subseteq Keys
      PROVE  /\ Threading(running', hasLoop', started', alive', joining')
             /\ Listing(subscribed')
             /\ raw' \in [Threads -> Seq(Keys)] /\ unseen' \subseteq Keys
  <2>1. UNCHANGED <<running, hasLoop, started, alive, joining>>
    BY <1>8 DEF watcherVars
  <2> QED
    BY <1>0, <1>8, <2>1
<1> HIDE DEF Threading, Listing
<1>9. ASSUME NEW k \in Keys, Change(k)
      PROVE  /\ UNCHANGED watcherVars /\ Listing(subscribed')
             /\ raw' \in [Threads -> Seq(Keys)] /\ unseen' \subseteq Keys
  <2>1. UNCHANGED watcherVars /\ subscribed' = subscribed
    BY <1>9 DEF Change
  <2>2. raw' = [t \in Threads |-> IF t \in alive THEN Append(raw[t], k) ELSE raw[t]]
    BY <1>9 DEF Change
  <2>3. \A t \in Threads : raw[t] \in Seq(Keys) /\ Append(raw[t], k) \in Seq(Keys)
    BY <1>0, AppendProperties
  <2>4. raw' \in [Threads -> Seq(Keys)]
    BY <2>2, <2>3
  <2>5. unseen' = unseen \/ unseen' = unseen \union {k}
    BY <1>9 DEF Change
  <2> QED
    BY <1>0, <2>1, <2>4, <2>5
<1>10. ASSUME NEW t \in Threads, TakeEvent(t)
       PROVE  /\ UNCHANGED watcherVars /\ Listing(subscribed')
              /\ raw' \in [Threads -> Seq(Keys)] /\ unseen' \subseteq Keys
  <2>1. UNCHANGED <<watcherVars, subscribed, unseen>>
    BY <1>10 DEF TakeEvent, taskVars
  <2>2. raw[t] # <<>> /\ raw' = [raw EXCEPT ![t] = Tail(raw[t])]
    BY <1>10 DEF TakeEvent
  <2>3. raw' \in [Threads -> Seq(Keys)]
    BY <1>0, <2>2
  <2> QED
    BY <1>0, <2>1, <2>3
<1>11. ASSUME NEW t \in Threads, SkipEvent(t) \/ DispatchEvent(t)
       PROVE  /\ UNCHANGED watcherVars /\ Listing(subscribed')
              /\ raw' \in [Threads -> Seq(Keys)] /\ unseen' \subseteq Keys
  <2>1. UNCHANGED <<watcherVars, subscribed, unseen, raw>>
    BY <1>11 DEF SkipEvent, DispatchEvent, taskVars
  <2> QED
    BY <1>0, <2>1
<1>12. ASSUME NEW i \in DOMAIN tasks, BeginNotify(i) \/ ObserverDone(i)
       PROVE  /\ UNCHANGED watcherVars /\ Listing(subscribed')
              /\ raw' \in [Threads -> Seq(Keys)] /\ unseen' \subseteq Keys
  <2>1. UNCHANGED <<watcherVars, subscribed, raw>>
    BY <1>12 DEF BeginNotify, ObserverDone
  <2>2. unseen' \subseteq unseen
    BY <1>12 DEF BeginNotify, ObserverDone
  <2> QED
    BY <1>0, <2>1, <2>2
<1>13. ASSUME NEW o \in Observers, Subscribe(o) \/ Unsubscribe(o)
       PROVE  /\ UNCHANGED watcherVars /\ Listing(subscribed')
              /\ raw' \in [Threads -> Seq(Keys)] /\ unseen' \subseteq Keys
  <2>1. UNCHANGED <<watcherVars, raw, unseen>>
    BY <1>13 DEF Subscribe, Unsubscribe
  <2>2. \/ subscribed' = WithObserver(subscribed, o)
        \/ subscribed' = WithoutObserver(subscribed, o)
    BY <1>13 DEF Subscribe, Unsubscribe
  <2>3. Listing(subscribed')
    BY <1>0, <2>2, ObserverLists DEF Listing
  <2> QED
    BY <1>0, <2>1, <2>3
<1>14. CASE Tick /\ UNCHANGED <<watcherVars, taskVars, raw, edits>>
  <2>1. UNCHANGED <<watcherVars, subscribed, raw, unseen>>
    BY <1>14 DEF taskVars
  <2> QED
    BY <1>0, <1>8, <2>1
<1> QED
  BY <1>2, <1>3, <1>4, <1>5, <1>6, <1>7, <1>8, <1>9, <1>10, <1>11, <1>12, <1>13,
     <1>14 DEF WatcherNext

\* The notifications: each step of one keeps its promise, and an observer who
\* unsubscribes is promised nothing any more.
LEMMA WatcherTasks ==
  ASSUME WatcherStrongInv, [WatcherNext]_allWatcherVars
  PROVE  TasksInv'
<1>0. /\ tasks \in Seq(Task) /\ \A i \in DOMAIN tasks : Told(tasks[i])
      /\ subscribed \in Seq(Observers)
      /\ Len(tasks) \in Nat /\ DOMAIN tasks = 1 .. Len(tasks)
  BY DEF WatcherStrongInv, TasksInv, WatcherTypeOK
<1>1. CASE UNCHANGED tasks
  BY <1>0, <1>1 DEF TasksInv
\* One task is replaced by its next state.
<1>2. ASSUME NEW i \in DOMAIN tasks, NEW m \in Task, Told(m),
             tasks' = [tasks EXCEPT ![i] = m]
      PROVE  TasksInv'
  <2>1. tasks' \in Seq(Task) /\ DOMAIN tasks' = DOMAIN tasks
    BY <1>0, <1>2, ExceptSeq
  <2>2. \A j \in DOMAIN tasks : tasks'[j] = IF j = i THEN m ELSE tasks[j]
    BY <1>0, <1>2
  <2> QED
    BY <1>0, <1>2, <2>1, <2>2 DEF TasksInv
<1>3. ASSUME NEW t \in Threads, DispatchEvent(t) PROVE TasksInv'
  <2> DEFINE n == NewTask(call[t].key)
  <2>1. call[t].key \in Keys
    BY <1>3 DEF DispatchEvent, Emit, WatcherStrongInv, DebounceInv, DebounceTypeOK
  <2>2. n \in Task /\ n.at = 0
    BY <2>1 DEF NewTask, Task
  <2>3. Told(n)
    BY <2>2 DEF Told
  <2>4. tasks' = tasks \/ tasks' = Append(tasks, n)
    BY <1>3 DEF DispatchEvent
  <2> HIDE DEF n
  <2>5. CASE tasks' = Append(tasks, n)
    <3>1. /\ tasks' \in Seq(Task) /\ Len(tasks') = Len(tasks) + 1
          /\ tasks'[Len(tasks) + 1] = n
          /\ \A i \in 1 .. Len(tasks) : tasks'[i] = tasks[i]
      BY <1>0, <2>2, <2>5, AppendProperties
    <3>2. \A i \in DOMAIN tasks' : i \in 1 .. Len(tasks) \/ i = Len(tasks) + 1
      BY <1>0, <3>1
    <3> QED
      BY <1>0, <2>3, <3>1, <3>2 DEF TasksInv
  <2> QED
    BY <1>1, <2>4, <2>5
<1>4. ASSUME NEW i \in DOMAIN tasks, BeginNotify(i) PROVE TasksInv'
  <2> DEFINE n == [tasks[i] EXCEPT !.list = subscribed,
                     !.steady = {subscribed[j] : j \in DOMAIN subscribed}]
             m == Advance(n, 1)
  <2>1. tasks[i] \in Task
    BY <1>0
  <2>2. /\ n \in Task /\ n.list = subscribed
        /\ n.steady = {subscribed[j] : j \in DOMAIN subscribed}
    <3> DEFINE all == {subscribed[j] : j \in DOMAIN subscribed}
    <3>1. all \in SUBSET Observers
      BY <1>0
    <3> HIDE DEF all
    <3>2. [tasks[i] EXCEPT !.list = subscribed, !.steady = all] \in Task
      BY <1>0, <2>1, <3>1 DEF Task
    <3>3. /\ [tasks[i] EXCEPT !.list = subscribed, !.steady = all].list = subscribed
          /\ [tasks[i] EXCEPT !.list = subscribed, !.steady = all].steady = all
      BY <2>1 DEF Task
    <3> QED
      BY <3>2, <3>3 DEF all
  <2>3. tasks' = [tasks EXCEPT ![i] = m]
    BY <1>4 DEF BeginNotify
  <2> HIDE DEF n
  <2>4. /\ \A o \in n.steady : \E j \in DOMAIN n.list : n.list[j] = o
        /\ \A j \in DOMAIN n.list : j < 1 => n.list[j] \in n.called
    BY <1>0, <2>2
  <2>5. 1 \in Nat \ {0}
    OBVIOUS
  <2>6. m \in Task /\ Told(m)
    BY <2>2, <2>4, <2>5, AdvanceTells, Zenon
  <2> HIDE DEF m
  <2> QED
    BY <1>2, <2>3, <2>6
<1>5. ASSUME NEW i \in DOMAIN tasks, ObserverDone(i) PROVE TasksInv'
  <2> DEFINE n == tasks[i]
             next == n.at + 1
             m == Advance(n, next)
  <2>0. n \in Task /\ Told(n)
    BY <1>0
  <2>1. n \in Task /\ n.at \in Nat /\ n.list \in Seq(Observers) /\ Told(n)
    BY <2>0 DEF Task
  <2>2. n.at > 0 /\ tasks' = [tasks EXCEPT ![i] = m]
    BY <1>5 DEF ObserverDone
  <2> HIDE DEF n
  <2>3. next \in Nat \ {0}
    BY <2>1
  <2>4. /\ \A o \in n.steady : \E j \in DOMAIN n.list : n.list[j] = o
        /\ \A j \in DOMAIN n.list : j < next => n.list[j] \in n.called
    BY <2>1, <2>2 DEF Told
  <2> HIDE DEF next
  <2>5. m \in Task /\ Told(m)
    BY <2>1, <2>3, <2>4, AdvanceTells, Zenon
  <2> HIDE DEF m
  <2> QED
    BY <1>2, <2>2, <2>5
<1>6. ASSUME NEW o \in Observers, Unsubscribe(o) PROVE TasksInv'
  <2>1. tasks' = [i \in DOMAIN tasks |-> [tasks[i] EXCEPT !.steady = @ \ {o}]]
    BY <1>6 DEF Unsubscribe
  <2>2. ASSUME NEW n \in Task, Told(n)
        PROVE  /\ [n EXCEPT !.steady = @ \ {o}] \in Task
               /\ Told([n EXCEPT !.steady = @ \ {o}])
    <3> DEFINE m == [n EXCEPT !.steady = @ \ {o}]
    <3>1. /\ m \in Task /\ m.at = n.at /\ m.list = n.list /\ m.called = n.called
          /\ m.steady \subseteq n.steady
      BY DEF Task
    <3> HIDE DEF m
    <3>2. Told(m)
      BY <2>2, <3>1 DEF Told
    <3> QED
      BY <3>1, <3>2 DEF m
  <2>3. \A i \in DOMAIN tasks : tasks[i] \in Task
    BY <1>0
  <2>4. DOMAIN tasks' = 1 .. Len(tasks) /\ \A i \in 1 .. Len(tasks) :
          tasks'[i] \in Task /\ Told(tasks'[i])
    BY <1>0, <2>1, <2>2, <2>3
  <2>5. tasks' \in Seq(Task)
    <3>1. tasks' \in [1 .. Len(tasks) -> Task]
      BY <1>0, <2>1, <2>4
    <3> QED
      BY <1>0, <3>1
  <2> QED
    BY <2>4, <2>5 DEF TasksInv
<1>7. CASE StartWatcher \/ StartWatcherFails \/ StopWatcher
  BY <1>1, <1>7 DEF StartWatcher, StartWatcherFails, StopWatcher, taskVars
<1>8. ASSUME NEW t \in Threads,
             ThreadEnds(t) \/ JoinEnds(t) \/ TakeEvent(t) \/ SkipEvent(t)
      PROVE  TasksInv'
  BY <1>1, <1>8 DEF ThreadEnds, JoinEnds, TakeEvent, SkipEvent, taskVars
<1>9. ASSUME NEW k \in Keys, Change(k) PROVE TasksInv'
  BY <1>1, <1>9 DEF Change
<1>10. ASSUME NEW o \in Observers, Subscribe(o) PROVE TasksInv'
  BY <1>1, <1>10 DEF Subscribe
<1>11. CASE UNCHANGED taskVars
  BY <1>1, <1>11 DEF taskVars
<1>12. CASE UNCHANGED allWatcherVars
  BY <1>11, <1>12 DEF allWatcherVars
<1> QED
  BY <1>3, <1>4, <1>5, <1>6, <1>7, <1>8, <1>9, <1>10, <1>11, <1>12 DEF WatcherNext

\* The watcher, its debouncer and its notifications keep WatcherStrongInv from
\* the construction of the watcher on.
THEOREM WatcherInvariant == WatcherSpec => []WatcherStrongInv
<1>1. WatcherInit => WatcherStrongInv
  <2> SUFFICES ASSUME WatcherInit PROVE WatcherStrongInv
    OBVIOUS
  <2>1. /\ clock = 0 /\ lastSeen = <<>> /\ call = [t \in Threads |-> NoCall]
        /\ emitted = [k \in Keys |-> Never]
    BY DEF WatcherInit, DebounceInit
  <2>2. DebounceTypeOK
    BY <2>1, MaxTimeAssumption DEF DebounceTypeOK
  <2>3. DebounceInv
    BY <2>1, <2>2 DEF DebounceInv, RemembersEmission
  <2>4. /\ running \in BOOLEAN /\ hasLoop \in BOOLEAN /\ ~running
        /\ started = 0 /\ alive = {} /\ joining = {} /\ unseen = {} /\ tasks = <<>>
        /\ raw = [t \in Threads |-> <<>>]
    BY DEF WatcherInit
  <2>5. /\ subscribed \in Seq(Observers)
        /\ \A i, j \in DOMAIN subscribed : subscribed[i] = subscribed[j] => i = j
    <3> DEFINE c == Cardinality(Observers)
    <3>1. c \in Nat
      BY ObserversAssumption, FS_CardinalityType
    <3>2. /\ subscribed \in [1 .. c -> Observers]
          /\ \A i, j \in DOMAIN subscribed : subscribed[i] = subscribed[j] => i = j
      BY DEF WatcherInit
    <3> HIDE DEF c
    <3> QED
      BY <3>1, <3>2
  <2>6. raw \in [Threads -> Seq(Keys)]
    BY <2>4
  <2>7. WatcherTypeOK
    BY <2>2, <2>4, <2>5, <2>6 DEF WatcherTypeOK
  <2>8. TasksInv /\ started \in 0 .. MaxStarts
    BY <2>4, WatcherBoundsAssumption DEF TasksInv
  <2> QED
    BY <2>3, <2>7, <2>8 DEF WatcherStrongInv
<1>2. WatcherStrongInv /\ [WatcherNext]_allWatcherVars => WatcherStrongInv'
  BY WatcherDebounce, WatcherTypes, WatcherTasks DEF WatcherStrongInv
<1> QED
  BY <1>1, <1>2, PTL DEF WatcherSpec

\* For any threads, paths and observers: while the watcher runs its newest
\* thread lives and can reach the event loop, nobody is registered twice, and a
\* notification that is over has reached everyone subscribed throughout.
THEOREM WatcherCorrect == WatcherSpec => []WatcherInv
<1>1. WatcherStrongInv => WatcherInv
  <2> SUFFICES ASSUME WatcherStrongInv, NEW i \in DOMAIN tasks,
                      tasks[i].at > 0, Over(tasks[i])
               PROVE  tasks[i].steady \subseteq tasks[i].called
    BY DEF WatcherInv, WatcherStrongInv, SubscribedAreTold
  <2> DEFINE n == tasks[i]
  <2>1. n \in Task /\ Told(n)
    BY DEF WatcherStrongInv, TasksInv
  <2>2. n.at > 0 /\ n.at > Len(n.list)
    BY DEF Over, Listeners
  <2> HIDE DEF n
  <2>3. \A j \in DOMAIN n.list : j <= n.at
    BY <2>1, <2>2 DEF Task
  <2>4. n.steady \subseteq n.called
    BY <2>1, <2>2, <2>3 DEF Told
  <2> QED
    BY <2>4 DEF n
<1> QED
  BY <1>1, WatcherInvariant, PTL

\* For any window and any interleaving of the threads: an event is suppressed
\* only if its key was let through less than a window before.
THEOREM WatcherSuppression == WatcherSpec => SuppressedOnlyWithinWindow
<1>1. WatcherStrongInv =>
        [\A t \in Threads : Suppressed(t) =>
           emitted[call[t].key] # Never
             /\ call[t].now - emitted[call[t].key] < Window]_debounceVars
  BY SuppressionJustified DEF WatcherStrongInv
<1> QED
  BY <1>1, WatcherInvariant, PTL DEF SuppressedOnlyWithinWindow
=============================================================================
