----------------------------- MODULE FileWatcher -----------------------------
(***************************************************************************)
(* WatchdogFileWatcher (watchdog_watcher.py) and the use case that starts  *)
(* and stops it (monitor_directories.py).  Every start makes a watchdog    *)
(* observer with a thread of its own; the debouncer is the watcher's, so   *)
(* the threads of a stop and the next start share it.  Events cross to the *)
(* event loop as tasks, each of which awaits the observers one by one.     *)
(*                                                                         *)
(* An event here is a change of a path: what event_translator.py does not  *)
(* map never gets this far, and a type and path make one key.              *)
(***************************************************************************)
EXTENDS Debounce

CONSTANTS
  Observers,
  MaxStarts,   \* bound: starts; the threads are 1 .. MaxStarts
  MaxEdits,    \* bound: changes of files
  MaxSubs      \* bound: calls of subscribe and unsubscribe

ASSUME ThreadsAssumption == Threads = 1 .. MaxStarts
ASSUME ObserversAssumption == IsFiniteSet(Observers)
ASSUME WatcherBoundsAssumption ==
  MaxStarts \in Nat /\ MaxEdits \in Nat /\ MaxSubs \in Nat

VARIABLES
  running,     \* _running
  hasLoop,     \* _loop is not None
  started,     \* watchdog observers made so far
  alive,       \* threads that have not ended
  joining,     \* threads that a stop() is waiting for
  raw,         \* raw[t]: events watchdog has queued for its thread
  tasks,       \* _notify_observers of each event handed to the event loop
  subscribed,  \* _observers
  edits, subs,    \* counters for the bounds
  unseen       \* history: keys that changed since an observer was last told

watcherVars == <<running, hasLoop, started, alive, joining>>
taskVars == <<tasks, subscribed, subs, unseen>>
allWatcherVars == <<debounceVars, watcherVars, taskVars, raw, edits>>

WatcherInit ==
  /\ DebounceInit
  /\ running = FALSE /\ hasLoop = FALSE /\ started = 0 /\ alive = {} /\ joining = {}
  /\ raw = [t \in Threads |-> <<>>]
  /\ tasks = <<>> /\ subscribed \in {s \in [1 .. Cardinality(Observers) -> Observers] :
                                       \A i, j \in DOMAIN s : s[i] = s[j] => i = j}
  /\ edits = 0 /\ subs = 0 /\ unseen = {}

----------------------------------------------------------------------------
(* start and stop *)

StartWatcher ==
  /\ ~running /\ started < MaxStarts
  /\ running' = TRUE /\ hasLoop' = TRUE
  /\ started' = started + 1
  /\ alive' = alive \union {started + 1}
  /\ UNCHANGED <<debounceVars, taskVars, joining, raw, edits>>

\* The thread cannot be started: the loop is already set.
StartWatcherFails ==
  /\ ~running
  /\ hasLoop' = TRUE
  /\ UNCHANGED <<debounceVars, taskVars, running, started, alive, joining, raw,
                 edits>>

\* stop() up to the join; what has not been seen will not be asked for.
StopWatcher ==
  /\ running
  /\ running' = FALSE /\ hasLoop' = FALSE
  /\ joining' = joining \union {started}
  /\ unseen' = {}
  /\ UNCHANGED <<debounceVars, started, alive, raw, tasks, subscribed, subs,
                 edits>>

\* The thread sees that it is stopped, between two events.
ThreadEnds(t) ==
  /\ t \in alive /\ (t # started \/ ~running)
  /\ call[t] = NoCall
  /\ alive' = alive \ {t}
  /\ raw' = [raw EXCEPT ![t] = <<>>]
  /\ UNCHANGED <<debounceVars, taskVars, running, hasLoop, started, joining,
                 edits>>

\* The join is over, or has timed out with the thread still running.
JoinEnds(t) ==
  /\ t \in joining /\ joining' = joining \ {t}
  /\ UNCHANGED <<debounceVars, taskVars, running, hasLoop, started, alive, raw,
                 edits>>

----------------------------------------------------------------------------
(* Events on the watchdog threads *)

\* A file changes: every thread that watches gets the event.
Change(k) ==
  /\ edits < MaxEdits /\ edits' = edits + 1
  /\ raw' = [t \in Threads |-> IF t \in alive THEN Append(raw[t], k) ELSE raw[t]]
  /\ unseen' = IF running THEN unseen \union {k} ELSE unseen
  /\ UNCHANGED <<debounceVars, watcherVars, tasks, subscribed, subs>>

\* on_any_event, up to the lock of the debouncer.
TakeEvent(t) ==
  /\ t \in alive /\ raw[t] # <<>>
  /\ ReadClock(t, Head(raw[t]))
  /\ raw' = [raw EXCEPT ![t] = Tail(@)]
  /\ UNCHANGED <<watcherVars, taskVars, edits>>

SkipEvent(t) ==
  /\ Suppress(t)
  /\ UNCHANGED <<watcherVars, taskVars, raw, edits>>

NewTask(k) == [key |-> k, list |-> <<>>, at |-> 0, called |-> {}, steady |-> {}]

\* should_emit under its lock and _on_translated_event; without a loop the event
\* is dropped.  The thread reads self._loop after it has given up the lock: a
\* stop or a start in between would only turn a delivered event into a dropped
\* one that is remembered as emitted, or the reverse, and is left out.
DispatchEvent(t) ==
  /\ Emit(t)
  /\ tasks' = IF hasLoop THEN Append(tasks, NewTask(call[t].key)) ELSE tasks
  /\ UNCHANGED <<watcherVars, subscribed, subs, unseen, raw, edits>>

----------------------------------------------------------------------------
(* _notify_observers on the event loop *)

\* Variant that walks the observers as they are now.
ListenersNow(n) == subscribed

\* The observers a task goes through: those of its beginning.
Listeners(n) == n.list

\* The task awaits the observer at position i of its list, if there is one.
\* called and steady are history: who was called, and who has been subscribed
\* all along.
Advance(n, i) ==
  [n EXCEPT !.at = i,
            !.called = IF i <= Len(Listeners(n)) THEN @ \union {Listeners(n)[i]} ELSE @]

Over(n) == n.at > Len(Listeners(n))

\* The tasks start in the order in which the events came.
BeginNotify(i) ==
  /\ i \in DOMAIN tasks /\ tasks[i].at = 0
  /\ \A j \in 1 .. (i - 1) : tasks[j].at > 0
  /\ LET n == [tasks[i] EXCEPT !.list = subscribed,
                               !.steady = {subscribed[j] : j \in DOMAIN subscribed}]
     IN tasks' = [tasks EXCEPT ![i] = Advance(n, 1)]
  /\ unseen' = IF subscribed = <<>> THEN unseen ELSE unseen \ {tasks[i].key}
  /\ UNCHANGED <<debounceVars, watcherVars, subscribed, subs, raw, edits>>

\* An observer returns or raises, which is logged: the next one is called.
ObserverDone(i) ==
  /\ i \in DOMAIN tasks /\ tasks[i].at > 0 /\ ~Over(tasks[i])
  /\ tasks' = [tasks EXCEPT ![i] = Advance(@, @.at + 1)]
  /\ UNCHANGED <<debounceVars, watcherVars, subscribed, subs, unseen, raw,
                 edits>>

\* subscribe: a second registration has no effect.
WithObserver(s, o) ==
  IF \E i \in DOMAIN s : s[i] = o THEN s ELSE Append(s, o)

Subscribe(o) ==
  /\ subs < MaxSubs /\ subs' = subs + 1
  /\ subscribed' = WithObserver(subscribed, o)
  /\ UNCHANGED <<debounceVars, watcherVars, tasks, unseen, raw, edits>>

\* unsubscribe: someone who is not registered is no error.
WithoutObserver(s, o) ==
  LET at == {i \in DOMAIN s : s[i] = o}
  IN IF at = {} THEN s ELSE RemoveAt(s, CHOOSE i \in at : TRUE)

Unsubscribe(o) ==
  /\ subs < MaxSubs /\ subs' = subs + 1
  /\ subscribed' = WithoutObserver(subscribed, o)
  /\ tasks' = [i \in DOMAIN tasks |-> [tasks[i] EXCEPT !.steady = @ \ {o}]]
  /\ UNCHANGED <<debounceVars, watcherVars, unseen, raw, edits>>

WatcherNext ==
  \/ StartWatcher \/ StartWatcherFails \/ StopWatcher
  \/ \E t \in Threads : ThreadEnds(t)
  \/ \E t \in Threads : JoinEnds(t)
  \/ \E k \in Keys : Change(k)
  \/ \E t \in Threads : TakeEvent(t)
  \/ \E t \in Threads : SkipEvent(t)
  \/ \E t \in Threads : DispatchEvent(t)
  \/ \E i \in DOMAIN tasks : BeginNotify(i)
  \/ \E i \in DOMAIN tasks : ObserverDone(i)
  \/ \E o \in Observers : Subscribe(o)
  \/ \E o \in Observers : Unsubscribe(o)
  \/ Tick /\ UNCHANGED <<watcherVars, taskVars, raw, edits>>

WatcherSpec == WatcherInit /\ [][WatcherNext]_allWatcherVars

----------------------------------------------------------------------------
(* Properties *)

\* The state of the watcher; nobody is registered twice, and while the watcher
\* runs its newest thread lives and can reach the event loop.
WatcherTypeOK ==
  /\ DebounceTypeOK
  /\ running \in BOOLEAN /\ hasLoop \in BOOLEAN
  /\ alive \subseteq 1 .. started /\ joining \subseteq 1 .. started
  /\ running => hasLoop /\ started \in alive
  /\ raw \in [Threads -> Seq(Keys)]
  /\ subscribed \in Seq(Observers)
  /\ \A i, j \in DOMAIN subscribed : subscribed[i] = subscribed[j] => i = j
  /\ unseen \subseteq Keys

\* A notification that is over has reached everyone who was subscribed from
\* its beginning to its end, whoever else failed, came or went meanwhile
\* (_notify_observers).
SubscribedAreTold ==
  \A i \in DOMAIN tasks :
    tasks[i].at > 0 /\ Over(tasks[i]) => tasks[i].steady \subseteq tasks[i].called

\* The watcher's bookkeeping and its promise to observers (watchdog_watcher.py).
WatcherInv == WatcherTypeOK /\ SubscribedAreTold

\* All that has happened has been handled.
Quiet ==
  /\ \A t \in Threads : raw[t] = <<>> /\ call[t] = NoCall
  /\ \A i \in DOMAIN tasks : tasks[i].at > 0 /\ Over(tasks[i])

----------------------------------------------------------------------------
(* A statement of the documentation that does not hold *)

\* The watcher "notifies registered observers asynchronously of every
\* create/modify/delete/move event", suppressing "duplicate rapid-fire
\* notifications for the same logical change" (WatchdogFileWatcher): once all
\* is quiet, an observer has been told of a path since it last changed.
LastChangeSeen == running /\ Quiet => unseen = {}
=============================================================================
