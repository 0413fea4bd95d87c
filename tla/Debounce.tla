------------------------------ MODULE Debounce ------------------------------
(***************************************************************************)
(* EventDebouncer (debounce.py): threads that ask whether an event is a    *)
(* repeat.  A thread reads the clock first and takes the lock afterwards,  *)
(* so another may come between.  Time is counted in ticks.                 *)
(***************************************************************************)
EXTENDS Integers, Sequences, FiniteSets, SequencesExt

CONSTANTS
  Threads,  \* the threads that deliver events
  Keys,     \* dedup_key of an event
  Window,   \* window_seconds; 0, which lets everything through, is not modelled
  Never,    \* no such emission
  NoCall,   \* the thread is not in should_emit
  MaxTime   \* bound: the clock stops there

ASSUME WindowAssumption == Window \in Nat \ {0}
ASSUME MaxTimeAssumption == MaxTime \in Nat
ASSUME NeverAssumption == Never \notin Int

VARIABLES
  clock,     \* time.monotonic()
  lastSeen,  \* _last_seen: [key, at], in the order of the dictionary
  call,      \* call[t]: the key t asks about and the time it has read
  emitted    \* history: the time of the last emission of each key

debounceVars == <<clock, lastSeen, call, emitted>>

DebounceInit ==
  /\ clock = 0
  /\ lastSeen = <<>>
  /\ call = [t \in Threads |-> NoCall]
  /\ emitted = [k \in Keys |-> Never]

----------------------------------------------------------------------------
(* Under the lock *)

\* Entries that can still suppress something.
Fresh(seen, now) == {i \in DOMAIN seen : now - seen[i].at < Window}

\* _evict_stale: from the front, up to the first entry that is not too old.
EvictStale(seen, now) ==
  IF Fresh(seen, now) = {} THEN <<>>
  ELSE LET first == CHOOSE i \in Fresh(seen, now) : \A j \in Fresh(seen, now) : i <= j
       IN SubSeq(seen, first, Len(seen))

IsRepeat(seen, k, now) == \E i \in Fresh(seen, now) : seen[i].key = k

\* The key is set and moved to the end.
Record(seen, k, now) ==
  LET at == {i \in DOMAIN seen : seen[i].key = k}
      others == IF at = {} THEN seen ELSE RemoveAt(seen, CHOOSE i \in at : TRUE)
  IN Append(others, [key |-> k, at |-> now])

----------------------------------------------------------------------------
(* should_emit *)

ReadClock(t, k) ==
  /\ call[t] = NoCall
  /\ call' = [call EXCEPT ![t] = [key |-> k, now |-> clock]]
  /\ UNCHANGED <<clock, lastSeen, emitted>>

\* Variant of a suppressed call that starts the window of its key again.
SuppressExtends(t) ==
  /\ call[t] # NoCall
  /\ LET now == call[t].now
         seen == EvictStale(lastSeen, now)
     IN /\ IsRepeat(seen, call[t].key, now)
        /\ lastSeen' = [i \in DOMAIN seen |->
             IF seen[i].key = call[t].key THEN [seen[i] EXCEPT !.at = now] ELSE seen[i]]
  /\ call' = [call EXCEPT ![t] = NoCall]
  /\ UNCHANGED <<clock, emitted>>

\* should_emit returns False.
Suppress(t) ==
  /\ call[t] # NoCall
  /\ LET seen == EvictStale(lastSeen, call[t].now)
     IN /\ IsRepeat(seen, call[t].key, call[t].now)
        /\ lastSeen' = seen
  /\ call' = [call EXCEPT ![t] = NoCall]
  /\ UNCHANGED <<clock, emitted>>

\* should_emit returns True.
Emit(t) ==
  /\ call[t] # NoCall
  /\ LET k == call[t].key
         seen == EvictStale(lastSeen, call[t].now)
     IN /\ ~IsRepeat(seen, k, call[t].now)
        /\ lastSeen' = Record(seen, k, call[t].now)
        /\ emitted' = [emitted EXCEPT ![k] = call[t].now]
  /\ call' = [call EXCEPT ![t] = NoCall]
  /\ UNCHANGED clock

Tick ==
  /\ clock < MaxTime /\ clock' = clock + 1
  /\ UNCHANGED <<lastSeen, call, emitted>>

----------------------------------------------------------------------------
(* Properties *)

\* The dictionary has one entry for a key, and no time is in the future.
DebounceTypeOK ==
  /\ clock \in 0 .. MaxTime
  /\ lastSeen \in Seq([key : Keys, at : 0 .. clock])
  /\ \A i, j \in DOMAIN lastSeen : lastSeen[i].key = lastSeen[j].key => i = j
  /\ \A t \in Threads : call[t] # NoCall =>
       call[t].key \in Keys /\ call[t].now \in 0 .. clock
  /\ emitted \in [Keys -> (0 .. clock) \union {Never}]

\* The thread asks, and the answer is False.
Suppressed(t) ==
  call[t] # NoCall /\ call'[t] = NoCall /\ emitted' = emitted
    /\ IsRepeat(EvictStale(lastSeen, call[t].now), call[t].key, call[t].now)

\* An event is suppressed only if its key was let through less than a window
\* ago: a stream of repeats cannot keep a key silent, however the threads
\* interleave (should_emit).
SuppressedOnlyWithinWindow ==
  [][\A t \in Threads : Suppressed(t) =>
       emitted[call[t].key] # Never
         /\ call[t].now - emitted[call[t].key] < Window]_debounceVars

----------------------------------------------------------------------------
(* A statement of the documentation that does not hold *)

\* "any repeat of the same key within window_seconds of the first occurrence is
\* suppressed" (EventDebouncer): emissions of a key are a window apart.
NoBurst ==
  [][\A k \in Keys : (emitted'[k] # emitted[k] /\ emitted[k] # Never)
       => emitted'[k] - emitted[k] >= Window]_debounceVars
=============================================================================
