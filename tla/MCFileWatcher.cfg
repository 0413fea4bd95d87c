SPECIFICATION WatcherSpec
CONSTANTS
  a = a
  o1 = o1
  o2 = o2
  Never = Never
  NoCall = NoCall
  Threads <- MCThreads
  Keys <- MCKeys
  Observers <- MCObservers
  Window = 2
  MaxTime = 2
  MaxStarts = 2
  MaxEdits = 2
  MaxSubs = 2
INVARIANT WatcherInv
PROPERTY SuppressedOnlyWithinWindow
\* Everything is bounded: the watcher comes to rest.
CHECK_DEADLOCK FALSE
