--------------------------- MODULE MCFileWatcher ---------------------------
(***************************************************************************)
(* FileWatcher with two observers, two threads (a stop and a start that    *)
(* overlap) and one path that changes several times in a window.           *)
(***************************************************************************)
EXTENDS FileWatcher

CONSTANTS a, o1, o2

MCThreads == 1 .. MaxStarts
MCKeys == {a}
MCObservers == {o1, o2}
=============================================================================
