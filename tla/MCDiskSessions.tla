--------------------------- MODULE MCDiskSessions ---------------------------
(***************************************************************************)
(* DiskSessions for TLC.                                                   *)
(***************************************************************************)
EXTENDS DiskSessions, TLC

\* Neither processes nor names are told apart: Entries chooses a process only
\* where a single one runs.
Interchangeable == Permutations(Name) \cup Permutations(Process)
=============================================================================
