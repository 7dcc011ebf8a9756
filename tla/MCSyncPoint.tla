---------------------------- MODULE MCSyncPoint ----------------------------
(* Small instances of the sync-point runtime for TLC.                        *)
EXTENDS SyncPoint, TLC

(* Workers, points, calls and waiters are interchangeable.                   *)
Interchangeable == Permutations(Worker) \cup Permutations(Point)
                   \cup Permutations(Call) \cup Permutations(Waiter)
============================================================================
