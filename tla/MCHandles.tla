------------------------------- MODULE MCHandles -------------------------------
(***************************************************************************)
(* Small instances of HandleTable: two threads and a few calls.            *)
(***************************************************************************)
EXTENDS HandleProperties, TLC

\* Calls, and threads, are interchangeable.
MCSymmetry == Permutations(Call) \cup Permutations(Thread)

=============================================================================
