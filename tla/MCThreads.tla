------------------------------- MODULE MCThreads -------------------------------
(***************************************************************************)
(* An application thread, and one that makes calls and runs callbacks, on  *)
(* two channels.                                                           *)
(***************************************************************************)
EXTENDS Threads, TLC

CONSTANTS t1, t2, c1, c2

MCThread == {t1, t2}
MCAppThread == {t1}
MCChannel == {c1, c2}

\* TLC evaluates an expression for a function at every application, @@ gives a table.
MCProg == ProcessProg @@ <<>>
MCMayRun == ProcessMayRun @@ <<>>

\* The channels are alike.
MCSymmetry == Permutations(MCChannel)

=============================================================================
