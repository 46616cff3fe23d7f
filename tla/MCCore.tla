-------------------------------- MODULE MCCore --------------------------------
(***************************************************************************)
(* Small instances of Core.  Three processes: A is the root; B is invited  *)
(* by A, once (ab) or twice (ab, ab2); C is invited by A (ac) and by B     *)
(* (bc).  A cfg chooses the processes, invitations, calls and messages it  *)
(* uses.                                                                   *)
(***************************************************************************)
EXTENDS Handshake, TLC

CONSTANTS A, B, C, ab, ab2, ac, bc, a1, a2, b1, b2, c1, c2, x, y, m1, m2

MCcallNode ==
    [c \in Call |-> CASE c \in {a1, a2} -> A
                      [] c \in {b1, b2} -> B
                      [] c \in {c1, c2} -> C]

\* Two calls of one process are interchangeable, and so are two invitations of one process by
\* another.
MCSymmetry ==
    Permutations({a1, a2} \cap Call) \cup Permutations({c1, c2} \cap Call)
    \cup Permutations({ab, ab2} \cap Inv)

MCinviterOf == [i \in Inv |-> IF i = bc THEN B ELSE A]
MCinviteeOf == [i \in Inv |-> IF i \in {ab, ab2} THEN B ELSE C]

=============================================================================
