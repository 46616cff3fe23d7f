------------------------------ MODULE MessageFifo ------------------------------
(***************************************************************************)
(* What one direction of a Channel promises to the NodeChannel above it,   *)
(* and what NodeController relies on when it calls a channel a FIFO: the   *)
(* protocols written at one end are handed to the delegate of the other,   *)
(* whole, once, and in the order in which they were written.               *)
(***************************************************************************)
EXTENDS Naturals, Sequences

CONSTANT Proto

VARIABLES
    written,    \* the protocols written, in order
    delivered   \* the protocols handed over, in order

fifoVars == <<written, delivered>>

Init == written = <<>> /\ delivered = <<>>

Write(m) == written' = Append(written, m) /\ UNCHANGED delivered

Deliver ==
    /\ Len(delivered) < Len(written)
    /\ delivered' = Append(delivered, written[Len(delivered) + 1])
    /\ UNCHANGED written

Next == (\E m \in Proto : Write(m)) \/ Deliver

Spec == Init /\ [][Next]_fifoVars

=============================================================================
