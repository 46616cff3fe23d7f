------------------------------- MODULE MCChannel -------------------------------
(***************************************************************************)
(* Small instances of ChannelPosix: three protocols with contents of one,  *)
(* two and no bytes behind a header of two bytes.                          *)
(***************************************************************************)
EXTENDS ChannelProperties

CONSTANTS p, q, z

MCcontentLen == [m \in Proto |-> IF m = p THEN 1 ELSE IF m = q THEN 2 ELSE 0]

=============================================================================
