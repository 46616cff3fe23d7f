-------------------------------- MODULE MCLoop --------------------------------
(***************************************************************************)
(* Two processes with a channel, and another channel in the writing one.   *)
(***************************************************************************)
EXTENDS SocketLoop

CONSTANTS p, q, z

MCcontentLen == [m \in Proto |-> IF m = p THEN 1 ELSE IF m = q THEN 2 ELSE 0]
MCFd == End \cup {"other"}
MCrunnerOf == [fd \in MCFd |-> IF fd = "reader" THEN "reads" ELSE "writes"]

=============================================================================
