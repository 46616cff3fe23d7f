-------------------------------- MODULE MCWire --------------------------------
(***************************************************************************)
(* Small instances of WireFormat: chunks of three bytes, varint digits of  *)
(* four bits, numbers of one and two bytes, so that every message lies     *)
(* across chunks and the largest numbers do not fill their last digit.  As *)
(* with the real sizes, no message ends with an empty string at the end of *)
(* a chunk.                                                                *)
(***************************************************************************)
EXTENDS WireProperties

CONSTANT Longest    \* the longest string in a message

\* Bytes to write: one, and enough to reach into three chunks.
MCData == { <<1>>, <<2, 1, 2, 1, 2>> }

Str(n) == [k \in 1 .. n |-> k % 3]

MCTyped ==
    ({"fixed8", "fixed32"} \X {ByteMod - 1})
    \cup ({"fixed64"} \X {1, ByteMod, Mod(2) - 1})
    \cup ({"uint32"} \X {Group - 1, Group, ByteMod - 1})
    \cup ({"uint64"} \X {Group ^ 2 - 1, Group ^ 2, Mod(2) - 1})
    \cup ({"int32"} \X {-1, Group - 1, - Group})
    \cup ({"int64"} \X {Group, (Mod(2) \div 2) - 1, - (Mod(2) \div 2)})
    \cup ({"strF16", "strF64", "strVint"} \X {<<>>, Str(2)})
    \cup ({"strVint"} \X {Str(Group)})

MCRows == { << <<"int64">>, << <<-1>>, <<Group>> >> >>,
            << <<"strVint", "uint64">>, << <<Str(1), 0>>, <<Str(2), ByteMod>> >> >> }

\* Names that differ in each half, and strings of all lengths.
Names(n) == [k \in 1 .. 2 * n |-> ByteMod * k + k - 1]
MCMessage ==
    { [type |-> t, fields |-> Names(2)] :
        t \in {"acceptInvitee", "acceptInvitation", "responsePortMerge"} }
    \cup { [type |-> "requestPortMerge", fields |-> Append(Names(1), Str(n))] : n \in 0 .. Longest }
    \cup { [type |-> "userMessage", fields |-> Append(Names(2), Str(n))] : n \in 0 .. Longest }

=============================================================================
