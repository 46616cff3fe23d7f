------------------------------ MODULE WireFormat -------------------------------
(***************************************************************************)
(* How values, messages and protocols become bytes: the typed operations   *)
(* of ByteArray and Serializer, the classes of protocols/, and what a      *)
(* channel does with them at both ends.                                    *)
(*                                                                         *)
(* The sizes are parameters, so that small ones can be checked: a byte has *)
(* ByteMod values, a digit of a varint Group, a uint32 takes Width32       *)
(* bytes.  Bytes are little-endian, as everything is copied by memcpy.     *)
(***************************************************************************)
EXTENDS ByteArray, FiniteSets

CONSTANTS
    Group,      \* 128
    Width16,    \* 2
    Width32,    \* 4
    Width64,    \* 8
    Message     \* the messages that are sent

ByteMod == 2 * Group

ASSUME WireAssumption ==
    /\ Group \in Nat \ {0, 1}
    /\ Width16 \in Nat \ {0} /\ Width32 \in Nat \ {0} /\ Width64 \in Nat \ {0}

\* The number of values of a width.
Mod(w) == ByteMod ^ w

-----------------------------------------------------------------------------
(* Numbers.                                                                  *)

\* writeFint: the bytes of a number of width w; floats and signed numbers are bit patterns.
Fixed(v, w) == [k \in 1 .. w |-> (v \div (ByteMod ^ (k - 1))) % ByteMod]

\* The value of the digits b in base m.
ValueOf(b, m) == FoldRight(LAMBDA d, rest : d + m * rest, b, 0)

\* A varint: seven bits in a byte, the eighth says that more follow.
Varint(v) ==
    LET digits[x \in Nat] ==
            IF x >= Group THEN << Group + (x % Group) >> \o digits[x \div Group] ELSE << x >>
    IN  digits[v]

\* The loop of readUint32 and readUint64 ends after so many bytes at the latest: 5 and 10.
MaxDigits(w) == CHOOSE g \in 1 .. 2 * w : Group ^ g >= Mod(w) /\ Group ^ (g - 1) < Mod(w)

\* Zigzag coding of the signed numbers.  The negation of the smallest overflows to itself.
\* (EncodeZigzagEven is a bug to try: both signs get the even codes.)
EncodeZigzagEven(v, w) == ((IF v < 0 THEN - v ELSE v) * 2) % Mod(w)
EncodeZigzag(v, w) ==
    IF v < 0 THEN (((- v) % Mod(w)) * 2 - 1) % Mod(w) ELSE (v * 2) % Mod(w)
DecodeZigzag(u) == IF u % 2 = 0 THEN u \div 2 ELSE - 1 - u \div 2

-----------------------------------------------------------------------------
(* The typed operations, as Serializer dispatches them: Put writes a value   *)
(* of a type, Take reads one and returns it with the buffer.                 *)

FixedWidth == [fixed8 |-> 1, fixed16 |-> Width16, fixed32 |-> Width32, fixed64 |-> Width64]
UintWidth == [uint32 |-> Width32, uint64 |-> Width64]
IntWidth == [int32 |-> Width32, int64 |-> Width64]
\* The number in front of a string; it is cut to its width.
Prefix == [strF16 |-> "fixed16", strF32 |-> "fixed32", strF64 |-> "fixed64",
           strVint |-> "uint64"]

Encoded(type, v) ==
    CASE type \in DOMAIN FixedWidth -> Fixed(v, FixedWidth[type])
      [] type \in DOMAIN UintWidth -> Varint(v)
      [] type \in DOMAIN IntWidth -> Varint(EncodeZigzag(v, IntWidth[type]))

Decoded(type, b) ==
    LET digits(w) == ValueOf([k \in DOMAIN b |-> b[k] % Group], Group) % Mod(w)
    IN  CASE type \in DOMAIN FixedWidth -> ValueOf(b, ByteMod)
          [] type \in DOMAIN UintWidth -> digits(UintWidth[type])
          [] type \in DOMAIN IntWidth -> DecodeZigzag(digits(IntWidth[type]))

\* Each string of bytes is a call of write.
Put(s, type, v) ==
    FoldLeft(write, s, IF type \in DOMAIN Prefix
                       THEN << Encoded(Prefix[type], Len(v)), v >>
                       ELSE << Encoded(type, v) >>)

\* What comes after a read; nothing does after one that failed.
Then(r, F(_, _)) == IF r.v \in {Throw, Crash} THEN r ELSE F(r.s, r.v)

\* Of a varint, the bytes up to the first without the continuation bit, as long as there
\* are any.
DigitsOf(ahead, most) ==
    LET last[k \in 1 .. most] ==
            IF k > Len(ahead) \/ k = most THEN k
            ELSE IF ahead[k] < Group THEN k ELSE last[k + 1]
    IN  last[1]

LengthOf(s, type) ==
    IF type \in DOMAIN FixedWidth THEN FixedWidth[type]
    ELSE DigitsOf(toString(s), MaxDigits((UintWidth @@ IntWidth)[type]))

TakeNumber(s, type) ==
    Then(read(s, LengthOf(s, type)), LAMBDA t, b : [s |-> t, v |-> Decoded(type, b)])

Take(s, type) ==
    IF type \in DOMAIN Prefix THEN Then(TakeNumber(s, Prefix[type]), read)
    ELSE TakeNumber(s, type)

\* Several values in a row.
PutAll(s, types, vs) ==
    FoldLeft(LAMBDA r, k : Put(r, types[k], vs[k]), s, [k \in DOMAIN types |-> k])

TakeAll(s, types) ==
    FoldLeft(LAMBDA r, type :
                Then(r, LAMBDA t, vs :
                    Then(Take(t, type), LAMBDA u, v : [s |-> u, v |-> Append(vs, v)])),
             [s |-> s, v |-> <<>>], types)

\* The containers of Serializer: the number of elements, then the elements; an element of a
\* map is two values.  A set is written in its order, which the elements do not depend on.
Elements(types, n) == FlattenSeq([k \in 1 .. n |-> types])

PutContainer(s, types, vs) ==
    PutAll(s, <<"uint64">> \o Elements(types, Len(vs)), << Len(vs) >> \o FlattenSeq(vs))

TakeContainer(s, types) ==
    Then(Take(s, "uint64"), LAMBDA t, n : TakeAll(t, Elements(types, n)))

-----------------------------------------------------------------------------
(* Messages and protocols.                                                   *)

\* MsgType: its number in the header.  Nobody sends the other types.
MsgType == [acceptInvitee |-> 1, acceptInvitation |-> 2, requestPortMerge |-> 3,
            responsePortMerge |-> 4, userMessage |-> 5]

\* What Encode writes and Decode reads: names as two uint64 each, and strings.
Name == <<"fixed64", "fixed64">>
AcceptInviteeProtocol == Name \o Name
AcceptInvitationProtocol == Name \o Name
RequestPortMergeProtocol == Name \o <<"strF64">>
ResponsePortMergeProtocol == Name \o Name
UserMessage == Name \o Name \o <<"strF32">>

Layout == [acceptInvitee |-> AcceptInviteeProtocol,
           acceptInvitation |-> AcceptInvitationProtocol,
           requestPortMerge |-> RequestPortMergeProtocol,
           responsePortMerge |-> ResponsePortMergeProtocol,
           userMessage |-> UserMessage]

\* The bytes of a message: Encode, which ends with setPosition(0), and toString.
SerializeMessage(m) == toString(setPosition(PutAll(New, Layout[m.type], m.fields), 0))

\* A protocol: magic, version, type, content length, then the content with its length again.
Magic == 12
Header == <<"fixed8", "fixed8", "fixed8", "fixed32">>
kBaseLen == 3 + Width32 + Width32

SerializeProtocol(type, content) ==
    toString(setPosition(PutAll(New, Header \o <<"strF32">>,
                                << Magic, 1, MsgType[type], Len(content), content >>), 0))

\* A bug to try: no byte is skipped.
ReceivedWhole(raw) == setPosition(Put(New, "strVint", raw), 0)

\* Received bytes are written to a Serializer as a string, and one byte is skipped for its
\* length.
Received(raw) ==
    LET s == setPosition(Put(New, "strVint", raw), 0) IN setPosition(s, s.position + 1)

DeserializeProtocol(raw) == TakeAll(Received(raw), Header)
DeserializeMessage(type, raw) == TakeAll(Received(raw), Layout[type])

\* From SendChannelMessage of one end to the handler of the other; ChannelPosix, between
\* them, hands over the header's bytes and then those of the content.
Handled(header, content) ==
    LET type == CHOOSE t \in DOMAIN MsgType : MsgType[t] = header[3]
    IN  [type |-> type, fields |-> DeserializeMessage(type, SubSeq(content, 1, header[4])).v]

Arrived(wire) ==
    Handled(DeserializeProtocol(SubSeq(wire, 1, kBaseLen)).v,
            SubSeq(wire, kBaseLen + 1, Len(wire)))

Transmitted(m) == Arrived(SerializeProtocol(m.type, SerializeMessage(m)))

\* A message has buffers of its own, so it is sent when bt has not been used.
Send(m) ==
    /\ bt = New
    /\ UNCHANGED bt
    /\ out' = [call |-> "send", v |-> Transmitted(m), message |-> m]

WireNext == Next \/ \E m \in Message : Send(m)

WireSpec == Init /\ [][WireNext]_vars

=============================================================================
