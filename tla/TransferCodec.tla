---------------------------- MODULE TransferCodec ----------------------------
(***************************************************************************)
(* The generated encoder and decoder of MsgTransfer, with JavaScript's     *)
(* numbers: what a caller's partial object becomes on the wire, and what   *)
(* is read back from there.  A message is a function of its fields; on the *)
(* wire are only those that differ from their defaults.                    *)
(***************************************************************************)
EXTENDS Integers

CONSTANTS
    Text,        \* strings other than the empty one
    Coin,        \* tokens
    Undefined,   \* JavaScript's undefined and null
    Unreadable,  \* the exception of longToNumber
    MaxSafe,     \* Number.MAX_SAFE_INTEGER
    Wide         \* the range of a uint64

ASSUME CodecAssumption ==
    /\ MaxSafe \in Nat \ {0} /\ Wide \in Nat /\ 2 * MaxSafe < Wide
    /\ Undefined \notin Text \cup Coin \cup Int \cup {""}
    /\ "" \notin Text

TextField   == {"source_port", "source_channel", "sender", "receiver"}
NumberField == {"timeout_height", "timeout_timestamp"}
Field       == TextField \cup NumberField \cup {"token"}

\* What a field holds when it is set.  The whole numbers that a double can hold are
\* some of the integers, among them ones far beyond a uint64, 2^64 for one.  Of a
\* height the revision's number is left out.
Value(f) == CASE f \in TextField   -> Text \cup {""}
              [] f \in NumberField -> Int
              [] f = "token"       -> Coin

\* baseMsgTransfer; a message inside another one is undefined until it is set.
Default(f) == CASE f \in TextField       -> ""
                [] f = "timeout_timestamp" -> 0
                [] f \in {"timeout_height", "token"} -> Undefined

IsMessage(m) == /\ m = [f \in Field |-> m[f]]
                /\ \A f \in Field : m[f] = Default(f) \/ m[f] \in Value(f)

\* The caller's object may leave any field out, or set it to undefined or null.
FromPartial(object) ==
    [f \in Field |-> IF f \in DOMAIN object /\ object[f] # Undefined
                     THEN object[f] ELSE Default(f)]

\* Of a number 64 bits are written, in two's complement; what is beyond them is lost.
Written(f, x) == IF f \in NumberField THEN x % Wide ELSE x

\* Defect: zero heights are left out as zero timestamps are.
Encode_SkipsZero(m) ==
    [f \in {g \in Field : m[g] # Default(g) /\ (g \in NumberField => m[g] # 0)}
        |-> Written(f, m[f])]

Encode(m) == [f \in {g \in Field : m[g] # Default(g)} |-> Written(f, m[f])]

Decode(wire) ==
    IF \E f \in NumberField \cap DOMAIN wire : wire[f] > MaxSafe
    THEN Unreadable
    ELSE [f \in Field |-> IF f \in DOMAIN wire THEN wire[f] ELSE Default(f)]

\* Every number of m is one that JavaScript reads back.
Readable(m) == \A f \in NumberField : m[f] = Undefined \/ m[f] \in 0 .. MaxSafe

\* No number of m is taken for another one that JavaScript reads back.
Fits(m) == \A f \in NumberField :
              m[f] = Undefined \/ (MaxSafe - Wide < m[f] /\ m[f] < Wide)

\* What 64 bits keep of m.
Modulo(m) == [f \in Field |-> IF m[f] = Undefined THEN Undefined ELSE Written(f, m[f])]
=============================================================================
