------------------------------ MODULE FieldValues ------------------------------
(***************************************************************************)
(* Fields that pack a value: BitField (flags in an integer), BigBitField   *)
(* (bits in a buffer that grows), TimestampField (an instant in ticks) and *)
(* the two UUID fields.  Clients load a row, change what they loaded and   *)
(* save it, or change a flag in the database.                              *)
(*                                                                         *)
(* An integer is the set of its bits.  A byte has ByteBits bits here, and  *)
(* a second Micros microseconds.                                           *)
(***************************************************************************)
EXTENDS Integers, Sequences, FiniteSets, FiniteSetsExt

CONSTANTS
    Clients,
    Declared,          \* the flags of a model: the value given, a set of bits, or {} for none
    Indexes,           \* indexes of bits that a program uses
    Buffers,           \* buffers that a field is combined with
    ByteBits, Micros,
    Resolutions, Instants, Ticks,   \* TimestampField(resolution), instants and stored integers
    MaxCalls

VARIABLES row, copy, meant, handle, stamp, calls

fieldVars == <<row, copy, meant, handle, stamp, calls>>

\* BitField.flag(): the value given, or the one after the last, and what follows it.
RECURSIVE FlagsFrom(_, _)
FlagsFrom(declared, current) ==
    IF declared = <<>> THEN <<>>
    ELSE LET value == IF Head(declared) = {} THEN current ELSE Head(declared)
         IN  <<value>> \o FlagsFrom(Tail(declared), {b + 1 : b \in value})
Flags == FlagsFrom(Declared, {0})

\* FlagDescriptor: __get__(), __set__(), and set() and clear() for the database.
FlagOf(value, f) == value \cap Flags[f] # {}

WithFlag(value, f, on) == IF on THEN value \cup Flags[f] ELSE value \ Flags[f]

\* BigBitFieldData: set_bit() and the others grow the buffer to the byte they need.
Grown(buf, idx) == [buf EXCEPT !.size = IF @ <= idx \div ByteBits THEN idx \div ByteBits + 1 ELSE @]
SetBit(buf, idx) == [Grown(buf, idx) EXCEPT !.bits = @ \cup {idx}]
ClearBit(buf, idx) == [Grown(buf, idx) EXCEPT !.bits = @ \ {idx}]
ToggleBit(buf, idx) == IF idx \in buf.bits THEN ClearBit(buf, idx) ELSE SetBit(buf, idx)
IsSet(buf, idx) == buf.size > idx \div ByteBits /\ idx \in buf.bits
\* &, | and ^ of two buffers: the shorter one is taken to go on with zeros.
BitwiseOp(buf, other, op) ==
    [size |-> Max({buf.size, other.size}),
     bits |-> CASE op = "and" -> buf.bits \cap other.bits
                [] op = "or" -> buf.bits \cup other.bits
                [] op = "xor" -> (buf.bits \cup other.bits) \ (buf.bits \cap other.bits)]

-----------------------------------------------------------------------------
\* TimestampField.  round() goes to the even neighbour at a half.
Rounded(num, den) ==
    LET low == num \div den
        rest == 2 * (num % den)
    IN  IF rest < den \/ (rest = den /\ low % 2 = 0) THEN low ELSE low + 1
\* db_value() of an instant, in microseconds: whole seconds without a resolution.
StampToDb(t, resolution) ==
    IF resolution = 1 THEN t \div Micros
    ELSE Rounded(t * resolution, Micros)
\* python_value(): divmod() rounds towards minus infinity, as the fraction needs.
StampToPython(n, resolution) ==
    IF resolution = 1 THEN n * Micros
    ELSE (n \div resolution) * Micros + (n % resolution) * (Micros \div resolution)

\* UUIDField.db_value() and BinaryUUIDField.db_value(), by the form of what is given.
UuidForms == {"uuid", "hex", "HEX", "dashed", "raw"}
UuidToDb(form) == IF form \in {"hex", "HEX"} THEN form ELSE "hex"
BinaryToDb(form) == IF form = "dashed" THEN "ValueError" ELSE "raw"

-----------------------------------------------------------------------------
NoBits == [size |-> 0, bits |-> {}]
Fresh == [flags |-> {}, buf |-> NoBits]
NoStamp == [resolution |-> 0, given |-> 0, stored |-> 0, read |-> 0]
Init ==
    /\ row = Fresh
    /\ copy = [c \in Clients |-> Fresh]
    /\ meant = [c \in Clients |-> [flags |-> [f \in DOMAIN Flags |-> FALSE], bits |-> {}]]
    /\ handle = [c \in Clients |-> "attached"]
    /\ stamp \in {NoStamp} \cup [resolution : Resolutions, given : {0}, stored : {0}, read : {0}]
    /\ calls = 0

\* A program has a field of one kind or of the other.
Packed == stamp = NoStamp /\ UNCHANGED stamp
Called == Packed /\ calls < MaxCalls /\ calls' = calls + 1
Meaning(v) == [flags |-> [f \in DOMAIN Flags |-> FlagOf(v.flags, f)],
               bits |-> {b \in Indexes : IsSet(v.buf, b)}]

Load(c) ==
    /\ Packed
    /\ copy' = [copy EXCEPT ![c] = row]
    /\ meant' = [meant EXCEPT ![c] = Meaning(row)]
    /\ handle' = [handle EXCEPT ![c] = "attached"]
    /\ UNCHANGED <<row, calls>>

AssignFlag(c, f, on) ==
    /\ Called
    /\ copy' = [copy EXCEPT ![c].flags = WithFlag(@, f, on)]
    /\ meant' = [meant EXCEPT ![c].flags[f] = on]
    /\ UNCHANGED <<row, handle>>

\* UPDATE ... SET flags = (flags | v), or (flags & ~v).
UpdateFlag(f, on) ==
    /\ Called
    /\ row' = [row EXCEPT !.flags = WithFlag(@, f, on)]
    /\ UNCHANGED <<copy, meant, handle>>

\* The object a program got before it assigned to the field still has the buffer
\* that was replaced: what it does there is lost.
Bit(c, buffer, idx, on) ==
    /\ Called
    /\ copy' = IF handle[c] = "attached" THEN [copy EXCEPT ![c].buf = buffer] ELSE copy
    /\ meant' = IF handle[c] # "attached" THEN meant
                ELSE [meant EXCEPT ![c].bits = IF on THEN @ \cup {idx} ELSE @ \ {idx}]
    /\ UNCHANGED <<row, handle>>
Assign(c, other, op) ==
    /\ Called
    /\ copy' = [copy EXCEPT ![c].buf = BitwiseOp(@, other, op)]
    /\ meant' = [meant EXCEPT ![c].bits = BitwiseOp([size |-> 0, bits |-> @], other, op).bits]
    /\ handle' = [handle EXCEPT ![c] = "replaced"]
    /\ UNCHANGED row
Reopen(c) ==
    /\ Packed
    /\ handle' = [handle EXCEPT ![c] = "attached"]
    /\ UNCHANGED <<row, copy, meant, calls>>
\* clear() empties the buffer.
Clear(c) ==
    /\ Called
    /\ handle[c] = "attached"
    /\ copy' = [copy EXCEPT ![c].buf = NoBits]
    /\ meant' = [meant EXCEPT ![c].bits = {}]
    /\ UNCHANGED <<row, handle>>

\* save() writes every field of the copy, what others changed meanwhile included.
Save(c) ==
    /\ Called
    /\ row' = copy[c]
    /\ UNCHANGED <<copy, meant, handle>>

\* An instant is given and saved; a row is read, also one that somebody else wrote;
\* what was read is saved again.
Stamped(given, stored, read) ==
    /\ stamp' = [stamp EXCEPT !.given = given, !.stored = stored, !.read = read]
    /\ UNCHANGED <<row, copy, meant, handle, calls>>
GiveStamp(t) == stamp # NoStamp /\ Stamped(t, StampToDb(t, stamp.resolution), t)
ReadStamp(n) ==
    stamp # NoStamp /\ LET t == StampToPython(n, stamp.resolution) IN Stamped(t, n, t)
SaveStamp == stamp # NoStamp /\ Stamped(stamp.given, StampToDb(stamp.read, stamp.resolution), stamp.read)

Next ==
    \/ \E t \in Instants : GiveStamp(t)
    \/ \E n \in Ticks \cup {stamp.stored} : ReadStamp(n)
    \/ SaveStamp
    \/ \E c \in Clients :
        \/ Load(c) \/ Save(c) \/ Clear(c) \/ Reopen(c)
        \/ \E f \in DOMAIN Flags, on \in BOOLEAN : AssignFlag(c, f, on)
        \/ \E i \in Indexes :
            \/ Bit(c, SetBit(copy[c].buf, i), i, TRUE)
            \/ Bit(c, ClearBit(copy[c].buf, i), i, FALSE)
            \/ Bit(c, ToggleBit(copy[c].buf, i), i, i \notin copy[c].buf.bits)
        \/ \E other \in Buffers, op \in {"and", "or", "xor"} : Assign(c, other, op)
    \/ \E f \in DOMAIN Flags, on \in BOOLEAN : UpdateFlag(f, on)

Spec == Init /\ [][Next]_fieldVars

-----------------------------------------------------------------------------
\* Each flag and each bit is its own: one shows what was last made of it by its
\* own name, whatever was made of its neighbours in the same integer or byte, and
\* what is beyond the buffer is not set, nor is a bit kept that the buffer has no
\* byte for.
FlagsApart ==
    /\ \A c \in Clients : Meaning(copy[c]) = meant[c]
    /\ \A v \in {row} \cup {copy[c] : c \in Clients} :
         \A b \in v.buf.bits : b < v.buf.size * ByteBits

\* An instant is stored within a tick of what was given, before and after 1970, and
\* saving what was read makes it drift no farther: what is stored is what the
\* instant that is read is stored as.  Every form of a UUID is stored as one, but
\* for a hexadecimal string in capitals.
ValuesStable ==
    /\ stamp # NoStamp =>
        LET back == StampToPython(stamp.stored, stamp.resolution)
            off == back - stamp.given
        IN  /\ StampToDb(back, stamp.resolution) = stamp.stored
            /\ -Micros < off * stamp.resolution /\ off * stamp.resolution <= Micros \div 2
    /\ \A f \in UuidForms \ {"HEX"} : UuidToDb(f) = "hex"
    /\ \A f \in UuidForms \ {"dashed"} : BinaryToDb(f) = "raw"

\* What is read is what was meant: flags do not disturb each other, and a value
\* that was stored and read is stored again as the same.
FieldsKeepValues == FlagsApart /\ ValuesStable
=============================================================================
