------------------------------- MODULE DatFile -------------------------------
(***************************************************************************)
(* The layout of a v2ray .dat file (geosite.dat, geoip.dat) as the hand    *)
(* written scanners of src/protohelper see it: a run of entries, each one  *)
(*                                                                         *)
(*     tag | varint: length of the body | body                             *)
(*                                                                         *)
(* whose body begins with the name of the code it holds:                   *)
(*                                                                         *)
(*     tag | one byte: length of the name | name | rest                    *)
(*                                                                         *)
(* A file is a record of its bytes, as they are on disk, and of the        *)
(* offsets at which its entries begin. Offsets count from 0 as in the      *)
(* code: the byte at offset p is bytes[p + 1]. A varint digit counts Base  *)
(* values (128 in the code) and a byte of Base or more continues it.       *)
(***************************************************************************)
EXTENDS Integers, Sequences

CONSTANTS
    Base,       \* 2^7: what one byte of a varint can count
    MaxVarint,  \* the longest varint decodeVarint accepts (10 bytes)
    HeaderLen   \* the bytes a scanner reads ahead for a header (30)

ASSUME LayoutAssumption ==
    /\ Base \in Nat \ {0, 1}
    /\ MaxVarint \in Nat \ {0}
    /\ HeaderLen \in Nat
    /\ HeaderLen > MaxVarint

Size(f) == Len(f.bytes)

(* Is there a varint of n bytes at offset p? *)
IsVarint(f, p, n) ==
    /\ p + n <= Size(f)
    /\ f.bytes[p + n] < Base
    /\ \A i \in 1 .. n - 1 : f.bytes[p + i] >= Base

(* The first byte has the lowest digit. *)
VarintValue(f, p, n) ==
    LET digit == [k \in 1 .. n |-> f.bytes[p + n + 1 - k] % Base]
        upTo[k \in 0 .. n] == IF k = 0 THEN 0 ELSE upTo[k - 1] * Base + digit[k]
    IN  upTo[n]

-----------------------------------------------------------------------------
(* What the scanners compute from the header of the entry at offset s.     *)

HasHead(f, s) == \E n \in 1 .. MaxVarint : IsVarint(f, s + 1, n)

VarintLen(f, s) == CHOOSE n \in 1 .. MaxVarint : IsVarint(f, s + 1, n)

Body(f, s) == s + 1 + VarintLen(f, s)

BodyLen(f, s) == VarintValue(f, s + 1, VarintLen(f, s))

End(f, s) == Body(f, s) + BodyLen(f, s)

(* The name field: its length byte and the bytes after it, those past the  *)
(* end of the file read as the zeros of a fresh Go buffer.                 *)

HasName(f, s) == HasHead(f, s) /\ Body(f, s) + 2 <= Size(f)

NameLen(f, s) == f.bytes[Body(f, s) + 2]

Field(f, p, n) ==
    [i \in 1 .. n |-> IF p + i <= Size(f) THEN f.bytes[p + i] ELSE 0]

Name(f, s) == Field(f, Body(f, s) + 2, NameLen(f, s))

-----------------------------------------------------------------------------
(* NameWhole: the name field of s lies inside the file.                    *)
(* Framed: the body of s is long enough for its name, whose length is one  *)
(* varint digit; only a hollow entry, which has an empty body, is not.     *)
(* NamesHold: what is read as the name of a hollow entry, the bytes after  *)
(* it, is inside the file; it is not if the next entry is cut.             *)

Hollow(f, s) == BodyLen(f, s) = 0

NameWhole(f, s) == HasName(f, s) /\ Body(f, s) + 2 + NameLen(f, s) <= Size(f)

Framed(f, s) == NameLen(f, s) < Base /\ BodyLen(f, s) >= 2 + NameLen(f, s)

NamesHold(f) ==
    \A s \in f.starts : HasName(f, s) /\ Hollow(f, s) => NameWhole(f, s)

Named(f) ==
    {s \in f.starts : NameWhole(f, s) /\ Framed(f, s) /\ NameLen(f, s) > 0}

(***************************************************************************)
(* A file some run of a geosite or geoip compiler (or of geoview itself)   *)
(* produced, possibly cut short at its end. The entries follow one another *)
(* without gaps. What is read as the name of a hollow or cut entry holds a *)
(* tag byte or a zero and is no name of a sound entry.                     *)
(***************************************************************************)
IsFile(f) ==
    /\ f.bytes \in Seq(Nat)
    /\ \A i \in DOMAIN f.bytes : f.bytes[i] < 2 * Base
    /\ f.starts \subseteq 0 .. Size(f)
    /\ 0 \in f.starts
    /\ \A s \in f.starts : HasHead(f, s) =>
         /\ BodyLen(f, s) \in Nat \ {1}
         /\ End(f, s) <= Size(f) => End(f, s) \in f.starts
         /\ HasName(f, s) => Framed(f, s) \/ Hollow(f, s)
    /\ \A s, t \in f.starts :
         s < t => HasHead(f, s) /\ End(f, s) <= t
    /\ \A s \in f.starts, t \in Named(f) :
         HasName(f, s) /\ Name(f, s) = Name(f, t) => s \in Named(f)
=============================================================================
