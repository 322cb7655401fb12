------------------------------ MODULE MCDatFile ------------------------------
(***************************************************************************)
(* Small files for the scanners of a .dat file: a few entries of a few     *)
(* names and payload lengths, some of them hollow or nameless, cut at any  *)
(* byte. With Base = 4 a body of four bytes or more has a two byte varint. *)
(***************************************************************************)
EXTENDS DatFile, SequencesExt

Tag == 2

(* An entry is the body it stands for; a hollow one has none. *)
BodyOf(name, pay) == <<Tag, Len(name)>> \o name \o [i \in 1 .. pay |-> Tag]

EmptyBody == << >>

VarintOf(x) == IF x < Base THEN <<x>> ELSE <<Base + (x % Base), x \div Base>>

EntryBytes(body) == <<Tag>> \o VarintOf(Len(body)) \o body

FileOf(bodies) ==
    LET parts == [i \in DOMAIN bodies |-> EntryBytes(bodies[i])]
        full  == FlattenSeq(parts)
    IN  [bytes  |-> full,
         starts |-> {Len(FlattenSeq(SubSeq(parts, 1, k))) : k \in 0 .. Len(parts)}]

CutAt(f, c) ==
    [bytes |-> SubSeq(f.bytes, 1, c), starts |-> {s \in f.starts : s <= c}]

(* Every file of at most n of the given bodies, and every prefix of one. *)
WholeFiles(bodies, n) == {FileOf(bs) : bs \in BoundedSeq(bodies, n)}

CutFiles(bodies, n) ==
    UNION {{CutAt(f, c) : c \in 0 .. Size(f)} : f \in WholeFiles(bodies, n)}
=============================================================================
