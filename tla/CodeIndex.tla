------------------------------ MODULE CodeIndex ------------------------------
(***************************************************************************)
(* CodeListByReader (src/protohelper/helper.go) over a ReadSeekTracker     *)
(* (src/protohelper/readerex.go): the scan that indexes a .dat file for    *)
(* the low memory mode. It reads ahead for a header, seeks back to the     *)
(* body, reads the name, computes the offset of the body from the tracked  *)
(* position and seeks over the rest of the body.                           *)
(***************************************************************************)
EXTENDS DatFile

CONSTANT Files  \* the files the scan may be given

ASSUME FilesAssumption == \A f \in Files : IsFile(f)

VARIABLES
    file,   \* the file being scanned
    pos,    \* the position of the operating system's file
    off,    \* ReadSeekTracker.pos: the position the tracker believes in
    bodyL,  \* bodyL and size: the header of the current entry
    size,
    list,   \* the index: from names to CodeIndex records
    pc

vars == <<file, pos, off, bodyL, size, list, pc>>

-----------------------------------------------------------------------------
Init ==
    /\ file \in Files
    /\ pos = 0
    /\ off = 0
    /\ bodyL = 0
    /\ size = 0
    /\ list = << >>
    /\ pc = "header"

(* How many of n bytes a read at p delivers. *)
Delivered(p, n) ==
    IF p + n <= Size(file) THEN n
    ELSE IF p <= Size(file) THEN Size(file) - p ELSE 0

(* ReadSeekTracker.Read and .Seek(d, SeekCurrent) move both positions; a   *)
(* seek to a negative position fails and moves neither.                    *)
MoveFromStart(d) == pos' = d /\ off' = off + d

Move(d) == pos' = pos + d /\ off' = off + d

Seek(d) == IF pos + d >= 0 THEN Move(d) ELSE UNCHANGED <<pos, off>>

(* The header is cut: fewer than two bytes are left, or the varint does    *)
(* not end inside the file. In the second case the code decodes what an    *)
(* earlier header left in the buffer, seeks past the end and fails there.  *)
HeaderCut == Delivered(pos, HeaderLen) < 2 \/ ~ HasHead(file, pos)

(* The scan returns; nobody uses the positions any more. *)
Return ==
    /\ pc = "header"
    /\ HeaderCut \/ ~ HasName(file, pos)
    /\ pc' = "done"
    /\ UNCHANGED <<file, pos, off, bodyL, size, list>>

(* Read ahead, seek back (or on) to the body, read two bytes of it. *)
ReadHeader ==
    /\ pc = "header"
    /\ ~ HeaderCut
    /\ HasName(file, pos)
    /\ LET count == Delivered(pos, HeaderLen)
           headL == 1 + VarintLen(file, pos)
       IN  Move(count + (headL - count) + 2)
    /\ bodyL' = BodyLen(file, pos)
    /\ size' = NameLen(file, pos)
    /\ pc' = "name"
    /\ UNCHANGED <<file, list>>

(* The offset of the body, from the position after the name; and how far   *)
(* it is from there to the end of the body. The slips next to them take    *)
(* the two bytes before the name for one, leave them out of the way to the *)
(* end, and go back to the body and stay there.                            *)
OneBeforeName(p, n) == p - n - 1

BodyBefore(p, n) == p - n - 2

ToEndOfName(body, n) == body - n

ToBody(body, n) == - 2 - n

ToEnd(body, n) == body - 2 - n

(* The code ignores the error of a short read of the name: the rest of the *)
(* name is zero and the tracker stands at the end of the file.             *)
ReadName ==
    /\ pc = "name"
    /\ size > 0
    /\ Move(Delivered(pos, size))
    /\ LET name == Field(file, pos, size)
       IN  list' = [w \in DOMAIN list \cup {name} |->
                      IF w = name
                      THEN [Offset |-> BodyBefore(off', size), Size |-> bodyL]
                      ELSE list[w]]
    /\ pc' = "skip"
    /\ UNCHANGED <<file, bodyL, size>>

NoName ==
    /\ pc = "name"
    /\ size = 0
    /\ pc' = "skip"
    /\ UNCHANGED <<file, pos, off, bodyL, size, list>>

SkipBody ==
    /\ pc = "skip"
    /\ Seek(ToEnd(bodyL, size))
    /\ pc' = "header"
    /\ UNCHANGED <<file, bodyL, size, list>>

Next == Return \/ ReadHeader \/ ReadName \/ NoName \/ SkipBody

(* The scan is one sequential loop that nothing blocks. *)
Spec == Init /\ [][Next]_vars

FairSpec == Spec /\ WF_vars(Next)

-----------------------------------------------------------------------------
(* Types of the scan's state. *)
TypeOK ==
    /\ file \in Files
    /\ pos \in Nat
    /\ off \in Int
    /\ bodyL \in Nat
    /\ size \in Nat
    /\ DOMAIN list \subseteq Seq(Nat)
    /\ \A w \in DOMAIN list : list[w] \in [Offset : Int, Size : Nat]
    /\ pc \in {"header", "name", "skip", "done"}

EntryOf(s) == [Offset |-> Body(file, s), Size |-> BodyLen(file, s)]

(* The tracker counts from the end of the name, or that of the file. *)
ListedAs(s) ==
    IF NameWhole(file, s) THEN EntryOf(s)
    ELSE [EntryOf(s) EXCEPT !.Offset = Size(file) - NameLen(file, s) - 2]

(* Whatever the index lists is the body of an entry of the file under the  *)
(* name that entry carries, to the byte, although the scan never seeks to  *)
(* an absolute position; the one exception is a name the end of the file   *)
(* cuts, which is listed zero-padded, at an offset that is too small by    *)
(* the bytes that are missing. Where the bytes taken for the name of a     *)
(* hollow entry are cut (NamesHold) the scan goes astray, and nothing is   *)
(* said. (CodeListByReader, tracked.Offset)                                *)
IndexSound ==
    NamesHold(file) =>
        \A w \in DOMAIN list :
            \E s \in file.starts :
                /\ HasName(file, s)
                /\ w = Name(file, s)
                /\ list[w] = ListedAs(s)

(* When the scan returns, every entry whose name is in the file is in the  *)
(* index, whatever hollow, nameless or damaged entries are around it,      *)
(* unless the name of a hollow one is cut; of several entries with one     *)
(* name the last one is. (CodeListByReader)                                *)
IndexComplete ==
    pc = "done" /\ NamesHold(file) =>
        \A t \in Named(file) :
            /\ Name(file, t) \in DOMAIN list
            /\ \E u \in Named(file) :
                 /\ u >= t
                 /\ Name(file, u) = Name(file, t)
                 /\ list[Name(file, t)] = EntryOf(u)

(* The scan returns on every file, cut ones included, but for those on     *)
(* which a seek takes it back to what it has read, where it may go round   *)
(* for ever: a hollow entry whose next one is cut, so that its name is     *)
(* read short and the seek over its body goes back by more than was read.  *)
(* (the loop of CodeListByReader)                                          *)
Terminates == NamesHold(file) => <>(pc = "done")
=============================================================================
