------------------------------ MODULE CodeSearch ------------------------------
(***************************************************************************)
(* The other three scans of src/protohelper/helper.go: FindCode and        *)
(* CodeList over the bytes of a whole file in memory, FindCodeByReader     *)
(* over a seekable file. One step is one iteration of the scan's loop.     *)
(***************************************************************************)
EXTENDS DatFile, SequencesExt

CONSTANTS
    Files,  \* the files a scan may be given
    Codes   \* the codes a caller looks for

ASSUME FilesAssumption == \A f \in Files : IsFile(f)

(* A code is a word: nothing is called by it that is not a name of a sound *)
(* entry (IsFile). *)
ASSUME CodesAssumption ==
    /\ Codes \subseteq Seq(Nat)
    /\ \A f \in Files : \A s \in f.starts :
         HasName(f, s) /\ Name(f, s) \in Codes \ {<< >>} => s \in Named(f)

Scans == {"FindCode", "FindCodeByReader", "CodeList"}

NoBody == [Offset |-> -1, Size |-> -1]

VARIABLES
    file, scan, code,
    pos,     \* where the rest of the data, or the reader, stands
    found,   \* the body a search returns, or NoBody for nil
    names,   \* the list CodeList returns
    pc

input == <<file, scan, code>>

vars == <<input, pos, found, names, pc>>

Init ==
    /\ file \in Files
    /\ scan \in Scans
    /\ code \in Codes
    /\ pos = 0
    /\ found = NoBody
    /\ names = << >>
    /\ pc = "scan"

-----------------------------------------------------------------------------
InMemory == scan # "FindCodeByReader"

(* The slip next to it does not ask whether the body is all there. *)
NeverCut(s) == FALSE

BodyCut(s) == End(file, s) > Size(file)

(* A loop returns before it looks at a name when it searches for nothing,  *)
(* or when the header, the body (in memory) or its first two bytes (by the *)
(* reader) are not all there.                                              *)
NothingToFind == scan # "CodeList" /\ code = << >>

HasEntry(s) ==
    /\ HasHead(file, s)
    /\ IF InMemory THEN ~ BodyCut(s) ELSE HasName(file, s)

Stop(how) == pc' = how /\ UNCHANGED <<input, pos, found, names>>

Quit == pc = "scan" /\ (NothingToFind \/ ~ HasEntry(pos)) /\ Stop("done")

AtEntry == pc = "scan" /\ ~ NothingToFind /\ HasEntry(pos)

(* data[1] is past the end of the data: Go panics. *)
Panic == AtEntry /\ ~ HasName(file, pos) /\ Stop("panic")

AtName == AtEntry /\ HasName(file, pos)

(* The name is the code; the slip compares as far as the code goes. *)
BeginsWithCode(s) ==
    /\ NameLen(file, s) >= Len(code)
    /\ Field(file, Body(file, s) + 2, Len(code)) = code

Matches(s) == NameLen(file, s) = Len(code) /\ Name(file, s) = code

(* After the last entry an in-memory loop returns, after another one goes  *)
(* on; the slips go on from the end of the header, or do not advance.      *)
FromBody(s) == Body(file, s)

Again(s) == s

After(s) == End(file, s)

Proceed ==
    /\ IF After(pos) = Size(file)
       THEN pc' = "done" /\ pos' = pos
       ELSE pc' = pc /\ pos' = After(pos)
    /\ UNCHANGED <<input, found>>

Give ==
    /\ found' = [Offset |-> Body(file, pos), Size |-> BodyLen(file, pos)]
    /\ pc' = "done"
    /\ UNCHANGED <<input, pos, names>>

(* data[2+i] is past the end: the name would be as long as the code, what  *)
(* there is of it agrees with the code, and the next byte is missing.      *)
RunsOut(s) ==
    LET there == Size(file) - Body(file, s) - 2
    IN  /\ NameLen(file, s) = Len(code)
        /\ ~ NameWhole(file, s)
        /\ Field(file, Body(file, s) + 2, there) = SubSeq(code, 1, there)

FindCode ==
    /\ scan = "FindCode"
    /\ AtName
    /\ \/ RunsOut(pos) /\ Stop("panic")
       \/ Matches(pos) /\ Give
       \/ ~ Matches(pos) /\ ~ RunsOut(pos) /\ Proceed /\ UNCHANGED names

(* The reader reads a name only when its length is the code's: it stands   *)
(* after what it read of the name, or before the name, when it seeks. A    *)
(* seek to before the file fails and moves nothing.                        *)
FindCodeByReader ==
    /\ scan = "FindCodeByReader"
    /\ AtName
    /\ LET size    == IF NameLen(file, pos) = Len(code) THEN Len(code) ELSE 0
           atName  == Body(file, pos) + 2
           standAt == IF size > 0 /\ ~ NameWhole(file, pos) THEN Size(file)
                      ELSE atName + size
           to      == standAt + (BodyLen(file, pos) - 2 - size)
       IN  \/ /\ Matches(pos)
              /\ IF BodyCut(pos) THEN Stop("done") ELSE Give
           \/ /\ ~ Matches(pos)
              /\ pos' = IF to >= 0 THEN to ELSE standAt
              /\ UNCHANGED <<input, found, names, pc>>

(* The end of the slice data[2:size+2] is a byte, as size is: for the two  *)
(* greatest sizes it wraps to less than the beginning. *)
SliceWraps(s) == (NameLen(file, s) + 2) % (2 * Base) < 2

(* CodeList keeps every name that is not empty. Past the end of the data   *)
(* the slice reaches into the rest of the buffer that os.ReadFile made, of *)
(* zeros, if that is large enough; else Go panics. *)
CodeList ==
    /\ scan = "CodeList"
    /\ AtName
    /\ \/ /\ NameLen(file, pos) = 0
          /\ Proceed
          /\ UNCHANGED names
       \/ /\ NameLen(file, pos) > 0
          /\ ~ SliceWraps(pos)
          /\ names' = Append(names, Name(file, pos))
          /\ Proceed
       \/ /\ NameLen(file, pos) > 0
          /\ SliceWraps(pos) \/ ~ NameWhole(file, pos)
          /\ Stop("panic")

Next == Quit \/ Panic \/ FindCode \/ FindCodeByReader \/ CodeList

Spec == Init /\ [][Next]_vars

FairSpec == Spec /\ WF_vars(Next)

-----------------------------------------------------------------------------
(* Types of the scans' state; an in-memory scan always stands between two  *)
(* entries. *)
TypeOK ==
    /\ input \in Files \X Scans \X Codes
    /\ pos \in IF InMemory THEN file.starts ELSE Nat
    /\ found = NoBody \/ found \in [Offset : Nat, Size : Nat]
    /\ names \in Seq(Seq(Nat))
    /\ pc \in {"scan", "done", "panic"}

(* The reader is where it has no business to be, like that of CodeIndex. *)
Astray == ~ InMemory /\ ~ NamesHold(file)

Carrying(w) == {s \in Named(file) : Name(file, s) = w}

(* A search finds the first entry of the code, to the byte, and finds      *)
(* nothing when there is none or when the end of the file cuts that entry, *)
(* whatever entries are before it: codes one of which begins with the      *)
(* other, nameless and hollow ones. The reader goes astray behind a hollow *)
(* entry whose name is cut. (FindCode, FindCodeByReader)                   *)
FindsFirst ==
    pc = "done" /\ scan # "CodeList" /\ ~ Astray =>
        IF Carrying(code) = {} THEN found = NoBody
        ELSE LET s == CHOOSE t \in Carrying(code) : \A u \in Carrying(code) : t <= u
             IN  found = IF BodyCut(s) THEN NoBody
                         ELSE [Offset |-> Body(file, s), Size |-> BodyLen(file, s)]

Held == {s \in Named(file) : ~ BodyCut(s)}

HasHollow == \E s \in file.starts : HasHead(file, s) /\ Hollow(file, s)

(* The place of an entry among them. *)
Place(s) == Cardinality({t \in Held : t <= s})

(* CodeList returns the name of every entry the file holds all of, and, if *)
(* there are no hollow entries, whose names are made up, nothing else and  *)
(* in the order of the entries. (CodeList)                                 *)
ListsNames ==
    pc = "done" /\ scan = "CodeList" =>
        /\ \A s \in Held : \E i \in DOMAIN names : names[i] = Name(file, s)
        /\ ~ HasHollow =>
             /\ Len(names) = Cardinality(Held)
             /\ \A s \in Held : names[Place(s)] = Name(file, s)

(* A scan in memory panics only at a hollow entry (ToGeosite writes one    *)
(* for a code that does not exist, in non-strict mode), never on a file    *)
(* that is merely cut, and only if what it takes for the name of that      *)
(* entry has no length byte, is not all there, or, in CodeList, has one of *)
(* the two greatest lengths, because the next entry's length begins with   *)
(* such a byte. (data[1], data[2+i] and data[2:size+2])                    *)
PanicsOnlyOnHollow ==
    pc = "panic" =>
        /\ InMemory
        /\ HasHead(file, pos) /\ Hollow(file, pos)
        /\ \/ ~ HasName(file, pos)
           \/ ~ NameWhole(file, pos) /\ scan = "CodeList"
           \/ ~ NameWhole(file, pos) /\ NameLen(file, pos) = Len(code)
           \/ scan = "CodeList" /\ NameLen(file, pos) \in {2 * Base - 2, 2 * Base - 1}

(* Every scan ends, but for a reader that has gone astray. (the loops of   *)
(* FindCode, FindCodeByReader, CodeList)                                   *)
Terminates == Astray \/ <>(pc # "scan")
=============================================================================
