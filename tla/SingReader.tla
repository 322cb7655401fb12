------------------------------ MODULE SingReader ------------------------------
(***************************************************************************)
(* Reading the codes of a sing-box geosite database: GeoSiteReader.Read    *)
(* (src/geosite/geosing.go) and the loops that call it for code after code *)
(* (extractSingGeoSite, Lookup, ToGeosite). The reader never seeks to an   *)
(* absolute position: each Read starts where the last one left the cursor, *)
(* which must be the end of the metadata, and counts the bytes it reads    *)
(* (ReadCounter) to find back there. Positions are relative to it.         *)
(*                                                                         *)
(* The database is a run of items. Item i takes the bytes from Start[i] to *)
(* Start[i + 1] and is a rule of type Type[i]; code c owns the Count[c]    *)
(* items from First[c] on. A file may end early, after Cut bytes.          *)
(***************************************************************************)
EXTENDS Integers, Sequences

CONSTANTS
    Codes,          \* the codes the metadata lists
    Absent,         \* names a user may want and the database has not
    NItems, Start, Type, First, Count,
    Cuts            \* the lengths a file may have

Items == 1 .. NItems

RuleTypes == {"Domain", "DomainSuffix", "DomainKeyword", "DomainRegex"}

ASSUME DatabaseAssumption ==
    /\ NItems \in Nat
    /\ Start \in [1 .. NItems + 1 -> Nat]
    /\ \A i, j \in 1 .. NItems + 1 : i < j => Start[i] < Start[j]
    /\ Type \in [Items -> RuleTypes]
    /\ First \in [Codes -> 1 .. NItems + 1]
    /\ Count \in [Codes -> Nat]
    /\ \A c \in Codes : First[c] + Count[c] <= NItems + 1
    /\ Cuts \subseteq Nat
    /\ Codes \cap Absent = {}

(* Who reads: Extract, ToRuleSet and ToQuantumultX read the codes the user *)
(* wants in one call of extractSingGeoSite; Lookup and ToGeosite call it   *)
(* for one code of the database after another and skip the ones that fail. *)
OneCall == {"Extract", "ToQuantumultX"}

OneByOne == {"Lookup"}

VARIABLES
    cut, caller, regex, strict, want,   \* the file and the command
    pending,    \* the wanted codes not read yet: Go maps have no order
    cur,        \* the code being read, if pc is "read"
    pos,        \* the cursor
    counter,    \* ReadCounter.count
    domain,     \* the items read so far
    got,        \* the items kept of each code that was read
    pc

input == <<cut, caller, regex, strict, want>>

vars == <<input, pending, cur, pos, counter, domain, got, pc>>

None == "none"

Init ==
    /\ cut \in Cuts
    /\ caller \in OneCall \cup OneByOne
    /\ regex \in BOOLEAN
    /\ strict \in BOOLEAN
    /\ want \in SUBSET (Codes \cup Absent)
    /\ caller \in OneByOne => want \subseteq Codes
    /\ pending = want
    /\ cur = None
    /\ pos = 0
    /\ counter = 0
    /\ domain = << >>
    /\ got = << >>
    /\ pc = "next"

-----------------------------------------------------------------------------
(* The flags each caller passes on, and the switch over the type of a rule,*)
(* where a regular expression falls through into the keyword case.         *)
AllowRegex == IF caller \in OneByOne THEN TRUE
              ELSE IF caller = "Extract" THEN regex ELSE FALSE

AllowKeyword == caller \in OneByOne

Kept(items, regexes, keywords) ==
    LET Keep(i) == CASE Type[i] = "DomainRegex"   -> regexes /\ keywords
                     [] Type[i] = "DomainKeyword" -> keywords
                     [] OTHER                     -> TRUE
    IN  SelectSeq(items, Keep)

(* A failed Read ends the whole call in strict mode (MustExist), unless    *)
(* the call was for that code alone; the slip skips whatever fails.        *)
SkipsAll == TRUE

SkipsFailed == ~ strict \/ caller \in OneByOne

Failed ==
    IF SkipsFailed THEN pc' = "next" /\ UNCHANGED got
    ELSE pc' = "error" /\ got' = << >>

-----------------------------------------------------------------------------
Missing(c) ==
    /\ pc = "next"
    /\ c \in pending \ Codes
    /\ pending' = pending \ {c}
    /\ Failed
    /\ UNCHANGED <<input, cur, pos, counter, domain>>

Index(c) == Start[First[c]]

(* Every Read has a ReadCounter of its own; the slip keeps one for all.    *)
OldCounter == counter

NewCounter == 0

SeekIndex(c) ==
    /\ pc = "next"
    /\ c \in pending \cap Codes
    /\ pending' = pending \ {c}
    /\ cur' = c
    /\ pos' = pos + Index(c)
    /\ counter' = NewCounter
    /\ domain' = << >>
    /\ pc' = "read"
    /\ UNCHANGED <<input, got>>

(* The cursor is at item i and the file holds all of it. *)
CanRead(i) == Start[i] = pos /\ Start[i + 1] <= cut

(* The slip reads one item too many. *)
ItemsAndOne == pc = "read" /\ Len(domain) <= Count[cur]

MoreItems == pc = "read" /\ Len(domain) < Count[cur]

ReadItem(i) ==
    /\ MoreItems
    /\ CanRead(i)
    /\ pos' = Start[i + 1]
    /\ counter' = counter + (Start[i + 1] - Start[i])
    /\ domain' = Append(domain, i)
    /\ UNCHANGED <<input, pending, cur, got, pc>>

(* The file ends first: the cursor is left at its end, or beyond it if it  *)
(* was there already.                                                      *)
ReadFails ==
    /\ MoreItems
    /\ \A i \in Items : ~ CanRead(i)
    /\ pos' = IF pos < cut THEN cut ELSE pos
    /\ counter' = counter + (pos' - pos)
    /\ Failed
    /\ UNCHANGED <<input, pending, cur, domain>>

(* The way back; the slip forgets the way from the metadata to the items.  *)
CountBack(index, count) == - count

WayBack(index, count) == - index - count

SeekBack ==
    /\ pc = "read"
    /\ Len(domain) = Count[cur]
    /\ pos' = pos + WayBack(Index(cur), counter)
    /\ got' = [c \in DOMAIN got \cup {cur} |->
                 IF c = cur THEN Kept(domain, AllowRegex, AllowKeyword)
                 ELSE got[c]]
    /\ pc' = "next"
    /\ UNCHANGED <<input, pending, cur, counter, domain>>

Finish ==
    /\ pc = "next"
    /\ pending = {}
    /\ pc' = "done"
    /\ UNCHANGED <<input, pending, cur, pos, counter, domain, got>>

Next ==
    \/ \E c \in Absent : Missing(c)
    \/ \E c \in Codes : SeekIndex(c)
    \/ \E i \in Items : ReadItem(i)
    \/ ReadFails
    \/ SeekBack
    \/ Finish

Spec == Init /\ [][Next]_vars

FairSpec == Spec /\ WF_vars(Next)

-----------------------------------------------------------------------------
(* Types of the reader's state. *)
TypeOK ==
    /\ cut \in Cuts
    /\ caller \in OneCall \cup OneByOne
    /\ regex \in BOOLEAN
    /\ strict \in BOOLEAN
    /\ want \subseteq Codes \cup Absent
    /\ pending \subseteq want
    /\ cur \in Codes \cup {None}
    /\ pos \in Nat
    /\ counter \in Nat
    /\ domain \in Seq(Items)
    /\ DOMAIN got \subseteq Codes
    /\ pc \in {"next", "read", "done", "error"}
    /\ pc = "read" => cur \in Codes

(* The items of a code, in the order of the database. *)
Own(c) == [k \in 1 .. Count[c] |-> First[c] + k - 1]

(* Between two reads the cursor is back at the end of the metadata, or it  *)
(* is at the end of the file or beyond: no read ever starts at a place     *)
(* from which it would decode the items of another code. (the two seeks    *)
(* and the ReadCounter of GeoSiteReader.Read)                              *)
CursorHome == pc = "next" => pos = 0 \/ pos >= cut

(* What was read of a code is what the database has of it: the kept items, *)
(* all of them and in order, whatever was read or failed before it.        *)
(* (GeoSiteReader.Read, extractSingGeoSite)                                *)
ReadExact == \A c \in DOMAIN got : got[c] = Kept(Own(c), AllowRegex, AllowKeyword)

(* A command that ends without an error in strict mode has all it wanted;  *)
(* on a whole file also any other has all of it that exists.               *)
(* (MustExist in extractSingGeoSite)                                       *)
NothingLost ==
    pc = "done" =>
        /\ strict /\ caller \in OneCall => DOMAIN got = want
        /\ cut = Start[NItems + 1] => DOMAIN got = want \cap Codes

(* -regex allows regex rules in the result of an extraction: the flag's    *)
(* description. (the switch of extractSingGeoSite)                         *)
RegexAllowed ==
    pc = "done" /\ caller = "Extract" /\ regex =>
        \A c \in DOMAIN got, i \in Items :
            /\ Type[i] = "DomainRegex"
            /\ \E k \in 1 .. Count[c] : Own(c)[k] = i
            => \E k \in DOMAIN got[c] : got[c][k] = i

(* Every command ends. (the loops of extractSingGeoSite and Read)          *)
Terminates == <>(pc \in {"done", "error"})
=============================================================================
