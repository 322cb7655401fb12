----------------------------- MODULE GeoIPExtract -----------------------------
(***************************************************************************)
(* The geoip commands (src/geoip/dataReader.go): Extract (and ToRuleSet,   *)
(* which wraps it), ToQuantumultX, ToGeoIP and FindIP, in the low memory   *)
(* mode, which walks the index of the file and reads the wanted entries    *)
(* one by one, and in the in-memory mode, which searches for each wanted   *)
(* code. Both walk a Go map, in no particular order. Of the scans only     *)
(* what CodeIndex and CodeSearch establish is used: the index has the last *)
(* entry of a name, cut or not, a search finds the first one, if it is     *)
(* whole.                                                                  *)
(***************************************************************************)
EXTENDS Sifting, SequencesExt

CONSTANTS
    Codes,  \* the names of entries
    Nets,   \* the networks of ranges
    Files,  \* [entries : sequence of Entries, tail : how the file ends]
    Wants,  \* the sets of codes a user may ask for
    IPs,    \* addresses to look up: [fam, net]
    Modes   \* a set of values of -lowmem

(* A range is of family 4 or 6, in a network, with a prefix length; length *)
(* 0 has every address of the family. The tail of a file is whole, or      *)
(* misses some of the last body, or just its last byte, the length of the  *)
(* last range.                                                             *)
Ranges == [fam : {4, 6}, net : Nets, len : Nat]

Entries == [code : Codes, cidrs : Seq(Ranges)]

Tails == {"whole", "body", "byte"}

ASSUME FilesAssumption ==
    \A f \in Files :
        /\ f.entries \in Seq(Entries)
        /\ f.tail \in Tails
        /\ f.tail # "whole" =>
             f.entries # << >> /\ f.entries[Len(f.entries)].cidrs # << >>

Commands == {"Extract", "ToQuantumultX", "ToGeoIP", "FindIP"}

VARIABLES
    file, cmd, lowmem, want, v4, v6, strict, ip,   \* the file, the command
    fams,       \* the families the current pass over the file allows
    pending,    \* the keys of the map still to be visited
    list,       \* the ranges, the entries or the codes collected so far
    list4,      \* the result of ToQuantumultX's first pass
    out,        \* what the command gives its caller
    pc

input == <<file, cmd, lowmem, want, v4, v6, strict, ip>>

vars == <<input, fams, pending, list, list4, out, pc>>

Numbers == DOMAIN file.entries

Code(n) == file.entries[n].code

CodesIn == {Code(n) : n \in Numbers}

IsCut(n) == n = Len(file.entries) /\ file.tail # "whole"

-----------------------------------------------------------------------------
(* The entry the index, or a search, has for a code; 0 if it has none.     *)
LastWith(c) ==
    IF c \in CodesIn
    THEN CHOOSE n \in Numbers : Code(n) = c /\ \A m \in Numbers : Code(m) = c => m <= n
    ELSE 0

FirstWith(c) ==
    IF c \in CodesIn
    THEN LET n == CHOOSE n \in Numbers : Code(n) = c /\ \A m \in Numbers : Code(m) = c => n <= m
         IN  IF IsCut(n) THEN 0 ELSE n
    ELSE 0

(* What proto.Unmarshal makes of the bytes of an entry, those past the end *)
(* of the file being zero: an error and the ranges before it, or, when     *)
(* only the last byte is missing, a last range of length 0 and no error.   *)
Unmarshal(n) ==
    LET cidrs == file.entries[n].cidrs
        last  == Len(cidrs)
    IN  IF ~ IsCut(n) THEN {[ok |-> TRUE, cidrs |-> cidrs]}
        ELSE IF file.tail = "byte"
        THEN {[ok |-> TRUE, cidrs |-> [cidrs EXCEPT ![last].len = 0]]}
        ELSE {[ok |-> FALSE, cidrs |-> SubSeq(cidrs, 1, k)] : k \in 0 .. last - 1}

(* The family filter of each mode. The in-memory one puts a range that is  *)
(* of version 4 and not allowed to the else branch, with the others. The   *)
(* slip has no filter.                                                     *)
AnyFamily(cidr) == TRUE

Allowed(cidr) == IF cidr.fam = 4 THEN 4 \in fams ELSE 6 \in fams

AllowedInMemory(cidr) == (cidr.fam = 4 /\ 4 \in fams) \/ 6 \in fams

Passes(cidr) == IF lowmem THEN Allowed(cidr) ELSE AllowedInMemory(cidr)

Filtered(cidrs) == Sifted(cidrs, {r \in ToSet(cidrs) : Passes(r)})

HasAddress(cidr, a) ==
    cidr.fam = a.fam /\ (cidr.len = 0 \/ cidr.net = a.net)

-----------------------------------------------------------------------------
Flags(on4, on6) == (IF on4 THEN {4} ELSE {}) \cup (IF on6 THEN {6} ELSE {})

(* The keys of the map a pass walks: the index, or the wanted codes.       *)
Keys == IF lowmem \/ cmd \in {"ToGeoIP", "FindIP"} THEN CodesIn ELSE want

Init ==
    /\ file \in Files
    /\ cmd \in Commands
    /\ lowmem \in Modes
    /\ want \in Wants
    /\ v4 \in BOOLEAN
    /\ v6 \in BOOLEAN
    /\ strict \in BOOLEAN
    /\ ip \in IPs
    /\ fams = IF cmd = "ToQuantumultX" THEN {4} ELSE Flags(v4, v6)
    /\ pending = Keys
    /\ list = << >>
    /\ list4 = << >>
    /\ out = << >>
    /\ pc = "pass"

Parses == cmd \in {"Extract", "ToQuantumultX"}

(* A pass that fails returns nil for the list; the slip what it has.       *)
FailWithList == pc' = "failed" /\ UNCHANGED list

Fail == list' = << >> /\ pc' = "failed"

(* MustExist: may a code that does not exist be passed over? *)
MayBeMissing == ~ strict

(* One code of the index, in the low memory mode. The buffer is never nil, *)
(* so a code that is not there is not noticed.                             *)
VisitLowMem(c) ==
    /\ pc = "pass" /\ Parses /\ lowmem
    /\ c \in pending
    /\ pending' = pending \ {c}
    /\ \/ c \notin want /\ UNCHANGED <<list, pc>>
       \/ /\ c \in want
          /\ \E geoip \in Unmarshal(LastWith(c)) :
               IF geoip.ok
               THEN list' = list \o Filtered(geoip.cidrs) /\ pc' = pc
               ELSE Fail
    /\ UNCHANGED <<input, fams, list4, out>>

(* One wanted code, in the in-memory mode. *)
VisitInMemory(c) ==
    /\ pc = "pass" /\ Parses /\ ~ lowmem
    /\ c \in pending
    /\ pending' = pending \ {c}
    /\ \/ /\ FirstWith(c) # 0
          /\ list' = list \o Filtered(file.entries[FirstWith(c)].cidrs)
          /\ pc' = pc
       \/ FirstWith(c) = 0 /\ ~ MayBeMissing /\ Fail
       \/ FirstWith(c) = 0 /\ MayBeMissing /\ UNCHANGED <<list, pc>>
    /\ UNCHANGED <<input, fams, list4, out>>

(* ToGeoIP keeps the wanted entries that have ranges, FindIP the names of  *)
(* the entries that have the address; both ignore what Unmarshal says.     *)
Hits(cidrs) == {i \in DOMAIN cidrs : HasAddress(cidrs[i], ip)}

(* The slips: a code for every range that has the address; entries kept    *)
(* whether they are wanted or not.                                         *)
FoundOften(c, cidrs) == [i \in 1 .. Cardinality(Hits(cidrs)) |-> c]

KeptAll(c, cidrs) == IF cidrs # << >> THEN <<[code |-> c, cidrs |-> cidrs]>> ELSE << >>

Found(c, cidrs) == IF Hits(cidrs) # {} THEN <<c>> ELSE << >>

ToGeoIP(c, cidrs) == IF c \in want /\ cidrs # << >>
                     THEN <<[code |-> c, cidrs |-> cidrs]>> ELSE << >>

VisitEntry(c) ==
    /\ pc = "pass" /\ ~ Parses
    /\ c \in pending
    /\ pending' = pending \ {c}
    /\ \E geoip \in Unmarshal(LastWith(c)) : 
         list' = list \o IF cmd = "ToGeoIP" THEN ToGeoIP(c, geoip.cidrs)
                         ELSE Found(c, geoip.cidrs)
    /\ UNCHANGED <<input, fams, list4, out, pc>>

-----------------------------------------------------------------------------
(* The end of a pass. Extract turns an empty list into an error.           *)
EndExtract ==
    /\ cmd = "Extract"
    /\ (pc = "pass" /\ pending = {}) \/ pc = "failed"
    /\ out' = list
    /\ pc' = IF list = << >> THEN "error" ELSE "done"
    /\ UNCHANGED <<input, fams, pending, list, list4>>

EndEntries ==
    /\ ~ Parses
    /\ pc = "pass" /\ pending = {}
    /\ out' = list
    /\ pc' = "done"
    /\ UNCHANGED <<input, fams, pending, list, list4>>

Lines(rule, cidrs) == [i \in DOMAIN cidrs |-> [rule |-> rule, cidr |-> cidrs[i]]]

(* ToQuantumultX makes a pass for each family and drops the errors.        *)
EndPass4 ==
    /\ cmd = "ToQuantumultX" /\ fams = {4}
    /\ (pc = "pass" /\ pending = {}) \/ pc = "failed"
    /\ list4' = Lines("ip-cidr", list)
    /\ fams' = {6}
    /\ pending' = Keys
    /\ list' = << >>
    /\ pc' = "pass"
    /\ UNCHANGED <<input, out>>

(* Which list it returns; with both families off that is the first one.    *)
BothLists(first, second) == first \o second

QXResult(first, second) ==
    IF ~ v6 THEN first ELSE IF ~ v4 THEN second ELSE first \o second

EndPass6 ==
    /\ cmd = "ToQuantumultX" /\ fams = {6}
    /\ (pc = "pass" /\ pending = {}) \/ pc = "failed"
    /\ out' = QXResult(list4, Lines("ip6-cidr", list))
    /\ pc' = "done"
    /\ UNCHANGED <<input, fams, pending, list, list4>>

Next ==
    \/ \E c \in CodesIn : VisitLowMem(c)
    \/ \E c \in want : VisitInMemory(c)
    \/ \E c \in CodesIn : VisitEntry(c)
    \/ EndExtract \/ EndEntries \/ EndPass4 \/ EndPass6

Spec == Init /\ [][Next]_vars
-----------------------------------------------------------------------------
(* Types of the commands' state. *)
Collected ==
    IF Parses THEN Ranges ELSE IF cmd = "ToGeoIP" THEN Entries ELSE Codes

TypeOK ==
    /\ input \in Files \X Commands \X Modes \X Wants
                  \X BOOLEAN \X BOOLEAN \X BOOLEAN \X IPs
    /\ fams \subseteq {4, 6}
    /\ pending \subseteq CodesIn \cup want
    /\ list \in Seq(Collected)
    /\ list4 \in Seq([rule : {"ip-cidr"}, cidr : Ranges])
    /\ pc \in {"pass", "failed", "done", "error"}
    /\ pc = "failed" => list = << >>

(* The entry a mode takes for a code, and the ranges of a family that the  *)
(* wanted codes have in these entries.                                     *)
Source(c) == IF lowmem THEN LastWith(c) ELSE FirstWith(c)

Wanted(fam) ==
    {r \in UNION {ToSet(file.entries[Source(c)].cidrs) : c \in {w \in want : Source(w) # 0}} :
        r.fam = fam}

CutWanted == \E c \in want : LastWith(c) # 0 /\ IsCut(LastWith(c))

(* The low memory mode does not notice that the last byte is missing. *)
Unnoticed == lowmem /\ file.tail = "byte" /\ CutWanted

(* Why a pass over the file fails: something wanted is cut, or, in strict  *)
(* in-memory mode, not found.                                              *)
Excused ==
    \/ lowmem /\ CutWanted
    \/ ~ lowmem /\ strict /\ \E c \in want : FirstWith(c) = 0

(* Extract gives the ranges of the allowed families of all the wanted      *)
(* codes that exist, and only these; a wanted code that is cut is an error *)
(* in the low memory mode and does not exist in the in-memory one, where a *)
(* strict Extract that succeeds has found every code. Two cases apart: an  *)
(* unnoticed cut, and the in-memory mode with IPv6 only (FamilyFilter).    *)
(* (generateEntries, generateEntriesFromFile, Extract)                     *)
ExtractExact ==
    cmd = "Extract" /\ ~ Unnoticed /\ (lowmem \/ v4 \/ ~ v6) =>
        /\ pc = "done" =>
             /\ ToSet(out) = (IF v4 THEN Wanted(4) ELSE {})
                               \cup (IF v6 THEN Wanted(6) ELSE {})
             /\ ~ (lowmem /\ CutWanted)
             /\ ~ lowmem /\ strict => \A c \in want : FirstWith(c) # 0
        /\ pc = "error" =>
             \/ (IF v4 THEN Wanted(4) ELSE {}) \cup (IF v6 THEN Wanted(6) ELSE {}) = {}
             \/ lowmem /\ CutWanted
             \/ ~ lowmem /\ strict /\ \E c \in want : FirstWith(c) = 0

(* The IPv4 ranges the IPv6 pass of the in-memory mode lets through.       *)
Stray == IF lowmem THEN {} ELSE Wanted(4)

(* If a family is allowed ToQuantumultX gives every wanted range of the    *)
(* allowed families with the rule of its family, and nothing else, but     *)
(* that                                                                    *)
(*  - when the passes fail, and that is for a reason, both lists are empty *)
(*    and nobody is told;                                                  *)
(*  - the in-memory mode gives the IPv4 ranges an ip6-cidr rule as well;   *)
(*  - nothing is said of an unnoticed cut. (ToQuantumultX)                 *)
QXExact ==
    cmd = "ToQuantumultX" /\ ~ Unnoticed /\ (v4 \/ v6) /\ pc = "done" =>
        ToSet(out) =
            IF Excused THEN {}
            ELSE (IF v4 THEN {[rule |-> "ip-cidr", cidr |-> r] : r \in Wanted(4)} ELSE {})
                 \cup
                 (IF v6 THEN {[rule |-> "ip6-cidr", cidr |-> r] : r \in Wanted(6) \cup Stray}
                        ELSE {})

(* FindIP names exactly the codes one of whose ranges has the address,     *)
(* each one once, on a file that is not cut. (FindIP)                      *)
FindIPExact ==
    cmd = "FindIP" /\ file.tail = "whole" /\ pc = "done" =>
        /\ ToSet(out) = {c \in CodesIn : Hits(file.entries[LastWith(c)].cidrs) # {}}
        /\ Len(out) = Cardinality(ToSet(out))

(* May these ranges be what is left of an entry? Of one that is cut in its *)
(* body these are fewer than there were, the first ones; one that misses   *)
(* its last byte has all of them, the last one with length 0.              *)
LeftOf(n, cidrs) ==
    LET all == file.entries[n].cidrs
    IN  IF ~ IsCut(n) THEN cidrs = all
        ELSE IF file.tail = "byte" THEN cidrs = [all EXCEPT ![Len(all)].len = 0]
        ELSE Len(cidrs) < Len(all) /\ cidrs = SubSeq(all, 1, Len(cidrs))

(* Is something left of an entry for sure?                                 *)
Remains(n) == file.entries[n].cidrs # << >> /\ ~ (IsCut(n) /\ file.tail = "body")

(* ToGeoIP writes the wanted entries that have ranges, each code once, and *)
(* nothing else. They are unchanged but for one that is cut: it is written *)
(* with the ranges before the cut, if there are any, or with a last range  *)
(* that has become the whole family when only the last byte is missing.    *)
(* (ToGeoIP)                                                               *)
ToGeoIPExact ==
    cmd = "ToGeoIP" /\ pc = "done" =>
        /\ \A g \in ToSet(out) :
             /\ g.code \in want \cap CodesIn
             /\ g.cidrs # << >> /\ LeftOf(LastWith(g.code), g.cidrs)
        /\ \A i, j \in DOMAIN out : out[i].code = out[j].code => i = j
        /\ \A c \in want \cap CodesIn :
             Remains(LastWith(c)) => \E g \in ToSet(out) : g.code = c

(* What the flags promise: in strict mode a code that does not exist is an *)
(* error; IPv4 ranges are put out only if IPv4 output is enabled.          *)
(* (MustExist and the family tests of the two loops)                       *)
StrictMode ==
    cmd \in {"Extract", "ToGeoIP"} /\ strict /\ pc = "done" => want \subseteq CodesIn

FamilyFilter ==
    cmd = "Extract" /\ pc = "done" =>
        \A i \in DOMAIN out : out[i].fam = 4 => v4
=============================================================================
