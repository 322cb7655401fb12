-------------------------- MODULE GeoIPExtractProofs --------------------------
(***************************************************************************)
(* For every set of files, whatever their entries and ranges, and every    *)
(* set of wanted codes: what the geoip commands put out. The invariant     *)
(* says what the list of a pass has after some of the keys are visited:    *)
(* the ranges (ToGeoIP: the entries, FindIP: the codes) that these keys    *)
(* account for, whatever the order of the visits.                          *)
(***************************************************************************)
EXTENDS GeoIPExtract, InductionFacts

(* What proto.Unmarshal makes of an entry that is not cut. *)
Cidrs(n) == file.entries[n].cidrs

Visited == Keys \ pending

(* The ranges a pass takes of some codes. *)
Taken(codes) ==
    {r \in UNION {ToSet(Cidrs(Source(c))) : c \in {w \in want \cap codes : Source(w) # 0}} :
        Passes(r)}

Passing ==
    Parses /\ ~ Unnoticed =>
        /\ pc = "pass" =>
             /\ ToSet(list) = Taken(Visited)
             /\ lowmem => \A c \in want \cap Visited : ~ IsCut(LastWith(c))
             /\ ~ lowmem /\ strict => \A c \in Visited : FirstWith(c) # 0
        /\ pc = "failed" => Excused

InFamilies ==
    /\ cmd = "Extract" => fams = Flags(v4, v6)
    /\ cmd = "ToQuantumultX" => fams \in {{4}, {6}}

FirstPass ==
    cmd = "ToQuantumultX" /\ fams = {6} /\ ~ Unnoticed =>
        ToSet(list4) = IF Excused THEN {}
                       ELSE {[rule |-> "ip-cidr", cidr |-> r] : r \in Wanted(4)}

HasIP(c) == Hits(Cidrs(LastWith(c))) # {}

Finding ==
    cmd = "FindIP" /\ file.tail = "whole" /\ pc = "pass" =>
        /\ ToSet(list) = {c \in Visited : HasIP(c)}
        /\ Len(list) = Cardinality(ToSet(list))

Gathering ==
    cmd = "ToGeoIP" /\ pc = "pass" =>
        /\ \A g \in ToSet(list) :
             /\ g.code \in want \cap Visited
             /\ g.cidrs # << >> /\ LeftOf(LastWith(g.code), g.cidrs)
        /\ \A i, j \in DOMAIN list : list[i].code = list[j].code => i = j
        /\ \A c \in want \cap Visited :
             Remains(LastWith(c)) => \E g \in ToSet(list) : g.code = c

IInv ==
    /\ TypeOK
    /\ pending \subseteq Keys
    /\ InFamilies
    /\ Passing
    /\ FirstPass
    /\ Finding
    /\ Gathering
    /\ ExtractExact /\ QXExact /\ FindIPExact /\ ToGeoIPExact

-----------------------------------------------------------------------------
(* What a command was asked does not change. *)
LEMMA SameInput ==
    ASSUME input' = input
    PROVE  /\ UNCHANGED <<file, cmd, lowmem, want, v4, v6, strict, ip>>
           /\ CodesIn' = CodesIn /\ Keys' = Keys /\ Parses' = Parses
           /\ Collected' = Collected
           /\ \A c : LastWith(c)' = LastWith(c) /\ FirstWith(c)' = FirstWith(c)
           /\ \A c : Source(c)' = Source(c)
           /\ \A n : IsCut(n)' = IsCut(n) /\ Cidrs(n)' = Cidrs(n)
           /\ CutWanted' = CutWanted /\ Unnoticed' = Unnoticed /\ Excused' = Excused
           /\ \A fam : Wanted(fam)' = Wanted(fam)
           /\ \A c : HasIP(c)' = HasIP(c)
           /\ Stray' = Stray
           /\ \A n : Remains(n)' = Remains(n)
           /\ \A n, s : LeftOf(n, s)' = LeftOf(n, s)
  <1>1. UNCHANGED <<file, cmd, lowmem, want, v4, v6, strict, ip>>
    BY DEF input
  <1>2. Numbers' = Numbers /\ CodesIn' = CodesIn
    BY <1>1 DEF Numbers, CodesIn, Code
  <1>3. Parses' = Parses /\ Keys' = Keys /\ Collected' = Collected
    BY <1>1, <1>2 DEF Parses, Keys, Collected
  <1>4. \A n : IsCut(n)' = IsCut(n) /\ Cidrs(n)' = Cidrs(n)
    BY <1>1 DEF IsCut, Cidrs
  <1>5. \A c : LastWith(c)' = LastWith(c)
    BY <1>1, <1>2 DEF LastWith, Code, CodesIn, Numbers
  <1>6. \A c : FirstWith(c)' = FirstWith(c)
    BY <1>1, <1>2 DEF FirstWith, Code, IsCut, CodesIn, Numbers
  <1>7. \A c : Source(c)' = Source(c)
    BY <1>1, <1>5, <1>6 DEF Source
  <1>8. CutWanted' = CutWanted /\ Unnoticed' = Unnoticed /\ Excused' = Excused
    BY <1>1, <1>4, <1>5, <1>6 DEF CutWanted, Unnoticed, Excused
  <1>9. \A fam : Wanted(fam)' = Wanted(fam)
    BY <1>1, <1>7 DEF Wanted
  <1>10. \A c : HasIP(c)' = HasIP(c)
    BY <1>1, <1>4, <1>5 DEF HasIP, Hits, HasAddress
  <1>11. Stray' = Stray
    BY <1>1, <1>9 DEF Stray
  <1>12. \A n : Remains(n)' = Remains(n)
    BY <1>1, <1>4 DEF Remains
  <1>13. \A n, s : LeftOf(n, s)' = LeftOf(n, s)
    BY <1>1, <1>4 DEF LeftOf
  <1> QED BY <1>1, <1>2, <1>3, <1>4, <1>5, <1>6, <1>7, <1>8, <1>9, <1>10, <1>11, <1>12, <1>13

-----------------------------------------------------------------------------
(* The entries of a file, and the ones a mode takes for a code. *)
LEMMA EntryFacts ==
    ASSUME file \in Files
    PROVE  /\ Len(file.entries) \in Nat /\ Numbers = 1 .. Len(file.entries)
           /\ \A n \in Numbers : Code(n) \in Codes /\ Cidrs(n) \in Seq(Ranges)
           /\ CodesIn \subseteq Codes
           /\ \A n \in Numbers : IsCut(n) => Len(Cidrs(n)) > 0
  <1>1. file.entries \in Seq(Entries)
    BY FilesAssumption
  <1>2. \A n \in Numbers : file.entries[n] \in Entries
    BY <1>1 DEF Numbers
  <1>3. \A n \in Numbers : Code(n) \in Codes /\ Cidrs(n) \in Seq(Ranges)
    BY <1>2 DEF Entries, Code, Cidrs
  <1>4. Len(file.entries) \in Nat /\ Numbers = 1 .. Len(file.entries)
    BY <1>1 DEF Numbers
  <1>5. \A n \in Numbers : IsCut(n) => Len(Cidrs(n)) > 0
    <2>1. \A n \in Numbers : IsCut(n) => Cidrs(n) # << >>
      BY FilesAssumption DEF IsCut, Cidrs
    <2> QED BY <1>3, <2>1
  <1> QED BY <1>3, <1>4, <1>5 DEF CodesIn

LEMMA LastFacts ==
    ASSUME file \in Files, NEW c
    PROVE  /\ c \in CodesIn => LastWith(c) \in Numbers /\ LastWith(c) # 0
           /\ c \notin CodesIn => LastWith(c) = 0
  <1> DEFINE with == {n \in Numbers : Code(n) = c}
             N == Len(file.entries)
  <1>1. CASE c \in CodesIn
    <2>1. with # {} /\ with \in SUBSET (0 .. N) /\ N \in Nat
      BY <1>1, EntryFacts DEF CodesIn
    <2> HIDE DEF with, N
    <2>2. \E n \in with : \A m \in with : m <= n
      BY <2>1, GreatestNumber
    <2>3. \E n \in Numbers : Code(n) = c /\ \A m \in Numbers : Code(m) = c => m <= n
      BY <2>2 DEF with
    <2>4. LastWith(c) \in Numbers
      BY <1>1, <2>3 DEF LastWith
    <2> QED BY <1>1, <2>4, EntryFacts
  <1>2. CASE c \notin CodesIn
    BY <1>2 DEF LastWith
  <1> QED BY <1>1, <1>2

LEMMA FirstFacts ==
    ASSUME file \in Files, NEW c, FirstWith(c) # 0
    PROVE  FirstWith(c) \in Numbers /\ ~ IsCut(FirstWith(c))
  <1> DEFINE with == {n \in Numbers : Code(n) = c}
             first == CHOOSE n \in Numbers :
                        Code(n) = c /\ \A m \in Numbers : Code(m) = c => n <= m
  <1>1. c \in CodesIn
    BY DEF FirstWith
  <1>2. with # {} /\ with \in SUBSET Nat
    BY <1>1, EntryFacts DEF CodesIn
  <1> HIDE DEF with
  <1>3. \E n \in with : \A m \in with : n <= m
    BY <1>2, LeastNumber
  <1>4. \E n \in Numbers : Code(n) = c /\ \A m \in Numbers : Code(m) = c => n <= m
    BY <1>3 DEF with
  <1>5. first \in Numbers
    BY <1>4
  <1>6. FirstWith(c) = IF IsCut(first) THEN 0 ELSE first
    BY <1>1 DEF FirstWith
  <1> HIDE DEF first
  <1> QED BY <1>5, <1>6

LEMMA SourceFacts ==
    ASSUME file \in Files, NEW c, Source(c) # 0
    PROVE  Source(c) \in Numbers /\ Cidrs(Source(c)) \in Seq(Ranges)
  BY LastFacts, FirstFacts, EntryFacts DEF Source

(* A last range whose length is lost is still a range. *)
LEMMA ZeroedType ==
    ASSUME NEW s \in Seq(Ranges), Len(s) > 0
    PROVE  [s EXCEPT ![Len(s)].len = 0] \in Seq(Ranges)
  <1> DEFINE n == Len(s)
             last == [s[n] EXCEPT !.len = 0]
  <1>1. n \in Nat /\ DOMAIN s = 1 .. n /\ \A i \in 1 .. n : s[i] \in Ranges
    OBVIOUS
  <1>2. s[n] \in Ranges
    BY <1>1
  <1>3. last \in Ranges
    BY <1>2 DEF Ranges
  <1> HIDE DEF last, n
  <1>4. [s EXCEPT ![n] = last] \in [1 .. n -> Ranges]
    BY <1>1, <1>3
  <1>5. [s EXCEPT ![n] = last] \in Seq(Ranges)
    BY <1>1, <1>4
  <1> QED BY <1>5 DEF last, n

(* An entry that is not cut is read as it is; the read of one that is cut  *)
(* fails, or only the last byte is missing. *)
LEMMA UnmarshalFacts ==
    ASSUME file \in Files, NEW n \in Numbers, NEW geoip \in Unmarshal(n)
    PROVE  /\ geoip.cidrs \in Seq(Ranges)
           /\ ~ IsCut(n) => geoip.ok /\ geoip.cidrs = Cidrs(n)
           /\ IsCut(n) /\ file.tail # "byte" => ~ geoip.ok
           /\ LeftOf(n, geoip.cidrs)
           /\ Remains(n) => geoip.cidrs # << >>
  <1>1. Cidrs(n) \in Seq(Ranges) /\ (IsCut(n) => Len(Cidrs(n)) > 0)
    BY EntryFacts
  <1>2. CASE ~ IsCut(n)
    BY <1>1, <1>2 DEF Unmarshal, Cidrs, LeftOf, Remains
  <1>3. CASE IsCut(n) /\ file.tail = "byte"
    <2> DEFINE last == Len(Cidrs(n))
    <2>1. geoip = [ok |-> TRUE, cidrs |-> [Cidrs(n) EXCEPT ![last].len = 0]]
      BY <1>3 DEF Unmarshal, Cidrs
    <2>2. [Cidrs(n) EXCEPT ![last].len = 0] \in Seq(Ranges)
      BY <1>1, <1>3, ZeroedType
    <2>3. LeftOf(n, geoip.cidrs)
      BY <1>3, <2>1 DEF LeftOf, Cidrs
    <2>4. geoip.cidrs # << >>
      <3>1. Len([Cidrs(n) EXCEPT ![last].len = 0]) = last /\ last > 0
        BY <1>1, <1>3
      <3> QED BY <2>1, <3>1
    <2> QED BY <1>3, <2>1, <2>2, <2>3, <2>4
  <1>4. CASE IsCut(n) /\ file.tail # "byte"
    <2>1. PICK k \in 0 .. Len(Cidrs(n)) - 1 :
             geoip = [ok |-> FALSE, cidrs |-> SubSeq(Cidrs(n), 1, k)]
      BY <1>4 DEF Unmarshal, Cidrs
    <2>2. SubSeq(Cidrs(n), 1, k) \in Seq(Ranges) /\ Len(SubSeq(Cidrs(n), 1, k)) = k
      BY <1>1
    <2>3. LeftOf(n, geoip.cidrs)
      BY <1>1, <1>4, <2>1, <2>2 DEF LeftOf, Cidrs
    <2>4. ~ Remains(n)
      <3>1. file.tail = "body"
        BY <1>4, FilesAssumption DEF Tails, IsCut
      <3> QED BY <1>4, <3>1 DEF Remains
    <2> QED BY <1>4, <2>1, <2>2, <2>3, <2>4
  <1> QED BY <1>2, <1>3, <1>4

LEMMA FilteredFacts ==
    ASSUME NEW cidrs \in Seq(Ranges)
    PROVE  /\ Filtered(cidrs) \in Seq(Ranges)
           /\ ToSet(Filtered(cidrs)) = {r \in ToSet(cidrs) : Passes(r)}
  <1> DEFINE S == {r \in ToSet(cidrs) : Passes(r)}
  <1>1. S \subseteq ToSet(cidrs) /\ Filtered(cidrs) = Sifted(cidrs, S)
    BY DEF Filtered
  <1> HIDE DEF S
  <1>2. Sifted(cidrs, S) \in Seq(Ranges) /\ ToSet(Sifted(cidrs, S)) = ToSet(cidrs) \cap S
    BY SiftedFacts
  <1>3. ToSet(Filtered(cidrs)) = S
    BY <1>1, <1>2
  <1> QED BY <1>1, <1>2, <1>3 DEF S

-----------------------------------------------------------------------------
(* What one more code adds to what a pass takes. *)
LEMMA TakenMore ==
    ASSUME NEW V, NEW c
    PROVE  Taken(V \cup {c}) =
             Taken(V) \cup IF c \in want /\ Source(c) # 0
                           THEN {r \in ToSet(Cidrs(Source(c))) : Passes(r)} ELSE {}
  BY DEF Taken

LEMMA SameTaken ==
    ASSUME input' = input, fams' = fams
    PROVE  \A V : Taken(V)' = Taken(V)
  <1>1. /\ want' = want /\ lowmem' = lowmem
        /\ \A c : Source(c)' = Source(c)
        /\ \A n : Cidrs(n)' = Cidrs(n)
    BY SameInput
  <1>2. \A r : Passes(r)' <=> Passes(r)
    BY <1>1 DEF Passes, Allowed, AllowedInMemory
  <1> QED BY <1>1, <1>2 DEF Taken

(* A pass that has visited every key. *)
LEMMA TakenAll ==
    ASSUME file \in Files, Parses
    PROVE  /\ Taken(Keys) = {r \in Wanted(4) \cup Wanted(6) : Passes(r)}
           /\ \A fam : Wanted(fam) \subseteq Ranges
           /\ \A fam : \A r \in Wanted(fam) : r.fam = fam
  <1> DEFINE sources == {w \in want : Source(w) # 0}
             U == UNION {ToSet(Cidrs(Source(c))) : c \in sources}
  <1>1. {w \in want \cap Keys : Source(w) # 0} = sources
    <2>1. CASE lowmem
      <3>1. Keys = CodesIn
        BY <2>1 DEF Keys
      <3>2. \A w : Source(w) # 0 => w \in CodesIn
        BY <2>1, LastFacts DEF Source
      <3> QED BY <3>1, <3>2
    <2>2. CASE ~ lowmem
      <3>1. Keys = want
        BY <2>2 DEF Keys, Parses
      <3> QED BY <3>1
    <2> QED BY <2>1, <2>2
  <1>2. U \subseteq Ranges
    <2>1. \A c \in sources : Cidrs(Source(c)) \in Seq(Ranges)
      BY SourceFacts
    <2> QED BY <2>1 DEF ToSet
  <1>3. \A r \in U : r.fam \in {4, 6}
    BY <1>2 DEF Ranges
  <1>4. \A fam : Wanted(fam) = {r \in U : r.fam = fam}
    BY DEF Wanted, Cidrs
  <1>5. Taken(Keys) = {r \in U : Passes(r)}
    BY <1>1 DEF Taken
  <1> HIDE DEF U
  <1>6. Wanted(4) \cup Wanted(6) = U
    BY <1>3, <1>4
  <1> QED BY <1>2, <1>4, <1>5, <1>6

LEMMA TakenByExtract ==
    ASSUME file \in Files, Parses, fams = Flags(v4, v6),
           v4 \in BOOLEAN, v6 \in BOOLEAN, lowmem \/ v4 \/ ~ v6
    PROVE  Taken(Keys) = (IF v4 THEN Wanted(4) ELSE {}) \cup (IF v6 THEN Wanted(6) ELSE {})
  <1>1. /\ Taken(Keys) = {r \in Wanted(4) \cup Wanted(6) : Passes(r)}
        /\ \A r \in Wanted(4) : r.fam = 4
        /\ \A r \in Wanted(6) : r.fam = 6
    BY TakenAll
  <1>2. (4 \in fams <=> v4) /\ (6 \in fams <=> v6)
    BY DEF Flags
  <1>3. \A r \in Wanted(4) : Passes(r) <=> v4
    BY <1>1, <1>2 DEF Passes, Allowed, AllowedInMemory
  <1>4. \A r \in Wanted(6) : Passes(r) <=> v6
    BY <1>1, <1>2 DEF Passes, Allowed, AllowedInMemory
  <1> QED BY <1>1, <1>3, <1>4

LEMMA TakenByPass ==
    ASSUME file \in Files, Parses, NEW fam \in {4, 6}, fams = {fam}
    PROVE  Taken(Keys) = Wanted(fam) \cup IF fam = 6 THEN Stray ELSE {}
  <1>1. /\ Taken(Keys) = {r \in Wanted(4) \cup Wanted(6) : Passes(r)}
        /\ \A r \in Wanted(4) : r.fam = 4
        /\ \A r \in Wanted(6) : r.fam = 6
    BY TakenAll
  <1>2. /\ \A r \in Wanted(4) : Passes(r) <=> fam = 4 \/ ~ lowmem
        /\ \A r \in Wanted(6) : Passes(r) <=> fam = 6
    BY <1>1 DEF Passes, Allowed, AllowedInMemory
  <1>3. CASE fam = 4
    BY <1>1, <1>2, <1>3
  <1>4. CASE fam = 6
    BY <1>1, <1>2, <1>4 DEF Stray
  <1> QED BY <1>3, <1>4

(* A wanted code of the file whose entry is cut. *)
LEMMA CutIsWanted ==
    ASSUME file \in Files, NEW c \in want \cap CodesIn, IsCut(LastWith(c))
    PROVE  CutWanted
  BY LastFacts DEF CutWanted

-----------------------------------------------------------------------------
LEMMA InitInv == Init => IInv
  <1> SUFFICES ASSUME Init PROVE IInv
    OBVIOUS
  <1>1. /\ input \in Files \X Commands \X Modes \X Wants
                        \X BOOLEAN \X BOOLEAN \X BOOLEAN \X IPs
        /\ fams = IF cmd = "ToQuantumultX" THEN {4} ELSE Flags(v4, v6)
        /\ pending = Keys /\ list = << >> /\ list4 = << >> /\ pc = "pass"
    BY DEF Init, input
  <1>2. TypeOK
    <2>1. fams \subseteq {4, 6}
      BY <1>1 DEF Flags
    <2>2. pending \subseteq CodesIn \cup want
      BY <1>1 DEF Keys
    <2>3. list \in Seq(Collected) /\ list4 \in Seq([rule : {"ip-cidr"}, cidr : Ranges])
      BY <1>1
    <2> QED BY <1>1, <2>1, <2>2, <2>3 DEF TypeOK
  <1>3. Visited = {} /\ ToSet(list) = {}
    BY <1>1 DEF Visited, ToSet
  <1>4. Passing
    BY <1>1, <1>3 DEF Passing, Taken
  <1>5. InFamilies /\ FirstPass
    BY <1>1 DEF InFamilies, FirstPass
  <1>6. Finding
    <2>1. Len(list) = 0 /\ Cardinality({}) = 0
      BY <1>1, FS_EmptySet
    <2> QED BY <1>3, <2>1 DEF Finding
  <1>7. Gathering
    BY <1>1, <1>3 DEF Gathering
  <1> QED BY <1>1, <1>2, <1>4, <1>5, <1>6, <1>7
          DEF IInv, ExtractExact, QXExact, FindIPExact, ToGeoIPExact

(* While a command runs nothing is claimed of what it gives. *)
LEMMA NotDone ==
    ASSUME pc' \in {"pass", "failed"}
    PROVE  ExtractExact' /\ QXExact' /\ FindIPExact' /\ ToGeoIPExact'
  BY DEF ExtractExact, QXExact, FindIPExact, ToGeoIPExact

(* What every visit of a key keeps. *)
LEMMA VisitFrame ==
    ASSUME IInv, UNCHANGED <<input, fams, list4, out>>,
           NEW c \in pending, pending' = pending \ {c},
           list' \in Seq(Collected), pc' \in {"pass", "failed"},
           pc' = "failed" => list' = << >>
    PROVE  /\ TypeOK' /\ (pending \subseteq Keys)' /\ InFamilies' /\ FirstPass'
           /\ ExtractExact' /\ QXExact' /\ FindIPExact' /\ ToGeoIPExact'
           /\ Visited' = Visited \cup {c}
           /\ c \in CodesIn \cup want
  <1>1. /\ UNCHANGED <<file, cmd, lowmem, want, v4, v6, strict, ip>>
        /\ CodesIn' = CodesIn /\ Keys' = Keys
        /\ Collected' = Collected /\ Unnoticed' = Unnoticed /\ Excused' = Excused
        /\ \A fam : Wanted(fam)' = Wanted(fam)
    BY SameInput
  <1>2. TypeOK /\ pending \subseteq Keys /\ InFamilies /\ FirstPass
    BY DEF IInv
  <1>3. input' \in Files \X Commands \X Modes \X Wants
                        \X BOOLEAN \X BOOLEAN \X BOOLEAN \X IPs
    BY <1>2 DEF TypeOK
  <1>4. TypeOK'
    BY <1>1, <1>2, <1>3 DEF TypeOK
  <1>5. (pending \subseteq Keys)' /\ Visited' = Visited \cup {c}
    BY <1>1, <1>2 DEF Visited
  <1>6. InFamilies'
    BY <1>1, <1>2 DEF InFamilies, Flags
  <1>7. FirstPass'
    BY <1>1, <1>2 DEF FirstPass
  <1>8. c \in CodesIn \cup want
    BY <1>2 DEF TypeOK
  <1> QED BY <1>4, <1>5, <1>6, <1>7, <1>8, NotDone

LEMMA VisitLowMemInv == ASSUME IInv, NEW c \in CodesIn, VisitLowMem(c) PROVE IInv'
  <1>1. /\ pc = "pass" /\ Parses /\ lowmem /\ c \in pending
        /\ pending' = pending \ {c}
        /\ UNCHANGED <<input, fams, list4, out>>
    BY DEF VisitLowMem
  <1>2. TypeOK /\ file \in Files /\ Passing
    BY DEF IInv, TypeOK, input
  <1>3. list \in Seq(Ranges) /\ Collected = Ranges
    BY <1>1, <1>2 DEF TypeOK, Collected
  <1>4. LastWith(c) \in Numbers /\ LastWith(c) # 0 /\ Source(c) = LastWith(c)
    BY <1>1, <1>2, LastFacts DEF Source
  <1>5. /\ cmd' = cmd /\ want' = want /\ lowmem' = lowmem /\ strict' = strict
        /\ Parses' = Parses /\ Unnoticed' = Unnoticed /\ Excused' = Excused
        /\ \A b : LastWith(b)' = LastWith(b)
        /\ \A n : IsCut(n)' = IsCut(n)
        /\ \A V : Taken(V)' = Taken(V)
    BY <1>1, SameInput, SameTaken
  <1>6. Finding' /\ Gathering'
    BY <1>1, <1>5 DEF Finding, Gathering, Parses
  <1>7. CASE c \notin want /\ UNCHANGED <<list, pc>>
    <2>1. /\ TypeOK' /\ (pending \subseteq Keys)' /\ InFamilies' /\ FirstPass'
          /\ ExtractExact' /\ QXExact' /\ FindIPExact' /\ ToGeoIPExact'
          /\ Visited' = Visited \cup {c}
      BY <1>1, <1>3, <1>7, VisitFrame
    <2>2. Taken(Visited \cup {c}) = Taken(Visited)
      BY <1>7, TakenMore
    <2>3. Passing'
      BY <1>1, <1>2, <1>5, <1>7, <2>1, <2>2 DEF Passing
    <2> QED BY <1>6, <2>1, <2>3 DEF IInv
  <1>8. CASE /\ c \in want
             /\ \E geoip \in Unmarshal(LastWith(c)) :
                  IF geoip.ok
                  THEN list' = list \o Filtered(geoip.cidrs) /\ pc' = pc
                  ELSE Fail
    <2>1. PICK geoip \in Unmarshal(LastWith(c)) :
             IF geoip.ok
             THEN list' = list \o Filtered(geoip.cidrs) /\ pc' = pc
             ELSE Fail
      BY <1>8
    <2>2. /\ geoip.cidrs \in Seq(Ranges)
          /\ ~ IsCut(LastWith(c)) => geoip.ok /\ geoip.cidrs = Cidrs(LastWith(c))
          /\ IsCut(LastWith(c)) /\ file.tail # "byte" => ~ geoip.ok
      BY <1>2, <1>4, UnmarshalFacts
    <2>3. IsCut(LastWith(c)) => CutWanted
      BY <1>2, <1>8, CutIsWanted
    <2>4. CASE geoip.ok
      <3> DEFINE more == Filtered(geoip.cidrs)
      <3>1. /\ more \in Seq(Ranges)
            /\ ToSet(more) = {r \in ToSet(geoip.cidrs) : Passes(r)}
        BY <2>2, FilteredFacts
      <3>2. list' = list \o more /\ pc' = "pass"
        BY <1>1, <2>1, <2>4
      <3> HIDE DEF more
      <3>3. list' \in Seq(Ranges) /\ ToSet(list') = ToSet(list) \cup ToSet(more)
        BY <1>3, <3>1, <3>2, ToSetFacts
      <3>4. /\ TypeOK' /\ (pending \subseteq Keys)' /\ InFamilies' /\ FirstPass'
            /\ ExtractExact' /\ QXExact' /\ FindIPExact' /\ ToGeoIPExact'
            /\ Visited' = Visited \cup {c}
        BY <1>1, <1>3, <3>2, <3>3, VisitFrame
      <3>5. ASSUME ~ Unnoticed
            PROVE  /\ ToSet(list') = Taken(Visited \cup {c})
                   /\ \A b \in want \cap (Visited \cup {c}) : ~ IsCut(LastWith(b))
        <4>1. ~ IsCut(LastWith(c)) /\ geoip.cidrs = Cidrs(LastWith(c))
          BY <1>1, <2>2, <2>3, <2>4, <3>5 DEF Unnoticed
        <4>2. Taken(Visited \cup {c}) = Taken(Visited) \cup ToSet(more)
          BY <1>4, <1>8, <3>1, <4>1, TakenMore
        <4>3. /\ ToSet(list) = Taken(Visited)
              /\ \A b \in want \cap Visited : ~ IsCut(LastWith(b))
          BY <1>1, <1>2, <3>5 DEF Passing
        <4> QED BY <3>3, <4>1, <4>2, <4>3
      <3>6. Passing'
        BY <1>1, <1>5, <3>2, <3>4, <3>5 DEF Passing
      <3> QED BY <1>6, <3>4, <3>6 DEF IInv
    <2>5. CASE ~ geoip.ok
      <3>1. list' = << >> /\ pc' = "failed"
        BY <2>1, <2>5 DEF Fail
      <3>2. list' \in Seq(Ranges)
        BY <3>1
      <3>3. /\ TypeOK' /\ (pending \subseteq Keys)' /\ InFamilies' /\ FirstPass'
            /\ ExtractExact' /\ QXExact' /\ FindIPExact' /\ ToGeoIPExact'
        BY <1>1, <1>3, <3>1, <3>2, VisitFrame
      <3>4. Excused
        BY <1>1, <2>2, <2>3, <2>5 DEF Excused
      <3>5. Passing'
        BY <1>5, <3>1, <3>4 DEF Passing
      <3> QED BY <1>6, <3>3, <3>5 DEF IInv
    <2> QED BY <2>4, <2>5
  <1> QED BY <1>7, <1>8 DEF VisitLowMem

LEMMA VisitInMemoryInv == ASSUME IInv, NEW c \in want, VisitInMemory(c) PROVE IInv'
  <1>1. /\ pc = "pass" /\ Parses /\ ~ lowmem /\ c \in pending
        /\ pending' = pending \ {c}
        /\ UNCHANGED <<input, fams, list4, out>>
    BY DEF VisitInMemory
  <1>2. TypeOK /\ file \in Files /\ Passing /\ strict \in BOOLEAN
    BY DEF IInv, TypeOK, input
  <1>3. list \in Seq(Ranges) /\ Collected = Ranges
    BY <1>1, <1>2 DEF TypeOK, Collected
  <1>4. Source(c) = FirstWith(c) /\ ~ Unnoticed
    BY <1>1 DEF Source, Unnoticed
  <1>5. /\ cmd' = cmd /\ want' = want /\ lowmem' = lowmem /\ strict' = strict
        /\ Parses' = Parses /\ Unnoticed' = Unnoticed /\ Excused' = Excused
        /\ \A b : FirstWith(b)' = FirstWith(b)
        /\ \A V : Taken(V)' = Taken(V)
    BY <1>1, SameInput, SameTaken
  <1>6. Finding' /\ Gathering'
    BY <1>1, <1>5 DEF Finding, Gathering, Parses
  <1>7. /\ ToSet(list) = Taken(Visited)
        /\ strict => \A b \in Visited : FirstWith(b) # 0
    BY <1>1, <1>2, <1>4 DEF Passing
  <1>8. CASE /\ FirstWith(c) # 0
             /\ list' = list \o Filtered(file.entries[FirstWith(c)].cidrs)
             /\ pc' = pc
    <2> DEFINE more == Filtered(Cidrs(FirstWith(c)))
    <2>1. Cidrs(FirstWith(c)) \in Seq(Ranges)
      BY <1>2, <1>4, <1>8, SourceFacts
    <2>2. /\ more \in Seq(Ranges)
          /\ ToSet(more) = {r \in ToSet(Cidrs(FirstWith(c))) : Passes(r)}
      BY <2>1, FilteredFacts
    <2>3. list' = list \o more /\ pc' = "pass"
      BY <1>1, <1>8 DEF Cidrs
    <2> HIDE DEF more
    <2>4. list' \in Seq(Ranges) /\ ToSet(list') = ToSet(list) \cup ToSet(more)
      BY <1>3, <2>2, <2>3, ToSetFacts
    <2>5. /\ TypeOK' /\ (pending \subseteq Keys)' /\ InFamilies' /\ FirstPass'
          /\ ExtractExact' /\ QXExact' /\ FindIPExact' /\ ToGeoIPExact'
          /\ Visited' = Visited \cup {c}
      BY <1>1, <1>3, <2>3, <2>4, VisitFrame
    <2>6. ToSet(list') = Taken(Visited \cup {c})
      BY <1>4, <1>7, <1>8, <2>2, <2>4, TakenMore
    <2>7. strict => \A b \in Visited \cup {c} : FirstWith(b) # 0
      BY <1>7, <1>8
    <2>8. Passing'
      BY <1>1, <1>5, <2>3, <2>5, <2>6, <2>7 DEF Passing
    <2> QED BY <1>6, <2>5, <2>8 DEF IInv
  <1>9. CASE FirstWith(c) = 0 /\ ~ MayBeMissing /\ Fail
    <2>1. list' = << >> /\ pc' = "failed" /\ strict
      BY <1>2, <1>9 DEF Fail, MayBeMissing
    <2>2. list' \in Seq(Ranges)
      BY <2>1
    <2>3. /\ TypeOK' /\ (pending \subseteq Keys)' /\ InFamilies' /\ FirstPass'
          /\ ExtractExact' /\ QXExact' /\ FindIPExact' /\ ToGeoIPExact'
      BY <1>1, <1>3, <2>1, <2>2, VisitFrame
    <2>4. Excused
      BY <1>1, <1>9, <2>1 DEF Excused
    <2>5. Passing'
      BY <1>5, <2>1, <2>4 DEF Passing
    <2> QED BY <1>6, <2>3, <2>5 DEF IInv
  <1>10. CASE FirstWith(c) = 0 /\ MayBeMissing /\ UNCHANGED <<list, pc>>
    <2>1. /\ TypeOK' /\ (pending \subseteq Keys)' /\ InFamilies' /\ FirstPass'
          /\ ExtractExact' /\ QXExact' /\ FindIPExact' /\ ToGeoIPExact'
          /\ Visited' = Visited \cup {c}
      BY <1>1, <1>3, <1>10, VisitFrame
    <2>2. Taken(Visited \cup {c}) = Taken(Visited) /\ ~ strict
      BY <1>4, <1>10, TakenMore DEF MayBeMissing
    <2>3. Passing'
      BY <1>1, <1>5, <1>7, <1>10, <2>1, <2>2 DEF Passing
    <2> QED BY <1>6, <2>1, <2>3 DEF IInv
  <1> QED BY <1>8, <1>9, <1>10 DEF VisitInMemory

LEMMA VisitEntryInv == ASSUME IInv, NEW c \in CodesIn, VisitEntry(c) PROVE IInv'
  <1>1. /\ pc = "pass" /\ pc' = pc /\ ~ Parses /\ c \in pending
        /\ pending' = pending \ {c}
        /\ UNCHANGED <<input, fams, list4, out>>
    BY DEF VisitEntry
  <1>2. /\ TypeOK /\ file \in Files /\ cmd \in {"ToGeoIP", "FindIP"}
        /\ pending \subseteq Keys /\ c \in Codes
    <2>1. file \in Files /\ cmd \in Commands
      BY DEF IInv, TypeOK, input
    <2> QED BY <1>1, <2>1, EntryFacts DEF IInv, Commands, Parses
  <1>3. LastWith(c) \in Numbers
    BY <1>2, LastFacts
  <1>4. PICK geoip \in Unmarshal(LastWith(c)) :
           list' = list \o IF cmd = "ToGeoIP" THEN ToGeoIP(c, geoip.cidrs)
                           ELSE Found(c, geoip.cidrs)
    BY DEF VisitEntry
  <1>5. /\ geoip.cidrs \in Seq(Ranges)
        /\ ~ IsCut(LastWith(c)) => geoip.cidrs = Cidrs(LastWith(c))
        /\ LeftOf(LastWith(c), geoip.cidrs)
        /\ Remains(LastWith(c)) => geoip.cidrs # << >>
    BY <1>2, <1>3, UnmarshalFacts
  <1>6. /\ UNCHANGED <<file, cmd, want>> /\ Parses' = Parses /\ CodesIn' = CodesIn
        /\ \A b : LastWith(b)' = LastWith(b) /\ HasIP(b)' = HasIP(b)
        /\ \A n : Remains(n)' = Remains(n)
        /\ \A n, s : LeftOf(n, s)' = LeftOf(n, s)
    BY <1>1, SameInput
  <1>7. Passing'
    BY <1>1, <1>6 DEF Passing
  <1>8. CASE cmd = "ToGeoIP"
    <2> DEFINE cidrs == geoip.cidrs
               entry == [code |-> c, cidrs |-> cidrs]
               more == ToGeoIP(c, cidrs)
    <2>1. entry \in Entries /\ list \in Seq(Entries) /\ Collected = Entries
      BY <1>2, <1>1, <1>5, <1>8 DEF Entries, TypeOK, Collected
    <2>2. more = IF c \in want /\ cidrs # << >> THEN <<entry>> ELSE << >>
      BY DEF ToGeoIP
    <2>3. list' = list \o more
      BY <1>4, <1>8
    <2>4. entry.code = c /\ entry.cidrs = cidrs
      OBVIOUS
    <2>5. LeftOf(LastWith(c), cidrs) /\ (Remains(LastWith(c)) => cidrs # << >>)
      BY <1>5
    <2> HIDE DEF cidrs, entry, more
    <2>6. /\ more \in Seq(Entries)
          /\ ToSet(more) = IF c \in want /\ cidrs # << >> THEN {entry} ELSE {}
      BY <2>1, <2>2, NoneAndOne
    <2>7. list' \in Seq(Entries) /\ ToSet(list') = ToSet(list) \cup ToSet(more)
      BY <2>1, <2>3, <2>6, ToSetFacts
    <2>8. /\ TypeOK' /\ (pending \subseteq Keys)' /\ InFamilies' /\ FirstPass'
          /\ ExtractExact' /\ QXExact' /\ FindIPExact' /\ ToGeoIPExact'
          /\ Visited' = Visited \cup {c}
      BY <1>1, <2>1, <2>7, VisitFrame
    <2>9. Gathering
      BY DEF IInv
    <2>10. /\ \A g \in ToSet(list) : g.code \in want \cap Visited /\ g.cidrs # << >>
                                       /\ LeftOf(LastWith(g.code), g.cidrs)
           /\ \A i, j \in DOMAIN list : list[i].code = list[j].code => i = j
           /\ \A b \in want \cap Visited :
                Remains(LastWith(b)) => \E g \in ToSet(list) : g.code = b
      BY <1>1, <1>8, <2>9 DEF Gathering
    <2>11. \A g \in ToSet(list') : /\ g.code \in want \cap (Visited \cup {c})
                                    /\ g.cidrs # << >>
                                    /\ LeftOf(LastWith(g.code), g.cidrs)
      BY <2>4, <2>5, <2>6, <2>7, <2>10
    <2>12. \A i, j \in DOMAIN list' : list'[i].code = list'[j].code => i = j
      <3>1. CASE c \in want /\ cidrs # << >>
        <4>1. c \notin Visited
          BY <1>1 DEF Visited
        <4>2. \A i \in DOMAIN list : list[i].code # c
          BY <2>10, <4>1 DEF ToSet
        <4>3. list' = Append(list, entry)
          BY <2>1, <2>2, <2>3, <3>1
        <4> QED BY <2>1, <2>4, <2>10, <4>2, <4>3
      <3>2. CASE ~ (c \in want /\ cidrs # << >>)
        <4>1. list' = list
          BY <2>1, <2>2, <2>3, <3>2
        <4> QED BY <2>10, <4>1
      <3> QED BY <3>1, <3>2
    <2>13. ASSUME NEW b \in want \cap (Visited \cup {c}), Remains(LastWith(b))
           PROVE  \E g \in ToSet(list') : g.code = b
      <3>1. CASE b = c
        BY <2>4, <2>5, <2>6, <2>7, <2>13, <3>1
      <3>2. CASE b \in Visited
        BY <2>7, <2>10, <2>13, <3>2
      <3> QED BY <3>1, <3>2
    <2>14. Gathering'
      BY <1>6, <2>8, <2>11, <2>12, <2>13 DEF Gathering
    <2>15. Finding'
      BY <1>6, <1>8 DEF Finding
    <2> QED BY <1>7, <2>8, <2>14, <2>15 DEF IInv
  <1>9. CASE cmd = "FindIP"
    <2> DEFINE hit == Hits(geoip.cidrs) # {}
               more == Found(c, geoip.cidrs)
    <2>1. list \in Seq(Codes) /\ Collected = Codes
      BY <1>1, <1>2, <1>9 DEF TypeOK, Collected
    <2>2. more = IF hit THEN <<c>> ELSE << >>
      BY DEF Found
    <2>3. list' = list \o more
      BY <1>4, <1>9
    <2>4. file.tail = "whole" => (hit <=> HasIP(c))
      <3>1. file.tail = "whole" => ~ IsCut(LastWith(c))
        BY DEF IsCut
      <3> QED BY <1>5, <3>1 DEF HasIP
    <2> HIDE DEF hit, more
    <2>5. /\ more \in Seq(Codes) /\ ToSet(more) = IF hit THEN {c} ELSE {}
          /\ Len(more) = IF hit THEN 1 ELSE 0
      BY <1>2, <2>2, NoneAndOne
    <2>6. list' \in Seq(Codes) /\ ToSet(list') = ToSet(list) \cup ToSet(more)
      BY <2>1, <2>3, <2>5, ToSetFacts
    <2>7. /\ TypeOK' /\ (pending \subseteq Keys)' /\ InFamilies' /\ FirstPass'
          /\ ExtractExact' /\ QXExact' /\ FindIPExact' /\ ToGeoIPExact'
          /\ Visited' = Visited \cup {c}
      BY <1>1, <2>1, <2>6, VisitFrame
    <2>8. Len(list') = Len(list) + Len(more) /\ Len(list) \in Nat
      <3>1. Len(list \o more) = Len(list) + Len(more)
        <4>1. list \in Seq(Codes) /\ more \in Seq(Codes)
          BY <2>1, <2>5
        <4> QED BY <4>1
      <3>2. Len(list) \in Nat
        BY <2>1
      <3> QED BY <2>3, <3>1, <3>2
    <2>9. ASSUME file.tail = "whole"
          PROVE  /\ ToSet(list') = {b \in Visited \cup {c} : HasIP(b)}
                 /\ Len(list') = Cardinality(ToSet(list'))
      <3>1. /\ ToSet(list) = {b \in Visited : HasIP(b)}
            /\ Len(list) = Cardinality(ToSet(list))
        BY <1>1, <1>9, <2>9 DEF IInv, Finding
      <3>2. c \notin ToSet(list)
        BY <1>1, <3>1 DEF Visited
      <3>3. IsFiniteSet(ToSet(list))
        BY <2>1, ToSetFinite
      <3>4. Cardinality(ToSet(list) \cup {c}) = Cardinality(ToSet(list)) + 1
        BY <3>2, <3>3, FS_AddElement
      <3>5. CASE hit
        BY <2>4, <2>5, <2>6, <2>8, <2>9, <3>1, <3>4, <3>5
      <3>6. CASE ~ hit
        BY <2>4, <2>5, <2>6, <2>8, <2>9, <3>1, <3>6
      <3> QED BY <3>5, <3>6
    <2>10. Finding'
      BY <1>6, <2>7, <2>9 DEF Finding
    <2>11. Gathering'
      BY <1>6, <1>9 DEF Gathering
    <2> QED BY <1>7, <2>7, <2>10, <2>11 DEF IInv
  <1> QED BY <1>2, <1>8, <1>9

-----------------------------------------------------------------------------
LEMMA EndExtractInv == IInv /\ EndExtract => IInv'
  <1> SUFFICES ASSUME IInv, EndExtract PROVE IInv'
    OBVIOUS
  <1>1. /\ cmd = "Extract"
        /\ (pc = "pass" /\ pending = {}) \/ pc = "failed"
        /\ out' = list
        /\ pc' = IF list = << >> THEN "error" ELSE "done"
        /\ UNCHANGED <<input, fams, pending, list, list4>>
    BY DEF EndExtract
  <1>2. /\ TypeOK /\ file \in Files /\ Parses /\ fams = Flags(v4, v6)
        /\ v4 \in BOOLEAN /\ v6 \in BOOLEAN /\ lowmem \in Modes
        /\ pending \subseteq Keys
        /\ input \in Files \X Commands \X Modes \X Wants
                        \X BOOLEAN \X BOOLEAN \X BOOLEAN \X IPs
    BY <1>1 DEF IInv, TypeOK, input, InFamilies, Parses
  <1>3. /\ UNCHANGED <<file, cmd, lowmem, want, v4, v6, strict, ip>>
        /\ CodesIn' = CodesIn /\ Keys' = Keys /\ Parses' = Parses
        /\ Collected' = Collected /\ CutWanted' = CutWanted /\ Unnoticed' = Unnoticed
        /\ \A c : FirstWith(c)' = FirstWith(c)
        /\ \A fam : Wanted(fam)' = Wanted(fam)
    BY <1>1, SameInput
  <1>4. TypeOK' /\ (pending \subseteq Keys)' /\ InFamilies'
    BY <1>1, <1>2, <1>3 DEF TypeOK, InFamilies, Flags
  <1>5. list \in Seq(Ranges)
    BY <1>2 DEF TypeOK, Collected
  <1> DEFINE W == (IF v4 THEN Wanted(4) ELSE {}) \cup (IF v6 THEN Wanted(6) ELSE {})
             missed == \E c \in want : FirstWith(c) = 0
  <1>6. ASSUME ~ Unnoticed, lowmem \/ v4 \/ ~ v6
        PROVE  /\ pc' = "done" => /\ ToSet(list) = W /\ ~ (lowmem /\ CutWanted)
                                  /\ ~ lowmem /\ strict => ~ missed
               /\ pc' = "error" => \/ W = {}
                                   \/ lowmem /\ CutWanted
                                   \/ ~ lowmem /\ strict /\ missed
    <2>1. CASE pc = "failed"
      <3>1. list = << >>
        BY <1>2, <2>1 DEF TypeOK
      <3>2. Excused
        BY <1>2, <1>6, <2>1 DEF IInv, Passing
      <3> QED BY <1>1, <3>1, <3>2 DEF Excused
    <2>2. CASE pc = "pass" /\ pending = {}
      <3>1. Visited = Keys
        BY <2>2 DEF Visited
      <3>2. /\ ToSet(list) = Taken(Keys)
            /\ lowmem => \A c \in want \cap Keys : ~ IsCut(LastWith(c))
            /\ ~ lowmem /\ strict => \A c \in Keys : FirstWith(c) # 0
        BY <1>2, <1>6, <2>2, <3>1 DEF IInv, Passing
      <3>3. Taken(Keys) = W
        BY <1>2, <1>6, TakenByExtract
      <3>4. ~ lowmem => Keys = want
        BY <1>1 DEF Keys
      <3>5. ~ (lowmem /\ CutWanted)
        <4>1. lowmem => Keys = CodesIn
          BY DEF Keys
        <4> QED BY <1>2, <3>2, <4>1, LastFacts DEF CutWanted
      <3>6. list = << >> <=> ToSet(list) = {}
        BY <1>5, ToSetFacts
      <3>7. ~ lowmem /\ strict => ~ missed
        BY <3>2, <3>4
      <3> HIDE DEF W, missed
      <3>8. ToSet(list) = W
        BY <3>2, <3>3
      <3>9. pc' = "error" => W = {}
        BY <1>1, <3>6, <3>8
      <3> QED BY <3>5, <3>7, <3>8, <3>9
    <2> QED BY <1>1, <2>1, <2>2
  <1>7. ExtractExact'
    <2> HIDE DEF W, missed
    <2>1. W' = W /\ missed' = missed
      BY <1>3 DEF W, missed
    <2>2. ExtractExact' <=>
            (cmd' = "Extract" /\ ~ Unnoticed' /\ (lowmem' \/ v4' \/ ~ v6') =>
               /\ pc' = "done" => /\ ToSet(out') = W' /\ ~ (lowmem' /\ CutWanted')
                                  /\ ~ lowmem' /\ strict' => ~ missed'
               /\ pc' = "error" => \/ W' = {}
                                   \/ lowmem' /\ CutWanted'
                                   \/ ~ lowmem' /\ strict' /\ missed')
      BY DEF ExtractExact, W, missed
    <2> QED BY <1>1, <1>3, <1>6, <2>1, <2>2
  <1>8. pc' \in {"done", "error"}
    BY <1>1
  <1>9. Passing' /\ FirstPass' /\ Finding' /\ Gathering'
    BY <1>1, <1>3, <1>8 DEF Passing, FirstPass, Finding, Gathering
  <1>10. QXExact' /\ FindIPExact' /\ ToGeoIPExact'
    BY <1>1, <1>3 DEF QXExact, FindIPExact, ToGeoIPExact
  <1> QED BY <1>4, <1>7, <1>9, <1>10 DEF IInv

LEMMA EndEntriesInv == IInv /\ EndEntries => IInv'
  <1> SUFFICES ASSUME IInv, EndEntries PROVE IInv'
    OBVIOUS
  <1>1. /\ ~ Parses /\ pc = "pass" /\ pending = {}
        /\ out' = list /\ pc' = "done"
        /\ UNCHANGED <<input, fams, pending, list, list4>>
    BY DEF EndEntries
  <1>2. /\ TypeOK /\ cmd \in {"ToGeoIP", "FindIP"} /\ pending \subseteq Keys
        /\ input \in Files \X Commands \X Modes \X Wants
                        \X BOOLEAN \X BOOLEAN \X BOOLEAN \X IPs
    <2>1. TypeOK /\ cmd \in Commands
      BY DEF IInv, TypeOK, input
    <2> QED BY <1>1, <2>1 DEF IInv, TypeOK, Commands, Parses
  <1>3. /\ UNCHANGED <<file, cmd, lowmem, want, v4, v6, strict, ip>>
        /\ CodesIn' = CodesIn /\ Keys' = Keys /\ Parses' = Parses
        /\ Collected' = Collected
        /\ \A c : LastWith(c)' = LastWith(c) /\ HasIP(c)' = HasIP(c)
        /\ \A n : Remains(n)' = Remains(n)
        /\ \A n, s : LeftOf(n, s)' = LeftOf(n, s)
    BY <1>1, SameInput
  <1>4. TypeOK' /\ (pending \subseteq Keys)' /\ InFamilies'
    BY <1>1, <1>2, <1>3 DEF TypeOK, InFamilies
  <1>5. Visited = CodesIn
    BY <1>1, <1>2 DEF Visited, Keys
  <1>6. FindIPExact'
    <2>1. cmd = "FindIP" /\ file.tail = "whole" =>
            /\ ToSet(list) = {c \in CodesIn : HasIP(c)}
            /\ Len(list) = Cardinality(ToSet(list))
      BY <1>1, <1>5 DEF IInv, Finding
    <2>2. FindIPExact' <=>
            (cmd' = "FindIP" /\ file'.tail = "whole" /\ pc' = "done" =>
               /\ ToSet(out') = {c \in CodesIn' : HasIP(c)'}
               /\ Len(out') = Cardinality(ToSet(out')))
      BY DEF FindIPExact, HasIP, Cidrs, ToSet
    <2> QED BY <1>1, <1>3, <2>1, <2>2
  <1>7. ToGeoIPExact'
    <2>1. cmd = "ToGeoIP" =>
            /\ \A g \in ToSet(list) : /\ g.code \in want \cap CodesIn
                                       /\ g.cidrs # << >>
                                       /\ LeftOf(LastWith(g.code), g.cidrs)
            /\ \A i, j \in DOMAIN list : list[i].code = list[j].code => i = j
            /\ \A c \in want \cap CodesIn :
                 Remains(LastWith(c)) => \E g \in ToSet(list) : g.code = c
      BY <1>1, <1>5 DEF IInv, Gathering
    <2> QED BY <1>1, <1>3, <2>1 DEF ToGeoIPExact
  <1>8. Passing' /\ FirstPass' /\ Finding' /\ Gathering'
    BY <1>1, <1>2, <1>3 DEF Passing, FirstPass, Finding, Gathering
  <1>9. ExtractExact' /\ QXExact'
    BY <1>1, <1>2, <1>3 DEF ExtractExact, QXExact
  <1> QED BY <1>4, <1>6, <1>7, <1>8, <1>9 DEF IInv

-----------------------------------------------------------------------------
(* The lines of a rule. *)
LEMMA LinesFacts ==
    ASSUME NEW rule, NEW cidrs \in Seq(Ranges)
    PROVE  /\ Lines(rule, cidrs) \in Seq([rule : {rule}, cidr : Ranges])
           /\ ToSet(Lines(rule, cidrs)) = {[rule |-> rule, cidr |-> r] : r \in ToSet(cidrs)}
  <1>1. Len(cidrs) \in Nat /\ DOMAIN cidrs = 1 .. Len(cidrs)
        /\ \A i \in 1 .. Len(cidrs) : cidrs[i] \in Ranges
    OBVIOUS
  <1>2. Lines(rule, cidrs) \in [1 .. Len(cidrs) -> [rule : {rule}, cidr : Ranges]]
    BY <1>1 DEF Lines
  <1>3. Lines(rule, cidrs) \in Seq([rule : {rule}, cidr : Ranges])
    BY <1>1, <1>2, FunctionIsSeq
  <1>4. ToSet(Lines(rule, cidrs)) = {[rule |-> rule, cidr |-> r] : r \in ToSet(cidrs)}
    BY <1>1 DEF Lines, ToSet
  <1> QED BY <1>3, <1>4

(* What a pass of ToQuantumultX has taken when it ends. *)
LEMMA PassEnds ==
    ASSUME IInv, cmd = "ToQuantumultX", ~ Unnoticed, NEW fam \in {4, 6},
           fams = {fam}, (pc = "pass" /\ pending = {}) \/ pc = "failed"
    PROVE  ToSet(list) = IF Excused THEN {}
                         ELSE Wanted(fam) \cup IF fam = 6 THEN Stray ELSE {}
  <1>1. Parses /\ file \in Files
    BY DEF Parses, IInv, TypeOK, input
  <1>2. CASE pc = "failed"
    <2>1. list = << >> /\ Excused
      BY <1>1, <1>2 DEF IInv, TypeOK, Passing
    <2> QED BY <2>1 DEF ToSet
  <1>3. CASE pc = "pass" /\ pending = {}
    <2>1. /\ ToSet(list) = Taken(Keys)
          /\ lowmem => \A c \in want \cap Keys : ~ IsCut(LastWith(c))
          /\ ~ lowmem /\ strict => \A c \in Keys : FirstWith(c) # 0
      BY <1>1, <1>3 DEF IInv, Passing, Visited
    <2>2. ~ (lowmem /\ CutWanted)
      <3>1. lowmem => Keys = CodesIn
        BY DEF Keys
      <3> QED BY <1>1, <2>1, <3>1, LastFacts DEF CutWanted
    <2>3. ~ lowmem => Keys = want
      BY <1>1 DEF Keys, Parses
    <2>4. ~ Excused
      BY <2>1, <2>2, <2>3 DEF Excused
    <2> QED BY <1>1, <2>1, <2>4, TakenByPass
  <1> QED BY <1>2, <1>3

LEMMA EndPass4Inv == IInv /\ EndPass4 => IInv'
  <1> SUFFICES ASSUME IInv, EndPass4 PROVE IInv'
    OBVIOUS
  <1>1. /\ cmd = "ToQuantumultX" /\ fams = {4}
        /\ (pc = "pass" /\ pending = {}) \/ pc = "failed"
        /\ list4' = Lines("ip-cidr", list)
        /\ fams' = {6} /\ pending' = Keys /\ list' = << >> /\ pc' = "pass"
        /\ UNCHANGED <<input, out>>
    BY DEF EndPass4
  <1>2. /\ TypeOK
        /\ input \in Files \X Commands \X Modes \X Wants
                        \X BOOLEAN \X BOOLEAN \X BOOLEAN \X IPs
    BY DEF IInv, TypeOK
  <1>3. /\ UNCHANGED <<file, cmd, lowmem, want, v4, v6, strict, ip>>
        /\ CodesIn' = CodesIn /\ Keys' = Keys /\ Parses' = Parses
        /\ Collected' = Collected /\ Unnoticed' = Unnoticed /\ Excused' = Excused
        /\ \A fam : Wanted(fam)' = Wanted(fam)
    BY <1>1, SameInput
  <1>4. list \in Seq(Ranges)
    BY <1>1, <1>2 DEF TypeOK, Collected, Parses
  <1>5. /\ list4' \in Seq([rule : {"ip-cidr"}, cidr : Ranges])
        /\ ToSet(list4') = {[rule |-> "ip-cidr", cidr |-> r] : r \in ToSet(list)}
    BY <1>1, <1>4, LinesFacts
  <1>6. TypeOK' /\ (pending \subseteq Keys)' /\ InFamilies'
    <2>1. pending' \subseteq CodesIn' \cup want'
      BY <1>1, <1>3 DEF Keys
    <2>2. list' \in Seq(Collected')
      BY <1>1
    <2>3. fams' \subseteq {4, 6} /\ fams' \in {{4}, {6}}
      BY <1>1
    <2> QED BY <1>1, <1>2, <1>3, <1>5, <2>1, <2>2, <2>3 DEF TypeOK, InFamilies
  <1>7. FirstPass'
    <2>1. ~ Unnoticed => ToSet(list) = IF Excused THEN {} ELSE Wanted(4)
      BY <1>1, PassEnds
    <2>2. ~ Unnoticed =>
            ToSet(list4') = IF Excused THEN {}
                            ELSE {[rule |-> "ip-cidr", cidr |-> r] : r \in Wanted(4)}
      BY <1>5, <2>1
    <2> QED BY <1>3, <2>2 DEF FirstPass
  <1>8. Passing'
    <2>1. Visited' = {} /\ ToSet(list') = {}
      BY <1>1, <1>3 DEF Visited, ToSet
    <2>2. Taken({})' = {}
      BY DEF Taken
    <2> QED BY <1>1, <2>1, <2>2 DEF Passing
  <1>9. Finding' /\ Gathering'
    BY <1>1, <1>3 DEF Finding, Gathering
  <1> QED BY <1>1, <1>6, <1>7, <1>8, <1>9, NotDone DEF IInv

LEMMA EndPass6Inv == IInv /\ EndPass6 => IInv'
  <1> SUFFICES ASSUME IInv, EndPass6 PROVE IInv'
    OBVIOUS
  <1> DEFINE second == Lines("ip6-cidr", list)
  <1>1. /\ cmd = "ToQuantumultX" /\ fams = {6}
        /\ (pc = "pass" /\ pending = {}) \/ pc = "failed"
        /\ out' = QXResult(list4, second) /\ pc' = "done"
        /\ UNCHANGED <<input, fams, pending, list, list4>>
    BY DEF EndPass6
  <1>2. /\ TypeOK /\ pending \subseteq Keys
        /\ input \in Files \X Commands \X Modes \X Wants
                        \X BOOLEAN \X BOOLEAN \X BOOLEAN \X IPs
    BY DEF IInv, TypeOK
  <1>3. /\ UNCHANGED <<file, cmd, lowmem, want, v4, v6, strict, ip>>
        /\ CodesIn' = CodesIn /\ Keys' = Keys /\ Parses' = Parses
        /\ Collected' = Collected /\ Unnoticed' = Unnoticed /\ Excused' = Excused
        /\ Stray' = Stray
        /\ \A fam : Wanted(fam)' = Wanted(fam)
    BY <1>1, SameInput
  <1>4. TypeOK' /\ (pending \subseteq Keys)' /\ InFamilies' /\ FirstPass'
    BY <1>1, <1>2, <1>3 DEF TypeOK, InFamilies, IInv, FirstPass
  <1>5. list \in Seq(Ranges) /\ list4 \in Seq([rule : {"ip-cidr"}, cidr : Ranges])
    BY <1>1, <1>2 DEF TypeOK, Collected, Parses
  <1>6. /\ second \in Seq([rule : {"ip6-cidr"}, cidr : Ranges])
        /\ ToSet(second) = {[rule |-> "ip6-cidr", cidr |-> r] : r \in ToSet(list)}
    BY <1>5, LinesFacts
  <1> HIDE DEF second
  <1>7. ToSet(list4 \o second) = ToSet(list4) \cup ToSet(second)
    <2> DEFINE V == [rule : {"ip-cidr", "ip6-cidr"}, cidr : Ranges]
               V4 == [rule : {"ip-cidr"}, cidr : Ranges]
               V6 == [rule : {"ip6-cidr"}, cidr : Ranges]
    <2>1. V4 \subseteq V /\ V6 \subseteq V /\ list4 \in Seq(V4) /\ second \in Seq(V6)
      BY <1>5, <1>6
    <2> HIDE DEF V, V4, V6
    <2>2. list4 \in Seq(V) /\ second \in Seq(V)
      BY <2>1, SeqOfMore
    <2> QED BY <2>2, ToSetFacts
  <1>8. QXExact'
    <2> DEFINE lines4 == {[rule |-> "ip-cidr", cidr |-> r] : r \in Wanted(4)}
               lines6 == {[rule |-> "ip6-cidr", cidr |-> r] : r \in Wanted(6) \cup Stray}
    <2> SUFFICES ASSUME ~ Unnoticed, v4 \/ v6
                 PROVE  ToSet(out') =
                   IF Excused THEN {}
                   ELSE (IF v4 THEN lines4 ELSE {}) \cup (IF v6 THEN lines6 ELSE {})
      BY <1>3 DEF QXExact
    <2>1. ToSet(list4) = IF Excused THEN {} ELSE lines4
      BY <1>1 DEF IInv, FirstPass
    <2>2. ToSet(second) = IF Excused THEN {} ELSE lines6
      <3>1. ToSet(list) = IF Excused THEN {} ELSE Wanted(6) \cup Stray
        BY <1>1, PassEnds
      <3> QED BY <1>6, <3>1
    <2> HIDE DEF lines4, lines6
    <2> QED BY <1>1, <1>7, <2>1, <2>2 DEF QXResult
  <1>9. Passing' /\ Finding' /\ Gathering'
    BY <1>1, <1>3 DEF Passing, Finding, Gathering
  <1>10. ExtractExact' /\ FindIPExact' /\ ToGeoIPExact'
    BY <1>1, <1>3 DEF ExtractExact, FindIPExact, ToGeoIPExact
  <1> QED BY <1>4, <1>8, <1>9, <1>10 DEF IInv

LEMMA StutterInv == IInv /\ UNCHANGED vars => IInv'
  <1> SUFFICES ASSUME IInv, UNCHANGED vars PROVE IInv'
    OBVIOUS
  <1>1. UNCHANGED <<input, fams, pending, list, list4, out, pc>>
    BY DEF vars
  <1>2. /\ UNCHANGED <<file, cmd, lowmem, want, v4, v6, strict, ip>>
        /\ CodesIn' = CodesIn /\ Keys' = Keys /\ Parses' = Parses
        /\ Collected' = Collected
        /\ \A c : LastWith(c)' = LastWith(c) /\ FirstWith(c)' = FirstWith(c)
        /\ \A n : IsCut(n)' = IsCut(n) /\ Cidrs(n)' = Cidrs(n)
        /\ CutWanted' = CutWanted /\ Unnoticed' = Unnoticed /\ Excused' = Excused
        /\ \A fam : Wanted(fam)' = Wanted(fam)
        /\ \A c : HasIP(c)' = HasIP(c)
        /\ Stray' = Stray
        /\ \A n : Remains(n)' = Remains(n)
        /\ \A n, s : LeftOf(n, s)' = LeftOf(n, s)
        /\ \A V : Taken(V)' = Taken(V)
    BY <1>1, SameInput, SameTaken
  <1>3. TypeOK'
    <2>1. /\ TypeOK
          /\ input \in Files \X Commands \X Modes \X Wants
                          \X BOOLEAN \X BOOLEAN \X BOOLEAN \X IPs
      BY DEF IInv, TypeOK
    <2> QED BY <1>1, <1>2, <2>1 DEF TypeOK
  <1>4. Visited' = Visited /\ (pending \subseteq Keys)'
    BY <1>1, <1>2 DEF Visited, IInv
  <1>5. InFamilies' /\ Passing' /\ FirstPass' /\ Finding' /\ Gathering'
    BY <1>1, <1>2, <1>4 DEF IInv, InFamilies, Flags, Passing, FirstPass, Finding, Gathering
  <1>6. ExtractExact' /\ QXExact'
    BY <1>1, <1>2 DEF IInv, ExtractExact, QXExact
  <1>7. FindIPExact'
    BY <1>1, <1>2 DEF IInv, FindIPExact, HasIP, Cidrs
  <1>8. ToGeoIPExact'
    BY <1>1, <1>2 DEF IInv, ToGeoIPExact
  <1> QED BY <1>3, <1>4, <1>5, <1>6, <1>7, <1>8 DEF IInv

(* The invariant of the geoip commands. *)
THEOREM Invariance == Spec => []IInv
  <1>1. Init => IInv
    BY InitInv
  <1>2. IInv /\ [Next]_vars => IInv'
    BY VisitLowMemInv, VisitInMemoryInv, VisitEntryInv, EndExtractInv, EndEntriesInv,
       EndPass4Inv, EndPass6Inv, StutterInv
       DEF Next
  <1> QED BY <1>1, <1>2, PTL DEF Spec

(* The commands keep their types, and a pass that fails has no list. *)
THEOREM TypeCorrect == Spec => []TypeOK
  <1>1. IInv => TypeOK
    BY DEF IInv
  <1> QED BY <1>1, Invariance, PTL

(* Extract gives the ranges of the allowed families of the wanted codes,   *)
(* or an error with a reason, in whatever order the map is walked. *)
THEOREM ExtractIsExact == Spec => []ExtractExact
  <1>1. IInv => ExtractExact
    BY DEF IInv
  <1> QED BY <1>1, Invariance, PTL

(* ToQuantumultX gives every wanted range of the allowed families the rule *)
(* of its family, in both modes; when its passes fail it gives nothing,    *)
(* and in the in-memory mode its IPv6 pass takes the IPv4 ranges as well.  *)
(* Nothing is said of a cut that goes unnoticed. *)
THEOREM QXIsExact == Spec => []QXExact
  <1>1. IInv => QXExact
    BY DEF IInv
  <1> QED BY <1>1, Invariance, PTL

(* FindIP names the codes that have the address, each one once. *)
THEOREM FindIPIsExact == Spec => []FindIPExact
  <1>1. IInv => FindIPExact
    BY DEF IInv
  <1> QED BY <1>1, Invariance, PTL

(* ToGeoIP writes the wanted entries that have ranges, each one once, and  *)
(* only these: unchanged, but for one that is cut, of which it writes the  *)
(* ranges before the cut, or all of them, the last one with length 0. *)
THEOREM ToGeoIPIsExact == Spec => []ToGeoIPExact
  <1>1. IInv => ToGeoIPExact
    BY DEF IInv
  <1> QED BY <1>1, Invariance, PTL
=============================================================================
