--------------------------- MODULE CodeSearchProofs ---------------------------
(***************************************************************************)
(* For every set of files that satisfy IsFile and every set of codes that  *)
(* are no made-up names: FindCode and FindCodeByReader find the first      *)
(* entry of a code, CodeList lists what the file holds. The invariant says *)
(* that a scan stands at an entry, or past the end of the file, that a     *)
(* search has not passed an entry of its code, and that the list has the   *)
(* entries that are passed. Of a reader that has gone astray only the      *)
(* types are left.                                                         *)
(***************************************************************************)
EXTENDS CodeSearch, InductionFacts

Standing == pos \in Nat /\ (pos \in file.starts \/ pos >= Size(file))

NotPassed == found = NoBody /\ \A t \in Carrying(code) : pos <= t

(* The entries that CodeList has listed when it stands at p, and the list  *)
(* ns of their names. *)
Before(p) == {s \in Held : s < p}

Lists(ns, p) ==
    /\ \A s \in Before(p) : \E i \in DOMAIN ns : ns[i] = Name(file, s)
    /\ ~ HasHollow =>
         /\ Len(ns) = Cardinality(Before(p))
         /\ \A s \in Before(p) : ns[Place(s)] = Name(file, s)

IInv ==
    /\ TypeOK
    /\ Standing
    /\ pc = "scan" /\ scan # "CodeList" => NotPassed
    /\ pc = "scan" /\ scan = "CodeList" => Lists(names, pos)
    /\ FindsFirst
    /\ ListsNames
    /\ PanicsOnlyOnHollow

Inv ==
    /\ TypeOK
    /\ Astray => pc # "panic"
    /\ ~ Astray => IInv

-----------------------------------------------------------------------------
(* What is read of a name is a sequence of bytes. *)
LEMMA FieldFacts ==
    ASSUME NEW f \in Files, NEW p \in Nat, NEW n \in Nat
    PROVE  Field(f, p, n) \in Seq(Nat) /\ Len(Field(f, p, n)) = n
  <1>1. f.bytes \in Seq(Nat)
    BY FilesAssumption DEF IsFile
  <1>2. ASSUME NEW i \in 1 .. n, p + i <= Size(f)
        PROVE  f.bytes[p + i] \in Nat
    BY <1>1, <1>2 DEF Size
  <1>3. Field(f, p, n) \in [1 .. n -> Nat]
    BY <1>2 DEF Field
  <1> QED BY <1>3

(* A header at any place says a number, also where no entry begins. *)
LEMMA HeaderFacts ==
    ASSUME NEW f \in Files, NEW p \in Nat, HasHead(f, p)
    PROVE  /\ VarintLen(f, p) \in Nat /\ Body(f, p) \in Nat
           /\ BodyLen(f, p) \in Nat
           /\ HasName(f, p) => NameLen(f, p) \in Nat
  <1> DEFINE n == VarintLen(f, p)
             digit == [k \in 1 .. n |-> f.bytes[p + 1 + n + 1 - k] % Base]
  <1>1. n \in 1 .. MaxVarint /\ IsVarint(f, p + 1, n)
    BY DEF HasHead, VarintLen
  <1>2. f.bytes \in Seq(Nat) /\ Size(f) \in Nat
    BY FilesAssumption DEF IsFile, Size
  <1>3. n \in Nat /\ p + 1 + n <= Size(f) /\ Base \in Nat /\ Base > 0
    BY <1>1, LayoutAssumption DEF IsVarint
  <1>4. BodyLen(f, p) = (CHOOSE upTo : upTo = [k \in 0 .. n |->
              IF k = 0 THEN 0 ELSE upTo[k - 1] * Base + digit[k]])[n]
    BY DEF BodyLen, VarintValue
  <1> HIDE DEF n
  <1>5. ASSUME NEW k \in 1 .. n
        PROVE  f.bytes[p + 1 + n + 1 - k] % Base \in Nat
    <2>1. p + 1 + n + 1 - k \in 1 .. Size(f)
      BY <1>2, <1>3
    <2>2. f.bytes[p + 1 + n + 1 - k] \in Nat
      BY <1>2, <2>1 DEF Size
    <2> QED BY <1>3, <2>2
  <1>6. digit \in [1 .. n -> Nat]
    BY <1>5
  <1> HIDE DEF digit
  <1>7. BodyLen(f, p) \in Nat
    BY <1>3, <1>4, <1>6, DigitsWorth
  <1>8. Body(f, p) \in Nat /\ Body(f, p) = p + 1 + n
    BY <1>3 DEF Body, n
  <1>9. HasName(f, p) => NameLen(f, p) \in Nat
    BY <1>2, <1>8 DEF HasName, NameLen, Size
  <1> QED BY <1>3, <1>7, <1>8, <1>9 DEF n

(* Where the parts of an entry are. *)
LEMMA EntryFacts ==
    ASSUME NEW f \in Files, NEW s \in f.starts, HasHead(f, s)
    PROVE  /\ s \in Nat /\ Size(f) \in Nat /\ Body(f, s) \in Nat
           /\ s + 2 <= Body(f, s) /\ Body(f, s) <= Size(f)
           /\ BodyLen(f, s) \in Nat \ {1} /\ End(f, s) \in Nat
           /\ End(f, s) = Body(f, s) + BodyLen(f, s)
           /\ End(f, s) <= Size(f) => End(f, s) \in f.starts
           /\ HasName(f, s) => /\ NameLen(f, s) \in Nat
                               /\ Name(f, s) \in Seq(Nat)
                               /\ Len(Name(f, s)) = NameLen(f, s)
                               /\ Framed(f, s) \/ Hollow(f, s)
  <1>1. IsFile(f) /\ f.bytes \in Seq(Nat) /\ Size(f) \in Nat /\ s \in Nat
    BY FilesAssumption DEF IsFile, Size
  <1>2. VarintLen(f, s) \in 1 .. MaxVarint /\ IsVarint(f, s + 1, VarintLen(f, s))
    BY DEF HasHead, VarintLen
  <1>3. Body(f, s) \in Nat /\ s + 2 <= Body(f, s) /\ Body(f, s) <= Size(f)
    BY <1>1, <1>2, LayoutAssumption DEF Body, IsVarint
  <1>4. /\ BodyLen(f, s) \in Nat \ {1}
        /\ End(f, s) <= Size(f) => End(f, s) \in f.starts
        /\ HasName(f, s) => Framed(f, s) \/ Hollow(f, s)
    BY <1>1 DEF IsFile
  <1>5. End(f, s) = Body(f, s) + BodyLen(f, s) /\ End(f, s) \in Nat
    BY <1>3, <1>4 DEF End
  <1>6. ASSUME HasName(f, s)
        PROVE  /\ NameLen(f, s) \in Nat
               /\ Name(f, s) \in Seq(Nat) /\ Len(Name(f, s)) = NameLen(f, s)
    <2>1. NameLen(f, s) \in Nat
      BY <1>1, <1>3, <1>6 DEF HasName, NameLen, Size
    <2>2. PICK p \in Nat : p = Body(f, s) + 2
      BY <1>3
    <2>3. /\ Field(f, p, NameLen(f, s)) \in Seq(Nat)
          /\ Len(Field(f, p, NameLen(f, s))) = NameLen(f, s)
      BY <2>1, FieldFacts
    <2>4. Name(f, s) = Field(f, p, NameLen(f, s))
      BY <2>2 DEF Name
    <2> QED BY <2>1, <2>3, <2>4
  <1> QED BY <1>1, <1>3, <1>4, <1>5, <1>6

(* The entries that are named, and where they are. *)
LEMMA NamedFacts ==
    ASSUME NEW f \in Files, NEW t \in Named(f)
    PROVE  /\ t \in f.starts /\ HasHead(f, t) /\ HasName(f, t)
           /\ t \in Nat /\ t < Size(f)
           /\ Body(f, t) + 2 <= Size(f)
           /\ Name(f, t) # << >>
           /\ \A s \in f.starts : s < t => HasHead(f, s) /\ End(f, s) <= t
  <1>1. t \in f.starts /\ NameWhole(f, t) /\ NameLen(f, t) > 0 /\ HasName(f, t) /\ HasHead(f, t)
    BY DEF Named, NameWhole, HasName
  <1>2. Body(f, t) + 2 <= Size(f)
    BY <1>1 DEF HasName
  <1>3. t \in Nat /\ t < Size(f)
    BY <1>1, <1>2, EntryFacts
  <1>4. Name(f, t) # << >>
    BY <1>1, EntryFacts
  <1>5. \A s \in f.starts : s < t => HasHead(f, s) /\ End(f, s) <= t
    BY <1>1, FilesAssumption DEF IsFile
  <1> QED BY <1>1, <1>2, <1>3, <1>4, <1>5

(* Nothing named begins after an entry that cannot be read, or whose body  *)
(* the end of the file cuts, or that the file ends with. *)
LEMMA NothingAfter ==
    ASSUME NEW f \in Files, NEW p \in Nat, p \in f.starts \/ p >= Size(f),
           NEW t \in Named(f), p <= t
    PROVE  /\ p \in f.starts /\ HasHead(f, p) /\ HasName(f, p)
           /\ p < t => End(f, p) <= t /\ End(f, p) < Size(f)
  <1>1. /\ t \in f.starts /\ HasHead(f, t) /\ HasName(f, t)
        /\ t \in Nat /\ t < Size(f) /\ Body(f, t) + 2 <= Size(f)
        /\ \A s \in f.starts : s < t => HasHead(f, s) /\ End(f, s) <= t
    BY NamedFacts
  <1>2. Size(f) \in Nat
    BY <1>1, EntryFacts
  <1>3. p \in f.starts
    BY <1>1, <1>2
  <1>4. CASE p = t
    BY <1>1, <1>3, <1>4
  <1>5. CASE p # t
    <2>1. HasHead(f, p) /\ End(f, p) <= t
      BY <1>1, <1>3, <1>5
    <2>2. /\ Body(f, p) \in Nat /\ BodyLen(f, p) \in Nat /\ End(f, p) \in Nat
          /\ End(f, p) = Body(f, p) + BodyLen(f, p)
          /\ t + 2 <= Body(f, t) /\ Body(f, t) \in Nat
      BY <1>1, <1>3, <2>1, EntryFacts
    <2>3. HasName(f, p)
      BY <1>1, <1>2, <2>1, <2>2 DEF HasName
    <2> QED BY <1>1, <1>2, <1>3, <2>1, <2>2, <2>3
  <1> QED BY <1>4, <1>5

(* The CHOOSE of FindsFirst, when an entry is known to be the first. *)
LEMMA FirstIs ==
    ASSUME NEW C \in SUBSET Nat, NEW p \in C, \A t \in C : p <= t
    PROVE  (CHOOSE t \in C : \A u \in C : t <= u) = p
  <1> DEFINE c == CHOOSE t \in C : \A u \in C : t <= u
  <1>1. c \in C /\ \A u \in C : c <= u
    OBVIOUS
  <1> HIDE DEF c
  <1>2. c = p
    BY <1>1
  <1> QED BY <1>2 DEF c

(* A scan that has the header of an entry stands at one. *)
LEMMA StandsAtEntry ==
    ASSUME TypeOK, Standing, HasHead(file, pos)
    PROVE  pos \in file.starts /\ file \in Files
  <1>1. file \in Files /\ pos \in Nat
    BY DEF TypeOK, input, Standing
  <1>2. PICK n \in 1 .. MaxVarint : IsVarint(file, pos + 1, n)
    BY DEF HasHead
  <1>3. n \in Nat /\ n >= 1 /\ Size(file) \in Nat
    BY <1>1, LayoutAssumption, FilesAssumption DEF IsFile, Size
  <1>4. pos + 1 + n <= Size(file)
    BY <1>2 DEF IsVarint
  <1> QED BY <1>1, <1>3, <1>4 DEF Standing

(* Where a search reads a name, it is the code just when the entry carries *)
(* the code: no made-up name is one. *)
LEMMA MatchFacts ==
    ASSUME TypeOK, Standing, AtName, scan # "CodeList"
    PROVE  Matches(pos) <=> pos \in Carrying(code)
  <1>1. HasHead(file, pos) /\ HasName(file, pos) /\ code # << >>
    BY DEF AtName, AtEntry, HasEntry, NothingToFind
  <1>2. pos \in file.starts /\ file \in Files /\ code \in Codes
    BY <1>1, StandsAtEntry DEF TypeOK, input
  <1>3. NameLen(file, pos) \in Nat /\ Len(Name(file, pos)) = NameLen(file, pos)
    BY <1>1, <1>2, EntryFacts
  <1>4. Matches(pos) <=> Name(file, pos) = code
    BY <1>3 DEF Matches
  <1>5. Name(file, pos) = code => pos \in Named(file)
    BY <1>1, <1>2, CodesAssumption
  <1> QED BY <1>4, <1>5 DEF Carrying

(* The entries that carry a code, when the search has passed none. *)
LEMMA CarryingFacts ==
    ASSUME TypeOK, Standing, NEW t \in Carrying(code), pos <= t
    PROVE  /\ t \in Named(file) /\ t \in Nat
           /\ pos \in file.starts /\ HasHead(file, pos) /\ HasName(file, pos)
           /\ code # << >>
           /\ pos < t => End(file, pos) <= t /\ End(file, pos) < Size(file)
  <1>1. t \in Named(file) /\ Name(file, t) = code /\ file \in Files /\ pos \in Nat
    BY DEF Carrying, TypeOK, input, Standing
  <1>2. t \in Nat /\ Name(file, t) # << >>
    BY <1>1, NamedFacts
  <1>3. /\ pos \in file.starts /\ HasHead(file, pos) /\ HasName(file, pos)
        /\ pos < t => End(file, pos) <= t /\ End(file, pos) < Size(file)
    BY <1>1, NothingAfter DEF Standing
  <1> QED BY <1>1, <1>2, <1>3

-----------------------------------------------------------------------------
(* How a search may end. *)
LEMMA FoundNone ==
    ASSUME input' = input, found' = NoBody, Carrying(code) = {}
    PROVE  FindsFirst'
  <1>1. file' = file /\ code' = code
    BY DEF input
  <1>2. Carrying(code)' = {}
    BY <1>1 DEF Carrying
  <1> QED BY <1>2 DEF FindsFirst, NoBody

LEMMA FoundFirst ==
    ASSUME TypeOK, input' = input, NEW p \in Carrying(code),
           \A t \in Carrying(code) : p <= t,
           found' = IF BodyCut(p) THEN NoBody
                    ELSE [Offset |-> Body(file, p), Size |-> BodyLen(file, p)]
    PROVE  FindsFirst'
  <1>1. file' = file /\ code' = code /\ file \in Files
    BY DEF input, TypeOK
  <1> DEFINE C == Carrying(code)
  <1>2. C' = C
    BY <1>1 DEF Carrying
  <1>3. C \in SUBSET Nat
    BY <1>1, NamedFacts DEF Carrying
  <1>4. p \in C /\ \A t \in C : p <= t
    OBVIOUS
  <1> HIDE DEF C
  <1>5. (CHOOSE t \in C : \A u \in C : t <= u) = p
    BY <1>3, <1>4, FirstIs
  <1>6. (CHOOSE t \in C' : \A u \in C' : t <= u) = p
    BY <1>2, <1>5
  <1>7. (pc' = "done" /\ scan' # "CodeList" =>
             IF C' = {} THEN found' = NoBody
             ELSE LET s == CHOOSE t \in C' : \A u \in C' : t <= u
                  IN  found' = IF End(file', s) > Size(file') THEN NoBody
                               ELSE [Offset |-> Body(file', s), Size |-> BodyLen(file', s)])
          => FindsFirst'
    BY DEF FindsFirst, C, BodyCut, NoBody
  <1>8. found' = IF End(file', p) > Size(file') THEN NoBody
                 ELSE [Offset |-> Body(file', p), Size |-> BodyLen(file', p)]
    BY <1>1 DEF BodyCut
  <1> QED BY <1>2, <1>4, <1>6, <1>7, <1>8

-----------------------------------------------------------------------------
LEMMA InitInv == Init => IInv
  <1> SUFFICES ASSUME Init PROVE IInv
    OBVIOUS
  <1>1. /\ file \in Files /\ scan \in Scans /\ code \in Codes
        /\ pos = 0 /\ found = NoBody /\ names = << >> /\ pc = "scan"
    BY DEF Init
  <1>2. /\ Size(file) \in Nat /\ 0 \in file.starts
        /\ \A t \in Named(file) : t \in Nat
    BY <1>1, FilesAssumption, NamedFacts DEF IsFile, Size
  <1>3. TypeOK /\ Standing
    BY <1>1, <1>2 DEF TypeOK, input, Standing
  <1>4. NotPassed
    BY <1>1, <1>2 DEF NotPassed, Carrying
  <1>5. Lists(names, pos)
    <2>1. Before(pos) = {}
      BY <1>1, <1>2 DEF Before, Held
    <2>2. Len(names) = Cardinality(Before(pos))
      BY <1>1, <2>1, FS_EmptySet
    <2> QED BY <2>1, <2>2 DEF Lists
  <1> QED
    BY <1>1, <1>3, <1>4, <1>5 DEF IInv, FindsFirst, ListsNames, PanicsOnlyOnHollow

(* An entry in memory is followed by another one, or by the end. *)
LEMMA InMemoryFacts ==
    ASSUME TypeOK, Standing, AtEntry, InMemory
    PROVE  /\ pos \in file.starts /\ file \in Files /\ HasHead(file, pos)
           /\ End(file, pos) \in file.starts /\ End(file, pos) \in Nat
           /\ Size(file) \in Nat /\ pos \in Nat
           /\ End(file, pos) <= Size(file) /\ pos < End(file, pos)
  <1>1. HasHead(file, pos) /\ ~ BodyCut(pos)
    BY DEF AtEntry, HasEntry
  <1>2. pos \in file.starts /\ file \in Files
    BY <1>1, StandsAtEntry
  <1>3. /\ pos \in Nat /\ Size(file) \in Nat /\ Body(file, pos) \in Nat
        /\ pos + 2 <= Body(file, pos) /\ BodyLen(file, pos) \in Nat
        /\ End(file, pos) \in Nat
        /\ End(file, pos) = Body(file, pos) + BodyLen(file, pos)
        /\ End(file, pos) <= Size(file) => End(file, pos) \in file.starts
    BY <1>1, <1>2, EntryFacts
  <1> QED BY <1>1, <1>2, <1>3 DEF BodyCut

(* A search that quits has found nothing, or the entry that is cut. *)
LEMMA QuitInv == IInv /\ Quit => IInv'
  <1> SUFFICES ASSUME IInv, Quit PROVE IInv'
    OBVIOUS
  <1>1. /\ TypeOK /\ Standing /\ pc = "scan" /\ pc' = "done"
        /\ UNCHANGED <<input, pos, found, names>>
        /\ NothingToFind \/ ~ HasEntry(pos)
    BY DEF IInv, Quit, Stop
  <1>2. UNCHANGED <<file, scan, code, pos, found, names>> /\ file \in Files
    BY <1>1 DEF input, TypeOK
  <1>3. TypeOK' /\ Standing'
    BY <1>1, <1>2 DEF TypeOK, Standing, InMemory, input
  <1>4. ASSUME scan # "CodeList"
        PROVE  FindsFirst'
    <2>1. found' = NoBody /\ \A t \in Carrying(code) : pos <= t
      BY <1>1, <1>2, <1>4 DEF IInv, NotPassed
    <2>2. CASE Carrying(code) = {}
      BY <1>1, <2>1, <2>2, FoundNone
    <2>3. CASE Carrying(code) # {}
      <3>1. /\ pos \in file.starts /\ HasHead(file, pos) /\ HasName(file, pos)
            /\ code # << >>
        BY <1>1, <2>1, <2>3, CarryingFacts
      <3>2. InMemory /\ BodyCut(pos)
        BY <1>1, <1>4, <3>1 DEF NothingToFind, HasEntry, InMemory
      <3>3. End(file, pos) \in Nat /\ Size(file) \in Nat /\ End(file, pos) > Size(file)
        BY <1>2, <3>1, <3>2, EntryFacts DEF BodyCut
      <3>4. pos \in Carrying(code)
        <4>1. PICK t \in Carrying(code) : TRUE
          BY <2>3
        <4>2. pos <= t /\ t \in Nat /\ (pos < t => End(file, pos) < Size(file))
          BY <1>1, <2>1, <4>1, CarryingFacts
        <4>3. pos = t
          BY <1>1, <3>3, <4>2 DEF Standing
        <4> QED BY <4>1, <4>3
      <3> QED BY <1>1, <2>1, <3>2, <3>4, FoundFirst
    <2> QED BY <2>2, <2>3
  <1>5. ASSUME scan = "CodeList"
        PROVE  Lists(names, pos) /\ Before(pos) = Held
    <2>1. Lists(names, pos)
      BY <1>1, <1>5 DEF IInv
    <2>2. ASSUME NEW t \in Held
          PROVE  t < pos
      <3>1. SUFFICES ASSUME pos <= t PROVE FALSE
        <4>1. t \in Nat /\ pos \in Nat
          BY <1>1, <1>2, <2>2, NamedFacts DEF Held, Standing
        <4> QED BY <3>1, <4>1
      <3>2. t \in Named(file) /\ ~ BodyCut(t)
        BY <2>2 DEF Held
      <3>3. /\ pos \in file.starts /\ HasHead(file, pos) /\ t \in Nat /\ pos \in Nat
            /\ pos < t => End(file, pos) <= t /\ End(file, pos) < Size(file)
        BY <1>1, <1>2, <3>1, <3>2, NothingAfter, NamedFacts DEF Standing
      <3>4. BodyCut(pos)
        BY <1>1, <1>5, <3>3 DEF NothingToFind, HasEntry, InMemory
      <3>5. End(file, pos) \in Nat /\ Size(file) \in Nat
        BY <1>2, <3>3, EntryFacts
      <3>6. pos = t
        BY <3>1, <3>3, <3>4, <3>5 DEF BodyCut
      <3> QED BY <3>2, <3>4, <3>6
    <2> QED BY <2>1, <2>2 DEF Before
  <1>6. scan = "CodeList" => ListsNames'
    BY <1>2, <1>5 DEF Lists, ListsNames, Held, BodyCut, HasHollow, Place
  <1>7. FindsFirst' /\ ListsNames'
    BY <1>2, <1>4, <1>6 DEF FindsFirst, ListsNames
  <1> QED BY <1>1, <1>3, <1>7 DEF IInv, PanicsOnlyOnHollow

LEMMA PanicInv == IInv /\ Panic => IInv'
  <1> SUFFICES ASSUME IInv, Panic PROVE IInv'
    OBVIOUS
  <1>1. /\ TypeOK /\ Standing /\ AtEntry /\ ~ HasName(file, pos)
        /\ pc' = "panic" /\ UNCHANGED <<input, pos, found, names>>
    BY DEF IInv, Panic, Stop
  <1>2. UNCHANGED <<file, scan, code, pos, found, names>> /\ file \in Files
    BY <1>1 DEF input, TypeOK
  <1>3. TypeOK' /\ Standing'
    BY <1>1, <1>2 DEF TypeOK, Standing, InMemory, input
  <1>4. HasHead(file, pos) /\ InMemory
    BY <1>1 DEF AtEntry, HasEntry
  <1>5. pos \in file.starts /\ End(file, pos) <= Size(file)
    BY <1>1, <1>4, InMemoryFacts
  <1>6. /\ Body(file, pos) \in Nat /\ Size(file) \in Nat
        /\ BodyLen(file, pos) \in Nat \ {1}
        /\ End(file, pos) = Body(file, pos) + BodyLen(file, pos)
    BY <1>2, <1>4, <1>5, EntryFacts
  <1>7. Body(file, pos) + 2 > Size(file)
    BY <1>1, <1>4, <1>6 DEF HasName
  <1>8. BodyLen(file, pos) = 0 /\ Body(file, pos) + 1 >= Size(file)
    BY <1>5, <1>6, <1>7
  <1>9. PanicsOnlyOnHollow'
    BY <1>1, <1>2, <1>4, <1>8 DEF PanicsOnlyOnHollow, Hollow, InMemory
  <1> QED BY <1>1, <1>3, <1>9 DEF IInv, FindsFirst, ListsNames

(* Where a name is not all there although the body is, the entry is hollow.*)
LEMMA HollowFacts ==
    ASSUME TypeOK, Standing, AtName, InMemory,
           ~ NameWhole(file, pos) \/ SliceWraps(pos)
    PROVE  /\ HasHead(file, pos) /\ Hollow(file, pos) /\ HasName(file, pos)
           /\ SliceWraps(pos) => NameLen(file, pos) \in {2 * Base - 2, 2 * Base - 1}
  <1>1. AtEntry /\ HasName(file, pos)
    BY DEF AtName
  <1>2. /\ pos \in file.starts /\ file \in Files /\ HasHead(file, pos)
        /\ End(file, pos) <= Size(file)
    BY <1>1, InMemoryFacts
  <1>3. /\ Body(file, pos) \in Nat /\ BodyLen(file, pos) \in Nat /\ Size(file) \in Nat
        /\ NameLen(file, pos) \in Nat
        /\ End(file, pos) = Body(file, pos) + BodyLen(file, pos)
        /\ Framed(file, pos) \/ Hollow(file, pos)
    BY <1>1, <1>2, EntryFacts
  <1>4. NameLen(file, pos) < 2 * Base
    <2>1. IsFile(file) /\ file.bytes \in Seq(Nat)
      BY <1>2, FilesAssumption DEF IsFile
    <2>2. Body(file, pos) + 2 \in DOMAIN file.bytes
      BY <1>1, <1>3, <2>1 DEF HasName, Size
    <2> QED BY <2>1, <2>2 DEF IsFile, NameLen
  <1>5. PICK n \in Nat : n = NameLen(file, pos)
    BY <1>3
  <1>6. Base \in Nat /\ Base >= 2
    BY LayoutAssumption
  <1>7. SliceWraps(pos) => n \in {2 * Base - 2, 2 * Base - 1}
    <2>1. n + 2 < 2 * Base => (n + 2) % (2 * Base) = n + 2
      BY <1>6
    <2>2. SliceWraps(pos) <=> (n + 2) % (2 * Base) < 2
      BY <1>5 DEF SliceWraps
    <2> QED BY <1>4, <1>5, <1>6, <2>1, <2>2
  <1>8. ~ Framed(file, pos)
    BY <1>1, <1>2, <1>3, <1>5, <1>6, <1>7 DEF Framed, NameWhole
  <1> QED BY <1>1, <1>2, <1>3, <1>5, <1>7, <1>8

(* A scan in memory that stops there with a panic. *)
LEMMA StopInv ==
    ASSUME IInv, AtName, InMemory, Stop("panic"),
           \/ ~ NameWhole(file, pos) /\ scan = "CodeList"
           \/ ~ NameWhole(file, pos) /\ NameLen(file, pos) = Len(code)
           \/ scan = "CodeList" /\ SliceWraps(pos)
    PROVE  IInv'
  <1>1. /\ TypeOK /\ Standing /\ pc' = "panic"
        /\ UNCHANGED <<file, scan, code, pos, found, names>>
    BY DEF IInv, Stop, input
  <1>2. TypeOK' /\ Standing'
    BY <1>1 DEF TypeOK, Standing, InMemory, input
  <1>3. /\ HasHead(file, pos) /\ Hollow(file, pos)
        /\ SliceWraps(pos) => NameLen(file, pos) \in {2 * Base - 2, 2 * Base - 1}
    BY <1>1, HollowFacts
  <1>4. PanicsOnlyOnHollow'
    BY <1>1, <1>3 DEF PanicsOnlyOnHollow, InMemory
  <1> QED BY <1>1, <1>2, <1>4 DEF IInv, FindsFirst, ListsNames

(* A search that returns the entry it stands at returns the first one. *)
LEMMA GiveInv ==
    ASSUME IInv, AtName, scan # "CodeList", Matches(pos), ~ BodyCut(pos), Give
    PROVE  IInv'
  <1>1. /\ TypeOK /\ Standing /\ pc' = "done"
        /\ UNCHANGED <<input, pos, names>>
        /\ found' = [Offset |-> Body(file, pos), Size |-> BodyLen(file, pos)]
    BY DEF IInv, Give
  <1>2. UNCHANGED <<file, scan, code, pos, names>> /\ file \in Files
    BY <1>1 DEF input, TypeOK
  <1>3. HasHead(file, pos) /\ pc = "scan"
    BY DEF AtName, AtEntry, HasEntry
  <1>4. pos \in file.starts
    BY <1>1, <1>3, StandsAtEntry
  <1>5. Body(file, pos) \in Nat /\ BodyLen(file, pos) \in Nat
    BY <1>2, <1>3, <1>4, EntryFacts
  <1>6. found' \in [Offset : Nat, Size : Nat]
    BY <1>1, <1>5
  <1>7. TypeOK' /\ Standing'
    BY <1>1, <1>2, <1>6 DEF TypeOK, Standing, InMemory, input
  <1>8. pos \in Carrying(code) /\ \A t \in Carrying(code) : pos <= t
    BY <1>1, <1>3, MatchFacts DEF IInv, NotPassed
  <1>9. found' = IF BodyCut(pos) THEN NoBody
                 ELSE [Offset |-> Body(file, pos), Size |-> BodyLen(file, pos)]
    BY <1>1
  <1>10. FindsFirst'
    BY <1>1, <1>8, <1>9, FoundFirst
  <1> QED BY <1>1, <1>2, <1>7, <1>10 DEF IInv, ListsNames, PanicsOnlyOnHollow

(* A search that has not found the code where it stands has every entry of *)
(* the code ahead, after the end of the entry it stands at. *)
LEMMA AheadFacts ==
    ASSUME IInv, AtName, scan # "CodeList", ~ Matches(pos), NEW t \in Carrying(code)
    PROVE  End(file, pos) <= t /\ End(file, pos) < Size(file)
  <1>1. TypeOK /\ Standing /\ pos <= t /\ pc = "scan"
    BY DEF IInv, NotPassed, AtName, AtEntry
  <1>2. pos \notin Carrying(code)
    BY <1>1, MatchFacts
  <1>3. t \in Nat /\ pos \in Nat /\ pos # t
    BY <1>1, <1>2, CarryingFacts DEF Standing
  <1> QED BY <1>1, <1>3, CarryingFacts

LEMMA FindCodeInv == IInv /\ FindCode => IInv'
  <1> SUFFICES ASSUME IInv, FindCode PROVE IInv'
    OBVIOUS
  <1>1. /\ scan = "FindCode" /\ AtName /\ InMemory /\ AtEntry /\ pc = "scan"
        /\ TypeOK /\ Standing
    BY DEF FindCode, InMemory, AtName, AtEntry, IInv
  <1>2. /\ pos \in file.starts /\ file \in Files
        /\ End(file, pos) \in file.starts /\ End(file, pos) \in Nat
        /\ Size(file) \in Nat
        /\ End(file, pos) <= Size(file)
    BY <1>1, InMemoryFacts
  <1>3. CASE Matches(pos) /\ Give
    <2>1. ~ BodyCut(pos)
      BY <1>2 DEF BodyCut
    <2> QED BY <1>1, <1>3, <2>1, GiveInv
  <1>4. CASE ~ Matches(pos) /\ ~ RunsOut(pos) /\ Proceed /\ UNCHANGED names
    <2>1. /\ UNCHANGED <<input, found, names>>
          /\ IF End(file, pos) = Size(file)
             THEN pc' = "done" /\ pos' = pos
             ELSE pc' = pc /\ pos' = End(file, pos)
      BY <1>4 DEF Proceed, After
    <2>2. UNCHANGED <<file, scan, code, found, names>>
      BY <2>1 DEF input
    <2>3. TypeOK' /\ Standing'
      BY <1>1, <1>2, <2>1, <2>2 DEF TypeOK, Standing, InMemory, input
    <2>4. \A t \in Carrying(code) : End(file, pos) <= t /\ End(file, pos) < Size(file)
      BY <1>1, <1>4, AheadFacts
    <2>5. found = NoBody
      BY <1>1 DEF IInv, NotPassed
    <2>6. CASE End(file, pos) = Size(file)
      <3>1. Carrying(code) = {}
        BY <1>2, <2>4, <2>6
      <3>2. FindsFirst'
        BY <2>1, <2>2, <2>5, <3>1, FoundNone
      <3> QED BY <1>1, <2>1, <2>2, <2>3, <2>6, <3>2
              DEF IInv, ListsNames, PanicsOnlyOnHollow
    <2>7. CASE End(file, pos) # Size(file)
      <3>1. pos' = End(file, pos) /\ pc' = "scan"
        BY <1>1, <2>1, <2>7
      <3>2. NotPassed'
        BY <2>2, <2>4, <2>5, <3>1 DEF NotPassed, NoBody, Carrying
      <3> QED BY <1>1, <2>2, <2>3, <3>1, <3>2
              DEF IInv, FindsFirst, ListsNames, PanicsOnlyOnHollow
    <2> QED BY <2>6, <2>7
  <1>5. CASE RunsOut(pos) /\ Stop("panic")
    BY <1>1, <1>5, StopInv DEF RunsOut
  <1> QED BY <1>3, <1>4, <1>5 DEF FindCode

(* Where the reader goes on when the name is not the code: at the end of   *)
(* the entry, or past the end of a file that cuts the name. *)
LEMMA ReaderFacts ==
    ASSUME TypeOK, Standing, AtName, scan = "FindCodeByReader", ~ Astray,
           NEW size \in Nat, NEW standAt \in Nat, NEW p \in Int,
           size \in {0, NameLen(file, pos)},
           standAt = IF size > 0 /\ ~ NameWhole(file, pos) THEN Size(file)
                     ELSE Body(file, pos) + 2 + size,
           p = standAt + (BodyLen(file, pos) - 2 - size)
    PROVE  /\ p \in Nat /\ (p \in file.starts \/ p >= Size(file))
           /\ End(file, pos) <= Size(file) => p = End(file, pos)
           /\ p = End(file, pos) \/ End(file, pos) >= Size(file)
  <1>1. HasHead(file, pos) /\ HasName(file, pos)
    BY DEF AtName, AtEntry, HasEntry
  <1>2. pos \in file.starts /\ file \in Files
    BY <1>1, StandsAtEntry
  <1>3. /\ Body(file, pos) \in Nat /\ Size(file) \in Nat
        /\ BodyLen(file, pos) \in Nat /\ NameLen(file, pos) \in Nat
        /\ End(file, pos) \in Nat
        /\ End(file, pos) = Body(file, pos) + BodyLen(file, pos)
        /\ End(file, pos) <= Size(file) => End(file, pos) \in file.starts
        /\ Framed(file, pos) \/ NameWhole(file, pos)
    BY <1>1, <1>2, EntryFacts DEF Astray, InMemory, NamesHold
  <1>4. CASE size > 0 /\ ~ NameWhole(file, pos)
    <2>1. size = NameLen(file, pos) /\ standAt = Size(file)
      BY <1>4
    <2>2. BodyLen(file, pos) >= 2 + size
      BY <1>3, <1>4, <2>1 DEF Framed
    <2>3. Body(file, pos) + 2 + size > Size(file)
      BY <1>1, <1>3, <1>4, <2>1 DEF NameWhole
    <2> QED BY <1>3, <2>1, <2>2, <2>3
  <1>5. CASE ~ (size > 0 /\ ~ NameWhole(file, pos))
    <2>1. standAt = Body(file, pos) + 2 + size
      BY <1>5
    <2>2. p = End(file, pos)
      BY <1>3, <2>1
    <2> QED BY <1>3, <2>2
  <1> QED BY <1>4, <1>5

LEMMA FindCodeByReaderInv == ~ Astray /\ IInv /\ FindCodeByReader => IInv'
  <1> SUFFICES ASSUME ~ Astray, IInv, FindCodeByReader PROVE IInv'
    OBVIOUS
  <1>1. /\ scan = "FindCodeByReader" /\ AtName /\ pc = "scan"
        /\ TypeOK /\ Standing
    BY DEF FindCodeByReader, AtName, AtEntry, IInv
  <1>2. HasHead(file, pos) /\ HasName(file, pos)
    BY <1>1 DEF AtName, AtEntry, HasEntry
  <1>3. pos \in file.starts /\ file \in Files /\ code \in Seq(Nat)
    BY <1>1, <1>2, StandsAtEntry, CodesAssumption DEF TypeOK, input
  <1>4. End(file, pos) \in Nat /\ Size(file) \in Nat
    BY <1>2, <1>3, EntryFacts
  <1>5. CASE Matches(pos) /\ ~ BodyCut(pos) /\ Give
    BY <1>1, <1>5, GiveInv
  <1>6. CASE Matches(pos) /\ BodyCut(pos) /\ Stop("done")
    <2>1. pc' = "done" /\ UNCHANGED <<input, pos, found, names>>
      BY <1>6 DEF Stop
    <2>2. UNCHANGED <<file, scan, code, pos, found, names>>
      BY <2>1 DEF input
    <2>3. TypeOK' /\ Standing'
      BY <1>1, <2>1, <2>2 DEF TypeOK, Standing, InMemory, input
    <2>4. /\ pos \in Carrying(code) /\ found = NoBody
          /\ \A t \in Carrying(code) : pos <= t
      BY <1>1, <1>6, MatchFacts DEF IInv, NotPassed
    <2>5. found' = IF BodyCut(pos) THEN NoBody
                   ELSE [Offset |-> Body(file, pos), Size |-> BodyLen(file, pos)]
      BY <1>6, <2>2, <2>4
    <2>6. FindsFirst'
      BY <1>1, <2>1, <2>4, <2>5, FoundFirst
    <2> QED BY <1>1, <2>1, <2>2, <2>3, <2>6
            DEF IInv, ListsNames, PanicsOnlyOnHollow
  <1> DEFINE size == IF NameLen(file, pos) = Len(code) THEN Len(code) ELSE 0
             standAt == IF size > 0 /\ ~ NameWhole(file, pos) THEN Size(file)
                        ELSE Body(file, pos) + 2 + size
             to == standAt + (BodyLen(file, pos) - 2 - size)
  <1>7. CASE /\ ~ Matches(pos)
             /\ pos' = IF to >= 0 THEN to ELSE standAt
             /\ UNCHANGED <<input, found, names, pc>>
    <2>1. /\ size \in Nat /\ standAt \in Nat /\ to \in Int
          /\ size \in {0, NameLen(file, pos)}
      <3>1. NameLen(file, pos) \in Nat /\ Body(file, pos) \in Nat /\ BodyLen(file, pos) \in Nat
        BY <1>2, <1>3, EntryFacts
      <3> QED BY <1>3, <1>4, <1>7, <3>1
    <2>2. /\ pos' \in Nat /\ (pos' \in file.starts \/ pos' >= Size(file))
          /\ End(file, pos) <= Size(file) => pos' = End(file, pos)
      <3>1. /\ to \in Nat /\ (to \in file.starts \/ to >= Size(file))
            /\ End(file, pos) <= Size(file) => to = End(file, pos)
        BY <1>1, <2>1, ReaderFacts
      <3>2. pos' = to
        <4> HIDE DEF to, standAt
        <4> QED BY <1>7, <3>1
      <3> QED BY <3>1, <3>2
    <2>3. UNCHANGED <<file, scan, code, found, names, pc>>
      BY <1>7 DEF input
    <2>4. TypeOK' /\ Standing'
      BY <1>1, <2>2, <2>3 DEF TypeOK, Standing, InMemory, input
    <2>5. \A t \in Carrying(code) : End(file, pos) <= t /\ End(file, pos) < Size(file)
      BY <1>1, <1>7, AheadFacts
    <2>6. found = NoBody
      BY <1>1 DEF IInv, NotPassed
    <2>7. \A t \in Carrying(code) : pos' <= t
      BY <1>4, <2>2, <2>5
    <2>8. NotPassed'
      BY <2>3, <2>6, <2>7 DEF NotPassed, NoBody, Carrying
    <2> QED BY <1>1, <2>3, <2>4, <2>8
            DEF IInv, FindsFirst, ListsNames, PanicsOnlyOnHollow
  <1> QED BY <1>5, <1>6, <1>7 DEF FindCodeByReader

-----------------------------------------------------------------------------
(* CodeList: what it has listed before an entry, the entry itself, what it *)
(* has listed after it. *)
LEMMA BeforeNext ==
    ASSUME TypeOK, Standing, AtName, scan = "CodeList"
    PROVE  /\ pos \notin Before(pos) /\ IsFiniteSet(Before(pos))
           /\ pos \in Held => NameLen(file, pos) > 0
           /\ Before(End(file, pos)) =
                Before(pos) \cup (IF pos \in Held THEN {pos} ELSE {})
           /\ End(file, pos) = Size(file) => Before(End(file, pos)) = Held
           /\ ~ HasHollow /\ NameLen(file, pos) > 0 => pos \in Held
  <1>1. AtEntry /\ InMemory /\ HasName(file, pos) /\ ~ BodyCut(pos)
    BY DEF AtName, AtEntry, InMemory, HasEntry
  <1>2. /\ pos \in file.starts /\ file \in Files /\ HasHead(file, pos)
        /\ Size(file) \in Nat /\ pos \in Nat /\ End(file, pos) \in Nat
        /\ End(file, pos) <= Size(file) /\ pos < End(file, pos)
    BY <1>1, InMemoryFacts
  <1>3. /\ Body(file, pos) \in Nat /\ BodyLen(file, pos) \in Nat /\ NameLen(file, pos) \in Nat
        /\ End(file, pos) = Body(file, pos) + BodyLen(file, pos)
        /\ Framed(file, pos) \/ Hollow(file, pos)
    BY <1>1, <1>2, EntryFacts
  <1>4. \A t \in Held : /\ t \in 0 .. Size(file) /\ t < Size(file)
                        /\ pos < t => End(file, pos) <= t
    BY <1>2, NamedFacts DEF Held
  <1>5. IsFiniteSet(Before(pos))
    <2>1. Before(pos) \subseteq 0 .. Size(file)
      BY <1>4 DEF Before
    <2>2. IsFiniteSet(0 .. Size(file))
      BY <1>2, FS_Interval
    <2> QED BY <2>1, <2>2, FS_Subset
  <1>6. Before(End(file, pos)) = Before(pos) \cup (IF pos \in Held THEN {pos} ELSE {})
    <2>1. \A t \in Held : t < End(file, pos) <=> (t < pos \/ t = pos)
      BY <1>2, <1>4
    <2> QED BY <2>1 DEF Before
  <1>7. End(file, pos) = Size(file) => Before(End(file, pos)) = Held
    BY <1>4 DEF Before
  <1>8. ASSUME ~ HasHollow, NameLen(file, pos) > 0
        PROVE  pos \in Held
    <2>1. Framed(file, pos)
      BY <1>2, <1>3, <1>8 DEF HasHollow
    <2>2. NameWhole(file, pos)
      BY <1>1, <1>2, <1>3, <2>1 DEF NameWhole, Framed
    <2> QED BY <1>1, <1>2, <1>8, <2>1, <2>2 DEF Held, Named
  <1>9. pos \in Held => NameLen(file, pos) > 0
    BY DEF Held, Named
  <1>10. pos \notin Before(pos)
    BY <1>2 DEF Before
  <1> QED BY <1>5, <1>6, <1>7, <1>8, <1>9, <1>10

(* The place of an entry is one of the list's, and that of the next entry  *)
(* is the next. *)
LEMMA PlaceFacts ==
    ASSUME NEW p \in Nat, IsFiniteSet(Before(p)), Held \subseteq Nat
    PROVE  /\ \A s \in Before(p) : Place(s) \in 1 .. Cardinality(Before(p))
           /\ p \in Held => Place(p) = Cardinality(Before(p)) + 1
           /\ p \in Held =>
                Cardinality(Before(p) \cup {p}) = Cardinality(Before(p)) + 1
  <1>1. Cardinality(Before(p)) \in Nat /\ \A t \in Held : t \in Nat
    BY FS_CardinalityType
  <1>2. ASSUME NEW s \in Before(p)
        PROVE  Place(s) \in 1 .. Cardinality(Before(p))
    <2> DEFINE upTo == {t \in Held : t <= s}
    <2>1. s \in Held /\ s < p /\ s \in Nat
      BY DEF Before
    <2>2. upTo \subseteq Before(p) /\ s \in upTo
      <3>1. \A t \in Held : t <= s => t < p
        BY <1>1, <2>1
      <3>2. s <= s
        BY <2>1
      <3> QED BY <2>1, <3>1, <3>2 DEF Before
    <2> HIDE DEF upTo
    <2>3. IsFiniteSet(upTo) /\ Cardinality(upTo) <= Cardinality(Before(p))
      BY <2>2, FS_Subset
    <2>4. Cardinality(upTo) \in Nat /\ Cardinality(upTo) # 0
      BY <2>2, <2>3, FS_EmptySet, FS_CardinalityType
    <2>5. Place(s) = Cardinality(upTo)
      BY DEF Place, upTo
    <2> QED BY <1>1, <2>3, <2>4, <2>5
  <1>3. Cardinality(Before(p) \cup {p}) = Cardinality(Before(p)) + 1
    <2>1. p \notin Before(p)
      BY DEF Before
    <2> QED BY <2>1, FS_AddElement
  <1>4. ASSUME p \in Held
        PROVE  Place(p) = Cardinality(Before(p)) + 1
    <2>1. {t \in Held : t <= p} = Before(p) \cup {p}
      <3>1. \A t \in Held : t <= p <=> (t < p \/ t = p)
        BY <1>1
      <3> QED BY <1>4, <3>1 DEF Before
    <2> QED BY <1>3, <2>1 DEF Place
  <1> QED BY <1>2, <1>3, <1>4

LEMMA ListsNext ==
    ASSUME TypeOK, Standing, AtName, scan = "CodeList", Lists(names, pos),
           NEW ns,
           ns = IF NameLen(file, pos) > 0 THEN Append(names, Name(file, pos)) ELSE names
    PROVE  ns \in Seq(Seq(Nat)) /\ Lists(ns, End(file, pos))
  <1> DEFINE e == End(file, pos)
  <1>1. /\ pos \notin Before(pos) /\ IsFiniteSet(Before(pos))
        /\ pos \in Held => NameLen(file, pos) > 0
        /\ Before(e) = Before(pos) \cup (IF pos \in Held THEN {pos} ELSE {})
        /\ ~ HasHollow /\ NameLen(file, pos) > 0 => pos \in Held
    BY BeforeNext
  <1> HIDE DEF e
  <1>2. names \in Seq(Seq(Nat)) /\ file \in Files /\ pos \in Nat /\ Held \subseteq Nat
    BY NamedFacts DEF TypeOK, input, Standing, Held
  <1>3. Name(file, pos) \in Seq(Nat)
    <2>1. HasHead(file, pos) /\ HasName(file, pos)
      BY DEF AtName, AtEntry, HasEntry
    <2> QED BY <2>1, StandsAtEntry, EntryFacts
  <1>4. PICK w \in Seq(Nat) : w = Name(file, pos)
    BY <1>3
  <1>5. /\ Append(names, w) \in Seq(Seq(Nat))
        /\ Len(Append(names, w)) = Len(names) + 1
        /\ \A i \in 1 .. Len(names) : Append(names, w)[i] = names[i]
        /\ Append(names, w)[Len(names) + 1] = w
        /\ DOMAIN names = 1 .. Len(names) /\ Len(names) \in Nat
        /\ DOMAIN Append(names, w) = 1 .. Len(names) + 1
    BY <1>2
  <1>6. PICK more \in Seq(Seq(Nat)) : more = Append(names, w)
    BY <1>5
  <1>7. /\ ns = IF NameLen(file, pos) > 0 THEN more ELSE names
        /\ Len(more) = Len(names) + 1
        /\ \A i \in 1 .. Len(names) : more[i] = names[i]
        /\ more[Len(names) + 1] = Name(file, pos)
        /\ DOMAIN more = 1 .. Len(names) + 1
    BY <1>4, <1>5, <1>6
  <1>8. /\ \A s \in Before(pos) : Place(s) \in 1 .. Cardinality(Before(pos))
        /\ pos \in Held => Place(pos) = Cardinality(Before(pos)) + 1
        /\ pos \in Held =>
             Cardinality(Before(pos) \cup {pos}) = Cardinality(Before(pos)) + 1
    BY <1>1, <1>2, PlaceFacts
  <1>9. ASSUME NEW s \in Before(e)
        PROVE  \E i \in DOMAIN ns : ns[i] = Name(file, s)
    <2>1. CASE s = pos /\ pos \in Held
      <3>1. ns = more /\ Len(names) + 1 \in DOMAIN more
        BY <1>1, <1>5, <1>7, <2>1
      <3> QED BY <1>7, <2>1, <3>1
    <2>2. CASE s \in Before(pos)
      <3>1. PICK i \in DOMAIN names : names[i] = Name(file, s)
        BY <2>2 DEF Lists
      <3>2. i \in DOMAIN ns /\ ns[i] = names[i]
        BY <1>5, <1>7
      <3> QED BY <3>1, <3>2
    <2> QED BY <1>1, <2>1, <2>2
  <1>10. ASSUME ~ HasHollow
         PROVE  /\ Len(ns) = Cardinality(Before(e))
                /\ \A s \in Before(e) : ns[Place(s)] = Name(file, s)
    <2>1. /\ Len(names) = Cardinality(Before(pos))
          /\ \A s \in Before(pos) : names[Place(s)] = Name(file, s)
      BY <1>10 DEF Lists
    <2>2. CASE pos \in Held
      <3>1. ns = more /\ Before(e) = Before(pos) \cup {pos}
        BY <1>1, <1>7, <2>2
      <3>2. Len(ns) = Cardinality(Before(e))
        BY <1>7, <1>8, <2>1, <2>2, <3>1
      <3>3. \A s \in Before(pos) : ns[Place(s)] = Name(file, s)
        BY <1>7, <1>8, <2>1, <3>1
      <3>4. ns[Place(pos)] = Name(file, pos)
        BY <1>7, <1>8, <2>1, <2>2, <3>1
      <3> QED BY <3>1, <3>2, <3>3, <3>4
    <2>3. CASE pos \notin Held
      <3>1. ns = names /\ Before(e) = Before(pos)
        BY <1>1, <1>7, <1>10, <2>3
      <3> QED BY <2>1, <3>1
    <2> QED BY <2>2, <2>3
  <1>11. ns \in Seq(Seq(Nat))
    BY <1>2, <1>7
  <1> QED BY <1>9, <1>10, <1>11 DEF Lists, e

LEMMA CodeListInv == IInv /\ CodeList => IInv'
  <1> SUFFICES ASSUME IInv, CodeList PROVE IInv'
    OBVIOUS
  <1>1. /\ scan = "CodeList" /\ AtName /\ InMemory /\ AtEntry /\ pc = "scan"
        /\ TypeOK /\ Standing /\ Lists(names, pos)
    BY DEF CodeList, InMemory, AtName, AtEntry, IInv
  <1> SUFFICES ASSUME /\ Proceed
                      /\ names' = IF NameLen(file, pos) > 0
                                  THEN Append(names, Name(file, pos)) ELSE names
               PROVE  IInv'
    <2>1. CASE /\ SliceWraps(pos) \/ ~ NameWhole(file, pos)
               /\ Stop("panic")
      BY <1>1, <2>1, StopInv
    <2> QED BY <2>1 DEF CodeList
  <1>2. /\ pos \in file.starts /\ file \in Files
        /\ End(file, pos) \in file.starts /\ End(file, pos) \in Nat
        /\ Size(file) \in Nat
    BY <1>1, InMemoryFacts
  <1>3. /\ UNCHANGED <<input, found>>
        /\ IF End(file, pos) = Size(file)
           THEN pc' = "done" /\ pos' = pos
           ELSE pc' = pc /\ pos' = End(file, pos)
        /\ names' = IF NameLen(file, pos) > 0
                    THEN Append(names, Name(file, pos)) ELSE names
    BY DEF Proceed, After
  <1>4. UNCHANGED <<file, scan, code, found>>
    BY <1>3 DEF input
  <1>5. names' \in Seq(Seq(Nat)) /\ Lists(names', End(file, pos))
    BY <1>1, <1>3, ListsNext
  <1>6. TypeOK' /\ Standing'
    BY <1>1, <1>2, <1>3, <1>4, <1>5 DEF TypeOK, Standing, InMemory, input
  <1>7. CASE End(file, pos) = Size(file)
    <2>1. Before(End(file, pos)) = Held
      BY <1>1, <1>7, BeforeNext
    <2>2. ListsNames'
      BY <1>4, <1>5, <2>1 DEF Lists, ListsNames, Held, BodyCut, HasHollow, Place
    <2> QED BY <1>1, <1>3, <1>4, <1>6, <1>7, <2>2
            DEF IInv, FindsFirst, PanicsOnlyOnHollow
  <1>8. CASE End(file, pos) # Size(file)
    <2>1. pos' = End(file, pos) /\ pc' = "scan"
      BY <1>1, <1>3, <1>8
    <2>2. Lists(names, pos)'
      BY <1>4, <1>5, <2>1 DEF Lists, Before, Held, BodyCut, HasHollow, Place
    <2> QED BY <1>1, <1>4, <1>6, <2>1, <2>2
            DEF IInv, FindsFirst, ListsNames, PanicsOnlyOnHollow
  <1> QED BY <1>7, <1>8

LEMMA StutterInv == IInv /\ UNCHANGED vars => IInv'
  <1> SUFFICES ASSUME IInv, UNCHANGED vars PROVE IInv'
    OBVIOUS
  <1>1. UNCHANGED <<file, scan, code, pos, found, names, pc>>
    BY DEF vars, input
  <1>2. TypeOK' /\ Standing'
    BY <1>1 DEF IInv, TypeOK, Standing, InMemory, input
  <1>3. Carrying(code)' = Carrying(code) /\ Held' = Held
    BY <1>1 DEF Carrying, Held, BodyCut
  <1>4. NotPassed' <=> NotPassed
    BY <1>1, <1>3 DEF NotPassed, NoBody
  <1>5. Lists(names, pos)' <=> Lists(names, pos)
    BY <1>1 DEF Lists, Before, Held, BodyCut, HasHollow, Place
  <1>6. FindsFirst' <=> FindsFirst
    BY <1>1 DEF FindsFirst, Carrying, BodyCut, NoBody, Astray, InMemory, NamesHold
  <1>7. ListsNames' <=> ListsNames
    BY <1>1 DEF ListsNames, Held, BodyCut, HasHollow, Place
  <1>8. PanicsOnlyOnHollow' <=> PanicsOnlyOnHollow
    BY <1>1 DEF PanicsOnlyOnHollow, InMemory
  <1> QED BY <1>1, <1>2, <1>4, <1>5, <1>6, <1>7, <1>8 DEF IInv

(* A reader that has gone astray keeps its types, and does not panic. *)
LEMMA AstrayNext ==
    ASSUME TypeOK, Astray, pc # "panic", [Next]_vars
    PROVE  TypeOK' /\ pc' # "panic"
  <1>1. /\ file \in Files /\ scan = "FindCodeByReader" /\ pos \in Nat
        /\ code \in Seq(Nat)
    BY CodesAssumption DEF TypeOK, input, Astray, InMemory
  <1>2. CASE Quit
    BY <1>1, <1>2 DEF Quit, Stop, TypeOK, input, InMemory
  <1>3. CASE FindCodeByReader
    <2>1. HasHead(file, pos) /\ HasName(file, pos)
      BY <1>3 DEF FindCodeByReader, AtName, HasName
    <2>2. Body(file, pos) \in Nat /\ BodyLen(file, pos) \in Nat /\ NameLen(file, pos) \in Nat
      BY <1>1, <2>1, HeaderFacts
    <2>3. Size(file) \in Nat
      BY <1>1, FilesAssumption DEF IsFile, Size
    <2>4. CASE Stop("done")
      BY <1>1, <2>4 DEF Stop, TypeOK, input, InMemory
    <2>5. CASE Give
      <3>1. found' \in [Offset : Nat, Size : Nat]
        BY <2>2, <2>5 DEF Give
      <3> QED BY <1>1, <2>5, <3>1 DEF Give, TypeOK, input, InMemory
    <2>6. CASE UNCHANGED <<input, found, names, pc>> /\ pos' \in Nat
      BY <1>1, <2>6 DEF TypeOK, input, InMemory
    <2> DEFINE size == IF NameLen(file, pos) = Len(code) THEN Len(code) ELSE 0
               standAt == IF size > 0 /\ ~ NameWhole(file, pos) THEN Size(file)
                          ELSE Body(file, pos) + 2 + size
               to == standAt + (BodyLen(file, pos) - 2 - size)
    <2>7. size \in Nat
      BY <1>1
    <2>8. standAt \in Nat
      <3> HIDE DEF size
      <3> QED BY <2>2, <2>3, <2>7
    <2>9. CASE pos' = (IF to >= 0 THEN to ELSE standAt) /\ UNCHANGED <<input, found, names, pc>>
      <3>1. to \in Int
        <4> HIDE DEF size, standAt
        <4> QED BY <2>2, <2>7, <2>8
      <3>2. pos' \in Nat
        <4> HIDE DEF to, standAt
        <4> QED BY <2>8, <2>9, <3>1
      <3> QED BY <2>6, <2>9, <3>2
    <2> QED BY <1>3, <2>4, <2>5, <2>9 DEF FindCodeByReader
  <1>4. CASE Panic
    BY <1>1, <1>4 DEF Panic, AtEntry, HasEntry, InMemory
  <1>5. CASE FindCode \/ CodeList
    BY <1>1, <1>5 DEF FindCode, CodeList
  <1>6. CASE UNCHANGED vars
    BY <1>6 DEF vars, TypeOK, input, InMemory
  <1> QED BY <1>2, <1>3, <1>4, <1>5, <1>6 DEF Next

(* The invariant of the three scans. *)
THEOREM Invariance == Spec => []Inv
  <1>1. Init => Inv
    BY InitInv DEF Inv, IInv, Init
  <1>2. Inv /\ [Next]_vars => Inv'
    <2> SUFFICES ASSUME Inv, [Next]_vars PROVE Inv'
      OBVIOUS
    <2>1. UNCHANGED input
      BY DEF Next, vars, Quit, Panic, Stop, FindCode, FindCodeByReader, CodeList, Give, Proceed
    <2>2. Astray' <=> Astray
      BY <2>1 DEF input, Astray, InMemory, NamesHold
    <2>3. CASE Astray
      BY <2>2, <2>3, AstrayNext DEF Inv
    <2>4. CASE ~ Astray
      <3>1. IInv'
        BY <2>4, QuitInv, PanicInv, FindCodeInv, FindCodeByReaderInv, CodeListInv, StutterInv
           DEF Next, Inv
      <3> QED BY <2>2, <2>4, <3>1 DEF Inv, IInv
    <2> QED BY <2>3, <2>4
  <1> QED BY <1>1, <1>2, PTL DEF Spec

(* The scans keep their types, and one in memory stands between entries of *)
(* the file. *)
THEOREM TypeCorrect == Spec => []TypeOK
  <1>1. Inv => TypeOK
    BY DEF Inv
  <1> QED BY <1>1, Invariance, PTL

(* FindCode and FindCodeByReader find the first entry of the code, and     *)
(* nothing when there is none, or when it is cut. *)
THEOREM FindsTheFirst == Spec => []FindsFirst
  <1>1. Inv => FindsFirst
    BY DEF Inv, IInv, FindsFirst
  <1> QED BY <1>1, Invariance, PTL

(* CodeList lists the names of the entries that are whole, in their order. *)
THEOREM ListsWhatIsHeld == Spec => []ListsNames
  <1>1. Inv => ListsNames
    BY DEF Inv, IInv, ListsNames, Astray, InMemory
  <1> QED BY <1>1, Invariance, PTL

(* Only a hollow entry makes a scan in memory panic, and only in one of    *)
(* the three ways the property names; a reader never panics. *)
THEOREM PanicsOnlyThere == Spec => []PanicsOnlyOnHollow
  <1>1. Inv => PanicsOnlyOnHollow
    BY DEF Inv, IInv, PanicsOnlyOnHollow
  <1> QED BY <1>1, Invariance, PTL
=============================================================================
