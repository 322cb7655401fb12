--------------------------- MODULE CodeIndexProofs ---------------------------
(***************************************************************************)
(* For every set of files that satisfy IsFile, whatever their length, and  *)
(* for the code's Base, MaxVarint and HeaderLen: what CodeListByReader     *)
(* lists is sound, and complete when it returns. The invariant says that   *)
(* the tracked position is the real one, that the scan stands in, or       *)
(* between, entries of the file, and that every named entry before the     *)
(* place it has reached is listed. On files that lead the scan astray      *)
(* (NamesHold does not hold) only the types are left of it.                *)
(***************************************************************************)
EXTENDS CodeIndex, InductionFacts

(* Every named entry before offset p is in the index, as itself or as a    *)
(* later one of its name. *)
Listed(p) ==
    \A t \in Named(file) : t < p =>
        /\ Name(file, t) \in DOMAIN list
        /\ \E u \in Named(file) :
             /\ t <= u /\ u < p
             /\ Name(file, u) = Name(file, t)
             /\ list[Name(file, t)] = EntryOf(u)

(* The scan has read the header of the entry at s. *)
Header(s) ==
    /\ HasName(file, s)
    /\ bodyL = BodyLen(file, s)
    /\ size = NameLen(file, s)

BetweenEntries == (pos \in file.starts \/ pos >= Size(file)) /\ Listed(pos)

BeforeName ==
    \E s \in file.starts : Header(s) /\ pos = Body(file, s) + 2 /\ Listed(s)

AfterName ==
    \E s \in file.starts :
        /\ Header(s)
        /\ pos = IF NameWhole(file, s) THEN Body(file, s) + 2 + size ELSE Size(file)
        /\ Listed(s + 1)

IInv ==
    /\ TypeOK
    /\ off = pos
    /\ pc = "header" => BetweenEntries
    /\ pc = "name" => BeforeName
    /\ pc = "skip" => AfterName
    /\ IndexSound
    /\ IndexComplete

-----------------------------------------------------------------------------
(* A file of the scan, taken apart. *)
LEMMA FileFacts ==
    ASSUME NEW f \in Files
    PROVE  /\ IsFile(f)
           /\ f.bytes \in Seq(Nat)
           /\ Size(f) \in Nat
           /\ f.starts \subseteq Nat
           /\ \A s \in f.starts : s <= Size(f)
  BY FilesAssumption DEF IsFile, Size

(* The length of a varint is one at which it ends. *)
LEMMA VarintFacts ==
    ASSUME NEW f \in Files, NEW s, HasHead(f, s)
    PROVE  VarintLen(f, s) \in 1 .. MaxVarint /\ IsVarint(f, s + 1, VarintLen(f, s))
  BY DEF HasHead, VarintLen

(* A header at any place says a number, also where no entry begins. *)
LEMMA HeaderFacts ==
    ASSUME NEW f \in Files, NEW p \in Nat, HasHead(f, p)
    PROVE  /\ VarintLen(f, p) \in Nat /\ Body(f, p) \in Nat
           /\ BodyLen(f, p) \in Nat
           /\ HasName(f, p) => NameLen(f, p) \in Nat
  <1> DEFINE n == VarintLen(f, p)
             digit == [k \in 1 .. n |-> f.bytes[p + 1 + n + 1 - k] % Base]
  <1>1. n \in 1 .. MaxVarint /\ IsVarint(f, p + 1, n)
    BY VarintFacts
  <1>2. f.bytes \in Seq(Nat) /\ Size(f) \in Nat
    BY FileFacts
  <1>3. n \in Nat /\ p + 1 + n <= Size(f) /\ Base \in Nat /\ Base > 0
    BY <1>1, LayoutAssumption DEF IsVarint
  <1>4. BodyLen(f, p) = (CHOOSE upTo : upTo = [k \in 0 .. n |->
              IF k = 0 THEN 0 ELSE upTo[k - 1] * Base + digit[k]])[n]
    BY DEF BodyLen, VarintValue
  <1> HIDE DEF n
  <1>5. ASSUME NEW k \in 1 .. n
        PROVE  f.bytes[p + 1 + n + 1 - k] % Base \in Nat
    <2>1. p + 1 + n + 1 - k \in 1 .. Size(f)
      BY <1>2, <1>3
    <2>2. f.bytes[p + 1 + n + 1 - k] \in Nat
      BY <1>2, <2>1 DEF Size
    <2> QED BY <1>3, <2>2
  <1>6. digit \in [1 .. n -> Nat]
    BY <1>5
  <1> HIDE DEF digit
  <1>7. BodyLen(f, p) \in Nat
    BY <1>3, <1>4, <1>6, DigitsWorth
  <1>8. Body(f, p) \in Nat /\ Body(f, p) = p + 1 + n
    BY <1>3 DEF Body, n
  <1>9. HasName(f, p) => NameLen(f, p) \in Nat
    BY <1>2, <1>8 DEF HasName, NameLen, Size
  <1> QED BY <1>3, <1>7, <1>8, <1>9 DEF n

(* Where the body of an entry is, and what its header says. *)
LEMMA EntryFacts ==
    ASSUME NEW f \in Files, NEW s \in f.starts, HasHead(f, s)
    PROVE  /\ VarintLen(f, s) \in Nat
           /\ Body(f, s) \in Nat
           /\ s + 2 <= Body(f, s)
           /\ Body(f, s) <= Size(f)
           /\ BodyLen(f, s) \in Nat
           /\ HasName(f, s) => NameLen(f, s) \in Nat
  <1>1. IsFile(f) /\ f.bytes \in Seq(Nat) /\ Size(f) \in Nat /\ s \in Nat
    BY FileFacts
  <1>2. VarintLen(f, s) \in 1 .. MaxVarint /\ IsVarint(f, s + 1, VarintLen(f, s))
    BY VarintFacts
  <1>3. /\ VarintLen(f, s) \in Nat
        /\ Body(f, s) \in Nat
        /\ s + 2 <= Body(f, s)
        /\ Body(f, s) <= Size(f)
    BY <1>1, <1>2, LayoutAssumption DEF Body, IsVarint
  <1>4. BodyLen(f, s) \in Nat
    BY <1>1 DEF IsFile
  <1>5. HasName(f, s) => NameLen(f, s) \in Nat
    BY <1>1, <1>3 DEF HasName, NameLen, Size
  <1> QED BY <1>3, <1>4, <1>5

(* What is read of a name is a sequence of bytes. *)
LEMMA FieldType ==
    ASSUME NEW f \in Files, NEW p \in Nat, NEW n \in Nat
    PROVE  Field(f, p, n) \in Seq(Nat)
  <1>1. f.bytes \in Seq(Nat) /\ Size(f) \in Nat
    BY FileFacts
  <1>2. ASSUME NEW i \in 1 .. n, p + i <= Size(f)
        PROVE  f.bytes[p + i] \in Nat
    BY <1>1, <1>2 DEF Size
  <1>3. Field(f, p, n) \in [1 .. n -> Nat]
    BY <1>2 DEF Field
  <1> QED BY <1>3

(* A read delivers no more than it is asked for or there is, and all of it *)
(* if it is there. *)
LEMMA DeliveredFacts ==
    ASSUME TypeOK, NEW p \in Nat, NEW n \in Nat
    PROVE  /\ Delivered(p, n) \in Nat
           /\ p + n <= Size(file) => Delivered(p, n) = n
           /\ p <= Size(file) /\ p + n > Size(file) => p + Delivered(p, n) = Size(file)
  BY FileFacts DEF Delivered, TypeOK

LEMMA InitInv == Init => IInv
  <1> SUFFICES ASSUME Init PROVE IInv
    OBVIOUS
  <1>1. TypeOK
    BY DEF Init, TypeOK
  <1>2. 0 \in file.starts
    BY FileFacts DEF Init, IsFile
  <1>3. Listed(0)
    <2>1. \A t \in Named(file) : t \in Nat
      BY FileFacts DEF Init, Named
    <2> QED BY <2>1 DEF Listed
  <1>4. IndexSound /\ IndexComplete
    BY DEF Init, IndexSound, IndexComplete
  <1> QED BY <1>1, <1>2, <1>3, <1>4 DEF Init, IInv, BetweenEntries

-----------------------------------------------------------------------------
(* When a header is cut there is no named entry from there on. *)
LEMMA ReturnInv ==
    ASSUME IInv, Return
    PROVE  IInv'
  <1> USE DEF Return
  <1>1. file \in Files /\ pos \in Nat /\ BetweenEntries
    BY DEF IInv, TypeOK
  <1>2. IsFile(file) /\ Size(file) \in Nat /\ file.starts \subseteq Nat
    BY <1>1, FileFacts
  <1>3. ASSUME NEW t \in Named(file)
        PROVE  t < pos
    <2>1. t \in file.starts /\ NameWhole(file, t) /\ HasName(file, t) /\ HasHead(file, t)
      BY DEF Named, NameWhole, HasName
    <2>2. /\ t \in Nat /\ Body(file, t) \in Nat
          /\ t + 2 <= Body(file, t) /\ Body(file, t) + 2 <= Size(file)
      BY <1>1, <1>2, <2>1, EntryFacts DEF HasName
    <2>3. CASE pos >= Size(file)
      BY <1>1, <1>2, <2>2, <2>3
    <2>4. CASE pos \in file.starts /\ t = pos
      <3>1. Delivered(pos, HeaderLen) \in Nat /\ Delivered(pos, HeaderLen) >= 2
        BY <1>1, <1>2, <2>2, <2>4, LayoutAssumption DEF Delivered
      <3> QED BY <2>1, <2>4, <3>1 DEF HeaderCut
    <2>5. CASE pos \in file.starts /\ pos < t
      <3>1. HasHead(file, pos) /\ End(file, pos) <= t
        BY <1>2, <2>1, <2>5 DEF IsFile
      <3>2. /\ Body(file, pos) \in Nat /\ BodyLen(file, pos) \in Nat
            /\ pos + 2 <= Body(file, pos) /\ Body(file, pos) <= Size(file)
        BY <1>1, <2>5, <3>1, EntryFacts
      <3>3. HasName(file, pos)
        BY <1>2, <2>2, <3>1, <3>2 DEF HasName, End
      <3>4. Delivered(pos, HeaderLen) \in Nat /\ Delivered(pos, HeaderLen) >= 2
        BY <1>1, <1>2, <3>2, LayoutAssumption DEF Delivered
      <3> QED BY <3>1, <3>3, <3>4 DEF HeaderCut
    <2> QED BY <1>1, <1>2, <2>2, <2>3, <2>4, <2>5 DEF BetweenEntries
  <1>4. IndexComplete'
    BY <1>1, <1>3 DEF IndexComplete, BetweenEntries, Listed, EntryOf
  <1>5. TypeOK' /\ IndexSound'
    BY DEF IInv, TypeOK, IndexSound, EntryOf, ListedAs
  <1> QED BY <1>4, <1>5 DEF IInv

(* The scan comes to the name of the entry it stands at. *)
LEMMA ReadHeaderInv ==
    ASSUME IInv, ReadHeader
    PROVE  IInv'
  <1>1. /\ file \in Files /\ file' = file
        /\ pos \in Nat /\ off = pos
        /\ BetweenEntries
        /\ HasName(file, pos) /\ HasHead(file, pos)
    BY DEF IInv, TypeOK, ReadHeader, HasName
  <1>2. Size(file) \in Nat
    BY <1>1, FileFacts
  <1>3. pos \in file.starts
    <2>1. VarintLen(file, pos) \in 1 .. MaxVarint
          /\ IsVarint(file, pos + 1, VarintLen(file, pos))
      BY <1>1, VarintFacts
    <2>2. pos + 1 + VarintLen(file, pos) <= Size(file)
      BY <2>1 DEF IsVarint
    <2>3. ~ (pos >= Size(file))
      BY <1>1, <1>2, <2>1, <2>2, LayoutAssumption
    <2> QED BY <1>1, <2>3 DEF BetweenEntries
  <1>4. /\ VarintLen(file, pos) \in Nat
        /\ Body(file, pos) \in Nat /\ BodyLen(file, pos) \in Nat
        /\ NameLen(file, pos) \in Nat
    BY <1>1, <1>3, EntryFacts
  <1>5. Delivered(pos, HeaderLen) \in Nat
    BY <1>1, DeliveredFacts, LayoutAssumption DEF IInv
  <1>6. pos' = Body(file, pos) + 2 /\ off' = pos'
    BY <1>1, <1>4, <1>5 DEF ReadHeader, Move, Body
  <1>7. TypeOK'
    BY <1>4, <1>6 DEF IInv, TypeOK, ReadHeader
  <1>8. BeforeName'
    <2>1. PICK s \in file.starts : s = pos
      BY <1>3
    <2>2. Header(s)'
      BY <1>1, <2>1 DEF Header, ReadHeader
    <2>3. Listed(s)'
      BY <1>1, <2>1 DEF BetweenEntries, Listed, EntryOf, ReadHeader
    <2>4. pos' = Body(file', s) + 2
      BY <1>1, <1>6, <2>1
    <2> QED BY <1>1, <2>1, <2>2, <2>3, <2>4 DEF BeforeName
  <1>9. IndexSound' /\ IndexComplete'
    BY DEF IInv, IndexSound, IndexComplete, EntryOf, ListedAs, ReadHeader
  <1> QED BY <1>6, <1>7, <1>8, <1>9 DEF IInv, ReadHeader

(* The name the scan reads is the entry's, and so is the offset it records *)
(* for it, from the tracked position, unless the end of the file cuts the  *)
(* name. *)
LEMMA ReadNameInv ==
    ASSUME NamesHold(file), IInv, ReadName
    PROVE  IInv'
  <1>1. PICK s \in file.starts :
          Header(s) /\ pos = Body(file, s) + 2 /\ Listed(s)
    BY DEF IInv, ReadName, BeforeName
  <1>2. /\ file \in Files /\ file' = file
        /\ pos \in Nat /\ off = pos
        /\ size \in Nat /\ bodyL \in Nat /\ size > 0
        /\ size' = size /\ bodyL' = bodyL
        /\ size = NameLen(file, s) /\ bodyL = BodyLen(file, s)
        /\ HasName(file, s) /\ HasHead(file, s)
    BY <1>1 DEF IInv, TypeOK, ReadName, Header, HasName
  <1>3. /\ IsFile(file) /\ Size(file) \in Nat /\ file.starts \subseteq Nat
        /\ s \in Nat /\ Body(file, s) \in Nat
    BY <1>2, FileFacts, EntryFacts
  <1> DEFINE name == Name(file, s)
             got == Delivered(pos, size)
             entry == [Offset |-> BodyBefore(off', size), Size |-> bodyL]
  <1>4. name = Field(file, pos, size) /\ name \in Seq(Nat)
    BY <1>1, <1>2, FieldType DEF Name
  <1>5. /\ got \in Nat
        /\ pos' = pos + got /\ off' = pos'
        /\ NameWhole(file, s) => got = size
        /\ ~ NameWhole(file, s) => pos + got = Size(file)
    <2>1. Body(file, s) + 2 <= Size(file)
      BY <1>2 DEF HasName
    <2>2. NameWhole(file, s) <=> pos + size <= Size(file)
      BY <1>1, <1>2 DEF NameWhole
    <2>3. pos' = pos + got /\ off' = off + got
      BY DEF ReadName, Move
    <2>4. pos <= Size(file)
      BY <1>1, <2>1
    <2>5. /\ got \in Nat
          /\ pos + size <= Size(file) => got = size
          /\ pos + size > Size(file) => pos + got = Size(file)
      BY <1>2, <2>4, DeliveredFacts DEF IInv
    <2> HIDE DEF got
    <2> QED BY <1>2, <1>3, <2>2, <2>3, <2>5
  <1>6. list' = [w \in DOMAIN list \cup {name} |->
                   IF w = name THEN entry ELSE list[w]]
    BY <1>4 DEF ReadName
  <1>7. entry = ListedAs(s) /\ (NameWhole(file, s) => entry = EntryOf(s))
    BY <1>1, <1>2, <1>3, <1>5 DEF BodyBefore, EntryOf, ListedAs
  <1>8. TypeOK'
    <2>1. entry \in [Offset : Int, Size : Nat]
      BY <1>2, <1>5 DEF BodyBefore
    <2> QED BY <1>2, <1>4, <1>5, <1>6, <2>1 DEF IInv, TypeOK, ReadName
  <1>9. AfterName'
    <2>1. Header(s)'
      BY <1>2 DEF Header
    <2>2. pos' = IF NameWhole(file', s) THEN Body(file', s) + 2 + size' ELSE Size(file')
      BY <1>1, <1>2, <1>5
    <2>3. ASSUME NEW t \in Named(file), t < s + 1
          PROVE  /\ Name(file, t) \in DOMAIN list'
                 /\ \E u \in Named(file) :
                      /\ t <= u /\ u < s + 1
                      /\ Name(file, u) = Name(file, t)
                      /\ list'[Name(file, t)] = EntryOf(u)
      <3>1. t \in Nat
        BY <1>3 DEF Named
      <3>2. CASE Name(file, t) = name
        <4>1. s \in Named(file)
          BY <1>2, <1>3, <3>2 DEF IsFile
        <4>2. NameWhole(file, s)
          BY <4>1 DEF Named
        <4> QED BY <1>3, <1>6, <1>7, <2>3, <3>1, <3>2, <4>1, <4>2
      <3>3. CASE Name(file, t) # name
        <4>1. t < s
          BY <1>3, <2>3, <3>1, <3>3
        <4>2. PICK u \in Named(file) :
                /\ t <= u /\ u < s
                /\ Name(file, u) = Name(file, t)
                /\ list[Name(file, t)] = EntryOf(u)
          BY <1>1, <4>1 DEF Listed
        <4>3. Name(file, t) \in DOMAIN list /\ u \in Nat
          BY <1>1, <1>3, <4>1 DEF Listed, Named
        <4> QED BY <1>3, <1>6, <3>3, <4>2, <4>3
      <3> QED BY <3>2, <3>3
    <2>4. Listed(s + 1)'
      BY <1>2, <2>3 DEF Listed, EntryOf
    <2> QED BY <1>2, <2>1, <2>2, <2>4 DEF AfterName
  <1>10. IndexSound'
    <2> SUFFICES ASSUME NEW w \in DOMAIN list'
                 PROVE  \E t \in file.starts :
                          /\ HasName(file, t)
                          /\ w = Name(file, t)
                          /\ list'[w] = ListedAs(t)
      BY <1>2 DEF IndexSound, EntryOf, ListedAs
    <2>1. CASE w = name
      BY <1>2, <1>6, <1>7, <2>1
    <2>2. CASE w # name
      BY <1>6, <2>2 DEF IInv, IndexSound
    <2> QED BY <2>1, <2>2
  <1> QED BY <1>5, <1>8, <1>9, <1>10 DEF IInv, IndexComplete, ReadName

(* An entry without a name is no named entry. *)
LEMMA NoNameInv ==
    ASSUME IInv, NoName
    PROVE  IInv'
  <1>1. PICK s \in file.starts :
          Header(s) /\ pos = Body(file, s) + 2 /\ Listed(s)
    BY DEF IInv, NoName, BeforeName
  <1>2. /\ file \in Files /\ file' = file /\ pos' = pos
        /\ list' = list /\ size' = size /\ bodyL' = bodyL
        /\ size = 0 /\ NameLen(file, s) = 0
        /\ HasName(file, s)
    BY <1>1 DEF IInv, TypeOK, NoName, Header
  <1>3. /\ s \in Nat /\ file.starts \subseteq Nat /\ Size(file) \in Nat
        /\ Body(file, s) \in Nat
    BY <1>2, FileFacts, EntryFacts DEF HasName
  <1>4. s \notin Named(file)
    BY <1>2 DEF Named
  <1>5. Listed(s + 1)'
    <2>1. \A t \in Named(file) : t < s + 1 => t < s
      BY <1>3, <1>4 DEF Named
    <2>2. \A u \in Named(file) : u < s => u < s + 1
      BY <1>3 DEF Named
    <2> QED BY <1>1, <1>2, <2>1, <2>2 DEF Listed, EntryOf
  <1>6. NameWhole(file, s) /\ pos = Body(file, s) + 2 + size
    BY <1>1, <1>2, <1>3 DEF NameWhole, HasName
  <1>7. Header(s)'
    BY <1>1, <1>2 DEF Header
  <1>8. AfterName'
    BY <1>2, <1>5, <1>6, <1>7 DEF AfterName
  <1>9. TypeOK' /\ IndexSound' /\ IndexComplete'
    BY DEF NoName, IInv, TypeOK, IndexSound, IndexComplete, EntryOf, ListedAs
  <1> QED BY <1>8, <1>9 DEF IInv, NoName

(* From the end of the name the scan comes to the next entry, or to where  *)
(* nothing is left to be read. *)
LEMMA SkipBodyInv ==
    ASSUME NamesHold(file), IInv, SkipBody
    PROVE  IInv'
  <1>1. PICK s \in file.starts :
          /\ Header(s)
          /\ pos = IF NameWhole(file, s) THEN Body(file, s) + 2 + size ELSE Size(file)
          /\ Listed(s + 1)
    BY DEF IInv, SkipBody, AfterName
  <1>2. /\ file \in Files /\ file' = file /\ list' = list
        /\ pos \in Nat /\ off = pos
        /\ size = NameLen(file, s) /\ bodyL = BodyLen(file, s)
        /\ HasName(file, s) /\ HasHead(file, s)
    BY <1>1 DEF IInv, TypeOK, SkipBody, Header, HasName
  <1>3. /\ IsFile(file) /\ Size(file) \in Nat /\ file.starts \subseteq Nat
        /\ s \in Nat /\ Body(file, s) \in Nat
        /\ s + 2 <= Body(file, s)
        /\ size \in Nat /\ bodyL \in Nat
    BY <1>2, FileFacts, EntryFacts
  <1> DEFINE to == pos + (bodyL - 2 - size)
  <1>4. NameWhole(file, s) => to = End(file, s)
    BY <1>1, <1>2, <1>3 DEF End
  <1>5. ~ NameWhole(file, s) => to >= Size(file) /\ End(file, s) > Size(file)
    <2> SUFFICES ASSUME ~ NameWhole(file, s)
                 PROVE  to >= Size(file) /\ End(file, s) > Size(file)
      OBVIOUS
    <2>1. Framed(file, s)
      BY <1>2, <1>3 DEF IsFile, NamesHold
    <2>2. bodyL >= 2 + size
      BY <1>2, <2>1 DEF Framed
    <2>3. Body(file, s) + 2 + size > Size(file)
      BY <1>2, <1>3 DEF NameWhole
    <2> QED BY <1>1, <1>2, <1>3, <2>2, <2>3 DEF End
  <1>6. to \in Nat
    BY <1>2, <1>3, <1>4, <1>5 DEF End
  <1>7. pos' = to /\ off' = pos'
    BY <1>2, <1>6 DEF SkipBody, Seek, ToEnd, Move
  <1>8. to \in file.starts \/ to >= Size(file)
    BY <1>2, <1>3, <1>4, <1>5, <1>6 DEF IsFile
  <1>9. ASSUME NEW t \in Named(file), t < to
        PROVE  t < s + 1
    <2>1. t \in file.starts /\ t \in Nat /\ t <= Size(file)
      BY <1>2, <1>3, FileFacts DEF Named
    <2>2. CASE s < t
      <3>1. End(file, s) <= t
        BY <1>3, <2>1, <2>2 DEF IsFile
      <3>2. End(file, s) \in Nat
        BY <1>2, <1>3 DEF End
      <3> QED BY <1>3, <1>4, <1>5, <1>6, <1>9, <2>1, <3>1, <3>2
    <2> QED BY <1>3, <2>1, <2>2
  <1>10. \A u \in Named(file) : u < s + 1 => u < to
    <2>1. s + 2 <= to
      <3>1. Body(file, s) <= Size(file)
        BY <1>2, EntryFacts
      <3>2. End(file, s) >= Body(file, s)
        BY <1>2, <1>3 DEF End
      <3> QED BY <1>2, <1>3, <1>4, <1>5, <1>6, <3>1, <3>2 DEF End
    <2> QED BY <1>3, <1>6, <2>1 DEF Named
  <1>11. BetweenEntries'
    <2>1. PICK p \in Nat : p = to
      BY <1>6
    <2>2. Listed(p)'
      BY <1>1, <1>2, <1>9, <1>10, <2>1 DEF Listed, EntryOf
    <2> QED BY <1>2, <1>7, <1>8, <2>1, <2>2 DEF BetweenEntries, Listed
  <1>12. TypeOK'
    BY <1>6, <1>7 DEF IInv, TypeOK, SkipBody
  <1>13. IndexSound' /\ IndexComplete'
    BY DEF SkipBody, IInv, IndexSound, IndexComplete, EntryOf, ListedAs
  <1> QED BY <1>7, <1>11, <1>12, <1>13 DEF IInv, SkipBody

LEMMA StutterInv ==
    ASSUME IInv, UNCHANGED vars
    PROVE  IInv'
  BY DEF vars, IInv, TypeOK, BetweenEntries, BeforeName, AfterName, Header,
         Listed, IndexSound, IndexComplete, EntryOf, ListedAs

LEMMA NextInv == NamesHold(file) /\ IInv /\ [Next]_vars => IInv'
  <1> SUFFICES ASSUME NamesHold(file), IInv, [Next]_vars
               PROVE  IInv'
    OBVIOUS
  <1>1. CASE Return
    BY <1>1, ReturnInv
  <1>2. CASE ReadHeader
    BY <1>2, ReadHeaderInv
  <1>3. CASE ReadName
    BY <1>3, ReadNameInv
  <1>4. CASE NoName
    BY <1>4, NoNameInv
  <1>5. CASE SkipBody
    BY <1>5, SkipBodyInv
  <1>6. CASE UNCHANGED vars
    BY <1>6, StutterInv
  <1> QED BY <1>1, <1>2, <1>3, <1>4, <1>5, <1>6 DEF Next

(* Wherever the scan goes, its variables keep their types. *)
LEMMA NextType == TypeOK /\ [Next]_vars => TypeOK'
  <1> SUFFICES ASSUME TypeOK, [Next]_vars
               PROVE  TypeOK'
    OBVIOUS
  <1>1. CASE Return
    BY <1>1 DEF TypeOK, Return
  <1>2. CASE ReadHeader
    <2>1. file \in Files /\ pos \in Nat /\ HasName(file, pos) /\ HasHead(file, pos)
      BY <1>2 DEF TypeOK, ReadHeader, HasName
    <2>2. /\ VarintLen(file, pos) \in Nat /\ BodyLen(file, pos) \in Nat
          /\ NameLen(file, pos) \in Nat
      BY <2>1, HeaderFacts
    <2>3. Delivered(pos, HeaderLen) \in Nat
      BY <2>1, DeliveredFacts, LayoutAssumption
    <2> QED BY <1>2, <2>1, <2>2, <2>3 DEF TypeOK, ReadHeader, Move
  <1>3. CASE ReadName
    <2>1. Delivered(pos, size) \in Nat
      BY DeliveredFacts DEF TypeOK
    <2>2. pos' \in Nat /\ off' \in Int
      BY <1>3, <2>1 DEF TypeOK, ReadName, Move
    <2> DEFINE name == Field(file, pos, size)
               entry == [Offset |-> BodyBefore(off', size), Size |-> bodyL]
    <2>3. name \in Seq(Nat)
      BY FieldType DEF TypeOK
    <2>4. entry \in [Offset : Int, Size : Nat]
      BY <2>2 DEF TypeOK, BodyBefore
    <2>5. list' = [w \in DOMAIN list \cup {name} |-> IF w = name THEN entry ELSE list[w]]
      BY <1>3 DEF ReadName
    <2> HIDE DEF name, entry
    <2> QED BY <1>3, <2>2, <2>3, <2>4, <2>5 DEF TypeOK, ReadName
  <1>4. CASE NoName
    BY <1>4 DEF TypeOK, NoName
  <1>5. CASE SkipBody
    BY <1>5 DEF TypeOK, SkipBody, Seek, ToEnd, Move
  <1>6. CASE UNCHANGED vars
    BY <1>6 DEF TypeOK, vars
  <1> QED BY <1>1, <1>2, <1>3, <1>4, <1>5, <1>6 DEF Next

-----------------------------------------------------------------------------
(* The strengthened invariant holds in every reachable state, unless the   *)
(* file is one that leads the scan astray. *)
Inv == TypeOK /\ (NamesHold(file) => IInv)

THEOREM Invariance == Spec => []Inv
  <1>1. Init => Inv
    BY InitInv DEF Inv, IInv
  <1>2. Inv /\ [Next]_vars => Inv'
    <2>1. [Next]_vars => file' = file
      BY DEF Next, vars, Return, ReadHeader, ReadName, NoName, SkipBody
    <2>2. file' = file => (NamesHold(file)' <=> NamesHold(file))
      BY Zenon
    <2> QED BY <2>1, <2>2, NextInv, NextType DEF Inv
  <1> QED BY <1>1, <1>2, PTL DEF Spec

(* The scan's state keeps its types: no seek leaves the file backwards,    *)
(* even on a file that leads the scan astray. *)
THEOREM TypeCorrect == Spec => []TypeOK
  <1>1. Inv => TypeOK
    BY DEF Inv
  <1> QED BY <1>1, Invariance, PTL

(* What CodeListByReader lists is an entry of the file under its own name. *)
THEOREM Sound == Spec => []IndexSound
  <1>1. Inv => IndexSound
    BY DEF Inv, IInv, IndexSound
  <1> QED BY <1>1, Invariance, PTL

(* When CodeListByReader returns it has listed every named entry.          *)
THEOREM Complete == Spec => []IndexComplete
  <1>1. Inv => IndexComplete
    BY DEF Inv, IInv, IndexComplete
  <1> QED BY <1>1, Invariance, PTL
=============================================================================
