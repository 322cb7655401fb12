--------------------------- MODULE SingReaderProofs ---------------------------
(***************************************************************************)
(* For every database, every set of wanted codes and every place where the *)
(* file may end: the cursor of the reader comes home and each code that is *)
(* read is read exactly. The invariant says where the cursor is while a    *)
(* code is being read: the place the read began, which is the end of the   *)
(* metadata or beyond the end of the file, is always the cursor less what  *)
(* was counted and less the index of the code. A second invariant says     *)
(* which of the wanted codes are read, being read and still to be read.    *)
(***************************************************************************)
EXTENDS SingReader, TLAPS

Home == pos - counter - Index(cur)

(* What is known while the items of cur are read. *)
Reading ==
    /\ Len(domain) <= Count[cur]
    /\ \A k \in 1 .. Len(domain) : domain[k] = First[cur] + k - 1
    /\ \/ Home = 0 /\ pos = Start[First[cur] + Len(domain)]
       \/ Home >= cut /\ domain = << >>

IInv ==
    /\ TypeOK
    /\ CursorHome
    /\ pc = "read" => Reading
    /\ ReadExact

(* The index of a code is an offset, and its items are items. *)
LEMMA Layout ==
    ASSUME NEW c \in Codes
    PROVE  /\ Index(c) \in Nat
           /\ First[c] \in Nat \ {0}
           /\ Count[c] \in Nat
           /\ First[c] + Count[c] <= NItems + 1
           /\ \A i \in 1 .. NItems + 1 : Start[i] \in Nat
           /\ \A i, j \in 1 .. NItems + 1 : Start[i] = Start[j] => i = j
  <1>1. \A i \in 1 .. NItems + 1 : Start[i] \in Nat
    BY DatabaseAssumption
  <1>2. First[c] \in 1 .. NItems + 1 /\ Count[c] \in Nat /\ NItems \in Nat
    BY DatabaseAssumption
  <1>3. \A i, j \in 1 .. NItems + 1 : Start[i] = Start[j] => i = j
    <2>1. SUFFICES ASSUME NEW i \in 1 .. NItems + 1, NEW j \in 1 .. NItems + 1,
                          Start[i] = Start[j], i # j
                   PROVE  FALSE
      OBVIOUS
    <2>2. i < j \/ j < i
      BY <1>2, <2>1
    <2>3. Start[i] < Start[j] \/ Start[j] < Start[i]
      BY <2>2, DatabaseAssumption
    <2> QED BY <1>1, <2>1, <2>3
  <1>4. First[c] + Count[c] <= NItems + 1
    BY DatabaseAssumption
  <1> QED BY <1>1, <1>2, <1>3, <1>4 DEF Index

LEMMA InitInv == Init => IInv
  BY DatabaseAssumption
     DEF Init, IInv, TypeOK, CursorHome, ReadExact, None

-----------------------------------------------------------------------------
(* What a read keeps depends on the command alone. *)
LEMMA KeptStable ==
    ASSUME UNCHANGED input, ReadExact, UNCHANGED got
    PROVE  ReadExact'
  BY DEF ReadExact, AllowRegex, AllowKeyword, OneByOne, input

(* A failed read leaves got alone or empties it. *)
LEMMA FailedKeeps ==
    ASSUME IInv, UNCHANGED input, Failed
    PROVE  /\ ReadExact'
           /\ DOMAIN got' \subseteq Codes
           /\ pc' \in {"next", "error"}
  <1>1. CASE UNCHANGED got /\ pc' = "next"
    BY <1>1, KeptStable DEF IInv, TypeOK
  <1>2. CASE pc' = "error" /\ got' = << >>
    BY <1>2 DEF ReadExact
  <1> QED BY <1>1, <1>2 DEF Failed

LEMMA MissingInv ==
    ASSUME IInv, NEW c \in Absent, Missing(c)
    PROVE  IInv'
  <1>1. /\ ReadExact'
        /\ DOMAIN got' \subseteq Codes
        /\ pc' \in {"next", "error"}
    BY FailedKeeps DEF Missing
  <1>2. TypeOK'
    BY <1>1 DEF Missing, IInv, TypeOK, input
  <1>3. CursorHome'
    BY DEF Missing, IInv, CursorHome, input
  <1> QED BY <1>1, <1>2, <1>3 DEF IInv

LEMMA SeekIndexInv ==
    ASSUME IInv, NEW c \in Codes, SeekIndex(c)
    PROVE  IInv'
  <1>1. Index(c) \in Nat /\ First[c] \in Nat
    BY Layout
  <1>2. TypeOK'
    BY <1>1 DEF SeekIndex, NewCounter, IInv, TypeOK, input
  <1>3. ReadExact'
    BY KeptStable DEF SeekIndex, IInv
  <1>4. /\ Home' = pos
        /\ pos' = pos + Index(c)
        /\ domain' = << >>
        /\ cur' = c
    BY <1>1 DEF SeekIndex, NewCounter, IInv, TypeOK, Home, Index
  <1>5. pos = 0 \/ pos >= cut'
    BY DEF SeekIndex, IInv, CursorHome, input
  <1>6. Reading'
    <2>1. Len(domain') = 0 /\ Count[c] \in Nat
      BY <1>4, Layout
    <2>2. pos = 0 => pos' = Start[First[c] + Len(domain')]
      BY <1>1, <1>4, <2>1 DEF Index
    <2> QED BY <1>1, <1>4, <1>5, <2>1, <2>2 DEF Reading
  <1>7. CursorHome'
    BY DEF SeekIndex, CursorHome
  <1> QED BY <1>2, <1>3, <1>6, <1>7 DEF IInv

(* A read that gets an item began at the end of the metadata, and the item *)
(* is the next one of the code. *)
LEMMA ReadItemInv ==
    ASSUME IInv, NEW i \in Items, ReadItem(i)
    PROVE  IInv'
  <1> DEFINE c == cur
             next == First[c] + Len(domain)
  <1>1. /\ pc = "read" /\ c \in Codes
        /\ Reading
        /\ pos \in Nat /\ counter \in Nat
        /\ domain \in Seq(Items)
        /\ Len(domain) \in Nat /\ Len(domain) < Count[c]
    BY DEF ReadItem, MoreItems, IInv, TypeOK
  <1>2. /\ i \in Nat /\ i \in 1 .. NItems + 1 /\ i + 1 \in 1 .. NItems + 1
        /\ Start[i] \in Nat /\ Start[i + 1] \in Nat
        /\ Start[i] < Start[i + 1]
        /\ \A f \in Cuts : f \in Nat
    <2>1. /\ NItems \in Nat /\ i \in Nat
          /\ i \in 1 .. NItems + 1 /\ i + 1 \in 1 .. NItems + 1
          /\ i < i + 1
      BY DatabaseAssumption DEF Items
    <2> QED BY <2>1, DatabaseAssumption
  <1>3. Start[i] = pos /\ Start[i + 1] <= cut /\ cut \in Nat
    BY <1>2 DEF ReadItem, CanRead, IInv, TypeOK
  <1>4. /\ Home = 0
        /\ pos = Start[next]
    BY <1>1, <1>2, <1>3, Layout DEF Reading, Home
  <1>5. i = next
    <2>1. next \in 1 .. NItems + 1
      BY <1>1, Layout, DatabaseAssumption
    <2> QED BY <1>1, <1>2, <1>3, <1>4, <2>1, Layout
  <1>6. /\ pos' = Start[i + 1]
        /\ counter' = counter + (Start[i + 1] - Start[i])
        /\ domain' = Append(domain, i)
        /\ cur' = c /\ cut' = cut
    BY DEF ReadItem, input
  <1>7. /\ Len(domain') = Len(domain) + 1
        /\ domain' \in Seq(Items)
        /\ \A k \in 1 .. Len(domain) : domain'[k] = domain[k]
        /\ domain'[Len(domain) + 1] = i
    BY <1>1, <1>6
  <1>8. TypeOK'
    BY <1>1, <1>2, <1>3, <1>6, <1>7 DEF ReadItem, IInv, TypeOK, input
  <1>9. Reading'
    <2>1. Len(domain') <= Count[c]
      BY <1>1, <1>7, Layout
    <2>2. ASSUME NEW k \in 1 .. Len(domain')
          PROVE  domain'[k] = First[c] + k - 1
      <3>1. CASE k \in 1 .. Len(domain)
        BY <1>1, <1>7, <3>1 DEF Reading
      <3>2. CASE k = Len(domain) + 1
        BY <1>1, <1>5, <1>7, <3>2, Layout
      <3> QED BY <1>1, <1>7, <2>2, <3>1, <3>2
    <2>3. Home' = 0
      BY <1>1, <1>2, <1>3, <1>4, <1>6, Layout DEF Home, Index
    <2>4. pos' = Start[First[c] + Len(domain')]
      <3>1. First[c] + Len(domain') = i + 1
        BY <1>1, <1>2, <1>5, <1>7, Layout
      <3> QED BY <1>6, <3>1
    <2> QED BY <1>6, <2>1, <2>2, <2>3, <2>4 DEF Reading
  <1>10. ReadExact' /\ CursorHome'
    BY <1>1, KeptStable DEF ReadItem, IInv, CursorHome
  <1> QED BY <1>8, <1>9, <1>10 DEF IInv

LEMMA ReadFailsInv ==
    ASSUME IInv, ReadFails
    PROVE  IInv'
  <1>1. /\ ReadExact'
        /\ DOMAIN got' \subseteq Codes
        /\ pc' \in {"next", "error"}
    BY FailedKeeps DEF ReadFails
  <1>2. /\ pos \in Nat /\ counter \in Nat /\ cut \in Nat /\ cut' = cut
        /\ pos' = IF pos < cut THEN cut ELSE pos
        /\ counter' = counter + (pos' - pos)
    BY DatabaseAssumption DEF ReadFails, IInv, TypeOK, input
  <1>3. pos' \in Nat /\ counter' \in Nat /\ pos' >= cut'
    BY <1>2
  <1>4. TypeOK'
    BY <1>1, <1>3 DEF ReadFails, MoreItems, IInv, TypeOK, input
  <1>5. CursorHome'
    BY <1>3 DEF CursorHome
  <1> QED BY <1>1, <1>4, <1>5 DEF IInv

LEMMA SeekBackInv ==
    ASSUME IInv, SeekBack
    PROVE  IInv'
  <1>1. /\ pc = "read" /\ cur \in Codes
        /\ Reading
        /\ Len(domain) = Count[cur]
        /\ pos \in Nat /\ counter \in Nat /\ cut \in Nat /\ cut' = cut
        /\ Index(cur) \in Nat /\ Count[cur] \in Nat
        /\ domain \in Seq(Items)
    BY Layout, DatabaseAssumption DEF SeekBack, IInv, TypeOK, input
  <1>2. pos' = Home
    BY <1>1 DEF SeekBack, WayBack, Home
  <1>3. Home = 0 \/ Home >= cut
    BY <1>1 DEF Reading
  <1>4. Home \in Nat
    BY <1>1, <1>3 DEF Home
  <1>5. domain = Own(cur)
    BY <1>1 DEF Reading, Own
  <1>6. got' = [c \in DOMAIN got \cup {cur} |->
                  IF c = cur THEN Kept(Own(cur), AllowRegex, AllowKeyword)
                  ELSE got[c]]
    BY <1>5 DEF SeekBack
  <1>7. AllowRegex' = AllowRegex /\ AllowKeyword' = AllowKeyword
    BY DEF SeekBack, AllowRegex, AllowKeyword, OneByOne, input
  <1>8. ReadExact'
    BY <1>6, <1>7 DEF ReadExact, IInv
  <1>9. TypeOK'
    BY <1>1, <1>2, <1>4, <1>6 DEF SeekBack, IInv, TypeOK, input
  <1>10. CursorHome'
    BY <1>1, <1>2, <1>3 DEF CursorHome
  <1>11. pc' # "read"
    BY DEF SeekBack
  <1> QED BY <1>8, <1>9, <1>10, <1>11 DEF IInv

LEMMA FinishInv ==
    ASSUME IInv, Finish
    PROVE  IInv'
  <1>1. ReadExact'
    BY KeptStable DEF Finish, IInv
  <1>2. TypeOK'
    BY DEF Finish, IInv, TypeOK, input
  <1> QED BY <1>1, <1>2 DEF Finish, IInv, CursorHome

LEMMA StutterInv ==
    ASSUME IInv, UNCHANGED vars
    PROVE  IInv'
  <1>1. ReadExact'
    BY KeptStable DEF vars, IInv
  <1>2. TypeOK' /\ CursorHome'
    BY DEF vars, input, IInv, TypeOK, CursorHome
  <1>3. Reading => Reading'
    BY DEF vars, input, Reading, Home, Index
  <1> QED BY <1>1, <1>2, <1>3 DEF IInv, vars

LEMMA NextInv == IInv /\ [Next]_vars => IInv'
  <1> SUFFICES ASSUME IInv, [Next]_vars
               PROVE  IInv'
    OBVIOUS
  <1>1. CASE \E c \in Absent : Missing(c)
    BY <1>1, MissingInv
  <1>2. CASE \E c \in Codes : SeekIndex(c)
    BY <1>2, SeekIndexInv
  <1>3. CASE \E i \in Items : ReadItem(i)
    BY <1>3, ReadItemInv
  <1>4. CASE ReadFails
    BY <1>4, ReadFailsInv
  <1>5. CASE SeekBack
    BY <1>5, SeekBackInv
  <1>6. CASE Finish
    BY <1>6, FinishInv
  <1>7. CASE UNCHANGED vars
    BY <1>7, StutterInv
  <1> QED BY <1>1, <1>2, <1>3, <1>4, <1>5, <1>6, <1>7 DEF Next

-----------------------------------------------------------------------------
(* The strengthened invariant holds in every reachable state. *)
THEOREM Invariance == Spec => []IInv
  BY InitInv, NextInv, PTL DEF Spec

(* The reader's state keeps its types: in particular no seek of Read takes *)
(* the cursor before the end of the metadata. *)
THEOREM TypeCorrect == Spec => []TypeOK
  <1>1. IInv => TypeOK
    BY DEF IInv
  <1> QED BY <1>1, Invariance, PTL

(* Between two reads the cursor of GeoSiteReader is at the end of the      *)
(* metadata, or nothing is left to be read. *)
THEOREM CursorComesHome == Spec => []CursorHome
  <1>1. IInv => CursorHome
    BY DEF IInv
  <1> QED BY <1>1, Invariance, PTL

(* Every code extractSingGeoSite got is what the database has of it. *)
THEOREM ReadsExactly == Spec => []ReadExact
  <1>1. IInv => ReadExact
    BY DEF IInv
  <1> QED BY <1>1, Invariance, PTL

-----------------------------------------------------------------------------
(* Nothing is missing at the end of the file. *)
WholeFile == cut = Start[NItems + 1]

InHand == IF pc = "read" THEN {cur} ELSE {}

(* Every wanted code is read, or being read, or still to be read, unless   *)
(* its read failed; on a whole file the cursor is really home, so that no  *)
(* read fails.                                                             *)
Progress ==
    /\ DOMAIN got \subseteq want
    /\ pc = "read" => cur \in want
    /\ pc # "error" /\ strict /\ caller \in OneCall =>
         want \subseteq DOMAIN got \cup pending \cup InHand
    /\ WholeFile =>
         /\ pc = "next" => pos = 0
         /\ pc = "read" => Home = 0
         /\ pc # "error" => want \cap Codes \subseteq DOMAIN got \cup pending \cup InHand
    /\ pc = "done" => pending = {}

LEMMA InitProgress == Init => Progress
  BY DEF Init, Progress, InHand

(* A strict command for several codes does not go on after a failure. *)
LEMMA FailedStops ==
    ASSUME Failed, strict, caller \in OneCall
    PROVE  pc' = "error"
  BY DEF Failed, SkipsFailed, OneCall, OneByOne

LEMMA FailedDomain ==
    ASSUME Failed, DOMAIN got \subseteq want
    PROVE  /\ DOMAIN got' \subseteq want
           /\ pc' \in {"next", "error"}
           /\ pc' # "error" => got' = got
  BY DEF Failed

(* All of a whole file can be read, from home. *)
LEMMA WholeFileReads ==
    ASSUME IInv, WholeFile, MoreItems, Home = 0
    PROVE  \E i \in Items : CanRead(i)
  <1> DEFINE i == First[cur] + Len(domain)
  <1>1. /\ cur \in Codes /\ pos \in Nat /\ counter \in Nat /\ cut \in Nat
        /\ Len(domain) \in Nat /\ Len(domain) < Count[cur]
        /\ Reading
    BY DatabaseAssumption DEF MoreItems, IInv, TypeOK
  <1>2. /\ First[cur] \in Nat \ {0} /\ Count[cur] \in Nat /\ NItems \in Nat
        /\ First[cur] + Count[cur] <= NItems + 1
    BY <1>1, Layout, DatabaseAssumption
  <1>3. i \in Items /\ i + 1 \in 1 .. NItems + 1 /\ NItems + 1 \in 1 .. NItems + 1
    BY <1>1, <1>2 DEF Items
  <1>4. pos = Start[i]
    <2>1. CASE Home >= cut
      <3>1. NItems + 1 = 1
        <4>1. Start[NItems + 1] <= 0
          BY <1>1, <2>1 DEF WholeFile
        <4>2. SUFFICES ASSUME 1 < NItems + 1
                       PROVE  FALSE
          BY <1>2
        <4>3. 1 \in 1 .. NItems + 1 /\ Start[1] < Start[NItems + 1]
          BY <1>2, <1>3, <4>2, DatabaseAssumption
        <4> QED BY <1>1, <1>3, <4>1, <4>3, Layout
      <3> QED BY <1>2, <1>3, <3>1 DEF Items
    <2>2. CASE pos = Start[First[cur] + Len(domain)]
      BY <2>2
    <2> QED BY <1>1, <2>1, <2>2 DEF Reading
  <1>5. Start[i + 1] <= cut
    <2>1. CASE i + 1 = NItems + 1
      BY <1>1, <2>1 DEF WholeFile
    <2>2. CASE i + 1 < NItems + 1
      <3>1. Start[i + 1] < Start[NItems + 1]
        BY <1>3, <2>2, DatabaseAssumption
      <3>2. Start[i + 1] \in Nat
        BY <1>1, <1>3, Layout
      <3> QED BY <1>1, <3>1, <3>2 DEF WholeFile
    <2> QED BY <1>2, <1>3, <2>1, <2>2
  <1> QED BY <1>3, <1>4, <1>5 DEF CanRead

LEMMA MissingProgress ==
    ASSUME IInv, Progress, NEW c \in Absent, Missing(c)
    PROVE  Progress'
  <1>1. c \notin Codes
    BY DEF Missing
  <1>2. /\ DOMAIN got' \subseteq want'
        /\ pc' \in {"next", "error"}
        /\ pc' # "error" => got' = got
    BY FailedDomain DEF Missing, Progress, input
  <1>3. strict' /\ caller' \in OneCall => pc' = "error"
    BY FailedStops DEF Missing, input
  <1>4. WholeFile' => WholeFile /\ pos' = 0
    BY DEF Missing, Progress, WholeFile, input
  <1>5. WholeFile' /\ pc' # "error" => want' \cap Codes \subseteq DOMAIN got' \cup pending' \cup InHand'
    BY <1>1, <1>2, <1>4 DEF Missing, Progress, InHand, input
  <1> QED BY <1>2, <1>3, <1>4, <1>5 DEF Progress

LEMMA SeekIndexProgress ==
    ASSUME IInv, Progress, NEW c \in Codes, SeekIndex(c)
    PROVE  Progress'
  <1>1. /\ pc = "next" /\ pc' = "read" /\ c \in pending /\ cur' = c
        /\ pending' = pending \ {c} /\ got' = got
        /\ want' = want /\ strict' = strict /\ caller' = caller /\ cut' = cut
    BY DEF SeekIndex, input
  <1>2. pending \subseteq want
    BY DEF IInv, TypeOK
  <1>3. Home' = pos
    <2>1. Index(c) \in Nat /\ pos \in Nat
      BY Layout DEF IInv, TypeOK
    <2> QED BY <2>1 DEF SeekIndex, NewCounter, Home, Index
  <1>4. InHand = {} /\ InHand' = {c}
    BY <1>1 DEF InHand
  <1> QED BY <1>1, <1>2, <1>3, <1>4 DEF Progress, WholeFile

LEMMA ReadItemProgress ==
    ASSUME IInv, Progress, NEW i \in Items, ReadItem(i)
    PROVE  Progress'
  <1>1. /\ pc = "read" /\ pc' = "read" /\ cur' = cur /\ cur \in Codes
        /\ pending' = pending /\ got' = got
        /\ want' = want /\ strict' = strict /\ caller' = caller /\ cut' = cut
    BY DEF ReadItem, MoreItems, IInv, TypeOK, input
  <1>2. Home' = Home
    <2>1. /\ i \in 1 .. NItems + 1 /\ i + 1 \in 1 .. NItems + 1
          /\ pos \in Nat /\ counter \in Nat
      BY DatabaseAssumption DEF Items, IInv, TypeOK
    <2>2. Start[i] \in Nat /\ Start[i + 1] \in Nat /\ Index(cur) \in Nat
      BY <1>1, <2>1, Layout
    <2>3. pos = Start[i]
      BY DEF ReadItem, CanRead
    <2>4. Index(cur)' = Index(cur)
      BY <1>1 DEF Index
    <2> QED BY <2>1, <2>2, <2>3, <2>4 DEF ReadItem, Home
  <1>3. InHand' = InHand
    BY <1>1 DEF InHand
  <1> QED BY <1>1, <1>2, <1>3 DEF Progress, WholeFile

LEMMA ReadFailsProgress ==
    ASSUME IInv, Progress, ReadFails
    PROVE  Progress'
  <1>1. ~ WholeFile
    BY WholeFileReads DEF ReadFails, MoreItems, Progress
  <1>2. ~ WholeFile'
    BY <1>1 DEF ReadFails, WholeFile, input
  <1>3. strict' /\ caller' \in OneCall => pc' = "error"
    BY FailedStops DEF ReadFails, input
  <1>4. /\ DOMAIN got' \subseteq want'
        /\ pc' \in {"next", "error"}
    BY FailedDomain DEF ReadFails, Progress, input
  <1> QED BY <1>2, <1>3, <1>4 DEF Progress

LEMMA SeekBackProgress ==
    ASSUME IInv, Progress, SeekBack
    PROVE  Progress'
  <1>1. /\ pc = "read" /\ pc' = "next" /\ cur \in want
        /\ DOMAIN got' = DOMAIN got \cup {cur}
        /\ pending' = pending
        /\ want' = want /\ strict' = strict /\ caller' = caller /\ cut' = cut
    BY DEF SeekBack, Progress, input
  <1>2. pos' = Home
    <2>1. cur \in Codes /\ pos \in Nat /\ counter \in Nat
      BY <1>1 DEF IInv, TypeOK
    <2> QED BY <2>1, Layout DEF SeekBack, WayBack, Home
  <1>3. InHand = {cur} /\ InHand' = {}
    BY <1>1 DEF InHand
  <1> QED BY <1>1, <1>2, <1>3 DEF Progress, WholeFile

LEMMA NextProgress == IInv /\ Progress /\ [Next]_vars => Progress'
  <1> SUFFICES ASSUME IInv, Progress, [Next]_vars
               PROVE  Progress'
    OBVIOUS
  <1>1. CASE \E c \in Absent : Missing(c)
    BY <1>1, MissingProgress
  <1>2. CASE \E c \in Codes : SeekIndex(c)
    BY <1>2, SeekIndexProgress
  <1>3. CASE \E i \in Items : ReadItem(i)
    BY <1>3, ReadItemProgress
  <1>4. CASE ReadFails
    BY <1>4, ReadFailsProgress
  <1>5. CASE SeekBack
    BY <1>5, SeekBackProgress
  <1>6. CASE Finish
    BY <1>6 DEF Finish, Progress, InHand, WholeFile, input
  <1>7. CASE UNCHANGED vars
    BY <1>7 DEF vars, input, Progress, InHand, WholeFile, Home, Index
  <1> QED BY <1>1, <1>2, <1>3, <1>4, <1>5, <1>6, <1>7 DEF Next

(* A strict command that ends without an error has every code it wanted,   *)
(* and on a whole file any command has every one that exists: no read of   *)
(* extractSingGeoSite loses one, or brings another. *)
THEOREM LosesNothing == Spec => []NothingLost
  <1>1. IInv /\ Progress => NothingLost
    <2> SUFFICES ASSUME IInv, Progress, pc = "done"
                 PROVE  /\ strict /\ caller \in OneCall => DOMAIN got = want
                        /\ WholeFile => DOMAIN got = want \cap Codes
      BY DEF NothingLost, WholeFile
    <2>1. pending = {} /\ InHand = {} /\ DOMAIN got \subseteq Codes /\ DOMAIN got \subseteq want
      BY DEF IInv, TypeOK, Progress, InHand
    <2> QED BY <2>1 DEF Progress
  <1> QED BY <1>1, InitProgress, NextProgress, Invariance, PTL DEF Spec
=============================================================================
