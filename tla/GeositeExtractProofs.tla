------------------------ MODULE GeositeExtractProofs ------------------------
(***************************************************************************)
(* For every set of databases and of lists: what the geosite commands give *)
(* and why they fail. The invariant says what is read after some of the    *)
(* codes are visited, in whatever order.                                   *)
(***************************************************************************)
EXTENDS GeositeExtract, InductionFacts

Visited == ToRead \ pending

(* What is read of a code of the database that can be read. *)
Entry(c) == [code |-> c, domains |-> file.sites[c]]

(* Nothing that is wanted is cut. *)
Whole == file.cut \cap ListedCodes = {}

(* The commands that collect entries: they have passed over nothing they   *)
(* should fail for, an entry with domains is the one of its code in the    *)
(* database, and no code is missing but for a reason. *)
Reading ==
    cmd # "Lookup" /\ pc = "read" =>
        /\ V2ray => \A c \in Visited : c \notin file.cut /\ (strict => c \in Codes)
        /\ ~ V2ray /\ strict /\ cmd # "ToGeosite" => \A c \in Visited : c \in Codes \ file.cut
        /\ \A site \in ToSet(sites) :
             site.domains # << >> => site.code \in Visited \cap Codes /\ site = Entry(site.code)
        /\ cmd # "ToGeosite" /\ ~ Partial =>
             \A c \in Visited \cap Codes : Entry(c) \in ToSet(sites)

Written == [n \in DOMAIN sites |-> Geosite(sites[n])]

WithCode(entries, c) == Sifted(entries, {site \in ToSet(entries) : site.code = c})

(* What ToGeosite writes for a code, "" for those that do not exist. *)
ToWrite(c) ==
    IF c = "" THEN [i \in 1 .. Cardinality(Visited \ Codes) |-> Hollow]
    ELSE IF c \in Visited \cap Codes THEN <<Geosite(Entry(c))>> ELSE << >>

Writing ==
    cmd = "ToGeosite" /\ pc = "read" /\ Whole =>
        \A c \in Names : WithCode(Written, c) = ToWrite(c)

(* Lookup has named the codes that it has visited and whose domains match. *)
Named(c, names) ==
    (\A e \in ToSet(file.sites[c]) : ~ Spoils(e)) =>
        \A d \in ToSet(file.sites[c]) : Answers(d) =>
            \A attr \in d.attrs \cup {""} : [code |-> c, attr |-> attr] \in names

Looking ==
    cmd = "Lookup" /\ pc = "read" =>
        /\ \A n \in ToSet(matched) :
             /\ n.code \in Visited
             /\ \E d \in ToSet(file.sites[n.code]) :
                  Answers(d) /\ (n.attr = "" \/ n.attr \in d.attrs)
        /\ Cardinality(ToSet(matched)) = Len(matched)
        /\ \A c \in Visited :
             (IF V2ray THEN c \notin file.cut ELSE file.cut = {}) => Named(c, ToSet(matched))

IInv ==
    /\ TypeOK
    /\ Reading
    /\ Writing
    /\ Looking
    /\ ExtractExact /\ ConvertExact /\ ToGeositeExact /\ LookupExact /\ EndsRight

-----------------------------------------------------------------------------
(* Items. *)
TypeOf(sort) ==
    IF sort = "full" THEN "Domain" ELSE IF sort = "suffix" THEN "DomainSuffix" ELSE "DomainKeyword"

Sorts == {"full", "suffix", "keyword"}

LEMMA KindFacts ==
    ASSUME file \in Files
    PROVE  /\ V2ray => Domains[file.kind] = V2Domains
           /\ ~ V2ray => Domains[file.kind] = {it \in Items : it.attrs = {}}
           /\ file.kind \in {"v2ray", "sing"}
           /\ \A c \in Codes : file.sites[c] \in Seq(Domains[file.kind])
           /\ Codes \subseteq Names \ {""} /\ file.cut \subseteq Codes
           /\ ~ V2ray => \A c \in file.cut : file.sites[c] # << >>
  <1>1. file.kind \in {"v2ray", "sing"}
    BY InputsAssumption DEF Domains
  <1>2. Domains.v2ray = V2Domains /\ Domains.sing = {it \in Items : it.attrs = {}}
    BY DEF Domains
  <1>3. /\ \A c \in Codes : file.sites[c] \in Seq(Domains[file.kind])
        /\ Codes \subseteq Names \ {""} /\ file.cut \subseteq Codes
        /\ file.kind = "sing" => \A c \in file.cut : file.sites[c] # << >>
    BY InputsAssumption DEF Codes
  <1> QED BY <1>1, <1>2, <1>3 DEF V2ray

LEMMA ItemFacts ==
    ASSUME file \in Files, NEW d \in Domains[file.kind]
    PROVE  /\ ItemOf(d) \in Items
           /\ ItemOf(d).value = ValueOf(d)
           /\ ItemOf(d).attrs = d.attrs
           /\ \A sort \in Sorts : OfSort(d, sort) <=> ItemOf(d).type = TypeOf(sort)
  <1>1. CASE V2ray
    <2>1. d \in V2Domains
      BY <1>1, KindFacts
    <2>2. ItemOf(d) = v2ItemToSing(d)
      BY <1>1 DEF ItemOf
    <2>3. v2ItemToSing(d) \in Items /\ v2ItemToSing(d).value = d.value /\ v2ItemToSing(d).attrs = d.attrs
      BY <2>1 DEF v2ItemToSing, V2Domains, Items, ItemTypes
    <2>4. ValueOf(d) = d.value
      BY <2>1 DEF ValueOf, V2Domains
    <2>5. v2ItemToSing(d).type = IF d.type \in {"Full", "Unknown"} THEN "Domain"
                                 ELSE IF d.type = "Regex" THEN "DomainRegex"
                                 ELSE IF d.type = "Domain" THEN "DomainSuffix" ELSE "DomainKeyword"
      BY <2>1 DEF v2ItemToSing, V2Domains
    <2>6. \A sort \in Sorts : OfSort(d, sort) <=> v2ItemToSing(d).type = TypeOf(sort)
      BY <1>1, <2>1, <2>5 DEF OfSort, TypeOf, Sorts, V2Domains
    <2> QED BY <2>2, <2>3, <2>4, <2>6
  <1>2. CASE ~ V2ray
    <2>1. d \in Items
      BY <1>2, KindFacts
    <2>2. ItemOf(d) = RemoveDot(d)
      BY <1>2 DEF ItemOf
    <2>3. RemoveDot(d) \in Items /\ RemoveDot(d).type = d.type /\ RemoveDot(d).attrs = d.attrs
      BY <2>1, InputsAssumption DEF RemoveDot, Items
    <2>4. RemoveDot(d).value = ValueOf(d)
      BY <2>1 DEF RemoveDot, ValueOf, Items
    <2>5. \A sort \in Sorts : OfSort(d, sort) <=> d.type = TypeOf(sort)
      BY <1>2, <2>1 DEF OfSort, TypeOf, Sorts
    <2> QED BY <2>2, <2>3, <2>4, <2>5
  <1> QED BY <1>1, <1>2

ItemsOfDomains(ds) == [i \in DOMAIN ds |-> ItemOf(ds[i])]

LEMMA ItemsOfDomainsFacts ==
    ASSUME file \in Files, NEW ds \in Seq(Domains[file.kind])
    PROVE  /\ ItemsOfDomains(ds) \in Seq(Items)
           /\ Len(ItemsOfDomains(ds)) = Len(ds)
           /\ \A i \in 1 .. Len(ds) : ItemsOfDomains(ds)[i] = ItemOf(ds[i])
           /\ ToSet(ItemsOfDomains(ds)) = {ItemOf(d) : d \in ToSet(ds)}
  <1>1. \A i \in 1 .. Len(ds) : ds[i] \in Domains[file.kind]
    OBVIOUS
  <1>2. \A i \in 1 .. Len(ds) : ItemOf(ds[i]) \in Items
    BY <1>1, ItemFacts
  <1>3. DOMAIN ds = 1 .. Len(ds) /\ Len(ds) \in Nat
    OBVIOUS
  <1>4. ItemsOfDomains(ds) \in [1 .. Len(ds) -> Items]
    BY <1>2, <1>3 DEF ItemsOfDomains
  <1>5. \A i \in 1 .. Len(ds) : ItemsOfDomains(ds)[i] = ItemOf(ds[i])
    BY <1>3 DEF ItemsOfDomains
  <1>6. ItemsOfDomains(ds) \in Seq(Items) /\ Len(ItemsOfDomains(ds)) = Len(ds)
    BY <1>3, <1>4
  <1>7. ToSet(ItemsOfDomains(ds)) = {ItemOf(d) : d \in ToSet(ds)}
    BY <1>3, <1>4, <1>5 DEF ToSet
  <1> QED BY <1>5, <1>6, <1>7

(* What a site gives a command. *)
LEMMA ItemsOfFacts ==
    ASSUME file \in Files, NEW site, site.domains \in Seq(Domains[file.kind]),
           NEW r \in BOOLEAN, NEW k \in BOOLEAN
    PROVE  /\ ItemsOf(site, r, k) \in Seq(Items)
           /\ ToSet(ItemsOf(site, r, k)) =
                {it \in {ItemOf(d) : d \in ToSet(site.domains)} :
                    /\ TypeAllowed(it.type, r, k)
                    /\ V2ray => WantedAttrs(site.code) \subseteq it.attrs}
  <1> DEFINE items == ItemsOfDomains(site.domains)
             Takes(it) == /\ TypeAllowed(it.type, r, k)
                          /\ V2ray => AttrsMatch(it.attrs, WantedAttrs(site.code))
             S == {it \in ToSet(items) : Takes(it)}
  <1>1. ItemsOf(site, r, k) = Sifted(items, S)
    BY DEF ItemsOf, ItemsOfDomains
  <1>2. items \in Seq(Items) /\ ToSet(items) = {ItemOf(d) : d \in ToSet(site.domains)}
    BY ItemsOfDomainsFacts
  <1>3. Sifted(items, S) \in Seq(Items) /\ ToSet(Sifted(items, S)) = ToSet(items) \cap S
    <2> HIDE DEF items, S
    <2> QED BY <1>2, SiftedFacts
  <1>4. ToSet(items) \cap S = S
    OBVIOUS
  <1> HIDE DEF items
  <1> QED BY <1>1, <1>2, <1>3, <1>4 DEF AttrsMatch

(* All of them, if nothing is left out. *)
LEMMA TypesAllowed ==
    ASSUME NEW sort \in Sorts, NEW r \in BOOLEAN, NEW k \in BOOLEAN, sort = "keyword" => k
    PROVE  TypeAllowed(TypeOf(sort), r, k)
  BY DEF Sorts, TypeOf, TypeAllowed

LEMMA ListFacts ==
    ASSUME list \in Lists
    PROVE  /\ list \in Seq([code : Names, attrs : SUBSET Attrs])
           /\ ListedCodes \subseteq Names
           /\ \A c : c \in ListedCodes <=> \E i \in 1 .. Len(list) : list[i].code = c
  <1>1. list \in Seq([code : Names, attrs : SUBSET Attrs])
    BY InputsAssumption
  <1>2. \A i \in 1 .. Len(list) : list[i] \in [code : Names, attrs : SUBSET Attrs]
    BY <1>1, MemberFacts
  <1>3. \A i \in 1 .. Len(list) : list[i].code \in Names
    BY <1>2
  <1>4. DOMAIN list = 1 .. Len(list)
    BY <1>1, MemberFacts
  <1> QED BY <1>1, <1>3, <1>4 DEF ListedCodes

(* The last mention of a code is the one that counts. *)
LEMMA LastListedFacts ==
    ASSUME list \in Lists, NEW c \in ListedCodes
    PROVE  /\ LastListed(c) \in 1 .. Len(list)
           /\ list[LastListed(c)].code = c
           /\ \A j \in 1 .. Len(list) : list[j].code = c => j <= LastListed(c)
  <1> DEFINE N == Len(list)
             T == {i \in 1 .. N : list[i].code = c}
  <1>1. N \in Nat /\ DOMAIN list = 1 .. N
    BY ListFacts
  <1>2. T \in SUBSET (0 .. N) /\ T # {}
    BY <1>1, ListFacts
  <1>3. \E i \in T : \A j \in T : j <= i
    <2> HIDE DEF N, T
    <2> QED BY <1>1, <1>2, GreatestNumber
  <1>4. \E i \in DOMAIN list :
          list[i].code = c /\ \A j \in DOMAIN list : list[j].code = c => j <= i
    BY <1>1, <1>3
  <1>5. LET i == LastListed(c)
        IN  i \in DOMAIN list /\ list[i].code = c
            /\ \A j \in DOMAIN list : list[j].code = c => j <= i
    BY <1>4 DEF LastListed
  <1> QED BY <1>1, <1>5

LEMMA AskedFacts ==
    ASSUME list \in Lists, NEW c \in ListedCodes, NEW d
    PROVE  Asked(c, d) <=> (V2ray => WantedAttrs(c) \subseteq d.attrs)
  <1> DEFINE n == LastListed(c)
  <1>1. Len(list) \in Nat /\ DOMAIN list = 1 .. Len(list)
    BY ListFacts
  <1>2. n \in 1 .. Len(list) /\ list[n].code = c
        /\ \A j \in 1 .. Len(list) : list[j].code = c => j <= n
    BY LastListedFacts
  <1> HIDE DEF n
  <1>3. \A i \in 1 .. Len(list) :
          (list[i].code = c /\ \A j \in 1 .. Len(list) : j > i => list[j].code # c) <=> i = n
    <2> SUFFICES ASSUME NEW i \in 1 .. Len(list)
                 PROVE  (list[i].code = c /\ \A j \in 1 .. Len(list) : j > i => list[j].code # c)
                          <=> i = n
      OBVIOUS
    <2>1. CASE i = n
      BY <1>1, <1>2, <2>1
    <2>2. CASE i # n
      BY <1>1, <1>2, <2>2
    <2> QED BY <2>1, <2>2
  <1>4. WantedAttrs(c) = list[n].attrs
    BY DEF WantedAttrs, n
  <1>5. Asked(c, d) <=> (V2ray => list[n].attrs \subseteq d.attrs)
    <2>1. Asked(c, d) <=>
            \E i \in 1 .. Len(list) :
                /\ list[i].code = c /\ \A j \in 1 .. Len(list) : j > i => list[j].code # c
                /\ V2ray => list[i].attrs \subseteq d.attrs
      BY <1>1 DEF Asked
    <2>2. Asked(c, d) <=>
            \E i \in 1 .. Len(list) : i = n /\ (V2ray => list[i].attrs \subseteq d.attrs)
      BY <1>3, <2>1
    <2> QED BY <1>2, <2>2
  <1> QED BY <1>4, <1>5

-----------------------------------------------------------------------------
(* What a command extracts of all that was read. *)
Sites == [code : ListedCodes \cup {""}, domains : Seq(Domains[file.kind])]

LEMMA SitesFacts ==
    ASSUME TypeOK, NEW site \in ToSet(sites)
    PROVE  /\ site.domains \in Seq(Domains[file.kind])
           /\ site.code \in ListedCodes \cup {""}
  <1>1. sites \in Seq(Sites)
    BY DEF TypeOK, Sites
  <1>2. site \in Sites
    BY <1>1, MemberFacts
  <1> QED BY <1>2 DEF Sites

LEMMA InputTypes ==
    ASSUME TypeOK
    PROVE  /\ file \in Files /\ cmd \in Commands /\ list \in Lists
           /\ regex \in BOOLEAN /\ strict \in BOOLEAN
  BY DEF TypeOK, input

LEMMA ExtractedFacts ==
    ASSUME TypeOK, NEW r \in BOOLEAN, NEW k \in BOOLEAN
    PROVE  /\ Extracted(r, k) \in Seq(Items)
           /\ \A it : it \in ToSet(Extracted(r, k)) <=>
                \E site \in ToSet(sites) : it \in ToSet(ItemsOf(site, r, k))
  <1> DEFINE seqs == [n \in DOMAIN sites |-> ItemsOf(sites[n], r, k)]
  <1>1. Extracted(r, k) = Flat(seqs)
    BY DEF Extracted
  <1>2. Len(sites) \in Nat /\ DOMAIN sites = 1 .. Len(sites)
    <2>1. sites \in Seq(Sites)
      BY DEF TypeOK, Sites
    <2> QED BY <2>1, MemberFacts
  <1>3. \A n \in 1 .. Len(sites) : sites[n] \in ToSet(sites)
    BY <1>2 DEF ToSet
  <1>4. \A n \in 1 .. Len(sites) : ItemsOf(sites[n], r, k) \in Seq(Items)
    BY <1>3, SitesFacts, ItemsOfFacts, InputTypes
  <1>5. seqs \in [1 .. Len(sites) -> Seq(Items)]
    BY <1>2, <1>4
  <1>6. seqs \in Seq(Seq(Items)) /\ DOMAIN seqs = 1 .. Len(sites)
        /\ \A n \in 1 .. Len(sites) : seqs[n] = ItemsOf(sites[n], r, k)
    <2> HIDE DEF seqs
    <2>1. seqs \in Seq(Seq(Items)) /\ DOMAIN seqs = 1 .. Len(sites)
      BY <1>2, <1>5
    <2>2. \A n \in 1 .. Len(sites) : seqs[n] = ItemsOf(sites[n], r, k)
      BY <1>2 DEF seqs
    <2> QED BY <2>1, <2>2
  <1> HIDE DEF seqs
  <1>7. Flat(seqs) \in Seq(Items) /\ ToSet(Flat(seqs)) = UNION {ToSet(seqs[n]) : n \in DOMAIN seqs}
    BY <1>6, FlatFacts
  <1>8. ASSUME NEW it
        PROVE  it \in UNION {ToSet(seqs[n]) : n \in DOMAIN seqs} <=>
                 \E site \in ToSet(sites) : it \in ToSet(ItemsOf(site, r, k))
    <2>1. \A site : site \in ToSet(sites) <=> \E n \in 1 .. Len(sites) : site = sites[n]
      BY <1>2 DEF ToSet
    <2>2. it \in UNION {ToSet(seqs[n]) : n \in DOMAIN seqs} <=>
            \E n \in 1 .. Len(sites) : it \in ToSet(ItemsOf(sites[n], r, k))
      BY <1>6
    <2> QED BY <2>1, <2>2
  <1> QED BY <1>1, <1>7, <1>8

(* The values of the rules of a sort. *)
ValuesOf(items, sort) == {it.value : it \in {i \in items : i.type = TypeOf(sort)}}

LEMMA GivesOnlyAsked ==
    ASSUME TypeOK, Reading, pc = "read", cmd # "Lookup", NEW sort \in Sorts,
           NEW r \in BOOLEAN, NEW k \in BOOLEAN
    PROVE  ValuesOf(ToSet(Extracted(r, k)), sort) \subseteq AskedFor(sort)
  <1> SUFFICES ASSUME NEW it \in ToSet(Extracted(r, k)), it.type = TypeOf(sort)
               PROVE  it.value \in AskedFor(sort)
    BY DEF ValuesOf
  <1>1. PICK site \in ToSet(sites) : it \in ToSet(ItemsOf(site, r, k))
    BY ExtractedFacts
  <1>2. file \in Files /\ list \in Lists /\ site.domains \in Seq(Domains[file.kind])
    BY SitesFacts, InputTypes
  <1>3. PICK d \in ToSet(site.domains) :
          it = ItemOf(d) /\ (V2ray => WantedAttrs(site.code) \subseteq it.attrs)
    BY <1>1, <1>2, ItemsOfFacts
  <1>4. d \in Domains[file.kind] /\ site.domains # << >>
    <2>1. ToSet(site.domains) \subseteq Domains[file.kind] /\ (site.domains = << >> <=> ToSet(site.domains) = {})
      BY <1>2, ToSetFacts
    <2> QED BY <2>1
  <1>5. PICK c \in Visited \cap Codes : c = site.code /\ site = Entry(c)
    BY <1>1, <1>4 DEF Reading
  <1>6. c \in ListedCodes \cap Codes
    BY <1>5 DEF Visited, ToRead
  <1>7. /\ ItemOf(d).value = ValueOf(d) /\ ItemOf(d).attrs = d.attrs
        /\ OfSort(d, sort)
    BY <1>2, <1>3, <1>4, ItemFacts
  <1>8. Asked(c, d)
    BY <1>2, <1>3, <1>5, <1>6, <1>7, AskedFacts
  <1>9. d \in ToSet(file.sites[c])
    BY <1>3, <1>5 DEF Entry
  <1> QED BY <1>3, <1>6, <1>7, <1>8, <1>9 DEF AskedFor

LEMMA GivesAllAsked ==
    ASSUME TypeOK, Reading, pc = "read", cmd \notin {"Lookup", "ToGeosite"}, pending = {},
           ~ Partial, NEW sort \in Sorts, NEW r \in BOOLEAN, NEW k \in BOOLEAN, sort = "keyword" => k
    PROVE  AskedFor(sort) \subseteq ValuesOf(ToSet(Extracted(r, k)), sort)
  <1> SUFFICES ASSUME NEW c \in ListedCodes \cap Codes, NEW d \in ToSet(file.sites[c]),
                      OfSort(d, sort), Asked(c, d)
               PROVE  ValueOf(d) \in ValuesOf(ToSet(Extracted(r, k)), sort)
    BY DEF AskedFor
  <1>1. c \in Visited \cap Codes
    BY DEF Visited, ToRead
  <1>2. Entry(c) \in ToSet(sites)
    BY <1>1 DEF Reading
  <1>3. file \in Files /\ list \in Lists /\ Entry(c).domains \in Seq(Domains[file.kind])
    BY <1>2, SitesFacts, InputTypes
  <1>4. Entry(c).domains = file.sites[c] /\ Entry(c).code = c
    BY DEF Entry
  <1>5. d \in Domains[file.kind]
    BY <1>3, <1>4, ToSetFacts
  <1>6. /\ ItemOf(d).value = ValueOf(d) /\ ItemOf(d).attrs = d.attrs
        /\ ItemOf(d).type = TypeOf(sort)
    BY <1>3, <1>5, ItemFacts
  <1>7. V2ray => WantedAttrs(c) \subseteq ItemOf(d).attrs
    BY <1>3, <1>6, AskedFacts
  <1>8. TypeAllowed(ItemOf(d).type, r, k)
    BY <1>6, TypesAllowed
  <1>9. ItemOf(d) \in ToSet(ItemsOf(Entry(c), r, k))
    BY <1>3, <1>4, <1>7, <1>8, ItemsOfFacts
  <1>10. ItemOf(d) \in ToSet(Extracted(r, k))
    BY <1>2, <1>9, ExtractedFacts
  <1> QED BY <1>6, <1>10 DEF ValuesOf

-----------------------------------------------------------------------------
(* What is defined by the input alone does not change. *)
LEMMA SameInput ==
    ASSUME input' = input
    PROVE  /\ UNCHANGED <<file, cmd, list, regex, strict>>
           /\ Codes' = Codes /\ ListedCodes' = ListedCodes /\ ToRead' = ToRead
           /\ (V2ray' <=> V2ray) /\ (Partial' <=> Partial) /\ (Whole' <=> Whole)
           /\ \A c : WantedAttrs(c)' = WantedAttrs(c) /\ Entry(c)' = Entry(c)
           /\ \A sort : AskedFor(sort)' = AskedFor(sort)
           /\ \A site : Geosite(site)' = Geosite(site)
           /\ \A d : (Answers(d)' <=> Answers(d)) /\ (Spoils(d)' <=> Spoils(d))
           /\ \A c, names : Named(c, names)' <=> Named(c, names)
  <1>1. UNCHANGED <<file, cmd, list, regex, strict>>
    BY DEF input
  <1>2. Codes' = Codes /\ ListedCodes' = ListedCodes /\ (V2ray' <=> V2ray)
    BY <1>1 DEF Codes, ListedCodes, V2ray
  <1>3. ToRead' = ToRead /\ (Partial' <=> Partial) /\ (Whole' <=> Whole)
    BY <1>1, <1>2 DEF ToRead, Partial, Whole
  <1>4. \A c : WantedAttrs(c)' = WantedAttrs(c) /\ Entry(c)' = Entry(c)
    BY <1>1 DEF WantedAttrs, LastListed, Entry
  <1>5. \A d : ItemOf(d)' = ItemOf(d)
    BY <1>2 DEF ItemOf
  <1>6. \A c, d : Asked(c, d)' <=> Asked(c, d)
    BY <1>1, <1>2 DEF Asked
  <1>7. \A d, sort : OfSort(d, sort)' <=> OfSort(d, sort)
    BY <1>1, <1>2 DEF OfSort
  <1>8. \A sort : AskedFor(sort)' = AskedFor(sort)
    BY <1>1, <1>2, <1>6, <1>7 DEF AskedFor
  <1>9. \A site : ItemsOf(site, TRUE, TRUE)' = ItemsOf(site, TRUE, TRUE)
    BY <1>2, <1>4, <1>5 DEF ItemsOf
  <1>10. \A site : Geosite(site)' = Geosite(site)
    <2> DEFINE V2Items(items) == [i \in DOMAIN items |-> singItemToV2(items[i])]
    <2>1. \A site : Geosite(site) =
            IF V2ray THEN site
            ELSE [site EXCEPT !.domains = V2Items(ItemsOf(site, TRUE, TRUE))]
      BY DEF Geosite
    <2>2. \A site : Geosite(site)' =
            IF V2ray' THEN site
            ELSE [site EXCEPT !.domains = V2Items(ItemsOf(site, TRUE, TRUE)')]
      BY DEF Geosite
    <2> HIDE DEF V2Items
    <2> QED BY <1>2, <1>9, <2>1, <2>2
  <1>11. \A d : (Answers(d)' <=> Answers(d)) /\ (Spoils(d)' <=> Spoils(d))
    BY <1>10 DEF Answers, Spoils
  <1>12. \A c, names : Named(c, names)' <=> Named(c, names)
    BY <1>1, <1>11 DEF Named
  <1> QED BY <1>1, <1>2, <1>3, <1>4, <1>8, <1>10, <1>11, <1>12

-----------------------------------------------------------------------------
(* A domain as it is written to a v2ray database, or looked up. *)
V2Domain(d) == IF V2ray THEN d ELSE singItemToV2(ItemOf(d))

LEMMA V2DomainFacts ==
    ASSUME file \in Files, NEW d \in Domains[file.kind]
    PROVE  /\ V2Domain(d) \in V2Domains
           /\ V2ray => V2Domain(d) = d
           /\ ~ V2ray => /\ V2Domain(d).value = ValueOf(d) /\ V2Domain(d).attrs = {}
                         /\ v2ItemToSing(V2Domain(d)).type = d.type
                         /\ d.attrs = {}
  <1>1. CASE V2ray
    BY <1>1, KindFacts DEF V2Domain
  <1>2. CASE ~ V2ray
    <2>1. d \in Items /\ d.attrs = {}
      BY <1>2, KindFacts
    <2>2. ItemOf(d) \in Items /\ ItemOf(d).type = d.type /\ ItemOf(d).value = ValueOf(d)
      <3>1. ItemOf(d).type = d.type
        BY <1>2, <2>1 DEF ItemOf, RemoveDot, Items
      <3> QED BY <3>1, ItemFacts
    <2>3. V2Domain(d) = singItemToV2(ItemOf(d))
      BY <1>2 DEF V2Domain
    <2>4. /\ singItemToV2(ItemOf(d)) \in V2Domains
          /\ singItemToV2(ItemOf(d)).value = ItemOf(d).value
          /\ singItemToV2(ItemOf(d)).attrs = {}
      BY <2>2 DEF singItemToV2, Items, ItemTypes, V2Domains
    <2>5. v2ItemToSing(singItemToV2(ItemOf(d))).type = ItemOf(d).type
      BY <2>2 DEF singItemToV2, v2ItemToSing, Items, ItemTypes
    <2> QED BY <1>2, <2>1, <2>2, <2>3, <2>4, <2>5
  <1> QED BY <1>1, <1>2

V2DomainsOf(ds) == [i \in 1 .. Len(ds) |-> V2Domain(ds[i])]

LEMMA GeositeFacts ==
    ASSUME file \in Files, NEW c, NEW ds \in Seq(Domains[file.kind]), NEW site,
           site = [code |-> c, domains |-> ds]
    PROVE  Geosite(site) = [code |-> c, domains |-> V2DomainsOf(ds)]
  <1> DEFINE vs == [i \in 1 .. Len(ds) |-> V2Domain(ds[i])]
  <1>1. DOMAIN ds = 1 .. Len(ds) /\ \A i \in 1 .. Len(ds) : ds[i] \in Domains[file.kind]
    OBVIOUS
  <1>2. CASE V2ray
    <2>1. Geosite(site) = site
      BY <1>2 DEF Geosite
    <2>2. \A i \in 1 .. Len(ds) : V2Domain(ds[i]) = ds[i]
      BY <1>2 DEF V2Domain
    <2>3. vs = ds
      <3>1. vs = [i \in 1 .. Len(ds) |-> ds[i]]
        BY <2>2
      <3>2. ds = [i \in 1 .. Len(ds) |-> ds[i]]
        OBVIOUS
      <3> QED BY <3>1, <3>2
    <2> QED BY <2>1, <2>3 DEF V2DomainsOf
  <1>3. CASE ~ V2ray
    <2> DEFINE items == ItemsOfDomains(ds)
               S == {it \in ToSet(items) :
                       /\ TypeAllowed(it.type, TRUE, TRUE)
                       /\ V2ray => AttrsMatch(it.attrs, WantedAttrs(site.code))}
    <2>1. ItemsOf(site, TRUE, TRUE) = Sifted(items, S)
      BY DEF ItemsOf, ItemsOfDomains
    <2>2. items \in Seq(Items) /\ Len(items) = Len(ds)
          /\ \A i \in 1 .. Len(ds) : items[i] = ItemOf(ds[i])
      BY ItemsOfDomainsFacts
    <2>3. ToSet(items) \subseteq S
      BY <1>3 DEF TypeAllowed
    <2>4. Sifted(items, S) = items
      <3> HIDE DEF items, S
      <3> QED BY <2>2, <2>3, SiftedAll
    <2>5. Geosite(site) =
            [code |-> c, domains |-> [i \in DOMAIN items |-> singItemToV2(items[i])]]
      BY <1>3, <2>1, <2>4 DEF Geosite
    <2>6. DOMAIN items = 1 .. Len(ds)
      BY <2>2
    <2>7. \A i \in 1 .. Len(ds) : V2Domain(ds[i]) = singItemToV2(items[i])
      BY <1>3, <2>2 DEF V2Domain
    <2> HIDE DEF items
    <2>8. [i \in DOMAIN items |-> singItemToV2(items[i])] = vs
      BY <2>6, <2>7
    <2> QED BY <2>5, <2>8 DEF V2DomainsOf
  <1> QED BY <1>2, <1>3

LEMMA V2DomainsOfFacts ==
    ASSUME file \in Files, NEW ds \in Seq(Domains[file.kind])
    PROVE  /\ V2DomainsOf(ds) \in Seq(V2Domains)
           /\ ToSet(V2DomainsOf(ds)) = {V2Domain(d) : d \in ToSet(ds)}
  <1>1. Len(ds) \in Nat /\ DOMAIN ds = 1 .. Len(ds)
        /\ \A i \in 1 .. Len(ds) : ds[i] \in Domains[file.kind]
    OBVIOUS
  <1>2. \A i \in 1 .. Len(ds) : V2Domain(ds[i]) \in V2Domains
    BY <1>1, V2DomainFacts
  <1>3. V2DomainsOf(ds) \in [1 .. Len(ds) -> V2Domains]
    BY <1>2 DEF V2DomainsOf
  <1>4. DOMAIN V2DomainsOf(ds) = 1 .. Len(ds)
        /\ \A i \in 1 .. Len(ds) : V2DomainsOf(ds)[i] = V2Domain(ds[i])
    BY DEF V2DomainsOf
  <1>5. V2DomainsOf(ds) \in Seq(V2Domains)
    BY <1>1, <1>3
  <1>6. ToSet(V2DomainsOf(ds)) = {V2Domain(d) : d \in ToSet(ds)}
    BY <1>1, <1>4 DEF ToSet
  <1> QED BY <1>5, <1>6

LEMMA SiteFields ==
    ASSUME NEW site, NEW c, NEW ds, site = [code |-> c, domains |-> ds]
    PROVE  /\ site.code = c /\ site.domains = ds
           /\ \A C, D : c \in C /\ ds \in D => site \in [code : C, domains : D]
  OBVIOUS

LEMMA AnswersFacts ==
    ASSUME file \in Files, NEW d \in Domains[file.kind]
    PROVE  /\ Answers(d) <=> IsHit(V2Domain(d))
           /\ Spoils(d) <=> MakesNoMatcher(V2Domain(d))
  <1> DEFINE V == Domains[file.kind]
             ds == <<d>>
             site == [code |-> "", domains |-> ds]
  <1>1. d \in V
    OBVIOUS
  <1>2. ds \in Seq(V) /\ Len(ds) = 1 /\ ds[1] = d
    <2> HIDE DEF V
    <2> QED BY <1>1, NoneAndOne
  <1>3. site = [code |-> "", domains |-> ds]
    OBVIOUS
  <1> HIDE DEF ds, site
  <1>4. Geosite(site) = [code |-> "", domains |-> V2DomainsOf(ds)]
    BY <1>2, <1>3, GeositeFacts
  <1>5. V2DomainsOf(ds)[1] = V2Domain(d)
    BY <1>2 DEF V2DomainsOf
  <1>6. Geosite(site).domains = V2DomainsOf(ds)
    BY <1>4, SiteFields
  <1>7. Geosite(site).domains[1] = V2Domain(d)
    BY <1>5, <1>6
  <1> QED BY <1>7 DEF Answers, Spoils, site, ds

-----------------------------------------------------------------------------
(* The last batch holds the last domain. *)
LEMMA BatchFacts ==
    ASSUME NEW n \in Nat
    PROVE  /\ Batches(n) \in Nat /\ Batches(n) * Batch \in Nat
           /\ n <= Batches(n) * Batch
           /\ n > 0 => Batches(n) > 0
  <1> DEFINE m == n + Batch - 1
             q == m \div Batch
             r == m % Batch
  <1>1. Batch \in Nat /\ Batch > 0 /\ m \in Nat
    <2>1. Batch \in Nat \ {0}
      BY InputsAssumption
    <2> QED BY <2>1
  <1>2. q \in Nat /\ r \in 0 .. Batch - 1 /\ m = (Batch * q) + r
    <2> HIDE DEF m
    <2> QED BY <1>1
  <1>3. Batches(n) = q
    BY DEF Batches
  <1> HIDE DEF q, r
  <1>4. n <= Batch * q /\ Batch * q = q * Batch /\ q * Batch \in Nat
    BY <1>1, <1>2
  <1>5. n > 0 => q > 0
    BY <1>1, <1>2, <1>4
  <1> QED BY <1>2, <1>3, <1>4, <1>5

LEMMA MatchesSiteFacts ==
    ASSUME NEW ds \in Seq(V2Domains)
    PROVE  /\ MatchesSite(ds) => \E d \in ToSet(ds) : IsHit(d)
           /\ (\A e \in ToSet(ds) : ~ MakesNoMatcher(e)) =>
                \A d \in ToSet(ds) : IsHit(d) => MatchesSite(ds)
  <1> DEFINE InBatches(k) == {ds[i] : i \in {j \in DOMAIN ds : j <= k * Batch}}
             n == Len(ds)
  <1>1. n \in Nat /\ DOMAIN ds = 1 .. n
    OBVIOUS
  <1>2. MatchesSite(ds) <=> \E k \in 1 .. Batches(n) :
            /\ \A d \in InBatches(k) : ~ MakesNoMatcher(d)
            /\ \E d \in InBatches(k) : IsHit(d)
    BY DEF MatchesSite
  <1>3. \A k : InBatches(k) \subseteq ToSet(ds)
    BY DEF ToSet
  <1>4. InBatches(Batches(n)) = ToSet(ds)
    <2>1. {j \in DOMAIN ds : j <= Batches(n) * Batch} = DOMAIN ds
      <3> SUFFICES ASSUME NEW b, b = Batches(n) * Batch
                   PROVE  {j \in DOMAIN ds : j <= b} = DOMAIN ds
        OBVIOUS
      <3>1. b \in Nat /\ n <= b
        BY <1>1, BatchFacts
      <3> HIDE DEF n
      <3> QED BY <1>1, <3>1
    <2> QED BY <2>1 DEF ToSet
  <1>5. ToSet(ds) # {} => Batches(n) \in 1 .. Batches(n)
    <2>1. ToSet(ds) # {} => n > 0
      BY <1>1 DEF ToSet
    <2> HIDE DEF n
    <2>2. Batches(n) \in Nat /\ (n > 0 => Batches(n) > 0)
      BY <1>1, BatchFacts
    <2> HIDE DEF InBatches
    <2> QED BY <2>1, <2>2
  <1> HIDE DEF InBatches, n
  <1>6. MatchesSite(ds) => \E d \in ToSet(ds) : IsHit(d)
    BY <1>2, <1>3
  <1>7. (\A e \in ToSet(ds) : ~ MakesNoMatcher(e)) =>
          \A d \in ToSet(ds) : IsHit(d) => MatchesSite(ds)
    BY <1>2, <1>4, <1>5
  <1> QED BY <1>6, <1>7

(* Of the domains with an attribute as of all. *)
LEMMA GroupFacts ==
    ASSUME NEW ds \in Seq(V2Domains), NEW attr
    PROVE  /\ Group(ds, attr) \in Seq(V2Domains)
           /\ ToSet(Group(ds, attr)) = {d \in ToSet(ds) : attr \in d.attrs}
  <1> DEFINE S == {d \in ToSet(ds) : attr \in d.attrs}
  <1>1. Sifted(ds, S) \in Seq(V2Domains) /\ ToSet(Sifted(ds, S)) = ToSet(ds) \cap S
    <2> HIDE DEF S
    <2> QED BY SiftedFacts
  <1> QED BY <1>1 DEF Group

(* The names of a code, none twice. *)
LEMMA MatchedNamesFacts ==
    ASSUME NEW c, NEW ds \in Seq(V2Domains)
    PROVE  /\ MatchedNames(c, ds) \subseteq [code : {c}, attr : Attrs \cup {""}]
           /\ \A n \in MatchedNames(c, ds) :
                \E d \in ToSet(ds) : IsHit(d) /\ (n.attr = "" \/ n.attr \in d.attrs)
           /\ (\A e \in ToSet(ds) : ~ MakesNoMatcher(e)) =>
                \A d \in ToSet(ds) : IsHit(d) =>
                    \A attr \in d.attrs \cup {""} :
                        [code |-> c, attr |-> attr] \in MatchedNames(c, ds)
  <1> DEFINE Name(attr) == [code |-> c, attr |-> attr]
  <1>1. ToSet(ds) \subseteq V2Domains
    BY MemberFacts
  <1>2. \A d \in ToSet(ds) : d.attrs \subseteq Attrs
    BY <1>1 DEF V2Domains
  <1>3. MatchedAttrs(ds) \subseteq AttrsOf(ds) /\ AttrsOf(ds) \subseteq Attrs
    BY <1>2 DEF MatchedAttrs, AttrsOf
  <1>4. \A n : n \in MatchedNames(c, ds) <=>
          MatchesSite(ds) /\ \E attr \in MatchedAttrs(ds) \cup {""} : n = Name(attr)
    BY DEF MatchedNames
  <1>5. \A attr : Name(attr).attr = attr /\ Name(attr).code = c
    OBVIOUS
  <1>6. MatchedNames(c, ds) \subseteq [code : {c}, attr : Attrs \cup {""}]
    <2> DEFINE S == [code : {c}, attr : Attrs \cup {""}]
    <2>1. \A attr \in MatchedAttrs(ds) \cup {""} : Name(attr) \in S
      BY <1>3
    <2> HIDE DEF Name, S
    <2>2. \A n \in MatchedNames(c, ds) : n \in S
      BY <1>4, <2>1
    <2> QED BY <2>2 DEF S
  <1>7. ASSUME NEW n \in MatchedNames(c, ds)
        PROVE  \E d \in ToSet(ds) : IsHit(d) /\ (n.attr = "" \/ n.attr \in d.attrs)
    <2>1. PICK attr \in MatchedAttrs(ds) \cup {""} : n = Name(attr)
      BY <1>4
    <2>2. n.attr = attr
      BY <1>5, <2>1
    <2>3. CASE attr = ""
      BY <1>4, <2>2, <2>3, MatchesSiteFacts
    <2>4. CASE attr \in MatchedAttrs(ds)
      <3>1. MatchesSite(Group(ds, attr))
        BY <2>4 DEF MatchedAttrs
      <3>2. \E d \in ToSet(Group(ds, attr)) : IsHit(d)
        BY <3>1, GroupFacts, MatchesSiteFacts
      <3> QED BY <2>2, <3>2, GroupFacts
    <2> QED BY <2>1, <2>3, <2>4
  <1>8. ASSUME \A e \in ToSet(ds) : ~ MakesNoMatcher(e),
               NEW d \in ToSet(ds), IsHit(d), NEW attr \in d.attrs \cup {""}
        PROVE  Name(attr) \in MatchedNames(c, ds)
    <2>1. MatchesSite(ds)
      BY <1>8, MatchesSiteFacts
    <2>2. attr \in d.attrs => attr \in MatchedAttrs(ds)
      <3> SUFFICES ASSUME attr \in d.attrs PROVE attr \in MatchedAttrs(ds)
        OBVIOUS
      <3>1. d \in ToSet(Group(ds, attr)) /\ \A e \in ToSet(Group(ds, attr)) : ~ MakesNoMatcher(e)
        BY <1>8, GroupFacts
      <3>2. MatchesSite(Group(ds, attr))
        BY <1>8, <3>1, GroupFacts, MatchesSiteFacts
      <3> QED BY <3>2 DEF MatchedAttrs, AttrsOf
    <2> QED BY <1>4, <2>1, <2>2
  <1> QED BY <1>6, <1>7, <1>8

-----------------------------------------------------------------------------
(* What every read of a code does to the invariant. *)
LEMMA NotDone ==
    ASSUME pc' # "done"
    PROVE  /\ ExtractExact' /\ ConvertExact' /\ ToGeositeExact' /\ LookupExact'
           /\ pc' # "error" => EndsRight'
  BY DEF ExtractExact, ConvertExact, ToGeositeExact, LookupExact, EndsRight

InputOK == input \in Files \X Commands \X Lists \X BOOLEAN \X BOOLEAN

LEMMA VisitFrame ==
    ASSUME TypeOK, NEW c, Reads(c), UNCHANGED input, (broken' = broken) \/ Breaks(c)
    PROVE  /\ InputOK' /\ c \in ToRead /\ pc = "read"
           /\ pending' \subseteq ToRead' /\ broken' \in BOOLEAN
           /\ broken' => file'.cut \cap ToRead' # {}
           /\ Visited' = Visited \cup {c} /\ c \notin Visited
           /\ file.cut \cap ToRead = {} => ~ broken /\ (c \in Codes => Readable(c))
  <1>1. /\ pc = "read" /\ c \in pending /\ pending' = pending \ {c}
        /\ pending \subseteq ToRead
    BY DEF Reads, TypeOK
  <1>2. ToRead' = ToRead /\ file' = file
    BY SameInput
  <1>3. InputOK'
    BY DEF TypeOK, InputOK
  <1>4. broken \in BOOLEAN /\ (broken => file.cut \cap ToRead # {})
    BY DEF TypeOK
  <1>5. ~ Readable(c) /\ c \in Codes => broken \/ c \in file.cut
    BY DEF Readable
  <1>6. broken' \in BOOLEAN /\ (broken' => file.cut \cap ToRead # {})
    <2>1. CASE broken' = broken
      BY <1>4, <2>1
    <2>2. CASE Breaks(c)
      <3> DEFINE failed == c \in Codes /\ ~ Readable(c)
      <3>1. broken' = (broken \/ failed)
        BY <2>2 DEF Breaks
      <3>2. failed => broken \/ c \in file.cut \cap ToRead
        BY <1>1, <1>5
      <3>3. failed \in BOOLEAN
        OBVIOUS
      <3> HIDE DEF failed
      <3> QED BY <1>4, <3>1, <3>2, <3>3
    <2> QED BY <2>1, <2>2
  <1>7. Visited' = Visited \cup {c} /\ c \notin Visited
    BY <1>1, <1>2 DEF Visited
  <1> QED BY <1>1, <1>2, <1>3, <1>4, <1>5, <1>6, <1>7

-----------------------------------------------------------------------------
(* Lookup. *)
LookupNames == [code : Codes, attr : Attrs \cup {""}]

LEMMA MatchedNamesFinite ==
    ASSUME NEW c, NEW ds \in Seq(V2Domains)
    PROVE  IsFiniteSet(MatchedNames(c, ds))
  <1> DEFINE M == MatchedNames(c, ds)
             f == [n \in M |-> n.attr]
  <1>1. M \subseteq [code : {c}, attr : Attrs \cup {""}]
    BY MatchedNamesFacts
  <1> HIDE DEF M
  <1>2. \A m, n \in M : m.attr = n.attr => m = n
    <2> SUFFICES ASSUME NEW m \in M, NEW n \in M, m.attr = n.attr PROVE m = n
      OBVIOUS
    <2> DEFINE A == Attrs \cup {""}
    <2>1. m \in [code : {c}, attr : A] /\ n \in [code : {c}, attr : A]
      BY <1>1
    <2> HIDE DEF A
    <2> QED BY <2>1
  <1>3. f \in Injection(M, Attrs \cup {""})
    BY <1>1, <1>2 DEF Injection, IsInjective
  <1>4. IsFiniteSet(Attrs \cup {""})
    BY InputsAssumption, FS_AddElement
  <1> HIDE DEF f
  <1>5. IsFiniteSet(M)
    BY <1>3, <1>4, FS_Injection
  <1> QED BY <1>5 DEF M

(* The names of a code that can be read answer for it. *)
LEMMA NamesFacts ==
    ASSUME file \in Files, NEW c \in Codes,
           NEW names \in SetToSeqs(MatchedNames(c, Geosite(Entry(c)).domains))
    PROVE  /\ names \in Seq(LookupNames)
           /\ Cardinality(ToSet(names)) = Len(names)
           /\ \A n \in ToSet(names) :
                /\ n.code = c
                /\ \E d \in ToSet(file.sites[c]) : Answers(d) /\ (n.attr = "" \/ n.attr \in d.attrs)
           /\ Named(c, ToSet(names))
  <1> DEFINE ds == file.sites[c]
             vs == V2DomainsOf(ds)
             M == MatchedNames(c, vs)
  <1>1. ds \in Seq(Domains[file.kind])
    BY KindFacts
  <1>2. Geosite(Entry(c)).domains = vs
    <2>1. Geosite(Entry(c)) = [code |-> c, domains |-> vs]
      BY <1>1, GeositeFacts DEF Entry
    <2> HIDE DEF vs
    <2> QED BY <2>1, SiteFields
  <1>3. vs \in Seq(V2Domains) /\ ToSet(vs) = {V2Domain(d) : d \in ToSet(ds)}
    BY <1>1, V2DomainsOfFacts
  <1>4. \A d \in ToSet(ds) :
          /\ d \in Domains[file.kind]
          /\ Answers(d) <=> IsHit(V2Domain(d))
          /\ Spoils(d) <=> MakesNoMatcher(V2Domain(d))
    <2>1. \A d \in ToSet(ds) : d \in Domains[file.kind]
      BY <1>1, MemberFacts
    <2> QED BY <2>1, AnswersFacts
  <1>5. \A d \in ToSet(ds) : V2Domain(d).attrs = d.attrs
    <2>1. \A d \in ToSet(ds) : (V2ray => V2Domain(d) = d)
                               /\ (~ V2ray => V2Domain(d).attrs = {} /\ d.attrs = {})
      BY <1>4, V2DomainFacts
    <2> QED BY <2>1
  <1> HIDE DEF vs, ds
  <1>6. names \in Seq(M) /\ ToSet(names) = M /\ Len(names) = Cardinality(M)
    <2>1. IsFiniteSet(M) /\ names \in SetToSeqs(M)
      BY <1>2, <1>3, MatchedNamesFinite
    <2> HIDE DEF M
    <2> QED BY <2>1, ListingFacts
  <1>7. M \subseteq [code : {c}, attr : Attrs \cup {""}]
    BY <1>3, MatchedNamesFacts
  <1>8. names \in Seq(LookupNames)
    <2>1. M \subseteq LookupNames
      BY <1>7 DEF LookupNames
    <2> HIDE DEF M
    <2> QED BY <1>6, <2>1, SeqOfMore
  <1>9. ASSUME NEW n \in M
        PROVE  /\ n.code = c
               /\ \E d \in ToSet(ds) : Answers(d) /\ (n.attr = "" \/ n.attr \in d.attrs)
    <2>1. n.code = c
      BY <1>7, <1>9
    <2>2. \E v \in ToSet(vs) : IsHit(v) /\ (n.attr = "" \/ n.attr \in v.attrs)
      BY <1>3, MatchedNamesFacts
    <2> QED BY <1>3, <1>4, <1>5, <2>1, <2>2
  <1>10. Named(c, M)
    <2> SUFFICES ASSUME \A e \in ToSet(ds) : ~ Spoils(e),
                        NEW d \in ToSet(ds), Answers(d), NEW attr \in d.attrs \cup {""}
                 PROVE  [code |-> c, attr |-> attr] \in M
      BY DEF Named, ds
    <2>1. \A v \in ToSet(vs) : ~ MakesNoMatcher(v)
      BY <1>3, <1>4
    <2>2. V2Domain(d) \in ToSet(vs) /\ IsHit(V2Domain(d)) /\ attr \in V2Domain(d).attrs \cup {""}
      BY <1>3, <1>4, <1>5
    <2> QED BY <1>3, <2>1, <2>2, MatchedNamesFacts
  <1> QED BY <1>6, <1>8, <1>9, <1>10 DEF ds

LEMMA LookupSiteInv == ASSUME IInv, NEW c \in Codes, LookupSite(c) PROVE IInv'
  <1>1. /\ TypeOK /\ Reads(c) /\ UNCHANGED <<input, sites, out, pc>> /\ cmd = "Lookup"
        /\ broken' = broken \/ Breaks(c)
    <2>1. broken' = broken \/ Breaks(c)
      BY DEF LookupSite
    <2> QED BY <2>1 DEF LookupSite, IInv
  <1>2. /\ UNCHANGED <<file, cmd, list, regex, strict>> /\ file \in Files
        /\ Codes' = Codes /\ ListedCodes' = ListedCodes /\ ToRead = Codes /\ (V2ray' <=> V2ray)
        /\ \A d : (Answers(d)' <=> Answers(d)) /\ (Spoils(d)' <=> Spoils(d))
        /\ \A b, names : Named(b, names)' <=> Named(b, names)
    BY <1>1, SameInput, InputTypes DEF ToRead
  <1>3. /\ InputOK' /\ c \in ToRead /\ pc = "read"
        /\ pending' \subseteq ToRead' /\ broken' \in BOOLEAN
        /\ broken' => file'.cut \cap ToRead' # {}
        /\ Visited' = Visited \cup {c} /\ c \notin Visited
        /\ file.cut \cap ToRead = {} => ~ broken /\ (c \in Codes => Readable(c))
    BY <1>1, VisitFrame
  <1>4. matched \in Seq(LookupNames)
    BY <1>1 DEF TypeOK, LookupNames
  <1>5. /\ \A n \in ToSet(matched) :
             /\ n.code \in Visited
             /\ \E d \in ToSet(file.sites[n.code]) :
                  Answers(d) /\ (n.attr = "" \/ n.attr \in d.attrs)
        /\ Cardinality(ToSet(matched)) = Len(matched)
        /\ \A b \in Visited :
             (IF V2ray THEN b \notin file.cut ELSE file.cut = {}) => Named(b, ToSet(matched))
    BY <1>1, <1>3 DEF IInv, Looking
  <1>6. /\ matched' \in Seq(LookupNames)
        /\ \A n \in ToSet(matched') :
             /\ n.code \in Visited'
             /\ \E d \in ToSet(file.sites[n.code]) :
                  Answers(d) /\ (n.attr = "" \/ n.attr \in d.attrs)
        /\ Cardinality(ToSet(matched')) = Len(matched')
        /\ \A b \in Visited' :
             (IF V2ray THEN b \notin file.cut ELSE file.cut = {}) => Named(b, ToSet(matched'))
    <2>1. CASE UNCHANGED matched /\ (IF V2ray THEN c \in file.cut ELSE ~ Readable(c))
      <3>1. (IF V2ray THEN c \notin file.cut ELSE file.cut = {}) => FALSE
        BY <1>3, <2>1
      <3> QED BY <1>3, <1>4, <1>5, <2>1, <3>1
    <2>2. CASE \E names \in SetToSeqs(MatchedNames(c, Geosite(Entry(c)).domains)) :
                  matched' = matched \o names
      <3>1. PICK names \in SetToSeqs(MatchedNames(c, Geosite(Entry(c)).domains)) :
                  matched' = matched \o names
        BY <2>2
      <3>2. /\ names \in Seq(LookupNames)
            /\ Cardinality(ToSet(names)) = Len(names)
            /\ \A n \in ToSet(names) :
                 /\ n.code = c
                 /\ \E d \in ToSet(file.sites[c]) :
                      Answers(d) /\ (n.attr = "" \/ n.attr \in d.attrs)
            /\ Named(c, ToSet(names))
        BY <1>2, NamesFacts
      <3>3. matched' \in Seq(LookupNames) /\ ToSet(matched') = ToSet(matched) \cup ToSet(names)
        <4>1. names \in Seq(LookupNames)
          BY <3>2
        <4> QED BY <1>4, <3>1, <4>1, ToSetFacts
      <3>4. ToSet(matched) \cap ToSet(names) = {}
        BY <1>3, <1>5, <3>2
      <3>5. Cardinality(ToSet(matched')) = Len(matched')
        BY <1>4, <1>5, <3>1, <3>2, <3>4, ConcatOnce
      <3>6. \A n \in ToSet(matched') :
             /\ n.code \in Visited'
             /\ \E d \in ToSet(file.sites[n.code]) :
                  Answers(d) /\ (n.attr = "" \/ n.attr \in d.attrs)
        BY <1>3, <1>5, <3>2, <3>3
      <3>7. \A b, more : Named(b, more) => (more \subseteq ToSet(matched') => Named(b, ToSet(matched')))
        BY DEF Named
      <3>8. \A b \in Visited' :
             (IF V2ray THEN b \notin file.cut ELSE file.cut = {}) => Named(b, ToSet(matched'))
        BY <1>3, <1>5, <3>2, <3>3, <3>7
      <3> QED BY <3>3, <3>5, <3>6, <3>8
    <2> QED BY <2>1, <2>2 DEF LookupSite, Entry
  <1>7. TypeOK'
    <2>1. matched' \in Seq([code : Codes', attr : Attrs \cup {""}])
      BY <1>2, <1>6 DEF LookupNames
    <2>2. sites' \in Seq([code : ListedCodes' \cup {""}, domains : Seq(Domains[file'.kind])])
      BY <1>1, <1>2 DEF TypeOK
    <2> QED BY <1>1, <1>3, <2>1, <2>2 DEF TypeOK, InputOK
  <1>8. Looking'
    BY <1>2, <1>6 DEF Looking
  <1>9. Reading' /\ Writing'
    BY <1>1, <1>2 DEF Reading, Writing
  <1> QED BY <1>1, <1>3, <1>7, <1>8, <1>9, NotDone DEF IInv

-----------------------------------------------------------------------------
(* All codes in order. *)
LEMMA OrderFacts ==
    /\ CodeOrder \in Seq(Names) /\ Len(CodeOrder) \in Nat /\ DOMAIN CodeOrder = 1 .. Len(CodeOrder)
    /\ 1 \in 1 .. Len(CodeOrder) /\ CodeOrder[1] = "" /\ "" \in Names
    /\ \A i, j \in 1 .. Len(CodeOrder) : CodeOrder[i] = CodeOrder[j] => i = j
    /\ Names = {CodeOrder[i] : i \in 1 .. Len(CodeOrder)}
  <1>1. CodeOrder \in Seq(Names) /\ IsInjective(CodeOrder) /\ CodeOrder # << >> /\ CodeOrder[1] = ""
    BY InputsAssumption
  <1>2. Len(CodeOrder) \in Nat /\ DOMAIN CodeOrder = 1 .. Len(CodeOrder)
    BY <1>1, MemberFacts
  <1>3. Len(CodeOrder) > 0
    <2> DEFINE V == Names
    <2>1. CodeOrder \in Seq(V) /\ CodeOrder # << >>
      BY <1>1
    <2> HIDE DEF V
    <2> QED BY <2>1
  <1>4. 1 \in 1 .. Len(CodeOrder)
    BY <1>2, <1>3
  <1>5. Names = {CodeOrder[i] : i \in 1 .. Len(CodeOrder)}
    BY <1>2 DEF Names, ToSet
  <1>6. "" \in Names
    BY <1>1, <1>4, <1>5
  <1> QED BY <1>1, <1>2, <1>4, <1>5, <1>6 DEF IsInjective

(* What ToGeosite writes of what is read. *)
Outs == [code : Names, domains : Seq(V2Domains)]

LEMMA GeositeType ==
    ASSUME file \in Files, list \in Lists, NEW site \in Sites
    PROVE  /\ Geosite(site) \in Outs
           /\ Geosite(site).code = site.code
  <1>1. ListedCodes \cup {""} \subseteq Names
    BY OrderFacts, ListFacts
  <1>2. PICK c \in ListedCodes \cup {""}, ds \in Seq(Domains[file.kind]) :
          site = [code |-> c, domains |-> ds]
    BY DEF Sites
  <1>3. Geosite(site) = [code |-> c, domains |-> V2DomainsOf(ds)]
    BY <1>2, GeositeFacts
  <1>4. V2DomainsOf(ds) \in Seq(V2Domains)
    BY V2DomainsOfFacts
  <1>5. Geosite(site).code = c /\ site.code = c
    BY <1>2, <1>3, SiteFields
  <1>6. Geosite(site) \in Outs
    BY <1>1, <1>3, <1>4, SiteFields DEF Outs
  <1> QED BY <1>5, <1>6

LEMMA WrittenFacts ==
    ASSUME TypeOK
    PROVE  /\ Written \in Seq(Outs) /\ Len(Written) = Len(sites)
           /\ \A n \in 1 .. Len(sites) : Written[n] = Geosite(sites[n])
  <1>1. sites \in Seq(Sites)
    BY DEF TypeOK, Sites
  <1>2. Len(sites) \in Nat /\ DOMAIN sites = 1 .. Len(sites)
        /\ \A n \in 1 .. Len(sites) : sites[n] \in Sites
    BY <1>1, MemberFacts
  <1>3. \A n \in 1 .. Len(sites) : Geosite(sites[n]) \in Outs
    BY <1>2, InputTypes, GeositeType
  <1>4. Written \in [1 .. Len(sites) -> Outs]
    BY <1>2, <1>3 DEF Written
  <1>5. \A n \in 1 .. Len(sites) : Written[n] = Geosite(sites[n])
    BY <1>2 DEF Written
  <1>6. Written \in Seq(Outs) /\ Len(Written) = Len(sites)
    BY <1>2, <1>4
  <1> QED BY <1>5, <1>6

LEMMA WrittenAppend ==
    ASSUME TypeOK, NEW site \in Sites, sites' = Append(sites, site), input' = input
    PROVE  Written' = Append(Written, Geosite(site))
  <1>1. sites \in Seq(Sites)
    BY DEF TypeOK, Sites
  <1>2. \A s : Geosite(s)' = Geosite(s)
    BY SameInput
  <1>3. Written' = [n \in DOMAIN sites' |-> Geosite(sites'[n])]
    BY <1>2 DEF Written
  <1> DEFINE N == Len(sites)
             w == Written
  <1>4. N \in Nat /\ DOMAIN sites' = 1 .. N + 1 /\ sites'[N + 1] = site
        /\ \A n \in 1 .. N : sites'[n] = sites[n]
    BY <1>1
  <1>5. w \in Seq(Outs) /\ Len(w) = N /\ \A n \in 1 .. N : w[n] = Geosite(sites[n])
    BY WrittenFacts
  <1>6. Geosite(site) \in Outs
    BY InputTypes, GeositeType
  <1> HIDE DEF N, w
  <1>7. Append(w, Geosite(site)) = [n \in 1 .. N + 1 |-> Geosite(sites'[n])]
    <2> DEFINE u == Append(w, Geosite(site))
    <2>1. u \in Seq(Outs) /\ DOMAIN u = 1 .. N + 1 /\ u[N + 1] = Geosite(site)
          /\ \A n \in 1 .. N : u[n] = w[n]
      BY <1>4, <1>5, <1>6
    <2>2. \A n \in 1 .. N + 1 : u[n] = Geosite(sites'[n])
      BY <1>4, <1>5, <2>1
    <2> HIDE DEF u
    <2>3. u = [n \in DOMAIN u |-> u[n]]
      BY <2>1
    <2>4. u = [n \in 1 .. N + 1 |-> Geosite(sites'[n])]
      BY <2>1, <2>2, <2>3
    <2> QED BY <2>4 DEF u
  <1> QED BY <1>3, <1>4, <1>7 DEF w

LEMMA WithCodeAppend ==
    ASSUME NEW w \in Seq(Outs), NEW e \in Outs, NEW c
    PROVE  WithCode(Append(w, e), c) =
             IF e.code = c THEN Append(WithCode(w, c), e) ELSE WithCode(w, c)
  <1> DEFINE t == Append(w, e)
             All == {site \in Outs : site.code = c}
             Of(s) == {site \in ToSet(s) : site.code = c}
  <1>1. t \in Seq(Outs)
    OBVIOUS
  <1>2. ASSUME NEW s \in Seq(Outs)
        PROVE  Sifted(s, Of(s)) = Sifted(s, All)
    <2>1. ToSet(s) \subseteq Outs
      BY MemberFacts
    <2>2. Of(s) \cap ToSet(s) = All \cap ToSet(s)
      BY <2>1
    <2> HIDE DEF Of, All
    <2> QED BY <2>2, SameSifted
  <1>3. Sifted(t, All) = IF e \in All THEN Append(Sifted(w, All), e) ELSE Sifted(w, All)
    <2> HIDE DEF All
    <2> QED BY SiftedAppend
  <1>4. WithCode(t, c) = Sifted(t, Of(t)) /\ WithCode(w, c) = Sifted(w, Of(w))
    BY DEF WithCode
  <1>5. e \in All <=> e.code = c
    OBVIOUS
  <1> HIDE DEF t, All, Of
  <1>6. WithCode(t, c) = IF e.code = c THEN Append(WithCode(w, c), e) ELSE WithCode(w, c)
    BY <1>1, <1>2, <1>3, <1>4, <1>5
  <1> QED BY <1>6 DEF t

-----------------------------------------------------------------------------
(* The reads of the other commands. *)
LEMMA VisitedFinite ==
    ASSUME TypeOK, cmd # "Lookup"
    PROVE  Visited \subseteq ListedCodes /\ IsFiniteSet(Visited)
  <1>1. Visited \subseteq ListedCodes
    BY DEF Visited, ToRead
  <1> DEFINE N == Len(list)
             codes == [i \in 1 .. N |-> list[i].code]
  <1>2. N \in Nat /\ DOMAIN list = 1 .. N
    BY InputTypes, ListFacts
  <1>3. ListedCodes = {list[i].code : i \in 1 .. N}
    BY <1>2 DEF ListedCodes
  <1>4. codes \in Surjection(1 .. N, ListedCodes)
    BY <1>3 DEF Surjection
  <1>5. IsFiniteSet(1 .. N)
    BY <1>2, FS_Interval
  <1> HIDE DEF N, codes
  <1>6. IsFiniteSet(ListedCodes)
    BY <1>4, <1>5, FS_Surjection
  <1> QED BY <1>1, <1>6, FS_Subset

LEMMA GatherFrame ==
    ASSUME IInv, NEW c, Reads(c), UNCHANGED <<input, matched, out>>,
           (broken' = broken) \/ Breaks(c), cmd # "Lookup",
           sites' \in Seq(Sites), pc' \in {"read", "error"}, pc' = "error" => sites' = << >>
    PROVE  TypeOK' /\ Looking'
  <1>1. TypeOK
    BY DEF IInv
  <1>2. /\ InputOK' /\ pending' \subseteq ToRead' /\ broken' \in BOOLEAN
        /\ broken' => file'.cut \cap ToRead' # {}
    BY <1>1, VisitFrame
  <1>3. /\ UNCHANGED <<file, cmd, list, regex, strict>>
        /\ Codes' = Codes /\ ListedCodes' = ListedCodes
    BY SameInput
  <1>4. matched' \in Seq([code : Codes', attr : Attrs \cup {""}])
    BY <1>1, <1>3 DEF TypeOK
  <1>5. sites' \in Seq([code : ListedCodes' \cup {""}, domains : Seq(Domains[file'.kind])])
    BY <1>3 DEF Sites
  <1>6. TypeOK'
    BY <1>2, <1>4, <1>5 DEF TypeOK, InputOK
  <1>7. Looking'
    BY <1>3 DEF Looking
  <1> QED BY <1>6, <1>7

LEMMA FailInv ==
    ASSUME IInv, NEW c, Reads(c), UNCHANGED <<input, matched, out>>,
           (broken' = broken) \/ Breaks(c), cmd # "Lookup", Fail, c \in ListedCodes,
           IF V2ray THEN c \in file.cut \/ (strict /\ c \notin Codes)
           ELSE cmd # "ToGeosite" /\ strict /\ (c \notin Codes \/ file.cut \cap ListedCodes # {})
    PROVE  IInv'
  <1>1. sites' = << >> /\ pc' = "error"
    BY DEF Fail
  <1>2. TypeOK' /\ Looking'
    <2>1. sites' \in Seq(Sites)
      BY <1>1
    <2> QED BY <1>1, <2>1, GatherFrame
  <1>3. Reading' /\ Writing'
    BY <1>1 DEF Reading, Writing
  <1>4. EndsRight'
    <2>1. /\ UNCHANGED <<file, cmd, list, regex, strict>>
          /\ Codes' = Codes /\ ListedCodes' = ListedCodes /\ (V2ray' <=> V2ray)
      BY SameInput
    <2>2. ListedCodes \subseteq Codes => c \in Codes
      OBVIOUS
    <2>3. c \in file.cut => ListedCodes \cap file.cut # {}
      OBVIOUS
    <2> QED BY <1>1, <2>1, <2>2, <2>3 DEF EndsRight
  <1> QED BY <1>1, <1>2, <1>3, <1>4, NotDone DEF IInv

LEMMA SkipInv ==
    ASSUME IInv, NEW c, Reads(c), UNCHANGED <<input, matched, out>>,
           (broken' = broken) \/ Breaks(c), cmd # "Lookup", Skip, ~ V2ray,
           IF cmd = "ToGeosite" THEN ~ Whole ELSE ~ strict /\ (c \in Codes => Partial)
    PROVE  IInv'
  <1>1. UNCHANGED <<sites, pc>> /\ TypeOK
    BY DEF Skip, IInv
  <1>2. sites \in Seq(Sites)
    BY <1>1 DEF TypeOK, Sites
  <1>3. Visited' = Visited \cup {c} /\ pc = "read"
    BY <1>1, VisitFrame
  <1>4. TypeOK' /\ Looking'
    BY <1>1, <1>2, <1>3, GatherFrame
  <1>5. /\ UNCHANGED <<file, cmd, list, regex, strict>>
        /\ Codes' = Codes /\ (V2ray' <=> V2ray) /\ (Partial' <=> Partial) /\ (Whole' <=> Whole)
        /\ \A b : Entry(b)' = Entry(b)
    BY SameInput
  <1>6. Reading /\ ToSet(sites') = ToSet(sites)
    BY <1>1 DEF IInv
  <1>7. Reading'
    <2>1. \A site \in ToSet(sites) :
             site.domains # << >> => site.code \in Visited \cap Codes /\ site = Entry(site.code)
      BY <1>3, <1>6 DEF Reading
    <2>2. cmd # "ToGeosite" /\ ~ Partial =>
             \A b \in (Visited \cup {c}) \cap Codes : Entry(b) \in ToSet(sites)
      BY <1>3, <1>6 DEF Reading
    <2> QED BY <1>3, <1>5, <1>6, <2>1, <2>2 DEF Reading
  <1>8. Writing'
    BY <1>5 DEF Writing
  <1>9. pc' # "done" /\ pc' # "error"
    BY <1>1, <1>3
  <1> QED BY <1>4, <1>7, <1>8, <1>9, NotDone DEF IInv

(* What one more code adds to what ToGeosite writes. *)
HollowRun(n) == [i \in 1 .. n |-> Hollow]

LEMMA HollowRunGrows ==
    ASSUME NEW n \in Nat
    PROVE  HollowRun(n + 1) = Append(HollowRun(n), Hollow)
  <1> DEFINE u == Append(HollowRun(n), Hollow)
  <1>1. HollowRun(n) \in Seq({Hollow}) /\ Len(HollowRun(n)) = n
        /\ \A i \in 1 .. n : HollowRun(n)[i] = Hollow
    BY DEF HollowRun
  <1>2. Hollow \in {Hollow}
    OBVIOUS
  <1>3. DOMAIN u = 1 .. n + 1 /\ u \in Seq({Hollow})
    BY <1>1
  <1>4. \A i \in 1 .. n + 1 : u[i] = Hollow
    BY <1>3
  <1> HIDE DEF u
  <1>5. u = [i \in DOMAIN u |-> u[i]]
    BY <1>3
  <1>6. u = [i \in 1 .. n + 1 |-> Hollow]
    BY <1>3, <1>4, <1>5
  <1> QED BY <1>6 DEF u, HollowRun

LEMMA WritingGrows ==
    ASSUME TypeOK, Writing, pc = "read", cmd = "ToGeosite", Whole,
           NEW c \in ListedCodes, c \notin Visited, Visited' = Visited \cup {c},
           NEW site \in Sites, sites' = Append(sites, site), input' = input,
           c \in Codes => site = Entry(c),
           c \notin Codes => Geosite(site) = Hollow,
           NEW b \in Names
    PROVE  WithCode(Written, b)' = ToWrite(b)'
  <1>1. file \in Files /\ list \in Lists
    BY InputTypes
  <1>2. /\ Codes' = Codes /\ (\A s : Geosite(s)' = Geosite(s)) /\ \A d : Entry(d)' = Entry(d)
    BY SameInput
  <1>3. Written \in Seq(Outs) /\ Geosite(site) \in Outs /\ Geosite(site).code = site.code
    BY <1>1, WrittenFacts, GeositeType
  <1>4. WithCode(Written, b)' = WithCode(Append(Written, Geosite(site)), b)
    <2>1. Written' = Append(Written, Geosite(site))
      BY WrittenAppend
    <2> QED BY <2>1 DEF WithCode
  <1>5. WithCode(Written, b)' =
          IF Geosite(site).code = b THEN Append(ToWrite(b), Geosite(site)) ELSE ToWrite(b)
    <2>1. WithCode(Written, b) = ToWrite(b)
      BY DEF Writing
    <2> QED BY <1>3, <1>4, <2>1, WithCodeAppend
  <1>6. ToWrite(b) = IF b = "" THEN HollowRun(Cardinality(Visited \ Codes))
                     ELSE IF b \in Visited \cap Codes THEN <<Geosite(Entry(b))>> ELSE << >>
    BY DEF ToWrite, HollowRun
  <1>7. ToWrite(b)' = IF b = "" THEN HollowRun(Cardinality((Visited \cup {c}) \ Codes))
                      ELSE IF b \in (Visited \cup {c}) \cap Codes THEN <<Geosite(Entry(b))>>
                      ELSE << >>
    <2>1. ToWrite(b)' = IF b = "" THEN HollowRun(Cardinality(Visited' \ Codes'))
                        ELSE IF b \in Visited' \cap Codes' THEN <<Geosite(Entry(b))'>> ELSE << >>
      BY DEF ToWrite, HollowRun, Hollow
    <2>2. Geosite(Entry(b))' = Geosite(Entry(b))
      BY <1>2
    <2> QED BY <1>2, <2>1, <2>2
  <1>8. "" \notin Codes
    BY <1>1, KindFacts
  <1>9. CASE c \in Codes
    <2>1. site = Entry(c) /\ Geosite(site).code = c
      BY <1>3, <1>9 DEF Entry
    <2>2. (Visited \cup {c}) \ Codes = Visited \ Codes
      BY <1>9
    <2>3. CASE b = c
      <3>1. ToWrite(b) = << >> /\ ToWrite(b)' = <<Geosite(site)>>
        BY <1>6, <1>7, <1>8, <1>9, <2>1, <2>3
      <3>2. Append(<< >>, Geosite(site)) = <<Geosite(site)>>
        OBVIOUS
      <3> QED BY <1>5, <2>1, <2>3, <3>1, <3>2
    <2>4. CASE b # c
      BY <1>5, <1>6, <1>7, <2>1, <2>2, <2>4
    <2> QED BY <2>3, <2>4
  <1>10. CASE c \notin Codes
    <2>1. Geosite(site) = Hollow /\ Hollow.code = ""
      BY <1>10 DEF Hollow
    <2>2. CASE b = ""
      <3>1. (Visited \cup {c}) \ Codes = (Visited \ Codes) \cup {c} /\ c \notin Visited \ Codes
        BY <1>10
      <3>2. IsFiniteSet(Visited \ Codes)
        BY VisitedFinite, FS_Subset
      <3>3. /\ Cardinality((Visited \cup {c}) \ Codes) = Cardinality(Visited \ Codes) + 1
            /\ Cardinality(Visited \ Codes) \in Nat
        BY <3>1, <3>2, FS_AddElement, FS_CardinalityType
      <3> QED BY <1>5, <1>6, <1>7, <2>1, <2>2, <3>3, HollowRunGrows
    <2>3. CASE b # ""
      <3>1. (Visited \cup {c}) \cap Codes = Visited \cap Codes
        BY <1>10
      <3> QED BY <1>5, <1>6, <1>7, <2>1, <2>3, <3>1
    <2> QED BY <2>2, <2>3
  <1> QED BY <1>9, <1>10

LEMMA GotInv ==
    ASSUME IInv, NEW c \in ListedCodes, Reads(c), UNCHANGED <<input, matched, out>>,
           (broken' = broken) \/ Breaks(c), cmd # "Lookup", NEW site \in Sites, Got(site),
           site.domains # << >> => c \in Codes /\ site = Entry(c),
           c \in Codes /\ cmd # "ToGeosite" /\ ~ Partial => site = Entry(c),
           V2ray => c \notin file.cut /\ (strict => c \in Codes),
           ~ V2ray /\ strict /\ cmd # "ToGeosite" => c \in Codes \ file.cut,
           cmd = "ToGeosite" /\ Whole =>
             /\ c \in Codes => site = Entry(c)
             /\ c \notin Codes => Geosite(site) = Hollow
    PROVE  IInv'
  <1>1. sites' = Append(sites, site) /\ pc' = pc /\ TypeOK
    BY DEF Got, IInv
  <1>2. sites \in Seq(Sites)
    BY <1>1 DEF TypeOK, Sites
  <1>3. sites' \in Seq(Sites) /\ ToSet(sites') = ToSet(sites) \cup {site}
    BY <1>1, <1>2, ToSetAppend
  <1>4. Visited' = Visited \cup {c} /\ pc = "read" /\ c \notin Visited
    BY <1>1, VisitFrame
  <1>5. TypeOK' /\ Looking'
    BY <1>1, <1>3, <1>4, GatherFrame
  <1>6. /\ UNCHANGED <<file, cmd, list, regex, strict>>
        /\ Codes' = Codes /\ (V2ray' <=> V2ray) /\ (Partial' <=> Partial) /\ (Whole' <=> Whole)
        /\ \A b : Entry(b)' = Entry(b)
    BY SameInput
  <1>7. Reading'
    <2>1. Reading
      BY DEF IInv
    <2>2. V2ray => \A b \in Visited \cup {c} : b \notin file.cut /\ (strict => b \in Codes)
      BY <1>4, <2>1 DEF Reading
    <2>3. ~ V2ray /\ strict /\ cmd # "ToGeosite" => \A b \in Visited \cup {c} : b \in Codes \ file.cut
      BY <1>4, <2>1 DEF Reading
    <2>4. \A s \in ToSet(sites) \cup {site} :
             s.domains # << >> =>
               s.code \in (Visited \cup {c}) \cap Codes /\ s = Entry(s.code)
      <3>1. Entry(c).code = c
        BY DEF Entry
      <3>2. \A s \in ToSet(sites) :
              s.domains # << >> => s.code \in Visited \cap Codes /\ s = Entry(s.code)
        BY <1>4, <2>1 DEF Reading
      <3>3. site.domains # << >> => site.code = c /\ c \in Codes /\ site = Entry(c)
        BY <3>1
      <3> QED BY <3>2, <3>3
    <2>5. cmd # "ToGeosite" /\ ~ Partial =>
             \A b \in (Visited \cup {c}) \cap Codes : Entry(b) \in ToSet(sites) \cup {site}
      BY <1>4, <2>1 DEF Reading
    <2> QED BY <1>3, <1>4, <1>6, <2>2, <2>3, <2>4, <2>5 DEF Reading
  <1>8. Writing'
    <2> SUFFICES ASSUME cmd = "ToGeosite", Whole, NEW b \in Names
                 PROVE  WithCode(Written, b)' = ToWrite(b)'
      BY <1>6 DEF Writing
    <2>1. Writing
      BY DEF IInv
    <2> QED BY <1>1, <1>4, <2>1, WritingGrows
  <1>9. pc' # "done" /\ pc' # "error"
    BY <1>1, <1>4
  <1> QED BY <1>5, <1>7, <1>8, <1>9, NotDone DEF IInv

LEMMA EntryType ==
    ASSUME file \in Files, NEW c \in ListedCodes
    PROVE  /\ c \in Codes => Entry(c) \in Sites
           /\ [code |-> c, domains |-> << >>] \in Sites
           /\ Hollow \in Sites /\ Hollow.domains = << >>
  <1>1. << >> \in Seq(Domains[file.kind])
    OBVIOUS
  <1>2. [code |-> c, domains |-> << >>] \in Sites
    BY <1>1 DEF Sites
  <1>3. Hollow \in Sites /\ Hollow.domains = << >>
    BY <1>1 DEF Hollow, Sites
  <1>4. c \in Codes => Entry(c) \in Sites
    BY KindFacts DEF Entry, Sites
  <1> QED BY <1>2, <1>3, <1>4

LEMMA ReadSiteInv == ASSUME IInv, NEW c \in ListedCodes, ReadSite(c) PROVE IInv'
  <1>1. /\ V2ray /\ cmd # "Lookup" /\ Reads(c)
        /\ UNCHANGED <<input, broken, matched, out>>
    BY DEF ReadSite
  <1>2. file \in Files /\ file.cut \subseteq Codes
    BY InputTypes, KindFacts DEF IInv
  <1>3. CASE c \in Codes \ file.cut /\ Got(Entry(c))
    <2>1. Entry(c) \in Sites
      BY <1>2, <1>3, EntryType
    <2> QED BY <1>1, <1>3, <2>1, GotInv
  <1>4. CASE c \in file.cut /\ Fail
    BY <1>1, <1>4, FailInv
  <1>5. CASE c \notin Codes /\ MustExist /\ Fail
    BY <1>1, <1>5, FailInv DEF MustExist
  <1>6. CASE c \notin Codes /\ ~ MustExist /\ Got(Hollow)
    <2>1. Hollow \in Sites /\ Hollow.domains = << >>
      BY <1>2, EntryType
    <2>2. Geosite(Hollow) = Hollow
      BY <1>1 DEF Geosite
    <2>3. ~ strict /\ c \notin file.cut
      BY <1>2, <1>6 DEF MustExist
    <2> QED BY <1>1, <1>6, <2>1, <2>2, <2>3, GotInv
  <1> QED BY <1>3, <1>4, <1>5, <1>6 DEF ReadSite, Entry

(* A code that a sing-box command cannot read. *)
LEMMA Unreadable ==
    ASSUME TypeOK, cmd # "Lookup", NEW c \in Codes, ~ Readable(c)
    PROVE  /\ file.cut \cap ToRead # {} \/ c \in file.cut
           /\ c \in ToRead => ~ Whole
  <1>1. broken => file.cut \cap ToRead # {}
    BY DEF TypeOK
  <1>2. ToRead \subseteq ListedCodes
    BY DEF ToRead
  <1> QED BY <1>1, <1>2 DEF Readable, Whole

LEMMA ReadSingInv == ASSUME IInv, NEW c \in ListedCodes, ReadSing(c) PROVE IInv'
  <1>1. /\ ~ V2ray /\ cmd \notin {"Lookup", "ToGeosite"} /\ Reads(c) /\ Breaks(c)
        /\ UNCHANGED <<input, matched, out>>
    BY DEF ReadSing
  <1>2. TypeOK /\ file \in Files /\ c \in ToRead
    BY <1>1, InputTypes, VisitFrame DEF IInv
  <1>3. CASE Readable(c) /\ Got(Entry(c))
    <2>1. c \in Codes \ file.cut /\ Entry(c) \in Sites
      BY <1>2, <1>3, EntryType DEF Readable
    <2> QED BY <1>1, <1>3, <2>1, GotInv
  <1>4. CASE ~ Readable(c) /\ MustExist /\ Fail
    <2>1. c \in Codes => file.cut \cap ListedCodes # {}
      BY <1>1, <1>2, <1>4, Unreadable DEF Whole
    <2> QED BY <1>1, <1>4, <2>1, FailInv DEF MustExist
  <1>5. CASE ~ Readable(c) /\ ~ MustExist /\ Skip
    <2>1. c \in Codes => Partial
      BY <1>1, <1>2, <1>5, Unreadable DEF Whole, Partial, MustExist
    <2> QED BY <1>1, <1>5, <2>1, SkipInv DEF MustExist
  <1> QED BY <1>3, <1>4, <1>5 DEF ReadSing, Entry

LEMMA ReadSingForGeositeInv == ASSUME IInv, NEW c \in Codes, ReadSingForGeosite(c) PROVE IInv'
  <1>1. /\ ~ V2ray /\ cmd = "ToGeosite" /\ Reads(c) /\ Breaks(c)
        /\ UNCHANGED <<input, matched, out>>
    BY DEF ReadSingForGeosite
  <1>2. TypeOK /\ file \in Files /\ c \in ToRead /\ c \in ListedCodes
    <2>1. c \in ToRead
      BY <1>1, VisitFrame DEF IInv
    <2> QED BY <1>1, <2>1, InputTypes DEF IInv, ToRead
  <1>3. CASE Readable(c) /\ Got(Entry(c))
    <2>1. Entry(c) \in Sites
      BY <1>2, EntryType
    <2> QED BY <1>1, <1>2, <1>3, <2>1, GotInv
  <1>4. CASE ~ Readable(c) /\ MustExist /\ Skip
    BY <1>1, <1>2, <1>4, SkipInv, Unreadable
  <1>5. CASE ~ Readable(c) /\ ~ MustExist /\ Got([code |-> c, domains |-> << >>])
    <2> DEFINE site == [code |-> c, domains |-> << >>]
    <2>1. site \in Sites /\ site.domains = << >>
      BY <1>2, EntryType
    <2>2. ~ Whole
      BY <1>1, <1>2, <1>5, Unreadable
    <2>3. Got(site)
      BY <1>5
    <2> HIDE DEF site
    <2> QED BY <1>1, <1>2, <2>1, <2>2, <2>3, GotInv
  <1> QED BY <1>3, <1>4, <1>5 DEF ReadSingForGeosite, Entry

-----------------------------------------------------------------------------
(* The ends. *)
LEMMA EndLookupInv == IInv /\ EndLookup => IInv'
  <1> SUFFICES ASSUME IInv, EndLookup PROVE IInv'
    OBVIOUS
  <1>1. /\ TypeOK /\ pc = "read" /\ cmd = "Lookup" /\ pending = {}
        /\ out' = matched /\ pc' = "done"
        /\ UNCHANGED <<input, pending, broken, sites, matched>>
    BY DEF EndLookup, IInv
  <1>2. /\ UNCHANGED <<file, cmd, list, regex, strict>>
        /\ Codes' = Codes /\ ListedCodes' = ListedCodes /\ ToRead' = ToRead /\ (V2ray' <=> V2ray)
        /\ \A d : (Answers(d)' <=> Answers(d)) /\ (Spoils(d)' <=> Spoils(d))
    BY <1>1, SameInput
  <1>3. TypeOK'
    BY <1>1, <1>2 DEF TypeOK
  <1>4. Visited = Codes
    BY <1>1 DEF Visited, ToRead
  <1>5. /\ \A n \in ToSet(matched) : \E d \in ToSet(file.sites[n.code]) :
             Answers(d) /\ (n.attr = "" \/ n.attr \in d.attrs)
        /\ Cardinality(ToSet(matched)) = Len(matched)
        /\ \A c \in Codes :
             (IF V2ray THEN c \notin file.cut ELSE file.cut = {}) => Named(c, ToSet(matched))
    BY <1>1, <1>4 DEF IInv, Looking
  <1>6. LookupExact'
    <2>1. ASSUME NEW c \in IF V2ray THEN Codes \ file.cut ELSE {b \in Codes : file.cut = {}}
          PROVE  Named(c, ToSet(matched))
      BY <1>5
    <2> QED BY <1>1, <1>2, <1>5, <2>1 DEF LookupExact, Named
  <1>7. ExtractExact' /\ ConvertExact' /\ ToGeositeExact' /\ EndsRight'
    BY <1>1, <1>2 DEF ExtractExact, ConvertExact, ToGeositeExact, EndsRight
  <1>8. Reading' /\ Writing' /\ Looking'
    BY <1>1 DEF Reading, Writing, Looking
  <1> QED BY <1>3, <1>6, <1>7, <1>8 DEF IInv

LEMMA ExtractedTypes ==
    ASSUME TypeOK, NEW r \in BOOLEAN, NEW k \in BOOLEAN, NEW it \in ToSet(Extracted(r, k))
    PROVE  it \in Items /\ TypeAllowed(it.type, r, k)
  <1>1. PICK site \in ToSet(sites) : it \in ToSet(ItemsOf(site, r, k))
    BY ExtractedFacts
  <1>2. file \in Files /\ site.domains \in Seq(Domains[file.kind])
    BY InputTypes, SitesFacts
  <1>3. ItemsOf(site, r, k) \in Seq(Items) /\ TypeAllowed(it.type, r, k)
    BY <1>1, <1>2, ItemsOfFacts
  <1>4. it \in Items
    BY <1>1, <1>3, MemberFacts
  <1> QED BY <1>3, <1>4

(* The values of a type, and the rules, of a list of items. *)
LEMMA ValuesFacts ==
    ASSUME NEW items \in Seq(Items), NEW type
    PROVE  /\ Len(Values(items, type)) \in Nat
           /\ ToSet(Values(items, type)) = {it.value : it \in {i \in ToSet(items) : i.type = type}}
           /\ Values(items, type) = << >> <=> \A it \in ToSet(items) : it.type # type
           /\ Len(Values(items, type)) = 0 <=> \A it \in ToSet(items) : it.type # type
  <1> DEFINE S == {it \in ToSet(items) : it.type = type}
             chosen == Sifted(items, S)
  <1>1. chosen \in Seq(Items) /\ ToSet(chosen) = ToSet(items) \cap S
    <2> HIDE DEF S
    <2> QED BY SiftedFacts
  <1>2. ToSet(chosen) = S
    BY <1>1
  <1>3. Values(items, type) = [i \in DOMAIN chosen |-> chosen[i].value]
    BY DEF Values
  <1> DEFINE vs == [i \in DOMAIN chosen |-> chosen[i].value]
  <1> HIDE DEF chosen
  <1>4. Len(chosen) \in Nat /\ DOMAIN chosen = 1 .. Len(chosen)
        /\ (\A x : x \in ToSet(chosen) <=> \E i \in 1 .. Len(chosen) : x = chosen[i])
        /\ \A i \in 1 .. Len(chosen) : chosen[i] \in ToSet(chosen)
    BY <1>1, MemberFacts
  <1>5. DOMAIN vs = 1 .. Len(chosen) /\ Len(vs) = Len(chosen)
        /\ \A i \in 1 .. Len(chosen) : vs[i] = chosen[i].value
    BY <1>4
  <1>6. ToSet(vs) = {chosen[i].value : i \in 1 .. Len(chosen)}
    BY <1>5 DEF ToSet
  <1>7. ToSet(vs) = {it.value : it \in ToSet(chosen)}
    BY <1>4, <1>6
  <1>8. Len(chosen) = 0 <=> ToSet(chosen) = {}
    BY <1>4
  <1>9. vs = << >> <=> Len(chosen) = 0
    <2>1. vs \in Seq({chosen[i].value : i \in 1 .. Len(chosen)})
      BY <1>4
    <2> HIDE DEF vs
    <2> QED BY <1>5, <2>1
  <1>10. S = {} <=> \A it \in ToSet(items) : it.type # type
    OBVIOUS
  <1> HIDE DEF vs
  <1> QED BY <1>2, <1>3, <1>4, <1>5, <1>7, <1>8, <1>9, <1>10 DEF vs

QxRules == {"host", "host-suffix", "host-keyword"}

QxOf(type) ==
    IF type = "Domain" THEN "host" ELSE IF type = "DomainSuffix" THEN "host-suffix" ELSE "host-keyword"

LEMMA QxFacts ==
    ASSUME NEW items \in Seq(Items), NEW sort \in Sorts
    PROVE  {it.value : it \in {q \in ToSet(itemToQxRule(items)) : q.rule = QxOf(TypeOf(sort))}} =
             ValuesOf(ToSet(items), sort)
  <1> DEFINE rule == [Domain |-> "host", DomainSuffix |-> "host-suffix",
                      DomainKeyword |-> "host-keyword"]
             S == {it \in ToSet(items) : it.type \in DOMAIN rule}
             chosen == Sifted(items, S)
             Qx(it) == [rule |-> rule[it.type], value |-> it.value]
             qs == [i \in DOMAIN chosen |-> Qx(chosen[i])]
  <1>1. chosen \in Seq(Items) /\ ToSet(chosen) = ToSet(items) \cap S
    <2> HIDE DEF S
    <2> QED BY SiftedFacts
  <1>2. ToSet(chosen) = S
    BY <1>1
  <1>3. itemToQxRule(items) = qs
    BY DEF itemToQxRule
  <1>4. DOMAIN chosen = 1 .. Len(chosen)
        /\ \A x : x \in ToSet(chosen) <=> \E i \in 1 .. Len(chosen) : x = chosen[i]
    <2> HIDE DEF chosen
    <2> QED BY <1>1, MemberFacts
  <1>5. ToSet(qs) = {Qx(it) : it \in S}
    <2>1. ToSet(qs) = {Qx(chosen[i]) : i \in 1 .. Len(chosen)}
      <3> HIDE DEF chosen, Qx
      <3> QED BY <1>4 DEF ToSet
    <2> HIDE DEF chosen, Qx, S, qs
    <2> QED BY <1>2, <1>4, <2>1
  <1>6. \A it \in S : /\ Qx(it).rule = QxOf(it.type) /\ Qx(it).value = it.value
                      /\ it.type \in {"Domain", "DomainSuffix", "DomainKeyword"}
    BY DEF QxOf
  <1>7. \A it \in S : QxOf(it.type) = QxOf(TypeOf(sort)) <=> it.type = TypeOf(sort)
    BY <1>6 DEF QxOf, TypeOf, Sorts
  <1>8. \A it \in ToSet(items) : it.type = TypeOf(sort) => it \in S
    BY DEF TypeOf, Sorts
  <1>9. S \subseteq ToSet(items)
    OBVIOUS
  <1> HIDE DEF Qx, S, qs
  <1>10. {q.value : q \in {q \in ToSet(qs) : q.rule = QxOf(TypeOf(sort))}} =
           {it.value : it \in {i \in ToSet(items) : i.type = TypeOf(sort)}}
    BY <1>5, <1>6, <1>7, <1>8, <1>9
  <1> QED BY <1>3, <1>10 DEF ValuesOf

(* What all of the entries give, by sort. *)
LEMMA AllExtracted ==
    ASSUME TypeOK, Reading, pc = "read", cmd \notin {"Lookup", "ToGeosite"}, pending = {},
           NEW sort \in Sorts, NEW r \in BOOLEAN, NEW k \in BOOLEAN, sort = "keyword" => k
    PROVE  GivesAll(ValuesOf(ToSet(Extracted(r, k)), sort), AskedFor(sort))
  BY GivesOnlyAsked, GivesAllAsked DEF GivesAll

(* Without keywords the rules are full domains and suffixes. *)
LEMMA OnlyFullAndSuffix ==
    ASSUME TypeOK, NEW r \in BOOLEAN
    PROVE  /\ \A it \in ToSet(Extracted(r, FALSE)) : it.type \in {"Domain", "DomainSuffix"}
           /\ {it.value : it \in ToSet(Extracted(r, FALSE))} =
                ValuesOf(ToSet(Extracted(r, FALSE)), "full")
                  \cup ValuesOf(ToSet(Extracted(r, FALSE)), "suffix")
  <1> DEFINE S == ToSet(Extracted(r, FALSE))
  <1>1. ASSUME NEW it \in S
        PROVE  it.type \in {"Domain", "DomainSuffix"}
    <2>1. it \in Items /\ TypeAllowed(it.type, r, FALSE)
      BY ExtractedTypes
    <2>2. it.type \in ItemTypes
      BY <2>1 DEF Items
    <2> QED BY <2>1, <2>2 DEF TypeAllowed, ItemTypes
  <1> HIDE DEF S
  <1>2. {it.value : it \in S} = ValuesOf(S, "full") \cup ValuesOf(S, "suffix")
    BY <1>1 DEF ValuesOf, TypeOf
  <1> QED BY <1>1, <1>2 DEF S

LEMMA ConvertFrame ==
    ASSUME IInv, Convert
    PROVE  /\ TypeOK /\ Reading /\ Writing /\ pc = "read" /\ cmd # "Lookup" /\ pending = {}
           /\ regex \in BOOLEAN /\ V2ray \in BOOLEAN
           /\ UNCHANGED <<file, cmd, list, regex, strict>> /\ UNCHANGED input
           /\ (NoRules /\ pc' = "error") \/ (~ NoRules /\ pc' = "done" /\ out' = Result)
           /\ TypeOK' /\ Reading' /\ Writing' /\ Looking' /\ LookupExact'
  <1>1. /\ TypeOK /\ Reading /\ Writing /\ pc = "read" /\ cmd # "Lookup" /\ pending = {}
        /\ (NoRules /\ pc' = "error") \/ (~ NoRules /\ pc' = "done" /\ out' = Result)
        /\ UNCHANGED <<input, pending, broken, sites, matched>>
    BY DEF Convert, IInv
  <1>2. /\ UNCHANGED <<file, cmd, list, regex, strict>>
        /\ Codes' = Codes /\ ListedCodes' = ListedCodes /\ ToRead' = ToRead
    BY <1>1, SameInput
  <1>3. TypeOK'
    <2>1. pc' \in {"done", "error"} /\ (pc' = "error" => cmd' = "ToRuleSet")
      BY <1>1, <1>2 DEF NoRules
    <2> QED BY <1>1, <1>2, <2>1 DEF TypeOK
  <1>4. Reading' /\ Writing' /\ Looking' /\ LookupExact'
    BY <1>1, <1>2 DEF Reading, Writing, Looking, LookupExact
  <1>5. regex \in BOOLEAN /\ V2ray \in BOOLEAN
    BY <1>1, InputTypes DEF V2ray
  <1> QED BY <1>1, <1>2, <1>3, <1>4, <1>5

LEMMA ConvertExtract == ASSUME IInv, Convert PROVE ExtractExact'
  <1>1. /\ TypeOK /\ Reading /\ pc = "read" /\ pending = {} /\ regex \in BOOLEAN
        /\ UNCHANGED <<file, cmd, list, regex, strict>> /\ UNCHANGED input
        /\ (NoRules /\ pc' = "error") \/ (~ NoRules /\ pc' = "done" /\ out' = Result)
    BY ConvertFrame
  <1> SUFFICES ASSUME cmd = "Extract", out' = Result
               PROVE  GivesAll(out, AskedFor("full") \cup AskedFor("suffix"))'
    BY <1>1 DEF ExtractExact
  <1> DEFINE all == Extracted(regex, FALSE)
             full == ValuesOf(ToSet(all), "full")
             suffix == ValuesOf(ToSet(all), "suffix")
  <1>2. out' = {it.value : it \in ToSet(all)}
    BY DEF Result
  <1>3. out' = full \cup suffix
    BY <1>1, <1>2, OnlyFullAndSuffix
  <1>4. GivesAll(full, AskedFor("full")) /\ GivesAll(suffix, AskedFor("suffix"))
    BY <1>1, AllExtracted DEF Sorts
  <1>5. (Partial' <=> Partial) /\ \A sort : AskedFor(sort)' = AskedFor(sort)
    BY <1>1, SameInput
  <1> HIDE DEF full, suffix
  <1>6. GivesAll(out', AskedFor("full") \cup AskedFor("suffix"))
    BY <1>3, <1>4 DEF GivesAll
  <1> QED BY <1>5, <1>6 DEF GivesAll

LEMMA ConvertRules == ASSUME IInv, Convert PROVE ConvertExact'
  <1>1. /\ TypeOK /\ Reading /\ pc = "read" /\ pending = {}
        /\ regex \in BOOLEAN /\ V2ray \in BOOLEAN
        /\ UNCHANGED <<file, cmd, list, regex, strict>> /\ UNCHANGED input
        /\ (NoRules /\ pc' = "error") \/ (~ NoRules /\ pc' = "done" /\ out' = Result)
    BY ConvertFrame
  <1>2. /\ Partial' <=> Partial
        /\ V2ray' <=> V2ray
        /\ \A sort : AskedFor(sort)' = AskedFor(sort)
    BY <1>1, SameInput
  <1>3. \A given, sort : GivesAll(given, AskedFor(sort))' <=> GivesAll(given, AskedFor(sort))
    BY <1>2 DEF GivesAll
  <1>4. ASSUME cmd = "ToRuleSet", pc' = "done"
        PROVE  /\ GivesAll(ToSet(out'.domain), AskedFor("full"))
               /\ GivesAll(ToSet(out'.suffix), AskedFor("suffix"))
               /\ out'.keyword = << >> /\ out'.regex = << >>
               /\ Len(out'.domain) + Len(out'.suffix) > 0
    <2> DEFINE all == Extracted(regex, FALSE)
    <2>1. all \in Seq(Items) /\ all # << >>
      BY <1>1, <1>4, ExtractedFacts DEF NoRules
    <2>2. out' = itemToRuleset(all)
      BY <1>1, <1>4 DEF Result
    <2>3. \A it \in ToSet(all) : it.type \in {"Domain", "DomainSuffix"}
      BY <1>1, OnlyFullAndSuffix
    <2>4. /\ GivesAll(ValuesOf(ToSet(all), "full"), AskedFor("full"))
          /\ GivesAll(ValuesOf(ToSet(all), "suffix"), AskedFor("suffix"))
      BY <1>1, <1>4, AllExtracted DEF Sorts
    <2> HIDE DEF all
    <2>5. /\ out'.domain = Values(all, "Domain") /\ out'.suffix = Values(all, "DomainSuffix")
          /\ out'.keyword = Values(all, "DomainKeyword") /\ out'.regex = Values(all, "DomainRegex")
      BY <2>2 DEF itemToRuleset
    <2>6. /\ ToSet(out'.domain) = ValuesOf(ToSet(all), "full")
          /\ ToSet(out'.suffix) = ValuesOf(ToSet(all), "suffix")
      BY <2>1, <2>5, ValuesFacts DEF ValuesOf, TypeOf
    <2>7. out'.keyword = << >> /\ out'.regex = << >>
      BY <2>1, <2>3, <2>5, ValuesFacts
    <2>8. ToSet(all) # {}
      BY <2>1, ToSetFacts
    <2>9. /\ Len(out'.domain) \in Nat /\ Len(out'.suffix) \in Nat
          /\ ~ (Len(out'.domain) = 0 /\ Len(out'.suffix) = 0)
      BY <2>1, <2>3, <2>5, <2>8, ValuesFacts
    <2>10. Len(out'.domain) + Len(out'.suffix) > 0
      <3> DEFINE m == Len(out'.domain)
                 n == Len(out'.suffix)
      <3>1. m \in Nat /\ n \in Nat /\ ~ (m = 0 /\ n = 0)
        BY <2>9
      <3> HIDE DEF m, n
      <3>2. m + n > 0
        BY <3>1
      <3> QED BY <3>2 DEF m, n
    <2> QED BY <2>4, <2>6, <2>7, <2>10
  <1>5. ASSUME cmd = "ToQuantumultX", pc' = "done"
        PROVE  LET With(rule) == {it.value : it \in {r \in ToSet(out') : r.rule = rule}}
               IN  /\ GivesAll(With("host"), AskedFor("full"))
                   /\ GivesAll(With("host-suffix"), AskedFor("suffix"))
                   /\ With("host-keyword") = IF V2ray THEN AskedFor("keyword") ELSE {}
    <2> DEFINE With(rule) == {it.value : it \in {r \in ToSet(out') : r.rule = rule}}
               all == Extracted(FALSE, V2ray)
    <2>1. all \in Seq(Items)
      BY <1>1, ExtractedFacts
    <2>2. out' = itemToQxRule(all)
      BY <1>1, <1>5 DEF Result
    <2>3. /\ GivesAll(ValuesOf(ToSet(all), "full"), AskedFor("full"))
          /\ GivesAll(ValuesOf(ToSet(all), "suffix"), AskedFor("suffix"))
          /\ V2ray => GivesAll(ValuesOf(ToSet(all), "keyword"), AskedFor("keyword"))
      BY <1>1, <1>5, AllExtracted DEF Sorts
    <2>4. ~ V2ray => ValuesOf(ToSet(all), "keyword") = {}
      <3>1. ~ V2ray => \A it \in ToSet(all) : it.type \in {"Domain", "DomainSuffix"}
        <4>1. ~ V2ray => all = Extracted(FALSE, FALSE)
          BY <1>1
        <4> QED BY <1>1, <4>1, OnlyFullAndSuffix
      <3> HIDE DEF all
      <3> QED BY <3>1 DEF ValuesOf, TypeOf
    <2> HIDE DEF all
    <2>5. \A sort \in Sorts : With(QxOf(TypeOf(sort))) = ValuesOf(ToSet(all), sort)
      BY <2>1, <2>2, QxFacts
    <2>6. /\ QxOf(TypeOf("full")) = "host" /\ QxOf(TypeOf("suffix")) = "host-suffix"
          /\ QxOf(TypeOf("keyword")) = "host-keyword"
      BY DEF QxOf, TypeOf
    <2> HIDE DEF With
    <2>7. /\ With("host") = ValuesOf(ToSet(all), "full")
          /\ With("host-suffix") = ValuesOf(ToSet(all), "suffix")
          /\ With("host-keyword") = ValuesOf(ToSet(all), "keyword")
      BY <2>5, <2>6 DEF Sorts
    <2>8. With("host-keyword") = IF V2ray THEN AskedFor("keyword") ELSE {}
      BY <2>3, <2>4, <2>7 DEF GivesAll, Partial
    <2>9. GivesAll(With("host"), AskedFor("full")) /\ GivesAll(With("host-suffix"), AskedFor("suffix"))
      BY <2>3, <2>7
    <2> QED BY <2>8, <2>9 DEF With
  <1> QED BY <1>1, <1>2, <1>3, <1>4, <1>5 DEF ConvertExact

LEMMA ConvertEnds == ASSUME IInv, Convert PROVE EndsRight'
  <1>1. /\ TypeOK /\ Reading /\ pc = "read" /\ cmd # "Lookup" /\ pending = {}
        /\ regex \in BOOLEAN
        /\ UNCHANGED <<file, cmd, list, regex, strict>> /\ UNCHANGED input
        /\ (NoRules /\ pc' = "error") \/ (~ NoRules /\ pc' = "done" /\ out' = Result)
    BY ConvertFrame
  <1>2. /\ Partial' <=> Partial
        /\ V2ray' <=> V2ray
        /\ Codes' = Codes /\ ListedCodes' = ListedCodes
        /\ \A sort : AskedFor(sort)' = AskedFor(sort)
    BY <1>1, SameInput
  <1> DEFINE all == Extracted(regex, FALSE)
             asked == AskedFor("full") \cup AskedFor("suffix")
             missing == ~ (ListedCodes \subseteq Codes)
             cut == ListedCodes \cap file.cut # {}
             nothing == cmd = "ToRuleSet" /\ asked = {}
             fails == IF V2ray THEN (strict /\ missing) \/ cut \/ nothing
                      ELSE cmd # "ToGeosite" /\ ((strict /\ (missing \/ cut)) \/ nothing)
  <1>3. EndsRight' <=>
          /\ pc' = "done" /\ cmd # "Lookup" => ~ fails
          /\ pc' = "error" => cmd # "Lookup" /\ (fails \/ (Partial /\ cmd = "ToRuleSet"))
    BY <1>1, <1>2 DEF EndsRight
  <1>4. all \in Seq(Items) /\ (all = << >> <=> ToSet(all) = {})
    BY <1>1, ExtractedFacts, ToSetFacts
  <1>5. CASE pc' = "error"
    <2>1. cmd = "ToRuleSet" /\ all = << >>
      BY <1>1, <1>5 DEF NoRules
    <2>2. \A sort : ValuesOf(ToSet(all), sort) = {}
      BY <1>4, <2>1 DEF ValuesOf
    <2>3. /\ GivesAll(ValuesOf(ToSet(all), "full"), AskedFor("full"))
          /\ GivesAll(ValuesOf(ToSet(all), "suffix"), AskedFor("suffix"))
      BY <1>1, <2>1, AllExtracted DEF Sorts
    <2>4. Partial \/ asked = {}
      <3> HIDE DEF all
      <3> QED BY <2>2, <2>3 DEF GivesAll
    <2> HIDE DEF asked, missing, cut
    <2> QED BY <1>1, <1>3, <1>5, <2>1, <2>4
  <1>6. CASE pc' = "done"
    <2>1. ~ nothing
      <3> SUFFICES ASSUME cmd = "ToRuleSet" PROVE asked # {}
        OBVIOUS
      <3>1. ToSet(all) # {}
        BY <1>1, <1>4, <1>6 DEF NoRules
      <3>2. {it.value : it \in ToSet(all)} =
              ValuesOf(ToSet(all), "full") \cup ValuesOf(ToSet(all), "suffix")
        BY <1>1, OnlyFullAndSuffix
      <3>3. /\ GivesAll(ValuesOf(ToSet(all), "full"), AskedFor("full"))
            /\ GivesAll(ValuesOf(ToSet(all), "suffix"), AskedFor("suffix"))
        BY <1>1, AllExtracted DEF Sorts
      <3> HIDE DEF all
      <3> QED BY <3>1, <3>2, <3>3 DEF GivesAll
    <2>2. V2ray \/ cmd # "ToGeosite" => Visited = ListedCodes
      BY <1>1 DEF Visited, ToRead
    <2>3. V2ray => ~ (strict /\ missing) /\ ~ cut
      BY <1>1, <2>2 DEF Reading
    <2>4. ~ V2ray /\ cmd # "ToGeosite" /\ strict => ~ missing /\ ~ cut
      BY <1>1, <2>2 DEF Reading
    <2> HIDE DEF nothing, missing, cut
    <2> QED BY <1>1, <1>3, <1>6, <2>1, <2>3, <2>4
  <1> QED BY <1>1, <1>5, <1>6

-----------------------------------------------------------------------------
(* The database in order: the hollow entries, then the others. *)
LEMMA HollowRunFacts ==
    ASSUME NEW n \in Nat
    PROVE  /\ HollowRun(n) \in Seq(Outs) /\ Len(HollowRun(n)) = n
           /\ \A i \in 1 .. n : HollowRun(n)[i] = Hollow
  <1>1. Hollow \in Outs
    <2>1. << >> \in Seq(V2Domains)
      OBVIOUS
    <2> QED BY <2>1, OrderFacts DEF Hollow, Outs
  <1>2. HollowRun(n) \in [1 .. n -> Outs]
    BY <1>1 DEF HollowRun
  <1> QED BY <1>2 DEF HollowRun

(* What the code order begins with, and what it does not have again. *)
LEMMA OrderRest ==
    /\ Len(CodeOrder) >= 1
    /\ \A k \in 2 .. Len(CodeOrder) : CodeOrder[k] # CodeOrder[1]
  <1> DEFINE N == Len(CodeOrder)
  <1>1. N \in Nat /\ 1 \in 1 .. N /\ \A i, j \in 1 .. N : CodeOrder[i] = CodeOrder[j] => i = j
    BY OrderFacts
  <1> HIDE DEF N
  <1>2. \A k \in 2 .. N : k \in 1 .. N /\ k # 1
    BY <1>1
  <1>3. N >= 1 /\ \A k \in 2 .. N : CodeOrder[k] # CodeOrder[1]
    BY <1>1, <1>2
  <1> QED BY <1>3 DEF N

LEMMA WrittenInOrder ==
    ASSUME TypeOK, Writing, pc = "read", cmd = "ToGeosite", Whole
    PROVE  LET W     == Visited \cap Codes
               H     == Cardinality(Visited \ Codes)
               found == Sifted(CodeOrder, W)
           IN  /\ found \in Seq(W) /\ H \in Nat
               /\ Sorted(Written) =
                    Continued(HollowRun(H), [d \in W |-> Geosite(Entry(d))], found)
               /\ \A d \in W : Geosite(Entry(d)) \in Outs
  <1> DEFINE W == Visited \cap Codes
             H == Cardinality(Visited \ Codes)
             F == [d \in W |-> Geosite(Entry(d))]
             seqs == [k \in 1 .. Len(CodeOrder) |-> ToWrite(CodeOrder[k])]
             first == HollowRun(H)
  <1>1. file \in Files /\ list \in Lists
    BY InputTypes
  <1>2. H \in Nat
    BY VisitedFinite, FS_Subset, FS_CardinalityType
  <1>3. \A d \in W : Geosite(Entry(d)) \in Outs
    <2> SUFFICES ASSUME NEW d \in W PROVE Geosite(Entry(d)) \in Outs
      OBVIOUS
    <2>1. d \in ListedCodes /\ d \in Codes
      BY VisitedFinite
    <2> QED BY <1>1, <2>1, EntryType, GeositeType
  <1>4. "" \notin W
    BY <1>1, KindFacts
  <1>5. first \in Seq(Outs)
    BY <1>2, HollowRunFacts
  <1>6. ToWrite("") = first /\ \A c : c # "" => ToWrite(c) = IF c \in W THEN <<F[c]>> ELSE << >>
    BY DEF ToWrite, HollowRun
  <1>7. \A k \in 1 .. Len(CodeOrder) : CodeOrder[k] \in Names
        /\ WithCode(Written, CodeOrder[k]) = ToWrite(CodeOrder[k])
    <2>1. \A k \in 1 .. Len(CodeOrder) : CodeOrder[k] \in Names
      BY OrderFacts, MemberFacts
    <2> QED BY <2>1 DEF Writing
  <1>8. Sorted(Written) = Flat(seqs)
    <2>1. Sorted(Written) = Flat([k \in DOMAIN CodeOrder |-> WithCode(Written, CodeOrder[k])])
      BY DEF Sorted, WithCode
    <2>2. [k \in DOMAIN CodeOrder |-> WithCode(Written, CodeOrder[k])] = seqs
      BY <1>7, OrderFacts
    <2> QED BY <2>1, <2>2
  <1>9. F \in [W -> Outs]
    BY <1>3
  <1> HIDE DEF W, H, F, first
  <1>10. \A c : ToWrite(c) \in Seq(Outs)
    <2> SUFFICES ASSUME NEW c PROVE ToWrite(c) \in Seq(Outs)
      OBVIOUS
    <2>1. CASE c = ""
      BY <1>5, <1>6, <2>1
    <2>2. CASE c # "" /\ c \in W
      <3>1. F[c] \in Outs /\ ToWrite(c) = <<F[c]>>
        BY <1>6, <1>9, <2>2
      <3> QED BY <3>1, NoneAndOne
    <2>3. CASE c # "" /\ c \notin W
      <3>1. ToWrite(c) = << >>
        BY <1>6, <2>3
      <3> QED BY <3>1
    <2> QED BY <2>1, <2>2, <2>3
  <1>11. /\ seqs \in Seq(Seq(Outs)) /\ Len(seqs) = Len(CodeOrder)
         /\ \A k \in 1 .. Len(CodeOrder) : seqs[k] = ToWrite(CodeOrder[k])
    <2> DEFINE N == Len(CodeOrder)
    <2>1. N \in Nat
      BY OrderFacts
    <2>2. seqs \in [1 .. N -> Seq(Outs)]
      BY <1>10
    <2>3. \A k \in 1 .. N : seqs[k] = ToWrite(CodeOrder[k])
      OBVIOUS
    <2> HIDE DEF seqs, N
    <2>4. seqs \in Seq(Seq(Outs)) /\ Len(seqs) = N
      BY <2>1, <2>2
    <2> QED BY <2>3, <2>4 DEF N
  <1> HIDE DEF seqs
  <1>12. /\ CodeOrder[1] \notin W /\ seqs[1] = first
         /\ \A k \in 2 .. Len(CodeOrder) :
              seqs[k] = IF CodeOrder[k] \in W THEN <<F[CodeOrder[k]]>> ELSE << >>
    <2>1. CodeOrder[1] = "" /\ 1 \in 1 .. Len(CodeOrder)
      BY OrderFacts
    <2>2. CodeOrder[1] \notin W /\ seqs[1] = first
      BY <1>4, <1>6, <1>11, <2>1
    <2>3. ASSUME NEW k \in 2 .. Len(CodeOrder)
          PROVE  seqs[k] = IF CodeOrder[k] \in W THEN <<F[CodeOrder[k]]>> ELSE << >>
      <3>1. CodeOrder[k] # ""
        BY <2>1, OrderRest
      <3>2. k \in 1 .. Len(CodeOrder)
        OBVIOUS
      <3> QED BY <1>6, <1>11, <3>1, <3>2
    <2> QED BY <2>2, <2>3
  <1>13. /\ Sifted(CodeOrder, W) \in Seq(W)
         /\ Flat(seqs) = Continued(first, F, Sifted(CodeOrder, W))
    <2>1. CodeOrder \in Seq(Names) /\ Len(CodeOrder) >= 1
      BY OrderFacts, OrderRest
    <2>2. CodeOrder[1] \notin W /\ seqs[1] = first
      BY <1>12
    <2>3. \A k \in 2 .. Len(CodeOrder) :
            seqs[k] = IF CodeOrder[k] \in W THEN <<F[CodeOrder[k]]>> ELSE << >>
      BY <1>12
    <2>4. seqs \in Seq(Seq(Outs)) /\ Len(seqs) = Len(CodeOrder)
      BY <1>11
    <2>5. IsMappedRest(seqs, CodeOrder, W, F)
      BY <2>1, <2>2, <2>3, <2>4 DEF IsMappedRest
    <2> DEFINE C == Names
               V == Outs
               s == CodeOrder
    <2>6. s \in Seq(C) /\ F \in [W -> V] /\ first \in Seq(V) /\ seqs \in Seq(Seq(V))
      BY <1>5, <1>9, <2>1, <2>4
    <2>7. IsMappedRest(seqs, s, W, F) /\ seqs[1] = first
      BY <2>2, <2>5
    <2> HIDE DEF C, V, s
    <2>8. /\ Sifted(s, W) \in Seq(W)
          /\ Flat(seqs) = Continued(first, F, Sifted(s, W))
      BY <2>6, <2>7, FlatOfSifted
    <2> QED BY <2>8 DEF s
  <1>14. /\ Sifted(CodeOrder, W) \in Seq(W) /\ H \in Nat
         /\ Sorted(Written) = Continued(HollowRun(H), F, Sifted(CodeOrder, W))
    BY <1>2, <1>8, <1>13 DEF first
  <1> QED BY <1>3, <1>14, Zenon DEF W, H, F

(* What has been visited when the last code is. *)
LEMMA AllVisited ==
    ASSUME TypeOK, cmd = "ToGeosite", pending = {}
    PROVE  /\ Visited \cap Codes = ListedCodes \cap Codes
           /\ Cardinality(Visited \ Codes) = IF V2ray THEN Cardinality(ListedCodes \ Codes) ELSE 0
  <1>1. CASE V2ray
    BY <1>1 DEF Visited, ToRead
  <1>2. CASE ~ V2ray
    <2>1. Visited = ListedCodes \cap Codes
      BY <1>2 DEF Visited, ToRead
    <2>2. Visited \ Codes = {}
      BY <2>1
    <2> QED BY <1>2, <2>1, <2>2, FS_EmptySet
  <1> QED BY <1>1, <1>2

(* A domain in the written database is the one that was read. *)
Alike(d, e, v2ray) ==
    IF v2ray THEN d = e
    ELSE d.value = ValueOf(e) /\ v2ItemToSing(d).type = e.type /\ d.attrs = {}

LEMMA WrittenSame ==
    ASSUME file \in Files, list \in Lists, NEW c \in Codes
    PROVE  /\ Geosite(Entry(c)).code = c
           /\ DOMAIN Geosite(Entry(c)).domains = DOMAIN file.sites[c]
           /\ \A i \in DOMAIN Geosite(Entry(c)).domains :
                Alike(Geosite(Entry(c)).domains[i], file.sites[c][i], V2ray)
  <1> DEFINE ds == file.sites[c]
             vs == V2DomainsOf(ds)
             site == Entry(c)
  <1>1. ds \in Seq(Domains[file.kind])
    BY KindFacts
  <1>2. site = [code |-> c, domains |-> ds]
    BY DEF Entry
  <1> HIDE DEF ds, site
  <1>3. Geosite(site) = [code |-> c, domains |-> vs]
    BY <1>1, <1>2, GeositeFacts
  <1>4. Geosite(site).code = c /\ Geosite(site).domains = vs
    <2> DEFINE written == Geosite(site)
    <2>1. written = [code |-> c, domains |-> vs]
      BY <1>3
    <2> HIDE DEF written
    <2>2. written.code = c /\ written.domains = vs
      BY <2>1, SiteFields
    <2> QED BY <2>2 DEF written
  <1>5. DOMAIN ds = 1 .. Len(ds) /\ \A i \in 1 .. Len(ds) : ds[i] \in Domains[file.kind]
    BY <1>1, MemberFacts
  <1>6. DOMAIN vs = 1 .. Len(ds) /\ \A i \in 1 .. Len(ds) : vs[i] = V2Domain(ds[i])
    BY DEF V2DomainsOf
  <1>7. \A i \in 1 .. Len(ds) : Alike(vs[i], ds[i], V2ray)
    BY <1>5, <1>6, V2DomainFacts DEF Alike
  <1> HIDE DEF vs
  <1>8. /\ Geosite(site).code = c
        /\ DOMAIN Geosite(site).domains = DOMAIN ds
        /\ \A i \in DOMAIN Geosite(site).domains :
             Alike(Geosite(site).domains[i], ds[i], V2ray)
    BY <1>4, <1>5, <1>6, <1>7
  <1> QED BY <1>8 DEF site, ds

(* What ToGeosite must give, told of a state and of the next one. *)
Gives(entries, hollows, found, all, v2ray) ==
    /\ Len(entries) = hollows + Len(found)
    /\ \A k \in 1 .. hollows : entries[k] = Hollow
    /\ \A k \in DOMAIN found :
         /\ entries[hollows + k].code = found[k]
         /\ DOMAIN entries[hollows + k].domains = DOMAIN all[found[k]]
         /\ \A i \in DOMAIN entries[hollows + k].domains :
              Alike(entries[hollows + k].domains[i], all[found[k]][i], v2ray)

LEMMA ToGeositeMeans ==
    /\ ToGeositeExact <=>
         (cmd = "ToGeosite" /\ pc = "done" /\ file.cut \cap ListedCodes = {} =>
            Gives(out, IF V2ray THEN Cardinality(ListedCodes \ Codes) ELSE 0,
                  Sifted(CodeOrder, ListedCodes \cap Codes), file.sites, V2ray))
    /\ ToGeositeExact' <=>
         (cmd' = "ToGeosite" /\ pc' = "done" /\ file'.cut \cap ListedCodes' = {} =>
            Gives(out', IF V2ray' THEN Cardinality(ListedCodes' \ Codes') ELSE 0,
                  Sifted(CodeOrder, ListedCodes' \cap Codes'), file'.sites, V2ray'))
  BY DEF ToGeositeExact, Gives, Alike

LEMMA ConvertWrites == ASSUME IInv, Convert PROVE ToGeositeExact'
  <1>1. /\ TypeOK /\ Writing /\ pc = "read" /\ pending = {}
        /\ UNCHANGED <<file, cmd, list, regex, strict>> /\ UNCHANGED input
        /\ (NoRules /\ pc' = "error") \/ (~ NoRules /\ pc' = "done" /\ out' = Result)
    BY ConvertFrame
  <1>2. (V2ray' <=> V2ray) /\ Codes' = Codes /\ ListedCodes' = ListedCodes
    BY <1>1, SameInput
  <1> DEFINE hollows == IF V2ray THEN Cardinality(ListedCodes \ Codes) ELSE 0
             W == ListedCodes \cap Codes
             found == Sifted(CodeOrder, W)
             F == [d \in W |-> Geosite(Entry(d))]
             Wrote(s) ==
               /\ Len(s) = hollows + Len(found)
               /\ \A k \in 1 .. hollows : s[k] = Hollow
               /\ \A k \in DOMAIN found :
                    /\ s[hollows + k].code = found[k]
                    /\ DOMAIN s[hollows + k].domains = DOMAIN file.sites[found[k]]
                    /\ \A i \in DOMAIN s[hollows + k].domains :
                         Alike(s[hollows + k].domains[i], file.sites[found[k]][i], V2ray)
  <1>3. ToGeositeExact' <=> (cmd = "ToGeosite" /\ pc' = "done" /\ Whole => Wrote(out'))
    <2>1. Wrote(out') <=> Gives(out', hollows, found, file.sites, V2ray)
      BY DEF Gives
    <2> HIDE DEF Wrote
    <2> QED BY <1>1, <1>2, <2>1, ToGeositeMeans DEF Whole
  <1> SUFFICES ASSUME cmd = "ToGeosite", Whole, out' = Result
               PROVE  Wrote(out')
    BY <1>1, <1>3
  <1>4. out' = Sorted(Written)
    BY DEF Result, Written
  <1>5. Visited \cap Codes = W /\ Cardinality(Visited \ Codes) = hollows
    BY <1>1, AllVisited
  <1>6. /\ found \in Seq(W) /\ hollows \in Nat
        /\ Sorted(Written) = Continued(HollowRun(hollows), F, found)
        /\ \A d \in W : Geosite(Entry(d)) \in Outs
    BY <1>1, <1>5, WrittenInOrder
  <1>7. F \in [W -> Outs] /\ \A d \in W : F[d] = Geosite(Entry(d))
    BY <1>6
  <1>8. \A d \in W : /\ F[d].code = d
                     /\ DOMAIN F[d].domains = DOMAIN file.sites[d]
                     /\ \A i \in DOMAIN F[d].domains :
                          Alike(F[d].domains[i], file.sites[d][i], V2ray)
    BY <1>1, <1>7, InputTypes, WrittenSame
  <1> HIDE DEF hollows, W, found, F
  <1> DEFINE first == HollowRun(hollows)
  <1>9. first \in Seq(Outs) /\ Len(first) = hollows /\ \A k \in 1 .. hollows : first[k] = Hollow
    BY <1>6, HollowRunFacts
  <1> HIDE DEF first
  <1>10. out' = Continued(first, F, found)
    BY <1>4, <1>6 DEF first
  <1> DEFINE V == Outs
             s == Continued(first, F, found)
  <1>11. F \in [W -> V] /\ first \in Seq(V) /\ found \in Seq(W)
    BY <1>6, <1>7, <1>9
  <1> HIDE DEF V
  <1>12. /\ Len(s) = Len(first) + Len(found)
         /\ \A k \in 1 .. Len(first) : s[k] = first[k]
         /\ \A j \in 1 .. Len(found) : s[Len(first) + j] = F[found[j]]
    BY <1>11, ContinuedFacts
  <1>13. DOMAIN found = 1 .. Len(found) /\ \A j \in 1 .. Len(found) : found[j] \in W
    BY <1>6, MemberFacts
  <1> HIDE DEF s
  <1>14. Wrote(s)
    BY <1>8, <1>9, <1>12, <1>13
  <1> QED BY <1>10, <1>14 DEF s

LEMMA ConvertInv == IInv /\ Convert => IInv'
  BY ConvertFrame, ConvertExtract, ConvertRules, ConvertEnds, ConvertWrites DEF IInv

-----------------------------------------------------------------------------
(* At first nothing is read. *)
LEMMA InitInv == Init => IInv
  <1> SUFFICES ASSUME Init PROVE IInv
    OBVIOUS
  <1>1. /\ file \in Files /\ cmd \in Commands /\ list \in Lists
        /\ regex \in BOOLEAN /\ strict \in BOOLEAN
        /\ pending = ToRead /\ broken = FALSE /\ sites = << >> /\ matched = << >> /\ pc = "read"
    BY DEF Init
  <1>2. TypeOK
    <2>1. /\ << >> \in Seq([code : ListedCodes \cup {""}, domains : Seq(Domains[file.kind])])
          /\ << >> \in Seq([code : Codes, attr : Attrs \cup {""}])
      OBVIOUS
    <2>2. pending \subseteq ToRead /\ (broken => file.cut \cap ToRead # {})
      BY <1>1
    <2>3. input \in Files \X Commands \X Lists \X BOOLEAN \X BOOLEAN
      BY <1>1 DEF input
    <2> QED BY <1>1, <2>1, <2>2, <2>3 DEF TypeOK
  <1>3. Visited = {}
    BY <1>1 DEF Visited
  <1>4. ToSet(sites) = {} /\ ToSet(matched) = {} /\ Len(matched) = 0
    BY <1>1 DEF ToSet
  <1>5. Reading
    BY <1>3, <1>4 DEF Reading
  <1>6. Looking
    BY <1>3, <1>4, FS_EmptySet DEF Looking
  <1>7. Writing
    <2>1. Written \in Seq(Outs) /\ Len(Written) = 0
      BY <1>1, <1>2, WrittenFacts
    <2>2. \A c : WithCode(Written, c) = << >>
      <3> SUFFICES ASSUME NEW c PROVE WithCode(Written, c) = << >>
        OBVIOUS
      <3> DEFINE S == {site \in ToSet(Written) : site.code = c}
      <3>1. WithCode(Written, c) = Sifted(Written, S)
        BY DEF WithCode
      <3> DEFINE V == Outs
                 w == Written
      <3>2. w \in Seq(V) /\ Len(w) = 0
        BY <2>1
      <3> HIDE DEF V, w, S
      <3>3. Sifted(w, S) = SiftedUpTo(w, S)[Len(w)] /\ SiftedUpTo(w, S)[0] = << >>
        BY <3>2, SiftedFunction
      <3> QED BY <3>1, <3>2, <3>3 DEF w
    <2>3. \A c : ToWrite(c) = << >>
      <3>1. Visited \cap Codes = {} /\ Cardinality(Visited \ Codes) = 0
        BY <1>3, FS_EmptySet
      <3>2. [i \in 1 .. 0 |-> Hollow] = << >>
        OBVIOUS
      <3> QED BY <3>1, <3>2 DEF ToWrite
    <2> QED BY <2>2, <2>3 DEF Writing
  <1>8. ExtractExact /\ ConvertExact /\ ToGeositeExact /\ LookupExact /\ EndsRight
    BY <1>1 DEF ExtractExact, ConvertExact, ToGeositeExact, LookupExact, EndsRight
  <1> QED BY <1>2, <1>5, <1>6, <1>7, <1>8 DEF IInv

LEMMA StutterInv == IInv /\ UNCHANGED vars => IInv'
  <1> SUFFICES ASSUME IInv, UNCHANGED vars PROVE IInv'
    OBVIOUS
  <1>1. UNCHANGED <<input, pending, broken, sites, matched, out, pc>>
    BY DEF vars
  <1>2. /\ UNCHANGED <<file, cmd, list, regex, strict>>
        /\ Codes' = Codes /\ ListedCodes' = ListedCodes /\ ToRead' = ToRead
        /\ (V2ray' <=> V2ray) /\ (Partial' <=> Partial) /\ (Whole' <=> Whole)
        /\ \A c : Entry(c)' = Entry(c)
        /\ \A sort : AskedFor(sort)' = AskedFor(sort)
        /\ \A site : Geosite(site)' = Geosite(site)
        /\ \A d : (Answers(d)' <=> Answers(d)) /\ (Spoils(d)' <=> Spoils(d))
        /\ \A c, names : Named(c, names)' <=> Named(c, names)
    BY <1>1, SameInput
  <1>3. TypeOK'
    BY <1>1, <1>2 DEF IInv, TypeOK
  <1>4. Visited' = Visited /\ Written' = Written
    BY <1>1, <1>2 DEF Visited, Written
  <1>5. Reading'
    BY <1>1, <1>2, <1>4 DEF IInv, Reading
  <1>6. Writing'
    BY <1>1, <1>2, <1>4 DEF IInv, Writing, ToWrite
  <1>7. Looking'
    BY <1>1, <1>2, <1>4 DEF IInv, Looking
  <1>8. ExtractExact'
    BY <1>1, <1>2 DEF IInv, ExtractExact, GivesAll
  <1>9. ConvertExact'
    <2>1. \A given, sort : GivesAll(given, AskedFor(sort))' <=> GivesAll(given, AskedFor(sort))
      BY <1>2 DEF GivesAll
    <2> QED BY <1>1, <1>2, <2>1 DEF IInv, ConvertExact
  <1>10. ToGeositeExact'
    <2>1. ToGeositeExact
      BY DEF IInv
    <2>2. V2ray' = V2ray
      BY <1>2 DEF V2ray
    <2> QED BY <1>1, <1>2, <2>1, <2>2, ToGeositeMeans
  <1>11. LookupExact'
    BY <1>1, <1>2 DEF IInv, LookupExact
  <1>12. EndsRight'
    BY <1>1, <1>2 DEF IInv, EndsRight
  <1> QED BY <1>3, <1>5, <1>6, <1>7, <1>8, <1>9, <1>10, <1>11, <1>12 DEF IInv

(* The invariant of the geosite commands. *)
THEOREM Invariance == Spec => []IInv
  <1>1. Init => IInv
    BY InitInv
  <1>2. IInv /\ [Next]_vars => IInv'
    BY ReadSiteInv, ReadSingInv, ReadSingForGeositeInv, LookupSiteInv, ConvertInv,
       EndLookupInv, StutterInv
       DEF Next
  <1> QED BY <1>1, <1>2, PTL DEF Spec

(* The commands keep their types, a read fails for good only after an      *)
(* entry that is cut, and a call that fails has no list. *)
THEOREM TypeCorrect == Spec => []TypeOK
  <1>1. IInv => TypeOK
    BY DEF IInv
  <1> QED BY <1>1, Invariance, PTL

(* Extract gives the full and suffix domains of the wanted codes, in       *)
(* whatever order the codes are read, and nothing else. *)
THEOREM ExtractIsExact == Spec => []ExtractExact
  <1>1. IInv => ExtractExact
    BY DEF IInv
  <1> QED BY <1>1, Invariance, PTL

(* ToRuleSet and ToQuantumultX give each wanted domain by its type. *)
THEOREM ConvertIsExact == Spec => []ConvertExact
  <1>1. IInv => ConvertExact
    BY DEF IInv
  <1> QED BY <1>1, Invariance, PTL

(* ToGeosite writes the hollow entries and then each wanted entry once, in *)
(* the order of the codes, whatever the order of reading. *)
THEOREM ToGeositeIsExact == Spec => []ToGeositeExact
  <1>1. IInv => ToGeositeExact
    BY DEF IInv
  <1> QED BY <1>1, Invariance, PTL

(* Lookup names what matches, each name once, and misses nothing that no   *)
(* bad regular expression hides. *)
THEOREM LookupIsExact == Spec => []LookupExact
  <1>1. IInv => LookupExact
    BY DEF IInv
  <1> QED BY <1>1, Invariance, PTL

(* A command fails for one of its reasons, and never succeeds with one. *)
THEOREM EndsForAReason == Spec => []EndsRight
  <1>1. IInv => EndsRight
    BY DEF IInv
  <1> QED BY <1>1, Invariance, PTL
=============================================================================
