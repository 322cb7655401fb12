---------------------------- MODULE GeositeExtract ----------------------------
(***************************************************************************)
(* The geosite commands (src/geosite/georeader.go, georeader-lowmem.go,    *)
(* which take the same steps): Extract, ToRuleSet, ToQuantumultX,          *)
(* ToGeosite and Lookup, on a v2ray and on a sing-box database. Go maps    *)
(* are walked in no order, so codes are read in any.                       *)
(*                                                                         *)
(* Of the readers only what CodeIndex and SingReader establish is used. A  *)
(* v2ray entry that the file ends in cannot be read, all others can. Once  *)
(* the read of a sing-box code has failed, no later read of a code with    *)
(* rules succeeds. A code stands for its spelling in either case.          *)
(***************************************************************************)
EXTENDS Sifting, SequencesExt

CONSTANTS
    Words,      \* the values of domains
    Attrs,      \* their attributes
    Files,      \* [kind, sites : code -> its domains, cut : codes that are cut]
    Lists,      \* the -list flags: sequences of [code, attrs]
    Undotted,   \* from values that begin with a dot to these without it
    Hits,       \* the v2ray patterns, [type, value], that match the looked up domain
    BadRegexes, \* the values regexp.Compile refuses
    Batch,      \* DomainMatchBatch
    CodeOrder   \* all codes as strings compare, "" first

(* A domain of each kind; protobuf enums are open, so that a v2ray type    *)
(* may be one the program does not know. Rules are sing-box ones, but keep *)
(* the attributes of the domains they are made of.                         *)
ItemTypes == {"Domain", "DomainSuffix", "DomainKeyword", "DomainRegex"}

V2Domains == [type  : {"Full", "Regex", "Domain", "Plain", "Unknown"},
              value : Words, attrs : SUBSET Attrs]

Items == [type : ItemTypes, value : Words, attrs : SUBSET Attrs]

Domains == [v2ray |-> V2Domains, sing |-> {it \in Items : it.attrs = {}}]

Names == ToSet(CodeOrder)

ASSUME InputsAssumption ==
    /\ Batch \in Nat \ {0}
    /\ IsFiniteSet(Attrs)
    /\ \A value \in DOMAIN Undotted : Undotted[value] \in Words
    /\ CodeOrder \in Seq(Names) /\ IsInjective(CodeOrder)
    /\ CodeOrder # << >> /\ CodeOrder[1] = ""
    /\ \A l \in Lists : l \in Seq([code : Names, attrs : SUBSET Attrs])
    /\ \A f \in Files :
         /\ f.kind \in DOMAIN Domains
         /\ DOMAIN f.sites \subseteq Names \ {""}
         /\ DOMAIN f.sites # {}
         /\ \A c \in DOMAIN f.sites : f.sites[c] \in Seq(Domains[f.kind])
         /\ f.cut \subseteq DOMAIN f.sites
         /\ f.kind = "sing" => \A c \in f.cut : f.sites[c] # << >>

Commands == {"Extract", "ToRuleSet", "ToQuantumultX", "ToGeosite", "Lookup"}

VARIABLES
    file, cmd, list, regex, strict,   \* the file and the command
    pending,    \* the codes still to be read
    broken,     \* has a read of a sing-box database failed?
    sites,      \* what was read: [code, domains]
    matched,    \* matchedList: names, [code, attr], attr "" for the code
    out,        \* what the command gives its caller
    pc

input == <<file, cmd, list, regex, strict>>

vars == <<input, pending, broken, sites, matched, out, pc>>

Codes == DOMAIN file.sites

V2ray == file.kind = "v2ray"

(* The map of the wanted codes: of a code listed twice the last one counts,*)
(* in the slip the first one.                                              *)
ListedCodes == {list[i].code : i \in DOMAIN list}

FirstListed(c) == CHOOSE i \in DOMAIN list :
    list[i].code = c /\ \A j \in DOMAIN list : list[j].code = c => i <= j

LastListed(c) == CHOOSE i \in DOMAIN list :
    list[i].code = c /\ \A j \in DOMAIN list : list[j].code = c => j <= i

WantedAttrs(c) == list[LastListed(c)].attrs

-----------------------------------------------------------------------------
(* Rules. *)
v2ItemToSing(d) ==
    LET type == [Full |-> "Domain", Regex |-> "DomainRegex", Domain |-> "DomainSuffix",
                 Plain |-> "DomainKeyword", Unknown |-> "Domain"]
    IN  [d EXCEPT !.type = type[@]]

singItemToV2(it) ==
    LET type == [Domain |-> "Full", DomainRegex |-> "Regex", DomainSuffix |-> "Domain",
                 DomainKeyword |-> "Plain"]
    IN  [type |-> type[it.type], value |-> it.value, attrs |-> {}]

(* extractSingGeoSite removes the dot of a suffix; the slip keeps it.      *)
KeepDot(it) == it

RemoveDot(it) ==
    IF it.type = "DomainSuffix" /\ it.value \in DOMAIN Undotted
    THEN [it EXCEPT !.value = Undotted[@]] ELSE it

ItemOf(d) == IF V2ray THEN v2ItemToSing(d) ELSE RemoveDot(d)

(* The switches of extractV2GeoSite and extractSingGeoSite: a regular      *)
(* expression falls through into the keyword case.                         *)
TypeAllowed(type, regexes, keywords) ==
    /\ type = "DomainRegex" => regexes
    /\ type \in {"DomainRegex", "DomainKeyword"} => keywords

(* A rule of a v2ray database must have all the attributes that are asked  *)
(* for; the slip is content with one.                                      *)
AnyAttr(attrs, wanted) == wanted = {} \/ attrs \cap wanted # {}

AttrsMatch(attrs, wanted) == wanted \subseteq attrs

ItemsOf(site, regexes, keywords) ==
    LET Takes(it) == /\ TypeAllowed(it.type, regexes, keywords)
                     /\ V2ray => AttrsMatch(it.attrs, WantedAttrs(site.code))
        items == [i \in DOMAIN site.domains |-> ItemOf(site.domains[i])]
    IN  Sifted(items, {it \in ToSet(items) : Takes(it)})

Extracted(regexes, keywords) ==
    Flat([n \in DOMAIN sites |-> ItemsOf(sites[n], regexes, keywords)])

Values(items, type) ==
    LET chosen == Sifted(items, {it \in ToSet(items) : it.type = type})
    IN  [i \in DOMAIN chosen |-> chosen[i].value]

itemToRuleset(items) ==
    [domain  |-> Values(items, "Domain"),       suffix |-> Values(items, "DomainSuffix"),
     keyword |-> Values(items, "DomainKeyword"), regex |-> Values(items, "DomainRegex")]

(* A regular expression has no QuantumultX rule. *)
itemToQxRule(items) ==
    LET rule == [Domain |-> "host", DomainSuffix |-> "host-suffix",
                 DomainKeyword |-> "host-keyword"]
        chosen == Sifted(items, {it \in ToSet(items) : it.type \in DOMAIN rule})
    IN  [i \in DOMAIN chosen |-> [rule |-> rule[chosen[i].type], value |-> chosen[i].value]]

(* sort.SliceStable by code. *)
Sorted(entries) ==
    LET With(c) == Sifted(entries, {site \in ToSet(entries) : site.code = c})
    IN  Flat([k \in DOMAIN CodeOrder |-> With(CodeOrder[k])])

-----------------------------------------------------------------------------
(* matchSiteAgainstList: a group of matchers for each batch of the domains.*)
(* A domain that makes no matcher ends it, with an error; a batch before   *)
(* it may have matched already.                                            *)
MakesNoMatcher(d) ==
    d.type = "Unknown" \/ (d.type = "Regex" /\ d.value \in BadRegexes)

IsHit(d) == [type |-> d.type, value |-> d.value] \in Hits

Batches(n) == (n + Batch - 1) \div Batch

MatchesSite(domains) ==
    LET InBatches(k) == {domains[i] : i \in {j \in DOMAIN domains : j <= k * Batch}}
    IN  \E k \in 1 .. Batches(Len(domains)) :
            /\ \A d \in InBatches(k) : ~ MakesNoMatcher(d)
            /\ \E d \in InBatches(k) : IsHit(d)

(* The names Lookup adds for a code: the code, and code@attr for each      *)
(* group of its domains that have the attribute and match.                 *)
Group(domains, attr) == Sifted(domains, {d \in ToSet(domains) : attr \in d.attrs})

AttrsOf(domains) == UNION {d.attrs : d \in ToSet(domains)}

MatchedAttrs(domains) ==
    {attr \in AttrsOf(domains) : MatchesSite(Group(domains, attr))}

(* The slip gives every attribute of a code that matches. *)
EveryAttr(c, domains) ==
    IF MatchesSite(domains)
    THEN {[code |-> c, attr |-> attr] : attr \in AttrsOf(domains) \cup {""}}
    ELSE {}

MatchedNames(c, domains) ==
    IF MatchesSite(domains)
    THEN {[code |-> c, attr |-> attr] : attr \in MatchedAttrs(domains) \cup {""}}
    ELSE {}

-----------------------------------------------------------------------------
(* A v2ray command reads the codes the user wants; on a sing-box database  *)
(* ToGeosite reads the codes of the database that the user wants. Lookup   *)
(* reads all codes.                                                        *)
ToRead ==
    IF cmd = "Lookup" THEN Codes
    ELSE IF cmd = "ToGeosite" /\ ~ V2ray THEN ListedCodes \cap Codes
    ELSE ListedCodes

Init ==
    /\ file \in Files
    /\ cmd \in Commands
    /\ list \in Lists
    /\ regex \in BOOLEAN
    /\ strict \in BOOLEAN
    /\ pending = ToRead
    /\ broken = FALSE
    /\ sites = << >>
    /\ matched = << >>
    /\ out = << >>
    /\ pc = "read"

Reads(c) == pc = "read" /\ c \in pending /\ pending' = pending \ {c}

Got(site) == sites' = Append(sites, site) /\ pc' = pc

Skip == UNCHANGED <<sites, pc>>

(* A call that fails returns no list; the slip what it has of it. *)
FailWithList == pc' = "error" /\ UNCHANGED sites

Fail == sites' = << >> /\ pc' = "error"

(* What a strict reader does not let pass; the slip lets everything pass.  *)
NeverStrict == FALSE

MustExist == strict

(* ReadSites, one code. What is not in the index is read as an entry of no *)
(* bytes, unless the mode is strict.                                       *)
Hollow == [code |-> "", domains |-> << >>]

ReadSite(c) ==
    /\ V2ray /\ cmd # "Lookup"
    /\ Reads(c)
    /\ \/ c \in Codes \ file.cut /\ Got([code |-> c, domains |-> file.sites[c]])
       \/ c \in file.cut /\ Fail
       \/ c \notin Codes /\ MustExist /\ Fail
       \/ c \notin Codes /\ ~ MustExist /\ Got(Hollow)
    /\ UNCHANGED <<input, broken, matched, out>>

(* Does GeoSiteReader.Read read the code? *)
Readable(c) == c \in Codes \ file.cut /\ (broken => file.sites[c] = << >>)

Breaks(c) == broken' = (broken \/ (c \in Codes /\ ~ Readable(c)))

(* extractSingGeoSite, one code of one call. *)
ReadSing(c) ==
    /\ ~ V2ray /\ cmd \notin {"Lookup", "ToGeosite"}
    /\ Reads(c)
    /\ Breaks(c)
    /\ \/ Readable(c) /\ Got([code |-> c, domains |-> file.sites[c]])
       \/ ~ Readable(c) /\ MustExist /\ Fail
       \/ ~ Readable(c) /\ ~ MustExist /\ Skip
    /\ UNCHANGED <<input, matched, out>>

(* ToGeosite on a sing-box database: a call for each code. One that fails  *)
(* is skipped in strict mode, and otherwise gives an entry without domains.*)
ReadSingForGeosite(c) ==
    /\ ~ V2ray /\ cmd = "ToGeosite"
    /\ Reads(c)
    /\ Breaks(c)
    /\ \/ Readable(c) /\ Got([code |-> c, domains |-> file.sites[c]])
       \/ ~ Readable(c) /\ MustExist /\ Skip
       \/ ~ Readable(c) /\ ~ MustExist /\ Got([code |-> c, domains |-> << >>])
    /\ UNCHANGED <<input, matched, out>>

(* Uniq and sort make of Extract's list what is modelled as a set.         *)
(* QuantumultX gets keywords of v2ray databases only.                      *)
Geosite(site) ==
    IF V2ray THEN site
    ELSE LET items == ItemsOf(site, TRUE, TRUE)
         IN  [site EXCEPT !.domains = [i \in DOMAIN items |-> singItemToV2(items[i])]]

Result ==
    CASE cmd = "Extract"       -> {it.value : it \in ToSet(Extracted(regex, FALSE))}
      [] cmd = "ToRuleSet"     -> itemToRuleset(Extracted(regex, FALSE))
      [] cmd = "ToQuantumultX" -> itemToQxRule(Extracted(FALSE, V2ray))
      [] cmd = "ToGeosite"     -> Sorted([n \in DOMAIN sites |-> Geosite(sites[n])])

NoRules == cmd = "ToRuleSet" /\ Extracted(regex, FALSE) = << >>

Convert ==
    /\ pc = "read" /\ cmd # "Lookup"
    /\ pending = {}
    /\ \/ NoRules /\ pc' = "error" /\ UNCHANGED out
       \/ ~ NoRules /\ pc' = "done" /\ out' = Result
    /\ UNCHANGED <<input, pending, broken, sites, matched>>

(* Lookup, one code of the index. One that cannot be read matches nothing. *)
LookupSite(c) ==
    /\ cmd = "Lookup"
    /\ Reads(c)
    /\ IF V2ray THEN UNCHANGED broken ELSE Breaks(c)
    /\ \/ /\ IF V2ray THEN c \notin file.cut ELSE Readable(c)
          /\ \E names \in SetToSeqs(
                 MatchedNames(c, Geosite([code |-> c, domains |-> file.sites[c]]).domains)) :
               /\ \A i \in DOMAIN names : names[i].attr = "" => i = 1
               /\ matched' = matched \o names
       \/ /\ IF V2ray THEN c \in file.cut ELSE ~ Readable(c)
          /\ UNCHANGED matched
    /\ UNCHANGED <<input, sites, out, pc>>

EndLookup ==
    /\ pc = "read" /\ cmd = "Lookup"
    /\ pending = {}
    /\ out' = matched
    /\ pc' = "done"
    /\ UNCHANGED <<input, pending, broken, sites, matched>>

Next ==
    \/ \E c \in ListedCodes : ReadSite(c) \/ ReadSing(c)
    \/ \E c \in Codes : ReadSingForGeosite(c) \/ LookupSite(c)
    \/ Convert \/ EndLookup

Spec == Init /\ [][Next]_vars
-----------------------------------------------------------------------------
(* Types of the commands' state. *)
TypeOK ==
    /\ input \in Files \X Commands \X Lists \X BOOLEAN \X BOOLEAN
    /\ pending \subseteq ToRead
    /\ broken \in BOOLEAN
    /\ broken => file.cut \cap ToRead # {}
    /\ sites \in Seq([code : ListedCodes \cup {""}, domains : Seq(Domains[file.kind])])
    /\ matched \in Seq([code : Codes, attr : Attrs \cup {""}])
    /\ pc \in {"read", "done", "error"}
    /\ pc = "error" /\ cmd # "ToRuleSet" => sites = << >>

(* The domains of a database by what they are for, and the value of one.   *)
OfSort(d, sort) ==
    CASE sort = "full"    -> d.type \in IF V2ray THEN {"Full", "Unknown"} ELSE {"Domain"}
      [] sort = "suffix"  -> d.type = IF V2ray THEN "Domain" ELSE "DomainSuffix"
      [] sort = "keyword" -> d.type = IF V2ray THEN "Plain" ELSE "DomainKeyword"

ValueOf(d) ==
    IF d.type = "DomainSuffix" /\ d.value \in DOMAIN Undotted THEN Undotted[d.value] ELSE d.value

(* In a v2ray database the last mention of a code in the list says which   *)
(* attributes a domain of it must have.                                    *)
Asked(c, d) ==
    \E i \in DOMAIN list :
        /\ list[i].code = c
        /\ \A j \in DOMAIN list : j > i => list[j].code # c
        /\ V2ray => list[i].attrs \subseteq d.attrs

AskedFor(sort) ==
    {ValueOf(d) : d \in UNION {{e \in ToSet(file.sites[c]) : OfSort(e, sort) /\ Asked(c, e)}
                                 : c \in ListedCodes \cap Codes}}

(* A lenient command on a cut sing-box database gives less than it should, *)
(* and how much less depends on the order of reading.                      *)
Partial == ~ V2ray /\ ~ strict /\ file.cut \cap ListedCodes # {}

GivesAll(given, asked) == given \subseteq asked /\ (Partial \/ asked \subseteq given)

(* Extract gives the full and suffix domains of the wanted codes, in a     *)
(* v2ray database those that have all the attributes of the last mention   *)
(* of the code, whatever the order of reading, and nothing else.           *)
(* (ReadSites, extractV2GeoSite, extractSingGeoSite)                       *)
ExtractExact ==
    cmd = "Extract" /\ pc = "done" => GivesAll(out, AskedFor("full") \cup AskedFor("suffix"))

(* A rule set has each wanted domain in the list of its type and only      *)
(* there, and is not empty; a QuantumultX list has each of them with the   *)
(* rule of its type, the keywords of v2ray databases too. (itemToRuleset,  *)
(* itemToQxRule, v2ItemToSing)                                             *)
ConvertExact ==
    /\ cmd = "ToRuleSet" /\ pc = "done" =>
         /\ GivesAll(ToSet(out.domain), AskedFor("full"))
         /\ GivesAll(ToSet(out.suffix), AskedFor("suffix"))
         /\ out.keyword = << >> /\ out.regex = << >>
         /\ Len(out.domain) + Len(out.suffix) > 0
    /\ cmd = "ToQuantumultX" /\ pc = "done" =>
         LET With(rule) == {it.value : it \in {r \in ToSet(out) : r.rule = rule}}
         IN  /\ GivesAll(With("host"), AskedFor("full"))
             /\ GivesAll(With("host-suffix"), AskedFor("suffix"))
             /\ With("host-keyword") = IF V2ray THEN AskedFor("keyword") ELSE {}

(* The database ToGeosite writes does not depend on the order of reading:  *)
(* of a v2ray database a hollow entry for each code that does not exist;   *)
(* then the wanted entries, each one once, in the order of their codes,    *)
(* whole, a sing-box one without the dots of its suffixes. (ToGeosite,     *)
(* ReadSites, singItemToV2)                                                *)
ToGeositeExact ==
    cmd = "ToGeosite" /\ pc = "done" /\ file.cut \cap ListedCodes = {} =>
        LET hollows  == IF V2ray THEN Cardinality(ListedCodes \ Codes) ELSE 0
            found    == Sifted(CodeOrder, ListedCodes \cap Codes)
            Same(d, e) == IF V2ray THEN d = e
                          ELSE /\ d.value = ValueOf(e) /\ v2ItemToSing(d).type = e.type
                               /\ d.attrs = {}
        IN  /\ Len(out) = hollows + Len(found)
            /\ \A k \in 1 .. hollows : out[k] = Hollow
            /\ \A k \in DOMAIN found :
                 LET site == out[hollows + k]
                 IN  /\ site.code = found[k]
                     /\ DOMAIN site.domains = DOMAIN file.sites[found[k]]
                     /\ \A i \in DOMAIN site.domains :
                          Same(site.domains[i], file.sites[found[k]][i])

(* The domain, in v2ray terms, is looked up with success. *)
Answers(d) == IsHit(Geosite([code |-> "", domains |-> <<d>>]).domains[1])

Spoils(d) == MakesNoMatcher(Geosite([code |-> "", domains |-> <<d>>]).domains[1])

(* Lookup names a code, or a code and an attribute, only if a domain of it *)
(* matches (with that attribute), names nothing twice, and misses no code  *)
(* all of whose domains make a matcher. One that does not, a regular       *)
(* expression that does not compile, can hide the others, but never adds a *)
(* name. (Lookup, matchSiteAgainstList)                                    *)
LookupExact ==
    cmd = "Lookup" /\ pc = "done" =>
        /\ \A n \in ToSet(out) : \E d \in ToSet(file.sites[n.code]) :
             Answers(d) /\ (n.attr = "" \/ n.attr \in d.attrs)
        /\ Cardinality(ToSet(out)) = Len(out)
        /\ \A c \in IF V2ray THEN Codes \ file.cut ELSE {b \in Codes : file.cut = {}} :
             (\A e \in ToSet(file.sites[c]) : ~ Spoils(e)) =>
                \A d \in ToSet(file.sites[c]) : Answers(d) =>
                    \A attr \in d.attrs \cup {""} : [code |-> c, attr |-> attr] \in ToSet(out)

(* A command fails for a reason and never without one it should fail for:  *)
(* a wanted code that does not exist, in strict mode, or that is cut, on a *)
(* v2ray database in any mode; a rule set with no rules. Lookup never      *)
(* fails, nor does ToGeosite on a sing-box database, which in strict mode  *)
(* just leaves out what it cannot read. (ReadSites, extractSingGeoSite)    *)
EndsRight ==
    LET missing == ~ (ListedCodes \subseteq Codes)
        cut     == ListedCodes \cap file.cut # {}
        nothing == cmd = "ToRuleSet" /\ AskedFor("full") \cup AskedFor("suffix") = {}
        fails   == IF V2ray THEN (strict /\ missing) \/ cut \/ nothing
                   ELSE cmd # "ToGeosite" /\ ((strict /\ (missing \/ cut)) \/ nothing)
    IN  /\ pc = "done" /\ cmd # "Lookup" => ~ fails
        /\ pc = "error" => cmd # "Lookup" /\ (fails \/ (Partial /\ cmd = "ToRuleSet"))
=============================================================================
