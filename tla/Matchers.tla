------------------------------ MODULE Matchers ------------------------------
(***************************************************************************)
(* The four groups of matchers of src/strmatcher: the map that the lookups *)
(* of the program use, the perfect hash table, the group with a trie of    *)
(* domains, and the automaton by itself. A caller adds patterns, builds    *)
(* and matches, in any order. Texts are sequences of characters.           *)
(***************************************************************************)
EXTENDS ACAutomaton

CONSTANTS
    Kinds,      \* which of the groups
    Patterns,   \* [type, text] that are added
    Queries,    \* texts that are matched
    Preloads,   \* sequences of patterns that are added at first
    MaxAdds,    \* bound: how many patterns are added, if not at first
    RegexFinds, \* for each regular expression that compiles, what it finds
    CharCode, HashPrime, HashModulus,   \* of RollingHash
    StrHash(_, _),  \* strhashFallback: of a text and a seed
    MaxSeed,    \* the last seed: after it the word begins with 0 again
    MapOrders(_)    \* bound: the orders of a Go map that are looked at

VARIABLES
    kind, group,
    added,      \* the patterns that were added
    builds,     \* how often Build was called
    stale,      \* was a pattern added after the last Build?
    answer,     \* of the last Match, if nothing was called since
    state       \* of the process: "ok", or how it has died, by which call

vars == <<kind, group, added, builds, stale, answer, state>>

Types == {"full", "substr", "domain", "regex"}

NoAnswer == [query |-> << >>, ids |-> << >>, asked |-> FALSE]

Dot(text) == <<".">> \o text

Lower(text) == [i \in DOMAIN text |-> IF text[i] = "A" THEN "a"
                                      ELSE IF text[i] = "B" THEN "b" ELSE text[i]]

Has(s, text) == \E i \in 0 .. Len(s) - Len(text) : SubSeq(s, i + 1, i + Len(text)) = text

(* The single matchers (matchers.go). *)
Matches(p, s) ==
    CASE p.type = "full"   -> p.text = s
      [] p.type = "substr" -> Has(s, p.text)
      [] p.type = "domain" -> /\ IsSuffix(p.text, s)
                              /\ \/ Len(s) = Len(p.text)
                                 \/ s[Len(s) - Len(p.text)] = "."
      [] p.type = "regex"  -> s \in RegexFinds[p.text]

Compiles(p) == p.type = "regex" => p.text \in DOMAIN RegexFinds

IsPattern(p) ==
    /\ p = [type |-> p.type, text |-> p.text]
    /\ p.type \in Types /\ p.text \in Seq(STRING)

(* What is added at first is in the automaton's table and compiles.        *)
PatternsAssumption ==
    /\ Kinds \subseteq {"map", "group", "mph", "ac"} /\ Kinds # {}
    /\ \A p \in Patterns : IsPattern(p)
    /\ Queries \subseteq Seq(STRING)
    /\ Preloads \subseteq Seq(UNION {Range(s) : s \in Preloads})
    /\ \A s \in Preloads : \A p \in Range(s) :
         IsPattern(p) /\ Compiles(p) /\ InTable(p.text)

Exact(p) == p.type \in {"full", "domain"}

(* The keys of a rule: a domain has one for its subdomains as well.        *)
OneKey(p) == {Lower(p.text)}

Keys(p) == {Lower(p.text)} \cup IF p.type = "domain" THEN {Dot(Lower(p.text))} ELSE {}

(* What of a text is looked up: from each dot to the end, and the whole.   *)
Scanned(s) == {SubSeq(s, i, Len(s)) : i \in {j \in DOMAIN s : s[j] = "."}} \cup {s}

RegexIds(others, s) ==
    LET k == SelectInSeq(others, LAMBDA e : Matches(e.p, s))
    IN  IF k = 0 THEN << >> ELSE <<others[k].id>>

-----------------------------------------------------------------------------
(* MapMatcherGroup *)
NewMap == [ruleMap |-> {}, keywords |-> {}, others |-> << >>]

MapAdd(g, p) ==
    CASE Exact(p)           -> [g EXCEPT !.ruleMap = @ \cup Keys(p)]
      [] p.type = "substr"  -> [g EXCEPT !.keywords = @ \cup {p.text}]
      [] p.type = "regex"   -> [g EXCEPT !.others = Append(@, [p |-> p, id |-> 0])]

MapMatch(g, s) ==
    IF Scanned(s) \cap g.ruleMap # {} \/ \E k \in g.keywords : Has(s, k)
    THEN <<1>> ELSE RegexIds(g.others, s)

-----------------------------------------------------------------------------
(* MatcherGroup: the trie of domains is the set of its paths, of labels    *)
(* from the last one, with their values.                                   *)
Labels(text) ==
    LET cut[i \in 0 .. Len(text)] ==
            IF i = 0 THEN << << >> >>
            ELSE IF text[i] = "." THEN Append(cut[i - 1], << >>)
            ELSE Append(Front(cut[i - 1]), Append(Last(cut[i - 1]), text[i]))
    IN  cut[Len(text)]

NewGroup == [full |-> << >>, domain |-> << >>, others |-> << >>, count |-> 0]

ValuesOf(f, key) == IF key \in DOMAIN f THEN f[key] ELSE << >>

With(f, keys, key, value) ==
    [k \in DOMAIN f \cup keys \cup {key} |->
        IF k = key THEN Append(ValuesOf(f, k), value) ELSE ValuesOf(f, k)]

GroupAdd(g, p) ==
    LET id   == g.count + 1
        path == Reverse(Labels(p.text))
        onPath == {SubSeq(path, 1, k) : k \in 1 .. Len(path)}
    IN  [CASE p.type = "full"   -> [g EXCEPT !.full = With(@, {}, p.text, id)]
           [] p.type = "domain" -> [g EXCEPT !.domain = With(@, onPath, path, id)]
           [] OTHER             -> [g EXCEPT !.others = Append(@, [p |-> p, id |-> id])]
         EXCEPT !.count = id]

(* The walk ends at a label that is not there; longer domains come first,  *)
(* in the slip shorter ones.                                               *)
ShorterFirst(found) == Flat(found)

LongerFirst(found) == Flat(Reverse(found))

DomainMatch(domain, s) ==
    LET path  == Reverse(Labels(s))
        nodes == Sifted([k \in DOMAIN path |-> SubSeq(path, 1, k)], DOMAIN domain)
    IN  IF s = << >> THEN << >>
        ELSE LongerFirst([k \in DOMAIN nodes |-> domain[nodes[k]]])

GroupMatch(g, s) ==
    LET hits == Sifted(g.others, {e \in Range(g.others) : Matches(e.p, s)})
    IN  (IF s \in DOMAIN g.full THEN g.full[s] ELSE << >>)
        \o DomainMatch(g.domain, s)
        \o [k \in DOMAIN hits |-> hits[k].id]

-----------------------------------------------------------------------------
(* MphMatcherGroup. level1 has an index of rules in every slot; one that   *)
(* no rule has is left at the first, since what is found in it is compared *)
(* with the text and never is equal, whatever a failed seed left there.    *)
RollingHash(s) ==
    FoldRight(LAMBDA c, h : (h * HashPrime + CharCode[c]) % HashModulus, s, 0)

DotHash(h) == (h * HashPrime + CharCode["."]) % HashModulus

Nil == "nil"

NewMph == [ac |-> << >>, others |-> << >>, ruleMap |-> << >>, rules |-> Nil,
           level0 |-> Nil, level1 |-> Nil, frozen |-> FALSE]

HashOf(p, key) ==
    IF key = Lower(p.text) THEN RollingHash(key) ELSE DotHash(RollingHash(Lower(p.text)))

MphAdd(g, p) ==
    CASE Exact(p)          -> [g EXCEPT !.ruleMap = [k \in Keys(p) |-> HashOf(p, k)] @@ @]
      [] p.type = "substr" -> [g EXCEPT !.ac =
                                 <<ACAdd(IF @ = << >> THEN NewACAutomaton ELSE @[1],
                                         p.text, "substr")>>]
      [] p.type = "regex"  -> [g EXCEPT !.others = Append(@, [p |-> p, id |-> 1])]

(* The least power of two above v, or 1. *)
NextPow2(v) == IF v <= 1 THEN 1 ELSE CHOOSE n \in {2^k : k \in 1 .. 8} : v < n /\ n <= 2 * v

(* The key that stands for "empty___", in a table without any other.       *)
EmptyKey == <<"_">>

NoSpare(ruleMap) == ruleMap

OrSpare(ruleMap) ==
    IF DOMAIN ruleMap = {} THEN [k \in {EmptyKey} |-> RollingHash(k)] ELSE ruleMap

(* The tables for the rules in an order: the largest bucket first finds    *)
(* the least seed that gives its rules slots of their own. If there is     *)
(* none, all the seeds are tried again and again.                          *)
Tables(ruleMap, rules, ties) ==
    LET size0   == NextPow2(Len(rules) \div 4)
        size1   == NextPow2(Len(rules))
        bucket  == [n \in 0 .. size0 - 1 |->
                      {i \in DOMAIN rules : ruleMap[rules[i]] % size0 = n}]
        Larger(m, n) == \/ Cardinality(bucket[m]) > Cardinality(bucket[n])
                        \/ /\ Cardinality(bucket[m]) = Cardinality(bucket[n])
                           /\ IF ties THEN m < n ELSE m > n
        buckets == SetToSortSeq({n \in DOMAIN bucket : bucket[n] # {}}, Larger)
        Slot(i, seed) == StrHash(rules[i], seed) % size1
        Fits(n, seed, occ) ==
            /\ \A i \in bucket[n] : Slot(i, seed) \notin occ
            /\ \A i, j \in bucket[n] : Slot(i, seed) = Slot(j, seed) => i = j
        Place(t, n) ==
            LET occ  == {k \in DOMAIN t.level1 : t.level1[k] # 0}
                fit  == {d \in 0 .. MaxSeed : Fits(n, d, occ)}
                seed == CHOOSE d \in fit : \A c \in fit : d <= c
                here(x) == {i \in bucket[n] : Slot(i, seed) = x}
            IN  IF fit = {} THEN [t EXCEPT !.found = FALSE]
                ELSE [t EXCEPT !.level0[n] = seed,
                               !.level1 = [x \in 0 .. size1 - 1 |->
                                  IF here(x) = {} THEN @[x] ELSE CHOOSE i \in here(x) : TRUE]]
        placed[k \in 0 .. Len(buckets)] ==
            IF k = 0 THEN [level0 |-> [n \in 0 .. size0 - 1 |-> 0],
                           level1 |-> [n \in 0 .. size1 - 1 |-> 0],
                           found  |-> TRUE]
            ELSE IF placed[k - 1].found THEN Place(placed[k - 1], buckets[k])
            ELSE placed[k - 1]
    IN  placed[Len(buckets)]

(* Each rule once, in an order a Go map may have. *)
Orders(ruleMap) ==
    {rules \in MapOrders(DOMAIN ruleMap) :
        Range(rules) = DOMAIN ruleMap /\ IsInjective(rules)}

MphTables(g, rules, ties) == Tables(OrSpare(g.ruleMap), rules, ties)

MphBuild(g, rules, ties) ==
    LET t == MphTables(g, rules, ties)
    IN  [g EXCEPT !.ac = IF @ = << >> THEN @ ELSE <<ACBuild(@[1])>>,
                  !.rules = rules, !.level0 = t.level0, !.level1 = t.level1,
                  !.ruleMap = << >>, !.frozen = TRUE]

Lookup(g, h, s) ==
    LET seed == g.level0[h % Cardinality(DOMAIN g.level0)]
        i    == g.level1[StrHash(s, seed) % Cardinality(DOMAIN g.level1)]
    IN  g.rules[IF i = 0 THEN 1 ELSE i] = s

MphMatch(g, s) ==
    IF \/ \E t \in Scanned(s) : Lookup(g, RollingHash(t), t)
       \/ g.ac # << >> /\ ACMatch(g.ac[1], s)
    THEN <<1>> ELSE RegexIds(g.others, s)

-----------------------------------------------------------------------------
NewOf(k) ==
    CASE k = "map"   -> NewMap
      [] k = "group" -> NewGroup
      [] k = "mph"   -> NewMph
      [] k = "ac"    -> NewACAutomaton

AddTo(k, g, p) ==
    CASE k = "map"   -> MapAdd(g, p)
      [] k = "group" -> GroupAdd(g, p)
      [] k = "mph"   -> MphAdd(g, p)
      [] k = "ac"    -> ACAdd(g, p.text, p.type)

Alive == [how |-> "ok", call |-> "none", p |-> << >>]

Init ==
    /\ kind \in Kinds
    /\ added \in Preloads
    /\ group = Fold(LAMBDA g, p : AddTo(kind, g, p), NewOf(kind), added)
    /\ builds = 0
    /\ stale = FALSE
    /\ answer = NoAnswer
    /\ state = Alive

Die(how, call, p) ==
    /\ state' = [how |-> how, call |-> call, p |-> p]
    /\ UNCHANGED <<kind, group, added, builds, stale, answer>>

(* Only the automaton by itself has no regular expressions. *)
May(p) == kind = "ac" => p.type # "regex"

ToAutomaton(p) == kind = "ac" \/ (kind = "mph" /\ p.type = "substr")

AddPanics(p) ==
    \/ ToAutomaton(p) /\ ~ InTable(p.text)
    \/ kind = "mph" /\ Exact(p) /\ group.frozen

AddPattern(p) ==
    /\ state = Alive /\ Len(added) < MaxAdds /\ May(p)
    /\ \/ AddPanics(p) /\ Die("panic", "add", p)
       \/ ~ AddPanics(p) /\ ~ Compiles(p) /\ UNCHANGED vars
       \/ /\ ~ AddPanics(p) /\ Compiles(p)
          /\ group' = AddTo(kind, group, p)
          /\ added' = Append(added, p)
          /\ stale' = TRUE
          /\ answer' = NoAnswer
          /\ UNCHANGED <<kind, builds, state>>

(* The automaton that Build would build, if there is one. *)
Automaton ==
    CASE kind = "ac" -> <<group>>
      [] kind = "mph" -> group.ac
      [] OTHER -> << >>

BuildHangs == Automaton # << >> /\ ~ BuildEnds(Automaton[1])

(* In some order of the map one of the buckets finds no seed.              *)
SeedsFail ==
    \E rules \in Orders(OrSpare(group.ruleMap)), ties \in BOOLEAN :
        ~ MphTables(group, rules, ties).found

Built ==
    /\ CASE kind = "ac" -> group' = ACBuild(group)
         [] kind = "mph" ->
              \E rules \in Orders(OrSpare(group.ruleMap)), ties \in BOOLEAN :
                 /\ MphTables(group, rules, ties).found
                 /\ group' = MphBuild(group, rules, ties)
         [] OTHER -> UNCHANGED group
    /\ builds' = builds + 1
    /\ stale' = FALSE
    /\ answer' = NoAnswer
    /\ UNCHANGED <<kind, added, state>>

Build ==
    /\ state = Alive /\ builds < 2
    /\ IF BuildHangs THEN Die("hang", "build", << >>)
       ELSE IF kind = "mph" /\ group.frozen THEN Die("panic", "build", << >>)
       ELSE Built \/ (kind = "mph" /\ SeedsFail /\ Die("hang", "seeds", << >>))

MatchPanics == kind = "mph" /\ (~ group.frozen \/ group.rules = << >>)

Match(s) ==
    /\ state = Alive
    /\ IF MatchPanics THEN Die("panic", "match", << >>)
       ELSE /\ answer' = [query |-> s, asked |-> TRUE, ids |->
                 CASE kind = "map"   -> MapMatch(group, s)
                   [] kind = "group" -> GroupMatch(group, s)
                   [] kind = "mph"   -> MphMatch(group, s)
                   [] kind = "ac"    -> IF ACMatch(group, s) THEN <<1>> ELSE << >>]
            /\ UNCHANGED <<kind, group, added, builds, stale, state>>

Next ==
    \/ \E p \in Patterns : AddPattern(p)
    \/ Build
    \/ \E s \in Queries : Match(s)

Spec == Init /\ [][Next]_vars
-----------------------------------------------------------------------------
(* Types of the state: of each group, that its indexes stay inside it.     *)
TypeOK ==
    /\ kind \in Kinds
    /\ \A k \in DOMAIN added : added[k].type \in Types /\ Compiles(added[k])
    /\ builds \in 0 .. 2
    /\ stale \in BOOLEAN
    /\ state.how \in {"ok", "panic", "hang"}
    /\ answer.query \in Queries \cup {<< >>}
    /\ answer.ids \in Seq(0 .. Len(added) + 1)
    /\ Automaton # << >> =>
         LET ac == Automaton[1]
         IN  /\ DOMAIN ac.trie = 0 .. ac.count
             /\ \A n \in 0 .. ac.count :
                  /\ ac.fail[n] \in 0 .. ac.count
                  /\ \A i \in Indexes : ac.trie[n][i].next \in 0 .. ac.count

Hits(s) == {k \in DOMAIN added : Matches(added[k], s)}

(* The map and the hash table keep the lower case of an exact pattern.     *)
Lowered(p) == IF Exact(p) THEN [p EXCEPT !.text = Lower(@)] ELSE p

(* The groups are exact but for these patterns: one that begins with a dot *)
(* matches the end of a query; the automaton takes a letter for one of     *)
(* another case, a character it does not know for the letter a, and of two *)
(* patterns only the longer one where one is part of the other. A hash     *)
(* table without exact patterns matches the key that it has instead, the   *)
(* text "empty___".                                                        *)
NoDotFirst == \A k \in DOMAIN added : Exact(added[k]) => ~ IsPrefix(<<".">>, added[k].text)

Simple(text) == \A i \in DOMAIN text : text[i] \in {"a", "b", "."}

InAutomaton == {added[k] : k \in {j \in DOMAIN added : ToAutomaton(added[j])}}

Apart ==
    \A p \in InAutomaton :
        /\ Simple(p.text) /\ p.text # << >>
        /\ \A q \in InAutomaton : p # q => ~ Has(Dot(p.text), q.text)

AutomatonExact(s) == Apart /\ (InAutomaton # {} => Simple(s))

SpareMatches(s) == s = EmptyKey /\ \A k \in DOMAIN added : ~ Exact(added[k])

(* Where a group promises an exact answer, Match gives the one the single  *)
(* matchers give: for MatcherGroup every id, the exact ones first, then    *)
(* domains by their length, then the others; for the rest the first kind   *)
(* that matches; the spare key of a hash table matches as well. (Match of  *)
(* the four groups, after any calls)                                       *)
MatchersExact ==
    LET s    == answer.query
        low  == {k \in DOMAIN added : Matches(Lowered(added[k]), s)}
        regs == {k \in DOMAIN added : added[k].type = "regex"}
        rank(k) == CASE added[k].type = "full"   -> 0
                     [] added[k].type = "domain" -> 1000 - Len(added[k].text)
                     [] OTHER                    -> 2000
        Before(j, k) == rank(j) < rank(k) \/ (rank(j) = rank(k) /\ j < k)
    IN  answer.asked =>
          CASE kind = "map" ->
                 NoDotFirst =>
                   answer.ids = IF low \ regs # {} THEN <<1>>
                                ELSE IF low # {} THEN <<0>> ELSE << >>
            [] kind = "group" ->
                 s # << >> => answer.ids = SetToSortSeq(Hits(s), Before)
            [] kind = "mph" ->
                 NoDotFirst /\ AutomatonExact(s) /\ ~ stale =>
                   (answer.ids = <<1>> <=> low # {} \/ SpareMatches(s))
            [] kind = "ac" ->
                 AutomatonExact(s) /\ ~ stale /\ builds > 0 =>
                   (answer.ids = <<1>> <=> Hits(s) # {})

(* Nothing panics or hangs, whatever is added and matched, unless it is    *)
(* misuse: a pattern the automaton's table is too short for, and, of a     *)
(* group that is to be built, a Match before Build, an exact pattern after *)
(* it, or a second Build. One case apart: Build goes on for ever if there  *)
(* is a bucket whose rules no seed gives slots of their own.               *)
(* (AddPattern, Build, Match of the four groups)                           *)
DeadOnlyByMisuse ==
    /\ state.how = "panic" =>
         CASE state.call = "add" ->
                IF ToAutomaton(state.p) THEN ~ InTable(state.p.text)
                ELSE kind = "mph" /\ Exact(state.p) /\ builds > 0
           [] state.call = "build" -> kind = "mph" /\ builds > 0
           [] state.call = "match" -> kind = "mph" /\ builds = 0
    /\ state.how = "hang" =>
         \/ state.call = "build" /\ builds > 0 /\ InAutomaton # {}
         \/ state.call = "seeds" /\ kind = "mph" /\ SeedsFail

(* "Substr is the type of matcher that the input string must contain the   *)
(* pattern as a sub-string": if it does, a built table finds it.           *)
(* (strmatcher.go, AddPattern and Match of MphMatcherGroup)                *)
SubstrFound ==
    kind = "mph" /\ answer.asked /\ ~ stale =>
        \A k \in Hits(answer.query) : added[k].type = "substr" => answer.ids # << >>
=============================================================================
