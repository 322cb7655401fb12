------------------------------ MODULE SrsCodec ------------------------------
(***************************************************************************)
(* The binary rule set format of src/srs/binary.go: Write puts out a rule  *)
(* set as a stream of tokens, Read gets it back from what is in the file.  *)
(* A token is what one call of the encoders writes: a tag, a length, the   *)
(* value of an item. A Write may be interrupted between any two of them.   *)
(* The matchers of domains and the IP sets are library code: sets here.    *)
(***************************************************************************)
EXTENDS Naturals, Sequences, Functions

CONSTANTS
    Rules,      \* rules, and those inside them
    MaxDepth,   \* bound: how deep they nest
    RuleSets,   \* sequences of rules
    Covers,     \* the addresses of each CIDR or address that parses
    Foreign     \* files that are no rule sets: sequences of tokens

VARIABLES
    rules, version, \* what was to be written
    file,
    ended,      \* how Write ended: "never" (nobody called it), "ok", "error",
                \* "panic", or "killed"
    back,       \* what Read returned; its ok says without an error
    recover,    \* with this argument
    pc

vars == <<rules, version, file, ended, back, recover, pc>>

Versions == 1 .. 3

(* The items of a rule in the order Write has them. *)
Strings == {"Network", "DomainKeyword", "DomainRegex", "SourcePortRange",
            "PortRange", "ProcessName", "ProcessPath", "ProcessPathRegex",
            "PackageName", "WIFISSID", "WIFIBSSID"}

Numbers == {"QueryType", "SourcePort", "Port", "NetworkType"}

CIDRs == {"SourceIPCIDR", "IPCIDR"}

Flags == {"NetworkIsExpensive", "NetworkIsConstrained"}

ItemOrder ==
    <<"QueryType", "Network", "Domain", "DomainKeyword", "DomainRegex",
      "SourceIPCIDR", "IPCIDR", "SourcePort", "SourcePortRange", "Port",
      "PortRange", "ProcessName", "ProcessPath", "ProcessPathRegex",
      "PackageName", "NetworkType", "NetworkIsExpensive", "NetworkIsConstrained",
      "WIFISSID", "WIFIBSSID", "AdGuardDomain">>

Get(rule, f) == IF f \in DOMAIN rule.items THEN rule.items[f] ELSE << >>

-----------------------------------------------------------------------------
(* Write. What it has put out, and how it ended. *)
Tok(t, v) == <<[t |-> t, v |-> v]>>

Wrote(tokens) == [end |-> "ok", tokens |-> tokens]

Then(a, b) == IF a.end # "ok" THEN a ELSE [b EXCEPT !.tokens = a.tokens \o @]

(* One write after another, up to one that fails. *)
InTurn(first, writes) ==
    LET upTo[k \in 0 .. Len(writes)] ==
          IF k = 0 THEN first ELSE Then(upTo[k - 1], writes[k])
    IN  upTo[Len(writes)]

(* The slip forgets a rule that has suffixes only. *)
NamesOnly(rule, f) == f \in DOMAIN rule.items

Present(rule, f) ==
    f \in DOMAIN rule.items \/ (f = "Domain" /\ "DomainSuffix" \in DOMAIN rule.items)

Refused(rule, f, v) ==
    \/ f \in CIDRs /\ \E i \in DOMAIN Get(rule, f) : Get(rule, f)[i] \notin DOMAIN Covers
    \/ f = "NetworkType" /\ v < 3
    \/ f = "AdGuardDomain" /\ v < 2

Matcher(rule) ==
    [domain |-> Range(Get(rule, "Domain")), suffix |-> Range(Get(rule, "DomainSuffix"))]

IPSet(cidrs) == UNION {Covers[c] : c \in Range(cidrs)}

Payload(rule, f) ==
    CASE f = "Domain" -> Tok("value", Matcher(rule))
      [] f \in CIDRs  -> Tok("value", IPSet(Get(rule, f)))
      [] f \in Flags  -> << >>
      [] OTHER        -> Tok("value", Get(rule, f))

WriteItem(rule, f, v) ==
    IF ~ Present(rule, f) THEN Wrote(<< >>)
    ELSE IF Refused(rule, f, v) THEN [end |-> "error", tokens |-> << >>]
    ELSE Wrote(Tok("item", f) \o Payload(rule, f))

WriteItems(rule, v) ==
    InTurn(Wrote(<< >>), [i \in DOMAIN ItemOrder |-> WriteItem(rule, ItemOrder[i], v)])

WriteFinal(rule) == Wrote(Tok("final", "final") \o Tok("bool", rule.invert))

WriteDefaultRule(rule, v) ==
    Then(Then(Wrote(Tok("type", 0)), WriteItems(rule, v)), WriteFinal(rule))

(* inner is what the rules inside of it come to. *)
WriteLogicalRule(rule, inner) ==
    IF rule.mode \notin {"and", "or"} THEN [end |-> "panic", tokens |-> Tok("type", 1)]
    ELSE Then(InTurn(Wrote(Tok("type", 1) \o Tok("mode", rule.mode)
                           \o Tok("length", Len(rule.rules))),
                     [i \in DOMAIN rule.rules |-> inner[rule.rules[i]]]),
              Wrote(Tok("bool", rule.invert)))

(* writeRule of every rule, for those that nest to one depth after another. *)
WriteRule(v) ==
    LET within[n \in 0 .. MaxDepth] ==
          [rule \in Rules |->
              IF n = 0 \/ rule.type = "default" THEN WriteDefaultRule(rule, v)
              ELSE WriteLogicalRule(rule, within[n - 1])]
    IN  within[MaxDepth]

Written(rs, v) ==
    InTurn(Wrote(Tok("magic", "SRS") \o Tok("version", v) \o Tok("length", Len(rs))),
           [i \in DOMAIN rs |-> WriteRule(v)[rs[i]]])

-----------------------------------------------------------------------------
(* Read. Each reader begins at a token and says which one comes next; the  *)
(* one of items is open as long as there may be more.                      *)
Failed == [open |-> FALSE, ok |-> FALSE, at |-> 0, value |-> << >>]

Open(value, at) == [open |-> TRUE, ok |-> FALSE, at |-> at, value |-> value]

Got(value, at) == [open |-> FALSE, ok |-> TRUE, at |-> at, value |-> value]

Is(s, at, t) == at \in DOMAIN s /\ s[at].t = t

With(rule, f, v) ==
    [rule EXCEPT !.items = [g \in DOMAIN @ \cup {f} |-> IF g = f THEN v ELSE @[g]]]

MatcherOf(f) ==
    CASE f = "Domain" -> "DomainMatcher" [] f = "SourceIPCIDR" -> "SourceIPSet"
      [] f = "IPCIDR" -> "IPSet" [] f = "AdGuardDomain" -> "AdGuardDomainMatcher"

(* With recover a matcher or an IP set is turned into the strings again.   *)
Stored(rule, f, v, rec) ==
    IF f \in Strings \cup Numbers THEN With(rule, f, v)
    ELSE LET kept == With(rule, MatcherOf(f), v)
         IN  IF ~ rec THEN kept
             ELSE IF f = "Domain"
             THEN With(With(kept, "Domain", v.domain), "DomainSuffix", v.suffix)
             ELSE With(kept, f, v)

ReadFinal(s, r) ==
    IF Is(s, r.at + 1, "bool")
    THEN Got([r.value EXCEPT !.invert = s[r.at + 1].v], r.at + 2) ELSE Failed

Refuses(s, at, rec) ==
    \/ ~ Is(s, at, "item")
    \/ s[at].v \notin Range(ItemOrder)
    \/ rec /\ s[at].v = "AdGuardDomain"
    \/ s[at].v \notin Flags /\ ~ Is(s, at + 1, "value")

ReadItem(s, rec, r) ==
    IF ~ r.open THEN r
    ELSE IF Is(s, r.at, "final") THEN ReadFinal(s, r)
    ELSE IF Refuses(s, r.at, rec) THEN Failed
    ELSE IF s[r.at].v \in Flags THEN Open(With(r.value, s[r.at].v, <<TRUE>>), r.at + 1)
    ELSE Open(Stored(r.value, s[r.at].v, s[r.at + 1].v, rec), r.at + 2)

(* readDefaultRule. There are no more items than tokens. *)
ReadItems(s, at, rec) ==
    LET run[k \in 0 .. Len(s)] ==
          IF k = 0 THEN Open([type |-> "default", items |-> << >>, invert |-> FALSE], at)
          ELSE ReadItem(s, rec, run[k - 1])
    IN  run[Len(s)]

(* The slip takes the end of the file for the end of the rules. *)
OrEndOfFile(s, r) == ~ r.ok \/ r.at > Len(s)

NoMore(s, r) == ~ r.ok

(* n rules, where inner is what each token begins, if it does a rule. *)
ReadNext(s, r, inner) ==
    IF NoMore(s, r) THEN r
    ELSE IF inner[r.at].ok THEN Got(Append(r.value, inner[r.at].value), inner[r.at].at)
    ELSE Failed

ReadRules(s, at, n, inner) ==
    LET run[k \in 0 .. n] ==
          IF k = 0 THEN Got(<< >>, at) ELSE ReadNext(s, run[k - 1], inner)
    IN  run[n]

ReadLogicalRule(s, at, inner) ==
    IF ~ (Is(s, at, "mode") /\ s[at].v \in {"and", "or"} /\ Is(s, at + 1, "length"))
    THEN Failed
    ELSE LET r == ReadRules(s, at + 2, s[at + 1].v, inner)
         IN  IF r.ok /\ Is(s, r.at, "bool")
             THEN Got([type |-> "logical", mode |-> s[at].v, rules |-> r.value,
                       invert |-> s[r.at].v], r.at + 1)
             ELSE Failed

ReadRule(s, at, rec, inner) ==
    CASE ~ Is(s, at, "type") -> Failed
      [] Is(s, at, "type") /\ s[at].v = 0 -> ReadItems(s, at + 1, rec)
      [] Is(s, at, "type") /\ s[at].v = 1 -> ReadLogicalRule(s, at + 1, inner)
      [] OTHER -> Failed

(* readRule from every token, for rules that nest to one depth after the   *)
(* other, which is less than there are tokens.                             *)
ReadRuleAt(s, rec) ==
    LET within[d \in 0 .. Len(s)] ==
          [at \in 1 .. Len(s) + 1 |->
              IF d = 0 THEN Failed ELSE ReadRule(s, at, rec, within[d - 1])]
    IN  within[Len(s)]

HasHeader(s) ==
    /\ Is(s, 1, "magic") /\ s[1].v = "SRS"
    /\ Is(s, 2, "version") /\ s[2].v <= 3
    /\ Is(s, 3, "length")

ReadFile(s, rec) ==
    IF HasHeader(s) THEN ReadRules(s, 4, s[3].v, ReadRuleAt(s, rec)) ELSE Failed

-----------------------------------------------------------------------------
(* A flag of a rule is there or not; rules nest up to MaxDepth.            *)
IsDefault(rule) ==
    /\ rule.type = "default" /\ rule.invert \in BOOLEAN
    /\ \A f \in Flags \cap DOMAIN rule.items : rule.items[f] = <<TRUE>>

IsLogical(rule, inner) ==
    /\ rule.type = "logical" /\ rule.invert \in BOOLEAN
    /\ rule.rules \in Seq(inner)

Nesting ==
    LET within[n \in 0 .. MaxDepth] ==
          {rule \in Rules :
              \/ IsDefault(rule)
              \/ n # 0 /\ IsLogical(rule, within[n - 1])}
    IN  within[MaxDepth]

(* A rule that begins with something that nobody knows.                    *)
IsUnknown(s, at) ==
    \/ ~ Is(s, at, "type")
    \/ s[at].v \notin {0, 1}
    \/ s[at].v = 0 /\ Is(s, at + 1, "item") /\ s[at + 1].v \notin Range(ItemOrder)
    \/ s[at].v = 1 /\ Is(s, at + 1, "mode") /\ s[at + 1].v \notin {"and", "or"}

Tags == {"magic", "version", "length", "type", "mode", "item", "value", "final", "bool"}

IsForeign(s) ==
    /\ s \in Seq(Range(s)) /\ \A i \in DOMAIN s : s[i].t \in Tags
    /\ HasHeader(s) => s[3].v \in Nat \ {0} /\ IsUnknown(s, 4)

RulesAssumption ==
    /\ MaxDepth \in Nat
    /\ Rules \subseteq Nesting
    /\ RuleSets \subseteq Seq(Rules)
    /\ \A s \in Foreign : IsForeign(s)

-----------------------------------------------------------------------------
Init ==
    /\ rules = << >> /\ version = 3
    /\ file \in Foreign
    /\ ended = "never"
    /\ back = Failed
    /\ recover = FALSE
    /\ pc = "write"

(* An error, and an interruption, leave any part of what was put out before *)
(* it in the file: it is buffered and compressed.                          *)
Write(rs, v) ==
    LET w == Written(rs, v)
    IN  /\ pc = "write"
        /\ rules' = rs /\ version' = v
        /\ \/ ended' = w.end /\ w.end = "ok" /\ file' = w.tokens
           \/ /\ ended' = IF w.end = "ok" THEN "killed" ELSE w.end
              /\ \E n \in 0 .. Len(w.tokens) : file' = SubSeq(w.tokens, 1, n)
        /\ pc' = "read"
        /\ UNCHANGED <<back, recover>>

(* The file is left as something else has made it. *)
LeaveForeign ==
    /\ pc = "write" /\ pc' = "read"
    /\ UNCHANGED <<rules, version, file, ended, back, recover>>

Read(rec) ==
    /\ pc = "read"
    /\ recover' = rec
    /\ back' = ReadFile(file, rec)
    /\ pc' = "done"
    /\ UNCHANGED <<rules, version, file, ended>>

Next ==
    \/ \E rs \in RuleSets, v \in Versions : Write(rs, v)
    \/ LeaveForeign
    \/ \E rec \in BOOLEAN : Read(rec)

Spec == Init /\ [][Next]_vars

-----------------------------------------------------------------------------
(* Types of the file and of the two calls. *)
TypeOK ==
    /\ rules \in RuleSets \cup {<< >>}
    /\ version \in Versions
    /\ \A i \in DOMAIN file : file[i].t \in Tags
    /\ ended \in {"never", "ok", "error", "panic", "killed"}
    /\ back.ok \in BOOLEAN /\ back.at \in 0 .. Len(file) + 1
    /\ recover \in BOOLEAN
    /\ pc \in {"write", "read", "done"}

(* Suffixes are said where domains are. *)
Says(rule, f) ==
    DOMAIN rule.items \cap (IF f = "Domain" THEN {f, "DomainSuffix"} ELSE {f}) # {}

(* What a rule is to be read as: lists are the same, and what is kept as a *)
(* matcher or a set has their members; it is strings again only if they    *)
(* were to be recovered.                                                   *)
Fields(rule, f, rec) ==
    CASE ~ Says(rule, f) -> {}
      [] Says(rule, f) /\ f \in Strings \cup Numbers \cup Flags -> {f}
      [] OTHER -> {MatcherOf(f)} \cup
                    (IF ~ rec THEN {} ELSE IF f = "Domain" THEN {f, "DomainSuffix"} ELSE {f})

FieldValue(rule, g) ==
    CASE g \in {"Domain", "DomainSuffix"} -> Range(Get(rule, g))
      [] g = "DomainMatcher" -> Matcher(rule)
      [] g \in CIDRs -> IPSet(Get(rule, g))
      [] g = "SourceIPSet" -> IPSet(Get(rule, "SourceIPCIDR"))
      [] g = "IPSet" -> IPSet(Get(rule, "IPCIDR"))
      [] g = "AdGuardDomainMatcher" -> Get(rule, "AdGuardDomain")
      [] OTHER -> Get(rule, g)

DefaultAs(rule, rec) ==
    [type |-> "default", invert |-> rule.invert,
     items |-> [g \in UNION {Fields(rule, f, rec) : f \in Range(ItemOrder)} |->
                  FieldValue(rule, g)]]

LogicalAs(rule, inner) ==
    [type |-> "logical", mode |-> rule.mode, invert |-> rule.invert,
     rules |-> [i \in DOMAIN rule.rules |-> inner[rule.rules[i]]]]

RuleAs(rec) ==
    LET within[n \in 0 .. MaxDepth] ==
          [rule \in Rules |->
              IF n = 0 \/ rule.type = "default" THEN DefaultAs(rule, rec)
              ELSE LogicalAs(rule, within[n - 1])]
    IN  within[MaxDepth]

AllSame == back.value = [i \in DOMAIN rules |-> RuleAs(recover)[rules[i]]]

(* The rules with AdGuard domains, in themselves or inside. *)
AdGuarded ==
    LET within[n \in 0 .. MaxDepth] ==
          {rule \in Rules :
              IF rule.type = "default" THEN "AdGuardDomain" \in DOMAIN rule.items
              ELSE n # 0 /\ \E i \in DOMAIN rule.rules : rule.rules[i] \in within[n - 1]}
    IN  within[MaxDepth]

(* What Write ended without an error is read as the same rules; only with  *)
(* AdGuard domains it cannot be recovered. (Write, Read)                   *)
RoundTrip ==
    pc = "done" /\ ended = "ok" =>
        IF recover /\ \E i \in DOMAIN rules : rules[i] \in AdGuarded THEN ~ back.ok
        ELSE back.ok /\ AllSame

(* Of a Write that failed or was interrupted nothing is read as a shorter  *)
(* rule set: all of the rules are there or there is an error. What is no   *)
(* rule set is refused. (Read)                                             *)
CutRefused ==
    pc = "done" =>
        /\ ended \in {"killed", "error", "panic"} /\ back.ok => AllSame
        /\ ended = "never" => ~ back.ok
=============================================================================
