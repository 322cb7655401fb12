-------------------------- MODULE MCGeositeExtract --------------------------
(***************************************************************************)
(* Databases of one to three codes, of both kinds: domains of every type   *)
(* with no, one or two attributes, a regular expression that does not      *)
(* compile in the first or in a later batch, codes with a domain in        *)
(* common, one without domains, and codes the file ends in. The lists name *)
(* a code twice with other attributes, a code that does not exist, or two. *)
(***************************************************************************)
EXTENDS GeositeExtract

Dom(type, value, attrs) == [type |-> type, value |-> value, attrs |-> attrs]

A == <<Dom("Full", "x", {"cn"}), Dom("Domain", "y", {"ads", "cn"}), Dom("Plain", "k", {})>>
B == <<Dom("Regex", "bad", {}), Dom("Regex", "r", {"cn"}), Dom("Domain", "x", {"ads"})>>
C == <<Dom("Full", "y", {}), Dom("Unknown", "u", {"ads"}), Dom("Full", "x", {"cn"})>>
D == <<Dom("Plain", "k", {"ads"}), Dom("Full", "z", {"cn"}), Dom("Regex", "r", {"ads"})>>

S == <<Dom("DomainSuffix", ".y", {}), Dom("Domain", "x", {}), Dom("DomainKeyword", "k", {})>>
T == <<Dom("DomainRegex", "r", {}), Dom("DomainSuffix", "y", {}), Dom("DomainRegex", "bad", {})>>

Database(kind, codes, cutCodes) == [kind |-> kind, sites |-> codes, cut |-> cutCodes]

MCFiles == {
    Database("v2ray", [a |-> A, b |-> D, c |-> << >>], {}),
    Database("v2ray", [a |-> A, b |-> B, c |-> C], {}),
    Database("v2ray", [a |-> D, b |-> C, c |-> A], {"c"}),
    Database("v2ray", [b |-> SubSeq(A, 2, 3) \o B], {}),
    Database("sing", [a |-> S, b |-> T, c |-> << >>], {}),
    Database("sing", [a |-> S, c |-> T], {}),
    Database("sing", [a |-> T, b |-> S, c |-> << >>], {"b"}),
    Database("sing", [a |-> S, b |-> S, c |-> T], {"a", "c"})}

MCUndotted == [s \in {".y"} |-> "y"]

Code(code, attrs) == [code |-> code, attrs |-> attrs]

MCLists == {
    <<Code("a", {})>>, <<Code("c", {})>>,
    <<Code("a", {"cn"}), Code("b", {"ads"})>>,
    <<Code("b", {}), Code("a", {"ads", "cn"})>>,
    <<Code("a", {"cn"}), Code("b", {}), Code("a", {"ads"})>>,
    <<Code("a", {"cn"}), Code("a", {})>>,
    <<Code("x", {}), Code("b", {}), Code("a", {})>>,
    <<Code("x", {}), Code("w", {"cn"}), Code("b", {"cn"})>>,
    <<Code("c", {}), Code("b", {}), Code("a", {})>>}

MCHits == {[type |-> "Domain", value |-> "y"], [type |-> "Full", value |-> "x"],
           [type |-> "Plain", value |-> "k"], [type |-> "Regex", value |-> "r"]}

MCOrder == <<"", "a", "b", "c", "w", "x">>

MCWords == {"x", "y", ".y", "z", "k", "bad", "r", "u"}

MCAttrs == {"ads", "cn"}
=============================================================================
