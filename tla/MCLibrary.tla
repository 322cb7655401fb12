------------------------------ MODULE MCLibrary ------------------------------
(***************************************************************************)
(* Small instances of the five parts.                                      *)
(***************************************************************************)
EXTENDS Library, SequencesExt

(* Matchers: two patterns in any order, or a few that fill the hash table  *)
(* over more than one bucket, over the letters a and b, the dot, an upper- *)
(* case letter, a character the automaton's table does not name and one    *)
(* that is wider than it. *)
P(type, text) == [type |-> type, text |-> text]

MCPatterns ==
    {P("full", <<"a", "b">>), P("full", <<"b">>), P("domain", <<"b">>),
     P("domain", <<"A", ".", "b">>), P("domain", <<".", "b">>), P("domain", << >>),
     P("substr", <<"b">>), P("substr", <<"b", "a">>), P("substr", <<"a", "b", "a">>),
     P("substr", <<"/">>), P("substr", <<"w">>), P("domain", <<"a", "b">>),
     P("regex", <<"a">>), P("regex", <<"(">>)}

MCPreloads ==
    {<< >>,
     <<P("domain", <<"b">>), P("domain", <<"a", ".", "b">>), P("full", <<"a", "b">>),
       P("domain", <<"a", "b">>), P("domain", <<"b", "b">>), P("domain", <<"b">>),
       P("full", <<"b">>)>>,
     <<P("substr", <<"a", "a", "b">>), P("substr", <<"b", "b">>),
       P("domain", <<"a", ".", "a">>)>>}

MCQueries ==
    {<< >>, <<"b">>, <<"a", "b">>, <<"A", ".", "b">>, <<"a", ".", "b">>, <<".", "b">>,
     <<"b", "a">>, <<"a", "b", "b", "a">>, <<"b", ".", "a", ".", "b">>, <<"b", ".">>,
     <<"a", "a", "a", "b">>, <<"a", ".", "a", "b">>, <<"w", "b", "a">>, <<"_">>}

MCRegexFinds == (<<"a">> :> {s \in MCQueries : \E i \in DOMAIN s : s[i] = "a"})

MCCharCode ==
    [c \in {"a"} |-> 1] @@ ("b" :> 2) @@ ("/" :> 3) @@ ("_" :> 4) @@ ("A" :> 5)
    @@ ("." :> 6) @@ ("w" :> 7)

(* A hash that mixes the seed with the text; collisions are frequent. *)
MCStrHash(s, seed) ==
    FoldLeft(LAMBDA h, c : (h * (5 + 2 * seed) + MCCharCode[c] * (seed + 1)
                            + (h \div 7)) % 1021, seed, s) \div 3

MCMapOrders(keys) ==
    LET order == FoldSet(LAMBDA x, s : Append(s, x), << >>, keys)
    IN  {order, Reverse(order)}

(* CidrRanges: three of these, IPv4 with 16 and IPv6 with 4 addresses. *)
T(form, f, a) == [form |-> form, family |-> f, start |-> a]

Rng(a, b) == T("range", 4, a) @@ [endFamily |-> 4, end |-> b]

Cidr(f, a, n) == T("cidr", f, a) @@ [bits |-> n]

MCBits == (4 :> 4) @@ (6 :> 2)

MCRanges ==
    {Rng(0, 15), Rng(1, 14), Rng(0, 14), Rng(1, 15), Rng(7, 8), Rng(9, 3), Rng(3, 9),
     Rng(12, 13), Cidr(4, 0, 0), Cidr(4, 5, 3), Cidr(4, 10, 2), Cidr(4, 15, 4),
     T("ip", 4, 6), T("ip", 4, 15), T("ip", 4, 0), Cidr(6, 2, 1), T("ip", 6, 3),
     T("ip", 6, 0), T("range", 4, 1) @@ [endFamily |-> 6, end |-> 3], T("other", 0, 0)}

(* GeoIPEntry: sources of every type, with all the errors. *)
Src(type, f, addr, bits) ==
    [type |-> type, family |-> f, addr |-> addr, bits |-> bits, form |-> "address"]

Str(form, f, addr, bits) == [Src("string", f, addr, bits) EXCEPT !.form = form]

MCTexts ==
    {Str("cidr", "4", 2, 1), Str("address", "4in6", 1, 0), Str("cidr", "6", 9, 3),
     Str("cidr", "4in6", 2, 4), Str("cidr", "4in6", 2, 2), Str("comment", "none", 0, 0),
     Str("cidr", "none", 0, 0)}

MCSources ==
    {Src("net.IP", "4in6", 3, 0), Src("net.IP", "none", 3, 0), Src("*net.IPNet", "4", 1, 1),
     Src("*net.IPNet", "4in6", 1, 4), Src("*net.IPNet", "4in6", 1, 1),
     Src("*net.IPNet", "4", 2, 3), Src("*net.IPNet", "none", 1, 4),
     Src("*net.IPNet", "6", 9, 2), Src("netip.Addr", "6", 8, 0),
     Src("*netip.Addr", "none", 0, 0), Src("netip.Prefix", "4in6", 3, 4),
     Src("netip.Prefix", "4in6", 3, 2), Src("*netip.Prefix", "4", 3, 3),
     Src("netip.Prefix", "none", 3, 3), Src("other", "4", 0, 0),
     Str("comment", "none", 0, 0), Str("cidr", "4in6", 0, 4)}

MCOptions == {<< >>, <<"4", "nil">>, <<"6", "4">>, <<"6">>}

(* SrsCodec: single rules with every item, and pairs of those that fail,   *)
(* nest, or are kept as sets. *)
Rule(items, inv) == [type |-> "default", items |-> items, invert |-> inv]

Logical(mode, rs, inv) == [type |-> "logical", mode |-> mode, rules |-> rs, invert |-> inv]

Names == Rule([Domain |-> <<"a", "b">>, DomainSuffix |-> <<"c">>,
               DomainKeyword |-> <<"k">>], FALSE)

Suffix == Rule([DomainSuffix |-> <<"c">>], TRUE)

Nets == Rule([SourceIPCIDR |-> <<"p">>, IPCIDR |-> <<"p", "q">>], FALSE)

BadNet == Rule([Network |-> <<"tcp">>, IPCIDR |-> <<"p", "oops">>], FALSE)

NetType == Rule([NetworkType |-> <<1>>, NetworkIsExpensive |-> <<TRUE>>,
                 WIFISSID |-> <<"w">>], TRUE)

Ads == Rule([AdGuardDomain |-> <<"ad">>], FALSE)

Many ==
    Rule([QueryType |-> <<1, 28>>, DomainRegex |-> <<"r">>, SourcePort |-> <<1>>,
          SourcePortRange |-> <<"1:2">>, Port |-> <<2>>, PortRange |-> <<"3:4">>,
          ProcessName |-> <<"n">>, ProcessPath |-> <<"p">>, ProcessPathRegex |-> <<"x">>,
          PackageName |-> <<"g">>, WIFIBSSID |-> <<"b">>,
          NetworkIsConstrained |-> <<TRUE>>], FALSE)

Nested == Logical("and", <<Suffix, Logical("or", <<Nets, Ads>>, FALSE)>>, TRUE)

Half == Logical("or", <<Names, BadNet>>, FALSE)

MCRules ==
    {Names, Suffix, Nets, BadNet, NetType, Ads, Many, Nested, Nested.rules[2], Half,
     Rule(<< >>, FALSE), Logical("xor", << >>, FALSE)}

MCRuleSets ==
    {<< >>} \cup {<<r>> : r \in MCRules \ {Nested.rules[2]}}
    \cup {Suffix, BadNet, NetType, Nested, Half} \X {Names, Half, Nested, Ads}

MCCovers == [p |-> {1, 2}, q |-> {2, 3}]

Tokens(s) == [i \in DOMAIN s |-> [t |-> s[i][1], v |-> s[i][2]]]

One(s) == Tokens(<< <<"magic", "SRS">>, <<"version", 3>>, <<"length", 1>> >> \o s)

MCForeign ==
    {<< >>,
     Tokens(<< <<"magic", "ZIP">>, <<"version", 1>>, <<"length", 0>> >>),
     Tokens(<< <<"magic", "SRS">>, <<"version", 4>>, <<"length", 0>> >>),
     One(<< <<"type", 2>> >>),
     One(<< <<"type", 0>>, <<"item", "Later">>, <<"final", "final">>, <<"bool", FALSE>> >>),
     One(<< <<"type", 1>>, <<"mode", "xor">>, <<"length", 0>>, <<"bool", FALSE>> >>)}

(* SrsDuration: words of 8 bits; terms at the limit, over it in each of    *)
(* the ways, with fractions that are cut, and with everything missing.     *)
Term(digits, dot, fraction, unit) ==
    [digits |-> digits, dot |-> dot, fraction |-> fraction, unit |-> unit]

Number(digits, unit) == Term(digits, FALSE, << >>, unit)

MCUnits == [n |-> 1, s |-> 10, h |-> 12]

(* As far off as a float may be. *)
MCFloatTimes(x, unit, scale) ==
    LET q == (x * unit) \div scale
        r == (x * unit) % scale
    IN  IF unit % scale = 0 THEN q
        ELSE IF 4 * r < scale /\ q > 0 THEN q - 1
        ELSE IF 4 * (scale - r) < scale THEN q + 1 ELSE q

MCTerms ==
    {Number(<<0>>, ""), Number(<<1, 2, 8>>, "n"), Number(<<6, 4>>, "n"), Number(<<1, 2, 9>>, "n"),
     Number(<<1, 3, 0>>, "n"), Number(<<1, 0>>, "h"), Number(<<1, 1>>, "h"), Number(<<8>>, "n"),
     Term(<<1, 0>>, TRUE, <<9>>, "h"), Term(<< >>, TRUE, <<0, 8, 3, 4>>, "h"),
     Term(<<1>>, TRUE, << >>, "s"), Term(<< >>, TRUE, << >>, "s"),
     Term(<<1, 1>>, TRUE, <<8>>, "s"), Term(<<2>>, TRUE, <<2, 5>>, "h"),
     Term(<<1>>, TRUE, <<2>>, ""), Number(<< >>, "x"), Number(<<1>>, "x")}
=============================================================================
