----------------------------- MODULE CidrRanges -----------------------------
(***************************************************************************)
(* The package src/cidr: texts are parsed to ranges of addresses, which    *)
(* are sorted and merged, and put out as ranges or as networks. The two    *)
(* loops, that of the merge and that of the split into networks, are taken *)
(* step by step. An address is a number of as many bits as its family has. *)
(***************************************************************************)
EXTENDS Powers, Sequences, Functions

CONSTANTS
    Bits,       \* the length of the addresses of each family
    Texts,      \* what is parsed
    MaxTexts    \* bound: how many texts are parsed

Families == DOMAIN Bits

Size(f) == Pow2(Bits[f])

(* A text is a CIDR, an address, a range, or no such thing; a family of 0  *)
(* stands for an address that does not parse.                              *)
WidthsAssumption ==
    /\ Bits \in [Families -> Nat \ {0}] /\ Families \subseteq Nat
    /\ \A t \in Texts :
         /\ t.form \in {"cidr", "ip", "range", "other"}
         /\ t.family \in Families => t.start \in 0 .. Size(t.family) - 1
         /\ t.form = "cidr" /\ t.family \in Families => t.bits \in 0 .. Bits[t.family]
         /\ t.form = "range" /\ t.family \in Families /\ t.endFamily \in Families =>
              t.end \in 0 .. Size(t.endFamily) - 1

VARIABLES
    texts,      \* what was parsed without an error
    wrappers,   \* what came of it
    ranges,     \* SortAndMerge: the ranges that are left
    now,        \* the range that grows
    merged,     \* its result
    outputType, \* MarshalText: "range" or "cidr"
    rest,       \* what is left to put out; the first one from s on
    result,
    pc

vars == <<texts, wrappers, ranges, now, merged, outputType, rest, result, pc>>

-----------------------------------------------------------------------------
Pow(f, bits) == Pow2(Bits[f] - bits)

(* lastIp: the address with all its host bits set. *)
LastIp(f, ip, bits) == (ip \div Pow(f, bits)) * Pow(f, bits) + Pow(f, bits) - 1

(* addOne, which goes from the last address to the first one. *)
AddOne(f, ip) == (ip + 1) % Size(f)

AllFF(f, ip) == ip = Size(f) - 1

(* prefixLength of the xor of two addresses: the length of the shortest    *)
(* prefix that tells them apart, or 0.                                     *)
Prefix(f, ip, k) == ip \div Pow(f, k)

PrefixLengthXor(f, a, b) ==
    IF a = b THEN 0
    ELSE CHOOSE k \in 1 .. Bits[f] :
           Prefix(f, a, k) # Prefix(f, b, k) /\ Prefix(f, a, k - 1) = Prefix(f, b, k - 1)

TrailingZeros(f, ip) ==
    CHOOSE k \in 0 .. Bits[f] :
        ip % Pow2(k) = 0 /\ (k < Bits[f] => ip % Pow2(k + 1) # 0)

Larger(a, b) == IF a < b THEN b ELSE a

(* The prefix length of the first network of a range. The slip does not    *)
(* look at the end.                                                        *)
Widest(f, s, end) == Bits[f] - TrailingZeros(f, s)

NetBits(f, s, end) ==
    Larger(PrefixLengthXor(f, AddOne(f, end), s), Bits[f] - TrailingZeros(f, s))

Range_(f, start, end) == [form |-> "range", family |-> f, start |-> start, end |-> end]

Net(f, ip, bits) ==
    [form |-> "net", family |-> f, start |-> ip, end |-> LastIp(f, ip, bits), bits |-> bits]

Ip(f, ip) == [form |-> "ip", family |-> f, start |-> ip, end |-> ip]

ToRange(r) == Range_(r.family, r.start, r.end)

(* ParseRange. net.ParseCIDR clears the host bits. *)
Parses(t) ==
    /\ t.form # "other" /\ t.family \in Families
    /\ t.form = "range" => t.endFamily = t.family /\ t.start <= t.end

ParseRange(t) ==
    CASE t.form = "cidr"  ->
           Net(t.family, LastIp(t.family, t.start, t.bits) - Pow(t.family, t.bits) + 1, t.bits)
      [] t.form = "ip"    -> Ip(t.family, t.start)
      [] t.form = "range" -> Range_(t.family, t.start, t.end)

-----------------------------------------------------------------------------
Init ==
    /\ texts = << >> /\ wrappers = << >>
    /\ ranges = << >> /\ now = << >> /\ merged = << >>
    /\ outputType = "none"
    /\ rest = << >> /\ result = << >>
    /\ pc = "parse"

Parse(t) ==
    /\ pc = "parse"
    /\ Len(texts) < MaxTexts
    /\ IF Parses(t)
       THEN texts' = Append(texts, t) /\ wrappers' = Append(wrappers, ParseRange(t))
       ELSE UNCHANGED <<texts, wrappers>>
    /\ UNCHANGED <<ranges, now, merged, outputType, rest, result, pc>>

(* Ranges.Less, and the orders sort.Sort may leave: it is not stable.      *)
LessThan(f, a, g, b) == f < g \/ (f = g /\ a < b)

Orders(n) == {p \in [1 .. n -> 1 .. n] : \A k \in 1 .. n : \E i \in 1 .. n : p[i] = k}

Sorts(rs) ==
    {s \in {[i \in DOMAIN rs |-> rs[p[i]]] : p \in Orders(Len(rs))} :
        \A i \in 1 .. Len(s) - 1 :
            ~ LessThan(s[i + 1].family, s[i + 1].start, s[i].family, s[i].start)}

SortAndMerge ==
    /\ pc = "parse"
    /\ IF Len(wrappers) < 2
       THEN /\ merged' = wrappers
            /\ pc' = "merged"
            /\ UNCHANGED <<ranges, now>>
       ELSE /\ \E s \in Sorts([i \in DOMAIN wrappers |-> ToRange(wrappers[i])]) :
                 now' = <<Head(s)>> /\ ranges' = Tail(s)
            /\ pc' = "merge"
            /\ UNCHANGED merged
    /\ UNCHANGED <<texts, wrappers, outputType, rest, result>>

(* Does the next range go on where this one ends, or before? The slip does  *)
(* not ask for the last address, behind which there is no other one.       *)
NoLastAddress(r, next) == next.start <= AddOne(r.family, r.end)

Joins(r, next) == AllFF(r.family, r.end) \/ next.start <= AddOne(r.family, r.end)

MergeOne ==
    LET r == now[1]
        next == Head(ranges)
    IN  /\ pc = "merge" /\ ranges # << >>
        /\ IF next.family = r.family /\ Joins(r, next)
           THEN /\ now' = <<[r EXCEPT !.end = Larger(@, next.end)]>>
                /\ UNCHANGED merged
           ELSE /\ merged' = Append(merged, r)
                /\ now' = <<next>>
        /\ ranges' = Tail(ranges)
        /\ UNCHANGED <<texts, wrappers, outputType, rest, result, pc>>

EndMerge ==
    /\ pc = "merge" /\ ranges = << >>
    /\ merged' = merged \o now
    /\ now' = << >>
    /\ pc' = "merged"
    /\ UNCHANGED <<texts, wrappers, ranges, outputType, rest, result>>

MarshalText(type) ==
    /\ pc = "merged"
    /\ outputType' = type
    /\ IF type = "range"
       THEN result' = [i \in DOMAIN merged |-> ToRange(merged[i])] /\ rest' = << >>
       ELSE result' = << >> /\ rest' = merged
    /\ pc' = "split"
    /\ UNCHANGED <<texts, wrappers, ranges, now, merged>>

(* Is there more of the range behind a network? The slip is off by one.    *)
MoreAtEnd(net, r) == net.end <= r.end

MoreBehind(net, r) == net.end < r.end

(* ToIpNets: of an address or a network at once, of a range one network    *)
(* after another.                                                          *)
ToIpNets ==
    LET r == Head(rest)
        net == CASE r.form = "net" -> r
                 [] r.form = "ip"  -> Net(r.family, r.start, Bits[r.family])
                 [] OTHER -> Net(r.family, r.start, NetBits(r.family, r.start, r.end))
    IN  /\ pc = "split" /\ rest # << >>
        /\ IF r.start > r.end
           THEN pc' = "panic" /\ UNCHANGED <<rest, result>>
           ELSE /\ result' = Append(result, net)
                /\ rest' = IF MoreBehind(net, r)
                           THEN <<[r EXCEPT !.start = AddOne(r.family, net.end)]>> \o Tail(rest)
                           ELSE Tail(rest)
                /\ UNCHANGED pc
        /\ UNCHANGED <<texts, wrappers, ranges, now, merged, outputType>>

Next ==
    \/ \E t \in Texts : Parse(t)
    \/ SortAndMerge \/ MergeOne \/ EndMerge
    \/ \E type \in {"range", "cidr"} : MarshalText(type)
    \/ ToIpNets

Spec == Init /\ [][Next]_vars

-----------------------------------------------------------------------------
(* Types: every range that the loops have is one of its family, and the    *)
(* assertions of the package hold, so the split never panics.              *)
IsRange(r) == r.family \in Families /\ r.start <= r.end /\ r.end < Size(r.family)

TypeOK ==
    /\ \A i \in DOMAIN texts : texts[i] \in Texts
    /\ \A s \in {wrappers, ranges, now, merged, rest, result} :
         \A i \in DOMAIN s : IsRange(s[i])
    /\ Len(now) <= 1
    /\ pc \in {"parse", "merge", "merged", "split"}

Addresses(s) ==
    UNION {{<<s[i].family, a>> : a \in s[i].start .. s[i].end} : i \in DOMAIN s}

(* Each begins behind the one before it, with a gap where they are merged. *)
Apart(s, gap) ==
    \A i \in 1 .. Len(s) - 1 :
        LessThan(s[i].family, s[i].end + gap, s[i + 1].family, s[i + 1].start)

(* A network is aligned and inside a range, and a larger one would not be: *)
(* there are no fewer networks that make up the range.                     *)
AsWideAsCan(net, r) ==
    LET size == net.end - net.start + 1
        wide == (net.start \div (2 * size)) * 2 * size
    IN  /\ net.start % size = 0
        /\ r.start <= net.start /\ net.end <= r.end
        /\ ~ (r.start <= wide /\ wide + 2 * size - 1 <= r.end)

(* Merging keeps the addresses, and leaves ranges in order, none of which  *)
(* touch; what is put out has the same addresses, in as few networks as    *)
(* can be, each one once. The first and the last address of a family are   *)
(* no exception. (SortAndMerge, MarshalText, Range.ToIpNets, addOne)       *)
RangesExact ==
    /\ pc \in {"merged", "split"} =>
         /\ Addresses(merged) = Addresses(wrappers)
         /\ Apart(merged, 1)
    /\ pc = "split" /\ rest = << >> =>
         /\ Addresses(result) = Addresses(wrappers)
         /\ Apart(result, 0)
         /\ outputType = "range" => Len(result) = Len(merged)
         /\ outputType = "cidr" =>
              \A i \in DOMAIN result : \E j \in DOMAIN merged :
                  result[i].family = merged[j].family /\ AsWideAsCan(result[i], merged[j])
=============================================================================
