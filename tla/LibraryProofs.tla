---------------------------- MODULE LibraryProofs ----------------------------
(***************************************************************************)
(* Proofs about Library, one part after another.                           *)
(***************************************************************************)
EXTENDS Library, Powers, InductionFacts

-----------------------------------------------------------------------------
(* The entries of addresses. *)
Given == Sources \cup Texts

Taken == {s \in Given : E!processPrefix(s).error = "no"}

Calls == [op : {"add", "remove"}, source : Taken]

LEMMA WidthFacts ==
    ASSUME NEW f \in E!Families
    PROVE  E!Width(f) \in Nat
  BY BoundsAssumption DEF E!SourcesAssumption, E!Families, E!Width

(* A block of one address. *)
LEMMA BlockOfOne ==
    ASSUME NEW f \in E!Families, NEW addr \in 0 .. 2 ^ E!Width(f) - 1
    PROVE  E!Block(f, addr, E!Width(f)) = {addr}
  <1>1. E!Width(f) - E!Width(f) = 0
    BY WidthFacts
  <1>2. 2 ^ 0 = 1
    OBVIOUS
  <1>3. \A a \in Int : a \div 1 = a
    OBVIOUS
  <1> DEFINE W == 2 ^ E!Width(f)
  <1>4. addr \in Int
    OBVIOUS
  <1>5. E!Block(f, addr, E!Width(f)) = {a \in 0 .. W - 1 : a \div 1 = addr \div 1}
    BY <1>1, <1>2, Zenon DEF E!Block
  <1> HIDE DEF W
  <1>6. addr \in 0 .. W - 1
    BY DEF W
  <1> QED BY <1>3, <1>5, <1>6

(* What processPrefix makes of a source has the addresses the source means. *)
PrefixExact(p, m) ==
    /\ p.family \in E!Families /\ p.family = m.family
    /\ E!Valid(p) => E!Block(p.family, p.addr, p.bits) = m.addresses
    /\ ~ E!Valid(p) => m.addresses = {}

LEMMA PrefixMeans ==
    ASSUME NEW s \in Taken
    PROVE  PrefixExact(E!processPrefix(s), E!Meant(s))
  <1> DEFINE p == E!processPrefix(s)
             m == E!Meant(s)
             f == E!Unmap(s.family)
  <1>1. /\ s.type \in E!GoTypes
        /\ s.family \in {"4", "4in6", "6", "none"}
        /\ s.type = "string" => s.form \in {"cidr", "address", "comment"}
        /\ s.bits \in Int
        /\ s.family # "none" => s.addr \in 0 .. 2 ^ E!Width(f) - 1
        /\ E!HasMask(s) => s.bits \in 0 .. E!Width("6")
    <2>1. s \in Sources \cup Texts
      BY DEF Taken, Given
    <2>2. E!SourcesAssumption
      BY BoundsAssumption, Zenon
    <2> QED BY <2>1, <2>2, Zenon DEF E!SourcesAssumption
  <1>2. p.error = "no"
    BY DEF Taken
  <1>3. s.family # "none" => f \in E!Families /\ E!Width(f) \in Nat
    BY <1>1, WidthFacts DEF E!Unmap, E!Families, f
  <1>4. W4 \in Nat /\ Mapped \in Nat /\ W4 < Mapped
    BY BoundsAssumption DEF E!SourcesAssumption
  <1> HIDE DEF p, m, f
  <1>5. CASE \/ s.type \in {"net.IP", "netip.Addr", "*netip.Addr"}
             \/ s.type = "string" /\ s.form = "address"
    <2>1. /\ s.family # "none"
          /\ p = E!Pfx(f, s.addr, E!Width(f))
      BY <1>2, <1>5, <1>1 DEF E!processPrefix, E!OfIP, E!OfAddr, E!OfString, E!Host, E!Error, p, f
    <2>2. m.family = f /\ m.addresses = {s.addr}
      BY <1>5 DEF E!Meant, E!Unmap, f, m
    <2>3. E!Block(f, s.addr, E!Width(f)) = {s.addr}
      BY <1>1, <1>3, <2>1, BlockOfOne
    <2>4. E!Valid(p)
      BY <1>3, <2>1 DEF E!Valid, E!Pfx
    <2>5. p.family = f /\ p.addr = s.addr /\ p.bits = E!Width(f)
      BY <2>1 DEF E!Pfx
    <2> QED BY <1>3, <2>1, <2>2, <2>3, <2>4, <2>5 DEF PrefixExact, p, m
  <1>6. CASE s.type = "*net.IPNet" \/ (s.type = "string" /\ s.form = "cidr")
    <2>1. /\ s.family # "none"
          /\ p = E!Pfx(f, s.addr, s.bits)
      <3>1. p = E!OfIPNet(s)
        <4>1. CASE s.type = "*net.IPNet"
          BY <1>1, <4>1 DEF E!processPrefix, p
        <4>2. CASE s.type = "string" /\ s.form = "cidr"
          <5>1. p = E!OfString(s)
            BY <4>2 DEF E!processPrefix, p
          <5>2. \/ p = E!Error("invalid CIDR")
                \/ p = E!OfIPNet(s) /\ ~ (s.family = "4in6" /\ s.bits < Mapped)
            BY <4>2, <5>1 DEF E!OfString
          <5>3. E!Error("invalid CIDR").error # "no"
            BY DEF E!Error
          <5> QED BY <1>2, <5>2, <5>3
        <4> QED BY <1>6, <4>1, <4>2
      <3> QED BY <1>2, <3>1 DEF E!OfIPNet, E!Error, f
    <2>2. p.family = f /\ p.addr = s.addr /\ p.bits = s.bits
      BY <2>1 DEF E!Pfx
    <2>3. /\ m.family = f
          /\ m.addresses = IF s.bits > E!Width(f) THEN {} ELSE E!Block(f, s.addr, s.bits)
      BY <1>6 DEF E!Meant, E!Unmap, f, m
    <2>4. s.bits \in Nat
      BY <1>1, <1>3, <1>4, <1>6 DEF E!HasMask, E!Width
    <2>5. E!Valid(p) <=> s.bits <= E!Width(f)
      BY <1>3, <2>1, <2>2, <2>4 DEF E!Valid
    <2>6. s.bits > E!Width(f) <=> ~ E!Valid(p)
      BY <1>3, <2>1, <2>4, <2>5
    <2> QED BY <1>3, <2>1, <2>2, <2>3, <2>6 DEF PrefixExact, p, m
  <1>7. CASE s.type \in {"netip.Prefix", "*netip.Prefix"}
    <2> DEFINE b == E!BitsUnmapped(s)
    <2>1. /\ s.family # "none"
          /\ p = E!Pfx(f, s.addr, b)
          /\ b \in 0 .. E!Width(f)
      BY <1>2, <1>7 DEF E!processPrefix, E!OfPrefix, E!Error, p, f
    <2>2. p.family = f /\ p.addr = s.addr /\ p.bits = b
      BY <2>1 DEF E!Pfx
    <2>3. E!Valid(p)
      BY <2>1, <2>2 DEF E!Valid
    <2>4. m.family = f /\ m.addresses = E!Block(f, s.addr, b)
      BY <1>7 DEF E!Meant, E!Unmap, E!BitsUnmapped, f, m
    <2> QED BY <1>3, <2>1, <2>2, <2>3, <2>4 DEF PrefixExact, p, m
  <1> QED BY <1>1, <1>2, <1>5, <1>6, <1>7 DEF E!GoTypes, E!processPrefix, E!OfString, E!Error, p

(* The addresses a log can be about. *)
Named(calls) == UNION {E!Meant(calls[k].source).addresses : k \in 1 .. Len(calls)}

Replays(calls, f) ==
    CHOOSE g : g = [k \in 0 .. Len(calls) |->
                      IF k = 0 THEN {} ELSE E!Replay(calls[k], f, g[k - 1])]

(* The recursion defines a function. *)
LEMMA ReplaysFunction ==
    ASSUME NEW X, NEW calls \in Seq(X), NEW f
    PROVE  /\ \A n : E!Replayed(calls, n, f) = Replays(calls, f)[n]
           /\ Replays(calls, f)[0] = {}
           /\ \A n \in 1 .. Len(calls) :
                Replays(calls, f)[n] = E!Replay(calls[n], f, Replays(calls, f)[n - 1])
  <1> DEFINE N == Len(calls)
             none == {}
             V == SUBSET Named(calls)
             Then(n, v) == E!Replay(calls[n], f, v)
             next == [n \in 1 .. N |-> [v \in V |-> Then(n, v)]]
             Body(g) == [n \in 0 .. N |-> IF n = 0 THEN none ELSE Then(n, g[n - 1])]
             all == Replays(calls, f)
  <1>1. N \in Nat /\ none \in V
    OBVIOUS
  <1>2. \A n \in 1 .. N, v \in V : next[n][v] = Then(n, v)
    OBVIOUS
  <1>3. ASSUME NEW n \in 1 .. N, NEW v \in V
        PROVE  Then(n, v) \in V
    <2>1. E!Meant(calls[n].source).addresses \subseteq Named(calls)
      BY DEF Named
    <2>2. \/ Then(n, v) = v
          \/ Then(n, v) = v \cup E!Meant(calls[n].source).addresses
          \/ Then(n, v) = v \ E!Meant(calls[n].source).addresses
      BY DEF E!Replay
    <2> HIDE DEF Then
    <2> QED BY <2>1, <2>2
  <1>4. \A n : E!Replayed(calls, n, f) = all[n]
    BY DEF E!Replayed, Replays
  <1>5. all = CHOOSE g : g = Body(g)
    BY DEF Replays
  <1> HIDE DEF next, N, none, V, Then, all
  <1>6. \A n \in 1 .. N, v \in V : next[n][v] \in V
    BY <1>2, <1>3
  <1>7. PICK g : IsRecursive(g, N, V, none, next)
    <2>1. IsStep(next, N, V)
      BY <1>6 DEF IsStep
    <2> QED BY <1>1, <2>1, RecursiveFunction
  <1>8. g = Body(g)
    <2>1. ASSUME NEW n \in 1 .. N
          PROVE  g[n] = Then(n, g[n - 1])
      <3>1. n - 1 \in 0 .. N
        BY <1>1
      <3>2. g[n - 1] \in V
        BY <1>7, <3>1 DEF IsRecursive
      <3> QED BY <1>2, <1>7, <3>2 DEF IsRecursive
    <2> QED BY <1>1, <1>7, <2>1 DEF IsRecursive
  <1>9. all = Body(all)
    BY <1>5, <1>8
  <1>10. all[0] = none /\ \A n \in 1 .. N : all[n] = Then(n, all[n - 1])
    BY <1>1, <1>9
  <1> QED BY <1>4, <1>10 DEF N, none, Then, all

(* One more call changes nothing of what was replayed before it. *)
LEMMA ReplayedAppend ==
    ASSUME NEW X, NEW calls \in Seq(X), NEW c \in X, NEW f
    PROVE  /\ \A k \in 0 .. Len(calls) :
                E!Replayed(Append(calls, c), k, f) = E!Replayed(calls, k, f)
           /\ E!Replayed(Append(calls, c), Len(calls) + 1, f) =
                E!Replay(c, f, E!Replayed(calls, Len(calls), f))
           /\ E!Replayed(calls, 0, f) = {}
  <1> DEFINE more == Append(calls, c)
             n == Len(calls)
             a == Replays(calls, f)
             b == Replays(more, f)
             Good == {k \in 0 .. n : b[k] = a[k]}
  <1>1. /\ n \in Nat /\ more \in Seq(X) /\ Len(more) = n + 1 /\ more[n + 1] = c
        /\ \A k \in 1 .. n : more[k] = calls[k]
    OBVIOUS
  <1> HIDE DEF more
  <1>2. /\ a[0] = {}
        /\ \A k \in 1 .. n : a[k] = E!Replay(calls[k], f, a[k - 1])
        /\ \A k : E!Replayed(calls, k, f) = a[k]
    BY ReplaysFunction
  <1>3. /\ b[0] = {}
        /\ \A k \in 1 .. n + 1 : b[k] = E!Replay(more[k], f, b[k - 1])
        /\ \A k : E!Replayed(more, k, f) = b[k]
    BY <1>1, ReplaysFunction
  <1> HIDE DEF n, a, b
  <1>4. 0 \in Good
    <2>1. b[0] = a[0]
      BY <1>2, <1>3, Zenon
    <2>2. 0 \in 0 .. n
      BY <1>1
    <2> QED BY <2>1, <2>2
  <1>5. ASSUME NEW k \in 0 .. n - 1, k \in Good
        PROVE  k + 1 \in Good
    <2>1. k + 1 \in 1 .. n /\ k + 1 \in 1 .. n + 1 /\ k + 1 - 1 = k /\ k + 1 \in 0 .. n
      BY <1>1
    <2>2. b[k] = a[k]
      BY <1>5
    <2>3. b[k + 1] = E!Replay(more[k + 1], f, b[k])
      BY <1>3, <2>1
    <2>4. a[k + 1] = E!Replay(calls[k + 1], f, a[k])
      BY <1>2, <2>1
    <2>5. more[k + 1] = calls[k + 1]
      BY <1>1, <2>1, Zenon
    <2>6. b[k + 1] = a[k + 1]
      BY <2>2, <2>3, <2>4, <2>5, Zenon
    <2> QED BY <2>1, <2>6
  <1> HIDE DEF Good
  <1>6. 0 .. n \subseteq Good
    BY <1>1, <1>4, <1>5, InductionUpTo
  <1>7. \A k \in 0 .. n : b[k] = a[k]
    BY <1>6 DEF Good
  <1>8. n + 1 \in 1 .. n + 1 /\ n + 1 - 1 = n /\ n \in 0 .. n
    BY <1>1
  <1>9. b[n + 1] = E!Replay(c, f, a[n])
    BY <1>1, <1>3, <1>7, <1>8
  <1> QED BY <1>2, <1>3, <1>7, <1>9 DEF more, n

-----------------------------------------------------------------------------
(* The builders have what all the calls come to, the sets what the calls   *)
(* came to that were seen when they were built.                            *)
Room(f) == 0 .. 2 ^ E!Width(f) - 1

Builders(f) == {E!None} \cup {<<b>> : b \in [in : SUBSET Room(f), errs : BOOLEAN]}

IPSets(f) == {E!None} \cup {<<a>> : a \in SUBSET Room(f)}

EntryTypes ==
    /\ log \in Seq(Calls)
    /\ builder = [f \in E!Families |-> builder[f]]
    /\ set = [f \in E!Families |-> set[f]]
    /\ \A f \in E!Families : builder[f] \in Builders(f) /\ set[f] \in IPSets(f)
    /\ seen \in [E!Families -> 0 .. Len(log)]

InStep(b, st, n, total, frozen) ==
    /\ b = E!None => total = {} /\ st = E!None
    /\ b # E!None => b[1].in = total
    /\ st # E!None => st[1] = frozen
    /\ st = E!None => n = 0

FamilyInv(f) ==
    InStep(builder[f], set[f], seen[f],
           E!Replayed(log, Len(log), f), E!Replayed(log, seen[f], f))

Frozen(fs) == UNION {{<<f, a>> : a \in E!Replayed(log, seen[f], f)} : f \in fs}

AnswerInv ==
    /\ read.error = "no" => read.addresses = Frozen(read.of)
    /\ read.error \in {"no set", "no prefix"} => Frozen(read.of) = {}

EntryInv == EntryTypes /\ AnswerInv /\ \A f \in E!Families : FamilyInv(f)

LEMMA NoneReplayed ==
    ASSUME NEW X, NEW calls \in Seq(X), NEW f
    PROVE  E!Replayed(calls, 0, f) = {}
  <1>1. \A n : E!Replayed(calls, n, f) = Replays(calls, f)[n]
    BY ReplaysFunction
  <1>2. Replays(calls, f)[0] = {}
    BY ReplaysFunction
  <1> QED BY <1>1, <1>2

LEMMA EntryInit ==
    ASSUME E!Init
    PROVE  EntryInv
  <1>1. log = << >> /\ log \in Seq(Calls) /\ Len(log) = 0
    BY DEF E!Init
  <1>2. EntryTypes
    BY <1>1 DEF E!Init, EntryTypes, Builders, IPSets
  <1>3. AnswerInv
    BY DEF E!Init, AnswerInv, E!NoAnswer
  <1>4. ASSUME NEW f \in E!Families
        PROVE  FamilyInv(f)
    <2>1. E!Replayed(log, 0, f) = {}
      BY <1>1, NoneReplayed
    <2> QED BY <1>1, <2>1 DEF E!Init, FamilyInv, InStep
  <1> QED BY <1>2, <1>3, <1>4 DEF EntryInv

LEMMA OneMore ==
    ASSUME NEW X, NEW s \in Seq(X), NEW x \in X
    PROVE  Append(s, x) \in Seq(X) /\ Len(Append(s, x)) = Len(s) + 1
  OBVIOUS

(* The builder of one family changes with a call. *)
LEMMA OneCall ==
    ASSUME EntryInv, NEW c \in Calls, NEW g \in E!Families, NEW new \in Builders(g),
           g = E!Meant(c.source).family,
           log' = Append(log, c), builder' = [builder EXCEPT ![g] = new],
           InStep(new, set[g], seen[g],
                  E!Replay(c, g, E!Replayed(log, Len(log), g)), E!Replayed(log, seen[g], g)),
           set' = set, seen' = seen, read' = E!NoAnswer
    PROVE  EntryInv'
  <1> DEFINE n == Len(log)
  <1>1. EntryTypes /\ \A f \in E!Families : FamilyInv(f)
    BY DEF EntryInv
  <1>2. log \in Seq(Calls) /\ n \in Nat
    BY <1>1 DEF EntryTypes
  <1>3. log' \in Seq(Calls) /\ Len(log') = n + 1
    <2>1. Append(log, c) \in Seq(Calls) /\ Len(Append(log, c)) = n + 1
      BY <1>2, OneMore
    <2> QED BY <2>1
  <1>4. ASSUME NEW f
        PROVE  /\ \A k \in 0 .. n : E!Replayed(log', k, f) = E!Replayed(log, k, f)
               /\ E!Replayed(log', n + 1, f) = E!Replay(c, f, E!Replayed(log, n, f))
    <2> DEFINE more == Append(log, c)
    <2>1. /\ \A k \in 0 .. Len(log) : E!Replayed(more, k, f) = E!Replayed(log, k, f)
          /\ E!Replayed(more, Len(log) + 1, f) = E!Replay(c, f, E!Replayed(log, Len(log), f))
      <3>1. log \in Seq(Calls) /\ c \in Calls
        BY <1>2
      <3> QED BY ONLY <3>1, ReplayedAppend, SMTT(60)
    <2>2. log' = more
      OBVIOUS
    <2> HIDE DEF more
    <2> QED BY <2>1, <2>2
  <1>5. EntryTypes'
    <2>1. seen' \in [E!Families -> 0 .. Len(log')]
      BY <1>1, <1>2, <1>3 DEF EntryTypes
    <2>2. builder' = [f \in E!Families |-> builder'[f]]
      BY <1>1 DEF EntryTypes
    <2>3. \A f \in E!Families : builder'[f] \in Builders(f)
      BY <1>1 DEF EntryTypes
    <2> QED BY <1>1, <1>3, <2>1, <2>2, <2>3 DEF EntryTypes
  <1>6. AnswerInv'
    BY DEF AnswerInv, E!NoAnswer
  <1>7. ASSUME NEW f \in E!Families
        PROVE  FamilyInv(f)'
    <2>1. /\ E!Replayed(log', n + 1, f) = E!Replay(c, f, E!Replayed(log, n, f))
          /\ E!Replayed(log', seen[f], f) = E!Replayed(log, seen[f], f)
      <3>1. seen[f] \in 0 .. n
        BY <1>1 DEF EntryTypes
      <3> QED BY <1>4, <3>1
    <2>2. FamilyInv(f)
      BY <1>1
    <2>3. CASE f = g
      <3>1. builder'[f] = new
        BY <1>1, <2>3 DEF EntryTypes
      <3> QED BY <1>3, <2>1, <2>3, <3>1 DEF FamilyInv
    <2>4. CASE f # g
      <3>1. builder'[f] = builder[f]
        BY <1>1, <2>4 DEF EntryTypes
      <3>2. E!Replay(c, f, E!Replayed(log, n, f)) = E!Replayed(log, n, f)
        BY <2>4 DEF E!Replay
      <3> QED BY <1>3, <2>1, <2>2, <3>1, <3>2 DEF FamilyInv
    <2> QED BY <2>3, <2>4
  <1> QED BY <1>5, <1>6, <1>7 DEF EntryInv

LEMMA BlockInRoom ==
    ASSUME NEW f \in E!Families, NEW addr, NEW bits
    PROVE  E!Block(f, addr, bits) \subseteq Room(f)
  BY DEF E!Block, Room

(* What the library does to a builder that has this set. *)
LEMMA BuilderSteps ==
    ASSUME NEW f \in E!Families, NEW b \in [in : SUBSET Room(f), errs : BOOLEAN],
           NEW p, NEW m, PrefixExact(p, m), p.family = f
    PROVE  /\ E!Added(b, p) \in [in : SUBSET Room(f), errs : BOOLEAN]
           /\ E!Added(b, p).in = b.in \cup m.addresses
           /\ E!Removed(b, p) \in [in : SUBSET Room(f), errs : BOOLEAN]
           /\ E!Removed(b, p).in = b.in \ m.addresses
  <1>1. CASE E!Valid(p)
    <2>1. E!Block(p.family, p.addr, p.bits) = m.addresses
      BY <1>1 DEF PrefixExact
    <2>2. m.addresses \subseteq Room(f)
      BY <2>1, BlockInRoom
    <2> QED BY <1>1, <2>1, <2>2 DEF E!Added, E!Removed
  <1>2. CASE ~ E!Valid(p)
    <2>1. m.addresses = {}
      BY <1>2 DEF PrefixExact
    <2> QED BY <1>2, <2>1 DEF E!Added, E!Removed
  <1> QED BY <1>1, <1>2

LEMMA TupleOfOne ==
    \A b : <<b>> # E!None /\ <<b>>[1] = b
  BY DEF E!None

LEMMA NothingCalled ==
    ASSUME EntryInv, UNCHANGED <<builder, log, set, seen>>, read' = E!NoAnswer
    PROVE  EntryInv'
  BY DEF EntryInv, EntryTypes, FamilyInv, AnswerInv, E!NoAnswer

LEMMA EntryAdds ==
    ASSUME EntryInv, NEW s \in Sources, E!AddPrefix(s)
    PROVE  EntryInv'
  <1> DEFINE p == E!processPrefix(s)
             m == E!Meant(s)
             f == p.family
             c == [op |-> "add", source |-> s]
             old == builder[f]
             b == IF old = E!None THEN E!NewBuilder ELSE old[1]
             new == <<E!Added(b, p)>>
             n == Len(log)
             total == E!Replayed(log, n, f)
  <1>1. CASE p.error # "no"
    BY <1>1, NothingCalled DEF E!AddPrefix
  <1>2. CASE p.error = "no"
    <2>1. /\ builder' = [builder EXCEPT ![f] = new]
          /\ log' = Append(log, c)
          /\ set' = set /\ seen' = seen /\ read' = E!NoAnswer
      BY <1>2 DEF E!AddPrefix, E!add
    <2>2. s \in Taken
      BY <1>2 DEF Taken, Given
    <2>3. PrefixExact(p, m)
      BY <2>2, PrefixMeans
    <2>4. f \in E!Families /\ f = m.family /\ c \in Calls
      BY <2>2, <2>3 DEF PrefixExact, Calls
    <2>5. FamilyInv(f) /\ old \in Builders(f) /\ set[f] \in IPSets(f)
      BY <2>4 DEF EntryInv, EntryTypes
    <2>6. InStep(old, set[f], seen[f], total, E!Replayed(log, seen[f], f))
      BY <2>5 DEF FamilyInv
    <2> HIDE DEF p, m, f, old, total
    <2>7. b \in [in : SUBSET Room(f), errs : BOOLEAN] /\ b.in = total
      <3>1. CASE old = E!None
        BY <2>6, <3>1 DEF InStep, E!NewBuilder
      <3>2. CASE old # E!None
        <4>1. PICK x \in [in : SUBSET Room(f), errs : BOOLEAN] : old = <<x>>
          BY <2>5, <3>2 DEF Builders
        <4> QED BY <2>6, <3>2, <4>1 DEF InStep
      <3> QED BY <3>1, <3>2
    <2> HIDE DEF b
    <2>8. /\ E!Added(b, p) \in [in : SUBSET Room(f), errs : BOOLEAN]
          /\ E!Added(b, p).in = b.in \cup m.addresses
      BY <2>3, <2>4, <2>7, BuilderSteps DEF f
    <2>9. new \in Builders(f) /\ new # E!None /\ new[1] = E!Added(b, p)
      BY <2>8, TupleOfOne DEF Builders
    <2>10. E!Replay(c, f, total) = total \cup m.addresses
      BY <2>4 DEF E!Replay, m
    <2> HIDE DEF new
    <2>11. InStep(new, set[f], seen[f], E!Replay(c, f, total), E!Replayed(log, seen[f], f))
      BY <2>6, <2>7, <2>8, <2>9, <2>10 DEF InStep
    <2>12. f = E!Meant(c.source).family
      BY <2>4 DEF m
    <2> HIDE DEF c
    <2> QED BY <2>1, <2>4, <2>9, <2>11, <2>12, OneCall DEF total
  <1> QED BY <1>1, <1>2

LEMMA EntryRemoves ==
    ASSUME EntryInv, NEW s \in Texts, E!RemovePrefix(s)
    PROVE  EntryInv'
  <1> DEFINE p == E!processPrefix(s)
             m == E!Meant(s)
             f == p.family
             c == [op |-> "remove", source |-> s]
             old == builder[f]
             new == IF old = E!None THEN E!None ELSE <<E!Removed(old[1], p)>>
             n == Len(log)
             total == E!Replayed(log, n, f)
  <1>1. CASE p.error # "no"
    BY <1>1, NothingCalled DEF E!RemovePrefix
  <1>2. CASE p.error = "no"
    <2>1. /\ builder' = [builder EXCEPT ![f] = new]
          /\ log' = Append(log, c)
          /\ set' = set /\ seen' = seen /\ read' = E!NoAnswer
      BY <1>2 DEF E!RemovePrefix, E!remove
    <2>2. s \in Taken
      BY <1>2 DEF Taken, Given
    <2>3. PrefixExact(p, m)
      BY <2>2, PrefixMeans
    <2>4. f \in E!Families /\ f = m.family /\ c \in Calls
      BY <2>2, <2>3 DEF PrefixExact, Calls
    <2>5. FamilyInv(f) /\ old \in Builders(f) /\ set[f] \in IPSets(f)
      BY <2>4 DEF EntryInv, EntryTypes
    <2>6. InStep(old, set[f], seen[f], total, E!Replayed(log, seen[f], f))
      BY <2>5 DEF FamilyInv
    <2>10. E!Replay(c, f, total) = total \ m.addresses
      BY <2>4 DEF E!Replay
    <2>12. f = E!Meant(c.source).family
      BY <2>4
    <2> HIDE DEF p, m, f, old, total
    <2>7. CASE old = E!None
      <3>1. total = {} /\ new = E!None /\ E!Replay(c, f, total) = {}
        BY <2>6, <2>7, <2>10 DEF InStep
      <3>2. new \in Builders(f)
        BY <3>1 DEF Builders
      <3>3. InStep(new, set[f], seen[f], E!Replay(c, f, total), E!Replayed(log, seen[f], f))
        BY <2>6, <2>7, <3>1 DEF InStep
      <3> HIDE DEF new, c
      <3> QED BY <2>1, <2>4, <2>12, <3>2, <3>3, OneCall DEF total
    <2>8. CASE old # E!None
      <3>1. PICK b \in [in : SUBSET Room(f), errs : BOOLEAN] : old = <<b>>
        BY <2>5, <2>8 DEF Builders
      <3>2. /\ E!Removed(b, p) \in [in : SUBSET Room(f), errs : BOOLEAN]
            /\ E!Removed(b, p).in = b.in \ m.addresses
        BY <2>3, <2>4, BuilderSteps DEF f
      <3>3. b.in = total
        BY <2>6, <2>8, <3>1, TupleOfOne DEF InStep
      <3>4. new = <<E!Removed(b, p)>>
        BY <2>8, <3>1, TupleOfOne
      <3>5. new \in Builders(f) /\ new # E!None /\ new[1] = E!Removed(b, p)
        BY <3>2, <3>4, TupleOfOne DEF Builders
      <3> HIDE DEF new
      <3>6. InStep(new, set[f], seen[f], E!Replay(c, f, total), E!Replayed(log, seen[f], f))
        BY <2>6, <2>8, <2>10, <3>2, <3>3, <3>5 DEF InStep
      <3> HIDE DEF c
      <3> QED BY <2>1, <2>4, <2>12, <3>5, <3>6, OneCall DEF total
    <2> QED BY <2>7, <2>8
  <1> QED BY <1>1, <1>2

(* A family keeps its builder, but for the errors it noted, and may get a  *)
(* set of what the builder has. *)
LEMMA OneBuild ==
    ASSUME EntryInv, log' = log,
           builder' = [f \in E!Families |-> builder'[f]],
           set' = [f \in E!Families |-> set'[f]],
           seen' = [f \in E!Families |-> seen'[f]],
           \A f \in E!Families :
               /\ \/ builder'[f] = builder[f]
                  \/ /\ builder[f] # E!None
                     /\ builder'[f] = <<[builder[f][1] EXCEPT !.errs = FALSE]>>
               /\ \/ set'[f] = set[f] /\ seen'[f] = seen[f]
                  \/ /\ builder[f] # E!None
                     /\ set'[f] = <<builder[f][1].in>> /\ seen'[f] = Len(log)
    PROVE  EntryTypes' /\ \A f \in E!Families : FamilyInv(f)'
  <1>1. EntryTypes /\ log \in Seq(Calls) /\ Len(log) \in Nat
    BY DEF EntryInv, EntryTypes
  <1>2. ASSUME NEW f \in E!Families
        PROVE  /\ builder'[f] \in Builders(f) /\ set'[f] \in IPSets(f)
               /\ seen'[f] \in 0 .. Len(log) /\ FamilyInv(f)'
    <2> DEFINE Rec == [in : SUBSET Room(f), errs : BOOLEAN]
               n == Len(log)
               total == E!Replayed(log, n, f)
    <2>1. /\ builder[f] \in Builders(f) /\ set[f] \in IPSets(f)
          /\ seen[f] \in 0 .. n /\ FamilyInv(f)
      BY <1>1 DEF EntryInv, EntryTypes
    <2>2. InStep(builder[f], set[f], seen[f], total, E!Replayed(log, seen[f], f))
      BY <2>1 DEF FamilyInv
    <2>3. /\ builder'[f] \in Builders(f)
          /\ builder'[f] = E!None <=> builder[f] = E!None
          /\ builder[f] # E!None => builder'[f][1].in = total /\ builder[f][1].in = total
          /\ builder[f] # E!None => total \in SUBSET Room(f)
      <3>1. CASE builder[f] = E!None
        BY <2>1, <3>1
      <3>2. CASE builder[f] # E!None
        <4>1. PICK b \in Rec : builder[f] = <<b>>
          BY <2>1, <3>2 DEF Builders
        <4>2. b.in = total /\ b.in \in SUBSET Room(f)
          BY <2>2, <3>2, <4>1, TupleOfOne DEF InStep
        <4> DEFINE c == [b EXCEPT !.errs = FALSE]
        <4>3. c \in Rec /\ c.in = total
          BY <4>2
        <4>4. builder'[f] \in {<<b>>, <<c>>}
          BY <4>1, TupleOfOne
        <4> HIDE DEF c
        <4> QED BY <3>2, <4>1, <4>2, <4>3, <4>4, TupleOfOne DEF Builders
      <3> QED BY <3>1, <3>2
    <2>4. CASE set'[f] = set[f] /\ seen'[f] = seen[f]
      <3>1. InStep(builder'[f], set[f], seen[f], total, E!Replayed(log, seen[f], f))
        BY <2>2, <2>3 DEF InStep
      <3> QED BY <2>1, <2>3, <2>4, <3>1 DEF FamilyInv
    <2>5. CASE /\ builder[f] # E!None
               /\ set'[f] = <<builder[f][1].in>> /\ seen'[f] = n
      <3>1. set'[f] = <<total>> /\ set'[f] # E!None /\ set'[f][1] = total
        BY <2>3, <2>5, TupleOfOne
      <3>2. InStep(builder'[f], set'[f], n, total, total)
        BY <2>3, <2>5, <3>1 DEF InStep
      <3>3. set'[f] \in IPSets(f)
        BY <2>3, <2>5, <3>1 DEF IPSets
      <3> QED BY <1>1, <2>3, <2>5, <3>2, <3>3 DEF FamilyInv
    <2> QED BY <2>4, <2>5
  <1>3. seen' \in [E!Families -> 0 .. Len(log')]
    BY <1>2
  <1> QED BY <1>1, <1>2, <1>3 DEF EntryTypes

LEMMA EntryBuilds ==
    ASSUME EntryInv, log' = log, E!buildIPSet
    PROVE  EntryTypes' /\ \A f \in E!Families : FamilyInv(f)'
  <1>1. /\ builder = [f \in E!Families |-> builder[f]]
        /\ set = [f \in E!Families |-> set[f]]
        /\ seen = [f \in E!Families |-> seen[f]]
    BY DEF EntryInv, EntryTypes
  <1>2. "4" \in E!Families /\ "6" \in E!Families
    BY DEF E!Families
  <1>3. ASSUME NEW g \in E!Families, E!Broken(g), E!Forgets(g)
        PROVE  /\ builder' = [f \in E!Families |-> builder'[f]]
               /\ \A f \in E!Families :
                    \/ builder'[f] = builder[f]
                    \/ /\ builder[f] # E!None
                       /\ builder'[f] = <<[builder[f][1] EXCEPT !.errs = FALSE]>>
    <2>1. builder[g] # E!None
      BY <1>3 DEF E!Broken, E!ToBuild
    <2> DEFINE new == <<[builder[g][1] EXCEPT !.errs = FALSE]>>
    <2>2. builder' = builder \/ builder' = [builder EXCEPT ![g] = new]
      BY <1>3 DEF E!Forgets
    <2> HIDE DEF new
    <2>3. /\ builder' = [f \in E!Families |-> builder'[f]]
          /\ \A f \in E!Families :
               builder'[f] = builder[f] \/ (f = g /\ builder'[f] = new)
      BY <1>1, <2>2
    <2> QED BY <2>1, <2>3 DEF new
  <1>4. ASSUME NEW fs, E!Build(fs)
        PROVE  /\ set' = [f \in E!Families |-> set'[f]]
               /\ seen' = [f \in E!Families |-> seen'[f]]
               /\ \A f \in E!Families :
                    \/ set'[f] = set[f] /\ seen'[f] = seen[f]
                    \/ /\ builder[f] # E!None
                       /\ set'[f] = <<builder[f][1].in>> /\ seen'[f] = Len(log)
    BY <1>4 DEF E!Build, E!ToBuild
  <1>5. CASE E!Broken("4")
    BY <1>1, <1>2, <1>3, <1>5, OneBuild DEF E!buildIPSet
  <1>6. CASE ~ E!Broken("4") /\ E!Broken("6")
    <2>1. E!Forgets("6") /\ E!Build({"4"})
      BY <1>6 DEF E!buildIPSet
    <2> QED BY <1>2, <1>3, <1>4, <1>6, <2>1, OneBuild
  <1>7. CASE ~ E!Broken("4") /\ ~ E!Broken("6")
    <2>1. UNCHANGED builder /\ E!Build(E!Families)
      BY <1>7 DEF E!buildIPSet
    <2> QED BY <1>1, <1>4, <2>1, OneBuild
  <1> QED BY <1>5, <1>6, <1>7

LEMMA EntryReads ==
    ASSUME EntryInv, NEW fs \in SUBSET E!Families, NEW error \in {"no set", "no prefix"},
           E!Read(fs, error)
    PROVE  EntryInv'
  <1> DEFINE out == UNION {{<<f, a>> : a \in set'[f][1]} : f \in {g \in fs : set'[g] # E!None}}
             Says(e) == [error |-> e, of |-> fs, addresses |-> IF e = "no" THEN out ELSE {}]
             e1 == IF E!BuildFails THEN "build"
                   ELSE IF E!Lack(error, fs, out) THEN error ELSE "no"
  <1>1. E!buildIPSet /\ log' = log /\ read' = Says(e1)
    BY DEF E!Read
  <1>2. EntryTypes' /\ \A f \in E!Families : FamilyInv(f)'
    BY <1>1, EntryBuilds
  <1>3. ASSUME NEW f \in fs
        PROVE  /\ set'[f] # E!None => set'[f][1] = E!Replayed(log', seen'[f], f)
               /\ set'[f] = E!None => E!Replayed(log', seen'[f], f) = {}
    <2>1. InStep(builder'[f], set'[f], seen'[f],
                 E!Replayed(log', Len(log'), f), E!Replayed(log', seen'[f], f))
      BY <1>2 DEF FamilyInv
    <2>2. E!Replayed(log', 0, f) = {}
      BY <1>2, NoneReplayed DEF EntryTypes
    <2> QED BY <2>1, <2>2 DEF InStep
  <1>4. out = Frozen(fs)'
    <2> DEFINE Has(f) == E!Replayed(log', seen'[f], f)
    <2>1. Frozen(fs)' = UNION {{<<f, a>> : a \in Has(f)} : f \in fs}
      BY DEF Frozen
    <2>2. \A f \in fs : /\ set'[f] # E!None => set'[f][1] = Has(f)
                        /\ set'[f] = E!None => Has(f) = {}
      BY <1>3
    <2> HIDE DEF Has
    <2>3. out = UNION {{<<f, a>> : a \in Has(f)} : f \in fs}
      <3>1. ASSUME NEW x \in out
            PROVE  x \in UNION {{<<f, a>> : a \in Has(f)} : f \in fs}
        <4>1. PICK f \in fs : set'[f] # E!None /\ x \in {<<f, a>> : a \in set'[f][1]}
          BY <3>1
        <4>2. x \in {<<f, a>> : a \in Has(f)}
          BY <2>2, <4>1
        <4>3. {<<f, a>> : a \in Has(f)} \in {{<<g, a>> : a \in Has(g)} : g \in fs}
          BY Zenon
        <4> QED BY <4>2, <4>3, Zenon
      <3>2. ASSUME NEW f \in fs, NEW x \in {<<f, a>> : a \in Has(f)}
            PROVE  x \in out
        <4>1. set'[f] # E!None
          BY <2>2
        <4>2. x \in {<<f, a>> : a \in set'[f][1]}
          BY <2>2, <4>1
        <4> QED BY <4>1, <4>2
      <3> HIDE DEF out
      <3> QED BY <3>1, <3>2
    <2> QED BY <2>1, <2>3
  <1>5. (\A f \in fs : set'[f] = E!None) => out = {}
    OBVIOUS
  <1> HIDE DEF out
  <1>6. /\ read'.error = e1 /\ read'.of = fs
        /\ e1 = "no" => read'.addresses = out
    BY <1>1
  <1>7. e1 \in {"no set", "no prefix"} => out = {}
    BY <1>5 DEF E!Lack
  <1> HIDE DEF e1
  <1>8. AnswerInv'
    BY <1>4, <1>6, <1>7 DEF AnswerInv, Frozen
  <1> QED BY <1>2, <1>8 DEF EntryInv

LEMMA EntryNext ==
    ASSUME EntryInv, [E!Next]_(E!vars)
    PROVE  EntryInv'
  <1>1. CASE UNCHANGED E!vars
    <2>1. /\ builder' = builder /\ set' = set /\ log' = log
          /\ seen' = seen /\ read' = read
      BY <1>1 DEF E!vars
    <2>2. EntryTypes' = EntryTypes /\ AnswerInv' = AnswerInv
      BY <2>1 DEF EntryTypes, AnswerInv, Frozen
    <2>3. ASSUME NEW f
          PROVE  FamilyInv(f)' = FamilyInv(f)
      BY <2>1 DEF FamilyInv
    <2> QED BY <2>2, <2>3 DEF EntryInv
  <1>2. ASSUME NEW s \in Sources, E!AddPrefix(s)
        PROVE  EntryInv'
    BY <1>2, EntryAdds
  <1>3. ASSUME NEW s \in Texts, E!RemovePrefix(s)
        PROVE  EntryInv'
    BY <1>3, EntryRemoves
  <1>4. ASSUME NEW f \in E!Families, E!GetSet(f)
        PROVE  EntryInv'
    BY <1>4, EntryReads DEF E!GetSet
  <1>5. ASSUME NEW opts \in Options, E!Marshal(opts)
        PROVE  EntryInv'
    BY <1>5, EntryReads DEF E!Marshal
  <1> QED BY <1>1, <1>2, <1>3, <1>4, <1>5 DEF E!Next

LEMMA EntryStays ==
    ASSUME [Next]_vars
    PROVE  [E!Next]_(E!vars)
  BY DEF Next, vars, MatchersStep, CidrStep, EntryStep, SrsStep, DurationStep, E!vars, entry

LEMMA EntryInvHolds ==
    Spec => []EntryInv
  <1>1. Init => EntryInv
    BY EntryInit DEF Init
  <1>2. EntryInv /\ [Next]_vars => EntryInv'
    BY EntryStays, EntryNext
  <1> QED BY <1>1, <1>2, PTL DEF Spec

(* What is read of an Entry is what was added to it and not removed again, *)
(* up to the read that built its sets: of any sources, in any order, with  *)
(* builders that are missing or noted errors. (AddPrefix, RemovePrefix,    *)
(* buildIPSet, GetIPv4Set, MarshalPrefix of src/geoip/entry.go)            *)
THEOREM EntryHasWhatWasAdded == Spec => []EntryExact
  <1>1. EntryInv => EntryExact
    <2> SUFFICES ASSUME EntryInv
                 PROVE  EntryExact
      OBVIOUS
    <2>1. \A f \in E!Families : set[f] # E!None => set[f][1] = E!Replayed(log, seen[f], f)
      BY DEF EntryInv, FamilyInv, InStep
    <2>2. AnswerInv
      BY DEF EntryInv
    <2> QED BY <2>1, <2>2 DEF EntryExact, E!EntryExact, AnswerInv, Frozen
  <1> QED BY <1>1, EntryInvHolds, PTL

-----------------------------------------------------------------------------
(* Powers of two, and the blocks of as many numbers: the networks. *)
PowersTo(n) ==
    CHOOSE g : g = [k \in 0 .. n |-> IF k = 0 THEN 1 ELSE 2 * g[k - 1]]

LEMMA PowersFunction ==
    ASSUME NEW n \in Nat
    PROVE  /\ Pow2(n) = PowersTo(n)[n]
           /\ PowersTo(n)[0] = 1
           /\ \A k \in 1 .. n : PowersTo(n)[k] = 2 * PowersTo(n)[k - 1]
           /\ \A k \in 0 .. n : PowersTo(n)[k] \in Nat
  <1> DEFINE next == [k \in 1 .. n |-> [v \in Nat |-> 2 * v]]
             Body(g) == [k \in 0 .. n |-> IF k = 0 THEN 1 ELSE 2 * g[k - 1]]
             all == PowersTo(n)
  <1>1. Pow2(n) = all[n]
    BY DEF Pow2, PowersTo
  <1>2. all = CHOOSE g : g = Body(g)
    BY DEF PowersTo
  <1>3. IsStep(next, n, Nat)
    BY DEF IsStep
  <1>4. \A k \in 1 .. n, v \in Nat : next[k][v] = 2 * v
    OBVIOUS
  <1> HIDE DEF next, all
  <1>5. PICK g : IsRecursive(g, n, Nat, 1, next)
    BY <1>3, RecursiveFunction
  <1>6. g = Body(g)
    <2>1. ASSUME NEW k \in 1 .. n
          PROVE  g[k] = 2 * g[k - 1]
      <3>1. k - 1 \in 0 .. n
        OBVIOUS
      <3> QED BY <1>4, <1>5, <3>1 DEF IsRecursive
    <2> QED BY <1>5, <2>1 DEF IsRecursive
  <1>7. all = Body(all)
    BY <1>2, <1>6
  <1>8. all[0] = 1 /\ \A k \in 1 .. n : all[k] = 2 * all[k - 1]
    BY <1>7
  <1> DEFINE Good == {k \in 0 .. n : all[k] \in Nat}
  <1>9. 0 \in Good
    BY <1>8
  <1>10. \A k \in 0 .. n - 1 : k \in Good => k + 1 \in Good
    BY <1>8
  <1> HIDE DEF Good
  <1>11. 0 .. n \subseteq Good
    BY <1>9, <1>10, InductionUpTo
  <1>12. \A k \in 0 .. n : all[k] \in Nat
    BY <1>11 DEF Good
  <1> QED BY <1>1, <1>8, <1>12 DEF all

LEMMA PowerOfNone == Pow2(0) = 1
  BY PowersFunction

LEMMA PowersGrow ==
    ASSUME NEW n \in Nat
    PROVE  Pow2(n + 1) = 2 * Pow2(n)
  <1> DEFINE a == PowersTo(n)
             b == PowersTo(n + 1)
             Good == {k \in 0 .. n : a[k] = b[k]}
  <1>1. /\ a[0] = 1 /\ b[0] = 1
        /\ \A k \in 1 .. n : a[k] = 2 * a[k - 1]
        /\ \A k \in 1 .. n + 1 : b[k] = 2 * b[k - 1]
        /\ Pow2(n) = a[n] /\ Pow2(n + 1) = b[n + 1]
    BY PowersFunction
  <1> HIDE DEF a, b
  <1>2. 0 \in Good
    BY <1>1
  <1>3. \A k \in 0 .. n - 1 : k \in Good => k + 1 \in Good
    BY <1>1
  <1> HIDE DEF Good
  <1>4. 0 .. n \subseteq Good
    BY <1>2, <1>3, InductionUpTo
  <1>5. a[n] = b[n]
    BY <1>4 DEF Good
  <1> QED BY <1>1, <1>5

LEMMA PowersPositive ==
    \A n \in Nat : Pow2(n) \in Nat \ {0}
  <1> DEFINE Good == {n \in Nat : Pow2(n) \in Nat \ {0}}
  <1>1. 0 \in Good
    BY PowerOfNone
  <1>2. ASSUME NEW n \in Nat, n \in Good
        PROVE  n + 1 \in Good
    BY <1>2, PowersGrow
  <1> HIDE DEF Good
  <1>3. Nat \subseteq Good
    BY <1>1, <1>2, Induction
  <1> QED BY <1>3 DEF Good

(* A power is a multiple of each one before it. *)
LEMMA PowersDivide ==
    ASSUME NEW m \in Nat, NEW n \in Nat, m <= n
    PROVE  \E c \in Nat \ {0} : Pow2(n) = c * Pow2(m)
  <1> DEFINE Good == {k \in 0 .. n - m : \E c \in Nat \ {0} : Pow2(m + k) = c * Pow2(m)}
             N == n - m
  <1>1. 0 \in Good
    BY PowersPositive
  <1>2. ASSUME NEW k \in 0 .. N - 1, k \in Good
        PROVE  k + 1 \in Good
    <2>1. PICK c \in Nat \ {0} : Pow2(m + k) = c * Pow2(m)
      BY <1>2
    <2>2. Pow2((m + k) + 1) = 2 * Pow2(m + k)
      BY PowersGrow
    <2>3. Pow2(m) \in Nat
      BY PowersPositive
    <2>4. Pow2(m + (k + 1)) = (2 * c) * Pow2(m)
      <3>1. m + (k + 1) = (m + k) + 1
        OBVIOUS
      <3>2. 2 * (c * Pow2(m)) = (2 * c) * Pow2(m)
        BY <2>3
      <3> QED BY <2>1, <2>2, <3>1, <3>2
    <2>5. 2 * c \in Nat \ {0} /\ k + 1 \in 0 .. n - m
      OBVIOUS
    <2> QED BY <2>4, <2>5
  <1> HIDE DEF Good
  <1>3. 0 .. N \subseteq Good
    BY <1>1, <1>2, InductionUpTo
  <1>4. N \in Good
    BY <1>3
  <1>5. m + N = n
    OBVIOUS
  <1> QED BY <1>4, <1>5 DEF Good

(* Blocks: 2^k addresses that begin at a multiple of 2^k. *)
Start(x, k) == (x \div Pow2(k)) * Pow2(k)

Aligned(x, k) == \E q \in Nat : x = q * Pow2(k)

LEMMA DivFacts ==
    ASSUME NEW x \in Nat, NEW b \in Nat \ {0}
    PROVE  /\ x \div b \in Nat /\ x % b \in Nat /\ x % b < b
           /\ (x \div b) * b \in Nat
           /\ x = (x \div b) * b + (x % b)
  OBVIOUS

LEMMA DivIs ==
    ASSUME NEW x \in Nat, NEW b \in Nat \ {0}, NEW q \in Nat, q * b <= x, x < q * b + b
    PROVE  x \div b = q
  OBVIOUS

LEMMA MultiplesApart ==
    ASSUME NEW i \in Nat, NEW j \in Nat, NEW b \in Nat, i * b < j * b
    PROVE  i * b + b <= j * b
  OBVIOUS

LEMMA StartFacts ==
    ASSUME NEW x \in Nat, NEW k \in Nat
    PROVE  /\ Start(x, k) \in Nat /\ Aligned(Start(x, k), k)
           /\ Start(x, k) <= x /\ x < Start(x, k) + Pow2(k)
           /\ x % Pow2(k) = x - Start(x, k)
  <1>1. Pow2(k) \in Nat \ {0}
    BY PowersPositive
  <1>2. x \div Pow2(k) \in Nat
    BY <1>1, DivFacts
  <1>3. Aligned(Start(x, k), k)
    BY <1>2 DEF Start, Aligned
  <1> DEFINE b == Pow2(k)
             a == (x \div b) * b
  <1>4. x % b < b /\ a \in Nat /\ x = a + (x % b) /\ x % b \in Nat
    BY <1>1, DivFacts
  <1>5. Start(x, k) = a
    BY DEF Start
  <1> HIDE DEF a
  <1>6. a <= x /\ x < a + b /\ x % b = x - a
    BY <1>1, <1>4
  <1> QED BY <1>3, <1>4, <1>5, <1>6

LEMMA AlignedApart ==
    ASSUME NEW k \in Nat, NEW a, NEW b, Aligned(a, k), Aligned(b, k), a < b
    PROVE  a + Pow2(k) <= b
  <1>1. Pow2(k) \in Nat
    BY PowersPositive
  <1>2. PICK i \in Nat : a = i * Pow2(k)
    BY DEF Aligned
  <1>3. PICK j \in Nat : b = j * Pow2(k)
    BY DEF Aligned
  <1> QED BY <1>1, <1>2, <1>3, MultiplesApart

LEMMA AlignedFacts ==
    ASSUME NEW k \in Nat, NEW x, Aligned(x, k)
    PROVE  x \in Nat /\ Aligned(x + Pow2(k), k) /\ Start(x, k) = x
  <1>1. Pow2(k) \in Nat \ {0}
    BY PowersPositive
  <1>2. PICK q \in Nat : x = q * Pow2(k)
    BY DEF Aligned
  <1>3. x \in Nat
    BY <1>1, <1>2
  <1>4. x + Pow2(k) = (q + 1) * Pow2(k)
    BY <1>1, <1>2
  <1>5. x \div Pow2(k) = q
    BY <1>1, <1>2, <1>3, DivIs
  <1> QED BY <1>2, <1>3, <1>4, <1>5 DEF Aligned, Start

LEMMA AlignedIsRemainder ==
    ASSUME NEW k \in Nat, NEW x \in Nat
    PROVE  Aligned(x, k) <=> x % Pow2(k) = 0
  <1>1. ASSUME Aligned(x, k)
        PROVE  x % Pow2(k) = 0
    BY <1>1, StartFacts, AlignedFacts
  <1>2. ASSUME x % Pow2(k) = 0
        PROVE  Aligned(x, k)
    <2> DEFINE a == Start(x, k)
    <2>1. a \in Nat /\ Aligned(a, k) /\ x % Pow2(k) = x - a
      BY StartFacts
    <2> HIDE DEF a
    <2>2. x = a
      BY <1>2, <2>1
    <2> QED BY <2>1, <2>2
  <1> QED BY <1>1, <1>2

(* Blocks are nested. *)
LEMMA AlignedDown ==
    ASSUME NEW k \in Nat, NEW m \in Nat, m <= k, NEW x, Aligned(x, k)
    PROVE  Aligned(x, m)
  <1>1. PICK c \in Nat \ {0} : Pow2(k) = c * Pow2(m)
    BY PowersDivide
  <1>2. PICK q \in Nat : x = q * Pow2(k)
    BY DEF Aligned
  <1>3. Pow2(m) \in Nat /\ q * c \in Nat
    BY PowersPositive
  <1>4. q * (c * Pow2(m)) = (q * c) * Pow2(m)
    BY <1>3
  <1> QED BY <1>1, <1>2, <1>3, <1>4 DEF Aligned

LEMMA BlocksNest ==
    ASSUME NEW k \in Nat, NEW m \in Nat, m <= k, NEW x \in Nat
    PROVE  /\ Start(x, k) <= Start(x, m)
           /\ Start(x, m) + Pow2(m) <= Start(x, k) + Pow2(k)
  <1> DEFINE a == Start(x, k)
             b == Start(x, m)
  <1>1. /\ a \in Nat /\ Aligned(a, k) /\ a <= x /\ x < a + Pow2(k)
        /\ b \in Nat /\ Aligned(b, m) /\ b <= x /\ x < b + Pow2(m)
    BY StartFacts
  <1> HIDE DEF a, b
  <1>2. Pow2(k) \in Nat /\ Pow2(m) \in Nat
    BY PowersPositive
  <1>3. Aligned(a + Pow2(k), k) /\ a + Pow2(k) \in Nat
    BY <1>1, <1>2, AlignedFacts
  <1>4. Aligned(a, m) /\ Aligned(a + Pow2(k), m)
    BY <1>1, <1>3, AlignedDown
  <1>5. a <= b
    <2> SUFFICES ASSUME b < a
                 PROVE  FALSE
      BY <1>1
    <2>1. b + Pow2(m) <= a
      BY <1>1, <1>4, AlignedApart
    <2> QED BY <1>1, <1>2, <2>1
  <1>6. b + Pow2(m) <= a + Pow2(k)
    <2>1. b < a + Pow2(k)
      BY <1>1, <1>2
    <2> QED BY <1>1, <1>4, <2>1, AlignedApart
  <1> QED BY <1>5, <1>6 DEF a, b

LEMMA StartIs ==
    ASSUME NEW k \in Nat, NEW x \in Nat, NEW a, Aligned(a, k), a <= x, x < a + Pow2(k)
    PROVE  Start(x, k) = a
  <1>1. Pow2(k) \in Nat \ {0}
    BY PowersPositive
  <1>2. PICK q \in Nat : a = q * Pow2(k)
    BY DEF Aligned
  <1>3. x \div Pow2(k) = q
    BY <1>1, <1>2, DivIs
  <1> QED BY <1>2, <1>3 DEF Start

(* A block in the room of all addresses stays in it. *)
LEMMA BlocksInRoom ==
    ASSUME NEW k \in Nat, NEW m \in Nat, m <= k, NEW x \in Nat, x < Pow2(k)
    PROVE  Start(x, m) + Pow2(m) <= Pow2(k)
  <1>1. Aligned(0, k) /\ 0 + Pow2(k) = Pow2(k) /\ Pow2(k) \in Nat
    BY PowersPositive DEF Aligned
  <1>2. Start(x, k) = 0
    BY <1>1, StartIs
  <1> QED BY <1>1, <1>2, BlocksNest

-----------------------------------------------------------------------------
(* The ranges of addresses. *)
LEMMA SamePowers ==
    \A n : C!Pow2(n) = Pow2(n)
  BY DEF C!Pow2, Pow2

LEMMA WidthIsNat ==
    ASSUME NEW f \in C!Families
    PROVE  /\ Bits[f] \in Nat \ {0} /\ f \in Nat
           /\ C!Size(f) = Pow2(Bits[f])
           /\ \A k : C!Pow(f, k) = Pow2(Bits[f] - k)
  BY BoundsAssumption, SamePowers DEF C!WidthsAssumption, C!Size, C!Pow

LEMMA ZerosFacts ==
    ASSUME NEW f \in C!Families, NEW ip \in Nat
    PROVE  LET t == C!TrailingZeros(f, ip)
           IN  /\ t \in 0 .. Bits[f] /\ Aligned(ip, t)
               /\ t < Bits[f] => ~ Aligned(ip, t + 1)
  <1> DEFINE B == Bits[f]
             T == {k \in 0 .. B : Aligned(ip, k)}
  <1>1. B \in Nat
    BY WidthIsNat
  <1>2. 0 \in T
    <2>1. ip = ip * 1
      OBVIOUS
    <2>2. Aligned(ip, 0)
      BY <2>1, PowerOfNone DEF Aligned
    <2> QED BY <1>1, <2>2
  <1> HIDE DEF B
  <1>3. \A k \in 0 .. B : Aligned(ip, k) <=> ip % C!Pow2(k) = 0
    BY <1>1, AlignedIsRemainder, SamePowers
  <1>4. PICK m \in T : \A k \in T : k <= m
    <2>1. T \subseteq 0 .. B
      OBVIOUS
    <2> HIDE DEF T
    <2> QED BY <1>1, <1>2, <2>1, GreatestNumber
  <1>5. m < B => m + 1 \in 0 .. B /\ m + 1 \notin T
    BY <1>1, <1>4
  <1>6. \E k \in 0 .. B : ip % C!Pow2(k) = 0 /\ (k < B => ip % C!Pow2(k + 1) # 0)
    BY <1>3, <1>4, <1>5
  <1> DEFINE t == C!TrailingZeros(f, ip)
  <1>7. t \in 0 .. B /\ ip % C!Pow2(t) = 0 /\ (t < B => ip % C!Pow2(t + 1) # 0)
    BY <1>6, Zenon DEF C!TrailingZeros, B
  <1> HIDE DEF t
  <1>8. t < B => t + 1 \in 0 .. B
    BY <1>1, <1>7
  <1>9. t \in 0 .. B /\ Aligned(ip, t) /\ (t < B => ~ Aligned(ip, t + 1))
    BY <1>3, <1>7, <1>8
  <1> QED BY <1>9 DEF t, B

(* Two blocks of different addresses that begin differently, in one block  *)
(* twice as large.                                                         *)
LEMMA PrefixFacts ==
    ASSUME NEW f \in C!Families, NEW a \in 0 .. C!Size(f) - 1, NEW b \in 0 .. C!Size(f) - 1,
           a # b
    PROVE  LET q == Bits[f] - C!PrefixLengthXor(f, a, b)
           IN  /\ q \in 0 .. Bits[f] - 1 /\ C!PrefixLengthXor(f, a, b) \in Nat
               /\ Start(a, q) # Start(b, q) /\ Start(a, q + 1) = Start(b, q + 1)
  <1> DEFINE B == Bits[f]
             Differ(k) == C!Prefix(f, a, k) # C!Prefix(f, b, k)
             T == {k \in 1 .. B : Differ(k)}
  <1>1. B \in Nat \ {0} /\ a \in Nat /\ b \in Nat /\ a < Pow2(B) /\ b < Pow2(B)
    BY WidthIsNat, PowersPositive
  <1>2. ASSUME NEW x \in Nat
        PROVE  \A k : C!Prefix(f, x, k) = x \div Pow2(B - k)
    BY WidthIsNat DEF C!Prefix
  <1> HIDE DEF B
  <1>3. Differ(B)
    <2>1. B - B = 0
      BY <1>1
    <2>2. \A x \in Nat : x \div 1 = x
      OBVIOUS
    <2> QED BY <1>1, <1>2, <2>1, <2>2, PowerOfNone
  <1>4. ~ Differ(0)
    <2>1. ASSUME NEW x \in Nat, x < Pow2(B)
          PROVE  x \div Pow2(B) = 0
      BY <1>1, <2>1, DivIs, PowersPositive
    <2>2. B - 0 = B
      BY <1>1
    <2> QED BY <1>1, <1>2, <2>1, <2>2
  <1> HIDE DEF Differ
  <1>5. PICK m \in T : \A k \in T : m <= k
    <2>1. T \in SUBSET Nat /\ T # {}
      BY <1>1, <1>3
    <2> HIDE DEF T
    <2> QED BY <2>1, LeastNumber
  <1>6. m \in 1 .. B /\ Differ(m) /\ ~ Differ(m - 1)
    <2>1. m - 1 = 0 \/ (m - 1 \in 1 .. B /\ m - 1 \notin T)
      BY <1>1, <1>5
    <2> QED BY <1>4, <1>5, <2>1
  <1> DEFINE p == C!PrefixLengthXor(f, a, b)
  <1>7. p = CHOOSE k \in 1 .. B : Differ(k) /\ ~ Differ(k - 1)
    BY DEF C!PrefixLengthXor, Differ, B
  <1> HIDE DEF p
  <1>8. p \in 1 .. B /\ Differ(p) /\ ~ Differ(p - 1)
    BY <1>6, <1>7, Zenon
  <1> DEFINE q == B - p
  <1>9. q \in 0 .. B - 1 /\ B - (p - 1) = q + 1
    BY <1>1, <1>8
  <1>10. a \div Pow2(q) # b \div Pow2(q) /\ a \div Pow2(q + 1) = b \div Pow2(q + 1)
    BY <1>1, <1>2, <1>8, <1>9 DEF Differ
  <1> HIDE DEF q
  <1>11. ASSUME NEW i \in Nat, NEW j \in Nat, i # j
         PROVE  i * Pow2(q) # j * Pow2(q)
    <2>1. Pow2(q) \in Nat \ {0}
      BY <1>1, <1>9, PowersPositive
    <2>2. \A n \in Nat : (n * Pow2(q)) \div Pow2(q) = n
      BY <2>1
    <2> QED BY <1>11, <2>2
  <1>12. a \div Pow2(q) \in Nat /\ b \div Pow2(q) \in Nat
    BY <1>1, <1>9, PowersPositive, DivFacts
  <1>13. Start(a, q) # Start(b, q) /\ Start(a, q + 1) = Start(b, q + 1)
    BY <1>10, <1>11, <1>12 DEF Start
  <1>14. p \in Nat
    BY <1>8
  <1> QED BY <1>9, <1>13, <1>14 DEF q, p, B

(* The network the split takes first is the widest that begins there and   *)
(* does not go beyond the end. (NetBits)                                   *)
NetFits(f, s, e, bits) ==
    LET k == Bits[f] - bits
    IN  /\ bits \in 0 .. Bits[f]
        /\ Aligned(s, k) /\ s + Pow2(k) - 1 <= e
        /\ Aligned(s, k + 1) => e < s + Pow2(k + 1) - 1

LEMMA NetBitsFacts ==
    ASSUME NEW f \in C!Families, NEW s \in Nat, NEW e \in Nat, s <= e, e < C!Size(f)
    PROVE  NetFits(f, s, e, C!NetBits(f, s, e))
  <1> DEFINE B == Bits[f]
             z == C!TrailingZeros(f, s)
             next == C!AddOne(f, e)
             p == C!PrefixLengthXor(f, next, s)
             q == B - p
             bits == C!NetBits(f, s, e)
             k == B - bits
  <1>1. B \in Nat \ {0} /\ C!Size(f) = Pow2(B) /\ Pow2(B) \in Nat \ {0}
    BY WidthIsNat, PowersPositive
  <1>2. z \in 0 .. B /\ Aligned(s, z) /\ (z < B => ~ Aligned(s, z + 1))
    BY ZerosFacts
  <1>3. bits = C!Larger(p, B - z)
    BY DEF C!NetBits
  <1>4. next = IF e + 1 = Pow2(B) THEN 0 ELSE e + 1
    <2>1. next = (e + 1) % Pow2(B)
      BY <1>1 DEF C!AddOne
    <2>2. CASE e + 1 = Pow2(B)
      BY <1>1, <2>1, <2>2
    <2>3. CASE e + 1 < Pow2(B)
      BY <1>1, <2>1, <2>3
    <2> QED BY <1>1, <2>2, <2>3
  <1>5. next \in 0 .. Pow2(B) - 1 /\ s \in 0 .. Pow2(B) - 1
    BY <1>1, <1>4
  <1>6. CASE next = s
    <2>1. s = 0 /\ e + 1 = Pow2(B)
      BY <1>4, <1>6
    <2>2. p = 0
      BY <1>6 DEF C!PrefixLengthXor
    <2>3. Aligned(s, B)
      BY <1>1, <2>1 DEF Aligned
    <2>4. z = B
      <3> SUFFICES ASSUME z < B
                   PROVE  FALSE
        BY <1>1, <1>2
      <3>1. z + 1 \in Nat /\ z + 1 <= B
        BY <1>1, <1>2
      <3>2. Aligned(s, z + 1)
        BY <1>1, <2>3, <3>1, AlignedDown
      <3> QED BY <1>2, <3>2
    <2>5. bits = 0 /\ k = B
      BY <1>1, <1>3, <2>2, <2>4 DEF C!Larger
    <2>6. Pow2(B + 1) = 2 * Pow2(B)
      BY <1>1, PowersGrow
    <2> HIDE DEF k, bits, B
    <2>7. s + Pow2(B) - 1 <= e /\ e < s + Pow2(B + 1) - 1
      BY <1>1, <2>1, <2>6
    <2> QED BY <1>1, <2>3, <2>5, <2>7 DEF NetFits, k, bits, B
  <1>7. CASE next # s
    <2>1. /\ q \in 0 .. B - 1 /\ p \in Nat
          /\ Start(next, q) # Start(s, q) /\ Start(next, q + 1) = Start(s, q + 1)
      BY <1>1, <1>5, <1>7, PrefixFacts
    <2>2. p = B - q
      BY <1>1, <2>1
    <2> HIDE DEF p, q, z, next
    <2>3. k = IF q < z THEN q ELSE z
      BY <1>1, <1>2, <1>3, <2>1, <2>2 DEF C!Larger
    <2>4. bits = B - k /\ bits \in 0 .. B
      BY <1>1, <1>2, <1>3, <2>1, <2>2 DEF C!Larger
    <2> HIDE DEF k, bits, B
    <2>5. k \in Nat /\ k <= z /\ k <= q /\ k <= B /\ z \in Nat /\ q \in Nat
      BY <1>1, <1>2, <2>1, <2>3
    <2>6. Aligned(s, k)
      BY <1>2, <2>5, AlignedDown
    <2>7. Pow2(k) \in Nat \ {0} /\ Pow2(k + 1) = 2 * Pow2(k) /\ Pow2(q) \in Nat
      BY <2>5, PowersPositive, PowersGrow
    <2> DEFINE a == Start(s, q)
               b == Start(next, q)
    <2>8. /\ a \in Nat /\ Aligned(a, q) /\ a <= s /\ s < a + Pow2(q)
          /\ b \in Nat /\ Aligned(b, q) /\ b <= next /\ next < b + Pow2(q)
      <3>1. next \in Nat
        BY <1>1, <1>5
      <3> QED BY <2>5, <3>1, StartFacts
    <2> HIDE DEF a, b
    <2>9. CASE e + 1 = Pow2(B)
      <3>1. s + Pow2(k) <= Pow2(B)
        <4>1. Start(s, k) = s
          BY <2>5, <2>6, AlignedFacts
        <4> QED BY <1>1, <1>5, <2>5, <4>1, BlocksInRoom
      <3>2. ~ Aligned(s, k + 1)
        <4>1. z < B
          <5> SUFFICES ASSUME z = B
                       PROVE  FALSE
            BY <1>1, <1>2
          <5>1. s # 0 /\ Aligned(0, B) /\ Aligned(s, B)
            BY <1>1, <1>2, <1>4, <1>7, <2>9 DEF Aligned
          <5>2. 0 + Pow2(B) <= s
            BY <1>1, <5>1, AlignedApart
          <5> QED BY <1>1, <1>5, <5>2
        <4>2. next = 0 /\ Start(next, q + 1) = 0
          <5>1. Aligned(0, q + 1) /\ Pow2(q + 1) \in Nat \ {0}
            BY <2>5, PowersPositive DEF Aligned
          <5> QED BY <1>4, <2>5, <2>9, <5>1, StartIs
        <4>3. ~ Aligned(s, q + 1)
          <5> SUFFICES ASSUME Aligned(s, q + 1)
                       PROVE  FALSE
            OBVIOUS
          <5>1. Start(s, q + 1) = s
            BY <2>5, AlignedFacts
          <5> QED BY <1>7, <2>1, <4>2, <5>1
        <4>4. q + 1 \in Nat /\ z + 1 \in Nat
          BY <2>5
        <4> QED BY <1>2, <2>3, <4>1, <4>3
      <3> QED BY <1>1, <2>4, <2>6, <2>9, <2>5, <2>7, <3>1, <3>2 DEF NetFits, B, k, bits
    <2>10. CASE e + 1 # Pow2(B)
      <3>1. next = e + 1
        BY <1>4, <2>10
      <3>2. a < b
        <4> SUFFICES ASSUME b < a
                     PROVE  FALSE
          BY <2>1, <2>8 DEF a, b
        <4>1. b + Pow2(q) <= a
          BY <2>5, <2>8, AlignedApart
        <4> QED BY <2>7, <2>8, <3>1, <4>1
      <3>3. a + Pow2(q) <= b
        BY <2>5, <2>8, <3>2, AlignedApart
      <3>4. s + Pow2(k) <= a + Pow2(q)
        <4>1. s < a + Pow2(q) /\ Aligned(a + Pow2(q), k)
          BY <2>5, <2>8, AlignedFacts, AlignedDown
        <4> QED BY <2>5, <2>6, <4>1, AlignedApart
      <3>5. s + Pow2(k) - 1 <= e
        BY <2>7, <2>8, <3>1, <3>3, <3>4
      <3>6. ASSUME Aligned(s, k + 1)
            PROVE  e < s + Pow2(k + 1) - 1
        <4>1. k = q
          <5> SUFFICES ASSUME k # q
                       PROVE  FALSE
            OBVIOUS
          <5>1. k = z /\ z < B
            BY <2>1, <2>3, <2>5, <1>1
          <5> QED BY <1>2, <3>6, <5>1
        <4>2. Start(s, q + 1) = s
          BY <2>5, <3>6, <4>1, AlignedFacts
        <4>3. next < Start(next, q + 1) + Pow2(q + 1)
          BY <1>5, <2>5, StartFacts
        <4>4. next < s + Pow2(k + 1)
          BY <2>1, <4>1, <4>2, <4>3
        <4> QED BY <2>7, <3>1, <4>4
      <3> QED BY <1>1, <2>4, <2>5, <2>6, <2>7, <3>5, <3>6 DEF NetFits, B, k, bits
    <2> QED BY <2>9, <2>10
  <1> QED BY <1>6, <1>7

-----------------------------------------------------------------------------
(* Ranges, networks and addresses, and the addresses of a sequence of them. *)
RangeRecs ==
    {r \in [form : {"range"}, family : C!Families, start : Nat, end : Nat] :
        r.start <= r.end /\ r.end < C!Size(r.family)}

IpRecs ==
    {r \in [form : {"ip"}, family : C!Families, start : Nat, end : Nat] :
        r.start = r.end /\ r.end < C!Size(r.family)}

NetRecs ==
    {r \in [form : {"net"}, family : C!Families, start : Nat, end : Nat, bits : Nat] :
        /\ r.bits <= Bits[r.family] /\ Aligned(r.start, Bits[r.family] - r.bits)
        /\ r.end = r.start + Pow2(Bits[r.family] - r.bits) - 1
        /\ r.start <= r.end /\ r.end < C!Size(r.family)}

Pieces == RangeRecs \cup IpRecs \cup NetRecs

LEMMA PieceFacts ==
    ASSUME NEW r \in Pieces
    PROVE  /\ r.family \in C!Families /\ r.family \in Nat
           /\ r.start \in Nat /\ r.end \in Nat
           /\ r.start <= r.end /\ r.end < C!Size(r.family) /\ C!Size(r.family) \in Nat
           /\ C!IsRange(r)
  <1>1. /\ r.family \in C!Families /\ r.start \in Nat /\ r.end \in Nat
        /\ r.start <= r.end /\ r.end < C!Size(r.family)
    BY DEF Pieces, RangeRecs, IpRecs, NetRecs
  <1> QED BY <1>1, WidthIsNat, PowersPositive DEF C!IsRange

Piece(r) == {<<r.family, a>> : a \in r.start .. r.end}

LEMMA InAddresses ==
    ASSUME NEW X, NEW s \in Seq(X), NEW x
    PROVE  x \in C!Addresses(s) <=> \E i \in 1 .. Len(s) : x \in Piece(s[i])
  <1>1. C!Addresses(s) = UNION {Piece(s[i]) : i \in 1 .. Len(s)}
    <2>1. DOMAIN s = 1 .. Len(s)
      OBVIOUS
    <2> QED BY <2>1 DEF C!Addresses, Piece
  <1> HIDE DEF Piece
  <1>2. ASSUME NEW i \in 1 .. Len(s), x \in Piece(s[i])
        PROVE  x \in UNION {Piece(s[j]) : j \in 1 .. Len(s)}
    <2>1. Piece(s[i]) \in {Piece(s[j]) : j \in 1 .. Len(s)}
      BY Zenon
    <2> QED BY <1>2, <2>1, Zenon
  <1> QED BY <1>1, <1>2

LEMMA AddressesOfMore ==
    ASSUME NEW X, NEW s \in Seq(X), NEW r \in X
    PROVE  C!Addresses(Append(s, r)) = C!Addresses(s) \cup Piece(r)
  <1> DEFINE t == Append(s, r)
  <1>1. /\ t \in Seq(X) /\ Len(t) = Len(s) + 1 /\ t[Len(s) + 1] = r
        /\ \A i \in 1 .. Len(s) : t[i] = s[i]
        /\ Len(s) \in Nat
    OBVIOUS
  <1> HIDE DEF t
  <1>2. ASSUME NEW x
        PROVE  x \in C!Addresses(t) <=> x \in C!Addresses(s) \/ x \in Piece(r)
    <2>1. x \in C!Addresses(t) <=> \E i \in 1 .. Len(t) : x \in Piece(t[i])
      BY <1>1, InAddresses
    <2>2. x \in C!Addresses(s) <=> \E i \in 1 .. Len(s) : x \in Piece(s[i])
      BY InAddresses
    <2>3. \A i \in 1 .. Len(t) : i \in 1 .. Len(s) \/ i = Len(s) + 1
      BY <1>1
    <2>4. Len(s) + 1 \in 1 .. Len(t) /\ \A i \in 1 .. Len(s) : i \in 1 .. Len(t)
      BY <1>1
    <2> QED BY <1>1, <2>1, <2>2, <2>3, <2>4
  <1> QED BY <1>2 DEF t

LEMMA AddressesOfFewer ==
    ASSUME NEW X, NEW s \in Seq(X), s # << >>
    PROVE  C!Addresses(s) = Piece(Head(s)) \cup C!Addresses(Tail(s))
  <1> DEFINE t == Tail(s)
  <1>1. /\ t \in Seq(X) /\ Len(t) = Len(s) - 1 /\ Head(s) = s[1]
        /\ \A i \in 1 .. Len(t) : t[i] = s[i + 1]
        /\ Len(s) \in Nat \ {0}
    OBVIOUS
  <1> HIDE DEF t
  <1>2. ASSUME NEW x
        PROVE  x \in C!Addresses(s) <=> x \in Piece(s[1]) \/ x \in C!Addresses(t)
    <2>1. x \in C!Addresses(t) <=> \E i \in 1 .. Len(t) : x \in Piece(t[i])
      BY <1>1, InAddresses
    <2>2. x \in C!Addresses(s) <=> \E i \in 1 .. Len(s) : x \in Piece(s[i])
      BY InAddresses
    <2>3. \A i \in 1 .. Len(s) : i = 1 \/ (i - 1 \in 1 .. Len(t) /\ s[i] = t[i - 1])
      BY <1>1
    <2>4. 1 \in 1 .. Len(s) /\ \A i \in 1 .. Len(t) : i + 1 \in 1 .. Len(s)
      BY <1>1
    <2> QED BY <1>1, <2>1, <2>2, <2>3, <2>4
  <1> QED BY <1>1, <1>2 DEF t

LEMMA AddressesOfNone ==
    C!Addresses(<< >>) = {}
  BY DEF C!Addresses

(* Sequences that have the same addresses place by place. *)
LEMMA AddressesAlike ==
    ASSUME NEW X, NEW s \in Seq(X), NEW t \in Seq(X), Len(t) = Len(s),
           \A i \in 1 .. Len(s) : Piece(t[i]) = Piece(s[i])
    PROVE  C!Addresses(t) = C!Addresses(s)
  <1>1. ASSUME NEW x
        PROVE  x \in C!Addresses(t) <=> x \in C!Addresses(s)
    <2>1. x \in C!Addresses(t) <=> \E i \in 1 .. Len(t) : x \in Piece(t[i])
      BY InAddresses
    <2>2. x \in C!Addresses(s) <=> \E i \in 1 .. Len(s) : x \in Piece(s[i])
      BY InAddresses
    <2> QED BY <2>1, <2>2
  <1> QED BY <1>1

(* Apart, of one more and one fewer. *)
Ahead(r, gap, t) == C!LessThan(r.family, r.end + gap, t.family, t.start)

LEMMA ApartOfMore ==
    ASSUME NEW X, NEW s \in Seq(X), NEW r \in X, NEW gap, C!Apart(s, gap),
           s # << >> => Ahead(s[Len(s)], gap, r)
    PROVE  C!Apart(Append(s, r), gap)
  <1> DEFINE t == Append(s, r)
  <1>1. /\ Len(t) = Len(s) + 1 /\ t[Len(s) + 1] = r /\ Len(s) \in Nat
        /\ \A i \in 1 .. Len(s) : t[i] = s[i]
    OBVIOUS
  <1> HIDE DEF t
  <1>2. ASSUME NEW i \in 1 .. Len(t) - 1
        PROVE  Ahead(t[i], gap, t[i + 1])
    <2>1. CASE i \in 1 .. Len(s) - 1
      <3>1. t[i] = s[i] /\ t[i + 1] = s[i + 1]
        BY <1>1, <2>1
      <3> QED BY <2>1, <3>1 DEF C!Apart, Ahead
    <2>2. CASE i = Len(s)
      <3>1. t[i] = s[Len(s)] /\ t[i + 1] = r /\ s # << >>
        BY <1>1, <2>2
      <3> QED BY <3>1
    <2> QED BY <1>1, <2>1, <2>2
  <1> QED BY <1>2 DEF C!Apart, Ahead, t

-----------------------------------------------------------------------------
(* What the steps make of a piece. *)
LEMMA NetFacts ==
    ASSUME NEW f \in C!Families, NEW ip \in Nat, NEW bits \in 0 .. Bits[f],
           Aligned(ip, Bits[f] - bits), ip < C!Size(f)
    PROVE  /\ C!Net(f, ip, bits) \in NetRecs
           /\ C!Net(f, ip, bits).family = f /\ C!Net(f, ip, bits).start = ip
           /\ C!Net(f, ip, bits).end = ip + Pow2(Bits[f] - bits) - 1
  <1> DEFINE k == Bits[f] - bits
             n == C!Net(f, ip, bits)
  <1>1. k \in Nat /\ k <= Bits[f] /\ Bits[f] \in Nat /\ bits \in Nat /\ bits <= Bits[f]
    BY WidthIsNat
  <1>2. C!Pow(f, bits) = Pow2(k) /\ C!Size(f) = Pow2(Bits[f])
    BY WidthIsNat
  <1>3. Pow2(k) \in Nat \ {0} /\ Pow2(Bits[f]) \in Nat
    BY <1>1, PowersPositive
  <1>4. Start(ip, k) = ip
    BY <1>1, AlignedFacts
  <1>5. C!LastIp(f, ip, bits) = ip + Pow2(k) - 1
    BY <1>2, <1>4 DEF C!LastIp, Start
  <1>6. ip + Pow2(k) <= Pow2(Bits[f])
    BY <1>1, <1>2, <1>4, BlocksInRoom
  <1>7. n = [form |-> "net", family |-> f, start |-> ip, end |-> ip + Pow2(k) - 1, bits |-> bits]
    BY <1>5 DEF C!Net
  <1> HIDE DEF n
  <1>8. /\ n.family = f /\ n.start = ip /\ n.bits = bits
        /\ n.end = ip + Pow2(k) - 1
    BY <1>7
  <1>9. n.end \in Nat /\ n.start <= n.end /\ n.end < C!Size(f)
    BY <1>2, <1>3, <1>6, <1>8
  <1>10. n \in [form : {"net"}, family : C!Families, start : Nat, end : Nat, bits : Nat]
    BY <1>1, <1>7, <1>8, <1>9
  <1> HIDE DEF k
  <1>11. Aligned(ip, k)
    BY DEF k
  <1>12. n \in NetRecs
    BY <1>1, <1>8, <1>9, <1>10, <1>11 DEF NetRecs, k
  <1> QED BY <1>8, <1>12 DEF n, k

LEMMA ParseRangeFacts ==
    ASSUME NEW t \in Ranges, C!Parses(t)
    PROVE  C!ParseRange(t) \in Pieces
  <1> DEFINE f == t.family
  <1>1. /\ f \in C!Families /\ t.form \in {"cidr", "ip", "range"}
        /\ t.start \in 0 .. C!Size(f) - 1
        /\ t.form = "cidr" => t.bits \in 0 .. Bits[f]
        /\ t.form = "range" => t.end \in 0 .. C!Size(f) - 1 /\ t.start <= t.end
    BY BoundsAssumption DEF C!WidthsAssumption, C!Parses
  <1>2. /\ t.start \in Nat /\ t.start < C!Size(f) /\ Bits[f] \in Nat
        /\ C!Size(f) = Pow2(Bits[f]) /\ Pow2(Bits[f]) \in Nat
    BY <1>1, WidthIsNat, PowersPositive
  <1>3. CASE t.form = "range"
    BY <1>1, <1>2, <1>3 DEF C!ParseRange, C!Range_, Pieces, RangeRecs
  <1>4. CASE t.form = "ip"
    BY <1>1, <1>2, <1>4 DEF C!ParseRange, C!Ip, Pieces, IpRecs
  <1>5. CASE t.form = "cidr"
    <2> DEFINE k == Bits[f] - t.bits
               P == C!Pow(f, t.bits)
               ip == C!LastIp(f, t.start, t.bits) - P + 1
    <2>1. k \in Nat /\ k <= Bits[f] /\ t.bits \in 0 .. Bits[f]
      BY <1>1, <1>2, <1>5
    <2>2. P = Pow2(k) /\ Pow2(k) \in Nat
      BY <1>1, <2>1, WidthIsNat, PowersPositive
    <2>3. /\ Start(t.start, k) \in Nat /\ Aligned(Start(t.start, k), k)
          /\ Start(t.start, k) <= t.start
      BY <1>2, <2>1, StartFacts
    <2>4. C!LastIp(f, t.start, t.bits) = Start(t.start, k) + P - 1
      BY <2>2 DEF C!LastIp, Start
    <2> HIDE DEF P
    <2>5. ip = Start(t.start, k)
      BY <2>2, <2>3, <2>4
    <2>6. C!ParseRange(t) = C!Net(f, ip, t.bits)
      BY <1>5 DEF C!ParseRange, P
    <2> HIDE DEF ip
    <2>7. ip \in Nat /\ ip < C!Size(f) /\ Aligned(ip, k)
      BY <1>2, <2>3, <2>5
    <2>8. C!Net(f, ip, t.bits) \in NetRecs
      BY <1>1, <2>1, <2>7, NetFacts
    <2> QED BY <2>6, <2>8 DEF Pieces
  <1> QED BY <1>1, <1>3, <1>4, <1>5

LEMMA ToRangeFacts ==
    ASSUME NEW r \in Pieces
    PROVE  /\ C!ToRange(r) \in RangeRecs /\ Piece(C!ToRange(r)) = Piece(r)
           /\ C!ToRange(r).family = r.family
           /\ C!ToRange(r).start = r.start /\ C!ToRange(r).end = r.end
  <1>1. C!ToRange(r) = [form |-> "range", family |-> r.family, start |-> r.start, end |-> r.end]
    BY DEF C!ToRange, C!Range_
  <1>2. C!ToRange(r) \in RangeRecs
    BY <1>1, PieceFacts DEF RangeRecs
  <1> QED BY <1>1, <1>2 DEF Piece

(* One after the other in the order of Ranges.Less. *)
Follows(r, t) == ~ C!LessThan(t.family, t.start, r.family, r.start)

Sorted(s) == \A i \in 1 .. Len(s) - 1 : Follows(s[i], s[i + 1])

LEMMA SortsFacts ==
    ASSUME NEW w \in Seq(RangeRecs), NEW s \in C!Sorts(w)
    PROVE  /\ s \in Seq(RangeRecs) /\ Len(s) = Len(w) /\ Sorted(s)
           /\ C!Addresses(s) = C!Addresses(w)
  <1> DEFINE n == Len(w)
  <1>1. n \in Nat /\ DOMAIN w = 1 .. n
    OBVIOUS
  <1>2. PICK p \in C!Orders(n) : s = [i \in 1 .. n |-> w[p[i]]]
    BY <1>1 DEF C!Sorts
  <1>3. /\ p \in [1 .. n -> 1 .. n]
        /\ \A k \in 1 .. n : \E i \in 1 .. n : p[i] = k
    BY DEF C!Orders
  <1>4. \A i \in 1 .. n : s[i] = w[p[i]] /\ s[i] \in RangeRecs
    BY <1>1, <1>2, <1>3
  <1>5. s \in [1 .. n -> RangeRecs]
    BY <1>2, <1>4
  <1>6. s \in Seq(RangeRecs) /\ Len(s) = n
    BY <1>1, <1>5
  <1>7. Sorted(s)
    BY DEF C!Sorts, Sorted, Follows
  <1> HIDE DEF n
  <1>8. ASSUME NEW x
        PROVE  x \in C!Addresses(s) <=> x \in C!Addresses(w)
    <2>1. x \in C!Addresses(s) <=> \E i \in 1 .. n : x \in Piece(s[i])
      BY <1>6, InAddresses
    <2>2. x \in C!Addresses(w) <=> \E i \in 1 .. n : x \in Piece(w[i])
      BY InAddresses DEF n
    <2>3. ASSUME NEW k \in 1 .. n, x \in Piece(w[k])
          PROVE  \E i \in 1 .. n : x \in Piece(s[i])
      <3>1. PICK i \in 1 .. n : p[i] = k
        BY <1>3
      <3> QED BY <1>4, <2>3, <3>1
    <2>4. ASSUME NEW i \in 1 .. n, x \in Piece(s[i])
          PROVE  \E k \in 1 .. n : x \in Piece(w[k])
      BY <1>3, <1>4, <2>4
    <2> QED BY <2>1, <2>2, <2>3, <2>4
  <1> QED BY <1>6, <1>7, <1>8 DEF n

(* The range that grows takes in the next one. *)
LEMMA JoinFacts ==
    ASSUME NEW r \in RangeRecs, NEW next \in RangeRecs, next.family = r.family,
           Follows(r, next), C!Joins(r, next)
    PROVE  LET new == [r EXCEPT !.end = C!Larger(@, next.end)]
           IN  /\ new \in RangeRecs /\ new.family = r.family /\ new.start = r.start
               /\ Piece(new) = Piece(r) \cup Piece(next)
  <1> DEFINE e == C!Larger(r.end, next.end)
             new == [r EXCEPT !.end = C!Larger(@, next.end)]
  <1>1. r \in Pieces /\ next \in Pieces
    BY DEF Pieces
  <1>2. /\ r.family \in C!Families /\ r.family \in Nat
        /\ r.start \in Nat /\ r.end \in Nat /\ r.start <= r.end /\ r.end < C!Size(r.family)
        /\ next.start \in Nat /\ next.end \in Nat /\ next.start <= next.end
        /\ next.end < C!Size(r.family) /\ C!Size(r.family) \in Nat
    BY <1>1, PieceFacts
  <1>3. e \in Nat /\ e < C!Size(r.family) /\ r.end <= e /\ next.end <= e
        /\ (e = r.end \/ e = next.end)
    BY <1>2 DEF C!Larger
  <1>4. new = [r EXCEPT !.end = e]
    OBVIOUS
  <1>5. r \in [form : {"range"}, family : C!Families, start : Nat, end : Nat]
    BY DEF RangeRecs
  <1> HIDE DEF e, new
  <1>6. /\ new \in [form : {"range"}, family : C!Families, start : Nat, end : Nat]
        /\ new.family = r.family /\ new.start = r.start /\ new.end = e
    BY <1>3, <1>4, <1>5
  <1>7. new \in RangeRecs
    BY <1>2, <1>3, <1>6 DEF RangeRecs
  <1>8. r.start <= next.start
    BY <1>2 DEF Follows, C!LessThan
  <1>9. next.start <= r.end + 1
    <2>1. CASE C!AllFF(r.family, r.end)
      BY <1>2, <2>1 DEF C!AllFF
    <2>2. CASE next.start <= C!AddOne(r.family, r.end)
      <3>1. C!AddOne(r.family, r.end) <= r.end + 1
        BY <1>2 DEF C!AddOne
      <3>2. C!AddOne(r.family, r.end) \in Nat
        BY <1>2 DEF C!AddOne
      <3> QED BY <1>2, <2>2, <3>1, <3>2
    <2> QED BY <2>1, <2>2 DEF C!Joins
  <1>10. r.start .. e = (r.start .. r.end) \cup (next.start .. next.end)
    BY <1>2, <1>3, <1>8, <1>9
  <1>11. Piece(new) = Piece(r) \cup Piece(next)
    BY <1>6, <1>10 DEF Piece
  <1> QED BY <1>6, <1>7, <1>11 DEF new

(* A range that the next one does not join ends well before it. *)
LEMMA NoJoinFacts ==
    ASSUME NEW r \in RangeRecs, NEW next \in RangeRecs, Follows(r, next),
           ~ (next.family = r.family /\ C!Joins(r, next))
    PROVE  Ahead(r, 1, next)
  <1>1. r \in Pieces /\ next \in Pieces
    BY DEF Pieces
  <1>2. /\ r.family \in Nat /\ next.family \in Nat
        /\ r.start \in Nat /\ r.end \in Nat /\ r.end < C!Size(r.family)
        /\ next.start \in Nat /\ C!Size(r.family) \in Nat
    BY <1>1, PieceFacts
  <1>3. CASE next.family # r.family
    BY <1>2, <1>3 DEF Follows, Ahead, C!LessThan
  <1>4. CASE next.family = r.family
    <2>1. ~ C!AllFF(r.family, r.end) /\ ~ (next.start <= C!AddOne(r.family, r.end))
      BY <1>4 DEF C!Joins
    <2>2. r.end + 1 < C!Size(r.family)
      BY <1>2, <2>1 DEF C!AllFF
    <2>3. C!AddOne(r.family, r.end) = r.end + 1
      BY <1>2, <2>2 DEF C!AddOne
    <2> QED BY <1>2, <1>4, <2>1, <2>3 DEF Ahead, C!LessThan
  <1> QED BY <1>3, <1>4

-----------------------------------------------------------------------------
(* What is left of a range when the first networks are taken away: no      *)
(* block inside the range reaches over the border.                         *)
Inside(a, k, m) == m.start <= a /\ a + Pow2(k) - 1 <= m.end

NoStraddle(m, s) == \A k \in Nat : ~ Aligned(s, k) => ~ Inside(Start(s, k), k, m)

RestOf(r, m) ==
    /\ r.family = m.family /\ r.form = m.form /\ r.end = m.end /\ m.start <= r.start
    /\ r.form # "range" => r = m
    /\ NoStraddle(m, r.start)

LEMMA RestOfItself ==
    ASSUME NEW m \in Pieces
    PROVE  RestOf(m, m)
  <1>1. m.start \in Nat /\ m.start <= m.start
    BY PieceFacts
  <1>2. ASSUME NEW k \in Nat, ~ Aligned(m.start, k)
        PROVE  ~ Inside(Start(m.start, k), k, m)
    <2> DEFINE a == Start(m.start, k)
    <2>1. a \in Nat /\ Aligned(a, k) /\ a <= m.start
      BY <1>1, StartFacts
    <2> HIDE DEF a
    <2>2. a # m.start
      BY <1>2, <2>1
    <2>3. ~ (m.start <= a)
      BY <1>1, <2>1, <2>2
    <2> QED BY <2>3 DEF Inside, a
  <1> QED BY <1>1, <1>2 DEF RestOf, NoStraddle

LEMMA WideFacts ==
    ASSUME NEW net \in NetRecs, NEW m
    PROVE  LET k == Bits[net.family] - net.bits
           IN  /\ k \in Nat /\ net.start \in Nat /\ net.end = net.start + Pow2(k) - 1
               /\ Aligned(net.start, k) /\ Pow2(k) \in Nat \ {0}
               /\ Pow2(k + 1) = 2 * Pow2(k)
               /\ m.start <= net.start /\ net.end <= m.end
                  /\ ~ Inside(Start(net.start, k + 1), k + 1, m) => C!AsWideAsCan(net, m)
  <1> DEFINE k == Bits[net.family] - net.bits
             s == net.start
             size == net.end - net.start + 1
             P == Pow2(k)
             wide == (net.start \div (2 * size)) * 2 * size
  <1>1. /\ net.family \in C!Families /\ s \in Nat /\ net.end \in Nat
        /\ net.bits \in Nat /\ net.bits <= Bits[net.family] /\ Aligned(s, k)
        /\ net.end = s + P - 1
    BY DEF NetRecs
  <1>2. k \in Nat
    BY <1>1, WidthIsNat
  <1>3. P \in Nat \ {0} /\ Pow2(k + 1) = 2 * P
    BY <1>2, PowersPositive, PowersGrow
  <1> HIDE DEF P, s
  <1>4. size = P
    BY <1>1, <1>3 DEF s
  <1>5. s % P = 0
    BY <1>1, <1>2, AlignedIsRemainder DEF P
  <1> HIDE DEF size
  <1>6. 2 * P \in Nat \ {0} /\ s \div (2 * P) \in Nat
    BY <1>1, <1>3, DivFacts
  <1>7. wide = Start(s, k + 1)
    <2> DEFINE q == s \div (2 * P)
    <2>1. wide = q * 2 * P
      BY <1>4 DEF s
    <2>2. Start(s, k + 1) = q * (2 * P)
      BY <1>3 DEF Start
    <2>3. q \in Nat
      BY <1>6
    <2> HIDE DEF q
    <2> QED BY <1>3, <2>1, <2>2, <2>3
  <1> HIDE DEF wide
  <1>8. wide \in Nat
    BY <1>1, <1>2, <1>7, StartFacts
  <1>9. ASSUME m.start <= s, net.end <= m.end,
               ~ Inside(Start(s, k + 1), k + 1, m)
        PROVE  C!AsWideAsCan(net, m)
    <2>1. ~ (m.start <= wide /\ wide + 2 * size - 1 <= m.end)
      BY <1>3, <1>4, <1>7, <1>9 DEF Inside
    <2>2. s % size = 0
      BY <1>4, <1>5
    <2> QED BY <1>9, <2>1, <2>2 DEF C!AsWideAsCan, wide, size, s
  <1> HIDE DEF k
  <1> QED BY <1>1, <1>2, <1>3, <1>9 DEF P, s, k

NetOf(r) ==
    CASE r.form = "net" -> r
      [] r.form = "ip"  -> C!Net(r.family, r.start, Bits[r.family])
      [] OTHER -> C!Net(r.family, r.start, C!NetBits(r.family, r.start, r.end))

Shorter(r) == [r EXCEPT !.start = C!AddOne(r.family, NetOf(r).end)]

LEMMA NetOfNet ==
    ASSUME NEW r \in Pieces, r.form # "range"
    PROVE  /\ NetOf(r) \in NetRecs /\ NetOf(r).family = r.family
           /\ NetOf(r).start = r.start /\ NetOf(r).end = r.end
           /\ C!AsWideAsCan(NetOf(r), r)
  <1> DEFINE net == NetOf(r)
             f == r.family
             B == Bits[f]
  <1>1. net \in NetRecs /\ net.family = f /\ net.start = r.start /\ net.end = r.end
    <2>1. CASE r.form = "net"
      <3>1. net = r /\ r \in NetRecs
        BY <2>1 DEF NetOf, Pieces, RangeRecs, IpRecs
      <3> QED BY <3>1
    <2>2. CASE r.form = "ip"
      <3>1. r.start = r.end
        BY <2>2 DEF Pieces, IpRecs, NetRecs, RangeRecs
      <3>2. f \in C!Families /\ r.start \in Nat /\ r.end \in Nat /\ r.end < C!Size(f) /\ B \in Nat
        BY PieceFacts, WidthIsNat
      <3>3. net = C!Net(f, r.start, B)
        BY <2>2 DEF NetOf
      <3> HIDE DEF net
      <3>4. B - B = 0 /\ B \in 0 .. B
        BY <3>2
      <3>5. Aligned(r.start, B - B)
        <4>1. r.start = r.start * 1
          BY <3>2
        <4> QED BY <3>2, <3>4, <4>1, PowerOfNone DEF Aligned
      <3>6. /\ C!Net(f, r.start, B) \in NetRecs
            /\ C!Net(f, r.start, B).family = f /\ C!Net(f, r.start, B).start = r.start
            /\ C!Net(f, r.start, B).end = r.start + Pow2(B - B) - 1
        BY <3>1, <3>2, <3>4, <3>5, NetFacts
      <3>7. r.start + Pow2(B - B) - 1 = r.end
        BY <3>1, <3>2, <3>4, PowerOfNone
      <3> QED BY <3>3, <3>6, <3>7
    <2> QED BY <2>1, <2>2 DEF Pieces, RangeRecs, IpRecs, NetRecs
  <1> HIDE DEF net
  <1> DEFINE k == Bits[net.family] - net.bits
  <1>2. /\ k \in Nat /\ net.start \in Nat /\ net.end = net.start + Pow2(k) - 1
        /\ Pow2(k) \in Nat \ {0} /\ Pow2(k + 1) = 2 * Pow2(k)
    BY <1>1, WideFacts
  <1>3. Start(net.start, k + 1) \in Nat
    <2>1. k + 1 \in Nat
      BY <1>2
    <2> QED BY <1>2, <2>1, StartFacts
  <1>4. ~ Inside(Start(net.start, k + 1), k + 1, r)
    BY <1>1, <1>2, <1>3 DEF Inside
  <1>5. r.start <= net.start /\ net.end <= r.end
    BY <1>1, PieceFacts
  <1>6. C!AsWideAsCan(net, r)
    BY <1>1, <1>4, <1>5, WideFacts
  <1> QED BY <1>1, <1>6 DEF net

(* The first network of what is left of a range is as wide as the range    *)
(* allows, and what is left behind it has no block over its border, too.   *)
LEMMA NetOfRange ==
    ASSUME NEW r \in RangeRecs, NEW m \in Pieces, RestOf(r, m)
    PROVE  /\ NetOf(r) \in NetRecs /\ NetOf(r).family = r.family
           /\ NetOf(r).start = r.start /\ NetOf(r).end <= r.end
           /\ C!AsWideAsCan(NetOf(r), m)
           /\ NetOf(r).end < r.end =>
                /\ Shorter(r) \in RangeRecs /\ RestOf(Shorter(r), m)
                /\ Shorter(r).start = NetOf(r).end + 1
  <1> DEFINE net == NetOf(r)
             f == r.family
             s == r.start
             e == r.end
             bits == C!NetBits(f, s, e)
             k == Bits[f] - bits
  <1>1. /\ f \in C!Families /\ s \in Nat /\ e \in Nat /\ s <= e /\ e < C!Size(f)
        /\ r.form = "range" /\ Bits[f] \in Nat /\ C!Size(f) \in Nat
    BY WidthIsNat, PowersPositive DEF RangeRecs
  <1>2. NetFits(f, s, e, bits)
    BY <1>1, NetBitsFacts
  <1> HIDE DEF bits
  <1>3. /\ bits \in 0 .. Bits[f] /\ Aligned(s, k) /\ s + Pow2(k) - 1 <= e
        /\ Aligned(s, k + 1) => e < s + Pow2(k + 1) - 1
    BY <1>2 DEF NetFits
  <1>4. k \in Nat
    BY <1>1, <1>3
  <1>5. net = C!Net(f, s, bits)
    BY <1>1 DEF NetOf, bits
  <1>6. /\ net \in NetRecs /\ net.family = f /\ net.start = s
        /\ net.end = s + Pow2(k) - 1
    BY <1>1, <1>3, <1>5, NetFacts
  <1>7. net.bits = bits
    BY <1>5 DEF C!Net
  <1> HIDE DEF net, k
  <1>8. /\ m.family = f /\ m.end = e /\ m.start <= s /\ NoStraddle(m, s)
        /\ m.start \in Nat
    BY PieceFacts DEF RestOf
  <1>9. Pow2(k) \in Nat \ {0} /\ Pow2(k + 1) = 2 * Pow2(k)
    BY <1>4, PowersPositive, PowersGrow
  <1>10. ~ Inside(Start(s, k + 1), k + 1, m)
    <2>1. CASE Aligned(s, k + 1)
      <3>1. Start(s, k + 1) = s
        BY <1>4, <2>1, AlignedFacts
      <3>2. ~ (s + Pow2(k + 1) - 1 <= m.end)
        BY <1>1, <1>3, <1>8, <1>9, <2>1
      <3> QED BY <3>1, <3>2 DEF Inside
    <2>2. CASE ~ Aligned(s, k + 1)
      BY <1>4, <1>8, <2>2 DEF NoStraddle
    <2> QED BY <2>1, <2>2
  <1>11. net.end <= e
    BY <1>3, <1>6
  <1>12. C!AsWideAsCan(net, m)
    <2>1. k = Bits[net.family] - net.bits
      BY <1>6, <1>7 DEF k
    <2>2. m.start <= net.start /\ net.end <= m.end
      BY <1>6, <1>8, <1>11
    <2> QED BY <1>6, <1>10, <2>1, <2>2, WideFacts
  <1>13. ASSUME net.end < e
         PROVE  /\ Shorter(r) \in RangeRecs /\ RestOf(Shorter(r), m)
                /\ Shorter(r).start = net.end + 1
    <2> DEFINE s2 == s + Pow2(k)
    <2>1. s2 \in Nat /\ net.end + 1 = s2 /\ s2 <= e /\ m.start <= s2
      BY <1>1, <1>6, <1>8, <1>9, <1>13
    <2>2. C!AddOne(f, net.end) = s2
      <3>1. s2 % C!Size(f) = s2
        BY <1>1, <2>1
      <3> QED BY <2>1, <3>1 DEF C!AddOne
    <2>3. Aligned(s2, k)
      BY <1>3, <1>4, AlignedFacts
    <2> HIDE DEF s2
    <2>4. Shorter(r) = [r EXCEPT !.start = s2]
      BY <2>2 DEF Shorter, net
    <2>5. /\ Shorter(r) \in [form : {"range"}, family : C!Families, start : Nat, end : Nat]
          /\ Shorter(r).start = s2 /\ Shorter(r).end = e /\ Shorter(r).family = f
          /\ Shorter(r).form = "range"
      BY <2>1, <2>4 DEF RangeRecs
    <2>6. Shorter(r) \in RangeRecs
      BY <1>1, <2>1, <2>5 DEF RangeRecs
    <2>7. ASSUME NEW j \in Nat, ~ Aligned(s2, j)
          PROVE  ~ Inside(Start(s2, j), j, m)
      <3> DEFINE a == Start(s2, j)
                 b == Start(s, k + 1)
      <3>1. j >= k + 1
        <4> SUFFICES ASSUME j <= k
                     PROVE  FALSE
          BY <1>4
        <4> QED BY <1>4, <2>3, <2>7, AlignedDown
      <3>2. a \in Nat /\ Aligned(a, j) /\ a <= s2 /\ s2 < a + Pow2(j)
        BY <2>1, StartFacts
      <3>3. b \in Nat
        <4>1. k + 1 \in Nat
          BY <1>4
        <4> QED BY <1>1, <4>1, StartFacts
      <3> HIDE DEF a
      <3>4. a <= s
        <4>1. a < s2
          BY <2>1, <2>7, <3>2
        <4>2. Aligned(a, k)
          BY <1>4, <3>1, <3>2, AlignedDown
        <4>3. a + Pow2(k) <= s2
          BY <1>4, <2>3, <4>1, <4>2, AlignedApart
        <4> QED BY <1>1, <1>9, <3>2, <4>3 DEF s2
      <3>5. Pow2(j) \in Nat
        BY PowersPositive
      <3>6. s < a + Pow2(j)
        BY <1>1, <1>9, <3>2, <3>5 DEF s2
      <3>7. Start(s, j) = a
        BY <1>1, <3>2, <3>4, <3>6, StartIs
      <3>8. a <= b /\ b + Pow2(k + 1) <= a + Pow2(j)
        <4>1. k + 1 \in Nat /\ k + 1 <= j
          BY <1>4, <3>1
        <4>2. Start(s, j) <= b /\ b + Pow2(k + 1) <= Start(s, j) + Pow2(j)
          BY <1>1, <4>1, BlocksNest
        <4> QED BY <3>7, <4>2
      <3> HIDE DEF b
      <3>9. ~ Inside(b, k + 1, m)
        BY <1>10 DEF b
      <3>10. m.end \in Nat /\ Pow2(k + 1) \in Nat
        BY <1>1, <1>8, <1>9
      <3>11. ~ Inside(a, j, m)
        BY <1>8, <3>2, <3>3, <3>5, <3>8, <3>9, <3>10 DEF Inside
      <3> QED BY <3>11 DEF a
    <2>8. RestOf(Shorter(r), m)
      <3>1. m.form = "range"
        BY <1>1 DEF RestOf
      <3> QED BY <1>8, <2>1, <2>5, <2>7, <3>1 DEF RestOf, NoStraddle
    <2> QED BY <2>1, <2>5, <2>6, <2>8
  <1> QED BY <1>6, <1>11, <1>12, <1>13 DEF net

-----------------------------------------------------------------------------
(* The merge: what is done ends well before the range that grows, which    *)
(* the others follow.                                                      *)
Merging(w, ms, nw, rs) ==
    /\ Len(nw) = 1
    /\ Sorted(rs) /\ (rs # << >> => Follows(nw[1], rs[1]))
    /\ C!Apart(ms, 1) /\ (ms # << >> => Ahead(ms[Len(ms)], 1, nw[1]))
    /\ C!Addresses(ms) \cup Piece(nw[1]) \cup C!Addresses(rs) = C!Addresses(w)

Merged(w, ms) == C!Addresses(ms) = C!Addresses(w) /\ C!Apart(ms, 1)

AsRanges(ms, rs) ==
    Len(rs) = Len(ms) /\ C!Addresses(rs) = C!Addresses(ms) /\ C!Apart(rs, 0)

(* The split: of the ranges in ms, rs is put out and rt is left.           *)
WideIn(net, m) == net.family = m.family /\ C!AsWideAsCan(net, m)

Splitting(ms, rs, rt) ==
    /\ Len(rt) <= Len(ms)
    /\ \A i \in 2 .. Len(rt) : rt[i] = ms[Len(ms) - Len(rt) + i]
    /\ rt # << >> => RestOf(rt[1], ms[Len(ms) - Len(rt) + 1])
    /\ C!Addresses(rs) \cup C!Addresses(rt) = C!Addresses(ms)
    /\ C!Apart(rs, 0)
    /\ rs # << >> /\ rt # << >> => Ahead(rs[Len(rs)], 0, rt[1])
    /\ \A i \in 1 .. Len(rs) : \E j \in 1 .. Len(ms) : WideIn(rs[i], ms[j])

LEMMA SortedTail ==
    ASSUME NEW rs \in Seq(RangeRecs), rs # << >>, Sorted(rs)
    PROVE  /\ Tail(rs) \in Seq(RangeRecs) /\ Head(rs) = rs[1] /\ rs[1] \in RangeRecs
           /\ Sorted(Tail(rs))
           /\ Tail(rs) # << >> => Follows(rs[1], Tail(rs)[1])
           /\ Tail(rs) # << >> => Tail(rs)[1] \in RangeRecs
  <1> DEFINE t == Tail(rs)
  <1>1. /\ t \in Seq(RangeRecs) /\ Head(rs) = rs[1] /\ rs[1] \in RangeRecs
        /\ Len(t) = Len(rs) - 1 /\ Len(t) \in Nat /\ Len(rs) \in Nat
        /\ \A i \in 1 .. Len(t) : t[i] = rs[i + 1]
        /\ t # << >> => Len(t) >= 1 /\ t[1] \in RangeRecs
    OBVIOUS
  <1> HIDE DEF t
  <1>2. Sorted(t)
    BY <1>1 DEF Sorted
  <1>3. t # << >> => Follows(rs[1], t[1])
    <2> SUFFICES ASSUME t # << >>
                 PROVE  Follows(rs[1], t[1])
      OBVIOUS
    <2>1. 1 \in 1 .. Len(rs) - 1 /\ t[1] = rs[1 + 1]
      BY <1>1
    <2> QED BY <2>1 DEF Sorted
  <1> QED BY <1>1, <1>2, <1>3 DEF t

LEMMA MergeBegins ==
    ASSUME NEW w \in Seq(Pieces), Len(w) >= 2,
           NEW s \in C!Sorts([i \in DOMAIN w |-> C!ToRange(w[i])])
    PROVE  /\ s \in Seq(RangeRecs) /\ s # << >>
           /\ <<Head(s)>> \in Seq(RangeRecs) /\ Tail(s) \in Seq(RangeRecs)
           /\ Merging(w, << >>, <<Head(s)>>, Tail(s))
  <1> DEFINE v == [i \in DOMAIN w |-> C!ToRange(w[i])]
  <1>1. /\ v \in Seq(RangeRecs) /\ Len(v) = Len(w)
        /\ \A i \in 1 .. Len(w) : Piece(v[i]) = Piece(w[i])
    <2>1. DOMAIN w = 1 .. Len(w) /\ Len(w) \in Nat
      OBVIOUS
    <2>2. \A i \in 1 .. Len(w) : C!ToRange(w[i]) \in RangeRecs /\ Piece(C!ToRange(w[i])) = Piece(w[i])
      BY ToRangeFacts
    <2>3. v \in [1 .. Len(w) -> RangeRecs]
      BY <2>1, <2>2
    <2> QED BY <2>1, <2>2, <2>3
  <1>2. C!Addresses(v) = C!Addresses(w)
    <2>1. v \in Seq(Pieces)
      <3>1. RangeRecs \subseteq Pieces
        BY DEF Pieces
      <3> HIDE DEF v
      <3> QED BY <1>1, <3>1, SeqOfMore
    <2> HIDE DEF v
    <2> QED BY <1>1, <2>1, AddressesAlike
  <1> HIDE DEF v
  <1>3. /\ s \in Seq(RangeRecs) /\ Len(s) = Len(w) /\ Sorted(s)
        /\ C!Addresses(s) = C!Addresses(w)
    <2>1. s \in C!Sorts(v)
      BY DEF v
    <2> QED BY <1>1, <1>2, <2>1, SortsFacts
  <1> DEFINE rs == Tail(s)
  <1>4. /\ s # << >> /\ Head(s) = s[1] /\ s[1] \in RangeRecs /\ rs \in Seq(RangeRecs)
        /\ Len(rs) = Len(s) - 1 /\ Len(rs) >= 1 /\ Len(s) \in Nat /\ Len(rs) \in Nat
        /\ \A i \in 1 .. Len(rs) : rs[i] = s[i + 1]
    BY <1>3
  <1> HIDE DEF rs
  <1>5. Sorted(rs)
    BY <1>3, <1>4, SortedTail DEF rs
  <1>6. Follows(s[1], rs[1])
    <2>1. 1 \in 1 .. Len(s) - 1 /\ rs[1] = s[1 + 1]
      BY <1>4
    <2> QED BY <1>3, <2>1 DEF Sorted
  <1>7. C!Addresses(s) = Piece(s[1]) \cup C!Addresses(rs)
    BY <1>3, <1>4, AddressesOfFewer DEF rs
  <1>8. C!Apart(<< >>, 1)
    BY DEF C!Apart
  <1>9. Merging(w, << >>, <<s[1]>>, rs)
    <2>1. Len(<<s[1]>>) = 1 /\ <<s[1]>>[1] = s[1]
      OBVIOUS
    <2> QED BY <1>3, <1>5, <1>6, <1>7, <1>8, <2>1, AddressesOfNone DEF Merging
  <1> QED BY <1>3, <1>4, <1>9 DEF rs

(* The next range joins the one that grows, or takes its place. *)
LEMMA MergeJoins ==
    ASSUME NEW w, NEW ms \in Seq(Pieces), NEW r \in RangeRecs, NEW rs \in Seq(RangeRecs),
           rs # << >>, Merging(w, ms, <<r>>, rs),
           rs[1].family = r.family, C!Joins(r, rs[1])
    PROVE  LET new == [r EXCEPT !.end = C!Larger(@, rs[1].end)]
           IN  new \in RangeRecs /\ Merging(w, ms, <<new>>, Tail(rs))
  <1> DEFINE new == [r EXCEPT !.end = C!Larger(@, rs[1].end)]
             next == rs[1]
             t == Tail(rs)
  <1>1. /\ Sorted(rs) /\ Follows(r, next)
        /\ C!Apart(ms, 1) /\ (ms # << >> => Ahead(ms[Len(ms)], 1, r))
        /\ C!Addresses(ms) \cup Piece(r) \cup C!Addresses(rs) = C!Addresses(w)
    BY DEF Merging
  <1>2. /\ t \in Seq(RangeRecs) /\ next \in RangeRecs /\ Sorted(t) /\ Head(rs) = next
        /\ t # << >> => Follows(next, t[1]) /\ t[1] \in RangeRecs
    BY <1>1, SortedTail
  <1>3. /\ new \in RangeRecs /\ new.family = r.family /\ new.start = r.start
        /\ Piece(new) = Piece(r) \cup Piece(next)
    BY <1>1, <1>2, JoinFacts
  <1>4. C!Addresses(rs) = Piece(next) \cup C!Addresses(t)
    BY <1>2, AddressesOfFewer
  <1> HIDE DEF new, t, next
  <1>5. t # << >> => Follows(new, t[1])
    <2> SUFFICES ASSUME t # << >>
                 PROVE  Follows(new, t[1])
      OBVIOUS
    <2>1. /\ r \in Pieces /\ next \in Pieces /\ t[1] \in Pieces
          /\ Follows(r, next) /\ Follows(next, t[1])
      BY <1>1, <1>2 DEF Pieces
    <2>2. /\ r.family \in Nat /\ r.start \in Nat /\ next.family \in Nat /\ next.start \in Nat
          /\ t[1].family \in Nat /\ t[1].start \in Nat
      BY <2>1, PieceFacts
    <2> QED BY <1>3, <2>1, <2>2 DEF Follows, C!LessThan
  <1>6. ms # << >> => Ahead(ms[Len(ms)], 1, new)
    BY <1>1, <1>3 DEF Ahead
  <1>7. C!Addresses(ms) \cup Piece(new) \cup C!Addresses(t) = C!Addresses(w)
    BY <1>1, <1>3, <1>4
  <1>8. Len(<<new>>) = 1 /\ <<new>>[1] = new
    OBVIOUS
  <1>9. Merging(w, ms, <<new>>, t)
    BY <1>1, <1>2, <1>5, <1>6, <1>7, <1>8 DEF Merging
  <1> QED BY <1>3, <1>9 DEF new, t, next

LEMMA MergeMovesOn ==
    ASSUME NEW w, NEW ms \in Seq(Pieces), NEW r \in RangeRecs, NEW rs \in Seq(RangeRecs),
           rs # << >>, Merging(w, ms, <<r>>, rs),
           ~ (rs[1].family = r.family /\ C!Joins(r, rs[1]))
    PROVE  /\ Append(ms, r) \in Seq(Pieces)
           /\ Merging(w, Append(ms, r), <<rs[1]>>, Tail(rs))
  <1> DEFINE next == rs[1]
             t == Tail(rs)
             more == Append(ms, r)
  <1>1. /\ Sorted(rs) /\ Follows(r, next)
        /\ C!Apart(ms, 1) /\ (ms # << >> => Ahead(ms[Len(ms)], 1, r))
        /\ C!Addresses(ms) \cup Piece(r) \cup C!Addresses(rs) = C!Addresses(w)
    BY DEF Merging
  <1>2. /\ t \in Seq(RangeRecs) /\ next \in RangeRecs /\ Sorted(t) /\ Head(rs) = next
        /\ t # << >> => Follows(next, t[1])
    BY <1>1, SortedTail
  <1>3. C!Addresses(rs) = Piece(next) \cup C!Addresses(t)
    BY <1>2, AddressesOfFewer
  <1>4. r \in Pieces
    BY DEF Pieces
  <1>5. /\ more \in Seq(Pieces) /\ more # << >> /\ more[Len(more)] = r
    <2>1. /\ more \in Seq(Pieces) /\ Len(more) = Len(ms) + 1 /\ Len(ms) \in Nat
          /\ more[Len(ms) + 1] = r
      BY <1>4
    <2> HIDE DEF more
    <2> QED BY <2>1
  <1>6. C!Addresses(more) = C!Addresses(ms) \cup Piece(r) /\ C!Apart(more, 1)
    BY <1>1, <1>4, AddressesOfMore, ApartOfMore
  <1>7. Ahead(r, 1, next)
    BY <1>1, <1>2, NoJoinFacts
  <1> HIDE DEF more, t, next
  <1>8. C!Addresses(more) \cup Piece(next) \cup C!Addresses(t) = C!Addresses(w)
    BY <1>1, <1>3, <1>6
  <1>9. Len(<<next>>) = 1 /\ <<next>>[1] = next
    OBVIOUS
  <1>10. Merging(w, more, <<next>>, t)
    BY <1>2, <1>5, <1>6, <1>7, <1>8, <1>9 DEF Merging
  <1> QED BY <1>5, <1>10 DEF more, t, next

LEMMA MergeEnds ==
    ASSUME NEW w, NEW ms \in Seq(Pieces), NEW r \in RangeRecs, Merging(w, ms, <<r>>, << >>)
    PROVE  /\ ms \o <<r>> \in Seq(Pieces)
           /\ Merged(w, ms \o <<r>>)
  <1>1. r \in Pieces
    BY DEF Pieces
  <1>2. ms \o <<r>> = Append(ms, r) /\ Append(ms, r) \in Seq(Pieces)
    BY <1>1
  <1>3. /\ C!Apart(ms, 1) /\ (ms # << >> => Ahead(ms[Len(ms)], 1, r))
        /\ C!Addresses(ms) \cup Piece(r) \cup C!Addresses(<< >>) = C!Addresses(w)
    BY DEF Merging
  <1>4. C!Addresses(Append(ms, r)) = C!Addresses(ms) \cup Piece(r) /\ C!Apart(Append(ms, r), 1)
    BY <1>1, <1>3, AddressesOfMore, ApartOfMore
  <1> QED BY <1>2, <1>3, <1>4, AddressesOfNone DEF Merged

(* The split of one piece, which is what is left of one of the merged. *)
LEMMA SplitOne ==
    ASSUME NEW m \in Pieces, NEW r \in Pieces, RestOf(r, m)
    PROVE  /\ NetOf(r) \in NetRecs /\ WideIn(NetOf(r), m)
           /\ NetOf(r).family = r.family /\ NetOf(r).start = r.start /\ NetOf(r).end <= r.end
           /\ r.family = m.family /\ r.end = m.end
           /\ NetOf(r).end < r.end =>
                /\ Shorter(r) \in Pieces /\ RestOf(Shorter(r), m)
                /\ Shorter(r).start = NetOf(r).end + 1
                /\ Shorter(r).family = r.family /\ Shorter(r).end = r.end
  <1>1. CASE r.form = "range"
    <2>1. r \in RangeRecs
      BY <1>1 DEF Pieces, IpRecs, NetRecs
    <2>2. r.family = m.family /\ r.end = m.end
      BY DEF RestOf
    <2>3. ASSUME NetOf(r).end < r.end
          PROVE  /\ Shorter(r) \in Pieces /\ RestOf(Shorter(r), m)
                 /\ Shorter(r).start = NetOf(r).end + 1
                 /\ Shorter(r).family = r.family /\ Shorter(r).end = r.end
      <3>1. Shorter(r) \in RangeRecs /\ RestOf(Shorter(r), m) /\ Shorter(r).start = NetOf(r).end + 1
        BY <2>1, <2>3, NetOfRange
      <3>2. Shorter(r).family = r.family /\ Shorter(r).end = r.end
        BY <2>1 DEF Shorter, RangeRecs
      <3> QED BY <3>1, <3>2 DEF Pieces
    <2> QED BY <2>1, <2>2, <2>3, NetOfRange DEF WideIn
  <1>2. CASE r.form # "range"
    <2>1. r = m
      BY <1>2 DEF RestOf, RangeRecs
    <2>2. r.end \in Nat
      BY PieceFacts
    <2>3. /\ NetOf(r) \in NetRecs /\ NetOf(r).family = r.family
          /\ NetOf(r).start = r.start /\ NetOf(r).end = r.end
          /\ C!AsWideAsCan(NetOf(r), r)
      BY <1>2, NetOfNet
    <2> QED BY <2>1, <2>2, <2>3 DEF WideIn
  <1> QED BY <1>1, <1>2

LEMMA SplitBegins ==
    ASSUME NEW ms \in Seq(Pieces)
    PROVE  Splitting(ms, << >>, ms)
  <1>1. Len(ms) \in Nat /\ Len(ms) - Len(ms) + 1 = 1 /\ \A i \in 2 .. Len(ms) : Len(ms) - Len(ms) + i = i
    OBVIOUS
  <1>2. ms # << >> => RestOf(ms[1], ms[Len(ms) - Len(ms) + 1])
    <2>1. ms # << >> => ms[1] \in Pieces
      OBVIOUS
    <2> QED BY <1>1, <2>1, RestOfItself
  <1>3. C!Apart(<< >>, 0)
    BY DEF C!Apart
  <1> QED BY <1>1, <1>2, <1>3, AddressesOfNone DEF Splitting

LEMMA SplitGoesOn ==
    ASSUME NEW ms \in Seq(Pieces), C!Apart(ms, 1),
           NEW rs \in Seq(Pieces), NEW rt \in Seq(Pieces), rt # << >>, Splitting(ms, rs, rt),
           NEW more,
           more = IF C!MoreBehind(NetOf(rt[1]), rt[1])
                  THEN <<Shorter(rt[1])>> \o Tail(rt) ELSE Tail(rt)
    PROVE  /\ Append(rs, NetOf(rt[1])) \in Seq(Pieces) /\ more \in Seq(Pieces)
           /\ Splitting(ms, Append(rs, NetOf(rt[1])), more)
  <1> DEFINE r == rt[1]
             net == NetOf(r)
             t == Tail(rt)
             j == Len(ms) - Len(rt) + 1
             m == ms[j]
             all == Append(rs, net)
  <1>1. /\ Len(rt) <= Len(ms) /\ RestOf(r, m)
        /\ \A i \in 2 .. Len(rt) : rt[i] = ms[Len(ms) - Len(rt) + i]
        /\ C!Addresses(rs) \cup C!Addresses(rt) = C!Addresses(ms)
        /\ C!Apart(rs, 0)
        /\ rs # << >> => Ahead(rs[Len(rs)], 0, r)
        /\ \A i \in 1 .. Len(rs) : \E l \in 1 .. Len(ms) : WideIn(rs[i], ms[l])
    BY DEF Splitting
  <1>2. /\ r \in Pieces /\ t \in Seq(Pieces) /\ Head(rt) = r
        /\ Len(t) = Len(rt) - 1 /\ Len(rt) \in Nat /\ Len(rt) >= 1 /\ Len(t) \in Nat
        /\ \A i \in 1 .. Len(t) : t[i] = rt[i + 1]
    OBVIOUS
  <1>3. j \in 1 .. Len(ms) /\ m \in Pieces /\ Len(ms) \in Nat
    BY <1>1, <1>2
  <1>4. more = IF net.end < r.end THEN <<Shorter(r)>> \o t ELSE t
    BY DEF C!MoreBehind
  <1>5. /\ net \in NetRecs /\ WideIn(net, m)
        /\ net.family = r.family /\ net.start = r.start /\ net.end <= r.end
        /\ r.family = m.family /\ r.end = m.end
        /\ net.end < r.end =>
             /\ Shorter(r) \in Pieces /\ RestOf(Shorter(r), m)
             /\ Shorter(r).start = net.end + 1
             /\ Shorter(r).family = r.family /\ Shorter(r).end = r.end
    BY <1>1, <1>2, <1>3, SplitOne
  <1>6. /\ net \in Pieces
        /\ net.family \in Nat /\ net.start \in Nat /\ net.end \in Nat /\ r.end \in Nat
        /\ net.start <= net.end
    <2>1. net \in Pieces
      BY <1>5 DEF Pieces
    <2> QED BY <1>2, <2>1, PieceFacts
  <1>7. C!Addresses(rt) = Piece(r) \cup C!Addresses(t)
    BY <1>2, AddressesOfFewer
  <1> HIDE DEF t, net, r, m
  <1>8. /\ all \in Seq(Pieces) /\ all # << >> /\ all[Len(all)] = net
        /\ Len(all) = Len(rs) + 1 /\ Len(rs) \in Nat
        /\ \A i \in 1 .. Len(rs) : all[i] = rs[i]
    <2>1. /\ all \in Seq(Pieces) /\ Len(all) = Len(rs) + 1 /\ Len(rs) \in Nat
          /\ all[Len(rs) + 1] = net /\ \A i \in 1 .. Len(rs) : all[i] = rs[i]
      BY <1>6
    <2> HIDE DEF all
    <2> QED BY <2>1
  <1>9. C!Addresses(all) = C!Addresses(rs) \cup Piece(net)
    BY <1>6, AddressesOfMore
  <1>10. C!Apart(all, 0)
    <2>1. rs # << >> => Ahead(rs[Len(rs)], 0, net)
      BY <1>1, <1>5 DEF Ahead
    <2> QED BY <1>1, <1>6, <2>1, ApartOfMore
  <1> HIDE DEF all, j
  <1>11. \A i \in 1 .. Len(all) : \E l \in 1 .. Len(ms) : WideIn(all[i], ms[l])
    <2> SUFFICES ASSUME NEW i \in 1 .. Len(all)
                 PROVE  \E l \in 1 .. Len(ms) : WideIn(all[i], ms[l])
      OBVIOUS
    <2>1. CASE i \in 1 .. Len(rs)
      BY <1>1, <1>8, <2>1
    <2>2. CASE i = Len(all)
      BY <1>3, <1>5, <1>8, <2>2 DEF m
    <2> QED BY <1>8, <2>1, <2>2
  <1>12. CASE net.end < r.end
    <2> DEFINE u == Shorter(r)
    <2>1. more = <<u>> \o t
      BY <1>4, <1>12
    <2>2. /\ u \in Pieces /\ RestOf(u, m) /\ u.start = net.end + 1
          /\ u.family = r.family /\ u.end = r.end
      BY <1>5, <1>12
    <2> HIDE DEF u
    <2>3. /\ more \in Seq(Pieces) /\ Len(more) = Len(t) + 1 /\ more[1] = u
          /\ \A i \in 2 .. Len(more) : more[i] = t[i - 1]
      <3>1. <<u>> \in Seq(Pieces) /\ Len(<<u>>) = 1 /\ <<u>>[1] = u
        BY <2>2
      <3> QED BY <1>2, <2>1, <3>1
    <2>4. Len(more) = Len(rt)
      BY <1>2, <2>3
    <2>5. \A i \in 2 .. Len(more) : more[i] = ms[Len(ms) - Len(more) + i]
      <3> SUFFICES ASSUME NEW i \in 2 .. Len(more)
                   PROVE  more[i] = ms[Len(ms) - Len(more) + i]
        OBVIOUS
      <3>1. i - 1 \in 1 .. Len(t) /\ (i - 1) + 1 = i /\ i \in 2 .. Len(rt)
        BY <1>2, <2>4
      <3>2. t[i - 1] = rt[i]
        BY <1>2, <3>1
      <3> QED BY <1>1, <2>3, <2>4, <3>1, <3>2
    <2>6. RestOf(more[1], ms[Len(ms) - Len(more) + 1])
      BY <2>2, <2>3, <2>4 DEF m, j
    <2>7. Ahead(all[Len(all)], 0, more[1])
      BY <1>5, <1>6, <1>8, <2>2, <2>3 DEF Ahead, C!LessThan
    <2>8. C!Addresses(more) = Piece(u) \cup C!Addresses(t)
      <3>1. more # << >> /\ Head(more) = u /\ Tail(more) = t
        <4>1. \A x, y : <<x>> \o y = <<x>> \o y
          OBVIOUS
        <4>2. more # << >> /\ Head(more) = u
          BY <1>2, <2>3
        <4>3. Tail(more) = t
          BY <1>2, <2>1, <2>2
        <4> QED BY <4>2, <4>3
      <3> QED BY <2>3, <3>1, AddressesOfFewer
    <2>9. Piece(r) = Piece(net) \cup Piece(u)
      <3>1. r.start .. r.end = (net.start .. net.end) \cup (u.start .. u.end)
        BY <1>5, <1>6, <2>2
      <3>2. ASSUME NEW x
            PROVE  x \in Piece(r) <=> x \in Piece(net) \cup Piece(u)
        BY <1>5, <2>2, <3>1 DEF Piece
      <3> QED BY <3>2
    <2>10. C!Addresses(all) \cup C!Addresses(more) = C!Addresses(ms)
      BY <1>1, <1>7, <1>9, <2>8, <2>9
    <2>11. Splitting(ms, all, more)
      BY <1>1, <1>10, <1>11, <2>4, <2>5, <2>6, <2>7, <2>10 DEF Splitting
    <2> QED BY <1>8, <2>3, <2>11 DEF all, net, r
  <1>13. CASE ~ (net.end < r.end)
    <2>1. more = t /\ net.end = r.end
      BY <1>4, <1>5, <1>6, <1>13
    <2>2. \A i \in 1 .. Len(t) : t[i] = ms[Len(ms) - Len(t) + i]
      <3> SUFFICES ASSUME NEW i \in 1 .. Len(t)
                   PROVE  t[i] = ms[Len(ms) - Len(t) + i]
        OBVIOUS
      <3>1. i + 1 \in 2 .. Len(rt) /\ Len(ms) - Len(rt) + (i + 1) = Len(ms) - Len(t) + i
        BY <1>2, <1>3
      <3> QED BY <1>1, <1>2, <3>1
    <2>3. ASSUME t # << >>
          PROVE  RestOf(t[1], ms[Len(ms) - Len(t) + 1]) /\ Ahead(net, 0, t[1])
      <3>1. 1 \in 1 .. Len(t) /\ t[1] \in Pieces
        BY <1>2, <2>3
      <3>2. t[1] = ms[Len(ms) - Len(t) + 1] /\ Len(ms) - Len(t) + 1 = j + 1
        BY <1>2, <1>3, <2>2, <3>1 DEF j
      <3>3. RestOf(t[1], ms[Len(ms) - Len(t) + 1])
        BY <3>1, <3>2, RestOfItself
      <3>4. j \in 1 .. Len(ms) - 1
        BY <1>1, <1>2, <1>3, <3>1 DEF j
      <3>5. C!LessThan(m.family, m.end + 1, t[1].family, t[1].start)
        BY <3>2, <3>4 DEF C!Apart, m
      <3>6. t[1].family \in Nat /\ t[1].start \in Nat
        BY <3>1, PieceFacts
      <3> QED BY <1>5, <1>6, <2>1, <3>3, <3>5, <3>6 DEF Ahead, C!LessThan
    <2>4. Piece(r) = Piece(net)
      BY <1>5, <2>1 DEF Piece
    <2>5. C!Addresses(all) \cup C!Addresses(t) = C!Addresses(ms)
      BY <1>1, <1>7, <1>9, <2>4
    <2>6. Len(t) <= Len(ms) /\ \A i \in 2 .. Len(t) : i \in 1 .. Len(t)
      BY <1>1, <1>2, <1>3
    <2>7. Splitting(ms, all, t)
      BY <1>8, <1>10, <1>11, <2>2, <2>3, <2>5, <2>6 DEF Splitting
    <2> QED BY <1>2, <1>8, <2>1, <2>7 DEF all, net, r
  <1> QED BY <1>12, <1>13

LEMMA AllAsRanges ==
    ASSUME NEW ms \in Seq(Pieces), C!Apart(ms, 1)
    PROVE  LET rs == [i \in DOMAIN ms |-> C!ToRange(ms[i])]
           IN  rs \in Seq(Pieces) /\ AsRanges(ms, rs)
  <1> DEFINE rs == [i \in DOMAIN ms |-> C!ToRange(ms[i])]
  <1>1. DOMAIN ms = 1 .. Len(ms) /\ Len(ms) \in Nat /\ \A i \in 1 .. Len(ms) : ms[i] \in Pieces
    OBVIOUS
  <1>2. ASSUME NEW i \in 1 .. Len(ms)
        PROVE  /\ C!ToRange(ms[i]) \in Pieces /\ Piece(C!ToRange(ms[i])) = Piece(ms[i])
               /\ C!ToRange(ms[i]).family = ms[i].family
               /\ C!ToRange(ms[i]).start = ms[i].start /\ C!ToRange(ms[i]).end = ms[i].end
    <2>1. C!ToRange(ms[i]) \in RangeRecs /\ Piece(C!ToRange(ms[i])) = Piece(ms[i])
      BY <1>1, ToRangeFacts
    <2> QED BY <2>1 DEF Pieces, C!ToRange, C!Range_
  <1>3. /\ rs \in Seq(Pieces) /\ Len(rs) = Len(ms)
        /\ \A i \in 1 .. Len(ms) : rs[i] = C!ToRange(ms[i])
    <2>1. rs \in [1 .. Len(ms) -> Pieces]
      BY <1>1, <1>2
    <2> QED BY <1>1, <2>1
  <1> HIDE DEF rs
  <1>4. C!Addresses(rs) = C!Addresses(ms)
    <2>1. \A i \in 1 .. Len(ms) : Piece(rs[i]) = Piece(ms[i])
      BY <1>2, <1>3
    <2> QED BY <1>3, <2>1, AddressesAlike
  <1>5. C!Apart(rs, 0)
    <2>1. ASSUME NEW i \in 1 .. Len(rs) - 1
          PROVE  C!LessThan(rs[i].family, rs[i].end + 0, rs[i + 1].family, rs[i + 1].start)
      <3>1. i \in 1 .. Len(ms) - 1 /\ i \in 1 .. Len(ms) /\ i + 1 \in 1 .. Len(ms)
        BY <1>1, <1>3
      <3>2. /\ rs[i].family = ms[i].family /\ rs[i].end = ms[i].end
            /\ rs[i + 1].family = ms[i + 1].family /\ rs[i + 1].start = ms[i + 1].start
        BY <1>2, <1>3, <3>1
      <3>3. C!LessThan(ms[i].family, ms[i].end + 1, ms[i + 1].family, ms[i + 1].start)
        BY <3>1 DEF C!Apart
      <3>4. /\ ms[i].end \in Nat /\ ms[i + 1].start \in Nat
            /\ ms[i].family \in Nat /\ ms[i + 1].family \in Nat
        BY <1>1, <3>1, PieceFacts
      <3> QED BY <3>2, <3>3, <3>4 DEF C!LessThan
    <2> QED BY <2>1 DEF C!Apart
  <1> QED BY <1>3, <1>4, <1>5 DEF AsRanges, rs

-----------------------------------------------------------------------------
(* The invariant: how far the loop of each phase has come. *)
PhaseInv(ph, w, ms, nw, rs, type, rt, re) ==
    /\ ph = "parse" => ms = << >>
    /\ ph = "merge" => Merging(w, ms, nw, rs)
    /\ ph \in {"merged", "split"} => Merged(w, ms)
    /\ ph = "split" =>
         \/ type = "range" /\ rt = << >> /\ AsRanges(ms, re)
         \/ type = "cidr" /\ Splitting(ms, re, rt)

RangesTypes ==
    /\ texts \in Seq(Ranges)
    /\ wrappers \in Seq(Pieces) /\ merged \in Seq(Pieces)
    /\ rest \in Seq(Pieces) /\ result \in Seq(Pieces)
    /\ ranges \in Seq(RangeRecs) /\ now \in Seq(RangeRecs) /\ Len(now) <= 1
    /\ phase \in {"parse", "merge", "merged", "split"}

RangesInv ==
    RangesTypes /\ PhaseInv(phase, wrappers, merged, now, ranges, outputType, rest, result)

LEMMA ParseKeeps ==
    ASSUME RangesInv, NEW t \in Ranges, C!Parse(t)
    PROVE  RangesInv'
  <1>1. /\ phase = "parse" /\ phase' = "parse" /\ merged' = merged
        /\ rest' = rest /\ result' = result /\ ranges' = ranges /\ now' = now
    BY DEF C!Parse
  <1>2. texts' \in Seq(Ranges) /\ wrappers' \in Seq(Pieces)
    <2>1. texts \in Seq(Ranges) /\ wrappers \in Seq(Pieces)
      BY DEF RangesInv, RangesTypes
    <2>2. CASE C!Parses(t)
      <3>1. C!ParseRange(t) \in Pieces
        BY <2>2, ParseRangeFacts
      <3>2. texts' = Append(texts, t) /\ wrappers' = Append(wrappers, C!ParseRange(t))
        BY <2>2 DEF C!Parse
      <3> QED BY <2>1, <3>1, <3>2
    <2>3. CASE ~ C!Parses(t)
      <3>1. texts' = texts /\ wrappers' = wrappers
        BY <2>3 DEF C!Parse
      <3> QED BY <2>1, <3>1
    <2> QED BY <2>2, <2>3
  <1> QED BY <1>1, <1>2 DEF RangesInv, RangesTypes, PhaseInv

LEMMA SortAndMergeKeeps ==
    ASSUME RangesInv, C!SortAndMerge
    PROVE  RangesInv'
  <1>1. /\ phase = "parse" /\ merged = << >> /\ wrappers \in Seq(Pieces)
        /\ texts' = texts /\ wrappers' = wrappers /\ rest' = rest /\ result' = result
    BY DEF RangesInv, RangesTypes, PhaseInv, C!SortAndMerge
  <1>2. CASE Len(wrappers) < 2
    <2>1. merged' = wrappers /\ phase' = "merged" /\ ranges' = ranges /\ now' = now
      BY <1>2 DEF C!SortAndMerge
    <2>2. C!Apart(wrappers, 1)
      <3>1. \A i \in 1 .. Len(wrappers) - 1 : FALSE
        BY <1>1, <1>2
      <3> QED BY <3>1 DEF C!Apart
    <2>3. Merged(wrappers, wrappers)
      BY <2>2 DEF Merged
    <2>4. PhaseInv(phase, wrappers, merged, now, ranges, outputType, rest, result)'
      BY <1>1, <2>1, <2>3 DEF PhaseInv
    <2> QED BY <1>1, <2>1, <2>4 DEF RangesInv, RangesTypes
  <1>3. CASE ~ (Len(wrappers) < 2)
    <2>1. PICK s \in C!Sorts([i \in DOMAIN wrappers |-> C!ToRange(wrappers[i])]) :
              now' = <<Head(s)>> /\ ranges' = Tail(s)
      BY <1>3 DEF C!SortAndMerge
    <2>2. phase' = "merge" /\ merged' = merged
      BY <1>3 DEF C!SortAndMerge
    <2>3. Len(wrappers) >= 2
      BY <1>1, <1>3
    <2>4. /\ <<Head(s)>> \in Seq(RangeRecs) /\ Tail(s) \in Seq(RangeRecs)
          /\ Merging(wrappers, << >>, <<Head(s)>>, Tail(s))
      BY <1>1, <2>3, MergeBegins
    <2>5. Len(<<Head(s)>>) <= 1
      OBVIOUS
    <2>6. PhaseInv(phase, wrappers, merged, now, ranges, outputType, rest, result)'
      BY <1>1, <2>1, <2>2, <2>4 DEF PhaseInv
    <2>7. RangesTypes'
      BY <1>1, <2>1, <2>2, <2>4, <2>5 DEF RangesInv, RangesTypes
    <2> QED BY <2>6, <2>7 DEF RangesInv
  <1> QED BY <1>2, <1>3

LEMMA OnlyOne ==
    ASSUME NEW X, NEW s \in Seq(X), Len(s) = 1
    PROVE  s = <<s[1]>> /\ s[1] \in X
  <1>1. s[1] \in X
    OBVIOUS
  <1> DEFINE u == <<s[1]>>
  <1>2. u \in Seq(X) /\ Len(u) = 1 /\ u[1] = s[1]
    BY <1>1
  <1> HIDE DEF u
  <1>3. s = u
    <2>1. \A i \in 1 .. 1 : s[i] = u[i]
      BY <1>2
    <2>2. s = [i \in 1 .. 1 |-> s[i]] /\ u = [i \in 1 .. 1 |-> u[i]]
      BY <1>2
    <2>3. [i \in 1 .. 1 |-> s[i]] = [i \in 1 .. 1 |-> u[i]]
      BY <2>1, Zenon
    <2> HIDE DEF u
    <2> QED BY <2>2, <2>3, Zenon
  <1> QED BY <1>1, <1>3 DEF u

LEMMA MergeOneKeeps ==
    ASSUME RangesInv, C!MergeOne
    PROVE  RangesInv'
  <1> DEFINE r == now[1]
             next == ranges[1]
  <1>1. /\ phase = "merge" /\ phase' = "merge" /\ ranges # << >> /\ ranges \in Seq(RangeRecs)
        /\ ranges' = Tail(ranges) /\ merged \in Seq(Pieces)
        /\ texts' = texts /\ wrappers' = wrappers /\ rest' = rest /\ result' = result
        /\ now \in Seq(RangeRecs) /\ Merging(wrappers, merged, now, ranges)
    BY DEF RangesInv, RangesTypes, PhaseInv, C!MergeOne
  <1>2. Len(now) = 1
    BY <1>1 DEF Merging
  <1>3. now = <<r>> /\ r \in RangeRecs /\ Head(ranges) = next
    BY <1>1, <1>2, OnlyOne
  <1>4. next \in RangeRecs /\ Tail(ranges) \in Seq(RangeRecs)
    BY <1>1
  <1>5. Merging(wrappers, merged, <<r>>, ranges)
    BY <1>1, <1>3
  <1>6. CASE next.family = r.family /\ C!Joins(r, next)
    <2> DEFINE new == [r EXCEPT !.end = C!Larger(@, next.end)]
    <2>1. now' = <<new>> /\ merged' = merged
      BY <1>3, <1>6 DEF C!MergeOne
    <2>2. new \in RangeRecs /\ Merging(wrappers, merged, <<new>>, Tail(ranges))
      BY <1>1, <1>3, <1>5, <1>6, MergeJoins
    <2> HIDE DEF new
    <2>3. <<new>> \in Seq(RangeRecs) /\ Len(<<new>>) <= 1
      BY <2>2
    <2>4. PhaseInv(phase, wrappers, merged, now, ranges, outputType, rest, result)'
      BY <1>1, <2>1, <2>2 DEF PhaseInv
    <2>5. RangesTypes'
      BY <1>1, <1>4, <2>1, <2>3 DEF RangesInv, RangesTypes
    <2> QED BY <2>4, <2>5 DEF RangesInv
  <1>7. CASE ~ (next.family = r.family /\ C!Joins(r, next))
    <2>1. now' = <<next>> /\ merged' = Append(merged, r)
      BY <1>3, <1>7 DEF C!MergeOne
    <2>2. /\ Append(merged, r) \in Seq(Pieces)
          /\ Merging(wrappers, Append(merged, r), <<next>>, Tail(ranges))
      BY <1>1, <1>3, <1>5, <1>7, MergeMovesOn
    <2>3. <<next>> \in Seq(RangeRecs) /\ Len(<<next>>) <= 1
      BY <1>4
    <2>4. PhaseInv(phase, wrappers, merged, now, ranges, outputType, rest, result)'
      BY <1>1, <2>1, <2>2 DEF PhaseInv
    <2>5. RangesTypes'
      BY <1>1, <1>4, <2>1, <2>2, <2>3 DEF RangesInv, RangesTypes
    <2> QED BY <2>4, <2>5 DEF RangesInv
  <1> QED BY <1>6, <1>7

LEMMA EndMergeKeeps ==
    ASSUME RangesInv, C!EndMerge
    PROVE  RangesInv'
  <1> DEFINE r == now[1]
  <1>1. /\ phase = "merge" /\ phase' = "merged" /\ ranges = << >> /\ ranges' = ranges
        /\ merged' = merged \o now /\ now' = << >> /\ merged \in Seq(Pieces)
        /\ texts' = texts /\ wrappers' = wrappers /\ rest' = rest /\ result' = result
        /\ now \in Seq(RangeRecs) /\ Merging(wrappers, merged, now, ranges)
    BY DEF RangesInv, RangesTypes, PhaseInv, C!EndMerge
  <1>2. Len(now) = 1
    BY <1>1 DEF Merging
  <1>3. now = <<r>> /\ r \in RangeRecs
    BY <1>1, <1>2, OnlyOne
  <1>4. merged \o now \in Seq(Pieces) /\ Merged(wrappers, merged \o now)
    BY <1>1, <1>3, MergeEnds
  <1>5. PhaseInv(phase, wrappers, merged, now, ranges, outputType, rest, result)'
    BY <1>1, <1>4 DEF PhaseInv
  <1>6. RangesTypes'
    BY <1>1, <1>4 DEF RangesInv, RangesTypes
  <1> QED BY <1>5, <1>6 DEF RangesInv

LEMMA MarshalTextKeeps ==
    ASSUME RangesInv, NEW type \in {"range", "cidr"}, C!MarshalText(type)
    PROVE  RangesInv'
  <1>1. /\ phase = "merged" /\ phase' = "split" /\ outputType' = type /\ merged' = merged
        /\ merged \in Seq(Pieces) /\ Merged(wrappers, merged)
        /\ texts' = texts /\ wrappers' = wrappers /\ ranges' = ranges /\ now' = now
    BY DEF RangesInv, RangesTypes, PhaseInv, C!MarshalText
  <1>2. C!Apart(merged, 1)
    BY <1>1 DEF Merged
  <1>3. CASE type = "range"
    <2> DEFINE rs == [i \in DOMAIN merged |-> C!ToRange(merged[i])]
    <2>1. result' = rs /\ rest' = << >>
      BY <1>3 DEF C!MarshalText
    <2>2. rs \in Seq(Pieces) /\ AsRanges(merged, rs)
      BY <1>1, <1>2, AllAsRanges
    <2> HIDE DEF rs
    <2>3. PhaseInv(phase, wrappers, merged, now, ranges, outputType, rest, result)'
      BY <1>1, <1>3, <2>1, <2>2 DEF PhaseInv
    <2>4. RangesTypes'
      BY <1>1, <2>1, <2>2 DEF RangesInv, RangesTypes
    <2> QED BY <2>3, <2>4 DEF RangesInv
  <1>4. CASE type # "range"
    <2>1. result' = << >> /\ rest' = merged /\ type = "cidr"
      BY <1>4 DEF C!MarshalText
    <2>2. Splitting(merged, << >>, merged)
      BY <1>1, SplitBegins
    <2>3. PhaseInv(phase, wrappers, merged, now, ranges, outputType, rest, result)'
      BY <1>1, <2>1, <2>2 DEF PhaseInv
    <2>4. RangesTypes'
      BY <1>1, <2>1 DEF RangesInv, RangesTypes
    <2> QED BY <2>3, <2>4 DEF RangesInv
  <1> QED BY <1>3, <1>4

LEMMA ToIpNetsKeeps ==
    ASSUME RangesInv, C!ToIpNets
    PROVE  RangesInv'
  <1> DEFINE r == rest[1]
             net == NetOf(r)
             more == IF C!MoreBehind(net, r) THEN <<Shorter(r)>> \o Tail(rest) ELSE Tail(rest)
             all == Append(result, net)
  <1>1. /\ phase = "split" /\ rest # << >> /\ merged' = merged /\ outputType' = outputType
        /\ merged \in Seq(Pieces) /\ rest \in Seq(Pieces) /\ result \in Seq(Pieces)
        /\ Merged(wrappers, merged)
        /\ texts' = texts /\ wrappers' = wrappers /\ ranges' = ranges /\ now' = now
    BY DEF RangesInv, RangesTypes, PhaseInv, C!ToIpNets
  <1>2. outputType = "cidr" /\ Splitting(merged, result, rest)
    BY <1>1 DEF RangesInv, PhaseInv
  <1>3. Head(rest) = r /\ r \in Pieces
    BY <1>1
  <1>4. ~ (r.start > r.end)
    BY <1>3, PieceFacts
  <1>5. result' = all /\ rest' = more /\ phase' = phase
    BY <1>3, <1>4 DEF C!ToIpNets, NetOf, Shorter
  <1>6. C!Apart(merged, 1)
    BY <1>1 DEF Merged
  <1>7. all \in Seq(Pieces) /\ more \in Seq(Pieces) /\ Splitting(merged, all, more)
    BY <1>1, <1>2, <1>6, SplitGoesOn
  <1> HIDE DEF all, more
  <1>8. PhaseInv(phase, wrappers, merged, now, ranges, outputType, rest, result)'
    BY <1>1, <1>2, <1>5, <1>7 DEF PhaseInv
  <1>9. RangesTypes'
    BY <1>1, <1>5, <1>7 DEF RangesInv, RangesTypes
  <1> QED BY <1>8, <1>9 DEF RangesInv

(* The other parts leave the variables of this one alone. *)
LEMMA RangesStay ==
    ASSUME [Next]_vars
    PROVE  [C!Next]_(C!vars)
  BY DEF Next, vars, MatchersStep, CidrStep, EntryStep, SrsStep, DurationStep,
         matchers, cidrs, entry, codec, duration, C!vars

LEMMA RangesInvHolds ==
    Spec => []RangesInv
  <1>1. Init => RangesInv
    <2> SUFFICES ASSUME Init
                 PROVE  RangesInv
      OBVIOUS
    <2>1. /\ texts = << >> /\ wrappers = << >> /\ ranges = << >> /\ now = << >>
          /\ merged = << >> /\ rest = << >> /\ result = << >> /\ phase = "parse"
      BY DEF Init, C!Init
    <2>2. Len(<< >>) <= 1
      OBVIOUS
    <2> QED BY <2>1, <2>2 DEF RangesInv, RangesTypes, PhaseInv
  <1>2. RangesInv /\ [Next]_vars => RangesInv'
    <2> SUFFICES ASSUME RangesInv, [C!Next]_(C!vars)
                 PROVE  RangesInv'
      BY RangesStay
    <2>1. CASE C!Next
      BY <2>1, ParseKeeps, SortAndMergeKeeps, MergeOneKeeps, EndMergeKeeps,
         MarshalTextKeeps, ToIpNetsKeeps DEF C!Next
    <2>2. CASE UNCHANGED C!vars
      BY <2>2 DEF C!vars, RangesInv, RangesTypes, PhaseInv
    <2> QED BY <2>1, <2>2
  <1> QED BY <1>1, <1>2, PTL DEF Spec

(* Merging keeps the addresses and leaves ranges in order, none of which   *)
(* touch, and what is put out has the same addresses, in as few networks   *)
(* as can be: for addresses of any length and any number of texts.         *)
(* (SortAndMerge, MarshalText, Range.ToIpNets)                             *)
THEOREM MergedAndSplitExactly ==
    Spec => []RangesExact
  <1>1. RangesInv => RangesExact
    <2> SUFFICES ASSUME RangesInv
                 PROVE  C!RangesExact
      BY DEF RangesExact
    <2>1. ASSUME phase \in {"merged", "split"}
          PROVE  C!Addresses(merged) = C!Addresses(wrappers) /\ C!Apart(merged, 1)
      BY <2>1 DEF RangesInv, PhaseInv, Merged
    <2>2. ASSUME phase = "split", rest = << >>
          PROVE  /\ C!Addresses(result) = C!Addresses(wrappers)
                 /\ C!Apart(result, 0)
                 /\ outputType = "range" => Len(result) = Len(merged)
                 /\ outputType = "cidr" =>
                      \A i \in DOMAIN result : \E j \in DOMAIN merged :
                          result[i].family = merged[j].family /\ C!AsWideAsCan(result[i], merged[j])
      <3>1. C!Addresses(merged) = C!Addresses(wrappers)
        BY <2>1, <2>2
      <3>2. \/ outputType = "range" /\ AsRanges(merged, result)
            \/ outputType = "cidr" /\ Splitting(merged, result, rest)
        BY <2>2 DEF RangesInv, PhaseInv
      <3>3. DOMAIN result = 1 .. Len(result) /\ DOMAIN merged = 1 .. Len(merged)
        BY DEF RangesInv, RangesTypes
      <3>4. CASE outputType = "range" /\ AsRanges(merged, result)
        BY <3>1, <3>4 DEF AsRanges
      <3>5. CASE outputType = "cidr" /\ Splitting(merged, result, rest)
        <4>1. C!Addresses(result) = C!Addresses(merged)
          BY <2>2, <3>5, AddressesOfNone DEF Splitting
        <4> QED BY <3>1, <3>3, <3>5, <4>1 DEF Splitting, WideIn
      <3> QED BY <3>2, <3>4, <3>5
    <2> QED BY <2>1, <2>2 DEF C!RangesExact
  <1> QED BY <1>1, RangesInvHolds, PTL

(* Types of this part, and no range that the loops have is one without an  *)
(* address: the package never panics. (Range.ToIpNets)                     *)
LEMMA RangesNeverPanic ==
    Spec => []C!TypeOK
  <1>1. RangesInv => C!TypeOK
    <2> SUFFICES ASSUME RangesInv
                 PROVE  C!TypeOK
      OBVIOUS
    <2>1. RangeRecs \subseteq Pieces
      BY DEF Pieces
    <2>2. /\ wrappers \in Seq(Pieces) /\ merged \in Seq(Pieces) /\ rest \in Seq(Pieces)
          /\ result \in Seq(Pieces) /\ ranges \in Seq(Pieces) /\ now \in Seq(Pieces)
      BY <2>1, SeqOfMore DEF RangesInv, RangesTypes
    <2>3. ASSUME NEW s \in Seq(Pieces), NEW i \in DOMAIN s
          PROVE  C!IsRange(s[i])
      <3>1. s[i] \in Pieces
        OBVIOUS
      <3> QED BY <3>1, PieceFacts
    <2>4. \A i \in DOMAIN texts : texts[i] \in Ranges
      BY DEF RangesInv, RangesTypes
    <2> QED BY <2>2, <2>3, <2>4 DEF C!TypeOK, RangesInv, RangesTypes
  <1> QED BY <1>1, RangesInvHolds, PTL

-----------------------------------------------------------------------------
(* Products and quotients. *)
LEMMA TimesMore ==
    ASSUME NEW a \in Nat, NEW b \in Nat, NEW c \in Nat, a <= b
    PROVE  a * c <= b * c /\ a * c \in Nat /\ b * c \in Nat
  OBVIOUS

LEMMA DivBound ==
    ASSUME NEW a \in Nat, NEW h \in Nat, NEW b \in Nat \ {0}
    PROVE  a <= h \div b <=> a * b <= h
  <1> DEFINE q == h \div b
  <1>1. q \in Nat /\ q * b <= h /\ h < q * b + b
    OBVIOUS
  <1> HIDE DEF q
  <1>2. CASE a <= q
    <2>1. a * b <= q * b /\ a * b \in Nat /\ q * b \in Nat
      BY <1>1, <1>2, TimesMore
    <2> QED BY <1>1, <1>2, <2>1 DEF q
  <1>3. CASE ~ (a <= q)
    <2>1. q + 1 \in Nat /\ q + 1 <= a
      BY <1>1, <1>3
    <2>2. (q + 1) * b <= a * b /\ a * b \in Nat /\ (q + 1) * b \in Nat
      BY <2>1, TimesMore
    <2>3. (q + 1) * b = q * b + b
      BY <1>1
    <2>4. q * b \in Nat
      BY <1>1
    <2>5. h < a * b
      BY <1>1, <2>2, <2>3, <2>4
    <2> QED BY <1>3, <2>2, <2>5 DEF q
  <1> QED BY <1>2, <1>3

LEMMA TimesStrict ==
    ASSUME NEW a \in Nat, NEW b \in Nat, NEW c \in Nat \ {0}
    PROVE  a * c < b * c <=> a < b
  OBVIOUS

LEMMA TimesAssoc ==
    ASSUME NEW a \in Nat, NEW b \in Nat, NEW c \in Nat
    PROVE  (a * b) * c = a * (b * c) /\ a * b = b * a /\ (a + 1) * b = a * b + b /\ (a * b) * c = (a * c) * b
  OBVIOUS

-----------------------------------------------------------------------------
(* Durations. *)
Digits == 0 .. Base - 1

LEMMA LimitFacts ==
    /\ D!Half \in Nat \ {0} /\ Base \in Nat \ {0} /\ 2 <= Base /\ Base <= D!Half
    /\ \A u \in DOMAIN Units : Units[u] \in Nat \ {0} /\ Units[u] * Base <= D!Half
    /\ \A n \in Nat : D!Word(n) \in Nat
    /\ \A n \in Nat : n < 2 * D!Half => D!Word(n) = n
    /\ D!Word(2 * D!Half) = 0
  <1>1. /\ WordSize \in Nat \ {0} /\ Base \in 2 .. D!Half
        /\ \A u \in DOMAIN Units : Units[u] \in 1 .. D!Half \div Base
    <2>1. D!TermsAssumption
      BY BoundsAssumption
    <2> QED BY <2>1 DEF D!TermsAssumption, D!Half
  <1>2. D!Half \in Nat \ {0}
    <2>1. WordSize - 1 \in Nat
      BY <1>1
    <2>2. D!Half = Pow2(WordSize - 1)
      BY DEF D!Half, D!Pow2, Pow2
    <2> QED BY <2>1, <2>2, PowersPositive
  <1> DEFINE h == D!Half
             m == 2 * h
  <1>3. \A n : D!Word(n) = n % m
    BY DEF D!Word
  <1>4. h \in Nat \ {0} /\ m \in Nat \ {0} /\ m = 2 * h
    BY <1>2
  <1>5. ASSUME NEW u \in DOMAIN Units
        PROVE  Units[u] \in Nat \ {0} /\ Units[u] * Base <= h
    <2> DEFINE x == Units[u]
    <2>1. x \in 1 .. h \div Base /\ Base \in Nat \ {0}
      BY <1>1
    <2> HIDE DEF x, h, m
    <2>2. x \in Nat \ {0} /\ x <= h \div Base
      BY <1>4, <2>1, DivBound
    <2>3. x * Base <= h
      BY <1>4, <2>1, <2>2, DivBound
    <2> QED BY <2>2, <2>3 DEF x
  <1> HIDE DEF h, m
  <1>6. \A n \in Nat : n % m \in Nat /\ (n < m => n % m = n)
    BY <1>4
  <1>7. m % m = 0
    BY <1>4
  <1> QED BY <1>1, <1>3, <1>4, <1>5, <1>6, <1>7 DEF h, m

States == [x : Nat, scale : Nat, overflow : BOOLEAN]

LEMMA ValueType ==
    ASSUME NEW v \in Nat, NEW c \in Digits
    PROVE  D!Shifted(v, c) \in Nat
  BY LimitFacts DEF D!Shifted, Digits

ValueTo(s) ==
    CHOOSE g : g = [n \in 0 .. Len(s) |-> IF n = 0 THEN 0 ELSE D!Shifted(g[n - 1], s[n])]

LEMMA ValueFunction ==
    ASSUME NEW s \in Seq(Digits)
    PROVE  /\ D!Value(s) = ValueTo(s)[Len(s)]
           /\ ValueTo(s)[0] = 0
           /\ \A k \in 1 .. Len(s) : ValueTo(s)[k] = D!Shifted(ValueTo(s)[k - 1], s[k])
  <1> DEFINE X == Nat
             N == Len(s)
             next == [n \in 1 .. N |-> [v \in X |-> D!Shifted(v, s[n])]]
             Body(g) == [n \in 0 .. N |-> IF n = 0 THEN 0 ELSE D!Shifted(g[n - 1], s[n])]
             all == ValueTo(s)
  <1>1. D!Value(s) = all[N]
    BY DEF D!Value, D!Fold, ValueTo
  <1>2. all = CHOOSE g : g = Body(g)
    BY DEF ValueTo
  <1>3. N \in Nat /\ \A n \in 1 .. N : s[n] \in Digits
    OBVIOUS
  <1>4. \A n \in 1 .. N, v \in X : next[n][v] = D!Shifted(v, s[n])
    OBVIOUS
  <1>5. ASSUME NEW n \in 1 .. N
        PROVE  next[n] \in [X -> X]
    <2>1. \A v \in X : D!Shifted(v, s[n]) \in X
      BY <1>3, ValueType
    <2> QED BY <2>1
  <1>6. IsStep(next, N, X) /\ 0 \in X
    BY <1>5 DEF IsStep
  <1> HIDE DEF next, all, X, N
  <1>7. PICK g : IsRecursive(g, N, X, 0, next)
    BY <1>3, <1>6, RecursiveFunction
  <1>8. g = Body(g)
    <2>1. ASSUME NEW n \in 1 .. N
          PROVE  g[n] = D!Shifted(g[n - 1], s[n])
      <3>1. n - 1 \in 0 .. N
        BY <1>3
      <3>2. g[n - 1] \in X
        BY <1>7, <3>1 DEF IsRecursive
      <3> QED BY <1>4, <1>7, <3>2 DEF IsRecursive
    <2> QED BY <1>7, <2>1 DEF IsRecursive
  <1>9. all = Body(all)
    BY <1>2, <1>8
  <1>10. all[0] = 0 /\ \A n \in 1 .. N : all[n] = D!Shifted(all[n - 1], s[n])
    BY <1>3, <1>9
  <1> QED BY <1>1, <1>10 DEF all, N

LEMMA ScaleType ==
    ASSUME NEW v \in Nat, NEW c \in Digits
    PROVE  D!Longer(v, c) \in Nat
  BY LimitFacts DEF D!Longer, Digits

ScaleTo(s) ==
    CHOOSE g : g = [n \in 0 .. Len(s) |-> IF n = 0 THEN 1 ELSE D!Longer(g[n - 1], s[n])]

LEMMA ScaleFunction ==
    ASSUME NEW s \in Seq(Digits)
    PROVE  /\ D!Scale(s) = ScaleTo(s)[Len(s)]
           /\ ScaleTo(s)[0] = 1
           /\ \A k \in 1 .. Len(s) : ScaleTo(s)[k] = D!Longer(ScaleTo(s)[k - 1], s[k])
  <1> DEFINE X == Nat
             N == Len(s)
             next == [n \in 1 .. N |-> [v \in X |-> D!Longer(v, s[n])]]
             Body(g) == [n \in 0 .. N |-> IF n = 0 THEN 1 ELSE D!Longer(g[n - 1], s[n])]
             all == ScaleTo(s)
  <1>1. D!Scale(s) = all[N]
    BY DEF D!Scale, D!Fold, ScaleTo
  <1>2. all = CHOOSE g : g = Body(g)
    BY DEF ScaleTo
  <1>3. N \in Nat /\ \A n \in 1 .. N : s[n] \in Digits
    OBVIOUS
  <1>4. \A n \in 1 .. N, v \in X : next[n][v] = D!Longer(v, s[n])
    OBVIOUS
  <1>5. ASSUME NEW n \in 1 .. N
        PROVE  next[n] \in [X -> X]
    <2>1. \A v \in X : D!Longer(v, s[n]) \in X
      BY <1>3, ScaleType
    <2> QED BY <2>1
  <1>6. IsStep(next, N, X) /\ 1 \in X
    BY <1>5 DEF IsStep
  <1> HIDE DEF next, all, X, N
  <1>7. PICK g : IsRecursive(g, N, X, 1, next)
    BY <1>3, <1>6, RecursiveFunction
  <1>8. g = Body(g)
    <2>1. ASSUME NEW n \in 1 .. N
          PROVE  g[n] = D!Longer(g[n - 1], s[n])
      <3>1. n - 1 \in 0 .. N
        BY <1>3
      <3>2. g[n - 1] \in X
        BY <1>7, <3>1 DEF IsRecursive
      <3> QED BY <1>4, <1>7, <3>2 DEF IsRecursive
    <2> QED BY <1>7, <2>1 DEF IsRecursive
  <1>9. all = Body(all)
    BY <1>2, <1>8
  <1>10. all[0] = 1 /\ \A n \in 1 .. N : all[n] = D!Longer(all[n - 1], s[n])
    BY <1>3, <1>9
  <1> QED BY <1>1, <1>10 DEF all, N

LEMMA WholeType ==
    ASSUME NEW v \in Nat \cup {D!TooMany}, NEW c \in Digits
    PROVE  D!NextDigit(v, c) \in Nat \cup {D!TooMany}
  <1>1. CASE v = D!TooMany
    BY <1>1 DEF D!NextDigit
  <1>2. CASE v \in Nat
    <2>1. v * Base + c \in Nat
      BY <1>2, LimitFacts DEF Digits
    <2>2. D!Word(v * Base + c) \in Nat
      BY <2>1, LimitFacts
    <2> QED BY <2>2 DEF D!NextDigit
  <1> QED BY <1>1, <1>2

WholeTo(s) ==
    CHOOSE g : g = [n \in 0 .. Len(s) |-> IF n = 0 THEN 0 ELSE D!NextDigit(g[n - 1], s[n])]

LEMMA WholeFunction ==
    ASSUME NEW s \in Seq(Digits)
    PROVE  /\ D!LeadingInt(s) = WholeTo(s)[Len(s)]
           /\ WholeTo(s)[0] = 0
           /\ \A k \in 1 .. Len(s) : WholeTo(s)[k] = D!NextDigit(WholeTo(s)[k - 1], s[k])
  <1> DEFINE X == Nat \cup {D!TooMany}
             N == Len(s)
             next == [n \in 1 .. N |-> [v \in X |-> D!NextDigit(v, s[n])]]
             Body(g) == [n \in 0 .. N |-> IF n = 0 THEN 0 ELSE D!NextDigit(g[n - 1], s[n])]
             all == WholeTo(s)
  <1>1. D!LeadingInt(s) = all[N]
    BY DEF D!LeadingInt, D!Fold, WholeTo
  <1>2. all = CHOOSE g : g = Body(g)
    BY DEF WholeTo
  <1>3. N \in Nat /\ \A n \in 1 .. N : s[n] \in Digits
    OBVIOUS
  <1>4. \A n \in 1 .. N, v \in X : next[n][v] = D!NextDigit(v, s[n])
    OBVIOUS
  <1>5. ASSUME NEW n \in 1 .. N
        PROVE  next[n] \in [X -> X]
    <2>1. \A v \in X : D!NextDigit(v, s[n]) \in X
      BY <1>3, WholeType
    <2> QED BY <2>1
  <1>6. IsStep(next, N, X) /\ 0 \in X
    BY <1>5 DEF IsStep
  <1> HIDE DEF next, all, X, N
  <1>7. PICK g : IsRecursive(g, N, X, 0, next)
    BY <1>3, <1>6, RecursiveFunction
  <1>8. g = Body(g)
    <2>1. ASSUME NEW n \in 1 .. N
          PROVE  g[n] = D!NextDigit(g[n - 1], s[n])
      <3>1. n - 1 \in 0 .. N
        BY <1>3
      <3>2. g[n - 1] \in X
        BY <1>7, <3>1 DEF IsRecursive
      <3> QED BY <1>4, <1>7, <3>2 DEF IsRecursive
    <2> QED BY <1>7, <2>1 DEF IsRecursive
  <1>9. all = Body(all)
    BY <1>2, <1>8
  <1>10. all[0] = 0 /\ \A n \in 1 .. N : all[n] = D!NextDigit(all[n - 1], s[n])
    BY <1>3, <1>9
  <1> QED BY <1>1, <1>10 DEF all, N

LEMMA FractionType ==
    ASSUME NEW v \in States, NEW c \in Digits
    PROVE  D!NextOfFraction(v, c) \in States
  <1>1. v.x \in Nat /\ v.scale \in Nat /\ v.x * Base + c \in Nat /\ v.scale * Base \in Nat
    BY LimitFacts DEF Digits, States
  <1>2. D!Word(v.x * Base + c) \in Nat
    BY <1>1, LimitFacts
  <1> QED BY <1>1, <1>2 DEF D!NextOfFraction, States

FractionTo(s) ==
    CHOOSE g : g = [n \in 0 .. Len(s) |-> IF n = 0 THEN D!NoFraction ELSE D!NextOfFraction(g[n - 1], s[n])]

LEMMA FractionFunction ==
    ASSUME NEW s \in Seq(Digits)
    PROVE  /\ D!LeadingFraction(s) = FractionTo(s)[Len(s)]
           /\ FractionTo(s)[0] = D!NoFraction
           /\ \A k \in 1 .. Len(s) : FractionTo(s)[k] = D!NextOfFraction(FractionTo(s)[k - 1], s[k])
  <1> DEFINE X == States
             N == Len(s)
             next == [n \in 1 .. N |-> [v \in X |-> D!NextOfFraction(v, s[n])]]
             Body(g) == [n \in 0 .. N |-> IF n = 0 THEN D!NoFraction ELSE D!NextOfFraction(g[n - 1], s[n])]
             all == FractionTo(s)
  <1>1. D!LeadingFraction(s) = all[N]
    BY DEF D!LeadingFraction, D!Fold, FractionTo
  <1>2. all = CHOOSE g : g = Body(g)
    BY DEF FractionTo
  <1>3. N \in Nat /\ \A n \in 1 .. N : s[n] \in Digits
    OBVIOUS
  <1>4. \A n \in 1 .. N, v \in X : next[n][v] = D!NextOfFraction(v, s[n])
    OBVIOUS
  <1>5. ASSUME NEW n \in 1 .. N
        PROVE  next[n] \in [X -> X]
    <2>1. \A v \in X : D!NextOfFraction(v, s[n]) \in X
      BY <1>3, FractionType
    <2> QED BY <2>1
  <1>6. IsStep(next, N, X) /\ D!NoFraction \in X
    BY <1>5 DEF IsStep, States, D!NoFraction
  <1> HIDE DEF next, all, X, N
  <1>7. PICK g : IsRecursive(g, N, X, D!NoFraction, next)
    BY <1>3, <1>6, RecursiveFunction
  <1>8. g = Body(g)
    <2>1. ASSUME NEW n \in 1 .. N
          PROVE  g[n] = D!NextOfFraction(g[n - 1], s[n])
      <3>1. n - 1 \in 0 .. N
        BY <1>3
      <3>2. g[n - 1] \in X
        BY <1>7, <3>1 DEF IsRecursive
      <3> QED BY <1>4, <1>7, <3>2 DEF IsRecursive
    <2> QED BY <1>7, <2>1 DEF IsRecursive
  <1>9. all = Body(all)
    BY <1>2, <1>8
  <1>10. all[0] = D!NoFraction /\ \A n \in 1 .. N : all[n] = D!NextOfFraction(all[n - 1], s[n])
    BY <1>3, <1>9
  <1> QED BY <1>1, <1>10 DEF all, N

LEMMA AdditionType ==
    ASSUME NEW v \in Nat, NEW c \in Nat
    PROVE  D!Plus(v, c) \in Nat
  BY DEF D!Plus

AdditionTo(s) ==
    CHOOSE g : g = [n \in 0 .. Len(s) |-> IF n = 0 THEN 0 ELSE D!Plus(g[n - 1], s[n])]

LEMMA AdditionFunction ==
    ASSUME NEW s \in Seq(Nat)
    PROVE  /\ D!Sum_(s) = AdditionTo(s)[Len(s)]
           /\ AdditionTo(s)[0] = 0
           /\ \A k \in 1 .. Len(s) : AdditionTo(s)[k] = D!Plus(AdditionTo(s)[k - 1], s[k])
  <1> DEFINE X == Nat
             N == Len(s)
             next == [n \in 1 .. N |-> [v \in X |-> D!Plus(v, s[n])]]
             Body(g) == [n \in 0 .. N |-> IF n = 0 THEN 0 ELSE D!Plus(g[n - 1], s[n])]
             all == AdditionTo(s)
  <1>1. D!Sum_(s) = all[N]
    BY DEF D!Sum_, D!Fold, AdditionTo
  <1>2. all = CHOOSE g : g = Body(g)
    BY DEF AdditionTo
  <1>3. N \in Nat /\ \A n \in 1 .. N : s[n] \in Nat
    OBVIOUS
  <1>4. \A n \in 1 .. N, v \in X : next[n][v] = D!Plus(v, s[n])
    OBVIOUS
  <1>5. ASSUME NEW n \in 1 .. N
        PROVE  next[n] \in [X -> X]
    <2>1. \A v \in X : D!Plus(v, s[n]) \in X
      BY <1>3, AdditionType
    <2> QED BY <2>1
  <1>6. IsStep(next, N, X) /\ 0 \in X
    BY <1>5 DEF IsStep
  <1> HIDE DEF next, all, X, N
  <1>7. PICK g : IsRecursive(g, N, X, 0, next)
    BY <1>3, <1>6, RecursiveFunction
  <1>8. g = Body(g)
    <2>1. ASSUME NEW n \in 1 .. N
          PROVE  g[n] = D!Plus(g[n - 1], s[n])
      <3>1. n - 1 \in 0 .. N
        BY <1>3
      <3>2. g[n - 1] \in X
        BY <1>7, <3>1 DEF IsRecursive
      <3> QED BY <1>4, <1>7, <3>2 DEF IsRecursive
    <2> QED BY <1>7, <2>1 DEF IsRecursive
  <1>9. all = Body(all)
    BY <1>2, <1>8
  <1>10. all[0] = 0 /\ \A n \in 1 .. N : all[n] = D!Plus(all[n - 1], s[n])
    BY <1>3, <1>9
  <1> QED BY <1>1, <1>10 DEF all, N

-----------------------------------------------------------------------------
(* The digits before a dot: their value, unless it is more than fits. *)
LEMMA WholeFacts ==
    ASSUME NEW s \in Seq(Digits)
    PROVE  /\ D!Value(s) \in Nat
           /\ \/ D!LeadingInt(s) = D!TooMany /\ D!Value(s) > D!Half
              \/ D!LeadingInt(s) = D!Value(s) /\ D!Value(s) <= D!Half
  <1> DEFINE N == Len(s)
             V == ValueTo(s)
             L == WholeTo(s)
             h == D!Half
             Good == {k \in 0 .. N : /\ V[k] \in Nat
                                     /\ \/ L[k] = D!TooMany /\ V[k] > h
                                        \/ L[k] = V[k] /\ V[k] <= h}
  <1>1. /\ N \in Nat /\ V[0] = 0 /\ L[0] = 0
        /\ \A k \in 1 .. N : V[k] = D!Shifted(V[k - 1], s[k])
        /\ \A k \in 1 .. N : L[k] = D!NextDigit(L[k - 1], s[k])
        /\ D!Value(s) = V[N] /\ D!LeadingInt(s) = L[N]
    BY ValueFunction, WholeFunction
  <1>2. /\ h \in Nat \ {0} /\ Base \in Nat \ {0} /\ Base <= h
        /\ \A n \in Nat : n < 2 * h => D!Word(n) = n
    BY LimitFacts
  <1>3. 0 \in Good
    BY <1>1, <1>2
  <1> HIDE DEF V, L, h
  <1>4. ASSUME NEW k \in 0 .. N - 1, k \in Good
        PROVE  k + 1 \in Good
    <2> DEFINE x == V[k]
               c == s[k + 1]
    <2>1. /\ k + 1 \in 1 .. N /\ k + 1 \in 0 .. N /\ (k + 1) - 1 = k
      BY <1>1
    <2>2. /\ V[k + 1] = x * Base + c /\ L[k + 1] = D!NextDigit(L[k], c)
      BY <1>1, <2>1 DEF D!Shifted
    <2>3. c \in Nat /\ c < Base
      <3>1. c \in Digits
        BY <2>1
      <3> QED BY <1>2, <3>1 DEF Digits
    <2>4. x \in Nat /\ ((L[k] = D!TooMany /\ x > h) \/ (L[k] = x /\ x <= h))
      BY <1>4
    <2> HIDE DEF x, c, Good
    <2>5. x * Base \in Nat /\ x * Base >= x
      <3>1. 1 * x <= Base * x /\ Base * x \in Nat
        BY <1>2, <2>4, TimesMore
      <3> QED BY <1>2, <2>4, <3>1, TimesAssoc
    <2>6. x * Base + c \in Nat
      BY <2>3, <2>5
    <2>7. CASE L[k] = D!TooMany /\ x > h
      <3>1. L[k + 1] = D!TooMany
        BY <2>2, <2>7 DEF D!NextDigit
      <3>2. V[k + 1] > h
        BY <1>2, <2>2, <2>3, <2>4, <2>5, <2>7
      <3> QED BY <2>1, <2>2, <2>6, <3>1, <3>2 DEF Good
    <2>8. CASE L[k] = x /\ x <= h
      <3>1. x # D!TooMany
        BY <2>4 DEF D!TooMany
      <3>2. x <= h \div Base <=> x * Base <= h
        BY <1>2, <2>4, DivBound
      <3>3. h \div Base \in Nat
        BY <1>2
      <3>4. CASE x > h \div Base
        <4>1. L[k + 1] = D!TooMany
          BY <2>2, <2>8, <3>4 DEF D!NextDigit, h
        <4>2. V[k + 1] > h
          BY <1>2, <2>2, <2>3, <2>4, <2>5, <3>2, <3>3, <3>4
        <4> QED BY <2>1, <2>2, <2>6, <4>1, <4>2 DEF Good
      <3>5. CASE ~ (x > h \div Base)
        <4>1. x * Base <= h
          BY <2>4, <3>2, <3>3, <3>5
        <4>2. D!Word(x * Base + c) = x * Base + c
          BY <1>2, <2>3, <2>5, <2>6, <4>1
        <4>3. L[k + 1] = IF x * Base + c > h THEN D!TooMany ELSE x * Base + c
          BY <2>2, <2>8, <3>1, <3>5, <4>2 DEF D!NextDigit, h
        <4> QED BY <1>2, <2>1, <2>2, <2>6, <4>3 DEF Good
      <3> QED BY <3>4, <3>5
    <2> QED BY <2>4, <2>7, <2>8
  <1> HIDE DEF Good
  <1>5. 0 .. N \subseteq Good
    BY <1>1, <1>3, <1>4, InductionUpTo
  <1>6. N \in Good
    BY <1>1, <1>5
  <1> QED BY <1>1, <1>6 DEF Good, h

(* Those behind it: as many of them as there is room for, and what is cut  *)
(* is less than a last digit.                                              *)
Cut(x, scale, value, whole) ==
    \E p \in Nat \ {0} : /\ whole = scale * p
                         /\ x * p <= value /\ value < (x + 1) * p

LEMMA CutMore ==
    ASSUME NEW x \in Nat, NEW scale \in Nat, NEW value \in Nat, NEW whole \in Nat,
           NEW b \in Nat \ {0}, NEW c \in Nat, c < b, Cut(x, scale, value, whole)
    PROVE  Cut(x, scale, value * b + c, whole * b)
  <1>1. PICK p \in Nat \ {0} : whole = scale * p /\ x * p <= value /\ value < (x + 1) * p
    BY DEF Cut
  <1> DEFINE q == p * b
             u == x * p
             v == (x + 1) * p
  <1>2. q \in Nat \ {0} /\ u \in Nat /\ v \in Nat
    BY <1>1
  <1>3. whole * b = scale * q /\ u * b = x * q /\ v * b = (x + 1) * q
    BY <1>1, TimesAssoc
  <1> HIDE DEF u, v, q
  <1>4. u <= value /\ value + 1 <= v /\ value + 1 \in Nat
    BY <1>1, <1>2 DEF u, v
  <1>5. u * b <= value * b /\ (value + 1) * b <= v * b /\ u * b \in Nat /\ value * b \in Nat /\ v * b \in Nat
    BY <1>2, <1>4, TimesMore
  <1>6. (value + 1) * b = value * b + b
    BY TimesAssoc
  <1>7. u * b <= value * b + c /\ value * b + c < v * b
    BY <1>5, <1>6
  <1> QED BY <1>2, <1>3, <1>7 DEF Cut

LEMMA CutNothing ==
    ASSUME NEW x \in Nat, NEW scale \in Nat
    PROVE  Cut(x, scale, x, scale)
  <1>1. scale = scale * 1 /\ x * 1 <= x /\ x < (x + 1) * 1
    OBVIOUS
  <1> QED BY <1>1 DEF Cut

Faithful(a, value, whole) ==
    /\ a \in States /\ value \in Nat /\ whole \in Nat \ {0}
    /\ a.x < a.scale /\ Cut(a.x, a.scale, value, whole)
    /\ IF a.overflow THEN a.scale * Base > D!Half ELSE a.x = value /\ a.scale = whole

LEMMA FractionGoesOn ==
    ASSUME NEW a, NEW value, NEW whole, Faithful(a, value, whole), NEW c \in Digits
    PROVE  Faithful(D!NextOfFraction(a, c), value * Base + c, whole * Base)
  <1> DEFINE x == a.x
             scale == a.scale
             h == D!Half
             b == Base
             new == D!NextOfFraction(a, c)
  <1>1. /\ h \in Nat \ {0} /\ b \in Nat \ {0} /\ b <= h
        /\ \A n \in Nat : n < 2 * h => D!Word(n) = n
    BY LimitFacts
  <1>2. c \in Nat /\ c < b
    BY <1>1 DEF Digits
  <1>3. /\ x \in Nat /\ scale \in Nat /\ value \in Nat /\ whole \in Nat \ {0}
        /\ x < scale /\ Cut(x, scale, value, whole)
        /\ a.overflow \in BOOLEAN /\ a \in States
        /\ a = [x |-> x, scale |-> scale, overflow |-> a.overflow]
    BY DEF Faithful, States
  <1>4. new = IF \/ a.overflow \/ x > (h - 1) \div b \/ D!Word(x * b + c) > h
              THEN [a EXCEPT !.overflow = TRUE]
              ELSE [a EXCEPT !.x = D!Word(@ * b + c), !.scale = @ * b]
    BY DEF D!NextOfFraction
  <1>5. a.overflow => scale * b > h
    BY DEF Faithful
  <1>6. ~ a.overflow => x = value /\ scale = whole
    BY DEF Faithful
  <1> HIDE DEF x, scale, h, b, new
  <1>7. /\ x * b \in Nat /\ scale * b \in Nat /\ value * b + c \in Nat
        /\ whole * b \in Nat \ {0}
    BY <1>1, <1>2, <1>3
  <1>8. Cut(x, scale, value * b + c, whole * b)
    BY <1>1, <1>2, <1>3, CutMore
  <1>9. x * b + b <= scale * b
    <2>1. x + 1 \in Nat /\ x + 1 <= scale
      BY <1>3
    <2>2. (x + 1) * b <= scale * b /\ (x + 1) * b = x * b + b
      BY <1>1, <1>3, <2>1, TimesMore, TimesAssoc
    <2> QED BY <2>2
  <1>10. h - 1 \in Nat /\ (x <= (h - 1) \div b <=> x * b <= h - 1) /\ (h - 1) \div b \in Nat
    BY <1>1, <1>3, DivBound, SMTT(40)
  <1>11. CASE a.overflow \/ x > (h - 1) \div b \/ D!Word(x * b + c) > h
    <2>1. new = [a EXCEPT !.overflow = TRUE]
      BY <1>4, <1>11
    <2>2. new \in States /\ new.x = x /\ new.scale = scale /\ new.overflow
      BY <1>3, <2>1 DEF States, x, scale
    <2>3. scale * b > h
      <3>1. CASE a.overflow
        BY <1>5, <3>1
      <3>2. CASE x > (h - 1) \div b
        BY <1>1, <1>3, <1>7, <1>9, <1>10, <3>2
      <3>3. CASE x <= (h - 1) \div b /\ D!Word(x * b + c) > h
        <4>1. x * b <= h - 1
          BY <1>10, <3>3
        <4>2. x * b + c \in Nat /\ x * b + c < 2 * h
          BY <1>1, <1>2, <1>7, <4>1
        <4>3. x * b + c > h
          BY <1>1, <3>3, <4>2
        <4> QED BY <1>1, <1>2, <1>7, <1>9, <4>3
      <3> QED BY <1>3, <1>10, <1>11, <3>1, <3>2, <3>3
    <2> QED BY <1>3, <1>7, <1>8, <2>2, <2>3 DEF Faithful, h, b, new
  <1>12. CASE ~ (a.overflow \/ x > (h - 1) \div b \/ D!Word(x * b + c) > h)
    <2>1. x * b <= h - 1
      BY <1>3, <1>10, <1>12
    <2>2. x * b + c \in Nat /\ x * b + c < 2 * h
      BY <1>1, <1>2, <1>7, <2>1
    <2>3. D!Word(x * b + c) = x * b + c
      BY <1>1, <2>2
    <2>4. new = [a EXCEPT !.x = D!Word(@ * b + c), !.scale = @ * b]
      BY <1>4, <1>12
    <2>5. new \in States /\ new.x = x * b + c /\ new.scale = scale * b /\ ~ new.overflow
      BY <1>3, <1>7, <1>12, <2>2, <2>3, <2>4 DEF States, x, scale
    <2>6. x * b + c = value * b + c /\ scale * b = whole * b
      BY <1>6, <1>12
    <2>7. x * b + c < scale * b
      BY <1>2, <1>7, <1>9, <1>1
    <2>8. Cut(x * b + c, scale * b, value * b + c, whole * b)
      BY <1>7, <2>2, <2>6, CutNothing
    <2> QED BY <1>7, <2>5, <2>6, <2>7, <2>8 DEF Faithful, b, new
  <1> QED BY <1>11, <1>12

LEMMA FractionFacts ==
    ASSUME NEW s \in Seq(Digits)
    PROVE  Faithful(D!LeadingFraction(s), D!Value(s), D!Scale(s))
  <1> DEFINE N == Len(s)
             V == ValueTo(s)
             F == FractionTo(s)
             W == ScaleTo(s)
             Good == {k \in 0 .. N : Faithful(F[k], V[k], W[k])}
  <1>1. /\ N \in Nat /\ V[0] = 0 /\ F[0] = D!NoFraction /\ W[0] = 1
        /\ \A k \in 1 .. N : V[k] = D!Shifted(V[k - 1], s[k])
        /\ \A k \in 1 .. N : F[k] = D!NextOfFraction(F[k - 1], s[k])
        /\ \A k \in 1 .. N : W[k] = D!Longer(W[k - 1], s[k])
        /\ D!Value(s) = V[N] /\ D!LeadingFraction(s) = F[N] /\ D!Scale(s) = W[N]
    BY ValueFunction, FractionFunction, ScaleFunction
  <1> HIDE DEF V, F, W
  <1>2. 0 \in Good
    <2>1. Cut(0, 1, 0, 1)
      BY CutNothing
    <2>2. Faithful(D!NoFraction, 0, 1)
      BY <2>1 DEF Faithful, D!NoFraction, States
    <2> QED BY <1>1, <2>2
  <1>3. ASSUME NEW k \in 0 .. N - 1, k \in Good
        PROVE  k + 1 \in Good
    <2>1. k + 1 \in 1 .. N /\ k + 1 \in 0 .. N /\ (k + 1) - 1 = k
      BY <1>1
    <2>2. /\ V[k + 1] = V[k] * Base + s[k + 1]
          /\ F[k + 1] = D!NextOfFraction(F[k], s[k + 1])
          /\ W[k + 1] = W[k] * Base
      BY <1>1, <2>1 DEF D!Shifted, D!Longer
    <2>3. s[k + 1] \in Digits
      BY <2>1
    <2>4. Faithful(F[k + 1], V[k + 1], W[k + 1])
      BY <1>3, <2>2, <2>3, FractionGoesOn
    <2> QED BY <2>1, <2>4
  <1> HIDE DEF Good
  <1>4. 0 .. N \subseteq Good
    BY <1>1, <1>2, <1>3, InductionUpTo
  <1>5. N \in Good
    BY <1>1, <1>4
  <1> QED BY <1>1, <1>5 DEF Good

(* In units the cut is less than one, as a unit has fewer digits. *)
LEMMA CutInUnits ==
    ASSUME NEW a, NEW value, NEW whole, Faithful(a, value, whole),
           NEW u \in Nat \ {0}, u * Base <= D!Half
    PROVE  LET q == (a.x * u) \div a.scale
               m == (value * u) \div whole
           IN  /\ q \in Nat /\ m \in Nat /\ q < u
               /\ q <= m /\ m <= q + 1 /\ (~ a.overflow => q = m)
  <1> DEFINE x == a.x
             scale == a.scale
             q == (x * u) \div scale
             m == (value * u) \div whole
  <1>1. /\ x \in Nat /\ scale \in Nat \ {0} /\ value \in Nat /\ whole \in Nat \ {0}
        /\ x < scale /\ Cut(x, scale, value, whole)
        /\ a.overflow => scale * Base > D!Half
        /\ ~ a.overflow => x = value /\ scale = whole
    BY DEF Faithful, States
  <1>2. D!Half \in Nat /\ Base \in Nat \ {0}
    BY LimitFacts
  <1> HIDE DEF x, scale
  <1>3. x * u \in Nat /\ value * u \in Nat
    BY <1>1
  <1>4. /\ q \in Nat /\ m \in Nat
        /\ \A n \in Nat : n <= q <=> n * scale <= x * u
        /\ \A n \in Nat : n <= m <=> n * whole <= value * u
    <2>1. q \in Nat /\ m \in Nat
      BY <1>1, <1>3
    <2> QED BY <1>1, <1>3, <2>1, DivBound
  <1> HIDE DEF q, m
  <1>5. q < u
    <2>1. x * u < scale * u /\ scale * u = u * scale /\ scale * u \in Nat
      BY <1>1, TimesStrict, TimesAssoc
    <2>2. ~ (u * scale <= x * u)
      BY <1>3, <2>1
    <2>3. ~ (u <= q)
      BY <1>4, <2>2
    <2> QED BY <1>4, <2>3
  <1>6. PICK p \in Nat \ {0} : whole = scale * p /\ x * p <= value /\ value < (x + 1) * p
    BY <1>1 DEF Cut
  <1>7. q <= m
    <2>1. q * scale <= x * u /\ q * scale \in Nat
      BY <1>1, <1>4
    <2>2. (q * scale) * p <= (x * u) * p
      BY <1>3, <2>1, TimesMore
    <2>3. (q * scale) * p = q * whole
      BY <1>1, <1>4, <1>6, TimesAssoc
    <2>4. (x * u) * p = (x * p) * u
      BY <1>1, TimesAssoc
    <2>5. (x * p) * u <= value * u /\ (x * p) * u \in Nat
      <3>1. x * p \in Nat
        BY <1>1
      <3> QED BY <1>1, <1>6, <3>1, TimesMore
    <2>6. q * whole \in Nat
      BY <1>1, <1>4
    <2>7. q * whole <= value * u
      BY <1>3, <2>2, <2>3, <2>4, <2>5, <2>6
    <2> QED BY <1>4, <2>7
  <1>8. ~ a.overflow => q = m
    BY <1>1 DEF q, m
  <1>9. m <= q + 1
    <2> SUFFICES ASSUME q + 2 <= m
                 PROVE  FALSE
      BY <1>4
    <2>1. a.overflow
      BY <1>4, <1>8
    <2>2. u < scale
      <3>1. u * Base < scale * Base /\ u * Base \in Nat /\ scale * Base \in Nat
        BY <1>1, <1>2, <2>1
      <3> QED BY <1>1, <1>2, <3>1, TimesStrict
    <2>3. q + 2 \in Nat /\ q + 1 \in Nat
      BY <1>4
    <2>4. (q + 2) * whole <= value * u
      BY <1>4, <2>3
    <2>5. value * u < ((x + 1) * p) * u
      <3>1. (x + 1) * p \in Nat
        BY <1>1
      <3> QED BY <1>1, <1>6, <3>1, TimesStrict
    <2>6. (q + 2) * whole = ((q + 2) * scale) * p
      BY <1>1, <1>6, <2>3, TimesAssoc
    <2>7. ((x + 1) * p) * u = ((x + 1) * u) * p
      <3>1. x + 1 \in Nat
        BY <1>1
      <3> QED BY <3>1, TimesAssoc
    <2>8. (q + 2) * scale \in Nat /\ (x + 1) * u \in Nat
      BY <1>1, <2>3
    <2>9. (q + 2) * scale < (x + 1) * u
      <3>1. ((q + 2) * scale) * p \in Nat /\ ((x + 1) * u) * p \in Nat
        BY <2>8
      <3>2. ((q + 2) * scale) * p < ((x + 1) * u) * p
        BY <1>3, <2>4, <2>5, <2>6, <2>7, <3>1
      <3> QED BY <2>8, <3>2, TimesStrict
    <2>10. (x + 1) * u = x * u + u
      BY <1>1, TimesAssoc
    <2>11. ~ (q + 1 <= q)
      BY <1>4
    <2>12. x * u < (q + 1) * scale /\ (q + 1) * scale \in Nat
      <3>1. ~ ((q + 1) * scale <= x * u)
        BY <1>4, <2>3, <2>11
      <3>2. (q + 1) * scale \in Nat
        BY <1>1, <2>3
      <3> QED BY <1>3, <3>1, <3>2
    <2>13. (q + 2) * scale = (q + 1) * scale + scale
      <3>1. q + 2 = (q + 1) + 1
        BY <1>4
      <3>2. ((q + 1) + 1) * scale = (q + 1) * scale + scale
        BY <1>1, <2>3, TimesAssoc
      <3> QED BY <3>1, <3>2
    <2> QED BY <1>1, <1>3, <2>2, <2>9, <2>10, <2>12, <2>13
  <1> QED BY <1>4, <1>5, <1>7, <1>8, <1>9 DEF q, m, x, scale

(* A float is off by one at most. *)
LEMMA FloatFacts ==
    ASSUME NEW x \in Nat, NEW u \in Nat \ {0}, NEW scale \in Nat \ {0},
           NEW n \in D!Floats(x, u, scale), (x * u) \div scale <= u
    PROVE  LET q == (x * u) \div scale
           IN  /\ n \in 0 .. u
               /\ n <= q + 1 /\ q <= n + 1
               /\ u % scale = 0 => n = q
  <1> DEFINE q == (x * u) \div scale
             y == x * u
             z == n * scale
             p == Precision
             above == p * (y - z)
  <1>1. y \in Nat /\ q \in Nat /\ p \in Nat \ {0}
    <2>1. D!TermsAssumption
      BY BoundsAssumption
    <2> QED BY <2>1 DEF D!TermsAssumption
  <1>2. CASE u % scale = 0
    BY <1>1, <1>2 DEF D!Floats
  <1>3. CASE u % scale # 0
    <2>1. n \in 0 .. u /\ - scale < above /\ above < (p + 1) * scale
      BY <1>3 DEF D!Floats
    <2>2. n \in Nat /\ z \in Nat
      BY <2>1
    <2>3. \A m \in Nat : m <= q <=> m * scale <= y
      BY <1>1, DivBound
    <2> HIDE DEF q, y
    <2>4. y < (n + 2) * scale
      <3>1. (n + 2) * scale = z + 2 * scale
        BY <2>2
      <3> DEFINE e == y - z
      <3>2. e \in Int /\ p * e < (p + 1) * scale
        BY <1>1, <2>1, <2>2
      <3> HIDE DEF e, z
      <3>3. ~ (2 * scale <= e)
        <4> SUFFICES ASSUME 2 * scale <= e
                     PROVE  FALSE
          OBVIOUS
        <4>1. e \in Nat /\ 2 * scale \in Nat
          BY <3>2
        <4>2. (2 * scale) * p <= e * p /\ e * p = p * e
          BY <1>1, <4>1, TimesMore, TimesAssoc
        <4>3. (2 * scale) * p = p * scale + p * scale /\ (p + 1) * scale = p * scale + scale
          BY <1>1
        <4>4. 1 * scale <= p * scale /\ p * scale \in Nat
          BY <1>1, TimesMore
        <4> QED BY <1>1, <3>2, <4>1, <4>2, <4>3, <4>4
      <3>4. y - z < 2 * scale
        BY <3>2, <3>3 DEF e
      <3> QED BY <1>1, <2>2, <3>1, <3>4
    <2>5. ~ (n + 2 <= q)
      <3>1. n + 2 \in Nat /\ (n + 2) * scale \in Nat
        BY <2>2
      <3> QED BY <1>1, <2>3, <2>4, <3>1
    <2>6. ASSUME n # 0
          PROVE  n <= q + 1
      <3> DEFINE k == n - 1
      <3>1. k \in Nat /\ n = k + 1 /\ z = k * scale + scale /\ k * scale \in Nat
        BY <2>2, <2>6, TimesAssoc
      <3> DEFINE e == z - y
      <3>2. e \in Int /\ p * e < scale
        <4>1. p * (y - z) = - (p * (z - y)) /\ p * (z - y) \in Int
          BY <1>1, <2>2
        <4> QED BY <1>1, <2>1, <2>2, <4>1
      <3> HIDE DEF e, z, k
      <3>3. ~ (scale <= e)
        <4> SUFFICES ASSUME scale <= e
                     PROVE  FALSE
          OBVIOUS
        <4>1. e \in Nat
          BY <3>2
        <4>2. 1 * e <= p * e /\ p * e \in Nat
          BY <1>1, <4>1, TimesMore
        <4> QED BY <3>2, <4>1, <4>2
      <3>4. z - y < scale
        BY <3>2, <3>3 DEF e
      <3>5. k * scale <= y
        BY <1>1, <2>2, <3>1, <3>4
      <3>6. k <= q
        BY <2>3, <3>1, <3>5
      <3> QED BY <1>1, <3>1, <3>6
    <2>7. n <= q + 1 /\ q <= n + 1
      BY <1>1, <2>2, <2>5, <2>6
    <2> QED BY <1>3, <2>1, <2>7 DEF q
  <1> QED BY <1>2, <1>3

-----------------------------------------------------------------------------
(* What a term comes to, and what it means. *)
One(w) == IF w THEN 1 ELSE 0

LEMMA TermFacts ==
    ASSUME NEW t \in Terms, D!WellFormed(t)
    PROVE  /\ D!Meaning(t) \in Nat
           /\ D!LeadingFraction(t.fraction).overflow \in BOOLEAN
           /\ D!Rough(t) \in BOOLEAN
           /\ D!Fits(t) => /\ D!Amount(t) \in Nat
                           /\ D!Amount(t) <= D!Meaning(t) + One(D!Rough(t))
                           /\ D!Meaning(t) <= D!Amount(t) + One(D!Rough(t))
                                + One(D!LeadingFraction(t.fraction).overflow)
           /\ ~ D!Fits(t) => D!Meaning(t) > D!Half
  <1> DEFINE u == Units[t.unit]
             h == D!Half
             v == D!Value(t.digits)
             l == D!LeadingInt(t.digits)
             a == D!LeadingFraction(t.fraction)
             q == (a.x * u) \div a.scale
             g == D!Floated(a, u)
             r == D!Rough(t)
             m == (D!Value(t.fraction) * u) \div D!Scale(t.fraction)
  <1>1. t.digits \in Seq(Digits) /\ t.fraction \in Seq(Digits)
    <2>1. D!TermsAssumption
      BY BoundsAssumption
    <2> QED BY <2>1 DEF D!TermsAssumption, Digits
  <1>2. /\ u \in Nat \ {0} /\ u * Base <= h /\ h \in Nat \ {0} /\ Base \in Nat \ {0}
        /\ \A n \in Nat : n < 2 * h => D!Word(n) = n
    BY LimitFacts DEF D!WellFormed
  <1>3. v \in Nat /\ ((l = D!TooMany /\ v > h) \/ (l = v /\ v <= h))
    BY <1>1, WholeFacts
  <1>4. Faithful(a, D!Value(t.fraction), D!Scale(t.fraction))
    BY <1>1, FractionFacts
  <1>5. /\ q \in Nat /\ m \in Nat /\ q < u
        /\ q <= m /\ m <= q + 1 /\ (~ a.overflow => q = m)
    BY <1>2, <1>4, CutInUnits
  <1>6. a.overflow \in BOOLEAN
    BY <1>4 DEF Faithful, States
  <1>7. D!Meaning(t) = v * u + m
    BY DEF D!Meaning
  <1>8. D!Amount(t) = D!Word(l * u + g)
    BY DEF D!Amount
  <1>16. /\ r \in BOOLEAN /\ g \in Nat /\ g <= u
         /\ g <= q + One(r) /\ q <= g + One(r)
    <2>1. r <=> a.x > 0 /\ u % a.scale # 0
      BY DEF D!Rough
    <2>2. a.x \in Nat /\ a.scale \in Nat \ {0}
      BY <1>4 DEF Faithful, States
    <2>3. r \in BOOLEAN
      BY DEF D!Rough
    <2>4. CASE a.x = 0
      <3>1. g = 0
        BY <2>4 DEF D!Floated
      <3>2. q = 0
        BY <1>2, <2>2, <2>4
      <3>3. ~ r
        BY <2>1, <2>4
      <3> QED BY <1>2, <2>3, <3>1, <3>2, <3>3 DEF One
    <2>5. CASE a.x # 0
      <3>1. g = FloatTimes(a.x, u, a.scale)
        BY <2>5 DEF D!Floated
      <3>2. FloatTimes(a.x, u, a.scale) \in D!Floats(a.x, u, a.scale)
        <4>1. D!TermsAssumption
          BY BoundsAssumption
        <4>2. t.unit \in DOMAIN Units /\ a.x > 0
          BY <2>2, <2>5 DEF D!WellFormed
        <4> QED BY <4>1, <4>2 DEF D!TermsAssumption
      <3>3. q <= u
        BY <1>2, <1>5
      <3>4. /\ g \in 0 .. u /\ g <= q + 1 /\ q <= g + 1
            /\ u % a.scale = 0 => g = q
        BY <1>2, <2>2, <3>1, <3>2, <3>3, FloatFacts
      <3>5. ~ r => g = q
        BY <2>1, <2>2, <2>5, <3>4
      <3> HIDE DEF q, g, r
      <3> QED BY <1>2, <1>5, <2>3, <3>4, <3>5 DEF One
    <2> QED BY <2>4, <2>5
  <1>9. D!Fits(t) <=> l # D!TooMany /\ l <= h \div u
    BY DEF D!Fits
  <1> HIDE DEF u, h, v, l, a, q, m, g, r
  <1>10. v * u \in Nat /\ v <= v * u
    <2>1. 1 * v <= u * v /\ u * v \in Nat /\ u * v = v * u
      BY <1>2, <1>3, TimesMore, TimesAssoc
    <2> QED BY <1>3, <2>1
  <1>11. v <= h \div u <=> v * u <= h
    BY <1>2, <1>3, DivBound
  <1>12. ASSUME D!Fits(t)
         PROVE  D!Amount(t) = v * u + g
    <2>1. l = v /\ v * u <= h
      BY <1>3, <1>9, <1>11, <1>12
    <2>2. u <= h
      <3>1. 1 * u <= Base * u /\ Base * u = u * Base /\ u * Base \in Nat
        BY <1>2, TimesMore, TimesAssoc
      <3> QED BY <1>2, <3>1
    <2>4. u < h
      <3>1. 2 * u <= Base * u /\ Base * u = u * Base
        BY <1>2, LimitFacts, TimesMore, TimesAssoc
      <3> QED BY <1>2, <2>2, <3>1
    <2>3. v * u + g \in Nat /\ v * u + g < 2 * h
      BY <1>2, <1>16, <1>10, <2>1, <2>4
    <2> QED BY <1>2, <1>8, <2>1, <2>3
  <1>13. ASSUME ~ D!Fits(t)
         PROVE  v * u > h
    <2>1. CASE v > h
      BY <1>2, <1>3, <1>10, <2>1
    <2>2. CASE l = v /\ v <= h
      <3>1. v # D!TooMany
        BY <1>3 DEF D!TooMany
      <3>2. ~ (v <= h \div u)
        BY <1>9, <1>13, <2>2, <3>1
      <3> QED BY <1>2, <1>10, <1>11, <3>2
    <2> QED BY <1>3, <2>1, <2>2
  <1>14. D!Meaning(t) \in Nat /\ (~ D!Fits(t) => D!Meaning(t) > h)
    BY <1>2, <1>5, <1>7, <1>10, <1>13
  <1>17. q <= m /\ m <= q + One(a.overflow) /\ One(r) \in Nat /\ One(a.overflow) \in Nat
    BY <1>5, <1>6, <1>16 DEF One
  <1>15. D!Fits(t) => /\ D!Amount(t) \in Nat /\ D!Amount(t) <= D!Meaning(t) + One(r)
                      /\ D!Meaning(t) <= D!Amount(t) + One(r) + One(a.overflow)
    BY <1>5, <1>7, <1>10, <1>12, <1>16, <1>17
  <1> QED BY <1>6, <1>14, <1>15, <1>16 DEF a, h, r

(* Sums of numbers. *)
LEMMA SumOfNone ==
    ASSUME NEW f \in [1 .. 0 -> Nat]
    PROVE  D!Sum_(f) = 0
  <1>1. f \in Seq(Nat) /\ Len(f) = 0
    OBVIOUS
  <1> QED BY <1>1, AdditionFunction

LEMMA SumOfMore ==
    ASSUME NEW n \in Nat, NEW f \in [1 .. n -> Nat], NEW g \in [1 .. n + 1 -> Nat],
           \A i \in 1 .. n : f[i] = g[i]
    PROVE  D!Sum_(f) \in Nat /\ D!Sum_(g) = D!Sum_(f) + g[n + 1]
  <1> DEFINE F == AdditionTo(f)
             G == AdditionTo(g)
             Good == {k \in 0 .. n : F[k] \in Nat /\ F[k] = G[k]}
  <1>1. n + 1 \in Nat
    OBVIOUS
  <1>2. f \in Seq(Nat) /\ Len(f) = n /\ g \in Seq(Nat) /\ Len(g) = n + 1
    BY <1>1
  <1>3. /\ F[0] = 0 /\ G[0] = 0
        /\ \A k \in 1 .. n : F[k] = D!Plus(F[k - 1], f[k])
        /\ \A k \in 1 .. n + 1 : G[k] = D!Plus(G[k - 1], g[k])
        /\ D!Sum_(f) = F[n] /\ D!Sum_(g) = G[n + 1]
    BY <1>2, AdditionFunction
  <1> HIDE DEF F, G
  <1>4. 0 \in Good
    BY <1>3
  <1>5. ASSUME NEW k \in 0 .. n - 1, k \in Good
        PROVE  k + 1 \in Good
    <2>1. k + 1 \in 1 .. n /\ (k + 1) - 1 = k /\ k + 1 \in 1 .. n + 1 /\ k + 1 \in 0 .. n
      OBVIOUS
    <2>2. F[k + 1] = F[k] + f[k + 1] /\ G[k + 1] = G[k] + g[k + 1]
      BY <1>3, <2>1 DEF D!Plus
    <2>3. f[k + 1] \in Nat /\ f[k + 1] = g[k + 1]
      BY <2>1
    <2> QED BY <1>5, <2>1, <2>2, <2>3
  <1> HIDE DEF Good
  <1>6. 0 .. n \subseteq Good
    BY <1>4, <1>5, InductionUpTo
  <1>7. n \in Good
    BY <1>6
  <1>8. F[n] \in Nat /\ F[n] = G[n]
    BY <1>7 DEF Good
  <1>9. G[n + 1] = G[n] + g[n + 1]
    <2>1. n + 1 \in 1 .. n + 1 /\ (n + 1) - 1 = n
      OBVIOUS
    <2> QED BY <1>3, <2>1 DEF D!Plus
  <1> QED BY <1>3, <1>8, <1>9

MeaningsTo(o, n) == [i \in 1 .. n |-> D!Meaning(o[i])]

AmountsTo(o, n) == [i \in 1 .. n |-> D!Amount(o[i])]

FractionsTo(o, n) == {i \in 1 .. n : D!LeadingFraction(o[i].fraction).overflow}

RoughsTo(o, n) == {i \in 1 .. n : D!Rough(o[i])}

Fine(t) == D!WellFormed(t) /\ D!Fits(t)

LEMMA SameCardinality ==
    \A X : D!Cardinality(X) = Cardinality(X)
  BY DEF D!Cardinality, Cardinality

LEMMA MeaningsAddUp ==
    ASSUME NEW o \in Seq(Terms), \A i \in 1 .. Len(o) : D!WellFormed(o[i])
    PROVE  /\ D!Sum_(MeaningsTo(o, 0)) = 0
           /\ \A n \in 0 .. Len(o) : D!Sum_(MeaningsTo(o, n)) \in Nat
           /\ \A n \in 0 .. Len(o) - 1 :
                D!Sum_(MeaningsTo(o, n + 1)) = D!Sum_(MeaningsTo(o, n)) + D!Meaning(o[n + 1])
  <1>1. \A i \in 1 .. Len(o) : D!Meaning(o[i]) \in Nat
    BY TermFacts
  <1>2. Len(o) \in Nat
    OBVIOUS
  <1>3. \A n \in 0 .. Len(o) : MeaningsTo(o, n) \in [1 .. n -> Nat]
    BY <1>1, <1>2 DEF MeaningsTo
  <1>4. D!Sum_(MeaningsTo(o, 0)) = 0
    BY <1>2, <1>3, SumOfNone
  <1>5. ASSUME NEW n \in 0 .. Len(o) - 1
        PROVE  /\ D!Sum_(MeaningsTo(o, n)) \in Nat
               /\ D!Sum_(MeaningsTo(o, n + 1)) = D!Sum_(MeaningsTo(o, n)) + D!Meaning(o[n + 1])
               /\ D!Sum_(MeaningsTo(o, n + 1)) \in Nat
    <2> DEFINE f == MeaningsTo(o, n)
               g == MeaningsTo(o, n + 1)
    <2>1. n \in Nat /\ n \in 0 .. Len(o) /\ n + 1 \in 0 .. Len(o) /\ n + 1 \in 1 .. Len(o)
      BY <1>2
    <2>2. f \in [1 .. n -> Nat] /\ g \in [1 .. n + 1 -> Nat]
      BY <1>3, <2>1
    <2>3. (\A i \in 1 .. n : f[i] = g[i]) /\ g[n + 1] = D!Meaning(o[n + 1])
      BY <2>1 DEF MeaningsTo
    <2> HIDE DEF f, g
    <2>4. D!Sum_(f) \in Nat /\ D!Sum_(g) = D!Sum_(f) + g[n + 1]
      BY <2>1, <2>2, <2>3, SumOfMore
    <2>5. g[n + 1] \in Nat
      BY <1>1, <2>1, <2>3
    <2> QED BY <2>3, <2>4, <2>5 DEF f, g
  <1>6. ASSUME NEW n \in 0 .. Len(o)
        PROVE  D!Sum_(MeaningsTo(o, n)) \in Nat
    <2>1. CASE n = 0
      BY <1>4, <2>1
    <2>2. CASE n # 0
      <3>1. n - 1 \in 0 .. Len(o) - 1 /\ (n - 1) + 1 = n
        BY <1>2, <2>2
      <3> QED BY <1>5, <3>1
    <2> QED BY <2>1, <2>2
  <1> QED BY <1>4, <1>5, <1>6

LEMMA AmountsAddUp ==
    ASSUME NEW o \in Seq(Terms), NEW k \in 0 .. Len(o), \A i \in 1 .. k : Fine(o[i])
    PROVE  /\ D!Sum_(AmountsTo(o, 0)) = 0
           /\ \A n \in 0 .. k : D!Sum_(AmountsTo(o, n)) \in Nat
           /\ \A n \in 0 .. k - 1 :
                D!Sum_(AmountsTo(o, n + 1)) = D!Sum_(AmountsTo(o, n)) + D!Amount(o[n + 1])
  <1>2. Len(o) \in Nat /\ k \in Nat /\ k <= Len(o)
    OBVIOUS
  <1>1. \A i \in 1 .. k : D!Amount(o[i]) \in Nat
    <2>1. \A i \in 1 .. k : o[i] \in Terms
      BY <1>2
    <2> QED BY <2>1, TermFacts DEF Fine
  <1>3. \A n \in 0 .. k : AmountsTo(o, n) \in [1 .. n -> Nat]
    BY <1>1, <1>2 DEF AmountsTo
  <1>4. D!Sum_(AmountsTo(o, 0)) = 0
    BY <1>2, <1>3, SumOfNone
  <1>5. ASSUME NEW n \in 0 .. k - 1
        PROVE  /\ D!Sum_(AmountsTo(o, n)) \in Nat
               /\ D!Sum_(AmountsTo(o, n + 1)) = D!Sum_(AmountsTo(o, n)) + D!Amount(o[n + 1])
               /\ D!Sum_(AmountsTo(o, n + 1)) \in Nat
    <2> DEFINE f == AmountsTo(o, n)
               g == AmountsTo(o, n + 1)
    <2>1. n \in Nat /\ n \in 0 .. k /\ n + 1 \in 0 .. k /\ n + 1 \in 1 .. k
      BY <1>2
    <2>2. f \in [1 .. n -> Nat] /\ g \in [1 .. n + 1 -> Nat]
      BY <1>3, <2>1
    <2>3. (\A i \in 1 .. n : f[i] = g[i]) /\ g[n + 1] = D!Amount(o[n + 1])
      BY <2>1 DEF AmountsTo
    <2> HIDE DEF f, g
    <2>4. D!Sum_(f) \in Nat /\ D!Sum_(g) = D!Sum_(f) + g[n + 1]
      BY <2>1, <2>2, <2>3, SumOfMore
    <2>5. g[n + 1] \in Nat
      BY <1>1, <2>1, <2>3
    <2> QED BY <2>3, <2>4, <2>5 DEF f, g
  <1>6. ASSUME NEW n \in 0 .. k
        PROVE  D!Sum_(AmountsTo(o, n)) \in Nat
    <2>1. CASE n = 0
      BY <1>4, <2>1
    <2>2. CASE n # 0
      <3>1. n - 1 \in 0 .. k - 1 /\ (n - 1) + 1 = n
        BY <1>2, <2>2
      <3> QED BY <1>5, <3>1
    <2> QED BY <2>1, <2>2
  <1> QED BY <1>4, <1>5, <1>6

LEMMA CountedUp ==
    ASSUME NEW n \in Nat, NEW X, IsFiniteSet(X), X \subseteq 1 .. n,
           NEW w \in BOOLEAN, NEW Y, Y = IF w THEN X \cup {n + 1} ELSE X
    PROVE  /\ IsFiniteSet(Y) /\ Cardinality(Y) \in Nat /\ Cardinality(X) \in Nat
           /\ Cardinality(Y) = Cardinality(X) + One(w)
  <1>1. n + 1 \notin X
    OBVIOUS
  <1>2. Cardinality(X) \in Nat
    BY FS_CardinalityType
  <1>3. CASE w
    <2>1. IsFiniteSet(Y) /\ Cardinality(Y) = Cardinality(X) + 1
      BY <1>1, <1>3, FS_AddElement
    <2> QED BY <1>2, <1>3, <2>1 DEF One
  <1>4. CASE ~ w
    <2>1. IsFiniteSet(Y) /\ Cardinality(Y) = Cardinality(X)
      BY <1>4
    <2> QED BY <1>2, <1>4, <2>1 DEF One
  <1> QED BY <1>3, <1>4

(* The amounts are what is meant, but for less than one for each fraction  *)
(* that is cut, and for one more or less where floats are rounded.         *)
LEMMA AmountsAreMeant ==
    ASSUME NEW o \in Seq(Terms), NEW k \in 0 .. Len(o), \A i \in 1 .. k : Fine(o[i]),
           \A i \in 1 .. Len(o) : D!WellFormed(o[i])
    PROVE  \A n \in 0 .. k :
             LET a == D!Sum_(AmountsTo(o, n))
                 m == D!Sum_(MeaningsTo(o, n))
                 c == Cardinality(FractionsTo(o, n))
                 r == Cardinality(RoughsTo(o, n))
             IN  /\ c \in Nat /\ r \in Nat
                 /\ a <= m + r /\ m <= a + (c + r)
  <1> DEFINE a(n) == D!Sum_(AmountsTo(o, n))
             m(n) == D!Sum_(MeaningsTo(o, n))
             F(n) == FractionsTo(o, n)
             R(n) == RoughsTo(o, n)
             c(n) == Cardinality(F(n))
             r(n) == Cardinality(R(n))
             Good == {n \in 0 .. k : /\ IsFiniteSet(F(n)) /\ IsFiniteSet(R(n))
                                     /\ c(n) \in Nat /\ r(n) \in Nat
                                     /\ a(n) <= m(n) + r(n) /\ m(n) <= a(n) + (c(n) + r(n))}
  <1>1. k \in Nat /\ Len(o) \in Nat /\ k <= Len(o)
    OBVIOUS
  <1>2. /\ a(0) = 0 /\ m(0) = 0
        /\ \A n \in 0 .. k : a(n) \in Nat /\ m(n) \in Nat
        /\ \A n \in 0 .. k - 1 : a(n + 1) = a(n) + D!Amount(o[n + 1])
        /\ \A n \in 0 .. k - 1 : m(n + 1) = m(n) + D!Meaning(o[n + 1])
    <2>1. /\ a(0) = 0 /\ \A n \in 0 .. k : a(n) \in Nat
          /\ \A n \in 0 .. k - 1 : a(n + 1) = a(n) + D!Amount(o[n + 1])
      BY AmountsAddUp
    <2>2. /\ m(0) = 0 /\ \A n \in 0 .. Len(o) : m(n) \in Nat
          /\ \A n \in 0 .. Len(o) - 1 : m(n + 1) = m(n) + D!Meaning(o[n + 1])
      BY MeaningsAddUp
    <2>3. (\A n \in 0 .. k : n \in 0 .. Len(o)) /\ \A n \in 0 .. k - 1 : n \in 0 .. Len(o) - 1
      BY <1>1
    <2> HIDE DEF a, m
    <2> QED BY <2>1, <2>2, <2>3
  <1> HIDE DEF a, m
  <1>3. 0 \in Good
    <2>1. F(0) = {} /\ R(0) = {}
      BY DEF FractionsTo, RoughsTo
    <2>2. IsFiniteSet(F(0)) /\ c(0) = 0 /\ IsFiniteSet(R(0)) /\ r(0) = 0
      BY <2>1, FS_EmptySet
    <2> HIDE DEF F, c, R, r
    <2> QED BY <1>1, <1>2, <2>2
  <1>4. ASSUME NEW n \in 0 .. k - 1, n \in Good
        PROVE  n + 1 \in Good
    <2> DEFINE t == o[n + 1]
               w == D!LeadingFraction(t.fraction).overflow
               v == D!Rough(t)
    <2>1. n \in Nat /\ n + 1 \in 1 .. k /\ n + 1 \in 0 .. k /\ n \in 0 .. k /\ t \in Terms
      BY <1>1
    <2>2. /\ D!Amount(t) \in Nat /\ D!Amount(t) <= D!Meaning(t) + One(v) /\ D!Meaning(t) \in Nat
          /\ D!Meaning(t) <= D!Amount(t) + One(v) + One(w) /\ w \in BOOLEAN /\ v \in BOOLEAN
      BY <2>1, TermFacts DEF Fine
    <2>3. /\ F(n + 1) = IF w THEN F(n) \cup {n + 1} ELSE F(n)
          /\ F(n) \subseteq 1 .. n
      BY <2>1 DEF FractionsTo
    <2>4. /\ R(n + 1) = IF v THEN R(n) \cup {n + 1} ELSE R(n)
          /\ R(n) \subseteq 1 .. n
      BY <2>1 DEF RoughsTo
    <2>5. IsFiniteSet(F(n)) /\ IsFiniteSet(R(n)) /\ a(n) <= m(n) + r(n) /\ m(n) <= a(n) + (c(n) + r(n))
      BY <1>4
    <2> HIDE DEF F, R, t, w, v
    <2>6. /\ IsFiniteSet(F(n + 1)) /\ c(n + 1) \in Nat /\ c(n) \in Nat
          /\ c(n + 1) = c(n) + One(w)
      BY <2>1, <2>2, <2>3, <2>5, CountedUp
    <2>7. /\ IsFiniteSet(R(n + 1)) /\ r(n + 1) \in Nat /\ r(n) \in Nat
          /\ r(n + 1) = r(n) + One(v)
      BY <2>1, <2>2, <2>4, <2>5, CountedUp
    <2> HIDE DEF c, r, Good
    <2>8. a(n + 1) = a(n) + D!Amount(t) /\ m(n + 1) = m(n) + D!Meaning(t)
      BY <1>2 DEF t
    <2>9. a(n) \in Nat /\ m(n) \in Nat /\ One(v) \in Nat /\ One(w) \in Nat
      BY <1>2, <2>1 DEF One
    <2>10. /\ a(n) + D!Amount(t) <= (m(n) + D!Meaning(t)) + (r(n) + One(v))
           /\ m(n) + D!Meaning(t) <= (a(n) + D!Amount(t)) + ((c(n) + One(w)) + (r(n) + One(v)))
      <3>1. /\ D!Amount(t) \in Nat /\ D!Meaning(t) \in Nat
            /\ c(n) \in Nat /\ r(n) \in Nat
            /\ a(n) <= m(n) + r(n) /\ m(n) <= a(n) + (c(n) + r(n))
            /\ D!Amount(t) <= D!Meaning(t) + One(v)
            /\ D!Meaning(t) <= D!Amount(t) + One(v) + One(w)
        BY <2>2, <2>5, <2>6, <2>7
      <3> DEFINE x == D!Amount(t)
                 y == D!Meaning(t)
                 an == a(n)
                 mn == m(n)
                 cn == c(n)
                 rn == r(n)
                 ov == One(v)
                 ow == One(w)
      <3>2. /\ x \in Nat /\ y \in Nat /\ cn \in Nat /\ rn \in Nat
            /\ an \in Nat /\ mn \in Nat /\ ov \in Nat /\ ow \in Nat
            /\ an <= mn + rn /\ mn <= an + (cn + rn) /\ x <= y + ov /\ y <= x + ov + ow
        BY <2>9, <3>1
      <3> HIDE DEF x, y, an, mn, cn, rn, ov, ow
      <3>3. an + x <= (mn + y) + (rn + ov) /\ mn + y <= (an + x) + ((cn + ow) + (rn + ov))
        BY <3>2
      <3> QED BY <3>3 DEF x, y, an, mn, cn, rn, ov, ow
    <2>11. a(n + 1) <= m(n + 1) + r(n + 1) /\ m(n + 1) <= a(n + 1) + (c(n + 1) + r(n + 1))
      BY <2>6, <2>7, <2>8, <2>10
    <2> QED BY <2>1, <2>6, <2>7, <2>11 DEF Good
  <1> HIDE DEF Good
  <1>5. 0 .. k \subseteq Good
    BY <1>1, <1>3, <1>4, InductionUpTo
  <1>6. \A n \in 0 .. k : n \in Good
    BY <1>5
  <1> QED BY <1>6 DEF Good, a, m, c, r, F, R

(* How many fractions are rounded up to a term. *)
LEMMA RoughsCounted ==
    ASSUME NEW o \in Seq(Terms), NEW k \in 1 .. Len(o)
    PROVE  LET r == Cardinality(RoughsTo(o, Len(o)))
           IN  /\ r \in Nat
               /\ Cardinality(RoughsTo(o, k)) <= r /\ Cardinality(RoughsTo(o, k)) \in Nat
               /\ One(D!Rough(o[k])) <= r /\ One(D!Rough(o[k])) \in Nat
  <1> DEFINE All == RoughsTo(o, Len(o))
             Some == RoughsTo(o, k)
             This == IF D!Rough(o[k]) THEN {k} ELSE {}
  <1>1. Len(o) \in Nat /\ IsFiniteSet(1 .. Len(o))
    BY FS_Interval
  <1>2. All \subseteq 1 .. Len(o) /\ Some \subseteq All /\ This \subseteq All
    BY <1>1 DEF RoughsTo
  <1>3. Cardinality(This) = One(D!Rough(o[k]))
    BY FS_EmptySet, FS_Singleton DEF One
  <1> HIDE DEF All, Some, This
  <1>4. IsFiniteSet(All)
    BY <1>1, <1>2, FS_Subset
  <1>5. /\ IsFiniteSet(Some) /\ Cardinality(Some) <= Cardinality(All)
        /\ IsFiniteSet(This) /\ Cardinality(This) <= Cardinality(All)
    BY <1>2, <1>4, FS_Subset
  <1>6. Cardinality(All) \in Nat /\ Cardinality(Some) \in Nat /\ Cardinality(This) \in Nat
    BY <1>4, <1>5, FS_CardinalityType
  <1> QED BY <1>3, <1>5, <1>6 DEF All, Some

(* A part of what is meant is not more than all of it. *)
LEMMA TotalFacts ==
    ASSUME NEW o \in Seq(Terms), \A i \in 1 .. Len(o) : D!WellFormed(o[i])
    PROVE  /\ D!Total(o) = D!Sum_(MeaningsTo(o, Len(o))) /\ D!Total(o) \in Nat
           /\ \A n \in 0 .. Len(o) : D!Sum_(MeaningsTo(o, n)) <= D!Total(o)
           /\ \A n \in 1 .. Len(o) : D!Meaning(o[n]) <= D!Total(o)
  <1> DEFINE N == Len(o)
             m(n) == D!Sum_(MeaningsTo(o, n))
             Good == {j \in 0 .. N : m(N - j) <= m(N)}
  <1>1. N \in Nat /\ DOMAIN o = 1 .. N
    OBVIOUS
  <1>2. D!Total(o) = m(N)
    BY <1>1 DEF D!Total, MeaningsTo
  <1>3. /\ \A n \in 0 .. N : m(n) \in Nat
        /\ \A n \in 0 .. N - 1 : m(n + 1) = m(n) + D!Meaning(o[n + 1])
    BY MeaningsAddUp
  <1>4. \A i \in 1 .. N : D!Meaning(o[i]) \in Nat
    BY TermFacts
  <1> HIDE DEF m, N
  <1>5. 0 \in Good
    <2>1. 0 \in 0 .. N /\ N - 0 = N /\ N \in 0 .. N
      BY <1>1
    <2> QED BY <1>3, <2>1
  <1>6. ASSUME NEW j \in 0 .. N - 1, j \in Good
        PROVE  j + 1 \in Good
    <2>1. /\ j + 1 \in 0 .. N /\ N - (j + 1) \in 0 .. N - 1 /\ (N - (j + 1)) + 1 = N - j
          /\ N - j \in 1 .. N /\ N - j \in 0 .. N /\ N - (j + 1) \in 0 .. N /\ N \in 0 .. N
      BY <1>1
    <2>2. m(N - j) = m(N - (j + 1)) + D!Meaning(o[N - j])
      BY <1>3, <2>1
    <2>3. m(N - (j + 1)) \in Nat /\ D!Meaning(o[N - j]) \in Nat /\ m(N) \in Nat
      BY <1>3, <1>4, <2>1
    <2>4. m(N - j) <= m(N)
      BY <1>6
    <2> QED BY <2>1, <2>2, <2>3, <2>4
  <1> HIDE DEF Good
  <1>7. 0 .. N \subseteq Good
    BY <1>1, <1>5, <1>6, InductionUpTo
  <1>8. ASSUME NEW n \in 0 .. N
        PROVE  m(n) <= m(N)
    <2>1. N - n \in 0 .. N /\ N - (N - n) = n
      BY <1>1
    <2>2. N - n \in Good
      BY <1>7, <2>1
    <2> QED BY <2>1, <2>2 DEF Good
  <1>9. ASSUME NEW n \in 1 .. N
        PROVE  D!Meaning(o[n]) <= m(N)
    <2>1. n - 1 \in 0 .. N - 1 /\ (n - 1) + 1 = n /\ n \in 0 .. N /\ n - 1 \in 0 .. N /\ N \in 0 .. N
      BY <1>1
    <2>2. m(n) = m(n - 1) + D!Meaning(o[n])
      BY <1>3, <2>1
    <2>3. m(n - 1) \in Nat /\ m(n) \in Nat /\ D!Meaning(o[n]) \in Nat /\ m(N) \in Nat
      BY <1>3, <1>4, <2>1
    <2> QED BY <1>8, <2>1, <2>2, <2>3
  <1>10. m(N) \in Nat
    BY <1>1, <1>3
  <1> QED BY <1>2, <1>8, <1>9, <1>10 DEF m, N

-----------------------------------------------------------------------------
(* What the loop has: the terms it went through are numbers with units,    *)
(* and their sum, unless the text is one of those that wrap around.        *)
Passed(o, k, sum) ==
    /\ k \in 0 .. Len(o)
    /\ \A i \in 1 .. k : Fine(o[i]) /\ D!Amount(o[i]) <= D!Half
    /\ sum \in 0 .. D!Half
    /\ D!Wraps(o) \/ sum = D!Sum_(AmountsTo(o, k))

LEMMA WrapsAt ==
    ASSUME NEW o \in Seq(Terms), NEW k \in 1 .. Len(o),
           D!Amount(o[k]) = D!Half, D!Sum_(AmountsTo(o, k - 1)) = D!Half
    PROVE  D!Wraps(o)
  <1>1. k \in DOMAIN o
    OBVIOUS
  <1> QED BY <1>1 DEF D!Wraps, AmountsTo

(* One more term that is right is added. *)
LEMMA TermAdded ==
    ASSUME NEW o \in Seq(Terms), NEW k \in Nat, NEW sum, Passed(o, k, sum), k < Len(o),
           Fine(o[k + 1]), D!Amount(o[k + 1]) <= D!Half,
           D!Word(sum + D!Amount(o[k + 1])) <= D!Half
    PROVE  Passed(o, k + 1, D!Word(sum + D!Amount(o[k + 1])))
  <1> DEFINE h == D!Half
             a == D!Amount(o[k + 1])
             s(n) == D!Sum_(AmountsTo(o, n))
  <1>1. /\ Len(o) \in Nat /\ k \in 0 .. Len(o) /\ k + 1 \in 1 .. Len(o) /\ k + 1 \in 0 .. Len(o)
        /\ o[k + 1] \in Terms /\ k \in 0 .. (k + 1) - 1 /\ (k + 1) - 1 = k
    OBVIOUS
  <1>2. \A i \in 1 .. k + 1 : Fine(o[i]) /\ D!Amount(o[i]) <= h
    BY <1>1 DEF Passed
  <1>3. a \in Nat /\ a <= h
    BY <1>1, TermFacts DEF Fine
  <1>4. /\ h \in Nat \ {0} /\ \A n \in Nat : D!Word(n) \in Nat
        /\ \A n \in Nat : n < 2 * h => D!Word(n) = n
        /\ D!Word(2 * h) = 0
    BY LimitFacts
  <1>5. sum \in 0 .. h /\ (D!Wraps(o) \/ sum = s(k))
    BY DEF Passed
  <1>6. s(k + 1) = s(k) + a
    BY <1>1, <1>2, AmountsAddUp
  <1>7. a = h /\ s(k) = h => D!Wraps(o)
    BY <1>1, WrapsAt
  <1>8. D!Word(sum + a) <= h
    OBVIOUS
  <1> HIDE DEF h, a, s
  <1>9. D!Word(sum + a) \in 0 .. h
    BY <1>3, <1>4, <1>5, <1>8
  <1>10. D!Wraps(o) \/ D!Word(sum + a) = s(k + 1)
    <2> SUFFICES ASSUME ~ D!Wraps(o)
                 PROVE  D!Word(sum + a) = sum + a
      BY <1>5, <1>6
    <2>1. ~ (a = h /\ sum = h)
      BY <1>5, <1>7
    <2>2. sum + a \in Nat /\ sum + a < 2 * h
      BY <1>3, <1>4, <1>5, <2>1
    <2> QED BY <1>4, <2>2
  <1> QED BY <1>1, <1>2, <1>9, <1>10 DEF Passed, h, a, s

(* A term that is refused for its size, or for what it makes of the sum,   *)
(* is one of a text that means too much.                                   *)
LEMMA TermRefused ==
    ASSUME NEW o \in Seq(Terms), o \notin {<<D!Zero>>, << >>},
           NEW k \in Nat, NEW sum, Passed(o, k, sum), k < Len(o),
           \/ ~ D!WellFormed(o[k + 1]) \/ ~ D!Fits(o[k + 1])
           \/ D!Amount(o[k + 1]) > D!Half \/ D!Word(sum + D!Amount(o[k + 1])) > D!Half,
           NEW neg \in BOOLEAN
    PROVE  D!Right(o, neg, FALSE, 0)
  <1> DEFINE h == D!Half
             a == D!Amount(o[k + 1])
             s(n) == D!Sum_(AmountsTo(o, n))
             m(n) == D!Sum_(MeaningsTo(o, n))
             r == Cardinality(RoughsTo(o, Len(o)))
             T == D!Total(o) + r
             W == D!Wraps(o)
  <1>1. /\ Len(o) \in Nat /\ k \in 0 .. Len(o) /\ k + 1 \in 1 .. Len(o) /\ k + 1 \in 0 .. Len(o)
        /\ o[k + 1] \in Terms /\ k \in 0 .. (k + 1) - 1 /\ (k + 1) - 1 = k
        /\ k + 1 \in 0 .. k + 1 /\ DOMAIN o = 1 .. Len(o)
    OBVIOUS
  <1>2. ASSUME \A i \in DOMAIN o : D!WellFormed(o[i]), ~ W
        PROVE  T > h
    <2>1. \A i \in 1 .. Len(o) : D!WellFormed(o[i])
      BY <1>1, <1>2
    <2>2. D!WellFormed(o[k + 1])
      BY <1>1, <2>1
    <2>9. /\ D!Meaning(o[k + 1]) <= D!Total(o) /\ D!Total(o) \in Nat /\ m(k + 1) <= D!Total(o)
      BY <1>1, <2>1, TotalFacts
    <2> DEFINE v == One(D!Rough(o[k + 1]))
               p == Cardinality(RoughsTo(o, k + 1))
    <2>10. r \in Nat /\ v \in Nat /\ v <= r /\ p \in Nat /\ p <= r
      BY <1>1, RoughsCounted
    <2>3. D!Meaning(o[k + 1]) <= T /\ T \in Nat /\ T = D!Total(o) + r
      <3>1. D!Meaning(o[k + 1]) \in Nat
        BY <1>1, <2>2, TermFacts
      <3> QED BY <2>9, <2>10, <3>1
    <2>4. /\ D!Meaning(o[k + 1]) \in Nat
          /\ ~ D!Fits(o[k + 1]) => D!Meaning(o[k + 1]) > h
          /\ D!Fits(o[k + 1]) => a \in Nat /\ a <= D!Meaning(o[k + 1]) + v
      BY <1>1, <2>2, TermFacts
    <2> HIDE DEF v, p, r, T
    <2>5. /\ h \in Nat \ {0} /\ \A n \in Nat : n < 2 * h => D!Word(n) = n
      BY LimitFacts
    <2>6. CASE ~ D!Fits(o[k + 1])
      BY <2>3, <2>4, <2>5, <2>6
    <2>7. CASE D!Fits(o[k + 1]) /\ a > h
      BY <2>3, <2>4, <2>5, <2>7, <2>9, <2>10
    <2>8. CASE D!Fits(o[k + 1]) /\ D!Word(sum + a) > h
      <3>1. \A i \in 1 .. k + 1 : Fine(o[i])
        BY <1>1, <2>2, <2>8 DEF Fine, Passed
      <3>2. s(k + 1) = s(k) + a /\ s(k + 1) \in Nat
        BY <1>1, <3>1, AmountsAddUp
      <3>3. s(k + 1) <= m(k + 1) + p
        BY <1>1, <2>1, <3>1, AmountsAreMeant DEF p
      <3>4. m(k + 1) \in Nat
        BY <1>1, <2>1, MeaningsAddUp
      <3>5. sum = s(k) /\ sum \in 0 .. h
        BY <1>2 DEF Passed
      <3> HIDE DEF h, a, s, m, T, W
      <3>6. sum + a \in Nat
        BY <2>4, <2>5, <2>8, <3>5
      <3>7. sum + a > h
        BY <2>5, <2>8, <3>6
      <3> QED BY <2>3, <2>5, <2>9, <2>10, <3>2, <3>3, <3>4, <3>5, <3>6, <3>7
    <2> QED BY <2>2, <2>6, <2>7, <2>8
  <1>3. ASSUME \A i \in DOMAIN o : D!WellFormed(o[i]), ~ W
        PROVE  T > (IF neg THEN h ELSE h - 1)
    <2>1. T \in Nat
      <3>1. D!Total(o) \in Nat /\ r \in Nat
        BY <1>1, <1>3, TotalFacts, RoughsCounted
      <3> QED BY <3>1
    <2>2. h \in Nat /\ T > h
      BY <1>2, <1>3, LimitFacts
    <2> HIDE DEF h, T
    <2> QED BY <2>1, <2>2
  <1>4. D!Cardinality(D!Roughs(o)) = r
    BY <1>1, SameCardinality DEF D!Roughs, RoughsTo
  <1> HIDE DEF r
  <1> QED BY <1>3, <1>4 DEF D!Right

(* What is returned at the end of a text. *)
LEMMA SumReturned ==
    ASSUME NEW o \in Seq(Terms), o \notin {<<D!Zero>>, << >>},
           NEW sum, Passed(o, Len(o), sum)
    PROVE  /\ D!Right(o, TRUE, TRUE, - sum)
           /\ sum > D!Half - 1 => D!Right(o, FALSE, FALSE, 0)
           /\ ~ (sum > D!Half - 1) => D!Right(o, FALSE, TRUE, sum)
  <1> DEFINE h == D!Half
             N == Len(o)
             T == D!Total(o)
             W == D!Wraps(o)
             c == Cardinality(FractionsTo(o, N))
             r == Cardinality(RoughsTo(o, N))
  <1>1. N \in Nat /\ DOMAIN o = 1 .. N /\ N \in 0 .. N
    OBVIOUS
  <1>2. \A i \in 1 .. N : Fine(o[i]) /\ D!WellFormed(o[i])
    BY DEF Passed, Fine
  <1>3. T = D!Sum_(MeaningsTo(o, N)) /\ T \in Nat
    BY <1>2, TotalFacts
  <1>4. /\ D!Sum_(AmountsTo(o, N)) <= T + r /\ T <= D!Sum_(AmountsTo(o, N)) + (c + r)
        /\ c \in Nat /\ r \in Nat
    BY <1>1, <1>2, <1>3, AmountsAreMeant
  <1>5. sum \in 0 .. h /\ (W \/ sum = D!Sum_(AmountsTo(o, N))) /\ h \in Nat
    BY LimitFacts DEF Passed
  <1>6. D!Cardinality(D!Fractions(o)) = c /\ D!Cardinality(D!Roughs(o)) = r
    BY <1>1, SameCardinality DEF D!Fractions, FractionsTo, D!Roughs, RoughsTo
  <1>7. ~ \E i \in DOMAIN o : ~ D!WellFormed(o[i])
    BY <1>1, <1>2
  <1> HIDE DEF h, N, T, W, c, r
  <1>8. W \/ /\ - sum \in - (T + r) .. - (T - (c + r)) /\ sum \in T - (c + r) .. T + r
             /\ sum > h - 1 => T + r > h - 1
    BY <1>3, <1>4, <1>5
  <1> QED BY <1>6, <1>7, <1>8 DEF D!Right, h, T, W

-----------------------------------------------------------------------------
(* The invariant, of the state as a whole. *)
DurationState(sg, o, left, sum, p) ==
    /\ sg \in Signs /\ o \in Seq(Terms)
    /\ \E k \in 0 .. Len(o) : left = SubSeq(o, k + 1, Len(o)) /\ Passed(o, k, sum)
    /\ p.value \in - D!Half .. D!Half - 1
    /\ p.done => D!Right(o, sg = "-", p.ok, p.value)

DurationInv == DurationState(sign, orig, todo, d, parsed)

LEMMA NothingPassed ==
    ASSUME NEW o \in Seq(Terms)
    PROVE  o = SubSeq(o, 0 + 1, Len(o)) /\ Passed(o, 0, 0)
  <1>1. D!Sum_(AmountsTo(o, 0)) = 0
    <2>1. 0 \in 0 .. Len(o) /\ \A i \in 1 .. 0 : Fine(o[i])
      OBVIOUS
    <2> QED BY <2>1, AmountsAddUp
  <1>2. 0 \in 0 .. D!Half /\ 0 \in 0 .. Len(o)
    BY LimitFacts
  <1>3. o = SubSeq(o, 0 + 1, Len(o))
    OBVIOUS
  <1> QED BY <1>1, <1>2, <1>3 DEF Passed

LEMMA SpecialRight ==
    ASSUME NEW o \in {<<D!Zero>>, << >>}, NEW neg \in BOOLEAN
    PROVE  D!Right(o, neg, o # << >>, 0)
  BY DEF D!Right

LEMMA ReturnKeeps ==
    ASSUME DurationInv, NEW ok, NEW value \in - D!Half .. D!Half - 1, D!Return(ok, value),
           D!Right(orig, sign = "-", ok, value)
    PROVE  DurationInv'
  <1>1. parsed'.value = value /\ parsed'.ok = ok /\ parsed'.done
    BY DEF D!Return
  <1>2. sign' = sign /\ orig' = orig /\ todo' = todo /\ d' = d
    BY DEF D!Return
  <1> QED BY <1>1, <1>2 DEF DurationInv, DurationState

LEMMA NothingInRange ==
    0 \in - D!Half .. D!Half - 1
  BY LimitFacts

LEMMA ReturnSpecialKeeps ==
    ASSUME DurationInv, D!ReturnSpecial
    PROVE  DurationInv'
  <1>1. orig \in {<<D!Zero>>, << >>} /\ D!Return(orig # << >>, 0)
    BY DEF D!ReturnSpecial, D!Special
  <1>2. D!Right(orig, sign = "-", orig # << >>, 0)
    BY <1>1, SpecialRight
  <1> QED BY <1>1, <1>2, NothingInRange, ReturnKeeps

LEMMA ConsumeKeeps ==
    ASSUME DurationInv, D!Consume
    PROVE  DurationInv'
  <1> DEFINE t == Head(todo)
  <1>1. PICK k \in 0 .. Len(orig) :
          todo = SubSeq(orig, k + 1, Len(orig)) /\ Passed(orig, k, d)
    BY DEF DurationInv, DurationState
  <1>2. orig \in Seq(Terms) /\ Len(orig) \in Nat /\ k \in Nat
    BY DEF DurationInv, DurationState
  <1>3. orig \notin {<<D!Zero>>, << >>} /\ todo # << >>
    BY DEF D!Consume, D!Special
  <1>4. k < Len(orig)
    BY <1>1, <1>2, <1>3
  <1>5. t = orig[k + 1] /\ Tail(todo) = SubSeq(orig, (k + 1) + 1, Len(orig))
    BY <1>1, <1>2, <1>4
  <1> HIDE DEF t
  <1>6. CASE \/ ~ D!WellFormed(t) \/ ~ D!Fits(t)
             \/ D!Amount(t) > D!Half \/ D!Word(d + D!Amount(t)) > D!Half
    <2>1. D!Return(FALSE, 0)
      BY <1>6 DEF D!Consume, D!Exceeds, t
    <2>2. D!Right(orig, sign = "-", FALSE, 0)
      BY <1>1, <1>2, <1>3, <1>4, <1>5, <1>6, TermRefused
    <2> QED BY <2>1, <2>2, NothingInRange, ReturnKeeps
  <1>7. CASE ~ ( \/ ~ D!WellFormed(t) \/ ~ D!Fits(t)
                 \/ D!Amount(t) > D!Half \/ D!Word(d + D!Amount(t)) > D!Half)
    <2>1. /\ d' = D!Word(d + D!Amount(t)) /\ todo' = Tail(todo)
          /\ sign' = sign /\ orig' = orig /\ parsed' = parsed
      BY <1>7 DEF D!Consume, D!Exceeds, t
    <2>2. Fine(t) /\ D!Amount(t) \in Nat
      <3>1. t \in Terms
        BY <1>2, <1>4, <1>5
      <3> QED BY <1>7, <3>1, TermFacts DEF Fine
    <2>3. D!Word(d + D!Amount(t)) \in Nat /\ D!Half \in Nat
      <3>1. d \in Nat
        BY <1>1 DEF Passed
      <3>2. d + D!Amount(t) \in Nat
        BY <2>2, <3>1
      <3> QED BY <3>2, LimitFacts
    <2>4. D!Amount(t) <= D!Half /\ D!Word(d + D!Amount(t)) <= D!Half
      BY <1>7, <2>2, <2>3
    <2>5. Passed(orig, k + 1, D!Word(d + D!Amount(t)))
      BY <1>1, <1>2, <1>4, <1>5, <2>2, <2>4, TermAdded
    <2>6. k + 1 \in 0 .. Len(orig)
      BY <1>2, <1>4
    <2> QED BY <1>5, <2>1, <2>5, <2>6 DEF DurationInv, DurationState
  <1> QED BY <1>6, <1>7

LEMMA FinishKeeps ==
    ASSUME DurationInv, D!Finish
    PROVE  DurationInv'
  <1>1. PICK k \in 0 .. Len(orig) :
          todo = SubSeq(orig, k + 1, Len(orig)) /\ Passed(orig, k, d)
    BY DEF DurationInv, DurationState
  <1>2. orig \in Seq(Terms) /\ Len(orig) \in Nat /\ k \in Nat
    BY DEF DurationInv, DurationState
  <1>3. orig \notin {<<D!Zero>>, << >>} /\ todo = << >>
    BY DEF D!Finish, D!Special
  <1>4. k = Len(orig)
    <2>1. Len(todo) = 0
      BY <1>3
    <2>2. k < Len(orig) => Len(SubSeq(orig, k + 1, Len(orig))) = Len(orig) - k
      BY <1>2
    <2> QED BY <1>1, <1>2, <2>1, <2>2
  <1>5. Passed(orig, Len(orig), d) /\ d \in 0 .. D!Half /\ D!Half \in Nat
    BY <1>1, <1>4, LimitFacts DEF Passed
  <1>6. /\ D!Right(orig, TRUE, TRUE, - d)
        /\ d > D!Half - 1 => D!Right(orig, FALSE, FALSE, 0)
        /\ ~ (d > D!Half - 1) => D!Right(orig, FALSE, TRUE, d)
    BY <1>2, <1>3, <1>5, SumReturned
  <1>7. CASE sign = "-"
    <2>1. D!Return(TRUE, - d)
      BY <1>7 DEF D!Finish
    <2>2. - d \in - D!Half .. D!Half - 1
      BY <1>5, NothingInRange
    <2>3. D!Right(orig, sign = "-", TRUE, - d)
      BY <1>6, <1>7
    <2> QED BY <2>1, <2>2, <2>3, ReturnKeeps
  <1>8. CASE sign # "-" /\ d > D!Half - 1
    <2>1. D!Return(FALSE, 0)
      BY <1>8 DEF D!Finish
    <2>2. D!Right(orig, sign = "-", FALSE, 0)
      BY <1>6, <1>8
    <2> QED BY <2>1, <2>2, NothingInRange, ReturnKeeps
  <1>9. CASE sign # "-" /\ ~ (d > D!Half - 1)
    <2>1. D!Return(TRUE, d)
      BY <1>9 DEF D!Finish
    <2>2. D!Right(orig, sign = "-", TRUE, d)
      BY <1>6, <1>9
    <2>3. d \in - D!Half .. D!Half - 1
      BY <1>5, <1>9
    <2> QED BY <2>1, <2>2, <2>3, ReturnKeeps
  <1> QED BY <1>7, <1>8, <1>9

LEMMA DurationStays ==
    ASSUME [Next]_vars
    PROVE  [D!Next]_(D!vars)
  BY DEF Next, vars, MatchersStep, CidrStep, EntryStep, SrsStep, DurationStep,
         matchers, cidrs, entry, codec, duration, D!vars

LEMMA DurationInvHolds ==
    Spec => []DurationInv
  <1>1. Init => DurationInv
    <2> SUFFICES ASSUME Init
                 PROVE  DurationInv
      OBVIOUS
    <2>1. /\ sign \in Signs /\ todo = orig /\ d = 0
          /\ parsed = [done |-> FALSE, ok |-> FALSE, value |-> 0]
      BY DEF Init, D!Init
    <2>2. orig \in Seq(Terms)
      <3>1. PICK n \in 0 .. MaxTerms : orig \in [1 .. n -> Terms]
        BY DEF Init, D!Init
      <3>2. n \in Nat
        BY <3>1, BoundsAssumption DEF D!TermsAssumption
      <3> QED BY <3>1, <3>2
    <2>3. orig = SubSeq(orig, 0 + 1, Len(orig)) /\ Passed(orig, 0, 0)
      BY <2>2, NothingPassed
    <2>4. 0 \in 0 .. Len(orig)
      BY <2>2
    <2>5. \E k \in 0 .. Len(orig) : todo = SubSeq(orig, k + 1, Len(orig)) /\ Passed(orig, k, d)
      BY <2>1, <2>3, <2>4
    <2>6. parsed.value = 0 /\ ~ parsed.done
      BY <2>1
    <2> QED BY <2>1, <2>2, <2>5, <2>6, NothingInRange DEF DurationInv, DurationState
  <1>2. DurationInv /\ [Next]_vars => DurationInv'
    <2> SUFFICES ASSUME DurationInv, [D!Next]_(D!vars)
                 PROVE  DurationInv'
      BY DurationStays
    <2>1. CASE D!Next
      BY <2>1, ReturnSpecialKeeps, ConsumeKeeps, FinishKeeps DEF D!Next
    <2>2. CASE UNCHANGED D!vars
      BY <2>2 DEF D!vars, DurationInv
    <2> QED BY <2>1, <2>2
  <1> QED BY <1>1, <1>2, PTL DEF Spec

(* A text of any length, of numbers with any number of digits, is parsed   *)
(* to the duration it means, in words of any size, or refused if there is  *)
(* none; but for one in each fraction that is cut or finer than its unit,  *)
(* whatever floats come to that are off by less than one, and for a sum    *)
(* and a term of half of the words, which together are nothing.            *)
(* (ParseDuration, leadingInt, leadingFraction)                            *)
THEOREM ParsedToWhatIsMeant ==
    Spec => []DurationExact
  <1>1. DurationInv => DurationExact
    BY DEF DurationInv, DurationState, DurationExact, D!DurationExact
  <1> QED BY <1>1, DurationInvHolds, PTL

(* The sum never leaves the limit, and what is left of a text is an end of *)
(* it. (ParseDuration)                                                     *)
LEMMA DurationTypes ==
    Spec => []D!TypeOK
  <1>1. DurationInv => D!TypeOK
    BY DEF DurationInv, DurationState, Passed, D!TypeOK
  <1> QED BY <1>1, DurationInvHolds, PTL

-----------------------------------------------------------------------------
(* The rule sets. The recursive functions of their format, and those of    *)
(* the matchers, as one: what is at 0, and what comes of one number for    *)
(* the next one. A lemma cannot have the step as a parameter, so its name  *)
(* is one.                                                                 *)
FirstOf(f, p) ==
    CASE f \in {"turns", "down", "pops", "adds", "labels"} -> p.first
      [] f = "rules" -> S!Got(<< >>, p.at)
      [] f = "items" -> S!Open([type |-> "default", items |-> << >>, invert |-> FALSE], p.at)
      [] f = "write" -> [rule \in Rules |-> S!WriteDefaultRule(rule, p.v)]
      [] f = "as"    -> [rule \in Rules |-> S!DefaultAs(rule, p.rec)]
      [] f = "guard" ->
           {rule \in Rules : rule.type = "default" /\ "AdGuardDomain" \in DOMAIN rule.items}
      [] f = "nest"  -> {rule \in Rules : S!IsDefault(rule)}
      [] f = "read"  -> [at \in 1 .. Len(p.s) + 1 |-> S!Failed]

StepOf(f, p, x, k) ==
    CASE f = "turns" -> S!Then(x, p.writes[k])
      [] f = "rules" -> S!ReadNext(p.s, x, p.inner)
      [] f = "items" -> S!ReadItem(p.s, p.rec, x)
      [] f = "write" ->
           [rule \in Rules |-> IF rule.type = "default" THEN S!WriteDefaultRule(rule, p.v)
                               ELSE S!WriteLogicalRule(rule, x)]
      [] f = "as"    ->
           [rule \in Rules |-> IF rule.type = "default" THEN S!DefaultAs(rule, p.rec)
                               ELSE S!LogicalAs(rule, x)]
      [] f = "guard" ->
           {rule \in Rules : IF rule.type = "default" THEN "AdGuardDomain" \in DOMAIN rule.items
                             ELSE \E i \in DOMAIN rule.rules : rule.rules[i] \in x}
      [] f = "nest"  -> {rule \in Rules : S!IsDefault(rule) \/ S!IsLogical(rule, x)}
      [] f = "read"  -> [at \in 1 .. Len(p.s) + 1 |-> S!ReadRule(p.s, at, p.rec, x)]
      [] f = "down"  -> M!Down(x, M!Char2Index[p.text[k]])
      [] f = "pops"  -> IF x.queue = << >> THEN x ELSE M!Pop(x)
      [] f = "adds"  -> M!AddTo(p.kind, x, p.added[k])
      [] f = "labels" -> IF p.text[k] = "." THEN Append(x, << >>)
                         ELSE Append(M!Front(x), Append(M!Last(x), p.text[k]))

Steps(f, p, g, n) ==
    [k \in 0 .. n |-> IF k = 0 THEN FirstOf(f, p) ELSE StepOf(f, p, g[k - 1], k)]

LEMMA StepsTaken ==
    ASSUME NEW f, NEW p, NEW N \in Nat
    PROVE  \E g : g = Steps(f, p, g, N)
  <1> DEFINE Good == {m \in 0 .. N : \E g : g = Steps(f, p, g, m)}
  <1>1. 0 \in Good
    <2> DEFINE h == [k \in 0 .. 0 |-> FirstOf(f, p)]
    <2>1. h = Steps(f, p, h, 0)
      BY DEF Steps
    <2> QED BY <2>1
  <1>2. ASSUME NEW m \in 0 .. N - 1, m \in Good
        PROVE  m + 1 \in Good
    <2>1. PICK g : g = Steps(f, p, g, m)
      BY <1>2
    <2>2. m \in Nat /\ m + 1 \in 0 .. N
      OBVIOUS
    <2> DEFINE h == [k \in 0 .. m + 1 |-> IF k <= m THEN g[k] ELSE StepOf(f, p, g[m], m + 1)]
    <2>3. ASSUME NEW k \in 0 .. m + 1
          PROVE  h[k] = IF k = 0 THEN FirstOf(f, p) ELSE StepOf(f, p, h[k - 1], k)
      <3>1. CASE k = 0
        BY <2>1, <2>2, <3>1 DEF Steps
      <3>2. CASE k # 0 /\ k <= m
        <4>1. k \in 0 .. m /\ k - 1 \in 0 .. m /\ k - 1 \in 0 .. m + 1 /\ k - 1 <= m
          BY <2>2, <3>2
        <4>2. h[k] = g[k] /\ h[k - 1] = g[k - 1]
          BY <3>2, <4>1
        <4>3. g[k] = StepOf(f, p, g[k - 1], k)
          BY <2>1, <3>2, <4>1 DEF Steps
        <4> QED BY <3>2, <4>2, <4>3
      <3>3. CASE k = m + 1
        <4>1. k - 1 = m /\ m \in 0 .. m + 1 /\ m <= m /\ ~ (k <= m) /\ k # 0
          BY <2>2, <3>3
        <4> QED BY <3>3, <4>1
      <3> QED BY <2>2, <3>1, <3>2, <3>3
    <2>4. h = Steps(f, p, h, m + 1)
      BY <2>3 DEF Steps
    <2> HIDE DEF h
    <2> QED BY <2>2, <2>4
  <1> HIDE DEF Good
  <1>3. 0 .. N \subseteq Good
    BY <1>1, <1>2, InductionUpTo
  <1>4. N \in Good
    BY <1>3
  <1> QED BY <1>4 DEF Good

Turns(first, writes) == CHOOSE g : g =
    [k \in 0 .. Len(writes) |-> IF k = 0 THEN first ELSE S!Then(g[k - 1], writes[k])]

LEMMA TurnsFunction ==
    ASSUME NEW first, NEW writes, Len(writes) \in Nat
    PROVE  /\ S!InTurn(first, writes) = Turns(first, writes)[Len(writes)]
           /\ Turns(first, writes)[0] = first
           /\ \A k \in 1 .. Len(writes) :
                Turns(first, writes)[k] = S!Then(Turns(first, writes)[k - 1], writes[k])
  <1> DEFINE Body(g) ==
               [k \in 0 .. Len(writes) |-> IF k = 0 THEN first ELSE S!Then(g[k - 1], writes[k])]
             all == Turns(first, writes)
             N == Len(writes)
             p == [first |-> first, writes |-> writes]
  <1>1. S!InTurn(first, writes) = all[N]
    BY DEF S!InTurn, Turns
  <1>2. all = CHOOSE g : g = Body(g)
    BY DEF Turns
  <1>3. PICK g : g = Steps("turns", p, g, N)
    BY StepsTaken
  <1>4. g = Body(g)
    <2>1. \A k \in 0 .. N : g[k] = Body(g)[k]
      BY <1>3 DEF Steps, FirstOf, StepOf
    <2> QED BY <1>3, <2>1 DEF Steps
  <1> HIDE DEF all
  <1>5. all = Body(all)
    BY <1>2, <1>4
  <1>6. 0 \in 0 .. N /\ \A k \in 1 .. N : k \in 0 .. N /\ k # 0
    OBVIOUS
  <1>7. all[0] = Body(all)[0] /\ \A k \in 1 .. N : all[k] = Body(all)[k]
    BY <1>5
  <1> QED BY <1>1, <1>6, <1>7 DEF all

RulesRead(s, at, n, inner) == CHOOSE g : g =
    [k \in 0 .. n |-> IF k = 0 THEN S!Got(<< >>, at) ELSE S!ReadNext(s, g[k - 1], inner)]

LEMMA RulesReadFunction ==
    ASSUME NEW s, NEW at, NEW n \in Nat, NEW inner
    PROVE  /\ S!ReadRules(s, at, n, inner) = RulesRead(s, at, n, inner)[n]
           /\ RulesRead(s, at, n, inner)[0] = S!Got(<< >>, at)
           /\ \A k \in 1 .. n :
                RulesRead(s, at, n, inner)[k] = S!ReadNext(s, RulesRead(s, at, n, inner)[k - 1], inner)
  <1> DEFINE Body(g) ==
               [k \in 0 .. n |-> IF k = 0 THEN S!Got(<< >>, at) ELSE S!ReadNext(s, g[k - 1], inner)]
             all == RulesRead(s, at, n, inner)
             N == n
             p == [s |-> s, at |-> at, inner |-> inner]
  <1>1. S!ReadRules(s, at, n, inner) = all[N]
    BY DEF S!ReadRules, RulesRead
  <1>2. all = CHOOSE g : g = Body(g)
    BY DEF RulesRead
  <1>3. PICK g : g = Steps("rules", p, g, N)
    BY StepsTaken
  <1>4. g = Body(g)
    <2>1. \A k \in 0 .. N : g[k] = Body(g)[k]
      BY <1>3 DEF Steps, FirstOf, StepOf
    <2> QED BY <1>3, <2>1 DEF Steps
  <1> HIDE DEF all
  <1>5. all = Body(all)
    BY <1>2, <1>4
  <1>6. 0 \in 0 .. N /\ \A k \in 1 .. N : k \in 0 .. N /\ k # 0
    OBVIOUS
  <1>7. all[0] = Body(all)[0] /\ \A k \in 1 .. N : all[k] = Body(all)[k]
    BY <1>5
  <1> QED BY <1>1, <1>6, <1>7 DEF all

ItemsRead(s, at, rec) == CHOOSE g : g =
    [k \in 0 .. Len(s) |->
        IF k = 0 THEN S!Open([type |-> "default", items |-> << >>, invert |-> FALSE], at)
        ELSE S!ReadItem(s, rec, g[k - 1])]

LEMMA ItemsReadFunction ==
    ASSUME NEW s, NEW at, NEW rec, Len(s) \in Nat
    PROVE  /\ S!ReadItems(s, at, rec) = ItemsRead(s, at, rec)[Len(s)]
           /\ ItemsRead(s, at, rec)[0] = S!Open([type |-> "default", items |-> << >>, invert |-> FALSE], at)
           /\ \A k \in 1 .. Len(s) :
                ItemsRead(s, at, rec)[k] = S!ReadItem(s, rec, ItemsRead(s, at, rec)[k - 1])
  <1> DEFINE Body(g) ==
               [k \in 0 .. Len(s) |->
        IF k = 0 THEN S!Open([type |-> "default", items |-> << >>, invert |-> FALSE], at)
        ELSE S!ReadItem(s, rec, g[k - 1])]
             all == ItemsRead(s, at, rec)
             N == Len(s)
             p == [s |-> s, at |-> at, rec |-> rec]
  <1>1. S!ReadItems(s, at, rec) = all[N]
    BY DEF S!ReadItems, ItemsRead
  <1>2. all = CHOOSE g : g = Body(g)
    BY DEF ItemsRead
  <1>3. PICK g : g = Steps("items", p, g, N)
    BY StepsTaken
  <1>4. g = Body(g)
    <2>1. \A k \in 0 .. N : g[k] = Body(g)[k]
      BY <1>3 DEF Steps, FirstOf, StepOf
    <2> QED BY <1>3, <2>1 DEF Steps
  <1> HIDE DEF all
  <1>5. all = Body(all)
    BY <1>2, <1>4
  <1>6. 0 \in 0 .. N /\ \A k \in 1 .. N : k \in 0 .. N /\ k # 0
    OBVIOUS
  <1>7. all[0] = Body(all)[0] /\ \A k \in 1 .. N : all[k] = Body(all)[k]
    BY <1>5
  <1> QED BY <1>1, <1>6, <1>7 DEF all

RulesWritten(v) == CHOOSE g : g =
    [n \in 0 .. MaxDepth |->
        [rule \in Rules |-> IF n = 0 \/ rule.type = "default" THEN S!WriteDefaultRule(rule, v)
                            ELSE S!WriteLogicalRule(rule, g[n - 1])]]

LEMMA RulesWrittenFunction ==
    ASSUME NEW v, MaxDepth \in Nat
    PROVE  /\ S!WriteRule(v) = RulesWritten(v)[MaxDepth]
           /\ RulesWritten(v)[0] = [rule \in Rules |-> S!WriteDefaultRule(rule, v)]
           /\ \A k \in 1 .. MaxDepth :
                RulesWritten(v)[k] = 
                  [rule \in Rules |->
                      IF rule.type = "default" THEN S!WriteDefaultRule(rule, v)
                      ELSE S!WriteLogicalRule(rule, RulesWritten(v)[k - 1])]
  <1> DEFINE Body(g) ==
               [n \in 0 .. MaxDepth |->
        [rule \in Rules |-> IF n = 0 \/ rule.type = "default" THEN S!WriteDefaultRule(rule, v)
                            ELSE S!WriteLogicalRule(rule, g[n - 1])]]
             all == RulesWritten(v)
             N == MaxDepth
             p == [v |-> v]
  <1>1. S!WriteRule(v) = all[N]
    BY DEF S!WriteRule, RulesWritten
  <1>2. all = CHOOSE g : g = Body(g)
    BY DEF RulesWritten
  <1>3. PICK g : g = Steps("write", p, g, N)
    BY StepsTaken
  <1>4. g = Body(g)
    <2>1. \A k \in 0 .. N : g[k] = Body(g)[k]
      BY <1>3 DEF Steps, FirstOf, StepOf
    <2> QED BY <1>3, <2>1 DEF Steps
  <1> HIDE DEF all
  <1>5. all = Body(all)
    BY <1>2, <1>4
  <1>6. 0 \in 0 .. N /\ \A k \in 1 .. N : k \in 0 .. N /\ k # 0
    OBVIOUS
  <1>7. all[0] = Body(all)[0] /\ \A k \in 1 .. N : all[k] = Body(all)[k]
    BY <1>5
  <1> QED BY <1>1, <1>6, <1>7 DEF all

RulesAs(rec) == CHOOSE g : g =
    [n \in 0 .. MaxDepth |->
        [rule \in Rules |-> IF n = 0 \/ rule.type = "default" THEN S!DefaultAs(rule, rec)
                            ELSE S!LogicalAs(rule, g[n - 1])]]

LEMMA RulesAsFunction ==
    ASSUME NEW rec, MaxDepth \in Nat
    PROVE  /\ S!RuleAs(rec) = RulesAs(rec)[MaxDepth]
           /\ RulesAs(rec)[0] = [rule \in Rules |-> S!DefaultAs(rule, rec)]
           /\ \A k \in 1 .. MaxDepth :
                RulesAs(rec)[k] = 
                  [rule \in Rules |->
                      IF rule.type = "default" THEN S!DefaultAs(rule, rec)
                      ELSE S!LogicalAs(rule, RulesAs(rec)[k - 1])]
  <1> DEFINE Body(g) ==
               [n \in 0 .. MaxDepth |->
        [rule \in Rules |-> IF n = 0 \/ rule.type = "default" THEN S!DefaultAs(rule, rec)
                            ELSE S!LogicalAs(rule, g[n - 1])]]
             all == RulesAs(rec)
             N == MaxDepth
             p == [rec |-> rec]
  <1>1. S!RuleAs(rec) = all[N]
    BY DEF S!RuleAs, RulesAs
  <1>2. all = CHOOSE g : g = Body(g)
    BY DEF RulesAs
  <1>3. PICK g : g = Steps("as", p, g, N)
    BY StepsTaken
  <1>4. g = Body(g)
    <2>1. \A k \in 0 .. N : g[k] = Body(g)[k]
      BY <1>3 DEF Steps, FirstOf, StepOf
    <2> QED BY <1>3, <2>1 DEF Steps
  <1> HIDE DEF all
  <1>5. all = Body(all)
    BY <1>2, <1>4
  <1>6. 0 \in 0 .. N /\ \A k \in 1 .. N : k \in 0 .. N /\ k # 0
    OBVIOUS
  <1>7. all[0] = Body(all)[0] /\ \A k \in 1 .. N : all[k] = Body(all)[k]
    BY <1>5
  <1> QED BY <1>1, <1>6, <1>7 DEF all

Guarded == CHOOSE g : g =
    [n \in 0 .. MaxDepth |->
        {rule \in Rules :
            IF rule.type = "default" THEN "AdGuardDomain" \in DOMAIN rule.items
            ELSE n # 0 /\ \E i \in DOMAIN rule.rules : rule.rules[i] \in g[n - 1]}]

LEMMA GuardedFunction ==
    ASSUME MaxDepth \in Nat
    PROVE  /\ S!AdGuarded = Guarded[MaxDepth]
           /\ Guarded[0] = 
                  {rule \in Rules : rule.type = "default" /\ "AdGuardDomain" \in DOMAIN rule.items}
           /\ \A k \in 1 .. MaxDepth :
                Guarded[k] = 
                  {rule \in Rules :
                      IF rule.type = "default" THEN "AdGuardDomain" \in DOMAIN rule.items
                      ELSE \E i \in DOMAIN rule.rules : rule.rules[i] \in Guarded[k - 1]}
  <1> DEFINE Body(g) ==
               [n \in 0 .. MaxDepth |->
        {rule \in Rules :
            IF rule.type = "default" THEN "AdGuardDomain" \in DOMAIN rule.items
            ELSE n # 0 /\ \E i \in DOMAIN rule.rules : rule.rules[i] \in g[n - 1]}]
             all == Guarded
             N == MaxDepth
             p == 0
  <1>1. S!AdGuarded = all[N]
    BY DEF S!AdGuarded, Guarded
  <1>2. all = CHOOSE g : g = Body(g)
    BY DEF Guarded
  <1>3. PICK g : g = Steps("guard", p, g, N)
    BY StepsTaken
  <1>4. g = Body(g)
    <2>1. \A k \in 0 .. N : g[k] = Body(g)[k]
      BY <1>3 DEF Steps, FirstOf, StepOf
    <2> QED BY <1>3, <2>1 DEF Steps
  <1> HIDE DEF all
  <1>5. all = Body(all)
    BY <1>2, <1>4
  <1>6. 0 \in 0 .. N /\ \A k \in 1 .. N : k \in 0 .. N /\ k # 0
    OBVIOUS
  <1>7. all[0] = Body(all)[0] /\ \A k \in 1 .. N : all[k] = Body(all)[k]
    BY <1>5
  <1> QED BY <1>1, <1>6, <1>7 DEF all

Nested == CHOOSE g : g =
    [n \in 0 .. MaxDepth |->
        {rule \in Rules :
            \/ S!IsDefault(rule)
            \/ n # 0 /\ S!IsLogical(rule, g[n - 1])}]

LEMMA NestedFunction ==
    ASSUME MaxDepth \in Nat
    PROVE  /\ S!Nesting = Nested[MaxDepth]
           /\ Nested[0] = {rule \in Rules : S!IsDefault(rule)}
           /\ \A k \in 1 .. MaxDepth :
                Nested[k] = {rule \in Rules : S!IsDefault(rule) \/ S!IsLogical(rule, Nested[k - 1])}
  <1> DEFINE Body(g) ==
               [n \in 0 .. MaxDepth |->
        {rule \in Rules :
            \/ S!IsDefault(rule)
            \/ n # 0 /\ S!IsLogical(rule, g[n - 1])}]
             all == Nested
             N == MaxDepth
             p == 0
  <1>1. S!Nesting = all[N]
    BY DEF S!Nesting, Nested
  <1>2. all = CHOOSE g : g = Body(g)
    BY DEF Nested
  <1>3. PICK g : g = Steps("nest", p, g, N)
    BY StepsTaken
  <1>4. g = Body(g)
    <2>1. \A k \in 0 .. N : g[k] = Body(g)[k]
      BY <1>3 DEF Steps, FirstOf, StepOf
    <2> QED BY <1>3, <2>1 DEF Steps
  <1> HIDE DEF all
  <1>5. all = Body(all)
    BY <1>2, <1>4
  <1>6. 0 \in 0 .. N /\ \A k \in 1 .. N : k \in 0 .. N /\ k # 0
    OBVIOUS
  <1>7. all[0] = Body(all)[0] /\ \A k \in 1 .. N : all[k] = Body(all)[k]
    BY <1>5
  <1> QED BY <1>1, <1>6, <1>7 DEF all

ReadAt(s, rec) == CHOOSE g : g =
    [depth \in 0 .. Len(s) |->
        [at \in 1 .. Len(s) + 1 |->
            IF depth = 0 THEN S!Failed ELSE S!ReadRule(s, at, rec, g[depth - 1])]]

LEMMA ReadAtFunction ==
    ASSUME NEW s, NEW rec, Len(s) \in Nat
    PROVE  /\ S!ReadRuleAt(s, rec) = ReadAt(s, rec)[Len(s)]
           /\ ReadAt(s, rec)[0] = [at \in 1 .. Len(s) + 1 |-> S!Failed]
           /\ \A k \in 1 .. Len(s) :
                ReadAt(s, rec)[k] = 
                  [at \in 1 .. Len(s) + 1 |-> S!ReadRule(s, at, rec, ReadAt(s, rec)[k - 1])]
  <1> DEFINE Body(g) ==
               [depth \in 0 .. Len(s) |->
        [at \in 1 .. Len(s) + 1 |->
            IF depth = 0 THEN S!Failed ELSE S!ReadRule(s, at, rec, g[depth - 1])]]
             all == ReadAt(s, rec)
             N == Len(s)
             p == [s |-> s, rec |-> rec]
  <1>1. S!ReadRuleAt(s, rec) = all[N]
    BY DEF S!ReadRuleAt, ReadAt
  <1>2. all = CHOOSE g : g = Body(g)
    BY DEF ReadAt
  <1>3. PICK g : g = Steps("read", p, g, N)
    BY StepsTaken
  <1>4. g = Body(g)
    <2>1. \A k \in 0 .. N : g[k] = Body(g)[k]
      BY <1>3 DEF Steps, FirstOf, StepOf
    <2> QED BY <1>3, <2>1 DEF Steps
  <1> HIDE DEF all
  <1>5. all = Body(all)
    BY <1>2, <1>4
  <1>6. 0 \in 0 .. N /\ \A k \in 1 .. N : k \in 0 .. N /\ k # 0
    OBVIOUS
  <1>7. all[0] = Body(all)[0] /\ \A k \in 1 .. N : all[k] = Body(all)[k]
    BY <1>5
  <1> QED BY <1>1, <1>6, <1>7 DEF all

-----------------------------------------------------------------------------
(* What Write puts out: tokens, of tags and of what there is in rules.     *)
ItemNames == S!Range(S!ItemOrder)

Stuff ==
    Nat \cup BOOLEAN \cup ItemNames \cup {"SRS", "and", "or", "final"}
    \cup {S!Matcher(rule) : rule \in Rules}
    \cup {S!Get(rf[1], rf[2]) : rf \in Rules \X ItemNames}
    \cup {S!IPSet(S!Get(rf[1], rf[2])) : rf \in Rules \X ItemNames}

Token == [t : S!Tags, v : Stuff]

Writes == [end : {"ok", "error", "panic"}, tokens : Seq(Token)]

LEMMA ThenFacts ==
    ASSUME NEW a \in Writes, NEW b \in Writes
    PROVE  /\ S!Then(a, b) \in Writes
           /\ a.end # "ok" => S!Then(a, b) = a
           /\ a.end = "ok" => /\ S!Then(a, b).end = b.end
                              /\ S!Then(a, b).tokens = a.tokens \o b.tokens
  <1> DEFINE tokens == a.tokens \o b.tokens
  <1>1. tokens \in Seq(Token)
    BY ConcatType DEF Writes
  <1> HIDE DEF tokens
  <1>2. [b EXCEPT !.tokens = tokens] = [end |-> b.end, tokens |-> tokens]
    BY DEF Writes
  <1>3. S!Then(a, b) = IF a.end # "ok" THEN a ELSE [b EXCEPT !.tokens = tokens]
    BY DEF S!Then, tokens
  <1>4. [end |-> b.end, tokens |-> tokens] \in Writes
    BY <1>1 DEF Writes
  <1> QED BY <1>2, <1>3, <1>4 DEF tokens

LEMMA WroteType ==
    ASSUME NEW tokens \in Seq(Token)
    PROVE  S!Wrote(tokens) \in Writes /\ S!Wrote(tokens).end = "ok"
           /\ S!Wrote(tokens).tokens = tokens
  BY DEF S!Wrote, Writes

LEMMA TokType ==
    ASSUME NEW t \in S!Tags, NEW v \in Stuff
    PROVE  /\ S!Tok(t, v) \in Seq(Token) /\ Len(S!Tok(t, v)) = 1
           /\ S!Tok(t, v)[1].t = t /\ S!Tok(t, v)[1].v = v
  BY DEF S!Tok, Token

(* At a place of a file is what one write has put out, as far as the file  *)
(* goes; behind a write that failed there is nothing more.                 *)
After(at, w) == at + Len(w.tokens)

Part(s, at, w) ==
    /\ \A j \in 1 .. Len(w.tokens) : at - 1 + j <= Len(s) => s[at - 1 + j] = w.tokens[j]
    /\ w.end # "ok" => Len(s) <= at - 1 + Len(w.tokens)

Complete(s, at, w) == w.end = "ok" /\ at - 1 + Len(w.tokens) <= Len(s)

LEMMA PlaceFacts ==
    ASSUME NEW X, NEW s \in Seq(X), NEW at \in Nat \ {0}, NEW w \in Writes
    PROVE  /\ Len(s) \in Nat /\ Len(w.tokens) \in Nat
           /\ After(at, w) \in Nat \ {0} /\ at <= After(at, w)
           /\ Complete(s, at, w) => After(at, w) \in 1 .. Len(s) + 1
  BY DEF After, Complete, Writes

LEMMA PartThen ==
    ASSUME NEW X, NEW s \in Seq(X), NEW at \in Nat \ {0}, NEW a \in Writes, NEW b \in Writes,
           Part(s, at, S!Then(a, b))
    PROVE  /\ Part(s, at, a)
           /\ a.end = "ok" => Part(s, After(at, a), b)
           /\ Complete(s, at, S!Then(a, b)) <=> Complete(s, at, a) /\ Complete(s, After(at, a), b)
           /\ a.end = "ok" => After(at, S!Then(a, b)) = After(After(at, a), b)
  <1> DEFINE w == S!Then(a, b)
             n == Len(a.tokens)
             m == Len(b.tokens)
  <1>1. /\ w \in Writes /\ (a.end # "ok" => w = a)
        /\ a.end = "ok" => w.end = b.end /\ w.tokens = a.tokens \o b.tokens
    BY ThenFacts
  <1>2. n \in Nat /\ m \in Nat /\ Len(s) \in Nat
    BY DEF Writes
  <1>3. CASE a.end # "ok"
    BY <1>1, <1>3 DEF Complete
  <1>4. CASE a.end = "ok"
    <2>1. /\ Len(w.tokens) = n + m
          /\ \A j \in 1 .. n : w.tokens[j] = a.tokens[j]
          /\ \A j \in 1 .. m : w.tokens[n + j] = b.tokens[j]
      BY <1>1, <1>4 DEF Writes
    <2> HIDE DEF w, n, m
    <2>2. /\ \A j \in 1 .. n + m : at - 1 + j <= Len(s) => s[at - 1 + j] = w.tokens[j]
          /\ w.end # "ok" => Len(s) <= at - 1 + (n + m)
      BY <2>1 DEF Part, w
    <2>3. ASSUME NEW j \in 1 .. n, at - 1 + j <= Len(s)
          PROVE  s[at - 1 + j] = a.tokens[j]
      <3>1. j \in 1 .. n + m
        BY <1>2
      <3> QED BY <2>1, <2>2, <2>3, <3>1
    <2>4. ASSUME NEW j \in 1 .. m, at + n - 1 + j <= Len(s)
          PROVE  s[at + n - 1 + j] = b.tokens[j]
      <3>1. n + j \in 1 .. n + m /\ at - 1 + (n + j) = at + n - 1 + j
        BY <1>2
      <3> QED BY <2>1, <2>2, <2>4, <3>1
    <2>5. w.end # "ok" => Len(s) <= at + n - 1 + m
      BY <1>2, <2>2
    <2>6. Part(s, at, a) /\ Part(s, After(at, a), b)
      <3>1. After(at, a) = at + n
        BY DEF After, n
      <3>2. Part(s, at, a)
        BY <1>4, <2>3 DEF Part, n
      <3>3. PICK p : p = at + n
        OBVIOUS
      <3>4. b.end # "ok" => Len(s) <= p - 1 + m
        BY <1>1, <1>2, <1>4, <2>5, <3>3 DEF w
      <3>5. \A j \in 1 .. m : p - 1 + j <= Len(s) => s[p - 1 + j] = b.tokens[j]
        BY <1>2, <2>4, <3>3
      <3>6. Part(s, p, b)
        BY <3>4, <3>5 DEF Part, m
      <3> QED BY <3>1, <3>2, <3>3, <3>6
    <2>7. Complete(s, at, w) <=> w.end = "ok" /\ at - 1 + (n + m) <= Len(s)
      BY <2>1 DEF Complete
    <2>8. Complete(s, at, a) <=> at - 1 + n <= Len(s)
      BY <1>4 DEF Complete, n
    <2>9. Complete(s, After(at, a), b) <=> b.end = "ok" /\ at + n - 1 + m <= Len(s)
      BY DEF Complete, After, n, m
    <2>10. w.end = b.end
      BY <1>1, <1>4 DEF w
    <2>11. Complete(s, at, w) <=> Complete(s, at, a) /\ Complete(s, After(at, a), b)
      BY <1>2, <2>7, <2>8, <2>9, <2>10
    <2>12. After(at, w) = After(After(at, a), b)
      <3>1. After(at, w) = at + (n + m) /\ After(at, a) = at + n
        BY <2>1 DEF After, n
      <3>2. After(at + n, b) = at + n + m
        BY DEF After, m
      <3> QED BY <1>2, <3>1, <3>2
    <2> QED BY <2>6, <2>11, <2>12 DEF w
  <1> QED BY <1>3, <1>4

(* One token of a write, and what is read of it.                           *)
LEMMA TokenAt ==
    ASSUME NEW X, NEW s \in Seq(X), NEW at \in Nat \ {0}, NEW w \in Writes, Part(s, at, w),
           NEW j \in 1 .. Len(w.tokens)
    PROVE  /\ at - 1 + j <= Len(s) => /\ at - 1 + j \in DOMAIN s
                                      /\ s[at - 1 + j] = w.tokens[j]
                                      /\ \A t : S!Is(s, at - 1 + j, t) <=> w.tokens[j].t = t
           /\ ~ (at - 1 + j <= Len(s)) => \A t : ~ S!Is(s, at - 1 + j, t)
  <1>1. Len(w.tokens) \in Nat /\ Len(s) \in Nat /\ DOMAIN s = 1 .. Len(s)
    BY DEF Writes
  <1>2. at - 1 + j \in Nat \ {0}
    BY <1>1
  <1>3. at - 1 + j <= Len(s) => s[at - 1 + j] = w.tokens[j]
    BY DEF Part
  <1>4. at - 1 + j \in DOMAIN s <=> at - 1 + j <= Len(s)
    BY <1>1, <1>2
  <1> QED BY <1>3, <1>4 DEF S!Is

LEMMA NothingBehind ==
    ASSUME NEW X, NEW s \in Seq(X), NEW at, Len(s) < at
    PROVE  \A t : ~ S!Is(s, at, t)
  <1>1. Len(s) \in Nat /\ DOMAIN s = 1 .. Len(s)
    OBVIOUS
  <1>2. at \notin DOMAIN s
    BY <1>1
  <1> QED BY <1>2 DEF S!Is

-----------------------------------------------------------------------------
(* One write after another. *)
LEMMA TurnsFacts ==
    ASSUME NEW first \in Writes, NEW writes \in Seq(Writes)
    PROVE  LET T == Turns(first, writes)
           IN  /\ S!InTurn(first, writes) = T[Len(writes)] /\ T[0] = first
               /\ \A k \in 0 .. Len(writes) : T[k] \in Writes
               /\ \A k \in 0 .. Len(writes) - 1 :
                    T[k + 1] = S!Then(T[k], writes[k + 1]) /\ writes[k + 1] \in Writes
  <1> DEFINE N == Len(writes)
             T == Turns(first, writes)
             Good == {k \in 0 .. N : T[k] \in Writes}
  <1>1. N \in Nat /\ \A k \in 1 .. N : writes[k] \in Writes
    OBVIOUS
  <1>2. /\ S!InTurn(first, writes) = T[N] /\ T[0] = first
        /\ \A k \in 1 .. N : T[k] = S!Then(T[k - 1], writes[k])
    BY <1>1, TurnsFunction
  <1> HIDE DEF T, N
  <1>3. \A k \in 0 .. N - 1 : T[k + 1] = S!Then(T[k], writes[k + 1]) /\ writes[k + 1] \in Writes
    <2> SUFFICES ASSUME NEW k \in 0 .. N - 1
                 PROVE  T[k + 1] = S!Then(T[k], writes[k + 1]) /\ writes[k + 1] \in Writes
      OBVIOUS
    <2>1. k + 1 \in 1 .. N /\ (k + 1) - 1 = k
      BY <1>1
    <2> QED BY <1>1, <1>2, <2>1
  <1>4. 0 \in Good
    BY <1>1, <1>2
  <1>5. ASSUME NEW k \in 0 .. N - 1, k \in Good
        PROVE  k + 1 \in Good
    <2>1. T[k + 1] \in Writes
      BY <1>3, <1>5, ThenFacts
    <2> QED BY <1>1, <2>1
  <1> HIDE DEF Good
  <1>6. 0 .. N \subseteq Good
    BY <1>1, <1>4, <1>5, InductionUpTo
  <1>7. \A k \in 0 .. N : T[k] \in Writes
    BY <1>6 DEF Good
  <1> QED BY <1>2, <1>3, <1>7 DEF T, N

(* Each of them is at its place. *)
TurnsAreAt(s, at, first, writes) ==
    LET T == Turns(first, writes)
    IN  /\ \A k \in 0 .. Len(writes) : Part(s, at, T[k])
        /\ \A k \in 0 .. Len(writes) - 1 :
             /\ T[k].end = "ok" =>
                  /\ Part(s, After(at, T[k]), writes[k + 1])
                  /\ After(at, T[k + 1]) = After(After(at, T[k]), writes[k + 1])
             /\ Complete(s, at, T[k + 1]) <=>
                  Complete(s, at, T[k]) /\ Complete(s, After(at, T[k]), writes[k + 1])

LEMMA TurnsPlaced ==
    ASSUME NEW first \in Writes, NEW writes \in Seq(Writes),
           NEW X, NEW s \in Seq(X), NEW at \in Nat \ {0}, Part(s, at, S!InTurn(first, writes))
    PROVE  TurnsAreAt(s, at, first, writes)
  <1> DEFINE N == Len(writes)
             T == Turns(first, writes)
             Good == {j \in 0 .. N : Part(s, at, T[N - j])}
  <1>1. N \in Nat
    OBVIOUS
  <1>2. /\ S!InTurn(first, writes) = T[N]
        /\ \A k \in 0 .. N : T[k] \in Writes
        /\ \A k \in 0 .. N - 1 : T[k + 1] = S!Then(T[k], writes[k + 1]) /\ writes[k + 1] \in Writes
    BY TurnsFacts
  <1> HIDE DEF T, N
  <1>3. 0 \in Good
    <2>1. N - 0 = N /\ 0 \in 0 .. N
      BY <1>1
    <2> QED BY <1>2, <2>1
  <1>4. ASSUME NEW j \in 0 .. N - 1, j \in Good
        PROVE  j + 1 \in Good
    <2>1. /\ N - (j + 1) \in 0 .. N - 1 /\ (N - (j + 1)) + 1 = N - j /\ j + 1 \in 0 .. N
          /\ N - (j + 1) \in 0 .. N
      BY <1>1
    <2>2. T[N - j] = S!Then(T[N - (j + 1)], writes[N - j])
          /\ T[N - (j + 1)] \in Writes /\ writes[N - j] \in Writes
      BY <1>2, <2>1
    <2>3. Part(s, at, S!Then(T[N - (j + 1)], writes[N - j]))
      BY <1>4, <2>2
    <2>4. Part(s, at, T[N - (j + 1)])
      BY <2>2, <2>3, PartThen
    <2> QED BY <2>1, <2>4
  <1> HIDE DEF Good
  <1>5. 0 .. N \subseteq Good
    BY <1>1, <1>3, <1>4, InductionUpTo
  <1>6. ASSUME NEW k \in 0 .. N
        PROVE  Part(s, at, T[k])
    <2>1. N - k \in 0 .. N /\ N - (N - k) = k
      BY <1>1
    <2>2. N - k \in Good
      BY <1>5, <2>1
    <2> QED BY <2>1, <2>2 DEF Good
  <1>7. ASSUME NEW k \in 0 .. N - 1
        PROVE  /\ T[k].end = "ok" =>
                    /\ Part(s, After(at, T[k]), writes[k + 1])
                    /\ After(at, T[k + 1]) = After(After(at, T[k]), writes[k + 1])
               /\ Complete(s, at, T[k + 1]) <=>
                    Complete(s, at, T[k]) /\ Complete(s, After(at, T[k]), writes[k + 1])
    <2>1. k \in 0 .. N /\ k + 1 \in 0 .. N
      BY <1>1
    <2>2. /\ T[k] \in Writes /\ writes[k + 1] \in Writes /\ Part(s, at, T[k + 1])
          /\ T[k + 1] = S!Then(T[k], writes[k + 1])
      BY <1>2, <1>6, <2>1
    <2>3. Part(s, at, S!Then(T[k], writes[k + 1]))
      BY <2>2
    <2> QED BY <2>2, <2>3, PartThen
  <1> QED BY <1>6, <1>7 DEF T, N, TurnsAreAt

-----------------------------------------------------------------------------
(* A write is read as what it means, if all of it is there, nothing in it  *)
(* cannot be read, and nothing nests deeper than the depth that is looked  *)
(* at; what is read without an error is what it means.                     *)
Reads(s, at, w, x, value, bad, depth) ==
    /\ x.ok => Complete(s, at, w) /\ ~ bad /\ x = S!Got(value, After(at, w))
    /\ Complete(s, at, w) /\ ~ bad /\ Len(w.tokens) <= depth => x.ok

LEMMA ListGrows ==
    ASSUME NEW k \in Nat, NEW f
    PROVE  Append([i \in 1 .. k |-> f[i]], f[k + 1]) = [i \in 1 .. k + 1 |-> f[i]]
  <1> DEFINE V == {f[i] : i \in 1 .. k + 1}
             t == [i \in 1 .. k |-> f[i]]
  <1>1. t \in Seq(V) /\ f[k + 1] \in V /\ Len(t) = k
    OBVIOUS
  <1>2. Append(t, f[k + 1]) = [i \in 1 .. k + 1 |-> f[i]]
    BY <1>1
  <1> QED BY <1>2

LEMMA NotLonger ==
    ASSUME NEW a \in Nat, NEW b \in Nat, NEW c \in Nat, NEW e \in Nat, a + e = a + b + c
    PROVE  b <= e /\ c <= e
  OBVIOUS

(* Each of some writes is read right wherever it is, and so are all of     *)
(* them behind what comes first.                                           *)
EachReads(s, writes, inner, vals, Bad, depth) ==
    \A i \in 1 .. Len(writes), p \in 1 .. Len(s) + 1 :
       Part(s, p, writes[i]) => Reads(s, p, writes[i], inner[p], vals[i], i \in Bad, depth)

AllRead(s, at, first, writes, inner, vals, Bad, depth) ==
    LET r == S!ReadRules(s, After(at, first), Len(writes), inner)
    IN  /\ Reads(s, at, S!InTurn(first, writes), r, [i \in 1 .. Len(writes) |-> vals[i]],
                 \E i \in 1 .. Len(writes) : i \in Bad, depth)
        /\ r.ok \/ r = S!Failed

LEMMA RulesInTurn ==
    ASSUME NEW first \in Writes, NEW writes \in Seq(Writes),
           NEW X, NEW s \in Seq(X), NEW at \in Nat \ {0}, Part(s, at, S!InTurn(first, writes)),
           Complete(s, at, first), NEW inner, NEW depth \in Nat, NEW vals, NEW Bad,
           EachReads(s, writes, inner, vals, Bad, depth)
    PROVE  AllRead(s, at, first, writes, inner, vals, Bad, depth)
  <1> DEFINE n == Len(writes)
             T == Turns(first, writes)
             from == After(at, first)
             run == RulesRead(s, from, n, inner)
             List(k) == [i \in 1 .. k |-> vals[i]]
             IsBad(k) == \E i \in 1 .. k : i \in Bad
             Good == {k \in 0 .. n : /\ Reads(s, at, T[k], run[k], List(k), IsBad(k), depth)
                                     /\ run[k].ok \/ run[k] = S!Failed}
  <1>1. n \in Nat /\ Len(s) \in Nat
    OBVIOUS
  <1>2. /\ S!InTurn(first, writes) = T[n] /\ T[0] = first
        /\ \A k \in 0 .. n : T[k] \in Writes
        /\ \A k \in 0 .. n - 1 : writes[k + 1] \in Writes
    BY TurnsFacts
  <1>3. /\ \A k \in 0 .. n : Part(s, at, T[k])
        /\ \A k \in 0 .. n - 1 :
             /\ T[k].end = "ok" =>
                  /\ Part(s, After(at, T[k]), writes[k + 1])
                  /\ After(at, T[k + 1]) = After(After(at, T[k]), writes[k + 1])
             /\ Complete(s, at, T[k + 1]) <=>
                  Complete(s, at, T[k]) /\ Complete(s, After(at, T[k]), writes[k + 1])
    BY TurnsPlaced DEF TurnsAreAt
  <1> HIDE DEF n, from
  <1>4. /\ S!ReadRules(s, from, n, inner) = run[n]
        /\ run[0] = S!Got(<< >>, from)
        /\ \A k \in 1 .. n : run[k] = S!ReadNext(s, run[k - 1], inner)
    BY <1>1, RulesReadFunction
  <1>5. \A i \in 1 .. n, p \in 1 .. Len(s) + 1 :
           Part(s, p, writes[i]) => Reads(s, p, writes[i], inner[p], vals[i], i \in Bad, depth)
    BY DEF n, EachReads
  <1> HIDE DEF T, run
  <1>6. 0 \in Good
    <2>1. run[0].ok /\ run[0] = S!Got(<< >>, After(at, T[0])) /\ Complete(s, at, T[0])
      BY <1>2, <1>4 DEF S!Got, from
    <2>2. ~ IsBad(0) /\ List(0) = << >>
      OBVIOUS
    <2> HIDE DEF List, IsBad
    <2> QED BY <1>1, <2>1, <2>2 DEF Reads
  <1>7. ASSUME NEW k \in 0 .. n - 1, k \in Good
        PROVE  k + 1 \in Good
    <2> DEFINE w == writes[k + 1]
               p == After(at, T[k])
               x == inner[p]
    <2>1. k + 1 \in 1 .. n /\ (k + 1) - 1 = k /\ k \in Nat /\ k + 1 \in 0 .. n /\ k \in 0 .. n
      BY <1>1
    <2>2. /\ Reads(s, at, T[k], run[k], List(k), IsBad(k), depth)
          /\ run[k].ok \/ run[k] = S!Failed
      BY <1>7
    <2> HIDE DEF Good
    <2>3. run[k + 1] = S!ReadNext(s, run[k], inner)
      BY <1>4, <2>1
    <2>4. IsBad(k + 1) <=> IsBad(k) \/ k + 1 \in Bad
      BY <2>1
    <2>5. Complete(s, at, T[k + 1]) <=> Complete(s, at, T[k]) /\ Complete(s, p, w)
      BY <1>3, <2>1
    <2>6. T[k] \in Writes /\ w \in Writes /\ T[k + 1] \in Writes
      BY <1>2, <2>1
    <2>7. List(k + 1) = Append(List(k), vals[k + 1])
      BY <2>1, ListGrows
    <2> HIDE DEF List, IsBad
    <2>8. CASE ~ run[k].ok
      <3>1. run[k + 1] = run[k]
        BY <2>3, <2>8 DEF S!ReadNext, S!NoMore
      <3>2. ASSUME Complete(s, at, T[k + 1]), ~ IsBad(k + 1), Len(T[k + 1].tokens) <= depth
            PROVE  FALSE
        <4>1. Complete(s, at, T[k]) /\ ~ IsBad(k) /\ Complete(s, p, w)
          BY <2>4, <2>5, <3>2
        <4>2. After(at, T[k + 1]) = After(p, w)
          BY <1>3, <2>1, <4>1 DEF Complete
        <4>3. Len(T[k].tokens) <= Len(T[k + 1].tokens)
          <5>1. /\ Len(T[k].tokens) \in Nat /\ Len(w.tokens) \in Nat
                /\ Len(T[k + 1].tokens) \in Nat
            BY <2>6, SMTT(40) DEF Writes
          <5>2. at + Len(T[k + 1].tokens) = at + Len(T[k].tokens) + Len(w.tokens)
            BY <4>2 DEF After
          <5> QED BY <5>1, <5>2, NotLonger
        <4>4. Len(T[k].tokens) <= depth
          <5>1. Len(T[k].tokens) \in Nat /\ Len(T[k + 1].tokens) \in Nat
            BY <2>6 DEF Writes
          <5> QED BY <3>2, <4>3, <5>1
        <4> QED BY <2>2, <2>8, <4>1, <4>4 DEF Reads
      <3>3. Reads(s, at, T[k + 1], run[k + 1], List(k + 1), IsBad(k + 1), depth)
        BY <2>8, <3>1, <3>2 DEF Reads
      <3> QED BY <2>1, <2>2, <3>1, <3>3 DEF Good
    <2>9. CASE run[k].ok
      <3>1. Complete(s, at, T[k]) /\ ~ IsBad(k) /\ run[k] = S!Got(List(k), p)
        BY <2>2, <2>9 DEF Reads
      <3>2. p \in 1 .. Len(s) + 1 /\ T[k].end = "ok"
        BY <2>6, <3>1, PlaceFacts DEF Complete
      <3>3. Part(s, p, w) /\ After(at, T[k + 1]) = After(p, w)
        BY <1>3, <2>1, <3>2
      <3>4. Reads(s, p, w, x, vals[k + 1], k + 1 \in Bad, depth)
        BY <1>5, <2>1, <3>2, <3>3
      <3>5. run[k + 1] = IF x.ok THEN S!Got(Append(List(k), x.value), x.at) ELSE S!Failed
        BY <2>3, <2>9, <3>1 DEF S!ReadNext, S!NoMore, S!Got
      <3>6. CASE x.ok
        <4>1. Complete(s, p, w) /\ ~ (k + 1 \in Bad) /\ x = S!Got(vals[k + 1], After(p, w))
          BY <3>4, <3>6 DEF Reads
        <4>2. run[k + 1] = S!Got(List(k + 1), After(at, T[k + 1]))
          <5>1. x.value = vals[k + 1] /\ x.at = After(p, w)
            BY <4>1 DEF S!Got
          <5> QED BY <2>7, <3>3, <3>5, <3>6, <5>1
        <4>3. run[k + 1].ok
          BY <4>2 DEF S!Got
        <4>4. Complete(s, at, T[k + 1]) /\ ~ IsBad(k + 1)
          BY <2>4, <2>5, <3>1, <4>1
        <4> QED BY <2>1, <4>2, <4>3, <4>4 DEF Good, Reads
      <3>7. CASE ~ x.ok
        <4>1. run[k + 1] = S!Failed /\ ~ run[k + 1].ok
          BY <3>5, <3>7 DEF S!Failed
        <4>2. ASSUME Complete(s, at, T[k + 1]), ~ IsBad(k + 1), Len(T[k + 1].tokens) <= depth
              PROVE  FALSE
          <5>1. Complete(s, p, w) /\ ~ (k + 1 \in Bad)
            BY <2>4, <2>5, <4>2
          <5>2. Len(w.tokens) <= Len(T[k + 1].tokens)
            <6>1. /\ Len(w.tokens) \in Nat /\ Len(T[k].tokens) \in Nat
                  /\ Len(T[k + 1].tokens) \in Nat
              BY <2>6 DEF Writes
            <6>2. at + Len(T[k + 1].tokens) = at + Len(T[k].tokens) + Len(w.tokens)
              BY <3>3 DEF After
            <6> QED BY <6>1, <6>2, NotLonger
          <5>3. Len(w.tokens) <= depth
            BY <2>6, <4>2, <5>2 DEF Writes
          <5> QED BY <3>4, <3>7, <5>1, <5>3 DEF Reads
        <4> QED BY <2>1, <4>1, <4>2 DEF Good, Reads
      <3> QED BY <3>6, <3>7
    <2> QED BY <2>8, <2>9
  <1> HIDE DEF Good
  <1>8. 0 .. n \subseteq Good
    BY <1>1, <1>6, <1>7, InductionUpTo
  <1>9. n \in Good
    BY <1>1, <1>8
  <1> QED BY <1>2, <1>4, <1>9 DEF Good, n, from, AllRead

-----------------------------------------------------------------------------
(* The items of a rule. *)
LEMMA ItemFacts ==
    /\ Len(S!ItemOrder) = 21 /\ DOMAIN S!ItemOrder = 1 .. 21
    /\ \A i \in 1 .. 21 : S!ItemOrder[i] \in ItemNames
    /\ \A f \in ItemNames : \E i \in 1 .. 21 : f = S!ItemOrder[i]
    /\ S!ItemOrder[21] = "AdGuardDomain"
    /\ \A f \in ItemNames :
         \/ f \in S!Strings \cup S!Numbers /\ f \notin S!Flags /\ f \notin S!CIDRs
            /\ f \notin {"Domain", "AdGuardDomain", "DomainSuffix", "DomainMatcher",
                         "SourceIPSet", "IPSet", "AdGuardDomainMatcher"}
         \/ f \in S!Flags /\ f \notin S!CIDRs /\ f \notin S!Strings \cup S!Numbers
            /\ f \notin {"Domain", "AdGuardDomain", "DomainSuffix", "DomainMatcher",
                         "SourceIPSet", "IPSet", "AdGuardDomainMatcher"}
         \/ f = "Domain" \/ f = "AdGuardDomain" \/ f \in {"SourceIPCIDR", "IPCIDR"}
  <1>1. Len(S!ItemOrder) = 21 /\ DOMAIN S!ItemOrder = 1 .. 21
    BY DEF S!ItemOrder
  <1>2. ItemNames = {"QueryType", "Network", "Domain", "DomainKeyword", "DomainRegex",
          "SourceIPCIDR", "IPCIDR", "SourcePort", "SourcePortRange", "Port",
          "PortRange", "ProcessName", "ProcessPath", "ProcessPathRegex",
          "PackageName", "NetworkType", "NetworkIsExpensive", "NetworkIsConstrained",
          "WIFISSID", "WIFIBSSID", "AdGuardDomain"}
    BY DEF ItemNames, S!Range, S!ItemOrder
  <1>3. ItemNames = {S!ItemOrder[i] : i \in 1 .. 21}
    BY <1>1 DEF ItemNames, S!Range
  <1>4. S!ItemOrder[21] = "AdGuardDomain"
    BY DEF S!ItemOrder
  <1>5. \A f \in ItemNames :
         \/ f \in S!Strings \cup S!Numbers /\ f \notin S!Flags /\ f \notin S!CIDRs
            /\ f \notin {"Domain", "AdGuardDomain", "DomainSuffix", "DomainMatcher",
                         "SourceIPSet", "IPSet", "AdGuardDomainMatcher"}
         \/ f \in S!Flags /\ f \notin S!CIDRs /\ f \notin S!Strings \cup S!Numbers
            /\ f \notin {"Domain", "AdGuardDomain", "DomainSuffix", "DomainMatcher",
                         "SourceIPSet", "IPSet", "AdGuardDomainMatcher"}
         \/ f = "Domain" \/ f = "AdGuardDomain" \/ f \in {"SourceIPCIDR", "IPCIDR"}
    BY <1>2 DEF S!Strings, S!Numbers, S!Flags, S!CIDRs
  <1> QED BY <1>1, <1>3, <1>4, <1>5

LEMMA SortsApart ==
    ASSUME NEW f \in S!Strings \cup S!Numbers
    PROVE  /\ f \notin S!CIDRs /\ f \notin S!Flags
           /\ f \notin {"Domain", "AdGuardDomain", "DomainSuffix", "DomainMatcher",
                        "SourceIPSet", "IPSet", "AdGuardDomainMatcher"}
  BY DEF S!Strings, S!Numbers, S!CIDRs, S!Flags

LEMMA FlagsApart ==
    ASSUME NEW f \in S!Flags
    PROVE  /\ f \notin S!CIDRs /\ f \notin S!Strings \cup S!Numbers
           /\ f \notin {"Domain", "AdGuardDomain", "DomainSuffix", "DomainMatcher",
                        "SourceIPSet", "IPSet", "AdGuardDomainMatcher"}
  BY DEF S!Strings, S!Numbers, S!CIDRs, S!Flags

(* A rule as it is read so far: the fields of some of its items. *)
Fielded(rule, F) ==
    [type |-> "default", items |-> [g \in F |-> S!FieldValue(rule, g)], invert |-> FALSE]

LEMMA ItemsReplaced ==
    ASSUME NEW x, NEW y
    PROVE  [[type |-> "default", items |-> x, invert |-> FALSE] EXCEPT !.items = y] =
             [type |-> "default", items |-> y, invert |-> FALSE]
  <1> DEFINE R == [type : {"default"}, items : {x, y}, invert : BOOLEAN]
             a == [type |-> "default", items |-> x, invert |-> FALSE]
             b == [a EXCEPT !.items = y]
  <1>1. a \in R
    OBVIOUS
  <1>2. b \in R /\ b.type = a.type /\ b.items = y /\ b.invert = a.invert
    BY <1>1
  <1>3. \A r, q \in R : r.type = q.type /\ r.items = q.items /\ r.invert = q.invert => r = q
    OBVIOUS
  <1>4. [type |-> "default", items |-> y, invert |-> FALSE] \in R
    OBVIOUS
  <1> HIDE DEF b, R
  <1> QED BY <1>2, <1>3, <1>4 DEF b

LEMMA WithField ==
    ASSUME NEW rule, NEW F, NEW g
    PROVE  S!With(Fielded(rule, F), g, S!FieldValue(rule, g)) = Fielded(rule, F \cup {g})
  <1> DEFINE r == Fielded(rule, F)
             items == [h \in F |-> S!FieldValue(rule, h)]
             more == [h \in DOMAIN items \cup {g} |-> IF h = g THEN S!FieldValue(rule, g) ELSE items[h]]
  <1>1. r.items = items
    BY DEF Fielded
  <1>2. S!With(r, g, S!FieldValue(rule, g)) = [r EXCEPT !.items = more]
    BY <1>1 DEF S!With
  <1>3. more = [h \in F \cup {g} |-> S!FieldValue(rule, h)]
    OBVIOUS
  <1> HIDE DEF more
  <1>4. [r EXCEPT !.items = more] = [type |-> "default", items |-> more, invert |-> FALSE]
    BY ItemsReplaced DEF Fielded
  <1> QED BY <1>2, <1>3, <1>4 DEF Fielded, r

(* What is in the token of an item, if it is a value. *)
ItemValue(rule, f) ==
    CASE f = "Domain" -> S!Matcher(rule)
      [] f \in S!CIDRs -> S!IPSet(S!Get(rule, f))
      [] OTHER -> S!Get(rule, f)

LEMMA StoredField ==
    ASSUME NEW rule, NEW F, NEW f \in ItemNames, f \notin S!Flags, S!Says(rule, f),
           NEW rec \in BOOLEAN, ~ (rec /\ f = "AdGuardDomain")
    PROVE  S!Stored(Fielded(rule, F), f, ItemValue(rule, f), rec) =
             Fielded(rule, F \cup S!Fields(rule, f, rec))
  <1> DEFINE v == ItemValue(rule, f)
             K == F \cup {S!MatcherOf(f)}
  <1>1. CASE f \in S!Strings \cup S!Numbers
    <2>1. S!FieldValue(rule, f) = S!Get(rule, f) /\ v = S!Get(rule, f)
      <3>1. /\ f \notin S!CIDRs
            /\ f \notin {"Domain", "AdGuardDomain", "DomainSuffix", "DomainMatcher",
                         "SourceIPSet", "IPSet", "AdGuardDomainMatcher"}
        BY <1>1, SortsApart
      <3> QED BY <3>1 DEF S!FieldValue, ItemValue
    <2>2. S!Stored(Fielded(rule, F), f, v, rec) = S!With(Fielded(rule, F), f, v)
      BY <1>1 DEF S!Stored
    <2>3. S!Fields(rule, f, rec) = {f}
      BY <1>1 DEF S!Fields
    <2> QED BY <2>1, <2>2, <2>3, WithField
  <1>2. CASE f \notin S!Strings \cup S!Numbers
    <2>1. f = "Domain" \/ f = "AdGuardDomain" \/ f \in {"SourceIPCIDR", "IPCIDR"}
      BY <1>2, ItemFacts
    <2>2. S!FieldValue(rule, S!MatcherOf(f)) = v
      BY <2>1 DEF S!MatcherOf, S!FieldValue, ItemValue, S!CIDRs
    <2>3. S!With(Fielded(rule, F), S!MatcherOf(f), v) = Fielded(rule, K)
      BY <2>2, WithField
    <2>4. S!Fields(rule, f, rec) = {S!MatcherOf(f)} \cup
            (IF ~ rec THEN {} ELSE IF f = "Domain" THEN {f, "DomainSuffix"} ELSE {f})
      BY <1>2 DEF S!Fields
    <2> HIDE DEF v
    <2>5. CASE ~ rec
      <3>1. S!Stored(Fielded(rule, F), f, v, rec) = Fielded(rule, K)
        BY <1>2, <2>3, <2>5 DEF S!Stored
      <3>2. F \cup S!Fields(rule, f, rec) = K
        BY <2>4, <2>5
      <3> QED BY <3>1, <3>2 DEF v
    <2>6. CASE rec /\ f = "Domain"
      <3>1. v.domain = S!FieldValue(rule, "Domain") /\ v.suffix = S!FieldValue(rule, "DomainSuffix")
        <4>1. v = S!Matcher(rule)
          BY <2>6 DEF v, ItemValue, S!CIDRs
        <4>2. /\ S!FieldValue(rule, "Domain") = S!Range(S!Get(rule, "Domain"))
              /\ S!FieldValue(rule, "DomainSuffix") = S!Range(S!Get(rule, "DomainSuffix"))
          BY DEF S!FieldValue, S!CIDRs
        <4>3. /\ S!Matcher(rule).domain = S!Range(S!Get(rule, "Domain"))
              /\ S!Matcher(rule).suffix = S!Range(S!Get(rule, "DomainSuffix"))
          BY DEF S!Matcher
        <4> QED BY <4>1, <4>2, <4>3
      <3>2. S!Stored(Fielded(rule, F), f, v, rec) =
              S!With(S!With(Fielded(rule, K), "Domain", v.domain), "DomainSuffix", v.suffix)
        BY <1>2, <2>3, <2>6 DEF S!Stored
      <3>3. S!With(Fielded(rule, K), "Domain", v.domain) = Fielded(rule, K \cup {"Domain"})
        BY <3>1, WithField
      <3>4. S!With(Fielded(rule, K \cup {"Domain"}), "DomainSuffix", v.suffix) =
              Fielded(rule, (K \cup {"Domain"}) \cup {"DomainSuffix"})
        BY <3>1, WithField
      <3>5. F \cup S!Fields(rule, f, rec) = (K \cup {"Domain"}) \cup {"DomainSuffix"}
        BY <2>4, <2>6
      <3> QED BY <3>2, <3>3, <3>4, <3>5 DEF v
    <2>7. CASE rec /\ f \in {"SourceIPCIDR", "IPCIDR"}
      <3>1. S!FieldValue(rule, f) = v /\ f # "Domain"
        BY <2>7 DEF v, ItemValue, S!FieldValue, S!CIDRs
      <3>2. S!Stored(Fielded(rule, F), f, v, rec) = S!With(Fielded(rule, K), f, v)
        BY <1>2, <2>3, <2>7, <3>1 DEF S!Stored
      <3>3. F \cup S!Fields(rule, f, rec) = K \cup {f}
        BY <2>4, <2>7, <3>1
      <3> QED BY <3>1, <3>2, <3>3, WithField DEF v
    <2> QED BY <2>1, <2>5, <2>6, <2>7
  <1> QED BY <1>1, <1>2

(* The write of an item. *)
LEMMA PresentSays ==
    \A rule, f : S!Present(rule, f) <=> S!Says(rule, f)
  BY DEF S!Present, S!Says

LEMMA StuffFacts ==
    ASSUME NEW rule \in Rules, NEW f \in ItemNames
    PROVE  /\ S!Matcher(rule) \in Stuff /\ S!Get(rule, f) \in Stuff
           /\ S!IPSet(S!Get(rule, f)) \in Stuff /\ f \in Stuff /\ \A b \in BOOLEAN : b \in Stuff
           /\ \A n \in Nat : n \in Stuff
  <1>1. <<rule, f>> \in Rules \X ItemNames /\ <<rule, f>>[1] = rule /\ <<rule, f>>[2] = f
    OBVIOUS
  <1> QED BY <1>1 DEF Stuff

LEMMA SecondOfTwo ==
    ASSUME NEW X, NEW a \in Seq(X), NEW b \in Seq(X), NEW j \in 1 .. Len(b)
    PROVE  (a \o b)[Len(a) + j] = b[j]
  OBVIOUS

LEMMA FirstOfTwo ==
    ASSUME NEW X, NEW a \in Seq(X), NEW b \in Seq(X), NEW i \in 1 .. Len(a)
    PROVE  (a \o b)[i] = a[i]
  OBVIOUS

LEMMA TwoTokens ==
    ASSUME NEW X, NEW a \in Seq(X), NEW b \in Seq(X), Len(a) = 1, Len(b) = 1
    PROVE  /\ a \o b \in Seq(X) /\ Len(a \o b) = 2
           /\ (a \o b)[1] = a[1] /\ (a \o b)[2] = b[1]
  <1>1. a \o b \in Seq(X) /\ Len(a \o b) = 2
    OBVIOUS
  <1>2. (a \o b)[1] = a[1]
    OBVIOUS
  <1>3. 1 \in 1 .. Len(b) /\ Len(a) + 1 = 2
    OBVIOUS
  <1>4. (a \o b)[Len(a) + 1] = b[1]
    BY <1>3, SecondOfTwo
  <1> QED BY <1>1, <1>2, <1>3, <1>4

LEMMA ItemWritten ==
    ASSUME NEW rule \in Rules, NEW f \in ItemNames, NEW v
    PROVE  LET w == S!WriteItem(rule, f, v)
           IN  /\ w \in Writes
               /\ ~ S!Present(rule, f) => w.end = "ok" /\ w.tokens = << >>
               /\ S!Present(rule, f) => (w.end = "error" /\ w.tokens = << >>) \/ w.end = "ok"
               /\ S!Present(rule, f) /\ w.end = "ok" =>
                    /\ Len(w.tokens) = IF f \in S!Flags THEN 1 ELSE 2
                    /\ w.tokens[1].t = "item" /\ w.tokens[1].v = f
                    /\ f \notin S!Flags =>
                         w.tokens[2].t = "value" /\ w.tokens[2].v = ItemValue(rule, f)
  <1> DEFINE w == S!WriteItem(rule, f, v)
             x == ItemValue(rule, f)
             a == S!Tok("item", f)
             b == S!Tok("value", x)
  <1>1. {"item", "value"} \subseteq S!Tags
    BY DEF S!Tags
  <1>2. x \in Stuff
    BY <1>1, StuffFacts DEF ItemValue
  <1>3. /\ a \in Seq(Token) /\ Len(a) = 1 /\ a[1].t = "item" /\ a[1].v = f
        /\ b \in Seq(Token) /\ Len(b) = 1 /\ b[1].t = "value" /\ b[1].v = x
    BY <1>1, <1>2, StuffFacts, TokType
  <1>4. S!Payload(rule, f) = IF f \in S!Flags THEN << >> ELSE b
    BY ItemFacts DEF S!Payload, ItemValue, S!CIDRs
  <1>5. << >> \in Seq(Token)
    OBVIOUS
  <1> HIDE DEF a, b, x
  <1>6. CASE ~ S!Present(rule, f)
    <2>1. w = S!Wrote(<< >>)
      BY <1>6 DEF S!WriteItem
    <2> QED BY <1>5, <1>6, <2>1, WroteType
  <1>7. CASE S!Present(rule, f) /\ S!Refused(rule, f, v)
    <2>1. w = [end |-> "error", tokens |-> << >>]
      BY <1>7 DEF S!WriteItem
    <2> QED BY <1>5, <1>7, <2>1 DEF Writes
  <1>8. CASE S!Present(rule, f) /\ ~ S!Refused(rule, f, v) /\ f \in S!Flags
    <2>1. w = S!Wrote(a \o << >>) /\ a \o << >> = a
      BY <1>3, <1>4, <1>8 DEF S!WriteItem, a
    <2> QED BY <1>3, <1>8, <2>1, WroteType
  <1>9. CASE S!Present(rule, f) /\ ~ S!Refused(rule, f, v) /\ f \notin S!Flags
    <2>1. w = S!Wrote(a \o b)
      BY <1>4, <1>9 DEF S!WriteItem, a
    <2>2. a \o b \in Seq(Token) /\ Len(a \o b) = 2 /\ (a \o b)[1] = a[1] /\ (a \o b)[2] = b[1]
      BY <1>3, TwoTokens
    <2>3. w \in Writes /\ w.end = "ok" /\ w.tokens = a \o b
      BY <2>1, <2>2, WroteType
    <2>4. Len(w.tokens) = 2 /\ w.tokens[1] = a[1] /\ w.tokens[2] = b[1]
      BY <2>2, <2>3
    <2> QED BY <1>3, <1>9, <2>3, <2>4 DEF x
  <1> QED BY <1>6, <1>7, <1>8, <1>9

-----------------------------------------------------------------------------
(* The items of a rule are read one after another, until one of them       *)
(* is none.                                                                *)
LEMMA OpenFacts ==
    ASSUME NEW value, NEW at
    PROVE  /\ S!Open(value, at).open = TRUE /\ S!Open(value, at).ok = FALSE
           /\ S!Open(value, at).at = at /\ S!Open(value, at).value = value
           /\ S!Got(value, at).open = FALSE /\ S!Got(value, at).ok = TRUE
           /\ S!Got(value, at).at = at /\ S!Got(value, at).value = value
           /\ S!Failed.open = FALSE /\ S!Failed.ok = FALSE
  BY DEF S!Open, S!Got, S!Failed

LEMMA ItemsReadStays ==
    ASSUME NEW X, NEW s \in Seq(X), NEW at, NEW rec,
           NEW k \in 0 .. Len(s), ~ ItemsRead(s, at, rec)[k].open
    PROVE  \A j \in k .. Len(s) : ItemsRead(s, at, rec)[j] = ItemsRead(s, at, rec)[k]
  <1> DEFINE run == ItemsRead(s, at, rec)
             N == Len(s)
             Good == {m \in 0 .. N - k : run[k + m] = run[k]}
  <1>1. N \in Nat /\ k \in Nat /\ N - k \in Nat /\ k <= N
    OBVIOUS
  <1>2. \A j \in 1 .. N : run[j] = S!ReadItem(s, rec, run[j - 1])
    BY <1>1, ItemsReadFunction
  <1> HIDE DEF run, N
  <1>3. 0 \in Good
    BY <1>1
  <1>4. ASSUME NEW m \in 0 .. (N - k) - 1, m \in Good
        PROVE  m + 1 \in Good
    <2>1. /\ m + 1 \in 0 .. N - k /\ k + (m + 1) \in 1 .. N /\ (k + (m + 1)) - 1 = k + m
      BY <1>1
    <2>2. run[k + m] = run[k]
      BY <1>4
    <2>3. run[k + (m + 1)] = S!ReadItem(s, rec, run[k])
      BY <1>2, <2>1, <2>2
    <2>4. ~ run[k].open
      BY DEF run
    <2> QED BY <2>1, <2>3, <2>4 DEF S!ReadItem
  <1> HIDE DEF Good
  <1>5. 0 .. N - k \subseteq Good
    BY <1>1, <1>3, <1>4, InductionUpTo
  <1>6. ASSUME NEW j \in k .. N
        PROVE  run[j] = run[k]
    <2>1. j - k \in 0 .. N - k /\ k + (j - k) = j
      BY <1>1
    <2> QED BY <1>5, <2>1 DEF Good
  <1> QED BY <1>6 DEF run, N

LEMMA ItemReadShape ==
    ASSUME NEW s, NEW rec, NEW r, ~ (r.open /\ r.ok)
    PROVE  ~ (S!ReadItem(s, rec, r).open /\ S!ReadItem(s, rec, r).ok)
  <1> DEFINE x == S!ReadItem(s, rec, r)
  <1>1. x = r \/ x = S!ReadFinal(s, r) \/ x = S!Failed
        \/ \E v, at : x = S!Open(v, at)
    BY DEF S!ReadItem
  <1>2. S!ReadFinal(s, r) = S!Failed \/ \E v, at : S!ReadFinal(s, r) = S!Got(v, at)
    BY DEF S!ReadFinal
  <1> HIDE DEF x
  <1>3. x = r \/ x = S!Failed \/ (\E v, at : x = S!Got(v, at)) \/ \E v, at : x = S!Open(v, at)
    BY <1>1, <1>2
  <1> QED BY <1>3 DEF S!Open, S!Got, S!Failed, x

LEMMA ItemsReadShape ==
    ASSUME NEW X, NEW s \in Seq(X), NEW at, NEW rec
    PROVE  \A j \in 0 .. Len(s) : ~ (ItemsRead(s, at, rec)[j].open /\ ItemsRead(s, at, rec)[j].ok)
  <1> DEFINE run == ItemsRead(s, at, rec)
             N == Len(s)
             Good == {m \in 0 .. N : ~ (run[m].open /\ run[m].ok)}
  <1>1. N \in Nat
    OBVIOUS
  <1>2. /\ \A j \in 1 .. N : run[j] = S!ReadItem(s, rec, run[j - 1])
        /\ run[0] = S!Open([type |-> "default", items |-> << >>, invert |-> FALSE], at)
    BY <1>1, ItemsReadFunction
  <1> HIDE DEF run, N
  <1>3. 0 \in Good
    BY <1>1, <1>2 DEF S!Open
  <1>4. ASSUME NEW m \in 0 .. N - 1, m \in Good
        PROVE  m + 1 \in Good
    <2>1. m + 1 \in 0 .. N /\ m + 1 \in 1 .. N /\ (m + 1) - 1 = m
      BY <1>1
    <2>2. run[m + 1] = S!ReadItem(s, rec, run[m])
      BY <1>2, <2>1
    <2>3. ~ (run[m].open /\ run[m].ok)
      BY <1>4
    <2>4. ~ (run[m + 1].open /\ run[m + 1].ok)
      BY <2>2, <2>3, ItemReadShape
    <2> QED BY <2>1, <2>4
  <1> HIDE DEF Good
  <1>5. 0 .. N \subseteq Good
    BY <1>1, <1>3, <1>4, InductionUpTo
  <1> QED BY <1>5 DEF Good, run, N

(* With what cannot be read behind it, it is never a rule.                 *)
LEMMA ItemsStuck ==
    ASSUME NEW X, NEW s \in Seq(X), NEW at, NEW rec,
           NEW k \in 0 .. Len(s), ItemsRead(s, at, rec)[k].open,
           ItemsRead(s, at, rec)[k].ok = FALSE,
           S!ReadItem(s, rec, ItemsRead(s, at, rec)[k]) = S!Failed
    PROVE  \A j \in 0 .. Len(s) : ~ ItemsRead(s, at, rec)[j].ok
  <1> DEFINE run == ItemsRead(s, at, rec)
             N == Len(s)
  <1>1. N \in Nat /\ k \in Nat
    OBVIOUS
  <1>2. \A j \in 1 .. N : run[j] = S!ReadItem(s, rec, run[j - 1])
    BY <1>1, ItemsReadFunction
  <1>3. \A i \in 0 .. N : ~ run[i].open => \A j \in i .. N : run[j] = run[i]
    BY ItemsReadStays
  <1>4. run[k].open /\ run[k].ok = FALSE /\ S!ReadItem(s, rec, run[k]) = S!Failed
    OBVIOUS
  <1> HIDE DEF run, N
  <1>5. ASSUME NEW j \in 0 .. N, run[j].ok, ~ run[j].open
        PROVE  FALSE
    <2>1. CASE j <= k
      <3>1. k \in j .. N
        BY <1>1, <2>1 DEF N
      <3>2. run[k] = run[j]
        BY <1>3, <1>5, <3>1
      <3> QED BY <1>4, <1>5, <3>2
    <2>2. CASE j > k
      <3>1. k + 1 \in 0 .. N /\ k + 1 \in 1 .. N /\ (k + 1) - 1 = k /\ j \in k + 1 .. N
        BY <1>1, <2>2
      <3>2. run[k + 1] = S!Failed
        BY <1>2, <1>4, <3>1
      <3>3. ~ run[k + 1].open
        BY <3>2, OpenFacts
      <3>4. run[j] = run[k + 1]
        BY <1>3, <3>1, <3>3
      <3> QED BY <1>5, <3>2, <3>4, OpenFacts
    <2> QED BY <1>1, <2>1, <2>2
  <1>6. \A j \in 0 .. N : ~ (run[j].open /\ run[j].ok)
    BY ItemsReadShape DEF run, N
  <1> QED BY <1>5, <1>6 DEF run, N

(* One item: what is at its place is taken up, or nothing is.              *)
ItemTaken(s, p, rec, rule, F, f, v) ==
    /\ Complete(s, p, S!WriteItem(rule, f, v)) /\ ~ (rec /\ f = "AdGuardDomain") =>
         /\ p <= Len(s)
         /\ S!ReadItem(s, rec, S!Open(Fielded(rule, F), p)) =
              S!Open(Fielded(rule, F \cup S!Fields(rule, f, rec)),
                     After(p, S!WriteItem(rule, f, v)))
    /\ ~ Complete(s, p, S!WriteItem(rule, f, v)) \/ (rec /\ f = "AdGuardDomain") =>
         S!ReadItem(s, rec, S!Open(Fielded(rule, F), p)) = S!Failed

LEMMA ItemRead ==
    ASSUME NEW rule \in Rules, NEW f \in ItemNames, NEW v, S!IsDefault(rule),
           NEW X, NEW s \in Seq(X), NEW p \in Nat \ {0}, NEW F, NEW rec \in BOOLEAN,
           Part(s, p, S!WriteItem(rule, f, v)), S!Says(rule, f)
    PROVE  ItemTaken(s, p, rec, rule, F, f, v)
  <1> DEFINE w == S!WriteItem(rule, f, v)
             r == S!Open(Fielded(rule, F), p)
             x == S!ReadItem(s, rec, r)
             n == Len(w.tokens)
  <1>1. r.open /\ r.at = p /\ r.value = Fielded(rule, F)
    BY DEF S!Open
  <1> HIDE DEF r
  <1>2. x = IF S!Is(s, p, "final") THEN S!ReadFinal(s, r)
            ELSE IF S!Refuses(s, p, rec) THEN S!Failed
            ELSE IF s[p].v \in S!Flags THEN S!Open(S!With(Fielded(rule, F), s[p].v, <<TRUE>>), p + 1)
            ELSE S!Open(S!Stored(Fielded(rule, F), s[p].v, s[p + 1].v, rec), p + 2)
    BY <1>1 DEF S!ReadItem
  <1> HIDE DEF x
  <1>3. /\ w \in Writes
        /\ (w.end = "error" /\ w.tokens = << >>) \/ w.end = "ok"
        /\ w.end = "ok" =>
             /\ n = IF f \in S!Flags THEN 1 ELSE 2
             /\ w.tokens[1].t = "item" /\ w.tokens[1].v = f
             /\ f \notin S!Flags => w.tokens[2].t = "value" /\ w.tokens[2].v = ItemValue(rule, f)
    BY ItemWritten, PresentSays
  <1>4. Part(s, p, w) /\ Len(s) \in Nat
    OBVIOUS
  <1> HIDE DEF n, w
  <1>7. n \in Nat /\ (w.end = "ok" => n \in 1 .. 2)
    <2>1. n \in Nat
      BY <1>3 DEF n, Writes
    <2>2. w.end = "ok" => n = 1 \/ n = 2
      BY <1>3
    <2> QED BY <2>1, <2>2
  <1>8. /\ Complete(s, p, w) <=> w.end = "ok" /\ p - 1 + n <= Len(s)
        /\ After(p, w) = p + n
    BY DEF n, Complete, After
  <1>5. CASE w.end = "error" \/ Len(s) < p
    <2>1. Len(s) < p
      <3>1. CASE w.end = "error"
        <4>1. Len(w.tokens) = 0 /\ Len(s) <= p - 1 + Len(w.tokens)
          BY <1>3, <1>4, <3>1 DEF Part
        <4> QED BY <1>4, <4>1
      <3> QED BY <1>5, <3>1
    <2>2. \A t : ~ S!Is(s, p, t)
      BY <2>1, NothingBehind
    <2>3. x = S!Failed
      BY <1>2, <2>2 DEF S!Refuses
    <2>4. ~ Complete(s, p, w)
      <3>1. CASE w.end = "error"
        BY <3>1 DEF Complete
      <3>2. CASE w.end = "ok"
        <4>1. ~ (p - 1 + n <= Len(s))
          BY <1>4, <1>7, <2>1, <3>2
        <4> QED BY <1>8, <4>1
      <3> QED BY <1>3, <3>1, <3>2
    <2> QED BY <2>3, <2>4 DEF w, x, r, ItemTaken
  <1>6. CASE w.end = "ok" /\ p <= Len(s)
    <2>1. 1 \in 1 .. n /\ (p - 1) + 1 = p
      BY <1>6, <1>7
    <2>2. /\ p - 1 + 1 <= Len(s) => /\ s[p - 1 + 1] = w.tokens[1]
                                    /\ \A t : S!Is(s, p - 1 + 1, t) <=> w.tokens[1].t = t
      BY <1>3, <1>4, <2>1, TokenAt DEF n
    <2>3. s[p].v = f /\ \A t : S!Is(s, p, t) <=> t = "item"
      BY <1>3, <1>6, <2>1, <2>2
    <2>4. s[p].v \in S!Range(S!ItemOrder)
      BY <2>3 DEF ItemNames
    <2>5. ~ S!Is(s, p, "final") /\ S!Is(s, p, "item")
      BY <2>3
    <2>6. CASE rec /\ f = "AdGuardDomain"
      <3>1. x = S!Failed
        BY <1>2, <2>3, <2>5, <2>6 DEF S!Refuses
      <3> QED BY <2>6, <3>1 DEF w, x, r, ItemTaken
    <2>7. CASE ~ (rec /\ f = "AdGuardDomain") /\ f \in S!Flags
      <3>1. x = S!Open(S!With(Fielded(rule, F), f, <<TRUE>>), p + 1)
        BY <1>2, <2>3, <2>4, <2>5, <2>7 DEF S!Refuses
      <3>2. /\ f \notin S!CIDRs /\ f \notin S!Strings \cup S!Numbers
            /\ f \notin {"Domain", "AdGuardDomain", "DomainSuffix", "DomainMatcher",
                         "SourceIPSet", "IPSet", "AdGuardDomainMatcher"}
        BY <2>7, FlagsApart
      <3>3. f \in DOMAIN rule.items /\ rule.items[f] = <<TRUE>>
        BY <2>7, <3>2 DEF S!Says, S!IsDefault
      <3>4. S!FieldValue(rule, f) = <<TRUE>> /\ S!Fields(rule, f, rec) = {f}
        <4>1. S!Get(rule, f) = <<TRUE>>
          BY <3>3 DEF S!Get
        <4> QED BY <2>7, <3>2, <4>1 DEF S!FieldValue, S!Fields
      <3>5. S!With(Fielded(rule, F), f, <<TRUE>>) = Fielded(rule, F \cup S!Fields(rule, f, rec))
        <4>1. S!With(Fielded(rule, F), f, S!FieldValue(rule, f)) = Fielded(rule, F \cup {f})
          BY WithField
        <4> QED BY <3>4, <4>1
      <3>6. Complete(s, p, w) /\ After(p, w) = p + 1
        <4>1. n = 1
          BY <1>3, <1>6, <2>7
        <4> QED BY <1>4, <1>6, <1>8, <4>1
      <3> QED BY <1>6, <2>7, <3>1, <3>5, <3>6 DEF w, x, r, ItemTaken
    <2>8. CASE ~ (rec /\ f = "AdGuardDomain") /\ f \notin S!Flags
      <3>1. n = 2 /\ 2 \in 1 .. n /\ p - 1 + 2 = p + 1
        BY <1>3, <1>6, <2>8
      <3>2. /\ p - 1 + 2 <= Len(s) => /\ s[p - 1 + 2] = w.tokens[2]
                                      /\ \A t : S!Is(s, p - 1 + 2, t) <=> w.tokens[2].t = t
            /\ ~ (p - 1 + 2 <= Len(s)) => \A t : ~ S!Is(s, p - 1 + 2, t)
        BY <1>3, <1>4, <3>1, TokenAt DEF n
      <3>3. Complete(s, p, w) <=> p + 1 <= Len(s)
        BY <1>4, <1>6, <1>8, <3>1
      <3>4. CASE p + 1 <= Len(s)
        <4>1. S!Is(s, p + 1, "value") /\ s[p + 1].v = ItemValue(rule, f)
          BY <1>3, <1>6, <2>8, <3>1, <3>2, <3>4
        <4>2. x = S!Open(S!Stored(Fielded(rule, F), f, ItemValue(rule, f), rec), p + 2)
          BY <1>2, <2>3, <2>4, <2>5, <2>8, <4>1 DEF S!Refuses
        <4>3. S!Stored(Fielded(rule, F), f, ItemValue(rule, f), rec) =
                Fielded(rule, F \cup S!Fields(rule, f, rec))
          BY <2>8, StoredField
        <4>4. After(p, w) = p + 2
          BY <1>8, <3>1
        <4> QED BY <1>6, <2>8, <3>3, <3>4, <4>2, <4>3, <4>4 DEF w, x, r, ItemTaken
      <3>5. CASE ~ (p + 1 <= Len(s))
        <4>1. ~ S!Is(s, p + 1, "value")
          BY <3>1, <3>2, <3>5
        <4>2. x = S!Failed
          BY <1>2, <2>3, <2>5, <2>8, <4>1 DEF S!Refuses
        <4> QED BY <3>3, <3>5, <4>2 DEF w, x, r, ItemTaken
      <3> QED BY <3>4, <3>5
    <2> QED BY <2>6, <2>7, <2>8
  <1> QED BY <1>3, <1>4, <1>5, <1>6

-----------------------------------------------------------------------------
(* The items of a rule that were written, as far as they are in the file.  *)
ItemWrites(rule, v) == [i \in DOMAIN S!ItemOrder |-> S!WriteItem(rule, S!ItemOrder[i], v)]

ItemTurns(rule, v) == Turns(S!Wrote(<< >>), ItemWrites(rule, v))

FieldsUpTo(rule, rec, i) == UNION {S!Fields(rule, S!ItemOrder[j], rec) : j \in 1 .. i}

GuardedUpTo(rule, i) ==
    \E j \in 1 .. i : S!ItemOrder[j] = "AdGuardDomain" /\ S!Says(rule, "AdGuardDomain")

OnWay(s, at, rec, rule, v, i) ==
    \E k \in 0 .. Len(s) :
       /\ k <= Len(ItemTurns(rule, v)[i].tokens)
       /\ ItemsRead(s, at, rec)[k] =
            S!Open(Fielded(rule, FieldsUpTo(rule, rec, i)), After(at, ItemTurns(rule, v)[i]))

Lost(s, at, rec) == \A k \in 0 .. Len(s) : ~ ItemsRead(s, at, rec)[k].ok

ReadSoFar(s, at, rec, rule, v, i) ==
    IF Complete(s, at, ItemTurns(rule, v)[i]) /\ ~ (rec /\ GuardedUpTo(rule, i))
    THEN OnWay(s, at, rec, rule, v, i) ELSE Lost(s, at, rec)

LEMMA SumsMoved ==
    ASSUME NEW p, NEW at \in Nat, NEW a \in Nat, NEW b \in Nat, NEW c \in Nat, NEW k \in Nat,
           p + b = at + c, p = at + a, k <= a
    PROVE  p + b = at + c /\ b \in Nat /\ c \in Nat /\ k + b <= c
  OBVIOUS

LEMMA ItemWritesFacts ==
    ASSUME NEW rule \in Rules, NEW v
    PROVE  LET ws == ItemWrites(rule, v)
               T == ItemTurns(rule, v)
           IN  /\ ws \in Seq(Writes) /\ Len(ws) = 21 /\ S!Wrote(<< >>) \in Writes
               /\ S!WriteItems(rule, v) = T[21]
               /\ T[0] = S!Wrote(<< >>) /\ T[0].end = "ok" /\ Len(T[0].tokens) = 0
               /\ \A i \in 0 .. 21 : T[i] \in Writes
               /\ \A i \in 0 .. 20 : ws[i + 1] = S!WriteItem(rule, S!ItemOrder[i + 1], v)
  <1> DEFINE ws == ItemWrites(rule, v)
             T == ItemTurns(rule, v)
             first == S!Wrote(<< >>)
  <1>1. /\ DOMAIN S!ItemOrder = 1 .. 21 /\ \A i \in 1 .. 21 : S!ItemOrder[i] \in ItemNames
    BY ItemFacts
  <1>2. \A i \in 1 .. 21 : S!WriteItem(rule, S!ItemOrder[i], v) \in Writes
    BY <1>1, ItemWritten
  <1>3. ws = [i \in 1 .. 21 |-> S!WriteItem(rule, S!ItemOrder[i], v)]
    BY <1>1 DEF ItemWrites
  <1>4. ws \in Seq(Writes) /\ Len(ws) = 21
    BY <1>2, <1>3
  <1>5. << >> \in Seq(Token) /\ Len(<< >>) = 0
    OBVIOUS
  <1>6. first \in Writes /\ first.end = "ok" /\ first.tokens = << >>
    BY <1>5, WroteType
  <1>7. S!WriteItems(rule, v) = S!InTurn(first, ws)
    BY DEF S!WriteItems, ItemWrites
  <1> HIDE DEF ws, first
  <1>8. /\ S!InTurn(first, ws) = Turns(first, ws)[21] /\ Turns(first, ws)[0] = first
        /\ \A k \in 0 .. 21 : Turns(first, ws)[k] \in Writes
    <2>1. /\ S!InTurn(first, ws) = Turns(first, ws)[Len(ws)] /\ Turns(first, ws)[0] = first
          /\ \A k \in 0 .. Len(ws) : Turns(first, ws)[k] \in Writes
      BY <1>4, <1>6, TurnsFacts
    <2> QED BY <1>4, <2>1
  <1>9. T = Turns(first, ws)
    BY DEF ItemTurns, ws, first
  <1>10. ASSUME NEW i \in 0 .. 20
         PROVE  ws[i + 1] = S!WriteItem(rule, S!ItemOrder[i + 1], v)
    <2>1. i + 1 \in 1 .. 21
      OBVIOUS
    <2> QED BY <1>3, <2>1
  <1> QED BY <1>4, <1>5, <1>6, <1>7, <1>8, <1>9, <1>10 DEF first, ws

LEMMA FieldsGrow ==
    ASSUME NEW rule, NEW rec, NEW i \in Nat
    PROVE  /\ FieldsUpTo(rule, rec, i + 1) =
                FieldsUpTo(rule, rec, i) \cup S!Fields(rule, S!ItemOrder[i + 1], rec)
           /\ GuardedUpTo(rule, i + 1) <=>
                \/ GuardedUpTo(rule, i)
                \/ S!ItemOrder[i + 1] = "AdGuardDomain" /\ S!Says(rule, S!ItemOrder[i + 1])
           /\ FieldsUpTo(rule, rec, 0) = {} /\ ~ GuardedUpTo(rule, 0)
  <1>1. 1 .. i + 1 = (1 .. i) \cup {i + 1} /\ 1 .. 0 = {}
    OBVIOUS
  <1> QED BY <1>1 DEF FieldsUpTo, GuardedUpTo

LEMMA ItemsReadSoFar ==
    ASSUME NEW rule \in Rules, NEW v, S!IsDefault(rule), NEW rec \in BOOLEAN,
           NEW X, NEW s \in Seq(X), NEW at \in Nat \ {0}, at <= Len(s) + 1,
           Part(s, at, S!WriteItems(rule, v))
    PROVE  ReadSoFar(s, at, rec, rule, v, 21)
  <1> DEFINE ws == ItemWrites(rule, v)
             T == ItemTurns(rule, v)
             run == ItemsRead(s, at, rec)
             N == Len(s)
             Good == {i \in 0 .. 21 : ReadSoFar(s, at, rec, rule, v, i)}
  <1>1. /\ ws \in Seq(Writes) /\ Len(ws) = 21 /\ S!Wrote(<< >>) \in Writes
        /\ S!WriteItems(rule, v) = T[21]
        /\ T[0].end = "ok" /\ Len(T[0].tokens) = 0
        /\ \A i \in 0 .. 21 : T[i] \in Writes
        /\ \A i \in 0 .. 20 : ws[i + 1] = S!WriteItem(rule, S!ItemOrder[i + 1], v)
    BY ItemWritesFacts
  <1>2. /\ \A i \in 0 .. 21 : Part(s, at, T[i])
        /\ \A i \in 0 .. 20 :
             /\ T[i].end = "ok" =>
                  /\ Part(s, After(at, T[i]), ws[i + 1])
                  /\ After(at, T[i + 1]) = After(After(at, T[i]), ws[i + 1])
             /\ Complete(s, at, T[i + 1]) <=>
                  Complete(s, at, T[i]) /\ Complete(s, After(at, T[i]), ws[i + 1])
    <2> DEFINE first == S!Wrote(<< >>)
    <2>1. T = Turns(first, ws) /\ S!WriteItems(rule, v) = S!InTurn(first, ws)
      BY DEF ItemTurns, S!WriteItems, ItemWrites
    <2>2. first \in Writes /\ ws \in Seq(Writes) /\ Part(s, at, S!InTurn(first, ws)) /\ Len(ws) = 21
      BY <1>1, <2>1
    <2> HIDE DEF first, ws, T
    <2>3. TurnsAreAt(s, at, first, ws)
      BY <2>2, TurnsPlaced
    <2>4. 21 - 1 = 20
      OBVIOUS
    <2> QED BY <2>1, <2>2, <2>3, <2>4 DEF TurnsAreAt
  <1>3. N \in Nat
    OBVIOUS
  <1>4. /\ run[0] = S!Open([type |-> "default", items |-> << >>, invert |-> FALSE], at)
        /\ \A k \in 1 .. N : run[k] = S!ReadItem(s, rec, run[k - 1])
    BY <1>3, ItemsReadFunction
  <1> HIDE DEF ws, T, run, N
  <1>5. 0 \in Good
    <2>1. Complete(s, at, T[0]) /\ After(at, T[0]) = at
      BY <1>1, <1>3 DEF Complete, After, N
    <2>2. FieldsUpTo(rule, rec, 0) = {} /\ ~ GuardedUpTo(rule, 0)
      BY FieldsGrow
    <2>3. [g \in {} |-> S!FieldValue(rule, g)] = << >>
      OBVIOUS
    <2>4. run[0] = S!Open(Fielded(rule, {}), at)
      BY <1>4, <2>3 DEF Fielded
    <2>5. 0 \in 0 .. N /\ 0 <= Len(T[0].tokens)
      BY <1>1, <1>3
    <2>6. run[0] = S!Open(Fielded(rule, FieldsUpTo(rule, rec, 0)), After(at, T[0]))
      BY <2>1, <2>2, <2>4
    <2>7. OnWay(s, at, rec, rule, v, 0)
      BY <2>5, <2>6 DEF OnWay, T, run, N
    <2> QED BY <2>1, <2>2, <2>7 DEF ReadSoFar, T
  <1>6. ASSUME NEW i \in 0 .. 20, i \in Good
        PROVE  i + 1 \in Good
    <2> DEFINE p == After(at, T[i])
               w == ws[i + 1]
               f == S!ItemOrder[i + 1]
               F == FieldsUpTo(rule, rec, i)
    <2>1. i + 1 \in 0 .. 21 /\ i + 1 \in 1 .. 21 /\ i \in 0 .. 21 /\ i \in Nat
      OBVIOUS
    <2>2. f \in ItemNames /\ w = S!WriteItem(rule, f, v)
      BY <1>1, <2>1, ItemFacts
    <2>3. /\ FieldsUpTo(rule, rec, i + 1) = F \cup S!Fields(rule, f, rec)
          /\ GuardedUpTo(rule, i + 1) <=>
                GuardedUpTo(rule, i) \/ (f = "AdGuardDomain" /\ S!Says(rule, f))
      BY <2>1, FieldsGrow
    <2>4. Complete(s, at, T[i + 1]) <=> Complete(s, at, T[i]) /\ Complete(s, p, w)
      BY <1>2
    <2>5. ReadSoFar(s, at, rec, rule, v, i)
      BY <1>6
    <2>6. CASE ~ (Complete(s, at, T[i]) /\ ~ (rec /\ GuardedUpTo(rule, i)))
      <3>1. Lost(s, at, rec)
        BY <2>5, <2>6 DEF ReadSoFar, T
      <3>2. ~ (Complete(s, at, T[i + 1]) /\ ~ (rec /\ GuardedUpTo(rule, i + 1)))
        BY <2>3, <2>4, <2>6
      <3>3. ReadSoFar(s, at, rec, rule, v, i + 1)
        BY <3>1, <3>2 DEF ReadSoFar, T
      <3> QED BY <2>1, <3>3
    <2>7. CASE Complete(s, at, T[i]) /\ ~ (rec /\ GuardedUpTo(rule, i))
      <3>1. OnWay(s, at, rec, rule, v, i)
        BY <2>5, <2>7 DEF ReadSoFar, T
      <3>2. PICK k \in 0 .. N : k <= Len(T[i].tokens) /\ run[k] = S!Open(Fielded(rule, F), p)
        BY <3>1 DEF OnWay, T, run, N
      <3>3. T[i] \in Writes /\ T[i + 1] \in Writes /\ w \in Writes /\ T[i].end = "ok"
        <4>1. T[i] \in Writes /\ T[i + 1] \in Writes
          BY <1>1, <2>1
        <4>2. w \in Writes
          BY <2>2, ItemWritten
        <4>3. T[i].end = "ok"
          BY <2>7 DEF Complete
        <4> QED BY <4>1, <4>2, <4>3
      <3>4. Part(s, p, w) /\ After(at, T[i + 1]) = After(p, w)
        BY <1>2, <3>3
      <3>5. p \in Nat \ {0} /\ p - 1 <= N /\ k <= p - 1
        <4> DEFINE n == Len(T[i].tokens)
        <4>1. n \in Nat /\ p = at + n /\ at - 1 + n <= N /\ k <= n
          BY <2>7, <3>2, <3>3 DEF Writes, After, Complete, N
        <4> HIDE DEF n, p
        <4> QED BY <1>3, <4>1
      <3>6. p + Len(w.tokens) = at + Len(T[i + 1].tokens) /\ Len(w.tokens) \in Nat
            /\ Len(T[i + 1].tokens) \in Nat /\ k + Len(w.tokens) <= Len(T[i + 1].tokens)
        <4>1. p + Len(w.tokens) = at + Len(T[i + 1].tokens) /\ p = at + Len(T[i].tokens)
          BY <3>4 DEF After
        <4>2. Len(w.tokens) \in Nat /\ Len(T[i + 1].tokens) \in Nat /\ Len(T[i].tokens) \in Nat
          BY <3>3 DEF Writes
        <4>3. at \in Nat /\ k \in Nat /\ k <= Len(T[i].tokens)
          BY <1>3, <3>2
        <4> HIDE DEF p, w
        <4> QED BY <4>1, <4>2, <4>3, SumsMoved
      <3> HIDE DEF p, w, f
      <3>7. CASE ~ S!Says(rule, f)
        <4>1. w.end = "ok" /\ w.tokens = << >>
          BY <2>2, <3>7, ItemWritten, PresentSays
        <4>2. Len(w.tokens) = 0
          BY <4>1
        <4>3. Complete(s, p, w) /\ After(p, w) = p /\ k <= Len(T[i + 1].tokens)
          BY <1>3, <3>5, <3>6, <4>1, <4>2 DEF Complete, After, N
        <4>4. S!Fields(rule, f, rec) = {}
          BY <3>7 DEF S!Fields
        <4>5. OnWay(s, at, rec, rule, v, i + 1)
          BY <2>3, <3>2, <3>4, <4>3, <4>4 DEF OnWay, T, run, N
        <4>6. ReadSoFar(s, at, rec, rule, v, i + 1)
          BY <2>3, <2>4, <2>7, <3>7, <4>3, <4>5 DEF ReadSoFar, T
        <4> QED BY <2>1, <4>6
      <3>8. CASE S!Says(rule, f)
        <4> DEFINE x == S!ReadItem(s, rec, run[k])
        <4>1. IF Complete(s, p, w) /\ ~ (rec /\ f = "AdGuardDomain")
              THEN p <= N /\ x = S!Open(Fielded(rule, F \cup S!Fields(rule, f, rec)), After(p, w))
              ELSE x = S!Failed
          <5> DEFINE y == S!ReadItem(s, rec, S!Open(Fielded(rule, F), p))
          <5>1. Part(s, p, S!WriteItem(rule, f, v)) /\ p \in Nat \ {0} /\ f \in ItemNames
            BY <2>2, <3>4, <3>5
          <5> HIDE DEF F
          <5>2. /\ Complete(s, p, S!WriteItem(rule, f, v)) /\ ~ (rec /\ f = "AdGuardDomain") =>
                     /\ p <= Len(s)
                     /\ y = S!Open(Fielded(rule, F \cup S!Fields(rule, f, rec)),
                                   After(p, S!WriteItem(rule, f, v)))
                /\ ~ Complete(s, p, S!WriteItem(rule, f, v)) \/ (rec /\ f = "AdGuardDomain") =>
                     y = S!Failed
            <6>1. ItemTaken(s, p, rec, rule, F, f, v)
              BY <3>8, <5>1, ItemRead
            <6> QED BY <6>1 DEF ItemTaken
          <5>3. x = y
            BY <3>2 DEF F
          <5> HIDE DEF x, y
          <5> QED BY <2>2, <5>2, <5>3 DEF N
        <4>2. CASE Complete(s, p, w) /\ ~ (rec /\ f = "AdGuardDomain")
          <5>1. k + 1 \in 0 .. N /\ k + 1 \in 1 .. N /\ (k + 1) - 1 = k
            BY <1>3, <3>5, <4>1, <4>2
          <5>2. run[k + 1] = x
            BY <1>4, <5>1
          <5>3. k + 1 <= Len(T[i + 1].tokens)
            <6>1. Len(w.tokens) # 0
              BY <2>2, <3>8, <4>2, ItemWritten, PresentSays DEF Complete
            <6> QED BY <3>6, <6>1
          <5>4. OnWay(s, at, rec, rule, v, i + 1)
            BY <2>3, <3>4, <4>1, <4>2, <5>1, <5>2, <5>3 DEF OnWay, T, run, N
          <5>5. ReadSoFar(s, at, rec, rule, v, i + 1)
            BY <2>3, <2>4, <2>7, <4>2, <5>4 DEF ReadSoFar, T
          <5> QED BY <2>1, <5>5
        <4>3. CASE ~ (Complete(s, p, w) /\ ~ (rec /\ f = "AdGuardDomain"))
          <5>1. run[k].open /\ run[k].ok = FALSE
            BY <3>2 DEF S!Open
          <5>2. x = S!Failed
            BY <4>1, <4>3
          <5>3. Lost(s, at, rec)
            BY <5>1, <5>2, ItemsStuck DEF Lost, run, N
          <5>4. ReadSoFar(s, at, rec, rule, v, i + 1)
            BY <2>3, <2>4, <3>8, <4>3, <5>3 DEF ReadSoFar, T
          <5> QED BY <2>1, <5>4
        <4> QED BY <4>2, <4>3
      <3> QED BY <3>7, <3>8
    <2> QED BY <2>6, <2>7
  <1> HIDE DEF Good
  <1>7. 21 \in Nat /\ 21 - 1 = 20 /\ 21 \in 0 .. 21
    OBVIOUS
  <1>8. 0 .. 21 \subseteq Good
    BY <1>5, <1>6, <1>7, InductionUpTo
  <1> QED BY <1>7, <1>8 DEF Good

-----------------------------------------------------------------------------
(* What comes behind the items, and a rule with them.                      *)
LEMMA FinalWritten ==
    ASSUME NEW rule \in Rules, S!IsDefault(rule)
    PROVE  LET w == S!WriteFinal(rule)
           IN  /\ w \in Writes /\ w.end = "ok" /\ Len(w.tokens) = 2
               /\ w.tokens[1].t = "final"
               /\ w.tokens[2].t = "bool" /\ w.tokens[2].v = rule.invert
  <1> DEFINE a == S!Tok("final", "final")
             b == S!Tok("bool", rule.invert)
  <1>1. {"final", "bool"} \subseteq S!Tags
    BY DEF S!Tags
  <1>2. rule.invert \in BOOLEAN
    BY DEF S!IsDefault
  <1>3. rule.invert \in Stuff /\ "final" \in Stuff
    BY <1>2 DEF Stuff
  <1>4. /\ a \in Seq(Token) /\ Len(a) = 1 /\ a[1].t = "final"
        /\ b \in Seq(Token) /\ Len(b) = 1 /\ b[1].t = "bool" /\ b[1].v = rule.invert
    BY <1>1, <1>3, TokType
  <1>5. S!WriteFinal(rule) = S!Wrote(a \o b)
    BY DEF S!WriteFinal
  <1> HIDE DEF a, b
  <1>6. a \o b \in Seq(Token) /\ Len(a \o b) = 2 /\ (a \o b)[1] = a[1] /\ (a \o b)[2] = b[1]
    BY <1>4, TwoTokens
  <1> QED BY <1>4, <1>5, <1>6, WroteType

FinalTaken(s, q, rec, rule, value) ==
    /\ Complete(s, q, S!WriteFinal(rule)) =>
         /\ q <= Len(s)
         /\ S!ReadItem(s, rec, S!Open(value, q)) =
              S!Got([value EXCEPT !.invert = rule.invert], After(q, S!WriteFinal(rule)))
    /\ ~ Complete(s, q, S!WriteFinal(rule)) => S!ReadItem(s, rec, S!Open(value, q)) = S!Failed

LEMMA FinalRead ==
    ASSUME NEW rule \in Rules, S!IsDefault(rule), NEW rec, NEW value,
           NEW X, NEW s \in Seq(X), NEW q \in Nat \ {0}, Part(s, q, S!WriteFinal(rule))
    PROVE  FinalTaken(s, q, rec, rule, value)
  <1> DEFINE w == S!WriteFinal(rule)
             r == S!Open(value, q)
             x == S!ReadItem(s, rec, r)
             n == Len(w.tokens)
  <1>1. r.open /\ r.at = q /\ r.value = value
    BY DEF S!Open
  <1> HIDE DEF r
  <1>2. x = IF S!Is(s, q, "final") THEN S!ReadFinal(s, r)
            ELSE IF S!Refuses(s, q, rec) THEN S!Failed
            ELSE IF s[q].v \in S!Flags THEN S!Open(S!With(value, s[q].v, <<TRUE>>), q + 1)
            ELSE S!Open(S!Stored(value, s[q].v, s[q + 1].v, rec), q + 2)
    BY <1>1 DEF S!ReadItem
  <1> HIDE DEF x
  <1>3. /\ w \in Writes /\ w.end = "ok" /\ n = 2
        /\ w.tokens[1].t = "final"
        /\ w.tokens[2].t = "bool" /\ w.tokens[2].v = rule.invert
    BY FinalWritten
  <1>4. Part(s, q, w) /\ Len(s) \in Nat
    OBVIOUS
  <1> HIDE DEF n, w
  <1>5. /\ Complete(s, q, w) <=> q - 1 + n <= Len(s)
        /\ After(q, w) = q + n
    BY <1>3 DEF n, Complete, After
  <1>6. CASE Len(s) < q
    <2>1. \A t : ~ S!Is(s, q, t)
      BY <1>6, NothingBehind
    <2>2. x = S!Failed
      BY <1>2, <2>1 DEF S!Refuses
    <2>3. ~ (q - 1 + n <= Len(s))
      BY <1>3, <1>4, <1>6
    <2>4. ~ Complete(s, q, w)
      BY <1>5, <2>3
    <2> QED BY <2>2, <2>4 DEF w, x, r, FinalTaken
  <1>7. CASE q <= Len(s)
    <2>1. 1 \in 1 .. n /\ 2 \in 1 .. n /\ (q - 1) + 1 = q /\ q - 1 + 2 = q + 1 /\ q + n = q + 2
          /\ (q - 1 + n <= Len(s) <=> q + 1 <= Len(s))
      BY <1>3, <1>4
    <2>2. q - 1 + 1 <= Len(s) => \A t : S!Is(s, q - 1 + 1, t) <=> w.tokens[1].t = t
      BY <1>3, <1>4, <2>1, TokenAt DEF n
    <2>3. S!Is(s, q, "final")
      BY <1>3, <1>7, <2>1, <2>2
    <2>4. x = IF S!Is(s, q + 1, "bool")
              THEN S!Got([value EXCEPT !.invert = s[q + 1].v], q + 2) ELSE S!Failed
      BY <1>1, <1>2, <2>3 DEF S!ReadFinal
    <2>5. /\ q - 1 + 2 <= Len(s) => /\ s[q - 1 + 2] = w.tokens[2]
                                    /\ \A t : S!Is(s, q - 1 + 2, t) <=> w.tokens[2].t = t
          /\ ~ (q - 1 + 2 <= Len(s)) => \A t : ~ S!Is(s, q - 1 + 2, t)
      BY <1>3, <1>4, <2>1, TokenAt DEF n
    <2>6. CASE q + 1 <= Len(s)
      <3>1. S!Is(s, q + 1, "bool") /\ s[q + 1].v = rule.invert
        BY <1>3, <2>1, <2>5, <2>6
      <3>2. x = S!Got([value EXCEPT !.invert = rule.invert], After(q, w)) /\ Complete(s, q, w)
        BY <1>5, <2>1, <2>4, <2>6, <3>1
      <3> QED BY <1>7, <3>2 DEF w, x, r, FinalTaken
    <2>7. CASE ~ (q + 1 <= Len(s))
      <3>1. ~ S!Is(s, q + 1, "bool")
        BY <2>1, <2>5, <2>7
      <3>2. x = S!Failed /\ ~ Complete(s, q, w)
        BY <1>5, <2>1, <2>4, <2>7, <3>1
      <3> QED BY <3>2 DEF w, x, r, FinalTaken
    <2> QED BY <2>6, <2>7
  <1> QED BY <1>4, <1>6, <1>7

LEMMA InvertReplaced ==
    ASSUME NEW items, NEW b \in BOOLEAN
    PROVE  [[type |-> "default", items |-> items, invert |-> FALSE] EXCEPT !.invert = b] =
             [type |-> "default", invert |-> b, items |-> items]
  <1> DEFINE R == [type : {"default"}, items : {items}, invert : BOOLEAN]
             a == [type |-> "default", items |-> items, invert |-> FALSE]
             c == [a EXCEPT !.invert = b]
             e == [type |-> "default", invert |-> b, items |-> items]
  <1>1. a \in R
    OBVIOUS
  <1>2. c \in R /\ c.type = a.type /\ c.items = items /\ c.invert = b
    BY <1>1
  <1>3. \A r, q \in R : r.type = q.type /\ r.items = q.items /\ r.invert = q.invert => r = q
    OBVIOUS
  <1>4. e \in R /\ e.type = a.type /\ e.items = items /\ e.invert = b
    OBVIOUS
  <1> HIDE DEF c, R, e, a
  <1>5. c = e
    BY <1>2, <1>3, <1>4
  <1> QED BY <1>5 DEF c, e, a

LEMMA AllFields ==
    ASSUME NEW rule \in Rules, NEW rec, S!IsDefault(rule)
    PROVE  /\ [Fielded(rule, FieldsUpTo(rule, rec, 21)) EXCEPT !.invert = rule.invert] =
                S!DefaultAs(rule, rec)
           /\ GuardedUpTo(rule, 21) <=> "AdGuardDomain" \in DOMAIN rule.items
  <1>1. FieldsUpTo(rule, rec, 21) = UNION {S!Fields(rule, f, rec) : f \in S!Range(S!ItemOrder)}
    <2>1. /\ \A i \in 1 .. 21 : S!ItemOrder[i] \in S!Range(S!ItemOrder)
          /\ \A f \in S!Range(S!ItemOrder) : \E i \in 1 .. 21 : f = S!ItemOrder[i]
      BY ItemFacts DEF ItemNames
    <2>2. {S!Fields(rule, S!ItemOrder[j], rec) : j \in 1 .. 21} =
            {S!Fields(rule, f, rec) : f \in S!Range(S!ItemOrder)}
      BY <2>1
    <2> QED BY <2>2 DEF FieldsUpTo
  <1>2. rule.invert \in BOOLEAN
    BY DEF S!IsDefault
  <1>3. [Fielded(rule, FieldsUpTo(rule, rec, 21)) EXCEPT !.invert = rule.invert] =
                S!DefaultAs(rule, rec)
    BY <1>1, <1>2, InvertReplaced DEF Fielded, S!DefaultAs
  <1>4. GuardedUpTo(rule, 21) <=> "AdGuardDomain" \in DOMAIN rule.items
    <2>1. 21 \in 1 .. 21 /\ S!ItemOrder[21] = "AdGuardDomain"
      BY ItemFacts
    <2>2. S!Says(rule, "AdGuardDomain") <=> "AdGuardDomain" \in DOMAIN rule.items
      BY DEF S!Says
    <2> QED BY <2>1, <2>2 DEF GuardedUpTo
  <1> QED BY <1>3, <1>4

LEMMA JoinedLength ==
    ASSUME NEW X, NEW a \in Seq(X), NEW b \in Seq(X)
    PROVE  a \o b \in Seq(X) /\ Len(a \o b) = Len(a) + Len(b)
  OBVIOUS

LEMMA LongerStill ==
    ASSUME NEW a \in Writes, NEW b \in Writes, Len(a.tokens) >= 1
    PROVE  S!Then(a, b) \in Writes /\ Len(S!Then(a, b).tokens) >= 1
  <1> DEFINE w == S!Then(a, b)
  <1>1. w \in Writes /\ (w = a \/ w.tokens = a.tokens \o b.tokens)
    BY ThenFacts
  <1> HIDE DEF w
  <1>2. CASE w = a
    BY <1>1, <1>2 DEF w
  <1>3. CASE w.tokens = a.tokens \o b.tokens
    <2>1. a.tokens \in Seq(Token) /\ b.tokens \in Seq(Token)
      BY DEF Writes
    <2> DEFINE n == Len(a.tokens)
               m == Len(b.tokens)
    <2>2. n \in Nat /\ m \in Nat /\ Len(a.tokens \o b.tokens) = n + m /\ n >= 1
      BY <2>1
    <2> HIDE DEF n, m
    <2>3. n + m >= 1
      BY <2>2
    <2> QED BY <1>1, <1>3, <2>2, <2>3 DEF w
  <1> QED BY <1>1, <1>2, <1>3

LEMMA TypeWritten ==
    ASSUME NEW t \in {0, 1}
    PROVE  LET w == S!Wrote(S!Tok("type", t))
           IN  /\ w \in Writes /\ w.end = "ok" /\ Len(w.tokens) = 1
               /\ w.tokens[1].t = "type" /\ w.tokens[1].v = t
               /\ w.tokens = S!Tok("type", t) /\ S!Tok("type", t) \in Seq(Token)
  <1>1. "type" \in S!Tags /\ t \in Stuff
    BY DEF S!Tags, Stuff
  <1> QED BY <1>1, TokType, WroteType

LEMMA DefaultWritten ==
    ASSUME NEW rule \in Rules, NEW v, S!IsDefault(rule)
    PROVE  /\ S!WriteDefaultRule(rule, v) \in Writes
           /\ Len(S!WriteDefaultRule(rule, v).tokens) >= 1
           /\ S!WriteItems(rule, v) \in Writes
           /\ S!Then(S!Wrote(S!Tok("type", 0)), S!WriteItems(rule, v)) \in Writes
  <1> DEFINE a == S!Wrote(S!Tok("type", 0))
             b == S!WriteItems(rule, v)
             c == S!WriteFinal(rule)
             ab == S!Then(a, b)
             w == S!Then(ab, c)
  <1>1. a \in Writes /\ a.end = "ok" /\ Len(a.tokens) = 1
    BY TypeWritten
  <1>2. b \in Writes
    <2>1. 21 \in 0 .. 21
      OBVIOUS
    <2> QED BY <2>1, ItemWritesFacts
  <1>3. c \in Writes
    BY FinalWritten
  <1>4. w = S!WriteDefaultRule(rule, v)
    BY DEF S!WriteDefaultRule
  <1> HIDE DEF a, b, c
  <1>5. ab \in Writes /\ Len(ab.tokens) >= 1
    <2>1. Len(a.tokens) >= 1
      BY <1>1
    <2> QED BY <1>1, <1>2, <2>1, LongerStill
  <1> HIDE DEF ab
  <1>6. w \in Writes /\ Len(w.tokens) >= 1
    BY <1>3, <1>5, LongerStill
  <1> QED BY <1>2, <1>4, <1>5, <1>6 DEF a, b, ab

LEMMA DefaultRead ==
    ASSUME NEW rule \in Rules, NEW v, S!IsDefault(rule), NEW rec \in BOOLEAN,
           NEW X, NEW s \in Seq(X), NEW at \in Nat \ {0}, at <= Len(s) + 1,
           Part(s, at, S!WriteDefaultRule(rule, v)), NEW inner, NEW depth
    PROVE  Reads(s, at, S!WriteDefaultRule(rule, v), S!ReadRule(s, at, rec, inner),
                 S!DefaultAs(rule, rec), rec /\ "AdGuardDomain" \in DOMAIN rule.items, depth)
  <1> DEFINE a == S!Wrote(S!Tok("type", 0))
             b == S!WriteItems(rule, v)
             c == S!WriteFinal(rule)
             ab == S!Then(a, b)
             w == S!WriteDefaultRule(rule, v)
             x == S!ReadRule(s, at, rec, inner)
             N == Len(s)
             run == ItemsRead(s, at + 1, rec)
             bad == rec /\ "AdGuardDomain" \in DOMAIN rule.items
  <1>1. /\ a \in Writes /\ a.end = "ok" /\ Len(a.tokens) = 1
        /\ a.tokens[1].t = "type" /\ a.tokens[1].v = 0
    BY TypeWritten
  <1>2. b \in Writes /\ ab \in Writes /\ c \in Writes /\ w = S!Then(ab, c)
    BY DefaultWritten, FinalWritten DEF S!WriteDefaultRule
  <1>3. N \in Nat /\ Part(s, at, w)
    OBVIOUS
  <1> DEFINE q == After(at, ab)
  <1> HIDE DEF a, c, w, x, N, bad
  <1>4. /\ Part(s, at, ab) /\ (ab.end = "ok" => Part(s, q, c))
        /\ Complete(s, at, w) <=> Complete(s, at, ab) /\ Complete(s, q, c)
        /\ ab.end = "ok" => After(at, w) = After(q, c)
    <2> HIDE DEF ab, b
    <2> QED BY <1>2, <1>3, PartThen
  <1>5. After(at, a) = at + 1
    BY <1>1 DEF After
  <1>6. /\ Part(s, at, a) /\ Part(s, at + 1, b)
        /\ Complete(s, at, ab) <=> Complete(s, at, a) /\ Complete(s, at + 1, b)
        /\ q = After(at + 1, b)
    <2> HIDE DEF b
    <2> QED BY <1>1, <1>2, <1>4, <1>5, PartThen
  <1>7. ab.end = b.end
    BY <1>1, <1>2, ThenFacts
  <1> HIDE DEF ab, q
  <1>8. CASE N < at
    <2>1. \A t : ~ S!Is(s, at, t)
      BY <1>8, NothingBehind DEF N
    <2>2. x = S!Failed
      BY <2>1 DEF S!ReadRule, x
    <2>3. ~ Complete(s, at, a)
      BY <1>1, <1>3, <1>8 DEF Complete, N
    <2>4. ~ Complete(s, at, w) /\ ~ x.ok
      BY <1>4, <1>6, <2>2, <2>3, OpenFacts
    <2> QED BY <2>4 DEF Reads, w, x
  <1>9. CASE at <= N
    <2>1. 1 \in 1 .. Len(a.tokens) /\ (at - 1) + 1 = at /\ at + 1 \in Nat \ {0} /\ at + 1 <= N + 1
      BY <1>1, <1>3, <1>9
    <2>2. at - 1 + 1 <= N => /\ s[at - 1 + 1] = a.tokens[1]
                             /\ \A t : S!Is(s, at - 1 + 1, t) <=> a.tokens[1].t = t
      BY <1>1, <1>6, <2>1, TokenAt DEF N
    <2>3. S!Is(s, at, "type") /\ s[at].v = 0
      BY <1>1, <1>9, <2>1, <2>2
    <2>4. x = S!ReadItems(s, at + 1, rec)
      BY <2>3 DEF S!ReadRule, x
    <2>5. x = run[N] /\ \A k \in 1 .. N : run[k] = S!ReadItem(s, rec, run[k - 1])
      BY <1>3, <2>4, ItemsReadFunction DEF N
    <2>6. ReadSoFar(s, at + 1, rec, rule, v, 21)
      BY <1>6, <2>1, ItemsReadSoFar DEF N
    <2>7. b = ItemTurns(rule, v)[21]
      BY ItemWritesFacts
    <2>8. /\ [Fielded(rule, FieldsUpTo(rule, rec, 21)) EXCEPT !.invert = rule.invert] =
                S!DefaultAs(rule, rec)
          /\ rec /\ GuardedUpTo(rule, 21) <=> bad
      BY AllFields DEF bad
    <2> HIDE DEF run, b
    <2>9. CASE ~ (Complete(s, at + 1, b) /\ ~ bad)
      <3>1. Lost(s, at + 1, rec)
        BY <2>6, <2>7, <2>8, <2>9 DEF ReadSoFar
      <3>2. N \in 0 .. N
        BY <1>3
      <3>3. ~ x.ok
        BY <2>5, <3>1, <3>2 DEF Lost, run, N
      <3> QED BY <1>4, <1>6, <2>9, <3>3 DEF Reads, w, x, bad
    <2>10. CASE Complete(s, at + 1, b) /\ ~ bad
      <3> DEFINE value == Fielded(rule, FieldsUpTo(rule, rec, 21))
      <3>1. OnWay(s, at + 1, rec, rule, v, 21)
        BY <2>6, <2>7, <2>8, <2>10 DEF ReadSoFar
      <3>2. PICK k \in 0 .. N : k <= Len(b.tokens) /\ run[k] = S!Open(value, q)
        BY <1>6, <2>7, <3>1 DEF OnWay, run, N
      <3>3. Complete(s, at, ab) /\ b.end = "ok"
        <4>1. Complete(s, at, a)
          BY <1>1, <1>3, <1>9 DEF Complete, N
        <4> QED BY <1>6, <2>10, <4>1 DEF Complete
      <3>4. q \in Nat \ {0} /\ k < q /\ k \in Nat
        <4> DEFINE n == Len(b.tokens)
        <4>1. q = (at + 1) + n /\ n \in Nat /\ k <= n
          BY <1>2, <1>6, <3>2 DEF After, Writes
        <4> HIDE DEF n
        <4> QED BY <1>3, <2>1, <4>1
      <3>5. Part(s, q, c) /\ After(at, w) = After(q, c)
        BY <1>4, <1>7, <3>3
      <3>6. FinalTaken(s, q, rec, rule, value)
        BY <3>4, <3>5, FinalRead DEF c
      <3> HIDE DEF value
      <3>7. CASE ~ Complete(s, q, c)
        <4>1. S!ReadItem(s, rec, run[k]) = S!Failed
          BY <3>2, <3>6, <3>7 DEF FinalTaken, c
        <4>2. run[k].open /\ run[k].ok = FALSE
          BY <3>2 DEF S!Open
        <4>3. N \in 0 .. N
          BY <1>3
        <4>4. ~ run[N].ok
          BY <4>1, <4>2, <4>3, ItemsStuck DEF run, N
        <4> QED BY <1>4, <2>5, <3>7, <4>4 DEF Reads, w, x
      <3>8. CASE Complete(s, q, c)
        <4>1. q <= N /\ S!ReadItem(s, rec, run[k]) = S!Got(S!DefaultAs(rule, rec), After(at, w))
          BY <2>8, <3>2, <3>5, <3>6, <3>8 DEF FinalTaken, c, N, value
        <4>2. k + 1 \in 1 .. N /\ (k + 1) - 1 = k /\ k + 1 \in 0 .. N /\ N \in k + 1 .. N
          BY <1>3, <3>4, <4>1
        <4>3. run[k + 1] = S!Got(S!DefaultAs(rule, rec), After(at, w))
          BY <2>5, <4>1, <4>2
        <4>4. ~ run[k + 1].open
          BY <4>3 DEF S!Got
        <4>5. run[N] = run[k + 1]
          BY <4>2, <4>4, ItemsReadStays DEF run, N
        <4>6. x.ok
          BY <2>5, <4>3, <4>5 DEF S!Got
        <4> QED BY <1>4, <2>5, <2>10, <3>3, <3>8, <4>3, <4>5, <4>6 DEF Reads, w, x, bad
      <3> QED BY <3>7, <3>8
    <2> QED BY <2>9, <2>10
  <1> QED BY <1>3, <1>8, <1>9

-----------------------------------------------------------------------------
(* A rule of rules. *)
LEMMA ThreeTokens ==
    ASSUME NEW X, NEW a \in Seq(X), NEW b \in Seq(X), NEW c \in Seq(X),
           Len(a) = 1, Len(b) = 1, Len(c) = 1
    PROVE  /\ a \o b \o c \in Seq(X) /\ Len(a \o b \o c) = 3
           /\ (a \o b \o c)[1] = a[1] /\ (a \o b \o c)[2] = b[1] /\ (a \o b \o c)[3] = c[1]
  <1> DEFINE e == a \o b
  <1>1. e \in Seq(X) /\ Len(e) = 2 /\ e[1] = a[1] /\ e[2] = b[1]
    BY TwoTokens
  <1> HIDE DEF e
  <1>2. e \o c \in Seq(X) /\ Len(e \o c) = 3
    <2>1. e \o c \in Seq(X) /\ Len(e \o c) = Len(e) + Len(c)
      BY <1>1, JoinedLength
    <2>2. Len(e) + Len(c) = 3
      BY <1>1
    <2> QED BY <2>1, <2>2
  <1>3. (e \o c)[1] = e[1] /\ (e \o c)[2] = e[2]
    <2>1. 1 \in 1 .. Len(e) /\ 2 \in 1 .. Len(e)
      BY <1>1
    <2> QED BY <1>1, <2>1, FirstOfTwo
  <1>4. 1 \in 1 .. Len(c) /\ Len(e) + 1 = 3
    <2>1. Len(c) = 1 /\ Len(e) = 2
      BY <1>1
    <2> QED BY <2>1
  <1>5. (e \o c)[Len(e) + 1] = c[1]
    BY <1>1, <1>4, SecondOfTwo, SMTT(40)
  <1> QED BY <1>1, <1>2, <1>3, <1>4, <1>5 DEF e

HeadTokens(rule) == S!Tok("type", 1) \o S!Tok("mode", rule.mode) \o S!Tok("length", Len(rule.rules))

LogicalWrites(rule, written) == [i \in DOMAIN rule.rules |-> written[rule.rules[i]]]

LEMMA HeadWritten ==
    ASSUME NEW rule, rule.mode \in {"and", "or"}, Len(rule.rules) \in Nat
    PROVE  LET w == S!Wrote(HeadTokens(rule))
           IN  /\ w \in Writes /\ w.end = "ok" /\ Len(w.tokens) = 3
               /\ w.tokens[1].t = "type" /\ w.tokens[1].v = 1
               /\ w.tokens[2].t = "mode" /\ w.tokens[2].v = rule.mode
               /\ w.tokens[3].t = "length" /\ w.tokens[3].v = Len(rule.rules)
  <1> DEFINE a == S!Tok("type", 1)
             b == S!Tok("mode", rule.mode)
             c == S!Tok("length", Len(rule.rules))
  <1>1. {"type", "mode", "length"} \subseteq S!Tags
    BY DEF S!Tags
  <1>2. 1 \in Stuff /\ rule.mode \in Stuff /\ Len(rule.rules) \in Stuff
    BY DEF Stuff
  <1>3. /\ a \in Seq(Token) /\ Len(a) = 1 /\ a[1].t = "type" /\ a[1].v = 1
        /\ b \in Seq(Token) /\ Len(b) = 1 /\ b[1].t = "mode" /\ b[1].v = rule.mode
        /\ c \in Seq(Token) /\ Len(c) = 1 /\ c[1].t = "length" /\ c[1].v = Len(rule.rules)
    BY <1>1, <1>2, TokType
  <1>4. HeadTokens(rule) = a \o b \o c
    BY DEF HeadTokens
  <1> HIDE DEF a, b, c
  <1>5. /\ a \o b \o c \in Seq(Token) /\ Len(a \o b \o c) = 3
        /\ (a \o b \o c)[1] = a[1] /\ (a \o b \o c)[2] = b[1] /\ (a \o b \o c)[3] = c[1]
    BY <1>3, ThreeTokens, SMTT(40)
  <1>6. HeadTokens(rule) \in Seq(Token) /\ Len(HeadTokens(rule)) = 3
        /\ HeadTokens(rule)[1] = a[1] /\ HeadTokens(rule)[2] = b[1] /\ HeadTokens(rule)[3] = c[1]
    BY <1>4, <1>5
  <1>7. S!Wrote(HeadTokens(rule)) \in Writes /\ S!Wrote(HeadTokens(rule)).end = "ok"
        /\ S!Wrote(HeadTokens(rule)).tokens = HeadTokens(rule)
    BY <1>6, WroteType
  <1> QED BY <1>3, <1>6, <1>7

LEMMA BoolWritten ==
    ASSUME NEW b \in BOOLEAN
    PROVE  LET w == S!Wrote(S!Tok("bool", b))
           IN  /\ w \in Writes /\ w.end = "ok" /\ Len(w.tokens) = 1
               /\ w.tokens[1].t = "bool" /\ w.tokens[1].v = b
  <1>1. "bool" \in S!Tags /\ b \in Stuff
    BY DEF S!Tags, Stuff
  <1> QED BY <1>1, TokType, WroteType

LEMMA LongerInTurn ==
    ASSUME NEW first \in Writes, NEW writes \in Seq(Writes), Len(first.tokens) >= 1
    PROVE  S!InTurn(first, writes) \in Writes /\ Len(S!InTurn(first, writes).tokens) >= 1
  <1> DEFINE N == Len(writes)
             T == Turns(first, writes)
             Good == {k \in 0 .. N : Len(T[k].tokens) >= 1}
  <1>1. N \in Nat
    OBVIOUS
  <1>2. /\ S!InTurn(first, writes) = T[N] /\ T[0] = first
        /\ \A k \in 0 .. N : T[k] \in Writes
        /\ \A k \in 0 .. N - 1 : T[k + 1] = S!Then(T[k], writes[k + 1]) /\ writes[k + 1] \in Writes
    BY TurnsFacts
  <1> HIDE DEF T, N
  <1>3. 0 \in Good
    BY <1>1, <1>2
  <1>4. ASSUME NEW k \in 0 .. N - 1, k \in Good
        PROVE  k + 1 \in Good
    <2>1. k + 1 \in 0 .. N /\ k \in 0 .. N
      BY <1>1
    <2>2. T[k] \in Writes /\ writes[k + 1] \in Writes /\ Len(T[k].tokens) >= 1
      BY <1>2, <1>4, <2>1
    <2>3. Len(S!Then(T[k], writes[k + 1]).tokens) >= 1
      BY <2>2, LongerStill
    <2> QED BY <1>2, <2>1, <2>3
  <1> HIDE DEF Good
  <1>5. 0 .. N \subseteq Good
    BY <1>1, <1>3, <1>4, InductionUpTo
  <1>6. N \in 0 .. N
    BY <1>1
  <1> QED BY <1>2, <1>5, <1>6 DEF Good

LEMMA FirstPlaced ==
    ASSUME NEW first \in Writes, NEW writes \in Seq(Writes),
           NEW X, NEW s \in Seq(X), NEW at \in Nat \ {0}, Part(s, at, S!InTurn(first, writes))
    PROVE  /\ Part(s, at, first)
           /\ Complete(s, at, S!InTurn(first, writes)) => Complete(s, at, first)
  <1> DEFINE N == Len(writes)
             T == Turns(first, writes)
             Good == {k \in 0 .. N : Complete(s, at, T[k]) => Complete(s, at, first)}
  <1>1. N \in Nat
    OBVIOUS
  <1>2. S!InTurn(first, writes) = T[N] /\ T[0] = first
    BY TurnsFacts
  <1>3. /\ \A k \in 0 .. N : Part(s, at, T[k])
        /\ \A k \in 0 .. N - 1 : Complete(s, at, T[k + 1]) => Complete(s, at, T[k])
    BY TurnsPlaced DEF TurnsAreAt
  <1> HIDE DEF T, N
  <1>4. 0 \in Good
    BY <1>1, <1>2
  <1>5. ASSUME NEW k \in 0 .. N - 1, k \in Good
        PROVE  k + 1 \in Good
    <2>1. k + 1 \in 0 .. N
      BY <1>1
    <2> QED BY <1>3, <1>5, <2>1
  <1> HIDE DEF Good
  <1>6. 0 .. N \subseteq Good
    BY <1>1, <1>4, <1>5, InductionUpTo
  <1>7. 0 \in 0 .. N /\ N \in 0 .. N
    BY <1>1
  <1> QED BY <1>2, <1>3, <1>6, <1>7 DEF Good

LEMMA LogicalFacts ==
    ASSUME NEW B, NEW rule, S!IsLogical(rule, B), NEW written,
           \A r \in B : written[r] \in Writes /\ Len(written[r].tokens) >= 1
    PROVE  /\ rule.invert \in BOOLEAN /\ rule.rules \in Seq(B) /\ Len(rule.rules) \in Nat
           /\ DOMAIN rule.rules = 1 .. Len(rule.rules)
           /\ LogicalWrites(rule, written) \in Seq(Writes)
           /\ Len(LogicalWrites(rule, written)) = Len(rule.rules)
           /\ \A i \in 1 .. Len(rule.rules) :
                 rule.rules[i] \in B /\ LogicalWrites(rule, written)[i] = written[rule.rules[i]]
  <1>1. rule.invert \in BOOLEAN /\ rule.rules \in Seq(B)
    BY DEF S!IsLogical
  <1>2. Len(rule.rules) \in Nat /\ DOMAIN rule.rules = 1 .. Len(rule.rules)
        /\ \A i \in 1 .. Len(rule.rules) : rule.rules[i] \in B
    BY <1>1
  <1>3. LogicalWrites(rule, written) = [i \in 1 .. Len(rule.rules) |-> written[rule.rules[i]]]
    BY <1>2 DEF LogicalWrites
  <1>4. LogicalWrites(rule, written) \in Seq(Writes)
        /\ Len(LogicalWrites(rule, written)) = Len(rule.rules)
    BY <1>2, <1>3
  <1> QED BY <1>1, <1>2, <1>3, <1>4

LEMMA LogicalWritten ==
    ASSUME NEW B, NEW rule, S!IsLogical(rule, B), NEW written,
           \A r \in B : written[r] \in Writes /\ Len(written[r].tokens) >= 1
    PROVE  /\ S!WriteLogicalRule(rule, written) \in Writes
           /\ Len(S!WriteLogicalRule(rule, written).tokens) >= 1
  <1>1. CASE rule.mode \notin {"and", "or"}
    <2>1. S!WriteLogicalRule(rule, written) = [end |-> "panic", tokens |-> S!Tok("type", 1)]
      BY <1>1 DEF S!WriteLogicalRule
    <2>2. S!Tok("type", 1) \in Seq(Token) /\ Len(S!Tok("type", 1)) = 1
      <3>1. 1 \in {0, 1}
        OBVIOUS
      <3> QED BY <3>1, TypeWritten
    <2> DEFINE tokens == S!Tok("type", 1)
               w == [end |-> "panic", tokens |-> tokens]
    <2>3. tokens \in Seq(Token) /\ Len(tokens) = 1
      BY <2>2
    <2> HIDE DEF tokens
    <2>4. w \in Writes /\ w.tokens = tokens
      BY <2>3 DEF Writes
    <2>5. Len(w.tokens) >= 1
      BY <2>3, <2>4
    <2> QED BY <2>1, <2>4, <2>5 DEF tokens
  <1>2. CASE rule.mode \in {"and", "or"}
    <2> DEFINE first == S!Wrote(HeadTokens(rule))
               ws == LogicalWrites(rule, written)
               last == S!Wrote(S!Tok("bool", rule.invert))
    <2>1. S!WriteLogicalRule(rule, written) = S!Then(S!InTurn(first, ws), last)
      BY <1>2 DEF S!WriteLogicalRule, HeadTokens, LogicalWrites
    <2>2. ws \in Seq(Writes) /\ rule.invert \in BOOLEAN /\ Len(rule.rules) \in Nat
      BY LogicalFacts
    <2>3. first \in Writes /\ Len(first.tokens) = 3 /\ last \in Writes
      BY <1>2, <2>2, HeadWritten, BoolWritten
    <2> HIDE DEF first, ws, last
    <2>4. S!InTurn(first, ws) \in Writes /\ Len(S!InTurn(first, ws).tokens) >= 1
      BY <2>2, <2>3, LongerInTurn
    <2> QED BY <2>1, <2>3, <2>4, LongerStill
  <1> QED BY <1>1, <1>2

-----------------------------------------------------------------------------
(* What is read behind the length. *)
LogicalTaken(s, rule, r) ==
    IF r.ok /\ S!Is(s, r.at, "bool")
    THEN S!Got([type |-> "logical", mode |-> rule.mode, rules |-> r.value,
                invert |-> s[r.at].v], r.at + 1)
    ELSE S!Failed

(* The tokens in front of the rules are all there, or it is not read.      *)
LEMMA HeadRead ==
    ASSUME NEW rule, rule.mode \in {"and", "or"}, Len(rule.rules) \in Nat, NEW rec, NEW inner,
           NEW X, NEW s \in Seq(X), NEW at \in Nat \ {0}, Part(s, at, S!Wrote(HeadTokens(rule)))
    PROVE  /\ ~ Complete(s, at, S!Wrote(HeadTokens(rule))) => S!ReadRule(s, at, rec, inner) = S!Failed
           /\ Complete(s, at, S!Wrote(HeadTokens(rule))) =>
                S!ReadRule(s, at, rec, inner) =
                  LogicalTaken(s, rule, S!ReadRules(s, After(at, S!Wrote(HeadTokens(rule))),
                                                    Len(rule.rules), inner))
  <1> DEFINE w == S!Wrote(HeadTokens(rule))
             x == S!ReadRule(s, at, rec, inner)
             n == Len(w.tokens)
             N == Len(s)
  <1>1. /\ w \in Writes /\ w.end = "ok" /\ n = 3
        /\ w.tokens[1].t = "type" /\ w.tokens[1].v = 1
        /\ w.tokens[2].t = "mode" /\ w.tokens[2].v = rule.mode
        /\ w.tokens[3].t = "length" /\ w.tokens[3].v = Len(rule.rules)
    BY HeadWritten
  <1>2. Part(s, at, w) /\ N \in Nat
    OBVIOUS
  <1> HIDE DEF n, w
  <1>3. /\ Complete(s, at, w) <=> at - 1 + n <= N
        /\ After(at, w) = at + n
    BY <1>1 DEF n, Complete, After, N
  <1>4. /\ 1 \in 1 .. n /\ 2 \in 1 .. n /\ 3 \in 1 .. n
        /\ (at - 1) + 1 = at /\ at - 1 + 2 = at + 1 /\ at - 1 + 3 = at + 2 /\ at - 1 + n = at + 2
        /\ at + n = at + 3 /\ at + 1 + 1 = at + 2 /\ at + 1 + 2 = at + 3
    BY <1>1
  <1>5. /\ at - 1 + 1 <= N => /\ s[at - 1 + 1] = w.tokens[1]
                              /\ \A t : S!Is(s, at - 1 + 1, t) <=> w.tokens[1].t = t
        /\ ~ (at - 1 + 1 <= N) => \A t : ~ S!Is(s, at - 1 + 1, t)
    BY <1>1, <1>2, <1>4, TokenAt DEF n, N
  <1>6. /\ at - 1 + 2 <= N => /\ s[at - 1 + 2] = w.tokens[2]
                              /\ \A t : S!Is(s, at - 1 + 2, t) <=> w.tokens[2].t = t
        /\ ~ (at - 1 + 2 <= N) => \A t : ~ S!Is(s, at - 1 + 2, t)
    BY <1>1, <1>2, <1>4, TokenAt DEF n, N
  <1>7. /\ at - 1 + 3 <= N => /\ s[at - 1 + 3] = w.tokens[3]
                              /\ \A t : S!Is(s, at - 1 + 3, t) <=> w.tokens[3].t = t
        /\ ~ (at - 1 + 3 <= N) => \A t : ~ S!Is(s, at - 1 + 3, t)
    BY <1>1, <1>2, <1>4, TokenAt DEF n, N
  <1> HIDE DEF N
  <1>8. CASE ~ (at <= N)
    <2>1. ~ S!Is(s, at, "type")
      BY <1>4, <1>5, <1>8
    <2>2. x = S!Failed
      BY <2>1 DEF S!ReadRule
    <2>3. ~ Complete(s, at, w)
      BY <1>2, <1>3, <1>4, <1>8
    <2> QED BY <2>2, <2>3 DEF w
  <1>9. CASE at <= N
    <2>1. S!Is(s, at, "type") /\ s[at].v = 1
      BY <1>1, <1>4, <1>5, <1>9
    <2>2. x = S!ReadLogicalRule(s, at + 1, inner)
      BY <2>1 DEF S!ReadRule
    <2>3. CASE ~ (at + 2 <= N)
      <3>1. ~ S!Is(s, at + 1 + 1, "length")
        BY <1>4, <1>7, <2>3
      <3>2. x = S!Failed
        BY <2>2, <3>1 DEF S!ReadLogicalRule
      <3>3. ~ Complete(s, at, w)
        BY <1>3, <1>4, <2>3
      <3> QED BY <3>2, <3>3 DEF w
    <2>4. CASE at + 2 <= N
      <3>1. at + 1 <= N
        BY <1>2, <2>4
      <3>2. /\ S!Is(s, at + 1, "mode") /\ s[at + 1].v = rule.mode
            /\ S!Is(s, at + 1 + 1, "length") /\ s[at + 1 + 1].v = Len(rule.rules)
        BY <1>1, <1>4, <1>6, <1>7, <2>4, <3>1
      <3>3. /\ x = LET r == S!ReadRules(s, at + 1 + 2, s[at + 1 + 1].v, inner)
                   IN  IF r.ok /\ S!Is(s, r.at, "bool")
                       THEN S!Got([type |-> "logical", mode |-> s[at + 1].v, rules |-> r.value,
                                   invert |-> s[r.at].v], r.at + 1)
                       ELSE S!Failed
        BY <2>2, <3>2 DEF S!ReadLogicalRule
      <3>4. x = LogicalTaken(s, rule, S!ReadRules(s, at + 1 + 2, Len(rule.rules), inner))
        BY <3>2, <3>3 DEF LogicalTaken
      <3>5. Complete(s, at, w) /\ After(at, w) = at + 1 + 2
        BY <1>3, <1>4, <2>4
      <3> QED BY <3>4, <3>5 DEF w
    <2> QED BY <2>3, <2>4
  <1> QED BY <1>8, <1>9

(* A rule of rules is read right, if each of those it may have is.         *)
EachIsWritten(B, written) ==
    \A r \in B : written[r] \in Writes /\ Len(written[r].tokens) >= 1

EachIsRead(s, B, written, inner, as, G, rec, depth) ==
    \A r \in B, p \in 1 .. Len(s) + 1 :
       Part(s, p, written[r]) => Reads(s, p, written[r], inner[p], as[r], rec /\ r \in G, depth)

LogicalReads(s, at, rule, written, inner, as, G, rec, depth) ==
    Reads(s, at, S!WriteLogicalRule(rule, written), S!ReadRule(s, at, rec, inner),
          S!LogicalAs(rule, as), rec /\ \E i \in DOMAIN rule.rules : rule.rules[i] \in G, depth)

LEMMA LogicalRead ==
    ASSUME NEW B, NEW rule, S!IsLogical(rule, B), NEW written, EachIsWritten(B, written),
           NEW as, NEW G, NEW rec \in BOOLEAN,
           NEW X, NEW s \in Seq(X), NEW at \in Nat \ {0}, at <= Len(s) + 1,
           NEW inner, NEW depth \in Nat, EachIsRead(s, B, written, inner, as, G, rec, depth),
           Part(s, at, S!WriteLogicalRule(rule, written))
    PROVE  LogicalReads(s, at, rule, written, inner, as, G, rec, depth + 1)
  <1> DEFINE w == S!WriteLogicalRule(rule, written)
             x == S!ReadRule(s, at, rec, inner)
             n == Len(rule.rules)
             N == Len(s)
             value == S!LogicalAs(rule, as)
             bad == rec /\ \E i \in DOMAIN rule.rules : rule.rules[i] \in G
  <1>1. /\ rule.invert \in BOOLEAN /\ n \in Nat /\ DOMAIN rule.rules = 1 .. n
        /\ LogicalWrites(rule, written) \in Seq(Writes)
        /\ Len(LogicalWrites(rule, written)) = n
        /\ \A i \in 1 .. n :
              rule.rules[i] \in B /\ LogicalWrites(rule, written)[i] = written[rule.rules[i]]
    BY LogicalFacts DEF EachIsWritten
  <1>2. w \in Writes /\ Part(s, at, w) /\ N \in Nat
    BY LogicalWritten DEF EachIsWritten
  <1>3. CASE rule.mode \notin {"and", "or"}
    <2> DEFINE tokens == S!Tok("type", 1)
    <2>1. w = [end |-> "panic", tokens |-> tokens]
      BY <1>3 DEF S!WriteLogicalRule
    <2>2. Len(tokens) = 1 /\ tokens[1].t = "type" /\ tokens[1].v = 1
      <3>1. 1 \in {0, 1}
        OBVIOUS
      <3> QED BY <3>1, TypeWritten
    <2> HIDE DEF w, tokens
    <2>3. w.end = "panic" /\ w.tokens = tokens
      BY <2>1
    <2>4. ~ Complete(s, at, w)
      BY <2>3 DEF Complete
    <2>5. N <= at
      <3>1. N <= at - 1 + Len(w.tokens) /\ Len(w.tokens) = 1
        BY <1>2, <2>2, <2>3 DEF Part, N
      <3> QED BY <1>2, <3>1
    <2>6. ~ S!Is(s, at + 1, "mode")
      <3>1. N < at + 1
        BY <1>2, <2>5
      <3> QED BY <3>1, NothingBehind DEF N
    <2>7. x = S!Failed
      <3>1. CASE ~ S!Is(s, at, "type")
        BY <3>1 DEF S!ReadRule
      <3>2. CASE S!Is(s, at, "type")
        <4>1. at <= N
          <5>1. ~ (N < at)
            BY <3>2, NothingBehind DEF N
          <5> QED BY <1>2, <5>1
        <4>2. s[at].v = 1
          <5>1. 1 \in 1 .. Len(w.tokens) /\ (at - 1) + 1 = at
            <6> DEFINE m == Len(w.tokens)
            <6>1. m = 1
              BY <2>2, <2>3
            <6> HIDE DEF m
            <6>2. 1 \in 1 .. m /\ (at - 1) + 1 = at
              BY <6>1
            <6> QED BY <6>2 DEF m
          <5>2. at - 1 + 1 <= N => s[at - 1 + 1] = w.tokens[1]
            BY <1>2, <5>1, TokenAt DEF N
          <5> QED BY <2>2, <2>3, <4>1, <5>1, <5>2
        <4>3. x = S!ReadLogicalRule(s, at + 1, inner)
          BY <3>2, <4>2 DEF S!ReadRule
        <4> QED BY <2>6, <4>3 DEF S!ReadLogicalRule
      <3> QED BY <3>1, <3>2
    <2> HIDE DEF x
    <2>8. ~ x.ok
      BY <2>7 DEF S!Failed
    <2> QED BY <2>4, <2>8 DEF Reads, w, x, LogicalReads
  <1>4. CASE rule.mode \in {"and", "or"}
    <2> DEFINE first == S!Wrote(HeadTokens(rule))
               ws == LogicalWrites(rule, written)
               last == S!Wrote(S!Tok("bool", rule.invert))
               body == S!InTurn(first, ws)
               from == After(at, first)
               r == S!ReadRules(s, from, n, inner)
               q == After(at, body)
               vals == [i \in 1 .. n |-> as[rule.rules[i]]]
               Bad == {i \in 1 .. n : rec /\ rule.rules[i] \in G}
    <2>1. w = S!Then(body, last)
      BY <1>4 DEF S!WriteLogicalRule, HeadTokens, LogicalWrites
    <2>2. /\ first \in Writes /\ first.end = "ok" /\ Len(first.tokens) = 3
          /\ last \in Writes /\ last.end = "ok" /\ Len(last.tokens) = 1
          /\ last.tokens[1].t = "bool" /\ last.tokens[1].v = rule.invert
      BY <1>1, <1>4, HeadWritten, BoolWritten
    <2>3. ws \in Seq(Writes) /\ Len(ws) = n
      BY <1>1
    <2>4. \A i \in 1 .. n : rule.rules[i] \in B /\ ws[i] = written[rule.rules[i]]
      BY <1>1
    <2>5. /\ value = [type |-> "logical", mode |-> rule.mode, invert |-> rule.invert, rules |-> vals]
          /\ bad <=> \E i \in 1 .. n : i \in Bad
      BY <1>1 DEF S!LogicalAs
    <2> HIDE DEF first, ws, last, w, x, n, N, value, bad
    <2>6. body \in Writes
      <3>1. Len(first.tokens) >= 1
        BY <2>2
      <3> QED BY <2>2, <2>3, <3>1, LongerInTurn
    <2>7. /\ Part(s, at, body)
          /\ body.end = "ok" => Part(s, q, last) /\ After(at, w) = After(q, last)
          /\ Complete(s, at, w) <=> Complete(s, at, body) /\ Complete(s, q, last)
      <3> HIDE DEF body
      <3> QED BY <1>2, <2>1, <2>2, <2>6, PartThen
    <2>8. Part(s, at, first) /\ (Complete(s, at, body) => Complete(s, at, first))
      BY <2>2, <2>3, <2>7, FirstPlaced
    <2>9. /\ ~ Complete(s, at, first) => x = S!Failed
          /\ Complete(s, at, first) => x = LogicalTaken(s, rule, r)
      BY <1>1, <1>4, <2>8, HeadRead DEF first, x, n
    <2>10. CASE ~ Complete(s, at, first)
      <3>1. ~ x.ok /\ ~ Complete(s, at, w)
        BY <2>7, <2>8, <2>9, <2>10 DEF S!Failed
      <3> QED BY <3>1 DEF Reads, w, x, LogicalReads
    <2>11. CASE Complete(s, at, first)
      <3>1. \A i \in 1 .. Len(ws), p \in 1 .. Len(s) + 1 :
               Part(s, p, ws[i]) => Reads(s, p, ws[i], inner[p], vals[i], i \in Bad, depth)
        <4>1. ASSUME NEW i \in 1 .. n, NEW p \in 1 .. Len(s) + 1, Part(s, p, ws[i])
              PROVE  Reads(s, p, ws[i], inner[p], vals[i], i \in Bad, depth)
          <5>1. Part(s, p, written[rule.rules[i]]) /\ rule.rules[i] \in B
            BY <2>4, <4>1
          <5>2. Reads(s, p, written[rule.rules[i]], inner[p], as[rule.rules[i]],
                      rec /\ rule.rules[i] \in G, depth)
            BY <5>1 DEF EachIsRead
          <5>3. vals[i] = as[rule.rules[i]] /\ (i \in Bad <=> rec /\ rule.rules[i] \in G)
            OBVIOUS
          <5> QED BY <2>4, <5>2, <5>3 DEF Reads
        <4> QED BY <2>3, <4>1
      <3> HIDE DEF vals, Bad
      <3>2. /\ Reads(s, at, body, r, [i \in 1 .. n |-> vals[i]], \E i \in 1 .. n : i \in Bad, depth)
            /\ r.ok \/ r = S!Failed
        <4> HIDE DEF body, from, r
        <4>1. /\ Reads(s, at, S!InTurn(first, ws),
                       S!ReadRules(s, After(at, first), Len(ws), inner),
                       [i \in 1 .. Len(ws) |-> vals[i]], \E i \in 1 .. Len(ws) : i \in Bad, depth)
              /\ \/ S!ReadRules(s, After(at, first), Len(ws), inner).ok
                 \/ S!ReadRules(s, After(at, first), Len(ws), inner) = S!Failed
          <5>1. Part(s, at, S!InTurn(first, ws))
            BY <2>7 DEF body
          <5>2. EachReads(s, ws, inner, vals, Bad, depth)
            BY <3>1 DEF EachReads
          <5>3. AllRead(s, at, first, ws, inner, vals, Bad, depth)
            BY <2>2, <2>3, <2>11, <5>1, <5>2, RulesInTurn
          <5> QED BY <5>3 DEF AllRead
        <4> QED BY <2>3, <4>1 DEF body, from, r
      <3>3. [i \in 1 .. n |-> vals[i]] = vals
        BY DEF vals
      <3>4. /\ r.ok => Complete(s, at, body) /\ ~ bad /\ r = S!Got(vals, q)
            /\ Complete(s, at, body) /\ ~ bad /\ Len(body.tokens) <= depth => r.ok
        BY <2>5, <3>2, <3>3 DEF Reads
      <3>5. x = LogicalTaken(s, rule, r)
        BY <2>9, <2>11
      <3> HIDE DEF body, r
      <3>6. body.end = "ok" => q \in Nat \ {0} /\ 1 \in 1 .. Len(last.tokens) /\ (q - 1) + 1 = q
                               /\ (Complete(s, q, last) <=> q <= N) /\ After(q, last) = q + 1
        <4>1. q \in Nat \ {0}
          BY <1>2, <2>6, PlaceFacts
        <4> HIDE DEF q
        <4>2. q - 1 + 1 = q
          BY <4>1
        <4> QED BY <2>2, <4>1, <4>2 DEF Complete, After, N
      <3>7. body.end = "ok" => /\ q <= N => /\ s[q].v = rule.invert
                                            /\ S!Is(s, q, "bool")
                               /\ ~ (q <= N) => ~ S!Is(s, q, "bool")
        <4>1. ASSUME body.end = "ok" PROVE /\ q <= N => /\ s[q].v = rule.invert
                                                        /\ S!Is(s, q, "bool")
                                           /\ ~ (q <= N) => ~ S!Is(s, q, "bool")
          <5> HIDE DEF q
          <5>1. Part(s, q, last) /\ q \in Nat \ {0} /\ 1 \in 1 .. Len(last.tokens) /\ q - 1 + 1 = q
            BY <2>7, <3>6, <4>1
          <5>2. /\ q - 1 + 1 <= N => /\ s[q - 1 + 1] = last.tokens[1]
                                     /\ \A t : S!Is(s, q - 1 + 1, t) <=> last.tokens[1].t = t
                /\ ~ (q - 1 + 1 <= N) => \A t : ~ S!Is(s, q - 1 + 1, t)
            BY <2>2, <5>1, TokenAt DEF N
          <5> QED BY <2>2, <5>1, <5>2
        <4> QED BY <4>1
      <3>8. Len(w.tokens) <= depth + 1 /\ body.end = "ok" => Len(body.tokens) <= depth
        <4> DEFINE a == Len(body.tokens)
                   b == Len(w.tokens)
        <4>1. body.end = "ok" => w.tokens = body.tokens \o last.tokens
          <5> HIDE DEF a, b
          <5> QED BY <2>1, <2>2, <2>6, ThenFacts
        <4>2. body.tokens \in Seq(Token) /\ last.tokens \in Seq(Token)
          BY <2>2, <2>6 DEF Writes
        <4>3. Len(body.tokens \o last.tokens) = a + Len(last.tokens) /\ a \in Nat
          BY <4>2, JoinedLength
        <4>4. body.end = "ok" => b = a + 1
          BY <2>2, <4>1, <4>3
        <4> HIDE DEF a, b
        <4>5. b <= depth + 1 /\ body.end = "ok" => a <= depth
          BY <4>3, <4>4
        <4> QED BY <4>5 DEF a, b
      <3>9. ASSUME x.ok
            PROVE  Complete(s, at, w) /\ ~ bad /\ x = S!Got(value, After(at, w))
        <4>1. r.ok /\ S!Is(s, r.at, "bool")
          BY <3>5, <3>9 DEF LogicalTaken, S!Failed
        <4>2. Complete(s, at, body) /\ ~ bad /\ r = S!Got(vals, q) /\ body.end = "ok"
          BY <3>4, <4>1 DEF Complete
        <4>3. r.at = q /\ r.value = vals
          BY <4>2 DEF S!Got
        <4>4. q <= N /\ s[q].v = rule.invert
          BY <3>7, <4>1, <4>2, <4>3
        <4>5. Complete(s, at, w) /\ After(at, w) = q + 1
          BY <2>7, <3>6, <4>2, <4>4
        <4>6. x = S!Got([type |-> "logical", mode |-> rule.mode, rules |-> vals,
                         invert |-> rule.invert], q + 1)
          BY <3>5, <4>1, <4>3, <4>4 DEF LogicalTaken
        <4> QED BY <2>5, <4>2, <4>5, <4>6
      <3>10. ASSUME Complete(s, at, w), ~ bad, Len(w.tokens) <= depth + 1
             PROVE  x.ok
        <4>1. Complete(s, at, body) /\ Complete(s, q, last) /\ body.end = "ok"
          BY <2>7, <3>10 DEF Complete
        <4>2. r.ok /\ r = S!Got(vals, q)
          BY <3>4, <3>8, <3>10, <4>1
        <4>3. r.at = q
          BY <4>2 DEF S!Got
        <4>4. S!Is(s, q, "bool")
          BY <3>6, <3>7, <4>1
        <4> QED BY <3>5, <4>2, <4>3, <4>4 DEF LogicalTaken, S!Got
      <3> QED BY <3>9, <3>10 DEF Reads, w, x, value, bad, LogicalReads
    <2> QED BY <2>10, <2>11
  <1> QED BY <1>3, <1>4

-----------------------------------------------------------------------------
(* What a rule comes to, if it nests to one depth more. *)
LEMMA LevelFacts ==
    ASSUME MaxDepth \in Nat, NEW m \in 0 .. MaxDepth, NEW rule \in Nested[m], NEW v, NEW rec
    PROVE  /\ rule \in Rules
           /\ \/ /\ S!IsDefault(rule)
                 /\ RulesWritten(v)[m][rule] = S!WriteDefaultRule(rule, v)
                 /\ RulesAs(rec)[m][rule] = S!DefaultAs(rule, rec)
                 /\ rule \in Guarded[m] <=> "AdGuardDomain" \in DOMAIN rule.items
              \/ /\ m # 0 /\ S!IsLogical(rule, Nested[m - 1])
                 /\ RulesWritten(v)[m][rule] = S!WriteLogicalRule(rule, RulesWritten(v)[m - 1])
                 /\ RulesAs(rec)[m][rule] = S!LogicalAs(rule, RulesAs(rec)[m - 1])
                 /\ rule \in Guarded[m] <=>
                      \E i \in DOMAIN rule.rules : rule.rules[i] \in Guarded[m - 1]
  <1>1. CASE m = 0
    <2>1. rule \in Rules /\ S!IsDefault(rule)
      BY <1>1, NestedFunction
    <2>2. rule.type = "default"
      BY <2>1 DEF S!IsDefault
    <2>3. RulesWritten(v)[0][rule] = S!WriteDefaultRule(rule, v)
      <3>1. RulesWritten(v)[0] = [r \in Rules |-> S!WriteDefaultRule(r, v)]
        BY RulesWrittenFunction
      <3> QED BY <2>1, <3>1
    <2>4. RulesAs(rec)[0][rule] = S!DefaultAs(rule, rec)
      <3>1. RulesAs(rec)[0] = [r \in Rules |-> S!DefaultAs(r, rec)]
        BY RulesAsFunction
      <3> QED BY <2>1, <3>1
    <2>5. rule \in Guarded[0] <=> "AdGuardDomain" \in DOMAIN rule.items
      BY <2>1, <2>2, GuardedFunction
    <2> QED BY <1>1, <2>1, <2>3, <2>4, <2>5
  <1>2. CASE m # 0
    <2>1. m \in 1 .. MaxDepth
      BY <1>2
    <2>2. rule \in Rules /\ (S!IsDefault(rule) \/ S!IsLogical(rule, Nested[m - 1]))
      BY <2>1, NestedFunction
    <2>3. RulesWritten(v)[m] =
                  [r \in Rules |->
                      IF r.type = "default" THEN S!WriteDefaultRule(r, v)
                      ELSE S!WriteLogicalRule(r, RulesWritten(v)[m - 1])]
      BY <2>1, RulesWrittenFunction
    <2>4. RulesAs(rec)[m] =
                  [r \in Rules |->
                      IF r.type = "default" THEN S!DefaultAs(r, rec)
                      ELSE S!LogicalAs(r, RulesAs(rec)[m - 1])]
      BY <2>1, RulesAsFunction
    <2>5. Guarded[m] =
                  {r \in Rules :
                      IF r.type = "default" THEN "AdGuardDomain" \in DOMAIN r.items
                      ELSE \E i \in DOMAIN r.rules : r.rules[i] \in Guarded[m - 1]}
      BY <2>1, GuardedFunction
    <2>6. CASE S!IsDefault(rule)
      <3>1. rule.type = "default"
        BY <2>6 DEF S!IsDefault
      <3> QED BY <2>2, <2>3, <2>4, <2>5, <2>6, <3>1
    <2>7. CASE S!IsLogical(rule, Nested[m - 1])
      <3>1. rule.type # "default"
        BY <2>7 DEF S!IsLogical
      <3> QED BY <1>2, <2>2, <2>3, <2>4, <2>5, <2>7, <3>1
    <2> QED BY <2>2, <2>6, <2>7
  <1> QED BY <1>1, <1>2

RuleWrites(m, v) ==
    \A r \in Nested[m] : RulesWritten(v)[m][r] \in Writes /\ Len(RulesWritten(v)[m][r].tokens) >= 1

RuleReads(s, m, v, rec, depth) ==
    \A r \in Nested[m], p \in 1 .. Len(s) + 1 :
       Part(s, p, RulesWritten(v)[m][r]) =>
         Reads(s, p, RulesWritten(v)[m][r], ReadAt(s, rec)[depth][p], RulesAs(rec)[m][r],
               rec /\ r \in Guarded[m], depth)

LEMMA RulesWriteAll ==
    ASSUME MaxDepth \in Nat, NEW v
    PROVE  \A m \in 0 .. MaxDepth : RuleWrites(m, v)
  <1> DEFINE Good == {m \in 0 .. MaxDepth : RuleWrites(m, v)}
  <1>1. ASSUME NEW m \in 0 .. MaxDepth, m # 0 => RuleWrites(m - 1, v), NEW r \in Nested[m]
        PROVE  RulesWritten(v)[m][r] \in Writes /\ Len(RulesWritten(v)[m][r].tokens) >= 1
    <2>1. /\ r \in Rules
          /\ \/ S!IsDefault(r) /\ RulesWritten(v)[m][r] = S!WriteDefaultRule(r, v)
             \/ /\ m # 0 /\ S!IsLogical(r, Nested[m - 1])
                /\ RulesWritten(v)[m][r] = S!WriteLogicalRule(r, RulesWritten(v)[m - 1])
      BY <1>1, LevelFacts
    <2>2. CASE S!IsDefault(r) /\ RulesWritten(v)[m][r] = S!WriteDefaultRule(r, v)
      BY <2>1, <2>2, DefaultWritten
    <2>3. CASE /\ m # 0 /\ S!IsLogical(r, Nested[m - 1])
               /\ RulesWritten(v)[m][r] = S!WriteLogicalRule(r, RulesWritten(v)[m - 1])
      <3> DEFINE B == Nested[m - 1]
                 written == RulesWritten(v)[m - 1]
      <3>1. EachIsWritten(B, written)
        BY <1>1, <2>3 DEF RuleWrites, EachIsWritten
      <3> HIDE DEF B, written
      <3>2. S!IsLogical(r, B)
        BY <2>3 DEF B
      <3>3. S!WriteLogicalRule(r, written) \in Writes
            /\ Len(S!WriteLogicalRule(r, written).tokens) >= 1
        BY <3>1, <3>2, LogicalWritten DEF EachIsWritten
      <3> QED BY <2>3, <3>3 DEF written
    <2> QED BY <2>1, <2>2, <2>3
  <1>2. 0 \in Good
    BY <1>1 DEF RuleWrites
  <1>3. ASSUME NEW m \in 0 .. MaxDepth - 1, m \in Good
        PROVE  m + 1 \in Good
    <2>1. m + 1 \in 0 .. MaxDepth /\ (m + 1) - 1 = m
      OBVIOUS
    <2>2. m + 1 # 0 => RuleWrites((m + 1) - 1, v)
      BY <1>3, <2>1
    <2>3. RuleWrites(m + 1, v)
      BY <1>1, <2>1, <2>2 DEF RuleWrites
    <2> QED BY <2>1, <2>3
  <1> HIDE DEF Good
  <1>4. 0 .. MaxDepth \subseteq Good
    BY <1>2, <1>3, InductionUpTo
  <1> QED BY <1>4 DEF Good

LEMMA RulesReadAll ==
    ASSUME MaxDepth \in Nat, NEW v, NEW rec \in BOOLEAN, NEW X, NEW s \in Seq(X)
    PROVE  \A m \in 0 .. MaxDepth : \A depth \in 0 .. Len(s) : RuleReads(s, m, v, rec, depth)
  <1> DEFINE N == Len(s)
             Good == {m \in 0 .. MaxDepth : \A depth \in 0 .. N : RuleReads(s, m, v, rec, depth)}
  <1>1. N \in Nat /\ DOMAIN s = 1 .. N
    OBVIOUS
  <1>2. /\ ReadAt(s, rec)[0] = [at \in 1 .. N + 1 |-> S!Failed]
        /\ \A k \in 1 .. N :
              ReadAt(s, rec)[k] =
                [at \in 1 .. N + 1 |-> S!ReadRule(s, at, rec, ReadAt(s, rec)[k - 1])]
    <2>1. Len(s) \in Nat
      BY <1>1
    <2>2. /\ ReadAt(s, rec)[0] = [at \in 1 .. Len(s) + 1 |-> S!Failed]
          /\ \A k \in 1 .. Len(s) :
               ReadAt(s, rec)[k] =
                 [at \in 1 .. Len(s) + 1 |->
                    S!ReadRule(s, at, rec, ReadAt(s, rec)[k - 1])]
      BY <2>1, ReadAtFunction
    <2> QED BY <2>2, Zenon
  <1>3. ASSUME NEW m \in 0 .. MaxDepth,
               m # 0 => \A depth \in 0 .. N : RuleReads(s, m - 1, v, rec, depth),
               NEW r \in Nested[m], NEW depth \in 0 .. N, NEW p \in 1 .. N + 1,
               Part(s, p, RulesWritten(v)[m][r])
        PROVE  Reads(s, p, RulesWritten(v)[m][r], ReadAt(s, rec)[depth][p], RulesAs(rec)[m][r],
                     rec /\ r \in Guarded[m], depth)
    <2> DEFINE w == RulesWritten(v)[m][r]
               x == ReadAt(s, rec)[depth][p]
               value == RulesAs(rec)[m][r]
               bad == rec /\ r \in Guarded[m]
    <2>1. w \in Writes /\ Len(w.tokens) >= 1
      BY RulesWriteAll DEF RuleWrites
    <2>2. CASE depth = 0
      <3>1. x = S!Failed
        BY <1>2, <2>2
      <3> HIDE DEF w, x, value, bad
      <3>2. ~ (Len(w.tokens) <= depth)
        <4> DEFINE n == Len(w.tokens)
        <4>1. n \in Nat /\ n >= 1
          BY <2>1 DEF Writes
        <4> HIDE DEF n
        <4>2. ~ (n <= depth)
          BY <2>2, <4>1
        <4> QED BY <4>2 DEF n
      <3>3. ~ x.ok
        BY <3>1 DEF S!Failed
      <3> QED BY <3>2, <3>3 DEF Reads, w, x, value, bad
    <2>3. CASE depth # 0
      <3> DEFINE inside == depth - 1
                 inner == ReadAt(s, rec)[inside]
      <3>1. depth \in 1 .. N /\ inside \in 0 .. N /\ inside \in Nat /\ inside + 1 = depth
        BY <1>1, <2>3
      <3>2. x = S!ReadRule(s, p, rec, inner)
        BY <1>2, <3>1
      <3>3. p \in Nat \ {0} /\ p <= N + 1
        BY <1>1
      <3> HIDE DEF x, inside
      <3>4. /\ r \in Rules
            /\ \/ /\ S!IsDefault(r)
                  /\ w = S!WriteDefaultRule(r, v)
                  /\ value = S!DefaultAs(r, rec)
                  /\ r \in Guarded[m] <=> "AdGuardDomain" \in DOMAIN r.items
               \/ /\ m # 0 /\ S!IsLogical(r, Nested[m - 1])
                  /\ w = S!WriteLogicalRule(r, RulesWritten(v)[m - 1])
                  /\ value = S!LogicalAs(r, RulesAs(rec)[m - 1])
                  /\ r \in Guarded[m] <=>
                       \E i \in DOMAIN r.rules : r.rules[i] \in Guarded[m - 1]
        BY LevelFacts, ZenonT(30)
      <3> HIDE DEF w, value, bad
      <3>5. Part(s, p, w)
        BY <1>3 DEF w
      <3>6. CASE /\ S!IsDefault(r)
                 /\ w = S!WriteDefaultRule(r, v)
                 /\ value = S!DefaultAs(r, rec)
                 /\ r \in Guarded[m] <=> "AdGuardDomain" \in DOMAIN r.items
        <4>1. Reads(s, p, S!WriteDefaultRule(r, v), S!ReadRule(s, p, rec, inner),
                    S!DefaultAs(r, rec), rec /\ "AdGuardDomain" \in DOMAIN r.items, depth)
          <5> HIDE DEF inner
          <5> QED BY <3>3, <3>4, <3>5, <3>6, DefaultRead DEF N
        <4>2. bad <=> rec /\ "AdGuardDomain" \in DOMAIN r.items
          BY <3>6 DEF bad
        <4>3. Reads(s, p, w, x, value, bad, depth)
          BY <3>2, <3>6, <4>1, <4>2 DEF Reads
        <4> QED BY <4>3 DEF w, x, value, bad, Reads
      <3>7. CASE /\ m # 0 /\ S!IsLogical(r, Nested[m - 1])
                 /\ w = S!WriteLogicalRule(r, RulesWritten(v)[m - 1])
                 /\ value = S!LogicalAs(r, RulesAs(rec)[m - 1])
                 /\ r \in Guarded[m] <=>
                      \E i \in DOMAIN r.rules : r.rules[i] \in Guarded[m - 1]
        <4> DEFINE B == Nested[m - 1]
                   written == RulesWritten(v)[m - 1]
                   as == RulesAs(rec)[m - 1]
                   G == Guarded[m - 1]
        <4>1. m - 1 \in 0 .. MaxDepth
          BY <3>7
        <4>2. EachIsWritten(B, written)
          BY <4>1, RulesWriteAll DEF RuleWrites, EachIsWritten
        <4>3. EachIsRead(s, B, written, inner, as, G, rec, inside)
          BY <1>3, <3>1, <3>7 DEF RuleReads, N, EachIsRead
        <4> HIDE DEF B, written, as, G, inner
        <4>4. S!IsLogical(r, B) /\ w = S!WriteLogicalRule(r, written)
              /\ value = S!LogicalAs(r, as)
              /\ (r \in Guarded[m] <=> \E i \in DOMAIN r.rules : r.rules[i] \in G)
          BY <3>7 DEF B, written, as, G
        <4>5. Part(s, p, S!WriteLogicalRule(r, written))
          BY <3>5, <4>4
        <4>6. LogicalReads(s, p, r, written, inner, as, G, rec, inside + 1)
          BY <3>1, <3>3, <4>2, <4>3, <4>4, <4>5, LogicalRead DEF N
        <4>7. bad <=> rec /\ \E i \in DOMAIN r.rules : r.rules[i] \in G
          BY <4>4 DEF bad
        <4>8. Reads(s, p, w, x, value, bad, depth)
          BY <3>1, <3>2, <4>4, <4>6, <4>7 DEF Reads, LogicalReads
        <4> QED BY <4>8 DEF w, x, value, bad, Reads
      <3> QED BY <3>4, <3>6, <3>7
    <2> QED BY <2>2, <2>3
  <1> HIDE DEF N
  <1>4. 0 \in Good
    BY <1>3 DEF RuleReads, N
  <1>5. ASSUME NEW m \in 0 .. MaxDepth - 1, m \in Good
        PROVE  m + 1 \in Good
    <2>1. m + 1 \in 0 .. MaxDepth /\ (m + 1) - 1 = m
      OBVIOUS
    <2>2. m + 1 # 0 => \A depth \in 0 .. N : RuleReads(s, (m + 1) - 1, v, rec, depth)
      BY <1>5, <2>1
    <2>3. \A depth \in 0 .. N : RuleReads(s, m + 1, v, rec, depth)
      BY <1>3, <2>1, <2>2 DEF RuleReads, N
    <2> QED BY <2>1, <2>3
  <1> HIDE DEF Good
  <1>6. 0 .. MaxDepth \subseteq Good
    BY <1>4, <1>5, InductionUpTo
  <1> QED BY <1>6 DEF Good, N

-----------------------------------------------------------------------------
(* Files: what was written of some rules, or of none.                      *)
FileHead(rs, v) == S!Tok("magic", "SRS") \o S!Tok("version", v) \o S!Tok("length", Len(rs))

FileWrites(rs, v) == [i \in DOMAIN rs |-> S!WriteRule(v)[rs[i]]]

FileReads(s, rs, v, rec) ==
    LET x   == S!ReadFile(s, rec)
        bad == rec /\ \E i \in DOMAIN rs : rs[i] \in S!AdGuarded
    IN  /\ x.ok => /\ Complete(s, 1, S!Written(rs, v)) /\ ~ bad
                   /\ x = S!Got([i \in DOMAIN rs |-> S!RuleAs(rec)[rs[i]]],
                                After(1, S!Written(rs, v)))
        /\ Complete(s, 1, S!Written(rs, v)) /\ ~ bad => x.ok
        /\ x.ok \/ x = S!Failed

LEMMA FileHeadWritten ==
    ASSUME NEW rs, NEW v \in S!Versions, Len(rs) \in Nat
    PROVE  LET w == S!Wrote(FileHead(rs, v))
           IN  /\ w \in Writes /\ w.end = "ok" /\ Len(w.tokens) = 3
               /\ w.tokens[1].t = "magic" /\ w.tokens[1].v = "SRS"
               /\ w.tokens[2].t = "version" /\ w.tokens[2].v = v
               /\ w.tokens[3].t = "length" /\ w.tokens[3].v = Len(rs)
  <1> DEFINE a == S!Tok("magic", "SRS")
             b == S!Tok("version", v)
             c == S!Tok("length", Len(rs))
  <1>1. {"magic", "version", "length"} \subseteq S!Tags
    BY DEF S!Tags
  <1>2. "SRS" \in Stuff /\ v \in Stuff /\ Len(rs) \in Stuff
    BY DEF Stuff, S!Versions
  <1>3. /\ a \in Seq(Token) /\ Len(a) = 1 /\ a[1].t = "magic" /\ a[1].v = "SRS"
        /\ b \in Seq(Token) /\ Len(b) = 1 /\ b[1].t = "version" /\ b[1].v = v
        /\ c \in Seq(Token) /\ Len(c) = 1 /\ c[1].t = "length" /\ c[1].v = Len(rs)
    BY <1>1, <1>2, TokType
  <1>4. FileHead(rs, v) = a \o b \o c
    BY DEF FileHead
  <1> HIDE DEF a, b, c
  <1>5. /\ a \o b \o c \in Seq(Token) /\ Len(a \o b \o c) = 3
        /\ (a \o b \o c)[1] = a[1] /\ (a \o b \o c)[2] = b[1] /\ (a \o b \o c)[3] = c[1]
    <2>1. /\ a \in Seq(Token) /\ b \in Seq(Token) /\ c \in Seq(Token)
          /\ Len(a) = 1 /\ Len(b) = 1 /\ Len(c) = 1
      BY <1>3
    <2> QED BY <2>1, ThreeTokens, SMTT(40)
  <1>6. FileHead(rs, v) \in Seq(Token) /\ Len(FileHead(rs, v)) = 3
        /\ FileHead(rs, v)[1] = a[1] /\ FileHead(rs, v)[2] = b[1] /\ FileHead(rs, v)[3] = c[1]
    BY <1>4, <1>5
  <1>7. S!Wrote(FileHead(rs, v)) \in Writes /\ S!Wrote(FileHead(rs, v)).end = "ok"
        /\ S!Wrote(FileHead(rs, v)).tokens = FileHead(rs, v)
    BY <1>6, WroteType
  <1> QED BY <1>3, <1>6, <1>7

LEMMA FileHeadRead ==
    ASSUME NEW rs, NEW v \in S!Versions, Len(rs) \in Nat, NEW rec,
           NEW X, NEW s \in Seq(X), Part(s, 1, S!Wrote(FileHead(rs, v)))
    PROVE  /\ ~ Complete(s, 1, S!Wrote(FileHead(rs, v))) => S!ReadFile(s, rec) = S!Failed
           /\ Complete(s, 1, S!Wrote(FileHead(rs, v))) =>
                S!ReadFile(s, rec) =
                  S!ReadRules(s, After(1, S!Wrote(FileHead(rs, v))), Len(rs), S!ReadRuleAt(s, rec))
  <1> DEFINE w == S!Wrote(FileHead(rs, v))
             x == S!ReadFile(s, rec)
             n == Len(w.tokens)
             N == Len(s)
  <1>1. /\ w \in Writes /\ w.end = "ok" /\ n = 3
        /\ w.tokens[1].t = "magic" /\ w.tokens[1].v = "SRS"
        /\ w.tokens[2].t = "version" /\ w.tokens[2].v = v
        /\ w.tokens[3].t = "length" /\ w.tokens[3].v = Len(rs)
    BY FileHeadWritten
  <1>2. Part(s, 1, w) /\ N \in Nat
    OBVIOUS
  <1> HIDE DEF n, w
  <1>3. /\ Complete(s, 1, w) <=> 3 <= N
        /\ After(1, w) = 4
    <2>1. 1 - 1 + n = 3 /\ 1 + n = 4
      BY <1>1
    <2> QED BY <1>1, <2>1 DEF n, Complete, After, N
  <1>4. /\ 1 \in 1 .. n /\ 2 \in 1 .. n /\ 3 \in 1 .. n /\ 1 \in Nat \ {0}
        /\ 1 - 1 + 1 = 1 /\ 1 - 1 + 2 = 2 /\ 1 - 1 + 3 = 3
    BY <1>1
  <1>5. 1 - 1 + 1 <= N => /\ s[1 - 1 + 1] = w.tokens[1]
                          /\ \A t : S!Is(s, 1 - 1 + 1, t) <=> w.tokens[1].t = t
    BY <1>1, <1>2, <1>4, TokenAt DEF n, N
  <1>6. 1 - 1 + 2 <= N => /\ s[1 - 1 + 2] = w.tokens[2]
                          /\ \A t : S!Is(s, 1 - 1 + 2, t) <=> w.tokens[2].t = t
    BY <1>1, <1>2, <1>4, TokenAt DEF n, N
  <1>7. /\ 1 - 1 + 3 <= N => /\ s[1 - 1 + 3] = w.tokens[3]
                             /\ \A t : S!Is(s, 1 - 1 + 3, t) <=> w.tokens[3].t = t
        /\ ~ (1 - 1 + 3 <= N) => \A t : ~ S!Is(s, 1 - 1 + 3, t)
    BY <1>1, <1>2, <1>4, TokenAt DEF n, N
  <1> HIDE DEF N
  <1>8. CASE ~ (3 <= N)
    <2>1. ~ S!Is(s, 3, "length")
      BY <1>4, <1>7, <1>8
    <2> QED BY <1>3, <1>8, <2>1 DEF S!ReadFile, S!HasHeader, w
  <1>9. CASE 3 <= N
    <2>1. 1 <= N /\ 2 <= N
      BY <1>2, <1>9
    <2>2. S!Is(s, 1, "magic") /\ s[1].v = "SRS"
      BY <1>1, <1>4, <1>5, <2>1
    <2>3. S!Is(s, 2, "version") /\ s[2].v = v /\ v <= 3
      BY <1>1, <1>4, <1>6, <2>1 DEF S!Versions
    <2>4. S!Is(s, 3, "length") /\ s[3].v = Len(rs)
      BY <1>1, <1>4, <1>7, <1>9
    <2>5. x = S!ReadRules(s, 4, Len(rs), S!ReadRuleAt(s, rec))
      BY <2>2, <2>3, <2>4 DEF S!ReadFile, S!HasHeader
    <2> QED BY <1>3, <1>9, <2>5 DEF w
  <1> QED BY <1>8, <1>9

LEMMA WrittenFacts ==
    ASSUME MaxDepth \in Nat, Rules \subseteq S!Nesting,
           NEW rs \in Seq(Rules), NEW v \in S!Versions
    PROVE  /\ Len(rs) \in Nat /\ DOMAIN rs = 1 .. Len(rs)
           /\ \A i \in 1 .. Len(rs) : rs[i] \in Nested[MaxDepth]
           /\ FileWrites(rs, v) \in Seq(Writes) /\ Len(FileWrites(rs, v)) = Len(rs)
           /\ \A i \in 1 .. Len(rs) : FileWrites(rs, v)[i] = S!WriteRule(v)[rs[i]]
           /\ S!Written(rs, v) = S!InTurn(S!Wrote(FileHead(rs, v)), FileWrites(rs, v))
           /\ S!Written(rs, v) \in Writes
  <1> DEFINE first == S!Wrote(FileHead(rs, v))
             ws == FileWrites(rs, v)
             n == Len(rs)
  <1>1. /\ n \in Nat /\ DOMAIN rs = 1 .. n /\ MaxDepth \in 0 .. MaxDepth
        /\ \A i \in 1 .. n : rs[i] \in Nested[MaxDepth]
    <2>1. S!Nesting = Nested[MaxDepth]
      BY NestedFunction
    <2>2. \A i \in 1 .. n : rs[i] \in Rules
      OBVIOUS
    <2> QED BY <2>1, <2>2
  <1>2. ws \in Seq(Writes) /\ Len(ws) = n /\ \A i \in 1 .. n : ws[i] = S!WriteRule(v)[rs[i]]
    <2>1. ws = [i \in 1 .. n |-> S!WriteRule(v)[rs[i]]]
      BY <1>1 DEF FileWrites
    <2>2. S!WriteRule(v) = RulesWritten(v)[MaxDepth]
      BY RulesWrittenFunction
    <2>3. \A i \in 1 .. n : S!WriteRule(v)[rs[i]] \in Writes
      BY <1>1, <2>2, RulesWriteAll DEF RuleWrites
    <2> HIDE DEF ws
    <2> QED BY <1>1, <2>1, <2>3
  <1>3. S!Written(rs, v) = S!InTurn(first, ws)
    BY DEF S!Written, FileHead, FileWrites
  <1>4. first \in Writes /\ Len(first.tokens) = 3
    BY <1>1, FileHeadWritten
  <1> HIDE DEF first, ws
  <1>5. S!InTurn(first, ws) \in Writes
    <2>1. Len(first.tokens) >= 1
      BY <1>4
    <2> QED BY <1>2, <1>4, <2>1, LongerInTurn
  <1> QED BY <1>1, <1>2, <1>3, <1>5 DEF first, ws

LEMMA FileRead ==
    ASSUME MaxDepth \in Nat, Rules \subseteq S!Nesting,
           NEW rs \in Seq(Rules), NEW v \in S!Versions, NEW rec \in BOOLEAN,
           NEW X, NEW s \in Seq(X), Part(s, 1, S!Written(rs, v))
    PROVE  FileReads(s, rs, v, rec)
  <1> DEFINE first == S!Wrote(FileHead(rs, v))
             ws == FileWrites(rs, v)
             w == S!Written(rs, v)
             x == S!ReadFile(s, rec)
             n == Len(rs)
             N == Len(s)
             inner == S!ReadRuleAt(s, rec)
             vals == [i \in 1 .. n |-> S!RuleAs(rec)[rs[i]]]
             Bad == {i \in 1 .. n : rec /\ rs[i] \in S!AdGuarded}
             bad == rec /\ \E i \in DOMAIN rs : rs[i] \in S!AdGuarded
  <1>1. /\ n \in Nat /\ N \in Nat /\ DOMAIN rs = 1 .. n /\ MaxDepth \in 0 .. MaxDepth
        /\ N \in 0 .. N
        /\ \A i \in 1 .. n : rs[i] \in Nested[MaxDepth]
    BY WrittenFacts
  <1>2. /\ S!WriteRule(v) = RulesWritten(v)[MaxDepth] /\ S!RuleAs(rec) = RulesAs(rec)[MaxDepth]
        /\ S!AdGuarded = Guarded[MaxDepth] /\ inner = ReadAt(s, rec)[N]
    BY <1>1, RulesWrittenFunction, RulesAsFunction, GuardedFunction, ReadAtFunction
  <1>3. w = S!InTurn(first, ws)
    BY WrittenFacts
  <1>4. /\ first \in Writes /\ first.end = "ok" /\ Len(first.tokens) = 3
    BY <1>1, FileHeadWritten
  <1>5. ws \in Seq(Writes) /\ Len(ws) = n /\ \A i \in 1 .. n : ws[i] = S!WriteRule(v)[rs[i]]
    BY WrittenFacts
  <1>6. \A i \in 1 .. n, p \in 1 .. N + 1 :
           Part(s, p, ws[i]) => Reads(s, p, ws[i], inner[p], vals[i], i \in Bad, N)
    <2>1. ASSUME NEW i \in 1 .. n, NEW p \in 1 .. N + 1, Part(s, p, ws[i])
          PROVE  Reads(s, p, ws[i], inner[p], vals[i], i \in Bad, N)
      <3> DEFINE r == rs[i]
      <3>1. r \in Nested[MaxDepth] /\ ws[i] = RulesWritten(v)[MaxDepth][r]
        BY <1>1, <1>2, <1>5
      <3>2. RuleReads(s, MaxDepth, v, rec, N)
        BY <1>1, RulesReadAll
      <3>3. Reads(s, p, RulesWritten(v)[MaxDepth][r], ReadAt(s, rec)[N][p],
                  RulesAs(rec)[MaxDepth][r], rec /\ r \in Guarded[MaxDepth], N)
        BY <2>1, <3>1, <3>2 DEF RuleReads
      <3>4. vals[i] = RulesAs(rec)[MaxDepth][r] /\ (i \in Bad <=> rec /\ r \in Guarded[MaxDepth])
        BY <1>2
      <3> QED BY <1>2, <3>1, <3>3, <3>4 DEF Reads
    <2> QED BY <2>1
  <1>7. /\ [i \in 1 .. n |-> vals[i]] = [i \in DOMAIN rs |-> S!RuleAs(rec)[rs[i]]]
        /\ bad <=> \E i \in 1 .. n : i \in Bad
    BY <1>1
  <1> HIDE DEF first, ws, w, x, n, N, inner, vals, Bad, bad
  <1>8. w \in Writes
    BY WrittenFacts DEF w
  <1>9. Part(s, 1, S!InTurn(first, ws)) /\ 1 \in Nat \ {0}
    BY <1>3 DEF w
  <1>10. Part(s, 1, first) /\ (Complete(s, 1, S!InTurn(first, ws)) => Complete(s, 1, first))
    BY <1>4, <1>5, <1>9, FirstPlaced
  <1>11. /\ ~ Complete(s, 1, first) => x = S!Failed
         /\ Complete(s, 1, first) => x = S!ReadRules(s, After(1, first), n, inner)
    BY <1>1, <1>10, FileHeadRead DEF first, x, n, inner
  <1>12. CASE ~ Complete(s, 1, first)
    <2>1. x = S!Failed /\ ~ Complete(s, 1, w) /\ ~ x.ok
      BY <1>3, <1>10, <1>11, <1>12 DEF S!Failed
    <2> QED BY <2>1 DEF FileReads, w, x
  <1>13. CASE Complete(s, 1, first)
    <2>1. EachReads(s, ws, inner, vals, Bad, N)
      BY <1>5, <1>6 DEF EachReads, N
    <2>2. AllRead(s, 1, first, ws, inner, vals, Bad, N)
      BY <1>1, <1>4, <1>5, <1>9, <1>13, <2>1, RulesInTurn
    <2>3. /\ Reads(s, 1, S!InTurn(first, ws), x, [i \in 1 .. n |-> vals[i]],
                   \E i \in 1 .. n : i \in Bad, N)
          /\ x.ok \/ x = S!Failed
      BY <1>5, <1>11, <1>13, <2>2 DEF AllRead
    <2>4. /\ x.ok => /\ Complete(s, 1, w) /\ ~ bad
                     /\ x = S!Got([i \in DOMAIN rs |-> S!RuleAs(rec)[rs[i]]], After(1, w))
          /\ Complete(s, 1, w) /\ ~ bad /\ Len(w.tokens) <= N => x.ok
      BY <1>3, <1>7, <2>3 DEF Reads
    <2>5. Complete(s, 1, w) => Len(w.tokens) <= N
      <3> DEFINE m == Len(w.tokens)
      <3>1. m \in Nat /\ (Complete(s, 1, w) => 1 - 1 + m <= N)
        BY <1>8 DEF Writes, Complete, N
      <3> HIDE DEF m
      <3>2. Complete(s, 1, w) => m <= N
        BY <1>1, <3>1
      <3> QED BY <3>2 DEF m
    <2> QED BY <2>3, <2>4, <2>5 DEF FileReads, w, x, bad
  <1> QED BY <1>12, <1>13

(* A rule that begins with something unknown is not read.                  *)
LEMMA UnknownRefused ==
    ASSUME NEW X, NEW s \in Seq(X), NEW at \in Nat, S!IsUnknown(s, at), NEW rec, NEW inner
    PROVE  ~ S!ReadRule(s, at, rec, inner).ok
  <1> DEFINE x == S!ReadRule(s, at, rec, inner)
             N == Len(s)
             run == ItemsRead(s, at + 1, rec)
             none == [type |-> "default", items |-> << >>, invert |-> FALSE]
  <1>1. ~ S!Failed.ok
    BY DEF S!Failed
  <1>2. CASE ~ S!Is(s, at, "type")
    BY <1>1, <1>2 DEF S!ReadRule
  <1>3. CASE S!Is(s, at, "type") /\ s[at].v \notin {0, 1}
    BY <1>1, <1>3 DEF S!ReadRule
  <1>4. CASE /\ S!Is(s, at, "type") /\ s[at].v = 0 /\ S!Is(s, at + 1, "item")
             /\ s[at + 1].v \notin S!Range(S!ItemOrder)
    <2>1. x = S!ReadItems(s, at + 1, rec)
      BY <1>4 DEF S!ReadRule
    <2>2. N \in Nat
      OBVIOUS
    <2>3. x = run[N] /\ run[0] = S!Open(none, at + 1)
      BY <2>1, <2>2, ItemsReadFunction
    <2> HIDE DEF x, run, none
    <2>4. run[0].open /\ run[0].ok = FALSE /\ run[0].at = at + 1
      BY <2>3 DEF S!Open
    <2>5. ~ S!Is(s, at + 1, "final") /\ S!Refuses(s, at + 1, rec)
      BY <1>4 DEF S!Is, S!Refuses
    <2>6. S!ReadItem(s, rec, run[0]) = S!Failed
      BY <2>4, <2>5 DEF S!ReadItem
    <2>7. 0 \in 0 .. N /\ N \in 0 .. N
      BY <2>2
    <2>8. ~ run[N].ok
      BY <2>4, <2>6, <2>7, ItemsStuck DEF run
    <2> QED BY <2>3, <2>8 DEF x
  <1>5. CASE /\ S!Is(s, at, "type") /\ s[at].v = 1 /\ S!Is(s, at + 1, "mode")
             /\ s[at + 1].v \notin {"and", "or"}
    <2>1. x = S!ReadLogicalRule(s, at + 1, inner)
      BY <1>5 DEF S!ReadRule
    <2>2. x = S!Failed
      BY <1>5, <2>1 DEF S!ReadLogicalRule
    <2> QED BY <1>1, <2>2
  <1> QED BY <1>2, <1>3, <1>4, <1>5 DEF S!IsUnknown

LEMMA RulesReadStop ==
    ASSUME NEW s, NEW at, NEW n \in Nat \ {0}, NEW inner, ~ inner[at].ok
    PROVE  S!ReadRules(s, at, n, inner) = S!Failed
  <1> DEFINE run == RulesRead(s, at, n, inner)
             Good == {k \in 0 .. n - 1 : run[k + 1] = S!Failed}
  <1>1. n \in Nat /\ n - 1 \in Nat
    OBVIOUS
  <1>2. /\ S!ReadRules(s, at, n, inner) = run[n] /\ run[0] = S!Got(<< >>, at)
        /\ \A k \in 1 .. n : run[k] = S!ReadNext(s, run[k - 1], inner)
    BY <1>1, RulesReadFunction
  <1> HIDE DEF run
  <1>3. 0 \in Good
    <2>1. 0 + 1 \in 1 .. n /\ 0 \in 0 .. n - 1 /\ 1 - 1 = 0
      BY <1>1
    <2>2. run[0].ok /\ run[0].at = at
      BY <1>2 DEF S!Got
    <2>3. run[1] = S!ReadNext(s, run[0], inner)
      BY <1>2, <2>1
    <2>4. run[1] = S!Failed
      BY <2>2, <2>3 DEF S!ReadNext, S!NoMore
    <2> QED BY <2>1, <2>4
  <1>4. ASSUME NEW k \in 0 .. (n - 1) - 1, k \in Good
        PROVE  k + 1 \in Good
    <2>1. k + 1 \in 0 .. n - 1 /\ (k + 1) + 1 \in 1 .. n /\ ((k + 1) + 1) - 1 = k + 1
      BY <1>1
    <2>2. run[k + 1] = S!Failed
      BY <1>4
    <2>3. run[(k + 1) + 1] = S!ReadNext(s, run[k + 1], inner)
      BY <1>2, <2>1
    <2>4. run[(k + 1) + 1] = S!Failed
      BY <2>2, <2>3 DEF S!ReadNext, S!NoMore, S!Failed
    <2> QED BY <2>1, <2>4
  <1> HIDE DEF Good
  <1>5. 0 .. n - 1 \subseteq Good
    BY <1>1, <1>3, <1>4, InductionUpTo
  <1>6. n - 1 \in 0 .. n - 1 /\ (n - 1) + 1 = n
    BY <1>1
  <1> QED BY <1>2, <1>5, <1>6 DEF Good

LEMMA ForeignRefused ==
    ASSUME NEW s \in Foreign, NEW rec
    PROVE  /\ s \in Seq(S!Range(s)) /\ \A i \in DOMAIN s : s[i].t \in S!Tags
           /\ S!ReadFile(s, rec) = S!Failed
  <1> DEFINE N == Len(s)
             inner == S!ReadRuleAt(s, rec)
  <1>1. /\ s \in Seq(S!Range(s)) /\ \A i \in DOMAIN s : s[i].t \in S!Tags
        /\ S!HasHeader(s) => s[3].v \in Nat \ {0} /\ S!IsUnknown(s, 4)
    BY BoundsAssumption DEF S!RulesAssumption, S!IsForeign
  <1>2. CASE ~ S!HasHeader(s)
    BY <1>1, <1>2 DEF S!ReadFile
  <1>3. CASE S!HasHeader(s)
    <2>1. N \in Nat /\ DOMAIN s = 1 .. N
      BY <1>1
    <2>2. 3 \in DOMAIN s
      BY <1>3 DEF S!HasHeader, S!Is
    <2>3. N \in 1 .. N /\ 4 \in 1 .. N + 1
      BY <2>1, <2>2
    <2>4. inner = ReadAt(s, rec)[N]
          /\ ReadAt(s, rec)[N] =
               [at \in 1 .. N + 1 |-> S!ReadRule(s, at, rec, ReadAt(s, rec)[N - 1])]
      BY <2>1, <2>3, ReadAtFunction
    <2>5. inner[4] = S!ReadRule(s, 4, rec, ReadAt(s, rec)[N - 1])
      BY <2>3, <2>4
    <2> HIDE DEF N, inner
    <2>6. 4 \in Nat
      OBVIOUS
    <2>7. ~ inner[4].ok
      BY <1>1, <1>3, <2>5, <2>6, UnknownRefused
    <2>8. S!ReadRules(s, 4, s[3].v, inner) = S!Failed
      BY <1>1, <1>3, <2>7, RulesReadStop
    <2> QED BY <1>1, <1>3, <2>8 DEF S!ReadFile, inner
  <1> QED BY <1>2, <1>3

-----------------------------------------------------------------------------
(* The invariant: the file is none of a rule set, or a part of what the    *)
(* rules of the last Write come to, and all of it if it did not fail.      *)
FileState ==
    \/ ended = "never" /\ file \in Foreign /\ rules = << >> /\ version = 3
    \/ /\ pc # "write" /\ rules \in RuleSets /\ version \in S!Versions
       /\ ended \in {"ok", "error", "panic", "killed"}
       /\ file \in Seq(Token) /\ Part(file, 1, S!Written(rules, version))
       /\ ended = "ok" => Complete(file, 1, S!Written(rules, version))

SrsInv ==
    /\ pc \in {"write", "read", "done"} /\ recover \in BOOLEAN
    /\ FileState
    /\ pc = "write" => ended = "never"
    /\ back = IF pc = "done" THEN S!ReadFile(file, recover) ELSE S!Failed

LEMMA RuleSetFacts ==
    /\ MaxDepth \in Nat /\ Rules \subseteq S!Nesting
    /\ \A rs \in RuleSets : rs \in Seq(Rules)
  BY BoundsAssumption DEF S!RulesAssumption

LEMMA WriteKeeps ==
    ASSUME SrsInv, NEW rs \in RuleSets, NEW v \in S!Versions, S!Write(rs, v)
    PROVE  SrsInv'
  <1> DEFINE w == S!Written(rs, v)
  <1>1. /\ pc = "write" /\ rules' = rs /\ version' = v /\ pc' = "read"
        /\ back' = back /\ recover' = recover
        /\ \/ ended' = w.end /\ w.end = "ok" /\ file' = w.tokens
           \/ /\ ended' = IF w.end = "ok" THEN "killed" ELSE w.end
              /\ \E n \in 0 .. Len(w.tokens) : file' = SubSeq(w.tokens, 1, n)
    BY DEF S!Write
  <1>2. w \in Writes
    <2>1. rs \in Seq(Rules) /\ MaxDepth \in Nat /\ Rules \subseteq S!Nesting
      BY RuleSetFacts
    <2> QED BY <2>1, WrittenFacts
  <1> HIDE DEF w
  <1>3. w.tokens \in Seq(Token) /\ Len(w.tokens) \in Nat /\ w.end \in {"ok", "error", "panic"}
    BY <1>2 DEF Writes
  <1>4. PICK n \in 0 .. Len(w.tokens) :
           /\ file' = SubSeq(w.tokens, 1, n)
           /\ \/ ended' = "ok" /\ w.end = "ok" /\ n = Len(w.tokens)
              \/ ended' \in {"error", "panic", "killed"}
    <2>1. CASE ended' = w.end /\ w.end = "ok" /\ file' = w.tokens
      <3>1. SubSeq(w.tokens, 1, Len(w.tokens)) = w.tokens /\ Len(w.tokens) \in 0 .. Len(w.tokens)
        BY <1>3
      <3> QED BY <2>1, <3>1
    <2>2. CASE /\ ended' = IF w.end = "ok" THEN "killed" ELSE w.end
               /\ \E n \in 0 .. Len(w.tokens) : file' = SubSeq(w.tokens, 1, n)
      <3>1. ended' \in {"error", "panic", "killed"}
        BY <1>3, <2>2
      <3> QED BY <2>2, <3>1
    <2> QED BY <1>1, <2>1, <2>2
  <1>5. /\ file' \in Seq(Token) /\ Len(file') = n
        /\ \A j \in 1 .. n : file'[j] = w.tokens[j]
    BY <1>3, <1>4
  <1>6. Part(file', 1, w)
    <2>1. ASSUME NEW j \in 1 .. Len(w.tokens), 1 - 1 + j <= Len(file')
          PROVE  file'[1 - 1 + j] = w.tokens[j]
      <3>1. 1 - 1 + j = j /\ j \in 1 .. n
        BY <1>3, <1>5, <2>1
      <3> QED BY <1>5, <3>1
    <2>2. Len(file') <= 1 - 1 + Len(w.tokens)
      BY <1>3, <1>4, <1>5
    <2> QED BY <2>1, <2>2 DEF Part
  <1>7. ended' = "ok" => Complete(file', 1, w)
    <2>1. ended' = "ok" => w.end = "ok" /\ n = Len(w.tokens)
      BY <1>4
    <2>2. n = Len(w.tokens) => 1 - 1 + Len(w.tokens) <= Len(file')
      BY <1>3, <1>5
    <2> QED BY <2>1, <2>2 DEF Complete
  <1>8. ended' \in {"ok", "error", "panic", "killed"}
    BY <1>4
  <1> QED BY <1>1, <1>5, <1>6, <1>7, <1>8 DEF SrsInv, FileState, w

LEMMA LeaveForeignKeeps ==
    ASSUME SrsInv, S!LeaveForeign
    PROVE  SrsInv'
  BY DEF SrsInv, FileState, S!LeaveForeign

LEMMA ReadKeeps ==
    ASSUME SrsInv, NEW rec \in BOOLEAN, S!Read(rec)
    PROVE  SrsInv'
  <1>1. /\ pc = "read" /\ recover' = rec /\ back' = S!ReadFile(file, rec) /\ pc' = "done"
        /\ rules' = rules /\ version' = version /\ file' = file /\ ended' = ended
    BY DEF S!Read
  <1>2. FileState'
    BY <1>1 DEF SrsInv, FileState
  <1> QED BY <1>1, <1>2 DEF SrsInv

LEMMA SrsStays ==
    ASSUME [Next]_vars
    PROVE  [S!Next]_(S!vars)
  BY DEF Next, vars, MatchersStep, CidrStep, EntryStep, SrsStep, DurationStep,
         matchers, cidrs, entry, codec, duration, S!vars

LEMMA SrsInvHolds ==
    Spec => []SrsInv
  <1>1. Init => SrsInv
    BY DEF Init, S!Init, SrsInv, FileState
  <1>2. SrsInv /\ [Next]_vars => SrsInv'
    <2> SUFFICES ASSUME SrsInv, [S!Next]_(S!vars)
                 PROVE  SrsInv'
      BY SrsStays
    <2>1. CASE S!Next
      BY <2>1, WriteKeeps, LeaveForeignKeeps, ReadKeeps DEF S!Next
    <2>2. CASE UNCHANGED S!vars
      BY <2>2 DEF S!vars, SrsInv, FileState
    <2> QED BY <2>1, <2>2
  <1> QED BY <1>1, <1>2, PTL DEF Spec

(* What is read of the file at the end. *)
LEMMA SrsRead ==
    ASSUME SrsInv, pc = "done"
    PROVE  /\ ended = "never" => ~ back.ok
           /\ back.ok \/ back = S!Failed
           /\ ended # "never" =>
                LET bad == recover /\ \E i \in DOMAIN rules : rules[i] \in S!AdGuarded
                IN  /\ back.ok => ~ bad /\ S!AllSame
                    /\ ended = "ok" /\ ~ bad => back.ok
  <1>1. back = S!ReadFile(file, recover) /\ recover \in BOOLEAN /\ FileState
    BY DEF SrsInv
  <1>2. CASE ended = "never"
    <2>1. file \in Foreign
      BY <1>1, <1>2 DEF FileState
    <2>2. back = S!Failed
      BY <1>1, <2>1, ForeignRefused
    <2> QED BY <1>2, <2>2 DEF S!Failed
  <1>3. CASE ended # "never"
    <2>1. /\ rules \in RuleSets /\ version \in S!Versions
          /\ file \in Seq(Token) /\ Part(file, 1, S!Written(rules, version))
          /\ ended = "ok" => Complete(file, 1, S!Written(rules, version))
      BY <1>1, <1>3 DEF FileState
    <2>2. FileReads(file, rules, version, recover)
      BY <1>1, <2>1, RuleSetFacts, FileRead
    <2>3. back.ok => back.value = [i \in DOMAIN rules |-> S!RuleAs(recover)[rules[i]]]
      BY <1>1, <2>2 DEF FileReads, S!Got
    <2> QED BY <1>1, <1>3, <2>1, <2>2, <2>3 DEF FileReads, S!AllSame
  <1> QED BY <1>2, <1>3

(* Rules of any fields, that nest to any depth, are read from what was     *)
(* written of them as they are, but for AdGuard domains that cannot be     *)
(* recovered. (Write, Read)                                                *)
THEOREM WrittenIsRead ==
    Spec => []RoundTrip
  <1>1. SrsInv => RoundTrip
    BY SrsRead DEF RoundTrip, S!RoundTrip
  <1> QED BY <1>1, SrsInvHolds, PTL

(* However a Write was interrupted or failed, and at whatever token, what  *)
(* is read of it is all of its rules or an error. (Write, Read)            *)
THEOREM CutIsRefused ==
    Spec => []CutRefused
  <1>1. SrsInv => CutRefused
    BY SrsRead DEF CutRefused, S!CutRefused
  <1> QED BY <1>1, SrsInvHolds, PTL

-----------------------------------------------------------------------------
(* The matchers. An automaton: every edge and every fail link leads to one *)
(* of its nodes.                                                           *)
EdgesTo(n) == [trieEdge : BOOLEAN, next : 0 .. n]

IsAut(ac) ==
    /\ ac.count \in Nat
    /\ ac = [trie |-> ac.trie, fail |-> ac.fail, exists |-> ac.exists, count |-> ac.count]
    /\ ac.trie \in [0 .. ac.count -> [M!Indexes -> EdgesTo(ac.count)]]
    /\ ac.fail \in [0 .. ac.count -> 0 .. ac.count]
    /\ ac.exists \in [0 .. ac.count -> [type : M!Types, exist : BOOLEAN]]

NextOf(ac, n, i) == ac.trie[n][i].next

(* It is a trie: no node is at the end of two edges. *)
IsTrie(ac) ==
    \A m, n \in 0 .. ac.count, i, j \in M!Indexes :
       NextOf(ac, m, i) # 0 /\ NextOf(ac, m, i) = NextOf(ac, n, j) => m = n /\ i = j

LEMMA NewAut ==
    IsAut(M!NewACAutomaton) /\ IsTrie(M!NewACAutomaton) /\ M!NewACAutomaton.count = 0
  <1> DEFINE ac == M!NewACAutomaton
  <1>1. /\ ac.count = 0 /\ ac.trie = [n \in 0 .. 0 |-> M!NewNode]
        /\ ac.fail = [n \in 0 .. 0 |-> 0] /\ ac.exists = [n \in 0 .. 0 |-> M!NotThere]
        /\ ac = [trie |-> ac.trie, fail |-> ac.fail, exists |-> ac.exists, count |-> ac.count]
    BY DEF M!NewACAutomaton
  <1> HIDE DEF ac
  <1>2. M!NewNode \in [M!Indexes -> EdgesTo(0)] /\ \A i \in M!Indexes : M!NewNode[i].next = 0
    BY DEF M!NewNode, EdgesTo
  <1>3. M!NotThere \in [type : M!Types, exist : BOOLEAN]
    BY DEF M!NotThere, M!Types
  <1>4. IsAut(ac)
    BY <1>1, <1>2, <1>3 DEF IsAut
  <1>5. IsTrie(ac)
    BY <1>1, <1>2 DEF IsTrie, NextOf
  <1> QED BY <1>1, <1>4, <1>5 DEF ac

(* A node that gets an edge it does not have gets a new node with it: the  *)
(* trie stays one. (Add)                                                   *)
LEMMA EdgeAdded ==
    ASSUME NEW ac, IsAut(ac), NEW node \in 0 .. ac.count, NEW i \in M!Indexes
    PROVE  LET g == M!WithEdge(ac, node, i)
           IN  /\ IsAut(g) /\ g.count >= ac.count
               /\ NextOf(g, node, i) \in 1 .. g.count
               /\ IsTrie(ac) => IsTrie(g)
  <1> DEFINE g == M!WithEdge(ac, node, i)
             new == ac.count + 1
             e == [trieEdge |-> TRUE, next |-> new]
             row(n) == IF n = new THEN M!NewNode
                       ELSE IF n = node THEN [ac.trie[n] EXCEPT ![i] = e] ELSE ac.trie[n]
  <1>1. CASE NextOf(ac, node, i) # 0
    <2>1. g = ac
      BY <1>1 DEF M!WithEdge, NextOf
    <2>2. NextOf(ac, node, i) \in 0 .. ac.count /\ ac.count \in Nat
      BY DEF IsAut, NextOf, EdgesTo
    <2> QED BY <1>1, <2>1, <2>2
  <1>2. CASE NextOf(ac, node, i) = 0
    <2>1. /\ ac.count \in Nat /\ new \in Nat /\ node \in 0 .. new /\ node # new
          /\ ac.trie \in [0 .. ac.count -> [M!Indexes -> EdgesTo(ac.count)]]
          /\ \A n \in 0 .. new : n # new => n \in 0 .. ac.count
      BY DEF IsAut
    <2>2. /\ g.count = new
          /\ g.trie = [n \in 0 .. new |-> IF n = new THEN M!NewNode
                                          ELSE [ac.trie EXCEPT ![node][i] = e][n]]
          /\ g.fail = [n \in 0 .. new |-> IF n = new THEN 0 ELSE ac.fail[n]]
          /\ g.exists = [n \in 0 .. new |-> IF n = new THEN M!NotThere ELSE ac.exists[n]]
          /\ g = [trie |-> g.trie, fail |-> g.fail, exists |-> g.exists, count |-> g.count]
      BY <1>2 DEF M!WithEdge, NextOf
    <2> HIDE DEF g, e
    <2>3. ASSUME NEW n \in 0 .. new
          PROVE  g.trie[n] = row(n)
      <3>1. g.trie[n] = IF n = new THEN M!NewNode ELSE [ac.trie EXCEPT ![node][i] = e][n]
        BY <2>2
      <3>2. CASE n = new
        BY <3>1, <3>2
      <3>3. CASE n # new
        <4>1. n \in 0 .. ac.count
          BY <2>1, <3>3
        <4> QED BY <2>1, <3>1, <3>3, <4>1
      <3> QED BY <3>2, <3>3
    <2>4. DOMAIN g.trie = 0 .. new /\ g.trie = [n \in 0 .. new |-> g.trie[n]]
      BY <2>2
    <2>5. M!NewNode \in [M!Indexes -> EdgesTo(new)] /\ \A j \in M!Indexes : M!NewNode[j].next = 0
      BY <2>1 DEF M!NewNode, EdgesTo
    <2>6. \A n \in 0 .. ac.count : ac.trie[n] \in [M!Indexes -> EdgesTo(new)]
      <3>1. EdgesTo(ac.count) \subseteq EdgesTo(new)
        BY <2>1 DEF EdgesTo
      <3> QED BY <2>1, <3>1
    <2>7. e \in EdgesTo(new) /\ e.next = new
      BY <2>1 DEF EdgesTo, e
    <2>8. \A n \in 0 .. new : row(n) \in [M!Indexes -> EdgesTo(new)]
      BY <2>1, <2>5, <2>6, <2>7
    <2>9. g.trie \in [0 .. new -> [M!Indexes -> EdgesTo(new)]]
      BY <2>3, <2>4, <2>8
    <2>10. g.fail \in [0 .. new -> 0 .. new]
      <3>1. ac.fail \in [0 .. ac.count -> 0 .. ac.count]
        BY DEF IsAut
      <3>2. \A n \in 0 .. new : (IF n = new THEN 0 ELSE ac.fail[n]) \in 0 .. new
        BY <2>1, <3>1
      <3> QED BY <2>2, <3>2
    <2>11. g.exists \in [0 .. new -> [type : M!Types, exist : BOOLEAN]]
      <3>1. ac.exists \in [0 .. ac.count -> [type : M!Types, exist : BOOLEAN]]
        BY DEF IsAut
      <3>2. M!NotThere \in [type : M!Types, exist : BOOLEAN]
        BY DEF M!NotThere, M!Types
      <3> QED BY <2>1, <2>2, <3>1, <3>2
    <2>12. IsAut(g) /\ g.count >= ac.count
      BY <2>1, <2>2, <2>9, <2>10, <2>11 DEF IsAut
    <2>13. ASSUME NEW n \in 0 .. new, NEW j \in M!Indexes
           PROVE  NextOf(g, n, j) = IF n = new THEN 0
                                    ELSE IF n = node /\ j = i THEN new ELSE NextOf(ac, n, j)
      <3>1. g.trie[n] = row(n)
        BY <2>3
      <3>2. CASE n = new
        BY <2>5, <3>1, <3>2 DEF NextOf
      <3>3. CASE n # new /\ n = node
        <4>1. n \in 0 .. ac.count /\ ac.trie[n] \in [M!Indexes -> EdgesTo(ac.count)]
          BY <2>1, <3>3
        <4>2. g.trie[n][j] = IF j = i THEN e ELSE ac.trie[n][j]
          BY <3>1, <3>3, <4>1
        <4> QED BY <2>7, <3>3, <4>2 DEF NextOf
      <3>4. CASE n # new /\ n # node
        BY <3>1, <3>4 DEF NextOf
      <3> QED BY <3>2, <3>3, <3>4
    <2>14. \A n \in 0 .. ac.count, j \in M!Indexes : NextOf(ac, n, j) \in 0 .. ac.count
      BY DEF IsAut, NextOf, EdgesTo
    <2>15. NextOf(g, node, i) \in 1 .. g.count
      BY <2>1, <2>2, <2>13
    <2>16. ASSUME IsTrie(ac)
           PROVE  IsTrie(g)
      <3> SUFFICES ASSUME NEW m \in 0 .. new, NEW n \in 0 .. new,
                          NEW j \in M!Indexes, NEW k \in M!Indexes,
                          NextOf(g, m, j) # 0, NextOf(g, m, j) = NextOf(g, n, k)
                   PROVE  m = n /\ j = k
        BY <2>2 DEF IsTrie
      <3>1. m # new /\ n # new
        BY <2>13
      <3>2. m \in 0 .. ac.count /\ n \in 0 .. ac.count
        BY <2>1, <3>1
      <3>3. NextOf(ac, m, j) # new /\ NextOf(ac, n, k) # new
        <4>1. NextOf(ac, m, j) \in 0 .. ac.count /\ NextOf(ac, n, k) \in 0 .. ac.count
          BY <2>14, <3>2
        <4> QED BY <2>1, <4>1
      <3>4. /\ NextOf(g, m, j) = IF m = node /\ j = i THEN new ELSE NextOf(ac, m, j)
            /\ NextOf(g, n, k) = IF n = node /\ k = i THEN new ELSE NextOf(ac, n, k)
        BY <2>13, <3>1
      <3>5. CASE NextOf(g, m, j) = new
        BY <3>3, <3>4, <3>5
      <3>6. CASE NextOf(g, m, j) # new
        <4>1. NextOf(ac, m, j) # 0 /\ NextOf(ac, m, j) = NextOf(ac, n, k)
          BY <3>4, <3>6
        <4> QED BY <2>16, <3>2, <4>1 DEF IsTrie
      <3> QED BY <3>5, <3>6
    <2> QED BY <2>12, <2>15, <2>16 DEF g
  <1> QED BY <1>1, <1>2

(* A walk that adds what it misses. *)
IsWalk(w) ==
    w = [ac |-> w.ac, node |-> w.node] /\ IsAut(w.ac) /\ w.node \in 0 .. w.ac.count

(* One step down, with a new edge where there is none.                     *)
LEMMA DownAdds ==
    ASSUME NEW w, IsWalk(w), NEW i \in M!Indexes
    PROVE  LET b == M!Down(w, i)
           IN  IsWalk(b) /\ (IsTrie(w.ac) => IsTrie(b.ac))
  <1> DEFINE b == M!Down(w, i)
             g == M!WithEdge(w.ac, w.node, i)
  <1>1. /\ IsAut(g) /\ NextOf(g, w.node, i) \in 1 .. g.count
        /\ IsTrie(w.ac) => IsTrie(g)
    BY EdgeAdded DEF IsWalk
  <1>2. b = [ac |-> g, node |-> NextOf(g, w.node, i)]
    BY DEF M!Down, NextOf
  <1> HIDE DEF g, b
  <1>3. b.ac = g /\ b.node \in 0 .. g.count /\ b = [ac |-> b.ac, node |-> b.node]
    BY <1>1, <1>2
  <1> QED BY <1>1, <1>3 DEF IsWalk, b

(* What is matched at a node says nothing of the edges.                    *)
LEMMA MarkKeeps ==
    ASSUME NEW w, IsWalk(w), NEW type \in M!Types
    PROVE  LET b == M!Mark(w, type)
           IN  IsWalk(b) /\ (IsTrie(w.ac) => IsTrie(b.ac))
  <1> DEFINE b == M!Mark(w, type)
             ac == w.ac
             x == [type |-> type, exist |-> TRUE]
             es == [ac.exists EXCEPT ![w.node] = x]
  <1>1. IsAut(ac) /\ w.node \in 0 .. ac.count /\ w = [ac |-> ac, node |-> w.node]
    BY DEF IsWalk
  <1>2. b = [w EXCEPT !.ac = [ac EXCEPT !.exists = es]]
    BY DEF M!Mark
  <1>3. es \in [0 .. ac.count -> [type : M!Types, exist : BOOLEAN]]
    BY <1>1 DEF IsAut
  <1> HIDE DEF es, b
  <1>4. /\ b = [ac |-> b.ac, node |-> b.node] /\ b.node = w.node
        /\ b.ac = [ac EXCEPT !.exists = es]
    BY <1>1, <1>2
  <1>5. b.ac = [trie |-> ac.trie, fail |-> ac.fail, exists |-> es, count |-> ac.count]
    BY <1>1, <1>4 DEF IsAut
  <1> HIDE DEF ac
  <1>6. IsAut(b.ac) /\ b.ac.count = ac.count /\ b.ac.trie = ac.trie
    BY <1>1, <1>3, <1>5 DEF IsAut
  <1>7. IsTrie(ac) => IsTrie(b.ac)
    BY <1>6 DEF IsTrie, NextOf
  <1> QED BY <1>1, <1>4, <1>6, <1>7 DEF IsWalk, b, ac


(* Add: a walk down the trie, one character after another. *)
Walked(first, text) == CHOOSE g : g =
    [k \in 0 .. Len(text) |->
        IF k = 0 THEN first ELSE M!Down(g[k - 1], M!Char2Index[text[k]])]

LEMMA WalkedFunction ==
    ASSUME NEW first, NEW text, Len(text) \in Nat
    PROVE  /\ Walked(first, text)[0] = first
           /\ \A k \in 1 .. Len(text) :
                Walked(first, text)[k] = M!Down(Walked(first, text)[k - 1], M!Char2Index[text[k]])
  <1> DEFINE Body(g) == [k \in 0 .. Len(text) |->
                 IF k = 0 THEN first ELSE M!Down(g[k - 1], M!Char2Index[text[k]])]
             all == Walked(first, text)
             N == Len(text)
             p == [first |-> first, text |-> text]
  <1>1. all = CHOOSE g : g = Body(g)
    BY DEF Walked
  <1>2. PICK g : g = Steps("down", p, g, N)
    BY StepsTaken
  <1>3. g = Body(g)
    <2>1. \A k \in 0 .. N : g[k] = Body(g)[k]
      BY <1>2 DEF Steps, FirstOf, StepOf
    <2> QED BY <1>2, <2>1 DEF Steps
  <1> HIDE DEF all
  <1>4. all = Body(all)
    BY <1>1, <1>3
  <1>5. 0 \in 0 .. N /\ \A k \in 1 .. N : k \in 0 .. N /\ k # 0
    OBVIOUS
  <1>6. all[0] = Body(all)[0] /\ \A k \in 1 .. N : all[k] = Body(all)[k]
    BY <1>4
  <1> QED BY <1>5, <1>6 DEF all

LEMMA WalkKeeps ==
    ASSUME NEW ac, IsAut(ac), NEW text, Len(text) \in Nat,
           \A k \in 1 .. Len(text) : M!Char2Index[text[k]] \in M!Indexes
    PROVE  LET end == Walked([ac |-> ac, node |-> 0], text)[Len(text)]
           IN  IsWalk(end) /\ (IsTrie(ac) => IsTrie(end.ac))
  <1> DEFINE first == [ac |-> ac, node |-> 0]
             N == Len(text)
             g == Walked(first, text)
             T == {k \in 0 .. N : IsWalk(g[k]) /\ (IsTrie(ac) => IsTrie(g[k].ac))}
  <1>1. g[0] = first /\ \A k \in 1 .. N : g[k] = M!Down(g[k - 1], M!Char2Index[text[k]])
    BY WalkedFunction
  <1> HIDE DEF g
  <1>2. 0 \in T
    <2>1. first.ac = ac /\ first.node = 0 /\ ac.count \in Nat
      BY DEF IsAut
    <2>2. IsWalk(first)
      BY <2>1 DEF IsWalk
    <2> QED BY <1>1, <2>1, <2>2
  <1>3. ASSUME NEW k \in 0 .. N - 1, k \in T
        PROVE  k + 1 \in T
    <2>1. k + 1 \in 1 .. N /\ k + 1 - 1 = k /\ k + 1 \in 0 .. N
      OBVIOUS
    <2>2. g[k + 1] = M!Down(g[k], M!Char2Index[text[k + 1]])
      BY <1>1, <2>1
    <2>3. IsWalk(g[k + 1]) /\ (IsTrie(g[k].ac) => IsTrie(g[k + 1].ac))
      BY <1>3, <2>1, <2>2, DownAdds
    <2> QED BY <1>3, <2>1, <2>3
  <1> HIDE DEF T
  <1>4. N \in T
    <2>1. 0 .. N \subseteq T
      BY <1>2, <1>3, InductionUpTo
    <2> QED BY <2>1
  <1> QED BY <1>4 DEF T, g

(* The characters of the table.                                            *)
LEMMA TableFacts ==
    ASSUME NEW text \in Seq(STRING), M!InTable(text)
    PROVE  LET turned == M!Reverse(text)
           IN  /\ Len(turned) \in Nat
               /\ \A k \in 1 .. Len(turned) : M!Char2Index[turned[k]] \in M!Indexes
  <1> DEFINE turned == M!Reverse(text)
  <1>1. Len(text) \in Nat /\ DOMAIN text = 1 .. Len(text)
    OBVIOUS
  <1>2. /\ turned = [i \in 1 .. Len(text) |-> text[(Len(text) - i) + 1]]
    BY DEF M!Reverse
  <1>3. turned \in [1 .. Len(text) -> STRING]
    <2>1. \A i \in 1 .. Len(text) : (Len(text) - i) + 1 \in 1 .. Len(text)
      BY <1>1
    <2> QED BY <1>2, <2>1
  <1>4. Len(turned) = Len(text)
    <2> HIDE DEF turned
    <2> QED BY <1>1, <1>3
  <1>5. ASSUME NEW c \in DOMAIN M!Char2Index
        PROVE  M!Char2Index[c] \in M!Indexes
    BY DEF M!Char2Index, M!Indexes
  <1>6. ASSUME NEW k \in 1 .. Len(text)
        PROVE  turned[k] \in DOMAIN M!Char2Index
    <2>1. (Len(text) - k) + 1 \in 1 .. Len(text)
      BY <1>1
    <2> QED BY <1>1, <1>2, <2>1 DEF M!InTable
  <1> QED BY <1>1, <1>4, <1>5, <1>6

(* A pattern of the table adds a path to the trie. (Add)                   *)
LEMMA AddKeeps ==
    ASSUME NEW ac, IsAut(ac), NEW text \in Seq(STRING), M!InTable(text), NEW type \in M!Types
    PROVE  LET b == M!ACAdd(ac, text, type)
           IN  IsAut(b) /\ (IsTrie(ac) => IsTrie(b))
  <1> DEFINE turned == M!Reverse(text)
             first == [ac |-> ac, node |-> 0]
             end == Walked(first, turned)[Len(turned)]
             b == M!ACAdd(ac, text, type)
  <1>1. b = IF type = "domain"
            THEN M!Mark(M!Down(M!Mark(end, "full"), M!Char2Index["."]), "domain").ac
            ELSE M!Mark(end, type).ac
    BY DEF M!ACAdd, M!Fold, Walked
  <1>2. IsWalk(end) /\ (IsTrie(ac) => IsTrie(end.ac))
    BY TableFacts, WalkKeeps
  <1> HIDE DEF end, b
  <1>3. CASE type = "domain"
    <2> DEFINE m == M!Mark(end, "full")
               w == M!Down(m, M!Char2Index["."])
               v == M!Mark(w, "domain")
    <2>1. "full" \in M!Types /\ "domain" \in M!Types /\ M!Char2Index["."] \in M!Indexes
      BY DEF M!Types, M!Char2Index, M!Indexes
    <2>2. IsWalk(m) /\ (IsTrie(end.ac) => IsTrie(m.ac))
      BY <1>2, <2>1, MarkKeeps
    <2> HIDE DEF m
    <2>3. IsWalk(w) /\ (IsTrie(m.ac) => IsTrie(w.ac))
      BY <2>1, <2>2, DownAdds
    <2> HIDE DEF w
    <2>4. IsWalk(v) /\ (IsTrie(w.ac) => IsTrie(v.ac))
      BY <2>1, <2>3, MarkKeeps
    <2>5. b = v.ac
      BY <1>1, <1>3 DEF m, w
    <2> HIDE DEF v
    <2> QED BY <1>2, <2>2, <2>3, <2>4, <2>5 DEF IsWalk, b
  <1>4. CASE type # "domain"
    <2> DEFINE v == M!Mark(end, type)
    <2>1. IsWalk(v) /\ (IsTrie(end.ac) => IsTrie(v.ac))
      BY <1>2, MarkKeeps
    <2>2. b = v.ac
      BY <1>1, <1>4
    <2> HIDE DEF v
    <2> QED BY <1>2, <2>1, <2>2 DEF IsWalk, b
  <1> QED BY <1>3, <1>4

(* Build: the children of a node, each one once, and what Pop does. *)
LEMMA SiftIsSift ==
    ASSUME NEW s, NEW W
    PROVE  M!Sifted(s, W) = Sifted(s, W)
  BY DEF M!Sifted, Sifted

LEMMA ChildrenFacts ==
    ASSUME NEW ac, NEW node
    PROVE  LET kids == M!Children(ac, node)
           IN  /\ kids \in Seq(M!Indexes) /\ Once(kids)
               /\ ToSet(kids) = {i \in M!Indexes : NextOf(ac, node, i) # 0}
  <1> DEFINE s == M!InOrder
             W == {i \in M!Indexes : NextOf(ac, node, i) # 0}
             kids == M!Children(ac, node)
  <1>1. s = <<0, 1, 40>> /\ M!Indexes = {0, 1, 40}
    BY DEF M!InOrder, M!Indexes
  <1>2. s \in Seq(M!Indexes) /\ Len(s) = 3 /\ s[1] = 0 /\ s[2] = 1 /\ s[3] = 40
    BY <1>1
  <1> HIDE DEF s
  <1>3. Once(s) /\ ToSet(s) = M!Indexes
    <2>1. 1 .. Len(s) = {1, 2, 3} /\ DOMAIN s = {1, 2, 3}
      BY <1>2
    <2>2. Once(s)
      BY <1>2, <2>1 DEF Once
    <2>3. ToSet(s) = {0, 1, 40}
      BY <1>2, <2>1 DEF ToSet
    <2> QED BY <1>1, <2>2, <2>3
  <1>4. kids = M!Sifted(s, W)
    BY DEF M!Children, NextOf, s
  <1>5. kids = Sifted(s, W)
    BY <1>4, SiftIsSift
  <1> HIDE DEF W, kids
  <1>6. Once(kids)
    BY <1>2, <1>3, <1>5, OnceSifted
  <1>7. kids \in Seq(M!Indexes) /\ ToSet(kids) = ToSet(s) \cap W
    BY <1>2, <1>5, SiftedFacts
  <1>8. ToSet(kids) = W
    BY <1>3, <1>7 DEF W
  <1> QED BY <1>6, <1>7, <1>8 DEF kids, W

(* The nodes at the end of the edges of a node. *)
Ends(ac, node) == MapOf([i \in M!Indexes |-> NextOf(ac, node, i)], M!Children(ac, node))

(* The ends of the edges of a node, each one once.                         *)
LEMMA EndsFacts ==
    ASSUME NEW ac, IsAut(ac), NEW node \in 0 .. ac.count
    PROVE  /\ Ends(ac, node) \in Seq(1 .. ac.count)
           /\ Ends(ac, node) = [k \in DOMAIN M!Children(ac, node) |->
                                  ac.trie[node][M!Children(ac, node)[k]].next]
           /\ \A m : m \in ToSet(Ends(ac, node)) <=>
                       \E i \in M!Indexes : m = NextOf(ac, node, i) /\ m # 0
           /\ IsTrie(ac) => Once(Ends(ac, node))
  <1> DEFINE F == [i \in M!Indexes |-> NextOf(ac, node, i)]
             kids == M!Children(ac, node)
             V == 0 .. ac.count
             ends == Ends(ac, node)
  <1>1. /\ kids \in Seq(M!Indexes) /\ Once(kids)
        /\ ToSet(kids) = {i \in M!Indexes : NextOf(ac, node, i) # 0}
    BY ChildrenFacts
  <1>2. F \in [M!Indexes -> V] /\ ac.count \in Nat
    BY DEF IsAut, NextOf, EdgesTo
  <1>3. ends = MapOf(F, kids)
    BY DEF Ends
  <1>4. \A i \in M!Indexes : F[i] = NextOf(ac, node, i)
    OBVIOUS
  <1> HIDE DEF F, kids, ends
  <1>5. /\ Len(kids) \in Nat /\ DOMAIN kids = 1 .. Len(kids)
        /\ \A k \in 1 .. Len(kids) : kids[k] \in M!Indexes /\ kids[k] \in ToSet(kids)
        /\ \A x : x \in ToSet(kids) <=> \E k \in 1 .. Len(kids) : x = kids[k]
    BY <1>1, MemberFacts
  <1>6. ends = [k \in 1 .. Len(kids) |-> F[kids[k]]]
    BY <1>3 DEF MapOf
  <1>7. \A k \in 1 .. Len(kids) : ends[k] \in 1 .. ac.count /\ ends[k] = NextOf(ac, node, kids[k])
    BY <1>1, <1>2, <1>4, <1>5, <1>6
  <1>8. ends \in [1 .. Len(kids) -> 1 .. ac.count]
    BY <1>6, <1>7
  <1>9. ends \in Seq(1 .. ac.count) /\ DOMAIN ends = 1 .. Len(kids)
    BY <1>5, <1>8, FunctionIsSeq
  <1>10. ends = [k \in DOMAIN kids |-> ac.trie[node][kids[k]].next]
    BY <1>4, <1>5, <1>6 DEF NextOf
  <1>11. ASSUME NEW m
         PROVE  m \in ToSet(ends) <=> \E i \in M!Indexes : m = NextOf(ac, node, i) /\ m # 0
    <2>1. m \in ToSet(ends) <=> \E k \in 1 .. Len(kids) : m = ends[k]
      BY <1>9 DEF ToSet
    <2>2. ASSUME NEW k \in 1 .. Len(kids), m = ends[k]
          PROVE  \E i \in M!Indexes : m = NextOf(ac, node, i) /\ m # 0
      <3>1. kids[k] \in M!Indexes /\ m = NextOf(ac, node, kids[k]) /\ NextOf(ac, node, kids[k]) # 0
        BY <1>1, <1>5, <1>7, <2>2
      <3> QED BY <3>1
    <2>3. ASSUME NEW i \in M!Indexes, m = NextOf(ac, node, i), m # 0
          PROVE  \E k \in 1 .. Len(kids) : m = ends[k]
      <3>1. i \in ToSet(kids)
        BY <1>1, <2>3
      <3>2. PICK k \in 1 .. Len(kids) : i = kids[k]
        BY <1>5, <3>1
      <3> QED BY <1>7, <2>3, <3>2
    <2> QED BY <2>1, <2>2, <2>3
  <1>12. ASSUME IsTrie(ac)
         PROVE  Once(ends)
    <2>1. \A a, b \in ToSet(kids) : F[a] = F[b] => a = b
      BY <1>1, <1>4, <1>12 DEF IsTrie
    <2>2. Once(MapOf(F, kids))
      BY <1>1, <1>2, <2>1, OnceMapped
    <2> QED BY <1>3, <2>2
  <1> QED BY <1>9, <1>10, <1>11, <1>12 DEF kids, ends

IsBuilding(s) ==
    s = [queue |-> s.queue, ac |-> s.ac] /\ IsAut(s.ac) /\ s.queue \in Seq(1 .. s.ac.count)

(* Build pops a node that is one: what it redirects leads to nodes, too.   *)
LEMMA PopKeeps ==
    ASSUME NEW s, IsBuilding(s), s.queue # << >>
    PROVE  LET b == M!Pop(s)
           IN  /\ IsBuilding(b) /\ b.ac.count = s.ac.count
               /\ b.queue = Tail(s.queue) \o Ends(s.ac, Head(s.queue))
               /\ \A n \in 0 .. s.ac.count : n # Head(s.queue) => b.ac.trie[n] = s.ac.trie[n]
  <1> DEFINE b == M!Pop(s)
             ac == s.ac
             node == Head(s.queue)
             kids == M!Children(ac, node)
             ends == Ends(ac, node)
             N == ac.count
             fails == [n \in DOMAIN ac.fail |->
                        IF \E k \in DOMAIN kids : ac.trie[node][kids[k]].next = n
                        THEN M!FailOf(ac, node, CHOOSE i \in M!Indexes : ac.trie[node][i].next = n)
                        ELSE ac.fail[n]]
             row == [i \in M!Indexes |->
                        IF ac.trie[node][i].next # 0 THEN ac.trie[node][i]
                        ELSE [trieEdge |-> FALSE, next |-> M!FailOf(ac, node, i)]]
             trie == [ac.trie EXCEPT ![node] = row]
  <1>1. /\ IsAut(ac) /\ s.queue \in Seq(1 .. N) /\ s = [queue |-> s.queue, ac |-> ac]
        /\ N \in Nat
    BY DEF IsBuilding, IsAut
  <1> HIDE DEF b, trie, fails, row, ends, kids, node
  <1>2. /\ node \in 1 .. N /\ node \in 0 .. N /\ Tail(s.queue) \in Seq(1 .. N)
    BY <1>1 DEF node
  <1>3. b.queue = Tail(s.queue) \o [k \in DOMAIN kids |-> ac.trie[node][kids[k]].next]
    BY Zenon DEF b, kids, node, M!Pop
  <1>4. b = [queue |-> b.queue, ac |-> b.ac]
    BY Zenon DEF b, M!Pop
  <1>5. /\ ac.trie \in [0 .. N -> [M!Indexes -> EdgesTo(N)]]
        /\ ac.fail \in [0 .. N -> 0 .. N]
        /\ ac.exists \in [0 .. N -> [type : M!Types, exist : BOOLEAN]]
        /\ ac = [trie |-> ac.trie, fail |-> ac.fail, exists |-> ac.exists, count |-> N]
    BY <1>1 DEF IsAut
  <1>6. b.ac = [trie |-> [ac.trie EXCEPT ![node] = [i \in M!Indexes |->
                        IF ac.trie[node][i].next # 0 THEN ac.trie[node][i]
                        ELSE [trieEdge |-> FALSE, next |-> M!FailOf(ac, node, i)]]],
                fail |-> fails, exists |-> ac.exists, count |-> N]
    BY <1>5, Zenon DEF b, fails, kids, node, M!Pop
  <1>7. b.ac = [trie |-> trie, fail |-> fails, exists |-> ac.exists, count |-> N]
    BY <1>6 DEF trie, row
  <1>8. ends \in Seq(1 .. N) /\ ends = [k \in DOMAIN kids |-> ac.trie[node][kids[k]].next]
    BY <1>1, <1>2, EndsFacts DEF ends, kids
  <1>9. \A i \in M!Indexes : M!FailOf(ac, node, i) \in 0 .. N
    <2>1. ASSUME NEW i \in M!Indexes
          PROVE  M!FailOf(ac, node, i) \in 0 .. N
      <3> DEFINE x == ac.trie[ac.fail[node]][i]
      <3>1. ac.fail[node] \in 0 .. N
        BY <1>2, <1>5
      <3>2. x \in EdgesTo(N)
        BY <1>5, <3>1
      <3>3. x.next \in 0 .. N
        BY <3>2 DEF EdgesTo
      <3> QED BY <3>3 DEF M!FailOf
    <2> QED BY <2>1
  <1>10. row \in [M!Indexes -> EdgesTo(N)]
    <2>1. ASSUME NEW i \in M!Indexes
          PROVE  row[i] \in EdgesTo(N)
      <3>1. ac.trie[node][i] \in EdgesTo(N)
        BY <1>2, <1>5
      <3>2. [trieEdge |-> FALSE, next |-> M!FailOf(ac, node, i)] \in EdgesTo(N)
        BY <1>9 DEF EdgesTo
      <3> QED BY <3>1, <3>2 DEF row
    <2> QED BY <2>1 DEF row
  <1>11. fails \in [0 .. N -> 0 .. N]
    <2>1. ASSUME NEW n \in 0 .. N, \E k \in DOMAIN kids : ac.trie[node][kids[k]].next = n
          PROVE  M!FailOf(ac, node, CHOOSE i \in M!Indexes : ac.trie[node][i].next = n) \in 0 .. N
      <3>1. PICK k \in DOMAIN kids : ac.trie[node][kids[k]].next = n
        BY <2>1
      <3>2. kids[k] \in M!Indexes
        <4>1. kids \in Seq(M!Indexes)
          BY ChildrenFacts DEF kids
        <4> QED BY <3>1, <4>1
      <3>3. (CHOOSE i \in M!Indexes : ac.trie[node][i].next = n) \in M!Indexes
        BY <3>1, <3>2
      <3> QED BY <1>9, <3>3
    <2>2. DOMAIN ac.fail = 0 .. N /\ \A n \in 0 .. N : ac.fail[n] \in 0 .. N
      BY <1>5
    <2>3. \A n \in 0 .. N : fails[n] \in 0 .. N
      BY <2>1, <2>2 DEF fails
    <2> QED BY <2>2, <2>3 DEF fails
  <1>12. trie \in [0 .. N -> [M!Indexes -> EdgesTo(N)]]
    BY <1>5, <1>10 DEF trie
  <1>13. \A n \in 0 .. N : n # node => trie[n] = ac.trie[n]
    BY <1>5 DEF trie
  <1>14. /\ b.ac.trie = trie /\ b.ac.fail = fails /\ b.ac.exists = ac.exists /\ b.ac.count = N
         /\ b.ac = [trie |-> b.ac.trie, fail |-> b.ac.fail, exists |-> b.ac.exists,
                    count |-> b.ac.count]
    BY <1>7
  <1>15. IsAut(b.ac)
    BY <1>1, <1>5, <1>11, <1>12, <1>14 DEF IsAut
  <1>16. b.queue = Tail(s.queue) \o ends
    BY <1>3, <1>8, Zenon
  <1>17. b.queue \in Seq(1 .. N)
    BY <1>2, <1>8, <1>16
  <1>18. IsBuilding(b)
    BY <1>4, <1>14, <1>15, <1>17 DEF IsBuilding
  <1> QED BY <1>13, <1>14, <1>16, <1>18 DEF b, node, ends

(* The pops of Build, as a function. *)
Pops(ac) == CHOOSE g : g =
    [k \in 0 .. ac.count |->
        IF k = 0 THEN [ac |-> ac, queue |-> [j \in DOMAIN M!Children(ac, 0) |->
                                               ac.trie[0][M!Children(ac, 0)[j]].next]]
        ELSE IF g[k - 1].queue = << >> THEN g[k - 1]
        ELSE M!Pop(g[k - 1])]

LEMMA PopsFunction ==
    ASSUME NEW ac, IsAut(ac)
    PROVE  /\ M!BuildRun(ac) = Pops(ac)[ac.count]
           /\ Pops(ac)[0] = [ac |-> ac, queue |-> Ends(ac, 0)]
           /\ \A k \in 1 .. ac.count :
                Pops(ac)[k] = IF Pops(ac)[k - 1].queue = << >> THEN Pops(ac)[k - 1]
                              ELSE M!Pop(Pops(ac)[k - 1])
  <1> DEFINE roots == [j \in DOMAIN M!Children(ac, 0) |-> ac.trie[0][M!Children(ac, 0)[j]].next]
             first == [ac |-> ac, queue |-> roots]
             Body(g) == [k \in 0 .. ac.count |->
                 IF k = 0 THEN first
                 ELSE IF g[k - 1].queue = << >> THEN g[k - 1]
                 ELSE M!Pop(g[k - 1])]
             all == Pops(ac)
             N == ac.count
             p == [first |-> first]
  <1>1. all = CHOOSE g : g = Body(g)
    BY DEF Pops
  <1>2. M!BuildRun(ac) = all[N]
    BY DEF M!BuildRun, Pops
  <1>3. N \in Nat /\ 0 \in 0 .. N
    BY DEF IsAut
  <1>4. first = [ac |-> ac, queue |-> Ends(ac, 0)]
    BY <1>3, EndsFacts
  <1> HIDE DEF first
  <1>5. PICK g : g = Steps("pops", p, g, N)
    BY <1>3, StepsTaken
  <1>6. g = Body(g)
    <2>1. \A k \in 0 .. N : g[k] = Body(g)[k]
      BY <1>5, SMTT(20) DEF Steps, FirstOf, StepOf
    <2> QED BY <1>5, <2>1 DEF Steps
  <1> HIDE DEF all
  <1>7. all = Body(all)
    BY <1>1, <1>6, Zenon
  <1>8. \A k \in 1 .. N : k \in 0 .. N /\ k # 0
    BY <1>3
  <1>9. all[0] = Body(all)[0] /\ \A k \in 1 .. N : all[k] = Body(all)[k]
    BY <1>3, <1>7, <1>8
  <1> QED BY <1>2, <1>3, <1>4, <1>8, <1>9 DEF all

(* Build as a whole keeps an automaton one.                                *)
LEMMA BuildKeeps ==
    ASSUME NEW ac, IsAut(ac)
    PROVE  IsAut(M!ACBuild(ac)) /\ M!ACBuild(ac).count = ac.count
  <1> DEFINE g == Pops(ac)
             N == ac.count
             T == {k \in 0 .. N : IsBuilding(g[k]) /\ g[k].ac.count = N}
  <1>1. /\ M!BuildRun(ac) = g[N] /\ g[0] = [ac |-> ac, queue |-> Ends(ac, 0)]
        /\ \A k \in 1 .. N : g[k] = IF g[k - 1].queue = << >> THEN g[k - 1] ELSE M!Pop(g[k - 1])
    BY PopsFunction
  <1>2. N \in Nat /\ 0 \in 0 .. N
    BY DEF IsAut
  <1> HIDE DEF g
  <1>3. 0 \in T
    <2>1. Ends(ac, 0) \in Seq(1 .. N)
      BY <1>2, EndsFacts
    <2> QED BY <1>1, <1>2, <2>1 DEF IsBuilding
  <1>4. ASSUME NEW k \in 0 .. N - 1, k \in T
        PROVE  k + 1 \in T
    <2>1. k + 1 \in 1 .. N /\ k + 1 - 1 = k /\ k + 1 \in 0 .. N
      BY <1>2
    <2>2. g[k + 1] = IF g[k].queue = << >> THEN g[k] ELSE M!Pop(g[k])
      BY <1>1, <2>1
    <2>3. IsBuilding(g[k]) /\ g[k].ac.count = N
      BY <1>4
    <2>4. IsBuilding(g[k + 1]) /\ g[k + 1].ac.count = N
      BY <2>2, <2>3, PopKeeps
    <2> QED BY <2>1, <2>4
  <1> HIDE DEF T
  <1>5. 0 .. N \subseteq T
    BY <1>2, <1>3, <1>4, InductionUpTo
  <1>6. N \in T
    BY <1>2, <1>5
  <1>7. IsBuilding(g[N]) /\ g[N].ac.count = N
    BY <1>6 DEF T
  <1>8. M!ACBuild(ac) = g[N].ac
    BY <1>1 DEF M!ACBuild
  <1> QED BY <1>7, <1>8 DEF IsBuilding

(* Halfway: P are the nodes that were popped. What was popped or is in the *)
(* queue is at the end of an edge of the trie from such a node or the      *)
(* root; what was not popped has the edges that it had.                    *)
Halfway(ac, s, P) ==
    /\ IsBuilding(s) /\ s.ac.count = ac.count
    /\ P \subseteq 1 .. ac.count /\ P \cap ToSet(s.queue) = {}
    /\ Once(s.queue)
    /\ \A n \in 0 .. ac.count : n \notin P => s.ac.trie[n] = ac.trie[n]
    /\ \A m \in P \cup ToSet(s.queue) :
         m # 0 /\ \E n \in P \cup {0}, i \in M!Indexes : NextOf(ac, n, i) = m

(* From one node popped to the next one.                                   *)
LEMMA HalfwayOn ==
    ASSUME NEW ac, IsAut(ac), IsTrie(ac), NEW s, NEW P, Halfway(ac, s, P), s.queue # << >>
    PROVE  /\ Head(s.queue) \in 1 .. ac.count /\ Head(s.queue) \notin P
           /\ Halfway(ac, M!Pop(s), P \cup {Head(s.queue)})
  <1> DEFINE b == M!Pop(s)
             node == Head(s.queue)
             q == s.queue
             ends == Ends(s.ac, node)
             N == ac.count
             P2 == P \cup {node}
  <1>1. /\ IsBuilding(s) /\ s.ac.count = N /\ P \subseteq 1 .. N /\ P \cap ToSet(q) = {}
        /\ Once(q) /\ (\A n \in 0 .. N : n \notin P => s.ac.trie[n] = ac.trie[n])
        /\ \A m \in P \cup ToSet(q) :
             m # 0 /\ \E n \in P \cup {0}, i \in M!Indexes : NextOf(ac, n, i) = m
    BY DEF Halfway
  <1>2. q \in Seq(1 .. N) /\ N \in Nat /\ IsAut(s.ac)
    BY <1>1 DEF IsBuilding, IsAut
  <1>3. /\ node \in 1 .. N /\ Tail(q) \in Seq(1 .. N) /\ Once(Tail(q))
        /\ node \notin ToSet(Tail(q)) /\ ToSet(q) = {node} \cup ToSet(Tail(q))
    BY <1>1, <1>2, OnceTail
  <1>4. node \notin P /\ node \in 0 .. N /\ node # 0
    BY <1>1, <1>2, <1>3
  <1>5. /\ IsBuilding(b) /\ b.ac.count = N /\ b.queue = Tail(q) \o ends
        /\ \A n \in 0 .. N : n # node => b.ac.trie[n] = s.ac.trie[n]
    BY <1>1, PopKeeps
  <1>6. \A i \in M!Indexes : NextOf(s.ac, node, i) = NextOf(ac, node, i)
    BY <1>1, <1>4 DEF NextOf
  <1>7. /\ ends \in Seq(1 .. N)
        /\ \A m : m \in ToSet(ends) <=> \E i \in M!Indexes : m = NextOf(ac, node, i) /\ m # 0
    <2>1. /\ ends \in Seq(1 .. N)
          /\ \A m : m \in ToSet(ends) <=> \E i \in M!Indexes : m = NextOf(s.ac, node, i) /\ m # 0
      BY <1>1, <1>2, <1>4, EndsFacts
    <2> QED BY <1>6, <2>1
  <1>8. Once(ends)
    <2>1. ends = Ends(ac, node)
      <3>1. [i \in M!Indexes |-> NextOf(s.ac, node, i)] = [i \in M!Indexes |-> NextOf(ac, node, i)]
        BY <1>6
      <3>2. M!Children(s.ac, node) = M!Children(ac, node)
        <4>1. {i \in M!Indexes : s.ac.trie[node][i].next # 0}
                = {i \in M!Indexes : ac.trie[node][i].next # 0}
          BY <1>6 DEF NextOf
        <4> QED BY <4>1 DEF M!Children
      <3> QED BY <3>1, <3>2 DEF Ends
    <2> QED BY <1>4, <2>1, EndsFacts
  <1> HIDE DEF b, node, q, ends, N
  <1>9. ASSUME NEW m \in ToSet(ends)
        PROVE  m \notin P /\ m \notin ToSet(q)
    <2> SUFFICES ASSUME m \in P \cup ToSet(q)
                 PROVE  FALSE
      OBVIOUS
    <2>1. PICK i \in M!Indexes : m = NextOf(ac, node, i) /\ m # 0
      BY <1>7
    <2>2. PICK n \in P \cup {0}, j \in M!Indexes : NextOf(ac, n, j) = m
      BY <1>1
    <2>3. n \in 0 .. N
      BY <1>1, <1>2
    <2>4. node = n
      BY <1>4, <2>1, <2>2, <2>3 DEF IsTrie, N
    <2> QED BY <1>4, <2>2, <2>4
  <1>10. /\ ToSet(b.queue) = ToSet(Tail(q)) \cup ToSet(ends)
         /\ Once(b.queue)
    <2>1. ToSet(Tail(q)) \cap ToSet(ends) = {}
      BY <1>3, <1>9
    <2>2. Once(Tail(q) \o ends)
      BY <1>3, <1>7, <1>8, <2>1, OnceConcat
    <2>3. ToSet(Tail(q) \o ends) = ToSet(Tail(q)) \cup ToSet(ends)
      <3> DEFINE u == Tail(q)
      <3>1. u \in Seq(1 .. N) /\ ends \in Seq(1 .. N)
        BY <1>3, <1>7
      <3> HIDE DEF u
      <3>2. ToSet(u \o ends) = ToSet(u) \cup ToSet(ends)
        BY <3>1, ToSetFacts
      <3> QED BY <3>2 DEF u
    <2> QED BY <1>5, <2>2, <2>3
  <1>11. P2 \subseteq 1 .. N /\ P2 \cap ToSet(b.queue) = {}
    BY <1>1, <1>3, <1>9, <1>10
  <1>12. \A n \in 0 .. N : n \notin P2 => b.ac.trie[n] = ac.trie[n]
    BY <1>1, <1>5
  <1>13. ASSUME NEW m \in P2 \cup ToSet(b.queue)
         PROVE  m # 0 /\ \E n \in P2 \cup {0}, i \in M!Indexes : NextOf(ac, n, i) = m
    <2>1. CASE m \in P \cup ToSet(q)
      BY <1>1, <2>1
    <2>2. CASE m \in ToSet(ends)
      BY <1>7, <2>2
    <2> QED BY <1>3, <1>10, <2>1, <2>2
  <1>14. Halfway(ac, b, P2)
    BY <1>5, <1>10, <1>11, <1>12, <1>13 DEF Halfway, N
  <1> QED BY <1>3, <1>4, <1>14 DEF b, node, q, N

(* A set of the numbers up to N without one of them has less than N. *)
LEMMA OneMissing ==
    ASSUME NEW N \in Nat, NEW P, P \subseteq 1 .. N, NEW x \in 1 .. N, x \notin P
    PROVE  IsFiniteSet(P) /\ Cardinality(P) \in Nat /\ Cardinality(P) < N
           /\ Cardinality(P \cup {x}) = Cardinality(P) + 1
  <1>1. IsFiniteSet(1 .. N) /\ Cardinality(1 .. N) = N
    BY FS_Interval
  <1>2. IsFiniteSet(P) /\ Cardinality(P) \in Nat
    BY <1>1, FS_Subset, FS_CardinalityType
  <1>3. Cardinality(P \cup {x}) = Cardinality(P) + 1
    BY <1>2, FS_AddElement
  <1>4. Cardinality(P \cup {x}) <= N
    <2>1. P \cup {x} \subseteq 1 .. N
      OBVIOUS
    <2> QED BY <1>1, <2>1, FS_Subset
  <1> QED BY <1>2, <1>3, <1>4

(* The Build of a trie ends: as many pops as it has nodes empty the queue. *)
LEMMA TrieIsBuilt ==
    ASSUME NEW ac, IsAut(ac), IsTrie(ac)
    PROVE  M!BuildEnds(ac)
  <1> DEFINE g == Pops(ac)
             N == ac.count
             Popped(k) == \E P : Halfway(ac, g[k], P) /\ Cardinality(P) = k
             T == {k \in 0 .. N : g[k].queue = << >> \/ Popped(k)}
  <1>1. /\ M!BuildRun(ac) = g[N] /\ g[0] = [ac |-> ac, queue |-> Ends(ac, 0)]
        /\ \A k \in 1 .. N : g[k] = IF g[k - 1].queue = << >> THEN g[k - 1] ELSE M!Pop(g[k - 1])
    BY PopsFunction
  <1>2. N \in Nat /\ 0 \in 0 .. N
    BY DEF IsAut
  <1> HIDE DEF g
  <1>3. 0 \in T
    <2> DEFINE ends == Ends(ac, 0)
    <2>1. /\ ends \in Seq(1 .. N) /\ Once(ends)
          /\ \A m : m \in ToSet(ends) <=> \E i \in M!Indexes : m = NextOf(ac, 0, i) /\ m # 0
      BY <1>2, EndsFacts
    <2> HIDE DEF ends
    <2>2. g[0].ac = ac /\ g[0].queue = ends
      BY <1>1 DEF ends
    <2>3. IsBuilding(g[0])
      BY <1>1, <2>1, <2>2 DEF IsBuilding, ends
    <2>4. Halfway(ac, g[0], {})
      BY <2>1, <2>2, <2>3 DEF Halfway
    <2>5. Cardinality({}) = 0
      BY FS_EmptySet
    <2> QED BY <1>2, <2>4, <2>5
  <1>4. ASSUME NEW k \in 0 .. N - 1, k \in T
        PROVE  k + 1 \in T
    <2>1. k + 1 \in 1 .. N /\ k + 1 - 1 = k /\ k + 1 \in 0 .. N
      BY <1>2
    <2>2. g[k + 1] = IF g[k].queue = << >> THEN g[k] ELSE M!Pop(g[k])
      BY <1>1, <2>1
    <2>3. CASE g[k].queue = << >>
      BY <2>1, <2>2, <2>3
    <2>4. CASE g[k].queue # << >>
      <3>1. PICK P : Halfway(ac, g[k], P) /\ Cardinality(P) = k
        BY <1>4, <2>4
      <3> DEFINE x == Head(g[k].queue)
      <3>2. x \in 1 .. N /\ x \notin P /\ Halfway(ac, g[k + 1], P \cup {x})
        <4>1. x \in 1 .. N /\ x \notin P /\ Halfway(ac, M!Pop(g[k]), P \cup {x})
          BY <2>4, <3>1, HalfwayOn
        <4>2. g[k + 1] = M!Pop(g[k])
          BY <2>2, <2>4
        <4> HIDE DEF x
        <4> QED BY <4>1, <4>2
      <3>3. P \subseteq 1 .. N
        BY <3>1 DEF Halfway
      <3> HIDE DEF x
      <3>4. Cardinality(P \cup {x}) = k + 1
        BY <1>2, <3>1, <3>2, <3>3, OneMissing
      <3> QED BY <2>1, <3>2, <3>4
    <2> QED BY <2>3, <2>4
  <1> HIDE DEF T
  <1>5. N \in T
    <2>1. 0 .. N \subseteq T
      BY <1>2, <1>3, <1>4, InductionUpTo
    <2> QED BY <1>2, <2>1
  <1>6. g[N].queue = << >>
    <2> SUFFICES ASSUME g[N].queue # << >>
                 PROVE  FALSE
      OBVIOUS
    <2>1. PICK P : Halfway(ac, g[N], P) /\ Cardinality(P) = N
      BY <1>5 DEF T
    <2> DEFINE x == Head(g[N].queue)
    <2>2. x \in 1 .. N /\ x \notin P
      BY <2>1, HalfwayOn
    <2>3. P \subseteq 1 .. N
      BY <2>1 DEF Halfway
    <2> HIDE DEF x
    <2>4. Cardinality(P) < N
      BY <1>2, <2>2, <2>3, OneMissing
    <2> QED BY <1>2, <2>1, <2>4
  <1> QED BY <1>1, <1>6 DEF M!BuildEnds

(* That of an automaton with no pattern pops nothing. (Build)              *)
LEMMA EmptyIsBuilt ==
    ASSUME NEW ac, IsAut(ac), ac.count = 0
    PROVE  M!BuildEnds(ac)
  <1>1. IsTrie(ac)
    BY DEF IsTrie, IsAut, NextOf, EdgesTo
  <1> QED BY <1>1, TrieIsBuilt

(* The groups: what is true of each one, with what was added, and how      *)
(* often it was built.                                                     *)
AllPatterns == Patterns \cup UNION {M!Range(s) : s \in Preloads}

Automatic(k, p) == k = "ac" \/ (k = "mph" /\ p.type = "substr")

Known(k) ==
    {p \in AllPatterns : M!Compiles(p) /\ (Automatic(k, p) => M!InTable(p.text))}

Others(I) == Seq([p : AllPatterns, id : I])

IsMap(g) ==
    /\ g = [ruleMap |-> g.ruleMap, keywords |-> g.keywords, others |-> g.others]
    /\ g.others \in Others({0})

Listed(f, n) == \A key \in DOMAIN f : f[key] \in Seq(1 .. n)

IsGroup(g, n) ==
    /\ g = [full |-> g.full, domain |-> g.domain, others |-> g.others, count |-> n]
    /\ Listed(g.full, n) /\ Listed(g.domain, n) /\ g.others \in Others(1 .. n)

IsMph(g, a, b) ==
    /\ g = [ac |-> g.ac, others |-> g.others, ruleMap |-> g.ruleMap, rules |-> g.rules,
            level0 |-> g.level0, level1 |-> g.level1, frozen |-> g.frozen]
    /\ g.others \in Others({1})
    /\ g.frozen \in BOOLEAN /\ (g.frozen <=> b > 0)
    /\ g.frozen => g.rules # << >>
    /\ \/ g.ac = << >>
       \/ /\ \E ac : g.ac = <<ac>> /\ IsAut(ac) /\ (b = 0 => IsTrie(ac))
          /\ \E i \in DOMAIN a : a[i].type = "substr"

IsAutomaton(g, a, b) ==
    IsAut(g) /\ (b = 0 => IsTrie(g)) /\ (a = << >> => g.count = 0)

GroupOK(k, g, a, b) ==
    /\ k = "map" => IsMap(g)
    /\ k = "group" => IsGroup(g, Len(a))
    /\ k = "mph" => IsMph(g, a, b)
    /\ k = "ac" => IsAutomaton(g, a, b)

(* Patterns have a type, and compile if they are known.                    *)
LEMMA PatternFacts ==
    ASSUME NEW p \in AllPatterns
    PROVE  M!IsPattern(p) /\ p.type \in M!Types /\ p.text \in Seq(STRING)
  BY BoundsAssumption DEF M!PatternsAssumption, AllPatterns, M!IsPattern

LEMMA OneMoreOther ==
    ASSUME NEW I, NEW os \in Others(I), NEW p \in AllPatterns, NEW id \in I
    PROVE  Append(os, [p |-> p, id |-> id]) \in Others(I)
  BY DEF Others

(* What AddTo does to a map, to the lists of a group, to an mph group, and *)
(* to any of them.                                                         *)
LEMMA MapAddKeeps ==
    ASSUME NEW g, IsMap(g), NEW p \in AllPatterns
    PROVE  IsMap(M!MapAdd(g, p))
  <1> DEFINE b == M!MapAdd(g, p)
  <1>1. p.type \in M!Types
    BY PatternFacts
  <1>2. g = [ruleMap |-> g.ruleMap, keywords |-> g.keywords, others |-> g.others]
    BY DEF IsMap
  <1>3. CASE p.type \in {"full", "domain"}
    <2>1. b = [g EXCEPT !.ruleMap = @ \cup M!Keys(p)]
      BY <1>3 DEF M!MapAdd, M!Exact
    <2> HIDE DEF b
    <2> QED BY <1>2, <2>1 DEF IsMap, b
  <1>4. CASE p.type = "substr"
    <2>1. b = [g EXCEPT !.keywords = @ \cup {p.text}]
      BY <1>4 DEF M!MapAdd, M!Exact
    <2> HIDE DEF b
    <2> QED BY <1>2, <2>1 DEF IsMap, b
  <1>5. CASE p.type = "regex"
    <2>1. b = [g EXCEPT !.others = Append(@, [p |-> p, id |-> 0])]
      BY <1>5 DEF M!MapAdd, M!Exact
    <2>2. Append(g.others, [p |-> p, id |-> 0]) \in Others({0})
      BY OneMoreOther DEF IsMap
    <2> HIDE DEF b
    <2> QED BY <1>2, <2>1, <2>2 DEF IsMap, b
  <1> QED BY <1>1, <1>3, <1>4, <1>5 DEF M!Types

LEMMA ListedMore ==
    ASSUME NEW f, NEW n \in Nat, Listed(f, n), NEW keys, NEW key
    PROVE  Listed(f, n + 1) /\ Listed(M!With(f, keys, key, n + 1), n + 1)
  <1> DEFINE V == 1 .. n + 1
             h == M!With(f, keys, key, n + 1)
  <1>1. \A x \in DOMAIN f : f[x] \in Seq(V)
    <2>1. 1 .. n \subseteq V
      OBVIOUS
    <2> HIDE DEF V
    <2> QED BY <2>1, SeqOfMore DEF Listed
  <1>2. ASSUME NEW x
        PROVE  M!ValuesOf(f, x) \in Seq(V)
    <2>1. CASE x \in DOMAIN f
      <3>1. M!ValuesOf(f, x) = f[x]
        BY <2>1 DEF M!ValuesOf
      <3> HIDE DEF V
      <3> QED BY <1>1, <2>1, <3>1
    <2>2. CASE x \notin DOMAIN f
      <3>1. M!ValuesOf(f, x) = << >>
        BY <2>2 DEF M!ValuesOf
      <3> HIDE DEF V
      <3> QED BY <3>1
    <2> QED BY <2>1, <2>2
  <1>3. n + 1 \in V
    OBVIOUS
  <1> HIDE DEF V
  <1>4. \A x \in DOMAIN h : h[x] \in Seq(V)
    <2>1. \A x \in DOMAIN h : h[x] = IF x = key THEN Append(M!ValuesOf(f, x), n + 1)
                                     ELSE M!ValuesOf(f, x)
      BY DEF M!With
    <2> HIDE DEF h
    <2> QED BY <1>2, <1>3, <2>1
  <1> QED BY <1>1, <1>4 DEF Listed, V

LEMMA GroupAddKeeps ==
    ASSUME NEW n \in Nat, NEW g, IsGroup(g, n), NEW p \in AllPatterns
    PROVE  IsGroup(M!GroupAdd(g, p), n + 1)
  <1> DEFINE b == M!GroupAdd(g, p)
             path == M!Reverse(M!Labels(p.text))
             onPath == {SubSeq(path, 1, k) : k \in 1 .. Len(path)}
             full == M!With(g.full, {}, p.text, n + 1)
             domain == M!With(g.domain, onPath, path, n + 1)
             more == Append(g.others, [p |-> p, id |-> n + 1])
  <1>1. p.type \in M!Types
    BY PatternFacts
  <1>2. /\ g = [full |-> g.full, domain |-> g.domain, others |-> g.others, count |-> n]
        /\ g.count = n
    BY DEF IsGroup
  <1>3. /\ Listed(g.full, n + 1) /\ Listed(g.domain, n + 1)
        /\ Listed(full, n + 1) /\ Listed(domain, n + 1)
    BY ListedMore DEF IsGroup
  <1>4. g.others \in Others(1 .. n + 1) /\ more \in Others(1 .. n + 1)
    <2>1. g.others \in Others(1 .. n)
      BY DEF IsGroup
    <2>2. [p : AllPatterns, id : 1 .. n] \subseteq [p : AllPatterns, id : 1 .. n + 1]
      OBVIOUS
    <2>3. g.others \in Others(1 .. n + 1)
      BY <2>1, <2>2, SeqOfMore DEF Others
    <2>4. n + 1 \in 1 .. n + 1
      OBVIOUS
    <2> QED BY <2>3, <2>4, OneMoreOther
  <1>5. b = [CASE p.type = "full"   -> [g EXCEPT !.full = full]
               [] p.type = "domain" -> [g EXCEPT !.domain = domain]
               [] OTHER             -> [g EXCEPT !.others = more]
             EXCEPT !.count = n + 1]
    BY <1>2 DEF M!GroupAdd
  <1> HIDE DEF b, full, domain, more, path, onPath
  <1>6. CASE p.type = "full"
    <2>1. b = [[g EXCEPT !.full = full] EXCEPT !.count = n + 1]
      BY <1>5, <1>6
    <2>2. b = [full |-> full, domain |-> g.domain, others |-> g.others, count |-> n + 1]
      BY <1>2, <2>1
    <2> QED BY <1>3, <1>4, <2>2 DEF IsGroup, b
  <1>7. CASE p.type = "domain"
    <2>1. b = [[g EXCEPT !.domain = domain] EXCEPT !.count = n + 1]
      BY <1>5, <1>7
    <2>2. b = [full |-> g.full, domain |-> domain, others |-> g.others, count |-> n + 1]
      BY <1>2, <2>1
    <2> QED BY <1>3, <1>4, <2>2 DEF IsGroup, b
  <1>8. CASE p.type \notin {"full", "domain"}
    <2>1. b = [[g EXCEPT !.others = more] EXCEPT !.count = n + 1]
      BY <1>5, <1>8
    <2>2. b = [full |-> g.full, domain |-> g.domain, others |-> more, count |-> n + 1]
      BY <1>2, <2>1
    <2> QED BY <1>3, <1>4, <2>2 DEF IsGroup, b
  <1> QED BY <1>6, <1>7, <1>8

LEMMA MphAddKeeps ==
    ASSUME NEW a, NEW b, NEW g, IsMph(g, a, b), NEW p \in Known("mph"),
           a \in Seq(Known("mph")), ~ (M!Exact(p) /\ g.frozen)
    PROVE  IsMph(M!MphAdd(g, p), Append(a, p), b)
  <1> DEFINE h == M!MphAdd(g, p)
             t == Append(a, p)
  <1>1. p \in AllPatterns /\ p.type \in M!Types /\ p.text \in Seq(STRING)
    BY PatternFacts DEF Known
  <1>2. /\ g = [ac |-> g.ac, others |-> g.others, ruleMap |-> g.ruleMap, rules |-> g.rules,
                level0 |-> g.level0, level1 |-> g.level1, frozen |-> g.frozen]
        /\ g.others \in Others({1}) /\ g.frozen \in BOOLEAN /\ (g.frozen <=> b > 0)
        /\ g.frozen => g.rules # << >>
    BY DEF IsMph
  <1>3. /\ \A i \in DOMAIN a : i \in DOMAIN t /\ t[i] = a[i]
        /\ Len(a) + 1 \in DOMAIN t /\ t[Len(a) + 1] = p
    <2>1. a \in Seq(Known("mph"))
      OBVIOUS
    <2> QED BY <2>1
  <1>4. \/ g.ac = << >>
        \/ /\ \E ac : g.ac = <<ac>> /\ IsAut(ac) /\ (b = 0 => IsTrie(ac))
           /\ \E i \in DOMAIN t : t[i].type = "substr"
    BY <1>3 DEF IsMph
  <1> HIDE DEF t
  <1>5. CASE p.type \in {"full", "domain"}
    <2> DEFINE m == [k \in M!Keys(p) |-> M!HashOf(p, k)] @@ g.ruleMap
    <2>1. h = [g EXCEPT !.ruleMap = m]
      BY <1>5 DEF M!MphAdd, M!Exact
    <2> HIDE DEF h, m
    <2>2. h = [ac |-> g.ac, others |-> g.others, ruleMap |-> m, rules |-> g.rules,
               level0 |-> g.level0, level1 |-> g.level1, frozen |-> g.frozen]
      BY <1>2, <2>1
    <2> QED BY <1>2, <1>4, <2>2 DEF IsMph, h, t
  <1>6. CASE p.type = "substr"
    <2> DEFINE old == IF g.ac = << >> THEN M!NewACAutomaton ELSE g.ac[1]
               new == M!ACAdd(old, p.text, "substr")
    <2>1. h = [g EXCEPT !.ac = <<new>>]
      BY <1>6 DEF M!MphAdd, M!Exact
    <2>2. IsAut(old) /\ (b = 0 => IsTrie(old))
      BY <1>4, NewAut
    <2>3. M!InTable(p.text) /\ "substr" \in M!Types
      BY <1>6 DEF Known, Automatic, M!Types
    <2> HIDE DEF old
    <2>4. IsAut(new) /\ (b = 0 => IsTrie(new))
      BY <1>1, <2>2, <2>3, AddKeeps
    <2> HIDE DEF h, new
    <2>5. h = [ac |-> <<new>>, others |-> g.others, ruleMap |-> g.ruleMap, rules |-> g.rules,
               level0 |-> g.level0, level1 |-> g.level1, frozen |-> g.frozen]
      BY <1>2, <2>1
    <2>6. \E i \in DOMAIN t : t[i].type = "substr"
      BY <1>3, <1>6
    <2> QED BY <1>2, <2>4, <2>5, <2>6 DEF IsMph, h, t
  <1>7. CASE p.type = "regex"
    <2> DEFINE more == Append(g.others, [p |-> p, id |-> 1])
    <2>1. h = [g EXCEPT !.others = more]
      BY <1>7 DEF M!MphAdd, M!Exact
    <2>2. more \in Others({1})
      BY <1>1, <1>2, OneMoreOther
    <2> HIDE DEF h, more
    <2>3. h = [ac |-> g.ac, others |-> more, ruleMap |-> g.ruleMap, rules |-> g.rules,
               level0 |-> g.level0, level1 |-> g.level1, frozen |-> g.frozen]
      BY <1>2, <2>1
    <2> QED BY <1>2, <1>4, <2>2, <2>3 DEF IsMph, h, t
  <1> QED BY <1>1, <1>5, <1>6, <1>7 DEF M!Types

(* Adding a pattern keeps what is true of a group. *)
LEMMA AddToKeeps ==
    ASSUME NEW k \in {"map", "group", "mph", "ac"}, NEW g, NEW a \in Seq(Known(k)), NEW b,
           GroupOK(k, g, a, b), NEW p \in Known(k),
           ~ (k = "mph" /\ M!Exact(p) /\ g.frozen)
    PROVE  GroupOK(k, M!AddTo(k, g, p), Append(a, p), b)
  <1>1. p \in AllPatterns /\ p.type \in M!Types /\ p.text \in Seq(STRING)
    BY PatternFacts DEF Known
  <1>2. Len(a) \in Nat /\ Len(Append(a, p)) = Len(a) + 1 /\ Append(a, p) # << >>
    OBVIOUS
  <1>3. CASE k = "map"
    BY <1>1, <1>3, MapAddKeeps DEF GroupOK, M!AddTo
  <1>4. CASE k = "group"
    <2>1. IsGroup(g, Len(a))
      BY <1>4 DEF GroupOK
    <2>2. IsGroup(M!GroupAdd(g, p), Len(a) + 1)
      BY <1>1, <1>2, <2>1, GroupAddKeeps
    <2> QED BY <1>2, <1>4, <2>2 DEF GroupOK, M!AddTo
  <1>5. CASE k = "mph"
    <2>1. IsMph(M!MphAdd(g, p), Append(a, p), b)
      BY <1>5, MphAddKeeps DEF GroupOK
    <2> QED BY <1>5, <2>1 DEF GroupOK, M!AddTo
  <1>6. CASE k = "ac"
    <2> DEFINE h == M!ACAdd(g, p.text, p.type)
    <2>1. IsAut(g) /\ (b = 0 => IsTrie(g)) /\ M!InTable(p.text)
      BY <1>6 DEF GroupOK, IsAutomaton, Known, Automatic
    <2>2. IsAut(h) /\ (b = 0 => IsTrie(h))
      BY <1>1, <2>1, AddKeeps
    <2>3. h = M!AddTo(k, g, p)
      BY <1>6 DEF M!AddTo
    <2> HIDE DEF h
    <2> QED BY <1>2, <1>6, <2>2, <2>3 DEF GroupOK, IsAutomaton
  <1> QED BY <1>3, <1>4, <1>5, <1>6

(* What is added at first, one pattern after another. *)
Preloaded(k, a) == CHOOSE g : g =
    [n \in 0 .. Len(a) |-> IF n = 0 THEN M!NewOf(k) ELSE M!AddTo(k, g[n - 1], a[n])]

LEMMA PreloadedFunction ==
    ASSUME NEW k, NEW a, Len(a) \in Nat
    PROVE  /\ Preloaded(k, a)[0] = M!NewOf(k)
           /\ \A n \in 1 .. Len(a) : Preloaded(k, a)[n] = M!AddTo(k, Preloaded(k, a)[n - 1], a[n])
  <1> DEFINE Body(g) == [n \in 0 .. Len(a) |->
                 IF n = 0 THEN M!NewOf(k) ELSE M!AddTo(k, g[n - 1], a[n])]
             all == Preloaded(k, a)
             N == Len(a)
             p == [first |-> M!NewOf(k), kind |-> k, added |-> a]
  <1>1. all = CHOOSE g : g = Body(g)
    BY DEF Preloaded
  <1>2. PICK g : g = Steps("adds", p, g, N)
    BY StepsTaken
  <1>3. g = Body(g)
    <2>1. \A n \in 0 .. N : g[n] = Body(g)[n]
      BY <1>2 DEF Steps, FirstOf, StepOf
    <2> QED BY <1>2, <2>1 DEF Steps
  <1> HIDE DEF all
  <1>5. all = Body(all)
    BY <1>1, <1>3
  <1>6. 0 \in 0 .. N /\ \A n \in 1 .. N : n \in 0 .. N /\ n # 0
    OBVIOUS
  <1>7. all[0] = Body(all)[0] /\ \A n \in 1 .. N : all[n] = Body(all)[n]
    BY <1>5
  <1> QED BY <1>6, <1>7 DEF all

FourKinds == {"map", "group", "mph", "ac"}

(* An empty group, and one that was filled before.                         *)
LEMMA NewIsOK ==
    ASSUME NEW k \in FourKinds
    PROVE  GroupOK(k, M!NewOf(k), << >>, 0)
  <1>1. IsMap(M!NewMap)
    BY DEF M!NewMap, IsMap, Others
  <1>2. IsGroup(M!NewGroup, 0)
    BY DEF M!NewGroup, IsGroup, Others, Listed
  <1>3. IsMph(M!NewMph, << >>, 0)
    <2> DEFINE g == M!NewMph
    <2>1. /\ g = [ac |-> g.ac, others |-> g.others, ruleMap |-> g.ruleMap, rules |-> g.rules,
                  level0 |-> g.level0, level1 |-> g.level1, frozen |-> g.frozen]
          /\ g.others = << >> /\ g.ac = << >> /\ g.frozen = FALSE
      BY DEF M!NewMph
    <2>2. << >> \in Others({1})
      BY DEF Others
    <2> HIDE DEF g
    <2>3. g.frozen \in BOOLEAN /\ (g.frozen <=> 0 > 0) /\ (g.frozen => g.rules # << >>)
      <3>1. ~ (0 > 0)
        OBVIOUS
      <3> QED BY <2>1, <3>1, Zenon
    <2>4. g.ac = << >> /\ g.others \in Others({1})
      BY <2>1, <2>2
    <2>5. g = [ac |-> g.ac, others |-> g.others, ruleMap |-> g.ruleMap, rules |-> g.rules,
               level0 |-> g.level0, level1 |-> g.level1, frozen |-> g.frozen]
      BY <2>1
    <2>6. IsMph(g, << >>, 0)
      BY <2>3, <2>4, <2>5, Zenon DEF IsMph
    <2> QED BY <2>6 DEF g
  <1>4. IsAutomaton(M!NewACAutomaton, << >>, 0)
    BY NewAut DEF IsAutomaton
  <1> QED BY <1>1, <1>2, <1>3, <1>4 DEF FourKinds, GroupOK, M!NewOf

LEMMA PreloadIsOK ==
    ASSUME NEW k \in FourKinds, NEW a \in Seq(Known(k))
    PROVE  GroupOK(k, M!Fold(LAMBDA g, p : M!AddTo(k, g, p), M!NewOf(k), a), a, 0)
  <1> DEFINE N == Len(a)
             g == Preloaded(k, a)
             Upto(n) == SubSeq(a, 1, n)
             T == {n \in 0 .. N : GroupOK(k, g[n], Upto(n), 0)}
  <1>1. /\ g[0] = M!NewOf(k)
        /\ \A n \in 1 .. N : g[n] = M!AddTo(k, g[n - 1], a[n])
    BY PreloadedFunction
  <1>2. N \in Nat /\ Upto(0) = << >> /\ Upto(N) = a
    BY SubSeqEnds
  <1>3. ASSUME NEW n \in 0 .. N - 1
        PROVE  /\ Upto(n) \in Seq(Known(k)) /\ a[n + 1] \in Known(k)
               /\ Upto(n + 1) = Append(Upto(n), a[n + 1])
    BY SubSeqGrows
  <1>7. M!Fold(LAMBDA g1, p1 : M!AddTo(k, g1, p1), M!NewOf(k), a) = g[N]
    BY DEF M!Fold, Preloaded
  <1> HIDE DEF g, Upto
  <1>4. 0 \in T
    BY <1>1, <1>2, NewIsOK
  <1>5. ASSUME NEW n \in 0 .. N - 1, n \in T
        PROVE  n + 1 \in T
    <2>1. n + 1 \in 1 .. N /\ n + 1 - 1 = n /\ n + 1 \in 0 .. N
      BY <1>2
    <2>2. g[n + 1] = M!AddTo(k, g[n], a[n + 1])
      BY <1>1, <2>1
    <2>3. GroupOK(k, g[n], Upto(n), 0)
      BY <1>5
    <2>4. k = "mph" => ~ g[n].frozen
      BY <2>3 DEF GroupOK, IsMph
    <2>5. GroupOK(k, g[n + 1], Upto(n + 1), 0)
      BY <1>3, <2>2, <2>3, <2>4, AddToKeeps DEF FourKinds
    <2> QED BY <2>1, <2>5
  <1> HIDE DEF T
  <1>6. N \in T
    <2>1. 0 .. N \subseteq T
      BY <1>2, <1>4, <1>5, InductionUpTo
    <2> QED BY <1>2, <2>1
  <1>8. GroupOK(k, g[N], a, 0)
    BY <1>2, <1>6 DEF T
  <1> QED BY <1>7, <1>8, Zenon

(* The invariant of the matchers. *)
MatchersInv ==
    /\ kind \in Kinds /\ kind \in FourKinds
    /\ added \in Seq(Known(kind))
    /\ builds \in 0 .. 2 /\ stale \in BOOLEAN
    /\ state.how \in {"ok", "panic", "hang"}
    /\ answer.query \in Queries \cup {<< >>}
    /\ answer.ids \in Seq(0 .. Len(added) + 1)
    /\ GroupOK(kind, group, added, builds)
    /\ M!DeadOnlyByMisuse

(* The invariant at the start.                                             *)
LEMMA MatchersStart ==
    ASSUME M!Init
    PROVE  MatchersInv
  <1>1. kind \in Kinds /\ kind \in FourKinds /\ added \in Preloads /\ builds = 0
        /\ stale = FALSE /\ answer = M!NoAnswer /\ state = M!Alive
    BY BoundsAssumption DEF M!Init, M!PatternsAssumption, FourKinds
  <1>2. added \in Seq(Known(kind))
    <2>1. added \in Seq(UNION {M!Range(s) : s \in Preloads})
      BY <1>1, BoundsAssumption DEF M!PatternsAssumption
    <2> DEFINE n == Len(added)
    <2>2. n \in Nat /\ DOMAIN added = 1 .. n /\ added = [i \in 1 .. n |-> added[i]]
      BY <2>1
    <2>3. ASSUME NEW i \in 1 .. n
          PROVE  added[i] \in Known(kind)
      <3>1. added[i] \in M!Range(added)
        BY <2>2 DEF M!Range
      <3>2. added[i] \in AllPatterns
        BY <1>1, <3>1 DEF AllPatterns
      <3>3. M!Compiles(added[i]) /\ M!InTable(added[i].text)
        BY <1>1, <3>1, BoundsAssumption DEF M!PatternsAssumption
      <3> QED BY <3>2, <3>3 DEF Known
    <2> HIDE DEF n
    <2> QED BY <2>2, <2>3
  <1>3. GroupOK(kind, group, added, builds)
    <2>1. group = M!Fold(LAMBDA g, p : M!AddTo(kind, g, p), M!NewOf(kind), added)
      BY DEF M!Init
    <2>2. GroupOK(kind, M!Fold(LAMBDA g, p : M!AddTo(kind, g, p), M!NewOf(kind), added), added, 0)
      BY <1>1, <1>2, PreloadIsOK
    <2> QED BY <1>1, <2>1, <2>2
  <1>4. M!DeadOnlyByMisuse /\ state.how = "ok"
    BY <1>1 DEF M!DeadOnlyByMisuse, M!Alive
  <1>5. answer.query = << >> /\ answer.ids = << >>
    BY <1>1 DEF M!NoAnswer
  <1>6. answer.ids \in Seq(0 .. Len(added) + 1)
    BY <1>5
  <1>7. builds \in 0 .. 2 /\ stale \in BOOLEAN
    <2>1. builds = 0 /\ stale = FALSE
      BY <1>1
    <2>2. builds \in 0 .. 2
      BY <2>1
    <2>3. stale \in BOOLEAN
      BY <2>1, Zenon
    <2> QED BY <2>2, <2>3
  <1>8. state.how \in {"ok", "panic", "hang"} /\ answer.query \in Queries \cup {<< >>}
    BY <1>4, <1>5
  <1>9. kind \in Kinds /\ kind \in FourKinds
    BY <1>1
  <1> QED BY <1>2, <1>3, <1>4, <1>6, <1>7, <1>8, <1>9 DEF MatchersInv

(* The labels of a text. *)
CutLabels(text) == CHOOSE g : g =
    [i \in 0 .. Len(text) |->
        IF i = 0 THEN << << >> >>
        ELSE IF text[i] = "." THEN Append(g[i - 1], << >>)
        ELSE Append(M!Front(g[i - 1]), Append(M!Last(g[i - 1]), text[i]))]

LEMMA CutLabelsFunction ==
    ASSUME NEW text, Len(text) \in Nat
    PROVE  /\ M!Labels(text) = CutLabels(text)[Len(text)]
           /\ CutLabels(text)[0] = << << >> >>
           /\ \A i \in 1 .. Len(text) :
                CutLabels(text)[i] =
                  IF text[i] = "." THEN Append(CutLabels(text)[i - 1], << >>)
                  ELSE Append(M!Front(CutLabels(text)[i - 1]),
                              Append(M!Last(CutLabels(text)[i - 1]), text[i]))
  <1> DEFINE Body(g) == [i \in 0 .. Len(text) |->
                 IF i = 0 THEN << << >> >>
                 ELSE IF text[i] = "." THEN Append(g[i - 1], << >>)
                 ELSE Append(M!Front(g[i - 1]), Append(M!Last(g[i - 1]), text[i]))]
             all == CutLabels(text)
             N == Len(text)
             p == [first |-> << << >> >>, text |-> text]
  <1>1. M!Labels(text) = all[N]
    BY DEF M!Labels, CutLabels
  <1>2. all = CHOOSE g : g = Body(g)
    BY DEF CutLabels
  <1>3. PICK g : g = Steps("labels", p, g, N)
    BY StepsTaken
  <1>4. g = Body(g)
    <2>1. \A i \in 0 .. N : g[i] = Body(g)[i]
      BY <1>3, Zenon DEF Steps, FirstOf, StepOf
    <2> QED BY <1>3, <2>1 DEF Steps
  <1> HIDE DEF all
  <1>5. all = Body(all)
    BY <1>2, <1>4, Zenon
  <1>6. 0 \in 0 .. N /\ \A i \in 1 .. N : i \in 0 .. N /\ i # 0
    OBVIOUS
  <1>7. all[0] = Body(all)[0] /\ \A i \in 1 .. N : all[i] = Body(all)[i]
    BY <1>5
  <1> QED BY <1>1, <1>6, <1>7 DEF all

LEMMA OneMoreOf ==
    ASSUME NEW W, NEW s \in Seq(W), NEW x \in W
    PROVE  Append(s, x) \in Seq(W) /\ Append(s, x) # << >>
  <1> DEFINE u == Append(s, x)
  <1>1. u \in Seq(W) /\ Len(u) = Len(s) + 1 /\ Len(s) \in Nat
    OBVIOUS
  <1> HIDE DEF u
  <1>2. Len(u) # 0
    BY <1>1
  <1>3. u # << >>
    BY <1>2
  <1> QED BY <1>1, <1>3 DEF u

LEMMA LastCut ==
    ASSUME NEW W, NEW ls \in Seq(Seq(W)), ls # << >>, NEW c \in W
    PROVE  /\ Append(ls, << >>) \in Seq(Seq(W)) /\ Append(ls, << >>) # << >>
           /\ Append(M!Front(ls), Append(M!Last(ls), c)) \in Seq(Seq(W))
           /\ Append(M!Front(ls), Append(M!Last(ls), c)) # << >>
  <1>1. M!Front(ls) \in Seq(Seq(W)) /\ M!Last(ls) \in Seq(W)
    BY DEF M!Front, M!Last
  <1>2. << >> \in Seq(W) /\ Append(M!Last(ls), c) \in Seq(W)
    BY <1>1
  <1> DEFINE V == Seq(W)
             last == Append(M!Last(ls), c)
             front == M!Front(ls)
             none == << >>
  <1>3. ls \in Seq(V) /\ front \in Seq(V) /\ last \in V /\ none \in V
    BY <1>1, <1>2
  <1> HIDE DEF V, last, front, none
  <1>4. Append(ls, none) \in Seq(V) /\ Append(ls, none) # << >>
    BY <1>3, OneMoreOf
  <1>5. Append(front, last) \in Seq(V) /\ Append(front, last) # << >>
    BY <1>3, OneMoreOf
  <1> QED BY <1>4, <1>5 DEF V, last, front, none

(* Cut into labels, a text is as many texts.                               *)
LEMMA LabelsType ==
    ASSUME NEW text \in Seq(STRING)
    PROVE  M!Labels(text) \in Seq(Seq(STRING))
  <1> DEFINE N == Len(text)
             g == CutLabels(text)
             T == {i \in 0 .. N : g[i] \in Seq(Seq(STRING)) /\ g[i] # << >>}
  <1>1. /\ M!Labels(text) = g[N] /\ g[0] = << << >> >>
        /\ \A i \in 1 .. N : g[i] =
                  IF text[i] = "." THEN Append(g[i - 1], << >>)
                  ELSE Append(M!Front(g[i - 1]), Append(M!Last(g[i - 1]), text[i]))
    BY CutLabelsFunction
  <1>2. N \in Nat /\ \A i \in 1 .. N : text[i] \in STRING
    OBVIOUS
  <1> HIDE DEF g
  <1>3. 0 \in T
    <2>1. << << >> >> \in Seq(Seq(STRING)) /\ << << >> >> # << >>
      OBVIOUS
    <2>2. g[0] \in Seq(Seq(STRING)) /\ g[0] # << >>
      BY <1>1, <2>1, Zenon
    <2>3. 0 \in 0 .. N
      BY <1>2
    <2> QED BY <2>2, <2>3
  <1>4. ASSUME NEW i \in 0 .. N - 1, i \in T
        PROVE  i + 1 \in T
    <2>1. i + 1 \in 1 .. N /\ i + 1 - 1 = i /\ i + 1 \in 0 .. N
      BY <1>2
    <2>2. g[i + 1] = IF text[i + 1] = "." THEN Append(g[i], << >>)
                     ELSE Append(M!Front(g[i]), Append(M!Last(g[i]), text[i + 1]))
      BY <1>1, <2>1
    <2>3. g[i] \in Seq(Seq(STRING)) /\ g[i] # << >> /\ text[i + 1] \in STRING
      BY <1>2, <1>4, <2>1
    <2>4. g[i + 1] \in Seq(Seq(STRING)) /\ g[i + 1] # << >>
      BY <2>2, <2>3, LastCut
    <2> QED BY <2>1, <2>4
  <1> HIDE DEF T
  <1>5. N \in T
    <2>1. 0 .. N \subseteq T
      BY <1>2, <1>3, <1>4, InductionUpTo
    <2> QED BY <1>2, <2>1
  <1> QED BY <1>1, <1>5 DEF T

(* The answers are ids of patterns. *)
LEMMA RegexIdsType ==
    ASSUME NEW I, NEW os \in Others(I), NEW s
    PROVE  M!RegexIds(os, s) \in Seq(I)
  <1> DEFINE N == Len(os)
             J == {i \in 1 .. N : M!Matches(os[i].p, s)}
             k == IF J # {} THEN M!Min(J) ELSE 0
  <1>1. M!RegexIds(os, s) = IF k = 0 THEN << >> ELSE <<os[k].id>>
    BY DEF M!RegexIds, M!SelectInSeq
  <1>2. N \in Nat /\ \A i \in 1 .. N : os[i].id \in I
    <2> DEFINE O == [p : AllPatterns, id : I]
    <2>1. os \in Seq(O)
      BY DEF Others
    <2>2. \A o \in O : o.id \in I
      OBVIOUS
    <2> HIDE DEF O
    <2>3. N \in Nat /\ \A i \in 1 .. N : os[i] \in O
      BY <2>1, MemberFacts
    <2> QED BY <2>2, <2>3
  <1>3. k # 0 => k \in 1 .. N
    <2>1. ASSUME J # {}
          PROVE  M!Min(J) \in J
      <3>1. J \in SUBSET Nat
        BY <1>2
      <3> HIDE DEF J
      <3>2. \E x \in J : \A y \in J : x <= y
        BY <2>1, <3>1, LeastNumber
      <3> QED BY <3>2 DEF M!Min
    <2> QED BY <2>1
  <1> HIDE DEF k
  <1> QED BY <1>1, <1>2, <1>3

(* What a lookup finds has ids of patterns that were added.                *)
LEMMA MappedListed ==
    ASSUME NEW n \in Nat, NEW f, Listed(f, n), NEW W, NEW nodes \in Seq(W),
           ToSet(nodes) \subseteq DOMAIN f
    PROVE  M!LongerFirst([k \in DOMAIN nodes |-> f[nodes[k]]]) \in Seq(1 .. n)
  <1> DEFINE V == 1 .. n
             found == [k \in DOMAIN nodes |-> f[nodes[k]]]
             turned == M!Reverse(found)
             N == Len(nodes)
  <1>1. /\ N \in Nat /\ DOMAIN nodes = 1 .. N
        /\ \A k \in 1 .. N : nodes[k] \in DOMAIN f
    BY MemberFacts
  <1>2. found \in [1 .. N -> Seq(V)]
    BY <1>1 DEF Listed
  <1> HIDE DEF found, N, V
  <1>3. found \in Seq(Seq(V)) /\ Len(found) = N
    BY <1>1, <1>2
  <1>4. turned \in [1 .. N -> Seq(V)]
    <2>1. turned = [i \in 1 .. N |-> found[(N - i) + 1]]
      BY <1>3 DEF M!Reverse
    <2>2. \A i \in 1 .. N : (N - i) + 1 \in 1 .. N
      BY <1>1
    <2> QED BY <1>2, <2>1, <2>2
  <1> HIDE DEF turned
  <1>5. turned \in Seq(Seq(V))
    BY <1>1, <1>4, FunctionIsSeq
  <1>6. Flat(turned) \in Seq(V)
    BY <1>5, FlatFacts
  <1>7. M!LongerFirst(found) = Flat(turned)
    BY DEF M!LongerFirst, M!Flat, Flat, turned
  <1> QED BY <1>6, <1>7 DEF found, V

LEMMA DomainMatchType ==
    ASSUME NEW n \in Nat, NEW f, Listed(f, n), NEW s \in Seq(STRING)
    PROVE  M!DomainMatch(f, s) \in Seq(1 .. n)
  <1> DEFINE path == M!Reverse(M!Labels(s))
             starts == [k \in DOMAIN path |-> SubSeq(path, 1, k)]
             W == {SubSeq(path, 1, k) : k \in DOMAIN path}
             nodes == M!Sifted(starts, DOMAIN f)
             N == Len(M!Labels(s))
  <1>1. N \in Nat
    BY LabelsType
  <1>2. DOMAIN path = 1 .. N
    BY DEF M!Reverse
  <1> HIDE DEF path, N
  <1>3. starts \in Seq(W)
    BY <1>1, <1>2, FunctionIsSeq
  <1> HIDE DEF starts
  <1>4. nodes \in Seq(W) /\ ToSet(nodes) \subseteq DOMAIN f
    BY <1>3, SiftIsSift, SiftedFacts
  <1> HIDE DEF W, nodes
  <1>5. M!LongerFirst([k \in DOMAIN nodes |-> f[nodes[k]]]) \in Seq(1 .. n)
    BY <1>4, MappedListed
  <1>6. M!DomainMatch(f, s) = IF s = << >> THEN << >>
          ELSE M!LongerFirst([k \in DOMAIN nodes |-> f[nodes[k]]])
    BY DEF M!DomainMatch, nodes, starts, path
  <1> QED BY <1>5, <1>6

LEMMA GroupMatchType ==
    ASSUME NEW n \in Nat, NEW g, IsGroup(g, n), NEW s \in Seq(STRING)
    PROVE  M!GroupMatch(g, s) \in Seq(1 .. n)
  <1> DEFINE V == 1 .. n
             O == [p : AllPatterns, id : V]
             hits == M!Sifted(g.others, {e \in M!Range(g.others) : M!Matches(e.p, s)})
             exact == IF s \in DOMAIN g.full THEN g.full[s] ELSE << >>
             domain == M!DomainMatch(g.domain, s)
             ids == [k \in DOMAIN hits |-> hits[k].id]
  <1>1. exact \in Seq(V)
    <2>1. CASE s \in DOMAIN g.full
      BY <2>1 DEF IsGroup, Listed
    <2>2. CASE s \notin DOMAIN g.full
      <3>1. exact = << >>
        BY <2>2
      <3> HIDE DEF exact, V
      <3> QED BY <3>1
    <2> QED BY <2>1, <2>2
  <1>2. domain \in Seq(V)
    BY DomainMatchType DEF IsGroup
  <1>3. ids \in Seq(V)
    <2>1. g.others \in Seq(O)
      BY DEF IsGroup, Others
    <2>2. hits \in Seq(O)
      BY <2>1, SiftIsSift, SiftedFacts
    <2> HIDE DEF hits, O
    <2>3. Len(hits) \in Nat /\ DOMAIN hits = 1 .. Len(hits) /\ \A k \in 1 .. Len(hits) : hits[k] \in O
      BY <2>2, MemberFacts
    <2>4. ids \in [1 .. Len(hits) -> V]
      BY <2>3 DEF O
    <2> HIDE DEF V, ids
    <2> QED BY <2>3, <2>4, FunctionIsSeq
  <1>4. M!GroupMatch(g, s) = exact \o domain \o ids
    BY DEF M!GroupMatch
  <1> HIDE DEF exact, domain, ids, V
  <1>5. exact \o domain \in Seq(V)
    BY <1>1, <1>2, ConcatType
  <1>6. exact \o domain \o ids \in Seq(V)
    BY <1>3, <1>5, ConcatType
  <1> QED BY <1>4, <1>6 DEF V

(* A call that kills the process leaves everything else as it is. *)
LEMMA DeathKeeps ==
    ASSUME MatchersInv, UNCHANGED <<kind, group, added, builds, stale, answer>>,
           state'.how \in {"ok", "panic", "hang"}, M!DeadOnlyByMisuse'
    PROVE  MatchersInv'
  <1>1. (GroupOK(kind, group, added, builds))'
    BY DEF MatchersInv
  <1>2. added' \in Seq(Known(kind')) /\ kind' \in FourKinds /\ kind' \in Kinds
    BY DEF MatchersInv
  <1>3. answer'.ids \in Seq(0 .. Len(added') + 1) /\ answer'.query \in Queries \cup {<< >>}
    BY DEF MatchersInv
  <1>4. builds' \in 0 .. 2 /\ stale' \in BOOLEAN
    BY DEF MatchersInv
  <1> QED BY <1>1, <1>2, <1>3, <1>4 DEF MatchersInv

(* AddPattern: it panics only as DeadOnlyByMisuse says, and adds otherwise. *)
LEMMA AddPatternKeeps ==
    ASSUME MatchersInv, NEW p \in Patterns, M!AddPattern(p)
    PROVE  MatchersInv'
  <1> USE DEF FourKinds
  <1>1. state = M!Alive
    BY DEF M!AddPattern
  <1>2. CASE M!AddPanics(p) /\ M!Die("panic", "add", p)
    <2>1. /\ state' = [how |-> "panic", call |-> "add", p |-> p]
          /\ UNCHANGED <<kind, group, added, builds, stale, answer>>
      BY <1>2 DEF M!Die
    <2>2. state'.how = "panic" /\ state'.call = "add" /\ state'.p = p
      BY <2>1
    <2>3. kind = "mph" /\ group.frozen => builds > 0
      BY DEF MatchersInv, GroupOK, IsMph
    <2>4. IF M!ToAutomaton(p) THEN ~ M!InTable(p.text)
          ELSE kind = "mph" /\ M!Exact(p) /\ builds > 0
      BY <1>2, <2>3 DEF M!AddPanics, M!Exact, M!ToAutomaton
    <2>5. M!ToAutomaton(p)' <=> M!ToAutomaton(p)
      BY <2>1 DEF M!ToAutomaton
    <2>6. M!DeadOnlyByMisuse'
      BY <2>1, <2>2, <2>4, <2>5 DEF M!DeadOnlyByMisuse, M!ToAutomaton
    <2> QED BY <2>1, <2>2, <2>6, DeathKeeps
  <1>3. CASE UNCHANGED M!vars
    <2>1. state'.how = "ok" /\ M!DeadOnlyByMisuse'
      BY <1>1, <1>3 DEF M!vars, M!DeadOnlyByMisuse, M!Alive
    <2> QED BY <1>3, <2>1, DeathKeeps DEF M!vars, MatchersInv
  <1>4. CASE ~ M!AddPanics(p) /\ M!Compiles(p) /\ group' = M!AddTo(kind, group, p)
             /\ added' = Append(added, p) /\ stale' = TRUE /\ answer' = M!NoAnswer
             /\ UNCHANGED <<kind, builds, state>>
    <2>1. p \in Known(kind)
      <3>1. p \in AllPatterns /\ M!Compiles(p)
        BY <1>4 DEF AllPatterns
      <3>2. Automatic(kind, p) => M!InTable(p.text)
        BY <1>4 DEF M!AddPanics, M!ToAutomaton, Automatic
      <3> QED BY <3>1, <3>2 DEF Known
    <2>2. ~ (kind = "mph" /\ M!Exact(p) /\ group.frozen)
      BY <1>4 DEF M!AddPanics
    <2>3. added \in Seq(Known(kind)) /\ kind \in FourKinds /\ GroupOK(kind, group, added, builds)
      BY DEF MatchersInv
    <2>4. GroupOK(kind, M!AddTo(kind, group, p), Append(added, p), builds)
      BY <2>1, <2>2, <2>3, AddToKeeps
    <2>5. (GroupOK(kind, group, added, builds))'
      BY <1>4, <2>4
    <2>6. added' \in Seq(Known(kind'))
      BY <1>4, <2>1, <2>3
    <2>7. M!DeadOnlyByMisuse' /\ state'.how = "ok"
      BY <1>1, <1>4 DEF M!DeadOnlyByMisuse, M!Alive
    <2>8. answer'.query = << >> /\ answer'.ids = << >>
      BY <1>4 DEF M!NoAnswer
    <2>9. answer'.ids \in Seq(0 .. Len(added') + 1) /\ answer'.query \in Queries \cup {<< >>}
      BY <2>8
    <2>10. builds' \in 0 .. 2 /\ kind' \in FourKinds /\ kind' \in Kinds
      BY <1>4 DEF MatchersInv
    <2>11. stale' \in BOOLEAN
      BY <1>4, Zenon
    <2> QED BY <2>5, <2>6, <2>7, <2>9, <2>10, <2>11 DEF MatchersInv
  <1> QED BY <1>2, <1>3, <1>4 DEF M!AddPattern

(* Build never ends only where something is built again. *)
LEMMA HangsOnlyAgain ==
    ASSUME MatchersInv, M!BuildHangs
    PROVE  builds > 0 /\ M!InAutomaton # {}
  <1> USE DEF FourKinds
  <1>1. /\ kind \in FourKinds /\ added \in Seq(Known(kind)) /\ builds \in Nat
        /\ GroupOK(kind, group, added, builds)
    BY DEF MatchersInv
  <1>2. M!InAutomaton # {} <=> \E i \in DOMAIN added : M!ToAutomaton(added[i])
    BY DEF M!InAutomaton
  <1>3. CASE kind = "ac"
    <2>1. M!Automaton[1] = group
      BY <1>3 DEF M!Automaton
    <2>2. IsAutomaton(group, added, builds) /\ ~ M!BuildEnds(group)
      BY <1>1, <1>3, <2>1 DEF GroupOK, M!BuildHangs
    <2>3. ~ IsTrie(group) /\ group.count # 0
      BY <2>2, TrieIsBuilt, EmptyIsBuilt DEF IsAutomaton
    <2>4. builds # 0 /\ added # << >>
      BY <2>2, <2>3 DEF IsAutomaton
    <2>5. \E i \in DOMAIN added : M!ToAutomaton(added[i])
      <3>1. 1 \in DOMAIN added
        BY <1>1, <2>4
      <3> QED BY <1>3, <3>1 DEF M!ToAutomaton
    <2> QED BY <1>1, <1>2, <2>4, <2>5
  <1>4. CASE kind = "mph"
    <2>1. M!Automaton = group.ac
      BY <1>4 DEF M!Automaton
    <2>2. IsMph(group, added, builds) /\ group.ac # << >> /\ ~ M!BuildEnds(group.ac[1])
      BY <1>1, <1>4, <2>1 DEF GroupOK, M!BuildHangs
    <2>3. PICK ac : group.ac = <<ac>> /\ IsAut(ac) /\ (builds = 0 => IsTrie(ac))
      BY <2>2 DEF IsMph
    <2>4. \E i \in DOMAIN added : added[i].type = "substr"
      BY <2>2 DEF IsMph
    <2>5. group.ac[1] = ac
      BY <2>3
    <2>6. builds # 0
      BY <2>2, <2>3, <2>5, TrieIsBuilt
    <2> QED BY <1>1, <1>2, <1>4, <2>4, <2>6 DEF M!ToAutomaton
  <1>5. CASE kind \notin {"ac", "mph"}
    BY <1>5 DEF M!BuildHangs, M!Automaton
  <1> QED BY <1>3, <1>4, <1>5

(* Build of an mph group, with whatever order of its map.                  *)
LEMMA MphBuildKeeps ==
    ASSUME NEW g, NEW a, NEW b \in Nat, IsMph(g, a, b), NEW rules_,
           rules_ \in M!Orders(M!OrSpare(g.ruleMap)), NEW ties
    PROVE  IsMph(M!MphBuild(g, rules_, ties), a, b + 1)
  <1> DEFINE h == M!MphBuild(g, rules_, ties)
             t == M!MphTables(g, rules_, ties)
             ac == IF g.ac = << >> THEN g.ac ELSE <<M!ACBuild(g.ac[1])>>
  <1>1. /\ g = [ac |-> g.ac, others |-> g.others, ruleMap |-> g.ruleMap, rules |-> g.rules,
                level0 |-> g.level0, level1 |-> g.level1, frozen |-> g.frozen]
        /\ g.others \in Others({1})
    BY DEF IsMph
  <1>2. h = [g EXCEPT !.ac = ac, !.rules = rules_, !.level0 = t.level0, !.level1 = t.level1,
                      !.ruleMap = << >>, !.frozen = TRUE]
    BY DEF M!MphBuild
  <1>3. rules_ # << >>
    <2>1. M!Range(rules_) = DOMAIN M!OrSpare(g.ruleMap)
      BY DEF M!Orders
    <2>2. DOMAIN M!OrSpare(g.ruleMap) # {}
      BY DEF M!OrSpare
    <2>3. M!Range(<< >>) = {}
      BY DEF M!Range
    <2> QED BY <2>1, <2>2, <2>3
  <1>4. \/ ac = << >>
        \/ /\ \E x : ac = <<x>> /\ IsAut(x)
           /\ \E i \in DOMAIN a : a[i].type = "substr"
    <2>1. CASE g.ac = << >>
      BY <2>1
    <2>2. CASE g.ac # << >>
      <3>1. PICK x : g.ac = <<x>> /\ IsAut(x)
        BY <2>2 DEF IsMph
      <3>2. g.ac[1] = x /\ IsAut(M!ACBuild(x))
        BY <3>1, BuildKeeps
      <3>3. \E i \in DOMAIN a : a[i].type = "substr"
        BY <2>2 DEF IsMph
      <3> QED BY <2>2, <3>2, <3>3
    <2> QED BY <2>1, <2>2
  <1> HIDE DEF h, t, ac
  <1>5. h = [ac |-> ac, others |-> g.others, ruleMap |-> << >>, rules |-> rules_,
             level0 |-> t.level0, level1 |-> t.level1, frozen |-> TRUE]
    BY <1>1, <1>2
  <1>6. /\ h = [ac |-> h.ac, others |-> h.others, ruleMap |-> h.ruleMap, rules |-> h.rules,
                level0 |-> h.level0, level1 |-> h.level1, frozen |-> h.frozen]
        /\ h.ac = ac /\ h.others \in Others({1}) /\ h.rules # << >>
    BY <1>1, <1>3, <1>5
  <1>7. h.frozen \in BOOLEAN /\ (h.frozen <=> b + 1 > 0)
    <2>1. h.frozen = TRUE
      BY <1>5
    <2>2. b + 1 > 0
      OBVIOUS
    <2> QED BY <2>1, <2>2, Zenon
  <1>8. b + 1 # 0
    OBVIOUS
  <1>9. IsMph(h, a, b + 1)
    <2>1. \/ h.ac = << >>
          \/ /\ \E x : h.ac = <<x>> /\ IsAut(x) /\ (b + 1 = 0 => IsTrie(x))
             /\ \E i \in DOMAIN a : a[i].type = "substr"
      BY <1>4, <1>6, <1>8
    <2> QED BY <1>6, <1>7, <2>1, Zenon DEF IsMph
  <1> QED BY <1>9 DEF h

(* Build of any group; the first one ends, if it is none of the misuses.   *)
LEMMA BuildKeepsMatchers ==
    ASSUME MatchersInv, M!Build
    PROVE  MatchersInv'
  <1>1. /\ state = M!Alive /\ builds \in 0 .. 1 /\ kind \in FourKinds
        /\ added \in Seq(Known(kind)) /\ GroupOK(kind, group, added, builds)
    BY DEF M!Build, MatchersInv
  <1>2. CASE M!BuildHangs
    <2>1. /\ state' = [how |-> "hang", call |-> "build", p |-> << >>]
          /\ UNCHANGED <<kind, group, added, builds, stale, answer>>
      BY <1>2 DEF M!Build, M!Die
    <2>2. state'.how = "hang" /\ state'.call = "build"
      BY <2>1
    <2>3. builds > 0 /\ M!InAutomaton # {}
      BY <1>2, HangsOnlyAgain
    <2>4. M!InAutomaton' = M!InAutomaton
      BY <2>1 DEF M!InAutomaton, M!ToAutomaton
    <2>5. M!DeadOnlyByMisuse'
      BY <2>1, <2>2, <2>3, <2>4 DEF M!DeadOnlyByMisuse
    <2> QED BY <2>1, <2>2, <2>5, DeathKeeps
  <1>3. CASE ~ M!BuildHangs /\ kind = "mph" /\ group.frozen
    <2>1. /\ state' = [how |-> "panic", call |-> "build", p |-> << >>]
          /\ UNCHANGED <<kind, group, added, builds, stale, answer>>
      BY <1>3 DEF M!Build, M!Die
    <2>2. state'.how = "panic" /\ state'.call = "build"
      BY <2>1
    <2>3. builds > 0
      BY <1>1, <1>3 DEF GroupOK, IsMph
    <2>4. M!DeadOnlyByMisuse'
      BY <1>3, <2>1, <2>2, <2>3 DEF M!DeadOnlyByMisuse
    <2> QED BY <2>1, <2>2, <2>4, DeathKeeps
  <1>4. CASE kind = "mph" /\ M!SeedsFail /\ M!Die("hang", "seeds", << >>)
    <2>1. /\ state' = [how |-> "hang", call |-> "seeds", p |-> << >>]
          /\ UNCHANGED <<kind, group, added, builds, stale, answer>>
      BY <1>4 DEF M!Die
    <2>2. state'.how = "hang" /\ state'.call = "seeds"
      BY <2>1
    <2>3. M!SeedsFail' <=> M!SeedsFail
      BY <2>1, Zenon DEF M!SeedsFail
    <2>4. M!DeadOnlyByMisuse'
      BY <1>4, <2>1, <2>2, <2>3 DEF M!DeadOnlyByMisuse
    <2> QED BY <2>1, <2>2, <2>4, DeathKeeps
  <1>5. CASE M!Built
    <2>1. /\ CASE kind = "ac" -> group' = M!ACBuild(group)
                 [] kind = "mph" ->
                      \E rs \in M!Orders(M!OrSpare(group.ruleMap)), ties \in BOOLEAN :
                         group' = M!MphBuild(group, rs, ties)
                 [] OTHER -> UNCHANGED group
          /\ builds' = builds + 1 /\ stale' = FALSE /\ answer' = M!NoAnswer
          /\ UNCHANGED <<kind, added, state>>
      BY <1>5 DEF M!Built
    <2>2. builds \in Nat /\ builds + 1 # 0 /\ builds' \in 0 .. 2
      BY <1>1, <2>1
    <2>3. (GroupOK(kind, group, added, builds))'
      <3>1. CASE kind = "ac"
        <4>1. IsAut(group) /\ (added = << >> => group.count = 0) /\ group' = M!ACBuild(group)
          BY <1>1, <2>1, <3>1 DEF GroupOK, IsAutomaton
        <4>2. IsAut(group') /\ group'.count = group.count
          BY <4>1, BuildKeeps
        <4>3. IsAutomaton(group', added', builds')
          BY <2>1, <2>2, <4>1, <4>2 DEF IsAutomaton
        <4> QED BY <2>1, <3>1, <4>3 DEF GroupOK
      <3>2. CASE kind = "mph"
        <4>1. PICK rs \in M!Orders(M!OrSpare(group.ruleMap)), ties \in BOOLEAN :
                group' = M!MphBuild(group, rs, ties)
          BY <2>1, <3>2
        <4>2. IsMph(group, added, builds)
          BY <1>1, <3>2 DEF GroupOK
        <4>3. IsMph(M!MphBuild(group, rs, ties), added, builds + 1)
          BY <2>2, <4>2, MphBuildKeeps
        <4>4. IsMph(group', added', builds')
          BY <2>1, <4>1, <4>3
        <4> QED BY <2>1, <3>2, <4>4 DEF GroupOK
      <3>3. CASE kind \notin {"ac", "mph"}
        BY <1>1, <2>1, <3>3 DEF GroupOK
      <3> QED BY <3>1, <3>2, <3>3
    <2>4. M!DeadOnlyByMisuse' /\ state'.how = "ok"
      BY <1>1, <2>1 DEF M!DeadOnlyByMisuse, M!Alive
    <2>5. answer'.query = << >> /\ answer'.ids = << >>
      BY <2>1 DEF M!NoAnswer
    <2>6. answer'.ids \in Seq(0 .. Len(added') + 1) /\ answer'.query \in Queries \cup {<< >>}
      BY <2>5
    <2>7. kind' \in FourKinds /\ kind' \in Kinds /\ added' \in Seq(Known(kind'))
      BY <1>1, <2>1 DEF MatchersInv
    <2>8. stale' \in BOOLEAN
      BY <2>1, Zenon
    <2> QED BY <2>2, <2>3, <2>4, <2>6, <2>7, <2>8 DEF MatchersInv
  <1>6. M!BuildHangs \/ (~ M!BuildHangs /\ kind = "mph" /\ group.frozen)
        \/ (kind = "mph" /\ M!SeedsFail /\ M!Die("hang", "seeds", << >>)) \/ M!Built
    BY DEF M!Build
  <1> QED BY <1>2, <1>3, <1>4, <1>5, <1>6

Answered(s) ==
    CASE kind = "map"   -> M!MapMatch(group, s)
      [] kind = "group" -> M!GroupMatch(group, s)
      [] kind = "mph"   -> M!MphMatch(group, s)
      [] kind = "ac"    -> IF M!ACMatch(group, s) THEN <<1>> ELSE << >>

(* The answer of a Match has no other ids.                                 *)
LEMMA AnsweredType ==
    ASSUME MatchersInv, NEW s \in Queries
    PROVE  Answered(s) \in Seq(0 .. Len(added) + 1)
  <1> DEFINE n == Len(added)
             V == 0 .. n + 1
  <1>1. /\ n \in Nat /\ kind \in FourKinds /\ GroupOK(kind, group, added, builds)
    BY DEF MatchersInv
  <1>2. s \in Seq(STRING)
    BY BoundsAssumption DEF M!PatternsAssumption
  <1> HIDE DEF n
  <1>3. << >> \in Seq(V) /\ <<1>> \in Seq(V) /\ {0} \subseteq V /\ {1} \subseteq V
        /\ 1 .. n \subseteq V
    <2>1. 1 \in V /\ {0} \subseteq V /\ {1} \subseteq V /\ 1 .. n \subseteq V
      BY <1>1
    <2> HIDE DEF V
    <2> QED BY <2>1
  <1> HIDE DEF V
  <1>4. CASE kind = "map"
    <2>1. group.others \in Others({0})
      BY <1>1, <1>4 DEF GroupOK, IsMap
    <2>2. M!RegexIds(group.others, s) \in Seq({0})
      BY <2>1, RegexIdsType
    <2>3. M!RegexIds(group.others, s) \in Seq(V)
      BY <1>3, <2>2, SeqOfMore
    <2>4. Answered(s) = M!MapMatch(group, s)
      BY <1>4 DEF Answered
    <2>5. Answered(s) = <<1>> \/ Answered(s) = M!RegexIds(group.others, s)
      BY <2>4 DEF M!MapMatch
    <2> QED BY <1>3, <2>3, <2>5 DEF V, n
  <1>5. CASE kind = "group"
    <2>1. IsGroup(group, n)
      BY <1>1, <1>5 DEF GroupOK, n
    <2>2. Answered(s) = M!GroupMatch(group, s)
      BY <1>5 DEF Answered
    <2>3. Answered(s) \in Seq(1 .. n)
      BY <1>1, <1>2, <2>1, <2>2, GroupMatchType
    <2>4. Answered(s) \in Seq(V)
      BY <1>3, <2>3, SeqOfMore
    <2> QED BY <2>4 DEF V, n
  <1>6. CASE kind = "mph"
    <2>1. group.others \in Others({1})
      BY <1>1, <1>6 DEF GroupOK, IsMph
    <2>2. M!RegexIds(group.others, s) \in Seq({1})
      BY <2>1, RegexIdsType
    <2>3. M!RegexIds(group.others, s) \in Seq(V)
      BY <1>3, <2>2, SeqOfMore
    <2>4. Answered(s) = M!MphMatch(group, s)
      BY <1>6 DEF Answered
    <2>5. Answered(s) = <<1>> \/ Answered(s) = M!RegexIds(group.others, s)
      BY <2>4 DEF M!MphMatch
    <2> QED BY <1>3, <2>3, <2>5 DEF V, n
  <1>7. CASE kind = "ac"
    <2>1. Answered(s) = IF M!ACMatch(group, s) THEN <<1>> ELSE << >>
      BY <1>7 DEF Answered
    <2> QED BY <1>3, <2>1 DEF V, n
  <1> QED BY <1>1, <1>4, <1>5, <1>6, <1>7 DEF FourKinds

(* Match: an mph group that was not built has no table to look at.         *)
LEMMA MatchKeeps ==
    ASSUME MatchersInv, NEW s \in Queries, M!Match(s)
    PROVE  MatchersInv'
  <1>1. /\ state = M!Alive /\ builds \in 0 .. 2 /\ kind \in FourKinds
        /\ added \in Seq(Known(kind)) /\ GroupOK(kind, group, added, builds)
    BY DEF M!Match, MatchersInv
  <1>2. CASE M!MatchPanics
    <2>1. /\ state' = [how |-> "panic", call |-> "match", p |-> << >>]
          /\ UNCHANGED <<kind, group, added, builds, stale, answer>>
      BY <1>2 DEF M!Match, M!Die
    <2>2. state'.how = "panic" /\ state'.call = "match"
      BY <2>1
    <2>3. kind = "mph" /\ builds = 0
      BY <1>1, <1>2 DEF M!MatchPanics, GroupOK, IsMph
    <2>4. M!DeadOnlyByMisuse'
      BY <2>1, <2>2, <2>3 DEF M!DeadOnlyByMisuse
    <2> QED BY <2>1, <2>2, <2>4, DeathKeeps
  <1>3. CASE ~ M!MatchPanics
    <2>1. /\ answer' = [query |-> s, asked |-> TRUE, ids |-> Answered(s)]
          /\ UNCHANGED <<kind, group, added, builds, stale, state>>
      BY <1>3 DEF M!Match, Answered
    <2>2. answer'.query = s /\ answer'.ids = Answered(s)
      BY <2>1
    <2>3. answer'.ids \in Seq(0 .. Len(added') + 1) /\ answer'.query \in Queries \cup {<< >>}
      BY <2>1, <2>2, AnsweredType
    <2>4. M!DeadOnlyByMisuse' /\ state'.how = "ok"
      BY <1>1, <2>1 DEF M!DeadOnlyByMisuse, M!Alive
    <2>5. (GroupOK(kind, group, added, builds))'
      BY <1>1, <2>1
    <2>6. kind' \in FourKinds /\ kind' \in Kinds /\ added' \in Seq(Known(kind'))
      BY <1>1, <2>1 DEF MatchersInv
    <2>7. builds' \in 0 .. 2 /\ stale' \in BOOLEAN
      BY <2>1 DEF MatchersInv
    <2> QED BY <2>3, <2>4, <2>5, <2>6, <2>7 DEF MatchersInv
  <1> QED BY <1>2, <1>3

LEMMA MatchersRest ==
    ASSUME MatchersInv, UNCHANGED matchers
    PROVE  MatchersInv'
  <1>1. M!SeedsFail' <=> M!SeedsFail
    BY Zenon DEF matchers, M!SeedsFail
  <1> QED BY <1>1, DeathKeeps DEF matchers, MatchersInv, M!DeadOnlyByMisuse, M!ToAutomaton,
             M!InAutomaton

LEMMA MatchersInvHolds ==
    Spec => []MatchersInv
  <1>1. Init => MatchersInv
    BY MatchersStart DEF Init
  <1>2. MatchersInv /\ [Next]_vars => MatchersInv'
    <2> SUFFICES ASSUME MatchersInv, [Next]_vars
                 PROVE  MatchersInv'
      OBVIOUS
    <2>1. CASE MatchersStep
      <3>1. M!Next
        BY <2>1 DEF MatchersStep
      <3> QED BY <3>1, AddPatternKeeps, BuildKeepsMatchers, MatchKeeps DEF M!Next
    <2>2. CASE CidrStep \/ EntryStep \/ SrsStep \/ DurationStep
      BY <2>2, MatchersRest DEF CidrStep, EntryStep, SrsStep, DurationStep
    <2>3. CASE UNCHANGED vars
      BY <2>3, MatchersRest DEF vars
    <2> QED BY <2>1, <2>2, <2>3 DEF Next
  <1> QED BY <1>1, <1>2, PTL DEF Spec

(* No sequence of calls panics or hangs that is not a misuse: any patterns *)
(* of the table, in any order, in an automaton of any size. That a seed is *)
(* found for every bucket of a hash table depends on the hash, which is    *)
(* any function here: the search for one may go on for ever.               *)
(* (AddPattern, Build and Match of the four groups)                        *)
THEOREM NobodyDiesUnlessMisused ==
    Spec => []DeadOnlyByMisuse
  <1>1. MatchersInv => DeadOnlyByMisuse
    BY DEF MatchersInv, DeadOnlyByMisuse
  <1> QED BY <1>1, MatchersInvHolds, PTL

(* Every edge and every fail link of the automaton leads to one of its     *)
(* nodes, after any calls; every id of an answer is one of a pattern.      *)
LEMMA MatchersTypes ==
    Spec => []M!TypeOK
  <1>1. MatchersInv => M!TypeOK
    <2> SUFFICES ASSUME MatchersInv
                 PROVE  M!TypeOK
      OBVIOUS
    <2>1. \A k \in DOMAIN added : added[k].type \in M!Types /\ M!Compiles(added[k])
      <3>1. ASSUME NEW k \in DOMAIN added
            PROVE  added[k] \in Known(kind)
        <4>1. added \in Seq(Known(kind))
          BY DEF MatchersInv
        <4> QED BY <3>1, <4>1
      <3>2. \A p \in Known(kind) : p.type \in M!Types /\ M!Compiles(p)
        BY PatternFacts DEF Known
      <3> QED BY <3>1, <3>2
    <2>2. ASSUME NEW ac, IsAut(ac)
          PROVE  /\ DOMAIN ac.trie = 0 .. ac.count
                 /\ \A n \in 0 .. ac.count :
                      /\ ac.fail[n] \in 0 .. ac.count
                      /\ \A i \in M!Indexes : ac.trie[n][i].next \in 0 .. ac.count
      BY <2>2 DEF IsAut, EdgesTo
    <2>3. M!Automaton # << >> => IsAut(M!Automaton[1])
      BY DEF MatchersInv, GroupOK, IsMph, IsAutomaton, M!Automaton, FourKinds
    <2>4. /\ kind \in Kinds /\ builds \in 0 .. 2 /\ stale \in BOOLEAN
          /\ state.how \in {"ok", "panic", "hang"}
          /\ answer.query \in Queries \cup {<< >>}
          /\ answer.ids \in Seq(0 .. Len(added) + 1)
      BY DEF MatchersInv
    <2> QED BY <2>1, <2>2, <2>3, <2>4 DEF M!TypeOK
  <1> QED BY <1>1, MatchersInvHolds, PTL

-----------------------------------------------------------------------------
(* No set has an address that its family has no room for, and none is      *)
(* there without its builder. (AddPrefix, buildIPSet)                      *)
LEMMA EntryTyped ==
    ASSUME EntryInv
    PROVE  E!TypeOK
  <1>1. ASSUME NEW f \in E!Families
        PROVE  /\ builder[f] # E!None => builder[f][1].in \subseteq 0 .. 2 ^ E!Width(f) - 1
               /\ set[f] # E!None =>
                    builder[f] # E!None /\ set[f][1] \subseteq 0 .. 2 ^ E!Width(f) - 1
    <2>1. builder[f] \in Builders(f) /\ set[f] \in IPSets(f) /\ FamilyInv(f)
      BY DEF EntryInv, EntryTypes
    <2>2. builder[f] # E!None => builder[f][1].in \subseteq Room(f)
      BY <2>1 DEF Builders
    <2>3. set[f] # E!None => set[f][1] \subseteq Room(f)
      BY <2>1 DEF IPSets
    <2>4. set[f] # E!None => builder[f] # E!None
      BY <2>1 DEF FamilyInv, InStep
    <2> QED BY <2>2, <2>3, <2>4 DEF Room
  <1>2. log \in Seq([op : {"add", "remove"}, source : Sources \cup Texts])
    <2> DEFINE Sent == [op : {"add", "remove"}, source : Sources \cup Texts]
    <2>1. log \in Seq(Calls)
      BY DEF EntryInv, EntryTypes
    <2>2. Calls \subseteq Sent
      BY DEF Calls, Taken, Given
    <2> HIDE DEF Sent
    <2>3. log \in Seq(Sent)
      BY <2>1, <2>2, SeqOfMore
    <2> QED BY <2>3 DEF Sent
  <1>3. seen \in [E!Families -> 0 .. Len(log)]
    BY DEF EntryInv, EntryTypes
  <1> QED BY <1>1, <1>2, <1>3 DEF E!TypeOK

(* Read gets no further than the end of the file. (Read)                   *)
LEMMA SrsTyped ==
    ASSUME SrsInv
    PROVE  S!TypeOK
  <1>1. rules \in RuleSets \cup {<< >>} /\ version \in S!Versions
    BY DEF SrsInv, FileState, S!Versions
  <1>2. ended \in {"never", "ok", "error", "panic", "killed"}
    BY DEF SrsInv, FileState
  <1>3. /\ \A i \in DOMAIN file : file[i].t \in S!Tags
        /\ Len(file) \in Nat
    <2>1. CASE file \in Foreign
      BY <2>1, ForeignRefused
    <2>2. CASE file \in Seq(Token)
      <3>1. ASSUME NEW i \in DOMAIN file
            PROVE  file[i].t \in S!Tags
        <4>1. file[i] \in Token
          BY <2>2, <3>1
        <4> QED BY <4>1 DEF Token
      <3> QED BY <2>2, <3>1
    <2> QED BY <2>1, <2>2 DEF SrsInv, FileState
  <1>4. back.ok \in BOOLEAN /\ back.at \in 0 .. Len(file) + 1
    <2>1. CASE back = S!Failed
      BY <1>3, <2>1 DEF S!Failed
    <2>2. CASE back # S!Failed
      <3>1. pc = "done" /\ back = S!ReadFile(file, recover) /\ recover \in BOOLEAN
            /\ MaxDepth \in Nat /\ Rules \subseteq S!Nesting
        BY <2>2, RuleSetFacts DEF SrsInv
      <3>2. file \notin Foreign
        BY <2>2, <3>1, ForeignRefused
      <3>3. /\ rules \in Seq(Rules) /\ version \in S!Versions
            /\ file \in Seq(Token) /\ Part(file, 1, S!Written(rules, version))
        BY <3>2, RuleSetFacts DEF SrsInv, FileState
      <3>4. FileReads(file, rules, version, recover)
        BY <3>1, <3>3, FileRead
      <3> DEFINE w == S!Written(rules, version)
                 n == Len(w.tokens)
      <3>5. w \in Writes
        BY <3>1, <3>3, WrittenFacts
      <3>6. /\ back.ok => /\ Complete(file, 1, w)
                          /\ back = S!Got([i \in DOMAIN rules |-> S!RuleAs(recover)[rules[i]]],
                                          After(1, w))
            /\ back.ok \/ back = S!Failed
        BY <3>1, <3>4 DEF FileReads
      <3> HIDE DEF w
      <3>7. Complete(file, 1, w) /\ back = S!Got([i \in DOMAIN rules |-> S!RuleAs(recover)[rules[i]]],
                                          After(1, w))
        BY <2>2, <3>6
      <3>8. back.at = 1 + n /\ back.ok = TRUE
        BY <3>7 DEF S!Got, After
      <3>9. n \in Nat /\ 1 - 1 + n <= Len(file)
        BY <3>5, <3>7 DEF Writes, Complete
      <3> HIDE DEF n
      <3>10. back.at \in 0 .. Len(file) + 1
        BY <1>3, <3>8, <3>9
      <3> QED BY <3>8, <3>10
    <2> QED BY <2>1, <2>2
  <1>5. recover \in BOOLEAN /\ pc \in {"write", "read", "done"}
    BY DEF SrsInv
  <1> QED BY <1>1, <1>2, <1>3, <1>4, <1>5 DEF S!TypeOK

LEMMA PartStays ==
    Spec => [](part \in Parts)
  <1>1. Init => part \in Parts
    BY DEF Init
  <1>2. part \in Parts /\ [Next]_vars => (part \in Parts)'
    BY DEF Next, vars, MatchersStep, CidrStep, EntryStep, SrsStep, DurationStep
  <1> QED BY <1>1, <1>2, PTL DEF Spec

(* The types of all the parts: no set has an address that its family has   *)
(* no room for, no loop of the ranges gets one without an address, no edge *)
(* of an automaton leads out of it, no rule set is read beyond its file,   *)
(* no sum of a duration exceeds its limit.                                 *)
THEOREM LibraryTyped == Spec => []TypeOK
  <1>1. EntryInv => E!TypeOK
    BY EntryTyped
  <1>2. SrsInv => S!TypeOK
    BY SrsTyped
  <1>3. /\ part \in Parts /\ M!TypeOK /\ C!TypeOK /\ E!TypeOK /\ S!TypeOK /\ D!TypeOK
        => TypeOK
    BY DEF TypeOK
  <1> QED BY <1>1, <1>2, <1>3, PartStays, MatchersTypes, RangesNeverPanic, EntryInvHolds,
             SrsInvHolds, DurationTypes, PTL
=============================================================================
