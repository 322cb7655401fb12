------------------------------ MODULE CliProofs ------------------------------
(***************************************************************************)
(* For every set of command lines, lines and rules, whatever is in the     *)
(* files at first: what an invocation leaves in the file it writes, and    *)
(* what its exit status says of it. The first part is about texts: what    *)
(* one more character, word or joined list does to the lines of a text.    *)
(* The second is about outputToFile (T): when it writes, its text begins a *)
(* line. The last is about main, every step of which keeps the invariant   *)
(* of outputToFile.                                                        *)
(***************************************************************************)
EXTENDS Cli, InductionFacts

(* Texts, and the lists of lines that are read from them. *)
Texts == Seq(T!Chars \cup {NL})

Words == Seq(T!Chars)

(* The recursion of LinesOf: the lines of the first n characters, and what *)
(* one character does to them. *)
UpTo(txt) ==
    CHOOSE upTo : upTo = [n \in 0 .. Len(txt) |->
          IF n = 0 THEN << >>
          ELSE IF n = 1 \/ txt[n - 1] = NL
          THEN Append(upTo[n - 1], IF txt[n] = NL THEN << >> ELSE <<txt[n]>>)
          ELSE IF txt[n] = NL THEN upTo[n - 1]
          ELSE [upTo[n - 1] EXCEPT ![Len(upTo[n - 1])] = Append(@, txt[n])]]

Then(txt, n, ls) ==
    IF n = 1 \/ txt[n - 1] = NL
    THEN Append(ls, IF txt[n] = NL THEN << >> ELSE <<txt[n]>>)
    ELSE IF txt[n] = NL THEN ls
    ELSE [ls EXCEPT ![Len(ls)] = Append(@, txt[n])]

LEMMA ThenType ==
    ASSUME NEW txt \in Texts, NEW n \in 1 .. Len(txt), NEW ls \in Seq(Words)
    PROVE  Then(txt, n, ls) \in Seq(Words)
  <1>1. txt[n] \in T!Chars \cup {NL}
    BY DEF Texts
  <1>2. CASE n = 1 \/ txt[n - 1] = NL
    <2>1. (IF txt[n] = NL THEN << >> ELSE <<txt[n]>>) \in Words
      BY <1>1 DEF Words
    <2> QED BY <1>2, <2>1 DEF Then
  <1>3. CASE ~ (n = 1 \/ txt[n - 1] = NL) /\ txt[n] = NL
    BY <1>3 DEF Then
  <1>4. CASE ~ (n = 1 \/ txt[n - 1] = NL) /\ txt[n] # NL
    <2> DEFINE new == [ls EXCEPT ![Len(ls)] = Append(@, txt[n])]
    <2>1. \A k \in 1 .. Len(ls) : Append(ls[k], txt[n]) \in Words /\ ls[k] \in Words
      BY <1>1, <1>4 DEF Words
    <2>2. DOMAIN ls = 1 .. Len(ls) /\ Len(ls) \in Nat
      OBVIOUS
    <2>3. new \in [1 .. Len(ls) -> Words]
      BY <2>1, <2>2
    <2>4. new \in Seq(Words)
      BY <2>2, <2>3
    <2> QED BY <1>4, <2>4 DEF Then
  <1> QED BY <1>2, <1>3, <1>4

(* The recursion defines a function. *)
LEMMA UpToFunction ==
    ASSUME NEW txt \in Texts
    PROVE  /\ T!LinesOf(txt) = UpTo(txt)[Len(txt)]
           /\ UpTo(txt) \in [0 .. Len(txt) -> Seq(Words)]
           /\ UpTo(txt)[0] = << >>
           /\ \A n \in 1 .. Len(txt) : UpTo(txt)[n] = Then(txt, n, UpTo(txt)[n - 1])
  <1> DEFINE N == Len(txt)
             none == << >>
             V == Seq(Words)
             next == [n \in 1 .. N |-> [ls \in V |-> Then(txt, n, ls)]]
             Body(f) == [n \in 0 .. N |-> IF n = 0 THEN none ELSE Then(txt, n, f[n - 1])]
  <1>1. N \in Nat /\ none \in V
    BY DEF Texts
  <1>2. \A n \in 1 .. N, ls \in V : next[n][ls] = Then(txt, n, ls)
    OBVIOUS
  <1>3. \A n \in 1 .. N, ls \in V : next[n][ls] \in V
    BY <1>2, ThenType
  <1>4. UpTo(txt) = CHOOSE g : g = Body(g)
    BY DEF UpTo, Then
  <1>5. T!LinesOf(txt) = UpTo(txt)[N]
    BY DEF T!LinesOf, UpTo
  <1>6. \A n \in 1 .. N, ls \in V : Then(txt, n, ls) \in V
    BY ThenType
  <1> HIDE DEF next, N, none, V
  <1>7. PICK f : IsRecursive(f, N, V, none, next)
    <2>1. IsStep(next, N, V)
      BY <1>3 DEF IsStep
    <2> QED BY <1>1, <2>1, RecursiveFunction
  <1>8. f = Body(f)
    <2>1. ASSUME NEW n \in 1 .. N
          PROVE  f[n] = Then(txt, n, f[n - 1])
      <3>1. n - 1 \in 0 .. N
        BY <1>1
      <3>2. f[n - 1] \in V
        BY <1>7, <3>1 DEF IsRecursive
      <3> QED BY <1>2, <1>7, <3>2 DEF IsRecursive
    <2> QED BY <1>1, <1>7, <2>1 DEF IsRecursive
  <1>9. UpTo(txt) = Body(UpTo(txt))
    BY <1>4, <1>8
  <1>10. UpTo(txt)[0] = none /\ \A n \in 1 .. N : UpTo(txt)[n] = Then(txt, n, UpTo(txt)[n - 1])
    BY <1>1, <1>9
  <1>11. UpTo(txt) \in [0 .. N -> V]
    <2> DEFINE Good == {n \in 0 .. N : UpTo(txt)[n] \in V}
    <2>1. 0 \in Good
      BY <1>1, <1>10
    <2>2. \A n \in 0 .. N - 1 : n \in Good => n + 1 \in Good
      BY <1>1, <1>6, <1>10
    <2> HIDE DEF Good
    <2>3. 0 .. N \subseteq Good
      BY <1>1, <2>1, <2>2, InductionUpTo
    <2>4. \A n \in 0 .. N : UpTo(txt)[n] \in V
      BY <2>3 DEF Good
    <2>5. UpTo(txt) = [n \in 0 .. N |-> UpTo(txt)[n]]
      BY <1>9
    <2> QED BY <2>4, <2>5
  <1> QED BY <1>5, <1>10, <1>11 DEF N, none, V

(* The recursion looks back only. *)
LEMMA UpToLocal ==
    ASSUME NEW txt \in Texts, NEW more \in Texts, Len(txt) <= Len(more),
           \A n \in 1 .. Len(txt) : txt[n] = more[n]
    PROVE  \A n \in 0 .. Len(txt) : UpTo(txt)[n] = UpTo(more)[n]
  <1> DEFINE Good == {n \in 0 .. Len(txt) : UpTo(txt)[n] = UpTo(more)[n]}
  <1>1. Len(txt) \in Nat /\ Len(more) \in Nat
    BY DEF Texts
  <1>2. 0 \in Good
    BY <1>1, UpToFunction
  <1>3. ASSUME NEW n \in 0 .. Len(txt) - 1, n \in Good
        PROVE  n + 1 \in Good
    <2>1. n + 1 \in 1 .. Len(txt) /\ n + 1 \in 1 .. Len(more) /\ n + 1 - 1 = n
      BY <1>1
    <2>2. /\ UpTo(txt)[n + 1] = Then(txt, n + 1, UpTo(txt)[n])
          /\ UpTo(more)[n + 1] = Then(more, n + 1, UpTo(more)[n])
      BY <2>1, UpToFunction
    <2>3. txt[n + 1] = more[n + 1] /\ (n # 0 => txt[n] = more[n])
      BY <2>1
    <2>4. UpTo(txt)[n] = UpTo(more)[n]
      BY <1>3
    <2> QED BY <2>1, <2>2, <2>3, <2>4 DEF Then
  <1> HIDE DEF Good
  <1>4. 0 .. Len(txt) \subseteq Good
    BY <1>1, <1>2, <1>3, InductionUpTo
  <1> QED BY <1>4 DEF Good

LEMMA LinesOfType ==
    ASSUME NEW txt \in Texts
    PROVE  T!LinesOf(txt) \in Seq(Words)
  BY UpToFunction DEF Texts

LEMMA LinesOfEmpty ==
    /\ << >> \in Texts
    /\ T!LinesOf(<< >>) = << >>
    /\ ~ T!LastLineOpen(<< >>)
  <1>1. << >> \in Texts /\ Len(<< >>) = 0
    BY DEF Texts
  <1> QED BY <1>1, UpToFunction DEF T!LastLineOpen

(* What one more character does to the lines of a text. *)
LEMMA LinesOfAppend ==
    ASSUME NEW txt \in Texts, NEW c \in T!Chars \cup {NL}
    PROVE  /\ Append(txt, c) \in Texts
           /\ T!LastLineOpen(Append(txt, c)) <=> c # NL
           /\ T!LinesOf(Append(txt, c)) =
                IF ~ T!LastLineOpen(txt)
                THEN Append(T!LinesOf(txt), IF c = NL THEN << >> ELSE <<c>>)
                ELSE IF c = NL THEN T!LinesOf(txt)
                ELSE [T!LinesOf(txt) EXCEPT ![Len(T!LinesOf(txt))] = Append(@, c)]
  <1> DEFINE more == Append(txt, c)
             n == Len(txt) + 1
  <1>1. /\ Len(txt) \in Nat /\ more \in Texts /\ Len(more) = n
        /\ n = Len(txt) + 1 /\ n - 1 = Len(txt) /\ n \in 1 .. n
        /\ more[n] = c /\ \A i \in 1 .. Len(txt) : txt[i] = more[i]
        /\ more # << >>
    BY DEF Texts
  <1> HIDE DEF more, n
  <1>2. UpTo(more)[n] = Then(more, n, UpTo(more)[n - 1])
    BY <1>1, UpToFunction
  <1>3. UpTo(more)[n - 1] = T!LinesOf(txt)
    BY <1>1, UpToLocal, UpToFunction
  <1>4. T!LinesOf(more) = Then(more, n, T!LinesOf(txt))
    BY <1>1, <1>2, <1>3, UpToFunction
  <1>5. T!LastLineOpen(more) <=> c # NL
    BY <1>1 DEF T!LastLineOpen, T!Last
  <1>6. T!LastLineOpen(txt) <=> ~ (n = 1 \/ more[n - 1] = NL)
    BY <1>1 DEF T!LastLineOpen, T!Last, Texts
  <1> QED BY <1>1, <1>4, <1>5, <1>6 DEF Then, more

(* A word that is written where a line begins is a line of the text. *)
LEMMA LinesOfWord ==
    ASSUME NL \notin T!Chars, NEW txt \in Texts, ~ T!LastLineOpen(txt),
           NEW w \in Words, w # << >>
    PROVE  /\ txt \o w \in Texts
           /\ T!LastLineOpen(txt \o w)
           /\ T!LinesOf(txt \o w) = Append(T!LinesOf(txt), w)
  <1> DEFINE Done(n) == /\ txt \o SubSeq(w, 1, n) \in Texts
                        /\ T!LastLineOpen(txt \o SubSeq(w, 1, n)) <=> n # 0
                        /\ n # 0 => T!LinesOf(txt \o SubSeq(w, 1, n)) =
                                      Append(T!LinesOf(txt), SubSeq(w, 1, n))
             Good == {n \in 0 .. Len(w) : Done(n)}
  <1>1. Len(w) \in Nat /\ Len(w) # 0 /\ w \in Texts
    BY DEF Words, Texts
  <1>2. T!LinesOf(txt) \in Seq(Words)
    BY LinesOfType
  <1>3. 0 \in Good
    <2>1. txt \o SubSeq(w, 1, 0) = txt
      BY <1>1, SubSeqEnds, ConcatEmpty DEF Texts
    <2>2. Done(0)
      BY <2>1
    <2> HIDE DEF Done
    <2> QED BY <1>1, <2>2
  <1>4. ASSUME NEW n \in 0 .. Len(w) - 1, n \in Good
        PROVE  n + 1 \in Good
    <2> DEFINE u == SubSeq(w, 1, n)
               c == w[n + 1]
               old == txt \o u
    <2>1. /\ u \in Words /\ c \in T!Chars /\ Append(u, c) \in Words
          /\ u \in Texts /\ c \in T!Chars \cup {NL} /\ c # NL
      BY <1>1 DEF Words, Texts
    <2>2. SubSeq(w, 1, n + 1) = Append(u, c)
      BY SubSeqGrows DEF Words
    <2>3. txt \o SubSeq(w, 1, n + 1) = Append(old, c)
      BY <2>1, <2>2, ConcatAppend DEF Texts
    <2>4. /\ old \in Texts
          /\ T!LastLineOpen(old) <=> n # 0
          /\ n = 0 => old = txt /\ u = << >>
          /\ n # 0 => T!LinesOf(old) = Append(T!LinesOf(txt), u)
      BY <1>1, <1>4, SubSeqEnds, ConcatEmpty DEF Texts
    <2> HIDE DEF u, c, old
    <2>5. Append(old, c) \in Texts /\ T!LastLineOpen(Append(old, c))
      BY <2>1, <2>4, LinesOfAppend
    <2>6. T!LinesOf(Append(old, c)) = Append(T!LinesOf(txt), Append(u, c))
      <3>1. CASE n = 0
        <4>1. T!LinesOf(Append(old, c)) = Append(T!LinesOf(txt), <<c>>)
          BY <2>1, <2>4, <3>1, LinesOfAppend
        <4>2. Append(u, c) = <<c>>
          BY <2>4, <3>1
        <4> QED BY <4>1, <4>2
      <3>2. CASE n # 0
        <4>1. T!LinesOf(Append(old, c)) =
                [T!LinesOf(old) EXCEPT ![Len(T!LinesOf(old))] = Append(@, c)]
          BY <2>1, <2>4, <3>2, LinesOfAppend
        <4>2. T!LinesOf(old) = Append(T!LinesOf(txt), u)
          BY <2>4, <3>2
        <4> QED BY <1>2, <2>1, <4>1, <4>2, AppendToLast DEF Words
      <3> QED BY <3>1, <3>2
    <2>7. n + 1 # 0 /\ n + 1 \in 0 .. Len(w)
      BY <1>1
    <2>8. Done(n + 1)
      BY <2>2, <2>3, <2>5, <2>6, <2>7
    <2> HIDE DEF Done
    <2> QED BY <2>7, <2>8
  <1> HIDE DEF Good
  <1>5. 0 .. Len(w) \subseteq Good
    BY <1>1, <1>3, <1>4, InductionUpTo
  <1>6. Done(Len(w))
    BY <1>1, <1>5 DEF Good
  <1>7. SubSeq(w, 1, Len(w)) = w
    BY SubSeqEnds DEF Words
  <1> QED BY <1>1, <1>6, <1>7

-----------------------------------------------------------------------------
(* The recursion of Join: the first k lines joined. *)
Joined(ls) ==
    CHOOSE upTo : upTo = [k \in 0 .. Len(ls) |->
          IF k = 0 THEN << >>
          ELSE IF k = 1 THEN ls[1]
          ELSE upTo[k - 1] \o <<NL>> \o ls[k]]

JoinedThen(ls, k, txt) == IF k = 1 THEN ls[1] ELSE txt \o <<NL>> \o ls[k]

(* A line is a word, and not an empty one. *)
LEMMA LineFacts ==
    ASSUME T!LinesAssumption, NEW l \in Lines
    PROVE  l \in Words /\ l \in Texts /\ l # << >>
  BY DEF T!LinesAssumption, Words, Texts

LEMMA JoinedFunction ==
    ASSUME T!LinesAssumption, NEW ls \in Seq(Lines)
    PROVE  /\ T!Join(ls) = Joined(ls)[Len(ls)]
           /\ \A k \in 0 .. Len(ls) : Joined(ls)[k] \in Texts
           /\ Joined(ls)[0] = << >>
           /\ \A k \in 1 .. Len(ls) : Joined(ls)[k] = JoinedThen(ls, k, Joined(ls)[k - 1])
  <1> DEFINE N == Len(ls)
             none == << >>
             V == Texts
             next == [k \in 1 .. N |-> [txt \in V |-> JoinedThen(ls, k, txt)]]
             Body(f) == [k \in 0 .. N |-> IF k = 0 THEN none ELSE JoinedThen(ls, k, f[k - 1])]
  <1>1. N \in Nat /\ none \in V
    BY DEF Texts
  <1>2. \A k \in 1 .. N, txt \in V : JoinedThen(ls, k, txt) \in V
    <2> SUFFICES ASSUME NEW k \in 1 .. N, NEW txt \in V
                 PROVE  JoinedThen(ls, k, txt) \in V
      OBVIOUS
    <2>1. ls[k] \in Texts /\ <<NL>> \in Texts
      BY LineFacts DEF Texts
    <2>2. txt \o <<NL>> \in Texts
      BY <2>1 DEF Texts
    <2>3. (txt \o <<NL>>) \o ls[k] \in Texts
      BY <2>1, <2>2 DEF Texts
    <2> QED BY <2>1, <2>3 DEF JoinedThen
  <1>3. \A k \in 1 .. N, txt \in V : next[k][txt] = JoinedThen(ls, k, txt)
    OBVIOUS
  <1>4. Joined(ls) = CHOOSE f : f = Body(f)
    BY DEF Joined, JoinedThen
  <1>5. T!Join(ls) = Joined(ls)[N]
    BY DEF T!Join, Joined
  <1> HIDE DEF next, N, none, V
  <1>6. PICK f : IsRecursive(f, N, V, none, next)
    <2>1. IsStep(next, N, V)
      BY <1>2, <1>3 DEF IsStep
    <2> QED BY <1>1, <2>1, RecursiveFunction
  <1>7. f = Body(f)
    <2>1. ASSUME NEW k \in 1 .. N
          PROVE  f[k] = JoinedThen(ls, k, f[k - 1])
      <3>1. f[k - 1] \in V
        BY <1>1, <1>6 DEF IsRecursive
      <3> QED BY <1>3, <1>6, <3>1 DEF IsRecursive
    <2> QED BY <1>1, <1>6, <2>1 DEF IsRecursive
  <1>8. Joined(ls) = Body(Joined(ls))
    BY <1>4, <1>7
  <1>9. /\ Joined(ls)[0] = none
        /\ \A k \in 1 .. N : Joined(ls)[k] = JoinedThen(ls, k, Joined(ls)[k - 1])
    BY <1>1, <1>8
  <1>10. \A k \in 0 .. N : Joined(ls)[k] \in V
    <2> DEFINE Good == {k \in 0 .. N : Joined(ls)[k] \in V}
    <2>1. 0 \in Good
      BY <1>1, <1>9
    <2>2. \A k \in 0 .. N - 1 : k \in Good => k + 1 \in Good
      BY <1>1, <1>2, <1>9
    <2> HIDE DEF Good
    <2>3. 0 .. N \subseteq Good
      BY <1>1, <2>1, <2>2, InductionUpTo
    <2> QED BY <2>3 DEF Good
  <1> QED BY <1>5, <1>9, <1>10 DEF N, none, V

(* The lines new are the lines old, then some of ls, the last maybe cut.   *)
Added(old, new, ls) ==
    \E j \in 0 .. Len(ls) :
        /\ Len(new) = Len(old) + j
        /\ \A i \in 1 .. Len(old) : new[i] = old[i]
        /\ \A i \in 1 .. j - 1 : new[Len(old) + i] = ls[i]
        /\ j # 0 => T!IsPrefix(new[Len(old) + j], ls[j])

LEMMA AddedWhole ==
    ASSUME NEW old \in Seq(Words), NEW ls \in Seq(Words), NEW k \in 0 .. Len(ls)
    PROVE  Added(old, old \o SubSeq(ls, 1, k), ls)
  <1> DEFINE new == old \o SubSeq(ls, 1, k)
  <1>1. /\ Len(new) = Len(old) + k
        /\ \A i \in 1 .. Len(old) : new[i] = old[i]
        /\ \A i \in 1 .. k : new[Len(old) + i] = ls[i]
    OBVIOUS
  <1>2. k # 0 => T!IsPrefix(ls[k], ls[k])
    BY DEF T!IsPrefix, Words
  <1> HIDE DEF new
  <1>3. k # 0 => k \in 1 .. k /\ k \in Nat
    OBVIOUS
  <1>4. Added(old, new, ls)
    BY <1>1, <1>2, <1>3 DEF Added
  <1> QED BY <1>4 DEF new

LEMMA AddedCut ==
    ASSUME NEW old \in Seq(Words), NEW ls \in Seq(Words), NEW k \in 1 .. Len(ls),
           NEW w \in Words, T!IsPrefix(w, ls[k])
    PROVE  Added(old, Append(old \o SubSeq(ls, 1, k - 1), w), ls)
  <1> DEFINE front == old \o SubSeq(ls, 1, k - 1)
             new == Append(front, w)
  <1>1. /\ front \in Seq(Words)
        /\ Len(front) = Len(old) + k - 1
        /\ \A i \in 1 .. Len(old) : front[i] = old[i]
        /\ \A i \in 1 .. k - 1 : front[Len(old) + i] = ls[i]
        /\ Len(old) \in Nat /\ k \in Nat /\ k # 0
    OBVIOUS
  <1> HIDE DEF front
  <1>2. /\ Len(new) = Len(old) + k
        /\ \A i \in 1 .. Len(front) : new[i] = front[i]
        /\ new[Len(old) + k] = w
    BY <1>1
  <1> HIDE DEF new
  <1>3. /\ \A i \in 1 .. Len(old) : new[i] = old[i]
        /\ \A i \in 1 .. k - 1 : new[Len(old) + i] = ls[i]
    BY <1>1, <1>2
  <1>4. T!IsPrefix(new[Len(old) + k], ls[k]) /\ k \in 0 .. Len(ls)
    BY <1>2
  <1>5. Added(old, new, ls)
    BY <1>2, <1>3, <1>4 DEF Added
  <1> QED BY <1>5 DEF new, front

(* What is joined when a line comes next: all before it, ended. *)
LEMMA JoinedStep ==
    ASSUME T!LinesAssumption, NEW ls \in Seq(Lines), NEW k \in 0 .. Len(ls) - 1
    PROVE  \E front \in Texts :
             /\ front = IF k = 0 THEN << >> ELSE Append(Joined(ls)[k], NL)
             /\ Joined(ls)[k + 1] = front \o ls[k + 1]
  <1>1. /\ k \in Nat /\ k + 1 \in 1 .. Len(ls) /\ k + 1 - 1 = k /\ k \in 0 .. Len(ls)
        /\ ls[k + 1] \in Lines
    OBVIOUS
  <1>2. ls[k + 1] \in Texts /\ Joined(ls)[k] \in Texts
    BY <1>1, LineFacts, JoinedFunction
  <1>3. Joined(ls)[k + 1] = JoinedThen(ls, k + 1, Joined(ls)[k])
    <2>1. \A n \in 1 .. Len(ls) : Joined(ls)[n] = JoinedThen(ls, n, Joined(ls)[n - 1])
      BY JoinedFunction
    <2>2. Joined(ls)[k + 1] = JoinedThen(ls, k + 1, Joined(ls)[k + 1 - 1])
      BY <1>1, <2>1
    <2> QED BY <1>1, <2>2
  <1>4. CASE k = 0
    <2>1. << >> \o ls[k + 1] = ls[k + 1] /\ << >> \in Texts
      BY <1>2, ConcatEmpty DEF Texts
    <2>2. Joined(ls)[k + 1] = ls[k + 1]
      BY <1>3, <1>4 DEF JoinedThen
    <2> QED BY <1>4, <2>1, <2>2
  <1>5. CASE k # 0
    <2> DEFINE front == Append(Joined(ls)[k], NL)
    <2>1. Joined(ls)[k] \o <<NL>> = front /\ front \in Texts
      BY <1>2 DEF Texts
    <2>2. Joined(ls)[k + 1] = (Joined(ls)[k] \o <<NL>>) \o ls[k + 1]
      <3>1. k + 1 # 1
        BY <1>1, <1>5
      <3> QED BY <1>3, <3>1 DEF JoinedThen
    <2> HIDE DEF front
    <2>3. Joined(ls)[k + 1] = front \o ls[k + 1]
      BY <2>1, <2>2
    <2> QED BY <1>5, <2>1, <2>3 DEF front
  <1> QED BY <1>4, <1>5

(* The beginning of a text that ends in a word. *)
LEMMA CutInWord ==
    ASSUME NEW front \in Texts, NEW w \in Words, w \in Texts, NEW n \in 0 .. Len(front \o w)
    PROVE  \/ n <= Len(front) /\ SubSeq(front \o w, 1, n) = SubSeq(front, 1, n)
           \/ \E u \in Words : /\ u # << >> /\ T!IsPrefix(u, w)
                                /\ SubSeq(front \o w, 1, n) = front \o u
  <1>1. CASE n <= Len(front)
    BY <1>1, SubSeqConcat DEF Texts
  <1>2. CASE ~ (n <= Len(front))
    <2> DEFINE m == n - Len(front)
               u == SubSeq(w, 1, m)
    <2>1. m \in 1 .. Len(w)
      BY <1>2 DEF Texts, Words
    <2>2. u \in Words /\ u # << >> /\ Len(u) = m /\ \A i \in 1 .. m : u[i] = w[i]
      <3>1. u \in Words /\ Len(u) = m /\ \A i \in 1 .. m : u[i] = w[i]
        BY <2>1 DEF Words
      <3> HIDE DEF u, m
      <3>2. u # << >>
        BY <2>1, <3>1 DEF Words
      <3> QED BY <3>1, <3>2
    <2>3. SubSeq(front \o w, 1, n) = front \o u
      BY <1>2, SubSeqConcat DEF Texts
    <2>4. T!IsPrefix(u, w)
      BY <2>1, <2>2 DEF T!IsPrefix, Words
    <2> QED BY <2>2, <2>3, <2>4
  <1> QED BY <1>1, <1>2

(* What is written of a joined list, all of it or n characters, adds its   *)
(* lines to a text that ends where a line begins. *)
WholeAdded(txt, ls, k) ==
    /\ txt \o Joined(ls)[k] \in Texts
    /\ T!LastLineOpen(txt \o Joined(ls)[k]) <=> k # 0
    /\ T!LinesOf(txt \o Joined(ls)[k]) = T!LinesOf(txt) \o SubSeq(ls, 1, k)

CutAdded(txt, ls, k) ==
    \A n \in 0 .. Len(Joined(ls)[k]) :
        /\ txt \o SubSeq(Joined(ls)[k], 1, n) \in Texts
        /\ Added(T!LinesOf(txt), T!LinesOf(txt \o SubSeq(Joined(ls)[k], 1, n)), ls)

LEMMA NoLineAdded ==
    ASSUME T!LinesAssumption, NEW txt \in Texts, ~ T!LastLineOpen(txt), NEW ls \in Seq(Lines)
    PROVE  WholeAdded(txt, ls, 0) /\ CutAdded(txt, ls, 0)
  <1>1. T!LinesOf(txt) \in Seq(Words) /\ ls \in Seq(Words)
    BY LinesOfType, LineFacts
  <1>2. Joined(ls)[0] = << >>
    BY JoinedFunction
  <1>3. /\ txt \o << >> = txt /\ SubSeq(ls, 1, 0) = << >>
        /\ T!LinesOf(txt) \o << >> = T!LinesOf(txt)
    BY <1>1, ConcatEmpty, SubSeqEnds DEF Texts, Words
  <1>4. Added(T!LinesOf(txt), T!LinesOf(txt), ls)
    <2>1. 0 \in 0 .. Len(ls)
      BY <1>1
    <2>2. Added(T!LinesOf(txt), T!LinesOf(txt) \o SubSeq(ls, 1, 0), ls)
      BY <1>1, <2>1, AddedWhole
    <2> QED BY <1>3, <2>2
  <1>5. WholeAdded(txt, ls, 0)
    BY <1>2, <1>3 DEF WholeAdded
  <1>6. CutAdded(txt, ls, 0)
    <2>1. \A n \in 0 .. Len(<< >>) : SubSeq(<< >>, 1, n) = << >>
      OBVIOUS
    <2> QED BY <1>2, <1>3, <1>4, <2>1 DEF CutAdded
  <1> QED BY <1>5, <1>6

LEMMA OneMoreAdded ==
    ASSUME T!LinesAssumption, NEW txt \in Texts, ~ T!LastLineOpen(txt), NEW ls \in Seq(Lines),
           NEW k \in 0 .. Len(ls) - 1, WholeAdded(txt, ls, k), CutAdded(txt, ls, k)
    PROVE  WholeAdded(txt, ls, k + 1) /\ CutAdded(txt, ls, k + 1)
  <1>1. /\ T!LinesOf(txt) \in Seq(Words) /\ ls \in Seq(Words) /\ NL \notin T!Chars
        /\ k + 1 \in 1 .. Len(ls) /\ k \in 0 .. Len(ls) /\ k \in Nat /\ k + 1 - 1 = k
    BY LinesOfType, LineFacts DEF T!LinesAssumption
  <1>2. PICK l \in Lines : l = ls[k + 1]
    BY <1>1
  <1>3. l \in Words /\ l \in Texts /\ l # << >>
    BY LineFacts
  <1>4. PICK front \in Texts :
          /\ front = IF k = 0 THEN << >> ELSE Append(Joined(ls)[k], NL)
          /\ Joined(ls)[k + 1] = front \o l
    BY <1>2, JoinedStep
  <1>5. PICK here \in Texts : here = txt \o front
    BY ConcatType DEF Texts
  <1>6. PICK done \in Seq(Words) : done = T!LinesOf(txt) \o SubSeq(ls, 1, k)
    <2>1. SubSeq(ls, 1, k) \in Seq(Words)
      BY <1>1
    <2> QED BY <1>1, <2>1, ConcatType
  <1>7. Append(done, l) = T!LinesOf(txt) \o SubSeq(ls, 1, k + 1)
    <2>1. SubSeq(ls, 1, k + 1) = Append(SubSeq(ls, 1, k), l)
      BY <1>1, <1>2, SubSeqGrows
    <2>2. PICK some \in Seq(Words) : some = SubSeq(ls, 1, k)
      <3>1. SubSeq(ls, 1, k) \in Seq(Words)
        BY <1>1
      <3> QED BY <3>1, Zenon
    <2>3. T!LinesOf(txt) \o Append(some, l) = Append(T!LinesOf(txt) \o some, l)
      BY <1>1, <1>3, ConcatAppend
    <2> QED BY <1>6, <2>1, <2>2, <2>3
  <1>8. ~ T!LastLineOpen(here) /\ T!LinesOf(here) = done
    <2>1. CASE k = 0
      <3>1. here = txt
        BY <1>4, <1>5, <2>1, ConcatEmpty DEF Texts
      <3>2. done = T!LinesOf(txt)
        BY <1>1, <1>6, <2>1, ConcatEmpty, SubSeqEnds DEF Words
      <3> QED BY <3>1, <3>2
    <2>2. CASE k # 0
      <3>1. PICK joined \in Texts : joined = Joined(ls)[k]
        BY <1>1, JoinedFunction
      <3>2. txt \o Append(joined, NL) = Append(txt \o joined, NL)
        BY ConcatAppend DEF Texts
      <3>3. PICK all \in Texts : all = txt \o joined
        BY <3>1 DEF WholeAdded
      <3>4. T!LastLineOpen(all) /\ T!LinesOf(all) = done
        BY <1>6, <2>2, <3>1, <3>3 DEF WholeAdded
      <3>5. ~ T!LastLineOpen(Append(all, NL)) /\ T!LinesOf(Append(all, NL)) = T!LinesOf(all)
        BY <3>4, LinesOfAppend
      <3> QED BY <1>4, <1>5, <2>2, <3>1, <3>2, <3>3, <3>4, <3>5
    <2> QED BY <2>1, <2>2
  <1>9. ASSUME NEW w \in Words, w # << >>
        PROVE  /\ txt \o (front \o w) \in Texts
               /\ T!LastLineOpen(txt \o (front \o w))
               /\ T!LinesOf(txt \o (front \o w)) = Append(done, w)
    <2>1. here \o w \in Texts /\ T!LastLineOpen(here \o w) /\ T!LinesOf(here \o w) = Append(done, w)
      BY <1>1, <1>8, <1>9, LinesOfWord
    <2>2. w \in Texts
      BY DEF Words, Texts
    <2>3. txt \o (front \o w) = here \o w
      <3> DEFINE S == T!Chars \cup {NL}
      <3>1. txt \in Seq(S) /\ front \in Seq(S) /\ w \in Seq(S)
        BY <2>2 DEF Texts
      <3> HIDE DEF S
      <3>2. txt \o (front \o w) = (txt \o front) \o w
        BY <3>1, ConcatAssoc
      <3> QED BY <1>5, <3>2
    <2> DEFINE whole == txt \o (front \o w)
    <2>4. whole = here \o w
      BY <2>3
    <2> HIDE DEF whole
    <2>5. whole \in Texts /\ T!LastLineOpen(whole) /\ T!LinesOf(whole) = Append(done, w)
      BY <2>1, <2>4
    <2> QED BY <2>5 DEF whole
  <1>10. WholeAdded(txt, ls, k + 1)
    <2>1. k + 1 # 0
      BY <1>1
    <2> QED BY <1>3, <1>4, <1>7, <1>9, <2>1 DEF WholeAdded
  <1>11. ASSUME NEW n \in 0 .. Len(front \o l)
         PROVE  /\ txt \o SubSeq(front \o l, 1, n) \in Texts
                /\ Added(T!LinesOf(txt), T!LinesOf(txt \o SubSeq(front \o l, 1, n)), ls)
    <2>1. CASE n <= Len(front) /\ SubSeq(front \o l, 1, n) = SubSeq(front, 1, n)
      <3>1. CASE n <= Len(Joined(ls)[k])
        <4>1. SubSeq(front, 1, n) = SubSeq(Joined(ls)[k], 1, n) /\ n \in 0 .. Len(Joined(ls)[k])
          <5>1. CASE k = 0
            <6>1. front = << >> /\ Joined(ls)[k] = << >>
              BY <1>4, <5>1, JoinedFunction
            <6> QED BY <2>1, <3>1, <6>1
          <5>2. CASE k # 0
            <6>1. Joined(ls)[k] \in Texts
              BY <1>1, JoinedFunction
            <6> QED BY <1>4, <3>1, <5>2, <6>1 DEF Texts
          <5> QED BY <5>1, <5>2
        <4> QED BY <2>1, <4>1 DEF CutAdded
      <3>2. CASE ~ (n <= Len(Joined(ls)[k]))
        <4>1. SubSeq(front, 1, n) = front
          <5>1. PICK joined \in Texts : joined = Joined(ls)[k]
            BY <1>1, JoinedFunction
          <5>2. Len(front) <= Len(joined) + 1 /\ Len(front) \in Nat /\ Len(joined) \in Nat
            BY <1>4, <5>1 DEF Texts
          <5>3. n = Len(front)
            BY <2>1, <3>2, <5>1, <5>2
          <5> QED BY <5>3, SubSeqEnds DEF Texts
        <4>2. Added(T!LinesOf(txt), done, ls)
          BY <1>1, <1>6, AddedWhole
        <4> QED BY <1>5, <1>8, <2>1, <4>1, <4>2
      <3> QED BY <3>1, <3>2
    <2>2. CASE \E u \in Words : /\ u # << >> /\ T!IsPrefix(u, l)
                                /\ SubSeq(front \o l, 1, n) = front \o u
      <3>1. PICK u \in Words : /\ u # << >> /\ T!IsPrefix(u, l)
                               /\ SubSeq(front \o l, 1, n) = front \o u
        BY <2>2
      <3>2. Added(T!LinesOf(txt), Append(done, u), ls)
        BY <1>1, <1>2, <1>6, <3>1, AddedCut
      <3> QED BY <1>9, <3>1, <3>2
    <2> QED BY <1>3, <2>1, <2>2, CutInWord
  <1>12. CutAdded(txt, ls, k + 1)
    BY <1>4, <1>11 DEF CutAdded
  <1> QED BY <1>10, <1>12

LEMMA LinesOfWritten ==
    ASSUME T!LinesAssumption, NEW txt \in Texts, ~ T!LastLineOpen(txt), NEW ls \in Seq(Lines)
    PROVE  /\ T!Text(ls) \in Texts
           /\ txt \o T!Text(ls) \in Texts
           /\ T!LinesOf(txt \o T!Text(ls)) = T!LinesOf(txt) \o ls
           /\ \A n \in 0 .. Len(T!Text(ls)) :
                /\ txt \o SubSeq(T!Text(ls), 1, n) \in Texts
                /\ Added(T!LinesOf(txt), T!LinesOf(txt \o SubSeq(T!Text(ls), 1, n)), ls)
  <1> DEFINE Good == {k \in 0 .. Len(ls) : WholeAdded(txt, ls, k) /\ CutAdded(txt, ls, k)}
  <1>1. Len(ls) \in Nat /\ Len(ls) \in 0 .. Len(ls)
    OBVIOUS
  <1>2. 0 \in Good
    BY <1>1, NoLineAdded
  <1>3. \A k \in 0 .. Len(ls) - 1 : k \in Good => k + 1 \in Good
    <2>1. \A k \in 0 .. Len(ls) - 1 : k + 1 \in 0 .. Len(ls)
      BY <1>1
    <2> QED BY <2>1, OneMoreAdded
  <1> HIDE DEF Good
  <1>4. 0 .. Len(ls) \subseteq Good
    BY <1>1, <1>2, <1>3, InductionUpTo
  <1>5. WholeAdded(txt, ls, Len(ls)) /\ CutAdded(txt, ls, Len(ls))
    BY <1>1, <1>4 DEF Good
  <1>6. T!Text(ls) = Joined(ls)[Len(ls)] /\ T!Text(ls) \in Texts
    BY <1>1, JoinedFunction DEF T!Text
  <1>7. SubSeq(ls, 1, Len(ls)) = ls
    BY SubSeqEnds
  <1> QED BY <1>5, <1>6, <1>7 DEF WholeAdded, CutAdded

(* A newline that ends an open line adds none. *)
LEMMA LinesOfEnded ==
    ASSUME NEW txt \in Texts, T!LastLineOpen(txt)
    PROVE  /\ Append(txt, NL) \in Texts
           /\ ~ T!LastLineOpen(Append(txt, NL))
           /\ T!LinesOf(Append(txt, NL)) = T!LinesOf(txt)
  BY LinesOfAppend

(* Lines that are added are lines, the last maybe the beginning of one. *)
LEMMA AddedFacts ==
    ASSUME T!LinesAssumption, NEW old \in Seq(Words), NEW new \in Seq(Words),
           NEW ls \in Seq(Lines), Added(old, new, ls)
    PROVE  /\ T!IsPrefix(old, new)
           /\ \A i \in Len(old) + 1 .. Len(new) :
                \/ new[i] \in Lines
                \/ i = Len(new) /\ \E l \in Lines : T!IsPrefix(new[i], l)
  <1>1. PICK j \in 0 .. Len(ls) :
          /\ Len(new) = Len(old) + j
          /\ \A i \in 1 .. Len(old) : new[i] = old[i]
          /\ \A i \in 1 .. j - 1 : new[Len(old) + i] = ls[i]
          /\ j # 0 => T!IsPrefix(new[Len(old) + j], ls[j])
    BY DEF Added
  <1>2. T!IsPrefix(old, new)
    BY <1>1 DEF T!IsPrefix
  <1>3. ASSUME NEW i \in Len(old) + 1 .. Len(new)
        PROVE  \/ new[i] \in Lines
               \/ i = Len(new) /\ \E l \in Lines : T!IsPrefix(new[i], l)
    <2>1. PICK m \in 1 .. j : i = Len(old) + m
      <3>1. i - Len(old) \in 1 .. j /\ i = Len(old) + (i - Len(old))
        BY <1>1
      <3> QED BY <3>1
    <2>2. CASE m \in 1 .. j - 1
      <3>1. new[i] = ls[m] /\ m \in 1 .. Len(ls)
        BY <1>1, <2>1, <2>2
      <3> QED BY <3>1
    <2>3. CASE m = j
      <3>1. i = Len(new) /\ T!IsPrefix(new[i], ls[m]) /\ m \in 1 .. Len(ls)
        BY <1>1, <2>1, <2>3
      <3> QED BY <3>1
    <2> QED BY <2>1, <2>2, <2>3
  <1> QED BY <1>2, <1>3

LEMMA NoneMergedAdded ==
    ASSUME T!LinesAssumption, NEW t \in Texts, NEW u \in Texts, NEW ls \in Seq(Lines),
           Added(T!LinesOf(t), T!LinesOf(u), ls), T!NoneMerged(t)
    PROVE  T!NoneMerged(u)
  <1>1. T!LinesOf(t) \in Seq(Words) /\ T!LinesOf(u) \in Seq(Words)
    BY LinesOfType
  <1>2. /\ T!IsPrefix(T!LinesOf(t), T!LinesOf(u))
        /\ \A i \in Len(T!LinesOf(t)) + 1 .. Len(T!LinesOf(u)) :
             \/ T!LinesOf(u)[i] \in Lines
             \/ i = Len(T!LinesOf(u)) /\ \E l \in Lines : T!IsPrefix(T!LinesOf(u)[i], l)
    BY <1>1, AddedFacts
  <1>3. ASSUME NEW i \in DOMAIN T!LinesOf(u)
        PROVE  \E l \in Lines : T!IsPrefix(T!LinesOf(u)[i], l)
    <2>1. CASE i \in DOMAIN T!LinesOf(t)
      <3>1. T!LinesOf(u)[i] = T!LinesOf(t)[i]
        BY <1>1, <1>2, <2>1 DEF T!IsPrefix
      <3> QED BY <2>1, <3>1 DEF T!NoneMerged
    <2>2. CASE i \notin DOMAIN T!LinesOf(t)
      <3>1. i \in Len(T!LinesOf(t)) + 1 .. Len(T!LinesOf(u))
        BY <1>1, <2>2
      <3>2. ASSUME T!LinesOf(u)[i] \in Lines
            PROVE  T!IsPrefix(T!LinesOf(u)[i], T!LinesOf(u)[i])
        BY <3>2, LineFacts DEF T!IsPrefix, Words
      <3> QED BY <1>2, <3>1, <3>2
    <2> QED BY <2>1, <2>2
  <1> QED BY <1>3 DEF T!NoneMerged

-----------------------------------------------------------------------------
(* What a run knows of the file: it is only about to end the last line if  *)
(* that is open, and only about to write if it is not. *)
FileInv ==
    /\ T!TypeOK
    /\ textPc \in {"stat", "newline"} => textAppend
    /\ textPc \in {"open", "stat"} => ~ needsNewline
    /\ textPc = "newline" => T!LastLineOpen(textDisk)
    /\ textPc = "write" => ~ T!LastLineOpen(textDisk)
    /\ T!NoMergedLines

LEMMA FileInit == T!LinesAssumption /\ T!Init => FileInv
  <1> SUFFICES ASSUME T!LinesAssumption, T!Init
               PROVE  FileInv
    OBVIOUS
  <1>1. T!TypeOK
    <2>1. textDisk \in Seq(T!Chars \cup {NL}) /\ MaxInvocations \in Nat
      BY DEF T!LinesAssumption, T!Init
    <2>2. lines \in Seq(Lines) /\ textRuns \in 0 .. MaxInvocations
      BY <2>1 DEF T!Init
    <2> QED BY <2>1, <2>2 DEF T!Init, T!TypeOK
  <1>2. T!NoMergedLines
    BY DEF T!LinesAssumption, T!Init, T!NoMergedLines
  <1> QED BY <1>1, <1>2 DEF T!Init, FileInv

(* Whether lines are merged depends on the lines alone. *)
LEMMA SameLines ==
    ASSUME NEW t, NEW u, T!LinesOf(t) = T!LinesOf(u), T!NoneMerged(t)
    PROVE  T!NoneMerged(u)
  BY DEF T!NoneMerged

LEMMA StartInv ==
    ASSUME T!LinesAssumption, FileInv, NEW k \in 0 .. MaxLines, NEW flag \in BOOLEAN,
           NEW ls \in [1 .. k -> Lines], T!Start(ls, flag)
    PROVE  FileInv' /\ T!LinesOf(textDisk') = T!LinesOf(textDisk)
  <1>1. textDisk' = textDisk /\ T!LinesOf(textDisk') = T!LinesOf(textDisk)
    BY DEF T!Start
  <1>2. ls \in Seq(Lines)
    BY DEF T!LinesAssumption
  <1>3. textRuns' \in 0 .. MaxInvocations
    BY DEF T!LinesAssumption, T!Start, FileInv, T!TypeOK
  <1>4. T!TypeOK'
    BY <1>2, <1>3 DEF T!Start, FileInv, T!TypeOK
  <1>5. T!NoMergedLines'
    BY <1>1, SameLines DEF FileInv, T!NoMergedLines
  <1> QED BY <1>1, <1>4, <1>5 DEF T!Start, FileInv

LEMMA OpenInv ==
    ASSUME FileInv, T!Open
    PROVE  FileInv' /\ T!LinesOf(textDisk') = IF textAppend THEN T!LinesOf(textDisk) ELSE << >>
  <1>1. /\ textDisk' \in Texts
        /\ T!LinesOf(textDisk') = IF textAppend THEN T!LinesOf(textDisk) ELSE << >>
        /\ ~ textAppend => ~ T!LastLineOpen(textDisk')
    BY LinesOfEmpty DEF T!Open, T!Opened, FileInv, T!TypeOK, Texts
  <1>2. T!TypeOK'
    BY <1>1 DEF T!Open, T!Opened, FileInv, T!TypeOK, Texts
  <1>3. T!NoMergedLines'
    BY <1>1 DEF FileInv, T!NoMergedLines, T!NoneMerged
  <1> QED BY <1>1, <1>2, <1>3 DEF T!Open, FileInv

LEMMA StatInv ==
    ASSUME FileInv, T!Stat
    PROVE  FileInv' /\ T!LinesOf(textDisk') = T!LinesOf(textDisk)
  <1>1. textDisk' = textDisk /\ T!LinesOf(textDisk') = T!LinesOf(textDisk)
    BY DEF T!Stat
  <1>2. T!TypeOK'
    BY <1>1 DEF T!Stat, T!LastLineOpen, FileInv, T!TypeOK
  <1>3. T!NoMergedLines'
    BY <1>1, SameLines DEF FileInv, T!NoMergedLines
  <1> QED BY <1>1, <1>2, <1>3 DEF T!Stat, FileInv, T!LastLineOpen

LEMMA WriteNewlineInv ==
    ASSUME FileInv, T!WriteNewline
    PROVE  FileInv' /\ T!LinesOf(textDisk') = T!LinesOf(textDisk)
  <1>1. /\ textDisk' = Append(textDisk, NL)
        /\ textDisk' \in Texts
        /\ T!LinesOf(textDisk') = T!LinesOf(textDisk)
        /\ ~ T!LastLineOpen(textDisk')
    BY LinesOfEnded DEF T!WriteNewline, FileInv, T!TypeOK, Texts
  <1>2. textDisk' # << >>
    BY <1>1 DEF FileInv, T!TypeOK
  <1>3. T!TypeOK'
    BY <1>1, <1>2 DEF T!WriteNewline, FileInv, T!TypeOK, Texts
  <1>4. T!NoMergedLines'
    BY <1>1, SameLines DEF FileInv, T!NoMergedLines
  <1> QED BY <1>1, <1>3, <1>4 DEF T!WriteNewline, FileInv

(* Text added behind what is there leaves a text that is not empty so. *)
LEMMA StaysThere ==
    ASSUME NEW txt \in Texts, NEW more \in Texts, txt # << >>
    PROVE  txt \o more # << >>
  BY DEF Texts

LEMMA WriteInv ==
    ASSUME T!LinesAssumption, FileInv, T!Write
    PROVE  FileInv' /\ T!LinesOf(textDisk') = T!LinesOf(textDisk) \o lines
  <1>1. /\ textDisk \in Texts /\ lines \in Seq(Lines) /\ ~ T!LastLineOpen(textDisk)
        /\ textDisk' = textDisk \o T!Text(lines)
    BY DEF T!Write, FileInv, T!TypeOK, Texts
  <1>2. textDisk' \in Texts /\ T!LinesOf(textDisk') = T!LinesOf(textDisk) \o lines
    BY <1>1, LinesOfWritten
  <1>3. textDisk # << >> => textDisk' # << >>
    BY <1>1, LinesOfWritten, StaysThere
  <1>4. T!TypeOK'
    BY <1>2, <1>3 DEF T!Write, FileInv, T!TypeOK, Texts
  <1>5. T!NoMergedLines'
    <2>1. T!LinesOf(textDisk) \in Seq(Words) /\ lines \in Seq(Words)
      BY <1>1, LinesOfType, LineFacts
    <2>2. ASSUME NEW i \in DOMAIN T!LinesOf(textDisk')
          PROVE  \E l \in Lines : T!IsPrefix(T!LinesOf(textDisk')[i], l)
      <3>1. CASE i \in DOMAIN T!LinesOf(textDisk)
        BY <1>2, <2>1, <3>1 DEF FileInv, T!NoMergedLines, T!NoneMerged
      <3>2. CASE i \notin DOMAIN T!LinesOf(textDisk)
        <4>1. T!LinesOf(textDisk')[i] \in Lines
          BY <1>1, <1>2, <2>1, <2>2, <3>2
        <4>2. T!LinesOf(textDisk')[i] \in Words
          BY <4>1, LineFacts
        <4> QED BY <4>1, <4>2 DEF T!IsPrefix, Words
      <3> QED BY <3>1, <3>2
    <2> QED BY <2>2 DEF T!NoMergedLines, T!NoneMerged
  <1> QED BY <1>2, <1>4, <1>5 DEF T!Write, FileInv

LEMMA InterruptInv ==
    ASSUME T!LinesAssumption, FileInv, NEW n \in 0 .. Len(T!Text(lines)), T!Interrupt(n)
    PROVE  FileInv' /\ (T!LinesOf(textDisk') = T!LinesOf(textDisk) \/ Added(T!LinesOf(textDisk), T!LinesOf(textDisk'), lines))
  <1>1. textDisk \in Texts /\ lines \in Seq(Lines)
    BY DEF FileInv, T!TypeOK, Texts
  <1>2. CASE textPc = "write"
    <2>1. /\ textDisk' \in Texts
          /\ Added(T!LinesOf(textDisk), T!LinesOf(textDisk'), lines)
      BY <1>1, <1>2, LinesOfWritten DEF T!Interrupt, FileInv
    <2>2. textDisk # << >> => textDisk' # << >>
      <3>1. T!Text(lines) \in Texts
        BY <1>1, <1>2, LinesOfWritten DEF FileInv
      <3>2. SubSeq(T!Text(lines), 1, n) \in Texts
        BY <3>1 DEF Texts
      <3> QED BY <1>1, <3>2, StaysThere DEF T!Interrupt
    <2>3. T!TypeOK'
      BY <2>1, <2>2 DEF T!Interrupt, FileInv, T!TypeOK, Texts
    <2>4. T!NoMergedLines'
      BY <1>1, <2>1, NoneMergedAdded DEF FileInv, T!NoMergedLines
    <2> QED BY <2>1, <2>3, <2>4 DEF T!Interrupt, FileInv
  <1>3. CASE textPc # "write"
    <2>1. textDisk' = textDisk
      <3>1. n = 0
        BY <1>3 DEF T!Interrupt
      <3>2. SubSeq(T!Text(lines), 1, 0) = << >>
        OBVIOUS
      <3> QED BY <1>1, <3>1, <3>2, ConcatEmpty DEF T!Interrupt, Texts
    <2>2. T!TypeOK'
      BY <2>1 DEF T!Interrupt, FileInv, T!TypeOK
    <2>3. T!NoMergedLines'
      BY <2>1, SameLines DEF FileInv, T!NoMergedLines
    <2> QED BY <2>1, <2>2, <2>3 DEF T!Interrupt, FileInv
  <1> QED BY <1>2, <1>3

LEMMA FileNext == T!LinesAssumption /\ FileInv /\ [T!Next]_(T!vars) => FileInv'
  <1> SUFFICES ASSUME T!LinesAssumption, FileInv, [T!Next]_(T!vars)
               PROVE  FileInv'
    OBVIOUS
  <1>1. CASE \E k \in 0 .. MaxLines, flag \in BOOLEAN : \E ls \in [1 .. k -> Lines] : T!Start(ls, flag)
    BY <1>1, StartInv
  <1>2. CASE T!Open
    BY <1>2, OpenInv
  <1>3. CASE T!Stat
    BY <1>3, StatInv
  <1>4. CASE T!WriteNewline
    BY <1>4, WriteNewlineInv
  <1>5. CASE T!Write
    BY <1>5, WriteInv
  <1>6. CASE T!Exit
    BY <1>6 DEF T!Exit, FileInv, T!TypeOK, T!NoMergedLines, T!NoneMerged
  <1>7. CASE \E n \in 0 .. Len(T!Text(lines)) : T!Interrupt(n)
    BY <1>7, InterruptInv
  <1>8. CASE UNCHANGED T!vars
    BY <1>8 DEF T!vars, FileInv, T!TypeOK, T!NoMergedLines, T!NoneMerged, T!LastLineOpen
  <1> QED BY <1>1, <1>2, <1>3, <1>4, <1>5, <1>6, <1>7, <1>8 DEF T!Next

(* However runs are interrupted, outputToFile never makes one line of two, *)
(* and adds a newline only behind a line that is open. *)
THEOREM KeepsLinesApart ==
    ASSUME T!LinesAssumption
    PROVE  T!Spec => []FileInv
  <1>1. T!Init => FileInv
    BY FileInit
  <1>2. FileInv /\ [T!Next]_(T!vars) => FileInv'
    BY FileNext
  <1> QED BY <1>1, <1>2, PTL DEF T!Spec

-----------------------------------------------------------------------------
(* Each step of a run, seen as a step of the log of lines. *)
LEMMA SamePrefix ==
    \A s, t : Log!IsPrefix(s, t) <=> T!IsPrefix(s, t)
  BY DEF T!IsPrefix, Log!IsPrefix

LEMMA LogInit ==
    ASSUME FileInv
    PROVE  Log!Init
  BY SamePrefix DEF FileInv, T!TypeOK, T!NoMergedLines, T!NoneMerged, Log!Init

LEMMA LogAdd ==
    ASSUME T!LinesAssumption, FileInv, FileInv', NEW ls \in Seq(Lines),
           Added(T!LinesOf(textDisk), T!LinesOf(textDisk'), ls), UNCHANGED textAppend
    PROVE  Log!Next
  <1>1. T!LinesOf(textDisk) \in Seq(Words) /\ T!LinesOf(textDisk') \in Seq(Words)
    BY LinesOfType DEF FileInv, T!TypeOK, Texts
  <1>2. Log!AddedTo(T!LinesOf(textDisk), T!LinesOf(textDisk'))
    BY <1>1, AddedFacts, SamePrefix DEF Log!AddedTo, Log!Whole, Log!Cut
  <1> QED BY <1>2 DEF Log!Next, Log!Add

LEMMA LogStep ==
    ASSUME T!LinesAssumption, FileInv, [T!Next]_(T!vars)
    PROVE  [Log!Next]_(Log!vars)
  <1>1. FileInv'
    BY FileNext
  <1>2. CASE \E k \in 0 .. MaxLines, flag \in BOOLEAN : \E ls \in [1 .. k -> Lines] : T!Start(ls, flag)
    BY <1>2 DEF T!Start, Log!Next, Log!NextRun
  <1>3. CASE T!Open
    <2>1. T!LinesOf(textDisk') = IF textAppend THEN T!LinesOf(textDisk) ELSE << >>
      BY <1>3, OpenInv
    <2> QED BY <1>3, <2>1 DEF T!Open, FileInv, T!TypeOK, Log!Next, Log!Empty, Log!vars
  <1>4. CASE T!Stat
    BY <1>4 DEF T!Stat, Log!vars
  <1>5. CASE T!WriteNewline
    BY <1>5, WriteNewlineInv DEF T!WriteNewline, Log!vars
  <1>6. CASE T!Write
    <2>1. T!LinesOf(textDisk') = T!LinesOf(textDisk) \o lines
      BY <1>6, WriteInv
    <2>2. T!LinesOf(textDisk) \in Seq(Words) /\ lines \in Seq(Words) /\ lines \in Seq(Lines)
      BY LinesOfType, LineFacts DEF FileInv, T!TypeOK, Texts
    <2>3. Added(T!LinesOf(textDisk), T!LinesOf(textDisk'), lines)
      <3>1. Len(lines) \in 0 .. Len(lines) /\ SubSeq(lines, 1, Len(lines)) = lines
        BY <2>2, SubSeqEnds
      <3> QED BY <2>1, <2>2, <3>1, AddedWhole
    <2> QED BY <1>1, <1>6, <2>2, <2>3, LogAdd DEF T!Write
  <1>7. CASE T!Exit
    BY <1>7 DEF T!Exit, Log!vars
  <1>8. CASE \E n \in 0 .. Len(T!Text(lines)) : T!Interrupt(n)
    <2>1. T!LinesOf(textDisk') = T!LinesOf(textDisk) \/ Added(T!LinesOf(textDisk), T!LinesOf(textDisk'), lines)
      BY <1>8, InterruptInv
    <2>2. lines \in Seq(Lines) /\ textAppend' = textAppend
      BY <1>8 DEF T!Interrupt, FileInv, T!TypeOK
    <2> QED BY <1>1, <2>1, <2>2, LogAdd DEF Log!vars
  <1>9. CASE UNCHANGED T!vars
    BY <1>9 DEF T!vars, Log!vars
  <1> QED BY <1>2, <1>3, <1>4, <1>5, <1>6, <1>7, <1>8, <1>9 DEF T!Next

(* A file that outputToFile writes, run after run, is a log of lines: none *)
(* that is there changes, and only the last one of a run can be cut. *)
THEOREM ImplementsLineLog ==
    ASSUME T!LinesAssumption
    PROVE  T!Spec => Log!Spec
  <1>1. T!Init => Log!Init
    BY FileInit, LogInit
  <1>2. FileInv /\ [T!Next]_(T!vars) => [Log!Next]_(Log!vars)
    BY LogStep
  <1> QED BY <1>1, <1>2, KeepsLinesApart, PTL DEF T!Spec, Log!Spec

-----------------------------------------------------------------------------
(* What outputRulesetToFile has in hand: the rules it is to write are the  *)
(* old ones, if it keeps them, and its own, and until it has written, the  *)
(* old ones are the last that were written.                                *)
KeepsOld == ruleAppend /\ format = "json" /\ oldRules.form = "json"

RulesetInv ==
    /\ R!TypeOK
    /\ WritesItsRules
    /\ RulesInOrder
    /\ rulePc = "read" => /\ ruleAppend /\ format = "json"
                          /\ \E r \in Rules : rules = <<r>>
    /\ rulePc \in {"open", "write", "done"} =>
         \E r \in Rules : rules = IF KeepsOld THEN Append(oldRules.rules, r) ELSE <<r>>
    /\ rulePc \in {"read", "open"} => ruleDisk = oldRules
    /\ rulePc = "write" => IsSuffix(oldRules.rules, written)

(* The invocation has looked at its flags and has data for its writer. *)
Writing ==
    /\ exitCode = 0
    /\ ~ global.version /\ ToFile(global)
    /\ trouble \in GoesOnWith
    /\ writer = Writer(global)
    /\ writer = "text" => textPc # "idle" /\ textAppend = global.append
    /\ writer = "ruleset" => rulePc # "idle"

OldLines == T!LinesOf(before[1])

KeptLines == IF global.append THEN OldLines ELSE << >>

(* How far the lines of the text are. *)
TextSoFar ==
    IF writer # "text" THEN T!LinesOf(textDisk) = OldLines
    ELSE /\ textPc = "open" => T!LinesOf(textDisk) = OldLines
         /\ textPc \in {"stat", "newline", "write"} => T!LinesOf(textDisk) = KeptLines
         /\ textPc = "done" => T!LinesOf(textDisk) = KeptLines \o lines

ProcessInv ==
    /\ stage # "write" => textPc = "idle" /\ rulePc = "idle"
    /\ stage # "idle" => before[1] \in Texts
    /\ stage = "run" => /\ exitCode = 0
                        /\ before = <<textDisk, ruleDisk, dat>>
                        /\ ToFile(global) => Writer(global) \in {writer, "none"}
    /\ stage = "write" => Writing /\ TextSoFar
    /\ StatusTellsTruth
    /\ KeepsFiles

IInv == TypeOK /\ FileInv /\ RulesetInv /\ ProcessInv

(* What TypeOK says of the process, apart from its writers. *)
ProcessTypes ==
    /\ dat \in {"old", "empty", "partial", "whole"}
    /\ DOMAIN global = DOMAIN Defaults
    /\ \A name \in Switches : global[name] \in BOOLEAN
    /\ exitCode \in {0, 1}
    /\ status \in {0, 1, 9}
    /\ trouble \in {"none", "usage", "data", "nothing", "write", "killed"}
    /\ stage \in {"idle", "run", "write", "ended"}
    /\ textPc # "idle" => stage = "write" /\ writer = "text"
    /\ rulePc # "idle" => stage = "write" /\ writer = "ruleset"

-----------------------------------------------------------------------------
(* The recursion of Parsed: what the first n flags say. *)
ParsedUpTo(line) ==
    CHOOSE upTo : upTo = [n \in 0 .. Len(line) |->
          IF n = 0 THEN Defaults
          ELSE IF Understood(line, n)
          THEN [upTo[n - 1] EXCEPT ![line[n].name] = line[n].value]
          ELSE upTo[n - 1]]

ParsedThen(line, n, g) ==
    IF Understood(line, n) THEN [g EXCEPT ![line[n].name] = line[n].value] ELSE g

(* What flags can say: a switch is on or off, another flag has a value. *)
Values(line) == {"geoip", "extract", "ruleset"} \cup {line[i].value : i \in DOMAIN line}

Globals(line) ==
    [input : BOOLEAN, type : Values(line), action : Values(line), list : BOOLEAN,
     ipv4 : BOOLEAN, ipv6 : BOOLEAN, regex : BOOLEAN,
     output : BOOLEAN, value : BOOLEAN, format : Values(line), append : BOOLEAN,
     lowmem : BOOLEAN, version : BOOLEAN, strict : BOOLEAN]

LEMMA DefaultsInGlobals ==
    ASSUME NEW line
    PROVE  Defaults \in Globals(line)
  BY DEF Defaults, Globals, Values

LEMMA GlobalsFacts ==
    ASSUME NEW line, NEW g \in Globals(line)
    PROVE  /\ DOMAIN g = DOMAIN Defaults
           /\ \A name \in Switches : g[name] \in BOOLEAN
           /\ Switches \subseteq DOMAIN Defaults
  BY DEF Defaults, Globals, Switches

LEMMA GlobalsSet ==
    ASSUME NEW line, NEW g \in Globals(line), NEW name \in DOMAIN Defaults,
           NEW v \in Values(line), name \in Switches => v \in BOOLEAN
    PROVE  [g EXCEPT ![name] = v] \in Globals(line)
  <1>1. name \in Switches \cup {"type", "action", "format"}
    BY DEF Defaults, Switches
  <1> QED BY <1>1 DEF Globals, Switches

LEMMA ParsedThenType ==
    ASSUME FlagsAssumption, NEW line \in CommandLines, NEW n \in 1 .. Len(line),
           NEW g \in Globals(line)
    PROVE  ParsedThen(line, n, g) \in Globals(line)
  <1>1. CASE Understood(line, n)
    <2>1. n \in 1 .. n /\ n \in DOMAIN line
      BY DEF FlagsAssumption
    <2>2. line[n].name \in DOMAIN Defaults
      BY <1>1, <2>1 DEF Understood, Known
    <2>3. /\ line[n].value \in Values(line)
          /\ line[n].name \in Switches => line[n].value \in BOOLEAN
      BY <2>1 DEF FlagsAssumption, Values
    <2> QED BY <1>1, <2>2, <2>3, GlobalsSet DEF ParsedThen
  <1>2. CASE ~ Understood(line, n)
    BY <1>2 DEF ParsedThen
  <1> QED BY <1>1, <1>2

(* Whatever flags are given, the switches are on or off. *)
LEMMA ParsedType ==
    ASSUME FlagsAssumption, NEW line \in CommandLines
    PROVE  Parsed(line) \in Globals(line)
  <1> DEFINE N == Len(line)
             first == Defaults
             V == Globals(line)
             next == [n \in 1 .. N |-> [g \in V |-> ParsedThen(line, n, g)]]
             Body(f) == [n \in 0 .. N |-> IF n = 0 THEN first ELSE ParsedThen(line, n, f[n - 1])]
  <1>1. N \in Nat /\ first \in V
    BY DefaultsInGlobals DEF FlagsAssumption
  <1>2. \A n \in 1 .. N, g \in V : ParsedThen(line, n, g) \in V
    BY ParsedThenType
  <1>3. \A n \in 1 .. N, g \in V : next[n][g] = ParsedThen(line, n, g)
    OBVIOUS
  <1>4. ParsedUpTo(line) = CHOOSE f : f = Body(f)
    BY DEF ParsedUpTo, ParsedThen
  <1>5. Parsed(line) = ParsedUpTo(line)[N]
    BY DEF Parsed, ParsedUpTo
  <1> HIDE DEF next, N, first, V
  <1>6. PICK f : IsRecursive(f, N, V, first, next)
    <2>1. IsStep(next, N, V)
      BY <1>2, <1>3 DEF IsStep
    <2> QED BY <1>1, <2>1, RecursiveFunction
  <1>7. f = Body(f)
    <2>1. ASSUME NEW n \in 1 .. N
          PROVE  f[n] = ParsedThen(line, n, f[n - 1])
      <3>1. f[n - 1] \in V
        BY <1>1, <1>6 DEF IsRecursive
      <3> QED BY <1>3, <1>6, <3>1 DEF IsRecursive
    <2> QED BY <1>1, <1>6, <2>1 DEF IsRecursive
  <1>8. ParsedUpTo(line) = Body(ParsedUpTo(line))
    BY <1>4, <1>7
  <1>9. /\ ParsedUpTo(line)[0] = first
        /\ \A n \in 1 .. N : ParsedUpTo(line)[n] = ParsedThen(line, n, ParsedUpTo(line)[n - 1])
    BY <1>1, <1>8
  <1> DEFINE Typed == {n \in 0 .. N : ParsedUpTo(line)[n] \in V}
  <1>10. 0 \in Typed
    BY <1>1, <1>9
  <1>11. \A n \in 0 .. N - 1 : n \in Typed => n + 1 \in Typed
    BY <1>1, <1>2, <1>9
  <1> HIDE DEF Typed
  <1>12. 0 .. N \subseteq Typed
    BY <1>1, <1>10, <1>11, InductionUpTo
  <1> QED BY <1>1, <1>5, <1>12 DEF Typed, V

-----------------------------------------------------------------------------
(* The end of a sequence, member by member. *)
LEMMA SuffixIs ==
    ASSUME NEW S, NEW s \in Seq(S), NEW t \in Seq(S)
    PROVE  IsSuffix(s, t) <=>
             /\ Len(s) <= Len(t)
             /\ \A i \in 1 .. Len(s) : s[i] = t[Len(t) - Len(s) + i]
  <1> DEFINE m == Len(s)
             n == Len(t)
             rs == Reverse(s)
             rt == Reverse(t)
  <1>1. m \in Nat /\ n \in Nat
    OBVIOUS
  <1>2. /\ rs \in Seq(S) /\ Len(rs) = m /\ \A i \in 1 .. m : rs[i] = s[m - i + 1]
        /\ rt \in Seq(S) /\ Len(rt) = n /\ \A i \in 1 .. n : rt[i] = t[n - i + 1]
    BY DEF Reverse
  <1> HIDE DEF rs, rt
  <1>3. IsPrefix(rs, rt) <=> m <= n /\ \A i \in 1 .. m : rs[i] = rt[i]
    BY <1>2 DEF IsPrefix
  <1> HIDE DEF m, n
  <1>4. ASSUME m <= n
        PROVE  (\A i \in 1 .. m : rs[i] = rt[i]) <=> (\A i \in 1 .. m : s[i] = t[n - m + i])
    <2>1. ASSUME \A i \in 1 .. m : rs[i] = rt[i], NEW i \in 1 .. m
          PROVE  s[i] = t[n - m + i]
      <3>1. m - i + 1 \in 1 .. m /\ m - (m - i + 1) + 1 = i /\ n - (m - i + 1) + 1 = n - m + i
        BY <1>1
      <3>2. m - i + 1 \in 1 .. n
        BY <1>1, <1>4, <3>1
      <3> QED BY <1>2, <2>1, <3>1, <3>2
    <2>2. ASSUME \A i \in 1 .. m : s[i] = t[n - m + i], NEW i \in 1 .. m
          PROVE  rs[i] = rt[i]
      <3>1. PICK j \in 1 .. m : j = m - i + 1 /\ n - m + j = n - i + 1 /\ i \in 1 .. n
        <4>1. m - i + 1 \in 1 .. m /\ n - m + (m - i + 1) = n - i + 1 /\ i \in 1 .. n
          BY <1>1, <1>4
        <4> QED BY <4>1
      <3>2. s[j] = t[n - m + j]
        BY <2>2
      <3> QED BY <1>2, <3>1, <3>2
    <2> QED BY <2>1, <2>2
  <1> QED BY <1>3, <1>4 DEF IsSuffix, rs, rt, m, n

LEMMA SuffixFacts ==
    ASSUME NEW S, NEW t \in Seq(S)
    PROVE  /\ IsSuffix(<< >>, t)
           /\ IsSuffix(t, t)
           /\ \A x \in S : IsSuffix(<<x>>, Append(t, x))
           /\ \A s \in Seq(S), x \in S :
                IsSuffix(s, t) => IsSuffix(Append(s, x), Append(t, x))
  <1>1. IsSuffix(<< >>, t)
    <2> DEFINE none == << >>
    <2>1. none \in Seq(S) /\ Len(none) = 0 /\ Len(t) \in Nat
      OBVIOUS
    <2> HIDE DEF none
    <2>2. IsSuffix(none, t) <=>
            Len(none) <= Len(t) /\ \A i \in 1 .. Len(none) : none[i] = t[Len(t) - Len(none) + i]
      BY <2>1, SuffixIs
    <2>3. IsSuffix(none, t)
      BY <2>1, <2>2
    <2> QED BY <2>3 DEF none
  <1>2. IsSuffix(t, t)
    BY SuffixIs
  <1>3. ASSUME NEW x \in S
        PROVE  IsSuffix(<<x>>, Append(t, x))
    <2>1. /\ <<x>> \in Seq(S) /\ Len(<<x>>) = 1 /\ <<x>>[1] = x
          /\ Append(t, x) \in Seq(S) /\ Len(Append(t, x)) = Len(t) + 1
          /\ Append(t, x)[Len(t) + 1] = x /\ Len(t) \in Nat
      OBVIOUS
    <2> DEFINE one == <<x>>
               more == Append(t, x)
    <2>2. /\ one \in Seq(S) /\ Len(one) = 1 /\ one[1] = x
          /\ more \in Seq(S) /\ Len(more) = Len(t) + 1 /\ more[Len(t) + 1] = x
      BY <2>1
    <2> HIDE DEF one, more
    <2>3. IsSuffix(one, more)
      BY <2>1, <2>2, SuffixIs
    <2> QED BY <2>3 DEF one, more
  <1>4. ASSUME NEW s \in Seq(S), NEW x \in S, IsSuffix(s, t)
        PROVE  IsSuffix(Append(s, x), Append(t, x))
    <2>1. Len(s) <= Len(t) /\ \A i \in 1 .. Len(s) : s[i] = t[Len(t) - Len(s) + i]
      BY <1>4, SuffixIs
    <2> DEFINE u == Append(s, x)
               v == Append(t, x)
    <2>2. /\ u \in Seq(S) /\ Len(u) = Len(s) + 1 /\ Len(s) \in Nat
          /\ v \in Seq(S) /\ Len(v) = Len(t) + 1 /\ Len(t) \in Nat
          /\ \A i \in 1 .. Len(s) : u[i] = s[i]
          /\ \A i \in 1 .. Len(t) : v[i] = t[i]
          /\ u[Len(s) + 1] = x /\ v[Len(t) + 1] = x
      OBVIOUS
    <2> HIDE DEF u, v
    <2>3. ASSUME NEW i \in 1 .. Len(u)
          PROVE  u[i] = v[Len(v) - Len(u) + i]
      <3>1. CASE i = Len(s) + 1
        BY <2>2, <3>1
      <3>2. CASE i \in 1 .. Len(s)
        <4>1. PICK j \in 1 .. Len(t) : j = Len(t) - Len(s) + i /\ j = Len(v) - Len(u) + i
          <5>1. /\ Len(t) - Len(s) + i \in 1 .. Len(t)
                /\ Len(t) - Len(s) + i = Len(v) - Len(u) + i
            BY <2>1, <2>2, <3>2
          <5> QED BY <5>1
        <4> QED BY <2>1, <2>2, <3>2, <4>1
      <3> QED BY <2>2, <3>1, <3>2
    <2>4. Len(u) <= Len(v)
      BY <2>1, <2>2
    <2>5. IsSuffix(u, v) <=>
            Len(u) <= Len(v) /\ \A i \in 1 .. Len(u) : u[i] = v[Len(v) - Len(u) + i]
      BY <2>2, SuffixIs
    <2>6. IsSuffix(u, v)
      BY <2>3, <2>4, <2>5
    <2> QED BY <2>6 DEF u, v
  <1> QED BY <1>1, <1>2, <1>3, <1>4

LEMMA SameSuffix ==
    \A s, t : R!IsSuffix(s, t) <=> IsSuffix(s, t)
  BY DEF IsSuffix, IsPrefix, Reverse, R!IsSuffix, R!IsPrefix, R!Reverse

-----------------------------------------------------------------------------
(* Each step of outputRulesetToFile keeps its invariant. *)
LEMMA RulesetInit ==
    ASSUME FilesAssumption, R!Init
    PROVE  RulesetInv
  <1>1. MaxInvocations \in Nat
    BY DEF FilesAssumption, T!LinesAssumption
  <1>2. /\ ruleDisk \in RuleContents /\ rulePc = "idle" /\ written = ruleDisk.rules
        /\ format = "ruleset" /\ ruleAppend \in BOOLEAN /\ rules \in Seq(Rules)
        /\ oldRules = ruleDisk /\ ruleRuns = 0
    <2>1. rules \in Seq(Rules)
      BY DEF R!Init
    <2>2. ruleAppend \in BOOLEAN
      BY Zenon DEF R!Init
    <2> QED BY <2>1, <2>2 DEF R!Init
  <1>3. /\ ruleDisk.form \in R!Forms /\ ruleDisk.rules \in Seq(Rules)
        /\ ruleDisk.form \notin R!HasRules => ruleDisk.rules = << >>
    BY <1>2 DEF FilesAssumption, R!ContentsAssumption
  <1>4. R!TypeOK
    BY <1>1, <1>2, <1>3 DEF R!TypeOK, R!Formats
  <1>5. RulesInOrder
    BY <1>2, <1>3, SuffixFacts, SameSuffix DEF RulesInOrder, R!RulesInOrder
  <1>6. WritesItsRules
    BY <1>2 DEF WritesItsRules, R!WritesItsRules
  <1> QED BY <1>2, <1>4, <1>5, <1>6 DEF RulesetInv

LEMMA RulesetStart ==
    ASSUME RulesetInv, MaxInvocations \in Nat, NEW rule \in Rules, NEW fmt \in {"json", "ruleset"},
           NEW flag \in BOOLEAN, R!Start(rule, fmt, flag)
    PROVE  RulesetInv'
  <1>1. /\ rulePc = "idle" /\ rulePc' = (IF fmt = "json" /\ flag THEN "read" ELSE "open")
        /\ rules' = <<rule>> /\ oldRules' = ruleDisk /\ format' = fmt /\ ruleAppend' = flag
        /\ ruleDisk' = ruleDisk /\ written' = written /\ ruleRuns < MaxInvocations
        /\ ruleRuns' = ruleRuns + 1
    BY DEF R!Start
  <1>2. R!TypeOK'
    BY <1>1 DEF RulesetInv, R!TypeOK, R!Formats
  <1>3. RulesInOrder'
    BY <1>1 DEF RulesetInv, RulesInOrder, R!RulesInOrder
  <1>4. WritesItsRules'
    BY <1>1 DEF WritesItsRules, R!WritesItsRules
  <1>5. rulePc' = "open" => ~ KeepsOld'
    BY <1>1 DEF KeepsOld
  <1> QED BY <1>1, <1>2, <1>3, <1>4, <1>5 DEF RulesetInv

LEMMA RulesetReadOld ==
    ASSUME RulesetInv, R!ReadOld
    PROVE  RulesetInv'
  <1>1. /\ rulePc = "read" /\ rulePc' = "open" /\ ruleAppend /\ format = "json"
        /\ ruleDisk = oldRules /\ UNCHANGED <<ruleDisk, written, oldRules, format, ruleAppend, ruleRuns>>
        /\ rules' = R!Decoded(ruleDisk) \o rules
    BY DEF R!ReadOld, R!flags, R!Merged, RulesetInv
  <1>2. PICK r \in Rules : rules = <<r>>
    BY <1>1 DEF RulesetInv
  <1>3. PICK s \in Seq(Rules) : s = oldRules.rules
    BY DEF RulesetInv, R!TypeOK
  <1>4. rules' = IF KeepsOld THEN Append(s, r) ELSE <<r>>
    <2>1. s \o <<r>> = Append(s, r) /\ << >> \o <<r>> = <<r>>
      OBVIOUS
    <2> QED BY <1>1, <1>2, <1>3, <2>1 DEF KeepsOld, R!Decoded
  <1>5. rules' \in Seq(Rules)
    BY <1>4
  <1>6. R!TypeOK'
    BY <1>1, <1>5 DEF RulesetInv, R!TypeOK
  <1>7. KeepsOld' = KeepsOld
    BY <1>1 DEF KeepsOld
  <1>8. RulesInOrder'
    BY <1>1 DEF RulesetInv, RulesInOrder, R!RulesInOrder
  <1>9. WritesItsRules'
    BY <1>1 DEF WritesItsRules, R!WritesItsRules
  <1>10. \E q \in Rules : rules' = IF KeepsOld' THEN Append(oldRules'.rules, q) ELSE <<q>>
    BY <1>1, <1>3, <1>4, <1>7
  <1> QED BY <1>1, <1>6, <1>8, <1>9, <1>10 DEF RulesetInv

LEMMA RulesetOpen ==
    ASSUME RulesetInv, R!Open
    PROVE  RulesetInv'
  <1>1. /\ rulePc = "open" /\ rulePc' = "write" /\ ruleDisk = oldRules
        /\ UNCHANGED <<rules, written, oldRules, format, ruleAppend, ruleRuns>>
        /\ ruleDisk'.form = "empty" /\ ruleDisk'.rules = << >>
    BY DEF R!Open, R!Opened, R!flags, RulesetInv
  <1>2. R!TypeOK'
    <2>1. << >> \in Seq(Rules)
      OBVIOUS
    <2> QED BY <1>1, <2>1 DEF RulesetInv, R!TypeOK, R!Forms
  <1>3. RulesInOrder'
    BY <1>1, SuffixFacts, SameSuffix DEF RulesetInv, R!TypeOK, RulesInOrder, R!RulesInOrder
  <1>4. WritesItsRules'
    BY <1>1 DEF WritesItsRules, R!WritesItsRules
  <1>5. KeepsOld' = KeepsOld /\ \E q \in Rules : rules' = IF KeepsOld THEN Append(oldRules.rules, q) ELSE <<q>>
    BY <1>1 DEF KeepsOld, RulesetInv
  <1>6. IsSuffix(oldRules'.rules, written')
    BY <1>1, SameSuffix DEF RulesetInv, RulesInOrder, R!RulesInOrder
  <1> QED BY <1>1, <1>2, <1>3, <1>4, <1>5, <1>6 DEF RulesetInv

LEMMA RulesetWrite ==
    ASSUME RulesetInv, R!Write
    PROVE  RulesetInv'
  <1>1. /\ rulePc = "write" /\ rulePc' = "done"
        /\ UNCHANGED <<rules, oldRules, format, ruleAppend, ruleRuns>>
        /\ ruleDisk'.form = R!FormWritten(format) /\ ruleDisk'.rules = rules
        /\ written' = Append(written, R!Last(rules))
    BY DEF R!Write, R!flags
  <1>2. PICK r \in Rules : rules = IF KeepsOld THEN Append(oldRules.rules, r) ELSE <<r>>
    BY <1>1 DEF RulesetInv
  <1>3. /\ oldRules.rules \in Seq(Rules) /\ written \in Seq(Rules) /\ rules \in Seq(Rules)
        /\ IsSuffix(oldRules.rules, written)
    BY <1>1 DEF RulesetInv, R!TypeOK
  <1>4. R!Last(rules) = r
    BY <1>2, <1>3 DEF R!Last
  <1>5. written' \in Seq(Rules)
    BY <1>1, <1>3, <1>4
  <1>6. R!TypeOK'
    BY <1>1, <1>3, <1>5 DEF RulesetInv, R!TypeOK, R!FormWritten, R!Forms, R!HasRules
  <1>7. RulesInOrder'
    <2>1. IsSuffix(Append(oldRules.rules, r), Append(written, r))
      BY <1>3, SuffixFacts
    <2>2. IsSuffix(<<r>>, Append(written, r))
      BY <1>3, SuffixFacts
    <2> QED BY <1>1, <1>2, <1>4, <2>1, <2>2, SameSuffix DEF RulesInOrder, R!RulesInOrder
  <1>8. KeepsOld' = KeepsOld
    BY <1>1 DEF KeepsOld
  <1>9. WritesItsRules'
    <2>1. R!Last(rules') = r
      BY <1>1, <1>4
    <2> QED BY <1>1, <1>2, <2>1 DEF KeepsOld, WritesItsRules, R!WritesItsRules
  <1>10. \E q \in Rules : rules' = IF KeepsOld' THEN Append(oldRules'.rules, q) ELSE <<q>>
    BY <1>1, <1>2, <1>8
  <1> QED BY <1>1, <1>6, <1>7, <1>9, <1>10 DEF RulesetInv

LEMMA RulesetInterrupt ==
    ASSUME RulesetInv, R!Interrupt
    PROVE  RulesetInv'
  <1>1. /\ rulePc' = "idle"
        /\ UNCHANGED <<rules, written, oldRules, format, ruleAppend, ruleRuns>>
        /\ ruleDisk' = ruleDisk \/ (ruleDisk'.form = "partial" /\ ruleDisk'.rules = << >>)
    BY DEF R!Interrupt, R!flags
  <1>2. R!TypeOK'
    <2>1. << >> \in Seq(Rules)
      OBVIOUS
    <2> QED BY <1>1, <2>1 DEF RulesetInv, R!TypeOK, R!Forms
  <1>3. RulesInOrder'
    <2>1. IsSuffix(<< >>, written) /\ IsSuffix(ruleDisk.rules, written)
      BY SuffixFacts, SameSuffix DEF RulesetInv, R!TypeOK, RulesInOrder, R!RulesInOrder
    <2> QED BY <1>1, <2>1, SameSuffix DEF RulesInOrder, R!RulesInOrder
  <1>4. WritesItsRules'
    BY <1>1 DEF WritesItsRules, R!WritesItsRules
  <1> QED BY <1>1, <1>2, <1>3, <1>4 DEF RulesetInv

LEMMA RulesetExit ==
    ASSUME RulesetInv, R!Exit
    PROVE  /\ RulesetInv'
           /\ IsSuffix(<<Last(rules')>>, ruleDisk'.rules)
  <1>1. /\ rulePc = "done" /\ rulePc' = "idle"
        /\ UNCHANGED <<ruleDisk, rules, written, oldRules, format, ruleAppend, ruleRuns>>
    BY DEF R!Exit, R!flags
  <1>2. RulesetInv'
    BY <1>1 DEF RulesetInv, R!TypeOK, RulesInOrder, R!RulesInOrder, WritesItsRules, R!WritesItsRules
  <1>3. PICK r \in Rules : rules = IF KeepsOld THEN Append(oldRules.rules, r) ELSE <<r>>
    BY <1>1 DEF RulesetInv
  <1>4. oldRules.rules \in Seq(Rules) /\ rules \in Seq(Rules)
    BY DEF RulesetInv, R!TypeOK
  <1>5. Last(rules) = r /\ R!Last(rules) = r
    BY <1>3, <1>4 DEF Last, R!Last
  <1>6. ruleDisk.rules = IF KeepsOld THEN Append(oldRules.rules, r) ELSE <<r>>
    BY <1>1, <1>5 DEF RulesetInv, WritesItsRules, R!WritesItsRules, KeepsOld
  <1>7. IsSuffix(<<r>>, Append(oldRules.rules, r)) /\ IsSuffix(<<r>>, <<r>>)
    <2>1. <<r>> \in Seq(Rules)
      OBVIOUS
    <2> QED BY <1>4, <2>1, SuffixFacts
  <1>8. IsSuffix(<<r>>, ruleDisk.rules)
    BY <1>6, <1>7
  <1> QED BY <1>1, <1>2, <1>5, <1>8

LEMMA RulesetSame ==
    ASSUME RulesetInv, UNCHANGED ruleset
    PROVE  RulesetInv'
  <1>1. UNCHANGED <<ruleDisk, rules, written, oldRules, format, ruleAppend, ruleRuns, rulePc>>
    BY DEF ruleset
  <1> QED BY <1>1 DEF RulesetInv, R!TypeOK, RulesInOrder, R!RulesInOrder, WritesItsRules,
                      R!WritesItsRules, KeepsOld

-----------------------------------------------------------------------------
(* The text file, as the steps of an invocation use it.                    *)
LEMMA SamePrefixes ==
    \A s, t : T!IsPrefix(s, t) <=> IsPrefix(s, t)
  BY DEF T!IsPrefix, IsPrefix

LEMMA LinesKnown ==
    FilesAssumption => T!LinesAssumption
  BY DEF FilesAssumption

LEMMA TextTypes ==
    ASSUME FileInv
    PROVE  T!TypeOK /\ NoMergedLines /\ textDisk \in Texts /\ T!LinesOf(textDisk) \in Seq(Words)
  <1>1. textDisk \in Texts
    BY DEF FileInv, T!TypeOK, Texts
  <1> QED BY <1>1, LinesOfType DEF FileInv, NoMergedLines

LEMMA TextSame ==
    ASSUME FileInv, UNCHANGED text
    PROVE  FileInv'
  BY DEF text, FileInv, T!TypeOK, T!NoMergedLines, T!NoneMerged, T!LastLineOpen

LEMMA TextInterrupt ==
    ASSUME FilesAssumption, FileInv, NEW n \in 0 .. Len(T!Text(lines)), T!Interrupt(n)
    PROVE  FileInv' /\ IsPrefix(T!LinesOf(textDisk), T!LinesOf(textDisk'))
  <1>1. FileInv' /\ (\/ T!LinesOf(textDisk') = T!LinesOf(textDisk)
                    \/ Added(T!LinesOf(textDisk), T!LinesOf(textDisk'), lines))
    BY LinesKnown, InterruptInv
  <1>2. /\ T!LinesOf(textDisk) \in Seq(Words) /\ T!LinesOf(textDisk') \in Seq(Words)
        /\ lines \in Seq(Lines)
    BY <1>1, LinesOfType DEF FileInv, T!TypeOK, Texts
  <1>3. IsPrefix(T!LinesOf(textDisk), T!LinesOf(textDisk))
    BY <1>2 DEF IsPrefix
  <1>4. ASSUME Added(T!LinesOf(textDisk), T!LinesOf(textDisk'), lines)
        PROVE  IsPrefix(T!LinesOf(textDisk), T!LinesOf(textDisk'))
    BY <1>2, <1>4, LinesKnown, SamePrefixes, AddedFacts
  <1> QED BY <1>1, <1>3, <1>4

LEMMA TextExit ==
    ASSUME FileInv, T!Exit
    PROVE  FileInv' /\ T!LinesOf(textDisk') = T!LinesOf(textDisk)
  <1>1. /\ UNCHANGED <<textDisk, textAppend, lines, needsNewline, textRuns>>
        /\ textPc' = "idle"
    BY DEF T!Exit
  <1> QED BY <1>1 DEF FileInv, T!TypeOK, T!NoMergedLines, T!NoneMerged

LEMMA SelfPrefix ==
    ASSUME NEW S, NEW s \in Seq(S)
    PROVE  IsPrefix(s, s) /\ \A t \in Seq(S) : IsPrefix(s, s \o t)
  BY DEF IsPrefix

-----------------------------------------------------------------------------
(* The parts of the invariant make it up, before and after a step. *)
LEMMA Parts ==
    IInv <=> FileInv /\ RulesetInv /\ ProcessTypes /\ ProcessInv
  BY TextTypes DEF IInv, TypeOK, RulesetInv, ProcessTypes

(* With what a command goes on, it may. *)
LEMMA GoesOnFacts ==
    /\ GoesOnWith \subseteq {"none", "data", "nothing"}
    /\ "data" \in GoesOnWith => Drops(global)
    /\ "nothing" \in GoesOnWith => ~ EmptyIsError(global)
  BY DEF GoesOnWith, Overlooked

LEMMA ReportedFacts == Reported \subseteq {"data", "nothing"}
  BY DEF Reported

LEMMA SameFlags ==
    ASSUME global' = global
    PROVE  GoesOnWith' = GoesOnWith
  BY DEF GoesOnWith, Overlooked, Drops, EmptyIsError

LEMMA PartsNext ==
    FileInv' /\ RulesetInv' /\ ProcessTypes' /\ ProcessInv' => IInv'
  BY Parts, PTL

LEMMA InvokeInv ==
    ASSUME FlagsAssumption, IInv, NEW line \in CommandLines, Invoke(line)
    PROVE  IInv'
  <1>1. FileInv /\ RulesetInv /\ ProcessTypes /\ ProcessInv
    BY Parts
  <1>2. /\ stage = "idle" /\ stage' = "run" /\ exitCode' = 0 /\ trouble' = "none"
        /\ global' = Parsed(line) /\ status' = status /\ dat' = dat /\ writer' = writer
        /\ before' = <<textDisk, ruleDisk, dat>> /\ UNCHANGED text /\ UNCHANGED ruleset
        /\ ToFile(global') => Writer(global') \in {writer, "none"}
    BY DEF Invoke
  <1>3. FileInv' /\ RulesetInv'
    BY <1>1, <1>2, TextSame, RulesetSame
  <1>4. /\ textDisk' = textDisk /\ ruleDisk' = ruleDisk /\ textPc' = textPc /\ rulePc' = rulePc
        /\ textPc = "idle" /\ rulePc = "idle"
    BY <1>1, <1>2 DEF text, ruleset, ProcessTypes
  <1>5. DOMAIN global' = DOMAIN Defaults /\ \A name \in Switches : global'[name] \in BOOLEAN
    BY <1>2, ParsedType, GlobalsFacts
  <1>6. ProcessTypes'
    BY <1>1, <1>2, <1>4, <1>5 DEF ProcessTypes
  <1>7. before'[1] \in Texts
    BY <1>1, <1>2, TextTypes
  <1>8. ProcessInv'
    BY <1>2, <1>4, <1>7 DEF ProcessInv, StatusTellsTruth, KeepsFiles
  <1> QED BY <1>3, <1>6, <1>8, PartsNext

(* A process that ends before it writes. *)
LEMMA EndInv ==
    ASSUME IInv, stage = "run", Untouched, exitCode' \in {0, 1},
           NEW code \in {0, 1}, NEW what \in {"none", "usage", "data", "nothing"},
           End(code, what),
           what = "none" => code = 0 /\ (global.version \/ ~ ToFile(global)),
           code = 0 => \/ what = "none"
                       \/ what = "usage" /\ (UsageWrong(global) \/ global.type \notin Types)
                       \/ what = "data" /\ Drops(global)
                       \/ what = "nothing" /\ ~ EmptyIsError(global)
    PROVE  IInv'
  <1>1. FileInv /\ RulesetInv /\ ProcessTypes /\ ProcessInv
    BY Parts
  <1>2. /\ stage' = "ended" /\ status' = code /\ trouble' = what /\ dat' = dat /\ writer' = writer
        /\ global' = global /\ before' = before /\ UNCHANGED text /\ UNCHANGED ruleset
    BY DEF End, Untouched
  <1>3. FileInv' /\ RulesetInv'
    BY <1>1, <1>2, TextSame, RulesetSame
  <1>4. /\ textDisk' = textDisk /\ ruleDisk' = ruleDisk /\ textPc' = textPc /\ rulePc' = rulePc
        /\ textPc = "idle" /\ rulePc = "idle"
    BY <1>1, <1>2 DEF text, ruleset, ProcessTypes
  <1>5. ProcessTypes'
    BY <1>1, <1>2, <1>4 DEF ProcessTypes
  <1>6. before = <<textDisk, ruleDisk, dat>> /\ before[1] \in Texts /\ before[1] = textDisk
    BY <1>1 DEF ProcessInv
  <1>7. StatusTellsTruth'
    BY <1>2 DEF StatusTellsTruth
  <1>8. IsPrefix(T!LinesOf(before'[1]), T!LinesOf(textDisk'))
    BY <1>1, <1>2, <1>4, <1>6, TextTypes, SelfPrefix
  <1>9. KeepsFiles'
    BY <1>2, <1>4, <1>6, <1>8 DEF KeepsFiles
  <1>10. ProcessInv'
    BY <1>2, <1>4, <1>6, <1>7, <1>9 DEF ProcessInv
  <1> QED BY <1>3, <1>5, <1>10, PartsNext

LEMMA EarlyEndInv ==
    ASSUME IInv, Return \/ Refuse \/ NoSuchType \/ Stdout \/ DataError
    PROVE  IInv'
  <1>1. ProcessTypes /\ ProcessInv
    BY Parts
  <1>2. CASE Return
    <2>1. stage = "run" /\ exitCode = 0 /\ Untouched
      BY <1>1, <1>2 DEF Return, ProcessInv
    <2>2. CASE global.version /\ Succeed
      <3>1. End(0, "none") /\ exitCode' = 0
        BY <2>1, <2>2 DEF Succeed, GoOn
      <3> QED BY <2>1, <2>2, <3>1, EndInv
    <2>3. CASE UsageWrong(global) /\ exitCode' = 1 /\ End(0, "usage")
      BY <2>1, <2>3, EndInv
    <2> QED BY <1>2, <2>2, <2>3 DEF Return
  <1>3. CASE Refuse
    BY <1>3, EndInv DEF Refuse, Runs, Fail
  <1>4. CASE NoSuchType
    <2>1. stage = "run" /\ exitCode = 0 /\ exitCode' = 0 /\ Untouched /\ global.type \notin Types
      BY <1>1, <1>4 DEF NoSuchType, Runs, ProcessInv
    <2>2. End(0, "usage")
      BY <1>4, <2>1 DEF NoSuchType
    <2> QED BY <2>1, <2>2, EndInv
  <1>5. CASE Stdout
    <2>1. stage = "run" /\ exitCode = 0 /\ Untouched /\ ~ ToFile(global)
      BY <1>1, <1>5 DEF Stdout, Dispatched, Runs, ProcessInv
    <2>2. ASSUME NEW what \in GoesOnWith, GoOn(what) PROVE IInv'
      <3>1. End(0, what) /\ exitCode' = 0
        BY <2>1, <2>2 DEF GoOn
      <3>2. /\ what \in {"none", "data", "nothing"}
            /\ what = "data" => Drops(global)
            /\ what = "nothing" => ~ EmptyIsError(global)
        BY <2>2, GoesOnFacts
      <3> QED BY <2>1, <3>1, <3>2, EndInv
    <2>3. ASSUME NEW what \in Reported, Fail(what) PROVE IInv'
      <3>1. what \in {"data", "nothing"} /\ End(1, what) /\ exitCode' = 1
        BY <2>3, ReportedFacts DEF Fail
      <3> QED BY <2>1, <3>1, EndInv
    <2> QED BY <1>5, <2>2, <2>3 DEF Stdout
  <1>6. CASE DataError
    <2>1. PICK what \in Reported : Fail(what)
      BY <1>6 DEF DataError
    <2>2. what \in {"data", "nothing"} /\ End(1, what) /\ exitCode' = 1
      BY <2>1, ReportedFacts DEF Fail
    <2>3. stage = "run" /\ Untouched
      BY <1>6 DEF DataError, Dispatched, Runs, FileUntouched
    <2> QED BY <2>2, <2>3, EndInv
  <1> QED BY <1>2, <1>3, <1>4, <1>5, <1>6

(* What is known when an invocation that writes to the file begins to. *)
LEMMA ReadyToWrite ==
    ASSUME IInv, Dispatched, ToFile(global)
    PROVE  /\ FileInv /\ RulesetInv /\ ProcessTypes
           /\ stage = "run" /\ exitCode = 0 /\ ~ global.version
           /\ textPc = "idle" /\ rulePc = "idle"
           /\ before[1] \in Texts /\ T!LinesOf(textDisk) = OldLines
           /\ Writer(global) = writer
           /\ global.append \in BOOLEAN
  <1>1. FileInv /\ RulesetInv /\ ProcessTypes /\ ProcessInv
    BY Parts
  <1>2. stage = "run" /\ exitCode = 0 /\ ~ global.version /\ textPc = "idle" /\ rulePc = "idle"
    BY <1>1 DEF Dispatched, Runs, ProcessInv
  <1>3. before[1] \in Texts /\ before[1] = textDisk
    BY <1>1, <1>2 DEF ProcessInv
  <1>4. Writer(global) \in {writer, "none"} /\ global.action # "lookup"
    BY <1>1, <1>2 DEF ProcessInv, ToFile
  <1>5. Writer(global) # "none"
    <2>1. global.action \in {"extract", "convert"}
      BY <1>4 DEF Dispatched, Actions
    <2> QED BY <2>1 DEF Dispatched, Writer
  <1>6. global.append \in BOOLEAN
    BY <1>1 DEF ProcessTypes, Switches
  <1> QED BY <1>1, <1>2, <1>3, <1>4, <1>5, <1>6 DEF OldLines

LEMMA WriteTextInv ==
    ASSUME FilesAssumption, IInv, NEW k \in 0 .. MaxLines, NEW ls \in [1 .. k -> Lines],
           WriteText(ls)
    PROVE  IInv'
  <1>1. /\ FileInv /\ RulesetInv /\ ProcessTypes
        /\ exitCode = 0 /\ ~ global.version /\ ToFile(global)
        /\ textPc = "idle" /\ rulePc = "idle"
        /\ before[1] \in Texts /\ T!LinesOf(textDisk) = OldLines
        /\ writer = "text" /\ Writer(global) = "text"
        /\ global.append \in BOOLEAN
    BY ReadyToWrite DEF WriteText
  <1>2. /\ T!Start(ls, global.append)
        /\ stage' = "write" /\ UNCHANGED <<writer, global, exitCode, status, before, dat>>
        /\ trouble' \in GoesOnWith
        /\ UNCHANGED ruleset /\ rulePc' = rulePc
    BY DEF WriteText, StartWriting, ruleset
  <1>3. FileInv' /\ T!LinesOf(textDisk') = T!LinesOf(textDisk)
    BY <1>1, <1>2, StartInv
  <1>4. RulesetInv'
    BY <1>1, <1>2, RulesetSame
  <1>5. textPc' = "open" /\ textAppend' = global.append
    BY <1>2 DEF T!Start
  <1>6. ProcessTypes'
    BY <1>1, <1>2, <1>5, GoesOnFacts DEF ProcessTypes
  <1>7. Writing'
    BY <1>1, <1>2, <1>5, SameFlags DEF Writing, ToFile, Writer, QX, Dat, Lists
  <1>8. TextSoFar'
    BY <1>1, <1>2, <1>3, <1>5 DEF TextSoFar, OldLines
  <1>9. ProcessInv'
    BY <1>1, <1>2, <1>7, <1>8 DEF ProcessInv, StatusTellsTruth, KeepsFiles
  <1> QED BY <1>3, <1>4, <1>6, <1>9, PartsNext

LEMMA WriteRulesetInv ==
    ASSUME FilesAssumption, IInv, NEW rule \in Rules, WriteRuleset(rule)
    PROVE  IInv'
  <1>1. /\ FileInv /\ RulesetInv /\ ProcessTypes
        /\ exitCode = 0 /\ ~ global.version /\ ToFile(global)
        /\ textPc = "idle" /\ rulePc = "idle"
        /\ before[1] \in Texts /\ T!LinesOf(textDisk) = OldLines
        /\ writer = "ruleset" /\ Writer(global) = "ruleset"
        /\ global.append \in BOOLEAN
    BY ReadyToWrite DEF WriteRuleset
  <1>2. PICK fmt \in {"json", "ruleset"} : R!Start(rule, fmt, global.append)
    BY DEF WriteRuleset
  <1>3. /\ stage' = "write" /\ UNCHANGED <<writer, global, exitCode, status, before, dat>>
        /\ trouble' \in GoesOnWith
        /\ UNCHANGED text /\ textPc' = textPc /\ textDisk' = textDisk
    BY DEF WriteRuleset, StartWriting, text
  <1>4. FileInv' /\ T!LinesOf(textDisk') = T!LinesOf(textDisk)
    BY <1>1, <1>3, TextSame
  <1>5. RulesetInv'
    <2>1. MaxInvocations \in Nat
      BY DEF FilesAssumption, T!LinesAssumption
    <2> QED BY <1>1, <1>2, <2>1, RulesetStart
  <1>6. rulePc' # "idle"
    BY <1>2 DEF R!Start
  <1>7. ProcessTypes'
    BY <1>1, <1>3, <1>6, GoesOnFacts DEF ProcessTypes
  <1>8. Writing'
    BY <1>1, <1>3, <1>6, SameFlags DEF Writing, ToFile, Writer, QX, Dat, Lists
  <1>9. TextSoFar'
    BY <1>1, <1>3, <1>4 DEF TextSoFar, OldLines
  <1>10. ProcessInv'
    BY <1>1, <1>3, <1>8, <1>9 DEF ProcessInv, StatusTellsTruth, KeepsFiles
  <1> QED BY <1>4, <1>5, <1>7, <1>10, PartsNext

LEMMA WriteDatInv ==
    ASSUME IInv, WriteDat
    PROVE  IInv'
  <1>1. /\ FileInv /\ RulesetInv /\ ProcessTypes
        /\ exitCode = 0 /\ ~ global.version /\ ToFile(global)
        /\ textPc = "idle" /\ rulePc = "idle"
        /\ before[1] \in Texts /\ T!LinesOf(textDisk) = OldLines
        /\ writer = "dat" /\ Writer(global) = "dat"
    BY ReadyToWrite DEF WriteDat
  <1>2. /\ stage' = "write" /\ UNCHANGED <<writer, global, exitCode, status, before>>
        /\ trouble' \in GoesOnWith
        /\ dat' \in {"empty", dat}
        /\ UNCHANGED text /\ textPc' = textPc /\ textDisk' = textDisk
        /\ UNCHANGED ruleset /\ rulePc' = rulePc
    BY DEF WriteDat, StartWriting, text, ruleset
  <1>3. FileInv' /\ RulesetInv'
    BY <1>1, <1>2, TextSame, RulesetSame
  <1>4. ProcessTypes'
    BY <1>1, <1>2, GoesOnFacts DEF ProcessTypes
  <1>5. Writing'
    BY <1>1, <1>2, SameFlags DEF Writing, ToFile, Writer, QX, Dat, Lists
  <1>6. TextSoFar'
    BY <1>1, <1>2 DEF TextSoFar, OldLines
  <1>7. ProcessInv'
    BY <1>1, <1>2, <1>5, <1>6 DEF ProcessInv, StatusTellsTruth, KeepsFiles
  <1> QED BY <1>3, <1>4, <1>7, PartsNext

LEMMA TextStepInv ==
    ASSUME FilesAssumption, IInv, TextStep
    PROVE  IInv'
  <1>1. FileInv /\ RulesetInv /\ ProcessTypes /\ ProcessInv
    BY Parts
  <1>2. /\ T!Open \/ T!Stat \/ T!WriteNewline \/ T!Write
        /\ UNCHANGED <<writer, dat, global, exitCode, status, trouble, before, stage>>
        /\ UNCHANGED ruleset /\ rulePc' = rulePc
    BY DEF TextStep, process, ruleset
  <1>3. /\ textPc # "idle" /\ textPc' # "idle"
        /\ textAppend' = textAppend /\ lines' = lines
    BY <1>2 DEF T!Open, T!Stat, T!WriteNewline, T!Write
  <1>4. /\ stage = "write" /\ writer = "text" /\ Writing /\ TextSoFar
        /\ textAppend = global.append /\ rulePc = "idle"
        /\ before[1] \in Texts
    BY <1>1, <1>3 DEF ProcessTypes, ProcessInv, Writing
  <1>5. OldLines' = OldLines /\ KeptLines' = KeptLines
    BY <1>2 DEF OldLines, KeptLines
  <1>6. FileInv' /\ TextSoFar'
    <2>1. CASE T!Open
      <3>1. FileInv' /\ T!LinesOf(textDisk') = IF textAppend THEN T!LinesOf(textDisk) ELSE << >>
        BY <1>1, <2>1, OpenInv
      <3>2. textPc = "open" /\ textPc' \in {"stat", "write"}
        BY <2>1 DEF T!Open
      <3>3. T!LinesOf(textDisk') = KeptLines
        BY <1>4, <3>1, <3>2 DEF TextSoFar, KeptLines
      <3> QED BY <1>2, <1>4, <1>5, <3>1, <3>2, <3>3 DEF TextSoFar
    <2>2. CASE T!Stat
      <3>1. FileInv' /\ T!LinesOf(textDisk') = T!LinesOf(textDisk)
        BY <1>1, <2>2, StatInv
      <3>2. textPc = "stat" /\ textPc' \in {"newline", "write"}
        BY <2>2 DEF T!Stat
      <3> QED BY <1>2, <1>4, <1>5, <3>1, <3>2 DEF TextSoFar
    <2>3. CASE T!WriteNewline
      <3>1. FileInv' /\ T!LinesOf(textDisk') = T!LinesOf(textDisk)
        BY <1>1, <2>3, WriteNewlineInv
      <3>2. textPc = "newline" /\ textPc' = "write"
        BY <2>3 DEF T!WriteNewline
      <3> QED BY <1>2, <1>4, <1>5, <3>1, <3>2 DEF TextSoFar
    <2>4. CASE T!Write
      <3>1. FileInv' /\ T!LinesOf(textDisk') = T!LinesOf(textDisk) \o lines
        BY <1>1, <2>4, WriteInv
      <3>2. textPc = "write" /\ textPc' = "done"
        BY <2>4 DEF T!Write
      <3> QED BY <1>2, <1>3, <1>4, <1>5, <3>1, <3>2 DEF TextSoFar
    <2> QED BY <1>2, <2>1, <2>2, <2>3, <2>4
  <1>7. RulesetInv'
    BY <1>1, <1>2, RulesetSame
  <1>8. ProcessTypes'
    BY <1>1, <1>2, <1>4 DEF ProcessTypes
  <1>9. Writing'
    BY <1>2, <1>3, <1>4, SameFlags DEF Writing, ToFile, Writer, QX, Dat, Lists
  <1>10. ProcessInv'
    BY <1>2, <1>4, <1>6, <1>9 DEF ProcessInv, StatusTellsTruth, KeepsFiles
  <1> QED BY <1>6, <1>7, <1>8, <1>10, PartsNext

LEMMA RulesetStepInv ==
    ASSUME IInv, RulesetStep
    PROVE  IInv'
  <1>1. FileInv /\ RulesetInv /\ ProcessTypes /\ ProcessInv
    BY Parts
  <1>2. /\ R!ReadOld \/ R!Open \/ R!Write
        /\ UNCHANGED <<writer, dat, global, exitCode, status, trouble, before, stage>>
        /\ UNCHANGED text /\ textPc' = textPc /\ textDisk' = textDisk
    BY DEF RulesetStep, process, text
  <1>3. rulePc # "idle" /\ rulePc' # "idle"
    BY <1>2 DEF R!ReadOld, R!Open, R!Write
  <1>4. /\ stage = "write" /\ writer = "ruleset" /\ Writing /\ TextSoFar /\ textPc = "idle"
        /\ before[1] \in Texts
    BY <1>1, <1>3 DEF ProcessTypes, ProcessInv
  <1>5. FileInv' /\ RulesetInv'
    BY <1>1, <1>2, TextSame, RulesetReadOld, RulesetOpen, RulesetWrite
  <1>6. ProcessTypes'
    BY <1>1, <1>2, <1>4 DEF ProcessTypes
  <1>7. Writing'
    BY <1>2, <1>3, <1>4, SameFlags DEF Writing, ToFile, Writer, QX, Dat, Lists
  <1>8. TextSoFar'
    BY <1>2, <1>4 DEF TextSoFar, OldLines
  <1>9. ProcessInv'
    BY <1>2, <1>4, <1>7, <1>8 DEF ProcessInv, StatusTellsTruth, KeepsFiles
  <1> QED BY <1>5, <1>6, <1>9, PartsNext

(* An end in the middle of writing, or after it: what is left of the text. *)
LEMMA WrittenInv ==
    ASSUME IInv, Written
    PROVE  IInv'
  <1>1. FileInv /\ RulesetInv /\ ProcessTypes /\ ProcessInv
    BY Parts
  <1>2. /\ stage = "write" /\ exitCode = 0 /\ exitCode' = 0 /\ status' = 0
        /\ stage' = "ended" /\ UNCHANGED <<global, before, writer, trouble>>
        /\ Writing /\ TextSoFar /\ before[1] \in Texts
        /\ ToFile(global) /\ ~ global.version
    BY <1>1 DEF Written, GoOn, End, ProcessInv, Writing
  <1>6. /\ trouble' \in {"none", "data", "nothing"}
        /\ trouble' = "data" => Drops(global')
        /\ trouble' = "nothing" => ~ EmptyIsError(global')
        /\ ToFile(global')
    BY <1>2, GoesOnFacts DEF Writing
  <1>3. /\ OldLines \in Seq(Words) /\ global.append \in BOOLEAN
        /\ OldLines' = OldLines
    BY <1>1, <1>2, LinesOfType DEF OldLines, ProcessTypes, Switches
  <1>4. CASE T!Exit /\ UNCHANGED <<ruleset, dat>>
    <2>1. /\ textPc = "done" /\ textPc' = "idle" /\ lines' = lines /\ writer = "text"
          /\ UNCHANGED ruleset /\ dat' = dat /\ rulePc' = rulePc /\ rulePc = "idle"
      BY <1>1, <1>4 DEF T!Exit, ruleset, ProcessTypes
    <2>2. FileInv' /\ T!LinesOf(textDisk') = KeptLines \o lines
      BY <1>1, <1>2, <1>4, <2>1, TextExit DEF TextSoFar
    <2>3. RulesetInv'
      BY <1>1, <2>1, RulesetSame
    <2>4. ProcessTypes'
      BY <1>1, <1>2, <1>6, <2>1 DEF ProcessTypes
    <2>5. lines \in Seq(Words)
      BY <1>1, LineFacts, LinesKnown, FilesAssumption DEF FileInv, T!TypeOK
    <2>6. global.append => IsPrefix(OldLines, T!LinesOf(textDisk'))
      BY <1>3, <2>2, <2>5, SelfPrefix DEF KeptLines
    <2>7. StatusTellsTruth'
      BY <1>2, <1>6, <2>1, <2>2 DEF StatusTellsTruth, KeptLines, OldLines
    <2>8. KeepsFiles'
      BY <1>2, <1>6, <2>6 DEF KeepsFiles, OldLines
    <2>9. ProcessInv'
      BY <1>2, <2>1, <2>7, <2>8 DEF ProcessInv
    <2> QED BY <2>2, <2>3, <2>4, <2>9, PartsNext
  <1>5. CASE \/ R!Exit /\ UNCHANGED <<text, dat>>
             \/ /\ writer = "dat"
                /\ dat' = IF trouble = "nothing" THEN "empty" ELSE "whole"
                /\ UNCHANGED <<text, ruleset>>
    <2>1. /\ UNCHANGED text /\ textDisk' = textDisk /\ textPc' = textPc
          /\ dat' \in {dat, "empty", "whole"} /\ writer # "text" /\ textPc = "idle" /\ rulePc' = "idle"
          /\ writer = "dat" /\ trouble = "none" => dat' = "whole"
          /\ writer \in {"ruleset", "dat"}
      BY <1>1, <1>5 DEF R!Exit, text, ruleset, ProcessTypes
    <2>2. FileInv' /\ T!LinesOf(textDisk') = OldLines
      BY <1>1, <1>2, <2>1, TextSame DEF TextSoFar
    <2>3. RulesetInv' /\ (writer = "ruleset" => IsSuffix(<<Last(rules')>>, ruleDisk'.rules))
      <3>1. CASE R!Exit
        BY <1>1, <3>1, RulesetExit
      <3>2. CASE writer = "dat" /\ UNCHANGED ruleset
        BY <1>1, <3>2, RulesetSame
      <3> QED BY <1>5, <3>1, <3>2
    <2>4. ProcessTypes'
      BY <1>1, <1>2, <1>6, <2>1 DEF ProcessTypes
    <2>5. StatusTellsTruth'
      BY <1>2, <1>6, <2>1, <2>3 DEF StatusTellsTruth
    <2>6. KeepsFiles'
      BY <1>2, <1>3, <1>6, <2>2, SelfPrefix DEF KeepsFiles, OldLines
    <2>7. ProcessInv'
      BY <1>2, <2>1, <2>5, <2>6 DEF ProcessInv
    <2> QED BY <2>2, <2>3, <2>4, <2>7, PartsNext
  <1> QED BY <1>4, <1>5 DEF Written

LEMMA BrokenInv ==
    ASSUME FilesAssumption, IInv, Broken
    PROVE  IInv'
  <1>1. FileInv /\ RulesetInv /\ ProcessTypes /\ ProcessInv
    BY Parts
  <1>2. /\ stage = "write" /\ exitCode = 0 /\ Writing /\ TextSoFar /\ before[1] \in Texts
    BY <1>1 DEF Broken, ProcessInv, Writing
  <1>3. /\ stage' = "ended" /\ UNCHANGED <<global, before, writer>>
        /\ exitCode' \in {0, 1} /\ status' \in {0, 1, 9} /\ trouble' \in {"write", "killed"}
        /\ status' = 0 => trouble' = "write" /\ QX(global)
    BY <1>2 DEF Broken, End, Fail, Unchecked
  <1>4. /\ OldLines \in Seq(Words) /\ OldLines' = OldLines /\ global.append \in BOOLEAN
    BY <1>1, <1>2, <1>3, LinesOfType DEF OldLines, ProcessTypes, Switches
  <1>5. StatusTellsTruth'
    BY <1>3 DEF StatusTellsTruth
  <1>6. /\ FileInv' /\ RulesetInv' /\ textPc' = "idle" /\ rulePc' = "idle"
        /\ dat' \in {dat, "partial"}
        /\ global.append => IsPrefix(OldLines, T!LinesOf(textDisk'))
    <2>1. CASE \E n \in 0 .. Len(T!Text(lines)) : T!Interrupt(n) /\ UNCHANGED <<ruleset, dat>>
      <3>1. PICK n \in 0 .. Len(T!Text(lines)) : T!Interrupt(n) /\ UNCHANGED <<ruleset, dat>>
        BY <2>1
      <3>2. FileInv' /\ IsPrefix(T!LinesOf(textDisk), T!LinesOf(textDisk'))
        BY <1>1, <3>1, TextInterrupt
      <3>3. /\ textPc \in {"open", "stat", "newline", "write"} /\ textPc' = "idle"
            /\ rulePc' = rulePc /\ UNCHANGED ruleset /\ dat' = dat
        BY <3>1 DEF T!Interrupt, ruleset
      <3>4. writer = "text" /\ rulePc = "idle"
        BY <1>1, <3>3 DEF ProcessTypes
      <3>5. global.append => T!LinesOf(textDisk) = OldLines
        BY <1>2, <3>3, <3>4 DEF TextSoFar, KeptLines
      <3>6. RulesetInv'
        BY <1>1, <3>3, RulesetSame
      <3> QED BY <3>2, <3>3, <3>4, <3>5, <3>6
    <2>2. CASE (R!Interrupt /\ UNCHANGED <<text, dat>>) \/ (writer = "dat" /\ dat' \in {dat, "partial"} /\ UNCHANGED <<text, ruleset>>)
      <3>1. /\ UNCHANGED text /\ textDisk' = textDisk /\ textPc' = textPc
            /\ writer # "text" /\ textPc = "idle" /\ rulePc' = "idle" /\ dat' \in {dat, "partial"}
        BY <1>1, <2>2 DEF R!Interrupt, text, ruleset, ProcessTypes
      <3>2. FileInv' /\ T!LinesOf(textDisk') = OldLines
        BY <1>1, <1>2, <3>1, TextSame DEF TextSoFar
      <3>3. RulesetInv'
        BY <1>1, <2>2, RulesetInterrupt, RulesetSame
      <3> QED BY <1>4, <3>1, <3>2, <3>3, SelfPrefix
    <2> QED BY <2>1, <2>2 DEF Broken
  <1>7. ProcessTypes'
    BY <1>1, <1>3, <1>6 DEF ProcessTypes
  <1>8. KeepsFiles'
    BY <1>3, <1>4, <1>6 DEF KeepsFiles, OldLines
  <1>9. ProcessInv'
    BY <1>2, <1>3, <1>5, <1>6, <1>8 DEF ProcessInv
  <1> QED BY <1>6, <1>7, <1>9, PartsNext

LEMMA IdleInv ==
    ASSUME IInv, Idle
    PROVE  IInv'
  <1>1. FileInv /\ RulesetInv /\ ProcessTypes /\ ProcessInv
    BY Parts
  <1>2. /\ stage = "ended" /\ stage' = "idle" /\ exitCode' = 0 /\ status' = 0 /\ trouble' = "none"
        /\ global' = Defaults /\ UNCHANGED <<writer, dat>>
        /\ UNCHANGED text /\ UNCHANGED ruleset /\ textPc' = textPc /\ rulePc' = rulePc
    BY DEF Idle, text, ruleset
  <1>3. FileInv' /\ RulesetInv'
    BY <1>1, <1>2, TextSame, RulesetSame
  <1>4. textPc = "idle" /\ rulePc = "idle"
    BY <1>1, <1>2 DEF ProcessTypes
  <1>5. \A name \in Switches : Defaults[name] \in BOOLEAN
    BY DefaultsInGlobals, GlobalsFacts
  <1>6. ProcessTypes'
    BY <1>1, <1>2, <1>4, <1>5 DEF ProcessTypes
  <1>7. ProcessInv'
    BY <1>2, <1>4 DEF ProcessInv, StatusTellsTruth, KeepsFiles
  <1> QED BY <1>3, <1>6, <1>7, PartsNext

LEMMA StutterInv ==
    ASSUME IInv, UNCHANGED vars
    PROVE  IInv'
  <1>1. FileInv /\ RulesetInv /\ ProcessTypes /\ ProcessInv
    BY Parts
  <1>2. /\ UNCHANGED text /\ UNCHANGED ruleset
        /\ UNCHANGED <<writer, dat, global, exitCode, status, trouble, before, stage>>
        /\ UNCHANGED <<textDisk, textAppend, lines, textPc, ruleDisk, rules, rulePc>>
    BY DEF vars, text, ruleset, process
  <1>3. FileInv' /\ RulesetInv'
    BY <1>1, <1>2, TextSame, RulesetSame
  <1>4. ProcessTypes'
    BY <1>1, <1>2 DEF ProcessTypes
  <1>5. Writing <=> Writing'
    BY <1>2, SameFlags DEF Writing, ToFile, Writer, QX, Dat, Lists
  <1>6. TextSoFar <=> TextSoFar'
    BY <1>2 DEF TextSoFar, KeptLines, OldLines
  <1>7. StatusTellsTruth' /\ KeepsFiles'
    BY <1>1, <1>2 DEF ProcessInv, StatusTellsTruth, KeepsFiles, UsageWrong, QX, ToFile, Lists,
       Drops, EmptyIsError, Dat, Writer
  <1>8. ProcessInv'
    BY <1>1, <1>2, <1>5, <1>6, <1>7 DEF ProcessInv, ToFile, Lists, Writer, QX, Dat
  <1> QED BY <1>3, <1>4, <1>8, PartsNext

LEMMA InitInv ==
    ASSUME FilesAssumption, Init
    PROVE  IInv
  <1>1. FileInv /\ textPc = "idle"
    BY FileInit, LinesKnown DEF Init, T!Init
  <1>2. RulesetInv /\ rulePc = "idle"
    BY RulesetInit DEF Init, R!Init
  <1>3. \A name \in Switches : Defaults[name] \in BOOLEAN
    BY DefaultsInGlobals, GlobalsFacts
  <1>4. ProcessTypes
    BY <1>1, <1>2, <1>3 DEF Init, ProcessTypes
  <1>5. ProcessInv
    BY <1>1, <1>2 DEF Init, ProcessInv, StatusTellsTruth, KeepsFiles
  <1> QED BY <1>1, <1>2, <1>4, <1>5, Parts

LEMMA NextInv ==
    ASSUME FilesAssumption, FlagsAssumption, IInv, [Next]_vars
    PROVE  IInv'
  <1>1. CASE \E line \in CommandLines : Invoke(line)
    BY <1>1, InvokeInv
  <1>2. CASE Return \/ Refuse \/ NoSuchType \/ Stdout \/ DataError
    BY <1>2, EarlyEndInv
  <1>3. CASE \E k \in 0 .. MaxLines : \E ls \in [1 .. k -> Lines] : WriteText(ls)
    BY <1>3, WriteTextInv
  <1>4. CASE \E rule \in Rules : WriteRuleset(rule)
    BY <1>4, WriteRulesetInv
  <1>5. CASE WriteDat
    BY <1>5, WriteDatInv
  <1>6. CASE TextStep
    BY <1>6, TextStepInv
  <1>7. CASE RulesetStep
    BY <1>7, RulesetStepInv
  <1>8. CASE Written
    BY <1>8, WrittenInv
  <1>9. CASE Broken
    BY <1>9, BrokenInv
  <1>10. CASE Idle
    BY <1>10, IdleInv
  <1>11. CASE UNCHANGED vars
    BY <1>11, StutterInv
  <1> QED BY <1>1, <1>2, <1>3, <1>4, <1>5, <1>6, <1>7, <1>8, <1>9, <1>10, <1>11 DEF Next

(* The inductive invariant of the command line. *)
THEOREM Invariance == Spec => []IInv
  <1>1. Init => IInv
    BY InitInv, FilesAssumption
  <1>2. IInv /\ [Next]_vars => IInv'
    BY NextInv, FilesAssumption, FlagsAssumption
  <1> QED BY <1>1, <1>2, PTL DEF Spec

(* The types of the invocation, and which writer is at work. *)
THEOREM TypeCorrect == Spec => []TypeOK
  <1>1. IInv => TypeOK
    BY DEF IInv
  <1> QED BY <1>1, Invariance, PTL

(* However invocations of main end, outputToFile never makes one line of   *)
(* two.                                                                    *)
THEOREM LinesStayApart == Spec => []NoMergedLines
  <1>1. IInv => NoMergedLines
    BY TextTypes DEF IInv
  <1> QED BY <1>1, Invariance, PTL

(* When outputRulesetToFile has written, its rule is behind the old ones.  *)
THEOREM RulesetWhole == Spec => []WritesItsRules
  <1>1. IInv => WritesItsRules
    BY DEF IInv, RulesetInv
  <1> QED BY <1>1, Invariance, PTL

(* Whatever is interrupted, the rules of the file are the latest written.  *)
THEOREM RulesetInOrder == Spec => []RulesInOrder
  <1>1. IInv => RulesInOrder
    BY DEF IInv, RulesetInv
  <1> QED BY <1>1, Invariance, PTL

(* What the exit status of main says is true, up to the known exceptions:  *)
(* usage errors, an error writing a quantumultx list, errors of the data   *)
(* that a command drops, and an empty result it takes for a result.        *)
THEOREM StatusTrue == Spec => []StatusTellsTruth
  <1>1. IInv => StatusTellsTruth
    BY DEF IInv, ProcessInv
  <1> QED BY <1>1, Invariance, PTL

(* An invocation that is refused, or reports an error of its data, touches *)
(* no file, and one that appends leaves the old lines.                     *)
THEOREM FilesKept == Spec => []KeepsFiles
  <1>1. IInv => KeepsFiles
    BY DEF IInv, ProcessInv
  <1> QED BY <1>1, Invariance, PTL

-----------------------------------------------------------------------------
(* Every step of main is a step of outputToFile, or leaves its file alone. *)
LEMMA TextMoves ==
    ASSUME IInv, [Next]_vars
    PROVE  [T!Next]_(T!vars)
  <1>1. UNCHANGED text => [T!Next]_(T!vars)
    BY DEF text, T!vars
  <1>2. CASE \E k \in 0 .. MaxLines : \E ls \in [1 .. k -> Lines] : WriteText(ls)
    <2>1. PICK k \in 0 .. MaxLines : \E ls \in [1 .. k -> Lines] : WriteText(ls)
      BY <1>2
    <2>2. PICK ls \in [1 .. k -> Lines] : WriteText(ls)
      BY <2>1
    <2>3. T!Start(ls, global.append) /\ global.append \in BOOLEAN
      BY <2>2, ReadyToWrite DEF WriteText
    <2> QED BY <2>3 DEF T!Next
  <1>3. CASE TextStep
    BY <1>3 DEF TextStep, T!Next
  <1>4. CASE Written
    BY <1>1, <1>4 DEF Written, T!Next
  <1>5. CASE Broken
    BY <1>1, <1>5 DEF Broken, T!Next
  <1>6. CASE \/ \E line \in CommandLines : Invoke(line)
             \/ Return \/ Refuse \/ NoSuchType \/ Stdout \/ DataError
             \/ \E rule \in Rules : WriteRuleset(rule)
             \/ WriteDat \/ RulesetStep \/ Idle \/ UNCHANGED vars
    <2>1. UNCHANGED text
      BY <1>6 DEF Invoke, Return, Refuse, NoSuchType, Stdout, DataError, Untouched, FileUntouched,
         WriteRuleset, WriteDat, RulesetStep, Idle, vars
    <2> QED BY <1>1, <2>1
  <1> QED BY <1>2, <1>3, <1>4, <1>5, <1>6 DEF Next

(* Invocation after invocation, the text file of main is a log of lines:   *)
(* no line changes, and only the last one of a run that stops can be cut.  *)
THEOREM TextFileIsLog == Spec => ImplementsLog
  <1>1. Init => Log!Init
    BY InitInv, FilesAssumption, LogInit DEF IInv
  <1>2. IInv /\ [Next]_vars => [Log!Next]_(Log!vars)
    <2>1. IInv => FileInv
      BY DEF IInv
    <2> QED BY <2>1, TextMoves, LogStep, LinesKnown, FilesAssumption
  <1> QED BY <1>1, <1>2, Invariance, PTL DEF Spec, ImplementsLog, Log!Spec
=============================================================================
