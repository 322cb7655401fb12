---------------------------- MODULE InductionFacts ----------------------------
(***************************************************************************)
(* Induction for the proofs about this project's recursive functions. The  *)
(* induction theorems of the library take a predicate as a parameter; here *)
(* it is a set instead: what holds of a number is that it is in the set.   *)
(* The first function is Sifted.                                           *)
(***************************************************************************)
EXTENDS Sifting, SequencesExt, WellFoundedInduction, FiniteSetTheorems, TLAPS

(* A set of numbers that is not empty has a least one. *)
LEMMA LeastNumber ==
    ASSUME NEW T \in SUBSET Nat, T # {}
    PROVE  \E x \in T : \A y \in T : x <= y
  <1> DEFINE R == OpToRel(<, Nat)
  <1>1. IsWellFoundedOn(R, Nat)
    BY NatLessThanWellFounded
  <1>2. \A x, y \in Nat : y < x => <<y, x>> \in R
    BY DEF OpToRel
  <1> HIDE DEF R
  <1>3. \E x \in T : \A y \in T : ~ (<<y, x>> \in R)
    BY <1>1, WFMin, Zenon
  <1>4. PICK x \in T : \A y \in T : ~ (<<y, x>> \in R)
    BY <1>3, Zenon
  <1>5. ASSUME NEW y \in T
        PROVE  x <= y
    <2>1. ~ (<<y, x>> \in R)
      BY <1>4, <1>5
    <2>2. x \in Nat /\ y \in Nat
      OBVIOUS
    <2>3. ~ (y < x)
      BY <1>2, <2>1, <2>2, Zenon
    <2> QED BY <2>2, <2>3
  <1> QED BY <1>5

(* Induction: a set that holds 0 and each successor of what it holds. *)
LEMMA Induction ==
    ASSUME NEW T, 0 \in T, \A n \in Nat : n \in T => n + 1 \in T
    PROVE  Nat \subseteq T
  <1> SUFFICES ASSUME Nat \ T # {}
               PROVE  FALSE
    OBVIOUS
  <1>1. PICK x \in Nat \ T : \A y \in Nat \ T : x <= y
    <2>1. Nat \ T \in SUBSET Nat
      OBVIOUS
    <2> QED BY <2>1, LeastNumber
  <1>2. x # 0
    BY <1>1
  <1>3. x - 1 \in Nat /\ x - 1 \in T
    BY <1>1, <1>2
  <1> QED BY <1>1, <1>3

(* The same up to a number. *)
LEMMA InductionUpTo ==
    ASSUME NEW N \in Nat, NEW T, 0 \in T, \A n \in 0 .. N - 1 : n \in T => n + 1 \in T
    PROVE  0 .. N \subseteq T
  <1> DEFINE U == {n \in Nat : n <= N => n \in T}
  <1>1. 0 \in U
    OBVIOUS
  <1>2. \A n \in Nat : n \in U => n + 1 \in U
    OBVIOUS
  <1> HIDE DEF U
  <1>3. Nat \subseteq U
    BY <1>1, <1>2, Induction
  <1> QED BY <1>3 DEF U

(* next says how to get the value for n from the one for n - 1. *)
IsStep(next, N, V) == \A n \in 1 .. N, v \in V : next[n][v] \in V

IsRecursive(f, N, V, first, next) ==
    /\ f \in [0 .. N -> V]
    /\ f[0] = first
    /\ \A n \in 1 .. N : f[n] = next[n][f[n - 1]]

(* A value for 0 and a step make a function. *)
LEMMA RecursiveFunction ==
    ASSUME NEW N \in Nat, NEW V, NEW first \in V, NEW next, IsStep(next, N, V)
    PROVE  \E f : IsRecursive(f, N, V, first, next)
  <1> DEFINE T == {n \in 0 .. N : \E f : IsRecursive(f, n, V, first, next)}
  <1>1. 0 \in T
    <2>1. IsRecursive([i \in 0 .. 0 |-> first], 0, V, first, next)
      BY DEF IsRecursive
    <2> QED BY <2>1
  <1>2. ASSUME NEW n \in 0 .. N - 1, n \in T
        PROVE  n + 1 \in T
    <2>1. PICK f : IsRecursive(f, n, V, first, next)
      BY <1>2
    <2> DEFINE g == [i \in 0 .. n + 1 |-> IF i = n + 1 THEN next[n + 1][f[n]] ELSE f[i]]
    <2>2. next[n + 1][f[n]] \in V
      BY <2>1 DEF IsRecursive, IsStep
    <2>3. g \in [0 .. n + 1 -> V]
      BY <2>1, <2>2 DEF IsRecursive
    <2>4. g[0] = first
      BY <2>1 DEF IsRecursive
    <2>5. ASSUME NEW i \in 1 .. n + 1
          PROVE  g[i] = next[i][g[i - 1]]
      <3>1. i - 1 \in 0 .. n + 1 /\ i - 1 # n + 1
        OBVIOUS
      <3>2. g[i - 1] = f[i - 1]
        BY <3>1
      <3>3. CASE i = n + 1
        BY <3>2, <3>3
      <3>4. CASE i \in 1 .. n
        BY <2>1, <3>2, <3>4 DEF IsRecursive
      <3> QED BY <3>3, <3>4
    <2> HIDE DEF g
    <2>6. IsRecursive(g, n + 1, V, first, next)
      BY <2>3, <2>4, <2>5 DEF IsRecursive
    <2> QED BY <2>6
  <1> HIDE DEF T
  <1>3. 0 .. N \subseteq T
    BY <1>1, <1>2, InductionUpTo
  <1>4. N \in T
    BY <1>3
  <1> QED BY <1>4 DEF T

(* What digits are worth, the first one most, is a number. *)
LEMMA DigitsWorth ==
    ASSUME NEW N \in Nat, NEW B \in Nat, NEW digit \in [1 .. N -> Nat]
    PROVE  (CHOOSE upTo : upTo = [k \in 0 .. N |->
              IF k = 0 THEN 0 ELSE upTo[k - 1] * B + digit[k]])[N] \in Nat
  <1> DEFINE next == [k \in 1 .. N |-> [v \in Nat |-> v * B + digit[k]]]
             Body(f) == [k \in 0 .. N |-> IF k = 0 THEN 0 ELSE f[k - 1] * B + digit[k]]
             g == CHOOSE h : h = Body(h)
  <1>1. \A k \in 1 .. N, v \in Nat : next[k][v] = v * B + digit[k]
    OBVIOUS
  <1>2. \A k \in 1 .. N, v \in Nat : v * B + digit[k] \in Nat
    <2>1. \A v \in Nat : v * B \in Nat
      OBVIOUS
    <2> QED BY <2>1
  <1> HIDE DEF next
  <1>3. PICK f : IsRecursive(f, N, Nat, 0, next)
    <2>1. IsStep(next, N, Nat)
      BY <1>1, <1>2 DEF IsStep
    <2> QED BY <2>1, RecursiveFunction
  <1>4. f = Body(f)
    <2>1. ASSUME NEW k \in 1 .. N
          PROVE  f[k] = f[k - 1] * B + digit[k]
      <3>1. k - 1 \in 0 .. N
        OBVIOUS
      <3>2. f[k - 1] \in Nat
        BY <1>3, <3>1 DEF IsRecursive
      <3> QED BY <1>1, <1>3, <3>2 DEF IsRecursive
    <2> QED BY <1>3, <2>1 DEF IsRecursive
  <1>5. g = Body(g)
    BY <1>4
  <1>6. g[N] \in Nat
    <2> HIDE DEF g
    <2> DEFINE T == {k \in 0 .. N : g[k] \in Nat}
    <2>1. g[0] = 0 /\ \A k \in 1 .. N : g[k] = g[k - 1] * B + digit[k]
      BY <1>5
    <2>2. 0 \in T
      BY <2>1
    <2>3. ASSUME NEW k \in 0 .. N - 1, k \in T
          PROVE  k + 1 \in T
      <3>1. k + 1 \in 1 .. N /\ k + 1 \in 0 .. N /\ (k + 1) - 1 = k /\ g[k] \in Nat
        BY <2>3
      <3>2. g[k + 1] = g[k] * B + digit[k + 1]
        BY <2>1, <3>1
      <3>3. g[k] * B + digit[k + 1] \in Nat
        BY <1>2, <3>1
      <3> QED BY <3>1, <3>2, <3>3
    <2> HIDE DEF T
    <2>4. 0 .. N \subseteq T
      BY <2>2, <2>3, InductionUpTo
    <2> QED BY <2>4 DEF T
  <1> QED BY <1>6

-----------------------------------------------------------------------------
(* What the solvers know of sequences, one fact at a time. *)
LEMMA SubSeqGrows ==
    ASSUME NEW S, NEW w \in Seq(S), NEW n \in 0 .. Len(w) - 1
    PROVE  SubSeq(w, 1, n + 1) = Append(SubSeq(w, 1, n), w[n + 1])
  OBVIOUS

LEMMA SubSeqEnds ==
    ASSUME NEW S, NEW w \in Seq(S)
    PROVE  SubSeq(w, 1, Len(w)) = w /\ SubSeq(w, 1, 0) = << >>
  OBVIOUS

LEMMA SubSeqConcat ==
    ASSUME NEW S, NEW t \in Seq(S), NEW w \in Seq(S), NEW n \in 0 .. Len(t \o w)
    PROVE  SubSeq(t \o w, 1, n) =
             IF n <= Len(t) THEN SubSeq(t, 1, n) ELSE t \o SubSeq(w, 1, n - Len(t))
  OBVIOUS

LEMMA ConcatType ==
    ASSUME NEW S, NEW t \in Seq(S), NEW u \in Seq(S)
    PROVE  t \o u \in Seq(S)
  OBVIOUS

LEMMA ConcatAppend ==
    ASSUME NEW S, NEW t \in Seq(S), NEW w \in Seq(S), NEW c \in S
    PROVE  t \o Append(w, c) = Append(t \o w, c)
  OBVIOUS

LEMMA ConcatAssoc ==
    ASSUME NEW S, NEW t \in Seq(S), NEW u \in Seq(S), NEW v \in Seq(S)
    PROVE  (t \o u) \o v = t \o (u \o v)
  OBVIOUS

LEMMA ConcatEmpty ==
    ASSUME NEW S, NEW t \in Seq(S)
    PROVE  t \o << >> = t /\ << >> \o t = t
  OBVIOUS

(* The last member of a sequence of sequences grows. *)
LEMMA AppendToLast ==
    ASSUME NEW S, NEW ls \in Seq(Seq(S)), NEW w \in Seq(S), NEW c \in S
    PROVE  [Append(ls, w) EXCEPT ![Len(Append(ls, w))] = Append(@, c)] =
             Append(ls, Append(w, c))
  <1> DEFINE all == Append(ls, w)
             n == Len(ls) + 1
             u == Append(w, c)
  <1>1. all \in Seq(Seq(S)) /\ Len(all) = n /\ all[n] = w /\ n \in Nat
    OBVIOUS
  <1>2. u \in Seq(S)
    OBVIOUS
  <1>3. Append(ls, u) \in Seq(Seq(S)) /\ Len(Append(ls, u)) = n /\ Append(ls, u)[n] = u
    BY <1>2
  <1>4. \A i \in 1 .. Len(ls) : Append(ls, u)[i] = all[i]
    BY <1>2
  <1> DEFINE old == all
             new == Append(ls, u)
  <1> HIDE DEF u, n, old, new
  <1>5. [old EXCEPT ![n] = u] = new
    <2>1. /\ old \in Seq(Seq(S)) /\ Len(old) = n /\ n = Len(ls) + 1
          /\ new \in Seq(Seq(S)) /\ Len(new) = n /\ new[n] = u
          /\ \A i \in 1 .. n - 1 : new[i] = old[i]
      BY <1>1, <1>3, <1>4 DEF n, old, new
    <2> QED BY <2>1
  <1> QED BY <1>1, <1>5 DEF u, old, new

-----------------------------------------------------------------------------
(* The recursion of Sifted, and what one more member does. *)
SiftedUpTo(s, S) ==
    CHOOSE upTo : upTo = [n \in 0 .. Len(s) |->
          IF n = 0 THEN << >>
          ELSE IF s[n] \in S THEN Append(upTo[n - 1], s[n]) ELSE upTo[n - 1]]

SiftOne(s, S, n, chosen) == IF s[n] \in S THEN Append(chosen, s[n]) ELSE chosen

LEMMA SiftedFunction ==
    ASSUME NEW V, NEW s \in Seq(V), NEW S
    PROVE  /\ Sifted(s, S) = SiftedUpTo(s, S)[Len(s)]
           /\ SiftedUpTo(s, S) \in [0 .. Len(s) -> Seq(V)]
           /\ SiftedUpTo(s, S)[0] = << >>
           /\ \A n \in 1 .. Len(s) :
                SiftedUpTo(s, S)[n] = SiftOne(s, S, n, SiftedUpTo(s, S)[n - 1])
  <1> DEFINE N == Len(s)
             none == << >>
             W == Seq(V)
             next == [n \in 1 .. N |-> [w \in W |-> SiftOne(s, S, n, w)]]
             Body(f) == [n \in 0 .. N |-> IF n = 0 THEN none ELSE SiftOne(s, S, n, f[n - 1])]
             g == SiftedUpTo(s, S)
  <1>1. N \in Nat /\ none \in W
    OBVIOUS
  <1>2. \A n \in 1 .. N, w \in W : next[n][w] = SiftOne(s, S, n, w)
    OBVIOUS
  <1>3. \A n \in 1 .. N, w \in W : SiftOne(s, S, n, w) \in W
    BY DEF SiftOne
  <1>4. g = CHOOSE h : h = Body(h)
    BY DEF SiftedUpTo, SiftOne
  <1>5. Sifted(s, S) = g[N]
    BY DEF Sifted, SiftedUpTo
  <1> HIDE DEF next, N, none, W, g
  <1>6. PICK f : IsRecursive(f, N, W, none, next)
    <2>1. IsStep(next, N, W)
      BY <1>2, <1>3 DEF IsStep
    <2> QED BY <1>1, <2>1, RecursiveFunction
  <1>7. f = Body(f)
    <2>1. ASSUME NEW n \in 1 .. N
          PROVE  f[n] = SiftOne(s, S, n, f[n - 1])
      <3>1. n - 1 \in 0 .. N
        BY <1>1
      <3>2. f[n - 1] \in W
        BY <1>6, <3>1 DEF IsRecursive
      <3> QED BY <1>2, <1>6, <3>2 DEF IsRecursive
    <2> QED BY <1>1, <1>6, <2>1 DEF IsRecursive
  <1>8. g = Body(g)
    BY <1>4, <1>7
  <1>9. g[0] = none /\ \A n \in 1 .. N : g[n] = SiftOne(s, S, n, g[n - 1])
    BY <1>1, <1>8
  <1>10. g \in [0 .. N -> W]
    <2> DEFINE T == {n \in 0 .. N : g[n] \in W}
    <2>1. 0 \in T
      BY <1>1, <1>9
    <2>2. \A n \in 0 .. N - 1 : n \in T => n + 1 \in T
      BY <1>1, <1>3, <1>9
    <2> HIDE DEF T
    <2>3. 0 .. N \subseteq T
      BY <1>1, <2>1, <2>2, InductionUpTo
    <2>4. \A n \in 0 .. N : g[n] \in W
      BY <2>3 DEF T
    <2>5. g = [n \in 0 .. N |-> g[n]]
      BY <1>8
    <2> QED BY <2>4, <2>5
  <1> QED BY <1>5, <1>9, <1>10 DEF N, none, W, g

LEMMA ToSetAppend ==
    ASSUME NEW V, NEW s \in Seq(V), NEW v \in V
    PROVE  ToSet(Append(s, v)) = ToSet(s) \cup {v}
  <1>1. PICK t \in Seq(V) : t = Append(s, v)
    <2>1. Append(s, v) \in Seq(V)
      OBVIOUS
    <2> QED BY <2>1
  <1>2. /\ Len(t) = Len(s) + 1 /\ t[Len(s) + 1] = v /\ Len(s) \in Nat
        /\ \A i \in 1 .. Len(s) : t[i] = s[i]
    BY <1>1
  <1>3. DOMAIN t = 1 .. Len(s) + 1 /\ DOMAIN s = 1 .. Len(s)
    BY <1>2
  <1>4. \A i \in 1 .. Len(s) + 1 : i = Len(s) + 1 \/ i \in 1 .. Len(s)
    BY <1>2
  <1>5. Len(s) + 1 \in DOMAIN t /\ \A i \in 1 .. Len(s) : i \in DOMAIN t
    BY <1>2, <1>3
  <1>6. ToSet(t) = ToSet(s) \cup {v}
    BY <1>2, <1>3, <1>4, <1>5 DEF ToSet
  <1> QED BY <1>1, <1>6

(* Sifting keeps what is in the set, and nothing else. *)
LEMMA SiftedFacts ==
    ASSUME NEW V, NEW s \in Seq(V), NEW S
    PROVE  Sifted(s, S) \in Seq(V) /\ ToSet(Sifted(s, S)) = ToSet(s) \cap S
  <1> DEFINE N == Len(s)
             g == SiftedUpTo(s, S)
             Kept(n) == {s[i] : i \in 1 .. n} \cap S
             T == {n \in 0 .. N : ToSet(g[n]) = Kept(n)}
  <1>1. N \in Nat
    OBVIOUS
  <1>2. /\ Sifted(s, S) = g[N] /\ g \in [0 .. N -> Seq(V)] /\ g[0] = << >>
        /\ \A n \in 1 .. N : g[n] = SiftOne(s, S, n, g[n - 1])
    BY SiftedFunction
  <1> HIDE DEF g
  <1>3. 0 \in T
    BY <1>1, <1>2 DEF ToSet
  <1>4. ASSUME NEW n \in 0 .. N - 1, n \in T
        PROVE  n + 1 \in T
    <2>1. n + 1 \in 1 .. N /\ n \in 0 .. N /\ n + 1 - 1 = n
      BY <1>1
    <2>2. g[n + 1] = SiftOne(s, S, n + 1, g[n]) /\ g[n] \in Seq(V) /\ s[n + 1] \in V
      BY <1>2, <2>1
    <2>3. {s[i] : i \in 1 .. n + 1} = {s[i] : i \in 1 .. n} \cup {s[n + 1]}
      BY <2>1
    <2>4. ToSet(g[n]) = Kept(n)
      BY <1>4
    <2>5. CASE s[n + 1] \in S
      <3>1. g[n + 1] = Append(g[n], s[n + 1])
        BY <2>2, <2>5 DEF SiftOne
      <3>2. ToSet(g[n + 1]) = ToSet(g[n]) \cup {s[n + 1]}
        <4>1. PICK w \in Seq(V), v \in V : w = g[n] /\ v = s[n + 1]
          BY <2>2
        <4>2. ToSet(Append(w, v)) = ToSet(w) \cup {v}
          BY ToSetAppend
        <4> QED BY <3>1, <4>1, <4>2
      <3>3. ToSet(g[n + 1]) = Kept(n + 1)
        BY <2>3, <2>4, <2>5, <3>2
      <3> QED BY <2>1, <3>3
    <2>6. CASE s[n + 1] \notin S
      <3>1. ToSet(g[n + 1]) = Kept(n + 1)
        BY <2>2, <2>3, <2>4, <2>6 DEF SiftOne
      <3> QED BY <2>1, <3>1
    <2> QED BY <2>5, <2>6
  <1> HIDE DEF T
  <1>5. 0 .. N \subseteq T
    BY <1>1, <1>3, <1>4, InductionUpTo
  <1>6. N \in T
    BY <1>1, <1>5
  <1>7. ToSet(g[N]) = Kept(N)
    BY <1>6 DEF T
  <1>8. ToSet(s) = {s[i] : i \in 1 .. N}
    BY DEF ToSet
  <1>9. g[N] \in Seq(V)
    BY <1>1, <1>2
  <1> QED BY <1>2, <1>7, <1>8, <1>9

(* The members of a list that grows. *)
LEMMA ToSetFacts ==
    ASSUME NEW V, NEW s \in Seq(V), NEW t \in Seq(V)
    PROVE  /\ ToSet(s) \subseteq V
           /\ s \o t \in Seq(V) /\ Len(s \o t) = Len(s) + Len(t)
           /\ ToSet(s \o t) = ToSet(s) \cup ToSet(t)
           /\ s = << >> <=> ToSet(s) = {}
  <1>1. s \o t \in Seq(V) /\ Len(s \o t) = Len(s) + Len(t)
    OBVIOUS
  <1>2. /\ \A i \in 1 .. Len(s) : (s \o t)[i] = s[i]
        /\ \A i \in 1 .. Len(t) : (s \o t)[Len(s) + i] = t[i]
    OBVIOUS
  <1>3. Len(s) \in Nat /\ Len(t) \in Nat
    OBVIOUS
  <1>4. ToSet(s \o t) \subseteq ToSet(s) \cup ToSet(t)
    <2> SUFFICES ASSUME NEW i \in 1 .. Len(s) + Len(t)
                 PROVE  (s \o t)[i] \in ToSet(s) \cup ToSet(t)
      BY <1>1 DEF ToSet
    <2>1. CASE i \in 1 .. Len(s)
      BY <1>2, <2>1 DEF ToSet
    <2>2. CASE i \notin 1 .. Len(s)
      <3>1. i - Len(s) \in 1 .. Len(t) /\ Len(s) + (i - Len(s)) = i
        BY <1>3, <2>2
      <3>2. (s \o t)[i] = t[i - Len(s)]
        BY <1>2, <3>1
      <3> QED BY <3>1, <3>2 DEF ToSet
    <2> QED BY <2>1, <2>2
  <1>5. ToSet(s) \cup ToSet(t) \subseteq ToSet(s \o t)
    <2>1. \A i \in 1 .. Len(s) : i \in 1 .. Len(s) + Len(t)
      BY <1>3
    <2>2. \A i \in 1 .. Len(t) : Len(s) + i \in 1 .. Len(s) + Len(t)
      BY <1>3
    <2>3. DOMAIN s = 1 .. Len(s) /\ DOMAIN t = 1 .. Len(t) /\ DOMAIN (s \o t) = 1 .. Len(s) + Len(t)
      BY <1>1
    <2> QED BY <1>2, <2>1, <2>2, <2>3 DEF ToSet
  <1>6. ToSet(s) \subseteq V
    BY DEF ToSet
  <1>7. s = << >> <=> ToSet(s) = {}
    <2>1. s = << >> <=> Len(s) = 0
      OBVIOUS
    <2>2. Len(s) # 0 => s[1] \in ToSet(s)
      BY <1>3 DEF ToSet
    <2>3. Len(s) = 0 => ToSet(s) = {}
      BY <1>3 DEF ToSet
    <2> QED BY <2>1, <2>2, <2>3
  <1> QED BY <1>1, <1>4, <1>5, <1>6, <1>7

(* A set of numbers up to N that is not empty has a greatest one. *)
LEMMA GreatestNumber ==
    ASSUME NEW N \in Nat, NEW T \in SUBSET (0 .. N), T # {}
    PROVE  \E x \in T : \A y \in T : y <= x
  <1> DEFINE U == {N - x : x \in T}
  <1>1. U \in SUBSET Nat /\ U # {}
    <2>1. \A x \in T : x \in 0 .. N /\ N - x \in Nat
      OBVIOUS
    <2> QED BY <2>1
  <1> HIDE DEF U
  <1>2. PICK u \in U : \A v \in U : u <= v
    BY <1>1, LeastNumber
  <1>3. PICK x \in T : u = N - x
    BY <1>2 DEF U
  <1>4. \A y \in T : N - x <= N - y
    BY <1>2, <1>3 DEF U
  <1> QED BY <1>3, <1>4

-----------------------------------------------------------------------------
(* What is sifted of a sequence depends on its members alone. *)
LEMMA SameSiftedUpTo ==
    ASSUME NEW V, NEW s \in Seq(V), NEW S, NEW t \in Seq(V), NEW T, NEW m \in Nat,
           m <= Len(s), m <= Len(t),
           \A i \in 1 .. m : s[i] = t[i] /\ (s[i] \in S <=> t[i] \in T)
    PROVE  SiftedUpTo(s, S)[m] = SiftedUpTo(t, T)[m]
  <1> DEFINE g == SiftedUpTo(s, S)
             h == SiftedUpTo(t, T)
             Same == {n \in 0 .. m : g[n] = h[n]}
  <1>1. g[0] = << >> /\ \A n \in 1 .. Len(s) : g[n] = SiftOne(s, S, n, g[n - 1])
    BY SiftedFunction
  <1>2. h[0] = << >> /\ \A n \in 1 .. Len(t) : h[n] = SiftOne(t, T, n, h[n - 1])
    BY SiftedFunction
  <1> HIDE DEF g, h
  <1>3. 0 \in Same
    BY <1>1, <1>2
  <1>4. ASSUME NEW n \in 0 .. m - 1, n \in Same
        PROVE  n + 1 \in Same
    <2>1. n + 1 \in 1 .. m /\ n + 1 \in 1 .. Len(s) /\ n + 1 \in 1 .. Len(t) /\ n + 1 - 1 = n
      OBVIOUS
    <2>2. g[n] = h[n]
      BY <1>4
    <2>3. g[n + 1] = SiftOne(s, S, n + 1, g[n]) /\ h[n + 1] = SiftOne(t, T, n + 1, h[n])
      BY <1>1, <1>2, <2>1
    <2>4. SiftOne(s, S, n + 1, g[n]) = SiftOne(t, T, n + 1, h[n])
      BY <2>1, <2>2 DEF SiftOne
    <2>5. n + 1 \in 0 .. m
      BY <2>1
    <2> QED BY <2>3, <2>4, <2>5
  <1> HIDE DEF Same
  <1>5. 0 .. m \subseteq Same
    BY <1>3, <1>4, InductionUpTo
  <1>6. m \in Same
    BY <1>5
  <1> QED BY <1>6 DEF Same, g, h

LEMMA SameSifted ==
    ASSUME NEW V, NEW s \in Seq(V), NEW S, NEW T, S \cap ToSet(s) = T \cap ToSet(s)
    PROVE  Sifted(s, S) = Sifted(s, T)
  <1>1. Len(s) \in Nat /\ \A i \in 1 .. Len(s) : s[i] \in S <=> s[i] \in T
    BY DEF ToSet
  <1>2. SiftedUpTo(s, S)[Len(s)] = SiftedUpTo(s, T)[Len(s)]
    BY <1>1, SameSiftedUpTo
  <1>3. Sifted(s, S) = SiftedUpTo(s, S)[Len(s)] /\ Sifted(s, T) = SiftedUpTo(s, T)[Len(s)]
    BY SiftedFunction
  <1> QED BY <1>2, <1>3

LEMMA SiftedAppend ==
    ASSUME NEW V, NEW s \in Seq(V), NEW v \in V, NEW S
    PROVE  Sifted(Append(s, v), S) = IF v \in S THEN Append(Sifted(s, S), v) ELSE Sifted(s, S)
  <1>1. PICK t \in Seq(V) : t = Append(s, v)
    <2>1. Append(s, v) \in Seq(V)
      OBVIOUS
    <2> QED BY <2>1
  <1>2. PICK n \in Nat : n = Len(s)
    OBVIOUS
  <1>3. Len(t) = n + 1 /\ t[n + 1] = v /\ \A i \in 1 .. n : s[i] = t[i]
    BY <1>1, <1>2
  <1>4. SiftedUpTo(s, S)[n] = SiftedUpTo(t, S)[n]
    BY <1>2, <1>3, SameSiftedUpTo
  <1>5. Sifted(s, S) = SiftedUpTo(s, S)[n]
    BY <1>2, SiftedFunction
  <1>6. /\ Sifted(t, S) = SiftedUpTo(t, S)[n + 1]
        /\ \A k \in 1 .. n + 1 : SiftedUpTo(t, S)[k] = SiftOne(t, S, k, SiftedUpTo(t, S)[k - 1])
    BY <1>3, SiftedFunction
  <1>7. n + 1 \in 1 .. n + 1 /\ n + 1 - 1 = n
    OBVIOUS
  <1>8. Sifted(t, S) = SiftOne(t, S, n + 1, SiftedUpTo(t, S)[n])
    BY <1>6, <1>7
  <1> QED BY <1>1, <1>3, <1>4, <1>5, <1>8 DEF SiftOne

LEMMA SiftedAll ==
    ASSUME NEW V, NEW s \in Seq(V), NEW S, ToSet(s) \subseteq S
    PROVE  Sifted(s, S) = s
  <1> DEFINE g == SiftedUpTo(s, S)
             Same == {n \in 0 .. Len(s) : g[n] = SubSeq(s, 1, n)}
  <1>1. /\ Sifted(s, S) = g[Len(s)] /\ g[0] = << >>
        /\ \A n \in 1 .. Len(s) : g[n] = SiftOne(s, S, n, g[n - 1])
    BY SiftedFunction
  <1> HIDE DEF g
  <1>2. Len(s) \in Nat /\ \A i \in 1 .. Len(s) : s[i] \in S
    BY DEF ToSet
  <1>3. SubSeq(s, 1, 0) = << >> /\ SubSeq(s, 1, Len(s)) = s
    BY SubSeqEnds
  <1>4. 0 \in Same
    <2>1. g[0] = SubSeq(s, 1, 0) /\ 0 \in 0 .. Len(s)
      BY <1>1, <1>2, <1>3
    <2> QED BY <2>1
  <1>5. ASSUME NEW n \in 0 .. Len(s) - 1, n \in Same
        PROVE  n + 1 \in Same
    <2>1. n + 1 \in 1 .. Len(s) /\ n + 1 \in 0 .. Len(s) /\ n + 1 - 1 = n
      BY <1>2
    <2>2. g[n] = SubSeq(s, 1, n)
      BY <1>5
    <2>3. g[n + 1] = Append(g[n], s[n + 1])
      <3>1. g[n + 1] = SiftOne(s, S, n + 1, g[n])
        BY <1>1, <2>1
      <3> QED BY <1>2, <2>1, <3>1 DEF SiftOne
    <2>4. SubSeq(s, 1, n + 1) = Append(SubSeq(s, 1, n), s[n + 1])
      BY SubSeqGrows
    <2> QED BY <2>1, <2>2, <2>3, <2>4
  <1> HIDE DEF Same
  <1>6. 0 .. Len(s) \subseteq Same
    BY <1>2, <1>4, <1>5, InductionUpTo
  <1>7. Len(s) \in Same
    BY <1>2, <1>6
  <1>8. g[Len(s)] = SubSeq(s, 1, Len(s))
    BY <1>7 DEF Same
  <1> QED BY <1>1, <1>3, <1>8

(* The recursion of Flat. *)
FlatUpTo(seqs) ==
    CHOOSE upTo : upTo = [n \in 0 .. Len(seqs) |->
          IF n = 0 THEN << >> ELSE upTo[n - 1] \o seqs[n]]

FlatOne(seqs, n, w) == w \o seqs[n]

LEMMA FlatFunction ==
    ASSUME NEW V, NEW seqs \in Seq(Seq(V))
    PROVE  /\ Flat(seqs) = FlatUpTo(seqs)[Len(seqs)]
           /\ FlatUpTo(seqs) \in [0 .. Len(seqs) -> Seq(V)]
           /\ FlatUpTo(seqs)[0] = << >>
           /\ \A n \in 1 .. Len(seqs) : FlatUpTo(seqs)[n] = FlatOne(seqs, n, FlatUpTo(seqs)[n - 1])
  <1> DEFINE N == Len(seqs)
             none == << >>
             W == Seq(V)
             next == [n \in 1 .. N |-> [w \in W |-> FlatOne(seqs, n, w)]]
             Body(f) == [n \in 0 .. N |-> IF n = 0 THEN none ELSE FlatOne(seqs, n, f[n - 1])]
             g == FlatUpTo(seqs)
  <1>1. N \in Nat /\ none \in W
    OBVIOUS
  <1>2. \A n \in 1 .. N, w \in W : next[n][w] = FlatOne(seqs, n, w)
    OBVIOUS
  <1>3. \A n \in 1 .. N, w \in W : FlatOne(seqs, n, w) \in W
    <2>1. \A n \in 1 .. N : seqs[n] \in Seq(V)
      OBVIOUS
    <2> QED BY <2>1, ConcatType DEF FlatOne
  <1>4. g = CHOOSE h : h = Body(h)
    BY DEF FlatUpTo, FlatOne
  <1>5. Flat(seqs) = g[N]
    BY DEF Flat, FlatUpTo
  <1> HIDE DEF next, N, none, W, g
  <1>6. PICK f : IsRecursive(f, N, W, none, next)
    <2>1. IsStep(next, N, W)
      BY <1>2, <1>3 DEF IsStep
    <2> QED BY <1>1, <2>1, RecursiveFunction
  <1>7. f = Body(f)
    <2>1. ASSUME NEW n \in 1 .. N
          PROVE  f[n] = FlatOne(seqs, n, f[n - 1])
      <3>1. n - 1 \in 0 .. N
        BY <1>1
      <3>2. f[n - 1] \in W
        BY <1>6, <3>1 DEF IsRecursive
      <3> QED BY <1>2, <1>6, <3>2 DEF IsRecursive
    <2> QED BY <1>1, <1>6, <2>1 DEF IsRecursive
  <1>8. g = Body(g)
    BY <1>4, <1>7
  <1>9. g[0] = none /\ \A n \in 1 .. N : g[n] = FlatOne(seqs, n, g[n - 1])
    BY <1>1, <1>8
  <1>10. g \in [0 .. N -> W]
    <2> DEFINE T == {n \in 0 .. N : g[n] \in W}
    <2>1. 0 \in T
      BY <1>1, <1>9
    <2>2. \A n \in 0 .. N - 1 : n \in T => n + 1 \in T
      BY <1>1, <1>3, <1>9
    <2> HIDE DEF T
    <2>3. 0 .. N \subseteq T
      BY <1>1, <2>1, <2>2, InductionUpTo
    <2>4. \A n \in 0 .. N : g[n] \in W
      BY <2>3 DEF T
    <2>5. g = [n \in 0 .. N |-> g[n]]
      BY <1>8
    <2> QED BY <2>4, <2>5
  <1> QED BY <1>5, <1>9, <1>10 DEF N, none, W, g

LEMMA FlatFacts ==
    ASSUME NEW V, NEW seqs \in Seq(Seq(V))
    PROVE  /\ Flat(seqs) \in Seq(V)
           /\ ToSet(Flat(seqs)) = UNION {ToSet(seqs[n]) : n \in DOMAIN seqs}
  <1> DEFINE N == Len(seqs)
             g == FlatUpTo(seqs)
             Members(m) == UNION {ToSet(seqs[n]) : n \in 1 .. m}
  <1>1. N \in Nat /\ \A n \in 1 .. N : seqs[n] \in Seq(V)
    OBVIOUS
  <1>2. /\ Flat(seqs) = g[N] /\ g \in [0 .. N -> Seq(V)] /\ g[0] = << >>
        /\ \A n \in 1 .. N : g[n] = FlatOne(seqs, n, g[n - 1])
    BY FlatFunction
  <1>3. Members(N) = UNION {ToSet(seqs[n]) : n \in DOMAIN seqs}
    <2>1. DOMAIN seqs = 1 .. N
      OBVIOUS
    <2> QED BY <2>1
  <1>4. \A n \in 0 .. N - 1 : Members(n + 1) = Members(n) \cup ToSet(seqs[n + 1])
    <2> SUFFICES ASSUME NEW n \in 0 .. N - 1
                 PROVE  Members(n + 1) = Members(n) \cup ToSet(seqs[n + 1])
      OBVIOUS
    <2>1. \A k : k \in 1 .. n + 1 <=> k \in 1 .. n \/ k = n + 1
      BY <1>1
    <2> QED BY <2>1
  <1>5. Members(0) = {}
    OBVIOUS
  <1> HIDE DEF g, Members
  <1> DEFINE T == {n \in 0 .. N : ToSet(g[n]) = Members(n)}
  <1>6. 0 \in T
    <2>1. ToSet(g[0]) = Members(0)
      BY <1>2, <1>5 DEF ToSet
    <2>2. 0 \in 0 .. N
      BY <1>1
    <2> QED BY <2>1, <2>2
  <1>7. ASSUME NEW n \in 0 .. N - 1, n \in T
        PROVE  n + 1 \in T
    <2>1. n + 1 \in 1 .. N /\ n \in 0 .. N /\ n + 1 - 1 = n
      BY <1>1
    <2>2. g[n + 1] = g[n] \o seqs[n + 1] /\ g[n] \in Seq(V) /\ seqs[n + 1] \in Seq(V)
      <3>1. g[n + 1] = FlatOne(seqs, n + 1, g[n])
        BY <1>2, <2>1
      <3>2. g[n] \in Seq(V)
        BY <1>2, <2>1
      <3>3. seqs[n + 1] \in Seq(V)
        BY <1>1, <2>1
      <3> QED BY <3>1, <3>2, <3>3 DEF FlatOne
    <2>3. ToSet(g[n + 1]) = ToSet(g[n]) \cup ToSet(seqs[n + 1])
      BY <2>2, ToSetFacts
    <2>4. ToSet(g[n]) = Members(n)
      BY <1>7
    <2>5. Members(n + 1) = Members(n) \cup ToSet(seqs[n + 1])
      BY <1>4
    <2>6. ToSet(g[n + 1]) = Members(n + 1)
      BY <2>3, <2>4, <2>5
    <2>7. n + 1 \in 0 .. N
      BY <2>1
    <2> QED BY <2>6, <2>7
  <1> HIDE DEF T
  <1>8. 0 .. N \subseteq T
    BY <1>1, <1>6, <1>7, InductionUpTo
  <1>9. N \in T
    BY <1>1, <1>8
  <1>10. ToSet(g[N]) = Members(N)
    BY <1>9 DEF T
  <1>11. g[N] \in Seq(V)
    BY <1>1, <1>2
  <1> QED BY <1>2, <1>10, <1>11, <1>3

(* Where the members of a sequence are. *)
LEMMA MemberFacts ==
    ASSUME NEW V, NEW s \in Seq(V)
    PROVE  /\ Len(s) \in Nat /\ DOMAIN s = 1 .. Len(s)
           /\ \A i \in 1 .. Len(s) : s[i] \in V /\ s[i] \in ToSet(s)
           /\ \A x : x \in ToSet(s) <=> \E i \in 1 .. Len(s) : x = s[i]
           /\ ToSet(s) \subseteq V
  <1>1. Len(s) \in Nat /\ DOMAIN s = 1 .. Len(s)
    OBVIOUS
  <1>2. \A i \in 1 .. Len(s) : s[i] \in V
    OBVIOUS
  <1> QED BY <1>1, <1>2 DEF ToSet

(* Short sequences, and sequences of more. *)
LEMMA NoneAndOne ==
    ASSUME NEW V, NEW x \in V
    PROVE  /\ << >> \in Seq(V) /\ ToSet(<< >>) = {} /\ Len(<< >>) = 0
           /\ <<x>> \in Seq(V) /\ ToSet(<<x>>) = {x} /\ Len(<<x>>) = 1
  BY DEF ToSet

LEMMA ToSetFinite ==
    ASSUME NEW V, NEW s \in Seq(V)
    PROVE  IsFiniteSet(ToSet(s))
  <1>1. Len(s) \in Nat /\ DOMAIN s = 1 .. Len(s)
    OBVIOUS
  <1>2. IsFiniteSet(1 .. Len(s))
    BY <1>1, FS_Interval
  <1>3. s \in Surjection(1 .. Len(s), ToSet(s))
    BY <1>1 DEF Surjection, ToSet
  <1> QED BY <1>2, <1>3, FS_Surjection

LEMMA SeqOfMore ==
    ASSUME NEW V, NEW W, V \subseteq W, NEW s \in Seq(V)
    PROVE  s \in Seq(W)
  <1>1. \A i \in 1 .. Len(s) : s[i] \in W
    OBVIOUS
  <1> QED BY <1>1

LEMMA FunctionIsSeq ==
    ASSUME NEW V, NEW n \in Nat, NEW s \in [1 .. n -> V]
    PROVE  s \in Seq(V)
  OBVIOUS

(* SetToSeqs lists the members of a set, each one once. *)
LEMMA ListingFacts ==
    ASSUME NEW S, IsFiniteSet(S), NEW f \in SetToSeqs(S)
    PROVE  f \in Seq(S) /\ ToSet(f) = S /\ Len(f) = Cardinality(S)
  <1> DEFINE n == Cardinality(S)
  <1>1. n \in Nat
    BY FS_CardinalityType
  <1>2. f \in [1 .. n -> S] /\ \A i, j \in 1 .. n : i # j => f[i] # f[j]
    BY DEF SetToSeqs
  <1>3. IsFiniteSet(1 .. n) /\ Cardinality(1 .. n) = n
    BY <1>1, FS_Interval
  <1>4. f \in Injection(1 .. n, S)
    BY <1>2 DEF Injection, IsInjective
  <1>5. f \in Surjection(1 .. n, S)
    BY <1>3, <1>4, FS_Injection
  <1> HIDE DEF n
  <1>6. f \in Seq(S) /\ Len(f) = n /\ DOMAIN f = 1 .. n
    BY <1>1, <1>2
  <1>7. ToSet(f) = S
    BY <1>2, <1>5, <1>6 DEF Surjection, ToSet
  <1> QED BY <1>6, <1>7 DEF n

(* Two lists with each member once, and no member of both. *)
LEMMA ConcatOnce ==
    ASSUME NEW V, NEW s \in Seq(V), NEW t \in Seq(V), ToSet(s) \cap ToSet(t) = {},
           Cardinality(ToSet(s)) = Len(s), Cardinality(ToSet(t)) = Len(t)
    PROVE  Cardinality(ToSet(s \o t)) = Len(s \o t)
  <1>1. IsFiniteSet(ToSet(s)) /\ IsFiniteSet(ToSet(t))
    BY ToSetFinite
  <1>2. Cardinality(ToSet(s) \cup ToSet(t)) = Cardinality(ToSet(s)) + Cardinality(ToSet(t))
    <2>1. Cardinality(ToSet(s) \cap ToSet(t)) = 0
      BY FS_EmptySet
    <2>2. Cardinality(ToSet(s)) \in Nat /\ Cardinality(ToSet(t)) \in Nat
      BY <1>1, FS_CardinalityType
    <2>3. Cardinality(ToSet(s) \cup ToSet(t)) =
            Cardinality(ToSet(s)) + Cardinality(ToSet(t)) - Cardinality(ToSet(s) \cap ToSet(t))
      BY <1>1, FS_Union
    <2> QED BY <2>1, <2>2, <2>3
  <1>3. ToSet(s \o t) = ToSet(s) \cup ToSet(t) /\ Len(s \o t) = Len(s) + Len(t)
    BY ToSetFacts
  <1> QED BY <1>2, <1>3

-----------------------------------------------------------------------------
(* The members that are sifted of a sequence, each one mapped. *)
MapOf(F, w) == [j \in 1 .. Len(w) |-> F[w[j]]]

LEMMA MappedFacts ==
    ASSUME NEW V, NEW W, NEW F \in [W -> V], NEW w \in Seq(W)
    PROVE  /\ MapOf(F, w) \in Seq(V) /\ Len(MapOf(F, w)) = Len(w)
           /\ \A j \in 1 .. Len(w) : MapOf(F, w)[j] = F[w[j]]
           /\ \A c \in W : MapOf(F, Append(w, c)) = Append(MapOf(F, w), F[c])
  <1> DEFINE n == Len(w)
             v == MapOf(F, w)
  <1>1. n \in Nat /\ \A j \in 1 .. n : w[j] \in W
    BY MemberFacts
  <1>2. v \in [1 .. n -> V]
    BY <1>1 DEF MapOf
  <1>3. \A j \in 1 .. n : v[j] = F[w[j]]
    BY DEF MapOf
  <1>4. v \in Seq(V) /\ Len(v) = n
    <2> HIDE DEF v, n
    <2> QED BY <1>1, <1>2
  <1>5. ASSUME NEW c \in W
        PROVE  MapOf(F, Append(w, c)) = Append(v, F[c])
    <2> DEFINE t == Append(w, c)
               u == Append(v, F[c])
    <2>1. Len(t) = n + 1 /\ t[n + 1] = c /\ \A j \in 1 .. n : t[j] = w[j]
      BY <1>1
    <2>2. F[c] \in V
      OBVIOUS
    <2> HIDE DEF v, n
    <2>3. /\ u \in Seq(V) /\ DOMAIN u = 1 .. n + 1 /\ u[n + 1] = F[c]
          /\ \A j \in 1 .. n : u[j] = v[j]
      BY <1>1, <1>4, <2>2
    <2> HIDE DEF t, u
    <2>4. \A j \in 1 .. n + 1 : u[j] = F[t[j]]
      BY <1>1, <1>3, <2>1, <2>3
    <2>5. u = [j \in DOMAIN u |-> u[j]]
      BY <2>3
    <2>6. u = [j \in 1 .. n + 1 |-> F[t[j]]]
      BY <2>3, <2>4, <2>5
    <2>7. MapOf(F, t) = [j \in 1 .. n + 1 |-> F[t[j]]]
      BY <2>1 DEF MapOf
    <2> QED BY <2>6, <2>7 DEF t, u
  <1> QED BY <1>3, <1>4, <1>5 DEF v, n

(* One short sequence for each member, after a first one of any length. *)
Continued(first, F, w) == first \o MapOf(F, w)

IsMappedRest(seqs, s, W, F) ==
    /\ Len(s) >= 1 /\ s[1] \notin W
    /\ Len(seqs) = Len(s)
    /\ \A k \in 2 .. Len(s) : seqs[k] = IF s[k] \in W THEN <<F[s[k]]>> ELSE << >>

LEMMA FlatOfSifted ==
    ASSUME NEW C, NEW s \in Seq(C), NEW W, NEW V, NEW F \in [W -> V],
           NEW first \in Seq(V), NEW seqs \in Seq(Seq(V)),
           IsMappedRest(seqs, s, W, F), seqs[1] = first
    PROVE  /\ Sifted(s, W) \in Seq(W)
           /\ Flat(seqs) = Continued(first, F, Sifted(s, W))
  <1> DEFINE N == Len(s)
             g == FlatUpTo(seqs)
             h == SiftedUpTo(s, W)
             T == {k \in 0 .. N - 1 : /\ h[k + 1] \in Seq(W)
                                       /\ g[k + 1] = first \o MapOf(F, h[k + 1])}
  <1>1. N \in Nat /\ N >= 1 /\ N - 1 \in Nat /\ (N - 1) + 1 = N
    BY DEF IsMappedRest
  <1>2. /\ Flat(seqs) = g[N] /\ g[0] = << >>
        /\ \A k \in 1 .. N : g[k] = g[k - 1] \o seqs[k]
    <2>1. Flat(seqs) = FlatUpTo(seqs)[Len(seqs)] /\ FlatUpTo(seqs)[0] = << >>
          /\ \A n \in 1 .. Len(seqs) :
               FlatUpTo(seqs)[n] = FlatOne(seqs, n, FlatUpTo(seqs)[n - 1])
      BY FlatFunction
    <2> QED BY <2>1 DEF FlatOne, IsMappedRest
  <1>3. /\ Sifted(s, W) = h[N] /\ h[0] = << >>
        /\ \A k \in 1 .. N : h[k] = IF s[k] \in W THEN Append(h[k - 1], s[k]) ELSE h[k - 1]
    <2>1. /\ Sifted(s, W) = SiftedUpTo(s, W)[Len(s)] /\ SiftedUpTo(s, W)[0] = << >>
          /\ \A n \in 1 .. Len(s) :
               SiftedUpTo(s, W)[n] = SiftOne(s, W, n, SiftedUpTo(s, W)[n - 1])
      BY SiftedFunction
    <2> QED BY <2>1 DEF SiftOne
  <1>8. /\ s[1] \notin W
           /\ \A k \in 2 .. N : seqs[k] = IF s[k] \in W THEN <<F[s[k]]>> ELSE << >>
    BY DEF IsMappedRest
  <1> HIDE DEF g, h, N
  <1>4. 0 \in T
    <2>1. h[1] = << >>
      <3>1. 1 \in 1 .. N /\ 1 - 1 = 0
        BY <1>1
      <3> QED BY <1>3, <1>8, <3>1
    <2>2. g[1] = << >> \o first
      <3>1. 1 \in 1 .. N /\ 1 - 1 = 0
        BY <1>1
      <3> QED BY <1>2, <3>1
    <2>3. MapOf(F, h[1]) = << >> /\ h[1] \in Seq(W)
      BY <2>1 DEF MapOf
    <2>4. << >> \o first = first /\ first \o << >> = first
      BY ConcatEmpty
    <2>5. g[1] = first \o MapOf(F, h[1])
      BY <2>2, <2>3, <2>4
    <2>6. 0 \in 0 .. N - 1 /\ 0 + 1 = 1
      BY <1>1
    <2> QED BY <2>3, <2>5, <2>6
  <1>5. ASSUME NEW k \in 0 .. (N - 1) - 1, k \in T
        PROVE  k + 1 \in T
    <2> SUFFICES ASSUME NEW m, m = k + 1 PROVE m \in T
      OBVIOUS
    <2>1. m \in 0 .. N - 1 /\ m + 1 \in 2 .. N /\ m + 1 \in 1 .. N /\ (m + 1) - 1 = m
      BY <1>1
    <2>2. h[m] \in Seq(W) /\ g[m] = first \o MapOf(F, h[m])
      BY <1>5
    <2> DEFINE c == s[m + 1]
               w == h[m]
               v == MapOf(F, w)
    <2>3. /\ g[m + 1] = g[m] \o seqs[m + 1]
          /\ h[m + 1] = IF c \in W THEN Append(h[m], c) ELSE h[m]
          /\ seqs[m + 1] = IF c \in W THEN <<F[c]>> ELSE << >>
      BY <1>2, <1>3, <1>8, <2>1
    <2>4. v \in Seq(V) /\ \A d \in W : MapOf(F, Append(w, d)) = Append(v, F[d])
      <3>1. w \in Seq(W) /\ F \in [W -> V]
        BY <2>2
      <3> HIDE DEF w
      <3> QED BY <3>1, MappedFacts
    <2>5. first \o v \in Seq(V)
      BY <2>4, ConcatType
    <2> HIDE DEF c, v
    <2>6. CASE c \in W
      <3> DEFINE e == F[c]
      <3>1. e \in V /\ g[m + 1] = (first \o v) \o <<e>> /\ h[m + 1] = Append(w, c)
        BY <2>2, <2>3, <2>6 DEF v
      <3>2. MapOf(F, h[m + 1]) = Append(v, e) /\ h[m + 1] \in Seq(W)
        BY <2>2, <2>4, <2>6, <3>1
      <3> HIDE DEF e
      <3>3. first \o Append(v, e) = Append(first \o v, e)
        <4>1. v \in Seq(V) /\ e \in V
          BY <2>4, <3>1
        <4> QED BY <4>1, ConcatAppend
      <3>4. (first \o v) \o <<e>> = Append(first \o v, e)
        BY <2>5, <3>1
      <3> QED BY <2>1, <3>1, <3>2, <3>3, <3>4
    <2>7. CASE c \notin W
      <3>1. h[m + 1] = w /\ g[m + 1] = (first \o v) \o << >>
        BY <2>2, <2>3, <2>7 DEF v
      <3>2. g[m + 1] = first \o v
        BY <2>5, <3>1, ConcatEmpty
      <3> QED BY <2>1, <2>2, <3>1, <3>2 DEF v
    <2> QED BY <2>6, <2>7
  <1>6. N - 1 \in T
    <2> HIDE DEF T
    <2>1. 0 .. N - 1 \subseteq T
      BY <1>1, <1>4, <1>5, InductionUpTo
    <2> QED BY <1>1, <2>1
  <1>7. h[N] \in Seq(W) /\ g[N] = first \o MapOf(F, h[N])
    BY <1>1, <1>6
  <1> QED BY <1>2, <1>3, <1>7 DEF Continued

LEMMA ContinuedFacts ==
    ASSUME NEW V, NEW W, NEW F \in [W -> V], NEW w \in Seq(W), NEW first \in Seq(V)
    PROVE  /\ Len(Continued(first, F, w)) = Len(first) + Len(w)
           /\ \A k \in 1 .. Len(first) : Continued(first, F, w)[k] = first[k]
           /\ \A j \in 1 .. Len(w) : Continued(first, F, w)[Len(first) + j] = F[w[j]]
  <1> DEFINE v == MapOf(F, w)
  <1>1. /\ v \in Seq(V) /\ Len(v) = Len(w) /\ Len(w) \in Nat
        /\ \A j \in 1 .. Len(w) : v[j] = F[w[j]]
    BY MappedFacts
  <1>2. Len(first) \in Nat
    OBVIOUS
  <1>3. Continued(first, F, w) = first \o v
    BY DEF Continued
  <1> HIDE DEF v
  <1>4. Len(first \o v) = Len(first) + Len(v)
    BY <1>1
  <1>5. \A k \in 1 .. Len(first) : (first \o v)[k] = first[k]
    BY <1>1
  <1>6. \A j \in 1 .. Len(v) : (first \o v)[Len(first) + j] = v[j]
    BY <1>1
  <1> QED BY <1>1, <1>2, <1>3, <1>4, <1>5, <1>6

-----------------------------------------------------------------------------
(* Lists that have no member twice. *)
Once(s) == \A i, j \in 1 .. Len(s) : s[i] = s[j] => i = j

LEMMA OnceOne ==
    ASSUME NEW V, NEW v \in V
    PROVE  Once(<< >>) /\ Once(<<v>>)
  <1>1. Len(<< >>) = 0 /\ Len(<<v>>) = 1
    OBVIOUS
  <1> QED BY <1>1 DEF Once

LEMMA OnceConcat ==
    ASSUME NEW V, NEW s \in Seq(V), NEW t \in Seq(V), Once(s), Once(t),
           ToSet(s) \cap ToSet(t) = {}
    PROVE  Once(s \o t)
  <1> DEFINE m == Len(s)
             n == Len(t)
             u == s \o t
  <1>1. m \in Nat /\ n \in Nat /\ Len(u) = m + n
    OBVIOUS
  <1>2. (\A i \in 1 .. m : u[i] = s[i]) /\ \A i \in 1 .. n : u[m + i] = t[i]
    OBVIOUS
  <1>3. \A i \in 1 .. m, j \in 1 .. n : s[i] # t[j]
    BY MemberFacts
  <1>4. (\A i, j \in 1 .. m : s[i] = s[j] => i = j) /\ \A i, j \in 1 .. n : t[i] = t[j] => i = j
    BY DEF Once
  <1> HIDE DEF m, n, u
  <1>5. ASSUME NEW i \in 1 .. m + n
        PROVE  (i \in 1 .. m /\ u[i] = s[i]) \/ (i - m \in 1 .. n /\ u[i] = t[i - m])
    <2>1. CASE i <= m
      BY <1>1, <1>2, <2>1
    <2>2. CASE i > m
      <3>1. i - m \in 1 .. n /\ m + (i - m) = i
        BY <1>1, <2>2
      <3> QED BY <1>2, <3>1
    <2> QED BY <1>1, <2>1, <2>2
  <1>6. ASSUME NEW i \in 1 .. m + n, NEW j \in 1 .. m + n, u[i] = u[j]
        PROVE  i = j
    <2>1. CASE i \in 1 .. m /\ u[i] = s[i] /\ j \in 1 .. m /\ u[j] = s[j]
      BY <1>4, <1>6, <2>1
    <2>2. CASE i - m \in 1 .. n /\ u[i] = t[i - m] /\ j - m \in 1 .. n /\ u[j] = t[j - m]
      <3>1. i - m = j - m
        BY <1>4, <1>6, <2>2
      <3> QED BY <1>1, <3>1
    <2> QED BY <1>3, <1>5, <1>6, <2>1, <2>2
  <1>7. \A i, j \in 1 .. Len(u) : u[i] = u[j] => i = j
    BY <1>1, <1>6
  <1> QED BY <1>7 DEF Once, u

LEMMA OnceSifted ==
    ASSUME NEW V, NEW s \in Seq(V), NEW S, Once(s)
    PROVE  Once(Sifted(s, S))
  <1> DEFINE N == Len(s)
             g == SiftedUpTo(s, S)
             Before(n) == {s[i] : i \in 1 .. n}
             T == {n \in 0 .. N : Once(g[n]) /\ ToSet(g[n]) \subseteq Before(n)}
  <1>1. N \in Nat
    OBVIOUS
  <1>2. /\ Sifted(s, S) = g[N] /\ g \in [0 .. N -> Seq(V)] /\ g[0] = << >>
        /\ \A n \in 1 .. N : g[n] = SiftOne(s, S, n, g[n - 1])
    BY SiftedFunction
  <1>3. \A i, j \in 1 .. N : s[i] = s[j] => i = j
    BY DEF Once
  <1> HIDE DEF g
  <1>4. 0 \in T
    BY <1>1, <1>2 DEF ToSet, Once
  <1>5. ASSUME NEW n \in 0 .. N - 1, n \in T
        PROVE  n + 1 \in T
    <2>1. n + 1 \in 1 .. N /\ n \in 0 .. N /\ n + 1 - 1 = n /\ n + 1 \in 0 .. N /\ n \in Nat
      BY <1>1
    <2>2. g[n + 1] = SiftOne(s, S, n + 1, g[n]) /\ g[n] \in Seq(V) /\ s[n + 1] \in V
      BY <1>2, <2>1
    <2>3. Before(n + 1) = Before(n) \cup {s[n + 1]}
      BY <2>1
    <2>4. s[n + 1] \notin Before(n)
      <3>1. \A i \in 1 .. n : i \in 1 .. N /\ i # n + 1
        BY <1>1, <2>1
      <3> QED BY <1>3, <2>1, <3>1
    <2>5. Once(g[n]) /\ ToSet(g[n]) \subseteq Before(n)
      BY <1>5
    <2> HIDE DEF Before
    <2>6. CASE s[n + 1] \in S
      <3>1. PICK w \in Seq(V), v \in V : w = g[n] /\ v = s[n + 1]
        BY <2>2
      <3>2. Append(w, v) = w \o <<v>> /\ <<v>> \in Seq(V) /\ ToSet(<<v>>) = {v}
        BY NoneAndOne
      <3>3. Once(<<v>>)
        BY OnceOne
      <3>4. Once(w \o <<v>>)
        BY <2>4, <2>5, <3>1, <3>2, <3>3, OnceConcat
      <3>5. ToSet(Append(w, v)) = ToSet(w) \cup {v}
        BY ToSetAppend
      <3>6. g[n + 1] = Append(w, v)
        BY <2>2, <2>6, <3>1 DEF SiftOne
      <3> QED BY <2>1, <2>3, <2>5, <3>1, <3>2, <3>4, <3>5, <3>6
    <2>7. CASE s[n + 1] \notin S
      <3>1. g[n + 1] = g[n]
        BY <2>2, <2>7 DEF SiftOne
      <3> QED BY <2>1, <2>3, <2>5, <3>1
    <2> QED BY <2>6, <2>7
  <1> HIDE DEF T
  <1>6. 0 .. N \subseteq T
    BY <1>1, <1>4, <1>5, InductionUpTo
  <1>7. N \in T
    BY <1>1, <1>6
  <1> QED BY <1>2, <1>7 DEF T

LEMMA OnceTail ==
    ASSUME NEW V, NEW s \in Seq(V), s # << >>, Once(s)
    PROVE  /\ Head(s) \in V /\ Tail(s) \in Seq(V) /\ Once(Tail(s))
           /\ Head(s) \notin ToSet(Tail(s))
           /\ ToSet(s) = {Head(s)} \cup ToSet(Tail(s))
  <1> DEFINE n == Len(s)
             t == Tail(s)
  <1>1. n \in Nat /\ n >= 1
    OBVIOUS
  <1>2. /\ Head(s) = s[1] /\ s[1] \in V /\ t \in Seq(V) /\ Len(t) = n - 1
        /\ \A i \in 1 .. n - 1 : t[i] = s[i + 1]
    OBVIOUS
  <1>3. \A i, j \in 1 .. n : s[i] = s[j] => i = j
    BY DEF Once
  <1>4. \A x : x \in ToSet(s) <=> \E i \in 1 .. n : x = s[i]
    BY MemberFacts
  <1> HIDE DEF n, t
  <1>5. \A x : x \in ToSet(t) <=> \E i \in 1 .. n - 1 : x = t[i]
    BY <1>2, MemberFacts
  <1>6. 1 \in 1 .. n /\ \A i \in 1 .. n - 1 : i + 1 \in 1 .. n /\ i + 1 # 1
    BY <1>1
  <1>7. Once(t)
    <2>1. ASSUME NEW i \in 1 .. n - 1, NEW j \in 1 .. n - 1, t[i] = t[j]
          PROVE  i = j
      <3>1. i + 1 = j + 1
        BY <1>2, <1>3, <1>6, <2>1
      <3> QED BY <3>1
    <2> QED BY <1>2, <2>1 DEF Once
  <1>8. Head(s) \notin ToSet(t)
    BY <1>2, <1>3, <1>5, <1>6
  <1>9. ASSUME NEW x
        PROVE  x \in ToSet(s) <=> x = s[1] \/ x \in ToSet(t)
    <2>1. ASSUME NEW i \in 1 .. n
          PROVE  i = 1 \/ (i - 1 \in 1 .. n - 1 /\ (i - 1) + 1 = i)
      BY <1>1
    <2>2. \A i \in 1 .. n : i = 1 \/ (i - 1 \in 1 .. n - 1 /\ s[i] = t[i - 1])
      BY <1>2, <2>1
    <2> QED BY <1>2, <1>4, <1>5, <1>6, <2>2
  <1> QED BY <1>2, <1>7, <1>8, <1>9 DEF t

LEMMA OnceMapped ==
    ASSUME NEW V, NEW W, NEW F \in [W -> V], NEW w \in Seq(W), Once(w),
           \A a, b \in ToSet(w) : F[a] = F[b] => a = b
    PROVE  Once(MapOf(F, w)) /\ ToSet(MapOf(F, w)) = {F[a] : a \in ToSet(w)}
  <1> DEFINE v == MapOf(F, w)
  <1>1. v \in Seq(V) /\ Len(v) = Len(w) /\ \A j \in 1 .. Len(w) : v[j] = F[w[j]]
    <2> DEFINE n == Len(w)
    <2>1. n \in Nat /\ \A j \in 1 .. n : w[j] \in W
      BY MemberFacts
    <2>2. v \in [1 .. n -> V] /\ \A j \in 1 .. n : v[j] = F[w[j]]
      BY <2>1 DEF MapOf
    <2> HIDE DEF v, n
    <2>3. v \in Seq(V) /\ Len(v) = n
      BY <2>1, <2>2
    <2> QED BY <2>2, <2>3 DEF n
  <1>2. (\A i \in 1 .. Len(w) : w[i] \in ToSet(w))
        /\ \A x : x \in ToSet(w) <=> \E i \in 1 .. Len(w) : x = w[i]
    BY MemberFacts
  <1> HIDE DEF v
  <1>3. \A x : x \in ToSet(v) <=> \E i \in 1 .. Len(w) : x = v[i]
    BY <1>1, MemberFacts
  <1>4. Once(v)
    BY <1>1, <1>2 DEF Once
  <1>5. \A x : x \in ToSet(v) <=> \E a \in ToSet(w) : x = F[a]
    BY <1>1, <1>2, <1>3
  <1> QED BY <1>4, <1>5 DEF v
=============================================================================
