----------------------------- MODULE SrsDuration -----------------------------
(***************************************************************************)
(* ParseDuration of src/srs/time_unit.go: a sign and then one number with  *)
(* its unit after another, which are added up in unsigned words. A text is *)
(* what the loop makes of it: a sequence of terms, of which each has the   *)
(* digits before and behind a dot, and a unit.                             *)
(***************************************************************************)
EXTENDS Powers, Sifting, FiniteSets

CONSTANTS
    WordSize,   \* the bits of an unsigned word
    Base,       \* of the digits
    Units,      \* unitMap
    Signs, Terms,
    MaxTerms,   \* bound: how many terms a text has
    FloatTimes(_, _, _),    \* a fraction in a unit, in floating point
    Precision   \* it is off by less than one part of so many

VARIABLES
    sign, orig, \* what is parsed
    todo,       \* the terms of it that are left
    d,          \* the sum so far
    parsed      \* [done, ok, value]

vars == <<sign, orig, todo, d, parsed>>

Half == Pow2(WordSize - 1)

Word(n) == n % (2 * Half)

-----------------------------------------------------------------------------
(* leadingInt: the value of the digits, or an error if it is too large.    *)
TooMany == -1

NextDigit(x, c) ==
    IF x = TooMany \/ x > Half \div Base THEN TooMany
    ELSE IF Word(x * Base + c) > Half THEN TooMany ELSE Word(x * Base + c)

LeadingInt(digits) == Fold(NextDigit, 0, digits)

(* leadingFraction stops at the first digit it has no room for.            *)
NextOfFraction(a, c) ==
    IF \/ a.overflow \/ a.x > (Half - 1) \div Base
       \/ Word(a.x * Base + c) > Half
    THEN [a EXCEPT !.overflow = TRUE]
    ELSE [a EXCEPT !.x = Word(@ * Base + c), !.scale = @ * Base]

NoFraction == [x |-> 0, scale |-> 1, overflow |-> FALSE]

LeadingFraction(digits) == Fold(NextOfFraction, NoFraction, digits)

(* What a term is refused for: no digits, no unit or one that does not     *)
(* exist, a number that is too large in itself or in its unit.             *)
WellFormed(t) ==
    /\ t.digits # << >> \/ (t.dot /\ t.fraction # << >>)
    /\ t.unit \in DOMAIN Units

Fits(t) ==
    /\ LeadingInt(t.digits) # TooMany
    /\ LeadingInt(t.digits) <= Half \div Units[t.unit]

(* What x / scale of a unit may come to as a float that is cut to a word:  *)
(* the product of x and of unit / scale, which is rounded unless the scale *)
(* divides the unit. What is less than a part above or below a word may    *)
(* come out as the one below or the word itself.                           *)
Floats(x, unit, scale) ==
    IF unit % scale = 0 THEN {(x * unit) \div scale}
    ELSE {n \in 0 .. unit :
            LET above == Precision * (x * unit - n * scale)
            IN  -scale < above /\ above < (Precision + 1) * scale}

Floated(f, unit) == IF f.x = 0 THEN 0 ELSE FloatTimes(f.x, unit, f.scale)

(* A fraction may take the number over the limit again. *)
Amount(t) ==
    Word(LeadingInt(t.digits) * Units[t.unit]
         + Floated(LeadingFraction(t.fraction), Units[t.unit]))

(* A fraction that is cut short has more digits than any unit.             *)
TermsAssumption ==
    /\ WordSize \in Nat \ {0}
    /\ Base \in 2 .. Pow2(WordSize - 1)
    /\ \A u \in DOMAIN Units : Units[u] \in 1 .. Pow2(WordSize - 1) \div Base
    /\ \A t \in Terms :
         /\ t.digits \in Seq(0 .. Base - 1) /\ t.fraction \in Seq(0 .. Base - 1)
         /\ t.dot \in BOOLEAN
    /\ MaxTerms \in Nat
    /\ Precision \in Nat \ {0}
    /\ \A t \in Terms :
         LET f == LeadingFraction(t.fraction)
         IN  f.x > 0 /\ t.unit \in DOMAIN Units =>
               FloatTimes(f.x, Units[t.unit], f.scale) \in Floats(f.x, Units[t.unit], f.scale)

(* The limit of a sum; the slip has none.                                  *)
Unlimited(n) == FALSE

Exceeds(n) == n > Half

-----------------------------------------------------------------------------
(* Terms that the loop takes a text apart to: a unit goes on to the next    *)
(* digit or dot, and one that is missing in between has a dot behind it.   *)
StartsWithDot(t) == t.digits = << >> /\ t.dot

TakenApart(terms) ==
    \A i \in 1 .. Len(terms) - 1 :
        IF terms[i].unit = "" THEN terms[i].dot /\ StartsWithDot(terms[i + 1])
        ELSE terms[i + 1].digits # << >> \/ terms[i + 1].dot

Init ==
    /\ sign \in Signs
    /\ \E n \in 0 .. MaxTerms : orig \in {terms \in [1 .. n -> Terms] : TakenApart(terms)}
    /\ todo = orig
    /\ d = 0
    /\ parsed = [done |-> FALSE, ok |-> FALSE, value |-> 0]

Return(ok, value) ==
    /\ parsed' = [done |-> TRUE, ok |-> ok, value |-> value]
    /\ UNCHANGED <<sign, orig, todo, d>>

Zero == [digits |-> <<0>>, dot |-> FALSE, fraction |-> << >>, unit |-> ""]

(* A text that is "0", which needs no unit, and one that is empty. *)
Special == orig \in {<<Zero>>, << >>}

ReturnSpecial ==
    /\ ~ parsed.done /\ Special
    /\ Return(orig # << >>, 0)

Consume ==
    /\ ~ parsed.done /\ ~ Special /\ todo # << >>
    /\ LET t == Head(todo)
       IN  IF ~ WellFormed(t) \/ ~ Fits(t) THEN Return(FALSE, 0)
           ELSE IF Exceeds(Amount(t)) \/ Exceeds(Word(d + Amount(t))) THEN Return(FALSE, 0)
           ELSE /\ d' = Word(d + Amount(t))
                /\ todo' = Tail(todo)
                /\ UNCHANGED <<sign, orig, parsed>>

(* Of the two signed words only the negative one reaches Half. *)
Finish ==
    /\ ~ parsed.done /\ ~ Special /\ todo = << >>
    /\ IF sign = "-" THEN Return(TRUE, -d)
       ELSE IF d > Half - 1 THEN Return(FALSE, 0) ELSE Return(TRUE, d)

Next == ReturnSpecial \/ Consume \/ Finish

Spec == Init /\ [][Next]_vars

-----------------------------------------------------------------------------
(* Types: the sum is one that a duration can have. *)
TypeOK ==
    /\ sign \in Signs
    /\ \E k \in 0 .. Len(orig) : todo = SubSeq(orig, k + 1, Len(orig))
    /\ d \in 0 .. Half
    /\ parsed.value \in -Half .. Half - 1

(* What a term means, with all of its digits. *)
Shifted(x, c) == x * Base + c

Value(digits) == Fold(Shifted, 0, digits)

Longer(x, c) == x * Base

Scale(digits) == Fold(Longer, 1, digits)

Meaning(t) ==
    Value(t.digits) * Units[t.unit]
    + (Value(t.fraction) * Units[t.unit]) \div Scale(t.fraction)

Plus(x, y) == x + y

Sum_(numbers) == Fold(Plus, 0, numbers)

Total(terms) == Sum_([i \in DOMAIN terms |-> Meaning(terms[i])])

Fractions(terms) == {i \in DOMAIN terms : LeadingFraction(terms[i].fraction).overflow}

(* Those of which the digits are finer than the unit, so that a float is   *)
(* not exact.                                                              *)
Rough(t) ==
    LET f == LeadingFraction(t.fraction)
    IN  f.x > 0 /\ Units[t.unit] % f.scale # 0

Roughs(terms) == {i \in DOMAIN terms : Rough(terms[i])}

(* A sum that is as large as the limit allows, and a term that is: zero.   *)
Wraps(terms) ==
    \E k \in DOMAIN terms :
        /\ Amount(terms[k]) = Half
        /\ Sum_([i \in 1 .. k - 1 |-> Amount(terms[i])]) = Half

(* A text of numbers and units is the duration it means, with its sign, if *)
(* there is such a duration, and an error else. A fraction that is cut     *)
(* short is less by one at most; one with more digits than its unit has,   *)
(* for which floats are rounded, is less or more by one at most. One case  *)
(* apart: sums and terms of 2^63, which make zero together.                *)
(* (ParseDuration, leadingInt, leadingFraction)                            *)
Right(terms, neg, ok, value) ==
    LET total == Total(terms)
        rough == Cardinality(Roughs(terms))
        cut   == Cardinality(Fractions(terms))
        least == total - (cut + rough)
        most  == total + rough
    IN  IF terms = <<Zero>> THEN ok /\ value = 0
        ELSE IF terms = << >> \/ \E i \in DOMAIN terms : ~ WellFormed(terms[i]) THEN ~ ok
        ELSE Wraps(terms) \/
             IF ~ ok THEN most > (IF neg THEN Half ELSE Half - 1)
             ELSE value \in (IF neg THEN -most .. -least ELSE least .. most)

DurationExact == parsed.done => Right(orig, sign = "-", parsed.ok, parsed.value)
=============================================================================
