------------------------------- MODULE Sifting -------------------------------
(***************************************************************************)
(* SelectSeq, FlattenSeq and FoldLeft as the provers can be told about     *)
(* them: what of a sequence is in a set, in order, sequences one after the *)
(* other, and what an operation makes of one element after another.        *)
(***************************************************************************)
EXTENDS Integers, Sequences

Sifted(s, S) ==
    LET upTo[n \in 0 .. Len(s)] ==
          IF n = 0 THEN << >>
          ELSE IF s[n] \in S THEN Append(upTo[n - 1], s[n]) ELSE upTo[n - 1]
    IN  upTo[Len(s)]

Flat(seqs) ==
    LET upTo[n \in 0 .. Len(seqs)] ==
          IF n = 0 THEN << >> ELSE upTo[n - 1] \o seqs[n]
    IN  upTo[Len(seqs)]

Fold(op(_, _), first, s) ==
    LET upTo[n \in 0 .. Len(s)] ==
          IF n = 0 THEN first ELSE op(upTo[n - 1], s[n])
    IN  upTo[Len(s)]
=============================================================================
