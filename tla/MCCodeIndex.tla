----------------------------- MODULE MCCodeIndex -----------------------------
(***************************************************************************)
(* CodeIndex on files of up to three entries, some of them hollow, cut at  *)
(* every byte. The names are a code, one that starts with it, another one, *)
(* and none.                                                               *)
(***************************************************************************)
EXTENDS CodeIndex, MCDatFile

Bodies == {BodyOf(<<1>>, 0), BodyOf(<<1, 3>>, 3), BodyOf(<<3>>, 1), BodyOf(<< >>, 1)}

MCFiles == CutFiles({EmptyBody} \cup Bodies, 3)
=============================================================================
