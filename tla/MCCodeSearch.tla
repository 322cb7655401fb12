----------------------------- MODULE MCCodeSearch -----------------------------
(***************************************************************************)
(* The scans on files like those of MCCodeIndex, and on some that end with *)
(* the first bytes of another entry, as a name runs out after them. The    *)
(* codes looked for are those in the files, one that is only the beginning *)
(* of one, none, and absent. A body of seven bytes has the length byte 7   *)
(* (2^8 - 1 in the code), at which the slice of CodeList wraps.            *)
(***************************************************************************)
EXTENDS CodeSearch, MCDatFile

Bodies == {BodyOf(<<1, 3>>, 3), BodyOf(<<3>>, 1), BodyOf(<< >>, 0)}

MCFiles == CutFiles({EmptyBody} \cup Bodies, 3)

MCCodes == {<<1>>, <<1, 3>>, <<3>>, << >>}
=============================================================================
