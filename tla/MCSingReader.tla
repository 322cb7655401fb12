----------------------------- MODULE MCSingReader -----------------------------
(***************************************************************************)
(* A database of three codes, one of them empty, and four items of two to  *)
(* five bytes, one of each type; the file is whole or cut inside any item, *)
(* between items, or at the end of the metadata.                           *)
(***************************************************************************)
EXTENDS SingReader

MCCodes == {"a", "b", "e"}
MCAbsent == {"x"}
MCStart == <<0, 3, 5, 10, 13>>
MCType == <<"DomainSuffix", "DomainRegex", "Domain", "DomainKeyword">>
MCFirst == [a |-> 1, b |-> 3, e |-> 3]
MCCount == [a |-> 2, b |-> 2, e |-> 0]
MCCuts == {0, 1, 3, 4, 5, 7, 10, 12, 13}
=============================================================================
