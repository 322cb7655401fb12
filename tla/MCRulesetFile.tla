---------------------------- MODULE MCRulesetFile ----------------------------
(***************************************************************************)
(* One run that writes a rule, on a file that does not exist, is a rule    *)
(* set of any form, or is cut.                                             *)
(***************************************************************************)
EXTENDS RulesetFile

MCContents == [form : {"absent", "empty", "partial"}, rules : {<< >>}]
              \cup [form : HasRules, rules : {<<"r1">>, <<"r1", "r2">>}]
=============================================================================
