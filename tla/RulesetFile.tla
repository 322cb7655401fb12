----------------------------- MODULE RulesetFile -----------------------------
(***************************************************************************)
(* outputRulesetToFile (src/main.go): how one run after another writes a   *)
(* rule set to a file, as JSON or in the binary format. With -append a run *)
(* that writes JSON decodes the old file first, and then, like any other   *)
(* run, truncates it and writes all of it anew. A run may be interrupted.  *)
(***************************************************************************)
EXTENDS Naturals, SequencesExt

CONSTANTS
    Rules,      \* rules a run may write
    Contents,   \* what the file may be at first
    MaxRuns     \* bound: how many runs write to the file

(* A file is of a form and has rules. A foreign one is JSON of a version   *)
(* the decoder refuses; a partial one the beginning of what a run was to   *)
(* write.                                                                  *)
Forms == {"absent", "empty", "json", "foreign", "binary", "partial"}

HasRules == {"json", "foreign", "binary"}

(* What a file may be at first; assumed where the module is used. *)
ContentsAssumption ==
    \A f \in Contents :
        /\ f.form \in Forms
        /\ f.rules \in Seq(Rules)
        /\ f.form \notin HasRules => f.rules = << >>

VARIABLES
    disk,
    format, append, rules,  \* the current run: its flags and the rule set
    old,        \* the file before the run
    written,    \* every rule that was in the file at first or that a run
                \* has written since, in this order
    runs, pc

vars == <<disk, format, append, rules, old, written, runs, pc>>

flags == <<format, append, old, runs>>

Formats == {"json", "ruleset"}

Init ==
    /\ disk \in Contents
    /\ format = "ruleset"
    /\ append = FALSE
    /\ rules = << >>
    /\ old = disk
    /\ written = disk.rules
    /\ runs = 0
    /\ pc = "idle"

-----------------------------------------------------------------------------
Start(rule, fmt, flag) ==
    /\ pc = "idle"
    /\ runs < MaxRuns
    /\ runs' = runs + 1
    /\ format' = fmt
    /\ append' = flag
    /\ rules' = <<rule>>
    /\ old' = disk
    /\ pc' = IF fmt = "json" /\ flag THEN "read" ELSE "open"
    /\ UNCHANGED <<disk, written>>

(* What Decode makes of a file: the error is ignored, and no rule is there *)
(* unless the whole file is a rule set of a version the decoder knows.     *)
Decoded(file) == IF file.form = "json" THEN file.rules ELSE << >>

(* The old rules and the new ones; the slip has the new ones first.        *)
NewFirst(oldRules, newRules) == newRules \o oldRules

Merged(oldRules, newRules) == oldRules \o newRules

ReadOld ==
    /\ pc = "read"
    /\ rules' = Merged(Decoded(disk), rules)
    /\ pc' = "open"
    /\ UNCHANGED <<disk, flags, written>>

(* The file is truncated, or made; the slip, without O_TRUNC, leaves it.   *)
NotTruncated == disk

Opened == [form |-> "empty", rules |-> << >>]

Open ==
    /\ pc = "open"
    /\ disk' = Opened
    /\ pc' = "write"
    /\ UNCHANGED <<flags, rules, written>>

(* EqualFold(format, "json"), or else the binary format. *)
FormWritten(fmt) == IF fmt = "json" THEN "json" ELSE "binary"

Write ==
    /\ pc = "write"
    /\ disk' = [form |-> FormWritten(format), rules |-> rules]
    /\ written' = Append(written, Last(rules))
    /\ pc' = "done"
    /\ UNCHANGED <<flags, rules>>

(* The process is killed, or an open or a write fails. A text that lacks   *)
(* only its newline at the end is as good as a whole one (Write, Exit).    *)
Interrupt ==
    /\ pc \in {"read", "open", "write"}
    /\ \/ disk' = disk
       \/ pc = "write" /\ disk' = [form |-> "partial", rules |-> << >>]
    /\ pc' = "idle"
    /\ UNCHANGED <<flags, rules, written>>

Exit ==
    /\ pc = "done"
    /\ pc' = "idle"
    /\ UNCHANGED <<disk, flags, rules, written>>

Next ==
    \/ \E rule \in Rules, fmt \in Formats, flag \in BOOLEAN : Start(rule, fmt, flag)
    \/ ReadOld \/ Open \/ Write \/ Interrupt \/ Exit

Spec == Init /\ [][Next]_vars

-----------------------------------------------------------------------------
(* Types of the file and of the run. *)
TypeOK ==
    /\ disk.form \in Forms /\ disk.rules \in Seq(Rules)
    /\ disk.form \notin HasRules => disk.rules = << >>
    /\ format \in Formats
    /\ append \in BOOLEAN
    /\ rules \in Seq(Rules)
    /\ old.form \in Forms /\ old.rules \in Seq(Rules)
    /\ written \in Seq(Rules)
    /\ runs \in 0 .. MaxRuns
    /\ pc \in {"idle", "read", "open", "write", "done"}
    /\ pc = "write" => disk.form = "empty"

(* A run that ends without an error has left its rules: after the old ones *)
(* if it appends to a JSON file it can decode, and otherwise just these;   *)
(* a binary rule set is always a new one. (outputRulesetToFile)            *)
WritesItsRules ==
    pc = "done" =>
        disk.rules = IF append /\ format = "json" /\ old.form = "json"
                     THEN Append(old.rules, Last(rules)) ELSE <<Last(rules)>>

(* Whatever runs do and wherever they are interrupted, the rules of the    *)
(* file are the latest of those that were written, in order, none of them  *)
(* doubled or left out between others. (outputRulesetToFile over runs)     *)
RulesInOrder == IsSuffix(disk.rules, written)

(* "When using -append=true to ruleset and the output format is JSON,      *)
(* existing rules will be kept and new rules will be appended." (README)   *)
ExistingRulesKept ==
    pc = "done" /\ append /\ format = "json" => IsPrefix(old.rules, disk.rules)
=============================================================================
