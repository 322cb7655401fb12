------------------------------- MODULE LineLog -------------------------------
(***************************************************************************)
(* What an output file promises its reader: it is a log of lines. Runs of  *)
(* the program follow one another; each one appends or starts anew. A run  *)
(* adds lines after those that are there; one that stops early may leave a *)
(* cut line behind its others. A line once in the log stays as it is, and  *)
(* only a run that does not append empties the log. (The abstract view of  *)
(* outputToFile; OutputFile implements it.)                                *)
(***************************************************************************)
EXTENDS SequencesExt

CONSTANT Lines  \* the lines that runs write

VARIABLES
    log,        \* the lines of the file
    appending   \* does the current run append?

vars == <<log, appending>>

Init ==
    /\ \A i \in DOMAIN log : \E l \in Lines : IsPrefix(log[i], l)
    /\ appending \in BOOLEAN

NextRun == appending' \in BOOLEAN /\ UNCHANGED log

Empty == ~ appending /\ log' = << >> /\ UNCHANGED appending

(* A run adds some lines, all of them whole but maybe the last. *)
Whole(line) == line \in Lines

Cut(line) == \E l \in Lines : IsPrefix(line, l)

AddedTo(old, new) ==
    /\ IsPrefix(old, new)
    /\ \A i \in Len(old) + 1 .. Len(new) :
         Whole(new[i]) \/ (i = Len(new) /\ Cut(new[i]))

Add == AddedTo(log, log') /\ UNCHANGED appending

Next == NextRun \/ Empty \/ Add

Spec == Init /\ [][Next]_vars
=============================================================================
