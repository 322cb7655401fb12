------------------------------ MODULE OutputFile ------------------------------
(***************************************************************************)
(* outputToFile (src/main.go): how one run of the program after another    *)
(* writes lines to an output file, overwriting it or, with -append, adding *)
(* to it. The code separates the lines it writes but does not end the last *)
(* one, so that a later append first looks at the last byte of the file. A *)
(* run may be interrupted, and a write may fail part of the way.           *)
(***************************************************************************)
EXTENDS Naturals, SequencesExt

CONSTANTS
    NL,         \* the newline character
    Lines,      \* the lines that runs write, or that are in the file at first
    Contents,   \* what may be in the file at first (not only from this program)
    MaxLines,   \* the most lines one run writes
    MaxRuns     \* bound: how many runs write to the file

Chars == UNION {Range(l) : l \in Lines}

VARIABLES
    disk,           \* the characters of the file; one that does not exist is
                    \* empty, as every open creates it
    append, lines,  \* the current run: its flag and what it writes
    needsNewline,
    runs, pc

vars == <<disk, append, lines, needsNewline, runs, pc>>

(* The lines of a text. A newline ends a line, and the end of the text     *)
(* ends one that has begun.                                                *)
LinesOf(text) ==
    LET upTo[n \in 0 .. Len(text)] ==
          IF n = 0 THEN << >>
          ELSE IF n = 1 \/ text[n - 1] = NL
          THEN Append(upTo[n - 1], IF text[n] = NL THEN << >> ELSE <<text[n]>>)
          ELSE IF text[n] = NL THEN upTo[n - 1]
          ELSE [upTo[n - 1] EXCEPT ![Len(upTo[n - 1])] = Append(@, text[n])]
    IN  upTo[Len(text)]

(* Every line of a text is one of Lines, or the beginning of one. *)
NoneMerged(text) ==
    \A k \in DOMAIN LinesOf(text) : \E l \in Lines : IsPrefix(LinesOf(text)[k], l)

(* What lines and files are; assumed where the module is used. *)
LinesAssumption ==
    /\ NL \notin Chars
    /\ Lines \subseteq Seq(Chars) \ {<< >>}
    /\ \A text \in Contents : text \in Seq(Chars \cup {NL}) /\ NoneMerged(text)
    /\ MaxLines \in Nat /\ MaxRuns \in Nat

(* strings.Join(lines, "\n") *)
Join(ls) ==
    LET upTo[k \in 0 .. Len(ls)] ==
          IF k = 0 THEN << >>
          ELSE IF k = 1 THEN ls[1]
          ELSE upTo[k - 1] \o <<NL>> \o ls[k]
    IN  upTo[Len(ls)]

-----------------------------------------------------------------------------
Init ==
    /\ disk \in Contents
    /\ append = FALSE
    /\ lines = << >>
    /\ needsNewline = FALSE
    /\ runs = 0
    /\ pc = "idle"

Start(ls, flag) ==
    /\ pc = "idle"
    /\ runs < MaxRuns
    /\ runs' = runs + 1
    /\ lines' = ls
    /\ append' = flag
    /\ needsNewline' = FALSE
    /\ pc' = "open"
    /\ UNCHANGED disk

(* The flags of os.OpenFile; the slip opens to append and truncates. *)
OpenedEmpty == << >>

Opened == IF append THEN disk ELSE << >>

Open ==
    /\ pc = "open"
    /\ disk' = Opened
    /\ pc' = IF append THEN "stat" ELSE "write"
    /\ UNCHANGED <<append, lines, needsNewline, runs>>

(* Is the last byte of the file no newline? The slips do not ask, or do    *)
(* not ask whether there is one.                                           *)
NeverOpen(text) == FALSE

AlwaysOpen(text) == TRUE

LastLineOpen(text) == text # << >> /\ Last(text) # NL

Stat ==
    /\ pc = "stat"
    /\ needsNewline' = LastLineOpen(disk)
    /\ pc' = IF needsNewline' THEN "newline" ELSE "write"
    /\ UNCHANGED <<disk, append, lines, runs>>

WriteNewline ==
    /\ pc = "newline"
    /\ disk' = Append(disk, NL)
    /\ pc' = "write"
    /\ UNCHANGED <<append, lines, needsNewline, runs>>

(* The slip ends each line and forgets the last one. *)
AllButLast(ls) == IF ls = << >> THEN << >> ELSE Join(Front(ls))

Text(ls) == Join(ls)

Write ==
    /\ pc = "write"
    /\ disk' = disk \o Text(lines)
    /\ pc' = "done"
    /\ UNCHANGED <<append, lines, needsNewline, runs>>

(* The process is killed, or a write fails, when n characters are written. *)
Interrupt(n) ==
    /\ pc \in {"open", "stat", "newline", "write"}
    /\ n <= IF pc = "write" THEN Len(Text(lines)) ELSE 0
    /\ disk' = disk \o SubSeq(Text(lines), 1, n)
    /\ pc' = "idle"
    /\ UNCHANGED <<append, lines, needsNewline, runs>>

Exit ==
    /\ pc = "done"
    /\ pc' = "idle"
    /\ UNCHANGED <<disk, append, lines, needsNewline, runs>>

Next ==
    \/ \E k \in 0 .. MaxLines, flag \in BOOLEAN :
         \E ls \in [1 .. k -> Lines] : Start(ls, flag)
    \/ Open \/ Stat \/ WriteNewline \/ Write \/ Exit
    \/ \E n \in 0 .. Len(Text(lines)) : Interrupt(n)

Spec == Init /\ [][Next]_vars

-----------------------------------------------------------------------------
(* Types of the file and of the run; the program puts a newline only into  *)
(* a file it appends to and that is not empty. *)
TypeOK ==
    /\ disk \in Seq(Chars \cup {NL})
    /\ append \in BOOLEAN
    /\ lines \in Seq(Lines)
    /\ needsNewline \in BOOLEAN
    /\ needsNewline => append /\ disk # << >>
    /\ runs \in 0 .. MaxRuns
    /\ pc \in {"idle", "open", "stat", "newline", "write", "done"}

(* However runs are interrupted, a line of the file is a line that some    *)
(* run wrote (or that was there), or the beginning of one: two lines never *)
(* become one. (the newline logic of outputToFile)                         *)
NoMergedLines == NoneMerged(disk)
=============================================================================
