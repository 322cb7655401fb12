--------------------------------- MODULE Cli ---------------------------------
(***************************************************************************)
(* The command line of the program (src/main.go): one invocation after     *)
(* another parses its flags, gets its data and writes it, through          *)
(* outputToFile (OutputFile), outputRulesetToFile (RulesetFile) or         *)
(* os.WriteFile, to the file -output names; every invocation of a          *)
(* behaviour writes to one file with one of the three. What the commands   *)
(* compute is modelled elsewhere; here it is there or it is an error.      *)
(***************************************************************************)
EXTENDS Naturals, SequencesExt

CONSTANTS
    CommandLines,   \* sequences of flags: [name, value]
    MaxInvocations, \* bound: how often the program is started
    NL, Lines, MaxLines, TextContents,  \* of OutputFile
    Rules, RuleContents                 \* of RulesetFile

VARIABLES
    writer,     \* which of the three writes the file
    textDisk, textAppend, lines, needsNewline, textRuns, textPc,
    ruleDisk, format, ruleAppend, rules, oldRules, written, ruleRuns, rulePc,
    dat,        \* the file os.WriteFile writes
    global,     \* global.*: what the flags say
    exitCode,
    status,     \* what the process exits with
    trouble,    \* what has gone wrong in this invocation
    before,     \* the files when it began
    started, stage

text == <<textDisk, textAppend, lines, needsNewline, textRuns, textPc>>

ruleset == <<ruleDisk, format, ruleAppend, rules, oldRules, written, ruleRuns, rulePc>>

process == <<global, exitCode, status, trouble, before, started, stage>>

vars == <<writer, text, ruleset, dat, process>>

T == INSTANCE OutputFile WITH
       Contents <- TextContents, MaxRuns <- MaxInvocations, disk <- textDisk,
       append <- textAppend, runs <- textRuns, pc <- textPc

R == INSTANCE RulesetFile WITH
       Contents <- RuleContents, MaxRuns <- MaxInvocations, disk <- ruleDisk,
       append <- ruleAppend, old <- oldRules, runs <- ruleRuns, pc <- rulePc

ASSUME FilesAssumption == T!LinesAssumption /\ R!ContentsAssumption

-----------------------------------------------------------------------------
(* The flags of the program; of a text only whether it is given matters.   *)
(* Parsing stops at the first flag it does not know, and nobody looks at   *)
(* the error: the flags after it are not set.                              *)
Defaults ==
    [input |-> FALSE, type |-> "geoip", action |-> "extract", list |-> FALSE,
     ipv4 |-> TRUE, ipv6 |-> TRUE, regex |-> FALSE,
     output |-> FALSE, value |-> FALSE, format |-> "ruleset", append |-> FALSE,
     lowmem |-> TRUE, version |-> FALSE, strict |-> TRUE]

Known(flag) == flag.name \in DOMAIN Defaults

Switches == {"input", "list", "ipv4", "ipv6", "regex", "output", "value", "append",
             "lowmem", "version", "strict"}

ASSUME FlagsAssumption ==
    \A line \in CommandLines :
        /\ line \in Seq(Range(line))
        /\ \A i \in DOMAIN line : line[i].name \in Switches => line[i].value \in BOOLEAN

Understood(line, n) == \A k \in 1 .. n : Known(line[k])

Parsed(line) ==
    LET upTo[n \in 0 .. Len(line)] ==
          IF n = 0 THEN Defaults
          ELSE IF Understood(line, n)
          THEN [upTo[n - 1] EXCEPT ![line[n].name] = line[n].value]
          ELSE upTo[n - 1]
    IN  upTo[Len(line)]

UsageWrong(g) ==
    \/ ~ g.input
    \/ g.action = "convert" /\ ~ g.list
    \/ g.action = "lookup" /\ ~ g.value

Actions == {"extract", "convert", "lookup"}

Types == {"geoip", "geosite"}

Lists(g) == g.action = "extract" /\ ~ g.list

QX(g) == g.action = "convert" /\ g.format \in {"qx", "quantumultx"}

Dat(g) == g.action = "convert" /\ g.format = g.type

(* Which writer a command uses; "none" for a format that is not supported. *)
Writer(g) ==
    IF g.action = "extract" \/ QX(g) THEN "text"
    ELSE IF g.format \in {"json", "srs", "ruleset"} THEN "ruleset"
    ELSE IF Dat(g) THEN "dat" ELSE "none"

ToFile(g) == g.output /\ g.action # "lookup" /\ ~ Lists(g) /\ g.type \in Types

(* What the commands do when they get less than they were asked for. FindIP *)
(* and the geoip ToQuantumultX return no error at all.                     *)
Silent(g) == g.type = "geoip" /\ (g.action = "lookup" \/ QX(g))

(* An error of the data, or a code that has to exist and does not, can go  *)
(* unnoticed: by a lookup, which passes over the code that gives it, and   *)
(* the scan of listCodes; of geoip, by ToQuantumultX, by ToGeoIP, which    *)
(* looks at neither ReadFull nor Unmarshal nor MustExist, and, in the low  *)
(* memory mode, by Extract, which does not look at ReadFull and never sees *)
(* that a code is missing; of geosite, by ToGeosite, which passes over the *)
(* code of a sing-box database, and by all of them if -strict is off.      *)
Drops(g) ==
    \/ g.action = "lookup" \/ Lists(g)
    \/ g.type = "geoip" /\ (QX(g) \/ Dat(g) \/ g.lowmem)
    \/ g.type = "geosite" /\ (Dat(g) \/ ~ g.strict)

(* The geoip Extract and both ToRuleSet make an error of an empty result,  *)
(* the others go on with it.                                               *)
EmptyIsError(g) ==
    \/ g.action = "extract" /\ g.list /\ g.type = "geoip"
    \/ g.action = "convert" /\ Writer(g) = "ruleset"

-----------------------------------------------------------------------------
Init ==
    /\ writer \in {"text", "ruleset", "dat"}
    /\ T!Init /\ (writer # "text" => textDisk = << >>)
    /\ R!Init /\ (writer # "ruleset" => ruleDisk.form = "absent")
    /\ dat = "old"
    /\ global = Defaults
    /\ exitCode = 0
    /\ status = 0
    /\ trouble = "none"
    /\ before = << >>
    /\ started = 0
    /\ stage = "idle"

Invoke(line) ==
    /\ stage = "idle"
    /\ started < MaxInvocations
    /\ global' = Parsed(line)
    /\ ToFile(global') => Writer(global') \in {writer, "none"}
    /\ exitCode' = 0
    /\ trouble' = "none"
    /\ before' = <<textDisk, ruleDisk, dat>>
    /\ started' = started + 1
    /\ stage' = "run"
    /\ UNCHANGED <<writer, text, ruleset, dat, status>>

(* The end of the process; os.Exit(exitCode) but for the early returns.    *)
End(code, what) ==
    /\ stage' = "ended"
    /\ status' = code
    /\ trouble' = what
    /\ UNCHANGED <<global, before, started>>

Untouched == UNCHANGED <<writer, text, ruleset, dat>>

(* printErrorln *)
Fail(what) == exitCode' = 1 /\ End(1, what)

GoOn(what) == UNCHANGED exitCode /\ End(exitCode, what)

Succeed == GoOn("none")

(* -version, and the usage errors, which return from main: their exitCode  *)
(* of 1 is not what the process exits with.                                *)
Return ==
    /\ stage = "run"
    /\ \/ global.version /\ Succeed
       \/ ~ global.version /\ UsageWrong(global) /\ exitCode' = 1 /\ End(0, "usage")
    /\ Untouched

Runs == stage = "run" /\ ~ global.version /\ ~ UsageWrong(global)

(* main, convert: an action or a format that does not exist, a conversion  *)
(* to a .dat file without -output.                                         *)
Refuse ==
    /\ Runs
    /\ \/ global.action \notin Actions
       \/ /\ global.action = "convert" /\ global.type \in Types
          /\ Writer(global) = "none" \/ (Dat(global) /\ ~ global.output)
    /\ Fail("usage")
    /\ Untouched

(* A type that does not exist: no switch has a case for it. *)
NoSuchType ==
    /\ Runs
    /\ global.action \in Actions
    /\ global.type \notin Types
    /\ UNCHANGED exitCode
    /\ End(exitCode, "usage")
    /\ Untouched

Dispatched ==
    /\ Runs
    /\ global.action \in Actions
    /\ global.type \in Types
    /\ global.action = "convert" =>
         Writer(global) # "none" /\ (Dat(global) => global.output)

(* What can be wrong with the data, "data" an error or a missing code,     *)
(* "nothing" an empty result: what the command reports, and what it goes   *)
(* on with.                                                                *)
Reported ==
    (IF Silent(global) THEN {} ELSE {"data"})
    \cup (IF EmptyIsError(global) THEN {"nothing"} ELSE {})

Overlooked ==
    (IF Drops(global) THEN {"data"} ELSE {})
    \cup (IF EmptyIsError(global) THEN {} ELSE {"nothing"})

GoesOnWith == {"none"} \cup Overlooked

(* listCodes, lookup, and the other commands without -output, print.       *)
Stdout ==
    /\ Dispatched
    /\ ~ ToFile(global)
    /\ \/ \E what \in GoesOnWith : GoOn(what)
       \/ \E what \in Reported : Fail(what)
    /\ Untouched

(* extract and convert with -output get all of their data first; if they   *)
(* report an error they do not touch the file. The slip has opened it.     *)
FileOpened ==
    /\ textDisk' = << >>
    /\ UNCHANGED <<writer, textAppend, lines, needsNewline, textRuns,
                   textPc, ruleset, dat>>

FileUntouched == Untouched

DataError ==
    /\ Dispatched /\ ToFile(global)
    /\ \E what \in Reported : Fail(what)
    /\ FileUntouched

StartWriting(what) ==
    /\ stage' = "write"
    /\ trouble' = what
    /\ UNCHANGED <<writer, global, exitCode, status, before, started>>

(* A list is empty because nothing was found, or an error was dropped.     *)
WriteText(ls) ==
    /\ Dispatched /\ ToFile(global) /\ Writer(global) = "text"
    /\ \E what \in GoesOnWith :
         /\ what # IF ls = << >> THEN "none" ELSE "nothing"
         /\ StartWriting(what)
    /\ T!Start(ls, global.append)
    /\ UNCHANGED <<ruleset, dat>>

WriteRuleset(rule) ==
    /\ Dispatched /\ ToFile(global) /\ Writer(global) = "ruleset"
    /\ R!Start(rule, IF global.format = "json" THEN "json" ELSE "ruleset", global.append)
    /\ \E what \in GoesOnWith : StartWriting(what)
    /\ UNCHANGED <<text, dat>>

WriteDat ==
    /\ Dispatched /\ ToFile(global) /\ Writer(global) = "dat"
    /\ dat' \in {"empty", dat}
    /\ \E what \in GoesOnWith : StartWriting(what)
    /\ UNCHANGED <<text, ruleset>>

-----------------------------------------------------------------------------
TextStep ==
    /\ T!Open \/ T!Stat \/ T!WriteNewline \/ T!Write
    /\ UNCHANGED <<writer, ruleset, dat, process>>

RulesetStep ==
    /\ R!ReadOld \/ R!Open \/ R!Write
    /\ UNCHANGED <<writer, text, dat, process>>

Written ==
    /\ stage = "write"
    /\ GoOn(trouble)
    /\ \/ T!Exit /\ UNCHANGED <<ruleset, dat>>
       \/ R!Exit /\ UNCHANGED <<text, dat>>
       \/ /\ writer = "dat"
          /\ dat' = IF trouble = "nothing" THEN "empty" ELSE "whole"
          /\ UNCHANGED <<text, ruleset>>
    /\ UNCHANGED writer

(* An error of the writer is printed, except of a quantumultx list: nobody *)
(* looks at what outputToFile returns. The slip never looks.               *)
AnyText(g) == Writer(g) = "text"

Unchecked(g) == QX(g)

(* A system call fails, or the process is killed. *)
Broken ==
    /\ stage = "write"
    /\ \/ \E n \in 0 .. Len(T!Text(lines)) : T!Interrupt(n) /\ UNCHANGED <<ruleset, dat>>
       \/ R!Interrupt /\ UNCHANGED <<text, dat>>
       \/ writer = "dat" /\ dat' \in {dat, "partial"} /\ UNCHANGED <<text, ruleset>>
    /\ \/ Unchecked(global) /\ UNCHANGED exitCode /\ End(exitCode, "write")
       \/ ~ Unchecked(global) /\ Fail("write")
       \/ UNCHANGED exitCode /\ End(9, "killed")
    /\ UNCHANGED writer

(* Nothing of a process outlives it but the files. *)
Idle ==
    /\ stage = "ended"
    /\ global' = Defaults
    /\ exitCode' = 0
    /\ status' = 0
    /\ trouble' = "none"
    /\ before' = << >>
    /\ stage' = "idle"
    /\ UNCHANGED <<writer, text, ruleset, dat, started>>

Next ==
    \/ \E line \in CommandLines : Invoke(line)
    \/ Return \/ Refuse \/ NoSuchType \/ Stdout \/ DataError
    \/ \E k \in 0 .. MaxLines : \E ls \in [1 .. k -> Lines] : WriteText(ls)
    \/ \E rule \in Rules : WriteRuleset(rule)
    \/ WriteDat
    \/ TextStep \/ RulesetStep \/ Written \/ Broken \/ Idle

Spec == Init /\ [][Next]_vars

-----------------------------------------------------------------------------
(* Types of the invocation and of the two writers that have states; a      *)
(* writer is at work only while its command writes. *)
TypeOK ==
    /\ T!TypeOK /\ R!TypeOK
    /\ dat \in {"old", "empty", "partial", "whole"}
    /\ DOMAIN global = DOMAIN Defaults
    /\ \A name \in Switches : global[name] \in BOOLEAN
    /\ exitCode \in {0, 1}
    /\ status \in {0, 1, 9}
    /\ trouble \in {"none", "usage", "data", "nothing", "write", "killed"}
    /\ stage \in {"idle", "run", "write", "ended"}
    /\ textPc # "idle" => stage = "write" /\ writer = "text"
    /\ rulePc # "idle" => stage = "write" /\ writer = "ruleset"

(* However invocations end, a line of a text file is one that an invocation *)
(* wrote, or the beginning of one: two lines never become one.             *)
(* (OutputFile; the newline logic of outputToFile)                         *)
NoMergedLines == T!NoMergedLines

(* When outputRulesetToFile returns without an error, the file has its     *)
(* rules, behind the old ones that could be read. (RulesetFile)            *)
WritesItsRules == R!WritesItsRules

(* The rules of a file are the latest ones written, in the order of the    *)
(* invocations, whatever was interrupted. (RulesetFile)                    *)
RulesInOrder == R!RulesInOrder

(* Seen as lines, the text file is a LineLog: whatever an invocation does  *)
(* and wherever it stops, no line that is there changes, one that appends  *)
(* drops none, and only the last line of one that stopped can be cut.      *)
(* (the open flags and the newline logic of outputToFile)                  *)
Log == INSTANCE LineLog WITH log <- T!LinesOf(textDisk), appending <- textAppend

ImplementsLog == Log!Spec

(* The exit status tells a script whether the command has done what it was *)
(* understood to be asked, and if it has, its result is in the file: a     *)
(* text has the old lines, if it was to append, then the new ones, and     *)
(* nothing else.                                                           *)
(* Known exceptions, all of which exit with 0: the usage errors of main, a *)
(* type that does not exist, an error writing a quantumultx list, an error *)
(* of the data or a missing code that the command drops (Drops: FindIP and *)
(* the geoip ToQuantumultX drop every one), and an empty result of a       *)
(* command that does not make an error of it (EmptyIsError).               *)
(* (main, printErrorln, and every place that looks at an error, or not)    *)
StatusTellsTruth ==
    stage = "ended" =>
        /\ trouble = "none" => status = 0
        /\ status = 0 =>
             \/ trouble = "none"
             \/ trouble = "usage" /\ (UsageWrong(global) \/ global.type \notin Types)
             \/ trouble = "write" /\ QX(global)
             \/ trouble = "data" /\ Drops(global)
             \/ trouble = "nothing" /\ ~ EmptyIsError(global)
        /\ trouble = "none" /\ ~ global.version /\ ToFile(global) =>
             CASE writer = "text" ->
                    T!LinesOf(textDisk) =
                      (IF global.append THEN T!LinesOf(before[1]) ELSE << >>) \o lines
               [] writer = "ruleset" -> IsSuffix(<<Last(rules)>>, ruleDisk.rules)
               [] OTHER -> dat = "whole"

(* An invocation that is refused, or reports that it cannot have its data, *)
(* leaves every file as it is; one that was asked to append, and whose     *)
(* flags are all known, leaves the lines of a text, however it ends. Known *)
(* exceptions: the commands that drop an error of the data, or go on with  *)
(* an empty result (convert to qx or to a .dat file, the geosite extract), *)
(* and so write what they have, or nothing, over what was there.           *)
(* (extract, convert, flag.Parse)                                          *)
KeepsFiles ==
    stage = "ended" =>
        /\ trouble \in {"usage", "data", "nothing"} =>
             \/ before = <<textDisk, ruleDisk, dat>>
             \/ status = 0 /\ ToFile(global) /\ trouble = "data" /\ Drops(global)
             \/ status = 0 /\ ToFile(global) /\ trouble = "nothing" /\ ~ EmptyIsError(global)
        /\ global.append => IsPrefix(T!LinesOf(before[1]), T!LinesOf(textDisk))
=============================================================================
