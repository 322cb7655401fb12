# Verification of geoview

geoview is a command line tool over the databases that V2Ray/Xray (`geoip.dat`,
`geosite.dat`) and sing-box (`geosite.db`) use for routing. It extracts what a
database has for a list of codes, converts it (text, JSON or binary rule sets,
QuantumultX rules, v2ray databases) and looks up an address or a domain.

This directory has TLA+ modules translated from the source, TLC configurations
that check them on small instances, and proofs that TLAPS checks for every
value of the constants. `PROJECT.json` lists which definition stands for which
lines of code, the runs, the hazards of the code and the findings.

    tlc -config MCCodeIndex.cfg MCCodeIndex      # any run
    tlapm CodeIndexProofs.tla                    # any proof module

## The system

One process runs one command and exits. There are no threads that share state;
what makes the program hard is that it reads files byte by byte with *relative*
seeks, that the same command exists once per database kind and once per memory
mode, that Go maps hand out their keys in any order, that many errors are
dropped on purpose, and that several runs write to one output file.

| component | source | state | operations | what is hard | what makes it correct |
|---|---|---|---|---|---|
| dat file scanners | `protohelper/helper.go`, `readerex.go` | the position of the reader, the tracked position, the index | `CodeListByReader`, `FindCode`, `FindCodeByReader`, `CodeList` | read ahead and seek back; cut files; hollow entries | every entry is found, at the right bytes, and the scan ends |
| sing-box reader | `geosite/geosing.go` | the cursor, the metadata, `ReadCounter` | `Load…`, `Read` | no absolute seek: one read starts where the last one, perhaps a failed one, ended | what is read of a code are its items |
| v2ray reader | `geosite/geov2ray.go` | the index, the open file | `ReadSites`, `Codes` | strict and lenient mode, codes that do not exist | see geosite commands |
| geosite commands | `geosite/georeader.go`, `georeader-lowmem.go` | the list collected so far | `Extract`, `ToRuleSet`, `ToQuantumultX`, `ToGeosite`, `Lookup` | map order, fall-through switches, batches of matchers, dropped errors | the result is exactly what was asked for, whatever the order; failures have a reason |
| geoip commands | `geoip/dataReader.go` | the same | `Extract`, `ToRuleSet`, `ToQuantumultX`, `ToGeoIP`, `FindIP` | two implementations that should agree, two passes of one of them | the same |
| text output | `main.go:420` | the output file | `outputToFile` | append to a last line without newline, interrupted runs | lines never merge, append loses nothing |
| rule set output | `main.go:388` | the output file | `outputRulesetToFile` | decode, truncate and rewrite; interrupted runs | the rules in the file are the latest ones, in order |
| command line | `main.go`, `global/config.go` | flags, exit status | `main`, `extract`, `convert`, `lookup` | dropped errors, usage errors that exit with 0 | a failure shows in the status |
| matchers | `strmatcher/` | label and pattern maps | `Add`, `Match` | scan over the labels of a domain, hash tables, an automaton | a domain matches iff one of its patterns does |
| geoip entry, cidr ranges | `geoip/entry.go`, `cidr/` | builders, cached IP sets | add and remove prefixes, merge ranges | caches, overflow at the last address | sets of addresses are what was added less what was removed |
| rule set formats, durations | `srs/` | none | encode, decode | layout of bytes, 64-bit overflow | what is written reads back |

They interact by calls within one process: `main` hands the flags to a geosite
or a geoip handler, which loads a file through a reader (v2ray readers through
the scanners), and passes the result to one of the two output functions. The
only state that outlives a process is the output file, which may be the input
of a later run.

## Modules

| module | models | proved in |
|---|---|---|
| `DatFile` | the layout of a .dat file: entries, varints, names, as the scanners see bytes; what a file may look like (`IsFile`) | |
| `CodeIndex` | `CodeListByReader` over a `ReadSeekTracker`, to the byte and seek | `CodeIndexProofs` |
| `CodeSearch` | `FindCode`, `FindCodeByReader`, `CodeList` | `CodeSearchProofs` |
| `SingReader` | `GeoSiteReader.Read` and the loops that call it | `SingReaderProofs` |
| `GeositeExtract` | the five geosite commands, on databases of both kinds | `GeositeExtractProofs` |
| `GeoIPExtract` | the four geoip commands, in both memory modes | `GeoIPExtractProofs` |
| `OutputFile` | `outputToFile` over several runs, any of which may be interrupted | `CliProofs` |
| `RulesetFile` | `outputRulesetToFile`, likewise | `CliProofs` |
| `LineLog` | what an output file of lines promises its reader; `OutputFile` implements it | `CliProofs` |
| `Cli` | the command line: flags, usage errors, dispatch, exit status; composes `OutputFile` and `RulesetFile` | `CliProofs` |
| `ACAutomaton` | the automaton of `ac_automaton_matcher.go`, as operators | `LibraryProofs` |
| `Matchers` | the four groups of matchers under any sequence of calls, with `ACAutomaton` | `LibraryProofs` |
| `CidrRanges` | `cidr/`: parse, sort and merge, split into networks | `LibraryProofs` |
| `GeoIPEntry` | `geoip/entry.go`: builders, sets, all the Go types a prefix may have | `LibraryProofs` |
| `SrsCodec` | the binary rule set format: writer, interruptions, reader | `LibraryProofs` |
| `SrsDuration` | `ParseDuration` in words of a few bits | `LibraryProofs` |
| `Library` | the last five side by side, for one run | `LibraryProofs` |
| `Powers` | powers of two, as a recursive function | `LibraryProofs` |
| `Sifting` | what a sequence has of a set, and sequences one after the other, as recursive functions | `InductionFacts` |
| `InductionFacts` | no code: induction and the facts about sequences the proofs share | |

`MCDatFile` builds small .dat files; an `MC…` module gives each of the others
its constants (`MCCli` for the output files, `MCLibrary` for the packages).

The modules are layered. `CodeIndex` and `CodeSearch` establish what a scan of
a file finds; `GeositeExtract` and `GeoIPExtract` take only that from them: the
index has the last entry of a name, cut or not, a search finds the first one if
it is whole. Likewise `SingReader` establishes that reads are exact and that
no read that needs items succeeds after one has failed (the cursor is then at
the end of the file), and `GeositeExtract` has a flag `broken` for that.

How state and actions correspond to the code:

* **CodeIndex.** `pos` is the position of the operating system's file, `off`
  is `ReadSeekTracker.pos`, `bodyL` and `size` are the locals of those names.
  One action per part of the loop body: `Return` (the two `break`s),
  `ReadHeader` (read ahead, seek back, read two bytes), `ReadName` / `NoName`,
  `SkipBody`. A read-ahead is `HeaderLen` bytes (30 in the code).
* **CodeSearch.** One step is one iteration of a loop; `scan` says which.
  `Panic` is the `data[1]` that is read without asking whether it exists,
  `RunsOut` the `data[2+i]` behind it, and `SliceWraps` the slice
  `data[2:size+2]` of `CodeList`, in which `size` is a byte: for 254 and 255 its
  end is before its beginning, which panics. A slice that reaches past the end
  of the data panics or not, as the buffer behind it has room or not.
* **SingReader.** `pos` is relative to the end of the metadata; `counter` is
  `ReadCounter.count`. `SeekIndex`, `ReadItem` / `ReadFails`, `SeekBack` are
  the parts of `Read`; `Missing` is its early return; `Failed` is what
  `extractSingGeoSite` does with an error. The codes come in any order.
* **GeositeExtract.** `pending` is what a loop over a map has still to visit.
  `ReadSite`, `ReadSing`, `ReadSingForGeosite` and `LookupSite` are one
  iteration of the four loops, `Convert` and `EndLookup` the rest of a command.
  The two readers (in memory and low memory) take the same steps, so there is
  no flag for the mode.
* **GeoIPExtract.** `VisitLowMem` and `VisitInMemory` are an iteration of the
  two loops, which differ; `VisitEntry` one of `ToGeoIP` and `FindIP`;
  `EndPass4` and `EndPass6` the two passes of `ToQuantumultX`.
* **Cli.** A behaviour is a sequence of invocations that share one output
  file; `writer` is which of the three writers writes it. `Invoke` parses the
  flags (up to the first one that is unknown, as nobody looks at the error of
  `flag.Parse`); `Return`, `Refuse`, `NoSuchType`, `Stdout` and `DataError` are
  the ways to end without writing; `WriteText`, `WriteRuleset` and `WriteDat`
  hand over to a writer, whose own actions (`TextStep`, `RulesetStep`) follow;
  `Written` and `Broken` are its return, with the error looked at or not.
  `exitCode` is the variable of that name, `status` what the process exits
  with: a `return` from `main` loses the first. `trouble` records what went
  wrong, also where the program does not want to know: "data" is an error of
  the data or a code that should exist, "nothing" an empty result. `Reported` is
  what of this a command makes an error of, `Overlooked` what it goes on with
  (`Silent`, `Drops` and `EmptyIsError` say which command does what).
* **LineLog.** `log` is `LinesOf` the file; a run appends whole lines behind
  what is there, may leave one cut line, and only a run that does not append
  empties the log. `ImplementsLog` says that `Cli` with `OutputFile` does
  nothing else to a text, under the mapping `log <- LinesOf(textDisk)`.
* **Matchers.** `group` is the value of the Go type, of one of four `kind`s;
  `AddPattern`, `Build` and `Match` are the calls, in any order, misuse
  included, which ends in a panic or a hang (`state`). A trie of domains is
  the set of its paths; the hash table is built as in the code, bucket by
  bucket, by size, with the first seed that fits; if no seed does, `Build` goes
  on for ever (`SeedsFail`). The seeds 0 to `MaxSeed` are all there are, like
  the 2^32 of the code. `ACBuild` pops the queue
  node by node; `BuildEnds` is whether the queue ever empties.
* **CidrRanges.** An address is a number; `Bits` is the length of each family.
  The loops of the merge (`MergeOne`) and of the split (`ToIpNets`) take a
  step per range and per network; `AddOne` overflows as the code's does.
* **GeoIPEntry.** A source has its Go type, family, address and length;
  `processPrefix` has a case per type. `log` and `seen` record the calls and
  how many of them a set has seen. A comment line is passed on by `AddPrefix`
  and then refused by `add` for want of a type, which is an error all the
  same. A `net.IPNet` has an address and a mask, and `netipx` takes the ones of
  the mask for the bits of the *unmapped* address, whatever the length of the
  mask (package `net` takes the last four bytes of it instead); `Meant` follows
  the code in that.
* **SrsCodec.** A token is what one call of an encoder writes. `Write` leaves
  the whole stream, or any prefix of it if it fails or is killed.
* **SrsDuration.** A text is its terms, as the loop takes them apart; `d` is
  the unsigned sum. `Consume` is one iteration. A fraction is multiplied in
  floating point (`time_unit.go:110`): `FloatTimes` may be any function that is
  off by less than one part in `Precision` (`Floats`) before it is cut to a word,
  and exact where the digits divide the unit. So "0.999999999999999999s" may be
  a second, as it is in the code. The real error is less than 2^-5 ns: a double
  has 53 bits, an hour of nanoseconds 42.
* **OutputFile, RulesetFile.** One action per system call (`Open`, `Stat`,
  `WriteNewline`, `Write`, `ReadOld`), `Start` and `Exit` around a run, and
  `Interrupt` for a kill or a failing call at any of them, part of a write
  included. `OutputFile` has the characters of the file, because the newline
  logic looks at them; `RulesetFile` has its rules and its form.

What is abstracted: a domain, a pattern or a range is a small record and not
text; a code stands for its spelling in either case (v2ray codes are upper
case, sing-box ones lower case, and the code converts); whether a pattern
matches the looked up domain is a constant (`Hits`), since deciding that is the
matchers' part; a protobuf parse is what it returns on whole and on cut input.

## Runs

| run | instance | shows |
|---|---|---|
| `code_index` | every file of up to 3 entries of 4 bodies, cut at every byte; whole files with hollow entries | the index is sound and complete, and the scan ends |
| `code_search` | the same with 3 bodies, four codes; files with a hollow entry and the first byte of another one | the three searches find the first entry, list the names, panic only at a hollow entry whose made-up name is cut or wraps the end of a slice |
| `sing_reader` | 3 codes, 4 items of 2 to 5 bytes, 9 lengths of the file, every set of wanted codes in every order | reads are exact, the cursor comes home, nothing is lost |
| `geosite_extract` | 8 databases, 9 lists, all flags, all orders | each command gives what was asked for and fails only with a reason |
| `geoip_extract` | files of up to 3 of 4 entries, whole or cut in two ways, all flags, both modes | the same for geoip, and what becomes of an entry that is cut |
| `cli` | two invocations of any of 28 command lines, four texts or nine rule set files to begin with, lines of one and two characters, interrupted after any of them | the exit status tells the truth but for the errors and empty results the code drops; commands that are refused or report an error touch nothing; lines never merge, append keeps what there was (`ImplementsLog`); rule sets have the latest rules, in order |
| `library` | four kinds of matchers, 14 patterns and 14 texts; 20 texts of ranges, three at a time; 24 sources, three calls, six reads; 32 rule sets in three versions, cut anywhere, and six foreign files; 17 terms, three at a time, three signs | each package does what its definition says |
| `ac_substr` | as `library` | **violated**: a pattern inside another one is not found |
| `sing_regex` | as `sing_reader` | **violated**: `-regex` allows no regular expression |
| `geoip_strict` | as `geoip_extract`, low memory | **violated**: strict mode lets a missing code pass |
| `geoip_family` | as `geoip_extract`, in memory | **violated**: IPv4 ranges with only IPv6 enabled |
| `ruleset_readme` | one run of `RulesetFile` on nine old files | **violated**: append loses an old rule set that does not decode |

The runs that are violated state what a flag's description, a comment or the
README promises, and TLC finds a run of the code that does otherwise; `findings` in `PROJECT.json` has
the lines. The passing properties leave these cases out by name (for instance
`ExtractExact` of `GeoIPExtract` excepts IPv6-only output in memory).

**Bounds and why they are enough.** `Base` is 4 where the code has 128, so that
files of a few bytes have varints of one and of two bytes, and `HeaderLen` is 5
where it has 30, so that the read-ahead ends inside an entry, behind it, and
behind the file; the proofs need no bound. Three entries are a first, a middle
and a last one, with a name that is the beginning of another. In `SingReader`
one item of each type and a code without items are the cases `Read` tells
apart; in `GeositeExtract` the batch is 2 where the code has 20000, with codes
of three domains, so that there is a full and a partial batch, and a bad
pattern before and after a good one. Two lines, or a rule, per invocation and
two invocations are: write, be interrupted, go on from what is left; the files
they begin with stand for whatever earlier ones left (three invocations pass
as well, in a few minutes). In `Matchers` two patterns
(`MaxAdds`) are one inside the other, one a suffix of the other, or apart;
`Preloads` has a set of eight keys that fills more than one bucket of the hash
table and seeds above zero, and `MapOrders` looks at two orders of the
map, forward and back, with ties between buckets broken both ways. In
`CidrRanges` three ranges (`MaxTexts`) are: one to merge with, one behind it,
one of the other family; 16 addresses are enough for every shape of a split.
In `GeoIPEntry` an IPv4 address has 2 bits and a mapped one 3 before them:
what matters is that the mapped part (96) is longer than an address (32);
three calls (`MaxCalls`) are add, remove, add. In `SrsDuration` a word has 8
bits; units of 1, 10 and 12 are one whose digits are exact and others whose
limits do not divide 128 evenly, and `MCFloatTimes` is as far off as `Floats`
allows. Of the four seeds (`MaxSeed`) some tables find one and others do not.
`MaxLines`, `MaxInvocations` (`MaxRuns` of the writers), `MaxAdds`, two Builds,
`MaxTexts`, `MaxCalls` and `MaxTerms` are the only bounds that stand in
guards. `Forms`, `tail` and `cut`
are the ways a file can be damaged that the code tells apart.

**Exceptions the properties make.** `IsFile` leaves out files that no compiler
writes; the name of an entry has fewer than 128 bytes. What is read as the name
of a *hollow* entry (the entry without bytes that lenient `ToGeosite` writes for
a code that does not exist) are the first bytes of the next one. If that one is
cut, the scans that seek relatively go back by more than they have read and may
go round for ever: on such files (`NamesHold` is false) `CodeListByReader` and
`FindCodeByReader` really do not return, and `Terminates`, `IndexSound`,
`IndexComplete` and `FindsFirst` say so and leave them out. A name that is cut
gets an offset that is too small by what is missing of it (`ListedAs`); the
commands read what they read there, and the models of the commands, which take a
cut entry for one they cannot parse whole, assume a scan that has not gone
astray. `CodesAssumption` of `CodeSearch` says that nobody looks for what is
made up of the bytes that follow a hollow entry.

A geoip file that misses exactly its last byte parses, with a last range of
length 0, because the error of the short read is ignored (`dataReader.go:247`);
the model has it (`tail = "byte"`), `ToGeoIPExact` says what is then written, and
`ExtractExact` and `QXExact` except the commands that meet it: low memory mode,
and that last entry wanted (`Unnoticed`). `QXExact` has two surprises in it that
are the code's: a pass that fails gives nothing, and no error (`Excused`), and
the in-memory mode gives IPv4 ranges an ip6-cidr rule as well (`Stray`).
A lenient command on a cut sing-box database gives a part of what it should,
depending on the order of reading; `Partial` names it, and `ToGeositeExact` says
nothing of it.

`StatusTellsTruth` names what exits with 0 all the same: the usage errors of
`main`, a type that does not exist, a QuantumultX list that could not be
written, an error of the data or a missing code that the command drops (`Drops`:
`FindIP` and the geoip `ToQuantumultX` drop every one, `ToGeoIP` and the low
memory mode some), and an empty result where nobody makes an error of it.
`KeepsFiles` names the same commands: a list for QuantumultX, or a .dat file,
that is written for want of data is empty, and replaces what was there.

`MatchersExact` leaves out exact patterns that begin with a dot (the scan over a
text starts at its dots, so they match the end of one), and for a group that has
an automaton everything that is not exact for (`AutomatonExact`). A hash table
without exact patterns holds a spare key and matches it: the text "empty___"
(`SpareMatches`). `DeadOnlyByMisuse` names the hash that has no seed for a bucket.
`EntryExact` says that what is added after a set was built does not show, as
the code has it. `DurationExact` leaves out two terms (or a sum and a term) of
2^63 each, which wrap to a duration of zero, and lets a fraction be off by one
nanosecond, if its digits are finer than its unit.

**Deadlock** is not checked, as every command ends.

**Fairness.** Only the three scans have liveness properties: `FairSpec` asks
weak fairness of `Next` in `CodeIndex`, `CodeSearch` and `SingReader`. They are
loops of one thread without locks, channels or waiting, so that a step that is
enabled is taken; `Terminates` then says that no seek brings a scan back to
where it was, but on the files named above. The commands and the output have no liveness property: their
loops walk a finite map, and a run may be killed.

## Proofs

`CodeIndexProofs` proves `TypeOK`, `IndexSound` and `IndexComplete` of
`CodeIndex` for every `Base`, header length and set of files, and every length
of a file. The assumptions are `LayoutAssumption` (a digit counts at least two
values, the read-ahead is longer than a varint) and `FilesAssumption` (every
file is an `IsFile`); the two properties, and the invariant, are about files on which
no made-up name is cut (`NamesHold`). Neither property is inductive. The invariant `IInv` adds

* that the tracked position is the real one (`off = pos`): the offset that goes
  into the index is computed from the first, the bytes are read at the second;
* where the scan stands at each `pc`: at the start of an entry, behind the two
  bytes of its body, or behind its name, and that `bodyL` and `size` are of that
  entry, so that the relative seek ends at the start of the next one;
* that every sound entry before the scan is listed, under the last one of its
  name (`Listed`).

Each action has a lemma (`ReadHeaderInv`, `ReadNameInv`, …); `NextInv` puts
them together. The facts about the layout that they need, that consecutive
entries meet and that no name of a damaged entry hides a sound one, are
`FileFacts`, `VarintFacts` and `EntryFacts`.

`SingReaderProofs` proves `TypeOK`, `CursorHome` and `ReadExact` of
`SingReader` for every database that fulfils `DatabaseAssumption` (items one
after the other, the items of a code among them) and every set of lengths of
the file. The invariant ties `pos` to `Index(cur) + counter` while a code is
read, says that what was read so far are the code's own items from the first
on, and that the cursor is at home or behind the end between reads; without
the last part a read after a failed one could decode items of another code.

The same invariant says nothing of what is *not* read. `LosesNothing` (that
`NothingLost`) needs a second one on top of it, `Progress`: every wanted code is
read, being read or still to be read unless something failed, and on a whole
file the cursor is at home exactly, so that nothing can fail.

**Induction.** Lines of a file, the flags of a command line and the ranges that
pass a filter are recursive functions, and the library's induction theorem is
out of reach, since it has an operator as a parameter. `InductionFacts` proves
induction for a *set* of numbers instead (`LeastNumber`, as `<` is well-founded, then `Induction` and `InductionUpTo`), and
with it `RecursiveFunction`: a function that is given by its first value and by
a step, itself a function, exists and fulfils its equation. Every proof about a
recursive definition goes through these two. `SiftedFacts` and `FlatFacts` say
what `Sifted` and `Flat` keep, `FlatOfSifted` what becomes of one short
sequence per member when they are put one after the other.

`CliProofs` begins with the text writer. It proves `KeepsLinesApart` and the refinement
`ImplementsLineLog` for every alphabet, every set of lines and any number of
runs (`LinesAssumption`: a line is not empty and has no newline in it, no line of
the files there are is made of two). The invariant adds to `NoMergedLines` what a run
knows of the file at each `pc`: it is about to end a last line only if that is
open, and about to write only if it is not. Most of the work is what writing a
part of a text does to its lines (`LinesOfWritten`): some whole new ones and at
most one that is cut.

It goes on with `Cli` and proves `TypeOK`, `NoMergedLines`, `WritesItsRules`, `RulesInOrder`,
`StatusTellsTruth`, `KeepsFiles` and the refinement `ImplementsLog` of `Cli` for
every set of command lines. Its `IInv` has the invariant of the text
writer, that of the rule set writer (until it has written, the old
rules are what was written last, and what it is to write are the old ones, if
it keeps them, and its own) and `ProcessInv`: the files are as they were until
a writer has started, the writer is the one that the flags ask for, and how far
the lines are (`TextSoFar`). Without the last part an exit with 0 says nothing of
the file. `FlagsAssumption` says that a switch is on or off, and
`FilesAssumption` what may be in the files at first.

`CodeSearchProofs` proves the four invariants of `CodeSearch` for the same files
as `CodeIndexProofs`. `IInv` adds that a scan stands at an entry or past the end
(`Standing`), that a search has not passed an entry of its code (`NotPassed`),
and that `CodeList` has the names of the entries it has passed, each in its
place (`Lists`). What is known of a reader (`Standing`, `NotPassed`) is known as
long as it has not gone astray (`Astray`). `PanicsOnlyOnHollow` has to name every
way a made-up name can be wrong, since a sound entry has none of them: its name
is inside its body (`Framed`), and so short that no slice wraps.

`GeoIPExtractProofs` proves the five invariants of `GeoIPExtract` for every set
of files and of wanted codes. After some keys are visited the list has what these keys
account for, in whatever order they came: ranges (`Passing`), codes, each one once
(`Finding`), entries (`Gathering`); a pass that failed was `Excused`; and
`FirstPass` has what the first of the two passes of `ToQuantumultX` left, which
is gone from `list` when the second one ends. `FilesAssumption` says what a file
is; only a last entry that has ranges is cut.

`GeositeExtractProofs` proves the six invariants of `GeositeExtract` for every
set of databases and of lists, batches of any size and any set of patterns that
match. `InputsAssumption` says what a database is: its codes are in
`CodeOrder`, no two equal ones and none empty, its domains of the database's
own kind, and only a sing-box code that has domains can be cut; attributes are finitely many.
None of the properties says anything before the end, so that all the work is
in `IInv`, which says what holds after some codes were read, in whatever order:

* `Reading`: no code was passed over that the command should fail for, what
  was collected are entries of the database, and unless the output is `Partial`
  none is missing. With that, `AllExtracted` proves what the rules made of the
  entries are, once for all commands that filter them (`ItemsOfFacts`: the
  attributes of the last mention of a code, the fall-through of the switches).
* `Writing`: the entries of each code, in the order they have been read, are
  one or none, those without a code the hollow ones (`ToWrite`). As the stable
  sort puts the entries of a code behind those of the one before,
  `WrittenInOrder` follows from `FlatOfSifted`.
* `Looking`: the names so far are of visited codes that match, none twice, and
  of the codes without a bad pattern none is missing. It rests on `BatchFacts`
  and `MatchesSiteFacts`: that the last batch, full or not, holds the last domain, so
  that batches miss nothing.

The order of the names that `Lookup` gives one code is any (`SetToSeqs`); the
proof needs of it that it lists each once (`ListingFacts`).

`LibraryProofs` proves what `Library` says of its five parts, but for
`MatchersExact`. A step of another part leaves the variables of the one in
question alone (`EntryStays`, `RangesStay`, `DurationStays`, `SrsStays`,
`MatchersRest`), so that each has an invariant of its own.

* `EntryHasWhatWasAdded` (`EntryExact`), for addresses of any length and
  sources of every type. `EntryInv` adds what a builder has in it: the calls
  replayed up to now, unless a prefix that was no valid one has been noted (what
  a prefix means and what `processPrefix` and the builder make of it is
  `PrefixMeans`), and that the calls a set was built from are a prefix of the
  log, which later ones do not change.
* `MergedAndSplitExactly` (`RangesExact`), for addresses of any length, up to
  the last one. The numbers a network has are a block of a power of two; what
  is known of these (`StartFacts`, `AlignedApart`, `BlocksNest`) is proved
  first. `NetBitsFacts` is the heart of it: the network the split takes is the
  widest block that begins where the range does and is inside of it, although
  `addOne` overflows at the last address. `NoStraddle` is the part of the
  invariant that makes the networks as few as can be: no block that is inside
  the whole range reaches over the place the split has come to.

* `ParsedToWhatIsMeant` (`DurationExact`), for words of any size and units that
  leave room for a digit (`TermsAssumption`). `WholeFacts` and `FractionFacts`
  are by induction over the digits: `leadingInt` gives the value of all of them
  or there is more than half a word of it, `leadingFraction` the value of the
  first ones, and what it leaves out is less than one of the last digit it
  kept. `CutInUnits` turns this into less than one of the smallest unit, since
  no unit has as many as the digits kept (`h` is 3600000000000, 13 digits).
  `FloatFacts` says the same of any `FloatTimes` that `Floats` allows: it is
  exact, or off by one at most and never more than the unit. `DurationInv` says
  of the terms behind the loop that their sum is `d`, unless the text is one that
  wraps.

* `WrittenIsRead` (`RoundTrip`) and `CutIsRefused` (`CutRefused`), for rule sets
  of any number of rules that nest to any depth, and a write that stops after
  any token. `RulesAssumption` says that a rule is a default or a logical one,
  that a flag that is there is set, and that a file of somebody else begins with
  something the reader does not know. What is written is tokens at a place:
  `Part` says that the file has them there as far as it goes, `Complete` that it
  goes far enough, and `Reads` that reading from there gets the value and stops
  behind the last token if they are complete, and fails otherwise. `Reads` is
  proved of an item (`ItemRead`), the items of a rule (`ItemsReadSoFar`: what
  the items so far have put into the rule, while the rest of the loop can only
  get stuck), a default and a logical rule (`DefaultRead`, `LogicalRead`), and by
  induction over the depth of all rules (`RulesReadAll`). A reader nests as
  deep as the file is long, which is deep enough, because a rule inside of another
  one has fewer tokens. `SrsInv` (`FileState`) says that the file is not one of
  the program or a part of what `Written` has of the last rules. The recursive
  functions of the codec, and those of the matchers, are instances of one
  (`FirstOf`, `StepOf`), chosen by name, as a lemma cannot have the step as a
  parameter; `StepsTaken` says once that such a function is what its definition
  says.
* `NobodyDiesUnlessMisused` (`DeadOnlyByMisuse`), for patterns, texts and
  automata of any size. `PatternsAssumption` says that a pattern has a type and a
  text, and that those added beforehand compile and are in the automaton's table. That
  the first `Build` of an automaton ends is not obvious: it pops a queue until
  that is empty. `Halfway` is the invariant of this loop: every node that was
  popped or is in the queue is at the end of an edge of the trie that leaves the
  root or a node that was popped, nodes that were not popped have the
  edges they had, and none is there twice (`IsTrie`: no two edges lead to the same
  node). So every node is popped at most once, and after as many pops as there
  are nodes the queue is empty (`TrieIsBuilt`). A second `Build` finds edges that
  are not the trie's: it is one of the misuses. The search for seeds has no
  such argument: whether it ends is up to the hash, which may be any function,
  and the property says so. `MatchersInv` (`GroupOK`) says that
  the automaton of a group is a trie until it is built, and that every id that a
  group has is that of a pattern.
* `LibraryTyped` (`TypeOK`) collects what the five invariants say of types.

## Model-checked only

Liveness (`Terminates`) is out of the prover's reach. `MatchersExact` stays with
TLC: for the automaton it takes a theory of suffixes (what the fail links mean) and for
the hash tables that the seeds found separate the keys, neither of which
`MatchersInv` says.

## Not modelled, and why

* `geoip.pb.go`, `config.pb.go`: generated; `memory/`: sets a limit of the Go
  runtime; build files and workflows.
* `readMetadata` of the sing-box reader: only its result, the index.
* The JSON side of `srs/`: layout that reflection and badjson produce;
  `RulesetFile` uses that a decoder refuses a cut file and an unknown version.
  The bytes inside a token of the binary format, and the matchers of domains
  and sets of addresses it writes, which are library code, are values.
* `memhash` of the hash table: `StrHash` is any function of a text and a seed,
  so that a search for a seed may fail, too.
* The bits of a double in `ParseDuration`: `FloatTimes` is a constant that
  is off by less than a part of one.
* A panic of the program exits with a status the Go runtime chooses; `Cli` has
  the exits of the code. Where panics come from is in `CodeSearch`, `Matchers`
  and `CidrRanges`.

## Plan

Done, in this order, as the program is built on it: the scanners, the sing-box
reader, the commands, the output files, the command line that drives them, the
packages; then the proofs about these.
