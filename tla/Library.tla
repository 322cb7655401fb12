------------------------------- MODULE Library -------------------------------
(***************************************************************************)
(* The packages of the program that work by themselves: the matchers of    *)
(* domains (Matchers), the ranges of addresses (CidrRanges), the entries   *)
(* of addresses (GeoIPEntry), the binary rule sets (SrsCodec) and the      *)
(* durations (SrsDuration). They share nothing; a behaviour is one of a    *)
(* single part, the others rest.                                           *)
(***************************************************************************)
EXTENDS Naturals, FiniteSets

CONSTANTS
    Kinds, Patterns, Preloads, Queries, MaxAdds, RegexFinds,        \* of Matchers
    CharCode, HashPrime, HashModulus, StrHash(_, _), MaxSeed, MapOrders(_),
    Bits, Ranges, MaxTexts,                                         \* of CidrRanges
    Sources, Texts, Options, W4, Mapped, MaxCalls,                  \* of GeoIPEntry
    Rules, MaxDepth, RuleSets, Covers, Foreign,                     \* of SrsCodec
    WordSize, Base, Units, Signs, Terms, MaxTerms,                  \* of SrsDuration
    FloatTimes(_, _, _), Precision

VARIABLES
    part,       \* whose behaviour this is
    kind, group, added, builds, stale, answer, state,
    texts, wrappers, ranges, now, merged, outputType, rest, result, phase,
    builder, set, log, seen, read,
    rules, version, file, ended, back, recover, pc,
    sign, orig, todo, d, parsed

matchers == <<kind, group, added, builds, stale, answer, state>>

cidrs == <<texts, wrappers, ranges, now, merged, outputType, rest, result, phase>>

entry == <<builder, set, log, seen, read>>

codec == <<rules, version, file, ended, back, recover, pc>>

duration == <<sign, orig, todo, d, parsed>>

vars == <<part, matchers, cidrs, entry, codec, duration>>

M == INSTANCE Matchers

C == INSTANCE CidrRanges WITH Texts <- Ranges, pc <- phase

E == INSTANCE GeoIPEntry WITH answer <- read

S == INSTANCE SrsCodec

D == INSTANCE SrsDuration

ASSUME BoundsAssumption ==
    /\ M!PatternsAssumption /\ C!WidthsAssumption /\ E!SourcesAssumption
    /\ S!RulesAssumption /\ D!TermsAssumption

Parts == {"matchers", "cidr", "entry", "srs", "duration"}

Init ==
    /\ part \in Parts
    /\ M!Init /\ (part # "matchers" => added = << >> /\ kind = CHOOSE k \in Kinds : TRUE)
    /\ C!Init
    /\ E!Init
    /\ S!Init /\ (part # "srs" => file = << >>)
    /\ D!Init /\ (part # "duration" => orig = << >> /\ sign = CHOOSE s \in Signs : TRUE)

MatchersStep ==
    part = "matchers" /\ M!Next /\ UNCHANGED <<part, cidrs, entry, codec, duration>>

CidrStep ==
    part = "cidr" /\ C!Next /\ UNCHANGED <<part, matchers, entry, codec, duration>>

EntryStep ==
    part = "entry" /\ E!Next /\ UNCHANGED <<part, matchers, cidrs, codec, duration>>

SrsStep ==
    part = "srs" /\ S!Next /\ UNCHANGED <<part, matchers, cidrs, entry, duration>>

DurationStep ==
    part = "duration" /\ D!Next /\ UNCHANGED <<part, matchers, cidrs, entry, codec>>

Next == MatchersStep \/ CidrStep \/ EntryStep \/ SrsStep \/ DurationStep

Spec == Init /\ [][Next]_vars

-----------------------------------------------------------------------------
(* Types of the five parts; that of CidrRanges says that it never panics.  *)
TypeOK ==
    part \in Parts /\ M!TypeOK /\ C!TypeOK /\ E!TypeOK /\ S!TypeOK /\ D!TypeOK

(* Match of a group of matchers gives what the single matchers give, but   *)
(* for the patterns and texts that Matchers names. (AddPattern and Match   *)
(* of the four groups)                                                     *)
MatchersExact == M!MatchersExact

(* No sequence of AddPattern, Build and Match panics or hangs, unless it   *)
(* is one of the misuses that Matchers names, or the hash has no seed for  *)
(* a bucket.                                                               *)
DeadOnlyByMisuse == M!DeadOnlyByMisuse

(* A text that contains a substr pattern of a built MphMatcherGroup is     *)
(* matched, as strmatcher.go:20 says. (ACAutomaton.Build and Match)        *)
SubstrFound == M!SubstrFound

(* Merged and split ranges have the addresses they are made of, and are as *)
(* few as can be, up to the last address. (SortAndMerge, ToIpNets)         *)
RangesExact == C!RangesExact

(* What is read of an Entry is what was added to it and not removed up to  *)
(* the read that built its sets. (AddPrefix, RemovePrefix, buildIPSet)     *)
EntryExact == E!EntryExact

(* What Write puts out Read gets back, in each version of the format.      *)
(* (srs/binary.go)                                                         *)
RoundTrip == S!RoundTrip

(* What is left of an interrupted or refused Write is never read as a rule *)
(* set with fewer rules. (srs/binary.go)                                   *)
CutRefused == S!CutRefused

(* A duration is the sum its text says, but for one in each fraction that  *)
(* is finer than its unit, or an error if there is no such duration; two   *)
(* terms of 2^63 apart. (ParseDuration)                                    *)
DurationExact == D!DurationExact
=============================================================================
