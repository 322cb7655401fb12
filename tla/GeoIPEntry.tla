----------------------------- MODULE GeoIPEntry -----------------------------
(***************************************************************************)
(* The type Entry of src/geoip/entry.go: prefixes of many Go types are     *)
(* added to and removed from a builder for each family, and read as sets,  *)
(* which are built on the first read and kept. The builders and the parsers *)
(* are library code; of an address its family is kept and its last bits.   *)
(***************************************************************************)
EXTENDS Integers, Sequences, FiniteSetsExt

CONSTANTS
    Sources,    \* what AddPrefix is given
    Texts,      \* what RemovePrefix is given: strings among them
    Options,    \* sequences of options of the Marshal functions
    W4,         \* the bits of an IPv4 address
    Mapped,     \* and those before it when it is mapped to IPv6
    MaxCalls    \* bound: how many prefixes are added or removed

Families == {"4", "6"}

Width(f) == IF f = "4" THEN W4 ELSE Mapped + W4

Unmap(f) == IF f = "4in6" THEN "4" ELSE f

(* A source has a Go type and an address of a family, "none" for a value   *)
(* that is no address, and the length of its prefix; a string also says    *)
(* whether it is a CIDR, an address, or only a comment.                    *)
GoTypes == {"net.IP", "*net.IPNet", "netip.Addr", "*netip.Addr", "netip.Prefix",
            "*netip.Prefix", "string", "other"}

(* What comes as a net.IPNet, or is parsed to one. *)
HasMask(s) == s.type = "*net.IPNet" \/ (s.type = "string" /\ s.form = "cidr")

(* The bits of a mask are its leading ones. That of a net.IPNet is for an  *)
(* IPv4 or an IPv6 address, whichever it comes with; one with ones behind  *)
(* a zero, or of another length, is refused, and stands for no address     *)
(* here. A string has no more bits than its address.                       *)
SourcesAssumption ==
    /\ W4 \in Nat /\ Mapped \in Nat /\ W4 < Mapped
    /\ \A s \in Sources \cup Texts :
        /\ s.type \in GoTypes
        /\ s.family \in {"4", "4in6", "6", "none"}
        /\ s.type = "string" => s.form \in {"cidr", "address", "comment"}
        /\ s.bits \in Int
        /\ s.family # "none" => s.addr \in 0 .. 2 ^ Width(Unmap(s.family)) - 1
        /\ HasMask(s) => s.bits \in 0 .. Width("6")
        /\ HasMask(s) /\ s.type = "string" /\ s.family \in Families =>
             s.bits <= Width(s.family)

VARIABLES
    builder,    \* IPv4Builder, IPv6Builder: none, or [in, errs]
    set,        \* IPv4Set, IPv6Set: none, or a set of addresses
    log,        \* the calls that returned no error: [op, source]
    seen,       \* how much of it a set had when it was built
    answer      \* of the last read

vars == <<builder, set, log, seen, answer>>

None == << >>

-----------------------------------------------------------------------------
Error(e) == [error |-> e]

(* A prefix of more bits than its family has is no valid one, and has no   *)
(* addresses.                                                              *)
Pfx(f, addr, bits) == [error |-> "no", family |-> f, addr |-> addr, bits |-> bits]

Valid(p) == p.bits \in 0 .. Width(p.family)

Block(f, addr, bits) ==
    LET size == 2 ^ (Width(f) - bits)
    IN  {a \in 0 .. 2 ^ Width(f) - 1 : a \div size = addr \div size}

Host(s, e) ==
    IF s.family = "none" THEN Error(e)
    ELSE Pfx(Unmap(s.family), s.addr, Width(Unmap(s.family)))

OfIP(s) == Host(s, "invalid IP address")

OfAddr(s) == Host(s, "invalid IP address length")

(* netipx.FromStdIPNet unmaps the address, not the mask, and does not      *)
(* compare their lengths: its bits are those of the unmapped address.      *)
OfIPNet(s) ==
    IF s.family = "none" THEN Error("invalid IPNet address")
    ELSE Pfx(Unmap(s.family), s.addr, s.bits)

BitsUnmapped(s) == IF s.family = "4in6" THEN s.bits - Mapped ELSE s.bits

OfPrefix(s) ==
    IF s.family = "none" THEN Error("invalid IP address length")
    ELSE IF s.family = "4in6" /\ s.bits < Mapped THEN Error("invalid prefix")
    ELSE IF BitsUnmapped(s) \notin 0 .. Width(Unmap(s.family)) THEN Error("invalid prefix")
    ELSE Pfx(Unmap(s.family), s.addr, BitsUnmapped(s))

(* A CIDR of a mapped address is refused if its network is no IPv4 network, *)
(* and else goes the way of an IPNet.                                      *)
OfString(s) ==
    CASE s.form = "comment" -> Error("comment line")
      [] s.form = "cidr" ->
           IF s.family = "none" \/ (s.family = "4in6" /\ s.bits < Mapped)
           THEN Error("invalid CIDR") ELSE OfIPNet(s)
      [] s.form = "address" -> Host(s, "invalid IP address")

processPrefix(s) ==
    CASE s.type = "net.IP" -> OfIP(s)
      [] s.type = "*net.IPNet" -> OfIPNet(s)
      [] s.type \in {"netip.Addr", "*netip.Addr"} -> OfAddr(s)
      [] s.type \in {"netip.Prefix", "*netip.Prefix"} -> OfPrefix(s)
      [] s.type = "string" -> OfString(s)
      [] OTHER -> Error("invalid prefix type")

-----------------------------------------------------------------------------
NoAnswer == [error |-> "not read", of |-> {}, addresses |-> {}]

(* NewEntry *)
Init ==
    /\ builder = [f \in Families |-> None]
    /\ set = [f \in Families |-> None]
    /\ log = << >>
    /\ seen = [f \in Families |-> 0]
    /\ answer = NoAnswer

(* netipx.IPSetBuilder: a prefix without addresses is noted as an error.   *)
Added(b, p) ==
    IF Valid(p) THEN [b EXCEPT !.in = @ \cup Block(p.family, p.addr, p.bits)]
    ELSE [b EXCEPT !.errs = TRUE]

Removed(b, p) ==
    IF Valid(p) THEN [b EXCEPT !.in = @ \ Block(p.family, p.addr, p.bits)]
    ELSE [b EXCEPT !.errs = TRUE]

NewBuilder == [in |-> {}, errs |-> FALSE]

add(p) ==
    builder' = [builder EXCEPT ![p.family] =
                  <<Added(IF @ = None THEN NewBuilder ELSE @[1], p)>>]

remove(p) ==
    builder' = [builder EXCEPT ![p.family] =
                  IF @ = None THEN None ELSE <<Removed(@[1], p)>>]

(* An error of processPrefix is returned; a comment line is let pass, but  *)
(* has no type, for which add and remove return an error. *)
AddPrefix(s) ==
    /\ Len(log) < MaxCalls
    /\ LET p == processPrefix(s)
       IN  IF p.error # "no" THEN UNCHANGED <<builder, log>>
           ELSE add(p) /\ log' = Append(log, [op |-> "add", source |-> s])
    /\ answer' = NoAnswer
    /\ UNCHANGED <<set, seen>>

RemovePrefix(s) ==
    /\ Len(log) < MaxCalls
    /\ LET p == processPrefix(s)
       IN  IF p.error # "no" THEN UNCHANGED <<builder, log>>
           ELSE remove(p) /\ log' = Append(log, [op |-> "remove", source |-> s])
    /\ answer' = NoAnswer
    /\ UNCHANGED <<set, seen>>

(* buildIPSet: of each family that has a builder and no set, IPv4 first.   *)
(* The slip builds anew on every read. IPSet returns the errors a builder  *)
(* noted, and may then forget them.                                        *)
EveryTime(f) == builder[f] # None

ToBuild(f) == builder[f] # None /\ set[f] = None

Broken(f) == ToBuild(f) /\ builder[f][1].errs

Forgets(f) ==
    builder' \in {builder, [builder EXCEPT ![f] = <<[@[1] EXCEPT !.errs = FALSE]>>]}

Build(fs) ==
    /\ set' = [f \in Families |->
                 IF f \in fs /\ ToBuild(f) THEN <<builder[f][1].in>> ELSE set[f]]
    /\ seen' = [f \in Families |->
                  IF f \in fs /\ ToBuild(f) /\ set[f] = None THEN Len(log) ELSE seen[f]]

buildIPSet ==
    IF Broken("4") THEN Forgets("4") /\ UNCHANGED <<set, seen>>
    ELSE IF Broken("6") THEN Forgets("6") /\ Build({"4"})
    ELSE UNCHANGED builder /\ Build(Families)

BuildFails == Broken("4") \/ Broken("6")

(* What is read of the families in fs, once built, and the error if they   *)
(* have not what is needed: GetIPv4Set and GetIPv6Set need a set, which    *)
(* may be empty, the Marshal functions an address.                         *)
Lack(error, fs, out) ==
    IF error = "no set" THEN \A f \in fs : set'[f] = None ELSE out = {}

Read(fs, error) ==
    /\ buildIPSet
    /\ LET out == UNION {{<<f, a>> : a \in set'[f][1]} : f \in {g \in fs : set'[g] # None}}
           Says(e) == [error |-> e, of |-> fs, addresses |-> IF e = "no" THEN out ELSE {}]
       IN  answer' = Says(IF BuildFails THEN "build"
                          ELSE IF Lack(error, fs, out) THEN error ELSE "no")
    /\ UNCHANGED log

(* The last option that is not nil is the one that counts. *)
Ignored(opts) ==
    LET given == {k \in DOMAIN opts : opts[k] # "nil"}
    IN  IF given = {} THEN "none" ELSE opts[Max(given)]

(* MarshalPrefix, MarshalIPRange and MarshalText put out the same addresses. *)
Marshal(opts) ==
    Read(Families \ {Ignored(opts)}, "no prefix")

(* GetIPv4Set, GetIPv6Set *)
GetSet(f) == Read({f}, "no set")

Next ==
    \/ \E s \in Sources : AddPrefix(s)
    \/ \E s \in Texts : RemovePrefix(s)
    \/ \E f \in Families : GetSet(f)
    \/ \E opts \in Options : Marshal(opts)

Spec == Init /\ [][Next]_vars

-----------------------------------------------------------------------------
(* Types of the builders and the sets. *)
TypeOK ==
    /\ \A f \in Families :
         /\ builder[f] # None => builder[f][1].in \subseteq 0 .. 2 ^ Width(f) - 1
         /\ set[f] # None => builder[f] # None /\ set[f][1] \subseteq 0 .. 2 ^ Width(f) - 1
    /\ log \in Seq([op : {"add", "remove"}, source : Sources \cup Texts])
    /\ seen \in [Families -> 0 .. Len(log)]

(* What a source means: an address for itself, a prefix for the addresses  *)
(* that share its bits; mapped ones for IPv4 addresses. A network with a   *)
(* mask is taken for as many bits of the unmapped address as its mask has  *)
(* ones, also if the mask is one of the mapped address, and for nothing if *)
(* the address has not so many.                                            *)
Meant(s) ==
    LET f == IF s.family = "4in6" THEN "4" ELSE s.family
        alone == s.type \in {"net.IP", "netip.Addr", "*netip.Addr"}
                 \/ (s.type = "string" /\ s.form = "address")
        known == s.type \in {"netip.Prefix", "*netip.Prefix"}
        bits == IF s.family = "4in6" THEN s.bits - Mapped ELSE s.bits
    IN  [family |-> f, addresses |->
            IF alone THEN {s.addr}
            ELSE IF known THEN Block(f, s.addr, bits)
            ELSE IF s.bits > Width(f) THEN {} ELSE Block(f, s.addr, s.bits)]

(* The first n calls replayed on a set of addresses. *)
Replay(call, f, have) ==
    LET m == Meant(call.source)
    IN  IF m.family # f THEN have
        ELSE IF call.op = "add" THEN have \cup m.addresses
        ELSE have \ m.addresses

Replayed(calls, n, f) ==
    LET upTo[k \in 0 .. Len(calls)] ==
          IF k = 0 THEN {} ELSE Replay(calls[k], f, upTo[k - 1])
    IN  upTo[n]

(* The sets of an entry are what was added and not removed again, in the   *)
(* order of the calls, up to the first read that built them: what comes    *)
(* later does not show. What is read are these sets, without a family that *)
(* the options leave out. (AddPrefix, RemovePrefix, buildIPSet, Marshal)   *)
EntryExact ==
    LET Frozen(f) == Replayed(log, seen[f], f)
        read == UNION {{<<f, a>> : a \in Frozen(f)} : f \in answer.of}
    IN  /\ \A f \in Families : set[f] # None => set[f][1] = Frozen(f)
        /\ answer.error = "no" => answer.addresses = read
        /\ answer.error \in {"no set", "no prefix"} => read = {}
=============================================================================
