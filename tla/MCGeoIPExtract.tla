---------------------------- MODULE MCGeoIPExtract ----------------------------
(***************************************************************************)
(* Files of up to three entries: a code with ranges of both families, one  *)
(* with one family, the same code twice, and an entry without ranges;      *)
(* whole or cut. The user may want codes that are there and one that is    *)
(* not; the addresses are in some of the ranges.                           *)
(***************************************************************************)
EXTENDS GeoIPExtract

R(fam, net) == [fam |-> fam, net |-> net, len |-> 8]

Entry(code, cidrs) == [code |-> code, cidrs |-> cidrs]

MCEntries == {Entry("cn", <<R(4, "n1"), R(6, "m1")>>), Entry("jp", <<R(6, "m2")>>),
              Entry("jp", <<R(4, "n2"), R(4, "n2")>>), Entry("zz", << >>)}

MCFiles ==
    {f \in [entries : UNION {[1 .. k -> MCEntries] : k \in 1 .. 3}, tail : Tails] :
        f.tail = "whole" \/ f.entries[Len(f.entries)].cidrs # << >>}

MCCodes == {"cn", "jp", "zz"}

MCNets == {"n1", "n2", "m1", "m2"}

MCWants == {{"cn"}, {"cn", "jp"}, {"jp", "xx"}, {"zz"}}

MCIPs == {[fam |-> 4, net |-> "n2"], [fam |-> 6, net |-> "m1"]}
=============================================================================
