-------------------------------- MODULE MCCli --------------------------------
(***************************************************************************)
(* Two invocations, each of any of these command lines: every command with *)
(* and without -output, -append before and after a flag that is mistyped,  *)
(* -strict and -lowmem off, and every usage error. The text file is empty, *)
(* or holds a line, ended or not; the rule set file has every form.        *)
(***************************************************************************)
EXTENDS Cli

F(name, value) == <<[name |-> name, value |-> value]>>

In == F("input", TRUE)

Out == F("output", TRUE)

Convert(type, fmt) == F("action", "convert") \o In \o F("list", TRUE)
                      \o F("type", type) \o F("format", fmt)

MCCommandLines ==
    LET app == F("append", TRUE)
        bad == F("apend", TRUE)
        extract == In \o F("list", TRUE)
    IN  {F("version", TRUE), << >>, In, F("action", "convert") \o In,
         F("action", "lookup") \o In, F("action", "dump") \o In,
         In \o F("type", "asn"), extract \o F("type", "asn") \o Out,
         F("action", "lookup") \o In \o F("value", TRUE),
         F("action", "lookup") \o In \o F("value", TRUE) \o F("type", "geosite"),
         extract, extract \o Out, extract \o Out \o app, extract \o Out \o bad \o app,
         extract \o Out \o F("lowmem", FALSE),
         extract \o F("type", "geosite") \o Out \o F("strict", FALSE),
         Convert("geoip", "qx") \o Out \o F("ipv6", FALSE), Convert("geoip", "qx"),
         Convert("geoip", "geoip") \o Out,
         Convert("geosite", "qx") \o Out, Convert("geosite", "qx") \o Out \o app,
         Convert("geoip", "json") \o Out \o app, Convert("geoip", "json") \o Out,
         Convert("geosite", "srs") \o Out \o app, Convert("geosite", "ruleset"),
         Convert("geosite", "geosite") \o Out, Convert("geoip", "geoip"),
         Convert("geosite", "geoip") \o Out}

MCLines == {<<"a">>, <<"b", "c">>}

MCTextContents == {<< >>, <<"a">>, <<"b", "c", "nl", "a">>, <<"a", "nl">>}

MCRuleContents ==
    [form : {"absent", "empty", "partial"}, rules : {<< >>}]
    \cup [form : {"json", "foreign", "binary"}, rules : {<<"r1">>, <<"r1", "r2">>}]
=============================================================================
