---------------------------- MODULE MC_DateTest ----------------------------
EXTENDS DateTest

\* +0100, -0100, +-100 (a sign where an hour digit belongs), "" and +5
MCZones ==
  { <<"+", "0", "1", "0", "0">>, <<"-", "0", "1", "0", "0">>,
    <<"+", "-", "1", "0", "0">>, <<>>, <<"+", "5">> }

MCToLower(p) == IF p = "HOUR" THEN "hour" ELSE p

\* 23:30 UTC written in UTC, and 00:30 UTC written at -0100
MCDates ==
  { [ok |-> TRUE, day |-> 0, min |-> 1410, off |-> 0],
    [ok |-> TRUE, day |-> 1, min |-> 30, off |-> -3600] }

MCHeaders == {<<>>} \cup {<<v>> : v \in MCDates \cup {Bad}}
             \cup {<<v, w>> : v, w \in MCDates \cup {Bad}}

MCKeys == { <<"date", 1>>, <<"hour", 23>>, <<"hour", 0>> }
=============================================================================
