------------------------------ MODULE DateTest ------------------------------
(***************************************************************************)
(* The date extension (RFC 5260): loadDateTest and loadCurrentDateTest of  *)
(* interp/load_date.go, then DateTest.Check and CurrentDateTest.Check with *)
(* parseZoneOffset and applyZone (unnamed/part_003).                       *)
(*                                                                         *)
(* One test is loaded from its arguments and, if the loader accepts it,    *)
(* evaluated once against the message's header values (date) or the       *)
(* current time (currentdate).                                             *)
(*                                                                         *)
(* A :zone argument is a sequence of characters, because parseZoneOffset   *)
(* works on its bytes.  A date is abstracted to what the date-parts read   *)
(* of it: a UTC day number, a UTC minute of the day and the offset it was  *)
(* written in.  parseDateHeader is abstracted to "a value parses or not".  *)
(***************************************************************************)
EXTENDS Integers, Sequences, SequencesExt, FiniteSets

CONSTANTS
  Zones,        \* :zone arguments, each a sequence of one-character strings
  PartArgs,     \* date-part arguments as written, before strings.ToLower
  ToLower(_),   \* strings.ToLower on PartArgs
  Dates,        \* parseable dates: [ok |-> TRUE, day, min, off (seconds)]
  Headers,      \* header value lists HeaderGet can return
  Keys,         \* date-part values a key may hold
  MaxCount,     \* the largest :count key
  MaxIndex,     \* the largest :index argument
  LocalOffset   \* the host's zone (t.Local()), in seconds

\* ValidDateParts
ValidDateParts ==
  {"year", "month", "day", "date", "julian", "hour", "minute", "second",
   "time", "iso8601", "std11", "zone", "weekday"}

\* a header value parseDateHeader rejects
Bad == [ok |-> FALSE, day |-> 0, min |-> 0, off |-> 0]

DigitChars == <<"0", "1", "2", "3", "4", "5", "6", "7", "8", "9">>
IsDigit(c) == \E i \in 1..10 : DigitChars[i] = c
DigitVal(c) == CHOOSE d \in 0..9 : DigitChars[d + 1] = c

\* strconv.Atoi: an optional sign, then at least one decimal digit
AtoiStart(s) == IF Len(s) > 0 /\ s[1] \in {"+", "-"} THEN 2 ELSE 1
AtoiOK(s) ==
  /\ AtoiStart(s) <= Len(s)
  /\ \A i \in AtoiStart(s)..Len(s) : IsDigit(s[i])
AtoiVal(s) ==
  LET mag[i \in AtoiStart(s) - 1..Len(s)] ==
        IF i = AtoiStart(s) - 1 THEN 0 ELSE 10 * mag[i - 1] + DigitVal(s[i])
  IN  IF s[1] = "-" THEN -mag[Len(s)] ELSE mag[Len(s)]

\* mutant: the sign of the zone ignored
ParseZoneOffsetNoSign(z) ==
  LET hh == SubSeq(z, 2, 3)
      mm == SubSeq(z, 4, 5)
  IN  [ok   |-> Len(z) = 5 /\ z[1] \in {"+", "-"} /\ AtoiOK(hh) /\ AtoiOK(mm),
       secs |-> IF Len(z) = 5 /\ AtoiOK(hh) /\ AtoiOK(mm)
                THEN AtoiVal(hh) * 3600 + AtoiVal(mm) * 60 ELSE 0]

\* parseZoneOffset: ok is FALSE where it returns an error
ParseZoneOffset(z) ==
  LET hh == SubSeq(z, 2, 3)
      mm == SubSeq(z, 4, 5)
      sign == IF Len(z) > 0 /\ z[1] = "-" THEN -1 ELSE 1
  IN  [ok   |-> Len(z) = 5 /\ z[1] \in {"+", "-"} /\ AtoiOK(hh) /\ AtoiOK(mm),
       secs |-> IF Len(z) = 5 /\ AtoiOK(hh) /\ AtoiOK(mm)
                THEN sign * (AtoiVal(hh) * 3600 + AtoiVal(mm) * 60) ELSE 0]

\* extractDatePart on t shown in the zone off (t.In(FixedZone("", off))):
\* the day parts read the local day, the time parts the local minute.
ExtractDatePart(t, off, part) ==
  LET local == t.day * 1440 + t.min + off \div 60 IN
  CASE part \in {"year", "month", "day", "date", "julian", "weekday"}
                                  -> <<part, local \div 1440>>
    [] part = "hour"              -> <<part, (local % 1440) \div 60>>
    [] part = "minute"            -> <<part, local % 60>>
    [] part \in {"second", "time"} -> <<part, local % 1440>>
    [] part = "zone"              -> <<part, off>>
    [] OTHER                      -> <<part, local, off>>

\* the arguments a date or currentdate test can be written with
Args ==
  [kind: {"date", "currentdate"}, req: SUBSET {"date", "index"},
   zone: {{}} \cup {{z} : z \in Zones}, orig: BOOLEAN,
   index: 0..MaxIndex, last: BOOLEAN, part: PartArgs,
   count: BOOLEAN, key: Keys, countKey: 0..MaxCount]

VARIABLES
  args,    \* the test as written
  values,  \* the header values HeaderGet returns
  now,     \* what time.Now() returns
  status,  \* "written", "rejected" (load error), "loaded", "done"
  test,    \* the loaded DateTest / CurrentDateTest
  result   \* what Check returned: "true", "false" or "error"

vars == <<args, values, now, status, test, result>>

Init ==
  /\ args \in {a \in Args : a.kind = "currentdate" => ~a.orig /\ a.index = 0 /\ ~a.last}
  /\ values \in IF args.kind = "date" THEN Headers ELSE {<<>>}
  /\ now \in IF args.kind = "currentdate" THEN Dates ELSE {Bad}
  /\ status = "written"
  /\ test = [zone |-> <<>>, orig |-> FALSE, index |-> 0, last |-> FALSE,
             part |-> "", count |-> FALSE, key |-> CHOOSE k \in Keys : TRUE,
             countKey |-> 0]
  /\ result = "none"

\* the :zone a test is written with, <<>> when there is none
ZoneArg(a) == IF a.zone = {} THEN <<>> ELSE CHOOSE z \in a.zone : TRUE

\* the DateTest / CurrentDateTest the loaders' spec tags fill in
Loaded(a) ==
  [zone |-> ZoneArg(a), orig |-> a.orig, index |-> a.index, last |-> a.last,
   part |-> ToLower(a.part), count |-> a.count, key |-> a.key,
   countKey |-> a.countKey]

\* mutant: the date-part not validated
DateLoadErrorNoPartCheck(a) ==
  \/ "date" \notin a.req
  \/ Cardinality(a.zone) + (IF a.orig THEN 1 ELSE 0) > 1
  \/ ZoneArg(a) # <<>> /\ ~ParseZoneOffset(ZoneArg(a)).ok
  \/ a.last /\ a.index = 0
  \/ a.index > 0 /\ "index" \notin a.req

\* loadDateTest's checks after LoadSpec, each an error return
DateLoadError(a) ==
  \/ "date" \notin a.req
  \/ Cardinality(a.zone) + (IF a.orig THEN 1 ELSE 0) > 1   \* zoneCnt
  \/ ZoneArg(a) # <<>> /\ ~ParseZoneOffset(ZoneArg(a)).ok
  \/ ToLower(a.part) \notin ValidDateParts
  \/ a.last /\ a.index = 0
  \/ a.index > 0 /\ "index" \notin a.req

\* loadCurrentDateTest's checks
CurrentDateLoadError(a) ==
  \/ "date" \notin a.req
  \/ ZoneArg(a) # <<>> /\ ~ParseZoneOffset(ZoneArg(a)).ok
  \/ ToLower(a.part) \notin ValidDateParts

\* a loader returns the test, or an error and no test
LoadWith(err) ==
  /\ status = "written"
  /\ status' = IF err THEN "rejected" ELSE "loaded"
  /\ test' = IF err THEN test ELSE Loaded(args)
  /\ UNCHANGED <<args, values, now, result>>

\* loadDateTest
LoadDate == args.kind = "date" /\ LoadWith(DateLoadError(args))

\* loadCurrentDateTest
LoadCurrentDate ==
  args.kind = "currentdate" /\ LoadWith(CurrentDateLoadError(args))

\* applyZone: the offset t is shown in
ApplyZone(d, t) ==
  IF d.orig THEN t.off
  ELSE IF d.zone # <<>> /\ ParseZoneOffset(d.zone).ok
       THEN ParseZoneOffset(d.zone).secs
       ELSE LocalOffset

Select(d, vs) ==
  IF d.index = 0 THEN 1
  ELSE IF d.last THEN Len(vs) - d.index + 1 ELSE d.index

\* the date-part of t in zone off against the key (the :is match)
PartResult(d, t, off) ==
  IF d.part \notin ValidDateParts THEN "error"
  ELSE IF ExtractDatePart(t, off, d.part) = d.key THEN "true" ELSE "false"

\* DateTest.Check
CheckDate ==
  LET d == test
      vs == values
      i == Select(d, vs)
      t == vs[i]
  IN
  /\ status = "loaded"
  /\ args.kind = "date"
  /\ status' = "done"
  /\ result' =
       CASE d.count ->
              IF Cardinality({j \in 1..Len(vs) : vs[j].ok}) = d.countKey
              THEN "true" ELSE "false"
         [] vs = <<>> \/ i \notin 1..Len(vs) \/ ~t.ok -> "false"
         [] OTHER -> PartResult(d, t, ApplyZone(d, t))
  /\ UNCHANGED <<args, values, now, test>>

\* CurrentDateTest.Check: time.Now(), in :zone if it parses, else local
CheckCurrentDate ==
  LET d == test
      off == IF d.zone # <<>> /\ ParseZoneOffset(d.zone).ok
             THEN ParseZoneOffset(d.zone).secs ELSE LocalOffset
  IN
  /\ status = "loaded"
  /\ args.kind = "currentdate"
  /\ status' = "done"
  /\ result' = PartResult(d, now, off)
  /\ UNCHANGED <<args, values, now, test>>

Next == LoadDate \/ LoadCurrentDate \/ CheckDate \/ CheckCurrentDate

Spec == Init /\ [][Next]_vars

-----------------------------------------------------------------------------

TypeOK ==
  /\ args \in Args
  /\ values \in Headers
  /\ test \in [zone: Zones \cup {<<>>}, orig: BOOLEAN, index: 0..MaxIndex,
               last: BOOLEAN, part: ValidDateParts \cup {""}, count: BOOLEAN,
               key: Keys, countKey: 0..MaxCount]
  /\ now \in Dates \cup {Bad}
  /\ status \in {"written", "rejected", "loaded", "done"}
  /\ result \in {"none", "true", "false", "error"}

\* RFC 5260: time-zone = ( "+" / "-" ) 4DIGIT, read as +hhmm / -hhmm
RFCZone(z) ==
  Len(z) = 5 /\ z[1] \in {"+", "-"} /\ \A i \in 2..5 : IsDigit(z[i])
RFCOffset(z) ==
  (IF z[1] = "-" THEN -1 ELSE 1)
    * ((10 * DigitVal(z[2]) + DigitVal(z[3])) * 3600
       + (10 * DigitVal(z[4]) + DigitVal(z[5])) * 60)

\* RFC 5260: the zone a date-part is read in
RefZone(d, t) ==
  CASE d.orig         -> t.off
    [] d.zone # <<>>  -> RFCOffset(d.zone)
    [] OTHER          -> LocalOffset

\* RFC 5260 with the index extension (RFC 5260 6): the N-th occurrence of
\* the header, counted from the end with :last; the first without :index
RefResult(d) ==
  LET order == IF d.last THEN Reverse(values) ELSE values
      n == IF d.index = 0 THEN 1 ELSE d.index
      t == IF args.kind = "currentdate" THEN now ELSE order[n]
  IN  CASE args.kind = "date" /\ d.count ->
             IF Cardinality({j \in DOMAIN values : values[j].ok}) = d.countKey
             THEN "true" ELSE "false"
        [] args.kind = "date" /\ (n > Len(order) \/ ~order[n].ok) -> "false"
        [] OTHER ->
             IF ExtractDatePart(t, RefZone(d, t), d.part) = d.key
             THEN "true" ELSE "false"

=============================================================================
