----------------------------- MODULE JulianDay -----------------------------
(***************************************************************************)
(* modifiedJulianDay (unnamed/part_003), the "julian" date-part of the     *)
(* date extension, checked against the calendar itself.                    *)
(*                                                                         *)
(* The reference is a walk over the proleptic Gregorian calendar Go's time *)
(* package uses: starting at 17 November 1858, MJD 0, each step moves one  *)
(* day forward or back and counts it.  modifiedJulianDay, evaluated on the *)
(* date reached, must give the count.                                      *)
(***************************************************************************)
EXTENDS Integers

CONSTANTS
  MinYear, MaxYear   \* the walk stays within these years

\* Go's integer division, truncated toward zero (b > 0)
Quo(a, b) == IF a >= 0 THEN a \div b ELSE -((-a) \div b)

\* mutant: the month term rounded one off, (153m+3)/5 for (153m+2)/5
ModifiedJulianDayMonthSlip(year, month, day) ==
  LET a == Quo(14 - month, 12)
      y == year + 4800 - a
      m == month + 12 * a - 3
  IN  day + Quo(153 * m + 3, 5) + 365 * y + Quo(y, 4) - Quo(y, 100)
        + Quo(y, 400) - 32045 - 2400001

\* modifiedJulianDay: the Julian Day Number of the date, minus 2400001
ModifiedJulianDay(year, month, day) ==
  LET a == Quo(14 - month, 12)
      y == year + 4800 - a
      m == month + 12 * a - 3
      jdn == day + Quo(153 * m + 2, 5) + 365 * y + Quo(y, 4) - Quo(y, 100)
               + Quo(y, 400) - 32045
  IN  jdn - 2400001

\* the Gregorian calendar
Leap(y) == (y % 4 = 0 /\ y % 100 # 0) \/ y % 400 = 0
DaysIn(y, m) ==
  CASE m = 2               -> IF Leap(y) THEN 29 ELSE 28
    [] m \in {4, 6, 9, 11} -> 30
    [] OTHER               -> 31

NextDay(dt) ==
  CASE dt.d < DaysIn(dt.y, dt.m) -> [dt EXCEPT !.d = @ + 1]
    [] dt.m < 12                 -> [y |-> dt.y, m |-> dt.m + 1, d |-> 1]
    [] OTHER                     -> [y |-> dt.y + 1, m |-> 1, d |-> 1]

PrevDay(dt) ==
  CASE dt.d > 1  -> [dt EXCEPT !.d = @ - 1]
    [] dt.m > 1  -> [y |-> dt.y, m |-> dt.m - 1, d |-> DaysIn(dt.y, dt.m - 1)]
    [] OTHER     -> [y |-> dt.y - 1, m |-> 12, d |-> 31]

VARIABLES
  date,   \* the day reached
  count   \* days from 17 November 1858 to it

vars == <<date, count>>

Init ==
  /\ date = [y |-> 1858, m |-> 11, d |-> 17]
  /\ count = 0

Forward ==
  /\ NextDay(date).y <= MaxYear
  /\ date' = NextDay(date)
  /\ count' = count + 1

Back ==
  /\ PrevDay(date).y >= MinYear
  /\ date' = PrevDay(date)
  /\ count' = count - 1

Next == Forward \/ Back

Spec == Init /\ [][Next]_vars

-----------------------------------------------------------------------------

(***************************************************************************)
(* The "julian" date-part is the number of days since 17 November 1858 on  *)
(* every day of the walk: across month ends, leap days, the century years  *)
(* that are not leap years and the 400-year ones that are, and before the  *)
(* epoch.                                                                  *)
(***************************************************************************)
JulianIsDayCount ==
  ModifiedJulianDay(date.y, date.m, date.d) = count
=============================================================================
