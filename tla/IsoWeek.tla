-------------------------------- MODULE IsoWeek --------------------------------
(***************************************************************************)
(* The week a backup counts for (isoWeekKey, cli/backup/retention.ts).     *)
(*                                                                         *)
(* A date is the number of days since Monday 1 January of the year 1 in    *)
(* the Gregorian calendar, which is what JavaScript's UTC methods compute  *)
(* in.  Module Backup relies on what is checked here: weeks part the days  *)
(* into runs of DaysPerWeek, and two runs never have one key.              *)
(***************************************************************************)
EXTENDS Integers

CONSTANTS FirstYear, LastYear   \* bounds on the dates considered

ASSUME YearAssumption == FirstYear \in Nat \ {0} /\ LastYear \in Nat /\ FirstYear < LastYear

(* Date.UTC(y, 0, 1)                                                       *)
NewYear(y) == LET p == y - 1 IN 365 * p + p \div 4 - p \div 100 + p \div 400

(* getUTCFullYear()                                                        *)
YearOf(d) == CHOOSE y \in FirstYear - 1..LastYear + 1 : d \in NewYear(y)..NewYear(y + 1) - 1

(* getUTCDay(): 0 is a Sunday                                              *)
WeekDay(d) == (d + 1) % 7

DayFromMonday(d) == (WeekDay(d) + 6) % 7

ThursdayOf(d) == d - DayFromMonday(d) + 3

(* Defect: the first of January is taken to be in the first week.          *)
DefectCountsFromNewYear(y) == NewYear(y) - DayFromMonday(NewYear(y)) + 3

(* The fourth of January is always in the first week.                      *)
FirstThursday(y) == ThursdayOf(NewYear(y) + 3)

MathRound(n, d) == (2 * n + d) \div (2 * d)

IsoWeekKey(d) ==
  LET year == YearOf(ThursdayOf(d))
  IN  [year |-> year, week |-> 1 + MathRound(ThursdayOf(d) - FirstThursday(year), 7)]

------------------------------------------------------------------------------
Dates == NewYear(FirstYear)..NewYear(LastYear) - 1

(***************************************************************************)
(* ISO 8601: week n of a year is the week of its n-th Thursday.  So no     *)
(* week is split over the end of a year, and none is counted with another  *)
(* (retention.ts 39-45).                                                   *)
(***************************************************************************)
IsoWeekIsStandard ==
  \A today \in Dates :
    LET thursday == CHOOSE t \in today - 3..today + 3 : WeekDay(t) = 4
        year == YearOf(thursday)
        key  == IsoWeekKey(today)
    IN  /\ key.year = year
        /\ key.week = 1 + (thursday - NewYear(year)) \div 7
        /\ key.week \in 1..53
===============================================================================
