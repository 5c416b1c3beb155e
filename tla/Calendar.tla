------------------------------ MODULE Calendar ------------------------------
(***************************************************************************)
(* Dates.  The project has no date library: nine files hold the same       *)
(* conversion of days since 1970 to a date, one converts back, and the     *)
(* index of documents uses another algorithm.  Rows keep the text of a     *)
(* time, and SQL compares texts: run_after <= now, fetched_at > the row's. *)
(*                                                                         *)
(* An instant is <<days, seconds of the day>>, a time is the sequence of   *)
(* its fields, which in the text have fixed widths (to the year 9999).     *)
(***************************************************************************)
EXTENDS Integers, Sequences, FiniteSetsExt

CONSTANTS
  FirstDays,  (* bound: where the clock may start, in days since 1970      *)
  Stretch     (* bound: for how many days it is followed                   *)

VARIABLE today

(* Mutant: centuries are leap years. *)
IsLeapJulian(year) == year % 4 = 0

IsLeap(year) == (year % 4 = 0 /\ year % 100 # 0) \/ year % 400 = 0
YearDays(year) == IF IsLeap(year) THEN 366 ELSE 365
MonthDays(year) ==
  <<31, IF IsLeap(year) THEN 29 ELSE 28, 31, 30, 31, 30, 31, 31, 30, 31, 30, 31>>

(* The two loops of days_to_ymd: whole years are taken off, then months.   *)
YearAndRest(days) ==
  LET from[year \in Nat, left \in Nat] ==
        IF left < YearDays(year) THEN <<year, left>> ELSE from[year + 1, left - YearDays(year)]
  IN from[1970, days]

DaysToYmd(days) ==
  LET year == YearAndRest(days)[1]
      from[month \in Nat, left \in Nat] ==
        IF month > 12 \/ left < MonthDays(year)[month] THEN <<year, month, left + 1>>
        ELSE from[month + 1, left - MonthDays(year)[month]]
  IN from[1, YearAndRest(days)[2]]

YmdToDays(ymd) ==
  LET inYear(month) == MonthDays(ymd[1])[month]
  IN MapThenSumSet(YearDays, 1970 .. ymd[1] - 1) + MapThenSumSet(inYear, 1 .. ymd[2] - 1) + ymd[3] - 1
------------------------------------------------------------------------------
At(days, secs) == <<days + secs \div 86400, secs % 86400>>

Rfc3339(at) ==
  DaysToYmd(at[1]) \o <<(at[2] \div 3600) % 24, (at[2] \div 60) % 60, at[2] % 60>>

ParseRfc3339(time) ==
  At(YmdToDays(SubSeq(time, 1, 3)), time[4] * 3600 + time[5] * 60 + time[6])

AddSecs(time, secs) ==
  LET at == ParseRfc3339(time) IN Rfc3339(At(at[1], at[2] + secs))

(* The order of texts. *)
TextBefore(t, u) == \E k \in DOMAIN t : SubSeq(t, 1, k - 1) = SubSeq(u, 1, k - 1) /\ t[k] < u[k]

(* civil_from_days, over eras of 400 years that begin in March. *)
CivilFromDays(days) ==
  LET z == days + 719468
      era == z \div 146097
      doe == z - era * 146097
      yoe == (doe - doe \div 1460 + doe \div 36524 - doe \div 146096) \div 365
      doy == doe - (365 * yoe + yoe \div 4 - yoe \div 100)
      mp == (5 * doy + 2) \div 153
      month == IF mp < 10 THEN mp + 3 ELSE mp - 9
      year == yoe + era * 400
  IN <<IF month <= 2 THEN year + 1 ELSE year, month, doy - (153 * mp + 2) \div 5 + 1>>
------------------------------------------------------------------------------
CalendarInit == today \in FirstDays

DayPasses ==
  \/ /\ today + 1 \notin {d + Stretch : d \in FirstDays} /\ today' = today + 1
  \/ /\ today + 1 \in {d + Stretch : d \in FirstDays} /\ UNCHANGED today

(* A day has one date whichever algorithm gives it, and the date gives it  *)
(* back; a delay of a second or an hour counted from the text of a time    *)
(* late that day ends when it should, and the text says that it is later.  *)
DatesAgree ==
  /\ DaysToYmd(today) = CivilFromDays(today)
  /\ YmdToDays(DaysToYmd(today)) = today
  /\ \A secs \in {82799, 86399}, delay \in {1, 3600} :
       LET time == Rfc3339(<<today, secs>>)
           later == AddSecs(time, delay)
       IN later = Rfc3339(At(today, secs + delay)) /\ TextBefore(time, later)
==============================================================================
