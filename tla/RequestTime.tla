---------------------------- MODULE RequestTime ----------------------------
(***************************************************************************)
(* The timestamp of generated request metadata: a clock that runs from the *)
(* Unix epoch, the closed formula that turns days into a date, and the     *)
(* padded text.  The separators stand at fixed places and are left out.    *)
(***************************************************************************)
EXTENDS Integers, Sequences

CONSTANTS
    Moments,    \* times of day in order: <<seconds of the day, microseconds>>
    LastDay     \* bound: days the clock runs

ASSUME MomentsAssumption ==
    /\ Moments # <<>> /\ Moments \in Seq(Nat \X Nat)
    /\ \A i \in DOMAIN Moments : Moments[i][1] < 86400 /\ Moments[i][2] < 1000000
    /\ \A i, j \in DOMAIN Moments :
          i < j => \/ Moments[i][1] < Moments[j][1]
                   \/ Moments[i][1] = Moments[j][1] /\ Moments[i][2] < Moments[j][2]

\* Up to December 31st, 9999, the last day whose year has four digits.
ASSUME LastDayAssumption == LastDay \in Nat /\ LastDay <= 2932896

VARIABLES
    days, moment,   \* the clock: days since the epoch, and which moment of the day
    date,           \* the date a calendar on the wall shows: <<year, month, day>>
    stamps          \* the last two timestamps

rvars == <<days, moment, date, stamps>>

-----------------------------------------------------------------------------

\* Plausible slip: the correction for centuries is left out.
year_of_era_julian(day_of_era) == (day_of_era - day_of_era \div 1460) \div 365

\* Rust's division truncates; the dividends here are not negative.
year_of_era(day_of_era) ==
    (day_of_era - day_of_era \div 1460 + day_of_era \div 36524 - day_of_era \div 146096) \div 365

\* The formula's years start on March 1st and come in eras of 400.
era_of(shifted) == (IF shifted >= 0 THEN shifted ELSE shifted - 146096) \div 146097
days_before(yoe) == 365 * yoe + yoe \div 4 - yoe \div 100
month_prime(day_of_year) == (5 * day_of_year + 2) \div 153
month_of(day_of_year) ==
    month_prime(day_of_year) + IF month_prime(day_of_year) < 10 THEN 3 ELSE -9
day_of(day_of_year) == day_of_year - (153 * month_prime(day_of_year) + 2) \div 5 + 1
civil_date(era, yoe, day_of_year) ==
    <<yoe + era * 400 + (IF month_of(day_of_year) <= 2 THEN 1 ELSE 0),
      month_of(day_of_year), day_of(day_of_year)>>

civil_date_from_days(days_since_epoch) ==
    LET shifted == days_since_epoch + 719468
        day_of_era == shifted - era_of(shifted) * 146097
        yoe == year_of_era(day_of_era)
    IN  civil_date(era_of(shifted), yoe, day_of_era - days_before(yoe))

DecimalDigit(n, power) == (n \div power) % 10

\* Plausible slip: numbers are written without leading zeros.
two_digits_bare(n) == IF n < 10 THEN <<n>> ELSE <<DecimalDigit(n, 10), DecimalDigit(n, 1)>>

two_digits(n) == <<DecimalDigit(n, 10), DecimalDigit(n, 1)>>

\* Years before 10000, microseconds before 1000000.
format_utc_timestamp(day, time) ==
    LET civil == civil_date_from_days(day)
        seconds_of_day == time[1]
    IN  two_digits(civil[1] \div 100) \o two_digits(civil[1] % 100)
          \o two_digits(civil[2]) \o two_digits(civil[3])
          \o two_digits(seconds_of_day \div 3600) \o two_digits((seconds_of_day % 3600) \div 60)
          \o two_digits(seconds_of_day % 60)
          \o two_digits(time[2] \div 10000) \o two_digits((time[2] \div 100) % 100)
          \o two_digits(time[2] % 100)

-----------------------------------------------------------------------------

\* The Gregorian calendar, one day at a time.
leap(year) == year % 4 = 0 /\ (year % 100 # 0 \/ year % 400 = 0)
month_length(year, month) ==
    IF month = 2 THEN (IF leap(year) THEN 29 ELSE 28)
    ELSE IF month \in {4, 6, 9, 11} THEN 30 ELSE 31
tomorrow(d) ==
    IF d[3] < month_length(d[1], d[2]) THEN <<d[1], d[2], d[3] + 1>>
    ELSE IF d[2] < 12 THEN <<d[1], d[2] + 1, 1>>
    ELSE <<d[1] + 1, 1, 1>>

TimeInit ==
    /\ days = 0 /\ moment = 1
    /\ date = <<1970, 1, 1>>
    /\ stamps = <<<<>>, format_utc_timestamp(0, Moments[1])>>

LaterToday ==
    /\ moment < Len(Moments)
    /\ moment' = moment + 1
    /\ stamps' = <<stamps[2], format_utc_timestamp(days, Moments[moment + 1])>>
    /\ UNCHANGED <<days, date>>

NextDay ==
    /\ days < LastDay
    /\ days' = days + 1 /\ moment' = 1
    /\ date' = tomorrow(date)
    /\ stamps' = <<stamps[2], format_utc_timestamp(days + 1, Moments[1])>>

TimeNext == LaterToday \/ NextDay

TimeSpec == TimeInit /\ [][TimeNext]_rvars

-----------------------------------------------------------------------------
(* Properties. *)

\* The closed formula of civil_date_from_days names the day the calendar shows, through
\* every leap year, skipped leap year and era boundary.
DatesFollowTheCalendar == civil_date_from_days(days) = date

\* Comparing two request times as text compares the times: of two timestamps taken one
\* after the other, across midnight, month ends and year ends, the later text is greater.
LaterStampsSortLater ==
    stamps[1] # <<>> =>
        \E k \in DOMAIN stamps[1] :
            /\ stamps[1][k] < stamps[2][k]
            /\ \A j \in 1..k - 1 : stamps[1][j] = stamps[2][j]
=============================================================================
