--------------------------- MODULE LeaveCalendar ---------------------------
(* Days and periods of leave: the length of a leave, the period an accrual is   *)
(* for and the share of it that an employee who starts late earns. Days are     *)
(* numbers; the calendar is known by the days on which its weeks, months and    *)
(* years begin. Lengths of leaves are counted in half days.                     *)
EXTENDS Integers, FiniteSets, FiniteSetsExt

CONSTANTS
  Begins, \* accrual period -> the days on which one begins
  None    \* the beginning of a period that is not known

(* Mutant: a half-day start is not taken off. *)
RequestDaysFullStart(start, end, startHalf, endHalf) ==
  2 * (end - start + 1) - (IF endHalf THEN 1 ELSE 0)

(* CalculateRequestDays: 0 stands for the errors. *)
RequestDays(start, end, startHalf, endHalf) ==
  LET halves == 2 * (end - start + 1) - (IF startHalf THEN 1 ELSE 0) - (IF endHalf THEN 1 ELSE 0)
  IN IF end < start \/ (start = end /\ startHalf /\ endHalf) THEN 0 ELSE halves

(* accrualPeriodStart: None for a period that is not known. *)
PeriodStart(now, period) ==
  IF period \in DOMAIN Begins THEN Max({d \in Begins[period] : d <= now}) ELSE None

(* Mutant: what has passed is paid, not what remains. *)
ProratedPast(rate, start, periodStart, period) ==
  LET end == Min({d \in Begins[period] : d > periodStart})
  IN IF end < start THEN 0 ELSE (rate * (start - periodStart)) \div (end - periodStart)

(* proratedAccrual: the rate for the days from start to the period's end, as the *)
(* balance's column rounds it.                                                   *)
Prorated(rate, start, periodStart, period) ==
  LET end == Min({d \in Begins[period] : d > periodStart})
  IN IF end < start THEN 0 ELSE (rate * (end - start)) \div (end - periodStart)

(* What ApplyAccruals gives an employee for the period that begins at periodStart. *)
Accrual(rate, start, periodStart, period) ==
  IF start > periodStart THEN Prorated(rate, start, periodStart, period) ELSE rate
=============================================================================
