------------------------------ MODULE TaskSchedule ------------------------------
(***************************************************************************)
(* The schedules of cache/cache.py that decide when a worker refreshes its  *)
(* caches: IntervalTaskRunable runs at the multiples of an interval in the  *)
(* day, HourListTaskRunable at given hours.  A task runs in the first       *)
(* request after its time, so that time may pass without a check.           *)
(*                                                                         *)
(* Time is counted in hours since the midnight before the start; the local  *)
(* time zone of the servers has no daylight saving.                         *)
(***************************************************************************)
EXTENDS Naturals, Sequences, FiniteSets, FiniteSetsExt, Functions

CONSTANTS
  Day,          \* hours of a day
  MaxTime,      \* bound: the last hour that is looked at
  Intervals,    \* AUTHORIZATION_CACHE_CHECK_INTERVAL and its like
  NotChecked    \* _next_runtime is None

VARIABLES
  interval,     \* of the task, or 0 for a list of hours
  hours,        \* the hours of the task, in order
  now,
  nextRun,      \* _next_runtime
  index,        \* _index, from 1
  checked       \* history: the time of the last check

vars == <<interval, hours, now, nextRun, index, checked>>

(* The hours of a list, in order.                                          *)
HourLists ==
  {h \in UNION {[1..n -> 0..(Day - 1)] : n \in 1..Day} :
     \A i \in 1..(Len(h) - 1) : h[i] < h[i + 1]}

Init ==
  /\ \/ interval \in Intervals /\ hours = <<>>
     \/ interval = 0 /\ hours \in HourLists
  /\ now \in 0..(Day - 1)
  /\ nextRun = NotChecked /\ index = 1
  /\ checked = NotChecked

Tick == now < MaxTime /\ now' = now + 1
        /\ UNCHANGED <<interval, hours, nextRun, index, checked>>

Midnight == (now \div Day) * Day

NextIntervalFromNow == now + interval

(* _seconds_4_nextrun                                                      *)
NextInterval ==
  LET inDay == now % Day
  IN  Midnight + inDay + (interval - (inDay % interval))

(* _timediffs                                                              *)
Diff(i) == IF Len(hours) = 1 THEN Day
           ELSE IF i = 1 THEN Day - hours[Len(hours)] + hours[1]
           ELSE hours[i] - hours[i - 1]

After(i) == IF i = Len(hours) THEN 1 ELSE i + 1

(* The loop that advances _next_runtime past the time of the check.        *)
Advanced(from, at) ==
  LET loop[n \in 0..(MaxTime + Day)] ==
        IF n = 0 THEN [run |-> from, at |-> at]
        ELSE LET last == loop[n - 1]
             IN  IF last.run > now THEN last
                 ELSE [run |-> last.run + Diff(After(last.at)), at |-> After(last.at)]
  IN  loop[MaxTime + Day]

(* The times at which the task should run.                                 *)
Slots ==
  IF interval = 0 THEN {t \in 0..(MaxTime + 2 * Day) : t % Day \in Range(hours)}
  ELSE {t \in 0..(MaxTime + 2 * Day) : (t % Day) % interval = 0}

Reschedule ==
  IF interval = 0
  THEN LET advanced == IF nextRun = NotChecked THEN Advanced(Midnight + hours[1], 1)
                       ELSE Advanced(nextRun, index)
       IN  nextRun' = advanced.run /\ index' = advanced.at
  ELSE nextRun' = NextInterval /\ UNCHANGED index

(* can_run: the first check only sets the time of the next run.            *)
FirstCheck ==
  /\ nextRun = NotChecked
  /\ Reschedule
  /\ checked' = now
  /\ UNCHANGED <<interval, hours, now>>

TooEarly ==
  /\ nextRun # NotChecked /\ nextRun > now
  /\ checked' = now
  /\ UNCHANGED <<interval, hours, now, nextRun, index>>

Run ==
  /\ nextRun # NotChecked /\ nextRun <= now
  /\ Reschedule
  /\ checked' = now
  /\ UNCHANGED <<interval, hours, now>>

Next == Tick \/ FirstCheck \/ TooEarly \/ Run

Spec == Init /\ [][Next]_vars

-----------------------------------------------------------------------------
TypeOK ==
  /\ nextRun \in Nat \cup {NotChecked}
  /\ interval = 0 => index \in 1..Len(hours)

(***************************************************************************)
(* After a check, whenever the last one was, the next run is the first slot *)
(* of the schedule: no slot is skipped or run twice, across midnights and   *)
(* days without a check, and all workers refresh at the same times.  An     *)
(* interval has to divide the day.                                         *)
(***************************************************************************)
Divides == interval = 0 \/ Day % interval = 0

RunsInEverySlot ==
  checked # NotChecked /\ Divides => nextRun = Min({t \in Slots : t > checked})

=============================================================================
