--------------------------- MODULE CronExpression ---------------------------
(***************************************************************************)
(* When a job with a cron expression runs next (sched/cron.py, without the *)
(* optional croniter): the search goes minute by minute over the local     *)
(* wall clock and the hit is turned back into a point in time.             *)
(*                                                                         *)
(* Time is counted in minutes since the epoch, and so is the wall clock.   *)
(* A zone is ahead of it by `east', and by one hour more from `gap' on     *)
(* until `fold' (gap = fold: a fixed offset, as UTC and +07:00 have).      *)
(***************************************************************************)
EXTENDS Integers, Sequences

CONSTANTS
  HourLen, DayLen,     \* minutes of an hour and of a day
  Week,                \* days of a week
  Year,                \* the days of a year, each with its month and number
  Expressions,         \* the expressions to look at: a set of parts per field
  Malformed,           \* one that has not five fields
  Zones, Horizon, Never

ASSUME CalendarAssumption ==
  /\ HourLen \in Nat \ {0} /\ DayLen \in Nat \ {0} /\ Week \in Nat \ {0}
  /\ DOMAIN Year = 1..Len(Year) /\ Len(Year) \in Nat \ {0}
  /\ Never \notin Int
ASSUME ZoneAssumption ==
  \A z \in Zones :
    /\ z.east \in Int /\ z.gap \in Int /\ z.fold \in Int
    /\ z.gap = z.fold \/ z.gap + 2 * HourLen <= z.fold

VARIABLES
  expr, zone,          \* the job's expression and its time zone
  clock,               \* now
  phase,               \* new: not added yet; scan: in _cron_next_local; wait
  since, nextRun,      \* now at the last computation, and what it returned
  t, left              \* the local minute looked at, and how many are left

job == <<expr, zone>>
cron == <<job, clock, phase, since, nextRun, t, left>>

Star == {[kind |-> "star"]}
Limit == (Len(Year) + 1) * DayLen

-----------------------------------------------------------------------------
(* The wall clock, as datetime computes it.                                *)

Summer(u) == zone.gap <= u /\ u < zone.fold
Wall(u) == u + zone.east + (IF Summer(u) THEN HourLen ELSE 0)

\* timestamp() after `t += timedelta(minutes=1)': the sum has lost its fold, so
\* of the two minutes with one local time the first is meant; a local time that
\* does not exist is taken with the offset of before.
Utc(w) ==
  IF Summer(w - zone.east - HourLen) THEN w - zone.east - HourLen ELSE w - zone.east

Minute(w) == w % HourLen
Hour(w) == (w % DayLen) \div HourLen
Date(w) == Year[((w \div DayLen) % Len(Year)) + 1]
Weekday(w) == (w \div DayLen) % Week

\* Summer time begins with a full hour of the wall clock: the local times it
\* leaves out have one hour and one date.
ASSUME GapAssumption ==
  \A z \in Zones : z.gap < z.fold =>
    \A v, w \in z.gap + z.east .. z.gap + z.east + HourLen - 1 :
      Hour(v) = Hour(w) /\ v \div DayLen = w \div DayLen

-----------------------------------------------------------------------------
\* _cron_field_match: any part will do; one that is no number never matches.
Matches(val, field) ==
  \E part \in field :
    \/ part.kind = "star"
    \/ part.kind = "step" /\ part.n > 0 /\ val % part.n = 0
    \/ part.kind = "range" /\ part.a <= val /\ val <= part.b
    \/ part.kind = "value" /\ part.a = val

\* The rule looks at the text of the field: "*/1" and "*,1" are restrictions.
BothDays(e, w) ==                                              \* faulty variant
  Matches(Date(w).day, e.dom) /\ Matches(Weekday(w), e.dow)
DayOk(e, w) ==
  IF e.dom # Star /\ e.dow # Star
  THEN Matches(Date(w).day, e.dom) \/ Matches(Weekday(w), e.dow)
  ELSE Matches(Date(w).day, e.dom) /\ Matches(Weekday(w), e.dow)

Fits(e, w) ==
  /\ Matches(Minute(w), e.mi) /\ Matches(Hour(w), e.ho)
  /\ DayOk(e, w) /\ Matches(Date(w).month, e.mon)

-----------------------------------------------------------------------------
CronInit ==
  /\ expr \in Expressions \cup {Malformed} /\ zone \in Zones
  /\ clock = 0 /\ phase = "new" /\ since = 0 /\ nextRun = Never
  /\ t = 0 /\ left = 0

Tick ==
  /\ phase \in {"new", "wait"} /\ clock < Horizon
  /\ clock' = clock + 1
  /\ UNCHANGED <<job, phase, since, nextRun, t, left>>

\* The search starts at the minute after the one that now lies in; an expression
\* without five fields has no next time.
Search ==
  /\ since' = clock
  /\ nextRun' = Never
  /\ IF expr = Malformed
     THEN phase' = "wait" /\ UNCHANGED <<t, left>>
     ELSE phase' = "scan" /\ t' = Wall(clock) + 1 /\ left' = Limit
  /\ UNCHANGED <<job, clock>>

\* initial_next_run, when the job is added, and compute_next, when its run ends.
AddJob == phase = "new" /\ Search
RunJob == phase = "wait" /\ nextRun # Never /\ nextRun <= clock /\ Search

Hit ==
  /\ phase = "scan" /\ left > 0 /\ Fits(expr, t)
  /\ nextRun' = Utc(t) /\ phase' = "wait"
  /\ UNCHANGED <<job, clock, since, t, left>>

Miss ==
  /\ phase = "scan" /\ left > 0 /\ ~Fits(expr, t)
  /\ t' = t + 1 /\ left' = left - 1
  /\ UNCHANGED <<job, clock, phase, since, nextRun>>

\* Nothing in 366 days.
GiveUp ==
  /\ phase = "scan" /\ left = 0
  /\ phase' = "wait"
  /\ UNCHANGED <<job, clock, since, nextRun, t, left>>

CronNext == Tick \/ AddJob \/ RunJob \/ Hit \/ Miss \/ GiveUp

CronSpec == CronInit /\ [][CronNext]_cron

-----------------------------------------------------------------------------
\* What an expression stands for: each day field that is no star adds the days
\* it names, and two stars mean every day.
Wanted(u) ==
  LET w == Wall(u)
      dom == Matches(Date(w).day, expr.dom)
      dow == Matches(Weekday(w), expr.dow)
  IN /\ Matches(Minute(w), expr.mi) /\ Matches(Hour(w), expr.ho)
     /\ Matches(Date(w).month, expr.mon)
     /\ \/ expr.dom # Star /\ dom
        \/ expr.dow # Star /\ dow
        \/ expr.dom = Star /\ expr.dow = Star

\* The local time of u comes twice.
Repeated(u) == zone.gap < zone.fold /\ u \in zone.fold - HourLen .. zone.fold + HourLen - 1
\* The local time an hour before the one of u is left out, and was meant.
Skipped(u) ==
  /\ zone.gap < zone.fold /\ u \in zone.gap .. zone.gap + HourLen - 1
  /\ Fits(expr, Wall(u) - HourLen)

\* A job waits for the first minute its expression wants: a later one than now,
\* no earlier one passed over, and none at all only if a year has none.  A local
\* time that summer time leaves out counts as the one an hour later.  Computed
\* in the hour that comes twice the promise is not kept: see NextIsLater.
NextIsFirst ==
  phase = "wait" /\ expr # Malformed /\ ~Repeated(since) =>
    IF nextRun = Never
    THEN \A u \in since + 1 .. since + Limit - HourLen : ~Wanted(u)
    ELSE /\ nextRun > since
         /\ Wanted(nextRun) \/ Skipped(nextRun)
         /\ \A u \in since + 1 .. nextRun - 1 : ~Wanted(u)

-----------------------------------------------------------------------------
(* What the comment of the code promises and it does not keep.             *)

\* sched/cron.py:177: the epoch of the next match, later than now.
NextIsLater == phase = "wait" /\ nextRun # Never => nextRun > since

=============================================================================
