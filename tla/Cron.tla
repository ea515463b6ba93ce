--------------------------------- MODULE Cron --------------------------------
(***************************************************************************)
(* Cron expressions: src/scheduler/cron.ts.                                 *)
(*                                                                         *)
(* An instant is a minute of the clock; Wall gives what the local clock     *)
(* shows then, in minutes.  Where the clocks change Wall steps back over an *)
(* hour or ahead of one.  An expression is a sequence of five fields or the *)
(* name of a shortcut, a field a sequence of parts, and a part              *)
(* [base, a, b, step]: base is "any", "one" (a), "range" (a to b) or "junk",*)
(* and step is <<>> or <<n>>.                                               *)
(***************************************************************************)
EXTENDS Integers, Sequences, SequencesExt

CONSTANTS
  Wall,     \* the local time at each instant
  Hour,     \* minutes of an hour
  Day,      \* hours of a day
  Month,    \* days of the longest month
  Year      \* months of a year

ASSUME CronAssumption ==
  /\ {Hour, Day, Month, Year} \subseteq Nat \ {0}
  /\ Wall \in Seq(Nat) /\ Wall # <<>>

Instant_ == 1 .. Len(Wall)

\* The instants at which the local clock shows a time that it has shown before.
Repeats == {m \in Instant_ : \E k \in 1 .. m - 1 : Wall[k] = Wall[m]}

\* Times are shown first in their order; a repeated hour is repeated as a
\* whole, without a gap, before the end.
ASSUME WallAssumption ==
  /\ \A k, m \in Instant_ \ Repeats : k < m => Wall[k] < Wall[m]
  /\ \A m \in Repeats : m < Len(Wall) /\ Wall[m + 1] <= Wall[m] + 1

-----------------------------------------------------------------------------
\* parseField: what a part stands for between min and max, and whether it is
\* refused.  A step on a single number goes on to max.
PartValues(p, min, max) ==
  LET lo == IF p.base = "any" THEN min ELSE p.a
      hi == CASE p.base = "any" -> max
              [] p.base = "range" -> p.b
              [] OTHER -> IF p.step = <<>> THEN p.a ELSE max
      by == IF p.step = <<>> THEN 1 ELSE p.step[1]
  IN {v \in lo .. hi : (v - lo) % by = 0}

RefusesPart(p, max) ==
  \/ p.base = "junk"
  \/ p.step = <<0>>
  \/ p.base = "range" /\ p.a > p.b
  \/ p.base = "one" /\ p.step # <<>> /\ p.a > max

ParseField(field, min, max) ==
  IF \E i \in DOMAIN field : RefusesPart(field[i], max) THEN {-1}
  ELSE LET values == UNION {PartValues(field[i], min, max) : i \in DOMAIN field}
       IN IF values \subseteq min .. max THEN values ELSE {-1}

\* parseCron: the values of the five fields; {-1} is a field that is refused.
At(n) == <<[base |-> "one", a |-> n, b |-> n, step |-> <<>>]>>
Every == <<[base |-> "any", a |-> 0, b |-> 0, step |-> <<>>]>>
Shortcuts == [
  yearly  |-> <<At(0), At(0), At(1), At(1), Every>>,
  monthly |-> <<At(0), At(0), At(1), Every, Every>>,
  weekly  |-> <<At(0), At(0), Every, Every, At(0)>>,
  daily   |-> <<At(0), At(0), Every, Every, Every>>,
  hourly  |-> <<At(0), Every, Every, Every, Every>>]

ParseCron(expression) ==
  LET fields == IF expression[1] = "@" THEN Shortcuts[expression[2]] ELSE expression[2]
  IN [minute     |-> ParseField(fields[1], 0, Hour - 1),
      hour       |-> ParseField(fields[2], 0, Day - 1),
      dayOfMonth |-> ParseField(fields[3], 1, Month),
      month      |-> ParseField(fields[4], 1, Year),
      dayOfWeek  |-> ParseField(fields[5], 0, 7)]

ValidateCron(expression) ==
  \A name \in {"minute", "hour", "dayOfMonth", "month", "dayOfWeek"} :
    ParseCron(expression)[name] # {-1}

-----------------------------------------------------------------------------
\* cronMatches: the fields of the local time; 7 is a Sunday as well.
CronMatches(cron, m) ==
  LET days == Wall[m] \div (Hour * Day)
      weekday == days % 7
  IN /\ Wall[m] % Hour \in cron.minute
     /\ (Wall[m] \div Hour) % Day \in cron.hour
     /\ 1 + (days % Month) \in cron.dayOfMonth
     /\ 1 + ((days \div Month) % Year) \in cron.month
     /\ weekday \in cron.dayOfWeek \/ (weekday = 0 /\ 7 \in cron.dayOfWeek)

\* The instant of a local time, as Date's setters find it: the first of two,
\* and one in a gap counts from the time before it.  0 is past the end.
InstantOf(w) ==
  LET same == {m \in Instant_ : Wall[m] = w}
      below == {m \in Instant_ : m < Len(Wall) /\ Wall[m] < w /\ Wall[m + 1] > w}
  IN CASE same # {} -> Min(same)
       [] same = {} /\ below # {} -> Min(below) + (w - Wall[Min(below)])
       [] OTHER -> 0

\* setSeconds(0, 0): in an hour that comes again it goes back to the first.
Floors == [m \in Instant_ |-> InstantOf(Wall[m])]
Floor(m) == IF m = 0 THEN 0 ELSE Floors[m]

\* Mutant: the minute it starts from may match as well.
NextCronMatchNow(cron, after) ==
  LET from == {m \in Instant_ : m >= Floor(after) /\ CronMatches(cron, m)}
  IN IF from = {} THEN 0 ELSE Min(from)

\* nextCronMatch: from the next minute on, minute by minute of the local time;
\* 0 when none matches before the end.
NextCronMatch(cron, after) ==
  LET scan[left \in 0 .. Len(Wall)] ==
        [m \in Instant_ |->
           LET next == InstantOf(Wall[m] + 1)
           IN IF left = 0 \/ next = 0 THEN 0
              ELSE IF CronMatches(cron, next) THEN next
              ELSE scan[left - 1][next]]
  IN scan[Len(Wall)][Floor(after)]
=============================================================================
