------------------------------- MODULE Schedule -------------------------------
(***************************************************************************)
(* The schedule page (RenderSchedule in templates.go, and serve.go from    *)
(* parseTime to addCrossoverBlocks).  Up to five periods of a day become   *)
(* blocks: sorted by start time, each up to the start of the next, the     *)
(* last one up to midnight; then each day gets, in front, what the day     *)
(* before left unfinished.  Whether a day left something is read from the  *)
(* time of day that its last block shows as its end.  The page is made by  *)
(* one goroutine from a snapshot; its loops are steps here.                *)
(*                                                                         *)
(* Times are minutes since midnight.  Operators whose name starts with     *)
(* Slip are the ones after them with a plausible mistake.                  *)
(***************************************************************************)
EXTENDS Integers, Sequences

CONSTANTS
    Days,        \* number of days in the week, which is a ring
    Minutes,     \* of a day
    DefaultEnd,  \* 06:30
    Disabled,    \* a slot that is not enabled, or lacks a setting
    BadTime,     \* a start time that does not parse
    Programs     \* the programs that the store may hold: per day the slots

WeekDays == 0 .. Days - 1
Yesterday(d) == (d - 1) % Days

\* 23:59, which stands for the end of the day.
LastMinute == Minutes - 1

ASSUME ScheduleAssumption ==
    /\ Days \in Nat \ {0, 1} /\ Minutes \in Nat \ {0, 1, 2}
    /\ DefaultEnd \in 1 .. LastMinute - 1
    /\ Programs \subseteq [WeekDays ->
                             Seq((0 .. LastMinute) \cup {Disabled, BadTime})]
    /\ Disabled # BadTime /\ {Disabled, BadTime} \cap (0 .. LastMinute) = {}

VARIABLES
    program,   \* per day the slots: a start time, or Disabled
    blocks,    \* per day the blocks
    rendering, \* what RenderSchedule is at: "periods", "sort", ...
    day,       \* of days
    periods,   \* of the day
    outer,     \* the slot, or the index i of the sort
    inner      \* the index j of the sort

sortVars == <<periods, outer, inner>>
scheduleVars == <<program, blocks, rendering, day, sortVars>>

\* The loops begin anew.
NoPeriods == periods' = <<>> /\ outer' = 1 /\ inner' = 2

ScheduleInit ==
    /\ program \in Programs
    /\ blocks = [d \in WeekDays |-> <<>>]
    /\ rendering = "periods" /\ day = 0
    /\ periods = <<>> /\ outer = 1 /\ inner = 2

\* The next day, or the next loop over the days.
Advance(same, next) ==
    IF day = Days - 1 THEN day' = 0 /\ rendering' = next
                      ELSE day' = day + 1 /\ rendering' = same

\* One slot: a period if it is enabled; the slot and the day name the activity.
ReadPeriod ==
    /\ rendering = "periods" /\ outer <= Len(program[day])
    /\ LET start == program[day][outer]
       IN  periods' = IF start = Disabled THEN periods
                      ELSE Append(periods, [start |-> start,
                                            activity |-> <<day, outer>>])
    /\ outer' = outer + 1
    /\ UNCHANGED <<program, blocks, rendering, day, inner>>

\* computeScheduleBlocks is called; a time that does not parse ends the
\* request, at the first comparison or at the block that needs it.
StartSort ==
    /\ rendering = "periods" /\ outer > Len(program[day])
    /\ rendering' = IF \E k \in 1 .. Len(periods) : periods[k].start = BadTime
                    THEN "failed" ELSE "sort"
    /\ outer' = 1
    /\ UNCHANGED <<program, blocks, day, periods, inner>>

\* ShownInForce: only neighbours are compared, once.
SlipSwapped(s, a, b) ==
    IF b = a + 1 /\ s[a].start > s[b].start
    THEN [s EXCEPT ![a] = s[b], ![b] = s[a]] ELSE s

Swapped(s, a, b) ==
    IF s[a].start > s[b].start THEN [s EXCEPT ![a] = s[b], ![b] = s[a]] ELSE s

\* One round of the inner loop of the sort.
Sort ==
    /\ rendering = "sort" /\ outer < Len(periods)
    /\ periods' = Swapped(periods, outer, inner)
    /\ IF inner < Len(periods)
       THEN inner' = inner + 1 /\ UNCHANGED outer
       ELSE outer' = outer + 1 /\ inner' = outer + 2
    /\ UNCHANGED <<program, blocks, rendering, day>>

Block(p, end, duration) ==
    [start |-> p.start, end |-> end, duration |-> duration,
     activity |-> p.activity]

\* The start of the next period; after the last one comes the first.
EndMinutes(s, i) == IF i < Len(s) THEN s[i + 1].start ELSE s[1].start

\* ServeTypeOK: the only period of a day has no length.
SlipBlockOf(s, i) ==
    IF EndMinutes(s, i) < s[i].start
    THEN Block(s[i], LastMinute, Minutes - s[i].start)
    ELSE Block(s[i], EndMinutes(s, i), EndMinutes(s, i) - s[i].start)

\* A period that ends no later than it starts crosses midnight: it shows
\* 23:59 and lasts up to the end of the day.
BlockOf(s, i) ==
    IF EndMinutes(s, i) <= s[i].start
    THEN Block(s[i], LastMinute, Minutes - s[i].start)
    ELSE Block(s[i], EndMinutes(s, i), EndMinutes(s, i) - s[i].start)

\* The blocks of the sorted periods.
ComputeDay ==
    /\ rendering = "sort" /\ outer >= Len(periods)
    /\ blocks' = [blocks EXCEPT ![day] =
                     [i \in 1 .. Len(periods) |-> BlockOf(periods, i)]]
    /\ Advance("periods", "crossover") /\ NoPeriods
    /\ UNCHANGED program

\* DayCovered: the day before the first one has no number.
SlipUnfinished(d) ==
    d > 0 /\ blocks[d - 1] # <<>>
          /\ blocks[d - 1][Len(blocks[d - 1])].end = LastMinute

\* The last block of the day before shows 23:59.
Unfinished(d) ==
    LET before == blocks[Yesterday(d)]
    IN  before # <<>> /\ before[Len(before)].end = LastMinute

\* Where it ends: at the first block of the day, or at 06:30 without one.
CrossoverEnd(d) ==
    IF blocks[d] # <<>> THEN blocks[d][1].start ELSE DefaultEnd

Crossover(d) ==
    LET before == blocks[Yesterday(d)]
    IN  [start |-> 0, end |-> CrossoverEnd(d), duration |-> CrossoverEnd(d),
         activity |-> before[Len(before)].activity]

\* One day of addCrossoverBlocks.
AddCrossoverBlock ==
    /\ rendering = "crossover"
    /\ blocks' = IF Unfinished(day) /\ CrossoverEnd(day) > 0
                 THEN [blocks EXCEPT ![day] = <<Crossover(day)>> \o @]
                 ELSE blocks
    /\ Advance("crossover", "shown")
    /\ UNCHANGED <<program, sortVars>>

ScheduleNext ==
    ReadPeriod \/ StartSort \/ Sort \/ ComputeDay \/ AddCrossoverBlock

ScheduleSpec == ScheduleInit /\ [][ScheduleNext]_scheduleVars

-----------------------------------------------------------------------------
(* Properties *)

\* The enabled starts of the program, by slot.
Starts(d) == {i \in 1 .. Len(program[d]) : program[d][i] # Disabled}
AllStarts == UNION {{d} \X Starts(d) : d \in WeekDays}

Blocks == [start : 0 .. LastMinute, end : 0 .. LastMinute,
           duration : 1 .. Minutes, activity : AllStarts]

Period == [start : (0 .. LastMinute) \cup {BadTime}, activity : AllStarts]

\* The type of every variable; a block has a length, within a day.
ScheduleTypeOK ==
    /\ program \in [WeekDays -> Seq((0 .. LastMinute) \cup {Disabled, BadTime})]
    /\ \A d \in WeekDays : \A i \in 1 .. Len(blocks[d]) :
          blocks[d][i] \in Blocks
    /\ rendering \in {"periods", "sort", "crossover", "shown", "failed"}
    /\ day \in WeekDays
    /\ \A i \in 1 .. Len(periods) : periods[i] \in Period
    /\ rendering = "sort" /\ outer < Len(periods) =>
          outer >= 1 /\ inner \in outer + 1 .. Len(periods)

\* What a block covers: minute by minute, for the height on the page.
Covered(b) == b.start .. b.start + b.duration - 1

BlockAt(d, m) ==
    {i \in 1 .. Len(blocks[d]) : m \in Covered(blocks[d][i])}

\* The thermostat changes to a period at its start and stays with it, over
\* days without any: the period in force is the last one to have started,
\* back round the week.
Ago(d, m, s) ==
    ((d - s[1]) * Minutes + m - program[s[1]][s[2]]) % (Days * Minutes)
InForceAt(d, m) ==
    {s \in AllStarts : \A q \in AllStarts : Ago(d, m, s) <= Ago(d, m, q)}

\* No two periods of a day start together.
DistinctStarts ==
    \A d \in WeekDays : \A i, j \in Starts(d) :
        program[d][i] = program[d][j] => i = j

\* At every minute of the week the page shows at most one activity, and
\* only the one that is in force, whatever the order of the slots and
\* however many days have none (RenderSchedule).
ShownInForce ==
    rendering = "shown" /\ DistinctStarts =>
        \A d \in WeekDays, m \in 0 .. Minutes - 1 :
            \A i \in BlockAt(d, m) :
                /\ BlockAt(d, m) = {i}
                /\ blocks[d][i].activity \in InForceAt(d, m)

\* When every day has a period the page shows one at every minute of the
\* week (addCrossoverBlocks).
DayCovered ==
    rendering = "shown" /\ (\A d \in WeekDays : Starts(d) # {}) =>
        \A d \in WeekDays, m \in 0 .. Minutes - 1 : BlockAt(d, m) # {}
=============================================================================
