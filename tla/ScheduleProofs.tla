---------------------------- MODULE ScheduleProofs ----------------------------
(***************************************************************************)
(* The schedule page, for any program, length of the week and of the day.  *)
(*                                                                         *)
(* The sort keeps the periods it was given and puts those in front of its  *)
(* outer index where they belong (PeriodsSorted), so that the blocks of a  *)
(* day are its periods in order, each up to the next (DayOK).  The last of *)
(* them, and no block that another day put there, shows 23:59, which is    *)
(* what the next day looks for (LastBlockIs): so every day gets in front   *)
(* the latest period of the day before, up to its own first one            *)
(* (FromYesterday), or has no need of it (NothingMissing).                 *)
(***************************************************************************)
EXTENDS Schedule, WellFoundedInduction, TLAPS

\* p stands for a slot of day d.
Standing(d, p) ==
    /\ p.activity \in {d} \X Starts(d)
    /\ p.start = program[d][p.activity[2]]

\* Behind place x, s has slots of day d, none of them twice ...
SlotsOnce(s, d, x) ==
    /\ \A i \in x + 1 .. Len(s) : Standing(d, s[i])
    /\ \A i, j \in x + 1 .. Len(s) : i # j => s[i].activity[2] # s[j].activity[2]

\* ... and all that come before slot n.
SlotsAll(s, d, x, n) ==
    \A k \in Starts(d) :
        k < n => \E i \in x + 1 .. Len(s) : s[i].activity[2] = k

\* The periods that have been read.
PeriodsRead ==
    /\ SlotsOnce(periods, day, 0)
    /\ SlotsAll(periods, day, 0, outer)
    /\ \A i \in 1 .. Len(periods) : periods[i].activity[2] < outer

\* Those in front of outer are where they belong; nothing up to inner starts
\* before the one at outer.
PeriodsSorted ==
    /\ SlotsOnce(periods, day, 0)
    /\ SlotsAll(periods, day, 0, Len(program[day]) + 1)
    /\ \A i \in 1 .. Len(periods) : periods[i].start # BadTime
    /\ outer < Len(periods) => inner \in outer + 1 .. Len(periods)
    /\ \A i, j \in 1 .. Len(periods) :
          i < outer /\ i < j => periods[i].start <= periods[j].start
    /\ \A j \in 1 .. Len(periods) :
          outer < j /\ j < inner => periods[outer].start <= periods[j].start

\* The block at i ends with the next one, or with the day.
BlockEnds(s, i) ==
    IF i < Len(s) /\ s[i].start < s[i + 1].start
    THEN /\ s[i].end = s[i + 1].start
         /\ s[i].duration = s[i + 1].start - s[i].start
    ELSE s[i].end = LastMinute /\ s[i].duration = Minutes - s[i].start

\* Behind place x, the day has its own blocks in order.
DayOK(d, x) ==
    /\ x <= Len(blocks[d])
    /\ SlotsOnce(blocks[d], d, x)
    /\ SlotsAll(blocks[d], d, x, Len(program[d]) + 1)
    /\ \A i, j \in x + 1 .. Len(blocks[d]) :
          i < j => blocks[d][i].start <= blocks[d][j].start
    /\ \A i \in x + 1 .. Len(blocks[d]) : BlockEnds(blocks[d], i)

\* The first block of the day is the last period of the day before.
FromYesterday(d) ==
    LET y == Yesterday(d)
        c == blocks[d][1]
    IN  /\ c.start = 0 /\ c.duration = c.end /\ c.duration > 0
        /\ c.end = IF Len(blocks[d]) > 1 THEN blocks[d][2].start ELSE DefaultEnd
        /\ c.activity \in {y} \X Starts(y)
        /\ \A k \in Starts(y) : program[y][k] <= program[y][c.activity[2]]

\* A day that begins with a period needs no other.
NothingMissing(d) ==
    Starts(d) # {} /\ Starts(Yesterday(d)) # {} => blocks[d][1].start = 0

\* addCrossoverBlocks has done day d.
Crossed(d) == rendering = "shown" \/ d < day

ScheduleInv ==
    /\ program \in [WeekDays -> Seq((0 .. LastMinute) \cup {Disabled, BadTime})]
    /\ blocks \in [WeekDays -> Seq(Blocks)]
    /\ rendering \in {"periods", "sort", "crossover", "shown", "failed"}
    /\ day \in WeekDays
    /\ periods \in Seq(Period) /\ outer \in Nat \ {0} /\ inner \in Nat
    /\ rendering = "periods" => PeriodsRead /\ inner = 2
    /\ rendering = "sort" => PeriodsSorted
    /\ rendering \in {"periods", "sort"} =>
          \A d \in WeekDays : d < day => DayOK(d, 0)
    /\ rendering \in {"crossover", "shown"} =>
          \A d \in WeekDays :
              \/ DayOK(d, 0) /\ (Crossed(d) => NothingMissing(d))
              \/ DayOK(d, 1) /\ FromYesterday(d) /\ Crossed(d)

\* The least residue of a number that is not far off.
LEMMA Residue ==
  ASSUME NEW a \in Int, NEW n \in Nat \ {0}
  PROVE  /\ 0 <= a /\ a < n => a % n = a
         /\ -n <= a /\ a < 0 => a % n = a + n
  OBVIOUS

LEMMA YesterdayIs ==
  ASSUME NEW d \in WeekDays
  PROVE  /\ Yesterday(d) = IF d = 0 THEN Days - 1 ELSE d - 1
         /\ Yesterday(d) \in WeekDays /\ Yesterday(d) # d
  <1>1. Days \in Nat /\ Days >= 2 /\ d \in 0 .. Days - 1
    BY ScheduleAssumption DEF WeekDays
  <1>2. d - 1 \in Int /\ (d - 1) % Days = IF d = 0 THEN d - 1 + Days ELSE d - 1
    BY <1>1, Residue
  <1> QED
    BY <1>1, <1>2 DEF Yesterday, WeekDays

\* An enabled slot, and its start.
LEMMA StartsIs ==
  ASSUME ScheduleInv, NEW d \in WeekDays
  PROVE  /\ program[d] \in Seq((0 .. LastMinute) \cup {Disabled, BadTime})
         /\ Len(program[d]) \in Nat
         /\ \A k : k \in Starts(d) <=>
               k \in 1 .. Len(program[d]) /\ program[d][k] # Disabled
         /\ \A k \in Starts(d) : program[d][k] \in (0 .. LastMinute) \cup {BadTime}
         /\ {d} \X Starts(d) \subseteq AllStarts
  BY DEF ScheduleInv, Starts, AllStarts

LEMMA ScheduleInvInit == ScheduleInit => ScheduleInv
  <1> SUFFICES ASSUME ScheduleInit PROVE ScheduleInv
    OBVIOUS
  <1>1. /\ program \in [WeekDays -> Seq((0 .. LastMinute) \cup {Disabled, BadTime})]
        /\ 0 \in WeekDays
    BY ScheduleAssumption DEF ScheduleInit, WeekDays
  <1>2. \A d \in WeekDays : ~(d < 0)
    BY ScheduleAssumption DEF WeekDays
  <1>3. PeriodsRead
    BY <1>1 DEF ScheduleInit, PeriodsRead, SlotsOnce, SlotsAll, Starts
  <1> QED
    BY <1>1, <1>2, <1>3 DEF ScheduleInit, ScheduleInv

\* The program stays as it is.
LEMMA ProgramKept ==
  ASSUME program' = program
  PROVE  /\ AllStarts' = AllStarts /\ Blocks' = Blocks /\ Period' = Period
         /\ \A d : Starts(d)' = Starts(d)
         /\ \A d, p : Standing(d, p)' <=> Standing(d, p)
  <1>1. \A d : Starts(d)' = Starts(d)
    BY DEF Starts
  <1>2. AllStarts' = AllStarts
    BY <1>1 DEF AllStarts
  <1> QED
    BY <1>1, <1>2 DEF Blocks, Period, Standing

LEMMA DayKept ==
  ASSUME program' = program, NEW d, blocks'[d] = blocks[d], NEW x, DayOK(d, x)
  PROVE  DayOK(d, x)'
  BY ProgramKept DEF DayOK, SlotsOnce, SlotsAll, Standing, BlockEnds

\* While a day is read and sorted the blocks stay as they are.
LEMMA PeriodsStep ==
  ASSUME ScheduleInv, rendering \in {"periods", "sort"},
         UNCHANGED <<program, blocks, day>>,
         rendering' \in {"periods", "sort", "failed"},
         periods' \in Seq(Period), outer' \in Nat \ {0}, inner' \in Nat,
         rendering' = "periods" => PeriodsRead' /\ inner' = 2,
         rendering' = "sort" => PeriodsSorted'
  PROVE  ScheduleInv'
  <1>1. \A d \in WeekDays : d < day => DayOK(d, 0)'
    BY DayKept DEF ScheduleInv
  <1> QED
    BY <1>1, ProgramKept DEF ScheduleInv

LEMMA ReadPeriodInv ==
  ASSUME ScheduleInv, ReadPeriod
  PROVE  ScheduleInv'
  <1> DEFINE start == program[day][outer]
             n == Len(periods)
  <1>1. /\ rendering = "periods" /\ rendering' = "periods" /\ inner' = 2
        /\ outer \in 1 .. Len(program[day]) /\ outer' = outer + 1
        /\ day \in WeekDays /\ PeriodsRead /\ periods \in Seq(Period)
        /\ UNCHANGED <<program, blocks, day>>
        /\ n \in Nat
    BY DEF ReadPeriod, ScheduleInv
  <1>2. /\ \A k : k \in Starts(day) <=>
               k \in 1 .. Len(program[day]) /\ program[day][k] # Disabled
        /\ \A k \in Starts(day) : program[day][k] \in (0 .. LastMinute) \cup {BadTime}
        /\ {day} \X Starts(day) \subseteq AllStarts
    BY <1>1, StartsIs
  <1>3. /\ Starts(day)' = Starts(day)
        /\ \A p : Standing(day, p)' <=> Standing(day, p)
    BY <1>1, ProgramKept DEF Starts, Standing
  <1>4. CASE start = Disabled
    <2>1. periods' = periods /\ outer \notin Starts(day)
      BY <1>2, <1>4 DEF ReadPeriod
    <2>2. SlotsOnce(periods, day, 0)'
      BY <1>1, <1>3, <2>1 DEF PeriodsRead, SlotsOnce
    <2>3. SlotsAll(periods, day, 0, outer)'
      BY <1>1, <1>2, <1>3, <2>1 DEF PeriodsRead, SlotsAll
    <2>4. \A i \in 1 .. Len(periods') : periods'[i].activity[2] < outer'
      BY <1>1, <1>2, <2>1 DEF PeriodsRead, SlotsOnce, Standing
    <2> QED
      BY <1>1, <2>1, <2>2, <2>3, <2>4, PeriodsStep DEF PeriodsRead
  <1>5. CASE start # Disabled
    <2>1. PICK p : p = [start |-> start, activity |-> <<day, outer>>]
      OBVIOUS
    <2>2. /\ outer \in Starts(day) /\ p \in Period
          /\ periods' = Append(periods, p) /\ Standing(day, p)
          /\ p.activity = <<day, outer>>
      BY <1>1, <1>2, <1>5, <2>1 DEF ReadPeriod, Period, Standing
    <2>3. /\ periods' \in Seq(Period) /\ Len(periods') = n + 1
          /\ periods'[n + 1] = p /\ \A i \in 1 .. n : periods'[i] = periods[i]
      BY <1>1, <2>2
    <2>4. /\ \A i \in 1 .. n : /\ Standing(day, periods[i])
                               /\ periods[i].activity \in {day} \X Starts(day)
                               /\ periods[i].activity[2] < outer
          /\ \A i, j \in 1 .. n : i # j => periods[i].activity[2] # periods[j].activity[2]
      BY <1>1 DEF PeriodsRead, SlotsOnce, Standing
    <2>5. SlotsOnce(periods, day, 0)'
      <3>1. \A i \in 1 .. n + 1 : Standing(day, periods'[i])
        BY <1>1, <2>2, <2>3, <2>4
      <3>2. \A i \in 1 .. n : periods'[i].activity[2] # outer
        BY <1>1, <2>2, <2>3, <2>4
      <3>3. \A i, j \in 1 .. n + 1 :
               i # j => periods'[i].activity[2] # periods'[j].activity[2]
        BY <1>1, <2>2, <2>3, <2>4, <3>2
      <3> QED
        BY <1>1, <1>3, <2>3, <3>1, <3>3 DEF SlotsOnce
    <2>6. SlotsAll(periods, day, 0, outer)'
      <3> SUFFICES ASSUME NEW k \in Starts(day), k < outer + 1
                   PROVE  \E i \in 1 .. n + 1 : periods'[i].activity[2] = k
        BY <1>1, <1>3, <2>3 DEF SlotsAll
      <3>1. CASE k = outer
        BY <1>1, <2>2, <2>3, <3>1
      <3>2. CASE k # outer
        <4>1. PICK i \in 1 .. n : periods[i].activity[2] = k
          BY <1>1, <1>2, <3>2 DEF PeriodsRead, SlotsAll
        <4> QED
          BY <1>1, <2>3, <4>1
      <3> QED
        BY <3>1, <3>2
    <2>7. \A i \in 1 .. Len(periods') : periods'[i].activity[2] < outer'
      <3>1. \A i \in 1 .. n : periods'[i].activity[2] < outer + 1
        <4>1. Starts(day) \subseteq Nat
          BY <1>2
        <4> QED
          BY <1>1, <2>3, <2>4, <4>1
      <3> QED
        BY <1>1, <2>2, <2>3, <3>1
    <2> QED
      BY <1>1, <2>3, <2>5, <2>6, <2>7, PeriodsStep DEF PeriodsRead
  <1> QED
    BY <1>4, <1>5

LEMMA StartSortInv ==
  ASSUME ScheduleInv, StartSort
  PROVE  ScheduleInv'
  <1>1. /\ rendering = "periods" /\ rendering' \in {"sort", "failed"}
        /\ inner' = 2 /\ outer' = 1 /\ day \in WeekDays
        /\ PeriodsRead /\ periods \in Seq(Period) /\ Len(periods) \in Nat
        /\ outer > Len(program[day]) /\ outer \in Nat
        /\ UNCHANGED <<program, blocks, day, periods>>
    BY DEF StartSort, ScheduleInv
  <1>2. /\ \A k \in Starts(day) : k \in 1 .. Len(program[day])
        /\ Len(program[day]) \in Nat
        /\ Starts(day)' = Starts(day)
        /\ \A p : Standing(day, p)' <=> Standing(day, p)
    BY <1>1, StartsIs, ProgramKept DEF Starts, Standing
  <1>3. ASSUME rendering' = "sort" PROVE PeriodsSorted'
    <2>1. \A i \in 1 .. Len(periods') : periods'[i].start # BadTime
      BY <1>1, <1>3 DEF StartSort
    <2>2. SlotsOnce(periods, day, 0)'
      BY <1>1, <1>2 DEF PeriodsRead, SlotsOnce
    <2>3. SlotsAll(periods, day, 0, Len(program[day]) + 1)'
      BY <1>1, <1>2 DEF PeriodsRead, SlotsAll
    <2> QED
      BY <1>1, <2>1, <2>2, <2>3 DEF PeriodsSorted
  <1> QED
    BY <1>1, <1>3, PeriodsStep

\* What a comparison of the sort leaves: the same periods, with the earlier
\* of the two in front.
LEMMA SwappedIs ==
  ASSUME NEW s \in Seq(Period), NEW a \in 1 .. Len(s), NEW b \in a + 1 .. Len(s),
         \A k \in 1 .. Len(s) : s[k].start # BadTime
  PROVE  LET r == Swapped(s, a, b)
         IN  /\ r \in Seq(Period) /\ Len(r) = Len(s)
             /\ \A k \in 1 .. Len(s) : k \notin {a, b} => r[k] = s[k]
             /\ r[a].start <= r[b].start /\ r[a].start <= s[a].start
             /\ \/ r[a] = s[a] /\ r[b] = s[b]
                \/ r[a] = s[b] /\ r[b] = s[a]
  <1> DEFINE r == Swapped(s, a, b)
  <1>1. Len(s) \in Nat /\ a \in 1 .. Len(s) /\ b \in 1 .. Len(s) /\ a # b
    OBVIOUS
  <1>2. s[a].start \in Nat /\ s[b].start \in Nat
    <2>1. s[a] \in Period /\ s[b] \in Period
      BY <1>1
    <2>2. s[a].start \in 0 .. LastMinute /\ s[b].start \in 0 .. LastMinute
      BY <1>1, <2>1 DEF Period
    <2> QED
      BY <2>2
  <1>3. CASE s[a].start > s[b].start
    <2>1. r = [s EXCEPT ![a] = s[b], ![b] = s[a]]
      BY <1>3 DEF Swapped
    <2>2. /\ r \in Seq(Period) /\ Len(r) = Len(s)
          /\ r[a] = s[b] /\ r[b] = s[a]
          /\ \A k \in 1 .. Len(s) : k \notin {a, b} => r[k] = s[k]
      BY <1>1, <2>1
    <2> QED
      BY <1>2, <1>3, <2>2
  <1>4. CASE ~(s[a].start > s[b].start)
    <2>1. r = s
      BY <1>4 DEF Swapped
    <2> QED
      BY <1>1, <1>2, <1>4, <2>1
  <1> QED
    BY <1>3, <1>4

LEMMA SortInv ==
  ASSUME ScheduleInv, Sort
  PROVE  ScheduleInv'
  <1> DEFINE n == Len(periods)
  <1>1. /\ rendering = "sort" /\ rendering' = "sort" /\ PeriodsSorted
        /\ n \in Nat /\ outer \in 1 .. n /\ outer < n /\ inner \in outer + 1 .. n
        /\ periods \in Seq(Period) /\ day \in WeekDays
        /\ periods' = Swapped(periods, outer, inner)
        /\ UNCHANGED <<program, blocks, day>>
    <2>1. PeriodsSorted /\ rendering = "sort" /\ outer < n
      BY DEF Sort, ScheduleInv
    <2>2. n \in Nat /\ outer \in 1 .. n
      BY <2>1 DEF ScheduleInv
    <2> QED
      BY <2>1, <2>2 DEF Sort, ScheduleInv, PeriodsSorted
  <1>2. \A k \in 1 .. n : periods[k].start # BadTime /\ periods[k].start \in Nat
    <2> SUFFICES ASSUME NEW k \in 1 .. n
                 PROVE  periods[k].start # BadTime /\ periods[k].start \in Nat
      OBVIOUS
    <2>1. periods[k] \in Period /\ periods[k].start # BadTime
      BY <1>1 DEF PeriodsSorted
    <2>2. periods[k].start \in 0 .. LastMinute
      BY <2>1 DEF Period
    <2> QED
      BY <2>1, <2>2
  <1>3. /\ periods' \in Seq(Period) /\ Len(periods') = n
        /\ \A k \in 1 .. n : k \notin {outer, inner} => periods'[k] = periods[k]
        /\ periods'[outer].start <= periods'[inner].start
        /\ periods'[outer].start <= periods[outer].start
        /\ \/ periods'[outer] = periods[outer] /\ periods'[inner] = periods[inner]
           \/ periods'[outer] = periods[inner] /\ periods'[inner] = periods[outer]
    <2>1. /\ periods \in Seq(Period) /\ outer \in 1 .. Len(periods)
          /\ inner \in outer + 1 .. Len(periods)
          /\ \A k \in 1 .. Len(periods) : periods[k].start # BadTime
      BY <1>1, <1>2
    <2>2. LET r == Swapped(periods, outer, inner)
          IN  /\ r \in Seq(Period) /\ Len(r) = n
              /\ \A k \in 1 .. n : k \notin {outer, inner} => r[k] = periods[k]
              /\ r[outer].start <= r[inner].start
              /\ r[outer].start <= periods[outer].start
              /\ \/ r[outer] = periods[outer] /\ r[inner] = periods[inner]
                 \/ r[outer] = periods[inner] /\ r[inner] = periods[outer]
      BY <2>1, SwappedIs
    <2>3. periods' = Swapped(periods, outer, inner)
      BY <1>1
    <2> QED
      BY <2>2, <2>3
  <1>4. PICK t \in [1 .. n -> 1 .. n] :
           /\ \A k \in 1 .. n : periods'[k] = periods[t[k]] /\ t[t[k]] = k
           /\ \A k \in 1 .. n : k \notin {outer, inner} => t[k] = k
           /\ t[outer] \in {outer, inner} /\ t[inner] \in {outer, inner}
    <2>1. CASE periods'[outer] = periods[outer] /\ periods'[inner] = periods[inner]
      <3> DEFINE t == [k \in 1 .. n |-> k]
      <3>1. t \in [1 .. n -> 1 .. n]
        OBVIOUS
      <3>2. outer \in 1 .. n /\ inner \in 1 .. n /\ \A k \in 1 .. n : t[k] = k
        BY <1>1
      <3>3. \A k \in 1 .. n : periods'[k] = periods[t[k]] /\ t[t[k]] = k
        BY <1>1, <1>3, <2>1, <3>2
      <3> HIDE DEF t
      <3> QED
        BY <3>1, <3>2, <3>3
    <2>2. CASE periods'[outer] = periods[inner] /\ periods'[inner] = periods[outer]
      <3> DEFINE t == [k \in 1 .. n |-> IF k = outer THEN inner
                                        ELSE IF k = inner THEN outer ELSE k]
      <3>1. t \in [1 .. n -> 1 .. n]
        BY <1>1
      <3>2. outer \in 1 .. n /\ inner \in 1 .. n /\ outer # inner
        BY <1>1
      <3>3. /\ t[outer] = inner /\ t[inner] = outer
            /\ \A k \in 1 .. n : k \notin {outer, inner} => t[k] = k
        BY <3>2
      <3>4. \A k \in 1 .. n : periods'[k] = periods[t[k]]
        BY <1>3, <2>2, <3>3
      <3>5. \A k \in 1 .. n : t[t[k]] = k
        BY <3>3
      <3> HIDE DEF t
      <3> QED
        BY <3>1, <3>3, <3>4, <3>5
    <2> QED
      BY <1>3, <2>1, <2>2
  <1>5. SlotsOnce(periods, day, 0)'
    <2>1. \A k \in 1 .. n : Standing(day, periods'[k])
      <3>1. \A k \in 1 .. n : Standing(day, periods[k])
        BY <1>1 DEF PeriodsSorted, SlotsOnce
      <3> QED
        BY <1>4, <3>1
    <2>2. \A k, l \in 1 .. n :
             k # l => periods'[k].activity[2] # periods'[l].activity[2]
      <3>1. \A k, l \in 1 .. n : k # l => t[k] # t[l]
        BY <1>4
      <3>2. \A k, l \in 1 .. n :
               k # l => periods[k].activity[2] # periods[l].activity[2]
        BY <1>1 DEF PeriodsSorted, SlotsOnce
      <3> QED
        BY <1>4, <3>1, <3>2
    <2> QED
      BY <1>1, <1>3, <2>1, <2>2, ProgramKept DEF SlotsOnce
  <1>6. SlotsAll(periods, day, 0, Len(program[day]) + 1)'
    <2> SUFFICES ASSUME NEW k \in Starts(day), k < Len(program[day]) + 1
                 PROVE  \E l \in 1 .. n : periods'[l].activity[2] = k
      BY <1>1, <1>3, ProgramKept DEF SlotsAll
    <2>1. PICK l \in 1 .. n : periods[l].activity[2] = k
      BY <1>1 DEF PeriodsSorted, SlotsAll
    <2> QED
      BY <1>4, <2>1
  <1>7. \A k \in 1 .. n : periods'[k].start # BadTime
    BY <1>2, <1>4
  <1>8. \A k, l \in 1 .. n :
           k < outer /\ k < l => periods'[k].start <= periods'[l].start
    <2> SUFFICES ASSUME NEW k \in 1 .. n, NEW l \in 1 .. n, k < outer, k < l
                 PROVE  periods'[k].start <= periods'[l].start
      OBVIOUS
    <2>1. t[l] \in 1 .. n /\ k < t[l] /\ t[k] = k
      BY <1>1, <1>4
    <2> QED
      BY <1>1, <1>4, <2>1 DEF PeriodsSorted
  <1>9. \A l \in 1 .. n :
           outer < l /\ l <= inner => periods'[outer].start <= periods'[l].start
    <2> SUFFICES ASSUME NEW l \in 1 .. n, outer < l, l < inner
                 PROVE  periods'[outer].start <= periods'[l].start
      BY <1>1, <1>3
    <2>1. /\ periods'[l] = periods[l] /\ periods[outer].start <= periods[l].start
          /\ periods'[outer].start \in Nat
      BY <1>1, <1>2, <1>3 DEF PeriodsSorted
    <2> QED
      BY <1>1, <1>2, <1>3, <2>1
  <1>10. PeriodsSorted'
    <2>1. CASE inner < n /\ inner' = inner + 1 /\ outer' = outer
      BY <1>1, <1>3, <1>5, <1>6, <1>7, <1>8, <1>9, <2>1 DEF PeriodsSorted
    <2>2. CASE inner = n /\ outer' = outer + 1 /\ inner' = outer + 2
      BY <1>1, <1>3, <1>5, <1>6, <1>7, <1>8, <1>9, <2>2 DEF PeriodsSorted
    <2> QED
      BY <1>1, <2>1, <2>2 DEF Sort
  <1>11. outer' \in Nat \ {0} /\ inner' \in Nat
    BY <1>1 DEF Sort
  <1> QED
    BY <1>1, <1>3, <1>10, <1>11, PeriodsStep

\* The blocks of sorted periods.
LEMMA BlockOfIs ==
  ASSUME NEW s \in Seq(Period), NEW i \in 1 .. Len(s),
         \A k \in 1 .. Len(s) : s[k].start # BadTime,
         \A j, k \in 1 .. Len(s) : j < k => s[j].start <= s[k].start
  PROVE  LET b == BlockOf(s, i)
         IN  /\ b \in Blocks
             /\ b.start = s[i].start /\ b.activity = s[i].activity
             /\ IF i < Len(s) /\ s[i].start < s[i + 1].start
                THEN /\ b.end = s[i + 1].start
                     /\ b.duration = s[i + 1].start - s[i].start
                ELSE b.end = LastMinute /\ b.duration = Minutes - s[i].start
  <1> DEFINE n == Len(s)
             e == EndMinutes(s, i)
             m == s[i].start
  <1>1. n \in Nat /\ 1 \in 1 .. n /\ n \in 1 .. n
        /\ Minutes \in Nat /\ Minutes >= 3 /\ LastMinute = Minutes - 1
    BY ScheduleAssumption DEF LastMinute
  <1>2. \A k \in 1 .. n : s[k].start \in 0 .. Minutes - 1 /\ s[k].activity \in AllStarts
    <2> SUFFICES ASSUME NEW k \in 1 .. n
                 PROVE  s[k].start \in 0 .. Minutes - 1 /\ s[k].activity \in AllStarts
      OBVIOUS
    <2>1. s[k] \in Period /\ s[k].start # BadTime
      OBVIOUS
    <2> QED
      BY <1>1, <2>1 DEF Period
  <1>3. e \in 0 .. Minutes - 1 /\ m \in 0 .. Minutes - 1 /\ s[i].activity \in AllStarts
    BY <1>1, <1>2 DEF EndMinutes
  <1>4. m < e <=> i < n /\ m < s[i + 1].start
    <2>1. CASE i < n
      BY <1>2, <2>1 DEF EndMinutes
    <2>2. CASE i = n
      <3>1. e = s[1].start /\ s[1].start <= m
        BY <1>1, <1>2, <2>2 DEF EndMinutes
      <3> QED
        BY <1>3, <2>2, <3>1
    <2> QED
      BY <1>1, <2>1, <2>2
  <1>5. CASE m < e
    <2>1. BlockOf(s, i) = Block(s[i], e, e - m) /\ e = s[i + 1].start
      BY <1>3, <1>4, <1>5 DEF BlockOf, EndMinutes
    <2>2. e - m \in 1 .. Minutes
      BY <1>1, <1>3, <1>5
    <2> QED
      BY <1>1, <1>3, <1>4, <1>5, <2>1, <2>2 DEF Block, Blocks
  <1>6. CASE ~(m < e)
    <2>1. BlockOf(s, i) = Block(s[i], LastMinute, Minutes - m)
      BY <1>3, <1>6 DEF BlockOf
    <2>2. Minutes - m \in 1 .. Minutes
      BY <1>1, <1>3
    <2> QED
      BY <1>1, <1>3, <1>4, <1>6, <2>1, <2>2 DEF Block, Blocks
  <1> QED
    BY <1>5, <1>6

\* Periods in the same places.
LEMMA SameSlots ==
  ASSUME NEW s, NEW t, NEW d, NEW m, Len(s) \in Nat, Len(t) = Len(s),
         \A i \in 1 .. Len(s) : /\ t[i].start = s[i].start
                                /\ t[i].activity = s[i].activity,
         SlotsOnce(s, d, 0), SlotsAll(s, d, 0, m)
  PROVE  SlotsOnce(t, d, 0) /\ SlotsAll(t, d, 0, m)
  <1>1. \A i \in 1 .. Len(s) : Standing(d, t[i])
    BY DEF SlotsOnce, Standing
  <1>2. \A i, j \in 1 .. Len(s) : i # j => t[i].activity[2] # t[j].activity[2]
    BY DEF SlotsOnce
  <1>3. ASSUME NEW k \in Starts(d), k < m
        PROVE  \E i \in 1 .. Len(s) : t[i].activity[2] = k
    <2>1. PICK i \in 1 .. Len(s) : s[i].activity[2] = k
      BY <1>3 DEF SlotsAll
    <2> QED
      BY <2>1
  <1> QED
    BY <1>1, <1>2, <1>3 DEF SlotsOnce, SlotsAll

LEMMA ComputeDayInv ==
  ASSUME ScheduleInv, ComputeDay
  PROVE  ScheduleInv'
  <1> DEFINE n == Len(periods)
             r == [i \in 1 .. n |-> BlockOf(periods, i)]
  <1>1. /\ rendering = "sort" /\ outer >= n /\ n \in Nat /\ outer \in Nat
        /\ PeriodsSorted /\ periods \in Seq(Period)
        /\ day \in WeekDays /\ blocks \in [WeekDays -> Seq(Blocks)]
        /\ program' = program /\ blocks' = [blocks EXCEPT ![day] = r]
        /\ periods' = <<>> /\ outer' = 1 /\ inner' = 2
        /\ \A d \in WeekDays : d < day => DayOK(d, 0)
    BY DEF ComputeDay, NoPeriods, ScheduleInv
  <1>2. \A j, k \in 1 .. n : j < k => periods[j].start <= periods[k].start
    BY <1>1 DEF PeriodsSorted
  <1>3. \A i \in 1 .. n :
           /\ r[i] \in Blocks
           /\ r[i].start = periods[i].start /\ r[i].activity = periods[i].activity
           /\ IF i < n /\ periods[i].start < periods[i + 1].start
              THEN /\ r[i].end = periods[i + 1].start
                   /\ r[i].duration = periods[i + 1].start - periods[i].start
              ELSE r[i].end = LastMinute /\ r[i].duration = Minutes - periods[i].start
    <2> SUFFICES ASSUME NEW i \in 1 .. n
                 PROVE  LET c == BlockOf(periods, i)
                        IN  /\ c \in Blocks
                            /\ c.start = periods[i].start /\ c.activity = periods[i].activity
                            /\ IF i < n /\ periods[i].start < periods[i + 1].start
                               THEN /\ c.end = periods[i + 1].start
                                    /\ c.duration = periods[i + 1].start - periods[i].start
                               ELSE c.end = LastMinute /\ c.duration = Minutes - periods[i].start
      OBVIOUS
    <2> QED
      BY <1>1, <1>2, BlockOfIs DEF PeriodsSorted
  <1>4. /\ Len(r) = n /\ r \in Seq(Blocks)
        /\ \A i \in 1 .. n : /\ r[i].start = periods[i].start
                             /\ r[i].activity = periods[i].activity
    BY <1>1, <1>3
  <1>5. /\ blocks' \in [WeekDays -> Seq(Blocks)] /\ blocks'[day] = r
        /\ \A d \in WeekDays : d # day => blocks'[d] = blocks[d]
    BY <1>1, <1>4
  <1> HIDE DEF r
  <1>6. ASSUME NEW d, d = day PROVE DayOK(d, 0)'
    <2>0. PICK m : m = Len(program[d]) + 1
      OBVIOUS
    <2>1. SlotsOnce(periods, d, 0) /\ SlotsAll(periods, d, 0, m)
      BY <1>1, <1>6, <2>0 DEF PeriodsSorted
    <2>2. SlotsOnce(r, d, 0) /\ SlotsAll(r, d, 0, m)
      BY <1>1, <1>4, <2>1, SameSlots
    <2>3. \A i, j \in 1 .. n : i < j => r[i].start <= r[j].start
      BY <1>2, <1>4
    <2>4. \A i \in 1 .. n : BlockEnds(r, i)
      <3> SUFFICES ASSUME NEW i \in 1 .. n PROVE BlockEnds(r, i)
        OBVIOUS
      <3>1. i < n => i + 1 \in 1 .. n
        BY <1>1
      <3>2. i < n => r[i + 1].start = periods[i + 1].start
        BY <1>4, <3>1
      <3> QED
        BY <1>3, <1>4, <3>2 DEF BlockEnds
    <2>5. blocks'[d] = r
      BY <1>5, <1>6
    <2>6. SlotsOnce(blocks[d], d, 0)' /\ SlotsAll(blocks[d], d, 0, Len(program[d]) + 1)'
      <3>1. /\ Starts(d)' = Starts(d)
            /\ \A p : Standing(d, p)' <=> Standing(d, p)
        BY <1>1, ProgramKept DEF Starts, Standing
      <3>2. SlotsOnce(blocks[d], d, 0)'
        BY <2>2, <2>5, <3>1 DEF SlotsOnce
      <3>3. SlotsAll(blocks[d], d, 0, Len(program[d]) + 1)'
        BY <1>1, <2>0, <2>2, <2>5, <3>1 DEF SlotsAll
      <3> QED
        BY <3>2, <3>3
    <2>7. \A i \in 1 .. n : BlockEnds(blocks[d], i)'
      BY <2>4, <2>5 DEF BlockEnds
    <2>8. /\ 0 <= Len(blocks'[d])
          /\ \A i, j \in 0 + 1 .. Len(blocks'[d]) :
                i < j => blocks'[d][i].start <= blocks'[d][j].start
          /\ \A i \in 0 + 1 .. Len(blocks'[d]) : BlockEnds(blocks[d], i)'
      BY <1>1, <1>4, <2>3, <2>5, <2>7
    <2> QED
      BY <2>6, <2>8 DEF DayOK
  <1>7. \A d \in WeekDays : d <= day => DayOK(d, 0)'
    <2> SUFFICES ASSUME NEW d \in WeekDays, d <= day PROVE DayOK(d, 0)'
      OBVIOUS
    <2>1. CASE d = day
      BY <1>6, <2>1
    <2>2. CASE d # day
      <3>1. d < day /\ blocks'[d] = blocks[d]
        BY <1>1, <1>5, <2>2, ScheduleAssumption DEF WeekDays
      <3> QED
        BY <1>1, <3>1, DayKept
    <2> QED
      BY <2>1, <2>2
  <1>8. ASSUME day' \in WeekDays PROVE PeriodsRead'
    <2>1. Starts(day)' \subseteq Nat \ {0}
      BY <1>1, <1>8 DEF ScheduleInv, Starts
    <2> QED
      BY <1>1, <2>1 DEF PeriodsRead, SlotsOnce, SlotsAll
  <1>9. CASE day = Days - 1
    <2>1. day' = 0 /\ rendering' = "crossover" /\ day' \in WeekDays
      BY <1>1, <1>9 DEF ComputeDay, Advance, WeekDays
    <2>2. \A d \in WeekDays : DayOK(d, 0)' /\ ~Crossed(d)'
      BY <1>7, <1>9, <2>1, ScheduleAssumption DEF WeekDays, Crossed
    <2> QED
      BY <1>1, <1>5, <2>1, <2>2, ProgramKept DEF ScheduleInv
  <1>10. CASE day # Days - 1
    <2>1. day' = day + 1 /\ rendering' = "periods" /\ day' \in WeekDays
      BY <1>1, <1>10, ScheduleAssumption DEF ComputeDay, Advance, WeekDays
    <2>2. \A d \in WeekDays : d < day' => d <= day
      BY <1>1, <2>1, ScheduleAssumption DEF WeekDays
    <2> QED
      BY <1>1, <1>5, <1>7, <1>8, <2>1, <2>2, ProgramKept DEF ScheduleInv
  <1> QED
    BY <1>9, <1>10

\* The last block of a day, if it has any period, is the latest one, and it
\* alone shows 23:59.
LEMMA LastBlockIs ==
  ASSUME ScheduleInv, NEW y \in WeekDays,
         DayOK(y, 0) \/ (DayOK(y, 1) /\ FromYesterday(y))
  PROVE  LET b == blocks[y]
             n == Len(b)
         IN  /\ n \in Nat /\ (b # <<>> <=> n > 0)
             /\ b # <<>> /\ b[n].end = LastMinute <=> Starts(y) # {}
             /\ Starts(y) # {} =>
                   /\ b[n].activity \in {y} \X Starts(y)
                   /\ \A k \in Starts(y) :
                         program[y][k] <= program[y][b[n].activity[2]]
  <1> DEFINE b == blocks[y]
             n == Len(b)
  <1>1. b \in Seq(Blocks) /\ n \in Nat /\ (b # <<>> <=> n > 0)
    <2>1. b \in Seq(Blocks)
      BY DEF ScheduleInv
    <2> HIDE DEF b
    <2> QED
      BY <2>1
  <1>2. PICK x \in {0, 1} : DayOK(y, x) /\ (x = 1 => FromYesterday(y))
    OBVIOUS
  <1>3. /\ x <= n
        /\ \A i \in x + 1 .. n : /\ b[i].activity \in {y} \X Starts(y)
                                 /\ b[i].start = program[y][b[i].activity[2]]
                                 /\ BlockEnds(b, i)
        /\ \A i, j \in x + 1 .. n : i < j => b[i].start <= b[j].start
    <2>1. /\ x <= n /\ SlotsOnce(b, y, x)
          /\ \A i \in x + 1 .. n : BlockEnds(b, i)
          /\ \A i, j \in x + 1 .. n : i < j => b[i].start <= b[j].start
      BY <1>2 DEF DayOK
    <2>2. \A i \in x + 1 .. n : Standing(y, b[i])
      BY <2>1 DEF SlotsOnce
    <2> QED
      BY <2>1, <2>2 DEF Standing
  <1>4. CASE Starts(y) = {}
    <2>1. n = x
      <3>1. ~(x + 1 \in x + 1 .. n)
        BY <1>3, <1>4
      <3> QED
        BY <1>1, <1>2, <1>3, <3>1
    <2>2. x = 1 => b[n].end = DefaultEnd
      BY <1>2, <2>1 DEF FromYesterday
    <2>3. DefaultEnd # LastMinute
      BY ScheduleAssumption DEF LastMinute
    <2> QED
      BY <1>1, <1>2, <1>4, <2>1, <2>2, <2>3
  <1>5. CASE Starts(y) # {}
    <2>1. \A k \in Starts(y) : \E i \in x + 1 .. n : b[i].activity[2] = k
      <3>1. \A k \in Starts(y) : k < Len(program[y]) + 1
        BY StartsIs
      <3> QED
        BY <1>2, <3>1 DEF DayOK, SlotsAll
    <2>2. n \in x + 1 .. n
      BY <1>1, <1>2, <1>5, <2>1
    <2>3. b[n].end = LastMinute
      BY <1>1, <1>3, <2>2 DEF BlockEnds
    <2>4. ASSUME NEW k \in Starts(y)
          PROVE  program[y][k] <= program[y][b[n].activity[2]]
      <3>1. PICK i \in x + 1 .. n : b[i].activity[2] = k
        BY <2>1
      <3>2. b[i].start = program[y][k] /\ b[n].start = program[y][b[n].activity[2]]
        BY <1>3, <2>2, <3>1
      <3>3. b[n].start \in Nat /\ n \in Nat /\ i \in Nat /\ i <= n
        <4>1. n \in 1 .. n
          BY <1>1, <1>2, <2>2
        <4>2. b[n] \in Blocks
          BY <1>1, <4>1
        <4> QED
          BY <1>1, <1>2, <4>2 DEF Blocks
      <3>4. b[i].start <= b[n].start
        BY <1>3, <2>2, <3>3
      <3> QED
        BY <3>2, <3>4
    <2> QED
      BY <1>1, <1>2, <1>3, <1>5, <2>2, <2>3, <2>4
  <1> QED
    BY <1>4, <1>5

\* A block in front moves the others on.
LEMMA Shifted ==
  ASSUME NEW d, NEW m, NEW s \in Seq(Blocks), NEW c \in Blocks,
         SlotsOnce(s, d, 0), SlotsAll(s, d, 0, m)
  PROVE  LET t == <<c>> \o s
         IN  /\ t \in Seq(Blocks) /\ Len(t) = Len(s) + 1 /\ t[1] = c
             /\ \A i \in 1 .. Len(s) : t[i + 1] = s[i]
             /\ SlotsOnce(t, d, 1) /\ SlotsAll(t, d, 1, m)
  <1> DEFINE t == <<c>> \o s
             n == Len(s)
  <1>1. /\ t \in Seq(Blocks) /\ Len(t) = n + 1 /\ t[1] = c /\ n \in Nat
        /\ \A i \in 1 .. n : t[i + 1] = s[i]
    OBVIOUS
  <1> HIDE DEF t
  <1>2. \A i \in 2 .. n + 1 : i - 1 \in 1 .. n /\ t[i] = s[i - 1]
    <2> SUFFICES ASSUME NEW i \in 2 .. n + 1
                 PROVE  i - 1 \in 1 .. n /\ t[i] = s[i - 1]
      OBVIOUS
    <2>1. i - 1 \in 1 .. n /\ (i - 1) + 1 = i
      BY <1>1
    <2> QED
      BY <1>1, <2>1
  <1>3. SlotsOnce(t, d, 1)
    <2>1. \A i \in 2 .. n + 1 : Standing(d, t[i])
      BY <1>2 DEF SlotsOnce
    <2>2. \A i, j \in 2 .. n + 1 : i # j => t[i].activity[2] # t[j].activity[2]
      <3> SUFFICES ASSUME NEW i \in 2 .. n + 1, NEW j \in 2 .. n + 1, i # j
                   PROVE  t[i].activity[2] # t[j].activity[2]
        OBVIOUS
      <3>1. i - 1 \in 1 .. n /\ j - 1 \in 1 .. n /\ i - 1 # j - 1
        BY <1>1, <1>2
      <3> QED
        BY <1>2, <3>1 DEF SlotsOnce
    <2> QED
      BY <1>1, <2>1, <2>2 DEF SlotsOnce
  <1>4. SlotsAll(t, d, 1, m)
    <2> SUFFICES ASSUME NEW k \in Starts(d), k < m
                 PROVE  \E i \in 2 .. n + 1 : t[i].activity[2] = k
      BY <1>1 DEF SlotsAll
    <2>1. PICK i \in 1 .. n : s[i].activity[2] = k
      BY DEF SlotsAll
    <2>2. i + 1 \in 2 .. n + 1 /\ t[i + 1].activity[2] = k
      BY <1>1, <2>1
    <2> QED
      BY <2>2
  <1> QED
    BY <1>1, <1>3, <1>4 DEF t

\* What a day without a block in front gets from the day before.
LEMMA CrossoverIs ==
  ASSUME ScheduleInv, rendering = "crossover", NEW d \in WeekDays,
         DayOK(d, 0), Unfinished(d), CrossoverEnd(d) > 0
  PROVE  LET y == Yesterday(d)
             c == Crossover(d)
         IN  /\ c \in Blocks /\ c.start = 0
             /\ c.duration = c.end /\ c.duration > 0
             /\ c.end = IF Len(blocks[d]) > 0 THEN blocks[d][1].start
                                              ELSE DefaultEnd
             /\ c.activity \in {y} \X Starts(y)
             /\ \A k \in Starts(y) : program[y][k] <= program[y][c.activity[2]]
  <1> DEFINE y == Yesterday(d)
             b == blocks[y]
             e == CrossoverEnd(d)
  <1>1. y \in WeekDays /\ (DayOK(y, 0) \/ (DayOK(y, 1) /\ FromYesterday(y)))
    <2>1. y \in WeekDays
      BY YesterdayIs
    <2>2. \A z \in WeekDays :
             \/ DayOK(z, 0) /\ (Crossed(z) => NothingMissing(z))
             \/ DayOK(z, 1) /\ FromYesterday(z) /\ Crossed(z)
      BY DEF ScheduleInv
    <2> HIDE DEF y
    <2> QED
      BY <2>1, <2>2
  <1>2. /\ Starts(y) # {}
        /\ b[Len(b)].activity \in {y} \X Starts(y)
        /\ \A k \in Starts(y) :
              program[y][k] <= program[y][b[Len(b)].activity[2]]
    BY <1>1, LastBlockIs DEF Unfinished
  <1>3. /\ e = IF Len(blocks[d]) > 0 THEN blocks[d][1].start ELSE DefaultEnd
        /\ e \in 1 .. LastMinute /\ e <= Minutes /\ LastMinute \in Nat
    <2>1. /\ blocks[d] \in Seq(Blocks)
          /\ Minutes \in Nat /\ LastMinute = Minutes - 1 /\ LastMinute \in Nat
          /\ DefaultEnd \in 0 .. LastMinute
      BY ScheduleAssumption DEF LastMinute, ScheduleInv
    <2>2. blocks[d] # <<>> <=> Len(blocks[d]) > 0
      BY <2>1
    <2>3. CASE Len(blocks[d]) > 0
      <3>1. blocks[d][1] \in Blocks
        BY <2>1, <2>3
      <3>2. e = blocks[d][1].start /\ e \in 0 .. LastMinute
        BY <2>2, <2>3, <3>1 DEF CrossoverEnd, Blocks
      <3> QED
        BY <2>1, <2>3, <3>2
    <2>4. CASE ~(Len(blocks[d]) > 0)
      <3>1. e = DefaultEnd
        BY <2>2, <2>4 DEF CrossoverEnd
      <3> QED
        BY <2>1, <2>4, <3>1
    <2> QED
      BY <2>3, <2>4
  <1>4. Crossover(d) = [start |-> 0, end |-> e, duration |-> e,
                        activity |-> b[Len(b)].activity]
    BY DEF Crossover
  <1>5. b[Len(b)].activity \in AllStarts
    BY <1>1, <1>2, StartsIs
  <1>6. Crossover(d) \in Blocks
    BY <1>3, <1>4, <1>5, ScheduleAssumption DEF Blocks
  <1> HIDE DEF e
  <1> QED
    BY <1>2, <1>3, <1>4, <1>6

LEMMA CrossoverInv ==
  ASSUME ScheduleInv, AddCrossoverBlock
  PROVE  ScheduleInv'
  <1>1. /\ rendering = "crossover" /\ day \in WeekDays
        /\ blocks \in [WeekDays -> Seq(Blocks)]
        /\ UNCHANGED <<program, periods, outer, inner>>
        /\ Days \in Nat /\ Days >= 2 /\ WeekDays = 0 .. Days - 1
    BY ScheduleAssumption DEF AddCrossoverBlock, ScheduleInv, sortVars, WeekDays
  <1>2. /\ day' \in WeekDays /\ rendering' \in {"crossover", "shown"}
        /\ \A d \in WeekDays : d = day => ~Crossed(d) /\ Crossed(d)'
        /\ \A d \in WeekDays : d # day /\ Crossed(d)' => Crossed(d)
        /\ \A d \in WeekDays : Crossed(d) => Crossed(d)'
    BY <1>1 DEF AddCrossoverBlock, Advance, Crossed
  <1>3. \A d \in WeekDays :
           \/ DayOK(d, 0) /\ (Crossed(d) => NothingMissing(d))
           \/ DayOK(d, 1) /\ FromYesterday(d) /\ Crossed(d)
    BY <1>1 DEF ScheduleInv
  <1>4. ASSUME NEW d \in WeekDays, blocks'[d] = blocks[d]
        PROVE  /\ NothingMissing(d)' <=> NothingMissing(d)
               /\ FromYesterday(d)' <=> FromYesterday(d)
    BY <1>1, <1>4, ProgramKept DEF NothingMissing, FromYesterday
  <1>5. ASSUME NEW d \in WeekDays, d # day, blocks'[d] = blocks[d]
        PROVE  \/ DayOK(d, 0)' /\ (Crossed(d)' => NothingMissing(d)')
               \/ DayOK(d, 1)' /\ FromYesterday(d)' /\ Crossed(d)'
    <2>1. DayOK(d, 0) => DayOK(d, 0)'
      BY <1>1, <1>5, DayKept
    <2>2. DayOK(d, 1) => DayOK(d, 1)'
      BY <1>1, <1>5, DayKept
    <2> QED
      BY <1>2, <1>3, <1>4, <1>5, <2>1, <2>2
  <1>6. PICK d \in WeekDays : d = day /\ DayOK(d, 0)
    BY <1>1, <1>2, <1>3
  <1> DEFINE y == Yesterday(d)
             s == blocks[d]
  <1>7. s \in Seq(Blocks) /\ Len(s) \in Nat
    BY <1>1
  <1>8. CASE Unfinished(d) /\ CrossoverEnd(d) > 0
    <2>1. PICK c : c = Crossover(d)
      OBVIOUS
    <2>2. /\ c \in Blocks /\ c.start = 0
          /\ c.duration = c.end /\ c.duration > 0
          /\ c.end = IF Len(s) > 0 THEN s[1].start ELSE DefaultEnd
          /\ c.activity \in {y} \X Starts(y)
          /\ \A k \in Starts(y) : program[y][k] <= program[y][c.activity[2]]
      BY <1>1, <1>6, <1>8, <2>1, CrossoverIs
    <2>3. PICK t : t = <<c>> \o s
      OBVIOUS
    <2>4. PICK m : m = Len(program[d]) + 1
      OBVIOUS
    <2>5. SlotsOnce(s, d, 0) /\ SlotsAll(s, d, 0, m)
      BY <1>6, <2>4 DEF DayOK
    <2>6. /\ t \in Seq(Blocks) /\ Len(t) = Len(s) + 1 /\ t[1] = c
          /\ \A i \in 1 .. Len(s) : t[i + 1] = s[i]
          /\ SlotsOnce(t, d, 1) /\ SlotsAll(t, d, 1, m)
      BY <1>7, <2>2, <2>3, <2>5, Shifted
    <2>7. \A i \in 2 .. Len(t) : i - 1 \in 1 .. Len(s) /\ t[i] = s[i - 1]
      <3> SUFFICES ASSUME NEW i \in 2 .. Len(t)
                   PROVE  i - 1 \in 1 .. Len(s) /\ t[i] = s[i - 1]
        OBVIOUS
      <3>1. i - 1 \in 1 .. Len(s) /\ (i - 1) + 1 = i
        BY <1>7, <2>6
      <3> QED
        BY <2>6, <3>1
    <2>8. blocks' = [blocks EXCEPT ![d] = t]
      BY <1>6, <1>8, <2>1, <2>3 DEF AddCrossoverBlock
    <2>9. /\ blocks' \in [WeekDays -> Seq(Blocks)] /\ blocks'[d] = t
          /\ \A e \in WeekDays : e # d => blocks'[e] = blocks[e]
      BY <1>1, <2>6, <2>8
    <2>10. \A i, j \in 2 .. Len(t) : i < j => t[i].start <= t[j].start
      <3> SUFFICES ASSUME NEW i \in 2 .. Len(t), NEW j \in 2 .. Len(t), i < j
                   PROVE  t[i].start <= t[j].start
        OBVIOUS
      <3>1. i - 1 \in 1 .. Len(s) /\ j - 1 \in 1 .. Len(s) /\ i - 1 < j - 1
        BY <1>7, <2>6, <2>7
      <3>2. s[i - 1].start <= s[j - 1].start
        <4>1. \A k, l \in 1 .. Len(s) : k < l => s[k].start <= s[l].start
          BY <1>6 DEF DayOK
        <4> QED
          BY <3>1, <4>1
      <3> QED
        BY <2>7, <3>2
    <2>11. \A i \in 2 .. Len(t) : BlockEnds(t, i)
      <3> SUFFICES ASSUME NEW i \in 2 .. Len(t) PROVE BlockEnds(t, i)
        OBVIOUS
      <3>1. i - 1 \in 1 .. Len(s) /\ t[i] = s[i - 1] /\ (i - 1) + 1 = i
        BY <2>7
      <3>2. BlockEnds(s, i - 1)
        BY <1>6, <3>1 DEF DayOK
      <3>3. i < Len(t) <=> i - 1 < Len(s)
        BY <1>7, <2>6
      <3>4. i < Len(t) => t[i + 1] = s[i]
        BY <1>7, <2>6
      <3> QED
        BY <3>1, <3>2, <3>3, <3>4 DEF BlockEnds
    <2>12. DayOK(d, 1)'
      <3>1. /\ Starts(d)' = Starts(d)
            /\ \A p : Standing(d, p)' <=> Standing(d, p)
        BY <1>1, ProgramKept DEF Starts, Standing
      <3>2. SlotsOnce(blocks[d], d, 1)'
        BY <2>6, <2>9, <3>1 DEF SlotsOnce
      <3>3. SlotsAll(blocks[d], d, 1, Len(program[d]) + 1)'
        BY <1>1, <2>4, <2>6, <2>9, <3>1 DEF SlotsAll
      <3>4. \A i \in 2 .. Len(t) : BlockEnds(blocks[d], i)'
        BY <2>9, <2>11 DEF BlockEnds
      <3>5. 1 <= Len(t)
        BY <1>7, <2>6
      <3>6. /\ 1 <= Len(blocks'[d])
            /\ \A i, j \in 1 + 1 .. Len(blocks'[d]) :
                  i < j => blocks'[d][i].start <= blocks'[d][j].start
            /\ \A i \in 1 + 1 .. Len(blocks'[d]) : BlockEnds(blocks[d], i)'
        BY <2>9, <2>10, <3>4, <3>5
      <3> QED
        BY <3>2, <3>3, <3>6 DEF DayOK
    <2>13. FromYesterday(d)'
      <3>1. Len(t) > 1 <=> Len(s) > 0
        BY <1>7, <2>6
      <3>2. Len(s) > 0 => t[2] = s[1]
        BY <1>7, <2>6
      <3>3. c.end = IF Len(t) > 1 THEN t[2].start ELSE DefaultEnd
        BY <2>2, <3>1, <3>2
      <3>4. Starts(y)' = Starts(y)
        BY <1>1 DEF Starts
      <3> QED
        BY <1>1, <2>2, <2>6, <2>9, <3>3, <3>4 DEF FromYesterday
    <2>14. \A e \in WeekDays :
              \/ DayOK(e, 0)' /\ (Crossed(e)' => NothingMissing(e)')
              \/ DayOK(e, 1)' /\ FromYesterday(e)' /\ Crossed(e)'
      BY <1>2, <1>5, <1>6, <2>9, <2>12, <2>13
    <2> QED
      BY <1>1, <1>2, <2>9, <2>14, ProgramKept DEF ScheduleInv
  <1>9. CASE ~(Unfinished(d) /\ CrossoverEnd(d) > 0)
    <2>1. blocks' = blocks
      BY <1>6, <1>9 DEF AddCrossoverBlock
    <2>2. NothingMissing(d)
      <3> SUFFICES ASSUME Starts(d) # {}, Starts(y) # {}
                   PROVE  s[1].start = 0
        BY DEF NothingMissing
      <3>1. y \in WeekDays /\ (DayOK(y, 0) \/ (DayOK(y, 1) /\ FromYesterday(y)))
        <4>1. y \in WeekDays
          BY YesterdayIs
        <4> HIDE DEF y
        <4> QED
          BY <1>3, <4>1
      <3>2. Unfinished(d)
        BY <3>1, LastBlockIs DEF Unfinished
      <3>3. s # <<>>
        <4>1. blocks[d] # <<>> /\ blocks[d][Len(blocks[d])].end = LastMinute
          BY <1>6, LastBlockIs
        <4> QED
          BY <4>1
      <3>4. s[1] \in Blocks
        BY <1>7, <3>3
      <3>5. s[1].start = CrossoverEnd(d) /\ s[1].start \in Nat
        BY <3>3, <3>4 DEF CrossoverEnd, Blocks
      <3> QED
        BY <1>9, <3>2, <3>5
    <2>3. DayOK(d, 0)'
      BY <1>1, <1>6, <2>1, DayKept
    <2>4. \A e \in WeekDays :
              \/ DayOK(e, 0)' /\ (Crossed(e)' => NothingMissing(e)')
              \/ DayOK(e, 1)' /\ FromYesterday(e)' /\ Crossed(e)'
      BY <1>4, <1>5, <1>6, <2>1, <2>2, <2>3
    <2> QED
      BY <1>1, <1>2, <2>1, <2>4, ProgramKept DEF ScheduleInv
  <1> QED
    BY <1>8, <1>9

LEMMA ScheduleInvStep ==
  ASSUME ScheduleInv, [ScheduleNext]_scheduleVars
  PROVE  ScheduleInv'
  <1>1. CASE ScheduleNext
    BY <1>1, ReadPeriodInv, StartSortInv, SortInv, ComputeDayInv, CrossoverInv
    DEF ScheduleNext
  <1>2. CASE UNCHANGED scheduleVars
    <2>1. UNCHANGED <<program, blocks, rendering, day, periods, outer, inner>>
      BY <1>2 DEF scheduleVars, sortVars
    <2>2. /\ PeriodsRead' <=> PeriodsRead
          /\ PeriodsSorted' <=> PeriodsSorted
          /\ \A d : Crossed(d)' <=> Crossed(d)
      BY <2>1, ProgramKept
      DEF PeriodsRead, PeriodsSorted, Crossed, SlotsOnce, SlotsAll
    <2>3. \A d : NothingMissing(d)' <=> NothingMissing(d)
      BY <2>1, ProgramKept DEF NothingMissing
    <2>4. \A d : FromYesterday(d)' <=> FromYesterday(d)
      BY <2>1, ProgramKept DEF FromYesterday
    <2>5. \A d : DayOK(d, 0) => DayOK(d, 0)'
      BY <2>1, DayKept
    <2>6. \A d : DayOK(d, 1) => DayOK(d, 1)'
      BY <2>1, DayKept
    <2> QED
      BY <2>1, <2>2, <2>3, <2>4, <2>5, <2>6, ProgramKept DEF ScheduleInv
  <1> QED
    BY <1>1, <1>2

\* How long before minute m of day d minute w of day e was last: times round
\* the week in a line.
LEMMA AgoIs ==
  ASSUME NEW d \in WeekDays, NEW e \in WeekDays,
         NEW m \in 0 .. LastMinute, NEW w \in 0 .. LastMinute
  PROVE  LET a == ((d - e) * Minutes + m - w) % (Days * Minutes)
         IN  /\ a \in Int
             /\ e = d /\ w <= m => a = m - w
             /\ e = Yesterday(d) => a = Minutes + m - w
             /\ (e = d /\ w > m) \/ (e # d /\ e # Yesterday(d)) => a >= Minutes + m
  <1>1. /\ Days \in Nat /\ Days >= 2 /\ Minutes \in Nat /\ Minutes >= 3
        /\ d \in 0 .. Days - 1 /\ e \in 0 .. Days - 1
        /\ m \in 0 .. Minutes - 1 /\ w \in 0 .. Minutes - 1
    BY ScheduleAssumption DEF WeekDays, LastMinute
  <1>2. \A y, z \in Int : y <= z => y * Minutes <= z * Minutes
    BY <1>1
  <1>3. PICK n \in Nat : n = Days * Minutes
    BY <1>1
  <1>4. n >= 2 * Minutes /\ (Days - 1) * Minutes = n - Minutes
    BY <1>1, <1>2, <1>3
  <1>5. PICK x \in Int : x = (d - e) * Minutes
    BY <1>1
  <1>6. Minutes - n <= x /\ x <= n - Minutes
    <2>1. -(Days - 1) <= d - e /\ d - e <= Days - 1
      BY <1>1
    <2>2. (-(Days - 1)) * Minutes = Minutes - n
      BY <1>1, <1>3
    <2>3. (-(Days - 1)) * Minutes <= x
      BY <1>1, <1>2, <1>5, <2>1
    <2>4. x <= (Days - 1) * Minutes
      BY <1>1, <1>2, <1>5, <2>1
    <2> QED
      BY <1>1, <1>4, <2>2, <2>3, <2>4
  <1>7. x + m - w \in Int /\ -n <= x + m - w /\ x + m - w < n
    BY <1>1, <1>3, <1>6
  <1>8. PICK a \in Int : a = (x + m - w) % n
    BY <1>1, <1>3, <1>4, <1>5
  <1>9. a = IF x + m - w >= 0 THEN x + m - w ELSE x + m - w + n
    <2>1. PICK z \in Int : z = x + m - w
      BY <1>7
    <2>2. /\ 0 <= z /\ z < n => z % n = z
          /\ -n <= z /\ z < 0 => z % n = z + n
      <3>1. n \in Nat \ {0}
        BY <1>1, <1>3, <1>4
      <3> QED
        BY <2>1, <3>1, Residue
    <2> QED
      BY <1>7, <1>8, <2>1, <2>2
  <1>10. CASE e = d
    <2>1. x = 0
      BY <1>1, <1>5, <1>10
    <2> QED
      BY <1>1, <1>3, <1>4, <1>5, <1>8, <1>9, <1>10, <2>1, YesterdayIs
  <1>11. CASE e < d
    <2>1. 1 * Minutes <= x
      BY <1>1, <1>2, <1>5, <1>11
    <2>2. e # d - 1 => 2 * Minutes <= x
      BY <1>1, <1>2, <1>5, <1>11
    <2>3. e = d - 1 => x = Minutes
      BY <1>1, <1>5
    <2>4. Yesterday(d) = d - 1
      BY <1>1, <1>11, YesterdayIs
    <2> QED
      BY <1>1, <1>3, <1>5, <1>8, <1>9, <1>11, <2>1, <2>2, <2>3, <2>4
  <1>12. CASE e > d
    <2>1. PICK y \in Int : y = d - e + Days
      BY <1>1
    <2>2. x + n = y * Minutes
      BY <1>1, <1>3, <1>5, <2>1
    <2>3. x <= (-1) * Minutes
      BY <1>1, <1>2, <1>5, <1>12
    <2>4. y >= 1 /\ (y = 1 <=> e = Yesterday(d))
      BY <1>1, <1>12, <2>1, YesterdayIs
    <2>5. y # 1 => 2 * Minutes <= y * Minutes
      BY <1>1, <1>2, <2>1, <2>4
    <2>6. y = 1 => x + n = Minutes
      BY <1>1, <2>2
    <2> QED
      BY <1>1, <1>3, <1>5, <1>8, <1>9, <1>12, <2>2, <2>3, <2>4, <2>5, <2>6
  <1> QED
    BY <1>1, <1>10, <1>11, <1>12

\* A set of indices has a largest one.
LEMMA LargestIndex ==
  ASSUME NEW n \in Nat, NEW S, S \subseteq 1 .. n, S # {}
  PROVE  \E i \in S : \A j \in S : j <= i
  <1> DEFINE T == {n - i : i \in S}
  <1>1. T \subseteq Nat /\ T # {}
    <2>1. \A i \in S : n - i \in Nat
      OBVIOUS
    <2> QED
      BY <2>1
  <1>2. PICK x \in T : \A y \in T : <<y, x>> \notin OpToRel(<, Nat)
    BY <1>1, NatLessThanWellFounded, WFMin
  <1>3. \A y \in T : ~(y < x)
    BY <1>1, <1>2 DEF OpToRel
  <1>4. PICK i \in S : x = n - i
    BY <1>2
  <1>5. \A j \in S : n - j \in T
    OBVIOUS
  <1>6. \A j \in S : j <= i
    BY <1>3, <1>4, <1>5
  <1> QED
    BY <1>4, <1>6

\* A day of the page, behind the block in front if there is one.
LEMMA ShownDay ==
  ASSUME ScheduleInv, rendering = "shown", NEW d \in WeekDays
  PROVE  LET b == blocks[d]
             n == Len(b)
         IN  /\ b \in Seq(Blocks) /\ n \in Nat
             /\ \A i \in 1 .. n : b[i].start \in 0 .. LastMinute /\ b[i].duration \in Nat
             /\ \E x \in {0, 1} :
                   /\ x <= n
                   /\ \A i \in x + 1 .. n :
                         /\ b[i].activity \in {d} \X Starts(d)
                         /\ b[i].start = program[d][b[i].activity[2]]
                         /\ BlockEnds(b, i)
                   /\ \A i, j \in x + 1 .. n :
                         i # j => b[i].activity[2] # b[j].activity[2]
                   /\ \A k \in Starts(d) :
                         \E i \in x + 1 .. n : b[i].activity[2] = k
                   /\ \A i, j \in x + 1 .. n : i < j => b[i].start <= b[j].start
                   /\ IF x = 1 THEN FromYesterday(d) ELSE NothingMissing(d)
  <1> DEFINE b == blocks[d]
             n == Len(b)
  <1>1. b \in Seq(Blocks) /\ n \in Nat
    BY DEF ScheduleInv
  <1>2. \A i \in 1 .. n : b[i].start \in 0 .. LastMinute /\ b[i].duration \in Nat
    <2> SUFFICES ASSUME NEW i \in 1 .. n
                 PROVE  b[i].start \in 0 .. LastMinute /\ b[i].duration \in Nat
      OBVIOUS
    <2>1. b[i] \in Blocks
      BY <1>1
    <2>2. b[i].start \in 0 .. LastMinute /\ b[i].duration \in 1 .. Minutes
      BY <2>1 DEF Blocks
    <2> QED
      BY <2>2
  <1>3. PICK x \in {0, 1} :
           DayOK(d, x) /\ IF x = 1 THEN FromYesterday(d) ELSE NothingMissing(d)
    BY DEF ScheduleInv, Crossed
  <1>4. \A k \in Starts(d) : k < Len(program[d]) + 1
    BY StartsIs
  <1>5. \A k \in Starts(d) : \E i \in x + 1 .. n : b[i].activity[2] = k
    BY <1>3, <1>4 DEF DayOK, SlotsAll
  <1>6. /\ x <= n
        /\ \A i \in x + 1 .. n : /\ b[i].activity \in {d} \X Starts(d)
                                 /\ b[i].start = program[d][b[i].activity[2]]
                                 /\ BlockEnds(b, i)
        /\ \A i, j \in x + 1 .. n : i # j => b[i].activity[2] # b[j].activity[2]
        /\ \A i, j \in x + 1 .. n : i < j => b[i].start <= b[j].start
    BY <1>3 DEF DayOK, SlotsOnce, Standing
  <1> QED
    BY <1>1, <1>2, <1>3, <1>5, <1>6

\* What a block of the day's own covers.
LEMMA CoversIs ==
  ASSUME NEW s, NEW i \in 1 .. Len(s), Len(s) \in Nat, NEW m \in 0 .. LastMinute,
         \A j \in 1 .. Len(s) : s[j].start \in 0 .. LastMinute,
         BlockEnds(s, i)
  PROVE  m \in Covered(s[i]) <=>
            /\ s[i].start <= m
            /\ i < Len(s) /\ s[i].start < s[i + 1].start => m < s[i + 1].start
  <1>1. /\ Minutes \in Nat /\ LastMinute = Minutes - 1 /\ s[i].start \in Nat
        /\ m \in 0 .. Minutes - 1
    BY ScheduleAssumption DEF LastMinute
  <1>2. CASE i < Len(s) /\ s[i].start < s[i + 1].start
    <2>1. i + 1 \in 1 .. Len(s)
      BY <1>2
    <2>2. s[i + 1].start \in Nat
      BY <1>1, <2>1
    <2>3. s[i].duration = s[i + 1].start - s[i].start
      BY <1>2 DEF BlockEnds
    <2>4. s[i].start + s[i].duration - 1 = s[i + 1].start - 1
      BY <1>1, <2>2, <2>3
    <2> QED
      BY <1>1, <1>2, <2>2, <2>4 DEF Covered
  <1>3. CASE ~(i < Len(s) /\ s[i].start < s[i + 1].start)
    BY <1>1, <1>3 DEF BlockEnds, Covered
  <1> QED
    BY <1>2, <1>3

\* On a page that is shown every start is a time.
LEMMA ShownStarts ==
  ASSUME ScheduleInv, rendering = "shown", NEW d \in WeekDays, NEW k \in Starts(d)
  PROVE  program[d][k] \in 0 .. LastMinute
  <1> DEFINE b == blocks[d]
             n == Len(b)
  <1>1. PICK x \in {0, 1} :
           /\ \A i \in x + 1 .. n : b[i].start = program[d][b[i].activity[2]]
           /\ \E i \in x + 1 .. n : b[i].activity[2] = k
    BY ShownDay
  <1>2. PICK i \in x + 1 .. n : b[i].activity[2] = k
    BY <1>1
  <1>3. i \in 1 .. n /\ \A j \in 1 .. n : b[j].start \in 0 .. LastMinute
    BY <1>1, <1>2, ShownDay
  <1> QED
    BY <1>1, <1>2, <1>3

\* Of two blocks of a day that is shown the later one starts after every
\* minute that the earlier one covers.
LEMMA CoveredBefore ==
  ASSUME ScheduleInv, rendering = "shown", DistinctStarts,
         NEW d \in WeekDays, NEW m \in 0 .. LastMinute,
         NEW i \in BlockAt(d, m), NEW j \in 1 .. Len(blocks[d]), i < j
  PROVE  m < blocks[d][j].start
  <1> DEFINE b == blocks[d]
             n == Len(b)
  <1>1. /\ n \in Nat /\ i \in 1 .. n /\ m \in Covered(b[i])
        /\ \A k \in 1 .. n : b[k].start \in 0 .. LastMinute
        /\ \A k \in 1 .. n : b[k].start \in Nat
    BY ShownDay DEF BlockAt
  <1>2. PICK x \in {0, 1} :
           /\ x <= n
           /\ \A k \in x + 1 .. n : /\ b[k].activity \in {d} \X Starts(d)
                                    /\ b[k].start = program[d][b[k].activity[2]]
                                    /\ BlockEnds(b, k)
           /\ \A k, l \in x + 1 .. n : k # l => b[k].activity[2] # b[l].activity[2]
           /\ \A k, l \in x + 1 .. n : k < l => b[k].start <= b[l].start
           /\ x = 1 => FromYesterday(d)
    BY ShownDay
  <1>3. m \in 0 .. Minutes - 1 /\ Minutes \in Nat
    BY ScheduleAssumption DEF LastMinute
  <1>4. CASE i \in x + 1 .. n
    <2>1. i + 1 \in x + 1 .. n /\ j \in x + 1 .. n /\ i + 1 <= j /\ i < n
          /\ i + 1 \in 1 .. n
      BY <1>1, <1>2, <1>4
    <2>2. b[i].start # b[i + 1].start
      <3>1. b[i].activity[2] # b[i + 1].activity[2]
        BY <1>1, <1>2, <1>4, <2>1
      <3>2. /\ b[i].activity[2] \in Starts(d) /\ b[i + 1].activity[2] \in Starts(d)
            /\ b[i].start = program[d][b[i].activity[2]]
            /\ b[i + 1].start = program[d][b[i + 1].activity[2]]
        BY <1>2, <1>4, <2>1
      <3> QED
        BY <3>1, <3>2 DEF DistinctStarts
    <2>3. b[i].start <= b[i + 1].start
      <3>1. \A k, l \in x + 1 .. n : k < l => b[k].start <= b[l].start
        BY <1>2
      <3>2. i < i + 1
        BY <1>1
      <3> QED
        BY <1>4, <2>1, <3>1, <3>2
    <2>4. b[i].start < b[i + 1].start
      BY <1>1, <2>1, <2>2, <2>3
    <2>5. BlockEnds(b, i)
      BY <1>2, <1>4
    <2>6. m < b[i + 1].start
      <3>1. /\ Len(b) \in Nat /\ i \in 1 .. Len(b) /\ m \in Covered(b[i])
            /\ \A k \in 1 .. Len(b) : b[k].start \in 0 .. LastMinute
        BY <1>1
      <3>2. i < Len(b) /\ b[i].start < b[i + 1].start => m < b[i + 1].start
        BY <2>5, <3>1, CoversIs
      <3> QED
        BY <2>1, <2>4, <3>2
    <2>7. b[i + 1].start <= b[j].start
      BY <1>1, <1>2, <2>1
    <2>8. m \in Nat /\ b[i + 1].start \in Nat /\ b[j].start \in Nat
      BY <1>1, <1>3, <2>1
    <2> QED
      BY <2>6, <2>7, <2>8
  <1>5. CASE i \notin x + 1 .. n
    <2>1. x = 1 /\ i = 1 /\ j \in 2 .. n /\ n > 1
      BY <1>1, <1>2, <1>5
    <2>2. b[1].start = 0 /\ b[1].duration = b[2].start
      BY <1>2, <2>1 DEF FromYesterday
    <2>3. 2 \in 1 .. n /\ b[2].start \in Nat
      BY <1>1, <2>1
    <2>4. m < b[2].start
      BY <1>1, <1>3, <2>1, <2>2, <2>3 DEF Covered
    <2>5. b[2].start <= b[j].start
      BY <1>1, <1>2, <2>1, <2>3
    <2> QED
      BY <1>1, <1>3, <2>1, <2>3, <2>4, <2>5
  <1> QED
    BY <1>4, <1>5

\* The block in front of a day covers its minutes up to the first period.
LEMMA InFrontCovers ==
  ASSUME NEW d, NEW m \in 0 .. LastMinute, FromYesterday(d),
         blocks[d] \in Seq(Blocks), Len(blocks[d]) >= 1
  PROVE  m \in Covered(blocks[d][1]) <=>
            m < IF Len(blocks[d]) > 1 THEN blocks[d][2].start ELSE DefaultEnd
  <1>1. /\ blocks[d][1].start = 0
        /\ blocks[d][1].duration =
              IF Len(blocks[d]) > 1 THEN blocks[d][2].start ELSE DefaultEnd
    BY DEF FromYesterday
  <1>2. Len(blocks[d]) > 1 => blocks[d][2].start \in Nat
    <2>1. Len(blocks[d]) > 1 => blocks[d][2] \in Blocks
      OBVIOUS
    <2> QED
      BY <2>1 DEF Blocks
  <1>3. m \in Nat /\ DefaultEnd \in Nat
    BY ScheduleAssumption DEF LastMinute
  <1> QED
    BY <1>1, <1>2, <1>3 DEF Covered

\* The shown activity is in force.
LEMMA CoveredInForce ==
  ASSUME ScheduleInv, rendering = "shown", DistinctStarts,
         NEW d \in WeekDays, NEW m \in 0 .. LastMinute, NEW i \in BlockAt(d, m)
  PROVE  blocks[d][i].activity \in InForceAt(d, m)
  <1> DEFINE b == blocks[d]
             n == Len(b)
             y == Yesterday(d)
             s == b[i].activity
  <1>1. /\ n \in Nat /\ i \in 1 .. n /\ m \in Covered(b[i]) /\ b \in Seq(Blocks)
        /\ \A k \in 1 .. n : b[k].start \in 0 .. LastMinute
    BY ShownDay DEF BlockAt
  <1>2. PICK x \in {0, 1} :
           /\ x <= n
           /\ \A k \in x + 1 .. n : /\ b[k].activity \in {d} \X Starts(d)
                                    /\ b[k].start = program[d][b[k].activity[2]]
                                    /\ BlockEnds(b, k)
           /\ \A k \in Starts(d) : \E j \in x + 1 .. n : b[j].activity[2] = k
           /\ \A k, l \in x + 1 .. n : k < l => b[k].start <= b[l].start
           /\ x = 1 => FromYesterday(d)
    BY ShownDay
  <1>3. /\ m \in 0 .. Minutes - 1 /\ Minutes \in Nat /\ LastMinute = Minutes - 1
        /\ y \in WeekDays /\ y # d
    BY ScheduleAssumption, YesterdayIs DEF LastMinute
  <1>4. \A j \in 1 .. n : i < j => m < b[j].start
    BY <1>1, CoveredBefore
  <1>5. ASSUME NEW e \in WeekDays, NEW l \in Starts(e)
        PROVE  /\ Ago(d, m, <<e, l>>) \in Int /\ program[e][l] \in 0 .. Minutes - 1
               /\ e = d /\ program[e][l] <= m => Ago(d, m, <<e, l>>) = m - program[e][l]
               /\ e = y => Ago(d, m, <<e, l>>) = Minutes + m - program[e][l]
               /\ (e = d /\ program[e][l] > m) \/ (e # d /\ e # y)
                     => Ago(d, m, <<e, l>>) >= Minutes + m
    BY <1>3, ShownStarts, AgoIs DEF Ago
  <1>6. CASE i \in x + 1 .. n
    <2>1. PICK k \in Starts(d) : s = <<d, k>> /\ b[i].start = program[d][k]
      BY <1>2, <1>6
    <2>2. program[d][k] <= m
      BY <1>1, <1>2, <1>6, <2>1, CoversIs
    <2>3. Ago(d, m, s) = m - program[d][k] /\ program[d][k] \in 0 .. Minutes - 1
      BY <1>5, <2>1, <2>2
    <2>4. ASSUME NEW e \in WeekDays, NEW l \in Starts(e)
          PROVE  Ago(d, m, s) <= Ago(d, m, <<e, l>>)
      <3>1. CASE e = d
        <4>1. PICK j \in x + 1 .. n : b[j].activity[2] = l
          BY <1>2, <3>1
        <4>2. b[j].start = program[d][l] /\ j \in 1 .. n
          <5>1. b[j].start = program[d][b[j].activity[2]]
            BY <1>2
          <5>2. j \in 1 .. n
            BY <1>1, <1>2
          <5> QED
            BY <4>1, <5>1, <5>2
        <4>3. i < j => program[d][l] > m
          BY <1>1, <1>3, <1>4, <4>2
        <4>4. ~(i < j) => program[d][l] <= program[d][k]
          <5>1. CASE i = j
            BY <1>3, <2>1, <2>3, <4>2, <5>1
          <5>2. CASE j < i
            BY <1>2, <1>6, <2>1, <4>2, <5>2
          <5> QED
            BY <1>1, <4>2, <5>1, <5>2
        <4>5. /\ program[d][l] \in 0 .. Minutes - 1
              /\ program[d][l] <= m =>
                    Ago(d, m, <<e, l>>) = m - program[d][l]
              /\ program[d][l] > m => Ago(d, m, <<e, l>>) >= Minutes + m
              /\ Ago(d, m, <<e, l>>) \in Int
          BY <1>5, <3>1
        <4>6. program[d][l] > m \/ program[d][l] <= program[d][k]
          BY <4>3, <4>4
        <4> QED
          BY <1>3, <2>2, <2>3, <4>5, <4>6
      <3>2. CASE e # d
        BY <1>3, <1>5, <2>3, <3>2
      <3> QED
        BY <3>1, <3>2
    <2>5. s \in AllStarts
      BY <2>1 DEF AllStarts
    <2> HIDE DEF s
    <2>6. \A q \in AllStarts : Ago(d, m, s) <= Ago(d, m, q)
      BY <2>4 DEF AllStarts
    <2> QED
      BY <2>5, <2>6 DEF InForceAt, s
  <1>7. CASE i \notin x + 1 .. n
    <2>1. x = 1 /\ i = 1 /\ FromYesterday(d)
      BY <1>1, <1>2, <1>7
    <2>2. PICK k \in Starts(y) :
             s = <<y, k>> /\ \A l \in Starts(y) : program[y][l] <= program[y][k]
      BY <2>1 DEF FromYesterday
    <2>3. Ago(d, m, s) = Minutes + m - program[y][k] /\ program[y][k] \in 0 .. Minutes - 1
      BY <1>3, <1>5, <2>2
    <2>4. ASSUME NEW e \in WeekDays, NEW l \in Starts(e)
          PROVE  Ago(d, m, s) <= Ago(d, m, <<e, l>>)
      <3>1. CASE e = d
        <4>1. PICK j \in x + 1 .. n : b[j].activity[2] = l
          BY <1>2, <3>1
        <4>2. b[j].start = program[d][l] /\ j \in 1 .. n /\ i < j
          BY <1>1, <1>2, <2>1, <4>1
        <4>3. program[d][l] > m
          BY <1>1, <1>3, <1>4, <4>2
        <4> QED
          BY <1>3, <1>5, <2>3, <3>1, <4>3
      <3>2. CASE e = y
        BY <1>3, <1>5, <2>2, <2>3, <3>2
      <3>3. CASE e # d /\ e # y
        BY <1>3, <1>5, <2>3, <3>3
      <3> QED
        BY <3>1, <3>2, <3>3
    <2>5. s \in AllStarts
      BY <1>3, <2>2 DEF AllStarts
    <2> HIDE DEF s
    <2>6. \A q \in AllStarts : Ago(d, m, s) <= Ago(d, m, q)
      BY <2>4 DEF AllStarts
    <2> QED
      BY <2>5, <2>6 DEF InForceAt, s
  <1> QED
    BY <1>6, <1>7

LEMMA ShownIsInForce ==
  ASSUME ScheduleInv
  PROVE  ShownInForce
  <1> SUFFICES ASSUME rendering = "shown", DistinctStarts, NEW d \in WeekDays,
                      NEW m \in 0 .. Minutes - 1, NEW i \in BlockAt(d, m)
               PROVE  /\ BlockAt(d, m) = {i}
                      /\ blocks[d][i].activity \in InForceAt(d, m)
    BY DEF ShownInForce
  <1>1. m \in 0 .. LastMinute
    BY DEF LastMinute
  <1>2. ASSUME NEW j \in BlockAt(d, m), NEW k \in BlockAt(d, m), j < k
        PROVE  FALSE
    <2>1. k \in 1 .. Len(blocks[d]) /\ m \in Covered(blocks[d][k])
      BY DEF BlockAt
    <2>2. m < blocks[d][k].start
      BY <1>1, <1>2, <2>1, CoveredBefore
    <2>3. blocks[d][k].start \in 0 .. LastMinute
      BY <2>1, ShownDay
    <2> QED
      BY <1>1, <2>1, <2>2, <2>3 DEF Covered
  <1>3. \A j \in BlockAt(d, m) : j \in Nat
    BY ShownDay DEF BlockAt
  <1>4. BlockAt(d, m) = {i}
    BY <1>2, <1>3
  <1> QED
    BY <1>1, <1>4, CoveredInForce

LEMMA ShownIsCovered ==
  ASSUME ScheduleInv
  PROVE  DayCovered
  <1> SUFFICES ASSUME rendering = "shown", \A d \in WeekDays : Starts(d) # {},
                      NEW d \in WeekDays, NEW m \in 0 .. Minutes - 1
               PROVE  \E i \in 1 .. Len(blocks[d]) : m \in Covered(blocks[d][i])
    BY DEF DayCovered, BlockAt
  <1> DEFINE b == blocks[d]
             n == Len(b)
  <1>1. /\ n \in Nat /\ b \in Seq(Blocks)
        /\ \A k \in 1 .. n : b[k].start \in 0 .. LastMinute
        /\ \A k \in 1 .. n : b[k].start \in Nat
    BY ShownDay
  <1>2. PICK x \in {0, 1} :
           /\ \A k \in x + 1 .. n : BlockEnds(b, k)
           /\ \A k \in Starts(d) : \E j \in x + 1 .. n : b[j].activity[2] = k
           /\ \A k, l \in x + 1 .. n : k < l => b[k].start <= b[l].start
           /\ IF x = 1 THEN FromYesterday(d) ELSE NothingMissing(d)
    BY ShownDay
  <1>3. m \in 0 .. LastMinute /\ m \in Nat
    BY ScheduleAssumption DEF LastMinute
  <1>4. x + 1 \in x + 1 .. n
    BY <1>1, <1>2
  <1> DEFINE S == {k \in x + 1 .. n : b[k].start <= m}
  <1>5. CASE S = {}
    <2>1. m < b[x + 1].start
      BY <1>1, <1>3, <1>4, <1>5
    <2>2. x # 0
      <3>1. Yesterday(d) \in WeekDays
        BY YesterdayIs
      <3>2. x = 0 => b[1].start = 0
        BY <1>2, <3>1 DEF NothingMissing
      <3> QED
        BY <1>3, <2>1, <3>2
    <2>3. x = 1 /\ n > 1
      BY <1>1, <1>4, <2>2
    <2>4. FromYesterday(d) /\ m < b[2].start
      BY <1>2, <2>1, <2>3
    <2>5. m \in Covered(b[1])
      BY <1>1, <1>3, <2>3, <2>4, InFrontCovers
    <2> QED
      BY <1>1, <2>3, <2>5
  <1>6. CASE S # {}
    <2>1. S \subseteq 1 .. n
      BY <1>1
    <2>2. PICK i \in S : \A j \in S : j <= i
      BY <1>1, <1>6, <2>1, LargestIndex
    <2>3. i \in x + 1 .. n /\ i \in 1 .. n /\ b[i].start <= m /\ BlockEnds(b, i)
      BY <1>1, <1>2, <2>2
    <2>4. ASSUME i < n PROVE m < b[i + 1].start
      <3>1. i + 1 \in x + 1 .. n /\ i + 1 \in 1 .. n /\ ~(i + 1 <= i)
        BY <1>1, <2>3, <2>4
      <3>2. i + 1 \notin S
        BY <2>2, <3>1
      <3> QED
        BY <1>1, <1>3, <3>1, <3>2
    <2> HIDE DEF S
    <2>5. m \in Covered(b[i])
      BY <1>1, <1>3, <2>3, <2>4, CoversIs
    <2> QED
      BY <2>3, <2>5
  <1> QED
    BY <1>5, <1>6

LEMMA ScheduleInvHolds == ScheduleSpec => []ScheduleInv
  BY ScheduleInvInit, ScheduleInvStep, PTL DEF ScheduleSpec

THEOREM ScheduleTypeCorrect == ScheduleSpec => []ScheduleTypeOK
  <1>1. ASSUME ScheduleInv PROVE ScheduleTypeOK
    <2>1. \A d \in WeekDays : \A i \in 1 .. Len(blocks[d]) : blocks[d][i] \in Blocks
      <3> SUFFICES ASSUME NEW d \in WeekDays, NEW i \in 1 .. Len(blocks[d])
                   PROVE  blocks[d][i] \in Blocks
        OBVIOUS
      <3>1. blocks[d] \in Seq(Blocks)
        BY <1>1 DEF ScheduleInv
      <3> QED
        BY <3>1
    <2>2. \A i \in 1 .. Len(periods) : periods[i] \in Period
      BY <1>1 DEF ScheduleInv
    <2>3. rendering = "sort" /\ outer < Len(periods) =>
             outer >= 1 /\ inner \in outer + 1 .. Len(periods)
      BY <1>1 DEF ScheduleInv, PeriodsSorted
    <2> QED
      BY <1>1, <2>1, <2>2, <2>3 DEF ScheduleInv, ScheduleTypeOK
  <1> QED
    BY <1>1, ScheduleInvHolds, PTL

THEOREM PageShowsInForce == ScheduleSpec => []ShownInForce
  BY ShownIsInForce, ScheduleInvHolds, PTL

THEOREM WeekIsCovered == ScheduleSpec => []DayCovered
  BY ShownIsCovered, ScheduleInvHolds, PTL

===============================================================================
