------------------------------- MODULE MCServe -------------------------------
(***************************************************************************)
(* Five parts that share nothing but the program: each run of the model    *)
(* exercises one of them, chosen at the start, and leaves the others at    *)
(* rest in one of their initial states.                                    *)
(***************************************************************************)
EXTENDS MCFirmware, FirmwareUpdate, HACommands, Schedule, Weather

CONSTANTS m1, m2, f1, f2, f3, n1, n2, n3,  \* firmware
          home, off, low,                  \* commands
          p1, p2, p3, x, y                 \* weather

VARIABLE part

serveVars == <<part, vars, updateVars, commandVars, scheduleVars, weatherVars>>

MCEntry ==
    n1 :> (m1 :> f1 @@ m2 :> f2) @@ n2 :> (m1 :> f3 @@ m2 :> NoEntry)
      @@ n3 :> (m1 :> f1 @@ m2 :> f1)

MCInitialSettings ==
    {home :> [htsp |-> 1, clsp |-> 2, fan |-> off]
       @@ "manual" :> [htsp |-> 2, clsp |-> 1, fan |-> low]}

\* Slots in any order, disabled ones, days without any, 00:00 and 23:59.
Slots == 0 .. 3
UpToTwo == {<<>>} \cup {<<s>> : s \in Slots} \cup (Slots \X Slots)
MCPrograms ==
    {0 :> d0 @@ 1 :> d1 @@ 2 :> d2 :
        d0 \in (Slots \cup {Disabled}) \X (Slots \cup {Disabled}) \X Slots,
        d1 \in (UpToTwo \ {<<3, 3>>}) \cup {<<3, BadTime>>},
        d2 \in {<<s>> : s \in Slots} \cup {<<>>, <<2, 0>>, <<0, 3>>}}

\* A forecast of n days with so many codes and temperatures more, or less.
Of(n, codes, temps) ==
    [current |-> 61, time |-> n, codes |-> [i \in 1 .. n + codes |-> i],
     maxs |-> [i \in 1 .. n + temps |-> i],
     mins |-> [i \in 1 .. n + temps |-> i - 1],
     probabilities |-> [i \in 1 .. n |-> 9 * i]]
MCPlace == p1 :> x @@ p2 :> y @@ p3 :> NoPlace
MCForecasts ==
    x :> {Of(0, 0, 0), Of(2, 1, 1),
          [current |-> 3, time |-> 2, codes |-> <<95, 71>>,
           maxs |-> <<20, 5>>, mins |-> <<10, -5>>,
           probabilities |-> <<100, 35>>]}
    @@ y :> {Of(1, 0, -1), Of(7, 0, 0), Of(7, -1, 0)}

Parts == {"patch", "update", "commands", "schedule", "weather"}

RestingInput == CHOOSE f \in Inputs : TRUE

\* The schedule page at rest: nothing in the store yet.
ScheduleAtRest ==
    /\ program = [d \in WeekDays |-> <<>>]
    /\ blocks = [d \in WeekDays |-> <<>>]
    /\ rendering = "periods" /\ day = 0
    /\ periods = <<>> /\ outer = 1 /\ inner = 2

\* A part that does not take part has one initial state.
MCInit ==
    /\ part \in Parts
    /\ part = "patch" \/ input = RestingInput
    /\ part = "update" \/ upstream = n1
    /\ part = "commands" \/ activity = home
    /\ Init /\ UpdateInit /\ CommandsInit /\ WeatherInit
    /\ IF part = "schedule" THEN ScheduleInit ELSE ScheduleAtRest

MCNext ==
    /\ UNCHANGED part
    /\ \/ /\ part = "patch" /\ Next
          /\ UNCHANGED <<updateVars, commandVars, scheduleVars, weatherVars>>
       \/ /\ part = "update" /\ UpdateNext
          /\ UNCHANGED <<vars, commandVars, scheduleVars, weatherVars>>
       \/ /\ part = "commands" /\ CommandsNext
          /\ UNCHANGED <<vars, updateVars, scheduleVars, weatherVars>>
       \/ /\ part = "schedule" /\ ScheduleNext
          /\ UNCHANGED <<vars, updateVars, commandVars, weatherVars>>
       \/ /\ part = "weather" /\ WeatherNext
          /\ UNCHANGED <<vars, updateVars, commandVars, scheduleVars>>

MCSpec == MCInit /\ [][MCNext]_serveVars

\* The type of every variable of the five parts: what is sent, shown and saved
\* has a length, a code and a temperature that the other side knows.
ServeTypeOK ==
    /\ TypeOK /\ UpdateTypeOK /\ CommandsTypeOK /\ ScheduleTypeOK
    /\ WeatherTypeOK
=============================================================================
