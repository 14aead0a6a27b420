------------------------------ MODULE HACommands ------------------------------
(***************************************************************************)
(* Home Assistant's commands to the thermostat (hamqtt.go, the handlers of *)
(* installSubscriptions).  A handler has nothing to go by but the last     *)
(* report of the thermostat in the store: whether a manual hold is on, and *)
(* if not, the setpoint and the fan that the new hold has to keep.  The    *)
(* thermostat changes by itself too, reports with a delay, and its report  *)
(* is applied one setting at a time while a handler reads.  (mode/set only *)
(* forwards its word and is left out.)                                     *)
(*                                                                         *)
(* The thermostat has settings per activity, and one activity in force.    *)
(* Operators whose name starts with Slip are the ones after them with a    *)
(* plausible mistake.                                                      *)
(***************************************************************************)
EXTENDS Naturals, Sequences

CONSTANTS
    Temps,        \* setpoints, above 0
    Activities,   \* of the schedule; "manual" is one more
    Fans,         \* carrier's fan modes
    Unreadable,   \* a payload that is no number
    Unknown,      \* not in the store yet
    Keep,         \* not in the command
    InitialSettings,  \* what the thermostat may have at the start
    MaxRequests,  \* bound: requests of Home Assistant
    MaxOwn        \* bound: changes that the thermostat makes by itself

ASSUME CommandsAssumption ==
    /\ Temps \subseteq Nat \ {0}
    /\ InitialSettings \subseteq [Activities \cup {"manual"} ->
                                     [htsp : Temps, clsp : Temps, fan : Fans]]
    /\ "manual" \notin Activities
    /\ {Keep, Unknown} \cap (Temps \cup {0}) = {}
    /\ {Keep, Unknown} \cap (Activities \cup {"manual"}) = {}
    /\ Keep \notin Fans \cup {Unknown}
    /\ MaxRequests \in Nat /\ MaxOwn \in Nat

Manual == "manual"
AllActivities == Activities \cup {Manual}

Fields == {"activity", "htsp", "clsp", "fan"}

VARIABLES
    activity,   \* the thermostat: in force
    settings,   \* the thermostat: per activity
    known,      \* the store: 1/currentActivity, 1/htsp, 1/clsp, 1/fan
    report,     \* a report being applied: the values and the fields to come
    requests,   \* from Home Assistant, not handled yet
    handler,    \* the handler that is running, and what it has read
    commands,   \* to the thermostat, on their way
    asked,      \* number of requests so far
    own,        \* number of the thermostat's own changes so far
    wanted,     \* history: what ought to be in force
    orderly,    \* history: no request came while another was unsettled
    blind,      \* history: a setpoint was unreadable or not known
    latest      \* history: the setpoint asked for last, unless a command was
                \* lost since

thermostatVars == <<activity, settings>>
countVars == <<asked, own>>
historyVars == <<wanted, orderly, blind, latest>>
commandVars == <<thermostatVars, known, report, requests, handler, commands,
                 countVars, historyVars>>

Values(a) == [activity |-> a, htsp |-> settings[a].htsp,
              clsp |-> settings[a].clsp, fan |-> settings[a].fan]
InForce == Values(activity)

NoReport == [values |-> [f \in Fields |-> Unknown], rest |-> {}]
Reporting == report.rest # {}

Off == [at |-> "off"]
NoSetpoint == [field |-> "none"]

CommandsInit ==
    /\ activity \in AllActivities
    /\ settings \in InitialSettings
    /\ known = [f \in Fields |-> Unknown]
    /\ report = NoReport
    /\ requests = <<>> /\ handler = Off /\ commands = <<>>
    /\ asked = 0 /\ own = 0
    /\ wanted = InForce /\ orderly = TRUE /\ blind = FALSE
    /\ latest = NoSetpoint

-----------------------------------------------------------------------------
(* The thermostat *)

Pending == requests # <<>> \/ handler # Off \/ commands # <<>>

\* It reports what is in force ...
Report ==
    /\ ~Reporting /\ known # InForce
    /\ report' = [values |-> InForce, rest |-> Fields]
    /\ UNCHANGED <<thermostatVars, known, requests, handler, commands,
                   countVars, historyVars>>

\* ... and addAllConfigSettings applies the settings one by one.
ApplySetting(f) ==
    /\ f \in report.rest
    /\ known' = [known EXCEPT ![f] = report.values[f]]
    /\ report' = IF report.rest = {f} THEN NoReport
                 ELSE [report EXCEPT !.rest = @ \ {f}]
    /\ UNCHANGED <<thermostatVars, requests, handler, commands, countVars,
                   historyVars>>

\* The schedule, or somebody at the wall, changes the activity.
ChangeActivity ==
    /\ own < MaxOwn /\ own' = own + 1
    /\ activity' \in AllActivities \ {activity}
    /\ wanted' = Values(activity')
    /\ orderly' = (orderly /\ ~Pending)
    /\ UNCHANGED <<settings, known, report, requests, handler, commands,
                   asked, blind, latest>>

Or(new, old) == IF new = Keep THEN old ELSE new

\* A command arrives: a hold, settings of one activity, or both.
Obey ==
    /\ commands # <<>>
    /\ LET c == Head(commands)
       IN  /\ activity' = Or(c.activity, activity)
           /\ settings' = [settings EXCEPT ![c.of] =
                             [htsp |-> Or(c.htsp, @.htsp),
                              clsp |-> Or(c.clsp, @.clsp),
                              fan |-> Or(c.fan, @.fan)]]
    /\ commands' = Tail(commands)
    /\ UNCHANGED <<known, report, requests, handler, countVars, historyVars>>

\* The thermostat is not connected when it is published.
LoseCommand ==
    /\ commands # <<>>
    /\ commands' = Tail(commands)
    /\ orderly' = FALSE /\ latest' = NoSetpoint
    /\ UNCHANGED <<thermostatVars, known, report, requests, handler,
                   countVars, wanted, blind>>

-----------------------------------------------------------------------------
(* Home Assistant *)

\* The store agrees with the thermostat, and nothing is on its way.
Settled == ~Pending /\ ~Reporting /\ known = InForce

\* A manual hold is on, all know it, and nothing on its way ends it.
SettledManual ==
    /\ known.activity = Manual /\ activity = Manual
    /\ Reporting => report.values.activity = Manual
    /\ \A i \in 1 .. Len(requests) : requests[i].kind # "preset"
    /\ handler # Off => handler.at = "send" /\ handler.command.activity = Keep
    /\ \A i \in 1 .. Len(commands) : commands[i].activity = Keep

Request(kind, value) ==
    /\ asked < MaxRequests /\ asked' = asked + 1
    /\ requests' = Append(requests, [kind |-> kind, value |-> value])
    /\ UNCHANGED <<thermostatVars, known, report, handler, commands, own,
                   blind>>

\* temp_low/set and temp_high/set
RequestSetpoint(field, value) ==
    /\ Request(field, value)
    /\ wanted' = [wanted EXCEPT !.activity = Manual, ![field] = value]
    /\ orderly' = (orderly /\ (Settled \/ SettledManual)
                           /\ value # Unreadable)
    /\ latest' = [field |-> field, value |-> value]

\* zone/1/fanmode/set
RequestFan(value) ==
    /\ Request("fan", value)
    /\ wanted' = [wanted EXCEPT !.fan = value]
    /\ orderly' = (orderly /\ (Settled \/ SettledManual))
    /\ UNCHANGED latest

\* zone/1/preset_mode/set; "none", which releases the hold, is the activity
\* that the schedule has at the time.
RequestPreset(a) ==
    /\ Request("preset", a)
    /\ wanted' = Values(a)
    /\ orderly' = (orderly /\ Settled)
    /\ UNCHANGED latest

-----------------------------------------------------------------------------
(* The handlers, one at a time *)

Command(hold, of) ==
    [activity |-> hold, of |-> of, htsp |-> Keep, clsp |-> Keep, fan |-> Keep]

Send(command) == [at |-> "send", command |-> command]

\* ParseFloat; on an error the value is 0, and it is used.
Parsed(value) == IF value = Unreadable THEN 0 ELSE value

\* A float that is not in the store.
FloatOf(value) == IF value = Unknown THEN 0 ELSE value

\* SetpointArrives: the setpoint that was asked for is the one kept.
SlipOther(field) == field

Other(field) == IF field = "htsp" THEN "clsp" ELSE "htsp"

\* The next request; the first thing that its handler does.
TakeRequest ==
    /\ handler = Off /\ requests # <<>>
    /\ requests' = Tail(requests)
    /\ LET r == Head(requests)
       IN  handler' = CASE r.kind = "preset" -> Send(Command(r.value, r.value))
                        [] r.kind = "fan" -> [at |-> "fan", value |-> r.value]
                        [] OTHER -> [at |-> "activity", field |-> r.kind,
                                     value |-> Parsed(r.value)]
    /\ blind' = (blind \/ Head(requests).value = Unreadable)
    /\ UNCHANGED <<thermostatVars, known, report, commands, countVars, wanted,
                   orderly, latest>>

\* fanmode/set: the fan of the activity that is in force.
ReadForFan ==
    /\ handler.at = "fan"
    /\ handler' = IF known.activity = Unknown THEN Off
                  ELSE Send([Command(Keep, known.activity)
                               EXCEPT !.fan = handler.value])
    /\ UNCHANGED <<thermostatVars, known, report, requests, commands,
                   countVars, historyVars>>

\* AskedForHolds: a hold that is already on is set up again.
SlipHolds == FALSE

\* A manual hold is on: the setpoint goes alone.
Holds == known.activity = Manual

ReadActivity ==
    /\ handler.at = "activity"
    /\ handler' = IF Holds
                  THEN Send([Command(Keep, Manual)
                               EXCEPT ![handler.field] = handler.value])
                  ELSE [handler EXCEPT !.at = "other"]
    /\ UNCHANGED <<thermostatVars, known, report, requests, commands,
                   countVars, historyVars>>

\* ZeroOnlyBlind: the setpoint of the other side is left out (a Get of a
\* name that is in no report).
SlipOtherKnown == Unknown

\* The setpoint of the other side.
OtherKnown == known[Other(handler.field)]

ReadOther ==
    /\ handler.at = "other"
    /\ handler' = [at |-> "keepFan",
                   command |-> [Command(Manual, Manual) EXCEPT
                      ![handler.field] = handler.value,
                      ![Other(handler.field)] = FloatOf(OtherKnown)]]
    /\ blind' = (blind \/ known[Other(handler.field)] = Unknown)
    /\ UNCHANGED <<thermostatVars, known, report, requests, commands,
                   countVars, wanted, orderly, latest>>

ReadFan ==
    /\ handler.at = "keepFan"
    /\ handler' = Send([handler.command EXCEPT !.fan = known.fan])
    /\ UNCHANGED <<thermostatVars, known, report, requests, commands,
                   countVars, historyVars>>

SendCommand ==
    /\ handler.at = "send"
    /\ commands' = Append(commands, handler.command)
    /\ handler' = Off
    /\ UNCHANGED <<thermostatVars, known, report, requests, countVars,
                   historyVars>>

CommandsNext ==
    \/ Report \/ (\E f \in Fields : ApplySetting(f)) \/ ChangeActivity
    \/ Obey \/ LoseCommand
    \/ \E f \in {"htsp", "clsp"}, v \in Temps \cup {Unreadable} :
          RequestSetpoint(f, v)
    \/ \E v \in Fans : RequestFan(v)
    \/ \E a \in AllActivities : RequestPreset(a)
    \/ TakeRequest \/ ReadForFan \/ ReadActivity \/ ReadOther \/ ReadFan
    \/ SendCommand

CommandsSpec == CommandsInit /\ [][CommandsNext]_commandVars

-----------------------------------------------------------------------------
(* Properties *)

Setting(values) == [htsp : values, clsp : values, fan : Fans \cup {Unknown}]
Sent(values, fans) ==
    [activity : AllActivities \cup {Keep}, of : AllActivities,
     htsp : values, clsp : values, fan : fans]

\* The type of every variable; of a handler, of its command.
CommandsTypeOK ==
    LET temps == Temps \cup {0}
        sent == Sent(temps \cup {Keep}, Fans \cup {Unknown, Keep})
    IN  /\ activity \in AllActivities
        /\ settings \in [AllActivities -> Setting(temps)]
        /\ known.activity \in AllActivities \cup {Unknown}
        /\ \A f \in {"htsp", "clsp"} : known[f] \in temps \cup {Unknown}
        /\ known.fan \in Fans \cup {Unknown} /\ report.rest \subseteq Fields
        /\ \A i \in 1 .. Len(commands) : commands[i] \in sent
        /\ handler.at = "send" => handler.command \in sent
        /\ asked \in 0 .. MaxRequests /\ own \in 0 .. MaxOwn
        /\ orderly \in BOOLEAN /\ blind \in BOOLEAN

\* When all is quiet, what is in force is what was asked for, and the rest
\* is as it was: a setpoint keeps the other setpoint and the fan, although
\* the new hold takes all three from the report (hamqtt.go:235-244, 274).  This
\* is about orderly requests only: each waits until the one before has been
\* reported, or a manual hold is on that all know of; no command is lost, no
\* payload is unreadable, and the thermostat changes nothing meanwhile.  Two
\* setpoints at once without a hold are left out: SetpointArrives.
AskedForHolds == orderly /\ ~Pending => InForce = wanted

\* The setpoint that was asked for last gets into the manual activity, whatever
\* was asked for before it and is still on its way, and whatever its handler
\* reads between two parts of a report, while the thermostat changes by itself;
\* only a lost command stops it.  Of temp_low/set and temp_high/set, sent at
\* once without a hold, the second one thus may clobber the first one's
\* setpoint (hamqtt.go:275-280), but never its own.
SetpointArrives ==
    latest # NoSetpoint /\ ~Pending =>
        settings[Manual][latest.field] = Parsed(latest.value)

\* No setpoint of 0 reaches the thermostat unless a payload was no number,
\* or the store had no setpoint yet (hamqtt.go:209, 239).
ZeroOnlyBlind ==
    \A a \in AllActivities :
        settings[a].htsp = 0 \/ settings[a].clsp = 0 => blind
=============================================================================
