------------------------------- MODULE Weather -------------------------------
(***************************************************************************)
(* The thermostat's weather requests (serve.go:1154 and pkg/weather): the  *)
(* postal code becomes coordinates, kept for a day, the coordinates become *)
(* a forecast, and six days of it are sent.  A request is a setting and is *)
(* saved as one.  When the program starts, runServe subscribes to it,      *)
(* reads the last one and waits for its answer; the broker is serving      *)
(* already (serve.go:1075), so that the thermostat may ask meanwhile.  A   *)
(* goroutine then answers what is in the channel, one after the other.  A  *)
(* forecast without any day, or with a list that is shorter than that of   *)
(* its days, ends the process.  Operators whose name starts with Slip are  *)
(* the ones after them with a plausible mistake.                           *)
(***************************************************************************)
EXTENDS Integers, Sequences

CONSTANTS
    PostalCodes,    \* what the thermostat may ask for
    Malformed,      \* those refused: of another shape, or no postal code
    Place,          \* per postal code what nominatim has, or NoPlace
    NoPlace,
    Forecasts,      \* per place the forecasts that open-meteo may give
    CacheDuration,  \* 24 hours
    MaxTime,        \* bound: the clock
    ChannelSize,    \* bound: room in the watcher's channel (100)
    NoRequest

\* A forecast says how many days it is of; its lists may have other lengths.
ForecastType ==
    [current : Int, time : Nat, codes : Seq(Int), maxs : Seq(Int),
     mins : Seq(Int), probabilities : Seq(0 .. 100)]

ASSUME WeatherAssumption ==
    /\ Malformed \subseteq PostalCodes /\ NoRequest \notin PostalCodes
    /\ DOMAIN Place = PostalCodes
    /\ \A c \in PostalCodes \ Malformed : Place[c] # NoPlace =>
          \A f \in Forecasts[Place[c]] : f \in ForecastType
    /\ CacheDuration \in Nat /\ MaxTime \in Nat /\ ChannelSize \in Nat

VARIABLES
    now,
    request,     \* the weather_request of the store, which is saved
    channel,     \* the requests that the watcher has not taken yet
    coordCache,  \* per postal code the place and when it expires
    weather,     \* where the callback is, and with what
    process,     \* "starting", "subscribed", "first", "serving" or "dead"
    taken,       \* history: the request that the callback had last
    dropped,     \* history: the last request did not fit into the channel
    answer       \* history: the answer sent last

weatherVars ==
    <<now, request, channel, coordCache, weather, process, taken, dropped,
      answer>>

NotCached == [place |-> NoPlace, expires |-> 0]
Resting == [at |-> "resting"]
NoAnswer == [days |-> <<>>]

\* Nothing has been asked for yet, and nothing saved.
WeatherInit ==
    /\ now = 0 /\ request = NoRequest /\ channel = <<>>
    /\ coordCache = [c \in PostalCodes |-> NotCached]
    /\ weather = Resting /\ process = "starting"
    /\ taken = NoRequest /\ dropped = FALSE /\ answer = NoAnswer

\* The thermostat's code of a WMO code.
ConvertWeatherCode(code) ==
    CASE code \in {95, 96, 99} -> 1
      [] code \in {66, 67} -> 2
      [] code \in {68, 69, 70} -> 3
      [] code \in {71, 73, 75} -> 4
      [] code = 77 -> 5
      [] code \in {85, 86} -> 6
      [] code \in {56, 57} -> 7
      [] code \in {51, 53, 55, 61, 63, 65, 80, 81, 82} -> 8
      [] code \in {45, 48} -> 10
      [] code = 3 -> 11 [] code = 1 -> 12 [] code = 2 -> 13
      [] OTHER -> 14

\* The loop reads a day that a list does not have, or days[0] is not there.
Panics(f) ==
    \/ f.time = 0
    \/ f.time > Len(f.codes) \/ f.time > Len(f.probabilities)
    \/ f.time > Len(f.maxs) \/ f.time > Len(f.mins)

\* GetForecastDataByPostalCode: the first day has the weather of the moment.
ForecastDays(f) ==
    [i \in 1 .. f.time |->
        [precipitation |-> f.probabilities[i] \div 10,
         statusID |-> ConvertWeatherCode(IF i = 1 THEN f.current
                                                  ELSE f.codes[i]),
         max |-> f.maxs[i], min |-> f.mins[i]]]

\* SixDays: what is there is sent.
SlipEntries(days) == days

\* Six days; the last one stands for those that are missing.
Entries(days) ==
    [i \in 1 .. 6 |-> IF i > Len(days) THEN days[Len(days)] ELSE days[i]]

-----------------------------------------------------------------------------

\* LatestTaken: it gets into the channel only once the program serves.
SlipAskWeather(c) ==
    /\ process # "dead" /\ request' = c
    /\ IF process # "serving" THEN UNCHANGED <<channel, dropped>>
       ELSE /\ dropped' = (Len(channel) = ChannelSize)
            /\ channel' = IF dropped' THEN channel ELSE Append(channel, c)
    /\ UNCHANGED <<now, coordCache, weather, process, taken, answer>>

\* The thermostat asks, each time later: Update stores the request and sends
\* it to the watcher, if there is one and its channel has room.
AskWeather(c) ==
    /\ process # "dead" /\ request' = c
    /\ IF process = "starting" THEN UNCHANGED <<channel, dropped>>
       ELSE /\ dropped' = (Len(channel) = ChannelSize)
            /\ channel' = IF dropped' THEN channel ELSE Append(channel, c)
    /\ UNCHANGED <<now, coordCache, weather, process, taken, answer>>

\* OnChangeN subscribes.
SubscribeWeather ==
    /\ process = "starting" /\ process' = "subscribed"
    /\ UNCHANGED <<now, request, channel, coordCache, weather, taken, dropped,
                   answer>>

Begin(c) == weather' = [at |-> "validate", code |-> c] /\ taken' = c

\* It reads the setting, and calls back if there is one, within runServe.
ReadWeather ==
    /\ process = "subscribed"
    /\ IF request = NoRequest
       THEN process' = "serving" /\ UNCHANGED <<weather, taken>>
       ELSE process' = "first" /\ Begin(request)
    /\ UNCHANGED <<now, request, channel, coordCache, dropped, answer>>

\* The watcher's goroutine takes the next request.
BeginForecast ==
    /\ process = "serving" /\ weather = Resting /\ channel # <<>>
    /\ Begin(Head(channel)) /\ channel' = Tail(channel)
    /\ UNCHANGED <<now, request, coordCache, process, dropped, answer>>

\* The callback is done; after the first one the goroutine is started.
Done(sent) ==
    weather' = Resting /\ answer' = sent /\ process' = "serving"

Cached(c) == coordCache[c] # NotCached /\ now < coordCache[c].expires

\* The shape of the request, ValidatePostalCode, and the cache.
LookUpPlace ==
    /\ weather.at = "validate"
    /\ IF weather.code \in Malformed THEN Done(answer)
       ELSE /\ weather' = IF Cached(weather.code)
                          THEN [at |-> "forecast", code |-> weather.code,
                                place |-> coordCache[weather.code].place]
                          ELSE [weather EXCEPT !.at = "geocode"]
            /\ UNCHANGED <<answer, process>>
    /\ UNCHANGED <<now, request, channel, coordCache, taken, dropped>>

\* nominatim answers.
Geocode ==
    /\ weather.at = "geocode" /\ Place[weather.code] # NoPlace
    /\ coordCache' = [coordCache EXCEPT ![weather.code] =
                        [place |-> Place[weather.code],
                         expires |-> now + CacheDuration]]
    /\ weather' = [at |-> "forecast", code |-> weather.code,
                   place |-> Place[weather.code]]
    /\ UNCHANGED <<now, request, channel, process, taken, dropped, answer>>

\* One of the services fails, nominatim knows no such place, or the answer
\* cannot be published.
NoForecast ==
    /\ weather.at \in {"geocode", "forecast"}
    /\ Done(answer)
    /\ UNCHANGED <<now, request, channel, coordCache, taken, dropped>>

\* open-meteo answers: publishProto, or a panic.
Answer ==
    /\ weather.at = "forecast"
    /\ \E f \in Forecasts[weather.place] :
          IF Panics(f)
          THEN process' = "dead" /\ weather' = Resting /\ UNCHANGED answer
          ELSE Done([code |-> weather.code, place |-> weather.place, of |-> f,
                     days |-> Entries(ForecastDays(f))])
    /\ UNCHANGED <<now, request, channel, coordCache, taken, dropped>>

\* It is started again, killed or dead, with nothing but the saved request.
RestartWeather ==
    /\ process' = "starting"
    /\ channel' = <<>> /\ weather' = Resting
    /\ coordCache' = [c \in PostalCodes |-> NotCached]
    /\ taken' = NoRequest /\ dropped' = FALSE
    /\ UNCHANGED <<now, request, answer>>

TimePasses ==
    /\ now < MaxTime /\ now' = now + 1
    /\ UNCHANGED <<request, channel, coordCache, weather, process, taken,
                   dropped, answer>>

WeatherNext ==
    \/ \E c \in PostalCodes : AskWeather(c)
    \/ SubscribeWeather \/ ReadWeather \/ BeginForecast
    \/ LookUpPlace \/ Geocode \/ NoForecast \/ Answer
    \/ RestartWeather \/ TimePasses

WeatherSpec == WeatherInit /\ [][WeatherNext]_weatherVars

-----------------------------------------------------------------------------
(* Properties *)

\* The type of every variable; the codes and tenths that an answer may have.
WeatherTypeOK ==
    /\ now \in 0 .. MaxTime /\ request \in PostalCodes \cup {NoRequest}
    /\ channel \in Seq(PostalCodes) /\ Len(channel) <= ChannelSize
    /\ \A c \in PostalCodes :
          /\ coordCache[c].expires \in 0 .. MaxTime + CacheDuration
          /\ coordCache[c].place \in {Place[c], NoPlace}
    /\ weather.at \in {"resting", "validate", "geocode", "forecast"}
    /\ process \in {"starting", "subscribed", "first", "serving", "dead"}
    /\ taken \in PostalCodes \cup {NoRequest} /\ dropped \in BOOLEAN
    /\ \A i \in DOMAIN answer.days :
          /\ answer.days[i].statusID \in 1 .. 14
          /\ answer.days[i].precipitation \in 0 .. 10

\* Every answer is for the place of a code that was asked for and has six
\* days: those of the forecast, each in all of its lists, and then the last
\* one again, the weather of the moment on the first.  So it is when requests
\* queue up behind the first callback, when lists are of different lengths and
\* over restarts (serve.go:1210, weather.go:40).
SixDays ==
    answer # NoAnswer =>
        LET f == answer.of
            Source(i) == IF i <= f.time THEN i ELSE f.time
        IN  /\ answer.code \notin Malformed
            /\ answer.place = Place[answer.code]
            /\ f \in Forecasts[answer.place]
            /\ Len(answer.days) = 6
            /\ answer.days[1].statusID = ConvertWeatherCode(f.current)
            /\ \A i \in 1 .. 6 :
                  /\ Source(i) \in DOMAIN f.maxs \cap DOMAIN f.mins
                  /\ answer.days[i].max = f.maxs[Source(i)]
                  /\ answer.days[i].min = f.mins[Source(i)]
                  /\ Source(i) # 1 => /\ Source(i) \in DOMAIN f.codes
                                      /\ answer.days[i].statusID =
                                           ConvertWeatherCode(f.codes[Source(i)])

\* When the program serves and has nothing left to do, the request that it
\* dealt with last is the one in the store, whether that was saved, came
\* before the subscription, while the first callback ran or behind others;
\* but for one that the full channel had no room for (serve.go:1075 and 1154,
\* OnChangeN).
LatestTaken ==
    process = "serving" /\ weather = Resting /\ channel = <<>> /\ ~dropped =>
        taken = request

=============================================================================
