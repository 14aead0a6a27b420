----------------------------- MODULE ServeProofs -----------------------------
(***************************************************************************)
(* The answers to the weather requests, for any postal codes, places and   *)
(* forecasts, and the commands of Home Assistant, for any setpoints,       *)
(* activities and fan modes and any number of requests.                    *)
(***************************************************************************)
EXTENDS HACommands, Weather, TLAPS

(* Weather requests *)

Asking == {"validate", "geocode", "forecast"}

\* The callback has the place of the code that it was asked for.
RightPlace ==
    /\ weather.at \in Asking \cup {"resting"}
    /\ weather.at \in Asking => weather.code \in PostalCodes
    /\ weather.at \in {"geocode", "forecast"} => weather.code \notin Malformed
    /\ weather.at = "forecast" => /\ weather.place = Place[weather.code]
                                  /\ weather.place # NoPlace

\* So has the cache.
CacheRight ==
    /\ DOMAIN coordCache = PostalCodes
    /\ \A c \in PostalCodes :
          \/ coordCache[c] = NotCached
          \/ /\ coordCache[c].place = Place[c] /\ Place[c] # NoPlace
             /\ coordCache[c].expires \in 0 .. MaxTime + CacheDuration

Phases == {"starting", "subscribed", "first", "serving", "dead"}

\* The channel, and what has gone through it.
ChannelType ==
    /\ channel \in Seq(PostalCodes) /\ Len(channel) <= ChannelSize
    /\ taken \in PostalCodes \cup {NoRequest} /\ dropped \in BOOLEAN

WeatherInv ==
    /\ now \in 0 .. MaxTime /\ request \in PostalCodes \cup {NoRequest}
    /\ process \in Phases
    /\ ChannelType /\ RightPlace /\ CacheRight /\ SixDays

LEMMA WithinLength ==
  ASSUME NEW S, NEW s \in Seq(S), NEW n \in Nat, ~(n > Len(s)), NEW i \in 1 .. n
  PROVE  i \in DOMAIN s /\ s[i] \in S
  <1>1. Len(s) \in Nat /\ DOMAIN s = 1 .. Len(s)
    OBVIOUS
  <1>2. i \in 1 .. Len(s)
    BY <1>1
  <1> QED
    BY <1>1, <1>2

\* Six days out of a forecast that has one, and that the loop gets through.
LEMMA SixEntries ==
  ASSUME NEW f \in ForecastType, ~Panics(f)
  PROVE  LET days == Entries(ForecastDays(f))
             Source(i) == IF i <= f.time THEN i ELSE f.time
         IN  /\ Len(days) = 6 /\ DOMAIN days = 1 .. 6
             /\ \A i \in 1 .. 6 :
                   /\ Source(i) \in DOMAIN f.maxs \cap DOMAIN f.mins
                   /\ Source(i) \in DOMAIN f.codes
                   /\ days[i].max = f.maxs[Source(i)]
                   /\ days[i].min = f.mins[Source(i)]
                   /\ days[i].statusID =
                        ConvertWeatherCode(IF Source(i) = 1 THEN f.current
                                           ELSE f.codes[Source(i)])
                   /\ days[i].precipitation \in 0 .. 10
  <1> DEFINE n == f.time
             all == ForecastDays(f)
             days == Entries(all)
             Source(i) == IF i <= n THEN i ELSE n
  <1>0. /\ f.maxs \in Seq(Int) /\ f.mins \in Seq(Int) /\ f.codes \in Seq(Int)
        /\ f.probabilities \in Seq(0 .. 100) /\ n \in Nat
    BY DEF ForecastType
  <1>1. /\ n \in Nat /\ n >= 1
        /\ \A i \in 1 .. n :
              /\ i \in DOMAIN f.maxs \cap DOMAIN f.mins /\ i \in DOMAIN f.codes
              /\ f.probabilities[i] \in 0 .. 100
    <2>1. /\ n # 0 /\ ~(n > Len(f.maxs)) /\ ~(n > Len(f.mins))
          /\ ~(n > Len(f.codes)) /\ ~(n > Len(f.probabilities))
      BY Zenon DEF Panics
    <2> HIDE DEF n
    <2>2. n \in Nat /\ n >= 1
      BY <1>0, <2>1
    <2>3. ASSUME NEW i \in 1 .. n
          PROVE  /\ i \in DOMAIN f.maxs \cap DOMAIN f.mins
                 /\ i \in DOMAIN f.codes
                 /\ f.probabilities[i] \in 0 .. 100
      <3>1. i \in DOMAIN f.maxs
        BY <1>0, <2>1, WithinLength
      <3>2. i \in DOMAIN f.mins
        BY <1>0, <2>1, WithinLength
      <3>3. i \in DOMAIN f.codes
        BY <1>0, <2>1, WithinLength
      <3>4. f.probabilities[i] \in 0 .. 100
        BY <1>0, <2>1, WithinLength
      <3> QED
        BY <3>1, <3>2, <3>3, <3>4
    <2> QED
      BY <2>2, <2>3
  <1>2. /\ all = [i \in 1 .. n |-> all[i]]
        /\ \A i \in 1 .. n :
              /\ all[i].max = f.maxs[i]
              /\ all[i].min = f.mins[i]
              /\ all[i].statusID = ConvertWeatherCode(IF i = 1 THEN f.current
                                                      ELSE f.codes[i])
              /\ all[i].precipitation = f.probabilities[i] \div 10
    BY DEF ForecastDays
  <1>3. Len(all) = n
    BY <1>1, <1>2
  <1> HIDE DEF n, all
  <1>4. /\ DOMAIN days = 1 .. 6
        /\ \A i \in 1 .. 6 : days[i] = all[Source(i)]
    BY <1>3 DEF Entries
  <1>5. Len(days) = 6
    BY <1>4 DEF Entries
  <1>6. \A i \in 1 .. 6 : Source(i) \in 1 .. n
    BY <1>1
  <1>7. \A i \in 1 .. n : f.probabilities[i] \div 10 \in 0 .. 10
    <2>1. \A k \in 0 .. 100 : k \div 10 \in 0 .. 10
      OBVIOUS
    <2> QED
      BY <1>1, <2>1
  <1>8. \A i \in 1 .. 6 :
           /\ Source(i) \in DOMAIN f.maxs \cap DOMAIN f.mins
           /\ Source(i) \in DOMAIN f.codes
           /\ days[i].max = f.maxs[Source(i)]
           /\ days[i].min = f.mins[Source(i)]
           /\ days[i].statusID =
                ConvertWeatherCode(IF Source(i) = 1 THEN f.current
                                   ELSE f.codes[Source(i)])
           /\ days[i].precipitation \in 0 .. 10
    <2> SUFFICES ASSUME NEW i \in 1 .. 6, NEW j \in 1 .. n, j = Source(i)
                 PROVE  /\ j \in DOMAIN f.maxs \cap DOMAIN f.mins
                        /\ j \in DOMAIN f.codes
                        /\ days[i].max = f.maxs[j]
                        /\ days[i].min = f.mins[j]
                        /\ days[i].statusID =
                             ConvertWeatherCode(IF j = 1 THEN f.current
                                                ELSE f.codes[j])
                        /\ days[i].precipitation \in 0 .. 10
      BY <1>6
    <2>1. days[i] = all[j]
      BY <1>4
    <2> HIDE DEF Source, days
    <2> QED
      BY <1>1, <1>2, <1>7, <2>1
  <1> USE DEF n, all
  <1> QED
    BY <1>4, <1>5, <1>8

LEMMA EmptyChannel == <<>> \in Seq(PostalCodes) /\ Len(<<>>) <= ChannelSize
  <1>1. <<>> \in Seq(PostalCodes) /\ Len(<<>>) = 0
    OBVIOUS
  <1> QED
    BY <1>1, WeatherAssumption

LEMMA WeatherInvInit == WeatherInit => WeatherInv
  <1> SUFFICES ASSUME WeatherInit PROVE WeatherInv
    OBVIOUS
  <1>1. now \in 0 .. MaxTime
    BY WeatherAssumption DEF WeatherInit
  <1>2. RightPlace /\ CacheRight
    BY DEF WeatherInit, RightPlace, CacheRight, Resting, Asking
  <1>3. SixDays /\ ChannelType
    BY WeatherAssumption, EmptyChannel DEF WeatherInit, SixDays, ChannelType
  <1> QED
    BY <1>1, <1>2, <1>3 DEF WeatherInit, WeatherInv, Phases

\* What SixDays says of an answer.
SixDaysOf(a) ==
    LET f == a.of
        Source(i) == IF i <= f.time THEN i ELSE f.time
    IN  /\ a.code \notin Malformed
        /\ a.place = Place[a.code]
        /\ f \in Forecasts[a.place]
        /\ Len(a.days) = 6
        /\ a.days[1].statusID = ConvertWeatherCode(f.current)
        /\ \A i \in 1 .. 6 :
              /\ Source(i) \in DOMAIN f.maxs \cap DOMAIN f.mins
              /\ a.days[i].max = f.maxs[Source(i)]
              /\ a.days[i].min = f.mins[Source(i)]
              /\ Source(i) # 1 => /\ Source(i) \in DOMAIN f.codes
                                  /\ a.days[i].statusID =
                                       ConvertWeatherCode(f.codes[Source(i)])

LEMMA SixDaysIs ==
  /\ SixDays <=> (answer # NoAnswer => SixDaysOf(answer))
  /\ SixDays' <=> (answer' # NoAnswer => SixDaysOf(answer'))
  BY Zenon DEF SixDays, SixDaysOf

LEMMA SixDaysFrame ==
  ASSUME SixDays, UNCHANGED answer
  PROVE  SixDays'
  BY SixDaysIs

LEMMA CacheFrame ==
  ASSUME CacheRight, UNCHANGED coordCache
  PROVE  CacheRight'
  BY DEF CacheRight

LEMMA ChannelFrame ==
  ASSUME ChannelType, UNCHANGED <<channel, taken, dropped>>
  PROVE  ChannelType'
  BY DEF ChannelType

\* A step that answers nothing and looks up no place.
LEMMA WeatherFrame ==
  ASSUME WeatherInv, UNCHANGED answer,
         \/ UNCHANGED <<coordCache, weather>>
         \/ UNCHANGED coordCache /\ weather' = Resting
         \/ /\ coordCache' = [c \in PostalCodes |-> NotCached]
            /\ weather' = Resting
  PROVE  (RightPlace /\ CacheRight /\ SixDays)'
  <1>1. SixDays'
    BY SixDaysFrame DEF WeatherInv
  <1>2. CacheRight'
    <2>1. CASE UNCHANGED coordCache
      BY <2>1, CacheFrame DEF WeatherInv
    <2>2. CASE coordCache' = [c \in PostalCodes |-> NotCached]
      BY <2>2 DEF CacheRight
    <2> QED
      BY <2>1, <2>2
  <1>3. RightPlace'
    <2>1. CASE UNCHANGED weather
      BY <2>1 DEF WeatherInv, RightPlace
    <2>2. CASE weather' = Resting
      BY <2>2 DEF RightPlace, Resting, Asking
    <2> QED
      BY <2>1, <2>2
  <1> QED
    BY <1>1, <1>2, <1>3

\* The thermostat's request gets into the store, and into a channel with room.
LEMMA WeatherAsk ==
  ASSUME WeatherInv, NEW c \in PostalCodes, AskWeather(c)
  PROVE  WeatherInv'
  <1>1. /\ request' = c
        /\ UNCHANGED <<now, coordCache, weather, process, taken, answer>>
    BY DEF AskWeather
  <1>2. ChannelType'
    <2>1. CASE UNCHANGED <<channel, dropped>>
      BY <1>1, <2>1, ChannelFrame DEF WeatherInv
    <2>2. CASE /\ dropped' = (Len(channel) = ChannelSize)
               /\ channel' = IF dropped' THEN channel ELSE Append(channel, c)
      <3>1. /\ channel \in Seq(PostalCodes) /\ Len(channel) <= ChannelSize
            /\ ChannelSize \in Nat /\ Len(channel) \in Nat
        BY WeatherAssumption DEF WeatherInv, ChannelType
      <3>2. dropped' \in BOOLEAN
        BY <2>2
      <3>3. channel' \in Seq(PostalCodes) /\ Len(channel') <= ChannelSize
        <4>1. CASE Len(channel) = ChannelSize
          BY <2>2, <3>1, <4>1
        <4>2. CASE Len(channel) # ChannelSize
          <5>1. channel' = Append(channel, c)
            BY <2>2, <4>2
          <5> QED
            BY <3>1, <4>2, <5>1
        <4> QED
          BY <4>1, <4>2
      <3> QED
        BY <1>1, <3>2, <3>3 DEF WeatherInv, ChannelType
    <2> QED
      BY <2>1, <2>2 DEF AskWeather
  <1> QED
    BY <1>1, <1>2, WeatherFrame DEF WeatherInv

\* The callback begins, with the saved request or with the next one.
LEMMA WeatherBegin ==
  ASSUME WeatherInv, ReadWeather \/ BeginForecast
  PROVE  WeatherInv'
  <1>1. UNCHANGED <<now, request, coordCache, answer, dropped>>
    BY DEF ReadWeather, BeginForecast
  <1>2. CASE ReadWeather /\ request = NoRequest
    <2>1. /\ process' = "serving"
          /\ UNCHANGED <<weather, taken, channel>>
      BY <1>2 DEF ReadWeather
    <2> QED
      BY <1>1, <2>1, WeatherFrame, ChannelFrame DEF WeatherInv, Phases
  <1>3. ASSUME NEW c \in PostalCodes, Begin(c), process' \in Phases,
               \/ UNCHANGED channel
               \/ channel # <<>> /\ channel' = Tail(channel)
        PROVE  WeatherInv'
    <2>1. RightPlace'
      BY <1>3 DEF Begin, RightPlace, Asking
    <2>2. ChannelType'
      <3>1. channel' \in Seq(PostalCodes) /\ Len(channel') <= ChannelSize
        BY <1>3, WeatherAssumption DEF WeatherInv, ChannelType
      <3> QED
        BY <1>1, <1>3, <3>1 DEF Begin, WeatherInv, ChannelType
    <2> QED
      BY <1>1, <1>3, <2>1, <2>2, SixDaysFrame, CacheFrame DEF WeatherInv
  <1>4. CASE ReadWeather /\ request # NoRequest
    <2>1. request \in PostalCodes
      BY <1>4 DEF WeatherInv
    <2> QED
      BY <1>3, <1>4, <2>1 DEF ReadWeather, Phases
  <1>5. CASE BeginForecast
    <2>1. Head(channel) \in PostalCodes /\ process' \in Phases
      BY <1>5 DEF BeginForecast, WeatherInv, ChannelType, Phases
    <2> QED
      BY <1>3, <1>5, <2>1 DEF BeginForecast
  <1> QED
    BY <1>2, <1>4, <1>5

LEMMA WeatherLookUp ==
  ASSUME WeatherInv, LookUpPlace
  PROVE  WeatherInv'
  <1>1. /\ weather.at = "validate" /\ weather.code \in PostalCodes
        /\ UNCHANGED <<now, request, channel, coordCache, taken, dropped, answer>>
    BY DEF LookUpPlace, WeatherInv, RightPlace, Asking, Done
  <1>c. ChannelType'
    BY <1>1, ChannelFrame DEF WeatherInv
  <1>2. CASE weather.code \in Malformed
    <2>1. weather' = Resting /\ process' = "serving"
      BY <1>2 DEF LookUpPlace, Done
    <2> QED
      BY <1>1, <1>c, <2>1, WeatherFrame DEF WeatherInv, Phases
  <1>3. CASE weather.code \notin Malformed /\ ~Cached(weather.code)
    <2>1. /\ weather' = [weather EXCEPT !.at = "geocode"]
          /\ UNCHANGED process
      BY <1>1, <1>3 DEF LookUpPlace
    <2>2. RightPlace'
      BY <1>1, <1>3, <2>1 DEF RightPlace, Asking
    <2> QED
      BY <1>1, <1>c, <2>1, <2>2, SixDaysFrame, CacheFrame DEF WeatherInv
  <1>4. CASE weather.code \notin Malformed /\ Cached(weather.code)
    <2>1. /\ weather' = [at |-> "forecast", code |-> weather.code,
                         place |-> coordCache[weather.code].place]
          /\ UNCHANGED process
      BY <1>1, <1>4 DEF LookUpPlace
    <2>2. /\ coordCache[weather.code].place = Place[weather.code]
          /\ Place[weather.code] # NoPlace
      BY <1>1, <1>4 DEF Cached, WeatherInv, CacheRight
    <2>3. RightPlace'
      BY <1>1, <1>4, <2>1, <2>2 DEF RightPlace, Asking
    <2> QED
      BY <1>1, <1>c, <2>1, <2>3, SixDaysFrame, CacheFrame DEF WeatherInv
  <1> QED
    BY <1>2, <1>3, <1>4

LEMMA WeatherGeocode ==
  ASSUME WeatherInv, Geocode
  PROVE  WeatherInv'
  <1> DEFINE c == weather.code
  <1>1. /\ c \in PostalCodes /\ c \notin Malformed /\ Place[c] # NoPlace
        /\ coordCache' = [coordCache EXCEPT ![c] =
                            [place |-> Place[c],
                             expires |-> now + CacheDuration]]
        /\ weather' = [at |-> "forecast", code |-> c, place |-> Place[c]]
        /\ UNCHANGED <<now, request, channel, process, taken, dropped, answer>>
    BY DEF Geocode, WeatherInv, RightPlace, Asking
  <1>2. now + CacheDuration \in 0 .. MaxTime + CacheDuration
    BY WeatherAssumption DEF WeatherInv
  <1>3. CacheRight'
    BY <1>1, <1>2 DEF WeatherInv, CacheRight
  <1>4. RightPlace'
    BY <1>1 DEF RightPlace, Asking
  <1> QED
    BY <1>1, <1>3, <1>4, SixDaysFrame, ChannelFrame DEF WeatherInv

\* What Answer sends is six days of a forecast of the place of its code.
LEMMA AnswerFacts ==
  ASSUME WeatherInv, Answer
  PROVE  /\ weather.code \in PostalCodes
         /\ UNCHANGED <<now, request, channel, coordCache, taken, dropped>>
         /\ \/ process' = "dead" /\ weather' = Resting /\ UNCHANGED answer
            \/ \E f \in ForecastType :
                  /\ ~Panics(f) /\ f \in Forecasts[Place[weather.code]]
                  /\ weather.code \notin Malformed
                  /\ weather' = Resting /\ process' = "serving"
                  /\ answer' = [code |-> weather.code,
                                place |-> Place[weather.code], of |-> f,
                                days |-> Entries(ForecastDays(f))]
  <1> DEFINE c == weather.code
  <1>1. /\ c \in PostalCodes /\ c \notin Malformed
        /\ weather.place = Place[c] /\ Place[c] # NoPlace
        /\ UNCHANGED <<now, request, channel, coordCache, taken, dropped>>
    BY DEF Answer, WeatherInv, RightPlace, Asking
  <1>2. PICK f \in Forecasts[Place[c]] :
          IF Panics(f)
          THEN process' = "dead" /\ weather' = Resting /\ UNCHANGED answer
          ELSE Done([code |-> c, place |-> weather.place, of |-> f,
                     days |-> Entries(ForecastDays(f))])
    BY <1>1 DEF Answer
  <1>3. f \in ForecastType
    BY <1>1, WeatherAssumption
  <1>4. CASE Panics(f)
    BY <1>1, <1>2, <1>4
  <1>5. CASE ~Panics(f)
    BY <1>1, <1>2, <1>3, <1>5 DEF Done
  <1> QED
    BY <1>4, <1>5

LEMMA WeatherAnswer ==
  ASSUME WeatherInv, Answer
  PROVE  WeatherInv'
  <1> DEFINE c == weather.code
  <1>1. /\ c \in PostalCodes
        /\ UNCHANGED <<now, request, channel, coordCache, taken, dropped>>
    BY AnswerFacts
  <1>2. ChannelType'
    BY <1>1, ChannelFrame DEF WeatherInv
  <1>3. CASE process' = "dead" /\ weather' = Resting /\ UNCHANGED answer
    BY <1>1, <1>2, <1>3, WeatherFrame DEF WeatherInv, Phases
  <1>4. ASSUME NEW f \in ForecastType,
               ~Panics(f), f \in Forecasts[Place[c]], c \notin Malformed,
               weather' = Resting, process' = "serving",
               answer' = [code |-> c, place |-> Place[c], of |-> f,
                          days |-> Entries(ForecastDays(f))]
        PROVE  WeatherInv'
    <2>1. SixDaysOf(answer')
      <3> DEFINE Source(i) == IF i <= f.time THEN i ELSE f.time
                 days == Entries(ForecastDays(f))
      <3>1. /\ answer'.code = c /\ answer'.place = Place[c]
            /\ answer'.of = f /\ answer'.days = days
        BY <1>4
      <3>2. /\ Len(days) = 6
            /\ \A i \in 1 .. 6 :
                  /\ Source(i) \in DOMAIN f.maxs \cap DOMAIN f.mins
                  /\ Source(i) \in DOMAIN f.codes
                  /\ days[i].max = f.maxs[Source(i)]
                  /\ days[i].min = f.mins[Source(i)]
                  /\ days[i].statusID =
                       ConvertWeatherCode(IF Source(i) = 1 THEN f.current
                                          ELSE f.codes[Source(i)])
        BY <1>4, SixEntries
      <3>3. Source(1) = 1
        BY <1>4 DEF Panics, ForecastType
      <3>4. days[1].statusID = ConvertWeatherCode(f.current)
        <4> HIDE DEF Source, days
        <4>1. 1 \in 1 .. 6
          OBVIOUS
        <4> QED
          BY <3>2, <3>3, <4>1
      <3> HIDE DEF days
      <3> QED
        BY <1>4, <3>1, <3>2, <3>4 DEF SixDaysOf
    <2>2. SixDays'
      BY <2>1, SixDaysIs
    <2>3. RightPlace'
      BY <1>4 DEF RightPlace, Resting, Asking
    <2>4. CacheRight'
      BY <1>1, CacheFrame DEF WeatherInv
    <2> QED
      BY <1>1, <1>2, <1>4, <2>2, <2>3, <2>4 DEF WeatherInv, Phases
  <1> QED
    BY <1>3, <1>4, AnswerFacts

LEMMA WeatherStep ==
  ASSUME WeatherInv, [WeatherNext]_weatherVars
  PROVE  WeatherInv'
  <1>1. CASE SubscribeWeather
    BY <1>1, WeatherFrame, ChannelFrame DEF SubscribeWeather, WeatherInv, Phases
  <1>2. CASE NoForecast
    BY <1>2, WeatherFrame, ChannelFrame DEF NoForecast, Done, WeatherInv, Phases
  <1>3. CASE RestartWeather
    <2>1. ChannelType'
      BY <1>3, EmptyChannel DEF RestartWeather, ChannelType
    <2> QED
      BY <1>3, <2>1, WeatherFrame DEF RestartWeather, WeatherInv, Phases
  <1>4. CASE TimePasses
    <2>1. now' \in 0 .. MaxTime
      BY <1>4, WeatherAssumption DEF TimePasses, WeatherInv
    <2> QED
      BY <1>4, <2>1, WeatherFrame, ChannelFrame DEF TimePasses, WeatherInv
  <1>5. CASE UNCHANGED weatherVars
    BY <1>5, WeatherFrame, ChannelFrame DEF weatherVars, WeatherInv
  <1> QED
    BY <1>1, <1>2, <1>3, <1>4, <1>5, WeatherAsk, WeatherBegin, WeatherLookUp,
       WeatherGeocode, WeatherAnswer DEF WeatherNext

\* Whatever is asked for and whenever, with the first callback running or not,
\* however the lists of a forecast differ in length, and however often the
\* process dies: each answer is for the place that was asked for, and six days
\* of its forecast.
THEOREM AnswersHaveSixDays == WeatherSpec => []SixDays
  <1>1. WeatherInv => SixDays
    BY DEF WeatherInv
  <1> QED
    BY <1>1, WeatherInvInit, WeatherStep, PTL DEF WeatherSpec

\* The request in the store is the last one in the channel; when that is empty
\* it is the one taken last, once the setting has been read.
LastIs(c) == channel[Len(channel)] = c

LatestKept ==
    /\ process = "starting" => channel = <<>> /\ ~dropped /\ taken = NoRequest
    /\ process = "subscribed" => taken = NoRequest
    /\ weather.at \in Asking => process \in {"first", "serving"}
    /\ channel # <<>> /\ ~dropped => LastIs(request)
    /\ channel = <<>> /\ ~dropped /\ process \in {"first", "serving"} =>
          taken = request

LEMMA TailLast ==
  ASSUME NEW S, NEW s \in Seq(S), s # <<>>
  PROVE  IF Tail(s) = <<>> THEN s[Len(s)] = Head(s)
         ELSE Tail(s)[Len(Tail(s))] = s[Len(s)]
  <1>1. /\ Tail(s) \in Seq(S) /\ Len(Tail(s)) = Len(s) - 1
        /\ Len(s) \in Nat /\ Len(s) >= 1
        /\ \A i \in 1 .. Len(s) - 1 : Tail(s)[i] = s[i + 1]
    OBVIOUS
  <1>2. CASE Tail(s) = <<>>
    <2>1. Len(Tail(s)) = 0 /\ Head(s) = s[1]
      <3>1. Len(<<>>) = 0
        OBVIOUS
      <3>2. Head(s) = s[1]
        OBVIOUS
      <3> QED
        BY <1>2, <3>1, <3>2, Zenon
    <2>2. Len(s) = 1
      <3> DEFINE k == Len(s)
                 l == Len(Tail(s))
      <3>1. k \in Nat /\ l = k - 1 /\ l = 0
        BY <1>1, <2>1, Zenon
      <3> HIDE DEF k, l
      <3>2. k = 1
        BY <3>1
      <3> QED
        BY <3>2 DEF k
    <2> QED
      BY <1>2, <2>1, <2>2
  <1>3. CASE Tail(s) # <<>>
    <2>1. Len(Tail(s)) # 0
      BY <1>1, <1>3
    <2>2. Len(s) - 1 \in 1 .. Len(s) - 1
      BY <1>1, <2>1
    <2>3. Tail(s)[Len(s) - 1] = s[(Len(s) - 1) + 1]
      BY <1>1, <2>2
    <2>4. (Len(s) - 1) + 1 = Len(s)
      BY <1>1
    <2> QED
      BY <1>1, <1>3, <2>3, <2>4
  <1> QED
    BY <1>2, <1>3

LEMMA LatestKeptStep ==
  ASSUME WeatherInv, LatestKept, [WeatherNext]_weatherVars
  PROVE  LatestKept'
  <1>0. channel \in Seq(PostalCodes) /\ process \in Phases
    BY DEF WeatherInv, ChannelType
  <1>1. ASSUME NEW c \in PostalCodes, AskWeather(c) PROVE LatestKept'
    <2>1. CASE process = "starting"
      BY <1>1, <2>1 DEF AskWeather, LatestKept
    <2>2. CASE process # "starting" /\ dropped'
      BY <1>1, <2>2 DEF AskWeather, LatestKept
    <2>3. CASE process # "starting" /\ ~dropped'
      <3>1. channel' = Append(channel, c) /\ request' = c
        BY <1>1, <2>3 DEF AskWeather
      <3>2. channel' # <<>> /\ LastIs(request)'
        BY <1>0, <3>1 DEF LastIs
      <3> QED
        BY <1>1, <2>3, <3>2 DEF AskWeather, LatestKept
    <2> QED
      BY <2>1, <2>2, <2>3
  <1>2. CASE SubscribeWeather
    BY <1>2 DEF SubscribeWeather, LatestKept, LastIs, Asking
  <1>3. CASE ReadWeather
    BY <1>3 DEF ReadWeather, Begin, LatestKept, LastIs
  <1>4. CASE BeginForecast
    <2>1. /\ channel # <<>> /\ channel' = Tail(channel)
          /\ taken' = Head(channel) /\ process = "serving"
          /\ UNCHANGED <<request, process, dropped>>
      BY <1>4 DEF BeginForecast, Begin
    <2>2. \A s \in Seq(PostalCodes) : s # <<>> =>
             IF Tail(s) = <<>> THEN s[Len(s)] = Head(s)
             ELSE Tail(s)[Len(Tail(s))] = s[Len(s)]
      BY TailLast
    <2>3. IF channel' = <<>> THEN channel[Len(channel)] = Head(channel)
          ELSE channel'[Len(channel')] = channel[Len(channel)]
      BY <1>0, <2>1, <2>2
    <2> QED
      BY <2>1, <2>2, <2>3 DEF LatestKept, LastIs
  <1>5. CASE LookUpPlace \/ NoForecast \/ Answer
    <2>1. /\ weather.at \in Asking
          /\ UNCHANGED <<request, channel, taken, dropped>>
      BY <1>5 DEF LookUpPlace, NoForecast, Answer, Asking
    <2>2. \/ process' = "serving"
          \/ process' = "dead" /\ weather' = Resting
          \/ UNCHANGED process
      BY <1>5 DEF LookUpPlace, NoForecast, Answer, Done
    <2> QED
      BY <2>1, <2>2 DEF LatestKept, LastIs, Resting, Asking
  <1>6. CASE Geocode
    BY <1>6 DEF Geocode, LatestKept, LastIs, Asking
  <1>7. CASE RestartWeather
    BY <1>7 DEF RestartWeather, LatestKept, Resting, Asking
  <1>8. CASE TimePasses \/ UNCHANGED weatherVars
    BY <1>8 DEF TimePasses, weatherVars, LatestKept, LastIs
  <1> QED
    BY <1>1, <1>2, <1>3, <1>4, <1>5, <1>6, <1>7, <1>8 DEF WeatherNext

\* No request is lost to the order of subscribing, reading and calling back:
\* once all are dealt with, the last was the one in the store, unless the
\* channel had no room for it.
THEOREM LatestIsTaken == WeatherSpec => []LatestTaken
  <1>1. WeatherInit => LatestKept
    BY DEF WeatherInit, LatestKept, Resting, Asking
  <1>2. LatestKept => LatestTaken
    BY DEF LatestKept, LatestTaken
  <1> QED
    BY <1>1, <1>2, WeatherInvInit, WeatherStep, LatestKeptStep, PTL
       DEF WeatherSpec

\* What the thermostat gets is one of its codes, and tenths.
AnswerCodes ==
    \A i \in DOMAIN answer.days :
        /\ answer.days[i].statusID \in 1 .. 14
        /\ answer.days[i].precipitation \in 0 .. 10

LEMMA CodesAreKnown == \A k : ConvertWeatherCode(k) \in 1 .. 14
  BY DEF ConvertWeatherCode

LEMMA AnswerCodesStep ==
  ASSUME WeatherInv, AnswerCodes, [WeatherNext]_weatherVars
  PROVE  AnswerCodes'
  <1>1. CASE UNCHANGED answer
    BY <1>1 DEF AnswerCodes
  <1>2. CASE Answer
    <2>1. CASE UNCHANGED answer
      BY <1>1, <2>1
    <2>2. ASSUME NEW f \in ForecastType, ~Panics(f),
                 answer' = [code |-> weather.code,
                            place |-> Place[weather.code], of |-> f,
                            days |-> Entries(ForecastDays(f))]
          PROVE  AnswerCodes'
      <3> DEFINE days == Entries(ForecastDays(f))
                 Source(i) == IF i <= f.time THEN i ELSE f.time
      <3>1. answer'.days = days
        BY <2>2
      <3>2. /\ DOMAIN days = 1 .. 6
            /\ \A i \in 1 .. 6 :
                  /\ days[i].statusID =
                       ConvertWeatherCode(IF Source(i) = 1 THEN f.current
                                          ELSE f.codes[Source(i)])
                  /\ days[i].precipitation \in 0 .. 10
        BY <2>2, SixEntries
      <3> HIDE DEF days, Source
      <3> QED
        BY <3>1, <3>2, CodesAreKnown DEF AnswerCodes
    <2> QED
      BY <1>2, <2>1, <2>2, AnswerFacts
  <1>3. CASE LookUpPlace \/ NoForecast
    BY <1>1, <1>3 DEF LookUpPlace, NoForecast, Done
  <1> QED
    BY <1>1, <1>2, <1>3
       DEF WeatherNext, weatherVars, AskWeather, SubscribeWeather, ReadWeather,
           BeginForecast, Geocode, RestartWeather, TimePasses

\* The clock, the channel, the cache and the callback keep their types, and an
\* answer has codes that the thermostat knows and tenths of a probability.
THEOREM WeatherTypeCorrect == WeatherSpec => []WeatherTypeOK
  <1>1. WeatherInit => AnswerCodes
    BY DEF WeatherInit, AnswerCodes, NoAnswer
  <1>2. ASSUME WeatherInv, AnswerCodes PROVE WeatherTypeOK
    <2>1. \A c \in PostalCodes :
             /\ coordCache[c].expires \in 0 .. MaxTime + CacheDuration
             /\ coordCache[c].place \in {Place[c], NoPlace}
      BY <1>2, WeatherAssumption DEF WeatherInv, CacheRight, NotCached
    <2> QED
      BY <1>2, <2>1 DEF WeatherInv, ChannelType, RightPlace, Asking, Phases,
                        AnswerCodes, WeatherTypeOK
  <1> QED
    BY <1>1, <1>2, WeatherInvInit, WeatherStep, AnswerCodesStep, PTL DEF WeatherSpec

-----------------------------------------------------------------------------
(* Commands of Home Assistant *)

Sides == {"htsp", "clsp"}
ActivityFields == {"htsp", "clsp", "fan"}
Setpoints == Temps \cup {0}
FansKnown == Fans \cup {Unknown}

Commands == Sent(Setpoints \cup {Keep}, FansKnown \cup {Keep})
Known == [activity : AllActivities \cup {Unknown},
          htsp : Setpoints \cup {Unknown}, clsp : Setpoints \cup {Unknown},
          fan : FansKnown]
Wanted == [activity : AllActivities, htsp : Setpoints \cup {Unreadable},
           clsp : Setpoints \cup {Unreadable}, fan : FansKnown]
Requests == [kind : Sides, value : Temps \cup {Unreadable}]
              \cup [kind : {"fan"}, value : Fans]
              \cup [kind : {"preset"}, value : AllActivities]
Handlers ==
    {Off} \cup [at : {"send", "keepFan"}, command : Commands]
          \cup [at : {"fan"}, value : Fans]
          \cup [at : {"activity", "other"}, field : Sides, value : Setpoints]

CommandsTypeInv ==
    /\ activity \in AllActivities
    /\ settings \in [AllActivities -> Setting(Setpoints)]
    /\ known \in Known
    /\ report \in [values : Known, rest : SUBSET Fields]
    /\ requests \in Seq(Requests) /\ handler \in Handlers
    /\ commands \in Seq(Commands)
    /\ asked \in 0 .. MaxRequests /\ own \in 0 .. MaxOwn
    /\ wanted \in Wanted /\ orderly \in BOOLEAN /\ blind \in BOOLEAN

\* No setpoint of 0, whether in force, known, reported or on its way.
NoZero(r) == r.htsp # 0 /\ r.clsp # 0

NoZeros ==
    blind \/ /\ \A a \in AllActivities : NoZero(settings[a])
             /\ NoZero(known) /\ NoZero(report.values)
             /\ \A i \in DOMAIN commands : NoZero(commands[i])
             /\ handler.at \in {"send", "keepFan"} => NoZero(handler.command)
             /\ handler.at \in {"activity", "other"} => handler.value # 0

-----------------------------------------------------------------------------
(* What is asked for is on its way. *)

\* A command that does what is wanted.
Fulfils(c) ==
    /\ wanted.activity = Or(c.activity, activity)
    /\ c.of = wanted.activity
    /\ \A x \in ActivityFields :
          wanted[x] = Or(c[x], settings[c.of][x])

\* A request that does.
Asks(kind, value) ==
    IF kind = "preset" THEN wanted = Values(value)
    ELSE /\ wanted[kind] = value
         /\ wanted.activity = IF kind = "fan" THEN activity ELSE Manual
         /\ \A x \in ActivityFields \ {kind} : wanted[x] = InForce[x]

\* One request is on its way, and the store agrees with the thermostat.
OneAsked ==
    /\ known = InForce /\ ~Reporting
    /\ \/ /\ Len(requests) = 1 /\ handler = Off /\ commands = <<>>
          /\ Asks(requests[1].kind, requests[1].value)
          /\ requests[1].kind \in Sides => requests[1].value # Unreadable
       \/ /\ requests = <<>> /\ handler # Off /\ commands = <<>>
          /\ CASE handler.at = "fan" -> Asks("fan", handler.value)
               [] handler.at \in {"activity", "other"} ->
                     Asks(handler.field, handler.value)
               [] handler.at = "keepFan" ->
                     Fulfils([handler.command EXCEPT !.fan = known.fan])
               [] handler.at = "send" -> Fulfils(handler.command)
       \/ /\ requests = <<>> /\ handler = Off
          /\ Len(commands) = 1 /\ Fulfils(commands[1])

\* The handler has this value for x; the command has.
HandlerSets(x) ==
    \/ handler.at = "fan" /\ x = "fan"
    \/ handler.at = "activity" /\ x = handler.field
    \/ handler.at = "send" /\ handler.command[x] # Keep
HandlerValue(x) ==
    IF handler.at = "send" THEN handler.command[x] ELSE handler.value

\* The last of those that set x sets it to what is wanted.
LastSets(x) ==
    \/ \E i \in DOMAIN requests :
          /\ requests[i].kind = x /\ requests[i].value = wanted[x]
          /\ \A j \in DOMAIN requests : j > i => requests[j].kind # x
    \/ /\ \A i \in DOMAIN requests : requests[i].kind # x
       /\ \/ HandlerSets(x) /\ HandlerValue(x) = wanted[x]
          \/ /\ ~HandlerSets(x)
             /\ \/ \E i \in DOMAIN commands :
                      /\ commands[i][x] = wanted[x] /\ commands[i][x] # Keep
                      /\ \A j \in DOMAIN commands : j > i => commands[j][x] = Keep
                \/ /\ \A i \in DOMAIN commands : commands[i][x] = Keep
                   /\ settings[Manual][x] = wanted[x]

\* In a manual hold that all know of requests may follow each other.
ManualAsked ==
    /\ activity = Manual /\ known.activity = Manual /\ wanted.activity = Manual
    /\ Reporting /\ "activity" \in report.rest
          => report.values.activity = Manual
    /\ \A i \in DOMAIN requests :
          /\ requests[i].kind # "preset"
          /\ requests[i].kind \in Sides => requests[i].value # Unreadable
    /\ handler.at \in {"off", "fan", "activity", "send"}
    /\ handler.at = "send" =>
          handler.command.activity = Keep /\ handler.command.of = Manual
    /\ \A i \in DOMAIN commands :
          commands[i].activity = Keep /\ commands[i].of = Manual
    /\ \A x \in ActivityFields : LastSets(x)

NoneAsked == ~Pending /\ InForce = wanted

AskedInv == orderly => NoneAsked \/ OneAsked \/ ManualAsked

-----------------------------------------------------------------------------
\* What is at the end of a sequence, and what is behind its head.
LEMMA AppendItem ==
  ASSUME NEW S, NEW s \in Seq(S), NEW e \in S
  PROVE  /\ Append(s, e) \in Seq(S)
         /\ DOMAIN Append(s, e) = 1 .. Len(s) + 1
         /\ DOMAIN s = 1 .. Len(s) /\ Len(s) \in Nat
         /\ \A i \in 1 .. Len(s) : Append(s, e)[i] = s[i]
         /\ Append(s, e)[Len(s) + 1] = e
  OBVIOUS

LEMMA TailItem ==
  ASSUME NEW S, NEW s \in Seq(S), s # <<>>
  PROVE  /\ Tail(s) \in Seq(S) /\ Head(s) = s[1] /\ Head(s) \in S
         /\ Len(s) \in Nat /\ Len(s) >= 1 /\ Len(Tail(s)) = Len(s) - 1
         /\ DOMAIN s = 1 .. Len(s) /\ DOMAIN Tail(s) = 1 .. Len(s) - 1
         /\ \A i \in 1 .. Len(s) - 1 : Tail(s)[i] = s[i + 1]
  OBVIOUS

\* Nothing else is taken for what is missing.
LEMMA Missing ==
  /\ 0 \notin Temps
  /\ Keep \notin Setpoints \cup FansKnown \cup AllActivities
  /\ Unknown \notin Setpoints \cup AllActivities
  BY CommandsAssumption DEF Setpoints, FansKnown, AllActivities, Manual

LEMMA ValuesType ==
  ASSUME CommandsTypeInv, NEW a \in AllActivities
  PROVE  /\ settings[a] \in Setting(Setpoints)
         /\ Values(a) \in Known /\ Values(a) \in Wanted
  <1>1. settings[a] \in Setting(Setpoints)
    BY DEF CommandsTypeInv
  <1> QED
    BY <1>1 DEF Setting, Values, Known, Wanted, FansKnown

LEMMA CommandType ==
  ASSUME NEW hold \in AllActivities \cup {Keep}, NEW of \in AllActivities
  PROVE  Command(hold, of) \in Commands
  BY DEF Command, Commands, Sent

\* What a command leaves in the settings of its activity.
Obeyed(c, r) ==
    [htsp |-> Or(c.htsp, r.htsp), clsp |-> Or(c.clsp, r.clsp),
     fan |-> Or(c.fan, r.fan)]

LEMMA ObeyFacts ==
  ASSUME CommandsTypeInv, Obey
  PROVE  LET c == Head(commands)
         IN  /\ c \in Commands /\ c = commands[1] /\ 1 \in DOMAIN commands
             /\ activity' = Or(c.activity, activity)
             /\ activity' \in AllActivities
             /\ settings' = [settings EXCEPT ![c.of] = Obeyed(c, settings[c.of])]
             /\ Obeyed(c, settings[c.of]) \in Setting(Setpoints)
  <1> DEFINE c == Head(commands)
  <1>1. c \in Commands /\ c = commands[1] /\ 1 \in DOMAIN commands
    BY TailItem DEF Obey, CommandsTypeInv
  <1>2. /\ activity' = Or(c.activity, activity)
        /\ settings' = [settings EXCEPT ![c.of] = Obeyed(c, settings[c.of])]
    BY <1>1 DEF Obey, Obeyed, Commands, Sent, CommandsTypeInv
  <1>3. settings[c.of] \in Setting(Setpoints)
    BY <1>1 DEF Commands, Sent, CommandsTypeInv
  <1>4. Obeyed(c, settings[c.of]) \in Setting(Setpoints)
    BY <1>1, <1>3 DEF Obeyed, Or, Commands, Sent, Setting, FansKnown
  <1>5. activity' \in AllActivities
    BY <1>1, <1>2 DEF Or, Commands, Sent, CommandsTypeInv
  <1> QED
    BY <1>1, <1>2, <1>4, <1>5

LEMMA CommandsTypeInit == CommandsInit => CommandsTypeInv
  <1> SUFFICES ASSUME CommandsInit PROVE CommandsTypeInv
    OBVIOUS
  <1>1. settings \in [AllActivities -> Setting(Setpoints)]
    BY CommandsAssumption
       DEF CommandsInit, AllActivities, Manual, Setting, Setpoints, FansKnown
  <1>2. known \in Known /\ NoReport \in [values : Known, rest : SUBSET Fields]
    BY DEF CommandsInit, Known, NoReport, Fields, FansKnown
  <1>3. InForce \in Wanted
    BY <1>1 DEF CommandsInit, InForce, Values, Wanted, Setting, FansKnown
  <1>4. asked \in 0 .. MaxRequests /\ own \in 0 .. MaxOwn
    BY CommandsAssumption DEF CommandsInit
  <1>5. requests \in Seq(Requests) /\ commands \in Seq(Commands)
    BY DEF CommandsInit
  <1>6. handler \in Handlers
    BY DEF CommandsInit, Handlers
  <1> QED
    BY <1>1, <1>2, <1>3, <1>4, <1>5, <1>6 DEF CommandsInit, CommandsTypeInv

LEMMA CommandsTypeThermostat ==
  ASSUME CommandsTypeInv,
         \/ Report \/ (\E f \in Fields : ApplySetting(f)) \/ ChangeActivity
         \/ Obey \/ LoseCommand
  PROVE  CommandsTypeInv'
  <1>1. CASE Report
    <2>1. InForce \in Known
      BY ValuesType DEF InForce, CommandsTypeInv
    <2> QED
      BY <1>1, <2>1
         DEF Report, CommandsTypeInv, thermostatVars, countVars, historyVars
  <1>2. ASSUME NEW f \in Fields, ApplySetting(f)
        PROVE  CommandsTypeInv'
    <2>1. known \in Known /\ report.values \in Known
      BY DEF CommandsTypeInv
    <2>2. known' = [known EXCEPT ![f] = report.values[f]]
      BY <1>2 DEF ApplySetting
    <2>3. known' \in Known
      BY <2>1, <2>2 DEF Known, Fields
    <2>4. report' \in [values : Known, rest : SUBSET Fields]
      BY <1>2 DEF ApplySetting, CommandsTypeInv, NoReport, Known, Fields,
                  FansKnown
    <2> QED
      BY <1>2, <2>3, <2>4
         DEF ApplySetting, CommandsTypeInv, thermostatVars, countVars,
             historyVars
  <1>3. CASE ChangeActivity
    <2>1. /\ activity' \in AllActivities /\ Values(activity') \in Wanted
          /\ wanted' = Values(activity')
      BY <1>3, ValuesType DEF ChangeActivity
    <2>2. own' \in 0 .. MaxOwn
      BY <1>3, CommandsAssumption DEF ChangeActivity, CommandsTypeInv
    <2>3. orderly' \in BOOLEAN
      BY <1>3, Zenon DEF ChangeActivity, CommandsTypeInv
    <2> QED
      BY <1>3, <2>1, <2>2, <2>3 DEF ChangeActivity, CommandsTypeInv
  <1>4. CASE Obey
    <2>1. settings' \in [AllActivities -> Setting(Setpoints)]
      BY <1>4, ObeyFacts DEF CommandsTypeInv
    <2>2. Tail(commands) \in Seq(Commands)
      BY <1>4, TailItem DEF Obey, CommandsTypeInv
    <2> QED
      BY <1>4, <2>1, <2>2, ObeyFacts
         DEF Obey, CommandsTypeInv, countVars, historyVars
  <1>5. CASE LoseCommand
    <2>1. Tail(commands) \in Seq(Commands)
      BY <1>5, TailItem DEF LoseCommand, CommandsTypeInv
    <2> QED
      BY <1>5, <2>1
         DEF LoseCommand, CommandsTypeInv, thermostatVars, countVars
  <1> QED
    BY <1>1, <1>2, <1>3, <1>4, <1>5

LEMMA CommandsTypeRequest ==
  ASSUME CommandsTypeInv,
         \/ \E f \in Sides, v \in Temps \cup {Unreadable} : RequestSetpoint(f, v)
         \/ \E v \in Fans : RequestFan(v)
         \/ \E a \in AllActivities : RequestPreset(a)
  PROVE  CommandsTypeInv'
  <1>1. ASSUME NEW kind, NEW value, [kind |-> kind, value |-> value] \in Requests,
               Request(kind, value), wanted' \in Wanted, orderly' \in BOOLEAN
        PROVE  CommandsTypeInv'
    <2>1. requests' \in Seq(Requests)
      BY <1>1, AppendItem DEF Request, CommandsTypeInv
    <2>2. asked' \in 0 .. MaxRequests
      BY <1>1, CommandsAssumption DEF Request, CommandsTypeInv
    <2> QED
      BY <1>1, <2>1, <2>2 DEF Request, CommandsTypeInv, thermostatVars
  <1>2. ASSUME NEW f \in Sides, NEW v \in Temps \cup {Unreadable},
               RequestSetpoint(f, v)
        PROVE  CommandsTypeInv'
    <2>1. wanted \in Wanted
      BY DEF CommandsTypeInv
    <2>2. wanted' \in Wanted
      BY <1>2, <2>1
         DEF RequestSetpoint, Wanted, Sides, AllActivities, Setpoints
    <2>3. orderly' \in BOOLEAN
      BY <1>2, Zenon DEF RequestSetpoint, CommandsTypeInv
    <2>4. [kind |-> f, value |-> v] \in Requests
      BY DEF Requests
    <2> QED
      BY <1>1, <1>2, <2>2, <2>3, <2>4 DEF RequestSetpoint
  <1>3. ASSUME NEW v \in Fans, RequestFan(v)
        PROVE  CommandsTypeInv'
    <2>1. wanted' \in Wanted
      BY <1>3 DEF RequestFan, CommandsTypeInv, Wanted, FansKnown
    <2>2. orderly' \in BOOLEAN
      BY <1>3, Zenon DEF RequestFan, CommandsTypeInv
    <2> QED
      BY <1>1, <1>3, <2>1, <2>2 DEF RequestFan, Requests
  <1>4. ASSUME NEW a \in AllActivities, RequestPreset(a)
        PROVE  CommandsTypeInv'
    <2>1. wanted' \in Wanted
      BY <1>4, ValuesType DEF RequestPreset
    <2>2. orderly' \in BOOLEAN
      BY <1>4, Zenon DEF RequestPreset, CommandsTypeInv
    <2> QED
      BY <1>1, <1>4, <2>1, <2>2 DEF RequestPreset, Requests
  <1> QED
    BY <1>2, <1>3, <1>4

\* The handler that runs, by where it is.
LEMMA HandlerIs ==
  ASSUME CommandsTypeInv
  PROVE  /\ handler.at \in {"off", "send", "keepFan", "fan", "activity", "other"}
         /\ handler.at = "off" <=> handler = Off
         /\ handler.at \in {"send", "keepFan"} => handler.command \in Commands
         /\ handler.at = "fan" => handler.value \in Fans
         /\ handler.at \in {"activity", "other"} =>
               handler.field \in Sides /\ handler.value \in Setpoints
  BY DEF CommandsTypeInv, Handlers, Off

\* What the handler of the next request begins with.
LEMMA TakeFacts ==
  ASSUME CommandsTypeInv, TakeRequest
  PROVE  LET r == requests[1]
         IN  /\ handler = Off /\ r \in Requests
             /\ 1 \in DOMAIN requests /\ requests' = Tail(requests)
             /\ requests' \in Seq(Requests)
             /\ r.kind = "preset" =>
                   /\ r.value \in AllActivities
                   /\ handler' = Send(Command(r.value, r.value))
             /\ r.kind = "fan" =>
                   r.value \in Fans /\ handler' = [at |-> "fan", value |-> r.value]
             /\ r.kind \in Sides =>
                   /\ r.value \in Temps \cup {Unreadable}
                   /\ Parsed(r.value) \in Setpoints
                   /\ handler' = [at |-> "activity", field |-> r.kind,
                                  value |-> Parsed(r.value)]
             /\ r.kind \in Sides \cup {"fan", "preset"}
             /\ blind' = (blind \/ r.value = Unreadable)
             /\ UNCHANGED <<thermostatVars, known, report, commands, countVars,
                            wanted, orderly, latest>>
  <1>1. /\ requests \in Seq(Requests) /\ requests # <<>>
        /\ Head(requests) = requests[1] /\ requests[1] \in Requests
        /\ 1 \in DOMAIN requests /\ Tail(requests) \in Seq(Requests)
    BY TailItem DEF TakeRequest, CommandsTypeInv
  <1> DEFINE r == requests[1]
  <1>2. /\ r.kind = "preset" => r.value \in AllActivities
        /\ r.kind = "fan" => r.value \in Fans
        /\ r.kind \in Sides => r.value \in Temps \cup {Unreadable}
        /\ r.kind \in Sides \cup {"fan", "preset"}
    BY <1>1 DEF Requests, Sides
  <1>3. r.kind \in Sides => Parsed(r.value) \in Setpoints
    BY <1>2 DEF Parsed, Setpoints
  <1> QED
    BY <1>1, <1>2, <1>3 DEF TakeRequest, Sides

\* What the handler of a setpoint prepares.
LEMMA ReadOtherFacts ==
  ASSUME CommandsTypeInv, ReadOther
  PROVE  LET c == handler'.command
         IN  /\ handler.at = "other" /\ handler.field \in Sides
             /\ handler' = [at |-> "keepFan", command |-> c] /\ c \in Commands
             /\ c.activity = Manual /\ c.of = Manual /\ c.fan = Keep
             /\ c[handler.field] = handler.value
             /\ c[Other(handler.field)] = FloatOf(OtherKnown)
             /\ handler.value \in Setpoints /\ FloatOf(OtherKnown) \in Setpoints
             /\ Other(handler.field) \in Sides
             /\ UNCHANGED <<thermostatVars, known, report, requests, commands,
                            countVars, wanted, orderly, latest>>
  <1>1. /\ handler.at = "other" /\ handler.field \in Sides
        /\ handler.value \in Setpoints
    BY HandlerIs DEF ReadOther
  <1>2. FloatOf(OtherKnown) \in Setpoints
    BY <1>1 DEF FloatOf, OtherKnown, Other, CommandsTypeInv, Known, Sides,
                Setpoints
  <1> DEFINE c == [Command(Manual, Manual) EXCEPT
                      ![handler.field] = handler.value,
                      ![Other(handler.field)] = FloatOf(OtherKnown)]
  <1>3. handler' = [at |-> "keepFan", command |-> c]
    BY DEF ReadOther
  <1>4. /\ c.activity = Manual /\ c.of = Manual /\ c.fan = Keep
        /\ c[handler.field] = handler.value
        /\ c[Other(handler.field)] = FloatOf(OtherKnown)
        /\ Other(handler.field) \in Sides
    BY <1>1 DEF Command, Other, Sides
  <1>5. c \in Commands
    BY <1>1, <1>2 DEF Command, Commands, Sent, Other, Sides, AllActivities
  <1> QED
    BY <1>1, <1>2, <1>3, <1>4, <1>5 DEF ReadOther

LEMMA ReadActivityFacts ==
  ASSUME CommandsTypeInv, ReadActivity
  PROVE  /\ handler.at = "activity" /\ handler.field \in Sides
         /\ handler.value \in Setpoints
         /\ ~Holds => handler' = [at |-> "other", field |-> handler.field,
                                  value |-> handler.value]
         /\ Holds => LET c == handler'.command
                     IN  /\ handler' = Send(c) /\ c \in Commands
                         /\ c.activity = Keep /\ c.of = Manual /\ c.fan = Keep
                         /\ c[handler.field] = handler.value
                         /\ c[Other(handler.field)] = Keep
         /\ UNCHANGED <<thermostatVars, known, report, requests, commands,
                        countVars, historyVars>>
  <1>1. /\ handler.at = "activity" /\ handler.field \in Sides
        /\ handler.value \in Setpoints
        /\ handler = [at |-> "activity", field |-> handler.field,
                      value |-> handler.value]
    BY DEF ReadActivity, CommandsTypeInv, Handlers, Off
  <1>2. CASE Holds
    <2> DEFINE c == [Command(Keep, Manual) EXCEPT ![handler.field] = handler.value]
    <2>1. handler' = Send(c)
      BY <1>2 DEF ReadActivity
    <2>2. /\ c.activity = Keep /\ c.of = Manual /\ c.fan = Keep
          /\ c[handler.field] = handler.value
          /\ c[Other(handler.field)] = Keep
      BY <1>1 DEF Command, Other, Sides
    <2>3. c \in Commands
      BY <1>1 DEF Command, Commands, Sent, Sides, AllActivities
    <2> QED
      BY <1>1, <1>2, <2>1, <2>2, <2>3 DEF ReadActivity, Send
  <1>3. CASE ~Holds
    BY <1>1, <1>3 DEF ReadActivity
  <1> QED
    BY <1>2, <1>3

LEMMA CommandsTypeHandler ==
  ASSUME CommandsTypeInv,
         \/ TakeRequest \/ ReadForFan \/ ReadActivity \/ ReadOther \/ ReadFan
         \/ SendCommand
  PROVE  CommandsTypeInv'
  <1>1. ASSUME handler' \in Handlers, blind' \in BOOLEAN,
               UNCHANGED <<thermostatVars, known, report, requests, commands,
                           countVars, wanted, orderly>>
        PROVE  CommandsTypeInv'
    BY <1>1 DEF CommandsTypeInv, thermostatVars, countVars
  <1>2. CASE TakeRequest
    <2>1. handler' \in Handlers
      BY <1>2, TakeFacts, CommandType DEF Handlers, Send
    <2>2. blind' \in BOOLEAN
      BY <1>2, Zenon DEF TakeRequest, CommandsTypeInv
    <2> QED
      BY <1>2, <2>1, <2>2, TakeFacts
         DEF CommandsTypeInv, thermostatVars, countVars
  <1>3. CASE ReadForFan
    <2>1. handler.value \in Fans /\ known.activity \in AllActivities \cup {Unknown}
      BY <1>3, HandlerIs DEF ReadForFan, CommandsTypeInv, Known
    <2>2. known.activity # Unknown =>
             [Command(Keep, known.activity) EXCEPT !.fan = handler.value]
               \in Commands
      BY <2>1 DEF Command, Commands, Sent, FansKnown
    <2>3. handler' \in Handlers
      BY <1>3, <2>2 DEF ReadForFan, Handlers, Send
    <2> QED
      BY <1>1, <1>3, <2>3 DEF ReadForFan, historyVars, CommandsTypeInv
  <1>4. CASE ReadActivity
    <2>1. handler' \in Handlers
      BY <1>4, ReadActivityFacts DEF Handlers, Send
    <2> QED
      BY <1>1, <1>4, <2>1, ReadActivityFacts DEF historyVars, CommandsTypeInv
  <1>5. CASE ReadOther
    <2>1. handler' \in Handlers
      BY <1>5, ReadOtherFacts DEF Handlers
    <2>2. blind' \in BOOLEAN
      BY <1>5, Zenon DEF ReadOther, CommandsTypeInv
    <2> QED
      BY <1>1, <1>5, <2>1, <2>2, ReadOtherFacts
  <1>6. CASE ReadFan
    <2>1. handler.command \in Commands /\ known.fan \in FansKnown
      BY <1>6, HandlerIs DEF ReadFan, CommandsTypeInv, Known
    <2>2. [handler.command EXCEPT !.fan = known.fan] \in Commands
      BY <2>1 DEF Commands, Sent
    <2>3. handler' \in Handlers
      BY <1>6, <2>2 DEF ReadFan, Handlers, Send
    <2> QED
      BY <1>1, <1>6, <2>3 DEF ReadFan, historyVars, CommandsTypeInv
  <1>7. CASE SendCommand
    <2>1. handler.command \in Commands
      BY <1>7, HandlerIs DEF SendCommand
    <2>2. commands' \in Seq(Commands)
      BY <1>7, <2>1, AppendItem DEF SendCommand, CommandsTypeInv
    <2> QED
      BY <1>7, <2>2
         DEF SendCommand, CommandsTypeInv, Handlers, thermostatVars, countVars,
             historyVars
  <1> QED
    BY <1>2, <1>3, <1>4, <1>5, <1>6, <1>7

LEMMA CommandsTypeStep ==
  ASSUME CommandsTypeInv, [CommandsNext]_commandVars
  PROVE  CommandsTypeInv'
  <1>1. CASE UNCHANGED commandVars
    BY <1>1 DEF CommandsTypeInv, commandVars, thermostatVars, countVars,
                historyVars
  <1> QED
    BY <1>1, CommandsTypeThermostat, CommandsTypeRequest, CommandsTypeHandler
       DEF CommandsNext, Sides

\* Every variable has the type its Go counterpart has.
THEOREM CommandsTypeCorrect == CommandsSpec => []CommandsTypeOK
  <1>1. CommandsTypeInv => CommandsTypeOK
    <2> SUFFICES ASSUME CommandsTypeInv PROVE CommandsTypeOK
      OBVIOUS
    <2>1. handler.at = "send" => handler.command \in Commands
      BY HandlerIs
    <2>2. /\ known.activity \in AllActivities \cup {Unknown}
          /\ \A f \in Sides : known[f] \in Setpoints \cup {Unknown}
          /\ known.fan \in FansKnown /\ report.rest \subseteq Fields
      BY DEF CommandsTypeInv, Known, Sides
    <2>3. \A i \in 1 .. Len(commands) : commands[i] \in Commands
      BY DEF CommandsTypeInv
    <2> QED
      BY <2>1, <2>2, <2>3
         DEF CommandsTypeInv, CommandsTypeOK, Commands, Setpoints, FansKnown,
             Sides
  <1> QED
    BY <1>1, CommandsTypeInit, CommandsTypeStep, PTL DEF CommandsSpec

-----------------------------------------------------------------------------
(* No setpoint of 0 *)

LEMMA NoZerosStep ==
  ASSUME CommandsTypeInv, NoZeros, [CommandsNext]_commandVars
  PROVE  NoZeros'
  <1> SUFFICES ASSUME ~blind'
               PROVE  NoZeros'
    BY DEF NoZeros
  <1> DEFINE SettingsZ == \A a \in AllActivities : NoZero(settings[a])
             KnownZ == NoZero(known) /\ NoZero(report.values)
             CommandsZ == \A i \in DOMAIN commands : NoZero(commands[i])
             HandlerZ ==
               /\ handler.at \in {"send", "keepFan"} => NoZero(handler.command)
               /\ handler.at \in {"activity", "other"} => handler.value # 0
  <1>1. ~blind => SettingsZ /\ KnownZ /\ CommandsZ /\ HandlerZ
    BY DEF NoZeros
  <1>2. SettingsZ' /\ KnownZ' /\ CommandsZ' /\ HandlerZ' => NoZeros'
    BY DEF NoZeros
  <1>3. Keep # 0 /\ Unknown # 0 /\ \A t \in Temps : t # 0
    BY Missing DEF Setpoints
  <1> HIDE DEF SettingsZ, KnownZ, CommandsZ, HandlerZ
  <1>4. CASE Report
    <2>1. NoZero(InForce)
      BY <1>1, <1>4
         DEF Report, historyVars, SettingsZ, NoZero, InForce, Values,
             CommandsTypeInv
    <2>2. KnownZ'
      BY <1>1, <1>4, <2>1 DEF Report, historyVars, KnownZ
    <2> QED
      BY <1>1, <1>2, <1>4, <2>2
         DEF Report, SettingsZ, CommandsZ, HandlerZ, thermostatVars, historyVars
  <1>5. ASSUME NEW f \in Fields, ApplySetting(f)
        PROVE  NoZeros'
    <2>1. known' = [known EXCEPT ![f] = report.values[f]]
      BY <1>5 DEF ApplySetting
    <2>2. NoZero(known')
      BY <1>1, <1>5, <2>1
         DEF ApplySetting, historyVars, KnownZ, NoZero, CommandsTypeInv, Known
    <2>3. NoZero(report'.values)
      BY <1>1, <1>3, <1>5
         DEF ApplySetting, historyVars, KnownZ, NoZero, CommandsTypeInv, Known,
             NoReport, Fields
    <2> QED
      BY <1>1, <1>2, <1>5, <2>2, <2>3
         DEF ApplySetting, SettingsZ, CommandsZ, HandlerZ, KnownZ,
             thermostatVars, historyVars
  <1>6. CASE ChangeActivity
    BY <1>1, <1>2, <1>6
       DEF ChangeActivity, SettingsZ, CommandsZ, HandlerZ, KnownZ
  <1>7. CASE Obey
    <2> DEFINE c == Head(commands)
    <2>1. NoZero(c) /\ c.of \in AllActivities
      BY <1>1, <1>7, ObeyFacts
         DEF Obey, historyVars, CommandsZ, Commands, Sent
    <2>2. NoZero(Obeyed(c, settings[c.of]))
      BY <1>1, <1>7, <2>1 DEF Obey, historyVars, SettingsZ, NoZero, Obeyed, Or
    <2>3. SettingsZ'
      BY <1>1, <1>7, <2>1, <2>2, ObeyFacts
         DEF Obey, historyVars, SettingsZ, CommandsTypeInv
    <2>4. CommandsZ'
      BY <1>1, <1>7, TailItem
         DEF Obey, historyVars, CommandsZ, CommandsTypeInv
    <2> QED
      BY <1>1, <1>2, <1>7, <2>3, <2>4
         DEF Obey, HandlerZ, KnownZ, historyVars
  <1>8. CASE LoseCommand
    <2>1. CommandsZ'
      BY <1>1, <1>8, TailItem DEF LoseCommand, CommandsZ, CommandsTypeInv
    <2> QED
      BY <1>1, <1>2, <1>8, <2>1
         DEF LoseCommand, SettingsZ, HandlerZ, KnownZ, thermostatVars
  <1>9. ASSUME NEW kind, NEW value, Request(kind, value)
        PROVE  NoZeros'
    BY <1>1, <1>2, <1>9
       DEF Request, SettingsZ, CommandsZ, HandlerZ, KnownZ, thermostatVars
  <1>10. CASE TakeRequest
    <2>1. requests[1].value # Unreadable
      BY <1>10, TakeFacts
    <2>2. HandlerZ'
      <3>1. CASE requests[1].kind \in Sides
        BY <1>3, <1>10, <2>1, <3>1, TakeFacts DEF HandlerZ, Parsed
      <3>2. CASE requests[1].kind \in {"fan", "preset"}
        BY <1>3, <1>10, <3>2, TakeFacts
           DEF HandlerZ, Send, Command, NoZero
      <3> QED
        BY <1>10, <3>1, <3>2, TakeFacts
    <2> QED
      BY <1>1, <1>2, <1>10, <2>2, TakeFacts
         DEF SettingsZ, CommandsZ, KnownZ, thermostatVars
  <1>11. CASE ReadForFan
    <2>1. HandlerZ'
      BY <1>3, <1>11 DEF ReadForFan, HandlerZ, Send, Command, NoZero, Off
    <2> QED
      BY <1>1, <1>2, <1>11, <2>1
         DEF ReadForFan, SettingsZ, CommandsZ, KnownZ, thermostatVars,
             historyVars
  <1>12. CASE ReadActivity
    <2>1. HandlerZ'
      BY <1>1, <1>3, <1>12, ReadActivityFacts
         DEF historyVars, HandlerZ, Send, NoZero, Other, Sides
    <2> QED
      BY <1>1, <1>2, <1>12, <2>1, ReadActivityFacts
         DEF SettingsZ, CommandsZ, KnownZ, thermostatVars, historyVars
  <1>13. CASE ReadOther
    <2>1. ~blind /\ OtherKnown # Unknown
      BY <1>13 DEF ReadOther, OtherKnown
    <2>2. FloatOf(OtherKnown) # 0
      BY <1>1, <1>13, <2>1, ReadOtherFacts
         DEF FloatOf, OtherKnown, KnownZ, NoZero, Sides
    <2>3. HandlerZ'
      BY <1>1, <1>13, <2>1, <2>2, ReadOtherFacts
         DEF HandlerZ, NoZero, Other, Sides
    <2> QED
      BY <1>1, <1>2, <1>13, <2>1, <2>3, ReadOtherFacts
         DEF SettingsZ, CommandsZ, KnownZ, thermostatVars
  <1>14. CASE ReadFan
    <2>1. HandlerZ'
      BY <1>1, <1>14, HandlerIs
         DEF ReadFan, HandlerZ, Send, NoZero, Commands, Sent, historyVars
    <2> QED
      BY <1>1, <1>2, <1>14, <2>1
         DEF ReadFan, SettingsZ, CommandsZ, KnownZ, thermostatVars, historyVars
  <1>15. CASE SendCommand
    <2>1. CommandsZ'
      BY <1>1, <1>15, AppendItem, HandlerIs
         DEF SendCommand, CommandsZ, HandlerZ, CommandsTypeInv, historyVars
    <2> QED
      BY <1>1, <1>2, <1>15, <2>1
         DEF SendCommand, SettingsZ, HandlerZ, KnownZ, Off, thermostatVars,
             historyVars
  <1>16. CASE UNCHANGED commandVars
    BY <1>1, <1>2, <1>16
       DEF SettingsZ, CommandsZ, HandlerZ, KnownZ, commandVars, thermostatVars,
           historyVars
  <1> QED
    BY <1>4, <1>5, <1>6, <1>7, <1>8, <1>9, <1>10, <1>11, <1>12, <1>13, <1>14,
       <1>15, <1>16
       DEF CommandsNext, RequestSetpoint, RequestFan, RequestPreset

\* A setpoint of 0 reaches the thermostat in none of the ways there are, but
\* after a payload that is no number or a report that has yet to come.
THEOREM NoZeroUnlessBlind == CommandsSpec => []ZeroOnlyBlind
  <1>1. CommandsInit => NoZeros
    <2>1. Unknown # 0 /\ \A t \in Temps : t # 0
      BY Missing DEF Setpoints
    <2> QED
      BY <2>1, CommandsAssumption
         DEF CommandsInit, NoZeros, NoZero, NoReport, Fields, Off,
             AllActivities, Manual
  <1>2. NoZeros => ZeroOnlyBlind
    BY DEF NoZeros, NoZero, ZeroOnlyBlind
  <1> QED
    BY <1>1, <1>2, CommandsTypeInit, CommandsTypeStep, NoZerosStep, PTL
       DEF CommandsSpec

-----------------------------------------------------------------------------
(* What is asked for holds *)

\* What is in force is known by its fields.
LEMMA InForceIs ==
  ASSUME CommandsTypeInv
  PROVE  /\ InForce.activity = activity
         /\ \A x \in ActivityFields : InForce[x] = settings[activity][x]
         /\ InForce = wanted <=>
               /\ wanted.activity = activity
               /\ \A x \in ActivityFields : wanted[x] = settings[activity][x]
         /\ InForce \in Wanted
         /\ \A x \in Sides : InForce[x] \in Setpoints
         /\ InForce.fan \in FansKnown
  <1>1. wanted \in Wanted /\ InForce \in Wanted
    BY ValuesType DEF InForce, CommandsTypeInv
  <1>2. settings[activity] \in Setting(Setpoints)
    BY DEF CommandsTypeInv
  <1>3. /\ InForce.activity = activity
        /\ \A x \in ActivityFields : InForce[x] = settings[activity][x]
    BY DEF InForce, Values, ActivityFields
  <1>4. InForce = wanted <=>
           /\ wanted.activity = activity
           /\ \A x \in ActivityFields : wanted[x] = settings[activity][x]
    BY <1>1, <1>3 DEF Wanted, ActivityFields
  <1> QED
    BY <1>1, <1>2, <1>3, <1>4 DEF Setting, ActivityFields, Sides, FansKnown

\* When nothing is on its way, what is wanted is in force.
LEMMA Quiet ==
  ASSUME CommandsTypeInv, NoneAsked \/ OneAsked \/ ManualAsked, ~Pending
  PROVE  InForce = wanted
  <1>1. requests = <<>> /\ handler = Off /\ commands = <<>>
    BY DEF Pending
  <1>2. ~OneAsked
    BY <1>1 DEF OneAsked
  <1>3. CASE ManualAsked
    <2>1. \A x \in ActivityFields : settings[Manual][x] = wanted[x]
      BY <1>1, <1>3 DEF ManualAsked, LastSets, HandlerSets, Off
    <2> QED
      BY <1>3, <2>1, InForceIs DEF ManualAsked
  <1> QED
    BY <1>2, <1>3 DEF NoneAsked

\* In a settled manual hold the same is true of each field by itself.
LEMMA Burst ==
  ASSUME CommandsTypeInv, NoneAsked \/ OneAsked \/ ManualAsked, SettledManual
  PROVE  ManualAsked
  <1>1. /\ activity = Manual /\ known.activity = Manual
        /\ Reporting => report.values.activity = Manual
        /\ \A i \in DOMAIN requests : requests[i].kind # "preset"
        /\ handler # Off => /\ handler.at = "send"
                            /\ handler.command.activity = Keep
        /\ \A i \in DOMAIN commands : commands[i].activity = Keep
    <2>1. /\ DOMAIN requests = 1 .. Len(requests)
          /\ DOMAIN commands = 1 .. Len(commands)
      BY DEF CommandsTypeInv
    <2> QED
      BY <2>1 DEF SettledManual
  <1>2. CASE NoneAsked
    <2>1. requests = <<>> /\ handler = Off /\ commands = <<>>
      BY <1>2 DEF NoneAsked, Pending
    <2>2. \A x \in ActivityFields : LastSets(x)
      BY <1>1, <1>2, <2>1, InForceIs DEF NoneAsked, LastSets, HandlerSets, Off
    <2> QED
      BY <1>1, <1>2, <2>1, <2>2, InForceIs DEF ManualAsked, NoneAsked, Off
  <1>3. CASE OneAsked
    <2>1. CASE /\ Len(requests) = 1 /\ handler = Off /\ commands = <<>>
               /\ Asks(requests[1].kind, requests[1].value)
               /\ requests[1].kind \in Sides => requests[1].value # Unreadable
      <3>0. requests \in Seq(Requests)
        BY DEF CommandsTypeInv
      <3>1. DOMAIN requests = {1} /\ requests[1] \in Requests
        BY <2>1, <3>0, SMTT(60)
      <3>2. requests[1].kind \in ActivityFields
        BY <1>1, <3>1 DEF Requests, Sides, ActivityFields
      <3>3. wanted.activity = Manual
        BY <1>1, <2>1, <3>1, <3>2 DEF Asks
      <3>4. \A x \in ActivityFields : LastSets(x)
        <4> SUFFICES ASSUME NEW x \in ActivityFields PROVE LastSets(x)
          OBVIOUS
        <4>1. CASE x = requests[1].kind
          BY <1>1, <2>1, <3>1, <4>1 DEF Asks, LastSets
        <4>2. CASE x # requests[1].kind
          <5>1. settings[Manual][x] = wanted[x]
            BY <1>1, <2>1, <3>1, <3>2, <4>2, InForceIs DEF Asks
          <5> QED
            BY <2>1, <3>1, <4>2, <5>1 DEF LastSets, HandlerSets, Off
        <4> QED
          BY <4>1, <4>2
      <3> QED
        BY <1>1, <2>1, <3>1, <3>3, <3>4 DEF ManualAsked, Off
    <2>2. CASE /\ requests = <<>> /\ handler # Off /\ commands = <<>>
               /\ Fulfils(handler.command)
      <3>1. handler.at = "send" /\ handler.command.activity = Keep
        BY <1>1, <2>2
      <3>2. wanted.activity = Manual /\ handler.command.of = Manual
        BY <1>1, <2>2, <3>1 DEF Fulfils, Or
      <3>3. \A x \in ActivityFields : LastSets(x)
        BY <2>2, <3>1, <3>2
           DEF Fulfils, Or, LastSets, HandlerSets, HandlerValue
      <3> QED
        BY <1>1, <2>2, <3>1, <3>2, <3>3 DEF ManualAsked
    <2>3. CASE /\ requests = <<>> /\ handler = Off
               /\ Len(commands) = 1 /\ Fulfils(commands[1])
      <3>1. DOMAIN commands = {1}
        BY <2>3 DEF CommandsTypeInv
      <3>2. /\ wanted.activity = Manual /\ commands[1].of = Manual
            /\ commands[1].activity = Keep
        BY <1>1, <2>3, <3>1 DEF Fulfils, Or
      <3>3. \A x \in ActivityFields : LastSets(x)
        BY <2>3, <3>1, <3>2 DEF Fulfils, Or, LastSets, HandlerSets, Off
      <3> QED
        BY <1>1, <2>3, <3>1, <3>2, <3>3 DEF ManualAsked, Off
    <2> QED
      BY <1>1, <1>3, <2>1, <2>2, <2>3 DEF OneAsked
  <1> QED
    BY <1>2, <1>3

\* A request that comes when all is settled is the only one.
LEMMA OneRequested ==
  ASSUME CommandsTypeInv, Settled, NEW kind, NEW value,
         [kind |-> kind, value |-> value] \in Requests,
         Request(kind, value), Asks(kind, value)',
         kind \in Sides => value # Unreadable
  PROVE  OneAsked'
  <1>1. /\ known = InForce /\ ~Reporting
        /\ requests = <<>> /\ handler = Off /\ commands = <<>>
    BY DEF Settled, Pending
  <1>2. requests' = <<[kind |-> kind, value |-> value]>>
    BY <1>1 DEF Request
  <1>3. /\ Len(requests') = 1
        /\ requests'[1].kind = kind /\ requests'[1].value = value
    BY <1>2
  <1>4. UNCHANGED <<known, InForce, report, handler, commands>>
    BY DEF Request, InForce, Values, thermostatVars
  <1> QED
    BY <1>1, <1>3, <1>4 DEF OneAsked, Reporting

\* A request that comes in a settled manual hold is the last one.
LEMMA LastRequested ==
  ASSUME CommandsTypeInv, ManualAsked, NEW kind \in ActivityFields, NEW value,
         [kind |-> kind, value |-> value] \in Requests,
         Request(kind, value), kind \in Sides => value # Unreadable,
         wanted'.activity = Manual, wanted'[kind] = value,
         \A x \in ActivityFields : x # kind => wanted'[x] = wanted[x]
  PROVE  ManualAsked'
  <1> DEFINE r == [kind |-> kind, value |-> value]
             n == Len(requests)
  <1>1. /\ requests' = Append(requests, r) /\ requests \in Seq(Requests)
        /\ UNCHANGED <<activity, settings, known, report, handler, commands>>
    BY DEF Request, CommandsTypeInv, thermostatVars
  <1>2. /\ DOMAIN requests' = 1 .. n + 1 /\ DOMAIN requests = 1 .. n /\ n \in Nat
        /\ \A i \in 1 .. n : requests'[i] = requests[i]
        /\ requests'[n + 1] = r
    BY <1>1, AppendItem
  <1>3. ASSUME NEW x \in ActivityFields
        PROVE  LastSets(x)'
    <2>1. CASE x = kind
      BY <1>2, <2>1 DEF LastSets
    <2>2. CASE x # kind
      <3>1. CASE \E i \in DOMAIN requests :
                    /\ requests[i].kind = x /\ requests[i].value = wanted[x]
                    /\ \A j \in DOMAIN requests : j > i => requests[j].kind # x
        <4>1. PICK i \in 1 .. n :
                 /\ requests[i].kind = x /\ requests[i].value = wanted[x]
                 /\ \A j \in 1 .. n : j > i => requests[j].kind # x
          BY <1>2, <3>1
        <4>2. /\ i \in 1 .. n + 1
              /\ requests'[i].kind = x /\ requests'[i].value = wanted'[x]
              /\ \A j \in 1 .. n + 1 : j > i => requests'[j].kind # x
          BY <1>2, <2>2, <4>1
        <4> QED
          BY <1>2, <4>2 DEF LastSets
      <3>2. CASE \A i \in DOMAIN requests : requests[i].kind # x
        <4>1. \A i \in DOMAIN requests' : requests'[i].kind # x
          BY <1>2, <2>2, <3>2
        <4> QED
          BY <1>1, <2>2, <3>2, <4>1
             DEF ManualAsked, LastSets, HandlerSets, HandlerValue
      <3> QED
        BY <3>1, <3>2 DEF ManualAsked, LastSets
    <2> QED
      BY <2>1, <2>2
  <1>4. \A i \in DOMAIN requests' :
           /\ requests'[i].kind # "preset"
           /\ requests'[i].kind \in Sides => requests'[i].value # Unreadable
    BY <1>2 DEF ManualAsked, ActivityFields
  <1> QED
    BY <1>1, <1>3, <1>4 DEF ManualAsked, Reporting

LEMMA AskedRequest ==
  ASSUME CommandsTypeInv, AskedInv, orderly',
         \/ \E f \in Sides, v \in Temps \cup {Unreadable} : RequestSetpoint(f, v)
         \/ \E v \in Fans : RequestFan(v)
         \/ \E a \in AllActivities : RequestPreset(a)
  PROVE  OneAsked' \/ ManualAsked'
  <1>1. wanted \in Wanted /\ orderly \in BOOLEAN
    BY DEF CommandsTypeInv
  <1>2. orderly => /\ SettledManual => ManualAsked
                   /\ Settled => InForce = wanted
    BY Burst, Quiet DEF AskedInv, Settled
  <1>3. ASSUME NEW kind, NEW value, Request(kind, value)
        PROVE  UNCHANGED <<activity, settings, InForce>>
    BY <1>3 DEF Request, InForce, Values, thermostatVars
  <1>4. ASSUME NEW f \in Sides, NEW v \in Temps \cup {Unreadable},
               RequestSetpoint(f, v)
        PROVE  OneAsked' \/ ManualAsked'
    <2>1. /\ Request(f, v) /\ orderly /\ v # Unreadable
          /\ Settled \/ SettledManual
          /\ wanted' = [wanted EXCEPT !.activity = Manual, ![f] = v]
      BY <1>1, <1>4 DEF RequestSetpoint
    <2>2. /\ wanted'.activity = Manual /\ wanted'[f] = v
          /\ \A x \in ActivityFields : x # f => wanted'[x] = wanted[x]
      BY <1>1, <2>1 DEF Wanted, Sides, ActivityFields
    <2>3. [kind |-> f, value |-> v] \in Requests /\ f \in ActivityFields
      BY DEF Requests, Sides, ActivityFields
    <2>4. CASE SettledManual
      BY <1>2, <2>1, <2>2, <2>3, <2>4, LastRequested
    <2>5. CASE Settled
      <3>1. Asks(f, v)'
        BY <1>2, <1>3, <2>1, <2>2, <2>5 DEF Asks, Sides
      <3> QED
        BY <2>1, <2>3, <2>5, <3>1, OneRequested
    <2> QED
      BY <2>1, <2>4, <2>5
  <1>5. ASSUME NEW v \in Fans, RequestFan(v)
        PROVE  OneAsked' \/ ManualAsked'
    <2>1. /\ Request("fan", v) /\ orderly
          /\ Settled \/ SettledManual
          /\ wanted' = [wanted EXCEPT !.fan = v]
      BY <1>1, <1>5 DEF RequestFan
    <2>2. /\ wanted'.activity = wanted.activity /\ wanted'["fan"] = v
          /\ \A x \in ActivityFields : x # "fan" => wanted'[x] = wanted[x]
      BY <1>1, <2>1 DEF Wanted, ActivityFields
    <2>3. /\ [kind |-> "fan", value |-> v] \in Requests
          /\ "fan" \in ActivityFields /\ "fan" \notin Sides
      BY DEF Requests, ActivityFields, Sides
    <2>4. CASE SettledManual
      BY <1>2, <2>1, <2>2, <2>3, <2>4, LastRequested DEF ManualAsked
    <2>5. CASE Settled
      <3>1. Asks("fan", v)'
        BY <1>2, <1>3, <2>1, <2>2, <2>5, InForceIs DEF Asks
      <3> QED
        BY <2>1, <2>3, <2>5, <3>1, OneRequested
    <2> QED
      BY <2>1, <2>4, <2>5
  <1>6. ASSUME NEW a \in AllActivities, RequestPreset(a)
        PROVE  OneAsked' \/ ManualAsked'
    <2>1. Request("preset", a) /\ Settled /\ wanted' = Values(a)
      BY <1>1, <1>6 DEF RequestPreset
    <2>2. Asks("preset", a)'
      BY <1>3, <2>1 DEF Asks, Values
    <2>3. [kind |-> "preset", value |-> a] \in Requests /\ "preset" \notin Sides
      BY DEF Requests, Sides
    <2> QED
      BY <2>1, <2>2, <2>3, OneRequested
  <1> QED
    BY <1>4, <1>5, <1>6

\* The thermostat reports, changes by itself or obeys.
LEMMA AskedReport ==
  ASSUME CommandsTypeInv, AskedInv, orderly,
         Report \/ (\E f \in Fields : ApplySetting(f))
  PROVE  NoneAsked' \/ ManualAsked'
  <1>1. UNCHANGED <<activity, settings, InForce, wanted, requests, handler,
                    commands>>
    BY DEF Report, ApplySetting, InForce, Values, thermostatVars, historyVars
  <1>2. CASE NoneAsked
    BY <1>1, <1>2 DEF NoneAsked, Pending
  <1>3. ~OneAsked
    BY DEF OneAsked, Report, ApplySetting, Reporting
  <1>4. CASE ManualAsked
    <2>1. \A x \in ActivityFields : LastSets(x)'
      BY <1>1, <1>4 DEF ManualAsked, LastSets, HandlerSets, HandlerValue
    <2>2. /\ known'.activity = Manual
          /\ Reporting' /\ "activity" \in report'.rest
                => report'.values.activity = Manual
      <3>1. CASE Report
        BY <1>4, <3>1 DEF Report, ManualAsked, InForce, Values
      <3>2. ASSUME NEW f \in Fields, ApplySetting(f)
            PROVE  /\ known'.activity = Manual
                   /\ Reporting' /\ "activity" \in report'.rest
                         => report'.values.activity = Manual
        <4>1. /\ f \in report.rest
              /\ known' = [known EXCEPT ![f] = report.values[f]]
              /\ "activity" \in report'.rest =>
                    /\ "activity" \in report.rest
                    /\ report'.values = report.values
          BY <3>2 DEF ApplySetting, NoReport, CommandsTypeInv
        <4>2. Reporting /\ known \in Known
          BY <4>1 DEF Reporting, CommandsTypeInv
        <4>3. known'.activity = Manual
          BY <1>4, <4>1, <4>2 DEF ManualAsked, Known
        <4> QED
          BY <1>4, <4>1, <4>2, <4>3 DEF ManualAsked
      <3> QED
        BY <3>1, <3>2
    <2> QED
      BY <1>1, <1>4, <2>1, <2>2 DEF ManualAsked
  <1> QED
    BY <1>2, <1>3, <1>4 DEF AskedInv

LEMMA AskedChange ==
  ASSUME ChangeActivity, CommandsTypeInv, orderly'
  PROVE  NoneAsked'
  <1>1. ~Pending /\ wanted' = Values(activity')
    BY DEF ChangeActivity, CommandsTypeInv
  <1> QED
    BY <1>1 DEF ChangeActivity, NoneAsked, Pending, InForce, Values

LEMMA AskedObey ==
  ASSUME CommandsTypeInv, CommandsTypeInv', AskedInv, orderly, Obey
  PROVE  NoneAsked' \/ ManualAsked'
  <1> DEFINE c == commands[1]
  <1>1. /\ c \in Commands /\ 1 \in DOMAIN commands
        /\ activity' = Or(c.activity, activity)
        /\ settings' = [settings EXCEPT ![c.of] = Obeyed(c, settings[c.of])]
        /\ commands' = Tail(commands)
        /\ UNCHANGED <<known, report, requests, handler, wanted>>
    BY ObeyFacts DEF Obey, historyVars
  <1>2. \A x \in ActivityFields :
           settings'[c.of][x] = Or(c[x], settings[c.of][x])
    <2>1. c.of \in AllActivities
      BY <1>1 DEF Commands, Sent
    <2> QED
      BY <1>1, <2>1 DEF CommandsTypeInv, Obeyed, ActivityFields
  <1>3. /\ commands \in Seq(Commands) /\ commands # <<>>
        /\ Len(commands) \in Nat /\ Len(commands) >= 1
        /\ DOMAIN commands = 1 .. Len(commands)
        /\ DOMAIN commands' = 1 .. Len(commands) - 1
        /\ Len(commands') = Len(commands) - 1
        /\ \A i \in 1 .. Len(commands) - 1 : commands'[i] = commands[i + 1]
    BY <1>1, TailItem DEF CommandsTypeInv, Obey
  <1>4. ~NoneAsked
    BY <1>3 DEF NoneAsked, Pending
  <1>5. CASE OneAsked
    <2>1. /\ requests = <<>> /\ handler = Off
          /\ Len(commands) = 1 /\ Fulfils(c)
      BY <1>3, <1>5 DEF OneAsked
    <2>2. commands' = <<>>
      <3>1. commands' \in Seq(Commands) /\ Len(commands') = 0
        BY <1>3, <2>1 DEF CommandsTypeInv
      <3> QED
        BY <3>1
    <2>3. /\ wanted'.activity = activity' /\ c.of = activity'
          /\ \A x \in ActivityFields : wanted'[x] = settings'[activity'][x]
      BY <1>1, <1>2, <2>1 DEF Fulfils
    <2>4. (InForce = wanted <=>
              /\ wanted.activity = activity
              /\ \A x \in ActivityFields : wanted[x] = settings[activity][x])'
      BY InForceIs, PTL
    <2> QED
      BY <1>1, <2>1, <2>2, <2>3, <2>4 DEF NoneAsked, Pending
  <1>6. CASE ManualAsked
    <2>1. activity' = Manual /\ c.of = Manual
      BY <1>1, <1>6 DEF ManualAsked, Or
    <2>2. ASSUME NEW x \in ActivityFields
          PROVE  LastSets(x)'
      <3>1. CASE \/ \E i \in DOMAIN requests :
                       /\ requests[i].kind = x /\ requests[i].value = wanted[x]
                       /\ \A j \in DOMAIN requests : j > i => requests[j].kind # x
                 \/ /\ \A i \in DOMAIN requests : requests[i].kind # x
                    /\ HandlerSets(x) /\ HandlerValue(x) = wanted[x]
        BY <1>1, <3>1 DEF LastSets, HandlerSets, HandlerValue
      <3>2. CASE /\ \A i \in DOMAIN requests : requests[i].kind # x
                 /\ ~HandlerSets(x)
                 /\ \E i \in DOMAIN commands :
                      /\ commands[i][x] = wanted[x] /\ commands[i][x] # Keep
                      /\ \A j \in DOMAIN commands : j > i => commands[j][x] = Keep
        <4>1. PICK i \in 1 .. Len(commands) :
                 /\ commands[i][x] = wanted[x] /\ commands[i][x] # Keep
                 /\ \A j \in 1 .. Len(commands) : j > i => commands[j][x] = Keep
          BY <1>3, <3>2
        <4>2. CASE i = 1
          <5>1. settings'[Manual][x] = wanted'[x]
            BY <1>1, <1>2, <2>1, <4>1, <4>2 DEF Or
          <5>2. \A j \in DOMAIN commands' : commands'[j][x] = Keep
            BY <1>3, <4>1, <4>2
          <5> QED
            BY <1>1, <3>2, <5>1, <5>2 DEF LastSets, HandlerSets
        <4>3. CASE i # 1
          <5>1. /\ i - 1 \in DOMAIN commands'
                /\ commands'[i - 1][x] = wanted'[x] /\ commands'[i - 1][x] # Keep
                /\ \A j \in DOMAIN commands' : j > i - 1 => commands'[j][x] = Keep
            BY <1>1, <1>3, <4>1, <4>3
          <5> QED
            BY <1>1, <3>2, <5>1 DEF LastSets, HandlerSets
        <4> QED
          BY <4>2, <4>3
      <3>3. CASE /\ \A i \in DOMAIN requests : requests[i].kind # x
                 /\ ~HandlerSets(x)
                 /\ \A i \in DOMAIN commands : commands[i][x] = Keep
                 /\ settings[Manual][x] = wanted[x]
        <4>1. settings'[Manual][x] = wanted'[x]
          BY <1>1, <1>2, <2>1, <3>3 DEF Or
        <4>2. \A j \in DOMAIN commands' : commands'[j][x] = Keep
          BY <1>3, <3>3
        <4> QED
          BY <1>1, <3>3, <4>1, <4>2 DEF LastSets, HandlerSets
      <3> QED
        BY <1>6, <3>1, <3>2, <3>3 DEF ManualAsked, LastSets
    <2>3. \A i \in DOMAIN commands' :
             commands'[i].activity = Keep /\ commands'[i].of = Manual
      BY <1>3, <1>6 DEF ManualAsked
    <2> QED
      BY <1>1, <1>6, <2>1, <2>2, <2>3 DEF ManualAsked, Reporting
  <1> QED
    BY <1>4, <1>5, <1>6 DEF AskedInv

\* The handler of the only request.
OneHandled ==
    /\ requests = <<>> /\ handler # Off /\ commands = <<>>
    /\ CASE handler.at = "fan" -> Asks("fan", handler.value)
         [] handler.at \in {"activity", "other"} ->
               Asks(handler.field, handler.value)
         [] handler.at = "keepFan" ->
               Fulfils([handler.command EXCEPT !.fan = known.fan])
         [] handler.at = "send" -> Fulfils(handler.command)

LEMMA OneHandledIs == OneAsked /\ handler # Off => OneHandled
  BY DEF OneAsked, OneHandled

\* What the handler of the only request goes on with.
ThermostatKept == UNCHANGED <<activity, settings, known, report, wanted>>

LEMMA HandledIsAsked ==
  ASSUME known = InForce, ~Reporting, ThermostatKept, OneHandled'
  PROVE  OneAsked'
  <1>1. /\ known' = InForce' /\ ~Reporting'
    BY DEF ThermostatKept, InForce, Values, Reporting
  <1> QED
    BY <1>1 DEF OneAsked, OneHandled

LEMMA HandledAsks ==
  ASSUME NEW kind, NEW value, Asks(kind, value), ThermostatKept,
         requests' = <<>>, commands' = <<>>,
         \/ kind = "fan" /\ handler' = [at |-> "fan", value |-> value]
         \/ \E at \in {"activity", "other"} :
               handler' = [at |-> at, field |-> kind, value |-> value]
  PROVE  OneHandled'
  <1>1. InForce' = InForce
    BY DEF ThermostatKept, InForce, Values
  <1>2. CASE kind = "fan" /\ handler' = [at |-> "fan", value |-> value]
    <2>1. Asks("fan", handler.value)'
      BY <1>1, <1>2 DEF Asks, ThermostatKept
    <2> QED
      BY <1>2, <2>1 DEF OneHandled, Off
  <1>3. CASE \E at \in {"activity", "other"} :
               handler' = [at |-> at, field |-> kind, value |-> value]
    <2>1. /\ handler'.at \in {"activity", "other"}
          /\ handler'.field = kind /\ handler'.value = value
      BY <1>3
    <2>2. Asks(handler.field, handler.value)'
      BY <1>1, <2>1 DEF Asks, ThermostatKept, Values
    <2>3. handler' # Off /\ handler'.at # "fan"
      BY <2>1 DEF Off
    <2> QED
      BY <2>1, <2>2, <2>3 DEF OneHandled
  <1> QED
    BY <1>2, <1>3

LEMMA HandledSends ==
  ASSUME NEW c, Fulfils(c), ThermostatKept, handler' = Send(c),
         requests' = <<>>, commands' = <<>>
  PROVE  OneHandled'
  <1>1. handler'.at = "send" /\ handler'.command = c
    BY DEF Send
  <1>2. Fulfils(handler.command)'
    BY <1>1 DEF Fulfils, ThermostatKept
  <1> QED
    BY <1>1, <1>2 DEF OneHandled, Off

LEMMA HandledKeeps ==
  ASSUME NEW c, Fulfils([c EXCEPT !.fan = known.fan]), ThermostatKept,
         handler' = [at |-> "keepFan", command |-> c],
         requests' = <<>>, commands' = <<>>
  PROVE  OneHandled'
  <1>1. handler'.at = "keepFan" /\ handler'.command = c
    OBVIOUS
  <1>2. Fulfils([handler.command EXCEPT !.fan = known.fan])'
    BY <1>1 DEF Fulfils, ThermostatKept
  <1> QED
    BY <1>1, <1>2 DEF OneHandled, Off

LEMMA AskedTake ==
  ASSUME CommandsTypeInv, AskedInv, orderly, TakeRequest
  PROVE  OneAsked' \/ ManualAsked'
  <1> DEFINE r == requests[1]
             n == Len(requests)
  <1>1. /\ n \in Nat /\ n >= 1 /\ DOMAIN requests = 1 .. n
        /\ Len(requests') = n - 1 /\ DOMAIN requests' = 1 .. n - 1
        /\ requests' \in Seq(Requests)
        /\ \A i \in 1 .. n - 1 : requests'[i] = requests[i + 1]
        /\ requests # <<>>
    BY TailItem DEF TakeRequest, CommandsTypeInv
  <1>2. /\ UNCHANGED <<activity, settings, InForce, known, report, commands,
                       wanted>>
        /\ handler = Off /\ handler' # Off
    BY TakeFacts
       DEF thermostatVars, InForce, Values, Sides, Off, Send
  <1>3. ~NoneAsked
    BY <1>1 DEF NoneAsked, Pending
  <1>4. CASE OneAsked
    <2>1. /\ n = 1 /\ commands = <<>> /\ Asks(r.kind, r.value)
          /\ r.kind \in Sides => r.value # Unreadable
      BY <1>1, <1>2, <1>4 DEF OneAsked
    <2>2. requests' = <<>>
      BY <1>1, <2>1
    <2>3. known = InForce /\ ~Reporting /\ ThermostatKept /\ commands' = <<>>
      BY <1>2, <1>4, <2>1 DEF OneAsked, ThermostatKept
    <2>4. CASE r.kind = "fan"
      <3>1. handler' = [at |-> "fan", value |-> r.value]
        BY <2>4, TakeFacts
      <3> QED
        BY <2>1, <2>2, <2>3, <2>4, <3>1, HandledAsks, HandledIsAsked
    <2>5. CASE r.kind \in Sides
      <3>1. handler' = [at |-> "activity", field |-> r.kind, value |-> r.value]
        BY <2>1, <2>5, TakeFacts DEF Parsed
      <3>2. OneHandled'
        BY <2>1, <2>2, <2>3, <3>1, HandledAsks
      <3> QED
        BY <2>3, <3>2, HandledIsAsked
    <2>6. CASE r.kind = "preset"
      <3> DEFINE c == Command(r.value, r.value)
      <3>1. handler' = Send(c) /\ r.value \in AllActivities
        BY <2>6, TakeFacts
      <3>2. wanted = Values(r.value)
        BY <2>1, <2>6 DEF Asks
      <3>3. Fulfils(c)
        BY <3>1, <3>2, Missing
           DEF Fulfils, Command, Or, Values, ActivityFields
      <3> HIDE DEF c
      <3> QED
        BY <2>2, <2>3, <3>1, <3>3, HandledSends, HandledIsAsked
    <2> QED
      BY <2>4, <2>5, <2>6, TakeFacts
  <1>5. CASE ManualAsked
    <2>1. /\ r.kind \in ActivityFields
          /\ r.kind \in Sides => r.value # Unreadable
      BY <1>1, <1>5, TakeFacts DEF ManualAsked, Sides, ActivityFields
    <2>2. /\ \A x \in ActivityFields : /\ HandlerSets(x)' <=> x = r.kind
                                       /\ HandlerValue(x)' = r.value
          /\ handler'.at \in {"fan", "activity"}
      BY <2>1, TakeFacts
         DEF HandlerSets, HandlerValue, Parsed, Sides, ActivityFields
    <2>3. ASSUME NEW x \in ActivityFields
          PROVE  LastSets(x)'
      <3>1. CASE \E i \in DOMAIN requests :
                    /\ requests[i].kind = x /\ requests[i].value = wanted[x]
                    /\ \A j \in DOMAIN requests : j > i => requests[j].kind # x
        <4>1. PICK i \in 1 .. n :
                 /\ requests[i].kind = x /\ requests[i].value = wanted[x]
                 /\ \A j \in 1 .. n : j > i => requests[j].kind # x
          BY <1>1, <3>1
        <4>2. CASE i = 1
          <5>1. \A j \in DOMAIN requests' : requests'[j].kind # x
            BY <1>1, <4>1, <4>2
          <5>2. HandlerSets(x)' /\ HandlerValue(x)' = wanted'[x]
            BY <1>2, <2>2, <4>1, <4>2
          <5> QED
            BY <5>1, <5>2 DEF LastSets
        <4>3. CASE i # 1
          <5>1. /\ i - 1 \in DOMAIN requests'
                /\ requests'[i - 1].kind = x /\ requests'[i - 1].value = wanted'[x]
                /\ \A j \in DOMAIN requests' : j > i - 1 => requests'[j].kind # x
            BY <1>1, <1>2, <4>1, <4>3
          <5>2. \E k \in DOMAIN requests' :
                   /\ requests'[k].kind = x /\ requests'[k].value = wanted'[x]
                   /\ \A j \in DOMAIN requests' : j > k => requests'[j].kind # x
            BY <5>1
          <5> QED
            BY <5>2 DEF LastSets
        <4> QED
          BY <4>2, <4>3
      <3>2. CASE \A i \in DOMAIN requests : requests[i].kind # x
        <4>1. \A j \in DOMAIN requests' : requests'[j].kind # x
          BY <1>1, <3>2
        <4>2. ~HandlerSets(x) /\ ~HandlerSets(x)'
          BY <1>1, <1>2, <2>2, <3>2 DEF HandlerSets, Off
        <4> QED
          BY <1>2, <1>5, <3>2, <4>1, <4>2 DEF ManualAsked, LastSets
      <3> QED
        BY <1>5, <3>1, <3>2 DEF ManualAsked, LastSets
    <2>4. \A i \in DOMAIN requests' :
             /\ requests'[i].kind # "preset"
             /\ requests'[i].kind \in Sides => requests'[i].value # Unreadable
      BY <1>1, <1>5 DEF ManualAsked
    <2> QED
      BY <1>2, <1>5, <2>2, <2>3, <2>4 DEF ManualAsked, Reporting
  <1> QED
    BY <1>3, <1>4, <1>5 DEF AskedInv

\* A handler reads on, without anybody else being told.
LEMMA AskedRead ==
  ASSUME CommandsTypeInv, AskedInv, orderly,
         ReadForFan \/ ReadActivity \/ ReadOther \/ ReadFan
  PROVE  OneAsked' \/ ManualAsked'
  <1>1. /\ ThermostatKept /\ UNCHANGED <<InForce, requests, commands>>
        /\ handler.at \in {"fan", "activity", "other", "keepFan"}
        /\ handler # Off
    <2>1. UNCHANGED <<thermostatVars, known, report, requests, commands, wanted>>
      BY DEF ReadForFan, ReadActivity, ReadOther, ReadFan, historyVars
    <2>2. handler.at \in {"fan", "activity", "other", "keepFan"}
      BY DEF ReadForFan, ReadActivity, ReadOther, ReadFan
    <2> QED
      BY <2>1, <2>2 DEF ThermostatKept, thermostatVars, InForce, Values, Off
  <1>2. ~NoneAsked
    BY <1>1 DEF NoneAsked, Pending
  <1>3. ASSUME ManualAsked, handler'.at = "send",
               handler'.command.activity = Keep, handler'.command.of = Manual,
               \A x \in ActivityFields :
                  /\ HandlerSets(x)' <=> HandlerSets(x)
                  /\ HandlerSets(x) => HandlerValue(x)' = HandlerValue(x)
        PROVE  ManualAsked'
    <2>1. \A x \in ActivityFields : LastSets(x)'
      BY <1>1, <1>3 DEF ManualAsked, LastSets, ThermostatKept
    <2> QED
      BY <1>1, <1>3, <2>1 DEF ManualAsked, Reporting, ThermostatKept
  <1>4. OneAsked => /\ OneHandled /\ known = InForce /\ ~Reporting
                    /\ requests' = <<>> /\ commands' = <<>>
    BY <1>1, OneHandledIs DEF OneAsked, OneHandled
  <1>5. OneAsked => /\ known.activity = activity /\ known.activity # Unknown
                    /\ \A x \in ActivityFields : known[x] = settings[activity][x]
    BY <1>4, InForceIs, Missing DEF CommandsTypeInv
  <1>6. CASE ReadForFan
    <2> DEFINE c == [Command(Keep, known.activity) EXCEPT !.fan = handler.value]
    <2>1. /\ handler.at = "fan" /\ handler.value \in Fans
          /\ known.activity # Unknown => handler' = Send(c)
      BY <1>6, HandlerIs DEF ReadForFan
    <2>2. /\ c.activity = Keep /\ c.of = known.activity /\ c.fan = handler.value
          /\ c.htsp = Keep /\ c.clsp = Keep
          /\ handler.value # Keep
      BY <2>1, Missing DEF Command, FansKnown
    <2> HIDE DEF c
    <2>3. CASE OneAsked
      <3>1. Asks("fan", handler.value)
        BY <1>4, <2>1, <2>3 DEF OneHandled
      <3>2. Fulfils(c)
        BY <1>5, <2>2, <2>3, <3>1, InForceIs
           DEF Asks, Fulfils, Or, ActivityFields
      <3> QED
        BY <1>1, <1>4, <1>5, <2>1, <2>3, <3>2, HandledSends, HandledIsAsked
    <2>4. CASE ManualAsked
      <3>1. handler' = Send(c) /\ c.of = Manual
        BY <2>1, <2>2, <2>4, Missing DEF ManualAsked, AllActivities
      <3>2. /\ handler'.at = "send" /\ handler'.command = c
        BY <3>1 DEF Send
      <3> QED
        BY <1>3, <2>1, <2>2, <2>4, <3>1, <3>2
           DEF HandlerSets, HandlerValue, ActivityFields
    <2> QED
      BY <1>2, <2>3, <2>4 DEF AskedInv
  <1>7. CASE ReadActivity
    <2>1. handler.value # Keep
      BY <1>7, ReadActivityFacts, Missing
    <2>2. CASE Holds
      <3>1. PICK c : /\ handler' = Send(c) /\ c.activity = Keep /\ c.of = Manual
                     /\ c.fan = Keep /\ c[handler.field] = handler.value
                     /\ c[Other(handler.field)] = Keep
                     /\ handler.field \in Sides /\ handler.at = "activity"
        BY <1>7, <2>2, ReadActivityFacts
      <3>2. CASE OneAsked
        <4>1. Asks(handler.field, handler.value) /\ activity = Manual
          BY <1>4, <1>5, <2>2, <3>1, <3>2 DEF OneHandled, Holds
        <4>2. Fulfils(c)
          BY <2>1, <3>1, <4>1, InForceIs
             DEF Asks, Fulfils, Or, ActivityFields, Sides, Other
        <4> QED
          BY <1>1, <1>4, <3>1, <3>2, <4>2, HandledSends, HandledIsAsked
      <3>3. CASE ManualAsked
        <4>1. \A x \in ActivityFields : c[x] # Keep <=> x = handler.field
          BY <2>1, <3>1 DEF ActivityFields, Sides, Other
        <4>2. handler'.at = "send" /\ handler'.command = c
          BY <3>1 DEF Send
        <4> QED
          BY <1>3, <3>1, <3>3, <4>1, <4>2 DEF HandlerSets, HandlerValue
      <3> QED
        BY <1>2, <3>2, <3>3 DEF AskedInv
    <2>3. CASE ~Holds
      <3>1. OneAsked
        BY <1>2, <2>3 DEF AskedInv, ManualAsked, Holds
      <3>2. /\ handler' = [at |-> "other", field |-> handler.field,
                           value |-> handler.value]
            /\ Asks(handler.field, handler.value)
        BY <1>4, <1>7, <2>3, <3>1, ReadActivityFacts DEF OneHandled
      <3>3. OneHandled'
        BY <1>1, <1>4, <3>1, <3>2, HandledAsks
      <3> QED
        BY <1>1, <1>4, <3>1, <3>3, HandledIsAsked
    <2> QED
      BY <2>2, <2>3
  <1>8. CASE ReadOther
    <2> DEFINE o == Other(handler.field)
    <2>1. OneAsked
      BY <1>2, <1>8 DEF AskedInv, ManualAsked, ReadOther
    <2>2. Asks(handler.field, handler.value) /\ known = InForce
      BY <1>4, <1>8, <2>1 DEF OneHandled, ReadOther
    <2>3. FloatOf(OtherKnown) = settings[activity][o] /\ o \in Sides
      <3>1. o \in Sides /\ known[o] = settings[activity][o]
        BY <1>5, <1>8, <2>1, ReadOtherFacts DEF Sides, ActivityFields
      <3>2. InForce[o] \in Setpoints /\ known[o] = InForce[o]
        BY <2>2, <3>1, InForceIs
      <3> QED
        BY <3>1, <3>2, Missing DEF FloatOf, OtherKnown
    <2>4. PICK c : /\ handler' = [at |-> "keepFan", command |-> c]
                   /\ c \in Commands /\ c.activity = Manual /\ c.of = Manual
                   /\ c[handler.field] = handler.value
                   /\ c[o] = settings[activity][o]
      BY <1>8, <2>3, ReadOtherFacts
    <2> DEFINE d == [c EXCEPT !.fan = known.fan]
    <2>5. /\ d.activity = Manual /\ d.of = Manual /\ d.fan = known.fan
          /\ d[handler.field] = handler.value
          /\ d[o] = settings[activity][o]
      BY <1>8, <2>3, <2>4, ReadOtherFacts DEF Commands, Sent, Sides
    <2>6. /\ known.fan = settings[activity]["fan"]
          /\ known.fan \in FansKnown
      BY <2>2, InForceIs DEF ActivityFields
    <2>7. /\ Manual # Keep /\ handler.value # Keep /\ known.fan # Keep
          /\ settings[activity][o] # Keep
      <3>1. settings[activity][o] \in Setpoints
        BY <1>8, <2>3, ReadOtherFacts
      <3> QED
        BY <1>8, <2>6, <3>1, ReadOtherFacts, Missing DEF AllActivities
    <2> HIDE DEF d
    <2>8. Fulfils(d)
      <3>1. /\ handler.field \in Sides
            /\ ActivityFields = {handler.field, o, "fan"}
        BY <1>8, ReadOtherFacts DEF Sides, ActivityFields, Other
      <3>2. /\ wanted.activity = Manual
            /\ wanted[handler.field] = handler.value
            /\ wanted[o] = settings[activity][o]
            /\ wanted["fan"] = settings[activity]["fan"]
        BY <2>2, <3>1, InForceIs DEF Asks, Sides, Other, ActivityFields
      <3> QED
        BY <2>5, <2>6, <2>7, <3>1, <3>2 DEF Fulfils, Or
    <2>9. Fulfils([c EXCEPT !.fan = known.fan])
      BY <2>8 DEF d
    <2> QED
      BY <1>1, <1>4, <2>1, <2>4, <2>9, HandledKeeps, HandledIsAsked
  <1>9. CASE ReadFan
    <2> DEFINE d == [handler.command EXCEPT !.fan = known.fan]
    <2>1. OneAsked
      BY <1>2, <1>9 DEF AskedInv, ManualAsked, ReadFan
    <2>2. Fulfils(d) /\ handler' = Send(d)
      BY <1>4, <1>9, <2>1 DEF OneHandled, ReadFan
    <2> HIDE DEF d
    <2> QED
      BY <1>1, <1>4, <2>1, <2>2, HandledSends, HandledIsAsked
  <1> QED
    BY <1>6, <1>7, <1>8, <1>9

\* The handler's command is sent behind the others.
LEMMA AskedSend ==
  ASSUME CommandsTypeInv, AskedInv, orderly, SendCommand
  PROVE  OneAsked' \/ ManualAsked'
  <1>1. PICK c : /\ c = handler.command /\ handler.at = "send" /\ handler # Off
                 /\ c \in Commands /\ commands' = Append(commands, c)
    BY HandlerIs DEF SendCommand, Off
  <1>2. /\ ThermostatKept /\ UNCHANGED <<InForce, requests>> /\ handler' = Off
    BY DEF SendCommand, ThermostatKept, thermostatVars, historyVars, InForce,
           Values
  <1>3. ~NoneAsked
    BY <1>1 DEF NoneAsked, Pending
  <1>4. CASE OneAsked
    <2>1. /\ requests = <<>> /\ commands = <<>> /\ Fulfils(c)
          /\ known = InForce /\ ~Reporting
      BY <1>1, <1>4 DEF OneAsked
    <2>2. commands' = <<c>>
      BY <1>1, <2>1
    <2>3. Len(commands') = 1 /\ commands'[1] = c
      BY <2>2
    <2>4. Fulfils(commands[1])'
      BY <1>2, <2>1, <2>3 DEF Fulfils, ThermostatKept
    <2> QED
      BY <1>2, <2>1, <2>3, <2>4 DEF OneAsked, Reporting, ThermostatKept
  <1>5. CASE ManualAsked
    <2> DEFINE m == Len(commands)
    <2>1. /\ m \in Nat /\ DOMAIN commands = 1 .. m
          /\ DOMAIN commands' = 1 .. m + 1 /\ commands'[m + 1] = c
          /\ \A i \in 1 .. m : commands'[i] = commands[i]
      BY <1>1, AppendItem DEF CommandsTypeInv
    <2>2. /\ c.activity = Keep /\ c.of = Manual
          /\ \A x \in ActivityFields :
                /\ HandlerSets(x) <=> c[x] # Keep
                /\ HandlerValue(x) = c[x]
      BY <1>1, <1>5 DEF ManualAsked, HandlerSets, HandlerValue
    <2>3. \A x \in ActivityFields : ~HandlerSets(x)'
      BY <1>2 DEF HandlerSets, Off
    <2>4. ASSUME NEW x \in ActivityFields
          PROVE  LastSets(x)'
      <3>1. CASE \E i \in DOMAIN requests :
                    /\ requests[i].kind = x /\ requests[i].value = wanted[x]
                    /\ \A j \in DOMAIN requests : j > i => requests[j].kind # x
        BY <1>2, <3>1 DEF LastSets, ThermostatKept
      <3>2. CASE /\ \A i \in DOMAIN requests : requests[i].kind # x
                 /\ HandlerSets(x) /\ HandlerValue(x) = wanted[x]
        <4>1. /\ m + 1 \in DOMAIN commands'
              /\ commands'[m + 1][x] = wanted'[x] /\ commands'[m + 1][x] # Keep
              /\ \A j \in DOMAIN commands' : ~(j > m + 1)
          BY <1>2, <2>1, <2>2, <3>2 DEF ThermostatKept
        <4> QED
          BY <1>2, <2>3, <3>2, <4>1 DEF LastSets
      <3>3. CASE /\ \A i \in DOMAIN requests : requests[i].kind # x
                 /\ ~HandlerSets(x)
                 /\ \E i \in DOMAIN commands :
                      /\ commands[i][x] = wanted[x] /\ commands[i][x] # Keep
                      /\ \A j \in DOMAIN commands : j > i => commands[j][x] = Keep
        <4>1. PICK i \in 1 .. m :
                 /\ commands[i][x] = wanted[x] /\ commands[i][x] # Keep
                 /\ \A j \in 1 .. m : j > i => commands[j][x] = Keep
          BY <2>1, <3>3
        <4>2. /\ i \in DOMAIN commands'
              /\ commands'[i][x] = wanted'[x] /\ commands'[i][x] # Keep
              /\ \A j \in DOMAIN commands' : j > i => commands'[j][x] = Keep
          BY <1>2, <2>1, <2>2, <3>3, <4>1 DEF ThermostatKept
        <4> QED
          BY <1>2, <2>3, <3>3, <4>2 DEF LastSets
      <3>4. CASE /\ \A i \in DOMAIN requests : requests[i].kind # x
                 /\ ~HandlerSets(x)
                 /\ \A i \in DOMAIN commands : commands[i][x] = Keep
                 /\ settings[Manual][x] = wanted[x]
        <4>1. \A i \in DOMAIN commands' : commands'[i][x] = Keep
          BY <2>1, <2>2, <3>4
        <4> QED
          BY <1>2, <2>3, <3>4, <4>1 DEF LastSets, ThermostatKept
      <3> QED
        BY <1>5, <3>1, <3>2, <3>3, <3>4 DEF ManualAsked, LastSets
    <2>5. \A i \in DOMAIN commands' :
             commands'[i].activity = Keep /\ commands'[i].of = Manual
      BY <1>5, <2>1, <2>2 DEF ManualAsked
    <2> QED
      BY <1>2, <1>5, <2>4, <2>5 DEF ManualAsked, Reporting, ThermostatKept, Off
  <1> QED
    BY <1>3, <1>4, <1>5 DEF AskedInv

LEMMA AskedStep ==
  ASSUME CommandsTypeInv, CommandsTypeInv', AskedInv, [CommandsNext]_commandVars
  PROVE  AskedInv'
  <1> SUFFICES ASSUME orderly'
               PROVE  NoneAsked' \/ OneAsked' \/ ManualAsked'
    BY DEF AskedInv
  <1>1. CASE UNCHANGED commandVars
    <2>1. /\ ThermostatKept /\ orderly
          /\ UNCHANGED <<InForce, requests, handler, commands>>
      BY <1>1 DEF commandVars, thermostatVars, historyVars, ThermostatKept,
                  InForce, Values
    <2>2. NoneAsked \/ OneAsked \/ ManualAsked
      BY <2>1 DEF AskedInv
    <2>3. CASE NoneAsked
      BY <2>1, <2>3, SMTT(60) DEF NoneAsked, Pending, ThermostatKept
    <2>4. CASE OneAsked
      BY <2>1, <2>4 DEF OneAsked, Asks, Fulfils, Values, Reporting,
                        ThermostatKept
    <2>5. CASE ManualAsked
      BY <2>1, <2>5 DEF ManualAsked, LastSets, HandlerSets, HandlerValue,
                        Reporting, ThermostatKept
    <2> QED
      BY <2>2, <2>3, <2>4, <2>5
  <1>2. CASE Report \/ (\E f \in Fields : ApplySetting(f))
    <2>1. orderly
      BY <1>2 DEF Report, ApplySetting, historyVars
    <2> QED
      BY <1>2, <2>1, AskedReport
  <1>3. CASE ChangeActivity
    BY <1>3, AskedChange
  <1>4. CASE Obey
    <2>1. orderly
      BY <1>4 DEF Obey, historyVars
    <2> QED
      BY <1>4, <2>1, AskedObey
  <1>5. CASE LoseCommand
    BY <1>5 DEF LoseCommand
  <1>6. CASE \/ \E f \in Sides, v \in Temps \cup {Unreadable} :
                  RequestSetpoint(f, v)
             \/ \E v \in Fans : RequestFan(v)
             \/ \E a \in AllActivities : RequestPreset(a)
    BY <1>6, AskedRequest
  <1>7. CASE TakeRequest
    <2>1. orderly
      BY <1>7 DEF TakeRequest
    <2> QED
      BY <1>7, <2>1, AskedTake
  <1>8. CASE ReadForFan \/ ReadActivity \/ ReadOther \/ ReadFan
    <2>1. orderly
      BY <1>8 DEF ReadForFan, ReadActivity, ReadOther, ReadFan, historyVars
    <2> QED
      BY <1>8, <2>1, AskedRead
  <1>9. CASE SendCommand
    <2>1. orderly
      BY <1>9 DEF SendCommand, historyVars
    <2> QED
      BY <1>9, <2>1, AskedSend
  <1> QED
    BY <1>1, <1>2, <1>3, <1>4, <1>5, <1>6, <1>7, <1>8, <1>9
       DEF CommandsNext, Sides

\* Once all is quiet, what is in force is what was asked for and the rest is
\* kept, for requests that are orderly: each waits until the one before is
\* reported, or comes in a manual hold that the store knows of; none of their
\* payloads is unreadable, no command is lost, and the thermostat changes
\* nothing by itself meanwhile.  The handlers of installSubscriptions
\* (hamqtt.go) then read enough of the store.  Of other requests it says
\* nothing: two setpoints without a hold do undo each other (hamqtt.go:275),
\* see LatestSetpointArrives for what is left.
THEOREM AskedIsInForce == CommandsSpec => []AskedForHolds
  <1>1. CommandsInit => CommandsTypeInv /\ AskedInv
    <2>1. CommandsInit => AskedInv
      BY DEF CommandsInit, AskedInv, NoneAsked, Pending
    <2> QED
      BY <2>1, CommandsTypeInit
  <1>2. CommandsTypeInv /\ AskedInv /\ [CommandsNext]_commandVars
           => CommandsTypeInv' /\ AskedInv'
    BY CommandsTypeStep, AskedStep
  <1>3. CommandsTypeInv /\ AskedInv => AskedForHolds
    BY Quiet DEF AskedInv, AskedForHolds
  <1> QED
    BY <1>1, <1>2, <1>3, PTL DEF CommandsSpec

-----------------------------------------------------------------------------
(* The setpoint asked for last, on its way to the manual activity *)

NoSetpointAsked == \A i \in DOMAIN requests : requests[i].kind \notin Sides

RequestIsLast(f, v) ==
    \E i \in DOMAIN requests :
        /\ requests[i].kind = f /\ Parsed(requests[i].value) = v
        /\ \A j \in DOMAIN requests : j > i => requests[j].kind \notin Sides

HandlerHas(f, v) ==
    \/ /\ handler.at \in {"activity", "other"}
       /\ handler.field = f /\ handler.value = v
    \/ /\ handler.at \in {"keepFan", "send"}
       /\ handler.command.of = Manual /\ handler.command[f] = v

HandlerKeeps(f) ==
    \/ handler.at \in {"off", "fan"}
    \/ handler.at = "send" /\ handler.command[f] = Keep

CommandIsLast(f, v) ==
    \E i \in DOMAIN commands :
        /\ commands[i].of = Manual /\ commands[i][f] = v
        /\ \A j \in DOMAIN commands : j > i => commands[j][f] = Keep

HasArrived(f, v) ==
    /\ \A i \in DOMAIN commands : commands[i][f] = Keep
    /\ settings[Manual][f] = v

OnItsWay(f, v) ==
    \/ RequestIsLast(f, v)
    \/ NoSetpointAsked /\ HandlerHas(f, v)
    \/ NoSetpointAsked /\ HandlerKeeps(f) /\ CommandIsLast(f, v)
    \/ NoSetpointAsked /\ HandlerKeeps(f) /\ HasArrived(f, v)

ArrivesInv ==
    latest # NoSetpoint =>
        /\ latest \in [field : Sides, value : Temps \cup {Unreadable}]
        /\ OnItsWay(latest.field, Parsed(latest.value))

\* The setpoint does not get lost before it is in a command.
LEMMA ArrivesRequest ==
  ASSUME CommandsTypeInv, NEW f \in Sides, NEW v \in Setpoints, OnItsWay(f, v),
         NEW kind \in {"fan", "preset"}, NEW value, Request(kind, value),
         [kind |-> kind, value |-> value] \in Requests
  PROVE  OnItsWay(f, v)'
  <1> DEFINE e == [kind |-> kind, value |-> value]
  <1>1. /\ requests \in Seq(Requests) /\ requests' = Append(requests, e)
        /\ UNCHANGED <<settings, handler, commands>>
    BY DEF Request, CommandsTypeInv, thermostatVars
  <1>2. e.kind \notin Sides
    BY DEF Sides
  <1> HIDE DEF e
  <1>3. /\ DOMAIN requests' = 1 .. Len(requests) + 1
        /\ DOMAIN requests = 1 .. Len(requests) /\ Len(requests) \in Nat
        /\ \A i \in 1 .. Len(requests) : requests'[i] = requests[i]
        /\ requests'[Len(requests) + 1] = e
    BY <1>1, AppendItem DEF e
  <1>4. RequestIsLast(f, v) => RequestIsLast(f, v)'
    <2> SUFFICES ASSUME NEW i \in DOMAIN requests,
                        requests[i].kind = f, Parsed(requests[i].value) = v,
                        \A j \in DOMAIN requests : j > i => requests[j].kind \notin Sides
                 PROVE  RequestIsLast(f, v)'
      BY DEF RequestIsLast
    <2>1. i \in DOMAIN requests' /\ requests'[i] = requests[i]
      BY <1>3
    <2>2. \A j \in DOMAIN requests' : j > i => requests'[j].kind \notin Sides
      BY <1>2, <1>3
    <2> QED
      BY <2>1, <2>2 DEF RequestIsLast
  <1>5. NoSetpointAsked => NoSetpointAsked'
    BY <1>2, <1>3 DEF NoSetpointAsked
  <1> QED
    BY <1>1, <1>4, <1>5
       DEF OnItsWay, HandlerHas, HandlerKeeps, CommandIsLast, HasArrived

LEMMA ArrivesTake ==
  ASSUME CommandsTypeInv, NEW f \in Sides, NEW v \in Setpoints, OnItsWay(f, v),
         TakeRequest
  PROVE  OnItsWay(f, v)'
  <1> DEFINE r == requests[1]
  <1>1. /\ handler = Off /\ r \in Requests /\ requests' = Tail(requests)
        /\ r.kind \in Sides \cup {"fan", "preset"}
        /\ UNCHANGED <<settings, commands>>
    BY TakeFacts DEF thermostatVars
  <1>2. /\ requests \in Seq(Requests) /\ Len(requests) \in Nat
        /\ DOMAIN requests = 1 .. Len(requests) /\ Len(requests) >= 1
        /\ DOMAIN requests' = 1 .. Len(requests) - 1
        /\ \A i \in 1 .. Len(requests) - 1 : requests'[i] = requests[i + 1]
    BY TailItem DEF TakeRequest, CommandsTypeInv
  <1>3. r.kind \notin Sides => HandlerKeeps(f)'
    <2>1. CASE r.kind = "fan"
      <3>1. handler'.at = "fan"
        BY <2>1, TakeFacts
      <3> QED
        BY <3>1 DEF HandlerKeeps
    <2>2. CASE r.kind = "preset"
      <3>1. handler' = Send(Command(r.value, r.value))
        BY <2>2, TakeFacts
      <3> QED
        BY <3>1 DEF HandlerKeeps, Send, Command, Sides
    <2> QED
      BY <1>1, <2>1, <2>2
  <1>4. CASE RequestIsLast(f, v)
    <2>1. PICK i \in DOMAIN requests :
             /\ requests[i].kind = f /\ Parsed(requests[i].value) = v
             /\ \A j \in DOMAIN requests : j > i => requests[j].kind \notin Sides
      BY <1>4 DEF RequestIsLast
    <2>2. CASE i = 1
      <3>1. handler' = [at |-> "activity", field |-> f, value |-> v]
        BY <2>1, <2>2, TakeFacts
      <3>2. \A j \in 1 .. Len(requests) - 1 :
               j + 1 \in DOMAIN requests /\ j + 1 > i
        BY <1>2, <2>2
      <3>3. NoSetpointAsked'
        BY <1>2, <2>1, <3>2 DEF NoSetpointAsked
      <3>4. HandlerHas(f, v)'
        BY <3>1 DEF HandlerHas
      <3> QED
        BY <3>3, <3>4 DEF OnItsWay
    <2>3. CASE i # 1
      <3>1. PICK k \in 1 .. Len(requests) - 1 : i = k + 1
        <4>1. i - 1 \in 1 .. Len(requests) - 1 /\ i = (i - 1) + 1
          BY <1>2, <2>3
        <4> QED
          BY <4>1
      <3>2. /\ k \in DOMAIN requests' /\ requests'[k] = requests[i]
        BY <1>2, <3>1
      <3>3. \A j \in 1 .. Len(requests) - 1 : j > k =>
               j + 1 \in DOMAIN requests /\ j + 1 > i
        BY <1>2, <3>1
      <3>4. \A j \in DOMAIN requests' : j > k => requests'[j].kind \notin Sides
        BY <1>2, <2>1, <3>3
      <3> QED
        BY <2>1, <3>2, <3>4 DEF OnItsWay, RequestIsLast
    <2> QED
      BY <2>2, <2>3
  <1>5. CASE NoSetpointAsked
    <2>1. r.kind \notin Sides
      BY <1>2, <1>5 DEF NoSetpointAsked
    <2>2. NoSetpointAsked'
      <3>1. \A j \in 1 .. Len(requests) - 1 : j + 1 \in DOMAIN requests
        BY <1>2
      <3> QED
        BY <1>2, <1>5, <3>1 DEF NoSetpointAsked
    <2>3. ~HandlerHas(f, v)
      BY <1>1 DEF HandlerHas, Off
    <2>4. CommandIsLast(f, v) => CommandIsLast(f, v)'
      BY <1>1 DEF CommandIsLast
    <2>5. HasArrived(f, v) => HasArrived(f, v)'
      BY <1>1 DEF HasArrived
    <2> QED
      BY <1>3, <1>4, <2>1, <2>2, <2>3, <2>4, <2>5 DEF OnItsWay
  <1> QED
    BY <1>4, <1>5 DEF OnItsWay

\* A read changes the handler only.
LEMMA ArrivesRead ==
  ASSUME CommandsTypeInv, NEW f \in Sides, NEW v \in Setpoints, OnItsWay(f, v),
         ReadForFan \/ ReadActivity \/ ReadOther \/ ReadFan
  PROVE  OnItsWay(f, v)'
  <1>1. UNCHANGED <<settings, requests, commands>>
    BY DEF ReadForFan, ReadActivity, ReadOther, ReadFan, thermostatVars
  <1>2. HandlerHas(f, v) => HandlerHas(f, v)'
    <2> SUFFICES ASSUME HandlerHas(f, v) PROVE HandlerHas(f, v)'
      OBVIOUS
    <2>1. CASE ReadForFan
      BY <2>1 DEF ReadForFan, HandlerHas
    <2>2. CASE ReadActivity
      <3>1. handler.at = "activity" /\ handler.field = f /\ handler.value = v
        BY <2>2 DEF ReadActivity, HandlerHas
      <3> QED
        BY <2>2, <3>1, ReadActivityFacts DEF HandlerHas, Send
    <2>3. CASE ReadOther
      <3>1. handler.at = "other" /\ handler.field = f /\ handler.value = v
        BY <2>3 DEF ReadOther, HandlerHas
      <3> QED
        BY <2>3, <3>1, ReadOtherFacts DEF HandlerHas
    <2>4. CASE ReadFan
      <3> DEFINE c == handler.command
                 d == [c EXCEPT !.fan = known.fan]
      <3>1. /\ c.of = Manual /\ c[f] = v /\ c \in Commands
            /\ handler' = Send(d)
        BY <2>4, HandlerIs DEF ReadFan, HandlerHas
      <3>2. d.of = c.of /\ d[f] = c[f]
        BY <3>1 DEF Commands, Sent, Sides
      <3> QED
        BY <3>1, <3>2 DEF HandlerHas, Send
    <2> QED
      BY <2>1, <2>2, <2>3, <2>4
  <1>3. HandlerKeeps(f) => HandlerKeeps(f)'
    <2> SUFFICES ASSUME HandlerKeeps(f) PROVE HandlerKeeps(f)'
      OBVIOUS
    <2>1. CASE ReadForFan
      <3>1. CASE handler' = Off
        BY <3>1 DEF HandlerKeeps, Off
      <3>2. CASE handler' = Send([Command(Keep, known.activity)
                                    EXCEPT !.fan = handler.value])
        BY <3>2 DEF HandlerKeeps, Send, Command, Sides
      <3> QED
        BY <2>1, <3>1, <3>2 DEF ReadForFan
    <2>2. CASE ReadActivity \/ ReadOther \/ ReadFan
      BY <2>2 DEF ReadActivity, ReadOther, ReadFan, HandlerKeeps
    <2> QED
      BY <2>1, <2>2
  <1>4. /\ RequestIsLast(f, v) => RequestIsLast(f, v)'
        /\ NoSetpointAsked => NoSetpointAsked'
    BY <1>1 DEF RequestIsLast, NoSetpointAsked
  <1>5. /\ CommandIsLast(f, v) => CommandIsLast(f, v)'
        /\ HasArrived(f, v) => HasArrived(f, v)'
    BY <1>1 DEF CommandIsLast, HasArrived
  <1> QED
    BY <1>2, <1>3, <1>4, <1>5 DEF OnItsWay

LEMMA ArrivesSend ==
  ASSUME CommandsTypeInv, NEW f \in Sides, NEW v \in Setpoints, OnItsWay(f, v),
         SendCommand
  PROVE  OnItsWay(f, v)'
  <1> DEFINE c == handler.command
  <1>1. /\ handler.at = "send" /\ c \in Commands /\ handler' = Off
        /\ commands' = Append(commands, c) /\ commands \in Seq(Commands)
        /\ UNCHANGED <<settings, requests>>
    BY HandlerIs DEF SendCommand, CommandsTypeInv, thermostatVars
  <1> HIDE DEF c
  <1>2. /\ DOMAIN commands' = 1 .. Len(commands) + 1
        /\ DOMAIN commands = 1 .. Len(commands) /\ Len(commands) \in Nat
        /\ \A i \in 1 .. Len(commands) : commands'[i] = commands[i]
        /\ commands'[Len(commands) + 1] = c
    BY <1>1, AppendItem
  <1>3. HandlerKeeps(f)'
    BY <1>1 DEF HandlerKeeps, Off
  <1>4. /\ RequestIsLast(f, v) => RequestIsLast(f, v)'
        /\ NoSetpointAsked => NoSetpointAsked'
    BY <1>1 DEF RequestIsLast, NoSetpointAsked
  <1>5. HandlerHas(f, v) => CommandIsLast(f, v)'
    <2> SUFFICES ASSUME c.of = Manual, c[f] = v PROVE CommandIsLast(f, v)'
      BY <1>1 DEF HandlerHas, c
    <2>1. Len(commands) + 1 \in DOMAIN commands'
      BY <1>2
    <2>2. \A j \in DOMAIN commands' : ~(j > Len(commands) + 1)
      BY <1>2
    <2> QED
      BY <1>2, <2>1, <2>2 DEF CommandIsLast
  <1>6. HandlerKeeps(f) => c[f] = Keep
    BY <1>1 DEF HandlerKeeps, c
  <1>7. c[f] = Keep /\ CommandIsLast(f, v) => CommandIsLast(f, v)'
    <2> SUFFICES ASSUME c[f] = Keep, NEW i \in DOMAIN commands,
                        commands[i].of = Manual, commands[i][f] = v,
                        \A j \in DOMAIN commands : j > i => commands[j][f] = Keep
                 PROVE  CommandIsLast(f, v)'
      BY DEF CommandIsLast
    <2>1. i \in DOMAIN commands' /\ commands'[i] = commands[i]
      BY <1>2
    <2>2. \A j \in DOMAIN commands' : j > i => commands'[j][f] = Keep
      BY <1>2
    <2> QED
      BY <2>1, <2>2 DEF CommandIsLast
  <1>8. c[f] = Keep /\ HasArrived(f, v) => HasArrived(f, v)'
    BY <1>1, <1>2 DEF HasArrived
  <1> QED
    BY <1>3, <1>4, <1>5, <1>6, <1>7, <1>8 DEF OnItsWay

LEMMA ArrivesObey ==
  ASSUME CommandsTypeInv, NEW f \in Sides, NEW v \in Setpoints, OnItsWay(f, v),
         Obey
  PROVE  OnItsWay(f, v)'
  <1> DEFINE c == commands[1]
  <1>1. /\ c \in Commands /\ commands' = Tail(commands)
        /\ settings' = [settings EXCEPT ![c.of] = Obeyed(c, settings[c.of])]
        /\ UNCHANGED <<requests, handler>>
    BY ObeyFacts DEF Obey
  <1>2. /\ commands \in Seq(Commands) /\ Len(commands) \in Nat
        /\ DOMAIN commands = 1 .. Len(commands) /\ Len(commands) >= 1
        /\ DOMAIN commands' = 1 .. Len(commands) - 1
        /\ \A i \in 1 .. Len(commands) - 1 : commands'[i] = commands[i + 1]
    BY TailItem DEF Obey, CommandsTypeInv
  <1>3. settings'[Manual][f] = IF c.of = Manual THEN Or(c[f], settings[Manual][f])
                               ELSE settings[Manual][f]
    <2>1. /\ Manual \in AllActivities
          /\ settings \in [AllActivities -> Setting(Setpoints)]
      BY DEF AllActivities, CommandsTypeInv
    <2>2. \A s : Obeyed(c, s)[f] = Or(c[f], s[f])
      BY DEF Obeyed, Sides
    <2> HIDE DEF c
    <2> QED
      BY <1>1, <2>1, <2>2
  <1>4. \A j \in 1 .. Len(commands) - 1 : j + 1 \in DOMAIN commands /\ j + 1 > 1
    BY <1>2
  <1>5. /\ RequestIsLast(f, v) => RequestIsLast(f, v)'
        /\ NoSetpointAsked => NoSetpointAsked'
        /\ HandlerHas(f, v) => HandlerHas(f, v)'
        /\ HandlerKeeps(f) => HandlerKeeps(f)'
    BY <1>1 DEF RequestIsLast, NoSetpointAsked, HandlerHas, HandlerKeeps
  <1>6. HasArrived(f, v) => HasArrived(f, v)'
    <2> SUFFICES ASSUME HasArrived(f, v) PROVE HasArrived(f, v)'
      OBVIOUS
    <2>1. c[f] = Keep
      BY <1>2 DEF HasArrived
    <2>2. settings'[Manual][f] = v
      BY <1>3, <2>1 DEF HasArrived, Or
    <2>3. \A j \in DOMAIN commands' : commands'[j][f] = Keep
      BY <1>2, <1>4 DEF HasArrived
    <2> QED
      BY <2>2, <2>3 DEF HasArrived
  <1>7. CommandIsLast(f, v) => CommandIsLast(f, v)' \/ HasArrived(f, v)'
    <2> SUFFICES ASSUME NEW i \in DOMAIN commands,
                        commands[i].of = Manual, commands[i][f] = v,
                        \A j \in DOMAIN commands : j > i => commands[j][f] = Keep
                 PROVE  CommandIsLast(f, v)' \/ HasArrived(f, v)'
      BY DEF CommandIsLast
    <2>1. CASE i = 1
      <3>1. settings'[Manual][f] = v
        BY <1>3, <2>1, Missing DEF Or
      <3>2. \A j \in DOMAIN commands' : commands'[j][f] = Keep
        BY <1>2, <1>4, <2>1
      <3> QED
        BY <3>1, <3>2 DEF HasArrived
    <2>2. CASE i # 1
      <3>1. PICK k \in 1 .. Len(commands) - 1 : i = k + 1
        <4>1. i - 1 \in 1 .. Len(commands) - 1 /\ i = (i - 1) + 1
          BY <1>2, <2>2
        <4> QED
          BY <4>1
      <3>2. k \in DOMAIN commands' /\ commands'[k] = commands[i]
        BY <1>2, <3>1
      <3>3. \A j \in 1 .. Len(commands) - 1 : j > k =>
               j + 1 \in DOMAIN commands /\ j + 1 > i
        BY <1>2, <3>1
      <3>4. \A j \in DOMAIN commands' : j > k => commands'[j][f] = Keep
        BY <1>2, <3>3
      <3> QED
        BY <3>2, <3>4 DEF CommandIsLast
    <2> QED
      BY <2>1, <2>2
  <1> QED
    BY <1>5, <1>6, <1>7 DEF OnItsWay

LEMMA ArrivesStep ==
  ASSUME CommandsTypeInv, ArrivesInv, [CommandsNext]_commandVars
  PROVE  ArrivesInv'
  <1>1. ASSUME latest' = latest,
               \A f \in Sides, v \in Setpoints : OnItsWay(f, v) => OnItsWay(f, v)'
        PROVE  ArrivesInv'
    <2> SUFFICES ASSUME latest # NoSetpoint
                 PROVE  /\ latest' \in [field : Sides, value : Temps \cup {Unreadable}]
                        /\ OnItsWay(latest.field, Parsed(latest.value))'
      BY <1>1 DEF ArrivesInv
    <2>1. /\ latest \in [field : Sides, value : Temps \cup {Unreadable}]
          /\ OnItsWay(latest.field, Parsed(latest.value))
      BY DEF ArrivesInv
    <2>2. PICK f \in Sides, v \in Setpoints :
             f = latest.field /\ v = Parsed(latest.value)
      BY <2>1 DEF Parsed, Setpoints
    <2>3. OnItsWay(f, v)'
      BY <1>1, <2>1, <2>2
    <2>4. latest'.field = f /\ Parsed(latest'.value) = v
      BY <1>1, <2>2
    <2> QED
      BY <1>1, <2>1, <2>3, <2>4
         DEF OnItsWay, RequestIsLast, HandlerHas, HandlerKeeps, CommandIsLast,
             HasArrived
  <1>2. CASE UNCHANGED <<settings, requests, handler, commands, latest>>
    BY <1>1, <1>2 DEF OnItsWay, RequestIsLast, NoSetpointAsked, HandlerHas,
                      HandlerKeeps, CommandIsLast, HasArrived
  <1>3. CASE \/ Report \/ (\E f \in Fields : ApplySetting(f)) \/ ChangeActivity
             \/ UNCHANGED commandVars
    BY <1>2, <1>3 DEF Report, ApplySetting, ChangeActivity, commandVars,
                      thermostatVars, historyVars
  <1>4. CASE LoseCommand
    BY <1>4 DEF LoseCommand, ArrivesInv
  <1>5. CASE Obey
    BY <1>1, <1>5, ArrivesObey DEF Obey, historyVars
  <1>6. ASSUME NEW f \in Sides, NEW value \in Temps \cup {Unreadable},
               RequestSetpoint(f, value)
        PROVE  ArrivesInv'
    <2> DEFINE e == [kind |-> f, value |-> value]
    <2>1. /\ requests \in Seq(Requests) /\ requests' = Append(requests, e)
          /\ latest' = [field |-> f, value |-> value] /\ e \in Requests
      BY <1>6 DEF RequestSetpoint, Request, CommandsTypeInv, Requests
    <2>2. e.kind = f /\ e.value = value
      OBVIOUS
    <2>3. latest'.field = f /\ latest'.value = value
      BY <2>1
    <2> HIDE DEF e
    <2>4. /\ DOMAIN requests' = 1 .. Len(requests) + 1 /\ Len(requests) \in Nat
          /\ requests'[Len(requests) + 1] = e
      BY <2>1, AppendItem
    <2>5. /\ Len(requests) + 1 \in DOMAIN requests'
          /\ \A j \in DOMAIN requests' : ~(j > Len(requests) + 1)
      BY <2>4
    <2>6. RequestIsLast(f, Parsed(value))'
      BY <2>2, <2>4, <2>5 DEF RequestIsLast
    <2> QED
      BY <2>1, <2>3, <2>6 DEF ArrivesInv, OnItsWay, RequestIsLast
  <1>7. ASSUME NEW value \in Fans, RequestFan(value) PROVE ArrivesInv'
    <2>1. /\ Request("fan", value) /\ latest' = latest
          /\ [kind |-> "fan", value |-> value] \in Requests
      BY <1>7 DEF RequestFan, Requests
    <2> QED
      BY <1>1, <2>1, ArrivesRequest
  <1>8. ASSUME NEW a \in AllActivities, RequestPreset(a) PROVE ArrivesInv'
    <2>1. /\ Request("preset", a) /\ latest' = latest
          /\ [kind |-> "preset", value |-> a] \in Requests
      BY <1>8 DEF RequestPreset, Requests
    <2> QED
      BY <1>1, <2>1, ArrivesRequest
  <1>9. CASE TakeRequest
    BY <1>1, <1>9, ArrivesTake, TakeFacts
  <1>10. CASE ReadForFan \/ ReadActivity \/ ReadOther \/ ReadFan
    <2>1. latest' = latest
      BY <1>10 DEF ReadForFan, ReadActivity, ReadOther, ReadFan, historyVars
    <2> QED
      BY <1>1, <1>10, <2>1, ArrivesRead
  <1>11. CASE SendCommand
    BY <1>1, <1>11, ArrivesSend DEF SendCommand, historyVars
  <1> QED
    BY <1>3, <1>4, <1>5, <1>6, <1>7, <1>8, <1>9, <1>10, <1>11
       DEF CommandsNext, Sides

\* Whatever the handlers read and however requests overlap: if no command is
\* lost, the setpoint asked for last gets into the manual activity.
THEOREM LatestSetpointArrives == CommandsSpec => []SetpointArrives
  <1>1. CommandsInit => ArrivesInv
    BY DEF CommandsInit, ArrivesInv
  <1>2. ASSUME ArrivesInv PROVE SetpointArrives
    <2> SUFFICES ASSUME latest # NoSetpoint, requests = <<>>, handler = Off,
                        commands = <<>>
                 PROVE  settings[Manual][latest.field] = Parsed(latest.value)
      BY DEF SetpointArrives, Pending
    <2>1. OnItsWay(latest.field, Parsed(latest.value))
      BY <1>2 DEF ArrivesInv
    <2> QED
      BY <2>1 DEF OnItsWay, RequestIsLast, HandlerHas, Off, CommandIsLast,
                  HasArrived
  <1> QED
    BY <1>1, <1>2, CommandsTypeInit, CommandsTypeStep, ArrivesStep, PTL
       DEF CommandsSpec

=============================================================================
