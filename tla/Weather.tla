------------------------------- MODULE Weather -------------------------------
(***************************************************************************)
(* The weather of the users (jobs/pipeline.py, connectors/weather_kma.py). *)
(*                                                                         *)
(* Each user, and the instance as owner "all", has one row with the last   *)
(* snapshot and the region it is for.  Four processes write these rows:    *)
(* the job sync_weather, the listener that answers commands, the sender of *)
(* the briefings and an operator's refresh.  They read the region, fetch   *)
(* for some time and write, while the user may choose another region.      *)
(*                                                                         *)
(* Time is counted in half hours.  A snapshot is put together from four    *)
(* forecasts, each published at hours of its own and perhaps late.  The    *)
(* air quality may be missing from a snapshot; nothing here depends on it. *)
(***************************************************************************)
EXTENDS Integers, FiniteSets, FiniteSetsExt

CONSTANTS
    User,
    Region,     \* coordinates and district, the cache key of a target
    Default,    \* the region of the settings
    Places,     \* the regions the users choose
    Times,      \* the half hours at which something happens
    Late,       \* bound: forecasts of one kind that are not there yet
    MaxRuns,    \* bound: runs of all processes together
    MaxChoices  \* bound: commands /region

ASSUME WeatherAssumption ==
    /\ IsFiniteSet(User) /\ "all" \notin User
    /\ IsFiniteSet(Region) /\ "none" \notin Region
    /\ Default \in Region
    /\ Places \subseteq Region
    /\ IsFiniteSet(Times) /\ Times \subseteq Nat /\ \E t \in Times : TRUE
    /\ Late \in 0 .. 1
    /\ MaxRuns \in Nat
    /\ MaxChoices \in Nat

VARIABLES
    clock,
    region,     \* the region in the preferences of each user, or "none"
    kept,        \* the row sync_weather of each owner
    req,        \* the work of each process
    choices,    \* bounded: commands /region so far
    runs        \* bounded: runs so far

weatherVars == <<clock, region, kept, req, choices, runs>>

Owners == User \cup {"all"}
Getters == {"listener", "refresher", "sender"}
Proc == Getters \cup {"job"}

-----------------------------------------------------------------------------
(* The forecasts                                                           *)

Hour(t) == t \div 2
Day(t) == t \div 48
At(d, h) == 48 * d + 2 * h

BaseHours == {2, 5, 8, 11, 14, 17, 20, 23}
\* What is asked for, in the order of age.
Observations(t) == {2 * (Hour(t) - k) : k \in 0 .. 5}
UltraForecasts(t) ==
    LET base == IF t % 2 = 0 THEN t - 1 ELSE t
    IN  {base - 2 * k : k \in 0 .. 5}
VillageForecasts(t) ==
    {b \in {At(d, h) : d \in Day(t) - 2 .. Day(t), h \in BaseHours} : b <= t}
\* Mutant of CoverageForecasts: the newest forecast is thought to cover the day.
CoverageForecastsNewest(t) == VillageForecasts(t)
\* The forecast that also covers the morning: from two o'clock on, or from
\* the evening before.
CoverageForecasts(t) ==
    IF Hour(t) % 24 >= 2
    THEN {At(Day(t), 2), At(Day(t), 2) - 6}
    ELSE {At(Day(t) - 1, 23), At(Day(t) - 1, 20)}

\* The first one that is there is taken; a few may be late.
Near(S) == {b \in S : Cardinality({x \in S : x > b}) <= Late}

NoData == [region |-> "none", at |-> 0, past |-> TRUE, whole |-> TRUE]
\* The merged forecasts begin an hour after the older of their bases.
MergedFrom(v, c) == Min({v, c}) + 2
\* A day is whole that is known from where its morning begins, five o'clock.
WholeFrom(from, t) == from <= At(Day(t), 5)
\* A snapshot asked for at t: whether its bases are all past, and whether it
\* has the whole day.
Snapshot(r, t, o, u, v, c) ==
    [region |-> r, at |-> t, past |-> Max({o, u, v, c}) <= t, whole |-> WholeFrom(MergedFrom(v, c), t)]
Snapshots(r, t) ==
    {Snapshot(r, t, o, u, v, c) :
        o \in Near(Observations(t)), u \in Near(UltraForecasts(t)),
        v \in Near(VillageForecasts(t)), c \in Near(CoverageForecasts(t))}

\* Which day the parts "today" and "tomorrow" of a message are from, when it
\* is written at t: the part with the date, or else the part with the name.
TodayOf(data, t) ==
    IF Day(t) \in {Day(data.at), Day(data.at) + 1} THEN Day(t) ELSE Day(data.at)
TomorrowOf(data, t) ==
    IF Day(t) + 1 \in {Day(data.at), Day(data.at) + 1} THEN Day(t) + 1 ELSE Day(data.at) + 1

-----------------------------------------------------------------------------
(* Rows and targets                                                        *)

NoRow == [key |-> "none", data |-> NoData]
NoRequest == [pc |-> "idle", user |-> "all", target |-> "none", custom |-> FALSE, at |-> 0,
              force |-> FALSE, read |-> NoRow, data |-> NoData, failed |-> FALSE,
              found |-> {}, todo |-> {}]

Earliest == Min(Times)

\* Some instances still have the row of a version without keys.
WeatherInit ==
    /\ clock = Earliest
    /\ region \in [User -> Places \cup {"none"}]
    /\ \E old \in {NoData} \cup Snapshots(Default, Earliest) :
           kept = [o \in Owners |-> IF o = "all" THEN [key |-> "none", data |-> old] ELSE NoRow]
    /\ req = [p \in Proc |-> NoRequest]
    /\ choices = 0
    /\ runs = 0

Custom(u) == region[u] # "none"
Target(u) == IF Custom(u) THEN region[u] ELSE Default

\* Mutant of Matches: a snapshot is as good as another.
MatchesAny(r, key, custom) == r.data # NoData
\* A row is a snapshot of a target only with data, and of its key; one
\* without a key is of the default.
Matches(r, key, custom) ==
    /\ r.data # NoData
    /\ IF r.key = "none" THEN ~ custom ELSE r.key = key

\* The row that answers for a user: his own, or that of the instance if he
\* has chosen no region.
Existing(u, key, custom) ==
    IF u # "all" /\ Matches(kept[u], key, custom) THEN kept[u]
    ELSE IF ~ custom /\ Matches(kept["all"], key, custom) THEN kept["all"]
    ELSE NoRow

\* The row a snapshot is kept in.
StateOwner(u, custom) == IF custom THEN u ELSE "all"

\* Mutant of ErrorRow: the error takes the place of the snapshot.
ErrorRowEmpty(key, previous) == [key |-> key, data |-> NoData]
\* An error is added to what was there before.
ErrorRow(key, previous) == [key |-> key, data |-> previous.data]

-----------------------------------------------------------------------------
(* Users and time                                                          *)

Tick ==
    /\ \E t \in Times : t > clock /\ clock' = Min({x \in Times : x > clock})
    /\ UNCHANGED <<region, kept, req, choices, runs>>

\* /region with a place that is found, or with a word that resets it; a place
\* that is not found changes nothing.
ChooseRegion(u, r) ==
    /\ choices < MaxChoices
    /\ req["listener"].pc = "idle"
    /\ r # region[u]
    /\ region' = [region EXCEPT ![u] = r]
    /\ choices' = choices + 1
    /\ UNCHANGED <<clock, kept, req, runs>>

-----------------------------------------------------------------------------
(* A snapshot for one user (_get_or_refresh_weather_snapshot)              *)

\* A command, a refresh, or the sender's work on the next of its chats.
Read(p, u) ==
    /\ p \in Getters
    /\ \/ /\ req[p].pc = "idle"
          /\ runs < MaxRuns
          /\ runs' = runs + 1
          /\ req' = [req EXCEPT ![p] = [NoRequest EXCEPT
                !.pc = "look", !.user = u, !.target = Target(u), !.custom = Custom(u), !.at = clock,
                !.force = (p = "refresher"),
                !.todo = IF p = "sender" THEN User \ {u} ELSE {}]]
       \/ /\ req[p].pc = "next"
          /\ u \in req[p].todo
          /\ runs' = runs
          /\ req' = [req EXCEPT ![p] = [req[p] EXCEPT
                !.pc = "look", !.user = u, !.target = Target(u), !.custom = Custom(u),
                !.todo = @ \ {u}]]
    /\ UNCHANGED <<clock, region, kept, choices>>

\* The message is made from what was found.
Answered(r, data) ==
    [r EXCEPT !.pc = "answer", !.data = data]
\* What a run has found for a target holds for its other users.
Finding(r, data) == r.found \cup {[key |-> r.target, data |-> data]}

Look(p) ==
    LET r == req[p]
        known == {f \in r.found : f.key = r.target}
        existing == Existing(r.user, r.target, r.custom)
    IN  /\ p \in Getters
        /\ r.pc = "look"
        /\ req' = [req EXCEPT ![p] =
              IF known # {} THEN Answered(r, (CHOOSE f \in known : TRUE).data)
              ELSE IF existing # NoRow /\ ~ r.force
                   THEN [Answered(r, existing.data) EXCEPT !.found = Finding(r, existing.data)]
                   ELSE [r EXCEPT !.pc = "fetch", !.read = existing]]
        /\ UNCHANGED <<clock, region, kept, choices, runs>>

Fetched(p) ==
    LET r == req[p]
    IN  /\ p \in Getters
        /\ r.pc = "fetch"
        /\ \E data \in Snapshots(r.target, r.at) :
               /\ kept' = [kept EXCEPT ![StateOwner(r.user, r.custom)] = [key |-> r.target, data |-> data]]
               /\ req' = [req EXCEPT ![p] = [Answered(r, data) EXCEPT !.found = Finding(r, data)]]
        /\ UNCHANGED <<clock, region, choices, runs>>

\* Without an older snapshot nothing is written.
FetchFails(p) ==
    LET r == req[p]
    IN  /\ p \in Getters
        /\ r.pc = "fetch"
        /\ kept' = IF r.read = NoRow THEN kept
                  ELSE [kept EXCEPT ![StateOwner(r.user, r.custom)] = ErrorRow(r.target, r.read)]
        /\ req' = [req EXCEPT ![p] = [Answered(r, r.read.data) EXCEPT !.found = Finding(r, r.read.data)]]
        /\ UNCHANGED <<clock, region, choices, runs>>

\* The message is sent; the sender goes on to the next chat.
Send(p) ==
    /\ p \in Getters
    /\ req[p].pc = "answer"
    /\ req' = [req EXCEPT ![p] =
          IF req[p].todo # {} THEN [@ EXCEPT !.pc = "next"] ELSE NoRequest]
    /\ UNCHANGED <<clock, region, kept, choices, runs>>

-----------------------------------------------------------------------------
(* The job (sync_weather)                                                  *)

JobFetch ==
    /\ req["job"].pc = "idle"
    /\ runs < MaxRuns
    /\ runs' = runs + 1
    /\ \/ \E data \in Snapshots(Default, clock) :
              req' = [req EXCEPT !["job"] = [NoRequest EXCEPT !.pc = "default", !.target = Default, !.data = data,
                                              !.found = {[key |-> Default, data |-> data]}]]
       \/ req' = [req EXCEPT !["job"] = [NoRequest EXCEPT !.pc = "default", !.target = Default, !.failed = TRUE,
                                          !.read = Existing("all", Default, FALSE)]]
    /\ UNCHANGED <<clock, region, kept, choices>>

\* Without the weather of the default nobody else's is fetched.
JobWriteDefault ==
    LET r == req["job"]
    IN  /\ r.pc = "default"
        /\ kept' = [kept EXCEPT !["all"] = IF r.failed THEN ErrorRow(Default, r.read)
                                         ELSE [key |-> Default, data |-> r.data]]
        /\ req' = [req EXCEPT !["job"] = IF r.failed THEN NoRequest ELSE [r EXCEPT !.pc = "list"]]
        /\ UNCHANGED <<clock, region, choices, runs>>

JobList ==
    LET r == req["job"]
    IN  /\ r.pc = "list"
        /\ req' = [req EXCEPT !["job"] =
              [r EXCEPT !.pc = "targets", !.todo = {[user |-> u, key |-> region[u]] : u \in {x \in User : Custom(x)}}]]
        /\ UNCHANGED <<clock, region, kept, choices, runs>>

\* The users of one region are served together, from one snapshot.
JobTarget ==
    LET r == req["job"]
    IN  /\ r.pc = "targets"
        /\ r.todo # {}
        /\ \E k \in {x.key : x \in r.todo} :
               \/ /\ \E f \in r.found :
                         /\ f.key = k
                         /\ req' = [req EXCEPT !["job"] =
                               [r EXCEPT !.pc = "owners", !.target = k, !.data = f.data, !.failed = FALSE]]
               \/ /\ ~ \E f \in r.found : f.key = k
                  /\ \/ \E data \in Snapshots(k, clock) :
                           req' = [req EXCEPT !["job"] = [r EXCEPT !.pc = "owners", !.target = k, !.data = data,
                              !.failed = FALSE, !.found = @ \cup {[key |-> k, data |-> data]}]]
                     \/ req' = [req EXCEPT !["job"] = [r EXCEPT !.pc = "owners", !.target = k, !.failed = TRUE]]
        /\ UNCHANGED <<clock, region, kept, choices, runs>>

JobOwners == {x \in req["job"].todo : x.key = req["job"].target}

JobWrite ==
    LET r == req["job"]
    IN  /\ r.pc = "owners" /\ ~ r.failed
        /\ \E x \in JobOwners :
               /\ kept' = [kept EXCEPT ![x.user] = [key |-> r.target, data |-> r.data]]
               /\ req' = [req EXCEPT !["job"].todo = @ \ {x}]
        /\ UNCHANGED <<clock, region, choices, runs>>

JobReadBefore ==
    LET r == req["job"]
    IN  /\ r.pc = "owners" /\ r.failed
        /\ \E x \in JobOwners :
               req' = [req EXCEPT !["job"] = [r EXCEPT !.pc = "error", !.user = x.user,
                                                 !.read = Existing(x.user, r.target, TRUE)]]
        /\ UNCHANGED <<clock, region, kept, choices, runs>>

JobWriteError ==
    LET r == req["job"]
    IN  /\ r.pc = "error"
        /\ kept' = [kept EXCEPT ![r.user] = ErrorRow(r.target, r.read)]
        /\ req' = [req EXCEPT !["job"] = [r EXCEPT !.pc = "owners", !.todo = {x \in @ : x.user # r.user}]]
        /\ UNCHANGED <<clock, region, choices, runs>>

JobNext ==
    LET r == req["job"]
    IN  /\ \/ r.pc = "owners" /\ JobOwners = {}
           \/ r.pc = "targets" /\ r.todo = {}
        /\ req' = [req EXCEPT !["job"] = IF r.todo = {} THEN NoRequest ELSE [r EXCEPT !.pc = "targets"]]
        /\ UNCHANGED <<clock, region, kept, choices, runs>>

WeatherJob == JobFetch \/ JobWriteDefault \/ JobList \/ JobTarget \/ JobWrite \/ JobReadBefore \/ JobWriteError \/ JobNext

WeatherNext ==
    \/ Tick
    \/ \E u \in User, r \in Places \cup {"none"} : ChooseRegion(u, r)
    \/ \E p \in Getters :
           \/ \E u \in User : Read(p, u)
           \/ Look(p) \/ Fetched(p) \/ FetchFails(p) \/ Send(p)
    \/ WeatherJob

WeatherSpec == WeatherInit /\ [][WeatherNext]_weatherVars

-----------------------------------------------------------------------------
(* Properties                                                              *)

Datum == {NoData} \cup UNION {Snapshots(r, t) : r \in Region, t \in Times}

\* Regions, rows and requests are of their kinds, and no snapshot was put
\* together from a forecast of its future.
WeatherTypeOK ==
    /\ clock \in Times
    /\ region \in [User -> Places \cup {"none"}]
    /\ \A o \in Owners : kept[o].key \in Region \cup {"none"} /\ kept[o].data \in Datum
    /\ \A o \in Owners : kept[o].data.past /\ kept[o].data.at <= clock
    /\ \A p \in Proc :
           /\ req[p].pc \in {"idle", "look", "fetch", "answer", "next", "default", "list", "targets", "owners", "error"}
           /\ req[p].data \in Datum
    /\ choices \in 0 .. MaxChoices /\ runs \in 0 .. MaxRuns

\* Whoever writes the rows, and whatever fails: weather that is shown to a
\* user is that of the region he had when it was asked for.
RightRegion ==
    /\ WeatherTypeOK
    /\ \A p \in Getters :
        req[p].pc = "answer" /\ req[p].data # NoData => req[p].data.region = req[p].target

\* The weather of the region a user has chosen is there, once it was
\* fetched.  It is lost only to a writer that began with another region, or
\* to one whose fetch failed after another process wrote the row that it had
\* read.  (The writer is the process that takes the step.)
Served(u) == Custom(u) /\ Matches(kept[u], region[u], TRUE)
LostOnlyInRace ==
    [][\A u \in User :
          Served(u) /\ region'[u] = region[u] /\ ~ Served(u)' =>
              \E p \in Proc :
                  /\ req[p].pc \in {"fetch", "owners", "error"} /\ req'[p] # req[p]
                  /\ \/ req[p].target # region[u]
                     \/ req[p].pc # "owners" /\ req[p].read # kept[u]]_weatherVars

\* At whatever hour a snapshot was fetched, it knows its day from where the
\* morning begins; and what a message shows as today's weather is of this
\* day as long as the snapshot is of today or of yesterday.
DayCovered ==
    \A p \in Getters :
        LET data == req[p].data
        IN  req[p].pc = "answer" /\ data # NoData =>
              /\ data.whole
              /\ Day(clock) <= Day(data.at) + 1 => TodayOf(data, clock) = Day(clock)
              /\ Day(clock) = Day(data.at) => TomorrowOf(data, clock) = Day(clock) + 1
=============================================================================
