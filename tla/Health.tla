--------------------------------- MODULE Health ---------------------------------
(***************************************************************************)
(* What the operators and the users are told about the collections: the    *)
(* rows the jobs leave in sync_state and user_sync_state, the notices'      *)
(* snapshots, and the views made of them (ops_health_state.py,              *)
(* telegram_setup_state.py, db_sync.py, ops_snapshot_service.py and         *)
(* inspect_last_failed_stage of jobs/pipeline.py).                          *)
(*                                                                         *)
(* A sync cycle goes through its users and records each, then the whole;   *)
(* an operator's refresh records one user's portal, UClass and weather in   *)
(* another process, one of them after the other; here each is an action of *)
(* its own, so that a refresh may also begin or end with any of them.  A   *)
(* record is made from the row before it and written in a second           *)
(* transaction.                                                             *)
(***************************************************************************)
EXTENDS Naturals, FiniteSets

CONSTANTS
  Users,
  All,            \* the scope of the rows of user 0: the collections as a whole
  Regional,       \* users with a weather region of their own
  Modes,          \* how the timetable API may be configured
  Faulty,         \* the parts of a run that may go wrong without its failing
  Fresh,          \* job -> ticks after which a run is stale
  SetupFresh,     \* ticks after which a login counts as not checked
  MaxTime, MaxRuns, MaxChanges   \* bounds

ASSUME HealthAssumption ==
  /\ All \notin Users /\ Regional \subseteq Users
  /\ Modes \subseteq {"none", "api", "catalog"}
  /\ Faulty \subseteq {"service", "download", "semantic", "air", "menu", "send", "command"}
  /\ Fresh \in [{"uclass", "telegram", "weather"} -> Nat] /\ SetupFresh \in Nat
  /\ MaxTime \in Nat \ {0} /\ MaxRuns \in Nat /\ MaxChanges \in Nat

Jobs   == {"portal", "uclass", "weather", "telegram"}
Kinds  == {"general", "academic"}
RowScopes == Users \union {All}
Procs  == {"sync", "ops"}
Times  == 0 .. MaxTime          \* 0: never

Statuses == {"never", "success", "skipped", "error"}
Parts == {"service", "download", "semantic", "target", "fallback", "attempt", "unsupported",
          "auth", "air", "menu", "send", "command"}
NoRow == [status |-> "never", at |-> 0, okAt |-> 0, error |-> FALSE, parts |-> {},
          api |-> FALSE]
NoFeed == [at |-> 0, ok |-> TRUE, shot |-> 0]
NoSession == [sync |-> "none", auth |-> FALSE, verified |-> 0]
NoRun == [job |-> "none", todo |-> {}, got |-> {}]

VARIABLES
  mode, now,
  linked,        \* user -> when the UClass login was verified, 0 before the first
  kept,          \* the users whose stored secrets can be read
  session,       \* user -> the portal session: its last collection, its time
  rows,          \* job -> scope -> the row of the collection
  feeds,         \* kind -> the row of the school's notices
  run,           \* the job of the sync process: users left, results
  held,          \* process -> the record it has made and not written yet
  \* history
  bad,           \* user -> the collections whose last attempt failed
  raced,         \* users two processes were recording at once
  missed,        \* the jobs whose last run failed for a user
  runs, changes

world == <<mode, linked, kept>>
healthVars  == <<world, now, session, rows, feeds, run, held, bad, raced, missed, runs, changes>>

Linked == {u \in Users : linked[u] # 0}

\* before the first run, with some users connected
HealthInit ==
  /\ mode \in Modes /\ now = 1
  /\ linked \in [Users -> {0, 1}] /\ kept = Linked
  /\ session = [u \in Users |-> [NoSession EXCEPT !.verified = linked[u]]]
  /\ rows = [j \in Jobs |-> [s \in RowScopes |-> NoRow]]
  /\ feeds = [k \in Kinds |-> NoFeed]
  /\ run = NoRun /\ held = [p \in Procs |-> {}]
  /\ bad = [u \in Users |-> {}] /\ raced = {} /\ missed = {}
  /\ runs = 0 /\ changes = 0

-----------------------------------------------------------------------------
(* The rows                                                                 *)

\* the record of a run: the last success is taken over from the row before it
Record(j, s, status, error, parts, api) ==
  [job |-> j, scope |-> s,
   row |-> [status |-> status, at |-> now, error |-> error, parts |-> parts, api |-> api,
            okAt |-> IF status = "success" THEN now ELSE rows[j][s].okAt]]

Written(rec) == rows' = [rows EXCEPT ![rec.job][rec.scope] = rec.row]

\* process p has made its record of user u while q has not written its own
Racing(p, j, u) ==
  \E q \in Procs \ {p} : \E rec \in held[q] : rec.job = j /\ rec.scope = u

\* a run of a job counts, and ends the last failure of the user it reaches
Count == runs < MaxRuns /\ runs' = runs + 1
Attempted(p, j, u, fine) ==
  /\ bad' = [bad EXCEPT ![u] = IF fine THEN @ \ {j} ELSE @ \union {j}]
  /\ raced' = IF Racing(p, j, u) THEN raced \union {u} ELSE raced

-----------------------------------------------------------------------------
(* What one user's collection can come to                                   *)

\* nothing goes wrong, or one part of a run
Flaws(parts) == {{}} \union {{p} : p \in parts \intersect Faulty}

\* _sync_uclass_target raises, or succeeds with what failed in parts
UClassOutcomes ==
  {[status |-> "error", parts |-> {}]} \union
  {[status |-> "success", parts |-> ps] : ps \in Flaws({"service", "download", "semantic"})}

\* _sync_uos_portal_timetable_target; "raises" when it does not return
PortalOutcomes ==
  {[status |-> "raises", parts |-> {}, api |-> FALSE]} \union
  CASE mode = "catalog" ->
         {[status |-> "success", parts |-> {}, api |-> TRUE],
          [status |-> "skipped", parts |-> {}, api |-> TRUE],
          [status |-> "skipped", parts |-> {"unsupported"}, api |-> TRUE],
          [status |-> "error", parts |-> {"attempt"}, api |-> TRUE]}
    [] mode = "api" ->
         {[status |-> "success", parts |-> {}, api |-> TRUE]} \union
         {[status |-> o[1], parts |-> o[2] \union {"fallback", "attempt"}, api |-> FALSE] :
             o \in {<<"success", {}>>, <<"skipped", {}>>, <<"error", {"auth"}>>}}
    [] OTHER ->
         {[status |-> o[1], parts |-> o[2], api |-> FALSE] :
             o \in {<<"success", {}>>, <<"skipped", {}>>, <<"error", {"auth"}>>}}

\* the secret of a session without a profile cannot be read
SecretGone == [status |-> "error", parts |-> {"auth", "attempt"}, api |-> FALSE]

\* the session of a portal collection that returned
SessionAfter(u, o) ==
  session' = IF o.status = "raises" \/ mode = "catalog" THEN session
             ELSE [session EXCEPT ![u] =
                     [sync |-> o.status, auth |-> "auth" \in o.parts,
                      verified |-> IF o = SecretGone THEN @.verified ELSE now]]

\* ... and its record: a collection that raises leaves only its reason
PortalRecord(u, o) ==
  IF o.status = "raises" THEN Record("portal", u, "error", FALSE, {}, FALSE)
  ELSE Record("portal", u, o.status, FALSE, o.parts, o.api)

-----------------------------------------------------------------------------
(* The sync process: sync_uclass, sync_uos_portal_timetable, sync_weather    *)
(* and sync_telegram                                                        *)

Idle(p) == held[p] = {}

Start(j) ==
  /\ Idle("sync") /\ run = NoRun /\ Count
  /\ j \in {"uclass", "portal"}
  /\ \/ /\ Linked = {}
        /\ held' = [held EXCEPT !["sync"] = {Record(j, All, "skipped", FALSE, {}, FALSE)}]
        /\ missed' = missed \ {j}
        /\ UNCHANGED run
     \/ /\ Linked # {}
        /\ run' = [job |-> j, todo |-> Linked, got |-> {}]
        /\ UNCHANGED <<held, missed>>
  /\ UNCHANGED <<world, now, session, rows, feeds, bad, raced, changes>>

UClassTarget(u) ==
  /\ Idle("sync") /\ run.job = "uclass" /\ u \in run.todo
  /\ \E o \in UClassOutcomes :
       /\ held' = [held EXCEPT !["sync"] =
                     {Record("uclass", u, o.status, FALSE, o.parts, FALSE)}]
       /\ run' = [run EXCEPT !.todo = @ \ {u},
                             !.got = @ \union {[status |-> o.status, parts |-> o.parts,
                                                api |-> FALSE]}]
       /\ Attempted("sync", "uclass", u, o.status = "success")
  /\ UNCHANGED <<world, now, session, rows, feeds, missed, runs, changes>>

PortalTarget(u) ==
  /\ Idle("sync") /\ run.job = "portal" /\ u \in run.todo
  /\ \E o \in PortalOutcomes \union (IF u \in kept \/ mode = "catalog" THEN {} ELSE {SecretGone}) :
       /\ held' = [held EXCEPT !["sync"] = {PortalRecord(u, o)}]
       /\ run' = [run EXCEPT !.todo = @ \ {u},
                             !.got = @ \union {o}]
       /\ SessionAfter(u, o)
       /\ Attempted("sync", "portal", u, o.status = "success")
  /\ UNCHANGED <<world, now, rows, feeds, missed, runs, changes>>

Failed(got) == {g \in got : g.status \in {"error", "raises"}}

\* mutant: one success is enough
OverallSuccessFirst(got) ==
  IF \E g \in got : g.status = "success" THEN "success"
  ELSE IF Failed(got) # {} THEN "error" ELSE "skipped"

OverallStatus(got) ==
  IF Failed(got) # {} THEN "error"
  ELSE IF \E g \in got : g.status = "success" THEN "success" ELSE "skipped"

\* the row of the whole: the payload names the failed targets and the sources
OverallRecord(j, got) ==
  Record(j, All, OverallStatus(got), FALSE,
         IF j = "portal"
         THEN {p \in {"fallback"} : \E g \in got : p \in g.parts} \union
              {p \in {"target"} : \E g \in got : g.status = "raises"}
         ELSE {p \in {"semantic"} : \E g \in got : g.parts \intersect {"download", "semantic"} # {}},
         \E g \in got : g.api)

FinishRun ==
  /\ Idle("sync") /\ run # NoRun /\ run.todo = {}
  /\ held' = [held EXCEPT !["sync"] = {OverallRecord(run.job, run.got)}]
  /\ missed' = IF Failed(run.got) = {} THEN missed \ {run.job}
               ELSE missed \union {run.job}
  /\ run' = NoRun
  /\ UNCHANGED <<world, now, session, rows, feeds, bad, raced, runs, changes>>

\* sync_weather: the default region, whose row is that of the whole, then each
\* user's own, whose failure is recorded in the user's row alone
WeatherDefault ==
  /\ Idle("sync") /\ run = NoRun /\ Count
  /\ \/ /\ held' = [held EXCEPT !["sync"] = {Record("weather", All, "error", TRUE, {}, FALSE)}]
        /\ UNCHANGED run
     \/ /\ \E ps \in Flaws({"air"}) :
             held' = [held EXCEPT !["sync"] = {Record("weather", All, "success", FALSE, ps, FALSE)}]
        /\ run' = IF Regional = {} THEN NoRun
                  ELSE [job |-> "weather", todo |-> Regional, got |-> {}]
  /\ missed' = missed \ {"weather"}
  /\ UNCHANGED <<world, now, session, rows, feeds, bad, raced, changes>>

WeatherTarget(u) ==
  /\ Idle("sync") /\ run.job = "weather" /\ u \in run.todo
  /\ \/ /\ held' = [held EXCEPT !["sync"] = {Record("weather", u, "error", TRUE, {}, FALSE)}]
        /\ missed' = missed \union {"weather"}
     \/ /\ \E ps \in Flaws({"air"}) :
             held' = [held EXCEPT !["sync"] = {Record("weather", u, "success", FALSE, ps, FALSE)}]
        /\ UNCHANGED missed
  /\ run' = IF run.todo = {u} THEN NoRun ELSE [run EXCEPT !.todo = @ \ {u}]
  /\ UNCHANGED <<world, now, session, rows, feeds, bad, raced, runs, changes>>

\* one cycle of sync_telegram, or its error handler
TelegramCycle ==
  /\ Idle("sync") /\ run = NoRun /\ Count
  /\ \/ held' = [held EXCEPT !["sync"] = {Record("telegram", All, "error", TRUE, {}, FALSE)}]
     \/ \E ps \in Flaws({"menu", "send", "command"}) :
          held' = [held EXCEPT !["sync"] = {Record("telegram", All, "success", FALSE, ps, FALSE)}]
  /\ UNCHANGED <<world, now, session, rows, feeds, run, bad, raced, missed, changes>>

Write(p) ==
  /\ \E rec \in held[p] : Written(rec)
  /\ held' = [held EXCEPT ![p] = {}]
  /\ UNCHANGED <<world, now, session, feeds, run, bad, raced, missed, runs, changes>>

-----------------------------------------------------------------------------
(* The operators' process: refresh_beta_user                                *)

RefreshPortal(u) ==
  /\ Idle("ops") /\ Count
  /\ \/ /\ u \notin Linked
        /\ held' = [held EXCEPT !["ops"] = {Record("portal", u, "skipped", FALSE, {}, FALSE)}]
        /\ UNCHANGED <<bad, raced, session>>
     \/ /\ u \in Linked
        /\ \E o \in PortalOutcomes \union (IF u \in kept \/ mode = "catalog" THEN {} ELSE {SecretGone}) :
             /\ held' = [held EXCEPT !["ops"] = {PortalRecord(u, o)}]
             /\ SessionAfter(u, o)
             /\ Attempted("ops", "portal", u, o.status = "success")
  /\ UNCHANGED <<world, now, rows, feeds, run, missed, changes>>

RefreshUClass(u) ==
  /\ Idle("ops") /\ Count
  /\ \/ /\ u \notin Linked
        /\ held' = [held EXCEPT !["ops"] = {Record("uclass", u, "skipped", FALSE, {}, FALSE)}]
        /\ UNCHANGED <<bad, raced>>
     \/ /\ u \in Linked
        /\ \E o \in UClassOutcomes :
             /\ held' = [held EXCEPT !["ops"] =
                  {Record("uclass", u, o.status, o.status = "error", o.parts, FALSE)}]
             /\ Attempted("ops", "uclass", u, o.status = "success")
  /\ UNCHANGED <<world, now, session, rows, feeds, run, missed, changes>>

\* a fetch that fails leaves an error where there is a snapshot to show with it,
\* and no trace where there is none
RefreshWeather(u) == LET s == IF u \in Regional THEN u ELSE All IN
  /\ Idle("ops") /\ Count
  /\ \/ \E ps \in Flaws({"air"}) :
          held' = [held EXCEPT !["ops"] = {Record("weather", s, "success", FALSE, ps, FALSE)}]
     \/ /\ rows["weather"][s].okAt # 0
        /\ held' = [held EXCEPT !["ops"] = {Record("weather", s, "error", TRUE, {}, FALSE)}]
     \/ UNCHANGED held
  /\ UNCHANGED <<world, now, session, rows, feeds, run, bad, raced, missed, changes>>

-----------------------------------------------------------------------------
(* The users and the school                                                 *)

Change == changes < MaxChanges /\ changes' = changes + 1

\* the form of the onboarding stores both logins anew
Connect(u) ==
  /\ Change
  /\ linked' = [linked EXCEPT ![u] = now] /\ kept' = kept \union {u}
  /\ session' = [session EXCEPT ![u] = [NoSession EXCEPT !.verified = now]]
  /\ bad' = [bad EXCEPT ![u] = {}]
  /\ raced' = IF \E p \in Procs : \E rec \in held[p] : rec.scope = u
              THEN raced \union {u} ELSE raced
  /\ UNCHANGED <<mode, now, rows, feeds, run, held, missed, runs>>

\* the keychain loses the secrets of a user
LoseSecrets(u) ==
  /\ Change
  /\ u \in kept /\ kept' = kept \ {u}
  /\ UNCHANGED <<mode, linked, now, session, rows, feeds, run, held, bad, raced, missed, runs>>

\* a user asks for the notices: the snapshot outlives a fetch that fails
RefreshNotices(k) ==
  /\ Count
  /\ \E ok \in BOOLEAN :
       feeds' = [feeds EXCEPT ![k] = [at |-> now, ok |-> ok,
                                      shot |-> IF ok THEN now ELSE @.shot]]
  /\ UNCHANGED <<world, now, session, rows, run, held, bad, raced, missed, changes>>

Tick ==
  /\ now < MaxTime /\ now' = now + 1
  /\ UNCHANGED <<world, session, rows, feeds, run, held, bad, raced, missed, runs, changes>>

HealthNext ==
  \/ \E j \in Jobs : Start(j)
  \/ \E u \in Users : UClassTarget(u) \/ PortalTarget(u) \/ WeatherTarget(u)
  \/ FinishRun \/ WeatherDefault \/ TelegramCycle
  \/ \E p \in Procs : Write(p)
  \/ \E u \in Users : \/ RefreshPortal(u) \/ RefreshUClass(u) \/ RefreshWeather(u)
                     \/ Connect(u) \/ LoseSecrets(u)
  \/ \E k \in Kinds : RefreshNotices(k)
  \/ Tick

HealthSpec == HealthInit /\ [][HealthNext]_healthVars

-----------------------------------------------------------------------------
(* The surfaces of build_beta_ops_health_report                             *)

Scope(j, s) == rows[j][s]
\* a user without a row is shown the row of the whole
Shown(j, s) == IF s # All /\ Scope(j, s).at = 0 THEN Scope(j, All) ELSE Scope(j, s)

Targets(s) == IF s = All THEN Linked ELSE Linked \intersect {s}

\* the age counts from the last success, from the last run where none is known
Stale(j, r) == now - (IF r.okAt # 0 THEN r.okAt ELSE r.at) > Fresh[j]

PortalHealth(s) == LET r == Scope("portal", s) IN
  IF mode = "none" THEN "not_configured"
  ELSE IF Targets(s) = {} THEN "no_targets"
  ELSE IF r.status = "error" THEN "error"
  ELSE IF "fallback" \in r.parts THEN "degraded"
  ELSE IF r.api \/ (mode = "catalog" /\ r.status = "success") THEN "ready"
  ELSE IF r.status = "skipped" THEN "skipped" ELSE "never_checked"

UClassHealth(s) == LET r == Shown("uclass", s) IN
  IF Targets(s) = {} THEN "no_targets"
  ELSE IF r.status \in {"error", "skipped"} THEN r.status
  ELSE IF r.status = "never" THEN "never_checked"
  ELSE IF Stale("uclass", r) THEN "stale"
  ELSE IF r.parts # {} THEN "degraded" ELSE "ready"

ListenerHealth == LET r == Scope("telegram", All) IN
  IF r.status = "error" THEN "error"
  ELSE IF r.status = "never" THEN "never_checked"
  ELSE IF Stale("telegram", r) THEN "stale"
  ELSE IF "menu" \in r.parts THEN "degraded" ELSE "ready"

\* mutant: only the sends count, not the failed commands
SendHealthOfSends == LET r == Scope("telegram", All) IN
  IF r.status = "error" THEN "error"
  ELSE IF r.status = "never" THEN "never_checked"
  ELSE IF "send" \in r.parts THEN "degraded"
  ELSE IF Stale("telegram", r) THEN "stale" ELSE "ready"

SendHealth == LET r == Scope("telegram", All) IN
  IF r.status = "error" THEN "error"
  ELSE IF r.status = "never" THEN "never_checked"
  ELSE IF r.parts \intersect {"send", "command"} # {} THEN "degraded"
  ELSE IF Stale("telegram", r) THEN "stale" ELSE "ready"

WeatherHealth(s) == LET r == Shown("weather", s) IN
  IF r.error \/ r.status = "error" THEN "error"
  ELSE IF r.status = "never" THEN "never_checked"
  ELSE IF now - r.at > Fresh["weather"] THEN "stale"
  ELSE IF "air" \in r.parts THEN "degraded" ELSE "ready"

FeedHealth(k) ==
  IF feeds[k].at = 0 THEN "never_checked"
  ELSE IF feeds[k].ok THEN "ready"
  ELSE IF feeds[k].shot # 0 THEN "degraded" ELSE "error"

NoticeHealth == LET hs == {FeedHealth(k) : k \in Kinds} IN
  IF hs = {"never_checked"} THEN "never_checked"
  ELSE IF "error" \in hs THEN "error"
  ELSE IF "degraded" \in hs THEN "degraded"
  ELSE IF "never_checked" \in hs THEN "partial" ELSE "ready"

Report(s) ==
  [uos_official_api |-> PortalHealth(s), uclass_sync |-> UClassHealth(s),
   telegram_listener |-> ListenerHealth, telegram_send |-> SendHealth,
   weather_sync |-> WeatherHealth(s), notice_fetch |-> NoticeHealth]

OverallReady(s) == \A c \in DOMAIN Report(s) : Report(s)[c] = "ready"

-----------------------------------------------------------------------------
(* inspect_last_failed_stage: at most one candidate of a component          *)

Stage(c, stage, at) == [component |-> c, stage |-> stage, at |-> at]

PortalStage(s) == LET r == Scope("portal", s) IN
  IF r.parts \intersect {"attempt", "unsupported"} # {}
  THEN {Stage("uos_official_api",
              IF "unsupported" \in r.parts THEN "unsupported" ELSE "source", r.at)}
  ELSE IF "auth" \in r.parts THEN {Stage("uos_official_api", "portal_session", r.at)}
  ELSE IF "target" \in r.parts THEN {Stage("uos_official_api", "portal_target_sync", r.at)}
  ELSE {}

\* the row of the whole holds counts under names that are not looked up here
UClassStage(s) == LET r == Shown("uclass", s) own == s # All /\ Scope("uclass", s).at # 0 IN
  IF own /\ "service" \in r.parts THEN {Stage("uclass_sync", "uclass_ws", r.at)}
  ELSE IF own /\ "download" \in r.parts
       THEN {Stage("uclass_sync", "uclass_material_download", r.at)}
  ELSE IF r.error THEN {Stage("uclass_sync", "uclass_sync", r.at)}
  ELSE {}

TelegramStage == LET r == Scope("telegram", All) IN
  IF r.error THEN {Stage("telegram_listener", "telegram_polling", r.at)}
  ELSE IF "menu" \in r.parts THEN {Stage("telegram_listener", "telegram_menu", r.at)}
  ELSE IF "send" \in r.parts THEN {Stage("telegram_send", "telegram_send", r.at)}
  ELSE IF "command" \in r.parts
       THEN {Stage("telegram_listener", "telegram_command_processing", r.at)}
  ELSE {}

WeatherStage(s) == LET r == Shown("weather", s) IN
  IF r.error THEN {Stage("weather_sync", "weather_fetch", r.at)}
  ELSE IF "air" \in r.parts THEN {Stage("weather_sync", "air_quality_fetch", r.at)}
  ELSE {}

NoticeStages ==
  {Stage("notice_fetch", k, feeds[k].at) : k \in {k \in Kinds : ~feeds[k].ok}}

Candidates(s) ==
  PortalStage(s) \union UClassStage(s) \union TelegramStage \union WeatherStage(s)
    \union NoticeStages

-----------------------------------------------------------------------------
(* The headline of the operators' page, over the rows of user 0             *)

Tone(status) ==
  CASE status \in {"ready", "success"}                        -> "ok"
    [] status = "error"                                       -> "err"
    [] status \in {"degraded", "partial", "skipped", "stale"} -> "warn"
    [] OTHER                                                  -> "info"

\* the card of a job asks for an action
ActionRequired(j, r) ==
  \/ r.status = "error"
  \/ j \in {"uclass"} /\ r.parts \intersect {"download", "semantic"} # {}
  \/ j = "weather" /\ "air" \in r.parts
  \/ j = "telegram" /\ r.parts \intersect {"send", "command"} # {}

CardIssue(j) == LET r == Scope(j, All) IN
  Tone(r.status) \in {"warn", "err"} \/ ActionRequired(j, r)

Headline ==
  IF \E c \in DOMAIN Report(All) : Tone(Report(All)[c]) = "err" THEN "err"
  ELSE IF \/ \E c \in DOMAIN Report(All) : Tone(Report(All)[c]) = "warn"
          \/ \E j \in Jobs : CardIssue(j)
       THEN "warn" ELSE "ok"

-----------------------------------------------------------------------------
(* /setup: build_telegram_setup_state                                       *)

\* mutant: a login in the same moment counts as later
OldErrorFrom(r, verified) == verified # 0 /\ (r.at = 0 \/ verified >= r.at)

\* a login verified after the failed run makes its error an old one
OldError(r, verified) == verified # 0 /\ (r.at = 0 \/ verified > r.at)

UClassLevel(u) == LET r == Scope("uclass", u) IN
  IF u \notin Linked THEN "TODO"
  ELSE IF \/ u \notin kept
          \/ r.status = "error" /\ ~OldError(r, linked[u])
          \/ now - linked[u] > SetupFresh
       THEN "WARN" ELSE "OK"

CatalogLevel(u) == LET r == Scope("portal", u) IN
  IF u \notin Linked THEN "TODO"
  ELSE IF r.status \in {"error", "skipped"} THEN "WARN"
  ELSE IF r.status = "success" \/ r.okAt # 0 THEN "OK" ELSE "WARN"

SessionLevel(u) == LET r == Scope("portal", u) s == session[u] IN
  IF u \notin Linked THEN "TODO"
  ELSE IF \/ u \notin kept
          \/ s.auth
          \/ r.status = "error"
          \/ s.sync = "skipped"
          \/ s.sync = "none" /\ r.okAt = 0
          \/ r.okAt = 0 /\ s.verified = 0
          \/ s.verified # 0 /\ now - s.verified > SetupFresh
       THEN "WARN" ELSE "OK"

PortalLevel(u) == IF mode = "catalog" THEN CatalogLevel(u) ELSE SessionLevel(u)

CoreReady(u) == UClassLevel(u) = "OK" /\ PortalLevel(u) = "OK"

-----------------------------------------------------------------------------
(* The audits of the operators' page, over the users' own rows               *)

\* what the card of a user holds against it, with the latest of the failed stages
\* (one of them, if they are of one moment); the briefs that are missing and the
\* drafts that wait are findings of other tables
UserCard(u) ==
  [errors |-> {j \in Jobs : Scope(j, u).status = "error"},
   not_ready |-> {c \in DOMAIN Report(u) : Report(u)[c] # "ready"},
   stages |-> {c.component : c \in {d \in Candidates(u) : \A e \in Candidates(u) : e.at <= d.at}}]

Findings(u) ==
  LET card == UserCard(u) IN card.errors \union card.not_ready \union card.stages

UserAudit(u) == [ready |-> Findings(u) = {}, findings |-> Findings(u)]

-----------------------------------------------------------------------------
(* Properties                                                               *)

Rows == [status : Statuses, at : Times, okAt : Times, error : BOOLEAN,
         parts : SUBSET Parts, api : BOOLEAN]

\* The types of the variables.
HealthTypeOK ==
  /\ mode \in Modes /\ now \in 1 .. MaxTime
  /\ linked \in [Users -> Times] /\ kept \subseteq Linked
  /\ \A u \in Users : /\ session[u].sync \in {"none", "success", "skipped", "error"}
                      /\ session[u].auth \in BOOLEAN /\ session[u].verified \in Times
  /\ rows \in [Jobs -> [RowScopes -> Rows]]
  /\ feeds \in [Kinds -> [at : Times, ok : BOOLEAN, shot : Times]]
  /\ run.job \in Jobs \union {"none"} /\ run.todo \subseteq Users
  /\ \A g \in run.got : /\ g.parts \subseteq Parts /\ g.api \in BOOLEAN
                         /\ g.status \in Statuses \union {"raises"}
  /\ \A p \in Procs : /\ Cardinality(held[p]) <= 1
                      /\ \A rec \in held[p] : /\ rec.job \in Jobs /\ rec.scope \in RowScopes
                                               /\ rec.row \in Rows
  /\ bad \in [Users -> SUBSET Jobs] /\ raced \subseteq Users /\ missed \subseteq Jobs
  /\ runs \in 0 .. MaxRuns /\ changes \in 0 .. MaxChanges

BeingRecorded == {u \in Users : \E p \in Procs : \E rec \in held[p] : rec.scope = u}

\* /setup calls a user ready only if the secrets can be read and nothing the
\* user's collections last tried after the last login has failed; an error
\* from before a new login, and only that, is forgotten.  Two processes that
\* record the user at once are excepted: the later row may be the older one.
\* Nor does an audit pass a user with a failure, but for a timetable that the
\* catalog does not hold, which it calls ready.  With the types of the variables.
SetupReadyIsTrue ==
  /\ HealthTypeOK
  /\ \A u \in Users \ (raced \union BeingRecorded) :
       /\ CoreReady(u) => u \in kept /\ bad[u] = {}
       /\ "uclass" \in bad[u] => "uclass_sync" \in UserAudit(u).findings
       /\ "portal" \in bad[u] /\ mode # "catalog" => "uos_official_api" \in UserAudit(u).findings

Surfaces(c) ==
  IF c.component \in {"telegram_listener", "telegram_send"}
  THEN {"telegram_listener", "telegram_send"} ELSE {c.component}

\* The two views of the operators agree: a failed stage shows on a surface of
\* its component, and what the surfaces of Telegram, the weather and the notices
\* call failed or degraded has its stage.  (An unsupported request of the
\* catalog is excepted: its surface says ready; see the README.)
ViewsAgree ==
  \A s \in RowScopes :
    /\ \A c \in Candidates(s) :
         c.stage # "unsupported" => \E f \in Surfaces(c) : Report(s)[f] # "ready"
    /\ \A f \in {"telegram_listener", "telegram_send", "weather_sync", "notice_fetch"} :
         Report(s)[f] \in {"error", "degraded"}
           => \E c \in Candidates(s) : f \in Surfaces(c)

\* A user's failure in the last run of UClass or of the portal reaches the
\* headline of the page, although the headline reads only the rows of user 0 and
\* other users' runs went well; a failure of UClass shows as an error.  The
\* weather is excepted: the row of user 0 is that of the default region, so that
\* the headline may be ok while the weather of every user's own region has failed.
FailureReachesHeadline ==
  held["sync"] = {} =>
    /\ missed \ {"weather"} # {} => Headline # "ok"
    /\ "uclass" \in missed => Headline = "err"

=============================================================================
