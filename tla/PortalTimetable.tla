---------------------------- MODULE PortalTimetable ----------------------------
(***************************************************************************)
(* The timetable collection of jobs/pipeline.py.  sync_uos_portal_timetable  *)
(* goes through all targets; prime_uos_portal_timetable_for_user does one    *)
(* user, for a new connection or for an operator, in another process and     *)
(* without a lock.  Meanwhile the onboarding opens and closes the browser    *)
(* sessions the targets were read from, and the UClass collection links the  *)
(* stored events to courses.                                                *)
(*                                                                         *)
(* A meeting stands for a class at a time in a room, which is what its       *)
(* external id is made of: a class that moves is another meeting.  A user has *)
(* one course and is in a section of it of their own, which has the user's   *)
(* name here.  The official catalog lists all sections and not who is in them. *)
(***************************************************************************)
EXTENDS Naturals, FiniteSets

CONSTANTS
  Users,
  Meetings,
  Job,           \* sync_uos_portal_timetable
  Caller,        \* prime_uos_portal_timetable_for_user
  Modes,         \* how the timetable API may be configured
  MaxChanges,    \* bound: what the school and the user change
  MaxFaults,     \* bound: failed calls, kills
  MaxEvents      \* bound: changes and faults together

NoUser == "nobody"

ASSUME PortalAssumption ==
  /\ NoUser \notin Users
  /\ Job # Caller
  /\ Modes \subseteq {"none", "api", "catalog"}
  /\ MaxChanges \in Nat /\ MaxFaults \in Nat /\ MaxEvents \in Nat

Runs     == {Job, Caller}
Statuses == {"none", "success", "error", "skipped"}
Sources  == {"browser", "api"}

VARIABLES
  mode,          \* no API, an API of its own, or the official catalog
  \* the school
  serves,        \* user -> the meetings of the timetable
  looks,         \* user -> the sections of the catalog that fit the name of the course best
  profile,       \* user -> is the browser profile logged "in", "out" or "gone"
  \* the database
  session,       \* user -> the row of the browser session
  connected,     \* the users with a UClass connection
  courses,       \* the users whose course is known by its title
  bound,         \* user -> the section whose number is stored with the course
  events,        \* user -> meeting -> what its row says
  buildings,     \* the names of the buildings have been stored
  row,           \* user -> the sync_uos_portal_timetable row
  overall,       \* the row of user 0
  \* the runs
  pc, todo, held, who, fetched, left, aliases, cache, results,
  \* _link_uclass_timetable_events
  linking,       \* user -> the events it has read and not written yet
  \* history
  opened,        \* what the onboarding last did to the session of a user
  disturbed,     \* users whose session was changed while a run held its row
  had,           \* user -> the meetings that were ever in the timetable
  fitted,        \* user -> the sections that ever were the only one to fit the course
  proven,        \* users with an answer of a source since their present login
  owed,          \* the targets of the cycle of the job that have no report yet
  changes, faults

school  == <<mode, serves, looks, profile>>
tables  == <<session, connected, courses, bound, events, buildings, row, overall>>
locals  == <<todo, held, who, fetched, left, aliases, results>>
ghosts  == <<opened, disturbed, had, fitted, proven, owed>>
portalVars    == <<school, tables, pc, locals, cache, linking, ghosts, changes, faults>>

NoFetch == [src |-> "browser", events |-> {}, section |-> NoUser, auth |-> FALSE,
            reason |-> FALSE, surface |-> FALSE, emptyOk |-> FALSE]
NoSession == [status |-> "none", sync |-> "none", auth |-> FALSE]
NoReport  == [status |-> "none", src |-> "browser", auth |-> FALSE]

\* the sections that are the only one to fit, by the names of the courses
Alone(L) == [u \in Users |-> {s \in Users : L[u] = {s}}]

PortalInit ==
  /\ mode \in Modes
  /\ serves \in [Users -> {{m} : m \in Meetings}]
  /\ looks \in [Users -> SUBSET Users]
  /\ mode # "catalog" => looks = [u \in Users |-> {u}]
  /\ profile = [u \in Users |-> "gone"]
  /\ session = [u \in Users |-> NoSession] /\ connected = {} /\ courses = {}
  /\ bound = [u \in Users |-> NoUser]
  /\ events = [u \in Users |-> [m \in Meetings |-> {}]]
  /\ buildings = FALSE
  /\ row = [u \in Users |-> NoReport] /\ overall = "none"
  /\ pc = [p \in Runs |-> "idle"] /\ todo = [p \in Runs |-> {}]
  /\ held = [p \in Runs |-> [u \in Users |-> NoSession]]
  /\ who = [p \in Runs |-> NoUser] /\ fetched = [p \in Runs |-> NoFetch]
  /\ left = [p \in Runs |-> {}] /\ aliases = [p \in Runs |-> FALSE]
  /\ cache = [p \in Runs |-> "unread"] /\ results = [p \in Runs |-> {}]
  /\ linking = [u \in Users |-> {}]
  /\ opened = [u \in Users |-> FALSE] /\ disturbed = {}
  /\ had = serves /\ fitted = Alone(looks) /\ proven = {} /\ owed = {}
  /\ changes = 0 /\ faults = 0

-----------------------------------------------------------------------------
(* The school and the onboarding                                            *)

Change == changes < MaxChanges /\ changes + faults < MaxEvents /\ changes' = changes + 1
Fault  == faults < MaxFaults /\ changes + faults < MaxEvents /\ faults' = faults + 1

\* the runs that act on a row of the session of u they have read before
Holders(u) == {p \in Runs : held[p][u] # NoSession}
Disturb(u) == disturbed' = IF Holders(u) = {} THEN disturbed ELSE disturbed \union {u}

\* a class gets another room or time
Move(u) ==
  /\ Change
  /\ \E m \in Meetings \ serves[u] :
       /\ serves' = [serves EXCEPT ![u] = {m}]
       /\ had' = [had EXCEPT ![u] = @ \union {m}]
  /\ UNCHANGED <<mode, looks, profile, tables, pc, locals, cache, linking, opened, disturbed,
                 fitted, proven, owed, faults>>

\* UClass or the catalog gives a course another name, which other sections fit
Rename(u) ==
  /\ Change
  /\ mode = "catalog"
  /\ \E S \in SUBSET Users \ {looks[u]} : looks' = [looks EXCEPT ![u] = S]
  /\ fitted' = [v \in Users |-> fitted[v] \union Alone(looks')[v]]
  /\ UNCHANGED <<mode, serves, profile, tables, pc, locals, cache, linking, opened, disturbed,
                 had, proven, owed, faults>>

\* the portal ends the login of the profile
Expire(u) ==
  /\ Change
  /\ profile[u] = "in"
  /\ profile' = [profile EXCEPT ![u] = "out"]
  /\ UNCHANGED <<mode, serves, looks, tables, pc, locals, cache, linking, ghosts, faults>>

\* the command onboarding browser-login opens a session of the portal
BrowserLogin(u) ==
  /\ Change
  /\ profile' = [profile EXCEPT ![u] = "in"]
  /\ session' = [session EXCEPT ![u] = [NoSession EXCEPT !.status = "active"]]
  /\ opened' = [opened EXCEPT ![u] = TRUE]
  /\ Disturb(u)
  /\ proven' = proven \ {u}
  /\ UNCHANGED <<mode, serves, looks, connected, courses, bound, events, buildings, row, overall,
                 pc, locals, cache, linking, had, fitted, owed, faults>>

\* finalize_school_account_connection: it closes the session of the portal, removes its
\* profile and primes the timetable in its own thread
Connect(u) ==
  /\ Change
  /\ pc[Caller] = "idle"
  /\ connected' = connected \union {u}
  /\ session' = [session EXCEPT ![u].status = IF @ = "none" THEN "none" ELSE "inactive"]
  /\ profile' = [profile EXCEPT ![u] = "gone"]
  /\ opened' = [opened EXCEPT ![u] = FALSE]
  /\ Disturb(u)
  /\ pc' = [pc EXCEPT ![Caller] = "prime"]
  /\ who' = [who EXCEPT ![Caller] = u]
  /\ UNCHANGED <<mode, serves, looks, courses, bound, events, buildings, row, overall, todo, held,
                 fetched, left, aliases, results, cache, linking, had, fitted, proven, owed,
                 faults>>

-----------------------------------------------------------------------------
(* The targets                                                              *)

Active(u) == session[u].status = "active"

\* _resolve_uos_portal_timetable_targets
Targets == IF mode = "catalog" THEN connected ELSE {u \in Users : Active(u)}

\* _has_ready_uos_portal_timetable_session
Ready(u) ==
  \/ Active(u) /\ session[u].sync = "success" /\ ~session[u].auth
  \/ row[u].status = "success" /\ row[u].src = "api" /\ ~row[u].auth

\* _user_has_timetable_events
HasEvents(u) == \E m \in Meetings : events[u][m] # {}

\* the rows of the sessions are part of the targets, but not in catalog mode
Hold(p, S) ==
  held' = [held EXCEPT ![p] = [u \in Users |-> IF u \in S /\ mode # "catalog" THEN session[u]
                                               ELSE NoSession]]

Go(p, place) == pc' = [pc EXCEPT ![p] = place]

\* mutant: the job leaves out the users with a timetable, as the call for a user does
ResolveMissing ==
  /\ pc[Job] = "idle"
  /\ LET S == {u \in Targets : ~HasEvents(u)} IN
       /\ S # {}
       /\ todo' = [todo EXCEPT ![Job] = S]
       /\ Hold(Job, S) /\ owed' = S
  /\ results' = [results EXCEPT ![Job] = {}]
  /\ Go(Job, "next")
  /\ UNCHANGED <<school, tables, who, fetched, left, aliases, cache, linking, opened, disturbed,
                 had, fitted, proven, changes, faults>>

\* _sync_portal_timetable_adapter begins
Resolve ==
  /\ pc[Job] = "idle"
  /\ Targets # {}
  /\ todo' = [todo EXCEPT ![Job] = Targets]
  /\ Hold(Job, Targets)
  /\ owed' = Targets /\ results' = [results EXCEPT ![Job] = {}]
  /\ Go(Job, "next")
  /\ UNCHANGED <<school, tables, who, fetched, left, aliases, cache, linking, opened, disturbed,
                 had, fitted, proven, changes, faults>>

ResolveNothing ==
  /\ pc[Job] = "idle"
  /\ Targets = {} /\ overall # "skipped"
  /\ overall' = "skipped"
  /\ UNCHANGED <<school, session, connected, courses, bound, events, buildings, row, pc, locals,
                 cache, linking, ghosts, changes, faults>>

\* the next target of the job
Next1 ==
  /\ pc[Job] = "next"
  /\ \E u \in todo[Job] :
       /\ who' = [who EXCEPT ![Job] = u]
       /\ todo' = [todo EXCEPT ![Job] = @ \ {u}]
  /\ Go(Job, "fetch")
  /\ UNCHANGED <<school, tables, held, fetched, left, aliases, results, cache, linking, ghosts,
                 changes, faults>>

\* an operator, or the first use of a user, asks for the timetable of one user
Ask(u) ==
  /\ Change
  /\ pc[Caller] = "idle"
  /\ \E force \in BOOLEAN :
       /\ force \/ ~HasEvents(u)
       /\ who' = [who EXCEPT ![Caller] = u]
       /\ Go(Caller, "prime")
  /\ UNCHANGED <<school, tables, todo, held, fetched, left, aliases, results, cache, linking,
                 ghosts, faults>>

Prime ==
  /\ pc[Caller] = "prime"
  /\ LET u == who[Caller] IN
       IF u \in Targets
       THEN Hold(Caller, {u}) /\ Go(Caller, "fetch") /\ UNCHANGED <<row, who>>
       ELSE /\ row' = [row EXCEPT ![u] = [NoReport EXCEPT !.status = "skipped"]]
            /\ Go(Caller, "idle") /\ who' = [who EXCEPT ![Caller] = NoUser]
            /\ UNCHANGED held
  /\ UNCHANGED <<school, session, connected, courses, bound, events, buildings, overall, todo,
                 fetched, left, aliases, results, cache, linking, ghosts, changes, faults>>

-----------------------------------------------------------------------------
(* One target                                                               *)

\* course_alias_resolution_map has one course for the title
Known(S, u) == u \in S

\* the answer of a source, and where the run goes on with it
Got(p, f) ==
  LET u == who[p] IN
  /\ fetched' = [fetched EXCEPT ![p] = f]
  /\ left' = [left EXCEPT ![p] = f.events]
  /\ aliases' = [aliases EXCEPT ![p] = Known(courses', u)]
  /\ Go(p, IF f.events = {} THEN "session" ELSE "enrich")
  /\ UNCHANGED <<session, connected, bound, events, buildings, row, overall, todo, held, who,
                 results, cache, linking, opened, disturbed, had, fitted, owed, changes>>

\* the adapter's own API: whatever it says of a supported request counts, an empty timetable too
FetchApi(p) ==
  /\ pc[p] = "fetch" /\ mode = "api"
  /\ UNCHANGED <<school, courses, faults>>
  /\ proven' = proven \union {who[p]}
  /\ Got(p, [NoFetch EXCEPT !.src = "api", !.events = serves[who[p]], !.emptyOk = TRUE])

FetchApiEmpty(p) ==
  /\ Fault
  /\ pc[p] = "fetch" /\ mode = "api"
  /\ UNCHANGED <<school, courses>>
  /\ proven' = proven \union {who[p]}
  /\ Got(p, [NoFetch EXCEPT !.src = "api", !.emptyOk = TRUE])

\* _looks_like_login_failure
LoggedOut(u) == profile[u] # "in"
Page(u) ==
  IF LoggedOut(u) THEN [NoFetch EXCEPT !.auth = TRUE]
                  ELSE [NoFetch EXCEPT !.events = serves[u], !.surface = TRUE]

\* without an API, or when it fails or does not support the request
FetchBrowser(p) ==
  /\ pc[p] = "fetch"
  /\ (mode = "none" /\ UNCHANGED faults) \/ (mode = "api" /\ Fault)
  /\ UNCHANGED <<school, courses>>
  /\ Got(p, Page(who[p]))
  /\ proven' = IF Page(who[p]).events = {} THEN proven ELSE proven \union {who[p]}

\* the timetable is not reached behind the menus
FetchNothing(p) ==
  /\ Fault
  /\ pc[p] = "fetch" /\ mode = "none"
  /\ UNCHANGED <<school, courses, proven>>
  /\ Got(p, NoFetch)

\* The sections that are left for the course of the user.  The score of a section goes by the
\* names of the course, and the number that is stored with the course outweighs the names.
Fits(u) == IF bound[u] \in Users THEN {bound[u]} ELSE looks[u]

NoMatch == [NoFetch EXCEPT !.src = "api", !.reason = TRUE]
Selected(s) == [NoFetch EXCEPT !.src = "api", !.events = serves[s], !.section = s]

\* mutant: of several sections that fit as well the first one is taken
MatchedFirst(u) ==
  IF Fits(u) = {} THEN NoMatch ELSE Selected(CHOOSE s \in Fits(u) : TRUE)

\* _match_uos_official_catalog_events_to_uclass_courses: a section counts if no other one is
\* within fifteen points of it; a course with none, or with more, has no meetings
Matched(u) ==
  IF \E s \in Users : Fits(u) = {s} THEN Selected(CHOOSE s \in Users : Fits(u) = {s})
                                    ELSE NoMatch

\* Courses that are not known yet are asked of UClass.  When it does not answer, or the catalog
\* does not support the request, there is nothing to match.
FetchCatalog(p) ==
  /\ pc[p] = "fetch" /\ mode = "catalog"
  /\ LET u == who[p] IN
       \/ courses' = courses \union {u} /\ UNCHANGED faults /\ Got(p, Matched(u))
       \/ Fault /\ UNCHANGED courses /\ Got(p, NoMatch)
  /\ UNCHANGED <<school, proven>>

\* the request of the catalog fails; or the API, the browser or a row raises
Raise(p) ==
  /\ Fault
  /\ pc[p] \in {"fetch", "write"}
  /\ Go(p, "failed")
  /\ UNCHANGED <<school, tables, locals, cache, linking, ghosts, changes>>

\* the secret of the session cannot be read
SecretMissing(p) ==
  /\ Fault
  /\ pc[p] = "fetch" /\ mode # "catalog"
  /\ fetched' = [fetched EXCEPT ![p] = [NoFetch EXCEPT !.auth = TRUE]]
  /\ left' = [left EXCEPT ![p] = {}]
  /\ Go(p, "session")
  /\ UNCHANGED <<school, tables, todo, held, who, aliases, results, cache, linking, ghosts,
                 changes>>

\* _load_uos_openapi_building_catalog: loaded, or failed, once for the life of the process
Enrich(p) ==
  /\ pc[p] = "enrich"
  /\ \/ cache[p] # "unread" /\ UNCHANGED <<cache, buildings, faults>>
     \/ /\ cache[p] = "unread"
        /\ cache' = [cache EXCEPT ![p] = "loaded"] /\ buildings' = TRUE /\ UNCHANGED faults
     \/ /\ cache[p] = "unread"
        /\ Fault /\ cache' = [cache EXCEPT ![p] = "failed"] /\ UNCHANGED buildings
  /\ Go(p, "write")
  /\ UNCHANGED <<school, session, connected, courses, bound, events, row, overall, locals,
                 linking, ghosts, changes>>

EventRow(known) ==
  {"stored"} \union (IF known THEN {"linked"} ELSE {})
             \union (IF buildings THEN {"named"} ELSE {})
\* upsert_event: the whole row
Upsert(u, m, r) == events' = [events EXCEPT ![u][m] = r]

\* _persist_official_course_binding: a section of the catalog stays with its course
Bind(u, section) ==
  bound' = [bound EXCEPT ![u] = IF section = NoUser THEN @ ELSE section]

\* the rows are written one by one; what is no longer served stays
Write(p) ==
  /\ pc[p] = "write"
  /\ \E m \in left[p] :
       /\ Bind(who[p], fetched[p].section)
       /\ Upsert(who[p], m, EventRow(aliases[p]))
       /\ left' = [left EXCEPT ![p] = @ \ {m}]
  /\ IF left'[p] = {} THEN Go(p, "session") ELSE UNCHANGED pc
  /\ UNCHANGED <<school, session, connected, courses, buildings, row, overall, todo, held, who,
                 fetched, aliases, results, cache, linking, ghosts, changes, faults>>

StatusOf(f) ==
  CASE f.events # {} -> "success"
    [] f.events = {} /\ f.auth -> "error"
    [] f.events = {} /\ ~f.auth /\ f.reason -> "skipped"
    [] OTHER -> IF f.surface \/ (f.src = "api" /\ f.emptyOk) THEN "success" ELSE "skipped"

\* mutant: also for a target that is no session
WriteSessionAlways(p) ==
  /\ pc[p] = "session"
  /\ session' = [session EXCEPT ![who[p]] =
        [status |-> "active", sync |-> StatusOf(fetched[p]), auth |-> fetched[p].auth]]
  /\ Go(p, "report")
  /\ UNCHANGED <<school, connected, courses, bound, events, buildings, row, overall, locals,
                 cache, linking, ghosts, changes, faults>>

\* the session of the target is written as it was read, with the outcome
WriteSession(p) ==
  /\ pc[p] = "session"
  /\ LET u == who[p] IN
       session' = [session EXCEPT ![u] =
         IF held[p][u] = NoSession THEN @
         ELSE [status |-> held[p][u].status, sync |-> StatusOf(fetched[p]),
               auth |-> fetched[p].auth]]
  /\ Go(p, "report")
  /\ UNCHANGED <<school, connected, courses, bound, events, buildings, row, overall, locals,
                 cache, linking, ghosts, changes, faults>>

\* the row of the user; the job goes on with the next target, the other call returns
Reported(p, report) ==
  LET u == who[p] IN
  /\ row' = [row EXCEPT ![u] = report]
  /\ results' = [results EXCEPT ![p] = @ \union {report.status}]
  /\ held' = [held EXCEPT ![p][u] = NoSession]
  /\ who' = [who EXCEPT ![p] = NoUser]
  /\ fetched' = [fetched EXCEPT ![p] = NoFetch] /\ left' = [left EXCEPT ![p] = {}]
  /\ aliases' = [aliases EXCEPT ![p] = FALSE]
  /\ owed' = IF p = Job THEN owed \ {u} ELSE owed
  /\ Go(p, IF p = Caller THEN "idle" ELSE IF todo[p] = {} THEN "overall" ELSE "next")
  /\ UNCHANGED <<school, session, connected, courses, bound, events, buildings, overall, todo,
                 cache, linking, opened, disturbed, had, fitted, proven, changes, faults>>

Report(p) ==
  /\ pc[p] = "report"
  /\ Reported(p, [status |-> StatusOf(fetched[p]), src |-> fetched[p].src,
                  auth |-> fetched[p].auth])

\* mutant: the exception of a target ends the loop
FailedForAll(p) ==
  /\ pc[p] = "failed"
  /\ pc' = [pc EXCEPT ![p] = IF p = Job THEN "overall" ELSE "idle"]
  /\ results' = [results EXCEPT ![p] = {"error"}]
  /\ todo' = [todo EXCEPT ![p] = {}] /\ who' = [who EXCEPT ![p] = NoUser]
  /\ held' = [held EXCEPT ![p] = [u \in Users |-> NoSession]]
  /\ UNCHANGED <<school, tables, fetched, left, aliases, cache, linking, ghosts, changes, faults>>

\* the exception of a target is its own
Failed(p) ==
  /\ pc[p] = "failed"
  /\ Reported(p, [NoReport EXCEPT !.status = "error"])

OverallOf(S) ==
  IF "error" \in S THEN "error" ELSE IF "success" \in S THEN "success" ELSE "skipped"

Overall ==
  /\ pc[Job] = "overall"
  /\ overall' = OverallOf(results[Job])
  /\ results' = [results EXCEPT ![Job] = {}]
  /\ Go(Job, "idle")
  /\ UNCHANGED <<school, session, connected, courses, bound, events, buildings, row, todo, held,
                 who, fetched, left, aliases, cache, linking, ghosts, changes, faults>>

\* the process of the run is killed
KillRun(p) ==
  /\ Fault
  /\ pc[p] # "idle"
  /\ pc' = [pc EXCEPT ![p] = "idle"]
  /\ todo' = [todo EXCEPT ![p] = {}] /\ who' = [who EXCEPT ![p] = NoUser]
  /\ held' = [held EXCEPT ![p] = [u \in Users |-> NoSession]]
  /\ fetched' = [fetched EXCEPT ![p] = NoFetch] /\ left' = [left EXCEPT ![p] = {}]
  /\ aliases' = [aliases EXCEPT ![p] = FALSE]
  /\ cache' = [cache EXCEPT ![p] = "unread"] /\ results' = [results EXCEPT ![p] = {}]
  /\ UNCHANGED <<school, tables, linking, ghosts, changes>>

-----------------------------------------------------------------------------
(* The UClass collection                                                    *)

\* the course of a user with a connection gets known by its title
Register(u) ==
  /\ u \in connected \ courses
  /\ courses' = courses \union {u}
  /\ UNCHANGED <<school, session, connected, bound, events, buildings, row, overall, pc, locals,
                 cache, linking, ghosts, changes, faults>>

\* _link_uclass_timetable_events reads the events once and writes those it can link
LinkRead(u) ==
  /\ Known(courses, u) /\ linking[u] = {}
  /\ LET unlinked == {m \in Meetings : "stored" \in events[u][m] /\ "linked" \notin events[u][m]}
     IN /\ unlinked # {}
        /\ linking' = [linking EXCEPT ![u] = {<<m, events[u][m]>> : m \in unlinked}]
  /\ UNCHANGED <<school, tables, pc, locals, cache, ghosts, changes, faults>>

LinkWrite(u) ==
  /\ \E e \in linking[u] :
       /\ Upsert(u, e[1], e[2] \union {"linked"})
       /\ linking' = [linking EXCEPT ![u] = @ \ {e}]
  /\ UNCHANGED <<school, session, connected, courses, bound, buildings, row, overall, pc, locals,
                 cache, ghosts, changes, faults>>

-----------------------------------------------------------------------------
Environment ==
  \E u \in Users :
    Move(u) \/ Rename(u) \/ Expire(u) \/ BrowserLogin(u) \/ Connect(u) \/ Ask(u)
Collect(p) ==
  \/ FetchApi(p) \/ FetchBrowser(p) \/ FetchCatalog(p) \/ FetchApiEmpty(p) \/ FetchNothing(p)
  \/ SecretMissing(p) \/ Raise(p) \/ Enrich(p) \/ Write(p) \/ WriteSession(p) \/ Report(p)
  \/ Failed(p)
JobStep    == Resolve \/ ResolveNothing \/ Next1 \/ Collect(Job) \/ Overall
CallerStep == Prime \/ Collect(Caller)
Link(u)    == Register(u) \/ LinkRead(u) \/ LinkWrite(u)

PortalNext ==
  \/ Environment \/ JobStep \/ CallerStep
  \/ \E p \in Runs : KillRun(p)
  \/ \E u \in Users : Link(u)

PortalSpec == PortalInit /\ [][PortalNext]_portalVars

\* launchd starts the collections again and again, and no call of theirs lasts for ever
PortalFairSpec ==
  /\ PortalSpec
  /\ WF_portalVars(JobStep) /\ WF_portalVars(CallerStep)
  /\ \A u \in Users : WF_portalVars(Link(u))

-----------------------------------------------------------------------------
(* Properties                                                               *)

\* Every variable has a value of its kind.
PortalTypeOK ==
  /\ mode \in Modes
  /\ serves \in [Users -> SUBSET Meetings]
  /\ looks \in [Users -> SUBSET Users] /\ bound \in [Users -> Users \union {NoUser}]
  /\ profile \in [Users -> {"in", "out", "gone"}]
  /\ session \in [Users -> [status : {"none", "active", "inactive"}, sync : Statuses,
                            auth : BOOLEAN]]
  /\ connected \subseteq Users /\ courses \subseteq Users
  /\ events \in [Users -> [Meetings -> SUBSET {"stored", "linked", "named"}]]
  /\ row \in [Users -> [status : Statuses, src : Sources, auth : BOOLEAN]]
  /\ overall \in Statuses
  /\ pc \in [Runs -> {"idle", "next", "prime", "fetch", "enrich", "write", "session", "report",
                      "failed", "overall"}]
  /\ cache \in [Runs -> {"unread", "loaded", "failed"}]
  /\ left \in [Runs -> SUBSET Meetings] /\ results \in [Runs -> SUBSET Statuses]

\* A session is active when, and only when, the onboarding last opened it: a collection writes
\* back the status it read, so that it can revive a session that was closed, but only one that
\* was closed while the collection held it (WriteSession).  An account that counts as ready has
\* got an answer from a source since its present login, or the API has answered for it.
SessionTruthful ==
  /\ PortalTypeOK
  /\ \A u \in Users \ disturbed :
       /\ Active(u) <=> opened[u]
       /\ Ready(u) => u \in proven \/ row[u].src = "api"

\* A meeting that is stored for a user was in the user's own timetable.  Of the official catalog
\* it was in that of a section which at some time was the only one to fit the name of the user's
\* course: it may be the wrong one, since the catalog does not say who is in it, but it is never
\* taken of several that fit as well, nor from the match of another target.  And when the job
\* writes the row for everybody, each target has its own row of this cycle, however many failed.
MayHold(u) == IF mode = "catalog" THEN UNION {had[s] : s \in fitted[u]} ELSE had[u]
UsersApart ==
  /\ \A u \in Users : \A m \in Meetings : events[u][m] # {} => m \in MayHold(u)
  /\ pc[Job] = "overall" => owed = {}

\* When changes and faults have ended, the timetable of a user with a way to it is stored and, if
\* the course is known, linked, whatever the two collections overwrote of each other before.  The
\* catalog is a way only for a course that its own section alone fits, or that is bound to it:
\* for any other course, and for a request the catalog does not support, the report is "skipped".
Reachable(u) ==
  CASE mode = "none" -> Active(u) /\ profile[u] = "in"
    [] mode = "api" -> Active(u)
    [] OTHER -> u \in connected /\ Fits(u) = {u}
TimetableArrives ==
  <>[](\A u \in Users : Reachable(u) =>
         \A m \in serves[u] : "stored" \in events[u][m]
                              /\ (u \in courses => "linked" \in events[u][m]))
=============================================================================
