----------------------------- MODULE Onboarding -----------------------------
(***************************************************************************)
(* The school account onboarding of UOS Secretary.  The Telegram command   *)
(* /connect issues a link; the onboarding HTTP server, one thread per      *)
(* request, takes the form behind the link, asks the school whether the    *)
(* account is right, and stores the token and the connection.              *)
(*                                                                         *)
(* A request is a row of separate database transactions with a remote      *)
(* login in their middle: the link is looked up, three counts of earlier   *)
(* attempts are compared with their limits, the login runs, the secret,    *)
(* the connection and the use of the link are written, and the attempt is  *)
(* recorded last.  Other threads act between any two of them, any of them  *)
(* may raise, and the server may be killed.                                *)
(***************************************************************************)
EXTENDS Integers, Sequences, FiniteSets

CONSTANTS
  Requests,           \* threads of the server, at most one request each
  Links,              \* onboarding sessions that /connect may issue
  Chats,
  Schools,            \* schools of the directory
  UosSchools,         \* those that bundle the portal (uos_school_account)
  AllowedSchools,     \* ONBOARDING_ALLOWED_SCHOOL_SLUGS
  Accounts,           \* user names at the schools
  Remotes,            \* remote addresses
  NoRemote,           \* the request has no remote address
  Nobody,             \* no account: the row or the secret does not exist
  MaxFailedPerSession,
  MaxFailedPerRemote,
  MaxTotalPerRemote,
  Window,             \* AUTH_RATE_WINDOW_SECONDS, in ticks
  Ttl,                \* ONBOARDING_SESSION_TTL_MINUTES, in ticks
  MaxTime,            \* bound of the model: ticks
  MaxRows,            \* bound of the model: recorded attempts and requests
  MaxFaults           \* bound of the model: exceptions and kills

ASSUME ConstantsAssumption ==
  /\ UosSchools \subseteq Schools /\ AllowedSchools \subseteq Schools
  /\ Nobody \notin Accounts /\ NoRemote \notin Remotes
  /\ MaxFailedPerSession \in Nat \ {0} /\ MaxFailedPerRemote \in Nat \ {0}
  /\ MaxTotalPerRemote \in Nat \ {0}
  /\ Window \in Nat /\ Ttl \in Nat \ {0}
  /\ MaxTime \in Nat /\ MaxRows \in Nat /\ MaxFaults \in Nat
  /\ IsFiniteSet(Requests)

VARIABLES
  now,
  links,       \* onboarding_sessions: state, chat and expiry of each link
  attempts,    \* auth_attempts in the order of insertion
  secret,      \* the secret store: whose token is under the key of chat, school
  connection,  \* moodle_connections: the account the row names
  portal,      \* lms_browser_sessions of the chat's portal: status
  pc,          \* where the request of a thread is
  form,        \* what the thread was sent
  submitted,   \* requests so far, bounds the model
  faults,
  uses,        \* history: how often a link was marked used
  torn         \* history: token and row were last written by two requests

vars == <<now, links, attempts, secret, connection, portal, pc, form,
          submitted, faults, uses, torn>>
tables == <<links, attempts, secret, connection, portal>>
history == <<uses, torn>>

Statuses == {"viewed", "invalid_request", "blocked", "failed", "success"}
Rows == [link : Links, remote : Remotes \cup {NoRemote},
         status : Statuses, at : 0..MaxTime]
Forms == [link : Links, complete : BOOLEAN, school : Schools,
          account : Accounts, right : BOOLEAN,
          remote : Remotes \cup {NoRemote}]

\* Where a request is: the names say what it does next.
Guarded == {"exchange", "store", "upsert", "deactivate", "markUsed", "recordSuccess"}
Unguarded == {"recordInvalid", "countSession", "countRemoteFailed",
              "countRemoteTotal", "recordBlocked", "recordFailed"}
Places == Guarded \cup Unguarded \cup {"idle", "respond"}

Unissued == [state |-> "none"]
NoForm == [link |-> "none"]

TypeOK ==
  /\ now \in 0..MaxTime
  /\ links \in [Links -> {Unissued} \cup
                  [state : {"open", "used"}, chat : Chats, expires : Nat]]
  /\ attempts \in Seq(Rows)
  /\ secret \in [Chats \X Schools -> Accounts \cup {Nobody}]
  /\ connection \in [Chats \X Schools -> Accounts \cup {Nobody}]
  /\ portal \in [Chats -> {"none", "active", "inactive"}]
  /\ pc \in [Requests -> Places] /\ form \in [Requests -> Forms \cup {NoForm}]
  /\ \A r \in Requests :
       IF pc[r] = "idle" THEN form[r] = NoForm
       ELSE /\ form[r] \in Forms
            /\ links[form[r].link] # Unissued
  /\ submitted \in Nat /\ faults \in 0..MaxFaults
  /\ uses \in [Links -> Nat]
  /\ torn \in SUBSET (Chats \X Schools)

Init ==
  /\ now = 0
  /\ links = [l \in Links |-> Unissued]
  /\ attempts = << >>
  /\ secret = [k \in Chats \X Schools |-> Nobody]
  /\ connection = [k \in Chats \X Schools |-> Nobody]
  /\ portal \in [Chats -> {"none", "active"}]
  /\ pc = [r \in Requests |-> "idle"]
  /\ form = [r \in Requests |-> NoForm]
  /\ submitted = 0 /\ faults = 0
  /\ uses = [l \in Links |-> 0]
  /\ torn = {}

(***************************************************************************)
(* The tables.                                                             *)
(***************************************************************************)

\* The key of the secret and of the connection of a request.
Key(r) == <<links[form[r].link].chat, form[r].school>>

\* get_active_onboarding_session: unused and not expired.
Active(l) == links[l].state = "open" /\ links[l].expires > now

\* validate_moodle_connect_form, and the look-up of the school by its name
\* among those the instance admits.
Filled(f) == f.complete
Resolvable(f) == f.school \in AllowedSchools

\* The plan of a UOS school bundles the portal with the online class.
Bundled(f) == f.school \in UosSchools

\* upsert_lms_browser_session and mark_lms_browser_session_inactive, which
\* leaves a chat without a row as it is.
Opened(c) == [portal EXCEPT ![c] = "active"]
Deactivated(c) == [portal EXCEPT ![c] = IF @ = "none" THEN "none" ELSE "inactive"]

\* Rows that a count of the window [now - Window, now] sees.
Recent == {i \in DOMAIN attempts : attempts[i].at >= now - Window}
FailedOfLink(l) ==
  Cardinality({i \in Recent : attempts[i].link = l /\ attempts[i].status = "failed"})
FailedOfRemote(q) ==
  Cardinality({i \in Recent : attempts[i].remote = q /\ attempts[i].status = "failed"})
TotalOfRemote(q) ==
  Cardinality({i \in Recent : attempts[i].remote = q})

\* record_auth_attempt appends a row for the request of r.
RecordAttempt(r, status) ==
  attempts' = Append(attempts, [link |-> form[r].link, remote |-> form[r].remote,
                                status |-> status, at |-> now])

Goto(r, place) == pc' = [pc EXCEPT ![r] = place]

\* The thread answers its client and ends.
Answer(r) == Goto(r, "idle") /\ form' = [form EXCEPT ![r] = NoForm]

(***************************************************************************)
(* Around the server.                                                      *)
(***************************************************************************)

Tick ==
  /\ now < MaxTime
  /\ now' = now + 1
  /\ UNCHANGED <<tables, pc, form, submitted, faults, history>>

\* /connect: a new link; older links of the chat stay as they are.
IssueLink(l, c) ==
  /\ links[l] = Unissued
  /\ links' = [links EXCEPT ![l] = [state |-> "open", chat |-> c, expires |-> now + Ttl]]
  /\ UNCHANGED <<now, attempts, secret, connection, portal, pc, form, submitted,
                 faults, history>>

\* `sidae onboarding browser-login`: an operator renews the portal session.
BrowserLogin(c) ==
  /\ portal' = Opened(c)
  /\ UNCHANGED <<now, links, attempts, secret, connection, pc, form, submitted,
                 faults, history>>

\* GET of the link: an expired or used link is refused without a row.
ViewForm(l, q) ==
  /\ submitted < MaxRows
  /\ links[l] # Unissued /\ Active(l)
  /\ attempts' = Append(attempts, [link |-> l, remote |-> q,
                                   status |-> "viewed", at |-> now])
  /\ submitted' = submitted + 1
  /\ UNCHANGED <<now, links, secret, connection, portal, pc, form, faults, history>>

(***************************************************************************)
(* complete_school_account_connect, one action per transaction.            *)
(***************************************************************************)

\* mutant: the lookup does not ask whether the link was used
LookupUsed(r, f) ==
  /\ pc[r] = "idle" /\ submitted < MaxRows
  /\ links[f.link] # Unissued /\ links[f.link].expires > now
  /\ form' = [form EXCEPT ![r] = f]
  /\ Goto(r, IF Filled(f) /\ Resolvable(f) THEN "countSession" ELSE "recordInvalid")
  /\ submitted' = submitted + 1
  /\ UNCHANGED <<now, tables, faults, history>>

Lookup(r, f) ==
  /\ pc[r] = "idle" /\ submitted < MaxRows
  /\ links[f.link] # Unissued /\ Active(f.link)
  /\ form' = [form EXCEPT ![r] = f]
  /\ Goto(r, IF Filled(f) /\ Resolvable(f) THEN "countSession" ELSE "recordInvalid")
  /\ submitted' = submitted + 1
  /\ UNCHANGED <<now, tables, faults, history>>

RecordInvalid(r) ==
  /\ pc[r] = "recordInvalid"
  /\ RecordAttempt(r, "invalid_request")
  /\ Answer(r)
  /\ UNCHANGED <<now, links, secret, connection, portal, submitted, faults, history>>

\* mutant: the limit itself is let through
CountSessionLate(r) ==
  /\ pc[r] = "countSession"
  /\ Goto(r, IF FailedOfLink(form[r].link) > MaxFailedPerSession THEN "recordBlocked"
             ELSE IF form[r].remote = NoRemote THEN "exchange"
             ELSE "countRemoteFailed")
  /\ UNCHANGED <<now, tables, form, submitted, faults, history>>

CountSession(r) ==
  /\ pc[r] = "countSession"
  /\ Goto(r, IF FailedOfLink(form[r].link) >= MaxFailedPerSession THEN "recordBlocked"
             ELSE IF form[r].remote = NoRemote THEN "exchange"
             ELSE "countRemoteFailed")
  /\ UNCHANGED <<now, tables, form, submitted, faults, history>>

CountRemoteFailed(r) ==
  /\ pc[r] = "countRemoteFailed"
  /\ Goto(r, IF FailedOfRemote(form[r].remote) >= MaxFailedPerRemote
             THEN "recordBlocked" ELSE "countRemoteTotal")
  /\ UNCHANGED <<now, tables, form, submitted, faults, history>>

CountRemoteTotal(r) ==
  /\ pc[r] = "countRemoteTotal"
  /\ Goto(r, IF TotalOfRemote(form[r].remote) >= MaxTotalPerRemote
             THEN "recordBlocked" ELSE "exchange")
  /\ UNCHANGED <<now, tables, form, submitted, faults, history>>

RecordBlocked(r) ==
  /\ pc[r] = "recordBlocked"
  /\ RecordAttempt(r, "blocked")
  /\ Answer(r)
  /\ UNCHANGED <<now, links, secret, connection, portal, submitted, faults, history>>

\* mutant: the link is marked before the connection is written
ExchangeAndMark(r) ==
  /\ pc[r] = "exchange"
  /\ \/ /\ form[r].right /\ Goto(r, "store")
        /\ links' = [links EXCEPT ![form[r].link].state = "used"]
     \/ Goto(r, "recordFailed") /\ UNCHANGED links
  /\ UNCHANGED <<now, attempts, secret, connection, portal, form, submitted, faults, history>>

\* The remote login: a wrong password fails, a right one may.
Exchange(r) ==
  /\ pc[r] = "exchange"
  /\ \/ form[r].right /\ Goto(r, "store")
     \/ Goto(r, "recordFailed")
  /\ UNCHANGED <<now, tables, form, submitted, faults, history>>

\* Other requests that stored a token under this key and still owe the row.
Overlapping(r) == {q \in Requests \ {r} : pc[q] = "upsert" /\ Key(q) = Key(r)}

\* store_secret replaces what is under the key of the chat and the school.
StoreSecret(r) ==
  /\ pc[r] = "store"
  /\ secret' = [secret EXCEPT ![Key(r)] = form[r].account]
  /\ torn' = IF Overlapping(r) = {} THEN torn \ {Key(r)} ELSE torn \cup {Key(r)}
  /\ Goto(r, "upsert")
  /\ UNCHANGED <<now, links, attempts, connection, portal, form, submitted, faults, uses>>


UpsertConnection(r) ==
  /\ pc[r] = "upsert"
  /\ connection' = [connection EXCEPT ![Key(r)] = form[r].account]
  /\ Goto(r, IF Bundled(form[r]) THEN "deactivate" ELSE "markUsed")
  /\ UNCHANGED <<now, links, attempts, secret, portal, form, submitted, faults, history>>

\* The bundled portal is read through the official API only: its browser
\* session, if there is one, is switched off and its profile removed.
DeactivatePortal(r) ==
  /\ pc[r] = "deactivate"
  /\ portal' = Deactivated(Key(r)[1])
  /\ Goto(r, "markUsed")
  /\ UNCHANGED <<now, links, attempts, secret, connection, form, submitted, faults, history>>

\* mark_onboarding_session_used: by id, whatever the row says by then.
MarkUsed(r) ==
  /\ pc[r] = "markUsed"
  /\ links' = [links EXCEPT ![form[r].link].state = "used"]
  /\ uses' = [uses EXCEPT ![form[r].link] = @ + 1]
  /\ Goto(r, "recordSuccess")
  /\ UNCHANGED <<now, attempts, secret, connection, portal, form, submitted, faults, torn>>

RecordSuccess(r) ==
  /\ pc[r] = "recordSuccess"
  /\ RecordAttempt(r, "success")
  /\ Goto(r, "respond")
  /\ UNCHANGED <<now, links, secret, connection, portal, form, submitted, faults, history>>

\* The completion message, whose failure is swallowed, and the answer.
Respond(r) ==
  /\ pc[r] = "respond"
  /\ Answer(r)
  /\ UNCHANGED <<now, tables, submitted, faults, history>>

RecordFailed(r) ==
  /\ pc[r] = "recordFailed"
  /\ RecordAttempt(r, "failed")
  /\ Answer(r)
  /\ UNCHANGED <<now, links, secret, connection, portal, submitted, faults, history>>

\* What a request leaves behind that ends between the token and the row.
TornBy(r) == IF pc[r] = "upsert" THEN {Key(r)} ELSE {}

\* A step of the try block raises: the attempt is recorded as failed.
Raise(r) ==
  /\ faults < MaxFaults /\ pc[r] \in Guarded \ {"exchange"}
  /\ torn' = torn \cup TornBy(r)
  /\ Goto(r, "recordFailed")
  /\ faults' = faults + 1
  /\ UNCHANGED <<now, tables, form, submitted, uses>>

\* A step outside of it raises: the thread ends without an answer.
Drop(r) ==
  /\ faults < MaxFaults /\ pc[r] \in Unguarded
  /\ Answer(r)
  /\ faults' = faults + 1
  /\ UNCHANGED <<now, tables, submitted, history>>

\* The server is killed with all its threads and started again by launchd.
Crash ==
  /\ faults < MaxFaults /\ \E r \in Requests : pc[r] # "idle"
  /\ pc' = [r \in Requests |-> "idle"]
  /\ form' = [r \in Requests |-> NoForm]
  /\ torn' = torn \cup UNION {TornBy(r) : r \in Requests}
  /\ faults' = faults + 1
  /\ UNCHANGED <<now, tables, submitted, uses>>

Serve(r) ==
  \/ \E f \in Forms : Lookup(r, f)
  \/ RecordInvalid(r) \/ CountSession(r) \/ CountRemoteFailed(r)
  \/ CountRemoteTotal(r) \/ RecordBlocked(r) \/ Exchange(r)
  \/ StoreSecret(r) \/ UpsertConnection(r) \/ DeactivatePortal(r)
  \/ MarkUsed(r) \/ RecordSuccess(r) \/ Respond(r) \/ RecordFailed(r)
  \/ Raise(r) \/ Drop(r)

Next ==
  \/ Tick
  \/ \E l \in Links, c \in Chats : IssueLink(l, c)
  \/ \E c \in Chats : BrowserLogin(c)
  \/ \E l \in Links, q \in Remotes \cup {NoRemote} : ViewForm(l, q)
  \/ \E r \in Requests : Serve(r)
  \/ Crash

Spec == Init /\ [][Next]_vars

(***************************************************************************)
(* Properties.                                                             *)
(***************************************************************************)

\* The limits are compared before the login and the attempt is recorded after
\* it, so requests in flight together pass a limit together.  The overshoot is
\* one per other thread and no more: within any window a link has at most
\* MaxFailedPerSession - 1 + |Requests| failed attempts, and a remote address
\* as many failed, or failed and successful, ones as its limits say.
Tried(q) == {i \in Recent : attempts[i].remote = q
                            /\ attempts[i].status \in {"failed", "success"}}
AttemptsLimited ==
  LET slack == Cardinality(Requests) - 1
  IN  /\ \A l \in Links : FailedOfLink(l) <= MaxFailedPerSession + slack
      /\ \A q \in Remotes :
           /\ FailedOfRemote(q) <= MaxFailedPerRemote + slack
           /\ Cardinality(Tried(q)) <= MaxTotalPerRemote + slack

\* A used link is found by no later lookup, so it is used again only by the
\* requests that had looked it up already: never more often than there are
\* threads, although nothing is locked during the login.
LinkReuseBounded == \A l \in Links : uses[l] <= Cardinality(Requests)

\* The account that a connection names is the one whose token is stored,
\* unless two requests for that chat and school overlapped between token and
\* row, or one of them ended there.  While a request owes the row, its own
\* token is the stored one.
Settled(k) == \A r \in Requests : pc[r] = "upsert" => Key(r) # k
TokenOfAccount ==
  \A k \in Chats \X Schools :
    k \notin torn /\ Settled(k) => connection[k] = secret[k]

\* A link is marked used only when the chat has got its connection, and the
\* user is told of a success only when link, row and token are there: a
\* failure at any point leaves a link that still works, never a used link
\* without a connection, and no connection with the token of another account.
UsedLinkConnected ==
  /\ TypeOK
  /\ TokenOfAccount
  /\ \A l \in Links : links[l].state = "used" =>
       \E s \in Schools : connection[<<links[l].chat, s>>] # Nobody
  /\ \A r \in Requests : pc[r] = "respond" =>
       /\ links[form[r].link].state = "used"
       /\ connection[Key(r)] # Nobody /\ secret[Key(r)] # Nobody
=============================================================================
