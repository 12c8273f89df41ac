--------------------------- MODULE OnboardingProofs ---------------------------
(***************************************************************************)
(* The onboarding server for any number of threads, links, chats, schools  *)
(* and accounts, any limits and windows, and any number of requests and    *)
(* faults: the limits hold but for one attempt of every other thread, a    *)
(* link is used at most once per thread, and a used link has its           *)
(* connection, with the token of the account it names.                     *)
(***************************************************************************)
EXTENDS Onboarding, FiniteSetTheorems, SequenceTheorems, TLAPS

-----------------------------------------------------------------------------
(* Types                                                                    *)

\* Every request is somewhere, and has a form exactly when it is under way.
FormsInPlace ==
  /\ form \in [Requests -> Forms \union {NoForm}]
  /\ \A r \in Requests :
       IF pc[r] = "idle" THEN form[r] = NoForm
       ELSE form[r] \in Forms /\ links[form[r].link] # Unissued

\* Links change when they are issued or marked used only.
LEMMA LinkChanges ==
  ASSUME [Next]_vars
  PROVE  \/ UNCHANGED links
         \/ \E l \in Links, c \in Chats : IssueLink(l, c)
         \/ \E r \in Requests : MarkUsed(r)
BY DEF Next, Serve, Tick, BrowserLogin, ViewForm, Lookup, RecordInvalid, CountSession, CountRemoteFailed,
       CountRemoteTotal, RecordBlocked, Exchange, StoreSecret, UpsertConnection, DeactivatePortal,
       RecordSuccess, Respond, RecordFailed, Raise, Drop, Crash, tables, vars

\* An issued link stays issued, to the chat that asked for it, and used once
\* used; it becomes used by a request only.
LEMMA LinksStay ==
  ASSUME TypeOK, [Next]_vars
  PROVE  /\ links' \in [Links -> {Unissued} \union
                          [state : {"open", "used"}, chat : Chats, expires : Nat]]
         /\ \A l \in Links :
              /\ links[l] # Unissued => links'[l] # Unissued /\ links'[l].chat = links[l].chat
              /\ links[l].state = "used" => links'[l].state = "used"
              /\ links'[l].state = "used" =>
                   \/ links[l].state = "used"
                   \/ \E r \in Requests : MarkUsed(r) /\ form[r].link = l
<1>1. links \in [Links -> {Unissued} \union [state : {"open", "used"}, chat : Chats, expires : Nat]]
  BY DEF TypeOK
<1>2. CASE UNCHANGED links
  BY <1>1, <1>2
<1>3. ASSUME NEW l \in Links, NEW c \in Chats, IssueLink(l, c)
      PROVE  /\ links' \in [Links -> {Unissued} \union
                              [state : {"open", "used"}, chat : Chats, expires : Nat]]
             /\ \A m \in Links : m # l => links'[m] = links[m]
             /\ links[l] = Unissued /\ links'[l].state = "open"
  <2>1. /\ links' = [links EXCEPT ![l] = [state |-> "open", chat |-> c, expires |-> now + Ttl]]
        /\ links[l] = Unissued /\ now + Ttl \in Nat
    BY <1>3, ConstantsAssumption DEF IssueLink, TypeOK
  <2> QED BY <1>1, <2>1
<1>4. ASSUME NEW r \in Requests, MarkUsed(r)
      PROVE  /\ links' \in [Links -> {Unissued} \union
                              [state : {"open", "used"}, chat : Chats, expires : Nat]]
             /\ form[r].link \in Links /\ links[form[r].link] # Unissued
             /\ \A m \in Links : m # form[r].link => links'[m] = links[m]
             /\ links'[form[r].link].state = "used" /\ links'[form[r].link] # Unissued
             /\ links'[form[r].link].chat = links[form[r].link].chat
  <2> DEFINE l == form[r].link
  <2>1. l \in Links /\ links[l] # Unissued
    BY <1>4 DEF MarkUsed, TypeOK, Forms
  <2>2. links[l] \in [state : {"open", "used"}, chat : Chats, expires : Nat]
    BY <1>1, <2>1
  <2>3. links' = [links EXCEPT ![l].state = "used"]
    BY <1>4 DEF MarkUsed
  <2> HIDE DEF l
  <2>4. links'[l] = [links[l] EXCEPT !.state = "used"] /\ \A m \in Links : m # l => links'[m] = links[m]
    BY <1>1, <2>1, <2>3
  <2>5. /\ links'[l] \in [state : {"open", "used"}, chat : Chats, expires : Nat]
        /\ links'[l].state = "used" /\ links'[l].chat = links[l].chat
    BY <2>2, <2>4
  <2>6. links'[l] # Unissued
    BY <2>5 DEF Unissued
  <2>7. links' \in [Links -> {Unissued} \union [state : {"open", "used"}, chat : Chats, expires : Nat]]
    BY <1>1, <2>1, <2>3, <2>5
  <2> QED BY <2>1, <2>4, <2>5, <2>6, <2>7 DEF l
<1>5. Unissued.state = "none"
  BY DEF Unissued
<1>6. CASE \E l \in Links, c \in Chats : IssueLink(l, c)
  BY <1>3, <1>5, <1>6
<1>7. CASE \E r \in Requests : MarkUsed(r)
  BY <1>4, <1>7
<1> QED BY <1>2, <1>6, <1>7, LinkChanges

\* What a step does to the place and the form of the requests.
LEMMA RequestMoves ==
  ASSUME TypeOK, [Next]_vars
  PROVE  pc' \in [Requests -> Places] /\ FormsInPlace'
<1> USE DEF Places, Guarded, Unguarded
<1>1. /\ pc \in [Requests -> Places] /\ FormsInPlace
      /\ \A r \in Requests : pc[r] # "idle" => form[r].link \in Links
  BY DEF TypeOK, FormsInPlace, Forms
<1>2. \A l \in Links : links[l] # Unissued => links'[l] # Unissued
  BY LinksStay
<1>3. CASE UNCHANGED <<pc, form>>
  BY <1>1, <1>2, <1>3 DEF FormsInPlace
<1>4. ASSUME NEW r \in Requests, NEW place \in Places \ {"idle"}, pc[r] # "idle",
             Goto(r, place), UNCHANGED form
      PROVE  pc' \in [Requests -> Places] /\ FormsInPlace'
  BY <1>1, <1>2, <1>4 DEF FormsInPlace, Goto
<1>5. ASSUME NEW r \in Requests, Answer(r) PROVE pc' \in [Requests -> Places] /\ FormsInPlace'
  <2>1. pc' = [pc EXCEPT ![r] = "idle"] /\ form' = [form EXCEPT ![r] = NoForm]
    BY <1>5 DEF Answer, Goto
  <2>2. pc' \in [Requests -> Places] /\ form' \in [Requests -> Forms \union {NoForm}]
    BY <1>1, <2>1 DEF FormsInPlace
  <2>3. ASSUME NEW q \in Requests
        PROVE IF pc'[q] = "idle" THEN form'[q] = NoForm
              ELSE form'[q] \in Forms /\ links'[form'[q].link] # Unissued
    BY <1>1, <1>2, <2>1 DEF FormsInPlace
  <2> QED BY <2>2, <2>3 DEF FormsInPlace
<1>6. ASSUME NEW r \in Requests, NEW f \in Forms, Lookup(r, f)
      PROVE pc' \in [Requests -> Places] /\ FormsInPlace'
  <2>1. /\ form' = [form EXCEPT ![r] = f] /\ links[f.link] # Unissued /\ f.link \in Links
        /\ \E place \in {"countSession", "recordInvalid"} : pc' = [pc EXCEPT ![r] = place]
    BY <1>6 DEF Lookup, Forms, Goto
  <2>2. /\ pc' \in [Requests -> Places] /\ pc'[r] # "idle"
        /\ form' \in [Requests -> Forms \union {NoForm}] /\ form'[r] = f
    BY <1>1, <2>1 DEF FormsInPlace
  <2>3. ASSUME NEW q \in Requests
        PROVE IF pc'[q] = "idle" THEN form'[q] = NoForm
              ELSE form'[q] \in Forms /\ links'[form'[q].link] # Unissued
    <3>1. CASE q = r
      BY <1>2, <2>1, <2>2, <3>1
    <3>2. CASE q # r
      BY <1>1, <1>2, <2>1, <3>2 DEF FormsInPlace
    <3> QED BY <3>1, <3>2
  <2> QED BY <2>2, <2>3 DEF FormsInPlace
<1>7. CASE Crash
  BY <1>7 DEF Crash, FormsInPlace
<1>8. ASSUME NEW r \in Requests, Serve(r) PROVE pc' \in [Requests -> Places] /\ FormsInPlace'
  <2>1. CASE \E f \in Forms : Lookup(r, f)
    BY <1>6, <2>1
  <2>2. CASE RecordInvalid(r) \/ RecordBlocked(r) \/ Respond(r) \/ RecordFailed(r) \/ Drop(r)
    BY <1>5, <2>2 DEF RecordInvalid, RecordBlocked, Respond, RecordFailed, Drop
  <2>3. CASE \/ CountSession(r) \/ CountRemoteFailed(r) \/ CountRemoteTotal(r) \/ Exchange(r)
             \/ StoreSecret(r) \/ UpsertConnection(r) \/ DeactivatePortal(r) \/ MarkUsed(r)
             \/ RecordSuccess(r) \/ Raise(r)
    BY <1>4, <2>3 DEF CountSession, CountRemoteFailed, CountRemoteTotal, Exchange, StoreSecret,
                      UpsertConnection, DeactivatePortal, MarkUsed, RecordSuccess, Raise
  <2> QED BY <1>8, <2>1, <2>2, <2>3 DEF Serve
<1> QED BY <1>3, <1>7, <1>8 DEF Next, Tick, IssueLink, BrowserLogin, ViewForm, vars

\* Every step keeps the attempts, the token and the connection typed.
LEMMA TablesStayTyped ==
  ASSUME TypeOK, [Next]_vars
  PROVE  /\ attempts' \in Seq(Rows)
         /\ secret' \in [Chats \X Schools -> Accounts \union {Nobody}]
         /\ connection' \in [Chats \X Schools -> Accounts \union {Nobody}]
         /\ portal' \in [Chats -> {"none", "active", "inactive"}]
         /\ uses' \in [Links -> Nat] /\ torn' \in SUBSET (Chats \X Schools)
         /\ now' \in 0 .. MaxTime /\ submitted' \in Nat /\ faults' \in 0 .. MaxFaults
<1>1. /\ attempts \in Seq(Rows) /\ now \in 0 .. MaxTime
      /\ portal \in [Chats -> {"none", "active", "inactive"}]
      /\ secret \in [Chats \X Schools -> Accounts \union {Nobody}]
      /\ connection \in [Chats \X Schools -> Accounts \union {Nobody}]
      /\ uses \in [Links -> Nat] /\ torn \in SUBSET (Chats \X Schools)
      /\ submitted \in Nat /\ faults \in 0 .. MaxFaults
  BY DEF TypeOK
<1>2. ASSUME NEW r \in Requests, pc[r] # "idle"
      PROVE  /\ form[r] \in Forms /\ form[r].link \in Links /\ Key(r) \in Chats \X Schools
             /\ form[r].account \in Accounts
             /\ form[r].remote \in Remotes \union {NoRemote} /\ Key(r)[1] \in Chats
  <2>1. form[r] \in Forms /\ links[form[r].link] # Unissued
    BY <1>2 DEF TypeOK
  <2>2. /\ form[r].link \in Links /\ form[r].school \in Schools /\ form[r].account \in Accounts
        /\ form[r].remote \in Remotes \union {NoRemote}
    BY <2>1 DEF Forms
  <2>3. links[form[r].link].chat \in Chats
    BY <2>1, <2>2 DEF TypeOK
  <2> QED BY <2>1, <2>2, <2>3 DEF Key
<1>3. MaxTime \in Nat /\ MaxFaults \in Nat
  BY ConstantsAssumption
<1>4. attempts' \in Seq(Rows)
  <2>1. ASSUME NEW r \in Requests, pc[r] # "idle", NEW status \in Statuses, RecordAttempt(r, status)
        PROVE  attempts' \in Seq(Rows)
    <3>1. [link |-> form[r].link, remote |-> form[r].remote, status |-> status, at |-> now] \in Rows
      BY <1>1, <1>2, <2>1 DEF Rows
    <3> QED BY <1>1, <2>1, <3>1, AppendProperties DEF RecordAttempt
  <2>2. ASSUME NEW l \in Links, NEW q \in Remotes \union {NoRemote}, ViewForm(l, q)
        PROVE  attempts' \in Seq(Rows)
    <3>1. [link |-> l, remote |-> q, status |-> "viewed", at |-> now] \in Rows
      BY <1>1 DEF Rows, Statuses
    <3> QED BY <1>1, <2>2, <3>1, AppendProperties DEF ViewForm
  <2> QED
    BY <1>1, <2>1, <2>2
       DEF Next, Serve, Tick, IssueLink, BrowserLogin, Lookup, RecordInvalid, CountSession,
           CountRemoteFailed, CountRemoteTotal, RecordBlocked, Exchange, StoreSecret, UpsertConnection,
           DeactivatePortal, MarkUsed, RecordSuccess, Respond, RecordFailed, Raise, Drop, Crash, tables,
           vars, Statuses
<1>5. secret' \in [Chats \X Schools -> Accounts \union {Nobody}]
  <2>1. ASSUME NEW r \in Requests, StoreSecret(r) PROVE secret' \in [Chats \X Schools -> Accounts \union {Nobody}]
    BY <1>1, <1>2, <2>1 DEF StoreSecret
  <2> QED
    BY <1>1, <2>1
       DEF Next, Serve, Tick, IssueLink, BrowserLogin, ViewForm, Lookup, RecordInvalid, CountSession,
           CountRemoteFailed, CountRemoteTotal, RecordBlocked, Exchange, UpsertConnection,
           DeactivatePortal, MarkUsed, RecordSuccess, Respond, RecordFailed, Raise, Drop, Crash, tables, vars
<1>6. connection' \in [Chats \X Schools -> Accounts \union {Nobody}]
  <2>1. ASSUME NEW r \in Requests, UpsertConnection(r)
        PROVE  connection' \in [Chats \X Schools -> Accounts \union {Nobody}]
    BY <1>1, <1>2, <2>1 DEF UpsertConnection
  <2> QED
    BY <1>1, <2>1
       DEF Next, Serve, Tick, IssueLink, BrowserLogin, ViewForm, Lookup, RecordInvalid, CountSession,
           CountRemoteFailed, CountRemoteTotal, RecordBlocked, Exchange, StoreSecret,
           DeactivatePortal, MarkUsed, RecordSuccess, Respond, RecordFailed, Raise, Drop, Crash, tables, vars
<1>7. portal' \in [Chats -> {"none", "active", "inactive"}]
  <2>1. ASSUME NEW c \in Chats PROVE /\ Opened(c) \in [Chats -> {"none", "active", "inactive"}]
                                     /\ Deactivated(c) \in [Chats -> {"none", "active", "inactive"}]
    BY <1>1, <2>1 DEF Opened, Deactivated
  <2>2. ASSUME NEW r \in Requests, DeactivatePortal(r)
        PROVE  portal' \in [Chats -> {"none", "active", "inactive"}]
    BY <1>2, <2>1, <2>2 DEF DeactivatePortal
  <2>3. ASSUME NEW c \in Chats, BrowserLogin(c)
        PROVE  portal' \in [Chats -> {"none", "active", "inactive"}]
    BY <2>1, <2>3 DEF BrowserLogin
  <2>4. CASE UNCHANGED portal
    BY <1>1, <2>4
  <2> QED
    BY <2>2, <2>3, <2>4
       DEF Next, Serve, Tick, IssueLink, ViewForm, Lookup, RecordInvalid, CountSession,
           CountRemoteFailed, CountRemoteTotal, RecordBlocked, Exchange, StoreSecret, UpsertConnection,
           MarkUsed, RecordSuccess, Respond, RecordFailed, Raise, Drop, Crash, tables, vars
<1>8. uses' \in [Links -> Nat]
  <2>1. ASSUME NEW r \in Requests, MarkUsed(r) PROVE uses' \in [Links -> Nat]
    BY <1>1, <1>2, <2>1 DEF MarkUsed
  <2> QED
    BY <1>1, <2>1
       DEF Next, Serve, Tick, IssueLink, BrowserLogin, ViewForm, Lookup, RecordInvalid, CountSession,
           CountRemoteFailed, CountRemoteTotal, RecordBlocked, Exchange, StoreSecret, UpsertConnection,
           DeactivatePortal, RecordSuccess, Respond, RecordFailed, Raise, Drop, Crash, history, vars
<1>9. torn' \in SUBSET (Chats \X Schools)
  <2>1. ASSUME NEW r \in Requests PROVE TornBy(r) \subseteq Chats \X Schools
    BY <1>2 DEF TornBy
  <2>2. UNION {TornBy(r) : r \in Requests} \subseteq Chats \X Schools
    BY <2>1
  <2>3. ASSUME NEW r \in Requests, StoreSecret(r) PROVE torn' \in SUBSET (Chats \X Schools)
    BY <1>1, <1>2, <2>3 DEF StoreSecret
  <2>4. ASSUME NEW r \in Requests, Raise(r) PROVE torn' \in SUBSET (Chats \X Schools)
    BY <1>1, <2>1, <2>4 DEF Raise
  <2>5. CASE Crash
    BY <1>1, <2>2, <2>5 DEF Crash
  <2>6. CASE torn' = torn
    BY <1>1, <2>6
  <2> QED
    BY <2>3, <2>4, <2>5, <2>6
       DEF Next, Serve, Tick, IssueLink, BrowserLogin, ViewForm, Lookup, RecordInvalid, CountSession,
           CountRemoteFailed, CountRemoteTotal, RecordBlocked, Exchange, UpsertConnection,
           DeactivatePortal, MarkUsed, RecordSuccess, Respond, RecordFailed, Drop, history, vars
<1>10. now' \in 0 .. MaxTime /\ submitted' \in Nat /\ faults' \in 0 .. MaxFaults
  <2>1. now' = now \/ (now < MaxTime /\ now' = now + 1)
    BY DEF Next, Serve, Tick, IssueLink, BrowserLogin, ViewForm, Lookup, RecordInvalid, CountSession,
           CountRemoteFailed, CountRemoteTotal, RecordBlocked, Exchange, StoreSecret, UpsertConnection,
           DeactivatePortal, MarkUsed, RecordSuccess, Respond, RecordFailed, Raise, Drop, Crash, vars
  <2>2. submitted' = submitted \/ submitted' = submitted + 1
    BY DEF Next, Serve, Tick, IssueLink, BrowserLogin, ViewForm, Lookup, RecordInvalid, CountSession,
           CountRemoteFailed, CountRemoteTotal, RecordBlocked, Exchange, StoreSecret, UpsertConnection,
           DeactivatePortal, MarkUsed, RecordSuccess, Respond, RecordFailed, Raise, Drop, Crash, vars
  <2>3. faults' = faults \/ (faults < MaxFaults /\ faults' = faults + 1)
    BY DEF Next, Serve, Tick, IssueLink, BrowserLogin, ViewForm, Lookup, RecordInvalid, CountSession,
           CountRemoteFailed, CountRemoteTotal, RecordBlocked, Exchange, StoreSecret, UpsertConnection,
           DeactivatePortal, MarkUsed, RecordSuccess, Respond, RecordFailed, Raise, Drop, Crash, vars
  <2> QED BY <1>1, <1>3, <2>1, <2>2, <2>3
<1> QED BY <1>4, <1>5, <1>6, <1>7, <1>8, <1>9, <1>10

\* The tables, the places and the forms have their types.
THEOREM TypeCorrect == Spec => []TypeOK
<1>1. Init => TypeOK
  <2> SUFFICES ASSUME Init PROVE TypeOK
    OBVIOUS
  <2>1. attempts \in Seq(Rows)
    BY EmptySeq DEF Init
  <2>2. now \in 0 .. MaxTime /\ faults \in 0 .. MaxFaults /\ submitted \in Nat
    BY ConstantsAssumption DEF Init
  <2>3. /\ pc \in [Requests -> Places] /\ form \in [Requests -> Forms \union {NoForm}]
        /\ \A r \in Requests : pc[r] = "idle" /\ form[r] = NoForm
    BY DEF Init, Places
  <2>4. portal \in [Chats -> {"none", "active", "inactive"}]
    BY DEF Init
  <2>5. /\ links \in [Links -> {Unissued} \union
                          [state : {"open", "used"}, chat : Chats, expires : Nat]]
        /\ secret \in [Chats \X Schools -> Accounts \union {Nobody}]
        /\ connection \in [Chats \X Schools -> Accounts \union {Nobody}]
        /\ uses \in [Links -> Nat] /\ torn \in SUBSET (Chats \X Schools)
    BY DEF Init
  <2> QED BY <2>1, <2>2, <2>3, <2>4, <2>5 DEF TypeOK
<1>2. TypeOK /\ [Next]_vars => TypeOK'
  BY LinksStay, RequestMoves, TablesStayTyped DEF TypeOK, FormsInPlace
<1> QED BY <1>1, <1>2, PTL DEF Spec

-----------------------------------------------------------------------------
(* The course of a request                                                  *)

\* The steps of a request that is under way and stays so.
Advance(r) ==
  \/ CountSession(r) \/ CountRemoteFailed(r) \/ CountRemoteTotal(r) \/ Exchange(r) \/ StoreSecret(r)
  \/ UpsertConnection(r) \/ DeactivatePortal(r) \/ MarkUsed(r) \/ RecordSuccess(r) \/ Raise(r)

\* A request that is under way after a step has just begun, or was under way
\* with the same form, and has stayed where it was or advanced.
LEMMA CourseOfRequest ==
  ASSUME TypeOK, [Next]_vars, NEW r \in Requests, pc'[r] # "idle"
  PROVE  \/ \E f \in Forms : Lookup(r, f) /\ form'[r] = f /\ pc'[r] \in {"countSession", "recordInvalid"}
         \/ /\ pc[r] # "idle" /\ form'[r] = form[r]
            /\ pc'[r] = pc[r] \/ Advance(r)
<1>1. pc \in [Requests -> Places] /\ form \in [Requests -> Forms \union {NoForm}]
  BY DEF TypeOK
<1>2. CASE UNCHANGED <<pc, form>>
  BY <1>2
<1>3. CASE Crash
  BY <1>3 DEF Crash
<1>4. ASSUME NEW q \in Requests, Serve(q), q # r
      PROVE  pc'[r] = pc[r] /\ form'[r] = form[r]
  <2>1. /\ \E place \in Places : pc' = [pc EXCEPT ![q] = place]
        /\ \E f \in Forms \union {NoForm} : form' = [form EXCEPT ![q] = f]
    <3>1. \/ UNCHANGED form
          \/ \E f \in Forms \union {NoForm} : form' = [form EXCEPT ![q] = f]
      BY <1>4
         DEF Serve, Lookup, RecordInvalid, CountSession, CountRemoteFailed, CountRemoteTotal, RecordBlocked,
             Exchange, StoreSecret, UpsertConnection, DeactivatePortal, MarkUsed, RecordSuccess, Respond,
             RecordFailed, Raise, Drop, Answer
    <3>2. UNCHANGED form => form' = [form EXCEPT ![q] = form[q]] /\ form[q] \in Forms \union {NoForm}
      BY <1>1
    <3>3. \E place \in Places : pc' = [pc EXCEPT ![q] = place]
      BY <1>4
         DEF Serve, Lookup, RecordInvalid, CountSession, CountRemoteFailed, CountRemoteTotal, RecordBlocked,
             Exchange, StoreSecret, UpsertConnection, DeactivatePortal, MarkUsed, RecordSuccess, Respond,
             RecordFailed, Raise, Drop, Answer, Goto, Places, Guarded, Unguarded
    <3> QED BY <3>1, <3>2, <3>3
  <2> QED BY <1>1, <1>4, <2>1
<1>5. ASSUME Serve(r)
      PROVE  \/ \E f \in Forms : Lookup(r, f) /\ form'[r] = f /\ pc'[r] \in {"countSession", "recordInvalid"}
             \/ pc[r] # "idle" /\ form'[r] = form[r] /\ Advance(r)
  <2>1. ASSUME NEW f \in Forms, Lookup(r, f)
        PROVE form'[r] = f /\ pc'[r] \in {"countSession", "recordInvalid"}
    BY <1>1, <2>1 DEF Lookup, Goto
  <2>2. ~Answer(r)
    BY <1>1 DEF Answer, Goto
  <2>3. CASE ~ \E f \in Forms : Lookup(r, f)
    <3>1. Advance(r)
      BY <1>5, <2>2, <2>3 DEF Serve, RecordInvalid, RecordBlocked, Respond, RecordFailed, Drop, Advance
    <3> QED
      BY <3>1
         DEF Advance, CountSession, CountRemoteFailed, CountRemoteTotal, Exchange, StoreSecret,
             UpsertConnection, DeactivatePortal, MarkUsed, RecordSuccess, Raise, Guarded
  <2> QED BY <2>1, <2>3
<1> QED BY <1>2, <1>3, <1>4, <1>5 DEF Next, Tick, IssueLink, BrowserLogin, ViewForm, vars

-----------------------------------------------------------------------------
(* A link is used at most once per thread                                   *)

\* The places from which a request may still mark its link.
MayMark == (Guarded \ {"recordSuccess"}) \union {"countSession", "countRemoteFailed", "countRemoteTotal"}
InFlight(l) == {r \in Requests : pc[r] \in MayMark /\ form[r].link = l}

\* A link that is not used was never marked; and its marks, with the requests
\* that may still mark it, are no more than the threads.
MarksBounded == \A l \in Links :
  /\ links[l].state # "used" => uses[l] = 0
  /\ uses[l] + Cardinality(InFlight(l)) <= Cardinality(Requests)

ReuseInv == TypeOK /\ MarksBounded

\* The requests in flight with a link are finitely many, no more than the threads.
LEMMA FlightIsFinite ==
  ASSUME NEW S \in SUBSET Requests
  PROVE  /\ IsFiniteSet(S) /\ Cardinality(S) \in Nat /\ Cardinality(Requests) \in Nat
         /\ Cardinality(S) <= Cardinality(Requests)
         /\ \A T \in SUBSET S : Cardinality(T) <= Cardinality(S)
         /\ \A r \in S : \A T \in SUBSET (S \ {r}) : Cardinality(T) + 1 <= Cardinality(S)
<1>1. IsFiniteSet(Requests)
  BY ConstantsAssumption
<1>2. IsFiniteSet(S) /\ Cardinality(S) <= Cardinality(Requests)
  BY <1>1, FS_Subset
<1>3. Cardinality(S) \in Nat /\ Cardinality(Requests) \in Nat
  BY <1>1, <1>2, FS_CardinalityType
<1>4. \A T \in SUBSET S : Cardinality(T) <= Cardinality(S)
  BY <1>2, FS_Subset
<1>5. ASSUME NEW r \in S, NEW T \in SUBSET (S \ {r}) PROVE Cardinality(T) + 1 <= Cardinality(S)
  <2>1. IsFiniteSet(S \ {r}) /\ Cardinality(S \ {r}) = Cardinality(S) - 1
    BY <1>2, FS_RemoveElement
  <2>2. Cardinality(T) <= Cardinality(S \ {r}) /\ IsFiniteSet(T)
    BY <2>1, FS_Subset
  <2>3. Cardinality(T) \in Nat
    BY <2>2, FS_CardinalityType
  <2> QED BY <1>3, <2>1, <2>2, <2>3
<1> QED BY <1>2, <1>3, <1>4, <1>5

\* Of the requests with a used link none comes to those that may mark it.
LEMMA FlightShrinks ==
  ASSUME TypeOK, [Next]_vars, NEW l \in Links, NEW r \in Requests,
         pc'[r] \in MayMark, form'[r].link = l,
         links[l].state = "used" \/ \E q \in Requests : MarkUsed(q)
  PROVE  pc[r] \in MayMark /\ form[r].link = l
<1> USE DEF MayMark, Guarded
<1>1. ASSUME NEW f \in Forms, Lookup(r, f), form'[r] = f PROVE FALSE
  <2>1. links[l].state = "open" /\ pc[r] = "idle" /\ UNCHANGED links
    BY <1>1 DEF Lookup, Active, tables
  <2>2. ASSUME NEW q \in Requests, MarkUsed(q) PROVE FALSE
    <3>1. /\ pc[q] = "markUsed" /\ pc' = [pc EXCEPT ![q] = "recordSuccess"] /\ UNCHANGED form
          /\ pc \in [Requests -> Places] /\ pc'[r] # "idle"
      BY <2>2 DEF MarkUsed, Goto, TypeOK
    <3>2. q # r
      BY <2>1, <3>1
    <3>3. pc'[r] = pc[r]
      BY <3>1, <3>2
    <3> QED BY <2>1, <3>1, <3>3
  <2> QED BY <2>1, <2>2
<1>2. pc[r] # "idle" /\ form'[r] = form[r] /\ (pc'[r] = pc[r] \/ Advance(r))
  BY <1>1, CourseOfRequest
<1>3. pc \in [Requests -> Places]
  BY DEF TypeOK
<1> QED
  BY <1>2, <1>3
     DEF Advance, CountSession, CountRemoteFailed, CountRemoteTotal, Exchange, StoreSecret,
         UpsertConnection, DeactivatePortal, MarkUsed, RecordSuccess, Raise, Goto

\* Marks are counted when a request marks its link.
LEMMA UsesCounted ==
  ASSUME [Next]_vars
  PROVE  UNCHANGED uses \/ \E r \in Requests : MarkUsed(r)
BY DEF Next, Serve, Tick, IssueLink, BrowserLogin, ViewForm, Lookup, RecordInvalid, CountSession,
       CountRemoteFailed, CountRemoteTotal, RecordBlocked, Exchange, StoreSecret, UpsertConnection,
       DeactivatePortal, RecordSuccess, Respond, RecordFailed, Raise, Drop, Crash, history, vars

\* Every step keeps the marks bounded.
LEMMA ReuseStep == ReuseInv /\ [Next]_vars => MarksBounded'
<1> SUFFICES ASSUME TypeOK, MarksBounded, [Next]_vars, NEW l \in Links
             PROVE  /\ links'[l].state # "used" => uses'[l] = 0
                    /\ uses'[l] + Cardinality(InFlight(l)') <= Cardinality(Requests)
  BY DEF ReuseInv, MarksBounded
<1> DEFINE S == InFlight(l)
           T == InFlight(l)'
           n == Cardinality(Requests)
<1>1. /\ links[l].state # "used" => uses[l] = 0
      /\ uses[l] + Cardinality(S) <= n
      /\ uses \in [Links -> Nat]
  BY DEF MarksBounded, TypeOK
<1>2. S \in SUBSET Requests /\ T \in SUBSET Requests
  BY DEF InFlight
<1>3. links[l].state = "used" \/ (\E q \in Requests : MarkUsed(q)) => T \subseteq S
  BY FlightShrinks DEF InFlight
<1>4. CASE UNCHANGED uses /\ links'[l].state # "used"
  <2>1. uses'[l] = 0
    BY <1>1, <1>4, LinksStay
  <2>2. Cardinality(T) \in Nat /\ Cardinality(T) <= n /\ n \in Nat
    <3> HIDE DEF S, T
    <3> QED BY <1>2, FlightIsFinite
  <2> QED BY <1>4, <2>1, <2>2
<1>5. CASE links[l].state = "used" /\ UNCHANGED uses
  <2>1. links'[l].state = "used" /\ T \in SUBSET S
    BY <1>3, <1>5, LinksStay
  <2>2. /\ Cardinality(T) \in Nat /\ Cardinality(S) \in Nat /\ n \in Nat
        /\ Cardinality(T) <= Cardinality(S)
    <3> HIDE DEF S, T
    <3> QED BY <1>2, <2>1, FlightIsFinite
  <2> QED BY <1>1, <1>5, <2>1, <2>2
<1>6. ASSUME NEW r \in Requests, MarkUsed(r)
      PROVE  /\ links'[l].state # "used" => uses'[l] = 0
             /\ uses'[l] + Cardinality(T) <= n
  <2>1. /\ pc[r] = "markUsed" /\ pc \in [Requests -> Places] /\ pc'[r] = "recordSuccess"
        /\ uses' = [uses EXCEPT ![form[r].link] = @ + 1]
        /\ links' = [links EXCEPT ![form[r].link].state = "used"]
        /\ form[r].link \in Links
    BY <1>6 DEF MarkUsed, Goto, TypeOK, Forms
  <2>2. T \in SUBSET S
    BY <1>3, <1>6
  <2>3. CASE form[r].link = l
    <3>1. r \in S /\ r \notin T
      BY <2>1, <2>3 DEF InFlight, MayMark, Guarded
    <3>2. T \in SUBSET (S \ {r})
      BY <2>2, <3>1
    <3>3. uses'[l] = uses[l] + 1
      BY <1>1, <2>1, <2>3
    <3>4. links'[l].state = "used"
      BY <2>1, <2>3 DEF TypeOK
    <3> HIDE DEF S, T
    <3>5. Cardinality(T) + 1 <= Cardinality(S) /\ Cardinality(S) \in Nat /\ Cardinality(Requests) \in Nat
      BY <1>2, <3>1, <3>2, FlightIsFinite
    <3>6. Cardinality(T) \in Nat
      BY <1>2, FlightIsFinite
    <3> QED BY <1>1, <3>3, <3>4, <3>5, <3>6
  <2>4. CASE form[r].link # l
    <3>1. uses'[l] = uses[l] /\ links'[l] = links[l]
      BY <1>1, <2>1, <2>4 DEF TypeOK
    <3> HIDE DEF S, T
    <3>2. /\ Cardinality(T) <= Cardinality(S) /\ Cardinality(S) \in Nat /\ Cardinality(T) \in Nat
          /\ Cardinality(Requests) \in Nat
      BY <1>2, <2>2, FlightIsFinite
    <3> QED BY <1>1, <3>1, <3>2
  <2> QED BY <2>3, <2>4
<1>7. CASE links[l].state # "used" /\ links'[l].state = "used" /\ UNCHANGED uses
  BY <1>6, <1>7, LinksStay
<1> QED BY <1>4, <1>5, <1>6, <1>7, UsesCounted

\* A link is marked used at most once by every thread: who has not looked it up
\* before its first use never gets to it (get_active_onboarding_session).
THEOREM LinksAreUsedOncePerThread == Spec => []LinkReuseBounded
<1>1. Init => MarksBounded
  <2> SUFFICES ASSUME Init, NEW l \in Links PROVE uses[l] + Cardinality(InFlight(l)) <= Cardinality(Requests)
    BY DEF Init, MarksBounded
  <2>1. uses[l] = 0 /\ InFlight(l) \in SUBSET Requests
    BY DEF Init, InFlight
  <2> QED BY <2>1, FlightIsFinite
<1>2. ASSUME TypeOK, MarksBounded, NEW l \in Links PROVE uses[l] <= Cardinality(Requests)
  <2>1. uses[l] \in Nat /\ InFlight(l) \in SUBSET Requests
    BY <1>2 DEF TypeOK, InFlight
  <2>2. Cardinality(InFlight(l)) \in Nat /\ Cardinality(Requests) \in Nat
    BY <2>1, FlightIsFinite
  <2> QED BY <1>2, <2>1, <2>2 DEF MarksBounded
<1>3. TypeOK /\ MarksBounded => LinkReuseBounded
  BY <1>2 DEF LinkReuseBounded
<1>4. TypeOK /\ MarksBounded /\ [Next]_vars => MarksBounded'
  BY ReuseStep DEF ReuseInv
<1> QED BY <1>1, <1>3, <1>4, TypeCorrect, PTL DEF Spec

-----------------------------------------------------------------------------
(* A used link has its connection, with the token of its account            *)

\* A request that owes the row and whose key is not torn has its token stored,
\* and is the only one at that key.
OwnToken == \A r \in Requests : pc[r] = "upsert" /\ Key(r) \notin torn =>
  /\ secret[Key(r)] = form[r].account
  /\ \A q \in Requests \ {r} : pc[q] = "upsert" => Key(q) # Key(r)

\* What a request has written when it is behind the token, the row, the mark.
HasToken == {"upsert", "deactivate", "markUsed", "recordSuccess", "respond"}
HasRow   == HasToken \ {"upsert"}
HasMark  == {"recordSuccess", "respond"}
Written == \A r \in Requests :
  /\ pc[r] \in HasToken => secret[Key(r)] # Nobody
  /\ pc[r] \in HasRow => connection[Key(r)] # Nobody
  /\ pc[r] \in HasMark => links[form[r].link].state = "used"

\* A used link has a connection of its chat.
Connected == \A l \in Links : links[l].state = "used" =>
  \E s \in Schools : connection[<<links[l].chat, s>>] # Nobody

TokenInv == TokenOfAccount /\ OwnToken /\ Written /\ Connected

\* The key of a request that is under way is one of a chat and a school.
LEMMA KeyIsKey ==
  ASSUME TypeOK, NEW r \in Requests, pc[r] # "idle"
  PROVE  /\ Key(r) \in Chats \X Schools /\ form[r].account \in Accounts
         /\ form[r].link \in Links /\ links[form[r].link] # Unissued
         /\ Key(r) = <<links[form[r].link].chat, form[r].school>> /\ form[r].school \in Schools
<1>1. form[r] \in Forms /\ links[form[r].link] # Unissued
  BY DEF TypeOK
<1>2. /\ form[r].link \in Links /\ form[r].school \in Schools /\ form[r].account \in Accounts
  BY <1>1 DEF Forms
<1>3. links[form[r].link].chat \in Chats
  BY <1>1, <1>2 DEF TypeOK
<1> QED BY <1>1, <1>2, <1>3 DEF Key

\* It stays, while the form does.
LEMMA KeyStays ==
  ASSUME TypeOK, [Next]_vars, NEW r \in Requests, pc[r] # "idle", form'[r] = form[r]
  PROVE  Key(r)' = Key(r)
<1>1. form[r].link \in Links /\ links[form[r].link] # Unissued
  BY KeyIsKey
<1>2. links'[form[r].link].chat = links[form[r].link].chat
  BY <1>1, LinksStay
<1> QED BY <1>2 DEF Key

\* Tokens are stored, and rows written, by requests only.
LEMMA TokenChanges ==
  ASSUME [Next]_vars
  PROVE  \/ \E r \in Requests : StoreSecret(r) \/ UpsertConnection(r)
         \/ UNCHANGED <<secret, connection>> /\ torn \subseteq torn'
BY DEF Next, Serve, Tick, IssueLink, BrowserLogin, ViewForm, Lookup, RecordInvalid, CountSession,
       CountRemoteFailed, CountRemoteTotal, RecordBlocked, Exchange, DeactivatePortal, MarkUsed,
       RecordSuccess, Respond, RecordFailed, Raise, Drop, Crash, tables, history, vars

\* A request that owes the row goes on owing it, writes it, or leaves its key torn.
LEMMA RowIsOwed ==
  ASSUME TypeOK, [Next]_vars, NEW r \in Requests, pc[r] = "upsert"
  PROVE  \/ pc'[r] = "upsert" /\ form'[r] = form[r]
         \/ UpsertConnection(r)
         \/ Key(r) \in torn'
<1>1. CASE pc'[r] # "idle"
  BY <1>1, CourseOfRequest
     DEF Lookup, Advance, CountSession, CountRemoteFailed, CountRemoteTotal, Exchange, StoreSecret,
         DeactivatePortal, MarkUsed, RecordSuccess, Raise, TornBy
<1>2. CASE Crash
  BY <1>2 DEF Crash, TornBy
<1>3. CASE pc'[r] = "idle" /\ ~Crash
  <2>1. pc \in [Requests -> Places]
    BY DEF TypeOK
  <2>2. ASSUME NEW q \in Requests, Serve(q), q # r PROVE pc'[r] = pc[r]
    BY <2>1, <2>2
       DEF Serve, Lookup, RecordInvalid, CountSession, CountRemoteFailed, CountRemoteTotal, RecordBlocked,
           Exchange, StoreSecret, UpsertConnection, DeactivatePortal, MarkUsed, RecordSuccess, Respond,
           RecordFailed, Raise, Drop, Answer, Goto
  <2>3. ASSUME Serve(r) PROVE UpsertConnection(r) \/ Key(r) \in torn'
    BY <2>3
       DEF Serve, Lookup, RecordInvalid, CountSession, CountRemoteFailed, CountRemoteTotal, RecordBlocked,
           Exchange, StoreSecret, DeactivatePortal, MarkUsed, RecordSuccess, Respond, RecordFailed, Raise,
           Drop, TornBy, Unguarded
  <2> QED BY <1>3, <2>2, <2>3 DEF Next, Tick, IssueLink, BrowserLogin, ViewForm, vars
<1> QED BY <1>1, <1>2, <1>3

\* A token that is stored is the request's own, and tears the key when another
\* request owes the row at it.
LEMMA StoreKeeps ==
  ASSUME TypeOK, TokenInv, NEW r \in Requests, StoreSecret(r)
  PROVE  TokenInv'
<1>1. /\ pc[r] = "store" /\ pc \in [Requests -> Places] /\ pc' = [pc EXCEPT ![r] = "upsert"]
      /\ secret' = [secret EXCEPT ![Key(r)] = form[r].account]
      /\ secret \in [Chats \X Schools -> Accounts \union {Nobody}]
      /\ torn' = IF Overlapping(r) = {} THEN torn \ {Key(r)} ELSE torn \union {Key(r)}
      /\ UNCHANGED <<links, form, connection>>
  BY DEF StoreSecret, Goto, TypeOK
<1>2. Key(r) \in Chats \X Schools /\ form[r].account \in Accounts /\ form[r].account # Nobody
  BY <1>1, KeyIsKey, ConstantsAssumption
<1>3. \A q \in Requests : Key(q)' = Key(q)
  BY <1>1 DEF Key
<1>4. /\ secret'[Key(r)] = form[r].account
      /\ \A k \in Chats \X Schools : k # Key(r) => secret'[k] = secret[k] /\ (k \in torn' <=> k \in torn)
  BY <1>1, <1>2
<1>5. \A q \in Requests : pc[q] # "idle" => Key(q) \in Chats \X Schools
  BY KeyIsKey
<1>6. TokenOfAccount'
  <2>1. SUFFICES ASSUME NEW k \in Chats \X Schools, k \notin torn', Settled(k)'
                 PROVE  connection'[k] = secret'[k]
    BY DEF TokenOfAccount
  <2>2. k # Key(r)
    BY <1>1, <1>3, <2>1 DEF Settled
  <2>3. Settled(k)
    BY <1>1, <1>3, <2>1 DEF Settled
  <2> QED BY <1>1, <1>4, <2>1, <2>2, <2>3 DEF TokenInv, TokenOfAccount
<1>7. OwnToken'
  <2>1. SUFFICES ASSUME NEW q \in Requests, pc'[q] = "upsert", Key(q) \notin torn'
                 PROVE  /\ secret'[Key(q)] = form[q].account
                        /\ \A p \in Requests \ {q} : pc'[p] = "upsert" => Key(p) # Key(q)
    BY <1>1, <1>3 DEF OwnToken
  <2>2. CASE q = r
    <3>1. Overlapping(r) = {}
      BY <1>1, <2>1, <2>2
    <3> QED BY <1>1, <1>4, <2>2, <3>1 DEF Overlapping
  <2>3. CASE q # r
    <3>1. pc[q] = "upsert"
      BY <1>1, <2>1, <2>3
    <3>2. Key(q) # Key(r)
      BY <1>1, <2>1, <2>3, <3>1 DEF Overlapping
    <3> QED BY <1>1, <1>4, <1>5, <2>1, <3>1, <3>2 DEF TokenInv, OwnToken
  <2> QED BY <2>2, <2>3
<1>8. Written'
  <2>1. SUFFICES ASSUME NEW q \in Requests
                 PROVE  /\ pc'[q] \in HasToken => secret'[Key(q)] # Nobody
                        /\ pc'[q] \in HasRow => connection[Key(q)] # Nobody
                        /\ pc'[q] \in HasMark => links[form[q].link].state = "used"
    BY <1>1, <1>3 DEF Written
  <2>2. CASE q = r
    BY <1>1, <1>2, <1>4, <2>2 DEF HasToken, HasRow, HasMark
  <2>3. CASE q # r
    BY <1>1, <1>2, <1>4, <1>5, <2>3 DEF TokenInv, Written, HasToken, HasRow
  <2> QED BY <2>2, <2>3
<1>9. Connected'
  BY <1>1 DEF TokenInv, Connected
<1> QED BY <1>6, <1>7, <1>8, <1>9 DEF TokenInv

\* A row that is written names the account of the token, unless the key is torn.
LEMMA UpsertKeeps ==
  ASSUME TypeOK, TokenInv, NEW r \in Requests, UpsertConnection(r)
  PROVE  TokenInv'
<1>1. /\ pc[r] = "upsert" /\ pc \in [Requests -> Places]
      /\ \E place \in {"deactivate", "markUsed"} : pc' = [pc EXCEPT ![r] = place]
      /\ connection' = [connection EXCEPT ![Key(r)] = form[r].account]
      /\ connection \in [Chats \X Schools -> Accounts \union {Nobody}]
      /\ UNCHANGED <<links, form, secret, torn>>
  BY DEF UpsertConnection, Goto, TypeOK, history
<1>2. Key(r) \in Chats \X Schools /\ form[r].account \in Accounts /\ form[r].account # Nobody
  BY <1>1, KeyIsKey, ConstantsAssumption
<1>3. \A q \in Requests : Key(q)' = Key(q)
  BY <1>1 DEF Key
<1>4. /\ connection'[Key(r)] = form[r].account
      /\ \A k \in Chats \X Schools : k # Key(r) => connection'[k] = connection[k]
      /\ \A k \in Chats \X Schools : connection[k] # Nobody => connection'[k] # Nobody
  BY <1>1, <1>2
<1>5. \A q \in Requests : pc[q] # "idle" => Key(q) \in Chats \X Schools
  BY KeyIsKey
<1>6. TokenOfAccount'
  <2>1. SUFFICES ASSUME NEW k \in Chats \X Schools, k \notin torn, Settled(k)'
                 PROVE  connection'[k] = secret[k]
    BY <1>1 DEF TokenOfAccount
  <2>2. CASE k = Key(r)
    BY <1>1, <1>4, <2>1, <2>2 DEF TokenInv, OwnToken
  <2>3. CASE k # Key(r)
    <3>1. Settled(k)
      BY <1>1, <1>3, <2>1, <2>3 DEF Settled
    <3> QED BY <1>4, <2>1, <2>3, <3>1 DEF TokenInv, TokenOfAccount
  <2> QED BY <2>2, <2>3
<1>7. OwnToken'
  <2>1. SUFFICES ASSUME NEW q \in Requests, pc'[q] = "upsert", Key(q) \notin torn
                 PROVE  /\ secret[Key(q)] = form[q].account
                        /\ \A p \in Requests \ {q} : pc'[p] = "upsert" => Key(p) # Key(q)
    BY <1>1, <1>3 DEF OwnToken
  <2>2. \A p \in Requests : pc'[p] = "upsert" => pc[p] = "upsert"
    BY <1>1
  <2> QED BY <2>1, <2>2 DEF TokenInv, OwnToken
<1>8. Written'
  <2>1. SUFFICES ASSUME NEW q \in Requests
                 PROVE  /\ pc'[q] \in HasToken => secret[Key(q)] # Nobody
                        /\ pc'[q] \in HasRow => connection'[Key(q)] # Nobody
                        /\ pc'[q] \in HasMark => links[form[q].link].state = "used"
    BY <1>1, <1>3 DEF Written
  <2>2. CASE q = r
    BY <1>1, <1>2, <1>4, <2>2 DEF TokenInv, Written, HasToken, HasRow, HasMark
  <2>3. CASE q # r
    BY <1>1, <1>4, <1>5, <2>3 DEF TokenInv, Written, HasToken, HasRow
  <2> QED BY <2>2, <2>3
<1>9. Connected'
  <2>1. ASSUME NEW l \in Links, links[l].state = "used"
        PROVE  \E s \in Schools : connection'[<<links[l].chat, s>>] # Nobody
    <3>1. PICK s \in Schools : connection[<<links[l].chat, s>>] # Nobody
      BY <2>1 DEF TokenInv, Connected
    <3>2. links[l].chat \in Chats
      BY <2>1 DEF TypeOK, Unissued
    <3> QED BY <1>4, <3>1, <3>2
  <2> QED BY <1>1, <2>1 DEF Connected
<1> QED BY <1>6, <1>7, <1>8, <1>9 DEF TokenInv

\* A step that writes neither keeps what is written, and marks a link only for a
\* chat that has its connection.
LEMMA OthersKeepTokens ==
  ASSUME TypeOK, TokenInv, [Next]_vars, UNCHANGED <<secret, connection>>, torn \subseteq torn',
         \A r \in Requests : ~StoreSecret(r) /\ ~UpsertConnection(r)
  PROVE  TokenInv'
<1> USE DEF HasToken, HasRow, HasMark
<1>1. ASSUME NEW r \in Requests, pc'[r] \in HasToken
      PROVE  /\ pc[r] \in HasToken /\ form'[r] = form[r] /\ Key(r)' = Key(r)
             /\ pc'[r] = "upsert" => pc[r] = "upsert"
             /\ pc'[r] \in HasRow => pc[r] \in HasRow
             /\ pc'[r] \in HasMark => pc[r] \in HasMark \/ MarkUsed(r)
  <2>1. pc[r] # "idle" /\ form'[r] = form[r] /\ (pc'[r] = pc[r] \/ Advance(r))
    BY <1>1, CourseOfRequest
  <2>2. pc \in [Requests -> Places]
    BY DEF TypeOK
  <2>3. Key(r)' = Key(r)
    BY <2>1, KeyStays
  <2>4. CASE pc'[r] = pc[r]
    BY <1>1, <2>1, <2>3, <2>4
  <2>5. CASE Advance(r)
    <3>1. DeactivatePortal(r) \/ MarkUsed(r) \/ RecordSuccess(r)
      BY <1>1, <2>2, <2>5 DEF Advance, CountSession, CountRemoteFailed, CountRemoteTotal, Exchange, Raise, Goto
    <3> QED BY <1>1, <2>1, <2>2, <2>3, <3>1 DEF DeactivatePortal, MarkUsed, RecordSuccess, Goto
  <2> QED BY <2>1, <2>4, <2>5
<1>2. TokenOfAccount'
  <2>1. SUFFICES ASSUME NEW k \in Chats \X Schools, k \notin torn', Settled(k)'
                 PROVE  connection[k] = secret[k]
    BY DEF TokenOfAccount
  <2>2. Settled(k)
    <3>1. ASSUME NEW r \in Requests, pc[r] = "upsert", Key(r) = k PROVE FALSE
      <4>1. pc'[r] = "upsert" /\ form'[r] = form[r]
        BY <2>1, <3>1, RowIsOwed
      <4>2. Key(r)' = k
        BY <3>1, <4>1, KeyStays
      <4> QED BY <2>1, <4>1, <4>2 DEF Settled
    <3> QED BY <3>1 DEF Settled
  <2> QED BY <2>1, <2>2 DEF TokenInv, TokenOfAccount
<1>3. OwnToken'
  <2>1. SUFFICES ASSUME NEW r \in Requests, pc'[r] = "upsert", Key(r)' \notin torn'
                 PROVE  /\ secret[Key(r)'] = form'[r].account
                        /\ \A q \in Requests \ {r} : pc'[q] = "upsert" => Key(q)' # Key(r)'
    BY DEF OwnToken
  <2>2. \A q \in Requests : pc'[q] = "upsert" => pc[q] = "upsert" /\ Key(q)' = Key(q) /\ form'[q] = form[q]
    BY <1>1
  <2> QED BY <2>1, <2>2 DEF TokenInv, OwnToken
<1>4. ASSUME NEW r \in Requests, MarkUsed(r)
      PROVE  /\ form[r].link \in Links /\ links'[form[r].link].state = "used"
             /\ \E s \in Schools : connection[<<links[form[r].link].chat, s>>] # Nobody
  <2>1. pc[r] = "markUsed" /\ links' = [links EXCEPT ![form[r].link].state = "used"]
    BY <1>4 DEF MarkUsed
  <2>2. /\ form[r].link \in Links /\ form[r].school \in Schools
        /\ Key(r) = <<links[form[r].link].chat, form[r].school>>
    BY <2>1, KeyIsKey
  <2>3. connection[Key(r)] # Nobody
    BY <2>1 DEF TokenInv, Written
  <2> QED BY <2>1, <2>2, <2>3 DEF TypeOK
<1>5. Written'
  <2>1. SUFFICES ASSUME NEW r \in Requests
                 PROVE  /\ pc'[r] \in HasToken => secret[Key(r)'] # Nobody
                        /\ pc'[r] \in HasRow => connection[Key(r)'] # Nobody
                        /\ pc'[r] \in HasMark => links'[form'[r].link].state = "used"
    BY DEF Written
  <2>2. pc'[r] \in HasToken => secret[Key(r)'] # Nobody
    BY <1>1 DEF TokenInv, Written
  <2>3. pc'[r] \in HasRow => connection[Key(r)'] # Nobody
    BY <1>1 DEF TokenInv, Written
  <2>4. ASSUME pc'[r] \in HasMark PROVE links'[form'[r].link].state = "used"
    <3>1. form'[r] = form[r] /\ (pc[r] \in HasMark \/ MarkUsed(r))
      BY <1>1, <2>4
    <3>2. CASE pc[r] \in HasMark
      <4>1. links[form[r].link].state = "used" /\ form[r].link \in Links
        BY <3>2, KeyIsKey DEF TokenInv, Written
      <4> QED BY <3>1, <4>1, LinksStay
    <3> QED BY <1>4, <3>1, <3>2
  <2> QED BY <2>2, <2>3, <2>4
<1>6. Connected'
  <2>1. ASSUME NEW l \in Links, links'[l].state = "used"
        PROVE  \E s \in Schools : connection[<<links'[l].chat, s>>] # Nobody
    <3>1. /\ links[l] # Unissued
          /\ \E s \in Schools : connection[<<links[l].chat, s>>] # Nobody
      <4>1. CASE links[l].state = "used"
        BY <4>1 DEF TokenInv, Connected, Unissued
      <4>2. CASE \E r \in Requests : MarkUsed(r) /\ form[r].link = l
        <5>1. PICK r \in Requests : MarkUsed(r) /\ form[r].link = l
          BY <4>2
        <5>2. links[form[r].link] # Unissued
          BY <5>1, KeyIsKey DEF MarkUsed
        <5> QED BY <1>4, <5>1, <5>2
      <4> QED BY <2>1, <4>1, <4>2, LinksStay
    <3> QED BY <3>1, LinksStay
  <2> QED BY <2>1 DEF Connected
<1> QED BY <1>2, <1>3, <1>5, <1>6 DEF TokenInv

\* A link is marked used only for a chat that has its connection, with the token
\* of the account it names, and a success is reported only when all three are
\* there, whatever raises, overlaps or is killed in between
\* (complete_school_account_connect).
THEOREM UsedLinksAreConnected == Spec => []UsedLinkConnected
<1>1. Init => TokenInv
  BY DEF Init, TokenInv, TokenOfAccount, OwnToken, Written, Connected, HasToken, HasRow, HasMark, Unissued
<1>2. TypeOK /\ TokenInv /\ [Next]_vars => TokenInv'
  BY StoreKeeps, UpsertKeeps, OthersKeepTokens, TokenChanges
<1>3. TypeOK /\ TokenInv => UsedLinkConnected
  BY DEF TokenInv, Connected, Written, HasToken, HasRow, HasMark, UsedLinkConnected
<1> QED BY <1>1, <1>2, <1>3, TypeCorrect, PTL DEF Spec

-----------------------------------------------------------------------------
(* The limits of attempts                                                   *)

\* The requests past a count that may still be recorded as an attempt.
Trying == Guarded \union {"recordFailed"}
OfLink(l) == {r \in Requests : /\ pc[r] \in Trying \union {"countRemoteFailed", "countRemoteTotal"}
                               /\ form[r].link = l}
OfRemote(q, places) == {r \in Requests : pc[r] \in places /\ form[r].remote = q}
FailedOf(q) == OfRemote(q, Trying \union {"countRemoteTotal"})

\* The rows of the window that the three limits are about.
LinkRows(l) == {i \in Recent : attempts[i].link = l /\ attempts[i].status = "failed"}
RemoteRows(q) == {i \in Recent : attempts[i].remote = q /\ attempts[i].status = "failed"}

\* The rows and the requests that may still add one are within the limit, but
\* for one of every other thread.
Within(R, S, max) == Cardinality(R) + Cardinality(S) <= max + Cardinality(Requests) - 1
LimitsHold ==
  /\ \A l \in Links : Within(LinkRows(l), OfLink(l), MaxFailedPerSession)
  /\ \A q \in Remotes : /\ Within(RemoteRows(q), FailedOf(q), MaxFailedPerRemote)
                        /\ Within(Tried(q), OfRemote(q, Trying), MaxTotalPerRemote)

\* Rows and requests that only become fewer stay within the limit, and any
\* requests do when a count found fewer rows than the limit.
LEMMA BudgetKept ==
  ASSUME NEW R, NEW Q \in SUBSET R, IsFiniteSet(R), NEW S \in SUBSET Requests,
         NEW T \in SUBSET Requests, NEW max \in Nat,
         (Within(R, S, max) /\ T \subseteq S) \/ Cardinality(R) < max
  PROVE  Within(Q, T, max)
<1>1. /\ Cardinality(R) \in Nat /\ Cardinality(S) \in Nat /\ Cardinality(T) \in Nat
      /\ Cardinality(Requests) \in Nat /\ Cardinality(T) <= Cardinality(Requests)
  BY FS_CardinalityType, FlightIsFinite
<1>2. Cardinality(Q) \in Nat /\ Cardinality(Q) <= Cardinality(R)
  BY FS_Subset, FS_CardinalityType
<1>3. CASE Within(R, S, max) /\ T \subseteq S
  <2>1. Cardinality(T) <= Cardinality(S)
    BY <1>3, FlightIsFinite
  <2> QED BY <1>1, <1>2, <1>3, <2>1 DEF Within
<1>4. CASE Cardinality(R) < max
  BY <1>1, <1>2, <1>4 DEF Within
<1> QED BY <1>3, <1>4

\* And so they do when a request turns into a row.
LEMMA BudgetMoves ==
  ASSUME NEW R, NEW x, NEW Q \in SUBSET (R \union {x}), IsFiniteSet(R), NEW S \in SUBSET Requests,
         NEW r \in S, NEW T \in SUBSET (S \ {r}), NEW max \in Nat, Within(R, S, max)
  PROVE  Within(Q, T, max)
<1>1. /\ Cardinality(R) \in Nat /\ Cardinality(S) \in Nat /\ Cardinality(T) \in Nat
      /\ Cardinality(Requests) \in Nat /\ Cardinality(T) + 1 <= Cardinality(S)
  BY FS_CardinalityType, FlightIsFinite
<1>2. /\ IsFiniteSet(R \union {x})
      /\ Cardinality(R \union {x}) = IF x \in R THEN Cardinality(R) ELSE Cardinality(R) + 1
  BY FS_AddElement
<1>3. IsFiniteSet(Q) /\ Cardinality(Q) <= Cardinality(R \union {x})
  BY <1>2, FS_Subset
<1>4. Cardinality(Q) \in Nat
  BY <1>3, FS_CardinalityType
<1> QED BY <1>1, <1>2, <1>3, <1>4 DEF Within

\* The rows of the window are finitely many.
LEMMA RecentIsFinite ==
  ASSUME TypeOK
  PROVE  \A R \in SUBSET Recent : IsFiniteSet(R)
<1>1. DOMAIN attempts = 1 .. Len(attempts) /\ Len(attempts) \in Nat
  BY LenProperties DEF TypeOK
<1>2. IsFiniteSet(1 .. Len(attempts)) /\ Recent \subseteq 1 .. Len(attempts)
  BY <1>1, FS_Interval DEF Recent
<1>3. IsFiniteSet(Recent)
  BY <1>2, FS_Subset
<1> QED BY <1>3, FS_Subset

\* A row of the window was one before, or is the one that the step inserts: the
\* outcome of a login, or a row that no limit is about but the total one.
LEMMA RowsOfWindow ==
  ASSUME TypeOK, [Next]_vars, NEW i \in Recent'
  PROVE  \/ i \in Recent /\ attempts'[i] = attempts[i]
         \/ /\ i = Len(attempts) + 1
            /\ attempts'[i].status \notin {"failed", "success"}
         \/ /\ i = Len(attempts) + 1
            /\ \E r \in Requests : /\ RecordFailed(r) \/ RecordSuccess(r)
                                   /\ attempts'[i].link = form[r].link
                                   /\ attempts'[i].remote = form[r].remote
                                   /\ RecordSuccess(r) => attempts'[i].status = "success"
<1>1. /\ attempts \in Seq(Rows) /\ now \in 0 .. MaxTime /\ MaxTime \in Nat
      /\ DOMAIN attempts = 1 .. Len(attempts) /\ Len(attempts) \in Nat
      /\ Window \in Nat
  BY LenProperties, ConstantsAssumption DEF TypeOK
<1>2. CASE attempts' = attempts
  <2>1. now' = now \/ now' = now + 1
    BY DEF Next, Serve, Tick, IssueLink, BrowserLogin, ViewForm, Lookup, RecordInvalid, CountSession,
           CountRemoteFailed, CountRemoteTotal, RecordBlocked, Exchange, StoreSecret, UpsertConnection,
           DeactivatePortal, MarkUsed, RecordSuccess, Respond, RecordFailed, Raise, Drop, Crash, vars
  <2>2. i \in DOMAIN attempts /\ attempts[i].at >= now' - Window
    BY <1>2 DEF Recent
  <2>3. attempts[i].at \in 0 .. MaxTime
    <3>1. attempts[i] \in Rows
      BY <1>1, <2>2, ElementOfSeq
    <3> QED BY <3>1 DEF Rows
  <2>4. attempts[i].at >= now - Window
    BY <1>1, <2>1, <2>2, <2>3
  <2> QED BY <1>2, <2>2, <2>4 DEF Recent
<1>3. ASSUME NEW row \in Rows, attempts' = Append(attempts, row), now' = now
      PROVE  \/ i \in Recent /\ attempts'[i] = attempts[i]
             \/ i = Len(attempts) + 1 /\ attempts'[i] = row
  <2>1. /\ DOMAIN attempts' = 1 .. Len(attempts) + 1 /\ attempts'[Len(attempts) + 1] = row
        /\ \A k \in 1 .. Len(attempts) : attempts'[k] = attempts[k]
    <3>1. attempts' \in Seq(Rows) /\ Len(attempts') = Len(attempts) + 1
      BY <1>1, <1>3, AppendProperties
    <3> QED BY <1>1, <1>3, <3>1, AppendProperties, LenProperties
  <2>2. i \in 1 .. Len(attempts) + 1 /\ attempts'[i].at >= now - Window
    BY <1>3, <2>1 DEF Recent
  <2>3. CASE i = Len(attempts) + 1
    BY <2>1, <2>3
  <2>4. CASE i \in 1 .. Len(attempts)
    BY <1>1, <2>1, <2>2, <2>4 DEF Recent
  <2> QED BY <1>1, <2>2, <2>3, <2>4
<1>4. ASSUME NEW r \in Requests, pc[r] # "idle", NEW status \in Statuses,
             RecordAttempt(r, status), now' = now
      PROVE  \/ i \in Recent /\ attempts'[i] = attempts[i]
             \/ /\ i = Len(attempts) + 1 /\ attempts'[i].status = status
                /\ attempts'[i].link = form[r].link /\ attempts'[i].remote = form[r].remote
  <2> DEFINE row == [link |-> form[r].link, remote |-> form[r].remote, status |-> status, at |-> now]
  <2>1. row \in Rows
    BY <1>1, <1>4, KeyIsKey DEF Rows, TypeOK, Forms
  <2>2. attempts' = Append(attempts, row)
    BY <1>4 DEF RecordAttempt
  <2>3. /\ row.status = status /\ row.link = form[r].link /\ row.remote = form[r].remote
    OBVIOUS
  <2> HIDE DEF row
  <2> QED BY <1>3, <1>4, <2>1, <2>2, <2>3
<1>5. ASSUME NEW l \in Links, NEW q \in Remotes \union {NoRemote}, ViewForm(l, q)
      PROVE  \/ i \in Recent /\ attempts'[i] = attempts[i]
             \/ i = Len(attempts) + 1 /\ attempts'[i].status = "viewed"
  <2> DEFINE row == [link |-> l, remote |-> q, status |-> "viewed", at |-> now]
  <2>1. row \in Rows /\ row.status = "viewed"
    BY <1>1 DEF Rows, Statuses
  <2>2. attempts' = Append(attempts, row) /\ now' = now
    BY <1>5 DEF ViewForm
  <2> HIDE DEF row
  <2> QED BY <1>3, <2>1, <2>2
<1>6. ASSUME NEW r \in Requests, RecordInvalid(r) \/ RecordBlocked(r)
      PROVE  \/ i \in Recent /\ attempts'[i] = attempts[i]
             \/ i = Len(attempts) + 1 /\ attempts'[i].status \in {"invalid_request", "blocked"}
  BY <1>4, <1>6 DEF RecordInvalid, RecordBlocked, Statuses
<1>7. ASSUME NEW r \in Requests, RecordFailed(r)
      PROVE  \/ i \in Recent /\ attempts'[i] = attempts[i]
             \/ /\ i = Len(attempts) + 1 /\ ~RecordSuccess(r)
                /\ attempts'[i].link = form[r].link /\ attempts'[i].remote = form[r].remote
  BY <1>4, <1>7 DEF RecordFailed, RecordSuccess, Statuses
<1>8. ASSUME NEW r \in Requests, RecordSuccess(r)
      PROVE  \/ i \in Recent /\ attempts'[i] = attempts[i]
             \/ /\ i = Len(attempts) + 1 /\ attempts'[i].status = "success"
                /\ attempts'[i].link = form[r].link /\ attempts'[i].remote = form[r].remote
  BY <1>4, <1>8 DEF RecordSuccess, Statuses
<1>9. \/ attempts' = attempts
      \/ \E l \in Links, q \in Remotes \union {NoRemote} : ViewForm(l, q)
      \/ \E r \in Requests : RecordInvalid(r) \/ RecordBlocked(r) \/ RecordFailed(r) \/ RecordSuccess(r)
  BY DEF Next, Serve, Tick, IssueLink, BrowserLogin, Lookup, CountSession, CountRemoteFailed,
         CountRemoteTotal, Exchange, StoreSecret, UpsertConnection, DeactivatePortal, MarkUsed, Respond,
         Raise, Drop, Crash, tables, vars
<1>10. CASE \E l \in Links, q \in Remotes \union {NoRemote} : ViewForm(l, q)
  BY <1>5, <1>10
<1>11. CASE \E r \in Requests : RecordInvalid(r) \/ RecordBlocked(r)
  BY <1>6, <1>11
<1>12. CASE \E r \in Requests : RecordFailed(r)
  BY <1>7, <1>12
<1>13. CASE \E r \in Requests : RecordSuccess(r)
  BY <1>8, <1>13
<1> QED BY <1>2, <1>9, <1>10, <1>11, <1>12, <1>13

\* A request that comes to be past a count has just been let in by it, below the
\* limit, or came without a remote address; and one that records its attempt
\* leaves.
LEMMA PastCounts ==
  ASSUME TypeOK, [Next]_vars, NEW r \in Requests, pc'[r] \in Trying \union {"countRemoteFailed", "countRemoteTotal"}
  PROVE  /\ form'[r] = form[r] /\ ~RecordFailed(r) /\ ~RecordSuccess(r)
         /\ \/ pc[r] \in Trying \union {"countRemoteFailed", "countRemoteTotal"}
            \/ CountSession(r) /\ FailedOfLink(form[r].link) < MaxFailedPerSession
         /\ pc'[r] \in Trying \union {"countRemoteTotal"} =>
              \/ pc[r] \in Trying \union {"countRemoteTotal"}
              \/ form[r].remote = NoRemote
              \/ CountRemoteFailed(r) /\ FailedOfRemote(form[r].remote) < MaxFailedPerRemote
         /\ pc'[r] \in Trying =>
              \/ pc[r] \in Trying
              \/ form[r].remote = NoRemote
              \/ CountRemoteTotal(r) /\ TotalOfRemote(form[r].remote) < MaxTotalPerRemote
<1> USE DEF Trying, Guarded
<1>1. pc \in [Requests -> Places]
  BY DEF TypeOK
<1>2. pc[r] # "idle" /\ form'[r] = form[r] /\ (pc'[r] = pc[r] \/ Advance(r))
  BY CourseOfRequest
<1>3. ~RecordFailed(r) /\ ~RecordSuccess(r)
  BY <1>1 DEF RecordFailed, RecordSuccess, Answer, Goto
<1>4. /\ FailedOfLink(form[r].link) \in Nat /\ FailedOfRemote(form[r].remote) \in Nat
      /\ TotalOfRemote(form[r].remote) \in Nat
  BY RecentIsFinite, FS_CardinalityType DEF FailedOfLink, FailedOfRemote, TotalOfRemote
<1>5. MaxFailedPerSession \in Nat /\ MaxFailedPerRemote \in Nat /\ MaxTotalPerRemote \in Nat
  BY ConstantsAssumption
<1>6. CASE pc'[r] = pc[r]
  BY <1>2, <1>3, <1>6
<1>7. CASE Advance(r) /\ pc[r] \in Trying
  BY <1>1, <1>2, <1>3, <1>7
     DEF Advance, CountSession, CountRemoteFailed, CountRemoteTotal, Exchange, StoreSecret,
         UpsertConnection, DeactivatePortal, MarkUsed, RecordSuccess, Raise, Goto
<1>8. CASE CountSession(r)
  <2>1. /\ ~(FailedOfLink(form[r].link) >= MaxFailedPerSession)
        /\ pc'[r] = IF form[r].remote = NoRemote THEN "exchange" ELSE "countRemoteFailed"
    BY <1>1, <1>8 DEF CountSession, Goto
  <2> QED BY <1>2, <1>3, <1>4, <1>5, <1>8, <2>1
<1>9. CASE CountRemoteFailed(r)
  <2>1. /\ ~(FailedOfRemote(form[r].remote) >= MaxFailedPerRemote)
        /\ pc[r] = "countRemoteFailed" /\ pc'[r] = "countRemoteTotal"
    BY <1>1, <1>9 DEF CountRemoteFailed, Goto
  <2> QED BY <1>2, <1>3, <1>4, <1>5, <1>9, <2>1
<1>10. CASE CountRemoteTotal(r)
  <2>1. /\ ~(TotalOfRemote(form[r].remote) >= MaxTotalPerRemote)
        /\ pc[r] = "countRemoteTotal" /\ pc'[r] = "exchange"
    BY <1>1, <1>10 DEF CountRemoteTotal, Goto
  <2> QED BY <1>2, <1>3, <1>4, <1>5, <1>10, <2>1
<1> QED
  BY <1>2, <1>6, <1>7, <1>8, <1>9, <1>10
     DEF Advance, Exchange, StoreSecret, UpsertConnection, DeactivatePortal, MarkUsed, RecordSuccess, Raise

\* A count reads the rows and leaves them.
LEMMA CountsRead ==
  ASSUME NEW r, CountSession(r) \/ CountRemoteFailed(r) \/ CountRemoteTotal(r)
  PROVE  attempts' = attempts /\ Recent' = Recent
BY DEF CountSession, CountRemoteFailed, CountRemoteTotal, tables, Recent

\* The outcome of a login is recorded by a request that is past the counts.
LEMMA RecordsTry ==
  ASSUME TypeOK, NEW r \in Requests, RecordFailed(r) \/ RecordSuccess(r)
  PROVE  pc[r] \in Trying /\ form[r] \in Forms
BY DEF RecordFailed, RecordSuccess, Trying, Guarded, TypeOK

\* Every step keeps the failed attempts of a link within the limit.
LEMMA LinkLimit ==
  ASSUME TypeOK, LimitsHold, [Next]_vars, NEW l \in Links
  PROVE  Within(LinkRows(l)', OfLink(l)', MaxFailedPerSession)
<1> DEFINE R == LinkRows(l)
           Q == LinkRows(l)'
           S == OfLink(l)
           T == OfLink(l)'
<1>1. /\ IsFiniteSet(R) /\ S \in SUBSET Requests /\ T \in SUBSET Requests
      /\ MaxFailedPerSession \in Nat /\ Within(R, S, MaxFailedPerSession)
  BY RecentIsFinite, ConstantsAssumption DEF LinkRows, OfLink, LimitsHold
<1>2. CASE \E r \in Requests : CountSession(r) /\ form[r].link = l /\ FailedOfLink(l) < MaxFailedPerSession
  <2>1. Q \subseteq R /\ Cardinality(R) < MaxFailedPerSession
    BY <1>2, CountsRead DEF LinkRows, FailedOfLink
  <2> HIDE DEF Q, R, S, T
  <2> QED BY <1>1, <2>1, BudgetKept DEF Q, T
<1>3. CASE ~ \E r \in Requests : CountSession(r) /\ form[r].link = l /\ FailedOfLink(l) < MaxFailedPerSession
  <2>1. T \subseteq {r \in S : ~RecordFailed(r) /\ ~RecordSuccess(r)}
    BY <1>3, PastCounts DEF OfLink
  <2>2. CASE \E r \in Requests : RecordFailed(r) /\ form[r].link = l
    <3>1. PICK r \in Requests : RecordFailed(r) /\ form[r].link = l
      BY <2>2
    <3>2. r \in S /\ T \subseteq S \ {r}
      BY <2>1, <3>1, RecordsTry DEF OfLink
    <3>3. Q \subseteq R \union {Len(attempts) + 1}
      BY RowsOfWindow DEF LinkRows
    <3> HIDE DEF Q, R, S, T
    <3> QED BY <1>1, <3>2, <3>3, BudgetMoves DEF Q, T
  <2>3. CASE ~ \E r \in Requests : RecordFailed(r) /\ form[r].link = l
    <3>1. Q \subseteq R
      BY <2>3, RowsOfWindow DEF LinkRows
    <3>2. T \subseteq S
      BY <2>1
    <3> HIDE DEF Q, R, S, T
    <3> QED BY <1>1, <3>1, <3>2, BudgetKept DEF Q, T
  <2> QED BY <2>2, <2>3
<1> QED BY <1>2, <1>3

\* So for the failed attempts of a remote address.
LEMMA RemoteFailedLimit ==
  ASSUME TypeOK, LimitsHold, [Next]_vars, NEW q \in Remotes
  PROVE  Within(RemoteRows(q)', FailedOf(q)', MaxFailedPerRemote)
<1> DEFINE R == RemoteRows(q)
           Q == RemoteRows(q)'
           S == FailedOf(q)
           T == FailedOf(q)'
           LetIn == \E r \in Requests : /\ CountRemoteFailed(r) /\ form[r].remote = q
                                        /\ FailedOfRemote(q) < MaxFailedPerRemote
<1>1. /\ IsFiniteSet(R) /\ S \in SUBSET Requests /\ T \in SUBSET Requests
      /\ MaxFailedPerRemote \in Nat /\ Within(R, S, MaxFailedPerRemote) /\ q # NoRemote
  BY RecentIsFinite, ConstantsAssumption DEF RemoteRows, FailedOf, OfRemote, LimitsHold
<1>2. CASE LetIn
  <2>1. Q \subseteq R /\ Cardinality(R) < MaxFailedPerRemote
    BY <1>2, CountsRead DEF RemoteRows, FailedOfRemote
  <2> HIDE DEF Q, R, S, T
  <2> QED BY <1>1, <2>1, BudgetKept DEF Q, T
<1>3. CASE ~LetIn
  <2>1. T \subseteq {r \in S : ~RecordFailed(r) /\ ~RecordSuccess(r)}
    BY <1>1, <1>3, PastCounts DEF FailedOf, OfRemote
  <2>2. CASE \E r \in Requests : RecordFailed(r) /\ form[r].remote = q
    <3>1. PICK r \in Requests : RecordFailed(r) /\ form[r].remote = q
      BY <2>2
    <3>2. r \in S /\ T \subseteq S \ {r}
      BY <2>1, <3>1, RecordsTry DEF FailedOf, OfRemote
    <3>3. Q \subseteq R \union {Len(attempts) + 1}
      BY RowsOfWindow DEF RemoteRows
    <3> HIDE DEF Q, R, S, T
    <3> QED BY <1>1, <3>2, <3>3, BudgetMoves DEF Q, T
  <2>3. CASE ~ \E r \in Requests : RecordFailed(r) /\ form[r].remote = q
    <3>1. Q \subseteq R
      BY <2>3, RowsOfWindow DEF RemoteRows
    <3>2. T \subseteq S
      BY <2>1
    <3> HIDE DEF Q, R, S, T
    <3> QED BY <1>1, <3>1, <3>2, BudgetKept DEF Q, T
  <2> QED BY <2>2, <2>3
<1> QED BY <1>2, <1>3

\* And for its failed and successful ones together: all rows of the address are
\* counted before the login, these among them.
LEMMA RemoteTotalLimit ==
  ASSUME TypeOK, LimitsHold, [Next]_vars, NEW q \in Remotes
  PROVE  Within(Tried(q)', OfRemote(q, Trying)', MaxTotalPerRemote)
<1> DEFINE R == Tried(q)
           Q == Tried(q)'
           S == OfRemote(q, Trying)
           T == OfRemote(q, Trying)'
           LetIn == \E r \in Requests : /\ CountRemoteTotal(r) /\ form[r].remote = q
                                        /\ TotalOfRemote(q) < MaxTotalPerRemote
<1>1. /\ IsFiniteSet(R) /\ S \in SUBSET Requests /\ T \in SUBSET Requests
      /\ MaxTotalPerRemote \in Nat /\ Within(R, S, MaxTotalPerRemote) /\ q # NoRemote
  BY RecentIsFinite, ConstantsAssumption DEF Tried, OfRemote, LimitsHold
<1>2. CASE LetIn
  <2>1. Q \subseteq R
    BY <1>2, CountsRead DEF Tried
  <2>2. Cardinality(R) < MaxTotalPerRemote
    <3> DEFINE All == {i \in Recent : attempts[i].remote = q}
    <3>1. IsFiniteSet(All) /\ R \subseteq All /\ Cardinality(All) < MaxTotalPerRemote
      BY <1>2, RecentIsFinite DEF Tried, TotalOfRemote
    <3>2. Cardinality(R) <= Cardinality(All) /\ Cardinality(R) \in Nat /\ Cardinality(All) \in Nat
      <4> HIDE DEF All, R
      <4> QED BY <1>1, <3>1, FS_Subset, FS_CardinalityType
    <3> QED BY <1>1, <3>1, <3>2
  <2> HIDE DEF Q, R, S, T
  <2> QED BY <1>1, <2>1, <2>2, BudgetKept DEF Q, T
<1>3. CASE ~LetIn
  <2>1. T \subseteq {r \in S : ~RecordFailed(r) /\ ~RecordSuccess(r)}
    BY <1>1, <1>3, PastCounts DEF OfRemote
  <2>2. CASE \E r \in Requests : (RecordFailed(r) \/ RecordSuccess(r)) /\ form[r].remote = q
    <3>1. PICK r \in Requests : (RecordFailed(r) \/ RecordSuccess(r)) /\ form[r].remote = q
      BY <2>2
    <3>2. r \in S /\ T \subseteq S \ {r}
      BY <2>1, <3>1, RecordsTry DEF OfRemote
    <3>3. Q \subseteq R \union {Len(attempts) + 1}
      BY RowsOfWindow DEF Tried
    <3> HIDE DEF Q, R, S, T
    <3> QED BY <1>1, <3>2, <3>3, BudgetMoves DEF Q, T
  <2>3. CASE ~ \E r \in Requests : (RecordFailed(r) \/ RecordSuccess(r)) /\ form[r].remote = q
    <3>1. Q \subseteq R
      BY <2>3, RowsOfWindow DEF Tried
    <3>2. T \subseteq S
      BY <2>1
    <3> HIDE DEF Q, R, S, T
    <3> QED BY <1>1, <3>1, <3>2, BudgetKept DEF Q, T
  <2> QED BY <2>2, <2>3
<1> QED BY <1>2, <1>3

\* Within any window a link has as many failed attempts as its limit allows and
\* one more for every other thread, and a remote address as many failed, or
\* failed and successful, ones: the limits are compared before the login and the
\* attempt is recorded after it (complete_school_account_connect).
THEOREM AttemptsAreLimited == Spec => []AttemptsLimited
<1>1. Init => LimitsHold
  <2> SUFFICES ASSUME Init PROVE LimitsHold
    OBVIOUS
  <2>1. Recent = {} /\ \A r \in Requests : pc[r] = "idle"
    BY EmptySeq, LenProperties DEF Init, Recent
  <2>2. /\ \A l \in Links : LinkRows(l) = {} /\ OfLink(l) = {}
        /\ \A q \in Remotes : RemoteRows(q) = {} /\ FailedOf(q) = {} /\ Tried(q) = {}
                              /\ OfRemote(q, Trying) = {}
    BY <2>1 DEF LinkRows, OfLink, RemoteRows, FailedOf, Tried, OfRemote, Trying, Guarded
  <2>3. \A max \in Nat \ {0} : Within({}, {}, max)
    BY FS_EmptySet, ConstantsAssumption, FS_CardinalityType DEF Within
  <2> QED BY <2>2, <2>3, ConstantsAssumption DEF LimitsHold
<1>2. TypeOK /\ LimitsHold /\ [Next]_vars => LimitsHold'
  BY LinkLimit, RemoteFailedLimit, RemoteTotalLimit DEF LimitsHold
<1>3. ASSUME NEW R, IsFiniteSet(R), NEW S \in SUBSET Requests, NEW max \in Nat, Within(R, S, max)
      PROVE  Cardinality(R) <= max + (Cardinality(Requests) - 1)
  BY <1>3, FlightIsFinite, FS_CardinalityType DEF Within
<1>4. TypeOK /\ LimitsHold => AttemptsLimited
  <2> SUFFICES ASSUME TypeOK, LimitsHold PROVE AttemptsLimited
    OBVIOUS
  <2>1. ASSUME NEW l \in Links PROVE FailedOfLink(l) <= MaxFailedPerSession + (Cardinality(Requests) - 1)
    <3>1. IsFiniteSet(LinkRows(l)) /\ OfLink(l) \in SUBSET Requests
      BY RecentIsFinite DEF LinkRows, OfLink
    <3>2. Cardinality(LinkRows(l)) <= MaxFailedPerSession + (Cardinality(Requests) - 1)
      BY <1>3, <3>1, ConstantsAssumption DEF LimitsHold
    <3> QED BY <3>2 DEF LinkRows, FailedOfLink
  <2>2. ASSUME NEW q \in Remotes
        PROVE  /\ FailedOfRemote(q) <= MaxFailedPerRemote + (Cardinality(Requests) - 1)
               /\ Cardinality(Tried(q)) <= MaxTotalPerRemote + (Cardinality(Requests) - 1)
    <3>1. /\ IsFiniteSet(RemoteRows(q)) /\ FailedOf(q) \in SUBSET Requests
          /\ IsFiniteSet(Tried(q)) /\ OfRemote(q, Trying) \in SUBSET Requests
      BY RecentIsFinite DEF RemoteRows, FailedOf, Tried, OfRemote
    <3>2. /\ Cardinality(RemoteRows(q)) <= MaxFailedPerRemote + (Cardinality(Requests) - 1)
          /\ Cardinality(Tried(q)) <= MaxTotalPerRemote + (Cardinality(Requests) - 1)
      BY <1>3, <3>1, ConstantsAssumption DEF LimitsHold
    <3> QED BY <3>2 DEF RemoteRows, FailedOfRemote
  <2> QED BY <2>1, <2>2 DEF AttemptsLimited
<1> QED BY <1>1, <1>2, <1>4, TypeCorrect, PTL DEF Spec

=============================================================================
