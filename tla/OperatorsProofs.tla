-------------------------- MODULE OperatorsProofs ---------------------------
(***************************************************************************)
(* The operators' side: their queue of actions, for any number of scopes,  *)
(* records and launches, and what they and the users are told about the    *)
(* collections, for any users, outcomes and interleavings.  Each part has  *)
(* its types, the inductive invariants its properties need, and the        *)
(* properties.                                                             *)
(***************************************************************************)
EXTENDS OpsActionQueue, Health, FiniteSetTheorems, TLAPS

-----------------------------------------------------------------------------
(* The queue of actions                                                    *)

\* Types hold in every behaviour.
THEOREM TypeCorrect == Spec => []TypeOK
<1> USE ConstantsAssumption
<1>1. Init => TypeOK
  BY DEF Init, TypeOK, Past, Ids, NoId, Settled
<1>2. TypeOK /\ [Next]_vars => TypeOK'
  <2> SUFFICES ASSUME TypeOK, [Next]_vars PROVE TypeOK'
    OBVIOUS
  <2>1. ASSUME NEW s \in Scopes, Launch(s) PROVE TypeOK'
    <3>1. launched' = launched + 1 /\ launched' \in 0 .. MaxLaunches /\ launched' \in Ids
      BY <2>1 DEF Launch, TypeOK, Ids
    <3>2. Past \subseteq Past' /\ launched' \in Past'
      BY <3>1 DEF Past, TypeOK
    <3>3. records' \subseteq Past' /\ index' \subseteq Past'
      BY <2>1, <3>1, <3>2 DEF Launch, TypeOK
    <3>4. running' \in [Scopes -> Past' \union {NoId}]
      BY <2>1, <3>1, <3>2 DEF Launch, TypeOK
    <3>5. \A i \in Ids : i > launched' <=> (i > launched /\ i # launched')
      BY <3>1 DEF Ids, TypeOK
    <3>6. scope' = [scope EXCEPT ![launched'] = s] /\ worker' = [worker EXCEPT ![launched'] = "launch"]
      BY <2>1, <3>1 DEF Launch
    <3>7. /\ \A i \in Ids : i > launched' <=> scope'[i] = NoScope
          /\ \A i \in Ids : worker'[i] = "none" <=> scope'[i] = NoScope
          /\ \A i \in Ids : worker'[i] = "finish" => status'[i] \in Settled
      BY <2>1, <3>1, <3>5, <3>6 DEF Launch, TypeOK
    <3> QED
      BY <2>1, <3>1, <3>3, <3>4, <3>6, <3>7 DEF Launch, TypeOK, Settled
  <2>2. ASSUME NEW i \in Ids, StartThread(i) PROVE TypeOK'
    BY <2>2 DEF StartThread, TypeOK, Past
  <2>3. ASSUME NEW i \in Ids, StartRaises(i) PROVE TypeOK'
    BY <2>3 DEF StartRaises, TypeOK, Past
  <2>4. ASSUME NEW i \in Ids, Begin(i) PROVE TypeOK'
    BY <2>4 DEF Begin, TypeOK, Past
  <2>5. ASSUME NEW i \in Ids, Settle(i) PROVE TypeOK'
    BY <2>5 DEF Settle, TypeOK, Past
  <2>6. ASSUME NEW i \in Ids, ReleaseClaim(i) PROVE TypeOK'
    BY <2>6 DEF ReleaseClaim, TypeOK, Past
  <2>7. CASE UNCHANGED vars
    BY <2>7 DEF vars, TypeOK, Past
  <2> QED
    BY <2>1, <2>2, <2>3, <2>4, <2>5, <2>6, <2>7 DEF Next, Worker
<1> QED
  BY <1>1, <1>2, PTL DEF Spec

-----------------------------------------------------------------------------
(* The deque and its index *)

\* the oldest record of the deque
Oldest == IF launched > MaxRecords THEN launched - MaxRecords + 1 ELSE 1

\* The records are those of the latest launches, and the index knows the same.
TableInv == records = Oldest .. launched /\ index = records

\* A launch into a full deque evicts its oldest record, and no other launch evicts.
LEMMA EvictedIs ==
  ASSUME TypeOK, TableInv
  PROVE  Evicted = IF launched >= MaxRecords THEN {Oldest} ELSE {}
<1> USE ConstantsAssumption
<1>1. launched \in Nat /\ Oldest \in Nat \ {0}
  BY DEF TypeOK, Oldest
<1>2. Cardinality(records) = IF Oldest > launched THEN 0 ELSE launched - Oldest + 1
  BY <1>1, FS_Interval DEF TableInv
<1>3. Cardinality(records) >= MaxRecords <=> launched >= MaxRecords
  BY <1>1, <1>2 DEF Oldest
<1>4. CASE launched >= MaxRecords
  <2>1. Oldest \in records /\ \A j \in records : Oldest <= j
    BY <1>1, <1>4 DEF TableInv, Oldest
  <2>2. \A i \in records : (\A j \in records : i <= j) <=> i = Oldest
    BY <1>1, <2>1 DEF TableInv
  <2> QED BY <1>3, <1>4, <2>1, <2>2 DEF Evicted
<1>5. CASE ~(launched >= MaxRecords)
  BY <1>3, <1>5 DEF Evicted
<1> QED
  BY <1>4, <1>5

\* Every step keeps the deque and the index one table of the latest launches.
LEMMA TableStep == TypeOK /\ TableInv /\ [Next]_vars => TableInv'
<1> USE ConstantsAssumption
<1> SUFFICES ASSUME TypeOK, TableInv, [Next]_vars PROVE TableInv'
  OBVIOUS
<1>1. ASSUME NEW s \in Scopes, Launch(s) PROVE TableInv'
  <2>1. launched \in Nat /\ launched' = launched + 1
    BY <1>1 DEF Launch, TypeOK
  <2>2. records' = (records \ Evicted) \union {launched'} /\ index' = (index \ Evicted) \union {launched'}
    BY <1>1 DEF Launch
  <2>3. CASE launched >= MaxRecords
    <3>1. Evicted = {Oldest}
      BY <2>3, EvictedIs
    <3>2. Oldest \in Nat /\ Oldest <= launched /\ Oldest' = Oldest + 1
      BY <2>1, <2>3 DEF Oldest
    <3>3. records' = Oldest' .. launched'
      BY <2>1, <2>2, <3>1, <3>2 DEF TableInv
    <3> QED BY <2>2, <3>3 DEF TableInv
  <2>4. CASE ~(launched >= MaxRecords)
    <3>1. Evicted = {}
      BY <2>4, EvictedIs
    <3>2. Oldest = 1 /\ Oldest' = 1
      BY <2>1, <2>4 DEF Oldest
    <3>3. records' = 1 .. launched'
      BY <2>1, <2>2, <3>1, <3>2 DEF TableInv
    <3> QED BY <2>2, <3>2, <3>3 DEF TableInv
  <2> QED BY <2>3, <2>4
<1>2. ASSUME UNCHANGED <<records, index, launched>> PROVE TableInv'
  BY <1>2 DEF TableInv, Oldest
<1> QED
  BY <1>1, <1>2
     DEF Next, Worker, StartThread, StartRaises, Begin, Settle, ReleaseClaim, vars

\* The deque and the index are one table within its limit, whatever the limit
\* and the number of launches.
THEOREM OneTableKept == Spec => []OneTable
<1> USE ConstantsAssumption
<1>1. Init => TableInv
  BY DEF Init, TableInv, Oldest
<1>2. TypeOK /\ TableInv => OneTable
  <2> SUFFICES ASSUME TypeOK, TableInv PROVE Cardinality(records) <= MaxRecords
    BY DEF OneTable, TableInv
  <2>1. launched \in Nat /\ Oldest \in Nat
    BY DEF TypeOK, Oldest
  <2>2. Cardinality(records) = IF Oldest > launched THEN 0 ELSE launched - Oldest + 1
    BY <2>1, FS_Interval DEF TableInv
  <2> QED BY <2>1, <2>2 DEF Oldest
<1> QED
  BY <1>1, <1>2, TableStep, TypeCorrect, PTL DEF Spec

-----------------------------------------------------------------------------
(* One action in progress per scope *)

\* A recorded action that has not settled holds the claim of its scope, a claim
\* is held by an action of its scope, and a thread that still has to work or
\* works has not settled.
ClaimInv ==
  /\ \A i \in records : status[i] \notin Settled => running[scope[i]] = i
  /\ \A s \in Scopes : running[s] # NoId => scope[running[s]] = s
  /\ \A i \in Ids : worker[i] \in {"ready", "work"} => status[i] \notin Settled
  /\ \A i \in Ids : worker[i] = "launch" => status[i] \notin Settled

\* Every step keeps the claims with the actions in progress.
LEMMA ClaimStep == TypeOK /\ TableInv /\ ClaimInv /\ [Next]_vars => ClaimInv'
<1> USE ConstantsAssumption
<1> SUFFICES ASSUME TypeOK, TableInv, ClaimInv, [Next]_vars PROVE ClaimInv'
  OBVIOUS
<1>0. records \subseteq Ids /\ index = records /\ Past \subseteq Ids /\ launched \in Nat
  BY DEF TypeOK, TableInv, Past, Ids
<1>1. ASSUME NEW s \in Scopes, Launch(s) PROVE ClaimInv'
  <2>1. launched' = launched + 1 /\ launched' \in Ids /\ launched' \notin Past
    BY <1>0, <1>1 DEF Launch, TypeOK, Ids, Past
  <2>2. /\ records' \subseteq records \union {launched'}
        /\ running' = [running EXCEPT ![s] = launched']
        /\ scope' = [scope EXCEPT ![launched'] = s]
        /\ status' = [status EXCEPT ![launched'] = "queued"]
        /\ worker' = [worker EXCEPT ![launched'] = "launch"]
    BY <1>1, <2>1 DEF Launch
  <2>3. \A i \in records : i # launched' /\ i \in Past /\ scope[i] \in Scopes
    BY <1>0, <2>1 DEF TypeOK, Past
  <2>4. ASSUME NEW i \in records', status'[i] \notin Settled PROVE running'[scope'[i]] = i
    <3>1. CASE i = launched'
      BY <2>1, <2>2, <3>1 DEF TypeOK
    <3>2. CASE i # launched'
      <4>1. i \in records /\ status'[i] = status[i] /\ scope'[i] = scope[i]
        BY <1>0, <2>2, <3>2 DEF TypeOK
      <4>2. running[scope[i]] = i
        BY <2>4, <4>1 DEF ClaimInv
      <4>3. scope[i] # s
        BY <1>0, <1>1, <4>1, <4>2 DEF Launch, Claimed, NoId, Ids
      <4> QED BY <2>2, <2>3, <4>1, <4>2, <4>3 DEF TypeOK
    <3> QED BY <3>1, <3>2
  <2>5. ASSUME NEW t \in Scopes, running'[t] # NoId PROVE scope'[running'[t]] = t
    <3>1. CASE t = s
      BY <2>1, <2>2, <3>1 DEF TypeOK
    <3>2. CASE t # s
      <4>1. running'[t] = running[t] /\ running[t] \in Past
        BY <2>2, <2>5, <3>2 DEF TypeOK
      <4> QED BY <1>0, <2>1, <2>2, <2>5, <4>1 DEF TypeOK, ClaimInv
    <3> QED BY <3>1, <3>2
  <2>6. \A i \in Ids : i # launched' => status'[i] = status[i] /\ worker'[i] = worker[i]
    BY <2>2 DEF TypeOK
  <2>7. status'[launched'] = "queued" /\ worker'[launched'] = "launch"
    BY <2>1, <2>2 DEF TypeOK
  <2> QED
    BY <2>4, <2>5, <2>6, <2>7 DEF ClaimInv, Settled
<1>2. ASSUME NEW i \in Ids, StartThread(i) \/ StartRaises(i) PROVE ClaimInv'
  BY <1>0, <1>2 DEF StartThread, StartRaises, ClaimInv, TypeOK
<1>3. ASSUME NEW i \in Ids, Begin(i) PROVE ClaimInv'
  BY <1>0, <1>3 DEF Begin, ClaimInv, TypeOK, Settled
<1>4. ASSUME NEW i \in Ids, Settle(i) PROVE ClaimInv'
  BY <1>0, <1>4 DEF Settle, ClaimInv, TypeOK, Settled
<1>5. ASSUME NEW i \in Ids, ReleaseClaim(i) PROVE ClaimInv'
  <2>1. status[i] \in Settled /\ UNCHANGED <<records, scope, status>>
    BY <1>5 DEF ReleaseClaim, TypeOK
  <2>2. \A s \in Scopes : running'[s] = running[s] \/ (running[s] = i /\ running'[s] = NoId)
    BY <1>5 DEF ReleaseClaim, TypeOK
  <2>3. \A j \in records : scope[j] \in Scopes
    BY <1>0 DEF TypeOK, Past
  <2>4. \A j \in records' : status'[j] \notin Settled => running'[scope'[j]] = j
    BY <1>0, <2>1, <2>2, <2>3 DEF ClaimInv
  <2>5. \A s \in Scopes : running'[s] # NoId => scope'[running'[s]] = s
    BY <2>1, <2>2 DEF ClaimInv
  <2>6. \A j \in Ids : worker'[j] = worker[j] \/ worker'[j] = "gone"
    BY <1>5 DEF ReleaseClaim, TypeOK
  <2> QED BY <2>1, <2>4, <2>5, <2>6 DEF ClaimInv
<1>6. CASE UNCHANGED vars
  BY <1>6 DEF vars, ClaimInv
<1> QED
  BY <1>1, <1>2, <1>3, <1>4, <1>5, <1>6 DEF Next, Worker

\* The dashboard never lists two actions of one scope in progress, whatever the
\* number of scopes, the length of the deque and the order in which runs end.
THEOREM OneInProgressKept == Spec => []OneInProgress
<1> USE ConstantsAssumption
<1>1. Init => TableInv /\ ClaimInv
  BY DEF Init, TableInv, ClaimInv, Oldest, Settled, NoId
<1>2. ClaimInv => OneInProgress
  BY DEF ClaimInv, OneInProgress
<1> QED
  BY <1>1, <1>2, TableStep, ClaimStep, TypeCorrect, PTL DEF Spec

-----------------------------------------------------------------------------
(* What the operators and the users are told                               *)

\* A portal session, what a target comes to, and a record.
SessionRecords == [sync : {"none", "success", "skipped", "error"}, auth : BOOLEAN, verified : Times]
Results == [status : Statuses \union {"raises"}, parts : SUBSET Parts, api : BOOLEAN]
Records == [job : Jobs, scope : RowScopes, row : Rows]

\* Every variable has its type, and a process holds at most one record.
HealthKinds ==
  /\ mode \in Modes /\ now \in 1 .. MaxTime
  /\ linked \in [Users -> Times] /\ kept \subseteq Linked
  /\ \A u \in Users : linked[u] <= now
  /\ session \in [Users -> SessionRecords]
  /\ rows \in [Jobs -> [RowScopes -> Rows]]
  /\ feeds \in [Kinds -> [at : Times, ok : BOOLEAN, shot : Times]]
  /\ run \in [job : {"none", "uclass", "portal", "weather"}, todo : SUBSET Users,
              got : SUBSET Results]
  /\ held \in [Procs -> SUBSET Records]
  /\ \A p \in Procs : \A one, other \in held[p] : one = other
  /\ bad \in [Users -> SUBSET {"uclass", "portal"}]
  /\ raced \subseteq Users /\ missed \subseteq {"uclass", "portal", "weather"}
  /\ runs \in 0 .. MaxRuns /\ changes \in 0 .. MaxChanges

\* What a row of a job says hangs together: only failed runs name an error, failed runs of the
\* weather and of Telegram do, and a timetable that asked for a login or tried the official API
\* in vain has failed or has fallen back.
Shaped(j, r) ==
  /\ r.error => r.status = "error"
  /\ j \in {"telegram", "weather"} /\ r.status = "error" => r.error
  /\ j = "portal" =>
       /\ r.parts \intersect {"auth", "target"} # {} => r.status = "error"
       /\ "attempt" \in r.parts /\ "unsupported" \notin r.parts =>
            r.status = "error" \/ "fallback" \in r.parts

\* So does every row and every record that will be one.
AllShaped ==
  /\ \A j \in Jobs, s \in RowScopes : Shaped(j, rows[j][s])
  /\ \A p \in Procs : \A rec \in held[p] : Shaped(rec.job, rec.row)

\* The cycles of the logins go through connected users, whose alone the records of the cycle and
\* the failures are; only the cycle records the whole of UClass and the portal.
OfLinked ==
  /\ run.job = "none" => run = NoRun
  /\ run.job \in {"uclass", "portal"} => Linked # {} /\ run.todo \subseteq Linked
  /\ run.job = "weather" => run.todo # {}
  /\ \A rec \in held["sync"] : rec.scope \in Users /\ rec.job # "weather" => rec.scope \in Linked
  /\ \A rec \in held["ops"] : rec.scope = All => rec.job = "weather"
  /\ \A u \in Users \ Linked : bad[u] = {}
  /\ missed \ {"weather"} # {} => Linked # {}

\* A failure in the last run of UClass or of the portal is in the row of the whole, or in the
\* record about to be.
MissedRecorded ==
  /\ \A j \in missed \ {"weather"} :
       \/ rows[j][All].status = "error"
       \/ \E rec \in held["sync"] : rec.job = j /\ rec.scope = All
  /\ \A rec \in held["sync"] : rec.scope = All /\ rec.job \in missed \ {"weather"} => rec.row.status = "error"

\* The row r shows that the last attempt of user u's collection failed: an error since the last
\* login, or a timetable that was not collected.
Fails(j, u, r) ==
  CASE j = "uclass" -> r.status = "error" /\ r.at >= linked[u] /\ r.at # 0
    [] OTHER -> \/ r.status = "error"
                \/ /\ r.status = "skipped"
                   /\ mode = "catalog" \/ (session[u].sync = "skipped" /\ ~ r.api)

\* The last failure of a user is in the user's row, or in the one record about to be that row,
\* unless two processes recorded the user at once.
BadRecorded ==
  \A u \in Users \ raced, j \in {"uclass", "portal"} :
    /\ j \in bad[u] => \/ Fails(j, u, rows[j][u])
                       \/ \E p \in Procs : \E rec \in held[p] : rec.job = j /\ rec.scope = u
    /\ \A p \in Procs : \A rec \in held[p] : rec.job = j /\ rec.scope = u =>
         /\ j \in bad[u] => Fails(j, u, rec.row)
         /\ \A q \in Procs \ {p} : \A other \in held[q] : ~ (other.job = j /\ other.scope = u)

HealthInv == HealthKinds /\ AllShaped /\ OfLinked /\ MissedRecorded /\ BadRecorded

\* The times of the model, and its jobs.
LEMMA HealthSets ==
  /\ All \notin Users /\ Users \subseteq RowScopes /\ All \in RowScopes /\ Regional \subseteq Users
  /\ "sync" \in Procs /\ "ops" \in Procs /\ \A p \in Procs : p = "sync" \/ p = "ops"
  /\ {"portal", "uclass", "weather", "telegram"} \subseteq Jobs
  BY HealthAssumption DEF RowScopes, Procs, Jobs

\* A row keeps the time of a success.
LEMMA SuccessKept ==
  ASSUME HealthKinds
  PROVE  now \in Times /\ \A j \in Jobs, s \in RowScopes : rows[j][s].okAt \in Times
<1>1. now \in Times /\ \A j \in Jobs, s \in RowScopes : rows[j][s] \in Rows
  BY HealthAssumption DEF HealthKinds, Times
<1> QED
  BY <1>1 DEF Rows

\* Parts that may go wrong are parts.
LEMMA FlawsAreParts == \A parts \in SUBSET Parts : \A ps \in Flaws(parts) : ps \subseteq parts
  BY DEF Flaws

\* What a collection of UClass can come to.
LEMMA UClassResults ==
  ASSUME NEW o \in UClassOutcomes
  PROVE  o.status \in {"error", "success"} /\ o.parts \subseteq Parts
<1>1. {"service", "download", "semantic"} \subseteq Parts
  BY DEF Parts
<1> QED
  BY <1>1, FlawsAreParts DEF UClassOutcomes

\* What a collection of a timetable can come to.
LEMMA PortalResults ==
  ASSUME NEW o \in PortalOutcomes \union {SecretGone}
  PROVE  /\ o \in Results
         /\ o.status \in {"raises", "success", "skipped", "error"}
         /\ "target" \notin o.parts /\ ("auth" \in o.parts => o.status = "error")
         /\ "attempt" \in o.parts => o.status = "error" \/ "fallback" \in o.parts
         /\ o.status = "skipped" /\ mode # "catalog" => ~ o.api
<1>1. CASE o = SecretGone
  BY <1>1 DEF SecretGone, Results, Statuses, Parts
<1>2. CASE o \in PortalOutcomes
  <2> DEFINE Raises == [status |-> "raises", parts |-> {}, api |-> FALSE]
             Official == [status |-> "success", parts |-> {}, api |-> TRUE]
  <2>9. /\ {} \in SUBSET Parts /\ {"unsupported"} \in SUBSET Parts /\ {"attempt"} \in SUBSET Parts
        /\ {"auth"} \in SUBSET Parts /\ {"fallback", "attempt"} \in SUBSET Parts
        /\ {"auth", "fallback", "attempt"} \in SUBSET Parts
        /\ {"success", "skipped", "error", "raises"} \subseteq Statuses \union {"raises"}
    BY DEF Parts, Statuses
  <2>1. CASE o = Raises
    BY <2>9, <2>1 DEF Results
  <2>2. CASE mode = "catalog" /\ o # Raises
    <3>1. \/ o = Official
          \/ o = [status |-> "skipped", parts |-> {}, api |-> TRUE]
          \/ o = [status |-> "skipped", parts |-> {"unsupported"}, api |-> TRUE]
          \/ o = [status |-> "error", parts |-> {"attempt"}, api |-> TRUE]
      BY <1>2, <2>2 DEF PortalOutcomes
    <3>4. CASE o = Official
      BY <2>9, <2>2, <3>4 DEF Results
    <3>5. CASE o = [status |-> "skipped", parts |-> {}, api |-> TRUE]
      BY <2>9, <2>2, <3>5 DEF Results
    <3>6. CASE o = [status |-> "skipped", parts |-> {"unsupported"}, api |-> TRUE]
      BY <2>9, <2>2, <3>6 DEF Results
    <3>7. CASE o = [status |-> "error", parts |-> {"attempt"}, api |-> TRUE]
      BY <2>9, <2>2, <3>7 DEF Results
    <3> QED
      BY <3>1, <3>4, <3>5, <3>6, <3>7
  <2>3. CASE mode = "api" /\ o # Raises
    <3>1. \/ o = Official
          \/ o = [status |-> "success", parts |-> {} \union {"fallback", "attempt"}, api |-> FALSE]
          \/ o = [status |-> "skipped", parts |-> {} \union {"fallback", "attempt"}, api |-> FALSE]
          \/ o = [status |-> "error", parts |-> {"auth"} \union {"fallback", "attempt"}, api |-> FALSE]
      BY <1>2, <2>3 DEF PortalOutcomes
    <3>2. /\ {} \union {"fallback", "attempt"} = {"fallback", "attempt"}
          /\ {"auth"} \union {"fallback", "attempt"} = {"auth", "fallback", "attempt"}
      OBVIOUS
    <3>4. CASE o = Official
      BY <2>9, <2>3, <3>4 DEF Results
    <3>5. CASE o = [status |-> "success", parts |-> {"fallback", "attempt"}, api |-> FALSE]
      BY <2>9, <2>3, <3>5 DEF Results
    <3>6. CASE o = [status |-> "skipped", parts |-> {"fallback", "attempt"}, api |-> FALSE]
      BY <2>9, <2>3, <3>6 DEF Results
    <3>7. CASE o = [status |-> "error", parts |-> {"auth", "fallback", "attempt"}, api |-> FALSE]
      BY <2>9, <2>3, <3>7 DEF Results
    <3> QED
      BY <3>1, <3>2, <3>4, <3>5, <3>6, <3>7
  <2>4. CASE mode \notin {"catalog", "api"} /\ o # Raises
    <3>1. \/ o = [status |-> "success", parts |-> {}, api |-> FALSE]
          \/ o = [status |-> "skipped", parts |-> {}, api |-> FALSE]
          \/ o = [status |-> "error", parts |-> {"auth"}, api |-> FALSE]
      BY <1>2, <2>4 DEF PortalOutcomes
    <3>4. CASE o = [status |-> "success", parts |-> {}, api |-> FALSE]
      BY <2>9, <2>4, <3>4 DEF Results
    <3>5. CASE o = [status |-> "skipped", parts |-> {}, api |-> FALSE]
      BY <2>9, <2>4, <3>5 DEF Results
    <3>6. CASE o = [status |-> "error", parts |-> {"auth"}, api |-> FALSE]
      BY <2>9, <2>4, <3>6 DEF Results
    <3> QED
      BY <3>1, <3>4, <3>5, <3>6
  <2> QED
    BY <2>1, <2>2, <2>3, <2>4
<1> QED
  BY <1>1, <1>2

\* The record of such a collection.
LEMMA PortalRecordIs ==
  ASSUME HealthKinds, NEW u \in Users, NEW o \in PortalOutcomes \union {SecretGone}
  PROVE  /\ PortalRecord(u, o) \in Records
         /\ PortalRecord(u, o).job = "portal" /\ PortalRecord(u, o).scope = u
         /\ PortalRecord(u, o).row.at = now /\ Shaped("portal", PortalRecord(u, o).row)
         /\ PortalRecord(u, o).row.status = IF o.status = "raises" THEN "error" ELSE o.status
         /\ PortalRecord(u, o).row.status = "skipped" /\ mode # "catalog" =>
              ~ PortalRecord(u, o).row.api
<1>1. "portal" \in Jobs /\ u \in RowScopes
  BY DEF Jobs, RowScopes
<1>2. CASE o.status = "raises"
  <2>1. "error" \in Statuses /\ {} \in SUBSET Parts /\ FALSE \in BOOLEAN
    BY DEF Statuses
  <2> QED
    <3> DEFINE rec == Record("portal", u, "error", FALSE, {}, FALSE)
    <3>1. PortalRecord(u, o) = rec
      BY <1>2 DEF PortalRecord
    <3>2. /\ rec \in Records /\ rec.job = "portal" /\ rec.scope = u
          /\ rec.row.status = "error" /\ rec.row.at = now /\ rec.row.error = FALSE
          /\ rec.row.parts = {}
      BY <1>1, <2>1, SuccessKept DEF Record, Records, Rows
    <3> HIDE DEF rec
    <3> QED
      BY <1>2, <3>1, <3>2 DEF Shaped
<1>3. CASE o.status # "raises"
  <2>1. /\ o.status \in Statuses /\ o.parts \in SUBSET Parts /\ o.api \in BOOLEAN
        /\ FALSE \in BOOLEAN
    BY <1>3, PortalResults DEF Results
  <2> QED
    <3> DEFINE rec == Record("portal", u, o.status, FALSE, o.parts, o.api)
    <3>1. PortalRecord(u, o) = rec
      BY <1>3 DEF PortalRecord
    <3>2. /\ rec \in Records /\ rec.job = "portal" /\ rec.scope = u
          /\ rec.row.status = o.status /\ rec.row.at = now /\ rec.row.error = FALSE
          /\ rec.row.parts = o.parts /\ rec.row.api = o.api
      BY <1>1, <2>1, SuccessKept DEF Record, Records, Rows
    <3> HIDE DEF rec
    <3>3. Shaped("portal", rec.row)
      BY <3>2, PortalResults DEF Shaped
    <3> QED
      BY <1>3, <3>1, <3>2, <3>3, PortalResults
<1> QED
  BY <1>2, <1>3

\* The records the actions make.
UClassRecord(u, o) == Record("uclass", u, o.status, FALSE, o.parts, FALSE)
NamedUClassRecord(u, o) == Record("uclass", u, o.status, o.status = "error", o.parts, FALSE)
SkippedRecord(j, s) == Record(j, s, "skipped", FALSE, {}, FALSE)
ErrorRecord(j, s) == Record(j, s, "error", TRUE, {}, FALSE)
SuccessRecord(j, s, ps) == Record(j, s, "success", FALSE, ps, FALSE)

\* The record of a target of UClass in the cycle.
LEMMA UClassRecordIs ==
  ASSUME HealthKinds, NEW u \in Users, NEW o \in UClassOutcomes, NEW rec,
         rec = UClassRecord(u, o)
  PROVE  /\ rec \in Records /\ rec.job = "uclass" /\ rec.scope = u /\ Shaped("uclass", rec.row)
         /\ rec.row.status = o.status /\ rec.row.at = now
<1>1. "uclass" \in Jobs /\ u \in RowScopes /\ o.status \in Statuses /\ o.parts \in SUBSET Parts
  BY UClassResults DEF Jobs, RowScopes, Statuses
<1> QED
  BY <1>1, SuccessKept DEF UClassRecord, Record, Records, Rows, Shaped

\* ... and in a refresh, which names the error.
LEMMA NamedUClassRecordIs ==
  ASSUME HealthKinds, NEW u \in Users, NEW o \in UClassOutcomes, NEW rec,
         rec = NamedUClassRecord(u, o)
  PROVE  /\ rec \in Records /\ rec.job = "uclass" /\ rec.scope = u /\ Shaped("uclass", rec.row)
         /\ rec.row.status = o.status /\ rec.row.at = now
<1>1. "uclass" \in Jobs /\ u \in RowScopes /\ o.status \in Statuses /\ o.parts \in SUBSET Parts
  BY UClassResults DEF Jobs, RowScopes, Statuses
<1>2. CASE o.status = "error"
  <2>1. rec = Record("uclass", u, o.status, TRUE, o.parts, FALSE)
    BY <1>2 DEF NamedUClassRecord
  <2> QED
    BY <1>1, <1>2, <2>1, SuccessKept DEF Record, Records, Rows, Shaped
<1>3. CASE o.status # "error"
  <2>1. rec = Record("uclass", u, o.status, FALSE, o.parts, FALSE)
    BY <1>3 DEF NamedUClassRecord
  <2> QED
    BY <1>1, <1>3, <2>1, SuccessKept DEF Record, Records, Rows, Shaped
<1> QED
  BY <1>2, <1>3

\* The record of a user or a cycle without a target.
LEMMA SkippedRecordIs ==
  ASSUME HealthKinds, NEW j \in {"uclass", "portal"}, NEW s \in RowScopes, NEW rec,
         rec = SkippedRecord(j, s)
  PROVE  /\ rec \in Records /\ rec.job = j /\ rec.scope = s /\ Shaped(j, rec.row)
<1>1. j \in Jobs /\ "skipped" \in Statuses /\ {} \in SUBSET Parts
  BY DEF Jobs, Statuses
<1> QED
  BY <1>1, SuccessKept DEF SkippedRecord, Record, Records, Rows, Shaped

\* The record of the weather and of a cycle of Telegram: an error is named, a success names the
\* parts that failed.
LEMMA NamedRecordIs ==
  ASSUME HealthKinds, NEW j \in {"weather", "telegram"}, NEW s \in RowScopes, NEW rec,
         NEW parts \in SUBSET Parts,
         \/ rec = ErrorRecord(j, s)
         \/ \E ps \in Flaws(parts) : rec = SuccessRecord(j, s, ps)
  PROVE  /\ rec \in Records /\ rec.job = j /\ rec.scope = s /\ Shaped(j, rec.row)
<1>1. j \in Jobs /\ "error" \in Statuses /\ "success" \in Statuses /\ {} \in SUBSET Parts
  BY DEF Jobs, Statuses
<1>2. CASE rec = ErrorRecord(j, s)
  BY <1>1, <1>2, SuccessKept DEF ErrorRecord, SuccessRecord, Record, Records, Rows, Shaped
<1>3. CASE \E ps \in Flaws(parts) : rec = SuccessRecord(j, s, ps)
  <2>1. PICK ps \in SUBSET Parts : rec = SuccessRecord(j, s, ps)
    BY <1>3, FlawsAreParts
  <2> QED
    BY <1>1, <2>1, SuccessKept DEF ErrorRecord, SuccessRecord, Record, Records, Rows, Shaped
<1> QED
  BY <1>2, <1>3

\* The record of a cycle is an error if a target of it has failed.
LEMMA OverallRecordIs ==
  ASSUME HealthKinds, NEW j \in {"uclass", "portal"}, NEW rec, rec = OverallRecord(j, run.got)
  PROVE  /\ rec \in Records /\ rec.job = j /\ rec.scope = All /\ Shaped(j, rec.row)
         /\ Failed(run.got) # {} => rec.row.status = "error"
<1> DEFINE parts == IF j = "portal"
                    THEN {p \in {"fallback"} : \E g \in run.got : p \in g.parts} \union
                         {p \in {"target"} : \E g \in run.got : g.status = "raises"}
                    ELSE {p \in {"semantic"} :
                            \E g \in run.got : g.parts \intersect {"download", "semantic"} # {}}
           api == \E g \in run.got : g.api
<1>1. j \in Jobs /\ All \in RowScopes
  BY DEF Jobs, RowScopes
<1>2. OverallStatus(run.got) \in Statuses /\ (Failed(run.got) # {} => OverallStatus(run.got) = "error")
  BY DEF OverallStatus, Statuses
<1>3. parts \in SUBSET Parts /\ "attempt" \notin parts /\ "auth" \notin parts
  BY DEF Parts
<1>4. "target" \in parts => Failed(run.got) # {}
  BY DEF Failed
<1>5. PICK named \in BOOLEAN : named = api
  OBVIOUS
<1>6. rec = [job |-> j, scope |-> All,
             row |-> [status |-> OverallStatus(run.got), at |-> now, error |-> FALSE,
                      parts |-> parts, api |-> named,
                      okAt |-> IF OverallStatus(run.got) = "success" THEN now
                               ELSE rows[j][All].okAt]]
  BY <1>5 DEF OverallRecord, Record
<1> HIDE DEF parts, api
<1> QED
  BY <1>1, <1>2, <1>3, <1>4, <1>6, SuccessKept DEF Records, Rows, Shaped

\* A process that held nothing has made the record rec.
Made(p, rec) ==
  /\ Idle(p) /\ rec \in Records /\ Shaped(rec.job, rec.row)
  /\ held' = [held EXCEPT ![p] = {rec}]
  /\ UNCHANGED <<mode, linked, kept, now, rows, feeds, changes>>

\* A record that is made is the only one of its process, and has its shape.
LEMMA MadeIsAlone ==
  ASSUME HealthKinds, NEW p \in Procs, NEW rec, Made(p, rec)
  PROVE  /\ held' \in [Procs -> SUBSET Records]
         /\ \A q \in Procs : \A one, other \in held'[q] : one = other
         /\ held'[p] = {rec} /\ held[p] = {} /\ \A q \in Procs \ {p} : held'[q] = held[q]
<1>1. held \in [Procs -> SUBSET Records]
      /\ \A q \in Procs : \A one, other \in held[q] : one = other
  BY DEF HealthKinds
<1>2. held' = [held EXCEPT ![p] = {rec}] /\ rec \in Records /\ held[p] = {}
  BY DEF Made, Idle
<1> QED
  BY <1>1, <1>2

\* Making it keeps the shapes.
LEMMA MadeShaped ==
  ASSUME HealthKinds, AllShaped, NEW p \in Procs, NEW rec, Made(p, rec)
  PROVE  AllShaped'
<1>1. rows' = rows /\ Shaped(rec.job, rec.row)
  BY DEF Made
<1> QED
  BY <1>1, MadeIsAlone DEF AllShaped, Shaped

\* The types, where the run, the session and the history have theirs.
LEMMA MadeKinds ==
  ASSUME HealthKinds, NEW p \in Procs, NEW rec, Made(p, rec), runs' \in 0 .. MaxRuns,
         session' \in [Users -> SessionRecords], bad' \in [Users -> SUBSET {"uclass", "portal"}],
         run' \in [job : {"none", "uclass", "portal", "weather"}, todo : SUBSET Users,
                   got : SUBSET Results],
         raced' \subseteq Users, missed' \subseteq {"uclass", "portal", "weather"}
  PROVE  HealthKinds'
  BY MadeIsAlone DEF Made, HealthKinds, Linked

\* A cycle's failures stay in its row or in the record that will be its row.
LEMMA MadeMissed ==
  ASSUME HealthKinds, MissedRecorded, NEW p \in Procs, NEW rec, Made(p, rec),
         p # "sync" => missed' = missed,
         rec.scope = All /\ rec.job \in missed' \ {"weather"} /\ p = "sync" => rec.row.status = "error",
         \A j \in (missed' \ missed) \ {"weather"} : rec.scope = All /\ rec.job = j
  PROVE  MissedRecorded'
<1>1. rows' = rows
  BY DEF Made
<1>2. "sync" \in Procs
  BY DEF Procs
<1>3. CASE p = "sync"
  <2>1. held["sync"] = {} /\ held'["sync"] = {rec}
    BY <1>3, MadeIsAlone
  <2>2. \A j \in missed \ {"weather"} : rows[j][All].status = "error"
    BY <2>1 DEF MissedRecorded
  <2> QED
    BY <1>1, <1>3, <2>1, <2>2 DEF MissedRecorded
<1>4. CASE p # "sync"
  <2>1. held'["sync"] = held["sync"] /\ missed' = missed
    BY <1>2, <1>4, MadeIsAlone
  <2> QED
    BY <1>1, <2>1 DEF MissedRecorded
<1> QED
  BY <1>3, <1>4

\* A record of no attempt leaves what is known of the failures as it is.
LEMMA MadeWithoutAttempt ==
  ASSUME HealthKinds, BadRecorded, NEW p \in Procs, NEW rec, Made(p, rec),
         UNCHANGED <<bad, raced, session>>,
         rec.job \in {"uclass", "portal"} /\ rec.scope \in Users =>
           /\ bad[rec.scope] = {}
           /\ \A q \in Procs \ {p} : \A other \in held[q] :
                ~ (other.job = rec.job /\ other.scope = rec.scope)
  PROVE  BadRecorded'
<1>1. rows' = rows /\ mode' = mode /\ linked' = linked
  BY DEF Made
<1>2. \A j, u, r : Fails(j, u, r)' <=> Fails(j, u, r)
  BY <1>1 DEF Fails
<1> SUFFICES ASSUME NEW u \in Users \ raced, NEW j \in {"uclass", "portal"}
             PROVE  /\ j \in bad[u] => \/ Fails(j, u, rows[j][u])
                                       \/ \E q \in Procs : \E one \in held'[q] :
                                            one.job = j /\ one.scope = u
                    /\ \A q \in Procs : \A one \in held'[q] : one.job = j /\ one.scope = u =>
                         /\ j \in bad[u] => Fails(j, u, one.row)
                         /\ \A o \in Procs \ {q} : \A other \in held'[o] :
                              ~ (other.job = j /\ other.scope = u)
  BY <1>1, <1>2 DEF BadRecorded
<1>3. j \in bad[u] => \/ Fails(j, u, rows[j][u])
                      \/ \E q \in Procs : \E one \in held'[q] : one.job = j /\ one.scope = u
  <2>1. CASE \E q \in Procs : \E one \in held[q] : one.job = j /\ one.scope = u
    BY <2>1, MadeIsAlone
  <2> QED
    BY <2>1 DEF BadRecorded
<1>4. ASSUME NEW q \in Procs, NEW one \in held'[q], one.job = j, one.scope = u
      PROVE  /\ j \in bad[u] => Fails(j, u, one.row)
             /\ \A o \in Procs \ {q} : \A other \in held'[o] :
                  ~ (other.job = j /\ other.scope = u)
  <2>1. CASE q = p
    <3>1. one = rec
      BY <2>1, <1>4, MadeIsAlone
    <3> QED
      BY <1>4, <2>1, <3>1, MadeIsAlone
  <2>2. CASE q # p
    <3>1. one \in held[q]
      BY <1>4, <2>2, MadeIsAlone
    <3>2. ~ (rec.job = j /\ rec.scope = u)
      BY <1>4, <2>2, <3>1
    <3>3. /\ j \in bad[u] => Fails(j, u, one.row)
          /\ \A o \in Procs \ {q} : \A other \in held[o] : ~ (other.job = j /\ other.scope = u)
      BY <1>4, <3>1 DEF BadRecorded
    <3> QED
      BY <2>2, <3>2, <3>3, MadeIsAlone
  <2> QED
    BY <2>1, <2>2
<1> QED
  BY <1>3, <1>4

\* An attempt of a user's collection, recorded with what it came to.
LEMMA MadeOfAttempt ==
  ASSUME HealthKinds, BadRecorded, NEW p \in Procs, NEW rec, Made(p, rec),
         NEW j \in {"uclass", "portal"}, NEW u \in Users, rec.job = j, rec.scope = u,
         NEW fine \in BOOLEAN, Attempted(p, j, u, fine),
         \A v \in Users : session'[v] = session[v] \/ (j = "portal" /\ v = u),
         ~ fine => Fails(j, u, rec.row)'
  PROVE  BadRecorded'
<1>1. rows' = rows /\ mode' = mode /\ linked' = linked
  BY DEF Made
<1>2. /\ bad' = [bad EXCEPT ![u] = IF fine THEN bad[u] \ {j} ELSE bad[u] \union {j}]
      /\ raced \subseteq raced'
      /\ Racing(p, j, u) => u \in raced'
  BY DEF Attempted
<1>3. bad \in [Users -> SUBSET {"uclass", "portal"}]
  BY DEF HealthKinds
<1>4. /\ j \in bad'[u] <=> ~ fine
      /\ \A v \in Users, k \in {"uclass", "portal"} :
           v # u \/ k # j => (k \in bad'[v] <=> k \in bad[v])
  BY <1>2, <1>3
<1>5. ASSUME NEW v \in Users, NEW k \in {"uclass", "portal"}, NEW r, v # u \/ k # j
      PROVE  Fails(k, v, r)' <=> Fails(k, v, r)
  <2>1. k = "uclass" \/ session'[v] = session[v]
    BY <1>5
  <2> QED
    BY <1>1, <2>1 DEF Fails
<1> SUFFICES ASSUME NEW v \in Users \ raced', NEW k \in {"uclass", "portal"}
             PROVE  /\ k \in bad'[v] => \/ Fails(k, v, rows[k][v])'
                                        \/ \E q \in Procs : \E one \in held'[q] :
                                             one.job = k /\ one.scope = v
                    /\ \A q \in Procs : \A one \in held'[q] : one.job = k /\ one.scope = v =>
                         /\ k \in bad'[v] => Fails(k, v, one.row)'
                         /\ \A o \in Procs \ {q} : \A other \in held'[o] :
                              ~ (other.job = k /\ other.scope = v)
  BY DEF BadRecorded
<1>6. v \in Users \ raced
  BY <1>2
<1>7. CASE v = u /\ k = j
  <2>1. \A q \in Procs \ {p} : \A one \in held[q] : ~ (one.job = k /\ one.scope = v)
    BY <1>2, <1>7 DEF Racing
  <2> QED
    BY <1>4, <1>7, <2>1, MadeIsAlone
<1>8. CASE v # u \/ k # j
  <2>0. ~ (rec.job = k /\ rec.scope = v)
    BY <1>8
  <2>1. k \in bad'[v] => \/ Fails(k, v, rows[k][v])
                         \/ \E q \in Procs : \E one \in held[q] : one.job = k /\ one.scope = v
    BY <1>4, <1>6, <1>8 DEF BadRecorded
  <2>2. k \in bad'[v] => \/ Fails(k, v, rows[k][v])'
                         \/ \E q \in Procs : \E one \in held'[q] : one.job = k /\ one.scope = v
    <3>1. CASE \E q \in Procs : \E one \in held[q] : one.job = k /\ one.scope = v
      BY <3>1, MadeIsAlone
    <3>2. CASE Fails(k, v, rows[k][v])
      BY <1>1, <1>5, <1>8, <3>2
    <3> QED
      BY <2>1, <3>1, <3>2
  <2>3. ASSUME NEW q \in Procs, NEW one \in held'[q], one.job = k, one.scope = v
        PROVE  /\ k \in bad'[v] => Fails(k, v, one.row)'
               /\ \A o \in Procs \ {q} : \A other \in held'[o] :
                    ~ (other.job = k /\ other.scope = v)
    <3>1. q # p /\ one \in held[q]
      BY <2>0, <2>3, MadeIsAlone
    <3>2. /\ k \in bad[v] => Fails(k, v, one.row)
          /\ \A o \in Procs \ {q} : \A other \in held[o] : ~ (other.job = k /\ other.scope = v)
      BY <1>6, <2>3, <3>1 DEF BadRecorded
    <3>3. k \in bad'[v] => Fails(k, v, one.row)'
      BY <1>4, <1>5, <1>8, <3>2
    <3> QED
      BY <2>0, <3>2, <3>3, MadeIsAlone
  <2> QED
    BY <2>2, <2>3
<1> QED
  BY <1>7, <1>8

\* An attempt keeps the types of what is known of the failures.
LEMMA AttemptKinds ==
  ASSUME HealthKinds, NEW p, NEW j \in {"uclass", "portal"}, NEW u \in Users, NEW fine \in BOOLEAN,
         Attempted(p, j, u, fine)
  PROVE  bad' \in [Users -> SUBSET {"uclass", "portal"}] /\ raced' \subseteq Users
<1>1. bad \in [Users -> SUBSET {"uclass", "portal"}] /\ raced \subseteq Users
  BY DEF HealthKinds
<1>2. bad' = [bad EXCEPT ![u] = IF fine THEN bad[u] \ {j} ELSE bad[u] \union {j}]
  BY DEF Attempted
<1>3. raced' = raced \union {u} \/ raced' = raced
  BY DEF Attempted
<1> QED
  BY <1>1, <1>2, <1>3

\* A user that is not connected has no failure.
LEMMA AttemptOfLinked ==
  ASSUME HealthKinds, OfLinked, NEW p, NEW j \in {"uclass", "portal"}, NEW u \in Linked,
         NEW fine \in BOOLEAN, Attempted(p, j, u, fine), linked' = linked
  PROVE  \A v \in Users \ Linked' : bad'[v] = {}
<1>1. bad \in [Users -> SUBSET {"uclass", "portal"}] /\ Linked' = Linked
  BY DEF HealthKinds, Linked
<1>2. bad' = [bad EXCEPT ![u] = IF fine THEN bad[u] \ {j} ELSE bad[u] \union {j}]
  BY DEF Attempted
<1> QED
  BY <1>1, <1>2 DEF OfLinked

\* The session after a collection, of this user alone.
LEMMA SessionAfterIs ==
  ASSUME HealthKinds, NEW u \in Users, NEW o \in PortalOutcomes \union {SecretGone},
         SessionAfter(u, o)
  PROVE  /\ session' \in [Users -> SessionRecords]
         /\ \A v \in Users \ {u} : session'[v] = session[v]
         /\ o.status # "raises" /\ mode # "catalog" => session'[u].sync = o.status
<1>1. session \in [Users -> SessionRecords] /\ now \in Times
  BY SuccessKept DEF HealthKinds
<1>2. CASE o.status = "raises" \/ mode = "catalog"
  BY <1>1, <1>2 DEF SessionAfter
<1>3. CASE ~ (o.status = "raises" \/ mode = "catalog")
  <2> DEFINE after == [sync |-> o.status, auth |-> "auth" \in o.parts,
                       verified |-> IF o = SecretGone THEN session[u].verified ELSE now]
  <2>1. session' = [session EXCEPT ![u] = after]
    BY <1>3 DEF SessionAfter
  <2>2. after \in SessionRecords
    <3>1. o.status \in {"success", "skipped", "error"}
      BY <1>3, PortalResults
    <3>2. session[u].verified \in Times
      BY <1>1 DEF SessionRecords
    <3>3. ("auth" \in o.parts) \in BOOLEAN
      OBVIOUS
    <3> QED
      BY <1>1, <3>1, <3>2, <3>3 DEF SessionRecords
  <2>3. after.sync = o.status
    OBVIOUS
  <2> HIDE DEF after
  <2> QED
    BY <1>1, <2>1, <2>2, <2>3
<1> QED
  BY <1>2, <1>3

\* The start of a cycle over the connected users, or its record without one.
LEMMA StartKeeps == ASSUME HealthInv, NEW j \in Jobs, Start(j) PROVE HealthInv'
<1>0. "sync" \in Procs /\ Linked' = Linked /\ j \in {"uclass", "portal"} /\ All \notin Users /\ All \in RowScopes
  BY HealthSets DEF Start, world, Linked
<1>1. runs' \in 0 .. MaxRuns
  BY HealthAssumption DEF Start, Count, HealthInv, HealthKinds
<1>2. CASE Linked = {}
  <2>1. PICK rec : rec = SkippedRecord(j, All)
    OBVIOUS
  <2>2. /\ rec \in Records /\ rec.job = j /\ rec.scope = All /\ Shaped(j, rec.row)
    BY <1>0, <2>1, SkippedRecordIs DEF HealthInv
  <2>3. Made("sync", rec) /\ run' = run /\ missed' = missed \ {j} /\ UNCHANGED <<session, bad, raced>>
    BY <1>2, <2>1, <2>2 DEF Start, Made, world, SkippedRecord
  <2>4. HealthKinds'
    BY <1>0, <1>1, <2>3, MadeKinds DEF HealthInv, HealthKinds
  <2>5. AllShaped'
    BY <1>0, <2>3, MadeShaped DEF HealthInv
  <2>6. OfLinked'
    <3>1. held'["sync"] = {rec} /\ held'["ops"] = held["ops"]
      BY <1>0, <2>3, HealthSets, MadeIsAlone DEF HealthInv
    <3> QED
      BY <1>0, <2>2, <2>3, <3>1 DEF HealthInv, OfLinked, NoRun
  <2>7. MissedRecorded'
    BY <1>0, <2>2, <2>3, MadeMissed DEF HealthInv
  <2>8. BadRecorded'
    BY <1>0, <2>2, <2>3, MadeWithoutAttempt DEF HealthInv
  <2> QED
    BY <2>4, <2>5, <2>6, <2>7, <2>8 DEF HealthInv
<1>3. CASE Linked # {}
  <2>1. /\ run' = [job |-> j, todo |-> Linked, got |-> {}]
        /\ UNCHANGED <<mode, linked, kept, now, session, rows, feeds, held, bad, raced, missed, changes>>
    BY <1>3 DEF Start, world
  <2>2. Linked \subseteq Users
    BY DEF Linked
  <2>3. HealthKinds'
    BY <1>0, <1>1, <2>1, <2>2 DEF HealthInv, HealthKinds
  <2>4. OfLinked'
    BY <1>0, <1>3, <2>1 DEF HealthInv, OfLinked
  <2>5. AllShaped' /\ MissedRecorded' /\ BadRecorded'
    BY <2>1 DEF HealthInv, AllShaped, Shaped, MissedRecorded, BadRecorded, Fails
  <2> QED
    BY <2>3, <2>4, <2>5 DEF HealthInv
<1> QED
  BY <1>2, <1>3

\* What a target adds to the run of its cycle.
LEMMA TargetRun ==
  ASSUME HealthKinds, NEW u, NEW g \in Results,
         run' = [run EXCEPT !.todo = run.todo \ {u}, !.got = run.got \union {g}]
  PROVE  /\ run' \in [job : {"none", "uclass", "portal", "weather"}, todo : SUBSET Users,
                      got : SUBSET Results]
         /\ run'.job = run.job /\ run'.todo \subseteq run.todo
<1>1. run \in [job : {"none", "uclass", "portal", "weather"}, todo : SUBSET Users,
               got : SUBSET Results]
  BY DEF HealthKinds
<1>2. run.todo \ {u} \in SUBSET Users /\ run.got \union {g} \in SUBSET Results
  BY <1>1
<1> QED
  BY <1>1, <1>2

\* A target of UClass.
LEMMA UClassTargetKeeps == ASSUME HealthInv, NEW u \in Users, UClassTarget(u) PROVE HealthInv'
<1>0. /\ "sync" \in Procs /\ "ops" \in Procs /\ Linked' = Linked /\ All \notin Users
      /\ run.job = "uclass" /\ HealthKinds
  BY HealthSets DEF UClassTarget, world, Linked, HealthInv
<1>1. PICK o \in UClassOutcomes :
         /\ held' = [held EXCEPT !["sync"] = {UClassRecord(u, o)}]
         /\ run' = [run EXCEPT !.todo = run.todo \ {u},
                               !.got = run.got \union {[status |-> o.status, parts |-> o.parts,
                                                        api |-> FALSE]}]
         /\ Attempted("sync", "uclass", u, o.status = "success")
  BY DEF UClassTarget, UClassRecord
<1>2. PICK rec : rec = UClassRecord(u, o)
  OBVIOUS
<1>3. /\ rec \in Records /\ rec.job = "uclass" /\ rec.scope = u /\ Shaped("uclass", rec.row)
      /\ rec.row.status = o.status /\ rec.row.at = now
  BY <1>0, <1>2, UClassRecordIs
<1>4. Made("sync", rec) /\ UNCHANGED <<session, missed, runs>>
  BY <1>1, <1>2, <1>3 DEF UClassTarget, Made, world
<1>5. /\ run' \in [job : {"none", "uclass", "portal", "weather"}, todo : SUBSET Users,
                   got : SUBSET Results]
      /\ run'.job = "uclass" /\ run'.todo \subseteq run.todo
  <2>1. PICK g : g = [status |-> o.status, parts |-> o.parts, api |-> FALSE]
    OBVIOUS
  <2>2. g \in Results
    BY <2>1, UClassResults DEF Results, Statuses
  <2> QED
    BY <1>0, <1>1, <2>1, <2>2, TargetRun
<1>6. PICK fine \in BOOLEAN : fine = (o.status = "success") /\ Attempted("sync", "uclass", u, fine)
  BY <1>1
<1>7. u \in Linked /\ run.todo \subseteq Linked
  BY <1>0 DEF UClassTarget, HealthInv, OfLinked
<1>8. HealthKinds'
  BY <1>0, <1>4, <1>5, <1>6, MadeKinds, AttemptKinds DEF HealthKinds
<1>9. AllShaped'
  BY <1>0, <1>4, MadeShaped DEF HealthInv
<1>10. OfLinked'
  <2>1. held'["sync"] = {rec} /\ held'["ops"] = held["ops"]
    BY <1>0, <1>4, MadeIsAlone
  <2>2. \A v \in Users \ Linked' : bad'[v] = {}
    BY <1>0, <1>4, <1>6, <1>7, AttemptOfLinked DEF HealthInv, Made
  <2> QED
    BY <1>0, <1>3, <1>4, <1>5, <1>7, <2>1, <2>2 DEF HealthInv, OfLinked
<1>11. MissedRecorded'
  BY <1>0, <1>3, <1>4, MadeMissed DEF HealthInv
<1>12. BadRecorded'
  <2>1. ~ fine => Fails("uclass", u, rec.row)'
    <3>1. linked[u] \in Times /\ linked[u] <= now /\ now \in 1 .. MaxTime
      BY <1>0 DEF HealthKinds
    <3>2. ~ fine => rec.row.status = "error"
      BY <1>3, <1>6, UClassResults
    <3>3. linked' = linked
      BY <1>4 DEF Made
    <3> QED
      BY <1>3, <3>1, <3>2, <3>3 DEF Fails
  <2> QED
    BY <1>0, <1>3, <1>4, <1>6, <2>1, MadeOfAttempt DEF HealthInv
<1> QED
  BY <1>8, <1>9, <1>10, <1>11, <1>12 DEF HealthInv

\* A target of the portal.
LEMMA PortalTargetKeeps == ASSUME HealthInv, NEW u \in Users, PortalTarget(u) PROVE HealthInv'
<1>0. /\ "sync" \in Procs /\ "ops" \in Procs /\ Linked' = Linked /\ All \notin Users
      /\ run.job = "portal" /\ HealthKinds
  BY HealthSets DEF PortalTarget, world, Linked, HealthInv
<1>1. PICK o \in PortalOutcomes \union {SecretGone} :
         /\ held' = [held EXCEPT !["sync"] = {PortalRecord(u, o)}]
         /\ run' = [run EXCEPT !.todo = run.todo \ {u}, !.got = run.got \union {o}]
         /\ SessionAfter(u, o)
         /\ Attempted("sync", "portal", u, o.status = "success")
  BY DEF PortalTarget
<1>2. PICK rec : rec = PortalRecord(u, o)
  OBVIOUS
<1>3. /\ rec \in Records /\ rec.job = "portal" /\ rec.scope = u /\ Shaped("portal", rec.row)
      /\ rec.row.status = IF o.status = "raises" THEN "error" ELSE o.status
      /\ rec.row.status = "skipped" /\ mode # "catalog" => ~ rec.row.api
  BY <1>0, <1>2, PortalRecordIs
<1>4. Made("sync", rec) /\ UNCHANGED <<missed, runs>>
  BY <1>1, <1>2, <1>3 DEF PortalTarget, Made, world
<1>5. /\ run' \in [job : {"none", "uclass", "portal", "weather"}, todo : SUBSET Users,
                   got : SUBSET Results]
      /\ run'.job = "portal" /\ run'.todo \subseteq run.todo
  BY <1>0, <1>1, PortalResults, TargetRun
<1>6. PICK fine \in BOOLEAN : fine = (o.status = "success") /\ Attempted("sync", "portal", u, fine)
  BY <1>1
<1>7. u \in Linked /\ run.todo \subseteq Linked
  BY <1>0 DEF PortalTarget, HealthInv, OfLinked
<1>8. HealthKinds'
  BY <1>0, <1>1, <1>4, <1>5, <1>6, MadeKinds, AttemptKinds, SessionAfterIs DEF HealthKinds
<1>9. AllShaped'
  BY <1>0, <1>4, MadeShaped DEF HealthInv
<1>10. OfLinked'
  <2>1. held'["sync"] = {rec} /\ held'["ops"] = held["ops"]
    BY <1>0, <1>4, MadeIsAlone
  <2>2. \A v \in Users \ Linked' : bad'[v] = {}
    BY <1>0, <1>4, <1>6, <1>7, AttemptOfLinked DEF HealthInv, Made
  <2> QED
    BY <1>0, <1>3, <1>4, <1>5, <1>7, <2>1, <2>2 DEF HealthInv, OfLinked
<1>11. MissedRecorded'
  BY <1>0, <1>3, <1>4, MadeMissed DEF HealthInv
<1>12. BadRecorded'
  <2>1. ~ fine => Fails("portal", u, rec.row)'
    BY <1>0, <1>1, <1>3, <1>4, <1>6, PortalResults, SessionAfterIs DEF Fails, Made
  <2>2. \A v \in Users : session'[v] = session[v] \/ v = u
    BY <1>0, <1>1, SessionAfterIs
  <2> QED
    BY <1>0, <1>3, <1>4, <1>6, <2>1, <2>2, MadeOfAttempt DEF HealthInv
<1> QED
  BY <1>8, <1>9, <1>10, <1>11, <1>12 DEF HealthInv

\* The end of a cycle.
LEMMA FinishRunKeeps == ASSUME HealthInv, FinishRun PROVE HealthInv'
<1>0. /\ "sync" \in Procs /\ "ops" \in Procs /\ Linked' = Linked /\ All \notin Users /\ HealthKinds
      /\ run.job \in {"uclass", "portal"} /\ Linked # {}
  BY HealthSets DEF FinishRun, world, Linked, HealthInv, HealthKinds, OfLinked
<1>1. PICK rec : rec = OverallRecord(run.job, run.got)
  OBVIOUS
<1>2. /\ rec \in Records /\ rec.job = run.job /\ rec.scope = All /\ Shaped(rec.job, rec.row)
      /\ Failed(run.got) # {} => rec.row.status = "error"
  BY <1>0, <1>1, OverallRecordIs
<1>3. /\ Made("sync", rec) /\ UNCHANGED <<session, bad, raced, runs>> /\ run' = NoRun
      /\ missed' = IF Failed(run.got) = {} THEN missed \ {run.job} ELSE missed \union {run.job}
  BY <1>1, <1>2 DEF FinishRun, Made, world
<1>4. run' \in [job : {"none", "uclass", "portal", "weather"}, todo : SUBSET Users,
                got : SUBSET Results]
  BY <1>3 DEF NoRun
<1>5. HealthKinds'
  BY <1>0, <1>3, <1>4, MadeKinds DEF HealthKinds
<1>6. AllShaped'
  BY <1>0, <1>3, MadeShaped DEF HealthInv
<1>7. OfLinked'
  <2>1. held'["sync"] = {rec} /\ held'["ops"] = held["ops"]
    BY <1>0, <1>3, MadeIsAlone
  <2> QED
    BY <1>0, <1>2, <1>3, <2>1 DEF HealthInv, OfLinked, NoRun
<1>8. MissedRecorded'
  BY <1>0, <1>2, <1>3, MadeMissed DEF HealthInv
<1>9. BadRecorded'
  BY <1>0, <1>2, <1>3, MadeWithoutAttempt DEF HealthInv
<1> QED
  BY <1>5, <1>6, <1>7, <1>8, <1>9 DEF HealthInv

\* The weather and the cycles of Telegram concern no login.
LEMMA NamedKeeps ==
  ASSUME HealthInv, NEW p \in Procs, NEW j \in {"weather", "telegram"}, NEW s \in RowScopes,
         NEW rec, NEW parts \in SUBSET Parts,
         rec = ErrorRecord(j, s) \/ \E ps \in Flaws(parts) : rec = SuccessRecord(j, s, ps),
         p = "ops" => j = "weather",
         j = "telegram" => s = All,
         Idle(p), held' = [held EXCEPT ![p] = {rec}], runs' \in 0 .. MaxRuns,
         UNCHANGED <<mode, linked, kept, now, session, rows, feeds, bad, raced, changes>>,
         missed' \ {"weather"} = missed \ {"weather"}, missed' \subseteq missed \union {"weather"},
         p # "sync" => missed' = missed,
         run' \in [job : {"none", "uclass", "portal", "weather"}, todo : SUBSET Users,
                   got : SUBSET Results],
         run'.job = "none" => run' = NoRun,
         run'.job \in {"uclass", "portal"} => run' = run,
         run'.job = "weather" => run'.todo # {}
  PROVE  HealthInv'
<1>0. /\ "sync" \in Procs /\ "ops" \in Procs /\ Linked' = Linked /\ All \notin Users /\ HealthKinds
  BY HealthSets DEF Linked, HealthInv
<1>1. /\ rec \in Records /\ rec.job = j /\ rec.scope = s /\ Shaped(j, rec.row)
  BY <1>0, NamedRecordIs
<1>2. Made(p, rec)
  BY <1>1 DEF Made
<1>3. HealthKinds'
  <2>1. missed' \subseteq {"uclass", "portal", "weather"}
    BY <1>0 DEF HealthKinds
  <2> QED
    BY <1>0, <1>2, <2>1, MadeKinds DEF HealthKinds
<1>4. AllShaped'
  BY <1>0, <1>2, MadeShaped DEF HealthInv
<1>5. OfLinked'
  <2>1. \A q \in Procs : \A one \in held'[q] : one \in held[q] \/ (q = p /\ one = rec)
    BY <1>0, <1>2, MadeIsAlone
  <2> QED
    BY <1>0, <1>1, <2>1 DEF HealthInv, OfLinked, NoRun
<1>6. MissedRecorded'
  <2>1. /\ (missed' \ missed) \ {"weather"} = {} /\ (p # "sync" => missed' = missed)
        /\ missed' \ {"weather"} \subseteq {"uclass", "portal"}
    BY <1>0 DEF HealthKinds
  <2>2. rec.job \notin missed' \ {"weather"}
    BY <1>1, <2>1
  <2> QED
    BY <1>0, <1>2, <2>1, <2>2, MadeMissed DEF HealthInv
<1>7. BadRecorded'
  BY <1>0, <1>1, <1>2, MadeWithoutAttempt DEF HealthInv
<1> QED
  BY <1>3, <1>4, <1>5, <1>6, <1>7 DEF HealthInv

\* The weather of the default region.
LEMMA WeatherDefaultKeeps == ASSUME HealthInv, WeatherDefault PROVE HealthInv'
<1>0. "sync" \in Procs /\ All \in RowScopes /\ {"air"} \in SUBSET Parts /\ Regional \in SUBSET Users
  BY HealthSets DEF Parts
<1>1. runs' \in 0 .. MaxRuns
  BY HealthAssumption DEF WeatherDefault, Count, HealthInv, HealthKinds
<1>2. PICK rec : /\ rec = ErrorRecord("weather", All)
                      \/ \E ps \in Flaws({"air"}) : rec = SuccessRecord("weather", All, ps)
                 /\ held' = [held EXCEPT !["sync"] = {rec}]
  BY DEF WeatherDefault, ErrorRecord, SuccessRecord
<1>3. run' = NoRun \/ (run' = [job |-> "weather", todo |-> Regional, got |-> {}] /\ Regional # {})
  BY DEF WeatherDefault
<1>4. /\ run' \in [job : {"none", "uclass", "portal", "weather"}, todo : SUBSET Users,
                   got : SUBSET Results]
      /\ run'.job = "none" => run' = NoRun
      /\ run'.job \notin {"uclass", "portal"}
      /\ run'.job = "weather" => run'.todo # {}
  BY <1>0, <1>3 DEF NoRun
<1>5. /\ Idle("sync")
      /\ UNCHANGED <<mode, linked, kept, now, session, rows, feeds, bad, raced, changes>>
      /\ missed' \ {"weather"} = missed \ {"weather"} /\ missed' \subseteq missed \union {"weather"}
  BY DEF WeatherDefault, world
<1> QED
  BY <1>0, <1>1, <1>2, <1>4, <1>5, NamedKeeps

\* The weather of a user's own region.
LEMMA WeatherTargetKeeps == ASSUME HealthInv, NEW u \in Users, WeatherTarget(u) PROVE HealthInv'
<1>0. "sync" \in Procs /\ u \in RowScopes /\ {"air"} \in SUBSET Parts
  BY HealthSets DEF Parts
<1>1. runs' \in 0 .. MaxRuns
  BY DEF WeatherTarget, HealthInv, HealthKinds
<1>2. PICK rec : /\ rec = ErrorRecord("weather", u)
                      \/ \E ps \in Flaws({"air"}) : rec = SuccessRecord("weather", u, ps)
                 /\ held' = [held EXCEPT !["sync"] = {rec}]
  BY DEF WeatherTarget, ErrorRecord, SuccessRecord
<1>3. /\ run \in [job : {"none", "uclass", "portal", "weather"}, todo : SUBSET Users,
                  got : SUBSET Results]
      /\ run.job = "weather" /\ u \in run.todo
      /\ run' = IF run.todo = {u} THEN NoRun ELSE [run EXCEPT !.todo = run.todo \ {u}]
  BY DEF WeatherTarget, HealthInv, HealthKinds
<1>4. /\ run' \in [job : {"none", "uclass", "portal", "weather"}, todo : SUBSET Users,
                   got : SUBSET Results]
      /\ run'.job = "none" => run' = NoRun
      /\ run'.job \notin {"uclass", "portal"}
      /\ run'.job = "weather" => run'.todo # {}
  BY <1>3 DEF NoRun
<1>5. /\ Idle("sync")
      /\ UNCHANGED <<mode, linked, kept, now, session, rows, feeds, bad, raced, changes>>
      /\ missed' \ {"weather"} = missed \ {"weather"} /\ missed' \subseteq missed \union {"weather"}
  BY DEF WeatherTarget, world
<1> QED
  BY <1>0, <1>1, <1>2, <1>4, <1>5, NamedKeeps

\* A cycle of Telegram.
LEMMA TelegramCycleKeeps == ASSUME HealthInv, TelegramCycle PROVE HealthInv'
<1>0. "sync" \in Procs /\ All \in RowScopes /\ {"menu", "send", "command"} \in SUBSET Parts
  BY HealthSets DEF Parts
<1>1. runs' \in 0 .. MaxRuns
  BY HealthAssumption DEF TelegramCycle, Count, HealthInv, HealthKinds
<1>2. PICK rec : /\ rec = ErrorRecord("telegram", All)
                      \/ \E ps \in Flaws({"menu", "send", "command"}) :
                           rec = SuccessRecord("telegram", All, ps)
                 /\ held' = [held EXCEPT !["sync"] = {rec}]
  BY DEF TelegramCycle, ErrorRecord, SuccessRecord
<1>3. /\ run' = run /\ run = NoRun
      /\ run \in [job : {"none", "uclass", "portal", "weather"}, todo : SUBSET Users,
                  got : SUBSET Results]
  BY DEF TelegramCycle, HealthInv, HealthKinds
<1>5. /\ Idle("sync")
      /\ UNCHANGED <<mode, linked, kept, now, session, rows, feeds, bad, raced, missed, changes>>
  BY DEF TelegramCycle, world
<1>6. run'.job = "none"
  BY <1>3 DEF NoRun
<1> QED
  BY <1>0, <1>1, <1>2, <1>3, <1>5, <1>6, NamedKeeps

\* A refresh of a user's weather.
LEMMA RefreshWeatherKeeps == ASSUME HealthInv, NEW u \in Users, RefreshWeather(u) PROVE HealthInv'
<1>0. "ops" \in Procs /\ u \in RowScopes /\ All \in RowScopes /\ {"air"} \in SUBSET Parts
  BY HealthSets DEF Parts
<1>1. /\ runs' \in 0 .. MaxRuns /\ Idle("ops")
      /\ UNCHANGED <<mode, linked, kept, now, session, rows, feeds, run, bad, raced, missed, changes>>
  BY HealthAssumption DEF RefreshWeather, Count, HealthInv, HealthKinds, world
<1>2. /\ run' \in [job : {"none", "uclass", "portal", "weather"}, todo : SUBSET Users,
                   got : SUBSET Results]
      /\ run'.job = "none" => run' = NoRun
      /\ run'.job = "weather" => run'.todo # {}
  BY <1>1 DEF HealthInv, HealthKinds, OfLinked
<1>3. CASE UNCHANGED held
  BY <1>1, <1>3 DEF HealthInv, HealthKinds, AllShaped, Shaped, OfLinked, MissedRecorded, BadRecorded,
       Fails, Linked
<1>4. CASE ~ UNCHANGED held
  <2>1. PICK s \in RowScopes : s = IF u \in Regional THEN u ELSE All
    BY <1>0
  <2>2. PICK rec : /\ rec = ErrorRecord("weather", s)
                        \/ \E ps \in Flaws({"air"}) : rec = SuccessRecord("weather", s, ps)
                   /\ held' = [held EXCEPT !["ops"] = {rec}]
    BY <1>4, <2>1 DEF RefreshWeather, ErrorRecord, SuccessRecord
  <2> QED
    BY <1>0, <1>1, <1>2, <2>2, NamedKeeps
<1> QED
  BY <1>3, <1>4

\* A refresh without a login records that it was skipped.
LEMMA SkippedRefreshKeeps ==
  ASSUME HealthInv, NEW u \in Users \ Linked, NEW j \in {"uclass", "portal"}, Idle("ops"),
         held' = [held EXCEPT !["ops"] = {SkippedRecord(j, u)}], runs' \in 0 .. MaxRuns,
         UNCHANGED <<mode, linked, kept, now, session, rows, feeds, run, bad, raced, missed, changes>>
  PROVE  HealthInv'
<1>0. /\ "sync" \in Procs /\ "ops" \in Procs /\ Linked' = Linked /\ All \notin Users /\ HealthKinds
      /\ u \in RowScopes /\ \A p \in Procs : p = "sync" \/ p = "ops"
  BY HealthSets DEF Linked, HealthInv
<1>1. PICK rec : rec = SkippedRecord(j, u)
  OBVIOUS
<1>2. rec \in Records /\ rec.job = j /\ rec.scope = u /\ Shaped(j, rec.row)
  BY <1>0, <1>1, SkippedRecordIs
<1>3. Made("ops", rec)
  BY <1>1, <1>2 DEF Made
<1>4. HealthKinds'
  BY <1>0, <1>3, MadeKinds DEF HealthKinds
<1>5. AllShaped'
  BY <1>0, <1>3, MadeShaped DEF HealthInv
<1>6. OfLinked'
  <2>1. held'["ops"] = {rec} /\ held'["sync"] = held["sync"]
    BY <1>0, <1>3, MadeIsAlone
  <2> QED
    BY <1>0, <1>2, <2>1 DEF HealthInv, OfLinked
<1>7. MissedRecorded'
  BY <1>0, <1>2, <1>3, MadeMissed DEF HealthInv
<1>8. BadRecorded'
  <2>1. bad[u] = {}
    BY DEF HealthInv, OfLinked
  <2>2. \A q \in Procs \ {"ops"} : \A other \in held[q] : ~ (other.job = j /\ other.scope = u)
    BY <1>0 DEF HealthInv, OfLinked
  <2> QED
    BY <1>0, <1>2, <1>3, <2>1, <2>2, MadeWithoutAttempt DEF HealthInv
<1> QED
  BY <1>4, <1>5, <1>6, <1>7, <1>8 DEF HealthInv

\* A refresh of a user's timetable.
LEMMA RefreshPortalKeeps == ASSUME HealthInv, NEW u \in Users, RefreshPortal(u) PROVE HealthInv'
<1>0. /\ "sync" \in Procs /\ "ops" \in Procs /\ Linked' = Linked /\ All \notin Users /\ HealthKinds
      /\ \A p \in Procs : p = "sync" \/ p = "ops"
  BY HealthSets DEF RefreshPortal, world, Linked, HealthInv
<1>1. /\ runs' \in 0 .. MaxRuns /\ Idle("ops")
      /\ UNCHANGED <<mode, linked, kept, now, rows, feeds, run, missed, changes>>
  BY HealthAssumption DEF RefreshPortal, Count, HealthInv, HealthKinds, world
<1>2. CASE u \notin Linked
  BY <1>1, <1>2, SkippedRefreshKeeps DEF RefreshPortal, SkippedRecord
<1>3. CASE u \in Linked
  <2>1. PICK o \in PortalOutcomes \union {SecretGone} :
           /\ held' = [held EXCEPT !["ops"] = {PortalRecord(u, o)}]
           /\ SessionAfter(u, o)
           /\ Attempted("ops", "portal", u, o.status = "success")
    BY <1>3 DEF RefreshPortal
  <2>2. PICK rec : rec = PortalRecord(u, o)
    OBVIOUS
  <2>3. /\ rec \in Records /\ rec.job = "portal" /\ rec.scope = u /\ Shaped("portal", rec.row)
        /\ rec.row.status = IF o.status = "raises" THEN "error" ELSE o.status
        /\ rec.row.status = "skipped" /\ mode # "catalog" => ~ rec.row.api
    BY <1>0, <2>2, PortalRecordIs
  <2>4. Made("ops", rec)
    BY <1>1, <2>1, <2>2, <2>3 DEF Made
  <2>5. PICK fine \in BOOLEAN : fine = (o.status = "success") /\ Attempted("ops", "portal", u, fine)
    BY <2>1
  <2>6. HealthKinds'
    BY <1>0, <1>1, <2>1, <2>4, <2>5, MadeKinds, AttemptKinds, SessionAfterIs DEF HealthKinds
  <2>7. AllShaped'
    BY <1>0, <2>4, MadeShaped DEF HealthInv
  <2>8. OfLinked'
    <3>1. held'["ops"] = {rec} /\ held'["sync"] = held["sync"]
      BY <1>0, <2>4, MadeIsAlone
    <3>2. \A v \in Users \ Linked' : bad'[v] = {}
      BY <1>0, <1>1, <1>3, <2>5, AttemptOfLinked DEF HealthInv
    <3> QED
      BY <1>0, <1>1, <2>3, <3>1, <3>2 DEF HealthInv, OfLinked
  <2>9. MissedRecorded'
    BY <1>0, <1>1, <2>3, <2>4, MadeMissed DEF HealthInv
  <2>10. BadRecorded'
    <3>1. ~ fine => Fails("portal", u, rec.row)'
      BY <1>0, <1>1, <2>1, <2>3, <2>5, PortalResults, SessionAfterIs DEF Fails
    <3>2. \A v \in Users : session'[v] = session[v] \/ v = u
      BY <1>0, <2>1, SessionAfterIs
    <3> QED
      BY <1>0, <2>3, <2>4, <2>5, <3>1, <3>2, MadeOfAttempt DEF HealthInv
  <2> QED
    BY <2>6, <2>7, <2>8, <2>9, <2>10 DEF HealthInv
<1> QED
  BY <1>2, <1>3

\* A refresh of a user's courses.
LEMMA RefreshUClassKeeps == ASSUME HealthInv, NEW u \in Users, RefreshUClass(u) PROVE HealthInv'
<1>0. /\ "sync" \in Procs /\ "ops" \in Procs /\ Linked' = Linked /\ All \notin Users /\ HealthKinds
      /\ \A p \in Procs : p = "sync" \/ p = "ops"
  BY HealthSets DEF RefreshUClass, world, Linked, HealthInv
<1>1. /\ runs' \in 0 .. MaxRuns /\ Idle("ops")
      /\ UNCHANGED <<mode, linked, kept, now, session, rows, feeds, run, missed, changes>>
  BY HealthAssumption DEF RefreshUClass, Count, HealthInv, HealthKinds, world
<1>2. CASE u \notin Linked
  BY <1>1, <1>2, SkippedRefreshKeeps DEF RefreshUClass, SkippedRecord
<1>3. CASE u \in Linked
  <2>1. PICK o \in UClassOutcomes :
           /\ held' = [held EXCEPT !["ops"] = {NamedUClassRecord(u, o)}]
           /\ Attempted("ops", "uclass", u, o.status = "success")
    BY <1>3 DEF RefreshUClass, NamedUClassRecord
  <2>2. PICK rec : rec = NamedUClassRecord(u, o)
    OBVIOUS
  <2>3. /\ rec \in Records /\ rec.job = "uclass" /\ rec.scope = u /\ Shaped("uclass", rec.row)
        /\ rec.row.status = o.status /\ rec.row.at = now
    BY <1>0, <2>2, NamedUClassRecordIs
  <2>4. Made("ops", rec)
    BY <1>1, <2>1, <2>2, <2>3 DEF Made
  <2>5. PICK fine \in BOOLEAN : fine = (o.status = "success") /\ Attempted("ops", "uclass", u, fine)
    BY <2>1
  <2>6. HealthKinds'
    BY <1>0, <1>1, <2>4, <2>5, MadeKinds, AttemptKinds DEF HealthKinds
  <2>7. AllShaped'
    BY <1>0, <2>4, MadeShaped DEF HealthInv
  <2>8. OfLinked'
    <3>1. held'["ops"] = {rec} /\ held'["sync"] = held["sync"]
      BY <1>0, <2>4, MadeIsAlone
    <3>2. \A v \in Users \ Linked' : bad'[v] = {}
      BY <1>0, <1>1, <1>3, <2>5, AttemptOfLinked DEF HealthInv
    <3> QED
      BY <1>0, <1>1, <2>3, <3>1, <3>2 DEF HealthInv, OfLinked
  <2>9. MissedRecorded'
    BY <1>0, <1>1, <2>3, <2>4, MadeMissed DEF HealthInv
  <2>10. BadRecorded'
    <3>1. linked[u] \in Times /\ linked[u] <= now /\ now \in 1 .. MaxTime
      BY <1>0 DEF HealthKinds
    <3>2. ~ fine => rec.row.status = "error"
      BY <2>3, <2>5, UClassResults
    <3>3. ~ fine => Fails("uclass", u, rec.row)'
      BY <1>1, <2>3, <3>1, <3>2 DEF Fails
    <3> QED
      BY <1>0, <1>1, <2>3, <2>4, <2>5, <3>3, MadeOfAttempt DEF HealthInv
  <2> QED
    BY <2>6, <2>7, <2>8, <2>9, <2>10 DEF HealthInv
<1> QED
  BY <1>2, <1>3

\* A record becomes the row of its scope.
LEMMA WriteKeeps == ASSUME HealthInv, NEW p \in Procs, Write(p) PROVE HealthInv'
<1>0. /\ "sync" \in Procs /\ "ops" \in Procs /\ Linked' = Linked /\ All \notin Users /\ HealthKinds
      /\ \A q \in Procs : q = "sync" \/ q = "ops"
  BY HealthSets DEF Write, world, Linked, HealthInv
<1>1. PICK rec \in held[p] : rows' = [rows EXCEPT ![rec.job][rec.scope] = rec.row]
  BY DEF Write, Written
<1>2. /\ held' = [held EXCEPT ![p] = {}]
      /\ UNCHANGED <<mode, linked, kept, now, session, feeds, run, bad, raced, missed, runs, changes>>
  BY DEF Write, world
<1>3. /\ held \in [Procs -> SUBSET Records] /\ rows \in [Jobs -> [RowScopes -> Rows]]
      /\ \A q \in Procs : \A one, other \in held[q] : one = other
  BY <1>0 DEF HealthKinds
<1>4. rec \in Records /\ rec.job \in Jobs /\ rec.scope \in RowScopes /\ rec.row \in Rows
  BY <1>3 DEF Records
<1>5. /\ held' \in [Procs -> SUBSET Records] /\ held'[p] = {}
      /\ \A q \in Procs \ {p} : held'[q] = held[q]
  BY <1>2, <1>3
<1>6. /\ rows' \in [Jobs -> [RowScopes -> Rows]]
      /\ rows'[rec.job][rec.scope] = rec.row
      /\ \A j \in Jobs, s \in RowScopes : j # rec.job \/ s # rec.scope => rows'[j][s] = rows[j][s]
  BY <1>1, <1>3, <1>4
<1>7. HealthKinds'
  BY <1>0, <1>2, <1>3, <1>5, <1>6 DEF HealthKinds
<1>8. AllShaped'
  <2>1. Shaped(rec.job, rec.row)
    BY <1>1 DEF HealthInv, AllShaped
  <2>2. \A j \in Jobs, s \in RowScopes : Shaped(j, rows'[j][s])
    BY <1>6, <2>1 DEF HealthInv, AllShaped
  <2>3. \A q \in Procs : \A one \in held'[q] : Shaped(one.job, one.row)
    BY <1>5 DEF HealthInv, AllShaped
  <2> QED
    BY <2>2, <2>3 DEF AllShaped, Shaped
<1>9. OfLinked'
  <2>1. \A q \in Procs : held'[q] \subseteq held[q]
    BY <1>5
  <2> QED
    BY <1>0, <1>2, <2>1 DEF HealthInv, OfLinked, NoRun
<1>10. MissedRecorded'
  <2>1. missed \ {"weather"} \subseteq {"uclass", "portal"} /\ All \in RowScopes /\ {"uclass", "portal"} \subseteq Jobs
    BY <1>0, HealthSets DEF HealthKinds
  <2>2. CASE p = "sync"
    <3>1. \A one \in held["sync"] : one = rec
      BY <1>1, <1>3, <2>2
    <3> QED
      BY <1>1, <1>2, <1>5, <1>6, <2>1, <2>2, <3>1 DEF HealthInv, MissedRecorded
  <2>3. CASE p = "ops"
    <3>1. held'["sync"] = held["sync"] /\ (rec.scope = All => rec.job = "weather")
      BY <1>0, <1>1, <1>5, <2>3 DEF HealthInv, OfLinked
    <3> QED
      BY <1>2, <1>6, <2>1, <3>1 DEF HealthInv, MissedRecorded
  <2> QED
    BY <1>0, <2>2, <2>3
<1>11. BadRecorded'
  <2>1. ASSUME NEW j, NEW u, NEW r PROVE Fails(j, u, r)' <=> Fails(j, u, r)
    BY <1>2 DEF Fails
  <2>2. {"uclass", "portal"} \subseteq Jobs /\ Users \subseteq RowScopes
    BY HealthSets
  <2> SUFFICES ASSUME NEW u \in Users \ raced, NEW j \in {"uclass", "portal"}
               PROVE  /\ j \in bad[u] => \/ Fails(j, u, rows'[j][u])
                                         \/ \E q \in Procs : \E one \in held'[q] :
                                              one.job = j /\ one.scope = u
                      /\ \A q \in Procs : \A one \in held'[q] : one.job = j /\ one.scope = u =>
                           /\ j \in bad[u] => Fails(j, u, one.row)
                           /\ \A o \in Procs \ {q} : \A other \in held'[o] :
                                ~ (other.job = j /\ other.scope = u)
    BY <1>2, <2>1 DEF BadRecorded
  <2>3. j \in bad[u] => \/ Fails(j, u, rows[j][u])
                        \/ \E q \in Procs : \E one \in held[q] : one.job = j /\ one.scope = u
    BY DEF HealthInv, BadRecorded
  <2>4. ASSUME NEW q \in Procs, NEW one \in held[q], one.job = j, one.scope = u
        PROVE  /\ j \in bad[u] => Fails(j, u, one.row)
               /\ \A o \in Procs \ {q} : \A other \in held[o] :
                    ~ (other.job = j /\ other.scope = u)
    BY <2>4 DEF HealthInv, BadRecorded
  <2>5. CASE rec.job = j /\ rec.scope = u
    <3>1. rows'[j][u] = rec.row /\ \A one \in held[p] : one = rec
      BY <1>1, <1>3, <1>6, <2>5
    <3>2. \A o \in Procs \ {p} : \A other \in held[o] : ~ (other.job = j /\ other.scope = u)
      BY <1>1, <2>4, <2>5
    <3>3. \A o \in Procs : \A other \in held'[o] : ~ (other.job = j /\ other.scope = u)
      BY <1>5, <3>2
    <3> QED
      BY <1>1, <2>4, <2>5, <3>1, <3>3
  <2>6. CASE ~ (rec.job = j /\ rec.scope = u)
    <3>1. rows'[j][u] = rows[j][u]
      BY <1>6, <2>2, <2>6
    <3>2. \A q \in Procs : \A one \in held[q] : one.job = j /\ one.scope = u => one \in held'[q]
      BY <1>1, <1>3, <1>5, <2>6
    <3>3. \A q \in Procs : held'[q] \subseteq held[q]
      BY <1>5
    <3> QED
      BY <2>3, <2>4, <3>1, <3>2, <3>3
  <2> QED
    BY <2>5, <2>6
<1> QED
  BY <1>7, <1>8, <1>9, <1>10, <1>11 DEF HealthInv

\* A new login forgets the failures of its user.
LEMMA ConnectKeeps == ASSUME HealthInv, NEW u \in Users, Connect(u) PROVE HealthInv'
<1>0. HealthKinds /\ now \in Times /\ now \in 1 .. MaxTime
  BY SuccessKept DEF HealthInv, HealthKinds
<1>1. /\ linked' = [linked EXCEPT ![u] = now] /\ kept' = kept \union {u}
      /\ bad' = [bad EXCEPT ![u] = {}]
      /\ UNCHANGED <<mode, now, rows, feeds, run, held, missed, runs>>
  BY DEF Connect
<1>2. session' = [session EXCEPT ![u] = [NoSession EXCEPT !.verified = now]]
  BY DEF Connect
<1>3. raced' = raced \union {u} \/ raced' = raced
  BY DEF Connect
<1>4. changes' \in 0 .. MaxChanges
  BY <1>0, HealthAssumption DEF Connect, Change, HealthKinds
<1>5. Linked' = Linked \union {u}
  BY <1>0, <1>1 DEF Linked, HealthKinds
<1>6. HealthKinds'
  <2>1. session' \in [Users -> SessionRecords]
    BY <1>0, <1>2 DEF HealthKinds, SessionRecords, NoSession
  <2>2. linked' \in [Users -> Times] /\ \A v \in Users : linked'[v] <= now
    BY <1>0, <1>1 DEF HealthKinds
  <2>3. kept' \subseteq Linked'
    BY <1>0, <1>1, <1>5 DEF HealthKinds
  <2> QED
    BY <1>0, <1>1, <1>3, <1>4, <2>1, <2>2, <2>3 DEF HealthKinds
<1>7. AllShaped' /\ MissedRecorded'
  BY <1>1 DEF HealthInv, AllShaped, Shaped, MissedRecorded
<1>8. OfLinked'
  BY <1>0, <1>1, <1>5 DEF HealthInv, OfLinked, HealthKinds
<1>9. BadRecorded'
  <2>1. /\ bad'[u] = {}
        /\ \A v \in Users \ {u} :
             bad'[v] = bad[v] /\ session'[v] = session[v] /\ linked'[v] = linked[v]
    BY <1>0, <1>1, <1>2 DEF HealthKinds
  <2>2. ASSUME NEW v \in Users \ {u}, NEW j, NEW r PROVE Fails(j, v, r)' <=> Fails(j, v, r)
    BY <1>1, <2>1 DEF Fails
  <2> SUFFICES ASSUME NEW v \in Users \ raced', NEW j \in {"uclass", "portal"}
               PROVE  /\ j \in bad'[v] => \/ Fails(j, v, rows[j][v])'
                                          \/ \E q \in Procs : \E one \in held[q] :
                                               one.job = j /\ one.scope = v
                      /\ \A q \in Procs : \A one \in held[q] : one.job = j /\ one.scope = v =>
                           /\ j \in bad'[v] => Fails(j, v, one.row)'
                           /\ \A o \in Procs \ {q} : \A other \in held[o] :
                                ~ (other.job = j /\ other.scope = v)
    BY <1>1 DEF BadRecorded
  <2>3. v \in Users \ raced
    BY <1>3
  <2>4. CASE v = u
    BY <2>1, <2>3, <2>4 DEF HealthInv, BadRecorded
  <2>5. CASE v # u
    <3>1. bad'[v] = bad[v] /\ rows' = rows
      BY <1>1, <2>1, <2>5
    <3>2. ASSUME NEW r PROVE Fails(j, v, r)' <=> Fails(j, v, r)
      BY <2>2, <2>5
    <3>3. /\ j \in bad[v] => \/ Fails(j, v, rows[j][v])
                             \/ \E q \in Procs : \E one \in held[q] : one.job = j /\ one.scope = v
          /\ \A q \in Procs : \A one \in held[q] : one.job = j /\ one.scope = v =>
               /\ j \in bad[v] => Fails(j, v, one.row)
               /\ \A o \in Procs \ {q} : \A other \in held[o] :
                    ~ (other.job = j /\ other.scope = v)
      BY <2>3 DEF HealthInv, BadRecorded
    <3>4. j \in bad'[v] => \/ Fails(j, v, rows[j][v])'
                           \/ \E q \in Procs : \E one \in held[q] : one.job = j /\ one.scope = v
      BY <3>1, <3>2, <3>3
    <3>5. ASSUME NEW q \in Procs, NEW one \in held[q], one.job = j, one.scope = v
          PROVE  /\ j \in bad'[v] => Fails(j, v, one.row)'
                 /\ \A o \in Procs \ {q} : \A other \in held[o] :
                      ~ (other.job = j /\ other.scope = v)
      BY <3>1, <3>2, <3>3, <3>5
    <3> QED
      BY <3>4, <3>5
  <2> QED
    BY <2>4, <2>5
<1> QED
  BY <1>6, <1>7, <1>8, <1>9 DEF HealthInv

\* Lost secrets, the notices and the time concern none of the records.
LEMMA OthersKeep ==
  ASSUME HealthInv,
         \/ \E u \in Users : LoseSecrets(u)
         \/ \E k \in Kinds : RefreshNotices(k)
         \/ Tick
         \/ UNCHANGED healthVars
  PROVE  HealthInv'
<1>1. /\ UNCHANGED <<mode, linked, session, rows, run, held, bad, raced, missed>>
  BY DEF LoseSecrets, RefreshNotices, Tick, healthVars, world
<1>2. AllShaped' /\ OfLinked' /\ MissedRecorded' /\ BadRecorded'
  BY <1>1 DEF HealthInv, AllShaped, Shaped, OfLinked, Linked, NoRun, MissedRecorded, BadRecorded, Fails
<1>3. HealthKinds'
  <2>0. HealthKinds /\ Linked' = Linked /\ now \in Times
    BY <1>1, SuccessKept DEF HealthInv, Linked
  <2>1. now' \in 1 .. MaxTime /\ now <= now'
    BY <2>0, HealthAssumption DEF LoseSecrets, RefreshNotices, Tick, healthVars, world, HealthKinds
  <2>2. kept' \subseteq kept
    BY DEF LoseSecrets, RefreshNotices, Tick, healthVars, world
  <2>3. runs' \in 0 .. MaxRuns /\ changes' \in 0 .. MaxChanges
    BY <2>0, HealthAssumption
    DEF LoseSecrets, RefreshNotices, Tick, healthVars, world, Count, Change, HealthKinds
  <2>4. feeds' \in [Kinds -> [at : Times, ok : BOOLEAN, shot : Times]]
    <3>1. feeds \in [Kinds -> [at : Times, ok : BOOLEAN, shot : Times]]
      BY <2>0 DEF HealthKinds
    <3>2. CASE \E k \in Kinds : RefreshNotices(k)
      <4>1. PICK k \in Kinds, ok \in BOOLEAN, shot \in Times :
               feeds' = [feeds EXCEPT ![k] = [at |-> now, ok |-> ok, shot |-> shot]]
        BY <2>0, <3>1, <3>2 DEF RefreshNotices
      <4> QED
        BY <2>0, <3>1, <4>1
    <3>3. CASE feeds' = feeds
      BY <3>1, <3>3
    <3> QED
      BY <3>2, <3>3 DEF LoseSecrets, Tick, healthVars
  <2>5. \A u \in Users : linked[u] \in Nat /\ linked[u] <= now
    BY <2>0 DEF HealthKinds, Times
  <2>6. \A u \in Users : linked[u] <= now'
    BY <2>0, <2>1, <2>5 DEF Times
  <2> QED
    BY <1>1, <2>0, <2>1, <2>2, <2>3, <2>4, <2>6 DEF HealthKinds
<1> QED
  BY <1>2, <1>3 DEF HealthInv

\* The types of the rows, records, runs and sessions with the shapes of the rows, and what is
\* recorded of the failures, hold of every behaviour.
LEMMA HealthInvariant == HealthSpec => []HealthInv
<1>1. HealthInit => HealthInv
  <2> SUFFICES ASSUME HealthInit PROVE HealthInv
    OBVIOUS
  <2>1. 0 \in Times /\ 1 \in 1 .. MaxTime /\ 1 \in Times /\ MaxRuns \in Nat /\ MaxChanges \in Nat
    BY HealthAssumption DEF Times
  <2>2. linked \in [Users -> {0, 1}] /\ kept = Linked /\ now = 1
    BY DEF HealthInit
  <2>3. session \in [Users -> SessionRecords]
    BY <2>1, <2>2 DEF HealthInit, SessionRecords, NoSession
  <2>4. NoRow \in Rows /\ ~ NoRow.error /\ NoRow.parts = {} /\ NoRow.status = "never"
    BY <2>1 DEF NoRow, Rows, Statuses
  <2>5. rows = [j \in Jobs |-> [s \in RowScopes |-> NoRow]]
    BY DEF HealthInit
  <2>6. feeds \in [Kinds -> [at : Times, ok : BOOLEAN, shot : Times]]
    BY <2>1 DEF HealthInit, NoFeed
  <2>7. run = NoRun /\ run \in [job : {"none", "uclass", "portal", "weather"}, todo : SUBSET Users,
                                got : SUBSET Results] /\ run.job = "none"
    BY DEF HealthInit, NoRun
  <2>8. HealthKinds
    BY <2>1, <2>2, <2>3, <2>4, <2>5, <2>6, <2>7 DEF HealthInit, HealthKinds
  <2>9. AllShaped
    BY <2>4, <2>5 DEF HealthInit, AllShaped, Shaped
  <2>10. OfLinked
    BY <2>7, HealthSets DEF HealthInit, OfLinked
  <2>11. MissedRecorded /\ BadRecorded
    BY HealthSets DEF HealthInit, MissedRecorded, BadRecorded
  <2> QED
    BY <2>8, <2>9, <2>10, <2>11 DEF HealthInv
<1>2. HealthInv /\ [HealthNext]_healthVars => HealthInv'
  <2> SUFFICES ASSUME HealthInv, [HealthNext]_healthVars PROVE HealthInv'
    OBVIOUS
  <2>1. CASE \E j \in Jobs : Start(j)
    BY <2>1, StartKeeps
  <2>2. CASE \E u \in Users : UClassTarget(u) \/ PortalTarget(u) \/ WeatherTarget(u)
    BY <2>2, UClassTargetKeeps, PortalTargetKeeps, WeatherTargetKeeps
  <2>3. CASE FinishRun \/ WeatherDefault \/ TelegramCycle
    BY <2>3, FinishRunKeeps, WeatherDefaultKeeps, TelegramCycleKeeps
  <2>4. CASE \E p \in Procs : Write(p)
    BY <2>4, WriteKeeps
  <2>5. CASE \E u \in Users : RefreshPortal(u) \/ RefreshUClass(u) \/ RefreshWeather(u) \/ Connect(u)
    BY <2>5, RefreshPortalKeeps, RefreshUClassKeeps, RefreshWeatherKeeps, ConnectKeeps
  <2>6. CASE \/ \E u \in Users : LoseSecrets(u)
             \/ \E k \in Kinds : RefreshNotices(k)
             \/ Tick
             \/ UNCHANGED healthVars
    BY <2>6, OthersKeep
  <2> QED
    BY <2>1, <2>2, <2>3, <2>4, <2>5, <2>6 DEF HealthNext
<1> QED
  BY <1>1, <1>2, PTL DEF HealthSpec

\* The rows, sessions, feeds, runs and records keep their types, and a process holds at most one
\* record it has not written.
LEMMA HealthTypes == HealthInv => HealthTypeOK
<1> SUFFICES ASSUME HealthInv PROVE HealthTypeOK
  OBVIOUS
<1>1. HealthKinds
  BY DEF HealthInv
<1>2. ASSUME NEW p \in Procs PROVE Cardinality(held[p]) <= 1
  <2>1. CASE held[p] = {}
    BY <2>1, FS_EmptySet
  <2>2. CASE held[p] # {}
    <3>1. PICK rec \in held[p] : held[p] = {rec}
      BY <1>1, <2>2 DEF HealthKinds
    <3>2. Cardinality({rec}) = 1
      BY FS_Singleton
    <3> QED
      BY <3>1, <3>2
  <2> QED
    BY <2>1, <2>2
<1>3. \A p \in Procs : \A rec \in held[p] :
        rec.job \in Jobs /\ rec.scope \in RowScopes /\ rec.row \in Rows
  BY <1>1 DEF HealthKinds, Records
<1>4. \A u \in Users : /\ session[u].sync \in {"none", "success", "skipped", "error"}
                       /\ session[u].auth \in BOOLEAN /\ session[u].verified \in Times
  BY <1>1 DEF HealthKinds, SessionRecords
<1>5. /\ run.job \in Jobs \union {"none"} /\ run.todo \subseteq Users
      /\ run.got \subseteq Results
  BY <1>1, HealthSets DEF HealthKinds
<1>6. \A g \in run.got : /\ g.parts \subseteq Parts /\ g.api \in BOOLEAN
                         /\ g.status \in Statuses \union {"raises"}
  BY <1>5 DEF Results
<1>7. bad \in [Users -> SUBSET Jobs] /\ missed \subseteq Jobs
  BY <1>1, HealthSets DEF HealthKinds
<1> QED
  BY <1>1, <1>2, <1>3, <1>4, <1>5, <1>6, <1>7 DEF HealthKinds, HealthTypeOK

\* The rows, sessions, feeds, runs and records keep their types, for any users and jobs' outcomes.
THEOREM HealthTypeCorrect == HealthSpec => []HealthTypeOK
  BY HealthInvariant, HealthTypes, PTL

\* A failure that is recorded keeps /setup from calling its collection fine.
LEMMA FailureShowsInSetup ==
  ASSUME HealthInv, NEW u \in Users \ (raced \union BeingRecorded), CoreReady(u)
  PROVE  u \in kept /\ bad[u] = {}
<1>1. \A j \in {"uclass", "portal"} : j \in bad[u] => Fails(j, u, rows[j][u])
  BY DEF HealthInv, BadRecorded, BeingRecorded
<1>2. bad[u] \subseteq {"uclass", "portal"} /\ linked[u] \in Nat
  BY HealthAssumption DEF HealthInv, HealthKinds, Times
<1>3. rows["uclass"][u].at \in Nat
  BY HealthAssumption, HealthSets DEF HealthInv, HealthKinds, Rows, Times
<1>4. u \in kept
  BY DEF CoreReady, UClassLevel
<1>5. "uclass" \notin bad[u]
  <2>1. rows["uclass"][u].status = "error" => OldError(rows["uclass"][u], linked[u])
    BY DEF CoreReady, UClassLevel, Scope
  <2> QED
    BY <1>1, <1>2, <1>3, <2>1 DEF Fails, OldError
<1>6. "portal" \notin bad[u]
  <2>1. CASE mode = "catalog"
    <3>1. rows["portal"][u].status \notin {"error", "skipped"}
      BY <2>1 DEF CoreReady, PortalLevel, CatalogLevel, Scope
    <3> QED
      BY <1>1, <3>1 DEF Fails
  <2>2. CASE mode # "catalog"
    <3>1. rows["portal"][u].status # "error" /\ session[u].sync # "skipped"
      BY <2>2 DEF CoreReady, PortalLevel, SessionLevel, Scope
    <3> QED
      BY <1>1, <2>2, <3>1 DEF Fails
  <2> QED
    BY <2>1, <2>2
<1> QED
  BY <1>2, <1>4, <1>5, <1>6

\* The surfaces of a report.
LEMMA ReportIs ==
  ASSUME NEW s
  PROVE  /\ DOMAIN Report(s) = {"uos_official_api", "uclass_sync", "telegram_listener",
                                "telegram_send", "weather_sync", "notice_fetch"}
         /\ Report(s)["uos_official_api"] = PortalHealth(s)
         /\ Report(s)["uclass_sync"] = UClassHealth(s)
         /\ Report(s)["telegram_listener"] = ListenerHealth
         /\ Report(s)["telegram_send"] = SendHealth
         /\ Report(s)["weather_sync"] = WeatherHealth(s)
         /\ Report(s)["notice_fetch"] = NoticeHealth
  BY DEF Report

\* ... nor does an audit of the user pass it.
LEMMA FailureShowsInAudit ==
  ASSUME HealthInv, NEW u \in Users \ (raced \union BeingRecorded)
  PROVE  /\ "uclass" \in bad[u] => "uclass_sync" \in UserAudit(u).findings
         /\ "portal" \in bad[u] /\ mode # "catalog" => "uos_official_api" \in UserAudit(u).findings
<1>1. \A j \in {"uclass", "portal"} : j \in bad[u] => Fails(j, u, rows[j][u])
  BY DEF HealthInv, BadRecorded, BeingRecorded
<1>2. \A f \in DOMAIN Report(u) : Report(u)[f] # "ready" => f \in UserAudit(u).findings
  <2>1. UserAudit(u).findings = Findings(u) /\ UserCard(u).not_ready \subseteq Findings(u)
    BY DEF UserAudit, Findings
  <2>2. UserCard(u).not_ready = {f \in DOMAIN Report(u) : Report(u)[f] # "ready"}
    BY DEF UserCard
  <2> QED
    BY <2>1, <2>2
<1>3. "uclass" \in bad[u] => UClassHealth(u) # "ready"
  BY <1>1 DEF Fails, UClassHealth, Shown, Scope
<1>4. "portal" \in bad[u] /\ mode # "catalog" => PortalHealth(u) # "ready"
  BY <1>1 DEF Fails, PortalHealth, Scope
<1> QED
  BY <1>2, <1>3, <1>4, ReportIs

\* /setup calls a user ready only if nothing its collections last tried has failed, for any users,
\* outcomes and interleavings of the cycle and the operators' refreshes, and an audit finds what
\* has.
THEOREM ReadyUsersAreReady == HealthSpec => []SetupReadyIsTrue
<1>1. HealthInv => SetupReadyIsTrue
  BY HealthTypes, FailureShowsInSetup, FailureShowsInAudit DEF SetupReadyIsTrue
<1> QED
  BY <1>1, HealthInvariant, PTL

\* The row a scope is shown has its shape.
LEMMA ShownShaped ==
  ASSUME AllShaped, NEW j \in Jobs, NEW s \in RowScopes
  PROVE  Shaped(j, Shown(j, s)) /\ Shaped(j, Scope(j, s)) /\ Shaped(j, Scope(j, All))
  BY HealthSets DEF AllShaped, Shown, Scope

\* A failed stage shows on a surface of its component.
LEMMA StagesShow ==
  ASSUME HealthInv, NEW s \in RowScopes, NEW c \in Candidates(s), c.stage # "unsupported"
  PROVE  \E f \in Surfaces(c) : Report(s)[f] # "ready"
<1>0. AllShaped /\ "portal" \in Jobs /\ "uclass" \in Jobs /\ "telegram" \in Jobs /\ "weather" \in Jobs
  BY HealthSets DEF HealthInv
<1>1. CASE c \in PortalStage(s)
  <2>1. c.component = "uos_official_api"
    BY <1>1 DEF PortalStage, Stage
  <2>2. Shaped("portal", Scope("portal", s))
    BY <1>0, ShownShaped
  <2>3. PortalHealth(s) # "ready"
    BY <1>1, <2>2 DEF PortalStage, PortalHealth, Stage, Shaped
  <2> QED
    BY <2>1, <2>3, ReportIs DEF Surfaces
<1>2. CASE c \in UClassStage(s)
  <2>1. c.component = "uclass_sync"
    BY <1>2 DEF UClassStage, Stage
  <2>2. Shaped("uclass", Shown("uclass", s))
    BY <1>0, ShownShaped
  <2>3. UClassHealth(s) # "ready"
    BY <1>2, <2>2 DEF UClassStage, UClassHealth, Stage, Shaped
  <2> QED
    BY <2>1, <2>3, ReportIs DEF Surfaces
<1>3. CASE c \in TelegramStage
  <2>1. c.component \in {"telegram_listener", "telegram_send"}
    BY <1>3 DEF TelegramStage, Stage
  <2>2. Shaped("telegram", Scope("telegram", All))
    BY <1>0, ShownShaped
  <2>3. ListenerHealth # "ready" \/ SendHealth # "ready"
    BY <1>3, <2>2 DEF TelegramStage, ListenerHealth, SendHealth, Shaped
  <2> QED
    BY <2>1, <2>3, ReportIs DEF Surfaces
<1>4. CASE c \in WeatherStage(s)
  <2>1. c.component = "weather_sync"
    BY <1>4 DEF WeatherStage, Stage
  <2>2. WeatherHealth(s) # "ready"
    BY <1>4 DEF WeatherStage, WeatherHealth
  <2> QED
    BY <2>1, <2>2, ReportIs DEF Surfaces
<1>5. CASE c \in NoticeStages
  <2>1. PICK k \in Kinds : ~ feeds[k].ok /\ c = Stage("notice_fetch", k, feeds[k].at)
    BY <1>5 DEF NoticeStages
  <2>2. c.component = "notice_fetch"
    BY <2>1 DEF Stage
  <2>3. FeedHealth(k) \in {"never_checked", "degraded", "error"}
    BY <2>1 DEF FeedHealth
  <2>4. NoticeHealth # "ready"
    BY <2>3 DEF NoticeHealth
  <2> QED
    BY <2>2, <2>4, ReportIs DEF Surfaces
<1> QED
  BY <1>1, <1>2, <1>3, <1>4, <1>5 DEF Candidates

\* What a surface of Telegram, the weather or the notices calls failed or degraded has its stage.
LEMMA SurfacesHaveStages ==
  ASSUME HealthInv, NEW s \in RowScopes,
         NEW f \in {"telegram_listener", "telegram_send", "weather_sync", "notice_fetch"},
         Report(s)[f] \in {"error", "degraded"}
  PROVE  \E c \in Candidates(s) : f \in Surfaces(c)
<1>0. AllShaped /\ "telegram" \in Jobs /\ "weather" \in Jobs
  BY HealthSets DEF HealthInv
<1>1. CASE f \in {"telegram_listener", "telegram_send"}
  <2>1. Shaped("telegram", Scope("telegram", All))
    BY <1>0, ShownShaped
  <2>2. \/ Scope("telegram", All).error
        \/ Scope("telegram", All).parts \intersect {"menu", "send", "command"} # {}
    BY <1>1, <2>1, ReportIs DEF ListenerHealth, SendHealth, Shaped
  <2>3. \E c \in TelegramStage : c.component \in {"telegram_listener", "telegram_send"}
    BY <2>2 DEF TelegramStage, Stage
  <2> QED
    BY <1>1, <2>3 DEF Surfaces, Candidates
<1>2. CASE f = "weather_sync"
  <2>1. Shaped("weather", Shown("weather", s))
    BY <1>0, ShownShaped
  <2>2. Shown("weather", s).error \/ "air" \in Shown("weather", s).parts
    BY <1>2, <2>1, ReportIs DEF WeatherHealth, Shaped
  <2>3. \E c \in WeatherStage(s) : c.component = "weather_sync"
    BY <2>2 DEF WeatherStage, Stage
  <2> QED
    BY <1>2, <2>3 DEF Surfaces, Candidates
<1>3. CASE f = "notice_fetch"
  <2>1. NoticeHealth \in {"error", "degraded"}
    BY <1>3, ReportIs
  <2>2. \E k \in Kinds : FeedHealth(k) \in {"error", "degraded"}
    BY <2>1 DEF NoticeHealth
  <2>3. PICK k \in Kinds : ~ feeds[k].ok
    BY <2>2 DEF FeedHealth
  <2>4. Stage("notice_fetch", k, feeds[k].at) \in NoticeStages
    BY <2>3 DEF NoticeStages
  <2>5. Stage("notice_fetch", k, feeds[k].at).component = "notice_fetch"
    BY DEF Stage
  <2> QED
    BY <1>3, <2>4, <2>5 DEF Surfaces, Candidates
<1> QED
  BY <1>1, <1>2, <1>3

\* The two views of the operators agree, whatever the collections came to.
THEOREM OperatorsViewsAgree == HealthSpec => []ViewsAgree
<1>1. HealthInv => ViewsAgree
  BY StagesShow, SurfacesHaveStages DEF ViewsAgree
<1> QED
  BY <1>1, HealthInvariant, PTL

\* A user's failure in the last run of UClass or of the portal reaches the headline, for any number
\* of users; a user's failure in the last run of the weather may not.
THEOREM FailuresReachTheHeadline == HealthSpec => []FailureReachesHeadline
<1>1. HealthInv => FailureReachesHeadline
  <2> SUFFICES ASSUME HealthInv, held["sync"] = {}
               PROVE  /\ missed \ {"weather"} # {} => Headline # "ok"
                      /\ "uclass" \in missed => Headline = "err"
    BY DEF FailureReachesHeadline
  <2>1. /\ missed \ {"weather"} \subseteq {"uclass", "portal"}
        /\ "uclass" \in Jobs /\ "portal" \in Jobs
        /\ \A j \in missed \ {"weather"} : rows[j][All].status = "error"
        /\ missed \ {"weather"} # {} => Linked # {}
    BY HealthSets DEF HealthInv, HealthKinds, MissedRecorded, OfLinked
  <2>2. Tone("error") = "err"
    BY DEF Tone
  <2>3. missed \ {"weather"} # {} => Headline # "ok"
    <3>1. \A j \in missed \ {"weather"} : CardIssue(j)
      BY <2>1, <2>2 DEF CardIssue, Scope
    <3> QED
      BY <2>1, <3>1 DEF Headline
  <2>4. "uclass" \in missed => Headline = "err"
    <3>1. "uclass" \in missed => UClassHealth(All) = "error"
      BY <2>1 DEF UClassHealth, Shown, Scope, Targets
    <3>2. "uclass" \in missed => Tone(Report(All)["uclass_sync"]) = "err"
      BY <2>2, <3>1, ReportIs
    <3> QED
      BY <3>2, ReportIs DEF Headline
  <2> QED
    BY <2>3, <2>4
<1> QED
  BY <1>1, HealthInvariant, PTL

=============================================================================
