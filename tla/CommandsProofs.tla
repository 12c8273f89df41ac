---------------------------- MODULE CommandsProofs ----------------------------
(***************************************************************************)
(* The commands of the chats for any users, drafts, tasks, plans and number *)
(* of requests and faults: an applied draft has its entry, a closed task    *)
(* stays closed, a command writes its user's rows only, and the record of   *)
(* an assistant run says what the run did.                                  *)
(***************************************************************************)
EXTENDS Commands, FiniteSetTheorems, SequenceTheorems, WellFoundedInduction, TLAPS

Actions == Capabilities \union {Unknown}
RunRows == [user : Users \union {0}, status : RunStates, plan : Seq(Actions), effects : Nat]

\* Where the listener is.
Places == {"idle", "next", "execute", "apply", "plan", "act", "block", "mark"}

\* The requests and the runs, the command the listener is at, and that it holds
\* drafts during an /apply only.
Shape ==
  /\ request \in [Requests -> Sent \union {NoRequest}]
  /\ runs \in Seq(RunRows) /\ writeEnabled \in BOOLEAN
  /\ batch \in [Processes -> SUBSET Drafts] /\ applying \in [Processes -> Drafts \union {NoDraft}]
  /\ pc \in Places
  /\ queue \subseteq Requests /\ \A r \in queue : command[r] # "absent"
  /\ pc \in {"idle", "next"} => current = 0
  /\ pc \notin {"idle", "next"} => current \in Requests /\ command[current] # "absent"
  /\ pc # "apply" => Idle(Listener)
  /\ pc \in {"plan", "block", "act"} => runs # <<>>

\* The plan that is carried out has known actions only, and step is at one of
\* them or behind the last.
Acting == pc = "act" => step \in 1 .. Len(Plan) + 1 /\ ValidPlan(Plan)

TypeInv == TypeOK /\ Shape /\ Acting

-----------------------------------------------------------------------------
(* Types                                                                    *)

\* A user who sent a command is a user.
LEMMA UserIsUser ==
  ASSUME Shape, pc \notin {"idle", "next"}
  PROVE  User \in Users \union {0}
<1>1. request[current] \in Sent \union {NoRequest}
  BY DEF Shape
<1>2. CASE request[current] = NoRequest
  BY <1>2 DEF User, NoRequest
<1>3. CASE request[current] \in Sent
  <2>1. PICK u \in Users : request[current] \in CommandsOf(u)
    BY <1>3, ConstantsAssumption
  <2>2. request[current].user = u
    BY <2>1 DEF CommandsOf
  <2> QED BY <2>2 DEF User
<1> QED BY <1>1, <1>2, <1>3

\* The last row of a list of runs takes another value.
LEMMA LastRowChanges ==
  ASSUME NEW s \in Seq(RunRows), s # <<>>, NEW r \in RunRows,
         NEW t, t = [s EXCEPT ![Len(s)] = r]
  PROVE  /\ t \in Seq(RunRows) /\ t # <<>> /\ t[Len(t)] = r
         /\ \A k \in DOMAIN t : k = Len(t) \/ (k \in DOMAIN s /\ t[k] = s[k])
<1>1. Len(s) \in 1 .. Len(s) /\ Len(s) \in Nat
  BY EmptySeq, LenProperties
<1>2. /\ t \in Seq(RunRows) /\ Len(t) = Len(s)
      /\ \A i \in 1 .. Len(s) : t[i] = IF i = Len(s) THEN r ELSE s[i]
  BY <1>1, ExceptSeq
<1>3. t # <<>> /\ DOMAIN t = 1 .. Len(t) /\ DOMAIN s = 1 .. Len(s)
  BY <1>1, <1>2, EmptySeq, LenProperties
<1>4. t[Len(t)] = r
  BY <1>1, <1>2
<1>5. ASSUME NEW k \in DOMAIN t PROVE k = Len(t) \/ (k \in DOMAIN s /\ t[k] = s[k])
  <2>1. k \in 1 .. Len(s) /\ k \in DOMAIN s
    BY <1>2, <1>3
  <2> QED BY <1>2, <2>1
<1> QED BY <1>2, <1>3, <1>4, <1>5

\* The run that is being recorded is a row.
LEMMA LastRunIsRow ==
  ASSUME runs \in Seq(RunRows), runs # <<>>
  PROVE  runs[Run] \in RunRows /\ Run \in DOMAIN runs /\ Plan \in Seq(Actions)
<1>1. Run \in 1 .. Len(runs) /\ DOMAIN runs = 1 .. Len(runs)
  BY EmptySeq, LenProperties DEF Run
<1>2. runs[Run] \in RunRows
  BY <1>1, ElementOfSeq
<1> QED BY <1>1, <1>2 DEF Plan, RunRows

\* The run becomes the row r.
Becomes(r) == r \in RunRows /\ runs' = [runs EXCEPT ![Len(runs)] = r]

\* A status is written to a run that has a record, and changes nothing else.
LEMMA StatusChanges ==
  ASSUME runs \in Seq(RunRows), runs # <<>>, NEW status \in RunStates, UpdateRun(status)
  PROVE  \E r : /\ Becomes(r) /\ r.plan = Plan /\ r.effects = runs[Run].effects
                /\ r.status = IF runs[Run].status = "none" THEN "none" ELSE status
<1> DEFINE new == IF runs[Run].status = "none" THEN "none" ELSE status
           r == [runs[Run] EXCEPT !.status = new]
<1>1. runs[Run] \in RunRows
  BY LastRunIsRow
<1>2. /\ r \in RunRows /\ r.plan = Plan /\ r.effects = runs[Run].effects
      /\ r.status = new
  BY <1>1 DEF RunRows, Plan
<1>3. runs' = [runs EXCEPT ![Run].status = new]
  BY DEF UpdateRun
<1>4. runs' = [runs EXCEPT ![Len(runs)] = r]
  BY <1>3 DEF Run
<1> HIDE DEF r
<1> QED BY <1>2, <1>4 DEF Becomes

\* A valid plan is written to a run.
LEMMA PlanChanges ==
  ASSUME runs \in Seq(RunRows), runs # <<>>, NEW q \in AssistantPlans,
         runs' = [runs EXCEPT ![Run].plan = q,
                              ![Run].status = IF @ = "none" THEN @ ELSE "planned"]
  PROVE  \E r : /\ Becomes(r) /\ r.plan = q /\ r.effects = runs[Run].effects
                /\ r.status = IF runs[Run].status = "none" THEN "none" ELSE "planned"
<1> DEFINE new == IF runs[Run].status = "none" THEN "none" ELSE "planned"
           r == [runs[Run] EXCEPT !.plan = q, !.status = new]
<1>1. runs[Run] \in RunRows /\ q \in Seq(Actions) /\ "planned" \in RunStates
  BY LastRunIsRow, ConstantsAssumption DEF Actions, RunStates
<1>2. /\ r \in RunRows /\ r.plan = q /\ r.effects = runs[Run].effects
      /\ r.status = new
  <2>1. new \in RunStates
    BY <1>1 DEF RunRows, RunStates
  <2> HIDE DEF new
  <2> QED BY <1>1, <2>1 DEF RunRows
<1>3. runs[Run] \in RunRows /\ Run \in DOMAIN runs
  BY LastRunIsRow
<1>4. runs' = [runs EXCEPT ![Run] = r]
  BY <1>3 DEF RunRows
<1>5. runs' = [runs EXCEPT ![Len(runs)] = r]
  BY <1>4 DEF Run
<1> HIDE DEF r
<1> QED BY <1>2, <1>5 DEF Becomes

\* An effect is counted.
LEMMA EffectCounted ==
  ASSUME runs \in Seq(RunRows), runs # <<>>, runs' = [runs EXCEPT ![Run].effects = @ + 1]
  PROVE  \E r : /\ Becomes(r) /\ r.plan = Plan /\ r.effects = runs[Run].effects + 1
                /\ r.status = runs[Run].status
<1> DEFINE new == runs[Run].effects + 1
           r == [runs[Run] EXCEPT !.effects = new]
<1>1. runs[Run] \in RunRows
  BY LastRunIsRow
<1>2. /\ r \in RunRows /\ r.plan = Plan /\ r.effects = runs[Run].effects + 1
      /\ r.status = runs[Run].status
  <2>1. new \in Nat
    BY <1>1 DEF RunRows
  <2>2. r.effects = new
    BY <1>1 DEF RunRows
  <2> HIDE DEF new
  <2>3. r \in RunRows /\ r.plan = Plan /\ r.status = runs[Run].status
    BY <1>1, <2>1 DEF RunRows, Plan
  <2> QED BY <2>2, <2>3 DEF new
<1>3. runs' = [runs EXCEPT ![Len(runs)] = r]
  BY DEF Run
<1> HIDE DEF r
<1> QED BY <1>2, <1>3 DEF Becomes

\* When a run becomes another row, the list is one of rows, and the other rows stay.
LEMMA BecomesKeeps ==
  ASSUME runs \in Seq(RunRows), runs # <<>>, NEW r, Becomes(r)
  PROVE  /\ runs' \in Seq(RunRows) /\ runs' # <<>>
         /\ Run' \in DOMAIN runs' /\ runs'[Run'] = r
         /\ \A k \in DOMAIN runs' : k = Run' \/ (k \in DOMAIN runs /\ runs'[k] = runs[k])
<1>1. /\ runs' \in Seq(RunRows) /\ runs' # <<>> /\ runs'[Len(runs')] = r
      /\ \A k \in DOMAIN runs' : k = Len(runs') \/ (k \in DOMAIN runs /\ runs'[k] = runs[k])
  BY LastRowChanges DEF Becomes
<1>2. Len(runs') \in DOMAIN runs'
  BY <1>1, EmptySeq, LenProperties
<1> QED BY <1>1, <1>2 DEF Run

\* The rows of a list of runs have one of the states of a run.
LEMMA RowStatus ==
  ASSUME NEW s \in Seq(RunRows), NEW k \in DOMAIN s
  PROVE  s[k].status \in RunStates
<1>1. k \in 1 .. Len(s)
  BY LenProperties
<1>2. s[k] \in RunRows
  BY <1>1, ElementOfSeq
<1> QED BY <1>2 DEF RunRows

\* A list of commands has a first one.
LEMMA LeastOfNaturals ==
  ASSUME NEW S \in SUBSET Nat, S # {}
  PROVE  \E r \in S : \A q \in S : r <= q
<1> DEFINE R == {ss \in Nat \X Nat : ss[1] < ss[2]}
<1>1. IsWellFoundedOn(R, Nat)
  BY NatLessThanWellFounded DEF OpToRel
<1>2. PICK x \in S : \A y \in S : ~ (<<y, x>> \in R)
  <2> HIDE DEF R
  <2> QED BY <1>1, WFMin
<1>3. ASSUME NEW y \in S PROVE x <= y
  <2>1. ~(<<y, x>> \in R)
    BY <1>2
  <2>2. ~(y < x)
    BY <2>1
  <2> QED BY <2>2
<1> QED BY <1>3

\* Every step keeps the types.
LEMMA TypesKept == TypeInv /\ [Next]_vars => TypeOK' /\ Shape'
<1> USE ConstantsAssumption DEF Idle, Processes, Places
<1> SUFFICES ASSUME TypeOK, Shape, Acting, [Next]_vars PROVE TypeOK' /\ Shape'
  BY DEF TypeInv
<1>a. ASSUME NEW i \in Items PROVE UpsertOpen(entry[i]) \in {"none", "open"} \union Closed
  BY <1>a DEF UpsertOpen, TypeOK
<1>b. Drafts \subseteq Items /\ Collected \subseteq Items
  BY DEF Items
<1>1. ASSUME NEW d \in Drafts, PostDraft(d) PROVE TypeOK' /\ Shape'
  BY <1>1 DEF PostDraft, listener, applies, bounds, TypeOK, Shape
<1>2. ASSUME NEW r \in Requests, PostCommand(r) PROVE TypeOK' /\ Shape'
  <2>1. PICK c \in Sent : request' = [request EXCEPT ![r] = c]
    BY <1>2 DEF PostCommand
  <2>2. /\ command' = [command EXCEPT ![r] = "pending"]
        /\ UNCHANGED <<connected, row, entry, settings, runs, writeEnabled, pc, queue, current, step,
                       batch, applying>>
    BY <1>2 DEF PostCommand, listener, applies
  <2> QED BY <2>1, <2>2 DEF TypeOK, Shape
<1>3. ASSUME Redeliver PROVE TypeOK' /\ Shape'
  BY <1>3 DEF Redeliver, listener, applies, TypeOK, Shape
<1>4. ASSUME NEW u \in Users, Connect(u) PROVE TypeOK' /\ Shape'
  BY <1>4 DEF Connect, listener, applies, TypeOK, Shape
<1>5. ASSUME NEW t \in Collected, Collect(t) PROVE TypeOK' /\ Shape'
  BY <1>5, <1>a, <1>b DEF Collect, listener, applies, bounds, TypeOK, Shape
<1>6. ASSUME NEW p \in Processes, Die(p) PROVE TypeOK' /\ Shape'
  <2>1. /\ batch' = [batch EXCEPT ![p] = {}] /\ applying' = [applying EXCEPT ![p] = NoDraft]
        /\ UNCHANGED <<connected, row, entry, settings, runs, request, command, writeEnabled>>
        /\ \/ p = Listener /\ pc' = "idle" /\ queue' = {} /\ current' = 0
           \/ p = Operator /\ UNCHANGED <<pc, queue, current>>
    BY <1>6 DEF Die, database, listener
  <2> QED BY <2>1 DEF TypeOK, Shape
<1>7. ASSUME NEW d \in Drafts, IgnoreInboxItem(d) PROVE TypeOK' /\ Shape'
  BY <1>7 DEF IgnoreInboxItem, listener, applies, TypeOK, Shape
<1>8. ASSUME NEW i \in Items, NEW status \in Closed, MarkTaskStatus(i, status) PROVE TypeOK' /\ Shape'
  BY <1>8 DEF MarkTaskStatus, listener, applies, TypeOK, Shape
<1>9. ASSUME NEW S \in SUBSET Drafts, OperatorApply(S) PROVE TypeOK' /\ Shape'
  BY <1>9 DEF OperatorApply, database, listener, TypeOK, Shape
<1>10. ASSUME NEW p \in Processes, NEW d \in Drafts, ApplyUpsert(p, d) PROVE TypeOK' /\ Shape'
  <2>1. /\ d \in batch[p] /\ batch' = [batch EXCEPT ![p] = @ \ {d}]
        /\ applying' = [applying EXCEPT ![p] = d]
        /\ entry' \in {entry, [entry EXCEPT ![d] = UpsertOpen(entry[d])]}
        /\ UNCHANGED <<connected, row, settings, runs, request, command, writeEnabled, pc, queue, current>>
    BY <1>10 DEF ApplyUpsert, listener
  <2>2. entry' \in [Items -> {"none", "open"} \union Closed]
    BY <2>1, <1>a, <1>b DEF TypeOK
  <2> QED BY <2>1, <2>2 DEF TypeOK, Shape
<1>11. ASSUME NEW p \in Processes, ApplyMark(p) PROVE TypeOK' /\ Shape'
  BY <1>11 DEF ApplyMark, listener, bounds, TypeOK, Shape
<1>12. ASSUME ListCommands \/ Begin \/ EndOfList \/ ExecuteApply \/ ApplyEnd PROVE TypeOK' /\ Shape'
  <2>1. ASSUME Begin PROVE TypeOK' /\ Shape'
    <3>1. /\ pc = "next" /\ current' \in queue /\ queue' \subseteq queue
          /\ pc' \in {"execute", "mark"} /\ UNCHANGED <<database, writeEnabled, batch, applying>>
      <4>1. \E r \in queue : \A q \in queue : r <= q
        <5>1. queue \in SUBSET Nat /\ queue # {}
          BY <2>1 DEF Begin, Shape, Requests
        <5> QED BY <5>1, LeastOfNaturals
      <4> QED BY <2>1, <4>1 DEF Begin, applies
    <3> QED BY <3>1 DEF database, TypeOK, Shape
  <2>2. ASSUME ExecuteApply PROVE TypeOK' /\ Shape'
    BY <2>2 DEF ExecuteApply, DraftsOf, database, bounds, TypeOK, Shape
  <2> QED
    BY <1>12, <2>1, <2>2 DEF ListCommands, EndOfList, ApplyEnd, database, applies, bounds, TypeOK, Shape
<1>13. ASSUME ExecuteDone \/ ExecutePlan \/ MarkProcessed PROVE TypeOK' /\ Shape'
  BY <1>13 DEF ExecuteDone, ExecutePlan, MarkProcessed, applies, bounds, TypeOK, Shape, Closed
<1>14. ASSUME CreateRun PROVE TypeOK' /\ Shape'
  <2>1. PICK status \in {"pending", "none"} :
          runs' = Append(runs, [user |-> User, status |-> status, plan |-> <<>>, effects |-> 0])
    BY <1>14 DEF CreateRun
  <2>2. [user |-> User, status |-> status, plan |-> <<>>, effects |-> 0] \in RunRows
    BY <1>14, UserIsUser, EmptySeq DEF CreateRun, RunRows, RunStates
  <2>3. runs' \in Seq(RunRows) /\ runs' # <<>>
    BY <2>1, <2>2, AppendProperties DEF Shape
  <2> QED BY <1>14, <2>3, RowStatus DEF CreateRun, applies, bounds, TypeOK, Shape
<1>15. ASSUME PlanRun \/ BlockRun \/ ActionFails \/ FinishRun PROVE TypeOK' /\ Shape'
  <2>1. /\ pc \in {"plan", "block", "act"} /\ pc' \in {"mark", "block", "act"}
        /\ UNCHANGED <<connected, row, entry, settings, request, command, writeEnabled, queue, current,
                       batch, applying>>
    BY <1>15 DEF PlanRun, BlockRun, ActionFails, FinishRun, applies
  <2>2. \E r : Becomes(r)
    BY <1>15, <2>1, StatusChanges, PlanChanges
       DEF PlanRun, BlockRun, ActionFails, FinishRun, Shape, RunStates
  <2>3. runs' \in Seq(RunRows) /\ runs' # <<>>
    BY <2>1, <2>2, BecomesKeeps DEF Shape
  <2> QED BY <2>1, <2>3, RowStatus DEF TypeOK, Shape
<1>16. ASSUME MutationAction PROVE TypeOK' /\ Shape'
  <2>1. pc = "act" /\ pc' = pc /\ runs' = [runs EXCEPT ![Run].effects = @ + 1]
        /\ UNCHANGED <<connected, row, entry, request, command, writeEnabled, queue, current,
                       batch, applying>>
    BY <1>16 DEF MutationAction, applies
  <2>2. \E r : Becomes(r)
    BY <2>1, EffectCounted DEF Shape
  <2>3. runs' \in Seq(RunRows) /\ runs' # <<>>
    BY <2>1, <2>2, BecomesKeeps DEF Shape
  <2>4. settings' \in [Users -> SUBSET Capabilities]
    <3>1. step \in DOMAIN Plan
      BY <1>16, LastRunIsRow, LenProperties DEF MutationAction, Acting, Shape
    <3>2. Plan[step] \in Capabilities /\ SideEffect(Plan[step])
      BY <1>16, <3>1 DEF MutationAction, Acting, ValidPlan
    <3>3. \/ UNCHANGED settings
          \/ settings' = [settings EXCEPT ![User] = @ \union {"set_weather_region"}]
          \/ settings' = [settings EXCEPT ![User] = @ \union {"set_notification_policy"}]
      BY <1>16, <3>2 DEF MutationAction, SideEffect, Capabilities, SetWeatherRegion,
                         SetNotificationPolicy
    <3>4. {"set_weather_region", "set_notification_policy"} \subseteq Capabilities
      BY DEF Capabilities
    <3> QED BY <3>3, <3>4 DEF TypeOK
  <2> QED BY <2>1, <2>3, <2>4, RowStatus DEF TypeOK, Shape
<1>17. ASSUME QueryAction \/ UNCHANGED vars PROVE TypeOK' /\ Shape'
  BY <1>17 DEF QueryAction, database, listener, applies, bounds, vars, TypeOK, Shape
<1> QED
  BY <1>1, <1>2, <1>3, <1>4, <1>5, <1>6, <1>7, <1>8, <1>9, <1>10, <1>11, <1>12, <1>13, <1>14,
     <1>15, <1>16, <1>17 DEF Next, ListenerStep, OperatorStep, Environment

\* Every step keeps the listener at an action of a valid plan.
LEMMA ActingKept == TypeInv /\ [Next]_vars => Acting'
<1> USE DEF Places
<1> SUFFICES ASSUME TypeOK, Shape, Acting, [Next]_vars, pc' = "act"
             PROVE  step' \in 1 .. Len(Plan') + 1 /\ ValidPlan(Plan')
  BY DEF TypeInv, Acting
<1>1. CASE UNCHANGED <<pc, step, runs>>
  BY <1>1 DEF Acting, Plan, Run
<1>2. CASE PlanRun
  <2>1. PICK p \in {q \in AssistantPlans : ValidPlan(q)} :
          /\ runs' = [runs EXCEPT ![Run].plan = p,
                                  ![Run].status = IF @ = "none" THEN @ ELSE "planned"]
          /\ step' = 1
    BY <1>2 DEF PlanRun
  <2>2. runs # <<>> /\ runs \in Seq(RunRows)
    BY <1>2 DEF PlanRun, Shape
  <2>3. PICK r : Becomes(r) /\ r.plan = p
    BY <2>1, <2>2, PlanChanges
  <2>4. Plan' = p
    BY <2>2, <2>3, BecomesKeeps DEF Plan
  <2>5. Len(p) \in Nat
    BY LenProperties, ConstantsAssumption
  <2> QED BY <2>1, <2>4, <2>5
<1>3. CASE MutationAction \/ QueryAction
  <2>1. /\ pc = "act" /\ step <= Len(Plan) /\ step' = step + 1
        /\ runs # <<>> /\ runs \in Seq(RunRows)
    BY <1>3 DEF MutationAction, QueryAction, Shape
  <2>2. Plan' = Plan
    <3>1. CASE QueryAction
      BY <3>1 DEF QueryAction, database, Plan, Run
    <3>2. CASE MutationAction
      <4>1. PICK r : Becomes(r) /\ r.plan = Plan
        BY <2>1, <3>2, EffectCounted DEF MutationAction
      <4> QED BY <2>1, <4>1, BecomesKeeps DEF Plan
    <3> QED BY <1>3, <3>1, <3>2
  <2>3. Len(Plan) \in Nat
    BY <2>1, LastRunIsRow, LenProperties
  <2> QED BY <2>1, <2>2, <2>3 DEF Acting
<1>4. CASE Environment \/ OperatorStep \/ UNCHANGED vars
  BY <1>1, <1>4
     DEF Environment, PostDraft, PostCommand, Redeliver, Connect, Collect, Die, OperatorStep,
         OperatorApply, ApplyUpsert, ApplyMark, IgnoreInboxItem, MarkTaskStatus, database, listener,
         applies, bounds, vars
<1>5. CASE ListenerStep
  BY <1>1, <1>2, <1>3, <1>5
     DEF ListenerStep, ListCommands, Begin, EndOfList, MarkProcessed, ExecuteApply, ApplyEnd, ExecuteDone,
         ExecutePlan, CreateRun, BlockRun, ActionFails, FinishRun, ApplyUpsert, ApplyMark, database,
         listener, applies, bounds
<1> QED BY <1>4, <1>5 DEF Next

\* Every step keeps the types.
LEMMA TypeStep == TypeInv /\ [Next]_vars => TypeInv'
BY TypesKept, ActingKept DEF TypeInv

\* The types hold at the start.
LEMMA TypeInit == Init => TypeInv
<1> SUFFICES ASSUME Init PROVE TypeInv
  OBVIOUS
<1>1. runs = <<>> /\ runs \in Seq(RunRows)
  BY EmptySeq DEF Init
<1>2. request \in [Requests -> Sent \union {NoRequest}]
  BY DEF Init
<1>3. Idle(Listener) /\ \A k \in DOMAIN runs : runs[k].status \in RunStates
  BY <1>1, EmptySeq, LenProperties DEF Init, Idle, Processes
<1>4. TypeOK
  BY <1>3 DEF Init, TypeOK, Processes
<1>5. Shape
  BY <1>1, <1>2, <1>3 DEF Init, Shape, Places, Processes
<1> QED BY <1>4, <1>5 DEF Init, TypeInv, Acting

\* The rows, the runs and the listener's locals have their types, and between
\* two commands the listener holds nothing of the last one (the locals of
\* _process_telegram_commands and apply_inbox_items).
THEOREM TypeCorrect == Spec => []TypeInv
BY TypeInit, TypeStep, PTL DEF Spec

-----------------------------------------------------------------------------
(* A draft is applied under two transactions                                *)

\* A draft that a process has written and not yet marked has its entry.
ApplyingIsThere == \A p \in Processes :
  applying[p] # NoDraft /\ KindOf[applying[p]] # "note" => entry[applying[p]] # "none"

AppliedInv == TypeInv /\ AppliedIsThere /\ ApplyingIsThere

\* Every step leaves the entries alone, upserts one as open, or closes one that
\* is there.
LEMMA EntryChanges ==
  ASSUME TypeOK, [Next]_vars
  PROVE  \/ UNCHANGED entry
         \/ \E i \in Items : entry' = [entry EXCEPT ![i] = UpsertOpen(entry[i])]
         \/ \E i \in Items, s \in Closed : entry' = [entry EXCEPT ![i] = s]
<1> USE DEF Items
<1>1. CASE \E t \in Collected : Collect(t)
  BY <1>1 DEF Collect
<1>2. CASE \E j \in Items, s \in Closed : MarkTaskStatus(j, s)
  BY <1>2 DEF MarkTaskStatus
<1>3. CASE \E p \in Processes, d \in Drafts : ApplyUpsert(p, d)
  BY <1>3 DEF ApplyUpsert
<1>4. CASE ExecuteDone
  <2>1. CASE FindsTask(User, request[current].item)
    <3>1. entry' = [entry EXCEPT ![request[current].item] = "done"] /\ "done" \in Closed
      BY <1>4, <2>1 DEF ExecuteDone, Closed
    <3>2. CASE request[current].item \in Items
      BY <3>1, <3>2
    <3>3. CASE request[current].item \notin Items
      <4>1. entry' = entry
        BY <3>1, <3>3 DEF TypeOK
      <4> QED BY <4>1
    <3> QED BY <3>2, <3>3
  <2> QED BY <1>4, <2>1 DEF ExecuteDone
<1>5. CASE Environment \/ OperatorStep \/ UNCHANGED vars
  BY <1>1, <1>2, <1>3, <1>5
     DEF Environment, PostDraft, PostCommand, Redeliver, Connect, Die, OperatorStep, OperatorApply,
         ApplyMark, IgnoreInboxItem, database, vars, Processes
<1>6. CASE ListenerStep
  BY <1>3, <1>4, <1>6
     DEF ListenerStep, ListCommands, Begin, EndOfList, MarkProcessed, ExecuteApply, ApplyEnd, ExecutePlan,
         CreateRun, PlanRun, BlockRun, MutationAction, QueryAction, ActionFails, FinishRun, ApplyMark,
         database, Processes
<1> QED BY <1>5, <1>6 DEF Next

\* An entry, once made, is never unmade, and once closed stays closed.
LEMMA EntriesStay ==
  ASSUME TypeInv, [Next]_vars, NEW i \in Items
  PROVE  /\ entry[i] # "none" => entry'[i] # "none"
         /\ entry[i] \in Closed => entry'[i] \in Closed
<1>1. entry \in [Items -> {"none", "open"} \union Closed]
  BY DEF TypeInv, TypeOK
<1>2. /\ UpsertOpen(entry[i]) # "none"
      /\ entry[i] \in Closed => UpsertOpen(entry[i]) \in Closed
  BY DEF UpsertOpen, Closed
<1>3. \A s \in Closed : s # "none"
  BY DEF Closed
<1>4. CASE UNCHANGED entry
  BY <1>4
<1>5. CASE \E j \in Items : entry' = [entry EXCEPT ![j] = UpsertOpen(entry[j])]
  BY <1>1, <1>2, <1>5
<1>6. CASE \E j \in Items, s \in Closed : entry' = [entry EXCEPT ![j] = s]
  BY <1>1, <1>3, <1>6
<1> QED BY <1>4, <1>5, <1>6, EntryChanges DEF TypeInv

\* Every step keeps what was applied in place.
LEMMA AppliedStep == AppliedInv /\ [Next]_vars => AppliedInv'
<1> USE ConstantsAssumption DEF Processes
<1> SUFFICES ASSUME TypeInv, AppliedIsThere, ApplyingIsThere, [Next]_vars
             PROVE  AppliedIsThere' /\ ApplyingIsThere'
  BY TypeStep DEF AppliedInv
<1>1. TypeOK' /\ TypeOK /\ Shape
  BY TypeStep DEF TypeInv
<1> DEFINE Marked(d) == row[d] = "processed" /\ d \notin ignored /\ KindOf[d] # "note"
           There == \A d \in Drafts : Marked(d) => entry[d] # "none"
<1>2. There /\ (There' => AppliedIsThere')
  BY <1>1 DEF AppliedIsThere
<1>3. /\ \A i \in Items : entry[i] # "none" => entry'[i] # "none"
      /\ Drafts \subseteq Items
  BY EntriesStay DEF Items
<1>4. ASSUME \A d \in Drafts : Marked(d)' => Marked(d) PROVE There'
  BY <1>2, <1>3, <1>4
<1>5. ASSUME \A p \in Processes : applying'[p] \in {applying[p], NoDraft} PROVE ApplyingIsThere'
  <2>1. applying \in [Processes -> Drafts \union {NoDraft}]
    BY <1>1 DEF Shape
  <2> QED BY <1>3, <1>5, <2>1 DEF ApplyingIsThere
<1>6. CASE \E p \in Processes, d \in Drafts : ApplyUpsert(p, d)
  <2>1. PICK p \in Processes, d \in Drafts : ApplyUpsert(p, d)
    BY <1>6
  <2>2. There'
    BY <1>4, <2>1 DEF ApplyUpsert
  <2>3. UpsertOpen(entry[d]) # "none"
    BY DEF UpsertOpen, Closed
  <2>4. KindOf[d] # "note" => entry'[d] # "none"
    BY <1>1, <1>3, <2>1, <2>3 DEF ApplyUpsert, TypeOK
  <2>5. applying \in [Processes -> Drafts \union {NoDraft}]
    BY <1>1 DEF Shape
  <2>6. ApplyingIsThere'
    BY <1>3, <2>1, <2>4, <2>5 DEF ApplyUpsert, ApplyingIsThere
  <2> QED BY <1>2, <2>2, <2>6
<1>7. CASE \E p \in Processes : ApplyMark(p)
  <2>1. PICK p \in Processes : ApplyMark(p)
    BY <1>7
  <2>2. /\ applying[p] \in Drafts /\ row' = [row EXCEPT ![applying[p]] = "processed"]
        /\ applying' = [applying EXCEPT ![p] = NoDraft] /\ entry' = entry /\ ignored' = ignored
    BY <1>1, <2>1 DEF ApplyMark, Shape
  <2>3. There'
    BY <1>1, <1>2, <2>2 DEF ApplyingIsThere, TypeOK
  <2>4. ApplyingIsThere'
    BY <1>1, <1>5, <2>2 DEF Shape
  <2> QED BY <1>2, <2>3, <2>4
<1>8. ASSUME NEW p \in Processes, Die(p) PROVE AppliedIsThere' /\ ApplyingIsThere'
  <2>1. /\ applying' = [applying EXCEPT ![p] = NoDraft]
        /\ UNCHANGED <<row, ignored>>
    BY <1>8 DEF Die, database
  <2> QED BY <1>1, <1>2, <1>4, <1>5, <2>1 DEF Shape
<1>9. CASE UNCHANGED applying /\ \A d \in Drafts : Marked(d)' => Marked(d)
  BY <1>2, <1>4, <1>5, <1>9
<1>10. CASE Redeliver \/ \E d \in Drafts : PostDraft(d) \/ IgnoreInboxItem(d)
  BY <1>1, <1>9, <1>10 DEF Redeliver, PostDraft, IgnoreInboxItem, applies, TypeOK
<1>11. CASE UNCHANGED <<applying, row, ignored>>
  BY <1>9, <1>11
<1>12. CASE Environment \/ OperatorStep \/ UNCHANGED vars
  BY <1>6, <1>7, <1>8, <1>10, <1>11, <1>12
     DEF Environment, PostCommand, Connect, Collect, OperatorStep, OperatorApply, MarkTaskStatus,
         database, applies, vars
<1>13. CASE ListenerStep
  BY <1>6, <1>7, <1>11, <1>13
     DEF ListenerStep, ListCommands, Begin, EndOfList, MarkProcessed, ExecuteApply, ApplyEnd, ExecuteDone,
         ExecutePlan, CreateRun, PlanRun, BlockRun, MutationAction, QueryAction, ActionFails, FinishRun,
         database, applies
<1> QED BY <1>12, <1>13 DEF Next

\* A draft whose row says processed, and that nobody ignored, has its event or
\* task, whoever applied it and whatever failed in between (apply_inbox_items
\* upserts before it marks).
THEOREM AppliedDraftsAreThere == Spec => []AppliedIsThere
<1>1. Init => AppliedInv
  BY TypeInit DEF Init, AppliedInv, TypeInv, AppliedIsThere, ApplyingIsThere, Processes
<1>2. AppliedInv => AppliedIsThere
  BY DEF AppliedInv
<1> QED BY <1>1, <1>2, AppliedStep, PTL DEF Spec

\* A task that was done or ignored never reopens, in any step of any process
\* (db.upsert_task keeps the status of a closed task).
THEOREM ClosedTasksStayClosed == Spec => ClosedStaysClosed
<1>1. TypeInv /\ [Next]_vars => [\A i \in Items : entry[i] \in Closed => entry'[i] \in Closed]_vars
  BY EntriesStay
<1> QED BY <1>1, TypeCorrect, PTL DEF Spec, ClosedStaysClosed

-----------------------------------------------------------------------------
(* A command writes the rows of its own user                                *)

\* The drafts the listener applies are those of the user whose command it
\* executes.
ListenerOwn ==
  /\ \A d \in batch[Listener] : OwnerOf[d] = User
  /\ applying[Listener] # NoDraft => OwnerOf[applying[Listener]] = User

OwnInv == TypeInv /\ ListenerOwn

\* While the listener is at an /apply, the command it executes stays the same.
LEMMA UserStays ==
  ASSUME TypeInv, [Next]_vars, pc = "apply", pc' = "apply"
  PROVE  User' = User
<1>1. current \in Requests /\ command[current] # "absent" /\ request \in [Requests -> Sent \union {NoRequest}]
  BY DEF TypeInv, Shape
<1>2. CASE \E r \in Requests : PostCommand(r)
  <2>1. PICK r \in Requests : PostCommand(r)
    BY <1>2
  <2>2. PICK c \in Sent : request' = [request EXCEPT ![r] = c]
    BY <2>1 DEF PostCommand
  <2>3. r # current /\ current' = current
    BY <1>1, <2>1 DEF PostCommand, listener
  <2> QED BY <1>1, <2>2, <2>3 DEF User
<1>3. CASE UNCHANGED <<request, current>>
  BY <1>3 DEF User
<1>4. ASSUME NEW p \in Processes, Die(p) PROVE User' = User
  <2>1. UNCHANGED <<request, current>>
    BY <1>4 DEF Die, database, listener
  <2> QED BY <1>3, <2>1
<1>5. CASE Environment \/ OperatorStep \/ UNCHANGED vars
  BY <1>2, <1>3, <1>4, <1>5
     DEF Environment, PostDraft, Redeliver, Connect, Collect, OperatorStep, OperatorApply, ApplyUpsert,
         ApplyMark, IgnoreInboxItem, MarkTaskStatus, database, listener, vars
<1>6. CASE ListenerStep
  BY <1>3, <1>6
     DEF ListenerStep, ListCommands, Begin, EndOfList, MarkProcessed, ExecuteApply, ApplyEnd, ExecuteDone,
         ExecutePlan, CreateRun, PlanRun, BlockRun, MutationAction, QueryAction, ActionFails, FinishRun,
         ApplyUpsert, ApplyMark, database, listener
<1> QED BY <1>5, <1>6 DEF Next

\* Every step keeps the listener at its user's drafts.
LEMMA OwnStep == OwnInv /\ [Next]_vars => OwnInv'
<1> USE ConstantsAssumption DEF Idle, Processes
<1> SUFFICES ASSUME TypeInv, ListenerOwn, [Next]_vars PROVE ListenerOwn'
  BY TypeStep DEF OwnInv
<1>1. Shape /\ Shape'
  BY TypeStep DEF TypeInv
<1>2. CASE pc' # "apply"
  BY <1>1, <1>2 DEF Shape, ListenerOwn
<1>3. CASE pc' = "apply" /\ pc # "apply"
  <2>1. ExecuteApply
    BY <1>3
       DEF Next, Environment, PostDraft, PostCommand, Redeliver, Connect, Collect, Die, OperatorStep,
           OperatorApply, ApplyUpsert, ApplyMark, IgnoreInboxItem, MarkTaskStatus, ListenerStep,
           ListCommands, Begin, EndOfList, MarkProcessed, ApplyEnd, ExecuteDone, ExecutePlan, CreateRun,
           PlanRun, BlockRun, MutationAction, QueryAction, ActionFails, FinishRun, listener, vars
  <2>2. /\ \A d \in batch'[Listener] : OwnerOf[d] = User
        /\ applying'[Listener] = NoDraft /\ User' = User
    BY <1>1, <1>3, <2>1 DEF ExecuteApply, DraftsOf, Shape, database, User
  <2> QED BY <2>2 DEF ListenerOwn
<1>4. CASE pc' = "apply" /\ pc = "apply"
  <2>1. User' = User
    BY <1>4, UserStays
  <2>2. CASE /\ batch'[Listener] \subseteq batch[Listener]
             /\ applying'[Listener] \in batch[Listener] \union {applying[Listener], NoDraft}
    BY <2>1, <2>2 DEF ListenerOwn
  <2>3. ASSUME NEW p \in Processes, NEW d \in Drafts, ApplyUpsert(p, d) PROVE ListenerOwn'
    BY <1>1, <2>2, <2>3 DEF ApplyUpsert, Shape
  <2>4. ASSUME NEW p \in Processes, ApplyMark(p) PROVE ListenerOwn'
    BY <1>1, <2>2, <2>4 DEF ApplyMark, Shape
  <2>5. ASSUME NEW p \in Processes, Die(p) PROVE ListenerOwn'
    BY <1>1, <2>2, <2>5 DEF Die, Shape
  <2>6. ASSUME NEW S, OperatorApply(S) PROVE ListenerOwn'
    BY <1>1, <2>2, <2>6 DEF OperatorApply, Shape
  <2>7. CASE UNCHANGED <<batch, applying>>
    BY <2>2, <2>7
  <2> QED
    BY <1>4, <2>3, <2>4, <2>5, <2>6, <2>7
       DEF Next, Environment, PostDraft, PostCommand, Redeliver, Connect, Collect, OperatorStep,
           IgnoreInboxItem, MarkTaskStatus, ListenerStep, ListCommands, Begin, EndOfList, MarkProcessed,
           ExecuteApply, ApplyEnd, ExecuteDone, ExecutePlan, CreateRun, PlanRun, BlockRun, MutationAction,
           QueryAction, ActionFails, FinishRun, applies, vars
<1> QED BY <1>2, <1>3, <1>4

\* A user's rows stay when none of his entries, drafts, reminders and settings
\* changes.
LEMMA OwnedKept ==
  ASSUME NEW u \in Users,
         \A i \in Items : OwnerOf[i] = u => entry'[i] = entry[i],
         \A d \in Drafts : OwnerOf[d] = u => row'[d] = row[d],
         \A k \in reminders' \union reminders : k[1] = u => (k \in reminders' <=> k \in reminders),
         settings'[u] = settings[u]
  PROVE  Owned(u)' = Owned(u)
<1>1. [i \in {j \in Items : OwnerOf[j] = u} |-> entry'[i]] = [i \in {j \in Items : OwnerOf[j] = u} |-> entry[i]]
  OBVIOUS
<1>2. [d \in {e \in Drafts : OwnerOf[e] = u} |-> row'[d]] = [d \in {e \in Drafts : OwnerOf[e] = u} |-> row[d]]
  OBVIOUS
<1>3. {k \in reminders' : k[1] = u} = {k \in reminders : k[1] = u}
  OBVIOUS
<1> QED BY <1>1, <1>2, <1>3 DEF Owned

\* A step of the listener that is at no command of user u changes no row of his.
LEMMA OthersKept ==
  ASSUME OwnInv, ListenerStep, NEW u \in Users, current = 0 \/ User # u
  PROVE  Owned(u)' = Owned(u)
<1> USE ConstantsAssumption DEF Processes
<1>1. TypeOK /\ Shape /\ Acting /\ ListenerOwn
  BY DEF OwnInv, TypeInv
<1>2. pc \notin {"idle", "next"} => User # u
  BY <1>1 DEF Shape, Requests
<1>3. CASE UNCHANGED <<entry, row, reminders, settings>>
  BY <1>3, OwnedKept
<1>4. ASSUME NEW d \in Drafts, ApplyUpsert(Listener, d) PROVE Owned(u)' = Owned(u)
  <2>1. OwnerOf[d] = User /\ User # u
    BY <1>1, <1>2, <1>4 DEF ApplyUpsert, ListenerOwn, Shape, Idle
  <2>2. \A i \in Items : OwnerOf[i] = u => entry'[i] = entry[i]
    BY <1>1, <1>4, <2>1 DEF ApplyUpsert, TypeOK
  <2> QED BY <1>4, <2>2, OwnedKept DEF ApplyUpsert
<1>5. CASE ApplyMark(Listener)
  <2>1. OwnerOf[applying[Listener]] = User /\ User # u
    BY <1>1, <1>2, <1>5 DEF ApplyMark, ListenerOwn, Shape, Idle
  <2>2. \A d \in Drafts : OwnerOf[d] = u => row'[d] = row[d]
    BY <1>1, <1>5, <2>1 DEF ApplyMark, TypeOK
  <2> QED BY <1>5, <2>2, OwnedKept DEF ApplyMark
<1>6. CASE ExecuteDone
  <2>1. User # u
    BY <1>2, <1>6 DEF ExecuteDone
  <2>2. \A i \in Items : OwnerOf[i] = u => entry'[i] = entry[i]
    BY <1>1, <1>6, <2>1 DEF ExecuteDone, FindsTask, TypeOK
  <2> QED BY <1>6, <2>2, OwnedKept DEF ExecuteDone
<1>7. CASE ExecutePlan
  <2>1. User # u
    BY <1>2, <1>7 DEF ExecutePlan
  <2>2. \A k \in reminders' \union reminders : k[1] = u => (k \in reminders' <=> k \in reminders)
    BY <1>7, <2>1 DEF ExecutePlan, PlanReminder
  <2> QED BY <1>7, <2>2, OwnedKept DEF ExecutePlan
<1>8. CASE MutationAction
  <2>1. User # u
    BY <1>2, <1>8 DEF MutationAction
  <2>2. step \in DOMAIN Plan
    BY <1>1, <1>8, LastRunIsRow, LenProperties DEF MutationAction, Acting, Shape
  <2>3. Plan[step] \in Capabilities /\ SideEffect(Plan[step])
    BY <1>1, <1>8, <2>2 DEF MutationAction, Acting, ValidPlan
  <2>4. \/ CreateReminder /\ UNCHANGED settings
        \/ (SetWeatherRegion \/ SetNotificationPolicy) /\ UNCHANGED reminders
    BY <1>8, <2>3 DEF MutationAction, SideEffect, Capabilities
  <2>5. \A k \in reminders' \union reminders : k[1] = u => (k \in reminders' <=> k \in reminders)
    BY <2>1, <2>4 DEF CreateReminder, AssistantReminder
  <2>6. settings'[u] = settings[u]
    BY <1>1, <2>1, <2>4 DEF SetWeatherRegion, SetNotificationPolicy, TypeOK
  <2> QED BY <1>8, <2>5, <2>6, OwnedKept DEF MutationAction
<1> QED
  BY <1>3, <1>4, <1>5, <1>6, <1>7, <1>8
     DEF ListenerStep, ListCommands, Begin, EndOfList, MarkProcessed, ExecuteApply, ApplyEnd, CreateRun,
         PlanRun, BlockRun, QueryAction, ActionFails, FinishRun, database

\* A command of one chat changes rows of that chat's user only, in each of the
\* transactions it takes (the user_id that every handler hands down).
THEOREM CommandsWriteOwnRows == Spec => OwnRowsOnly
<1>1. Init => OwnInv
  BY TypeInit DEF Init, OwnInv, ListenerOwn, Processes
<1>2. OwnInv /\ [Next]_vars =>
        [ListenerStep => \A u \in Users : Owned(u)' # Owned(u) => current # 0 /\ User = u]_vars
  BY OthersKept
<1> QED BY <1>1, <1>2, OwnStep, PTL DEF Spec, OwnRowsOnly

-----------------------------------------------------------------------------
(* The record of a run                                                      *)

\* The mutations of a plan that come before action n.
EffectsBefore(plan, n) == Cardinality({i \in DOMAIN plan : i < n /\ SideEffect(plan[i])})

\* Before the first action there are none, behind the last all, and an action
\* counts when it is a mutation.
LEMMA EffectsAreCounted ==
  ASSUME NEW plan \in Seq(Actions)
  PROVE  /\ EffectsBefore(plan, 1) = 0
         /\ EffectsBefore(plan, Len(plan) + 1) = Effects(plan)
         /\ \A n \in DOMAIN plan :
              /\ EffectsBefore(plan, n) \in Nat
              /\ EffectsBefore(plan, n + 1) =
                   IF SideEffect(plan[n]) THEN EffectsBefore(plan, n) + 1 ELSE EffectsBefore(plan, n)
<1> DEFINE Of(n) == {i \in DOMAIN plan : i < n /\ SideEffect(plan[i])}
<1>1. DOMAIN plan = 1 .. Len(plan) /\ Len(plan) \in Nat
  BY LenProperties
<1>2. Of(1) = {}
  BY <1>1
<1>3. Of(Len(plan) + 1) = {i \in DOMAIN plan : SideEffect(plan[i])}
  BY <1>1
<1>4. ASSUME NEW n \in DOMAIN plan
      PROVE  /\ Cardinality(Of(n)) \in Nat
             /\ Cardinality(Of(n + 1)) =
                  IF SideEffect(plan[n]) THEN Cardinality(Of(n)) + 1 ELSE Cardinality(Of(n))
  <2>1. IsFiniteSet(1 .. Len(plan))
    BY <1>1, FS_Interval
  <2>2. Of(n) \subseteq 1 .. Len(plan)
    BY <1>1
  <2>3. IsFiniteSet(Of(n))
    BY <2>1, <2>2, FS_Subset
  <2>4. Cardinality(Of(n)) \in Nat /\ n \notin Of(n)
    BY <1>1, <2>3, FS_CardinalityType
  <2>5. CASE SideEffect(plan[n])
    <3>1. Of(n + 1) = Of(n) \union {n}
      BY <1>1, <1>4, <2>5
    <3> HIDE DEF Of
    <3> QED BY <2>3, <2>4, <2>5, <3>1, FS_AddElement
  <2>6. CASE ~SideEffect(plan[n])
    <3>1. Of(n + 1) = Of(n)
      BY <1>1, <1>4, <2>6
    <3> HIDE DEF Of
    <3> QED BY <2>4, <2>6, <3>1
  <2> QED BY <2>5, <2>6
<1> QED BY <1>2, <1>3, <1>4, FS_EmptySet DEF EffectsBefore, Effects

\* What is known of a run that is planned, blocked or carried out: whether it
\* has effects, and how many.
RunUnderWay ==
  /\ pc = "plan" => runs[Run].status \in {"pending", "none"} /\ runs[Run].effects = 0
  /\ pc = "block" => runs[Run].status \in {"planned", "none"} /\ runs[Run].effects = 0
  /\ pc = "act" => /\ runs[Run].status \in {"planned", "none"}
                   /\ runs[Run].effects = EffectsBefore(Plan, step)
                   /\ ~writeEnabled => ~RequestsWrite(Plan)

RunsInv == TypeInv /\ RunsTruthful /\ RunUnderWay

\* A row that says what its run did.
Truthful(run) ==
  /\ run.status = "completed" => run.effects = Effects(run.plan)
  /\ run.status \in {"pending", "clarification", "blocked"} => run.effects = 0
  /\ ~writeEnabled => run.effects = 0

\* When the last run becomes a truthful row, all rows are truthful.
LEMMA TruthKept ==
  ASSUME TypeInv, RunsTruthful, runs # <<>>, UNCHANGED writeEnabled, NEW r, Becomes(r), Truthful(r)
  PROVE  RunsTruthful'
<1>1. runs \in Seq(RunRows)
  BY DEF TypeInv, Shape
<1>2. ASSUME NEW k \in DOMAIN runs' PROVE Truthful(runs'[k])
  <2>1. CASE k = Run'
    BY <1>1, <2>1, BecomesKeeps
  <2>2. CASE k \in DOMAIN runs /\ runs'[k] = runs[k]
    BY <2>2 DEF RunsTruthful, Truthful
  <2> QED BY <1>1, <2>1, <2>2, BecomesKeeps
<1> QED BY <1>2 DEF RunsTruthful, Truthful

\* A new run is planned next, and has had no effect.
LEMMA RunCreated == RunsInv /\ CreateRun => RunsTruthful' /\ RunUnderWay'
<1> SUFFICES ASSUME RunsInv, CreateRun PROVE RunsTruthful' /\ RunUnderWay'
  OBVIOUS
<1>1. PICK status \in {"pending", "none"} :
        runs' = Append(runs, [user |-> User, status |-> status, plan |-> <<>>, effects |-> 0])
  BY DEF CreateRun
<1> DEFINE r == [user |-> User, status |-> status, plan |-> <<>>, effects |-> 0]
<1>2. r \in RunRows /\ runs \in Seq(RunRows)
  BY UserIsUser, EmptySeq DEF CreateRun, RunsInv, TypeInv, Shape, RunRows, RunStates
<1>3. /\ Len(runs') = Len(runs) + 1 /\ Len(runs) \in Nat /\ runs'[Len(runs) + 1] = r
      /\ DOMAIN runs' = 1 .. Len(runs) + 1 /\ DOMAIN runs = 1 .. Len(runs)
      /\ \A k \in 1 .. Len(runs) : runs'[k] = runs[k]
  <2> HIDE DEF r
  <2>1. runs' \in Seq(RunRows) /\ Len(runs') = Len(runs) + 1
    BY <1>1, <1>2, AppendProperties DEF r
  <2> QED BY <1>1, <1>2, <2>1, AppendProperties, LenProperties DEF r
<1>4. Truthful(r)
  BY <1>1 DEF Truthful
<1>5. ASSUME NEW k \in DOMAIN runs' PROVE Truthful(runs'[k])
  <2>1. k = Len(runs) + 1 \/ k \in DOMAIN runs
    BY <1>3
  <2> HIDE DEF r
  <2> QED BY <1>3, <1>4, <2>1 DEF RunsInv, RunsTruthful, Truthful
<1>6. runs'[Run'].status \in {"pending", "none"} /\ runs'[Run'].effects = 0
  BY <1>1, <1>3 DEF Run
<1> QED BY <1>5, <1>6 DEF CreateRun, RunsTruthful, Truthful, RunUnderWay

\* The planner's answer: no effect yet, and a plan with mutations is carried out
\* only where writing is enabled.
LEMMA RunPlanned == RunsInv /\ PlanRun => RunsTruthful' /\ RunUnderWay'
<1> SUFFICES ASSUME RunsInv, PlanRun PROVE RunsTruthful' /\ RunUnderWay'
  OBVIOUS
<1>1. /\ TypeInv /\ runs # <<>> /\ runs \in Seq(RunRows) /\ UNCHANGED writeEnabled
      /\ runs[Run].status \in {"pending", "none"} /\ runs[Run].effects = 0
  BY DEF RunsInv, TypeInv, Shape, RunUnderWay, PlanRun
<1>2. CASE UpdateRun("clarification") /\ pc' = "mark"
  <2>1. PICK r : /\ Becomes(r) /\ r.effects = 0
                 /\ r.status \in {"none", "clarification"}
    BY <1>1, <1>2, StatusChanges DEF RunStates
  <2>2. Truthful(r)
    BY <2>1 DEF Truthful
  <2> QED BY <1>1, <1>2, <2>1, <2>2, TruthKept DEF RunsInv, RunUnderWay
<1>3. ASSUME NEW p \in {q \in AssistantPlans : ValidPlan(q)},
             runs' = [runs EXCEPT ![Run].plan = p,
                                  ![Run].status = IF @ = "none" THEN @ ELSE "planned"],
             pc' = IF RequestsWrite(p) /\ ~writeEnabled THEN "block" ELSE "act",
             step' = 1
      PROVE  RunsTruthful' /\ RunUnderWay'
  <2>1. PICK r : /\ Becomes(r) /\ r.plan = p /\ r.effects = 0 /\ r.status \in {"none", "planned"}
    BY <1>1, <1>3, PlanChanges
  <2>2. Truthful(r)
    BY <2>1 DEF Truthful
  <2>3. runs'[Run'] = r /\ Plan' = p
    BY <1>1, <2>1, BecomesKeeps DEF Plan
  <2>4. EffectsBefore(p, 1) = 0
    <3>1. p \in Seq(Actions)
      BY ConstantsAssumption DEF Actions
    <3> QED BY <3>1, EffectsAreCounted
  <2>5. RunUnderWay'
    BY <1>1, <1>3, <2>1, <2>3, <2>4 DEF RunUnderWay
  <2> QED BY <1>1, <2>1, <2>2, <2>5, TruthKept DEF RunsInv
<1> QED BY <1>2, <1>3 DEF PlanRun

\* A run that is blocked, fails or is through ends with a record that is true.
LEMMA RunEnded == RunsInv /\ (BlockRun \/ ActionFails \/ FinishRun) => RunsTruthful' /\ RunUnderWay'
<1> SUFFICES ASSUME RunsInv, BlockRun \/ ActionFails \/ FinishRun PROVE RunsTruthful' /\ RunUnderWay'
  OBVIOUS
<1>1. /\ TypeInv /\ runs # <<>> /\ runs \in Seq(RunRows) /\ UNCHANGED writeEnabled
      /\ pc \in {"block", "act"} /\ pc' = "mark"
  BY DEF RunsInv, TypeInv, Shape, BlockRun, ActionFails, FinishRun
<1>2. RunUnderWay'
  BY <1>1 DEF RunUnderWay
<1>3. Truthful(runs[Run])
  BY <1>1, LastRunIsRow DEF RunsInv, RunsTruthful, Truthful
<1>4. \E r : Becomes(r) /\ Truthful(r)
  <2>1. CASE BlockRun
    <3>1. PICK r : /\ Becomes(r) /\ r.effects = 0 /\ r.status \in {"none", "blocked"}
      BY <1>1, <2>1, StatusChanges DEF BlockRun, RunsInv, RunUnderWay, RunStates
    <3> QED BY <3>1 DEF Truthful
  <2>2. CASE ActionFails
    <3>1. PICK r : /\ Becomes(r) /\ r.effects = runs[Run].effects /\ r.status \in {"none", "failed"}
      BY <1>1, <2>2, StatusChanges DEF ActionFails, RunStates
    <3> QED BY <1>3, <3>1 DEF Truthful
  <2>3. CASE FinishRun
    <3>1. PICK r : /\ Becomes(r) /\ r.effects = runs[Run].effects /\ r.plan = Plan
                   /\ r.status \in {"none", "completed"}
      BY <1>1, <2>3, StatusChanges DEF FinishRun, RunStates
    <3>2. Plan \in Seq(Actions) /\ Len(Plan) \in Nat
      BY <1>1, LastRunIsRow, LenProperties
    <3>3. step = Len(Plan) + 1
      BY <2>3, <3>2 DEF FinishRun, RunsInv, TypeInv, Acting
    <3>4. runs[Run].effects = Effects(Plan)
      BY <2>3, <3>2, <3>3, EffectsAreCounted DEF FinishRun, RunsInv, RunUnderWay
    <3> QED BY <1>3, <3>1, <3>4 DEF Truthful
  <2> QED BY <2>1, <2>2, <2>3
<1> QED BY <1>1, <1>2, <1>4, TruthKept DEF RunsInv

\* An action of the plan is counted when it is a mutation.
LEMMA RunActs == RunsInv /\ (MutationAction \/ QueryAction) => RunsTruthful' /\ RunUnderWay'
<1> SUFFICES ASSUME RunsInv, MutationAction \/ QueryAction PROVE RunsTruthful' /\ RunUnderWay'
  OBVIOUS
<1>1. /\ TypeInv /\ runs # <<>> /\ runs \in Seq(RunRows) /\ UNCHANGED <<writeEnabled, pc>>
      /\ pc = "act" /\ step' = step + 1
      /\ runs[Run].status \in {"planned", "none"}
      /\ runs[Run].effects = EffectsBefore(Plan, step)
      /\ ~writeEnabled => ~RequestsWrite(Plan)
  BY DEF RunsInv, TypeInv, Shape, RunUnderWay, MutationAction, QueryAction, database
<1>2. Plan \in Seq(Actions) /\ step \in DOMAIN Plan
  <2>1. Plan \in Seq(Actions) /\ DOMAIN Plan = 1 .. Len(Plan) /\ Len(Plan) \in Nat
    BY <1>1, LastRunIsRow, LenProperties
  <2>2. step \in 1 .. Len(Plan) + 1 /\ step <= Len(Plan)
    BY <1>1 DEF MutationAction, QueryAction, TypeInv, Acting
  <2> QED BY <2>1, <2>2
<1>3. CASE QueryAction
  <2>1. runs' = runs /\ Plan' = Plan /\ Run' = Run
    BY <1>3 DEF QueryAction, database, Plan, Run
  <2>2. EffectsBefore(Plan, step + 1) = EffectsBefore(Plan, step)
    BY <1>2, <1>3, EffectsAreCounted DEF QueryAction
  <2> QED BY <1>1, <2>1, <2>2 DEF RunsInv, RunsTruthful, RunUnderWay
<1>4. CASE MutationAction
  <2>1. PICK r : /\ Becomes(r) /\ r.plan = Plan /\ r.effects = runs[Run].effects + 1
                 /\ r.status = runs[Run].status
    BY <1>1, <1>4, EffectCounted DEF MutationAction
  <2>2. writeEnabled
    BY <1>1, <1>2, <1>4 DEF MutationAction, RequestsWrite
  <2>3. Truthful(r)
    BY <1>1, <2>1, <2>2 DEF Truthful
  <2>4. runs'[Run'] = r /\ Plan' = Plan
    BY <1>1, <2>1, BecomesKeeps DEF Plan
  <2>5. EffectsBefore(Plan, step + 1) = EffectsBefore(Plan, step) + 1
    BY <1>2, <1>4, EffectsAreCounted DEF MutationAction
  <2>6. RunUnderWay'
    BY <1>1, <2>1, <2>2, <2>4, <2>5 DEF RunUnderWay
  <2> QED BY <1>1, <2>1, <2>3, <2>6, TruthKept DEF RunsInv
<1> QED BY <1>3, <1>4

\* Every step keeps the records true.
LEMMA RunsStep == RunsInv /\ [Next]_vars => RunsInv'
<1> SUFFICES ASSUME RunsInv, [Next]_vars PROVE RunsTruthful' /\ RunUnderWay'
  BY TypeStep DEF RunsInv
<1>1. CASE CreateRun \/ PlanRun \/ BlockRun \/ ActionFails \/ FinishRun \/ MutationAction \/ QueryAction
  BY <1>1, RunCreated, RunPlanned, RunEnded, RunActs
<1>2. CASE UNCHANGED <<runs, writeEnabled>> /\ pc' \notin {"plan", "block", "act"}
  BY <1>2 DEF RunsInv, RunsTruthful, RunUnderWay
<1>3. CASE UNCHANGED <<runs, writeEnabled, pc, step>>
  BY <1>3 DEF RunsInv, RunsTruthful, RunUnderWay, Plan, Run
<1>4. CASE Environment \/ OperatorStep \/ UNCHANGED vars
  BY <1>2, <1>3, <1>4
     DEF Environment, PostDraft, PostCommand, Redeliver, Connect, Collect, Die, OperatorStep,
         OperatorApply, ApplyUpsert, ApplyMark, IgnoreInboxItem, MarkTaskStatus, database, listener, vars
<1>5. CASE ListenerStep
  BY <1>1, <1>2, <1>3, <1>5
     DEF ListenerStep, ListCommands, Begin, EndOfList, MarkProcessed, ExecuteApply, ApplyEnd, ExecuteDone,
         ExecutePlan, ApplyUpsert, ApplyMark, database, listener
<1> QED BY <1>4, <1>5 DEF Next

\* The record of an assistant run agrees with what the run did, wherever it was
\* blocked, failed or killed, and with writing disabled no run has any effect
\* (the write gate of _handle_telegram_assistant_command, the executor).
THEOREM RunsAreTruthful == Spec => []RunsTruthful
<1>1. Init => RunsInv
  <2> SUFFICES ASSUME Init PROVE RunsTruthful /\ RunUnderWay
    BY TypeInit DEF RunsInv
  <2>1. runs = <<>> /\ pc = "idle"
    BY DEF Init
  <2> QED BY <2>1, EmptySeq, LenProperties DEF RunsTruthful, RunUnderWay
<1>2. RunsInv => RunsTruthful
  BY DEF RunsInv
<1> QED BY <1>1, <1>2, RunsStep, PTL DEF Spec

=============================================================================
