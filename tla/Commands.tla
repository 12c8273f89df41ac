------------------------------ MODULE Commands ------------------------------
(***************************************************************************)
(* What the commands of a chat do to the database (jobs/pipeline.py and    *)
(* assistant/): the inbox drafts that /apply turns into events and tasks,  *)
(* the status of tasks, the reminders of /plan, and the runs of the        *)
(* assistant (/bot), which an LLM plans and the executor carries out       *)
(* action by action.  The listener executes one command after the other,   *)
(* in many transactions, and writes the command's row as processed only    *)
(* afterwards; a fault in between has the whole command executed again.    *)
(* An operator's command line and a collection work on the same rows in    *)
(* processes of their own.  TelegramSync models how a command gets into    *)
(* the inbox and out of it; here a command is a slot with a row state.     *)
(***************************************************************************)
EXTENDS Naturals, FiniteSets, Sequences, TLC

CONSTANTS
  Users,           \* every user has one chat
  Drafts,          \* inbox rows that are not commands
  Collected,       \* tasks that a collection maintains
  OwnerOf,         \* the user of a draft or a collected task
  KindOf,          \* draft -> "task", "event" or "note"
  Listener, Operator,   \* the two processes that apply drafts
  NoDraft,
  AssistantPlans,  \* action sequences the LLM may answer a request with
  Instants,        \* (time, text) pairs a /plan may be understood as
  MaxRequests,     \* bound: commands the users send
  MaxFaults,       \* bound: kills, raised exceptions and redelivered updates
  Sent,            \* the commands the chats may send
  MaxChanges       \* bound: operator's commands, changes of the connected chats

Items    == Drafts \union Collected
Requests == 1 .. MaxRequests
NoRequest == [user |-> 0, command |-> "none", item |-> 0]
\* the commands that write; the others only read, or are Onboarding's
CommandsOf(u) ==
  [user : {u}, command : {"apply_all", "plan", "assistant"}, item : {0}]
    \union [user : {u}, command : {"apply"}, item : Drafts]
    \union [user : {u}, command : {"done"}, item : Items]
Capabilities == {"query_today", "set_weather_region", "create_one_time_reminder",
                 "set_notification_policy"}
Unknown == "unknown"   \* an action the registry does not have

ASSUME ConstantsAssumption ==
  /\ OwnerOf \in [Items -> Users]
  /\ KindOf \in [Drafts -> {"task", "event", "note"}]
  /\ Drafts \intersect Collected = {} /\ Listener # Operator
  /\ NoDraft \notin Drafts
  /\ AssistantPlans \subseteq Seq(Capabilities \union {Unknown})
  /\ Instants \subseteq Nat
  /\ Sent \subseteq UNION {CommandsOf(u) : u \in Users}
  /\ MaxRequests \in Nat /\ MaxFaults \in Nat /\ MaxChanges \in Nat

VARIABLES
  \* the database
  connected,  \* chats with an active school connection
  row,        \* draft -> state of its inbox row
  entry,      \* item -> status of the task or event made from it
  reminders,  \* keys of the reminder rows
  settings,   \* user -> preferences the user has set
  runs,       \* assistant_runs, oldest first, with the effects each run had
  request,    \* slot -> the command stored there
  command,    \* slot -> state of the command's inbox row
  \* settings of the process
  writeEnabled,   \* telegram_assistant_write_enabled
  \* the listener
  pc, queue, current, step,
  \* apply_inbox_items, by process
  batch, applying,
  \* history
  ignored,    \* drafts an operator ignored since they were last delivered
  faults, changes

database == <<connected, row, entry, reminders, settings, runs, request, command>>
listener == <<pc, queue, current, step>>
applies  == <<batch, applying>>
bounds   == <<faults, changes>>
vars == <<database, writeEnabled, listener, applies, ignored, bounds>>

Processes == {Listener, Operator}
Closed    == {"done", "ignored"}
RunStates == {"none", "pending", "planned", "clarification", "blocked", "completed",
              "failed"}

-----------------------------------------------------------------------------
(* Capabilities, scopes and identities                                      *)

\* with no configured and no connected chat, every chat is let in
Allowed(u) == connected = {} \/ u \in connected

\* mutant: only the first action is looked at
WritesFirst(plan) == plan # <<>> /\ Head(plan) # "query_today"
SideEffect(capability) == capability # "query_today"
\* the write gate looks at every action of the plan
RequestsWrite(plan) == \E i \in DOMAIN plan : SideEffect(plan[i])
\* validate_planner_output: one action that is not in the registry spoils the plan
ValidPlan(plan) == \A i \in DOMAIN plan : plan[i] \in Capabilities
Effects(plan) == Cardinality({i \in DOMAIN plan : SideEffect(plan[i])})

\* a /plan reminder is the hash of chat, time and text; the assistant's has a
\* fresh uuid each time
PlanReminder(u, t) == <<u, "plan", t, 0>>
AssistantReminder(u, run, i) == <<u, "assistant", run, i>>

\* mutant: the upsert takes the status it is given
UpsertAnyway(old) == "open"
\* a closed task stays closed when it is upserted as open
UpsertOpen(old) == IF old \in Closed THEN old ELSE "open"

\* the drafts a command of user u sees
DraftsOf(u) == {d \in Drafts : OwnerOf[d] = u}

\* mutant: the selector is looked up without its user
AnyTask(u, i) == entry[i] # "none"
\* _resolve_task_row finds tasks only, and a chat's only its own
FindsTask(u, i) ==
  /\ entry[i] # "none" /\ OwnerOf[i] = u
  /\ i \in Drafts => KindOf[i] = "task"

Init ==
  /\ connected \in {{}, Users}
  /\ row = [d \in Drafts |-> "absent"]
  /\ entry = [i \in Items |-> "none"]
  /\ reminders = {}
  /\ settings = [u \in Users |-> {}]
  /\ runs = <<>>
  /\ request = [r \in Requests |-> NoRequest]
  /\ command = [r \in Requests |-> "absent"]
  /\ writeEnabled \in BOOLEAN
  /\ pc = "idle" /\ queue = {} /\ current = 0 /\ step = 0
  /\ batch = [p \in Processes |-> {}]
  /\ applying = [p \in Processes |-> NoDraft]
  /\ ignored = {} /\ faults = 0 /\ changes = 0

-----------------------------------------------------------------------------
(* The environment: chats, operator, collection, faults                     *)

\* a draft arrives from an allowed chat
PostDraft(d) ==
  /\ row[d] = "absent" /\ Allowed(OwnerOf[d])
  /\ row' = [row EXCEPT ![d] = "pending"]
  /\ UNCHANGED <<connected, entry, reminders, settings, runs, request, command,
                 writeEnabled, listener, applies, ignored, bounds>>

PostCommand(r) ==
  /\ command[r] = "absent" /\ \A q \in Requests : q < r => command[q] # "absent"
  /\ \E c \in Sent :
       /\ Allowed(c.user)
       /\ request' = [request EXCEPT ![r] = c]
  /\ command' = [command EXCEPT ![r] = "pending"]
  /\ UNCHANGED <<connected, row, entry, reminders, settings, runs, writeEnabled,
                 listener, applies, ignored, bounds>>

\* Telegram delivers an update again: its row is written as not processed
Redeliver ==
  /\ faults < MaxFaults /\ faults' = faults + 1
  /\ pc = "idle"
  /\ \/ \E d \in Drafts :
          /\ row[d] = "processed"
          /\ row' = [row EXCEPT ![d] = "pending"]
          /\ ignored' = ignored \ {d}
          /\ UNCHANGED command
     \/ \E r \in Requests :
          /\ command[r] = "processed"
          /\ command' = [command EXCEPT ![r] = "pending"]
          /\ UNCHANGED <<row, ignored>>
  /\ UNCHANGED <<connected, entry, reminders, settings, runs, request, writeEnabled,
                 listener, applies, changes>>

Change == changes < MaxChanges /\ changes' = changes + 1

\* a chat connects a school account, or loses the connection
Connect(u) ==
  /\ Change
  /\ connected' = IF u \in connected THEN connected \ {u} ELSE connected \union {u}
  /\ UNCHANGED <<row, entry, reminders, settings, runs, request, command,
                 writeEnabled, listener, applies, ignored, faults>>

\* a collection upserts its task as open
Collect(t) ==
  /\ entry' = [entry EXCEPT ![t] = UpsertOpen(entry[t])]
  /\ UNCHANGED <<connected, row, reminders, settings, runs, request, command,
                 writeEnabled, listener, applies, ignored, bounds>>

\* `sidae inbox ignore`
IgnoreInboxItem(d) ==
  /\ Change /\ row[d] = "pending"
  /\ row' = [row EXCEPT ![d] = "processed"]
  /\ ignored' = ignored \union {d}
  /\ UNCHANGED <<connected, entry, reminders, settings, runs, request, command,
                 writeEnabled, listener, applies, faults>>

\* `sidae tasks done` and `sidae tasks ignore`, of any user's task
MarkTaskStatus(i, status) ==
  /\ Change
  /\ entry[i] # "none" /\ i \in Drafts => KindOf[i] = "task"
  /\ entry' = [entry EXCEPT ![i] = status]
  /\ UNCHANGED <<connected, row, reminders, settings, runs, request, command,
                 writeEnabled, listener, applies, ignored, faults>>

\* one process is killed, or a database call raises and ends its cycle; what
\* was committed stays
Die(p) ==
  /\ faults < MaxFaults /\ faults' = faults + 1
  /\ \/ p = Listener /\ pc # "idle"
     \/ p = Operator /\ (batch[p] # {} \/ applying[p] # NoDraft)
  /\ batch' = [batch EXCEPT ![p] = {}]
  /\ applying' = [applying EXCEPT ![p] = NoDraft]
  /\ IF p = Listener
     THEN pc' = "idle" /\ queue' = {} /\ current' = 0 /\ step' = 0
     ELSE UNCHANGED listener
  /\ UNCHANGED <<database, writeEnabled, ignored, changes>>

-----------------------------------------------------------------------------
(* apply_inbox_items                                                        *)

Idle(p) == batch[p] = {} /\ applying[p] = NoDraft

\* `sidae inbox apply`: the rows of all users
OperatorApply(selected) ==
  /\ Change /\ Idle(Operator)
  /\ batch' = [batch EXCEPT ![Operator] = {d \in selected : row[d] = "pending"}]
  /\ batch'[Operator] # {}
  /\ UNCHANGED <<database, writeEnabled, listener, applying, ignored, faults>>

\* mutant: an upsert that fails is skipped
ApplySwallow(p, d) ==
  /\ d \in batch[p] /\ applying[p] = NoDraft
  /\ batch' = [batch EXCEPT ![p] = @ \ {d}]
  /\ applying' = [applying EXCEPT ![p] = d]
  /\ UNCHANGED <<database, writeEnabled, listener, ignored, bounds>>

\* the event or task is upserted under the draft's identity: one transaction
ApplyUpsert(p, d) ==
  /\ d \in batch[p] /\ applying[p] = NoDraft
  /\ batch' = [batch EXCEPT ![p] = @ \ {d}]
  /\ applying' = [applying EXCEPT ![p] = d]
  /\ entry' = IF KindOf[d] = "note" THEN entry
              ELSE [entry EXCEPT ![d] = UpsertOpen(entry[d])]
  /\ UNCHANGED <<connected, row, reminders, settings, runs, request, command,
                 writeEnabled, listener, ignored, bounds>>

\* and the row is marked by its id: another one
ApplyMark(p) ==
  /\ applying[p] # NoDraft
  /\ row' = [row EXCEPT ![applying[p]] = "processed"]
  /\ applying' = [applying EXCEPT ![p] = NoDraft]
  /\ UNCHANGED <<connected, entry, reminders, settings, runs, request, command,
                 writeEnabled, listener, batch, ignored, bounds>>

-----------------------------------------------------------------------------
(* The listener: _process_telegram_commands                                 *)

ListCommands ==
  /\ pc = "idle" /\ \E r \in Requests : command[r] = "pending"
  /\ queue' = {r \in Requests : command[r] = "pending"}
  /\ pc' = "next"
  /\ UNCHANGED <<database, writeEnabled, current, step, applies, ignored, bounds>>

User == request[current].user

\* the next command; a chat that is no longer allowed is refused
Begin ==
  /\ pc = "next" /\ queue # {}
  /\ current' = CHOOSE r \in queue : \A q \in queue : r <= q
  /\ queue' = queue \ {current'}
  /\ pc' = IF Allowed(request[current'].user) THEN "execute" ELSE "mark"
  /\ UNCHANGED <<database, writeEnabled, step, applies, ignored, bounds>>

EndOfList ==
  /\ pc = "next" /\ queue = {}
  /\ pc' = "idle"
  /\ UNCHANGED <<database, writeEnabled, queue, current, step, applies, ignored, bounds>>

\* /apply reads the user's rows once, and applies those that were pending
ExecuteApply ==
  /\ pc = "execute" /\ request[current].command \in {"apply", "apply_all"}
  /\ batch' = [batch EXCEPT ![Listener] =
       {d \in DraftsOf(User) : /\ row[d] = "pending"
                               /\ request[current].command = "apply"
                                    => d = request[current].item}]
  /\ pc' = "apply"
  /\ UNCHANGED <<database, writeEnabled, queue, current, step, applying, ignored, bounds>>

ApplyEnd ==
  /\ pc = "apply" /\ Idle(Listener)
  /\ pc' = "mark"
  /\ UNCHANGED <<database, writeEnabled, queue, current, step, applies, ignored, bounds>>

\* /done task: one transaction
ExecuteDone ==
  /\ pc = "execute" /\ request[current].command = "done"
  /\ LET i == request[current].item IN
       entry' = IF FindsTask(User, i) THEN [entry EXCEPT ![i] = "done"] ELSE entry
  /\ pc' = "mark"
  /\ UNCHANGED <<connected, row, reminders, settings, runs, request, command,
                 writeEnabled, queue, current, step, applies, ignored, bounds>>

\* /plan: the LLM, or the parser when it fails, understands some instant or none
ExecutePlan ==
  /\ pc = "execute" /\ request[current].command = "plan"
  /\ \/ UNCHANGED reminders
     \/ \E t \in Instants : reminders' = reminders \union {PlanReminder(User, t)}
  /\ pc' = "mark"
  /\ UNCHANGED <<connected, row, entry, settings, runs, request, command,
                 writeEnabled, queue, current, step, applies, ignored, bounds>>

\* whatever came of it, the command's row is written as processed
MarkProcessed ==
  /\ pc = "mark"
  /\ command' = [command EXCEPT ![current] = "processed"]
  /\ pc' = "next" /\ current' = 0 /\ step' = 0
  /\ UNCHANGED <<connected, row, entry, reminders, settings, runs, request,
                 writeEnabled, queue, applies, ignored, bounds>>

-----------------------------------------------------------------------------
(* The assistant: _handle_telegram_assistant_command and the executor       *)

Run == Len(runs)
UpdateRun(status) ==
  runs' = [runs EXCEPT ![Run].status = IF @ = "none" THEN @ ELSE status]

\* an insert that fails is ignored: the request is executed without a record
CreateRun ==
  /\ pc = "execute" /\ request[current].command = "assistant"
  /\ \E status \in {"pending", "none"} :
       /\ runs' = Append(runs, [user |-> User, status |-> status, plan |-> <<>>, effects |-> 0])
       /\ IF status = "none" THEN faults < MaxFaults /\ faults' = faults + 1
          ELSE UNCHANGED faults
  /\ pc' = "plan"
  /\ UNCHANGED <<connected, row, entry, reminders, settings, request, command,
                 writeEnabled, queue, current, step, applies, ignored, changes>>

\* the planner answers with a plan, or asks back: the request is ambiguous, the
\* LLM is disabled, it failed, or its answer is not a valid plan
PlanRun ==
  /\ pc = "plan"
  /\ \/ /\ UpdateRun("clarification")
        /\ pc' = "mark" /\ UNCHANGED step
     \/ \E p \in {q \in AssistantPlans : ValidPlan(q)} :
          /\ runs' = [runs EXCEPT ![Run].plan = p,
                                  ![Run].status = IF @ = "none" THEN @ ELSE "planned"]
          /\ pc' = IF RequestsWrite(p) /\ ~writeEnabled THEN "block" ELSE "act"
          /\ step' = 1
  /\ UNCHANGED <<connected, row, entry, reminders, settings, request, command,
                 writeEnabled, queue, current, applies, ignored, bounds>>

BlockRun ==
  /\ pc = "block"
  /\ UpdateRun("blocked")
  /\ pc' = "mark"
  /\ UNCHANGED <<connected, row, entry, reminders, settings, request, command,
                 writeEnabled, queue, current, step, applies, ignored, bounds>>

Plan == runs[Run].plan

\* a one-time reminder, a preference, or a notification policy: one transaction
CreateReminder == reminders' = reminders \union {AssistantReminder(User, Run, step)}
SetWeatherRegion == settings' = [settings EXCEPT ![User] = @ \union {"set_weather_region"}]
SetNotificationPolicy ==
  settings' = [settings EXCEPT ![User] = @ \union {"set_notification_policy"}]

\* the next action of the plan takes effect
MutationAction ==
  /\ pc = "act" /\ step <= Len(Plan) /\ SideEffect(Plan[step])
  /\ CASE Plan[step] = "create_one_time_reminder" -> CreateReminder /\ UNCHANGED settings
       [] Plan[step] = "set_weather_region" -> SetWeatherRegion /\ UNCHANGED reminders
       [] Plan[step] = "set_notification_policy" ->
            SetNotificationPolicy /\ UNCHANGED reminders
  /\ runs' = [runs EXCEPT ![Run].effects = @ + 1]
  /\ step' = step + 1
  /\ UNCHANGED <<connected, row, entry, request, command, writeEnabled, pc, queue,
                 current, applies, ignored, bounds>>

\* or only reads
QueryAction ==
  /\ pc = "act" /\ step <= Len(Plan) /\ ~SideEffect(Plan[step])
  /\ step' = step + 1
  /\ UNCHANGED <<database, writeEnabled, pc, queue, current, applies, ignored, bounds>>

\* or it fails - a time that has passed, a place that is not found, an
\* exception - and the plan stops there
ActionFails ==
  /\ pc = "act" /\ step <= Len(Plan)
  /\ UpdateRun("failed")
  /\ pc' = "mark"
  /\ UNCHANGED <<connected, row, entry, reminders, settings, request, command,
                 writeEnabled, queue, current, step, applies, ignored, bounds>>

FinishRun ==
  /\ pc = "act" /\ step > Len(Plan)
  /\ UpdateRun("completed")
  /\ pc' = "mark"
  /\ UNCHANGED <<connected, row, entry, reminders, settings, request, command,
                 writeEnabled, queue, current, step, applies, ignored, bounds>>

-----------------------------------------------------------------------------
ListenerStep ==
  \/ ListCommands \/ Begin \/ EndOfList \/ MarkProcessed
  \/ ExecuteApply \/ ApplyEnd \/ ExecuteDone \/ ExecutePlan
  \/ CreateRun \/ PlanRun \/ BlockRun \/ MutationAction \/ QueryAction \/ ActionFails \/ FinishRun
  \/ (\E d \in Drafts : ApplyUpsert(Listener, d)) \/ ApplyMark(Listener)

OperatorStep ==
  \/ OperatorApply(Drafts) \/ \E d \in Drafts : OperatorApply({d})
  \/ (\E d \in Drafts : ApplyUpsert(Operator, d)) \/ ApplyMark(Operator)
  \/ \E d \in Drafts : IgnoreInboxItem(d)
  \/ \E i \in Items, s \in Closed : MarkTaskStatus(i, s)

Environment ==
  \/ \E d \in Drafts : PostDraft(d)
  \/ \E r \in Requests : PostCommand(r)
  \/ Redeliver
  \/ \E u \in Users : Connect(u)
  \/ \E t \in Collected : Collect(t)
  \/ \E p \in Processes : Die(p)

Next == ListenerStep \/ OperatorStep \/ Environment

Spec == Init /\ [][Next]_vars

-----------------------------------------------------------------------------
(* Properties                                                               *)

\* Types, and between two commands the listener holds nothing of the last one
\* (the locals of _process_telegram_commands and apply_inbox_items).
TypeOK ==
  /\ connected \subseteq Users
  /\ row \in [Drafts -> {"absent", "pending", "processed"}]
  /\ entry \in [Items -> {"none", "open"} \union Closed]
  /\ settings \in [Users -> SUBSET Capabilities]
  /\ \A k \in DOMAIN runs : runs[k].status \in RunStates
  /\ command \in [Requests -> {"absent", "pending", "processed"}]
  /\ \A p \in Processes : batch[p] \subseteq Drafts
  /\ pc \in {"idle", "next"} => current = 0 /\ Idle(Listener)

\* A draft whose row says processed, and that nobody ignored, has its event or
\* task: apply_inbox_items writes the two in separate transactions, and two
\* processes, a fault in between, or a second delivery of the draft must not
\* leave a row that no /apply will ever look at again without its entry.
AppliedIsThere ==
  /\ TypeOK
  /\ \A d \in Drafts :
    row[d] = "processed" /\ d \notin ignored /\ KindOf[d] # "note" => entry[d] # "none"

\* A task that was done or ignored never reopens: neither a collection that
\* read the portal before, nor a draft that is delivered and applied again,
\* nor another process that is still applying it may undo it (db.upsert_task).
ClosedStaysClosed ==
  [][\A i \in Items : entry[i] \in Closed => entry'[i] \in Closed]_vars

Owned(u) == << [i \in {j \in Items : OwnerOf[j] = u} |-> entry[i]],
               [d \in {e \in Drafts : OwnerOf[e] = u} |-> row[d]],
               {k \in reminders : k[1] = u}, settings[u] >>

\* A command of one chat changes rows of that chat's user only, in each of the
\* transactions it takes (the user_id that every handler hands down).
OwnRowsOnly ==
  [][ListenerStep => \A u \in Users : Owned(u)' # Owned(u) => current # 0 /\ User = u]_vars

\* The record of an assistant run agrees with what the run did: one that is
\* completed had every effect of its plan, one that was blocked or asked back
\* had none; and with writing disabled no run has any effect, wherever in the
\* plan its mutations stand.
RunsTruthful ==
  \A k \in DOMAIN runs :
    LET run == runs[k] IN
      /\ run.status = "completed" => run.effects = Effects(run.plan)
      /\ run.status \in {"pending", "clarification", "blocked"} => run.effects = 0
      /\ ~writeEnabled => run.effects = 0

=============================================================================
