---------------------------- MODULE TelegramSync ----------------------------
(***************************************************************************)
(* The Telegram synchronisation cycle of jobs/pipeline.py, as the process  *)
(* that holds the sync-telegram lock runs it (the telegram-listener        *)
(* daemon, `sidae sync-telegram`, or the sync-all job): poll the bot API,  *)
(* store the updates in the inbox table, execute the unprocessed commands, *)
(* answer them, dispatch the due reminders, and record the next offset in  *)
(* the sync_state row.  Every database call commits on its own, so the     *)
(* process can fail or die between any two of them, and the next cycle     *)
(* starts from whatever was committed.                                     *)
(*                                                                         *)
(* Updates are numbered by their update_id; a reminder r is the row whose  *)
(* external id hashes (chat, run_at, message), and reminders are numbered  *)
(* by run_at, so that r is due when r <= now.                              *)
(***************************************************************************)
EXTENDS Naturals, FiniteSets, Sequences

CONSTANTS
  MaxUpdates,      \* bound: updates the users post
  Reminders,       \* reminder rows, 1 .. n in the order of run_at
  PollLimit,       \* settings.telegram_poll_limit
  CommandLimit,    \* the LIMIT of list_unprocessed_inbox_commands
  DueLimit,        \* the LIMIT of list_due_telegram_reminders
  MaxErrors,       \* --max-consecutive-errors
  MaxFaults        \* bound: crashes, exceptions and skipped runs

ASSUME ConstantsAssumption ==
  /\ MaxUpdates \in Nat /\ MaxFaults \in Nat
  /\ Reminders \subseteq Nat \ {0} /\ IsFiniteSet(Reminders)
  /\ PollLimit \in Nat \ {0} /\ CommandLimit \in Nat \ {0}
  /\ DueLimit \in Nat \ {0} /\ MaxErrors \in Nat \ {0}

VARIABLES
  \* the Telegram server
  log,        \* kinds of the updates posted so far; the index is the update_id
  forgotten,  \* every update_id up to this one has been confirmed by an offset
  \* the database
  cursor,     \* next_offset of the sync_telegram row; 0 when the key is missing
  inbox,      \* update_id -> row state ("absent", "pending", "processed")
  reminder,   \* reminder -> status of its row
  now,        \* the clock, in units of run_at
  \* the process that holds the lock
  pc, off, top, toStore, todo, dueList, errs,
  \* history
  faults,     \* faults so far
  executed,   \* update_id -> executions of the command
  ignored,    \* commands an operator took out of the inbox
  armed,      \* reminder -> times a command set it to pending
  sends       \* reminder -> times its message was delivered

server   == <<log, forgotten>>
process  == <<pc, off, top, toStore, todo, dueList, errs>>
history  == <<executed, ignored, armed, sends>>
vars     == <<server, cursor, inbox, reminder, now, process, faults, history>>

UpdateIds == 1 .. MaxUpdates
\* "dropped": no text, or a chat that is not allowed; "note": event, task or
\* memo draft; "plan": a command that schedules a reminder; "command": any other
Kinds     == {"dropped", "note", "command", "plan"}
RowStates == {"absent", "pending", "processed"}
Statuses  == {"none", "pending", "sent", "failed"}
PCs       == {"down", "poll", "store", "list", "execute", "mark", "reply", "due",
              "send", "markSent", "markFailed", "record", "error"}

\* the n first elements of S
FirstOf(S, n) == {x \in S : Cardinality({y \in S : y < x}) < n}
IsLeast(x, S) == x \in S /\ \A y \in S : x <= y

Stored(kind)    == kind # "dropped"
IsCommand(kind) == kind \in {"command", "plan"}
PostedCommand(u) == u \in DOMAIN log /\ IsCommand(log[u])

Init ==
  /\ log = <<>> /\ forgotten = 0
  /\ cursor = 0
  /\ inbox = [u \in UpdateIds |-> "absent"]
  /\ reminder = [r \in Reminders |-> "none"]
  /\ now = 0
  /\ pc = "down" /\ off = 0 /\ top = 0 /\ toStore = {} /\ todo = {} /\ dueList = {}
  /\ errs = 0 /\ faults = 0
  /\ executed = [u \in UpdateIds |-> 0]
  /\ ignored = {}
  /\ armed = [r \in Reminders |-> 0]
  /\ sends = [r \in Reminders |-> 0]

-----------------------------------------------------------------------------
(* The environment: users, the clock, an operator, launchd                  *)

\* a user sends the bot a message
Post(kind) ==
  /\ Len(log) < MaxUpdates
  /\ log' = Append(log, kind)
  /\ UNCHANGED <<forgotten, cursor, inbox, reminder, now, process, faults, history>>

Tick ==
  /\ \E r \in Reminders : now < r
  /\ now' = now + 1
  /\ UNCHANGED <<server, cursor, inbox, reminder, process, faults, history>>

\* `sidae inbox ignore`: another process marks one row processed
Ignore(u) ==
  /\ inbox[u] = "pending"
  /\ inbox' = [inbox EXCEPT ![u] = "processed"]
  /\ ignored' = ignored \union {u}
  /\ UNCHANGED <<server, cursor, reminder, now, process, faults, executed,
                 armed, sends>>

\* the process takes the sync-telegram lock and begins its first cycle
Start ==
  /\ pc = "down"
  /\ pc' = "poll"
  /\ UNCHANGED <<server, cursor, inbox, reminder, now, off, top, toStore, todo,
                 dueList, errs, faults, history>>

\* a run with Telegram disabled, or without a token, records a cursor that
\* has no next_offset
SkippedRun ==
  /\ pc = "down" /\ faults < MaxFaults
  /\ cursor' = 0
  /\ faults' = faults + 1
  /\ UNCHANGED <<server, inbox, reminder, now, process, history>>

ClearLocals == off' = 0 /\ top' = 0 /\ toStore' = {} /\ todo' = {} /\ dueList' = {}

\* the process is killed: whatever it had committed stays
Crash ==
  /\ pc # "down" /\ faults < MaxFaults
  /\ pc' = "down" /\ errs' = 0 /\ ClearLocals
  /\ faults' = faults + 1
  /\ UNCHANGED <<server, cursor, inbox, reminder, now, history>>

-----------------------------------------------------------------------------
(* One cycle                                                                *)

\* the server forgets every update below the offset it is asked for
Confirm(offset) == IF offset > forgotten + 1 THEN offset - 1 ELSE forgotten
Undelivered(f) == {u \in DOMAIN log : u > f}

\* read next_offset, call getUpdates; an answer that is lost to a read timeout
\* or is not ok counts as no updates
Poll ==
  /\ pc = "poll"
  /\ off' = cursor
  /\ forgotten' = Confirm(cursor)
  /\ \E got \in {FirstOf(Undelivered(forgotten'), PollLimit), {}} :
       /\ top' \in IF got = {} THEN {0} ELSE {u \in got : \A v \in got : v <= u}
       /\ toStore' = {u \in got : Stored(log[u])}
  /\ pc' = "store"
  /\ UNCHANGED <<log, cursor, inbox, reminder, now, todo, dueList, errs, faults, history>>

\* upsert the next update; the upsert overwrites the processed flag
Store ==
  /\ pc = "store"
  /\ \E u \in toStore :
       /\ IsLeast(u, toStore)
       /\ inbox' = [inbox EXCEPT ![u] = "pending"]
       /\ toStore' = toStore \ {u}
  /\ UNCHANGED <<server, cursor, reminder, now, pc, off, top, todo, dueList, errs,
                 faults, history>>

Stage(from, to, done) == pc = from /\ done /\ pc' = to

StoreDone ==
  /\ Stage("store", "list", toStore = {})
  /\ UNCHANGED <<server, cursor, inbox, reminder, now, off, top, toStore, todo,
                 dueList, errs, faults, history>>

\* mutant: the LIMIT is applied before the item_type filter
PendingLimitedFirst ==
  {u \in FirstOf({v \in DOMAIN log : inbox[v] = "pending"}, CommandLimit) : IsCommand(log[u])}
PendingCommands == {u \in DOMAIN log : inbox[u] = "pending" /\ IsCommand(log[u])}

\* mutant: the rows are claimed, marked processed, as they are listed
ListAndClaim ==
  /\ pc = "list"
  /\ todo' = FirstOf(PendingCommands, CommandLimit)
  /\ inbox' = [u \in UpdateIds |-> IF u \in todo' THEN "processed" ELSE inbox[u]]
  /\ pc' = "execute"
  /\ UNCHANGED <<server, cursor, reminder, now, off, top, toStore, dueList,
                 errs, faults, history>>

ListCommands ==
  /\ pc = "list"
  /\ todo' = FirstOf(PendingCommands, CommandLimit)
  /\ pc' = "execute"
  /\ UNCHANGED <<server, cursor, inbox, reminder, now, off, top, toStore, dueList,
                 errs, faults, history>>

\* a /plan upserts the reminder the planner names, whatever its status was; it
\* may also find nothing to schedule
Schedule ==
  \/ UNCHANGED <<reminder, armed>>
  \/ \E r \in Reminders :
       /\ reminder' = [reminder EXCEPT ![r] = "pending"]
       /\ armed' = [armed EXCEPT ![r] = @ + 1]

Execute ==
  /\ pc = "execute"
  /\ \E u \in todo :
       /\ IsLeast(u, todo)
       /\ executed' = [executed EXCEPT ![u] = @ + 1]
       /\ IF log[u] = "plan" THEN Schedule ELSE UNCHANGED <<reminder, armed>>
  /\ pc' = "mark"
  /\ UNCHANGED <<server, cursor, inbox, now, off, top, toStore, todo, dueList, errs,
                 faults, ignored, sends>>

\* upsert the row with processed=True
MarkProcessed ==
  /\ pc = "mark"
  /\ \E u \in todo :
       /\ IsLeast(u, todo)
       /\ inbox' = [inbox EXCEPT ![u] = "processed"]
  /\ pc' = "reply"
  /\ UNCHANGED <<server, cursor, reminder, now, off, top, toStore, todo, dueList, errs,
                 faults, history>>

\* answer the user and go on with the next row; a reply the identity gate
\* blocks, or whose send raises, is dropped, and nothing records either outcome
Reply ==
  /\ pc = "reply"
  /\ \E u \in todo :
       /\ IsLeast(u, todo)
       /\ todo' = todo \ {u}
  /\ pc' = "execute"
  /\ UNCHANGED <<server, cursor, inbox, reminder, now, off, top, toStore, dueList, errs,
                 faults, history>>

ExecuteDone ==
  /\ Stage("execute", "due", todo = {})
  /\ UNCHANGED <<server, cursor, inbox, reminder, now, off, top, toStore, todo,
                 dueList, errs, faults, history>>

\* mutant: what was sent once is not sent again, whatever its status says
DueUnsent == {r \in Reminders : reminder[r] = "pending" /\ r <= now /\ sends[r] = 0}
Due == {r \in Reminders : reminder[r] = "pending" /\ r <= now}

ListDue ==
  /\ pc = "due"
  /\ dueList' = FirstOf(Due, DueLimit)
  /\ pc' = "send"
  /\ UNCHANGED <<server, cursor, inbox, reminder, now, off, top, toStore, todo, errs,
                 faults, history>>

\* send the next due reminder; a send that raises counts as not delivered, also
\* when only its answer was lost
SendReminder ==
  /\ pc = "send"
  /\ \E r \in dueList :
       /\ IsLeast(r, dueList)
       /\ \/ sends' = [sends EXCEPT ![r] = @ + 1] /\ pc' \in {"markSent", "markFailed"}
          \/ UNCHANGED sends /\ pc' = "markFailed"
  /\ UNCHANGED <<server, cursor, inbox, reminder, now, off, top, toStore, todo, dueList,
                 errs, faults, executed, ignored, armed>>

\* mutant: only a failed send is written back
MarkOnlyFailed ==
  /\ pc \in {"markSent", "markFailed"}
  /\ \E r \in dueList :
       /\ IsLeast(r, dueList)
       /\ reminder' = [reminder EXCEPT ![r] = IF pc = "markFailed" THEN "failed" ELSE @]
       /\ dueList' = dueList \ {r}
  /\ pc' = "send"
  /\ UNCHANGED <<server, cursor, inbox, now, off, top, toStore, todo, errs, faults, history>>

MarkReminder ==
  /\ pc \in {"markSent", "markFailed"}
  /\ \E r \in dueList :
       /\ IsLeast(r, dueList)
       /\ reminder' = [reminder EXCEPT ![r] = IF pc = "markSent" THEN "sent" ELSE "failed"]
       /\ dueList' = dueList \ {r}
  /\ pc' = "send"
  /\ UNCHANGED <<server, cursor, inbox, now, off, top, toStore, todo, errs, faults, history>>

SendDone ==
  /\ Stage("send", "record", dueList = {})
  /\ UNCHANGED <<server, cursor, inbox, reminder, now, off, top, toStore, todo,
                 dueList, errs, faults, history>>

\* mutant: the highest update_id itself is recorded, without the + 1
NextOffsetInclusive == IF top > 0 THEN top ELSE off
NextOffset == IF top > 0 THEN top + 1 ELSE off

\* the listener goes on with the next cycle; a one-shot run ends
Record ==
  /\ pc = "record"
  /\ cursor' = NextOffset
  /\ pc' \in {"poll", "down"}
  /\ errs' = 0 /\ ClearLocals
  /\ UNCHANGED <<server, inbox, reminder, now, faults, history>>

-----------------------------------------------------------------------------
(* Exceptions                                                               *)

\* the API call or a database call raises; a request that fails may have
\* reached the server
Raise ==
  /\ pc \in {"poll", "store", "list", "execute", "mark", "due", "markSent",
             "markFailed", "record"}
  /\ faults < MaxFaults
  /\ forgotten' \in IF pc = "poll" THEN {forgotten, Confirm(cursor)} ELSE {forgotten}
  /\ pc' = "error"
  /\ faults' = faults + 1
  /\ UNCHANGED <<log, cursor, inbox, reminder, now, off, top, toStore, todo, dueList,
                 errs, history>>

\* mutant: the error handler records the offset of the batch it did not finish
RecordErrorKeepOffset ==
  /\ pc = "error"
  /\ cursor' = NextOffset
  /\ \/ errs + 1 < MaxErrors /\ errs' = errs + 1 /\ pc' = "poll"
     \/ errs' = 0 /\ pc' = "down"
  /\ ClearLocals
  /\ UNCHANGED <<server, inbox, reminder, now, faults, history>>

\* sync_telegram's handler records {"error": ...}, a cursor without next_offset;
\* after MaxErrors such cycles the listener exits for launchd to restart it
RecordError ==
  /\ pc = "error"
  /\ cursor' = 0
  /\ \/ errs + 1 < MaxErrors /\ errs' = errs + 1 /\ pc' = "poll"
     \/ errs' = 0 /\ pc' = "down"
  /\ ClearLocals
  /\ UNCHANGED <<server, inbox, reminder, now, faults, history>>

-----------------------------------------------------------------------------
Cycle ==
  \/ Start \/ Poll \/ Store \/ StoreDone \/ ListCommands \/ Execute \/ MarkProcessed
  \/ Reply \/ ExecuteDone \/ ListDue \/ SendReminder \/ MarkReminder \/ SendDone
  \/ Record \/ RecordError

Next ==
  \/ \E kind \in Kinds : Post(kind)
  \/ Tick
  \/ \E u \in UpdateIds : Ignore(u)
  \/ SkippedRun \/ Crash \/ Raise
  \/ Cycle

Spec == Init /\ [][Next]_vars

\* the process keeps running and launchd restarts it, and time passes; an
\* answer to getUpdates is not lost for ever; nobody has to post, ignore or fail
FairSpec == Spec /\ WF_vars(Cycle) /\ WF_vars(Tick) /\ SF_vars(Poll /\ top' > 0)

-----------------------------------------------------------------------------
(* Properties                                                               *)

TypeOK ==
  /\ log \in Seq(Kinds) /\ Len(log) <= MaxUpdates
  /\ forgotten \in 0 .. MaxUpdates
  /\ cursor \in 0 .. MaxUpdates + 1
  /\ inbox \in [UpdateIds -> RowStates]
  /\ reminder \in [Reminders -> Statuses]
  /\ now \in Nat
  /\ pc \in PCs
  /\ off \in 0 .. MaxUpdates + 1 /\ top \in 0 .. MaxUpdates
  /\ toStore \subseteq UpdateIds /\ todo \subseteq UpdateIds
  /\ dueList \subseteq Reminders
  /\ errs \in Nat /\ faults \in 0 .. MaxFaults
  /\ executed \in [UpdateIds -> Nat]
  /\ ignored \subseteq UpdateIds
  /\ armed \in [Reminders -> Nat] /\ sends \in [Reminders -> Nat]

\* An update the Telegram server has forgotten, because a later poll confirmed
\* it, is in the inbox unless it was to be dropped: no order of failures between
\* the poll, the row-by-row store and the recording of next_offset loses one.
NoUpdateLost ==
  \A u \in 1 .. forgotten : Stored(log[u]) => inbox[u] # "absent"

\* A command leaves the unprocessed state only by being executed or by an
\* operator's ignore: a crash between the execution and the write of
\* processed=True, or a redelivery, never makes a command count as done that
\* was not executed.
NoCommandSwallowed ==
  \A u \in DOMAIN log :
    IsCommand(log[u]) /\ inbox[u] = "processed" => executed[u] > 0 \/ u \in ignored

\* A command is executed once, and at most twice more for each fault: once as
\* the row the fault left unprocessed, once as the update that is delivered
\* again after the lost offset.  Without failures the offset and the processed
\* flag make it exactly once.
ExecutionsBounded == \A u \in UpdateIds : executed[u] <= 1 + 2 * faults

\* A reminder is delivered once per command that armed it, and once more for
\* each fault that falls between the send and the write of its status.
RemindersBounded == \A r \in Reminders : sends[r] <= armed[r] + faults

\* The abstract mailbox: an update that is a command is a command of it, done
\* when its row is processed.
Mailbox ==
  INSTANCE CommandMailbox WITH
    Ids     <- UpdateIds,
    state   <- [u \in UpdateIds |-> IF ~PostedCommand(u) THEN "absent"
                                    ELSE IF inbox[u] = "processed" THEN "done" ELSE "pending"],
    dropped <- {u \in ignored : PostedCommand(u)}

\* The cycle is an at-least-once mailbox: without faults a command is executed
\* exactly once and its row never unprocessed again; whatever fails, a command
\* counts as done only when it was executed or ignored, and the offset, the
\* upsert and the processed flag together allow two more executions per fault.
AtLeastOnce == Mailbox!Spec

\* Once the faults have stopped, a posted command is executed, or ignored by
\* the operator: neither a lost offset, nor a backlog beyond the limits, nor a
\* listener that exits on errors can leave it in the queue for ever.
CommandsExecuted ==
  \A u \in UpdateIds :
    PostedCommand(u) ~> (executed[u] > 0 \/ u \in ignored)

\* A pending reminder leaves the pending state: it is sent, or marked failed.
RemindersSettled == \A r \in Reminders : (reminder[r] = "pending") ~> (reminder[r] # "pending")
=============================================================================
