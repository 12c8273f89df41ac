---------------------------- MODULE OpsActionQueue ----------------------------
(***************************************************************************)
(* The action queue of the ops dashboard, OpsDashboardActionQueue in        *)
(* ops_action_service.py.  The threads of the dashboard's HTTP server       *)
(* launch actions; each action runs in a worker thread of its own.  A       *)
(* launch whose scope (action, instance, chat or user) is running already   *)
(* answers with the record of that run instead of starting another.  The    *)
(* records are kept in a deque of limited length, newest first.             *)
(*                                                                         *)
(* Actions are numbered in the order of their launches, so the deque is     *)
(* the set of the numbers in it, and its last element the least of them.    *)
(***************************************************************************)
EXTENDS Naturals, FiniteSets

CONSTANTS
  Scopes,        \* what _action_scope_text tells apart
  NoScope,
  MaxRecords,    \* max_records
  MaxLaunches,   \* bound: actions launched
  MaxFaults      \* bound: threads the system refuses to start

ASSUME ConstantsAssumption ==
  /\ NoScope \notin Scopes
  /\ MaxRecords \in Nat \ {0} /\ MaxLaunches \in Nat /\ MaxFaults \in Nat

Ids     == 1 .. MaxLaunches
NoId    == 0
Settled == {"completed", "failed"}

VARIABLES
  records,   \* the ids of the deque
  index,     \* the ids _index knows
  running,   \* scope -> the id in _running, or NoId
  launched,  \* the number of actions launched
  scope,     \* id -> dedupe_key of its record
  status,    \* id -> status of its record; "none" before the launch
  worker,    \* id -> its thread: "none"; "launch" (the lock is released, start not
             \* called yet); "ready"; "work"; "finish" (the status is written, the
             \* claim still held); "gone"
  faults

vars == <<records, index, running, launched, scope, status, worker, faults>>

Init ==
  /\ records = {} /\ index = {}
  /\ running = [s \in Scopes |-> NoId]
  /\ launched = 0
  /\ scope = [i \in Ids |-> NoScope]
  /\ status = [i \in Ids |-> "none"]
  /\ worker = [i \in Ids |-> "none"]
  /\ faults = 0

-----------------------------------------------------------------------------
\* a launch of scope s starts nothing, and answers with the record of the action
\* that claims s; that it flags this record as a duplicate is for display only
Claimed(s) == running[s] # NoId /\ running[s] \in index

\* what a launch evicts: the oldest record of a full deque, running or not
Evicted ==
  IF Cardinality(records) >= MaxRecords THEN {i \in records : \A j \in records : i <= j} ELSE {}

\* the block under the lock
Launch(s) ==
  LET new == launched + 1 IN
  /\ ~Claimed(s) /\ launched < MaxLaunches
  /\ launched' = new
  /\ records' = (records \ Evicted) \union {new}
  /\ index' = (index \ Evicted) \union {new}
  /\ running' = [running EXCEPT ![s] = new]
  /\ scope' = [scope EXCEPT ![new] = s]
  /\ status' = [status EXCEPT ![new] = "queued"]
  /\ worker' = [worker EXCEPT ![new] = "launch"]
  /\ UNCHANGED faults

StartThread(i) ==
  /\ worker[i] = "launch"
  /\ worker' = [worker EXCEPT ![i] = "ready"]
  /\ UNCHANGED <<records, index, running, launched, scope, status, faults>>

\* thread.start raises: the request fails, and the claim stays
StartRaises(i) ==
  /\ worker[i] = "launch" /\ faults < MaxFaults
  /\ worker' = [worker EXCEPT ![i] = "gone"]
  /\ faults' = faults + 1
  /\ UNCHANGED <<records, index, running, launched, scope, status>>

Begin(i) ==
  /\ worker[i] = "ready"
  /\ worker' = [worker EXCEPT ![i] = "work"]
  /\ status' = [status EXCEPT ![i] = "running"]
  /\ UNCHANGED <<records, index, running, launched, scope, faults>>

\* the action returns or raises
Settle(i) ==
  /\ worker[i] = "work"
  /\ worker' = [worker EXCEPT ![i] = "finish"]
  /\ \E outcome \in Settled : status' = [status EXCEPT ![i] = outcome]
  /\ UNCHANGED <<records, index, running, launched, scope, faults>>

\* mutant: whoever holds the claim of the scope loses it
ReleaseAny(i) ==
  /\ worker[i] = "finish"
  /\ running' = [running EXCEPT ![scope[i]] = NoId]
  /\ worker' = [worker EXCEPT ![i] = "gone"]
  /\ UNCHANGED <<records, index, launched, scope, status, faults>>

\* mutant: an action that failed keeps its claim, since the release is not in the finally
ReleaseCompleted(i) ==
  /\ worker[i] = "finish"
  /\ running' = [running EXCEPT ![scope[i]] = IF @ = i /\ status[i] = "completed" THEN NoId ELSE @]
  /\ worker' = [worker EXCEPT ![i] = "gone"]
  /\ UNCHANGED <<records, index, launched, scope, status, faults>>

\* finished_at, and under the lock the claim is given up, if it is still i's own
ReleaseClaim(i) ==
  /\ worker[i] = "finish"
  /\ running' = [running EXCEPT ![scope[i]] = IF @ = i THEN NoId ELSE @]
  /\ worker' = [worker EXCEPT ![i] = "gone"]
  /\ UNCHANGED <<records, index, launched, scope, status, faults>>

Worker(i) == StartThread(i) \/ Begin(i) \/ Settle(i) \/ ReleaseClaim(i)

Next ==
  \/ \E s \in Scopes : Launch(s)
  \/ \E i \in Ids : Worker(i) \/ StartRaises(i)

Spec == Init /\ [][Next]_vars

\* threads are scheduled, and every action ends; nobody has to launch anything
FairSpec == Spec /\ \A i \in Ids : WF_vars(Worker(i))

-----------------------------------------------------------------------------
(* Properties                                                               *)

\* the ids that were launched
Past == 1 .. launched

TypeOK ==
  /\ launched \in 0 .. MaxLaunches
  /\ records \subseteq Past /\ index \subseteq Past
  /\ running \in [Scopes -> Past \union {NoId}]
  /\ scope \in [Ids -> Scopes \union {NoScope}]
  /\ status \in [Ids -> {"none", "queued", "running"} \union Settled]
  /\ worker \in [Ids -> {"none", "launch", "ready", "work", "finish", "gone"}]
  /\ faults \in 0 .. MaxFaults
  /\ \A i \in Ids : i > launched <=> scope[i] = NoScope
  /\ \A i \in Ids : worker[i] = "none" <=> scope[i] = NoScope
  /\ \A i \in Ids : worker[i] = "finish" => status[i] \in Settled

\* The deque and the index stay one table, of limited size: no launch leaves a
\* record that is listed and cannot be fetched, or that can be fetched for ever.
OneTable == records = index /\ Cardinality(records) <= MaxRecords

\* The dashboard never lists two actions of one scope in progress, not even
\* when evicted runs end late and several launches of the scope follow each other.
OneInProgress ==
  \A i, j \in records :
    status[i] \notin Settled /\ status[j] \notin Settled /\ scope[i] = scope[j] => i = j

\* A claim is given up, by the end of its action or by a launch that finds its
\* record evicted, unless its thread never started.
ClaimsEnd ==
  \A i \in Ids, s \in Scopes :
    (running[s] = i) ~> (running[s] # i \/ (worker[i] = "gone" /\ status[i] = "queued"))
=============================================================================
