------------------------------ MODULE SyncLocks ------------------------------
(***************************************************************************)
(* The lock files of cli.py.  Several operating-system processes work on   *)
(* one database: `sidae sync --all` runs the eight jobs of run_all_jobs in  *)
(* order under the sync-all lock, taking the job's own lock around four of  *)
(* them; `sidae sync-uclass`, `sync-weather`, `sync-telegram` and           *)
(* `send-briefings` run one job under that job's lock; the telegram-listener *)
(* holds the sync-telegram lock for its whole life and tries the briefings  *)
(* lock in every cycle; the uclass-poller takes the sync-uclass lock when   *)
(* the host becomes reachable and then at intervals.  A lock is an flock:   *)
(* the kernel releases it when its process dies.                            *)
(***************************************************************************)
EXTENDS Naturals, Sequences

CONSTANTS
  SyncAlls,        \* processes that run `sidae sync --all`
  OneShots,        \* processes that run one of the single-job commands
  Listener,        \* the telegram-listener
  Poller,          \* the uclass-poller
  Nobody,
  Waits,           \* the options the commands are started with
  MaxKills         \* bound: processes killed

\* no --wait; --wait; --wait --timeout
WaitOptions == {"no", "block", "timed"}
Procs == SyncAlls \union OneShots \union {Listener, Poller}

ASSUME ConstantsAssumption ==
  /\ SyncAlls \intersect OneShots = {}
  /\ Listener \notin SyncAlls \union OneShots
  /\ Poller \notin SyncAlls \union OneShots \union {Listener}
  /\ Nobody \notin Procs
  /\ Waits \subseteq WaitOptions
  /\ MaxKills \in Nat

VARIABLES
  holder,     \* lock -> the process that holds it, or Nobody
  at,         \* process -> "off", "sleep" (poller), "lock" or "job"
  want,       \* process -> the lock it is at, or the job it runs; else "sync_all"
  wait,       \* process -> its --wait and --timeout options, while it still reads them
  network,    \* the UClass host is reachable
  lastUp,     \* the poller's last_network_up
  collected,  \* the poller's last_sync_started_at: "never", "recent", "old"
  kills

vars   == <<holder, at, want, wait, network, lastUp, collected, kills>>
poller == <<lastUp, collected>>

Jobs == <<"sync_uclass", "sync_uos_portal_timetable", "sync_weather", "sync_telegram",
          "scheduled_briefings", "sync_llm_summaries", "daily_digest", "publish_dashboard">>
\* mutant: the briefings lock is missing from the table of lock builders
SharedWithoutBriefings == {"sync_uclass", "sync_weather", "sync_telegram"}
\* the jobs that have a lock of their own, which goes by the job's name
Shared == {"sync_uclass", "sync_weather", "sync_telegram", "scheduled_briefings"}
JobLocks == {"sync_uclass", "sync_weather", "sync_telegram", "scheduled_briefings"}
Locks    == JobLocks \union {"sync_all"}
JobNames == JobLocks \union {"sync_uos_portal_timetable", "sync_llm_summaries", "daily_digest",
                             "publish_dashboard"}

Init ==
  /\ holder = [l \in Locks |-> Nobody]
  /\ at = [p \in Procs |-> "off"]
  /\ want = [p \in Procs |-> "sync_all"]
  /\ wait = [p \in Procs |-> "no"]
  /\ network \in BOOLEAN
  /\ lastUp = FALSE /\ collected = "never"
  /\ kills = 0

-----------------------------------------------------------------------------
\* mutant: every nested lock waits as the command line says
ShouldWaitAlways(job) == TRUE
\* the jobs whose nested lock `sync --all --wait` waits for
ShouldWait(job) == job \in {"sync_uclass", "sync_weather"}

\* p is at, or inside of, a lock that it takes while it holds another one
Nested(p) ==
  \/ p \in SyncAlls /\ want[p] # "sync_all"
  \/ p = Listener /\ want[p] = "scheduled_briefings"

\* how p behaves when the lock it is at is taken
WaitMode(p) ==
  CASE p \in SyncAlls /\ Nested(p) -> IF ShouldWait(want[p]) THEN wait[p] ELSE "no"
    [] p = Listener /\ Nested(p) -> "no"
    [] p = Poller -> "timed"
    [] OTHER -> wait[p]

\* p goes on to a job: to its lock first, when it has one
Enter(p, job) ==
  /\ want' = [want EXCEPT ![p] = job]
  /\ at' = [at EXCEPT ![p] = IF job \in Shared THEN "lock" ELSE "job"]

\* p is at, or runs, the last of the jobs
Last(p) == want[p] = Jobs[Len(Jobs)]
EnterNext(p) == \E i \in 1 .. Len(Jobs) - 1 : want[p] = Jobs[i] /\ Enter(p, Jobs[i + 1])

\* p leaves the locks of L, and holds what else it holds
Release(p, L) == holder' = [l \in Locks |-> IF l \in L /\ holder[l] = p THEN Nobody ELSE holder[l]]

\* the process ends: the kernel takes its locks back, and its locals are gone
Exit(p) ==
  /\ at' = [at EXCEPT ![p] = "off"]
  /\ want' = [want EXCEPT ![p] = "sync_all"] /\ wait' = [wait EXCEPT ![p] = "no"]
  /\ Release(p, Locks)
  /\ IF p = Poller THEN lastUp' = FALSE /\ collected' = "never" ELSE UNCHANGED poller

\* the commands, and the locks they start with
FirstLocks(p) ==
  CASE p \in SyncAlls -> {"sync_all"}
    [] p \in OneShots -> JobLocks
    [] p = Listener   -> {"sync_telegram"}
    [] OTHER          -> {}

Launch(p) ==
  /\ at[p] = "off"
  /\ \E l \in FirstLocks(p), w \in Waits :
       /\ want' = [want EXCEPT ![p] = l]
       /\ wait' = [wait EXCEPT ![p] = w]
  /\ at' = [at EXCEPT ![p] = "lock"]
  /\ UNCHANGED <<holder, network, poller, kills>>

LaunchPoller ==
  /\ at[Poller] = "off"
  /\ at' = [at EXCEPT ![Poller] = "sleep"]
  /\ UNCHANGED <<holder, want, wait, network, poller, kills>>

\* mutant: only a change of reachability starts a collection
ShouldRunOnEdge == network /\ ~lastUp
ShouldRun == network /\ (~lastUp \/ collected # "recent")

\* the top of the poller's loop
Probe ==
  /\ at[Poller] = "sleep"
  /\ \/ /\ ShouldRun
        /\ Enter(Poller, "sync_uclass")
        /\ UNCHANGED lastUp
     \/ /\ ~ShouldRun
        /\ lastUp' = network
        /\ UNCHANGED <<at, want>>
  /\ UNCHANGED <<holder, wait, network, collected, kills>>

\* flock succeeds
Acquire(p) ==
  /\ at[p] = "lock" /\ holder[want[p]] = Nobody
  /\ holder' = [holder EXCEPT ![want[p]] = p]
  /\ IF want[p] = "sync_all" THEN Enter(p, Jobs[1])
     ELSE at' = [at EXCEPT ![p] = "job"] /\ UNCHANGED want
  /\ wait' = [wait EXCEPT ![p] = IF p \in SyncAlls THEN @ ELSE "no"]
  /\ UNCHANGED <<network, poller, kills>>

\* the lock is busy, or was busy until the timeout: the process ends, but a
\* nested job is skipped, and the poller's handler forgets that the host was up
GiveUp(p) ==
  /\ at[p] = "lock" /\ holder[want[p]] # Nobody /\ WaitMode(p) # "block"
  /\ \/ /\ p \in SyncAlls /\ Nested(p)
        /\ EnterNext(p)
        /\ UNCHANGED <<holder, wait, poller>>
     \/ /\ p = Listener /\ Nested(p)
        /\ want' = [want EXCEPT ![p] = "sync_telegram"] /\ at' = [at EXCEPT ![p] = "job"]
        /\ UNCHANGED <<holder, wait, poller>>
     \/ /\ p = Poller
        /\ lastUp' = FALSE
        /\ at' = [at EXCEPT ![p] = "sleep"] /\ want' = [want EXCEPT ![p] = "sync_all"]
        /\ UNCHANGED <<holder, wait, collected>>
     \/ /\ p # Poller /\ ~Nested(p)
        /\ Exit(p)
  /\ UNCHANGED <<network, kills>>

\* mutant: a job that raised keeps its lock
FinishKeepLock(p) ==
  /\ p \in SyncAlls /\ at[p] = "job"
  /\ \/ Last(p) /\ Exit(p)
     \/ ~Last(p) /\ EnterNext(p) /\ UNCHANGED <<holder, wait, poller>>
  /\ UNCHANGED <<network, kills>>

\* a job of sync --all returns or raises
FinishJob(p) ==
  /\ p \in SyncAlls /\ at[p] = "job"
  /\ \/ Last(p) /\ Exit(p)
     \/ ~Last(p) /\ EnterNext(p) /\ Release(p, {want[p]}) /\ UNCHANGED <<wait, poller>>
  /\ UNCHANGED <<network, kills>>

FinishOneShot(p) ==
  /\ p \in OneShots /\ at[p] = "job"
  /\ Exit(p)
  /\ UNCHANGED <<network, kills>>

\* the listener ends half of a cycle: after the Telegram half it tries the
\* briefings, after those it polls again; --once, repeated errors and an
\* exception of the briefings end it; without direct briefings it polls again at
\* once
ListenerStep ==
  /\ at[Listener] = "job"
  /\ \/ want[Listener] = "sync_telegram" /\ Enter(Listener, "scheduled_briefings")
        /\ UNCHANGED <<holder, wait, poller>>
     \/ want[Listener] = "scheduled_briefings"
        /\ want' = [want EXCEPT ![Listener] = "sync_telegram"]
        /\ Release(Listener, {"scheduled_briefings"})
        /\ UNCHANGED <<at, wait, poller>>
     \/ Exit(Listener)
  /\ UNCHANGED <<network, kills>>

FinishPoller ==
  /\ at[Poller] = "job"
  /\ at' = [at EXCEPT ![Poller] = "sleep"] /\ want' = [want EXCEPT ![Poller] = "sync_all"]
  /\ lastUp' = TRUE /\ collected' = "recent"
  /\ Release(Poller, {"sync_uclass"})
  /\ UNCHANGED <<wait, network, kills>>

\* the interval of the poller has passed since its last collection
Elapse ==
  /\ collected = "recent"
  /\ collected' = "old"
  /\ UNCHANGED <<holder, at, want, wait, network, lastUp, kills>>

NetworkChange ==
  /\ network' = ~network
  /\ UNCHANGED <<holder, at, want, wait, poller, kills>>

Kill(p) ==
  /\ at[p] # "off" /\ kills < MaxKills
  /\ Exit(p)
  /\ kills' = kills + 1
  /\ UNCHANGED network

-----------------------------------------------------------------------------
Next ==
  \/ \E p \in Procs : Launch(p) \/ Acquire(p) \/ GiveUp(p) \/ Kill(p)
  \/ \E p \in SyncAlls : FinishJob(p)
  \/ \E p \in OneShots : FinishOneShot(p)
  \/ LaunchPoller \/ Probe \/ FinishPoller
  \/ ListenerStep
  \/ Elapse \/ NetworkChange

Spec == Init /\ [][Next]_vars

\* every job ends (its calls have timeouts), a lock that keeps coming free is
\* granted in the end, a wait that has run out is noticed, launchd keeps the
\* poller alive; nobody has to start any other command
FairSpec ==
  /\ Spec
  /\ \A p \in Procs : SF_vars(Acquire(p)) /\ WF_vars(GiveUp(p))
  /\ \A p \in SyncAlls : WF_vars(FinishJob(p))
  /\ \A p \in OneShots : WF_vars(FinishOneShot(p))
  /\ WF_vars(LaunchPoller) /\ WF_vars(Probe) /\ WF_vars(FinishPoller)
  /\ WF_vars(ListenerStep) /\ WF_vars(Elapse)

-----------------------------------------------------------------------------
(* Properties                                                               *)

\* the locks and jobs each process can be at
Program(p) ==
  CASE p \in SyncAlls -> JobNames \union {"sync_all"}
    [] p \in OneShots -> JobLocks
    [] p = Listener   -> {"sync_telegram", "scheduled_briefings"}
    [] p = Poller     -> {"sync_uclass"}

\* each process is where its program can be
Placed ==
  /\ at \in [Procs -> {"off", "sleep", "lock", "job"}]
  /\ want \in [Procs -> Locks \union JobNames]
  /\ \A p \in Procs :
       /\ at[p] \in {"lock", "job"} => want[p] \in Program(p)
       /\ at[p] = "lock" => want[p] \in Locks
       /\ at[p] = "job" => want[p] \in JobNames
       /\ at[p] = "sleep" => p = Poller

TypeOK ==
  /\ Placed
  /\ holder \in [Locks -> Procs \union {Nobody}]
  /\ wait \in [Procs -> WaitOptions]
  /\ network \in BOOLEAN /\ lastUp \in BOOLEAN
  /\ collected \in {"never", "recent", "old"}
  /\ kills \in 0 .. MaxKills

\* No job runs in two processes at once, the four jobs that have no lock of
\* their own included: with the sync-all lock held from end to end, the locks
\* keep every job's read-modify-write of its sync_state row to one process.
OneRunPerJob ==
  \A p, q \in Procs : at[p] = "job" /\ at[q] = "job" /\ want[p] = want[q] => p = q

\* the locks whose with-blocks p is inside of
Inside(p) ==
  {l \in Locks : \/ l = "sync_all" /\ p \in SyncAlls /\ Nested(p) /\ at[p] # "off"
                 \/ l = "sync_telegram" /\ p = Listener /\ Nested(p) /\ at[p] # "off"
                 \/ l = want[p] /\ at[p] = "job"}

\* A process holds exactly the locks whose with-blocks it is inside of: no path
\* out of a job, a skip, a timeout, an error exit or a kill leaves a lock behind.
LocksReleased == \A p \in Procs, l \in Locks : holder[l] = p <=> l \in Inside(p)

\* `sync --all` ends, even with --wait, no timeout and a listener that never
\* gives its lock back (the comment in _sync_all_job_should_wait), and no two
\* processes wait for each other's locks for ever.
SyncAllEnds == \A p \in SyncAlls : (at[p] # "off") ~> (at[p] = "off")

\* While the host stays reachable and no other process collects from UClass,
\* the poller collects again and again, whatever timeouts, restarts and losses
\* of the network came before.
PollerKeepsCollecting ==
  <>[](network /\ holder["sync_uclass"] \in {Nobody, Poller}) => []<>(at[Poller] = "job")
=============================================================================
