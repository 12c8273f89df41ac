----------------------------- MODULE JobsProofs -----------------------------
(***************************************************************************)
(* The jobs that collect, for any number of processes, users and regions:  *)
(* the lock files they run under, the timetables of the portal and the     *)
(* weather.  Each part has its types, the inductive invariant that its     *)
(* properties need, and the properties.                                    *)
(***************************************************************************)
EXTENDS SyncLocks, PortalTimetable, Weather, WellFoundedInduction, TLAPS

-----------------------------------------------------------------------------
(* The lock files: a process holds exactly the locks whose blocks it is     *)
(* inside of, so that no job runs in two processes at once.                 *)

\* Every entry of the sequence of jobs is one of the jobs.
LEMMA JobsFacts == Len(Jobs) = 8 /\ \A i \in 1 .. 8 : Jobs[i] \in JobNames
<1>1. Len(Jobs) = 8
  BY DEF Jobs
<1>2. ASSUME NEW i \in 1 .. 8 PROVE Jobs[i] \in JobNames
  <2>1. i = 1 \/ i = 2 \/ i = 3 \/ i = 4 \/ i = 5 \/ i = 6 \/ i = 7 \/ i = 8
    OBVIOUS
  <2> QED
    BY <2>1 DEF Jobs, JobNames, JobLocks
<1> QED
  BY <1>1, <1>2

\* What EnterNext does: p is at the lock of a job, or runs a job that has none.
LEMMA EnterNextFacts ==
  ASSUME TypeOK, NEW p \in Procs, EnterNext(p)
  PROVE  \E job \in JobNames : Enter(p, job)
<1>1. PICK i \in 1 .. Len(Jobs) - 1 : Enter(p, Jobs[i + 1])
  BY DEF EnterNext
<1>2. i + 1 \in 1 .. 8
  BY JobsFacts
<1> QED
  BY <1>1, <1>2, JobsFacts

\* Going on to a job of its program keeps a process in its program.
LEMMA EnterPlaced ==
  ASSUME Placed, NEW p \in Procs, NEW job \in JobNames, job \in Program(p), Enter(p, job)
  PROVE  Placed'
<1>1. Shared = JobLocks
  BY DEF Shared, JobLocks
<1>2. /\ at' \in [Procs -> {"off", "sleep", "lock", "job"}]
      /\ want' \in [Procs -> Locks \union JobNames]
  BY DEF Placed, Enter
<1>3. \A q \in Procs : q # p => at'[q] = at[q] /\ want'[q] = want[q]
  BY DEF Placed, Enter
<1>4. want'[p] = job /\ at'[p] \in {"lock", "job"} /\ (at'[p] = "lock" => job \in Locks)
  BY <1>1 DEF Placed, Enter, Locks
<1> QED
  BY <1>2, <1>3, <1>4 DEF Placed, Program

\* The end of a process keeps every other one where it is.
LEMMA ExitPlaced ==
  ASSUME Placed, NEW p \in Procs, Exit(p)
  PROVE  Placed'
  BY DEF Placed, Exit, Locks, Program

\* Releasing locks keeps the type of their holders.
LEMMA ReleaseType ==
  ASSUME holder \in [Locks -> Procs \union {Nobody}], NEW p, NEW L, Release(p, L)
  PROVE  holder' \in [Locks -> Procs \union {Nobody}]
  BY DEF Release

\* The programs that the proofs below step through.
LEMMA Programs ==
  /\ \A p \in SyncAlls : Program(p) = JobNames \union {"sync_all"}
  /\ \A p \in OneShots : Program(p) = JobLocks
  /\ Program(Listener) = {"sync_telegram", "scheduled_briefings"}
  /\ Program(Poller) = {"sync_uclass"}
  BY ConstantsAssumption DEF Program, Procs

\* The types hold before anything runs.
LEMMA InitType == Init => TypeOK
<1> SUFFICES ASSUME Init PROVE TypeOK
  OBVIOUS
<1> USE ConstantsAssumption
<1>1. Placed
  BY DEF Init, Placed, Locks
<1>2. holder \in [Locks -> Procs \union {Nobody}] /\ wait \in [Procs -> WaitOptions]
  BY DEF Init, WaitOptions
<1>3. kills \in 0 .. MaxKills
  BY DEF Init
<1>4. network \in BOOLEAN /\ lastUp \in BOOLEAN /\ collected \in {"never", "recent", "old"}
  BY DEF Init
<1> QED
  BY <1>1, <1>2, <1>3, <1>4 DEF TypeOK

\* Every step keeps the types.
LEMMA TypeStep == TypeOK /\ [Next]_vars => TypeOK'
<1> SUFFICES ASSUME TypeOK, [Next]_vars PROVE TypeOK'
  OBVIOUS
<1> USE ConstantsAssumption DEF TypeOK
<1>0. Poller \in Procs /\ Listener \in Procs /\ SyncAlls \subseteq Procs /\ OneShots \subseteq Procs
  BY DEF Procs
<1>1. ASSUME NEW p \in Procs, Launch(p) PROVE TypeOK'
  <2>1. PICK l \in FirstLocks(p), w \in Waits :
          want' = [want EXCEPT ![p] = l] /\ wait' = [wait EXCEPT ![p] = w]
    BY <1>1 DEF Launch
  <2>2. l \in Program(p) /\ l \in Locks
    <3>1. CASE p \in SyncAlls
      BY <3>1, Programs DEF FirstLocks, Locks
    <3>2. CASE p \in OneShots
      BY <3>2, Programs DEF FirstLocks, Locks
    <3>3. CASE p = Listener
      BY <3>3, Programs DEF FirstLocks, Locks, JobLocks
    <3>4. CASE p = Poller
      BY <3>4 DEF FirstLocks
    <3> QED
      BY <3>1, <3>2, <3>3, <3>4 DEF Procs
  <2>3. Placed'
    BY <1>1, <2>1, <2>2 DEF Launch, Placed, Program
  <2> QED
    BY <1>1, <2>1, <2>3 DEF Launch, poller
<1>2. ASSUME NEW p \in Procs, Acquire(p) PROVE TypeOK'
  <2>1. Placed'
    <3>1. CASE want[p] = "sync_all"
      <4>1. p \in SyncAlls
        BY <1>2, <3>1, Programs DEF Acquire, Placed, Procs, JobLocks
      <4>2. Jobs[1] \in JobNames
        BY JobsFacts
      <4> QED
        BY <1>2, <3>1, <4>1, <4>2, Programs, EnterPlaced DEF Acquire
    <3>2. CASE want[p] # "sync_all"
      <4>1. want[p] \in JobNames
        BY <1>2, <3>2 DEF Acquire, Placed, Locks, JobNames
      <4> QED
        BY <1>2, <3>2, <4>1 DEF Acquire, Placed, Program
    <3> QED
      BY <3>1, <3>2
  <2>2. holder' \in [Locks -> Procs \union {Nobody}] /\ wait' \in [Procs -> WaitOptions]
    BY <1>2 DEF Acquire, WaitOptions
  <2> QED
    BY <1>2, <2>1, <2>2 DEF Acquire, poller
<1>3. ASSUME NEW p \in Procs, Exit(p), UNCHANGED <<network, kills>> PROVE TypeOK'
  <2>1. Placed' /\ holder' \in [Locks -> Procs \union {Nobody}]
    BY <1>3, ExitPlaced, ReleaseType DEF Exit
  <2> QED
    BY <1>3, <2>1 DEF Exit, poller, WaitOptions
<1>4. ASSUME NEW p \in SyncAlls, EnterNext(p), wait' = wait,
             holder' \in [Locks -> Procs \union {Nobody}],
             UNCHANGED <<poller, network, kills>>
      PROVE  TypeOK'
  <2>1. PICK job \in JobNames : Enter(p, job)
    BY <1>0, <1>4, EnterNextFacts
  <2>2. Placed'
    BY <1>0, <2>1, Programs, EnterPlaced
  <2> QED
    BY <1>4, <2>2 DEF poller
<1>5. ASSUME NEW p \in Procs, GiveUp(p) PROVE TypeOK'
  <2>1. CASE p \in SyncAlls /\ EnterNext(p) /\ UNCHANGED <<holder, wait, poller>>
    BY <1>4, <1>5, <2>1 DEF GiveUp
  <2>2. CASE /\ p = Listener
             /\ want' = [want EXCEPT ![p] = "sync_telegram"] /\ at' = [at EXCEPT ![p] = "job"]
             /\ UNCHANGED <<holder, wait, poller>>
    <3>1. Placed'
      BY <2>2, Programs DEF Placed, JobNames, JobLocks, Locks, Program
    <3> QED
      BY <1>5, <2>2, <3>1 DEF GiveUp, poller
  <2>3. CASE /\ p = Poller /\ lastUp' = FALSE
             /\ at' = [at EXCEPT ![p] = "sleep"] /\ want' = [want EXCEPT ![p] = "sync_all"]
             /\ UNCHANGED <<holder, wait, collected>>
    <3>1. Placed'
      BY <2>3 DEF Placed, Locks, Program
    <3> QED
      BY <1>5, <2>3, <3>1 DEF GiveUp
  <2>4. CASE Exit(p)
    BY <1>3, <1>5, <2>4 DEF GiveUp
  <2> QED
    BY <1>5, <2>1, <2>2, <2>3, <2>4 DEF GiveUp
<1>6. ASSUME NEW p \in Procs, Kill(p) PROVE TypeOK'
  <2>1. Placed' /\ holder' \in [Locks -> Procs \union {Nobody}]
    BY <1>6, ExitPlaced, ReleaseType DEF Exit, Kill
  <2>2. wait' \in [Procs -> WaitOptions]
    BY <1>6 DEF Kill, Exit, WaitOptions
  <2>3. kills' \in 0 .. MaxKills
    BY <1>6 DEF Kill
  <2>4. /\ network' \in BOOLEAN /\ lastUp' \in BOOLEAN
        /\ collected' \in {"never", "recent", "old"}
    BY <1>6 DEF Kill, Exit, poller
  <2> QED
    BY <2>1, <2>2, <2>3, <2>4
<1>7. ASSUME NEW p \in SyncAlls, FinishJob(p) PROVE TypeOK'
  BY <1>0, <1>3, <1>4, <1>7, ReleaseType DEF FinishJob
<1>8. ASSUME NEW p \in OneShots, FinishOneShot(p) PROVE TypeOK'
  BY <1>0, <1>3, <1>8 DEF FinishOneShot
<1>9. CASE ListenerStep
  <2>1. CASE Exit(Listener)
    BY <1>0, <1>3, <1>9, <2>1 DEF ListenerStep
  <2>2. CASE Enter(Listener, "scheduled_briefings") /\ UNCHANGED <<holder, wait, poller>>
    <3>1. Placed'
      BY <1>0, <2>2, Programs, EnterPlaced DEF JobNames, JobLocks
    <3> QED
      BY <1>9, <2>2, <3>1 DEF ListenerStep, poller
  <2>3. CASE /\ want' = [want EXCEPT ![Listener] = "sync_telegram"]
             /\ Release(Listener, {"scheduled_briefings"})
             /\ UNCHANGED <<at, wait, poller>>
    <3>1. Placed'
      BY <1>0, <1>9, <2>3, Programs DEF ListenerStep, Placed, JobNames, JobLocks, Locks, Program
    <3>2. holder' \in [Locks -> Procs \union {Nobody}]
      BY <2>3, ReleaseType
    <3> QED
      BY <1>9, <2>3, <3>1, <3>2 DEF ListenerStep, poller
  <2> QED
    BY <1>9, <2>1, <2>2, <2>3 DEF ListenerStep
<1>10. CASE LaunchPoller
  <2>1. Placed'
    BY <1>0, <1>10 DEF LaunchPoller, Placed, Program
  <2> QED
    BY <1>10, <2>1 DEF LaunchPoller, poller
<1>11. CASE Probe
  <2>1. Placed'
    <3>1. CASE Enter(Poller, "sync_uclass")
      BY <1>0, <3>1, Programs, EnterPlaced DEF JobNames, JobLocks
    <3>2. CASE UNCHANGED <<at, want>>
      BY <3>2 DEF Placed, Program
    <3> QED
      BY <1>11, <3>1, <3>2 DEF Probe
  <2> QED
    BY <1>11, <2>1 DEF Probe
<1>12. CASE FinishPoller
  <2>1. Placed' /\ holder' \in [Locks -> Procs \union {Nobody}]
    BY <1>0, <1>12, ReleaseType DEF FinishPoller, Placed, Locks, Program
  <2> QED
    BY <1>12, <2>1 DEF FinishPoller
<1>13. CASE Elapse \/ NetworkChange \/ UNCHANGED vars
  <2>1. Placed'
    BY <1>13 DEF Elapse, NetworkChange, vars, Placed, Program
  <2> QED
    BY <1>13, <2>1 DEF Elapse, NetworkChange, vars, poller
<1> QED
  BY <1>1, <1>2, <1>5, <1>6, <1>7, <1>8, <1>9, <1>10, <1>11, <1>12, <1>13 DEF Next

\* SyncLocks!TypeOK: the processes stay in their programs and the locks belong
\* to processes, for any number of processes.
THEOREM TypeCorrect == Spec => []TypeOK
  BY InitType, TypeStep, PTL DEF Spec

-----------------------------------------------------------------------------
\* Inside(p), one lock at a time.
LEMMA InsideIs ==
  ASSUME NEW p, NEW l \in Locks
  PROVE  l \in Inside(p) <=>
           \/ l = "sync_all" /\ p \in SyncAlls /\ Nested(p) /\ at[p] # "off"
           \/ l = "sync_telegram" /\ p = Listener /\ Nested(p) /\ at[p] # "off"
           \/ l = want[p] /\ at[p] = "job"
  BY DEF Inside

\* A step of p that moves no other process and gives or takes only locks of p
\* has to be right about p only.
LEMMA LocksLocal ==
  ASSUME LocksReleased, NEW p \in Procs,
         \A q \in Procs \ {p} : at'[q] = at[q] /\ want'[q] = want[q],
         \A q \in Procs \ {p}, l \in Locks : holder'[l] = q <=> holder[l] = q,
         \A l \in Locks : holder'[l] = p <=> l \in Inside(p)'
  PROVE  LocksReleased'
<1>1. ASSUME NEW q \in Procs \ {p}, NEW l \in Locks PROVE l \in Inside(q)' <=> l \in Inside(q)
  BY DEF Inside, Nested
<1> QED
  BY <1>1 DEF LocksReleased

\* What releasing locks does to their holders.
LEMMA ReleaseFacts ==
  ASSUME holder \in [Locks -> Procs \union {Nobody}], NEW p \in Procs, NEW L, Release(p, L)
  PROVE  /\ \A q \in Procs \ {p}, l \in Locks : holder'[l] = q <=> holder[l] = q
         /\ \A l \in Locks : holder'[l] = p <=> holder[l] = p /\ l \notin L
  BY ConstantsAssumption DEF Release

\* A process that ends leaves no lock behind.
LEMMA ExitLocks ==
  ASSUME TypeOK, LocksReleased, NEW p \in Procs, Exit(p)
  PROVE  LocksReleased'
<1>1. \A q \in Procs \ {p} : at'[q] = at[q] /\ want'[q] = want[q]
  BY DEF Exit, TypeOK, Placed
<1>2. \A l \in Locks : l \notin Inside(p)'
  BY DEF Exit, TypeOK, Placed, Inside
<1>3. /\ \A q \in Procs \ {p}, l \in Locks : holder'[l] = q <=> holder[l] = q
      /\ \A l \in Locks : holder'[l] # p
  BY ReleaseFacts DEF Exit, TypeOK
<1> QED
  BY <1>1, <1>2, <1>3, LocksLocal

\* sync --all goes on to its next job with the sync-all lock and no other.
LEMMA EnterNextLocks ==
  ASSUME TypeOK, LocksReleased, NEW p \in SyncAlls, Nested(p), at[p] # "off", EnterNext(p),
         \/ Release(p, {want[p]})
         \/ holder' = holder /\ at[p] = "lock"
  PROVE  LocksReleased'
<1> USE ConstantsAssumption DEF TypeOK
<1>0. p \in Procs /\ p # Listener
  BY DEF Procs
<1>1. PICK job \in JobNames : Enter(p, job)
  BY <1>0, EnterNextFacts
<1>2. \A q \in Procs \ {p} : at'[q] = at[q] /\ want'[q] = want[q]
  BY <1>1 DEF Enter, Placed
<1>3. /\ want'[p] = job /\ job # "sync_all" /\ want[p] # "sync_all"
      /\ at'[p] = IF job \in Shared THEN "lock" ELSE "job"
  BY <1>0, <1>1 DEF Enter, Placed, Nested, JobNames, JobLocks
<1>4. \A l \in Locks : l \in Inside(p)' <=> l = "sync_all"
  BY <1>0, <1>3 DEF Inside, Nested, Shared, Locks, JobLocks
<1>5. /\ \A q \in Procs \ {p}, l \in Locks : holder'[l] = q <=> holder[l] = q
      /\ \A l \in Locks : holder'[l] = p <=> l = "sync_all"
  <2>1. \A l \in Locks : holder[l] = p <=> l = "sync_all" \/ (l = want[p] /\ at[p] = "job")
    BY <1>0, InsideIs DEF LocksReleased
  <2>2. CASE Release(p, {want[p]})
    BY <1>0, <1>3, <2>1, <2>2, ReleaseFacts
  <2>3. CASE holder' = holder /\ at[p] = "lock"
    BY <2>1, <2>3
  <2> QED
    BY <2>2, <2>3
<1> QED
  BY <1>0, <1>2, <1>4, <1>5, LocksLocal

\* Every step keeps the invariant: a process holds the locks it is inside of.
LEMMA LocksStep == TypeOK /\ LocksReleased /\ [Next]_vars => LocksReleased'
<1> SUFFICES ASSUME TypeOK, LocksReleased, [Next]_vars PROVE LocksReleased'
  OBVIOUS
<1> USE ConstantsAssumption DEF TypeOK
<1>0. Poller \in Procs /\ Listener \in Procs /\ SyncAlls \subseteq Procs /\ OneShots \subseteq Procs
  BY DEF Procs
<1>1. ASSUME NEW p \in Procs, Launch(p) PROVE LocksReleased'
  <2>1. PICK l \in FirstLocks(p) : want' = [want EXCEPT ![p] = l]
    BY <1>1 DEF Launch
  <2>2. \A q \in Procs \ {p} : at'[q] = at[q] /\ want'[q] = want[q]
    BY <1>1, <2>1 DEF Launch, Placed
  <2>3. (p \in SyncAlls => l = "sync_all") /\ (p = Listener => l = "sync_telegram")
    BY <2>1 DEF FirstLocks
  <2>4. at[p] = "off" /\ at'[p] = "lock" /\ want'[p] = l /\ holder' = holder
    BY <1>1, <2>1 DEF Launch, Placed
  <2>5. \A k \in Locks : k \notin Inside(p) /\ k \notin Inside(p)'
    BY <2>3, <2>4 DEF Inside, Nested
  <2> QED
    BY <2>2, <2>4, <2>5, LocksLocal DEF LocksReleased
<1>2. ASSUME NEW p \in Procs, Acquire(p) PROVE LocksReleased'
  <2>1. /\ at[p] = "lock" /\ want[p] \in Locks /\ want[p] \in Program(p)
        /\ holder[want[p]] = Nobody /\ holder' = [holder EXCEPT ![want[p]] = p]
    BY <1>2 DEF Acquire, Placed
  <2>2. /\ \A q \in Procs \ {p}, l \in Locks : holder'[l] = q <=> holder[l] = q
        /\ \A l \in Locks : holder'[l] = p <=> l \in Inside(p) \/ l = want[p]
    BY <2>1 DEF LocksReleased
  <2>3. CASE want[p] = "sync_all"
    <3>1. p \in SyncAlls /\ p # Listener
      BY <2>1, <2>3, Programs DEF Procs, JobLocks
    <3>2. Jobs[1] = "sync_uclass" /\ Enter(p, Jobs[1])
      BY <1>2, <2>3 DEF Acquire, Jobs
    <3>3. at'[p] = "lock" /\ want'[p] = "sync_uclass"
      BY <3>2 DEF Enter, Shared, Placed
    <3>4. \A q \in Procs \ {p} : at'[q] = at[q] /\ want'[q] = want[q]
      BY <3>2 DEF Enter, Placed
    <3>5. \A l \in Locks : (l \in Inside(p)' <=> l = "sync_all") /\ l \notin Inside(p)
      BY <2>1, <2>3, <3>1, <3>3 DEF Inside, Nested
    <3> QED
      BY <2>2, <2>3, <3>4, <3>5, LocksLocal
  <2>4. CASE want[p] # "sync_all"
    <3>1. at' = [at EXCEPT ![p] = "job"] /\ want' = want
      BY <1>2, <2>4 DEF Acquire
    <3>2. \A q \in Procs \ {p} : at'[q] = at[q] /\ want'[q] = want[q]
      BY <3>1 DEF Placed
    <3>3. \A l \in Locks : l \in Inside(p)' <=> l \in Inside(p) \/ l = want[p]
      BY <2>1, <2>4, <3>1 DEF Inside, Nested, Placed
    <3> QED
      BY <2>2, <3>2, <3>3, LocksLocal
  <2> QED
    BY <2>3, <2>4
<1>3. ASSUME NEW p \in Procs, GiveUp(p) PROVE LocksReleased'
  <2>1. CASE p \in SyncAlls /\ Nested(p) /\ EnterNext(p) /\ holder' = holder
    BY <1>3, <2>1, EnterNextLocks DEF GiveUp
  <2>2. CASE /\ p = Listener /\ Nested(p)
             /\ want' = [want EXCEPT ![p] = "sync_telegram"] /\ at' = [at EXCEPT ![p] = "job"]
             /\ holder' = holder
    <3>1. \A q \in Procs \ {p} : at'[q] = at[q] /\ want'[q] = want[q]
      BY <2>2 DEF Placed
    <3>2. at[p] = "lock" /\ at'[p] = "job" /\ want'[p] = "sync_telegram" /\ p \notin SyncAlls
      BY <1>3, <2>2 DEF GiveUp, Placed
    <3>3. \A l \in Locks : (l \in Inside(p) <=> l = "sync_telegram")
                           /\ (l \in Inside(p)' <=> l = "sync_telegram")
      BY <2>2, <3>2 DEF Inside, Nested
    <3> QED
      BY <2>2, <3>1, <3>3, LocksLocal DEF LocksReleased
  <2>3. CASE /\ p = Poller /\ holder' = holder
             /\ at' = [at EXCEPT ![p] = "sleep"] /\ want' = [want EXCEPT ![p] = "sync_all"]
    <3>1. \A q \in Procs \ {p} : at'[q] = at[q] /\ want'[q] = want[q]
      BY <2>3 DEF Placed
    <3>2. at[p] = "lock" /\ at'[p] = "sleep" /\ p \notin SyncAlls \union {Listener}
      BY <1>3, <2>3 DEF GiveUp, Placed
    <3>3. \A l \in Locks : l \notin Inside(p) /\ l \notin Inside(p)'
      BY <3>2 DEF Inside
    <3> QED
      BY <2>3, <3>1, <3>3, LocksLocal DEF LocksReleased
  <2>4. CASE Exit(p)
    BY <2>4, ExitLocks
  <2> QED
    BY <1>3, <2>1, <2>2, <2>3, <2>4 DEF GiveUp
<1>4. ASSUME NEW p \in Procs, Kill(p) PROVE LocksReleased'
  BY <1>4, ExitLocks DEF Kill
<1>5. ASSUME NEW p \in SyncAlls, FinishJob(p) PROVE LocksReleased'
  <2>1. at[p] = "job" /\ Nested(p)
    BY <1>0, <1>5 DEF FinishJob, Placed, Nested, JobNames, JobLocks
  <2>2. CASE Exit(p)
    BY <1>0, <2>2, ExitLocks
  <2>3. CASE EnterNext(p) /\ Release(p, {want[p]})
    BY <2>1, <2>3, EnterNextLocks
  <2> QED
    BY <1>5, <2>2, <2>3 DEF FinishJob
<1>6. ASSUME NEW p \in OneShots, FinishOneShot(p) PROVE LocksReleased'
  BY <1>0, <1>6, ExitLocks DEF FinishOneShot
<1>7. CASE ListenerStep
  <2>0. at[Listener] = "job" /\ Listener \notin SyncAlls
    BY <1>7 DEF ListenerStep
  <2>1. CASE Exit(Listener)
    BY <1>0, <2>1, ExitLocks
  <2>2. CASE /\ want[Listener] = "sync_telegram" /\ Enter(Listener, "scheduled_briefings")
             /\ holder' = holder
    <3>1. \A q \in Procs \ {Listener} : at'[q] = at[q] /\ want'[q] = want[q]
      BY <2>2 DEF Enter, Placed
    <3>2. at'[Listener] = "lock" /\ want'[Listener] = "scheduled_briefings"
      BY <1>0, <2>2 DEF Enter, Placed, Shared
    <3>3. \A l \in Locks : (l \in Inside(Listener) <=> l = "sync_telegram")
                           /\ (l \in Inside(Listener)' <=> l = "sync_telegram")
      BY <2>0, <2>2, <3>2 DEF Inside, Nested
    <3> QED
      BY <1>0, <2>2, <3>1, <3>3, LocksLocal DEF LocksReleased
  <2>3. CASE /\ want[Listener] = "scheduled_briefings"
             /\ want' = [want EXCEPT ![Listener] = "sync_telegram"]
             /\ Release(Listener, {"scheduled_briefings"}) /\ at' = at
    <3>1. \A q \in Procs \ {Listener} : at'[q] = at[q] /\ want'[q] = want[q]
      BY <2>3 DEF Placed
    <3>2. want'[Listener] = "sync_telegram" /\ at'[Listener] = "job"
      BY <1>0, <2>0, <2>3 DEF Placed
    <3>3. \A l \in Locks :
            /\ l \in Inside(Listener) <=> l = "sync_telegram" \/ l = "scheduled_briefings"
            /\ l \in Inside(Listener)' <=> l = "sync_telegram"
      BY <2>0, <2>3, <3>2 DEF Inside, Nested
    <3>4. /\ \A q \in Procs \ {Listener}, l \in Locks : holder'[l] = q <=> holder[l] = q
          /\ \A l \in Locks : holder'[l] = Listener <=>
                               holder[l] = Listener /\ l # "scheduled_briefings"
      BY <1>0, <2>3, ReleaseFacts
    <3> QED
      BY <1>0, <3>1, <3>3, <3>4, LocksLocal DEF LocksReleased
  <2> QED
    BY <1>7, <2>1, <2>2, <2>3 DEF ListenerStep
<1>8. CASE LaunchPoller
  <2>1. \A q \in Procs \ {Poller} : at'[q] = at[q] /\ want'[q] = want[q]
    BY <1>8 DEF LaunchPoller, Placed
  <2>2. at[Poller] = "off" /\ at'[Poller] = "sleep" /\ Poller \notin SyncAlls \union {Listener}
    BY <1>0, <1>8 DEF LaunchPoller, Placed
  <2>3. \A l \in Locks : l \notin Inside(Poller) /\ l \notin Inside(Poller)'
    BY <2>2 DEF Inside
  <2> QED
    BY <1>0, <1>8, <2>1, <2>3, LocksLocal DEF LaunchPoller, LocksReleased
<1>9. CASE Probe
  <2>1. at[Poller] = "sleep" /\ Poller \notin SyncAlls \union {Listener} /\ holder' = holder
    BY <1>9 DEF Probe
  <2>2. CASE Enter(Poller, "sync_uclass")
    <3>1. \A q \in Procs \ {Poller} : at'[q] = at[q] /\ want'[q] = want[q]
      BY <2>2 DEF Enter, Placed
    <3>2. at'[Poller] = "lock"
      BY <1>0, <2>2 DEF Enter, Placed, Shared
    <3>3. \A l \in Locks : l \notin Inside(Poller) /\ l \notin Inside(Poller)'
      BY <2>1, <3>2 DEF Inside
    <3> QED
      BY <1>0, <2>1, <3>1, <3>3, LocksLocal DEF LocksReleased
  <2>3. CASE UNCHANGED <<at, want>>
    BY <2>1, <2>3 DEF LocksReleased, Inside, Nested
  <2> QED
    BY <1>9, <2>2, <2>3 DEF Probe
<1>10. CASE FinishPoller
  <2>1. \A q \in Procs \ {Poller} : at'[q] = at[q] /\ want'[q] = want[q]
    BY <1>10 DEF FinishPoller, Placed
  <2>2. /\ at[Poller] = "job" /\ at'[Poller] = "sleep" /\ want[Poller] = "sync_uclass"
        /\ Poller \notin SyncAlls \union {Listener}
    BY <1>0, <1>10, Programs DEF FinishPoller, Placed
  <2>3. \A l \in Locks : (l \in Inside(Poller) <=> l = "sync_uclass") /\ l \notin Inside(Poller)'
    BY <2>2 DEF Inside
  <2>4. /\ \A q \in Procs \ {Poller}, l \in Locks : holder'[l] = q <=> holder[l] = q
        /\ \A l \in Locks : holder'[l] = Poller <=> holder[l] = Poller /\ l # "sync_uclass"
    BY <1>0, <1>10, ReleaseFacts DEF FinishPoller
  <2> QED
    BY <1>0, <2>1, <2>3, <2>4, LocksLocal DEF LocksReleased
<1>11. CASE Elapse \/ NetworkChange \/ UNCHANGED vars
  BY <1>11 DEF Elapse, NetworkChange, vars, LocksReleased, Inside, Nested
<1> QED
  BY <1>1, <1>2, <1>3, <1>4, <1>5, <1>6, <1>7, <1>8, <1>9, <1>10, <1>11 DEF Next

\* No process holds a lock before anything runs.
LEMMA InitLocks == Init => LocksReleased
  BY ConstantsAssumption DEF Init, LocksReleased, Inside, Procs

\* SyncLocks!LocksReleased: no path out of a job leaves a lock behind, for any
\* number of processes and kills.
THEOREM NoLockLeaks == Spec => []LocksReleased
  BY InitType, InitLocks, TypeStep, LocksStep, PTL DEF Spec

\* The locks a process holds are its own, so two that run one job are one: a job
\* with a lock runs inside of it, any other runs inside of the sync-all lock.
LEMMA LocksExclude == TypeOK /\ LocksReleased => OneRunPerJob
<1> SUFFICES ASSUME TypeOK, LocksReleased,
                    NEW p \in Procs, NEW q \in Procs,
                    at[p] = "job", at[q] = "job", want[p] = want[q]
             PROVE  p = q
  BY DEF OneRunPerJob
<1>1. want[p] \in JobNames
  BY DEF TypeOK, Placed
<1>2. CASE want[p] \in JobLocks
  <2>1. want[p] \in Locks /\ want[p] \in Inside(p) /\ want[p] \in Inside(q)
    BY <1>2 DEF Inside, Locks
  <2> QED
    BY <2>1 DEF LocksReleased
<1>3. CASE want[p] \notin JobLocks
  <2>1. \A r \in Procs : at[r] = "job" /\ want[r] = want[p] => r \in SyncAlls
    BY <1>1, <1>3, Programs DEF TypeOK, Placed, Procs, JobNames, JobLocks
  <2>2. want[p] # "sync_all"
    BY <1>1 DEF JobNames, JobLocks
  <2>3. /\ "sync_all" \in Locks
        /\ "sync_all" \in Inside(p) /\ "sync_all" \in Inside(q)
    BY <2>1, <2>2 DEF Inside, Nested, Locks
  <2> QED
    BY <2>3 DEF LocksReleased
<1> QED
  BY <1>2, <1>3

\* SyncLocks!OneRunPerJob, for any number of processes.
THEOREM JobsExclusive == Spec => []OneRunPerJob
  BY InitType, InitLocks, TypeStep, LocksStep, LocksExclude, PTL DEF Spec

-----------------------------------------------------------------------------
(* The timetable collection                                                 *)

SessionRows == [status : {"none", "active", "inactive"}, sync : Statuses, auth : BOOLEAN]
Fetches == [src : Sources, events : SUBSET Meetings, section : Users \union {NoUser},
            auth : BOOLEAN, reason : BOOLEAN, surface : BOOLEAN, emptyOk : BOOLEAN]

\* The locals of the runs and the history have their kinds as well, and nobody's timetable is empty.
PortalLocals ==
  /\ \A u \in Users : serves[u] # {}
  /\ buildings \in BOOLEAN
  /\ todo \in [Runs -> SUBSET Users]
  /\ held \in [Runs -> [Users -> SessionRows]]
  /\ who \in [Runs -> Users \union {NoUser}]
  /\ fetched \in [Runs -> Fetches] /\ aliases \in [Runs -> BOOLEAN]
  /\ linking \in [Users -> SUBSET (Meetings \X SUBSET {"stored", "linked", "named"})]
  /\ opened \in [Users -> BOOLEAN]
  /\ had \in [Users -> SUBSET Meetings] /\ fitted \in [Users -> SUBSET Users]
  /\ disturbed \subseteq Users /\ proven \subseteq Users /\ owed \subseteq Users
  /\ changes \in 0 .. MaxChanges /\ faults \in 0 .. MaxFaults

\* A run that is past the choice of its target has one.
OnTarget == {"prime", "fetch", "enrich", "write", "session", "report", "failed"}
HasTarget == \A p \in Runs : pc[p] \in OnTarget => who[p] \in Users

PortalTypes == PortalTypeOK /\ PortalLocals /\ HasTarget

\* A section that is the only one to fit a course, that is bound to it, or whose meetings a run
\* is about to store, has been the only one to fit by its name.
SectionsFit ==
  /\ \A u \in Users : serves[u] \subseteq had[u]
  /\ \A u \in Users : \A s \in Users : looks[u] = {s} => s \in fitted[u]
  /\ \A u \in Users : bound[u] \in Users => bound[u] \in fitted[u]
  /\ \A p \in Runs : pc[p] \in {"enrich", "write"} /\ fetched[p].section # NoUser
       => fetched[p].section \in fitted[who[p]]

\* What a run will store, what is stored and what the linking will store again is of the user it
\* is stored for, or of a section that has been the only one to fit.
OwnMeetings ==
  /\ \A u \in Users : \A m \in Meetings : events[u][m] # {} => m \in MayHold(u)
  /\ \A p \in Runs : pc[p] \in {"enrich", "write"} => left[p] \subseteq MayHold(who[p])
  /\ \A u \in Users : \A e \in linking[u] : e[1] \in MayHold(u)

\* The targets without a report of this cycle are the ones the job still has before it.
OwedAhead ==
  /\ pc[Job] = "next" => owed \subseteq todo[Job]
  /\ pc[Job] \in OnTarget => owed \subseteq todo[Job] \union {who[Job]}
  /\ pc[Job] = "overall" => owed = {}

\* The row of a session a run holds, but for a disturbed one, has the status of the stored row,
\* and what the run is about to write of its outcome is proven.
HeldIsStored ==
  /\ mode = "catalog" => \A p \in Runs : \A u \in Users : held[p][u] = NoSession
  /\ \A u \in Users \ disturbed :
       /\ Active(u) <=> opened[u]
       /\ session[u].sync = "success" => u \in proven
       /\ \A p \in Runs : held[p][u] # NoSession =>
            /\ held[p][u].status = session[u].status
            /\ pc[p] \in {"enrich", "write", "session"} /\ who[p] = u
                 /\ StatusOf(fetched[p]) = "success" => u \in proven

PortalInv == PortalTypes /\ SectionsFit /\ OwnMeetings /\ OwedAhead /\ HeldIsStored

\* The rows and answers of before the first collection are rows and answers.
LEMMA NothingYet ==
  /\ NoSession \in SessionRows /\ NoFetch \in Fetches
  /\ NoReport \in [status : Statuses, src : Sources, auth : BOOLEAN]
  BY DEF NoSession, NoFetch, NoReport, SessionRows, Fetches, Statuses, Sources

\* Whatever a source answers, the run goes on with it and keeps the types.
LEMMA GotTypes ==
  ASSUME PortalTypes, NEW p \in Runs, NEW f \in Fetches, pc[p] = "fetch", Got(p, f),
         UNCHANGED school, courses' \subseteq Users, proven' \subseteq Users,
         faults' \in 0 .. MaxFaults
  PROVE  PortalTypes'
<1>1. who[p] \in Users
  BY DEF PortalTypes, HasTarget, OnTarget
<1>2. fetched' \in [Runs -> Fetches] /\ left' \in [Runs -> SUBSET Meetings]
  BY DEF Got, PortalTypes, PortalTypeOK, PortalLocals, Fetches
<1>3. aliases' \in [Runs -> BOOLEAN]
  BY DEF Got, PortalTypes, PortalLocals, Known
<1>4. had' \in [Users -> SUBSET Meetings] /\ fitted' \in [Users -> SUBSET Users]
  BY DEF Got, PortalTypes, PortalLocals
<1>5. /\ pc' \in [Runs -> {"idle", "next", "prime", "fetch", "enrich", "write", "session", "report",
                           "failed", "overall"}]
      /\ \A q \in Runs : q # p => pc'[q] = pc[q]
  BY DEF Got, Go, PortalTypes, PortalTypeOK
<1>6. HasTarget'
  BY <1>1, <1>5 DEF Got, PortalTypes, HasTarget
<1> QED
  BY <1>2, <1>3, <1>4, <1>5, <1>6 DEF Got, school, PortalTypes, PortalTypeOK, PortalLocals

\* So does a report, and the run has no target after it.
LEMMA ReportedTypes ==
  ASSUME PortalTypes, NEW p \in Runs, pc[p] \in OnTarget,
         NEW report \in [status : Statuses, src : Sources, auth : BOOLEAN],
         Reported(p, report)
  PROVE  PortalTypes'
<1>1. who[p] \in Users
  BY DEF PortalTypes, HasTarget
<1>2. row' \in [Users -> [status : Statuses, src : Sources, auth : BOOLEAN]]
  BY <1>1 DEF Reported, PortalTypes, PortalTypeOK
<1>3. results' \in [Runs -> SUBSET Statuses] /\ left' \in [Runs -> SUBSET Meetings]
  BY DEF Reported, PortalTypes, PortalTypeOK
<1>4. held' \in [Runs -> [Users -> SessionRows]]
  BY <1>1, NothingYet DEF Reported, PortalTypes, PortalLocals
<1>5. fetched' \in [Runs -> Fetches] /\ aliases' \in [Runs -> BOOLEAN]
  BY NothingYet DEF Reported, PortalTypes, PortalLocals
<1>6. /\ pc' \in [Runs -> {"idle", "next", "prime", "fetch", "enrich", "write", "session", "report",
                           "failed", "overall"}]
      /\ pc'[p] \notin OnTarget
      /\ \A q \in Runs : q # p => pc'[q] = pc[q] /\ who'[q] = who[q]
      /\ who' \in [Runs -> Users \union {NoUser}]
  BY DEF Reported, Go, PortalTypes, PortalTypeOK, PortalLocals, OnTarget
<1>7. HasTarget' /\ owed' \subseteq Users
  BY <1>6 DEF Reported, PortalTypes, PortalLocals, HasTarget
<1> QED
  BY <1>2, <1>3, <1>4, <1>5, <1>6, <1>7 DEF Reported, school, PortalTypes, PortalTypeOK, PortalLocals

\* What a run holds of its targets are rows of sessions.
LEMMA HoldTypes ==
  ASSUME PortalTypes, NEW p \in Runs, NEW S, Hold(p, S)
  PROVE  held' \in [Runs -> [Users -> SessionRows]]
  BY NothingYet DEF Hold, PortalTypes, PortalTypeOK, PortalLocals, SessionRows

\* A new connection keeps the types, and the call it makes has its target.
LEMMA ConnectTypes ==
  ASSUME PortalTypes, NEW u \in Users, Connect(u)
  PROVE  PortalTypes'
<1>1. session' \in [Users -> SessionRows] /\ profile' \in [Users -> {"in", "out", "gone"}]
  BY DEF Connect, SessionRows, PortalTypes, PortalTypeOK
<1>2. connected' \subseteq Users /\ disturbed' \subseteq Users /\ opened' \in [Users -> BOOLEAN]
  BY DEF Connect, Disturb, PortalTypes, PortalTypeOK, PortalLocals
<1>3. changes' \in 0 .. MaxChanges
  BY PortalAssumption DEF Connect, Change, PortalTypes, PortalLocals
<1>4. /\ pc' \in [Runs -> {"idle", "next", "prime", "fetch", "enrich", "write", "session", "report",
                           "failed", "overall"}]
      /\ who' \in [Runs -> Users \union {NoUser}]
      /\ HasTarget'
  BY DEF Connect, PortalTypes, PortalTypeOK, PortalLocals, HasTarget
<1> QED
  BY <1>1, <1>2, <1>3, <1>4 DEF Connect, SessionRows, PortalTypes, PortalTypeOK, PortalLocals

\* Another name of a course keeps the types.
LEMMA RenameTypes ==
  ASSUME PortalTypes, NEW u \in Users, Rename(u)
  PROVE  PortalTypes'
<1>1. looks' \in [Users -> SUBSET Users]
  BY DEF Rename, PortalTypes, PortalTypeOK
<1>2. fitted' \in [Users -> SUBSET Users]
  BY DEF Rename, Alone, PortalTypes, PortalLocals
<1>3. changes' \in 0 .. MaxChanges
  BY PortalAssumption DEF Rename, Change, PortalTypes, PortalLocals
<1> QED
  BY <1>1, <1>2, <1>3 DEF Rename, tables, locals, PortalTypes, PortalTypeOK, PortalLocals, HasTarget

\* A new session keeps the types.
LEMMA BrowserLoginTypes ==
  ASSUME PortalTypes, NEW u \in Users, BrowserLogin(u)
  PROVE  PortalTypes'
<1>1. session' \in [Users -> SessionRows] /\ profile' \in [Users -> {"in", "out", "gone"}]
  BY DEF BrowserLogin, SessionRows, NoSession, Statuses, PortalTypes, PortalTypeOK
<1>2. proven' \subseteq Users /\ disturbed' \subseteq Users /\ opened' \in [Users -> BOOLEAN]
  BY DEF BrowserLogin, Disturb, PortalTypes, PortalTypeOK, PortalLocals
<1>3. changes' \in 0 .. MaxChanges
  BY PortalAssumption DEF BrowserLogin, Change, PortalTypes, PortalLocals
<1> QED
  BY <1>1, <1>2, <1>3 DEF BrowserLogin, locals, SessionRows, PortalTypes, PortalTypeOK, PortalLocals, HasTarget

\* The call for one user keeps the types, whether the user is a target or not.
LEMMA PrimeTypes ==
  ASSUME PortalTypes, Prime
  PROVE  PortalTypes'
<1>0. who[Caller] \in Users /\ Caller \in Runs
  BY DEF Prime, PortalTypes, HasTarget, OnTarget, Runs
<1>1. CASE who[Caller] \in Targets
  <2>1. held' \in [Runs -> [Users -> SessionRows]]
    BY <1>0, <1>1, HoldTypes DEF Prime
  <2>2. /\ pc' = [pc EXCEPT ![Caller] = "fetch"]
        /\ UNCHANGED <<row, who>>
    BY <1>1 DEF Prime, Go
  <2> QED
    BY <1>0, <2>1, <2>2 DEF Prime, school, ghosts, PortalTypes, PortalTypeOK, PortalLocals, HasTarget, OnTarget
<1>2. CASE who[Caller] \notin Targets
  <2>1. row' \in [Users -> [status : Statuses, src : Sources, auth : BOOLEAN]]
    <3>1. row' = [row EXCEPT ![who[Caller]] = [NoReport EXCEPT !.status = "skipped"]]
      BY <1>2 DEF Prime
    <3>2. [NoReport EXCEPT !.status = "skipped"] \in [status : Statuses, src : Sources, auth : BOOLEAN]
      BY DEF NoReport, Statuses, Sources
    <3> QED
      BY <1>0, <3>1, <3>2 DEF PortalTypes, PortalTypeOK
  <2>2. /\ pc' = [pc EXCEPT ![Caller] = "idle"]
        /\ who' = [who EXCEPT ![Caller] = NoUser]
        /\ UNCHANGED held
    BY <1>2 DEF Prime, Go
  <2> QED
    BY <1>0, <2>1, <2>2 DEF Prime, school, ghosts, PortalTypes, PortalTypeOK, PortalLocals, HasTarget, OnTarget
<1> QED
  BY <1>1, <1>2

\* An answer of the API keeps the types.
LEMMA FetchApiTypes ==
  ASSUME PortalTypes, NEW p \in Runs, FetchApi(p)
  PROVE  PortalTypes'
<1>0. who[p] \in Users
  BY DEF FetchApi, PortalTypes, HasTarget, OnTarget
<1>1. [NoFetch EXCEPT !.src = "api", !.events = serves[who[p]], !.emptyOk = TRUE] \in Fetches
  BY <1>0 DEF NoFetch, Fetches, Sources, PortalTypes, PortalTypeOK
<1> QED
  BY <1>0, <1>1, GotTypes DEF FetchApi, PortalTypes, PortalTypeOK, PortalLocals

\* So does an empty one.
LEMMA FetchApiEmptyTypes ==
  ASSUME PortalTypes, NEW p \in Runs, FetchApiEmpty(p)
  PROVE  PortalTypes'
<1>0. who[p] \in Users /\ faults' \in 0 .. MaxFaults
  BY PortalAssumption DEF FetchApiEmpty, Fault, PortalTypes, PortalLocals, HasTarget, OnTarget
<1>1. [NoFetch EXCEPT !.src = "api", !.emptyOk = TRUE] \in Fetches
  BY DEF NoFetch, Fetches, Sources
<1> QED
  BY <1>0, <1>1, GotTypes DEF FetchApiEmpty, PortalTypes, PortalTypeOK, PortalLocals

\* What the browser reads keeps the types.
LEMMA FetchBrowserTypes ==
  ASSUME PortalTypes, NEW p \in Runs, FetchBrowser(p)
  PROVE  PortalTypes'
<1>0. who[p] \in Users /\ faults' \in 0 .. MaxFaults
  BY PortalAssumption DEF FetchBrowser, Fault, PortalTypes, PortalLocals, HasTarget, OnTarget
<1>1. Page(who[p]) \in Fetches
  BY <1>0 DEF Page, NoFetch, Fetches, Sources, PortalTypes, PortalTypeOK
<1> QED
  BY <1>0, <1>1, GotTypes DEF FetchBrowser, PortalTypes, PortalTypeOK, PortalLocals

\* A timetable that is not reached keeps the types.
LEMMA FetchNothingTypes ==
  ASSUME PortalTypes, NEW p \in Runs, FetchNothing(p)
  PROVE  PortalTypes'
<1>0. faults' \in 0 .. MaxFaults
  BY PortalAssumption DEF FetchNothing, Fault, PortalTypes, PortalLocals
<1> QED
  BY <1>0, NothingYet, GotTypes DEF FetchNothing, PortalTypes, PortalTypeOK, PortalLocals

\* What is matched is the answer of one section, which its course is bound to or which is the
\* only one to fit it.
LEMMA MatchedOne ==
  ASSUME NEW u \in Users
  PROVE  \/ Matched(u) = NoMatch
         \/ \E s \in Users : Fits(u) = {s} /\ Matched(u) = Selected(s)
<1>1. CASE \E s \in Users : Fits(u) = {s}
  <2>1. PICK s \in Users : s = CHOOSE t \in Users : Fits(u) = {t}
    BY <1>1
  <2>2. Fits(u) = {s} /\ Matched(u) = Selected(s)
    BY <1>1, <2>1 DEF Matched
  <2> QED
    BY <2>2
<1>2. CASE ~ \E s \in Users : Fits(u) = {s}
  BY <1>2 DEF Matched
<1> QED
  BY <1>1, <1>2

\* With or without a match, it is an answer.
LEMMA MatchedTypes ==
  ASSUME PortalTypes, NEW u \in Users
  PROVE  NoMatch \in Fetches /\ Matched(u) \in Fetches
<1>1. NoMatch \in Fetches
  BY DEF NoMatch, NoFetch, Fetches, Sources
<1>2. \A s \in Users : Selected(s) \in Fetches
  BY DEF Selected, NoFetch, Fetches, Sources, PortalTypes, PortalTypeOK
<1> QED
  BY <1>1, <1>2, MatchedOne

\* The answer of the catalog keeps the types.
LEMMA FetchCatalogTypes ==
  ASSUME PortalTypes, NEW p \in Runs, FetchCatalog(p)
  PROVE  PortalTypes'
<1>0. who[p] \in Users /\ faults' \in 0 .. MaxFaults
  <2>1. who[p] \in Users
    BY DEF FetchCatalog, PortalTypes, HasTarget, OnTarget
  <2>2. UNCHANGED faults \/ Fault
    BY DEF FetchCatalog
  <2> QED
    BY <2>1, <2>2, PortalAssumption DEF Fault, PortalTypes, PortalLocals
<1>1. NoMatch \in Fetches /\ Matched(who[p]) \in Fetches
  BY <1>0, MatchedTypes
<1>2. proven' \subseteq Users /\ courses' \subseteq Users /\ pc[p] = "fetch" /\ UNCHANGED school
  BY <1>0 DEF FetchCatalog, PortalTypes, PortalTypeOK, PortalLocals
<1>3. Got(p, Matched(who[p])) \/ Got(p, NoMatch)
  BY DEF FetchCatalog
<1> QED
  BY <1>0, <1>1, <1>2, <1>3, GotTypes

\* A session without its secret keeps the types.
LEMMA SecretMissingTypes ==
  ASSUME PortalTypes, NEW p \in Runs, SecretMissing(p)
  PROVE  PortalTypes'
<1>1. fetched' \in [Runs -> Fetches] /\ left' \in [Runs -> SUBSET Meetings]
  BY DEF SecretMissing, PortalTypes, PortalTypeOK, PortalLocals, Fetches, NoFetch, Sources
<1>2. faults' \in 0 .. MaxFaults
  BY PortalAssumption DEF SecretMissing, Fault, PortalTypes, PortalLocals
<1>3. /\ pc' \in [Runs -> {"idle", "next", "prime", "fetch", "enrich", "write", "session", "report",
                           "failed", "overall"}]
      /\ HasTarget'
  BY DEF SecretMissing, Go, PortalTypes, PortalTypeOK, PortalLocals, HasTarget, OnTarget
<1> QED
  BY <1>1, <1>2, <1>3 DEF SecretMissing, school, tables, ghosts, PortalTypes, PortalTypeOK, PortalLocals

\* The catalog of the buildings keeps the types, loaded or not.
LEMMA EnrichTypes ==
  ASSUME PortalTypes, NEW p \in Runs, Enrich(p)
  PROVE  PortalTypes'
<1>1. cache' \in [Runs -> {"unread", "loaded", "failed"}] /\ buildings' \in BOOLEAN
  BY DEF Enrich, PortalTypes, PortalTypeOK, PortalLocals
<1>2. faults' \in 0 .. MaxFaults
  BY PortalAssumption DEF Enrich, Fault, PortalTypes, PortalLocals
<1>3. /\ pc' \in [Runs -> {"idle", "next", "prime", "fetch", "enrich", "write", "session", "report",
                           "failed", "overall"}]
      /\ HasTarget'
  BY DEF Enrich, Go, PortalTypes, PortalTypeOK, PortalLocals, HasTarget, OnTarget, locals
<1> QED
  BY <1>1, <1>2, <1>3 DEF Enrich, school, locals, ghosts, PortalTypes, PortalTypeOK, PortalLocals

\* The report of a target keeps the types.
LEMMA ReportTypes ==
  ASSUME PortalTypes, NEW p \in Runs, Report(p)
  PROVE  PortalTypes'
<1>1. [status |-> StatusOf(fetched[p]), src |-> fetched[p].src, auth |-> fetched[p].auth]
        \in [status : Statuses, src : Sources, auth : BOOLEAN]
  BY DEF PortalTypes, PortalLocals, Fetches, Statuses, StatusOf
<1> QED
  BY <1>1, ReportedTypes DEF Report, OnTarget

\* The report of an exception keeps the types.
LEMMA FailedTypes ==
  ASSUME PortalTypes, NEW p \in Runs, Failed(p)
  PROVE  PortalTypes'
<1>1. [NoReport EXCEPT !.status = "error"] \in [status : Statuses, src : Sources, auth : BOOLEAN]
  BY DEF NoReport, Statuses, Sources
<1> QED
  BY <1>1, ReportedTypes DEF Failed, OnTarget

\* Every step keeps the types.
LEMMA PortalTypesStep ==
  ASSUME PortalTypes, PortalNext
  PROVE  PortalTypes'
<1>1. ASSUME NEW u \in Users, Move(u) PROVE PortalTypes'
  BY <1>1, PortalAssumption DEF Move, Change, PortalTypes, PortalTypeOK, PortalLocals, HasTarget,
     OnTarget, SessionRows, Fetches, school, tables, locals, ghosts, Runs
<1>27. ASSUME NEW u \in Users, Rename(u) PROVE PortalTypes'
  BY <1>27, RenameTypes
<1>2. ASSUME NEW u \in Users, Expire(u) PROVE PortalTypes'
  BY <1>2, PortalAssumption DEF Expire, Change, PortalTypes, PortalTypeOK, PortalLocals, HasTarget,
     OnTarget, SessionRows, Fetches, school, tables, locals, ghosts, Runs
<1>3. ASSUME NEW u \in Users, BrowserLogin(u) PROVE PortalTypes'
  BY <1>3, BrowserLoginTypes
<1>4. ASSUME NEW u \in Users, Connect(u) PROVE PortalTypes'
  BY <1>4, ConnectTypes
<1>5. ASSUME NEW u \in Users, Ask(u) PROVE PortalTypes'
  BY <1>5, PortalAssumption DEF Ask, Change, Go, PortalTypes, PortalTypeOK, PortalLocals, HasTarget,
     OnTarget, SessionRows, Fetches, school, tables, locals, ghosts, Runs
<1>6. ASSUME Resolve PROVE PortalTypes'
  <2>1. held' \in [Runs -> [Users -> SessionRows]]
    BY <1>6, HoldTypes DEF Resolve, Runs
  <2>2. Targets \subseteq Users /\ pc' = [pc EXCEPT ![Job] = "next"]
    BY <1>6 DEF Resolve, Go, Targets, PortalTypes, PortalTypeOK
  <2> QED
    BY <1>6, <2>1, <2>2
    DEF Resolve, PortalTypes, PortalTypeOK, PortalLocals, HasTarget, OnTarget, school, tables, Runs
<1>7. ASSUME ResolveNothing PROVE PortalTypes'
  BY <1>7, PortalAssumption DEF ResolveNothing, Statuses, PortalTypes, PortalTypeOK, PortalLocals,
     HasTarget, OnTarget, SessionRows, Fetches, school, tables, locals, ghosts, Runs
<1>8. ASSUME Next1 PROVE PortalTypes'
  BY <1>8, PortalAssumption DEF Next1, Go, PortalTypes, PortalTypeOK, PortalLocals, HasTarget,
     OnTarget, SessionRows, Fetches, school, tables, locals, ghosts, Runs
<1>9. ASSUME Overall PROVE PortalTypes'
  BY <1>9, PortalAssumption DEF Overall, Go, OverallOf, Statuses, PortalTypes, PortalTypeOK,
     PortalLocals, HasTarget, OnTarget, SessionRows, Fetches, school, tables, locals, ghosts, Runs
<1>10. ASSUME Prime PROVE PortalTypes'
  BY <1>10, PrimeTypes
<1>11. ASSUME NEW p \in Runs, FetchApi(p) PROVE PortalTypes'
  BY <1>11, FetchApiTypes
<1>12. ASSUME NEW p \in Runs, FetchBrowser(p) PROVE PortalTypes'
  BY <1>12, FetchBrowserTypes
<1>13. ASSUME NEW p \in Runs, FetchCatalog(p) PROVE PortalTypes'
  BY <1>13, FetchCatalogTypes
<1>14. ASSUME NEW p \in Runs, FetchApiEmpty(p) PROVE PortalTypes'
  BY <1>14, FetchApiEmptyTypes
<1>15. ASSUME NEW p \in Runs, FetchNothing(p) PROVE PortalTypes'
  BY <1>15, FetchNothingTypes
<1>16. ASSUME NEW p \in Runs, SecretMissing(p) PROVE PortalTypes'
  BY <1>16, SecretMissingTypes
<1>17. ASSUME NEW p \in Runs, Raise(p) PROVE PortalTypes'
  BY <1>17, PortalAssumption DEF Raise, Go, Fault, PortalTypes, PortalTypeOK, PortalLocals,
     HasTarget, OnTarget, SessionRows, Fetches, school, tables, locals, ghosts, Runs
<1>18. ASSUME NEW p \in Runs, Enrich(p) PROVE PortalTypes'
  BY <1>18, EnrichTypes
<1>19. ASSUME NEW p \in Runs, Write(p) PROVE PortalTypes'
  <2>0. who[p] \in Users /\ fetched[p].section \in Users \union {NoUser}
    BY <1>19 DEF Write, PortalTypes, PortalLocals, HasTarget, OnTarget, Fetches
  <2>1. bound' \in [Users -> Users \union {NoUser}]
    <3>1. bound' = [bound EXCEPT ![who[p]] =
                      IF fetched[p].section = NoUser THEN @ ELSE fetched[p].section]
      BY <1>19 DEF Write, Bind
    <3> QED
      BY <2>0, <3>1 DEF PortalTypes, PortalTypeOK
  <2>2. events' \in [Users -> [Meetings -> SUBSET {"stored", "linked", "named"}]]
    <3>1. PICK m \in left[p] : Upsert(who[p], m, EventRow(aliases[p]))
      BY <1>19 DEF Write
    <3>2. EventRow(aliases[p]) \in SUBSET {"stored", "linked", "named"}
      BY DEF EventRow
    <3> QED
      BY <2>0, <3>1, <3>2 DEF Upsert, PortalTypes, PortalTypeOK
  <2>3. /\ left' \in [Runs -> SUBSET Meetings]
        /\ pc' = pc \/ pc' = [pc EXCEPT ![p] = "session"]
        /\ pc[p] = "write"
    BY <1>19 DEF Write, Go, PortalTypes, PortalTypeOK
  <2>4. /\ UNCHANGED <<school, session, connected, courses, buildings, row, overall, todo, held>>
        /\ UNCHANGED <<who, fetched, aliases, results, cache, linking, ghosts, changes, faults>>
    BY <1>19 DEF Write
  <2> QED
    BY <2>1, <2>2, <2>3, <2>4
    DEF PortalTypes, PortalTypeOK, PortalLocals, HasTarget, OnTarget, school, ghosts
<1>20. ASSUME NEW p \in Runs, WriteSession(p) PROVE PortalTypes'
  BY <1>20, PortalAssumption DEF WriteSession, Go, Statuses, StatusOf, PortalTypes, PortalTypeOK,
     PortalLocals, HasTarget, OnTarget, SessionRows, Fetches, school, tables, locals, ghosts, Runs
<1>21. ASSUME NEW p \in Runs, Report(p) PROVE PortalTypes'
  BY <1>21, ReportTypes
<1>22. ASSUME NEW p \in Runs, Failed(p) PROVE PortalTypes'
  BY <1>22, FailedTypes
<1>23. ASSUME NEW p \in Runs, KillRun(p) PROVE PortalTypes'
  BY <1>23, PortalAssumption DEF KillRun, Fault, NoFetch, NoSession, Statuses, Sources, PortalTypes,
     PortalTypeOK, PortalLocals, HasTarget, OnTarget, SessionRows, Fetches, school, tables, locals,
     ghosts, Runs
<1>24. ASSUME NEW u \in Users, Register(u) PROVE PortalTypes'
  BY <1>24, PortalAssumption DEF Register, PortalTypes, PortalTypeOK, PortalLocals, HasTarget,
     OnTarget, SessionRows, Fetches, school, tables, locals, ghosts, Runs
<1>25. ASSUME NEW u \in Users, LinkRead(u) PROVE PortalTypes'
  BY <1>25, PortalAssumption DEF LinkRead, PortalTypes, PortalTypeOK, PortalLocals, HasTarget,
     OnTarget, SessionRows, Fetches, school, tables, locals, ghosts, Runs
<1>26. ASSUME NEW u \in Users, LinkWrite(u) PROVE PortalTypes'
  BY <1>26, PortalAssumption DEF LinkWrite, Upsert, PortalTypes, PortalTypeOK, PortalLocals,
     HasTarget, OnTarget, SessionRows, Fetches, school, tables, locals, ghosts, Runs
<1> QED
  BY <1>1, <1>2, <1>3, <1>4, <1>5, <1>6, <1>7, <1>8, <1>9, <1>10, <1>11, <1>12, <1>13, <1>14,
     <1>15, <1>16, <1>17, <1>18, <1>19, <1>20, <1>21, <1>22, <1>23, <1>24, <1>25, <1>26, <1>27
  DEF PortalNext, Environment, JobStep, CallerStep, Collect, Link, Runs

\* What a user may hold only grows.
LEMMA MayHoldGrows ==
  ASSUME PortalTypes, PortalNext
  PROVE  \A v \in Users : MayHold(v) \subseteq MayHold(v)'
<1> DEFINE Same == UNCHANGED <<mode, had, fitted>>
<1>0. ASSUME UNCHANGED mode, \A v \in Users : had[v] \subseteq had'[v] /\ fitted[v] \subseteq fitted'[v]
      PROVE  \A v \in Users : MayHold(v) \subseteq MayHold(v)'
  BY <1>0 DEF MayHold, PortalTypes, PortalLocals
<1>00. Same => \A v \in Users : MayHold(v) \subseteq MayHold(v)'
  BY <1>0
<1>1. ASSUME NEW u \in Users, Move(u) PROVE \A v \in Users : MayHold(v) \subseteq MayHold(v)'
  <2>1. UNCHANGED mode /\ \A v \in Users : had[v] \subseteq had'[v] /\ fitted[v] \subseteq fitted'[v]
    BY <1>1 DEF Move, PortalTypes, PortalLocals
  <2> QED
    BY <2>1, <1>0
<1>2. ASSUME NEW u \in Users, Expire(u) PROVE \A v \in Users : MayHold(v) \subseteq MayHold(v)'
  <2>1. Same
    BY <1>2 DEF Expire, school, ghosts
  <2> QED
    BY <2>1, <1>00
<1>3. ASSUME NEW u \in Users, BrowserLogin(u) PROVE \A v \in Users : MayHold(v) \subseteq MayHold(v)'
  <2>1. Same
    BY <1>3 DEF BrowserLogin, school, ghosts
  <2> QED
    BY <2>1, <1>00
<1>4. ASSUME NEW u \in Users, Connect(u) PROVE \A v \in Users : MayHold(v) \subseteq MayHold(v)'
  <2>1. Same
    BY <1>4 DEF Connect, school, ghosts
  <2> QED
    BY <2>1, <1>00
<1>5. ASSUME NEW u \in Users, Ask(u) PROVE \A v \in Users : MayHold(v) \subseteq MayHold(v)'
  <2>1. Same
    BY <1>5 DEF Ask, school, ghosts
  <2> QED
    BY <2>1, <1>00
<1>6. ASSUME Resolve PROVE \A v \in Users : MayHold(v) \subseteq MayHold(v)'
  <2>1. Same
    BY <1>6 DEF Resolve, school, ghosts
  <2> QED
    BY <2>1, <1>00
<1>7. ASSUME ResolveNothing PROVE \A v \in Users : MayHold(v) \subseteq MayHold(v)'
  <2>1. Same
    BY <1>7 DEF ResolveNothing, school, ghosts
  <2> QED
    BY <2>1, <1>00
<1>8. ASSUME Next1 PROVE \A v \in Users : MayHold(v) \subseteq MayHold(v)'
  <2>1. Same
    BY <1>8 DEF Next1, school, ghosts
  <2> QED
    BY <2>1, <1>00
<1>9. ASSUME Overall PROVE \A v \in Users : MayHold(v) \subseteq MayHold(v)'
  <2>1. Same
    BY <1>9 DEF Overall, school, ghosts
  <2> QED
    BY <2>1, <1>00
<1>10. ASSUME Prime PROVE \A v \in Users : MayHold(v) \subseteq MayHold(v)'
  <2>1. Same
    BY <1>10 DEF Prime, school, ghosts
  <2> QED
    BY <2>1, <1>00
<1>11. ASSUME NEW p \in Runs, FetchApi(p) PROVE \A v \in Users : MayHold(v) \subseteq MayHold(v)'
  <2>1. Same
    BY <1>11 DEF FetchApi, Got, school, ghosts
  <2> QED
    BY <2>1, <1>00
<1>12. ASSUME NEW p \in Runs, FetchBrowser(p) PROVE \A v \in Users : MayHold(v) \subseteq MayHold(v)'
  <2>1. Same
    BY <1>12 DEF FetchBrowser, Got, school, ghosts
  <2> QED
    BY <2>1, <1>00
<1>13. ASSUME NEW p \in Runs, FetchCatalog(p) PROVE \A v \in Users : MayHold(v) \subseteq MayHold(v)'
  <2>1. Same
    BY <1>13 DEF FetchCatalog, Got, school, ghosts
  <2> QED
    BY <2>1, <1>00
<1>14. ASSUME NEW p \in Runs, FetchApiEmpty(p) PROVE \A v \in Users : MayHold(v) \subseteq MayHold(v)'
  <2>1. Same
    BY <1>14 DEF FetchApiEmpty, Got, school, ghosts
  <2> QED
    BY <2>1, <1>00
<1>15. ASSUME NEW p \in Runs, FetchNothing(p) PROVE \A v \in Users : MayHold(v) \subseteq MayHold(v)'
  <2>1. Same
    BY <1>15 DEF FetchNothing, Got, school, ghosts
  <2> QED
    BY <2>1, <1>00
<1>16. ASSUME NEW p \in Runs, SecretMissing(p) PROVE \A v \in Users : MayHold(v) \subseteq MayHold(v)'
  <2>1. Same
    BY <1>16 DEF SecretMissing, school, ghosts
  <2> QED
    BY <2>1, <1>00
<1>17. ASSUME NEW p \in Runs, Raise(p) PROVE \A v \in Users : MayHold(v) \subseteq MayHold(v)'
  <2>1. Same
    BY <1>17 DEF Raise, school, ghosts
  <2> QED
    BY <2>1, <1>00
<1>18. ASSUME NEW p \in Runs, Enrich(p) PROVE \A v \in Users : MayHold(v) \subseteq MayHold(v)'
  <2>1. Same
    BY <1>18 DEF Enrich, school, ghosts
  <2> QED
    BY <2>1, <1>00
<1>19. ASSUME NEW p \in Runs, Write(p) PROVE \A v \in Users : MayHold(v) \subseteq MayHold(v)'
  <2>1. Same
    BY <1>19 DEF Write, school, ghosts
  <2> QED
    BY <2>1, <1>00
<1>20. ASSUME NEW p \in Runs, WriteSession(p) PROVE \A v \in Users : MayHold(v) \subseteq MayHold(v)'
  <2>1. Same
    BY <1>20 DEF WriteSession, school, ghosts
  <2> QED
    BY <2>1, <1>00
<1>21. ASSUME NEW p \in Runs, Report(p) PROVE \A v \in Users : MayHold(v) \subseteq MayHold(v)'
  <2>1. Same
    BY <1>21 DEF Report, Reported, school, ghosts
  <2> QED
    BY <2>1, <1>00
<1>22. ASSUME NEW p \in Runs, Failed(p) PROVE \A v \in Users : MayHold(v) \subseteq MayHold(v)'
  <2>1. Same
    BY <1>22 DEF Failed, Reported, school, ghosts
  <2> QED
    BY <2>1, <1>00
<1>23. ASSUME NEW p \in Runs, KillRun(p) PROVE \A v \in Users : MayHold(v) \subseteq MayHold(v)'
  <2>1. Same
    BY <1>23 DEF KillRun, school, ghosts
  <2> QED
    BY <2>1, <1>00
<1>24. ASSUME NEW u \in Users, Register(u) PROVE \A v \in Users : MayHold(v) \subseteq MayHold(v)'
  <2>1. Same
    BY <1>24 DEF Register, school, ghosts
  <2> QED
    BY <2>1, <1>00
<1>25. ASSUME NEW u \in Users, LinkRead(u) PROVE \A v \in Users : MayHold(v) \subseteq MayHold(v)'
  <2>1. Same
    BY <1>25 DEF LinkRead, school, ghosts
  <2> QED
    BY <2>1, <1>00
<1>26. ASSUME NEW u \in Users, LinkWrite(u) PROVE \A v \in Users : MayHold(v) \subseteq MayHold(v)'
  <2>1. Same
    BY <1>26 DEF LinkWrite, school, ghosts
  <2> QED
    BY <2>1, <1>00
<1>27. ASSUME NEW u \in Users, Rename(u) PROVE \A v \in Users : MayHold(v) \subseteq MayHold(v)'
  <2>1. UNCHANGED mode /\ \A v \in Users : had[v] \subseteq had'[v] /\ fitted[v] \subseteq fitted'[v]
    BY <1>27 DEF Rename, PortalTypes, PortalLocals, Alone
  <2> QED
    BY <2>1, <1>0
<1> QED
  BY <1>1, <1>2, <1>3, <1>4, <1>5, <1>6, <1>7, <1>8, <1>9, <1>10, <1>11, <1>12, <1>13, <1>14,
     <1>15, <1>16, <1>17, <1>18, <1>19, <1>20, <1>21, <1>22, <1>23, <1>24, <1>25, <1>26, <1>27
  DEF PortalNext, Environment, JobStep, CallerStep, Collect, Link, Runs

\* Every step keeps the sections that of a course which they alone fitted.
LEMMA SectionsFitStep ==
  ASSUME PortalTypes, SectionsFit, PortalNext
  PROVE  SectionsFit'
<1>1. ASSUME NEW u \in Users, Move(u) PROVE SectionsFit'
  BY <1>1 DEF Move, SectionsFit, PortalTypes, PortalTypeOK, PortalLocals, HasTarget, OnTarget,
     school, tables, locals, ghosts, Go
<1>2. ASSUME NEW u \in Users, Expire(u) PROVE SectionsFit'
  BY <1>2 DEF Expire, SectionsFit, PortalTypes, PortalTypeOK, PortalLocals, HasTarget, OnTarget,
     school, tables, locals, ghosts, Go
<1>3. ASSUME NEW u \in Users, BrowserLogin(u) PROVE SectionsFit'
  BY <1>3 DEF BrowserLogin, SectionsFit, PortalTypes, PortalTypeOK, PortalLocals, HasTarget,
     OnTarget, school, tables, locals, ghosts, Go
<1>4. ASSUME NEW u \in Users, Connect(u) PROVE SectionsFit'
  BY <1>4 DEF Connect, SectionsFit, PortalTypes, PortalTypeOK, PortalLocals, HasTarget,
     OnTarget, school, tables, locals, ghosts, Go
<1>5. ASSUME NEW u \in Users, Ask(u) PROVE SectionsFit'
  BY <1>5 DEF Ask, SectionsFit, PortalTypes, PortalTypeOK, PortalLocals, HasTarget, OnTarget,
     school, tables, locals, ghosts, Go
<1>6. ASSUME Resolve PROVE SectionsFit'
  BY <1>6 DEF Resolve, SectionsFit, PortalTypes, PortalTypeOK, PortalLocals, HasTarget,
     OnTarget, school, tables, locals, ghosts, Go
<1>7. ASSUME ResolveNothing PROVE SectionsFit'
  BY <1>7 DEF ResolveNothing, SectionsFit, PortalTypes, PortalTypeOK, PortalLocals, HasTarget,
     OnTarget, school, tables, locals, ghosts, Go
<1>8. ASSUME Next1 PROVE SectionsFit'
  BY <1>8 DEF Next1, SectionsFit, PortalTypes, PortalTypeOK, PortalLocals, HasTarget, OnTarget,
     school, tables, locals, ghosts, Go
<1>9. ASSUME Overall PROVE SectionsFit'
  BY <1>9 DEF Overall, SectionsFit, PortalTypes, PortalTypeOK, PortalLocals, HasTarget,
     OnTarget, school, tables, locals, ghosts, Go
<1>10. ASSUME Prime PROVE SectionsFit'
  <2>1. UNCHANGED <<serves, looks, bound, had, fitted, fetched>>
    BY <1>10 DEF Prime, school, ghosts
  <2>2. CASE who[Caller] \in Targets
    <3>1. UNCHANGED who /\ pc' = [pc EXCEPT ![Caller] = "fetch"]
      BY <1>10, <2>2 DEF Prime, Go
    <3> QED
      BY <2>1, <3>1 DEF SectionsFit, PortalTypes, PortalTypeOK
  <2>3. CASE who[Caller] \notin Targets
    <3>1. who' = [who EXCEPT ![Caller] = NoUser] /\ pc' = [pc EXCEPT ![Caller] = "idle"]
      BY <1>10, <2>3 DEF Prime, Go
    <3> QED
      BY <2>1, <3>1 DEF SectionsFit, PortalTypes, PortalTypeOK, PortalLocals
  <2> QED
    BY <2>2, <2>3
<1>11. ASSUME NEW p \in Runs, FetchApi(p) PROVE SectionsFit'
  BY <1>11 DEF FetchApi, Got, NoFetch, SectionsFit, PortalTypes, PortalTypeOK, PortalLocals,
     HasTarget, OnTarget, school, tables, locals, ghosts, Go
<1>12. ASSUME NEW p \in Runs, FetchBrowser(p) PROVE SectionsFit'
  BY <1>12 DEF FetchBrowser, Got, NoFetch, Page, SectionsFit, PortalTypes, PortalTypeOK,
     PortalLocals, HasTarget, OnTarget, school, tables, locals, ghosts, Go
<1>13. ASSUME NEW p \in Runs, FetchCatalog(p) PROVE SectionsFit'
  <2>1. who[p] \in Users /\ UNCHANGED <<serves, looks, bound, had, fitted, who>>
    BY <1>13 DEF FetchCatalog, Got, school, PortalTypes, HasTarget, OnTarget
  <2>2. PICK f \in {Matched(who[p]), NoMatch} : Got(p, f)
    BY <1>13 DEF FetchCatalog
  <2>3. /\ fetched'[p] = f
        /\ \A r \in Runs : r # p => pc'[r] = pc[r] /\ fetched'[r] = fetched[r]
    BY <2>2 DEF Got, Go, PortalTypes, PortalTypeOK, PortalLocals
  <2>4. f.section # NoUser => f.section \in fitted[who[p]]
    <3>1. NoMatch.section = NoUser
      BY DEF NoMatch, NoFetch
    <3>2. ASSUME NEW s \in Users, Fits(who[p]) = {s} PROVE s \in fitted[who[p]]
      BY <2>1, <3>2 DEF Fits, SectionsFit
    <3>3. \A s \in Users : Selected(s).section = s
      BY DEF Selected, NoFetch
    <3> QED
      BY <2>1, <2>2, <3>1, <3>2, <3>3, MatchedOne
  <2> QED
    BY <2>1, <2>3, <2>4 DEF SectionsFit
<1>14. ASSUME NEW p \in Runs, FetchApiEmpty(p) PROVE SectionsFit'
  BY <1>14 DEF FetchApiEmpty, Got, NoFetch, SectionsFit, PortalTypes, PortalTypeOK,
     PortalLocals, HasTarget, OnTarget, school, tables, locals, ghosts, Go
<1>15. ASSUME NEW p \in Runs, FetchNothing(p) PROVE SectionsFit'
  BY <1>15 DEF FetchNothing, Got, NoFetch, SectionsFit, PortalTypes, PortalTypeOK, PortalLocals,
     HasTarget, OnTarget, school, tables, locals, ghosts, Go
<1>16. ASSUME NEW p \in Runs, SecretMissing(p) PROVE SectionsFit'
  BY <1>16 DEF SecretMissing, NoFetch, SectionsFit, PortalTypes, PortalTypeOK, PortalLocals,
     HasTarget, OnTarget, school, tables, locals, ghosts, Go
<1>17. ASSUME NEW p \in Runs, Raise(p) PROVE SectionsFit'
  BY <1>17 DEF Raise, SectionsFit, PortalTypes, PortalTypeOK, PortalLocals, HasTarget, OnTarget,
     school, tables, locals, ghosts, Go
<1>18. ASSUME NEW p \in Runs, Enrich(p) PROVE SectionsFit'
  BY <1>18 DEF Enrich, SectionsFit, PortalTypes, PortalTypeOK, PortalLocals, HasTarget,
     OnTarget, school, tables, locals, ghosts, Go
<1>19. ASSUME NEW p \in Runs, Write(p) PROVE SectionsFit'
  BY <1>19 DEF Write, Bind, SectionsFit, PortalTypes, PortalTypeOK, PortalLocals, HasTarget,
     OnTarget, school, tables, locals, ghosts, Go
<1>20. ASSUME NEW p \in Runs, WriteSession(p) PROVE SectionsFit'
  BY <1>20 DEF WriteSession, SectionsFit, PortalTypes, PortalTypeOK, PortalLocals, HasTarget,
     OnTarget, school, tables, locals, ghosts, Go
<1>21. ASSUME NEW p \in Runs, Report(p) PROVE SectionsFit'
  BY <1>21 DEF Report, Reported, SectionsFit, PortalTypes, PortalTypeOK, PortalLocals,
     HasTarget, OnTarget, school, tables, locals, ghosts, Go
<1>22. ASSUME NEW p \in Runs, Failed(p) PROVE SectionsFit'
  BY <1>22 DEF Failed, Reported, NoFetch, SectionsFit, PortalTypes, PortalTypeOK, PortalLocals,
     HasTarget, OnTarget, school, tables, locals, ghosts, Go
<1>23. ASSUME NEW p \in Runs, KillRun(p) PROVE SectionsFit'
  BY <1>23 DEF KillRun, NoFetch, SectionsFit, PortalTypes, PortalTypeOK, PortalLocals,
     HasTarget, OnTarget, school, tables, locals, ghosts, Go
<1>24. ASSUME NEW u \in Users, Register(u) PROVE SectionsFit'
  BY <1>24 DEF Register, SectionsFit, PortalTypes, PortalTypeOK, PortalLocals, HasTarget,
     OnTarget, school, tables, locals, ghosts, Go
<1>25. ASSUME NEW u \in Users, LinkRead(u) PROVE SectionsFit'
  BY <1>25 DEF LinkRead, SectionsFit, PortalTypes, PortalTypeOK, PortalLocals, HasTarget,
     OnTarget, school, tables, locals, ghosts, Go
<1>26. ASSUME NEW u \in Users, LinkWrite(u) PROVE SectionsFit'
  BY <1>26 DEF LinkWrite, SectionsFit, PortalTypes, PortalTypeOK, PortalLocals, HasTarget,
     OnTarget, school, tables, locals, ghosts, Go
<1>27. ASSUME NEW u \in Users, Rename(u) PROVE SectionsFit'
  <2>1. UNCHANGED <<serves, had, bound, pc, fetched, who>>
    BY <1>27 DEF Rename, tables, locals
  <2>2. \A v \in Users : fitted[v] \subseteq fitted'[v]
    BY <1>27 DEF Rename, PortalTypes, PortalLocals
  <2>3. \A v \in Users : \A s \in Users : looks'[v] = {s} => s \in fitted'[v]
    BY <1>27 DEF Rename, Alone
  <2> QED
    BY <2>1, <2>2, <2>3 DEF SectionsFit, PortalTypes, HasTarget, OnTarget
<1> QED
  BY <1>1, <1>2, <1>3, <1>4, <1>5, <1>6, <1>7, <1>8, <1>9, <1>10, <1>11, <1>12, <1>13, <1>14,
     <1>15, <1>16, <1>17, <1>18, <1>19, <1>20, <1>21, <1>22, <1>23, <1>24, <1>25, <1>26, <1>27
  DEF PortalNext, Environment, JobStep, CallerStep, Collect, Link, Runs

\* Every step keeps everybody's meetings their own.
LEMMA OwnMeetingsStep ==
  ASSUME PortalTypes, SectionsFit, OwnMeetings, PortalNext
  PROVE  OwnMeetings'
<1>0. \A v \in Users : MayHold(v) \subseteq MayHold(v)'
  BY MayHoldGrows
<1>1. ASSUME NEW u \in Users, Move(u) PROVE OwnMeetings'
  BY <1>0, <1>1 DEF Move, OwnMeetings, PortalTypes, PortalTypeOK, PortalLocals, HasTarget,
     OnTarget, school, tables, locals, ghosts, Go
<1>2. ASSUME NEW u \in Users, Expire(u) PROVE OwnMeetings'
  BY <1>0, <1>2 DEF Expire, OwnMeetings, PortalTypes, PortalTypeOK, PortalLocals, HasTarget,
     OnTarget, school, tables, locals, ghosts, Go
<1>3. ASSUME NEW u \in Users, BrowserLogin(u) PROVE OwnMeetings'
  BY <1>0, <1>3 DEF BrowserLogin, OwnMeetings, PortalTypes, PortalTypeOK, PortalLocals,
     HasTarget, OnTarget, school, tables, locals, ghosts, Go
<1>4. ASSUME NEW u \in Users, Connect(u) PROVE OwnMeetings'
  BY <1>0, <1>4 DEF Connect, OwnMeetings, PortalTypes, PortalTypeOK, PortalLocals, HasTarget,
     OnTarget, school, tables, locals, ghosts, Go
<1>5. ASSUME NEW u \in Users, Ask(u) PROVE OwnMeetings'
  BY <1>0, <1>5 DEF Ask, OwnMeetings, PortalTypes, PortalTypeOK, PortalLocals, HasTarget,
     OnTarget, school, tables, locals, ghosts, Go
<1>6. ASSUME Resolve PROVE OwnMeetings'
  BY <1>0, <1>6 DEF Resolve, OwnMeetings, PortalTypes, PortalTypeOK, PortalLocals, HasTarget,
     OnTarget, school, tables, locals, ghosts, Go
<1>7. ASSUME ResolveNothing PROVE OwnMeetings'
  BY <1>0, <1>7 DEF ResolveNothing, OwnMeetings, PortalTypes, PortalTypeOK, PortalLocals,
     HasTarget, OnTarget, school, tables, locals, ghosts, Go
<1>8. ASSUME Next1 PROVE OwnMeetings'
  BY <1>0, <1>8 DEF Next1, OwnMeetings, PortalTypes, PortalTypeOK, PortalLocals, HasTarget,
     OnTarget, school, tables, locals, ghosts, Go
<1>9. ASSUME Overall PROVE OwnMeetings'
  BY <1>0, <1>9 DEF Overall, OwnMeetings, PortalTypes, PortalTypeOK, PortalLocals, HasTarget,
     OnTarget, school, tables, locals, ghosts, Go
<1>10. ASSUME Prime PROVE OwnMeetings'
  BY <1>0, <1>10 DEF Prime, OwnMeetings, PortalTypes, PortalTypeOK, PortalLocals, HasTarget,
     OnTarget, school, tables, locals, ghosts, Go
<1>11. ASSUME NEW p \in Runs, FetchApi(p) PROVE OwnMeetings'
  <2>1. who[p] \in Users /\ UNCHANGED <<events, who, linking>>
    BY <1>11 DEF FetchApi, Got, PortalTypes, HasTarget, OnTarget
  <2>2. PICK f : f = [NoFetch EXCEPT !.src = "api", !.events = serves[who[p]], !.emptyOk = TRUE] /\ Got(p, f)
    BY <1>11 DEF FetchApi
  <2>3. f.events \subseteq MayHold(who[p])
    <3>1. mode # "catalog"
      BY <1>11 DEF FetchApi
    <3>2. serves[who[p]] \subseteq MayHold(who[p])
      BY <2>1, <3>1 DEF MayHold, SectionsFit
    <3> QED
      BY <2>2, <3>2 DEF NoFetch
  <2>4. /\ left'[p] = f.events
        /\ \A r \in Runs : r # p => pc'[r] = pc[r] /\ left'[r] = left[r]
    BY <2>2 DEF Got, Go, PortalTypes, PortalTypeOK
  <2> QED
    BY <1>0, <2>1, <2>3, <2>4 DEF OwnMeetings, PortalTypes, PortalTypeOK, PortalLocals, HasTarget, OnTarget
<1>12. ASSUME NEW p \in Runs, FetchBrowser(p) PROVE OwnMeetings'
  <2>1. who[p] \in Users /\ UNCHANGED <<events, who, linking>>
    BY <1>12 DEF FetchBrowser, Got, PortalTypes, HasTarget, OnTarget
  <2>2. PICK f : f = Page(who[p]) /\ Got(p, f)
    BY <1>12 DEF FetchBrowser
  <2>3. f.events \subseteq MayHold(who[p])
    <3>1. mode # "catalog"
      BY <1>12 DEF FetchBrowser
    <3>2. serves[who[p]] \subseteq MayHold(who[p])
      BY <2>1, <3>1 DEF MayHold, SectionsFit
    <3> QED
      BY <2>2, <3>2 DEF NoFetch, Page
  <2>4. /\ left'[p] = f.events
        /\ \A r \in Runs : r # p => pc'[r] = pc[r] /\ left'[r] = left[r]
    BY <2>2 DEF Got, Go, PortalTypes, PortalTypeOK
  <2> QED
    BY <1>0, <2>1, <2>3, <2>4 DEF OwnMeetings, PortalTypes, PortalTypeOK, PortalLocals, HasTarget, OnTarget
<1>13. ASSUME NEW p \in Runs, FetchCatalog(p) PROVE OwnMeetings'
  <2>1. who[p] \in Users /\ UNCHANGED <<events, who, linking>>
    BY <1>13 DEF FetchCatalog, Got, PortalTypes, HasTarget, OnTarget
  <2>2. PICK f \in {Matched(who[p]), NoMatch} : Got(p, f)
    BY <1>13 DEF FetchCatalog
  <2>3. f.events \subseteq MayHold(who[p])
    <3>1. NoMatch.events = {}
      BY DEF NoMatch, NoFetch
    <3>2. ASSUME NEW s \in Users, Fits(who[p]) = {s} PROVE serves[s] \subseteq MayHold(who[p])
      <4>1. s \in fitted[who[p]] /\ serves[s] \subseteq had[s]
        BY <2>1, <3>2 DEF Fits, SectionsFit
      <4>2. mode = "catalog"
        BY <1>13 DEF FetchCatalog
      <4> QED
        BY <4>1, <4>2 DEF MayHold
    <3>3. \A s \in Users : Selected(s).events = serves[s]
      BY DEF Selected, NoFetch
    <3> QED
      BY <2>1, <2>2, <3>1, <3>2, <3>3, MatchedOne
  <2>4. /\ left'[p] = f.events
        /\ \A r \in Runs : r # p => pc'[r] = pc[r] /\ left'[r] = left[r]
    BY <2>2 DEF Got, Go, PortalTypes, PortalTypeOK
  <2> QED
    BY <1>0, <2>1, <2>3, <2>4 DEF OwnMeetings, PortalTypes, PortalTypeOK, PortalLocals, HasTarget, OnTarget
<1>14. ASSUME NEW p \in Runs, FetchApiEmpty(p) PROVE OwnMeetings'
  <2>1. who[p] \in Users /\ UNCHANGED <<events, who, linking>>
    BY <1>14 DEF FetchApiEmpty, Got, PortalTypes, HasTarget, OnTarget
  <2>2. PICK f : f = [NoFetch EXCEPT !.src = "api", !.emptyOk = TRUE] /\ Got(p, f)
    BY <1>14 DEF FetchApiEmpty
  <2>3. f.events \subseteq MayHold(who[p])
    BY <2>2 DEF NoFetch
  <2>4. /\ left'[p] = f.events
        /\ \A r \in Runs : r # p => pc'[r] = pc[r] /\ left'[r] = left[r]
    BY <2>2 DEF Got, Go, PortalTypes, PortalTypeOK
  <2> QED
    BY <1>0, <2>1, <2>3, <2>4 DEF OwnMeetings, PortalTypes, PortalTypeOK, PortalLocals, HasTarget, OnTarget
<1>15. ASSUME NEW p \in Runs, FetchNothing(p) PROVE OwnMeetings'
  <2>1. who[p] \in Users /\ UNCHANGED <<events, who, linking>>
    BY <1>15 DEF FetchNothing, Got, PortalTypes, HasTarget, OnTarget
  <2>2. PICK f : f = NoFetch /\ Got(p, f)
    BY <1>15 DEF FetchNothing
  <2>3. f.events \subseteq MayHold(who[p])
    BY <2>2 DEF NoFetch
  <2>4. /\ left'[p] = f.events
        /\ \A r \in Runs : r # p => pc'[r] = pc[r] /\ left'[r] = left[r]
    BY <2>2 DEF Got, Go, PortalTypes, PortalTypeOK
  <2> QED
    BY <1>0, <2>1, <2>3, <2>4 DEF OwnMeetings, PortalTypes, PortalTypeOK, PortalLocals, HasTarget, OnTarget
<1>16. ASSUME NEW p \in Runs, SecretMissing(p) PROVE OwnMeetings'
  BY <1>0, <1>16 DEF SecretMissing, OwnMeetings, PortalTypes, PortalTypeOK, PortalLocals,
     HasTarget, OnTarget, school, tables, locals, ghosts, Go
<1>17. ASSUME NEW p \in Runs, Raise(p) PROVE OwnMeetings'
  BY <1>0, <1>17 DEF Raise, OwnMeetings, PortalTypes, PortalTypeOK, PortalLocals, HasTarget,
     OnTarget, school, tables, locals, ghosts, Go
<1>18. ASSUME NEW p \in Runs, Enrich(p) PROVE OwnMeetings'
  BY <1>0, <1>18 DEF Enrich, OwnMeetings, PortalTypes, PortalTypeOK, PortalLocals, HasTarget,
     OnTarget, school, tables, locals, ghosts, Go
<1>19. ASSUME NEW p \in Runs, Write(p) PROVE OwnMeetings'
  BY <1>0, <1>19 DEF Write, Upsert, OwnMeetings, PortalTypes, PortalTypeOK, PortalLocals,
     HasTarget, OnTarget, school, tables, locals, ghosts, Go
<1>20. ASSUME NEW p \in Runs, WriteSession(p) PROVE OwnMeetings'
  BY <1>0, <1>20 DEF WriteSession, OwnMeetings, PortalTypes, PortalTypeOK, PortalLocals,
     HasTarget, OnTarget, school, tables, locals, ghosts, Go
<1>21. ASSUME NEW p \in Runs, Report(p) PROVE OwnMeetings'
  BY <1>0, <1>21 DEF Report, Reported, OwnMeetings, PortalTypes, PortalTypeOK, PortalLocals,
     HasTarget, OnTarget, school, tables, locals, ghosts, Go
<1>22. ASSUME NEW p \in Runs, Failed(p) PROVE OwnMeetings'
  BY <1>0, <1>22 DEF Failed, Reported, OwnMeetings, PortalTypes, PortalTypeOK, PortalLocals,
     HasTarget, OnTarget, school, tables, locals, ghosts, Go
<1>23. ASSUME NEW p \in Runs, KillRun(p) PROVE OwnMeetings'
  BY <1>0, <1>23 DEF KillRun, OwnMeetings, PortalTypes, PortalTypeOK, PortalLocals, HasTarget,
     OnTarget, school, tables, locals, ghosts, Go
<1>24. ASSUME NEW u \in Users, Register(u) PROVE OwnMeetings'
  BY <1>0, <1>24 DEF Register, OwnMeetings, PortalTypes, PortalTypeOK, PortalLocals, HasTarget,
     OnTarget, school, tables, locals, ghosts, Go
<1>25. ASSUME NEW u \in Users, LinkRead(u) PROVE OwnMeetings'
  BY <1>0, <1>25 DEF LinkRead, OwnMeetings, PortalTypes, PortalTypeOK, PortalLocals, HasTarget,
     OnTarget, school, tables, locals, ghosts, Go
<1>26. ASSUME NEW u \in Users, LinkWrite(u) PROVE OwnMeetings'
  BY <1>0, <1>26 DEF LinkWrite, Upsert, OwnMeetings, PortalTypes, PortalTypeOK, PortalLocals,
     HasTarget, OnTarget, school, tables, locals, ghosts, Go
<1>27. ASSUME NEW u \in Users, Rename(u) PROVE OwnMeetings'
  BY <1>0, <1>27 DEF Rename, OwnMeetings, PortalTypes, PortalTypeOK, PortalLocals, HasTarget,
     OnTarget, school, tables, locals, ghosts, Go
<1> QED
  BY <1>1, <1>2, <1>3, <1>4, <1>5, <1>6, <1>7, <1>8, <1>9, <1>10, <1>11, <1>12, <1>13, <1>14,
     <1>15, <1>16, <1>17, <1>18, <1>19, <1>20, <1>21, <1>22, <1>23, <1>24, <1>25, <1>26, <1>27
  DEF PortalNext, Environment, JobStep, CallerStep, Collect, Link, Runs

\* Every step of the job reports the target it takes off the ones before it.
LEMMA OwedAheadStep ==
  ASSUME PortalTypes, OwedAhead, PortalNext
  PROVE  OwedAhead'
<1>1. ASSUME NEW u \in Users, Move(u) PROVE OwedAhead'
  BY <1>1, PortalAssumption DEF Move, OwedAhead, PortalTypes, PortalTypeOK, PortalLocals, HasTarget,
     OnTarget, school, tables, locals, ghosts, Runs, Go
<1>27. ASSUME NEW u \in Users, Rename(u) PROVE OwedAhead'
  BY <1>27 DEF Rename, OwedAhead, tables, locals
<1>2. ASSUME NEW u \in Users, Expire(u) PROVE OwedAhead'
  BY <1>2, PortalAssumption DEF Expire, OwedAhead, PortalTypes, PortalTypeOK, PortalLocals,
     HasTarget, OnTarget, school, tables, locals, ghosts, Runs, Go
<1>3. ASSUME NEW u \in Users, BrowserLogin(u) PROVE OwedAhead'
  BY <1>3, PortalAssumption DEF BrowserLogin, Disturb, Holders, NoSession, OwedAhead, PortalTypes,
     PortalTypeOK, PortalLocals, HasTarget, OnTarget, school, tables, locals, ghosts, Runs, Go
<1>4. ASSUME NEW u \in Users, Connect(u) PROVE OwedAhead'
  BY <1>4, PortalAssumption DEF Connect, Disturb, Holders, OwedAhead, PortalTypes, PortalTypeOK,
     PortalLocals, HasTarget, OnTarget, school, tables, locals, ghosts, Runs, Go
<1>5. ASSUME NEW u \in Users, Ask(u) PROVE OwedAhead'
  BY <1>5, PortalAssumption DEF Ask, OwedAhead, PortalTypes, PortalTypeOK, PortalLocals, HasTarget,
     OnTarget, school, tables, locals, ghosts, Runs, Go
<1>6. ASSUME Resolve PROVE OwedAhead'
  BY <1>6, PortalAssumption DEF Resolve, Hold, Targets, OwedAhead, PortalTypes, PortalTypeOK,
     PortalLocals, HasTarget, OnTarget, school, tables, locals, ghosts, Runs, Go
<1>7. ASSUME ResolveNothing PROVE OwedAhead'
  BY <1>7, PortalAssumption DEF ResolveNothing, OwedAhead, PortalTypes, PortalTypeOK, PortalLocals,
     HasTarget, OnTarget, school, tables, locals, ghosts, Runs, Go
<1>8. ASSUME Next1 PROVE OwedAhead'
  BY <1>8, PortalAssumption DEF Next1, OwedAhead, PortalTypes, PortalTypeOK, PortalLocals,
     HasTarget, OnTarget, school, tables, locals, ghosts, Runs, Go
<1>9. ASSUME Overall PROVE OwedAhead'
  BY <1>9, PortalAssumption DEF Overall, OwedAhead, PortalTypes, PortalTypeOK, PortalLocals,
     HasTarget, OnTarget, school, tables, locals, ghosts, Runs, Go
<1>10. ASSUME Prime PROVE OwedAhead'
  BY <1>10, PortalAssumption DEF Prime, Hold, Targets, OwedAhead, PortalTypes, PortalTypeOK,
     PortalLocals, HasTarget, OnTarget, school, tables, locals, ghosts, Runs, Go
<1>11. ASSUME NEW p \in Runs, FetchApi(p) PROVE OwedAhead'
  BY <1>11, PortalAssumption DEF FetchApi, Got, NoFetch, StatusOf, OwedAhead, PortalTypes,
     PortalTypeOK, PortalLocals, HasTarget, OnTarget, school, tables, locals, ghosts, Runs, Go
<1>12. ASSUME NEW p \in Runs, FetchBrowser(p) PROVE OwedAhead'
  BY <1>12, PortalAssumption DEF FetchBrowser, Got, NoFetch, StatusOf, Page, LoggedOut, OwedAhead,
     PortalTypes, PortalTypeOK, PortalLocals, HasTarget, OnTarget, school, tables, locals, ghosts,
     Runs, Go
<1>13. ASSUME NEW p \in Runs, FetchCatalog(p) PROVE OwedAhead'
  BY <1>13, PortalAssumption DEF FetchCatalog, Got, NoFetch, StatusOf, OwedAhead,
     PortalTypes, PortalTypeOK, PortalLocals, HasTarget, OnTarget, school, tables, locals, ghosts,
     Runs, Go
<1>14. ASSUME NEW p \in Runs, FetchApiEmpty(p) PROVE OwedAhead'
  BY <1>14, PortalAssumption DEF FetchApiEmpty, Got, NoFetch, StatusOf, OwedAhead, PortalTypes,
     PortalTypeOK, PortalLocals, HasTarget, OnTarget, school, tables, locals, ghosts, Runs, Go
<1>15. ASSUME NEW p \in Runs, FetchNothing(p) PROVE OwedAhead'
  BY <1>15, PortalAssumption DEF FetchNothing, Got, NoFetch, StatusOf, OwedAhead, PortalTypes,
     PortalTypeOK, PortalLocals, HasTarget, OnTarget, school, tables, locals, ghosts, Runs, Go
<1>16. ASSUME NEW p \in Runs, SecretMissing(p) PROVE OwedAhead'
  BY <1>16, PortalAssumption DEF SecretMissing, NoFetch, StatusOf, OwedAhead, PortalTypes,
     PortalTypeOK, PortalLocals, HasTarget, OnTarget, school, tables, locals, ghosts, Runs, Go
<1>17. ASSUME NEW p \in Runs, Raise(p) PROVE OwedAhead'
  BY <1>17, PortalAssumption DEF Raise, OwedAhead, PortalTypes, PortalTypeOK, PortalLocals,
     HasTarget, OnTarget, school, tables, locals, ghosts, Runs, Go
<1>18. ASSUME NEW p \in Runs, Enrich(p) PROVE OwedAhead'
  BY <1>18, PortalAssumption DEF Enrich, OwedAhead, PortalTypes, PortalTypeOK, PortalLocals,
     HasTarget, OnTarget, school, tables, locals, ghosts, Runs, Go
<1>19. ASSUME NEW p \in Runs, Write(p) PROVE OwedAhead'
  BY <1>19, PortalAssumption DEF Write, Upsert, OwedAhead, PortalTypes, PortalTypeOK, PortalLocals,
     HasTarget, OnTarget, school, tables, locals, ghosts, Runs, Go
<1>20. ASSUME NEW p \in Runs, WriteSession(p) PROVE OwedAhead'
  BY <1>20, PortalAssumption DEF WriteSession, StatusOf, OwedAhead, PortalTypes, PortalTypeOK,
     PortalLocals, HasTarget, OnTarget, school, tables, locals, ghosts, Runs, Go
<1>21. ASSUME NEW p \in Runs, Report(p) PROVE OwedAhead'
  BY <1>21, PortalAssumption DEF Report, Reported, OwedAhead, PortalTypes, PortalTypeOK,
     PortalLocals, HasTarget, OnTarget, school, tables, locals, ghosts, Runs, Go
<1>22. ASSUME NEW p \in Runs, Failed(p) PROVE OwedAhead'
  BY <1>22, PortalAssumption DEF Failed, Reported, NoReport, OwedAhead, PortalTypes, PortalTypeOK,
     PortalLocals, HasTarget, OnTarget, school, tables, locals, ghosts, Runs, Go
<1>23. ASSUME NEW p \in Runs, KillRun(p) PROVE OwedAhead'
  BY <1>23, PortalAssumption DEF KillRun, OwedAhead, PortalTypes, PortalTypeOK, PortalLocals,
     HasTarget, OnTarget, school, tables, locals, ghosts, Runs, Go
<1>24. ASSUME NEW u \in Users, Register(u) PROVE OwedAhead'
  BY <1>24, PortalAssumption DEF Register, OwedAhead, PortalTypes, PortalTypeOK, PortalLocals,
     HasTarget, OnTarget, school, tables, locals, ghosts, Runs, Go
<1>25. ASSUME NEW u \in Users, LinkRead(u) PROVE OwedAhead'
  BY <1>25, PortalAssumption DEF LinkRead, OwedAhead, PortalTypes, PortalTypeOK, PortalLocals,
     HasTarget, OnTarget, school, tables, locals, ghosts, Runs, Go
<1>26. ASSUME NEW u \in Users, LinkWrite(u) PROVE OwedAhead'
  BY <1>26, PortalAssumption DEF LinkWrite, Upsert, OwedAhead, PortalTypes, PortalTypeOK,
     PortalLocals, HasTarget, OnTarget, school, tables, locals, ghosts, Runs, Go
<1> QED
  BY <1>1, <1>2, <1>3, <1>4, <1>5, <1>6, <1>7, <1>8, <1>9, <1>10, <1>11, <1>12, <1>13, <1>14,
     <1>15, <1>16, <1>17, <1>18, <1>19, <1>20, <1>21, <1>22, <1>23, <1>24, <1>25, <1>26, <1>27
  DEF PortalNext, Environment, JobStep, CallerStep, Collect, Link, Runs

\* Every step keeps the held rows those that are stored, or disturbs them.
LEMMA HeldIsStoredStep ==
  ASSUME PortalTypes, HeldIsStored, PortalNext
  PROVE  HeldIsStored'
<1>1. ASSUME NEW u \in Users, Move(u) PROVE HeldIsStored'
  BY <1>1, PortalAssumption DEF Move, HeldIsStored, Active, SessionRows, PortalTypes, PortalTypeOK,
     PortalLocals, HasTarget, OnTarget, school, tables, locals, ghosts, Runs, Go
<1>27. ASSUME NEW u \in Users, Rename(u) PROVE HeldIsStored'
  BY <1>27 DEF Rename, HeldIsStored, Active, tables, locals
<1>2. ASSUME NEW u \in Users, Expire(u) PROVE HeldIsStored'
  BY <1>2, PortalAssumption DEF Expire, HeldIsStored, Active, SessionRows, PortalTypes,
     PortalTypeOK, PortalLocals, HasTarget, OnTarget, school, tables, locals, ghosts, Runs, Go
<1>3. ASSUME NEW u \in Users, BrowserLogin(u) PROVE HeldIsStored'
  BY <1>3, PortalAssumption DEF BrowserLogin, Disturb, Holders, NoSession, HeldIsStored, Active,
     SessionRows, PortalTypes, PortalTypeOK, PortalLocals, HasTarget, OnTarget, school, tables,
     locals, ghosts, Runs, Go
<1>4. ASSUME NEW u \in Users, Connect(u) PROVE HeldIsStored'
  BY <1>4, PortalAssumption DEF Connect, Disturb, Holders, HeldIsStored, Active, SessionRows,
     PortalTypes, PortalTypeOK, PortalLocals, HasTarget, OnTarget, school, tables, locals, ghosts,
     Runs, Go
<1>5. ASSUME NEW u \in Users, Ask(u) PROVE HeldIsStored'
  BY <1>5, PortalAssumption DEF Ask, HeldIsStored, Active, SessionRows, PortalTypes, PortalTypeOK,
     PortalLocals, HasTarget, OnTarget, school, tables, locals, ghosts, Runs, Go
<1>6. ASSUME Resolve PROVE HeldIsStored'
  BY <1>6, PortalAssumption DEF Resolve, Hold, Targets, HeldIsStored, Active, SessionRows,
     PortalTypes, PortalTypeOK, PortalLocals, HasTarget, OnTarget, school, tables, locals, ghosts,
     Runs, Go
<1>7. ASSUME ResolveNothing PROVE HeldIsStored'
  BY <1>7, PortalAssumption DEF ResolveNothing, HeldIsStored, Active, SessionRows, PortalTypes,
     PortalTypeOK, PortalLocals, HasTarget, OnTarget, school, tables, locals, ghosts, Runs, Go
<1>8. ASSUME Next1 PROVE HeldIsStored'
  BY <1>8, PortalAssumption DEF Next1, HeldIsStored, Active, SessionRows, PortalTypes, PortalTypeOK,
     PortalLocals, HasTarget, OnTarget, school, tables, locals, ghosts, Runs, Go
<1>9. ASSUME Overall PROVE HeldIsStored'
  BY <1>9, PortalAssumption DEF Overall, HeldIsStored, Active, SessionRows, PortalTypes,
     PortalTypeOK, PortalLocals, HasTarget, OnTarget, school, tables, locals, ghosts, Runs, Go
<1>10. ASSUME Prime PROVE HeldIsStored'
  BY <1>10, PortalAssumption DEF Prime, Hold, Targets, HeldIsStored, Active, SessionRows,
     PortalTypes, PortalTypeOK, PortalLocals, HasTarget, OnTarget, school, tables, locals, ghosts,
     Runs, Go
<1>11. ASSUME NEW p \in Runs, FetchApi(p) PROVE HeldIsStored'
  <2>1. proven' = proven \union {who[p]}
    BY <1>11 DEF FetchApi
  <2>2. /\ UNCHANGED <<mode, held, who, session, opened, disturbed>>
        /\ \A q \in Runs : q # p => pc'[q] = pc[q] /\ fetched'[q] = fetched[q]
    BY <1>11 DEF FetchApi, Got, Go, school, PortalTypes, PortalTypeOK, PortalLocals
  <2> QED
    BY <2>1, <2>2 DEF HeldIsStored, Active
<1>12. ASSUME NEW p \in Runs, FetchBrowser(p) PROVE HeldIsStored'
  <2>1. /\ who[p] \in Users /\ serves[who[p]] # {}
        /\ proven \subseteq proven'
        /\ UNCHANGED <<mode, held, who, session, opened, disturbed>>
    BY <1>12 DEF FetchBrowser, Got, school, PortalTypes, PortalLocals, HasTarget, OnTarget
  <2>2. Got(p, Page(who[p]))
    BY <1>12 DEF FetchBrowser
  <2>3. StatusOf(Page(who[p])) = "success" => who[p] \in proven'
    <3>1. Page(who[p]).events # {} => who[p] \in proven'
      BY <1>12 DEF FetchBrowser
    <3>2. CASE LoggedOut(who[p])
      <4>1. Page(who[p]) = [NoFetch EXCEPT !.auth = TRUE]
        BY <3>2 DEF Page
      <4> QED
        BY <4>1 DEF StatusOf, NoFetch
    <3>3. CASE ~LoggedOut(who[p])
      BY <2>1, <3>1, <3>3 DEF Page, NoFetch
    <3> QED
      BY <3>2, <3>3
  <2>4. /\ fetched' = [fetched EXCEPT ![p] = Page(who[p])]
        /\ \A q \in Runs : q # p => pc'[q] = pc[q]
    BY <2>2 DEF Got, Go, PortalTypes, PortalTypeOK
  <2> QED
    BY <2>1, <2>3, <2>4 DEF HeldIsStored, Active, PortalTypes, PortalLocals
<1>13. ASSUME NEW p \in Runs, FetchCatalog(p) PROVE HeldIsStored'
  BY <1>13, PortalAssumption DEF FetchCatalog, Got, NoFetch, StatusOf, Matched, HeldIsStored,
     Active, SessionRows, PortalTypes, PortalTypeOK, PortalLocals, HasTarget, OnTarget, school,
     tables, locals, ghosts, Runs, Go
<1>14. ASSUME NEW p \in Runs, FetchApiEmpty(p) PROVE HeldIsStored'
  <2>1. proven' = proven \union {who[p]}
    BY <1>14 DEF FetchApiEmpty
  <2>2. /\ UNCHANGED <<mode, held, who, session, opened, disturbed>>
        /\ \A q \in Runs : q # p => pc'[q] = pc[q] /\ fetched'[q] = fetched[q]
    BY <1>14 DEF FetchApiEmpty, Got, Go, school, PortalTypes, PortalTypeOK, PortalLocals
  <2> QED
    BY <2>1, <2>2 DEF HeldIsStored, Active
<1>15. ASSUME NEW p \in Runs, FetchNothing(p) PROVE HeldIsStored'
  <2>1. /\ UNCHANGED <<mode, held, who, session, opened, disturbed, proven>>
        /\ \A q \in Runs : q # p => pc'[q] = pc[q] /\ fetched'[q] = fetched[q]
        /\ fetched'[p] = NoFetch
    BY <1>15 DEF FetchNothing, Got, Go, school, PortalTypes, PortalTypeOK, PortalLocals
  <2>2. StatusOf(fetched'[p]) = "skipped"
    BY <2>1 DEF StatusOf, NoFetch
  <2> QED
    BY <2>1, <2>2 DEF HeldIsStored, Active
<1>16. ASSUME NEW p \in Runs, SecretMissing(p) PROVE HeldIsStored'
  <2>1. /\ UNCHANGED <<mode, held, who, session, opened, disturbed, proven>>
        /\ \A q \in Runs : q # p => pc'[q] = pc[q] /\ fetched'[q] = fetched[q]
        /\ fetched'[p] = [NoFetch EXCEPT !.auth = TRUE]
    BY <1>16 DEF SecretMissing, Go, school, tables, ghosts, PortalTypes, PortalTypeOK, PortalLocals
  <2>2. StatusOf(fetched'[p]) = "error"
    BY <2>1 DEF StatusOf, NoFetch
  <2> QED
    BY <2>1, <2>2 DEF HeldIsStored, Active
<1>17. ASSUME NEW p \in Runs, Raise(p) PROVE HeldIsStored'
  BY <1>17, PortalAssumption DEF Raise, HeldIsStored, Active, SessionRows, PortalTypes,
     PortalTypeOK, PortalLocals, HasTarget, OnTarget, school, tables, locals, ghosts, Runs, Go
<1>18. ASSUME NEW p \in Runs, Enrich(p) PROVE HeldIsStored'
  BY <1>18, PortalAssumption DEF Enrich, HeldIsStored, Active, SessionRows, PortalTypes,
     PortalTypeOK, PortalLocals, HasTarget, OnTarget, school, tables, locals, ghosts, Runs, Go
<1>19. ASSUME NEW p \in Runs, Write(p) PROVE HeldIsStored'
  BY <1>19, PortalAssumption DEF Write, Upsert, HeldIsStored, Active, SessionRows, PortalTypes,
     PortalTypeOK, PortalLocals, HasTarget, OnTarget, school, tables, locals, ghosts, Runs, Go
<1>20. ASSUME NEW p \in Runs, WriteSession(p) PROVE HeldIsStored'
  <2>1. /\ pc[p] = "session" /\ who[p] \in Users
        /\ UNCHANGED <<mode, held, who, fetched, opened, disturbed, proven>>
        /\ \A q \in Runs : q # p => pc'[q] = pc[q]
        /\ pc'[p] = "report"
    BY <1>20
    DEF WriteSession, Go, school, locals, ghosts, PortalTypes, PortalTypeOK, HasTarget, OnTarget
  <2>2. \A u \in Users : u # who[p] => session'[u] = session[u]
    BY <1>20 DEF WriteSession, PortalTypes, PortalTypeOK
  <2>3. ASSUME who[p] \notin disturbed
        PROVE  /\ session'[who[p]].status = session[who[p]].status
               /\ session'[who[p]].sync = "success" => who[p] \in proven
    <3>1. CASE held[p][who[p]] = NoSession
      <4>1. session'[who[p]] = session[who[p]]
        BY <1>20, <2>1, <3>1 DEF WriteSession, PortalTypes, PortalTypeOK
      <4> QED
        BY <2>1, <2>3, <4>1 DEF HeldIsStored
    <3>2. CASE held[p][who[p]] # NoSession
      <4>1. session'[who[p]] = [status |-> held[p][who[p]].status, sync |-> StatusOf(fetched[p]),
                                auth |-> fetched[p].auth]
        BY <1>20, <2>1, <3>2 DEF WriteSession, PortalTypes, PortalTypeOK
      <4> QED
        BY <2>1, <2>3, <3>2, <4>1 DEF HeldIsStored
    <3> QED
      BY <3>1, <3>2
  <2> QED
    BY <2>1, <2>2, <2>3 DEF HeldIsStored, Active
<1>21. ASSUME NEW p \in Runs, Report(p) PROVE HeldIsStored'
  BY <1>21, PortalAssumption DEF Report, Reported, HeldIsStored, Active, SessionRows, PortalTypes,
     PortalTypeOK, PortalLocals, HasTarget, OnTarget, school, tables, locals, ghosts, Runs, Go
<1>22. ASSUME NEW p \in Runs, Failed(p) PROVE HeldIsStored'
  BY <1>22, PortalAssumption DEF Failed, Reported, NoReport, HeldIsStored, Active, SessionRows,
     PortalTypes, PortalTypeOK, PortalLocals, HasTarget, OnTarget, school, tables, locals, ghosts,
     Runs, Go
<1>23. ASSUME NEW p \in Runs, KillRun(p) PROVE HeldIsStored'
  BY <1>23, PortalAssumption DEF KillRun, HeldIsStored, Active, SessionRows, PortalTypes,
     PortalTypeOK, PortalLocals, HasTarget, OnTarget, school, tables, locals, ghosts, Runs, Go
<1>24. ASSUME NEW u \in Users, Register(u) PROVE HeldIsStored'
  BY <1>24, PortalAssumption DEF Register, HeldIsStored, Active, SessionRows, PortalTypes,
     PortalTypeOK, PortalLocals, HasTarget, OnTarget, school, tables, locals, ghosts, Runs, Go
<1>25. ASSUME NEW u \in Users, LinkRead(u) PROVE HeldIsStored'
  BY <1>25, PortalAssumption DEF LinkRead, HeldIsStored, Active, SessionRows, PortalTypes,
     PortalTypeOK, PortalLocals, HasTarget, OnTarget, school, tables, locals, ghosts, Runs, Go
<1>26. ASSUME NEW u \in Users, LinkWrite(u) PROVE HeldIsStored'
  BY <1>26, PortalAssumption DEF LinkWrite, Upsert, HeldIsStored, Active, SessionRows, PortalTypes,
     PortalTypeOK, PortalLocals, HasTarget, OnTarget, school, tables, locals, ghosts, Runs, Go
<1> QED
  BY <1>1, <1>2, <1>3, <1>4, <1>5, <1>6, <1>7, <1>8, <1>9, <1>10, <1>11, <1>12, <1>13, <1>14,
     <1>15, <1>16, <1>17, <1>18, <1>19, <1>20, <1>21, <1>22, <1>23, <1>24, <1>25, <1>26, <1>27
  DEF PortalNext, Environment, JobStep, CallerStep, Collect, Link, Runs

\* All of it holds before the first collection.
LEMMA PortalInitially == PortalInit => PortalInv
<1> SUFFICES ASSUME PortalInit PROVE PortalInv
  OBVIOUS
<1>1. PortalTypes
  <2>1. PortalTypeOK
    BY PortalAssumption, NothingYet DEF PortalInit, PortalTypeOK, SessionRows, Statuses, Sources
  <2>2. PortalLocals
    <3>1. \A u \in Users : serves[u] # {}
      <4>1. TAKE u \in Users
      <4>2. serves[u] \in {{m} : m \in Meetings}
        BY DEF PortalInit
      <4>3. PICK m \in Meetings : serves[u] = {m}
        BY <4>2
      <4> QED
        BY <4>3
    <3>2. /\ held \in [Runs -> [Users -> SessionRows]] /\ fetched \in [Runs -> Fetches]
          /\ todo \in [Runs -> SUBSET Users] /\ who \in [Runs -> Users \union {NoUser}]
          /\ aliases \in [Runs -> BOOLEAN]
      BY NothingYet DEF PortalInit
    <3>3. /\ linking \in [Users -> SUBSET (Meetings \X SUBSET {"stored", "linked", "named"})]
          /\ opened \in [Users -> BOOLEAN] /\ fitted \in [Users -> SUBSET Users]
      BY DEF PortalInit, Alone
    <3>6. had \in [Users -> SUBSET Meetings]
      BY <2>1 DEF PortalInit, PortalTypeOK
    <3>4. /\ buildings \in BOOLEAN
          /\ disturbed \subseteq Users /\ proven \subseteq Users /\ owed \subseteq Users
      BY DEF PortalInit
    <3>5. changes \in 0 .. MaxChanges /\ faults \in 0 .. MaxFaults
      BY PortalAssumption DEF PortalInit
    <3> QED
      BY <3>1, <3>2, <3>3, <3>4, <3>5, <3>6 DEF PortalLocals
  <2>3. HasTarget
    BY DEF PortalInit, HasTarget, OnTarget
  <2> QED
    BY <2>1, <2>2, <2>3 DEF PortalTypes
<1>2. OwnMeetings /\ OwedAhead
  BY PortalAssumption DEF PortalInit, OwnMeetings, OwedAhead, OnTarget, Runs
<1>4. SectionsFit
  <2>1. \A u \in Users : \A s \in Users : looks[u] = {s} => s \in fitted[u]
    BY DEF PortalInit, Alone
  <2>2. \A u \in Users : bound[u] \in Users => bound[u] \in fitted[u]
    BY PortalAssumption DEF PortalInit
  <2> QED
    BY <2>1, <2>2 DEF PortalInit, SectionsFit
<1>3. HeldIsStored
  BY DEF PortalInit, HeldIsStored, Active, NoSession
<1> QED
  BY <1>1, <1>2, <1>3, <1>4 DEF PortalInv

\* And it holds after every step, with a stutter or without.
LEMMA PortalStep == PortalInv /\ [PortalNext]_portalVars => PortalInv'
<1> SUFFICES ASSUME PortalInv, [PortalNext]_portalVars PROVE PortalInv'
  OBVIOUS
<1>1. CASE PortalNext
  BY <1>1, PortalTypesStep, SectionsFitStep, OwnMeetingsStep, OwedAheadStep, HeldIsStoredStep DEF PortalInv
<1>2. CASE UNCHANGED portalVars
  <2>1. PortalTypes'
    BY <1>2 DEF PortalInv, PortalTypes, PortalTypeOK, PortalLocals, HasTarget, portalVars, school, tables,
                locals, ghosts
  <2>2. OwnMeetings' /\ OwedAhead' /\ SectionsFit'
    BY <1>2
    DEF PortalInv, OwnMeetings, MayHold, SectionsFit, OwedAhead, portalVars, school, tables, locals,
        ghosts
  <2>3. HeldIsStored'
    BY <1>2 DEF PortalInv, HeldIsStored, Active, portalVars, school, tables, locals, ghosts
  <2> QED
    BY <2>1, <2>2, <2>3 DEF PortalInv
<1> QED
  BY <1>1, <1>2

\* The tables and the runs of the collection keep their types, for any users, meetings and faults.
THEOREM PortalTypeCorrect == PortalSpec => []PortalTypeOK
<1>1. PortalInv => PortalTypeOK
  BY DEF PortalInv, PortalTypes
<1> QED
  BY <1>1, PortalInitially, PortalStep, PTL DEF PortalSpec

\* A session is active when the onboarding last opened it, but for one that was changed while a
\* run held its row, and it counts as ready only with an answer of a source since that login, for
\* any number of users and whatever of the two runs overlaps, fails or is killed.
THEOREM SessionsAreTruthful == PortalSpec => []SessionTruthful
<1>1. PortalInv => SessionTruthful
  BY DEF PortalInv, PortalTypes, HeldIsStored, SessionTruthful, Ready
<1> QED
  BY <1>1, PortalInitially, PortalStep, PTL DEF PortalSpec

\* Everybody's events are of their own timetable or, from the catalog, of a section that has been
\* the only one to fit their course, and the job writes the row for everybody only when each of
\* its targets has a row of this cycle, for any number of users and failures.
THEOREM UsersAreApart == PortalSpec => []UsersApart
<1>1. PortalInv => UsersApart
  BY DEF PortalInv, OwnMeetings, OwedAhead, UsersApart
<1> QED
  BY <1>1, PortalInitially, PortalStep, PTL DEF PortalSpec

-----------------------------------------------------------------------------
(* The weather                                                              *)

WeatherRows == [key : Region \cup {"none"}, data : Datum]
Findings == [key : Region, data : Datum]

Entries == [user : User, key : Region]
Requests ==
  [pc : {"idle", "look", "fetch", "answer", "next", "default", "list", "targets", "owners", "error"},
   user : Owners, target : Region \cup {"none"}, custom : BOOLEAN, at : Times \cup {0},
   force : BOOLEAN, read : WeatherRows, data : Datum, failed : BOOLEAN,
   found : SUBSET Findings, todo : SUBSET (User \cup Entries)]
\* The weather of a region, or none.
Of(r, data) == data # NoData => data.region = r

\* A row is not of a later time, and has the weather of its key or, without a key, that of the
\* default.
RowFits(w, now) ==
  /\ w \in WeatherRows /\ w.data.at <= now
  /\ Of(IF w.key = "none" THEN Default ELSE w.key, w.data)

\* So is and has what a process keeps.
RequestFits(r, now) ==
  /\ r \in Requests
  /\ r.at <= now /\ r.read.data.at <= now /\ r.data.at <= now
  /\ \A f \in r.found : f.data.at <= now /\ Of(f.key, f.data)

\* A process that serves a user looks, fetches and answers for the region it read; without one of
\* the user that is the default.
GetterFits(r) ==
  /\ r.pc \in {"idle", "look", "fetch", "answer", "next"} /\ r.todo \subseteq User
  /\ r.pc # "idle" => r.at \in Times
  /\ r.pc \in {"look", "fetch"} =>
       /\ r.target \in Region /\ r.user \in User
       /\ r.custom \/ r.target = Default
  /\ r.pc = "fetch" => Of(r.target, r.read.data)
  /\ r.pc = "answer" => Of(r.target, r.data)

\* The job writes weather of the region it serves, and found weather only.
JobFits(r) ==
  /\ r.pc \in {"idle", "default", "list", "targets", "owners", "error"} /\ r.todo \subseteq Entries
  /\ \A f \in r.found : f.data # NoData
  /\ r.pc \in {"default", "owners", "error"} =>
       /\ r.target \in Region
       /\ ~ r.failed => r.data # NoData /\ Of(r.target, r.data)
  /\ r.pc \in {"default", "error"} => Of(r.target, r.read.data)
  /\ r.pc = "default" => r.target = Default
  /\ r.pc = "error" => r.user \in User

WeatherInv ==
  /\ clock \in Times /\ region \in [User -> Places \cup {"none"}]
  /\ choices \in 0 .. MaxChoices /\ runs \in 0 .. MaxRuns
  /\ kept \in [Owners -> WeatherRows] /\ \A o \in Owners : RowFits(kept[o], clock)
  /\ req \in [Proc -> Requests] /\ \A p \in Proc : RequestFits(req[p], clock)
  /\ \A p \in Getters : GetterFits(req[p])
  /\ JobFits(req["job"])

\* A set of numbers has a least one.
LEMMA LeastTime ==
  ASSUME NEW S \in SUBSET Nat, S # {}
  PROVE  Min(S) \in S /\ \A t \in S : Min(S) <= t
<1> DEFINE R == {ss \in Nat \X Nat : ss[1] < ss[2]}
<1>1. IsWellFoundedOn(R, Nat)
  BY NatLessThanWellFounded DEF OpToRel
<1>2. PICK x \in S : \A t \in S : ~ (<<t, x>> \in R)
  <2> HIDE DEF R
  <2> QED BY <1>1, WFMin
<1>3. ASSUME NEW t \in S PROVE x <= t
  <2>1. ~(<<t, x>> \in R)
    BY <1>2
  <2>2. ~(t < x)
    BY <2>1
  <2> QED BY <2>2
<1> QED
  BY <1>3 DEF Min

\* The newest of four forecasts is past when each of them is.
LEMMA NewestOfFour ==
  ASSUME NEW a \in Int, NEW b \in Int, NEW c \in Int, NEW d \in Int, NEW t \in Int,
         a <= t, b <= t, c <= t, d <= t
  PROVE  Max({a, b, c, d}) <= t
<1>1. \E x \in {a, b, c, d} : \A y \in {a, b, c, d} : x >= y
  OBVIOUS
<1> QED
  BY <1>1 DEF Max

\* The older of two is not after the other.
LEMMA OlderOfTwo ==
  ASSUME NEW a \in Int, NEW b \in Int
  PROVE  Min({a, b}) \in Int /\ Min({a, b}) <= b
<1>1. \E x \in {a, b} : \A y \in {a, b} : x <= y
  OBVIOUS
<1> QED
  BY <1>1 DEF Min

\* What is asked for at t, from the newest on, has been published by then.
LEMMA BasesArePast ==
  ASSUME NEW t \in Nat
  PROVE  /\ \A b \in Observations(t) \cup UltraForecasts(t) \cup VillageForecasts(t) : b \in Int /\ b <= t
         /\ \A b \in CoverageForecasts(t) : b \in Int /\ b <= t /\ b + 2 <= At(Day(t), 5)
<1>1. \A b \in Observations(t) : b \in Int /\ b <= t
  BY DEF Observations, Hour
<1>2. \A b \in UltraForecasts(t) : b \in Int /\ b <= t
  BY DEF UltraForecasts
<1>3. \A b \in VillageForecasts(t) : b \in Int /\ b <= t
  BY DEF VillageForecasts, At, Day, BaseHours
<1>4. \A b \in CoverageForecasts(t) : b \in Int /\ b <= t /\ b + 2 <= At(Day(t), 5)
  BY DEF CoverageForecasts, At, Day, Hour
<1> QED
  BY <1>1, <1>2, <1>3, <1>4

\* However late its forecasts are, a snapshot is of the past and has its day from the morning on.
LEMMA SnapshotsAreWhole ==
  ASSUME NEW r, NEW t \in Nat, NEW data, data \in Snapshots(r, t)
  PROVE  data = [region |-> r, at |-> t, past |-> TRUE, whole |-> TRUE]
<1>1. PICK o \in Near(Observations(t)), u \in Near(UltraForecasts(t)),
           v \in Near(VillageForecasts(t)), c \in Near(CoverageForecasts(t)) :
        data = Snapshot(r, t, o, u, v, c)
  BY DEF Snapshots
<1>2. /\ o \in Int /\ o <= t /\ u \in Int /\ u <= t /\ v \in Int /\ v <= t
      /\ c \in Int /\ c <= t /\ c + 2 <= At(Day(t), 5)
  BY BasesArePast DEF Near
<1>3. Max({o, u, v, c}) <= t
  BY <1>2, NewestOfFour
<1>4. At(Day(t), 5) \in Int
  BY DEF At, Day
<1>5. WholeFrom(MergedFrom(v, c), t)
  <2>1. Min({v, c}) \in Int /\ Min({v, c}) <= c
    BY <1>2, OlderOfTwo
  <2>2. Min({v, c}) + 2 <= At(Day(t), 5)
    BY <1>2, <1>4, <2>1
  <2> QED
    BY <2>2 DEF WholeFrom, MergedFrom
<1>6. (Max({o, u, v, c}) <= t) = TRUE /\ WholeFrom(MergedFrom(v, c), t) = TRUE
  BY <1>3, <1>5 DEF WholeFrom
<1> QED
  BY <1>1, <1>6 DEF Snapshot

\* Weather is of a region and a time, and is no data otherwise.
LEMMA WeatherData ==
  ASSUME NEW data \in Datum
  PROVE  /\ data.past = TRUE /\ data.whole = TRUE /\ data.at \in Nat
         /\ data # NoData <=> data.region \in Region
<1>1. Times \subseteq Nat /\ "none" \notin Region
  BY WeatherAssumption
<1>2. CASE data = NoData
  BY <1>1, <1>2 DEF NoData
<1>3. CASE data # NoData
  <2>1. PICK r \in Region, t \in Times : data \in Snapshots(r, t)
    BY <1>3 DEF Datum
  <2>2. data = [region |-> r, at |-> t, past |-> TRUE, whole |-> TRUE]
    BY <1>1, <2>1, SnapshotsAreWhole
  <2> QED
    BY <1>1, <1>3, <2>2
<1> QED
  BY <1>2, <1>3

\* A snapshot that is fetched is weather of its region and its time.
LEMMA FetchedData ==
  ASSUME NEW r \in Region, NEW t \in Times, NEW data \in Snapshots(r, t)
  PROVE  data \in Datum /\ data # NoData /\ data.region = r /\ data.at = t
<1>1. data \in Datum
  BY DEF Datum
<1>2. data = [region |-> r, at |-> t, past |-> TRUE, whole |-> TRUE] /\ "none" \notin Region
  BY WeatherAssumption, SnapshotsAreWhole
<1> QED
  BY <1>1, <1>2 DEF NoData

\* No data is a datum, and no row a row without weather.
LEMMA NoWeather == NoData \in Datum /\ NoRow \in WeatherRows /\ NoData.at = 0 /\ NoRow.data = NoData
  BY DEF Datum, NoRow, NoData, WeatherRows

\* A row that answers for a user is one of the rows, or none, and it is of the target.
LEMMA ExistingFits ==
  ASSUME WeatherInv, NEW u \in Owners, NEW key \in Region, NEW custom \in BOOLEAN,
         custom \/ key = Default
  PROVE  /\ Existing(u, key, custom) \in WeatherRows
         /\ Of(key, Existing(u, key, custom).data)
         /\ Existing(u, key, custom).data.at <= clock
<1>1. clock \in Nat /\ "none" \notin Region
  BY WeatherAssumption DEF WeatherInv
<1>2. "all" \in Owners
  BY DEF Owners
<1>3. ASSUME NEW o \in Owners, Matches(kept[o], key, custom)
      PROVE  kept[o] \in WeatherRows /\ Of(key, kept[o].data) /\ kept[o].data.at <= clock
  BY <1>1, <1>3 DEF Matches, WeatherInv, RowFits
<1>4. NoRow \in WeatherRows /\ Of(key, NoRow.data) /\ NoRow.data.at <= clock
  BY <1>1, NoWeather DEF Of
<1> QED
  BY <1>2, <1>3, <1>4 DEF Existing

\* The error beside a snapshot leaves it what it was.
LEMMA ErrorRowFits ==
  ASSUME NEW key \in Region, NEW r \in WeatherRows, Of(key, r.data), NEW now, r.data.at <= now
  PROVE  RowFits(ErrorRow(key, r), now)
  BY WeatherAssumption DEF ErrorRow, RowFits, WeatherRows

\* A row is kept for an owner.
LEMMA OwnersOfRows == \A u \in Owners, custom \in BOOLEAN : StateOwner(u, custom) \in Owners
  BY DEF StateOwner, Owners

\* A process without work fits.
LEMMA NoRequestFits ==
  ASSUME NEW now \in Nat
  PROVE  RequestFits(NoRequest, now) /\ GetterFits(NoRequest) /\ JobFits(NoRequest)
<1>1. NoRequest \in Requests
  BY NoWeather DEF NoRequest, Requests, Owners
<1> QED
  BY <1>1, NoWeather DEF NoRequest, RequestFits, GetterFits, JobFits

\* What the work of a process may change: its own request, and at most one row.
LEMMA OneRequest ==
  ASSUME WeatherInv, NEW p \in Proc, NEW r, req' = [req EXCEPT ![p] = r],
         RequestFits(r, clock), p \in Getters => GetterFits(r), p = "job" => JobFits(r),
         UNCHANGED <<clock, region, choices>>, runs' \in 0 .. MaxRuns,
         \/ UNCHANGED kept
         \/ \E o \in Owners : \E w \in WeatherRows : RowFits(w, clock) /\ kept' = [kept EXCEPT ![o] = w]
  PROVE  WeatherInv'
<1>1. req' \in [Proc -> Requests] /\ \A q \in Proc : RequestFits(req'[q], clock)
  BY DEF WeatherInv, RequestFits
<1>2. (\A q \in Getters : GetterFits(req'[q])) /\ JobFits(req'["job"])
  BY DEF WeatherInv, Proc, Getters
<1>3. kept' \in [Owners -> WeatherRows] /\ \A o \in Owners : RowFits(kept'[o], clock)
  BY DEF WeatherInv
<1> QED
  BY <1>1, <1>2, <1>3 DEF WeatherInv

\* Time passes, and what is kept gets no younger.
LEMMA TickFits == ASSUME WeatherInv, Tick PROVE WeatherInv'
<1>1. clock' \in Times /\ clock' > clock
  <2>1. {x \in Times : x > clock} \in SUBSET Nat /\ {x \in Times : x > clock} # {}
    BY WeatherAssumption DEF Tick
  <2> QED
    BY <2>1, LeastTime DEF Tick
<1>0. clock \in Nat /\ clock' \in Nat
  BY <1>1, WeatherAssumption DEF WeatherInv
<1>2. ASSUME NEW data \in Datum, data.at <= clock PROVE data.at <= clock'
  <2>1. data.at \in Nat
    BY WeatherData
  <2> QED
    BY <1>0, <1>1, <1>2, <2>1
<1>3. \A o \in Owners : RowFits(kept[o], clock')
  BY <1>2 DEF WeatherInv, RowFits, WeatherRows
<1>4. ASSUME NEW p \in Proc PROVE RequestFits(req[p], clock')
  <2>1. req[p] \in Requests /\ RequestFits(req[p], clock)
    BY DEF WeatherInv
  <2>2. req[p].at <= clock'
    <3>1. req[p].at \in Nat /\ req[p].at <= clock
      <4>1. req[p].at \in Times \cup {0} /\ req[p].at <= clock
        BY <2>1 DEF RequestFits, Requests
      <4>2. \A now \in Times : now \in Nat
        BY WeatherAssumption
      <4>3. req[p].at \in Nat
        BY <4>1, <4>2
      <4> QED
        BY <4>1, <4>3
    <3> QED
      BY <1>0, <1>1, <3>1
  <2> QED
    BY <1>2, <2>1, <2>2 DEF RequestFits, Requests, WeatherRows, Findings
<1> QED
  BY <1>1, <1>3, <1>4 DEF Tick, WeatherInv

\* A process takes the region its user has now.
LEMMA ReadFits == ASSUME WeatherInv, NEW p \in Getters, NEW u \in User, Read(p, u) PROVE WeatherInv'
<1>1. /\ p \in Proc /\ p # "job" /\ u \in Owners /\ clock \in Nat
      /\ Target(u) \in Region /\ Custom(u) \in BOOLEAN /\ (Custom(u) \/ Target(u) = Default)
  BY WeatherAssumption DEF WeatherInv, Proc, Getters, Owners, Target, Custom
<1>2. req[p] \in Requests /\ RequestFits(req[p], clock) /\ GetterFits(req[p])
  BY <1>1 DEF WeatherInv
<1>3. CASE req[p].pc = "idle"
  <2> DEFINE n == [NoRequest EXCEPT
                !.pc = "look", !.user = u, !.target = Target(u), !.custom = Custom(u), !.at = clock,
                !.force = (p = "refresher"),
                !.todo = IF p = "sender" THEN User \ {u} ELSE {}]
  <2>1. req' = [req EXCEPT ![p] = n] /\ runs < MaxRuns /\ runs' = runs + 1
    BY <1>3 DEF Read
  <2>2. n \in Requests
    <3>1. n.force \in BOOLEAN
      BY DEF NoRequest
    <3> QED
      BY <1>1, <3>1, NoWeather DEF NoRequest, Requests, WeatherInv
  <2>3. RequestFits(n, clock) /\ GetterFits(n)
    BY <1>1, <2>2, NoWeather DEF NoRequest, RequestFits, GetterFits, WeatherInv
  <2>4. runs' \in 0 .. MaxRuns
    BY <2>1, WeatherAssumption DEF WeatherInv
  <2> QED
    BY <1>1, <2>1, <2>3, <2>4, OneRequest DEF Read
<1>4. CASE req[p].pc = "next"
  <2> DEFINE n == [req[p] EXCEPT
                !.pc = "look", !.user = u, !.target = Target(u), !.custom = Custom(u),
                !.todo = @ \ {u}]
  <2>1. req' = [req EXCEPT ![p] = n] /\ runs' = runs
    BY <1>4 DEF Read
  <2>2. RequestFits(n, clock) /\ GetterFits(n)
    BY <1>1, <1>2, <1>4 DEF RequestFits, GetterFits, Requests
  <2>3. runs' \in 0 .. MaxRuns
    BY <2>1 DEF WeatherInv
  <2> QED
    BY <1>1, <2>1, <2>2, <2>3, OneRequest DEF Read
<1> QED
  BY <1>3, <1>4 DEF Read

\* What it found before, or finds in the rows, is of that region.
LEMMA LookFits == ASSUME WeatherInv, NEW p \in Getters, Look(p) PROVE WeatherInv'
<1> DEFINE r == req[p]
           known == {f \in r.found : f.key = r.target}
           existing == Existing(r.user, r.target, r.custom)
<1>1. /\ p \in Proc /\ p # "job" /\ r \in Requests /\ RequestFits(r, clock) /\ GetterFits(r)
      /\ r.pc = "look" /\ r.at \in Times
      /\ r.target \in Region /\ r.user \in Owners /\ r.custom \in BOOLEAN
      /\ (r.custom \/ r.target = Default)
  BY DEF Look, WeatherInv, Proc, Getters, Owners, GetterFits, Requests
<1>2. /\ existing \in WeatherRows /\ Of(r.target, existing.data) /\ existing.data.at <= clock
  BY <1>1, ExistingFits
<1>3. existing.data \in Datum
  BY <1>2 DEF WeatherRows
<1>4. runs' \in 0 .. MaxRuns /\ UNCHANGED <<clock, region, choices, kept>>
  BY DEF Look, WeatherInv
<1>5. CASE known # {}
  <2>1. PICK f \in known : f = CHOOSE g \in known : TRUE
    BY <1>5
  <2>2. req' = [req EXCEPT ![p] = Answered(r, f.data)]
    BY <1>5, <2>1 DEF Look
  <2>3. f.data \in Datum /\ f.data.at <= clock /\ Of(r.target, f.data)
    BY <1>1 DEF RequestFits, Requests, Findings
  <2>4. RequestFits(Answered(r, f.data), clock) /\ GetterFits(Answered(r, f.data))
    BY <1>1, <2>3 DEF Answered, RequestFits, GetterFits, Requests
  <2> QED
    BY <1>1, <1>4, <2>2, <2>4, OneRequest
<1>6. CASE known = {} /\ existing # NoRow /\ ~ r.force
  <2> DEFINE n == [Answered(r, existing.data) EXCEPT !.found = Finding(r, existing.data)]
  <2>1. req' = [req EXCEPT ![p] = n]
    BY <1>6 DEF Look
  <2>2. /\ Finding(r, existing.data) \subseteq Findings
        /\ \A f \in Finding(r, existing.data) : f.data.at <= clock /\ Of(f.key, f.data)
    BY <1>1, <1>2, <1>3 DEF Finding, Findings, RequestFits, Requests
  <2>3. n = [r EXCEPT !.pc = "answer", !.data = existing.data, !.found = Finding(r, existing.data)]
    BY <1>1 DEF Answered, Requests
  <2> HIDE DEF existing, n
  <2>4. RequestFits(n, clock) /\ GetterFits(n)
    BY <1>1, <1>2, <1>3, <2>2, <2>3 DEF RequestFits, GetterFits, Requests
  <2> QED
    BY <1>1, <1>4, <2>1, <2>4, OneRequest
<1>7. CASE known = {} /\ ~ (existing # NoRow /\ ~ r.force)
  <2> DEFINE n == [r EXCEPT !.pc = "fetch", !.read = existing]
  <2>1. req' = [req EXCEPT ![p] = n]
    BY <1>7 DEF Look
  <2> HIDE DEF existing
  <2>2. RequestFits(n, clock) /\ GetterFits(n)
    BY <1>1, <1>2 DEF RequestFits, GetterFits, Requests
  <2> QED
    BY <1>1, <1>4, <2>1, <2>2, OneRequest
<1> QED
  BY <1>5, <1>6, <1>7

\* What it fetches is, and the row it keeps it in gets that key.
LEMMA FetchedFits == ASSUME WeatherInv, NEW p \in Getters, Fetched(p) PROVE WeatherInv'
<1> DEFINE r == req[p]
<1>1. /\ p \in Proc /\ p # "job" /\ r \in Requests /\ RequestFits(r, clock) /\ GetterFits(r)
      /\ r.pc = "fetch" /\ r.at \in Times /\ r.at <= clock
      /\ r.target \in Region /\ StateOwner(r.user, r.custom) \in Owners
  BY OwnersOfRows DEF Fetched, WeatherInv, Proc, Getters, RequestFits, GetterFits, Requests
<1>2. PICK data \in Snapshots(r.target, r.at) :
         /\ kept' = [kept EXCEPT ![StateOwner(r.user, r.custom)] = [key |-> r.target, data |-> data]]
         /\ req' = [req EXCEPT ![p] = [Answered(r, data) EXCEPT !.found = Finding(r, data)]]
  BY DEF Fetched
<1>3. data \in Datum /\ data # NoData /\ data.region = r.target /\ data.at = r.at
  BY <1>1, FetchedData
<1>4. [key |-> r.target, data |-> data] \in WeatherRows /\ RowFits([key |-> r.target, data |-> data], clock)
  BY <1>1, <1>3, WeatherAssumption DEF RowFits, WeatherRows, Of
<1>5. /\ Finding(r, data) \subseteq Findings
      /\ \A f \in Finding(r, data) : f.data.at <= clock /\ Of(f.key, f.data)
  BY <1>1, <1>3 DEF Finding, Findings, RequestFits, Requests, Of
<1>6. [Answered(r, data) EXCEPT !.found = Finding(r, data)]
        = [r EXCEPT !.pc = "answer", !.data = data, !.found = Finding(r, data)]
  BY <1>1 DEF Answered, Requests
<1>7. /\ RequestFits([r EXCEPT !.pc = "answer", !.data = data, !.found = Finding(r, data)], clock)
      /\ GetterFits([r EXCEPT !.pc = "answer", !.data = data, !.found = Finding(r, data)])
  BY <1>1, <1>3, <1>5 DEF RequestFits, GetterFits, Requests, Of
<1>8. runs' \in 0 .. MaxRuns /\ UNCHANGED <<clock, region, choices>>
  BY DEF Fetched, WeatherInv
<1> QED
  BY <1>1, <1>2, <1>4, <1>6, <1>7, <1>8, OneRequest

\* Without an answer of the service what was read before serves.
LEMMA FetchFailsFits == ASSUME WeatherInv, NEW p \in Getters, FetchFails(p) PROVE WeatherInv'
<1> DEFINE r == req[p]
           data == r.read.data
<1>1. /\ p \in Proc /\ p # "job" /\ r \in Requests /\ RequestFits(r, clock) /\ GetterFits(r)
      /\ r.pc = "fetch" /\ r.at \in Times
      /\ r.target \in Region /\ StateOwner(r.user, r.custom) \in Owners
      /\ r.read \in WeatherRows /\ Of(r.target, r.read.data) /\ r.read.data.at <= clock
  BY OwnersOfRows DEF FetchFails, WeatherInv, Proc, Getters, RequestFits, GetterFits, Requests
<1>2. data \in Datum
  BY <1>1 DEF WeatherRows
<1>3. RowFits(ErrorRow(r.target, r.read), clock) /\ ErrorRow(r.target, r.read) \in WeatherRows
  <2>1. RowFits(ErrorRow(r.target, r.read), clock)
    BY <1>1, ErrorRowFits
  <2> QED
    BY <2>1 DEF RowFits
<1>4. /\ Finding(r, data) \subseteq Findings
      /\ \A f \in Finding(r, data) : f.data.at <= clock /\ Of(f.key, f.data)
  BY <1>1, <1>2 DEF Finding, Findings, RequestFits, Requests
<1>5. [Answered(r, data) EXCEPT !.found = Finding(r, data)]
        = [r EXCEPT !.pc = "answer", !.data = data, !.found = Finding(r, data)]
  BY <1>1 DEF Answered, Requests
<1>6. req' = [req EXCEPT ![p] = [Answered(r, data) EXCEPT !.found = Finding(r, data)]]
  BY DEF FetchFails
<1> DEFINE n == [r EXCEPT !.pc = "answer", !.data = data, !.found = Finding(r, data)]
<1>7. RequestFits(n, clock) /\ GetterFits(n)
  BY <1>1, <1>2, <1>4 DEF RequestFits, GetterFits, Requests
<1>8. runs' \in 0 .. MaxRuns /\ UNCHANGED <<clock, region, choices>>
  BY DEF FetchFails, WeatherInv
<1>9. \/ UNCHANGED kept
      \/ kept' = [kept EXCEPT ![StateOwner(r.user, r.custom)] = ErrorRow(r.target, r.read)]
  BY DEF FetchFails
<1> HIDE DEF n, r
<1> QED
  BY <1>1, <1>3, <1>5, <1>6, <1>7, <1>8, <1>9, OneRequest DEF n

\* The message is sent.
LEMMA SendFits == ASSUME WeatherInv, NEW p \in Getters, Send(p) PROVE WeatherInv'
<1>1. /\ p \in Proc /\ p # "job" /\ req[p] \in Requests /\ RequestFits(req[p], clock)
      /\ GetterFits(req[p]) /\ req[p].pc = "answer" /\ clock \in Nat
  BY WeatherAssumption DEF Send, WeatherInv, Proc, Getters
<1>2. runs' \in 0 .. MaxRuns /\ UNCHANGED <<clock, region, choices, kept>>
  BY DEF Send, WeatherInv
<1>3. CASE req[p].todo # {}
  <2>1. req' = [req EXCEPT ![p] = [req[p] EXCEPT !.pc = "next"]]
    BY <1>1, <1>3 DEF Send, WeatherInv
  <2>2. RequestFits([req[p] EXCEPT !.pc = "next"], clock) /\ GetterFits([req[p] EXCEPT !.pc = "next"])
    BY <1>1 DEF RequestFits, GetterFits, Requests
  <2> QED
    BY <1>1, <1>2, <2>1, <2>2, OneRequest
<1>4. CASE req[p].todo = {}
  <2>1. req' = [req EXCEPT ![p] = NoRequest]
    BY <1>4 DEF Send
  <2> QED
    BY <1>1, <1>2, <2>1, NoRequestFits, OneRequest
<1> QED
  BY <1>3, <1>4

\* The job fetches the weather of the default, or takes what there was of it.
LEMMA JobFetchFits == ASSUME WeatherInv, JobFetch PROVE WeatherInv'
<1>1. "job" \in Proc /\ "job" \notin Getters /\ clock \in Nat /\ clock \in Times /\ Default \in Region
  BY WeatherAssumption DEF WeatherInv, Proc, Getters
<1>2. runs' \in 0 .. MaxRuns /\ UNCHANGED <<clock, region, choices, kept>>
  <2>1. runs < MaxRuns /\ runs' = runs + 1 /\ UNCHANGED <<clock, region, choices, kept>>
    BY DEF JobFetch
  <2> QED
    BY <2>1, WeatherAssumption DEF WeatherInv
<1>3. ASSUME NEW data \in Snapshots(Default, clock),
             req' = [req EXCEPT !["job"] = [NoRequest EXCEPT !.pc = "default", !.target = Default, !.data = data,
                                              !.found = {[key |-> Default, data |-> data]}]]
      PROVE  WeatherInv'
  <2>1. data \in Datum /\ data # NoData /\ data.region = Default /\ data.at = clock
    BY <1>1, FetchedData
  <2> DEFINE n == [NoRequest EXCEPT !.pc = "default", !.target = Default, !.data = data,
                                    !.found = {[key |-> Default, data |-> data]}]
  <2>2. n \in Requests
    <3>1. {[key |-> Default, data |-> data]} \subseteq Findings
      BY <1>1, <2>1 DEF Findings
    <3>2. NoRequest \in Requests
      BY NoRequestFits, <1>1 DEF RequestFits
    <3> QED
      BY <1>1, <2>1, <3>1, <3>2 DEF Requests
  <2>3. RequestFits(n, clock) /\ JobFits(n)
    BY <1>1, <2>1, <2>2, NoWeather DEF NoRequest, RequestFits, JobFits, Of
  <2> HIDE DEF n
  <2> QED
    BY <1>1, <1>2, <1>3, <2>3, OneRequest DEF n
<1>4. ASSUME req' = [req EXCEPT !["job"] = [NoRequest EXCEPT !.pc = "default", !.target = Default, !.failed = TRUE,
                                          !.read = Existing("all", Default, FALSE)]]
      PROVE  WeatherInv'
  <2> DEFINE e == Existing("all", Default, FALSE)
             n == [NoRequest EXCEPT !.pc = "default", !.target = Default, !.failed = TRUE, !.read = e]
  <2>1. e \in WeatherRows /\ Of(Default, e.data) /\ e.data.at <= clock
    BY <1>1, ExistingFits DEF Owners
  <2> HIDE DEF e
  <2>2. n \in Requests
    BY <1>1, <2>1, NoWeather DEF NoRequest, Requests, Owners
  <2>3. RequestFits(n, clock) /\ JobFits(n)
    BY <1>1, <2>1, <2>2, NoWeather DEF NoRequest, RequestFits, JobFits
  <2>4. req' = [req EXCEPT !["job"] = n]
    BY <1>4 DEF e
  <2> HIDE DEF n
  <2> QED
    BY <1>1, <1>2, <2>3, <2>4, OneRequest
<1> QED
  BY <1>3, <1>4 DEF JobFetch

\* It writes the row of the default.
LEMMA JobWriteDefaultFits == ASSUME WeatherInv, JobWriteDefault PROVE WeatherInv'
<1> DEFINE r == req["job"]
<1>1. /\ "job" \in Proc /\ "job" \notin Getters /\ clock \in Nat /\ "all" \in Owners
      /\ r \in Requests /\ RequestFits(r, clock) /\ JobFits(r) /\ r.pc = "default"
      /\ r.target = Default /\ Default \in Region
  BY WeatherAssumption DEF JobWriteDefault, WeatherInv, Proc, Getters, Owners, JobFits
<1>2. runs' \in 0 .. MaxRuns /\ UNCHANGED <<clock, region, choices>>
  BY DEF JobWriteDefault, WeatherInv
<1>3. CASE r.failed
  <2>1. /\ kept' = [kept EXCEPT !["all"] = ErrorRow(Default, r.read)]
        /\ req' = [req EXCEPT !["job"] = NoRequest]
    BY <1>3 DEF JobWriteDefault
  <2>2. RowFits(ErrorRow(Default, r.read), clock) /\ ErrorRow(Default, r.read) \in WeatherRows
    <3>1. r.read \in WeatherRows /\ Of(Default, r.read.data) /\ r.read.data.at <= clock
      BY <1>1 DEF RequestFits, JobFits, Requests
    <3>2. RowFits(ErrorRow(Default, r.read), clock)
      BY <1>1, <3>1, ErrorRowFits
    <3> QED
      BY <3>2 DEF RowFits
  <2> QED
    BY <1>1, <1>2, <2>1, <2>2, NoRequestFits, OneRequest
<1>4. CASE ~ r.failed
  <2> DEFINE w == [key |-> Default, data |-> r.data]
             n == [r EXCEPT !.pc = "list"]
  <2>1. kept' = [kept EXCEPT !["all"] = w] /\ req' = [req EXCEPT !["job"] = n]
    BY <1>4 DEF JobWriteDefault
  <2>2. RowFits(w, clock) /\ w \in WeatherRows
    BY <1>1, <1>4, WeatherAssumption DEF RowFits, WeatherRows, RequestFits, JobFits, Requests, Of
  <2>3. RequestFits(n, clock) /\ JobFits(n)
    BY <1>1 DEF RequestFits, JobFits, Requests
  <2> HIDE DEF w, n
  <2> QED
    BY <1>1, <1>2, <2>1, <2>2, <2>3, OneRequest
<1> QED
  BY <1>3, <1>4

\* What the job does with its request alone.
LEMMA JobRequestFits ==
  ASSUME WeatherInv, NEW n, req' = [req EXCEPT !["job"] = n], RequestFits(n, clock), JobFits(n),
         UNCHANGED <<clock, region, kept, choices, runs>>
  PROVE  WeatherInv'
<1>1. "job" \in Proc /\ "job" \notin Getters /\ runs' \in 0 .. MaxRuns
  BY DEF Proc, Getters, WeatherInv
<1> QED
  BY <1>1, OneRequest

\* The users with a region of their own are to be served.
LEMMA JobListFits == ASSUME WeatherInv, JobList PROVE WeatherInv'
<1> DEFINE r == req["job"]
           own == {[user |-> u, key |-> region[u]] : u \in {x \in User : Custom(x)}}
           n == [r EXCEPT !.pc = "targets", !.todo = own]
<1>1. r \in Requests /\ RequestFits(r, clock) /\ JobFits(r)
  BY DEF WeatherInv, Proc
<1>2. own \subseteq Entries
  <2>1. ASSUME NEW u \in User, Custom(u) PROVE region[u] \in Region
    BY <2>1, WeatherAssumption DEF WeatherInv, Custom
  <2> QED
    BY <2>1 DEF Entries
<1>3. req' = [req EXCEPT !["job"] = n] /\ UNCHANGED <<clock, region, kept, choices, runs>>
  BY DEF JobList
<1> HIDE DEF own
<1>4. RequestFits(n, clock) /\ JobFits(n)
  BY <1>1, <1>2 DEF RequestFits, JobFits, Requests
<1> HIDE DEF n
<1> QED
  BY <1>3, <1>4, JobRequestFits

\* The job turns to one of their regions and finds its weather, fetches it, or does not get it.
LEMMA JobTargetFits == ASSUME WeatherInv, JobTarget PROVE WeatherInv'
<1> DEFINE r == req["job"]
<1>1. /\ r \in Requests /\ RequestFits(r, clock) /\ JobFits(r) /\ r.pc = "targets"
      /\ clock \in Times /\ clock \in Nat
  BY WeatherAssumption DEF JobTarget, WeatherInv, Proc
<1>2. PICK k \in {x.key : x \in r.todo} :
               \/ /\ \E f \in r.found :
                         /\ f.key = k
                         /\ req' = [req EXCEPT !["job"] =
                               [r EXCEPT !.pc = "owners", !.target = k, !.data = f.data, !.failed = FALSE]]
               \/ /\ ~ \E f \in r.found : f.key = k
                  /\ \/ \E data \in Snapshots(k, clock) :
                           req' = [req EXCEPT !["job"] = [r EXCEPT !.pc = "owners", !.target = k, !.data = data,
                              !.failed = FALSE, !.found = @ \cup {[key |-> k, data |-> data]}]]
                     \/ req' = [req EXCEPT !["job"] = [r EXCEPT !.pc = "owners", !.target = k, !.failed = TRUE]]
  BY DEF JobTarget
<1>3. k \in Region
  BY <1>1 DEF JobFits, Entries
<1>4. UNCHANGED <<clock, region, kept, choices, runs>>
  BY DEF JobTarget
<1>5. ASSUME NEW f \in r.found, f.key = k,
             req' = [req EXCEPT !["job"] =
                        [r EXCEPT !.pc = "owners", !.target = k, !.data = f.data, !.failed = FALSE]]
      PROVE  WeatherInv'
  <2> DEFINE n == [r EXCEPT !.pc = "owners", !.target = k, !.data = f.data, !.failed = FALSE]
  <2>1. f.data \in Datum /\ f.data.at <= clock /\ Of(k, f.data) /\ f.data # NoData
    BY <1>1, <1>5 DEF RequestFits, JobFits, Requests, Findings
  <2>2. RequestFits(n, clock) /\ JobFits(n)
    BY <1>1, <1>3, <2>1 DEF RequestFits, JobFits, Requests
  <2> HIDE DEF n
  <2> QED
    BY <1>4, <1>5, <2>2, JobRequestFits DEF n
<1>6. ASSUME NEW data \in Snapshots(k, clock),
             req' = [req EXCEPT !["job"] = [r EXCEPT !.pc = "owners", !.target = k, !.data = data,
                              !.failed = FALSE, !.found = @ \cup {[key |-> k, data |-> data]}]]
      PROVE  WeatherInv'
  <2> DEFINE found == r.found \cup {[key |-> k, data |-> data]}
             n == [r EXCEPT !.pc = "owners", !.target = k, !.data = data, !.failed = FALSE, !.found = found]
  <2>1. data \in Datum /\ data # NoData /\ data.region = k /\ data.at = clock
    BY <1>1, <1>3, FetchedData
  <2>2. /\ found \subseteq Findings
        /\ \A f \in found : f.data.at <= clock /\ Of(f.key, f.data) /\ f.data # NoData
    BY <1>1, <1>3, <2>1 DEF RequestFits, JobFits, Requests, Findings, Of
  <2>3. n = [r EXCEPT !.pc = "owners", !.target = k, !.data = data,
                      !.failed = FALSE, !.found = @ \cup {[key |-> k, data |-> data]}]
    BY <1>1 DEF Requests
  <2> HIDE DEF found
  <2>4. n \in Requests
    BY <1>1, <1>3, <2>1, <2>2 DEF Requests
  <2>5. RequestFits(n, clock) /\ JobFits(n)
    BY <1>1, <1>3, <2>1, <2>2, <2>4 DEF RequestFits, JobFits, Requests, Of
  <2> HIDE DEF n
  <2> QED
    BY <1>4, <1>6, <2>3, <2>5, JobRequestFits
<1>7. ASSUME req' = [req EXCEPT !["job"] = [r EXCEPT !.pc = "owners", !.target = k, !.failed = TRUE]]
      PROVE  WeatherInv'
  <2> DEFINE n == [r EXCEPT !.pc = "owners", !.target = k, !.failed = TRUE]
  <2>1. RequestFits(n, clock) /\ JobFits(n)
    BY <1>1, <1>3 DEF RequestFits, JobFits, Requests
  <2> HIDE DEF n
  <2> QED
    BY <1>4, <1>7, <2>1, JobRequestFits DEF n
<1> QED
  BY <1>2, <1>5, <1>6, <1>7

\* An owner is one of the users to be served.
LEMMA JobOwnersAreEntries ==
  ASSUME WeatherInv, NEW x \in JobOwners
  PROVE  x \in Entries /\ x.user \in User /\ x.user \in Owners /\ x.key = req["job"].target
<1>1. JobFits(req["job"])
  BY DEF WeatherInv
<1> QED
  BY <1>1 DEF JobOwners, JobFits, Entries, Owners

\* The weather of the region is written to one of its users.
LEMMA JobWriteFits == ASSUME WeatherInv, JobWrite PROVE WeatherInv'
<1> DEFINE r == req["job"]
<1>1. /\ "job" \in Proc /\ "job" \notin Getters
      /\ r \in Requests /\ RequestFits(r, clock) /\ JobFits(r) /\ r.pc = "owners" /\ ~ r.failed
  BY DEF JobWrite, WeatherInv, Proc, Getters
<1>2. PICK x \in JobOwners :
         /\ kept' = [kept EXCEPT ![x.user] = [key |-> r.target, data |-> r.data]]
         /\ req' = [req EXCEPT !["job"].todo = @ \ {x}]
  BY DEF JobWrite
<1> DEFINE w == [key |-> r.target, data |-> r.data]
           n == [r EXCEPT !.todo = @ \ {x}]
<1>3. req' = [req EXCEPT !["job"] = n]
  BY <1>1, <1>2 DEF WeatherInv
<1>4. x.user \in Owners
  BY JobOwnersAreEntries
<1>5. RowFits(w, clock) /\ w \in WeatherRows
  BY <1>1, WeatherAssumption DEF RowFits, WeatherRows, RequestFits, JobFits, Requests, Of
<1>6. RequestFits(n, clock) /\ JobFits(n)
  BY <1>1 DEF RequestFits, JobFits, Requests
<1>7. runs' \in 0 .. MaxRuns /\ UNCHANGED <<clock, region, choices>>
  BY DEF JobWrite, WeatherInv
<1>8. kept' = [kept EXCEPT ![x.user] = w]
  BY <1>2
<1> HIDE DEF w, n
<1> QED
  BY <1>1, <1>3, <1>4, <1>5, <1>6, <1>7, <1>8, OneRequest

\* Without it, the row of the user is read before the error is added.
LEMMA JobReadBeforeFits == ASSUME WeatherInv, JobReadBefore PROVE WeatherInv'
<1> DEFINE r == req["job"]
<1>1. r \in Requests /\ RequestFits(r, clock) /\ JobFits(r) /\ r.pc = "owners" /\ r.failed /\ r.target \in Region
  BY DEF JobReadBefore, WeatherInv, Proc, JobFits
<1>2. PICK x \in JobOwners :
         req' = [req EXCEPT !["job"] = [r EXCEPT !.pc = "error", !.user = x.user,
                                                 !.read = Existing(x.user, r.target, TRUE)]]
  BY DEF JobReadBefore
<1> DEFINE e == Existing(x.user, r.target, TRUE)
           n == [r EXCEPT !.pc = "error", !.user = x.user, !.read = e]
<1>3. x.user \in User /\ x.user \in Owners
  BY JobOwnersAreEntries
<1>4. e \in WeatherRows /\ Of(r.target, e.data) /\ e.data.at <= clock
  BY <1>1, <1>3, ExistingFits
<1>5. req' = [req EXCEPT !["job"] = n] /\ UNCHANGED <<clock, region, kept, choices, runs>>
  BY <1>2 DEF JobReadBefore
<1> HIDE DEF e
<1>6. RequestFits(n, clock) /\ JobFits(n)
  BY <1>1, <1>3, <1>4 DEF RequestFits, JobFits, Requests
<1> HIDE DEF n
<1> QED
  BY <1>5, <1>6, JobRequestFits

\* The error is added to what was read.
LEMMA JobWriteErrorFits == ASSUME WeatherInv, JobWriteError PROVE WeatherInv'
<1> DEFINE r == req["job"]
           n == [r EXCEPT !.pc = "owners", !.todo = {x \in @ : x.user # r.user}]
<1>1. /\ "job" \in Proc /\ "job" \notin Getters
      /\ r \in Requests /\ RequestFits(r, clock) /\ JobFits(r) /\ r.pc = "error" /\ r.target \in Region
      /\ r.user \in Owners
  BY DEF JobWriteError, WeatherInv, Proc, Getters, JobFits, Owners
<1>2. RowFits(ErrorRow(r.target, r.read), clock) /\ ErrorRow(r.target, r.read) \in WeatherRows
  <2>1. r.read \in WeatherRows /\ Of(r.target, r.read.data) /\ r.read.data.at <= clock
    BY <1>1 DEF RequestFits, JobFits, Requests
  <2>2. RowFits(ErrorRow(r.target, r.read), clock)
    BY <1>1, <2>1, ErrorRowFits
  <2> QED
    BY <2>2 DEF RowFits
<1>3. /\ kept' = [kept EXCEPT ![r.user] = ErrorRow(r.target, r.read)]
      /\ req' = [req EXCEPT !["job"] = n]
  BY DEF JobWriteError
<1>4. RequestFits(n, clock) /\ JobFits(n)
  BY <1>1 DEF RequestFits, JobFits, Requests
<1>5. runs' \in 0 .. MaxRuns /\ UNCHANGED <<clock, region, choices>>
  BY DEF JobWriteError, WeatherInv
<1> HIDE DEF n, r
<1> QED
  BY <1>1, <1>2, <1>3, <1>4, <1>5, OneRequest

\* The job goes on to the next region, or is done.
LEMMA JobNextFits == ASSUME WeatherInv, JobNext PROVE WeatherInv'
<1> DEFINE r == req["job"]
<1>1. r \in Requests /\ RequestFits(r, clock) /\ JobFits(r) /\ clock \in Nat
  BY WeatherAssumption DEF WeatherInv, Proc
<1>2. UNCHANGED <<clock, region, kept, choices, runs>>
  BY DEF JobNext
<1>3. CASE r.todo = {}
  <2>1. req' = [req EXCEPT !["job"] = NoRequest]
    BY <1>3 DEF JobNext
  <2> QED
    BY <1>1, <1>2, <2>1, NoRequestFits, JobRequestFits
<1>4. CASE r.todo # {}
  <2>1. req' = [req EXCEPT !["job"] = [r EXCEPT !.pc = "targets"]]
    BY <1>4 DEF JobNext
  <2>2. RequestFits([r EXCEPT !.pc = "targets"], clock) /\ JobFits([r EXCEPT !.pc = "targets"])
    BY <1>1 DEF RequestFits, JobFits, Requests
  <2> QED
    BY <1>2, <2>1, <2>2, JobRequestFits
<1> QED
  BY <1>3, <1>4

\* A choice of a region changes nothing that is kept or held.
LEMMA ChooseRegionFits ==
  ASSUME WeatherInv, NEW u \in User, NEW r \in Places \cup {"none"}, ChooseRegion(u, r)
  PROVE  WeatherInv'
<1>1. region' \in [User -> Places \cup {"none"}] /\ choices' \in 0 .. MaxChoices
  BY WeatherAssumption DEF ChooseRegion, WeatherInv
<1> QED
  BY <1>1 DEF ChooseRegion, WeatherInv

\* Everything fits at first, the row of an older version too.
LEMMA WeatherInitially == WeatherInit => WeatherInv
<1> SUFFICES ASSUME WeatherInit PROVE WeatherInv
  OBVIOUS
<1>1. clock \in Times /\ clock \in Nat /\ clock = Earliest
  <2>1. Times \in SUBSET Nat /\ Times # {}
    BY WeatherAssumption
  <2>2. Earliest \in Times
    BY <2>1, LeastTime DEF Earliest
  <2> QED
    BY <2>1, <2>2 DEF WeatherInit
<1>2. PICK old \in {NoData} \cup Snapshots(Default, Earliest) :
           kept = [o \in Owners |-> IF o = "all" THEN [key |-> "none", data |-> old] ELSE NoRow]
  BY DEF WeatherInit
<1>3. old \in Datum /\ old.at <= clock /\ Of(Default, old)
  <2>1. CASE old = NoData
    BY <1>1, <2>1, NoWeather DEF Of
  <2>2. CASE old \in Snapshots(Default, Earliest)
    BY <1>1, <2>2, WeatherAssumption, FetchedData DEF Of
  <2> QED
    BY <2>1, <2>2
<1>4. kept \in [Owners -> WeatherRows] /\ \A o \in Owners : RowFits(kept[o], clock)
  <2>1. RowFits([key |-> "none", data |-> old], clock) /\ [key |-> "none", data |-> old] \in WeatherRows
    BY <1>3 DEF RowFits, WeatherRows
  <2>2. RowFits(NoRow, clock) /\ NoRow \in WeatherRows
    BY <1>1, NoWeather DEF RowFits, Of
  <2> QED
    BY <1>2, <2>1, <2>2
<1>5. RequestFits(NoRequest, clock) /\ GetterFits(NoRequest) /\ JobFits(NoRequest)
  BY <1>1, NoRequestFits
<1>6. req = [p \in Proc |-> NoRequest] /\ "job" \in Proc /\ Getters \subseteq Proc /\ NoRequest \in Requests
  BY <1>5 DEF WeatherInit, Proc, RequestFits
<1>7. region \in [User -> Places \cup {"none"}] /\ choices \in 0 .. MaxChoices /\ runs \in 0 .. MaxRuns
  BY WeatherAssumption DEF WeatherInit
<1> QED
  BY <1>1, <1>4, <1>5, <1>6, <1>7 DEF WeatherInv

\* Everything fits after every step.
LEMMA WeatherStep == WeatherInv /\ [WeatherNext]_weatherVars => WeatherInv'
<1> SUFFICES ASSUME WeatherInv, [WeatherNext]_weatherVars PROVE WeatherInv'
  OBVIOUS
<1>1. CASE WeatherNext
  BY <1>1, TickFits, ChooseRegionFits, ReadFits, LookFits, FetchedFits, FetchFailsFits, SendFits,
     JobFetchFits, JobWriteDefaultFits, JobListFits, JobTargetFits, JobWriteFits, JobReadBeforeFits,
     JobWriteErrorFits, JobNextFits
  DEF WeatherNext, WeatherJob
<1>2. CASE UNCHANGED weatherVars
  BY <1>2 DEF WeatherInv, weatherVars
<1> QED
  BY <1>1, <1>2

\* Rows, regions and requests keep their types, for any users, regions, times and runs, and no
\* snapshot is of its future.
THEOREM WeatherTypeCorrect == WeatherSpec => []WeatherTypeOK
<1>1. WeatherInv => WeatherTypeOK
  <2> SUFFICES ASSUME WeatherInv PROVE WeatherTypeOK
    OBVIOUS
  <2>1. \A o \in Owners : /\ kept[o].key \in Region \cup {"none"} /\ kept[o].data \in Datum
                          /\ kept[o].data.past /\ kept[o].data.at <= clock
    BY WeatherData DEF WeatherInv, RowFits, WeatherRows
  <2>2. \A p \in Proc :
           /\ req[p].pc \in {"idle", "look", "fetch", "answer", "next", "default", "list", "targets", "owners", "error"}
           /\ req[p].data \in Datum
    BY DEF WeatherInv, Requests
  <2> QED
    BY <2>1, <2>2 DEF WeatherInv, WeatherTypeOK
<1> QED
  BY <1>1, WeatherInitially, WeatherStep, PTL DEF WeatherSpec

\* Weather that is shown is that of the region its reader had when he asked, whoever writes the
\* rows and whatever fails, for any number of regions and runs.
THEOREM ShownRegionIsRight == WeatherSpec => []RightRegion
<1>1. WeatherInv => \A p \in Getters :
                      req[p].pc = "answer" /\ req[p].data # NoData => req[p].data.region = req[p].target
  BY DEF WeatherInv, GetterFits, Of
<1> QED
  BY <1>1, WeatherInitially, WeatherStep, WeatherTypeCorrect, PTL DEF WeatherSpec, RightRegion

\* Days are counted on with the clock.
LEMMA DaysGoOn == ASSUME NEW s \in Nat, NEW t \in Nat, s <= t PROVE Day(s) <= Day(t) /\ Day(s) \in Int /\ Day(t) \in Int
  BY DEF Day

\* At whatever half hours the forecasts are asked for and however late they are, a message has its
\* day from the morning on, and its weather of today is that of its day for two days.
THEOREM DaysAreCovered == WeatherSpec => []DayCovered
<1>1. WeatherInv => DayCovered
  <2> SUFFICES ASSUME WeatherInv, NEW p \in Getters, req[p].pc = "answer", req[p].data # NoData
               PROVE  /\ req[p].data.whole
                      /\ Day(clock) <= Day(req[p].data.at) + 1 => TodayOf(req[p].data, clock) = Day(clock)
                      /\ Day(clock) = Day(req[p].data.at) => TomorrowOf(req[p].data, clock) = Day(clock) + 1
    BY DEF DayCovered
  <2>1. req[p].data \in Datum /\ req[p].data.at <= clock /\ clock \in Nat
    BY WeatherAssumption DEF WeatherInv, RequestFits, Requests, Proc
  <2>2. req[p].data.whole = TRUE /\ req[p].data.at \in Nat
    BY <2>1, WeatherData
  <2>3. /\ Day(req[p].data.at) <= Day(clock) /\ Day(req[p].data.at) \in Int /\ Day(clock) \in Int
    BY <2>1, <2>2, DaysGoOn
  <2> QED
    BY <2>2, <2>3 DEF TodayOf, TomorrowOf
<1> QED
  BY <1>1, WeatherInitially, WeatherStep, PTL DEF WeatherSpec

\* A row of a user that is not the instance's is kept for the user.
LEMMA OwnRow ==
  ASSUME NEW u \in User, NEW o \in Owners, NEW custom \in BOOLEAN, StateOwner(o, custom) = u
  PROVE  o = u
  BY WeatherAssumption DEF StateOwner, Owners

\* What a step that loses the weather of a region takes to lose it.
LEMMA LostOnlyInRaceStep ==
  ASSUME WeatherInv, WeatherNext, NEW u \in User, Served(u), region'[u] = region[u], ~ Served(u)'
  PROVE  \E p \in Proc :
            /\ req[p].pc \in {"fetch", "owners", "error"} /\ req'[p] # req[p]
            /\ \/ req[p].target # region[u]
               \/ req[p].pc # "owners" /\ req[p].read # kept[u]
<1>1. /\ region[u] \in Region /\ u \in Owners /\ u # "all" /\ "none" \notin Region
      /\ kept[u].key = region[u] /\ kept[u].data # NoData /\ kept[u] \in WeatherRows
  BY WeatherAssumption DEF Served, Matches, Custom, WeatherInv, Owners
<1>2. ~ (kept'[u].key = region[u] /\ kept'[u].data # NoData)
  BY <1>1 DEF Served, Matches, Custom
<1>3. kept'[u] # kept[u]
  BY <1>1, <1>2
<1>4. ASSUME NEW p \in Getters, Fetched(p)
      PROVE  req[p].pc = "fetch" /\ req'[p] # req[p] /\ req[p].target # region[u] /\ p \in Proc
  <2>1. /\ req[p].pc = "fetch" /\ p \in Proc /\ req[p].target \in Region /\ req[p].at \in Times
    BY <1>4 DEF Fetched, WeatherInv, GetterFits, Proc
  <2>2. PICK data \in Snapshots(req[p].target, req[p].at) :
           kept' = [kept EXCEPT ![StateOwner(req[p].user, req[p].custom)] = [key |-> req[p].target, data |-> data]]
    BY <1>4 DEF Fetched
  <2>3. data # NoData
    BY <2>1, FetchedData
  <2>4. kept'[u] = [key |-> req[p].target, data |-> data]
    BY <1>1, <1>3, <2>2 DEF WeatherInv
  <2>5. req'[p] # req[p]
    <3>1. req'[p].pc = "answer"
      BY <1>4, <2>1 DEF Fetched, Answered, WeatherInv, Requests
    <3> QED
      BY <2>1, <3>1
  <2> QED
    BY <1>2, <2>1, <2>3, <2>4, <2>5
<1>5. ASSUME NEW p \in Getters, FetchFails(p)
      PROVE  /\ req[p].pc = "fetch" /\ req'[p] # req[p] /\ p \in Proc
             /\ req[p].target # region[u] \/ req[p].read # kept[u]
  <2>1. req[p].pc = "fetch" /\ p \in Proc
    BY <1>5 DEF FetchFails, Proc
  <2>2. kept' = [kept EXCEPT ![StateOwner(req[p].user, req[p].custom)] = ErrorRow(req[p].target, req[p].read)]
    BY <1>3, <1>5 DEF FetchFails
  <2>3. kept'[u] = [key |-> req[p].target, data |-> req[p].read.data]
    BY <1>1, <1>3, <2>2 DEF WeatherInv, ErrorRow
  <2>4. req'[p] # req[p]
    <3>1. req'[p].pc = "answer"
      BY <1>5, <2>1 DEF FetchFails, Answered, WeatherInv, Requests
    <3> QED
      BY <2>1, <3>1
  <2> QED
    BY <1>1, <1>2, <2>1, <2>3, <2>4
<1>6. ~ JobWriteDefault
  BY <1>1, <1>3 DEF JobWriteDefault, WeatherInv
<1>7. ASSUME JobWrite
      PROVE  req["job"].pc = "owners" /\ req'["job"] # req["job"] /\ req["job"].target # region[u]
  <2>1. req["job"].pc = "owners" /\ req["job"].data # NoData
    BY <1>7 DEF JobWrite, WeatherInv, JobFits
  <2>2. PICK x \in JobOwners :
           /\ kept' = [kept EXCEPT ![x.user] = [key |-> req["job"].target, data |-> req["job"].data]]
           /\ req' = [req EXCEPT !["job"].todo = @ \ {x}]
    BY <1>7 DEF JobWrite
  <2>4. req'["job"] # req["job"]
    <3>1. req'["job"].todo = req["job"].todo \ {x} /\ x \in req["job"].todo
      BY <2>2 DEF WeatherInv, Requests, Proc, JobOwners
    <3> QED
      BY <3>1
  <2>3. kept'[u] = [key |-> req["job"].target, data |-> req["job"].data]
    BY <1>1, <1>3, <2>2 DEF WeatherInv
  <2> QED
    BY <1>2, <2>1, <2>3, <2>4
<1>8. ASSUME JobWriteError
      PROVE  /\ req["job"].pc = "error" /\ req'["job"] # req["job"]
             /\ req["job"].target # region[u] \/ req["job"].read # kept[u]
  <2>1. /\ req["job"].pc = "error"
        /\ kept' = [kept EXCEPT ![req["job"].user] = ErrorRow(req["job"].target, req["job"].read)]
    BY <1>8 DEF JobWriteError
  <2>2. kept'[u] = [key |-> req["job"].target, data |-> req["job"].read.data]
    BY <1>1, <1>3, <2>1 DEF WeatherInv, ErrorRow
  <2>3. req'["job"] # req["job"]
    <3>1. req'["job"].pc = "owners"
      BY <1>8 DEF JobWriteError, WeatherInv, Requests, Proc
    <3> QED
      BY <2>1, <3>1
  <2> QED
    BY <1>1, <1>2, <2>1, <2>2, <2>3
<1>9. "job" \in Proc
  BY DEF Proc
<1> QED
  BY <1>3, <1>4, <1>5, <1>6, <1>7, <1>8, <1>9
  DEF WeatherNext, WeatherJob, Tick, ChooseRegion, Read, Look, Send, JobFetch, JobList, JobTarget,
      JobReadBefore, JobNext

\* The weather of the region a user has chosen, once it was fetched, is lost only to a writer that
\* began with another region or whose fetch failed after another process wrote the row, for any
\* number of users, regions and runs.
THEOREM WeatherIsLostOnlyInRace == WeatherSpec => LostOnlyInRace
<1>1. WeatherInv /\ [WeatherNext]_weatherVars =>
        [\A u \in User :
          Served(u) /\ region'[u] = region[u] /\ ~ Served(u)' =>
              \E p \in Proc :
                  /\ req[p].pc \in {"fetch", "owners", "error"} /\ req'[p] # req[p]
                  /\ \/ req[p].target # region[u]
                     \/ req[p].pc # "owners" /\ req[p].read # kept[u]]_weatherVars
  BY LostOnlyInRaceStep
<1> QED
  BY <1>1, WeatherInitially, WeatherStep, PTL DEF WeatherSpec, LostOnlyInRace

=============================================================================
