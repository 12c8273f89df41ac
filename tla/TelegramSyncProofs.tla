------------------------- MODULE TelegramSyncProofs -------------------------
(***************************************************************************)
(* Proofs about TelegramSync, for every number of updates, reminders,      *)
(* limits and faults: the types, and the four safety properties, each from *)
(* an inductive invariant that says what the step at hand still owes.      *)
(***************************************************************************)
EXTENDS TelegramSync, FiniteSetTheorems, TLAPS

USE ConstantsAssumption

\* a LIMIT query returns rows of its table only
LEMMA FirstOfSubset ==
  ASSUME NEW S, NEW n
  PROVE  FirstOf(S, n) \subseteq S
BY DEF FirstOf

\* what a LIMIT query returns is closed downwards in the query's order
LEMMA FirstOfPrefix ==
  ASSUME NEW S, S \subseteq Nat, IsFiniteSet(S), NEW n \in Nat,
         NEW x \in FirstOf(S, n), NEW y \in S, y < x
  PROVE  y \in FirstOf(S, n)
<1> DEFINE below(z) == {w \in S : w < z}
<1>0. x \in S
  BY FirstOfSubset
<1>1. below(y) \subseteq below(x)
  <2> SUFFICES ASSUME NEW w \in S, w < y PROVE w < x
    OBVIOUS
  <2>1. w \in Nat /\ y \in Nat /\ x \in Nat
    BY <1>0
  <2> QED BY <2>1
<1>2. IsFiniteSet(below(x)) /\ IsFiniteSet(below(y))
  BY FS_Subset
<1>3. Cardinality(below(y)) <= Cardinality(below(x))
  BY <1>1, <1>2, FS_Subset
<1>4. Cardinality(below(x)) \in Nat /\ Cardinality(below(y)) \in Nat
  BY <1>2, FS_CardinalityType
<1>5. Cardinality(below(x)) < n
  BY DEF FirstOf
<1> QED
  BY <1>3, <1>4, <1>5 DEF FirstOf

\* the updates the server still has are finitely many updates
LEMMA UndeliveredFinite ==
  ASSUME TypeOK, NEW f \in Nat
  PROVE  Undelivered(f) \subseteq UpdateIds /\ IsFiniteSet(Undelivered(f))
<1>1. Undelivered(f) \subseteq 1 .. Len(log) /\ Len(log) \in Nat
  BY DEF Undelivered, TypeOK
<1>2. IsFiniteSet(1 .. Len(log))
  BY <1>1, FS_Interval
<1> QED
  BY <1>1, <1>2, FS_Subset DEF TypeOK, UpdateIds

-----------------------------------------------------------------------------
(* Type correctness *)

\* The variables keep their types in every behaviour.
THEOREM TypeCorrect == Spec => []TypeOK
<1>1. Init => TypeOK
  BY DEF Init, TypeOK, UpdateIds, RowStates, Statuses, PCs
<1>2. TypeOK /\ [Next]_vars => TypeOK'
  <2> SUFFICES ASSUME TypeOK, [Next]_vars PROVE TypeOK'
    OBVIOUS
  <2> USE DEF server, process, history, RowStates, Statuses, PCs
  <2>1. ASSUME NEW kind \in Kinds, Post(kind) PROVE TypeOK'
    <3>1. log' \in Seq(Kinds) /\ Len(log') <= MaxUpdates
      BY <2>1 DEF Post, TypeOK
    <3> QED BY <2>1, <3>1 DEF Post, TypeOK
  <2>2. ASSUME Tick PROVE TypeOK'
    BY <2>2 DEF Tick, TypeOK
  <2>3. ASSUME NEW u \in UpdateIds, Ignore(u) PROVE TypeOK'
    BY <2>3 DEF Ignore, TypeOK
  <2>4. ASSUME SkippedRun PROVE TypeOK'
    BY <2>4 DEF SkippedRun, TypeOK
  <2>5. ASSUME Crash PROVE TypeOK'
    BY <2>5 DEF Crash, ClearLocals, TypeOK
  <2>6. ASSUME Raise PROVE TypeOK'
    BY <2>6 DEF Raise, Confirm, TypeOK
  <2>7. ASSUME Start PROVE TypeOK'
    BY <2>7 DEF Start, TypeOK
  <2>8. ASSUME Poll PROVE TypeOK'
    <3>1. forgotten' \in 0 .. MaxUpdates /\ off' \in 0 .. MaxUpdates + 1
      BY <2>8 DEF Poll, Confirm, TypeOK
    <3>2. Undelivered(forgotten') \subseteq UpdateIds
      BY <3>1, UndeliveredFinite
    <3>3. PICK got \in {FirstOf(Undelivered(forgotten'), PollLimit), {}} :
            /\ top' \in IF got = {} THEN {0} ELSE {u \in got : \A v \in got : v <= u}
            /\ toStore' = {u \in got : Stored(log[u])}
      BY <2>8 DEF Poll
    <3>4. got \subseteq UpdateIds
      BY <3>2, <3>3, FirstOfSubset
    <3>5. toStore' \subseteq UpdateIds
      BY <3>3, <3>4
    <3>6. top' = 0 \/ top' \in got
      BY <3>3
    <3>7. top' \in 0 .. MaxUpdates
      <4>1. MaxUpdates \in Nat
        BY ConstantsAssumption
      <4>2. top' = 0 \/ top' \in 1 .. MaxUpdates
        BY <3>4, <3>6 DEF UpdateIds
      <4> QED BY <4>1, <4>2
    <3> QED BY <2>8, <3>1, <3>5, <3>7 DEF Poll, TypeOK
  <2>9. ASSUME Store PROVE TypeOK'
    BY <2>9 DEF Store, IsLeast, TypeOK
  <2>10. ASSUME StoreDone PROVE TypeOK'
    BY <2>10 DEF StoreDone, Stage, TypeOK
  <2>11. ASSUME ListCommands PROVE TypeOK'
    <3>1. PendingCommands \subseteq UpdateIds
      BY DEF PendingCommands, UpdateIds, TypeOK
    <3>2. todo' \subseteq UpdateIds
      BY <2>11, <3>1, FirstOfSubset DEF ListCommands
    <3> QED BY <2>11, <3>2 DEF ListCommands, TypeOK
  <2>12. ASSUME Execute PROVE TypeOK'
    <3>1. reminder' \in [Reminders -> Statuses] /\ armed' \in [Reminders -> Nat]
      BY <2>12 DEF Execute, Schedule, TypeOK
    <3> QED BY <2>12, <3>1 DEF Execute, IsLeast, TypeOK
  <2>13. ASSUME MarkProcessed PROVE TypeOK'
    BY <2>13 DEF MarkProcessed, IsLeast, TypeOK
  <2>14. ASSUME Reply PROVE TypeOK'
    BY <2>14 DEF Reply, TypeOK
  <2>15. ASSUME ExecuteDone PROVE TypeOK'
    BY <2>15 DEF ExecuteDone, Stage, TypeOK
  <2>16. ASSUME ListDue PROVE TypeOK'
    <3>1. dueList' \subseteq Reminders
      BY <2>16, FirstOfSubset DEF ListDue, Due
    <3> QED BY <2>16, <3>1 DEF ListDue, TypeOK
  <2>17. ASSUME SendReminder PROVE TypeOK'
    BY <2>17 DEF SendReminder, IsLeast, TypeOK
  <2>18. ASSUME MarkReminder PROVE TypeOK'
    BY <2>18 DEF MarkReminder, IsLeast, TypeOK
  <2>19. ASSUME SendDone PROVE TypeOK'
    BY <2>19 DEF SendDone, Stage, TypeOK
  <2>20. ASSUME Record PROVE TypeOK'
    BY <2>20 DEF Record, NextOffset, ClearLocals, TypeOK
  <2>21. ASSUME RecordError PROVE TypeOK'
    BY <2>21 DEF RecordError, ClearLocals, TypeOK
  <2>22. CASE UNCHANGED vars
    BY <2>22 DEF vars, TypeOK
  <2> QED
    BY <2>1, <2>2, <2>3, <2>4, <2>5, <2>6, <2>7, <2>8, <2>9, <2>10, <2>11, <2>12,
       <2>13, <2>14, <2>15, <2>16, <2>17, <2>18, <2>19, <2>20, <2>21, <2>22
       DEF Next, Cycle
<1> QED
  BY <1>1, <1>2, PTL DEF Spec
-----------------------------------------------------------------------------
(* The inductive invariants *)

\* a poll has been answered and its cycle goes on
InCycle == pc \in {"store", "list", "execute", "mark", "reply", "due", "send",
                   "markSent", "markFailed", "record"}

\* Whatever a poll delivered and an offset may soon confirm is stored, or still
\* to be stored by this very cycle.
DeliveryInv ==
  /\ forgotten <= Len(log) /\ cursor <= Len(log) + 1
  /\ InCycle => off <= Len(log) + 1 /\ top <= Len(log)
  /\ toStore \subseteq DOMAIN log /\ todo \subseteq DOMAIN log
  /\ InCycle /\ pc # "store" => toStore = {}
  /\ \A u \in UpdateIds : u > Len(log) => inbox[u] = "absent"
  /\ \A u \in DOMAIN log : Stored(log[u]) =>
       /\ u <= forgotten \/ u < cursor \/ (InCycle /\ u < off) => inbox[u] # "absent"
       /\ InCycle /\ u <= top => inbox[u] # "absent" \/ u \in toStore

\* A command that was executed in this cycle and not yet marked is the first of
\* the list; only ignored or executed commands are processed.
SwallowInv ==
  /\ \A u \in todo : pc = "mark" /\ IsLeast(u, todo) => executed[u] > 0
  /\ NoCommandSwallowed

\* the executions of u to come, if no further fault happens
RowChance(u) ==
  IF \/ pc = "error" \/ u \in toStore
     \/ inbox[u] = "pending" /\ ~(pc = "mark" /\ IsLeast(u, todo))
     \/ u \in todo /\ (pc = "execute" \/ (pc \in {"mark", "reply"} /\ ~IsLeast(u, todo)))
  THEN 1 ELSE 0
DeliveryChance(u) ==
  IF \/ pc = "error"
     \/ pc \in {"down", "poll"} /\ cursor <= u
     \/ InCycle /\ NextOffset <= u
  THEN 1 ELSE 0

ExecutionInv ==
  /\ \A u \in todo : pc = "reply" /\ IsLeast(u, todo) => inbox[u] # "pending"
  /\ \A u \in UpdateIds : executed[u] + RowChance(u) + DeliveryChance(u) <= 1 + 2 * faults

\* the deliveries of r to come, if it is not armed again and no fault happens
SendChance(r) ==
  IF reminder[r] = "pending" /\ ~(pc \in {"markSent", "markFailed"} /\ IsLeast(r, dueList))
  THEN 1 ELSE 0

ReminderInv ==
  /\ pc \in {"send", "markSent", "markFailed"} => \A r \in dueList : reminder[r] = "pending"
  /\ \A r \in Reminders : sends[r] + SendChance(r) <= armed[r] + faults

\* a natural number above d and at most b is at least c when c is at most d + 1
LEMMA Below ==
  ASSUME NEW a \in Nat, NEW b \in Nat, NEW c \in Nat, NEW d \in Nat,
         a <= b, d < a, c <= d + 1
  PROVE  ~(b + 1 <= a) /\ c <= a
OBVIOUS

\* The row a loop is at is one row.
LEMMA LeastUnique ==
  ASSUME NEW S, S \subseteq Nat, NEW x, NEW y, IsLeast(x, S), IsLeast(y, S)
  PROVE  x = y
<1>1. x \in Nat /\ y \in Nat /\ x <= y /\ y <= x
  BY DEF IsLeast
<1> QED BY <1>1

-----------------------------------------------------------------------------
(* No update is lost *)

\* Every step keeps what was delivered stored, or still to be stored.
LEMMA DeliveryStep == TypeOK /\ DeliveryInv /\ [Next]_vars => DeliveryInv'
<1> SUFFICES ASSUME TypeOK, DeliveryInv, [Next]_vars PROVE DeliveryInv'
  OBVIOUS
<1> USE DEF server, process, history
<1>0. MaxUpdates \in Nat /\ log \in Seq(Kinds) /\ Len(log) \in Nat /\ DOMAIN log = 1 .. Len(log)
      /\ Len(log) <= MaxUpdates
  BY ConstantsAssumption DEF TypeOK
<1>1. ASSUME NEW kind \in Kinds, Post(kind) PROVE DeliveryInv'
  <2>1. /\ Len(log') = Len(log) + 1 /\ DOMAIN log' = 1 .. Len(log) + 1
        /\ \A u \in DOMAIN log : log'[u] = log[u]
    BY <1>0, <1>1 DEF Post
  <2>2. /\ UNCHANGED <<forgotten, cursor, inbox, pc, off, top, toStore, todo>>
        /\ Len(log) + 1 \in UpdateIds
    BY <1>0, <1>1 DEF Post, UpdateIds
  <2>3. InCycle' = InCycle
    BY <2>2 DEF InCycle
  <2>4. forgotten \in Nat /\ cursor \in Nat /\ off \in Nat /\ top \in Nat
    BY DEF TypeOK
  <2>5. \A u \in UpdateIds : u > Len(log') => inbox'[u] = "absent"
    BY <1>0, <2>1, <2>2 DEF DeliveryInv, UpdateIds
  <2>6. inbox[Len(log) + 1] = "absent"
    BY <1>0, <2>2 DEF DeliveryInv
  <2>7. ASSUME NEW u \in DOMAIN log', Stored(log'[u])
        PROVE  /\ u <= forgotten' \/ u < cursor' \/ (InCycle' /\ u < off') => inbox'[u] # "absent"
               /\ InCycle' /\ u <= top' => inbox'[u] # "absent" \/ u \in toStore'
    <3>1. CASE u \in DOMAIN log
      BY <2>1, <2>2, <2>3, <2>7, <3>1 DEF DeliveryInv
    <3>2. CASE u = Len(log) + 1
      BY <1>0, <2>2, <2>3, <2>4, <3>2 DEF DeliveryInv
    <3> QED BY <1>0, <2>1, <3>1, <3>2
  <2> QED
    BY <1>0, <2>1, <2>2, <2>3, <2>4, <2>5, <2>7 DEF DeliveryInv
<1>2. ASSUME NEW u \in UpdateIds, Ignore(u) PROVE DeliveryInv'
  BY <1>0, <1>2 DEF Ignore, DeliveryInv, InCycle, TypeOK
<1>3. ASSUME Crash \/ RecordError PROVE DeliveryInv'
  <2>1. /\ UNCHANGED <<log, forgotten, inbox>> /\ ~InCycle' /\ toStore' = {} /\ todo' = {}
        /\ cursor' = cursor \/ cursor' = 0
    BY <1>3 DEF Crash, RecordError, ClearLocals, InCycle
  <2> QED
    BY <1>0, <2>1 DEF DeliveryInv, TypeOK
<1>4. ASSUME Raise PROVE DeliveryInv'
  <2>1. pc' = "error" /\ ~InCycle' /\ UNCHANGED <<log, cursor, inbox, toStore, todo>>
    BY <1>4 DEF Raise, InCycle
  <2>2. forgotten' = forgotten \/ (forgotten' = cursor - 1 /\ cursor > 1)
    BY <1>4 DEF Raise, Confirm, TypeOK
  <2> QED
    BY <1>0, <2>1, <2>2 DEF DeliveryInv, TypeOK
<1>5. ASSUME Poll PROVE DeliveryInv'
  <2>1. /\ pc' = "store" /\ InCycle' /\ off' = cursor
        /\ UNCHANGED <<log, cursor, inbox, todo>>
    BY <1>5 DEF Poll, InCycle
  <2>2. forgotten' = forgotten \/ (forgotten' = cursor - 1 /\ cursor > 1)
    BY <1>5 DEF Poll, Confirm, TypeOK
  <2>3. forgotten' \in Nat /\ forgotten' <= Len(log)
    BY <1>0, <2>2 DEF DeliveryInv, TypeOK
  <2>4. \A u \in DOMAIN log : Stored(log[u]) /\ u <= forgotten' => inbox[u] # "absent"
    BY <1>0, <2>2 DEF DeliveryInv, TypeOK
  <2> DEFINE all == Undelivered(forgotten')
  <2>5. PICK got \in {FirstOf(all, PollLimit), {}} :
          /\ top' \in IF got = {} THEN {0} ELSE {u \in got : \A v \in got : v <= u}
          /\ toStore' = {u \in got : Stored(log[u])}
    BY <1>5 DEF Poll
  <2>6. all \subseteq DOMAIN log /\ IsFiniteSet(all) /\ got \subseteq all
    BY <2>3, <2>5, UndeliveredFinite, FirstOfSubset DEF Undelivered
  <2>7. top' = 0 \/ top' \in got
    BY <2>5
  <2>8. ASSUME NEW u \in DOMAIN log, Stored(log[u]), u <= top'
        PROVE  inbox[u] # "absent" \/ u \in toStore'
    <3>1. CASE u <= forgotten'
      BY <2>4, <2>8, <3>1
    <3>2. CASE ~(u <= forgotten')
      <4>1. u \in all
        BY <1>0, <2>3, <3>2 DEF Undelivered
      <4>2. u # 0 /\ top' \in got /\ got = FirstOf(all, PollLimit)
        BY <1>0, <2>5, <2>7, <2>8
      <4>3. u = top' \/ u < top'
        BY <1>0, <2>6, <2>8, <4>2
      <4>4. all \subseteq Nat /\ PollLimit \in Nat
        BY <1>0, <2>6, ConstantsAssumption
      <4>5. u \in got
        <5>1. CASE u = top'
          BY <4>2, <5>1
        <5>2. CASE u < top'
          BY <2>6, <4>1, <4>2, <4>4, <5>2, FirstOfPrefix
        <5> QED BY <4>3, <5>1, <5>2
      <4> QED BY <2>5, <2>8, <4>5
    <3> QED BY <3>1, <3>2
  <2>9. toStore' \subseteq DOMAIN log /\ top' <= Len(log)
    BY <1>0, <2>5, <2>6, <2>7
  <2> QED
    BY <1>0, <2>1, <2>3, <2>4, <2>8, <2>9 DEF DeliveryInv, TypeOK
<1>6. ASSUME Store PROVE DeliveryInv'
  <2>1. PICK u \in toStore : inbox' = [inbox EXCEPT ![u] = "pending"] /\ toStore' = toStore \ {u}
    BY <1>6 DEF Store
  <2>2. UNCHANGED <<log, forgotten, cursor, pc, off, top, todo>> /\ InCycle' = InCycle /\ pc = "store"
    BY <1>6 DEF Store, InCycle
  <2>3. u \in UpdateIds /\ u \in 1 .. Len(log)
    BY <1>0, <2>1 DEF TypeOK, DeliveryInv
  <2>4. inbox'[u] = "pending" /\ \A v \in UpdateIds \ {u} : inbox'[v] = inbox[v]
    BY <2>1, <2>3 DEF TypeOK
  <2>5. DOMAIN log \subseteq UpdateIds
    BY <1>0 DEF UpdateIds
  <2> QED
    BY <1>0, <2>1, <2>2, <2>3, <2>4, <2>5 DEF DeliveryInv
<1>7. ASSUME ListCommands PROVE DeliveryInv'
  <2>1. todo' \subseteq DOMAIN log
    BY <1>7, FirstOfSubset DEF ListCommands, PendingCommands
  <2>2. UNCHANGED <<log, forgotten, cursor, inbox, off, top, toStore>> /\ InCycle' /\ InCycle
        /\ pc = "list" /\ pc' = "execute"
    BY <1>7 DEF ListCommands, InCycle
  <2> QED
    BY <2>1, <2>2 DEF DeliveryInv
<1>8. ASSUME MarkProcessed PROVE DeliveryInv'
  <2>1. PICK u \in todo : inbox' = [inbox EXCEPT ![u] = "processed"]
    BY <1>8 DEF MarkProcessed
  <2>2. UNCHANGED <<log, forgotten, cursor, off, top, toStore, todo>> /\ InCycle' /\ InCycle
        /\ pc = "mark" /\ pc' = "reply"
    BY <1>8 DEF MarkProcessed, InCycle
  <2>3. u \in 1 .. Len(log) /\ u \in UpdateIds
    BY <1>0, <2>1 DEF DeliveryInv, TypeOK
  <2>4. inbox'[u] = "processed" /\ \A v \in UpdateIds \ {u} : inbox'[v] = inbox[v]
    BY <2>1, <2>3 DEF TypeOK
  <2>5. DOMAIN log \subseteq UpdateIds
    BY <1>0 DEF UpdateIds
  <2> QED
    BY <1>0, <2>2, <2>3, <2>4, <2>5 DEF DeliveryInv
<1>9. ASSUME Reply PROVE DeliveryInv'
  BY <1>9 DEF Reply, DeliveryInv, InCycle
<1>10. ASSUME Execute \/ ExecuteDone \/ ListDue \/ SendReminder \/ MarkReminder \/ SendDone \/ StoreDone
       PROVE  DeliveryInv'
  <2>1. /\ UNCHANGED <<log, forgotten, cursor, inbox, off, top, toStore, todo>>
        /\ InCycle /\ InCycle' /\ pc' # "store" /\ (pc = "store" => toStore = {})
    BY <1>10 DEF Execute, ExecuteDone, ListDue, SendReminder, MarkReminder, SendDone, StoreDone,
                 Stage, InCycle
  <2> QED
    BY <2>1 DEF DeliveryInv
<1>11. ASSUME Record PROVE DeliveryInv'
  <2>1. /\ UNCHANGED <<log, forgotten, inbox>> /\ cursor' = NextOffset /\ InCycle /\ ~InCycle'
        /\ toStore' = {} /\ todo' = {} /\ toStore = {}
    BY <1>11 DEF Record, ClearLocals, InCycle, DeliveryInv
  <2>2. cursor' = off \/ cursor' = top + 1
    BY <2>1 DEF NextOffset
  <2> QED
    BY <1>0, <2>1, <2>2 DEF DeliveryInv, TypeOK
<1>12. ASSUME Tick \/ UNCHANGED vars PROVE DeliveryInv'
  BY <1>12 DEF Tick, vars, DeliveryInv, InCycle
<1>13. ASSUME SkippedRun \/ Start PROVE DeliveryInv'
  <2>1. /\ UNCHANGED <<log, forgotten, inbox, toStore, todo>> /\ ~InCycle'
        /\ cursor' = cursor \/ cursor' = 0
    BY <1>13 DEF SkippedRun, Start, InCycle
  <2> QED
    BY <1>0, <2>1 DEF DeliveryInv, TypeOK
<1> QED
  BY <1>1, <1>2, <1>3, <1>4, <1>5, <1>6, <1>7, <1>8, <1>9, <1>10, <1>11, <1>12, <1>13
     DEF Next, Cycle

\* No update the server has forgotten is missing from the inbox, for any number
\* of updates, any poll limit and any number of failures.
THEOREM UpdatesDelivered == Spec => []NoUpdateLost
<1>1. Init => DeliveryInv
  BY ConstantsAssumption DEF Init, DeliveryInv, InCycle, UpdateIds
<1>2. TypeOK /\ DeliveryInv => NoUpdateLost
  <2> SUFFICES ASSUME TypeOK, DeliveryInv, NEW u \in 1 .. forgotten, Stored(log[u])
               PROVE  inbox[u] # "absent"
    BY DEF NoUpdateLost
  <2>1. u \in DOMAIN log
    BY DEF TypeOK, DeliveryInv
  <2> QED BY <2>1 DEF DeliveryInv
<1> QED
  BY <1>1, <1>2, DeliveryStep, TypeCorrect, PTL DEF Spec

-----------------------------------------------------------------------------
(* A reminder is delivered once per arming, and once more per fault *)

\* Every step keeps the deliveries of a reminder, with the one to come, within
\* its armings and the faults.
LEMMA ReminderStep == TypeOK /\ ReminderInv /\ [Next]_vars => ReminderInv'
<1> SUFFICES ASSUME TypeOK, ReminderInv, [Next]_vars PROVE ReminderInv'
  OBVIOUS
<1> USE DEF server, process, history
<1>0. /\ Reminders \subseteq Nat /\ dueList \subseteq Nat /\ faults \in Nat
      /\ \A r \in Reminders : sends[r] \in Nat /\ armed[r] \in Nat
  BY ConstantsAssumption DEF TypeOK
<1>1. \A r \in Reminders : SendChance(r) \in 0 .. 1 /\ SendChance(r)' \in 0 .. 1
  BY DEF SendChance
<1>2. ASSUME SkippedRun \/ Crash \/ Raise PROVE ReminderInv'
  <2>1. /\ UNCHANGED <<reminder, sends, armed>> /\ faults' = faults + 1
        /\ pc' \notin {"send", "markSent", "markFailed"}
    BY <1>2 DEF SkippedRun, Crash, Raise
  <2> QED
    BY <1>0, <1>1, <2>1 DEF ReminderInv
<1>3. ASSUME Execute PROVE ReminderInv'
  <2>1. UNCHANGED <<sends, faults>> /\ pc = "execute" /\ pc' = "mark"
    BY <1>3 DEF Execute
  <2>2. \/ UNCHANGED <<reminder, armed>>
        \/ \E r \in Reminders : /\ reminder' = [reminder EXCEPT ![r] = "pending"]
                                 /\ armed' = [armed EXCEPT ![r] = @ + 1]
    BY <1>3 DEF Execute, Schedule
  <2>3. ASSUME NEW r \in Reminders
        PROVE  \/ reminder'[r] = reminder[r] /\ armed'[r] = armed[r]
               \/ armed'[r] = armed[r] + 1
    BY <2>2 DEF TypeOK
  <2> QED
    BY <1>0, <1>1, <2>1, <2>3 DEF ReminderInv, SendChance
<1>4. ASSUME ListDue PROVE ReminderInv'
  <2>1. dueList' \subseteq Due
    BY <1>4, FirstOfSubset DEF ListDue
  <2> QED
    BY <1>4, <2>1 DEF ListDue, Due, ReminderInv, SendChance
<1>5. ASSUME SendReminder PROVE ReminderInv'
  <2>1. PICK r \in dueList :
          /\ IsLeast(r, dueList)
          /\ \/ sends' = [sends EXCEPT ![r] = @ + 1] /\ pc' \in {"markSent", "markFailed"}
             \/ UNCHANGED sends /\ pc' = "markFailed"
    BY <1>5 DEF SendReminder
  <2>2. UNCHANGED <<reminder, armed, dueList, faults>> /\ pc = "send"
    BY <1>5 DEF SendReminder
  <2>3. r \in Reminders /\ reminder[r] = "pending" /\ SendChance(r) = 1
    BY <2>1, <2>2 DEF ReminderInv, SendChance, TypeOK
  <2>4. sends'[r] + SendChance(r)' <= armed'[r] + faults'
    <3>1. CASE sends' = [sends EXCEPT ![r] = @ + 1] /\ pc' \in {"markSent", "markFailed"}
      <4>1. SendChance(r)' = 0 /\ sends'[r] = sends[r] + 1
        BY <2>1, <2>2, <2>3, <3>1 DEF SendChance, TypeOK
      <4> QED BY <1>0, <2>2, <2>3, <4>1 DEF ReminderInv
    <3>2. CASE UNCHANGED sends /\ pc' = "markFailed"
      <4>1. SendChance(r)' = 0
        BY <2>1, <2>2, <2>3, <3>2 DEF SendChance
      <4> QED BY <1>0, <2>2, <2>3, <3>2, <4>1 DEF ReminderInv
    <3> QED BY <2>1, <3>1, <3>2
  <2>5. ASSUME NEW q \in Reminders, q # r
        PROVE  sends'[q] + SendChance(q)' <= armed'[q] + faults'
    <3>1. sends'[q] = sends[q]
      BY <2>1, <2>5 DEF TypeOK
    <3>2. ~IsLeast(q, dueList)
      BY <1>0, <2>1, <2>5, LeastUnique
    <3>3. SendChance(q)' = SendChance(q)
      BY <2>2, <3>2 DEF SendChance
    <3> QED BY <2>2, <3>1, <3>3 DEF ReminderInv
  <2> QED
    BY <2>2, <2>4, <2>5 DEF ReminderInv
<1>6. ASSUME MarkReminder PROVE ReminderInv'
  <2>1. PICK r \in dueList :
          /\ IsLeast(r, dueList)
          /\ reminder' = [reminder EXCEPT ![r] = IF pc = "markSent" THEN "sent" ELSE "failed"]
          /\ dueList' = dueList \ {r}
    BY <1>6 DEF MarkReminder
  <2>2. UNCHANGED <<sends, armed, faults>> /\ pc' = "send" /\ pc \in {"markSent", "markFailed"}
    BY <1>6 DEF MarkReminder
  <2>3. r \in Reminders /\ reminder'[r] # "pending"
        /\ \A q \in Reminders : q # r => reminder'[q] = reminder[q]
    BY <2>1 DEF TypeOK
  <2>4. SendChance(r)' = 0
    BY <2>3 DEF SendChance
  <2>5. ASSUME NEW q \in Reminders, q # r PROVE SendChance(q)' = SendChance(q)
    <3>1. ~IsLeast(q, dueList)
      BY <1>0, <2>1, <2>5, LeastUnique
    <3> QED BY <2>2, <2>3, <2>5, <3>1 DEF SendChance
  <2>6. \A q \in Reminders : SendChance(q)' <= SendChance(q)
    BY <1>1, <2>4, <2>5
  <2>7. \A q \in dueList' : q \in dueList /\ q \in Reminders /\ q # r
    BY <2>1 DEF TypeOK
  <2>8. ASSUME NEW q \in Reminders PROVE sends'[q] + SendChance(q)' <= armed'[q] + faults'
    BY <1>0, <1>1, <2>2, <2>6 DEF ReminderInv
  <2> QED
    BY <2>2, <2>3, <2>7, <2>8 DEF ReminderInv
<1>7. ASSUME \/ Start \/ Poll \/ Store \/ StoreDone \/ ListCommands \/ MarkProcessed
             \/ Reply \/ ExecuteDone \/ Record \/ RecordError
      PROVE  ReminderInv'
  <2>1. /\ UNCHANGED <<reminder, armed, sends, faults>>
        /\ pc \notin {"send", "markSent", "markFailed"} /\ pc' \notin {"send", "markSent", "markFailed"}
    BY <1>7 DEF Start, Poll, Store, StoreDone, ListCommands, MarkProcessed, Reply, ExecuteDone,
                Record, RecordError, Stage
  <2> QED
    BY <2>1 DEF ReminderInv, SendChance
<1>8. ASSUME \/ SendDone \/ Tick \/ UNCHANGED vars
             \/ \E kind \in Kinds : Post(kind)
             \/ \E u \in UpdateIds : Ignore(u)
      PROVE  ReminderInv'
  BY <1>8 DEF SendDone, Stage, Tick, vars, Post, Ignore, ReminderInv, SendChance
<1> QED
  BY <1>2, <1>3, <1>4, <1>5, <1>6, <1>7, <1>8 DEF Next, Cycle

\* No reminder is delivered more often than it was armed, plus once for each
\* fault, whatever the number of reminders and the LIMIT of the query.
THEOREM RemindersDeliveredBounded == Spec => []RemindersBounded
<1>1. Init => ReminderInv
  BY ConstantsAssumption DEF Init, ReminderInv, SendChance
<1>2. TypeOK /\ ReminderInv => RemindersBounded
  <2> SUFFICES ASSUME TypeOK, ReminderInv, NEW r \in Reminders
               PROVE  sends[r] <= armed[r] + faults
    BY DEF RemindersBounded
  <2>1. SendChance(r) \in 0 .. 1 /\ sends[r] + SendChance(r) <= armed[r] + faults
    BY DEF ReminderInv, SendChance
  <2> QED BY <2>1, ConstantsAssumption DEF TypeOK
<1> QED
  BY <1>1, <1>2, ReminderStep, TypeCorrect, PTL DEF Spec

-----------------------------------------------------------------------------
(* A command is executed once, and at most twice more per fault *)

\* Every step keeps the executions of a command, with those to come, within its
\* budget: an execution uses up the chance the row had, a redelivery turns the
\* chance of the update into one of the row, a fault pays for both again.
LEMMA ExecutionStep ==
  TypeOK /\ DeliveryInv /\ ExecutionInv /\ [Next]_vars => ExecutionInv'
<1> SUFFICES ASSUME TypeOK, DeliveryInv, ExecutionInv, [Next]_vars PROVE ExecutionInv'
  OBVIOUS
<1> USE DEF server, process, history
<1>0. /\ UpdateIds \subseteq Nat /\ todo \subseteq UpdateIds /\ faults \in Nat
      /\ cursor \in Nat /\ off \in Nat /\ top \in Nat /\ forgotten \in Nat
      /\ \A u \in UpdateIds : executed[u] \in Nat
  BY DEF TypeOK, UpdateIds
<1>1. \A u \in UpdateIds : /\ RowChance(u) \in 0 .. 1 /\ RowChance(u)' \in 0 .. 1
                            /\ DeliveryChance(u) \in 0 .. 1 /\ DeliveryChance(u)' \in 0 .. 1
  BY DEF RowChance, DeliveryChance
<1>2. ASSUME SkippedRun \/ Crash \/ Raise PROVE ExecutionInv'
  <2>1. UNCHANGED executed /\ faults' = faults + 1 /\ pc' # "reply"
    BY <1>2 DEF SkippedRun, Crash, Raise
  <2> QED
    BY <1>0, <1>1, <2>1 DEF ExecutionInv
<1>3. ASSUME Poll PROVE ExecutionInv'
  <2>1. /\ pc = "poll" /\ pc' = "store" /\ off' = cursor
        /\ UNCHANGED <<cursor, inbox, todo, executed, faults>>
        /\ forgotten' = Confirm(cursor)
    BY <1>3 DEF Poll
  <2>2. forgotten' \in Nat /\ cursor <= forgotten' + 1
    BY <1>0, <2>1 DEF Confirm
  <2>3. PICK got \in {FirstOf(Undelivered(forgotten'), PollLimit), {}} :
          /\ top' \in IF got = {} THEN {0} ELSE {u \in got : \A v \in got : v <= u}
          /\ toStore' = {u \in got : Stored(log[u])}
    BY <1>3 DEF Poll
  <2>4. \A u \in got : u \in Nat /\ u > forgotten' /\ u # 0
    <3>1. got \subseteq Undelivered(forgotten')
      BY <2>3, FirstOfSubset
    <3>2. log \in Seq(Kinds)
      BY DEF TypeOK
    <3> QED BY <2>2, <3>1, <3>2 DEF Undelivered
  <2>5. NextOffset' = IF top' > 0 THEN top' + 1 ELSE off'
    BY DEF NextOffset
  <2>6. ASSUME NEW u \in UpdateIds
        PROVE  executed'[u] + RowChance(u)' + DeliveryChance(u)' <= 1 + 2 * faults'
    <3>1. DeliveryChance(u) = IF cursor <= u THEN 1 ELSE 0
      BY <2>1 DEF DeliveryChance, InCycle
    <3>2. DeliveryChance(u)' = IF NextOffset' <= u THEN 1 ELSE 0
      BY <2>1 DEF DeliveryChance, InCycle
    <3>3. CASE u \in got
      <4>1. top' \in got /\ u <= top'
        BY <2>3, <3>3
      <4>2. u \in Nat /\ top' \in Nat /\ top' > 0 /\ u > forgotten'
        BY <2>2, <2>4, <3>3, <4>1
      <4>3. NextOffset' = top' + 1
        BY <2>5, <4>2
      <4>4. u <= top' /\ forgotten' < u
        BY <4>1, <4>2
      <4>5. ~(top' + 1 <= u) /\ cursor <= u
        BY <1>0, <2>2, <4>2, <4>4, Below
      <4>6. DeliveryChance(u)' = 0 /\ DeliveryChance(u) = 1
        BY <3>1, <3>2, <4>3, <4>5
      <4> QED BY <1>0, <1>1, <2>1, <4>6 DEF ExecutionInv
    <3>4. CASE u \notin got
      <4>1. RowChance(u)' <= RowChance(u)
        BY <1>1, <2>1, <2>3, <3>4 DEF RowChance
      <4>2. top' = 0 \/ (top' \in got /\ top' > 0 /\ top' \in Nat)
        BY <2>3, <2>4
      <4>3. cursor <= NextOffset'
        BY <1>0, <2>1, <2>2, <2>4, <2>5, <4>2
      <4>4. NextOffset' \in Nat
        BY <1>0, <2>1, <2>5, <4>2
      <4>5. DeliveryChance(u)' <= DeliveryChance(u)
        BY <1>0, <3>1, <3>2, <4>3, <4>4
      <4> QED BY <1>0, <1>1, <2>1, <4>1, <4>5 DEF ExecutionInv
    <3> QED BY <3>3, <3>4
  <2> QED
    BY <2>1, <2>6 DEF ExecutionInv
<1>4. ASSUME Execute PROVE ExecutionInv'
  <2>1. PICK u \in todo : IsLeast(u, todo) /\ executed' = [executed EXCEPT ![u] = @ + 1]
    BY <1>4 DEF Execute
  <2>2. /\ UNCHANGED <<cursor, inbox, off, top, toStore, todo, faults>>
        /\ pc = "execute" /\ pc' = "mark" /\ toStore = {}
    BY <1>4 DEF Execute, DeliveryInv, InCycle
  <2>3. \A q \in UpdateIds : DeliveryChance(q)' = DeliveryChance(q)
    BY <2>2 DEF DeliveryChance, InCycle, NextOffset
  <2>4. RowChance(u) = 1 /\ RowChance(u)' = 0
    BY <2>1, <2>2 DEF RowChance
  <2>5. \A q \in UpdateIds : q # u => RowChance(q)' <= RowChance(q)
    BY <2>2 DEF RowChance
  <2>6. executed'[u] = executed[u] + 1 /\ \A q \in UpdateIds : q # u => executed'[q] = executed[q]
    BY <1>0, <2>1 DEF TypeOK
  <2>7. executed'[u] + RowChance(u)' + DeliveryChance(u)' <= 1 + 2 * faults'
    BY <1>0, <1>1, <2>1, <2>2, <2>3, <2>4, <2>6 DEF ExecutionInv
  <2>8. \A q \in UpdateIds : q # u =>
          executed'[q] + RowChance(q)' + DeliveryChance(q)' <= 1 + 2 * faults'
    BY <1>0, <1>1, <2>2, <2>3, <2>5, <2>6 DEF ExecutionInv
  <2> QED
    BY <2>2, <2>7, <2>8 DEF ExecutionInv
<1>5. ASSUME MarkProcessed PROVE ExecutionInv'
  <2>1. PICK u \in todo : IsLeast(u, todo) /\ inbox' = [inbox EXCEPT ![u] = "processed"]
    BY <1>5 DEF MarkProcessed
  <2>2. /\ UNCHANGED <<cursor, executed, off, top, toStore, todo, faults>>
        /\ pc = "mark" /\ pc' = "reply"
    BY <1>5 DEF MarkProcessed
  <2>3. \A q \in todo : IsLeast(q, todo) => q = u
    BY <1>0, <2>1, LeastUnique
  <2>4. inbox'[u] = "processed" /\ \A q \in UpdateIds : q # u => inbox'[q] = inbox[q]
    BY <1>0, <2>1 DEF TypeOK
  <2>5. \A q \in UpdateIds : DeliveryChance(q)' = DeliveryChance(q)
    BY <2>2 DEF DeliveryChance, InCycle, NextOffset
  <2>6. \A q \in UpdateIds : RowChance(q)' <= RowChance(q)
    <3> SUFFICES ASSUME NEW q \in UpdateIds PROVE RowChance(q)' <= RowChance(q)
      OBVIOUS
    <3>1. IsLeast(q, todo)' = IsLeast(q, todo)
      BY <2>2 DEF IsLeast
    <3>2. IsLeast(q, todo) => q = u
      BY <2>3 DEF IsLeast
    <3> QED BY <2>2, <2>4, <3>1, <3>2 DEF RowChance
  <2>7. \A q \in todo' : IsLeast(q, todo') => inbox'[q] # "pending"
    BY <2>2, <2>3, <2>4
  <2>8. \A q \in UpdateIds : executed'[q] + RowChance(q)' + DeliveryChance(q)' <= 1 + 2 * faults'
    BY <1>0, <1>1, <2>2, <2>5, <2>6 DEF ExecutionInv
  <2> QED
    BY <2>7, <2>8 DEF ExecutionInv
<1>6. ASSUME Reply PROVE ExecutionInv'
  <2>1. PICK u \in todo : IsLeast(u, todo) /\ todo' = todo \ {u}
    BY <1>6 DEF Reply
  <2>2. /\ UNCHANGED <<cursor, executed, inbox, off, top, toStore, faults>>
        /\ pc = "reply" /\ pc' = "execute"
    BY <1>6 DEF Reply
  <2>3. \A q \in todo : q # u => ~IsLeast(q, todo)
    BY <1>0, <2>1, LeastUnique
  <2>4. \A q \in UpdateIds : DeliveryChance(q)' = DeliveryChance(q)
    BY <2>2 DEF DeliveryChance, InCycle, NextOffset
  <2>5. \A q \in UpdateIds : RowChance(q)' <= RowChance(q)
    BY <2>1, <2>2, <2>3 DEF RowChance
  <2>6. \A q \in UpdateIds : executed'[q] + RowChance(q)' + DeliveryChance(q)' <= 1 + 2 * faults'
    BY <1>0, <1>1, <2>2, <2>4, <2>5 DEF ExecutionInv
  <2> QED
    BY <2>2, <2>6 DEF ExecutionInv
<1>7. ASSUME ListCommands PROVE ExecutionInv'
  <2>1. \A q \in todo' : inbox[q] = "pending"
    BY <1>7, FirstOfSubset DEF ListCommands, PendingCommands
  <2>2. /\ UNCHANGED <<cursor, executed, inbox, off, top, toStore, faults>>
        /\ pc = "list" /\ pc' = "execute"
    BY <1>7 DEF ListCommands
  <2>3. \A q \in UpdateIds : DeliveryChance(q)' = DeliveryChance(q)
    BY <2>2 DEF DeliveryChance, InCycle, NextOffset
  <2>4. \A q \in UpdateIds : RowChance(q)' <= RowChance(q)
    BY <2>1, <2>2 DEF RowChance
  <2>5. \A q \in UpdateIds : executed'[q] + RowChance(q)' + DeliveryChance(q)' <= 1 + 2 * faults'
    BY <1>0, <1>1, <2>2, <2>3, <2>4 DEF ExecutionInv
  <2> QED
    BY <2>2, <2>5 DEF ExecutionInv
<1>8. ASSUME Store PROVE ExecutionInv'
  <2>1. PICK u \in toStore : inbox' = [inbox EXCEPT ![u] = "pending"] /\ toStore' = toStore \ {u}
    BY <1>8 DEF Store
  <2>2. /\ UNCHANGED <<cursor, executed, off, top, todo, faults, pc>> /\ pc = "store"
    BY <1>8 DEF Store
  <2>3. \A q \in UpdateIds : DeliveryChance(q)' = DeliveryChance(q)
    BY <2>2 DEF DeliveryChance, InCycle, NextOffset
  <2>4. ASSUME NEW q \in UpdateIds PROVE RowChance(q)' <= RowChance(q)
    <3>1. CASE q = u
      BY <1>1, <2>1, <3>1 DEF RowChance
    <3>2. CASE q # u
      <4>1. inbox'[q] = inbox[q]
        BY <2>1, <3>2 DEF TypeOK
      <4> QED BY <2>1, <2>2, <4>1 DEF RowChance
    <3> QED BY <3>1, <3>2
  <2>5. \A q \in UpdateIds : executed'[q] + RowChance(q)' + DeliveryChance(q)' <= 1 + 2 * faults'
    BY <1>0, <1>1, <2>2, <2>3, <2>4 DEF ExecutionInv
  <2> QED
    BY <2>2, <2>5 DEF ExecutionInv
<1>9. ASSUME NEW v \in UpdateIds, Ignore(v) PROVE ExecutionInv'
  <2>1. /\ inbox' = [inbox EXCEPT ![v] = "processed"]
        /\ UNCHANGED <<cursor, executed, off, top, toStore, todo, faults, pc>>
    BY <1>9 DEF Ignore
  <2>2. \A q \in UpdateIds : inbox'[q] = "pending" => inbox[q] = "pending"
    BY <2>1 DEF TypeOK
  <2>3. \A q \in UpdateIds : DeliveryChance(q)' = DeliveryChance(q)
    BY <2>1 DEF DeliveryChance, InCycle, NextOffset
  <2>4. \A q \in UpdateIds : RowChance(q)' <= RowChance(q)
    BY <2>1, <2>2 DEF RowChance
  <2>5. \A q \in UpdateIds : executed'[q] + RowChance(q)' + DeliveryChance(q)' <= 1 + 2 * faults'
    BY <1>0, <1>1, <2>1, <2>3, <2>4 DEF ExecutionInv
  <2>6. \A q \in todo' : pc' = "reply" /\ IsLeast(q, todo') => inbox'[q] # "pending"
    BY <1>0, <2>1, <2>2 DEF ExecutionInv
  <2> QED
    BY <2>5, <2>6 DEF ExecutionInv
<1>10. ASSUME Record \/ RecordError PROVE ExecutionInv'
  <2>1. /\ UNCHANGED <<inbox, executed, faults>> /\ pc' \in {"poll", "down"}
        /\ toStore' = {} /\ todo' = {}
        /\ (pc = "record" /\ cursor' = NextOffset) \/ pc = "error"
    BY <1>10 DEF Record, RecordError, ClearLocals
  <2>2. \A q \in UpdateIds : DeliveryChance(q)' <= DeliveryChance(q)
    BY <1>1, <2>1 DEF DeliveryChance, InCycle
  <2>3. \A q \in UpdateIds : RowChance(q)' <= RowChance(q)
    BY <1>1, <2>1 DEF RowChance
  <2>4. \A q \in UpdateIds : executed'[q] + RowChance(q)' + DeliveryChance(q)' <= 1 + 2 * faults'
    BY <1>0, <1>1, <2>1, <2>2, <2>3 DEF ExecutionInv
  <2> QED
    BY <2>1, <2>4 DEF ExecutionInv
<1>11. ASSUME \/ Start \/ StoreDone \/ ExecuteDone \/ ListDue \/ SendReminder \/ MarkReminder
              \/ SendDone \/ Tick \/ UNCHANGED vars \/ \E kind \in Kinds : Post(kind)
       PROVE  ExecutionInv'
  <2>1. /\ UNCHANGED <<cursor, executed, inbox, off, top, toStore, todo, faults>>
        /\ \/ pc' = pc
           \/ pc = "down" /\ pc' = "poll"
           \/ pc = "execute" /\ todo = {} /\ pc' = "due"
           \/ pc = "store" /\ pc' = "list"
           \/ /\ pc \in {"due", "send", "markSent", "markFailed"}
              /\ pc' \in {"send", "markSent", "markFailed", "record"}
    BY <1>11 DEF Start, StoreDone, ExecuteDone, ListDue, SendReminder, MarkReminder, SendDone,
                 Tick, vars, Post, Stage
  <2>2. \A q \in UpdateIds : DeliveryChance(q)' = DeliveryChance(q)
    BY <2>1 DEF DeliveryChance, InCycle, NextOffset
  <2>3. \A q \in UpdateIds : RowChance(q)' <= RowChance(q)
    BY <2>1 DEF RowChance
  <2>4. \A q \in UpdateIds : executed'[q] + RowChance(q)' + DeliveryChance(q)' <= 1 + 2 * faults'
    BY <1>0, <1>1, <2>1, <2>2, <2>3 DEF ExecutionInv
  <2> QED
    BY <2>1, <2>4 DEF ExecutionInv
<1> QED
  BY <1>2, <1>3, <1>4, <1>5, <1>6, <1>7, <1>8, <1>9, <1>10, <1>11 DEF Next, Cycle

\* Every command is executed at most once plus twice per fault, whatever the
\* interleaving of polls, failures, redeliveries and operators.
THEOREM CommandsExecutedBounded == Spec => []ExecutionsBounded
<1>1. Init => ExecutionInv
  BY DEF Init, ExecutionInv, RowChance, DeliveryChance, InCycle, UpdateIds
<1>2. TypeOK /\ ExecutionInv => ExecutionsBounded
  <2> SUFFICES ASSUME TypeOK, ExecutionInv, NEW u \in UpdateIds
               PROVE  executed[u] <= 1 + 2 * faults
    BY DEF ExecutionsBounded
  <2>1. RowChance(u) \in 0 .. 1 /\ DeliveryChance(u) \in 0 .. 1
    BY DEF RowChance, DeliveryChance
  <2> QED BY <2>1, ConstantsAssumption DEF ExecutionInv, TypeOK
<1>3. Init => DeliveryInv
  BY ConstantsAssumption DEF Init, DeliveryInv, InCycle, UpdateIds
<1> QED
  BY <1>1, <1>2, <1>3, ExecutionStep, DeliveryStep, TypeCorrect, PTL DEF Spec

-----------------------------------------------------------------------------
(* No command counts as done that was not executed or ignored *)

\* Every step keeps processed commands executed or ignored.
LEMMA SwallowStep ==
  TypeOK /\ DeliveryInv /\ SwallowInv /\ [Next]_vars => SwallowInv'
<1> SUFFICES ASSUME TypeOK, DeliveryInv, SwallowInv, [Next]_vars PROVE SwallowInv'
  OBVIOUS
<1> USE DEF server, process, history
<1>0. /\ log \in Seq(Kinds) /\ Len(log) \in Nat /\ DOMAIN log = 1 .. Len(log)
      /\ DOMAIN log \subseteq UpdateIds /\ todo \subseteq UpdateIds /\ UpdateIds \subseteq Nat
      /\ \A u \in UpdateIds : executed[u] \in Nat
  BY ConstantsAssumption DEF TypeOK, UpdateIds
<1>1. ASSUME NEW kind \in Kinds, Post(kind) PROVE SwallowInv'
  <2>1. /\ DOMAIN log' = DOMAIN log \union {Len(log) + 1}
        /\ \A u \in DOMAIN log : log'[u] = log[u]
        /\ UNCHANGED <<inbox, executed, ignored, pc, todo>>
    BY <1>0, <1>1 DEF Post
  <2>2. inbox[Len(log) + 1] = "absent"
    BY <1>0, <1>1 DEF Post, DeliveryInv, UpdateIds
  <2> QED
    BY <2>1, <2>2 DEF SwallowInv, NoCommandSwallowed
<1>2. ASSUME NEW v \in UpdateIds, Ignore(v) PROVE SwallowInv'
  BY <1>0, <1>2 DEF Ignore, SwallowInv, NoCommandSwallowed, TypeOK
<1>3. ASSUME Execute PROVE SwallowInv'
  <2>1. PICK u \in todo : IsLeast(u, todo) /\ executed' = [executed EXCEPT ![u] = @ + 1]
    BY <1>3 DEF Execute
  <2>2. UNCHANGED <<log, inbox, ignored, todo>>
    BY <1>3 DEF Execute
  <2>3. executed'[u] > 0 /\ \A q \in UpdateIds : executed[q] > 0 => executed'[q] > 0
    BY <1>0, <2>1 DEF TypeOK
  <2>4. \A q \in todo : IsLeast(q, todo) => q = u
    BY <1>0, <2>1, LeastUnique
  <2> QED
    BY <1>0, <2>2, <2>3, <2>4 DEF SwallowInv, NoCommandSwallowed
<1>4. ASSUME MarkProcessed PROVE SwallowInv'
  <2>1. PICK u \in todo : IsLeast(u, todo) /\ inbox' = [inbox EXCEPT ![u] = "processed"]
    BY <1>4 DEF MarkProcessed
  <2>2. UNCHANGED <<log, executed, ignored, todo>> /\ pc = "mark" /\ pc' = "reply"
    BY <1>4 DEF MarkProcessed
  <2>3. executed[u] > 0
    BY <2>1, <2>2 DEF SwallowInv
  <2>4. \A q \in UpdateIds : q # u => inbox'[q] = inbox[q]
    BY <2>1 DEF TypeOK
  <2> QED
    BY <1>0, <2>2, <2>3, <2>4 DEF SwallowInv, NoCommandSwallowed
<1>5. ASSUME Store PROVE SwallowInv'
  <2>1. \A q \in UpdateIds : inbox'[q] = "processed" => inbox[q] = "processed"
    BY <1>5 DEF Store, TypeOK
  <2>2. UNCHANGED <<log, executed, ignored, todo, pc>>
    BY <1>5 DEF Store
  <2> QED
    BY <1>0, <2>1, <2>2 DEF SwallowInv, NoCommandSwallowed
<1>6. ASSUME \/ Tick \/ SkippedRun \/ Crash \/ Raise \/ Start \/ Poll \/ StoreDone
             \/ ListCommands \/ Reply \/ ExecuteDone \/ ListDue \/ SendReminder
             \/ MarkReminder \/ SendDone \/ Record \/ RecordError \/ UNCHANGED vars
      PROVE  SwallowInv'
  <2>1. UNCHANGED <<log, inbox, executed, ignored>> /\ (pc' # "mark" \/ UNCHANGED <<pc, todo>>)
    BY <1>6 DEF Tick, SkippedRun, Crash, Raise, Start, Poll, StoreDone, ListCommands, Reply,
                ExecuteDone, ListDue, SendReminder, MarkReminder, SendDone, Record, RecordError,
                Stage, vars
  <2> QED
    BY <2>1 DEF SwallowInv, NoCommandSwallowed
<1> QED
  BY <1>1, <1>2, <1>3, <1>4, <1>5, <1>6 DEF Next, Cycle

\* A command row is processed only after an execution or an operator's ignore,
\* wherever a crash falls between the execution and the mark.
THEOREM CommandsNotSwallowed == Spec => []NoCommandSwallowed
<1>1. Init => SwallowInv
  BY DEF Init, SwallowInv, NoCommandSwallowed
<1>2. Init => DeliveryInv
  BY ConstantsAssumption DEF Init, DeliveryInv, InCycle, UpdateIds
<1>3. SwallowInv => NoCommandSwallowed
  BY DEF SwallowInv
<1> QED
  BY <1>1, <1>2, <1>3, SwallowStep, DeliveryStep, TypeCorrect, PTL DEF Spec

-----------------------------------------------------------------------------
(* The cycle implements the at-least-once mailbox *)

\* the rows of the list are commands that were posted, the ignored ones updates
TodoInv ==
  /\ \A u \in todo : PostedCommand(u)
  /\ ignored \subseteq DOMAIN log

\* Every step keeps the list one of posted commands.
LEMMA TodoStep == TypeOK /\ DeliveryInv /\ TodoInv /\ [Next]_vars => TodoInv'
<1> SUFFICES ASSUME TypeOK, DeliveryInv, TodoInv, [Next]_vars PROVE TodoInv'
  OBVIOUS
<1> USE DEF server, process, history
<1>1. ASSUME NEW kind \in Kinds, Post(kind) PROVE TodoInv'
  <2>1. log \in Seq(Kinds) /\ log' = Append(log, kind) /\ UNCHANGED <<todo, ignored>>
    BY <1>1 DEF Post, TypeOK
  <2>2. \A u \in DOMAIN log : u \in DOMAIN log' /\ log'[u] = log[u]
    BY <2>1
  <2> QED BY <2>1, <2>2 DEF TodoInv, PostedCommand
<1>2. ASSUME ListCommands PROVE TodoInv'
  <2>1. todo' \subseteq PendingCommands /\ UNCHANGED <<log, ignored>>
    BY <1>2, FirstOfSubset DEF ListCommands
  <2> QED BY <2>1 DEF TodoInv, PendingCommands, PostedCommand
<1>3. ASSUME NEW u \in UpdateIds, Ignore(u) PROVE TodoInv'
  <2>1. inbox[u] # "absent" /\ ignored' = ignored \union {u} /\ UNCHANGED <<log, todo>>
    BY <1>3 DEF Ignore
  <2>2. log \in Seq(Kinds) /\ Len(log) \in Nat /\ u \in Nat \ {0}
    BY DEF TypeOK, UpdateIds
  <2>3. u \in DOMAIN log
    BY <2>1, <2>2 DEF DeliveryInv
  <2> QED BY <2>1, <2>3 DEF TodoInv, PostedCommand
<1>4. CASE \/ Tick \/ SkippedRun \/ Crash \/ Raise \/ Start
           \/ Poll \/ Store \/ StoreDone \/ Execute \/ MarkProcessed \/ Reply \/ ExecuteDone
           \/ ListDue \/ SendReminder \/ MarkReminder \/ SendDone \/ Record \/ RecordError
           \/ UNCHANGED vars
  <2>1. todo' \subseteq todo /\ UNCHANGED <<log, ignored>>
    BY <1>4 DEF Tick, SkippedRun, Crash, Raise, Start, Poll, Store, StoreDone, Execute,
                MarkProcessed, Reply, ExecuteDone, ListDue, SendReminder, MarkReminder, SendDone,
                Record, RecordError, Stage, ClearLocals, vars
  <2> QED BY <2>1 DEF TodoInv, PostedCommand
<1> QED BY <1>1, <1>2, <1>3, <1>4 DEF Next, Cycle

\* the state of an update in the mailbox
BoxOf(u) == IF ~PostedCommand(u) THEN "absent"
            ELSE IF inbox[u] = "processed" THEN "done" ELSE "pending"
Box == [u \in UpdateIds |-> BoxOf(u)]
DroppedOnes == {u \in ignored : PostedCommand(u)}

\* A step that leaves the log, the rows, the executions, the ignored rows and
\* the faults alone is none of the mailbox.
LEMMA MailboxStutter ==
  ASSUME UNCHANGED <<log, inbox, executed, ignored, faults>>
  PROVE  UNCHANGED Mailbox!vars
BY DEF Mailbox!vars, PostedCommand

\* A step that only changes one row is one of that command, or none.
LEMMA MailboxRow ==
  ASSUME TypeOK, NEW u \in UpdateIds, NEW s \in RowStates,
         inbox' = [inbox EXCEPT ![u] = s], log' = log
  PROVE  /\ ~PostedCommand(u) => Box' = Box
         /\ PostedCommand(u) =>
              Box' = [Box EXCEPT ![u] = IF s = "processed" THEN "done" ELSE "pending"]
<1>1. inbox \in [UpdateIds -> RowStates]
  BY DEF TypeOK
<1>2. \A v \in UpdateIds : inbox'[v] = IF v = u THEN s ELSE inbox[v]
  BY <1>1
<1>3. \A v : PostedCommand(v)' <=> PostedCommand(v)
  BY DEF PostedCommand
<1>4. \A v \in UpdateIds : v # u => BoxOf(v)' = BoxOf(v)
  BY <1>2, <1>3 DEF BoxOf
<1>5. CASE ~PostedCommand(u)
  <2>1. BoxOf(u)' = BoxOf(u)
    BY <1>3, <1>5 DEF BoxOf
  <2> QED BY <1>4, <1>5, <2>1 DEF Box
<1>6. CASE PostedCommand(u)
  <2>1. BoxOf(u)' = IF s = "processed" THEN "done" ELSE "pending"
    BY <1>2, <1>3, <1>6 DEF BoxOf
  <2> QED BY <1>4, <1>6, <2>1 DEF Box
<1> QED BY <1>5, <1>6

\* Every step of the cycle is one of the mailbox or none.
LEMMA MailboxStep ==
  ASSUME TypeOK, TypeOK', DeliveryInv, ExecutionInv, SwallowInv, TodoInv, [Next]_vars
  PROVE  [Mailbox!Next]_(Mailbox!vars)
<1> USE DEF server, process, history
<1>0. /\ log \in Seq(Kinds) /\ Len(log) \in Nat /\ DOMAIN log = 1 .. Len(log)
      /\ DOMAIN log \subseteq UpdateIds /\ todo \subseteq UpdateIds /\ toStore \subseteq UpdateIds
      /\ faults \in Nat /\ \A u \in UpdateIds : executed[u] \in Nat
  <2>1. log \in Seq(Kinds) /\ Len(log) \in Nat /\ Len(log) <= MaxUpdates /\ MaxUpdates \in Nat
    BY ConstantsAssumption DEF TypeOK
  <2>2. DOMAIN log = 1 .. Len(log) /\ DOMAIN log \subseteq UpdateIds
    BY <2>1 DEF UpdateIds
  <2> QED BY <2>1, <2>2 DEF TypeOK
<1>1. ASSUME NEW u \in UpdateIds, RowChance(u) = 1 PROVE executed[u] <= 2 * faults
  <2>1. DeliveryChance(u) \in 0 .. 1
    BY DEF DeliveryChance
  <2> QED BY <1>0, <1>1, <2>1 DEF ExecutionInv
<1>2. ASSUME NEW kind \in Kinds, Post(kind) PROVE [Mailbox!Next]_(Mailbox!vars)
  <2>0. PICK n : n = Len(log) + 1
    OBVIOUS
  <2>1. log' = Append(log, kind) /\ UNCHANGED <<inbox, executed, ignored, faults>>
    BY <1>2 DEF Post
  <2>2. n \in UpdateIds /\ n \notin DOMAIN log /\ inbox[n] = "absent"
    <3>1. Len(log) \in Nat /\ Len(log') = n /\ Len(log') \in 1 .. MaxUpdates
      BY <1>0, <2>0, <2>1 DEF TypeOK
    <3>2. n \in UpdateIds /\ n \notin DOMAIN log
      BY <1>0, <2>0, <3>1 DEF UpdateIds
    <3> QED BY <2>0, <3>1, <3>2 DEF DeliveryInv
  <2>3. \A u \in UpdateIds : u # n => PostedCommand(u)' = PostedCommand(u)
    <3>1. DOMAIN log' = DOMAIN log \union {n} /\ \A u \in DOMAIN log : log'[u] = log[u]
      BY <1>0, <2>0, <2>1
    <3> QED BY <3>1 DEF PostedCommand
  <2>4. \A u \in UpdateIds : u # n => BoxOf(u)' = BoxOf(u)
    BY <2>1, <2>3 DEF BoxOf
  <2>5. BoxOf(n) = "absent" /\ ~PostedCommand(n)
    BY <2>2 DEF BoxOf, PostedCommand
  <2>6. n \notin ignored
    BY <2>2 DEF TodoInv
  <2>7. DroppedOnes' = DroppedOnes
    BY <2>1, <2>3, <2>6 DEF DroppedOnes, TypeOK
  <2>8. BoxOf(n)' = "absent" \/ BoxOf(n)' = "pending"
    BY <2>1, <2>2 DEF BoxOf
  <2>9. CASE BoxOf(n)' = "absent"
    <3>1. Box' = Box
      BY <2>4, <2>5, <2>9 DEF Box
    <3> QED BY <2>1, <2>7, <3>1 DEF Mailbox!vars, Box, BoxOf, DroppedOnes
  <2>10. CASE BoxOf(n)' = "pending"
    <3>1. Box' = [Box EXCEPT ![n] = "pending"] /\ Box[n] = "absent"
      BY <2>2, <2>4, <2>5, <2>10 DEF Box
    <3>2. Mailbox!Post(n)
      BY <2>1, <2>7, <3>1 DEF Mailbox!Post, Mailbox!Become, Box, BoxOf, DroppedOnes
    <3> QED BY <2>2, <3>2 DEF Mailbox!Next
  <2> QED BY <2>8, <2>9, <2>10
<1>3. ASSUME NEW u \in UpdateIds, Ignore(u) PROVE [Mailbox!Next]_(Mailbox!vars)
  <2>1. /\ inbox[u] = "pending" /\ inbox' = [inbox EXCEPT ![u] = "processed"]
        /\ ignored' = ignored \union {u} /\ UNCHANGED <<log, executed, faults>>
    BY <1>3 DEF Ignore
  <2>2. \A v : PostedCommand(v)' = PostedCommand(v)
    BY <2>1 DEF PostedCommand
  <2>3. CASE ~PostedCommand(u)
    <3>1. Box' = Box /\ DroppedOnes' = DroppedOnes
      BY <2>1, <2>2, <2>3, MailboxRow DEF RowStates, DroppedOnes
    <3> QED BY <2>1, <3>1 DEF Mailbox!vars, Box, BoxOf, DroppedOnes
  <2>4. CASE PostedCommand(u)
    <3>1. Box' = [Box EXCEPT ![u] = "done"] /\ DroppedOnes' = DroppedOnes \union {u}
      BY <2>1, <2>2, <2>4, MailboxRow DEF RowStates, DroppedOnes
    <3>2. Box[u] = "pending"
      BY <2>1, <2>4 DEF Box, BoxOf
    <3>3. Mailbox!Drop(u)
      BY <2>1, <3>1, <3>2 DEF Mailbox!Drop, Mailbox!Become, Box, BoxOf, DroppedOnes
    <3> QED BY <3>3 DEF Mailbox!Next
  <2> QED BY <2>3, <2>4
<1>4. ASSUME SkippedRun \/ Crash \/ Raise PROVE [Mailbox!Next]_(Mailbox!vars)
  <2>1. UNCHANGED <<log, inbox, executed, ignored>> /\ faults' = faults + 1
    BY <1>4 DEF SkippedRun, Crash, Raise
  <2>2. Mailbox!Fault
    BY <2>1 DEF Mailbox!Fault, PostedCommand
  <2> QED BY <2>2 DEF Mailbox!Next
<1>5. ASSUME Store PROVE [Mailbox!Next]_(Mailbox!vars)
  <2>1. PICK u \in toStore : inbox' = [inbox EXCEPT ![u] = "pending"]
    BY <1>5 DEF Store
  <2>2. UNCHANGED <<log, executed, ignored, faults>> /\ u \in UpdateIds
    BY <1>0, <1>5, <2>1 DEF Store
  <2>3. DroppedOnes' = DroppedOnes
    BY <2>2 DEF DroppedOnes, PostedCommand
  <2>4. /\ ~PostedCommand(u) => Box' = Box
        /\ PostedCommand(u) => Box' = [Box EXCEPT ![u] = "pending"]
    BY <2>1, <2>2, MailboxRow DEF RowStates
  <2>5. CASE PostedCommand(u) /\ inbox[u] = "processed"
    <3>1. executed[u] <= 2 * faults
      BY <1>1, <2>1, <2>2 DEF RowChance
    <3>2. Box[u] = "done"
      BY <2>2, <2>5 DEF Box, BoxOf
    <3>3. Mailbox!Reopen(u)
      BY <2>2, <2>3, <2>4, <2>5, <3>1, <3>2
      DEF Mailbox!Reopen, Mailbox!MayRun, Mailbox!Become, Box, BoxOf, DroppedOnes
    <3> QED BY <2>2, <3>3 DEF Mailbox!Next
  <2>6. CASE ~(PostedCommand(u) /\ inbox[u] = "processed")
    <3>1. Box' = Box
      <4>1. PostedCommand(u) => Box[u] = "pending"
        BY <2>2, <2>6 DEF Box, BoxOf
      <4> QED BY <2>2, <2>4, <4>1 DEF Box
    <3> QED BY <2>2, <2>3, <3>1 DEF Mailbox!vars, Box, BoxOf, DroppedOnes
  <2> QED BY <2>5, <2>6
<1>6. ASSUME Execute PROVE [Mailbox!Next]_(Mailbox!vars)
  <2>1. PICK u \in todo : executed' = [executed EXCEPT ![u] = @ + 1]
    BY <1>6 DEF Execute
  <2>2. UNCHANGED <<log, inbox, ignored, faults>> /\ pc = "execute" /\ u \in UpdateIds
    BY <1>0, <1>6, <2>1 DEF Execute
  <2>3. executed[u] <= 2 * faults
    BY <1>1, <2>1, <2>2 DEF RowChance
  <2>4. Box[u] # "absent"
    BY <2>1, <2>2 DEF Box, BoxOf, TodoInv
  <2>5. Box' = Box /\ DroppedOnes' = DroppedOnes
    BY <2>2 DEF Box, BoxOf, DroppedOnes, PostedCommand
  <2>6. Mailbox!Execute(u)
    BY <2>1, <2>2, <2>3, <2>4, <2>5
    DEF Mailbox!Execute, Mailbox!MayRun, Box, BoxOf, DroppedOnes
  <2> QED BY <2>2, <2>6 DEF Mailbox!Next
<1>7. ASSUME MarkProcessed PROVE [Mailbox!Next]_(Mailbox!vars)
  <2>1. PICK u \in todo : IsLeast(u, todo) /\ inbox' = [inbox EXCEPT ![u] = "processed"]
    BY <1>7 DEF MarkProcessed
  <2>2. UNCHANGED <<log, executed, ignored, faults>> /\ pc = "mark" /\ u \in UpdateIds
    BY <1>0, <1>7, <2>1 DEF MarkProcessed
  <2>3. executed[u] > 0 /\ PostedCommand(u)
    BY <2>1, <2>2 DEF SwallowInv, TodoInv
  <2>4. Box' = [Box EXCEPT ![u] = "done"] /\ DroppedOnes' = DroppedOnes
    BY <2>1, <2>2, <2>3, MailboxRow DEF RowStates, DroppedOnes, PostedCommand
  <2>5. CASE inbox[u] = "processed"
    <3>1. Box' = Box
      BY <2>2, <2>3, <2>4, <2>5 DEF Box, BoxOf
    <3> QED BY <2>2, <2>4, <3>1 DEF Mailbox!vars, Box, BoxOf, DroppedOnes
  <2>6. CASE inbox[u] # "processed"
    <3>1. Box[u] = "pending"
      BY <2>2, <2>3, <2>6 DEF Box, BoxOf
    <3>2. Mailbox!Settle(u)
      BY <2>2, <2>3, <2>4, <3>1 DEF Mailbox!Settle, Mailbox!Become, Box, BoxOf, DroppedOnes
    <3> QED BY <2>2, <3>2 DEF Mailbox!Next
  <2> QED BY <2>5, <2>6
<1>8. ASSUME \/ Tick \/ Start \/ Poll \/ StoreDone \/ ListCommands \/ Reply \/ ExecuteDone
             \/ ListDue \/ SendReminder \/ MarkReminder \/ SendDone \/ Record \/ RecordError
             \/ UNCHANGED vars
      PROVE  [Mailbox!Next]_(Mailbox!vars)
  <2>1. UNCHANGED <<log, inbox, executed, ignored, faults>>
    BY <1>8 DEF Tick, Start, Poll, StoreDone, ListCommands, Reply, ExecuteDone, ListDue,
                SendReminder, MarkReminder, SendDone, Record, RecordError, Stage, vars
  <2> QED BY <2>1, MailboxStutter
<1> QED BY <1>2, <1>3, <1>4, <1>5, <1>6, <1>7, <1>8 DEF Next, Cycle

\* The cycle implements the at-least-once mailbox, for any number of updates,
\* limits and faults.
THEOREM MailboxImplemented == Spec => AtLeastOnce
<1>1. Init => Mailbox!Init
  BY DEF Init, Mailbox!Init, PostedCommand
<1>2. Init => DeliveryInv
  BY ConstantsAssumption DEF Init, DeliveryInv, InCycle, UpdateIds
<1>3. Init => ExecutionInv
  BY DEF Init, ExecutionInv, RowChance, DeliveryChance, InCycle, UpdateIds
<1>4. Init => SwallowInv /\ TodoInv
  BY DEF Init, SwallowInv, NoCommandSwallowed, TodoInv
<1>5. TypeOK /\ TypeOK' /\ DeliveryInv /\ ExecutionInv /\ SwallowInv /\ TodoInv /\ [Next]_vars
        => [Mailbox!Next]_(Mailbox!vars)
  BY MailboxStep
<1> QED
  BY <1>1, <1>2, <1>3, <1>4, <1>5, DeliveryStep, ExecutionStep, SwallowStep, TodoStep,
     TypeCorrect, PTL DEF Spec, AtLeastOnce, Mailbox!Spec
=============================================================================
