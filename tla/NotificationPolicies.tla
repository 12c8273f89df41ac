------------------------ MODULE NotificationPolicies ------------------------
(***************************************************************************)
(* Whom the scheduled messages go to (_chat_ids_for_notification_dispatch   *)
(* of jobs/pipeline.py and the notification_policies of db.py).  Without a   *)
(* policy a chat gets what its connection or its preferences say.  The       *)
(* assistant writes policies under a kind the planner chose, and a slot      *)
(* knows two names for its kind: the rows of both are read, and the one that *)
(* was written last decides.                                                *)
(***************************************************************************)
EXTENDS Naturals, FiniteSets

CONSTANTS
  Chats,
  TicksPerDay,
  Choices,         \* what users ask of the assistant, see Choice
  MaxChoices       \* bound: the policies that are written

\* enabled, days_of_week_json ({}: every day), time_local, and how many ticks
\* the timezone of the policy is ahead of the one of the settings
Choice == [on : BOOLEAN, days : SUBSET Nat, from : Nat, zone : Nat]

ASSUME PolicyAssumption ==
  /\ TicksPerDay \in Nat \ {0} /\ MaxChoices \in Nat
  /\ \A k \in Choices : /\ k.on \in BOOLEAN /\ k.days \subseteq Nat
                        /\ k.from \in Nat /\ k.zone \in Nat

Slots == {"morning", "evening", "digest"}
\* the names of a slot's kind: briefing_morning is also morning_briefing
Names(s) == IF s = "digest" THEN {"own"} ELSE {"own", "alias"}

Day(t) == (t - 1) \div TicksPerDay + 1
TickOfDay(t) == (t - 1) % TicksPerDay

VARIABLES
  now,
  preferred,     \* chat -> whether its connection and preferences select it
  policy,        \* slot -> chat -> its rows of notification_policies
  said,          \* slot -> chat -> the last choice of its user, if any (history)
  choices

settings == <<preferred, policy, said, choices>>

SettingsInit ==
  /\ preferred \in [Chats -> BOOLEAN]
  /\ policy = [s \in Slots |-> [c \in Chats |-> {}]]
  /\ said = [s \in Slots |-> [c \in Chats |-> {}]]
  /\ choices = 0

\* the row of a name keeps its id when it is written again
Row(s, c, n, k) ==
  LET old == {r \in policy[s][c] : r.name = n} IN
  [name |-> n, at |-> now, choice |-> k,
   id |-> IF old = {} THEN Cardinality(policy[s][c]) + 1
          ELSE (CHOOSE r \in old : TRUE).id]

\* upsert_notification_policy, called by the assistant
SetPolicy(s, c, n, k) ==
  /\ choices < MaxChoices /\ choices' = choices + 1
  /\ n \in Names(s)
  /\ policy' = [policy EXCEPT ![s][c] = {r \in @ : r.name # n} \union {Row(s, c, n, k)}]
  /\ said' = [said EXCEPT ![s][c] = {Row(s, c, n, k)}]
  /\ UNCHANGED preferred

Local(k, t) == t + k.zone

\* _notification_policy_matches_reference_time
Matches(k, t) ==
  /\ k.on
  /\ k.days = {} \/ Day(Local(k, t)) \in k.days
  /\ TickOfDay(Local(k, t)) >= k.from

\* the order of the rows: updated_at, which has whole seconds, then id
LaterRow(r, q) == r.at > q.at \/ (r.at = q.at /\ r.id >= q.id)

\* mutant: the row of the slot's own name decides
InForceByName(s, c) ==
  CHOOSE r \in policy[s][c] : r.name = "own" \/ \A q \in policy[s][c] : q.name # "own"
\* _notification_policies_for_dispatch: one row of a user, the last
InForce(s, c) == CHOOSE r \in policy[s][c] : \A q \in policy[s][c] : LaterRow(r, q)

\* _chat_ids_for_notification_dispatch: a policy, also one that does not match,
\* takes the place of the preference
Selected(s) ==
  {c \in Chats : IF policy[s][c] # {} THEN Matches(InForce(s, c).choice, now)
                 ELSE preferred[c]}

SettingsOK ==
  /\ preferred \in [Chats -> BOOLEAN] /\ choices \in 0 .. MaxChoices
  /\ \A s \in Slots, c \in Chats :
       /\ \A r \in policy[s][c] : /\ r.name \in Names(s) /\ r.choice \in Choices
                                  /\ r.at \in 1 .. now /\ r.id \in 1 .. 2
       /\ \A r, q \in policy[s][c] : r.name = q.name \/ r.id = q.id => r = q
       /\ Cardinality(said[s][c]) <= 1 /\ said[s][c] \subseteq policy[s][c]

\* a row with a higher id that was written in the same second
Overruled(s, c) ==
  \E w \in said[s][c], r \in policy[s][c] : r.at = w.at /\ r.id > w.id
=============================================================================
