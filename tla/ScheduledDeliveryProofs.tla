------------------------ MODULE ScheduledDeliveryProofs ------------------------
(***************************************************************************)
(* The scheduled messages for any chats, notices, length of a day and        *)
(* number of choices and faults: whom a run serves, that it serves them, and *)
(* that nobody gets a message or a notice twice but for a fault.            *)
(***************************************************************************)
EXTENDS ScheduledDelivery, FiniteSetTheorems, TLAPS

(* The days                                                                 *)

\* The time a day lasts is not nothing, so times have days, and later times no
\* earlier ones.
LEMMA DayFacts ==
  ASSUME NEW t \in Times
  PROVE  /\ Day(t) \in 1 .. Days
         /\ t + 1 \in Times => Day(t) <= Day(t + 1)
<1>1. PICK n \in Nat : t = n + 1
  <2>1. t - 1 \in Nat /\ t = (t - 1) + 1
    BY ConstantsAssumption, PolicyAssumption DEF Times, MaxTime
  <2> QED BY <2>1
<1>2. /\ TicksPerDay \in Nat \ {0} /\ Days \in Nat \ {0} /\ n < Days * TicksPerDay
      /\ t - 1 = n /\ (t + 1) - 1 = n + 1
  BY <1>1, ConstantsAssumption, PolicyAssumption DEF Times, MaxTime
<1>3. n \div TicksPerDay \in Nat /\ n \div TicksPerDay < Days
  BY <1>2, SMT
<1>4. n \div TicksPerDay <= (n + 1) \div TicksPerDay /\ (n + 1) \div TicksPerDay \in Nat
  BY <1>2, SMT
<1>5. Day(t) = n \div TicksPerDay + 1 /\ Day(t + 1) = (n + 1) \div TicksPerDay + 1
  BY <1>2 DEF Day
<1>6. Days \in Nat
  BY <1>2
<1> QED BY <1>3, <1>4, <1>5, <1>6

-----------------------------------------------------------------------------
(* The policies                                                             *)

PolicyRows == [name : {"own", "alias"}, at : Nat, choice : Choices, id : Nat]

\* The rows of a chat for a slot: the ids are handed out in turn, so the next one
\* is free.
RowsNumbered ==
  \A s \in Slots, c \in Chats :
    /\ IsFiniteSet(policy[s][c])
    /\ \A r \in policy[s][c] : r.id <= Cardinality(policy[s][c])

\* The choice a user made last is written no earlier than any other row.
SaidLast ==
  \A s \in Slots, c \in Chats : \A w \in said[s][c], r \in policy[s][c] : r.at <= w.at

SettingsInv ==
  /\ policy \in [Slots -> [Chats -> SUBSET PolicyRows]] /\ said \in [Slots -> [Chats -> SUBSET PolicyRows]]
  /\ now \in Times
  /\ SettingsOK /\ RowsNumbered /\ SaidLast

\* What SetPolicy leaves of the rows: those of the other name, and the new one.
Written(rows_, new) == {r \in rows_ : r.name # new.name} \union {new}

\* A row that takes the id of the row it replaces, or the next one, keeps the rows
\* numbered and their names and ids unique; there are never more than two.
LEMMA RowsStayNumbered ==
  ASSUME NEW old \in SUBSET PolicyRows, IsFiniteSet(old),
         \A r \in old : r.id \in 1 .. 2 /\ r.id <= Cardinality(old),
         \A r, q \in old : r.name = q.name \/ r.id = q.id => r = q,
         NEW new, new.name \in {"own", "alias"}, new.id \in Nat,
         \/ {r \in old : r.name = new.name} = {} /\ new.id = Cardinality(old) + 1
         \/ \E r \in old : r.name = new.name /\ new.id = r.id
  PROVE  /\ IsFiniteSet(Written(old, new))
         /\ \A r \in Written(old, new) : r.id \in 1 .. 2 /\ r.id <= Cardinality(Written(old, new))
         /\ \A r, q \in Written(old, new) : r.name = q.name \/ r.id = q.id => r = q
<1>0. Cardinality(old) \in Nat
  BY FS_CardinalityType
<1>1. CASE {r \in old : r.name = new.name} = {} /\ new.id = Cardinality(old) + 1
  <2>1. Written(old, new) = old \union {new} /\ new \notin old
    BY <1>1 DEF Written
  <2>2. IsFiniteSet(Written(old, new)) /\ Cardinality(Written(old, new)) = Cardinality(old) + 1
    BY <2>1, FS_AddElement
  <2>3. \A r, q \in old : r = q
    <3>1. \A r, q \in old : r.name = q.name
      BY <1>1 DEF PolicyRows
    <3> QED BY <3>1
  <2>4. Cardinality(old) <= 1
    <3>1. CASE old = {}
      BY <3>1, FS_EmptySet
    <3>2. CASE old # {}
      <4>1. PICK r \in old : old = {r}
        BY <2>3, <3>2
      <4> QED BY <4>1, FS_Singleton
    <3> QED BY <3>1, <3>2
  <2>5. new.id \in 1 .. 2
    BY <1>0, <1>1, <2>4
  <2>6. \A r \in old : r.id # new.id /\ r.id <= Cardinality(old) + 1
    BY <1>0, <1>1
  <2> QED BY <1>0, <1>1, <2>1, <2>2, <2>5, <2>6
<1>2. CASE \E r \in old : r.name = new.name /\ new.id = r.id
  <2>1. PICK r \in old : r.name = new.name /\ new.id = r.id
    BY <1>2
  <2>2. Written(old, new) = (old \ {r}) \union {new} /\ new \notin old \ {r}
    BY <2>1 DEF Written
  <2>3. IsFiniteSet(old \ {r}) /\ Cardinality(old \ {r}) = Cardinality(old) - 1
    BY FS_RemoveElement
  <2>4. IsFiniteSet(Written(old, new)) /\ Cardinality(Written(old, new)) = Cardinality(old)
    BY <1>0, <2>2, <2>3, FS_AddElement
  <2> QED BY <2>1, <2>2, <2>4
<1> QED BY <1>1, <1>2

\* A choice of a user keeps the policies in order.
LEMMA SetPolicyKeeps ==
  ASSUME SettingsInv, now' = now,
         NEW s \in Slots, NEW c \in Chats, NEW n \in {"own", "alias"}, NEW k \in Choices,
         SetPolicy(s, c, n, k)
  PROVE  SettingsInv'
<1> DEFINE old == policy[s][c]
           same == {r \in old : r.name = n}
           new == Row(s, c, n, k)
<1>1. /\ old \in SUBSET PolicyRows /\ IsFiniteSet(old) /\ Cardinality(old) \in Nat
      /\ \A r \in old : r.id \in 1 .. 2 /\ r.id <= Cardinality(old) /\ r.at \in 1 .. now
      /\ \A r \in old : r.name \in Names(s) /\ r.choice \in Choices
      /\ \A r, q \in old : r.name = q.name \/ r.id = q.id => r = q
  BY FS_CardinalityType DEF SettingsInv, SettingsOK, RowsNumbered
<1>2. now \in Nat /\ now >= 1
  BY ConstantsAssumption, PolicyAssumption DEF SettingsInv, Times, MaxTime
<1>3. new.name = n /\ new.at = now /\ new.choice = k
  BY DEF Row
<1>4. new.id \in Nat /\ (\/ same = {} /\ new.id = Cardinality(old) + 1
                        \/ \E r \in old : r.name = n /\ new.id = r.id)
  <2>1. CASE same = {}
    BY <1>1, <2>1 DEF Row
  <2>2. CASE same # {}
    <3>1. (CHOOSE r \in same : TRUE) \in same
      BY <2>2
    <3>2. new.id = (CHOOSE r \in same : TRUE).id
      BY <2>2 DEF Row
    <3> QED BY <1>1, <3>1, <3>2
  <2> QED BY <2>1, <2>2
<1>5. new = [name |-> n, at |-> now, choice |-> k, id |-> new.id]
  BY DEF Row
<1>6. new \in PolicyRows
  BY <1>2, <1>4, <1>5 DEF PolicyRows
<1> HIDE DEF new
<1>7. /\ policy' = [policy EXCEPT ![s][c] = Written(old, new)]
      /\ said' = [said EXCEPT ![s][c] = {new}]
      /\ preferred' = preferred /\ choices' \in 0 .. MaxChoices /\ n \in Names(s)
  <2>1. {r \in old : r.name # n} \union {new} = Written(old, new)
    BY <1>3 DEF Written
  <2>2. /\ policy' = [policy EXCEPT ![s][c] = {r \in old : r.name # n} \union {new}]
        /\ said' = [said EXCEPT ![s][c] = {new}]
        /\ preferred' = preferred /\ choices' = choices + 1 /\ choices < MaxChoices
        /\ n \in Names(s)
    BY DEF SetPolicy, new
  <2>3. choices' \in 0 .. MaxChoices
    BY <2>2, PolicyAssumption DEF SettingsInv, SettingsOK
  <2> QED BY <2>1, <2>2, <2>3
<1>8. /\ IsFiniteSet(Written(old, new))
      /\ \A r \in Written(old, new) : r.id \in 1 .. 2 /\ r.id <= Cardinality(Written(old, new))
      /\ \A r, q \in Written(old, new) : r.name = q.name \/ r.id = q.id => r = q
  BY <1>1, <1>3, <1>4, RowsStayNumbered
<1>9. /\ Written(old, new) \in SUBSET PolicyRows
      /\ \A r \in Written(old, new) : /\ r.name \in Names(s) /\ r.choice \in Choices
                                     /\ r.at \in 1 .. now /\ r.at <= new.at
      /\ new \in Written(old, new)
  BY <1>1, <1>2, <1>3, <1>6, <1>7 DEF Written
<1>10. Cardinality({new}) = 1
  BY FS_Singleton
<1>11. /\ policy' \in [Slots -> [Chats -> SUBSET PolicyRows]]
       /\ said' \in [Slots -> [Chats -> SUBSET PolicyRows]]
       /\ policy'[s][c] = Written(old, new) /\ said'[s][c] = {new}
       /\ \A s2 \in Slots, c2 \in Chats :
            s2 # s \/ c2 # c => policy'[s2][c2] = policy[s2][c2] /\ said'[s2][c2] = said[s2][c2]
  BY <1>6, <1>7, <1>9 DEF SettingsInv
<1>12. ASSUME NEW s2 \in Slots, NEW c2 \in Chats
       PROVE  /\ \A r \in policy'[s2][c2] : /\ r.name \in Names(s2) /\ r.choice \in Choices
                                            /\ r.at \in 1 .. now /\ r.id \in 1 .. 2
              /\ \A r, q \in policy'[s2][c2] : r.name = q.name \/ r.id = q.id => r = q
              /\ Cardinality(said'[s2][c2]) <= 1 /\ said'[s2][c2] \subseteq policy'[s2][c2]
              /\ IsFiniteSet(policy'[s2][c2])
              /\ \A r \in policy'[s2][c2] : r.id <= Cardinality(policy'[s2][c2])
              /\ \A w \in said'[s2][c2], r \in policy'[s2][c2] : r.at <= w.at
  <2>1. CASE s2 = s /\ c2 = c
    BY <2>1, <1>8, <1>9, <1>10, <1>11
  <2>2. CASE ~(s2 = s /\ c2 = c)
    BY <2>2, <1>11 DEF SettingsInv, SettingsOK, RowsNumbered, SaidLast
  <2> QED BY <2>1, <2>2
<1> QED
  BY <1>7, <1>11, <1>12 DEF SettingsInv, SettingsOK, RowsNumbered, SaidLast

\* The clock leaves the policies in order.
LEMMA TickKeeps ==
  ASSUME SettingsInv, now' = now + 1, now' \in Times, UNCHANGED settings
  PROVE  SettingsInv'
<1>1. now \in Nat /\ \A i \in 1 .. now : i \in 1 .. now'
  BY ConstantsAssumption, PolicyAssumption DEF SettingsInv, Times, MaxTime
<1> QED BY <1>1 DEF SettingsInv, SettingsOK, RowsNumbered, SaidLast, settings

\* The choice a user made last is the row in force, unless an older row was
\* written again within its second.
LEMMA LastSaidDecides ==
  ASSUME SettingsInv, NEW s \in Slots, NEW c \in Chats, NEW w \in said[s][c], ~Overruled(s, c)
  PROVE  policy[s][c] # {} /\ InForce(s, c) = w
<1>1. /\ w \in policy[s][c]
      /\ \A r \in policy[s][c] : r.at \in Nat /\ r.id \in Nat /\ r.at <= w.at
      /\ \A r, q \in policy[s][c] : r.id = q.id => r = q
      /\ \A r \in policy[s][c] : ~(r.at = w.at /\ r.id > w.id)
  BY DEF SettingsInv, SettingsOK, SaidLast, Overruled, PolicyRows
<1>2. \A q \in policy[s][c] : LaterRow(w, q)
  BY <1>1 DEF LaterRow
<1>3. ASSUME NEW r \in policy[s][c], \A q \in policy[s][c] : LaterRow(r, q) PROVE r = w
  <2>1. LaterRow(r, w)
    BY <1>1, <1>3
  <2>2. r.at = w.at /\ r.id = w.id
    BY <1>1, <2>1 DEF LaterRow
  <2> QED BY <1>1, <2>2
<1> QED BY <1>1, <1>2, <1>3 DEF InForce

-----------------------------------------------------------------------------
(* The state of a run                                                       *)

\* A run is of the day it began on; no row is dated later than the run, or than
\* the clock; what a chat is to be sent has not been sent to it on that day, and
\* what has been sent is not sent again.
DatesInOrder ==
  /\ pc = "idle" <=> today = Never
  /\ today <= Day(now)
  /\ \A s \in Slots, c \in Chats :
       /\ sentDate[s][c] <= Day(now)
       /\ pc # "idle" => sentDate[s][c] <= today
  /\ pc = "send" => /\ \A s \in pending : sentDate[s][chat] < today /\ <<s, chat>> \in targets
                    /\ pending \intersect sent = {}
  /\ pc = "idle" => done = {}
  /\ targets \subseteq JobSlots \X Chats

\* No digest is of a time to come; the briefings look at no notices.
NoticesInOrder ==
  /\ \A c \in Chats : lastSentAt[c] <= now
  /\ job = "briefings" => seen = {}

TypeInv == TypeOK /\ SettingsInv /\ DatesInOrder /\ NoticesInOrder

\* The message of slot s for day d has arrived, and the run has yet to date it.
InFlight(s, c, d) == pc = "send" /\ chat = c /\ s \in sent /\ today = d

\* Until a row says that a message was sent on day d, only faults have sent it.
SentOnlyByFaults ==
  \A s \in Slots, c \in Chats, d \in 1 .. Days :
    d > sentDate[s][c] /\ ~InFlight(s, c, d) => sends[s][c][d] <= faults

OnceInv == TypeInv /\ OncePerDay /\ SentOnlyByFaults

\* What the run still owes to the chat it is with.
ChatServed ==
  pc = "send" =>
    \A s \in Slots : <<s, chat>> \in targets =>
      \/ sentDate[s][chat] = today
      \/ s \in pending \/ s \in sent \/ <<s, chat>> \in failed

ServedInv == TypeInv /\ ChatsServed /\ ChatServed

\* The digest that counts time t of notice n has arrived, and the run has yet to
\* write when.
CountInFlight(n, t) == pc = "send" /\ sent # {} /\ <<n, t>> \in seen

\* A time later than its user's last digest has been counted by faults only; what
\* a digest counts is its user's and later than the last one.
CountedOnlyByFaults ==
  /\ \A n \in Notices, t \in Times :
       t > lastSentAt[owner[n]] /\ ~CountInFlight(n, t) => counted[n][t] <= faults
  /\ \A n \in Notices, t \in Times :
       <<n, t>> \in seen => owner[n] = chat /\ t > lastSentAt[chat]

CountInv == TypeInv /\ NoticeCountedOnce /\ CountedOnlyByFaults

\* No digest will count notice n, for one of the reasons NoticePassedOver names.
Excepted(n) == n \in late \/ createdAt[n] + TicksPerDay <= firstRead[owner[n]]

\* What the run leaves out of the digest it is sending has been dealt with before,
\* or is excepted.
ListComplete ==
  job = "digest" /\ pc = "send" =>
    \A n \in Notices :
      owner[n] = chat /\ createdAt[n] # Never
        => \/ <<n, createdAt[n]>> \in seen
           \/ createdAt[n] <= lastSentAt[chat]
           \/ Excepted(n)

\* A digest that has been sent has counted all it lists.
SentCounts == \A n \in Notices, t \in Times : CountInFlight(n, t) => counted[n][t] > 0

PassInv == TypeInv /\ NoticePassedOver /\ ListComplete /\ SentCounts

-----------------------------------------------------------------------------
(* Types                                                                    *)

\* The slots of a job are slots.
LEMMA JobSlotsAreSlots == JobSlots \subseteq Slots
BY DEF JobSlots, Briefings, Slots

\* Messages that arrived, by slot, chat and day.
Arrivals == [Slots -> [Chats -> [1 .. Days -> Nat]]]

\* One more message of slot s for day d has arrived at chat c.
OneMore(x, s, c, d) == [x EXCEPT ![s][c][d] = @ + 1]

\* Only that count changes, and it grows by one.
LEMMA OneMoreCounts ==
  ASSUME NEW x \in Arrivals,
         NEW s \in Slots, NEW c \in Chats, NEW d \in 1 .. Days
  PROVE  /\ OneMore(x, s, c, d) \in Arrivals
         /\ OneMore(x, s, c, d)[s][c][d] = x[s][c][d] + 1
         /\ \A s2 \in Slots, c2 \in Chats, d2 \in 1 .. Days :
              s2 # s \/ c2 # c \/ d2 # d => OneMore(x, s, c, d)[s2][c2][d2] = x[s2][c2][d2]
<1> DEFINE xs == x[s]
           xsc == x[s][c]
           ysc == [xsc EXCEPT ![d] = xsc[d] + 1]
           ys == [xs EXCEPT ![c] = ysc]
<1>1. xs \in [Chats -> [1 .. Days -> Nat]] /\ xsc \in [1 .. Days -> Nat] /\ xsc[d] \in Nat
  BY DEF Arrivals
<1>2. OneMore(x, s, c, d) = [x EXCEPT ![s] = ys]
  BY DEF OneMore
<1> HIDE DEF xs, xsc
<1>3. ysc \in [1 .. Days -> Nat] /\ ysc[d] = xsc[d] + 1
      /\ \A d2 \in 1 .. Days : d2 # d => ysc[d2] = xsc[d2]
  BY <1>1
<1>4. ys \in [Chats -> [1 .. Days -> Nat]] /\ ys[c] = ysc
      /\ \A c2 \in Chats : c2 # c => ys[c2] = xs[c2]
  BY <1>1, <1>3
<1> QED BY <1>1, <1>2, <1>3, <1>4 DEF Arrivals, xs, xsc

\* The list of the digest is counted once more.
CountSeen ==
  [n \in Notices |-> [t \in Times |-> IF <<n, t>> \in seen THEN counted[n][t] + 1 ELSE counted[n][t]]]

\* What a step of Send does to the counts, the results and the faults.
SendOutcome(s) ==
  \/ /\ sends' = OneMore(sends, s, chat, today)
     /\ counted' = CountSeen
     /\ \/ sent' = sent \union {s} /\ UNCHANGED <<failed, faults>>
        \/ /\ faults < MaxFaults /\ faults' = faults + 1
           /\ failed' = failed \union {<<s, chat>>} /\ UNCHANGED sent
  \/ failed' = failed \union {<<s, chat>>} /\ UNCHANGED <<sent, sends, counted, faults>>

\* The outcomes of Send.
LEMMA SendOutcomes ==
  ASSUME NEW s \in Slots, Send(s)
  PROVE  /\ pc = "send" /\ s \in pending /\ pending' = pending \ {s} /\ SendOutcome(s)
         /\ UNCHANGED <<job, now, settings, rows, notices, pc, today, targets, done, chat, seen, passed>>
BY DEF Send, SendOutcome, OneMore, Arrives, Fault, CountSeen

\* Every step keeps the types, the policies, the dates and the notices in order.
LEMMA TypeStep == TypeInv /\ [Next]_vars => TypeInv'
<1> USE ConstantsAssumption, PolicyAssumption, JobSlotsAreSlots
<1> SUFFICES ASSUME TypeInv, [Next]_vars PROVE TypeInv'
  OBVIOUS
<1>0. TypeOK /\ SettingsInv /\ DatesInOrder /\ NoticesInOrder
  BY DEF TypeInv
<1>d. now \in Nat /\ now >= 1 /\ Day(now) \in 1 .. Days /\ today \in Nat /\ Days \in Nat
      /\ now \in 0 .. MaxTime
  BY <1>0, DayFacts DEF SettingsInv, Times, MaxTime, TypeOK
<1>1. ASSUME Tick PROVE TypeInv'
  <2>1. now' = now + 1 /\ now' \in Times /\ UNCHANGED settings
    BY <1>1, <1>d DEF Tick, Times, MaxTime
  <2>2. SettingsInv'
    BY <1>0, <2>1, TickKeeps
  <2>3. Day(now) <= Day(now') /\ Day(now') \in 1 .. Days
    BY <1>0, <2>1, DayFacts DEF SettingsInv
  <2>4. TypeOK'
    <3>1. /\ createdAt' \in [Notices -> 0 .. now'] /\ given' \in [Notices -> SUBSET (1 .. now')]
          /\ firstRead' \in [Chats -> 0 .. now'] /\ seen' \subseteq Notices \X (1 .. now')
      <4>1. 0 .. now \subseteq 0 .. now' /\ 1 .. now \subseteq 1 .. now'
        BY <1>d, <2>1
      <4>2. UNCHANGED <<createdAt, given, firstRead, seen>>
        BY <1>1 DEF Tick, notices, run, history, passed
      <4>3. SUBSET (1 .. now) \subseteq SUBSET (1 .. now')
            /\ Notices \X (1 .. now) \subseteq Notices \X (1 .. now')
        BY <4>1
      <4> QED BY <1>0, <4>1, <4>2, <4>3 DEF TypeOK
    <3>2. UNCHANGED <<job, sentDate, lastSentAt, owner, pc, today, targets, failed, done, chat,
                      pending, sent, seen, sends, counted, late, faults>>
      BY <1>1 DEF Tick, rows, notices, run, history, passed
    <3>3. JobSlots' = JobSlots /\ now' \in Times /\ SettingsOK'
      BY <2>2, <3>2 DEF JobSlots, SettingsInv
    <3> QED BY <1>0, <3>1, <3>2, <3>3 DEF TypeOK
  <2>5. DatesInOrder'
    <3>1. \A s \in Slots, c \in Chats : sentDate[s][c] \in Nat /\ sentDate[s][c] <= Day(now')
      BY <1>0, <1>d, <2>3 DEF TypeOK, DatesInOrder
    <3>2. UNCHANGED <<sentDate, pc, today, pending, sent, chat, done, targets, job>>
      BY <1>1 DEF Tick, rows, run
    <3> QED BY <1>0, <1>d, <2>3, <3>1, <3>2 DEF DatesInOrder, JobSlots
  <2>6. NoticesInOrder'
    BY <1>0, <1>1, <1>d, <2>1 DEF Tick, rows, notices, run, history, passed, TypeOK, NoticesInOrder
  <2> QED BY <2>2, <2>4, <2>5, <2>6 DEF TypeInv
<1>2. ASSUME NEW n \in Notices, Modify(n) PROVE TypeInv'
  <2>1. SettingsInv' /\ DatesInOrder'
    <3>1. UNCHANGED <<now, preferred, policy, said, choices, sentDate, pc, today, pending, sent, chat,
                      done, targets, job>>
      BY <1>2 DEF Modify, settings, rows, run
    <3>2. SettingsInv'
      BY <1>0, <3>1 DEF SettingsInv, SettingsOK, RowsNumbered, SaidLast
    <3>3. DatesInOrder'
      BY <1>0, <3>1 DEF DatesInOrder, JobSlots
    <3> QED BY <3>2, <3>3
  <2>2. TypeOK'
    <3>1. given' \in [Notices -> SUBSET (1 .. now)]
      <4>1. given[n] \union {now} \in SUBSET (1 .. now)
        BY <1>0, <1>d DEF TypeOK
      <4>2. given' = [given EXCEPT ![n] = given[n] \union {now}]
        BY <1>2 DEF Modify
      <4> QED BY <1>0, <4>1, <4>2 DEF TypeOK
    <3>2. UNCHANGED <<job, now, sentDate, lastSentAt, createdAt, owner, pc, today, targets, failed,
                      done, chat, pending, sent, seen, sends, counted, late, firstRead, faults>>
      BY <1>2 DEF Modify, rows, run, history, passed
    <3> QED BY <1>0, <2>1, <3>1, <3>2 DEF TypeOK, SettingsInv, JobSlots
  <2>3. NoticesInOrder'
    BY <1>0, <1>2, <1>d DEF Modify, rows, run, history, passed, TypeOK, NoticesInOrder
  <2> QED BY <2>1, <2>2, <2>3 DEF TypeInv
<1>3. ASSUME NEW n \in Notices, Collect(n) PROVE TypeInv'
  <2>0. PICK t \in given[n] : createdAt' = [createdAt EXCEPT ![n] = t]
    BY <1>3 DEF Collect
  <2>1. /\ UNCHANGED <<now, preferred, policy, said, choices, sentDate, pc, today, pending, sent, chat,
                      done, targets, job, lastSentAt, owner, given, failed, seen, sends, counted,
                      firstRead, faults>>
        /\ late' \subseteq Notices
    BY <1>0, <1>3 DEF Collect, settings, rows, run, TypeOK
  <2>2. createdAt' \in [Notices -> 0 .. now]
    BY <1>0, <1>d, <2>0 DEF TypeOK
  <2>3. SettingsInv' /\ DatesInOrder' /\ NoticesInOrder'
    BY <1>0, <2>1 DEF SettingsInv, SettingsOK, RowsNumbered, SaidLast, DatesInOrder, JobSlots,
                      NoticesInOrder
  <2>4. TypeOK'
    BY <1>0, <2>1, <2>2, <2>3 DEF TypeOK, SettingsInv, JobSlots
  <2> QED BY <2>3, <2>4 DEF TypeInv
<1>4. ASSUME NEW s \in Slots, NEW c \in Chats, NEW n \in {"own", "alias"}, NEW k \in Choices,
             Ask(s, c, n, k)
      PROVE  TypeInv'
  <2>1. SettingsInv'
    BY <1>0, <1>4, SetPolicyKeeps DEF Ask
  <2>2. TypeOK' /\ NoticesInOrder' /\ DatesInOrder'
    BY <1>0, <1>4, <2>1 DEF Ask, rows, notices, run, history, passed, TypeOK, SettingsInv, JobSlots,
                            NoticesInOrder, DatesInOrder
  <2> QED BY <2>1, <2>2 DEF TypeInv
<1>5. SUFFICES ASSUME UNCHANGED <<job, now, settings, notices>> PROVE TypeInv'
  BY <1>1, <1>2, <1>3, <1>4
     DEF Next, Begin, SkipChat, OpenChat, Send, WriteBriefings, WriteDigest, End, Abort, vars
<1>6. SettingsInv' /\ JobSlots' = JobSlots /\ Day(now') = Day(now)
  BY <1>0, <1>5 DEF settings, SettingsInv, SettingsOK, RowsNumbered, SaidLast, JobSlots
<1>7. SUFFICES TypeOK' /\ DatesInOrder' /\ NoticesInOrder'
  BY <1>6 DEF TypeInv
<1>8. ASSUME Begin PROVE TypeOK' /\ DatesInOrder' /\ NoticesInOrder'
  <2>1. targets' \subseteq JobSlots \X Chats /\ today' \in 1 .. Days /\ today' = Day(now)
    BY <1>8, <1>d DEF Begin, Selections
  <2>2. TypeOK'
    <3>1. targets' \subseteq Slots \X Chats /\ today' \in 0 .. Days
      BY <2>1, <1>d
    <3>2. /\ pc = "idle" /\ pc' = "next" /\ done' = {} /\ failed' = {}
          /\ UNCHANGED <<sentDate, lastSentAt, sends, counted, late, firstRead, faults, chat, pending,
                        sent, seen>>
      BY <1>8 DEF Begin, rows, history, passed
    <3> QED BY <1>0, <1>5, <1>6, <3>1, <3>2 DEF notices, TypeOK, SettingsInv
  <2>3. pc' = "next" /\ done' = {} /\ UNCHANGED sentDate
    BY <1>8 DEF Begin, rows
  <2>4. DatesInOrder'
    BY <1>0, <1>6, <1>d, <2>1, <2>3 DEF DatesInOrder, Never
  <2>5. NoticesInOrder'
    BY <1>0, <1>5, <1>8 DEF Begin, rows, notices, NoticesInOrder
  <2> QED BY <2>2, <2>4, <2>5
<1>9. ASSUME NEW c \in Chats, SkipChat(c) PROVE TypeOK' /\ DatesInOrder' /\ NoticesInOrder'
  <2>1. /\ pc = "next" /\ done' = done \union {c}
        /\ UNCHANGED <<sentDate, lastSentAt, pc, today, targets, chat, pending, sent, seen, failed,
                       sends, counted, late, firstRead, faults>>
    BY <1>9 DEF SkipChat, NextChat, rows, history, passed
  <2>2. TypeOK'
    BY <1>0, <1>5, <1>6, <2>1 DEF notices, TypeOK, SettingsInv
  <2>3. DatesInOrder' /\ NoticesInOrder'
    BY <1>0, <1>5, <1>6, <2>1 DEF notices, DatesInOrder, NoticesInOrder
  <2> QED BY <2>2, <2>3
<1>10. ASSUME NEW c \in Chats, OpenChat(c) PROVE TypeOK' /\ DatesInOrder' /\ NoticesInOrder'
  <2>1. {<<n, createdAt[n]>> : n \in NewNotices(c)} \subseteq Notices \X (1 .. now)
    BY <1>0, <1>d DEF NewNotices, TypeOK, Never
  <2>2. \A s \in Pending(c) : s \in Slots /\ <<s, c>> \in targets /\ sentDate[s][c] # today
    BY DEF Pending
  <2>3. Pending(c) \subseteq JobSlots
    BY <1>0, <2>2 DEF DatesInOrder
  <2>4. /\ pc = "next" /\ pc' = "send" /\ chat' = c /\ pending' = Pending(c) /\ sent' = {}
        /\ seen' \subseteq Notices \X (1 .. now) /\ (job = "briefings" => seen' = {})
        /\ UNCHANGED <<sentDate, lastSentAt, today, targets, done, failed, sends, counted, late, faults>>
        /\ firstRead' \in [Chats -> 0 .. now]
    BY <1>0, <1>d, <1>10, <2>1 DEF OpenChat, NextChat, rows, TypeOK
  <2>5. TypeOK'
    BY <1>0, <1>5, <1>6, <2>3, <2>4 DEF notices, TypeOK, SettingsInv
  <2>6. \A s \in Slots : sentDate[s][c] \in Nat /\ sentDate[s][c] <= today
    BY <1>0, <2>4 DEF DatesInOrder, TypeOK
  <2>7. DatesInOrder'
    BY <1>0, <1>d, <1>6, <2>2, <2>4, <2>6 DEF DatesInOrder
  <2>8. NoticesInOrder'
    BY <1>0, <1>5, <2>4 DEF notices, NoticesInOrder
  <2> QED BY <2>5, <2>7, <2>8
<1>11. ASSUME NEW s \in Slots, Send(s) PROVE TypeOK' /\ DatesInOrder' /\ NoticesInOrder'
  <2>1. /\ pc = "send" /\ s \in pending /\ pending' = pending \ {s} /\ SendOutcome(s)
        /\ UNCHANGED <<sentDate, lastSentAt, pc, today, targets, done, chat, seen, late, firstRead>>
    BY <1>11, SendOutcomes DEF rows, passed
  <2>2. today \in 1 .. Days /\ chat \in Chats /\ <<s, chat>> \in targets
    BY <1>0, <1>d, <2>1 DEF TypeOK, DatesInOrder, Never
  <2>3. /\ sends' \in [Slots -> [Chats -> [1 .. Days -> Nat]]]
        /\ counted' \in [Notices -> [Times -> Nat]] /\ faults' \in 0 .. MaxFaults
        /\ failed' \subseteq targets /\ sent' \subseteq JobSlots
        /\ sent' \subseteq sent \union {s}
    <3>1. OneMore(sends, s, chat, today) \in Arrivals
      <4>1. sends \in Arrivals
        BY <1>0 DEF TypeOK, Arrivals
      <4> QED BY <4>1, <2>2, OneMoreCounts
    <3>2. counted' \in [Notices -> [Times -> Nat]]
      <4>1. CountSeen \in [Notices -> [Times -> Nat]]
        BY <1>0 DEF CountSeen, TypeOK
      <4> QED BY <1>0, <2>1, <4>1 DEF SendOutcome, TypeOK
    <3>3. sends' \in [Slots -> [Chats -> [1 .. Days -> Nat]]]
      BY <1>0, <2>1, <3>1 DEF SendOutcome, TypeOK, Arrivals
    <3>4. faults' \in 0 .. MaxFaults
      BY <1>0, <2>1 DEF SendOutcome, TypeOK
    <3>5. failed' \subseteq targets /\ sent' \subseteq JobSlots /\ sent' \subseteq sent \union {s}
      BY <1>0, <2>1, <2>2 DEF SendOutcome, TypeOK
    <3> QED BY <3>2, <3>3, <3>4, <3>5
  <2>4. TypeOK'
    BY <1>0, <1>5, <1>6, <2>1, <2>3 DEF notices, TypeOK, SettingsInv
  <2>5. DatesInOrder'
    BY <1>0, <1>6, <2>1, <2>3 DEF DatesInOrder
  <2>6. NoticesInOrder'
    BY <1>0, <1>5, <2>1 DEF notices, NoticesInOrder
  <2> QED BY <2>4, <2>5, <2>6
<1>12. ASSUME WriteBriefings \/ WriteDigest PROVE TypeOK' /\ DatesInOrder' /\ NoticesInOrder'
  <2>1. /\ pc = "send" /\ pc' = "next" /\ pending = {} /\ SetDates /\ LeaveChat
        /\ UNCHANGED <<today, targets, pending, failed, sends, counted, late, firstRead, faults>>
    BY <1>12 DEF WriteBriefings, WriteDigest, LeaveChat, history, passed
  <2>2. chat \in Chats /\ today \in 1 .. Days
    BY <1>0, <1>d, <2>1 DEF TypeOK, DatesInOrder, Never
  <2>3. /\ sentDate' \in [Slots -> [Chats -> 0 .. Days]]
        /\ \A s \in Slots, c \in Chats : sentDate'[s][c] \in {sentDate[s][c], today}
    <3>1. \A s \in Slots : /\ sentDate[s] \in [Chats -> 0 .. Days]
                          /\ [sentDate[s] EXCEPT ![chat] = today] \in [Chats -> 0 .. Days]
      BY <1>0, <2>2 DEF TypeOK
    <3>2. \A s \in Slots, c \in Chats :
            [sentDate[s] EXCEPT ![chat] = today][c] \in {sentDate[s][c], today}
      BY <3>1
    <3>3. sentDate' = [s \in Slots |-> IF s \in sent THEN [sentDate[s] EXCEPT ![chat] = today]
                                      ELSE sentDate[s]]
      BY <2>1 DEF SetDates
    <3> QED BY <3>1, <3>2, <3>3
  <2>4. /\ lastSentAt' \in [Chats -> 0 .. MaxTime]
        /\ \A c \in Chats : lastSentAt'[c] <= now
    <3>1. lastSentAt \in [Chats -> 0 .. MaxTime] /\ \A c \in Chats : lastSentAt[c] <= now
      BY <1>0 DEF TypeOK, NoticesInOrder
    <3>2. lastSentAt' = lastSentAt \/ lastSentAt' = [lastSentAt EXCEPT ![chat] = now]
      BY <1>12 DEF WriteBriefings, WriteDigest
    <3> QED BY <3>1, <3>2, <1>d, <2>2
  <2>5. done' \subseteq Chats /\ chat' = NoChat /\ sent' = {} /\ seen' = {}
    BY <1>0, <2>1, <2>2 DEF LeaveChat, TypeOK
  <2>6. TypeOK'
    BY <1>0, <1>5, <1>6, <2>1, <2>3, <2>4, <2>5 DEF notices, TypeOK, SettingsInv
  <2>7. DatesInOrder'
    <3>1. \A s \in Slots, c \in Chats : sentDate'[s][c] <= today /\ today <= Day(now)
      BY <1>0, <1>d, <2>1, <2>3 DEF DatesInOrder
    <3>2. \A s \in Slots, c \in Chats : sentDate'[s][c] <= Day(now)
      BY <1>d, <2>3, <3>1, <1>0 DEF DatesInOrder
    <3> QED BY <1>0, <1>6, <2>1, <3>1, <3>2 DEF DatesInOrder
  <2>8. NoticesInOrder'
    BY <1>0, <1>5, <2>4, <2>5 DEF notices, NoticesInOrder
  <2> QED BY <2>6, <2>7, <2>8
<1>13. ASSUME End \/ Abort PROVE TypeOK' /\ DatesInOrder' /\ NoticesInOrder'
  <2>1. /\ ClearRun /\ UNCHANGED <<sentDate, lastSentAt, sends, counted, late, firstRead>>
        /\ faults' \in 0 .. MaxFaults
    BY <1>0, <1>13 DEF End, Abort, Fault, rows, history, passed, TypeOK
  <2>2. TypeOK'
    BY <1>0, <1>5, <1>6, <2>1 DEF ClearRun, notices, TypeOK, SettingsInv, Never
  <2>3. DatesInOrder'
    BY <1>0, <1>d, <1>6, <2>1 DEF ClearRun, DatesInOrder, Never
  <2>4. NoticesInOrder'
    BY <1>0, <1>5, <2>1 DEF ClearRun, notices, NoticesInOrder
  <2> QED BY <2>2, <2>3, <2>4
<1>14. ASSUME UNCHANGED vars PROVE TypeOK' /\ DatesInOrder' /\ NoticesInOrder'
  <2>1. UNCHANGED <<job, now, sentDate, lastSentAt, createdAt, owner, given, pc, today, targets, failed,
                    done, chat, pending, sent, seen, sends, counted, late, firstRead, faults>>
    BY <1>14 DEF vars, rows, notices, run, history, passed
  <2>2. TypeOK'
    BY <1>0, <1>6, <2>1 DEF TypeOK, SettingsInv
  <2> QED BY <1>0, <1>6, <2>1, <2>2 DEF DatesInOrder, NoticesInOrder
<1>15. ASSUME Tick \/ (\E n \in Notices : Modify(n) \/ Collect(n))
              \/ (\E s \in Slots, c \in Chats, n \in {"own", "alias"}, k \in Choices : Ask(s, c, n, k))
       PROVE  TypeOK' /\ DatesInOrder' /\ NoticesInOrder'
  BY <1>1, <1>2, <1>3, <1>4, <1>15 DEF TypeInv
<1> QED
  BY <1>8, <1>9, <1>10, <1>11, <1>12, <1>13, <1>14, <1>15 DEF Next

\* The initial states.
LEMMA TypeInit == Init => TypeInv
<1> USE ConstantsAssumption, PolicyAssumption
<1> SUFFICES ASSUME Init PROVE TypeInv
  OBVIOUS
<1>1. IsFiniteSet({}) /\ Cardinality({}) = 0
  BY FS_EmptySet
<1>2. now \in Times /\ now = 1 /\ Day(now) \in 1 .. Days /\ MaxTime \in Nat
  <2>1. MaxTime \in Nat /\ MaxTime >= 1
    BY SMT DEF MaxTime
  <2>2. now \in Times /\ now = 1
    BY <2>1 DEF Init, Times
  <2> QED BY <2>1, <2>2, DayFacts
<1>3. SettingsInv
  <2>1. /\ policy \in [Slots -> [Chats -> SUBSET PolicyRows]]
        /\ said \in [Slots -> [Chats -> SUBSET PolicyRows]]
        /\ \A s \in Slots, c \in Chats : policy[s][c] = {} /\ said[s][c] = {}
        /\ preferred \in [Chats -> BOOLEAN] /\ choices = 0
    BY DEF Init, SettingsInit
  <2>2. SettingsOK
    <3>1. choices \in 0 .. MaxChoices
      BY <2>1
    <3>2. ASSUME NEW s \in Slots, NEW c \in Chats PROVE Cardinality(said[s][c]) <= 1
      <4>1. Cardinality(said[s][c]) = 0
        BY <1>1, <2>1
      <4> QED BY <4>1
    <3> QED BY <2>1, <3>1, <3>2 DEF SettingsOK
  <2>3. RowsNumbered /\ SaidLast
    BY <1>1, <2>1 DEF RowsNumbered, SaidLast
  <2> QED BY <1>2, <2>1, <2>2, <2>3 DEF SettingsInv
<1>4. TypeOK
  <2>1. \A n \in Notices : createdAt[n] = 0 /\ given[n] = {}
    BY DEF Init, Never
  <2> QED BY <1>2, <1>3, <2>1 DEF Init, TypeOK, SettingsInv, Never
<1>5. DatesInOrder /\ NoticesInOrder
  BY <1>2 DEF Init, DatesInOrder, NoticesInOrder, Never
<1> QED BY <1>3, <1>4, <1>5 DEF TypeInv

\* The types, and the order of the rows, dates and notices, hold in every behaviour.
THEOREM TypeCorrect == Spec => []TypeInv
BY TypeInit, TypeStep, PTL DEF Spec

-----------------------------------------------------------------------------
(* To whom the messages go                                                  *)

\* A run serves a chat as its user asked last, whatever names the rows have and
\* whichever of them were written again: _notification_policies_for_dispatch of
\* jobs/pipeline.py and db.py's order of the rows.
THEOREM LastChoiceDecides == Spec => AsAskedLast
<1>1. ASSUME TypeInv, Begin, NEW s \in JobSlots \intersect Reached(now), NEW c \in Chats
      PROVE  \/ said[s][c] = {} \/ Overruled(s, c)
             \/ \E w \in said[s][c] : <<s, c>> \in targets' <=> Matches(w.choice, now)
  <2> SUFFICES ASSUME said[s][c] # {}, ~Overruled(s, c)
               PROVE  \E w \in said[s][c] : <<s, c>> \in targets' <=> Matches(w.choice, now)
    OBVIOUS
  <2>1. PICK w \in said[s][c] : TRUE
    OBVIOUS
  <2>2. s \in Slots
    BY JobSlotsAreSlots
  <2>3. policy[s][c] # {} /\ InForce(s, c) = w
    BY <1>1, <2>1, <2>2, LastSaidDecides DEF TypeInv
  <2>4. c \in Selected(s) <=> Matches(w.choice, now)
    BY <2>3 DEF Selected
  <2>5. <<s, c>> \in targets' <=> c \in Selected(s)
    BY <1>1 DEF Begin, Selections
  <2> QED BY <2>1, <2>4, <2>5
<1>2. TypeInv =>
        [Begin => \A s \in JobSlots \intersect Reached(now), c \in Chats :
                    \/ said[s][c] = {} \/ Overruled(s, c)
                    \/ \E w \in said[s][c] :
                         <<s, c>> \in targets' <=> Matches(w.choice, now)]_vars
  BY <1>1
<1> QED
  BY <1>2, TypeCorrect, PTL DEF AsAskedLast

-----------------------------------------------------------------------------
(* That everybody is served                                                 *)

\* Every step keeps account of what a run owes to a chat.
LEMMA ServedStep == ServedInv /\ [Next]_vars => ServedInv'
<1> USE ConstantsAssumption, JobSlotsAreSlots
<1> SUFFICES ASSUME TypeInv, ChatsServed, ChatServed, [Next]_vars
             PROVE  ChatsServed' /\ ChatServed'
  BY TypeStep DEF ServedInv
<1>1. TypeOK /\ DatesInOrder
  BY DEF TypeInv
<1>2. ASSUME UNCHANGED <<pc, today, targets, done, chat, pending, sent, failed, sentDate>>
      PROVE  ChatsServed' /\ ChatServed'
  BY <1>2 DEF ChatsServed, ChatServed
<1>3. ASSUME pc' # "send", done' = {} PROVE ChatsServed' /\ ChatServed'
  BY <1>3 DEF ChatsServed, ChatServed
<1>4. ASSUME NEW c \in Chats, SkipChat(c) PROVE ChatsServed' /\ ChatServed'
  <2>1. \A s \in Slots : <<s, c>> \in targets => sentDate[s][c] = today
    BY <1>4 DEF SkipChat, Pending
  <2>2. /\ pc # "send" /\ done' = done \union {c}
        /\ UNCHANGED <<pc, today, targets, failed, sentDate>>
    BY <1>4 DEF SkipChat, NextChat, rows
  <2> QED BY <2>1, <2>2 DEF ChatsServed, ChatServed
<1>5. ASSUME NEW c \in Chats, OpenChat(c) PROVE ChatsServed' /\ ChatServed'
  <2>1. /\ pc' = "send" /\ chat' = c /\ pending' = Pending(c)
        /\ UNCHANGED <<today, targets, done, failed, sentDate>>
    BY <1>5 DEF OpenChat, rows
  <2> QED BY <2>1 DEF ChatsServed, ChatServed, Pending
<1>6. ASSUME NEW s \in Slots, Send(s) PROVE ChatsServed' /\ ChatServed'
  <2>1. /\ pending' = pending \ {s} /\ SendOutcome(s)
        /\ UNCHANGED <<pc, today, targets, done, chat, sentDate>>
    BY <1>6, SendOutcomes DEF rows
  <2>2. /\ failed \subseteq failed' /\ sent \subseteq sent'
        /\ s \in sent' \/ <<s, chat>> \in failed'
    BY <2>1 DEF SendOutcome
  <2> QED BY <2>1, <2>2 DEF ChatsServed, ChatServed
<1>7. ASSUME WriteBriefings \/ WriteDigest PROVE ChatsServed' /\ ChatServed'
  <2>1. /\ pc = "send" /\ pending = {} /\ pc' # "send" /\ done' = done \union {chat}
        /\ UNCHANGED <<today, targets, failed>> /\ SetDates
    BY <1>7 DEF WriteBriefings, WriteDigest, LeaveChat
  <2>2. chat \in Chats
    BY <1>1, <2>1 DEF TypeOK
  <2>3. \A s \in Slots, c \in Chats :
          sentDate'[s][c] = IF s \in sent /\ c = chat THEN today ELSE sentDate[s][c]
    BY <1>1, <2>1, <2>2 DEF SetDates, TypeOK
  <2>4. \A c \in done : c \in Chats
    BY <1>1 DEF TypeOK
  <2> QED BY <2>1, <2>2, <2>3, <2>4 DEF ChatsServed, ChatServed
<1> QED
  BY <1>2, <1>3, <1>4, <1>5, <1>6, <1>7
     DEF Next, Tick, Modify, Collect, Ask, Begin, End, Abort, ClearRun, vars, rows, run

\* When a run is through with a chat, each slot the chat is to get is dated today
\* or its send has failed: send_scheduled_briefings and send_daily_digest of
\* jobs/pipeline.py pass nobody over.
THEOREM NobodyPassedOver == Spec => []ChatsServed
<1>1. Init => ServedInv
  BY TypeInit DEF Init, ServedInv, ChatsServed, ChatServed
<1>2. ServedInv => ChatsServed
  BY DEF ServedInv
<1> QED
  BY <1>1, <1>2, ServedStep, PTL DEF Spec

-----------------------------------------------------------------------------
(* That nobody gets a message twice                                         *)

\* What one chat has of one slot and day, as OncePerDay and SentOnlyByFaults say.
Once(s, c, d) ==
  /\ sends[s][c][d] <= 1 + faults
  /\ d > sentDate[s][c] /\ ~InFlight(s, c, d) => sends[s][c][d] <= faults

\* Every step keeps what one chat has of one slot and day within the bounds.
LEMMA OnceStep ==
  ASSUME OnceInv, [Next]_vars, NEW s \in Slots, NEW c \in Chats, NEW d \in 1 .. Days
  PROVE  Once(s, c, d)'
<1> USE ConstantsAssumption, JobSlotsAreSlots
<1>1. TypeInv /\ TypeOK /\ DatesInOrder /\ Once(s, c, d)
  BY DEF OnceInv, TypeInv, OncePerDay, SentOnlyByFaults, Once
<1>2. /\ faults \in Nat /\ sends[s][c][d] \in Nat /\ d \in Nat
      /\ sentDate[s][c] \in Nat /\ today \in Nat
  BY <1>1 DEF TypeOK
<1>3. ASSUME UNCHANGED <<sends, faults, sentDate, pc, chat, sent, today>> PROVE Once(s, c, d)'
  BY <1>1, <1>3 DEF Once, InFlight
<1>4. ASSUME UNCHANGED <<sends, faults, sentDate>>, pc # "send" \/ sent = {} PROVE Once(s, c, d)'
  BY <1>1, <1>4 DEF Once, InFlight
<1>5. ASSUME NEW s2 \in Slots, Send(s2) PROVE Once(s, c, d)'
  <2>1. /\ pc = "send" /\ s2 \in pending /\ pending' = pending \ {s2} /\ SendOutcome(s2)
        /\ UNCHANGED <<pc, today, chat, sentDate>>
    BY <1>5, SendOutcomes DEF rows
  <2>2. /\ today \in 1 .. Days /\ chat \in Chats /\ sentDate[s2][chat] < today /\ s2 \notin sent
        /\ sends \in Arrivals
    <3>1. today \in 1 .. Days /\ chat \in Chats
      BY <1>1, <1>2, <2>1 DEF TypeOK, DatesInOrder, Never
    <3>2. sentDate[s2][chat] < today /\ s2 \notin sent
      BY <1>1, <2>1 DEF DatesInOrder
    <3>3. sends \in Arrivals
      BY <1>1 DEF TypeOK, Arrivals
    <3> QED BY <3>1, <3>2, <3>3
  <2>3. CASE s = s2 /\ c = chat /\ d = today
    <3>1. sends[s][c][d] <= faults
      BY <1>1, <2>2, <2>3 DEF Once, InFlight
    <3>2. CASE sends' = OneMore(sends, s2, chat, today)
      <4>1. sends'[s][c][d] = sends[s][c][d] + 1
        <5>1. OneMore(sends, s2, chat, today)[s2][chat][today] = sends[s2][chat][today] + 1
          BY <2>2, OneMoreCounts
        <5> QED BY <2>3, <3>2, <5>1
      <4>2. \/ faults' = faults /\ InFlight(s, c, d)'
            \/ faults' = faults + 1
        BY <1>5, <2>1, <2>3, <3>2, <4>1, <1>2 DEF SendOutcome, InFlight
      <4> QED BY <1>2, <3>1, <4>1, <4>2 DEF Once
    <3>3. CASE UNCHANGED <<sent, sends, faults>>
      BY <1>1, <2>1, <3>3 DEF Once, InFlight
    <3> QED BY <2>1, <3>2, <3>3 DEF SendOutcome
  <2>4. CASE ~(s = s2 /\ c = chat /\ d = today)
    <3>1. sends'[s][c][d] = sends[s][c][d]
      <4>1. OneMore(sends, s2, chat, today)[s][c][d] = sends[s][c][d]
        BY <2>2, <2>4, OneMoreCounts
      <4> QED BY <2>1, <4>1 DEF SendOutcome
    <3>2. faults' \in {faults, faults + 1}
      BY <2>1 DEF SendOutcome
    <3>3. InFlight(s, c, d)' <=> InFlight(s, c, d)
      BY <2>1, <2>4 DEF SendOutcome, InFlight
    <3> QED BY <1>1, <1>2, <2>1, <3>1, <3>2, <3>3 DEF Once
  <2> QED BY <2>3, <2>4
<1>6. ASSUME WriteBriefings \/ WriteDigest PROVE Once(s, c, d)'
  <2>1. pc = "send" /\ UNCHANGED <<sends, faults, today>> /\ SetDates
    BY <1>6 DEF WriteBriefings, WriteDigest, history
  <2>2. chat \in Chats /\ sentDate[s][c] <= today
    BY <1>1, <2>1 DEF TypeOK, DatesInOrder
  <2>3. sentDate'[s][c] = IF s \in sent /\ c = chat THEN today ELSE sentDate[s][c]
    BY <1>1, <2>1, <2>2 DEF SetDates, TypeOK
  <2>4. d > sentDate'[s][c] => d > sentDate[s][c] /\ ~InFlight(s, c, d)
    BY <1>2, <2>2, <2>3 DEF InFlight
  <2> QED BY <1>1, <2>1, <2>4 DEF Once
<1>7. ASSUME Abort PROVE Once(s, c, d)'
  <2>1. UNCHANGED <<sends, sentDate>> /\ faults' = faults + 1
    BY <1>7 DEF Abort, Fault, rows
  <2> QED BY <1>1, <1>2, <2>1 DEF Once
<1>8. ASSUME Begin \/ End \/ (\E c2 \in Chats : SkipChat(c2) \/ OpenChat(c2)) PROVE Once(s, c, d)'
  <2>1. UNCHANGED <<sends, faults, sentDate>> /\ pc # "send"
    BY <1>8 DEF Begin, End, SkipChat, OpenChat, NextChat, rows, history
  <2> QED BY <1>4, <2>1
<1> QED
  BY <1>3, <1>5, <1>6, <1>7, <1>8
     DEF Next, Tick, Modify, Collect, Ask, vars, rows, run, history

\* Every step keeps what all chats have within the bounds.
LEMMA OnceInvStep == OnceInv /\ [Next]_vars => OnceInv'
<1> SUFFICES ASSUME OnceInv, [Next]_vars PROVE OnceInv'
  OBVIOUS
<1>1. TypeInv' /\ TypeOK'
  BY TypeStep DEF OnceInv, TypeInv
<1>2. \A s \in Slots, c \in Chats, d \in 1 .. Days : Once(s, c, d)'
  BY OnceStep
<1> QED BY <1>1, <1>2 DEF OnceInv, OncePerDay, SentOnlyByFaults, Once

\* A chat gets a message of the day once, and once more per fault, whenever and
\* however often the job runs: the dates of the sync_state rows in
\* send_scheduled_briefings and send_daily_digest.
THEOREM SentOncePerDay == Spec => []OncePerDay
<1>1. ASSUME Init PROVE OnceInv
  <2>1. TypeInv /\ TypeOK
    BY <1>1, TypeInit DEF TypeInv
  <2>2. \A s \in Slots, c \in Chats, d \in 1 .. Days : sends[s][c][d] = 0 /\ faults = 0
    BY <1>1 DEF Init
  <2> QED BY <2>1, <2>2 DEF OnceInv, OncePerDay, SentOnlyByFaults
<1>2. OnceInv => OncePerDay
  BY DEF OnceInv
<1> QED
  BY <1>1, <1>2, OnceInvStep, PTL DEF Spec

-----------------------------------------------------------------------------
(* What the digests count                                                   *)

\* Every step keeps the counts within the bounds.
LEMMA CountStep == CountInv /\ [Next]_vars => CountInv'
<1> USE ConstantsAssumption, PolicyAssumption, JobSlotsAreSlots
<1> SUFFICES ASSUME CountInv, [Next]_vars PROVE NoticeCountedOnce' /\ CountedOnlyByFaults'
  BY TypeStep DEF CountInv
<1>1. /\ TypeOK /\ DatesInOrder /\ NoticesInOrder /\ NoticeCountedOnce /\ CountedOnlyByFaults
      /\ now \in Nat /\ now >= 1 /\ faults \in Nat
  <2>1. TypeOK /\ SettingsInv /\ DatesInOrder /\ NoticesInOrder
    BY DEF CountInv, TypeInv
  <2> QED BY <2>1 DEF CountInv, SettingsInv, Times, MaxTime, TypeOK
<1>2. \A n \in Notices : owner[n] \in Chats /\ lastSentAt[owner[n]] \in Nat
  BY <1>1 DEF TypeOK
<1>t. \A n \in Notices, t \in Times : t \in Nat /\ counted[n][t] \in Nat
  <2>1. MaxTime \in Nat
    BY SMT DEF MaxTime
  <2>2. \A t \in Times : t \in Nat
    BY <2>1 DEF Times
  <2> QED BY <1>1, <2>2 DEF TypeOK
<1>3. ASSUME UNCHANGED <<counted, faults, owner, lastSentAt, pc, sent, seen, chat>>
      PROVE  NoticeCountedOnce' /\ CountedOnlyByFaults'
  BY <1>1, <1>3 DEF NoticeCountedOnce, CountedOnlyByFaults, CountInFlight
<1>6. ASSUME NEW c \in Chats, OpenChat(c) PROVE NoticeCountedOnce' /\ CountedOnlyByFaults'
  <2>1. /\ pc # "send" /\ pc' = "send" /\ chat' = c /\ sent' = {}
        /\ seen' = (IF job = "digest" THEN {<<n, createdAt[n]>> : n \in NewNotices(c)} ELSE {})
        /\ UNCHANGED <<counted, faults, owner, lastSentAt>>
    BY <1>6 DEF OpenChat, NextChat, rows, notices
  <2>2. \A n \in NewNotices(c) : n \in Notices /\ owner[n] = c /\ createdAt[n] > lastSentAt[c]
    <3>1. \A n \in Notices : createdAt[n] \in Nat
      BY <1>1 DEF TypeOK
    <3> QED BY <3>1 DEF NewNotices, Never
  <2>3. \A n \in Notices, t \in Times : <<n, t>> \in seen' => owner[n] = c /\ t > lastSentAt[c]
    BY <2>1, <2>2
  <2> QED BY <1>1, <2>1, <2>3 DEF NoticeCountedOnce, CountedOnlyByFaults, CountInFlight
<1>7. ASSUME NEW s \in Slots, Send(s) PROVE NoticeCountedOnce' /\ CountedOnlyByFaults'
  <2>1. /\ pc = "send" /\ s \in pending /\ SendOutcome(s)
        /\ UNCHANGED <<owner, lastSentAt, pc, seen, chat>>
    BY <1>7, SendOutcomes DEF rows, notices
  <2>2. seen # {} => sent = {}
    <3>1. job = "digest" => JobSlots = {"digest"}
      BY DEF JobSlots
    <3>2. /\ pending \subseteq JobSlots /\ sent \subseteq JobSlots /\ pending \intersect sent = {}
          /\ seen # {} => job = "digest"
      BY <1>1, <2>1 DEF TypeOK, DatesInOrder, NoticesInOrder
    <3> QED BY <2>1, <3>1, <3>2
  <2>3. faults' \in Nat /\ faults <= faults'
    BY <1>1, <2>1 DEF SendOutcome
  <2>4. \/ /\ counted' = CountSeen
           /\ sent' # {} \/ faults' = faults + 1
        \/ UNCHANGED <<counted, sent>>
    BY <2>1 DEF SendOutcome
  <2>5. ASSUME NEW n \in Notices, NEW t \in Times
        PROVE  /\ counted'[n][t] <= 1 + faults'
               /\ t > lastSentAt'[owner'[n]] /\ ~CountInFlight(n, t)' => counted'[n][t] <= faults'
    <3>1. CASE <<n, t>> \in seen
      <4>1. counted[n][t] <= faults /\ sent = {}
        BY <1>1, <2>2, <3>1 DEF CountedOnlyByFaults, CountInFlight
      <4>2. \/ counted'[n][t] = counted[n][t]
            \/ counted'[n][t] = counted[n][t] + 1 /\ (sent' # {} \/ faults' = faults + 1)
        BY <2>4, <3>1 DEF CountSeen
      <4> QED BY <1>1, <1>t, <2>1, <2>3, <3>1, <4>1, <4>2 DEF CountInFlight
    <3>2. CASE <<n, t>> \notin seen
      <4>1. counted'[n][t] = counted[n][t]
        BY <2>4, <3>2 DEF CountSeen
      <4>2. counted[n][t] <= 1 + faults
            /\ (t > lastSentAt[owner[n]] => counted[n][t] <= faults)
        BY <1>1, <3>2 DEF CountInFlight, CountedOnlyByFaults, NoticeCountedOnce
      <4> QED BY <1>1, <1>t, <2>1, <2>3, <4>1, <4>2
    <3> QED BY <3>1, <3>2
  <2> QED BY <1>1, <2>1, <2>5 DEF NoticeCountedOnce, CountedOnlyByFaults
<1>8. ASSUME WriteBriefings \/ WriteDigest PROVE NoticeCountedOnce' /\ CountedOnlyByFaults'
  <2>1. /\ pc = "send" /\ pc' # "send" /\ seen' = {}
        /\ UNCHANGED <<counted, faults, owner>>
    BY <1>8 DEF WriteBriefings, WriteDigest, LeaveChat, notices, history
  <2>2. /\ chat \in Chats /\ lastSentAt \in [Chats -> 0 .. MaxTime]
        /\ seen \subseteq Notices \X (1 .. now)
    BY <1>1, <2>1 DEF TypeOK
  <2>3. ASSUME NEW n \in Notices, NEW t \in Times, t > lastSentAt'[owner'[n]]
        PROVE  counted'[n][t] <= faults'
    <3>1. CASE lastSentAt' = lastSentAt /\ (sent = {} \/ seen = {})
      BY <1>1, <2>1, <2>3, <3>1 DEF CountedOnlyByFaults, CountInFlight
    <3>2. CASE lastSentAt' = [lastSentAt EXCEPT ![chat] = now]
      <4>1. <<n, t>> \in seen => owner[n] = chat /\ t <= now
        <5>1. <<n, t>> \in seen => t \in 1 .. now
          BY <2>2
        <5> QED BY <1>1, <5>1 DEF CountedOnlyByFaults
      <4>2. <<n, t>> \notin seen
        BY <1>1, <1>2, <1>t, <2>1, <2>2, <2>3, <3>2, <4>1
      <4>3. t > lastSentAt[owner[n]]
        BY <1>1, <1>2, <1>t, <2>1, <2>2, <2>3, <3>2 DEF NoticesInOrder
      <4> QED BY <1>1, <2>1, <4>2, <4>3 DEF CountedOnlyByFaults, CountInFlight
    <3> QED BY <1>1, <1>8, <3>1, <3>2 DEF WriteBriefings, WriteDigest, NoticesInOrder
  <2> QED BY <1>1, <2>1, <2>3 DEF NoticeCountedOnce, CountedOnlyByFaults
<1>9. ASSUME End \/ Abort PROVE NoticeCountedOnce' /\ CountedOnlyByFaults'
  <2>1. /\ seen' = {} /\ UNCHANGED <<counted, owner, lastSentAt>>
        /\ \/ faults' = faults /\ sent = {}
           \/ faults' = faults + 1
    BY <1>1, <1>9 DEF End, Abort, ClearRun, Fault, rows, notices, history, TypeOK
  <2>2. \A n \in Notices, t \in Times :
          /\ counted[n][t] <= 1 + faults
          /\ faults' = faults + 1 \/ (t > lastSentAt[owner[n]] => counted[n][t] <= faults)
    BY <1>1, <2>1 DEF NoticeCountedOnce, CountedOnlyByFaults, CountInFlight
  <2> QED BY <1>1, <1>t, <2>1, <2>2 DEF NoticeCountedOnce, CountedOnlyByFaults, CountInFlight
<1>10. ASSUME Begin \/ (\E c \in Chats : SkipChat(c)) PROVE NoticeCountedOnce' /\ CountedOnlyByFaults'
  <2>1. /\ UNCHANGED <<counted, faults, owner, lastSentAt, sent, seen, chat>>
        /\ pc # "send" /\ pc' # "send"
    BY <1>10 DEF Begin, SkipChat, NextChat, rows, notices, history
  <2> QED BY <1>1, <2>1 DEF NoticeCountedOnce, CountedOnlyByFaults, CountInFlight
<1>11. ASSUME \E n \in Notices : Modify(n) \/ Collect(n) PROVE NoticeCountedOnce' /\ CountedOnlyByFaults'
  <2>1. UNCHANGED <<counted, faults, owner, lastSentAt, pc, sent, seen, chat>>
    BY <1>11 DEF Modify, Collect, rows, run, history
  <2> QED BY <1>3, <2>1
<1> QED
  BY <1>3, <1>6, <1>7, <1>8, <1>9, <1>10, <1>11
     DEF Next, Tick, Ask, vars, rows, notices, run, history

\* A digest counts a notice once per time of its row, and once more per fault,
\* although notices come in and are edited while a digest is being written:
\* last_sent_at of send_daily_digest.
THEOREM CountedByOneDigest == Spec => []NoticeCountedOnce
<1>1. Init => CountInv
  <2> SUFFICES ASSUME Init PROVE CountInv
    OBVIOUS
  <2>1. \A n \in Notices, t \in Times : counted[n][t] = 0 /\ faults = 0
    BY DEF Init
  <2>2. seen = {}
    BY DEF Init
  <2> QED BY <2>1, <2>2, TypeInit DEF CountInv, NoticeCountedOnce, CountedOnlyByFaults
<1>2. CountInv => NoticeCountedOnce
  BY DEF CountInv
<1> QED
  BY <1>1, <1>2, CountStep, PTL DEF Spec

\* Every step keeps account of the notices no digest counts.
LEMMA PassStep == PassInv /\ [Next]_vars => PassInv'
<1> USE ConstantsAssumption, PolicyAssumption, JobSlotsAreSlots
<1> SUFFICES ASSUME PassInv, [Next]_vars PROVE NoticePassedOver' /\ ListComplete' /\ SentCounts'
  BY TypeStep DEF PassInv
<1>1. /\ TypeOK /\ DatesInOrder /\ NoticesInOrder /\ NoticePassedOver /\ ListComplete /\ SentCounts
      /\ now \in Nat /\ now >= 1
  <2>1. TypeOK /\ SettingsInv /\ DatesInOrder /\ NoticesInOrder
    BY DEF PassInv, TypeInv
  <2> QED BY <2>1 DEF PassInv, SettingsInv, Times, MaxTime
<1>2. \A n \in Notices : /\ owner[n] \in Chats /\ lastSentAt[owner[n]] \in Nat
                        /\ createdAt[n] \in Nat /\ firstRead[owner[n]] \in Nat
  BY <1>1 DEF TypeOK
<1>t. \A n \in Notices, t \in Times : t \in Nat /\ counted[n][t] \in Nat
  <2>1. MaxTime \in Nat
    BY SMT DEF MaxTime
  <2>2. \A t \in Times : t \in Nat
    BY <2>1 DEF Times
  <2> QED BY <1>1, <2>2 DEF TypeOK
<1>u. \A n \in Notices : createdAt[n] # Never => createdAt[n] \in Times
  <2>1. \A n \in Notices : createdAt[n] \in 0 .. now
    BY <1>1 DEF TypeOK
  <2>2. MaxTime \in Nat /\ now <= MaxTime
    BY <1>1, SMT DEF TypeOK, Times, MaxTime
  <2> QED BY <1>1, <2>1, <2>2 DEF Never, Times
<1>3. ASSUME UNCHANGED <<counted, owner, createdAt, lastSentAt, late, firstRead, pc, sent, seen, chat, job>>
      PROVE  NoticePassedOver' /\ ListComplete' /\ SentCounts'
  BY <1>1, <1>3 DEF NoticePassedOver, ListComplete, SentCounts, CountInFlight, Excepted
<1>4. ASSUME UNCHANGED <<counted, owner, createdAt, lastSentAt, late, firstRead>>, pc' # "send"
      PROVE  NoticePassedOver' /\ ListComplete' /\ SentCounts'
  BY <1>1, <1>4 DEF NoticePassedOver, ListComplete, SentCounts, CountInFlight
<1>5. ASSUME NEW m \in Notices, Collect(m) PROVE NoticePassedOver' /\ ListComplete' /\ SentCounts'
  <2>1. PICK t \in given[m] :
          /\ createdAt' = [createdAt EXCEPT ![m] = t]
          /\ late' = CASE t = createdAt[m] -> late
                       [] t # createdAt[m] /\ Passed(owner[m], t) -> late \union {m}
                       [] OTHER -> late \ {m}
    BY <1>5 DEF Collect
  <2>2. UNCHANGED <<counted, owner, lastSentAt, firstRead, pc, sent, seen, chat, job>>
    BY <1>5 DEF Collect, rows, run
  <2>3. t \in Nat /\ createdAt'[m] = t
    BY <1>1, <2>1 DEF TypeOK
  <2>4. \A n \in Notices : n # m => createdAt'[n] = createdAt[n] /\ (n \in late' <=> n \in late)
    BY <1>1, <2>1 DEF TypeOK
  <2>5. CASE t = createdAt[m]
    <3>1. createdAt' = createdAt /\ late' = late
      BY <1>1, <2>1, <2>5 DEF TypeOK
    <3> QED BY <1>3, <2>2, <3>1
  <2>6. CASE t # createdAt[m] /\ Passed(owner[m], t)
    <3>1. m \in late'
      BY <2>1, <2>6
    <3> QED BY <1>1, <2>2, <2>4, <3>1
            DEF NoticePassedOver, ListComplete, SentCounts, CountInFlight, Excepted
  <2>7. CASE t # createdAt[m] /\ ~Passed(owner[m], t)
    <3>1. t > lastSentAt[owner[m]] /\ chat # owner[m]
      BY <1>2, <2>3, <2>7 DEF Passed
    <3> QED BY <1>1, <1>2, <2>2, <2>3, <2>4, <3>1
            DEF NoticePassedOver, ListComplete, SentCounts, CountInFlight, Excepted
  <2> QED BY <2>5, <2>6, <2>7
<1>6. ASSUME NEW c \in Chats, OpenChat(c) PROVE NoticePassedOver' /\ ListComplete' /\ SentCounts'
  <2>1. /\ chat' = c /\ sent' = {}
        /\ seen' = (IF job = "digest" THEN {<<n, createdAt[n]>> : n \in NewNotices(c)} ELSE {})
        /\ firstRead' = (IF job = "digest" /\ lastSentAt[c] = Never
                          THEN [firstRead EXCEPT ![c] = now] ELSE firstRead)
        /\ UNCHANGED <<counted, owner, createdAt, lastSentAt, late, job>>
    BY <1>6 DEF OpenChat, rows, notices
  <2>2. \A n \in Notices : owner[n] # c \/ lastSentAt[c] # Never => firstRead'[owner[n]] = firstRead[owner[n]]
    BY <1>1, <1>2, <2>1 DEF TypeOK
  <2>3. job = "digest" /\ lastSentAt[c] = Never => firstRead'[c] = now
    BY <1>1, <2>1 DEF TypeOK
  <2>4. NoticePassedOver'
    BY <1>1, <1>2, <2>1, <2>2 DEF NoticePassedOver, Never
  <2>5. ListComplete'
    <3> SUFFICES ASSUME job = "digest", NEW n \in Notices, owner[n] = c, createdAt[n] # Never
                 PROVE  \/ <<n, createdAt[n]>> \in seen'
                        \/ createdAt[n] <= lastSentAt[c]
                        \/ createdAt[n] + TicksPerDay <= firstRead'[c]
      BY <2>1 DEF ListComplete, Excepted
    <3>1. CASE n \in NewNotices(c)
      BY <2>1, <3>1
    <3>2. CASE n \notin NewNotices(c)
      BY <1>1, <1>2, <2>3, <3>2 DEF NewNotices
    <3> QED BY <3>1, <3>2
  <2> QED BY <2>1, <2>4, <2>5 DEF SentCounts, CountInFlight
<1>7. ASSUME NEW s \in Slots, Send(s) PROVE NoticePassedOver' /\ ListComplete' /\ SentCounts'
  <2>1. /\ pc = "send" /\ SendOutcome(s)
        /\ UNCHANGED <<owner, createdAt, lastSentAt, late, firstRead, pc, seen, chat, job>>
    BY <1>7, SendOutcomes DEF rows, notices, passed
  <2>2. seen # {} => sent = {}
    <3>1. job = "digest" => JobSlots = {"digest"}
      BY DEF JobSlots
    <3>2. /\ pending \subseteq JobSlots /\ sent \subseteq JobSlots /\ pending \intersect sent = {}
          /\ seen # {} => job = "digest"
      BY <1>1, <2>1 DEF TypeOK, DatesInOrder, NoticesInOrder
    <3>3. s \in pending
      BY <1>7 DEF Send
    <3> QED BY <3>1, <3>2, <3>3
  <2>3. counted' = CountSeen \/ UNCHANGED <<counted, sent>>
    BY <2>1 DEF SendOutcome
  <2>4. \A n \in Notices, t \in Times :
          /\ counted[n][t] > 0 => counted'[n][t] > 0
          /\ CountInFlight(n, t)' => counted'[n][t] > 0
    <3> SUFFICES ASSUME NEW n \in Notices, NEW t \in Times
                 PROVE  /\ counted[n][t] > 0 => counted'[n][t] > 0
                        /\ CountInFlight(n, t)' => counted'[n][t] > 0
      OBVIOUS
    <3>1. CASE counted' = CountSeen
      <4>1. counted'[n][t] = IF <<n, t>> \in seen THEN counted[n][t] + 1 ELSE counted[n][t]
        BY <3>1 DEF CountSeen
      <4> QED BY <1>t, <2>1, <4>1 DEF CountInFlight
    <3>2. CASE UNCHANGED <<counted, sent>>
      BY <2>1, <2>2, <3>2 DEF CountInFlight
    <3> QED BY <2>3, <3>1, <3>2
  <2>5. NoticePassedOver'
    BY <1>1, <1>u, <2>1, <2>4 DEF NoticePassedOver
  <2> QED BY <1>1, <2>1, <2>4, <2>5 DEF ListComplete, SentCounts, Excepted
<1>8. ASSUME WriteBriefings \/ WriteDigest PROVE NoticePassedOver' /\ ListComplete' /\ SentCounts'
  <2>1. /\ pc = "send" /\ pc' # "send" /\ chat \in Chats
        /\ UNCHANGED <<counted, owner, createdAt, late, firstRead>>
    BY <1>1, <1>8 DEF WriteBriefings, WriteDigest, LeaveChat, notices, history, passed, TypeOK
  <2>2. CASE lastSentAt' = lastSentAt
    BY <1>4, <2>1, <2>2
  <2>3. CASE lastSentAt' # lastSentAt
    <3>1. job = "digest" /\ sent # {} /\ lastSentAt' = [lastSentAt EXCEPT ![chat] = now]
      BY <1>8, <2>3 DEF WriteBriefings, WriteDigest
    <3>2. ASSUME NEW n \in Notices, createdAt[n] # Never, createdAt[n] <= lastSentAt'[owner[n]]
          PROVE  counted[n][createdAt[n]] > 0 \/ Excepted(n)
      <4>1. CASE owner[n] = chat
        BY <1>1, <1>u, <2>1, <3>1, <3>2, <4>1
           DEF ListComplete, SentCounts, CountInFlight, NoticePassedOver, Excepted
      <4>2. CASE owner[n] # chat
        <5>1. lastSentAt'[owner[n]] = lastSentAt[owner[n]]
          BY <1>1, <1>2, <3>1, <4>2 DEF TypeOK
        <5> QED BY <1>1, <3>2, <5>1 DEF NoticePassedOver, Excepted
      <4> QED BY <4>1, <4>2
    <3> QED BY <2>1, <3>2 DEF NoticePassedOver, ListComplete, SentCounts, CountInFlight, Excepted
  <2> QED BY <2>2, <2>3
<1>9. ASSUME Begin \/ End \/ Abort \/ (\E c \in Chats : SkipChat(c))
      PROVE  NoticePassedOver' /\ ListComplete' /\ SentCounts'
  <2>1. pc' # "send" /\ UNCHANGED <<counted, owner, createdAt, lastSentAt, late, firstRead>>
    BY <1>9 DEF Begin, End, Abort, SkipChat, NextChat, ClearRun, rows, notices, history, passed
  <2> QED BY <1>4, <2>1
<1>10. ASSUME (\E n \in Notices : Modify(n)) \/ Tick \/ UNCHANGED vars
              \/ \E s \in Slots, c \in Chats, n \in {"own", "alias"}, k \in Choices : Ask(s, c, n, k)
       PROVE  NoticePassedOver' /\ ListComplete' /\ SentCounts'
  <2>1. UNCHANGED <<counted, owner, createdAt, lastSentAt, late, firstRead, pc, sent, seen, chat, job>>
    BY <1>10 DEF Modify, Tick, Ask, vars, rows, notices, run, history, passed
  <2> QED BY <1>3, <2>1
<1> QED
  BY <1>5, <1>6, <1>7, <1>8, <1>9, <1>10 DEF Next

\* A notice before last_sent_at has been counted, unless a collection stored it
\* with a time the digests had passed, or the first digest found it too old:
\* send_daily_digest writes last_sent_at only after a send that worked.
THEOREM NothingElsePassedOver == Spec => []NoticePassedOver
<1>1. Init => PassInv
  <2> SUFFICES ASSUME Init PROVE PassInv
    OBVIOUS
  <2>1. /\ \A n \in Notices : createdAt[n] = Never
        /\ pc = "idle"
    BY DEF Init
  <2> QED BY <2>1, TypeInit DEF PassInv, NoticePassedOver, ListComplete, SentCounts, CountInFlight
<1>2. PassInv => NoticePassedOver
  BY DEF PassInv
<1> QED
  BY <1>1, <1>2, PassStep, PTL DEF Spec

=============================================================================
