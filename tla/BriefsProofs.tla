---------------------------- MODULE BriefsProofs ----------------------------
(***************************************************************************)
(* What the user is told: the briefing that the relay delivers, for any    *)
(* threads, keys and faults, and the brief of a day, for any tasks, clock  *)
(* and interleaving.  Each part has its types, the inductive invariants its*)
(* properties need, and the properties.                                    *)
(***************************************************************************)
EXTENDS BriefingRelay, DayBrief, FiniteSetTheorems, SequenceTheorems, WellFoundedInduction, TLAPS

-----------------------------------------------------------------------------
(* The relay of the briefings                                              *)

\* What a thread that has no request keeps: nothing.
IdleEmpty == \A t \in Threads : pc[t] = "idle" => todo[t] = {} /\ sentTo[t] = {}

TypeInv == TypeOK /\ IdleEmpty

\* A payload names a key of the state file and chats.
LEMMA ItemTypes ==
  ASSUME TypeOK, NEW k \in Keys
  PROVE  file[k] \in Items /\ file[k].sent \subseteq Allowed
BY DEF TypeOK, Items, NoItem

\* A chat that gets the item of key k once more.
OneMore(d, k, c) == [d EXCEPT ![k][c] = @ + 1]

\* Only that chat's count for that key changes, and it grows by one.
LEMMA OneMoreCounts ==
  ASSUME NEW d \in [Keys -> [Chats -> Nat]], NEW k \in Keys, NEW c \in Chats
  PROVE  /\ OneMore(d, k, c) \in [Keys -> [Chats -> Nat]]
         /\ OneMore(d, k, c)[k][c] = d[k][c] + 1
         /\ \A k2 \in Keys, c2 \in Chats :
              k2 # k \/ c2 # c => OneMore(d, k, c)[k2][c2] = d[k2][c2]
<1>1. d[k] \in [Chats -> Nat] /\ d[k][c] \in Nat
  OBVIOUS
<1>2. OneMore(d, k, c) = [d EXCEPT ![k] = [d[k] EXCEPT ![c] = d[k][c] + 1]]
  BY DEF OneMore
<1>3. [d[k] EXCEPT ![c] = d[k][c] + 1] \in [Chats -> Nat]
  BY <1>1
<1> QED BY <1>1, <1>2, <1>3

\* The send of thread t to chat c: its three outcomes.
SendTo(t, c) ==
  /\ todo' = [todo EXCEPT ![t] = @ \ {c}]
  /\ \/ /\ sentTo' = [sentTo EXCEPT ![t] = @ \union {c}]
        /\ delivered' = OneMore(delivered, req[t].key, c)
        /\ UNCHANGED faults
     \/ UNCHANGED <<sentTo, delivered, faults>>
     \/ /\ faults < MaxFaults /\ faults' = faults + 1
        /\ delivered' = OneMore(delivered, req[t].key, c)
        /\ UNCHANGED sentTo

\* A step of Send is the send to one of the chats left to do.
LEMMA SendPicks ==
  ASSUME NEW t \in Threads, Send(t)
  PROVE  \E c \in todo[t] : SendTo(t, c)
BY DEF Send, SendTo, OneMore

\* Every step keeps the types.
LEMMA TypeStep == TypeInv /\ [Next]_vars => TypeInv'
<1> USE ConstantsAssumption
<1> SUFFICES ASSUME TypeOK, IdleEmpty, [Next]_vars PROVE TypeOK' /\ IdleEmpty'
  BY DEF TypeInv
<1>1. ASSUME NEW t \in Threads, NEW p \in Payloads, Refuse(t, p) PROVE TypeOK' /\ IdleEmpty'
  <2>1. p.key \in Keys /\ file[p.key].sent \subseteq Allowed
    BY ItemTypes DEF Payloads
  <2>2. requests' \in 0 .. MaxRequests
    BY <1>1 DEF Refuse, TypeOK
  <2> QED BY <1>1, <2>1, <2>2 DEF Refuse, Respond, thread, TypeOK, IdleEmpty
<1>2. ASSUME NEW t \in Threads, NEW p \in Payloads, Receive(t, p) PROVE TypeOK' /\ IdleEmpty'
  <2>1. p.key \in Keys /\ file[p.key].sent \subseteq Allowed /\ p # NoPayload
    BY ItemTypes DEF Payloads
  <2>2. requests' \in 0 .. MaxRequests
    BY <1>2 DEF Receive, TypeOK
  <2> QED BY <1>2, <2>1, <2>2 DEF Receive, TypeOK, IdleEmpty
<1>3. ASSUME NEW t \in Threads, Send(t) PROVE TypeOK' /\ IdleEmpty'
  <2>1. req[t] \in Payloads /\ req[t].key \in Keys
    BY <1>3 DEF Send, TypeOK, Payloads
  <2>2. PICK c \in todo[t] : SendTo(t, c)
    BY <1>3, SendPicks
  <2>3. c \in Allowed /\ c \in Chats
    BY <2>2 DEF TypeOK
  <2>4. delivered' \in [Keys -> [Chats -> Nat]]
    <3>1. CASE delivered' = OneMore(delivered, req[t].key, c)
      BY <3>1, <2>1, <2>3, OneMoreCounts DEF TypeOK
    <3>2. CASE UNCHANGED delivered
      BY <3>2 DEF TypeOK
    <3> QED BY <2>2, <3>1, <3>2 DEF SendTo
  <2>5. faults' \in 0 .. MaxFaults
    BY <2>2 DEF TypeOK, SendTo
  <2>6. todo' \in [Threads -> SUBSET Allowed] /\ sentTo' \in [Threads -> SUBSET Allowed]
    BY <2>2, <2>3 DEF TypeOK, SendTo
  <2>7. IdleEmpty'
    BY <1>3, <2>2 DEF Send, SendTo, IdleEmpty, TypeOK
  <2> QED BY <1>3, <2>4, <2>5, <2>6, <2>7 DEF Send, TypeOK
<1>4. ASSUME NEW t \in Threads, MergeDelivery(t) PROVE TypeOK' /\ IdleEmpty'
  <2>1. req[t] \in Payloads /\ req[t].key \in Keys
    BY <1>4 DEF MergeDelivery, TypeOK, Payloads
  <2>2. Merged(t) \subseteq Allowed
    BY <2>1, ItemTypes DEF Merged, TypeOK
  <2>3. file' \in [Keys -> Items]
    BY <1>4, <2>1, <2>2 DEF MergeDelivery, TypeOK, Items
  <2> QED BY <1>4, <2>1, <2>2, <2>3 DEF MergeDelivery, Respond, Free, TypeOK, IdleEmpty
<1>5. ASSUME NEW t \in Threads, SendFailed(t) PROVE TypeOK' /\ IdleEmpty'
  <2>1. req[t] \in Payloads
    BY <1>5 DEF SendFailed, TypeOK
  <2> QED BY <1>5, <2>1 DEF SendFailed, Respond, Free, TypeOK, IdleEmpty
<1>6. ASSUME NEW t \in Threads, WriteFails(t) PROVE TypeOK' /\ IdleEmpty'
  <2>1. faults' \in 0 .. MaxFaults /\ file' \in [Keys -> Items]
    BY <1>6 DEF WriteFails, TypeOK, Items
  <2> QED BY <1>6, <2>1 DEF WriteFails, Free, TypeOK, IdleEmpty
<1>7. ASSUME Crash PROVE TypeOK' /\ IdleEmpty'
  <2>1. faults' \in 0 .. MaxFaults
    BY <1>7 DEF Crash, TypeOK
  <2> QED BY <1>7, <2>1 DEF Crash, TypeOK, IdleEmpty
<1>8. CASE UNCHANGED vars
  BY <1>8 DEF vars, thread, history, TypeOK, IdleEmpty
<1> QED
  BY <1>1, <1>2, <1>3, <1>4, <1>5, <1>6, <1>7, <1>8 DEF Next

LEMMA TypeInit == Init => TypeInv
BY ConstantsAssumption DEF Init, TypeInv, TypeOK, IdleEmpty, Items

\* Types hold in every behaviour.
THEOREM TypeCorrect == Spec => [](TypeOK /\ IdleEmpty)
<1>1. TypeInv => TypeOK /\ IdleEmpty
  BY DEF TypeInv
<1> QED
  BY <1>1, TypeInit, TypeStep, PTL DEF Spec

-----------------------------------------------------------------------------
(* What the relay says it delivered                                         *)

\* The chats of the state file have their item.
FileTruthful ==
  \A k \in Keys : \A c \in file[k].sent : delivered[k][c] > 0

\* The chats a thread has counted as sent have its item.
ThreadTruthful ==
  \A t \in Threads :
    pc[t] = "send" => \A c \in sentTo[t] : delivered[req[t].key][c] > 0

\* The chats an answer names have its item.
AnswerTruthful ==
  \A a \in answers : \A c \in a.chats : delivered[a.payload.key][c] > 0

TruthInv == TypeInv /\ FileTruthful /\ ThreadTruthful /\ AnswerTruthful

\* No step takes back what a chat received.
LEMMA NothingTakenBack ==
  ASSUME TypeOK, [Next]_vars, NEW k \in Keys, NEW c \in Chats
  PROVE  delivered'[k][c] >= delivered[k][c] /\ delivered[k][c] \in Nat
<1>1. delivered[k][c] \in Nat
  BY DEF TypeOK
<1>2. ASSUME NEW t \in Threads, Send(t) PROVE delivered'[k][c] >= delivered[k][c]
  <2>1. req[t] \in Payloads /\ req[t].key \in Keys
    BY <1>2 DEF Send, TypeOK, Payloads
  <2>2. PICK d \in todo[t] : SendTo(t, d)
    BY <1>2, SendPicks
  <2>3. d \in Chats
    BY <2>2, ConstantsAssumption DEF TypeOK
  <2>4. CASE delivered' = OneMore(delivered, req[t].key, d)
    <3>1. delivered \in [Keys -> [Chats -> Nat]]
      BY DEF TypeOK
    <3>2. CASE k = req[t].key /\ c = d
      BY <3>1, <3>2, <2>1, <2>3, <2>4, <1>1, OneMoreCounts
    <3>3. CASE ~(k = req[t].key /\ c = d)
      <4>1. OneMore(delivered, req[t].key, d)[k][c] = delivered[k][c]
        BY <3>1, <3>3, <2>1, <2>3, OneMoreCounts
      <4> QED BY <4>1, <2>4, <1>1
    <3> QED BY <3>2, <3>3
  <2> QED BY <2>2, <2>4, <1>1 DEF SendTo
<1>3. CASE UNCHANGED delivered
  BY <1>1, <1>3
<1>4. ASSUME ~(\E t \in Threads : Send(t)) PROVE UNCHANGED delivered
  BY <1>4 DEF Next, Refuse, Receive, MergeDelivery, SendFailed, WriteFails, Crash, vars, history
<1> QED BY <1>1, <1>2, <1>3, <1>4

\* Every step keeps the file, the threads and the answers truthful.
LEMMA TruthStep == TruthInv /\ [Next]_vars => TruthInv'
<1> USE ConstantsAssumption
<1> SUFFICES ASSUME TypeInv, FileTruthful, ThreadTruthful, AnswerTruthful, [Next]_vars
             PROVE  FileTruthful' /\ ThreadTruthful' /\ AnswerTruthful'
  BY TypeStep DEF TruthInv
<1>1. TypeOK /\ IdleEmpty /\ TypeOK' /\ IdleEmpty'
  BY TypeStep DEF TypeInv
<1>2. \A k \in Keys, c \in Chats : delivered[k][c] > 0 => delivered'[k][c] > 0
  <2> SUFFICES ASSUME NEW k \in Keys, NEW c \in Chats, delivered[k][c] > 0
               PROVE  delivered'[k][c] > 0
    OBVIOUS
  <2>1. delivered'[k][c] >= delivered[k][c] /\ delivered[k][c] \in Nat
    BY <1>1, NothingTakenBack
  <2>2. delivered'[k][c] \in Nat
    BY <1>1 DEF TypeOK
  <2> QED BY <2>1, <2>2
<1>3. \A k \in Keys : \A c \in file[k].sent : c \in Chats /\ delivered'[k][c] > 0
  BY <1>1, <1>2, ItemTypes DEF FileTruthful
<1>4. \A t \in Threads : pc[t] = "send" =>
        req[t].key \in Keys /\ \A c \in sentTo[t] : delivered'[req[t].key][c] > 0
  BY <1>1, <1>2 DEF TypeOK, ThreadTruthful, Payloads
<1>5. \A a \in answers : \A c \in a.chats : delivered'[a.payload.key][c] > 0
  BY <1>1, <1>2 DEF TypeOK, AnswerTruthful, Payloads
<1>6. ASSUME NEW t \in Threads, NEW p \in Payloads, Refuse(t, p)
      PROVE FileTruthful' /\ ThreadTruthful' /\ AnswerTruthful'
  <2>1. p.key \in Keys
    BY DEF Payloads
  <2>2. FileTruthful' /\ ThreadTruthful'
    BY <1>6, <1>3, <1>4 DEF Refuse, thread, FileTruthful, ThreadTruthful
  <2>3. PICK status, chats :
          /\ answers' = answers \union {[status |-> status, payload |-> p, chats |-> chats]}
          /\ chats = {} \/ chats = file[p.key].sent
    BY <1>6 DEF Refuse, Respond
  <2>4. AnswerTruthful'
    BY <2>1, <2>3, <1>3, <1>5 DEF AnswerTruthful
  <2> QED BY <2>2, <2>4
<1>7. ASSUME NEW t \in Threads, NEW p \in Payloads, Receive(t, p)
      PROVE FileTruthful' /\ ThreadTruthful' /\ AnswerTruthful'
  <2>1. sentTo[t] = {} /\ UNCHANGED <<file, sentTo, delivered, answers>>
    BY <1>1, <1>7 DEF Receive, IdleEmpty
  <2>2. ThreadTruthful'
    BY <1>1, <1>4, <1>7, <2>1 DEF Receive, ThreadTruthful, TypeOK
  <2> QED BY <1>3, <1>5, <2>1, <2>2 DEF FileTruthful, AnswerTruthful
<1>8. ASSUME NEW t \in Threads, Send(t)
      PROVE FileTruthful' /\ ThreadTruthful' /\ AnswerTruthful'
  <2>1. PICK c \in todo[t] : SendTo(t, c)
    BY <1>8, SendPicks
  <2>2. req[t].key \in Keys /\ c \in Chats /\ UNCHANGED <<file, pc, req, answers>>
    BY <1>1, <1>8, <2>1 DEF Send, TypeOK, Payloads
  <2>3. CASE sentTo' = [sentTo EXCEPT ![t] = @ \union {c}]
             /\ delivered' = OneMore(delivered, req[t].key, c)
    <3>1. delivered'[req[t].key][c] > 0
      BY <1>1, <2>2, <2>3, OneMoreCounts DEF TypeOK
    <3> QED BY <1>1, <1>4, <2>2, <2>3, <3>1, <1>3, <1>5
              DEF TypeOK, ThreadTruthful, FileTruthful, AnswerTruthful
  <2>4. CASE UNCHANGED sentTo
    BY <1>3, <1>4, <1>5, <2>2, <2>4 DEF ThreadTruthful, FileTruthful, AnswerTruthful
  <2> QED BY <2>1, <2>3, <2>4 DEF SendTo
<1>9. ASSUME NEW t \in Threads, MergeDelivery(t)
      PROVE FileTruthful' /\ ThreadTruthful' /\ AnswerTruthful'
  <2>1. req[t].key \in Keys /\ pc[t] = "send"
    BY <1>1, <1>9 DEF MergeDelivery, TypeOK, Payloads
  <2>2. \A c \in Merged(t) : delivered'[req[t].key][c] > 0
    BY <2>1, <1>3, <1>4 DEF Merged
  <2>3. FileTruthful'
    BY <1>1, <1>3, <1>9, <2>1, <2>2 DEF MergeDelivery, FileTruthful, TypeOK
  <2>4. ThreadTruthful'
    BY <1>1, <1>4, <1>9 DEF MergeDelivery, Free, ThreadTruthful, TypeOK
  <2>5. AnswerTruthful'
    BY <1>5, <1>9, <2>2 DEF MergeDelivery, Respond, AnswerTruthful
  <2> QED BY <2>3, <2>4, <2>5
<1>10. ASSUME NEW t \in Threads, SendFailed(t)
       PROVE FileTruthful' /\ ThreadTruthful' /\ AnswerTruthful'
  BY <1>1, <1>3, <1>4, <1>5, <1>10
     DEF SendFailed, Respond, Free, FileTruthful, ThreadTruthful, AnswerTruthful, TypeOK
<1>11. ASSUME NEW t \in Threads, WriteFails(t)
       PROVE FileTruthful' /\ ThreadTruthful' /\ AnswerTruthful'
  BY <1>1, <1>4, <1>5, <1>11
     DEF WriteFails, Free, NoItem, FileTruthful, ThreadTruthful, AnswerTruthful, TypeOK
<1>12. ASSUME Crash PROVE FileTruthful' /\ ThreadTruthful' /\ AnswerTruthful'
  BY <1>3, <1>5, <1>12 DEF Crash, FileTruthful, ThreadTruthful, AnswerTruthful
<1>13. CASE UNCHANGED vars
  BY <1>13 DEF vars, thread, history, FileTruthful, ThreadTruthful, AnswerTruthful
<1> QED
  BY <1>6, <1>7, <1>8, <1>9, <1>10, <1>11, <1>12, <1>13 DEF Next

\* Whatever the relay answers, and whoever else is merging at the time, each chat
\* it names has received the item: handle_request of briefing_relay.py.
THEOREM AnswersAreTruthful == Spec => []AnswersTruthful
<1>1. Init => TruthInv
  BY TypeInit DEF Init, TruthInv, FileTruthful, ThreadTruthful, AnswerTruthful, NoItem
<1>2. TruthInv => AnswersTruthful
  BY DEF TruthInv, TypeInv, AnswerTruthful, AnswersTruthful
<1> QED
  BY <1>1, <1>2, TruthStep, PTL DEF Spec

-----------------------------------------------------------------------------
(* What the state file remembers                                            *)

\* A delivery that is in the file or in the hands of a thread stays there.
Remembered(k, c) ==
  c \in file[k].sent \/ \E t \in Threads : pc[t] = "send" /\ req[t].key = k /\ c \in sentTo[t]

RememberedInv == TypeInv /\ DeliveriesRemembered

\* Every step keeps every delivery remembered until something fails.
LEMMA RememberedStep == RememberedInv /\ [Next]_vars => DeliveriesRemembered'
<1> USE ConstantsAssumption
<1> SUFFICES ASSUME TypeInv, DeliveriesRemembered, [Next]_vars, faults' = 0,
                    NEW k \in Keys, NEW c \in Chats, delivered'[k][c] > 0
             PROVE  Remembered(k, c)'
  BY DEF RememberedInv, DeliveriesRemembered, Remembered
<1>1. TypeOK /\ IdleEmpty /\ faults \in Nat /\ file[k].sent \subseteq Allowed
  BY ItemTypes DEF TypeInv, TypeOK
<1>2. faults = 0 => (delivered[k][c] > 0 => Remembered(k, c))
  BY DEF DeliveriesRemembered, Remembered
<1>3. ASSUME NEW t \in Threads, NEW p \in Payloads, Refuse(t, p) PROVE Remembered(k, c)'
  BY <1>2, <1>3 DEF Refuse, thread, Remembered
<1>4. ASSUME NEW t \in Threads, NEW p \in Payloads, Receive(t, p) PROVE Remembered(k, c)'
  BY <1>1, <1>2, <1>4 DEF Receive, Remembered, TypeOK, IdleEmpty
<1>5. ASSUME NEW t \in Threads, Send(t) PROVE Remembered(k, c)'
  <2>1. PICK d \in todo[t] : SendTo(t, d)
    BY <1>5, SendPicks
  <2>2. /\ req[t] \in Payloads /\ req[t].key \in Keys /\ d \in Chats
        /\ pc[t] = "send" /\ UNCHANGED <<file, pc, req>>
        /\ delivered \in [Keys -> [Chats -> Nat]]
    BY <1>1, <1>5, <2>1 DEF Send, TypeOK, Payloads
  <2>3. UNCHANGED faults /\ faults = 0
    BY <1>1, <2>1 DEF SendTo
  <2>4. CASE sentTo' = [sentTo EXCEPT ![t] = @ \union {d}]
             /\ delivered' = OneMore(delivered, req[t].key, d)
    <3>1. CASE k = req[t].key /\ c = d
      BY <1>1, <2>2, <2>4, <3>1 DEF Remembered, TypeOK
    <3>2. CASE ~(k = req[t].key /\ c = d)
      <4>1. delivered[k][c] > 0
        BY <2>2, <2>4, <3>2, OneMoreCounts
      <4> QED BY <1>1, <1>2, <2>2, <2>3, <2>4, <4>1 DEF Remembered, TypeOK
    <3> QED BY <3>1, <3>2
  <2>5. CASE UNCHANGED <<sentTo, delivered>>
    BY <1>2, <2>2, <2>3, <2>5 DEF Remembered
  <2>6. ~(faults' = faults + 1)
    BY <1>1, <2>3
  <2> QED BY <2>1, <2>4, <2>5, <2>6 DEF SendTo
<1>6. ASSUME NEW t \in Threads, MergeDelivery(t) PROVE Remembered(k, c)'
  <2>1. Remembered(k, c) /\ UNCHANGED delivered
    BY <1>2, <1>6 DEF MergeDelivery
  <2>2. CASE k = req[t].key /\ c \in Merged(t)
    BY <1>1, <1>6, <2>2 DEF MergeDelivery, Remembered, TypeOK
  <2>3. CASE k # req[t].key
    BY <1>1, <1>6, <2>1, <2>3 DEF MergeDelivery, Free, Remembered, TypeOK
  <2>4. CASE k = req[t].key /\ c \notin Merged(t)
    BY <1>1, <1>6, <2>1, <2>4 DEF MergeDelivery, Free, Merged, Remembered, TypeOK
  <2> QED BY <2>2, <2>3, <2>4
<1>7. ASSUME NEW t \in Threads, SendFailed(t) PROVE Remembered(k, c)'
  BY <1>1, <1>2, <1>7 DEF SendFailed, Free, Remembered, TypeOK
<1>8. ASSUME NEW t \in Threads, WriteFails(t) PROVE Remembered(k, c)'
  BY <1>1, <1>8 DEF WriteFails
<1>9. ASSUME Crash PROVE Remembered(k, c)'
  BY <1>1, <1>9 DEF Crash
<1>10. CASE UNCHANGED vars
  BY <1>2, <1>10 DEF vars, thread, history, Remembered
<1> QED
  BY <1>3, <1>4, <1>5, <1>6, <1>7, <1>8, <1>9, <1>10 DEF Next

\* However many threads merge into one item of the file, none wipes out what
\* another has delivered: merge_delivery of briefing_relay.py.
THEOREM MergesLoseNothing == Spec => []DeliveriesRemembered
<1>1. Init => RememberedInv
  BY TypeInit DEF Init, RememberedInv, DeliveriesRemembered
<1>2. RememberedInv /\ [Next]_vars => RememberedInv'
  BY TypeStep, RememberedStep DEF RememberedInv
<1>3. RememberedInv => DeliveriesRemembered
  BY DEF RememberedInv
<1> QED
  BY <1>1, <1>2, <1>3, PTL DEF Spec

-----------------------------------------------------------------------------
(* How often a chat gets an item                                            *)

\* The threads that count chat c as served with item k, and have yet to write it.
Served(k, c) == {t \in Threads : pc[t] = "send" /\ req[t].key = k /\ c \in sentTo[t]}

\* The threads that will still send item k to chat c.
Waiting(k, c) == {t \in Threads : pc[t] = "send" /\ req[t].key = k /\ c \in todo[t]}

\* A chat is not served and waiting in one thread.
ServedOnce == \A t \in Threads : todo[t] \intersect sentTo[t] = {}

\* What the file does not show, a fault or a thread accounts for.
Unrecorded(k, c) ==
  c \notin file[k].sent =>
    delivered[k][c] <= Cardinality(Threads) * faults + Cardinality(Served(k, c))

\* What a chat has and is about to get.
Outstanding(k, c) ==
  delivered[k][c] + Cardinality(Waiting(k, c))
    <= Cardinality(Threads) * faults + Cardinality(Threads)

BoundInv ==
  /\ TypeInv /\ ServedOnce
  /\ \A k \in Keys, c \in Chats : Unrecorded(k, c) /\ Outstanding(k, c)

\* Each fault adds one round of all threads to the bound.
LEMMA OneMoreFault ==
  ASSUME NEW n \in Nat, NEW f \in Nat
  PROVE  n * f \in Nat /\ n * (f + 1) = n * f + n /\ n * (1 + f) = n * f + n
BY SMT

\* Two groups of threads without a thread in common are at most all threads.
LEMMA TwoGroups ==
  ASSUME NEW S \in SUBSET Threads, NEW W \in SUBSET Threads, S \intersect W = {}
  PROVE  /\ IsFiniteSet(S) /\ IsFiniteSet(W)
         /\ Cardinality(S) \in Nat /\ Cardinality(W) \in Nat /\ Cardinality(Threads) \in Nat
         /\ Cardinality(S) + Cardinality(W) <= Cardinality(Threads)
         /\ Cardinality(W) <= Cardinality(Threads)
<1>1. IsFiniteSet(Threads) /\ Cardinality(Threads) \in Nat
  BY ConstantsAssumption, FS_CardinalityType
<1>2. /\ IsFiniteSet(S) /\ IsFiniteSet(W)
      /\ Cardinality(S) \in Nat /\ Cardinality(W) \in Nat
      /\ Cardinality(W) <= Cardinality(Threads)
  BY <1>1, FS_Subset, FS_CardinalityType
<1>3. Cardinality(S \intersect W) = 0
  BY FS_EmptySet
<1>4. Cardinality(S \union W) = Cardinality(S) + Cardinality(W) - Cardinality(S \intersect W)
  BY <1>2, FS_Union
<1>5. Cardinality(S \union W) <= Cardinality(Threads)
  BY <1>1, FS_Subset
<1> QED BY <1>1, <1>2, <1>3, <1>4, <1>5

\* A thread counts a chat as served, as waiting or neither.
LEMMA Counts ==
  ASSUME ServedOnce, NEW k, NEW c
  PROVE  /\ IsFiniteSet(Served(k, c)) /\ IsFiniteSet(Waiting(k, c))
         /\ Cardinality(Served(k, c)) \in Nat /\ Cardinality(Waiting(k, c)) \in Nat
         /\ Cardinality(Threads) \in Nat
         /\ Served(k, c) \intersect Waiting(k, c) = {}
         /\ Cardinality(Served(k, c)) + Cardinality(Waiting(k, c)) <= Cardinality(Threads)
         /\ Cardinality(Waiting(k, c)) <= Cardinality(Threads)
<1>1. /\ Served(k, c) \in SUBSET Threads /\ Waiting(k, c) \in SUBSET Threads
      /\ Served(k, c) \intersect Waiting(k, c) = {}
  BY DEF Served, Waiting, ServedOnce
<1> QED BY <1>1, TwoGroups

\* No step makes a thread send to a chat that it counts as served.
LEMMA OnceStep == BoundInv /\ [Next]_vars => ServedOnce'
<1> USE ConstantsAssumption
<1> SUFFICES ASSUME TypeOK, IdleEmpty, ServedOnce, [Next]_vars PROVE ServedOnce'
  BY DEF BoundInv, TypeInv
<1>1. ASSUME NEW t \in Threads, NEW p \in Payloads, Refuse(t, p) \/ Receive(t, p)
      PROVE ServedOnce'
  BY <1>1 DEF Refuse, Receive, thread, ServedOnce, IdleEmpty, TypeOK
<1>2. ASSUME NEW t \in Threads, Send(t) PROVE ServedOnce'
  <2>1. PICK c \in todo[t] : SendTo(t, c)
    BY <1>2, SendPicks
  <2> QED BY <2>1 DEF SendTo, ServedOnce, TypeOK
<1>3. ASSUME NEW t \in Threads, MergeDelivery(t) \/ SendFailed(t) \/ WriteFails(t)
      PROVE ServedOnce'
  BY <1>3 DEF MergeDelivery, SendFailed, WriteFails, Free, ServedOnce, TypeOK
<1>4. ASSUME Crash \/ UNCHANGED vars PROVE ServedOnce'
  BY <1>4 DEF Crash, vars, thread, ServedOnce
<1> QED BY <1>1, <1>2, <1>3, <1>4 DEF Next

\* Every step keeps what one chat has of one item within the bounds.
LEMMA BoundStep ==
  ASSUME BoundInv, [Next]_vars, NEW k \in Keys, NEW c \in Chats
  PROVE  Unrecorded(k, c)' /\ Outstanding(k, c)'
<1> USE ConstantsAssumption
<1> DEFINE n == Cardinality(Threads)
           D == delivered[k][c]
           S == Cardinality(Served(k, c))
           W == Cardinality(Waiting(k, c))
<1>1. TypeOK /\ IdleEmpty /\ ServedOnce /\ ServedOnce' /\ faults \in Nat /\ faults' \in Nat
  BY TypeStep, OnceStep DEF BoundInv, TypeInv, TypeOK
<1>2. D \in Nat /\ n \in Nat /\ S \in Nat /\ W \in Nat /\ S + W <= n
  BY <1>1, Counts DEF TypeOK
<1>3. S' \in Nat /\ W' \in Nat /\ S' + W' <= n /\ W' <= n
  <2>1. /\ Served(k, c)' \in SUBSET Threads /\ Waiting(k, c)' \in SUBSET Threads
        /\ Served(k, c)' \intersect Waiting(k, c)' = {}
    BY <1>1 DEF Served, Waiting, ServedOnce
  <2> QED BY <2>1, TwoGroups
<1>4. n * faults \in Nat /\ n * faults' \in Nat /\ n * (faults + 1) = n * faults + n
  BY <1>1, <1>2, OneMoreFault
<1>5. (c \notin file[k].sent => D <= n * faults + S) /\ D + W <= n * faults + n
  BY DEF BoundInv, Unrecorded, Outstanding
<1>6. SUFFICES (c \notin file'[k].sent => D' <= n * faults' + S') /\ D' + W' <= n * faults' + n
  BY DEF Unrecorded, Outstanding
<1>7. ASSUME D' = D, S' = S, W' = W, faults' = faults, file[k].sent \subseteq file'[k].sent
      PROVE  (c \notin file'[k].sent => D' <= n * faults' + S') /\ D' + W' <= n * faults' + n
  BY <1>5, <1>7
<1>8. ASSUME D' = D, W' <= W, faults' = faults + 1
      PROVE  (c \notin file'[k].sent => D' <= n * faults' + S') /\ D' + W' <= n * faults' + n
  <2>1. n * faults' = n * faults + n
    BY <1>4, <1>8
  <2> HIDE DEF D, S, W, n
  <2> QED BY <1>2, <1>3, <1>4, <1>5, <1>8, <2>1
<1>9. ASSUME NEW t \in Threads, NEW p \in Payloads, Refuse(t, p)
      PROVE  (c \notin file'[k].sent => D' <= n * faults' + S') /\ D' + W' <= n * faults' + n
  BY <1>7, <1>9 DEF Refuse, thread, Served, Waiting
<1>10. ASSUME NEW t \in Threads, NEW p \in Payloads, Receive(t, p)
       PROVE  (c \notin file'[k].sent => D' <= n * faults' + S') /\ D' + W' <= n * faults' + n
  <2>1. D' = D /\ faults' = faults /\ file' = file
    BY <1>10 DEF Receive
  <2>2. Served(k, c)' = Served(k, c)
    BY <1>1, <1>10 DEF Receive, Served, TypeOK, IdleEmpty
  <2>3. CASE p.key = k /\ c \in (p.chats \intersect Allowed) \ file[k].sent
    <3>1. c \notin file[k].sent /\ S' = S
      BY <2>2, <2>3
    <3> HIDE DEF D, S, W, n
    <3> QED BY <1>2, <1>3, <1>4, <1>5, <2>1, <3>1
  <2>4. CASE ~(p.key = k /\ c \in (p.chats \intersect Allowed) \ file[k].sent)
    <3>1. Waiting(k, c)' = Waiting(k, c)
      BY <1>1, <1>10, <2>4 DEF Receive, Waiting, TypeOK
    <3> QED BY <1>7, <2>1, <2>2, <3>1
  <2> QED BY <2>3, <2>4
<1>11. ASSUME NEW t \in Threads, Send(t)
       PROVE  (c \notin file'[k].sent => D' <= n * faults' + S') /\ D' + W' <= n * faults' + n
  <2>1. PICK d \in todo[t] : SendTo(t, d)
    BY <1>11, SendPicks
  <2>2. /\ req[t].key \in Keys /\ d \in Chats /\ pc[t] = "send"
        /\ UNCHANGED <<file, pc, req>> /\ delivered \in [Keys -> [Chats -> Nat]]
    BY <1>1, <1>11, <2>1 DEF Send, TypeOK, Payloads
  <2>3. CASE ~(req[t].key = k /\ d = c)
    <3>1. Served(k, c)' = Served(k, c) /\ Waiting(k, c)' = Waiting(k, c)
      BY <1>1, <2>1, <2>2, <2>3 DEF SendTo, Served, Waiting, TypeOK
    <3>2. D' = D
      BY <2>1, <2>2, <2>3, OneMoreCounts DEF SendTo
    <3> QED BY <1>7, <1>8, <2>1, <2>2, <3>1, <3>2, <1>2 DEF SendTo
  <2>4. CASE req[t].key = k /\ d = c
    <3>1. Waiting(k, c)' = Waiting(k, c) \ {t} /\ t \in Waiting(k, c)
      BY <1>1, <2>1, <2>2, <2>4 DEF SendTo, Waiting, TypeOK
    <3>2. W' = W - 1
      BY <1>1, <3>1, Counts, FS_RemoveElement
    <3>3. CASE delivered' = OneMore(delivered, req[t].key, d) /\ UNCHANGED faults
               /\ sentTo' = [sentTo EXCEPT ![t] = @ \union {d}]
      <4>1. Served(k, c)' = Served(k, c) \union {t} /\ t \notin Served(k, c)
        <5>1. t \notin Served(k, c)
          BY <1>1, <3>1, Counts
        <5>2. Served(k, c)' = Served(k, c) \union {t}
          BY <1>1, <2>2, <2>4, <3>3 DEF Served, TypeOK
        <5> QED BY <5>1, <5>2
      <4>2. S' = S + 1
        BY <1>1, <4>1, Counts, FS_AddElement
      <4>3. D' = D + 1
        BY <2>2, <2>4, <3>3, OneMoreCounts
      <4>4. file' = file /\ faults' = faults
        BY <2>2, <3>3
      <4> HIDE DEF D, S, W, n
      <4> QED BY <1>2, <1>3, <1>4, <1>5, <3>2, <4>2, <4>3, <4>4
    <3>4. CASE UNCHANGED <<sentTo, delivered, faults>>
      <4>1. S' = S /\ D' = D /\ file' = file /\ faults' = faults
        BY <2>2, <3>4 DEF Served
      <4> HIDE DEF D, S, W, n
      <4> QED BY <1>2, <1>3, <1>4, <1>5, <3>2, <4>1
    <3>5. CASE delivered' = OneMore(delivered, req[t].key, d) /\ faults' = faults + 1
               /\ UNCHANGED sentTo
      <4>1. S' = S /\ file' = file
        BY <2>2, <3>5 DEF Served
      <4>2. D' = D + 1
        BY <2>2, <2>4, <3>5, OneMoreCounts
      <4>3. n * faults' = n * faults + n /\ W >= 1
        BY <1>2, <1>3, <1>4, <3>2, <3>5
      <4> HIDE DEF D, S, W, n
      <4> QED BY <1>2, <1>3, <1>4, <1>5, <3>2, <4>1, <4>2, <4>3
    <3> QED BY <2>1, <3>3, <3>4, <3>5 DEF SendTo
  <2> QED BY <2>3, <2>4
<1>12. ASSUME NEW t \in Threads, MergeDelivery(t)
       PROVE  (c \notin file'[k].sent => D' <= n * faults' + S') /\ D' + W' <= n * faults' + n
  <2>1. D' = D /\ faults' = faults
    BY <1>12 DEF MergeDelivery
  <2>2. Waiting(k, c)' = Waiting(k, c)
    BY <1>1, <1>12 DEF MergeDelivery, Free, Waiting, TypeOK
  <2>3. CASE req[t].key = k /\ c \in sentTo[t]
    <3>1. c \in file'[k].sent
      BY <1>1, <1>12, <2>3 DEF MergeDelivery, Merged, TypeOK
    <3> QED BY <1>5, <2>1, <2>2, <3>1
  <2>4. CASE ~(req[t].key = k /\ c \in sentTo[t])
    <3>1. Served(k, c)' = Served(k, c)
      BY <1>1, <1>12, <2>4 DEF MergeDelivery, Free, Served, TypeOK
    <3>2. file[k].sent \subseteq file'[k].sent
      BY <1>1, <1>12 DEF MergeDelivery, Merged, TypeOK
    <3> QED BY <1>7, <2>1, <2>2, <3>1, <3>2
  <2> QED BY <2>3, <2>4
<1>13. ASSUME NEW t \in Threads, SendFailed(t)
       PROVE  (c \notin file'[k].sent => D' <= n * faults' + S') /\ D' + W' <= n * faults' + n
  <2>1. Served(k, c)' = Served(k, c) /\ Waiting(k, c)' = Waiting(k, c)
    BY <1>1, <1>13 DEF SendFailed, Free, Served, Waiting, TypeOK
  <2> QED BY <1>7, <1>13, <2>1 DEF SendFailed
<1>14. ASSUME NEW t \in Threads, WriteFails(t)
       PROVE  (c \notin file'[k].sent => D' <= n * faults' + S') /\ D' + W' <= n * faults' + n
  <2>1. Waiting(k, c)' = Waiting(k, c)
    BY <1>1, <1>14 DEF WriteFails, Free, Waiting, TypeOK
  <2> QED BY <1>2, <1>8, <1>14, <2>1 DEF WriteFails
<1>15. ASSUME Crash
       PROVE  (c \notin file'[k].sent => D' <= n * faults' + S') /\ D' + W' <= n * faults' + n
  <2>1. Waiting(k, c)' = {}
    BY <1>1, <1>15 DEF Crash, Waiting
  <2>2. W' = 0
    BY <2>1, FS_EmptySet
  <2> QED BY <1>2, <1>8, <1>15, <2>2 DEF Crash
<1>16. CASE UNCHANGED vars
  BY <1>7, <1>16 DEF vars, thread, history, Served, Waiting
<1> QED
  BY <1>9, <1>10, <1>11, <1>12, <1>13, <1>14, <1>15, <1>16 DEF Next

\* A chat gets an item once per thread that can be in flight, and as often again
\* per fault, however many requests come in: the already-sent chats of
\* handle_request in briefing_relay.py.
THEOREM DeliveriesAreBounded == Spec => []DeliveriesBounded
<1>1. ASSUME Init PROVE BoundInv
  <2>1. TypeInv /\ ServedOnce
    BY <1>1, TypeInit DEF Init, ServedOnce
  <2>2. ASSUME NEW k \in Keys, NEW c \in Chats PROVE Unrecorded(k, c) /\ Outstanding(k, c)
    <3>1. delivered[k][c] = 0 /\ faults = 0
      BY <1>1, <2>2 DEF Init
    <3>2. /\ Cardinality(Served(k, c)) \in Nat /\ Cardinality(Waiting(k, c)) \in Nat
          /\ Cardinality(Threads) \in Nat /\ Cardinality(Waiting(k, c)) <= Cardinality(Threads)
      BY <2>1, Counts
    <3>3. Cardinality(Threads) * faults \in Nat
      BY <3>1, <3>2, OneMoreFault
    <3> QED BY <3>1, <3>2, <3>3 DEF Unrecorded, Outstanding
  <2> QED BY <2>1, <2>2 DEF BoundInv
<1>2. BoundInv /\ [Next]_vars => BoundInv'
  <2>1. ASSUME BoundInv, [Next]_vars
        PROVE  \A k \in Keys, c \in Chats : Unrecorded(k, c)' /\ Outstanding(k, c)'
    BY <2>1, BoundStep
  <2> QED BY <2>1, TypeStep, OnceStep DEF BoundInv
<1>3. ASSUME BoundInv PROVE DeliveriesBounded
  <2> SUFFICES ASSUME NEW k \in Keys, NEW c \in Chats
               PROVE  delivered[k][c] <= Cardinality(Threads) * (1 + faults)
    BY DEF DeliveriesBounded
  <2> DEFINE n == Cardinality(Threads)
             W == Cardinality(Waiting(k, c))
  <2>1. n \in Nat /\ W \in Nat /\ faults \in Nat /\ delivered[k][c] \in Nat
    BY <1>3, Counts DEF BoundInv, TypeInv, TypeOK
  <2>2. delivered[k][c] + W <= n * faults + n
    BY <1>3 DEF BoundInv, Outstanding
  <2>3. n * (1 + faults) = n * faults + n /\ n * faults \in Nat
    BY <2>1, OneMoreFault
  <2> HIDE DEF n, W
  <2>4. delivered[k][c] <= n * (1 + faults)
    BY <2>1, <2>2, <2>3
  <2> QED BY <2>4 DEF n
<1> QED
  BY <1>1, <1>2, <1>3, PTL DEF Spec

-----------------------------------------------------------------------------
(* A day's brief: the inductive invariant                                  *)

\* What a brief shows, the fingerprint it is kept under, a brief that is remembered, a request.
Values ==
    [rest : 0 .. MaxWrites, rows : SUBSET Rows, groups : SUBSET SUBSET Task, seen : SUBSET Rows,
     at : 0 .. Seconds]
Prints ==
    [tasks : [count : Nat, newest : 0 .. Seconds], rest : 0 .. Seconds,
     merges : [of : SUBSET Rows, at : 0 .. Seconds, count : Nat]]
Minutes == {Minute(s) : s \in 0 .. Seconds} \cup {0}
BriefKeys == [kind : Kinds, day : Days, ref : {0, 1}, minute : Minutes]
KeptBriefs == [key : BriefKeys, print : Prints, value : Values]
Asked ==
    [pc : {"idle", "merge", "lookup", "rest", "tasks", "lines", "store", "hit", "done"},
     kind : Kinds, day : Days, ref : {0, 1}, start : 0 .. Seconds, rows : SUBSET Rows,
     print : Prints, value : Values,
     truth : [rest : 0 .. MaxWrites, rows : SUBSET Rows, groups : SUBSET SUBSET Task]]

\* The tables have their types and no row of a later second, the groups are disjoint, and every
\* version of the other rows was written.
BriefTables ==
    /\ now \in 0 .. Seconds
    /\ tasks \in [Task -> [status : {"open", "done"}, due : Slots, at : 0 .. Seconds]]
    /\ \A t \in Task : tasks[t].at <= now
    /\ rest \in [at : 0 .. Seconds, version : 0 .. MaxWrites]
    /\ rest.at <= now /\ rest.version <= writes
    /\ merges \in [of : SUBSET Rows, groups : SUBSET SUBSET Task, at : 0 .. Seconds]
    /\ merges.at <= now /\ \A g, h \in merges.groups : g # h => g \cap h = {}
    /\ writes \in 0 .. MaxWrites /\ runs \in 0 .. MaxRuns

\* A fingerprint taken at the second of the brief has seen nothing later.  If the open tasks from
\* the day on are others by now, one was closed or one was written since.
Aged(print, value, ref) ==
    /\ print \in Prints /\ value.at <= now
    /\ print.rest <= value.at /\ print.merges.at <= value.at /\ print.tasks.newest <= value.at
    /\ Cardinality(OpenTasks) <= print.tasks.count
    /\ value.seen # OpenFrom(ref) => \/ Cardinality(OpenTasks) < print.tasks.count
                                     \/ Newest({tasks[t].at : t \in OpenTasks}) >= value.at

\* Rows and groups that are others than those of the brief were written since.
RestSince(value) == value.rest # rest.version => rest.at >= value.at
GroupsSince(value) == value.groups # merges.groups => merges.at >= value.at

\* The brief that was given is stale only where the fingerprint could not tell.
GivenFits(r) ==
    /\ r.value.rest # r.truth.rest => r.value.at = r.print.rest
    /\ r.value.groups # r.truth.groups => r.value.at = r.print.merges.at
    /\ r.value.rows # r.truth.rows =>
          r.value.at = r.print.tasks.newest \/ r.value.rows # r.value.seen

\* A request has read tasks from its day on; the listener's ages from its fingerprint on.
RequestFits(p, r) ==
    /\ r \in Asked
    /\ \A x \in r.rows : Day(x.due) >= r.ref
    /\ \A x \in r.value.rows : Day(x.due) >= r.ref
    /\ r.kind = "day" => r.day = r.ref
    /\ p = "job" => r.pc \in {"idle", "merge", "lines", "done"}
    /\ p = "listener" => r.kind # "briefing"
    /\ p = "listener" /\ r.pc \in {"rest", "tasks", "lines", "store"} => Aged(r.print, r.value, r.ref)
    /\ p = "listener" /\ r.pc \in {"tasks", "lines", "store"} => RestSince(r.value)
    /\ r.pc = "store" => GroupsSince(r.value)
    /\ r.pc = "hit" => GivenFits(r)

\* So does what is remembered.
EntryFits(e) ==
    /\ e \in KeptBriefs
    /\ \A x \in e.value.rows : Day(x.due) >= e.key.ref
    /\ Aged(e.print, e.value, e.key.ref) /\ RestSince(e.value) /\ GroupsSince(e.value)

\* Nothing is remembered for a request twice.
Distinct(m) == \A i, j \in DOMAIN m : m[i].key = m[j].key => i = j

\* Nothing is remembered twice, nor more than may be.
MemoryFits(m) ==
    /\ m \in Seq(KeptBriefs) /\ Len(m) <= Keep
    /\ \A i \in DOMAIN m : EntryFits(m[i])
    /\ Distinct(m)

BriefInv ==
    /\ BriefTables
    /\ request \in [Proc -> Asked] /\ \A p \in Proc : RequestFits(p, request[p])
    /\ MemoryFits(mem)

-----------------------------------------------------------------------------
(* The tables and the clock                                                *)

\* A set of seconds has a latest one.
LEMMA LatestIs ==
  ASSUME NEW S \in SUBSET (0 .. Seconds), S # {}
  PROVE  Max(S) \in S /\ \A s \in S : Max(S) >= s
<1>0. Seconds \in Nat
  BY BriefAssumption
<1> DEFINE R == {ss \in Nat \X Nat : ss[1] < ss[2]}
           Left == {Seconds - s : s \in S}
<1>1. IsWellFoundedOn(R, Nat)
  BY NatLessThanWellFounded DEF OpToRel
<1>2. Left \subseteq Nat /\ Left # {}
  BY <1>0
<1>3. PICK x \in Left : \A y \in Left : ~ (<<y, x>> \in R)
  <2> HIDE DEF R, Left
  <2> QED BY <1>1, <1>2, WFMin
<1>4. PICK s \in S : x = Seconds - s
  OBVIOUS
<1>5. ASSUME NEW u \in S PROVE s >= u
  <2>1. ~ (Seconds - u < x)
    BY <1>0, <1>2, <1>3
  <2> QED
    BY <1>0, <1>4, <2>1
<1> QED
  BY <1>5 DEF Max

\* The newest of some seconds is one, and none of them is later.
LEMMA NewestIs ==
  ASSUME NEW S \in SUBSET (0 .. Seconds)
  PROVE  /\ Newest(S) \in 0 .. Seconds /\ \A s \in S : Newest(S) >= s
         /\ \A t \in Nat : (\A s \in S : s <= t) => Newest(S) <= t
<1>0. 0 \in 0 .. Seconds
  BY BriefAssumption
<1>1. CASE S = {}
  BY <1>0, <1>1 DEF Newest
<1>2. CASE S # {}
  BY <1>2, LatestIs DEF Newest
<1> QED
  BY <1>1, <1>2

\* The open tasks can be counted.
LEMMA OpenAreFinite == IsFiniteSet(OpenTasks) /\ Cardinality(OpenTasks) \in Nat
<1>1. IsFiniteSet(OpenTasks)
  BY BriefAssumption, FS_Subset DEF OpenTasks
<1> QED
  BY <1>1, FS_CardinalityType

\* The open tasks from a day on are rows of that day or later.
LEMMA OpenRows ==
  ASSUME BriefTables, NEW d
  PROVE  OpenFrom(d) \in SUBSET Rows /\ \A x \in OpenFrom(d) : Day(x.due) >= d
  BY DEF BriefTables, OpenFrom, Rows

\* A fingerprint is one, and of nothing later than now.
LEMMA PrintIs ==
  ASSUME BriefTables
  PROVE  /\ Fingerprint \in Prints
         /\ Fingerprint.rest <= now /\ Fingerprint.merges.at <= now
         /\ Fingerprint.tasks.newest <= now
         /\ Fingerprint.tasks.count = Cardinality(OpenTasks)
         /\ Fingerprint.tasks.newest = Newest({tasks[t].at : t \in OpenTasks})
         /\ Fingerprint.rest = rest.at /\ Fingerprint.merges.at = merges.at
<1> DEFINE Ats == {tasks[t].at : t \in OpenTasks}
<1>1. Ats \in SUBSET (0 .. Seconds) /\ \A s \in Ats : s <= now
  BY DEF BriefTables, OpenTasks
<1>2. now \in Nat
  BY BriefAssumption DEF BriefTables
<1>3. Newest(Ats) \in 0 .. Seconds /\ Newest(Ats) <= now
  <2> HIDE DEF Ats
  <2> QED
    BY <1>1, <1>2, NewestIs
<1>4. Cardinality(merges.groups) \in Nat
  <2>1. merges.groups \subseteq SUBSET Task
    BY DEF BriefTables
  <2>2. IsFiniteSet(merges.groups)
    BY <2>1, BriefAssumption, FS_SUBSET, FS_Subset
  <2> QED
    BY <2>2, FS_CardinalityType
<1>5. Cardinality(OpenTasks) \in Nat
  BY OpenAreFinite
<1>6. Fingerprint = [tasks |-> [count |-> Cardinality(OpenTasks), newest |-> Newest(Ats)],
                     rest |-> rest.at,
                     merges |-> [of |-> merges.of, at |-> merges.at,
                                 count |-> Cardinality(merges.groups)]]
  BY DEF Fingerprint
<1> HIDE DEF Ats
<1>7. /\ rest.at \in 0 .. Seconds /\ merges.at \in 0 .. Seconds /\ merges.of \in SUBSET Rows
      /\ rest.at <= now /\ merges.at <= now
  BY DEF BriefTables
<1> QED
  BY <1>3, <1>4, <1>5, <1>6, <1>7 DEF Prints, Ats

\* What is written to the tables is written now.
Moved ==
  /\ now' \in 0 .. Seconds /\ now <= now'
  /\ rest' = rest \/ rest'.at = now
  /\ merges' = merges \/ merges'.at = now
  /\ \/ tasks' = tasks
     \/ \E t \in Task : /\ tasks[t].status = "open" /\ tasks'[t].status = "open"
                        /\ tasks'[t].at = now
                        /\ \A u \in Task : tasks'[u].status = tasks[u].status
                        /\ now' = now
     \/ \E t \in Task : /\ tasks[t].status = "open" /\ tasks'[t].status # "open"
                        /\ \A u \in Task \ {t} : tasks'[u].status = tasks[u].status

\* The verdicts on a list of rows are disjoint groups of their tasks.
LEMMA VerdictsAre ==
  ASSUME NEW list \in SUBSET Rows, NEW G \in Verdicts(list)
  PROVE  G \in SUBSET SUBSET Task /\ \A g, h \in G : g # h => g \cap h = {}
<1>1. {x.task : x \in list} \subseteq Task
  BY DEF Rows
<1>2. G \subseteq SUBSET {x.task : x \in list} /\ \A g, h \in G : g # h => g \cap h = {}
  BY DEF Verdicts
<1> QED
  BY <1>1, <1>2

\* Every step keeps the tables and writes what it writes now.
LEMMA TablesKept ==
  ASSUME BriefTables, \A p \in Proc : request[p].rows \in SUBSET Rows, [BriefNext]_briefVars
  PROVE  BriefTables' /\ Moved
<1>0. now \in 0 .. Seconds /\ now \in Nat /\ Seconds \in Nat /\ MaxWrites \in Nat /\ MaxRuns \in Nat
  BY BriefAssumption DEF BriefTables
<1>1. CASE Tick
  <2>1. now' = now + 1 /\ now < Seconds /\ UNCHANGED <<tasks, rest, merges, writes, runs>>
    BY <1>1 DEF Tick
  <2>2. \A t \in Task : tasks[t].at \in Nat
    BY <1>0 DEF BriefTables
  <2>3. rest.at \in Nat /\ merges.at \in Nat
    BY <1>0 DEF BriefTables
  <2> QED
    BY <1>0, <2>1, <2>2, <2>3 DEF BriefTables, Moved
<1>2. ASSUME NEW t \in Task, Collect(t) PROVE BriefTables' /\ Moved
  <2>0. Dues \subseteq Slots
    BY BriefAssumption DEF Slots
  <2>1. PICK d \in Slots : tasks' = [tasks EXCEPT ![t] = [status |-> "open", due |-> d, at |-> now]]
    BY <1>2, <2>0 DEF Collect
  <2>2. /\ writes' = writes + 1 /\ writes < MaxWrites /\ tasks[t].status # "done"
        /\ UNCHANGED <<now, rest, merges, runs>>
    BY <1>2 DEF Collect
  <2>3. tasks[t].status = "open"
    BY <2>2 DEF BriefTables
  <2>4. BriefTables'
    BY <1>0, <2>1, <2>2 DEF BriefTables
  <2>5. tasks'[t].at = now /\ tasks'[t].status = "open" /\ \A u \in Task : tasks'[u].status = tasks[u].status
    BY <2>1, <2>3 DEF BriefTables
  <2> QED
    BY <1>0, <2>2, <2>3, <2>4, <2>5 DEF Moved
<1>3. ASSUME NEW t \in Task, Close(t) PROVE BriefTables' /\ Moved
  <2>1. /\ tasks' = [tasks EXCEPT ![t] = [status |-> "done", due |-> tasks[t].due, at |-> now]]
        /\ writes' = writes + 1 /\ writes < MaxWrites /\ tasks[t].status = "open"
        /\ UNCHANGED <<now, rest, merges, runs>>
    BY <1>3 DEF Close
  <2>2. tasks \in [Task -> [status : {"open", "done"}, due : Slots, at : 0 .. Seconds]]
    BY DEF BriefTables
  <2>3. PICK row \in [status : {"open", "done"}, due : Slots, at : 0 .. Seconds] :
           row = [status |-> "done", due |-> tasks[t].due, at |-> now]
    BY <1>0, <2>2
  <2>4. tasks' = [tasks EXCEPT ![t] = row]
    BY <2>1, <2>2, <2>3
  <2>5. /\ tasks' \in [Task -> [status : {"open", "done"}, due : Slots, at : 0 .. Seconds]]
        /\ tasks'[t].status = "done" /\ tasks'[t].at = now
        /\ \A u \in Task \ {t} : tasks'[u] = tasks[u]
    BY <2>2, <2>3, <2>4
  <2>6. /\ UNCHANGED <<now, rest, merges, runs>> /\ tasks[t].status = "open"
        /\ writes' = writes + 1 /\ writes < MaxWrites
    BY <2>1
  <2>7. BriefTables'
    BY <1>0, <2>5, <2>6 DEF BriefTables
  <2> QED
    BY <1>0, <2>5, <2>6, <2>7 DEF Moved
<1>4. CASE Touch
  <2>1. /\ rest' = [at |-> now, version |-> rest.version + 1] /\ writes' = writes + 1
        /\ writes < MaxWrites /\ UNCHANGED <<now, tasks, merges, runs>>
    BY <1>4 DEF Touch
  <2>2. rest.version \in Nat /\ rest.version <= writes /\ writes \in Nat
    BY <1>0 DEF BriefTables
  <2>3. rest'.at = now /\ rest'.version = rest.version + 1
        /\ rest' \in [at : 0 .. Seconds, version : 0 .. MaxWrites]
    BY <1>0, <2>1, <2>2
  <2>4. BriefTables'
    BY <1>0, <2>1, <2>2, <2>3 DEF BriefTables
  <2> QED
    BY <1>0, <2>1, <2>3, <2>4 DEF Moved
<1>5. CASE runs < MaxRuns /\ runs' = runs + 1 /\ UNCHANGED <<now, tasks, rest, merges, writes>>
  BY <1>0, <1>5 DEF BriefTables, Moved
<1>6. ASSUME NEW p \in Proc, WriteMerges(p) PROVE BriefTables' /\ Moved
  <2>1. PICK list \in SUBSET Rows : list = Deduped(request[p].rows)
    BY DEF Deduped
  <2>2. PICK G \in Verdicts(list) : merges' = [of |-> list, groups |-> G, at |-> now]
    BY <1>6, <2>1 DEF WriteMerges
  <2>3. UNCHANGED <<now, tasks, rest, writes, runs>>
    BY <1>6 DEF WriteMerges
  <2>4. G \in SUBSET SUBSET Task /\ \A g, h \in G : g # h => g \cap h = {}
    BY VerdictsAre
  <2>5. /\ merges' \in [of : SUBSET Rows, groups : SUBSET SUBSET Task, at : 0 .. Seconds]
        /\ merges'.at = now /\ merges'.groups = G
    BY <1>0, <2>2, <2>4
  <2> QED
    BY <1>0, <2>3, <2>4, <2>5 DEF BriefTables, Moved
<1>7. CASE UNCHANGED <<now, tasks, rest, merges, writes, runs>>
  BY <1>0, <1>7 DEF BriefTables, Moved
<1> QED
  BY <1>1, <1>2, <1>3, <1>4, <1>5, <1>6, <1>7
  DEF BriefNext, briefVars, Poll, Brief, KeepMerges, Ask, Hit, Miss, ReadRest, ReadTasks, ReadMerges,
      Store, Reply

\* What was read, and not changed since, is not changed by the time.
LEMMA SinceKept ==
  ASSUME BriefTables, BriefTables', Moved, NEW value, value.at \in 0 .. Seconds, value.at <= now
  PROVE  /\ RestSince(value) => RestSince(value)'
         /\ GroupsSince(value) => GroupsSince(value)'
<1>1. RestSince(value) => RestSince(value)'
  BY DEF Moved, RestSince
<1>2. GroupsSince(value) => GroupsSince(value)'
  BY DEF Moved, GroupsSince
<1> QED
  BY <1>1, <1>2

\* A fingerprint ages as the tables move: a closed task makes the open ones fewer for good, and a
\* collected one is newer than the brief.
LEMMA AgedKept ==
  ASSUME BriefTables, BriefTables', Moved, NEW print, NEW value, NEW ref, Aged(print, value, ref),
         value.at \in 0 .. Seconds
  PROVE  Aged(print, value, ref)'
<1>0. /\ now \in Nat /\ now' \in Nat /\ value.at \in Nat /\ print.tasks.count \in Nat
      /\ value.at <= now' /\ Seconds \in Nat
  BY BriefAssumption DEF Moved, BriefTables, Aged, Prints
<1>1. CASE tasks' = tasks
  BY <1>0, <1>1 DEF Aged, OpenTasks, OpenFrom, Newest
<1>2. ASSUME NEW t \in Task, tasks'[t].status = "open", tasks'[t].at = now,
             \A u \in Task : tasks'[u].status = tasks[u].status
      PROVE  Aged(print, value, ref)'
  <2>1. OpenTasks' = OpenTasks /\ t \in OpenTasks'
    BY <1>2 DEF OpenTasks
  <2> DEFINE Ats == {tasks'[u].at : u \in OpenTasks'}
  <2>2. Ats \in SUBSET (0 .. Seconds) /\ now \in Ats
    BY <1>2, <2>1 DEF BriefTables, OpenTasks
  <2>3. Newest(Ats) \in 0 .. Seconds /\ Newest(Ats) >= now
    <3> HIDE DEF Ats
    <3> QED
      BY <2>2, NewestIs
  <2>4. Newest(Ats) >= value.at
    BY <1>0, <2>3 DEF Aged
  <2>5. Newest({tasks[u].at : u \in OpenTasks})' = Newest(Ats)
    BY DEF Newest
  <2> HIDE DEF Ats
  <2> QED
    BY <1>0, <2>1, <2>4, <2>5 DEF Aged
<1>3. ASSUME NEW t \in Task, tasks[t].status = "open", tasks'[t].status # "open",
             \A u \in Task \ {t} : tasks'[u].status = tasks[u].status
      PROVE  Aged(print, value, ref)'
  <2>1. OpenTasks' = OpenTasks \ {t} /\ t \in OpenTasks
    BY <1>3 DEF OpenTasks
  <2>2. Cardinality(OpenTasks') = Cardinality(OpenTasks) - 1
    BY <2>1, OpenAreFinite, FS_RemoveElement
  <2>3. Cardinality(OpenTasks)' < print.tasks.count
    BY <1>0, <2>2, OpenAreFinite DEF Aged
  <2>4. Cardinality(OpenTasks)' \in Nat
    BY <2>1, <2>2, OpenAreFinite, FS_RemoveElement, FS_CardinalityType
  <2> QED
    BY <1>0, <2>3, <2>4 DEF Aged
<1> QED
  BY <1>1, <1>2, <1>3 DEF Moved

\* So what is remembered still fits when the tables move.
LEMMA EntryStillFits ==
  ASSUME BriefTables, BriefTables', Moved, NEW e, EntryFits(e)
  PROVE  EntryFits(e)'
<1>1. e.value.at \in 0 .. Seconds /\ e.value.at <= now
  BY DEF EntryFits, KeptBriefs, Values, Aged
<1> QED
  BY <1>1, SinceKept, AgedKept DEF EntryFits

\* ... and of a request.
LEMMA RequestStillFits ==
  ASSUME BriefTables, BriefTables', Moved, NEW p \in Proc, NEW r, RequestFits(p, r)
  PROVE  RequestFits(p, r)'
<1>1. r.value.at \in 0 .. Seconds
  BY DEF RequestFits, Asked, Values
<1>2. p = "listener" /\ r.pc \in {"rest", "tasks", "lines", "store"} =>
        Aged(r.print, r.value, r.ref)' /\ r.value.at <= now
  BY <1>1, AgedKept DEF RequestFits, Aged
<1>3. p = "listener" /\ r.pc \in {"tasks", "lines", "store"} => RestSince(r.value)'
  BY <1>1, <1>2, SinceKept DEF RequestFits
<1>4. r.pc = "store" => GroupsSince(r.value)'
  <2>1. p = "job" \/ p = "listener"
    BY DEF Proc
  <2> QED
    BY <1>1, <1>2, <2>1, SinceKept DEF RequestFits
<1> QED
  BY <1>2, <1>3, <1>4 DEF RequestFits, GivenFits

-----------------------------------------------------------------------------
(* What is remembered                                                      *)

\* Taking out the brief of a key leaves the others, in their order.
LEMMA WithoutIs ==
  ASSUME NEW m \in Seq(KeptBriefs), Distinct(m), NEW key
  PROVE  /\ Without(m, key) \in Seq(KeptBriefs) /\ Len(Without(m, key)) <= Len(m)
         /\ (\E i \in DOMAIN m : m[i].key = key) => Len(Without(m, key)) < Len(m)
         /\ \A i \in DOMAIN Without(m, key) :
              \E j \in DOMAIN m : Without(m, key)[i] = m[j] /\ m[j].key # key
         /\ Distinct(Without(m, key))
<1>1. CASE ~ \E i \in DOMAIN m : m[i].key = key
  BY <1>1 DEF Without, Distinct
<1>2. CASE \E i \in DOMAIN m : m[i].key = key
  <2>1. PICK k \in DOMAIN m : k = CHOOSE i \in DOMAIN m : m[i].key = key
    BY <1>2
  <2>2. m[k].key = key
    BY <1>2, <2>1
  <2>3. k \in 1 .. Len(m) /\ DOMAIN m = 1 .. Len(m) /\ Len(m) \in Nat
    BY <2>1
  <2> DEFINE w == SubSeq(m, 1, k - 1) \o SubSeq(m, k + 1, Len(m))
  <2>4. Without(m, key) = w
    BY <1>2, <2>1 DEF Without, RemoveAt
  <2>5. /\ SubSeq(m, 1, k - 1) \in Seq(KeptBriefs) /\ Len(SubSeq(m, 1, k - 1)) = k - 1
        /\ \A i \in 1 .. k - 1 : SubSeq(m, 1, k - 1)[i] = m[i]
    BY <2>3
  <2>6. /\ SubSeq(m, k + 1, Len(m)) \in Seq(KeptBriefs)
        /\ Len(SubSeq(m, k + 1, Len(m))) = Len(m) - k
        /\ \A i \in 1 .. Len(m) - k : SubSeq(m, k + 1, Len(m))[i] = m[k + i]
    BY <2>3
  <2>7. /\ w \in Seq(KeptBriefs) /\ Len(w) = Len(m) - 1 /\ DOMAIN w = 1 .. Len(m) - 1
        /\ \A i \in 1 .. Len(m) - 1 : w[i] = IF i < k THEN m[i] ELSE m[i + 1]
    <3>1. PICK a \in Seq(KeptBriefs) : a = SubSeq(m, 1, k - 1)
      BY <2>5
    <3>2. PICK b \in Seq(KeptBriefs) : b = SubSeq(m, k + 1, Len(m))
      BY <2>6
    <3>3. Len(a) = k - 1 /\ \A i \in 1 .. k - 1 : a[i] = m[i]
      BY <2>5, <3>1
    <3>4. Len(b) = Len(m) - k /\ \A i \in 1 .. Len(m) - k : b[i] = m[k + i]
      BY <2>6, <3>2
    <3>5. w = a \o b
      BY <3>1, <3>2
    <3> HIDE DEF w
    <3>6. /\ w \in Seq(KeptBriefs) /\ Len(w) = Len(a) + Len(b)
          /\ \A i \in 1 .. Len(a) + Len(b) : w[i] = IF i <= Len(a) THEN a[i] ELSE b[i - Len(a)]
      BY <3>5, ConcatProperties
    <3>7. Len(w) = Len(m) - 1 /\ DOMAIN w = 1 .. Len(m) - 1
      BY <2>3, <3>3, <3>4, <3>6
    <3>8. ASSUME NEW i \in 1 .. Len(m) - 1 PROVE w[i] = IF i < k THEN m[i] ELSE m[i + 1]
      <4>1. CASE i < k
        <5>1. w[i] = a[i] /\ i \in 1 .. k - 1
          BY <2>3, <3>3, <3>4, <3>6, <4>1
        <5> QED
          BY <3>3, <4>1, <5>1
      <4>2. CASE ~ (i < k)
        <5>1. i \in Int /\ k \in Int /\ ~ (i <= k - 1) /\ i \in 1 .. Len(a) + Len(b)
          BY <2>3, <3>3, <3>4, <4>2
        <5>2. w[i] = b[i - (k - 1)]
          BY <3>3, <3>6, <5>1
        <5>3. i - (k - 1) \in 1 .. Len(m) - k /\ k + (i - (k - 1)) = i + 1
          BY <2>3, <4>2, <5>1
        <5> QED
          BY <3>4, <4>2, <5>2, <5>3
      <4> QED
        BY <4>1, <4>2
    <3> QED
      BY <3>6, <3>7, <3>8
  <2> HIDE DEF w
  <2>8. ASSUME NEW i \in 1 .. Len(m) - 1 PROVE \E j \in DOMAIN m : w[i] = m[j] /\ j # k
    <3>1. CASE i < k
      <4>1. i \in DOMAIN m /\ w[i] = m[i] /\ i # k
        BY <2>3, <2>7, <3>1
      <4> QED
        BY <4>1
    <3>2. CASE ~ (i < k)
      <4>1. i + 1 \in DOMAIN m /\ w[i] = m[i + 1] /\ i + 1 # k
        BY <2>3, <2>7, <3>2
      <4> QED
        BY <4>1
    <3> QED
      BY <3>1, <3>2
  <2>9. \A i, j \in 1 .. Len(m) - 1 : w[i].key = w[j].key => i = j
    <3> SUFFICES ASSUME NEW i \in 1 .. Len(m) - 1, NEW j \in 1 .. Len(m) - 1, w[i].key = w[j].key
                 PROVE  i = j
      OBVIOUS
    <3>1. PICK ii \in DOMAIN m : ii = IF i < k THEN i ELSE i + 1
      BY <2>3
    <3>2. PICK jj \in DOMAIN m : jj = IF j < k THEN j ELSE j + 1
      BY <2>3
    <3>3. w[i] = m[ii] /\ w[j] = m[jj]
      BY <2>7, <3>1, <3>2
    <3>4. ii = jj
      BY <3>3 DEF Distinct
    <3> QED
      BY <2>3, <3>1, <3>2, <3>4
  <2>10. \A i \in DOMAIN w : \E j \in DOMAIN m : w[i] = m[j] /\ m[j].key # key
    <3> SUFFICES ASSUME NEW i \in DOMAIN w PROVE \E j \in DOMAIN m : w[i] = m[j] /\ m[j].key # key
      OBVIOUS
    <3>1. PICK j \in DOMAIN m : w[i] = m[j] /\ j # k
      BY <2>7, <2>8
    <3>2. m[j].key # key
      BY <2>2, <3>1 DEF Distinct
    <3> QED
      BY <3>1, <3>2
  <2>11. Distinct(w)
    BY <2>7, <2>9 DEF Distinct
  <2>12. Len(w) <= Len(m) /\ Len(w) < Len(m)
    BY <2>3, <2>7
  <2> QED
    BY <2>4, <2>7, <2>10, <2>11, <2>12
<1> QED
  BY <1>1, <1>2

\* A brief behind all others but the one for its request.
Behind(m, e) == Append(Without(m, e.key), e)

\* It is the newest of as many as before, or of one more.
Grown(all, m, e) ==
    /\ all \in Seq(KeptBriefs) /\ Len(all) <= Len(m) + 1 /\ Len(all) \in Nat \ {0}
    /\ (\E i \in DOMAIN m : m[i].key = e.key) => Len(all) <= Len(m)
    /\ \A i \in DOMAIN all : all[i] = e \/ \E j \in DOMAIN m : all[i] = m[j]
    /\ Distinct(all)

LEMMA AppendedIs ==
  ASSUME NEW m \in Seq(KeptBriefs), Distinct(m), NEW e \in KeptBriefs, NEW all, all = Behind(m, e)
  PROVE  Grown(all, m, e)
<1>1. PICK w : w = Without(m, e.key)
  OBVIOUS
<1>2. /\ w \in Seq(KeptBriefs) /\ Len(w) <= Len(m)
      /\ (\E i \in DOMAIN m : m[i].key = e.key) => Len(w) < Len(m)
      /\ \A i \in DOMAIN w : \E j \in DOMAIN m : w[i] = m[j] /\ m[j].key # e.key
      /\ Distinct(w)
  BY <1>1, WithoutIs
<1>3. /\ all \in Seq(KeptBriefs) /\ Len(all) = Len(w) + 1 /\ DOMAIN all = 1 .. Len(w) + 1
      /\ DOMAIN w = 1 .. Len(w) /\ Len(w) \in Nat /\ Len(m) \in Nat
      /\ \A i \in 1 .. Len(w) : all[i] = w[i]
      /\ all[Len(w) + 1] = e
  BY <1>1, <1>2 DEF Behind
<1>4. \A i \in DOMAIN all : i \in DOMAIN w \/ i = Len(w) + 1
  BY <1>3
<1>5. \A i \in DOMAIN all : all[i] = e \/ \E j \in DOMAIN m : all[i] = m[j]
  BY <1>2, <1>3, <1>4
<1>6. Distinct(all)
  <2> SUFFICES ASSUME NEW i \in DOMAIN all, NEW j \in DOMAIN all, all[i].key = all[j].key
               PROVE  i = j
    BY DEF Distinct
  <2>1. CASE i \in DOMAIN w /\ j \in DOMAIN w
    BY <1>2, <1>3, <2>1 DEF Distinct
  <2>2. CASE i \in DOMAIN w /\ j = Len(w) + 1
    BY <1>2, <1>3, <2>2
  <2>3. CASE i = Len(w) + 1 /\ j \in DOMAIN w
    BY <1>2, <1>3, <2>3
  <2> QED
    BY <1>4, <2>1, <2>2, <2>3
<1> QED
  BY <1>2, <1>3, <1>5, <1>6 DEF Grown

\* What is stored is remembered within the limit.
LEMMA StoredIs ==
  ASSUME NEW m \in Seq(KeptBriefs), Distinct(m),
         Len(m) <= Keep, NEW e \in KeptBriefs, NEW s, s = Stored(m, e)
  PROVE  /\ s \in Seq(KeptBriefs) /\ Len(s) <= Keep
         /\ \A i \in DOMAIN s : s[i] = e \/ \E j \in DOMAIN m : s[i] = m[j]
         /\ Distinct(s)
<1>0. Keep \in Nat /\ Len(m) \in Nat
  BY BriefAssumption
<1>1. PICK all : all = Behind(m, e)
  OBVIOUS
<1>2. /\ all \in Seq(KeptBriefs) /\ Len(all) <= Len(m) + 1 /\ Len(all) \in Nat \ {0}
      /\ \A i \in DOMAIN all : all[i] = e \/ \E j \in DOMAIN m : all[i] = m[j]
      /\ Distinct(all)
  BY <1>1, AppendedIs DEF Grown
<1>3. CASE Len(all) <= Keep
  <2>1. s = all
    BY <1>0, <1>1, <1>2, <1>3 DEF Stored, Behind
  <2> QED
    BY <1>2, <1>3, <2>1
<1>4. CASE ~ (Len(all) <= Keep)
  <2>1. s = Tail(all)
    BY <1>0, <1>1, <1>2, <1>4 DEF Stored, Behind
  <2>2. /\ s \in Seq(KeptBriefs) /\ Len(s) = Len(all) - 1 /\ DOMAIN s = 1 .. Len(all) - 1
        /\ DOMAIN all = 1 .. Len(all)
        /\ \A i \in 1 .. Len(all) - 1 : s[i] = all[i + 1]
    BY <1>2, <2>1
  <2>3. \A i \in DOMAIN s : i + 1 \in DOMAIN all /\ s[i] = all[i + 1]
    BY <1>2, <2>2
  <2>4. Distinct(s)
    <3> SUFFICES ASSUME NEW i \in DOMAIN s, NEW j \in DOMAIN s, s[i].key = s[j].key PROVE i = j
      BY DEF Distinct
    <3>1. i + 1 = j + 1
      BY <1>2, <2>3 DEF Distinct
    <3>2. i \in Nat /\ j \in Nat
      BY <2>2
    <3> QED
      BY <3>1, <3>2
  <2> QED
    BY <1>0, <1>2, <2>2, <2>3, <2>4
<1> QED
  BY <1>3, <1>4

\* The memory keeps fitting when what comes in fits.
LEMMA MemoryStillFits ==
  ASSUME BriefTables, BriefTables', Moved, MemoryFits(mem), NEW m \in Seq(KeptBriefs),
         Len(m) <= Keep, Distinct(m),
         \A i \in DOMAIN m : EntryFits(m[i])' \/ \E j \in DOMAIN mem : m[i] = mem[j]
  PROVE  MemoryFits(m)'
<1>1. ASSUME NEW i \in DOMAIN m PROVE EntryFits(m[i])'
  <2>1. CASE \E j \in DOMAIN mem : m[i] = mem[j]
    <3>1. PICK e : e = m[i] /\ EntryFits(e)
      BY <2>1 DEF MemoryFits
    <3>2. EntryFits(e)'
      BY <3>1, EntryStillFits
    <3> QED
      BY <3>1, <3>2
  <2> QED
    BY <2>1
<1> QED
  BY <1>1 DEF MemoryFits

\* A step that changes one request keeps the others.
LEMMA OneRequestChanges ==
  ASSUME BriefInv, BriefTables', Moved, NEW p \in Proc, NEW r,
         request' = [request EXCEPT ![p] = r], RequestFits(p, r)', MemoryFits(mem)'
  PROVE  BriefInv'
<1>1. request \in [Proc -> Asked] /\ \A q \in Proc : RequestFits(q, request[q])
  BY DEF BriefInv
<1>2. r \in Asked
  BY DEF RequestFits
<1>3. request' \in [Proc -> Asked] /\ request'[p] = r /\ \A q \in Proc \ {p} : request'[q] = request[q]
  BY <1>1, <1>2
<1>4. ASSUME NEW q \in Proc PROVE RequestFits(q, request[q])'
  <2>1. CASE q = p
    BY <1>3, <2>1
  <2>2. CASE q # p
    <3>1. PICK one : one = request[q] /\ one = request'[q]
      BY <1>3, <2>2
    <3>2. RequestFits(q, one)'
      BY <1>1, <3>1, RequestStillFits DEF BriefInv
    <3> QED
      BY <3>1, <3>2
  <2> QED
    BY <2>1, <2>2
<1> QED
  BY <1>3, <1>4 DEF BriefInv

\* A step that leaves the memory alone.
LEMMA MemoryKept ==
  ASSUME BriefInv, BriefTables', Moved, mem' = mem
  PROVE  MemoryFits(mem)'
<1>1. PICK m : m = mem
  OBVIOUS
<1>2. m \in Seq(KeptBriefs) /\ Len(m) <= Keep /\ Distinct(m)
  BY <1>1 DEF BriefInv, MemoryFits
<1>3. MemoryFits(m)'
  BY <1>1, <1>2, MemoryStillFits DEF BriefInv
<1> QED
  BY <1>1, <1>3

\* The empty request fits anyone.
LEMMA IdleFits == \A p \in Proc : RequestFits(p, NoRequest)
<1>0. 0 \in 0 .. Seconds /\ 0 \in 0 .. MaxWrites
  BY BriefAssumption
<1>1. NoValue \in Values /\ NoPrint \in Prints /\ NoValue.rows = {}
  BY <1>0 DEF NoValue, NoPrint, Values, Prints
<1>2. NoRequest \in Asked /\ NoRequest.pc = "idle" /\ NoRequest.rows = {} /\ NoRequest.value.rows = {}
      /\ NoRequest.kind = "day" /\ NoRequest.day = NoRequest.ref
  BY <1>0, <1>1 DEF NoRequest, Asked, NoTruth, Kinds, Days
<1> QED
  BY <1>2 DEF RequestFits

\* The first state.
LEMMA BriefStart == BriefInit => BriefInv
<1> SUFFICES ASSUME BriefInit PROVE BriefInv
  OBVIOUS
<1>0. 0 \in 0 .. Seconds /\ 0 \in 0 .. MaxWrites /\ 0 \in 0 .. MaxRuns /\ Keep \in Nat
  BY BriefAssumption
<1>1. BriefTables
  BY <1>0, BriefAssumption DEF BriefInit, BriefTables, Slots
<1>2. request = [p \in Proc |-> NoRequest] /\ mem = <<>>
  BY DEF BriefInit
<1>3. MemoryFits(mem)
  BY <1>0, <1>2 DEF MemoryFits, Distinct
<1>4. NoRequest \in Asked /\ \A p \in Proc : RequestFits(p, NoRequest)
  BY IdleFits DEF RequestFits, Proc
<1> QED
  BY <1>1, <1>2, <1>3, <1>4 DEF BriefInv

-----------------------------------------------------------------------------
(* The steps of a request                                                  *)

\* A message, or a run of a job, begins with the open tasks of its days.
LEMMA MergingFits ==
  ASSUME BriefTables, NEW p \in Proc, NEW kind \in Kinds, p = "listener" => kind # "briefing",
         NEW d \in {0, 1}, NEW day \in Days, kind = "day" => day = d, NEW r,
         r = [pc |-> "merge", kind |-> kind, day |-> day, ref |-> d, start |-> 0, rows |-> OpenFrom(d),
              print |-> NoPrint, value |-> NoValue, truth |-> NoTruth]
  PROVE  RequestFits(p, r)
<1>0. 0 \in 0 .. Seconds /\ 0 \in 0 .. MaxWrites
  BY BriefAssumption
<1>1. NoValue \in Values /\ NoPrint \in Prints /\ NoValue.rows = {}
  BY <1>0 DEF NoValue, NoPrint, Values, Prints
<1>2. PICK rows \in SUBSET Rows : rows = OpenFrom(d) /\ \A x \in rows : Day(x.due) >= d
  BY OpenRows
<1>3. r = [pc |-> "merge", kind |-> kind, day |-> day, ref |-> d, start |-> 0, rows |-> rows,
           print |-> NoPrint, value |-> NoValue, truth |-> NoTruth]
  BY <1>2
<1>4. NoTruth \in [rest : 0 .. MaxWrites, rows : SUBSET Rows, groups : SUBSET SUBSET Task]
  BY <1>0 DEF NoTruth
<1>5. r \in Asked
  BY <1>0, <1>1, <1>3, <1>4 DEF Asked
<1>6. r.pc = "merge" /\ r.kind = kind /\ r.day = day /\ r.ref = d /\ r.rows = rows /\ r.value = NoValue
  BY <1>3
<1> QED
  BY <1>1, <1>2, <1>5, <1>6 DEF RequestFits

\* Messages of the user.
LEMMA PollFits ==
  ASSUME BriefInv, Poll
  PROVE  \E r : request' = [request EXCEPT !["listener"] = r] /\ RequestFits("listener", r)
<1>1. PICK r : r = [NoRequest EXCEPT !.pc = "merge", !.rows = OpenFrom(0)]
  OBVIOUS
<1>2. r = [pc |-> "merge", kind |-> "day", day |-> 0, ref |-> 0, start |-> 0, rows |-> OpenFrom(0),
           print |-> NoPrint, value |-> NoValue, truth |-> NoTruth]
  BY <1>1 DEF NoRequest
<1>3. RequestFits("listener", r)
  BY <1>2, MergingFits DEF BriefInv, Proc, Kinds, Days
<1> QED
  BY <1>1, <1>3 DEF Poll

\* A run of a job.
LEMMA BriefFits ==
  ASSUME BriefInv, NEW d \in {0, 1}, NEW day \in {d, d + 1}, Brief(d, day)
  PROVE  \E r : request' = [request EXCEPT !["job"] = r] /\ RequestFits("job", r)
<1>1. PICK r : r = [NoRequest EXCEPT !.pc = "merge", !.kind = "briefing", !.day = day, !.ref = d,
                                     !.rows = OpenFrom(d)]
  OBVIOUS
<1>2. r = [pc |-> "merge", kind |-> "briefing", day |-> day, ref |-> d, start |-> 0, rows |-> OpenFrom(d),
           print |-> NoPrint, value |-> NoValue, truth |-> NoTruth]
  BY <1>1 DEF NoRequest
<1>3. RequestFits("job", r)
  <2>1. day \in Days
    BY DEF Days
  <2> QED
    BY <1>2, <2>1, MergingFits DEF BriefInv, Proc, Kinds
<1> QED
  BY <1>1, <1>3 DEF Brief

\* The groups are up to date, or have been written.
LEMMA AfterMergeFits ==
  ASSUME BriefInv, NEW p \in Proc, request[p].pc = "merge", request' = AfterMerge(p)
  PROVE  \E r : request' = [request EXCEPT ![p] = r] /\ RequestFits(p, r)
<1>1. CASE request[p].kind = "briefing"
  <2>1. PICK q : q = request[p]
    OBVIOUS
  <2>2. RequestFits(p, q) /\ q \in Asked /\ q.kind = "briefing" /\ q.pc = "merge" /\ p # "listener"
    BY <1>1, <2>1 DEF BriefInv, RequestFits
  <2>3. PICK v : v = [q.value EXCEPT !.rows = q.rows]
    OBVIOUS
  <2>4. v \in Values /\ v.rows = q.rows
    BY <2>2, <2>3 DEF Asked, Values
  <2>5. PICK r : r = [q EXCEPT !.pc = "lines", !.value = v]
    OBVIOUS
  <2>6. r \in Asked /\ r.pc = "lines" /\ r.rows = q.rows /\ r.value = v /\ r.ref = q.ref
        /\ r.kind = q.kind
    BY <2>2, <2>4, <2>5 DEF Asked
  <2>7. RequestFits(p, r)
    BY <2>2, <2>4, <2>6 DEF RequestFits
  <2>8. r = [q EXCEPT !.pc = "lines", !.value.rows = q.rows]
    BY <2>2, <2>3, <2>5 DEF Asked, Values
  <2> QED
    BY <1>1, <2>1, <2>7, <2>8 DEF AfterMerge
<1>2. CASE request[p].kind # "briefing"
  BY <1>2, IdleFits DEF AfterMerge
<1> QED
  BY <1>1, <1>2

\* A command of the user.
LEMMA AskFits ==
  ASSUME BriefInv, NEW k \in {"day", "summary"}, NEW d \in {0, 1}, Ask(k, d)
  PROVE  \E r : request' = [request EXCEPT !["listener"] = r] /\ RequestFits("listener", r)
<1>0. 0 \in 0 .. Seconds /\ 0 \in 0 .. MaxWrites
  BY BriefAssumption
<1>1. NoValue \in Values /\ NoPrint \in Prints /\ NoValue.rows = {}
  BY <1>0 DEF NoValue, NoPrint, Values, Prints
<1>2. PICK r : r = [NoRequest EXCEPT !.pc = "lookup", !.kind = k, !.day = d, !.ref = d, !.start = now]
  OBVIOUS
<1>3. r = [pc |-> "lookup", kind |-> k, day |-> d, ref |-> d, start |-> now, rows |-> {},
           print |-> NoPrint, value |-> NoValue, truth |-> NoTruth]
  BY <1>2 DEF NoRequest
<1>4. now \in 0 .. Seconds
  BY DEF BriefInv, BriefTables
<1>5. /\ r \in Asked /\ r.pc = "lookup" /\ r.kind = k /\ r.rows = {} /\ r.value.rows = {}
      /\ r.day = r.ref
  BY <1>0, <1>1, <1>3, <1>4 DEF Asked, NoTruth, Kinds, Days
<1>6. RequestFits("listener", r)
  BY <1>5 DEF RequestFits
<1> QED
  BY <1>2, <1>6 DEF Ask

\* What is remembered and found again: stale only where the fingerprint could not tell.
LEMMA FoundFits ==
  ASSUME BriefTables, NEW e, EntryFits(e), e.print = Fingerprint, NEW truth,
         truth = [rest |-> rest.version, rows |-> OpenFrom(e.key.ref), groups |-> merges.groups]
  PROVE  /\ e.value.rest # truth.rest => e.value.at = e.print.rest
         /\ e.value.groups # truth.groups => e.value.at = e.print.merges.at
         /\ e.value.rows # truth.rows =>
              e.value.at = e.print.tasks.newest \/ e.value.rows # e.value.seen
<1>1. /\ e.value.at \in Nat /\ e.print.rest \in Nat /\ e.print.merges.at \in Nat
      /\ e.print.tasks.newest \in Nat /\ e.print.tasks.count \in Nat
  BY BriefAssumption DEF EntryFits, KeptBriefs, Values, Prints
<1>2. /\ e.print.rest = rest.at /\ e.print.merges.at = merges.at
      /\ e.print.tasks.newest = Newest({tasks[t].at : t \in OpenTasks})
      /\ e.print.tasks.count = Cardinality(OpenTasks)
  BY PrintIs
<1>3. /\ e.print.rest <= e.value.at /\ e.print.merges.at <= e.value.at
      /\ e.print.tasks.newest <= e.value.at
      /\ e.value.seen # OpenFrom(e.key.ref) =>
           \/ Cardinality(OpenTasks) < e.print.tasks.count
           \/ Newest({tasks[t].at : t \in OpenTasks}) >= e.value.at
  BY DEF EntryFits, Aged
<1>4. (e.value.rest # rest.version => rest.at >= e.value.at)
      /\ (e.value.groups # merges.groups => merges.at >= e.value.at)
  BY DEF EntryFits, RestSince, GroupsSince
<1>5. truth.rest = rest.version /\ truth.rows = OpenFrom(e.key.ref) /\ truth.groups = merges.groups
  OBVIOUS
<1>6. e.value.seen # OpenFrom(e.key.ref) => e.value.at = e.print.tasks.newest
  BY <1>1, <1>2, <1>3
<1> QED
  BY <1>1, <1>2, <1>3, <1>4, <1>5, <1>6

\* A brief is found.
LEMMA HitFits ==
  ASSUME BriefInv, BriefTables', Moved, NEW p \in Proc, Hit(p)
  PROVE  /\ \E r : request' = [request EXCEPT ![p] = r] /\ RequestFits(p, r)
         /\ MemoryFits(mem)'
<1>1. PICK q : q = request[p]
  OBVIOUS
<1>2. RequestFits(p, q) /\ q \in Asked /\ q.pc = "lookup" /\ p = "listener"
  BY <1>1 DEF BriefInv, RequestFits, Hit, Proc
<1>3. PICK i \in DOMAIN mem :
        /\ Matching(mem[i], q)
        /\ mem' = Append(Without(mem, Key(q)), mem[i])
        /\ request' = [request EXCEPT ![p] = [q EXCEPT
             !.pc = "hit", !.print = mem[i].print, !.value = mem[i].value,
             !.truth = [rest |-> rest.version, rows |-> OpenFrom(q.ref), groups |-> merges.groups]]]
  BY <1>1 DEF Hit
<1>4. PICK e : e = mem[i]
  OBVIOUS
<1>5. EntryFits(e) /\ e \in KeptBriefs /\ e.key = Key(q) /\ e.print = Fingerprint
  BY <1>3, <1>4 DEF BriefInv, MemoryFits, Matching, EntryFits
<1>6. e.key.ref = q.ref
  BY <1>5 DEF Key
<1>7. BriefTables
  BY DEF BriefInv
<1>8. PICK truth : truth = [rest |-> rest.version, rows |-> OpenFrom(q.ref), groups |-> merges.groups]
  OBVIOUS
<1>9. truth \in [rest : 0 .. MaxWrites, rows : SUBSET Rows, groups : SUBSET SUBSET Task]
  BY <1>7, <1>8, OpenRows DEF BriefTables
<1>10. PICK r : r = [q EXCEPT !.pc = "hit", !.print = e.print, !.value = e.value, !.truth = truth]
  OBVIOUS
<1>11. e.print \in Prints /\ e.value \in Values /\ \A x \in e.value.rows : Day(x.due) >= e.key.ref
  BY <1>5 DEF EntryFits, KeptBriefs
<1>12. /\ r \in Asked /\ r.pc = "hit" /\ r.print = e.print /\ r.value = e.value /\ r.truth = truth
       /\ r.ref = q.ref /\ r.rows = q.rows /\ r.kind = q.kind /\ r.day = q.day
  BY <1>2, <1>9, <1>10, <1>11 DEF Asked
<1>13. GivenFits(r)
  BY <1>5, <1>6, <1>7, <1>8, <1>12, FoundFits DEF GivenFits
<1>14. RequestFits(p, r)
  BY <1>2, <1>6, <1>11, <1>12, <1>13 DEF RequestFits
<1>15. \E s : request' = [request EXCEPT ![p] = s] /\ RequestFits(p, s)
  BY <1>3, <1>4, <1>8, <1>10, <1>14
<1>16. PICK m : m = mem
  OBVIOUS
<1>17. m \in Seq(KeptBriefs) /\ Len(m) <= Keep /\ Distinct(m) /\ MemoryFits(mem)
  BY <1>16 DEF BriefInv, MemoryFits
<1>18. PICK all : all = Behind(m, e)
  OBVIOUS
<1>19. mem' = all
  BY <1>3, <1>4, <1>5, <1>16, <1>18 DEF Behind
<1>20. \E j \in DOMAIN m : m[j].key = e.key
  BY <1>4, <1>16
<1>21. /\ all \in Seq(KeptBriefs) /\ Len(all) \in Nat \ {0}
       /\ (\E j \in DOMAIN m : m[j].key = e.key) => Len(all) <= Len(m)
       /\ \A j \in DOMAIN all : all[j] = e \/ \E k \in DOMAIN m : all[j] = m[k]
       /\ Distinct(all)
  <2>1. m \in Seq(KeptBriefs) /\ Distinct(m) /\ e \in KeptBriefs
    BY <1>5, <1>17
  <2>2. Grown(all, m, e)
    BY <1>18, <2>1, AppendedIs
  <2> QED
    BY <2>2 DEF Grown
<1>22. \A j \in DOMAIN all : \E k \in DOMAIN mem : all[j] = mem[k]
  BY <1>4, <1>16, <1>21
<1>23. Len(all) <= Keep
  BY <1>17, <1>20, <1>21, BriefAssumption
<1>24. MemoryFits(all)'
  BY <1>7, <1>17, <1>21, <1>22, <1>23, MemoryStillFits
<1> QED
  BY <1>15, <1>19, <1>24

\* The fingerprint is taken, before the reads.
LEMMA MissFits ==
  ASSUME BriefInv, NEW p \in Proc, Miss(p)
  PROVE  \E r : request' = [request EXCEPT ![p] = r] /\ RequestFits(p, r)
<1>1. PICK q : q = request[p]
  OBVIOUS
<1>2. RequestFits(p, q) /\ q \in Asked /\ q.pc = "lookup" /\ p = "listener" /\ BriefTables
  BY <1>1 DEF BriefInv, RequestFits, Miss, Proc
<1>3. PICK rows \in SUBSET Rows : rows = OpenFrom(q.ref)
  BY <1>2, OpenRows
<1>4. now \in 0 .. Seconds
  BY <1>2 DEF BriefTables
<1>5. PICK v : v = [q.value EXCEPT !.at = now, !.seen = rows]
  OBVIOUS
<1>6. v \in Values /\ v.at = now /\ v.seen = rows /\ v.rows = q.value.rows
  BY <1>2, <1>4, <1>5 DEF Asked, Values
<1>7. PICK print \in Prints : print = Fingerprint
  BY <1>2, PrintIs
<1>8. PICK r : r = [q EXCEPT !.pc = "rest", !.print = print, !.value = v]
  OBVIOUS
<1>9. /\ r \in Asked /\ r.pc = "rest" /\ r.print = print /\ r.value = v
      /\ r.ref = q.ref /\ r.rows = q.rows /\ r.kind = q.kind /\ r.day = q.day
  BY <1>2, <1>6, <1>7, <1>8 DEF Asked
<1>10. Aged(print, v, q.ref)
  <2>1. now \in Nat /\ Cardinality(OpenTasks) \in Nat
    BY <1>4, BriefAssumption, OpenAreFinite
  <2> QED
    BY <1>2, <1>3, <1>6, <1>7, <2>1, PrintIs DEF Aged
<1>11. RequestFits(p, r)
  BY <1>2, <1>6, <1>9, <1>10 DEF RequestFits
<1>12. r = [q EXCEPT !.pc = "rest", !.print = Fingerprint, !.value.at = now, !.value.seen = OpenFrom(q.ref)]
  BY <1>2, <1>3, <1>5, <1>7, <1>8 DEF Asked, Values
<1> QED
  BY <1>1, <1>11, <1>12 DEF Miss

\* Events, materials and the rest are read.
LEMMA ReadRestFits ==
  ASSUME BriefInv, NEW p \in Proc, ReadRest(p)
  PROVE  \E r : request' = [request EXCEPT ![p] = r] /\ RequestFits(p, r)
<1>1. PICK q : q = request[p]
  OBVIOUS
<1>2. /\ RequestFits(p, q) /\ q \in Asked /\ q.pc = "rest" /\ p = "listener" /\ BriefTables
      /\ Aged(q.print, q.value, q.ref)
  BY <1>1 DEF BriefInv, RequestFits, ReadRest, Proc
<1>3. rest.version \in 0 .. MaxWrites
  BY <1>2 DEF BriefTables
<1>4. PICK v : v = [q.value EXCEPT !.rest = rest.version]
  OBVIOUS
<1>5. v \in Values /\ v.rest = rest.version /\ v.at = q.value.at /\ v.seen = q.value.seen
      /\ v.rows = q.value.rows
  BY <1>2, <1>3, <1>4 DEF Asked, Values
<1>6. PICK r : r = [q EXCEPT !.pc = "tasks", !.value = v]
  OBVIOUS
<1>7. /\ r \in Asked /\ r.pc = "tasks" /\ r.print = q.print /\ r.value = v
      /\ r.ref = q.ref /\ r.rows = q.rows /\ r.kind = q.kind /\ r.day = q.day
  BY <1>2, <1>5, <1>6 DEF Asked
<1>8. Aged(q.print, v, q.ref) /\ RestSince(v)
  BY <1>2, <1>5 DEF Aged, RestSince
<1>9. RequestFits(p, r)
  BY <1>2, <1>5, <1>7, <1>8 DEF RequestFits
<1>10. r = [q EXCEPT !.pc = "tasks", !.value.rest = rest.version]
  BY <1>2, <1>4, <1>6 DEF Asked, Values
<1> QED
  BY <1>1, <1>9, <1>10 DEF ReadRest

\* The tasks are read.
LEMMA ReadTasksFits ==
  ASSUME BriefInv, NEW p \in Proc, ReadTasks(p)
  PROVE  \E r : request' = [request EXCEPT ![p] = r] /\ RequestFits(p, r)
<1>1. PICK q : q = request[p]
  OBVIOUS
<1>2. /\ RequestFits(p, q) /\ q \in Asked /\ q.pc = "tasks" /\ p = "listener" /\ BriefTables
      /\ Aged(q.print, q.value, q.ref) /\ RestSince(q.value)
  BY <1>1 DEF BriefInv, RequestFits, ReadTasks, Proc
<1>3. PICK rows \in SUBSET Rows : rows = OpenFrom(q.ref) /\ \A x \in rows : Day(x.due) >= q.ref
  BY <1>2, OpenRows
<1>4. PICK v : v = [q.value EXCEPT !.rows = rows]
  OBVIOUS
<1>5. v \in Values /\ v.rest = q.value.rest /\ v.at = q.value.at /\ v.seen = q.value.seen
      /\ v.rows = rows
  BY <1>2, <1>3, <1>4 DEF Asked, Values
<1>6. PICK r : r = [q EXCEPT !.pc = "lines", !.value = v]
  OBVIOUS
<1>7. /\ r \in Asked /\ r.pc = "lines" /\ r.print = q.print /\ r.value = v
      /\ r.ref = q.ref /\ r.rows = q.rows /\ r.kind = q.kind /\ r.day = q.day
  BY <1>2, <1>5, <1>6 DEF Asked
<1>8. Aged(q.print, v, q.ref) /\ RestSince(v)
  BY <1>2, <1>5 DEF Aged, RestSince
<1>9. RequestFits(p, r)
  BY <1>2, <1>3, <1>5, <1>7, <1>8 DEF RequestFits
<1>10. r = [q EXCEPT !.pc = "lines", !.value.rows = OpenFrom(q.ref)]
  BY <1>2, <1>3, <1>4, <1>6 DEF Asked, Values
<1> QED
  BY <1>1, <1>9, <1>10 DEF ReadTasks

\* The groups are read, by the listener or by a job.
LEMMA ReadMergesFits ==
  ASSUME BriefInv, NEW p \in Proc, ReadMerges(p)
  PROVE  \E r : request' = [request EXCEPT ![p] = r] /\ RequestFits(p, r)
<1>1. PICK q : q = request[p]
  OBVIOUS
<1>2. RequestFits(p, q) /\ q \in Asked /\ q.pc = "lines" /\ BriefTables
  BY <1>1 DEF BriefInv, RequestFits, ReadMerges
<1>3. PICK stage : stage = IF p = "job" THEN "done" ELSE "store"
  OBVIOUS
<1>4. PICK v : v = [q.value EXCEPT !.groups = merges.groups]
  OBVIOUS
<1>5. v \in Values /\ v.rest = q.value.rest /\ v.at = q.value.at /\ v.seen = q.value.seen
      /\ v.rows = q.value.rows /\ v.groups = merges.groups
  BY <1>2, <1>4 DEF Asked, Values, BriefTables
<1>6. PICK r : r = [q EXCEPT !.pc = stage, !.value = v]
  OBVIOUS
<1>7. /\ r \in Asked /\ r.pc = stage /\ r.print = q.print /\ r.value = v
      /\ r.ref = q.ref /\ r.rows = q.rows /\ r.kind = q.kind /\ r.day = q.day
  BY <1>2, <1>3, <1>5, <1>6 DEF Asked
<1>8. GroupsSince(v)
  BY <1>5 DEF GroupsSince
<1>9. p = "listener" => Aged(q.print, v, q.ref) /\ RestSince(v)
  BY <1>2, <1>5 DEF RequestFits, Aged, RestSince
<1>10. p = "job" => stage = "done"
  BY <1>3
<1>11. RequestFits(p, r)
  BY <1>2, <1>3, <1>5, <1>7, <1>8, <1>9, <1>10 DEF RequestFits
<1>12. r = [q EXCEPT !.pc = stage, !.value.groups = merges.groups]
  BY <1>2, <1>4, <1>6 DEF Asked, Values
<1> QED
  BY <1>1, <1>3, <1>11, <1>12 DEF ReadMerges

\* The brief is stored.
LEMMA StoreFits ==
  ASSUME BriefInv, BriefTables', Moved, NEW p \in Proc, Store(p)
  PROVE  /\ \E r : request' = [request EXCEPT ![p] = r] /\ RequestFits(p, r)
         /\ MemoryFits(mem)'
<1>1. PICK q : q = request[p]
  OBVIOUS
<1>2. RequestFits(p, q) /\ q \in Asked /\ q.pc = "store" /\ p = "listener" /\ BriefTables
  BY <1>1 DEF BriefInv, RequestFits, Store, Proc
<1>3. PICK r : r = [q EXCEPT !.pc = "done"]
  OBVIOUS
<1>4. /\ r \in Asked /\ r.pc = "done" /\ r.print = q.print /\ r.value = q.value
      /\ r.ref = q.ref /\ r.rows = q.rows /\ r.kind = q.kind /\ r.day = q.day
  BY <1>2, <1>3 DEF Asked
<1>5. RequestFits(p, r)
  BY <1>2, <1>4 DEF RequestFits
<1>6. request' = [request EXCEPT ![p] = r]
  BY <1>1, <1>3 DEF Store
<1>7. PICK e : e = Entry(q)
  OBVIOUS
<1>8. Key(q) \in BriefKeys
  BY <1>2 DEF Key, BriefKeys, Asked, Minutes
<1>9. /\ e \in KeptBriefs /\ e.key = Key(q) /\ e.print = q.print /\ e.value = q.value
      /\ e.key.ref = q.ref
  BY <1>2, <1>7, <1>8 DEF Entry, KeptBriefs, Asked, Key
<1>10. EntryFits(e)
  BY <1>2, <1>9 DEF EntryFits, RequestFits
<1>11. EntryFits(e)'
  BY <1>2, <1>10, EntryStillFits
<1>12. PICK m : m = mem
  OBVIOUS
<1>13. m \in Seq(KeptBriefs) /\ Len(m) <= Keep /\ Distinct(m) /\ MemoryFits(mem)
  BY <1>12 DEF BriefInv, MemoryFits
<1>14. PICK s : s = Stored(m, e)
  OBVIOUS
<1>15. /\ s \in Seq(KeptBriefs) /\ Len(s) <= Keep /\ Distinct(s)
       /\ \A i \in DOMAIN s : s[i] = e \/ \E j \in DOMAIN m : s[i] = m[j]
  BY <1>9, <1>13, <1>14, StoredIs
<1>16. \A i \in DOMAIN s : EntryFits(s[i])' \/ \E j \in DOMAIN mem : s[i] = mem[j]
  <2> SUFFICES ASSUME NEW i \in DOMAIN s, s[i] = e PROVE EntryFits(s[i])'
    BY <1>12, <1>15
  <2> QED
    BY <1>11
<1>17. MemoryFits(s)'
  BY <1>2, <1>13, <1>15, <1>16, MemoryStillFits
<1>18. mem' = s
  BY <1>1, <1>7, <1>12, <1>14 DEF Store
<1> QED
  BY <1>5, <1>6, <1>17, <1>18

\* Every step keeps the invariant.
LEMMA BriefStep ==
  ASSUME BriefInv, [BriefNext]_briefVars
  PROVE  BriefInv'
<1>1. BriefTables' /\ Moved
  BY TablesKept DEF BriefInv, RequestFits, Asked
<1>2. ASSUME NEW p \in Proc, \E r : request' = [request EXCEPT ![p] = r] /\ RequestFits(p, r),
             MemoryFits(mem)'
      PROVE  BriefInv'
  <2>1. PICK r : request' = [request EXCEPT ![p] = r] /\ RequestFits(p, r)
    BY <1>2
  <2>2. RequestFits(p, r)'
    BY <1>1, <2>1, RequestStillFits DEF BriefInv
  <2> QED
    BY <1>1, <1>2, <2>1, <2>2, OneRequestChanges
<1>3. ASSUME NEW p \in Proc, \E r : request' = [request EXCEPT ![p] = r] /\ RequestFits(p, r),
             mem' = mem
      PROVE  BriefInv'
  BY <1>1, <1>2, <1>3, MemoryKept
<1>4. CASE request' = request /\ mem' = mem
  <2>1. PICK p \in Proc : TRUE
    BY DEF Proc
  <2>2. request' = [request EXCEPT ![p] = request[p]] /\ RequestFits(p, request[p])
    BY <1>4 DEF BriefInv
  <2>3. \E r : request' = [request EXCEPT ![p] = r] /\ RequestFits(p, r)
    BY <2>2
  <2> QED
    BY <1>3, <1>4, <2>3
<1>5. CASE Tick \/ Touch \/ (\E t \in Task : Collect(t) \/ Close(t)) \/ UNCHANGED briefVars
  BY <1>4, <1>5 DEF Tick, Touch, Collect, Close, briefVars
<1>6. CASE Poll
  <2>1. mem' = mem
    BY <1>6 DEF Poll
  <2> QED
    BY <1>3, <1>6, <2>1, PollFits DEF Proc
<1>7. ASSUME NEW k \in {"day", "summary"}, NEW d \in {0, 1}, Ask(k, d) PROVE BriefInv'
  <2>1. mem' = mem
    BY <1>7 DEF Ask
  <2> QED
    BY <1>3, <1>7, <2>1, AskFits DEF Proc
<1>8. ASSUME NEW ref \in {0, 1}, NEW day \in {ref, ref + 1}, Brief(ref, day) PROVE BriefInv'
  <2>1. mem' = mem
    BY <1>8 DEF Brief
  <2> QED
    BY <1>3, <1>8, <2>1, BriefFits DEF Proc
<1>9. ASSUME NEW p \in Proc, KeepMerges(p) \/ WriteMerges(p) PROVE BriefInv'
  <2>1. mem' = mem /\ request[p].pc = "merge" /\ request' = AfterMerge(p)
    BY <1>9 DEF KeepMerges, WriteMerges
  <2> QED
    BY <1>3, <2>1, AfterMergeFits
<1>10. ASSUME NEW p \in Proc, Hit(p) PROVE BriefInv'
  BY <1>1, <1>2, <1>10, HitFits
<1>11. ASSUME NEW p \in Proc, Store(p) PROVE BriefInv'
  BY <1>1, <1>2, <1>11, StoreFits
<1>12. ASSUME NEW p \in Proc, Miss(p) PROVE BriefInv'
  <2>1. mem' = mem
    BY <1>12 DEF Miss
  <2> QED
    BY <1>3, <1>12, <2>1, MissFits
<1>13. ASSUME NEW p \in Proc, ReadRest(p) PROVE BriefInv'
  <2>1. mem' = mem
    BY <1>13 DEF ReadRest
  <2> QED
    BY <1>3, <1>13, <2>1, ReadRestFits
<1>14. ASSUME NEW p \in Proc, ReadTasks(p) PROVE BriefInv'
  <2>1. mem' = mem
    BY <1>14 DEF ReadTasks
  <2> QED
    BY <1>3, <1>14, <2>1, ReadTasksFits
<1>15. ASSUME NEW p \in Proc, ReadMerges(p) PROVE BriefInv'
  <2>1. mem' = mem
    BY <1>15 DEF ReadMerges
  <2> QED
    BY <1>3, <1>15, <2>1, ReadMergesFits
<1>16. ASSUME NEW p \in Proc, Reply(p) PROVE BriefInv'
  <2>1. mem' = mem /\ request' = [request EXCEPT ![p] = NoRequest]
    BY <1>16 DEF Reply
  <2>2. \E r : request' = [request EXCEPT ![p] = r] /\ RequestFits(p, r)
    BY <2>1, IdleFits
  <2> QED
    BY <1>3, <2>1, <2>2
<1> QED
  BY <1>5, <1>6, <1>7, <1>8, <1>9, <1>10, <1>11, <1>12, <1>13, <1>14, <1>15, <1>16 DEF BriefNext

\* So it holds for good: the tables hold nothing of a later second, every request and every
\* remembered brief has read what its fingerprint and its day allow.
THEOREM BriefInvariant == BriefSpec => []BriefInv
<1>1. BriefInv /\ [BriefNext]_briefVars => BriefInv'
  BY BriefStep
<1> QED
  BY <1>1, BriefStart, PTL DEF BriefSpec

\* It has the types.
LEMMA BriefTypes == BriefInv => BriefTypeOK
<1> SUFFICES ASSUME BriefInv PROVE BriefTypeOK
  OBVIOUS
<1>1. BriefTables /\ MemoryFits(mem)
  BY DEF BriefInv
<1>2. \A p \in Proc :
        /\ request[p].pc \in {"idle", "merge", "lookup", "rest", "tasks", "lines", "store", "hit", "done"}
        /\ request[p].kind \in Kinds
  BY DEF BriefInv, Asked
<1>3. Len(mem) <= Keep /\ \A i, j \in DOMAIN mem : mem[i].key = mem[j].key => i = j
  BY <1>1 DEF MemoryFits, Distinct
<1>4. /\ merges.of \subseteq Rows /\ merges.groups \subseteq SUBSET Task /\ merges.at \in 0 .. Seconds
      /\ \A g, h \in merges.groups : g # h => g \cap h = {}
  BY <1>1 DEF BriefTables
<1> QED
  BY <1>1, <1>2, <1>3, <1>4 DEF BriefTypeOK, BriefTables

\* Every table, request and remembered brief has its type, the listener remembers at most one brief
\* for a request and never more than it may keep, and the groups of the merge row share no task.
THEOREM BriefTypeCorrect == BriefSpec => []BriefTypeOK
  BY BriefInvariant, BriefTypes, PTL

\* A remembered brief that is given again although something it shows has changed was built in the
\* second of the newest row of that table, or while a task was written: the fingerprint that
\* DayBriefService takes before its reads hides no other change, whatever the clock, the writers
\* and the other processes do.
THEOREM StaleBriefsAreOfTheirSecond == BriefSpec => []StaleOnlyInItsSecond
<1>1. BriefInv => StaleOnlyInItsSecond
  <2> SUFFICES ASSUME BriefInv, NEW p \in Proc, request[p].pc = "hit" PROVE GivenFits(request[p])
    BY BriefTypes DEF StaleOnlyInItsSecond, GivenFits
  <2> QED
    BY DEF BriefInv, RequestFits
<1> QED
  BY <1>1, BriefInvariant, PTL

-----------------------------------------------------------------------------
(* The lines of a brief                                                    *)

\* The earliest of some deadlines is of the first day if one of them is.
LEMMA EarliestIs ==
  ASSUME NEW rows \in SUBSET Rows, NEW y \in rows, \A x \in rows : Day(x.due) >= Day(y.due)
  PROVE  Day(Earliest(rows)) = Day(y.due)
<1> DEFINE D == {x.due : x \in rows}
<1>1. y.due \in D /\ D \subseteq Slots /\ \A d \in D : Day(d) >= Day(y.due)
  BY DEF Rows
<1>2. PICK m : m = Min(D)
  OBVIOUS
<1>3. m \in D /\ \A d \in D : m <= d
  <2>1. \E d \in D : \A e \in D : d <= e
    <3> HIDE DEF D
    <3>1. CASE \A e \in D : y.due <= e
      BY <1>1, <3>1
    <3>2. ASSUME NEW d \in D, ~ (y.due <= d), NEW e \in D PROVE d <= e
      <4>1. d \in 0 .. 5 /\ e \in 0 .. 5 /\ y.due \in 0 .. 5
        BY <1>1 DEF Slots
      <4>2. d < y.due /\ d \div 2 >= y.due \div 2 /\ e \div 2 >= y.due \div 2
        BY <1>1, <3>2, <4>1 DEF Day
      <4> QED
        BY <4>1, <4>2
    <3> QED
      BY <3>1, <3>2
  <2> HIDE DEF D
  <2> QED
    BY <1>2, <2>1 DEF Min
<1>4. m \in 0 .. 5 /\ y.due \in 0 .. 5 /\ m <= y.due /\ Day(m) >= Day(y.due)
  BY <1>1, <1>3 DEF Slots
<1>5. Day(m) = Day(y.due)
  BY <1>4 DEF Day
<1> QED
  BY <1>2, <1>5 DEF Earliest

\* A row that the duplicates leave has a line, and one of the first day has a line of that day:
\* however the groups were made, no other task of the line is due on a day before.
LEMMA LineOf ==
  ASSUME NEW rows \in SUBSET Rows, NEW groups, NEW y \in Deduped(rows)
  PROVE  \E l \in MergeLines(rows, groups) :
            y.task \in l.tasks /\ ((\A x \in rows : Day(x.due) >= Day(y.due)) => Day(l.due) = Day(y.due))
<1>0. y \in rows /\ Deduped(rows) \subseteq rows
  BY DEF Deduped
<1> DEFINE merged == {g \in groups : Cardinality(Present(Deduped(rows), g)) >= 2}
<1>1. ASSUME NEW g \in merged, y.task \in g
      PROVE  \E l \in MergeLines(rows, groups) :
               y.task \in l.tasks
               /\ ((\A x \in rows : Day(x.due) >= Day(y.due)) => Day(l.due) = Day(y.due))
  <2>1. PICK here : here = Present(Deduped(rows), g)
    OBVIOUS
  <2>2. y \in here /\ here \in SUBSET Rows /\ here \subseteq rows
    BY <1>0, <1>1, <2>1 DEF Present
  <2>3. PICK l : l = [tasks |-> {x.task : x \in here}, due |-> Earliest(here)]
    OBVIOUS
  <2>4. l \in MergeLines(rows, groups)
    BY <1>1, <2>1, <2>3 DEF MergeLines
  <2>5. l.tasks = {x.task : x \in here} /\ l.due = Earliest(here)
    BY <2>3
  <2>6. y.task \in l.tasks
    BY <2>2, <2>5
  <2>7. (\A x \in rows : Day(x.due) >= Day(y.due)) => Day(Earliest(here)) = Day(y.due)
    BY <2>2, EarliestIs
  <2> QED
    BY <2>4, <2>5, <2>6, <2>7
<1>2. CASE ~ \E g \in merged : y.task \in g
  <2>1. PICK l : l = [tasks |-> {y.task}, due |-> y.due]
    OBVIOUS
  <2>2. l \in MergeLines(rows, groups)
    BY <1>2, <2>1 DEF MergeLines
  <2>3. y.task \in l.tasks /\ l.due = y.due
    BY <2>1
  <2> QED
    BY <2>2, <2>3
<1> QED
  BY <1>1, <1>2

\* Whatever the language model has said, and for whichever list of tasks its groups were made: no
\* task that the duplicates leave is missing from the lines of a brief, and none of the day that
\* /today or /tomorrow asks for from the lines of that day (_apply_task_merge_cache).  It needs of
\* the code that the groups are applied to tasks that are in the list, when the duplicates are
\* gone, and that a command reads no task from before the day it asks for.
THEOREM TasksAreShown == BriefSpec => []KeptAreShown
<1>1. BriefInv => KeptAreShown
  <2> SUFFICES ASSUME BriefInv, NEW p \in Proc, NEW x \in Deduped(request[p].value.rows)
               PROVE  KeptShown(request[p], Lines(request[p]), x)
    BY DEF KeptAreShown
  <2>1. PICK r : r = request[p]
    OBVIOUS
  <2>2. r \in Asked /\ (\A y \in r.value.rows : Day(y.due) >= r.ref) /\ (r.kind = "day" => r.day = r.ref)
    BY <2>1 DEF BriefInv, RequestFits
  <2>3. PICK rows \in SUBSET Rows : rows = r.value.rows
    BY <2>2 DEF Asked, Values
  <2>4. PICK groups : groups = r.value.groups
    OBVIOUS
  <2>5. Lines(r) = MergeLines(rows, groups)
    BY <2>3, <2>4 DEF Lines
  <2>6. PICK l \in Lines(r) :
           x.task \in l.tasks /\ ((\A y \in rows : Day(y.due) >= Day(x.due)) => Day(l.due) = Day(x.due))
    BY <2>1, <2>3, <2>5, LineOf
  <2>7. Shows(Lines(r), x)
    BY <2>6 DEF Shows
  <2>8. ASSUME AskedFor(r, x) PROVE Shows(OfDay(r, Lines(r)), x)
    <3>1. Day(x.due) = r.day /\ r.day = r.ref
      BY <2>2, <2>8 DEF AskedFor
    <3>2. Day(l.due) = r.day
      BY <2>2, <2>3, <2>6, <3>1
    <3> QED
      BY <2>6, <3>2 DEF OfDay, Shows
  <2> QED
    BY <2>1, <2>7, <2>8 DEF KeptShown
<1> QED
  BY <1>1, BriefInvariant, PTL

=============================================================================
