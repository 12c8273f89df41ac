-------------------------- MODULE ScheduledDelivery --------------------------
(***************************************************************************)
(* The scheduled messages of jobs/pipeline.py: send_scheduled_briefings,    *)
(* a morning and an evening briefing a day, and send_daily_digest.  A run   *)
(* goes through the chats that are to be served, reads the chat's row in    *)
(* sync_state, sends what the row does not say was sent today, and writes   *)
(* the row back: the briefings once per chat, after both sends, the digest  *)
(* after a send that worked.  A chat is a user (telegram_chat_id is UNIQUE),*)
(* so a row belongs to one chat.                                            *)
(*                                                                         *)
(* The locks of SyncLocks keep the runs of one job apart, and the two jobs  *)
(* share no row: a behaviour of the model is of one job, either of them.    *)
(* Which chats want what (NotificationPolicies) is settled when a run       *)
(* begins; a choice made during a run counts for the next one.              *)
(***************************************************************************)
EXTENDS NotificationPolicies

CONSTANTS
  NoChat,
  Notices,         \* the discussions UClass shows to the users
  MorningTick,     \* briefing_morning_time_local
  EveningTick,     \* briefing_evening_time_local
  DigestTick,      \* digest_time_local
  Days,            \* bound: the days the clock runs
  MaxTimes,        \* bound: the times a discussion gets
  MaxFaults,       \* bound: crashes, database errors and lost answers
  MaxEvents        \* bound: faults, choices of the users and edited discussions together

ASSUME ConstantsAssumption ==
  /\ NoChat \notin Chats
  /\ Days \in Nat \ {0} /\ MaxTimes \in Nat
  /\ MaxFaults \in Nat /\ MaxEvents \in Nat
  /\ MorningTick \in Nat /\ EveningTick \in Nat /\ DigestTick \in Nat

Briefings == {"morning", "evening"}

MaxTime == Days * TicksPerDay
Times   == 1 .. MaxTime
Never   == 0

Trigger(slot) ==
  CASE slot = "morning" -> MorningTick [] slot = "evening" -> EveningTick [] OTHER -> DigestTick
\* the slots whose time of the day has come at t
Reached(t) == {s \in Slots : TickOfDay(t) >= Trigger(s)}

VARIABLES
  \* the database
  sentDate,    \* slot -> chat -> the day its row says it was sent, or Never
  lastSentAt,  \* chat -> last_sent_at of its digest row
  createdAt,   \* notice -> created_at of its row, or Never before it is stored
  \* UClass
  owner,       \* notice -> the chat whose user gets it
  given,       \* notice -> the times a fetch has found, or can have found, for it
  \* the run
  job,         \* "briefings" or "digest"
  pc,          \* "idle", "next" (between two chats), "send"
  today,
  targets,     \* the slots and chats to serve
  done,        \* the chats that have been served
  chat,
  pending,     \* the slots still to be sent to chat
  sent,        \* the slots sent to chat
  seen,        \* the notices the digest of chat counts, with created_at
  \* history
  failed,      \* the sends of this run that did not work
  sends,       \* slot -> chat -> day -> messages of that day that arrived
  counted,     \* notice -> created_at -> the digests that arrived and count it
  late,        \* the notices stored with a time that a digest had already passed
  firstRead,   \* chat -> when the list of its first digest was read
  faults

JobSlots == IF job = "digest" THEN {"digest"} ELSE Briefings

rows    == <<sentDate, lastSentAt>>
notices == <<createdAt, owner, given>>
run     == <<pc, today, targets, done, chat, pending, sent, seen, failed>>
passed  == <<late, firstRead>>
history == <<sends, counted, passed, faults>>
vars    == <<job, now, settings, rows, notices, run, history>>

Init ==
  /\ job \in {"briefings", "digest"}
  /\ now = 1 /\ SettingsInit
  /\ sentDate = [s \in Slots |-> [c \in Chats |-> Never]]
  /\ lastSentAt = [c \in Chats |-> Never]
  /\ createdAt = [n \in Notices |-> Never]
  /\ owner \in [Notices -> Chats]
  /\ given = [n \in Notices |-> {}]
  /\ pc = "idle" /\ today = Never /\ targets = {} /\ done = {}
  /\ chat = NoChat /\ pending = {} /\ sent = {} /\ seen = {} /\ failed = {}
  /\ sends = [s \in Slots |-> [c \in Chats |-> [d \in 1 .. Days |-> 0]]]
  /\ counted = [n \in Notices |-> [t \in Times |-> 0]]
  /\ late = {} /\ firstRead = [c \in Chats |-> Never]
  /\ faults = 0

-----------------------------------------------------------------------------
(* The environment                                                          *)

Edited == {n \in Notices : Cardinality(given[n]) > 1}
Events == choices + faults + Cardinality(Edited)

Tick ==
  /\ now < MaxTime
  /\ now' = now + 1
  /\ UNCHANGED <<job, settings, rows, notices, run, history>>

\* The discussion is posted, edited or answered, which renews its timemodified; or
\* a fetch finds no time and takes its own.  Only the digest reads notices.
Modify(n) ==
  /\ job = "digest" /\ Cardinality(given[n]) < MaxTimes
  /\ given[n] = {} \/ Events < MaxEvents
  /\ given' = [given EXCEPT ![n] = @ \union {now}]
  /\ UNCHANGED <<job, now, settings, rows, createdAt, owner, run, history>>

\* the digest in force, or the one being sent, has its list already
Passed(c, t) == lastSentAt[c] >= t \/ chat = c

\* A UClass collection stores the notice with the time it has fetched, over the
\* one in the row; with two collections at once it may be the older time.
Collect(n) ==
  \E t \in given[n] :
    /\ createdAt' = [createdAt EXCEPT ![n] = t]
    /\ late' = CASE t = createdAt[n] -> late
                 [] t # createdAt[n] /\ Passed(owner[n], t) -> late \union {n}
                 [] OTHER -> late \ {n}
    /\ UNCHANGED <<job, now, settings, rows, owner, given, run, sends, counted, firstRead, faults>>

\* a user asks the assistant for other messages
Ask(s, c, n, k) ==
  /\ pc = "idle" /\ s \in JobSlots /\ Events < MaxEvents
  /\ SetPolicy(s, c, n, k)
  /\ UNCHANGED <<job, now, rows, notices, run, history>>

-----------------------------------------------------------------------------
(* A run                                                                    *)

\* whom the preferences and policies select, of the slots whose time has come
Selections ==
  {pair \in (JobSlots \intersect Reached(now)) \X Chats : pair[2] \in Selected(pair[1])}

\* a run that has somebody to serve; any other changes nothing
Begin ==
  /\ pc = "idle"
  /\ Selections # {} /\ targets' = Selections
  /\ pc' = "next" /\ today' = Day(now) /\ done' = {} /\ failed' = {}
  /\ UNCHANGED <<job, now, settings, rows, notices, chat, pending, sent, seen, history>>

\* mutant: off by one day, so that today's date does not count as sent
PendingNextDay(c) == {s \in Slots : <<s, c>> \in targets /\ sentDate[s][c] <= today}
\* mutant: one date for all slots of the row
PendingOneDate(c) ==
  {s \in Slots : <<s, c>> \in targets /\ \A other \in JobSlots : sentDate[other][c] # today}
\* the slots c is still to get today
Pending(c) == {s \in Slots : <<s, c>> \in targets /\ sentDate[s][c] # today}

\* mutant: a notice of the second of last_sent_at counts as new
NewNoticesInclusive(c) ==
  {n \in Notices : /\ createdAt[n] # Never /\ owner[n] = c
                   /\ IF lastSentAt[c] # Never THEN createdAt[n] >= lastSentAt[c]
                      ELSE createdAt[n] + TicksPerDay > now}
\* list_notifications_since: created_at > since, which is last_sent_at or a day ago
NewNotices(c) ==
  {n \in Notices : /\ createdAt[n] # Never /\ owner[n] = c
                   /\ IF lastSentAt[c] # Never THEN createdAt[n] > lastSentAt[c]
                      ELSE createdAt[n] + TicksPerDay > now}

Fault == faults < MaxFaults /\ Events < MaxEvents /\ faults' = faults + 1

NextChat(c) == pc = "next" /\ c \notin done /\ \E s \in Slots : <<s, c>> \in targets

\* every pending slot was sent already
SkipChat(c) ==
  /\ NextChat(c) /\ Pending(c) = {}
  /\ done' = done \union {c}
  /\ UNCHANGED <<job, now, settings, rows, notices, pc, today, targets, chat, pending, sent, seen,
                 failed, history>>

\* read the row, compose the messages
OpenChat(c) ==
  /\ NextChat(c) /\ Pending(c) # {}
  /\ chat' = c /\ pending' = Pending(c) /\ sent' = {}
  /\ seen' = IF job = "digest" THEN {<<n, createdAt[n]>> : n \in NewNotices(c)} ELSE {}
  /\ firstRead' = IF job = "digest" /\ lastSentAt[c] = Never THEN [firstRead EXCEPT ![c] = now]
                  ELSE firstRead
  /\ pc' = "send"
  /\ UNCHANGED <<job, now, settings, rows, notices, today, targets, done, failed, sends, counted,
                 late, faults>>

\* the message of slot s arrives, with what it counts
Arrives(s) ==
  /\ sends' = [sends EXCEPT ![s][chat][today] = @ + 1]
  /\ counted' = [n \in Notices |-> [t \in Times |->
                   IF <<n, t>> \in seen THEN counted[n][t] + 1 ELSE counted[n][t]]]

\* one send, the morning's before the evening's: it works, or it raises, and
\* then the message may have arrived all the same
Send(s) ==
  /\ pc = "send" /\ s \in pending /\ (s = "evening" => "morning" \notin pending)
  /\ pending' = pending \ {s}
  /\ \/ Arrives(s) /\ sent' = sent \union {s} /\ UNCHANGED <<failed, faults>>
     \/ /\ failed' = failed \union {<<s, chat>>}
        /\ UNCHANGED <<sent, sends, counted, faults>>
     \/ /\ Fault
        /\ Arrives(s)
        /\ failed' = failed \union {<<s, chat>>}
        /\ UNCHANGED sent
  /\ UNCHANGED <<job, now, settings, rows, notices, pc, today, targets, done, chat, seen, passed>>

LeaveChat ==
  /\ done' = done \union {chat} /\ chat' = NoChat
  /\ sent' = {} /\ seen' = {} /\ pc' = "next"

\* the slots that were sent are dated
SetDates ==
  sentDate' = [s \in Slots |-> IF s \in sent THEN [sentDate[s] EXCEPT ![chat] = today]
                               ELSE sentDate[s]]

\* the row of the briefings is written after every chat, sent or not
WriteBriefings ==
  /\ job = "briefings" /\ pc = "send" /\ pending = {}
  /\ SetDates
  /\ LeaveChat
  /\ UNCHANGED <<job, now, settings, lastSentAt, notices, today, targets, pending, failed, history>>

\* mutant: the time is written although the send failed
WriteDigestUnsent ==
  /\ job = "digest" /\ pc = "send" /\ pending = {}
  /\ SetDates
  /\ lastSentAt' = [lastSentAt EXCEPT ![chat] = now]
  /\ LeaveChat
  /\ UNCHANGED <<job, now, settings, notices, today, targets, pending, failed, history>>
\* the row of the digest is written, with the time, if it was sent
WriteDigest ==
  /\ job = "digest" /\ pc = "send" /\ pending = {}
  /\ SetDates
  /\ lastSentAt' = IF sent # {} THEN [lastSentAt EXCEPT ![chat] = now] ELSE lastSentAt
  /\ LeaveChat
  /\ UNCHANGED <<job, now, settings, notices, today, targets, pending, failed, history>>

ClearRun ==
  /\ pc' = "idle" /\ today' = Never /\ targets' = {} /\ done' = {}
  /\ chat' = NoChat /\ pending' = {} /\ sent' = {} /\ seen' = {} /\ failed' = {}

End ==
  /\ pc = "next" /\ \A c \in Chats : ~NextChat(c)
  /\ ClearRun
  /\ UNCHANGED <<job, now, settings, rows, notices, history>>

\* the process dies, or a database call raises
Abort ==
  /\ pc # "idle" /\ Fault
  /\ ClearRun
  /\ UNCHANGED <<job, now, settings, rows, notices, sends, counted, passed>>

Next ==
  \/ Tick
  \/ \E n \in Notices : Modify(n) \/ Collect(n)
  \/ \E s \in Slots, c \in Chats, n \in {"own", "alias"}, k \in Choices : Ask(s, c, n, k)
  \/ Begin
  \/ \E c \in Chats : SkipChat(c) \/ OpenChat(c)
  \/ \E s \in Slots : Send(s)
  \/ WriteBriefings \/ WriteDigest \/ End \/ Abort

Spec == Init /\ [][Next]_vars

-----------------------------------------------------------------------------
(* Properties                                                               *)

TypeOK ==
  /\ now \in Times /\ SettingsOK
  /\ sentDate \in [Slots -> [Chats -> 0 .. Days]]
  /\ lastSentAt \in [Chats -> 0 .. MaxTime]
  /\ createdAt \in [Notices -> 0 .. now] /\ owner \in [Notices -> Chats]
  /\ given \in [Notices -> SUBSET (1 .. now)]
  /\ pc \in {"idle", "next", "send"} /\ job \in {"briefings", "digest"}
  /\ today \in 0 .. Days
  /\ targets \subseteq Slots \X Chats /\ failed \subseteq targets
  /\ done \subseteq Chats /\ chat \in Chats \union {NoChat}
  /\ chat = NoChat <=> pc # "send"
  /\ pending \subseteq JobSlots /\ sent \subseteq JobSlots
  /\ seen \subseteq Notices \X (1 .. now)
  /\ pc # "send" => pending = {} /\ sent = {} /\ seen = {}
  /\ sends \in [Slots -> [Chats -> [1 .. Days -> Nat]]]
  /\ counted \in [Notices -> [Times -> Nat]]
  /\ late \subseteq Notices /\ firstRead \in [Chats -> 0 .. now]
  /\ faults \in 0 .. MaxFaults

\* A chat gets each message of a day once, and once more for each fault: the
\* dates in the row keep later runs of the day, runs over midnight and runs that
\* serve only some of the slots from sending it again.
OncePerDay ==
  /\ TypeOK
  /\ \A s \in Slots, c \in Chats, d \in 1 .. Days : sends[s][c][d] <= 1 + faults

\* When a run has dealt with a chat, each of the chat's slots is recorded for
\* today, or its send has failed in this very run: no chat is passed over for
\* what another chat, or another slot, already got.
ChatsServed ==
  \A s \in Slots, c \in done :
    <<s, c>> \in targets => sentDate[s][c] = today \/ <<s, c>> \in failed

\* Messages go to whom they were asked for last, whatever name the planner gave
\* to the policy: a run serves a chat with a choice exactly if that choice wants
\* the slot then.  Excepted is a choice that rewrites an older row in the second
\* of a newer one.
AsAskedLast ==
  [][Begin => \A s \in JobSlots \intersect Reached(now), c \in Chats :
                \/ said[s][c] = {} \/ Overruled(s, c)
                \/ \E w \in said[s][c] :
                     <<s, c>> \in targets' <=> Matches(w.choice, now)]_vars

\* A digest counts a notice once per time its row gets, and once more for each
\* fault: with last_sent_at written after the list was read, no two digests
\* overlap.  An edited or answered discussion has a new time, and is counted anew.
NoticeCountedOnce ==
  \A n \in Notices, t \in Times : counted[n][t] <= 1 + faults

\* A notice that lies before last_sent_at has been counted: a digest that is not
\* sent leaves it to the next.  Excepted are the notices stored, or stored anew,
\* with a time the digests had already passed, which no digest will ever count,
\* and those older than a day when the first digest was made.
NoticePassedOver ==
  \A n \in Notices :
    createdAt[n] # Never /\ createdAt[n] <= lastSentAt[owner[n]]
      => \/ counted[n][createdAt[n]] > 0
         \/ n \in late
         \/ createdAt[n] + TicksPerDay <= firstRead[owner[n]]
=============================================================================
