---------------------------- MODULE BriefingRelay ----------------------------
(***************************************************************************)
(* The signed briefing relay of briefing_relay.py, as `sidae relay serve`  *)
(* runs it: a ThreadingHTTPServer whose threads each deliver one signed     *)
(* request to its chats through Telegram, and a state file, read and        *)
(* written under a lock, that remembers per item_key the request that was   *)
(* delivered and the chats that have it.  The lock covers the read before   *)
(* the sends and the merge after them, never the sends.                     *)
(*                                                                         *)
(* A request that fails verification changes nothing and is left out.  A    *)
(* signature stands for the whole payload, so two payloads conflict exactly *)
(* when they differ.                                                        *)
(***************************************************************************)
EXTENDS Naturals, FiniteSets

CONSTANTS
  Threads,         \* threads of the server
  Keys,            \* item keys, such as 2026-03-08-evening
  Messages,
  Chats,
  NoPayload,
  Allowed,         \* settings.telegram_allowed_chat_ids, or Chats when it is empty
  MaxRequests,     \* bound: requests the server receives
  MaxFaults        \* bound: crashes, failed writes and lost answers

Payloads == [key : Keys, message : Messages, chats : SUBSET Chats \ {{}}]
NoItem   == [payload |-> NoPayload, sent |-> {}]
Items    == [payload : Payloads, sent : SUBSET Allowed] \union {NoItem}

ASSUME ConstantsAssumption ==
  /\ IsFiniteSet(Threads) /\ IsFiniteSet(Chats)
  /\ Allowed \subseteq Chats
  /\ NoPayload \notin Payloads
  /\ MaxRequests \in Nat /\ MaxFaults \in Nat

VARIABLES
  file,       \* item key -> its entry in the state file, or NoItem
  pc,         \* thread -> "idle", "send"
  req,        \* thread -> the payload it delivers
  already,    \* thread -> the chats the file had for the item, when it looked
  todo,       \* thread -> the chats it has still to send to
  sentTo,     \* thread -> the chats it sent to
  \* history
  requests, faults,
  delivered,  \* item key -> chat -> messages of that item the chat received
  answers     \* the answers given so far, with the payload and the chats they name

thread  == <<pc, req, already, todo, sentTo>>
history == <<requests, faults, delivered, answers>>
vars    == <<file, thread, history>>

Init ==
  /\ file = [k \in Keys |-> NoItem]
  /\ pc = [t \in Threads |-> "idle"]
  /\ req = [t \in Threads |-> NoPayload]
  /\ already = [t \in Threads |-> {}] /\ todo = [t \in Threads |-> {}]
  /\ sentTo = [t \in Threads |-> {}]
  /\ requests = 0 /\ faults = 0
  /\ delivered = [k \in Keys |-> [c \in Chats |-> 0]]
  /\ answers = {}

Respond(status, payload, chats) ==
  answers' = answers \union {[status |-> status, payload |-> payload, chats |-> chats]}

\* t is free for the next request
Free(t) ==
  /\ pc' = [pc EXCEPT ![t] = "idle"]
  /\ req' = [req EXCEPT ![t] = NoPayload]
  /\ already' = [already EXCEPT ![t] = {}] /\ todo' = [todo EXCEPT ![t] = {}]
  /\ sentTo' = [sentTo EXCEPT ![t] = {}]

-----------------------------------------------------------------------------
Conflicts(payload) == file[payload.key] # NoItem /\ file[payload.key].payload # payload

\* a request that is answered at once, from the state file
Refuse(t, payload) ==
  LET requested == payload.chats \intersect Allowed IN
  /\ pc[t] = "idle" /\ requests < MaxRequests
  /\ requests' = requests + 1
  /\ \/ /\ Conflicts(payload)
        /\ Respond("conflict", payload, {})
     \/ /\ ~Conflicts(payload) /\ requested = {}
        /\ Respond("forbidden", payload, {})
     \/ /\ ~Conflicts(payload) /\ requested # {} /\ requested \subseteq file[payload.key].sent
        /\ Respond("duplicate", payload, file[payload.key].sent)
  /\ UNCHANGED <<file, thread, faults, delivered>>

\* mutant: the chats that have the item already get it again
ReceiveAll(t, payload) ==
  LET requested == payload.chats \intersect Allowed IN
  /\ pc[t] = "idle" /\ requests < MaxRequests
  /\ ~Conflicts(payload) /\ ~(requested \subseteq file[payload.key].sent)
  /\ requests' = requests + 1
  /\ pc' = [pc EXCEPT ![t] = "send"]
  /\ req' = [req EXCEPT ![t] = payload]
  /\ already' = [already EXCEPT ![t] = file[payload.key].sent]
  /\ todo' = [todo EXCEPT ![t] = requested]
  /\ UNCHANGED <<file, sentTo, faults, delivered, answers>>

\* a request that has chats to send to
Receive(t, payload) ==
  LET requested == payload.chats \intersect Allowed IN
  /\ pc[t] = "idle" /\ requests < MaxRequests
  /\ ~Conflicts(payload) /\ ~(requested \subseteq file[payload.key].sent)
  /\ requests' = requests + 1
  /\ pc' = [pc EXCEPT ![t] = "send"]
  /\ req' = [req EXCEPT ![t] = payload]
  /\ already' = [already EXCEPT ![t] = file[payload.key].sent]
  /\ todo' = [todo EXCEPT ![t] = requested \ file[payload.key].sent]
  /\ UNCHANGED <<file, sentTo, faults, delivered, answers>>

\* send to the next chat: the message arrives, or not, or arrives although the
\* call raises
Send(t) ==
  /\ pc[t] = "send"
  /\ \E c \in todo[t] :
       /\ todo' = [todo EXCEPT ![t] = @ \ {c}]
       /\ \/ /\ sentTo' = [sentTo EXCEPT ![t] = @ \union {c}]
             /\ delivered' = [delivered EXCEPT ![req[t].key][c] = @ + 1]
             /\ UNCHANGED faults
          \/ UNCHANGED <<sentTo, delivered, faults>>
          \/ /\ faults < MaxFaults /\ faults' = faults + 1
             /\ delivered' = [delivered EXCEPT ![req[t].key][c] = @ + 1]
             /\ UNCHANGED sentTo
  /\ UNCHANGED <<file, pc, req, already, requests, answers>>

\* mutant: the chats the file had when the request came in are merged, not those it has now
MergedWithStale(t) == already[t] \union sentTo[t]
\* the chats of the merged entry
Merged(t) == file[req[t].key].sent \union sentTo[t]

\* mutant: every requested chat is recorded, those whose send failed too
MergeRequested(t) ==
  LET item == [payload |-> req[t],
               sent |-> file[req[t].key].sent \union req[t].chats] IN
  /\ pc[t] = "send" /\ todo[t] = {} /\ sentTo[t] # {}
  /\ file' = [file EXCEPT ![req[t].key] = item]
  /\ Respond("delivered", req[t], item.sent)
  /\ Free(t)
  /\ UNCHANGED <<requests, faults, delivered>>

\* all sends have been tried and one worked: read, merge and write the file
MergeDelivery(t) ==
  LET item == [payload |-> req[t], sent |-> Merged(t)] IN
  /\ pc[t] = "send" /\ todo[t] = {} /\ sentTo[t] # {}
  /\ file' = [file EXCEPT ![req[t].key] = item]
  /\ Respond("delivered", req[t], item.sent)
  /\ Free(t)
  /\ UNCHANGED <<requests, faults, delivered>>

SendFailed(t) ==
  /\ pc[t] = "send" /\ todo[t] = {} /\ sentTo[t] = {}
  /\ Respond("failed", req[t], {})
  /\ Free(t)
  /\ UNCHANGED <<file, requests, faults, delivered>>

\* the write of the merge is cut short: write_text truncates the file first, and
\* what does not parse reads as no items
WriteFails(t) ==
  /\ pc[t] = "send" /\ todo[t] = {} /\ sentTo[t] # {} /\ faults < MaxFaults
  /\ file' = [k \in Keys |-> NoItem]
  /\ Free(t)
  /\ faults' = faults + 1
  /\ UNCHANGED <<requests, delivered, answers>>

\* the server is killed, and started again
Crash ==
  /\ \E t \in Threads : pc[t] # "idle"
  /\ faults < MaxFaults
  /\ pc' = [t \in Threads |-> "idle"] /\ req' = [t \in Threads |-> NoPayload]
  /\ already' = [t \in Threads |-> {}] /\ todo' = [t \in Threads |-> {}]
  /\ sentTo' = [t \in Threads |-> {}]
  /\ faults' = faults + 1
  /\ UNCHANGED <<file, requests, delivered, answers>>

Next ==
  \/ \E t \in Threads, p \in Payloads : Refuse(t, p) \/ Receive(t, p)
  \/ \E t \in Threads : Send(t) \/ MergeDelivery(t) \/ SendFailed(t) \/ WriteFails(t)
  \/ Crash

Spec == Init /\ [][Next]_vars

-----------------------------------------------------------------------------
(* Properties                                                               *)

TypeOK ==
  /\ file \in [Keys -> Items]
  /\ pc \in [Threads -> {"idle", "send"}]
  /\ req \in [Threads -> Payloads \union {NoPayload}]
  /\ \A t \in Threads : req[t] = NoPayload <=> pc[t] = "idle"
  /\ already \in [Threads -> SUBSET Allowed] /\ todo \in [Threads -> SUBSET Allowed]
  /\ sentTo \in [Threads -> SUBSET Allowed]
  /\ requests \in 0 .. MaxRequests /\ faults \in 0 .. MaxFaults
  /\ delivered \in [Keys -> [Chats -> Nat]]
  /\ answers \subseteq [status : {"conflict", "forbidden", "duplicate", "delivered", "failed"},
                         payload : Payloads, chats : SUBSET Allowed]

\* A chat the relay names as served, in an answer of ok, did receive the item:
\* neither a retry that finds the item in the file nor a merge with what other
\* threads recorded claims a delivery that never happened.
AnswersTruthful ==
  /\ TypeOK
  /\ \A a \in answers : \A c \in a.chats : delivered[a.payload.key][c] > 0

\* Until something fails, a delivery is either still in the hands of its thread
\* or in the file: of two threads that merge the same item, the later one does
\* not wipe out the earlier one.
DeliveriesRemembered ==
  faults = 0 =>
    \A k \in Keys, c \in Chats :
      delivered[k][c] > 0 =>
        c \in file[k].sent \/ \E t \in Threads : pc[t] = "send" /\ req[t].key = k /\ c \in sentTo[t]

\* A chat receives an item at most once per thread that can be in flight at the
\* same time, and as often again for each fault: a retry after an answer sends
\* nothing twice.
DeliveriesBounded ==
  \A k \in Keys, c \in Chats : delivered[k][c] <= Cardinality(Threads) * (1 + faults)

=============================================================================
