--------------------------- MODULE CommandMailbox ---------------------------
(***************************************************************************)
(* What the Telegram cycle promises of commands, without polls, offsets    *)
(* and rows: an at-least-once mailbox.  A command that was posted is       *)
(* executed or dropped before it counts as done, and each fault may have   *)
(* it executed twice more; a command that has used up its executions is    *)
(* never pending again.                                                    *)
(***************************************************************************)
EXTENDS Naturals

CONSTANT Ids

VARIABLES
  state,      \* command -> "absent", "pending" or "done"
  executed,   \* command -> its executions
  dropped,    \* the commands an operator dropped
  faults

vars == <<state, executed, dropped, faults>>

Init ==
  /\ state = [c \in Ids |-> "absent"]
  /\ executed = [c \in Ids |-> 0]
  /\ dropped = {} /\ faults = 0

Become(c, from, to) == state[c] = from /\ state' = [state EXCEPT ![c] = to]
\* what the faults so far leave a command to be executed
MayRun(c) == executed[c] <= 2 * faults

Post(c) == Become(c, "absent", "pending") /\ UNCHANGED <<executed, dropped, faults>>

\* also a command that was dropped while it waited for its turn
Execute(c) ==
  /\ state[c] # "absent" /\ MayRun(c)
  /\ executed' = [executed EXCEPT ![c] = @ + 1]
  /\ UNCHANGED <<state, dropped, faults>>

Settle(c) ==
  /\ executed[c] > 0
  /\ Become(c, "pending", "done") /\ UNCHANGED <<executed, dropped, faults>>

Drop(c) ==
  /\ Become(c, "pending", "done")
  /\ dropped' = dropped \union {c} /\ UNCHANGED <<executed, faults>>

\* the command is delivered again
Reopen(c) ==
  /\ MayRun(c)
  /\ Become(c, "done", "pending") /\ UNCHANGED <<executed, dropped, faults>>

Fault == faults' = faults + 1 /\ UNCHANGED <<state, executed, dropped>>

Next ==
  \/ Fault
  \/ \E c \in Ids : Post(c) \/ Execute(c) \/ Settle(c) \/ Drop(c) \/ Reopen(c)

Spec == Init /\ [][Next]_vars
=============================================================================
