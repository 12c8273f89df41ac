------------------------- MODULE MCScheduledDelivery -------------------------
(* Instances of ScheduledDelivery for TLC: the chats are interchangeable. *)
EXTENDS ScheduledDelivery, TLC

MCChatSymmetry == Permutations(Chats)

\* off; the second day, late, for a user whose clock is one tick ahead
MCChoices ==
  {[on |-> FALSE, days |-> {}, from |-> 0, zone |-> 0],
   [on |-> TRUE, days |-> {2}, from |-> 1, zone |-> 1]}
=============================================================================
