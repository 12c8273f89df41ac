------------------------------ MODULE MCCommands ------------------------------
(* Bounded instance of Commands: which user owns what, and what is sent.     *)
EXTENDS Commands

CONSTANTS u1, u2, d1, d2, t1

MCOwnerOf == [i \in {d1, d2, t1} |-> IF i = d2 THEN u2 ELSE u1]
MCKindOf  == [d \in {d1, d2} |-> IF d = d1 THEN "task" ELSE "event"]
MCPlans   == {<<"query_today", "create_one_time_reminder">>,
              <<"set_notification_policy", "set_weather_region">>,
              <<"query_today", Unknown>>}
MCSent == {[user |-> u1, command |-> c, item |-> 0] : c \in {"apply_all", "plan", "assistant"}}
  \union {[user |-> u2, command |-> c, item |-> d1] : c \in {"apply", "done"}}
  \union {[user |-> u1, command |-> "done", item |-> t1]}
=============================================================================
