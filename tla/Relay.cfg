\* Two threads, three requests for one item that may differ in message and chats,
\* two allowed chats and one that is not, one fault.
CONSTANTS
  NoPayload = none
  Threads = {t1, t2}
  Keys = {item}
  Messages = {m1, m2}
  Chats = {c1, c2, c3}
  Allowed = {c1, c2}
  MaxRequests = 3
  MaxFaults = 1
SPECIFICATION Spec
INVARIANTS AnswersTruthful DeliveriesRemembered DeliveriesBounded
CHECK_DEADLOCK FALSE
