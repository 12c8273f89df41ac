\* Two chats, two days of two ticks, one fault, two choices: which messages are
\* sent to whom.  The model stops at the end of the last day.
CONSTANTS
  Chats = {c1, c2}
  NoChat = none
  Notices = {n}
  TicksPerDay = 2
  MorningTick = 0
  EveningTick = 1
  DigestTick = 1
  Days = 2
  Choices <- MCChoices
  MaxChoices = 2
  MaxTimes = 2
  MaxFaults = 1
  MaxEvents = 2
SPECIFICATION Spec
SYMMETRY MCChatSymmetry
INVARIANTS OncePerDay ChatsServed NoticeCountedOnce NoticePassedOver
PROPERTY AsAskedLast
CHECK_DEADLOCK FALSE
