\* Two threads, one link and one school: three requests race for the limits,
\* the link and the row; one exception or kill.
CONSTANTS
  Requests = {r1, r2}
  Links = {l1}
  Chats = {c1}
  Schools = {uos, other}
  UosSchools = {uos}
  AllowedSchools = {uos, other}
  Accounts = {a, b}
  Remotes = {q}
  NoRemote = noRemote
  Nobody = nobody
  MaxFailedPerSession = 1
  MaxFailedPerRemote = 2
  MaxTotalPerRemote = 2
  Window = 1
  Ttl = 1
  MaxTime = 1
  MaxRows = 3
  MaxFaults = 1
CHECK_DEADLOCK FALSE
SPECIFICATION Spec
INVARIANTS AttemptsLimited LinkReuseBounded UsedLinkConnected
