CONSTANTS
  Parts = {"lcp", "ipcp", "link", "frame", "vj", "pppoe"}
  MAXPADI = 3
  MAXPADR = 2
  MaxOpens = 2
  MaxPosted = 2
  Asks <- LinkAsks
  AuthRequired = TRUE
  Transmits = 2
  MaxSessions = 2
  MaxTimers = 1
  MaxOpen = 2
SPECIFICATION Spec
INVARIANTS
  
  NetAuthenticated
  LinksTrue
  
CHECK_DEADLOCK FALSE
