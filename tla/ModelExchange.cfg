SPECIFICATION ExchangeSpec
CONSTANTS
  MaxRetries = 2
  MaxReasks = 1
  Errors = {"rate_limited", "timeout", "network", "server", "authentication", "bad_request"}
  Tools <- MCTools
  Sanitised <- MCSanitised
  ServerReplies <- MCReplies
INVARIANTS
  FailuresHonest
  CallsBounded
  CallsClosed
  UsageAccounted
  ProposalAsMeant
PROPERTIES
  RequestSettles
CHECK_DEADLOCK FALSE
