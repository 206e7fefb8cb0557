SPECIFICATION EventsSpec
CONSTANTS
  ctl = ctl
  c1 = c1
  c2 = c2
  me = me
  x = x
  Empty = Empty
  System = System
  Star = Star
  Hash = Hash
  None = None
  Modules <- MCModules
  Subscribers <- MCSubscribers
  Publishers <- MCPublishers
  Channels <- MCChannels
  Topics <- MCTopics
  Patterns <- MCPatterns
  Matches <- MCMatches
  Permitted <- MCPermitted
  MaxEvents = 2
  MaxMessages = 2
  MaxStarts = 2
INVARIANTS
  OnlyItsSubscriptions
  ForwarderMissesNothing
  ListIsRegistered
PROPERTY EventForwarded
CHECK_DEADLOCK FALSE
