SPECIFICATION Spec
CONSTANTS
  p1 = p1
  p2 = p2
  s1 = s1
  s2 = s2
  c1 = c1
  c2 = c2
  ta = ta
  tb = tb
  onlyA = onlyA
  all = all
  None = None
  Publishers <- MCPublishers
  Subscribers <- MCSubscribers
  Channels <- MCChannels
  Topics <- MCTopics
  Patterns <- MCPatterns
  Matches <- MCMatches
  MaxEvents = 2
  MaxMessages = 2
INVARIANTS
  TypeOK
  FifoPerSubscription
  OnlyWhatItSubscribedTo
  NothingMissed
  PublisherOrder
PROPERTIES
  EventuallyDelivered
CHECK_DEADLOCK FALSE
