SPECIFICATION MCSpec
CONSTANTS
  alice = alice
  bob = bob
  Conns <- MCLogins
  Logins <- MCLogins
  Patterns <- MCPatterns
  MaxSession = 3
  MaxLinks = 1
  MaxQueue = 1
INVARIANTS
  SubscriptionTypeOK
  SubscribersOutrank
  LinksAreAnswered
PROPERTY
  UnsubscriptionIsComplete
