SPECIFICATION LibrarySpec
CONSTANTS
  Slots = {c1, c2}
  Server = none
  MaxObjects = 4
  Signals = {long, short}
  ShortNames = {short}
  Disciplined = TRUE
INVARIANTS
  TypeOK
  OwnershipAgrees
  NeverUndefined
  SubscribersAsked
  EventsAsked
