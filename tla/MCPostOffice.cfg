SPECIFICATION FairSpec
CONSTANTS
  h1 = h1
  h2 = h2
  s1 = s1
  s2 = s2
  Host = {h1, h2}
  Sender = {s1, s2}
  Home <- MCHome
  Box = {1, 2}
  Address <- MCAddress
  NoLetter = NoLetter
  MaxSends = 2
INVARIANT NetworkSound
PROPERTIES
  SendsReturn
  MailDelivered
CHECK_DEADLOCK FALSE
