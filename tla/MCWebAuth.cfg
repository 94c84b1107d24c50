CONSTANTS
  None = None
  server = server
  alice = alice
  bob = bob
  preauth = preauth
  home = home
  other = other
  Server = server
  Clients = {alice, bob}
  NotAnAddress = preauth
  HintOf <- MCHintOf
  Domains = {home, other}
  Timeouts = {0, 1}
  Requests <- MCRequests
  LastTime = 3
SPECIFICATION Spec
PROPERTY VerifiesWhoSigned
