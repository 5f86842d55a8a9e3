SPECIFICATION ServerSpec
CONSTANTS
  l1 = l1
  r1 = r1
  m1 = m1
  m2 = m2
  NoStream = NoStream
  NoCell = NoCell
  NumConns = 1
  NumClients = 2
  Coros <- AllCoros
  Logins <- AllLogins
  Cells <- TwoCells
  Conduct = {"polite"}
INVARIANTS
  StreamOpenUntilDeath
