SPECIFICATION FairSpec
CONSTANTS
  Servers = {s1, s2}
  Conns = {c1, c2, c3}
  MaxConnections = 2
  BodyLimit = 3
  DrainSteps = 1
  GraceSteps = 1
  None = None
INVARIANTS TypeOK ConnectionsExact ScopesExact HalfClose
PROPERTIES Graceful ScopesEnd TunnelsEnd
