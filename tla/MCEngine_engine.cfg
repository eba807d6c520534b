SPECIFICATION FairSpec
CONSTANTS
  Tasks = {t1, t2, c1}
  Users = {t1, t2}
  Responses = {r1}
  Files = {root, f1, f2}
  Root = root
  None = None
  Lengths = {0, 2}
  BodyLimit = 10
  DirectoryLimit = 2
  MaxAsks = 2
INVARIANTS TypeOK FilesExact CreditsExact InOrder ClosedEmpty
PROPERTIES ClosesEnd
CHECK_DEADLOCK FALSE
