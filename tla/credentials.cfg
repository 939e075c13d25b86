SPECIFICATION LiveSpec
CONSTANTS
  i1 = i1
  i2 = i2
  m1 = m1
  IdVersions = {i1, i2}
  MgrVersions = {m1}
  NoKey = NoKey
  Env <- NoEnv
INVARIANT OneSource
PROPERTIES
  OwnInstance
  CredentialsFollow
CHECK_DEADLOCK FALSE
