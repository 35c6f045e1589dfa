SPECIFICATION Spec
CONSTANTS
  Env = {e1}
  Proc = {p1}
  NsId = {n1, n2}
  NAddr = 1
  Ops = {"create", "start", "delete", "run"}
  Configs = {"missing", "real", "tap"}
  Failures = TRUE
  NoEnv = NoEnv
  NoNs = NoNs
SYMMETRY Symmetry
INVARIANTS TypeOK SetUpComplete LocalTrafficUsesTunnels
PROPERTIES FreshSetUpFailsOnLeftoversOnly Provides
