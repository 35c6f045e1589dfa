SPECIFICATION Spec
CONSTANTS
  Env = {e1, e2}
  Proc = {p1}
  NsId = {n1, n2, n3}
  NAddr = 2
  Ops = {"create", "start", "delete", "run"}
  Configs = {"tap", "tun"}
  Failures = FALSE
  NoEnv = NoEnv
  NoNs = NoNs
SYMMETRY Symmetry
INVARIANTS WorldAddressesUnique SuccessReachesInternet
