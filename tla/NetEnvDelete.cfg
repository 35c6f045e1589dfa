SPECIFICATION Spec
CONSTANTS
  Env = {e1}
  Proc = {p1}
  NsId = {n1}
  NAddr = 2
  Ops = {"create", "start", "delete"}
  Configs = {"tap"}
  Failures = TRUE
  NoEnv = NoEnv
  NoNs = NoNs
SYMMETRY Symmetry
INVARIANT DeleteDeletes
