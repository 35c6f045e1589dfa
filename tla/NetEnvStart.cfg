SPECIFICATION Spec
CONSTANTS
  Env = {e1}
  Proc = {p1}
  NsId = {n1}
  NAddr = 2
  Ops = {"create", "start"}
  Configs = {"tap"}
  Failures = FALSE
  NoEnv = NoEnv
  NoNs = NoNs
SYMMETRY Symmetry
INVARIANT StartActivates
