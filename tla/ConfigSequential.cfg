SPECIFICATION Spec
CONSTANTS
  Reloaders = {r1}
  Probes = {p1}
  Sections = {client, other}
  Client = client
  Kinds = {"absent", "invalid", "custom"}
  Targets = {"none", "unix", "good", "bad"}
  MaxEdits = 2
  NULL = NULL
SYMMETRY Symmetry
INVARIANTS
  ConfigUsable
  GoodSectionsInForce
  ReplyTruthful
  TargetJudged
  TlsOfItsConfig
