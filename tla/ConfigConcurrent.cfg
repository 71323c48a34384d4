SPECIFICATION Spec
CONSTANTS
  Reloaders = {r1}
  Probes = {p1, p2}
  Sections = {client, other}
  Client = client
  Kinds = {"absent", "invalid", "plain", "custom"}
  Targets = {"good"}
  MaxEdits = 1
  NULL = NULL
SYMMETRY Symmetry
INVARIANTS
  TypeOK
  TlsOfItsSection
