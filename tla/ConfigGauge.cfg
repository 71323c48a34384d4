SPECIFICATION Spec
CONSTANTS
  Reloaders = {r1}
  Probes = {}
  Sections = {client, other}
  Client = client
  Kinds = {"absent", "plain"}
  Targets = {"good"}
  MaxEdits = 2
  NULL = NULL
SYMMETRY Symmetry
INVARIANTS
  GaugeTruthful
