SPECIFICATION Spec
CONSTANTS
  Results <- MCResults
  UpperBounds <- MCUpperBounds
  Width = 3
  Unknown = "unknown"
  Sanitized <- MCSanitized
INVARIANTS
  HistogramsCumulative
  ProcessesConserved
  FilesOwnNode
  BinlogOfRowsRead
  SourceOfReplica
