\* Events with data nested two deep, one after the other.
SPECIFICATION Spec
CONSTANTS
  Data <- EventData
INVARIANTS
  PlainDataKept
  FlatDataRedacted
