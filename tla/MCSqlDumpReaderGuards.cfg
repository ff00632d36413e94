SPECIFICATION Spec
CONSTANTS
  Excluded = {"+"}
  MaxChunk = 2
  MaxTag = 1
  MaxDepth = 2
  MaxLine = 4
INVARIANTS
  GuardsDoNothing
