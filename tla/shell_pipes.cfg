SPECIFICATION LiveSpec
CONSTANTS
  Pipelines <- MCPipelines
  Capacity = 2
  MaxPrograms = 3
  MaxUnits = 3
INVARIANTS EndOfFileIsEnd Delivered
PROPERTY PipelineEnds
CHECK_DEADLOCK FALSE
