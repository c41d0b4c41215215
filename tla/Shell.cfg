CONSTANTS
  N = 3
  Words = {"cat", "missing"}
  Size = 1
  MaxBytes = 2
SPECIFICATION Spec
INVARIANTS ToldTruly PromptLast
PROPERTY PipelineEnds
CHECK_DEADLOCK FALSE
