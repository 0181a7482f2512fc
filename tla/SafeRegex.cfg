\* Three :regex comparisons in a row, each able to time out at any point,
\* with patterns and inputs at their length limits and one over them.
\* The run ends when the last call has returned and every goroutine exited.
CONSTANTS
  MaxCalls = 3
  Inputs <- MCInputs
SPECIFICATION Spec
INVARIANT TypeOK
INVARIANT AnswerFromOwnWorker
INVARIANT LengthBudget
PROPERTY AllWorkersExit
CHECK_DEADLOCK FALSE
