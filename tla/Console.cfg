CONSTANTS
  MaxPrompts = 2
  Faults <- AllFaults

SPECIFICATION Spec
INVARIANTS TypeOK TimelineIsTrue CountersAgree AnswersInPlace

\* A console stands still when its last allowed prompt is done.
CHECK_DEADLOCK FALSE
