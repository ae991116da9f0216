SPECIFICATION RunSpec
CONSTANT EvidenceCap = 2
INVARIANT EvaluatorAcceptsRuns
CHECK_DEADLOCK FALSE
