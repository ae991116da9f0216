CONSTANTS
  Promoters = {p1, p2}
  p1 = p1
  p2 = p2
  Vetting = {"default", "context_precision", "enumeration_context",
             "enumeration_answer",
             "grounded", "fact_evidence", "priority2",
             "priority3", "answerability", "focus", "scope13", "scope14",
             "closure"}
  Raced = {"default"}
  Codes = 2
  MaxSentinels = 2
  MaxCandidates = 2
  MaxPromotions = 2
  MaxFaults = 1
SPECIFICATION Spec
INVARIANTS CandidateIsVetted PredecessorIsKept
PROPERTY ReadyIsPinned
SYMMETRY Symmetry
CHECK_DEADLOCK FALSE
