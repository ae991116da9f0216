CONSTANTS
  Files = {1, 2}
  Versions = {1, 2}
  Generations = {g1, g2}
  MaxEdits = 1
  MaxKills = 1
  TopK = 2
  Pool = 2
  Items = {1, 2, 3}
  Supporting = {3}
  Other = Other
  Prose = Prose
  FillTarget = 2
  Searches = {1, 2, 3}
  Readers = {p1}
  TTL = 2
  MaxSnapshots = 2
  MaxHour = 3
SPECIFICATION QuestionsSpec
INVARIANTS CorpusIsSound ResultsAreSound PackingIsSound AnswersAreSound NewestSurvive
\* An answer is handed out once, and a result found once: the system stops with it.
CHECK_DEADLOCK FALSE
SYMMETRY SameGenerations
