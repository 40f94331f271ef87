SPECIFICATION PythonSpec
CONSTANTS
  Inputs <- MCInputs
  Programs = {"none", "structural", "semantic"}
  Config <- MCConfig
  Retrieval <- MCRetrieval
  None = "none"
  ProtectedEntityTypes = {"DATE"}
  Absent = Absent
  Torn = Torn
  t1 = t1
  t2 = t2
  Threads = {t1, t2}
  Pipelines = {"p1"}
  Pools = {"b1"}
  Texts <- BindingTexts
  Tries = 3
  Headroom = 1
  MinCap = 2
  MaxCalls = 6
SYMMETRY Symmetry
INVARIANTS
  CallsGetLiveHandles FreedOnce EncodeAnswers
  ClustersAreCliques NothingLeftToFuse PlanIsFaithful
  SpellingsSurvive AlternativesAreBest
  CountsAreOfBothDumps ReportShowsDivergence
  SealedIsWhole ViewIsOfTheSelection
  FixturesAreSound
PROPERTY MatrixPairs
CHECK_DEADLOCK FALSE
