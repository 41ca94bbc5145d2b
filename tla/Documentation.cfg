CONSTANTS
  MaxBraceAlternatives = 3
  MaxCSSTokens = 5
  MaxCSSDepth = 2
  MaxSrcsetCandidates = 3
  MaxEvents = 4
  MaxTrackedEntries = 2
  MaxTrackedSymlinks = 2
  MaxSymlinkTargetBytes = 4
  MaxHTMLNodes = 3
  MaxHTMLDepth = 1
  MaxESTreeNodes = 4
  MaxESTreeDepth = 2
  MaxESTreeProperties = 3
  MaxEventsPerByte = 1
  MaxFindings = 2
  MaxBoxes = 3
  MaxGroups = 3
  MaxDepth = 2
  MaxEdges = 2
  MaxSteps = 1
  MaxBeats = 2
  MaxHops = 1
  MaxRows = 1
  MaxFigures = 2
  MaxPageFigures = 2
  MaxEntries = 3
  MaxPages = 2
  MaxRedirects = 2
  MaxArchiveBytes = 5
  MaxPlayerFiles = 4
  BlockBytes = 2
  Files = {1, 2, 3}
  Eligible = {1, 2}
  PathBytes <- MCPathBytes
  MAX_FINDINGS = 1
  MAX_FILES = 3
  MAX_COMMAND_BYTES = 4
  GATE_DEADLINE = 3
  INSTALL_TIMEOUT = 2
  DEFAULT_COMMAND_TIMEOUT = 1
  LintTimeouts = {1, 3}
  MaxFilesSettings = {2}
  MAX_DIAGNOSTIC_OUTPUT_LINES = 2
  MaxPerFile = 2
SPECIFICATION MCSpec
INVARIANTS
  BlameIsRight ExitIsEarned DeadlineHolds VerdictIsComplete
PROPERTIES
  GateEnds
  StyleSelected InputsGuarded ScratchLinksFound FiguresDescribed PagesBuilt DocsSelected PlayerInstalled
CHECK_DEADLOCK FALSE
