CONSTANTS
  p1 = p1
  p2 = p2
  Slugs = {1, 2}
  Procs = {p1, p2}
  Specs = {1, 2, 3}
  Invalid = {3}
  Engines = {1, 2, 3}
  Size <- MCSize
  Markup <- MCMarkup
  Cited = {1}
  Initial = {0, 1}
  Fenced = {1}
  Diagrams = {"figure"}
  Marked = {1}
  MaxEdits = 2
  MaxRuns = 2
  MaxCrashes = 1
  Scenes <- MCScenes
  MaxSiteRuns = 3
SPECIFICATION Spec
INVARIANTS CommandsDecide SourcesAgree ServedIsFresh BuiltIsCurrent LoaderServed
PROPERTIES FreshAtLast
CHECK_DEADLOCK FALSE
