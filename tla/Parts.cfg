SPECIFICATION Spec
CONSTANTS
  Processes = {p1, p2}
  Records = {r1, r2}
  t1 = t1  t2 = t2  None = None
  Title <- TwoTitles  Workflow = "gh-issue"  Horizon = 2
  Bodies <- TwoLines  Texts <- OneLine  Older <- OldDocs  MaxEdits = 1
  AgentNames <- OneAgent  ItemIDs <- TwoItems  Assigned <- Registry
  ItemTags <- TagsOfTwo  Repo <- RepoOfTwo  MaxTime = 3  MaxCrashes = 1
  IDs <- OneID  Holders <- TwoHolders  Partitions <- OneMonth
  Moves <- MovesOfOne  Taken <- TakenByOlder
  MaxCommands = 2  MaxMoves = 1  MaxAttempts = 2  MaxRescans = 2
INVARIANTS
  TypeOK  StaysEditable DependentsHidden HiddenReturn ResultsKept
  NoFalseInheritance  TotalIsTrue  NoSilentAlias AnsweredRight
   BlockedIsOld
PROPERTIES
  TitleMovesWhenNamed  NothingOwedIsPutAway LinksWalkable
  StoredOnce
SYMMETRY Symmetry
CHECK_DEADLOCK FALSE
