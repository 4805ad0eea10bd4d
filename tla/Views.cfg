\* Summaries, histories, lists, pages and the workbench.
SPECIFICATION Spec
CONSTANTS
  Writers = {w1, w2}
  Actors = {a1, a2}
  Types = {t1, t2}
  DefaultLimit = 1
  MaxLimit = 2
  DefaultWindow = 1
  MaxWindow = 2
  MaxInstant = 3
  MaxInt = 63
  DefaultSize = 2
  MaxSize = 3
  RowCounts = {25}
  MaxAtFirst = 4
  MaxRows = 5
  MaxMoment = 4
  Loads = {l1}
  Calls = {c1, c2}
  MaxVersion = 3
SYMMETRY Symmetry
CHECK_DEADLOCK FALSE
INVARIANTS
  SummaryIsBracketed
  HistoryRespectsRealTime
  NothingIsSkipped
  PagesAreFull
  PageShowsItsRows
  AcceptedAsConfirmed
  FreshOffersAreAccepted
PROPERTIES
  ClosedDialogIsDone
