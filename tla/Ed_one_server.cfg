SPECIFICATION Spec
CONSTANTS
  Items = {a, b}
  Vias = {"replace", "param"}
  ScriptProcess = "serve"
  WaitingWrites <- AllButScriptPuts
  HistoryCap = 2
  InitialDocs <- OneDoc
  MaxEdits = 3
  MaxLoads = 1
  None = None
  Refused = Refused
INVARIANT TypeOK OwnEditsKept PreviewIsCurrent
PROPERTY ConditionalReplaceKeeps EditsChangeOneItem HistoryKept OperationsSettle
CHECK_DEADLOCK FALSE
