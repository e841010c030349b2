SPECIFICATION Spec
CONSTANTS
  Items = {a, b}
  Vias = {"replace", "param"}
  ScriptProcess = "serve"
  WaitingWrites <- ScriptPuts
  HistoryCap = 2
  InitialDocs <- OneDoc
  MaxEdits = 2
  MaxLoads = 1
  None = None
  Refused = Refused
PROPERTY ConditionalReplaceKeeps
CHECK_DEADLOCK FALSE
