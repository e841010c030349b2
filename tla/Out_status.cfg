SPECIFICATION Spec
CONSTANTS
  FreeNames = {"own", "environment-configs-fn"}
  Packages <- PackageRefs
  MaxSteps = 2
  LabelName <- NameOfLabels
  Generators = {"cli"}
  Docs <- ThreeDocs
  TemplateCMCap = 2
  Values <- OneUnquoted
  Reprinted <- ReprintedNumbers
  ByHand <- HandPaths
  MaxRuns = 1
  None = None
INVARIANT FilesRestoreTemplate
