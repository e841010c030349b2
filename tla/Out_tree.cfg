SPECIFICATION Spec
CONSTANTS
  FreeNames = {"own", "environment-configs-fn"}
  Packages <- PackageRefs
  MaxSteps = 2
  LabelName <- NameOfLabels
  Generators = {"serve", "cli"}
  Docs <- ThreeDocs
  TemplateCMCap = 2
  Values <- OneUnquoted
  Reprinted <- ReprintedNumbers
  ByHand <- HandPaths
  MaxRuns = 2
  None = None
INVARIANT TypeOK WrittenIsInSync ValuesSurvive MapsCarryTemplates StepsKept FunctionsInstalled EnvironmentReadable
