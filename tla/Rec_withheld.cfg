SPECIFICATION Spec
CONSTANTS
  Crds <- TestCrds
  Indices <- IndexSegments
  EntryKeys = {"env", "key"}
  Docs <- WithheldDoc
  EnvValues = {0, 1}
  Readings = {1, 2}
  MaxEdits = 1
PROPERTY OmitsOnlyTheField
