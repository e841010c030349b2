SPECIFICATION Spec
CONSTANTS
  Crds <- TestCrds
  Indices <- IndexSegments
  EntryKeys = {"env", "key"}
  Docs <- AllDocs
  EnvValues = {0, 1}
  Readings = {1, 2}
  MaxEdits = 1
INVARIANT TypeOK RenderSucceeds EnginesAgree NamesAgree RequiredRendered
PROPERTY ComposesWhatIsAsked
