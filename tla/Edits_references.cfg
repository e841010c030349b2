SPECIFICATION Spec
CONSTANTS
  a = a  b = b  bad = bad
  None = None
  Names = {a, b, bad}
  InvalidNames = {bad}
  Decls <- SomeDecls
  Bodies <- SomeBodies
  DocsAtStart <- SomeDocs
  ProviderName = a
INVARIANT TypeOK RenamesAccepted ReferencersNamed
PROPERTY TextSurvives
