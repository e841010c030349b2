---------------------------- MODULE MCOutputTree ----------------------------
(***************************************************************************)
(* Three documents that differ in what the output directory depends on: the *)
(* template source, the environment (open keys, a key with a default, a    *)
(* config chosen by labels), the provider families, RBAC, the composite's   *)
(* status and validity.                                                     *)
(***************************************************************************)
EXTENDS OutputTree

Key(type, default) == [type |-> type, default |-> default]
Config(name, labels, data) == [name |-> name, labels |-> labels, data |-> data]
Blueprint ==
    [valid |-> TRUE, name |-> "xqueues", text |-> "v1", engine |-> "go-templating",
     templateSource |-> "Inline", pipeline |-> <<>>, environment |-> <<>>, configs |-> <<>>,
     status |-> TRUE, sources |-> {}, resources |-> <<[name |-> "q", size |-> 2, native |-> "no"]>>]

OnFiles == [Blueprint EXCEPT !.templateSource = "FileSystem", !.resources[1].native = "Ingress",
                !.environment = [vpc |-> Key("string", ""), zone |-> Key("integer", "1")]]
Selected == [Blueprint EXCEPT !.sources = {<<"provider", "aws", "sqs">>, <<"provider", "family", "aws">>},
                !.environment = [vpc |-> Key("string", "")],
                !.configs = <<Config("", {"prod"}, [vpc |-> "3"]), Config("default", {}, <<>>)>>]
Broken == [Blueprint EXCEPT !.valid = FALSE]

ThreeDocs == {OnFiles, Selected, Broken}
NameOfLabels == [l \in {{"prod"}} |-> "app-prod"]
PackageRefs == {Tagged("p", "v1"), Tagged("p", "v2"), Pinned("p", "sha256")}
ReprintedNumbers == [text \in {"0.0", "1.0"} |-> IF text = "0.0" THEN "0" ELSE "1"]
OneUnquoted == {Unquoted("1.0")}
HandPaths == {<<"rbac", "", 0>>}
=============================================================================
