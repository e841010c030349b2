----------------------------- MODULE OutputTree -----------------------------
(***************************************************************************)
(* The output directory: what one generation renders from a blueprint, how *)
(* `cf gen` and POST /api/generate {"write": true} write it file by file   *)
(* and prune what no longer belongs, and what `cf gen --check` compares    *)
(* (internal/emit/emit.go, clean.go, fsexport.go, environment_config.go;   *)
(* cmd/cf/gen.go; internal/api/generate.go).                               *)
(*                                                                         *)
(* A managed file is <<directory, name, number>>; the text of a document   *)
(* (Composition, XRD, templates) is one value, its field text.  An         *)
(* environment config is different from every other file: the operator     *)
(* fills values in, and a generation reads them back from the file it is   *)
(* about to overwrite.  os.WriteFile truncates first, so a run that stops  *)
(* in between leaves a file with nothing in it.                            *)
(***************************************************************************)
EXTENDS Pipeline

CONSTANTS
    Generators,     \* subset of {"serve", "cli"}: the server and a `cf gen`
    Docs,           \* documents clients put
    TemplateCMCap,  \* bytes one ConfigMap may carry
    Values,         \* scalars the operator types
    Reprinted,      \* numbers cf prints otherwise than they are written -> how
    MaxRuns,        \* generations explored, of all generators together
    ByHand,         \* paths of managed files people create, edit or delete
    None

(* An environment config of a document has a name, labels and data; a      *)
(* resource of the list takes some number of bytes in the templates.       *)
ASSUME DocsAssumption ==
    \A b \in Docs :
        /\ {"pipeline", "configs"} \subseteq DOMAIN b
        /\ \A i \in DOMAIN b.configs : LET cfg == b.configs[i] IN
              cfg = [name |-> cfg.name, labels |-> cfg.labels, data |-> cfg.data]
        /\ b.resources \in Seq(Range(b.resources))
        /\ \A i \in DOMAIN b.resources : b.resources[i].size \in Nat
(* A number is printed in the one way that is kept when it is printed      *)
(* again: 1.0 as 1, 1e3 as 1000.                                           *)
ASSUME ReprintedAssumption ==
    /\ Reprinted["0.0"] = "0"
    /\ \A text \in DOMAIN Reprinted : Reprinted[text] \notin DOMAIN Reprinted
    /\ {"", "0", "false"} \cap DOMAIN Reprinted = {}
(* The operator fills in a value, not an empty one                         *)
ASSUME ValuesAssumption ==
    /\ \A v \in Values : v = [quoted |-> v.quoted, text |-> v.text] /\ v.quoted \in BOOLEAN /\ v.text # ""
    /\ \A text \in DOMAIN Reprinted : Reprinted[text] # ""
ASSUME CapAssumption == TemplateCMCap \in Nat
ASSUME RunsAssumption == MaxRuns \in Nat

VARIABLES
    doc,        \* the blueprint on disk
    tree,       \* the managed files: path -> content
    gen,        \* each generator's run
    runs,       \* how many generations have begun
    typed,      \* ghost: the operator's value for <<config, key>>, or None
    disturbed   \* ghost: somebody else changed the tree since the run began

vars == <<doc, tree, gen, runs, typed, disturbed>>

-----------------------------------------------------------------------------
(* Rendering *)

Directories == <<"compositions", "environmentconfigs", "functions", "providerconfigs",
                 "rbac", "runtime", "templates", "xrds">>
Managed(path) == \E i \in DOMAIN Directories : Directories[i] = path[1]
ASSUME ByHandAssumption == \A path \in ByHand : Managed(path)
Rank(path) == CHOOSE i \in DOMAIN Directories : Directories[i] = path[1]

Empty == [of |-> "nothing"]
Foreign == [of |-> "foreign"]
Content(of, what) == [of |-> of, what |-> what]

Put(files, path, content) ==
    [p \in DOMAIN files \cup {path} |-> IF p = path THEN content ELSE files[p]]
Without(files, paths) == [p \in DOMAIN files \ paths |-> files[p]]

(* A scalar of an environment config, as it stands in the file.            *)
Quoted(text) == [quoted |-> TRUE, text |-> text]
Unquoted(text) == [quoted |-> FALSE, text |-> text]

(* Strings are written in quotes, everything else as it is; an empty value *)
(* as the zero of its type.                                                *)
IsText(type) == type \notin {"integer", "number", "boolean"}
Zero(type) == CASE type = "integer" -> "0" [] type = "number" -> "0.0" [] OTHER -> "false"
FormatEnvVal(type, v) ==
    IF IsText(type) THEN Quoted(v) ELSE Unquoted(IF v = "" THEN Zero(type) ELSE v)

(* What scalarToString makes of it: an unquoted number is decoded, whatever *)
(* the type of its key, and printed again.                                 *)
ReadBack(scalar) ==
    IF ~scalar.quoted /\ scalar.text \in DOMAIN Reprinted THEN Reprinted[scalar.text]
    ELSE scalar.text

EnvPath(name) == <<"environmentconfigs", name, 0>>
ReadExistingData(files, path) ==
    IF path \in DOMAIN files /\ files[path].of = "environment"
    THEN [k \in DOMAIN files[path].what |-> ReadBack(files[path].what[k])] ELSE <<>>

(* Mutant: the values the file holds are not read back. *)
Mut_EnvironmentConfig(b, cfg, existing) ==
    LET value(k) == IF k \in DOMAIN cfg.data THEN cfg.data[k] ELSE b.environment[k].default
    IN  [k \in DOMAIN b.environment |-> FormatEnvVal(b.environment[k].type, value(k))]

(* The value of a key: the config's own, the key's default, the one the    *)
(* file already holds, the zero of its type.                               *)
EnvironmentConfig(b, cfg, existing) ==
    LET value(k) == IF k \in DOMAIN cfg.data THEN cfg.data[k]
                    ELSE IF b.environment[k].default # "" THEN b.environment[k].default
                    ELSE IF k \in DOMAIN existing THEN existing[k] ELSE ""
    IN  [k \in DOMAIN b.environment |-> FormatEnvVal(b.environment[k].type, value(k))]

(* The FileSystem source: the preamble, then the resources.  Their names   *)
(* start with %03d of their numbers, whose order is that of the numbers as *)
(* long as there are no more than 999 resources.                           *)
TemplateFiles(b) == [i \in 1..Len(b.resources) + 1 |->
                        [name |-> IF i = 1 THEN "context" ELSE b.resources[i - 1].name,
                         size |-> IF i = 1 THEN 1 ELSE b.resources[i - 1].size]]
(* The body inlined in the Composition: the same, and in the end what      *)
(* fills in the composite's own status (writeCompositeStatusTemplate).     *)
TemplateBody(b) ==
    TemplateFiles(b) \o (IF b.status THEN <<[name |-> "status", size |-> 1]>> ELSE <<>>)
GroupSize(group) == FoldLeft(LAMBDA n, f : n + f.size, 0, group)
(* Mutant: the file that does not fit any more opens a group without it. *)
Mut_PackTemplateCMs(files) ==
    FoldLeft(LAMBDA groups, f :
                IF groups = <<>> THEN <<<<f>>>>
                ELSE IF GroupSize(Last(groups)) + f.size > TemplateCMCap
                THEN Append(groups, <<>>)
                ELSE Append(Front(groups), Append(Last(groups), f)),
             <<>>, files)
PackTemplateCMs(files) ==
    FoldLeft(LAMBDA groups, f :
                IF groups = <<>> \/ GroupSize(Last(groups)) + f.size > TemplateCMCap
                THEN Append(groups, <<f>>)
                ELSE Append(Front(groups), Append(Last(groups), f)),
             <<>>, files)
Packable(files) == \A i \in DOMAIN files : files[i].size <= TemplateCMCap

(* A source is its repository name, split at the hyphens: provider-aws-sqs *)
(* and provider-family-aws are of the family aws, as is provider-aws; any  *)
(* other repository is its own family.  A manifest source has none.        *)
ProviderFamily(source) ==
    IF source[1] # "provider" THEN source
    ELSE IF Len(source) > 2 /\ source[2] = "family" THEN SubSeq(source, 3, Len(source))
    ELSE <<source[2]>>
ProviderConfigs(b) == {ProviderFamily(s) : s \in b.sources}

(* Crossplane may compose some native kinds without more permissions *)
PreGranted == {"Deployment", "Service", "ConfigMap", "Secret", "ServiceAccount",
               "CustomResourceDefinition"}
NonPreGrantedNativeRules(b) ==
    {b.resources[i].native : i \in DOMAIN b.resources} \ (PreGranted \cup {"no"})

OnFileSystem(b) == b.templateSource = "FileSystem" /\ b.engine = "go-templating"

Generates(b) ==
    /\ b.valid /\ ValidEnvironment(b) /\ ValidPipeline(b)
    /\ OnFileSystem(b) => Packable(TemplateFiles(b))

OutputPaths(b) ==
    {<<"compositions", b.name, 0>>, <<"functions", "", 0>>, <<"xrds", b.name, 0>>}
    \cup {<<"providerconfigs", f, 0>> : f \in ProviderConfigs(b)}
    \cup {EnvPath(cfg.name) : cfg \in Range(EffectiveEnvironmentConfigs(b))}
    \cup {<<"rbac", "", 0>> : rule \in NonPreGrantedNativeRules(b)}
    \cup (IF OnFileSystem(b)
          THEN {<<"runtime", b.name, 0>>} \cup {<<"templates", b.name, i>> : i \in DOMAIN TemplateFiles(b)}
          ELSE {})

(* What the document alone determines *)
PlainContent(b, p) ==
    CASE p[1] = "compositions" ->
            Content("composition", <<b.text, CompositionSteps(b),
                                     IF OnFileSystem(b) THEN <<>> ELSE TemplateBody(b)>>)
      [] p[1] = "functions" -> Content("functions", FunctionList(b))
      [] p[1] = "runtime"   -> Content("runtime", PackTemplateCMs(TemplateFiles(b)))
      [] p[1] = "templates" -> Content("template", TemplateFiles(b)[p[3]])
      [] p[1] = "rbac" -> Content("rbac", NonPreGrantedNativeRules(b))
      [] p[1] = "xrds" -> Content("xrd", b.text)
      [] OTHER -> Content("providerconfig", b.text)

(* The environment config a file is of *)
ConfigAt(b, p) == CHOOSE cfg \in Range(EffectiveEnvironmentConfigs(b)) : cfg.name = p[2]

Outputs(b, files) ==
    [p \in OutputPaths(b) |->
        IF p[1] = "environmentconfigs"
        THEN Content("environment", EnvironmentConfig(b, ConfigAt(b, p), ReadExistingData(files, p)))
        ELSE PlainContent(b, p)]

(* `cf gen --check`: exit 0 when nothing drifted *)
InSync(b, files) == Outputs(b, files) = files

-----------------------------------------------------------------------------
(* Writing *)

Idle == [pc |-> "idle", doc |-> None, outs |-> <<>>, left |-> {}, orphans |-> {}]
Running(g) == gen[g].pc \in {"loaded", "write", "empty", "prune"}
Becomes(g, run) == gen' = [gen EXCEPT ![g] = run]
Forget(paths) == [e \in {e \in DOMAIN typed : EnvPath(e[1]) \notin paths} |-> typed[e]]
AllAtRest == \A g \in Generators : ~Running(g)

(* An empty directory, or the tree of an earlier generation *)
Init ==
    /\ doc \in Docs
    /\ tree \in {<<>>} \cup {Outputs(b, <<>>) : b \in {b \in Docs : Generates(b)}}
    /\ gen = [g \in Generators |-> Idle]
    /\ runs = 0
    /\ typed = <<>>
    /\ disturbed = [g \in Generators |-> FALSE]

(* The document first; what the environment config files hold when it is   *)
(* rendered.  A file another run has just emptied holds no values.         *)
Load(g) ==
    /\ ~Running(g)
    /\ runs < MaxRuns /\ runs' = runs + 1
    /\ Becomes(g, [Idle EXCEPT !.pc = "loaded", !.doc = doc])
    /\ disturbed' = [disturbed EXCEPT ![g] = FALSE]
    /\ UNCHANGED <<doc, tree, typed>>

(* Mutant: the files already there are put on the list of those to write. *)
Mut_Render(g) ==
    /\ gen[g].pc = "loaded"
    /\ LET outs == Outputs(gen[g].doc, tree)
       IN  Becomes(g, [gen[g] EXCEPT !.pc = "write", !.outs = outs, !.left = DOMAIN outs \cup DOMAIN tree])
    /\ UNCHANGED <<doc, tree, typed, disturbed, runs>>
Render(g) ==
    /\ gen[g].pc = "loaded"
    /\ LET b == gen[g].doc
           outs == Outputs(b, tree)
       IN  Becomes(g, IF Generates(b) THEN [gen[g] EXCEPT !.pc = "write", !.outs = outs,
                                                          !.left = DOMAIN outs]
                      ELSE [gen[g] EXCEPT !.pc = "failed"])
    /\ typed' = Forget({p \in DOMAIN tree : tree[p] = Empty})
    /\ UNCHANGED <<doc, tree, disturbed, runs>>

(* The outputs in the order of their directories; by name within one, for  *)
(* which any fixed order stands.                                           *)
NextPath(left) == CHOOSE p \in left : \A q \in left : Rank(p) <= Rank(q)

Disturbs(g) == disturbed' = [h \in Generators |-> disturbed[h] \/ h # g]

Truncate(g) ==
    /\ gen[g].pc = "write" /\ gen[g].left # {}
    /\ tree' = Put(tree, NextPath(gen[g].left), Empty)
    /\ Becomes(g, [gen[g] EXCEPT !.pc = "empty"])
    /\ Disturbs(g)
    /\ UNCHANGED <<doc, typed, runs>>

Fill(g) ==
    /\ gen[g].pc = "empty"
    /\ LET p == NextPath(gen[g].left) IN
         /\ tree' = Put(tree, p, gen[g].outs[p])
         /\ Becomes(g, [gen[g] EXCEPT !.pc = "write", !.left = @ \ {p}])
    /\ Disturbs(g)
    /\ UNCHANGED <<doc, typed, runs>>

(* Mutant: only the directories this run wrote into are looked through. *)
Mut_FindExisting(g) ==
    LET written == {p[1] : p \in DOMAIN gen[g].outs} IN
    /\ gen[g].pc = "write" /\ gen[g].left = {}
    /\ Becomes(g, [gen[g] EXCEPT !.pc = "prune",
                     !.orphans = {p \in DOMAIN tree \ DOMAIN gen[g].outs : p[1] \in written}])
    /\ UNCHANGED <<doc, tree, typed, disturbed, runs>>
FindExistingManagedFiles(g) ==
    /\ gen[g].pc = "write" /\ gen[g].left = {}
    /\ Becomes(g, [gen[g] EXCEPT !.pc = "prune", !.orphans = DOMAIN tree \ DOMAIN gen[g].outs])
    /\ UNCHANGED <<doc, tree, typed, disturbed, runs>>

(* A file another run has removed meanwhile is not an error *)
PruneOne(g) ==
    /\ gen[g].pc = "prune" /\ gen[g].orphans # {}
    /\ LET p == NextPath(gen[g].orphans) IN
         /\ tree' = Without(tree, {p})
         /\ Becomes(g, [gen[g] EXCEPT !.orphans = @ \ {p}])
    /\ Disturbs(g)
    /\ UNCHANGED <<doc, typed, runs>>

Finish(g) ==
    /\ gen[g].pc = "prune" /\ gen[g].orphans = {}
    /\ Becomes(g, [Idle EXCEPT !.pc = "written", !.doc = gen[g].doc])
    /\ UNCHANGED <<doc, tree, typed, disturbed, runs>>

(* MkdirAll, WriteFile or Remove fails, or the process is killed: what was *)
(* written stays.  The values of a file left empty are gone.               *)
Stop(g) ==
    /\ gen[g].pc \in {"write", "empty", "prune"}
    /\ Becomes(g, [Idle EXCEPT !.pc = "failed"])
    /\ typed' = IF gen[g].pc = "empty" THEN Forget({NextPath(gen[g].left)}) ELSE typed
    /\ UNCHANGED <<doc, tree, disturbed, runs>>

-----------------------------------------------------------------------------
(* Everybody else *)

(* A key the operator is to fill in: neither the config nor the key's      *)
(* declaration gives it a value.                                           *)
Open(b, name, k) ==
    /\ k \in DOMAIN b.environment /\ b.environment[k].default = ""
    /\ \E cfg \in Range(EffectiveEnvironmentConfigs(b)) :
          cfg.name = name /\ k \notin DOMAIN cfg.data

(* A client's edit: the server holds its mutex from the load of a          *)
(* generation to its end.  Values typed for what the new document no       *)
(* longer leaves open may go, and so may all while a `cf gen` runs on the  *)
(* old one.                                                                *)
PutBlueprint(b) ==
    /\ b \in Docs /\ b # doc
    /\ "serve" \in Generators => ~Running("serve")
    /\ doc' = b
    /\ typed' = IF AllAtRest THEN [e \in {e \in DOMAIN typed : Open(b, e[1], e[2])} |-> typed[e]]
                ELSE <<>>
    /\ UNCHANGED <<tree, gen, disturbed, runs>>

(* Quotes are put only around what every document takes for a string       *)
TextKey(k) == \A b \in Docs : k \in DOMAIN b.environment => IsText(b.environment[k].type)

(* The operator fills in a value; one typed while a run is under way is    *)
(* not counted on.                                                         *)
Type(p, k, v) ==
    /\ v.quoted => TextKey(k)
    /\ p \in DOMAIN tree /\ tree[p].of = "environment" /\ k \in DOMAIN tree[p].what
    /\ tree' = [tree EXCEPT ![p].what[k] = v]
    /\ disturbed' = [g \in Generators |-> TRUE]
    /\ LET e == <<p[2], k>> IN
         typed' = IF AllAtRest /\ Open(doc, p[2], k) THEN Put(typed, e, v) ELSE Without(typed, {e})
    /\ UNCHANGED <<doc, gen, runs>>

(* A managed file is deleted or edited by hand, or a stray one appears *)
Tamper(p) ==
    /\ p \in ByHand
    /\ tree' \in {Put(tree, p, Foreign), Without(tree, {p})} \ {tree}
    /\ disturbed' = [g \in Generators |-> TRUE]
    /\ typed' = Forget({p})
    /\ UNCHANGED <<doc, gen, runs>>

Generation(g) ==
    Load(g) \/ Render(g) \/ Truncate(g) \/ Fill(g) \/ FindExistingManagedFiles(g)
            \/ PruneOne(g) \/ Finish(g) \/ Stop(g)
Next ==
    \/ \E g \in Generators : Generation(g)
    \/ \E b \in Docs : PutBlueprint(b)
    \/ \E p \in DOMAIN tree : \E k \in DOMAIN doc.environment, v \in Values : Type(p, k, v)
    \/ \E p \in ByHand : Tamper(p)

Spec == Init /\ [][Next]_vars

-----------------------------------------------------------------------------
(* Properties *)

TypeOK ==
    /\ doc \in Docs
    /\ \A p \in DOMAIN tree : Managed(p)
    /\ \A g \in Generators :
         /\ gen[g].pc \in {"idle", "loaded", "write", "empty", "prune", "written", "failed"}
         /\ gen[g].doc \in Docs \cup {None}
         /\ gen[g].left \subseteq DOMAIN gen[g].outs
    /\ DOMAIN disturbed = Generators
    /\ runs \in 0..MaxRuns

(* Whatever earlier runs left behind (half a run, files of another         *)
(* document, stray and empty files), a run that completes undisturbed      *)
(* leaves exactly its outputs: `cf gen --check` right after exits 0.  This *)
(* needs pruning to match what it wrote, and a second rendering to read    *)
(* its own environment configs back unchanged.                             *)
WrittenIsInSync ==
    \A g \in Generators : gen[g].pc = "written" /\ ~disturbed[g] => InSync(gen[g].doc, tree)

(* A value the operator typed for a key the document leaves open survives  *)
(* every generation of the server and of `cf gen`, complete or stopped:    *)
(* the file holds it, or holds what it is printed as when it is read, and  *)
(* never a zero or an older value.  Values are lost in two ways, which     *)
(* Forget takes off the account: a run stops, or another renders, while    *)
(* that very file is truncated.                                            *)
ValuesSurvive ==
    AllAtRest => \A e \in DOMAIN typed :
                    /\ EnvPath(e[1]) \in DOMAIN tree
                    /\ tree[EnvPath(e[1])].of = "environment"
                    /\ ReadBack(tree[EnvPath(e[1])].what[e[2]]) = ReadBack(typed[e])

(* What a completed run leaves for the FileSystem source of document b:    *)
(* the groups of files in the ConfigMaps, and the files of templates/.     *)
Mounted(b) == tree[<<"runtime", b.name, 0>>].what
FilesOf(b) ==
    LET files == {p \in DOMAIN tree : p[1] = "templates" /\ p[2] = b.name}
    IN  [i \in 1..Cardinality(files) |-> tree[<<"templates", b.name, i>>].what]

(* The ConfigMaps of the runtime document carry each file of templates/    *)
(* once, in the order of their numbers, none above the budget.             *)
MapsCarryTemplates ==
    \A g \in Generators : gen[g].pc = "written" /\ ~disturbed[g] /\ OnFileSystem(gen[g].doc) =>
        /\ FlattenSeq(Mounted(gen[g].doc)) = FilesOf(gen[g].doc)
        /\ \A i \in DOMAIN Mounted(gen[g].doc) : GroupSize(Mounted(gen[g].doc)[i]) <= TemplateCMCap

(* What the FileSystem source reassembles is the body the Composition      *)
(* would have inlined, as fsexport.go:32-36 and composition.go:169-174     *)
(* say.  It is not: no file carries the composite's status.                *)
FilesRestoreTemplate ==
    \A g \in Generators : gen[g].pc = "written" /\ ~disturbed[g] /\ OnFileSystem(gen[g].doc) =>
        FlattenSeq(Mounted(gen[g].doc)) = TemplateBody(gen[g].doc)

(* The assembly of the pipeline, asked once for each document, whatever    *)
(* steps it declares.                                                      *)
Assembled(OfPipeline(_)) ==
    runs = 0 /\ tree = <<>> =>
       \A steps \in DeclaredPipelines :
          LET b == [doc EXCEPT !.pipeline = steps]
          IN  ValidPipeline(b) => OfPipeline(b)

(* Crossplane is given every step the author declared, under a name of its *)
(* own and on the side its position names, whatever names the emitter's    *)
(* own steps would take (EffectivePipeline).                               *)
StepsKept == Assembled(DeclaredStepsKept)

(* Every function a step runs is installed, once, and the configuration    *)
(* depends once on its package (functions.go, configuration.go).           *)
FunctionsInstalled == Assembled(FunctionsDeclared)

(* The environment is loaded before the templates read it, from where it   *)
(* was written, unless the author says from where.                         *)
EnvironmentReadable == Assembled(EnvironmentLoaded)
=============================================================================
