-------------------------- MODULE OutputTree_proofs --------------------------
(***************************************************************************)
(* The output directory, for any documents, generators and paths edited by *)
(* hand.  Four invariants: Sound (where paths and runs are), SoundFiles    *)
(* (what environment configs look like), Progress (what a run has written  *)
(* is what it rendered) and Survive (a value typed is in its file, or in   *)
(* the hands of the run that has emptied it).                              *)
(***************************************************************************)
EXTENDS OutputTree, Pipeline_proofs

(* Where an output may be *)
LEMMA Placed ==
    ASSUME NEW b, NEW p \in OutputPaths(b)
    PROVE  \/ \E dir \in {"compositions", "functions", "providerconfigs", "rbac",
                          "runtime", "templates", "xrds"} : \E name, i : p = <<dir, name, i>>
           \/ \E name : p = EnvPath(name)
<1>1. CASE p \in {<<"compositions", b.name, 0>>, <<"functions", "", 0>>, <<"xrds", b.name, 0>>}
  BY <1>1
<1>2. CASE p \in {<<"providerconfigs", f, 0>> : f \in ProviderConfigs(b)} BY <1>2
<1>3. CASE p \in {EnvPath(cfg.name) : cfg \in Range(EffectiveEnvironmentConfigs(b))} BY <1>3
<1>4. CASE p \in {<<"rbac", "", 0>> : rule \in NonPreGrantedNativeRules(b)} BY <1>4
<1>5. CASE p \in {<<"runtime", b.name, 0>>} BY <1>5
<1>6. CASE p \in {<<"templates", b.name, i>> : i \in DOMAIN TemplateFiles(b)} BY <1>6
<1> QED BY <1>1, <1>2, <1>3, <1>4, <1>5, <1>6 DEF OutputPaths

LEMMA PathsManaged == ASSUME NEW b, NEW p \in OutputPaths(b) PROVE Managed(p)
<1>1. CASE \E name : p = EnvPath(name) BY <1>1 DEF Managed, Directories, EnvPath
<1>2. CASE \E dir \in {"compositions", "functions", "providerconfigs", "rbac",
                       "runtime", "templates", "xrds"} : \E name, i : p = <<dir, name, i>>
  BY <1>2 DEF Managed, Directories
<1> QED BY <1>1, <1>2, Placed

LEMMA EnvironmentPaths ==
    ASSUME NEW b, NEW p \in OutputPaths(b), p[1] = "environmentconfigs"
    PROVE  p = EnvPath(p[2])
<1>1. PICK name : p = EnvPath(name) BY Placed
<1> QED BY <1>1 DEF EnvPath

LEMMA PlainIsPlain == ASSUME NEW b, NEW p PROVE PlainContent(b, p).of # "environment"
  BY DEF PlainContent, Content

-----------------------------------------------------------------------------
(* Reading back *)

(* A key some document takes for a string                                  *)
Quotable(k) == \E b \in Docs : k \in DOMAIN b.environment /\ IsText(b.environment[k].type)

(* Quotes stand only around strings                                        *)
SoundScalars(c) ==
    c.of = "environment" => \A k \in DOMAIN c.what : c.what[k].quoted => Quotable(k)

(* No key that is left to the operator is a number (its zero is written    *)
(* 0.0 and read back as 0), nor anything but a string if some other        *)
(* document has it as a string.                                            *)
OpenKeysReadBack(b) ==
    \A k \in DOMAIN b.environment : b.environment[k].default = "" =>
        /\ b.environment[k].type # "number"
        /\ IsText(b.environment[k].type) \/ ~Quotable(k)

LEMMA FormatTwice ==
    ASSUME NEW type, NEW v, type # "number", IsText(type) \/ v \notin DOMAIN Reprinted
    PROVE  FormatEnvVal(type, ReadBack(FormatEnvVal(type, v))) = FormatEnvVal(type, v)
<1>1. CASE IsText(type) BY <1>1 DEF FormatEnvVal, ReadBack, Quoted
<1>2. CASE ~IsText(type)
  <2>1. Zero(type) \in {"0", "false"} BY DEF Zero
  <2> DEFINE text == IF v = "" THEN Zero(type) ELSE v
  <2>2. text # "" /\ text \notin DOMAIN Reprinted BY <1>2, <2>1, ReprintedAssumption
  <2>3. FormatEnvVal(type, v) = Unquoted(text) BY <1>2 DEF FormatEnvVal
  <2> HIDE DEF text
  <2>4. ReadBack(Unquoted(text)) = text BY <2>2 DEF ReadBack, Unquoted
  <2>5. FormatEnvVal(type, text) = Unquoted(text) BY <1>2, <2>2 DEF FormatEnvVal
  <2> QED BY <2>3, <2>4, <2>5
<1> QED BY <1>1, <1>2

LEMMA UnquotedRead ==
    ASSUME NEW scalar, ~scalar.quoted
    PROVE  ReadBack(scalar) \notin DOMAIN Reprinted
  BY ReprintedAssumption DEF ReadBack

LEMMA ExistingRead ==
    ASSUME NEW files, \A p \in DOMAIN files : SoundScalars(files[p]),
           NEW p, NEW k \in DOMAIN ReadExistingData(files, p)
    PROVE  Quotable(k) \/ ReadExistingData(files, p)[k] \notin DOMAIN Reprinted
<1>1. CASE p \in DOMAIN files /\ files[p].of = "environment"
  <2> DEFINE data == files[p].what
  <2>1. ReadExistingData(files, p) = [q \in DOMAIN data |-> ReadBack(data[q])]
    BY <1>1 DEF ReadExistingData
  <2>2. \A q \in DOMAIN data : data[q].quoted => Quotable(q) BY <1>1 DEF SoundScalars
  <2> HIDE DEF data
  <2>3. k \in DOMAIN data /\ ReadExistingData(files, p)[k] = ReadBack(data[k]) BY <2>1
  <2> QED BY <2>2, <2>3, UnquotedRead
<1>2. CASE ~(p \in DOMAIN files /\ files[p].of = "environment")
  BY <1>2 DEF ReadExistingData
<1> QED BY <1>1, <1>2

(* What was rendered, read back and rendered again *)
LEMMA ConfigTwice ==
    ASSUME NEW b, OpenKeysReadBack(b), NEW cfg, NEW existing, NEW again,
           \A k \in DOMAIN existing : Quotable(k) \/ existing[k] \notin DOMAIN Reprinted,
           again = [k \in DOMAIN b.environment |-> ReadBack(EnvironmentConfig(b, cfg, existing)[k])]
    PROVE  EnvironmentConfig(b, cfg, again) = EnvironmentConfig(b, cfg, existing)
<1> DEFINE first == EnvironmentConfig(b, cfg, existing)
           second == EnvironmentConfig(b, cfg, again)
<1>1. ASSUME NEW k \in DOMAIN b.environment PROVE second[k] = first[k]
  <2>1. CASE k \in DOMAIN cfg.data BY <2>1 DEF EnvironmentConfig
  <2>2. CASE k \notin DOMAIN cfg.data /\ b.environment[k].default # "" BY <2>2 DEF EnvironmentConfig
  <2>3. CASE k \notin DOMAIN cfg.data /\ b.environment[k].default = ""
    <3> DEFINE type == b.environment[k].type
               v == IF k \in DOMAIN existing THEN existing[k] ELSE ""
    <3>1. type # "number" /\ (IsText(type) \/ v \notin DOMAIN Reprinted)
      BY <2>3, ReprintedAssumption DEF OpenKeysReadBack
    <3>2. first[k] = FormatEnvVal(type, v) BY <2>3 DEF EnvironmentConfig
    <3>3. again[k] = ReadBack(first[k]) OBVIOUS
    <3>4. second[k] = FormatEnvVal(type, again[k]) BY <2>3 DEF EnvironmentConfig
    <3>5. FormatEnvVal(type, ReadBack(FormatEnvVal(type, v))) = FormatEnvVal(type, v)
      BY <3>1, FormatTwice
    <3> QED BY <3>2, <3>3, <3>4, <3>5
  <2> QED BY <2>1, <2>2, <2>3
<1>2. first = [k \in DOMAIN b.environment |-> first[k]]
      /\ second = [k \in DOMAIN b.environment |-> second[k]]
  BY DEF EnvironmentConfig
<1> QED BY <1>1, <1>2

(* A generation over its own outputs writes them again.                    *)
LEMMA OutputsTwice ==
    ASSUME NEW b, OpenKeysReadBack(b), NEW files, \A p \in DOMAIN files : SoundScalars(files[p])
    PROVE  Outputs(b, Outputs(b, files)) = Outputs(b, files)
<1> DEFINE outs == Outputs(b, files)
<1>1. DOMAIN outs = OutputPaths(b) BY DEF Outputs
<1>2. ASSUME NEW p \in OutputPaths(b), p[1] = "environmentconfigs"
      PROVE  EnvironmentConfig(b, ConfigAt(b, p), ReadExistingData(outs, p))
             = EnvironmentConfig(b, ConfigAt(b, p), ReadExistingData(files, p))
  <2> DEFINE cfg == ConfigAt(b, p)
             old == ReadExistingData(files, p)
             env == EnvironmentConfig(b, cfg, old)
  <2>1. outs[p] = Content("environment", env) BY <1>2 DEF Outputs
  <2>2. outs[p].of = "environment" /\ outs[p].what = env BY <2>1 DEF Content
  <2>3. DOMAIN env = DOMAIN b.environment BY DEF EnvironmentConfig
  <2>4. ReadExistingData(outs, p) = [k \in DOMAIN b.environment |-> ReadBack(env[k])]
    BY <1>1, <1>2, <2>2, <2>3 DEF ReadExistingData
  <2>5. \A k \in DOMAIN old : Quotable(k) \/ old[k] \notin DOMAIN Reprinted BY ExistingRead
  <2> DEFINE again == ReadExistingData(outs, p)
  <2>6. again = [k \in DOMAIN b.environment |-> ReadBack(EnvironmentConfig(b, cfg, old)[k])]
    BY <2>4
  <2> HIDE DEF cfg, old, again
  <2>7. EnvironmentConfig(b, cfg, again) = EnvironmentConfig(b, cfg, old)
    BY <2>5, <2>6, ConfigTwice
  <2> QED BY <2>7 DEF again, old, cfg
<1> QED BY <1>2 DEF Outputs

-----------------------------------------------------------------------------
(* Types *)

SoundRun(run) ==
    /\ run = [f \in {"pc", "doc", "outs", "left", "orphans"} |-> run[f]]
    /\ run.pc \in {"idle", "loaded", "write", "empty", "prune", "written", "failed"}
    /\ run.doc \in Docs \cup {None}
    /\ run.pc \in {"loaded", "write", "empty", "prune", "written"} => run.doc \in Docs
    /\ run.left \subseteq DOMAIN run.outs
    /\ run.pc = "empty" => run.left # {}
    /\ \A p \in DOMAIN run.outs \cup run.orphans : Managed(p)
    /\ run.pc = "prune" => DOMAIN run.outs \cap run.orphans = {}

SoundRuns ==
    /\ gen = [g \in Generators |-> gen[g]]
    /\ \A g \in Generators : SoundRun(gen[g])
SoundTree ==
    /\ tree = [p \in DOMAIN tree |-> tree[p]]
    /\ \A p \in DOMAIN tree : Managed(p)
Sound ==
    /\ doc \in Docs
    /\ SoundTree
    /\ SoundRuns
    /\ runs \in 0..MaxRuns
    /\ disturbed \in [Generators -> BOOLEAN]

(* A set of paths that is not empty has one in its earliest directory.     *)
LEMMA NextPathIn ==
    ASSUME NEW left, left # {}, \A p \in left : Managed(p)
    PROVE  NextPath(left) \in left
<1>1. \A p \in left : Rank(p) \in 1..8
  BY DEF Rank, Managed, Directories
<1>2. \E p \in left : \A q \in left : Rank(p) <= Rank(q)
  <2> DEFINE at(n) == \E p \in left : Rank(p) = n
             least(n) == at(n) /\ \A m \in 1..8 : at(m) => n <= m
  <2>1. \E n \in 1..8 : at(n) BY <1>1
  <2>2. \E n \in 1..8 : least(n)
    <3> HIDE DEF at
    <3> QED BY <2>1, SMTT(30)
  <2>3. PICK n \in 1..8 : least(n) BY <2>2
  <2>4. PICK p \in left : Rank(p) = n BY <2>3
  <2> QED BY <1>1, <2>3, <2>4
<1> HIDE DEF Rank
<1> QED BY <1>2 DEF NextPath

LEMMA Became ==
    ASSUME SoundRuns, NEW g \in Generators, NEW run, Becomes(g, run)
    PROVE  /\ gen'[g] = run
           /\ \A h \in Generators : h # g => gen'[h] = gen[h]
           /\ gen' = [h \in Generators |-> gen'[h]]
           /\ SoundRun(run) => SoundRuns'
<1>1. DOMAIN gen = Generators BY DEF SoundRuns
<1>2. gen' = [gen EXCEPT ![g] = run] BY DEF Becomes
<1>3. gen' = [h \in Generators |-> IF h = g THEN run ELSE gen[h]] BY <1>1, <1>2
<1>4. /\ gen'[g] = run
      /\ \A h \in Generators : h # g => gen'[h] = gen[h]
      /\ gen' = [h \in Generators |-> gen'[h]]
  BY <1>3
<1>5. ASSUME SoundRun(run) PROVE \A h \in Generators : SoundRun(gen'[h])
  BY <1>4, <1>5 DEF SoundRuns
<1> QED BY <1>4, <1>5 DEF SoundRuns

LEMMA OutputsSound ==
    ASSUME NEW b, NEW files
    PROVE  /\ Outputs(b, files) = [p \in DOMAIN Outputs(b, files) |-> Outputs(b, files)[p]]
           /\ DOMAIN Outputs(b, files) = OutputPaths(b)
           /\ \A p \in DOMAIN Outputs(b, files) : Managed(p)
  BY PathsManaged DEF Outputs

LEMMA TreesSound ==
    /\ \A path, content : SoundTree /\ Managed(path) /\ tree' = Put(tree, path, content) => SoundTree'
    /\ \A paths : SoundTree /\ tree' = Without(tree, paths) => SoundTree'
  BY DEF SoundTree, Put, Without

LEMMA IdleSound == SoundRun(Idle)
<1>1. DOMAIN <<>> = {} OBVIOUS
<1> QED BY <1>1 DEF SoundRun, Idle

LEMMA InitSound == Init => Sound
<1>1. SUFFICES ASSUME Init PROVE Sound OBVIOUS
<1>2. SoundTree
  <2>1. CASE tree = <<>> BY <2>1 DEF SoundTree
  <2>2. CASE \E b \in Docs : tree = Outputs(b, <<>>) BY <2>2, OutputsSound DEF SoundTree
  <2> QED BY <1>1, <2>1, <2>2 DEF Init
<1>3. SoundRuns
  <2>1. SoundRun(Idle) BY IdleSound
  <2>2. gen = [g \in Generators |-> Idle] BY <1>1 DEF Init
  <2> HIDE DEF SoundRun
  <2> QED BY <2>1, <2>2 DEF SoundRuns
<1>4. disturbed \in [Generators -> BOOLEAN] BY <1>1 DEF Init
<1> QED BY <1>1, <1>2, <1>3, <1>4, RunsAssumption DEF Init, Sound

(* Runs that change only where they stand *)
LEMMA RunsSound ==
    ASSUME Sound, NEW g \in Generators
    PROVE  /\ Load(g) => SoundRuns'
           /\ Render(g) => SoundRuns'
           /\ Truncate(g) => SoundRuns'
           /\ Fill(g) => SoundRuns'
           /\ FindExistingManagedFiles(g) => SoundRuns'
           /\ PruneOne(g) => SoundRuns'
           /\ Finish(g) => SoundRuns'
           /\ Stop(g) => SoundRuns'
<1> DEFINE run == gen[g]
<1>1. SoundRuns /\ SoundRun(run) BY DEF Sound, SoundRuns
<1>2. run = [f \in {"pc", "doc", "outs", "left", "orphans"} |-> run[f]] BY <1>1 DEF SoundRun
<1>3. DOMAIN <<>> = {} /\ Idle = [pc |-> "idle", doc |-> None, outs |-> <<>>, left |-> {}, orphans |-> {}]
  BY DEF Idle
<1>4. ASSUME Load(g) PROVE SoundRuns'
  <2> DEFINE new == [Idle EXCEPT !.pc = "loaded", !.doc = doc]
  <2>1. Becomes(g, new) BY <1>4 DEF Load
  <2>2. SoundRun(new)
    <3>1. /\ new = [f \in {"pc", "doc", "outs", "left", "orphans"} |-> new[f]]
          /\ new.pc = "loaded" /\ new.doc = doc /\ new.outs = <<>>
          /\ new.left = {} /\ new.orphans = {}
      BY <1>2, <1>3
    <3> HIDE DEF new
    <3> QED BY <1>3, <3>1 DEF SoundRun, Sound
  <2> HIDE DEF new
  <2> QED BY <1>1, <2>1, <2>2, Became
<1>5. ASSUME Render(g) PROVE SoundRuns'
  <2> DEFINE outs == Outputs(run.doc, tree)
             new == [run EXCEPT !.pc = "write", !.outs = outs, !.left = DOMAIN outs]
             failed == [run EXCEPT !.pc = "failed"]
  <2>1. run.pc = "loaded" /\ (Becomes(g, new) \/ Becomes(g, failed)) BY <1>5 DEF Render
  <2>2. SoundRun(new)
    <3>1. \A p \in DOMAIN outs : Managed(p) BY OutputsSound
    <3> HIDE DEF outs
    <3>2. /\ new = [f \in {"pc", "doc", "outs", "left", "orphans"} |-> new[f]]
          /\ new.pc = "write" /\ new.doc = run.doc /\ new.outs = outs
          /\ new.left = DOMAIN outs /\ new.orphans = run.orphans
      BY <1>2, <1>3
    <3> HIDE DEF new
    <3> QED BY <1>1, <2>1, <3>1, <3>2 DEF SoundRun
  <2>3. SoundRun(failed) BY <1>1, <1>2, <2>1 DEF SoundRun
  <2> HIDE DEF new, failed
  <2> QED BY <1>1, <2>1, <2>2, <2>3, Became
<1>6. ASSUME Truncate(g) PROVE SoundRuns'
  <2> DEFINE new == [run EXCEPT !.pc = "empty"]
  <2>1. Becomes(g, new) /\ run.pc = "write" /\ run.left # {} BY <1>6 DEF Truncate
  <2>2. SoundRun(new) BY <1>1, <1>2, <2>1 DEF SoundRun
  <2> HIDE DEF new
  <2> QED BY <1>1, <2>1, <2>2, Became
<1>7. ASSUME Fill(g) PROVE SoundRuns'
  <2> DEFINE p == NextPath(run.left)
             new == [run EXCEPT !.pc = "write", !.left = run.left \ {p}]
  <2>1. Becomes(g, new) /\ run.pc = "empty" BY <1>7 DEF Fill
  <2> HIDE DEF p
  <2>2. SoundRun(new)
    <3>1. /\ new = [f \in {"pc", "doc", "outs", "left", "orphans"} |-> new[f]]
          /\ new.pc = "write" /\ new.doc = run.doc /\ new.outs = run.outs
          /\ new.left = run.left \ {p} /\ new.orphans = run.orphans
      BY <1>2, <1>3
    <3> HIDE DEF new
    <3> QED BY <1>1, <2>1, <3>1 DEF SoundRun
  <2> HIDE DEF new
  <2> QED BY <1>1, <2>1, <2>2, Became
<1>8. ASSUME FindExistingManagedFiles(g) PROVE SoundRuns'
  <2> DEFINE new == [run EXCEPT !.pc = "prune", !.orphans = DOMAIN tree \ DOMAIN run.outs]
  <2>1. Becomes(g, new) /\ run.pc = "write" BY <1>8 DEF FindExistingManagedFiles
  <2>2. SoundRun(new)
    <3>1. /\ new = [f \in {"pc", "doc", "outs", "left", "orphans"} |-> new[f]]
          /\ new.pc = "prune" /\ new.doc = run.doc /\ new.outs = run.outs
          /\ new.left = run.left /\ new.orphans = DOMAIN tree \ DOMAIN run.outs
      BY <1>2, <1>3
    <3> HIDE DEF new
    <3> QED BY <1>1, <2>1, <3>1 DEF SoundRun, Sound, SoundTree
  <2> HIDE DEF new
  <2> QED BY <1>1, <2>1, <2>2, Became
<1>9. ASSUME PruneOne(g) PROVE SoundRuns'
  <2> DEFINE p == NextPath(run.orphans)
             new == [run EXCEPT !.orphans = run.orphans \ {p}]
  <2>1. Becomes(g, new) /\ run.pc = "prune" BY <1>9 DEF PruneOne
  <2> HIDE DEF p
  <2>2. SoundRun(new) BY <1>1, <1>2, <2>1 DEF SoundRun
  <2> HIDE DEF new
  <2> QED BY <1>1, <2>1, <2>2, Became
<1>10. ASSUME Finish(g) PROVE SoundRuns'
  <2> DEFINE new == [Idle EXCEPT !.pc = "written", !.doc = run.doc]
  <2>1. Becomes(g, new) /\ run.pc = "prune" BY <1>10 DEF Finish
  <2>2. SoundRun(new)
    <3>1. /\ new = [f \in {"pc", "doc", "outs", "left", "orphans"} |-> new[f]]
          /\ new.pc = "written" /\ new.doc = run.doc /\ new.outs = <<>>
          /\ new.left = {} /\ new.orphans = {}
      BY <1>2, <1>3
    <3> HIDE DEF new
    <3> QED BY <1>1, <1>3, <2>1, <3>1 DEF SoundRun
  <2> HIDE DEF new
  <2> QED BY <1>1, <2>1, <2>2, Became
<1>11. ASSUME Stop(g) PROVE SoundRuns'
  <2> DEFINE new == [Idle EXCEPT !.pc = "failed"]
  <2>1. Becomes(g, new) BY <1>11 DEF Stop
  <2>2. SoundRun(new)
    <3>1. /\ new = [f \in {"pc", "doc", "outs", "left", "orphans"} |-> new[f]]
          /\ new.pc = "failed" /\ new.doc = None /\ new.outs = <<>>
          /\ new.left = {} /\ new.orphans = {}
      BY <1>2, <1>3
    <3> HIDE DEF new
    <3> QED BY <1>3, <3>1 DEF SoundRun
  <2> HIDE DEF new
  <2> QED BY <1>1, <2>1, <2>2, Became
<1> QED BY <1>4, <1>5, <1>6, <1>7, <1>8, <1>9, <1>10, <1>11

LEMMA NextSound == Sound /\ [Next]_vars => Sound'
<1>1. SUFFICES ASSUME Sound, [Next]_vars PROVE Sound' OBVIOUS
<1>2. doc \in Docs /\ SoundTree /\ SoundRuns /\ runs \in 0..MaxRuns
      /\ disturbed \in [Generators -> BOOLEAN]
  BY <1>1 DEF Sound
<1>3. ASSUME NEW g \in Generators, Generation(g) PROVE Sound'
  <2>1. SoundRuns' BY <1>1, <1>3, RunsSound DEF Generation
  <2>2. SoundTree'
    <3>1. CASE tree' = tree BY <1>2, <3>1 DEF SoundTree
    <3>2. CASE Truncate(g) \/ Fill(g)
      <4>1. gen[g].left # {} /\ \A p \in gen[g].left : Managed(p)
        BY <1>2, <3>2 DEF SoundRuns, SoundRun, Truncate, Fill
      <4>2. Managed(NextPath(gen[g].left)) BY <4>1, NextPathIn
      <4>3. \E content : tree' = Put(tree, NextPath(gen[g].left), content) BY <3>2 DEF Truncate, Fill
      <4> QED BY <1>2, <4>2, <4>3, TreesSound
    <3>3. CASE PruneOne(g) BY <1>2, <3>3, TreesSound DEF PruneOne
    <3> QED BY <1>3, <3>1, <3>2, <3>3 DEF Generation, Load, Render, FindExistingManagedFiles, Finish, Stop
  <2>3. doc' = doc
    BY <1>3 DEF Generation, Load, Render, Truncate, Fill, FindExistingManagedFiles, PruneOne, Finish, Stop
  <2>4. runs' \in 0..MaxRuns
    <3>1. CASE runs' = runs BY <1>2, <3>1
    <3>2. CASE Load(g) BY <1>2, <3>2, RunsAssumption DEF Load
    <3> QED BY <1>3, <3>1, <3>2 DEF Generation, Render, Truncate, Fill, FindExistingManagedFiles, PruneOne, Finish, Stop
  <2>5. disturbed' \in [Generators -> BOOLEAN]
    <3>1. CASE disturbed' = disturbed BY <1>2, <3>1
    <3>2. CASE Disturbs(g) BY <3>2 DEF Disturbs
    <3>3. CASE Load(g) BY <1>2, <3>3 DEF Load
    <3> QED BY <1>3, <3>1, <3>2, <3>3
         DEF Generation, Render, Truncate, Fill, FindExistingManagedFiles, PruneOne, Finish, Stop
  <2> QED BY <1>2, <2>1, <2>2, <2>3, <2>4, <2>5 DEF Sound
<1>4. ASSUME NEW b \in Docs, PutBlueprint(b) PROVE Sound'
  BY <1>2, <1>4 DEF PutBlueprint, Sound, SoundTree, SoundRuns
<1>5. ASSUME NEW p \in DOMAIN tree, NEW k, NEW v, Type(p, k, v) PROVE Sound'
  <2>1. SoundTree' BY <1>2, <1>5 DEF Type, SoundTree
  <2>2. SoundRuns' /\ doc' = doc /\ runs' = runs BY <1>2, <1>5 DEF Type, SoundRuns
  <2>3. disturbed' \in [Generators -> BOOLEAN] BY <1>5 DEF Type
  <2> QED BY <1>2, <2>1, <2>2, <2>3 DEF Sound
<1>6. ASSUME NEW p \in ByHand, Tamper(p) PROVE Sound'
  <2>1. SoundTree' BY <1>2, <1>6, ByHandAssumption, TreesSound DEF Tamper
  <2>2. SoundRuns' /\ doc' = doc /\ runs' = runs BY <1>2, <1>6 DEF Tamper, SoundRuns
  <2>3. disturbed' \in [Generators -> BOOLEAN] BY <1>6 DEF Tamper
  <2> QED BY <1>2, <2>1, <2>2, <2>3 DEF Sound
<1>7. CASE UNCHANGED vars BY <1>2, <1>7 DEF vars, Sound, SoundTree, SoundRuns
<1> QED BY <1>1, <1>3, <1>4, <1>5, <1>6, <1>7 DEF Next

THEOREM TreeIsSound == Spec => []Sound
<1>1. Init => Sound BY InitSound
<1>2. Sound /\ [Next]_vars => Sound' BY NextSound
<1> QED BY <1>1, <1>2, PTL DEF Spec

(* Every managed file is in one of the managed directories, every run is   *)
(* of one of the documents, and it has only its own outputs left to write. *)
THEOREM TreeTypeCorrect == Spec => []TypeOK
<1>1. Sound => TypeOK BY DEF Sound, SoundTree, SoundRuns, SoundRun, TypeOK
<1> QED BY <1>1, TreeIsSound, PTL

-----------------------------------------------------------------------------
(* Where a step takes a run *)

LEMMA Steps ==
    ASSUME Sound, NEW g \in Generators
    PROVE  LET old == gen[g]
               new == gen'[g]
               same == new.doc = old.doc /\ new.outs = old.outs
           IN  /\ Load(g) => new.pc = "loaded" /\ new.doc = doc
               /\ Render(g) => \/ new.pc = "failed"
                               \/ /\ new.pc = "write" /\ new.doc = old.doc /\ Generates(old.doc)
                                  /\ new.outs = Outputs(old.doc, tree) /\ new.left = DOMAIN new.outs
               /\ Truncate(g) => same /\ new.pc = "empty" /\ new.left = old.left
               /\ Fill(g) => same /\ new.pc = "write" /\ new.left = old.left \ {NextPath(old.left)}
               /\ FindExistingManagedFiles(g) =>
                     same /\ new.pc = "prune" /\ new.orphans = DOMAIN tree \ DOMAIN old.outs
               /\ PruneOne(g) =>
                     same /\ new.pc = "prune" /\ new.orphans = old.orphans \ {NextPath(old.orphans)}
               /\ Finish(g) => new.pc = "written" /\ new.doc = old.doc
               /\ Stop(g) => new.pc = "failed"
               /\ Generation(g) => \A h \in Generators : h # g => gen'[h] = gen[h]
<1>1. SoundRuns /\ gen[g] = [f \in {"pc", "doc", "outs", "left", "orphans"} |-> gen[g][f]]
  BY DEF Sound, SoundRuns, SoundRun
<1>2. DOMAIN gen = Generators BY <1>1 DEF SoundRuns
<1>3. \A run : Becomes(g, run) => gen'[g] = run /\ \A h \in Generators : h # g => gen'[h] = gen[h]
  BY <1>1, Became
<1>4. Generation(g) => \E run : Becomes(g, run)
  BY DEF Generation, Load, Render, Truncate, Fill, FindExistingManagedFiles, PruneOne, Finish, Stop
<1>5. Load(g) => gen'[g].pc = "loaded" /\ gen'[g].doc = doc
  <2>1. SUFFICES ASSUME Load(g) PROVE gen'[g].pc = "loaded" /\ gen'[g].doc = doc OBVIOUS
  <2>2. gen'[g] = [Idle EXCEPT !.pc = "loaded", !.doc = doc] BY <1>3, <2>1 DEF Load
  <2>3. Idle = [f \in {"pc", "doc", "outs", "left", "orphans"} |-> Idle[f]] BY DEF Idle
  <2> QED BY <2>2, <2>3
<1>6. ASSUME Render(g)
      PROVE  \/ gen'[g].pc = "failed"
             \/ /\ gen'[g].pc = "write" /\ gen'[g].doc = gen[g].doc /\ Generates(gen[g].doc)
                /\ gen'[g].outs = Outputs(gen[g].doc, tree) /\ gen'[g].left = DOMAIN gen'[g].outs
  <2> DEFINE outs == Outputs(gen[g].doc, tree)
  <2>1. CASE Generates(gen[g].doc)
    <3>1. Becomes(g, [gen[g] EXCEPT !.pc = "write", !.outs = outs, !.left = DOMAIN outs])
      BY <1>6, <2>1 DEF Render
    <3> HIDE DEF outs
    <3>2. gen'[g] = [gen[g] EXCEPT !.pc = "write", !.outs = outs, !.left = DOMAIN outs]
      BY <1>3, <3>1
    <3>3. /\ gen'[g].pc = "write" /\ gen'[g].doc = gen[g].doc
          /\ gen'[g].outs = outs /\ gen'[g].left = DOMAIN outs
      BY <1>1, <3>2
    <3> QED BY <2>1, <3>3 DEF outs
  <2>2. CASE ~Generates(gen[g].doc)
    <3>1. Becomes(g, [gen[g] EXCEPT !.pc = "failed"]) BY <1>6, <2>2 DEF Render
    <3> QED BY <1>1, <1>3, <3>1
  <2> QED BY <2>1, <2>2
<1>7. ASSUME Truncate(g)
      PROVE  /\ gen'[g].doc = gen[g].doc /\ gen'[g].outs = gen[g].outs
             /\ gen'[g].pc = "empty" /\ gen'[g].left = gen[g].left
  BY <1>1, <1>3, <1>7 DEF Truncate
<1>8. ASSUME Fill(g)
      PROVE  /\ gen'[g].doc = gen[g].doc /\ gen'[g].outs = gen[g].outs
             /\ gen'[g].pc = "write" /\ gen'[g].left = gen[g].left \ {NextPath(gen[g].left)}
  <2> DEFINE p == NextPath(gen[g].left)
  <2>1. Becomes(g, [gen[g] EXCEPT !.pc = "write", !.left = gen[g].left \ {p}]) BY <1>8 DEF Fill
  <2> HIDE DEF p
  <2>2. gen'[g] = [gen[g] EXCEPT !.pc = "write", !.left = gen[g].left \ {p}] BY <1>3, <2>1
  <2>3. /\ gen'[g].doc = gen[g].doc /\ gen'[g].outs = gen[g].outs
        /\ gen'[g].pc = "write" /\ gen'[g].left = gen[g].left \ {p}
    BY <1>1, <2>2
  <2> QED BY <2>3 DEF p
<1>9. ASSUME FindExistingManagedFiles(g)
      PROVE  /\ gen'[g].doc = gen[g].doc /\ gen'[g].outs = gen[g].outs
             /\ gen'[g].pc = "prune" /\ gen'[g].orphans = DOMAIN tree \ DOMAIN gen[g].outs
  <2> DEFINE others == DOMAIN tree \ DOMAIN gen[g].outs
  <2>1. Becomes(g, [gen[g] EXCEPT !.pc = "prune", !.orphans = others])
    BY <1>9 DEF FindExistingManagedFiles
  <2> HIDE DEF others
  <2>2. gen'[g] = [gen[g] EXCEPT !.pc = "prune", !.orphans = others] BY <1>3, <2>1
  <2>3. /\ gen'[g].doc = gen[g].doc /\ gen'[g].outs = gen[g].outs
        /\ gen'[g].pc = "prune" /\ gen'[g].orphans = others
    BY <1>1, <2>2
  <2> QED BY <2>3 DEF others
<1>10. ASSUME PruneOne(g)
      PROVE  /\ gen'[g].doc = gen[g].doc /\ gen'[g].outs = gen[g].outs
             /\ gen'[g].pc = "prune" /\ gen'[g].orphans = gen[g].orphans \ {NextPath(gen[g].orphans)}
  BY <1>1, <1>3, <1>10 DEF PruneOne
<1>11. Finish(g) => gen'[g].pc = "written" /\ gen'[g].doc = gen[g].doc
  <2>1. SUFFICES ASSUME Finish(g) PROVE gen'[g].pc = "written" /\ gen'[g].doc = gen[g].doc OBVIOUS
  <2>2. gen'[g] = [Idle EXCEPT !.pc = "written", !.doc = gen[g].doc] BY <1>3, <2>1 DEF Finish
  <2>3. Idle = [f \in {"pc", "doc", "outs", "left", "orphans"} |-> Idle[f]] BY DEF Idle
  <2> QED BY <2>2, <2>3
<1>12. Stop(g) => gen'[g].pc = "failed" BY <1>3 DEF Stop, Idle
<1> QED BY <1>3, <1>4, <1>5, <1>6, <1>7, <1>8, <1>9, <1>10, <1>11, <1>12

-----------------------------------------------------------------------------
(* The environment configs in the tree and in the hands of the runs *)

SoundFile(p, c) ==
    c.of = "environment" =>
        /\ p = EnvPath(p[2])
        /\ c = [f \in {"of", "what"} |-> c[f]]
        /\ c.what = [k \in DOMAIN c.what |-> c.what[k]]
        /\ SoundScalars(c)
SoundFiles ==
    /\ \A p \in DOMAIN tree : SoundFile(p, tree[p])
    /\ \A g \in Generators : gen[g].pc \in {"write", "empty", "prune"} =>
          \A p \in DOMAIN gen[g].outs : SoundFile(p, gen[g].outs[p])

LEMMA OutputFiles ==
    ASSUME NEW b \in Docs, NEW files, NEW p \in DOMAIN Outputs(b, files)
    PROVE  SoundFile(p, Outputs(b, files)[p])
<1>1. p \in OutputPaths(b) BY OutputsSound
<1>2. CASE p[1] = "environmentconfigs"
  <2> DEFINE env == EnvironmentConfig(b, ConfigAt(b, p), ReadExistingData(files, p))
             c == Outputs(b, files)[p]
  <2>1. c = Content("environment", env) BY <1>1, <1>2 DEF Outputs
  <2>2. env = [k \in DOMAIN env |-> env[k]] BY DEF EnvironmentConfig
  <2>3. p = EnvPath(p[2]) BY <1>1, <1>2, EnvironmentPaths
  <2>4. \A k \in DOMAIN env : env[k].quoted => Quotable(k)
    <3>1. ASSUME NEW k \in DOMAIN env, env[k].quoted PROVE Quotable(k)
      <4> DEFINE type == b.environment[k].type
      <4>1. k \in DOMAIN b.environment /\ \E v : env[k] = FormatEnvVal(type, v)
        BY DEF EnvironmentConfig
      <4>2. PICK v : FormatEnvVal(type, v).quoted
        <5> HIDE DEF env, type
        <5> QED BY <3>1, <4>1
      <4>3. IsText(type)
        <5> HIDE DEF type
        <5> QED BY <4>2 DEF FormatEnvVal, Unquoted
      <4> QED BY <4>1, <4>3 DEF Quotable
    <3> QED BY <3>1
  <2> HIDE DEF env, c
  <2>5. c.what = env /\ c = [f \in {"of", "what"} |-> c[f]] BY <2>1 DEF Content
  <2>6. SoundFile(p, c) BY <2>2, <2>3, <2>4, <2>5 DEF SoundFile, SoundScalars
  <2> QED BY <2>6 DEF c
<1>3. CASE p[1] # "environmentconfigs"
  <2>1. Outputs(b, files)[p] = PlainContent(b, p) BY <1>1, <1>3 DEF Outputs
  <2> QED BY <2>1, PlainIsPlain DEF SoundFile
<1> QED BY <1>2, <1>3

LEMMA InitFiles == Init => SoundFiles
<1>1. SUFFICES ASSUME Init PROVE SoundFiles OBVIOUS
<1>2. \A g \in Generators : gen[g].pc = "idle" BY <1>1 DEF Init, Idle
<1>3. \A p \in DOMAIN tree : SoundFile(p, tree[p])
  <2>1. CASE tree = <<>> BY <2>1
  <2>2. CASE \E b \in Docs : tree = Outputs(b, <<>>) BY <2>2, OutputFiles
  <2> QED BY <1>1, <2>1, <2>2 DEF Init
<1> QED BY <1>2, <1>3 DEF SoundFiles

LEMMA EmptyFiles == ASSUME NEW p PROVE SoundFile(p, Empty) /\ SoundFile(p, Foreign)
  BY DEF SoundFile, Empty, Foreign

LEMMA PutFiles ==
    ASSUME NEW path, NEW c, SoundFile(path, c), tree' = Put(tree, path, c),
           \A p \in DOMAIN tree : SoundFile(p, tree[p])
    PROVE  \A p \in DOMAIN tree' : SoundFile(p, tree'[p])
  BY DEF Put

LEMMA NextFiles ==
    ASSUME Sound, SoundFiles, [Next]_vars
    PROVE  SoundFiles'
<1> DEFINE InTree == \A p \in DOMAIN tree : SoundFile(p, tree[p])
           InRuns == \A g \in Generators : gen[g].pc \in {"write", "empty", "prune"} =>
                        \A p \in DOMAIN gen[g].outs : SoundFile(p, gen[g].outs[p])
<1>1. InTree /\ InRuns BY DEF SoundFiles
<1>2. SUFFICES InTree' /\ InRuns' BY DEF SoundFiles
<1>3. \A g \in Generators : SoundRun(gen[g]) BY DEF Sound, SoundRuns
<1>4. ASSUME NEW g \in Generators, Generation(g) PROVE InTree' /\ InRuns'
  <2>1. InRuns'
    <3>1. SUFFICES ASSUME NEW h \in Generators, gen'[h].pc \in {"write", "empty", "prune"},
                          NEW p \in DOMAIN gen'[h].outs
                   PROVE  SoundFile(p, gen'[h].outs[p])
      OBVIOUS
    <3>2. CASE h # g BY <1>1, <1>4, <3>1, <3>2, Steps
    <3>3. CASE h = g /\ Render(g)
      <4>1. gen[g].doc \in Docs BY <1>3, <3>3 DEF Render, SoundRun
      <4> QED BY <3>1, <3>3, <4>1, Steps, OutputFiles
    <3>4. CASE h = g /\ ~Render(g)
      <4>1. gen'[g].outs = gen[g].outs /\ gen[g].pc \in {"write", "empty", "prune"}
        BY <1>4, <3>1, <3>4, Steps DEF Generation, Truncate, Fill, FindExistingManagedFiles, PruneOne
      <4> QED BY <1>1, <3>1, <3>4, <4>1
    <3> QED BY <3>2, <3>3, <3>4
  <2>2. InTree'
    <3>1. CASE Truncate(g) BY <1>1, <3>1, EmptyFiles, PutFiles DEF Truncate
    <3>2. CASE Fill(g)
      <4> DEFINE p == NextPath(gen[g].left)
      <4>1. gen[g].pc = "empty" /\ tree' = Put(tree, p, gen[g].outs[p]) BY <3>2 DEF Fill
      <4>2. p \in DOMAIN gen[g].outs
        <5>1. gen[g].left # {} /\ gen[g].left \subseteq DOMAIN gen[g].outs
              /\ \A q \in gen[g].left : Managed(q)
          BY <1>3, <4>1 DEF SoundRun
        <5> QED BY <5>1, NextPathIn
      <4>3. SoundFile(p, gen[g].outs[p]) BY <1>1, <4>1, <4>2
      <4> HIDE DEF p
      <4> QED BY <1>1, <4>1, <4>3, PutFiles
    <3>3. CASE PruneOne(g) BY <1>1, <3>3 DEF PruneOne, Without
    <3>4. CASE tree' = tree BY <1>1, <3>4
    <3> QED BY <1>4, <3>1, <3>2, <3>3, <3>4
         DEF Generation, Load, Render, FindExistingManagedFiles, Finish, Stop
  <2> QED BY <2>1, <2>2
<1>5. ASSUME NEW b, PutBlueprint(b) PROVE InTree' /\ InRuns' BY <1>1, <1>5 DEF PutBlueprint
<1>6. ASSUME NEW p, NEW k \in DOMAIN doc.environment, NEW v, Type(p, k, v) PROVE InTree' /\ InRuns'
  <2>1. gen' = gen /\ tree' = [tree EXCEPT ![p].what[k] = v] /\ p \in DOMAIN tree
        /\ tree[p].of = "environment"
    BY <1>6 DEF Type
  <2>2. /\ p = EnvPath(p[2]) /\ tree[p] = [f \in {"of", "what"} |-> tree[p][f]]
        /\ tree[p].what = [q \in DOMAIN tree[p].what |-> tree[p].what[q]]
    BY <1>1, <2>1 DEF SoundFile
  <2>3. tree'[p] = [tree[p] EXCEPT !.what[k] = v] /\ \A q \in DOMAIN tree : q # p => tree'[q] = tree[q]
    BY <2>1
  <2>4. tree'[p] = [f \in {"of", "what"} |-> tree'[p][f]]
        /\ tree'[p].what = [tree[p].what EXCEPT ![k] = v]
    BY <2>2, <2>3
  <2>5. SoundFile(p, tree'[p])
    <3>1. v.quoted => Quotable(k) BY <1>6 DEF Type, TextKey, Quotable, Sound
    <3>2. SoundScalars(tree[p]) BY <1>1, <2>1 DEF SoundFile
    <3> DEFINE c == tree'[p]
    <3>3. \A q \in DOMAIN c.what : q \in DOMAIN tree[p].what /\ (q # k => c.what[q] = tree[p].what[q])
      BY <2>2, <2>4
    <3>4. k \in DOMAIN c.what => c.what[k] = v BY <2>2, <2>4
    <3>5. c = [f \in {"of", "what"} |-> c[f]] /\ c.what = [q \in DOMAIN c.what |-> c.what[q]]
      BY <2>2, <2>4
    <3> HIDE DEF c
    <3>6. SoundScalars(c) BY <2>1, <3>1, <3>2, <3>3, <3>4 DEF SoundScalars
    <3>7. SoundFile(p, c) BY <2>2, <3>5, <3>6 DEF SoundFile
    <3> QED BY <3>7 DEF c
  <2>6. DOMAIN tree' = DOMAIN tree BY <2>1
  <2> QED BY <1>1, <2>1, <2>3, <2>5, <2>6
<1>7. ASSUME NEW p, Tamper(p) PROVE InTree' /\ InRuns'
  <2>1. InTree' BY <1>1, <1>7, EmptyFiles DEF Tamper, Put, Without
  <2> QED BY <1>1, <1>7, <2>1 DEF Tamper
<1>8. CASE UNCHANGED vars BY <1>1, <1>8 DEF vars
<1> QED BY <1>4, <1>5, <1>6, <1>7, <1>8 DEF Next

LEMMA FilesAreSound == Spec => []SoundFiles
<1> QED BY InitFiles, NextFiles, TreeIsSound, PTL DEF Spec

-----------------------------------------------------------------------------
(* In sync *)

(* What a generation of b writes, whatever it reads back                   *)
IsRendering(b, outs) ==
    /\ Generates(b)
    /\ \E files : (\A p \in DOMAIN files : SoundScalars(files[p])) /\ outs = Outputs(b, files)

(* What is written so far is what was rendered; what is to be pruned is    *)
(* what was not.                                                           *)
Progress(g) ==
    LET run == gen[g]
        written(p) == p \in DOMAIN tree /\ tree[p] = run.outs[p]
    IN  /\ run.pc \in {"write", "empty", "prune"} =>
             /\ run.outs = [p \in DOMAIN run.outs |-> run.outs[p]]
             /\ IsRendering(run.doc, run.outs)
        /\ ~disturbed[g] =>
             /\ run.pc \in {"write", "empty"} => \A p \in DOMAIN run.outs \ run.left : written(p)
             /\ run.pc = "prune" =>
                  /\ \A p \in DOMAIN run.outs : written(p)
                  /\ DOMAIN tree = DOMAIN run.outs \cup run.orphans
                  /\ DOMAIN run.outs \cap run.orphans = {}
             /\ run.pc = "written" => IsRendering(run.doc, tree)

(* A run whose position and whose tree stay *)
LEMMA ProgressStays ==
    ASSUME NEW h \in Generators, Progress(h), gen'[h] = gen[h],
           disturbed'[h] \/ (tree' = tree /\ disturbed'[h] = disturbed[h])
    PROVE  Progress(h)'
  BY DEF Progress

LEMMA ProgressSteps ==
    ASSUME Sound, SoundFiles, NEW g \in Generators, Progress(g), Generation(g)
    PROVE  Progress(g)'
<1> DEFINE old == gen[g]
           new == gen'[g]
<1>1. SoundTree /\ SoundRun(old) /\ disturbed \in [Generators -> BOOLEAN]
  BY DEF Sound, SoundRuns
<1>2. CASE Load(g) BY <1>2, Steps DEF Progress
<1>3. CASE Stop(g) BY <1>3, Steps DEF Progress
<1>4. CASE Render(g)
  <2>1. CASE new.pc = "failed" BY <2>1 DEF Progress
  <2>2. CASE new.pc # "failed"
    <3>1. /\ new.pc = "write" /\ new.doc = old.doc /\ new.left = DOMAIN new.outs
          /\ new.outs = Outputs(old.doc, tree) /\ Generates(old.doc)
      BY <1>4, <2>2, Steps
    <3>2. \A p \in DOMAIN tree : SoundScalars(tree[p]) BY DEF SoundFiles, SoundFile, SoundScalars
    <3>3. IsRendering(new.doc, new.outs) BY <3>1, <3>2 DEF IsRendering
    <3>4. new.outs = [p \in DOMAIN new.outs |-> new.outs[p]] BY <3>1, OutputsSound
    <3> HIDE DEF new
    <3>5. new.pc \notin {"prune", "written"} /\ DOMAIN new.outs \ new.left = {} BY <3>1
    <3> QED BY <3>3, <3>4, <3>5 DEF Progress, new
  <2> QED BY <2>1, <2>2
<1>5. CASE Truncate(g)
  <2> DEFINE p == NextPath(old.left)
  <2>1. /\ new.doc = old.doc /\ new.outs = old.outs /\ new.pc = "empty" /\ new.left = old.left
        /\ old.pc = "write" /\ old.left # {}
    BY <1>5, Steps DEF Truncate
  <2>2. p \in old.left
    <3>1. \A q \in old.left : Managed(q) BY <1>1 DEF SoundRun
    <3> QED BY <2>1, <3>1, NextPathIn
  <2>3. tree' = Put(tree, p, Empty) /\ disturbed'[g] = disturbed[g]
    BY <1>1, <1>5 DEF Truncate, Disturbs
  <2>4. \A q \in DOMAIN tree : q # p => q \in DOMAIN tree' /\ tree'[q] = tree[q]
    BY <2>3 DEF Put
  <2> HIDE DEF p
  <2> QED BY <2>1, <2>2, <2>3, <2>4 DEF Progress
<1>6. CASE Fill(g)
  <2> DEFINE p == NextPath(old.left)
  <2>1. /\ new.doc = old.doc /\ new.outs = old.outs /\ new.pc = "write" /\ new.left = old.left \ {p}
        /\ old.pc = "empty"
    BY <1>6, Steps DEF Fill
  <2>2. tree' = Put(tree, p, old.outs[p]) /\ disturbed'[g] = disturbed[g]
    BY <1>1, <1>6 DEF Fill, Disturbs
  <2>3. /\ \A q \in DOMAIN tree : q # p => q \in DOMAIN tree' /\ tree'[q] = tree[q]
        /\ p \in DOMAIN tree' /\ tree'[p] = old.outs[p]
    BY <2>2 DEF Put
  <2> HIDE DEF p
  <2> QED BY <2>1, <2>2, <2>3 DEF Progress
<1>7. CASE FindExistingManagedFiles(g)
  <2>1. /\ new.doc = old.doc /\ new.outs = old.outs /\ new.pc = "prune"
        /\ new.orphans = DOMAIN tree \ DOMAIN old.outs
        /\ old.pc = "write" /\ old.left = {} /\ tree' = tree /\ disturbed' = disturbed
    BY <1>7, Steps DEF FindExistingManagedFiles
  <2>2. ~disturbed[g] => \A p \in DOMAIN old.outs : p \in DOMAIN tree /\ tree[p] = old.outs[p]
    BY <2>1 DEF Progress
  <2> QED BY <2>1, <2>2 DEF Progress
<1>8. CASE PruneOne(g)
  <2> DEFINE p == NextPath(old.orphans)
  <2>1. /\ new.doc = old.doc /\ new.outs = old.outs /\ new.pc = "prune"
        /\ new.orphans = old.orphans \ {p} /\ old.pc = "prune" /\ old.orphans # {}
    BY <1>8, Steps DEF PruneOne
  <2>2. p \in old.orphans
    <3>1. \A q \in old.orphans : Managed(q) BY <1>1 DEF SoundRun
    <3> QED BY <2>1, <3>1, NextPathIn
  <2>3. tree' = Without(tree, {p}) /\ disturbed'[g] = disturbed[g]
    BY <1>1, <1>8 DEF PruneOne, Disturbs
  <2>4. DOMAIN tree' = DOMAIN tree \ {p} /\ \A q \in DOMAIN tree' : tree'[q] = tree[q]
    BY <2>3 DEF Without
  <2> HIDE DEF p
  <2>5. /\ new.outs = [q \in DOMAIN new.outs |-> new.outs[q]]
        /\ IsRendering(new.doc, new.outs)
    BY <2>1 DEF Progress
  <2>6. ASSUME ~disturbed[g]
        PROVE  /\ \A q \in DOMAIN new.outs : q \in DOMAIN tree' /\ tree'[q] = new.outs[q]
               /\ DOMAIN tree' = DOMAIN new.outs \cup new.orphans
               /\ DOMAIN new.outs \cap new.orphans = {}
    <3>1. /\ \A q \in DOMAIN old.outs : q \in DOMAIN tree /\ tree[q] = old.outs[q]
          /\ DOMAIN tree = DOMAIN old.outs \cup old.orphans
          /\ DOMAIN old.outs \cap old.orphans = {}
      BY <2>1, <2>6 DEF Progress
    <3> HIDE DEF old, new
    <3>2. /\ DOMAIN tree' = DOMAIN new.outs \cup new.orphans
          /\ DOMAIN new.outs \cap new.orphans = {}
      BY <2>1, <2>2, <2>4, <3>1
    <3>3. \A q \in DOMAIN new.outs : q \in DOMAIN tree' /\ tree'[q] = new.outs[q]
      BY <2>1, <2>4, <3>1, <3>2
    <3> QED BY <3>2, <3>3
  <2>7. new.pc = "prune" /\ disturbed'[g] = disturbed[g] BY <2>1, <2>3
  <2> HIDE DEF old
  <2> QED BY <2>5, <2>6, <2>7 DEF Progress
<1>9. CASE Finish(g)
  <2>1. /\ new.doc = old.doc /\ new.pc = "written" /\ old.pc = "prune" /\ old.orphans = {}
        /\ tree' = tree /\ disturbed' = disturbed
    BY <1>9, Steps DEF Finish
  <2>2. ASSUME ~disturbed[g] PROVE IsRendering(old.doc, tree)
    <3>1. /\ DOMAIN tree = DOMAIN old.outs /\ \A p \in DOMAIN tree : tree[p] = old.outs[p]
          /\ old.outs = [p \in DOMAIN old.outs |-> old.outs[p]]
          /\ IsRendering(old.doc, old.outs)
      BY <2>1, <2>2 DEF Progress
    <3>2. tree = old.outs BY <1>1, <3>1 DEF SoundTree
    <3> QED BY <3>1, <3>2
  <2> QED BY <2>1, <2>2 DEF Progress
<1> QED BY <1>2, <1>3, <1>4, <1>5, <1>6, <1>7, <1>8, <1>9 DEF Generation

LEMMA InitProgress == Init => \A g \in Generators : Progress(g)
<1>1. Idle.pc = "idle" BY DEF Idle
<1> QED BY <1>1 DEF Init, Progress

LEMMA NextProgress ==
    ASSUME Sound, SoundFiles, \A g \in Generators : Progress(g), [Next]_vars
    PROVE  (\A g \in Generators : Progress(g))'
<1>1. SUFFICES ASSUME NEW h \in Generators PROVE Progress(h)' OBVIOUS
<1>2. SoundRuns /\ disturbed \in [Generators -> BOOLEAN] BY DEF Sound
<1>3. ASSUME NEW g \in Generators, Generation(g) PROVE Progress(h)'
  <2>1. CASE g = h BY <1>3, <2>1, ProgressSteps
  <2>2. CASE g # h
    <3>1. gen'[h] = gen[h] BY <1>3, <2>2, Steps
    <3>2. CASE Disturbs(g)
      <4>1. disturbed'[h] BY <2>2, <3>2 DEF Disturbs
      <4> QED BY <3>1, <4>1, ProgressStays
    <3>3. CASE tree' = tree /\ disturbed'[h] = disturbed[h] BY <3>1, <3>3, ProgressStays
    <3>4. CASE Load(g)
      <4>1. tree' = tree /\ disturbed'[h] = disturbed[h] BY <1>2, <2>2, <3>4 DEF Load
      <4> QED BY <3>1, <4>1, ProgressStays
    <3> QED BY <1>3, <3>2, <3>3, <3>4
         DEF Generation, Render, Truncate, Fill, FindExistingManagedFiles, PruneOne, Finish, Stop
  <2> QED BY <2>1, <2>2
<1>4. ASSUME NEW b, PutBlueprint(b) PROVE Progress(h)' BY <1>4, ProgressStays DEF PutBlueprint
<1>5. ASSUME NEW p, NEW k, NEW v, Type(p, k, v) PROVE Progress(h)'
  <2>1. gen' = gen /\ disturbed'[h] BY <1>5 DEF Type
  <2> QED BY <2>1, ProgressStays
<1>6. ASSUME NEW p, Tamper(p) PROVE Progress(h)'
  <2>1. gen' = gen /\ disturbed'[h] BY <1>6 DEF Tamper
  <2> QED BY <2>1, ProgressStays
<1>7. CASE UNCHANGED vars BY <1>7, ProgressStays DEF vars
<1> QED BY <1>3, <1>4, <1>5, <1>6, <1>7 DEF Next

TreeProgress == \A g \in Generators : Progress(g)
THEOREM TreeProgresses == Spec => []TreeProgress
<1>1. Init => TreeProgress BY InitProgress DEF TreeProgress
<1>2. Sound /\ SoundFiles /\ TreeProgress /\ [Next]_vars => TreeProgress'
  BY NextProgress DEF TreeProgress
<1> QED BY <1>1, <1>2, TreeIsSound, FilesAreSound, PTL DEF Spec

AllReadBack == \A b \in Docs : OpenKeysReadBack(b)

(* If no document leaves a number to the operator, and no key is a string  *)
(* in one document and left open as something else in another: whatever    *)
(* earlier runs left behind, a run that completes undisturbed leaves       *)
(* exactly what it would render now, so `cf gen --check` right after       *)
(* exits 0.                                                                *)
THEOREM RunsLeaveInSync == ASSUME AllReadBack PROVE Spec => []WrittenIsInSync
<1>1. Sound /\ TreeProgress => WrittenIsInSync
  <2>1. SUFFICES ASSUME Sound, TreeProgress, NEW g \in Generators, gen[g].pc = "written", ~disturbed[g]
                 PROVE  InSync(gen[g].doc, tree)
    BY DEF WrittenIsInSync
  <2>2. gen[g].doc \in Docs BY <2>1 DEF Sound, SoundRuns, SoundRun
  <2>3. PICK files : (\A p \in DOMAIN files : SoundScalars(files[p]))
                     /\ tree = Outputs(gen[g].doc, files)
    BY <2>1 DEF TreeProgress, Progress, IsRendering
  <2> QED BY <2>2, <2>3, OutputsTwice DEF AllReadBack, InSync
<1> QED BY <1>1, TreeIsSound, TreeProgresses, PTL

-----------------------------------------------------------------------------
(* The operator's values *)

Holds(c, k, v) == c.of = "environment" /\ k \in DOMAIN c.what /\ ReadBack(c.what[k]) = v

(* A text that is there, and that is read back as it is written            *)
Lasting(k, v) == v # "" /\ (TextKey(k) \/ v \notin DOMAIN Reprinted)

Rendered(run, path, k, v) ==
    run.pc \in {"write", "empty", "prune"} => path \in DOMAIN run.outs /\ Holds(run.outs[path], k, v)
Writing(run, path) == run.pc = "empty" /\ NextPath(run.left) = path

(* What a value typed and counted on is worth: the document leaves its key *)
(* open; the file holds it or is being written, with it, by a run; and     *)
(* every run that has rendered has rendered it.                            *)
Survives(e) ==
    LET path == EnvPath(e[1])
        v == ReadBack(typed[e])
    IN
    /\ e = <<e[1], e[2]>> /\ Lasting(e[2], v)
    /\ Open(doc, e[1], e[2])
    /\ path \in DOMAIN tree
    /\ \/ Holds(tree[path], e[2], v)
       \/ tree[path] = Empty /\ \E g \in Generators : Writing(gen[g], path)
    /\ \A g \in Generators : Rendered(gen[g], path, e[2], v)
Survive ==
    /\ DOMAIN typed # {} => \A g \in Generators : Running(g) => gen[g].doc = doc
    /\ \A e \in DOMAIN typed : Survives(e)

(* Validation refuses two environment configs of one name.                 *)
LEMMA OneConfigPerName ==
    ASSUME NEW b \in Docs, ValidEnvironment(b),
           NEW c \in Range(EffectiveEnvironmentConfigs(b)),
           NEW d \in Range(EffectiveEnvironmentConfigs(b)), c.name = d.name
    PROVE  c = d
<1> DEFINE configs == EffectiveEnvironmentConfigs(b)
<1>1. PICK i \in DOMAIN configs : c = configs[i] BY DEF Range
<1>2. PICK j \in DOMAIN configs : d = configs[j] BY DEF Range
<1>3. CASE b.configs # <<>>
  <2>1. configs = [n \in DOMAIN b.configs |-> [b.configs[n] EXCEPT !.name = EffectiveName(b.configs[n])]]
    BY <1>3 DEF EffectiveEnvironmentConfigs
  <2>2. ASSUME NEW n \in DOMAIN b.configs PROVE configs[n].name = EffectiveName(b.configs[n])
    <3>1. b.configs[n] = [name |-> b.configs[n].name, labels |-> b.configs[n].labels,
                          data |-> b.configs[n].data]
      BY DocsAssumption
    <3>2. configs[n] = [b.configs[n] EXCEPT !.name = EffectiveName(b.configs[n])] BY <2>1
    <3> QED BY <3>1, <3>2
  <2>3. i \in DOMAIN b.configs /\ j \in DOMAIN b.configs BY <2>1
  <2> HIDE DEF configs
  <2>4. EffectiveName(b.configs[i]) = EffectiveName(b.configs[j]) BY <1>1, <1>2, <2>2, <2>3
  <2>5. i = j BY <2>3, <2>4 DEF ValidEnvironment, IsInjective
  <2> QED BY <1>1, <1>2, <2>5
<1>4. CASE b.configs = <<>>
  <2>1. \A n \in DOMAIN configs : n = 1 BY <1>4 DEF EffectiveEnvironmentConfigs
  <2> QED BY <1>1, <1>2, <2>1
<1> QED BY <1>3, <1>4

(* A generation reads the value of an open key back and writes it again.   *)
LEMMA OpenIsRendered ==
    ASSUME NEW b \in Docs, Generates(b), NEW name, NEW k, Open(b, name, k),
           NEW files, EnvPath(name) \in DOMAIN files,
           NEW v, Lasting(k, v), Holds(files[EnvPath(name)], k, v)
    PROVE  /\ EnvPath(name) \in DOMAIN Outputs(b, files)
           /\ Holds(Outputs(b, files)[EnvPath(name)], k, v)
<1> DEFINE p == EnvPath(name)
           existing == ReadExistingData(files, p)
           configs == Range(EffectiveEnvironmentConfigs(b))
<1>1. PICK cfg \in configs : cfg.name = name /\ k \notin DOMAIN cfg.data BY DEF Open
<1>2. p[1] = "environmentconfigs" /\ p[2] = name BY DEF EnvPath
<1>3. p \in OutputPaths(b) BY <1>1 DEF OutputPaths
<1>4. ConfigAt(b, p) = cfg
  <2>1. ConfigAt(b, p) \in configs /\ ConfigAt(b, p).name = name BY <1>1, <1>2 DEF ConfigAt
  <2> QED BY <1>1, <2>1, OneConfigPerName DEF Generates
<1>5. k \in DOMAIN existing /\ existing[k] = v
  BY DEF Holds, ReadExistingData
<1>6. k \in DOMAIN b.environment /\ b.environment[k].default = "" BY DEF Open
<1> HIDE DEF existing
<1> DEFINE scalar == FormatEnvVal(b.environment[k].type, v)
<1>7. ReadBack(scalar) = v
  <2>1. CASE IsText(b.environment[k].type) BY <2>1 DEF FormatEnvVal, ReadBack, Quoted
  <2>2. CASE ~IsText(b.environment[k].type)
    <3>1. ~TextKey(k) BY <1>6, <2>2 DEF TextKey
    <3>2. v # "" /\ v \notin DOMAIN Reprinted BY <3>1 DEF Lasting
    <3>3. scalar = Unquoted(v) BY <2>2, <3>2 DEF FormatEnvVal
    <3> HIDE DEF scalar
    <3> QED BY <3>2, <3>3 DEF ReadBack, Unquoted
  <2> QED BY <2>1, <2>2
<1>8. k \in DOMAIN EnvironmentConfig(b, cfg, existing) /\ EnvironmentConfig(b, cfg, existing)[k] = scalar
  BY <1>1, <1>5, <1>6 DEF EnvironmentConfig
<1>9. Outputs(b, files)[p] = Content("environment", EnvironmentConfig(b, cfg, existing))
  BY <1>2, <1>3, <1>4 DEF Outputs, existing
<1>10. Holds(Outputs(b, files)[p], k, v)
  <2> DEFINE env == EnvironmentConfig(b, cfg, existing)
             c == Outputs(b, files)[p]
  <2>1. k \in DOMAIN env /\ ReadBack(env[k]) = v /\ c = Content("environment", env)
    BY <1>7, <1>8, <1>9
  <2> HIDE DEF env, c
  <2>2. c.of = "environment" /\ c.what = env BY <2>1 DEF Content
  <2>3. Holds(c, k, v) BY <2>1, <2>2 DEF Holds
  <2> QED BY <2>3 DEF c
<1> QED BY <1>3, <1>10, OutputsSound

LEMMA Forgotten ==
    ASSUME NEW paths, NEW e \in DOMAIN Forget(paths)
    PROVE  e \in DOMAIN typed /\ EnvPath(e[1]) \notin paths /\ Forget(paths)[e] = typed[e]
  BY DEF Forget

(* A step of one run changes neither the document nor, but for forgetting, *)
(* what is counted on.                                                     *)
LEMMA RunsForget ==
    ASSUME NEW g \in Generators, Generation(g), NEW e \in DOMAIN typed'
    PROVE  e \in DOMAIN typed /\ typed'[e] = typed[e] /\ doc' = doc
<1>1. doc' = doc
  BY DEF Generation, Load, Render, Truncate, Fill, FindExistingManagedFiles, PruneOne, Finish, Stop
<1>2. typed' = typed \/ \E paths : typed' = Forget(paths)
  BY DEF Generation, Load, Render, Truncate, Fill, FindExistingManagedFiles, PruneOne, Finish, Stop
<1>3. CASE typed' = typed BY <1>1, <1>3
<1>4. CASE \E paths : typed' = Forget(paths) BY <1>1, <1>4, Forgotten
<1> QED BY <1>2, <1>3, <1>4

LEMMA RunsOfDoc ==
    ASSUME Sound, Survive, NEW g \in Generators, Generation(g)
    PROVE  DOMAIN typed' # {} => \A h \in Generators : Running(h)' => gen'[h].doc = doc'
<1>1. SUFFICES ASSUME DOMAIN typed' # {}, NEW h \in Generators, Running(h)' PROVE gen'[h].doc = doc'
  OBVIOUS
<1>2. doc' = doc /\ DOMAIN typed # {} BY <1>1, RunsForget
<1>3. CASE h # g
  <2>1. gen'[h] = gen[h] BY <1>3, Steps
  <2> QED BY <1>1, <1>2, <2>1 DEF Running, Survive
<1>4. CASE h = g
  <2>1. CASE Load(g) BY <1>2, <1>4, <2>1, Steps
  <2>2. CASE ~Load(g)
    <3>1. gen'[g].doc = gen[g].doc /\ Running(g)
      BY <1>1, <1>4, <2>2, Steps
      DEF Generation, Running, Render, Truncate, Fill, FindExistingManagedFiles, PruneOne
    <3> QED BY <1>2, <1>4, <3>1 DEF Survive
  <2> QED BY <2>1, <2>2
<1> QED BY <1>3, <1>4

LEMMA SurvivesRuns ==
    ASSUME Sound, Survive, NEW g \in Generators, Generation(g), NEW e \in DOMAIN typed'
    PROVE  Survives(e)'
<1> DEFINE path == EnvPath(e[1])
           k == e[2]
           v == ReadBack(typed[e])
           inFile(files, running) ==
               \/ Holds(files[path], k, v)
               \/ files[path] = Empty /\ \E h \in Generators : Writing(running[h], path)
<1>1. e \in DOMAIN typed /\ ReadBack(typed'[e]) = v /\ doc' = doc BY RunsForget
<1>2. /\ e = <<e[1], e[2]>> /\ Lasting(k, v) /\ Open(doc, e[1], k)
      /\ path \in DOMAIN tree /\ inFile(tree, gen) /\ \A h \in Generators : Rendered(gen[h], path, k, v)
  <2>1. Survives(e) BY <1>1 DEF Survive
  <2> QED BY <2>1 DEF Survives
<1>3. \A h \in Generators : SoundRun(gen[h]) BY DEF Sound, SoundRuns
<1>4. \A h \in Generators : h # g => gen'[h] = gen[h] BY Steps
<1>5. SUFFICES path \in DOMAIN tree' /\ inFile(tree', gen') /\ Rendered(gen'[g], path, k, v)
  BY <1>1, <1>2, <1>4 DEF Survives
<1> USE DEF Rendered, Writing
<1>6. \A h \in Generators : h # g => (Writing(gen[h], path) => Writing(gen'[h], path)) BY <1>4
<1>7. CASE Load(g) \/ FindExistingManagedFiles(g) \/ Finish(g)
  <2>1. tree' = tree /\ gen[g].pc # "empty"
    BY <1>7 DEF Load, FindExistingManagedFiles, Finish, Running
  <2>2. Rendered(gen'[g], path, k, v) BY <1>1, <1>2, <1>7, Steps DEF FindExistingManagedFiles
  <2> QED BY <1>1, <1>2, <1>6, <2>1, <2>2
<1>8. CASE Render(g)
  <2>1. tree' = tree /\ gen[g].pc = "loaded" /\ typed' = Forget({p \in DOMAIN tree : tree[p] = Empty})
    BY <1>8 DEF Render
  <2>2. tree[path] # Empty
    <3> DEFINE gone == {p \in DOMAIN tree : tree[p] = Empty}
    <3>1. typed' = Forget(gone) BY <2>1
    <3>2. path \notin gone
      <4> HIDE DEF gone
      <4> QED BY <3>1, Forgotten
    <3> QED BY <1>2, <3>2
  <2>3. Holds(tree[path], k, v) BY <1>2, <2>2
  <2>4. gen[g].doc = doc BY <1>1, <2>1 DEF Survive, Running
  <2>5. Rendered(gen'[g], path, k, v)
    <3>1. CASE gen'[g].pc = "failed" BY <3>1
    <3>2. CASE gen'[g].pc # "failed"
      <4>1. gen'[g].outs = Outputs(doc, tree) /\ Generates(doc) BY <1>8, <2>4, <3>2, Steps
      <4>2. doc \in Docs BY DEF Sound
      <4>3. path \in DOMAIN Outputs(doc, tree) /\ Holds(Outputs(doc, tree)[path], k, v)
        BY <1>2, <2>3, <4>1, <4>2, OpenIsRendered
      <4> QED BY <1>1, <4>1, <4>3
    <3> QED BY <3>1, <3>2
  <2>6. path \in DOMAIN tree' /\ Holds(tree'[path], k, v) BY <1>1, <1>2, <2>1, <2>3
  <2> QED BY <2>5, <2>6
<1>9. CASE Truncate(g)
  <2> DEFINE p == NextPath(gen[g].left)
  <2>1. /\ gen[g].pc = "write" /\ tree' = Put(tree, p, Empty)
        /\ gen'[g].pc = "empty" /\ gen'[g].left = gen[g].left /\ gen'[g].outs = gen[g].outs
    BY <1>9, Steps DEF Truncate
  <2>2. Rendered(gen'[g], path, k, v) BY <1>1, <1>2, <2>1
  <2>3. p \in DOMAIN tree' /\ tree'[p] = Empty
        /\ \A q \in DOMAIN tree : q # p => q \in DOMAIN tree' /\ tree'[q] = tree[q]
    BY <2>1 DEF Put
  <2>4. CASE p = path BY <2>1, <2>2, <2>3, <2>4
  <2>5. CASE p # path
    <3>1. path \in DOMAIN tree' /\ tree'[path] = tree[path] BY <1>2, <2>3, <2>5
    <3>2. ~Writing(gen[g], path) BY <2>1
    <3> QED BY <1>1, <1>2, <1>6, <2>2, <3>1, <3>2
  <2> QED BY <2>4, <2>5
<1>10. CASE Fill(g)
  <2> DEFINE p == NextPath(gen[g].left)
  <2>1. /\ gen[g].pc = "empty" /\ tree' = Put(tree, p, gen[g].outs[p])
        /\ gen'[g].pc = "write" /\ gen'[g].outs = gen[g].outs
    BY <1>10, Steps DEF Fill
  <2>2. Rendered(gen'[g], path, k, v) BY <1>1, <1>2, <2>1
  <2>3. p \in DOMAIN tree' /\ tree'[p] = gen[g].outs[p]
        /\ \A q \in DOMAIN tree : q # p => q \in DOMAIN tree' /\ tree'[q] = tree[q]
    BY <2>1 DEF Put
  <2>4. CASE p = path
    <3>1. Holds(gen[g].outs[path], k, v) BY <1>1, <1>2, <2>1
    <3> HIDE DEF p
    <3>2. path \in DOMAIN tree' /\ Holds(tree'[path], k, v) BY <2>3, <2>4, <3>1
    <3> QED BY <2>2, <3>2
  <2>5. CASE p # path
    <3>1. path \in DOMAIN tree' /\ tree'[path] = tree[path] BY <1>2, <2>3, <2>5
    <3>2. ~Writing(gen[g], path) BY <2>5
    <3> QED BY <1>1, <1>2, <1>6, <2>2, <3>1, <3>2
  <2> QED BY <2>4, <2>5
<1>11. CASE PruneOne(g)
  <2> DEFINE p == NextPath(gen[g].orphans)
  <2>1. /\ gen[g].pc = "prune" /\ gen[g].orphans # {} /\ tree' = Without(tree, {p})
        /\ gen'[g].outs = gen[g].outs
    BY <1>11, Steps DEF PruneOne
  <2>2. p \in gen[g].orphans
    <3>1. \A q \in gen[g].orphans : Managed(q) BY <1>3 DEF SoundRun
    <3> QED BY <2>1, <3>1, NextPathIn
  <2>3. path \notin gen[g].orphans BY <1>2, <1>3, <2>1 DEF SoundRun
  <2>4. path \in DOMAIN tree' /\ tree'[path] = tree[path] BY <1>2, <2>1, <2>2, <2>3 DEF Without
  <2>5. Rendered(gen'[g], path, k, v) BY <1>1, <1>2, <2>1
  <2> QED BY <1>1, <1>2, <1>6, <2>1, <2>4, <2>5
<1>12. CASE Stop(g)
  <2>1. tree' = tree /\ gen'[g].pc = "failed" BY <1>12, Steps DEF Stop
  <2>2. ~Writing(gen[g], path)
    <3>1. SUFFICES ASSUME Writing(gen[g], path) PROVE FALSE OBVIOUS
    <3>2. typed' = Forget({path}) BY <1>12, <3>1 DEF Stop
    <3> QED BY <3>2, Forgotten
  <2> QED BY <1>1, <1>2, <1>6, <2>1, <2>2
<1> QED BY <1>7, <1>8, <1>9, <1>10, <1>11, <1>12 DEF Generation

LEMMA SurvivesPut ==
    ASSUME Survive, NEW b \in Docs, PutBlueprint(b)
    PROVE  Survive'
<1>1. gen' = gen /\ tree' = tree /\ doc' = b BY DEF PutBlueprint
<1>2. CASE AllAtRest
  <2> DEFINE kept == {e \in DOMAIN typed : Open(b, e[1], e[2])}
  <2>1. typed' = [e \in kept |-> typed[e]] BY <1>2 DEF PutBlueprint
  <2>2. ASSUME NEW e \in DOMAIN typed' PROVE Survives(e)'
    <3>1. Survives(e) /\ typed'[e] = typed[e] /\ Open(doc', e[1], e[2]) BY <1>1, <2>1, <2>2 DEF Survive
    <3> QED BY <1>1, <3>1 DEF Survives
  <2>3. \A g \in Generators : ~Running(g)' BY <1>1, <1>2 DEF AllAtRest, Running
  <2> QED BY <2>2, <2>3 DEF Survive
<1>3. CASE ~AllAtRest
  <2>1. typed' = <<>> BY <1>3 DEF PutBlueprint
  <2>2. DOMAIN typed' = {} BY <2>1
  <2> QED BY <2>2 DEF Survive
<1> QED BY <1>2, <1>3

LEMMA SurvivesType ==
    ASSUME SoundFiles, Survive, NEW p \in DOMAIN tree, NEW k, NEW v \in Values,
           Type(p, k, v)
    PROVE  Survive'
<1> DEFINE entry == <<p[2], k>>
<1>1. /\ gen' = gen /\ doc' = doc /\ tree' = [tree EXCEPT ![p].what[k] = v]
      /\ tree[p].of = "environment" /\ k \in DOMAIN tree[p].what
  BY DEF Type
<1>2. /\ p = EnvPath(p[2]) /\ tree[p] = [f \in {"of", "what"} |-> tree[p][f]]
      /\ tree[p].what = [q \in DOMAIN tree[p].what |-> tree[p].what[q]]
  BY <1>1 DEF SoundFiles, SoundFile
<1>3. DOMAIN tree' = DOMAIN tree /\ tree'[p] = [tree[p] EXCEPT !.what[k] = v]
      /\ \A q \in DOMAIN tree : q # p => tree'[q] = tree[q]
  BY <1>1
<1>4. tree'[p].of = "environment" /\ tree'[p].what = [tree[p].what EXCEPT ![k] = v]
  BY <1>1, <1>2, <1>3
<1>5. /\ DOMAIN tree'[p].what = DOMAIN tree[p].what /\ tree'[p].what[k] = v
      /\ \A q \in DOMAIN tree[p].what : q # k => tree'[p].what[q] = tree[p].what[q]
  BY <1>1, <1>2, <1>4
<1>6. ASSUME NEW e \in DOMAIN typed, e # entry, typed'[e] = typed[e] PROVE Survives(e)'
  <2> DEFINE path == EnvPath(e[1])
             value == ReadBack(typed[e])
  <2>1. Survives(e) BY DEF Survive
  <2>2. /\ e = <<e[1], e[2]>> /\ Lasting(e[2], value) /\ Open(doc, e[1], e[2]) /\ path \in DOMAIN tree
        /\ \/ Holds(tree[path], e[2], value)
           \/ tree[path] = Empty /\ \E g \in Generators : Writing(gen[g], path)
        /\ \A g \in Generators : Rendered(gen[g], path, e[2], value)
    BY <2>1 DEF Survives
  <2>3. CASE path # p
    <3>1. tree'[path] = tree[path] BY <1>3, <2>2, <2>3
    <3> QED BY <1>1, <1>3, <1>6, <2>2, <3>1 DEF Survives
  <2>4. CASE path = p
    <3>1. tree[p] # Empty BY <1>1 DEF Empty
    <3>2. Holds(tree[p], e[2], value) BY <2>2, <2>4, <3>1
    <3>3. e[1] = p[2] BY <1>2, <2>4 DEF EnvPath
    <3>4. e[2] # k BY <1>6, <2>2, <3>3
    <3>5. Holds(tree'[p], e[2], value) BY <1>4, <1>5, <3>2, <3>4 DEF Holds
    <3> QED BY <1>1, <1>3, <1>6, <2>2, <2>4, <3>5 DEF Survives
  <2> QED BY <2>3, <2>4
<1>7. CASE AllAtRest /\ Open(doc, p[2], k)
  <2>1. typed' = Put(typed, entry, v) BY <1>7 DEF Type
  <2>2. \A g \in Generators : ~Running(g) /\ ~Running(g)' BY <1>1, <1>7 DEF AllAtRest, Running
  <2>3. DOMAIN typed' = DOMAIN typed \cup {entry} /\ typed'[entry] = v
        /\ \A e \in DOMAIN typed : e # entry => typed'[e] = typed[e]
    BY <2>1 DEF Put
  <2>4. Survives(entry)'
    <3>1. entry[1] = p[2] /\ entry[2] = k /\ entry = <<entry[1], entry[2]>> OBVIOUS
    <3> DEFINE read == ReadBack(v)
    <3>2. Holds(tree'[p], k, read) BY <1>1, <1>4, <1>5 DEF Holds
    <3>3. \A g \in Generators : Rendered(gen'[g], p, k, read) BY <1>1, <2>2 DEF Rendered, Running
    <3>4. Lasting(k, read)
      <4>1. v.quoted => TextKey(k) BY DEF Type
      <4>2. read # "" BY ValuesAssumption DEF ReadBack
      <4> QED BY <4>1, <4>2, UnquotedRead DEF Lasting
    <3> HIDE DEF entry, read
    <3>5. EnvPath(entry[1]) = p /\ ReadBack(typed'[entry]) = read BY <1>2, <2>3, <3>1 DEF read
    <3>6. p \in DOMAIN tree' /\ Open(doc', p[2], k) BY <1>1, <1>3, <1>7
    <3> QED BY <3>1, <3>2, <3>3, <3>4, <3>5, <3>6 DEF Survives
  <2>5. ASSUME NEW e \in DOMAIN typed' PROVE Survives(e)'
    <3>1. CASE e = entry BY <2>4, <3>1
    <3>2. CASE e # entry BY <1>6, <2>3, <3>2
    <3> QED BY <3>1, <3>2
  <2> QED BY <2>2, <2>5 DEF Survive
<1>8. CASE ~(AllAtRest /\ Open(doc, p[2], k))
  <2>1. typed' = Without(typed, {entry}) BY <1>8 DEF Type
  <2>2. \A e \in DOMAIN typed' : e \in DOMAIN typed /\ e # entry /\ typed'[e] = typed[e]
    BY <2>1 DEF Without
  <2>3. \A e \in DOMAIN typed' : Survives(e)' BY <1>6, <2>2
  <2>4. \A g \in Generators : Running(g)' => Running(g) BY <1>1 DEF Running
  <2> QED BY <1>1, <2>2, <2>3, <2>4 DEF Survive
<1> QED BY <1>7, <1>8

LEMMA SurvivesTamper ==
    ASSUME Survive, NEW p, Tamper(p)
    PROVE  Survive'
<1>1. gen' = gen /\ doc' = doc /\ typed' = Forget({p}) /\ tree' \in {Put(tree, p, Foreign), Without(tree, {p})}
  BY DEF Tamper
<1>2. \A q \in DOMAIN tree : q # p => q \in DOMAIN tree' /\ tree'[q] = tree[q]
  BY <1>1 DEF Put, Without
<1>3. ASSUME NEW e \in DOMAIN typed' PROVE e \in DOMAIN typed /\ Survives(e)'
  <2>1. e \in DOMAIN typed /\ EnvPath(e[1]) # p /\ typed'[e] = typed[e]
    BY <1>1, <1>3, Forgotten
  <2>2. Survives(e) BY <2>1 DEF Survive
  <2>3. EnvPath(e[1]) \in DOMAIN tree' /\ tree'[EnvPath(e[1])] = tree[EnvPath(e[1])]
    BY <1>2, <2>1, <2>2 DEF Survives
  <2> QED BY <1>1, <2>1, <2>2, <2>3 DEF Survives
<1>4. \A g \in Generators : Running(g)' => Running(g) BY <1>1 DEF Running
<1> QED BY <1>1, <1>3, <1>4 DEF Survive

LEMMA InitSurvive == Init => Survive
<1>1. DOMAIN <<>> = {} OBVIOUS
<1> QED BY <1>1 DEF Init, Survive

LEMMA NextSurvive ==
    ASSUME Sound, SoundFiles, Survive, [Next]_vars
    PROVE  Survive'
<1>1. ASSUME NEW g \in Generators, Generation(g) PROVE Survive'
  <2>1. \A e \in DOMAIN typed' : Survives(e)' BY <1>1, SurvivesRuns
  <2>2. DOMAIN typed' # {} => \A h \in Generators : Running(h)' => gen'[h].doc = doc'
    BY <1>1, RunsOfDoc
  <2> QED BY <2>1, <2>2 DEF Survive
<1>2. CASE UNCHANGED vars BY <1>2 DEF vars, Survive, Survives, Running
<1> QED BY <1>1, <1>2, SurvivesPut, SurvivesType, SurvivesTamper DEF Next

(* A value typed for a key the document leaves open survives every         *)
(* generation of the server and of `cf gen`, complete or stopped, as it    *)
(* was typed or as it is printed when it is read (1.0 as 1), unless one    *)
(* stops with that very file empty or the other renders while it is.       *)
THEOREM TypedSurvives == Spec => []ValuesSurvive
<1>1. Init => Survive BY InitSurvive
<1>2. Sound /\ SoundFiles /\ Survive /\ [Next]_vars => Survive' BY NextSurvive
<1>3. Survive => ValuesSurvive
  <2>1. SUFFICES ASSUME Survive, AllAtRest, NEW e \in DOMAIN typed
                 PROVE  /\ EnvPath(e[1]) \in DOMAIN tree
                        /\ Holds(tree[EnvPath(e[1])], e[2], ReadBack(typed[e]))
    BY DEF ValuesSurvive, Holds
  <2>2. Survives(e) BY <2>1 DEF Survive
  <2>3. \A g \in Generators : ~Writing(gen[g], EnvPath(e[1]))
    BY <2>1 DEF AllAtRest, Running, Writing
  <2> QED BY <2>2, <2>3 DEF Survives
<1> QED BY <1>1, <1>2, <1>3, TreeIsSound, FilesAreSound, PTL DEF Spec

-----------------------------------------------------------------------------
(* The pipeline of every document *)

(* The document with other steps                                           *)
LEMMA WithPipeline ==
    ASSUME NEW b \in Docs, NEW steps
    PROVE  LET new == [b EXCEPT !.pipeline = steps] IN
           /\ new.pipeline = steps /\ new.configs = b.configs
           /\ \A i \in DOMAIN new.configs : LET cfg == new.configs[i] IN
                 cfg = [name |-> cfg.name, labels |-> cfg.labels, data |-> cfg.data]
<1> DEFINE new == [b EXCEPT !.pipeline = steps]
<1>1. "pipeline" \in DOMAIN b /\ "configs" \in DOMAIN b BY DocsAssumption
<1>2. new.pipeline = steps /\ new.configs = b.configs BY <1>1
<1> HIDE DEF new
<1> QED BY <1>2, DocsAssumption DEF new

(* Crossplane is given every step the author declared, under a name of its *)
(* own and on the side its position names, for pipelines of any length.    *)
THEOREM DeclaredStepsAreKept == Spec => []StepsKept
<1>1. Sound => StepsKept
  <2>1. SUFFICES ASSUME Sound, NEW steps \in DeclaredPipelines,
                        ValidPipeline([doc EXCEPT !.pipeline = steps])
                 PROVE  DeclaredStepsKept([doc EXCEPT !.pipeline = steps])
    BY DEF StepsKept, Assembled
  <2> DEFINE b == [doc EXCEPT !.pipeline = steps]
  <2>2. b.pipeline = steps BY <2>1, WithPipeline DEF Sound
  <2> HIDE DEF b
  <2>3. ValidPipeline(b) BY <2>1 DEF b
  <2>4. DeclaredStepsKept(b) BY <2>2, <2>3, StepsAreKept
  <2> QED BY <2>4 DEF b
<1> QED BY <1>1, TreeIsSound, PTL

(* Every function a step runs is installed, once, with the package the     *)
(* step names, and the configuration depends on the path of that package   *)
(* once, at the version of the function that names it first.               *)
THEOREM FunctionsAreInstalled == Spec => []FunctionsInstalled
<1>1. Sound => FunctionsInstalled
  <2>1. SUFFICES ASSUME Sound, NEW steps \in DeclaredPipelines,
                        ValidPipeline([doc EXCEPT !.pipeline = steps])
                 PROVE  FunctionsDeclared([doc EXCEPT !.pipeline = steps])
    BY DEF FunctionsInstalled, Assembled
  <2> DEFINE b == [doc EXCEPT !.pipeline = steps]
  <2>2. b.pipeline = steps BY <2>1, WithPipeline DEF Sound
  <2> HIDE DEF b
  <2>3. ValidPipeline(b) BY <2>1 DEF b
  <2>4. FunctionsDeclared(b) BY <2>2, <2>3, FunctionsAreDeclared
  <2> QED BY <2>4 DEF b
<1> QED BY <1>1, TreeIsSound, PTL

(* The environment is loaded before the templates read it, by a step that  *)
(* finds every config emitted unless the author wrote its input.           *)
THEOREM EnvironmentIsReadable == Spec => []EnvironmentReadable
<1>1. Sound => EnvironmentReadable
  <2>1. SUFFICES ASSUME Sound, NEW steps \in DeclaredPipelines,
                        ValidPipeline([doc EXCEPT !.pipeline = steps])
                 PROVE  EnvironmentLoaded([doc EXCEPT !.pipeline = steps])
    BY DEF EnvironmentReadable, Assembled
  <2> DEFINE b == [doc EXCEPT !.pipeline = steps]
  <2>2. /\ b.pipeline = steps
        /\ \A i \in DOMAIN b.configs : LET cfg == b.configs[i] IN
              cfg = [name |-> cfg.name, labels |-> cfg.labels, data |-> cfg.data]
    BY <2>1, WithPipeline DEF Sound
  <2> HIDE DEF b
  <2>3. ValidPipeline(b) BY <2>1 DEF b
  <2>4. EnvironmentLoaded(b) BY <2>2, <2>3, EnvironmentIsLoaded
  <2> QED BY <2>4 DEF b
<1> QED BY <1>1, TreeIsSound, PTL

-----------------------------------------------------------------------------
(* The ConfigMaps of the templates *)

Sized(T) == \A e \in T : e.size \in Nat

(* f is the size of each prefix of a group.                                *)
SummedAlong(s, f) ==
    /\ f[0] = 0 /\ f[Len(s)] = GroupSize(s)
    /\ \A i \in 1..Len(s) : f[i] = f[i - 1] + s[i].size

LEMMA SummedFold ==
    ASSUME NEW T, Sized(T), NEW s \in Seq(T)
    PROVE  \E f \in [0..Len(s) -> Nat] : SummedAlong(s, f)
<1> DEFINE n == Len(s)
           step == [x \in (1..n) \X Nat |-> x[2] + s[x[1]].size]
           Body(it) == it = [S \in SUBSET DOMAIN s |->
                               IF S = {} THEN 0 ELSE it[S \ {Max(S)}] + s[Max(S)].size]
           it == CHOOSE it : Body(it)
           f == [i \in 0..n |-> it[1..i]]
<1>1. n \in Nat /\ DOMAIN s = 1..n /\ \A i \in 1..n : s[i].size \in Nat
  BY LenProperties, ElementOfSeq DEF Sized
<1>2. step \in [(1..n) \X Nat -> Nat]
  <2>1. ASSUME NEW x \in (1..n) \X Nat PROVE x[2] + s[x[1]].size \in Nat
    <3>1. x[2] \in Nat /\ x[1] \in 1..n OBVIOUS
    <3> HIDE DEF n
    <3> QED BY <1>1, <3>1
  <2> QED BY <2>1
<1>3. PICK one \in [SUBSET (1..n) -> Nat] : Unfolds(n, 0, step, one)
  <2> HIDE DEF n, step
  <2> QED BY <1>1, <1>2, Iterates
<1>4. Body(one)
  <2>1. ASSUME NEW S \in SUBSET (1..n), S # {}
        PROVE  one[S] = one[S \ {Max(S)}] + s[Max(S)].size
    <3>1. Max(S) \in 1..n BY <1>1, <2>1, Greatest
    <3>2. <<Max(S), one[S \ {Max(S)}]>> \in (1..n) \X Nat BY <3>1
    <3>3. one[S] = step[<<Max(S), one[S \ {Max(S)}]>>] BY <1>3, <2>1 DEF Unfolds
    <3> QED BY <3>2, <3>3
  <2>2. one[{}] = 0 BY <1>3 DEF Unfolds
  <2> QED BY <1>1, <1>3, <2>1, <2>2
<1>5. Body(it)
  <2> HIDE DEF Body
  <2> QED BY <1>4
<1>6. GroupSize(s) = it[1..n] BY <1>1 DEF GroupSize, FoldLeft, MapThenFoldSet
<1> HIDE DEF it
<1>7. f[0] = 0
  <2>1. 1..0 = {} OBVIOUS
  <2> QED BY <1>1, <1>5, <2>1
<1>8. ASSUME NEW i \in 1..n PROVE f[i] = f[i - 1] + s[i].size
  <2>1. 1..i \in SUBSET (1..n) /\ 1..i # {} /\ Max(1..i) = i /\ (1..i) \ {i} = 1..(i - 1)
    BY <1>1, Ranges
  <2>2. it[1..i] = it[1..(i - 1)] + s[i].size
    <3>1. it[1..i] = it[(1..i) \ {Max(1..i)}] + s[Max(1..i)].size BY <1>1, <1>5, <2>1
    <3> HIDE DEF Body
    <3> QED BY <2>1, <3>1
  <2>3. i - 1 \in 0..n /\ i \in 0..n BY <1>1
  <2> QED BY <2>2, <2>3
<1>9. f = [i \in 0..n |-> f[i]] /\ f[n] = it[1..n] BY <1>1
<1> HIDE DEF f
<1>10. \A i \in 0..n : f[i] \in Nat
  <2> HIDE DEF n
  <2>1. \A i \in 1..n : f[i - 1] \in Nat => f[i] \in Nat BY <1>1, <1>8
  <2>2. f[0] \in Nat BY <1>7
  <2> QED BY <1>1, <2>1, <2>2, Throughout
<1> QED BY <1>6, <1>7, <1>8, <1>9, <1>10 DEF SummedAlong

LEMMA GroupSizes ==
    ASSUME NEW T, Sized(T), NEW s \in Seq(T), NEW e \in T
    PROVE  GroupSize(s) \in Nat /\ GroupSize(Append(s, e)) = GroupSize(s) + e.size
<1> DEFINE longer == Append(s, e)
           n == Len(s)
<1>1. n \in Nat BY LenProperties
<1>2. longer \in Seq(T) /\ Len(longer) = n + 1 /\ longer[n + 1] = e /\ \A i \in 1..n : longer[i] = s[i]
  BY AppendProperties
<1> HIDE DEF longer
<1>3. PICK f \in [0..n -> Nat] : SummedAlong(s, f) BY SummedFold
<1>4. PICK g \in [0..Len(longer) -> Nat] : SummedAlong(longer, g) BY <1>2, SummedFold
<1> DEFINE Fails == {i \in 0..n : f[i] # g[i]}
<1>5. 0 \notin Fails BY <1>3, <1>4 DEF SummedAlong
<1>6. ASSUME NEW i \in 1..n, i - 1 \notin Fails PROVE i \notin Fails
  <2>1. i - 1 \in 0..n /\ i \in 1..n + 1 BY <1>1
  <2>2. f[i - 1] = g[i - 1] BY <1>6, <2>1
  <2>3. f[i] = f[i - 1] + s[i].size BY <1>3 DEF SummedAlong
  <2>4. g[i] = g[i - 1] + longer[i].size BY <1>2, <1>4, <2>1 DEF SummedAlong
  <2>5. f[i] = g[i] BY <1>2, <2>2, <2>3, <2>4
  <2> QED BY <2>5
<1>7. Fails = {}
  <2>1. Fails \subseteq 0..n OBVIOUS
  <2> HIDE DEF Fails, n
  <2> QED BY <1>1, <1>5, <1>6, <2>1, NoneFails
<1>8. n \in 0..n /\ n + 1 \in 1..n + 1 /\ (n + 1) - 1 = n BY <1>1
<1>9. f[n] = g[n] BY <1>7, <1>8
<1>10. f[n] = GroupSize(s) /\ f[n] \in Nat BY <1>3, <1>8 DEF SummedAlong
<1>11. g[n + 1] = GroupSize(longer) /\ g[n + 1] = g[n] + e.size
  <2> HIDE DEF n
  <2> QED BY <1>2, <1>4, <1>8 DEF SummedAlong
<1> QED BY <1>9, <1>10, <1>11 DEF longer

LEMMA GroupOfOne == ASSUME NEW T, Sized(T), NEW e \in T PROVE GroupSize(<<e>>) = e.size
<1>1. <<>> \in Seq(T) /\ Append(<<>>, e) = <<e>> /\ Len(<<>>) = 0 OBVIOUS
<1>2. PICK f \in [0..0 -> Nat] : SummedAlong(<<>>, f) BY <1>1, SummedFold
<1>3. GroupSize(<<>>) = 0 BY <1>1, <1>2 DEF SummedAlong
<1>4. GroupSize(<<e>>) = GroupSize(<<>>) + e.size BY <1>1, GroupSizes
<1> QED BY <1>3, <1>4 DEF Sized

(* f is what each prefix of some sequences gives end to end.               *)
FlattenedAlong(seqs, f) ==
    /\ f[0] = <<>> /\ f[Len(seqs)] = FlattenSeq(seqs)
    /\ \A i \in 1..Len(seqs) : f[i] = f[i - 1] \o seqs[i]

LEMMA FlattenedFold ==
    ASSUME NEW T, NEW seqs \in Seq(Seq(T))
    PROVE  \E f \in [0..Len(seqs) -> Seq(T)] : FlattenedAlong(seqs, f)
<1> DEFINE n == Len(seqs)
           step == [x \in (1..n) \X Seq(T) |-> x[2] \o seqs[x[1]]]
           Body(flatten) == flatten = [i \in 1..n |->
                                         IF i = 1 THEN seqs[i] ELSE flatten[i - 1] \o seqs[i]]
           flatten == CHOOSE flatten : Body(flatten)
           f == [i \in 0..n |-> IF i = 0 THEN <<>> ELSE flatten[i]]
<1>1. n \in Nat /\ \A i \in 1..n : seqs[i] \in Seq(T) BY LenProperties, ElementOfSeq
<1>2. step \in [(1..n) \X Seq(T) -> Seq(T)]
  <2>1. ASSUME NEW x \in (1..n) \X Seq(T) PROVE x[2] \o seqs[x[1]] \in Seq(T)
    <3>1. x[2] \in Seq(T) /\ seqs[x[1]] \in Seq(T) BY <1>1
    <3> QED BY <3>1, ConcatProperties
  <2> QED BY <2>1
<1>3. <<>> \in Seq(T) OBVIOUS
<1>4. PICK one \in [SUBSET (1..n) -> Seq(T)] : Unfolds(n, <<>>, step, one)
  <2> HIDE DEF n, step
  <2> QED BY <1>1, <1>2, <1>3, Iterates
<1> DEFINE two == [i \in 1..n |-> one[1..i]]
<1>5. Body(two)
  <2>1. ASSUME NEW i \in 1..n
        PROVE  one[1..i] = IF i = 1 THEN seqs[i] ELSE two[i - 1] \o seqs[i]
    <3>1. 1..i \in SUBSET (1..n) /\ 1..i # {} /\ Max(1..i) = i /\ (1..i) \ {i} = 1..(i - 1)
      BY <1>1, Ranges
    <3>2. 1..(i - 1) \in SUBSET (1..n) BY <1>1
    <3>3. <<i, one[1..(i - 1)]>> \in (1..n) \X Seq(T) BY <3>2
    <3>4. one[1..i] = step[<<i, one[1..(i - 1)]>>]
      <4> HIDE DEF step, n
      <4>1. one[1..i] = step[<<Max(1..i), one[(1..i) \ {Max(1..i)}]>>] BY <1>4, <3>1 DEF Unfolds
      <4> QED BY <3>1, <4>1
    <3>5. one[1..i] = one[1..(i - 1)] \o seqs[i] BY <3>3, <3>4
    <3>6. CASE i = 1
      <4>1. one[1..0] = <<>>
        <5>1. 1..0 = {} OBVIOUS
        <5> QED BY <1>4, <5>1 DEF Unfolds
      <4>2. one[1..i] = <<>> \o seqs[i] BY <3>5, <3>6, <4>1
      <4>3. <<>> \o seqs[i] = seqs[i] BY <1>1, ConcatEmptySeq
      <4> QED BY <3>6, <4>2, <4>3
    <3>7. CASE i # 1
      <4>1. i - 1 \in 1..n BY <1>1, <3>7
      <4>2. two[i - 1] = one[1..(i - 1)] BY <4>1
      <4> QED BY <3>5, <3>7, <4>2
    <3> QED BY <3>6, <3>7
  <2> QED BY <2>1
<1>6. Body(flatten)
  <2> HIDE DEF Body
  <2> QED BY <1>5
<1>7. FlattenSeq(seqs) = IF n = 0 THEN <<>> ELSE flatten[n]
  <2>1. n = 0 => seqs = <<>> BY <1>1
  <2> QED BY <2>1 DEF FlattenSeq
<1> HIDE DEF flatten
<1>8. ASSUME NEW i \in 1..n PROVE f[i] = f[i - 1] \o seqs[i]
  <2>1. flatten[i] = IF i = 1 THEN seqs[i] ELSE flatten[i - 1] \o seqs[i] BY <1>6
  <2>2. i \in 0..n /\ i - 1 \in 0..n /\ (i - 1 = 0 <=> i = 1) BY <1>1
  <2>3. <<>> \o seqs[i] = seqs[i] BY <1>1, ConcatEmptySeq
  <2>4. f[i] = flatten[i] /\ f[i - 1] = IF i = 1 THEN <<>> ELSE flatten[i - 1] BY <2>2
  <2> HIDE DEF Body, f
  <2> QED BY <2>1, <2>3, <2>4
<1>9. f = [i \in 0..n |-> f[i]] /\ f[0] = <<>> /\ f[n] = FlattenSeq(seqs) BY <1>1, <1>7
<1> HIDE DEF f
<1>10. \A i \in 0..n : f[i] \in Seq(T)
  <2> HIDE DEF n
  <2>1. ASSUME NEW i \in 1..n, f[i - 1] \in Seq(T) PROVE f[i] \in Seq(T)
    <3>1. f[i - 1] \o seqs[i] \in Seq(T) BY <1>1, <2>1, ConcatProperties
    <3> QED BY <1>8, <3>1
  <2>2. f[0] \in Seq(T) BY <1>3, <1>9
  <2> QED BY <1>1, <2>1, <2>2, Throughout
<1> QED BY <1>8, <1>9, <1>10 DEF FlattenedAlong

LEMMA Flattened ==
    ASSUME NEW T, NEW seqs \in Seq(Seq(T)), NEW s \in Seq(T)
    PROVE  /\ FlattenSeq(seqs) \in Seq(T)
           /\ FlattenSeq(Append(seqs, s)) = FlattenSeq(seqs) \o s
<1> DEFINE longer == Append(seqs, s)
           n == Len(seqs)
<1>1. n \in Nat BY LenProperties
<1>2. longer \in Seq(Seq(T)) /\ Len(longer) = n + 1 /\ longer[n + 1] = s
  BY AppendProperties
<1>3. \A i \in 1..n : longer[i] = seqs[i] BY AppendProperties
<1> HIDE DEF longer
<1>4. PICK f \in [0..n -> Seq(T)] : FlattenedAlong(seqs, f) BY FlattenedFold
<1>5. PICK g \in [0..Len(longer) -> Seq(T)] : FlattenedAlong(longer, g) BY <1>2, FlattenedFold
<1> DEFINE Fails == {i \in 0..n : f[i] # g[i]}
<1>6. 0 \notin Fails BY <1>4, <1>5 DEF FlattenedAlong
<1>7. ASSUME NEW i \in 1..n, i - 1 \notin Fails PROVE i \notin Fails
  <2>1. i - 1 \in 0..n /\ i \in 1..n + 1 BY <1>1
  <2>2. f[i - 1] = g[i - 1] BY <1>7, <2>1
  <2>3. f[i] = f[i - 1] \o seqs[i] BY <1>4 DEF FlattenedAlong
  <2>4. g[i] = g[i - 1] \o longer[i] BY <1>2, <1>5, <2>1 DEF FlattenedAlong
  <2>5. longer[i] = seqs[i] BY <1>3
  <2>6. f[i] = g[i] BY <2>2, <2>3, <2>4, <2>5
  <2> QED BY <2>6
<1>8. Fails = {}
  <2>1. Fails \subseteq 0..n OBVIOUS
  <2> HIDE DEF Fails, n
  <2> QED BY <1>1, <1>6, <1>7, <2>1, NoneFails
<1>9. n \in 0..n /\ n + 1 \in 1..n + 1 /\ (n + 1) - 1 = n BY <1>1
<1>10. f[n] = g[n] BY <1>8, <1>9
<1>11. f[n] = FlattenSeq(seqs) /\ f[n] \in Seq(T) BY <1>4, <1>9 DEF FlattenedAlong
<1>12. g[n + 1] = FlattenSeq(longer) /\ g[n + 1] = g[n] \o s
  <2> HIDE DEF n
  <2> QED BY <1>2, <1>5, <1>9 DEF FlattenedAlong
<1> QED BY <1>10, <1>11, <1>12 DEF longer

(* One more file, in a group of its own or at the end of the last one.     *)
LEMMA FlattenedOneMore ==
    ASSUME NEW T, NEW groups \in Seq(Seq(T)), NEW e \in T
    PROVE  /\ FlattenSeq(Append(groups, <<e>>)) = Append(FlattenSeq(groups), e)
           /\ groups # <<>> =>
                 /\ Front(groups) \in Seq(Seq(T)) /\ Last(groups) \in Seq(T)
                 /\ Len(Front(groups)) = Len(groups) - 1 /\ Len(groups) \in Nat \ {0}
                 /\ \A i \in 1..Len(groups) - 1 : Front(groups)[i] = groups[i]
                 /\ FlattenSeq(Append(Front(groups), Append(Last(groups), e))) = Append(FlattenSeq(groups), e)
<1>1. <<e>> \in Seq(T) OBVIOUS
<1>2. FlattenSeq(Append(groups, <<e>>)) = Append(FlattenSeq(groups), e)
  <2>1. FlattenSeq(groups) \in Seq(T) /\ FlattenSeq(Append(groups, <<e>>)) = FlattenSeq(groups) \o <<e>>
    BY <1>1, Flattened
  <2> QED BY <2>1, AppendIsConcat
<1>3. ASSUME groups # <<>>
      PROVE  /\ Front(groups) \in Seq(Seq(T)) /\ Last(groups) \in Seq(T)
             /\ Len(Front(groups)) = Len(groups) - 1 /\ Len(groups) \in Nat \ {0}
             /\ \A i \in 1..Len(groups) - 1 : Front(groups)[i] = groups[i]
             /\ FlattenSeq(Append(Front(groups), Append(Last(groups), e))) = Append(FlattenSeq(groups), e)
  <2> DEFINE n == Len(groups)
             front == Front(groups)
             last == Last(groups)
  <2>1. n \in Nat \ {0} /\ \A i \in 1..n : groups[i] \in Seq(T) BY <1>3, EmptySeq, ElementOfSeq
  <2>2. last \in Seq(T) /\ last = groups[n] BY <2>1 DEF Last
  <2>3. front \in Seq(Seq(T)) /\ Len(front) = n - 1 /\ \A i \in 1..n - 1 : front[i] = groups[i]
    <3>1. 1 \in Int /\ n - 1 \in Int /\ \A i \in 1..n - 1 : groups[i] \in Seq(T) BY <2>1
    <3> HIDE DEF n
    <3>2. /\ SubSeq(groups, 1, n - 1) \in Seq(Seq(T))
          /\ Len(SubSeq(groups, 1, n - 1)) = IF 1 <= n - 1 THEN (n - 1) - 1 + 1 ELSE 0
          /\ \A i \in 1..(n - 1) - 1 + 1 : SubSeq(groups, 1, n - 1)[i] = groups[1 + i - 1]
      BY <3>1, SubSeqProperties
    <3>3. front = SubSeq(groups, 1, n - 1) BY DEF Front, n
    <3> HIDE DEF front
    <3> QED BY <2>1, <3>2, <3>3
  <2> HIDE DEF front, last
  <2>4. groups = Append(front, last)
    <3>1. Append(front, last) \in Seq(Seq(T)) /\ Len(Append(front, last)) = n BY <2>1, <2>2, <2>3, AppendProperties
    <3>2. \A i \in 1..n : Append(front, last)[i] = groups[i] BY <2>1, <2>2, <2>3, AppendProperties
    <3> QED BY <3>1, <3>2, SeqEqual
  <2>5. Append(last, e) \in Seq(T) BY <2>2, AppendProperties
  <2>6. FlattenSeq(front) \in Seq(T) /\ FlattenSeq(Append(front, last)) = FlattenSeq(front) \o last
    BY <2>2, <2>3, Flattened
  <2>7. FlattenSeq(Append(front, Append(last, e))) = FlattenSeq(front) \o Append(last, e)
    BY <2>3, <2>5, Flattened
  <2>8. FlattenSeq(front) \o Append(last, e) = Append(FlattenSeq(front) \o last, e)
    <3>1. Append(last, e) = last \o <<e>> BY <2>2, AppendIsConcat
    <3>2. FlattenSeq(front) \o (last \o <<e>>) = (FlattenSeq(front) \o last) \o <<e>>
      <4> DEFINE one == <<e>>
                 flat == FlattenSeq(front)
      <4>1. one \in Seq(T) /\ flat \in Seq(T) /\ last \in Seq(T) BY <1>1, <2>2, <2>6
      <4> HIDE DEF one, flat
      <4>2. (flat \o last) \o one = flat \o (last \o one) BY <4>1, ConcatAssociative
      <4> QED BY <4>2 DEF one, flat
    <3>3. FlattenSeq(front) \o last \in Seq(T) BY <2>2, <2>6, ConcatProperties
    <3>4. (FlattenSeq(front) \o last) \o <<e>> = Append(FlattenSeq(front) \o last, e) BY <3>3, AppendIsConcat
    <3> QED BY <3>1, <3>2, <3>4
  <2>9. FlattenSeq(Append(front, Append(last, e))) = Append(FlattenSeq(groups), e)
    BY <2>4, <2>6, <2>7, <2>8
  <2> QED BY <2>1, <2>2, <2>3, <2>9 DEF front, last
<1> QED BY <1>2, <1>3

(* f is the groups after each file.                                        *)
PackedAlong(files, f) ==
    /\ f[0] = <<>> /\ f[Len(files)] = PackTemplateCMs(files)
    /\ \A i \in 1..Len(files) :
          f[i] = IF f[i - 1] = <<>> \/ GroupSize(Last(f[i - 1])) + files[i].size > TemplateCMCap
                 THEN Append(f[i - 1], <<files[i]>>)
                 ELSE Append(Front(f[i - 1]), Append(Last(f[i - 1]), files[i]))

LEMMA PackedFold ==
    ASSUME NEW T, NEW files \in Seq(T)
    PROVE  \E f \in [0..Len(files) -> Seq(Seq(T))] : PackedAlong(files, f)
<1> DEFINE n == Len(files)
           U == Seq(Seq(T))
           Opens(groups, e) == groups = <<>> \/ GroupSize(Last(groups)) + e.size > TemplateCMCap
           Packs(groups, e) == IF Opens(groups, e) THEN Append(groups, <<e>>)
                               ELSE Append(Front(groups), Append(Last(groups), e))
           step == [x \in (1..n) \X U |-> Packs(x[2], files[x[1]])]
           Body(it) == it = [S \in SUBSET DOMAIN files |->
                               IF S = {} THEN <<>>
                               ELSE IF Opens(it[S \ {Max(S)}], files[Max(S)])
                                    THEN Append(it[S \ {Max(S)}], <<files[Max(S)]>>)
                                    ELSE Append(Front(it[S \ {Max(S)}]),
                                                Append(Last(it[S \ {Max(S)}]), files[Max(S)]))]
           it == CHOOSE it : Body(it)
           f == [i \in 0..n |-> it[1..i]]
<1>1. n \in Nat /\ DOMAIN files = 1..n /\ \A i \in 1..n : files[i] \in T BY LenProperties, ElementOfSeq
<1>2. ASSUME NEW groups \in U, NEW e \in T PROVE Packs(groups, e) \in U
  <2>1. CASE Opens(groups, e)
    <3>1. <<e>> \in Seq(T) OBVIOUS
    <3>2. Append(groups, <<e>>) \in U BY <3>1, AppendProperties
    <3> HIDE DEF Opens, U
    <3> QED BY <2>1, <3>2
  <2>2. CASE ~Opens(groups, e)
    <3>1. groups # <<>> BY <2>2
    <3>2. Front(groups) \in Seq(Seq(T)) /\ Last(groups) \in Seq(T) BY <3>1, FlattenedOneMore
    <3>3. Append(Last(groups), e) \in Seq(T) BY <3>2, AppendProperties
    <3>4. Append(Front(groups), Append(Last(groups), e)) \in U BY <3>2, <3>3, AppendProperties
    <3> HIDE DEF Opens, U
    <3> QED BY <2>2, <3>4
  <2> HIDE DEF Packs, Opens, U
  <2> QED BY <2>1, <2>2
<1>3. step \in [(1..n) \X U -> U]
  <2>1. ASSUME NEW x \in (1..n) \X U PROVE Packs(x[2], files[x[1]]) \in U
    <3>1. x[2] \in U /\ files[x[1]] \in T BY <1>1
    <3> HIDE DEF Packs, U
    <3> QED BY <1>2, <3>1
  <2> HIDE DEF Packs, U
  <2> QED BY <2>1
<1>4. <<>> \in U OBVIOUS
<1> HIDE DEF U
<1>5. PICK one \in [SUBSET (1..n) -> U] : Unfolds(n, <<>>, step, one)
  <2> HIDE DEF n, step
  <2> QED BY <1>1, <1>3, <1>4, Iterates
<1>6. Body(one)
  <2>1. ASSUME NEW S \in SUBSET (1..n), S # {}
        PROVE  one[S] = Packs(one[S \ {Max(S)}], files[Max(S)])
    <3>1. Max(S) \in 1..n BY <1>1, <2>1, Greatest
    <3>2. <<Max(S), one[S \ {Max(S)}]>> \in (1..n) \X U BY <3>1
    <3>3. one[S] = step[<<Max(S), one[S \ {Max(S)}]>>] BY <1>5, <2>1 DEF Unfolds
    <3> HIDE DEF Packs
    <3> QED BY <3>2, <3>3
  <2>2. one[{}] = <<>> BY <1>5 DEF Unfolds
  <2> HIDE DEF Opens
  <2> QED BY <1>1, <1>5, <2>1, <2>2
<1>7. Body(it)
  <2> HIDE DEF Body
  <2> QED BY <1>6
<1>8. PackTemplateCMs(files) = it[1..n] BY <1>1 DEF PackTemplateCMs, FoldLeft, MapThenFoldSet
<1> HIDE DEF it, Opens
<1>9. f[0] = <<>>
  <2>1. 1..0 = {} OBVIOUS
  <2> QED BY <1>1, <1>7, <2>1
<1>10. ASSUME NEW i \in 1..n PROVE f[i] = Packs(f[i - 1], files[i])
  <2>1. 1..i \in SUBSET (1..n) /\ 1..i # {} /\ Max(1..i) = i /\ (1..i) \ {i} = 1..(i - 1)
    BY <1>1, Ranges
  <2>2. it[1..i] = Packs(it[1..(i - 1)], files[i])
    <3>1. it[1..i] = Packs(it[(1..i) \ {Max(1..i)}], files[Max(1..i)]) BY <1>1, <1>7, <2>1
    <3> HIDE DEF Body, Packs
    <3> QED BY <2>1, <3>1
  <2>3. i - 1 \in 0..n /\ i \in 0..n BY <1>1
  <2> HIDE DEF Packs
  <2> QED BY <2>2, <2>3
<1>11. f = [i \in 0..n |-> f[i]] /\ f[n] = it[1..n] BY <1>1
<1> HIDE DEF f, Packs
<1>12. \A i \in 0..n : f[i] \in U
  <2> HIDE DEF n
  <2>1. ASSUME NEW i \in 1..n, f[i - 1] \in U PROVE f[i] \in U BY <1>1, <1>2, <1>10, <2>1
  <2>2. f[0] \in U BY <1>4, <1>9
  <2> QED BY <1>1, <2>1, <2>2, Throughout
<1> QED BY <1>8, <1>9, <1>10, <1>11, <1>12 DEF PackedAlong, Packs, Opens, U

(* The groups after m files: those files in order, no group too large.     *)
Carries(files, m, groups) ==
    /\ FlattenSeq(groups) = SubSeq(files, 1, m)
    /\ \A i \in 1..Len(groups) : GroupSize(groups[i]) <= TemplateCMCap

LEMMA CarriesOneMore ==
    ASSUME NEW T, Sized(T), NEW files \in Seq(T), NEW m \in 1..Len(files),
           files[m].size <= TemplateCMCap, NEW groups \in Seq(Seq(T)),
           Carries(files, m - 1, groups), NEW more,
           more = IF groups = <<>> \/ GroupSize(Last(groups)) + files[m].size > TemplateCMCap
                  THEN Append(groups, <<files[m]>>)
                  ELSE Append(Front(groups), Append(Last(groups), files[m]))
    PROVE  Carries(files, m, more)
<1> DEFINE e == files[m]
           k == Len(groups)
<1>1. e \in T /\ e.size \in Nat /\ TemplateCMCap \in Nat BY ElementOfSeq, CapAssumption DEF Sized
<1>2. k \in Nat /\ \A i \in 1..k : groups[i] \in Seq(T) BY LenProperties, ElementOfSeq
<1>3. SubSeq(files, 1, m) = Append(SubSeq(files, 1, m - 1), e)
  <2>1. Len(files) \in Nat BY LenProperties
  <2>2. 1 \in 1..Len(files) /\ m \in 1..Len(files) /\ m - 1 \in Int BY <2>1
  <2>3. SubSeq(files, 1, m) = SubSeq(files, 1, m - 1) \o <<e>> BY <2>2, SubSeqRecursiveSecond
  <2>4. SubSeq(files, 1, m - 1) \in Seq(T)
    <3>1. \A i \in 1..m - 1 : files[i] \in T BY <2>1, ElementOfSeq
    <3> QED BY <2>2, <3>1, SubSeqProperties
  <2> QED BY <1>1, <2>3, <2>4, AppendIsConcat
<1>4. CASE groups = <<>> \/ GroupSize(Last(groups)) + e.size > TemplateCMCap
  <2>1. more = Append(groups, <<e>>) BY <1>4
  <2>2. FlattenSeq(more) = SubSeq(files, 1, m)
    <3>1. FlattenSeq(Append(groups, <<e>>)) = Append(FlattenSeq(groups), e)
      <4>1. e \in T BY <1>1
      <4> HIDE DEF e
      <4> QED BY <4>1, FlattenedOneMore
    <3>2. FlattenSeq(groups) = SubSeq(files, 1, m - 1) BY DEF Carries
    <3> QED BY <1>3, <2>1, <3>1, <3>2
  <2>3. GroupSize(<<e>>) <= TemplateCMCap BY <1>1, GroupOfOne
  <2>4. Len(more) = k + 1 /\ more[k + 1] = <<e>> /\ \A i \in 1..k : more[i] = groups[i]
    <3> DEFINE one == <<e>>
    <3>1. one \in Seq(T) BY <1>1
    <3> HIDE DEF one
    <3>2. /\ Len(Append(groups, one)) = Len(groups) + 1 /\ Append(groups, one)[Len(groups) + 1] = one
          /\ \A i \in 1..Len(groups) : Append(groups, one)[i] = groups[i]
      BY <3>1, AppendProperties
    <3>3. more = Append(groups, one) BY <2>1 DEF one
    <3> QED BY <3>2, <3>3 DEF one
  <2> HIDE DEF e, k
  <2>5. ASSUME NEW i \in 1..Len(more) PROVE GroupSize(more[i]) <= TemplateCMCap
    <3>1. i \in 1..k \/ i = k + 1 BY <1>2, <2>4
    <3>2. CASE i \in 1..k BY <2>4, <3>2 DEF Carries, k
    <3> QED BY <2>3, <2>4, <3>1, <3>2
  <2> QED BY <2>2, <2>5 DEF Carries
<1>5. CASE ~(groups = <<>> \/ GroupSize(Last(groups)) + e.size > TemplateCMCap)
  <2> DEFINE front == Front(groups)
             last == Append(Last(groups), e)
  <2>1. more = Append(front, last) /\ groups # <<>> BY <1>5
  <2>2. /\ front \in Seq(Seq(T)) /\ Last(groups) \in Seq(T)
        /\ Len(front) = k - 1 /\ k \in Nat \ {0}
        /\ \A i \in 1..k - 1 : front[i] = groups[i]
        /\ FlattenSeq(more) = Append(FlattenSeq(groups), e)
    <3> HIDE DEF e
    <3>1. e \in T /\ groups # <<>> BY <1>1, <2>1
    <3>2. /\ Front(groups) \in Seq(Seq(T)) /\ Last(groups) \in Seq(T)
          /\ Len(Front(groups)) = Len(groups) - 1 /\ Len(groups) \in Nat \ {0}
          /\ \A i \in 1..Len(groups) - 1 : Front(groups)[i] = groups[i]
          /\ FlattenSeq(Append(Front(groups), Append(Last(groups), e))) = Append(FlattenSeq(groups), e)
      BY <3>1, FlattenedOneMore
    <3>3. more = Append(Front(groups), Append(Last(groups), e)) BY <2>1
    <3> QED BY <3>2, <3>3
  <2>3. FlattenSeq(more) = SubSeq(files, 1, m) BY <1>3, <2>2 DEF Carries
  <2>4. last \in Seq(T) /\ GroupSize(last) <= TemplateCMCap
    <3>1. GroupSize(Last(groups)) \in Nat /\ GroupSize(last) = GroupSize(Last(groups)) + e.size
      BY <1>1, <2>2, GroupSizes
    <3>2. last \in Seq(T) BY <1>1, <2>2, AppendProperties
    <3> HIDE DEF last, e
    <3> QED BY <1>1, <1>5, <3>1, <3>2
  <2> HIDE DEF front, last
  <2>5. Len(more) = k /\ more[k] = last /\ \A i \in 1..k - 1 : more[i] = front[i]
    <3> HIDE DEF k
    <3>1. /\ Len(Append(front, last)) = Len(front) + 1 /\ Append(front, last)[Len(front) + 1] = last
          /\ \A i \in 1..Len(front) : Append(front, last)[i] = front[i]
      BY <2>2, <2>4, AppendProperties
    <3>2. Len(front) = k - 1 /\ (k - 1) + 1 = k BY <2>2
    <3> QED BY <2>1, <3>1, <3>2
  <2> HIDE DEF e, k
  <2>6. ASSUME NEW i \in 1..Len(more) PROVE GroupSize(more[i]) <= TemplateCMCap
    <3>1. i \in 1..k - 1 \/ i = k BY <2>2, <2>5
    <3>2. CASE i \in 1..k - 1
      <4>1. more[i] = groups[i] /\ i \in 1..k BY <2>2, <2>5, <3>2
      <4> QED BY <4>1 DEF Carries, k
    <3> QED BY <2>4, <2>5, <3>1, <3>2
  <2> QED BY <2>3, <2>6 DEF Carries
<1> QED BY <1>4, <1>5

(* Files that fit one by one are packed in order, each once, no ConfigMap  *)
(* above the budget (emit.packTemplateCMs).                                *)
LEMMA Packing ==
    ASSUME NEW T, Sized(T), NEW files \in Seq(T), Packable(files)
    PROVE  /\ FlattenSeq(PackTemplateCMs(files)) = files
           /\ \A i \in DOMAIN PackTemplateCMs(files) : GroupSize(PackTemplateCMs(files)[i]) <= TemplateCMCap
<1> DEFINE n == Len(files)
<1>1. n \in Nat /\ DOMAIN files = 1..n BY LenProperties
<1>2. PICK f \in [0..n -> Seq(Seq(T))] : PackedAlong(files, f) BY PackedFold
<1> DEFINE Fails == {i \in 0..n : ~Carries(files, i, f[i])}
<1>3. 0 \notin Fails
  <2>1. FlattenSeq(<<>>) = <<>> /\ SubSeq(files, 1, 0) = <<>> /\ Len(<<>>) = 0 /\ 1..0 = {}
    BY DEF FlattenSeq
  <2>2. Carries(files, 0, <<>>) BY <2>1 DEF Carries
  <2> QED BY <1>2, <2>2 DEF PackedAlong
<1>4. ASSUME NEW i \in 1..n, i - 1 \notin Fails PROVE i \notin Fails
  <2>1. i - 1 \in 0..n BY <1>1
  <2>2. f[i - 1] \in Seq(Seq(T))
    <3> HIDE DEF Fails
    <3> QED BY <2>1
  <2>3. Carries(files, i - 1, f[i - 1]) BY <1>4, <2>1
  <2>4. files[i].size <= TemplateCMCap BY <1>1 DEF Packable
  <2>5. f[i] = IF f[i - 1] = <<>> \/ GroupSize(Last(f[i - 1])) + files[i].size > TemplateCMCap
               THEN Append(f[i - 1], <<files[i]>>)
               ELSE Append(Front(f[i - 1]), Append(Last(f[i - 1]), files[i]))
    BY <1>2 DEF PackedAlong
  <2> HIDE DEF Fails
  <2>6. Carries(files, i, f[i]) BY <2>2, <2>3, <2>4, <2>5, CarriesOneMore
  <2> QED BY <2>6 DEF Fails
<1>5. Fails = {}
  <2>1. Fails \subseteq 0..n OBVIOUS
  <2> HIDE DEF Fails, n
  <2> QED BY <1>1, <1>3, <1>4, <2>1, NoneFails
<1>6. n \in 0..n BY <1>1
<1>7. Carries(files, n, f[n]) BY <1>5, <1>6
<1>8. f[n] = PackTemplateCMs(files) /\ f[n] \in Seq(Seq(T)) BY <1>2, <1>6 DEF PackedAlong
<1>9. SubSeq(files, 1, n) = files BY SubSeqFull
<1>10. DOMAIN f[n] = 1..Len(f[n]) BY <1>8, LenProperties
<1> HIDE DEF n, Fails
<1> QED BY <1>7, <1>8, <1>9, <1>10 DEF Carries

LEMMA TemplatesSized ==
    ASSUME NEW b \in Docs
    PROVE  LET files == TemplateFiles(b)
               T == {files[i] : i \in DOMAIN files}
           IN  Sized(T) /\ files \in Seq(T) /\ DOMAIN files = 1..Len(files) /\ Len(files) \in Nat
               /\ files = [i \in 1..Len(files) |-> files[i]]
<1> DEFINE files == TemplateFiles(b)
           n == Len(b.resources) + 1
           T == {files[i] : i \in DOMAIN files}
<1>1. n \in Nat /\ DOMAIN b.resources = 1..n - 1
  <2>1. b.resources \in Seq(Range(b.resources)) BY DocsAssumption
  <2> QED BY <2>1, LenProperties
<1>2. \A i \in DOMAIN b.resources : b.resources[i].size \in Nat BY DocsAssumption
<1>3. files = [i \in 1..n |-> files[i]] /\ DOMAIN files = 1..n
  <2> HIDE DEF n
  <2> QED BY DEF TemplateFiles, n
<1>4. ASSUME NEW i \in 1..n PROVE files[i].size \in Nat
  <2>1. i = 1 \/ i - 1 \in 1..n - 1 BY <1>1
  <2>2. files[i].size = IF i = 1 THEN 1 ELSE b.resources[i - 1].size BY DEF TemplateFiles
  <2> HIDE DEF files, n
  <2> QED BY <1>1, <1>2, <2>1, <2>2
<1> HIDE DEF files, n
<1>5. Sized(T) BY <1>3, <1>4 DEF Sized
<1>6. files \in [1..n -> T] BY <1>3
<1> HIDE DEF T
<1>7. files \in Seq(T) /\ Len(files) = n BY <1>1, <1>6, FunctionIsSequence
<1> QED BY <1>1, <1>3, <1>5, <1>7 DEF files, T

(* The files of templates/ in a rendered tree                              *)
LEMMA TemplatePaths ==
    ASSUME NEW b \in Docs, OnFileSystem(b)
    PROVE  LET n == Len(TemplateFiles(b))
               paths == {p \in OutputPaths(b) : p[1] = "templates" /\ p[2] = b.name}
           IN  /\ <<"runtime", b.name, 0>> \in OutputPaths(b)
               /\ \A i \in 1..n : <<"templates", b.name, i>> \in OutputPaths(b)
               /\ Cardinality(paths) = n
<1> DEFINE n == Len(TemplateFiles(b))
           path(i) == <<"templates", b.name, i>>
           paths == {p \in OutputPaths(b) : p[1] = "templates" /\ p[2] = b.name}
<1>1. n \in Nat /\ DOMAIN TemplateFiles(b) = 1..n BY TemplatesSized
<1>2. <<"runtime", b.name, 0>> \in OutputPaths(b) BY DEF OutputPaths
<1>3. \A i \in 1..n : path(i) \in OutputPaths(b) BY <1>1 DEF OutputPaths
<1>4. ASSUME NEW p \in paths PROVE \E i \in 1..n : p = path(i)
  <2>1. p \in OutputPaths(b) /\ p[1] = "templates" OBVIOUS
  <2> HIDE DEF path, paths, n
  <2>2. CASE p \in {<<"compositions", b.name, 0>>, <<"functions", "", 0>>, <<"xrds", b.name, 0>>}
    <3>1. \E dir \in {"compositions", "functions", "xrds"} : \E name : p = <<dir, name, 0>> BY <2>2
    <3> QED BY <2>1, <3>1
  <2>3. CASE p \in {<<"providerconfigs", f, 0>> : f \in ProviderConfigs(b)} BY <2>1, <2>3
  <2>4. CASE p \in {EnvPath(cfg.name) : cfg \in Range(EffectiveEnvironmentConfigs(b))}
    <3>1. p[1] = "environmentconfigs" BY <2>4 DEF EnvPath
    <3> QED BY <2>1, <3>1
  <2>5. CASE p \in {<<"rbac", "", 0>> : rule \in NonPreGrantedNativeRules(b)}
    <3>1. p = <<"rbac", "", 0>> BY <2>5
    <3> QED BY <2>1, <3>1
  <2>6. CASE p \in {<<"runtime", b.name, 0>>} BY <2>1, <2>6
  <2>7. CASE p \in {<<"templates", b.name, i>> : i \in DOMAIN TemplateFiles(b)} BY <1>1, <2>7 DEF path
  <2> QED BY <2>1, <2>2, <2>3, <2>4, <2>5, <2>6, <2>7 DEF OutputPaths
<1> DEFINE at == [i \in 1..n |-> path(i)]
<1>5. at \in Bijection(1..n, paths)
  <2>1. \A i \in 1..n : path(i) \in paths BY <1>3
  <2>2. \A i, j \in 1..n : path(i) = path(j) => i = j OBVIOUS
  <2> HIDE DEF path, paths, n
  <2>3. at \in Injection(1..n, paths) BY <2>1, <2>2 DEF Injection, IsInjective
  <2>4. at \in Surjection(1..n, paths) BY <1>4, <2>1 DEF Surjection
  <2> QED BY <2>3, <2>4 DEF Bijection
<1>6. IsFiniteSet(1..n) /\ Cardinality(1..n) = n
  <2> HIDE DEF n
  <2>1. 1 \in Int /\ n \in Int BY <1>1
  <2>2. Cardinality(1..n) = IF 1 > n THEN 0 ELSE n - 1 + 1 BY <2>1, FS_Interval
  <2>3. IsFiniteSet(1..n) BY <2>1, FS_Interval
  <2> QED BY <1>1, <2>2, <2>3
<1> HIDE DEF at, paths, n
<1>7. Cardinality(paths) = n BY <1>5, <1>6, FS_Bijection DEF ExistsBijection
<1> QED BY <1>2, <1>3, <1>7 DEF paths, n

LEMMA RenderedMaps ==
    ASSUME NEW b \in Docs, NEW outs, IsRendering(b, outs), OnFileSystem(b)
    PROVE  LET groups == outs[<<"runtime", b.name, 0>>].what
               files == {p \in DOMAIN outs : p[1] = "templates" /\ p[2] = b.name}
           IN  /\ FlattenSeq(groups) = [i \in 1..Cardinality(files) |-> outs[<<"templates", b.name, i>>].what]
               /\ \A i \in DOMAIN groups : GroupSize(groups[i]) <= TemplateCMCap
<1> DEFINE files == TemplateFiles(b)
           n == Len(files)
           T == {files[i] : i \in DOMAIN files}
           runtime == <<"runtime", b.name, 0>>
           path(i) == <<"templates", b.name, i>>
<1>1. \E old : outs = Outputs(b, old) BY DEF IsRendering
<1>2. Packable(files) BY DEF IsRendering, Generates
<1>3. /\ Sized(T) /\ files \in Seq(T) /\ n \in Nat /\ DOMAIN files = 1..n
      /\ files = [i \in 1..n |-> files[i]]
  BY TemplatesSized
<1>4. /\ runtime \in OutputPaths(b) /\ \A i \in 1..n : path(i) \in OutputPaths(b)
      /\ Cardinality({p \in OutputPaths(b) : p[1] = "templates" /\ p[2] = b.name}) = n
  BY TemplatePaths
<1>5. DOMAIN outs = OutputPaths(b) BY <1>1 DEF Outputs
<1>6. \A p \in OutputPaths(b) : p[1] # "environmentconfigs" => outs[p] = PlainContent(b, p)
  BY <1>1 DEF Outputs
<1>7. outs[runtime].what = PackTemplateCMs(files)
  <2>1. runtime[1] = "runtime" OBVIOUS
  <2>2. PlainContent(b, runtime) = Content("runtime", PackTemplateCMs(files)) BY <2>1 DEF PlainContent
  <2> HIDE DEF runtime, files
  <2> QED BY <1>4, <1>6, <2>1, <2>2 DEF Content
<1>8. ASSUME NEW i \in 1..n PROVE outs[path(i)].what = files[i]
  <2>1. path(i)[1] = "templates" /\ path(i)[3] = i OBVIOUS
  <2>2. PlainContent(b, path(i)) = Content("template", files[i]) BY <2>1 DEF PlainContent
  <2> HIDE DEF path, files
  <2> QED BY <1>4, <1>6, <2>1, <2>2 DEF Content
<1> HIDE DEF T, files
<1>9. /\ FlattenSeq(PackTemplateCMs(files)) = files
      /\ \A i \in DOMAIN PackTemplateCMs(files) : GroupSize(PackTemplateCMs(files)[i]) <= TemplateCMCap
  BY <1>2, <1>3, Packing
<1>10. files = [i \in 1..n |-> outs[path(i)].what] BY <1>3, <1>8
<1> HIDE DEF n
<1> QED BY <1>4, <1>5, <1>7, <1>9, <1>10 DEF runtime

(* The ConfigMaps a completed run leaves carry each file of templates/     *)
(* once, in the order of their numbers, none above the budget, for         *)
(* templates of any number and sizes.                                      *)
THEOREM TemplatesAreCarried == Spec => []MapsCarryTemplates
<1>1. Sound /\ TreeProgress => MapsCarryTemplates
  <2>1. SUFFICES ASSUME Sound, TreeProgress, NEW g \in Generators, gen[g].pc = "written",
                        ~disturbed[g], OnFileSystem(gen[g].doc)
                 PROVE  LET b == gen[g].doc IN
                        /\ FlattenSeq(Mounted(b)) = FilesOf(b)
                        /\ \A i \in DOMAIN Mounted(b) : GroupSize(Mounted(b)[i]) <= TemplateCMCap
    BY DEF MapsCarryTemplates
  <2>2. gen[g].doc \in Docs BY <2>1 DEF Sound, SoundRuns, SoundRun
  <2>3. IsRendering(gen[g].doc, tree) BY <2>1 DEF TreeProgress, Progress
  <2> QED BY <2>1, <2>2, <2>3, RenderedMaps DEF Mounted, FilesOf
<1> QED BY <1>1, TreeIsSound, TreeProgresses, PTL
=============================================================================
