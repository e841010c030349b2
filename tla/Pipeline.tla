------------------------------ MODULE Pipeline ------------------------------
(***************************************************************************)
(* The function pipeline of a composition: what spec.pipeline and          *)
(* spec.environment of a blueprint become in the Composition, in           *)
(* functions.yaml and in the package's dependsOn (internal/blueprint/      *)
(* pipeline.go, validate_environment.go; internal/emit/pipeline.go,        *)
(* functions.go, configuration.go).                                        *)
(*                                                                         *)
(* A document here is a record of the engine, the declared steps, the      *)
(* environment keys with their types, and the environment configs.  A      *)
(* step's input is absent, the author's own object, one of theirs without  *)
(* apiVersion and kind ("untyped"), or, once the pipeline is assembled,    *)
(* the environment configs the emitter tells the function to load.         *)
(***************************************************************************)
EXTENDS Integers, FiniteSets, SequencesExt, FiniteSetsExt, Functions

CONSTANTS
    FreeNames,  \* step names of the author's choosing
    Packages,   \* package references of the author's choosing (Tagged, Pinned)
    MaxSteps,   \* bound: steps a document declares
    LabelName   \* the config name sanitizeEnvConfigName derives from labels

TemplatingStepName == "render-resources"
EnvironmentConfigsStepName == "environment-configs"
EnvironmentConfigsFunctionName == "function-environment-configs"

Engines == {"go-templating", "kcl", "python"}
BuiltinFunction(b) ==
    CASE b.engine = "kcl" -> "function-kcl" [] b.engine = "python" -> "function-python"
      [] OTHER -> "function-go-templating"

ASSUME MaxStepsAssumption == MaxSteps \in Nat

(* A package is referred to by its path, at a tag or by a digest           *)
Tagged(path, tag) == [path |-> path, tag |-> tag, digest |-> ""]
Pinned(path, digest) == [path |-> path, tag |-> "", digest |-> digest]
EnginePackage == Tagged("engine", "v1")
AutoReadyPackage == Tagged("auto-ready", "v1")
EnvironmentConfigsFunctionPackage == Tagged("environment-configs", "v1")

(* What dependsOn makes of a reference: the path with the tag for its      *)
(* version; a reference by digest stays whole.                             *)
SplitRef(ref) ==
    IF ref.digest # "" THEN [package |-> ref, version |-> ""]
    ELSE [package |-> Tagged(ref.path, ""), version |-> ref.tag]

Positions == {"", "before", "after"}
Step(name, function, package, position, input) ==
    [name |-> name, functionRef |-> function, package |-> package,
     position |-> position, input |-> input]

NoInput == [kind |-> "none", loads |-> <<>>]
OwnInput == [kind |-> "own", loads |-> <<>>]
UntypedInput == [kind |-> "untyped", loads |-> <<>>]

(* The elements of a sequence that are kept, in their order.               *)
Kept(s, keep) ==
    FoldLeftDomain(LAMBDA acc, i : IF keep[i] THEN Append(acc, s[i]) ELSE acc, <<>>, s)

HasEnvironment(b) == DOMAIN b.environment # {} \/ b.configs # <<>>

(* An environment config without a name is named after its selector; with  *)
(* neither it is the default one.  A document with keys but no configs has *)
(* the default config alone.                                               *)
EffectiveName(cfg) ==
    IF cfg.name # "" THEN cfg.name
    ELSE IF cfg.labels # {} THEN LabelName[cfg.labels] ELSE "default"
EffectiveEnvironmentConfigs(b) ==
    IF b.configs # <<>> THEN [i \in DOMAIN b.configs |->
                                [b.configs[i] EXCEPT !.name = EffectiveName(b.configs[i])]]
    ELSE IF DOMAIN b.environment # {}
    THEN <<[name |-> "default", labels |-> {}, data |-> <<>>]>> ELSE <<>>

(* What function-environment-configs is told to load: a config by its      *)
(* labels when it has a selector, by its name otherwise.                   *)
EnvironmentConfigsInput(b) ==
    LET reference(name) == [ref |-> IF name = "" THEN "default" ELSE name, labels |-> {}]
        entry(cfg) == IF cfg.labels # {} THEN [ref |-> "", labels |-> cfg.labels]
                      ELSE reference(cfg.name)
    IN  [kind |-> "loads", loads |-> IF b.configs = <<>> THEN <<reference("default")>>
                                     ELSE [i \in DOMAIN b.configs |-> entry(b.configs[i])]]

-----------------------------------------------------------------------------
(* Validation *)

ValidEnvironment(b) ==
    /\ DOMAIN b.environment = {} \/ b.engine # "kcl"
    /\ b.configs # <<>> => DOMAIN b.environment # {}
    /\ IsInjective([i \in DOMAIN b.configs |-> EffectiveName(b.configs[i])])

ValidStep(b, s) ==
    /\ s.name # TemplatingStepName
    /\ s.functionRef # BuiltinFunction(b)
    /\ ~(s.functionRef = EnvironmentConfigsFunctionName /\ s.position = "after")
    /\ s.input # UntypedInput

ValidPipeline(b) ==
    /\ \A i \in DOMAIN b.pipeline : ValidStep(b, b.pipeline[i])
    /\ \A i, j \in DOMAIN b.pipeline : i # j =>
          /\ b.pipeline[i].name # b.pipeline[j].name
          /\ b.pipeline[i].functionRef = b.pipeline[j].functionRef
                => b.pipeline[i].package = b.pipeline[j].package

-----------------------------------------------------------------------------
(* Assembly *)

AutoReady == Step("auto-ready", "function-auto-ready", AutoReadyPackage, "", NoInput)

(* Mutant: a step that loads the environment keeps the side it was given.  *)
Mut_DeclaredOrDefault(b) == IF b.pipeline = <<>> THEN <<AutoReady>> ELSE b.pipeline
DeclaredOrDefault(b) ==
    LET steps == IF b.pipeline = <<>> THEN <<AutoReady>> ELSE b.pipeline IN
    [i \in DOMAIN steps |->
        IF steps[i].functionRef = EnvironmentConfigsFunctionName /\ steps[i].position = ""
        THEN [steps[i] EXCEPT !.position = "before"] ELSE steps[i]]

(* The names tried when the plain one is taken: -fn, -fn-2, -fn-3, ...     *)
Suffixed(n) == IF n = 1 THEN "environment-configs-fn" ELSE "environment-configs-fn-" \o ToString(n)
ASSUME SuffixesDiffer ==
    \A m, n \in 1..MaxSteps + 2 : /\ Suffixed(m) = Suffixed(n) => m = n
                                  /\ Suffixed(n) # TemplatingStepName

NameTaken(steps, name) ==
    name = TemplatingStepName \/ \E i \in DOMAIN steps : steps[i].name = name
(* Mutant: the name is taken whether it is free or not.                    *)
Mut_FreshStepName(steps) == EnvironmentConfigsStepName
FreshStepName(steps) ==
    IF ~NameTaken(steps, EnvironmentConfigsStepName) THEN EnvironmentConfigsStepName
    ELSE Suffixed(CHOOSE k \in 1..Len(steps) + 1 :
                     /\ ~NameTaken(steps, Suffixed(k))
                     /\ \A j \in 1..k - 1 : NameTaken(steps, Suffixed(j)))

(* An environment step the author declared gets the input it lacks; with   *)
(* none declared one is put in front of the pipeline.                      *)
WithEnvironment(b, steps) ==
    LET envSteps == {i \in DOMAIN steps : steps[i].functionRef = EnvironmentConfigsFunctionName}
    IN  IF ~HasEnvironment(b) THEN steps
        ELSE IF envSteps # {}
        THEN [steps EXCEPT ![Min(envSteps)].input =
                 IF @ = NoInput THEN EnvironmentConfigsInput(b) ELSE @]
        ELSE <<Step(FreshStepName(steps), EnvironmentConfigsFunctionName,
                    EnvironmentConfigsFunctionPackage, "before", EnvironmentConfigsInput(b))>> \o steps

(* The first step of each name; none of the templating step's name.        *)
Deduplicated(steps) ==
    Kept(steps, [i \in DOMAIN steps |->
                       /\ steps[i].name # TemplatingStepName
                       /\ \A j \in 1..i - 1 : steps[j].name # steps[i].name])

EffectivePipeline(b) == Deduplicated(WithEnvironment(b, DeclaredOrDefault(b)))

Before(steps) == Kept(steps, [i \in DOMAIN steps |-> steps[i].position = "before"])
After(steps)  == Kept(steps, [i \in DOMAIN steps |-> steps[i].position # "before"])
TemplatingStep(b) == Step(TemplatingStepName, BuiltinFunction(b), "", "", NoInput)
CompositionSteps(b) ==
    Before(EffectivePipeline(b)) \o <<TemplatingStep(b)>> \o After(EffectivePipeline(b))

(* functions.yaml: the engine's function, then each function of the        *)
(* pipeline once.  A declared step of the engine's function would override *)
(* its package.                                                            *)
FunctionList(b) ==
    LET own == {i \in DOMAIN b.pipeline : b.pipeline[i].functionRef = BuiltinFunction(b)}
        engine == [name |-> BuiltinFunction(b),
                   package |-> IF own # {} THEN b.pipeline[Min(own)].package ELSE EnginePackage]
    IN  FoldLeft(LAMBDA fns, s :
                    IF \E i \in DOMAIN fns : fns[i].name = s.functionRef THEN fns
                    ELSE Append(fns, [name |-> s.functionRef, package |-> s.package]),
                 <<engine>>, EffectivePipeline(b))

(* dependsOn of the package: one entry for each package path, with the     *)
(* version of the function that comes first in functions.yaml.             *)
(* Mutant: references are compared whole, the tag with them.               *)
Mut_DependsOn(b) ==
    FoldLeft(LAMBDA deps, f :
                IF Contains(deps, SplitRef(f.package)) THEN deps
                ELSE Append(deps, SplitRef(f.package)),
             <<>>, FunctionList(b))
DependsOn(b) ==
    FoldLeft(LAMBDA deps, f :
                IF \E i \in DOMAIN deps : deps[i].package = SplitRef(f.package).package THEN deps
                ELSE Append(deps, SplitRef(f.package)),
             <<>>, FunctionList(b))

-----------------------------------------------------------------------------
(* The documents, and what assembly promises of those that validate *)

DeclaredSteps ==
    {Step(n, f, p, pos, inp) :
        n \in FreeNames \cup {EnvironmentConfigsStepName, TemplatingStepName},
        f \in {EnvironmentConfigsFunctionName, "function-auto-ready", "function-kcl"},
        p \in Packages, pos \in Positions, inp \in {NoInput, OwnInput, UntypedInput}}
DeclaredPipelines == UNION {[1..n -> DeclaredSteps] : n \in 0..MaxSteps}

Names(steps) == {steps[i].name : i \in DOMAIN steps}

(* Crossplane requires step names to be unique, and a step the author      *)
(* declared must not be lost to the one the emitter adds: the Composition  *)
(* holds the templating step once, every declared step once and on the     *)
(* side its position names, in the order of the document.                  *)
DeclaredStepsKept(b) ==
    LET steps == CompositionSteps(b)
        kept(side) == Kept(side, [i \in DOMAIN side |-> side[i].name \in Names(b.pipeline)])
        at == CHOOSE i \in DOMAIN steps : steps[i].name = TemplatingStepName
        named(seq) == [i \in DOMAIN seq |-> seq[i].name]
    IN  /\ IsInjective(named(steps))
        /\ Names(b.pipeline) \subseteq Names(steps)
        /\ named(kept(SubSeq(steps, 1, at - 1))) = named(Before(DeclaredOrDefault(b)))
              \/ b.pipeline = <<>>
        /\ named(kept(SubSeq(steps, at + 1, Len(steps)))) = named(After(DeclaredOrDefault(b)))
              \/ b.pipeline = <<>>

(* A package path is depended on once, at the version of the function that *)
(* names it first.                                                         *)
DependedOnce(deps, fns, path) ==
    \E i \in DOMAIN deps, m \in DOMAIN fns :
        /\ {j \in DOMAIN deps : deps[j].package = path} = {i}
        /\ deps[i] = SplitRef(fns[m].package)
        /\ \A j \in 1..m - 1 : SplitRef(fns[j].package).package # path

(* Every step's function is installed: functions.yaml declares it once,    *)
(* with the package the step names, and the configuration depends on the   *)
(* path of that package exactly once.  Crossplane installs a package path  *)
(* at one version: where two functions name two tags, the first counts.    *)
FunctionsDeclared(b) ==
    LET fns == FunctionList(b) IN
    \A s \in Range(EffectivePipeline(b)) :
        /\ Cardinality({i \in DOMAIN fns : fns[i].name = s.functionRef}) = 1
        /\ [name |-> s.functionRef, package |-> s.package] \in Range(fns)
        /\ DependedOnce(DependsOn(b), fns, SplitRef(s.package).package)

(* The environment is loaded before the templates read it, by a step that  *)
(* finds every environment config emitted (by its name, or by the labels   *)
(* it carries), unless the author wrote the step's input.                  *)
EnvironmentLoaded(b) ==
    HasEnvironment(b) =>
      LET steps == CompositionSteps(b)
          at(n) == CHOOSE i \in DOMAIN steps : steps[i].name = n
          loads(input, cfg) == \E i \in DOMAIN input :
                                 \/ input[i].labels # {} /\ input[i].labels = cfg.labels
                                 \/ input[i].ref = cfg.name
      IN  \E s \in Range(SubSeq(steps, 1, at(TemplatingStepName) - 1)) :
            /\ s.functionRef = EnvironmentConfigsFunctionName
            /\ \/ s.input = OwnInput
               \/ \A cfg \in Range(EffectiveEnvironmentConfigs(b)) : loads(s.input.loads, cfg)
=============================================================================
