----------------------------- MODULE Rendering -----------------------------
(***************************************************************************)
(* What the composition of a blueprint composes for a composite resource:  *)
(* the plan of every resource's lines (internal/emit/plan.go, composition  *)
(* .go, structured.go, envelope.go, annotations.go, native.go) and what    *)
(* the three template engines make of it (composition.go, kcl.go,          *)
(* python.go).                                                             *)
(*                                                                         *)
(* A plan is a set of lines <<path, source>>: the absolute path of a leaf  *)
(* in the composed document and where its value comes from.  A world w is  *)
(* what a run of the function pipeline reads: w.plan, made when the        *)
(* composition was generated, w.spec of the composite (the parameters      *)
(* present), w.env, the environment, and w.observed, the status of every   *)
(* composed resource.  A guard is a set of sources: hasKey tests,          *)
(* evaluated from the shortest path on, each only if those before it hold. *)
(***************************************************************************)
EXTENDS Documents


-----------------------------------------------------------------------------
(* Names.  A reference to a resource's name is replaced by the source of   *)
(* that name, when the resource has a field for it, and so on.             *)

CustomName(r) ==
    LET at == <<"metadata", "name">>
        top == <<"name">>
    IN  IF at \in DOMAIN r.fields THEN r.fields[at]
        ELSE IF top \in DOMAIN r.fields THEN r.fields[top]
        ELSE IF at \in DOMAIN r.envelope THEN r.envelope[at]
        ELSE IF top \in DOMAIN r.envelope THEN r.envelope[top] ELSE None

NamedBy(b, source) ==
    LET custom == CustomName(ResourceNamed(b, source.ref))
    IN  IF source.kind # "name" \/ custom = None THEN source ELSE custom
Followed(b, source) ==
    LET follow[k \in 0..Len(b.resources)] ==
          IF k = 0 THEN source ELSE NamedBy(b, follow[k - 1])
    IN  follow
(* Mutant: a name taken from a third resource is not followed.             *)
Mut_Root(b, source) == Followed(b, source)[1]
Root(b, source) == Followed(b, source)[Len(b.resources)]

NameCycle(b, self, source) ==
    LET follow == Followed(b, source) IN
    \E k \in 1..Len(b.resources) :
       /\ follow[k].kind = "name" /\ follow[k] # follow[k - 1]
       /\ follow[k].ref \in {self} \union {follow[j].ref : j \in 0..k - 2}

-----------------------------------------------------------------------------
(* Plans *)

(* A typed object wired to a map becomes one line per declared member; a   *)
(* key the document sets itself wins.                                      *)
Expanded(b, r) ==
    LET fields == Fields(b, r)
        typed == {p \in DOMAIN fields :
                    IsObjectWire(b, fields[p]) /\ Members(b, fields[p].path) # {}}
        members == UNION {{<<Append(p, Last(m)), Param(m)>> : m \in Members(b, fields[p].path)} :
                            p \in typed}
    IN  {<<p, Root(b, fields[p])>> : p \in DOMAIN fields \ typed}
        \union {line \in members : line[1] \notin DOMAIN fields}

(* The key providerConfigRef.name is dereferenced without a guard.         *)
Bare(path) == Source("bare", "", path)

NamePaths == {<<"metadata", "name">>, <<"name">>}
AnnotationsPath == <<"metadata", "annotations">>

Under(prefix, lines) == {<<prefix \o line[1], line[2]>> : line \in lines}
AnnotationLines(b, r) ==
    {<<Append(AnnotationsPath, k), Root(b, r.annotations[k])>> : k \in DOMAIN r.annotations}
EnvelopeLines(b, r) ==
    LET plan == EnvelopePlan(r)
        reference == IF ~DefaultProviderConfigRef(b, r) THEN {}
                     ELSE {<<<<"providerConfigRef", "kind">>, Source("value", "ClusterProviderConfig", <<>>)>>,
                           <<<<"providerConfigRef", "name">>, Bare(<<"providerName">>)>>}
    IN  {<<p, plan[p]>> : p \in DOMAIN plan} \union reference

(* A native resource's name is written apart, and of its fields those      *)
(* under metadata.annotations win over its annotations.                    *)
NativeLines(body, annotations) ==
    {line \in body : line[1] \notin NamePaths \union {AnnotationsPath}}
    \union {line \in annotations : \A set \in body : set[1] # line[1]}

PlannedLines(b, r) ==
    IF Schema(b, r).native THEN NativeLines(Expanded(b, r), AnnotationLines(b, r))
    ELSE Under(<<"spec", "forProvider">>, Expanded(b, r)) \union AnnotationLines(b, r)
         \union Under(<<"spec">>, EnvelopeLines(b, r))

PlannedName(b, r) ==
    IF ~Schema(b, r).native THEN None
    ELSE IF CustomName(r) = None THEN NameOf(r.name) ELSE Root(b, CustomName(r))

(* Two lines may not set one value, unless a whole map is spread among its *)
(* keys, and the elements of an array are numbered from 0 on.              *)
NoConflict(b, r) ==
    LET lines == PlannedLines(b, r) IN
    /\ \A l, m \in lines : IsStrictPrefix(l[1], m[1]) => l[2].kind = "param" /\ IsObjectWire(b, l[2])
    /\ \A l \in lines : \A n \in DOMAIN l[1], i \in DOMAIN Indices :
          l[1][n] = Indices[i] =>
             \A j \in 1..i : \E m \in lines : IsPrefix(Append(SubSeq(l[1], 1, n - 1), Indices[j]), m[1])

Accepts(b) ==
    \/ b.engine = "go-templating"
    \/ /\ b.templates = {} /\ b.conventions = {}
       /\ b.engine = "kcl" => DOMAIN b.env = {}

(* Mutant: a required member of an optional object passes for required.    *)
Mut_EnvelopeRequired(b, r) ==
    LET plan == EnvelopePlan(r)
        optional(s) == \/ s.kind = "param" /\ ~b.params[s.path].required
                       \/ s.kind = "env" /\ ~b.env[s.ref].default
    IN  \A key \in {p[1] : p \in DOMAIN plan} :
           /\ <<key>> \in DOMAIN Schema(b, r).envelope
           /\ Schema(b, r).envelope[<<key>>].required
           => \E p \in DOMAIN plan : p[1] = key /\ ~optional(plan[p])
EnvelopeRequired(b, r) ==
    LET plan == EnvelopePlan(r)
        optional(s) == \/ s.kind = "param" /\ \E i \in DOMAIN s.path : ~b.params[SubSeq(s.path, 1, i)].required
                       \/ s.kind = "env" /\ ~b.env[s.ref].default
    IN  \A key \in {p[1] : p \in DOMAIN plan} :
           /\ <<key>> \in DOMAIN Schema(b, r).envelope
           /\ Schema(b, r).envelope[<<key>>].required
           => \E p \in DOMAIN plan : p[1] = key /\ ~optional(plan[p])

(* What the provider never writes would leave a wire silent for good.      *)
StatusRefsResolve(b, r) ==
    \A s \in Range(r.fields) \union Range(r.annotations) :
       s.kind = "status" => StatusType(b, s) \in ScalarTypes

(* The documents the emitters render. *)
Emits(b) ==
    /\ Valid(b) /\ Accepts(b)
    /\ \A i \in DOMAIN b.resources :
          LET r == b.resources[i] IN
          /\ Resolved(b, r) # {}
          /\ CheckFieldPaths(b, r) /\ ConventionsApply(b, r) /\ MissingRequired(b, r) = {}
          /\ CheckEnvelope(b, r) /\ EnvelopeRequired(b, r) /\ ForEachStatusBound(b, r)
          /\ \A p \in DOMAIN r.fields : /\ ~NameCycle(b, r.name, r.fields[p])
                                        /\ Fits(b, r, p, r.fields[p])
          /\ \A k \in DOMAIN r.annotations : ~NameCycle(b, r.name, r.annotations[k])
          /\ StatusRefsResolve(b, r) /\ NoConflict(b, r)
    /\ \A p \in DOMAIN b.status : b.status[p].from # None =>
          IsFieldTypeCompatible(b.status[p].type, StatusType(b, b.status[p].from))

(* What is generated, once: the plan of every resource. *)
Plan(b) ==
    [n \in ResourceNames(b) |->
        LET r == ResourceNamed(b, n) IN [lines |-> PlannedLines(b, r), name |-> PlannedName(b, r)]]
Lines(w, r) == w.plan[r.name].lines
NameSource(w, r) == w.plan[r.name].name
Sources(w, r) == {line[2] : line \in Lines(w, r)} \union {NameSource(w, r)}
StatusWires(w, r) == {s \in Sources(w, r) : s.kind = "status"}

-----------------------------------------------------------------------------
(* Guards *)

Present(w, s) ==
    CASE s.kind \in {"param", "bare"} -> s.path \in DOMAIN w.spec
      [] s.kind = "env" -> s.ref \in DOMAIN w.env
      [] s.kind = "status" -> s.ref \in DOMAIN w.observed /\ s.path \in DOMAIN w.observed[s.ref]
      [] s.kind = "never" -> FALSE
      [] OTHER -> TRUE

(* hasKey looks for the last segment in the map the others lead to.        *)
Evaluable(w, s) == s.kind = "param" /\ Len(s.path) > 1 => Front(s.path) \in DOMAIN w.spec

GuardHolds(w, guard) == \A s \in guard : Present(w, s)
GuardEvaluable(w, guard) ==
    \A s \in guard :
       (\A t \in guard : Len(t.path) < Len(s.path) => Present(w, t)) => Evaluable(w, s)

(* From the first level that is not required on, every level is tested.    *)
(* Mutant: the leaf alone is tested.                                       *)
Mut_ChainGuard(b, path) ==
    IF \A i \in DOMAIN path : b.params[SubSeq(path, 1, i)].required THEN {} ELSE {Param(path)}
ChainGuard(b, path) ==
    {Param(SubSeq(path, 1, i)) : i \in
        {j \in DOMAIN path : \E k \in 1..j : ~b.params[SubSeq(path, 1, k)].required}}

(* A whole object is looked up by its path as one key of the spec.         *)
Never == Source("never", "", <<>>)
ObjectGuard(path) == IF Len(path) = 1 THEN {Param(path)} ELSE {Never}

GoGuard(b, s) ==
    CASE s.kind = "param" -> IF IsObjectWire(b, s) THEN ObjectGuard(s.path) ELSE ChainGuard(b, s.path)
      [] s.kind = "env" -> IF b.env[s.ref].default THEN {} ELSE {s}
      [] s.kind = "status" -> {s}
      [] OTHER -> {}

(* What a line shows: its source, or the default of an environment key.    *)
Shows(w, s) == IF s.kind = "env" /\ ~Present(w, s) THEN [s EXCEPT !.kind = "default"] ELSE s

-----------------------------------------------------------------------------
(* Conditions and loop bounds *)

EnvValue(b, w, key) == IF key \in DOMAIN w.env THEN w.env[key] ELSE 1
Condition(when, value) ==
    CASE when.op = "" -> value # 0
      [] when.op = "==" -> value = when.literal
      [] when.op = "!=" -> value # when.literal

GoWhenHolds(b, w, r) ==
    LET when == r.when IN
    CASE when.of.kind = "none" -> TRUE
      [] when.of.kind = "param" -> Condition(when, w.spec[when.of.path])
      [] when.of.kind = "env" ->
            IF Present(w, when.of) \/ b.env[when.of.ref].default
            THEN Condition(when, EnvValue(b, w, when.of.ref)) ELSE when.op = "!="

GoCount(b, w, r) ==
    LET bound == r.forEach IN
    CASE bound.kind = "param" -> w.spec[bound.path]
      [] bound.kind = "env" -> IF Present(w, bound) \/ b.env[bound.ref].default
                               THEN EnvValue(b, w, bound.ref) ELSE 0
      [] bound.kind = "status" -> IF Present(w, bound) THEN w.observed[bound.ref][bound.path] ELSE 0

(* KCL and Python read what is absent as None: false, equal to no literal, *)
(* and no iteration.  Python takes the default of an environment key.      *)
Absent == -1
Value(w, s) == CASE s.kind = "param" -> w.spec[s.path]
                 [] s.kind = "env" -> w.env[s.ref]
                 [] s.kind = "status" -> w.observed[s.ref][s.path]
Read(w, s, absent) == IF Present(w, s) THEN Value(w, s) ELSE absent
Defaulted(b, s) == s.kind = "env" /\ b.env[s.ref].default
Truthy(when, value) == IF when.op = "" THEN value \notin {0, Absent} ELSE Condition(when, value)

KclWhenHolds(b, w, r) == r.when.of.kind = "none" \/ Truthy(r.when, Read(w, r.when.of, Absent))
PythonWhenHolds(b, w, r) ==
    r.when.of.kind = "none" \/ Truthy(r.when, Read(w, r.when.of, IF Defaulted(b, r.when.of) THEN 1 ELSE Absent))
KclCount(b, w, r) == Read(w, r.forEach, 0)
PythonCount(b, w, r) == Read(w, r.forEach, IF Defaulted(b, r.forEach) THEN 1 ELSE 0)

WhenHolds(b, w, r) == CASE b.engine = "kcl" -> KclWhenHolds(b, w, r)
                        [] b.engine = "python" -> PythonWhenHolds(b, w, r)
                        [] OTHER -> GoWhenHolds(b, w, r)
Count(b, w, r) == CASE b.engine = "kcl" -> KclCount(b, w, r)
                    [] b.engine = "python" -> PythonCount(b, w, r)
                    [] OTHER -> GoCount(b, w, r)

ComposedKeys(r, count) == {r.name \o "-" \o ToString(i) : i \in 0..count - 1}
Keys(b, w, r) == IF r.forEach = None THEN {r.name} ELSE ComposedKeys(r, Count(b, w, r))

-----------------------------------------------------------------------------
(* The engines.  An item is a composed document: its key among the         *)
(* resources of the composite, its name and its lines.                     *)

(* Mutant: only the lines right below.                                     *)
Mut_Below(lines, path) == {line \in lines : IsPrefix(path, line[1]) /\ Len(line[1]) = Len(path) + 1}
Below(lines, path) == {line \in lines : IsPrefix(path, line[1])}
Ancestors(path) == {SubSeq(path, 1, i) : i \in 1..Len(path) - 1}

(* The Go template writes a parent's key if something below is             *)
(* unconditional or one of the guards below holds.                         *)
GoWritesKey(b, w, lines, path) ==
    \E line \in Below(lines, path) : GuardHolds(w, GoGuard(b, line[2]))
GoLines(b, w, r) ==
    LET lines == Lines(w, r) IN
    {line \in lines : /\ GuardHolds(w, GoGuard(b, line[2]))
                      /\ \A path \in Ancestors(line[1]) : GoWritesKey(b, w, lines, path)}

KclOptional(b, s) == s.kind = "status" \/ (s.kind = "param" /\ ChainGuard(b, s.path) # {})
KclGuarded(b, s) == KclOptional(b, s) \/ (s.kind = "param" /\ Len(s.path) > 1)
KclWritesKey(b, w, lines, path) ==
    \E line \in Below(lines, path) : ~KclOptional(b, line[2]) \/ Present(w, line[2])
KclLines(b, w, r) ==
    LET lines == Lines(w, r) IN
    {line \in lines : /\ KclGuarded(b, line[2]) => Present(w, line[2])
                      /\ \A path \in Ancestors(line[1]) : KclWritesKey(b, w, lines, path)}

(* Python builds every value and drops the Nones and the emptied objects.  *)
PythonShows(b, w, s) == Present(w, s) \/ Defaulted(b, s)
PythonLines(b, w, r) == {line \in Lines(w, r) : PythonShows(b, w, line[2])}

Named(b, w, r) ==
    LET source == NameSource(w, r) IN
    IF GuardHolds(w, GoGuard(b, source)) THEN Shows(w, source) ELSE NameOf(r.name)

Rendered(b, w, r, lines) ==
    {[key |-> key, resource |-> r.name, name |-> Named(b, w, r),
      lines |-> {<<line[1], Shows(w, line[2])>> : line \in lines}] : key \in Keys(b, w, r)}

(* The Go template leaves a resource out until every status it is wired    *)
(* from is observed; the others leave out the lines.                       *)
Withheld(b, w, r) == b.engine = "go-templating" /\ ~GuardHolds(w, StatusWires(w, r))

GoItems(b, w, r) ==
    IF GoWhenHolds(b, w, r) /\ ~Withheld(b, w, r) THEN Rendered(b, w, r, GoLines(b, w, r)) ELSE {}
KclItems(b, w, r) == IF KclWhenHolds(b, w, r) THEN Rendered(b, w, r, KclLines(b, w, r)) ELSE {}
PythonItems(b, w, r) == IF PythonWhenHolds(b, w, r) THEN Rendered(b, w, r, PythonLines(b, w, r)) ELSE {}

Items(b, w) ==
    UNION {CASE b.engine = "kcl" -> KclItems(b, w, r)
             [] b.engine = "python" -> PythonItems(b, w, r)
             [] OTHER -> GoItems(b, w, r) : r \in ToSet(b.resources)}

(* The fields of the composite's status that are wired: by the Go template *)
(* alone, and only where the composition carries it inline, for the        *)
(* document that sets them is in none of the files of a FileSystem source. *)
ShipsStatus(b) == b.engine = "go-templating" /\ b.templateSource = "Inline"
StatusLines(b, w) ==
    {p \in DOMAIN b.status : ShipsStatus(b) /\ b.status[p].from # None /\ Present(w, b.status[p].from)}

(* The template dereferences nothing that is not there: with               *)
(* missingkey=error that would fail the whole render.                      *)
LineEvaluable(b, w, s) ==
    /\ GuardEvaluable(w, GoGuard(b, s))
    /\ GuardHolds(w, GoGuard(b, s)) =>
          Present(w, s) \/ (s.kind = "env" /\ b.env[s.ref].default)
Evaluates(b, w) ==
    \A r \in ToSet(b.resources) :
       /\ r.when.of.kind = "param" => Present(w, r.when.of)
       /\ WhenHolds(b, w, r) /\ ~Withheld(b, w, r) =>
             /\ r.forEach.kind = "param" => Present(w, r.forEach)
             /\ \A s \in Sources(w, r) : LineEvaluable(b, w, s)

-----------------------------------------------------------------------------
(* Composite resources *)

(* What the generated XRD admits: a member only in its object, what is     *)
(* required there, and the defaults the API server fills in.               *)
Admitted(b, spec) ==
    /\ DOMAIN spec \subseteq DOMAIN b.params
    /\ \A p \in DOMAIN spec : /\ spec[p] \in b.params[p].enum
                              /\ Len(p) > 1 => Front(p) \in DOMAIN spec
    /\ \A p \in DOMAIN b.params :
          /\ b.params[p].required \/ b.params[p].default
          /\ Len(p) > 1 => Front(p) \in DOMAIN spec
          => p \in DOMAIN spec

(* The composite resource a preview or a render check is run on.           *)
(* Mutant: a required member is filled in although its object is not.      *)
Mut_SampleXR(b) ==
    LET present == {p \in DOMAIN b.params :
                      \/ \E r \in ToSet(b.resources) : r.forEach = Param(p)
                      \/ b.params[p].required \/ b.params[p].default}
    IN  [p \in present |-> CHOOSE v \in b.params[p].enum : \A other \in b.params[p].enum : v >= other]
SampleXR(b) ==
    LET wanted(p) == \E q \in DOMAIN b.params :
                        IsPrefix(p, q) /\ (b.params[q].required \/ b.params[q].default)
        bound(p) == \E r \in ToSet(b.resources) : r.forEach = Param(p)
        present == {p \in DOMAIN b.params :
                      \/ bound(p)
                      \/ \A i \in DOMAIN p : wanted(SubSeq(p, 1, i))}
    IN  [p \in present |-> CHOOSE v \in b.params[p].enum : \A other \in b.params[p].enum : v >= other]
=============================================================================
