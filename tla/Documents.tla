----------------------------- MODULE Documents -----------------------------
(***************************************************************************)
(* A blueprint as validation and the emitters see it (internal/blueprint,  *)
(* and the checks internal/emit makes against the schemas of the kinds).   *)
(*                                                                         *)
(* A parameter is known by its path, <<"net", "cidr">> for params.net.cidr; *)
(* its declaration has a type, whether it is required in its parent, and   *)
(* whether it has a default.  A field path is a sequence of segments; the  *)
(* element of an array is a segment of Indices and the key of a map one of *)
(* EntryKeys (subnets[0].id, tags[env]).  A field takes its value from a   *)
(* source: a value, a raw text, a template, a parameter, an environment    *)
(* key, the observed status of another resource, or its name.              *)
(***************************************************************************)
EXTENDS Integers, Sequences, FiniteSets, SequencesExt

CONSTANTS
    Crds,      \* the kinds of the sources loaded, a sequence of schemas
    Indices,   \* segments that index an array, in order
    EntryKeys  \* segments that are keys of a map

Source(kind, ref, path) == [kind |-> kind, ref |-> ref, path |-> path]
None == Source("none", "", <<>>)
Param(path) == Source("param", "", path)
Env(key) == Source("env", key, <<>>)
Status(resource, path) == Source("status", resource, path)
NameOf(resource) == Source("name", resource, <<>>)

ScalarTypes == {"string", "integer", "number", "boolean"}
NativeProvider == "kubernetes"
ClusterProvider == "cluster"

ResourceNames(b) == {b.resources[i].name : i \in DOMAIN b.resources}
ResourceNamed(b, name) ==
    b.resources[CHOOSE i \in DOMAIN b.resources : b.resources[i].name = name]

Indexed(segment) == segment \in ToSet(Indices)
IsEntry(path) == Last(path) \in EntryKeys
Lookup(path) == [i \in DOMAIN path |-> IF Indexed(path[i]) THEN Indices[1] ELSE path[i]]

(* The shape of a parsed document.  A parameter's enum is the set of its   *)
(* admissible values, the greatest the one a sample is given; of a boolean *)
(* 0 is false.  A reference to a name says nothing but whose.              *)
IsPath(p) == p \in Seq(ToSet(p)) /\ p # <<>>
Document(b) ==
    /\ b.resources \in Seq(ToSet(b.resources))
    /\ \A p \in DOMAIN b.params :
          /\ IsPath(p)
          /\ b.params[p].enum \subseteq Nat
          /\ \E v \in b.params[p].enum : \A other \in b.params[p].enum : v >= other
    /\ \A r \in ToSet(b.resources) :
          /\ r.when.op \in {"", "==", "!="} /\ r.when.literal \in Nat
          /\ r.forEach.kind = "none" => r.forEach = None
          /\ \A p \in DOMAIN r.fields \union DOMAIN r.envelope : IsPath(p)
          /\ \A s \in Range(r.fields) \union Range(r.annotations) \union Range(r.envelope) :
                s = Source(s.kind, s.ref, s.path) /\ (s.kind = "name" => s = NameOf(s.ref))

ASSUME CrdsAssumption ==
    /\ Crds \in Seq(ToSet(Crds))
    /\ \A c \in ToSet(Crds) : \A p \in DOMAIN c.fields : IsPath(p)

-----------------------------------------------------------------------------
(* Validation of one document *)

IsScalarParam(b, path) == path \in DOMAIN b.params /\ b.params[path].type \in ScalarTypes
Members(b, path) == {p \in DOMAIN b.params : Len(p) = Len(path) + 1 /\ IsPrefix(path, p)}
AlwaysPresent(b, path) ==
    /\ Len(path) = 1 /\ path \in DOMAIN b.params
    /\ b.params[path].required \/ b.params[path].default

IsManaged(r) == r.provider # NativeProvider

ValidDeclarations(b) ==
    \A p \in DOMAIN b.params :
       /\ b.params[p].type \in ScalarTypes \union {"object"}
       /\ b.params[p].default => b.params[p].type # "object"
       /\ Len(p) > 1 => Front(p) \in DOMAIN b.params /\ b.params[Front(p)].type = "object"
ValidParameters(b) ==
    /\ ValidDeclarations(b)
    /\ b.namespaced /\ (\E i \in DOMAIN b.resources : IsManaged(b.resources[i]))
          => /\ <<"providerName">> \in DOMAIN b.params
             /\ b.params[<<"providerName">>].type = "string"
             /\ b.params[<<"providerName">>].required

(* A status or a name is taken from another resource, and not from one     *)
(* that is looped: its composed documents carry an index.                  *)
(* Mutant: a resource may be wired from itself.                            *)
Mut_ValidResourceRef(b, self, source) ==
    /\ source.ref \in ResourceNames(b)
    /\ ResourceNamed(b, source.ref).forEach = None
ValidResourceRef(b, self, source) ==
    /\ source.ref \in ResourceNames(b) \ {self}
    /\ ResourceNamed(b, source.ref).forEach = None

(* A loop bound and a condition are dereferenced unguarded.                *)
ValidForEach(b, r) ==
    CASE r.forEach.kind = "none" -> TRUE
      [] r.forEach.kind = "param" -> /\ AlwaysPresent(b, r.forEach.path)
                                     /\ b.params[r.forEach.path].type = "integer"
      [] r.forEach.kind = "env" -> /\ r.forEach.ref \in DOMAIN b.env
                                   /\ b.env[r.forEach.ref].type = "integer"
      [] r.forEach.kind = "status" -> ValidResourceRef(b, r.name, r.forEach)
      [] OTHER -> FALSE

ValidWhen(b, r) ==
    LET typed(type) == type = IF r.when.op = "" THEN "boolean" ELSE "string"
        tested == r.when.of
    IN  CASE tested.kind = "none" -> TRUE
          [] tested.kind = "param" -> AlwaysPresent(b, tested.path) /\ typed(b.params[tested.path].type)
          [] tested.kind = "env" -> tested.ref \in DOMAIN b.env /\ typed(b.env[tested.ref].type)
          [] OTHER -> FALSE

ValidSource(b, r, source) ==
    CASE source.kind \in {"value", "raw"} -> TRUE
      [] source.kind = "template" -> b.engine = "go-templating" /\ source.ref \in b.templates
      [] source.kind = "param" -> source.path \in DOMAIN b.params
      [] source.kind = "env" -> source.ref \in DOMAIN b.env
      [] source.kind \in {"status", "name"} -> ValidResourceRef(b, r.name, source)
      [] OTHER -> FALSE

IsObjectWire(b, source) == source.kind = "param" /\ b.params[source.path].type = "object"

(* A whole object goes to a field of labels, tags or annotations, or to    *)
(* one whose keys are set too; only such a field is set both ways.         *)
ValidFields(b, r) ==
    \A p \in DOMAIN r.fields :
       LET source == r.fields[p]
           entries == {q \in DOMAIN r.fields : IsEntry(q) /\ Front(q) = p}
       IN  /\ ValidSource(b, r, source)
           /\ source.kind = "template" => IsManaged(r)
           /\ IsObjectWire(b, source) =>
                 ~IsEntry(p) /\ (Last(p) \in {"tags", "labels", "annotations"} \/ entries # {})
           /\ entries # {} => IsObjectWire(b, source)

ValidAnnotations(b, r) ==
    \A k \in DOMAIN r.annotations :
       LET source == r.annotations[k] IN
       /\ ValidSource(b, r, source)
       /\ source.kind = "param" => IsScalarParam(b, source.path)

ValidEnvelope(b, r) ==
    /\ \A p \in DOMAIN r.envelope :
          /\ r.envelope[p].kind \in {"value", "raw", "param", "env"}
          /\ ValidSource(b, r, r.envelope[p])
          /\ r.envelope[p].kind = "param" => IsScalarParam(b, r.envelope[p].path)
    /\ \A p, q \in DOMAIN r.envelope : ~IsStrictPrefix(p, q)

ValidStatus(b) ==
    \A p \in DOMAIN b.status :
       /\ b.status[p].type \in ScalarTypes
       /\ b.status[p].from # None => ValidResourceRef(b, "", b.status[p].from)

(* A FileSystem document's templates are mounted into the function.        *)
ValidEmit(b) == b.templateSource = "Inline" \/ b.engine = "go-templating"

Valid(b) ==
    /\ b.namespaced /\ ValidParameters(b) /\ ValidEmit(b)
    /\ ValidStatus(b)
    /\ Cardinality(ResourceNames(b)) = Len(b.resources)
    /\ \A i \in DOMAIN b.resources :
          LET r == b.resources[i] IN
          /\ ValidForEach(b, r) /\ ValidWhen(b, r) /\ ValidFields(b, r)
          /\ ValidAnnotations(b, r) /\ ValidEnvelope(b, r)

-----------------------------------------------------------------------------
(* Checks against the schemas.  A schema gives the nodes of its fields (of *)
(* spec.forProvider for a managed kind), of its envelope and of its status *)
(* by path, an array's items under Indices[1]; a leaf has no node below.   *)

Leaves(nodes) == {p \in DOMAIN nodes : \A q \in DOMAIN nodes : ~IsStrictPrefix(p, q)}
RequiredChain(nodes, path) ==
    \A i \in DOMAIN path : SubSeq(path, 1, i) \in DOMAIN nodes => nodes[SubSeq(path, 1, i)].required

MatchesProvider(crd, provider) == provider \in {"", ClusterProvider} \union crd.providers

(* The schemas resolveKind would take, the first being the one it takes.   *)
Resolved(b, r) ==
    LET native == {i \in DOMAIN Crds : Crds[i].kind = r.kind /\ Crds[i].native}
        managed == {i \in DOMAIN Crds : /\ Crds[i].kind = r.kind /\ ~Crds[i].native /\ Crds[i].managed
                                        /\ Crds[i].namespaced = b.namespaced}
    IN  IF ~IsManaged(r) THEN native
        ELSE IF managed # {} THEN {i \in managed : MatchesProvider(Crds[i], r.provider)}
        ELSE IF r.provider = ClusterProvider THEN native ELSE {}
Schema(b, r) == Crds[Min(Resolved(b, r))]

Known(nodes, path) == \E leaf \in Leaves(nodes) : IsPrefix(path, leaf)
CheckFieldPaths(b, r) ==
    LET nodes == Schema(b, r).fields IN
    \A p \in DOMAIN r.fields :
       Known(nodes, Lookup(p)) \/ (IsEntry(p) /\ Known(nodes, Front(p)))

(* A convention names a template for the top-level fields whose names it   *)
(* matches, where the document sets none itself.                           *)
ExplicitlySet(r, name) == \E p \in DOMAIN r.fields : p = <<name>> \/ (IsEntry(p) /\ Front(p) = <<name>>)
ConventionFields(b, r) ==
    {p \in Leaves(Schema(b, r).fields) :
        /\ Len(p) = 1 /\ ~ExplicitlySet(r, p[1])
        /\ \E c \in b.conventions : p[1] \in c.match}
ConventionsApply(b, r) ==
    \A leaf \in Leaves(Schema(b, r).fields), c \in b.conventions :
       Last(leaf) \in c.match =>
          \/ \E p \in DOMAIN r.fields : IsPrefix(IF IsEntry(p) THEN Front(p) ELSE p, leaf)
          \/ ~Schema(b, r).native /\ Len(leaf) = 1
          \/ ~Schema(b, r).native /\ \E p \in Leaves(Schema(b, r).fields) : Len(p) = 1 /\ p[1] \in c.match
Fields(b, r) ==
    [p \in DOMAIN r.fields \union ConventionFields(b, r) |->
        IF p \in DOMAIN r.fields THEN r.fields[p]
        ELSE Source("template", (CHOOSE c \in b.conventions : p[1] \in c.match).template, <<>>)]

IsFieldTypeCompatible(target, type) ==
    CASE target = "string" -> type \in ScalarTypes
      [] target = "number" -> type \in {"number", "integer"}
      [] target \in {"integer", "boolean"} -> type = target
      [] OTHER -> FALSE
EnvelopeTypeCompatible(target, type) ==
    type = target \/ (target = "number" /\ type = "integer")

StatusType(b, source) ==
    LET status == Schema(b, ResourceNamed(b, source.ref)).status IN
    IF source.path \in Leaves(status) THEN status[source.path].type ELSE "unknown"

TypeOf(b, source) ==
    CASE source.kind = "param" -> b.params[source.path].type
      [] source.kind = "env" -> b.env[source.ref].type
      [] source.kind = "status" -> StatusType(b, source)
      [] source.kind = "name" -> "string"

(* What resolveFieldRHS lets a source fill: a leaf of the schema, with a   *)
(* type that fits; the key of a map takes any scalar.                      *)
Fits(b, r, path, source) ==
    LET nodes == Schema(b, r).fields
        target == nodes[Lookup(path)]
    IN  IF source.kind \in {"raw", "template"} THEN TRUE
        ELSE IF IsEntry(path) THEN source.kind = "value" \/ TypeOf(b, source) \in ScalarTypes
        ELSE /\ Lookup(path) \in Leaves(nodes) /\ target.type # "object"
             /\ \/ source.kind = "value"
                \/ target.type = "map" /\ IsObjectWire(b, source)
                \/ source.kind # "name" /\ IsFieldTypeCompatible(target.type, TypeOf(b, source))
                \/ source.kind = "name" /\ target.type \notin {"array", "map"}

ForEachStatusBound(b, r) ==
    r.forEach.kind = "status" => StatusType(b, r.forEach) \in {"integer", "number"}

(* The envelope: entries known to the kind's spec, with a providerConfigRef *)
(* completed from either half; a required key is not left to the optional. *)
EnvelopePlan(r) ==
    LET set(path) == path \in DOMAIN r.envelope
        kind == <<"providerConfigRef", "kind">>
        name == <<"providerConfigRef", "name">>
        other == \E p \in DOMAIN r.envelope : p[1] = "providerConfigRef" /\ p # kind
        added == {p \in {kind} : other /\ ~set(kind)} \union {p \in {name} : set(kind) /\ ~set(name)}
    IN  [p \in DOMAIN r.envelope \union added |->
            IF set(p) THEN r.envelope[p]
            ELSE IF p = kind THEN Source("value", "ClusterProviderConfig", <<>>)
            ELSE Param(<<"providerName">>)]
DefaultProviderConfigRef(b, r) ==
    b.namespaced /\ \A p \in DOMAIN r.envelope : p[1] # "providerConfigRef"

CheckEnvelope(b, r) ==
    LET nodes == Schema(b, r).envelope IN
    /\ r.envelope # <<>> => ~Schema(b, r).native
    /\ \A p \in DOMAIN r.envelope :
          /\ p \in DOMAIN nodes
          /\ r.envelope[p].kind \in {"param", "env"} =>
                /\ p \in Leaves(nodes)
                /\ EnvelopeTypeCompatible(nodes[p].type, TypeOf(b, r.envelope[p]))

(* The required fields the document leaves out.  A leaf required all the   *)
(* way needs itself or an ancestor set, a required branch with no such leaf *)
(* anything in it.                                                         *)
RequiredLeaves(nodes) == {p \in Leaves(nodes) : RequiredChain(nodes, p)}
RequiredBranches(nodes) ==
    {p \in DOMAIN nodes \ Leaves(nodes) :
        RequiredChain(nodes, p) /\ \A q \in RequiredLeaves(nodes) : ~IsPrefix(p, q)}
MissingRequired(b, r) ==
    LET nodes == Schema(b, r).fields
        set == {Lookup(IF IsEntry(p) THEN Front(p) ELSE p) : p \in DOMAIN Fields(b, r)}
    IN  IF Schema(b, r).native THEN {}
        ELSE {p \in RequiredLeaves(nodes) : \A q \in set : ~IsPrefix(q, p)}
             \union {p \in RequiredBranches(nodes) : \A q \in set : ~IsPrefix(p, q)}

(* The warning of an optional parameter that feeds a required field.       *)
OptionalWire(b, r, path) ==
    LET base == Lookup(IF IsEntry(path) THEN Front(path) ELSE path)
        nodes == Schema(b, r).fields
        wire == r.fields[path]
    IN  /\ wire.kind = "param"
        /\ base \in Leaves(nodes) \union RequiredBranches(nodes) /\ nodes[base].required
        /\ \E i \in DOMAIN wire.path : ~b.params[SubSeq(wire.path, 1, i)].required
=============================================================================
