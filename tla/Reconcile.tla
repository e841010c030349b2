----------------------------- MODULE Reconcile -----------------------------
(***************************************************************************)
(* A composition at work: a composite resource, the environment, and the   *)
(* composed resources the templates of internal/emit ask for, run after    *)
(* run.  Crossplane and the providers are external: a run of the function  *)
(* pipeline composes exactly what the templates render (what they no       *)
(* longer render is deleted, and a run that fails changes nothing); a      *)
(* provider fills in the status of what exists; users edit the composite,  *)
(* the environment changes and a composed resource may be made anew.       *)
(***************************************************************************)
EXTENDS Rendering

CONSTANTS
    Docs,        \* the documents considered: those Emits refuses compose nothing
    EnvValues,   \* values of an environment key
    Readings,    \* values of an observed status
    MaxEdits     \* bound: edits of the composite, changes of the environment
                 \* and losses of an observed status

ASSUME DocsAssumption == \A b \in Docs : Document(b)
ASSUME ValuesAssumption == EnvValues \subseteq Nat

VARIABLES
    doc,        \* the blueprint
    plan,       \* what was generated from it
    spec,       \* the composite's parameters
    env,        \* the environment the configs provide
    composed,   \* the items of the last run
    observed,   \* status of the composed resources, by key
    reported,   \* the fields of the composite's own status
    edits

vars == <<doc, plan, spec, env, composed, observed, reported, edits>>

World == [plan |-> plan, spec |-> spec, env |-> env, observed |-> observed]
ItemKeys(items) == {item.key : item \in items}

(* Every spec the XRD of a document admits.                                *)
SpecsOf(b) ==
    LET values == UNION {b.params[p].enum : p \in DOMAIN b.params}
    IN  {s \in UNION {[present -> values] : present \in SUBSET DOMAIN b.params} : Admitted(b, s)}
Specs == [d \in Docs |-> SpecsOf(d)]
Environments(b) == UNION {[present -> EnvValues] : present \in SUBSET DOMAIN b.env}
StatusLeaves(b, item) == Leaves(Schema(b, ResourceNamed(b, item.resource)).status)

-----------------------------------------------------------------------------

Init ==
    /\ doc \in {d \in Docs : Emits(d)} /\ plan = Plan(doc)
    /\ spec = SampleXR(doc)
    /\ env \in Environments(doc)
    /\ composed = {} /\ observed = <<>> /\ reported = <<>>
    /\ edits = 0

Report ==
    [p \in StatusLines(doc, World) |-> observed[doc.status[p].from.ref][doc.status[p].from.path]]
Run ==
    /\ UNCHANGED <<doc, plan, spec, env, edits>>
    /\ Evaluates(doc, World)
    /\ composed' = Items(doc, World)
    /\ observed' = [k \in ItemKeys(composed') |-> IF k \in DOMAIN observed THEN observed[k] ELSE <<>>]
    /\ reported' = Report

Provide ==
    /\ \E item \in composed : \E path \in StatusLeaves(doc, item) \ DOMAIN observed[item.key] :
          \E v \in Readings :
             observed' = [observed EXCEPT ![item.key] =
                             [p \in DOMAIN @ \union {path} |-> IF p = path THEN v ELSE @[p]]]
    /\ UNCHANGED <<doc, plan, spec, env, composed, reported, edits>>

EditXR ==
    /\ edits < MaxEdits
    /\ spec' \in Specs[doc] \ {spec}
    /\ edits' = edits + 1
    /\ UNCHANGED <<doc, plan, env, composed, observed, reported>>

ChangeEnv ==
    /\ edits < MaxEdits
    /\ env' \in Environments(doc) \ {env}
    /\ edits' = edits + 1
    /\ UNCHANGED <<doc, plan, spec, composed, observed, reported>>

(* A composed resource deleted by hand comes back without a status.        *)
Recreate ==
    /\ edits < MaxEdits
    /\ \E k \in DOMAIN observed : observed[k] # <<>> /\ observed' = [observed EXCEPT ![k] = <<>>]
    /\ edits' = edits + 1
    /\ UNCHANGED <<doc, plan, spec, env, composed, reported>>

Next == Run \/ Provide \/ EditXR \/ ChangeEnv \/ Recreate

(* Crossplane runs the pipeline again and again, and providers report.     *)
(* Fairness of Run is WF_vars(Run) with ENABLED written out.               *)
RunChanges ==
    /\ Evaluates(doc, World)
    /\ composed # Items(doc, World) \/ reported # Report
FairRun == []<>~RunChanges \/ []<><<Run>>_vars
Spec == Init /\ [][Next]_vars /\ FairRun /\ WF_vars(Provide)

-----------------------------------------------------------------------------
(* Properties *)

(* The sample composite resource a preview is run on, and every edit of    *)
(* it, is one the XRD admits; statuses are those of what is composed       *)
(* (sample_xr.go, xrd.go).                                                 *)
TypeOK ==
    /\ doc \in Docs
    /\ Admitted(doc, spec)
    /\ DOMAIN env \subseteq DOMAIN doc.env
    /\ DOMAIN observed = ItemKeys(composed)
    /\ DOMAIN reported \subseteq DOMAIN doc.status

(* A document the emitters take renders for every composite the XRD admits, *)
(* every environment and whatever is observed: no template dereferences    *)
(* what is absent, and with missingkey=error that is what fails a render.  *)
RenderSucceeds == Evaluates(doc, World)

(* The three engines compose alike: under the same condition, as often and *)
(* with the same lines, as far as KCL and Python take the document         *)
(* (writeResourceTemplate, kclTemplateBody, pythonTemplateBody).           *)
EnginesAgree ==
    \A r \in ToSet(doc.resources) :
       /\ doc.templates = {} =>
             /\ GoWhenHolds(doc, World, r) <=> PythonWhenHolds(doc, World, r)
             /\ r.forEach = None \/ GoCount(doc, World, r) = PythonCount(doc, World, r)
             /\ GoLines(doc, World, r) = PythonLines(doc, World, r)
       /\ doc.templates = {} /\ DOMAIN doc.env = {} =>
             /\ GoWhenHolds(doc, World, r) <=> KclWhenHolds(doc, World, r)
             /\ r.forEach = None \/ GoCount(doc, World, r) = KclCount(doc, World, r)
             /\ GoLines(doc, World, r) = KclLines(doc, World, r)

(* What it rests on: a whole object, in a document, is a top-level         *)
(* parameter; the Go guard looks a nested one up by the wrong key.         *)
ObjectsAtTop ==
    \A b \in Docs : Emits(b) =>
       \A r \in ToSet(b.resources) : \A line \in PlannedLines(b, r) :
          IsObjectWire(b, line[2]) => Len(line[2].path) = 1

(* A rendered reference to the name of another resource is the name that   *)
(* resource is given in the same run (resolveMetadataNameRef).             *)
NamesAgree ==
    \A r \in ToSet(doc.resources) : \A p \in DOMAIN r.fields :
       LET ref == r.fields[p]
           line == <<IF Schema(doc, r).native THEN p ELSE <<"spec", "forProvider">> \o p, Root(doc, ref)>>
       IN  /\ ref.kind = "name" /\ Schema(doc, ResourceNamed(doc, ref.ref)).native
           /\ \E item \in Items(doc, World) : item.resource = r.name /\ <<line[1], Shows(World, line[2])>> \in item.lines
           => Shows(World, line[2]) = Named(doc, World, ResourceNamed(doc, ref.ref))

(* What the schema requires of a managed resource is planned, and in every *)
(* document composed unless each source planned for it may be absent; a    *)
(* parameter wired straight into a required field that is not there, one   *)
(* of the warnings names.  The element of an array and the key of a map    *)
(* stand for the whole, as they do for the check (CheckRequiredFields,     *)
(* CheckOptionalParamWires, planEnvelope).                                 *)
MayBeAbsent(b, s) ==
    \/ s.kind = "param" /\ \E i \in DOMAIN s.path : ~b.params[SubSeq(s.path, 1, i)].required
    \/ s.kind = "env" /\ ~b.env[s.ref].default
    \/ s.kind = "status" /\ b.engine # "go-templating"
SetPath(p) == Lookup(IF IsEntry(p) THEN Front(p) ELSE p)
Feeds(line, path) ==
    LET set == SetPath(SubSeq(line[1], 3, Len(line[1])))
    IN  IsPrefix(<<"spec", "forProvider">>, line[1]) /\ (IsPrefix(set, path) \/ IsPrefix(path, set))
Supplied(item) ==
    LET r == ResourceNamed(doc, item.resource)
        nodes == Schema(doc, r).fields
        planned(path) == {line \in plan[r.name].lines : Feeds(line, path)}
        has(path) == \E line \in item.lines : Feeds(line, path)
        wired(path) == {p \in DOMAIN r.fields : /\ r.fields[p].kind = "param" /\ SetPath(p) = path
                                                /\ ~IsObjectWire(doc, r.fields[p])}
    IN  ~Schema(doc, r).native =>
           /\ \A path \in RequiredLeaves(nodes) \union RequiredBranches(nodes) :
                 /\ planned(path) # {}
                 /\ ~has(path) => /\ \A line \in planned(path) : MayBeAbsent(doc, line[2])
                                 /\ \A p \in wired(path) : OptionalWire(doc, r, p)
           /\ \A p \in DOMAIN r.envelope :
                 <<p[1]>> \in DOMAIN Schema(doc, r).envelope /\ Schema(doc, r).envelope[<<p[1]>>].required
                 => \E line \in item.lines : IsPrefix(<<"spec", p[1]>>, line[1])
RequiredRendered == \A item \in composed : Supplied(item)

(* The resources asked for: their condition holds, and the resources whose *)
(* status they are wired from are asked for too.  KCL and Python compose   *)
(* what is wired in a ring and fill the lines in later (the greatest such  *)
(* set); the Go template composes one after another (the least), and what  *)
(* waits for itself through another resource never.  That a resource waits *)
(* for itself alone validation is to refuse.                               *)
Wanted ==
    LET holding == {r \in ToSet(doc.resources) : WhenHolds(doc, World, r)}
        fed(r, by) == \A s \in StatusWires(World, r) : \E q \in by : q.name = s.ref
        kept[k \in 0..Len(doc.resources)] ==
          IF k = 0 THEN holding ELSE {r \in kept[k - 1] : fed(r, kept[k - 1])}
        reached[k \in 0..Len(doc.resources)] ==
          IF k = 0 THEN {} ELSE {r \in holding : fed(r, reached[k - 1] \union {r})}
    IN  IF doc.engine = "go-templating" THEN reached[Len(doc.resources)]
        ELSE kept[Len(doc.resources)]

(* Once edits cease, every resource asked for is composed as often as its  *)
(* bound says, with every status it is wired from in place, by the Go      *)
(* template no other is, and the composite's own status is filled in where *)
(* its template is shipped (composition.go:182-186, 296-305).              *)
Settled ==
    LET asked == Wanted
        names == {r.name : r \in asked}
    IN
    /\ \A r \in asked :
          /\ {item.key : item \in {i \in composed : i.resource = r.name}} = Keys(doc, World, r)
          /\ r.forEach.kind = "status" /\ r.forEach.ref \in names => Present(World, r.forEach)
          /\ \A item \in {i \in composed : i.resource = r.name}, line \in Lines(World, r) :
                line[2].kind = "status" => line \in item.lines
    /\ doc.engine = "go-templating" => \A item \in composed : item.resource \in names
    /\ ShipsStatus(doc) =>
          \A p \in DOMAIN doc.status :
             doc.status[p].from # None /\ doc.status[p].from.ref \in names
             => p \in DOMAIN reported
ComposesWhatIsAsked == <>[]Settled

(* A run omits a field whose source is not observed, and no more: what is  *)
(* composed and still asked for stays.                                     *)
OmitsOnlyTheField ==
    [][\A r \in ToSet(doc.resources) :
          /\ Run /\ WhenHolds(doc, World, r)
          /\ r.forEach = None /\ r.name \in ItemKeys(composed)
          => r.name \in ItemKeys(composed')]_vars
=============================================================================
