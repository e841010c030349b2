--------------------------- MODULE BlueprintEdits ---------------------------
(***************************************************************************)
(* Editing one blueprint (internal/blueprint/edit.go): the parameters of   *)
(* the composite API, the composed resources, and the references between   *)
(* them.  Every edit works on a copy, validates it and only then replaces  *)
(* the document; a refused edit changes nothing, so a step is an edit that *)
(* went through.                                                           *)
(*                                                                         *)
(* A reference is a kind and the name it names.  Six kinds are checked by  *)
(* Validate: a loop bound, the two forms of a condition, a wire from a     *)
(* whole parameter or from a member of one, a wire from another resource's *)
(* status or metadata.name.  Two are free text (raw: fields and template   *)
(* bodies), which Validate does not look into: a text reading $spec.x and  *)
(* one reading observed.resources.x.  Parameters and resources live in     *)
(* separate namespaces and may share names.                                *)
(***************************************************************************)
EXTENDS Functions

CONSTANTS
    Names,         \* names of parameters and resources
    InvalidNames,  \* those the name grammar refuses
    Decls,         \* parameter declarations requests carry
    Bodies,        \* resource bodies requests carry
    DocsAtStart,   \* documents on disk at the start
    ProviderName,  \* the parameter providerName
    None

LoopKinds == {"loop", "status"}
WhenKinds == {"bare", "equals"}
WireKinds == {"scalar", "member", "status", "metadata"}
TextKinds == {"spec", "observed"}
ParamKinds == {"loop", "bare", "equals", "scalar", "member", "spec"}
ResourceKinds == {"status", "metadata", "observed"}

Ref(kinds) == [kind : kinds, to : Names]
Decl == [type : {"string", "integer", "boolean", "object", "map"},
         presence : {"required", "default", "optional"}]
Body == [managed : BOOLEAN,
         forEach : Ref(LoopKinds) \cup {None},
         when    : Ref(WhenKinds) \cup {None},
         wires   : SUBSET Ref(WireKinds),
         raws    : SUBSET Ref(TextKinds)]
Declares(f, S) == DOMAIN f \subseteq Names /\ f \in [DOMAIN f -> S]
IsDoc(d) ==
    /\ d = [params |-> d.params, resources |-> d.resources,
            status |-> d.status,        \* resources spec.xrd.status is wired from
            templates |-> d.templates]  \* what the bodies of spec.templates read
    /\ Declares(d.params, Decl)
    /\ Declares(d.resources, Body)
    /\ d.status \subseteq Names
    /\ d.templates \subseteq Ref(TextKinds)

-----------------------------------------------------------------------------
(* Validate *)

(* The declarations a reference of a kind may name.  A loop bound and a    *)
(* condition are dereferenced unguarded, so their parameter must always be *)
(* there.                                                                  *)
Admits(kind, decl) ==
    CASE kind = "loop"   -> decl.type = "integer" /\ decl.presence # "optional"
      [] kind = "bare"   -> decl.type = "boolean" /\ decl.presence # "optional"
      [] kind = "equals" -> decl.type = "string" /\ decl.presence # "optional"
      [] kind = "scalar" -> decl.type \notin {"object", "map"}
      [] kind = "member" -> decl.type = "object"

ParamResolves(d, ref) ==
    ref.to \in DOMAIN d.params /\ Admits(ref.kind, d.params[ref.to])

(* A resource's status or name can be read by another resource only, and   *)
(* not once it is looped: its documents are then named apart.              *)
Unlooped(d, n) == n \in DOMAIN d.resources /\ d.resources[n].forEach = None
ResourceResolves(d, n, ref) == ref.to # n /\ Unlooped(d, ref.to)

Checked(b) == b.wires \cup ({b.forEach, b.when} \ {None})
BodyResolves(d, n) ==
    \A ref \in Checked(d.resources[n]) :
        IF ref.kind \in ParamKinds THEN ParamResolves(d, ref)
                                   ELSE ResourceResolves(d, n, ref)

HasManagedResources(d) == \E n \in DOMAIN d.resources : d.resources[n].managed

(* Blueprint.Validate, for a Namespaced XRD.                               *)
Validate(d) ==
    /\ (DOMAIN d.params \cup DOMAIN d.resources) \cap InvalidNames = {}
    /\ HasManagedResources(d) =>
          /\ ProviderName \in DOMAIN d.params
          /\ d.params[ProviderName] = [type |-> "string", presence |-> "required"]
    /\ \A n \in d.status : Unlooped(d, n)
    /\ \A n \in DOMAIN d.resources : BodyResolves(d, n)

ASSUME NamesAssumption == InvalidNames \subseteq Names /\ ProviderName \in Names
ASSUME NoneAssumption == None \notin Ref(LoopKinds \cup WhenKinds)
ASSUME RequestAssumption == Decls \subseteq Decl /\ Bodies \subseteq Body
ASSUME StartAssumption == \A d \in DocsAtStart : IsDoc(d) /\ Validate(d)

-----------------------------------------------------------------------------
VARIABLE doc   \* the blueprint

Init == doc \in DocsAtStart

With(f, x, v) == [y \in DOMAIN f \cup {x} |-> IF y = x THEN v ELSE f[y]]
Renamed(f, from, to) ==
    [y \in (DOMAIN f \ {from}) \cup {to} |-> f[IF y = to THEN from ELSE y]]

(* One reference, and a set of them, once `from` is called `to`.           *)
Redirect(ref, kinds, from, to) ==
    IF ref.kind \in kinds /\ ref.to = from THEN [ref EXCEPT !.to = to] ELSE ref
RedirectAll(refs, kinds, from, to) == {Redirect(r, kinds, from, to) : r \in refs}

(* Mutant: the loop bound keeps the old name. *)
Mut_RedirectBody(b, kinds, from, to) ==
    [managed |-> b.managed, forEach |-> b.forEach,
     when  |-> IF b.when = None THEN None ELSE Redirect(b.when, kinds, from, to),
     wires |-> RedirectAll(b.wires, kinds, from, to),
     raws  |-> RedirectAll(b.raws, kinds, from, to)]

RedirectBody(b, kinds, from, to) ==
    [managed |-> b.managed,
     forEach |-> IF b.forEach = None THEN None ELSE Redirect(b.forEach, kinds, from, to),
     when    |-> IF b.when = None THEN None ELSE Redirect(b.when, kinds, from, to),
     wires   |-> RedirectAll(b.wires, kinds, from, to),
     raws    |-> RedirectAll(b.raws, kinds, from, to)]
Redirected(resources, kinds, from, to) ==
    [n \in DOMAIN resources |-> RedirectBody(resources[n], kinds, from, to)]

(* The copy each edit works on. *)
WithParameter(d, p, decl) == [d EXCEPT !.params = With(d.params, p, decl)]
WithoutParameter(d, p) == [d EXCEPT !.params = Restrict(d.params, DOMAIN d.params \ {p})]
ParameterRenamed(d, from, to) ==
    [params    |-> Renamed(d.params, from, to),
     resources |-> Redirected(d.resources, ParamKinds, from, to),
     status    |-> d.status,
     templates |-> RedirectAll(d.templates, ParamKinds, from, to)]
WithResource(d, n, b) == [d EXCEPT !.resources = With(d.resources, n, b)]
WithoutResource(d, n) ==
    [d EXCEPT !.resources = Restrict(d.resources, DOMAIN d.resources \ {n})]

(* Mutant: the template bodies keep the old name. *)
Mut_ResourceRenamed(d, from, to) ==
    [d EXCEPT !.resources = Redirected(Renamed(d.resources, from, to), ResourceKinds, from, to)]

(* The wires of spec.xrd.status keep the old name.                         *)
ResourceRenamed(d, from, to) ==
    [params    |-> d.params,
     resources |-> Redirected(Renamed(d.resources, from, to), ResourceKinds, from, to),
     status    |-> d.status,
     templates |-> RedirectAll(d.templates, ResourceKinds, from, to)]

(* The resources that name parameter p, free text included. *)
ReferencingResources(d, p) ==
    {n \in DOMAIN d.resources :
        \E ref \in Checked(d.resources[n]) \cup d.resources[n].raws :
            ref.kind \in ParamKinds /\ ref.to = p}

(* Mutant: the loop bounds are not looked at. *)
Mut_StatusReferencingResources(d, name) ==
    {n \in DOMAIN d.resources \ {name} :
        \E ref \in d.resources[n].wires \cup d.resources[n].raws :
            ref.kind \in ResourceKinds /\ ref.to = name}

(* The other resources that name resource `name`. *)
StatusReferencingResources(d, name) ==
    {n \in DOMAIN d.resources \ {name} :
        \E ref \in Checked(d.resources[n]) \cup d.resources[n].raws :
            ref.kind \in ResourceKinds /\ ref.to = name}

InTemplates(d, kind, n) == [kind |-> kind, to |-> n] \in d.templates

-----------------------------------------------------------------------------
(* The edits *)

Commit(d) == Validate(d) /\ doc' = d

AddParameter(p, decl) ==
    /\ p \notin DOMAIN doc.params
    /\ Commit(WithParameter(doc, p, decl))

SetParameter(p, decl) ==
    /\ p \in DOMAIN doc.params
    /\ Commit(WithParameter(doc, p, decl))

RenameParameter(from, to) ==
    /\ from \in DOMAIN doc.params /\ to \notin DOMAIN doc.params
    /\ Commit(ParameterRenamed(doc, from, to))

DeleteParameter(p) ==
    /\ p \in DOMAIN doc.params
    /\ ReferencingResources(doc, p) = {}
    /\ ~InTemplates(doc, "spec", p)
    /\ Commit(WithoutParameter(doc, p))

AddResource(n, b) ==
    /\ n \notin DOMAIN doc.resources
    /\ Commit(WithResource(doc, n, b))

SetResource(n, b) ==
    /\ n \in DOMAIN doc.resources
    /\ Commit(WithResource(doc, n, b))

RenameResource(from, to) ==
    /\ from \in DOMAIN doc.resources /\ to \notin DOMAIN doc.resources
    /\ Commit(ResourceRenamed(doc, from, to))

(* Mutant: the entry is emptied and stays in the list. *)
Mut_DeleteResource(n) ==
    /\ n \in DOMAIN doc.resources
    /\ StatusReferencingResources(doc, n) = {}
    /\ ~InTemplates(doc, "observed", n)
    /\ Validate(WithoutResource(doc, n))
    /\ doc' = [doc EXCEPT !.resources[n] = None]

DeleteResource(n) ==
    /\ n \in DOMAIN doc.resources
    /\ StatusReferencingResources(doc, n) = {}
    /\ ~InTemplates(doc, "observed", n)
    /\ Commit(WithoutResource(doc, n))

Sending == \E n \in Names, b \in Bodies : AddResource(n, b) \/ SetResource(n, b)

Next ==
    \/ \E p \in Names, decl \in Decls : AddParameter(p, decl) \/ SetParameter(p, decl)
    \/ \E from, to \in Names : RenameParameter(from, to) \/ RenameResource(from, to)
    \/ \E n \in Names : DeleteParameter(n) \/ DeleteResource(n)
    \/ Sending

Spec == Init /\ [][Next]_doc

-----------------------------------------------------------------------------
(* Properties *)

TypeOK == IsDoc(doc)

(* The document on disk always validates. *)
Valid == Validate(doc)

(* The names free text reads that nothing declares.                        *)
Texts(d) == d.templates \cup UNION {d.resources[n].raws : n \in DOMAIN d.resources}
Dangling(d) ==
    {ref \in Texts(d) :
        ref.to \notin (IF ref.kind = "spec" THEN DOMAIN d.params ELSE DOMAIN d.resources)}

(* No rename, delete or change of a parameter leaves free text reading a   *)
(* name that is gone, which no validation would notice: text dangles only  *)
(* if it was sent so (rawReferencesParam, rewriteRawParam and their        *)
(* resource counterparts, edit.go).                                        *)
TextSurvives == [][Sending \/ Dangling(doc') \subseteq Dangling(doc)]_doc

(* A rename rewrites every reference Validate checks, so no rename to a    *)
(* free, well-formed name is refused - but of providerName where managed   *)
(* resources need it, and of a resource spec.xrd.status is wired from      *)
(* (RenameParameter and RenameResource, edit.go).                          *)
RenamesAccepted ==
    /\ \A from \in DOMAIN doc.params, to \in Names \ InvalidNames :
          to \in DOMAIN doc.params \/ (from = ProviderName /\ HasManagedResources(doc))
            \/ Validate(ParameterRenamed(doc, from, to))
    /\ \A from \in DOMAIN doc.resources \ doc.status, to \in Names \ InvalidNames :
          to \in DOMAIN doc.resources \/ Validate(ResourceRenamed(doc, from, to))

(* A delete refused for its references names every resource it would break, *)
(* so that one answer is enough to repair them all (the DeleteParameter and *)
(* DeleteResource comments, edit.go).                                       *)
Broken(d) == {n \in DOMAIN d.resources : ~BodyResolves(d, n)}
ReferencersNamed ==
    /\ \A p \in DOMAIN doc.params :
          Broken(WithoutParameter(doc, p)) \subseteq ReferencingResources(doc, p)
    /\ \A n \in DOMAIN doc.resources :
          Broken(WithoutResource(doc, n)) \subseteq StatusReferencingResources(doc, n)
=============================================================================
