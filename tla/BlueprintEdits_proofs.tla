------------------------ MODULE BlueprintEdits_proofs ------------------------
(***************************************************************************)
(* What holds of every sequence of edits, whatever the names, bodies and   *)
(* declarations requests carry.                                            *)
(***************************************************************************)
EXTENDS BlueprintEdits, TLAPS

AllKinds == ParamKinds \cup ResourceKinds

LEMMA KindFacts ==
    /\ LoopKinds \subseteq AllKinds /\ WhenKinds \subseteq AllKinds
    /\ WireKinds \subseteq AllKinds /\ TextKinds \subseteq AllKinds
    /\ ParamKinds \cap ResourceKinds = {}
  BY DEF AllKinds, LoopKinds, WhenKinds, WireKinds, TextKinds, ParamKinds, ResourceKinds

-----------------------------------------------------------------------------
(* Redirecting references *)

(* A redirected reference keeps its kind, and its name unless that is the  *)
(* one renamed.                                                            *)
LEMMA RedirectFacts ==
    ASSUME NEW K \in SUBSET AllKinds, NEW r \in Ref(K), NEW kinds,
           NEW from \in Names, NEW to \in Names
    PROVE  /\ Redirect(r, kinds, from, to) \in Ref(K)
           /\ Redirect(r, kinds, from, to).kind = r.kind
           /\ Redirect(r, kinds, from, to).to =
                 IF r.kind \in kinds /\ r.to = from THEN to ELSE r.to
  BY DEF Ref, Redirect

LEMMA RedirectAllTyped ==
    ASSUME NEW K \in SUBSET AllKinds, NEW R \in SUBSET Ref(K), NEW kinds,
           NEW from \in Names, NEW to \in Names
    PROVE  RedirectAll(R, kinds, from, to) \in SUBSET Ref(K)
<1> SUFFICES ASSUME NEW r \in R PROVE Redirect(r, kinds, from, to) \in Ref(K)
  BY DEF RedirectAll
<1>1. r \in Ref(K) OBVIOUS
<1> QED BY <1>1, RedirectFacts

LEMMA RefsAreNotNone ==
    ASSUME NEW r, r \in Ref(LoopKinds) \/ r \in Ref(WhenKinds)
    PROVE  r # None
  BY NoneAssumption DEF Ref

LEMMA CheckedTyped ==
    ASSUME NEW c \in Body PROVE Checked(c) \subseteq Ref(AllKinds)
  BY KindFacts DEF Body, Checked, Ref

LEMMA RedirectBodyFacts ==
    ASSUME NEW c \in Body, NEW kinds, NEW from \in Names, NEW to \in Names
    PROVE  /\ RedirectBody(c, kinds, from, to) \in Body
           /\ RedirectBody(c, kinds, from, to).managed = c.managed
           /\ RedirectBody(c, kinds, from, to).forEach = None <=> c.forEach = None
           /\ RedirectBody(c, kinds, from, to).raws = RedirectAll(c.raws, kinds, from, to)
           /\ \A s \in Checked(RedirectBody(c, kinds, from, to)) :
                 \E r \in Checked(c) : s = Redirect(r, kinds, from, to)
<1> DEFINE e == RedirectBody(c, kinds, from, to)
<1>1. LoopKinds \in SUBSET AllKinds /\ WhenKinds \in SUBSET AllKinds
      /\ WireKinds \in SUBSET AllKinds /\ TextKinds \in SUBSET AllKinds
  BY KindFacts
<1>2. c.wires \in SUBSET Ref(WireKinds) /\ c.raws \in SUBSET Ref(TextKinds)
      /\ c.managed \in BOOLEAN
      /\ c.forEach \in Ref(LoopKinds) \cup {None} /\ c.when \in Ref(WhenKinds) \cup {None}
  BY DEF Body
<1>3. e.wires \in SUBSET Ref(WireKinds) /\ e.raws \in SUBSET Ref(TextKinds)
  BY <1>1, <1>2, RedirectAllTyped DEF RedirectBody
<1>4. ASSUME c.forEach # None
      PROVE  /\ Redirect(c.forEach, kinds, from, to) \in Ref(LoopKinds)
             /\ Redirect(c.forEach, kinds, from, to) # None
  <2>1. c.forEach \in Ref(LoopKinds) BY <1>4, <1>2
  <2>2. Redirect(c.forEach, kinds, from, to) \in Ref(LoopKinds) BY <1>1, <2>1, RedirectFacts
  <2> QED BY <2>2, RefsAreNotNone
<1>5. ASSUME c.when # None
      PROVE  /\ Redirect(c.when, kinds, from, to) \in Ref(WhenKinds)
             /\ Redirect(c.when, kinds, from, to) # None
  <2>1. c.when \in Ref(WhenKinds) BY <1>5, <1>2
  <2>2. Redirect(c.when, kinds, from, to) \in Ref(WhenKinds) BY <1>1, <2>1, RedirectFacts
  <2> QED BY <2>2, RefsAreNotNone
<1>6. e.forEach \in Ref(LoopKinds) \cup {None} /\ e.when \in Ref(WhenKinds) \cup {None}
      /\ (e.forEach = None <=> c.forEach = None) /\ (e.when = None <=> c.when = None)
  BY <1>4, <1>5 DEF RedirectBody
<1>7. e \in Body
  BY <1>2, <1>3, <1>6 DEF RedirectBody, Body
<1>8. ASSUME NEW s \in Checked(e) PROVE \E r \in Checked(c) : s = Redirect(r, kinds, from, to)
  <2>1. CASE s \in e.wires
    BY <2>1 DEF RedirectBody, RedirectAll, Checked
  <2>2. CASE s = e.forEach /\ s # None
    BY <2>2, <1>6 DEF RedirectBody, Checked
  <2>3. CASE s = e.when /\ s # None
    BY <2>3, <1>6 DEF RedirectBody, Checked
  <2> QED BY <1>8, <2>1, <2>2, <2>3 DEF Checked
<1> QED BY <1>6, <1>7, <1>8 DEF RedirectBody

-----------------------------------------------------------------------------
(* The edited copies *)

LEMMA DocFacts ==
    ASSUME NEW d, IsDoc(d)
    PROVE  /\ DOMAIN d.params \subseteq Names /\ DOMAIN d.resources \subseteq Names
           /\ \A p \in DOMAIN d.params : d.params[p] \in Decl
           /\ \A n \in DOMAIN d.resources : d.resources[n] \in Body
  BY DEF IsDoc, Declares

(* A renamed document is a document. *)
LEMMA ParameterRenamedTyped ==
    ASSUME NEW d, IsDoc(d), NEW from \in DOMAIN d.params, NEW to \in Names,
           to \notin DOMAIN d.params
    PROVE  IsDoc(ParameterRenamed(d, from, to))
<1>1. from \in Names BY DocFacts
<1>2. Declares(Renamed(d.params, from, to), Decl)
  BY DocFacts DEF Declares, Renamed
<1>3. Declares(Redirected(d.resources, ParamKinds, from, to), Body)
  BY <1>1, DocFacts, RedirectBodyFacts DEF Declares, Redirected
<1>4. RedirectAll(d.templates, ParamKinds, from, to) \subseteq Ref(TextKinds)
  <2>1. d.templates \subseteq Ref(TextKinds) /\ TextKinds \in SUBSET AllKinds BY KindFacts DEF IsDoc
  <2> QED BY <1>1, <2>1, RedirectAllTyped
<1>5. d.status \subseteq Names BY DEF IsDoc
<1> QED BY <1>2, <1>3, <1>4, <1>5 DEF IsDoc, ParameterRenamed

LEMMA ResourceRenamedTyped ==
    ASSUME NEW d, IsDoc(d), NEW from \in DOMAIN d.resources, NEW to \in Names,
           to \notin DOMAIN d.resources
    PROVE  IsDoc(ResourceRenamed(d, from, to))
<1>1. from \in Names BY DocFacts
<1> DEFINE R == Renamed(d.resources, from, to)
<1>2. Declares(R, Body)
  BY DocFacts DEF Declares, Renamed
<1>3. Declares(Redirected(R, ResourceKinds, from, to), Body)
  <2> HIDE DEF R
  <2> QED BY <1>1, <1>2, RedirectBodyFacts DEF Declares, Redirected
<1>4. RedirectAll(d.templates, ResourceKinds, from, to) \subseteq Ref(TextKinds)
  <2>1. d.templates \subseteq Ref(TextKinds) /\ TextKinds \in SUBSET AllKinds BY KindFacts DEF IsDoc
  <2> QED BY <1>1, <2>1, RedirectAllTyped
<1>5. d.status \subseteq Names /\ Declares(d.params, Decl) BY DEF IsDoc
<1> QED BY <1>3, <1>4, <1>5 DEF IsDoc, ResourceRenamed

-----------------------------------------------------------------------------
(* Renaming breaks nothing Validate checks *)

LEMMA ParameterRenamedValid ==
    ASSUME NEW d, IsDoc(d), Validate(d),
           NEW from \in DOMAIN d.params, NEW to \in Names \ InvalidNames,
           to \notin DOMAIN d.params,
           from # ProviderName \/ ~HasManagedResources(d)
    PROVE  Validate(ParameterRenamed(d, from, to))
<1> DEFINE e == ParameterRenamed(d, from, to)
           body(n) == RedirectBody(d.resources[n], ParamKinds, from, to)
<1>1. from \in Names /\ from # to BY DocFacts
<1>2. /\ DOMAIN e.params = (DOMAIN d.params \ {from}) \cup {to}
      /\ e.params[to] = d.params[from]
      /\ \A y \in DOMAIN d.params \ {from} : e.params[y] = d.params[y]
  <2>1. e.params = Renamed(d.params, from, to) BY DEF ParameterRenamed
  <2> QED BY <2>1 DEF Renamed
<1>3. /\ DOMAIN e.resources = DOMAIN d.resources /\ e.status = d.status
      /\ \A n \in DOMAIN d.resources : e.resources[n] = body(n)
  BY DEF ParameterRenamed, Redirected
<1>4. \A n \in DOMAIN d.resources :
        /\ body(n).managed = d.resources[n].managed
        /\ body(n).forEach = None <=> d.resources[n].forEach = None
        /\ \A s \in Checked(body(n)) :
              \E r \in Checked(d.resources[n]) : s = Redirect(r, ParamKinds, from, to)
  BY <1>1, DocFacts, RedirectBodyFacts
<1> HIDE DEF e, body
<1>5. (DOMAIN e.params \cup DOMAIN e.resources) \cap InvalidNames = {}
  BY <1>2, <1>3 DEF Validate
<1>6. HasManagedResources(e) <=> HasManagedResources(d)
  BY <1>3, <1>4 DEF HasManagedResources
<1>7. HasManagedResources(e) =>
          /\ ProviderName \in DOMAIN e.params
          /\ e.params[ProviderName] = [type |-> "string", presence |-> "required"]
  BY <1>2, <1>6 DEF Validate
<1>8. \A n : Unlooped(e, n) <=> Unlooped(d, n)
  BY <1>3, <1>4 DEF Unlooped
<1>9. ASSUME NEW n \in DOMAIN d.resources, NEW s \in Checked(e.resources[n])
      PROVE  IF s.kind \in ParamKinds THEN ParamResolves(e, s) ELSE ResourceResolves(e, n, s)
  <2>1. PICK r \in Checked(d.resources[n]) : s = Redirect(r, ParamKinds, from, to)
    BY <1>3, <1>4, <1>9
  <2>2. r \in Ref(AllKinds) BY DocFacts, CheckedTyped
  <2>3. /\ s.kind = r.kind
        /\ s.to = IF r.kind \in ParamKinds /\ r.to = from THEN to ELSE r.to
    BY <1>1, <2>1, <2>2, RedirectFacts
  <2>4. IF r.kind \in ParamKinds THEN ParamResolves(d, r) ELSE ResourceResolves(d, n, r)
    BY DEF Validate, BodyResolves
  <2>5. CASE r.kind \in ParamKinds
    BY <1>2, <2>3, <2>4, <2>5 DEF ParamResolves, Admits
  <2>6. CASE r.kind \notin ParamKinds
    BY <1>8, <2>3, <2>4, <2>6 DEF ResourceResolves
  <2> QED BY <2>5, <2>6
<1>10. \A n \in DOMAIN e.resources : BodyResolves(e, n)
  BY <1>3, <1>9 DEF BodyResolves
<1>11. \A n \in e.status : Unlooped(e, n)
  BY <1>3, <1>8 DEF Validate
<1>12. Validate(e) BY <1>5, <1>7, <1>10, <1>11 DEF Validate
<1> QED BY <1>12 DEF e

LEMMA ResourceRenamedValid ==
    ASSUME NEW d, IsDoc(d), Validate(d),
           NEW from \in DOMAIN d.resources \ d.status, NEW to \in Names \ InvalidNames,
           to \notin DOMAIN d.resources
    PROVE  Validate(ResourceRenamed(d, from, to))
<1> DEFINE e == ResourceRenamed(d, from, to)
           old(n) == IF n = to THEN from ELSE n
           body(n) == RedirectBody(d.resources[old(n)], ResourceKinds, from, to)
<1>1. from \in Names /\ from # to BY DocFacts
<1>2. e.params = d.params /\ e.status = d.status BY DEF ResourceRenamed
<1>3. /\ DOMAIN e.resources = (DOMAIN d.resources \ {from}) \cup {to}
      /\ \A n \in DOMAIN e.resources : e.resources[n] = body(n)
      /\ \A n \in DOMAIN e.resources : old(n) \in DOMAIN d.resources
  BY DEF ResourceRenamed, Redirected, Renamed
<1>4. \A n \in DOMAIN e.resources :
        /\ body(n).managed = d.resources[old(n)].managed
        /\ body(n).forEach = None <=> d.resources[old(n)].forEach = None
        /\ \A s \in Checked(body(n)) :
              \E r \in Checked(d.resources[old(n)]) : s = Redirect(r, ResourceKinds, from, to)
  <2> SUFFICES ASSUME NEW n \in DOMAIN e.resources
               PROVE  /\ body(n).managed = d.resources[old(n)].managed
                      /\ body(n).forEach = None <=> d.resources[old(n)].forEach = None
                      /\ \A s \in Checked(body(n)) :
                            \E r \in Checked(d.resources[old(n)]) :
                                s = Redirect(r, ResourceKinds, from, to)
    OBVIOUS
  <2>1. d.resources[old(n)] \in Body BY <1>3, DocFacts
  <2> QED BY <1>1, <2>1, RedirectBodyFacts
<1> HIDE DEF e, body
<1>5. (DOMAIN e.params \cup DOMAIN e.resources) \cap InvalidNames = {}
  BY <1>2, <1>3 DEF Validate
<1>6. HasManagedResources(e) => HasManagedResources(d)
  BY <1>3, <1>4 DEF HasManagedResources
<1>7. /\ \A n \in DOMAIN d.resources \ {from} : Unlooped(d, n) => Unlooped(e, n)
      /\ Unlooped(d, from) => Unlooped(e, to)
  BY <1>3, <1>4 DEF Unlooped
<1>8. ASSUME NEW n \in DOMAIN e.resources, NEW s \in Checked(e.resources[n])
      PROVE  IF s.kind \in ParamKinds THEN ParamResolves(e, s) ELSE ResourceResolves(e, n, s)
  <2>1. PICK r \in Checked(d.resources[old(n)]) : s = Redirect(r, ResourceKinds, from, to)
    BY <1>3, <1>4, <1>8
  <2>2. r \in Ref(AllKinds) /\ AllKinds \in SUBSET AllKinds BY <1>3, DocFacts, CheckedTyped
  <2>3. /\ s.kind = r.kind
        /\ s.to = IF r.kind \in ResourceKinds /\ r.to = from THEN to ELSE r.to
    <3> HIDE DEF old
    <3>1. /\ Redirect(r, ResourceKinds, from, to).kind = r.kind
          /\ Redirect(r, ResourceKinds, from, to).to =
                IF r.kind \in ResourceKinds /\ r.to = from THEN to ELSE r.to
      BY <2>2 DEF Redirect, Ref
    <3> QED BY <2>1, <3>1
  <2>4. IF r.kind \in ParamKinds THEN ParamResolves(d, r) ELSE ResourceResolves(d, old(n), r)
    BY <1>3 DEF Validate, BodyResolves
  <2>5. CASE r.kind \in ParamKinds
    <3>1. r.kind \notin ResourceKinds BY <2>5, KindFacts
    <3> QED BY <1>2, <2>3, <2>4, <2>5, <3>1 DEF ParamResolves, Admits
  <2>6. CASE r.kind \notin ParamKinds
    <3>1. r.kind \in ResourceKinds BY <2>2, <2>6 DEF Ref, AllKinds
    <3>2. r.to # old(n) /\ Unlooped(d, r.to) BY <2>4, <2>6 DEF ResourceResolves
    <3>3. r.to \in DOMAIN d.resources BY <3>2 DEF Unlooped
    <3>4. s.to # n /\ Unlooped(e, s.to) BY <1>7, <2>3, <3>1, <3>2, <3>3
    <3> QED BY <2>3, <2>6, <3>4 DEF ResourceResolves
  <2> QED BY <2>5, <2>6
<1>9. \A n \in DOMAIN e.resources : BodyResolves(e, n)
  BY <1>8 DEF BodyResolves
<1>10. \A n \in e.status : Unlooped(e, n)
  BY <1>2, <1>7 DEF Validate, Unlooped
<1>11. Validate(e) BY <1>2, <1>5, <1>6, <1>9, <1>10 DEF Validate
<1> QED BY <1>11 DEF e

-----------------------------------------------------------------------------
(* Every document reached is well typed and valid *)

LEMMA WithTyped ==
    ASSUME NEW f, NEW S, Declares(f, S), NEW x \in Names, NEW v \in S
    PROVE  Declares(With(f, x, v), S)
  BY DEF Declares, With

LEMMA RestrictTyped ==
    ASSUME NEW f, NEW S, Declares(f, S), NEW x
    PROVE  Declares(Restrict(f, DOMAIN f \ {x}), S)
  BY DEF Declares, Restrict

LEMMA StepTyped == ASSUME TypeOK, Next PROVE TypeOK'
<1> USE DEF TypeOK, Commit
<1>1. ASSUME NEW p \in Names, NEW decl \in Decls, AddParameter(p, decl) \/ SetParameter(p, decl)
      PROVE  TypeOK'
  <2>1. Declares(doc.params, Decl) /\ decl \in Decl BY RequestAssumption DEF IsDoc
  <2>2. doc' = WithParameter(doc, p, decl) BY <1>1 DEF AddParameter, SetParameter
  <2>3. Declares(With(doc.params, p, decl), Decl) BY <2>1, WithTyped
  <2> QED BY <2>2, <2>3 DEF IsDoc, WithParameter
<1>2. ASSUME NEW from \in Names, NEW to \in Names, RenameParameter(from, to) PROVE TypeOK'
  BY <1>2, ParameterRenamedTyped DEF RenameParameter
<1>3. ASSUME NEW from \in Names, NEW to \in Names, RenameResource(from, to) PROVE TypeOK'
  BY <1>3, ResourceRenamedTyped DEF RenameResource
<1>4. ASSUME NEW p \in Names, DeleteParameter(p) PROVE TypeOK'
  <2>1. Declares(Restrict(doc.params, DOMAIN doc.params \ {p}), Decl)
    BY RestrictTyped DEF IsDoc
  <2> QED BY <1>4, <2>1 DEF DeleteParameter, IsDoc, WithoutParameter
<1>5. ASSUME NEW n \in Names, DeleteResource(n) PROVE TypeOK'
  <2>1. Declares(Restrict(doc.resources, DOMAIN doc.resources \ {n}), Body)
    BY RestrictTyped DEF IsDoc
  <2> QED BY <1>5, <2>1 DEF DeleteResource, IsDoc, WithoutResource
<1>6. ASSUME NEW n \in Names, NEW c \in Bodies, AddResource(n, c) \/ SetResource(n, c)
      PROVE  TypeOK'
  <2>1. Declares(doc.resources, Body) /\ c \in Body BY RequestAssumption DEF IsDoc
  <2>2. doc' = WithResource(doc, n, c) BY <1>6 DEF AddResource, SetResource
  <2>3. Declares(With(doc.resources, n, c), Body) BY <2>1, WithTyped
  <2> QED BY <2>2, <2>3 DEF IsDoc, WithResource
<1> QED BY <1>1, <1>2, <1>3, <1>4, <1>5, <1>6 DEF Next, Sending

LEMMA StepValid == ASSUME Next PROVE Valid'
<1> USE DEF Commit, Valid
<1>1. ASSUME NEW p \in Names, NEW decl \in Decls, AddParameter(p, decl) \/ SetParameter(p, decl)
      PROVE  Valid'
  BY <1>1 DEF AddParameter, SetParameter
<1>2. ASSUME NEW from \in Names, NEW to \in Names,
             RenameParameter(from, to) \/ RenameResource(from, to)
      PROVE  Valid'
  BY <1>2 DEF RenameParameter, RenameResource
<1>3. ASSUME NEW n \in Names, DeleteParameter(n) \/ DeleteResource(n) PROVE Valid'
  BY <1>3 DEF DeleteParameter, DeleteResource
<1>4. ASSUME NEW n \in Names, NEW c \in Bodies, AddResource(n, c) \/ SetResource(n, c)
      PROVE  Valid'
  BY <1>4 DEF AddResource, SetResource
<1> QED BY <1>1, <1>2, <1>3, <1>4 DEF Next, Sending

(* Type correctness: no edit leaves a hole, or a reference of the wrong     *)
(* kind, in the document.                                                  *)
THEOREM EditsTypeCorrect == Spec => []TypeOK
<1>1. Init => TypeOK BY StartAssumption DEF Init, TypeOK
<1>2. TypeOK /\ [Next]_doc => TypeOK'
  <2>1. ASSUME TypeOK, UNCHANGED doc PROVE TypeOK' BY <2>1 DEF TypeOK
  <2> QED BY <2>1, StepTyped
<1> QED BY <1>1, <1>2, PTL DEF Spec

(* The document always validates. *)
THEOREM EditsStayValid == Spec => []Valid
<1>1. Init => Valid BY StartAssumption DEF Init, Valid
<1>2. Valid /\ [Next]_doc => Valid'
  <2>1. ASSUME Valid, UNCHANGED doc PROVE Valid' BY <2>1 DEF Valid
  <2> QED BY <2>1, StepValid
<1> QED BY <1>1, <1>2, PTL DEF Spec

(* No rename to a free, well-formed name is refused, but for providerName  *)
(* and for resources spec.xrd.status is wired from.                        *)
THEOREM RenamesAlwaysAccepted == Spec => []RenamesAccepted
<1>1. TypeOK /\ Valid => RenamesAccepted
  <2> SUFFICES ASSUME TypeOK, Valid PROVE RenamesAccepted OBVIOUS
  <2>1. IsDoc(doc) /\ Validate(doc) BY DEF TypeOK, Valid
  <2>2. ASSUME NEW from \in DOMAIN doc.params, NEW to \in Names \ InvalidNames,
               to \notin DOMAIN doc.params,
               ~(from = ProviderName /\ HasManagedResources(doc))
        PROVE  Validate(ParameterRenamed(doc, from, to))
    BY <2>1, <2>2, ParameterRenamedValid
  <2>3. ASSUME NEW from \in DOMAIN doc.resources \ doc.status,
               NEW to \in Names \ InvalidNames, to \notin DOMAIN doc.resources
        PROVE  Validate(ResourceRenamed(doc, from, to))
    BY <2>1, <2>3, ResourceRenamedValid
  <2> QED BY <2>2, <2>3 DEF RenamesAccepted
<1> QED BY <1>1, EditsTypeCorrect, EditsStayValid, PTL

(* A delete refused for its references names every resource it would break. *)
THEOREM ReferencersAlwaysNamed == Spec => []ReferencersNamed
<1>1. TypeOK /\ Valid => ReferencersNamed
  <2> SUFFICES ASSUME TypeOK, Valid PROVE ReferencersNamed OBVIOUS
  <2>1. ASSUME NEW n \in DOMAIN doc.resources, NEW ref \in Checked(doc.resources[n])
        PROVE  IF ref.kind \in ParamKinds THEN ParamResolves(doc, ref)
                                          ELSE ResourceResolves(doc, n, ref)
    BY DEF Valid, Validate, BodyResolves
  <2>2. ASSUME NEW p \in DOMAIN doc.params, NEW n \in Broken(WithoutParameter(doc, p))
        PROVE  n \in ReferencingResources(doc, p)
    <3> DEFINE e == WithoutParameter(doc, p)
    <3>1. e.resources = doc.resources /\ DOMAIN e.params = DOMAIN doc.params \ {p}
          /\ \A q \in DOMAIN e.params : e.params[q] = doc.params[q]
      BY DEF TypeOK, IsDoc, WithoutParameter, Restrict
    <3> HIDE DEF e
    <3>2. n \in DOMAIN doc.resources /\ ~BodyResolves(e, n) BY <2>2, <3>1 DEF Broken, e
    <3>3. PICK ref \in Checked(doc.resources[n]) :
             ~IF ref.kind \in ParamKinds THEN ParamResolves(e, ref) ELSE ResourceResolves(e, n, ref)
      BY <3>1, <3>2 DEF BodyResolves
    <3>4. ResourceResolves(e, n, ref) <=> ResourceResolves(doc, n, ref)
      BY <3>1 DEF ResourceResolves, Unlooped
    <3>5. ref.kind \in ParamKinds /\ ~ParamResolves(e, ref) /\ ParamResolves(doc, ref)
      BY <2>1, <3>2, <3>3, <3>4
    <3>6. ref.to = p BY <3>1, <3>5 DEF ParamResolves
    <3> QED BY <3>2, <3>5, <3>6 DEF ReferencingResources
  <2>3. ASSUME NEW m \in DOMAIN doc.resources, NEW n \in Broken(WithoutResource(doc, m))
        PROVE  n \in StatusReferencingResources(doc, m)
    <3> DEFINE e == WithoutResource(doc, m)
    <3>1. e.params = doc.params /\ DOMAIN e.resources = DOMAIN doc.resources \ {m}
          /\ \A q \in DOMAIN e.resources : e.resources[q] = doc.resources[q]
      BY DEF TypeOK, IsDoc, WithoutResource, Restrict
    <3> HIDE DEF e
    <3>2. n \in DOMAIN doc.resources \ {m} /\ ~BodyResolves(e, n)
      BY <2>3, <3>1 DEF Broken, e
    <3>3. PICK ref \in Checked(doc.resources[n]) :
             ~IF ref.kind \in ParamKinds THEN ParamResolves(e, ref) ELSE ResourceResolves(e, n, ref)
      BY <3>1, <3>2 DEF BodyResolves
    <3>4. ParamResolves(e, ref) <=> ParamResolves(doc, ref)
      BY <3>1 DEF ParamResolves
    <3>5. ref.kind \notin ParamKinds /\ ~ResourceResolves(e, n, ref) /\ ResourceResolves(doc, n, ref)
      BY <2>1, <3>2, <3>3, <3>4
    <3>6. ref.to = m BY <3>1, <3>5 DEF ResourceResolves, Unlooped
    <3>7. ref.kind \in ResourceKinds
      <4>1. ref \in Ref(AllKinds) BY <3>2, <3>3, DocFacts, CheckedTyped DEF TypeOK
      <4> QED BY <3>5, <4>1 DEF Ref, AllKinds
    <3> QED BY <3>2, <3>6, <3>7 DEF StatusReferencingResources
  <2> QED BY <2>2, <2>3 DEF ReferencersNamed
<1> QED BY <1>1, EditsTypeCorrect, EditsStayValid, PTL

-----------------------------------------------------------------------------
(* Free text *)

LEMMA TextsTyped == ASSUME NEW d, IsDoc(d) PROVE Texts(d) \subseteq Ref(TextKinds)
<1>1. d.templates \subseteq Ref(TextKinds) BY DEF IsDoc
<1>2. ASSUME NEW n \in DOMAIN d.resources PROVE d.resources[n].raws \subseteq Ref(TextKinds)
  <2>1. d.resources[n] \in Body BY DocFacts
  <2> QED BY <2>1 DEF Body
<1> QED BY <1>1, <1>2 DEF Texts

(* A redirected text reads the new name, or is one that was there before.  *)
LEMMA RedirectedText ==
    ASSUME NEW R \in SUBSET Ref(TextKinds), NEW kinds, NEW from \in Names, NEW to \in Names,
           NEW s \in RedirectAll(R, kinds, from, to)
    PROVE  \E r \in R : IF r.kind \in kinds /\ r.to = from
                        THEN s.kind = r.kind /\ s.to = to
                        ELSE s = r
<1>1. PICK r \in R : s = Redirect(r, kinds, from, to) BY DEF RedirectAll
<1>2. r \in Ref(TextKinds) OBVIOUS
<1>3. CASE r.kind \in kinds /\ r.to = from
  <2>1. s = [r EXCEPT !.to = to] BY <1>1, <1>3 DEF Redirect
  <2>2. s.kind = r.kind /\ s.to = to BY <1>2, <2>1 DEF Ref
  <2> QED BY <1>3, <2>2
<1>4. CASE ~(r.kind \in kinds /\ r.to = from)
  <2>1. s = r BY <1>1, <1>4 DEF Redirect
  <2> QED BY <1>4, <2>1
<1> QED BY <1>3, <1>4

(* The names a text may read. *)
Readable(d, kind) == IF kind = "spec" THEN DOMAIN d.params ELSE DOMAIN d.resources

LEMMA TextKindFacts ==
    /\ TextKinds = {"spec", "observed"}
    /\ "spec" \in ParamKinds /\ "spec" \notin ResourceKinds
    /\ "observed" \in ResourceKinds /\ "observed" \notin ParamKinds
  BY DEF TextKinds, ParamKinds, ResourceKinds

(* What a rename makes of the texts, once it is known where they come from. *)
LEMMA RenamingKeepsTexts ==
    ASSUME NEW d, IsDoc(d), NEW e, NEW kinds, NEW from, NEW to,
           \A s \in Texts(e) : \E r \in Texts(d) :
               IF r.kind \in kinds /\ r.to = from THEN s.kind = r.kind /\ s.to = to ELSE s = r,
           \A kind \in TextKinds :
               Readable(e, kind) = IF kind \in kinds THEN (Readable(d, kind) \ {from}) \cup {to}
                                                     ELSE Readable(d, kind)
    PROVE  Dangling(e) \subseteq Dangling(d)
<1> SUFFICES ASSUME NEW s \in Texts(e), s.to \notin Readable(e, s.kind)
             PROVE  s \in Texts(d) /\ s.to \notin Readable(d, s.kind)
  BY DEF Dangling, Readable
<1>1. PICK r \in Texts(d) :
        IF r.kind \in kinds /\ r.to = from THEN s.kind = r.kind /\ s.to = to ELSE s = r
  OBVIOUS
<1>2. r.kind \in TextKinds BY TextsTyped DEF Ref
<1>3. CASE r.kind \in kinds /\ r.to = from BY <1>1, <1>2, <1>3
<1>4. CASE ~(r.kind \in kinds /\ r.to = from) BY <1>1, <1>2, <1>4
<1> QED BY <1>3, <1>4

LEMMA ParameterRenameKeepsTexts ==
    ASSUME NEW d, IsDoc(d), NEW from \in DOMAIN d.params, NEW to \in Names
    PROVE  Dangling(ParameterRenamed(d, from, to)) \subseteq Dangling(d)
<1> DEFINE e == ParameterRenamed(d, from, to)
<1>1. from \in Names BY DocFacts
<1>2. /\ e.params = Renamed(d.params, from, to)
      /\ e.resources = Redirected(d.resources, ParamKinds, from, to)
      /\ e.templates = RedirectAll(d.templates, ParamKinds, from, to)
  BY DEF ParameterRenamed
<1> HIDE DEF e
<1>3. ASSUME NEW s \in Texts(e)
      PROVE  \E r \in Texts(d) : IF r.kind \in ParamKinds /\ r.to = from
                                 THEN s.kind = r.kind /\ s.to = to ELSE s = r
  <2>1. CASE s \in e.templates
    <3>1. d.templates \in SUBSET Ref(TextKinds) BY DEF IsDoc
    <3> QED BY <1>1, <1>2, <2>1, <3>1, RedirectedText DEF Texts
  <2>2. CASE s \notin e.templates
    <3>1. PICK n \in DOMAIN e.resources : s \in e.resources[n].raws BY <2>2 DEF Texts
    <3>2. n \in DOMAIN d.resources /\ s \in RedirectAll(d.resources[n].raws, ParamKinds, from, to)
      BY <1>2, <3>1 DEF Redirected, RedirectBody
    <3>3. d.resources[n].raws \in SUBSET Ref(TextKinds) BY <3>2, DocFacts DEF Body
    <3>4. d.resources[n].raws \subseteq Texts(d) BY <3>2 DEF Texts
    <3> QED BY <1>1, <3>2, <3>3, <3>4, RedirectedText
  <2> QED BY <2>1, <2>2
<1>4. ASSUME NEW kind \in TextKinds
      PROVE  Readable(e, kind) = IF kind \in ParamKinds THEN (Readable(d, kind) \ {from}) \cup {to}
                                                        ELSE Readable(d, kind)
  BY <1>2, TextKindFacts DEF Readable, Renamed, Redirected
<1>5. Dangling(e) \subseteq Dangling(d) BY <1>3, <1>4, RenamingKeepsTexts
<1> QED BY <1>5 DEF e

LEMMA ResourceRenameKeepsTexts ==
    ASSUME NEW d, IsDoc(d), NEW from \in DOMAIN d.resources, NEW to \in Names
    PROVE  Dangling(ResourceRenamed(d, from, to)) \subseteq Dangling(d)
<1> DEFINE e == ResourceRenamed(d, from, to)
           old(n) == IF n = to THEN from ELSE n
<1>1. from \in Names BY DocFacts
<1>2. /\ e.params = d.params
      /\ e.resources = Redirected(Renamed(d.resources, from, to), ResourceKinds, from, to)
      /\ e.templates = RedirectAll(d.templates, ResourceKinds, from, to)
  BY DEF ResourceRenamed
<1> HIDE DEF e
<1>3. ASSUME NEW s \in Texts(e)
      PROVE  \E r \in Texts(d) : IF r.kind \in ResourceKinds /\ r.to = from
                                 THEN s.kind = r.kind /\ s.to = to ELSE s = r
  <2>1. CASE s \in e.templates
    <3>1. d.templates \in SUBSET Ref(TextKinds) BY DEF IsDoc
    <3> QED BY <1>1, <1>2, <2>1, <3>1, RedirectedText DEF Texts
  <2>2. CASE s \notin e.templates
    <3>1. PICK n \in DOMAIN e.resources : s \in e.resources[n].raws BY <2>2 DEF Texts
    <3>2. /\ old(n) \in DOMAIN d.resources
          /\ s \in RedirectAll(d.resources[old(n)].raws, ResourceKinds, from, to)
      <4>1. /\ n \in DOMAIN Renamed(d.resources, from, to)
            /\ e.resources[n] = RedirectBody(Renamed(d.resources, from, to)[n], ResourceKinds, from, to)
        BY <1>2, <3>1 DEF Redirected
      <4>2. old(n) \in DOMAIN d.resources /\ Renamed(d.resources, from, to)[n] = d.resources[old(n)]
        BY <4>1 DEF Renamed
      <4>3. e.resources[n].raws = RedirectAll(d.resources[old(n)].raws, ResourceKinds, from, to)
        BY <4>1, <4>2 DEF RedirectBody
      <4> QED BY <3>1, <4>2, <4>3
    <3> HIDE DEF old
    <3>3. d.resources[old(n)].raws \in SUBSET Ref(TextKinds) BY <3>2, DocFacts DEF Body
    <3>4. d.resources[old(n)].raws \subseteq Texts(d) BY <3>2 DEF Texts
    <3> QED BY <1>1, <3>2, <3>3, <3>4, RedirectedText
  <2> QED BY <2>1, <2>2
<1>4. ASSUME NEW kind \in TextKinds
      PROVE  Readable(e, kind) = IF kind \in ResourceKinds THEN (Readable(d, kind) \ {from}) \cup {to}
                                                           ELSE Readable(d, kind)
  BY <1>2, TextKindFacts DEF Readable, Renamed, Redirected
<1>5. Dangling(e) \subseteq Dangling(d) BY <1>3, <1>4, RenamingKeepsTexts
<1> QED BY <1>5 DEF e

(* What a parameter edit that keeps every name does to the texts. *)
LEMMA DeclaringKeepsTexts ==
    ASSUME NEW d, IsDoc(d), NEW p, NEW decl
    PROVE  Dangling(WithParameter(d, p, decl)) \subseteq Dangling(d)
<1>1. /\ WithParameter(d, p, decl).resources = d.resources
      /\ WithParameter(d, p, decl).templates = d.templates
      /\ DOMAIN WithParameter(d, p, decl).params = DOMAIN d.params \cup {p}
  BY DEF IsDoc, WithParameter, With
<1> QED BY <1>1 DEF Dangling, Texts

(* A delete that found no reference, in free text either, leaves none.     *)
LEMMA ParameterDeleteKeepsTexts ==
    ASSUME NEW d, IsDoc(d), NEW p, ReferencingResources(d, p) = {}, ~InTemplates(d, "spec", p)
    PROVE  Dangling(WithoutParameter(d, p)) \subseteq Dangling(d)
<1> DEFINE e == WithoutParameter(d, p)
<1>1. /\ e.resources = d.resources /\ e.templates = d.templates
      /\ DOMAIN e.params = DOMAIN d.params \ {p}
  BY DEF IsDoc, WithoutParameter, Restrict
<1> HIDE DEF e
<1>2. Texts(e) = Texts(d) BY <1>1 DEF Texts
<1>3. ASSUME NEW s \in Texts(d), s.kind = "spec" PROVE s.to # p
  <2>1. CASE s \in d.templates
    <3>1. s \in Ref(TextKinds) BY TextsTyped
    <3> QED BY <1>3, <2>1, <3>1 DEF InTemplates, Ref
  <2>2. CASE s \notin d.templates
    <3>1. PICK n \in DOMAIN d.resources : s \in d.resources[n].raws BY <2>2 DEF Texts
    <3>2. ASSUME s.to = p PROVE FALSE
      <4>1. s \in Checked(d.resources[n]) \cup d.resources[n].raws /\ s.kind \in ParamKinds
        BY <1>3, <3>1, TextKindFacts
      <4> QED BY <3>2, <4>1 DEF ReferencingResources
    <3> QED BY <3>2
  <2> QED BY <2>1, <2>2
<1>4. Dangling(e) \subseteq Dangling(d) BY <1>1, <1>2, <1>3 DEF Dangling
<1> QED BY <1>4 DEF e

LEMMA ResourceDeleteKeepsTexts ==
    ASSUME NEW d, IsDoc(d), NEW m, StatusReferencingResources(d, m) = {},
           ~InTemplates(d, "observed", m)
    PROVE  Dangling(WithoutResource(d, m)) \subseteq Dangling(d)
<1> DEFINE e == WithoutResource(d, m)
<1>1. /\ e.params = d.params /\ e.templates = d.templates
      /\ DOMAIN e.resources = DOMAIN d.resources \ {m}
      /\ \A n \in DOMAIN e.resources : e.resources[n] = d.resources[n]
  BY DEF IsDoc, WithoutResource, Restrict
<1> HIDE DEF e
<1>2. Texts(e) \subseteq Texts(d) BY <1>1 DEF Texts
<1>3. ASSUME NEW s \in Texts(e), s.kind # "spec" PROVE s.to # m
  <2>1. s \in Ref(TextKinds) BY <1>2, TextsTyped
  <2>2. s.kind = "observed" BY <1>3, <2>1, TextKindFacts DEF Ref
  <2>3. CASE s \in d.templates
    BY <2>1, <2>2, <2>3 DEF InTemplates, Ref
  <2>4. CASE s \notin d.templates
    <3>1. PICK n \in DOMAIN e.resources : s \in e.resources[n].raws BY <1>1, <2>4 DEF Texts
    <3>2. n \in DOMAIN d.resources \ {m} /\ s \in d.resources[n].raws BY <1>1, <3>1
    <3> QED BY <2>2, <3>2, TextKindFacts DEF StatusReferencingResources
  <2> QED BY <2>3, <2>4
<1>4. Dangling(e) \subseteq Dangling(d) BY <1>1, <1>2, <1>3 DEF Dangling
<1> QED BY <1>4 DEF e

(* No rename, delete or change of a parameter leaves free text reading a   *)
(* name that is gone (the raw-text rewrites and scans of edit.go).         *)
THEOREM TextAlwaysSurvives == Spec => TextSurvives
<1>1. TypeOK /\ [Next]_doc => Sending \/ Dangling(doc') \subseteq Dangling(doc)
  <2> SUFFICES ASSUME IsDoc(doc), [Next]_doc, ~Sending
               PROVE  Dangling(doc') \subseteq Dangling(doc)
    BY DEF TypeOK
  <2>1. CASE UNCHANGED doc BY <2>1
  <2>2. ASSUME NEW p \in Names, NEW decl \in Decls, AddParameter(p, decl) \/ SetParameter(p, decl)
        PROVE  Dangling(doc') \subseteq Dangling(doc)
    <3>1. doc' = WithParameter(doc, p, decl) BY <2>2 DEF AddParameter, SetParameter, Commit
    <3> QED BY <3>1, DeclaringKeepsTexts
  <2>3. ASSUME NEW from \in Names, NEW to \in Names, RenameParameter(from, to)
        PROVE  Dangling(doc') \subseteq Dangling(doc)
    BY <2>3, ParameterRenameKeepsTexts DEF RenameParameter, Commit
  <2>4. ASSUME NEW from \in Names, NEW to \in Names, RenameResource(from, to)
        PROVE  Dangling(doc') \subseteq Dangling(doc)
    BY <2>4, ResourceRenameKeepsTexts DEF RenameResource, Commit
  <2>5. ASSUME NEW p \in Names, DeleteParameter(p)
        PROVE  Dangling(doc') \subseteq Dangling(doc)
    BY <2>5, ParameterDeleteKeepsTexts DEF DeleteParameter, Commit
  <2>6. ASSUME NEW n \in Names, DeleteResource(n)
        PROVE  Dangling(doc') \subseteq Dangling(doc)
    BY <2>6, ResourceDeleteKeepsTexts DEF DeleteResource, Commit
  <2> QED BY <2>1, <2>2, <2>3, <2>4, <2>5, <2>6 DEF Next
<1> QED BY <1>1, EditsTypeCorrect, PTL DEF Spec, TextSurvives
=============================================================================
