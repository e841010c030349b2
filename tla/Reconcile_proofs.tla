-------------------------- MODULE Reconcile_proofs --------------------------
(***************************************************************************)
(* Reconcile, for any documents, composites, environments and statuses.    *)
(***************************************************************************)
EXTENDS Reconcile, Rendering_proofs

(* The document is one the emitters take, the plan its plan, and the       *)
(* composite one its XRD admits.                                           *)
Generated ==
    /\ doc \in Docs /\ Document(doc) /\ Emits(doc)
    /\ plan = Plan(doc)
    /\ Admitted(doc, spec)

LEMMA InitGenerated == Init => Generated
<1>1. SUFFICES ASSUME Init PROVE Generated OBVIOUS
<1>2. doc \in Docs /\ Emits(doc) /\ plan = Plan(doc) /\ spec = SampleXR(doc) BY <1>1 DEF Init
<1>3. Document(doc) /\ Valid(doc) BY <1>2, DocsAssumption DEF Emits
<1> QED BY <1>2, <1>3, SampleAdmitted DEF Generated

LEMMA NextGenerated == Generated /\ [Next]_vars => Generated'
<1>1. SUFFICES ASSUME Generated, [Next]_vars PROVE Generated' OBVIOUS
<1>2. CASE spec' = spec /\ doc' = doc /\ plan' = plan BY <1>1, <1>2 DEF Generated
<1>3. CASE EditXR
  <2>1. spec' \in SpecsOf(doc) /\ doc' = doc /\ plan' = plan
    BY <1>1, <1>3 DEF EditXR, Specs, Generated
  <2>2. Admitted(doc, spec') BY <2>1 DEF SpecsOf
  <2> QED BY <1>1, <2>1, <2>2 DEF Generated
<1>4. CASE Run BY <1>2, <1>4 DEF Run
<1>5. CASE Provide BY <1>2, <1>5 DEF Provide
<1>6. CASE ChangeEnv BY <1>2, <1>6 DEF ChangeEnv
<1>7. CASE Recreate BY <1>2, <1>7 DEF Recreate
<1>8. CASE UNCHANGED vars BY <1>2, <1>8 DEF vars
<1> QED BY <1>1, <1>3, <1>4, <1>5, <1>6, <1>7, <1>8 DEF Next

THEOREM AlwaysGenerated == Spec => []Generated
<1>1. Init => Generated BY InitGenerated
<1>2. Generated /\ [Next]_vars => Generated' BY NextGenerated
<1> QED BY <1>1, <1>2, PTL DEF Spec

(* No render fails: for every composite the XRD admits, every environment  *)
(* and whatever is observed, no template dereferences what is not there.   *)
THEOREM RenderAlwaysSucceeds == Spec => []RenderSucceeds
<1>1. Generated => RenderSucceeds
  <2>1. SUFFICES ASSUME Generated PROVE Evaluates(doc, World) BY DEF RenderSucceeds
  <2>2. World.plan = plan /\ World.spec = spec BY DEF World
  <2> QED BY <2>1, <2>2, EmittedEvaluates DEF Generated
<1> QED BY <1>1, AlwaysGenerated, PTL

-----------------------------------------------------------------------------
(* Types *)

LEMMA InitTyped == Init => TypeOK
<1>1. SUFFICES ASSUME Init PROVE TypeOK OBVIOUS
<1>2. Generated BY <1>1, InitGenerated
<1>3. DOMAIN env \subseteq DOMAIN doc.env BY <1>1 DEF Init, Environments
<1>4. composed = {} /\ DOMAIN observed = {} /\ DOMAIN reported = {} BY <1>1 DEF Init
<1> QED BY <1>2, <1>3, <1>4 DEF TypeOK, Generated, ItemKeys

LEMMA NextTyped == TypeOK /\ Generated /\ Generated' /\ [Next]_vars => TypeOK'
<1>1. SUFFICES ASSUME TypeOK, Generated, Generated', [Next]_vars PROVE TypeOK' OBVIOUS
<1>2. doc' \in Docs /\ Admitted(doc', spec') BY <1>1 DEF Generated
<1>3. CASE Run
  <2>1. DOMAIN observed' = ItemKeys(composed') BY <1>3 DEF Run
  <2>2. DOMAIN reported' \subseteq DOMAIN doc.status BY <1>3 DEF Run, Report, StatusLines
  <2> QED BY <1>1, <1>2, <1>3, <2>1, <2>2 DEF TypeOK, Run
<1>4. CASE Provide
  <2>1. DOMAIN observed' = DOMAIN observed BY <1>4 DEF Provide
  <2> QED BY <1>1, <1>2, <1>4, <2>1 DEF TypeOK, Provide
<1>5. CASE EditXR BY <1>1, <1>2, <1>5 DEF TypeOK, EditXR
<1>6. CASE ChangeEnv BY <1>1, <1>2, <1>6 DEF TypeOK, ChangeEnv, Environments
<1>7. CASE Recreate
  <2>1. DOMAIN observed' = DOMAIN observed BY <1>7 DEF Recreate
  <2> QED BY <1>1, <1>2, <1>7, <2>1 DEF TypeOK, Recreate
<1>8. CASE UNCHANGED vars BY <1>1, <1>8 DEF TypeOK, vars
<1> QED BY <1>1, <1>3, <1>4, <1>5, <1>6, <1>7, <1>8 DEF Next

(* The sample and every edit of it are admitted, and statuses are those of *)
(* what is composed.                                                       *)
THEOREM ReconcileTypeCorrect == Spec => []TypeOK
<1>1. Init => TypeOK BY InitTyped
<1>2. TypeOK /\ Generated /\ Generated' /\ [Next]_vars => TypeOK' BY NextTyped
<1> QED BY <1>1, <1>2, AlwaysGenerated, PTL DEF Spec

-----------------------------------------------------------------------------
(* The engines *)

(* A run reads numbers from the environment. *)
EnvTyped == env \in Environments(doc)

LEMMA AlwaysEnvTyped == Spec => []EnvTyped
<1>1. Init => EnvTyped BY DEF Init, EnvTyped
<1>2. EnvTyped /\ [Next]_vars => EnvTyped'
  <2>1. SUFFICES ASSUME EnvTyped, [Next]_vars PROVE EnvTyped' OBVIOUS
  <2>2. CASE env' = env /\ doc' = doc BY <2>1, <2>2 DEF EnvTyped
  <2>3. CASE Run BY <2>2, <2>3 DEF Run
  <2>4. CASE Provide BY <2>2, <2>4 DEF Provide
  <2>5. CASE EditXR BY <2>2, <2>5 DEF EditXR
  <2>6. CASE ChangeEnv
    <3>1. doc' = doc /\ env' \in Environments(doc) BY <2>6 DEF ChangeEnv
    <3> QED BY <3>1 DEF EnvTyped
  <2>7. CASE Recreate BY <2>2, <2>7 DEF Recreate
  <2>8. CASE UNCHANGED vars BY <2>2, <2>8 DEF vars
  <2> QED BY <2>1, <2>3, <2>4, <2>5, <2>6, <2>7, <2>8 DEF Next
<1> QED BY <1>1, <1>2, PTL DEF Spec

LEMMA EnvNumbers == EnvTyped => Numbers(World)
<1>1. SUFFICES ASSUME EnvTyped PROVE Numbers(World) OBVIOUS
<1>2. PICK present \in SUBSET DOMAIN doc.env : env \in [present -> EnvValues]
  BY <1>1 DEF EnvTyped, Environments
<1>3. \A key \in DOMAIN env : env[key] \in EnvValues BY <1>2
<1>4. World.env = env BY DEF World
<1> QED BY <1>3, <1>4, ValuesAssumption DEF Numbers

(* Whatever the composite, the environment and the statuses observed, the  *)
(* three engines compose a document they all take alike: under the same    *)
(* condition, as often, with the same lines.                               *)
THEOREM EnginesAlwaysAgree ==
    ASSUME ObjectsAtTop
    PROVE  Spec => []EnginesAgree
<1>1. ASSUME Generated, EnvTyped PROVE EnginesAgree
  <2>1. /\ World.plan = Plan(doc) /\ World.spec = spec
    BY <1>1 DEF World, Generated
  <2>2. Numbers(World) BY <1>1, EnvNumbers
  <2>3. /\ doc \in Docs /\ Document(doc) /\ Emits(doc) /\ Valid(doc) /\ Admitted(doc, World.spec)
    BY <1>1, <2>1 DEF Generated, Emits
  <2> DEFINE w == World
  <2>4. w.plan = Plan(doc) /\ Admitted(doc, w.spec) /\ Numbers(w) BY <2>1, <2>2, <2>3
  <2> SUFFICES ASSUME NEW r \in ToSet(doc.resources)
      PROVE /\ doc.templates = {} =>
                 /\ GoWhenHolds(doc, w, r) <=> PythonWhenHolds(doc, w, r)
                 /\ r.forEach = None \/ GoCount(doc, w, r) = PythonCount(doc, w, r)
                 /\ GoLines(doc, w, r) = PythonLines(doc, w, r)
            /\ doc.templates = {} /\ DOMAIN doc.env = {} =>
                 /\ GoWhenHolds(doc, w, r) <=> KclWhenHolds(doc, w, r)
                 /\ r.forEach = None \/ GoCount(doc, w, r) = KclCount(doc, w, r)
                 /\ GoLines(doc, w, r) = KclLines(doc, w, r)
    BY DEF EnginesAgree
  <2> HIDE DEF w
  <2>5. PICK planned \in ToSet(doc.resources) : Lines(w, r) = PlannedLines(doc, planned)
    BY <2>3, <2>4, GivenPlan
  <2>6. \A line \in Lines(w, r) : IsObjectWire(doc, line[2]) => Len(line[2].path) = 1
    BY <2>3, <2>5 DEF ObjectsAtTop
  <2>7. /\ GoLines(doc, w, r) = PythonLines(doc, w, r)
        /\ DOMAIN doc.env = {} => GoLines(doc, w, r) = KclLines(doc, w, r)
    BY <2>3, <2>4, <2>6, LinesAgree
  <2>8. /\ GoWhenHolds(doc, w, r) <=> PythonWhenHolds(doc, w, r)
        /\ DOMAIN doc.env = {} => (GoWhenHolds(doc, w, r) <=> KclWhenHolds(doc, w, r))
    BY <2>3, <2>4, WhenAgrees
  <2>9. \/ r.forEach = None
        \/ /\ GoCount(doc, w, r) = PythonCount(doc, w, r)
           /\ DOMAIN doc.env = {} => GoCount(doc, w, r) = KclCount(doc, w, r)
    BY <2>3, <2>4, CountsAgree
  <2> QED BY <2>7, <2>8, <2>9
<1>2. Generated /\ EnvTyped => EnginesAgree BY <1>1
<1> QED BY <1>2, AlwaysGenerated, AlwaysEnvTyped, PTL

-----------------------------------------------------------------------------
(* Names *)

(* However many resources a name goes through, and whichever engine        *)
(* renders it, a reference to the name of a native resource is that name.  *)
THEOREM NamesAlwaysAgree ==
    ASSUME ObjectsAtTop
    PROVE  Spec => []NamesAgree
<1>1. ASSUME Generated PROVE NamesAgree
  <2> DEFINE w == World
  <2>1. w.plan = Plan(doc) /\ Admitted(doc, w.spec) BY <1>1 DEF World, Generated
  <2>2. doc \in Docs /\ Document(doc) /\ Emits(doc) BY <1>1 DEF Generated
  <2> SUFFICES ASSUME NEW r \in ToSet(doc.resources), NEW p \in DOMAIN r.fields,
                      r.fields[p].kind = "name",
                      Schema(doc, ResourceNamed(doc, r.fields[p].ref)).native,
                      NEW item \in Items(doc, w), NEW at,
                      <<at, Shows(w, Root(doc, r.fields[p]))>> \in item.lines
      PROVE  Shows(w, Root(doc, r.fields[p])) = Named(doc, w, ResourceNamed(doc, r.fields[p].ref))
    BY DEF NamesAgree
  <2> HIDE DEF w
  <2>3. \A q \in ToSet(doc.resources) : \A line \in Lines(w, q) :
           IsObjectWire(doc, line[2]) => Len(line[2].path) = 1
    <3>1. \A q \in ToSet(doc.resources) :
             \E planned \in ToSet(doc.resources) : Lines(w, q) = PlannedLines(doc, planned)
      BY <2>1, <2>2, GivenPlan
    <3> QED BY <2>2, <3>1 DEF ObjectsAtTop
  <2> QED BY <2>1, <2>2, <2>3, ReferenceIsTheName
<1>2. Generated => NamesAgree BY <1>1
<1> QED BY <1>2, AlwaysGenerated, PTL

-----------------------------------------------------------------------------
(* What is required *)

(* Prefixes of paths, element by element.                                  *)
LEMMA PrefixElements ==
    ASSUME NEW s, IsPath(s), NEW t, IsPath(t)
    PROVE  IsPrefix(s, t) <=> Len(s) <= Len(t) /\ \A i \in 1..Len(s) : s[i] = t[i]
<1> DEFINE S == ToSet(s) \union ToSet(t)
<1>1. s \in Seq(S) /\ t \in Seq(S)
  <2>1. s \in Seq(ToSet(s)) /\ t \in Seq(ToSet(t)) BY DEF IsPath
  <2> QED BY <2>1, SeqMonotonic
<1>2. Len(s) \in Nat /\ Len(t) \in Nat /\ Len(s) >= 1 BY WholePath
<1> HIDE DEF S
<1>3. SubSeq(s, 1, Len(s)) = s BY WholePath
<1>4. ASSUME Len(s) <= Len(t)
      PROVE  /\ SubSeq(t, 1, Len(s)) \in Seq(S) /\ Len(SubSeq(t, 1, Len(s))) = Len(s)
             /\ \A i \in 1..Len(s) : SubSeq(t, 1, Len(s))[i] = t[i]
  <2>1. \A i \in 1..Len(s) : t[i] \in S BY <1>1, <1>2, <1>4, ElementOfSeq
  <2> QED BY <1>2, <2>1, SubSeqProperties
<1>5. ASSUME IsPrefix(s, t) PROVE Len(s) <= Len(t) /\ \A i \in 1..Len(s) : s[i] = t[i]
  <2>1. Len(s) <= Len(t) /\ s = SubSeq(t, 1, Len(s)) BY <1>3, <1>5 DEF IsPrefix
  <2> QED BY <1>4, <2>1
<1>6. ASSUME Len(s) <= Len(t), \A i \in 1..Len(s) : s[i] = t[i] PROVE IsPrefix(s, t)
  <2>1. s = SubSeq(t, 1, Len(s)) BY <1>1, <1>4, <1>6, SeqEqual
  <2> QED BY <1>3, <1>6, <2>1 DEF IsPrefix
<1> QED BY <1>5, <1>6

(* A path below a prefix is found again behind it.                         *)
LEMMA BehindPrefix ==
    ASSUME NEW p, IsPath(p), NEW prefix, IsPath(prefix)
    PROVE  /\ Len(prefix \o p) = Len(prefix) + Len(p)
           /\ SubSeq(prefix \o p, Len(prefix) + 1, Len(prefix) + Len(p)) = p
           /\ IsPrefix(prefix, prefix \o p)
           /\ (prefix \o p)[Len(prefix) + 1] = p[1]
<1> DEFINE S == ToSet(p) \union ToSet(prefix)
<1>1. prefix \in Seq(S) /\ p \in Seq(S)
  <2>1. prefix \in Seq(ToSet(prefix)) /\ p \in Seq(ToSet(p)) BY DEF IsPath
  <2> QED BY <2>1, SeqMonotonic
<1>2. Len(p) \in Nat /\ Len(prefix) \in Nat /\ Len(p) >= 1 /\ Len(prefix) >= 1 BY WholePath
<1> HIDE DEF S
<1>3. /\ Len(prefix \o p) = Len(prefix) + Len(p)
      /\ \A i \in 1..Len(prefix) + Len(p) :
            (prefix \o p)[i] = IF i <= Len(prefix) THEN prefix[i] ELSE p[i - Len(prefix)]
  BY <1>1, ConcatProperties
<1>4. SubSeq(prefix \o p, Len(prefix) + 1, Len(prefix) + Len(p)) = p
  <2>1. SubSeq(prefix \o p, Len(prefix) + 1, Len(prefix) + Len(p))
          = SubSeq(p, Len(prefix) + 1 - Len(prefix), Len(prefix) + Len(p) - Len(prefix))
    <3>1. /\ Len(prefix) + 1 \in Len(prefix) + 1..Len(prefix) + Len(p)
          /\ Len(prefix) + Len(p) \in Len(prefix) + 1..Len(prefix) + Len(p)
      BY <1>2
    <3> QED BY <1>1, <3>1, SubSeqOfConcat2
  <2>2. Len(prefix) + 1 - Len(prefix) = 1 /\ Len(prefix) + Len(p) - Len(prefix) = Len(p) BY <1>2
  <2> QED BY <2>1, <2>2, WholePath
<1>5. IsPrefix(prefix, prefix \o p)
  <2>1. IsPath(prefix \o p) BY PrefixedPath
  <2>2. Len(prefix) <= Len(prefix \o p) /\ \A i \in 1..Len(prefix) : prefix[i] = (prefix \o p)[i]
    BY <1>2, <1>3
  <2> QED BY <2>1, <2>2, PrefixElements
<1>6. (prefix \o p)[Len(prefix) + 1] = p[1]
  <2>1. /\ Len(prefix) + 1 \in 1..Len(prefix) + Len(p) /\ ~(Len(prefix) + 1 <= Len(prefix))
        /\ Len(prefix) + 1 - Len(prefix) = 1
    BY <1>2
  <2> QED BY <1>3, <2>1
<1> QED BY <1>3, <1>4, <1>5, <1>6

LEMMA BelowSpec ==
    ASSUME NEW p, IsPath(p), NEW k, p[1] = k
    PROVE  IsPrefix(<<"spec", k>>, <<"spec">> \o p)
<1> DEFINE top == <<"spec">>
           key == <<"spec", k>>
           whole == top \o p
<1>1. /\ Len(top) = 1 /\ top[1] = "spec" /\ 1 + 1 = 2
      /\ Len(key) = 2 /\ key[1] = "spec" /\ key[2] = k
  OBVIOUS
<1>2. IsPath(top) /\ IsPath(key) BY ShortPaths
<1> HIDE DEF top, key
<1>3. IsPath(whole) BY <1>2, PrefixedPath
<1>4. Len(whole) = Len(top) + Len(p) /\ IsPrefix(top, whole) /\ whole[Len(top) + 1] = p[1]
  BY <1>2, BehindPrefix
<1>5. Len(p) \in Nat /\ Len(p) >= 1 BY WholePath
<1> HIDE DEF whole
<1>6. whole[1] = "spec"
  <2>1. \A i \in 1..Len(top) : top[i] = whole[i] BY <1>2, <1>3, <1>4, PrefixElements
  <2> QED BY <1>1, <2>1
<1>7. Len(key) <= Len(whole) BY <1>1, <1>4, <1>5
<1>8. \A i \in 1..Len(key) : key[i] = whole[i] BY <1>1, <1>4, <1>6
<1>9. IsPrefix(key, whole) BY <1>2, <1>3, <1>7, <1>8, PrefixElements
<1> QED BY <1>9 DEF key, whole, top

(* What a path is looked up by has its segments, an index apart.           *)
LEMMA LookupPath ==
    ASSUME NEW p, IsPath(p)
    PROVE  /\ IsPath(Lookup(p)) /\ Len(Lookup(p)) = Len(p)
           /\ \A i \in 1..Len(p) : Lookup(p)[i] = IF Indexed(p[i]) THEN Indices[1] ELSE p[i]
<1> DEFINE S == ToSet(p) \union {Indices[1]}
           e(i) == IF Indexed(p[i]) THEN Indices[1] ELSE p[i]
<1>1. p \in Seq(ToSet(p)) /\ Len(p) \in Nat /\ Len(p) >= 1 BY WholePath DEF IsPath
<1>2. DOMAIN p = 1..Len(p) BY <1>1, LenProperties
<1>3. Lookup(p) = [i \in 1..Len(p) |-> e(i)] BY <1>2 DEF Lookup
<1>4. \A i \in 1..Len(p) : e(i) \in S BY <1>2 DEF ToSet
<1> HIDE DEF S, e
<1>5. Lookup(p) \in Seq(S) /\ Len(Lookup(p)) = Len(p) BY <1>1, <1>3, <1>4
<1>6. IsPath(Lookup(p)) BY <1>1, <1>5, SequenceIsPath
<1>7. \A i \in 1..Len(p) : Lookup(p)[i] = e(i) BY <1>3
<1> QED BY <1>5, <1>6, <1>7 DEF e

LEMMA AppendedParts ==
    ASSUME NEW p, IsPath(p), NEW k
    PROVE  /\ Len(Append(p, k)) = Len(p) + 1 /\ Last(Append(p, k)) = k /\ Front(Append(p, k)) = p
           /\ \A i \in 1..Len(p) : Append(p, k)[i] = p[i]
<1> DEFINE S == ToSet(p) \union {k}
           q == Append(p, k)
<1>1. p \in Seq(ToSet(p)) /\ Len(p) \in Nat /\ Len(p) >= 1 BY WholePath DEF IsPath
<1>2. p \in Seq(S) /\ k \in S BY <1>1, SeqMonotonic
<1> HIDE DEF S
<1>3. /\ q \in Seq(S) /\ Len(q) = Len(p) + 1
      /\ \A i \in 1..Len(p) : q[i] = p[i]
      /\ q[Len(p) + 1] = k
  BY <1>1, <1>2, AppendProperties
<1> HIDE DEF q
<1>4. \A i \in 1..Len(p) : q[i] \in S BY <1>1, <1>3, ElementOfSeq
<1>5. SubSeq(q, 1, Len(p)) = p
  <2>1. /\ SubSeq(q, 1, Len(p)) \in Seq(S) /\ Len(SubSeq(q, 1, Len(p))) = Len(p)
        /\ \A i \in 1..Len(p) : SubSeq(q, 1, Len(p))[i] = q[i]
    BY <1>1, <1>4, SubSeqProperties
  <2> QED BY <1>2, <1>3, <2>1, SeqEqual
<1>6. Last(q) = k /\ Front(q) = p
  <2>1. Len(q) - 1 = Len(p) BY <1>1, <1>3
  <2> QED BY <1>3, <1>5, <2>1 DEF Last, Front
<1> QED BY <1>3, <1>6 DEF q

LEMMA CheckedResource ==
    ASSUME NEW b, Emits(b), NEW r \in ToSet(b.resources)
    PROVE  /\ MissingRequired(b, r) = {} /\ EnvelopeRequired(b, r)
           /\ ValidFields(b, r) /\ ValidEnvelope(b, r)
<1>1. PICK i \in DOMAIN b.resources : r = b.resources[i] BY DEF ToSet
<1>2. Valid(b) BY DEF Emits
<1> QED BY <1>1, <1>2 DEF Emits, Valid

(* A field set to an object: it is one of the document's own, no key of a  *)
(* map, and a leaf of the schema.                                          *)
LEMMA ObjectField ==
    ASSUME NEW b, Document(b), Emits(b), NEW r \in ToSet(b.resources),
           NEW p \in DOMAIN Fields(b, r), IsObjectWire(b, Fields(b, r)[p])
    PROVE  /\ p \in DOMAIN r.fields /\ IsPath(p) /\ ~IsEntry(p) /\ SetPath(p) = Lookup(p)
           /\ Lookup(p) \in Leaves(Schema(b, r).fields)
<1>1. p \in DOMAIN r.fields /\ Fields(b, r)[p] = r.fields[p]
  <2>1. Fields(b, r)[p].kind = "param" BY DEF IsObjectWire
  <2>2. p \notin DOMAIN r.fields => Fields(b, r)[p].kind = "template" BY DEF Fields, Source
  <2>3. p \in DOMAIN r.fields => Fields(b, r)[p] = r.fields[p] BY DEF Fields
  <2> QED BY <2>1, <2>2, <2>3
<1>2. ~IsEntry(p) BY <1>1, CheckedResource DEF ValidFields
<1>3. IsPath(p) BY <1>1 DEF Document
<1>4. r.fields[p].kind = "param" /\ Fits(b, r, p, r.fields[p]) BY <1>1, EmittedResource DEF IsObjectWire
<1>5. Lookup(p) \in Leaves(Schema(b, r).fields) BY <1>2, <1>4 DEF Fits
<1> QED BY <1>1, <1>2, <1>3, <1>5 DEF SetPath

(* A member of such an object is set below whatever its field is below.    *)
LEMMA MemberBelow ==
    ASSUME NEW p, IsPath(p), NEW k, NEW path, IsPath(path), IsPrefix(path, Lookup(p))
    PROVE  IsPrefix(path, SetPath(Append(p, k)))
<1> DEFINE q == Append(p, k)
<1>1. IsPath(q) /\ IsPath(Lookup(q)) /\ IsPath(Lookup(p)) BY AppendedPath, LookupPath
<1>2. /\ Len(q) = Len(p) + 1 /\ Last(q) = k /\ Front(q) = p
      /\ \A i \in 1..Len(p) : q[i] = p[i]
  BY AppendedParts
<1> HIDE DEF q
<1>3. CASE IsEntry(q)
  <2>1. SetPath(q) = Lookup(p) BY <1>2, <1>3 DEF SetPath
  <2> QED BY <2>1 DEF q
<1>4. CASE ~IsEntry(q)
  <2>1. SetPath(q) = Lookup(q) BY <1>4 DEF SetPath
  <2>2. Len(path) \in Nat /\ Len(p) \in Nat BY WholePath
  <2>3. /\ Len(Lookup(p)) = Len(p) /\ Len(Lookup(q)) = Len(q)
        /\ \A i \in 1..Len(p) : Lookup(p)[i] = IF Indexed(p[i]) THEN Indices[1] ELSE p[i]
        /\ \A i \in 1..Len(q) : Lookup(q)[i] = IF Indexed(q[i]) THEN Indices[1] ELSE q[i]
    BY <1>1, LookupPath
  <2>4. Len(path) <= Len(p) /\ \A i \in 1..Len(path) : path[i] = Lookup(p)[i]
    BY <1>1, <2>3, PrefixElements
  <2>5. ASSUME NEW i \in 1..Len(path) PROVE path[i] = Lookup(q)[i]
    <3>1. i \in 1..Len(p) /\ i \in 1..Len(q) BY <1>2, <2>2, <2>4
    <3>2. q[i] = p[i] BY <1>2, <3>1
    <3> QED BY <2>3, <2>4, <3>1, <3>2
  <2>6. Len(path) <= Len(Lookup(q)) BY <1>2, <2>2, <2>3, <2>4
  <2>7. IsPrefix(path, Lookup(q)) BY <1>1, <2>5, <2>6, PrefixElements
  <2> QED BY <2>1, <2>7 DEF q
<1> QED BY <1>3, <1>4

(* What the schema requires is planned: a field the document sets, or the  *)
(* members of the object it is set to.                                     *)
Near(set, path) == IsPrefix(set, path) \/ IsPrefix(path, set)
LEMMA RequiredExpanded ==
    ASSUME NEW b, Document(b), Emits(b), NEW r \in ToSet(b.resources), ~Schema(b, r).native,
           NEW path \in RequiredLeaves(Schema(b, r).fields) \union RequiredBranches(Schema(b, r).fields)
    PROVE  \E line \in Expanded(b, r) : Near(SetPath(line[1]), path)
<1> DEFINE nodes == Schema(b, r).fields
           fields == Fields(b, r)
           typed == {p \in DOMAIN fields : IsObjectWire(b, fields[p]) /\ Members(b, fields[p].path) # {}}
           members == UNION {{<<Append(p, Last(m)), Param(m)>> : m \in Members(b, fields[p].path)} : p \in typed}
<1>1. PICK p \in DOMAIN fields : Near(SetPath(p), path)
  <2> DEFINE set == {Lookup(IF IsEntry(p) THEN Front(p) ELSE p) : p \in DOMAIN Fields(b, r)}
  <2>1. \E q \in set : Near(q, path)
    <3>1. MissingRequired(b, r) = {} BY CheckedResource
    <3>2. /\ ~\E q \in RequiredLeaves(nodes) : \A s \in set : ~IsPrefix(s, q)
          /\ ~\E q \in RequiredBranches(nodes) : \A s \in set : ~IsPrefix(q, s)
      BY <3>1 DEF MissingRequired
    <3> HIDE DEF set
    <3> QED BY <3>2 DEF Near
  <2> QED BY <2>1 DEF SetPath
<1>2. path \in DOMAIN nodes /\ IsPath(path)
  <2>1. path \in DOMAIN nodes BY DEF RequiredLeaves, RequiredBranches, Leaves
  <2> QED BY <2>1, SchemaPaths
<1> HIDE DEF fields, nodes
<1>3. Expanded(b, r) = {<<q, Root(b, fields[q])>> : q \in DOMAIN fields \ typed}
                       \union {line \in members : line[1] \notin DOMAIN fields}
  BY DEF Expanded, fields
<1>4. CASE p \notin typed
  <2>1. <<p, Root(b, fields[p])>> \in {<<q, Root(b, fields[q])>> : q \in DOMAIN fields \ typed} BY <1>4
  <2> HIDE DEF typed, members
  <2>2. <<p, Root(b, fields[p])>> \in Expanded(b, r) BY <1>3, <2>1
  <2>3. <<p, Root(b, fields[p])>>[1] = p OBVIOUS
  <2> QED BY <1>1, <2>2, <2>3
<1>5. CASE p \in typed
  <2>1. PICK m \in Members(b, fields[p].path) : TRUE BY <1>5
  <2> DEFINE q == Append(p, Last(m))
  <2>2. /\ IsPath(p) /\ SetPath(p) = Lookup(p) /\ Lookup(p) \in Leaves(nodes)
    BY <1>5, ObjectField DEF fields, nodes
  <2>3. IsPath(Lookup(p)) /\ Len(Lookup(p)) = Len(p) BY <2>2, LookupPath
  <2>4. IsPrefix(path, Lookup(p))
    <3>1. CASE IsPrefix(path, SetPath(p)) BY <2>2, <3>1
    <3>2. CASE IsPrefix(SetPath(p), path)
      <4>1. ~IsStrictPrefix(Lookup(p), path) BY <1>2, <2>2 DEF Leaves
      <4>2. path = Lookup(p) BY <2>2, <3>2, <4>1 DEF IsStrictPrefix
      <4> QED BY <2>2, <3>2, <4>2
    <3> QED BY <1>1, <3>1, <3>2 DEF Near
  <2>5. IsPrefix(path, SetPath(q)) BY <1>2, <2>2, <2>4, MemberBelow
  <2>6. <<q, Param(m)>> \in members
    <3>1. <<q, Param(m)>> \in {<<Append(p, Last(n)), Param(n)>> : n \in Members(b, fields[p].path)} BY <2>1
    <3> HIDE DEF q
    <3> QED BY <1>5, <3>1
  <2>7. CASE q \notin DOMAIN fields
    <3> HIDE DEF typed, members, q
    <3>1. <<q, Param(m)>>[1] = q OBVIOUS
    <3>2. <<q, Param(m)>> \in Expanded(b, r) BY <1>3, <2>6, <2>7, <3>1
    <3> QED BY <2>5, <3>1, <3>2 DEF Near
  <2>8. CASE q \in DOMAIN fields
    <3>1. q \notin typed
      <4>1. SUFFICES ASSUME q \in typed PROVE FALSE OBVIOUS
      <4>2. IsObjectWire(b, fields[q]) BY <4>1
      <4> HIDE DEF q
      <4>3. SetPath(q) = Lookup(q) /\ IsPath(q) /\ Lookup(q) \in Leaves(nodes)
        BY <2>8, <4>2, ObjectField DEF fields, nodes
      <4>4. IsPrefix(Lookup(p), Lookup(p)) BY <2>3, PrefixElements, WholePath
      <4>5. IsPrefix(Lookup(p), Lookup(q)) BY <2>2, <2>3, <4>3, <4>4, MemberBelow DEF q
      <4>6. Lookup(p) # Lookup(q)
        <5>1. Len(q) = Len(p) + 1 BY <2>2, AppendedParts DEF q
        <5>2. Len(Lookup(q)) = Len(q) /\ Len(p) \in Nat BY <2>2, <4>3, LookupPath, WholePath
        <5> QED BY <2>3, <5>1, <5>2
      <4> QED BY <2>2, <4>3, <4>5, <4>6 DEF Leaves, IsStrictPrefix
    <3> HIDE DEF q
    <3>2. <<q, Root(b, fields[q])>> \in {<<s, Root(b, fields[s])>> : s \in DOMAIN fields \ typed} BY <2>8, <3>1
    <3> HIDE DEF typed, members
    <3>3. <<q, Root(b, fields[q])>> \in Expanded(b, r) BY <1>3, <3>2
    <3>4. <<q, Root(b, fields[q])>>[1] = q OBVIOUS
    <3> QED BY <2>5, <3>3, <3>4 DEF Near
  <2> QED BY <2>7, <2>8
<1> QED BY <1>4, <1>5

(* An expanded line is planned below spec.forProvider, and feeds what it   *)
(* is near to.                                                             *)
LEMMA PlannedFeeds ==
    ASSUME NEW b, Document(b), Emits(b), NEW r \in ToSet(b.resources), ~Schema(b, r).native,
           NEW line \in Expanded(b, r), NEW path, Near(SetPath(line[1]), path)
    PROVE  \E planned \in PlannedLines(b, r) : planned[2] = line[2] /\ Feeds(planned, path)
<1> DEFINE prefix == <<"spec", "forProvider">>
           planned == <<prefix \o line[1], line[2]>>
<1>1. IsPath(line[1]) /\ IsPath(prefix) BY ExpandedSound, ShortPaths DEF Sound
<1>2. Len(prefix) = 2 OBVIOUS
<1>3. planned \in Under(prefix, Expanded(b, r)) BY DEF Under
<1>4. planned \in PlannedLines(b, r) BY <1>3 DEF PlannedLines
<1>5. planned[1] = prefix \o line[1] /\ planned[2] = line[2] OBVIOUS
<1> HIDE DEF prefix, planned
<1>6. /\ IsPrefix(prefix, planned[1]) /\ Len(planned[1]) = 2 + Len(line[1])
      /\ SubSeq(planned[1], 2 + 1, 2 + Len(line[1])) = line[1]
  <2>1. /\ IsPrefix(prefix, prefix \o line[1]) /\ Len(prefix \o line[1]) = Len(prefix) + Len(line[1])
        /\ SubSeq(prefix \o line[1], Len(prefix) + 1, Len(prefix) + Len(line[1])) = line[1]
    BY <1>1, BehindPrefix
  <2> QED BY <1>2, <1>5, <2>1
<1>7. 2 + 1 = 3 OBVIOUS
<1>8. SubSeq(planned[1], 3, Len(planned[1])) = line[1] BY <1>6, <1>7
<1>9. Feeds(planned, path)
  BY <1>6, <1>8 DEF Feeds, Near, prefix
<1> QED BY <1>4, <1>5, <1>9

(* A line whose source may not be absent is rendered, whatever the engine. *)
LEMMA CertainLine ==
    ASSUME NEW b, Document(b), Emits(b), NEW w, w.plan = Plan(b), Admitted(b, w.spec),
           NEW r \in ToSet(b.resources), ~Withheld(b, w, r),
           \A line \in Lines(w, r) : IsObjectWire(b, line[2]) => Len(line[2].path) = 1,
           NEW line \in Lines(w, r), ~MayBeAbsent(b, line[2])
    PROVE  line \in GoLines(b, w, r)
<1> DEFINE s == line[2]
<1>1. Valid(b) /\ ValidDeclarations(b) BY DEF Emits, Valid, ValidParameters
<1>2. \A l \in Lines(w, r) : IsPath(l[1]) /\ Declared(b, l[2]) BY LinesSound DEF Sound
<1>3. GoLines(b, w, r) = {l \in Lines(w, r) : GuardHolds(w, GoGuard(b, l[2]))}
  BY <1>2, ParentsWritten DEF GoLines
<1>4. Declared(b, s) BY <1>2
<1>5. IsObjectWire(b, s) => Len(s.path) = 1 OBVIOUS
<1>6. ~MayBeAbsent(b, s) OBVIOUS
<1>7. s \in Sources(w, r) BY DEF Sources
<1> HIDE DEF s
<1>8. GuardHolds(w, GoGuard(b, s))
  <2>1. CASE s.kind = "param"
    <3>1. s.path \in DOMAIN b.params /\ IsPath(s.path) BY <1>4, <2>1 DEF Declared, Document
    <3>2. Len(s.path) \in Nat /\ Len(s.path) >= 1 /\ SubSeq(s.path, 1, Len(s.path)) = s.path
      BY <3>1, WholePath
    <3>3. DOMAIN s.path = 1..Len(s.path) BY <3>1, LenProperties DEF IsPath
    <3>4. \A i \in 1..Len(s.path) : b.params[SubSeq(s.path, 1, i)].required
      BY <1>6, <2>1, <3>3 DEF MayBeAbsent
    <3>5. Len(s.path) \in 1..Len(s.path) BY <3>2
    <3>6. SubSeq(s.path, 1, Len(s.path)) \in DOMAIN w.spec BY <1>1, <3>1, <3>4, <3>5, RequiredPresent
    <3>7. PythonShows(b, w, s) BY <2>1, <3>2, <3>6 DEF PythonShows, Present
    <3> QED BY <1>1, <1>4, <1>5, <3>7, ShownAlike
  <2>2. CASE s.kind = "env"
    <3>1. b.env[s.ref].default BY <1>6, <2>2 DEF MayBeAbsent
    <3>2. GoGuard(b, s) = {} BY <2>2, <3>1 DEF GoGuard
    <3> QED BY <3>2 DEF GuardHolds
  <2>3. CASE s.kind = "status"
    <3>1. b.engine = "go-templating" BY <1>6, <2>3 DEF MayBeAbsent
    <3>2. s \in StatusWires(w, r) BY <1>7, <2>3 DEF StatusWires
    <3>3. Present(w, s) BY <3>1, <3>2 DEF Withheld, GuardHolds
    <3>4. GoGuard(b, s) = {s} BY <2>3 DEF GoGuard
    <3> QED BY <3>3, <3>4 DEF GuardHolds
  <2>4. CASE s.kind \notin {"param", "env", "status"}
    <3>1. GoGuard(b, s) = {} BY <2>4 DEF GoGuard
    <3> QED BY <3>1 DEF GuardHolds
  <2> QED BY <2>1, <2>2, <2>3, <2>4
<1> QED BY <1>3, <1>8 DEF s

(* An item is that of the resource its name finds: its lines are those the *)
(* Go template renders, and its statuses are observed if that engine       *)
(* composed it.                                                            *)
TopObjects(b, w) ==
    \A r \in ToSet(b.resources) : \A line \in Lines(w, r) :
       IsObjectWire(b, line[2]) => Len(line[2].path) = 1
ComposedFrom(b, w, item, r) ==
    /\ r \in ToSet(b.resources) /\ ~Withheld(b, w, r)
    /\ w.plan[r.name].lines = PlannedLines(b, r)
    /\ item.lines = {<<line[1], Shows(w, line[2])>> : line \in GoLines(b, w, r)}
LEMMA ItemResource ==
    ASSUME NEW b, Document(b), Emits(b), NEW w, w.plan = Plan(b), Admitted(b, w.spec),
           TopObjects(b, w), NEW item \in Items(b, w)
    PROVE  ComposedFrom(b, w, item, ResourceNamed(b, item.resource))
<1> DEFINE r == ResourceNamed(b, item.resource)
<1>1. PICK q \in ToSet(b.resources) :
        item \in CASE b.engine = "kcl" -> KclItems(b, w, q)
                   [] b.engine = "python" -> PythonItems(b, w, q)
                   [] OTHER -> GoItems(b, w, q)
  BY DEF Items
<1>2. /\ GoLines(b, w, q) = PythonLines(b, w, q)
      /\ DOMAIN b.env = {} => GoLines(b, w, q) = KclLines(b, w, q)
  BY LinesAgree DEF TopObjects
<1>3. b.engine = "kcl" => DOMAIN b.env = {} BY DEF Emits, Accepts
<1>4. item \in Rendered(b, w, q, GoLines(b, w, q)) /\ ~Withheld(b, w, q)
  BY <1>1, <1>2, <1>3 DEF KclItems, PythonItems, GoItems, Withheld
<1>5. /\ item.resource = q.name
      /\ item.lines = {<<line[1], Shows(w, line[2])>> : line \in GoLines(b, w, q)}
  BY <1>4 DEF Rendered
<1>6. q.name \in ResourceNames(b) BY DEF ResourceNames, ToSet
<1>7. r \in ToSet(b.resources) /\ r.name = q.name
  <2>1. r.name = q.name BY <1>5, <1>6 DEF ResourceNamed, ResourceNames
  <2> QED BY <1>5, <1>6, <2>1, NamedResource
<1>8. Lines(w, r) = Lines(w, q) /\ NameSource(w, r) = NameSource(w, q) BY <1>7 DEF Lines, NameSource
<1>9. GoLines(b, w, r) = GoLines(b, w, q) BY <1>8 DEF GoLines
<1>10. Withheld(b, w, r) = Withheld(b, w, q) BY <1>8 DEF Withheld, StatusWires, Sources
<1>11. w.plan[r.name].lines = PlannedLines(b, r)
  <2>1. w.plan[q.name] = [lines |-> PlannedLines(b, ResourceNamed(b, q.name)),
                          name |-> PlannedName(b, ResourceNamed(b, q.name))]
    BY <1>6 DEF Plan
  <2>2. r = ResourceNamed(b, q.name) BY <1>5
  <2> QED BY <1>7, <2>1, <2>2
<1> QED BY <1>4, <1>5, <1>7, <1>9, <1>10, <1>11 DEF ComposedFrom

LEMMA RequiredSupplied ==
    ASSUME Generated, ObjectsAtTop, NEW item \in Items(doc, World)
    PROVE  Supplied(item)
<1> DEFINE b == doc
           w == World
           r == ResourceNamed(doc, item.resource)
<1>1. /\ b \in Docs /\ Document(b) /\ Emits(b) /\ w.plan = Plan(b) /\ Admitted(b, w.spec) /\ w.plan = plan
  BY DEF Generated, World
<1>2. TopObjects(b, w)
  <2> HIDE DEF b, w
  <2>1. \A q \in ToSet(b.resources) :
           \E planned \in ToSet(b.resources) : Lines(w, q) = PlannedLines(b, planned)
    BY <1>1, GivenPlan
  <2> QED BY <1>1, <2>1 DEF ObjectsAtTop, TopObjects
<1>3. ComposedFrom(b, w, item, r) BY <1>1, <1>2, ItemResource
<1> SUFFICES
      LET nodes == Schema(b, r).fields
          planned(path) == {line \in plan[r.name].lines : Feeds(line, path)}
          has(path) == \E line \in item.lines : Feeds(line, path)
          wired(path) == {p \in DOMAIN r.fields : /\ r.fields[p].kind = "param" /\ SetPath(p) = path
                                                  /\ ~IsObjectWire(b, r.fields[p])}
      IN  ~Schema(b, r).native =>
             /\ \A path \in RequiredLeaves(nodes) \union RequiredBranches(nodes) :
                   /\ planned(path) # {}
                   /\ ~has(path) => /\ \A line \in planned(path) : MayBeAbsent(b, line[2])
                                   /\ \A p \in wired(path) : OptionalWire(b, r, p)
             /\ \A p \in DOMAIN r.envelope :
                   <<p[1]>> \in DOMAIN Schema(b, r).envelope /\ Schema(b, r).envelope[<<p[1]>>].required
                   => \E line \in item.lines : IsPrefix(<<"spec", p[1]>>, line[1])
  BY DEF Supplied
<1> HIDE DEF b, w, r
<1> DEFINE nodes == Schema(b, r).fields
           planned(path) == {line \in plan[r.name].lines : Feeds(line, path)}
           has(path) == \E line \in item.lines : Feeds(line, path)
           wired(path) == {p \in DOMAIN r.fields : /\ r.fields[p].kind = "param" /\ SetPath(p) = path
                                                   /\ ~IsObjectWire(b, r.fields[p])}
           Lacking(path) == planned(path) # {} /\ (~has(path) => \A line \in planned(path) : MayBeAbsent(b, line[2]))
           Warned(path) == ~has(path) => \A p \in wired(path) : OptionalWire(b, r, p)
           Enveloped(p) == <<p[1]>> \in DOMAIN Schema(b, r).envelope /\ Schema(b, r).envelope[<<p[1]>>].required
                      => \E line \in item.lines : IsPrefix(<<"spec", p[1]>>, line[1])
<1>4. SUFFICES ASSUME ~Schema(b, r).native
               PROVE  /\ \A path \in RequiredLeaves(nodes) \union RequiredBranches(nodes) : Lacking(path)
                      /\ \A path \in RequiredLeaves(nodes) \union RequiredBranches(nodes) : Warned(path)
                      /\ \A p \in DOMAIN r.envelope : Enveloped(p)
  OBVIOUS
<1>5. /\ r \in ToSet(b.resources) /\ ~Withheld(b, w, r)
      /\ plan[r.name].lines = PlannedLines(b, r) /\ Lines(w, r) = PlannedLines(b, r)
      /\ item.lines = {<<line[1], Shows(w, line[2])>> : line \in GoLines(b, w, r)}
  BY <1>1, <1>3 DEF ComposedFrom, Lines
<1>6. ASSUME NEW line \in PlannedLines(b, r), ~MayBeAbsent(b, line[2])
      PROVE  \E shown \in item.lines : shown[1] = line[1]
  <2>1. line \in GoLines(b, w, r) BY <1>1, <1>2, <1>5, <1>6, CertainLine DEF TopObjects
  <2>2. <<line[1], Shows(w, line[2])>> \in item.lines BY <1>5, <2>1
  <2>3. <<line[1], Shows(w, line[2])>>[1] = line[1] OBVIOUS
  <2> QED BY <2>2, <2>3
<1>7. ASSUME NEW path, ~has(path), NEW line \in planned(path) PROVE MayBeAbsent(b, line[2])
  <2>1. SUFFICES ASSUME ~MayBeAbsent(b, line[2]) PROVE FALSE OBVIOUS
  <2>2. line \in PlannedLines(b, r) /\ Feeds(line, path) BY <1>5, <1>7
  <2>3. PICK shown \in item.lines : shown[1] = line[1] BY <1>6, <2>1, <2>2
  <2>4. Feeds(shown, path) BY <2>2, <2>3 DEF Feeds
  <2> QED BY <1>7, <2>4
<1>8. ASSUME NEW path \in RequiredLeaves(nodes) \union RequiredBranches(nodes) PROVE Lacking(path)
  <2>1. PICK line \in Expanded(b, r) : Near(SetPath(line[1]), path) BY <1>1, <1>4, <1>5, RequiredExpanded
  <2>2. \E l \in PlannedLines(b, r) : l[2] = line[2] /\ Feeds(l, path) BY <1>1, <1>4, <1>5, <2>1, PlannedFeeds
  <2> QED BY <1>5, <1>7, <2>2
<1>9. ASSUME NEW path \in RequiredLeaves(nodes) \union RequiredBranches(nodes), ~has(path),
             NEW p \in wired(path)
      PROVE  OptionalWire(b, r, p)
  <2> DEFINE wire == r.fields[p]
  <2>1. p \in DOMAIN r.fields /\ wire.kind = "param" /\ SetPath(p) = path /\ ~IsObjectWire(b, wire) BY <1>9
  <2>2. p \in DOMAIN Fields(b, r) /\ Fields(b, r)[p] = wire BY <2>1 DEF Fields
  <2>3. Root(b, wire) = wire BY <1>1, <2>1, RootOfItself DEF NamedBy
  <2> HIDE DEF wire
  <2>4. <<p, wire>> \in Expanded(b, r) BY <2>1, <2>2, <2>3 DEF Expanded
  <2>5. /\ path \in Leaves(nodes) \union RequiredBranches(nodes)
        /\ path \in DOMAIN nodes /\ RequiredChain(nodes, path)
    BY <1>9 DEF RequiredLeaves, RequiredBranches, Leaves
  <2>6. IsPath(path) BY <1>1, <1>5, <2>5, SchemaPaths
  <2>7. Near(SetPath(p), path) BY <2>1, <2>6, PrefixElements, WholePath DEF Near
  <2>8. PICK l \in PlannedLines(b, r) : l[2] = wire /\ Feeds(l, path)
    <3>1. <<p, wire>>[1] = p /\ <<p, wire>>[2] = wire OBVIOUS
    <3> QED BY <1>1, <1>4, <1>5, <2>4, <2>7, <3>1, PlannedFeeds
  <2>9. MayBeAbsent(b, wire) BY <1>5, <1>7, <1>9, <2>8
  <2>10. \E i \in DOMAIN wire.path : ~b.params[SubSeq(wire.path, 1, i)].required
    BY <2>1, <2>9 DEF MayBeAbsent
  <2>11. nodes[path].required
    <3>1. Len(path) \in 1..Len(path) /\ SubSeq(path, 1, Len(path)) = path BY <2>6, WholePath
    <3>2. DOMAIN path = 1..Len(path) BY <2>6, LenProperties DEF IsPath
    <3> HIDE DEF nodes
    <3> QED BY <2>5, <3>1, <3>2 DEF RequiredChain
  <2> QED BY <2>1, <2>5, <2>10, <2>11 DEF OptionalWire, SetPath, wire
<1>10. ASSUME NEW p \in DOMAIN r.envelope,
              <<p[1]>> \in DOMAIN Schema(b, r).envelope, Schema(b, r).envelope[<<p[1]>>].required
       PROVE  \E line \in item.lines : IsPrefix(<<"spec", p[1]>>, line[1])
  <2> DEFINE entries == EnvelopePlan(r)
  <2>1. p \in DOMAIN entries BY DEF EnvelopePlan
  <2>2. EnvelopeRequired(b, r) /\ ValidEnvelope(b, r) BY <1>1, <1>5, CheckedResource
  <2>3. PICK q \in DOMAIN entries :
          /\ q[1] = p[1]
          /\ ~(entries[q].kind = "param"
               /\ \E i \in DOMAIN entries[q].path : ~b.params[SubSeq(entries[q].path, 1, i)].required)
          /\ ~(entries[q].kind = "env" /\ ~b.env[entries[q].ref].default)
    <3>1. p[1] \in {q[1] : q \in DOMAIN entries} BY <2>1
    <3> QED BY <1>10, <2>2, <3>1 DEF EnvelopeRequired
  <2>4. entries[q].kind # "status"
    <3>1. \/ q \in DOMAIN r.envelope /\ entries[q] = r.envelope[q]
          \/ entries[q] = Source("value", "ClusterProviderConfig", <<>>)
          \/ entries[q] = Param(<<"providerName">>)
      BY DEF EnvelopePlan
    <3> HIDE DEF entries
    <3>2. q \in DOMAIN r.envelope => r.envelope[q].kind # "status" BY <2>2 DEF ValidEnvelope
    <3>3. /\ Source("value", "ClusterProviderConfig", <<>>).kind = "value"
          /\ Param(<<"providerName">>).kind = "param"
      BY DEF Source, Param
    <3> QED BY <3>1, <3>2, <3>3
  <2> DEFINE entry == <<q, entries[q]>>
             line == <<<<"spec">> \o q, entries[q]>>
  <2>5. entry \in EnvelopeLines(b, r) BY DEF EnvelopeLines
  <2>6. line \in Under(<<"spec">>, EnvelopeLines(b, r)) BY <2>5 DEF Under
  <2>7. line \in PlannedLines(b, r) BY <1>4, <2>6 DEF PlannedLines
  <2>8. IsPath(q) /\ IsPath(<<"spec">>)
    <3>1. Sound(b, EnvelopeLines(b, r)) BY <1>1, <1>4, <1>5, EnvelopeSound
    <3> QED BY <2>5, <3>1, ShortPaths DEF Sound
  <2> HIDE DEF entries
  <2>9. ~MayBeAbsent(b, line[2]) BY <2>3, <2>4 DEF MayBeAbsent
  <2>10. IsPrefix(<<"spec", p[1]>>, <<"spec">> \o q) BY <2>3, <2>8, BelowSpec
  <2>11. PICK shown \in item.lines : shown[1] = line[1] BY <1>6, <2>7, <2>9
  <2> QED BY <2>10, <2>11
<1> QED BY <1>8, <1>9, <1>10

(* In every document composed, for every composite admitted, environment   *)
(* and status: what the schema requires is there, unless each of its       *)
(* sources may be absent, and then the warnings name the parameter.        *)
THEOREM RequiredAlwaysRendered ==
    ASSUME ObjectsAtTop
    PROVE  Spec => []RequiredRendered
<1>1. Init => RequiredRendered BY DEF Init, RequiredRendered
<1>2. RequiredRendered /\ Generated /\ [Next]_vars => RequiredRendered'
  <2>1. SUFFICES ASSUME RequiredRendered, Generated, [Next]_vars PROVE RequiredRendered' OBVIOUS
  <2>2. CASE Run
    <3>1. doc' = doc /\ plan' = plan /\ composed' = Items(doc, World) BY <2>2 DEF Run
    <3>2. \A item \in composed' : Supplied(item) BY <2>1, <3>1, RequiredSupplied
    <3>3. \A item : Supplied(item)' <=> Supplied(item) BY <3>1 DEF Supplied, Schema
    <3> QED BY <3>2, <3>3 DEF RequiredRendered
  <2>3. CASE doc' = doc /\ plan' = plan /\ composed' = composed BY <2>1, <2>3 DEF RequiredRendered, Supplied
  <2>4. CASE Provide BY <2>3, <2>4 DEF Provide
  <2>5. CASE EditXR BY <2>3, <2>5 DEF EditXR
  <2>6. CASE ChangeEnv BY <2>3, <2>6 DEF ChangeEnv
  <2>7. CASE Recreate BY <2>3, <2>7 DEF Recreate
  <2>8. CASE UNCHANGED vars BY <2>3, <2>8 DEF vars
  <2> QED BY <2>1, <2>2, <2>4, <2>5, <2>6, <2>7, <2>8 DEF Next
<1> QED BY <1>1, <1>2, AlwaysGenerated, PTL DEF Spec
=============================================================================
