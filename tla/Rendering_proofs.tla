-------------------------- MODULE Rendering_proofs --------------------------
(***************************************************************************)
(* Facts about the operators of Rendering, for every document of the shape *)
(* the parser gives it: the sources of a plan are declared, the chain of   *)
(* guards of a line is evaluable and holds exactly when what the line      *)
(* reads is there, and the sample composite is one the XRD admits.         *)
(***************************************************************************)
EXTENDS Rendering, SequenceTheorems, FiniteSetTheorems, WellFoundedInduction, TLAPS

-----------------------------------------------------------------------------
(* Numbers and paths *)

(* A set of natural numbers has a least element. *)
LEMMA LeastNat ==
    ASSUME NEW S, S \subseteq Nat, S # {}
    PROVE  \E m \in S : \A n \in S : m <= n
<1>1. IsWellFoundedOn(OpToRel(<, Nat), Nat) BY NatLessThanWellFounded, Zenon
<1>2. PICK m \in S : \A n \in S : ~ (<<n, m>> \in OpToRel(<, Nat)) BY <1>1, WFMin
<1>3. ASSUME NEW n \in S PROVE m <= n
  <2>1. ~ (<<n, m>> \in {ss \in Nat \X Nat : ss[1] < ss[2]}) BY <1>2 DEF OpToRel
  <2> QED BY <2>1
<1> QED BY <1>3

LEMMA SequenceIsPath ==
    ASSUME NEW S, NEW p \in Seq(S), Len(p) >= 1
    PROVE  IsPath(p)
<1>1. p \in Seq(Range(p)) BY SeqOfRange
<1>2. Len(<<>>) = 0 BY EmptySeq
<1> QED BY <1>1, <1>2 DEF IsPath, Range, ToSet

LEMMA WholePath ==
    ASSUME NEW p, IsPath(p)
    PROVE  Len(p) \in Nat /\ Len(p) >= 1 /\ SubSeq(p, 1, Len(p)) = p
<1>1. p \in Seq(ToSet(p)) /\ p # <<>> BY DEF IsPath
<1>2. Len(p) \in Nat /\ Len(p) # 0 BY <1>1, EmptySeq, LenProperties
<1> QED BY <1>1, <1>2, SubSeqFull

(* The prefixes of a path are paths. *)
LEMMA Prefix ==
    ASSUME NEW p, IsPath(p), NEW i \in 1..Len(p)
    PROVE  /\ IsPath(SubSeq(p, 1, i)) /\ Len(SubSeq(p, 1, i)) = i
           /\ i > 1 => Front(SubSeq(p, 1, i)) = SubSeq(p, 1, i - 1)
<1> DEFINE q == SubSeq(p, 1, i)
           S == ToSet(p)
<1>1. p \in Seq(S) /\ Len(p) \in Nat BY WholePath DEF IsPath
<1> HIDE DEF S
<1>2. \A j \in 1..i : p[j] \in S BY <1>1, ElementOfSeq
<1>3. q \in Seq(S) /\ Len(q) = i BY <1>2, SubSeqProperties
<1>4. IsPath(q)
  <2>1. Len(q) >= 1 BY <1>3
  <2> HIDE DEF q
  <2> QED BY <1>3, <2>1, SequenceIsPath, Zenon
<1>5. ASSUME i > 1 PROVE Front(q) = SubSeq(p, 1, i - 1)
  <2>1. SubSeq(q, 1, i - 1) = SubSeq(p, 1, i - 1)
    BY <1>1, <1>5, SubSeqOfSubSeq
  <2> QED BY <2>1, <1>3 DEF Front
<1> HIDE DEF q
<1> QED BY <1>3, <1>4, <1>5 DEF q

(* A set that holds the parent of each of its paths holds all prefixes. *)
LEMMA Ancestry ==
    ASSUME NEW S, \A q \in S : IsPath(q) /\ (Len(q) > 1 => Front(q) \in S),
           NEW p \in S, NEW i \in 1..Len(p)
    PROVE  SubSeq(p, 1, i) \in S
<1>0. IsPath(p) /\ Len(p) \in Nat BY WholePath
<1> DEFINE Bad == {k \in Nat : k < Len(p) /\ SubSeq(p, 1, Len(p) - k) \notin S}
<1>1. SUFFICES ASSUME Bad # {} PROVE FALSE
  <2>1. Len(p) - i \in Nat /\ Len(p) - i < Len(p) /\ Len(p) - (Len(p) - i) = i BY <1>0
  <2> QED BY <2>1, <1>1
<1>2. PICK m \in Bad : \A n \in Bad : m <= n BY <1>1, LeastNat
<1>3. m # 0
  <2>1. SubSeq(p, 1, Len(p) - 0) = p BY <1>0, WholePath
  <2> QED BY <1>2, <2>1
<1>4. SubSeq(p, 1, Len(p) - (m - 1)) \in S
  <2>1. m - 1 \in Nat /\ m - 1 < Len(p) /\ ~(m <= m - 1) BY <1>0, <1>2, <1>3
  <2> QED BY <2>1, <1>2
<1> DEFINE j == Len(p) - (m - 1)
<1>5. j \in 1..Len(p) /\ j > 1 /\ j - 1 = Len(p) - m BY <1>0, <1>2, <1>3
<1> HIDE DEF j
<1>6. SubSeq(p, 1, j) \in S BY <1>4 DEF j
<1>7. Len(SubSeq(p, 1, j)) = j /\ Front(SubSeq(p, 1, j)) = SubSeq(p, 1, j - 1) BY <1>0, <1>5, Prefix
<1>8. SubSeq(p, 1, j - 1) \in S BY <1>5, <1>6, <1>7
<1> QED BY <1>2, <1>5, <1>8

-----------------------------------------------------------------------------
(* Guards *)

LEMMA PresentParam ==
    ASSUME NEW w, NEW q
    PROVE  Present(w, Param(q)) <=> q \in DOMAIN w.spec
BY DEF Present, Param, Source

LEMMA ParamFields ==
    ASSUME NEW q
    PROVE  Param(q).kind = "param" /\ Param(q).path = q
BY DEF Param, Source

LEMMA DeclaredAncestry ==
    ASSUME NEW b, Document(b), ValidDeclarations(b),
           NEW p \in DOMAIN b.params, NEW i \in 1..Len(p)
    PROVE  SubSeq(p, 1, i) \in DOMAIN b.params
<1>1. \A q \in DOMAIN b.params : IsPath(q) /\ (Len(q) > 1 => Front(q) \in DOMAIN b.params)
  BY DEF Document, ValidDeclarations
<1> QED BY <1>1, Ancestry

LEMMA AdmittedAncestry ==
    ASSUME NEW b, Document(b), NEW spec, Admitted(b, spec),
           NEW p \in DOMAIN spec, NEW i \in 1..Len(p)
    PROVE  SubSeq(p, 1, i) \in DOMAIN spec
<1>1. \A q \in DOMAIN spec : IsPath(q) /\ (Len(q) > 1 => Front(q) \in DOMAIN spec)
  BY DEF Document, Admitted
<1> QED BY <1>1, Ancestry

(* A path whose levels are all required is there. *)
LEMMA RequiredPresent ==
    ASSUME NEW b, Document(b), ValidDeclarations(b), NEW spec, Admitted(b, spec),
           NEW p \in DOMAIN b.params, NEW n \in 1..Len(p),
           \A i \in 1..n : b.params[SubSeq(p, 1, i)].required
    PROVE  SubSeq(p, 1, n) \in DOMAIN spec
<1>0. IsPath(p) /\ Len(p) \in Nat BY WholePath DEF Document
<1> DEFINE Bad == {k \in Nat : k \in 1..n /\ SubSeq(p, 1, k) \notin DOMAIN spec}
<1>1. SUFFICES ASSUME Bad # {} PROVE FALSE BY <1>0
<1>2. PICK m \in Bad : \A k \in Bad : m <= k BY <1>1, LeastNat
<1>3. m \in 1..n /\ m \in 1..Len(p) /\ SubSeq(p, 1, m) \notin DOMAIN spec BY <1>0, <1>2
<1>4. SubSeq(p, 1, m) \in DOMAIN b.params BY <1>3, DeclaredAncestry
<1>5. Len(SubSeq(p, 1, m)) = m /\ (m > 1 => Front(SubSeq(p, 1, m)) = SubSeq(p, 1, m - 1))
  BY <1>0, <1>3, Prefix
<1>6. m > 1 => SubSeq(p, 1, m - 1) \in DOMAIN spec
  <2>1. m > 1 => m - 1 \in Nat /\ m - 1 \in 1..n /\ ~(m <= m - 1) BY <1>0, <1>3
  <2> QED BY <2>1, <1>2
<1>7. b.params[SubSeq(p, 1, m)].required BY <1>3
<1> QED BY <1>3, <1>4, <1>5, <1>6, <1>7 DEF Admitted

(* The chain of guards of a parameter's line is evaluable, and holds when  *)
(* the parameter is there (chainGuard).                                    *)
LEMMA ChainGuards ==
    ASSUME NEW b, Document(b), ValidDeclarations(b), NEW w, Admitted(b, w.spec),
           NEW p \in DOMAIN b.params
    PROVE  /\ GuardEvaluable(w, ChainGuard(b, p))
           /\ GuardHolds(w, ChainGuard(b, p)) <=> p \in DOMAIN w.spec
<1>0. IsPath(p) /\ Len(p) \in Nat /\ Len(p) >= 1 /\ SubSeq(p, 1, Len(p)) = p
  BY WholePath DEF Document
<1> DEFINE Prefix_(i) == SubSeq(p, 1, i)
           Tested(i) == \E k \in 1..i : ~b.params[Prefix_(k)].required
           Chain == {j \in 1..Len(p) : Tested(j)}
<1>1. DOMAIN p = 1..Len(p) BY <1>0, LenProperties DEF IsPath
<1>2. ChainGuard(b, p) = {Param(Prefix_(i)) : i \in Chain} BY <1>1 DEF ChainGuard
<1>3. ASSUME NEW i \in 1..Len(p), ~Tested(i) PROVE Prefix_(i) \in DOMAIN w.spec
  <2>1. \A k \in 1..i : b.params[SubSeq(p, 1, k)].required BY <1>3
  <2> QED BY <2>1, RequiredPresent
<1>4. GuardEvaluable(w, ChainGuard(b, p))
  <2>1. SUFFICES ASSUME NEW i \in Chain,
                        \A t \in ChainGuard(b, p) : Len(t.path) < Len(Prefix_(i)) => Present(w, t),
                        i > 1
                 PROVE  Prefix_(i - 1) \in DOMAIN w.spec
    <3>1. \A i \in Chain : /\ Param(Prefix_(i)).path = Prefix_(i) /\ Len(Prefix_(i)) = i
                           /\ i > 1 => Front(Prefix_(i)) = Prefix_(i - 1)
      BY <1>0, Prefix DEF Param, Source
    <3> HIDE DEF Chain, Prefix_
    <3> QED BY <2>1, <3>1, <1>2 DEF GuardEvaluable, Evaluable
  <2>2. i - 1 \in 1..Len(p) /\ i - 1 < i BY <1>0, <2>1
  <2>3. CASE Tested(i - 1)
    <3>1. Param(Prefix_(i - 1)) \in ChainGuard(b, p) BY <1>2, <2>2, <2>3
    <3>2. /\ Param(Prefix_(i - 1)).path = Prefix_(i - 1)
          /\ Len(Prefix_(i - 1)) = i - 1 /\ Len(Prefix_(i)) = i
      BY <1>0, <2>2, Prefix DEF Param, Source
    <3>3. Len(Param(Prefix_(i - 1)).path) < Len(Prefix_(i)) BY <2>2, <3>2
    <3>4. Present(w, Param(Prefix_(i - 1))) BY <3>1, <3>3, <2>1
    <3> QED BY <3>4, PresentParam
  <2>4. CASE ~Tested(i - 1) BY <2>2, <2>4, <1>3
  <2> QED BY <2>3, <2>4
<1>5. ASSUME GuardHolds(w, ChainGuard(b, p)) PROVE p \in DOMAIN w.spec
  <2>1. CASE Tested(Len(p))
    <3>1. Param(Prefix_(Len(p))) \in ChainGuard(b, p) BY <1>0, <1>2, <2>1
    <3>2. Present(w, Param(Prefix_(Len(p)))) BY <3>1, <1>5 DEF GuardHolds
    <3> QED BY <3>2, <1>0, PresentParam
  <2>2. CASE ~Tested(Len(p))
    <3>1. Prefix_(Len(p)) \in DOMAIN w.spec BY <1>0, <1>3, <2>2
    <3> QED BY <1>0, <3>1
  <2> QED BY <2>1, <2>2
<1>6. ASSUME p \in DOMAIN w.spec PROVE GuardHolds(w, ChainGuard(b, p))
  <2>1. \A i \in 1..Len(p) : Prefix_(i) \in DOMAIN w.spec BY <1>6, AdmittedAncestry
  <2>2. \A i \in Chain : Present(w, Param(Prefix_(i))) BY <2>1, PresentParam
  <2> QED BY <2>2, <1>2 DEF GuardHolds
<1> QED BY <1>4, <1>5, <1>6

-----------------------------------------------------------------------------
(* Sources *)

(* What a source refers to is declared. *)
Declared(b, s) ==
    /\ s.kind \in {"none", "value", "raw", "template", "param", "env", "status", "name", "bare"}
    /\ s = Source(s.kind, s.ref, s.path)
    /\ s.kind = "param" => s.path \in DOMAIN b.params
    /\ s.kind = "env" => s.ref \in DOMAIN b.env
    /\ s.kind = "name" => s.ref \in ResourceNames(b) /\ s = NameOf(s.ref)
    /\ s.kind = "bare" => /\ s.path = <<"providerName">> /\ s.path \in DOMAIN b.params
                          /\ b.params[s.path].required

LEMMA ValidSourceDeclared ==
    ASSUME NEW b, NEW r, NEW s, ValidSource(b, r, s),
           s = Source(s.kind, s.ref, s.path), s.kind = "name" => s = NameOf(s.ref)
    PROVE  Declared(b, s)
BY DEF ValidSource, ValidResourceRef, Declared

LEMMA SetDeclared ==
    ASSUME NEW b, Document(b), Valid(b), NEW r \in ToSet(b.resources)
    PROVE  /\ \A p \in DOMAIN r.fields : Declared(b, r.fields[p])
           /\ \A p \in DOMAIN r.annotations : Declared(b, r.annotations[p])
           /\ \A p \in DOMAIN r.envelope : Declared(b, r.envelope[p])
<1>1. PICK i \in DOMAIN b.resources : r = b.resources[i] BY DEF ToSet
<1>2. ValidFields(b, r) /\ ValidAnnotations(b, r) /\ ValidEnvelope(b, r) BY <1>1 DEF Valid
<1>3. \A p \in DOMAIN r.fields : ValidSource(b, r, r.fields[p]) BY <1>2 DEF ValidFields
<1>4. \A p \in DOMAIN r.annotations : ValidSource(b, r, r.annotations[p]) BY <1>2 DEF ValidAnnotations
<1>5. \A p \in DOMAIN r.envelope : ValidSource(b, r, r.envelope[p]) BY <1>2 DEF ValidEnvelope
<1>6. \A s \in Range(r.fields) \union Range(r.annotations) \union Range(r.envelope) :
         s = Source(s.kind, s.ref, s.path) /\ (s.kind = "name" => s = NameOf(s.ref))
  BY DEF Document
<1>7. /\ \A p \in DOMAIN r.fields : r.fields[p] \in Range(r.fields)
      /\ \A p \in DOMAIN r.annotations : r.annotations[p] \in Range(r.annotations)
      /\ \A p \in DOMAIN r.envelope : r.envelope[p] \in Range(r.envelope)
  BY DEF Range
<1> QED BY <1>3, <1>4, <1>5, <1>6, <1>7, ValidSourceDeclared

LEMMA NamedResource ==
    ASSUME NEW b, NEW name \in ResourceNames(b)
    PROVE  ResourceNamed(b, name) \in ToSet(b.resources)
BY DEF ResourceNames, ResourceNamed, ToSet

LEMMA CustomNameDeclared ==
    ASSUME NEW b, Document(b), Valid(b), NEW r \in ToSet(b.resources)
    PROVE  Declared(b, CustomName(r))
<1>1. Declared(b, None) BY DEF Declared, None, Source
<1> QED BY <1>1, SetDeclared DEF CustomName

LEMMA NamedByDeclared ==
    ASSUME NEW b, Document(b), Valid(b), NEW s, Declared(b, s)
    PROVE  Declared(b, NamedBy(b, s))
<1>1. CASE s.kind # "name" BY <1>1 DEF NamedBy
<1>2. CASE s.kind = "name"
  <2>1. ResourceNamed(b, s.ref) \in ToSet(b.resources) BY <1>2, NamedResource DEF Declared
  <2>2. Declared(b, CustomName(ResourceNamed(b, s.ref))) BY <2>1, CustomNameDeclared
  <2> QED BY <2>2 DEF NamedBy
<1> QED BY <1>1, <1>2

(* Names can be followed any number of steps. *)
FollowedTo(b, source, n, f) == f = [k \in 0..n |-> IF k = 0 THEN source ELSE NamedBy(b, f[k - 1])]
LEMMA NamesFollow ==
    ASSUME NEW b, NEW source, NEW n \in Nat
    PROVE  \E f : FollowedTo(b, source, n, f)
<1> USE DEF FollowedTo
<1> DEFINE Follows(f, m) == FollowedTo(b, source, m, f)
           Bad == {m \in Nat : \A f : ~Follows(f, m)}
<1>1. SUFFICES ASSUME Bad # {} PROVE FALSE OBVIOUS
<1>2. PICK m \in Bad : \A k \in Bad : m <= k BY <1>1, LeastNat
<1>3. CASE m = 0
  <2>1. Follows([k \in 0..0 |-> source], 0) OBVIOUS
  <2> QED BY <1>2, <1>3, <2>1
<1>4. CASE m # 0
  <2>1. m \in Nat /\ m - 1 \in Nat /\ ~(m <= m - 1) BY <1>2, <1>4
  <2>2. PICK f : Follows(f, m - 1)
    <3>1. m - 1 \notin Bad BY <1>2, <2>1
    <3> HIDE DEF Follows
    <3> QED BY <2>1, <3>1
  <2> DEFINE g == [k \in 0..m |-> IF k = m THEN NamedBy(b, f[m - 1]) ELSE f[k]]
  <2>3. ASSUME NEW k \in 0..m PROVE g[k] = IF k = 0 THEN source ELSE NamedBy(b, g[k - 1])
    <3>1. CASE k = m BY <1>4, <2>1, <3>1
    <3>2. CASE k # m
      <4>1. k \in 0..m - 1 BY <2>1, <2>3, <3>2
      <4>2. f[k] = IF k = 0 THEN source ELSE NamedBy(b, f[k - 1]) BY <2>2, <4>1
      <4>3. g[k] = f[k] /\ (k # 0 => g[k - 1] = f[k - 1]) BY <2>1, <2>3, <4>1
      <4> QED BY <4>2, <4>3
    <3> QED BY <3>1, <3>2
  <2>4. g = [k \in 0..m |-> g[k]] OBVIOUS
  <2> HIDE DEF g
  <2>5. Follows(g, m) BY <2>3, <2>4
  <2> QED BY <1>2, <2>5
<1> QED BY <1>3, <1>4

LEMMA FollowedSteps ==
    ASSUME NEW b, Document(b), NEW source
    PROVE  Followed(b, source) =
             [k \in 0..Len(b.resources) |->
                IF k = 0 THEN source ELSE NamedBy(b, Followed(b, source)[k - 1])]
<1>1. Len(b.resources) \in Nat BY LenProperties DEF Document
<1>2. \E f : FollowedTo(b, source, Len(b.resources), f) BY <1>1, NamesFollow
<1> QED BY <1>2 DEF Followed, FollowedTo

-----------------------------------------------------------------------------
(* Names settle *)

(* What is followed stays declared, step after step.                       *)
LEMMA FollowedDeclared ==
    ASSUME NEW b, Document(b), Valid(b), NEW source, Declared(b, source)
    PROVE  \A k \in 0..Len(b.resources) : Declared(b, Followed(b, source)[k])
<1>1. Len(b.resources) \in Nat BY LenProperties DEF Document
<1> DEFINE F == Followed(b, source)
           N == Len(b.resources)
           Bad == {k \in Nat : k <= N /\ ~Declared(b, F[k])}
<1>2. \A k \in 0..N : F[k] = IF k = 0 THEN source ELSE NamedBy(b, F[k - 1]) BY FollowedSteps
<1> HIDE DEF F
<1>3. Bad = {}
  <2>1. SUFFICES ASSUME Bad # {} PROVE FALSE OBVIOUS
  <2>2. PICK m \in Bad : \A k \in Bad : m <= k BY <2>1, LeastNat
  <2>3. m \in 0..N /\ m # 0 BY <1>1, <1>2, <2>2
  <2>4. m - 1 \in Nat /\ m - 1 <= N /\ ~(m <= m - 1) BY <1>1, <2>3
  <2>5. Declared(b, F[m - 1]) BY <2>2, <2>4
  <2> QED BY <1>2, <2>2, <2>3, <2>5, NamedByDeclared
<1> QED BY <1>1, <1>3 DEF F

LEMMA RootDeclared ==
    ASSUME NEW b, Document(b), Valid(b), NEW source, Declared(b, source)
    PROVE  Declared(b, Root(b, source))
<1>1. Len(b.resources) \in Nat BY LenProperties DEF Document
<1>2. Len(b.resources) \in 0..Len(b.resources) BY <1>1
<1> QED BY <1>2, FollowedDeclared DEF Root

(* A resource does not take its name from itself.                          *)
LEMMA NameOfAnother ==
    ASSUME NEW b, Document(b), Valid(b), NEW s, Declared(b, s), s.kind = "name",
           NamedBy(b, s) # s, NamedBy(b, s).kind = "name"
    PROVE  NamedBy(b, s).ref # s.ref
<1> DEFINE t == ResourceNamed(b, s.ref)
<1>1. /\ t \in ToSet(b.resources) /\ t.name = s.ref
  BY NamedResource DEF Declared, ResourceNamed, ResourceNames
<1>2. NamedBy(b, s) = CustomName(t) /\ CustomName(t) # None BY DEF NamedBy
<1>3. \/ \E p \in DOMAIN t.fields : CustomName(t) = t.fields[p]
      \/ \E p \in DOMAIN t.envelope : CustomName(t) = t.envelope[p]
  BY <1>2 DEF CustomName
<1>4. PICK i \in DOMAIN b.resources : t = b.resources[i] BY <1>1 DEF ToSet
<1> HIDE DEF t
<1>5. ValidFields(b, t) /\ ValidEnvelope(b, t) BY <1>4 DEF Valid
<1>6. ValidSource(b, t, CustomName(t)) BY <1>3, <1>5 DEF ValidFields, ValidEnvelope
<1>7. CustomName(t).ref # t.name BY <1>2, <1>6 DEF ValidSource, ValidResourceRef
<1> QED BY <1>1, <1>2, <1>7

(* Without a cycle, following a name ends within as many steps as there    *)
(* are resources: each step that changes it goes to another resource.      *)
LEMMA NamesSettle ==
    ASSUME NEW b, Document(b), Valid(b), NEW self, NEW source, Declared(b, source),
           ~NameCycle(b, self, source)
    PROVE  NamedBy(b, Root(b, source)) = Root(b, source)
<1> DEFINE F == Followed(b, source)
           N == Len(b.resources)
           Moves(k) == NamedBy(b, F[k]) # F[k]
<1>1. N \in Nat /\ DOMAIN b.resources = 1..N BY LenProperties DEF Document
<1>2. \A k \in 0..N : F[k] = IF k = 0 THEN source ELSE NamedBy(b, F[k - 1]) BY FollowedSteps
<1>3. \A k \in 0..N : Declared(b, F[k]) BY FollowedDeclared
<1>4. SUFFICES ASSUME Moves(N) PROVE FALSE BY DEF Root
<1>5. ASSUME NEW k \in 1..N, NEW j \in 0..k - 2, F[k].kind = "name", F[k] # F[k - 1]
      PROVE  F[k].ref # F[j].ref
  BY <1>5 DEF NameCycle
<1> HIDE DEF F
<1>6. \A k \in 0..N : Moves(k)
  <2> DEFINE Rest == {k \in Nat : k <= N /\ ~Moves(N - k)}
  <2>1. SUFFICES ASSUME Rest # {} PROVE FALSE
    <3>1. SUFFICES ASSUME NEW k \in 0..N, ~Moves(k) PROVE Rest # {} OBVIOUS
    <3>2. N - k \in Nat /\ N - k <= N /\ N - (N - k) = k BY <1>1
    <3>3. N - k \in Rest BY <3>1, <3>2
    <3> QED BY <3>3
  <2>2. PICK m \in Rest : \A k \in Rest : m <= k BY <2>1, LeastNat
  <2>3. m # 0 /\ m \in Nat /\ m <= N BY <1>1, <1>4, <2>2
  <2>4. m - 1 \in Nat /\ m - 1 <= N /\ ~(m <= m - 1) BY <1>1, <2>3
  <2>5. Moves(N - (m - 1)) BY <2>2, <2>4
  <2>6. N - (m - 1) \in 0..N /\ N - (m - 1) # 0 /\ N - (m - 1) - 1 = N - m BY <1>1, <2>3
  <2>7. F[N - (m - 1)] = NamedBy(b, F[N - m]) BY <1>2, <2>6
  <2>8. ~Moves(N - m) BY <2>2
  <2> QED BY <2>5, <2>7, <2>8
<1>7. \A k \in 0..N : F[k].kind = "name" BY <1>6 DEF NamedBy
<1>8. \A k \in 1..N : F[k] # F[k - 1] /\ F[k].ref # F[k - 1].ref
  <2>1. SUFFICES ASSUME NEW k \in 1..N PROVE F[k] # F[k - 1] /\ F[k].ref # F[k - 1].ref OBVIOUS
  <2>2. k - 1 \in 0..N /\ k \in 0..N /\ k # 0 BY <1>1
  <2>3. F[k] = NamedBy(b, F[k - 1]) BY <1>2, <2>2
  <2> QED BY <1>3, <1>6, <1>7, <2>2, <2>3, NameOfAnother
<1>9. \A j, k \in 0..N : j < k => F[j].ref # F[k].ref
  <2>1. SUFFICES ASSUME NEW j \in 0..N, NEW k \in 0..N, j < k PROVE F[j].ref # F[k].ref OBVIOUS
  <2>2. CASE j = k - 1 BY <1>1, <1>8, <2>1, <2>2
  <2>3. CASE j # k - 1
    <3>1. k \in 1..N /\ j \in 0..k - 2 BY <1>1, <2>1, <2>3
    <3> QED BY <1>5, <1>7, <1>8, <3>1
  <2> QED BY <2>2, <2>3
<1> DEFINE at == [k \in 0..N |-> CHOOSE i \in 1..N : b.resources[i].name = F[k].ref]
<1>10. \A k \in 0..N : at[k] \in 1..N /\ b.resources[at[k]].name = F[k].ref
  <2>1. \A k \in 0..N : F[k].ref \in ResourceNames(b) BY <1>3, <1>7 DEF Declared
  <2>2. \A k \in 0..N : \E i \in 1..N : b.resources[i].name = F[k].ref
    BY <1>1, <2>1 DEF ResourceNames
  <2> QED BY <2>2
<1>11. at \in [0..N -> 1..N] BY <1>10
<1> HIDE DEF at
<1>12. /\ IsFiniteSet(0..N) /\ IsFiniteSet(1..N)
       /\ Cardinality(1..N) < Cardinality(0..N)
  <2>1. IsFiniteSet(0..N) /\ Cardinality(0..N) = N + 1 BY <1>1, FS_Interval
  <2>2. IsFiniteSet(1..N) /\ Cardinality(1..N) = IF 1 > N THEN 0 ELSE N - 1 + 1 BY <1>1, FS_Interval
  <2> QED BY <1>1, <2>1, <2>2
<1>13. PICK j, k \in 0..N : j # k /\ at[j] = at[k] BY <1>11, <1>12, FS_PigeonHole
<1>14. F[j].ref = F[k].ref BY <1>10, <1>13
<1>15. j < k \/ k < j BY <1>1, <1>13
<1> QED BY <1>9, <1>14, <1>15

(* A source that names nothing else is its own root, and the root of a     *)
(* reference is that of the name it refers to.                             *)
LEMMA RootOfItself ==
    ASSUME NEW b, Document(b), NEW source, NamedBy(b, source) = source
    PROVE  Root(b, source) = source
<1> DEFINE F == Followed(b, source)
           N == Len(b.resources)
           Bad == {k \in Nat : k <= N /\ F[k] # source}
<1>1. N \in Nat BY LenProperties DEF Document
<1>2. \A k \in 0..N : F[k] = IF k = 0 THEN source ELSE NamedBy(b, F[k - 1]) BY FollowedSteps
<1> HIDE DEF F
<1>3. Bad = {}
  <2>1. SUFFICES ASSUME Bad # {} PROVE FALSE OBVIOUS
  <2>2. PICK m \in Bad : \A k \in Bad : m <= k BY <2>1, LeastNat
  <2>3. m \in 0..N /\ m # 0 BY <1>1, <1>2, <2>2
  <2>4. m - 1 \in Nat /\ m - 1 <= N /\ ~(m <= m - 1) BY <1>1, <2>3
  <2>5. F[m - 1] = source BY <2>2, <2>4
  <2> QED BY <1>2, <2>2, <2>3, <2>5
<1> QED BY <1>1, <1>3 DEF Root, F

LEMMA RootOfName ==
    ASSUME NEW b, Document(b), Valid(b), b.resources # <<>>,
           NEW self, NEW source, Declared(b, source), ~NameCycle(b, self, source)
    PROVE  Root(b, NamedBy(b, source)) = Root(b, source)
<1> DEFINE custom == NamedBy(b, source)
           F == Followed(b, source)
           G == Followed(b, custom)
           N == Len(b.resources)
           Bad == {k \in Nat : k < N /\ G[k] # F[k + 1]}
<1>1. N \in Nat /\ N # 0 BY LenProperties, EmptySeq DEF Document
<1>2. \A k \in 0..N : F[k] = IF k = 0 THEN source ELSE NamedBy(b, F[k - 1]) BY FollowedSteps
<1>3. \A k \in 0..N : G[k] = IF k = 0 THEN custom ELSE NamedBy(b, G[k - 1]) BY FollowedSteps
<1>4. NamedBy(b, F[N]) = F[N] BY NamesSettle DEF Root
<1>5. Root(b, custom) = G[N] /\ Root(b, source) = F[N] BY DEF Root
<1> HIDE DEF F, G
<1>6. Bad = {}
  <2>1. SUFFICES ASSUME Bad # {} PROVE FALSE OBVIOUS
  <2>2. PICK m \in Bad : \A k \in Bad : m <= k BY <2>1, LeastNat
  <2>3. m \in Nat /\ m < N /\ G[m] # F[m + 1] BY <2>2
  <2>4. F[m + 1] = NamedBy(b, F[m])
    <3>1. m + 1 \in 0..N /\ m + 1 # 0 /\ m + 1 - 1 = m BY <1>1, <2>3
    <3> QED BY <1>2, <3>1
  <2>5. CASE m = 0
    <3>1. G[0] = custom /\ F[0] = source BY <1>1, <1>2, <1>3
    <3> QED BY <2>3, <2>4, <2>5, <3>1
  <2>6. CASE m # 0
    <3>1. m - 1 \in Nat /\ m - 1 < N /\ ~(m <= m - 1) /\ m - 1 + 1 = m /\ m \in 0..N
      BY <1>1, <2>3, <2>6
    <3>2. m - 1 \notin Bad BY <2>2, <3>1
    <3>3. G[m - 1] = F[m] BY <3>1, <3>2
    <3>4. G[m] = NamedBy(b, G[m - 1]) BY <1>3, <2>6, <3>1
    <3> QED BY <2>3, <2>4, <3>3, <3>4
  <2> QED BY <2>5, <2>6
<1>7. G[N] = F[N]
  <2>1. N - 1 \in Nat /\ N - 1 < N /\ N - 1 + 1 = N /\ N \in 0..N BY <1>1
  <2>2. G[N - 1] = F[N] BY <1>6, <2>1
  <2>3. G[N] = NamedBy(b, G[N - 1]) BY <1>1, <1>3, <2>1
  <2> QED BY <1>4, <2>2, <2>3
<1> QED BY <1>5, <1>7

-----------------------------------------------------------------------------
(* Plans *)

LEMMA EmittedResource ==
    ASSUME NEW b, Emits(b), NEW r \in ToSet(b.resources)
    PROVE  /\ Valid(b) /\ Resolved(b, r) # {} /\ CheckEnvelope(b, r)
           /\ \A p \in DOMAIN r.fields : Fits(b, r, p, r.fields[p])
<1>1. PICK i \in DOMAIN b.resources : r = b.resources[i] BY DEF ToSet
<1> QED BY <1>1 DEF Emits

(* The schema taken is one of those that match. *)
LEMMA SchemaResolved ==
    ASSUME NEW b, NEW r, Resolved(b, r) # {}
    PROVE  Min(Resolved(b, r)) \in Resolved(b, r) /\ Resolved(b, r) \subseteq DOMAIN Crds
<1>1. Resolved(b, r) \subseteq DOMAIN Crds BY DEF Resolved
<1>2. DOMAIN Crds \subseteq Nat BY CrdsAssumption, LenProperties
<1>3. \E m \in Resolved(b, r) : \A n \in Resolved(b, r) : m <= n BY <1>1, <1>2, LeastNat
<1> QED BY <1>1, <1>3 DEF Min

(* Only a managed resource has the schema of a managed kind, and then      *)
(* providerName is there for every composite.                              *)
LEMMA ManagedSchema ==
    ASSUME NEW b, Emits(b), NEW r \in ToSet(b.resources), ~Schema(b, r).native
    PROVE  /\ <<"providerName">> \in DOMAIN b.params
           /\ b.params[<<"providerName">>].required
<1>1. Valid(b) /\ Resolved(b, r) # {} BY EmittedResource
<1>2. Min(Resolved(b, r)) \in Resolved(b, r) BY <1>1, SchemaResolved
<1>3. IsManaged(r)
  <2>1. SUFFICES ASSUME ~IsManaged(r) PROVE FALSE OBVIOUS
  <2>2. Resolved(b, r) = {i \in DOMAIN Crds : Crds[i].kind = r.kind /\ Crds[i].native}
    BY <2>1 DEF Resolved
  <2> QED BY <1>2, <2>2 DEF Schema
<1>4. \E i \in DOMAIN b.resources : IsManaged(b.resources[i]) BY <1>3 DEF ToSet
<1> QED BY <1>1, <1>4 DEF Valid, ValidParameters

LEMMA SchemaPaths ==
    ASSUME NEW b, Emits(b), NEW r \in ToSet(b.resources)
    PROVE  \A p \in DOMAIN Schema(b, r).fields : IsPath(p)
<1>1. Resolved(b, r) # {} BY EmittedResource
<1>2. Min(Resolved(b, r)) \in DOMAIN Crds BY <1>1, SchemaResolved
<1> QED BY <1>2, CrdsAssumption DEF Schema, ToSet

LEMMA AppendedPath ==
    ASSUME NEW p, IsPath(p), NEW k
    PROVE  IsPath(Append(p, k))
<1> DEFINE S == ToSet(p) \union {k}
<1>1. p \in Seq(ToSet(p)) /\ Len(p) \in Nat BY WholePath DEF IsPath
<1>2. p \in Seq(S) BY <1>1, SeqMonotonic
<1>3. Append(p, k) \in Seq(S) /\ Len(Append(p, k)) = Len(p) + 1 BY <1>2, AppendProperties
<1>4. Len(Append(p, k)) >= 1 BY <1>1, <1>3
<1> HIDE DEF S
<1> QED BY <1>3, <1>4, SequenceIsPath, Zenon

LEMMA PrefixedPath ==
    ASSUME NEW p, IsPath(p), NEW prefix, IsPath(prefix)
    PROVE  IsPath(prefix \o p)
<1> DEFINE S == ToSet(p) \union ToSet(prefix)
<1>1. /\ p \in Seq(ToSet(p)) /\ Len(p) \in Nat /\ Len(p) >= 1
      /\ prefix \in Seq(ToSet(prefix)) /\ Len(prefix) \in Nat
  BY WholePath DEF IsPath
<1>2. p \in Seq(S) /\ prefix \in Seq(S) BY <1>1, SeqMonotonic
<1> HIDE DEF S
<1>3. prefix \o p \in Seq(S) /\ Len(prefix \o p) = Len(prefix) + Len(p) BY <1>2, ConcatProperties
<1>4. Len(prefix \o p) >= 1 BY <1>1, <1>3
<1> QED BY <1>3, <1>4, SequenceIsPath, Zenon

LEMMA ShortPaths ==
    ASSUME NEW k, NEW l
    PROVE  IsPath(<<k>>) /\ IsPath(<<k, l>>)
<1> DEFINE S == {k, l}
<1>1. k \in S /\ l \in S OBVIOUS
<1> HIDE DEF S
<1>2. <<k>> \in Seq(S) /\ <<k, l>> \in Seq(S) BY <1>1
<1>3. Len(<<k>>) >= 1 /\ Len(<<k, l>>) >= 1 OBVIOUS
<1> QED BY <1>2, <1>3, SequenceIsPath, Zenon

(* Lines whose sources are declared, at paths. *)
Sound(b, lines) == \A line \in lines : IsPath(line[1]) /\ Declared(b, line[2])

LEMMA ExpandedSound ==
    ASSUME NEW b, Document(b), Emits(b), NEW r \in ToSet(b.resources)
    PROVE  Sound(b, Expanded(b, r))
<1>1. Valid(b) BY EmittedResource
<1> DEFINE fields == Fields(b, r)
           typed == {p \in DOMAIN fields : IsObjectWire(b, fields[p]) /\ Members(b, fields[p].path) # {}}
           members == UNION {{<<Append(p, Last(m)), Param(m)>> : m \in Members(b, fields[p].path)} : p \in typed}
<1>2. ASSUME NEW p \in DOMAIN fields PROVE IsPath(p) /\ Declared(b, fields[p])
  <2>1. CASE p \in DOMAIN r.fields
    <3>1. fields[p] = r.fields[p] BY <2>1 DEF Fields
    <3> QED BY <1>1, <2>1, <3>1, SetDeclared DEF Document
  <2>2. CASE p \notin DOMAIN r.fields
    <3>1. /\ p \in ConventionFields(b, r) /\ fields[p].kind = "template"
          /\ fields[p] = Source(fields[p].kind, fields[p].ref, fields[p].path)
      BY <2>2 DEF Fields, Source
    <3>2. IsPath(p) BY <3>1, SchemaPaths DEF ConventionFields, Leaves
    <3> QED BY <3>1, <3>2 DEF Declared
  <2> QED BY <2>1, <2>2
<1>3. \A p \in DOMAIN fields : Declared(b, Root(b, fields[p])) BY <1>1, <1>2, RootDeclared
<1>4. ASSUME NEW p \in DOMAIN fields, NEW m \in Members(b, fields[p].path)
      PROVE  IsPath(Append(p, Last(m))) /\ Declared(b, Param(m))
  <2>1. m \in DOMAIN b.params BY DEF Members
  <2> QED BY <1>2, <2>1, AppendedPath DEF Declared, Param, Source
<1> HIDE DEF fields
<1>5. Expanded(b, r) = {<<p, Root(b, fields[p])>> : p \in DOMAIN fields \ typed}
                       \union {line \in members : line[1] \notin DOMAIN fields}
  BY DEF Expanded, fields
<1>6. SUFFICES ASSUME NEW line \in Expanded(b, r) PROVE IsPath(line[1]) /\ Declared(b, line[2])
  BY DEF Sound
<1>7. CASE line \in {<<p, Root(b, fields[p])>> : p \in DOMAIN fields \ typed}
  <2>1. PICK p \in DOMAIN fields : line = <<p, Root(b, fields[p])>> BY <1>7
  <2> QED BY <2>1, <1>2, <1>3
<1>8. CASE line \in members
  <2>1. PICK p \in typed : line \in {<<Append(p, Last(m)), Param(m)>> : m \in Members(b, fields[p].path)}
    BY <1>8
  <2>2. PICK m \in Members(b, fields[p].path) : line = <<Append(p, Last(m)), Param(m)>> BY <2>1
  <2> QED BY <2>1, <2>2, <1>4
<1> HIDE DEF typed, members
<1> QED BY <1>5, <1>6, <1>7, <1>8

LEMMA AnnotationsSound ==
    ASSUME NEW b, Document(b), Emits(b), NEW r \in ToSet(b.resources)
    PROVE  Sound(b, AnnotationLines(b, r))
<1>1. Valid(b) BY EmittedResource
<1>2. IsPath(AnnotationsPath) BY ShortPaths DEF AnnotationsPath
<1>3. \A k \in DOMAIN r.annotations : IsPath(Append(AnnotationsPath, k)) BY <1>2, AppendedPath
<1>4. \A k \in DOMAIN r.annotations : Declared(b, Root(b, r.annotations[k]))
  BY <1>1, SetDeclared, RootDeclared
<1>5. SUFFICES ASSUME NEW line \in AnnotationLines(b, r) PROVE IsPath(line[1]) /\ Declared(b, line[2])
  BY DEF Sound
<1>6. PICK k \in DOMAIN r.annotations : line = <<Append(AnnotationsPath, k), Root(b, r.annotations[k])>>
  BY DEF AnnotationLines
<1> QED BY <1>3, <1>4, <1>6

LEMMA EnvelopeSound ==
    ASSUME NEW b, Document(b), Emits(b), NEW r \in ToSet(b.resources), ~Schema(b, r).native
    PROVE  Sound(b, EnvelopeLines(b, r))
<1>1. Valid(b) BY EmittedResource
<1>2. <<"providerName">> \in DOMAIN b.params /\ b.params[<<"providerName">>].required BY ManagedSchema
<1> DEFINE plan == EnvelopePlan(r)
           kind == <<"providerConfigRef", "kind">>
           name == <<"providerConfigRef", "name">>
<1>3. IsPath(kind) /\ IsPath(name) BY ShortPaths
<1>4. \A p \in DOMAIN plan : p \in DOMAIN r.envelope \union {kind, name}
  BY DEF EnvelopePlan
<1>5. \A p \in DOMAIN plan :
         \/ p \in DOMAIN r.envelope /\ plan[p] = r.envelope[p]
         \/ plan[p] = Source("value", "ClusterProviderConfig", <<>>)
         \/ plan[p] = Param(<<"providerName">>)
  BY DEF EnvelopePlan
<1> HIDE DEF plan, kind, name
<1>6. \A p \in DOMAIN plan : IsPath(p) BY <1>3, <1>4 DEF Document
<1>7. /\ Declared(b, Source("value", "ClusterProviderConfig", <<>>))
      /\ Declared(b, Bare(<<"providerName">>))
      /\ Declared(b, Param(<<"providerName">>))
  BY <1>2 DEF Declared, Bare, Param, Source
<1>8. \A p \in DOMAIN plan : Declared(b, plan[p]) BY <1>1, <1>5, <1>7, SetDeclared
<1>9. SUFFICES ASSUME NEW line \in EnvelopeLines(b, r) PROVE IsPath(line[1]) /\ Declared(b, line[2])
  BY DEF Sound
<1>10. \/ \E p \in DOMAIN plan : line = <<p, plan[p]>>
       \/ line = <<kind, Source("value", "ClusterProviderConfig", <<>>)>>
       \/ line = <<name, Bare(<<"providerName">>)>>
  BY DEF EnvelopeLines, plan, kind, name
<1> QED BY <1>3, <1>6, <1>7, <1>8, <1>10

(* Every source of a plan is declared. *)
LEMMA PlannedSound ==
    ASSUME NEW b, Document(b), Emits(b), NEW r \in ToSet(b.resources)
    PROVE  Sound(b, PlannedLines(b, r)) /\ Declared(b, PlannedName(b, r))
<1>1. Valid(b) BY EmittedResource
<1>2. Sound(b, Expanded(b, r)) /\ Sound(b, AnnotationLines(b, r)) BY ExpandedSound, AnnotationsSound
<1>3. ~Schema(b, r).native => Sound(b, EnvelopeLines(b, r)) BY EnvelopeSound
<1>4. ASSUME NEW prefix, IsPath(prefix), NEW lines, Sound(b, lines)
      PROVE  Sound(b, Under(prefix, lines))
  <2>1. SUFFICES ASSUME NEW line \in Under(prefix, lines) PROVE IsPath(line[1]) /\ Declared(b, line[2])
    BY DEF Sound
  <2>2. PICK below \in lines : line = <<prefix \o below[1], below[2]>> BY DEF Under
  <2>3. IsPath(below[1]) /\ Declared(b, below[2]) BY <1>4 DEF Sound
  <2> QED BY <1>4, <2>2, <2>3, PrefixedPath
<1>5. IsPath(<<"spec", "forProvider">>) /\ IsPath(<<"spec">>) BY ShortPaths
<1>6. Sound(b, PlannedLines(b, r))
  <2>1. CASE Schema(b, r).native
    <3>1. PlannedLines(b, r) \subseteq Expanded(b, r) \union AnnotationLines(b, r)
      BY <2>1 DEF PlannedLines, NativeLines
    <3> QED BY <1>2, <3>1 DEF Sound
  <2>2. CASE ~Schema(b, r).native
    <3>1. /\ Sound(b, Under(<<"spec", "forProvider">>, Expanded(b, r)))
          /\ Sound(b, Under(<<"spec">>, EnvelopeLines(b, r)))
      BY <1>2, <1>3, <1>4, <1>5, <2>2
    <3> QED BY <1>2, <2>2, <3>1 DEF PlannedLines, Sound
  <2> QED BY <2>1, <2>2
<1>7. Declared(b, PlannedName(b, r))
  <2>1. Declared(b, None) BY DEF Declared, None, Source
  <2>2. Declared(b, NameOf(r.name)) BY DEF Declared, NameOf, Source, ResourceNames, ToSet
  <2>3. Declared(b, Root(b, CustomName(r))) BY <1>1, CustomNameDeclared, RootDeclared
  <2> QED BY <2>1, <2>2, <2>3 DEF PlannedName
<1> QED BY <1>6, <1>7

-----------------------------------------------------------------------------
(* Rendering *)

LEMMA AlwaysThere ==
    ASSUME NEW b, NEW spec, Admitted(b, spec), NEW p, AlwaysPresent(b, p)
    PROVE  p \in DOMAIN spec
<1>1. p \in DOMAIN b.params /\ (b.params[p].required \/ b.params[p].default) /\ Len(p) = 1
  BY DEF AlwaysPresent
<1>2. ~(Len(p) > 1) BY <1>1
<1> QED BY <1>1, <1>2, Zenon DEF Admitted

LEMMA SourceEvaluable ==
    ASSUME NEW b, Document(b), Valid(b), NEW w, Admitted(b, w.spec), NEW s, Declared(b, s)
    PROVE  LineEvaluable(b, w, s)
<1>0. ValidDeclarations(b) BY DEF Valid, ValidParameters
<1>1. CASE s.kind = "param"
  <2>0. s.path \in DOMAIN b.params /\ (Present(w, s) <=> s.path \in DOMAIN w.spec)
    BY <1>1 DEF Declared, Present
  <2>1. CASE IsObjectWire(b, s) /\ Len(s.path) = 1
    <3>1. GoGuard(b, s) = {Param(s.path)} BY <1>1, <2>1 DEF GoGuard, ObjectGuard
    <3>2. Evaluable(w, Param(s.path))
      <4>1. ~(Len(s.path) > 1) BY <2>1
      <4> QED BY <4>1, ParamFields, Zenon DEF Evaluable
    <3>3. GuardEvaluable(w, GoGuard(b, s)) BY <3>1, <3>2, Zenon DEF GuardEvaluable
    <3>4. GuardHolds(w, GoGuard(b, s)) => Present(w, s) BY <2>0, <3>1, PresentParam DEF GuardHolds
    <3> QED BY <3>3, <3>4 DEF LineEvaluable
  <2>2. CASE IsObjectWire(b, s) /\ Len(s.path) # 1
    <3>1. GoGuard(b, s) = {Never} BY <1>1, <2>2 DEF GoGuard, ObjectGuard
    <3>2. Evaluable(w, Never) /\ ~Present(w, Never) BY DEF Evaluable, Present, Never, Source
    <3>3. GuardEvaluable(w, GoGuard(b, s)) BY <3>1, <3>2, Zenon DEF GuardEvaluable
    <3>4. ~GuardHolds(w, GoGuard(b, s)) BY <3>1, <3>2 DEF GuardHolds
    <3> QED BY <3>3, <3>4 DEF LineEvaluable
  <2>3. CASE ~IsObjectWire(b, s)
    <3>1. GoGuard(b, s) = ChainGuard(b, s.path) BY <1>1, <2>3 DEF GoGuard
    <3> QED BY <1>0, <2>0, <3>1, ChainGuards DEF LineEvaluable
  <2> QED BY <2>1, <2>2, <2>3
<1>2. CASE s.kind = "env"
  <2>1. GoGuard(b, s) = IF b.env[s.ref].default THEN {} ELSE {s} BY <1>2 DEF GoGuard
  <2> QED BY <1>2, <2>1 DEF LineEvaluable, GuardEvaluable, GuardHolds, Evaluable
<1>3. CASE s.kind = "status"
  <2>1. GoGuard(b, s) = {s} BY <1>3 DEF GoGuard
  <2> QED BY <1>3, <2>1 DEF LineEvaluable, GuardEvaluable, GuardHolds, Evaluable
<1>4. CASE s.kind = "bare"
  <2>1. AlwaysPresent(b, s.path) BY <1>4 DEF Declared, AlwaysPresent
  <2>2. s.path \in DOMAIN w.spec BY <2>1, AlwaysThere
  <2>3. Present(w, s) BY <1>4, <2>2 DEF Present
  <2>4. GoGuard(b, s) = {} BY <1>4 DEF GoGuard
  <2> QED BY <2>3, <2>4 DEF LineEvaluable, GuardEvaluable
<1>5. CASE s.kind \in {"none", "value", "raw", "template", "name"}
  <2>1. Present(w, s) BY <1>5 DEF Present
  <2>2. GoGuard(b, s) = {} BY <1>5 DEF GoGuard
  <2> QED BY <2>1, <2>2 DEF LineEvaluable, GuardEvaluable
<1> QED BY <1>1, <1>2, <1>3, <1>4, <1>5 DEF Declared


(* A run's plan is that of the document's resources. *)
LEMMA GivenPlan ==
    ASSUME NEW b, Document(b), Emits(b), NEW w, w.plan = Plan(b), NEW r \in ToSet(b.resources)
    PROVE  \E planned \in ToSet(b.resources) :
              /\ Lines(w, r) = PlannedLines(b, planned)
              /\ NameSource(w, r) = PlannedName(b, planned)
<1>1. r.name \in ResourceNames(b) BY DEF ResourceNames, ToSet
<1>2. ResourceNamed(b, r.name) \in ToSet(b.resources) BY <1>1, NamedResource
<1>3. w.plan[r.name] = [lines |-> PlannedLines(b, ResourceNamed(b, r.name)),
                        name |-> PlannedName(b, ResourceNamed(b, r.name))]
  BY <1>1 DEF Plan
<1> QED BY <1>2, <1>3 DEF Lines, NameSource

LEMMA LinesSound ==
    ASSUME NEW b, Document(b), Emits(b), NEW w, w.plan = Plan(b), NEW r \in ToSet(b.resources)
    PROVE  Sound(b, Lines(w, r)) /\ Declared(b, NameSource(w, r))
BY GivenPlan, PlannedSound

(* A document the emitters take renders for every composite it admits,     *)
(* whatever is in the environment and observed (composition.go).           *)
THEOREM EmittedEvaluates ==
    ASSUME NEW b, Document(b), Emits(b), NEW w, w.plan = Plan(b), Admitted(b, w.spec)
    PROVE  Evaluates(b, w)
<1>1. SUFFICES ASSUME NEW r \in ToSet(b.resources)
               PROVE  /\ r.when.of.kind = "param" => Present(w, r.when.of)
                      /\ r.forEach.kind = "param" => Present(w, r.forEach)
                      /\ \A s \in Sources(w, r) : LineEvaluable(b, w, s)
  BY DEF Evaluates
<1>2. PICK i \in DOMAIN b.resources : r = b.resources[i] BY DEF ToSet
<1>3. Valid(b) /\ ValidWhen(b, r) /\ ValidForEach(b, r) BY <1>2 DEF Emits, Valid
<1>4. ASSUME r.when.of.kind = "param" PROVE Present(w, r.when.of)
  <2>1. AlwaysPresent(b, r.when.of.path) BY <1>3, <1>4 DEF ValidWhen
  <2>2. r.when.of.path \in DOMAIN w.spec BY <2>1, AlwaysThere
  <2> QED BY <1>4, <2>2 DEF Present
<1>5. ASSUME r.forEach.kind = "param" PROVE Present(w, r.forEach)
  <2>1. AlwaysPresent(b, r.forEach.path) BY <1>3, <1>5 DEF ValidForEach
  <2>2. r.forEach.path \in DOMAIN w.spec BY <2>1, AlwaysThere
  <2> QED BY <1>5, <2>2 DEF Present
<1>6. \A s \in Sources(w, r) : LineEvaluable(b, w, s)
  <2>1. \A s \in Sources(w, r) : Declared(b, s) BY LinesSound DEF Sources, Sound
  <2> QED BY <1>3, <2>1, SourceEvaluable
<1> QED BY <1>4, <1>5, <1>6

-----------------------------------------------------------------------------
(* The sample composite *)

LEMMA PrefixOfPrefix ==
    ASSUME NEW p, IsPath(p), NEW i \in 1..Len(p)
    PROVE  /\ \A j \in 1..i : SubSeq(SubSeq(p, 1, i), 1, j) = SubSeq(p, 1, j)
           /\ IsPrefix(SubSeq(p, 1, i), p)
<1>1. p \in Seq(ToSet(p)) /\ Len(p) \in Nat BY WholePath DEF IsPath
<1>2. \A j \in 1..i : SubSeq(SubSeq(p, 1, i), 1, j) = SubSeq(p, 1, j) BY <1>1, SubSeqOfSubSeq
<1>3. Len(SubSeq(p, 1, i)) = i BY Prefix
<1> QED BY <1>1, <1>2, <1>3 DEF IsPrefix

(* The composite previews and render checks run on is one the XRD admits   *)
(* (sample_xr.go, xrd.go).                                                 *)
THEOREM SampleAdmitted ==
    ASSUME NEW b, Document(b), Valid(b)
    PROVE  Admitted(b, SampleXR(b))
<1> DEFINE wanted(p) == \E q \in DOMAIN b.params :
                           IsPrefix(p, q) /\ (b.params[q].required \/ b.params[q].default)
           bound(p) == \E r \in ToSet(b.resources) : r.forEach = Param(p)
           present == {p \in DOMAIN b.params :
                         bound(p) \/ \A i \in DOMAIN p : wanted(SubSeq(p, 1, i))}
           sample == SampleXR(b)
<1>1. sample = [p \in present |->
                  CHOOSE v \in b.params[p].enum : \A other \in b.params[p].enum : v >= other]
  BY DEF SampleXR
<1>2. \A p \in DOMAIN b.params : /\ IsPath(p) /\ DOMAIN p = 1..Len(p)
                                 /\ Len(p) \in Nat /\ Len(p) >= 1
  BY WholePath, LenProperties DEF Document, IsPath
<1>3. \A p \in present : sample[p] \in b.params[p].enum BY <1>1 DEF Document
<1>4. ASSUME NEW p \in present, Len(p) > 1 PROVE Front(p) \in present
  <2>1. ~bound(p)
    <3>1. SUFFICES ASSUME NEW r \in ToSet(b.resources), r.forEach = Param(p) PROVE FALSE
      OBVIOUS
    <3>2. PICK i \in DOMAIN b.resources : r = b.resources[i] BY DEF ToSet
    <3>3. ValidForEach(b, r) BY <3>2 DEF Valid
    <3>4. r.forEach.kind = "param" /\ r.forEach.path = p BY <3>1, ParamFields
    <3>5. Len(p) = 1 BY <3>3, <3>4 DEF ValidForEach, AlwaysPresent
    <3> QED BY <3>5, <1>4
  <2>2. \A i \in DOMAIN p : wanted(SubSeq(p, 1, i)) BY <1>4, <2>1
  <2> HIDE DEF wanted, bound
  <2>3. Front(p) = SubSeq(p, 1, Len(p) - 1) /\ Len(p) - 1 \in 1..Len(p) BY <1>2, <1>4 DEF Front
  <2>4. Front(p) \in DOMAIN b.params BY <1>4 DEF Valid, ValidParameters, ValidDeclarations
  <2>5. DOMAIN Front(p) = 1..Len(p) - 1 BY <1>2, <2>3, <2>4, Prefix
  <2>6. \A i \in 1..Len(p) - 1 : SubSeq(Front(p), 1, i) = SubSeq(p, 1, i)
    BY <1>2, <1>4, <2>3, PrefixOfPrefix
  <2>7. 1..Len(p) - 1 \subseteq DOMAIN p BY <1>2
  <2> QED BY <2>2, <2>4, <2>5, <2>6, <2>7
<1>5. ASSUME NEW p \in DOMAIN b.params, b.params[p].required \/ b.params[p].default
      PROVE  p \in present
  <2>1. \A i \in DOMAIN p : IsPrefix(SubSeq(p, 1, i), p) BY <1>2, PrefixOfPrefix
  <2> QED BY <1>5, <2>1
<1> HIDE DEF wanted, bound
<1>6. DOMAIN sample = present /\ present \subseteq DOMAIN b.params BY <1>1
<1> HIDE DEF sample, present
<1>7. Admitted(b, sample) BY <1>3, <1>4, <1>5, <1>6 DEF Admitted
<1> QED BY <1>7 DEF sample

-----------------------------------------------------------------------------
(* The engines *)

(* The guard of a line holds when Python, or KCL, renders the line.        *)
LEMMA ShownAlike ==
    ASSUME NEW b, Document(b), Valid(b), NEW w, Admitted(b, w.spec), NEW s, Declared(b, s),
           IsObjectWire(b, s) => Len(s.path) = 1
    PROVE  /\ GuardHolds(w, GoGuard(b, s)) <=> PythonShows(b, w, s)
           /\ s.kind # "env" =>
                 (GuardHolds(w, GoGuard(b, s)) <=> (KclGuarded(b, s) => Present(w, s)))
<1>0. ValidDeclarations(b) BY DEF Valid, ValidParameters
<1>1. CASE s.kind = "param"
  <2>1. s.path \in DOMAIN b.params /\ (Present(w, s) <=> s.path \in DOMAIN w.spec)
    BY <1>1 DEF Declared, Present
  <2>2. GuardHolds(w, ChainGuard(b, s.path)) <=> s.path \in DOMAIN w.spec
    BY <1>0, <2>1, ChainGuards
  <2>3. GuardHolds(w, GoGuard(b, s)) <=> Present(w, s)
    <3>1. CASE IsObjectWire(b, s)
      <4>1. GoGuard(b, s) = {Param(s.path)} BY <1>1, <3>1 DEF GoGuard, ObjectGuard
      <4> QED BY <2>1, <4>1, PresentParam DEF GuardHolds
    <3>2. CASE ~IsObjectWire(b, s)
      <4>1. GoGuard(b, s) = ChainGuard(b, s.path) BY <1>1, <3>2 DEF GoGuard
      <4> QED BY <2>1, <2>2, <4>1
    <3> QED BY <3>1, <3>2
  <2>4. PythonShows(b, w, s) <=> Present(w, s) BY <1>1 DEF PythonShows, Defaulted
  <2>5. ASSUME ~KclGuarded(b, s) PROVE Present(w, s)
    <3>1. ChainGuard(b, s.path) = {} BY <1>1, <2>5 DEF KclGuarded, KclOptional
    <3> QED BY <2>1, <2>2, <3>1 DEF GuardHolds
  <2> QED BY <2>3, <2>4, <2>5
<1>2. CASE s.kind = "env"
  <2>1. GoGuard(b, s) = IF b.env[s.ref].default THEN {} ELSE {s} BY <1>2 DEF GoGuard
  <2> QED BY <1>2, <2>1 DEF GuardHolds, PythonShows, Defaulted
<1>3. CASE s.kind = "status"
  <2>1. GoGuard(b, s) = {s} BY <1>3 DEF GoGuard
  <2> QED BY <1>3, <2>1 DEF GuardHolds, PythonShows, Defaulted, KclGuarded, KclOptional
<1>4. CASE s.kind \in {"none", "value", "raw", "template", "name", "bare"}
  <2>1. Present(w, s)
    <3>1. CASE s.kind = "bare"
      <4>1. AlwaysPresent(b, s.path) BY <3>1 DEF Declared, AlwaysPresent
      <4>2. s.path \in DOMAIN w.spec BY <4>1, AlwaysThere
      <4> QED BY <3>1, <4>2 DEF Present
    <3>2. CASE s.kind # "bare" BY <1>4, <3>2 DEF Present
    <3> QED BY <3>1, <3>2
  <2>2. GoGuard(b, s) = {} BY <1>4 DEF GoGuard
  <2> QED BY <2>1, <2>2 DEF GuardHolds, PythonShows
<1> QED BY <1>1, <1>2, <1>3, <1>4 DEF Declared

(* A line that is rendered writes the keys of its parents. *)
LEMMA ParentsWritten ==
    ASSUME NEW b, NEW w, NEW lines, NEW line \in lines, IsPath(line[1]),
           NEW path \in Ancestors(line[1])
    PROVE  /\ GuardHolds(w, GoGuard(b, line[2])) => GoWritesKey(b, w, lines, path)
           /\ (KclGuarded(b, line[2]) => Present(w, line[2])) => KclWritesKey(b, w, lines, path)
<1>1. Len(line[1]) \in Nat BY WholePath
<1>2. PICK i \in 1..Len(line[1]) - 1 : path = SubSeq(line[1], 1, i) BY DEF Ancestors
<1>3. IsPrefix(path, line[1]) BY <1>1, <1>2, PrefixOfPrefix
<1>4. line \in Below(lines, path) BY <1>3 DEF Below
<1> QED BY <1>4 DEF GoWritesKey, KclWritesKey, KclGuarded

(* The lines of the Go template are those of the Python script, and of the *)
(* KCL program where nothing is taken from an environment.                 *)
THEOREM LinesAgree ==
    ASSUME NEW b, Document(b), Emits(b), NEW w, w.plan = Plan(b), Admitted(b, w.spec),
           NEW r \in ToSet(b.resources),
           \A line \in Lines(w, r) : IsObjectWire(b, line[2]) => Len(line[2].path) = 1
    PROVE  /\ GoLines(b, w, r) = PythonLines(b, w, r)
           /\ DOMAIN b.env = {} => GoLines(b, w, r) = KclLines(b, w, r)
<1>0. Valid(b) BY DEF Emits
<1>1. \A line \in Lines(w, r) : IsPath(line[1]) /\ Declared(b, line[2]) BY LinesSound DEF Sound
<1>2. \A line \in Lines(w, r) :
         GuardHolds(w, GoGuard(b, line[2])) <=> PythonShows(b, w, line[2])
  BY <1>0, <1>1, ShownAlike
<1>3. GoLines(b, w, r) = {line \in Lines(w, r) : GuardHolds(w, GoGuard(b, line[2]))}
  BY <1>1, ParentsWritten DEF GoLines
<1>4. GoLines(b, w, r) = PythonLines(b, w, r) BY <1>2, <1>3 DEF PythonLines
<1>5. ASSUME DOMAIN b.env = {} PROVE GoLines(b, w, r) = KclLines(b, w, r)
  <2>1. \A line \in Lines(w, r) :
           GuardHolds(w, GoGuard(b, line[2])) <=> (KclGuarded(b, line[2]) => Present(w, line[2]))
    <3>1. \A line \in Lines(w, r) : line[2].kind # "env" BY <1>1, <1>5 DEF Declared
    <3> QED BY <1>0, <1>1, <3>1, ShownAlike
  <2>2. KclLines(b, w, r) =
           {line \in Lines(w, r) : KclGuarded(b, line[2]) => Present(w, line[2])}
    BY <1>1, ParentsWritten DEF KclLines
  <2> QED BY <1>3, <2>1, <2>2
<1> QED BY <1>4, <1>5

(* The values a run reads are numbers. *)
Numbers(w) == \A key \in DOMAIN w.env : w.env[key] \in Nat

LEMMA AdmittedNumbers ==
    ASSUME NEW b, Document(b), NEW spec, Admitted(b, spec), NEW p \in DOMAIN spec
    PROVE  spec[p] \in Nat
BY DEF Document, Admitted

LEMMA NatNotAbsent == \A n \in Nat : n # -1
OBVIOUS

(* A condition on a number reads alike in the engines. *)
LEMMA Conditions ==
    ASSUME NEW when, NEW value \in Nat, when.op \in {"", "==", "!="}, when.literal \in Nat
    PROVE  /\ Condition(when, value) <=> Truthy(when, value)
           /\ Truthy(when, Absent) <=> when.op = "!="
<1>1. value # -1 /\ when.literal # -1 /\ 0 # -1 BY NatNotAbsent, 0 \in Nat, Zenon
<1>2. CASE when.op = ""
  <2>1. Condition(when, value) <=> value # 0 BY <1>2 DEF Condition
  <2>2. \A v : Truthy(when, v) <=> v # 0 /\ v # -1 BY <1>2 DEF Truthy, Absent
  <2> QED BY <1>1, <1>2, <2>1, <2>2 DEF Absent
<1>3. CASE when.op = "=="
  <2>1. when.op # "" /\ when.op # "!=" BY <1>3
  <2>2. \A v : Truthy(when, v) <=> Condition(when, v) BY <2>1 DEF Truthy
  <2>3. ~Condition(when, Absent) BY <1>1, <1>3 DEF Condition, Absent
  <2> QED BY <2>1, <2>2, <2>3
<1>4. CASE when.op = "!="
  <2>1. when.op # "" BY <1>4
  <2>2. \A v : Truthy(when, v) <=> Condition(when, v) BY <2>1 DEF Truthy
  <2>3. Condition(when, Absent) BY <1>1, <1>4 DEF Condition, Absent
  <2> QED BY <1>4, <2>2, <2>3
<1> QED BY <1>2, <1>3, <1>4

LEMMA WhenAgrees ==
    ASSUME NEW b, Document(b), Valid(b), NEW w, Admitted(b, w.spec), Numbers(w),
           NEW r \in ToSet(b.resources)
    PROVE  /\ GoWhenHolds(b, w, r) <=> PythonWhenHolds(b, w, r)
           /\ DOMAIN b.env = {} => (GoWhenHolds(b, w, r) <=> KclWhenHolds(b, w, r))
<1> DEFINE of == r.when.of
<1>1. PICK i \in DOMAIN b.resources : r = b.resources[i] BY DEF ToSet
<1>2. ValidWhen(b, r) BY <1>1 DEF Valid
<1>3. r.when.op \in {"", "==", "!="} /\ r.when.literal \in Nat BY DEF Document
<1>4. CASE of.kind = "none" BY <1>4 DEF GoWhenHolds, PythonWhenHolds, KclWhenHolds
<1>5. CASE of.kind = "param"
  <2>1. AlwaysPresent(b, of.path) BY <1>2, <1>5 DEF ValidWhen
  <2>2. of.path \in DOMAIN w.spec BY <2>1, AlwaysThere
  <2>3. w.spec[of.path] \in Nat BY <2>2, AdmittedNumbers
  <2>4. \A absent : Read(w, of, absent) = w.spec[of.path] BY <1>5, <2>2 DEF Read, Value, Present
  <2>5. GoWhenHolds(b, w, r) <=> Condition(r.when, w.spec[of.path]) BY <1>5 DEF GoWhenHolds
  <2>6. /\ PythonWhenHolds(b, w, r) <=> Truthy(r.when, w.spec[of.path])
        /\ KclWhenHolds(b, w, r) <=> Truthy(r.when, w.spec[of.path])
    BY <1>5, <2>4 DEF PythonWhenHolds, KclWhenHolds
  <2> QED BY <1>3, <2>3, <2>5, <2>6, Conditions
<1>6. CASE of.kind = "env"
  <2>1. of.ref \in DOMAIN b.env BY <1>2, <1>6 DEF ValidWhen
  <2>2. Present(w, of) <=> of.ref \in DOMAIN w.env BY <1>6 DEF Present
  <2>3. CASE Present(w, of)
    <3>1. w.env[of.ref] \in Nat BY <2>2, <2>3 DEF Numbers
    <3>2. EnvValue(b, w, of.ref) = w.env[of.ref] BY <2>2, <2>3 DEF EnvValue
    <3>3. \A absent : Read(w, of, absent) = w.env[of.ref] BY <1>6, <2>3 DEF Read, Value
    <3>4. GoWhenHolds(b, w, r) <=> Condition(r.when, w.env[of.ref])
      BY <1>6, <2>3, <3>2 DEF GoWhenHolds
    <3>5. PythonWhenHolds(b, w, r) <=> Truthy(r.when, w.env[of.ref])
      BY <1>6, <3>3 DEF PythonWhenHolds
    <3> QED BY <1>3, <2>1, <3>1, <3>4, <3>5, Conditions
  <2>4. CASE ~Present(w, of) /\ b.env[of.ref].default
    <3>1. EnvValue(b, w, of.ref) = 1 BY <2>2, <2>4 DEF EnvValue
    <3>2. GoWhenHolds(b, w, r) <=> Condition(r.when, 1) BY <1>6, <2>4, <3>1 DEF GoWhenHolds
    <3>3. PythonWhenHolds(b, w, r) <=> Truthy(r.when, 1)
      BY <1>6, <2>4 DEF PythonWhenHolds, Read, Defaulted
    <3> QED BY <1>3, <2>1, <3>2, <3>3, Conditions
  <2>5. CASE ~Present(w, of) /\ ~b.env[of.ref].default
    <3>1. GoWhenHolds(b, w, r) <=> r.when.op = "!=" BY <1>6, <2>5 DEF GoWhenHolds
    <3>2. PythonWhenHolds(b, w, r) <=> Truthy(r.when, Absent)
      BY <1>6, <2>5 DEF PythonWhenHolds, Read, Defaulted
    <3>3. 0 \in Nat OBVIOUS
    <3> QED BY <1>3, <2>1, <3>1, <3>2, <3>3, Conditions
  <2> QED BY <2>3, <2>4, <2>5
<1> QED BY <1>2, <1>4, <1>5, <1>6 DEF ValidWhen

LEMMA CountsAgree ==
    ASSUME NEW b, Document(b), Valid(b), NEW w, Admitted(b, w.spec), NEW r \in ToSet(b.resources)
    PROVE  \/ r.forEach = None
           \/ /\ GoCount(b, w, r) = PythonCount(b, w, r)
              /\ DOMAIN b.env = {} => GoCount(b, w, r) = KclCount(b, w, r)
<1> DEFINE bound == r.forEach
<1>1. PICK i \in DOMAIN b.resources : r = b.resources[i] BY DEF ToSet
<1>2. ValidForEach(b, r) BY <1>1 DEF Valid
<1>3. CASE bound.kind = "none" BY <1>3 DEF Document
<1>4. CASE bound.kind = "param"
  <2>1. AlwaysPresent(b, bound.path) BY <1>2, <1>4 DEF ValidForEach
  <2>2. bound.path \in DOMAIN w.spec BY <2>1, AlwaysThere
  <2>3. \A absent : Read(w, bound, absent) = w.spec[bound.path]
    BY <1>4, <2>2 DEF Read, Value, Present
  <2> QED BY <1>4, <2>3 DEF GoCount, PythonCount, KclCount
<1>5. CASE bound.kind = "env"
  <2>1. bound.ref \in DOMAIN b.env BY <1>2, <1>5 DEF ValidForEach
  <2>2. Present(w, bound) <=> bound.ref \in DOMAIN w.env BY <1>5 DEF Present
  <2>3. GoCount(b, w, r) = PythonCount(b, w, r)
    BY <1>5, <2>2 DEF GoCount, PythonCount, Read, Value, Defaulted, EnvValue
  <2> QED BY <2>1, <2>3
<1>6. CASE bound.kind = "status"
  BY <1>6 DEF GoCount, PythonCount, KclCount, Read, Value, Defaulted
<1> QED BY <1>2, <1>3, <1>4, <1>5, <1>6 DEF ValidForEach

-----------------------------------------------------------------------------
(* Names *)

(* What a line shows tells what it is fed from.                            *)
LEMMA ShowsApart ==
    ASSUME NEW b, NEW w, NEW s, NEW t, Declared(b, s), Declared(b, t), Shows(w, s) = Shows(w, t)
    PROVE  s = t
<1>1. /\ s = [kind |-> s.kind, ref |-> s.ref, path |-> s.path] /\ s.kind # "default"
      /\ t = [kind |-> t.kind, ref |-> t.ref, path |-> t.path] /\ t.kind # "default"
  BY DEF Declared, Source
<1>2. \/ Shows(w, s) = s
      \/ s.kind = "env" /\ Shows(w, s) = [kind |-> "default", ref |-> s.ref, path |-> s.path]
  BY <1>1 DEF Shows
<1>3. \/ Shows(w, t) = t
      \/ t.kind = "env" /\ Shows(w, t) = [kind |-> "default", ref |-> t.ref, path |-> t.path]
  BY <1>1 DEF Shows
<1>4. CASE Shows(w, s) = s /\ Shows(w, t) = t BY <1>4
<1>5. CASE Shows(w, s).kind = "default"
  <2>1. /\ s.kind = "env" /\ Shows(w, s).ref = s.ref /\ Shows(w, s).path = s.path
        /\ t.kind = "env" /\ Shows(w, t).ref = t.ref /\ Shows(w, t).path = t.path
    BY <1>1, <1>2, <1>3, <1>5
  <2> QED BY <1>1, <2>1
<1>6. CASE Shows(w, s).kind # "default" BY <1>1, <1>2, <1>3, <1>6
<1> QED BY <1>4, <1>5, <1>6

(* Whatever engine composes it, an item has the lines the Go template      *)
(* would write.                                                            *)
LEMMA ItemLines ==
    ASSUME NEW b, Document(b), Emits(b), NEW w, w.plan = Plan(b), Admitted(b, w.spec),
           \A r \in ToSet(b.resources) : \A line \in Lines(w, r) :
              IsObjectWire(b, line[2]) => Len(line[2].path) = 1,
           NEW item \in Items(b, w)
    PROVE  \E r \in ToSet(b.resources) :
              item.lines = {<<line[1], Shows(w, line[2])>> : line \in GoLines(b, w, r)}
<1>1. PICK r \in ToSet(b.resources) :
        item \in CASE b.engine = "kcl" -> KclItems(b, w, r)
                   [] b.engine = "python" -> PythonItems(b, w, r)
                   [] OTHER -> GoItems(b, w, r)
  BY DEF Items
<1>2. /\ GoLines(b, w, r) = PythonLines(b, w, r)
      /\ DOMAIN b.env = {} => GoLines(b, w, r) = KclLines(b, w, r)
  BY LinesAgree
<1>3. b.engine = "kcl" => DOMAIN b.env = {} BY DEF Emits, Accepts
<1>4. item \in Rendered(b, w, r, GoLines(b, w, r))
  BY <1>1, <1>2, <1>3 DEF KclItems, PythonItems, GoItems
<1> QED BY <1>4 DEF Rendered

(* A reference to the name of a native resource that is rendered is the    *)
(* name that resource has.                                                 *)
THEOREM ReferenceIsTheName ==
    ASSUME NEW b, Document(b), Emits(b), NEW w, w.plan = Plan(b), Admitted(b, w.spec),
           \A r \in ToSet(b.resources) : \A line \in Lines(w, r) :
              IsObjectWire(b, line[2]) => Len(line[2].path) = 1,
           NEW r \in ToSet(b.resources), NEW p \in DOMAIN r.fields,
           r.fields[p].kind = "name", Schema(b, ResourceNamed(b, r.fields[p].ref)).native,
           NEW item \in Items(b, w), NEW at, <<at, Shows(w, Root(b, r.fields[p]))>> \in item.lines
    PROVE  Shows(w, Root(b, r.fields[p])) = Named(b, w, ResourceNamed(b, r.fields[p].ref))
<1> DEFINE ref == r.fields[p]
           t == ResourceNamed(b, ref.ref)
           root == Root(b, ref)
<1>1. Valid(b) BY DEF Emits
<1>2. Declared(b, ref) /\ ref.kind = "name" BY <1>1, SetDeclared
<1>3. ~NameCycle(b, r.name, ref)
  <2>1. PICK i \in DOMAIN b.resources : r = b.resources[i] BY DEF ToSet
  <2> QED BY <2>1 DEF Emits
<1>4. b.resources # <<>> BY DEF ToSet
<1>5. ref.ref \in ResourceNames(b) /\ ref = NameOf(ref.ref) BY <1>2 DEF Declared
<1>6. t.name = ref.ref BY <1>5 DEF ResourceNamed, ResourceNames
<1>7. Schema(b, t).native OBVIOUS
<1>8. Shows(w, root) = Shows(w, root) /\ <<at, Shows(w, root)>> \in item.lines OBVIOUS
<1>9. Declared(b, root) BY <1>1, <1>2, RootDeclared
<1>10. NamedBy(b, ref) = IF CustomName(t) = None THEN ref ELSE CustomName(t) BY <1>2 DEF NamedBy
<1>11. Root(b, NamedBy(b, ref)) = root BY <1>1, <1>2, <1>3, <1>4, RootOfName
<1>12. CustomName(t) = None => root = NameOf(t.name)
  BY <1>5, <1>6, <1>10, RootOfItself
<1> HIDE DEF ref, root
<1>13. NameSource(w, t) = root
  <2>1. w.plan[t.name].name = PlannedName(b, t)
    <3>1. t = ResourceNamed(b, t.name) BY <1>6
    <3> HIDE DEF t
    <3> QED BY <1>5, <1>6, <3>1 DEF Plan
  <2> HIDE DEF t
  <2> QED BY <1>7, <1>10, <1>11, <1>12, <2>1 DEF PlannedName, NameSource
<1>14. GuardHolds(w, GoGuard(b, root))
  <2>1. PICK q \in ToSet(b.resources) :
          item.lines = {<<line[1], Shows(w, line[2])>> : line \in GoLines(b, w, q)}
    BY ItemLines
  <2>2. PICK line \in GoLines(b, w, q) : <<at, Shows(w, root)>> = <<line[1], Shows(w, line[2])>>
    BY <1>8, <2>1
  <2>3. line \in Lines(w, q) /\ GuardHolds(w, GoGuard(b, line[2])) BY DEF GoLines
  <2>4. Declared(b, line[2]) BY <2>3, LinesSound DEF Sound
  <2>5. line[2] = root BY <1>9, <2>2, <2>4, ShowsApart
  <2> QED BY <2>3, <2>5
<1>15. Named(b, w, t) = Shows(w, root) BY <1>13, <1>14 DEF Named
<1> QED BY <1>15 DEF root, ref
=============================================================================
