---------------------------- MODULE Pipeline_proofs ----------------------------
(***************************************************************************)
(* The assembly of the pipeline, for declared pipelines of any length.     *)
(*                                                                         *)
(* The folds the assembly is made of are recursive functions over the sets *)
(* of positions, introduced by CHOOSE: Iterates shows there is such a      *)
(* function and Folded that along 1..n it goes one element at a time.      *)
(* Each fold then gets a lemma with its two equations, and what holds of   *)
(* the result is shown of the prefix with the least counterexample.        *)
(***************************************************************************)
EXTENDS Pipeline, FiniteSetTheorems, SequenceTheorems, TLAPS

LEMMA LeastOf ==
    ASSUME NEW S \in SUBSET Nat, S # {}
    PROVE  \E least \in S : \A n \in S : least <= n
<1>1. PICK n \in S : TRUE OBVIOUS
<1>2. PICK least \in S : \A m \in S : ~(<<m, least>> \in OpToRel(<, Nat))
  BY NatLessThanWellFounded, WFMin
<1>3. \A m \in S : m \in Nat /\ least \in Nat /\ ~(m < least) BY <1>2 DEF OpToRel
<1> QED BY <1>3

(* What holds at 0 and at each next position holds at every one: the set   *)
(* of the positions where it fails has no least element.                   *)
LEMMA NoneFails ==
    ASSUME NEW n \in Nat, NEW Fails \in SUBSET (0..n),
           0 \notin Fails, \A i \in 1..n : i \in Fails => i - 1 \in Fails
    PROVE  Fails = {}
<1>1. SUFFICES ASSUME Fails # {} PROVE FALSE OBVIOUS
<1>2. PICK m \in Fails : \A k \in Fails : m <= k BY <1>1, LeastOf
<1>3. m \in 1..n /\ ~(m <= m - 1) BY <1>2
<1> QED BY <1>2, <1>3

LEMMA Greatest ==
    ASSUME NEW n \in Nat, NEW S \in SUBSET (1..n), S # {}
    PROVE  Max(S) \in S /\ \A i \in S : i <= Max(S)
<1> DEFINE Above == {m \in Nat : \A i \in S : i <= m}
<1>1. n \in Above OBVIOUS
<1>2. PICK m \in Above : \A k \in Above : m <= k BY <1>1, LeastOf
<1>3. m \in S
  <2>1. SUFFICES ASSUME m \notin S PROVE FALSE OBVIOUS
  <2>2. PICK i \in S : TRUE OBVIOUS
  <2>3. m \in Nat /\ m - 1 \in Nat /\ ~(m <= m - 1) BY <1>2, <2>2
  <2>4. \A k \in S : k <= m - 1
    <3>1. \A k \in S : k \in Nat /\ k <= m /\ k # m BY <1>2, <2>1
    <3> QED BY <2>3, <3>1
  <2>5. m - 1 \in Above BY <2>3, <2>4
  <2> QED BY <1>2, <2>3, <2>5
<1>4. \E x \in S : \A y \in S : x >= y
  <2>1. \A y \in S : m >= y BY <1>2
  <2> QED BY <1>3, <2>1
<1>5. Max(S) \in S /\ \A y \in S : Max(S) >= y BY <1>4 DEF Max
<1> QED BY <1>5

LEMMA GreatestOfRange == ASSUME NEW n \in Nat, n # 0 PROVE Max(1..n) = n
<1>1. n \in 1..n OBVIOUS
<1>2. Max(1..n) \in 1..n /\ n <= Max(1..n) BY <1>1, Greatest
<1> QED BY <1>2

-----------------------------------------------------------------------------
(* Folds *)

(* The body of a fold over the sets of positions: a step from the value    *)
(* without the greatest position.                                          *)
Unfolds(n, base, step, it) ==
    it = [S \in SUBSET (1..n) |->
            IF S = {} THEN base ELSE step[<<Max(S), it[S \ {Max(S)}]>>]]

LEMMA Iterates ==
    ASSUME NEW n \in Nat, NEW A, NEW base \in A, NEW step \in [(1..n) \X A -> A]
    PROVE  \E it \in [SUBSET (1..n) -> A] : Unfolds(n, base, step, it)
<1> DEFINE Goes(m, it) == /\ it \in [SUBSET (1..m) -> A]
                          /\ \A S \in SUBSET (1..m) :
                                it[S] = IF S = {} THEN base ELSE step[<<Max(S), it[S \ {Max(S)}]>>]
           Fails == {m \in 0..n : \A it : ~Goes(m, it)}
<1>1. 0 \notin Fails
  <2> DEFINE it == [S \in SUBSET (1..0) |-> base]
  <2>1. \A S \in SUBSET (1..0) : S = {} OBVIOUS
  <2>2. Goes(0, it) BY <2>1
  <2> QED BY <2>2
<1>2. ASSUME NEW m \in 1..n, m - 1 \notin Fails PROVE m \notin Fails
  <2>1. m - 1 \in 0..n /\ m \in Nat OBVIOUS
  <2>2. PICK old : Goes(m - 1, old)
    <3> HIDE DEF Goes
    <3> QED BY <1>2, <2>1
  <2> DEFINE it == [S \in SUBSET (1..m) |->
                      IF m \in S THEN step[<<m, old[S \ {m}]>>] ELSE old[S]]
  <2>3. ASSUME NEW S \in SUBSET (1..m)
        PROVE  /\ it[S] \in A
               /\ it[S] = IF S = {} THEN base ELSE step[<<Max(S), it[S \ {Max(S)}]>>]
    <3>1. CASE m \in S
      <4>1. Max(S) = m
        <5>1. Max(S) \in S /\ m <= Max(S) BY <2>1, <3>1, Greatest
        <5>2. Max(S) \in 1..m BY <5>1
        <5> QED BY <2>1, <5>1, <5>2
      <4>2. S \ {m} \in SUBSET (1..m - 1) BY <2>1
      <4>3. it[S \ {m}] = old[S \ {m}] BY <4>2
      <4>4. old[S \ {m}] \in A BY <2>2, <4>2
      <4>5. it[S] = step[<<m, old[S \ {m}]>>] BY <3>1
      <4>6. <<m, old[S \ {m}]>> \in (1..n) \X A BY <4>4
      <4> HIDE DEF it
      <4> QED BY <3>1, <4>1, <4>3, <4>5, <4>6
    <3>2. CASE m \notin S
      <4>1. S \in SUBSET (1..m - 1) BY <2>1, <3>2
      <4>2. it[S] = old[S] BY <3>2
      <4>3. S # {} => it[S \ {Max(S)}] = old[S \ {Max(S)}] BY <3>2, <4>1
      <4> HIDE DEF it
      <4> QED BY <2>2, <4>1, <4>2, <4>3
    <3> QED BY <3>1, <3>2
  <2>4. it = [S \in SUBSET (1..m) |-> it[S]] OBVIOUS
  <2>5. it \in [SUBSET (1..m) -> A]
    <3> HIDE DEF it
    <3> QED BY <2>3, <2>4
  <2> HIDE DEF it
  <2>6. Goes(m, it) BY <2>3, <2>5
  <2> QED BY <2>6
<1>3. Fails = {}
  <2> HIDE DEF Fails
  <2>1. Fails \subseteq 0..n BY DEF Fails
  <2> QED BY <1>1, <1>2, <2>1, NoneFails
<1>4. PICK it : Goes(n, it)
  <2> HIDE DEF Goes
  <2> QED BY <1>3
<1>5. it = [S \in SUBSET (1..n) |-> it[S]] BY <1>4
<1>6. Unfolds(n, base, step, it) BY <1>4, <1>5 DEF Unfolds
<1> QED BY <1>4, <1>6

(* Along 1..n such a function goes one element at a time.                  *)
LEMMA Ranges ==
    ASSUME NEW n \in Nat, NEW i \in 1..n
    PROVE  1..i \in SUBSET (1..n) /\ 1..i # {} /\ Max(1..i) = i /\ (1..i) \ {i} = 1..(i - 1)
  BY GreatestOfRange

LEMMA Throughout ==
    ASSUME NEW n \in Nat, NEW A, NEW f, f[0] \in A, \A i \in 1..n : f[i - 1] \in A => f[i] \in A
    PROVE  \A i \in 0..n : f[i] \in A
<1> DEFINE Fails == {i \in 0..n : f[i] \notin A}
<1>1. 0 \notin Fails /\ \A i \in 1..n : i \in Fails => i - 1 \in Fails OBVIOUS
<1>2. Fails \subseteq 0..n OBVIOUS
<1>3. Fails = {}
  <2> HIDE DEF Fails
  <2> QED BY <1>1, <1>2, NoneFails
<1> QED BY <1>3

(* f is what is kept of each prefix.                                       *)
KeptAlong(s, keep, f) ==
    /\ f[0] = <<>> /\ f[Len(s)] = Kept(s, keep)
    /\ \A i \in 1..Len(s) : f[i] = IF keep[i] THEN Append(f[i - 1], s[i]) ELSE f[i - 1]

LEMMA KeptFold ==
    ASSUME NEW T, NEW s \in Seq(T), NEW keep
    PROVE  \E f \in [0..Len(s) -> Seq(T)] : KeptAlong(s, keep, f)
<1> DEFINE n == Len(s)
           step == [x \in (1..n) \X Seq(T) |-> IF keep[x[1]] THEN Append(x[2], s[x[1]]) ELSE x[2]]
           ids == [i \in DOMAIN s |-> i]
           Body(it) == it = [S \in SUBSET DOMAIN ids |->
                               IF S = {} THEN <<>>
                               ELSE IF keep[ids[Max(S)]] THEN Append(it[S \ {Max(S)}], s[ids[Max(S)]])
                                    ELSE it[S \ {Max(S)}]]
           it == CHOOSE it : Body(it)
           f == [i \in 0..n |-> it[1..i]]
<1>1. n \in Nat /\ DOMAIN s = 1..n /\ DOMAIN ids = 1..n BY LenProperties
<1>2. step \in [(1..n) \X Seq(T) -> Seq(T)]
  <2>1. ASSUME NEW x \in (1..n) \X Seq(T)
        PROVE (IF keep[x[1]] THEN Append(x[2], s[x[1]]) ELSE x[2]) \in Seq(T)
    <3>1. x[2] \in Seq(T) /\ s[x[1]] \in T BY <1>1, ElementOfSeq
    <3> QED BY <3>1, AppendProperties
  <2> QED BY <2>1
<1>3. <<>> \in Seq(T) OBVIOUS
<1>4. PICK one \in [SUBSET (1..n) -> Seq(T)] : Unfolds(n, <<>>, step, one)
  <2> HIDE DEF n, step
  <2> QED BY <1>1, <1>2, <1>3, Iterates
<1>5. Body(one)
  <2>1. ASSUME NEW S \in SUBSET (1..n), S # {}
        PROVE  one[S] = IF keep[ids[Max(S)]] THEN Append(one[S \ {Max(S)}], s[ids[Max(S)]])
                        ELSE one[S \ {Max(S)}]
    <3>1. Max(S) \in 1..n BY <1>1, <2>1, Greatest
    <3>2. <<Max(S), one[S \ {Max(S)}]>> \in (1..n) \X Seq(T) BY <3>1
    <3>3. one[S] = step[<<Max(S), one[S \ {Max(S)}]>>] BY <1>4, <2>1 DEF Unfolds
    <3>4. ids[Max(S)] = Max(S) BY <1>1, <3>1
    <3> QED BY <3>2, <3>3, <3>4
  <2>2. one[{}] = <<>> BY <1>4 DEF Unfolds
  <2> QED BY <1>1, <1>4, <2>1, <2>2
<1>6. Body(it)
  <2> HIDE DEF Body
  <2> QED BY <1>5
<1>7. Kept(s, keep) = it[1..n]
  BY <1>1 DEF Kept, FoldLeftDomain, FoldLeft, MapThenFoldSet
<1> HIDE DEF it
<1>8. f[0] = <<>>
  <2>1. 1..0 = {} OBVIOUS
  <2> QED BY <1>1, <1>6, <2>1
<1>9. ASSUME NEW i \in 1..n PROVE f[i] = IF keep[i] THEN Append(f[i - 1], s[i]) ELSE f[i - 1]
  <2>1. 1..i \in SUBSET (1..n) /\ 1..i # {} /\ Max(1..i) = i /\ (1..i) \ {i} = 1..(i - 1)
    BY <1>1, Ranges
  <2>2. it[1..i] = IF keep[i] THEN Append(it[1..(i - 1)], s[i]) ELSE it[1..(i - 1)]
    <3>1. it[1..i] = IF keep[ids[Max(1..i)]] THEN Append(it[(1..i) \ {Max(1..i)}], s[ids[Max(1..i)]])
                     ELSE it[(1..i) \ {Max(1..i)}]
      BY <1>1, <1>6, <2>1
    <3>2. ids[i] = i BY <1>1
    <3> HIDE DEF Body, ids
    <3> QED BY <2>1, <3>1, <3>2
  <2>3. i - 1 \in 0..n /\ i \in 0..n BY <1>1
  <2> QED BY <2>2, <2>3
<1>10. f = [i \in 0..n |-> f[i]] /\ f[n] = it[1..n] BY <1>1
<1> HIDE DEF f
<1>11. ASSUME NEW i \in 1..n, f[i - 1] \in Seq(T) PROVE f[i] \in Seq(T)
  <2>1. s[i] \in T BY <1>1, ElementOfSeq
  <2>2. Append(f[i - 1], s[i]) \in Seq(T) BY <1>11, <2>1, AppendProperties
  <2> QED BY <1>9, <1>11, <2>2
<1>12. \A i \in 0..n : f[i] \in Seq(T)
  <2> HIDE DEF n
  <2> QED BY <1>1, <1>3, <1>8, <1>11, Throughout
<1> QED BY <1>7, <1>8, <1>9, <1>10, <1>12 DEF KeptAlong

-----------------------------------------------------------------------------
(* What is kept of a sequence *)

(* The places of the elements kept: of them all, each once.                *)
Places(s, keep, n, t, at) ==
    /\ at \in [1..Len(t) -> 1..n]
    /\ \A j \in 1..Len(t) : keep[at[j]] /\ t[j] = s[at[j]]
    /\ \A j, k \in 1..Len(t) : at[j] = at[k] => j = k
    /\ \A i \in 1..n : keep[i] => \E j \in 1..Len(t) : at[j] = i

LEMMA OneMorePlace ==
    ASSUME NEW T, NEW s \in Seq(T), NEW keep, NEW i \in 1..Len(s),
           NEW t \in Seq(T), NEW at, Places(s, keep, i - 1, t, at),
           NEW u, u = IF keep[i] THEN Append(t, s[i]) ELSE t
    PROVE  \E places : Places(s, keep, i, u, places)
<1>1. i \in Nat /\ Len(t) \in Nat /\ s[i] \in T BY ElementOfSeq, LenProperties
<1>2. CASE ~keep[i]
  <2>1. at \in [1..Len(t) -> 1..i] BY <1>1 DEF Places
  <2>2. \A k \in 1..i : keep[k] => k \in 1..i - 1 BY <1>1, <1>2
  <2>3. Places(s, keep, i, t, at)
    <3>1. \A k \in 1..i : keep[k] => \E j \in 1..Len(t) : at[j] = k BY <2>2 DEF Places
    <3> QED BY <2>1, <3>1 DEF Places
  <2> QED BY <1>2, <2>3
<1>3. CASE keep[i]
  <2> DEFINE places == [j \in 1..Len(t) + 1 |-> IF j = Len(t) + 1 THEN i ELSE at[j]]
  <2>1. /\ Len(u) = Len(t) + 1 /\ u[Len(t) + 1] = s[i]
        /\ \A j \in 1..Len(t) : u[j] = t[j]
    BY <1>1, <1>3, AppendProperties
  <2>2. \A j \in 1..Len(t) : places[j] = at[j] /\ at[j] \in 1..i - 1 /\ at[j] # i
    <3>1. \A j \in 1..Len(t) : at[j] \in 1..i - 1 BY DEF Places
    <3> QED BY <1>1, <3>1
  <2>3. places[Len(t) + 1] = i BY <1>1
  <2>4. places \in [1..Len(u) -> 1..i]
    <3>1. \A j \in 1..Len(t) + 1 : j \in 1..Len(t) \/ j = Len(t) + 1 BY <1>1
    <3>2. i \in 1..i /\ \A k \in 1..i - 1 : k \in 1..i BY <1>1
    <3>3. \A j \in 1..Len(t) + 1 : places[j] \in 1..i BY <2>2, <2>3, <3>1, <3>2
    <3> QED BY <2>1, <3>3
  <2> HIDE DEF places
  <2>5. \A j \in 1..Len(u) : j \in 1..Len(t) \/ j = Len(t) + 1 BY <1>1, <2>1
  <2>6. \A j \in 1..Len(u) : keep[places[j]] /\ u[j] = s[places[j]]
    BY <1>3, <2>1, <2>2, <2>3, <2>5 DEF Places
  <2>7. \A j, k \in 1..Len(u) : places[j] = places[k] => j = k
    BY <2>2, <2>3, <2>5 DEF Places
  <2>8. ASSUME NEW k \in 1..i, keep[k] PROVE \E j \in 1..Len(u) : places[j] = k
    <3>1. CASE k = i BY <1>1, <2>1, <2>3, <3>1
    <3>2. CASE k # i
      <4>1. k \in 1..i - 1 BY <1>1, <3>2
      <4>2. PICK j \in 1..Len(t) : at[j] = k BY <2>8, <4>1 DEF Places
      <4>3. j \in 1..Len(u) BY <1>1, <2>1
      <4> QED BY <2>2, <4>2, <4>3
    <3> QED BY <3>1, <3>2
  <2> QED BY <2>4, <2>6, <2>7, <2>8 DEF Places
<1> QED BY <1>2, <1>3

LEMMA KeptAt ==
    ASSUME NEW T, NEW s \in Seq(T), NEW keep
    PROVE  /\ Kept(s, keep) \in Seq(T)
           /\ \E at : Places(s, keep, Len(s), Kept(s, keep), at)
<1> DEFINE n == Len(s)
<1>1. n \in Nat BY LenProperties
<1>2. PICK f \in [0..n -> Seq(T)] : KeptAlong(s, keep, f) BY KeptFold
<1> DEFINE Fails == {i \in 0..n : \A at : ~Places(s, keep, i, f[i], at)}
<1>3. 0 \notin Fails
  <2>1. Len(f[0]) = 0 /\ 1..0 = {} BY <1>2 DEF KeptAlong
  <2>2. Places(s, keep, 0, f[0], <<>>) BY <2>1 DEF Places
  <2> QED BY <1>1, <2>2
<1>4. ASSUME NEW i \in 1..n, i - 1 \notin Fails PROVE i \notin Fails
  <2>1. i - 1 \in 0..n /\ f[i - 1] \in Seq(T) BY <1>1
  <2>2. PICK at : Places(s, keep, i - 1, f[i - 1], at) BY <1>4, <2>1
  <2>3. f[i] = IF keep[i] THEN Append(f[i - 1], s[i]) ELSE f[i - 1] BY <1>2 DEF KeptAlong
  <2>4. \E places : Places(s, keep, i, f[i], places) BY <2>1, <2>2, <2>3, OneMorePlace
  <2> QED BY <2>4
<1>5. Fails = {}
  <2>1. Fails \subseteq 0..n OBVIOUS
  <2> HIDE DEF Fails, n
  <2> QED BY <1>1, <1>3, <1>4, <2>1, NoneFails
<1>6. n \in 0..n BY <1>1
<1> HIDE DEF n
<1>7. \E at : Places(s, keep, n, f[n], at) BY <1>5, <1>6
<1> QED BY <1>2, <1>6, <1>7 DEF n, KeptAlong

LEMMA KeptAll ==
    ASSUME NEW T, NEW s \in Seq(T), NEW keep, \A i \in 1..Len(s) : keep[i]
    PROVE  Kept(s, keep) = s
<1> DEFINE n == Len(s)
<1>1. n \in Nat BY LenProperties
<1>2. PICK f \in [0..n -> Seq(T)] : KeptAlong(s, keep, f) BY KeptFold
<1> DEFINE Fails == {i \in 0..n : ~(Len(f[i]) = i /\ \A j \in 1..i : f[i][j] = s[j])}
<1>3. 0 \notin Fails BY <1>2 DEF KeptAlong
<1>4. ASSUME NEW i \in 1..n, i - 1 \notin Fails PROVE i \notin Fails
  <2>1. i - 1 \in 0..n /\ f[i - 1] \in Seq(T) /\ s[i] \in T
    <3>1. i - 1 \in 0..n BY <1>1
    <3>2. s[i] \in T BY ElementOfSeq
    <3> QED BY <1>2, <3>1, <3>2
  <2>2. Len(f[i - 1]) = i - 1 /\ \A j \in 1..i - 1 : f[i - 1][j] = s[j] BY <1>4, <2>1
  <2>3. f[i] = Append(f[i - 1], s[i]) BY <1>2 DEF KeptAlong
  <2> DEFINE before == f[i - 1]
  <2>4. before \in Seq(T) /\ Len(before) = i - 1 /\ \A j \in 1..i - 1 : before[j] = s[j] BY <2>1, <2>2
  <2>5. f[i] = Append(before, s[i]) BY <2>3
  <2> HIDE DEF before
  <2>6. /\ Len(Append(before, s[i])) = i - 1 + 1 /\ Append(before, s[i])[i - 1 + 1] = s[i]
        /\ \A j \in 1..i - 1 : Append(before, s[i])[j] = before[j]
    BY <2>1, <2>4, AppendProperties
  <2>7. i - 1 + 1 = i /\ \A j \in 1..i : j \in 1..i - 1 \/ j = i BY <1>1
  <2>8. Len(f[i]) = i /\ \A j \in 1..i : f[i][j] = s[j] BY <2>4, <2>5, <2>6, <2>7
  <2> QED BY <2>8
<1>5. Fails = {}
  <2>1. Fails \subseteq 0..n OBVIOUS
  <2> HIDE DEF Fails, n
  <2> QED BY <1>1, <1>3, <1>4, <2>1, NoneFails
<1>6. n \in 0..n BY <1>1
<1>7. f[n] \in Seq(T) /\ Len(f[n]) = n /\ \A j \in 1..n : f[n][j] = s[j] BY <1>5, <1>6
<1> QED BY <1>2, <1>7, SeqEqual DEF KeptAlong

(* Sequences of the same names, of which the same places are kept          *)
NamedAlike(s, t) == Len(s) = Len(t) /\ \A i \in 1..Len(s) : s[i].name = t[i].name

LEMMA AppendedAlike ==
    ASSUME NEW T, NEW s \in Seq(T), NEW t \in Seq(T), NamedAlike(s, t),
           NEW x \in T, NEW y \in T, x.name = y.name
    PROVE  NamedAlike(Append(s, x), Append(t, y))
<1>1. Len(s) \in Nat /\ Len(s) = Len(t) BY LenProperties DEF NamedAlike
<1>2. /\ Len(Append(s, x)) = Len(s) + 1 /\ Append(s, x)[Len(s) + 1] = x
      /\ \A i \in 1..Len(s) : Append(s, x)[i] = s[i]
  BY AppendProperties
<1>3. /\ Len(Append(t, y)) = Len(s) + 1 /\ Append(t, y)[Len(s) + 1] = y
      /\ \A i \in 1..Len(s) : Append(t, y)[i] = t[i]
  BY <1>1, AppendProperties
<1>4. \A i \in 1..Len(s) + 1 : i \in 1..Len(s) \/ i = Len(s) + 1 BY <1>1
<1> QED BY <1>2, <1>3, <1>4 DEF NamedAlike

LEMMA KeptAlike ==
    ASSUME NEW T, NEW s \in Seq(T), NEW t \in Seq(T), NamedAlike(s, t),
           NEW keep, NEW keeps, \A i \in 1..Len(s) : keep[i] = keeps[i]
    PROVE  NamedAlike(Kept(s, keep), Kept(t, keeps))
<1> DEFINE n == Len(s)
<1>1. n \in Nat /\ Len(t) = n BY LenProperties DEF NamedAlike
<1>2. PICK f \in [0..n -> Seq(T)] : KeptAlong(s, keep, f) BY KeptFold
<1>3. PICK g \in [0..n -> Seq(T)] : KeptAlong(t, keeps, g) BY <1>1, KeptFold
<1> DEFINE Fails == {i \in 0..n : ~NamedAlike(f[i], g[i])}
<1>4. 0 \notin Fails
  <2>1. f[0] = <<>> /\ g[0] = <<>> /\ Len(f[0]) = 0 BY <1>2, <1>3 DEF KeptAlong
  <2> QED BY <2>1 DEF NamedAlike
<1>5. ASSUME NEW i \in 1..n, i - 1 \notin Fails PROVE i \notin Fails
  <2>1. i - 1 \in 0..n /\ f[i - 1] \in Seq(T) /\ g[i - 1] \in Seq(T)
    <3>1. i - 1 \in 0..n BY <1>1
    <3> HIDE DEF Fails
    <3> QED BY <3>1
  <2>2. s[i] \in T /\ t[i] \in T /\ s[i].name = t[i].name BY <1>1, ElementOfSeq DEF NamedAlike
  <2>3. NamedAlike(f[i - 1], g[i - 1]) BY <1>5, <2>1
  <2>4. f[i] = IF keep[i] THEN Append(f[i - 1], s[i]) ELSE f[i - 1] BY <1>2 DEF KeptAlong
  <2>5. g[i] = IF keep[i] THEN Append(g[i - 1], t[i]) ELSE g[i - 1] BY <1>1, <1>3 DEF KeptAlong
  <2>6. NamedAlike(Append(f[i - 1], s[i]), Append(g[i - 1], t[i]))
    BY <2>1, <2>2, <2>3, AppendedAlike
  <2>7. NamedAlike(f[i], g[i]) BY <2>3, <2>4, <2>5, <2>6
  <2> QED BY <2>7
<1>6. Fails = {}
  <2>1. Fails \subseteq 0..n OBVIOUS
  <2> HIDE DEF Fails, n
  <2> QED BY <1>1, <1>4, <1>5, <2>1, NoneFails
<1>7. n \in 0..n BY <1>1
<1> HIDE DEF n
<1>8. NamedAlike(f[n], g[n]) BY <1>6, <1>7
<1> QED BY <1>1, <1>2, <1>3, <1>8 DEF n, KeptAlong

(* A sequence with one more element in front                               *)
Led(e, s) == <<e>> \o s
Shifted(keep, keeps, n) == \A i \in 1..n : keeps[i] = keep[i + 1]

LEMMA KeptCons ==
    ASSUME NEW T, NEW e \in T, NEW s \in Seq(T), NEW keep,
           NEW keeps, Shifted(keep, keeps, Len(s))
    PROVE  /\ Led(e, s) \in Seq(T)
           /\ keep[1] => Kept(Led(e, s), keep) = Led(e, Kept(s, keeps))
           /\ ~keep[1] => Kept(Led(e, s), keep) = Kept(s, keeps)
<1> DEFINE n == Len(s)
           longer == <<e>> \o s
           front == IF keep[1] THEN <<e>> ELSE <<>>
<1>1. n \in Nat /\ <<e>> \in Seq(T) /\ Len(<<e>>) = 1 BY LenProperties
<1>2. /\ longer \in Seq(T) /\ Len(longer) = n + 1 /\ longer[1] = e
      /\ \A i \in 1..n : longer[i + 1] = s[i]
  BY <1>1, ConcatProperties
<1> HIDE DEF longer, front
<1>3. PICK f \in [0..n + 1 -> Seq(T)] : KeptAlong(longer, keep, f) BY <1>2, KeptFold
<1>4. PICK g \in [0..n -> Seq(T)] : KeptAlong(s, keeps, g) BY KeptFold
<1> DEFINE Fails == {i \in 0..n : f[i + 1] # front \o g[i]}
<1>5. front \in Seq(T) BY <1>1 DEF front
<1>6. 0 \notin Fails
  <2>1. f[1] = IF keep[1] THEN Append(f[0], e) ELSE f[0]
    <3>1. f[1] = IF keep[1] THEN Append(f[1 - 1], longer[1]) ELSE f[1 - 1]
      BY <1>1, <1>2, <1>3 DEF KeptAlong
    <3> QED BY <1>2, <3>1
  <2>2. f[0] = <<>> /\ g[0] = <<>> BY <1>3, <1>4 DEF KeptAlong
  <2>3. Append(<<>>, e) = <<e>> OBVIOUS
  <2>4. f[1] = front BY <2>1, <2>2, <2>3 DEF front
  <2>5. front \o <<>> = front BY <1>5, ConcatEmptySeq
  <2>6. 0 + 1 = 1 OBVIOUS
  <2> QED BY <2>2, <2>4, <2>5, <2>6
<1>7. ASSUME NEW i \in 1..n, i - 1 \notin Fails PROVE i \notin Fails
  <2>1. i - 1 \in 0..n /\ g[i - 1] \in Seq(T) /\ s[i] \in T
    <3>1. s[i] \in T BY ElementOfSeq
    <3>2. i - 1 \in 0..n BY <1>1
    <3> HIDE DEF Fails
    <3> QED BY <3>1, <3>2
  <2>2. f[i] = front \o g[i - 1]
    <3>1. (i - 1) + 1 = i BY <1>1
    <3> QED BY <1>7, <2>1, <3>1
  <2>3. f[i + 1] = IF keep[i + 1] THEN Append(f[i], s[i]) ELSE f[i]
    <3>1. i + 1 \in 1..n + 1 /\ (i + 1) - 1 = i BY <1>1
    <3> QED BY <1>2, <1>3, <3>1 DEF KeptAlong
  <2>4. g[i] = IF keep[i + 1] THEN Append(g[i - 1], s[i]) ELSE g[i - 1] BY <1>4 DEF KeptAlong, Shifted
  <2>5. Append(front \o g[i - 1], s[i]) = front \o Append(g[i - 1], s[i])
    <3> DEFINE h == g[i - 1]
               x == s[i]
               one == <<x>>
    <3> HIDE DEF h, x, n, Fails
    <3>1. h \in Seq(T) /\ x \in T BY <2>1 DEF h, x
    <3>2. one \in Seq(T) BY <3>1
    <3>3. front \o h \in Seq(T) BY <1>5, <3>1, ConcatProperties
    <3>4. Append(front \o h, x) = (front \o h) \o one BY <3>1, <3>3, AppendIsConcat
    <3>5. Append(h, x) = h \o one BY <3>1, AppendIsConcat
    <3> HIDE DEF one
    <3>6. (front \o h) \o one = front \o (h \o one) BY <1>5, <3>1, <3>2, ConcatAssociative
    <3>7. Append(front \o h, x) = front \o Append(h, x) BY <3>4, <3>5, <3>6
    <3> QED BY <3>7 DEF h, x
  <2>6. f[i + 1] = front \o g[i] BY <2>2, <2>3, <2>4, <2>5
  <2> QED BY <2>6
<1>8. Fails = {}
  <2>1. Fails \subseteq 0..n OBVIOUS
  <2> HIDE DEF Fails, n
  <2> QED BY <1>1, <1>6, <1>7, <2>1, NoneFails
<1>9. n \in 0..n BY <1>1
<1>10. f[n + 1] = front \o g[n] BY <1>8, <1>9
<1>11. Kept(longer, keep) = front \o Kept(s, keeps) BY <1>2, <1>3, <1>4, <1>10 DEF KeptAlong
<1>12. Kept(s, keeps) \in Seq(T) BY KeptAt
<1>13. <<>> \o Kept(s, keeps) = Kept(s, keeps) BY <1>12, ConcatEmptySeq
<1> QED BY <1>2, <1>11, <1>13 DEF front, longer, Led

-----------------------------------------------------------------------------
(* The steps of a valid document *)

LEMMA FunctionIsSequence ==
    ASSUME NEW T, NEW n \in Nat, NEW f \in [1..n -> T]
    PROVE  f \in Seq(T) /\ Len(f) = n
  OBVIOUS

(* Of a free name there is always one among as many names and one more.    *)
LEMMA FreshIsFree ==
    ASSUME NEW steps, NEW n \in 0..MaxSteps + 1, DOMAIN steps = 1..n, Len(steps) = n
    PROVE  ~NameTaken(steps, FreshStepName(steps))
<1> DEFINE Free(k) == ~NameTaken(steps, Suffixed(k))
           Frees == {k \in 1..n + 1 : Free(k)}
<1>1. n \in Nat /\ n + 1 \in Nat /\ 1..n + 1 \subseteq 1..MaxSteps + 2 BY MaxStepsAssumption
<1>2. Frees # {}
  <2>1. SUFFICES ASSUME Frees = {} PROVE FALSE OBVIOUS
  <2> DEFINE holder == [k \in 1..n + 1 |-> CHOOSE i \in 1..n : steps[i].name = Suffixed(k)]
  <2>2. ASSUME NEW k \in 1..n + 1
        PROVE  holder[k] \in 1..n /\ steps[holder[k]].name = Suffixed(k)
    <3>1. NameTaken(steps, Suffixed(k)) BY <2>1
    <3>2. Suffixed(k) # TemplatingStepName BY <1>1, SuffixesDiffer
    <3>3. \E i \in 1..n : steps[i].name = Suffixed(k) BY <3>1, <3>2 DEF NameTaken
    <3> HIDE DEF Suffixed
    <3> QED BY <3>3
  <2>3. holder \in [1..n + 1 -> 1..n] BY <2>2
  <2> HIDE DEF holder
  <2>4. \A j, k \in 1..n + 1 : holder[j] = holder[k] => j = k BY <1>1, <2>2, SuffixesDiffer
  <2>5. /\ IsFiniteSet(1..n) /\ Cardinality(1..n) = n
        /\ IsFiniteSet(1..n + 1) /\ Cardinality(1..n + 1) = n + 1
    BY <1>1, FS_Interval
  <2>6. Cardinality(1..n) < Cardinality(1..n + 1) BY <1>1, <2>5
  <2>7. \E j, k \in 1..n + 1 : j # k /\ holder[j] = holder[k]
    BY <2>3, <2>5, <2>6, FS_PigeonHole
  <2> QED BY <2>4, <2>7
<1>3. Frees \in SUBSET Nat BY <1>1
<1>4. PICK least \in Frees : \A k \in Frees : least <= k BY <1>2, <1>3, LeastOf
<1>5. least \in 1..n + 1 /\ Free(least) /\ \A j \in 1..least - 1 : ~Free(j)
  <2>1. least \in 1..n + 1 /\ Free(least) OBVIOUS
  <2>2. ASSUME NEW j \in 1..least - 1, Free(j) PROVE FALSE
    <3>1. j \in 1..n + 1 /\ ~(least <= j) BY <1>1, <2>1
    <3>2. j \in Frees BY <2>2, <3>1
    <3> QED BY <1>4, <3>1, <3>2
  <2> QED BY <2>1, <2>2
<1>6. CASE ~NameTaken(steps, EnvironmentConfigsStepName) BY <1>6 DEF FreshStepName
<1>7. CASE NameTaken(steps, EnvironmentConfigsStepName)
  <2> DEFINE Right(k) == Free(k) /\ \A j \in 1..k - 1 : ~Free(j)
             k0 == CHOOSE k \in 1..n + 1 : Right(k)
  <2>1. \E k \in 1..n + 1 : Right(k) BY <1>5
  <2>2. FreshStepName(steps) = Suffixed(k0) BY <1>7 DEF FreshStepName
  <2>3. Right(k0)
    <3> HIDE DEF Right
    <3> QED BY <2>1
  <2> QED BY <2>2, <2>3
<1> QED BY <1>6, <1>7

(* The steps assembly works on: the shape of a step, and what validation   *)
(* leaves true of all of them.                                             *)
SoundSteps(b, steps) ==
    /\ Len(steps) \in 1..MaxSteps + 2
    /\ steps = [i \in 1..Len(steps) |-> steps[i]]
    /\ \A i \in DOMAIN steps : LET s == steps[i] IN
          /\ s = Step(s.name, s.functionRef, s.package, s.position, s.input)
          /\ s.name # TemplatingStepName /\ s.functionRef # BuiltinFunction(b)
          /\ s.functionRef = EnvironmentConfigsFunctionName => s.position = "before"
    /\ \A i, j \in DOMAIN steps :
          /\ steps[i].name = steps[j].name => i = j
          /\ steps[i].functionRef = steps[j].functionRef => steps[i].package = steps[j].package

LEMMA DeclaredSound ==
    ASSUME NEW b, b.pipeline \in DeclaredPipelines, ValidPipeline(b)
    PROVE  LET steps == DeclaredOrDefault(b) IN
           /\ SoundSteps(b, steps) /\ Len(steps) \in 1..MaxSteps + 1
           /\ \A i \in DOMAIN steps : steps[i].input \in {NoInput, OwnInput}
           /\ b.pipeline # <<>> => NamedAlike(steps, b.pipeline) /\ DOMAIN steps = DOMAIN b.pipeline
<1> DEFINE raw == IF b.pipeline = <<>> THEN <<AutoReady>> ELSE b.pipeline
           steps == DeclaredOrDefault(b)
           Shaped(s) == s = Step(s.name, s.functionRef, s.package, s.position, s.input)
<1>1. PICK n \in 0..MaxSteps : b.pipeline \in [1..n -> DeclaredSteps] BY DEF DeclaredPipelines
<1>2. n \in Nat /\ n <= MaxSteps BY MaxStepsAssumption
<1>3. ASSUME NEW i \in DOMAIN b.pipeline
      PROVE  /\ Shaped(b.pipeline[i]) /\ ValidStep(b, b.pipeline[i])
             /\ b.pipeline[i].input \in {NoInput, OwnInput}
  <2>1. b.pipeline[i] \in DeclaredSteps BY <1>1
  <2>2. ValidStep(b, b.pipeline[i]) BY DEF ValidPipeline
  <2>3. Shaped(b.pipeline[i]) /\ b.pipeline[i].input \in {NoInput, OwnInput, UntypedInput}
    BY <2>1 DEF DeclaredSteps, Step
  <2> QED BY <2>2, <2>3 DEF ValidStep
<1>4. /\ Len(raw) \in 1..MaxSteps + 1 /\ DOMAIN raw = 1..Len(raw)
      /\ b.pipeline # <<>> => raw = b.pipeline
  <2>1. CASE b.pipeline = <<>> BY <2>1, MaxStepsAssumption
  <2>2. CASE b.pipeline # <<>>
    <3>1. Len(b.pipeline) = n /\ DOMAIN b.pipeline = 1..n BY <1>1, <1>2
    <3>2. n # 0 BY <1>1, <2>2
    <3> QED BY <1>2, <2>2, <3>1, <3>2, MaxStepsAssumption
  <2> QED BY <2>1, <2>2
<1>5. ASSUME NEW i \in DOMAIN raw
      PROVE  Shaped(raw[i]) /\ ValidStep(b, raw[i]) /\ raw[i].input \in {NoInput, OwnInput}
  <2>1. CASE b.pipeline = <<>>
    <3>1. raw[i] = AutoReady BY <2>1
    <3>2. ValidStep(b, AutoReady)
      BY DEF ValidStep, AutoReady, Step, TemplatingStepName, BuiltinFunction, NoInput, UntypedInput,
             EnvironmentConfigsFunctionName
    <3>3. Shaped(AutoReady) /\ AutoReady.input = NoInput BY DEF AutoReady, Step
    <3> QED BY <3>1, <3>2, <3>3
  <2>2. CASE b.pipeline # <<>> BY <1>3, <2>2
  <2> QED BY <2>1, <2>2
<1>6. ASSUME NEW i \in DOMAIN raw, NEW j \in DOMAIN raw
      PROVE  /\ raw[i].name = raw[j].name => i = j
             /\ raw[i].functionRef = raw[j].functionRef => raw[i].package = raw[j].package
  <2>1. CASE b.pipeline = <<>> BY <2>1
  <2>2. CASE b.pipeline # <<>> BY <2>2 DEF ValidPipeline
  <2> QED BY <2>1, <2>2
<1>7. steps = [i \in DOMAIN raw |->
                 IF raw[i].functionRef = EnvironmentConfigsFunctionName /\ raw[i].position = ""
                 THEN [raw[i] EXCEPT !.position = "before"] ELSE raw[i]]
  BY DEF DeclaredOrDefault
<1> HIDE DEF raw, steps
<1>8. /\ Len(steps) = Len(raw) /\ DOMAIN steps = DOMAIN raw
      /\ steps = [i \in 1..Len(steps) |-> steps[i]]
  <2> DEFINE m == Len(raw)
             element(i) == IF raw[i].functionRef = EnvironmentConfigsFunctionName /\ raw[i].position = ""
                           THEN [raw[i] EXCEPT !.position = "before"] ELSE raw[i]
  <2>1. m \in Nat /\ DOMAIN raw = 1..m BY <1>4, MaxStepsAssumption
  <2>2. steps = [i \in 1..m |-> element(i)] BY <1>7, <2>1
  <2> HIDE DEF m, element
  <2>3. Len(steps) = m /\ DOMAIN steps = 1..m BY <2>1, <2>2
  <2>4. steps = [i \in 1..m |-> steps[i]] BY <2>2
  <2> QED BY <2>1, <2>3, <2>4 DEF m
<1>9. ASSUME NEW i \in DOMAIN raw
      PROVE  /\ Shaped(steps[i]) /\ steps[i].name = raw[i].name
             /\ steps[i].functionRef = raw[i].functionRef /\ steps[i].package = raw[i].package
             /\ steps[i].input = raw[i].input
             /\ steps[i].position = IF raw[i].functionRef = EnvironmentConfigsFunctionName /\ raw[i].position = ""
                                    THEN "before" ELSE raw[i].position
  <2>1. Shaped(raw[i]) BY <1>5
  <2>2. raw[i].position = "" \/ raw[i].position # "" OBVIOUS
  <2> QED BY <1>7, <2>1 DEF Step
<1>10. ASSUME NEW i \in DOMAIN raw
       PROVE  /\ steps[i].name # TemplatingStepName /\ steps[i].functionRef # BuiltinFunction(b)
              /\ steps[i].functionRef = EnvironmentConfigsFunctionName => steps[i].position = "before"
  <2>1. ValidStep(b, raw[i]) BY <1>5
  <2>2. raw[i].position \in Positions
    <3>1. CASE b.pipeline = <<>>
      <4>1. raw[i] = AutoReady BY <3>1 DEF raw
      <4>2. AutoReady.position = "" BY DEF AutoReady, Step
      <4>3. raw[i].position = "" BY <4>1, <4>2
      <4> QED BY <4>3 DEF Positions
    <3>2. CASE b.pipeline # <<>>
      <4>1. b.pipeline[i] \in DeclaredSteps /\ raw[i] = b.pipeline[i] BY <1>1, <1>4, <3>2
      <4> QED BY <4>1 DEF DeclaredSteps, Step
    <3> QED BY <3>1, <3>2
  <2> QED BY <1>9, <2>1, <2>2 DEF ValidStep, Positions
<1>11. SoundSteps(b, steps)
  <2>1. Len(steps) \in 1..MaxSteps + 2 BY <1>4, <1>8, MaxStepsAssumption
  <2>2. \A i, j \in DOMAIN raw :
           /\ steps[i].name = steps[j].name => i = j
           /\ steps[i].functionRef = steps[j].functionRef => steps[i].package = steps[j].package
    <3> HIDE DEF Shaped
    <3>1. ASSUME NEW i \in DOMAIN raw, NEW j \in DOMAIN raw
          PROVE  /\ steps[i].name = steps[j].name => i = j
                 /\ steps[i].functionRef = steps[j].functionRef => steps[i].package = steps[j].package
      <4>1. steps[i].name = raw[i].name /\ steps[j].name = raw[j].name BY <1>9
      <4>2. steps[i].functionRef = raw[i].functionRef /\ steps[j].functionRef = raw[j].functionRef BY <1>9
      <4>3. steps[i].package = raw[i].package /\ steps[j].package = raw[j].package BY <1>9
      <4> QED BY <1>6, <4>1, <4>2, <4>3
    <3> QED BY <3>1
  <2>3. DOMAIN steps = DOMAIN raw BY <1>8
  <2>4. steps = [i \in 1..Len(steps) |-> steps[i]] BY <1>8
  <2>5. \A i \in DOMAIN steps :
           /\ Shaped(steps[i])
           /\ steps[i].name # TemplatingStepName /\ steps[i].functionRef # BuiltinFunction(b)
           /\ steps[i].functionRef = EnvironmentConfigsFunctionName => steps[i].position = "before"
    BY <1>9, <1>10, <2>3
  <2> HIDE DEF Shaped
  <2> QED BY <2>1, <2>2, <2>3, <2>4, <2>5 DEF SoundSteps, Shaped
<1>12. \A i \in DOMAIN steps : steps[i].input \in {NoInput, OwnInput} BY <1>5, <1>8, <1>9
<1>13. b.pipeline # <<>> => NamedAlike(steps, b.pipeline) /\ DOMAIN steps = DOMAIN b.pipeline
  BY <1>4, <1>8, <1>9 DEF NamedAlike
<1> QED BY <1>4, <1>8, <1>11, <1>12, <1>13 DEF steps

LEMMA Least ==
    ASSUME NEW S \in SUBSET Nat, S # {}
    PROVE  Min(S) \in S /\ \A i \in S : Min(S) <= i
  BY LeastOf DEF Min

(* With the environment: the declared steps, one of them with the input it *)
(* lacked, or all of them behind the step that is added.                   *)
InFront(e, longer, steps) ==
    /\ longer = Led(e, steps)
    /\ e.position = "before" /\ e.name \notin Names(steps)

LEMMA EnvironmentSound ==
    ASSUME NEW b, b.pipeline \in DeclaredPipelines, ValidPipeline(b)
    PROVE  LET declared == DeclaredOrDefault(b)
               steps == WithEnvironment(b, declared)
           IN  /\ SoundSteps(b, steps)
               /\ \/ /\ NamedAlike(declared, steps)
                     /\ \A i \in 1..Len(declared) : steps[i].position = declared[i].position
                  \/ \E e : InFront(e, steps, declared)
               /\ HasEnvironment(b) =>
                    \E i \in DOMAIN steps :
                       /\ steps[i].functionRef = EnvironmentConfigsFunctionName
                       /\ steps[i].input \in {OwnInput, EnvironmentConfigsInput(b)}
<1> DEFINE declared == DeclaredOrDefault(b)
           steps == WithEnvironment(b, declared)
           envSteps == {i \in DOMAIN declared : declared[i].functionRef = EnvironmentConfigsFunctionName}
           input == EnvironmentConfigsInput(b)
           n == Len(declared)
           Shaped(s) == s = Step(s.name, s.functionRef, s.package, s.position, s.input)
<1>1. /\ SoundSteps(b, declared) /\ n \in 1..MaxSteps + 1
      /\ \A i \in DOMAIN declared : declared[i].input \in {NoInput, OwnInput}
  BY DeclaredSound
<1>2. n \in Nat /\ DOMAIN declared = 1..n /\ MaxSteps \in Nat
  BY <1>1, MaxStepsAssumption DEF SoundSteps
<1>3. steps = IF ~HasEnvironment(b) THEN declared
              ELSE IF envSteps # {}
              THEN [declared EXCEPT ![Min(envSteps)].input =
                       IF @ = NoInput THEN input ELSE @]
              ELSE <<Step(FreshStepName(declared), EnvironmentConfigsFunctionName,
                          EnvironmentConfigsFunctionPackage, "before", input)>> \o declared
  BY DEF WithEnvironment
<1> HIDE DEF declared, steps, input, n
<1>4. CASE ~HasEnvironment(b)
  <2>1. steps = declared BY <1>3, <1>4
  <2>2. NamedAlike(declared, steps) BY <2>1 DEF NamedAlike
  <2> QED BY <1>1, <1>4, <2>1, <2>2 DEF declared, steps
<1>5. CASE HasEnvironment(b) /\ envSteps # {}
  <2> DEFINE least == Min(envSteps)
  <2>1. least \in envSteps
    <3>1. envSteps \in SUBSET Nat BY <1>2
    <3> QED BY <1>5, <3>1, Least
  <2> HIDE DEF least
  <2>2. least \in 1..n /\ declared[least].functionRef = EnvironmentConfigsFunctionName BY <1>2, <2>1
  <2>3. steps = [declared EXCEPT ![least].input = IF @ = NoInput THEN input ELSE @]
    BY <1>3, <1>5 DEF least
  <2>4. DOMAIN steps = 1..n /\ Len(steps) = n /\ steps = [i \in 1..n |-> steps[i]]
    <3>1. DOMAIN steps = 1..n /\ steps = [i \in 1..n |-> steps[i]] BY <1>2, <2>3
    <3> QED BY <1>2, <3>1
  <2>5. \A i \in 1..n : i # least => steps[i] = declared[i] BY <1>2, <2>3
  <2>6. steps[least] = [declared[least] EXCEPT !.input = IF @ = NoInput THEN input ELSE @]
    BY <1>2, <2>2, <2>3
  <2>7. ASSUME NEW i \in 1..n
        PROVE  /\ Shaped(steps[i]) /\ steps[i].name = declared[i].name
               /\ steps[i].functionRef = declared[i].functionRef
               /\ steps[i].package = declared[i].package /\ steps[i].position = declared[i].position
    <3>1. Shaped(declared[i]) BY <1>1, <1>2 DEF SoundSteps
    <3>2. CASE i # least BY <2>5, <3>1, <3>2
    <3>3. CASE i = least BY <2>6, <3>1, <3>3 DEF Step
    <3> QED BY <3>2, <3>3
  <2>8. steps[least].input \in {OwnInput, input}
    <3>1. Shaped(declared[least]) /\ declared[least].input \in {NoInput, OwnInput}
      BY <1>1, <1>2, <2>2 DEF SoundSteps
    <3>2. steps[least].input = IF declared[least].input = NoInput THEN input ELSE declared[least].input
      BY <2>6, <3>1 DEF Step
    <3> QED BY <3>1, <3>2
  <2> HIDE DEF Shaped
  <2>9. SoundSteps(b, steps)
    <3>1. n \in 1..MaxSteps + 2 BY <1>1, <1>2
    <3>2. ASSUME NEW i \in 1..n
          PROVE  /\ Shaped(steps[i])
                 /\ steps[i].name # TemplatingStepName /\ steps[i].functionRef # BuiltinFunction(b)
                 /\ steps[i].functionRef = EnvironmentConfigsFunctionName => steps[i].position = "before"
      BY <1>1, <1>2, <2>7 DEF SoundSteps
    <3>3. ASSUME NEW i \in 1..n, NEW j \in 1..n
          PROVE  /\ steps[i].name = steps[j].name => i = j
                 /\ steps[i].functionRef = steps[j].functionRef => steps[i].package = steps[j].package
      <4>1. /\ declared[i].name = declared[j].name => i = j
            /\ declared[i].functionRef = declared[j].functionRef => declared[i].package = declared[j].package
        BY <1>1, <1>2 DEF SoundSteps
      <4> QED BY <2>7, <4>1
    <3> QED BY <2>4, <3>1, <3>2, <3>3 DEF SoundSteps, Shaped
  <2>10. NamedAlike(declared, steps) /\ \A i \in 1..n : steps[i].position = declared[i].position
    BY <1>2, <2>4, <2>7 DEF NamedAlike, n
  <2>11. steps[least].functionRef = EnvironmentConfigsFunctionName BY <2>2, <2>7
  <2> QED BY <2>2, <2>4, <2>8, <2>9, <2>10, <2>11 DEF declared, steps, input, n
<1>6. CASE HasEnvironment(b) /\ envSteps = {}
  <2> DEFINE name == FreshStepName(declared)
             e == Step(name, EnvironmentConfigsFunctionName, EnvironmentConfigsFunctionPackage, "before", input)
  <2>1. ~NameTaken(declared, name)
    <3>1. n \in 0..MaxSteps + 1 BY <1>1, <1>2
    <3> QED BY <1>2, <3>1, FreshIsFree DEF n
  <2> HIDE DEF name
  <2>2. name # TemplatingStepName /\ name \notin Names(declared) BY <2>1 DEF NameTaken, Names
  <2>3. /\ Shaped(e) /\ e.name = name /\ e.functionRef = EnvironmentConfigsFunctionName
        /\ e.position = "before" /\ e.input = input
    BY DEF Step
  <2>4. steps = <<e>> \o declared BY <1>3, <1>6 DEF name
  <2> HIDE DEF e
  <2>5. /\ Len(steps) = n + 1 /\ DOMAIN steps = 1..n + 1
        /\ steps = [i \in 1..n + 1 |-> steps[i]]
        /\ steps[1] = e /\ \A i \in 1..n : steps[i + 1] = declared[i]
    <3> DEFINE T == {e} \cup {declared[i] : i \in 1..n}
    <3>1. declared = [i \in 1..n |-> declared[i]] BY <1>1 DEF SoundSteps, n
    <3>2. declared \in [1..n -> T] BY <3>1
    <3> HIDE DEF T
    <3>3. declared \in Seq(T) /\ Len(declared) = n BY <1>2, <3>2, FunctionIsSequence
    <3>4. e \in T BY DEF T
    <3>5. <<e>> \in Seq(T) /\ Len(<<e>>) = 1 /\ <<e>>[1] = e BY <3>4
    <3>6. /\ Len(steps) = 1 + n /\ steps \in Seq(T)
          /\ \A i \in 1..n + 1 : steps[i] = IF i <= 1 THEN <<e>>[i] ELSE declared[i - 1]
      BY <1>2, <2>4, <3>3, <3>5, ConcatProperties
    <3>7. DOMAIN steps = 1..n + 1 /\ steps = [i \in 1..n + 1 |-> steps[i]]
      BY <1>2, <3>6, LenProperties
    <3>8. \A i \in 1..n : i + 1 \in 1..n + 1 /\ ~(i + 1 <= 1) /\ (i + 1) - 1 = i BY <1>2
    <3>9. 1 \in 1..n + 1 BY <1>2
    <3> QED BY <1>2, <3>5, <3>6, <3>7, <3>8, <3>9
  <2>6. ASSUME NEW i \in 1..n + 1
        PROVE  i = 1 \/ \E j \in 1..n : i = j + 1 /\ steps[i] = declared[j]
    <3>1. i = 1 \/ (i - 1 \in 1..n /\ i = (i - 1) + 1) BY <1>2
    <3> QED BY <2>5, <3>1
  <2>7. SoundSteps(b, steps)
    <3>1. n + 1 \in 1..MaxSteps + 2 BY <1>1, <1>2
    <3>2. e.functionRef # BuiltinFunction(b)
      BY <2>3 DEF BuiltinFunction, EnvironmentConfigsFunctionName
    <3>3. ASSUME NEW i \in 1..n + 1
          PROVE  /\ Shaped(steps[i])
                 /\ steps[i].name # TemplatingStepName /\ steps[i].functionRef # BuiltinFunction(b)
                 /\ steps[i].functionRef = EnvironmentConfigsFunctionName => steps[i].position = "before"
      <4>1. CASE i = 1 BY <2>2, <2>3, <2>5, <3>2, <4>1
      <4>2. ASSUME NEW j \in 1..n, steps[i] = declared[j]
            PROVE  /\ Shaped(steps[i])
                   /\ steps[i].name # TemplatingStepName /\ steps[i].functionRef # BuiltinFunction(b)
                   /\ steps[i].functionRef = EnvironmentConfigsFunctionName => steps[i].position = "before"
        BY <1>1, <1>2, <4>2 DEF SoundSteps
      <4> QED BY <2>6, <4>1, <4>2
    <3>4. ASSUME NEW i \in 1..n + 1, NEW j \in 1..n + 1
          PROVE  /\ steps[i].name = steps[j].name => i = j
                 /\ steps[i].functionRef = steps[j].functionRef => steps[i].package = steps[j].package
      <4>1. \A k \in 1..n : declared[k].name # e.name /\ declared[k].functionRef # e.functionRef
        BY <1>2, <1>6, <2>2, <2>3 DEF Names
      <4>2. \A k, l \in 1..n :
               /\ declared[k].name = declared[l].name => k = l
               /\ declared[k].functionRef = declared[l].functionRef
                    => declared[k].package = declared[l].package
        BY <1>1, <1>2 DEF SoundSteps
      <4> HIDE DEF Shaped
      <4> QED BY <2>5, <2>6, <4>1, <4>2
    <3> HIDE DEF Shaped
    <3> QED BY <2>5, <3>1, <3>3, <3>4 DEF SoundSteps, Shaped
  <2>8. InFront(e, steps, declared) BY <2>2, <2>3, <2>4 DEF InFront, Led
  <2>9. 1 \in DOMAIN steps BY <1>2, <2>5
  <2> QED BY <2>3, <2>5, <2>7, <2>8, <2>9 DEF declared, steps, input
<1> QED BY <1>4, <1>5, <1>6

-----------------------------------------------------------------------------
(* The Composition *)

(* A valid pipeline has no duplicate to lose.                              *)
LEMMA NothingLost ==
    ASSUME NEW b, NEW steps, SoundSteps(b, steps)
    PROVE  /\ steps \in Seq({steps[i] : i \in DOMAIN steps}) /\ Deduplicated(steps) = steps
           /\ DOMAIN steps = 1..Len(steps) /\ Len(steps) \in Nat
<1> DEFINE T == {steps[i] : i \in DOMAIN steps}
           n == Len(steps)
           keep == [i \in DOMAIN steps |->
                       /\ steps[i].name # TemplatingStepName
                       /\ \A j \in 1..i - 1 : steps[j].name # steps[i].name]
<1>1. n \in Nat /\ steps = [i \in 1..n |-> steps[i]]
  BY MaxStepsAssumption DEF SoundSteps
<1>2. DOMAIN steps = 1..n BY <1>1
<1> HIDE DEF n
<1>3. steps \in Seq(T)
  <2>1. steps \in [1..n -> T] BY <1>1, <1>2
  <2> HIDE DEF T
  <2> QED BY <1>1, <2>1, FunctionIsSequence
<1>4. \A i \in 1..n : keep[i]
  <2>1. ASSUME NEW i \in 1..n, NEW j \in 1..i - 1 PROVE steps[j].name # steps[i].name
    <3>1. j \in 1..n /\ j # i BY <1>1
    <3> QED BY <1>2, <3>1 DEF SoundSteps
  <2>2. \A i \in 1..n : steps[i].name # TemplatingStepName BY <1>2 DEF SoundSteps
  <2> QED BY <1>2, <2>1, <2>2
<1>5. Kept(steps, keep) = steps
  <2> HIDE DEF T, keep
  <2> QED BY <1>3, <1>4, KeptAll DEF n
<1> QED BY <1>1, <1>2, <1>3, <1>5 DEF Deduplicated, n

(* The step that stands between two sequences is found by its name.        *)
LEMMA Between ==
    ASSUME NEW T, NEW before \in Seq(T), NEW after \in Seq(T), NEW x \in T,
           \A i \in 1..Len(before) : before[i].name # x.name,
           \A i \in 1..Len(after) : after[i].name # x.name
    PROVE  LET steps == before \o <<x>> \o after
           IN  /\ steps \in Seq(T) /\ Len(steps) = Len(before) + 1 + Len(after)
               /\ \A i \in DOMAIN steps : steps[i].name = x.name <=> i = Len(before) + 1
               /\ SubSeq(steps, 1, Len(before)) = before
               /\ SubSeq(steps, Len(before) + 2, Len(steps)) = after
               /\ \A i \in 1..Len(before) : steps[i] = before[i]
               /\ steps[Len(before) + 1] = x
               /\ \A i \in 1..Len(after) : steps[Len(before) + 1 + i] = after[i]
<1> DEFINE m == Len(before)
           k == Len(after)
           front == before \o <<x>>
           steps == front \o after
<1>1. m \in Nat /\ k \in Nat /\ <<x>> \in Seq(T) /\ Len(<<x>>) = 1 /\ <<x>>[1] = x BY LenProperties
<1>2. /\ front \in Seq(T) /\ Len(front) = m + 1
      /\ front[m + 1] = x /\ \A i \in 1..m : front[i] = before[i]
  BY <1>1, ConcatProperties
<1> HIDE DEF front
<1>3. /\ steps \in Seq(T) /\ Len(steps) = m + 1 + k
      /\ \A i \in 1..Len(steps) : steps[i] = IF i <= m + 1 THEN front[i] ELSE after[i - (m + 1)]
  <2>1. /\ steps \in Seq(T) /\ Len(steps) = Len(front) + k
        /\ \A i \in 1..Len(front) + k :
              steps[i] = IF i <= Len(front) THEN front[i] ELSE after[i - Len(front)]
    BY <1>2, ConcatProperties
  <2> HIDE DEF steps, k, m
  <2> QED BY <1>2, <2>1
<1> HIDE DEF steps
<1>4. /\ \A i \in 1..m : i \in 1..Len(steps) /\ steps[i] = before[i]
      /\ m + 1 \in 1..Len(steps) /\ steps[m + 1] = x
      /\ \A i \in 1..k : m + 1 + i \in 1..Len(steps) /\ steps[m + 1 + i] = after[i]
  <2>1. \A i \in 1..m : i \in 1..Len(steps) /\ i <= m + 1 BY <1>1, <1>3
  <2>2. m + 1 \in 1..Len(steps) /\ m + 1 <= m + 1 BY <1>1, <1>3
  <2>3. \A i \in 1..k : m + 1 + i \in 1..Len(steps) /\ ~(m + 1 + i <= m + 1) /\ (m + 1 + i) - (m + 1) = i
    BY <1>1, <1>3
  <2> QED BY <1>2, <1>3, <2>1, <2>2, <2>3
<1>5. DOMAIN steps = 1..Len(steps) BY <1>3, LenProperties
<1>6. \A i \in 1..Len(steps) : steps[i].name = x.name => i = m + 1
  <2>1. ASSUME NEW i \in 1..Len(steps), i # m + 1 PROVE steps[i].name # x.name
    <3>1. i \in 1..m \/ \E j \in 1..k : i = m + 1 + j
      <4>1. CASE i <= m BY <1>1, <1>3, <4>1
      <4>2. CASE ~(i <= m)
        <5>1. i - (m + 1) \in 1..k /\ i = m + 1 + (i - (m + 1)) BY <1>1, <1>3, <2>1, <4>2
        <5> QED BY <5>1
      <4> QED BY <4>1, <4>2
    <3> QED BY <1>4, <3>1
  <2> QED BY <2>1
<1>7. \A i \in DOMAIN steps : steps[i].name = x.name <=> i = m + 1 BY <1>4, <1>5, <1>6
<1>8. SubSeq(steps, 1, m) = before
  <2> DEFINE part == SubSeq(steps, 1, m)
  <2>1. part \in Seq(T) /\ Len(part) = m /\ \A i \in 1..m : part[i] = steps[i]
    BY <1>1, <1>3
  <2> HIDE DEF part
  <2>2. \A i \in 1..m : part[i] = before[i] BY <1>4, <2>1
  <2> QED BY <2>1, <2>2, SeqEqual DEF part
<1>9. SubSeq(steps, m + 2, Len(steps)) = after
  <2> DEFINE part == SubSeq(steps, m + 2, Len(steps))
  <2>1. part \in Seq(T) /\ Len(part) = k /\ \A i \in 1..k : part[i] = steps[m + 1 + i]
    BY <1>1, <1>3
  <2> HIDE DEF part
  <2>2. \A i \in 1..k : part[i] = after[i] BY <1>4, <2>1
  <2> QED BY <2>1, <2>2, SeqEqual DEF part
<1> QED BY <1>3, <1>4, <1>7, <1>8, <1>9 DEF steps, front

(* The two sides of the templating step: every step on one of them, once.  *)
StepsOf(b, steps) == {steps[i] : i \in DOMAIN steps} \cup {TemplatingStep(b)}

LEMMA Sides ==
    ASSUME NEW b, NEW steps, SoundSteps(b, steps)
    PROVE  LET before == Before(steps)
               after == After(steps)
           IN  /\ steps \in Seq(StepsOf(b, steps))
               /\ before \in Seq(StepsOf(b, steps)) /\ after \in Seq(StepsOf(b, steps))
               /\ \A i \in 1..Len(before) :
                     before[i].name # TemplatingStepName /\ before[i].name \in Names(steps)
               /\ \A i \in 1..Len(after) :
                     after[i].name # TemplatingStepName /\ after[i].name \in Names(steps)
               /\ \A i, j \in 1..Len(before) : before[i].name = before[j].name => i = j
               /\ \A i, j \in 1..Len(after) : after[i].name = after[j].name => i = j
               /\ \A i \in 1..Len(before), j \in 1..Len(after) : before[i].name # after[j].name
               /\ \A k \in DOMAIN steps :
                     IF steps[k].position = "before" THEN \E i \in 1..Len(before) : before[i] = steps[k]
                     ELSE \E i \in 1..Len(after) : after[i] = steps[k]
<1> DEFINE T == StepsOf(b, steps)
           n == Len(steps)
           front == [i \in DOMAIN steps |-> steps[i].position = "before"]
           rear == [i \in DOMAIN steps |-> steps[i].position # "before"]
           before == Kept(steps, front)
           after == Kept(steps, rear)
<1>1. steps \in Seq(T) /\ DOMAIN steps = 1..n /\ n \in Nat
  <2>1. {steps[i] : i \in DOMAIN steps} \subseteq T BY DEF StepsOf
  <2> QED BY <2>1, NothingLost, SeqMonotonic
<1>2. \A i \in 1..n : /\ front[i] <=> steps[i].position = "before"
                      /\ rear[i] <=> steps[i].position # "before"
  BY <1>1
<1>3. \A i \in 1..n : steps[i].name # TemplatingStepName /\ steps[i].name \in Names(steps)
  BY <1>1 DEF SoundSteps, Names
<1>4. \A i, j \in 1..n : steps[i].name = steps[j].name => i = j BY <1>1 DEF SoundSteps
<1> HIDE DEF T, front, rear, n
<1>5. before \in Seq(T) /\ after \in Seq(T) BY <1>1, KeptAt
<1>6. PICK at : Places(steps, front, n, before, at) BY <1>1, KeptAt DEF n
<1>7. PICK to : Places(steps, rear, n, after, to) BY <1>1, KeptAt DEF n
<1> HIDE DEF before, after
<1>8. \A i \in 1..Len(before) : at[i] \in 1..n /\ before[i] = steps[at[i]] /\ front[at[i]]
  BY <1>6 DEF Places
<1>9. \A i \in 1..Len(after) : to[i] \in 1..n /\ after[i] = steps[to[i]] /\ rear[to[i]]
  BY <1>7 DEF Places
<1>10. \A i, j \in 1..Len(before) : at[i] = at[j] => i = j BY <1>6 DEF Places
<1>11. \A i, j \in 1..Len(after) : to[i] = to[j] => i = j BY <1>7 DEF Places
<1>12. \A i \in 1..Len(before) :
          before[i].name # TemplatingStepName /\ before[i].name \in Names(steps)
  BY <1>3, <1>8
<1>13. \A i \in 1..Len(after) :
          after[i].name # TemplatingStepName /\ after[i].name \in Names(steps)
  BY <1>3, <1>9
<1>14. \A i, j \in 1..Len(before) : before[i].name = before[j].name => i = j
  BY <1>4, <1>8, <1>10
<1>15. \A i, j \in 1..Len(after) : after[i].name = after[j].name => i = j
  BY <1>4, <1>9, <1>11
<1>16. \A i \in 1..Len(before), j \in 1..Len(after) : before[i].name # after[j].name
  <2>1. ASSUME NEW i \in 1..Len(before), NEW j \in 1..Len(after)
        PROVE  before[i].name # after[j].name
    <3>1. at[i] \in 1..n /\ before[i] = steps[at[i]] /\ front[at[i]] BY <1>8
    <3>2. to[j] \in 1..n /\ after[j] = steps[to[j]] /\ rear[to[j]] BY <1>9
    <3>3. at[i] # to[j] BY <1>2, <3>1, <3>2
    <3> QED BY <1>4, <3>1, <3>2, <3>3
  <2> QED BY <2>1
<1>17. \A k \in 1..n :
          IF steps[k].position = "before" THEN \E i \in 1..Len(before) : before[i] = steps[k]
          ELSE \E i \in 1..Len(after) : after[i] = steps[k]
  <2>1. \A k \in 1..n : front[k] => \E i \in 1..Len(before) : at[i] = k BY <1>6 DEF Places
  <2>2. \A k \in 1..n : rear[k] => \E i \in 1..Len(after) : to[i] = k BY <1>7 DEF Places
  <2> QED BY <1>2, <1>8, <1>9, <2>1, <2>2
<1>18. before = Before(steps) /\ after = After(steps)
  BY DEF before, after, front, rear, Before, After
<1> QED BY <1>1, <1>5, <1>12, <1>13, <1>14, <1>15, <1>16, <1>17, <1>18 DEF T

(* What the Composition lists is the two sides around the templates.       *)
LEMMA Composed ==
    ASSUME NEW b, NEW steps, SoundSteps(b, steps), steps = EffectivePipeline(b)
    PROVE  LET before == Before(steps)
               after == After(steps)
               all == CompositionSteps(b)
               at == CHOOSE i \in DOMAIN all : all[i].name = TemplatingStepName
               m == Len(before)
           IN  /\ all \in Seq(StepsOf(b, steps)) /\ Len(all) = m + 1 + Len(after)
               /\ at = m + 1
               /\ SubSeq(all, 1, at - 1) = before
               /\ SubSeq(all, at + 1, Len(all)) = after
               /\ \A i \in 1..m : all[i] = before[i]
               /\ all[m + 1] = TemplatingStep(b)
               /\ \A i \in 1..Len(after) : all[m + 1 + i] = after[i]
<1> DEFINE T == StepsOf(b, steps)
           before == Before(steps)
           after == After(steps)
           x == TemplatingStep(b)
<1>1. /\ before \in Seq(T) /\ after \in Seq(T)
      /\ \A i \in 1..Len(before) : before[i].name # TemplatingStepName
      /\ \A i \in 1..Len(after) : after[i].name # TemplatingStepName
  BY Sides
<1>2. x \in T /\ x.name = TemplatingStepName BY DEF StepsOf, TemplatingStep, Step
<1>3. CompositionSteps(b) = before \o <<x>> \o after BY DEF CompositionSteps
<1> HIDE DEF T, before, after, x
<1>4. /\ \A i \in 1..Len(before) : before[i].name # x.name
      /\ \A i \in 1..Len(after) : after[i].name # x.name
  BY <1>1, <1>2
<1> DEFINE all == before \o <<x>> \o after
           m == Len(before)
           at == CHOOSE i \in DOMAIN all : all[i].name = TemplatingStepName
<1>5. /\ all \in Seq(T) /\ Len(all) = m + 1 + Len(after)
      /\ \A i \in DOMAIN all : all[i].name = x.name <=> i = m + 1
      /\ SubSeq(all, 1, m) = before
      /\ SubSeq(all, m + 2, Len(all)) = after
      /\ \A i \in 1..m : all[i] = before[i]
      /\ all[m + 1] = x
      /\ \A i \in 1..Len(after) : all[m + 1 + i] = after[i]
  BY <1>1, <1>2, <1>4, Between
<1>6. m \in Nat /\ Len(after) \in Nat BY <1>1, LenProperties
<1> HIDE DEF all, m
<1>7. at = m + 1
  <2>1. m + 1 \in DOMAIN all
    <3>1. DOMAIN all = 1..m + 1 + Len(after) BY <1>5, LenProperties
    <3> QED BY <1>6, <3>1
  <2> QED BY <1>2, <1>5, <2>1
<1> HIDE DEF at
<1>8. at - 1 = m /\ at + 1 = m + 2 BY <1>6, <1>7
<1>9. SubSeq(all, 1, at - 1) = before /\ SubSeq(all, at + 1, Len(all)) = after BY <1>5, <1>8
<1>10. all = CompositionSteps(b) BY <1>3 DEF all
<1> QED BY <1>5, <1>7, <1>9, <1>10 DEF T, before, after, x, m, at

LEMMA SidesInFront ==
    ASSUME NEW T, NEW e \in T, NEW declared \in Seq(T), e.position = "before"
    PROVE  /\ Before(Led(e, declared)) = Led(e, Before(declared))
           /\ After(Led(e, declared)) = After(declared)
<1> DEFINE n == Len(declared)
           steps == Led(e, declared)
           front(s) == [i \in DOMAIN s |-> s[i].position = "before"]
           rear(s) == [i \in DOMAIN s |-> s[i].position # "before"]
<1>1. n \in Nat /\ DOMAIN declared = 1..n /\ <<e>> \in Seq(T) /\ Len(<<e>>) = 1 BY LenProperties
<1>2. steps \in Seq(T) /\ Len(steps) = n + 1 /\ steps[1] = e /\ \A i \in 1..n : steps[i + 1] = declared[i]
  BY <1>1, ConcatProperties DEF Led
<1>3. DOMAIN steps = 1..n + 1 BY <1>2, LenProperties
<1>4. front(steps)[1] /\ ~rear(steps)[1]
  <2>1. 1 \in DOMAIN steps BY <1>1, <1>3
  <2> QED BY <1>2, <2>1
<1>5. \A i \in 1..n : /\ front(declared)[i] = front(steps)[i + 1]
                      /\ rear(declared)[i] = rear(steps)[i + 1]
  <2>1. \A i \in 1..n : i \in DOMAIN declared /\ i + 1 \in DOMAIN steps BY <1>1, <1>3
  <2> QED BY <1>2, <2>1
<1>6. Kept(Led(e, declared), front(steps)) = Led(e, Kept(declared, front(declared)))
  <2> DEFINE keep == front(steps)
             keeps == front(declared)
  <2>1. \A i \in 1..n : keeps[i] = keep[i + 1] BY <1>5
  <2>2. keep[1] BY <1>4
  <2> HIDE DEF keep, keeps, front, rear, steps, n
  <2>3. Shifted(keep, keeps, Len(declared)) BY <2>1 DEF n, Shifted
  <2>4. Kept(Led(e, declared), keep) = Led(e, Kept(declared, keeps)) BY <2>2, <2>3, KeptCons
  <2> QED BY <2>4 DEF keep, keeps
<1>7. Kept(Led(e, declared), rear(steps)) = Kept(declared, rear(declared))
  <2> DEFINE keep == rear(steps)
             keeps == rear(declared)
  <2>1. \A i \in 1..n : keeps[i] = keep[i + 1] BY <1>5
  <2>2. ~keep[1] BY <1>4
  <2> HIDE DEF keep, keeps, front, rear, steps, n
  <2>3. Shifted(keep, keeps, Len(declared)) BY <2>1 DEF n, Shifted
  <2>4. Kept(Led(e, declared), keep) = Kept(declared, keeps) BY <2>2, <2>3, KeptCons
  <2> QED BY <2>4 DEF keep, keeps
<1> QED BY <1>6, <1>7 DEF Before, After

(* Of one side of the Composition, the declared steps.                     *)
DeclaredOf(b, side) == Kept(side, [i \in DOMAIN side |-> side[i].name \in Names(b.pipeline)])

LEMMA SidesKept ==
    ASSUME NEW b, b.pipeline \in DeclaredPipelines, ValidPipeline(b), b.pipeline # <<>>
    PROVE  LET declared == DeclaredOrDefault(b)
               steps == WithEnvironment(b, declared)
           IN  /\ NamedAlike(Before(declared), DeclaredOf(b, Before(steps)))
               /\ NamedAlike(After(declared), DeclaredOf(b, After(steps)))
<1> DEFINE declared == DeclaredOrDefault(b)
           steps == WithEnvironment(b, declared)
           n == Len(declared)
           names == Names(b.pipeline)
           T == StepsOf(b, declared) \cup StepsOf(b, steps)
           chosen(side) == [i \in DOMAIN side |-> side[i].name \in names]
<1>1. SoundSteps(b, declared) /\ NamedAlike(declared, b.pipeline) /\ DOMAIN declared = DOMAIN b.pipeline
  BY DeclaredSound
<1>2. /\ SoundSteps(b, steps)
      /\ \/ /\ NamedAlike(declared, steps)
            /\ \A i \in 1..n : steps[i].position = declared[i].position
         \/ \E e : InFront(e, steps, declared)
  BY EnvironmentSound
<1> HIDE DEF declared, steps
<1>3. n \in Nat /\ DOMAIN declared = 1..n /\ declared \in Seq(T)
  <2>1. declared \in Seq(StepsOf(b, declared)) BY <1>1, Sides
  <2> QED BY <1>1, <2>1, NothingLost, SeqMonotonic
<1>4. steps \in Seq(T) /\ DOMAIN steps = 1..Len(steps)
  <2>1. steps \in Seq(StepsOf(b, steps)) BY <1>2, Sides
  <2> QED BY <1>2, <2>1, NothingLost, SeqMonotonic
<1>5. Names(declared) = names BY <1>1, <1>3 DEF Names, NamedAlike
<1> HIDE DEF T, n
<1>6. Before(declared) \in Seq(T) /\ After(declared) \in Seq(T) BY <1>3, KeptAt DEF Before, After
<1>7. ASSUME NEW side \in Seq(T), \A i \in 1..Len(side) : side[i].name \in names
      PROVE  DeclaredOf(b, side) = side
  <2> DEFINE keep == chosen(side)
  <2>1. \A i \in 1..Len(side) : keep[i] BY <1>7, LenProperties
  <2> HIDE DEF keep
  <2>2. Kept(side, keep) = side BY <2>1, KeptAll
  <2> QED BY <2>2 DEF DeclaredOf, keep
<1>8. /\ \A i \in 1..Len(Before(declared)) : Before(declared)[i].name \in names
      /\ \A i \in 1..Len(After(declared)) : After(declared)[i].name \in names
  BY <1>1, <1>5, Sides
<1>9. CASE NamedAlike(declared, steps) /\ \A i \in 1..n : steps[i].position = declared[i].position
  <2>1. Len(steps) = n /\ \A i \in 1..n : steps[i].name = declared[i].name
    BY <1>9 DEF NamedAlike, n
  <2>2. Names(steps) = names BY <1>3, <1>4, <1>5, <2>1 DEF Names
  <2>3. Before(steps) \in Seq(T) /\ After(steps) \in Seq(T) BY <1>4, KeptAt DEF Before, After
  <2>4. DeclaredOf(b, Before(steps)) = Before(steps) /\ DeclaredOf(b, After(steps)) = After(steps)
    <3>1. /\ \A i \in 1..Len(Before(steps)) : Before(steps)[i].name \in names
          /\ \A i \in 1..Len(After(steps)) : After(steps)[i].name \in names
      BY <1>2, <2>2, Sides
    <3> QED BY <1>7, <2>3, <3>1
  <2>5. NamedAlike(Before(declared), Before(steps))
    <3> DEFINE keep == [i \in DOMAIN declared |-> declared[i].position = "before"]
               keeps == [i \in DOMAIN steps |-> steps[i].position = "before"]
    <3>1. \A i \in 1..n : keep[i] = keeps[i] BY <1>3, <1>4, <1>9, <2>1
    <3> HIDE DEF keep, keeps
    <3>2. NamedAlike(Kept(declared, keep), Kept(steps, keeps))
      BY <1>3, <1>4, <1>9, <3>1, KeptAlike DEF n
    <3> QED BY <3>2 DEF Before, keep, keeps
  <2>6. NamedAlike(After(declared), After(steps))
    <3> DEFINE keep == [i \in DOMAIN declared |-> declared[i].position # "before"]
               keeps == [i \in DOMAIN steps |-> steps[i].position # "before"]
    <3>1. \A i \in 1..n : keep[i] = keeps[i] BY <1>3, <1>4, <1>9, <2>1
    <3> HIDE DEF keep, keeps
    <3>2. NamedAlike(Kept(declared, keep), Kept(steps, keeps))
      BY <1>3, <1>4, <1>9, <3>1, KeptAlike DEF n
    <3> QED BY <3>2 DEF After, keep, keeps
  <2> QED BY <2>4, <2>5, <2>6 DEF declared, steps
<1>10. ASSUME NEW e, InFront(e, steps, declared)
       PROVE  /\ NamedAlike(Before(declared), DeclaredOf(b, Before(steps)))
              /\ NamedAlike(After(declared), DeclaredOf(b, After(steps)))
  <2> DEFINE U == T \cup {e}
             side == Before(declared)
             longer == Led(e, side)
             keep == chosen(longer)
             keeps == chosen(side)
  <2>1. e.name \notin names /\ e.position = "before" /\ steps = Led(e, declared)
    BY <1>5, <1>10 DEF InFront
  <2>2. e \in U /\ declared \in Seq(U) /\ side \in Seq(U) BY <1>3, <1>6, SeqMonotonic
  <2> HIDE DEF U
  <2>3. Before(steps) = longer /\ After(steps) = After(declared) BY <2>1, <2>2, SidesInFront
  <2>4. DeclaredOf(b, longer) = side
    <3>1. <<e>> \in Seq(U) /\ Len(<<e>>) = 1 /\ Len(side) \in Nat BY <2>2, LenProperties
    <3>2. /\ longer \in Seq(U) /\ Len(longer) = Len(side) + 1 /\ longer[1] = e
          /\ \A i \in 1..Len(side) : longer[i + 1] = side[i]
      BY <2>2, <3>1, ConcatProperties DEF Led
    <3>3. DOMAIN longer = 1..Len(side) + 1 /\ DOMAIN side = 1..Len(side)
      BY <2>2, <3>2, LenProperties
    <3> HIDE DEF side
    <3>4. Shifted(keep, keeps, Len(side))
      <4>1. \A i \in 1..Len(side) : i + 1 \in 1..Len(side) + 1 BY <3>1
      <4> HIDE DEF longer
      <4> QED BY <3>2, <3>3, <4>1 DEF Shifted
    <3>5. ~keep[1]
      <4>1. 1 \in DOMAIN longer BY <3>1, <3>3
      <4> QED BY <2>1, <3>2, <4>1
    <3>6. \A i \in 1..Len(side) : keeps[i] BY <1>8, <3>3 DEF side
    <3> HIDE DEF keep, keeps
    <3>7. Kept(longer, keep) = Kept(side, keeps) BY <2>2, <3>4, <3>5, KeptCons
    <3>8. Kept(side, keeps) = side BY <2>2, <3>6, KeptAll
    <3> QED BY <3>7, <3>8 DEF DeclaredOf, keep, keeps
  <2>5. DeclaredOf(b, After(declared)) = After(declared) BY <1>6, <1>7, <1>8
  <2> HIDE DEF longer
  <2>6. NamedAlike(side, side) /\ NamedAlike(After(declared), After(declared)) BY DEF NamedAlike
  <2> QED BY <2>3, <2>4, <2>5, <2>6
<1> QED BY <1>2, <1>9, <1>10 DEF declared, steps, n

LEMMA NamesCarried ==
    ASSUME NEW b, b.pipeline \in DeclaredPipelines, ValidPipeline(b)
    PROVE  LET declared == DeclaredOrDefault(b)
           IN  Names(declared) \subseteq Names(WithEnvironment(b, declared))
<1> DEFINE declared == DeclaredOrDefault(b)
           steps == WithEnvironment(b, declared)
           n == Len(declared)
<1>1. /\ SoundSteps(b, declared) /\ SoundSteps(b, steps)
      /\ \/ NamedAlike(declared, steps)
         \/ \E e : InFront(e, steps, declared)
  BY DeclaredSound, EnvironmentSound
<1> HIDE DEF declared, steps
<1>2. /\ n \in Nat /\ DOMAIN declared = 1..n
      /\ declared \in Seq({declared[i] : i \in DOMAIN declared})
  BY <1>1, NothingLost
<1>3. ASSUME NamedAlike(declared, steps) PROVE Names(declared) \subseteq Names(steps)
  <2>1. DOMAIN steps = 1..Len(steps) BY <1>1, NothingLost
  <2> QED BY <1>2, <1>3, <2>1 DEF NamedAlike, Names
<1>4. ASSUME NEW e, InFront(e, steps, declared) PROVE Names(declared) \subseteq Names(steps)
  <2> DEFINE T == {declared[i] : i \in DOMAIN declared} \cup {e}
  <2>1. declared \in Seq(T) BY <1>2, SeqMonotonic
  <2>2. e \in T OBVIOUS
  <2> HIDE DEF T
  <2>3. <<e>> \in Seq(T) /\ Len(<<e>>) = 1 BY <2>2
  <2>4. steps = <<e>> \o declared BY <1>4 DEF InFront, Led
  <2>5. Len(steps) = n + 1 /\ \A i \in 1..n : steps[i + 1] = declared[i]
    BY <1>2, <2>1, <2>3, <2>4, ConcatProperties
  <2>6. \A i \in 1..n : i + 1 \in DOMAIN steps BY <1>2, <2>5
  <2> HIDE DEF n
  <2> QED BY <1>2, <2>5, <2>6 DEF Names
<1> QED BY <1>1, <1>3, <1>4 DEF declared, steps

(* Crossplane requires step names to be unique, and a step the author      *)
(* declared must not be lost: DeclaredStepsKept of every valid document    *)
(* whose pipeline has any steps (emit.effectivePipeline, splitPipeline).   *)
LEMMA StepsAreKept ==
    ASSUME NEW b, b.pipeline \in DeclaredPipelines, ValidPipeline(b)
    PROVE  DeclaredStepsKept(b)
<1> DEFINE declared == DeclaredOrDefault(b)
           steps == WithEnvironment(b, declared)
           before == Before(steps)
           after == After(steps)
           all == CompositionSteps(b)
           at == CHOOSE i \in DOMAIN all : all[i].name = TemplatingStepName
           named(seq) == [i \in DOMAIN seq |-> seq[i].name]
           m == Len(before)
           k == Len(after)
           T == StepsOf(b, steps)
<1>1. SoundSteps(b, steps) /\ SoundSteps(b, declared) BY DeclaredSound, EnvironmentSound
<1>2. EffectivePipeline(b) = steps BY <1>1, NothingLost DEF EffectivePipeline
<1> HIDE DEF steps, declared
<1>3. /\ all \in Seq(T) /\ Len(all) = m + 1 + k
      /\ at = m + 1
      /\ SubSeq(all, 1, at - 1) = before
      /\ SubSeq(all, at + 1, Len(all)) = after
      /\ \A i \in 1..m : all[i] = before[i]
      /\ all[m + 1] = TemplatingStep(b)
      /\ \A i \in 1..k : all[m + 1 + i] = after[i]
  BY <1>1, <1>2, Composed
<1>4. /\ before \in Seq(T) /\ after \in Seq(T)
      /\ \A i \in 1..m : before[i].name # TemplatingStepName
      /\ \A i \in 1..k : after[i].name # TemplatingStepName
      /\ \A i, j \in 1..m : before[i].name = before[j].name => i = j
      /\ \A i, j \in 1..k : after[i].name = after[j].name => i = j
      /\ \A i \in 1..m, j \in 1..k : before[i].name # after[j].name
      /\ \A i \in DOMAIN steps :
            IF steps[i].position = "before" THEN \E j \in 1..m : before[j] = steps[i]
            ELSE \E j \in 1..k : after[j] = steps[i]
  BY <1>1, Sides
<1>5. m \in Nat /\ k \in Nat /\ DOMAIN all = 1..m + 1 + k BY <1>3, <1>4, LenProperties
<1>6. TemplatingStep(b).name = TemplatingStepName BY DEF TemplatingStep, Step
<1> HIDE DEF before, after, all, at, m, k, T
<1>7. ASSUME NEW i \in DOMAIN all
      PROVE  \/ i \in 1..m /\ all[i] = before[i]
             \/ i = m + 1 /\ all[i].name = TemplatingStepName
             \/ \E j \in 1..k : i = m + 1 + j /\ all[i] = after[j]
  <2>1. i \in 1..m + 1 + k BY <1>5
  <2>2. i \in 1..m \/ i = m + 1 \/ (i - (m + 1) \in 1..k /\ i = m + 1 + (i - (m + 1)))
    BY <1>5, <2>1
  <2> QED BY <1>3, <1>6, <2>2
<1>8. IsInjective(named(all))
  <2>1. ASSUME NEW i \in DOMAIN all, NEW j \in DOMAIN all, all[i].name = all[j].name PROVE i = j
    BY <1>4, <1>7, <2>1
  <2> QED BY <2>1 DEF IsInjective
<1>9. Names(b.pipeline) \subseteq Names(all)
  <2>1. ASSUME NEW i \in DOMAIN b.pipeline PROVE \E j \in DOMAIN all : all[j].name = b.pipeline[i].name
    <3>1. b.pipeline # <<>> OBVIOUS
    <3>2. /\ NamedAlike(declared, b.pipeline) /\ DOMAIN declared = DOMAIN b.pipeline
          /\ DOMAIN declared = 1..Len(declared)
      BY <1>1, <3>1, DeclaredSound, NothingLost DEF declared
    <3>3. declared[i].name = b.pipeline[i].name BY <3>2 DEF NamedAlike
    <3>4. \E l \in DOMAIN steps : steps[l].name = declared[i].name
      <4>1. Names(declared) \subseteq Names(steps) BY NamesCarried DEF steps, declared
      <4> QED BY <3>2, <4>1 DEF Names
    <3>5. PICK l \in DOMAIN steps : steps[l].name = b.pipeline[i].name BY <3>3, <3>4
    <3>6. (\E j \in 1..m : before[j] = steps[l]) \/ (\E j \in 1..k : after[j] = steps[l]) BY <1>4
    <3>7. /\ \A j \in 1..m : j \in DOMAIN all
          /\ \A j \in 1..k : m + 1 + j \in DOMAIN all
      BY <1>5
    <3>8. CASE \E j \in 1..m : before[j] = steps[l]
      <4>1. PICK j \in 1..m : before[j] = steps[l] BY <3>8
      <4>2. j \in DOMAIN all /\ all[j] = steps[l] BY <1>3, <3>7, <4>1
      <4> QED BY <3>5, <4>2
    <3>9. CASE \E j \in 1..k : after[j] = steps[l]
      <4>1. PICK j \in 1..k : after[j] = steps[l] BY <3>9
      <4>2. m + 1 + j \in DOMAIN all /\ all[m + 1 + j] = steps[l] BY <1>3, <3>7, <4>1
      <4> QED BY <3>5, <4>2
    <3> QED BY <3>6, <3>8, <3>9
  <2> QED BY <2>1 DEF Names
<1>10. ASSUME b.pipeline # <<>>
       PROVE  /\ named(DeclaredOf(b, before)) = named(Before(declared))
              /\ named(DeclaredOf(b, after)) = named(After(declared))
  <2>1. /\ NamedAlike(Before(declared), DeclaredOf(b, before))
        /\ NamedAlike(After(declared), DeclaredOf(b, after))
    BY <1>10, SidesKept DEF declared, steps, before, after
  <2>2. /\ DeclaredOf(b, before) \in Seq(T) /\ DeclaredOf(b, after) \in Seq(T)
        /\ Before(declared) \in Seq(StepsOf(b, declared))
        /\ After(declared) \in Seq(StepsOf(b, declared))
    BY <1>1, <1>4, KeptAt, Sides DEF DeclaredOf
  <2>3. ASSUME NEW S, NEW s \in Seq(S), NEW U, NEW t \in Seq(U), NamedAlike(s, t)
        PROVE  named(t) = named(s)
    <3>1. DOMAIN s = 1..Len(s) /\ DOMAIN t = 1..Len(t) BY LenProperties
    <3> QED BY <2>3, <3>1 DEF NamedAlike
  <2> HIDE DEF named
  <2> QED BY <2>1, <2>2, <2>3
<1>11. /\ DeclaredOf(b, before) = Kept(before, [i \in DOMAIN before |-> before[i].name \in Names(b.pipeline)])
       /\ DeclaredOf(b, after) = Kept(after, [i \in DOMAIN after |-> after[i].name \in Names(b.pipeline)])
  BY DEF DeclaredOf
<1> HIDE DEF named
<1>12. DeclaredStepsKept(b) <=>
         LET kept(side) == Kept(side, [i \in DOMAIN side |-> side[i].name \in Names(b.pipeline)]) IN
         /\ IsInjective(named(all))
         /\ Names(b.pipeline) \subseteq Names(all)
         /\ named(kept(SubSeq(all, 1, at - 1))) = named(Before(declared)) \/ b.pipeline = <<>>
         /\ named(kept(SubSeq(all, at + 1, Len(all)))) = named(After(declared)) \/ b.pipeline = <<>>
  BY DEF DeclaredStepsKept, named, all, at, declared
<1> QED BY <1>3, <1>8, <1>9, <1>10, <1>11, <1>12

(* The input the emitter writes finds every config that is emitted.        *)
EntryOf(cfg) ==
    IF cfg.labels # {} THEN [ref |-> "", labels |-> cfg.labels]
    ELSE [ref |-> IF cfg.name = "" THEN "default" ELSE cfg.name, labels |-> {}]

LEMMA EntryFinds ==
    ASSUME NEW cfg
    PROVE  /\ cfg.labels # {} => EntryOf(cfg).labels = cfg.labels
           /\ cfg.labels = {} => EntryOf(cfg).ref = EffectiveName(cfg)
  BY DEF EntryOf, EffectiveName

LEMMA InputLoads ==
    ASSUME NEW b, HasEnvironment(b),
           \A i \in DOMAIN b.configs : LET cfg == b.configs[i] IN
              cfg = [name |-> cfg.name, labels |-> cfg.labels, data |-> cfg.data],
           NEW cfg \in Range(EffectiveEnvironmentConfigs(b))
    PROVE  LET input == EnvironmentConfigsInput(b).loads IN
           \E i \in DOMAIN input : \/ input[i].labels # {} /\ input[i].labels = cfg.labels
                                   \/ input[i].ref = cfg.name
<1> DEFINE input == EnvironmentConfigsInput(b).loads
           effective == EffectiveEnvironmentConfigs(b)
<1>1. input = IF b.configs = <<>> THEN <<[ref |-> "default", labels |-> {}]>>
              ELSE [i \in DOMAIN b.configs |-> EntryOf(b.configs[i])]
  BY DEF EnvironmentConfigsInput, EntryOf
<1>2. PICK k \in DOMAIN effective : cfg = effective[k] BY DEF Range
<1> HIDE DEF input
<1>3. CASE b.configs = <<>>
  <2>1. DOMAIN b.environment # {} BY <1>3 DEF HasEnvironment
  <2>2. effective = <<[name |-> "default", labels |-> {}, data |-> <<>>]>>
    BY <1>3, <2>1 DEF EffectiveEnvironmentConfigs
  <2>3. cfg.name = "default"
    <3> HIDE DEF effective
    <3>1. k = 1 BY <1>2, <2>2
    <3> QED BY <1>2, <2>2, <3>1
  <2>4. input = <<[ref |-> "default", labels |-> {}]>> BY <1>1, <1>3
  <2>5. 1 \in DOMAIN input /\ input[1].ref = "default" BY <2>4
  <2> QED BY <2>3, <2>5 DEF input
<1>4. CASE b.configs # <<>>
  <2>1. effective = [i \in DOMAIN b.configs |-> [b.configs[i] EXCEPT !.name = EffectiveName(b.configs[i])]]
    BY <1>4 DEF EffectiveEnvironmentConfigs
  <2> HIDE DEF effective
  <2> DEFINE own == b.configs[k]
  <2>2. k \in DOMAIN b.configs /\ cfg = [own EXCEPT !.name = EffectiveName(own)] BY <1>2, <2>1
  <2>3. own = [name |-> own.name, labels |-> own.labels, data |-> own.data] BY <2>2
  <2>4. k \in DOMAIN input /\ input[k] = EntryOf(own) BY <1>1, <1>4, <2>2
  <2>5. cfg.name = EffectiveName(own) /\ cfg.labels = own.labels BY <2>2, <2>3
  <2> HIDE DEF own
  <2>6. \/ input[k].labels # {} /\ input[k].labels = cfg.labels
        \/ input[k].ref = cfg.name
    BY <2>4, <2>5, EntryFinds
  <2> QED BY <2>4, <2>6 DEF input
<1> QED BY <1>3, <1>4

(* The environment is loaded before the templates read it: EnvironmentLoaded *)
(* of every valid document (emit.EnvironmentConfigsInput,                  *)
(* effectivePipeline).                                                     *)
LEMMA EnvironmentIsLoaded ==
    ASSUME NEW b, b.pipeline \in DeclaredPipelines, ValidPipeline(b),
           \A i \in DOMAIN b.configs : LET cfg == b.configs[i] IN
              cfg = [name |-> cfg.name, labels |-> cfg.labels, data |-> cfg.data]
    PROVE  EnvironmentLoaded(b)
<1> DEFINE declared == DeclaredOrDefault(b)
           steps == WithEnvironment(b, declared)
           before == Before(steps)
           all == CompositionSteps(b)
           at == CHOOSE i \in DOMAIN all : all[i].name = TemplatingStepName
           loads(input, cfg) == \E i \in DOMAIN input :
                                 \/ input[i].labels # {} /\ input[i].labels = cfg.labels
                                 \/ input[i].ref = cfg.name
<1>1. /\ SoundSteps(b, steps)
      /\ HasEnvironment(b) =>
           \E i \in DOMAIN steps :
              /\ steps[i].functionRef = EnvironmentConfigsFunctionName
              /\ steps[i].input \in {OwnInput, EnvironmentConfigsInput(b)}
  BY EnvironmentSound
<1>2. EffectivePipeline(b) = steps BY <1>1, NothingLost DEF EffectivePipeline
<1> HIDE DEF steps, declared
<1>3. SubSeq(all, 1, at - 1) = before BY <1>1, <1>2, Composed
<1> HIDE DEF all, at, loads
<1>4. EnvironmentLoaded(b) <=>
        (HasEnvironment(b) =>
           \E s \in Range(SubSeq(all, 1, at - 1)) :
              /\ s.functionRef = EnvironmentConfigsFunctionName
              /\ \/ s.input = OwnInput
                 \/ \A cfg \in Range(EffectiveEnvironmentConfigs(b)) : loads(s.input.loads, cfg))
  BY DEF EnvironmentLoaded, all, at, loads
<1>5. ASSUME HasEnvironment(b)
      PROVE  \E s \in Range(before) :
               /\ s.functionRef = EnvironmentConfigsFunctionName
               /\ \/ s.input = OwnInput
                  \/ \A cfg \in Range(EffectiveEnvironmentConfigs(b)) : loads(s.input.loads, cfg)
  <2>1. PICK i \in DOMAIN steps :
           /\ steps[i].functionRef = EnvironmentConfigsFunctionName
           /\ steps[i].input \in {OwnInput, EnvironmentConfigsInput(b)}
    BY <1>1, <1>5
  <2>2. steps[i].position = "before" BY <1>1, <2>1 DEF SoundSteps
  <2>3. PICK j \in 1..Len(before) : before[j] = steps[i] BY <1>1, <2>2, Sides
  <2>4. j \in DOMAIN before
    <3>1. before \in Seq(StepsOf(b, steps)) BY <1>1, Sides
    <3> QED BY <3>1, LenProperties
  <2>5. steps[i] \in Range(before) BY <2>3, <2>4 DEF Range
  <2>6. CASE steps[i].input = OwnInput BY <2>1, <2>5, <2>6
  <2>7. CASE steps[i].input = EnvironmentConfigsInput(b)
    <3>1. \A cfg \in Range(EffectiveEnvironmentConfigs(b)) : loads(EnvironmentConfigsInput(b).loads, cfg)
      BY <1>5, InputLoads DEF loads
    <3> QED BY <2>1, <2>5, <2>7, <3>1
  <2> QED BY <2>1, <2>6, <2>7
<1> HIDE DEF before
<1> QED BY <1>3, <1>4, <1>5

-----------------------------------------------------------------------------
(* The functions the steps run *)

FunctionOf(s) == [name |-> s.functionRef, package |-> s.package]
EngineFunction(b) ==
    LET own == {i \in DOMAIN b.pipeline : b.pipeline[i].functionRef = BuiltinFunction(b)}
    IN  [name |-> BuiltinFunction(b),
         package |-> IF own # {} THEN b.pipeline[Min(own)].package ELSE EnginePackage]

(* f is the list after each prefix of the steps.                           *)
ListedAlong(b, steps, f) ==
    /\ f[0] = <<EngineFunction(b)>> /\ f[Len(steps)] = FunctionList(b)
    /\ \A i \in 1..Len(steps) :
          f[i] = IF \E j \in DOMAIN f[i - 1] : f[i - 1][j].name = steps[i].functionRef THEN f[i - 1]
                 ELSE Append(f[i - 1], FunctionOf(steps[i]))

LEMMA ListedFold ==
    ASSUME NEW b, NEW U, NEW steps \in Seq(U), steps = EffectivePipeline(b),
           NEW T, EngineFunction(b) \in T, \A i \in 1..Len(steps) : FunctionOf(steps[i]) \in T
    PROVE  \E f \in [0..Len(steps) -> Seq(T)] : ListedAlong(b, steps, f)
<1> DEFINE n == Len(steps)
           base == <<EngineFunction(b)>>
           Listed(fns, s) == \E i \in DOMAIN fns : fns[i].name = s.functionRef
           step == [x \in (1..n) \X Seq(T) |->
                      IF Listed(x[2], steps[x[1]]) THEN x[2] ELSE Append(x[2], FunctionOf(steps[x[1]]))]
           Body(it) == it = [S \in SUBSET DOMAIN steps |->
                               IF S = {} THEN base
                               ELSE IF Listed(it[S \ {Max(S)}], steps[Max(S)]) THEN it[S \ {Max(S)}]
                                    ELSE Append(it[S \ {Max(S)}], FunctionOf(steps[Max(S)]))]
           it == CHOOSE it : Body(it)
           f == [i \in 0..n |-> it[1..i]]
<1>1. n \in Nat /\ DOMAIN steps = 1..n BY LenProperties
<1>2. step \in [(1..n) \X Seq(T) -> Seq(T)]
  <2> HIDE DEF Listed
  <2>1. ASSUME NEW x \in (1..n) \X Seq(T)
        PROVE (IF Listed(x[2], steps[x[1]]) THEN x[2] ELSE Append(x[2], FunctionOf(steps[x[1]]))) \in Seq(T)
    <3>1. x[2] \in Seq(T) /\ FunctionOf(steps[x[1]]) \in T BY <1>1
    <3> QED BY <3>1, AppendProperties
  <2> QED BY <2>1
<1>3. base \in Seq(T) OBVIOUS
<1>4. PICK one \in [SUBSET (1..n) -> Seq(T)] : Unfolds(n, base, step, one)
  <2> HIDE DEF n, step, base
  <2> QED BY <1>1, <1>2, <1>3, Iterates
<1>5. Body(one)
  <2> HIDE DEF Listed, base
  <2>1. ASSUME NEW S \in SUBSET (1..n), S # {}
        PROVE  one[S] = IF Listed(one[S \ {Max(S)}], steps[Max(S)]) THEN one[S \ {Max(S)}]
                        ELSE Append(one[S \ {Max(S)}], FunctionOf(steps[Max(S)]))
    <3>1. Max(S) \in 1..n BY <1>1, <2>1, Greatest
    <3>2. <<Max(S), one[S \ {Max(S)}]>> \in (1..n) \X Seq(T) BY <3>1
    <3>3. one[S] = step[<<Max(S), one[S \ {Max(S)}]>>] BY <1>4, <2>1 DEF Unfolds
    <3> QED BY <3>2, <3>3
  <2>2. one[{}] = base BY <1>4 DEF Unfolds
  <2> QED BY <1>1, <1>4, <2>1, <2>2
<1>6. Body(it)
  <2> HIDE DEF Body
  <2> QED BY <1>5
<1>7. FunctionList(b) = it[1..n]
  BY <1>1 DEF FunctionList, FoldLeft, MapThenFoldSet, EngineFunction, FunctionOf
<1> HIDE DEF it, Listed, base
<1>8. f[0] = base
  <2>1. 1..0 = {} OBVIOUS
  <2> QED BY <1>1, <1>6, <2>1
<1>9. ASSUME NEW i \in 1..n
      PROVE  f[i] = IF Listed(f[i - 1], steps[i]) THEN f[i - 1] ELSE Append(f[i - 1], FunctionOf(steps[i]))
  <2>1. 1..i \in SUBSET (1..n) /\ 1..i # {} /\ Max(1..i) = i /\ (1..i) \ {i} = 1..(i - 1)
    BY <1>1, Ranges
  <2>2. it[1..i] = IF Listed(it[1..(i - 1)], steps[i]) THEN it[1..(i - 1)]
                   ELSE Append(it[1..(i - 1)], FunctionOf(steps[i]))
    <3>1. it[1..i] = IF Listed(it[(1..i) \ {Max(1..i)}], steps[Max(1..i)]) THEN it[(1..i) \ {Max(1..i)}]
                     ELSE Append(it[(1..i) \ {Max(1..i)}], FunctionOf(steps[Max(1..i)]))
      BY <1>1, <1>6, <2>1
    <3> HIDE DEF Body
    <3> QED BY <2>1, <3>1
  <2>3. i - 1 \in 0..n /\ i \in 0..n BY <1>1
  <2> QED BY <2>2, <2>3
<1>10. f = [i \in 0..n |-> f[i]] /\ f[n] = it[1..n] BY <1>1
<1> HIDE DEF f
<1>11. ASSUME NEW i \in 1..n, f[i - 1] \in Seq(T) PROVE f[i] \in Seq(T)
  <2>1. Append(f[i - 1], FunctionOf(steps[i])) \in Seq(T) BY <1>11, AppendProperties
  <2> QED BY <1>9, <1>11, <2>1
<1>12. \A i \in 0..n : f[i] \in Seq(T)
  <2> HIDE DEF n
  <2> QED BY <1>1, <1>3, <1>8, <1>11, Throughout
<1>13. f \in [0..n -> Seq(T)] BY <1>10, <1>12
<1>14. ListedAlong(b, steps, f)
  <2>1. f[0] = <<EngineFunction(b)>> BY <1>8 DEF base
  <2>2. f[n] = FunctionList(b) BY <1>7, <1>10
  <2> QED BY <1>9, <2>1, <2>2 DEF ListedAlong, Listed
<1> QED BY <1>13, <1>14

(* fns is the engine's function and those of the first m steps, each once. *)
Lists(b, steps, m, fns) ==
    /\ 1 \in 1..Len(fns) /\ fns[1] = EngineFunction(b)
    /\ \A i, j \in 1..Len(fns) : fns[i].name = fns[j].name => i = j
    /\ \A i \in 1..Len(fns) : i = 1 \/ \E j \in 1..m : fns[i] = FunctionOf(steps[j])
    /\ \A j \in 1..m : \E i \in 1..Len(fns) : fns[i].name = steps[j].functionRef

LEMMA ListsOneMore ==
    ASSUME NEW b, NEW steps, NEW m \in Nat, m # 0, NEW T, NEW fns \in Seq(T),
           Lists(b, steps, m - 1, fns), FunctionOf(steps[m]) \in T, NEW longer,
           longer = IF \E j \in DOMAIN fns : fns[j].name = steps[m].functionRef THEN fns
                    ELSE Append(fns, FunctionOf(steps[m]))
    PROVE  Lists(b, steps, m, longer)
<1> DEFINE k == Len(fns)
<1>1. k \in Nat /\ DOMAIN fns = 1..k BY LenProperties
<1>2. \A j \in 1..m : j \in 1..m - 1 \/ j = m OBVIOUS
<1>3. \A j \in 1..m - 1 : j \in 1..m OBVIOUS
<1>4. CASE \E j \in DOMAIN fns : fns[j].name = steps[m].functionRef
  <2>1. longer = fns BY <1>4
  <2>2. \A j \in 1..m : \E i \in 1..k : fns[i].name = steps[j].functionRef
    <3>1. \A j \in 1..m - 1 : \E i \in 1..k : fns[i].name = steps[j].functionRef BY DEF Lists
    <3>2. \E i \in 1..k : fns[i].name = steps[m].functionRef BY <1>1, <1>4
    <3> QED BY <1>2, <3>1, <3>2
  <2>3. \A i \in 1..k : i = 1 \/ \E j \in 1..m : fns[i] = FunctionOf(steps[j])
    <3>1. \A i \in 1..k : i = 1 \/ \E j \in 1..m - 1 : fns[i] = FunctionOf(steps[j]) BY DEF Lists
    <3> QED BY <1>3, <3>1
  <2>4. Lists(b, steps, m, fns) BY <2>2, <2>3 DEF Lists
  <2> QED BY <2>1, <2>4
<1>5. CASE ~\E j \in DOMAIN fns : fns[j].name = steps[m].functionRef
  <2> DEFINE new == FunctionOf(steps[m])
  <2>1. longer = Append(fns, new) BY <1>5
  <2>2. new.name = steps[m].functionRef BY DEF FunctionOf
  <2> HIDE DEF new
  <2>3. Len(longer) = k + 1 /\ longer[k + 1] = new /\ \A i \in 1..k : longer[i] = fns[i]
    BY <1>1, <2>1, AppendProperties DEF new
  <2>4. \A i \in 1..k + 1 : i \in 1..k \/ i = k + 1 BY <1>1
  <2>5. \A i \in 1..k : i \in 1..k + 1 BY <1>1
  <2>6. 1 \in 1..k /\ fns[1] = EngineFunction(b) BY DEF Lists
  <2>7. \A i, j \in 1..k : fns[i].name = fns[j].name => i = j BY DEF Lists
  <2>8. \A i \in 1..k : i = 1 \/ \E j \in 1..m - 1 : fns[i] = FunctionOf(steps[j]) BY DEF Lists
  <2>9. \A j \in 1..m - 1 : \E i \in 1..k : fns[i].name = steps[j].functionRef BY DEF Lists
  <2>10. k + 1 \in 1..k + 1 /\ m \in 1..m BY <1>1
  <2>11. \A i \in 1..k : fns[i].name # new.name BY <1>1, <1>5, <2>2
  <2> HIDE DEF k
  <2>12. 1 \in 1..k + 1 /\ longer[1] = EngineFunction(b) BY <2>3, <2>5, <2>6
  <2>13. \A i, j \in 1..k + 1 : longer[i].name = longer[j].name => i = j
    BY <2>3, <2>4, <2>7, <2>11
  <2>14. \A i \in 1..k + 1 : i = 1 \/ \E j \in 1..m : longer[i] = FunctionOf(steps[j])
    <3>1. \A i \in 1..k : i = 1 \/ \E j \in 1..m : longer[i] = FunctionOf(steps[j])
      BY <1>3, <2>3, <2>8
    <3>2. longer[k + 1] = FunctionOf(steps[m]) BY <2>3 DEF new
    <3> QED BY <2>4, <2>10, <3>1, <3>2
  <2>15. \A j \in 1..m : \E i \in 1..k + 1 : longer[i].name = steps[j].functionRef
    <3>1. \A j \in 1..m - 1 : \E i \in 1..k + 1 : longer[i].name = steps[j].functionRef
      BY <2>3, <2>5, <2>9
    <3>2. longer[k + 1].name = steps[m].functionRef BY <2>2, <2>3
    <3> QED BY <1>2, <2>10, <3>1, <3>2
  <2> QED BY <2>3, <2>12, <2>13, <2>14, <2>15 DEF Lists
<1> QED BY <1>4, <1>5

LEMMA Listing ==
    ASSUME NEW b, NEW U, NEW steps \in Seq(U), steps = EffectivePipeline(b)
    PROVE  /\ FunctionList(b) \in Seq({EngineFunction(b)} \cup {FunctionOf(steps[i]) : i \in 1..Len(steps)})
           /\ Lists(b, steps, Len(steps), FunctionList(b))
<1> DEFINE T == {EngineFunction(b)} \cup {FunctionOf(steps[i]) : i \in 1..Len(steps)}
           n == Len(steps)
<1>1. n \in Nat BY LenProperties
<1>2. EngineFunction(b) \in T /\ \A i \in 1..n : FunctionOf(steps[i]) \in T OBVIOUS
<1> HIDE DEF T
<1>3. PICK f \in [0..n -> Seq(T)] : ListedAlong(b, steps, f) BY <1>2, ListedFold
<1> DEFINE Fails == {i \in 0..n : ~Lists(b, steps, i, f[i])}
<1>4. 0 \notin Fails
  <2> DEFINE base == <<EngineFunction(b)>>
  <2>1. Len(base) = 1 /\ base[1] = EngineFunction(b) /\ 1..0 = {} OBVIOUS
  <2> HIDE DEF base
  <2>2. Lists(b, steps, 0, base) BY <2>1 DEF Lists
  <2> QED BY <1>3, <2>2 DEF ListedAlong, base
<1>5. ASSUME NEW i \in 1..n, i - 1 \notin Fails PROVE i \notin Fails
  <2>1. i - 1 \in 0..n /\ i \in Nat /\ i # 0 BY <1>1
  <2>2. f[i - 1] \in Seq(T)
    <3> HIDE DEF Fails
    <3> QED BY <2>1
  <2>3. Lists(b, steps, i - 1, f[i - 1]) BY <1>5, <2>1
  <2>4. f[i] = IF \E j \in DOMAIN f[i - 1] : f[i - 1][j].name = steps[i].functionRef THEN f[i - 1]
               ELSE Append(f[i - 1], FunctionOf(steps[i]))
    BY <1>3 DEF ListedAlong
  <2> HIDE DEF Fails
  <2>5. Lists(b, steps, i, f[i]) BY <1>2, <2>1, <2>2, <2>3, <2>4, ListsOneMore
  <2> QED BY <2>5 DEF Fails
<1>6. Fails = {}
  <2>1. Fails \subseteq 0..n OBVIOUS
  <2> HIDE DEF Fails, n
  <2> QED BY <1>1, <1>4, <1>5, <2>1, NoneFails
<1>7. n \in 0..n BY <1>1
<1> HIDE DEF n
<1>8. Lists(b, steps, n, f[n]) /\ f[n] \in Seq(T) BY <1>6, <1>7
<1> QED BY <1>3, <1>8 DEF ListedAlong, n, T

(* The packages depended on                                                *)
PathOf(f) == SplitRef(f.package).package
Depended(deps, path) == \E i \in 1..Len(deps) : deps[i].package = path

DependedAlong(b, fns, f) ==
    /\ f[0] = <<>> /\ f[Len(fns)] = DependsOn(b)
    /\ \A i \in 1..Len(fns) :
          f[i] = IF Depended(f[i - 1], PathOf(fns[i])) THEN f[i - 1]
                 ELSE Append(f[i - 1], SplitRef(fns[i].package))

LEMMA DependedFold ==
    ASSUME NEW b, NEW U, NEW fns \in Seq(U), fns = FunctionList(b),
           NEW T, \A i \in 1..Len(fns) : SplitRef(fns[i].package) \in T
    PROVE  \E f \in [0..Len(fns) -> Seq(T)] : DependedAlong(b, fns, f)
<1> DEFINE n == Len(fns)
           Adds(deps, f) == IF \E i \in DOMAIN deps : deps[i].package = SplitRef(f.package).package THEN deps
                            ELSE Append(deps, SplitRef(f.package))
           step == [x \in (1..n) \X Seq(T) |-> Adds(x[2], fns[x[1]])]
           Body(it) == it = [S \in SUBSET DOMAIN fns |->
                               IF S = {} THEN <<>> ELSE Adds(it[S \ {Max(S)}], fns[Max(S)])]
           it == CHOOSE it : Body(it)
           f == [i \in 0..n |-> it[1..i]]
<1>1. n \in Nat /\ DOMAIN fns = 1..n BY LenProperties
<1>2. ASSUME NEW deps \in Seq(T), NEW i \in 1..n PROVE Adds(deps, fns[i]) \in Seq(T)
  <2>1. SplitRef(fns[i].package) \in T OBVIOUS
  <2> QED BY <2>1, AppendProperties
<1>3. step \in [(1..n) \X Seq(T) -> Seq(T)]
  <2>1. ASSUME NEW x \in (1..n) \X Seq(T) PROVE Adds(x[2], fns[x[1]]) \in Seq(T)
    <3>1. x[2] \in Seq(T) /\ x[1] \in 1..n OBVIOUS
    <3> HIDE DEF Adds, n
    <3> QED BY <1>2, <3>1
  <2> HIDE DEF Adds
  <2> QED BY <2>1
<1>4. <<>> \in Seq(T) OBVIOUS
<1>5. PICK one \in [SUBSET (1..n) -> Seq(T)] : Unfolds(n, <<>>, step, one)
  <2> HIDE DEF n, step
  <2> QED BY <1>1, <1>3, <1>4, Iterates
<1>6. Body(one)
  <2>1. ASSUME NEW S \in SUBSET (1..n), S # {}
        PROVE  one[S] = Adds(one[S \ {Max(S)}], fns[Max(S)])
    <3>1. Max(S) \in 1..n BY <1>1, <2>1, Greatest
    <3>2. <<Max(S), one[S \ {Max(S)}]>> \in (1..n) \X Seq(T) BY <3>1
    <3>3. one[S] = step[<<Max(S), one[S \ {Max(S)}]>>] BY <1>5, <2>1 DEF Unfolds
    <3> HIDE DEF Adds
    <3> QED BY <3>2, <3>3
  <2>2. one[{}] = <<>> BY <1>5 DEF Unfolds
  <2> HIDE DEF Adds
  <2> QED BY <1>1, <1>5, <2>1, <2>2
<1>7. Body(it)
  <2> HIDE DEF Body
  <2> QED BY <1>6
<1>8. DependsOn(b) = it[1..n] BY <1>1 DEF DependsOn, FoldLeft, MapThenFoldSet
<1> HIDE DEF it, Adds
<1>9. f[0] = <<>>
  <2>1. 1..0 = {} OBVIOUS
  <2> QED BY <1>1, <1>7, <2>1
<1>10. ASSUME NEW i \in 1..n PROVE f[i] = Adds(f[i - 1], fns[i])
  <2>1. 1..i \in SUBSET (1..n) /\ 1..i # {} /\ Max(1..i) = i /\ (1..i) \ {i} = 1..(i - 1)
    BY <1>1, Ranges
  <2>2. it[1..i] = Adds(it[1..(i - 1)], fns[i])
    <3>1. it[1..i] = Adds(it[(1..i) \ {Max(1..i)}], fns[Max(1..i)]) BY <1>1, <1>7, <2>1
    <3> HIDE DEF Body
    <3> QED BY <2>1, <3>1
  <2>3. i - 1 \in 0..n /\ i \in 0..n BY <1>1
  <2> QED BY <2>2, <2>3
<1>11. f = [i \in 0..n |-> f[i]] /\ f[n] = it[1..n] BY <1>1
<1> HIDE DEF f
<1>12. ASSUME NEW i \in 1..n, f[i - 1] \in Seq(T) PROVE f[i] \in Seq(T)
  BY <1>2, <1>10, <1>12
<1>13. \A i \in 0..n : f[i] \in Seq(T)
  <2> HIDE DEF n
  <2> QED BY <1>1, <1>4, <1>9, <1>12, Throughout
<1>14. f \in [0..n -> Seq(T)] BY <1>11, <1>13
<1>15. DependedAlong(b, fns, f)
  <2>1. f[n] = DependsOn(b) BY <1>8, <1>11
  <2>2. ASSUME NEW i \in 1..n
        PROVE  f[i] = IF Depended(f[i - 1], PathOf(fns[i])) THEN f[i - 1]
                      ELSE Append(f[i - 1], SplitRef(fns[i].package))
    <3>1. f[i - 1] \in Seq(T)
      <4>1. i - 1 \in 0..n BY <1>1
      <4> QED BY <1>13, <4>1
    <3>2. DOMAIN f[i - 1] = 1..Len(f[i - 1]) BY <3>1, LenProperties
    <3> QED BY <1>10, <3>2 DEF Adds, Depended, PathOf
  <2> QED BY <1>9, <2>1, <2>2 DEF DependedAlong
<1> QED BY <1>14, <1>15

(* What the first m functions make of dependsOn: each of their paths, once *)
DependsOnFirst(fns, m, l, dep) ==
    l \in 1..m /\ dep = SplitRef(fns[l].package) /\ \A j \in 1..l - 1 : PathOf(fns[j]) # dep.package
Depends(fns, m, deps) ==
    /\ \A i, j \in 1..Len(deps) : deps[i].package = deps[j].package => i = j
    /\ \A j \in 1..m : Depended(deps, PathOf(fns[j]))
    /\ \A i \in 1..Len(deps) : \E l \in 1..m : DependsOnFirst(fns, m, l, deps[i])

LEMMA DependsOneMore ==
    ASSUME NEW T, NEW fns, NEW m \in Nat \ {0}, SplitRef(fns[m].package) \in T,
           NEW old \in Seq(T), Depends(fns, m - 1, old), NEW new,
           new = IF Depended(old, PathOf(fns[m])) THEN old ELSE Append(old, SplitRef(fns[m].package))
    PROVE  Depends(fns, m, new)
<1> DEFINE x == SplitRef(fns[m].package)
           n == Len(old)
<1>1. n \in Nat /\ \A l \in 1..m - 1 : l \in 1..m BY LenProperties
<1>2. \A j \in 1..m : j \in 1..m - 1 \/ j = m OBVIOUS
<1>3. PathOf(fns[m]) = x.package BY DEF PathOf
<1>4. ASSUME NEW l \in 1..m - 1, NEW dep, DependsOnFirst(fns, m - 1, l, dep)
      PROVE  DependsOnFirst(fns, m, l, dep)
  BY <1>1, <1>4 DEF DependsOnFirst
<1>5. CASE Depended(old, PathOf(fns[m]))
  <2>1. new = old BY <1>5
  <2>2. \A j \in 1..m : Depended(old, PathOf(fns[j])) BY <1>2, <1>5 DEF Depends
  <2>3. ASSUME NEW i \in 1..n PROVE \E l \in 1..m : DependsOnFirst(fns, m, l, old[i])
    <3>1. PICK l \in 1..m - 1 : DependsOnFirst(fns, m - 1, l, old[i]) BY DEF Depends
    <3> QED BY <1>1, <1>4, <3>1
  <2> QED BY <2>1, <2>2, <2>3 DEF Depends
<1>6. CASE ~Depended(old, PathOf(fns[m]))
  <2>1. new = Append(old, x) BY <1>6
  <2> HIDE DEF x
  <2>2. x \in T BY DEF x
  <2>3. Len(new) = n + 1 /\ new[n + 1] = x /\ \A i \in 1..n : new[i] = old[i]
    BY <2>1, <2>2, AppendProperties
  <2> HIDE DEF n
  <2>4. \A i \in 1..n + 1 : i \in 1..n \/ i = n + 1 BY <1>1
  <2>5. \A i \in 1..n : old[i].package # x.package BY <1>3, <1>6 DEF Depended, n
  <2>6. ASSUME NEW i \in 1..n + 1, NEW j \in 1..n + 1, new[i].package = new[j].package PROVE i = j
    <3>1. \A a, c \in 1..n : old[a].package = old[c].package => a = c BY DEF Depends, n
    <3> QED BY <2>3, <2>4, <2>5, <2>6, <3>1
  <2>7. ASSUME NEW j \in 1..m PROVE Depended(new, PathOf(fns[j]))
    <3>1. CASE j \in 1..m - 1
      <4>1. PICK i \in 1..n : old[i].package = PathOf(fns[j]) BY <3>1 DEF Depends, Depended, n
      <4>2. i \in 1..n + 1 BY <1>1
      <4> QED BY <2>3, <4>1, <4>2 DEF Depended
    <3>2. CASE j = m
      <4>1. n + 1 \in 1..n + 1 BY <1>1
      <4> QED BY <1>3, <2>3, <3>2, <4>1 DEF Depended
    <3> QED BY <1>2, <3>1, <3>2
  <2>8. ASSUME NEW i \in 1..n + 1 PROVE \E l \in 1..m : DependsOnFirst(fns, m, l, new[i])
    <3>1. CASE i \in 1..n
      <4>1. PICK l \in 1..m - 1 : DependsOnFirst(fns, m - 1, l, old[i]) BY <3>1 DEF Depends, n
      <4> QED BY <1>1, <1>4, <2>3, <3>1, <4>1
    <3>2. CASE i = n + 1
      <4>1. ASSUME NEW j \in 1..m - 1 PROVE PathOf(fns[j]) # x.package
        <5>1. PICK k \in 1..n : old[k].package = PathOf(fns[j]) BY DEF Depends, Depended, n
        <5> QED BY <2>5, <5>1
      <4>2. DependsOnFirst(fns, m, m, x) BY <4>1 DEF DependsOnFirst, x
      <4>3. m \in 1..m OBVIOUS
      <4> QED BY <2>3, <3>2, <4>2, <4>3
    <3> QED BY <2>4, <3>1, <3>2
  <2> QED BY <2>3, <2>6, <2>7, <2>8 DEF Depends
<1> QED BY <1>5, <1>6

LEMMA PackagesDepended ==
    ASSUME NEW b, NEW U, NEW fns \in Seq(U), fns = FunctionList(b)
    PROVE  \A j \in 1..Len(fns) : DependedOnce(DependsOn(b), fns, PathOf(fns[j]))
<1> DEFINE T == {SplitRef(fns[i].package) : i \in 1..Len(fns)}
           n == Len(fns)
<1>1. n \in Nat /\ DOMAIN fns = 1..n BY LenProperties
<1>2. \A i \in 1..n : SplitRef(fns[i].package) \in T OBVIOUS
<1> HIDE DEF T
<1>3. PICK f \in [0..n -> Seq(T)] : DependedAlong(b, fns, f) BY <1>2, DependedFold
<1> DEFINE Fails == {i \in 0..n : ~Depends(fns, i, f[i])}
<1>4. 0 \notin Fails
  <2>1. 1..0 = {} /\ Len(<<>>) = 0 OBVIOUS
  <2>2. Depends(fns, 0, <<>>) BY <2>1 DEF Depends
  <2> QED BY <1>3, <2>2 DEF DependedAlong
<1>5. ASSUME NEW i \in 1..n, i - 1 \notin Fails PROVE i \notin Fails
  <2>1. i - 1 \in 0..n /\ i \in Nat \ {0} BY <1>1
  <2>2. f[i - 1] \in Seq(T)
    <3> HIDE DEF Fails
    <3> QED BY <2>1
  <2>3. Depends(fns, i - 1, f[i - 1]) BY <1>5, <2>1
  <2>4. f[i] = IF Depended(f[i - 1], PathOf(fns[i])) THEN f[i - 1]
               ELSE Append(f[i - 1], SplitRef(fns[i].package))
    BY <1>3 DEF DependedAlong
  <2> HIDE DEF Fails
  <2>5. Depends(fns, i, f[i]) BY <1>2, <2>1, <2>2, <2>3, <2>4, DependsOneMore
  <2> QED BY <2>5 DEF Fails
<1>6. Fails = {}
  <2>1. Fails \subseteq 0..n OBVIOUS
  <2> HIDE DEF Fails, n
  <2> QED BY <1>1, <1>4, <1>5, <2>1, NoneFails
<1>7. n \in 0..n BY <1>1
<1> DEFINE deps == DependsOn(b)
<1>8. Depends(fns, n, deps) /\ DOMAIN deps = 1..Len(deps)
  <2>1. f[n] \in Seq(T)
    <3> HIDE DEF Fails
    <3> QED BY <1>7
  <2>2. Depends(fns, n, f[n]) BY <1>6, <1>7
  <2> QED BY <1>3, <2>1, <2>2, LenProperties DEF DependedAlong
<1> HIDE DEF deps, Fails
<1>9. ASSUME NEW j \in 1..n PROVE DependedOnce(deps, fns, PathOf(fns[j]))
  <2> DEFINE path == PathOf(fns[j])
  <2>1. PICK i \in 1..Len(deps) : deps[i].package = path BY <1>8 DEF Depends, Depended
  <2>2. PICK l \in 1..n : DependsOnFirst(fns, n, l, deps[i]) BY <1>8, <2>1 DEF Depends
  <2>3. {k \in DOMAIN deps : deps[k].package = path} = {i}
    <3>1. \A k \in 1..Len(deps) : deps[k].package = deps[i].package => k = i BY <1>8 DEF Depends
    <3> HIDE DEF path
    <3> QED BY <1>8, <2>1, <3>1
  <2> HIDE DEF path
  <2>4. /\ i \in DOMAIN deps /\ l \in DOMAIN fns
        /\ deps[i] = SplitRef(fns[l].package)
        /\ \A k \in 1..l - 1 : SplitRef(fns[k].package).package # path
    BY <1>1, <1>8, <2>1, <2>2 DEF DependsOnFirst, PathOf
  <2>5. DependedOnce(deps, fns, path) BY <2>3, <2>4 DEF DependedOnce
  <2> QED BY <2>5 DEF path
<1> QED BY <1>9 DEF deps

(* Every step's function is installed, once, with the package the step     *)
(* names, whose path is depended on once: FunctionsDeclared of every       *)
(* valid document (emit.GenerateFunctions, configuration.go).              *)
LEMMA FunctionsAreDeclared ==
    ASSUME NEW b, b.pipeline \in DeclaredPipelines, ValidPipeline(b)
    PROVE  FunctionsDeclared(b)
<1> DEFINE steps == WithEnvironment(b, DeclaredOrDefault(b))
           n == Len(steps)
           fns == FunctionList(b)
           T == {EngineFunction(b)} \cup {FunctionOf(steps[i]) : i \in 1..n}
<1>1. SoundSteps(b, steps) BY EnvironmentSound
<1>2. EffectivePipeline(b) = steps BY <1>1, NothingLost DEF EffectivePipeline
<1> HIDE DEF steps
<1>3. steps \in Seq({steps[i] : i \in DOMAIN steps}) /\ DOMAIN steps = 1..n BY <1>1, NothingLost
<1>4. fns \in Seq(T) /\ Lists(b, steps, n, fns)
  <2> DEFINE U == {steps[i] : i \in DOMAIN steps}
  <2>1. steps \in Seq(U) /\ steps = EffectivePipeline(b) BY <1>2, <1>3
  <2> HIDE DEF U
  <2>2. Lists(b, steps, Len(steps), FunctionList(b)) BY <2>1, Listing
  <2>3. FunctionList(b) \in Seq({EngineFunction(b)} \cup {FunctionOf(steps[i]) : i \in 1..Len(steps)})
    BY <2>1, Listing
  <2> QED BY <2>2, <2>3
<1> HIDE DEF T
<1>5. \A i \in 1..Len(fns) : DependedOnce(DependsOn(b), fns, PathOf(fns[i])) BY <1>4, PackagesDepended
<1> HIDE DEF fns
<1>6. DOMAIN fns = 1..Len(fns) BY <1>4, LenProperties
<1>7. ASSUME NEW j \in 1..n
      PROVE  LET s == steps[j] IN
             /\ Cardinality({i \in DOMAIN fns : fns[i].name = s.functionRef}) = 1
             /\ [name |-> s.functionRef, package |-> s.package] \in Range(fns)
             /\ DependedOnce(DependsOn(b), fns, SplitRef(s.package).package)
  <2>1. PICK i \in 1..Len(fns) : fns[i].name = steps[j].functionRef BY <1>4 DEF Lists
  <2>2. {l \in DOMAIN fns : fns[l].name = steps[j].functionRef} = {i}
    <3>1. \A l \in 1..Len(fns) : fns[l].name = fns[i].name => l = i BY <1>4 DEF Lists
    <3> QED BY <1>6, <2>1, <3>1
  <2>3. Cardinality({i}) = 1 BY FS_Singleton
  <2>4. fns[i] = FunctionOf(steps[j])
    <3>1. steps[j].functionRef # BuiltinFunction(b) BY <1>1, <1>3 DEF SoundSteps
    <3>2. i # 1
      <4>1. fns[1].name = BuiltinFunction(b) BY <1>4 DEF Lists, EngineFunction
      <4> QED BY <2>1, <3>1, <4>1
    <3>3. PICK l \in 1..n : fns[i] = FunctionOf(steps[l]) BY <1>4, <3>2 DEF Lists
    <3>4. steps[l].functionRef = steps[j].functionRef BY <2>1, <3>3 DEF FunctionOf
    <3>5. steps[l].package = steps[j].package BY <1>1, <1>3, <3>4 DEF SoundSteps
    <3> QED BY <3>3, <3>4, <3>5 DEF FunctionOf
  <2>5. FunctionOf(steps[j]) \in Range(fns) BY <1>6, <2>1, <2>4 DEF Range
  <2>6. fns[i].package = steps[j].package BY <2>4 DEF FunctionOf
  <2>7. DependedOnce(DependsOn(b), fns, SplitRef(steps[j].package).package)
    BY <1>5, <2>1, <2>6 DEF PathOf
  <2> QED BY <2>2, <2>3, <2>5, <2>7 DEF FunctionOf
<1>8. \A s \in Range(steps) : \E j \in 1..n : s = steps[j] BY <1>3 DEF Range
<1> HIDE DEF n
<1> QED BY <1>2, <1>7, <1>8 DEF FunctionsDeclared, fns
=============================================================================
