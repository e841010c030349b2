------------------------ MODULE SourceServer_proofs ------------------------
(* Theorems about the source machinery of `cf serve`, for any number of    *)
(* refs, clients and fetches.                                              *)
EXTENDS SourceServer, TLAPS

USE NameAssumption, EnvAssumption DEF NameAssumption, EnvAssumption

(* The types of the fetch variables, the part of TypeOK that the building  *)
(* blocks below preserve.                                                  *)
FetchTypes ==
    /\ loading \in [Refs -> Fetches \cup {NoFetch, Closed}]
    /\ fst \in [Fetches -> FetchStates]
    /\ fref \in [Fetches -> Refs \cup {NoRef}]
    /\ fby \in [Fetches -> Clients \cup {Background, Nobody}]
    /\ \A f \in Fetches : fst[f] # "free" => fref[f] # NoRef

-----------------------------------------------------------------------------
(* The building blocks *)

(* Launching fetches for refs nobody fetches keeps types and markers.      *)
LEMMA LaunchTypes ==
  ASSUME FetchTypes, NEW refs \in SUBSET Refs,
         NEW by \in Clients \cup {Background}, Launch(refs, by)
  PROVE  FetchTypes' /\ {loading'[r] : r \in refs} \subseteq Fetches
<1>1. PICK slot \in [refs -> {f \in Fetches : fst[f] = "free"}] :
        /\ loading' = [r \in Refs |-> IF r \in refs THEN slot[r] ELSE loading[r]]
        /\ LET new == {slot[r] : r \in refs}
               refOf(f) == CHOOSE r \in refs : slot[r] = f
           IN /\ fst' = [f \in Fetches |-> IF f \in new THEN "running" ELSE fst[f]]
              /\ fref' = [f \in Fetches |-> IF f \in new THEN refOf(f) ELSE fref[f]]
              /\ fby' = [f \in Fetches |-> IF f \in new THEN by ELSE fby[f]]
  BY DEF Launch
<1> DEFINE new == {slot[r] : r \in refs}
           refOf(f) == CHOOSE r \in refs : slot[r] = f
<1>2. \A f \in new : refOf(f) \in refs
  OBVIOUS
<1>3. fref' = [f \in Fetches |-> IF f \in new THEN refOf(f) ELSE fref[f]]
  BY <1>1
<1>4. fref' \in [Fetches -> Refs \cup {NoRef}]
  BY <1>2, <1>3 DEF FetchTypes
<1>5. loading' \in [Refs -> Fetches \cup {NoFetch, Closed}]
  BY <1>1 DEF FetchTypes
<1>6. fst' \in [Fetches -> FetchStates]
  BY <1>1 DEF FetchTypes, FetchStates
<1>7. fby' \in [Fetches -> Clients \cup {Background, Nobody}]
  BY <1>1 DEF FetchTypes
<1>8. {loading'[r] : r \in refs} \subseteq Fetches
  BY <1>1
<1>9. \A f \in Fetches : fst'[f] # "free" => fref'[f] # NoRef
  <2>1. fst' = [f \in Fetches |-> IF f \in new THEN "running" ELSE fst[f]]
    BY <1>1
  <2> QED
    BY <1>2, <1>3, <2>1 DEF FetchTypes
<1> QED
  BY <1>4, <1>5, <1>6, <1>7, <1>8, <1>9 DEF FetchTypes

(* A write that returns frees the fetches that ended, and takes back only  *)
(* the markers of those.                                                   *)
LEMMA AbandonTypes ==
  ASSUME FetchTypes, NEW c \in Clients, cown[c] \subseteq Fetches,
         NEW heard, Abandon(c, heard)
  PROVE  FetchTypes'
BY DEF Abandon, Marks, FetchTypes, FetchStates

-----------------------------------------------------------------------------
(* Type correctness *)

FailTypes == [Refs -> {"no", "recent", "due"}]
CallTypes ==
    /\ cst \in [Clients -> CallStates]
    /\ cdoc \in [Clients -> SUBSET Refs]
    /\ corig \in [Clients -> SUBSET Labels]
    /\ cneed \in [Clients -> SUBSET Refs]
    /\ cown \in [Clients -> SUBSET Fetches]
    /\ cwait \in [Clients -> SUBSET Fetches]
DataTypes ==
    /\ doc \subseteq Refs
    /\ cached \subseteq Labels
    /\ providers \subseteq Labels
    /\ index \subseteq Labels
    /\ retained \subseteq Refs
    /\ failed \in FailTypes

LEMMA Types == TypeOK <=> DataTypes /\ FetchTypes /\ CallTypes
BY DEF TypeOK, DataTypes, FetchTypes, CallTypes, FailTypes

LEMMA TriggerTypes ==
  ASSUME TypeOK, NEW b \in SUBSET Refs, Trigger(b)
  PROVE  /\ providers' \subseteq Labels
         /\ index' \subseteq Labels
         /\ failed' \in FailTypes
         /\ FetchTypes'
<1> DEFINE hits == Untried(b) \cap cached
<1>2. Untried(b) \subseteq Refs
  BY DEF Untried
<1>3. /\ providers' = providers \cup hits
      /\ failed' = Failing(hits, "no")
      /\ index' \in IF hits = {} THEN {index} ELSE Rebuilt(providers', cached)
      /\ Launch(Untried(b) \ cached, Background)
  BY DEF Trigger
<1>4. FetchTypes'
  BY <1>2, <1>3, LaunchTypes, Types
<1>5. failed' \in FailTypes
  BY <1>2, <1>3 DEF TypeOK, Failing, FailTypes
<1>6. providers' \subseteq Labels
  BY <1>2, <1>3 DEF TypeOK, Labels
<1>7. index' \subseteq Labels
  BY <1>3, <1>6 DEF TypeOK, Rebuilt
<1> QED
  BY <1>4, <1>5, <1>6, <1>7

LEMMA CommitTypes ==
  ASSUME TypeOK, NEW b \in SUBSET Refs, NEW orig \in SUBSET Labels,
         NEW provs \in SUBSET Labels, NEW fails \in FailTypes,
         NEW incomplete \in BOOLEAN, Commit(b, orig, provs, fails, incomplete)
  PROVE  DataTypes'
<1>2. cached' \subseteq Labels /\ retained' \subseteq Refs
  BY DEF Commit, TypeOK
<1>3. failed' \in FailTypes
  BY DEF Commit, TypeOK, FailTypes
<1>4. doc' \subseteq Refs
  BY DEF Commit, TypeOK
<1>5. providers' \subseteq Labels
  BY DEF Commit, TypeOK
<1>6. index' \subseteq Labels
  BY DEF Commit, TypeOK, Rebuilt
<1> QED
  BY <1>2, <1>3, <1>4, <1>5, <1>6 DEF DataTypes

LEMMA RestingTypes ==
  ASSUME CallTypes, NEW c \in Clients, Resting(c) PROVE CallTypes'
BY DEF CallTypes, Resting, CallStates

LEMMA BeginWriteTypes ==
  ASSUME TypeOK, NEW c \in Clients, NEW b \in SUBSET Refs, BeginWrite(c, b)
  PROVE  TypeOK'
<1> DEFINE missing == b \ providers
           hits == missing \cap cached
           misses == missing \ cached
           new == Unclaimed(misses)
<1>1. /\ Failing(hits, "no") \in FailTypes
      /\ providers \cup hits \subseteq Labels
  BY DEF TypeOK, Failing, FailTypes, Labels
<1>2. CASE misses = {}
  <2>1. /\ Commit(b, providers, providers \cup hits, Failing(hits, "no"), FALSE)
        /\ UNCHANGED <<loading, fetchVars, callVars>>
    BY <1>2 DEF BeginWrite
  <2> HIDE DEF hits
  <2>2. DataTypes'
    BY <1>1, <2>1, CommitTypes DEF TypeOK
  <2> QED
    BY <2>1, <2>2 DEF TypeOK, DataTypes, FailTypes, fetchVars, callVars
<1>3. CASE misses # {}
  <2>1. /\ providers' = providers \cup hits
        /\ failed' = Failing(hits, "no")
        /\ Launch(new, c)
        /\ cst' = [cst EXCEPT ![c] = "syncWait"]
        /\ cdoc' = [cdoc EXCEPT ![c] = b]
        /\ corig' = [corig EXCEPT ![c] = providers]
        /\ cneed' = [cneed EXCEPT ![c] = misses]
        /\ cown' = [cown EXCEPT ![c] = {loading'[r] : r \in new}]
        /\ cwait' = [cwait EXCEPT ![c] = Pending(misses \ new, loading, fst, fby)]
        /\ UNCHANGED <<doc, cached, index, retained>>
    BY <1>3 DEF BeginWrite
  <2>2. DataTypes'
    BY <1>1, <2>1 DEF DataTypes, TypeOK
  <2>3. misses \subseteq Refs /\ new \subseteq Refs
    BY <1>1 DEF Unclaimed
  <2>4. FetchTypes' /\ {loading'[r] : r \in new} \subseteq Fetches
    BY <2>1, <2>3, LaunchTypes, Types
  <2>5. Pending(misses \ new, loading, fst, fby) \subseteq Fetches
    BY DEF Pending
  <2> HIDE DEF misses, new
  <2>6. CallTypes'
    BY <2>1, <2>3, <2>4, <2>5 DEF CallTypes, TypeOK, CallStates
  <2> QED
    BY <2>2, <2>4, <2>6 DEF TypeOK, DataTypes, FetchTypes, CallTypes, FailTypes
<1> QED
  BY <1>2, <1>3

LEMMA ResumeWriteTypes ==
  ASSUME TypeOK, NEW c \in Clients, ResumeWrite(c) PROVE TypeOK'
<1>1. PICK got \in SUBSET {f \in cown[c] : fst[f] # "running"} :
        LET stored == {f \in got : fst[f] = "stored"}
            lost   == cneed[c] \ RefsOf(stored)
        IN /\ Abandon(c, got)
           /\ Commit(cdoc[c], corig[c], providers \cup RefsOf(stored),
                     [r \in Refs |-> IF r \in RefsOf(stored) THEN "no"
                                     ELSE IF r \in lost THEN "recent" ELSE failed[r]],
                     lost # {})
  BY DEF ResumeWrite
<1> DEFINE stored == {f \in got : fst[f] = "stored"}
           lost   == cneed[c] \ RefsOf(stored)
           provs  == providers \cup RefsOf(stored)
           fails  == [r \in Refs |-> IF r \in RefsOf(stored) THEN "no"
                                     ELSE IF r \in lost THEN "recent" ELSE failed[r]]
<1>2. RefsOf(stored) \subseteq Refs
  BY DEF TypeOK, RefsOf
<1>3. cown[c] \subseteq Fetches /\ cneed[c] \subseteq Refs
      /\ cdoc[c] \subseteq Refs /\ corig[c] \subseteq Labels
  BY DEF TypeOK
<1>4. FetchTypes'
  BY <1>1, <1>3, AbandonTypes, Types
<1>5. provs \subseteq Labels
  BY <1>2 DEF TypeOK, Labels
<1>6. fails \in FailTypes
  BY DEF TypeOK, FailTypes
<1>7. Commit(cdoc[c], corig[c], provs, fails, lost # {})
  BY <1>1
<1> HIDE DEF stored, lost, provs, fails
<1>8. DataTypes'
  BY <1>3, <1>5, <1>6, <1>7, CommitTypes
<1>9. CallTypes'
  BY RestingTypes, Types DEF ResumeWrite
<1> QED
  BY <1>4, <1>8, <1>9 DEF TypeOK, DataTypes, FetchTypes, CallTypes, FailTypes

LEMMA BreakWriteTypes ==
  ASSUME TypeOK, NEW c \in Clients, BreakWrite(c) PROVE TypeOK'
<1>1. PICK bad \in cown[c], before \in SUBSET cown[c] :
        /\ fst[bad] = "broken"
        /\ \A f \in before : fst[f] \in {"stored", "failed"}
        /\ Abandon(c, before \cup {bad})
        /\ failed' = [r \in Refs |->
              IF r \notin RefsOf(before) THEN failed[r]
              ELSE IF \E f \in before : fref[f] = r /\ fst[f] = "stored"
                   THEN "no" ELSE "recent"]
  BY DEF BreakWrite
<1>2. cown[c] \subseteq Fetches /\ corig[c] \subseteq Labels
  BY DEF TypeOK
<1>3. FetchTypes'
  BY <1>1, <1>2, AbandonTypes, Types
<1>4. failed' \in FailTypes
  BY <1>1 DEF TypeOK, FailTypes
<1>5. DataTypes'
  BY <1>2, <1>4 DEF BreakWrite, DataTypes, TypeOK
<1>6. CallTypes'
  BY RestingTypes, Types DEF BreakWrite
<1> QED
  BY <1>3, <1>5, <1>6 DEF TypeOK, DataTypes, FetchTypes, CallTypes, FailTypes

LEMMA EndAddTypes ==
  ASSUME TypeOK, NEW r \in Refs, NEW replaced \in Refs \cup {NoRef},
         NEW b \in SUBSET Refs, NEW store \in SUBSET Labels,
         EndAdd(r, replaced, b, store)
  PROVE  DataTypes'
<1>1. (providers \cup {r}) \ {replaced} \subseteq Labels
  BY DEF TypeOK, Labels
<1>2. doc' \subseteq Refs /\ retained' \subseteq Refs
  BY DEF EndAdd, TypeOK
<1>3. cached' \subseteq Labels /\ providers' \subseteq Labels /\ index' \subseteq Labels
  BY <1>1 DEF EndAdd, TypeOK
<1>4. failed' \in FailTypes
  BY DEF EndAdd, TypeOK, FailTypes
<1> QED
  BY <1>2, <1>3, <1>4 DEF DataTypes

LEMMA AddProviderTypes ==
  ASSUME TypeOK, NEW c \in Clients, NEW r \in Refs, NEW replaced \in Refs \cup {NoRef},
         AddProvider(c, r, replaced)
  PROVE  TypeOK'
<1> DEFINE b == (doc \ {replaced}) \cup {r}
<1>1. b \in SUBSET Refs
  BY DEF TypeOK
<1>2. CASE r \in cached
  <2>1. EndAdd(r, replaced, b, cached) /\ UNCHANGED <<loading, fetchVars, callVars>>
    BY <1>2 DEF AddProvider
  <2> HIDE DEF b
  <2>2. DataTypes'
    BY <1>1, <2>1, EndAddTypes DEF TypeOK
  <2> QED
    BY <2>1, <2>2
    DEF TypeOK, DataTypes, FetchTypes, CallTypes, FailTypes, fetchVars, callVars
<1>3. CASE r \notin cached
  <2>1. PICK f \in Fetches : /\ fst' = [fst EXCEPT ![f] = "running"]
                             /\ fref' = [fref EXCEPT ![f] = r]
                             /\ fby' = [fby EXCEPT ![f] = c]
                             /\ cown' = [cown EXCEPT ![c] = {f}]
    BY <1>3 DEF AddProvider
  <2>2. /\ cst' = [cst EXCEPT ![c] = "adding"]
        /\ cdoc' = [cdoc EXCEPT ![c] = b]
        /\ UNCHANGED <<doc, cached, providers, index, retained, failed,
                       loading, corig, cneed, cwait>>
    BY <1>3 DEF AddProvider
  <2> HIDE DEF b
  <2>3. DataTypes'
    BY <2>2, Types DEF DataTypes
  <2>4. FetchTypes'
    BY <2>1, <2>2, Types DEF FetchTypes, FetchStates
  <2>5. CallTypes'
    BY <1>1, <2>1, <2>2, Types DEF CallTypes, CallStates
  <2> QED
    BY <2>3, <2>4, <2>5 DEF TypeOK, DataTypes, FetchTypes, CallTypes, FailTypes
<1> QED
  BY <1>2, <1>3

LEMMA FinishAddTypes ==
  ASSUME TypeOK, NEW c \in Clients, FinishAdd(c) PROVE TypeOK'
<1>1. PICK f \in cown[c], replaced \in Refs \cup {NoRef} :
        /\ doc \ cdoc[c] = {replaced} \ {NoRef}
        /\ IF fst[f] = "stored"
           THEN EndAdd(fref[f], replaced, cdoc[c], cached)
           ELSE UNCHANGED <<doc, cached, providers, index, retained, failed>>
        /\ fst' = [fst EXCEPT ![f] = "free"]
        /\ Freed({f})
  BY DEF FinishAdd
<1>2. /\ f \in Fetches /\ cdoc[c] \in SUBSET Refs /\ cached \in SUBSET Labels
      /\ fst[f] = "stored" => fref[f] \in Refs
  BY DEF TypeOK
<1>3. DataTypes'
  <2>1. CASE fst[f] = "stored"
    <3>1. EndAdd(fref[f], replaced, cdoc[c], cached)
      BY <1>1, <2>1
    <3> QED
      BY <1>2, <2>1, <3>1, EndAddTypes
  <2>2. CASE fst[f] # "stored"
    BY <1>1, <2>2, Types DEF DataTypes
  <2> QED
    BY <2>1, <2>2
<1>4. FetchTypes'
  <2>1. fst' \in [Fetches -> FetchStates] /\ loading' = loading
    BY <1>1 DEF FinishAdd, TypeOK, FetchStates
  <2> QED
    BY <1>1, <2>1, Types DEF FetchTypes, Freed
<1>5. CallTypes'
  BY RestingTypes, Types DEF FinishAdd
<1> QED
  BY <1>3, <1>4, <1>5 DEF TypeOK, DataTypes, FetchTypes, CallTypes, FailTypes

LEMMA RouteTypes ==
  ASSUME TypeOK, NEW c \in Clients PROVE
  /\ \A r \in Labels : DeleteProvider(c, r) => TypeOK'
  /\ SyncCluster(c) => TypeOK'
<1>1. ASSUME NEW r \in Labels, DeleteProvider(c, r) PROVE TypeOK'
  <2>1. doc' \subseteq Refs
    BY <1>1 DEF DeleteProvider, TypeOK
  <2>2. cached' \subseteq Labels /\ providers' \subseteq Labels
        /\ index' \subseteq Labels /\ retained' \subseteq Refs
    BY <1>1 DEF DeleteProvider, TypeOK
  <2>3. failed' \in FailTypes
    BY <1>1 DEF DeleteProvider, TypeOK, FailTypes
  <2>4. loading' \in [Refs -> Fetches \cup {NoFetch, Closed}]
    BY <1>1 DEF DeleteProvider, TypeOK
  <2>5. UNCHANGED <<fetchVars, callVars>>
    BY <1>1 DEF DeleteProvider
  <2> QED
    BY <2>1, <2>2, <2>3, <2>4, <2>5 DEF TypeOK, FailTypes, fetchVars, callVars
<1>2. ASSUME SyncCluster(c) PROVE TypeOK'
  BY <1>2 DEF SyncCluster, TypeOK, Rebuilt, Labels, fetchVars, callVars
<1> QED
  BY <1>1, <1>2

LEMMA FetchTypesKept ==
  ASSUME TypeOK, NEW f \in Fetches, FetchNext(f) PROVE TypeOK'
<1>1. ASSUME NEW o \in {"stored", "failed", "broken"}, FetchReturns(f, o)
      PROVE  TypeOK'
  <2>1. fref[f] \in Refs
    BY <1>1 DEF FetchReturns, TypeOK
  <2>2. cached' \subseteq Labels
    BY <1>1, <2>1 DEF FetchReturns, TypeOK, Labels
  <2>3. cwait' \in [Clients -> SUBSET Fetches]
    BY <1>1 DEF FetchReturns, TypeOK, Released
  <2>4. FetchTypes'
    <3>1. CASE fby[f] = Nobody
      <4>1. /\ fst' = [fst EXCEPT ![f] = "free"]
            /\ fref' = [g \in Fetches |-> IF g \in {f} THEN NoRef ELSE fref[g]]
            /\ fby' = [g \in Fetches |-> IF g \in {f} THEN Nobody ELSE fby[g]]
            /\ loading' = Marks({}, {f})
        BY <1>1, <3>1 DEF FetchReturns, Freed
      <4>2. loading' \in [Refs -> Fetches \cup {NoFetch, Closed}]
        BY <4>1 DEF Marks, TypeOK
      <4>3. fst' \in [Fetches -> FetchStates]
        BY <4>1 DEF TypeOK, FetchStates
      <4> QED
        BY <4>1, <4>2, <4>3 DEF TypeOK, FetchTypes
    <3>2. CASE fby[f] # Nobody
      BY <1>1, <2>1, <3>2 DEF FetchReturns, TypeOK, FetchTypes, FetchStates
    <3> QED
      BY <3>1, <3>2
  <2>5. UNCHANGED <<doc, providers, index, retained, failed,
                    cst, cdoc, corig, cneed, cown>>
    BY <1>1 DEF FetchReturns
  <2> QED
    BY <2>2, <2>3, <2>4, <2>5 DEF TypeOK, FetchTypes
<1>2. ASSUME BackgroundReports(f) PROVE TypeOK'
  <2>1. fref[f] \in Refs
    BY <1>2 DEF BackgroundReports, TypeOK
  <2>2. providers' \subseteq Labels
    BY <1>2, <2>1 DEF BackgroundReports, TypeOK, Labels
  <2>3. index' \subseteq Labels
    BY <1>2, <2>2 DEF BackgroundReports, TypeOK, Rebuilt
  <2>4. failed' \in FailTypes
    BY <1>2 DEF BackgroundReports, TypeOK, FailTypes
  <2>5. cwait' \in [Clients -> SUBSET Fetches]
    BY <1>2 DEF BackgroundReports, TypeOK, Released
  <2>6. FetchTypes'
    BY <1>2 DEF BackgroundReports, TypeOK, FetchTypes, Freed, Marks, FetchStates
  <2>7. UNCHANGED <<doc, cached, retained, cst, cdoc, corig, cneed, cown>>
    BY <1>2 DEF BackgroundReports
  <2> QED
    BY <2>2, <2>3, <2>4, <2>5, <2>6, <2>7 DEF TypeOK, FetchTypes, FailTypes
<1> QED
  BY <1>1, <1>2 DEF FetchNext

LEMMA TypeStep == TypeOK /\ [Next]_vars => TypeOK'
<1> SUFFICES ASSUME TypeOK, [Next]_vars PROVE TypeOK'
  OBVIOUS
<1>1. ASSUME NEW c \in Clients, Poll(c) PROVE TypeOK'
  BY <1>1, TriggerTypes DEF Poll, TypeOK, FetchTypes, FailTypes, callVars
<1>2. ASSUME NEW c \in Clients, GenerateRead(c) PROVE TypeOK'
  BY <1>2 DEF GenerateRead, TypeOK, CallStates, fetchVars
<1>3. ASSUME NEW c \in Clients, GenerateTrigger(c) PROVE TypeOK'
  <2>1. cdoc[c] \in SUBSET Refs /\ Trigger(cdoc[c])
    BY <1>3 DEF GenerateTrigger, TypeOK
  <2>2. Pending(cdoc[c], loading', fst', fby') \subseteq Fetches
    BY DEF Pending
  <2>3. cst' \in [Clients -> CallStates] /\ cwait' \in [Clients -> SUBSET Fetches]
    BY <1>3, <2>2 DEF GenerateTrigger, TypeOK, CallStates
  <2>4. UNCHANGED <<doc, cached, retained, cdoc, corig, cneed, cown>>
    BY <1>3 DEF GenerateTrigger
  <2> QED
    BY <2>1, <2>3, <2>4, TriggerTypes DEF TypeOK, FetchTypes, FailTypes
<1>4. ASSUME NEW c \in Clients, GenerateAnswer(c) PROVE TypeOK'
  BY <1>4, RestingTypes DEF GenerateAnswer, TypeOK, CallTypes, fetchVars
<1>5. ASSUME NEW r \in Refs, RetryDue(r) PROVE TypeOK'
  BY <1>5 DEF RetryDue, TypeOK, fetchVars, callVars
<1>6. ASSUME NEW c \in Clients, Put(c) PROVE TypeOK'
  BY <1>6, BeginWriteTypes DEF Put
<1>7. ASSUME NEW c \in Clients, Mutate(c) PROVE TypeOK'
  BY <1>7, BeginWriteTypes DEF Mutate, TypeOK
<1>8. CASE UNCHANGED vars
  BY <1>8 DEF vars, fetchVars, callVars, TypeOK
<1> QED
  BY <1>1, <1>2, <1>3, <1>4, <1>5, <1>6, <1>7, <1>8, ResumeWriteTypes,
     BreakWriteTypes, AddProviderTypes, FinishAddTypes, RouteTypes, FetchTypesKept
  DEF Next, Request, CallNext

(* Type correctness of the server, whatever the clients call: no cluster   *)
(* label among the document's sources, no fetch without a ref.             *)
THEOREM ServerTypeCorrect == Spec => []TypeOK
<1>1. Init => TypeOK
  <2> SUFFICES ASSUME Init PROVE TypeOK
    OBVIOUS
  <2>1. doc \subseteq Refs /\ cached \subseteq Refs
    BY DEF Init
  <2> QED
    BY <2>1 DEF Init, TypeOK, Labels, FetchStates, CallStates
<1> QED
  BY <1>1, TypeStep, PTL DEF Spec

-----------------------------------------------------------------------------
(* Who listens to a fetch *)

(* A fetch and the call that launched it know each other; one request at a *)
(* time is under way in POST /api/providers, with one fetch of its own.    *)
Listening ==
    /\ \A f \in Fetches : fby[f] \in Clients => f \in cown[fby[f]]
    /\ \A c \in Clients : \A f \in cown[c] : Live(f) /\ fby[f] = c
    /\ \A c \in Clients : cst[c] \notin {"syncWait", "adding"} => cown[c] = {}
    /\ \A c \in Clients : cst[c] = "adding" => \E f \in Fetches : cown[c] = {f}
    /\ \A c, d \in Clients : cst[c] = "adding" /\ cst[d] = "adding" => c = d

(* A fetch that goes on remains an add's, or remains none.                 *)
AddsKept == \A f \in Fetches : Live(f) /\ Live(f)' => (OfAdd(f)' <=> OfAdd(f))

(* What Launch does to each fetch: nothing, or it fills a free slot.       *)
LEMMA LaunchFrame ==
  ASSUME FetchTypes, NEW refs \in SUBSET Refs, NEW by, Launch(refs, by)
  PROVE  /\ \A f \in Fetches :
              \/ fst'[f] = fst[f] /\ fref'[f] = fref[f] /\ fby'[f] = fby[f]
              \/ /\ fst[f] = "free" /\ fst'[f] = "running" /\ fby'[f] = by
                 /\ \E r \in refs : loading'[r] = f
         /\ \A r \in refs : /\ loading'[r] \in Fetches
                            /\ fst'[loading'[r]] = "running" /\ fby'[loading'[r]] = by
<1>1. PICK slot \in [refs -> {f \in Fetches : fst[f] = "free"}] :
        /\ loading' = [r \in Refs |-> IF r \in refs THEN slot[r] ELSE loading[r]]
        /\ LET new == {slot[r] : r \in refs}
               refOf(f) == CHOOSE r \in refs : slot[r] = f
           IN /\ fst' = [f \in Fetches |-> IF f \in new THEN "running" ELSE fst[f]]
              /\ fref' = [f \in Fetches |-> IF f \in new THEN refOf(f) ELSE fref[f]]
              /\ fby' = [f \in Fetches |-> IF f \in new THEN by ELSE fby[f]]
  BY DEF Launch
<1> DEFINE new == {slot[r] : r \in refs}
           refOf(f) == CHOOSE r \in refs : slot[r] = f
<1>2. /\ fst' = [f \in Fetches |-> IF f \in new THEN "running" ELSE fst[f]]
      /\ fref' = [f \in Fetches |-> IF f \in new THEN refOf(f) ELSE fref[f]]
      /\ fby' = [f \in Fetches |-> IF f \in new THEN by ELSE fby[f]]
  BY <1>1
<1>3. \A r \in refs : slot[r] \in new /\ slot[r] \in Fetches /\ loading'[r] = slot[r]
  BY <1>1
<1>4. \A f \in new : fst[f] = "free" /\ \E r \in refs : slot[r] = f
  OBVIOUS
<1> HIDE DEF new, refOf
<1> QED
  BY <1>2, <1>3, <1>4

(* Background loading launches nothing for a call.                         *)
LEMMA TriggerListening ==
  ASSUME TypeOK, Listening, NEW b \in SUBSET Refs, Trigger(b), cown' = cown,
         \A c \in Clients : \/ cst'[c] = cst[c]
                            \/ cst[c] = "genRead" /\ cst'[c] = "genWait"
  PROVE  Listening' /\ AddsKept
<1>1. Launch(Untried(b) \ cached, Background) /\ Untried(b) \ cached \in SUBSET Refs
  BY DEF Trigger, Untried
<1>2. \A f \in Fetches :
         \/ fst'[f] = fst[f] /\ fby'[f] = fby[f]
         \/ fst[f] = "free" /\ fst'[f] = "running" /\ fby'[f] = Background
  BY <1>1, LaunchFrame, Types
<1>3. Listening'
  BY <1>2 DEF Listening, Live, TypeOK
<1> QED
  BY <1>2, <1>3 DEF AddsKept, OfAdd, Live, TypeOK

LEMMA BeginWriteListening ==
  ASSUME TypeOK, Listening, NEW c \in Clients, NEW b \in SUBSET Refs,
         cst[c] = "idle", BeginWrite(c, b)
  PROVE  Listening' /\ AddsKept
<1> DEFINE misses == (b \ providers) \ cached
           new == Unclaimed(misses)
<1>1. CASE misses = {}
  BY <1>1 DEF BeginWrite, Listening, AddsKept, OfAdd, Live, fetchVars, callVars
<1>2. CASE misses # {}
  <2>1. /\ Launch(new, c)
        /\ cst' = [cst EXCEPT ![c] = "syncWait"]
        /\ cown' = [cown EXCEPT ![c] = {loading'[r] : r \in new}]
    BY <1>2 DEF BeginWrite
  <2>2. new \in SUBSET Refs
    BY DEF Unclaimed
  <2> HIDE DEF misses, new
  <2>3. /\ \A f \in Fetches :
              \/ fst'[f] = fst[f] /\ fby'[f] = fby[f]
              \/ /\ fst[f] = "free" /\ fst'[f] = "running" /\ fby'[f] = c
                 /\ \E r \in new : loading'[r] = f
        /\ \A r \in new : /\ loading'[r] \in Fetches
                          /\ fst'[loading'[r]] = "running" /\ fby'[loading'[r]] = c
    BY <2>1, <2>2, LaunchFrame, Types
  <2>4. /\ cst'[c] = "syncWait" /\ cown'[c] = {loading'[r] : r \in new}
        /\ \A d \in Clients \ {c} : cst'[d] = cst[d] /\ cown'[d] = cown[d]
    BY <2>1 DEF TypeOK
  <2>5. \A f \in Fetches : fby[f] # c
    BY DEF Listening
  <2>6. \A f \in Fetches : fby'[f] \in Clients => f \in cown'[fby'[f]]
    <3> SUFFICES ASSUME NEW f \in Fetches, fby'[f] \in Clients
                 PROVE  f \in cown'[fby'[f]]
      OBVIOUS
    <3>1. CASE fby'[f] = fby[f]
      BY <2>4, <2>5, <3>1 DEF Listening
    <3>2. CASE fby'[f] = c /\ \E r \in new : loading'[r] = f
      BY <2>4, <3>2
    <3> QED
      BY <2>3, <3>1, <3>2
  <2>7. \A d \in Clients : \A f \in cown'[d] : Live(f)' /\ fby'[f] = d
    <3> SUFFICES ASSUME NEW d \in Clients, NEW f \in cown'[d]
                 PROVE  fst'[f] # "free" /\ fby'[f] = d
      BY DEF Live
    <3>1. CASE d = c
      BY <2>3, <2>4, <3>1
    <3>2. CASE d # c
      <4>1. f \in cown[d] /\ f \in Fetches
        BY <2>4, <3>2 DEF TypeOK
      <4> QED
        BY <2>3, <4>1 DEF Listening, Live
    <3> QED
      BY <3>1, <3>2
  <2>8. Listening'
    BY <2>4, <2>6, <2>7 DEF Listening
  <2> QED
    BY <2>3, <2>4, <2>5, <2>8 DEF AddsKept, OfAdd, Live
<1> QED
  BY <1>1, <1>2

LEMMA FetchListening ==
  ASSUME TypeOK, Listening, NEW f \in Fetches, FetchNext(f)
  PROVE  Listening' /\ AddsKept
<1>1. cst' = cst /\ cown' = cown
  BY DEF FetchNext, FetchReturns, BackgroundReports
<1>2. fst[f] # "free"
  BY DEF FetchNext, FetchReturns, BackgroundReports
<1>3. \/ fby' = fby /\ fst'[f] # "free"
      \/ /\ fby[f] \in {Nobody, Background} /\ fby'[f] = Nobody /\ fst'[f] = "free"
         /\ \A g \in Fetches \ {f} : fby'[g] = fby[g]
  <2>1. ASSUME NEW o \in {"stored", "failed", "broken"}, FetchReturns(f, o),
               fby[f] # Nobody
        PROVE  fby' = fby /\ fst'[f] # "free"
    BY <2>1 DEF FetchReturns, TypeOK
  <2>2. ASSUME NEW o \in {"stored", "failed", "broken"}, FetchReturns(f, o),
               fby[f] = Nobody
        PROVE  /\ fby'[f] = Nobody /\ fst'[f] = "free"
               /\ \A g \in Fetches \ {f} : fby'[g] = fby[g]
    <3>1. /\ fst' = [fst EXCEPT ![f] = "free"]
          /\ fby' = [g \in Fetches |-> IF g \in {f} THEN Nobody ELSE fby[g]]
      BY <2>2 DEF FetchReturns, Freed
    <3> QED
      BY <3>1 DEF TypeOK
  <2>3. ASSUME BackgroundReports(f)
        PROVE  /\ fby[f] = Background /\ fby'[f] = Nobody /\ fst'[f] = "free"
               /\ \A g \in Fetches \ {f} : fby'[g] = fby[g]
    BY <2>3 DEF BackgroundReports, Freed, TypeOK
  <2> QED
    BY <2>1, <2>2, <2>3 DEF FetchNext
<1>4. \A g \in Fetches \ {f} : fst'[g] = fst[g]
  BY DEF FetchNext, FetchReturns, BackgroundReports, TypeOK
<1>5. Listening'
  BY <1>1, <1>2, <1>3, <1>4 DEF Listening, Live, TypeOK
<1> QED
  BY <1>1, <1>2, <1>3, <1>4, <1>5 DEF AddsKept, OfAdd, Live

(* A call that returns has nothing left.                                   *)
LEMMA RestingCall ==
  ASSUME TypeOK, NEW c \in Clients, Resting(c)
  PROVE  /\ cst'[c] = "idle" /\ cown'[c] = {} /\ cwait'[c] = {}
         /\ \A d \in Clients \ {c} : /\ cst'[d] = cst[d] /\ cdoc'[d] = cdoc[d]
                                     /\ cown'[d] = cown[d] /\ cwait'[d] = cwait[d]
BY DEF Resting, TypeOK

LEMMA AbandonListening ==
  ASSUME TypeOK, Listening, NEW c \in Clients, cst[c] = "syncWait", NEW heard,
         Abandon(c, heard), Resting(c)
  PROVE  Listening' /\ AddsKept
<1>1. /\ \A f \in Fetches \ cown[c] : fst'[f] = fst[f] /\ fby'[f] = fby[f]
      /\ \A f \in cown[c] : fby'[f] = Nobody
  BY DEF Abandon, TypeOK
<1>2. /\ cst'[c] = "idle" /\ cown'[c] = {}
      /\ \A d \in Clients \ {c} : cst'[d] = cst[d] /\ cown'[d] = cown[d]
  BY RestingCall
<1>3. \A d \in Clients \ {c} : \A f \in cown[d] : f \in Fetches \ cown[c]
  BY DEF Listening, TypeOK
<1>4. \A f \in Fetches \ cown[c] : fby[f] # c
  BY DEF Listening
<1>5. Listening'
  BY <1>1, <1>2, <1>3, <1>4 DEF Listening, Live
<1> QED
  BY <1>1, <1>2, <1>4, <1>5 DEF AddsKept, OfAdd, Live, Listening

LEMMA AddListening ==
  ASSUME TypeOK, Listening, NEW c \in Clients, NEW r \in Refs,
         NEW replaced \in Refs \cup {NoRef}, AddProvider(c, r, replaced)
  PROVE  Listening' /\ AddsKept
<1>1. CASE r \in cached
  BY <1>1 DEF AddProvider, Listening, AddsKept, OfAdd, Live, fetchVars, callVars
<1>2. CASE r \notin cached
  <2>1. PICK f \in Fetches : /\ fst[f] = "free"
                             /\ fst' = [fst EXCEPT ![f] = "running"]
                             /\ fby' = [fby EXCEPT ![f] = c]
                             /\ cown' = [cown EXCEPT ![c] = {f}]
    BY <1>2 DEF AddProvider
  <2>2. /\ cst[c] = "idle" /\ cst' = [cst EXCEPT ![c] = "adding"]
        /\ \A d \in Clients : cst[d] # "adding"
    BY <1>2 DEF AddProvider, MutexFree
  <2>3. /\ fst'[f] = "running" /\ fby'[f] = c /\ cown'[c] = {f} /\ cst'[c] = "adding"
        /\ \A g \in Fetches \ {f} : fst'[g] = fst[g] /\ fby'[g] = fby[g]
        /\ \A d \in Clients \ {c} : cst'[d] = cst[d] /\ cown'[d] = cown[d]
    BY <2>1, <2>2 DEF TypeOK
  <2>4. \A g \in Fetches : fby[g] # c
    BY <2>2 DEF Listening
  <2>5. \A d \in Clients : \A g \in cown[d] : g \in Fetches \ {f}
    BY <2>1 DEF Listening, Live, TypeOK
  <2>6. Listening'
    BY <2>2, <2>3, <2>4, <2>5 DEF Listening, Live
  <2> QED
    BY <2>1, <2>3, <2>4, <2>6 DEF AddsKept, OfAdd, Live
<1> QED
  BY <1>1, <1>2

(* The fetch an add made is freed, and nothing else.                       *)
LEMMA FinishFrame ==
  ASSUME TypeOK, Listening, NEW c \in Clients, FinishAdd(c)
  PROVE  /\ Resting(c) /\ loading' = loading
         /\ \E f \in Fetches :
              /\ cown[c] = {f} /\ OfAdd(f)
              /\ fst'[f] = "free" /\ fref'[f] = NoRef /\ fby'[f] = Nobody
              /\ \A g \in Fetches \ {f} :
                    fst'[g] = fst[g] /\ fref'[g] = fref[g] /\ fby'[g] = fby[g]
<1>1. PICK f \in cown[c] : fst' = [fst EXCEPT ![f] = "free"] /\ Freed({f})
  BY DEF FinishAdd
<1>2. f \in Fetches /\ cown[c] = {f} /\ OfAdd(f)
  BY DEF FinishAdd, Listening, OfAdd, TypeOK
<1>3. /\ fst'[f] = "free" /\ fref'[f] = NoRef /\ fby'[f] = Nobody
      /\ \A g \in Fetches \ {f} :
            fst'[g] = fst[g] /\ fref'[g] = fref[g] /\ fby'[g] = fby[g]
  BY <1>1, <1>2 DEF Freed, TypeOK
<1> QED
  BY <1>2, <1>3 DEF FinishAdd

LEMMA FinishListening ==
  ASSUME TypeOK, Listening, NEW c \in Clients, FinishAdd(c)
  PROVE  Listening' /\ AddsKept
<1>1. PICK f \in Fetches :
        /\ cown[c] = {f}
        /\ fst'[f] = "free" /\ fby'[f] = Nobody
        /\ \A g \in Fetches \ {f} : fst'[g] = fst[g] /\ fby'[g] = fby[g]
  BY FinishFrame
<1>2. /\ cst'[c] = "idle" /\ cown'[c] = {}
      /\ \A d \in Clients \ {c} : cst'[d] = cst[d] /\ cown'[d] = cown[d]
  BY FinishFrame, RestingCall
<1>3. \A d \in Clients \ {c} : \A g \in cown[d] : g \in Fetches \ {f}
  BY <1>1 DEF Listening, TypeOK
<1>4. \A g \in Fetches \ {f} : fby[g] # c
  BY <1>1 DEF Listening
<1>5. Listening'
  BY <1>1, <1>2, <1>3, <1>4 DEF Listening, Live
<1> QED
  BY <1>1, <1>2, <1>4, <1>5 DEF AddsKept, OfAdd, Live

LEMMA ListeningStep ==
  ASSUME TypeOK, Listening, [Next]_vars PROVE Listening' /\ AddsKept
<1> DEFINE Kept == UNCHANGED <<fst, fby, cst, cown>>
<1>0. ASSUME Kept PROVE Listening' /\ AddsKept
  BY <1>0 DEF Listening, AddsKept, OfAdd, Live
<1>1. ASSUME NEW c \in Clients, Poll(c) PROVE Listening' /\ AddsKept
  BY <1>1, TriggerListening DEF Poll, TypeOK, callVars
<1>2. ASSUME NEW c \in Clients, GenerateTrigger(c) PROVE Listening' /\ AddsKept
  BY <1>2, TriggerListening DEF GenerateTrigger, TypeOK
<1>3. ASSUME NEW c \in Clients, GenerateRead(c) PROVE Listening' /\ AddsKept
  <2>1. /\ cst[c] = "idle" /\ cst' = [cst EXCEPT ![c] = "genRead"]
        /\ UNCHANGED <<fst, fby, cown>>
    BY <1>3 DEF GenerateRead, fetchVars
  <2> QED
    BY <2>1 DEF Listening, AddsKept, OfAdd, Live, TypeOK
<1>4. ASSUME NEW c \in Clients, GenerateAnswer(c) PROVE Listening' /\ AddsKept
  <2>1. cst[c] = "genWait" /\ Resting(c) /\ UNCHANGED <<fst, fby>>
    BY <1>4 DEF GenerateAnswer, fetchVars
  <2> QED
    BY <2>1, RestingCall DEF Listening, AddsKept, OfAdd, Live
<1>5. ASSUME NEW c \in Clients, Put(c) PROVE Listening' /\ AddsKept
  BY <1>5, BeginWriteListening DEF Put
<1>6. ASSUME NEW c \in Clients, Mutate(c) PROVE Listening' /\ AddsKept
  BY <1>6, BeginWriteListening DEF Mutate, TypeOK
<1>7. ASSUME NEW c \in Clients, ResumeWrite(c) \/ BreakWrite(c)
      PROVE  Listening' /\ AddsKept
  <2>1. PICK heard : Abandon(c, heard)
    BY <1>7 DEF ResumeWrite, BreakWrite
  <2>2. cst[c] = "syncWait" /\ Resting(c)
    BY <1>7 DEF ResumeWrite, BreakWrite
  <2> QED
    BY <2>1, <2>2, AbandonListening
<1>8. ASSUME NEW c \in Clients, NEW r \in Labels, DeleteProvider(c, r) PROVE Kept
  BY <1>8 DEF DeleteProvider, fetchVars, callVars
<1>9. ASSUME NEW c \in Clients, SyncCluster(c) PROVE Kept
  BY <1>9 DEF SyncCluster, fetchVars, callVars
<1>10. ASSUME NEW r \in Refs, RetryDue(r) PROVE Kept
  BY <1>10 DEF RetryDue, fetchVars, callVars
<1>11. ASSUME UNCHANGED vars PROVE Kept
  BY <1>11 DEF vars, fetchVars, callVars
<1> HIDE DEF Kept
<1> QED
  BY <1>0, <1>1, <1>2, <1>3, <1>4, <1>5, <1>6, <1>7, <1>8, <1>9, <1>10, <1>11,
     FetchListening, AddListening, FinishListening
  DEF Next, Request, CallNext

LEMMA AlwaysListening == Spec => []Listening
<1>1. Init => Listening
  BY DEF Init, Listening
<1>2. TypeOK /\ Listening /\ [Next]_vars => Listening'
  BY ListeningStep
<1> QED
  BY <1>1, <1>2, ServerTypeCorrect, PTL DEF Spec

-----------------------------------------------------------------------------
(* One fetch per ref *)

LEMMA LaunchGuards ==
  ASSUME FetchTypes, MarkerGuards, NEW refs \in SUBSET Refs, NEW by,
         \A r \in refs : loading[r] = NoFetch, Launch(refs, by), AddsKept
  PROVE  MarkerGuards'
<1>1. PICK slot \in [refs -> {f \in Fetches : fst[f] = "free"}] :
        /\ \A r, s \in refs : slot[r] = slot[s] => r = s
        /\ loading' = [r \in Refs |-> IF r \in refs THEN slot[r] ELSE loading[r]]
        /\ LET new == {slot[r] : r \in refs}
               refOf(f) == CHOOSE r \in refs : slot[r] = f
           IN /\ fst' = [f \in Fetches |-> IF f \in new THEN "running" ELSE fst[f]]
              /\ fref' = [f \in Fetches |-> IF f \in new THEN refOf(f) ELSE fref[f]]
  BY DEF Launch
<1> DEFINE new == {slot[r] : r \in refs}
           refOf(f) == CHOOSE r \in refs : slot[r] = f
<1>2. \A f \in new : refOf(f) \in refs /\ slot[refOf(f)] = f
  OBVIOUS
<1>3. /\ fst' = [f \in Fetches |-> IF f \in new THEN "running" ELSE fst[f]]
      /\ fref' = [f \in Fetches |-> IF f \in new THEN refOf(f) ELSE fref[f]]
  BY <1>1
<1> HIDE DEF new, refOf
<1> SUFFICES ASSUME NEW f \in Fetches
             PROVE  IF Live(f)'
                    THEN fref'[f] \in Refs /\ (OfAdd(f)' \/ loading'[fref'[f]] = f)
                    ELSE fref'[f] = NoRef
  BY DEF MarkerGuards
<1>4. CASE f \in new
  <2>1. fref'[f] = refOf(f) /\ fst'[f] = "running"
    BY <1>3, <1>4
  <2>2. refOf(f) \in Refs /\ loading'[refOf(f)] = f
    BY <1>1, <1>2, <1>4
  <2> QED
    BY <2>1, <2>2 DEF Live
<1>5. CASE f \notin new
  <2>1. fref'[f] = fref[f] /\ fst'[f] = fst[f]
    BY <1>3, <1>5
  <2>2. CASE Live(f)
    <3>1. Live(f)' /\ fref[f] \in Refs
      BY <2>1, <2>2 DEF MarkerGuards, Live
    <3>2. CASE OfAdd(f)
      BY <2>1, <2>2, <3>1, <3>2 DEF AddsKept
    <3>3. CASE loading[fref[f]] = f
      <4>1. fref[f] \notin refs
        BY <3>3
      <4>2. loading'[fref[f]] = f
        BY <1>1, <3>1, <3>3, <4>1
      <4> QED
        BY <2>1, <3>1, <4>2
    <3> QED
      BY <2>2, <3>2, <3>3 DEF MarkerGuards
  <2>3. CASE ~Live(f)
    BY <2>1, <2>3 DEF MarkerGuards, Live
  <2> QED
    BY <2>2, <2>3
<1> QED
  BY <1>4, <1>5

LEMMA AbandonGuards ==
  ASSUME TypeOK, Listening, MarkerGuards, AddsKept, NEW c \in Clients,
         cst[c] = "syncWait",
         NEW heard \in SUBSET {f \in cown[c] : fst[f] # "running"},
         Abandon(c, heard)
  PROVE  MarkerGuards'
<1> DEFINE done == {f \in cown[c] : fst[f] # "running"}
<1>1. /\ loading' = Marks(RefsOf(heard), done)
      /\ fst' = [f \in Fetches |-> IF f \in done THEN "free" ELSE fst[f]]
      /\ fref' = [f \in Fetches |-> IF f \in done THEN NoRef ELSE fref[f]]
  BY DEF Abandon
<1>2. heard \subseteq done /\ heard \subseteq cown[c] /\ done \subseteq Fetches
  BY DEF TypeOK
<1> HIDE DEF done
<1> SUFFICES ASSUME NEW f \in Fetches
             PROVE  IF Live(f)'
                    THEN fref'[f] \in Refs /\ (OfAdd(f)' \/ loading'[fref'[f]] = f)
                    ELSE fref'[f] = NoRef
  BY DEF MarkerGuards
<1>3. CASE f \in done
  BY <1>1, <1>3 DEF Live
<1>4. CASE f \notin done /\ ~Live(f)
  BY <1>1, <1>4 DEF Live, MarkerGuards
<1>5. CASE f \notin done /\ Live(f)
  <2>1. Live(f)' /\ fref'[f] = fref[f] /\ fref[f] \in Refs
    BY <1>1, <1>5 DEF MarkerGuards, Live
  <2>2. CASE OfAdd(f)
    BY <1>5, <2>1, <2>2 DEF AddsKept
  <2>3. CASE loading[fref[f]] = f
    <3>1. fref[f] \notin RefsOf(heard)
      <4>1. ASSUME NEW h \in heard, fref[h] = fref[f] PROVE FALSE
        <5>1. h \in Fetches /\ h # f /\ h \in cown[c]
          BY <1>2, <1>5
        <5>2. Live(h) /\ ~OfAdd(h)
          BY <5>1 DEF Listening, OfAdd
        <5> QED
          BY <2>1, <2>3, <4>1, <5>1, <5>2 DEF MarkerGuards
      <4> QED
        BY <4>1 DEF RefsOf
    <3>2. loading'[fref[f]] = f
      BY <1>1, <1>5, <2>1, <2>3, <3>1 DEF Marks
    <3> QED
      BY <2>1, <3>2
  <2> QED
    BY <1>5, <2>2, <2>3 DEF MarkerGuards
<1> QED
  BY <1>3, <1>4, <1>5

LEMMA TriggerGuards ==
  ASSUME TypeOK, MarkerGuards, NEW b \in SUBSET Refs, Trigger(b), AddsKept
  PROVE  MarkerGuards'
<1>1. Untried(b) \ cached \in SUBSET Refs
      /\ \A r \in Untried(b) \ cached : loading[r] = NoFetch
  BY DEF Untried
<1> QED
  BY <1>1, LaunchGuards, Types DEF Trigger

LEMMA BeginWriteGuards ==
  ASSUME TypeOK, MarkerGuards, NEW c \in Clients, NEW b \in SUBSET Refs,
         BeginWrite(c, b), AddsKept
  PROVE  MarkerGuards'
<1> DEFINE misses == (b \ providers) \ cached
<1>1. Unclaimed(misses) \in SUBSET Refs /\ \A r \in Unclaimed(misses) : loading[r] = NoFetch
  BY DEF Unclaimed
<1>2. CASE misses = {}
  <2>1. UNCHANGED <<loading, fst, fref, fby, cst>>
    BY <1>2 DEF BeginWrite, fetchVars, callVars
  <2> QED
    BY <2>1 DEF MarkerGuards, OfAdd, Live
<1>3. CASE misses # {}
  <2>1. Launch(Unclaimed(misses), c)
    BY <1>3 DEF BeginWrite
  <2> QED
    BY <1>1, <2>1, LaunchGuards, Types
<1> QED
  BY <1>2, <1>3

LEMMA FetchGuards ==
  ASSUME TypeOK, MarkerGuards, NEW f \in Fetches, FetchNext(f), AddsKept
  PROVE  MarkerGuards'
<1>1. Live(f) /\ fref[f] \in Refs
  BY DEF FetchNext, FetchReturns, BackgroundReports, MarkerGuards, Live
<1>2. /\ \A g \in Fetches \ {f} : fst'[g] = fst[g] /\ fref'[g] = fref[g]
      /\ fst'[f] # "free" => fref'[f] = fref[f]
      /\ fst'[f] = "free" => fref'[f] = NoRef
  <2>1. ASSUME NEW o \in {"stored", "failed", "broken"}, FetchReturns(f, o)
        PROVE  \/ fst' = [fst EXCEPT ![f] = o] /\ fref' = fref
               \/ /\ fst' = [fst EXCEPT ![f] = "free"]
                  /\ fref' = [g \in Fetches |-> IF g \in {f} THEN NoRef ELSE fref[g]]
    BY <2>1 DEF FetchReturns, Freed
  <2>2. ASSUME BackgroundReports(f)
        PROVE  /\ fst' = [fst EXCEPT ![f] = "free"]
               /\ fref' = [g \in Fetches |-> IF g \in {f} THEN NoRef ELSE fref[g]]
    BY <2>2 DEF BackgroundReports, Freed
  <2> QED
    BY <2>1, <2>2 DEF FetchNext, TypeOK
<1>3. ASSUME NEW g \in Fetches, Live(g)', ~OfAdd(g), loading[fref[g]] = g
      PROVE  loading'[fref[g]] = g
  <2>1. Live(g) /\ fref[g] \in Refs
    BY <1>1, <1>2, <1>3 DEF MarkerGuards, Live
  <2>2. CASE \E o \in {"stored", "failed", "broken"} : FetchReturns(f, o)
    <3>1. loading' = loading \/ (loading' = Marks({}, {f}) /\ fst'[f] = "free")
      BY <2>2 DEF FetchReturns, TypeOK
    <3> QED
      BY <1>3, <2>1, <3>1 DEF Marks, Live
  <2>3. CASE BackgroundReports(f)
    <3>1. loading' = Marks({fref[f]}, {}) /\ fby[f] = Background /\ fst'[f] = "free"
      BY <2>3 DEF BackgroundReports, TypeOK
    <3>2. ~OfAdd(f) /\ loading[fref[f]] = f
      BY <1>1, <3>1 DEF MarkerGuards, OfAdd
    <3>3. g # f
      BY <1>3, <3>1 DEF Live
    <3> QED
      BY <1>3, <2>1, <3>1, <3>2, <3>3 DEF Marks
  <2> QED
    BY <2>2, <2>3 DEF FetchNext
<1> SUFFICES ASSUME NEW g \in Fetches
             PROVE  IF Live(g)'
                    THEN fref'[g] \in Refs /\ (OfAdd(g)' \/ loading'[fref'[g]] = g)
                    ELSE fref'[g] = NoRef
  BY DEF MarkerGuards
<1>4. CASE Live(g)'
  <2>1. Live(g) /\ fref'[g] = fref[g] /\ fref[g] \in Refs
    BY <1>1, <1>2, <1>4 DEF MarkerGuards, Live
  <2>2. CASE OfAdd(g)
    BY <1>4, <2>1, <2>2 DEF AddsKept
  <2>3. CASE ~OfAdd(g)
    BY <1>3, <1>4, <2>1, <2>3 DEF MarkerGuards
  <2> QED
    BY <2>2, <2>3
<1>5. CASE ~Live(g)'
  BY <1>2, <1>5 DEF MarkerGuards, Live
<1> QED
  BY <1>4, <1>5

LEMMA AddGuards ==
  ASSUME TypeOK, MarkerGuards, NEW c \in Clients, NEW r \in Refs,
         NEW replaced \in Refs \cup {NoRef}, AddProvider(c, r, replaced), AddsKept
  PROVE  MarkerGuards'
<1>1. CASE r \in cached
  <2>1. UNCHANGED <<loading, fst, fref, fby, cst>>
    BY <1>1 DEF AddProvider, fetchVars, callVars
  <2> QED
    BY <2>1 DEF MarkerGuards, OfAdd, Live
<1>2. CASE r \notin cached
  <2>1. PICK f \in Fetches : /\ fst[f] = "free"
                             /\ fst' = [fst EXCEPT ![f] = "running"]
                             /\ fref' = [fref EXCEPT ![f] = r]
                             /\ fby' = [fby EXCEPT ![f] = c]
    BY <1>2 DEF AddProvider
  <2>2. cst' = [cst EXCEPT ![c] = "adding"] /\ loading' = loading
    BY <1>2 DEF AddProvider
  <2>3. /\ fref'[f] = r /\ OfAdd(f)'
        /\ \A g \in Fetches \ {f} : fst'[g] = fst[g] /\ fref'[g] = fref[g]
    BY <2>1, <2>2 DEF TypeOK, OfAdd
  <2> QED
    <3> SUFFICES ASSUME NEW g \in Fetches
                 PROVE  IF Live(g)'
                        THEN fref'[g] \in Refs /\ (OfAdd(g)' \/ loading'[fref'[g]] = g)
                        ELSE fref'[g] = NoRef
      BY DEF MarkerGuards
    <3>1. CASE g = f
      BY <2>1, <2>3, <3>1 DEF Live, TypeOK
    <3>2. CASE g # f
      BY <2>2, <2>3, <3>2 DEF MarkerGuards, AddsKept, Live
    <3> QED
      BY <3>1, <3>2
<1> QED
  BY <1>1, <1>2

LEMMA FinishGuards ==
  ASSUME TypeOK, Listening, MarkerGuards, NEW c \in Clients, FinishAdd(c), AddsKept
  PROVE  MarkerGuards'
<1>1. PICK f \in Fetches :
        /\ fst'[f] = "free" /\ fref'[f] = NoRef
        /\ \A g \in Fetches \ {f} : fst'[g] = fst[g] /\ fref'[g] = fref[g]
  BY FinishFrame
<1>2. loading' = loading
  BY FinishFrame
<1> QED
  BY <1>1, <1>2 DEF MarkerGuards, AddsKept, Live

LEMMA GuardsStep ==
  ASSUME "delete" \notin Ops, TypeOK, Listening, MarkerGuards, [Next]_vars
  PROVE  MarkerGuards'
<1> DEFINE Kept == UNCHANGED <<loading, fst, fref>>
<1>0. AddsKept
  BY ListeningStep
<1>1. ASSUME Kept PROVE MarkerGuards'
  BY <1>0, <1>1 DEF MarkerGuards, AddsKept, Live
<1>2. ASSUME NEW c \in Clients, Poll(c) PROVE MarkerGuards'
  BY <1>0, <1>2, TriggerGuards DEF Poll, TypeOK
<1>3. ASSUME NEW c \in Clients, GenerateTrigger(c) PROVE MarkerGuards'
  BY <1>0, <1>3, TriggerGuards DEF GenerateTrigger, TypeOK
<1>4. ASSUME NEW c \in Clients, Put(c) PROVE MarkerGuards'
  BY <1>0, <1>4, BeginWriteGuards DEF Put
<1>5. ASSUME NEW c \in Clients, Mutate(c) PROVE MarkerGuards'
  BY <1>0, <1>5, BeginWriteGuards DEF Mutate, TypeOK
<1>6. ASSUME NEW c \in Clients, ResumeWrite(c) PROVE MarkerGuards'
  <2>1. PICK got \in SUBSET {f \in cown[c] : fst[f] # "running"} : Abandon(c, got)
    BY <1>6 DEF ResumeWrite
  <2> QED
    BY <1>0, <1>6, <2>1, AbandonGuards DEF ResumeWrite
<1>7. ASSUME NEW c \in Clients, BreakWrite(c) PROVE MarkerGuards'
  <2>1. PICK bad \in cown[c], before \in SUBSET cown[c] :
          /\ fst[bad] = "broken"
          /\ \A f \in before : fst[f] \in {"stored", "failed"}
          /\ Abandon(c, before \cup {bad})
    BY <1>7 DEF BreakWrite
  <2>2. before \cup {bad} \in SUBSET {f \in cown[c] : fst[f] # "running"}
    BY <2>1
  <2> QED
    BY <1>0, <1>7, <2>1, <2>2, AbandonGuards DEF BreakWrite
<1>8. ASSUME NEW c \in Clients, GenerateRead(c) \/ GenerateAnswer(c) \/ SyncCluster(c)
      PROVE  Kept
  BY <1>8 DEF GenerateRead, GenerateAnswer, SyncCluster, fetchVars
<1>9. ASSUME NEW r \in Refs, RetryDue(r) PROVE Kept
  BY <1>9 DEF RetryDue, fetchVars
<1>10. ASSUME UNCHANGED vars PROVE Kept
  BY <1>10 DEF vars, fetchVars
<1>11. \A c \in Clients, r \in Labels : ~DeleteProvider(c, r)
  BY DEF DeleteProvider
<1> HIDE DEF Kept
<1> QED
  BY <1>0, <1>1, <1>2, <1>3, <1>4, <1>5, <1>6, <1>7, <1>8, <1>9, <1>10, <1>11,
     FetchGuards, AddGuards, FinishGuards
  DEF Next, Request, CallNext

(* As long as no provider is deleted, the fetches behind loading markers   *)
(* are one per ref, by any number of polls, generates and writes, however  *)
(* the waits time out; beside one of them at most the fetch of one add is  *)
(* under way, whose handler holds the mutex.                               *)
THEOREM OneFetchPerRef ==
  ASSUME "delete" \notin Ops PROVE Spec => []SingleFlight
<1>1. Init => MarkerGuards
  BY DEF Init, MarkerGuards, Live
<1>2. TypeOK /\ Listening /\ MarkerGuards /\ [Next]_vars => MarkerGuards'
  BY GuardsStep
<1>3. ASSUME Listening, MarkerGuards PROVE SingleFlight
  <2> SUFFICES ASSUME NEW f \in Fetches, NEW g \in Fetches,
                      Live(f), Live(g), fref[f] = fref[g], f # g
               PROVE  OfAdd(f) # OfAdd(g)
    BY DEF SingleFlight
  <2>1. OfAdd(f) \/ OfAdd(g)
    BY <1>3 DEF MarkerGuards
  <2>2. ~(OfAdd(f) /\ OfAdd(g))
    BY <1>3 DEF Listening, OfAdd
  <2>3. OfAdd(f) \in BOOLEAN /\ OfAdd(g) \in BOOLEAN
    BY DEF OfAdd
  <2> QED
    BY <2>1, <2>2, <2>3
<1> QED
  BY <1>1, <1>2, <1>3, ServerTypeCorrect, AlwaysListening, PTL DEF Spec

-----------------------------------------------------------------------------
(* Nobody waits in vain *)

(* A marker that is open is of a live fetch of that very ref, never of an  *)
(* add's; what a call awaits will still close its channel: it runs, or it  *)
(* is in the background and has to report.                                 *)
MarkersLive ==
    \A r \in Refs : loading[r] \in Fetches =>
        Live(loading[r]) /\ ~OfAdd(loading[r]) /\ fref[loading[r]] = r
WillClose(f) == /\ Live(f) /\ ~OfAdd(f)
                /\ fst[f] = "running" \/ fby[f] = Background
Awaited ==
    \A c \in Clients : \A f \in cwait[c] : WillClose(f) /\ fref[f] \in cdoc[c]
NothingAwaited ==
    \A c \in Clients : cst[c] \in {"idle", "genRead", "adding"} => cwait[c] = {}
Awaiting == MarkersLive /\ Awaited /\ NothingAwaited

(* Live fetches stay as they are.                                          *)
FetchesStay ==
    \A f \in Fetches : Live(f) =>
        /\ fst'[f] = fst[f] /\ fref'[f] = fref[f] /\ fby'[f] = fby[f]
        /\ OfAdd(f)' <=> OfAdd(f)

(* New fetches are in slots that were free: nobody's, and awaited by none. *)
LEMMA LaunchAwaiting ==
  ASSUME FetchTypes, Awaiting, AddsKept, NEW refs \in SUBSET Refs, NEW by,
         by \in Clients => cst'[by] # "adding", Launch(refs, by)
  PROVE  MarkersLive' /\ FetchesStay
<1>1. PICK slot \in [refs -> {f \in Fetches : fst[f] = "free"}] :
        /\ \A r, s \in refs : slot[r] = slot[s] => r = s
        /\ loading' = [r \in Refs |-> IF r \in refs THEN slot[r] ELSE loading[r]]
        /\ LET new == {slot[r] : r \in refs}
               refOf(f) == CHOOSE r \in refs : slot[r] = f
           IN /\ fst' = [f \in Fetches |-> IF f \in new THEN "running" ELSE fst[f]]
              /\ fref' = [f \in Fetches |-> IF f \in new THEN refOf(f) ELSE fref[f]]
              /\ fby' = [f \in Fetches |-> IF f \in new THEN by ELSE fby[f]]
  BY DEF Launch
<1> DEFINE new == {slot[r] : r \in refs}
           refOf(f) == CHOOSE r \in refs : slot[r] = f
<1>2. \A r \in refs : slot[r] \in new /\ slot[r] \in Fetches /\ refOf(slot[r]) = r
  BY <1>1
<1>3. \A f \in new : fst[f] = "free"
  OBVIOUS
<1>4. /\ fst' = [f \in Fetches |-> IF f \in new THEN "running" ELSE fst[f]]
      /\ fref' = [f \in Fetches |-> IF f \in new THEN refOf(f) ELSE fref[f]]
      /\ fby' = [f \in Fetches |-> IF f \in new THEN by ELSE fby[f]]
  BY <1>1
<1> HIDE DEF new, refOf
<1>5. FetchesStay
  BY <1>3, <1>4 DEF FetchesStay, AddsKept, Live
<1>6. \A r \in refs : loading'[r] = slot[r] /\ fst'[slot[r]] = "running"
                     /\ fref'[slot[r]] = r /\ fby'[slot[r]] = by
  BY <1>1, <1>2, <1>4
<1>7. MarkersLive'
  <2> SUFFICES ASSUME NEW r \in Refs, loading'[r] \in Fetches
               PROVE  /\ fst'[loading'[r]] # "free" /\ fref'[loading'[r]] = r
                      /\ ~(fby'[loading'[r]] \in Clients
                           /\ cst'[fby'[loading'[r]]] = "adding")
    BY DEF MarkersLive, Live, OfAdd
  <2>1. CASE r \in refs
    BY <1>6, <2>1
  <2>2. CASE r \notin refs
    <3>1. loading'[r] = loading[r]
      BY <1>1, <2>2
    <3>2. Live(loading[r]) /\ ~OfAdd(loading[r]) /\ fref[loading[r]] = r
      BY <3>1 DEF Awaiting, MarkersLive
    <3> QED
      BY <1>5, <3>1, <3>2 DEF FetchesStay, Live, OfAdd
  <2> QED
    BY <2>1, <2>2
<1> QED
  BY <1>5, <1>7

(* What the markers of a document's sources name can be waited for.        *)
LEMMA PendingAwaited ==
  ASSUME MarkersLive, NEW refs \in SUBSET Refs
  PROVE  \A f \in Pending(refs, loading, fst, fby) : WillClose(f) /\ fref[f] \in refs
BY DEF MarkersLive, Pending, WillClose

(* A call that still awaits no more than it did, while live fetches stay.  *)
LEMMA AwaitedStays ==
  ASSUME TypeOK, Awaited, FetchesStay, NEW c \in Clients,
         cwait'[c] \subseteq cwait[c], cdoc'[c] = cdoc[c]
  PROVE  \A f \in cwait'[c] : WillClose(f)' /\ fref'[f] \in cdoc'[c]
<1> SUFFICES ASSUME NEW f \in cwait'[c] PROVE WillClose(f)' /\ fref'[f] \in cdoc'[c]
  OBVIOUS
<1>1. f \in Fetches /\ WillClose(f) /\ fref[f] \in cdoc[c]
  BY DEF TypeOK, Awaited
<1> QED
  BY <1>1 DEF FetchesStay, WillClose, Live

LEMMA CallsStay ==
  ASSUME TypeOK, Awaiting, MarkersLive', FetchesStay, UNCHANGED callVars
  PROVE  Awaiting'
<1>1. cwait' = cwait /\ cdoc' = cdoc /\ cst' = cst
  BY DEF callVars
<1>2. Awaited'
  BY <1>1, AwaitedStays DEF Awaiting, Awaited
<1> QED
  BY <1>1, <1>2 DEF Awaiting, NothingAwaited

(* The handlers that leave fetches and calls alone may take markers back.  *)
LEMMA MarkersMayGo ==
  ASSUME TypeOK, Awaiting, UNCHANGED <<fetchVars, callVars>>,
         \A r \in Refs : loading'[r] = loading[r] \/ loading'[r] = NoFetch
  PROVE  Awaiting'
<1>1. UNCHANGED <<fst, fref, fby, cst>>
  BY DEF fetchVars, callVars
<1>2. MarkersLive' /\ FetchesStay
  BY <1>1 DEF Awaiting, MarkersLive, FetchesStay, Live, OfAdd
<1> QED
  BY <1>2, CallsStay

LEMMA TriggerAwaiting ==
  ASSUME TypeOK, Awaiting, AddsKept, NEW b \in SUBSET Refs, Trigger(b)
  PROVE  MarkersLive' /\ FetchesStay
<1>1. Untried(b) \ cached \in SUBSET Refs
  BY DEF Untried
<1> QED
  BY <1>1, LaunchAwaiting, Types DEF Trigger

LEMMA GenerateTriggerAwaiting ==
  ASSUME TypeOK, Awaiting, AddsKept, NEW c \in Clients, GenerateTrigger(c)
  PROVE  Awaiting'
<1>1. /\ cdoc[c] \in SUBSET Refs /\ Trigger(cdoc[c])
      /\ cst' = [cst EXCEPT ![c] = "genWait"]
      /\ cwait' = [cwait EXCEPT ![c] = Pending(cdoc[c], loading', fst', fby')]
      /\ cdoc' = cdoc
  BY DEF GenerateTrigger, TypeOK
<1>2. MarkersLive' /\ FetchesStay
  BY <1>1, TriggerAwaiting
<1>3. Awaited'
  <2> SUFFICES ASSUME NEW d \in Clients
               PROVE  \A f \in cwait'[d] : WillClose(f)' /\ fref'[f] \in cdoc'[d]
    BY DEF Awaited
  <2>1. CASE d = c
    <3>1. cwait'[c] = Pending(cdoc[c], loading', fst', fby')
      BY <1>1 DEF TypeOK
    <3> QED
      BY <1>1, <1>2, <2>1, <3>1 DEF MarkersLive, Pending, WillClose
  <2>2. CASE d # c
    BY <1>1, <1>2, <2>2, AwaitedStays DEF Awaiting, TypeOK
  <2> QED
    BY <2>1, <2>2
<1>4. NothingAwaited'
  BY <1>1 DEF Awaiting, NothingAwaited, TypeOK
<1> QED
  BY <1>2, <1>3, <1>4 DEF Awaiting

LEMMA BeginWriteAwaiting ==
  ASSUME TypeOK, Awaiting, AddsKept, NEW c \in Clients, NEW b \in SUBSET Refs,
         BeginWrite(c, b)
  PROVE  Awaiting'
<1> DEFINE misses == (b \ providers) \ cached
           new == Unclaimed(misses)
<1>1. CASE misses = {}
  BY <1>1, MarkersMayGo DEF BeginWrite
<1>2. CASE misses # {}
  <2>1. /\ Launch(new, c)
        /\ cst' = [cst EXCEPT ![c] = "syncWait"]
        /\ cdoc' = [cdoc EXCEPT ![c] = b]
        /\ cwait' = [cwait EXCEPT ![c] = Pending(misses \ new, loading, fst, fby)]
    BY <1>2 DEF BeginWrite
  <2>2. misses \subseteq b /\ new \in SUBSET Refs
    BY DEF Unclaimed
  <2> HIDE DEF misses, new
  <2>3. cst'[c] = "syncWait"
    BY <2>1 DEF TypeOK
  <2>4. MarkersLive' /\ FetchesStay
    BY <2>1, <2>2, <2>3, LaunchAwaiting, Types
  <2>5. Awaited'
    <3> SUFFICES ASSUME NEW d \in Clients
                 PROVE  \A f \in cwait'[d] : WillClose(f)' /\ fref'[f] \in cdoc'[d]
      BY DEF Awaited
    <3>1. CASE d = c
      <4>1. cwait'[c] = Pending(misses \ new, loading, fst, fby) /\ cdoc'[c] = b
        BY <2>1 DEF TypeOK
      <4>2. Pending(misses \ new, loading, fst, fby) \subseteq Fetches
        BY DEF Pending
      <4>3. \A f \in Pending(misses \ new, loading, fst, fby) :
               WillClose(f) /\ fref[f] \in misses \ new
        BY <2>2, PendingAwaited DEF Awaiting
      <4> QED
        BY <2>2, <2>4, <3>1, <4>1, <4>2, <4>3 DEF FetchesStay, WillClose, Live
    <3>2. CASE d # c
      BY <2>1, <2>4, <3>2, AwaitedStays DEF Awaiting, TypeOK
    <3> QED
      BY <3>1, <3>2
  <2>6. NothingAwaited'
    BY <2>1 DEF Awaiting, NothingAwaited, TypeOK
  <2> QED
    BY <2>4, <2>5, <2>6 DEF Awaiting
<1> QED
  BY <1>1, <1>2

(* A fetch closes its channel when it ends: whoever awaits it is released, *)
(* and its marker is closed or gone.                                       *)
LEMMA FetchAwaiting ==
  ASSUME TypeOK, Awaiting, AddsKept, NEW f \in Fetches, FetchNext(f)
  PROVE  Awaiting'
<1>1. cdoc' = cdoc /\ cst' = cst
  BY DEF FetchNext, FetchReturns, BackgroundReports
<1>2. \A g \in Fetches \ {f} : fst'[g] = fst[g] /\ fref'[g] = fref[g] /\ fby'[g] = fby[g]
  <2>1. ASSUME NEW o \in {"stored", "failed", "broken"}, FetchReturns(f, o)
        PROVE  \/ fst' = [fst EXCEPT ![f] = o] /\ fref' = fref /\ fby' = fby
               \/ /\ fst' = [fst EXCEPT ![f] = "free"]
                  /\ fref' = [g \in Fetches |-> IF g \in {f} THEN NoRef ELSE fref[g]]
                  /\ fby' = [g \in Fetches |-> IF g \in {f} THEN Nobody ELSE fby[g]]
    BY <2>1 DEF FetchReturns, Freed
  <2>2. ASSUME BackgroundReports(f)
        PROVE  /\ fst' = [fst EXCEPT ![f] = "free"]
               /\ fref' = [g \in Fetches |-> IF g \in {f} THEN NoRef ELSE fref[g]]
               /\ fby' = [g \in Fetches |-> IF g \in {f} THEN Nobody ELSE fby[g]]
    BY <2>2 DEF BackgroundReports, Freed
  <2> QED
    BY <2>1, <2>2 DEF FetchNext, TypeOK
<1>3. \/ /\ fst'[f] # "free" /\ fref' = fref /\ fby' = fby /\ loading' = loading
         /\ cwait' = IF fby[f] = Background THEN cwait
                     ELSE [c \in Clients |-> cwait[c] \ {f}]
      \/ /\ loading' \in {Marks({}, {f}), Marks({fref[f]}, {})}
         /\ cwait' = [c \in Clients |-> cwait[c] \ {f}]
  <2>1. ASSUME NEW o \in {"stored", "failed", "broken"}, FetchReturns(f, o),
               fby[f] = Nobody
        PROVE  /\ loading' = Marks({}, {f})
               /\ cwait' = [c \in Clients |-> cwait[c] \ {f}]
    BY <2>1 DEF FetchReturns, Released
  <2>2. ASSUME NEW o \in {"stored", "failed", "broken"}, FetchReturns(f, o),
               fby[f] # Nobody
        PROVE  /\ fst' = [fst EXCEPT ![f] = o] /\ o # "free"
               /\ fref' = fref /\ fby' = fby /\ loading' = loading
               /\ cwait' = IF fby[f] = Background THEN cwait
                           ELSE [c \in Clients |-> cwait[c] \ {f}]
    BY <2>2 DEF FetchReturns, Released
  <2>3. ASSUME BackgroundReports(f)
        PROVE  /\ loading' = Marks({fref[f]}, {})
               /\ cwait' = [c \in Clients |-> cwait[c] \ {f}]
    BY <2>3 DEF BackgroundReports, Released
  <2> QED
    BY <2>1, <2>2, <2>3 DEF FetchNext, TypeOK
<1>4. \A g \in Fetches \ {f} : WillClose(g) => WillClose(g)'
  BY <1>1, <1>2 DEF WillClose, OfAdd, Live
<1>5. MarkersLive'
  <2> SUFFICES ASSUME NEW r \in Refs, loading'[r] \in Fetches
               PROVE  /\ fst'[loading'[r]] # "free" /\ fref'[loading'[r]] = r
                      /\ ~(fby'[loading'[r]] \in Clients
                           /\ cst'[fby'[loading'[r]]] = "adding")
    BY DEF MarkersLive, Live, OfAdd
  <2>1. loading'[r] = loading[r]
    BY <1>3 DEF Marks, TypeOK
  <2>2. Live(loading[r]) /\ ~OfAdd(loading[r]) /\ fref[loading[r]] = r
    BY <2>1 DEF Awaiting, MarkersLive
  <2>3. CASE loading[r] # f
    BY <1>1, <1>2, <2>1, <2>2, <2>3 DEF Live, OfAdd
  <2>4. CASE loading[r] = f
    <3>1. fst'[f] # "free" /\ fref' = fref /\ fby' = fby
      BY <1>3, <2>1, <2>2, <2>4 DEF Marks, TypeOK
    <3> QED
      BY <1>1, <2>1, <2>2, <2>4, <3>1 DEF Live, OfAdd
  <2> QED
    BY <2>3, <2>4
<1>6. Awaited'
  <2> SUFFICES ASSUME NEW d \in Clients, NEW g \in cwait'[d]
               PROVE  WillClose(g)' /\ fref'[g] \in cdoc'[d]
    BY DEF Awaited
  <2>1. g \in cwait[d] /\ g \in Fetches /\ WillClose(g) /\ fref[g] \in cdoc[d]
    BY <1>3 DEF TypeOK, Awaiting, Awaited
  <2>2. CASE g # f
    BY <1>1, <1>2, <1>4, <2>1, <2>2
  <2>3. CASE g = f
    <3>1. fby[f] = Background /\ fst'[f] # "free" /\ fref' = fref /\ fby' = fby
      BY <1>3, <2>1, <2>3 DEF TypeOK
    <3> QED
      BY <1>1, <2>1, <2>3, <3>1 DEF WillClose, OfAdd, Live
  <2> QED
    BY <2>2, <2>3
<1>7. NothingAwaited'
  BY <1>1, <1>3 DEF Awaiting, NothingAwaited, TypeOK
<1> QED
  BY <1>5, <1>6, <1>7 DEF Awaiting

(* A write that returns frees the fetches of its own that ended: another   *)
(* call awaits only fetches that run or are in the background.             *)
LEMMA AbandonAwaiting ==
  ASSUME TypeOK, Listening, Awaiting, AddsKept, NEW c \in Clients, NEW heard,
         Abandon(c, heard), Resting(c)
  PROVE  Awaiting'
<1> DEFINE done == {f \in cown[c] : fst[f] # "running"}
<1>1. /\ loading' = Marks(RefsOf(heard), done)
      /\ fst' = [f \in Fetches |-> IF f \in done THEN "free" ELSE fst[f]]
      /\ fref' = [f \in Fetches |-> IF f \in done THEN NoRef ELSE fref[f]]
      /\ fby' = [f \in Fetches |-> IF f \in cown[c] THEN Nobody ELSE fby[f]]
  BY DEF Abandon
<1>2. \A f \in done : f \in cown[c] /\ fst[f] # "running"
  OBVIOUS
<1>3. \A f \in cown[c] : fby[f] = c
  BY DEF Listening
<1> HIDE DEF done
<1>4. \A f \in Fetches \ done : Live(f) => Live(f)' /\ fref'[f] = fref[f]
                                           /\ (OfAdd(f)' <=> OfAdd(f))
  BY <1>1 DEF Live, AddsKept
<1>5. MarkersLive'
  BY <1>1, <1>4 DEF Awaiting, MarkersLive, Marks
<1>6. Awaited'
  <2> SUFFICES ASSUME NEW d \in Clients, NEW f \in cwait'[d]
               PROVE  WillClose(f)' /\ fref'[f] \in cdoc'[d]
    BY DEF Awaited
  <2>1. d # c /\ f \in cwait[d] /\ f \in Fetches /\ cdoc'[d] = cdoc[d]
    BY RestingCall DEF TypeOK
  <2>2. WillClose(f) /\ fref[f] \in cdoc[d]
    BY <2>1 DEF Awaiting, Awaited
  <2>3. c # Background
    OBVIOUS
  <2>4. f \notin done
    BY <1>2, <1>3, <2>2, <2>3 DEF WillClose
  <2>5. fst'[f] = fst[f] /\ (fst[f] = "running" \/ fby'[f] = Background)
    BY <1>1, <1>3, <2>1, <2>2, <2>3, <2>4 DEF WillClose
  <2> QED
    BY <1>4, <2>1, <2>2, <2>4, <2>5 DEF WillClose
<1>7. NothingAwaited'
  BY RestingCall DEF Awaiting, NothingAwaited
<1> QED
  BY <1>5, <1>6, <1>7 DEF Awaiting

(* A generate reads the document while it awaits nothing, and answers.     *)
LEMMA GenerateAwaiting ==
  ASSUME TypeOK, Awaiting, AddsKept, NEW c \in Clients,
         GenerateRead(c) \/ GenerateAnswer(c)
  PROVE  Awaiting'
<1>1. UNCHANGED <<loading, fst, fref, fby>>
  BY DEF GenerateRead, GenerateAnswer, fetchVars
<1>2. MarkersLive' /\ FetchesStay
  BY <1>1 DEF Awaiting, MarkersLive, FetchesStay, AddsKept, Live
<1>3. \A d \in Clients \ {c} : cst'[d] = cst[d] /\ cdoc'[d] = cdoc[d] /\ cwait'[d] = cwait[d]
  BY RestingCall DEF GenerateRead, GenerateAnswer, TypeOK
<1>4. cwait'[c] = {}
  BY RestingCall DEF GenerateRead, GenerateAnswer, Awaiting, NothingAwaited
<1>5. Awaited'
  <2> SUFFICES ASSUME NEW d \in Clients
               PROVE  \A f \in cwait'[d] : WillClose(f)' /\ fref'[f] \in cdoc'[d]
    BY DEF Awaited
  <2>1. CASE d # c
    BY <1>2, <1>3, <2>1, AwaitedStays DEF Awaiting
  <2> QED
    BY <1>4, <2>1
<1>6. NothingAwaited'
  BY <1>3, <1>4 DEF Awaiting, NothingAwaited
<1> QED
  BY <1>2, <1>5, <1>6 DEF Awaiting

(* An add launches a fetch no marker names and nobody awaits, and frees it. *)
LEMMA AddAwaiting ==
  ASSUME TypeOK, Awaiting, AddsKept, NEW c \in Clients, NEW r \in Refs,
         NEW replaced \in Refs \cup {NoRef}, AddProvider(c, r, replaced)
  PROVE  Awaiting'
<1>1. CASE r \in cached
  BY <1>1, MarkersMayGo DEF AddProvider
<1>2. CASE r \notin cached
  <2>1. PICK f \in Fetches : /\ fst[f] = "free"
                             /\ fst' = [fst EXCEPT ![f] = "running"]
                             /\ fref' = [fref EXCEPT ![f] = r]
                             /\ fby' = [fby EXCEPT ![f] = c]
    BY <1>2 DEF AddProvider
  <2>2. /\ cst[c] = "idle" /\ cst' = [cst EXCEPT ![c] = "adding"]
        /\ cdoc' = [cdoc EXCEPT ![c] = (doc \ {replaced}) \cup {r}]
        /\ loading' = loading /\ cwait' = cwait
    BY <1>2 DEF AddProvider
  <2>3. FetchesStay
    BY <2>1 DEF FetchesStay, AddsKept, Live, TypeOK
  <2>4. MarkersLive'
    BY <2>2, <2>3 DEF Awaiting, MarkersLive, FetchesStay, Live
  <2>5. cwait[c] = {}
    BY <2>2 DEF Awaiting, NothingAwaited
  <2>6. Awaited'
    <3> SUFFICES ASSUME NEW d \in Clients
                 PROVE  \A g \in cwait'[d] : WillClose(g)' /\ fref'[g] \in cdoc'[d]
      BY DEF Awaited
    <3>1. CASE d # c
      BY <2>2, <2>3, <3>1, AwaitedStays DEF Awaiting, TypeOK
    <3> QED
      BY <2>2, <2>5, <3>1
  <2>7. NothingAwaited'
    BY <2>2, <2>5 DEF Awaiting, NothingAwaited, TypeOK
  <2> QED
    BY <2>4, <2>6, <2>7 DEF Awaiting
<1> QED
  BY <1>1, <1>2

LEMMA FinishAwaiting ==
  ASSUME TypeOK, Listening, Awaiting, AddsKept, NEW c \in Clients, FinishAdd(c)
  PROVE  Awaiting'
<1>1. PICK f \in Fetches :
        /\ OfAdd(f)
        /\ \A g \in Fetches \ {f} :
              fst'[g] = fst[g] /\ fref'[g] = fref[g] /\ fby'[g] = fby[g]
  BY FinishFrame
<1>2. Resting(c) /\ loading' = loading
  BY FinishFrame
<1>3. \A g \in Fetches \ {f} : Live(g) => Live(g)' /\ (OfAdd(g)' <=> OfAdd(g))
  BY <1>1 DEF Live, AddsKept
<1>4. MarkersLive'
  BY <1>1, <1>2, <1>3 DEF Awaiting, MarkersLive
<1>5. Awaited'
  <2> SUFFICES ASSUME NEW d \in Clients, NEW g \in cwait'[d]
               PROVE  WillClose(g)' /\ fref'[g] \in cdoc'[d]
    BY DEF Awaited
  <2>1. g \in cwait[d] /\ g \in Fetches /\ cdoc'[d] = cdoc[d]
    BY <1>2, RestingCall DEF TypeOK
  <2>2. WillClose(g) /\ fref[g] \in cdoc[d] /\ g # f
    BY <1>1, <2>1 DEF Awaiting, Awaited, WillClose
  <2> QED
    BY <1>1, <1>3, <2>1, <2>2 DEF WillClose
<1>6. NothingAwaited'
  BY <1>2, RestingCall DEF Awaiting, NothingAwaited
<1> QED
  BY <1>4, <1>5, <1>6 DEF Awaiting

LEMMA AwaitingStep ==
  ASSUME TypeOK, Listening, Awaiting, [Next]_vars PROVE Awaiting'
<1>0. AddsKept
  BY ListeningStep
<1>1. ASSUME NEW c \in Clients, Poll(c) PROVE Awaiting'
  <2>1. doc \in SUBSET Refs /\ Trigger(doc) /\ UNCHANGED callVars
    BY <1>1 DEF Poll, TypeOK
  <2> QED
    BY <1>0, <2>1, TriggerAwaiting, CallsStay
<1>2. ASSUME NEW c \in Clients, Put(c) PROVE Awaiting'
  BY <1>0, <1>2, BeginWriteAwaiting DEF Put
<1>3. ASSUME NEW c \in Clients, Mutate(c) PROVE Awaiting'
  BY <1>0, <1>3, BeginWriteAwaiting DEF Mutate, TypeOK
<1>4. ASSUME NEW c \in Clients, ResumeWrite(c) \/ BreakWrite(c) PROVE Awaiting'
  <2>1. PICK heard : Abandon(c, heard)
    BY <1>4 DEF ResumeWrite, BreakWrite
  <2>2. Resting(c)
    BY <1>4 DEF ResumeWrite, BreakWrite
  <2> QED
    BY <1>0, <2>1, <2>2, AbandonAwaiting
<1>5. ASSUME NEW c \in Clients, NEW r \in Labels, DeleteProvider(c, r) PROVE Awaiting'
  <2>1. /\ UNCHANGED <<fetchVars, callVars>>
        /\ \A q \in Refs : loading'[q] = loading[q] \/ loading'[q] = NoFetch
    BY <1>5 DEF DeleteProvider
  <2> QED
    BY <2>1, MarkersMayGo
<1>6. ASSUME NEW c \in Clients, SyncCluster(c) PROVE Awaiting'
  BY <1>6, MarkersMayGo DEF SyncCluster
<1>7. ASSUME NEW r \in Refs, RetryDue(r) PROVE Awaiting'
  BY <1>7, MarkersMayGo DEF RetryDue
<1>8. ASSUME UNCHANGED vars PROVE Awaiting'
  BY <1>8, MarkersMayGo DEF vars
<1> QED
  BY <1>0, <1>1, <1>2, <1>3, <1>4, <1>5, <1>6, <1>7, <1>8, GenerateAwaiting,
     GenerateTriggerAwaiting, FetchAwaiting, AddAwaiting, FinishAwaiting
  DEF Next, Request, CallNext

(* No generate and no write ever waits for a channel that nobody will      *)
(* close: what it waits for is a live fetch of a source of its own         *)
(* document, whichever call or poll launched it, however waits time out,   *)
(* and also when a provider is deleted while it is fetched.                *)
THEOREM NobodyWaitsInVain == Spec => []AwaitedIsFetched
<1>1. Init => Awaiting
  BY DEF Init, Awaiting, MarkersLive, Awaited, NothingAwaited
<1>2. TypeOK /\ Listening /\ Awaiting /\ [Next]_vars => Awaiting'
  BY AwaitingStep
<1>3. Awaiting => AwaitedIsFetched
  BY DEF Awaiting, Awaited, AwaitedIsFetched, WillClose
<1> QED
  BY <1>1, <1>2, <1>3, ServerTypeCorrect, AlwaysListening, PTL DEF Spec
=============================================================================
