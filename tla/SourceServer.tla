---------------------------- MODULE SourceServer ----------------------------
(***************************************************************************)
(* `cf serve` and the provider sources of its blueprint (internal/api):    *)
(* the declared sources on disk, the set of providers the server serves    *)
(* kinds from, the index built over it, and the fetches that fill the      *)
(* schema cache in the background or on behalf of a write.                 *)
(*                                                                         *)
(* srv.mu serializes the handlers, so what a handler does while it holds   *)
(* the mutex is one action.  Two kinds of handler let go of it and come    *)
(* back: a write whose sources must be fetched (syncBlueprintSourcesLocked *)
(* unlocks while it waits) and a generate (awaitBlueprintSources waits     *)
(* before the handler locks).  Each is split there; its locals live in the *)
(* call variables until it resumes.  Fetches run without the mutex and     *)
(* take it to report.  POST /api/providers is split too, at a fetch of its *)
(* own, over which it does hold the mutex: whatever locks waits for it.    *)
(*                                                                         *)
(* The cache is abstracted to the set of refs it can load: SchemaStore     *)
(* models how the entries and the lockfile get there.  The registry may    *)
(* answer or fail any fetch.  The CRD files a document may name beside its *)
(* providers are abstracted to whether building the index may fail over    *)
(* them: they can change, or go, at any time.                              *)
(***************************************************************************)
EXTENDS Naturals

CONSTANTS
    Refs,        \* package references
    Puts,        \* the source lists a replaced document may declare
    Clients,     \* concurrent callers of the API
    Fetches,     \* fetch goroutines alive at once: a bound
    Ops,         \* the routes clients call, a subset of AllOps
    Timeouts,    \* whether a wait may give up before its fetches report
    LocalFaults, \* whether a CRD file the document names may be missing or
                 \* unparsable when the index is built
    Unparsable,  \* refs whose package downloads but does not parse or save
    CachedAtStart, \* refs in the cache when the server starts
    DocsAtStart, \* the source lists the file may declare at the start
    Cluster,     \* cluster.ProviderLabel
    NoFetch, Closed, NoRef, Nobody, Background

AllOps == {"poll", "generate", "put", "mutate", "add", "replace", "delete", "cluster"}

ASSUME NameAssumption == /\ Cluster \notin Refs
                         /\ NoRef \notin Refs
                         /\ NoFetch \notin Fetches /\ Closed \notin Fetches
                         /\ NoFetch # Closed
                         /\ Nobody \notin Clients /\ Background \notin Clients
                         /\ Nobody # Background
ASSUME EnvAssumption  == /\ Ops \subseteq AllOps
                         /\ Timeouts \in BOOLEAN
                         /\ LocalFaults \in BOOLEAN
                         /\ Unparsable \subseteq Refs
                         /\ CachedAtStart \subseteq Refs
                         /\ Puts \subseteq SUBSET Refs
                         /\ DocsAtStart \subseteq SUBSET Refs

VARIABLES
    doc,        \* the sources the blueprint file declares
    cached,     \* refs Store.Load finds
    providers,  \* srv.Providers
    index,      \* the providers srv.Index was built over
    retained,   \* srv.cachedProviders
    failed,     \* srv.failedSources, with whether the retry interval passed
    loading,    \* srv.loadingSources: the fetch whose channel the entry holds,
                \* Closed once that fetch is over and the entry still there
    fst, fref, fby,                    \* each fetch: state, ref, who awaits it
    cst, cdoc, corig, cneed, cown, cwait  \* each call: the locals of a wait

fetchVars == <<fst, fref, fby>>
callVars == <<cst, cdoc, corig, cneed, cown, cwait>>
vars == <<doc, cached, providers, index, retained, failed, loading,
          fetchVars, callVars>>

Labels == Refs \cup {Cluster}
FetchStates == {"free", "running", "stored", "failed", "broken"}
CallStates == {"idle", "syncWait", "genRead", "genWait", "adding"}

TypeOK ==
    /\ doc \subseteq Refs
    /\ cached \subseteq Labels
    /\ providers \subseteq Labels
    /\ index \subseteq Labels
    /\ retained \subseteq Refs
    /\ failed \in [Refs -> {"no", "recent", "due"}]
    /\ loading \in [Refs -> Fetches \cup {NoFetch, Closed}]
    /\ fst \in [Fetches -> FetchStates]
    /\ fref \in [Fetches -> Refs \cup {NoRef}]
    /\ fby \in [Fetches -> Clients \cup {Background, Nobody}]
    /\ \A f \in Fetches : fst[f] # "free" => fref[f] # NoRef
    /\ cst \in [Clients -> CallStates]
    /\ cdoc \in [Clients -> SUBSET Refs]
    /\ corig \in [Clients -> SUBSET Labels]
    /\ cneed \in [Clients -> SUBSET Refs]
    /\ cown \in [Clients -> SUBSET Fetches]
    /\ cwait \in [Clients -> SUBSET Fetches]

(* buildAPIOptions and New: the declared refs that are cached are served,  *)
(* all the cached ones when nothing is declared; the others cached are     *)
(* remembered as retained.  (New's own trigger is a Poll.)                 *)
Init ==
    /\ doc \in DocsAtStart
    /\ cached = CachedAtStart
    /\ providers = IF doc = {} THEN cached ELSE doc \cap cached
    /\ index = providers
    /\ retained = cached \ doc
    /\ failed = [r \in Refs |-> "no"]
    /\ loading = [r \in Refs |-> NoFetch]
    /\ fst = [f \in Fetches |-> "free"]
    /\ fref = [f \in Fetches |-> NoRef]
    /\ fby = [f \in Fetches |-> Nobody]
    /\ cst = [c \in Clients |-> "idle"]
    /\ cdoc = [c \in Clients |-> {}]
    /\ corig = [c \in Clients |-> {}]
    /\ cneed = [c \in Clients |-> {}]
    /\ cown = [c \in Clients |-> {}]
    /\ cwait = [c \in Clients |-> {}]

-----------------------------------------------------------------------------
(* Building blocks of the handlers *)

(* srv.mu is free: no POST /api/providers is waiting for its own fetch. *)
MutexFree == \A c \in Clients : cst[c] # "adding"

(* rebuildIndexLocked fails, and leaves the index alone, when a provider   *)
(* has no cache entry, or over a CRD file of the document.                 *)
Loadable(provs, store) == provs \subseteq store
MayFail(provs, store) == LocalFaults \/ ~Loadable(provs, store)
Rebuilt(provs, store) ==
    (IF Loadable(provs, store) THEN {provs} ELSE {})
      \cup (IF MayFail(provs, store) THEN {index} ELSE {})

Failing(refs, as) == [r \in Refs |-> IF r \in refs THEN as ELSE failed[r]]

(* One new fetch per ref, started by `by`: the marker and the goroutine.   *)
Launch(refs, by) ==
    \E slot \in [refs -> {f \in Fetches : fst[f] = "free"}] :
        /\ \A r, s \in refs : slot[r] = slot[s] => r = s
        /\ loading' = [r \in Refs |-> IF r \in refs THEN slot[r] ELSE loading[r]]
        /\ LET new == {slot[r] : r \in refs}
               refOf(f) == CHOOSE r \in refs : slot[r] = f
           IN /\ fst' = [f \in Fetches |-> IF f \in new THEN "running" ELSE fst[f]]
              /\ fref' = [f \in Fetches |-> IF f \in new THEN refOf(f) ELSE fref[f]]
              /\ fby' = [f \in Fetches |-> IF f \in new THEN by ELSE fby[f]]

(* Mutant: a source that failed once is never tried again. *)
Mut_Untried(b) == {r \in b : /\ r \notin providers
                                     /\ loading[r] = NoFetch
                                     /\ failed[r] = "no"}

(* triggerBlueprintSourcesAsyncLocked over the sources of document b.      *)
Untried(b) == {r \in b : /\ r \notin providers
                                 /\ loading[r] = NoFetch
                                 /\ failed[r] # "recent"}
Trigger(b) ==
    LET hits == Untried(b) \cap cached IN
    /\ providers' = providers \cup hits
    /\ failed' = Failing(hits, "no")
    /\ index' \in IF hits = {} THEN {index} ELSE Rebuilt(providers', cached)
    /\ Launch(Untried(b) \ cached, Background)

(* The open channels among the markers of refs: a fetch of a write closes  *)
(* its channel when it returns, one in the background when it has reported. *)
Pending(refs, marks, state, by) ==
    {f \in Fetches : /\ \E r \in refs : marks[r] = f
                     /\ state[f] = "running" \/ by[f] = Background}

(* Mutant: the markers of the fetches that ended are left in the map. *)
Mut_Marks(refs, over) ==
    [r \in Refs |-> IF loading[r] \in over THEN Closed ELSE loading[r]]

(* The markers when those of `refs` are deleted and the fetches `over` end. *)
Marks(refs, over) ==
    [r \in Refs |-> IF r \in refs THEN NoFetch
                    ELSE IF loading[r] \in over THEN Closed ELSE loading[r]]

Resting(c) ==
    /\ cst' = [cst EXCEPT ![c] = "idle"]
    /\ cdoc' = [cdoc EXCEPT ![c] = {}]
    /\ corig' = [corig EXCEPT ![c] = {}]
    /\ cneed' = [cneed EXCEPT ![c] = {}]
    /\ cown' = [cown EXCEPT ![c] = {}]
    /\ cwait' = [cwait EXCEPT ![c] = {}]

-----------------------------------------------------------------------------
(* Reads that trigger background loading *)

(* GET /api/providers, GET /api/kinds and the other index reads.           *)
Poll(c) ==
    /\ "poll" \in Ops /\ cst[c] = "idle" /\ MutexFree
    /\ Trigger(doc)
    /\ UNCHANGED <<doc, cached, retained, callVars>>

(* POST /api/generate, and the package, render and manifest routes: the    *)
(* document is read before the mutex is taken, ...                         *)
GenerateRead(c) ==
    /\ "generate" \in Ops /\ cst[c] = "idle"
    /\ cst' = [cst EXCEPT ![c] = "genRead"]
    /\ cdoc' = [cdoc EXCEPT ![c] = doc]
    /\ UNCHANGED <<doc, cached, providers, index, retained, failed,
                   loading, fetchVars, corig, cneed, cown, cwait>>

(* ... its missing sources are triggered under it, ...                     *)
GenerateTrigger(c) ==
    /\ cst[c] = "genRead" /\ MutexFree
    /\ Trigger(cdoc[c])
    /\ cst' = [cst EXCEPT ![c] = "genWait"]
    /\ cwait' = [cwait EXCEPT ![c] = Pending(cdoc[c], loading', fst', fby')]
    /\ UNCHANGED <<doc, cached, retained, cdoc, corig, cneed, cown>>

(* ... and once they reported, or the wait timed out, the handler locks    *)
(* and renders the document it finds then.                                 *)
GenerateAnswer(c) ==
    /\ cst[c] = "genWait" /\ MutexFree
    /\ cwait[c] = {} \/ Timeouts
    /\ Resting(c)
    /\ UNCHANGED <<doc, cached, providers, index, retained, failed,
                   loading, fetchVars>>

(* loadSourceCRDs: what a generate of document b needs to go past it.      *)
SourcesLoad(b) == \A r \in b : failed[r] = "no" /\ r \in cached

-----------------------------------------------------------------------------
(* Fetches *)

(* Mutant: a fetch ends without closing its channel. *)
Mut_Released(fs) == cwait

(* A channel is closed: whoever waits on it is released.                   *)
Released(fs) == [c \in Clients |-> cwait[c] \ fs]
Freed(fs) ==
    /\ fref' = [f \in Fetches |-> IF f \in fs THEN NoRef ELSE fref[f]]
    /\ fby' = [f \in Fetches |-> IF f \in fs THEN Nobody ELSE fby[f]]

(* FetchAndSave returns, mutex or not.  A background fetch has its outcome  *)
(* to report; one a write launched sends it to the write and closes the     *)
(* channel; one whose write gave up is gone; an add's returns to its caller. *)
FetchReturns(f, outcome) ==
    /\ fst[f] = "running"
    /\ outcome = "stored" => fref[f] \notin Unparsable
    /\ outcome = "broken" => fref[f] \in Unparsable
    /\ cached' = IF outcome = "stored" THEN cached \cup {fref[f]} ELSE cached
    /\ IF fby[f] = Nobody
       THEN fst' = [fst EXCEPT ![f] = "free"] /\ Freed({f}) /\ loading' = Marks({}, {f})
       ELSE fst' = [fst EXCEPT ![f] = outcome] /\ UNCHANGED <<fref, fby, loading>>
    /\ cwait' = IF fby[f] = Background THEN cwait ELSE Released({f})
    /\ UNCHANGED <<doc, providers, index, retained, failed,
                   cst, cdoc, corig, cneed, cown>>

(* The locked half of fetchSourceBackground: the marker of the ref goes,   *)
(* whichever fetch put it there; a failure is recorded; a success is       *)
(* served, whether or not the document still declares it; the channel      *)
(* closes last.                                                            *)
BackgroundReports(f) ==
    /\ fby[f] = Background /\ fst[f] \in {"stored", "failed", "broken"}
    /\ MutexFree
    /\ loading' = Marks({fref[f]}, {})
    /\ IF fst[f] = "stored"
       THEN /\ providers' = providers \cup {fref[f]}
            /\ failed' = [failed EXCEPT ![fref[f]] = "no"]
            /\ index' \in Rebuilt(providers', cached)
       ELSE /\ failed' = [failed EXCEPT ![fref[f]] = "recent"]
            /\ UNCHANGED <<providers, index>>
    /\ fst' = [fst EXCEPT ![f] = "free"]
    /\ Freed({f})
    /\ cwait' = Released({f})
    /\ UNCHANGED <<doc, cached, retained, cst, cdoc, corig, cneed, cown>>

(* The retry interval after a failure passes.                              *)
RetryDue(r) ==
    /\ failed[r] = "recent"
    /\ failed' = [failed EXCEPT ![r] = "due"]
    /\ UNCHANGED <<doc, cached, providers, index, retained, loading,
                   fetchVars, callVars>>

-----------------------------------------------------------------------------
(* Writes of the document *)

(* The end of syncBlueprintSourcesLocked and of the write around it, for   *)
(* document b: srv.Providers is cut down to what b declares, the cluster   *)
(* and the retained refs; failures of undeclared refs are forgotten; the   *)
(* index is rebuilt if that changed the providers since `orig`, or b's     *)
(* source order or pipeline differs (relaid).  A rebuild that fails, and a *)
(* document the emitter or the file system refuses, put the providers of   *)
(* the handler's start back.                                               *)
Commit(b, orig, provs, fails, incomplete) ==
    LET kept == provs \cap (b \cup retained \cup {Cluster}) IN
    /\ failed' = [r \in Refs |-> IF r \in b THEN fails[r] ELSE "no"]
    /\ UNCHANGED <<cached, retained>>
    /\ \E relaid \in BOOLEAN :
        LET rebuild == relaid \/ kept # orig IN
        \/ /\ rebuild /\ MayFail(kept, cached)
           /\ providers' = orig
           /\ UNCHANGED <<index, doc>>
        \/ /\ rebuild => Loadable(kept, cached)
           /\ providers' = kept
           /\ index' = IF rebuild THEN kept ELSE index
           /\ IF incomplete
              THEN UNCHANGED doc
              ELSE doc' = b
        \/ /\ rebuild => Loadable(kept, cached)
           /\ ~incomplete
           /\ providers' = orig
           /\ index' \in Rebuilt(orig, cached)
           /\ UNCHANGED doc

(* Mutant: a write fetches what it misses, whoever is fetching it already. *)
Mut_Unclaimed(misses) == misses

Unclaimed(misses) == {r \in misses : loading[r] = NoFetch}

(* The start of a write of document b.  Cached sources join at once; if    *)
(* that leaves some to fetch, the handler launches the fetches nobody has  *)
(* launched yet, notes the channels of the others, unlocks and waits.      *)
BeginWrite(c, b) ==
    LET missing == b \ providers
        hits    == missing \cap cached
        misses  == missing \ cached
        new     == Unclaimed(misses)
    IN  IF misses = {}
        THEN /\ Commit(b, providers, providers \cup hits, Failing(hits, "no"), FALSE)
             /\ UNCHANGED <<loading, fetchVars, callVars>>
        ELSE /\ providers' = providers \cup hits
             /\ failed' = Failing(hits, "no")
             /\ Launch(new, c)
             /\ cst' = [cst EXCEPT ![c] = "syncWait"]
             /\ cdoc' = [cdoc EXCEPT ![c] = b]
             /\ corig' = [corig EXCEPT ![c] = providers]
             /\ cneed' = [cneed EXCEPT ![c] = misses]
             /\ cown' = [cown EXCEPT ![c] = {loading'[r] : r \in new}]
             /\ cwait' = [cwait EXCEPT ![c] = Pending(misses \ new, loading, fst, fby)]
             /\ UNCHANGED <<doc, cached, index, retained>>

(* PUT /api/blueprint, and import.                                         *)
Put(c) ==
    /\ "put" \in Ops /\ cst[c] = "idle" /\ MutexFree
    /\ \E S \in Puts : BeginWrite(c, S)

(* The edit routes (mutate): load, edit, persist.  None edits the sources. *)
Mutate(c) ==
    /\ "mutate" \in Ops /\ cst[c] = "idle" /\ MutexFree
    /\ BeginWrite(c, doc)

RefsOf(fs) == {fref[f] : f \in fs}
(* The handler has handled the results of `heard` and returns: the markers *)
(* of the others stay, and those still running go on unheard.              *)
Abandon(c, heard) ==
    LET done == {f \in cown[c] : fst[f] # "running"} IN
    /\ loading' = Marks(RefsOf(heard), done)
    /\ fst' = [f \in Fetches |-> IF f \in done THEN "free" ELSE fst[f]]
    /\ fref' = [f \in Fetches |-> IF f \in done THEN NoRef ELSE fref[f]]
    /\ fby' = [f \in Fetches |-> IF f \in cown[c] THEN Nobody ELSE fby[f]]

(* The wait is over: every channel closed and every result arrived, or the *)
(* timeout cut it short.  The handler locks again and takes the results;   *)
(* every other ref it set out to load counts as failed, one it waited for  *)
(* on another fetch's channel included.                                    *)
ResumeWrite(c) ==
    /\ cst[c] = "syncWait" /\ MutexFree
    /\ \E got \in SUBSET {f \in cown[c] : fst[f] # "running"} :
        LET stored == {f \in got : fst[f] = "stored"}
            lost   == cneed[c] \ RefsOf(stored)
        IN /\ (got = cown[c] /\ cwait[c] = {}) \/ Timeouts
           /\ \A f \in got : fst[f] # "broken"
           /\ Abandon(c, got)
           /\ Commit(cdoc[c], corig[c], providers \cup RefsOf(stored),
                     [r \in Refs |-> IF r \in RefsOf(stored) THEN "no"
                                     ELSE IF r \in lost THEN "recent" ELSE failed[r]],
                     lost # {})
    /\ Resting(c)

(* A result that is not a fetch failure (the package does not parse, or    *)
(* cannot be saved) ends the write at once: the results after it are not   *)
(* looked at, and srv.Providers goes back to what it was before the wait.  *)
BreakWrite(c) ==
    /\ cst[c] = "syncWait" /\ MutexFree
    /\ cwait[c] = {} \/ Timeouts
    /\ \A f \in cown[c] : fst[f] = "running" => Timeouts
    /\ \E bad \in cown[c], before \in SUBSET cown[c] :
        /\ fst[bad] = "broken"
        /\ \A f \in before : fst[f] \in {"stored", "failed"}
        /\ Abandon(c, before \cup {bad})
        /\ failed' = [r \in Refs |->
              IF r \notin RefsOf(before) THEN failed[r]
              ELSE IF \E f \in before : fref[f] = r /\ fst[f] = "stored"
                   THEN "no" ELSE "recent"]
    /\ providers' = corig[c]
    /\ Resting(c)
    /\ UNCHANGED <<doc, cached, index, retained>>

-----------------------------------------------------------------------------
(* The provider routes: each holds the mutex from its start to its end *)

(* What POST /api/providers does once r's package is in the cache, with    *)
(* `replaces` or without (NoRef), for document b.  A package of the wrong  *)
(* kind, or a failing write of the file, leaves its schemas in the cache.  *)
EndAdd(r, replaced, b, store) ==
    LET provs == (providers \cup {r}) \ {replaced} IN
    \/ /\ cached' = store
       /\ UNCHANGED <<doc, providers, index, retained, failed>>
    \/ /\ failed' = [q \in Refs |-> IF q = replaced THEN "no" ELSE failed[q]]
       /\ retained' = retained \ {replaced}
       /\ \/ /\ b # doc
             /\ cached' = store
             /\ UNCHANGED <<doc, providers, index>>
          \/ /\ doc' = b
             /\ MayFail(provs, store)
             /\ cached' = store
             /\ UNCHANGED <<providers, index>>
          \/ /\ doc' = b
             /\ Loadable(provs, store)
             /\ providers' = provs
             /\ index' = provs
             /\ cached' = IF replaced \in providers THEN store \ {replaced} ELSE store

(* POST /api/providers: a cached package is added at once; another one is  *)
(* fetched first, whoever else is fetching it, with the mutex held.        *)
AddProvider(c, r, replaced) ==
    LET b == (doc \ {replaced}) \cup {r} IN
    /\ (IF replaced = NoRef THEN "add" ELSE "replace") \in Ops
    /\ cst[c] = "idle" /\ MutexFree
    /\ replaced # r /\ replaced \in doc \cup {NoRef}
    /\ replaced = NoRef => ~(r \in providers /\ r \in doc)
    /\ IF r \in cached
       THEN /\ EndAdd(r, replaced, b, cached)
            /\ UNCHANGED <<loading, fetchVars, callVars>>
       ELSE /\ \E f \in Fetches :
                 /\ fst[f] = "free"
                 /\ fst' = [fst EXCEPT ![f] = "running"]
                 /\ fref' = [fref EXCEPT ![f] = r]
                 /\ fby' = [fby EXCEPT ![f] = c]
                 /\ cown' = [cown EXCEPT ![c] = {f}]
            /\ cst' = [cst EXCEPT ![c] = "adding"]
            /\ cdoc' = [cdoc EXCEPT ![c] = b]
            /\ UNCHANGED <<doc, cached, providers, index, retained, failed,
                           loading, corig, cneed, cwait>>

(* Its fetch returned: the handler goes on, or answers 502.  The document  *)
(* is still the one it started from, so what b lacks of it was replaced.   *)
FinishAdd(c) ==
    /\ cst[c] = "adding"
    /\ \E f \in cown[c], replaced \in Refs \cup {NoRef} :
        /\ fst[f] # "running"
        /\ doc \ cdoc[c] = {replaced} \ {NoRef}
        /\ IF fst[f] = "stored"
           THEN EndAdd(fref[f], replaced, cdoc[c], cached)
           ELSE UNCHANGED <<doc, cached, providers, index, retained, failed>>
        /\ fst' = [fst EXCEPT ![f] = "free"]
        /\ Freed({f})
    /\ Resting(c)
    /\ UNCHANGED <<loading>>

(* DELETE /api/providers/{ref} of a ref no resource is pinned to: a source *)
(* the server does not hold is dropped from the document only; a held one  *)
(* from the document, the providers, the index and then the cache.         *)
DeleteProvider(c, r) ==
    /\ "delete" \in Ops /\ cst[c] = "idle" /\ MutexFree
    /\ r \in providers \cup doc
    /\ doc' = doc \ {r}
    /\ \/ /\ r \in providers
          /\ MayFail(providers \ {r}, cached)
          /\ UNCHANGED <<cached, providers, index, retained, failed, loading>>
       \/ /\ r \in providers => Loadable(providers \ {r}, cached)
          /\ failed' = [q \in Refs |-> IF q = r THEN "no" ELSE failed[q]]
          /\ loading' = [q \in Refs |-> IF q = r THEN NoFetch ELSE loading[q]]
          /\ providers' = providers \ {r}
          /\ IF r \in providers
             THEN /\ cached' = cached \ {r}
                  /\ index' = providers \ {r}
                  /\ retained' = retained \ {r}
             ELSE UNCHANGED <<cached, index, retained>>
    /\ UNCHANGED <<fetchVars, callVars>>

(* Mutant: the cluster is declared as a source of the document. *)
Mut_SyncCluster(c) ==
    /\ "cluster" \in Ops /\ cst[c] = "idle" /\ MutexFree
    /\ doc' = doc \cup {Cluster}
    /\ cached' = cached \cup {Cluster}
    /\ providers' = providers \cup {Cluster}
    /\ index' \in Rebuilt(providers', cached')
    /\ UNCHANGED <<retained, failed, loading, fetchVars, callVars>>

(* POST /api/cluster/sync (and connect): the cluster's CRDs are cached     *)
(* under their own label and served like a provider's.  If the index       *)
(* cannot be rebuilt they stay among the providers all the same.           *)
SyncCluster(c) ==
    /\ "cluster" \in Ops /\ cst[c] = "idle" /\ MutexFree
    /\ cached' = cached \cup {Cluster}
    /\ providers' = providers \cup {Cluster}
    /\ index' \in Rebuilt(providers', cached')
    /\ UNCHANGED <<doc, retained, failed, loading, fetchVars, callVars>>

-----------------------------------------------------------------------------

FetchNext(f) == (\E o \in {"stored", "failed", "broken"} : FetchReturns(f, o))
                \/ BackgroundReports(f)
CallNext(c) == GenerateTrigger(c) \/ GenerateAnswer(c) \/ ResumeWrite(c)
               \/ BreakWrite(c) \/ FinishAdd(c)
Request(c) ==
    \/ Poll(c) \/ GenerateRead(c) \/ Put(c) \/ Mutate(c) \/ SyncCluster(c)
    \/ \E r \in Refs, replaced \in Refs \cup {NoRef} : AddProvider(c, r, replaced)
    \/ \E r \in Labels : DeleteProvider(c, r)

Next ==
    \/ \E c \in Clients : Request(c) \/ CallNext(c)
    \/ \E f \in Fetches : FetchNext(f)
    \/ \E r \in Refs : RetryDue(r)

Spec == Init /\ [][Next]_vars

(* Every channel call c waits for is closed, and its own fetches are over. *)
AllHeard(c) == cwait[c] = {} /\ \A f \in cown[c] : fst[f] # "running"

(* Goroutines that can run do, and get the mutex in turn (sync.Mutex hands *)
(* over to a starving waiter).  A fetch returns: its context has a         *)
(* deadline (sourceTimeout), an add's the patience of its client.  A wait  *)
(* ends when all it waits for has; that it may also time out is never      *)
(* relied on.                                                              *)
FairSpec ==
    /\ Spec
    /\ \A f \in Fetches : SF_vars(FetchNext(f))
    /\ \A c \in Clients : SF_vars(AllHeard(c) /\ CallNext(c))

(* Somebody keeps reading the index (the canvas polls while a source       *)
(* loads), time passes, and the registry, asked again and again, answers.  *)
OnlineSpec ==
    /\ FairSpec
    /\ \A c \in Clients : WF_vars(Poll(c))
    /\ \A r \in Refs : WF_vars(RetryDue(r))
    /\ \A r \in Refs : SF_vars(\E f \in Fetches : fref[f] = r /\ FetchReturns(f, "stored"))

-----------------------------------------------------------------------------
(* Properties *)

Live(f) == fst[f] # "free"

(* The fetch POST /api/providers makes itself. *)
OfAdd(f) == fby[f] \in Clients /\ cst[fby[f]] = "adding"

(* No two of the fetches that loading markers guard, those of background   *)
(* loading and of writes, are of one ref; a fetch POST /api/providers      *)
(* makes under the mutex may run beside at most one of them (server.go,    *)
(* the handleAddProvider comment).                                         *)
SingleFlight ==
    \A f, g \in Fetches :
        Live(f) /\ Live(g) /\ fref[f] = fref[g] /\ f # g => OfAdd(f) # OfAdd(g)

(* Every source the server holds can be listed: "the list always describes *)
(* a provider set whose cache entries all still exist" (the comment of     *)
(* handleListProviders).                                                   *)
HeldIsCached == providers \subseteq cached

(* A source the server serves kinds from is not also one it failed to      *)
(* load, for which generate would be refused.                              *)
HeldIsNotFailed == \A r \in Refs \cap providers : failed[r] = "no"

(* What makes SingleFlight inductive as long as no provider is deleted: a  *)
(* live fetch holds the marker of its ref unless it is an add's, a marker  *)
(* is never handed out twice, and one add at a time holds the mutex.       *)
MarkerGuards ==
    \A f \in Fetches :
        IF Live(f) THEN fref[f] \in Refs /\ (OfAdd(f) \/ loading[fref[f]] = f)
                   ELSE fref[f] = NoRef

(* Nobody waits for a channel nobody will close: what a generate or a      *)
(* write waits for is a fetch under way, of a source of its own document.  *)
AwaitedIsFetched ==
    \A c \in Clients : \A f \in cwait[c] : Live(f) /\ fref[f] \in cdoc[c]

(* Every request is answered. *)
RequestsAnswered == \A c \in Clients : cst[c] # "idle" ~> cst[c] = "idle"

(* The marker of r belongs to a fetch whose write stopped listening.       *)
Abandoned(r) ==
    \/ loading[r] = Closed
    \/ /\ loading[r] \in Fetches
       /\ Live(loading[r])
       /\ fby[loading[r]] = Nobody

(* Only a write cut short, by a timeout or by a package that does not      *)
(* parse, leaves a source in the loading state for ever: any other is held *)
(* in the end, or has failed and can be tried again.                       *)
LoadingEnds == \A r \in Refs : loading[r] # NoFetch ~> loading[r] = NoFetch \/ Abandoned(r)

(* A declared source that fails offline is loaded once the registry        *)
(* answers again, and generate then goes past it.                          *)
SourcesRecover == []<>SourcesLoad(doc)
=============================================================================
