# Formal model of composition-factory

`cf` keeps one *blueprint* (a YAML document that declares a composite API, the
resources it composes and the provider packages their schemas come from), edits
it through an HTTP API that a browser canvas and an MCP server call, caches the
schemas of provider packages pinned in a lockfile, and generates Crossplane
manifests from it. This directory holds TLA+ models of the parts where the order
of events or the combination of choices decides whether it is right, the TLC
instances that check them, and theorems about them checked by TLAPS.

    tlc -workers 2 -config Store_fetch.cfg MCSchemaStore     one run
    tlapm SchemaStore_proofs.tla                             one module's proofs

`PROJECT.json` lists the components, the runs, the mutants, the findings, the
hazards and, for each definition, the source lines it models.

## 1. Inventory

| component | state it keeps | operations | who calls it |
|---|---|---|---|
| schema cache and lockfile (`internal/cache/store.go`) | a `crds.json` per package ref, one lockfile `.cf.lock`, a memo per process, a mutex | `FetchAndSave`, `SaveCRDs`, `loadEntry`, `PinLock`, `Delete` | server fetches, add and delete handlers, `cf provider add`, `cf function add` |
| source server (`internal/api`) | the blueprint file, the providers served, the kind index, `failedSources`, `loadingSources`, the fetch goroutines | reads that trigger background loading, generate, document writes, provider add, replace, delete, cluster sync | canvas, MCP bridge |
| blueprint edits (`internal/blueprint/edit.go`) | one document | add, set, rename, delete of a parameter or a resource | the server's edit routes |
| parsing and validation (`load.go`, `validate_*.go`) | none | `Parse`, `Validate` | every load and write |
| generation (`internal/emit`, `cmd/cf/gen.go`) | the output directory | write outputs, prune orphans, `--check` | `POST /api/generate`, `cf gen` |
| pipeline assembly (`emit/pipeline.go`, `functions.go`) | none | order the steps, list functions and dependencies | generation |
| emitters (`emit/composition.go`, `kcl.go`, `python.go`, `structured.go`, ...) | none themselves; what they emit is run by Crossplane against a composite, an environment and observed statuses | `Composition`, `XRD`, `SampleXR`, the checks against schemas | generation, preview |
| canvas (`web-proto/js/store.js`) | the document as last answered, undo and redo stacks, the last generate result | a chain of operations, undo, redo, generate, reload | the user |
| MCP server (`internal/mcp`) | the handlers of the API, in its own process or in the server's | tools that read and write the document | agents |
| adopt, render, schemas and index, packages, cluster client, manifests, command line | none that outlives a call | translations between documents; access to a registry, a cluster, container images | server and commands |

How they interact. A handler of the server locks `srv.mu`. When a document it
writes declares a source that is not cached, the handler launches fetches
(`FetchAndSave`), *unlocks*, waits for their channels, and locks again; adding a
provider fetches it too, but keeps the mutex over the whole fetch. Index
reads launch the same fetches in the background, which lock `srv.mu` only to
report. Fetches share the Store: its mutex is held from reading the lockfile to
having rewritten it, but saving an entry and evicting a pin do not take it. The
edit routes load the document, apply one edit, validate, and persist it through
that same write. The canvas sends its operations one after the other and its
previews whenever the document it shows changes. A generation loads the
document, renders all outputs from it and from the environment configs it finds,
and writes file by file. What it writes, Crossplane runs again and again.

What is hard, and what makes each component correct:

- *cache and lockfile*: fetches of several refs interleave at file-system steps,
  a tag moves between two pulls, a write fails or the process dies with a file
  truncated. Correct means: nothing is cached that is not pinned, with the
  digest that is pinned; no rewrite of the shared lockfile loses a pin; nobody
  waits for ever for the mutex.
- *source server*: the mutex is released in the middle of a write; a wait may
  time out and leave its fetch behind; a delete removes the marker of a fetch
  under way; a source fails offline and must be tried again. Correct means: one
  fetch per ref behind the markers; nobody waits for a channel nobody closes, and
  every request is answered; what is served is cached; a source leaves the loading
  state, and one that failed is loaded in the end.
- *edits*: eight kinds of reference, in fields, conditions, loop bounds, raw
  text and templates, over two namespaces that share names; raw text is not
  validated. Correct means: a rename carries every reference along, a delete
  breaks none and names all it would break.
- *editors*: a canvas that queues operations, a script or an agent beside it,
  answers that arrive late or never, a handler that lets go of its mutex.
  Correct means: an edit changes its item and nothing else; a change the user
  was told of stays; undo and redo return to what was there; the preview is of
  the newest document.
- *generation*: outputs are written file by file, then orphans are pruned, and a
  run may stop anywhere; the operator's values live in files a run overwrites.
  Correct means: a complete run leaves exactly its outputs, whatever was there,
  and no value is lost.
- *pipeline assembly*: the emitter adds steps of its own between the author's,
  under names the author may use. Correct means: no step is lost or reordered,
  every function is installed, the environment is loaded first.
- *emitters*: optional parameters inside optional objects, statuses that are not
  observed yet, names taken from names, three engines with writers of their own.
  Correct means: no composite the XRD admits makes a render fail; the engines
  compose alike; a reference to a name is that name; required fields are there;
  what is asked for is composed in the end.

## 2. Order of the modules

Each uses what the ones before it establish.

1. `SchemaStore`, with the abstract `PinnedCache` it implements, and its proofs.
2. `SourceServer` over an abstract cache, and its proofs. The two meet in one
   assumption: `SchemaStore` is right about moving tags if no ref is fetched
   twice at once (`OnePerRef`), and `SourceServer` shows when that holds
   (section 6).
3. `BlueprintEdits` and its proofs: the edits the handlers of 2 and 4 apply.
4. `Editors`, with the abstract `UndoHistory` its canvas implements, and its
   proofs.
5. `Pipeline` (operators only) and its proofs, and `OutputTree`, which renders with
   them, and its proofs.
6. `Documents` and `Rendering` (operators only), `Reconcile`, which runs what
   they render, and its proofs.

Left for later: two processes on one lockfile and the pins of refs being
evicted; the half-done delete; a run of the pure checks of `Documents` against a
larger set of schemas; `adopt`, the inverse of the emitters; the requests of an
abandoned connection that run on.

## 3. Modules and the code they model

### SchemaStore (`internal/cache/store.go` and its callers)

Each thread (a goroutine of the server, or a command in a process of its own)
runs one operation on one ref, with a program counter and the locals of the Go
function. An action ends where another goroutine, another process or a crash can
get in between: `LookupMemo`, `ReadEntry` and `Remember` are the three separate
steps of `loadEntry`; `Fetch` is the pull, answering any digest the registry may
name (`Upstream`) or failing; `PinRead`, `PinWrite`, `PinFlush` are `PinLock`,
which holds the mutex over all three and returns with it released on every
error (`PinFail`, or a lockfile found truncated); `SaveWrite`, `SaveFlush`,
`SaveMemo` are `SaveCRDs`. `os.WriteFile` truncates first and writes after, so a
file is *torn* in between: `disk[r] = "torn"`, `lockTorn`. Whatever reads or
changes the memo (`LookupMemo`, `Remember`, `SaveMemo`, `DropMemo`) takes the same
mutex for that one step and so waits while another goroutine is inside `PinLock`.
`Drop`, `DropMemo` and
the three `Unpin` steps are `Store.Delete` and `evictProviderLocked`. `Crash`
ends a process between any two steps: files stay, memo and mutex are new.

`lock` is the set of pins last written *whole*; while `lockTorn` is set no reader
gets any.

### PinnedCache

What the store promises to a reader who only fetches: a ref is pinned before it
is served, served with the digest it is pinned to, and once served neither
changes. `SchemaStore` implements it with `pin <- lock` and `cache <- Served`
(the readable entries).

### SourceServer (`internal/api`)

What a handler does while it holds `srv.mu` is one action; the two handlers that
let go of it are split where they do.

| model | code |
|---|---|
| `doc` | the sources the blueprint file declares |
| `providers`, `index`, `retained` | `srv.Providers`, `srv.Index` (as the providers it was built over), `cachedProviders` |
| `failed`, `loading` | `failedSources` with its timestamps, `loadingSources` with their channels |
| `fst`, `fref`, `fby` | the fetch goroutines: state, ref, and who waits for the result |
| `cst`, `cdoc`, `corig`, `cneed`, `cown`, `cwait` | the locals of a handler across its wait |
| `Poll` | `GET /api/providers` and the index reads (`triggerBlueprintSourcesAsyncLocked`); the server's own trigger at start is the first `Poll` |
| `GenerateRead`, `GenerateTrigger`, `GenerateAnswer` | `handleGenerate`, `awaitBlueprintSources` |
| `Put`, `Mutate` | `handlePutBlueprint`, `mutate`; both go through `BeginWrite`, `ResumeWrite` or `BreakWrite`, and `Commit` (`syncBlueprintSourcesLocked`, `persistBlueprint`) |
| `AddProvider`, `FinishAdd` | `handleAddProvider` before and after its fetch; `EndAdd` is what follows the fetch. The mutex is held in between (`MutexFree` guards every other locked step) and the loading markers are neither looked at nor set |
| `DeleteProvider`, `SyncCluster` | the other provider and cluster routes |
| `Rebuilt`, `MayFail` | `rebuildIndexLocked`: the new index or, on an error, the old one. It fails for a provider without a cache entry, and over a CRD file of the document (`LocalFaults`) |
| `FetchReturns`, `BackgroundReports` | `fetchAndSaveSource`, `fetchSourceBackground` |
| `RetryDue` | `sourceRetryInterval` passes |

Abstractions: the cache is the set of refs `Store.Load` finds; the lockfile is
always writable (its failures are in `SchemaStore`); a delete is of a ref no
resource is pinned to (otherwise it answers 409 and changes nothing); the order
of the sources is kept only as the choice `relaid` of whether the write differs
in order or pipeline, which forces a rebuild; a cluster that cannot be reached
changes nothing and is no step; a PUT brings one of the source lists `Puts`. An add that is refused after its fetch, for a package of the
wrong kind or a lockfile that cannot be written, is the first disjunct of `EndAdd`.
Which items of a document a write overwrites is the matter of `Editors`.

### BlueprintEdits (`internal/blueprint/edit.go`)

`doc` is one document: the parameters with type and presence, the resources with
the references they hold, the resources `spec.xrd.status` is wired from, and the
texts of `spec.templates`. A reference is a kind and a name. Each of the eight
edits makes a copy (`WithParameter`, `ParameterRenamed`, ...), and `Commit`
validates it and replaces the document, as every edit in the file ends. A
refused edit changes nothing and is no step. `Validate` is the part of
`Blueprint.Validate` that is about names and references: what kind of
declaration each kind of reference may name (`Admits`), that a resource is not
wired to itself or to a looped one, `providerName` of a Namespaced XRD with
managed resources.

Abstractions: resources are unordered and unique by name; fields, envelope and
annotations, which the code walks in three equal loops, are one set of `wires`
and one of `raws`; an object parameter has one member; environment keys,
conventions, the literals of conditions and the wiring of a whole object onto a
map are left out. A text is what it reads, not its characters.

### Editors and UndoHistory (`store.js`, `internal/api/blueprint.go`, `internal/mcp`)

A document is the set of its items; its ETag stands for it. Two clients: the
canvas, with its chain of operations, and a script, which is an HTTP client or an
MCP agent, in the server's process or in `cf mcp`'s (`ScriptProcess`), which has
a mutex of its own.

| model | code |
|---|---|
| `file` | the blueprint file, replaced by a rename |
| `req` | the write each client has under way: `Lock`, `Unlock`, `Relock`, `Reject`, `Persist` are a handler from `srv.mu.Lock()` to its answer |
| `canvas`, `queue`, `running` | the store's document, undo and redo stacks; the promise chain; the operation whose request is under way |
| `load` | a `GET` outside the chain (`loadDoc`) |
| `output` | `scheduleGenerate`: the timer, the requests in the order of their `seq`, the result shown |
| `view` | what the script read before it writes |

`Enqueue` is a click; `Start` is the chain's turn, which takes the document of
an operation as it is *then*; `Succeed` and `Fail` are its two ends. A failure may
be a lost answer, with the change persisted. The canvas's operations go by
`Vias`: the whole document (`replace`), the route of one item (`param`), or a
clone made at the click (`draft`, section 7). `WaitingWrites` are the writes that
may find a declared source neither held nor cached, and so let go of the mutex: a
replace that brings one, and equally the route of one item (`mutate` persists
through the same function).

`UndoHistory` is what undo and redo promise: a line of documents and a place on
it. The canvas implements it; the document an undo is under way to is still part
of the line.

Abstractions: handler requests of an abandoned connection that run on are not
modelled; nor are drafts of forms. `want`, `behind` and `running.sole` are
ghosts: they remember what the user was told. So is `crossed`: for a write that has
let go of the mutex, the items others have changed in the file since.

### Pipeline and OutputTree (`internal/emit`, `cmd/cf/gen.go`, `api/generate.go`)

`Pipeline` is `EffectivePipeline`, the steps of the Composition, `functions.yaml`
and `dependsOn` as operators on a document, with the validation of declared steps
and environment configs. A package reference is a path with a tag or a digest;
`SplitRef` makes the dependency of it, and two references of one path are one
dependency. `OutputTree` has the directory (`tree`, from path to
content), the document, and the run of each generator, the server and a `cf gen`.
`Load` reads the document (the server holds its mutex from here to the end),
`Render` makes all outputs and reads back the environment configs it finds,
`Truncate` and `Fill` are the two halves of `os.WriteFile`,
`FindExistingManagedFiles` and `PruneOne` the removal of orphans, `Stop` a failure
or the end of the process between any two. Around it the document is replaced
(`PutBlueprint`), the operator types values (`Type`), and files are changed by
hand (`Tamper`).

The scalars of an environment config are what YAML makes of them: strings are
written in quotes and read back as they are, anything else is decoded as the number
it looks like and printed again (`Reprinted`; in the run `1.0` as `1` and `0.0` as
`0`, in the proofs any such table whose results are printed as themselves). `TemplateBody` is the inline template, whose last document fills in the
composite's status; `TemplateFiles` are the files, which do not have it.

Abstractions: what a document says is `text`, except for what decides which
files there are and what is in the environment configs and the runtime document.
The files of `templates/` are in the order of their numbers, which is the lexical
order of their names as long as there are fewer than a thousand (`%03d`).

### Documents, Rendering, Reconcile (`internal/blueprint`, `internal/emit`)

`Documents` is a blueprint as validation and the checks against the schemas see
it: `Valid` is `Blueprint.Validate` for a Namespaced XRD, `CheckFieldPaths`,
`Fits`, `CheckEnvelope`, `MissingRequired`, `ConventionsApply`,
`ForEachStatusBound` are the refusals of `internal/emit`. `ValidEmit` lets the
templates be on the file system for the Go template only. Schemas are functions
from paths to nodes; array elements and map keys are segments.

`Rendering` is what is emitted. `PlannedLines` is the plan of a resource: the
paths of its leaves with their sources, after names are followed (`Root`), typed
objects are spread over maps (`Expanded`), envelopes completed and annotations
added; `Plan` is made once, when the composition is generated. Then each engine:
`GoGuard` is the chain of `hasKey` tests the template wraps a line in,
`KclGuarded` KCL's `if`, and Python builds a value and drops what is `None`;
`GoWritesKey` and `KclWritesKey` say when a parent's key is written; conditions
and loop bounds likewise. `Withheld` is the Go template's outer guard over all
statuses a resource is wired from. `ShipsStatus` says whether the template that
fills in the composite's own status is shipped, which for templates on the file
system it is not. `Evaluates` says that nothing absent is
dereferenced, which `missingkey=error` turns into a failed render. `Admitted` is
what the generated XRD admits, `SampleXR` the composite previews are run on.

`Reconcile` runs it. `Run` is one run of the function pipeline and composes
exactly what was rendered; `Provide` fills in one status of something composed;
`EditXR`, `ChangeEnv` and `Recreate` change the composite, the environment, and a
composed resource under it. Crossplane and the providers are external: they are
modelled from what the emitted templates read and what becomes of their output.
`Wanted` is what can be composed at all: for the Go template the resources that come
up one after the other from those that wait for none, so no ring of resources wired
from one another; for KCL and Python, which withhold nothing, every resource whose
sources are composed, rings included.

Abstractions: values are small numbers; the enum of a parameter is the set of its
admissible values; text, quoting and raw templates are left out; free-form object
parameters are non-empty and wired at the top level, environment strings are
non-empty (section 7 says what happens otherwise).

The `MC` modules hold the values the configurations need; nothing in them changes
a definition. `Mut_` operators are plausible bugs: `PROJECT.json` says which
definition each one replaces to show that a property can fail.

## 4. Runs

| run | what it asks | bounds |
|---|---|---|
| `Store_fetch` | fetches only: cached schemas are pinned, with the pinned digest; no pin is lost; `PinnedCache` is implemented | 3 goroutines, 2 refs, 2 digests, one tag moving, any write may fail, 2 crashes |
| `Store_ends` | every operation, the server's goroutines beside a command: types, and every operation ends | 2 goroutines of the server, which contend for its mutex, and 1 command; 1 ref that may turn out to be of the wrong kind, any write may fail |
| `Src_flight` | the fetches behind markers are one per ref; a wait is for a live fetch of a source of its own document; requests are answered; sources leave the loading state | 2 clients, 2 refs, one unparsable, 2 fetches, every route but delete and cluster sync, the adds' own fetches, timeouts |
| `Src_recover` | every declared source is loaded in the end | 2 clients, 2 refs, polls, generates, deletes and cluster syncs, timeouts, rebuilds failing over CRD files |
| `Src_held` | *violated*: whatever is served has a cache entry | 1 client, 2 refs, polls, adds and deletes, no timeouts, no local faults |
| `Edits_references` | renames are accepted, deletes name all they would break, texts keep their names | 2 names and 1 ill-formed, in both namespaces; every kind of reference; 3 documents to start from |
| `Ed_one_server` | edits change one item, conditional replaces keep what their author has not seen, acknowledged changes stay, undo and redo walk one line, previews are current, the chain goes on | 2 items, 3 operations of the canvas and the script together, 2 undo steps; the canvas's writes and the script's edits of one item may wait for a source, the script's replaces may not; any refusal, any answer lost |
| `Ed_conditional` | *violated*: the same conditional replace, when it is the one that waits | 2 items, 2 operations |
| `Out_tree` | a complete run leaves exactly its outputs, typed values survive, ConfigMaps carry the templates; pipelines are assembled right | 2 generators, 2 runs, 3 documents, any stop, one file changed by hand; typed scalars that are printed otherwise when read; all pipelines of up to 2 steps, with two tags of one package |
| `Out_status` | *violated*: the files restore the inline template | 1 generator, 1 run, a document whose composite has statuses |
| `Rec_engines` | renders succeed, engines agree, names agree, required fields are there, what can be composed is composed | 13 documents for 3 engines and 7 that are refused, 3 kinds, every composite admitted, every environment, statuses in any order, 1 edit, change or recreation |
| `Rec_withheld` | *violated*: an unobserved source omits the field and no more | 1 document |

Why the bounds are enough. Two goroutines make every pair of steps interleave;
the third of `Store_fetch` lets a pin be written between two others. Two digests
are enough for a tag to move; refs interact through the one lockfile only, so
two show every interaction. Two crashes are a crash and one during the recovery
from it. In `Store_ends` two goroutines of one process are one that holds the
mutex and one that needs it, and the third is outside it. For the server, two
clients are one that waits and one that interferes, and two fetches let one outlive
its wait, or stand behind a marker, while another runs, which may be an add's; the
proofs of the invariants bound neither clients nor fetches (section 6). The edits'
names are shared by parameters and resources, so a rewrite in the wrong
namespace shows; one reference per resource is enough for one that is missed,
and the bodies with two show a rewrite that stops after the first. Two items are
one that an edit is about and one that it is not; three operations are an undo of
the second of two changes, and an edit between two others; a history of two steps
overflows within them. Two runs of a generation are one that leaves something
behind and one that meets it; the documents differ in every file that can come
and go. Two declared steps are a clash with each of the two names the emitter
picks. A document of the reconcile run has an optional object with a required
member, an optional one and one with a default, so every chain of guards has a
level that is absent above one that is required; one edit is enough, as every
composite is reached by one edit from the sample, and what a run composed before
an edit is what the run after it meets.

The passing runs between them fire every action. `Crash` happens in
`Store_fetch`, adds and evictions in `Store_ends`, the add's fetch in `Src_flight`,
the rebuild a delete is refused by in `Src_recover`. Deadlock is checked wherever
somebody can always act; the canvas and the script of `Ed_one_server` stop when their operations are used up.

## 5. Fairness

- `SchemaStore!FairSpec`: strong fairness of each thread. `sync.Mutex` passes to
  a starving waiter after a millisecond, so a thread that is enabled again and
  again when the mutex is free gets it. Crashes are switched off: a thread of a
  process that died is over by definition, and would say nothing about endings.
- `SourceServer!FairSpec`: strong fairness of each fetch and of each handler that
  has begun and heard from all it waits for. It has to be strong because an add may
  take the mutex again and again in between, and it may be because `sync.Mutex`
  passes to a starving waiter. A fetch returns because its context carries
  `sourceTimeout`; an add's own fetch has no deadline but its client's patience
  (`r.Context()`, `providers.go:232`), so that one returns is an assumption about
  clients and registries. A wait ends because the channels are closed by `defer`;
  that it may also time out is allowed and never relied on (`AllHeard`). Requests
  are not fair: no client has to call.
- `OnlineSpec` (recovery only): somebody keeps reading the index, the retry
  interval passes, and a registry that is asked about a ref again and again
  answers in the end (strong fairness of that answer). The canvas polls by itself
  while a source is loading (`palette.js`); after a failure it is the user's next
  search, listing or generate that triggers the retry, so this is an assumption
  about use, not about the code. Deletes, generates and failures stay free.
- `Editors!Fairness`: a handler that holds or waits for its mutex goes on, the
  chain starts the next operation, and the browser delivers an answer or reports
  its loss (a promise settles). Clicks and scripts are not fair.
- `Reconcile!Spec`: Crossplane runs the pipeline again and again, and a provider
  reports the status of what exists. The fairness of `Run` is weak fairness with
  `ENABLED` written out (`RunChanges`), which TLC evaluates much faster.

## 6. What is proved

Assumptions are the named `ASSUME`s of each module (distinct names, requests and
start documents of the right type); nothing bounds the sets. A theorem that needs
more says so in its `ASSUME`.

`SchemaStore_proofs`:

- `TypeCorrect`: for any mix of operations, faults and crashes.
- `FetchedIsPinned`, `FetchesKeepPins`, for fetches of one process, any number of
  goroutines and refs. `CachedIsPinned` is not inductive: a thread that saves
  must be known to have pinned. `PinFirst` adds that a thread inside `PinLock`
  owns the mutex and will write the lockfile it read with its own pin added, and
  that a thread about to save has its pin on disk. The mutex conjunct is what
  keeps a second thread's rewrite from overwriting the first's.
- `FetchedMatchesPin`, if no two fetches of a ref overlap, though tags move.
  `PinAgrees` adds what each thread has in hand at each step: the digest on disk
  if the entry was found, the one it has just pinned if it was not, and that the
  memo agrees with the disk.
- `FetchesImplementPinnedCache`: the initial state maps to the initial state of
  `PinnedCache`; a `PinFlush` is a `Pin`, a `SaveFlush` is a `Serve` or a
  stutter, every other step a stutter.

`SourceServer_proofs`:

- `ServerTypeCorrect`.
- `OneFetchPerRef`: as long as nothing is deleted, the fetches behind loading markers,
  those of background loading and of writes, are one per ref; beside one of them at
  most the fetch of one add is under way, since its handler holds the mutex.
  `MarkerGuards` is the inductive form: a live fetch holds the marker of its ref or
  is an add's. `Listening` says whose each fetch is: a call owns exactly the fetches
  it launched, and only one handler at a time is adding. Where nothing is added this
  discharges, for the server's fetches, the assumption under which the store serves
  what it pins. With an add it does not: `handleAddProvider` does not look at the
  markers. With deletes even the markers guard nothing, since a delete removes the
  marker of a fetch under way (the hazard at `server.go:841`). Then only
  `FetchedIsPinned` and `FetchesKeepPins` remain.
- `NobodyWaitsInVain`, with no assumption: adds, deletes, timeouts and abandoned
  writes included. `Awaiting` says that an open marker names a live fetch of its own ref
  (`MarkersLive`), that a fetch a call launched stays that call's until it returns
  (`Owned`), and that an awaited fetch runs or is in the background, so that a
  write which returns and frees its finished fetches frees none that another call
  still awaits.

`BlueprintEdits_proofs`:

- `EditsTypeCorrect`: each edit's copy is a document (`ParameterRenamedTyped`,
  `ResourceRenamedTyped`). That the document stays valid (`EditsStayValid`, used by
  the rest) is what `Commit` checks.
- `RenamesAlwaysAccepted`: from type and validity, with one lemma per rename. The
  argument is that every checked reference of the copy is the redirection of one
  of the original (`RedirectBodyFacts`), that what the original resolved to is
  where the redirection points, and that the other namespace is untouched.
- `ReferencersAlwaysNamed`: a resource a delete would break holds a reference
  that resolved and no longer does, and the scan looks at every such kind.
- `TextAlwaysSurvives`: texts are not validated, so this one rests on the
  rewrites (`RedirectedText`) and the scans alone.

`Editors_proofs`, for any items, any number of operations and requests, and any
depth of undo. The assumptions on constants that a theorem needs beyond the named
ones are in its statement; section 7 says what the code does without them.

- `EditorsTypeCorrect`. `Typed` adds what each operation in the chain is made of
  (`Made`) and that the two stacks together stay within `HistoryCap`, one less
  while an undo or redo is under way (`Bounded`): only so is there room to put its
  target back.
- `ToldIsKept`, under `OneLoad` (documents are made when their turn comes, and
  loaded once), for writes of one process or of two. `Keeping` says that what was
  told of an item holds of three documents at once, of the file, of the one the
  canvas shows and of the one its request carries, and that nothing is told of the
  item of the operation under way. The middle one is why a `replace` built from the
  canvas's document does not resurrect anything. It needs no mutual exclusion: a
  write of another client that gets in between is a change of its items, and those
  are no longer told of.
- `OthersUntouched`, under `OneServer` (the script writes through the canvas's server):
  any write may let go of the mutex. `Serial` is the mutex with its hole: no two
  requests hold it, and the document of an item's route, held or waiting, differs
  from its edit applied to the file *as it is now* in at most the items `crossed` by
  others since it let go (`Late`). Without a wait that is nothing at all, so a route
  that did not wait changes its one item. What the theorem leaves a waiting route is
  exactly the stale write-back of section 7, and no item more.
- `RevisionKept`, under `OneServer` and `Conditional` (the replace that names a
  revision does not itself wait; every other write may): a request that holds the
  mutex has the file as it was compared (`Compared`). `Ed_conditional` shows why the
  second assumption is needed.
- `PreviewStaysCurrent`, with no assumption. `Current` names the five places
  a newer preview can still be in, from the timer to the answer shown.
- `UndoIsKept`, the refinement of `UndoHistory`, where the document is loaded once.
  `Walk` says that a target under way is what the request carries or what was
  refused, and that an operation remembers the document the canvas still shows.
  Each step is then a matter of sequences: moving the document shown from one stack
  to the other leaves the line as it is (`Shift`), and a change cuts the line where
  `Recorded` cuts the stack (`Cut`).

`OutputTree_proofs`, for any documents, any number of generators and runs, any
paths edited by hand (`ByHandAssumption`: in the managed directories):

- `TreeTypeCorrect`. `Sound` adds what a run has in hand, and that the next path
  of a set that is not empty is one of it (`NextPathIn`).
- `RunsLeaveInSync`, under `AllReadBack`: no document leaves a key of type `number`
  open, and no key is a string in one document and open as another type in a second
  (section 7). `Progress` says that what a run is past is in the tree as it was
  rendered, while it prunes, that the tree is its outputs and its orphans and nothing
  else, and of a run that has completed, that the tree is a rendering of its document;
  it is inductive for any documents (`TreeProgresses`) and makes no assumption on what
  was there before. `SoundFiles` adds which keys can be in quotes. That rendering over
  the result gives the same (`OutputsTwice`) is the fact about data: what was printed
  once is read and printed as itself (`FormatTwice`), which `0.0` is not.
- `TypedSurvives`, with no assumption on what is typed: a value is in its file as it
  was typed, or as it is printed after it was read, which reading does not change
  again (`ReprintedAssumption`). `Survive` says where a value is: in its file, or the
  file is empty and a run in its hands that has rendered it; every run that has
  rendered has rendered it, so none prunes the file; and as long as anything is
  counted on, every run is of the document on disk. Uniqueness of config names
  (`OneConfigPerName`), which validation enforces, makes the config that leaves the
  key open the one the file is rendered from. Values in a file left truncated are
  lost (section 7) and no longer counted on (`Forget`).
- `TemplatesAreCarried`, for templates of any number and sizes. After each file the
  groups, one after the other, are the files so far, and each is within the cap
  (`Carries`); a file that alone exceeds it is refused before (`Packable`). That the
  tree holds what the run rendered is `TreeProgresses` again. It is about the files,
  which are not the whole inline template (`Out_status`).
- `DeclaredStepsAreKept`, `FunctionsAreInstalled`, `EnvironmentIsReadable`: the
  lemmas of `Pipeline_proofs`, asked of every document of the runs.

`Pipeline_proofs`, for declared pipelines of any length up to `MaxSteps`. The code's
loops are folds here. The provers have no induction over a data type, so a fold is
first shown to be the last value of a function over the positions (`Iterates`,
`Throughout`), which gives each fold two equations (`KeptFold`, `ListedFold`,
`DependedFold`); what holds of every prefix then follows because the set of
positions where it fails can have no least element (`NoneFails`).

- `StepsAreKept`. A valid pipeline has nothing for the deduplication to lose
  (`NothingLost`), and the step the emitter adds has a name no declared step has.
  That there is one is again the pigeonhole principle (`FreshIsFree`): one more name
  is tried than there are steps. It needs the names tried to differ
  (`SuffixesDiffer`, which TLC evaluates; the library's `ToString` has no
  definition a prover could use). The added step comes first, so each side of the
  templating step is the declared one with at most that step in front
  (`SidesInFront`).
- `FunctionsAreDeclared`: the list has each function once because a function is
  appended only if none before it is of its name, and with the package of *each*
  step that runs it because validation refuses two packages for one function. Of
  the packages, a path is depended on once (`DependedOnce`), at the version of the
  first function that names it: another tag of the path, under another function's
  name, is installed and not depended on.
- `EnvironmentIsLoaded`: whether the loading step is declared, declared without
  input or added, it stands before the templates, and what the emitter writes as
  its input has an entry for each config (`EntryFinds`).

`Rendering_proofs` and `Reconcile_proofs`, for any documents of the shape the
parser gives them (`DocsAssumption`: paths are sequences, an enum is a set of
numbers with a greatest, a condition has one of three operators), any schemas
whose paths are sequences (`CrdsAssumption`) and numbers in the environment
(`ValuesAssumption`):

- `RenderAlwaysSucceeds`. The inductive invariant `Generated` says that the document
  is one the emitters take, the plan its plan, and the composite admitted; whatever
  is observed needs no invariant. Three facts carry it. Every source of a plan is
  declared (`PlannedSound`), also the ones a name is followed to, by the least step
  at which that would fail. The chain of guards of a parameter starts at its first
  optional level: what is before it is required all the way and so present in every
  admitted composite (`RequiredPresent`), and each test looks in a map the tests
  before it found (`ChainGuards`). Loop bounds and conditions have no guard, and
  validation lets them name only what is always there (`AlwaysThere`).
- `ReconcileTypeCorrect`. That `SampleXR` is admitted (`SampleAdmitted`) is the part
  with content: an optional object is filled in exactly when something required or
  defaulted is below it all the way, so no member comes without its parents.
- `EnginesAlwaysAgree`, under `ObjectsAtTop` (a whole object wired is a top-level
  parameter; section 7 says what the Go guard does otherwise, and the run evaluates
  it for its documents). `LinesAgree` shows that the Go chain, KCL's `!= None` and
  Python's dropped `None` hold of the same lines (`ShownAlike`), and that a line
  written has all its parents' keys written (`ParentsWritten`); `WhenAgrees` and
  `CountsAgree` do the same for conditions and loop bounds, where absent is false in
  one engine and a missing key in another.
- `NamesAlwaysAgree`, under `ObjectsAtTop`. A reference and the name it refers to
  are followed each from its own start, as many steps as there are resources, so
  that they end at one source only if both have arrived by then. `NamesSettle`
  shows it: without a cycle each step that changes a name goes to a resource not
  met before, and there is one step more than resources (the pigeonhole principle).
  Where the reference is rendered its guard holds, so the name is not the default.
- `RequiredAlwaysRendered`, under `ObjectsAtTop`. `CheckRequiredFields` gives each
  required path of the schema a field at, above or below it. A field keeps its line
  in the plan unless it is an object spread over members, and then one of its lines
  is near the required path too (`RequiredExpanded`, `MemberBelow`). A line whose
  source cannot be absent is in the composed resource, whichever engine writes it
  (`CertainLine`, by `RequiredPresent` for parameters and by `LinesAgree` from the Go
  template to the two others). So where nothing is composed near a required path,
  each source planned there may be absent, and a parameter wired straight to it is
  one the warnings name. A required member of the envelope that the document sets has
  an entry that cannot be absent, or it is refused (`EnvelopeRequired`), so it is
  composed. What the statement excepts is in section 7, *Checks*.

Only model-checked: liveness under fairness (`OperationsEnd`, `LoadingEnds`,
`RequestsAnswered`, `SourcesRecover`, `OperationsSettle`, `ComposesWhatIsAsked`),
out of this prover's reach. Every invariant and every action property of a passing
run is stated by a theorem.

## 7. What the models found

Runs whose counterexample is a behaviour of the code that a comment, a doc or a
test of the repository rules out:

- `Src_held`: a background fetch stores its package without the mutex and reports
  under it. When an add serves the package from the cache in between and a delete
  evicts it, the report serves it again (`server.go:862`) without looking at the cache
  or the document. Until the package is cached again every listing of the providers
  answers 500 and every rebuild of the index fails, which `providers.go:56-58` says the mutex excludes.
- `Ed_conditional`: a replace with `If-Match` that brings a source to fetch is
  compared before the wait and written after it (`blueprint.go:148`); an edit
  answered meanwhile is overwritten.
- `Out_status`: a composition whose templates are on the file system never fills in
  `spec.xrd.status`. The inline template ends with a document that does
  (`composition.go:182-186`), `TemplateFiles` (`fsexport.go:37`) does not write it,
  and the comments of both say that the files reproduce the inline body exactly.
- `Rec_withheld`: the Go template withholds a whole resource while a status it is
  wired from is not observed (`composition.go:296`), so a source that is made anew
  deletes what depends on it; `docs/dsl.md:209` says the field is omitted.

Seen with the same modules under other constants, or by reading while modelling:

- *Sources.* An edit whose wait times out, or which fails over one package while
  it waits for another, leaves the loading marker of its fetch (`blueprint.go:708`),
  and no later request fetches that ref, against `server_test.go:1237-1239`:
  `LoadingEnds` of `Src_flight` excepts these (`Abandoned`) and says that nothing
  else leaves one. A write that waits on another request's fetch records that source
  as failed even if it succeeded (`blueprint.go:742`), and an add leaves a failure in
  place (`providers.go:257`): `HeldIsNotFailed` fails with one client, a mutate and
  an add. A write that fails after its wait puts back the provider list of its start
  (`blueprint.go:801`), also over a delete: `HeldIsCached` fails with two clients,
  a put and a delete and no background fetch at all. `handleAddProvider` fetches a
  ref that is being fetched already, since it does not look at the markers; a delete
  removes the marker of a fetch under way, and with deletes `SingleFlight` fails.
- *Lockfile.* An eviction rewrites the lockfile without the Store's mutex
  (`providers.go:504`) and drops the pin of a ref fetched at that moment, an add
  that is refused or cannot pin leaves unpinned schemas (`providers.go:215`,
  against its own comment at 168-172): `RestingCacheIsPinned` fails with the
  operations of `Store_ends`.
- *Deletes and renames.* A delete has rewritten the document when its index
  rebuild fails (`providers.go:420`). A resource the XRD status is wired from cannot
  be renamed, because `RenameResource` does not rewrite `spec.xrd.status`
  (`edit.go:367`); `RenamesAccepted` excepts it for that reason.
- *Canvas.* A few deletes clone the document at the click (`palette.js:1391`,
  `inspector/events.js:335`), against `store.js:43-47`: `OwnEditsKept` fails with
  `Vias = {"replace", "draft"}`. A second load outside the chain does the same
  (`MaxLoads = 2`).
- *Writes that wait.* The route of one parameter or resource that finds a declared
  source neither held nor cached lets go of the mutex with the edited document in
  hand (`blueprint.go:690`) and persists it afterwards: an edit of another item,
  answered 200 meanwhile, is written back to what it was. With `{}` in place of
  `crossed[c]` in `EditsChangeOneItem`, `Ed_one_server` shows it. A change of the
  canvas that is lost so is one another client wrote over, and `OwnEditsKept` does
  not count on it any more.
- *Processes.* With `ScriptProcess = "mcp"` the two mutexes order nothing, as the
  comment at `server.go:120-150` says, and `EditsChangeOneItem` fails.
- *Generation.* An open key of type `number` is written `0.0` and read back as `0`
  (`environment_config.go:149`), so `--check` reports drift right after the first
  generation: `WrittenIsInSync` fails when a document has one. Numbers an operator
  types are rewritten by the next generation (`1.0` to `1`, `1e3` to `1000`, an
  unquoted version `1.10` to `1.1`); whole numbers beyond 2^53 are rounded, and a
  value JSON cannot hold (`.nan`, `1e400`) makes the file unreadable, so that the
  next generation writes over all of it. A run stopped between the two halves of
  `os.WriteFile`, or another one that renders then, loses the values of that file
  (`gen.go:158`): `Forget` takes those off the account of `ValuesSurvive`.
- *Dependencies.* Two steps that name one package path at two tags are both listed
  in `functions.yaml`, and `dependsOn` keeps the first tag only
  (`configuration.go:120-126`).
- *Statuses.* Resources wired from each other's status pass validation, and the Go
  template never composes any of them: such a ring is among the documents of
  `Rec_engines`, and `ComposesWhatIsAsked` says that none of it is composed by the Go
  template and all of it by the two others. KCL and Python do not fill
  `spec.xrd.status`, nor do templates on the file system (`Out_status`).
- *Names.* A looped resource `q` and a resource `q-0` compose the same name. A
  reference to the name of a managed resource renders `$xr-<resource>`, though such
  a resource is given no `metadata.name`. The cycle check of name references also
  refuses `a.field -> b.name -> a.name`, which is none. A reference to a native
  resource whose name is an absent optional parameter is omitted while the
  resource is named `$xr-<resource>` (`dsl.md:210`); an empty one names the resource
  with the empty string in Go, with the default in KCL and Python.
- *Objects.* A free-form member (`cfg.labels`) wired to a map is looked up as one
  key by the Go guard and dropped, while KCL and Python render it (`EnginesAgree`
  and `ObjectsAtTop` fail with such a document); a free-form
  object wired to native `metadata.annotations` is dropped by all. An empty object
  renders an empty key in Go.
- *Checks.* An element of an array that lacks a required member is not refused if
  another element sets it (indices are looked up as `[0]`), and `routes[1].tags[env]`
  is refused where `routes[0].tags[env]` is accepted. There are three ways in which a
  required field can be missing from what is composed without a warning of
  `CheckOptionalParamWires` (`plan.go:246`): it is wired from the name of a resource
  that an optional parameter names; the only member set of a required object is an
  optional one from an optional parameter, or a whole object is spread over it whose
  members are all optional; an environment key without a default feeds it.
  `RequiredRendered` says of these only that every source may be absent. A negative
  `forEach` count iterates `0, -1, ...` in Go, and not at all elsewhere. A present
  but empty environment string takes the default in Go and not in Python.

## 8. Not modelled, and why

`adopt` and manifests translate documents one way each, without a state; render
and preview run external images and compare texts. The schema index does not
change once built, and its search ranks matches. The registry, the cluster and
the function images are the environment: they may answer or fail. The transports
of the MCP server carry requests modelled here. Of validation, the grammar (names,
patterns, YAML, template and raw text) is left out; a Cluster-scoped XRD is not
modelled. A whole-document PUT is in `SourceServer` for its sources and in
`Editors` for its items, not in `BlueprintEdits`: it may replace everything, and
there only `Validate` binds it.
