---------------------------- MODULE SchemaStore ----------------------------
(***************************************************************************)
(* The schema cache and the lockfile (internal/cache/store.go) with the    *)
(* callers that fill, add to and evict from them, one action per step that *)
(* another goroutine, another process or a crash can separate.             *)
(*                                                                         *)
(* A cache entry is one crds.json per ref, written with os.WriteFile: it   *)
(* is truncated first and filled after, so a reader in between (or after a *)
(* crash in between) finds it unreadable.  The lockfile is one file for    *)
(* all refs, rewritten whole the same way.  Each process keeps one Store:  *)
(* a memo of the entries it has read or saved, and a mutex that PinLock    *)
(* holds from reading the lockfile to having rewritten it; every look at   *)
(* the memo and every change of it waits for that mutex too.               *)
(*                                                                         *)
(* A thread runs one operation at a time on one ref:                       *)
(*   fetch   FetchAndSave with the lockfile's path (a background or sync   *)
(*           fetch of the server)                                          *)
(*   add     POST /api/providers or /api/functions: FetchAndSave with no   *)
(*           lockfile, the package-kind check, then PinLock                *)
(*   evict   evictProviderLocked: delete the entry, then drop the pin      *)
(*   cliAdd  `cf provider add`: as add, in a process of its own, deleting  *)
(*           what it saved when it is refused                              *)
(***************************************************************************)
EXTENDS Naturals

CONSTANTS
    Threads,      \* goroutines of the server and CLI processes
    Procs,        \* processes, each with its own Store
    ProcOf,       \* the process a thread belongs to
    Server,       \* the process that is `cf serve`
    Refs,         \* package references
    Digests,      \* package digests
    Upstream,     \* the digests the registry may answer for a ref: one for a
                  \* ref pinned by digest, several for a tag that moves
    WrongKind,    \* refs that may turn out to name a package of the kind
                  \* add and cliAdd refuse
    Ops,          \* the operations threads run, a subset of AllOps
    OnePerRef,    \* operations that never run twice at once on one ref, as
                  \* the server's loading markers arrange for fetches
    WriteFaults,  \* whether a write to disk can fail
    MaxCrashes,   \* bound on process crashes
    Absent, NoThread

AllOps == {"fetch", "add", "evict", "cliAdd"}

ASSUME ProcAssumption == /\ ProcOf \in [Threads -> Procs]
                         /\ Server \in Procs
                         /\ NoThread \notin Threads
ASSUME DataAssumption == /\ Upstream \in [Refs -> SUBSET Digests]
                         /\ WrongKind \subseteq Refs
                         /\ Absent \notin Digests
                         /\ "torn" \notin Digests
                         /\ Absent # "torn"
ASSUME EnvAssumption  == /\ Ops \subseteq AllOps
                         /\ OnePerRef \subseteq AllOps
                         /\ WriteFaults \in BOOLEAN
                         /\ MaxCrashes \in Nat

VARIABLES
    disk,      \* crds.json of each ref: its digest, Absent, or "torn"
    lock,      \* the pins last written whole to the lockfile
    lockTorn,  \* the lockfile is truncated: ReadLock fails
    memo,      \* Store.memo of each process
    mutex,     \* the thread that holds Store.mu of each process over a PinLock
    pc, op, ref, got, buf, fresh, was,  \* the locals of each thread
    crashes

locals == <<pc, op, ref, got, buf, fresh, was>>
vars == <<disk, lock, lockTorn, memo, mutex, locals, crashes>>

Pins == [Refs -> Digests \cup {Absent}]

PCs == {"idle", "probe", "lookup", "read", "remember", "fetch", "pinRead",
        "pinWrite", "pinFlush", "saveWrite", "saveFlush", "saveMemo", "check",
        "drop", "dropMemo", "unpinRead", "unpinWrite", "unpinFlush"}

TypeOK ==
    /\ disk \in [Refs -> Digests \cup {Absent, "torn"}]
    /\ lock \in Pins
    /\ lockTorn \in BOOLEAN
    /\ memo \in [Procs -> Pins]
    /\ mutex \in [Procs -> Threads \cup {NoThread}]
    /\ pc \in [Threads -> PCs]
    /\ op \in [Threads -> AllOps]
    /\ ref \in [Threads -> Refs]
    /\ got \in [Threads -> Digests \cup {Absent}]
    /\ buf \in [Threads -> Pins]
    /\ fresh \in [Threads -> BOOLEAN]
    /\ was \in [Threads -> BOOLEAN]
    /\ crashes \in 0..MaxCrashes

NoPins == [r \in Refs |-> Absent]

(* An empty cache and no lockfile: ReadLock of a missing file is an empty  *)
(* lock, not an error.  A thread's locals mean nothing until its Start.    *)
Init ==
    /\ disk = [r \in Refs |-> Absent]
    /\ lock = NoPins
    /\ lockTorn = FALSE
    /\ memo = [p \in Procs |-> NoPins]
    /\ mutex = [p \in Procs |-> NoThread]
    /\ pc = [t \in Threads |-> "idle"]
    /\ op = [t \in Threads |-> "fetch"]
    /\ ref \in [Threads -> Refs]
    /\ got = [t \in Threads |-> Absent]
    /\ buf = [t \in Threads |-> NoPins]
    /\ fresh = [t \in Threads |-> FALSE]
    /\ was = [t \in Threads |-> FALSE]
    /\ crashes = 0

-----------------------------------------------------------------------------

Goto(t, l) == pc' = [pc EXCEPT ![t] = l]

(* The operation returns, and its locals are gone. *)
Return(t) ==
    /\ Goto(t, "idle")
    /\ op' = [op EXCEPT ![t] = "fetch"]
    /\ got' = [got EXCEPT ![t] = Absent]
    /\ buf' = [buf EXCEPT ![t] = NoPins]
    /\ fresh' = [fresh EXCEPT ![t] = FALSE]
    /\ was' = [was EXCEPT ![t] = FALSE]

Proceed(t, l) ==
    IF l = "idle" THEN Return(t)
                  ELSE Goto(t, l) /\ UNCHANGED <<op, got, buf, fresh, was>>

Files == <<disk, lock, lockTorn>>

(* An add or evict handler holds srv.mu from its start to its end, so the  *)
(* server runs one of them at a time; fetches run without it.              *)
UnderServerMu(o) == o \in {"add", "evict"}

Start(t, o, r) ==
    /\ pc[t] = "idle"
    /\ o \in Ops
    /\ (o = "cliAdd") <=> (ProcOf[t] # Server)
    /\ UnderServerMu(o) => \A u \in Threads :
            ProcOf[u] = Server /\ pc[u] # "idle" => ~UnderServerMu(op[u])
    /\ o \in OnePerRef => \A u \in Threads :
            pc[u] # "idle" /\ op[u] \in OnePerRef => ref[u] # r
    /\ op' = [op EXCEPT ![t] = o]
    /\ ref' = [ref EXCEPT ![t] = r]
    /\ got' = [got EXCEPT ![t] = Absent]
    /\ buf' = [buf EXCEPT ![t] = NoPins]
    /\ fresh' = [fresh EXCEPT ![t] = FALSE]
    /\ was' = [was EXCEPT ![t] = FALSE]
    /\ Goto(t, CASE o = "evict"  -> "drop"
                 [] o = "cliAdd" -> "probe"
                 [] OTHER        -> "lookup")
    /\ UNCHANGED <<Files, memo, mutex, crashes>>

(* cliAdd first asks whether the ref was cached, to know whether a refusal *)
(* may delete the entry.                                                   *)
Probe(t) ==
    /\ pc[t] = "probe"
    /\ mutex[ProcOf[t]] = NoThread
    /\ was' = [was EXCEPT ![t] = disk[ref[t]] \in Digests]
    /\ memo' = IF disk[ref[t]] \in Digests
               THEN [memo EXCEPT ![ProcOf[t]][ref[t]] = disk[ref[t]]]
               ELSE memo
    /\ Goto(t, "lookup")
    /\ UNCHANGED <<Files, mutex, op, ref, got, buf, fresh, crashes>>

(* Where an operation that found its entry cached goes next: FetchAndSave  *)
(* with a lockfile pins the entry's digest; without one it returns to the  *)
(* caller's kind check.                                                    *)
AfterHit(t) == IF op[t] = "fetch" THEN "pinRead" ELSE "check"

(* loadEntry, in its three separate steps: the memo under a read lock, the *)
(* file under none, the memo again under the write lock.  Both locks are   *)
(* Store.mu's, so both wait while some PinLock of the process holds it.    *)
LookupMemo(t) ==
    /\ pc[t] = "lookup"
    /\ mutex[ProcOf[t]] = NoThread
    /\ LET hit == memo[ProcOf[t]][ref[t]] IN
        /\ got' = [got EXCEPT ![t] = hit]
        /\ Goto(t, IF hit # Absent THEN AfterHit(t) ELSE "read")
    /\ UNCHANGED <<Files, memo, mutex, op, ref, buf, fresh, was, crashes>>

(* Mutant: an undecodable crds.json is taken for an entry. *)
Mut_ReadEntry(t) ==
    /\ pc[t] = "read"
    /\ got' = [got EXCEPT ![t] = disk[ref[t]]]
    /\ Goto(t, IF disk[ref[t]] # Absent THEN "remember" ELSE "fetch")
    /\ UNCHANGED <<Files, memo, mutex, op, ref, buf, fresh, was, crashes>>

ReadEntry(t) ==
    /\ pc[t] = "read"
    /\ \/ /\ disk[ref[t]] \in Digests
          /\ got' = [got EXCEPT ![t] = disk[ref[t]]]
          /\ Goto(t, "remember")
       \/ /\ disk[ref[t]] \notin Digests
          /\ Goto(t, "fetch")
          /\ UNCHANGED got
    /\ UNCHANGED <<Files, memo, mutex, op, ref, buf, fresh, was, crashes>>

Remember(t) ==
    /\ pc[t] = "remember"
    /\ mutex[ProcOf[t]] = NoThread
    /\ memo' = [memo EXCEPT ![ProcOf[t]][ref[t]] = got[t]]
    /\ Goto(t, AfterHit(t))
    /\ UNCHANGED <<Files, mutex, op, ref, got, buf, fresh, was, crashes>>

(* Mutant: the schemas are saved before they are pinned. *)
Mut_Fetch(t) ==
    /\ pc[t] = "fetch"
    /\ \E d \in Upstream[ref[t]] :
          /\ got' = [got EXCEPT ![t] = d]
          /\ fresh' = [fresh EXCEPT ![t] = TRUE]
          /\ Goto(t, "saveWrite")
    /\ UNCHANGED <<Files, memo, mutex, op, ref, buf, was, crashes>>

(* The pull: it answers one of the ref's upstream digests, or fails (the   *)
(* registry refuses, times out, or the package does not parse).            *)
Fetch(t) ==
    /\ pc[t] = "fetch"
    /\ \/ /\ \E d \in Upstream[ref[t]] : got' = [got EXCEPT ![t] = d]
          /\ fresh' = [fresh EXCEPT ![t] = TRUE]
          /\ Goto(t, IF op[t] = "fetch" THEN "pinRead" ELSE "saveWrite")
          /\ UNCHANGED <<op, buf, was>>
       \/ Return(t)
    /\ UNCHANGED <<Files, memo, mutex, ref, crashes>>

-----------------------------------------------------------------------------
(* PinLock: the whole read-modify-write under the Store's mutex.           *)

(* Where an operation goes when its package was refused, or its PinLock    *)
(* failed: cliAdd cleans up what it cached itself.                         *)
AfterRefusal(t) ==
    IF op[t] = "cliAdd" /\ ~was[t] THEN "drop" ELSE "idle"

(* Mutant: the lockfile is read without waiting for the mutex. *)
Mut_PinRead(t) ==
    /\ pc[t] = "pinRead"
    /\ ~lockTorn
    /\ mutex' = [mutex EXCEPT ![ProcOf[t]] = t]
    /\ buf' = [buf EXCEPT ![t] = [lock EXCEPT ![ref[t]] = got[t]]]
    /\ Goto(t, "pinWrite")
    /\ UNCHANGED <<Files, memo, op, ref, got, fresh, was, crashes>>

(* Mutant: a pin the lockfile already has is left at its old digest. *)
Mut_PinReadKeeps(t) ==
    /\ pc[t] = "pinRead"
    /\ mutex[ProcOf[t]] = NoThread
    /\ ~lockTorn
    /\ mutex' = [mutex EXCEPT ![ProcOf[t]] = t]
    /\ buf' = [buf EXCEPT ![t] =
                  [lock EXCEPT ![ref[t]] = IF @ = Absent THEN got[t] ELSE @]]
    /\ Goto(t, "pinWrite")
    /\ UNCHANGED <<Files, memo, op, ref, got, fresh, was, crashes>>

PinRead(t) ==
    /\ pc[t] = "pinRead"
    /\ mutex[ProcOf[t]] = NoThread
    /\ IF lockTorn
       THEN Proceed(t, AfterRefusal(t)) /\ UNCHANGED mutex
       ELSE /\ mutex' = [mutex EXCEPT ![ProcOf[t]] = t]
            /\ buf' = [buf EXCEPT ![t] = [lock EXCEPT ![ref[t]] = got[t]]]
            /\ Goto(t, "pinWrite")
            /\ UNCHANGED <<op, got, fresh, was>>
    /\ UNCHANGED <<Files, memo, ref, crashes>>

PinWrite(t) ==
    /\ pc[t] = "pinWrite"
    /\ lockTorn' = TRUE
    /\ Goto(t, "pinFlush")
    /\ UNCHANGED <<disk, lock, memo, mutex, op, ref, got, buf, fresh, was, crashes>>

(* A fetched package is saved once its pin is on disk; a cached one needed *)
(* the pin only, and add and cliAdd saved before pinning.                  *)
PinFlush(t) ==
    /\ pc[t] = "pinFlush"
    /\ lock' = buf[t]
    /\ lockTorn' = FALSE
    /\ mutex' = [mutex EXCEPT ![ProcOf[t]] = NoThread]
    /\ Proceed(t, IF op[t] = "fetch" /\ fresh[t] THEN "saveWrite" ELSE "idle")
    /\ UNCHANGED <<disk, memo, ref, crashes>>

(* Mutant: the error return of PinLock leaves the mutex locked. *)
Mut_PinFail(t) ==
    /\ WriteFaults
    /\ pc[t] \in {"pinWrite", "pinFlush"}
    /\ Goto(t, "idle")
    /\ UNCHANGED <<Files, memo, mutex, op, ref, got, buf, fresh, was, crashes>>

(* os.WriteFile of the lockfile fails before truncating it or after.       *)
PinFail(t) ==
    /\ WriteFaults
    /\ pc[t] \in {"pinWrite", "pinFlush"}
    /\ mutex' = [mutex EXCEPT ![ProcOf[t]] = NoThread]
    /\ Proceed(t, AfterRefusal(t))
    /\ UNCHANGED <<Files, memo, ref, crashes>>

-----------------------------------------------------------------------------
(* SaveCRDs: the file without any lock, then the memo.                     *)

SaveWrite(t) ==
    /\ pc[t] = "saveWrite"
    /\ disk' = [disk EXCEPT ![ref[t]] = "torn"]
    /\ Goto(t, "saveFlush")
    /\ UNCHANGED <<lock, lockTorn, memo, mutex, op, ref, got, buf, fresh, was, crashes>>

SaveFlush(t) ==
    /\ pc[t] = "saveFlush"
    /\ disk' = [disk EXCEPT ![ref[t]] = got[t]]
    /\ Goto(t, "saveMemo")
    /\ UNCHANGED <<lock, lockTorn, memo, mutex, op, ref, got, buf, fresh, was, crashes>>

SaveFail(t) ==
    /\ WriteFaults
    /\ pc[t] \in {"saveWrite", "saveFlush"}
    /\ Return(t)
    /\ UNCHANGED <<Files, memo, mutex, ref, crashes>>

SaveMemo(t) ==
    /\ pc[t] = "saveMemo"
    /\ mutex[ProcOf[t]] = NoThread
    /\ memo' = [memo EXCEPT ![ProcOf[t]][ref[t]] = got[t]]
    /\ Proceed(t, IF op[t] = "fetch" THEN "idle" ELSE "check")
    /\ UNCHANGED <<Files, mutex, ref, crashes>>

(* The package-kind check of the add handlers and commands, made after the *)
(* schemas are cached.  A refusal leaves them there, unless the command    *)
(* cached them itself.                                                     *)
CheckKind(t) ==
    /\ pc[t] = "check"
    /\ \/ Proceed(t, "pinRead")
       \/ ref[t] \in WrongKind /\ Proceed(t, AfterRefusal(t))
    /\ UNCHANGED <<Files, memo, mutex, ref, crashes>>

-----------------------------------------------------------------------------
(* Store.Delete, and the lockfile half of evictProviderLocked: a read-     *)
(* modify-write of the lockfile that does not take the Store's mutex.      *)

Drop(t) ==
    /\ pc[t] = "drop"
    /\ disk' = [disk EXCEPT ![ref[t]] = Absent]
    /\ Goto(t, "dropMemo")
    /\ UNCHANGED <<lock, lockTorn, memo, mutex, op, ref, got, buf, fresh, was, crashes>>

DropMemo(t) ==
    /\ pc[t] = "dropMemo"
    /\ mutex[ProcOf[t]] = NoThread
    /\ memo' = [memo EXCEPT ![ProcOf[t]][ref[t]] = Absent]
    /\ Proceed(t, IF op[t] = "evict" THEN "unpinRead" ELSE "idle")
    /\ UNCHANGED <<Files, mutex, ref, crashes>>

UnpinRead(t) ==
    /\ pc[t] = "unpinRead"
    /\ IF lockTorn \/ lock[ref[t]] = Absent
       THEN Return(t)
       ELSE /\ buf' = [buf EXCEPT ![t] = [lock EXCEPT ![ref[t]] = Absent]]
            /\ Goto(t, "unpinWrite")
            /\ UNCHANGED <<op, got, fresh, was>>
    /\ UNCHANGED <<Files, memo, mutex, ref, crashes>>

UnpinWrite(t) ==
    /\ pc[t] = "unpinWrite"
    /\ lockTorn' = TRUE
    /\ Goto(t, "unpinFlush")
    /\ UNCHANGED <<disk, lock, memo, mutex, op, ref, got, buf, fresh, was, crashes>>

UnpinFlush(t) ==
    /\ pc[t] = "unpinFlush"
    /\ lock' = buf[t]
    /\ lockTorn' = FALSE
    /\ Return(t)
    /\ UNCHANGED <<disk, memo, mutex, ref, crashes>>

(* RemoveAll or either write of the lockfile fails.                        *)
EvictFail(t) ==
    /\ WriteFaults
    /\ pc[t] \in {"drop", "unpinWrite", "unpinFlush"}
    /\ Return(t)
    /\ UNCHANGED <<Files, memo, mutex, ref, crashes>>

-----------------------------------------------------------------------------

(* A process dies between any two steps: its threads, memo and mutex are   *)
(* gone, the files stay as they are.  It comes back with an empty memo.    *)
Crash(p) ==
    /\ crashes < MaxCrashes
    /\ crashes' = crashes + 1
    /\ pc' = [t \in Threads |-> IF ProcOf[t] = p THEN "idle" ELSE pc[t]]
    /\ memo' = [memo EXCEPT ![p] = NoPins]
    /\ mutex' = [mutex EXCEPT ![p] = NoThread]
    /\ UNCHANGED <<Files, op, ref, got, buf, fresh, was>>

Step(t) ==
    \/ Probe(t) \/ LookupMemo(t) \/ ReadEntry(t) \/ Remember(t) \/ Fetch(t)
    \/ PinRead(t) \/ PinWrite(t) \/ PinFlush(t) \/ PinFail(t)
    \/ SaveWrite(t) \/ SaveFlush(t) \/ SaveFail(t) \/ SaveMemo(t)
    \/ CheckKind(t) \/ Drop(t) \/ DropMemo(t)
    \/ UnpinRead(t) \/ UnpinWrite(t) \/ UnpinFlush(t) \/ EvictFail(t)

Next ==
    \/ \E t \in Threads, o \in AllOps, r \in Refs : Start(t, o, r)
    \/ \E t \in Threads : Step(t)
    \/ \E p \in Procs : Crash(p)

Spec == Init /\ [][Next]_vars

(* A goroutine that runs keeps being scheduled, and one that waits for the *)
(* mutex gets it in turn (sync.Mutex hands over to a starving waiter).     *)
FairSpec == Spec /\ \A t \in Threads : SF_vars(Step(t))

-----------------------------------------------------------------------------
(* Properties *)

Cached(r) == disk[r] \in Digests

(* Schemas are never cached unpinned: whatever step the process stops at,  *)
(* every readable entry has a pin in the lockfile, or the lockfile itself  *)
(* is unreadable and every command says so (the lock-first order of        *)
(* FetchAndSave, store.go).                                                *)
CachedIsPinned == lockTorn \/ \A r \in Refs : Cached(r) => lock[r] # Absent

(* What makes it inductive for the fetches of one process: a thread inside *)
(* PinLock owns the mutex and rewrites the lockfile it read, and a thread  *)
(* about to save has its pin on disk already.                              *)
InPinLock(t) == pc[t] \in {"pinWrite", "pinFlush"}
PinFirst ==
    /\ \A t \in Threads :
        /\ op[t] = "fetch"
        /\ pc[t] \in {"idle", "lookup", "read", "remember", "fetch", "pinRead",
                      "pinWrite", "pinFlush", "saveWrite", "saveFlush", "saveMemo"}
        /\ pc[t] \in {"remember", "pinRead"} => got[t] # Absent
        /\ InPinLock(t) => /\ got[t] # Absent
                           /\ mutex[ProcOf[t]] = t
                           /\ buf[t] = [lock EXCEPT ![ref[t]] = got[t]]
        /\ pc[t] \in {"saveWrite", "saveFlush"} => lock[ref[t]] # Absent
    /\ \A r \in Refs : Cached(r) => lock[r] # Absent

(* What is left behind once every operation has returned is pinned: a      *)
(* failed add leaves a pin with no cached entry, never the reverse (the    *)
(* handleAddProvider and handleDeleteProvider comments, providers.go).     *)
RestingCacheIsPinned == (\A t \in Threads : pc[t] = "idle") => CachedIsPinned

(* The cache never serves schemas of another digest than the one pinned    *)
(* (the Entry comment of store.go: Save and Lock.Set falling out of sync). *)
CacheMatchesPin ==
    lockTorn \/ \A r \in Refs : Cached(r) /\ lock[r] # Absent => disk[r] = lock[r]

(* What makes it inductive when a ref is never fetched twice at once: the  *)
(* digest a thread holds is the one on disk if the entry was cached, and   *)
(* the one it pins and saves if it was not.                                *)
OneEach ==
    \A t, u \in Threads :
        pc[t] # "idle" /\ pc[u] # "idle" /\ ref[t] = ref[u] => t = u
InHand(t) ==
    LET r == ref[t] IN
    /\ pc[t] \in {"lookup", "read", "remember", "fetch"} => ~fresh[t]
    /\ pc[t] = "remember" => disk[r] = got[t]
    /\ pc[t] = "fetch" => ~Cached(r)
    /\ pc[t] \in {"pinRead", "pinWrite", "pinFlush"} =>
          IF fresh[t] THEN ~Cached(r) ELSE disk[r] = got[t]
    /\ pc[t] \in {"saveWrite", "saveFlush"} => lock[r] = got[t] /\ ~Cached(r)
    /\ pc[t] = "saveMemo" => disk[r] = got[t]
DiskPinned == \A r \in Refs : Cached(r) => disk[r] = lock[r]
MemoOnDisk == \A p \in Procs, r \in Refs : memo[p][r] # Absent => disk[r] = memo[p][r]
PinAgrees == OneEach /\ (\A t \in Threads : InHand(t)) /\ DiskPinned /\ MemoOnDisk

(* Fetches keep the promise of PinnedCache: a ref is pinned first, served  *)
(* with the pinned digest, and neither changes once it is served, whoever  *)
(* fetches it again and whatever its tag names by then (FetchAndSave).     *)
Served == [r \in Refs |-> IF Cached(r) THEN disk[r] ELSE Absent]
Promise == INSTANCE PinnedCache WITH pin <- lock, cache <- Served
KeepsPromise == Promise!Spec

(* No lockfile rewrite drops the pin of a ref somebody else pinned: a pin  *)
(* disappears only when an eviction of that ref writes the file.           *)
PinsSurvive ==
    [][\A r \in Refs : lock[r] # Absent /\ lock'[r] = Absent =>
          \E t \in Threads : ref[t] = r /\ pc[t] = "unpinFlush"]_lock

(* Every operation ends: no thread waits for ever for Store.mu, be it to   *)
(* pin, to look in the memo or to change it, whatever write failed while   *)
(* another goroutine held it (PinLock, loadEntry, SaveCRDs, Delete).       *)
OperationsEnd == \A t \in Threads : pc[t] # "idle" ~> pc[t] = "idle"
=============================================================================
