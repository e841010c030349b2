------------------------- MODULE SchemaStore_proofs -------------------------
(* Theorems about the schema cache and the lockfile, for any number of     *)
(* threads, refs and digests, any crashes and any write failures.          *)
EXTENDS SchemaStore, TLAPS

USE ProcAssumption, DataAssumption, EnvAssumption
    DEF ProcAssumption, DataAssumption, EnvAssumption

(* Going on, or returning, leaves a thread's locals of their types.        *)
LocalsTyped ==
    /\ pc \in [Threads -> PCs]
    /\ op \in [Threads -> AllOps]
    /\ got \in [Threads -> Digests \cup {Absent}]
    /\ buf \in [Threads -> Pins]
    /\ fresh \in [Threads -> BOOLEAN]
    /\ was \in [Threads -> BOOLEAN]

LEMMA ReturnTypes ==
    ASSUME TypeOK, NEW t \in Threads, Return(t)
    PROVE  LocalsTyped'
<1>1. NoPins \in Pins
  BY DEF NoPins, Pins
<1> QED
  BY <1>1 DEF TypeOK, Return, Goto, LocalsTyped, PCs, AllOps

LEMMA ProceedTypes ==
    ASSUME TypeOK, NEW t \in Threads, NEW l \in PCs, Proceed(t, l)
    PROVE  LocalsTyped'
<1>1. CASE l = "idle"
  BY <1>1, ReturnTypes DEF Proceed
<1>2. CASE l # "idle"
  BY <1>2 DEF TypeOK, Proceed, Goto, LocalsTyped
<1> QED
  BY <1>1, <1>2

(* Type correctness of every operation, under any mix of operations.       *)
LEMMA TypeStep == TypeOK /\ [Next]_vars => TypeOK'
<1> SUFFICES ASSUME TypeOK, [Next]_vars PROVE TypeOK'
  OBVIOUS
<1>0. NoPins \in Pins
  BY DEF NoPins, Pins
<1>t. ASSUME LocalsTyped',
             disk' \in [Refs -> Digests \cup {Absent, "torn"}], lock' \in Pins,
             lockTorn' \in BOOLEAN, memo' \in [Procs -> Pins],
             mutex' \in [Procs -> Threads \cup {NoThread}],
             UNCHANGED <<ref, crashes>>
      PROVE  TypeOK'
  BY <1>t DEF LocalsTyped, TypeOK
<1> USE DEF TypeOK, PCs, AllOps, Goto, Files
<1>1. ASSUME NEW t \in Threads, NEW o \in AllOps, NEW r \in Refs, Start(t, o, r)
      PROVE  TypeOK'
  BY <1>0, <1>1 DEF Start
<1>2. ASSUME NEW t \in Threads, Probe(t) PROVE TypeOK'
  BY <1>2 DEF Probe, Pins
<1>3. ASSUME NEW t \in Threads, LookupMemo(t) PROVE TypeOK'
  <2>1. memo[ProcOf[t]][ref[t]] \in Digests \cup {Absent}
    BY DEF Pins
  <2> QED
    BY <1>3, <2>1 DEF LookupMemo, AfterHit
<1>4. ASSUME NEW t \in Threads, ReadEntry(t) PROVE TypeOK'
  BY <1>4 DEF ReadEntry
<1>5. ASSUME NEW t \in Threads, Remember(t) PROVE TypeOK'
  BY <1>5 DEF Remember, Pins, AfterHit
<1>6. ASSUME NEW t \in Threads, Fetch(t) PROVE TypeOK'
  <2>1. CASE Return(t)
    BY <1>6, <2>1, <1>t, ReturnTypes DEF Fetch
  <2>2. CASE ~Return(t)
    <3>1. PICK d \in Upstream[ref[t]] : got' = [got EXCEPT ![t] = d]
      BY <1>6, <2>2 DEF Fetch
    <3>2. d \in Digests
      OBVIOUS
    <3>3. /\ fresh' = [fresh EXCEPT ![t] = TRUE]
          /\ pc' \in [Threads -> PCs]
          /\ UNCHANGED <<disk, lock, lockTorn, memo, mutex, op, ref, buf, was, crashes>>
      BY <1>6, <2>2 DEF Fetch
    <3> QED
      BY <3>1, <3>2, <3>3
  <2> QED
    BY <2>1, <2>2
<1>7. ASSUME NEW t \in Threads, PinRead(t) PROVE TypeOK'
  <2>1. CASE lockTorn
    <3>1. AfterRefusal(t) \in PCs
      BY DEF AfterRefusal
    <3> QED
      BY <1>7, <2>1, <3>1, <1>t, ProceedTypes DEF PinRead
  <2>2. CASE ~lockTorn
    <3>1. [lock EXCEPT ![ref[t]] = got[t]] \in Pins
      BY DEF Pins
    <3>2. /\ buf' = [buf EXCEPT ![t] = [lock EXCEPT ![ref[t]] = got[t]]]
          /\ mutex' = [mutex EXCEPT ![ProcOf[t]] = t]
          /\ pc' = [pc EXCEPT ![t] = "pinWrite"]
          /\ UNCHANGED <<disk, lock, lockTorn, memo, op, ref, got, fresh, was, crashes>>
      BY <1>7, <2>2 DEF PinRead
    <3>3. buf' \in [Threads -> Pins]
      BY <3>1, <3>2
    <3>4. mutex' \in [Procs -> Threads \cup {NoThread}] /\ pc' \in [Threads -> PCs]
      BY <3>2
    <3> QED
      BY <3>2, <3>3, <3>4
  <2> QED
    BY <2>1, <2>2
<1>8. ASSUME NEW t \in Threads, PinWrite(t) PROVE TypeOK'
  BY <1>8 DEF PinWrite
<1>9. ASSUME NEW t \in Threads, PinFlush(t) PROVE TypeOK'
  BY <1>9, <1>t, ProceedTypes DEF PinFlush
<1>10. ASSUME NEW t \in Threads, PinFail(t) PROVE TypeOK'
  <2>1. AfterRefusal(t) \in PCs
    BY DEF AfterRefusal
  <2> QED
    BY <1>10, <2>1, <1>t, ProceedTypes DEF PinFail
<1>11. ASSUME NEW t \in Threads, SaveWrite(t) PROVE TypeOK'
  BY <1>11 DEF SaveWrite
<1>12. ASSUME NEW t \in Threads, SaveFlush(t) PROVE TypeOK'
  BY <1>12 DEF SaveFlush
<1>13. ASSUME NEW t \in Threads, SaveFail(t) PROVE TypeOK'
  BY <1>13, <1>t, ReturnTypes DEF SaveFail
<1>14. ASSUME NEW t \in Threads, SaveMemo(t) PROVE TypeOK'
  <2>1. memo' \in [Procs -> Pins]
    BY <1>14 DEF SaveMemo, Pins
  <2> QED
    BY <1>14, <2>1, <1>t, ProceedTypes DEF SaveMemo
<1>15. ASSUME NEW t \in Threads, CheckKind(t) PROVE TypeOK'
  <2>1. AfterRefusal(t) \in PCs
    BY DEF AfterRefusal
  <2> QED
    BY <1>15, <2>1, <1>t, ProceedTypes DEF CheckKind
<1>16. ASSUME NEW t \in Threads, Drop(t) PROVE TypeOK'
  BY <1>16 DEF Drop
<1>17. ASSUME NEW t \in Threads, DropMemo(t) PROVE TypeOK'
  <2>1. memo' \in [Procs -> Pins]
    BY <1>17 DEF DropMemo, Pins
  <2> QED
    BY <1>17, <2>1, <1>t, ProceedTypes DEF DropMemo
<1>18. ASSUME NEW t \in Threads, UnpinRead(t) PROVE TypeOK'
  <2>1. CASE Return(t)
    BY <1>18, <2>1, <1>t, ReturnTypes DEF UnpinRead
  <2>2. CASE ~Return(t)
    <3>1. [lock EXCEPT ![ref[t]] = Absent] \in Pins
      BY DEF Pins
    <3> QED
      BY <1>18, <2>2, <3>1 DEF UnpinRead
  <2> QED
    BY <2>1, <2>2
<1>19. ASSUME NEW t \in Threads, UnpinWrite(t) PROVE TypeOK'
  BY <1>19 DEF UnpinWrite
<1>20. ASSUME NEW t \in Threads, UnpinFlush(t) PROVE TypeOK'
  BY <1>20, <1>t, ReturnTypes DEF UnpinFlush
<1>21. ASSUME NEW t \in Threads, EvictFail(t) PROVE TypeOK'
  BY <1>21, <1>t, ReturnTypes DEF EvictFail
<1>22. ASSUME NEW p \in Procs, Crash(p) PROVE TypeOK'
  BY <1>0, <1>22 DEF Crash
<1>23. CASE UNCHANGED vars
  BY <1>23 DEF vars, locals
<1> QED
  BY <1>1, <1>2, <1>3, <1>4, <1>5, <1>6, <1>7, <1>8, <1>9, <1>10, <1>11,
     <1>12, <1>13, <1>14, <1>15, <1>16, <1>17, <1>18, <1>19, <1>20, <1>21,
     <1>22, <1>23 DEF Next, Step

THEOREM TypeCorrect == Spec => []TypeOK
<1>1. Init => TypeOK
  <2> SUFFICES ASSUME Init PROVE TypeOK
    OBVIOUS
  <2>1. NoPins \in Pins
    BY DEF NoPins, Pins
  <2>2. crashes \in 0..MaxCrashes
    BY DEF Init
  <2>3. disk \in [Refs -> Digests \cup {Absent, "torn"}] /\ lock \in Pins
    BY <2>1 DEF Init
  <2> QED
    BY <2>1, <2>2, <2>3 DEF Init, TypeOK, PCs, AllOps
<1> QED
  BY <1>1, TypeStep, PTL DEF Spec

(* The fetches of one process: every thread shares the server's Store.     *)
OneStore == \A t, u \in Threads : ProcOf[t] = ProcOf[u]
FetchesOnly == Ops = {"fetch"}

LEMMA PinFirstStep ==
    ASSUME OneStore, FetchesOnly, TypeOK, TypeOK', PinFirst, [Next]_vars
    PROVE  PinFirst'
<1> USE DEF TypeOK, PCs, AllOps, Goto, Return, Proceed, Files, Cached, InPinLock
<1>1. ASSUME NEW t \in Threads, NEW o \in AllOps, NEW r \in Refs, Start(t, o, r)
      PROVE  PinFirst'
  BY <1>1 DEF Start, FetchesOnly, PinFirst
<1>2. ASSUME NEW t \in Threads, LookupMemo(t) PROVE PinFirst'
  BY <1>2 DEF LookupMemo, PinFirst, AfterHit
<1>3. ASSUME NEW t \in Threads, ReadEntry(t) PROVE PinFirst'
  BY <1>3 DEF ReadEntry, PinFirst
<1>4. ASSUME NEW t \in Threads, Remember(t) PROVE PinFirst'
  BY <1>4 DEF Remember, PinFirst, AfterHit
<1>5. ASSUME NEW t \in Threads, Fetch(t) PROVE PinFirst'
  BY <1>5 DEF Fetch, PinFirst
<1>6. ASSUME NEW t \in Threads, PinRead(t) PROVE PinFirst'
  BY <1>6 DEF PinRead, PinFirst, AfterRefusal
<1>7. ASSUME NEW t \in Threads, PinWrite(t) PROVE PinFirst'
  BY <1>7 DEF PinWrite, PinFirst
<1>8. ASSUME NEW t \in Threads, PinFlush(t) PROVE PinFirst'
  <2>1. lock' = [lock EXCEPT ![ref[t]] = got[t]] /\ got[t] # Absent
    BY <1>8 DEF PinFlush, PinFirst
  <2>2. lock'[ref[t]] # Absent
    BY <2>1 DEF Pins
  <2>3. \A r \in Refs : lock[r] # Absent => lock'[r] # Absent
    BY <2>1 DEF Pins
  <2>4. \A u \in Threads : InPinLock(u) => u = t
    BY <1>8 DEF PinFlush, PinFirst, OneStore
  <2>5. ~InPinLock(t)'
    BY <1>8 DEF PinFlush
  <2>6. ASSUME NEW u \in Threads, u # t
        PROVE  pc'[u] = pc[u] /\ ~InPinLock(u)'
    BY <1>8, <2>4, <2>6 DEF PinFlush
  <2> QED
    BY <1>8, <2>2, <2>3, <2>5, <2>6 DEF PinFlush, PinFirst
<1>9. ASSUME NEW t \in Threads, PinFail(t) PROVE PinFirst'
  BY <1>9 DEF PinFail, PinFirst, AfterRefusal
<1>10. ASSUME NEW t \in Threads, SaveWrite(t) PROVE PinFirst'
  BY <1>10 DEF SaveWrite, PinFirst
<1>11. ASSUME NEW t \in Threads, SaveFlush(t) PROVE PinFirst'
  BY <1>11 DEF SaveFlush, PinFirst
<1>12. ASSUME NEW t \in Threads, SaveFail(t) PROVE PinFirst'
  BY <1>12 DEF SaveFail, PinFirst
<1>13. ASSUME NEW t \in Threads, SaveMemo(t) PROVE PinFirst'
  BY <1>13 DEF SaveMemo, PinFirst
<1>14. ASSUME NEW t \in Threads,
             Probe(t) \/ CheckKind(t) \/ Drop(t) \/ DropMemo(t) \/ UnpinRead(t)
               \/ UnpinWrite(t) \/ UnpinFlush(t) \/ EvictFail(t)
      PROVE  FALSE
  BY <1>14 DEF Probe, CheckKind, Drop, DropMemo, UnpinRead, UnpinWrite,
             UnpinFlush, EvictFail, PinFirst
<1>15. ASSUME NEW p \in Procs, Crash(p) PROVE PinFirst'
  BY <1>15 DEF Crash, OneStore, PinFirst
<1>16. CASE UNCHANGED vars
  BY <1>16 DEF vars, locals, PinFirst
<1> QED
  BY <1>1, <1>2, <1>3, <1>4, <1>5, <1>6, <1>7, <1>8, <1>9, <1>10, <1>11, <1>12, <1>13, <1>14, <1>15, <1>16 DEF Next, Step
(* Schemas are never cached unpinned, wherever the process stops and       *)
(* whatever write fails, for any number of concurrent fetches: the         *)
(* lock-first order of FetchAndSave and the mutex of PinLock.              *)
THEOREM FetchedIsPinned ==
    ASSUME OneStore, FetchesOnly
    PROVE  Spec => []CachedIsPinned
<1>1. Init => PinFirst
  BY DEF Init, PinFirst, InPinLock, Cached
<1>2. TypeOK /\ TypeOK' /\ PinFirst /\ [Next]_vars => PinFirst'
  BY PinFirstStep
<1>3. PinFirst => CachedIsPinned
  BY DEF PinFirst, CachedIsPinned
<1> QED
  BY <1>1, <1>2, <1>3, TypeCorrect, PTL DEF Spec

(* No rewrite of the lockfile loses the pin of another fetch.              *)
THEOREM FetchesKeepPins ==
    ASSUME OneStore, FetchesOnly
    PROVE  Spec => PinsSurvive
<1> DEFINE Kept == \A r \in Refs : lock[r] # Absent /\ lock'[r] = Absent =>
                       \E t \in Threads : ref[t] = r /\ pc[t] = "unpinFlush"
<1>1. Init => PinFirst
  BY DEF Init, PinFirst, InPinLock, Cached
<1>2. TypeOK /\ TypeOK' /\ PinFirst /\ [Next]_vars => PinFirst'
  BY PinFirstStep
<1>3. TypeOK /\ PinFirst /\ [Next]_vars => [Kept]_lock
  <2> SUFFICES ASSUME TypeOK, PinFirst, Next, lock' # lock PROVE Kept
    BY DEF vars
  <2>1. PICK t \in Threads : PinFlush(t)
    BY DEF Next, Step, Start, Probe, LookupMemo, ReadEntry, Remember, Fetch,
           PinRead, PinWrite, PinFail, SaveWrite, SaveFlush, SaveFail, SaveMemo,
           CheckKind, Drop, DropMemo, UnpinRead, UnpinWrite, UnpinFlush,
           EvictFail, Crash, Files, PinFirst
  <2>2. lock' = [lock EXCEPT ![ref[t]] = got[t]] /\ got[t] # Absent
    BY <2>1 DEF PinFlush, PinFirst, InPinLock
  <2> QED
    BY <2>2 DEF TypeOK, Pins
<1> QED
  BY <1>1, <1>2, <1>3, TypeCorrect, PTL DEF Spec, PinsSurvive

LEMMA PinAgreesStep ==
    ASSUME OneStore, FetchesOnly, "fetch" \in OnePerRef,
           TypeOK, TypeOK', PinFirst, PinAgrees, [Next]_vars
    PROVE  PinAgrees'
<1> USE DEF TypeOK, Pins, PCs, AllOps, Goto, Return, Proceed, Files, Cached, InPinLock
<1>1. ASSUME NEW t \in Threads, NEW o \in AllOps, NEW r \in Refs, Start(t, o, r)
      PROVE  PinAgrees'
  BY <1>1 DEF Start, FetchesOnly, PinFirst, PinAgrees, OneEach, InHand, DiskPinned, MemoOnDisk
<1>2. ASSUME NEW t \in Threads, LookupMemo(t) PROVE PinAgrees'
  BY <1>2 DEF LookupMemo, PinFirst, PinAgrees, OneEach, InHand, DiskPinned, MemoOnDisk, AfterHit
<1>3. ASSUME NEW t \in Threads, ReadEntry(t) PROVE PinAgrees'
  <2>1. ASSUME NEW u \in Threads, u # t
        PROVE  pc'[u] = pc[u] /\ ref'[u] = ref[u] /\ got'[u] = got[u] /\ fresh'[u] = fresh[u]
    BY <1>3, <2>1 DEF ReadEntry
  <2>2. ref' = ref /\ memo' = memo /\ pc[t] # "idle"
    BY <1>3 DEF ReadEntry
  <2>3. OneEach'
    BY <2>1, <2>2 DEF PinAgrees, OneEach
  <2>4. InHand(t)'
    BY <1>3 DEF ReadEntry, PinFirst, PinAgrees, OneEach, InHand, DiskPinned, MemoOnDisk
  <2>5. ASSUME NEW u \in Threads, u # t
        PROVE  InHand(u)'
    <3>1. pc[u] # "idle" => ref[u] # ref[t]
      BY <2>2, <2>5 DEF PinAgrees, OneEach
    <3> QED
      BY <1>3, <2>1, <2>2, <2>5, <3>1 DEF ReadEntry, PinFirst, PinAgrees, InHand
  <2>6. DiskPinned' /\ MemoOnDisk'
    BY <1>3 DEF ReadEntry, PinFirst, PinAgrees, OneEach, InHand, DiskPinned, MemoOnDisk
  <2> QED
    BY <2>3, <2>4, <2>5, <2>6 DEF PinAgrees
<1>4. ASSUME NEW t \in Threads, Remember(t) PROVE PinAgrees'
  BY <1>4 DEF Remember, PinFirst, PinAgrees, OneEach, InHand, DiskPinned, MemoOnDisk, AfterHit
<1>5. ASSUME NEW t \in Threads, Fetch(t) PROVE PinAgrees'
  <2>1. ASSUME NEW u \in Threads, u # t
        PROVE  pc'[u] = pc[u] /\ ref'[u] = ref[u] /\ got'[u] = got[u] /\ fresh'[u] = fresh[u]
    BY <1>5, <2>1 DEF Fetch
  <2>2. ref' = ref /\ memo' = memo /\ pc[t] # "idle"
    BY <1>5 DEF Fetch
  <2>3. OneEach'
    BY <2>1, <2>2 DEF PinAgrees, OneEach
  <2>4. InHand(t)'
    BY <1>5 DEF Fetch, PinFirst, PinAgrees, OneEach, InHand, DiskPinned, MemoOnDisk
  <2>5. ASSUME NEW u \in Threads, u # t
        PROVE  InHand(u)'
    <3>1. pc[u] # "idle" => ref[u] # ref[t]
      BY <2>2, <2>5 DEF PinAgrees, OneEach
    <3> QED
      BY <1>5, <2>1, <2>2, <2>5, <3>1 DEF Fetch, PinFirst, PinAgrees, InHand
  <2>6. DiskPinned' /\ MemoOnDisk'
    BY <1>5 DEF Fetch, PinFirst, PinAgrees, OneEach, InHand, DiskPinned, MemoOnDisk
  <2> QED
    BY <2>3, <2>4, <2>5, <2>6 DEF PinAgrees
<1>6. ASSUME NEW t \in Threads, PinRead(t) PROVE PinAgrees'
  <2>1. ASSUME NEW u \in Threads, u # t
        PROVE  pc'[u] = pc[u] /\ ref'[u] = ref[u] /\ got'[u] = got[u] /\ fresh'[u] = fresh[u]
    BY <1>6, <2>1 DEF PinRead, AfterRefusal
  <2>2. ref' = ref /\ memo' = memo /\ pc[t] # "idle"
    BY <1>6 DEF PinRead
  <2>3. OneEach'
    BY <2>1, <2>2 DEF PinAgrees, OneEach
  <2>4. InHand(t)'
    BY <1>6 DEF PinRead, PinFirst, PinAgrees, OneEach, InHand, DiskPinned, MemoOnDisk, AfterRefusal
  <2>5. ASSUME NEW u \in Threads, u # t
        PROVE  InHand(u)'
    <3>1. pc[u] # "idle" => ref[u] # ref[t]
      BY <2>2, <2>5 DEF PinAgrees, OneEach
    <3> QED
      BY <1>6, <2>1, <2>2, <2>5, <3>1 DEF PinRead, PinFirst, PinAgrees, InHand
  <2>6. DiskPinned' /\ MemoOnDisk'
    BY <1>6 DEF PinRead, PinFirst, PinAgrees, OneEach, InHand, DiskPinned, MemoOnDisk, AfterRefusal
  <2> QED
    BY <2>3, <2>4, <2>5, <2>6 DEF PinAgrees
<1>7. ASSUME NEW t \in Threads, PinWrite(t) PROVE PinAgrees'
  BY <1>7 DEF PinWrite, PinFirst, PinAgrees, OneEach, InHand, DiskPinned, MemoOnDisk
<1>8. ASSUME NEW t \in Threads, PinFlush(t) PROVE PinAgrees'
  <2>1. ASSUME NEW u \in Threads, u # t
        PROVE  pc'[u] = pc[u] /\ ref'[u] = ref[u] /\ got'[u] = got[u] /\ fresh'[u] = fresh[u]
    BY <1>8, <2>1 DEF PinFlush
  <2>2. ref' = ref /\ memo' = memo /\ pc[t] # "idle"
    BY <1>8 DEF PinFlush
  <2>3. OneEach'
    BY <2>1, <2>2 DEF PinAgrees, OneEach
  <2>4. InHand(t)'
    BY <1>8 DEF PinFlush, PinFirst, PinAgrees, OneEach, InHand, DiskPinned, MemoOnDisk
  <2>5. ASSUME NEW u \in Threads, u # t
        PROVE  InHand(u)'
    <3>1. pc[u] # "idle" => ref[u] # ref[t]
      BY <2>2, <2>5 DEF PinAgrees, OneEach
    <3> QED
      BY <1>8, <2>1, <2>2, <2>5, <3>1 DEF PinFlush, PinFirst, PinAgrees, InHand
  <2>6. DiskPinned' /\ MemoOnDisk'
    BY <1>8 DEF PinFlush, PinFirst, PinAgrees, OneEach, InHand, DiskPinned, MemoOnDisk
  <2> QED
    BY <2>3, <2>4, <2>5, <2>6 DEF PinAgrees
<1>9. ASSUME NEW t \in Threads, PinFail(t) PROVE PinAgrees'
  <2>1. pc' = [pc EXCEPT ![t] = "idle"]
    BY <1>9 DEF PinFail, PinFirst, AfterRefusal
  <2>2. \A u \in Threads : u # t => got'[u] = got[u] /\ fresh'[u] = fresh[u]
    BY <1>9 DEF PinFail
  <2>3. UNCHANGED <<disk, lock, memo, ref>>
    BY <1>9 DEF PinFail
  <2> QED
    BY <2>1, <2>2, <2>3 DEF PinAgrees, OneEach, InHand, DiskPinned, MemoOnDisk
<1>10. ASSUME NEW t \in Threads, SaveWrite(t) PROVE PinAgrees'
  <2>1. ASSUME NEW u \in Threads, u # t
        PROVE  pc'[u] = pc[u] /\ ref'[u] = ref[u] /\ got'[u] = got[u] /\ fresh'[u] = fresh[u]
    BY <1>10, <2>1 DEF SaveWrite
  <2>2. ref' = ref /\ memo' = memo /\ pc[t] # "idle"
    BY <1>10 DEF SaveWrite
  <2>3. OneEach'
    BY <2>1, <2>2 DEF PinAgrees, OneEach
  <2>4. InHand(t)'
    BY <1>10 DEF SaveWrite, PinFirst, PinAgrees, OneEach, InHand, DiskPinned, MemoOnDisk
  <2>5. ASSUME NEW u \in Threads, u # t
        PROVE  InHand(u)'
    <3>1. pc[u] # "idle" => ref[u] # ref[t]
      BY <2>2, <2>5 DEF PinAgrees, OneEach
    <3> QED
      BY <1>10, <2>1, <2>2, <2>5, <3>1 DEF SaveWrite, PinFirst, PinAgrees, InHand
  <2>6. DiskPinned' /\ MemoOnDisk'
    BY <1>10 DEF SaveWrite, PinFirst, PinAgrees, OneEach, InHand, DiskPinned, MemoOnDisk
  <2> QED
    BY <2>3, <2>4, <2>5, <2>6 DEF PinAgrees
<1>11. ASSUME NEW t \in Threads, SaveFlush(t) PROVE PinAgrees'
  <2>1. ASSUME NEW u \in Threads, u # t
        PROVE  pc'[u] = pc[u] /\ ref'[u] = ref[u] /\ got'[u] = got[u] /\ fresh'[u] = fresh[u]
    BY <1>11, <2>1 DEF SaveFlush
  <2>2. ref' = ref /\ memo' = memo /\ pc[t] # "idle"
    BY <1>11 DEF SaveFlush
  <2>3. OneEach'
    BY <2>1, <2>2 DEF PinAgrees, OneEach
  <2>4. InHand(t)'
    BY <1>11 DEF SaveFlush, PinFirst, PinAgrees, OneEach, InHand, DiskPinned, MemoOnDisk
  <2>5. ASSUME NEW u \in Threads, u # t
        PROVE  InHand(u)'
    <3>1. pc[u] # "idle" => ref[u] # ref[t]
      BY <2>2, <2>5 DEF PinAgrees, OneEach
    <3> QED
      BY <1>11, <2>1, <2>2, <2>5, <3>1 DEF SaveFlush, PinFirst, PinAgrees, InHand
  <2>6. DiskPinned' /\ MemoOnDisk'
    BY <1>11 DEF SaveFlush, PinFirst, PinAgrees, OneEach, InHand, DiskPinned, MemoOnDisk
  <2> QED
    BY <2>3, <2>4, <2>5, <2>6 DEF PinAgrees
<1>12. ASSUME NEW t \in Threads, SaveFail(t) PROVE PinAgrees'
  BY <1>12 DEF SaveFail, PinFirst, PinAgrees, OneEach, InHand, DiskPinned, MemoOnDisk
<1>13. ASSUME NEW t \in Threads, SaveMemo(t) PROVE PinAgrees'
  <2>1. pc' = [pc EXCEPT ![t] = "idle"]
    BY <1>13 DEF SaveMemo, PinFirst
  <2>2. \A u \in Threads : u # t => got'[u] = got[u] /\ fresh'[u] = fresh[u]
    BY <1>13 DEF SaveMemo
  <2>3. UNCHANGED <<disk, lock, ref>> /\ disk[ref[t]] = got[t]
    BY <1>13 DEF SaveMemo, PinAgrees, InHand
  <2>4. memo' = [memo EXCEPT ![ProcOf[t]][ref[t]] = got[t]]
    BY <1>13 DEF SaveMemo
  <2>5. OneEach' /\ DiskPinned'
    BY <2>1, <2>3 DEF PinAgrees, OneEach, DiskPinned
  <2>6. MemoOnDisk'
    BY <2>3, <2>4 DEF PinAgrees, MemoOnDisk
  <2>7. \A u \in Threads : InHand(u)'
    BY <2>1, <2>2, <2>3 DEF PinAgrees, InHand
  <2> QED
    BY <2>5, <2>6, <2>7 DEF PinAgrees
<1>14. ASSUME NEW t \in Threads,
             Probe(t) \/ CheckKind(t) \/ Drop(t) \/ DropMemo(t) \/ UnpinRead(t)
               \/ UnpinWrite(t) \/ UnpinFlush(t) \/ EvictFail(t)
      PROVE  FALSE
  BY <1>14 DEF Probe, CheckKind, Drop, DropMemo, UnpinRead, UnpinWrite,
             UnpinFlush, EvictFail, PinFirst
<1>15. ASSUME NEW p \in Procs, Crash(p) PROVE PinAgrees'
  BY <1>15 DEF Crash, OneStore, NoPins, PinAgrees, OneEach, InHand, DiskPinned, MemoOnDisk
<1>16. CASE UNCHANGED vars
  BY <1>16 DEF vars, locals, PinAgrees,
    OneEach, InHand, DiskPinned, MemoOnDisk
<1> QED
  BY <1>1, <1>2, <1>3, <1>4, <1>5, <1>6, <1>7, <1>8, <1>9, <1>10, <1>11, <1>12, <1>13, <1>14, <1>15, <1>16 DEF Next, Step

(* The cached digest is the pinned one, even when the registry moves a tag *)
(* between pulls, as long as the server never fetches one ref twice at     *)
(* once: what the loading markers are for.                                 *)
THEOREM FetchedMatchesPin ==
    ASSUME OneStore, FetchesOnly, "fetch" \in OnePerRef
    PROVE  Spec => []CacheMatchesPin
<1>1. Init => PinFirst /\ PinAgrees
  BY DEF Init, PinFirst, PinAgrees, OneEach, InHand, DiskPinned, MemoOnDisk, InPinLock, Cached, NoPins
<1>2. TypeOK /\ TypeOK' /\ PinFirst /\ [Next]_vars => PinFirst'
  BY PinFirstStep
<1>3. TypeOK /\ TypeOK' /\ PinFirst /\ PinAgrees /\ [Next]_vars => PinAgrees'
  BY PinAgreesStep
<1>4. PinAgrees => CacheMatchesPin
  BY DEF PinAgrees, DiskPinned, CacheMatchesPin
<1> QED
  BY <1>1, <1>2, <1>3, <1>4, TypeCorrect, PTL DEF Spec

(* The store implements its abstract specification: every step of a fetch  *)
(* is a Pin, a Serve or a stutter of PinnedCache.                          *)
THEOREM FetchesImplementPinnedCache ==
    ASSUME OneStore, FetchesOnly, "fetch" \in OnePerRef
    PROVE  Spec => KeepsPromise
<1>1. Init => PinFirst /\ PinAgrees
  BY DEF Init, PinFirst, PinAgrees, OneEach, InHand, DiskPinned, MemoOnDisk, InPinLock, Cached, NoPins
<1>2. TypeOK /\ TypeOK' /\ PinFirst /\ [Next]_vars => PinFirst'
  BY PinFirstStep
<1>3. TypeOK /\ TypeOK' /\ PinFirst /\ PinAgrees /\ [Next]_vars => PinAgrees'
  BY PinAgreesStep
<1>4. Init => Promise!Init
  BY DEF Init, Promise!Init, NoPins, Served, Cached
<1>5. TypeOK /\ PinFirst /\ PinAgrees /\ [Next]_vars => [Promise!Next]_<<lock, Served>>
  <2> SUFFICES ASSUME TypeOK, PinFirst, PinAgrees, [Next]_vars
               PROVE  [Promise!Next]_<<lock, Served>>
    OBVIOUS
  <2>1. ASSUME NEW t \in Threads, PinFlush(t)
        PROVE  Promise!Pin(ref[t], got[t]) /\ got[t] \in Digests
    <3>1. got[t] \in Digests /\ buf[t] = [lock EXCEPT ![ref[t]] = got[t]]
      BY <2>1 DEF PinFlush, PinFirst, InPinLock, TypeOK
    <3>2. Served[ref[t]] \in {Absent, got[t]}
      BY <2>1 DEF PinFlush, PinAgrees, InHand, Served, Cached, TypeOK
    <3>3. Served' = Served
      BY <2>1 DEF PinFlush, Served, Cached
    <3> QED
      BY <2>1, <3>1, <3>2, <3>3 DEF PinFlush, Promise!Pin
  <2>2. ASSUME NEW t \in Threads, SaveFlush(t) PROVE Promise!Serve(ref[t])
    <3>1. lock[ref[t]] = got[t] /\ lock[ref[t]] # Absent /\ ~Cached(ref[t])
      BY <2>2 DEF SaveFlush, PinFirst, PinAgrees, InHand
    <3>2. got[t] \in Digests
      BY <3>1 DEF TypeOK
    <3>3. Served' = [Served EXCEPT ![ref[t]] = lock[ref[t]]]
      BY <2>2, <3>1, <3>2 DEF SaveFlush, Served, Cached, TypeOK
    <3> QED
      BY <2>2, <3>1, <3>3 DEF SaveFlush, Served, Promise!Serve, TypeOK
  <2>3. ASSUME NEW t \in Threads, SaveWrite(t) PROVE UNCHANGED <<lock, Served>>
    BY <2>3 DEF SaveWrite, PinAgrees, InHand, Served, Cached, TypeOK
  <2>4. ASSUME UNCHANGED <<disk, lock>> PROVE UNCHANGED <<lock, Served>>
    BY <2>4 DEF Served, Cached
  <2>5. ASSUME NEW t \in Threads, Step(t), ~PinFlush(t), ~SaveFlush(t), ~SaveWrite(t)
        PROVE  UNCHANGED <<disk, lock>>
    <3>1. ~Drop(t) /\ ~UnpinFlush(t)
      BY DEF Drop, UnpinFlush, PinFirst
    <3> QED
      BY <2>5, <3>1 DEF Step, Files, Probe, LookupMemo, ReadEntry, Remember, Fetch,
         PinRead, PinWrite, PinFail, SaveFail, SaveMemo, CheckKind, DropMemo,
         UnpinRead, UnpinWrite, EvictFail
  <2>6. ASSUME NEW t \in Threads, NEW o \in AllOps, NEW r \in Refs, Start(t, o, r)
        PROVE  UNCHANGED <<disk, lock>>
    BY <2>6 DEF Start, Files
  <2>7. ASSUME NEW p \in Procs, Crash(p) PROVE UNCHANGED <<disk, lock>>
    BY <2>7 DEF Crash, Files
  <2>8. ASSUME UNCHANGED vars PROVE UNCHANGED <<disk, lock>>
    BY <2>8 DEF vars
  <2>9. ASSUME NEW t \in Threads, PinFlush(t) \/ SaveFlush(t) PROVE Promise!Next
    <3>1. ref[t] \in Refs
      BY DEF TypeOK
    <3> QED
      BY <2>1, <2>2, <2>9, <3>1 DEF Promise!Next
  <2> QED
    BY <2>3, <2>4, <2>5, <2>6, <2>7, <2>8, <2>9 DEF Next
<1> QED
  BY <1>1, <1>2, <1>3, <1>4, <1>5, TypeCorrect, PTL DEF Spec, KeepsPromise, Promise!Spec
=============================================================================
