------------------------ MODULE ReservationStoreProofs ------------------------
(***************************************************************************)
(* Proofs about ReservationStore, for any callers, GPUs, owners, tokens,     *)
(* durations and clock bound.                                              *)
(***************************************************************************)
EXTENDS ReservationStore, TLAPS

(***************************************************************************)
(* The inductive invariant.  ExclusiveLease says nothing of the calls in     *)
(* flight, so a step of theirs could break it; the parts below tie what a    *)
(* call has in memory to what the file holds while the call has the lock.    *)
(***************************************************************************)

\* The flock is held exactly by the call that is between lock and unlock.
LockInv == \A p \in Proc : pc[p] \in Critical <=> lock = p

RequestInv ==
    \A p \in Proc : pc[p] # "idle" =>
        /\ req[p] \in Request
        /\ req[p].op = "release" => req[p].token \in Token

\* What a call read is still what the file holds when it decides.
SnapshotInv == \A p \in Proc : pc[p] = "check" => st[p] = file

\* What a Reserve is about to write: its record on GPUs that were free at the
\* instant it compared against, under a token the file does not have yet.
ReserveInv ==
    \A p \in Proc :
        pc[p] \in {"write", "commit"} /\ req[p].op = "reserve" =>
            /\ now[p] <= clock
            /\ req[p].token \in used
            /\ st[p] = AddRecords(RemoveExpired(file, now[p]), req[p].uuids, LeaseRecord(p))
            /\ \A g \in req[p].uuids : ~Unexpired(file[g], now[p])
            /\ \A g \in GPU : file[g] # NoRecord => file[g].token # req[p].token

\* What a Release is about to write: only unexpired records of its lease go.
ReleaseInv ==
    \A p \in Proc :
        pc[p] \in {"write", "commit"} /\ req[p].op # "reserve" =>
            /\ now[p] <= clock
            /\ req[p].op = "release"
            /\ st[p] = DeleteRecords(RemoveExpired(file, now[p]), req[p].uuids)
            /\ \A g \in req[p].uuids : Unexpired(file[g], now[p]) => Owns(file[g], req[p])

\* A Reserve about to return its lease has it in the file.
ReturnInv ==
    \A p \in Proc :
        pc[p] = "unlock" /\ ret[p] = "ok" /\ req[p].op = "reserve" =>
            /\ req[p].token \in used
            /\ \A g \in req[p].uuids : file[g] = LeaseRecord(p)

\* Holdings are unexpired, and tokens in the file were drawn.
HeldInv == \A h \in held : h.record.expires > clock
TokenInv == \A g \in GPU : file[g] # NoRecord => file[g].token \in used

StoreInv ==
    /\ TypeOK
    /\ LockInv
    /\ RequestInv
    /\ SnapshotInv
    /\ ReserveInv
    /\ ReleaseInv
    /\ ReturnInv
    /\ HeldInv
    /\ TokenInv
    /\ LeaseOnDisk

-------------------------------------------------------------------------------

\* A store nobody has used yet satisfies the invariant.
LEMMA InitStoreInv == Init => StoreInv
  BY ConstantsAssumption
     DEF Init, StoreInv, TypeOK, LockInv, RequestInv, SnapshotInv, ReserveInv, ReleaseInv,
         ReturnInv, HeldInv, TokenInv, LeaseOnDisk, EmptyTable, Table, Critical, Label

\* Entering a call of any kind moves only the caller to the lock.
LEMMA EnterStep ==
  ASSUME StoreInv, NEW p \in Proc, NEW r \in Request, Enter(p, r),
         r.op = "release" => r.token \in Token
  PROVE  StoreInv'
  BY ConstantsAssumption
     DEF StoreInv, Enter, ghosts, TypeOK, LockInv, RequestInv, SnapshotInv, ReserveInv,
         ReleaseInv, ReturnInv, HeldInv, TokenInv, LeaseOnDisk, LeaseRecord, Critical, Label

\* An error inside the critical section leaves the file alone and keeps the lock
\* for the deferred unlock.
LEMMA FailStep ==
  ASSUME StoreInv, NEW p \in Proc, pc[p] \in Critical, Fail(p)
  PROVE  StoreInv'
  BY ConstantsAssumption
     DEF StoreInv, Fail, ghosts, TypeOK, LockInv, RequestInv, SnapshotInv, ReserveInv,
         ReleaseInv, ReturnInv, HeldInv, TokenInv, LeaseOnDisk, LeaseRecord, Critical, Label

\* A call that ends without having changed the file: an error before the lock, a
\* cancelled wait, or the death of the process at any point.
LEMMA LeaveStep ==
  ASSUME StoreInv, NEW p \in Proc, Clear(p),
         lock' = IF lock = p THEN NoProc ELSE lock,
         UNCHANGED <<clock, file, ghosts>>
  PROVE  StoreInv'
  BY ConstantsAssumption
     DEF StoreInv, Clear, ghosts, TypeOK, LockInv, RequestInv, SnapshotInv, ReserveInv,
         ReleaseInv, ReturnInv, HeldInv, TokenInv, LeaseOnDisk, LeaseRecord, Critical, Label,
         EmptyTable, Table

\* The flock puts at most one caller into the critical section.
LEMMA TryLockStep ==
  ASSUME StoreInv, NEW p \in Proc, TryLock(p)
  PROVE  StoreInv'
  <1> USE ConstantsAssumption DEF StoreInv, TryLock, ghosts
  <1>a. \A q \in Proc : q # p => pc'[q] = pc[q]
    BY DEF TypeOK
  <1>b. pc[p] = "lock" /\ pc'[p] \in {"read", "wait"}
    BY DEF TypeOK
  <1>1. TypeOK'
    BY DEF TypeOK, Label, Critical
  <1>2. LockInv'
    BY <1>a DEF TypeOK, LockInv, Critical
  <1>3. RequestInv'
    BY <1>a, <1>b DEF RequestInv
  <1>4. SnapshotInv'
    BY <1>a, <1>b DEF SnapshotInv
  <1>5. ReserveInv'
    BY <1>a, <1>b DEF ReserveInv, LeaseRecord
  <1>6. ReleaseInv'
    BY <1>a, <1>b DEF ReleaseInv
  <1>7. ReturnInv'
    BY <1>a, <1>b DEF ReturnInv, LeaseRecord
  <1>8. HeldInv'
    BY DEF HeldInv
  <1>9. TokenInv'
    BY DEF TokenInv
  <1>10. LeaseOnDisk'
    BY DEF LeaseOnDisk
  <1> QED
    BY <1>1, <1>2, <1>3, <1>4, <1>5, <1>6, <1>7, <1>8, <1>9, <1>10 DEF StoreInv

\* Waking up and the end of a context happen outside the critical section.
LEMMA WaitStep ==
  ASSUME StoreInv, NEW p \in Proc, Wake(p) \/ CtxDone(p)
  PROVE  StoreInv'
  <1> USE ConstantsAssumption
      DEF StoreInv, ghosts, TypeOK, LockInv, RequestInv, SnapshotInv, ReserveInv,
          ReleaseInv, ReturnInv, HeldInv, TokenInv, LeaseOnDisk, LeaseRecord, Critical, Label
  <1>1. CASE Wake(p)
    BY <1>1 DEF Wake
  <1>2. CASE CtxDone(p)
    BY <1>2 DEF CtxDone
  <1> QED
    BY <1>1, <1>2

\* After readState the caller's copy is the file.
LEMMA ReadStep ==
  ASSUME StoreInv, NEW p \in Proc, ReadState(p)
  PROVE  StoreInv'
  BY ConstantsAssumption
     DEF ReadState, StoreInv, ghosts, TypeOK, LockInv, RequestInv, SnapshotInv, ReserveInv,
         ReleaseInv, ReturnInv, HeldInv, TokenInv, LeaseOnDisk, LeaseRecord, Critical, Label

\* As time passes, leases leave the holders' books when they expire; the file does
\* not change.
LEMMA TickStep ==
  ASSUME StoreInv, Tick
  PROVE  StoreInv'
  BY ConstantsAssumption
     DEF Tick, calls, StoreInv, ghosts, TypeOK, LockInv, RequestInv, SnapshotInv, ReserveInv,
         ReleaseInv, ReturnInv, HeldInv, TokenInv, LeaseOnDisk, LeaseRecord, Critical, Label

\* Active prunes its own copy and writes nothing.
LEMMA CheckActiveStep ==
  ASSUME StoreInv, NEW p \in Proc, CheckActive(p)
  PROVE  StoreInv'
  BY ConstantsAssumption
     DEF CheckActive, StoreInv, ghosts, TypeOK, LockInv, RequestInv, SnapshotInv, ReserveInv,
         ReleaseInv, ReturnInv, HeldInv, TokenInv, LeaseOnDisk, LeaseRecord, Critical, Label,
         RemoveExpired, Table

\* Writing the temp file changes nothing anybody reads.
LEMMA WriteTempStep ==
  ASSUME StoreInv, NEW p \in Proc, WriteTemp(p)
  PROVE  StoreInv'
  BY ConstantsAssumption
     DEF WriteTemp, StoreInv, ghosts, TypeOK, LockInv, RequestInv, SnapshotInv, ReserveInv,
         ReleaseInv, ReturnInv, HeldInv, TokenInv, LeaseOnDisk, LeaseRecord, Critical, Label

\* The rename: what the file becomes still has every unexpired lease but the one
\* being released.
LEMMA CommitStep ==
  ASSUME StoreInv, NEW p \in Proc, Commit(p)
  PROVE  StoreInv'
  <1> USE ConstantsAssumption DEF StoreInv, Commit, ghosts
  <1>a. lock = p /\ pc[p] = "commit" /\ req[p] \in Request
    BY DEF LockInv, RequestInv, Critical
  <1>b. \A q \in Proc : q # p => pc'[q] = pc[q] /\ pc[q] \notin Critical
    BY <1>a DEF LockInv, TypeOK
  <1>1. TypeOK'
    BY DEF TypeOK, Label, Critical
  <1>2. LockInv'
    BY DEF TypeOK, LockInv, Critical
  <1>3. RequestInv'
    BY DEF TypeOK, RequestInv
  <1>4. SnapshotInv'
    BY <1>a, <1>b DEF TypeOK, SnapshotInv, Critical
  <1>5. ReserveInv'
    BY <1>a, <1>b DEF TypeOK, ReserveInv, Critical
  <1>6. ReleaseInv'
    BY <1>a, <1>b DEF TypeOK, ReleaseInv, Critical
  <1>7. ReturnInv'
    BY <1>a, <1>b DEF TypeOK, ReserveInv, ReturnInv, Critical, LeaseRecord, AddRecords, Request
  <1>8. HeldInv'
    BY DEF HeldInv
  <1>9. TokenInv'
    BY <1>a DEF TypeOK, TokenInv, ReserveInv, ReleaseInv, AddRecords, DeleteRecords, RemoveExpired, Unexpired, LeaseRecord
  <1>10. LeaseOnDisk'
    BY <1>a DEF TypeOK, LeaseOnDisk, HeldInv, ReserveInv, ReleaseInv, AddRecords, DeleteRecords, RemoveExpired, Unexpired, Owns, Holding, Record
  <1> QED
    BY <1>1, <1>2, <1>3, <1>4, <1>5, <1>6, <1>7, <1>8, <1>9, <1>10 DEF StoreInv

\* Reserve's decision: without a conflict the copy gets the new records, under a
\* token in no record.
LEMMA CheckReserveStep ==
  ASSUME StoreInv, NEW p \in Proc, CheckReserve(p)
  PROVE  StoreInv'
  <1> USE ConstantsAssumption DEF StoreInv
  <1>a. lock = p /\ pc[p] = "check" /\ req[p] \in Request /\ st[p] = file
    BY DEF CheckReserve, LockInv, RequestInv, SnapshotInv, Critical
  <1>b. \A q \in Proc : q # p => pc[q] \notin Critical
    BY <1>a DEF LockInv, TypeOK
  <1>c. CASE Fail(p)
    BY <1>a, <1>c, FailStep DEF Critical
  <1>d. SUFFICES ASSUME ~Fail(p) PROVE StoreInv'
    BY <1>c
  <1>e. PICK t \in Token \ used :
        /\ req[p].op = "reserve"
        /\ \A g \in req[p].uuids : ~Unexpired(file[g], clock)
        /\ used' = used \cup {t}
        /\ req' = [req EXCEPT ![p].token = t]
        /\ st' = [st EXCEPT ![p] = AddRecords(RemoveExpired(file, clock), req[p].uuids,
                        [token |-> t, owner |-> req[p].owner, expires |-> clock + req[p].ttl])]
        /\ now' = [now EXCEPT ![p] = clock]
        /\ pc' = [pc EXCEPT ![p] = "write"]
        /\ UNCHANGED <<clock, file, lock, done, ret, known, held>>
    <2>1. \A g \in req[p].uuids : g \in GPU
      BY <1>a DEF Request
    <2> QED
      BY <1>a, <1>d, <2>1 DEF CheckReserve, Conflicts, FreshTokens, RemoveExpired, Unexpired, TypeOK
  <1> DEFINE rec == [token |-> t, owner |-> req[p].owner, expires |-> clock + req[p].ttl]
  <1>f. rec \in Record
    BY <1>a DEF Record, Request, TypeOK
  <1>g. AddRecords(RemoveExpired(file, clock), req[p].uuids, rec) \in Table
    BY <1>f DEF AddRecords, RemoveExpired, Table, TypeOK
  <1>h. /\ req'[p] = [req[p] EXCEPT !.token = t]
        /\ req'[p] \in Request
        /\ req'[p].token = t /\ req'[p].op = "reserve"
        /\ req'[p].uuids = req[p].uuids /\ LeaseRecord(p)' = rec
        /\ \A q \in Proc : q # p => req'[q] = req[q]
    BY <1>a, <1>e DEF Request, TypeOK, LeaseRecord
  <1> HIDE DEF rec
  <1>1. TypeOK'
    BY <1>e, <1>g, <1>h DEF TypeOK, Label, Critical, rec
  <1>2. LockInv'
    BY <1>a, <1>e DEF TypeOK, LockInv, Critical
  <1>3. RequestInv'
    BY <1>a, <1>e, <1>h DEF TypeOK, RequestInv
  <1>4. SnapshotInv'
    BY <1>e DEF TypeOK, SnapshotInv
  <1>5. ReserveInv'
    BY <1>b, <1>e, <1>h DEF TypeOK, ReserveInv, Critical, TokenInv, rec
  <1>6. ReleaseInv'
    BY <1>b, <1>e, <1>h DEF TypeOK, ReleaseInv, Critical
  <1>7. ReturnInv'
    BY <1>b, <1>e, <1>h DEF TypeOK, ReturnInv, Critical
  <1>8. HeldInv'
    BY <1>e DEF HeldInv
  <1>9. TokenInv'
    BY <1>e DEF TokenInv
  <1>10. LeaseOnDisk'
    BY <1>e DEF LeaseOnDisk
  <1> QED
    BY <1>1, <1>2, <1>3, <1>4, <1>5, <1>6, <1>7, <1>8, <1>9, <1>10 DEF StoreInv

\* Release's decision: without a foreign record the copy loses the named GPUs.
LEMMA CheckReleaseStep ==
  ASSUME StoreInv, NEW p \in Proc, CheckRelease(p)
  PROVE  StoreInv'
  <1> USE ConstantsAssumption DEF StoreInv
  <1>a. lock = p /\ pc[p] = "check" /\ req[p] \in Request /\ st[p] = file
    BY DEF CheckRelease, LockInv, RequestInv, SnapshotInv, Critical
  <1>b. \A q \in Proc : q # p => pc[q] \notin Critical
    BY <1>a DEF LockInv, TypeOK
  <1>c. CASE Fail(p)
    BY <1>a, <1>c, FailStep DEF Critical
  <1>d. SUFFICES ASSUME ~Fail(p) PROVE StoreInv'
    BY <1>c
  <1>e. /\ req[p].op = "release"
        /\ \A g \in req[p].uuids : Unexpired(file[g], clock) => Owns(file[g], req[p])
        /\ st' = [st EXCEPT ![p] = DeleteRecords(RemoveExpired(file, clock), req[p].uuids)]
        /\ now' = [now EXCEPT ![p] = clock]
        /\ pc' = [pc EXCEPT ![p] = "write"]
        /\ UNCHANGED <<clock, file, lock, req, done, ret, used, known, held>>
    <2>1. \A g \in req[p].uuids : g \in GPU
      BY <1>a DEF Request
    <2> QED
      BY <1>a, <1>d, <2>1 DEF CheckRelease, ghosts, RemoveExpired, Unexpired, TypeOK
  <1>f. DeleteRecords(RemoveExpired(file, clock), req[p].uuids) \in Table
    BY DEF DeleteRecords, RemoveExpired, Table, TypeOK
  <1>1. TypeOK'
    BY <1>e, <1>f DEF TypeOK, Label, Critical
  <1>2. LockInv'
    BY <1>a, <1>e DEF TypeOK, LockInv, Critical
  <1>3. RequestInv'
    BY <1>a, <1>e DEF TypeOK, RequestInv
  <1>4. SnapshotInv'
    BY <1>e DEF TypeOK, SnapshotInv
  <1>5. ReserveInv'
    BY <1>b, <1>e DEF TypeOK, ReserveInv, Critical, LeaseRecord
  <1>6. ReleaseInv'
    BY <1>b, <1>e DEF TypeOK, ReleaseInv, Critical
  <1>7. ReturnInv'
    BY <1>b, <1>e DEF TypeOK, ReturnInv, Critical, LeaseRecord
  <1>8. HeldInv'
    BY <1>e DEF HeldInv
  <1>9. TokenInv'
    BY <1>e DEF TokenInv
  <1>10. LeaseOnDisk'
    BY <1>e DEF LeaseOnDisk
  <1> QED
    BY <1>1, <1>2, <1>3, <1>4, <1>5, <1>6, <1>7, <1>8, <1>9, <1>10 DEF StoreInv

\* The return of a call: the lease Reserve hands out is in the file.
LEMMA UnlockStep ==
  ASSUME StoreInv, NEW p \in Proc, Unlock(p)
  PROVE  StoreInv'
  <1> USE ConstantsAssumption DEF StoreInv, Unlock, Clear
  <1>a. lock = p /\ pc[p] = "unlock" /\ req[p] \in Request
    BY DEF LockInv, RequestInv, Critical
  <1>b. \A q \in Proc : q # p => pc'[q] = pc[q] /\ pc[q] \notin Critical
    BY <1>a DEF LockInv, TypeOK
  <1>c. ASSUME ret[p] = "ok" /\ req[p].op = "reserve"
        PROVE  known' \subseteq Token /\ held' \subseteq Holding /\ LeaseOnDisk' /\ HeldInv'
    <2> DEFINE new == {[gpu |-> g, record |-> LeaseRecord(p)] : g \in req[p].uuids}
    <2>0. req[p].token \in Token
      BY <1>a, <1>c DEF TypeOK, ReturnInv
    <2>1. LeaseRecord(p) \in Record
      BY <1>a, <2>0 DEF LeaseRecord, Record, Request, TypeOK
    <2>2. new \subseteq Holding /\ \A h \in new : file[h.gpu] = h.record
      BY <1>a, <1>c, <2>1 DEF Holding, Request, ReturnInv
    <2>3. held' \subseteq held \cup new /\ known' = known \cup {req[p].token}
      BY <1>c
    <2>4. \A h \in held' : h \in held \/ (h \in new /\ h.record.expires > clock)
      BY <1>c
    <2> HIDE DEF new
    <2> QED
      BY <2>0, <2>2, <2>3, <2>4 DEF TypeOK, LeaseOnDisk, HeldInv
  <1>d. ASSUME ~(ret[p] = "ok" /\ req[p].op = "reserve")
        PROVE  known' \subseteq Token /\ held' \subseteq Holding /\ LeaseOnDisk' /\ HeldInv'
    <2>1. Tokens(st[p]) \subseteq Token
      BY DEF Tokens, TypeOK, Table, Record
    <2> QED
      BY <1>d, <2>1 DEF TypeOK, LeaseOnDisk, HeldInv
  <1>e. known' \subseteq Token /\ held' \subseteq Holding /\ LeaseOnDisk' /\ HeldInv'
    BY <1>c, <1>d
  <1>1. TypeOK'
    BY <1>e DEF TypeOK, Label, EmptyTable, Table
  <1>2. LockInv'
    BY <1>a, <1>b DEF TypeOK, LockInv, Critical
  <1>3. RequestInv'
    BY <1>b DEF TypeOK, RequestInv
  <1>4. SnapshotInv'
    BY <1>b DEF TypeOK, SnapshotInv, Critical
  <1>5. ReserveInv'
    BY <1>b DEF TypeOK, ReserveInv, Critical
  <1>6. ReleaseInv'
    BY <1>b DEF TypeOK, ReleaseInv, Critical
  <1>7. ReturnInv'
    BY <1>b DEF TypeOK, ReturnInv, Critical
  <1>8. HeldInv'
    BY <1>e
  <1>9. TokenInv'
    BY DEF TokenInv
  <1>10. LeaseOnDisk'
    BY <1>e
  <1> QED
    BY <1>1, <1>2, <1>3, <1>4, <1>5, <1>6, <1>7, <1>8, <1>9, <1>10 DEF StoreInv

\* The invariant is inductive: one step per action of the store.
LEMMA NextStoreInv == StoreInv /\ [Next]_vars => StoreInv'
  <1> SUFFICES ASSUME StoreInv, [Next]_vars PROVE StoreInv'
    OBVIOUS
  <1>1. ASSUME NEW p \in Proc, Call(p) PROVE StoreInv'
    <2>1. ASSUME NEW uuids \in SUBSET GPU, NEW owner \in Owner, NEW ttl \in Ttl,
                 Reserve(p, uuids, owner, ttl)
          PROVE  StoreInv'
      <3> DEFINE r == [op |-> "reserve", uuids |-> uuids, owner |-> owner,
                       ttl |-> ttl, token |-> NoToken]
      <3>1. r \in Request /\ r.op # "release" /\ Enter(p, r)
        BY <2>1, ConstantsAssumption DEF Reserve, Request
      <3> QED
        BY <3>1, EnterStep
    <2>2. ASSUME NEW uuids \in SUBSET GPU, NEW owner \in Owner, NEW token \in Token,
                 Release(p, token, owner, uuids)
          PROVE  StoreInv'
      <3> DEFINE r == [op |-> "release", uuids |-> uuids, owner |-> owner,
                       ttl |-> 0, token |-> token]
      <3>1. r \in Request /\ r.token \in Token /\ Enter(p, r)
        BY <2>2 DEF Release, Request
      <3> QED
        BY <3>1, EnterStep
    <2>3. CASE Active(p)
      <3> DEFINE r == [op |-> "active", uuids |-> {}, owner |-> CHOOSE o \in Owner : TRUE,
                       ttl |-> 0, token |-> NoToken]
      <3>1. r \in Request /\ r.op # "release" /\ Enter(p, r)
        BY <2>3, ConstantsAssumption DEF Active, Request
      <3> QED
        BY <3>1, EnterStep
    <2> QED
      BY <1>1, <2>1, <2>2, <2>3 DEF Call
  <1>2. ASSUME NEW p \in Proc, Step(p) PROVE StoreInv'
    <2>1. lock = p => pc[p] \in Critical
      BY DEF StoreInv, LockInv
    <2>2. CASE LockFails(p) \/ Cancel(p)
      BY <2>1, <2>2, LeaveStep DEF LockFails, Cancel, Critical
    <2>3. CASE ReadFails(p) \/ RandomTokenFails(p) \/ WriteFails(p)
      BY <2>3, FailStep DEF ReadFails, RandomTokenFails, WriteFails, Critical
    <2> QED
      BY <1>2, <2>2, <2>3, TryLockStep, WaitStep, ReadStep, CheckReserveStep, CheckReleaseStep,
         CheckActiveStep, WriteTempStep, CommitStep, UnlockStep DEF Step
  <1>3. ASSUME NEW p \in Proc, Crash(p) PROVE StoreInv'
    BY <1>3, LeaveStep DEF Crash
  <1>4. CASE UNCHANGED vars
    BY <1>4 DEF vars, calls, ghosts, StoreInv, TypeOK, LockInv, RequestInv, SnapshotInv,
        ReserveInv, ReleaseInv, ReturnInv, HeldInv, TokenInv, LeaseOnDisk, LeaseRecord
  <1> QED
    BY <1>1, <1>2, <1>3, <1>4, WaitStep, TickStep DEF Next

\* The invariant holds of every behaviour of the store.
THEOREM StoreInvariant == Spec => []StoreInv
  BY InitStoreInv, NextStoreInv, PTL DEF Spec

\* Every variable keeps its type.
THEOREM TypeCorrect == Spec => []TypeOK
  <1>1. StoreInv => TypeOK
    BY DEF StoreInv
  <1> QED
    BY <1>1, StoreInvariant, PTL

\* A lease Reserve returned is in the store file until it expires or is released.
THEOREM LeaseOnDiskCorrect == Spec => []LeaseOnDisk
  <1>1. StoreInv => LeaseOnDisk
    BY DEF StoreInv
  <1> QED
    BY <1>1, StoreInvariant, PTL

\* No GPU is ever leased to two holders at once: two holdings of one GPU are both
\* the record the file has for it.
THEOREM ExclusiveLeaseCorrect == Spec => []ExclusiveLease
  <1>1. StoreInv => ExclusiveLease
    BY DEF StoreInv, TypeOK, LeaseOnDisk, ExclusiveLease, Holding
  <1> QED
    BY <1>1, StoreInvariant, PTL

-------------------------------------------------------------------------------

\* The file and the table of live leases change only by Commit and Tick.
LEMMA FileStep ==
  ASSUME [Next]_vars
  PROVE  \/ UNCHANGED <<clock, file>>
         \/ clock' = clock /\ \E p \in Proc : Commit(p)
         \/ Tick
  BY DEF Next, vars, Call, Reserve, Release, Active, Enter, Step, TryLock, LockFails, Wake,
         Cancel, ReadState, ReadFails, CheckReserve, RandomTokenFails, CheckRelease,
         CheckActive, WriteTemp, WriteFails, Commit, Unlock, CtxDone, Crash, Fail

\* What a Commit does to the file, in terms of the file alone.
LEMMA CommitEffect ==
  ASSUME StoreInv, NEW p \in Proc, Commit(p)
  PROVE  /\ pc[p] = "commit" /\ req[p] \in Request /\ now[p] \in Nat /\ now[p] <= clock
         /\ \/ /\ req[p].op = "reserve"
               /\ LeaseRecord(p) \in Record
               /\ file' = AddRecords(RemoveExpired(file, now[p]), req[p].uuids, LeaseRecord(p))
               /\ \A g \in req[p].uuids : ~Unexpired(file[g], now[p])
               /\ \A g \in GPU : file[g] # NoRecord => file[g].token # req[p].token
            \/ /\ req[p].op = "release"
               /\ req[p].token \in Token
               /\ file' = DeleteRecords(RemoveExpired(file, now[p]), req[p].uuids)
               /\ \A g \in req[p].uuids : Unexpired(file[g], now[p]) => Owns(file[g], req[p])
  <1>1. pc[p] = "commit" /\ req[p] \in Request /\ now[p] \in Nat /\ file' = st[p]
    BY DEF Commit, StoreInv, RequestInv, TypeOK
  <1>2. CASE req[p].op = "reserve"
    <2>1. req[p].token \in Token
      BY <1>1, <1>2 DEF StoreInv, ReserveInv, TypeOK
    <2>2. LeaseRecord(p) \in Record
      BY <1>1, <2>1 DEF LeaseRecord, Record, Request
    <2> QED
      BY <1>1, <1>2, <2>2 DEF StoreInv, ReserveInv
  <1>3. CASE req[p].op # "reserve"
    BY <1>1, <1>3 DEF StoreInv, ReleaseInv, RequestInv
  <1> QED
    BY <1>2, <1>3

\* An unexpired record leaves the file only through a Release by its owner: a
\* Commit rewrites the rest of the file as it is, minus what has expired.
THEOREM OnlyOwnerFreesCorrect == Spec => OnlyOwnerFrees
  <1> DEFINE Freed == \A g \in GPU :
          file[g] # NoRecord /\ file[g].expires > clock /\ file'[g] # file[g] =>
              \E p \in Proc : /\ pc[p] = "commit" /\ req[p].op = "release"
                              /\ g \in req[p].uuids
                              /\ file[g].token = req[p].token
                              /\ file[g].owner = req[p].owner
  <1>1. StoreInv /\ [Next]_vars => [Freed]_vars
    <2> SUFFICES ASSUME StoreInv, [Next]_vars, NEW g \in GPU,
                        file[g] # NoRecord /\ file[g].expires > clock, file'[g] # file[g]
                 PROVE  \E p \in Proc : /\ pc[p] = "commit" /\ req[p].op = "release"
                                        /\ g \in req[p].uuids
                                        /\ file[g].token = req[p].token
                                        /\ file[g].owner = req[p].owner
      OBVIOUS
    <2>1. PICK p \in Proc : Commit(p)
      BY FileStep DEF Tick
    <2>2. Unexpired(file[g], now[p])
      BY <2>1, CommitEffect DEF Unexpired, StoreInv, TypeOK, Table, Record
    <2>3. g \in req[p].uuids
      BY <2>1, <2>2, CommitEffect DEF AddRecords, DeleteRecords, RemoveExpired
    <2> QED
      BY <2>1, <2>2, <2>3, CommitEffect DEF Owns
  <1> QED
    BY <1>1, StoreInvariant, PTL DEF Spec, OnlyOwnerFrees

\* A token comes into the file on the whole requested set at once, because the
\* write is one rename and the token was in no record before.
THEOREM AllOrNothingCorrect == Spec => AllOrNothing
  <1> DEFINE Atomic == \A t \in Token :
          \/ HeldBy(file', t) \subseteq HeldBy(file, t)
          \/ /\ HeldBy(file, t) = {}
             /\ \E p \in Proc : req[p] # NoRequest /\ req[p].token = t
                                /\ HeldBy(file', t) = req[p].uuids
  <1>1. StoreInv /\ [Next]_vars => [Atomic]_vars
    <2> SUFFICES ASSUME StoreInv, [Next]_vars, NEW t \in Token,
                        ~(HeldBy(file', t) \subseteq HeldBy(file, t))
                 PROVE  /\ HeldBy(file, t) = {}
                        /\ \E p \in Proc : req[p] # NoRequest /\ req[p].token = t
                                           /\ HeldBy(file', t) = req[p].uuids
      OBVIOUS
    <2>1. PICK p \in Proc : Commit(p)
      BY FileStep DEF Tick
    <2>2. PICK g \in GPU : g \in HeldBy(file', t) /\ g \notin HeldBy(file, t)
      BY DEF HeldBy
    <2>3. /\ req[p].op = "reserve" /\ g \in req[p].uuids /\ LeaseRecord(p).token = t
      BY <2>1, <2>2, CommitEffect
         DEF HeldBy, AddRecords, DeleteRecords, RemoveExpired
    <2>4. req[p].token = t /\ req[p].uuids \subseteq GPU /\ req[p] # NoRequest
      <3>1. req[p] \in Request
        BY <2>1, CommitEffect
      <3>2. req[p] # NoRequest
        BY <3>1, ConstantsAssumption
      <3> QED
        BY <2>3, <3>1, <3>2 DEF LeaseRecord, Request
    <2>5. HeldBy(file, t) = {}
      BY <2>1, <2>3, <2>4, CommitEffect DEF HeldBy
    <2>6. LeaseRecord(p) # NoRecord
      BY <2>1, <2>3, CommitEffect, ConstantsAssumption
    <2>7. HeldBy(file', t) = req[p].uuids
      BY <2>1, <2>3, <2>4, <2>5, <2>6, CommitEffect DEF HeldBy, AddRecords, RemoveExpired
    <2> QED
      BY <2>4, <2>5, <2>7
  <1> QED
    BY <1>1, StoreInvariant, PTL DEF Spec, AllOrNothing

\* The store implements the atomic table of leases: a Reserve's rename is a Grant
\* (or nothing, if its lease has expired meanwhile), a Release's rename a Free,
\* the clock a Tick, and every other step leaves the table alone.
THEOREM Refinement == Spec => ImplementsLeaseTable
  <1>1. Init => Leases!Init
    BY DEF Init, Leases!Init, LiveTable, EmptyTable
  <1>2. StoreInv /\ [Next]_vars => [Leases!Next]_<<clock, LiveTable>>
    <2> SUFFICES ASSUME StoreInv, [Next]_vars
                 PROVE  Leases!Next \/ UNCHANGED <<clock, LiveTable>>
      OBVIOUS
    <2>1. CASE UNCHANGED <<clock, file>>
      BY <2>1 DEF LiveTable
    <2>2. CASE Tick
      BY <2>2 DEF Tick, LiveTable, Leases!Next, Leases!Tick, StoreInv, TypeOK, Table, Record
    <2>3. ASSUME NEW p \in Proc, Commit(p), clock' = clock
          PROVE  Leases!Next \/ UNCHANGED <<clock, LiveTable>>
      <3> DEFINE S == req[p].uuids
      <3>1. /\ S \in SUBSET GPU /\ now[p] \in Nat /\ now[p] <= clock /\ clock \in Nat
            /\ file \in Table
        BY <2>3, CommitEffect DEF Request, StoreInv, TypeOK
      <3>2. \A g \in GPU : Unexpired(file[g], clock) => Unexpired(file[g], now[p])
        BY <3>1 DEF Unexpired, Table, Record
      <3>3. CASE req[p].op = "reserve"
        <4> DEFINE r == LeaseRecord(p)
        <4>1. /\ r \in Record /\ r # NoRecord /\ r.token = req[p].token
              /\ file' = AddRecords(RemoveExpired(file, now[p]), S, r)
              /\ \A g \in S : ~Unexpired(file[g], now[p])
              /\ \A g \in GPU : file[g] # NoRecord => file[g].token # req[p].token
          BY <2>3, <3>3, CommitEffect, ConstantsAssumption DEF LeaseRecord
        <4> HIDE DEF r
        <4>2. \A g \in S : LiveTable[g] = NoRecord
          BY <3>1, <3>2, <4>1 DEF LiveTable, Unexpired
        <4>3. CASE r.expires > clock
          <5>1. LiveTable' = [g \in GPU |-> IF g \in S THEN r ELSE LiveTable[g]]
            BY <2>3, <3>1, <3>2, <4>1, <4>3
               DEF LiveTable, AddRecords, RemoveExpired, Unexpired
          <5>2. r \in Leases!Record
            BY <4>1 DEF Record, Leases!Record
          <5>3. \A g \in GPU : LiveTable[g] # NoRecord => LiveTable[g].token # r.token
            BY <4>1 DEF LiveTable
          <5>4. Leases!Grant(S, r)
            BY <2>3, <4>2, <4>3, <5>1, <5>2, <5>3 DEF Leases!Grant
          <5>5. CASE S = {}
            BY <2>3, <5>1, <5>5 DEF LiveTable
          <5>6. ASSUME NEW g \in S PROVE Leases!Next
            BY <3>1, <5>1, <5>4, <5>6 DEF Leases!Next
          <5> QED
            BY <5>5, <5>6
        <4>4. CASE ~(r.expires > clock)
          BY <2>3, <3>1, <3>2, <4>1, <4>2, <4>4
             DEF LiveTable, AddRecords, RemoveExpired, Unexpired
        <4> QED
          BY <4>3, <4>4
      <3>4. CASE req[p].op # "reserve"
        <4>1. /\ req[p].token \in Token
              /\ file' = DeleteRecords(RemoveExpired(file, now[p]), S)
              /\ \A g \in S : Unexpired(file[g], now[p]) => Owns(file[g], req[p])
          BY <2>3, <3>4, CommitEffect
        <4>2. LiveTable' = [g \in GPU |-> IF g \in S THEN NoRecord ELSE LiveTable[g]]
          BY <2>3, <3>1, <3>2, <4>1
             DEF LiveTable, DeleteRecords, RemoveExpired, Unexpired
        <4>3. \A g \in S : LiveTable[g] # NoRecord => LiveTable[g].token = req[p].token
          BY <3>1, <3>2, <4>1 DEF LiveTable, Unexpired, Owns
        <4>4. Leases!Free(S, req[p].token)
          BY <2>3, <4>2, <4>3 DEF Leases!Free
        <4> QED
          BY <3>1, <4>1, <4>4 DEF Leases!Next
      <3> QED
        BY <3>3, <3>4
    <2> QED
      BY <2>1, <2>2, <2>3, FileStep
  <1> QED
    BY <1>1, <1>2, StoreInvariant, PTL DEF Spec, ImplementsLeaseTable, Leases!Spec
===============================================================================
