-------------------------- MODULE OutputRootProofs --------------------------
(***************************************************************************)
(* Safety of the output root's locks and clean-up, for any executions,       *)
(* processes, roots nested one level deep, and identities.                  *)
(***************************************************************************)
EXTENDS OutputRoot, TLAPS

(***************************************************************************)
(* The inductive invariant.  What two executions on one root may assume of   *)
(* each other rests on the coordinator alone; what an execution may assume   *)
(* of the directory rests on the identities it has seen.  Each part but the  *)
(* last speaks of one execution and of what lies at its root.               *)
(***************************************************************************)

\* The labels before and after prepareOutputRoot has recorded the identity.
Unprepared == {"idle", "parent", "cmutex", "copen", "cflock", "lstat", "mkdir", "restat"}
Prepared   == {"space", "omutex", "oopen", "ocheck", "oflock", "body", "run"} \cup Cleaning

\* An execution past the coordinator's flock still has it.
CoordinatorInv(a) ==
    /\ pc[a] # "idle" => root[a] \in Root
    /\ pc[a] \in Holding => coordinator[root[a]] = a

\* The identity is that of a directory which, but for strangers, is still there.
IdentityInv(a) ==
    /\ pc[a] \in Unprepared => identity[a] = NoInode
    /\ pc[a] \in Prepared =>
          /\ identity[a] # NoInode
          /\ dir[root[a]] # NoInode
          /\ root[a] \notin Tampered => dir[root[a]] = identity[a]

\* The lock file that was opened is, but for strangers, the one at the path.
LockFileInv(a) ==
    pc[a] \in {"ocheck", "oflock", "body", "run"} /\ root[a] \notin Tampered =>
        lockFile[root[a]] = opened[a]

\* An execution that believes it created its root made the directory with the
\* identity it recorded, or had it replaced just before it recorded it; only such
\* an execution cleans up.
CreatedInv(a) ==
    /\ created[a] => pc[a] \in {"restat", "unlock"} \/ pc[a] \in Prepared
    /\ created[a] /\ pc[a] = "restat" => dir[root[a]] # NoInode /\ (maker[root[a]] = a \/ a \in swapped)
    /\ created[a] /\ pc[a] \in Prepared /\ dir[root[a]] = identity[a] =>
          maker[root[a]] = a \/ a \in swapped
    /\ pc[a] \in Cleaning => created[a]
    /\ a \in swapped => pc[a] # "idle" /\ root[a] \in Tampered

\* Once the clean-up has compared the identity, the directory is the one the
\* execution made, or was replaced in a blind moment.  One that was replaced
\* while the lock file was at stake has none.
CheckedInv(a) ==
    /\ pc[a] \in {"readdir", "rmdir"} => maker[root[a]] = a \/ a \in swapped
    /\ pc[a] \in {"lstatlock", "rmlock"} =>
          maker[root[a]] = a \/ a \in swapped \/ lockFile[root[a]] = NoInode

\* Only a command that was started ends without a clean-up.
StartedInv(a) ==
    /\ pc[a] \notin {"run", "unlock"} => ~started[a]
    /\ pc[a] = "run" => started[a]

\* ProvenanceIsTrue of one execution.
ReportInv(a) ==
    /\ pc[a] # "unlock" => cleanup[a] # "removed"
    /\ pc[a] = "unlock" =>
          /\ maker[root[a]] = a /\ identity[a] # NoInode =>
                OutputRootCreated(a) /\ (started[a] \/ cleanup[a] = "preserved")
          /\ OutputRootCreated(a) /\ root[a] \notin Tampered => maker[root[a]] = a
          /\ cleanup[a] = "removed" => maker[root[a]] # a

ExecutionInv(a) ==
    /\ CoordinatorInv(a) /\ IdentityInv(a) /\ LockFileInv(a) /\ CreatedInv(a)
    /\ CheckedInv(a) /\ StartedInv(a) /\ ReportInv(a)

\* Who made a directory is still running, on that root, and knows it.
MakerInv == \A a \in Action, r \in Root : maker[r] = a => created[a] /\ root[a] = r

IInv == TypeOK /\ MakerInv /\ \A a \in Action : ExecutionInv(a)

-----------------------------------------------------------------------------
\* The coordinator's flock has one holder, so one execution at most is past it.
LEMMA Exclusive == IInv => ExclusiveRoot
  BY DEF IInv, ExecutionInv, CoordinatorInv, ExclusiveRoot, TypeOK

\* A new directory or file has an identity that nothing else has or remembers.
LEMMA NewInodeIsFresh ==
  ASSUME Fresh # {}
  PROVE  /\ NewInode \in Inode
         /\ \A r \in Root : NewInode # dir[r] /\ NewInode # lockFile[r]
         /\ \A a \in Action : NewInode # identity[a] /\ NewInode # opened[a]
  BY DEF NewInode, Fresh

(***************************************************************************)
(* What a step of another execution leaves alone.                          *)
(***************************************************************************)

\* The step does not touch the execution's local variables.
SameLocals(b) ==
    /\ pc'[b] = pc[b] /\ root'[b] = root[b] /\ created'[b] = created[b]
    /\ identity'[b] = identity[b] /\ opened'[b] = opened[b]
    /\ started'[b] = started[b] /\ cleanup'[b] = cleanup[b]
    /\ b \in swapped' <=> b \in swapped

\* The step does not touch what lies at the execution's root, nor its flock.
SameRoot(b) ==
    /\ coordinator[root[b]] = b => coordinator'[root[b]] = b
    /\ dir'[root[b]] = dir[root[b]]
    /\ lockFile'[root[b]] = lockFile[root[b]]
    /\ maker'[root[b]] = b <=> maker[root[b]] = b

\* Before its flock on the coordinator an execution assumes nothing of the files.
LEMMA Bystander ==
  ASSUME NEW b \in Action, ExecutionInv(b), SameLocals(b),
         pc[b] \in Holding => SameRoot(b)
  PROVE  ExecutionInv(b)'
<1> USE DEF ExecutionInv, SameLocals
<1> USE DEF Holding, Cleaning, Owning, Locking
<1>1. CoordinatorInv(b)'
  BY DEF SameRoot, CoordinatorInv
<1>2. IdentityInv(b)'
  BY DEF SameRoot, IdentityInv, Prepared, Unprepared
<1>3. LockFileInv(b)'
  BY DEF SameRoot, LockFileInv
<1>4. CreatedInv(b)'
  <2>1. CASE pc[b] \in Holding
    BY <2>1 DEF SameRoot, CreatedInv, Prepared
  <2>2. CASE pc[b] \notin Holding
    BY <2>2 DEF CreatedInv, Prepared
  <2> QED
    BY <2>1, <2>2
<1>5. CheckedInv(b)'
  BY DEF SameRoot, CheckedInv
<1>6. StartedInv(b)'
  BY DEF StartedInv
<1>7. ReportInv(b)'
  BY DEF SameRoot, ReportInv, OutputRootCreated
<1> QED
  BY <1>1, <1>2, <1>3, <1>4, <1>5, <1>6, <1>7

\* A step of one execution preserves the invariant if it preserves its own part
\* and touches no root on which another is past the coordinator.
LEMMA OwnStep ==
  ASSUME IInv, NEW a \in Action, TypeOK', MakerInv', ExecutionInv(a)',
         \A b \in Action \ {a} : SameLocals(b) /\ (pc[b] \in Holding => SameRoot(b))
  PROVE  IInv'
<1>1. ASSUME NEW b \in Action PROVE ExecutionInv(b)'
  <2>1. CASE b = a
    BY <2>1
  <2>2. CASE b # a
    BY <2>2, Bystander DEF IInv
  <2> QED
    BY <2>1, <2>2
<1> QED
  BY <1>1 DEF IInv

\* The same for a step that changes no file and no coordinator.
LEMMA QuietStep ==
  ASSUME IInv, NEW a \in Action, TypeOK', ExecutionInv(a)',
         UNCHANGED <<files, coordinator, root, created>>,
         \A b \in Action \ {a} : SameLocals(b)
  PROVE  IInv'
<1>1. MakerInv'
  BY DEF IInv, MakerInv, files
<1>2. ASSUME NEW b \in Action \ {a} PROVE SameRoot(b)
  BY DEF SameRoot, files
<1> QED
  BY <1>1, <1>2, OwnStep

\* The same for a step past the coordinator that changes files at its own root:
\* nobody else is at work there.
LEMMA AloneStep ==
  ASSUME IInv, NEW a \in Action, pc[a] \in Holding, TypeOK', MakerInv', ExecutionInv(a)',
         coordinator' = coordinator,
         \A b \in Action \ {a} : SameLocals(b),
         \A r \in Root \ {root[a]} :
             dir'[r] = dir[r] /\ lockFile'[r] = lockFile[r] /\ maker'[r] = maker[r]
  PROVE  IInv'
<1>1. ASSUME NEW b \in Action \ {a}, pc[b] \in Holding PROVE SameRoot(b)
  <2>1. root[b] \in Root \ {root[a]}
    <3>1. root[b] # root[a]
      BY <1>1, Exclusive DEF ExclusiveRoot
    <3>2. pc[b] # "idle"
      BY <1>1 DEF Holding, Cleaning, Owning, Locking
    <3> QED
      BY <3>1, <3>2 DEF IInv, ExecutionInv, CoordinatorInv
  <2> QED
    BY <2>1 DEF SameRoot
<1> QED
  BY <1>1, OwnStep

(***************************************************************************)
(* The steps.                                                              *)
(***************************************************************************)

\* An empty file system and executions that have not begun satisfy the invariant.
LEMMA InitInv == Init => IInv
<1> SUFFICES ASSUME Init PROVE IInv
  OBVIOUS
<1> USE ConstantsAssumption DEF Init
<1>1. TypeOK
  BY DEF TypeOK, Label
<1>2. MakerInv
  BY DEF MakerInv
<1>3. ASSUME NEW a \in Action PROVE ExecutionInv(a)
  BY DEF ExecutionInv, CoordinatorInv, IdentityInv, LockFileInv, CreatedInv, CheckedInv, StartedInv,
         ReportInv, OutputRootCreated, Unprepared, Prepared, Holding, Cleaning, Owning, Locking
<1> QED
  BY <1>1, <1>2, <1>3 DEF IInv

\* The coordinator's mutex.
LEMMA LockCoordinatorMutexStep ==
  ASSUME IInv, NEW a \in Action, LockCoordinatorMutex(a)
  PROVE  IInv'
<1> USE ConstantsAssumption DEF IInv
<1>0. root[a] \in Root
  BY DEF LockCoordinatorMutex, ExecutionInv, CoordinatorInv
<1>1. /\ pc[a] = "cmutex"
      /\ pc'[a] = "copen" /\ root'[a] = root[a] /\ created'[a] = created[a]
      /\ identity'[a] = identity[a] /\ opened'[a] = opened[a]
      /\ started'[a] = started[a] /\ cleanup'[a] = cleanup[a]
      /\ dir'[root[a]] = dir[root[a]] /\ lockFile'[root[a]] = lockFile[root[a]]
      /\ maker'[root[a]] = maker[root[a]] /\ swapped' = swapped
      /\ coordinator'[root[a]] = coordinator[root[a]]
  BY <1>0 DEF LockCoordinatorMutex, Goto, files, locals, locks, TypeOK
<1>2. TypeOK'
  <2>1. <<"coordinator", root[a]>> \in {"coordinator", "lock"} \X Root
    BY <1>0
  <2>2. mutex' \in [Action -> SUBSET ({"coordinator", "lock"} \X Root)]
    BY <2>1 DEF LockCoordinatorMutex, TypeOK
  <2> QED
    BY <2>2 DEF LockCoordinatorMutex, Goto, files, locals, locks, TypeOK, Label, Holding, Cleaning, Owning, Locking
<1>3. \A b \in Action \ {a} : SameLocals(b)
  BY DEF LockCoordinatorMutex, Goto, files, locals, locks, TypeOK, SameLocals
<1>4. UNCHANGED <<files, coordinator, root, created>>
  BY DEF LockCoordinatorMutex, Goto, files, locals, locks
<1>5. ExecutionInv(a)'
  BY <1>0, <1>1 DEF ExecutionInv, CoordinatorInv, IdentityInv, LockFileInv, CreatedInv, CheckedInv, StartedInv,
         ReportInv, OutputRootCreated, MakerInv, Unprepared, Prepared, Holding, Cleaning, Owning, Locking
<1> QED
  BY <1>2, <1>3, <1>4, <1>5, QuietStep

\* Execute looks for the root, and records its identity if it is there.
LEMMA LstatRootStep ==
  ASSUME IInv, NEW a \in Action, LstatRoot(a)
  PROVE  IInv'
<1> USE ConstantsAssumption DEF IInv
<1>0. pc[a] = "lstat" /\ root[a] \in Root
  BY DEF LstatRoot, ExecutionInv, CoordinatorInv
<1>1. /\ UNCHANGED <<proc, files, locks, root, created, opened, owned, started, cleanup>>
      /\ \/ /\ pc' = [pc EXCEPT ![a] = "mkdir"]
            /\ identity' = identity
         \/ /\ dir[root[a]] # NoInode
            /\ pc' = [pc EXCEPT ![a] = "space"]
            /\ identity' = [identity EXCEPT ![a] = dir[root[a]]]
  BY DEF LstatRoot, Goto
<1>2. TypeOK'
  <2>1. pc' \in [Action -> Label]
    BY <1>1 DEF TypeOK, Label, Holding, Cleaning, Owning, Locking
  <2>2. dir[root[a]] \in Inode \cup {NoInode}
    BY <1>0 DEF TypeOK
  <2>3. identity' \in [Action -> Inode \cup {NoInode}]
    BY <1>1, <2>2 DEF TypeOK
  <2> QED
    BY <1>1, <2>1, <2>3 DEF TypeOK, files, locks
<1>3. \A b \in Action \ {a} : SameLocals(b)
  <2>1. \A b \in Action \ {a} : pc'[b] = pc[b] /\ identity'[b] = identity[b]
    BY <1>1 DEF TypeOK
  <2> QED
    BY <1>1, <2>1 DEF SameLocals, files
<1>4. UNCHANGED <<files, coordinator, root, created>>
  BY <1>1 DEF locks
<1>5. ExecutionInv(a)'
  <2>1. \/ pc'[a] = "mkdir" /\ identity'[a] = identity[a]
        \/ pc'[a] = "space" /\ identity'[a] = dir[root[a]] /\ dir[root[a]] # NoInode
    BY <1>1 DEF TypeOK
  <2> QED
    BY <1>0, <1>1, <2>1
    DEF files, locks, ExecutionInv, CoordinatorInv, IdentityInv, LockFileInv, CreatedInv, CheckedInv,
        StartedInv, ReportInv, OutputRootCreated, Unprepared, Prepared, Holding, Cleaning, Owning, Locking
<1> QED
  BY <1>2, <1>3, <1>4, <1>5, QuietStep

\* Execute records the identity of the root that is there.
LEMMA RestatRootStep ==
  ASSUME IInv, NEW a \in Action, RestatRoot(a)
  PROVE  IInv'
<1> USE ConstantsAssumption DEF IInv
<1>0. root[a] \in Root
  BY DEF RestatRoot, ExecutionInv, CoordinatorInv
<1>1. /\ pc[a] = "restat" /\ dir[root[a]] # NoInode
      /\ pc'[a] = "space" /\ root'[a] = root[a] /\ created'[a] = created[a]
      /\ identity'[a] = dir[root[a]] /\ opened'[a] = opened[a]
      /\ started'[a] = started[a] /\ cleanup'[a] = cleanup[a]
      /\ dir'[root[a]] = dir[root[a]] /\ lockFile'[root[a]] = lockFile[root[a]]
      /\ maker'[root[a]] = maker[root[a]] /\ swapped' = swapped
      /\ coordinator'[root[a]] = coordinator[root[a]]
  BY <1>0 DEF RestatRoot, Goto, files, locals, locks, TypeOK
<1>2. TypeOK'
  BY <1>0 DEF RestatRoot, Goto, files, locals, locks, TypeOK, Label, Holding, Cleaning, Owning, Locking
<1>3. \A b \in Action \ {a} : SameLocals(b)
  BY DEF RestatRoot, Goto, files, locals, locks, TypeOK, SameLocals
<1>4. UNCHANGED <<files, coordinator, root, created>>
  BY DEF RestatRoot, Goto, files, locals, locks
<1>5. ExecutionInv(a)'
  BY <1>0, <1>1 DEF ExecutionInv, CoordinatorInv, IdentityInv, LockFileInv, CreatedInv, CheckedInv, StartedInv,
         ReportInv, OutputRootCreated, MakerInv, Unprepared, Prepared, Holding, Cleaning, Owning, Locking
<1> QED
  BY <1>2, <1>3, <1>4, <1>5, QuietStep

\* prepareOutputRoot fails; nothing is cleaned up.
LEMMA PrepareFailsStep ==
  ASSUME IInv, NEW a \in Action, PrepareFails(a)
  PROVE  IInv'
<1> USE ConstantsAssumption DEF IInv
<1>0. root[a] \in Root
  BY DEF PrepareFails, ExecutionInv, CoordinatorInv
<1>1. /\ pc[a] \in {"lstat", "mkdir", "restat"}
      /\ pc'[a] = "unlock" /\ root'[a] = root[a] /\ created'[a] = created[a]
      /\ identity'[a] = identity[a] /\ opened'[a] = opened[a]
      /\ started'[a] = started[a] /\ cleanup'[a] = cleanup[a]
      /\ dir'[root[a]] = dir[root[a]] /\ lockFile'[root[a]] = lockFile[root[a]]
      /\ maker'[root[a]] = maker[root[a]] /\ swapped' = swapped
      /\ coordinator'[root[a]] = coordinator[root[a]]
  BY <1>0 DEF PrepareFails, Goto, files, locals, locks, TypeOK
<1>2. TypeOK'
  BY <1>0 DEF PrepareFails, Goto, files, locals, locks, TypeOK, Label, Holding, Cleaning, Owning, Locking
<1>3. \A b \in Action \ {a} : SameLocals(b)
  BY DEF PrepareFails, Goto, files, locals, locks, TypeOK, SameLocals
<1>4. UNCHANGED <<files, coordinator, root, created>>
  BY DEF PrepareFails, Goto, files, locals, locks
<1>5. ExecutionInv(a)'
  BY <1>0, <1>1 DEF ExecutionInv, CoordinatorInv, IdentityInv, LockFileInv, CreatedInv, CheckedInv, StartedInv,
         ReportInv, OutputRootCreated, MakerInv, Unprepared, Prepared, Holding, Cleaning, Owning, Locking
<1> QED
  BY <1>2, <1>3, <1>4, <1>5, QuietStep

\* There is space enough.
LEMMA AvailableSpaceStep ==
  ASSUME IInv, NEW a \in Action, AvailableSpace(a)
  PROVE  IInv'
<1> USE ConstantsAssumption DEF IInv
<1>0. root[a] \in Root
  BY DEF AvailableSpace, ExecutionInv, CoordinatorInv
<1>1. /\ pc[a] = "space"
      /\ pc'[a] = "omutex" /\ root'[a] = root[a] /\ created'[a] = created[a]
      /\ identity'[a] = identity[a] /\ opened'[a] = opened[a]
      /\ started'[a] = started[a] /\ cleanup'[a] = cleanup[a]
      /\ dir'[root[a]] = dir[root[a]] /\ lockFile'[root[a]] = lockFile[root[a]]
      /\ maker'[root[a]] = maker[root[a]] /\ swapped' = swapped
      /\ coordinator'[root[a]] = coordinator[root[a]]
  BY <1>0 DEF AvailableSpace, Goto, files, locals, locks, TypeOK
<1>2. TypeOK'
  BY <1>0 DEF AvailableSpace, Goto, files, locals, locks, TypeOK, Label, Holding, Cleaning, Owning, Locking
<1>3. \A b \in Action \ {a} : SameLocals(b)
  BY DEF AvailableSpace, Goto, files, locals, locks, TypeOK, SameLocals
<1>4. UNCHANGED <<files, coordinator, root, created>>
  BY DEF AvailableSpace, Goto, files, locals, locks
<1>5. ExecutionInv(a)'
  BY <1>0, <1>1 DEF ExecutionInv, CoordinatorInv, IdentityInv, LockFileInv, CreatedInv, CheckedInv, StartedInv,
         ReportInv, OutputRootCreated, MakerInv, Unprepared, Prepared, Holding, Cleaning, Owning, Locking
<1> QED
  BY <1>2, <1>3, <1>4, <1>5, QuietStep

\* The output lock's mutex.
LEMMA LockOutputMutexStep ==
  ASSUME IInv, NEW a \in Action, LockOutputMutex(a)
  PROVE  IInv'
<1> USE ConstantsAssumption DEF IInv
<1>0. root[a] \in Root
  BY DEF LockOutputMutex, ExecutionInv, CoordinatorInv
<1>1. /\ pc[a] = "omutex"
      /\ pc'[a] = "oopen" /\ root'[a] = root[a] /\ created'[a] = created[a]
      /\ identity'[a] = identity[a] /\ opened'[a] = opened[a]
      /\ started'[a] = started[a] /\ cleanup'[a] = cleanup[a]
      /\ dir'[root[a]] = dir[root[a]] /\ lockFile'[root[a]] = lockFile[root[a]]
      /\ maker'[root[a]] = maker[root[a]] /\ swapped' = swapped
      /\ coordinator'[root[a]] = coordinator[root[a]]
  BY <1>0 DEF LockOutputMutex, Goto, files, locals, locks, TypeOK
<1>2. TypeOK'
  <2>1. <<"lock", root[a]>> \in {"coordinator", "lock"} \X Root
    BY <1>0
  <2>2. mutex' \in [Action -> SUBSET ({"coordinator", "lock"} \X Root)]
    BY <2>1 DEF LockOutputMutex, TypeOK
  <2> QED
    BY <2>2 DEF LockOutputMutex, Goto, files, locals, locks, TypeOK, Label, Holding, Cleaning, Owning, Locking
<1>3. \A b \in Action \ {a} : SameLocals(b)
  BY DEF LockOutputMutex, Goto, files, locals, locks, TypeOK, SameLocals
<1>4. UNCHANGED <<files, coordinator, root, created>>
  BY DEF LockOutputMutex, Goto, files, locals, locks
<1>5. ExecutionInv(a)'
  BY <1>0, <1>1 DEF ExecutionInv, CoordinatorInv, IdentityInv, LockFileInv, CreatedInv, CheckedInv, StartedInv,
         ReportInv, OutputRootCreated, MakerInv, Unprepared, Prepared, Holding, Cleaning, Owning, Locking
<1> QED
  BY <1>2, <1>3, <1>4, <1>5, QuietStep

\* The output lock's identity is compared with the path's.
LEMMA CheckOutputLockStep ==
  ASSUME IInv, NEW a \in Action, CheckOutputLock(a)
  PROVE  IInv'
<1> USE ConstantsAssumption DEF IInv
<1>0. root[a] \in Root
  BY DEF CheckOutputLock, ExecutionInv, CoordinatorInv
<1>1. /\ pc[a] = "ocheck" /\ lockFile[root[a]] = opened[a]
      /\ pc'[a] = "oflock" /\ root'[a] = root[a] /\ created'[a] = created[a]
      /\ identity'[a] = identity[a] /\ opened'[a] = opened[a]
      /\ started'[a] = started[a] /\ cleanup'[a] = cleanup[a]
      /\ dir'[root[a]] = dir[root[a]] /\ lockFile'[root[a]] = lockFile[root[a]]
      /\ maker'[root[a]] = maker[root[a]] /\ swapped' = swapped
      /\ coordinator'[root[a]] = coordinator[root[a]]
  BY <1>0 DEF CheckOutputLock, Goto, files, locals, locks, TypeOK
<1>2. TypeOK'
  BY <1>0 DEF CheckOutputLock, Goto, files, locals, locks, TypeOK, Label, Holding, Cleaning, Owning, Locking
<1>3. \A b \in Action \ {a} : SameLocals(b)
  BY DEF CheckOutputLock, Goto, files, locals, locks, TypeOK, SameLocals
<1>4. UNCHANGED <<files, coordinator, root, created>>
  BY DEF CheckOutputLock, Goto, files, locals, locks
<1>5. ExecutionInv(a)'
  BY <1>0, <1>1 DEF ExecutionInv, CoordinatorInv, IdentityInv, LockFileInv, CreatedInv, CheckedInv, StartedInv,
         ReportInv, OutputRootCreated, MakerInv, Unprepared, Prepared, Holding, Cleaning, Owning, Locking
<1> QED
  BY <1>2, <1>3, <1>4, <1>5, QuietStep

\* The output lock's flock.
LEMMA FlockOutputStep ==
  ASSUME IInv, NEW a \in Action, FlockOutput(a)
  PROVE  IInv'
<1> USE ConstantsAssumption DEF IInv
<1>0. root[a] \in Root
  BY DEF FlockOutput, ExecutionInv, CoordinatorInv
<1>1. /\ pc[a] = "oflock"
      /\ pc'[a] = "body" /\ root'[a] = root[a] /\ created'[a] = created[a]
      /\ identity'[a] = identity[a] /\ opened'[a] = opened[a]
      /\ started'[a] = started[a] /\ cleanup'[a] = cleanup[a]
      /\ dir'[root[a]] = dir[root[a]] /\ lockFile'[root[a]] = lockFile[root[a]]
      /\ maker'[root[a]] = maker[root[a]] /\ swapped' = swapped
      /\ coordinator'[root[a]] = coordinator[root[a]]
  BY <1>0 DEF FlockOutput, Goto, files, locals, locks, TypeOK
<1>2. TypeOK'
  BY <1>0 DEF FlockOutput, Goto, files, locals, locks, TypeOK, Label, Holding, Cleaning, Owning, Locking
<1>3. \A b \in Action \ {a} : SameLocals(b)
  BY DEF FlockOutput, Goto, files, locals, locks, TypeOK, SameLocals
<1>4. UNCHANGED <<files, coordinator, root, created>>
  BY DEF FlockOutput, Goto, files, locals, locks
<1>5. ExecutionInv(a)'
  BY <1>0, <1>1 DEF ExecutionInv, CoordinatorInv, IdentityInv, LockFileInv, CreatedInv, CheckedInv, StartedInv,
         ReportInv, OutputRootCreated, MakerInv, Unprepared, Prepared, Holding, Cleaning, Owning, Locking
<1> QED
  BY <1>2, <1>3, <1>4, <1>5, QuietStep

\* A failure before the output lock is held.
LEMMA FailPreparedStep ==
  ASSUME IInv, NEW a \in Action, FailPrepared(a)
  PROVE  IInv'
<1> USE ConstantsAssumption DEF IInv
<1>0. root[a] \in Root
  BY DEF FailPrepared, ExecutionInv, CoordinatorInv
<1>1. /\ pc[a] \in {"space", "oopen", "ocheck", "oflock"}
      /\ pc'[a] = (IF created[a] THEN "inspect" ELSE "unlock") /\ root'[a] = root[a]
      /\ created'[a] = created[a] /\ identity'[a] = identity[a]
      /\ opened'[a] = opened[a] /\ started'[a] = started[a]
      /\ cleanup'[a] = "failed" /\ dir'[root[a]] = dir[root[a]]
      /\ lockFile'[root[a]] = lockFile[root[a]] /\ maker'[root[a]] = maker[root[a]] /\ swapped' = swapped
      /\ coordinator'[root[a]] = coordinator[root[a]]
  BY <1>0 DEF FailPrepared, Goto, files, locals, locks, TypeOK
<1>2. TypeOK'
  BY <1>0 DEF FailPrepared, Goto, files, locals, locks, TypeOK, Label, Holding, Cleaning, Owning, Locking
<1>3. \A b \in Action \ {a} : SameLocals(b)
  BY DEF FailPrepared, Goto, files, locals, locks, TypeOK, SameLocals
<1>4. UNCHANGED <<files, coordinator, root, created>>
  BY DEF FailPrepared, Goto, files, locals, locks
<1>5. ExecutionInv(a)'
  BY <1>0, <1>1 DEF ExecutionInv, CoordinatorInv, IdentityInv, LockFileInv, CreatedInv, CheckedInv, StartedInv,
         ReportInv, OutputRootCreated, MakerInv, Unprepared, Prepared, Holding, Cleaning, Owning, Locking
<1> QED
  BY <1>2, <1>3, <1>4, <1>5, QuietStep

\* The command starts.
LEMMA StartActionStep ==
  ASSUME IInv, NEW a \in Action, StartAction(a)
  PROVE  IInv'
<1> USE ConstantsAssumption DEF IInv
<1>0. root[a] \in Root
  BY DEF StartAction, ExecutionInv, CoordinatorInv
<1>1. /\ pc[a] = "body"
      /\ pc'[a] = "run" /\ root'[a] = root[a] /\ created'[a] = created[a]
      /\ identity'[a] = identity[a] /\ opened'[a] = opened[a] /\ started'[a] = TRUE
      /\ cleanup'[a] = cleanup[a] /\ dir'[root[a]] = dir[root[a]]
      /\ lockFile'[root[a]] = lockFile[root[a]] /\ maker'[root[a]] = maker[root[a]] /\ swapped' = swapped
      /\ coordinator'[root[a]] = coordinator[root[a]]
  BY <1>0 DEF StartAction, Goto, files, locals, locks, TypeOK
<1>2. TypeOK'
  BY <1>0 DEF StartAction, Goto, files, locals, locks, TypeOK, Label, Holding, Cleaning, Owning, Locking
<1>3. \A b \in Action \ {a} : SameLocals(b)
  BY DEF StartAction, Goto, files, locals, locks, TypeOK, SameLocals
<1>4. UNCHANGED <<files, coordinator, root, created>>
  BY DEF StartAction, Goto, files, locals, locks
<1>5. ExecutionInv(a)'
  BY <1>0, <1>1 DEF ExecutionInv, CoordinatorInv, IdentityInv, LockFileInv, CreatedInv, CheckedInv, StartedInv,
         ReportInv, OutputRootCreated, MakerInv, Unprepared, Prepared, Holding, Cleaning, Owning, Locking
<1> QED
  BY <1>2, <1>3, <1>4, <1>5, QuietStep

\* A failure before the command is started.
LEMMA FailInBodyStep ==
  ASSUME IInv, NEW a \in Action, FailInBody(a)
  PROVE  IInv'
<1> USE ConstantsAssumption DEF IInv
<1>0. root[a] \in Root
  BY DEF FailInBody, ExecutionInv, CoordinatorInv
<1>1. /\ pc[a] = "body"
      /\ pc'[a] = (IF created[a] THEN "inspect" ELSE "unlock") /\ root'[a] = root[a]
      /\ created'[a] = created[a] /\ identity'[a] = identity[a]
      /\ opened'[a] = opened[a] /\ started'[a] = started[a]
      /\ cleanup'[a] = "failed" /\ dir'[root[a]] = dir[root[a]]
      /\ lockFile'[root[a]] = lockFile[root[a]] /\ maker'[root[a]] = maker[root[a]] /\ swapped' = swapped
      /\ coordinator'[root[a]] = coordinator[root[a]]
  BY <1>0 DEF FailInBody, Goto, files, locals, locks, TypeOK
<1>2. TypeOK'
  BY <1>0 DEF FailInBody, Goto, files, locals, locks, TypeOK, Label, Holding, Cleaning, Owning, Locking
<1>3. \A b \in Action \ {a} : SameLocals(b)
  BY DEF FailInBody, Goto, files, locals, locks, TypeOK, SameLocals
<1>4. UNCHANGED <<files, coordinator, root, created>>
  BY DEF FailInBody, Goto, files, locals, locks
<1>5. ExecutionInv(a)'
  BY <1>0, <1>1 DEF ExecutionInv, CoordinatorInv, IdentityInv, LockFileInv, CreatedInv, CheckedInv, StartedInv,
         ReportInv, OutputRootCreated, MakerInv, Unprepared, Prepared, Holding, Cleaning, Owning, Locking
<1> QED
  BY <1>2, <1>3, <1>4, <1>5, QuietStep

\* The command ends.
LEMMA FinishCommandStep ==
  ASSUME IInv, NEW a \in Action, FinishCommand(a)
  PROVE  IInv'
<1> USE ConstantsAssumption DEF IInv
<1>0. root[a] \in Root
  BY DEF FinishCommand, ExecutionInv, CoordinatorInv
<1>1. /\ pc[a] = "run"
      /\ pc'[a] = "unlock" /\ root'[a] = root[a] /\ created'[a] = created[a]
      /\ identity'[a] = identity[a] /\ opened'[a] = opened[a]
      /\ started'[a] = started[a] /\ cleanup'[a] = cleanup[a]
      /\ dir'[root[a]] = dir[root[a]] /\ lockFile'[root[a]] = lockFile[root[a]]
      /\ maker'[root[a]] = maker[root[a]] /\ swapped' = swapped
      /\ coordinator'[root[a]] = coordinator[root[a]]
  BY <1>0 DEF FinishCommand, Goto, files, locals, locks, TypeOK
<1>2. TypeOK'
  BY <1>0 DEF FinishCommand, Goto, files, locals, locks, TypeOK, Label, Holding, Cleaning, Owning, Locking
<1>3. \A b \in Action \ {a} : SameLocals(b)
  BY DEF FinishCommand, Goto, files, locals, locks, TypeOK, SameLocals
<1>4. UNCHANGED <<files, coordinator, root, created>>
  BY DEF FinishCommand, Goto, files, locals, locks
<1>5. ExecutionInv(a)'
  BY <1>0, <1>1 DEF ExecutionInv, CoordinatorInv, IdentityInv, LockFileInv, CreatedInv, CheckedInv, StartedInv,
         ReportInv, OutputRootCreated, MakerInv, Unprepared, Prepared, Holding, Cleaning, Owning, Locking
<1> QED
  BY <1>2, <1>3, <1>4, <1>5, QuietStep

\* The clean-up compares the identity.
LEMMA InspectCleanupStep ==
  ASSUME IInv, NEW a \in Action, InspectCleanup(a)
  PROVE  IInv'
<1> USE ConstantsAssumption DEF IInv
<1>0. root[a] \in Root
  BY DEF InspectCleanup, ExecutionInv, CoordinatorInv
<1>1. /\ pc[a] = "inspect" /\ dir[root[a]] = identity[a]
      /\ pc'[a] = "readdir" /\ root'[a] = root[a]
      /\ created'[a] = created[a] /\ identity'[a] = identity[a]
      /\ opened'[a] = opened[a] /\ started'[a] = started[a]
      /\ cleanup'[a] = cleanup[a] /\ dir'[root[a]] = dir[root[a]]
      /\ lockFile'[root[a]] = lockFile[root[a]] /\ maker'[root[a]] = maker[root[a]] /\ swapped' = swapped
      /\ coordinator'[root[a]] = coordinator[root[a]]
  BY <1>0 DEF InspectCleanup, Goto, files, locals, locks, TypeOK
<1>2. TypeOK'
  BY <1>0 DEF InspectCleanup, Goto, files, locals, locks, TypeOK, Label, Holding, Cleaning, Owning, Locking
<1>3. \A b \in Action \ {a} : SameLocals(b)
  BY DEF InspectCleanup, Goto, files, locals, locks, TypeOK, SameLocals
<1>4. UNCHANGED <<files, coordinator, root, created>>
  BY DEF InspectCleanup, Goto, files, locals, locks
<1>5. ExecutionInv(a)'
  BY <1>0, <1>1 DEF ExecutionInv, CoordinatorInv, IdentityInv, LockFileInv, CreatedInv, CheckedInv, StartedInv,
         ReportInv, OutputRootCreated, MakerInv, Unprepared, Prepared, Holding, Cleaning, Owning, Locking
<1> QED
  BY <1>2, <1>3, <1>4, <1>5, QuietStep

\* The clean-up lists the root.
LEMMA ReadCleanupDirStep ==
  ASSUME IInv, NEW a \in Action, ReadCleanupDir(a)
  PROVE  IInv'
<1> USE ConstantsAssumption DEF IInv
<1>0. root[a] \in Root
  BY DEF ReadCleanupDir, ExecutionInv, CoordinatorInv
<1>1. /\ pc[a] = "readdir"
      /\ pc'[a] \in {"rmdir", "lstatlock"} /\ root'[a] = root[a]
      /\ created'[a] = created[a] /\ identity'[a] = identity[a]
      /\ opened'[a] = opened[a] /\ started'[a] = started[a]
      /\ cleanup'[a] = cleanup[a] /\ dir'[root[a]] = dir[root[a]]
      /\ lockFile'[root[a]] = lockFile[root[a]] /\ maker'[root[a]] = maker[root[a]] /\ swapped' = swapped
      /\ coordinator'[root[a]] = coordinator[root[a]]
  BY <1>0 DEF ReadCleanupDir, Goto, files, locals, locks, TypeOK
<1>2. TypeOK'
  BY <1>0 DEF ReadCleanupDir, Goto, files, locals, locks, TypeOK, Label, Holding, Cleaning, Owning, Locking
<1>3. \A b \in Action \ {a} : SameLocals(b)
  BY DEF ReadCleanupDir, Goto, files, locals, locks, TypeOK, SameLocals
<1>4. UNCHANGED <<files, coordinator, root, created>>
  BY DEF ReadCleanupDir, Goto, files, locals, locks
<1>5. ExecutionInv(a)'
  BY <1>0, <1>1 DEF ExecutionInv, CoordinatorInv, IdentityInv, LockFileInv, CreatedInv, CheckedInv, StartedInv,
         ReportInv, OutputRootCreated, MakerInv, Unprepared, Prepared, Holding, Cleaning, Owning, Locking
<1> QED
  BY <1>2, <1>3, <1>4, <1>5, QuietStep

\* The clean-up compares the lock file with the one Execute created.
LEMMA InspectCleanupLockStep ==
  ASSUME IInv, NEW a \in Action, InspectCleanupLock(a)
  PROVE  IInv'
<1> USE ConstantsAssumption DEF IInv
<1>0. root[a] \in Root
  BY DEF InspectCleanupLock, ExecutionInv, CoordinatorInv
<1>1. /\ pc[a] = "lstatlock"
      /\ pc'[a] = "rmlock" /\ root'[a] = root[a]
      /\ created'[a] = created[a] /\ identity'[a] = identity[a]
      /\ opened'[a] = opened[a] /\ started'[a] = started[a]
      /\ cleanup'[a] = cleanup[a] /\ dir'[root[a]] = dir[root[a]]
      /\ lockFile'[root[a]] = lockFile[root[a]] /\ maker'[root[a]] = maker[root[a]] /\ swapped' = swapped
      /\ coordinator'[root[a]] = coordinator[root[a]]
  BY <1>0 DEF InspectCleanupLock, Goto, files, locals, locks, TypeOK
<1>2. TypeOK'
  BY <1>0 DEF InspectCleanupLock, Goto, files, locals, locks, TypeOK, Label, Holding, Cleaning, Owning, Locking
<1>3. \A b \in Action \ {a} : SameLocals(b)
  BY DEF InspectCleanupLock, Goto, files, locals, locks, TypeOK, SameLocals
<1>4. UNCHANGED <<files, coordinator, root, created>>
  BY DEF InspectCleanupLock, Goto, files, locals, locks
<1>5. ExecutionInv(a)'
  BY <1>0, <1>1 DEF ExecutionInv, CoordinatorInv, IdentityInv, LockFileInv, CreatedInv, CheckedInv, StartedInv,
         ReportInv, OutputRootCreated, MakerInv, Unprepared, Prepared, Holding, Cleaning, Owning, Locking
<1> QED
  BY <1>2, <1>3, <1>4, <1>5, QuietStep

\* A check or a removal of the clean-up fails.
LEMMA PreserveRootStep ==
  ASSUME IInv, NEW a \in Action, PreserveRoot(a)
  PROVE  IInv'
<1> USE ConstantsAssumption DEF IInv
<1>0. root[a] \in Root
  BY DEF PreserveRoot, ExecutionInv, CoordinatorInv, Cleaning
<1>1. /\ pc[a] \in Cleaning
      /\ pc'[a] = "unlock" /\ root'[a] = root[a] /\ created'[a] = created[a]
      /\ identity'[a] = identity[a] /\ opened'[a] = opened[a]
      /\ started'[a] = started[a] /\ cleanup'[a] = "preserved"
      /\ dir'[root[a]] = dir[root[a]] /\ lockFile'[root[a]] = lockFile[root[a]]
      /\ maker'[root[a]] = maker[root[a]] /\ swapped' = swapped
      /\ coordinator'[root[a]] = coordinator[root[a]]
  BY <1>0 DEF PreserveRoot, Goto, files, locals, locks, TypeOK
<1>2. TypeOK'
  BY <1>0 DEF PreserveRoot, Goto, files, locals, locks, TypeOK, Label, Holding, Cleaning, Owning, Locking
<1>3. \A b \in Action \ {a} : SameLocals(b)
  BY DEF PreserveRoot, Goto, files, locals, locks, TypeOK, SameLocals
<1>4. UNCHANGED <<files, coordinator, root, created>>
  BY DEF PreserveRoot, Goto, files, locals, locks
<1>5. ExecutionInv(a)'
  BY <1>0, <1>1 DEF ExecutionInv, CoordinatorInv, IdentityInv, LockFileInv, CreatedInv, CheckedInv, StartedInv,
         ReportInv, OutputRootCreated, MakerInv, Unprepared, Prepared, Holding, Cleaning, Owning, Locking
<1> QED
  BY <1>2, <1>3, <1>4, <1>5, QuietStep

\* A call of Execute begins.
LEMMA ExecuteStep ==
  ASSUME IInv, NEW a \in Action, NEW r \in Root, Execute(a, r)
  PROVE  IInv'
<1> USE ConstantsAssumption DEF IInv
<1>1. /\ pc[a] = "idle" /\ pc'[a] = "parent" /\ root'[a] = r /\ root' \in [Action -> Root \cup {NoRoot}]
      /\ \A b \in Action \ {a} : root'[b] = root[b]
      /\ UNCHANGED <<files, locks, created, identity, opened, owned, started, cleanup>>
  BY DEF Execute, Goto, TypeOK
<1>2. ~created[a]
  BY <1>1 DEF ExecutionInv, CreatedInv, Prepared, Cleaning
<1>3. TypeOK'
  BY <1>1 DEF Execute, Goto, files, locks, TypeOK, Label, Holding, Cleaning, Owning, Locking
<1>4. MakerInv'
  <2> SUFFICES ASSUME NEW c \in Action, NEW q \in Root, maker[q] = c
               PROVE  created[c] /\ root'[c] = q
    BY <1>1 DEF MakerInv, files
  <2>1. created[c] /\ root[c] = q
    BY DEF MakerInv
  <2>2. c # a
    BY <1>2, <2>1
  <2> QED
    BY <1>1, <2>1, <2>2
<1>5. \A b \in Action \ {a} : SameLocals(b) /\ SameRoot(b)
  BY <1>1 DEF Execute, Goto, SameLocals, SameRoot, files, locks, TypeOK
<1>6. ExecutionInv(a)'
  BY <1>1, <1>2 DEF files, ExecutionInv, CoordinatorInv, IdentityInv, LockFileInv, CreatedInv, CheckedInv, StartedInv,
     ReportInv, OutputRootCreated, Unprepared, Prepared, Holding, Cleaning, Owning, Locking
<1> QED
  BY <1>3, <1>4, <1>5, <1>6, OwnStep

\* The coordinator's file is created or found.
LEMMA OpenCoordinatorStep ==
  ASSUME IInv, NEW a \in Action, OpenCoordinator(a)
  PROVE  IInv'
<1> USE ConstantsAssumption DEF IInv
<1>1. pc[a] = "copen" /\ pc'[a] = "cflock" /\ UNCHANGED <<proc, dir, lockFile, filled, maker, swapped, locks, locals>>
  BY DEF OpenCoordinator, Goto, TypeOK
<1>2. TypeOK'
  <2>1. root[a] \in Root
    BY <1>1 DEF ExecutionInv, CoordinatorInv
  <2>2. coordFile' \subseteq Root
    BY <2>1 DEF OpenCoordinator, TypeOK
  <2>3. pc' \in [Action -> Label]
    BY DEF OpenCoordinator, Goto, TypeOK, Label, Holding, Cleaning, Owning, Locking
  <2> QED
    BY <1>1, <2>2, <2>3 DEF locks, locals, TypeOK
<1>3. MakerInv'
  BY <1>1 DEF MakerInv, locals
<1>4. \A b \in Action \ {a} : SameLocals(b) /\ SameRoot(b)
  BY DEF OpenCoordinator, Goto, SameLocals, SameRoot, locals, locks, TypeOK
<1>5. ExecutionInv(a)'
  BY <1>1 DEF locals, ExecutionInv, CoordinatorInv, IdentityInv, LockFileInv, CreatedInv, CheckedInv,
     StartedInv, ReportInv, OutputRootCreated, Unprepared, Prepared, Holding, Cleaning, Owning, Locking
<1> QED
  BY <1>2, <1>3, <1>4, <1>5, OwnStep

\* The coordinator's flock: nobody had it, so nobody past it is on this root.
LEMMA FlockCoordinatorStep ==
  ASSUME IInv, NEW a \in Action, FlockCoordinator(a)
  PROVE  IInv'
<1> USE ConstantsAssumption DEF IInv
<1>1. /\ pc[a] = "cflock" /\ pc'[a] = "lstat" /\ UNCHANGED <<proc, files, mutex, flocked, locals>>
      /\ root[a] \in Root /\ coordinator[root[a]] = NoAction
      /\ coordinator' = [coordinator EXCEPT ![root[a]] = a]
  BY DEF FlockCoordinator, Goto, TypeOK, ExecutionInv, CoordinatorInv
<1>2. TypeOK'
  <2>1. coordinator' \in [Root -> Action \cup {NoAction}]
    BY <1>1 DEF TypeOK
  <2>2. pc' \in [Action -> Label]
    BY DEF FlockCoordinator, Goto, TypeOK, Label, Holding, Cleaning, Owning, Locking
  <2> QED
    BY <1>1, <2>1, <2>2 DEF files, locals, TypeOK
<1>3. MakerInv'
  BY <1>1 DEF MakerInv, files, locals
<1>4. ASSUME NEW b \in Action \ {a} PROVE SameLocals(b) /\ (pc[b] \in Holding => SameRoot(b))
  <2>1. SameLocals(b)
    BY DEF FlockCoordinator, Goto, SameLocals, locals, files, TypeOK
  <2>2. ASSUME pc[b] \in Holding PROVE SameRoot(b)
    <3>1. coordinator[root[b]] = b /\ b # NoAction
      BY <2>2 DEF ExecutionInv, CoordinatorInv
    <3>2. root[b] # root[a]
      BY <1>1, <3>1
    <3>3. pc[b] # "idle"
      BY <2>2 DEF Holding, Cleaning, Owning, Locking
    <3>4. root[b] \in Root
      BY <3>3 DEF ExecutionInv, CoordinatorInv
    <3> QED
      BY <1>1, <3>1, <3>2, <3>4 DEF SameRoot, files, TypeOK
  <2> QED
    BY <2>1, <2>2
<1>5. coordinator'[root'[a]] = a
  BY <1>1 DEF TypeOK, locals
<1>6. ExecutionInv(a)'
  BY <1>1, <1>5 DEF locals, files, ExecutionInv, CoordinatorInv, IdentityInv, LockFileInv, CreatedInv, CheckedInv,
     StartedInv, ReportInv, OutputRootCreated, Unprepared, Prepared, Holding, Cleaning, Owning, Locking
<1> QED
  BY <1>2, <1>3, <1>4, <1>6, OwnStep

\* MkdirAll of the parent makes a directory only where there is none, and nobody
\* who has prepared that root is left then.
LEMMA PrepareOutputRootParentStep ==
  ASSUME IInv, NEW a \in Action, PrepareOutputRootParent(a)
  PROVE  IInv'
<1> USE ConstantsAssumption DEF IInv
<1>1. /\ pc[a] = "parent" /\ pc' = [pc EXCEPT ![a] = "cmutex"]
      /\ UNCHANGED <<proc, lockFile, coordFile, filled, maker, swapped, locks, locals>>
  BY DEF PrepareOutputRootParent, Goto
<1>2. /\ dir' \in [Root -> Inode \cup {NoInode}]
      /\ \A r \in Root : dir[r] # NoInode => dir'[r] = dir[r]
  <2>1. CASE dir' = dir
    BY <2>1 DEF TypeOK
  <2>2. CASE ~Exists(ParentOf[root[a]]) /\ Mkdir(ParentOf[root[a]])
    <3>1. root[a] \in Root
      BY <1>1 DEF ExecutionInv, CoordinatorInv
    <3>2. ParentOf[root[a]] \in Root /\ dir[ParentOf[root[a]]] = NoInode
      BY <2>2, <3>1 DEF Exists
    <3>3. NewInode \in Inode
      BY <2>2, NewInodeIsFresh DEF Mkdir
    <3> QED
      BY <2>2, <3>2, <3>3 DEF Mkdir, TypeOK
  <2> QED
    BY <2>1, <2>2 DEF PrepareOutputRootParent
<1>3. TypeOK'
  <2>1. pc' \in [Action -> Label]
    BY <1>1 DEF TypeOK, Label
  <2> QED
    BY <1>1, <1>2, <2>1 DEF TypeOK, locks, locals
<1>4. MakerInv'
  BY <1>1 DEF MakerInv, locals
<1>5. ASSUME NEW b \in Action PROVE ExecutionInv(b)'
  <2>1. CASE b = a
    <3>1. pc'[a] = "cmutex"
      BY <1>1 DEF TypeOK
    <3> QED
      BY <1>1, <2>1, <3>1 DEF locks, locals, ExecutionInv, CoordinatorInv, IdentityInv, LockFileInv, CreatedInv, CheckedInv,
        StartedInv, ReportInv, OutputRootCreated, Unprepared, Prepared, Holding, Cleaning, Owning, Locking
  <2>2. CASE b # a
    <3>1. pc'[b] = pc[b]
      BY <1>1, <2>2 DEF TypeOK
    <3>2. SameLocals(b)
      BY <1>1, <3>1 DEF SameLocals, locals
    <3>3. CASE pc[b] \in Holding => dir'[root[b]] = dir[root[b]]
      BY <1>1, <3>2, <3>3, Bystander DEF SameRoot, locks
    <3>4. CASE pc[b] \in Holding /\ dir[root[b]] = NoInode
      BY <1>1, <3>2, <3>4 DEF SameLocals, locks, ExecutionInv, CoordinatorInv, IdentityInv, LockFileInv, CreatedInv, CheckedInv,
        StartedInv, ReportInv, OutputRootCreated, Unprepared, Prepared, Holding, Cleaning, Owning, Locking
    <3>5. pc[b] \in Holding => root[b] \in Root
      BY DEF ExecutionInv, CoordinatorInv, Holding, Cleaning, Owning, Locking
    <3> QED
      BY <1>2, <3>3, <3>4, <3>5
  <2> QED
    BY <2>1, <2>2
<1> QED
  BY <1>3, <1>4, <1>5

\* Execute makes the root, or finds that somebody else has.
LEMMA MkdirRootStep ==
  ASSUME IInv, NEW a \in Action, MkdirRoot(a)
  PROVE  IInv'
<1> USE ConstantsAssumption DEF IInv
<1>1. /\ pc[a] = "mkdir" /\ pc' = [pc EXCEPT ![a] = "restat"]
      /\ UNCHANGED <<proc, lockFile, coordFile, filled, swapped, locks, root, identity, opened, owned, started, cleanup>>
      /\ root[a] \in Root
  BY DEF MkdirRoot, Goto, ExecutionInv, CoordinatorInv
<1>2. pc' \in [Action -> Label] /\ pc'[a] = "restat" /\ \A b \in Action \ {a} : pc'[b] = pc[b]
  BY <1>1 DEF TypeOK, Label, Holding
<1>3. ~created[a]
  BY <1>1 DEF ExecutionInv, CreatedInv, Prepared, Cleaning
<1>4. CASE UNCHANGED <<dir, created, maker>>
  <2>1. TypeOK'
    BY <1>1, <1>2, <1>4 DEF TypeOK, locks
  <2>2. ExecutionInv(a)'
    BY <1>1, <1>2, <1>3, <1>4 DEF locks, ExecutionInv, CoordinatorInv, IdentityInv, LockFileInv, CreatedInv, CheckedInv,
        StartedInv, ReportInv, OutputRootCreated, Unprepared, Prepared, Holding, Cleaning, Owning, Locking
  <2>3. \A b \in Action \ {a} : SameLocals(b)
    BY <1>1, <1>2, <1>4 DEF SameLocals
  <2> QED
    BY <1>1, <1>4, <2>1, <2>2, <2>3, QuietStep DEF files, locks
<1>5. CASE /\ dir[root[a]] = NoInode
           /\ Mkdir(root[a])
           /\ created' = [created EXCEPT ![a] = TRUE]
           /\ maker' = [maker EXCEPT ![root[a]] = a]
  <2>1. NewInode \in Inode
    BY <1>5, NewInodeIsFresh DEF Mkdir
  <2>2. /\ dir' \in [Root -> Inode \cup {NoInode}]
        /\ dir'[root[a]] # NoInode
        /\ \A r \in Root \ {root[a]} : dir'[r] = dir[r]
    BY <1>1, <1>5, <2>1 DEF Mkdir, TypeOK
  <2>3. /\ maker' \in [Root -> Action \cup {NoAction}]
        /\ maker'[root[a]] = a
        /\ \A r \in Root \ {root[a]} : maker'[r] = maker[r]
    BY <1>1, <1>5 DEF TypeOK
  <2>4. created' \in [Action -> BOOLEAN] /\ created'[a] /\ \A b \in Action \ {a} : created'[b] = created[b]
    BY <1>5 DEF TypeOK
  <2>5. TypeOK'
    BY <1>1, <1>2, <2>2, <2>3, <2>4 DEF TypeOK, locks
  <2>6. MakerInv'
    BY <1>1, <2>3, <2>4 DEF MakerInv
  <2>7. ExecutionInv(a)'
    BY <1>1, <1>2, <2>2, <2>3 DEF locks, ExecutionInv, CoordinatorInv, IdentityInv, LockFileInv, CreatedInv, CheckedInv,
        StartedInv, ReportInv, OutputRootCreated, Unprepared, Prepared, Holding, Cleaning, Owning, Locking
  <2>8. \A b \in Action \ {a} : SameLocals(b)
    BY <1>1, <1>2, <2>4 DEF SameLocals
  <2> QED
    BY <1>1, <2>2, <2>3, <2>5, <2>6, <2>7, <2>8, AloneStep DEF Holding, locks
<1> QED
  BY <1>4, <1>5 DEF MkdirRoot

\* The output lock's file is made or found.
LEMMA OpenOutputLockStep ==
  ASSUME IInv, NEW a \in Action, OpenOutputLock(a)
  PROVE  IInv'
<1> USE ConstantsAssumption DEF IInv
<1>1. /\ pc[a] = "oopen" /\ pc' = [pc EXCEPT ![a] = "ocheck"]
      /\ UNCHANGED <<proc, dir, coordFile, filled, maker, swapped, locks, root, created, identity, started, cleanup>>
      /\ root[a] \in Root
  BY DEF OpenOutputLock, Goto, ExecutionInv, CoordinatorInv
<1>2. pc' \in [Action -> Label] /\ pc'[a] = "ocheck" /\ \A b \in Action \ {a} : pc'[b] = pc[b]
  BY <1>1 DEF TypeOK, Label, Holding, Locking
<1>3. /\ lockFile' \in [Root -> Inode \cup {NoInode}]
      /\ owned' \in [Action -> Inode \cup {NoInode}]
      /\ opened' \in [Action -> Inode \cup {NoInode}]
      /\ opened'[a] = lockFile'[root[a]]
      /\ \A b \in Action \ {a} : opened'[b] = opened[b]
      /\ \A r \in Root \ {root[a]} : lockFile'[r] = lockFile[r]
  <2>1. CASE /\ Fresh # {}
             /\ lockFile' = [lockFile EXCEPT ![root[a]] = NewInode]
             /\ opened' = [opened EXCEPT ![a] = NewInode]
             /\ owned' = [owned EXCEPT ![a] = NewInode]
    <3>1. NewInode \in Inode
      BY <2>1, NewInodeIsFresh
    <3> QED
      BY <1>1, <2>1, <3>1 DEF TypeOK
  <2>2. CASE /\ opened' = [opened EXCEPT ![a] = lockFile[root[a]]]
             /\ UNCHANGED <<lockFile, owned>>
    <3>1. lockFile[root[a]] \in Inode \cup {NoInode}
      BY <1>1 DEF TypeOK
    <3> QED
      BY <1>1, <2>2, <3>1 DEF TypeOK
  <2> QED
    BY <2>1, <2>2 DEF OpenOutputLock
<1>4. TypeOK'
  BY <1>1, <1>2, <1>3 DEF TypeOK, locks
<1>5. MakerInv'
  BY <1>1 DEF MakerInv
<1>6. ExecutionInv(a)'
  BY <1>1, <1>2, <1>3 DEF locks, ExecutionInv, CoordinatorInv, IdentityInv, LockFileInv, CreatedInv, CheckedInv,
        StartedInv, ReportInv, OutputRootCreated, Unprepared, Prepared, Holding, Cleaning, Owning, Locking
<1>7. \A b \in Action \ {a} : SameLocals(b)
  BY <1>1, <1>2, <1>3 DEF SameLocals
<1> QED
  BY <1>1, <1>3, <1>4, <1>5, <1>6, <1>7, AloneStep DEF Holding, Locking, locks

\* The command leaves something in the root.
LEMMA CommandWritesStep ==
  ASSUME IInv, NEW a \in Action, CommandWrites(a)
  PROVE  IInv'
<1> USE ConstantsAssumption DEF IInv
<1>1. UNCHANGED <<proc, dir, lockFile, coordFile, maker, swapped, locks, pc, locals>>
  BY DEF CommandWrites
<1>2. root[a] \in Root
  BY DEF CommandWrites, ExecutionInv, CoordinatorInv
<1>3. filled' \subseteq Root
  BY <1>2 DEF CommandWrites, TypeOK
<1>4. TypeOK'
  BY <1>1, <1>3 DEF TypeOK, locks, locals
<1>5. MakerInv'
  BY <1>1 DEF MakerInv, locals
<1>6. ASSUME NEW b \in Action PROVE ExecutionInv(b)'
  BY <1>1, Bystander DEF SameLocals, SameRoot, locks, locals
<1> QED
  BY <1>4, <1>5, <1>6

\* The clean-up removes the lock file.
LEMMA RemoveLockStep ==
  ASSUME IInv, NEW a \in Action, RemoveLock(a)
  PROVE  IInv'
<1> USE ConstantsAssumption DEF IInv
<1>1. /\ pc[a] = "rmlock" /\ lockFile[root[a]] # NoInode /\ pc' = [pc EXCEPT ![a] = "rmdir"]
      /\ lockFile' = [lockFile EXCEPT ![root[a]] = NoInode]
      /\ UNCHANGED <<proc, dir, coordFile, filled, maker, swapped, locks, locals>>
      /\ root[a] \in Root
  BY DEF RemoveLock, Goto, ExecutionInv, CoordinatorInv
<1>2. pc' \in [Action -> Label] /\ pc'[a] = "rmdir" /\ \A b \in Action \ {a} : pc'[b] = pc[b]
  BY <1>1 DEF TypeOK, Label, Holding, Cleaning
<1>3. /\ lockFile' \in [Root -> Inode \cup {NoInode}]
      /\ \A r \in Root \ {root[a]} : lockFile'[r] = lockFile[r]
  BY <1>1 DEF TypeOK
<1>4. TypeOK'
  BY <1>1, <1>2, <1>3 DEF TypeOK, locks, locals
<1>5. MakerInv'
  BY <1>1 DEF MakerInv, locals
<1>6. ExecutionInv(a)'
  BY <1>1, <1>2, <1>3 DEF locks, locals, ExecutionInv, CoordinatorInv, IdentityInv, LockFileInv, CreatedInv, CheckedInv,
        StartedInv, ReportInv, OutputRootCreated, Unprepared, Prepared, Holding, Cleaning, Owning, Locking
<1>7. \A b \in Action \ {a} : SameLocals(b)
  BY <1>1, <1>2 DEF SameLocals, locals
<1> QED
  BY <1>1, <1>3, <1>4, <1>5, <1>6, <1>7, AloneStep DEF Holding, Cleaning, locks

\* The clean-up removes the root.
LEMMA RemoveRootStep ==
  ASSUME IInv, NEW a \in Action, RemoveRoot(a)
  PROVE  IInv'
<1> USE ConstantsAssumption DEF IInv
<1>1. /\ pc[a] = "rmdir" /\ pc' = [pc EXCEPT ![a] = "unlock"]
      /\ dir' = [dir EXCEPT ![root[a]] = NoInode]
      /\ maker' = [maker EXCEPT ![root[a]] = NoAction]
      /\ cleanup' = [cleanup EXCEPT ![a] = "removed"]
      /\ UNCHANGED <<proc, lockFile, coordFile, filled, swapped, locks, root, created, identity, opened, owned, started>>
      /\ root[a] \in Root
  BY DEF RemoveRoot, Goto, ExecutionInv, CoordinatorInv
<1>2. pc' \in [Action -> Label] /\ pc'[a] = "unlock" /\ \A b \in Action \ {a} : pc'[b] = pc[b]
  BY <1>1 DEF TypeOK, Label, Holding
<1>3. /\ dir' \in [Root -> Inode \cup {NoInode}]
      /\ \A r \in Root \ {root[a]} : dir'[r] = dir[r]
  BY <1>1 DEF TypeOK
<1>4. /\ maker' \in [Root -> Action \cup {NoAction}]
      /\ maker'[root[a]] = NoAction
      /\ \A r \in Root \ {root[a]} : maker'[r] = maker[r]
  BY <1>1 DEF TypeOK
<1>5. /\ cleanup' \in [Action -> {"", "failed", "removed", "preserved"}]
      /\ cleanup'[a] = "removed"
      /\ \A b \in Action \ {a} : cleanup'[b] = cleanup[b]
  BY <1>1 DEF TypeOK
<1>6. TypeOK'
  BY <1>1, <1>2, <1>3, <1>4, <1>5 DEF TypeOK, locks
<1>7. MakerInv'
  BY <1>1, <1>4 DEF MakerInv
<1>8. ExecutionInv(a)'
  <2>1. ~OutputRootCreated(a)' /\ maker'[root'[a]] # a
    BY <1>1, <1>4, <1>5 DEF OutputRootCreated
  <2>2. ReportInv(a)'
    BY <1>2, <2>1 DEF ReportInv
  <2> QED
    BY <1>1, <1>2, <2>2 DEF locks, ExecutionInv, CoordinatorInv, IdentityInv, LockFileInv, CreatedInv, CheckedInv,
        StartedInv, Unprepared, Prepared, Holding, Cleaning, Owning, Locking
<1>9. \A b \in Action \ {a} : SameLocals(b)
  BY <1>1, <1>2, <1>5 DEF SameLocals
<1> QED
  BY <1>1, <1>3, <1>4, <1>6, <1>7, <1>8, <1>9, AloneStep DEF Holding, Cleaning, locks

\* Executions return, or die with their process: their locks are free and
\* nobody remembers having made what they leave behind.
LEMMA ForgetStep ==
  ASSUME IInv, NEW gone \in SUBSET Action, Forget(gone), DropLocks(gone),
         UNCHANGED <<proc, dir, lockFile, coordFile, filled>>
  PROVE  IInv'
<1> USE ConstantsAssumption DEF IInv
<1>1. TypeOK'
  BY DEF TypeOK, Forget, DropLocks, Label
<1>2. MakerInv'
  <2> SUFFICES ASSUME NEW c \in Action, NEW q \in Root, maker'[q] = c
               PROVE  created'[c] /\ root'[c] = q
    BY DEF MakerInv
  <2>1. maker[q] = c /\ c \notin gone
    BY DEF Forget
  <2> QED
    BY <2>1 DEF Forget, MakerInv
<1>3. ASSUME NEW b \in Action PROVE ExecutionInv(b)'
  <2>1. CASE b \in gone
    <3>1. /\ pc'[b] = "idle" /\ identity'[b] = NoInode /\ ~created'[b] /\ ~started'[b]
          /\ cleanup'[b] = "" /\ b \notin swapped'
      BY <2>1 DEF Forget
    <3> QED
      BY <3>1 DEF ExecutionInv, CoordinatorInv, IdentityInv, LockFileInv, CreatedInv, CheckedInv,
        StartedInv, ReportInv, OutputRootCreated, Unprepared, Prepared, Holding, Cleaning, Owning, Locking
  <2>2. CASE b \notin gone
    <3>1. SameLocals(b)
      BY <2>2 DEF SameLocals, Forget
    <3>2. ASSUME pc[b] \in Holding PROVE SameRoot(b)
      <4>1. pc[b] # "idle"
        BY <3>2 DEF Holding, Cleaning, Owning, Locking
      <4>2. root[b] \in Root
        BY <4>1 DEF ExecutionInv, CoordinatorInv
      <4> QED
        BY <2>2, <4>2 DEF SameRoot, Forget, DropLocks
    <3> QED
      BY <3>1, <3>2, Bystander
  <2> QED
    BY <2>1, <2>2
<1> QED
  BY <1>1, <1>2, <1>3

\* A stranger makes a root: no execution had prepared it.
LEMMA StrangerMakesRootStep ==
  ASSUME IInv, NEW r \in Root, StrangerMakesRoot(r)
  PROVE  IInv'
<1> USE ConstantsAssumption DEF IInv
<1>1. UNCHANGED <<proc, lockFile, coordFile, filled, maker, swapped, locks, pc, locals>>
  BY DEF StrangerMakesRoot
<1>2. /\ dir' \in [Root -> Inode \cup {NoInode}]
      /\ \A q \in Root : dir[q] # NoInode => dir'[q] = dir[q]
  <2>1. NewInode \in Inode
    BY NewInodeIsFresh DEF StrangerMakesRoot, Mkdir
  <2> QED
    BY <2>1 DEF StrangerMakesRoot, Mkdir, TypeOK
<1>3. TypeOK'
  BY <1>1, <1>2 DEF TypeOK, locks, locals
<1>4. MakerInv'
  BY <1>1 DEF MakerInv, locals
<1>5. ASSUME NEW b \in Action PROVE ExecutionInv(b)'
  <2>1. SameLocals(b)
    BY <1>1 DEF SameLocals, locals
  <2>2. CASE pc[b] \in Holding => dir'[root[b]] = dir[root[b]]
    BY <1>1, <2>1, <2>2, Bystander DEF SameRoot, locks
  <2>3. CASE pc[b] \in Holding /\ dir[root[b]] = NoInode
    BY <1>1, <2>1, <2>3 DEF SameLocals, locks, ExecutionInv, CoordinatorInv, IdentityInv, LockFileInv, CreatedInv, CheckedInv,
        StartedInv, ReportInv, OutputRootCreated, Unprepared, Prepared, Holding, Cleaning, Owning, Locking
  <2>4. pc[b] \in Holding => root[b] \in Root
    BY DEF ExecutionInv, CoordinatorInv, Holding, Cleaning, Owning, Locking
  <2> QED
    BY <1>2, <2>2, <2>3, <2>4
<1> QED
  BY <1>3, <1>4, <1>5

\* A stranger puts something into a root.
LEMMA StrangerFillsRootStep ==
  ASSUME IInv, NEW r \in Root, StrangerFillsRoot(r)
  PROVE  IInv'
<1> USE ConstantsAssumption DEF IInv
<1>1. UNCHANGED <<proc, dir, lockFile, coordFile, maker, swapped, locks, pc, locals>> /\ filled' = filled \cup {r}
  BY DEF StrangerFillsRoot
<1>2. TypeOK'
  BY <1>1 DEF TypeOK, locks, locals
<1>3. MakerInv'
  BY <1>1 DEF MakerInv, locals
<1>4. ASSUME NEW b \in Action PROVE ExecutionInv(b)'
  BY <1>1, Bystander DEF SameLocals, SameRoot, locks, locals
<1> QED
  BY <1>2, <1>3, <1>4

\* A stranger replaces a root: whoever had prepared it no longer finds the
\* identity it recorded.
LEMMA StrangerReplacesRootStep ==
  ASSUME IInv, NEW r \in Root, StrangerReplacesRoot(r)
  PROVE  IInv'
<1> USE ConstantsAssumption DEF IInv
<1>1. /\ UNCHANGED <<proc, coordFile, locks, pc, locals>>
      /\ r \in Tampered
      /\ swapped' = swapped \cup {b \in Action : root[b] = r /\ pc[b] \in Blind}
      /\ filled' = filled \ {r}
      /\ lockFile' = [lockFile EXCEPT ![r] = NoInode]
      /\ maker' = [maker EXCEPT ![r] = NoAction]
      /\ dir' = [dir EXCEPT ![r] = NewInode]
  BY DEF StrangerReplacesRoot, Mkdir
<1>2. NewInode \in Inode /\ \A b \in Action : NewInode # identity[b]
  BY NewInodeIsFresh DEF StrangerReplacesRoot, Mkdir
<1>3. /\ dir' \in [Root -> Inode \cup {NoInode}]
      /\ dir'[r] = NewInode
      /\ \A q \in Root \ {r} : dir'[q] = dir[q]
  BY <1>1, <1>2 DEF TypeOK
<1>4. /\ lockFile' \in [Root -> Inode \cup {NoInode}]
      /\ lockFile'[r] = NoInode
      /\ \A q \in Root \ {r} : lockFile'[q] = lockFile[q]
  BY <1>1 DEF TypeOK
<1>5. /\ maker' \in [Root -> Action \cup {NoAction}]
      /\ maker'[r] = NoAction
      /\ \A q \in Root \ {r} : maker'[q] = maker[q]
  BY <1>1 DEF TypeOK
<1>6. TypeOK'
  BY <1>1, <1>3, <1>4, <1>5 DEF TypeOK, locks, locals
<1>7. MakerInv'
  BY <1>1, <1>5 DEF MakerInv, locals
<1>8. ASSUME NEW b \in Action PROVE ExecutionInv(b)'
  <2>1. CASE root[b] # r
    <3>1. SameLocals(b)
      BY <1>1, <2>1 DEF SameLocals, locals
    <3>2. pc[b] \in Holding => root[b] \in Root
      BY DEF ExecutionInv, CoordinatorInv, Holding, Cleaning, Owning, Locking
    <3>3. pc[b] \in Holding => SameRoot(b)
      BY <1>1, <1>3, <1>4, <1>5, <2>1, <3>2 DEF SameRoot, locks
    <3> QED
      BY <3>1, <3>3, Bystander
  <2>2. CASE root[b] = r
    <3>1. UNCHANGED <<pc, root, created, identity, opened, started, cleanup, coordinator>>
      BY <1>1 DEF locals, locks
    <3>2. /\ b \in swapped => b \in swapped'
          /\ pc[b] \in Blind => b \in swapped'
          /\ b \in swapped' => b \in swapped \/ pc[b] \in Blind
          /\ r \in Tampered /\ b # NoAction
      BY <1>1, <2>2
    <3>3. CoordinatorInv(b)' /\ IdentityInv(b)' /\ LockFileInv(b)' /\ StartedInv(b)'
      BY <1>2, <1>3, <2>2, <3>1, <3>2 DEF ExecutionInv, CoordinatorInv, IdentityInv, LockFileInv, StartedInv
    <3>4. CreatedInv(b)'
      BY <1>2, <1>3, <2>2, <3>1, <3>2 DEF ExecutionInv, CreatedInv, Blind
    <3>5. CheckedInv(b)'
      BY <1>4, <2>2, <3>1, <3>2 DEF ExecutionInv, CheckedInv, Blind
    <3>6. ReportInv(b)'
      BY <1>5, <2>2, <3>1, <3>2 DEF ExecutionInv, ReportInv, OutputRootCreated
    <3> QED
      BY <3>3, <3>4, <3>5, <3>6 DEF ExecutionInv
  <2> QED
    BY <2>1, <2>2
<1> QED
  BY <1>6, <1>7, <1>8

-----------------------------------------------------------------------------
\* Every step of the system preserves the invariant.
LEMMA StepInv == IInv /\ [Next]_vars => IInv'
<1> SUFFICES ASSUME IInv, [Next]_vars PROVE IInv'
  OBVIOUS
<1>1. ASSUME NEW a \in Action, Step(a) PROVE IInv'
  <2>1. ASSUME FailBeforeRoot(a) \/ Return(a) PROVE IInv'
    BY <2>1, ForgetStep DEF FailBeforeRoot, Return
  <2> QED
    BY <1>1, <2>1, PrepareOutputRootParentStep, LockCoordinatorMutexStep, OpenCoordinatorStep,
       FlockCoordinatorStep, LstatRootStep, MkdirRootStep, RestatRootStep, PrepareFailsStep,
       AvailableSpaceStep, LockOutputMutexStep, OpenOutputLockStep, CheckOutputLockStep, FlockOutputStep,
       FailPreparedStep, StartActionStep, FailInBodyStep, FinishCommandStep, InspectCleanupStep,
       ReadCleanupDirStep, InspectCleanupLockStep,
       RemoveLockStep, RemoveRootStep, PreserveRootStep
    DEF Step
<1>2. ASSUME NEW p \in Process, Crash(p) PROVE IInv'
  BY <1>2, ForgetStep DEF Crash
<1>3. ASSUME NEW r \in Root, StrangerMakesRoot(r) \/ StrangerFillsRoot(r) \/ StrangerReplacesRoot(r)
      PROVE  IInv'
  BY <1>3, StrangerMakesRootStep, StrangerFillsRootStep, StrangerReplacesRootStep
<1>4. CASE UNCHANGED vars
  <2>1. UNCHANGED <<proc, dir, lockFile, coordFile, filled, maker, swapped, mutex, coordinator, flocked, pc, root,
                    created, identity, opened, owned, started, cleanup>>
    BY <1>4 DEF vars, files, locks, locals
  <2>2. TypeOK'
    BY <2>1 DEF IInv, TypeOK
  <2>3. MakerInv'
    BY <2>1 DEF IInv, MakerInv
  <2>4. ASSUME NEW b \in Action PROVE ExecutionInv(b)'
    BY <2>1, Bystander DEF IInv, SameLocals, SameRoot
  <2> QED
    BY <2>2, <2>3, <2>4 DEF IInv
<1> QED
  BY <1>1, <1>2, <1>3, <1>4, CommandWritesStep, ExecuteStep DEF Next, Stranger

\* The inductive invariant holds in every reachable state.
THEOREM OutputRootInvariant == Spec => []IInv
<1> QED
  BY InitInv, StepInv, PTL DEF Spec

\* Every variable keeps its type: an execution that is not idle is at a label of
\* Execute, and what it remembers are identities of files.
THEOREM TypeCorrect == Spec => []TypeOK
<1>1. IInv => TypeOK
  BY DEF IInv
<1> QED
  BY <1>1, OutputRootInvariant, PTL

\* lockEvaluationPath and the identity checks: one execution at a time is at work
\* on a root, and while its command may run, the directory and the lock file at
\* the path are the ones it prepared and locked, unless a stranger replaced them.
THEOREM RootIsHeldCorrect == Spec => []RootIsHeld
<1>1. IInv => GroundHolds
  BY DEF IInv, ExecutionInv, IdentityInv, LockFileInv, Prepared, GroundHolds, Owning
<1>2. IInv => RootIsHeld
  BY <1>1, Exclusive DEF RootIsHeld
<1> QED
  BY <1>2, OutputRootInvariant, PTL

\* Execute's result when it returns: a root that prepareOutputRoot accepted as
\* created by this execution is reported as created while it is there, as
\* preserved if it outlives a failed clean-up, and as removed only if it is gone.
THEOREM ProvenanceIsTrueCorrect == Spec => []ProvenanceIsTrue
<1>1. IInv => ProvenanceIsTrue
  BY DEF IInv, ExecutionInv, ReportInv, ProvenanceIsTrue
<1> QED
  BY <1>1, OutputRootInvariant, PTL

\* Only the clean-up's last step empties a path.
LEMMA OnlyRemoveRootRemoves ==
  ASSUME IInv, Next, NEW r \in Root, dir[r] # NoInode, dir'[r] = NoInode
  PROVE  \E a \in Action : root[a] = r /\ RemoveRoot(a)
<1> USE ConstantsAssumption
<1>1. ASSUME NEW q \in Root \cup {Outside}, Mkdir(q) PROVE FALSE
  <2>1. NewInode \in Inode
    BY <1>1, NewInodeIsFresh DEF Mkdir
  <2> QED
    BY <1>1, <2>1 DEF IInv, TypeOK, Mkdir
<1>2. dir' # dir
  OBVIOUS
<1>3. ASSUME NEW a \in Action, Step(a) PROVE RemoveRoot(a) /\ root[a] = r
  <2>1. pc[a] # "idle" => root[a] \in Root
    BY DEF IInv, ExecutionInv, CoordinatorInv
  <2>2. ~PrepareOutputRootParent(a)
    BY <1>1, <1>2, <2>1 DEF PrepareOutputRootParent
  <2>3. ~MkdirRoot(a)
    BY <1>1, <1>2, <2>1 DEF MkdirRoot
  <2>4. RemoveRoot(a)
    BY <1>2, <1>3, <2>2, <2>3
    DEF Step, files, LockCoordinatorMutex, OpenCoordinator, FlockCoordinator, FailBeforeRoot, LstatRoot,
        RestatRoot, PrepareFails, AvailableSpace, LockOutputMutex, OpenOutputLock, CheckOutputLock,
        FlockOutput, FailPrepared, StartAction, FailInBody, FinishCommand, InspectCleanup, ReadCleanupDir,
        InspectCleanupLock, RemoveLock, PreserveRoot, Return
  <2> QED
    BY <2>1, <2>4 DEF RemoveRoot, IInv, TypeOK
<1>4. ASSUME NEW a \in Action, CommandWrites(a) \/ \E q \in Root : Execute(a, q) PROVE FALSE
  BY <1>2, <1>4 DEF CommandWrites, Execute, files
<1>5. ASSUME NEW p \in Process, Crash(p) PROVE FALSE
  BY <1>2, <1>5 DEF Crash
<1>6. ASSUME NEW q \in Root, StrangerMakesRoot(q) \/ StrangerFillsRoot(q) \/ StrangerReplacesRoot(q)
      PROVE  FALSE
  BY <1>1, <1>2, <1>6 DEF StrangerMakesRoot, StrangerFillsRoot, StrangerReplacesRoot
<1> QED
  BY <1>3, <1>4, <1>5, <1>6 DEF Next, Stranger

\* cleanupCreatedOutputRoot never removes a directory that holds anything, or in
\* which a command was started, and removes one that the execution did not make
\* only if a stranger put it there in a blind moment.
THEOREM OnlyOwnEmptyRootRemovedCorrect == Spec => OnlyOwnEmptyRootRemoved
<1>1. ASSUME IInv, [Next]_vars, NEW r \in Root, dir[r] # NoInode, dir'[r] = NoInode
      PROVE  /\ r \notin filled /\ ~HasOtherEntries(r)
             /\ \E a \in Action :
                    /\ root[a] = r /\ created[a] /\ ~started[a]
                    /\ maker[r] = a \/ a \in swapped
  <2>1. Next
    BY <1>1 DEF vars, files
  <2>2. PICK a \in Action : root[a] = r /\ RemoveRoot(a)
    BY <1>1, <2>1, OnlyRemoveRootRemoves
  <2>3. ~HasOtherEntries(r) /\ r \notin filled
    BY <2>2 DEF RemoveRoot, HasOtherEntries
  <2>4. pc[a] = "rmdir"
    BY <2>2 DEF RemoveRoot
  <2>5. created[a] /\ ~started[a] /\ (maker[r] = a \/ a \in swapped)
    BY <1>1, <2>2, <2>4 DEF IInv, ExecutionInv, CreatedInv, CheckedInv, StartedInv, Cleaning
  <2> QED
    BY <2>2, <2>3, <2>5
<1>2. IInv /\ [Next]_vars =>
        [\A r \in Root :
            dir[r] # NoInode /\ dir'[r] = NoInode =>
                /\ r \notin filled /\ ~HasOtherEntries(r)
                /\ \E a \in Action :
                       /\ root[a] = r /\ created[a] /\ ~started[a]
                       /\ maker[r] = a \/ a \in swapped]_vars
  BY <1>1
<1> QED
  BY <1>2, OutputRootInvariant, PTL DEF Spec, OnlyOwnEmptyRootRemoved
=============================================================================
