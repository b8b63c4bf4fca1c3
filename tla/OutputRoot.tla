----------------------------- MODULE OutputRoot -----------------------------
(***************************************************************************)
(* The life of an evaluation's output directory: pkg/orchestrate             *)
(* evaluation.go (Execute, lockEvaluationPath, failPreparedOutputRoot) and    *)
(* evaluation_filesystem.go.                                                 *)
(*                                                                         *)
(* Execute takes a coordinator lock whose file lies beside the output root,  *)
(* creates the root if it is absent, takes a second lock on a file inside    *)
(* the root, works, and unwinds.  When it created the root and fails before  *)
(* its command has started, it deletes the lock file and the root again.     *)
(*                                                                         *)
(* Executions run in goroutines of several processes.  Each lock is an       *)
(* in-process mutex plus an flock on the file.  Output roots may be nested,  *)
(* so one execution's MkdirAll creates another's root and its coordinator    *)
(* file lies inside it; strangers may create, fill or replace a root.        *)
(***************************************************************************)
EXTENDS FiniteSets

CONSTANTS
    Action,     \* executions of EvaluationAction.Execute
    Process,    \* operating-system processes they run in
    Root,       \* output root paths
    Outside,    \* a directory that is no output root and always exists
    ParentOf,   \* the directory each root lies in
    Inode,      \* identities os.SameFile compares
    Tampered,   \* the roots that strangers may replace
    NoInode,    \* nothing at that path
    NoAction,   \* nobody holds that lock
    NoRoot      \* an execution that is not running

ASSUME ConstantsAssumption ==
    /\ ParentOf \in [Root -> Root \cup {Outside}]
    /\ \A r \in Root : ParentOf[r] # r /\ (ParentOf[r] \in Root => ParentOf[ParentOf[r]] = Outside)
    /\ Outside \notin Root
    /\ NoRoot \notin Root
    /\ NoInode \notin Inode
    /\ NoAction \notin Action
    \* A stranger that deletes a directory holding coordinator files defeats them.
    /\ Tampered \subseteq {r \in Root : \A c \in Root : ParentOf[c] # r}

VARIABLES
    proc,       \* the process each execution runs in
    \* The file system.
    dir,        \* the directory at each root path
    lockFile,   \* the lock file inside each root
    coordFile,  \* the roots whose coordinator file exists, beside the root
    filled,     \* the roots that hold anything else: job directories, strangers' files
    \* The locks.
    mutex,      \* the lock paths whose in-process mutex each execution holds
    coordinator,\* who holds the flock on each root's coordinator file
    flocked,    \* the executions that hold an flock on the output lock file they opened
    \* The local variables of Execute.
    pc,
    root,       \* request.OutputRoot
    created,    \* preparedOutputRoot.created
    identity,   \* preparedOutputRoot.identity
    opened,     \* the inode of the output lock file it opened
    owned,      \* acquiredOutputRootLock.ownedIdentity
    started,    \* actionStarted
    cleanup     \* Provenance.OutputRootCleanup; "failed" while returnedErr asks for it

\* What the code never reads.
VARIABLES
    maker,      \* the execution that made the directory now at each root path
    swapped     \* the executions whose root was replaced where they could not notice

files  == <<dir, lockFile, coordFile, filled, maker, swapped>>
locks  == <<mutex, coordinator, flocked>>
locals == <<root, created, identity, opened, owned, started, cleanup>>
vars   == <<proc, files, locks, pc, locals>>

(***************************************************************************)
(* The program counter.  Holding is the span in which the coordinator is     *)
(* held, Owning the part of it in which the output lock is held too.         *)
(***************************************************************************)
Cleaning == {"inspect", "readdir", "lstatlock", "rmlock", "rmdir"}
Owning   == {"body", "run"}
Locking  == {"omutex", "oopen", "ocheck", "oflock"}
Holding  == {"lstat", "mkdir", "restat", "space", "unlock"} \cup Locking \cup Owning \cup Cleaning
Label    == {"idle", "parent", "cmutex", "copen", "cflock"} \cup Holding

\* Where another directory at the path passes for the one that was there: before
\* the Lstat that records the identity, and between cleanup's look at the root,
\* its ReadDir and its Remove.
Blind    == {"restat", "readdir", "rmdir"}

TypeOK ==
    /\ proc \in [Action -> Process]
    /\ dir \in [Root -> Inode \cup {NoInode}]
    /\ lockFile \in [Root -> Inode \cup {NoInode}]
    /\ coordFile \subseteq Root
    /\ filled \subseteq Root
    /\ mutex \in [Action -> SUBSET ({"coordinator", "lock"} \X Root)]
    /\ coordinator \in [Root -> Action \cup {NoAction}]
    /\ flocked \subseteq Action
    /\ pc \in [Action -> Label]
    /\ root \in [Action -> Root \cup {NoRoot}]
    /\ created \in [Action -> BOOLEAN]
    /\ identity \in [Action -> Inode \cup {NoInode}]
    /\ opened \in [Action -> Inode \cup {NoInode}]
    /\ owned \in [Action -> Inode \cup {NoInode}]
    /\ started \in [Action -> BOOLEAN]
    /\ cleanup \in [Action -> {"", "failed", "removed", "preserved"}]
    /\ maker \in [Root -> Action \cup {NoAction}]
    /\ swapped \subseteq Action

(***************************************************************************)
(* File system helpers.                                                    *)
(***************************************************************************)
Exists(path) == path = Outside \/ (path \in Root /\ dir[path] # NoInode)

Children(r) == {c \in Root : ParentOf[c] = r}

\* Whether ReadDir of the root lists anything but its lock file.
HasOtherEntries(r) ==
    \/ r \in filled
    \/ \E c \in Children(r) : c \in coordFile \/ dir[c] # NoInode

\* An identity nothing on disk has and no running execution remembers.
Fresh ==
    Inode \ ({dir[r] : r \in Root} \cup {lockFile[r] : r \in Root}
             \cup {identity[a] : a \in Action} \cup {opened[a] : a \in Action}
             \cup {owned[a] : a \in Action})

\* Which one the kernel takes does not matter.
NewInode == CHOOSE i \in Fresh : TRUE

Mkdir(r) ==
    /\ Fresh # {}
    /\ dir' = [dir EXCEPT ![r] = NewInode]

\* The mutex of a lock path is free for an execution: outputRootLocks is one map
\* per process.
MutexFree(a, path) == \A b \in Action \ {a} : proc[b] = proc[a] => path \notin mutex[b]

Init ==
    /\ proc \in [Action -> Process]
    /\ dir = [r \in Root |-> NoInode]
    /\ lockFile = [r \in Root |-> NoInode]
    /\ coordFile = {}
    /\ filled = {}
    /\ mutex = [a \in Action |-> {}]
    /\ coordinator = [r \in Root |-> NoAction]
    /\ flocked = {}
    /\ pc = [a \in Action |-> "idle"]
    /\ root = [a \in Action |-> NoRoot]
    /\ created = [a \in Action |-> FALSE]
    /\ identity = [a \in Action |-> NoInode]
    /\ opened = [a \in Action |-> NoInode]
    /\ owned = [a \in Action |-> NoInode]
    /\ started = [a \in Action |-> FALSE]
    /\ cleanup = [a \in Action |-> ""]
    /\ maker = [r \in Root |-> NoAction]
    /\ swapped = {}

Goto(a, label) == pc' = [pc EXCEPT ![a] = label]

\* Execute returns, or its process dies: its local variables are gone.
Forget(gone) ==
    /\ pc' = [a \in Action |-> IF a \in gone THEN "idle" ELSE pc[a]]
    /\ root' = [a \in Action |-> IF a \in gone THEN NoRoot ELSE root[a]]
    /\ created' = [a \in Action |-> IF a \in gone THEN FALSE ELSE created[a]]
    /\ identity' = [a \in Action |-> IF a \in gone THEN NoInode ELSE identity[a]]
    /\ opened' = [a \in Action |-> IF a \in gone THEN NoInode ELSE opened[a]]
    /\ owned' = [a \in Action |-> IF a \in gone THEN NoInode ELSE owned[a]]
    /\ started' = [a \in Action |-> IF a \in gone THEN FALSE ELSE started[a]]
    /\ cleanup' = [a \in Action |-> IF a \in gone THEN "" ELSE cleanup[a]]
    /\ maker' = [r \in Root |-> IF maker[r] \in gone THEN NoAction ELSE maker[r]]
    /\ swapped' = swapped \ gone

\* Every mutex and flock the executions still hold is given up.
DropLocks(gone) ==
    /\ mutex' = [a \in Action |-> IF a \in gone THEN {} ELSE mutex[a]]
    /\ coordinator' = [r \in Root |-> IF coordinator[r] \in gone THEN NoAction ELSE coordinator[r]]
    /\ flocked' = flocked \ gone

\* (Some definitions are preceded by a variant that a slip in the code would give;
\* PROJECT.json pairs each with the property that tells the two apart.)

(***************************************************************************)
(* Execute: validate, prepareOutputRootParent, lockOutputRootCoordinator.   *)
(***************************************************************************)
Execute(a, r) ==
    /\ pc[a] = "idle"
    /\ root' = [root EXCEPT ![a] = r]
    /\ Goto(a, "parent")
    /\ UNCHANGED <<proc, files, locks, created, identity, opened, owned, started, cleanup>>

\* MkdirAll of the parent, which may be another execution's output root.
PrepareOutputRootParent(a) ==
    /\ pc[a] = "parent"
    /\ LET parent == ParentOf[root[a]]
       IN IF Exists(parent) THEN dir' = dir
          ELSE Mkdir(parent)
    /\ Goto(a, "cmutex")
    /\ UNCHANGED <<proc, lockFile, coordFile, filled, maker, swapped, locks, locals>>

LockCoordinatorMutex(a) ==
    /\ pc[a] = "cmutex"
    /\ MutexFree(a, <<"coordinator", root[a]>>)
    /\ mutex' = [mutex EXCEPT ![a] = @ \cup {<<"coordinator", root[a]>>}]
    /\ Goto(a, "copen")
    /\ UNCHANGED <<proc, files, coordinator, flocked, locals>>

\* Created or found; the parent may have been removed since MkdirAll.
NamesParent(a) ==
    /\ pc[a] = "copen"
    /\ Exists(ParentOf[root[a]])
    /\ coordFile' = coordFile \cup {ParentOf[root[a]]}
    /\ Goto(a, "cflock")
    /\ UNCHANGED <<proc, dir, lockFile, filled, maker, swapped, locks, locals>>
OpenCoordinator(a) ==
    /\ pc[a] = "copen"
    /\ Exists(ParentOf[root[a]])
    /\ coordFile' = coordFile \cup {root[a]}
    /\ Goto(a, "cflock")
    /\ UNCHANGED <<proc, dir, lockFile, filled, maker, swapped, locks, locals>>

NoCoordinatorFlock(a) ==
    /\ pc[a] = "cflock"
    /\ Goto(a, "lstat")
    /\ UNCHANGED <<proc, files, locks, locals>>
FlockCoordinator(a) ==
    /\ pc[a] = "cflock"
    /\ coordinator[root[a]] = NoAction
    /\ coordinator' = [coordinator EXCEPT ![root[a]] = a]
    /\ Goto(a, "lstat")
    /\ UNCHANGED <<proc, files, mutex, flocked, locals>>

\* An error before there is a root to clean up: a parent that cannot be made or
\* is gone, a file that cannot be opened, an flock error, and the context ending
\* while the flock is contended.  The mutex is unlocked on the way out.
KeepsMutex(a) ==
    /\ pc[a] \in {"parent", "copen", "cflock"}
    /\ Forget({a})
    /\ UNCHANGED <<proc, dir, lockFile, coordFile, filled, locks>>
FailBeforeRoot(a) ==
    /\ pc[a] \in {"parent", "copen", "cflock"}
    /\ Forget({a})
    /\ DropLocks({a})
    /\ UNCHANGED <<proc, dir, lockFile, coordFile, filled>>

(***************************************************************************)
(* prepareOutputRoot: Lstat, Mkdir, Lstat.                                  *)
(***************************************************************************)
LstatRoot(a) ==
    /\ pc[a] = "lstat"
    /\ \/ /\ dir[root[a]] # NoInode
          /\ identity' = [identity EXCEPT ![a] = dir[root[a]]]
          /\ Goto(a, "space")
       \/ /\ dir[root[a]] = NoInode
          /\ Goto(a, "mkdir")
          /\ UNCHANGED identity
    /\ UNCHANGED <<proc, files, locks, root, created, opened, owned, started, cleanup>>

\* ErrExist means someone created it meanwhile: it is used, but it is not ours.
ClaimsExisting(a) ==
    /\ pc[a] = "mkdir"
    /\ created' = [created EXCEPT ![a] = TRUE]
    /\ IF dir[root[a]] # NoInode THEN UNCHANGED <<dir, maker>>
       ELSE /\ Exists(ParentOf[root[a]])
            /\ Mkdir(root[a])
            /\ maker' = [maker EXCEPT ![root[a]] = a]
    /\ Goto(a, "restat")
    /\ UNCHANGED <<proc, lockFile, coordFile, filled, swapped, locks, root, identity, opened, owned, started, cleanup>>
MkdirRoot(a) ==
    /\ pc[a] = "mkdir"
    /\ \/ /\ dir[root[a]] # NoInode
          /\ UNCHANGED <<dir, created, maker>>
       \/ /\ dir[root[a]] = NoInode
          /\ Exists(ParentOf[root[a]])
          /\ Mkdir(root[a])
          /\ created' = [created EXCEPT ![a] = TRUE]
          /\ maker' = [maker EXCEPT ![root[a]] = a]
    /\ Goto(a, "restat")
    /\ UNCHANGED <<proc, lockFile, coordFile, filled, swapped, locks, root, identity, opened, owned, started, cleanup>>

ForgetsIdentity(a) ==
    /\ pc[a] = "restat"
    /\ dir[root[a]] # NoInode
    /\ Goto(a, "space")
    /\ UNCHANGED <<proc, files, locks, locals>>
RestatRoot(a) ==
    /\ pc[a] = "restat"
    /\ dir[root[a]] # NoInode
    /\ identity' = [identity EXCEPT ![a] = dir[root[a]]]
    /\ Goto(a, "space")
    /\ UNCHANGED <<proc, files, locks, root, created, opened, owned, started, cleanup>>

\* prepareOutputRoot fails: Execute returns without cleaning up, also when the
\* Mkdir had succeeded and only the Lstat after it failed.
PrepareFails(a) ==
    /\ pc[a] \in {"lstat", "mkdir", "restat"}
    /\ Goto(a, "unlock")
    /\ UNCHANGED <<proc, files, locks, locals>>

(***************************************************************************)
(* AvailableSpace and lockOutputRoot.  Failures go through                  *)
(* failPreparedOutputRoot, which cleans up a root that Execute created.      *)
(***************************************************************************)
AvailableSpace(a) ==
    /\ pc[a] = "space"
    /\ Goto(a, "omutex")
    /\ UNCHANGED <<proc, files, locks, locals>>

LockOutputMutex(a) ==
    /\ pc[a] = "omutex"
    /\ MutexFree(a, <<"lock", root[a]>>)
    /\ mutex' = [mutex EXCEPT ![a] = @ \cup {<<"lock", root[a]>>}]
    /\ Goto(a, "oopen")
    /\ UNCHANGED <<proc, files, coordinator, flocked, locals>>

\* O_CREATE|O_EXCL, and O_RDWR when the file is there already.
OpenOutputLock(a) ==
    /\ pc[a] = "oopen"
    /\ dir[root[a]] # NoInode
    /\ \/ /\ lockFile[root[a]] = NoInode
          /\ Fresh # {}
          /\ lockFile' = [lockFile EXCEPT ![root[a]] = NewInode]
          /\ opened' = [opened EXCEPT ![a] = NewInode]
          /\ owned' = [owned EXCEPT ![a] = NewInode]
       \/ /\ lockFile[root[a]] # NoInode
          /\ opened' = [opened EXCEPT ![a] = lockFile[root[a]]]
          /\ UNCHANGED <<lockFile, owned>>
    /\ Goto(a, "ocheck")
    /\ UNCHANGED <<proc, dir, coordFile, filled, maker, swapped, locks, root, created, identity, started, cleanup>>

\* The file at the path must still be the file that was opened.
CheckOutputLock(a) ==
    /\ pc[a] = "ocheck"
    /\ lockFile[root[a]] = opened[a]
    /\ Goto(a, "oflock")
    /\ UNCHANGED <<proc, files, locks, locals>>

FlockOutput(a) ==
    /\ pc[a] = "oflock"
    /\ \A b \in flocked : opened[b] # opened[a]
    /\ flocked' = flocked \cup {a}
    /\ Goto(a, "body")
    /\ UNCHANGED <<proc, files, mutex, coordinator, locals>>

\* failPreparedOutputRoot: lockEvaluationPath has let go of mutex and file.
LeavesRoot(a) ==
    /\ pc[a] \in {"space", "oopen", "ocheck", "oflock"}
    /\ mutex' = [mutex EXCEPT ![a] = @ \ {<<"lock", root[a]>>}]
    /\ cleanup' = [cleanup EXCEPT ![a] = "failed"]
    /\ Goto(a, "unlock")
    /\ UNCHANGED <<proc, files, coordinator, flocked, root, created, identity, opened, owned, started>>
FailPrepared(a) ==
    /\ pc[a] \in {"space", "oopen", "ocheck", "oflock"}
    /\ mutex' = [mutex EXCEPT ![a] = @ \ {<<"lock", root[a]>>}]
    /\ cleanup' = [cleanup EXCEPT ![a] = "failed"]
    /\ Goto(a, IF created[a] THEN "inspect" ELSE "unlock")
    /\ UNCHANGED <<proc, files, coordinator, flocked, root, created, identity, opened, owned, started>>

(***************************************************************************)
(* Between the locks and the deferred functions.                           *)
(***************************************************************************)
StartAction(a) ==
    /\ pc[a] = "body"
    /\ started' = [started EXCEPT ![a] = TRUE]
    /\ Goto(a, "run")
    /\ UNCHANGED <<proc, files, locks, root, created, identity, opened, owned, cleanup>>

\* The command leaves a job directory behind, or nothing.
CommandWrites(a) ==
    /\ pc[a] = "run"
    /\ dir[root[a]] # NoInode
    /\ root[a] \notin filled
    /\ filled' = filled \cup {root[a]}
    /\ UNCHANGED <<proc, dir, lockFile, coordFile, maker, swapped, locks, pc, locals>>

\* The deferred function's first statement, outputLock.releaseFile, and whether
\* it goes on to clean up: an error (inventory, reservation, snapshot,
\* inspection) before the command started, in a root that Execute created.
FailInBody(a) ==
    /\ pc[a] = "body"
    /\ flocked' = flocked \ {a}
    /\ cleanup' = [cleanup EXCEPT ![a] = "failed"]
    /\ Goto(a, IF created[a] THEN "inspect" ELSE "unlock")
    /\ UNCHANGED <<proc, files, mutex, coordinator, root, created, identity, opened, owned, started>>

FinishCommand(a) ==
    /\ pc[a] = "run"
    /\ flocked' = flocked \ {a}
    /\ Goto(a, "unlock")
    /\ UNCHANGED <<proc, files, mutex, coordinator, locals>>

(***************************************************************************)
(* cleanupCreatedOutputRoot.                                                *)
(***************************************************************************)
InspectCleanup(a) ==
    /\ pc[a] = "inspect"
    /\ dir[root[a]] = identity[a]
    /\ Goto(a, "readdir")
    /\ UNCHANGED <<proc, files, locks, locals>>

\* Nothing but a lock file may be there, and that only if Execute created it.
ReadCleanupDir(a) ==
    /\ pc[a] = "readdir"
    /\ dir[root[a]] # NoInode
    /\ ~HasOtherEntries(root[a])
    /\ \/ /\ lockFile[root[a]] = NoInode
          /\ Goto(a, "rmdir")
       \/ /\ lockFile[root[a]] # NoInode
          /\ owned[a] # NoInode
          /\ Goto(a, "lstatlock")
    /\ UNCHANGED <<proc, files, locks, locals>>

InspectCleanupLock(a) ==
    /\ pc[a] = "lstatlock"
    /\ lockFile[root[a]] # NoInode
    /\ lockFile[root[a]] = owned[a]
    /\ Goto(a, "rmlock")
    /\ UNCHANGED <<proc, files, locks, locals>>

RemoveLock(a) ==
    /\ pc[a] = "rmlock"
    /\ lockFile[root[a]] # NoInode
    /\ lockFile' = [lockFile EXCEPT ![root[a]] = NoInode]
    /\ Goto(a, "rmdir")
    /\ UNCHANGED <<proc, dir, coordFile, filled, maker, swapped, locks, locals>>

\* os.Remove of a directory succeeds only when it is empty.
RemoveRoot(a) ==
    /\ pc[a] = "rmdir"
    /\ dir[root[a]] # NoInode
    /\ lockFile[root[a]] = NoInode
    /\ ~HasOtherEntries(root[a])
    /\ dir' = [dir EXCEPT ![root[a]] = NoInode]
    /\ maker' = [maker EXCEPT ![root[a]] = NoAction]
    /\ cleanup' = [cleanup EXCEPT ![a] = "removed"]
    /\ Goto(a, "unlock")
    /\ UNCHANGED <<proc, lockFile, coordFile, filled, swapped, locks, root, created, identity, opened, owned, started>>

\* A check or a removal fails: what is left stays, with CodeOutputRootCleanupFailed.
PreserveRoot(a) ==
    /\ pc[a] \in Cleaning
    /\ cleanup' = [cleanup EXCEPT ![a] = "preserved"]
    /\ Goto(a, "unlock")
    /\ UNCHANGED <<proc, files, locks, root, created, identity, opened, owned, started>>

\* Provenance.OutputRootCreated: set once prepareOutputRoot has succeeded, and
\* cleared when the root is removed again.
OutputRootCreated(a) == created[a] /\ identity[a] # NoInode /\ cleanup[a] # "removed"

\* The rest of the deferred functions: outputLock.releaseProcess, then the
\* coordinator's file and mutex.
Return(a) ==
    /\ pc[a] = "unlock"
    /\ Forget({a})
    /\ DropLocks({a})
    /\ UNCHANGED <<proc, dir, lockFile, coordFile, filled>>

(***************************************************************************)
(* The environment.                                                        *)
(***************************************************************************)
Crash(p) ==
    LET gone == {a \in Action : proc[a] = p}
    IN /\ \E a \in gone : pc[a] # "idle"
       /\ Forget(gone)
       /\ DropLocks(gone)
       /\ UNCHANGED <<proc, dir, lockFile, coordFile, filled>>

StrangerMakesRoot(r) ==
    /\ dir[r] = NoInode
    /\ Exists(ParentOf[r])
    /\ Mkdir(r)
    /\ UNCHANGED <<proc, lockFile, coordFile, filled, maker, swapped, locks, pc, locals>>

StrangerFillsRoot(r) ==
    /\ dir[r] # NoInode
    /\ r \notin filled
    /\ filled' = filled \cup {r}
    /\ UNCHANGED <<proc, dir, lockFile, coordFile, maker, swapped, locks, pc, locals>>

\* The root is deleted with all it holds and an empty one takes its place, at any
\* moment.
StrangerReplacesRoot(r) ==
    /\ r \in Tampered
    /\ dir[r] # NoInode
    /\ Mkdir(r)
    /\ lockFile' = [lockFile EXCEPT ![r] = NoInode]
    /\ filled' = filled \ {r}
    /\ maker' = [maker EXCEPT ![r] = NoAction]
    /\ swapped' = swapped \cup {a \in Action : root[a] = r /\ pc[a] \in Blind}
    /\ UNCHANGED <<proc, coordFile, locks, pc, locals>>

Step(a) ==
    \/ PrepareOutputRootParent(a)
    \/ LockCoordinatorMutex(a) \/ OpenCoordinator(a) \/ FlockCoordinator(a) \/ FailBeforeRoot(a)
    \/ LstatRoot(a) \/ MkdirRoot(a) \/ RestatRoot(a) \/ PrepareFails(a)
    \/ AvailableSpace(a) \/ LockOutputMutex(a) \/ OpenOutputLock(a) \/ CheckOutputLock(a)
    \/ FlockOutput(a) \/ FailPrepared(a)
    \/ StartAction(a) \/ FailInBody(a) \/ FinishCommand(a)
    \/ InspectCleanup(a) \/ ReadCleanupDir(a) \/ InspectCleanupLock(a) \/ RemoveLock(a) \/ RemoveRoot(a) \/ PreserveRoot(a)
    \/ Return(a)

Stranger ==
    \E r \in Root : StrangerMakesRoot(r) \/ StrangerFillsRoot(r) \/ StrangerReplacesRoot(r)

Next ==
    \/ \E a \in Action : Step(a) \/ CommandWrites(a) \/ \E r \in Root : Execute(a, r)
    \/ \E p \in Process : Crash(p)
    \/ Stranger

Spec == Init /\ [][Next]_vars

\* An execution runs by itself, and its command ends: the runner gives it a
\* timeout.  sync.Mutex hands itself to the longest waiter, so a lock that keeps
\* coming free is got.  Nothing obliges a process to crash or a stranger to act.
FairSpec ==
    /\ Spec
    /\ \A a \in Action : WF_vars(Step(a)) /\ SF_vars(LockCoordinatorMutex(a))

(***************************************************************************)
(* Properties.                                                             *)
(***************************************************************************)

\* From looking for the root to returning, an execution is the only one at work
\* on it, in its own process or another, whatever lock files were deleted and
\* made again before.
ExclusiveRoot ==
    \A a, b \in Action :
        a # b /\ root[a] = root[b] => ~(pc[a] \in Holding /\ pc[b] \in Holding)

\* While an execution works, the directory is the one it prepared and the lock it
\* holds is on the file other programs find there: no other execution's cleanup
\* removes the ground under it.  Only a stranger can.
GroundHolds ==
    \A a \in Action :
        pc[a] \in Owning /\ root[a] \notin Tampered =>
            dir[root[a]] = identity[a] /\ lockFile[root[a]] = opened[a]

\* One execution per root, on a directory and a lock file that stay in place:
\* what the coordinator lock, the output lock and the identity checks of
\* lockEvaluationPath and prepareOutputRoot are for.
RootIsHeld == ExclusiveRoot /\ GroundHolds

\* cleanupCreatedOutputRoot deletes a directory only if nobody has put anything in
\* it and it belongs to an execution whose command never started: one that made
\* that very directory, or made the root and had it replaced by a stranger in a
\* blind moment.  At every other moment the identity checks save the stranger's.
OnlyOwnEmptyRootRemoved ==
    [][\A r \in Root :
          dir[r] # NoInode /\ dir'[r] = NoInode =>
              /\ r \notin filled /\ ~HasOtherEntries(r)
              /\ \E a \in Action :
                     /\ root[a] = r /\ created[a] /\ ~started[a]
                     /\ maker[r] = a \/ a \in swapped]_vars

\* What Execute's result says of the root when it returns.  A directory that it
\* made and prepareOutputRoot accepted, and that is still there, is reported as
\* created, and as preserved too unless the command was started; what is reported
\* as created is there, but for strangers; what is reported as removed is not.
ProvenanceIsTrue ==
    \A a \in Action : pc[a] = "unlock" =>
        /\ maker[root[a]] = a /\ identity[a] # NoInode =>
              OutputRootCreated(a) /\ (started[a] \/ cleanup[a] = "preserved")
        /\ OutputRootCreated(a) /\ root[a] \notin Tampered => maker[root[a]] = a
        /\ cleanup[a] = "removed" => maker[root[a]] # a

\* What EVALUATION.md says of output_root_created, without the condition that
\* prepareOutputRoot succeeded: a directory the attempt made is reported.  When
\* the Mkdir succeeds and the Lstat or the validation after it fails, the
\* directory stays and the result does not mention it.
CreatedIsReported ==
    \A a \in Action : pc[a] = "unlock" /\ maker[root[a]] = a => OutputRootCreated(a)

\* Every Execute returns (or dies): the mutex wait, which no context can
\* interrupt, ends because every path out of lockEvaluationPath unlocks.
ExecuteReturns == \A a \in Action : pc[a] # "idle" ~> pc[a] = "idle"
=============================================================================
