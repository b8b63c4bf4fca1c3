------------------------- MODULE ProcessAdapterProofs -------------------------
(***************************************************************************)
(* When the process adapter says "stopped", for any clients, sandboxes and   *)
(* processes.                                                              *)
(***************************************************************************)
EXTENDS ProcessAdapter, FiniteSetTheorems, TLAPS

(***************************************************************************)
(* The inductive invariant.  Stop and the reaper mark an entry as stopped    *)
(* because a channel is closed, not because they know the process has ended; *)
(* the invariant says what a channel stands for as long as the sandbox has   *)
(* been started once.                                                      *)
(***************************************************************************)

\* The sandbox has been started at most once.
Once(s) == \A p, q \in Process : of[p] = s /\ of[q] = s => p = q

\* An entry's process and channel are its own, and a running one has a process.
EntryInv(s) ==
    /\ cmd[s] # NoProcess => of[cmd[s]] = s
    /\ waitDone[s] # NoProcess => of[waitDone[s]] = s
    /\ status[s] = "running" => cmd[s] # NoProcess
    /\ status[s] = "stopped" /\ Once(s) => \A p \in Process : of[p] = s => os[p] # "alive"

\* A process was started for an entry that has a channel and has been running; its
\* reaper goes on only when it has ended.
ProcessInv(p) ==
    /\ os[p] = "unused" <=> of[p] = NoSandbox
    /\ of[p] # NoSandbox => waitDone[of[p]] # NoProcess /\ status[of[p]] \in {"running", "stopped"}
    /\ reaper[p] # "none" => of[p] # NoSandbox
    /\ reaper[p] \in {"close", "update", "done"} => os[p] = "exited"
    /\ p \in closed => of[p] # NoSandbox /\ (Once(of[p]) => os[p] = "exited")

\* What a call has read belongs to the sandbox it is about; it is past the receive
\* only if the channel is closed.
Signalling == {"signal", "receive", "dsignal", "dreceive"}
Finishing  == {"finish", "dfinish"}
Receiving  == {"await", "dawait", "finish", "dfinish"}

CallInv(c) ==
    /\ pc[c] # "idle" => target[c] \in Sandbox
    /\ pc[c] \in Signalling => seen[c] \in Process /\ of[seen[c]] = target[c]
    /\ pc[c] \in Receiving => channel[c] \in Process /\ of[channel[c]] = target[c]
    /\ pc[c] \in Finishing => channel[c] \in closed

\* Finitely many processes have been started.
FiniteInv == IsFiniteSet({p \in Process : of[p] # NoSandbox})

IInv ==
    /\ TypeOK
    /\ \A s \in Sandbox : EntryInv(s)
    /\ \A p \in Process : ProcessInv(p)
    /\ \A c \in Client : CallInv(c)
    /\ FiniteInv

-----------------------------------------------------------------------------
\* A set of at most one element has no two.
LEMMA AtMostOne ==
  ASSUME NEW S, IsFiniteSet(S), Cardinality(S) <= 1, NEW x \in S, NEW y \in S
  PROVE  x = y
<1>1. Cardinality(S) \in Nat
  BY FS_CardinalityType
<1>2. Cardinality(S) # 0
  BY FS_EmptySet
<1>3. PICK z : S = {z}
  BY <1>1, <1>2, FS_Singleton
<1> QED
  BY <1>3

\* The invariant gives the property: counting processes and Once agree.
LEMMA StoppedIsTrue == IInv => StoppedIsTrueOfFirstRun
<1> SUFFICES ASSUME IInv, NEW s \in Sandbox, status[s] = "stopped",
                    Cardinality({p \in Process : of[p] = s}) <= 1
             PROVE  Alive(s) = {}
  BY DEF StoppedIsTrueOfFirstRun
<1> DEFINE S == {p \in Process : of[p] = s}
<1>1. IsFiniteSet(S)
  <2>1. S \in SUBSET {p \in Process : of[p] # NoSandbox}
    BY ConstantsAssumption
  <2> QED
    BY <2>1, FS_Subset DEF IInv, FiniteInv
<1>2. \A p, q \in S : p = q
  <2> HIDE DEF S
  <2> QED
    BY <1>1, AtMostOne DEF S
<1>3. Once(s)
  BY <1>2 DEF Once
<1> QED
  BY <1>3 DEF IInv, EntryInv, Alive

\* A step of one call that changes no entry and nothing in the system, other than
\* taking a key out of the map, preserves the invariant if it preserves its part.
LEMMA CallStep ==
  ASSUME IInv, NEW c \in Client, TypeOK', CallInv(c)', UNCHANGED <<status, cmd, waitDone, system>>,
         \A d \in Client \ {c} :
            pc'[d] = pc[d] /\ target'[d] = target[d] /\ seen'[d] = seen[d] /\ channel'[d] = channel[d]
  PROVE  IInv'
<1> USE DEF IInv, system
<1>1. \A s \in Sandbox : EntryInv(s)'
  BY DEF EntryInv, Once
<1>2. \A p \in Process : ProcessInv(p)'
  BY DEF ProcessInv, Once
<1>3. ASSUME NEW d \in Client PROVE CallInv(d)'
  BY DEF CallInv
<1>4. FiniteInv'
  BY DEF FiniteInv
<1> QED
  BY <1>1, <1>2, <1>3, <1>4

\* Nothing has been created or started.
LEMMA InitInv == Init => IInv
<1> SUFFICES ASSUME Init PROVE IInv
  OBVIOUS
<1> USE ConstantsAssumption DEF Init
<1>1. TypeOK
  BY DEF TypeOK, Label
<1>2. \A s \in Sandbox : EntryInv(s)
  BY DEF EntryInv
<1>3. \A p \in Process : ProcessInv(p)
  BY DEF ProcessInv
<1>4. \A c \in Client : CallInv(c)
  BY DEF CallInv, Signalling, Receiving, Finishing
<1>5. FiniteInv
  <2>1. {p \in Process : of[p] # NoSandbox} = {}
    OBVIOUS
  <2> QED
    BY <2>1, FS_EmptySet DEF FiniteInv
<1> QED
  BY <1>1, <1>2, <1>3, <1>4, <1>5 DEF IInv

\* Stop or Delete begins.
LEMMA BeginStep ==
  ASSUME IInv, NEW c \in Client, NEW s \in Sandbox, NEW label \in {"stop", "delete"}, Begin(c, s, label)
  PROVE  IInv'
<1> USE ConstantsAssumption DEF IInv, Begin, Goto, entries, system
<1>1. TypeOK'
  BY DEF TypeOK, Label
<1>2. CallInv(c)'
  BY DEF TypeOK, CallInv, EntryInv, ProcessInv, Signalling, Receiving, Finishing, entries, system
<1>3. UNCHANGED <<status, cmd, waitDone, system>>
  BY DEF entries
<1>4. \A d \in Client \ {c} :
         pc'[d] = pc[d] /\ target'[d] = target[d] /\ seen'[d] = seen[d] /\ channel'[d] = channel[d]
  BY DEF TypeOK
<1> QED
  BY <1>1, <1>2, <1>3, <1>4, CallStep

\* Stop finds the sandbox deleted.
LEMMA StopNotFoundStep ==
  ASSUME IInv, NEW c \in Client, StopNotFound(c)
  PROVE  IInv'
<1> USE ConstantsAssumption DEF IInv, StopNotFound, Goto, entries, system
<1>1. TypeOK'
  BY DEF TypeOK, Label
<1>2. CallInv(c)'
  BY DEF TypeOK, CallInv, EntryInv, ProcessInv, Signalling, Receiving, Finishing, entries, system
<1>3. UNCHANGED <<status, cmd, waitDone, system>>
  BY DEF entries
<1>4. \A d \in Client \ {c} :
         pc'[d] = pc[d] /\ target'[d] = target[d] /\ seen'[d] = seen[d] /\ channel'[d] = channel[d]
  BY DEF TypeOK
<1> QED
  BY <1>1, <1>2, <1>3, <1>4, CallStep

\* Stop finds a running process.
LEMMA StopRunningStep ==
  ASSUME IInv, NEW c \in Client, StopRunning(c)
  PROVE  IInv'
<1> USE ConstantsAssumption DEF IInv, StopRunning, Goto, entries, system
<1>1. TypeOK'
  BY DEF TypeOK, Label
<1>2. CallInv(c)'
  BY DEF TypeOK, CallInv, EntryInv, ProcessInv, Signalling, Receiving, Finishing, entries, system
<1>3. UNCHANGED <<status, cmd, waitDone, system>>
  BY DEF entries
<1>4. \A d \in Client \ {c} :
         pc'[d] = pc[d] /\ target'[d] = target[d] /\ seen'[d] = seen[d] /\ channel'[d] = channel[d]
  BY DEF TypeOK
<1> QED
  BY <1>1, <1>2, <1>3, <1>4, CallStep

\* Stop reads the channel.
LEMMA ReadChannelStep ==
  ASSUME IInv, NEW c \in Client, ReadChannel(c)
  PROVE  IInv'
<1> USE ConstantsAssumption DEF IInv, ReadChannel, Goto, entries, system
<1>1. TypeOK'
  <2>1. target[c] \in Sandbox
    BY DEF CallInv
  <2>2. channel' \in [Client -> Process \cup {NoProcess}]
    BY <2>1 DEF TypeOK
  <2> QED
    BY <2>2 DEF TypeOK, Label
<1>2. CallInv(c)'
  BY DEF TypeOK, CallInv, EntryInv, ProcessInv, Signalling, Receiving, Finishing, entries, system
<1>3. UNCHANGED <<status, cmd, waitDone, system>>
  BY DEF entries
<1>4. \A d \in Client \ {c} :
         pc'[d] = pc[d] /\ target'[d] = target[d] /\ seen'[d] = seen[d] /\ channel'[d] = channel[d]
  BY DEF TypeOK
<1> QED
  BY <1>1, <1>2, <1>3, <1>4, CallStep

\* Stop finds the channel closed.
LEMMA AwaitDoneStep ==
  ASSUME IInv, NEW c \in Client, AwaitDone(c)
  PROVE  IInv'
<1> USE ConstantsAssumption DEF IInv, AwaitDone, Goto, entries, system
<1>1. TypeOK'
  BY DEF TypeOK, Label
<1>2. CallInv(c)'
  BY DEF TypeOK, CallInv, EntryInv, ProcessInv, Signalling, Receiving, Finishing, entries, system
<1>3. UNCHANGED <<status, cmd, waitDone, system>>
  BY DEF entries
<1>4. \A d \in Client \ {c} :
         pc'[d] = pc[d] /\ target'[d] = target[d] /\ seen'[d] = seen[d] /\ channel'[d] = channel[d]
  BY DEF TypeOK
<1> QED
  BY <1>1, <1>2, <1>3, <1>4, CallStep

\* Delete looks at the status.
LEMMA ReadStatusStep ==
  ASSUME IInv, NEW c \in Client, ReadStatus(c)
  PROVE  IInv'
<1> USE ConstantsAssumption DEF IInv, ReadStatus, Goto, entries, system
<1>1. TypeOK'
  BY DEF TypeOK, Label
<1>2. CallInv(c)'
  BY DEF TypeOK, CallInv, EntryInv, ProcessInv, Signalling, Receiving, Finishing, entries, system
<1>3. UNCHANGED <<status, cmd, waitDone, system>>
  BY DEF entries
<1>4. \A d \in Client \ {c} :
         pc'[d] = pc[d] /\ target'[d] = target[d] /\ seen'[d] = seen[d] /\ channel'[d] = channel[d]
  BY DEF TypeOK
<1> QED
  BY <1>1, <1>2, <1>3, <1>4, CallStep

\* Stop returns.
LEMMA ReturnStep ==
  ASSUME IInv, NEW c \in Client, Return(c)
  PROVE  IInv'
<1> USE ConstantsAssumption DEF IInv, Return, Goto, EndCall, entries, system
<1>1. TypeOK'
  BY DEF TypeOK, Label
<1>2. CallInv(c)'
  BY DEF TypeOK, CallInv, EntryInv, ProcessInv, Signalling, Receiving, Finishing, entries, system
<1>3. UNCHANGED <<status, cmd, waitDone, system>>
  BY DEF entries
<1>4. \A d \in Client \ {c} :
         pc'[d] = pc[d] /\ target'[d] = target[d] /\ seen'[d] = seen[d] /\ channel'[d] = channel[d]
  BY DEF TypeOK
<1> QED
  BY <1>1, <1>2, <1>3, <1>4, CallStep

\* Delete removes the entry.
LEMMA RemoveEntryStep ==
  ASSUME IInv, NEW c \in Client, RemoveEntry(c)
  PROVE  IInv'
<1> USE ConstantsAssumption DEF IInv, RemoveEntry, Goto, EndCall, entries, system
<1>1. TypeOK'
  BY DEF TypeOK, Label
<1>2. CallInv(c)'
  BY DEF TypeOK, CallInv, EntryInv, ProcessInv, Signalling, Receiving, Finishing, entries, system
<1>3. UNCHANGED <<status, cmd, waitDone, system>>
  BY DEF entries
<1>4. \A d \in Client \ {c} :
         pc'[d] = pc[d] /\ target'[d] = target[d] /\ seen'[d] = seen[d] /\ channel'[d] = channel[d]
  BY DEF TypeOK
<1> QED
  BY <1>1, <1>2, <1>3, <1>4, CallStep

\* Create makes an entry that no process was started for.
LEMMA CreateStep ==
  ASSUME IInv, NEW c \in Client, NEW s \in Sandbox, Create(c, s)
  PROVE  IInv'
<1> USE ConstantsAssumption DEF IInv, Create, system, calls
<1>1. TypeOK'
  BY DEF TypeOK, Label, CallInv, ProcessInv
<1>2. ASSUME NEW t \in Sandbox PROVE EntryInv(t)'
  BY DEF EntryInv, ProcessInv, CallInv, Once, TypeOK, Finishing, Receiving, Signalling
<1>3. ASSUME NEW q \in Process PROVE ProcessInv(q)'
  BY DEF ProcessInv, EntryInv, CallInv, Once, TypeOK, Signalling
<1>4. ASSUME NEW d \in Client PROVE CallInv(d)'
  BY DEF CallInv, ProcessInv, TypeOK, Signalling, Receiving, Finishing
<1>5. FiniteInv'
  BY DEF FiniteInv
<1> QED
  BY <1>1, <1>2, <1>3, <1>4, <1>5

\* Start gives a process to an entry.
LEMMA StartStep ==
  ASSUME IInv, NEW c \in Client, NEW s \in Sandbox, NEW p \in Process, Start(c, s, p)
  PROVE  IInv'
<1> USE ConstantsAssumption DEF IInv, Start, calls
<1>1. TypeOK'
  BY DEF TypeOK, Label, CallInv, ProcessInv
<1>2. ASSUME NEW t \in Sandbox PROVE EntryInv(t)'
  BY DEF EntryInv, ProcessInv, CallInv, Once, TypeOK, Finishing, Receiving, Signalling
<1>3. ASSUME NEW q \in Process PROVE ProcessInv(q)'
  BY DEF ProcessInv, EntryInv, CallInv, Once, TypeOK, Signalling
<1>4. ASSUME NEW d \in Client PROVE CallInv(d)'
  BY DEF CallInv, ProcessInv, TypeOK, Signalling, Receiving, Finishing
<1>5. FiniteInv'
  <2>1. {q \in Process : of'[q] # NoSandbox} = {q \in Process : of[q] # NoSandbox} \cup {p}
    BY DEF TypeOK
  <2> QED
    BY <2>1, FS_AddElement DEF FiniteInv
<1> QED
  BY <1>1, <1>2, <1>3, <1>4, <1>5

\* A process ends.
LEMMA ExitStep ==
  ASSUME IInv, NEW p \in Process, Exit(p)
  PROVE  IInv'
<1> USE ConstantsAssumption DEF IInv, Exit, entries, calls
<1>1. TypeOK'
  BY DEF TypeOK, Label, CallInv, ProcessInv
<1>2. ASSUME NEW t \in Sandbox PROVE EntryInv(t)'
  BY DEF EntryInv, ProcessInv, CallInv, Once, TypeOK, Finishing, Receiving, Signalling
<1>3. ASSUME NEW q \in Process PROVE ProcessInv(q)'
  BY DEF ProcessInv, EntryInv, CallInv, Once, TypeOK, Signalling
<1>4. ASSUME NEW d \in Client PROVE CallInv(d)'
  BY DEF CallInv, ProcessInv, TypeOK, Signalling, Receiving, Finishing
<1>5. FiniteInv'
  BY DEF FiniteInv
<1> QED
  BY <1>1, <1>2, <1>3, <1>4, <1>5

\* The reaper learns that its process has ended.
LEMMA ReapStep ==
  ASSUME IInv, NEW p \in Process, Reap(p)
  PROVE  IInv'
<1> USE ConstantsAssumption DEF IInv, Reap, entries, calls
<1>1. TypeOK'
  BY DEF TypeOK, Label, CallInv, ProcessInv
<1>2. ASSUME NEW t \in Sandbox PROVE EntryInv(t)'
  BY DEF EntryInv, ProcessInv, CallInv, Once, TypeOK, Finishing, Receiving, Signalling
<1>3. ASSUME NEW q \in Process PROVE ProcessInv(q)'
  BY DEF ProcessInv, EntryInv, CallInv, Once, TypeOK, Signalling
<1>4. ASSUME NEW d \in Client PROVE CallInv(d)'
  BY DEF CallInv, ProcessInv, TypeOK, Signalling, Receiving, Finishing
<1>5. FiniteInv'
  BY DEF FiniteInv
<1> QED
  BY <1>1, <1>2, <1>3, <1>4, <1>5

\* The reaper closes the channel that the entry has now.
LEMMA CloseDoneStep ==
  ASSUME IInv, NEW p \in Process, CloseDone(p)
  PROVE  IInv'
<1> USE ConstantsAssumption DEF IInv, CloseDone, entries, calls
<1>1. TypeOK'
  BY DEF TypeOK, Label, CallInv, ProcessInv
<1>2. ASSUME NEW t \in Sandbox PROVE EntryInv(t)'
  BY DEF EntryInv, ProcessInv, CallInv, Once, TypeOK, Finishing, Receiving, Signalling
<1>3. ASSUME NEW q \in Process PROVE ProcessInv(q)'
  BY DEF ProcessInv, EntryInv, CallInv, Once, TypeOK, Signalling
<1>4. ASSUME NEW d \in Client PROVE CallInv(d)'
  BY DEF CallInv, ProcessInv, TypeOK, Signalling, Receiving, Finishing
<1>5. FiniteInv'
  BY DEF FiniteInv
<1> QED
  BY <1>1, <1>2, <1>3, <1>4, <1>5

\* The reaper marks the entry.
LEMMA UpdateStatusStep ==
  ASSUME IInv, NEW p \in Process, UpdateStatus(p)
  PROVE  IInv'
<1> USE ConstantsAssumption DEF IInv, UpdateStatus, calls
<1>1. TypeOK'
  BY DEF TypeOK, Label, CallInv, ProcessInv
<1>2. ASSUME NEW t \in Sandbox PROVE EntryInv(t)'
  BY DEF EntryInv, ProcessInv, CallInv, Once, TypeOK, Finishing, Receiving, Signalling
<1>3. ASSUME NEW q \in Process PROVE ProcessInv(q)'
  BY DEF ProcessInv, EntryInv, CallInv, Once, TypeOK, Signalling
<1>4. ASSUME NEW d \in Client PROVE CallInv(d)'
  BY DEF CallInv, ProcessInv, TypeOK, Signalling, Receiving, Finishing
<1>5. FiniteInv'
  BY DEF FiniteInv
<1> QED
  BY <1>1, <1>2, <1>3, <1>4, <1>5

\* Stop finds nothing to signal and marks the entry.
LEMMA StopIdleStep ==
  ASSUME IInv, NEW c \in Client, StopIdle(c)
  PROVE  IInv'
<1> USE ConstantsAssumption DEF IInv, StopIdle, Goto, system
<1>1. TypeOK'
  BY DEF TypeOK, Label, CallInv, ProcessInv
<1>2. ASSUME NEW t \in Sandbox PROVE EntryInv(t)'
  BY DEF EntryInv, ProcessInv, CallInv, Once, TypeOK, Finishing, Receiving, Signalling
<1>3. ASSUME NEW q \in Process PROVE ProcessInv(q)'
  BY DEF ProcessInv, EntryInv, CallInv, Once, TypeOK, Signalling
<1>4. ASSUME NEW d \in Client PROVE CallInv(d)'
  BY DEF CallInv, ProcessInv, TypeOK, Signalling, Receiving, Finishing
<1>5. FiniteInv'
  BY DEF FiniteInv
<1> QED
  BY <1>1, <1>2, <1>3, <1>4, <1>5

\* Stop or Delete signals the process it has seen.
LEMMA SignalProcessStep ==
  ASSUME IInv, NEW c \in Client, SignalProcess(c)
  PROVE  IInv'
<1> USE ConstantsAssumption DEF IInv, SignalProcess, Goto, entries
<1>1. TypeOK'
  BY DEF TypeOK, Label, CallInv, ProcessInv
<1>2. ASSUME NEW t \in Sandbox PROVE EntryInv(t)'
  BY DEF EntryInv, ProcessInv, CallInv, Once, TypeOK, Finishing, Receiving, Signalling
<1>3. ASSUME NEW q \in Process PROVE ProcessInv(q)'
  BY DEF ProcessInv, EntryInv, CallInv, Once, TypeOK, Signalling
<1>4. ASSUME NEW d \in Client PROVE CallInv(d)'
  BY DEF CallInv, ProcessInv, TypeOK, Signalling, Receiving, Finishing
<1>5. FiniteInv'
  BY DEF FiniteInv
<1> QED
  BY <1>1, <1>2, <1>3, <1>4, <1>5

\* Stop marks the entry after the channel was closed.
LEMMA FinishStopStep ==
  ASSUME IInv, NEW c \in Client, FinishStop(c)
  PROVE  IInv'
<1> USE ConstantsAssumption DEF IInv, FinishStop, Goto, system
<1>1. TypeOK'
  BY DEF TypeOK, Label, CallInv, ProcessInv
<1>2. ASSUME NEW t \in Sandbox PROVE EntryInv(t)'
  BY DEF EntryInv, ProcessInv, CallInv, Once, TypeOK, Finishing, Receiving, Signalling
<1>3. ASSUME NEW q \in Process PROVE ProcessInv(q)'
  BY DEF ProcessInv, EntryInv, CallInv, Once, TypeOK, Signalling
<1>4. ASSUME NEW d \in Client PROVE CallInv(d)'
  BY DEF CallInv, ProcessInv, TypeOK, Signalling, Receiving, Finishing
<1>5. FiniteInv'
  BY DEF FiniteInv
<1> QED
  BY <1>1, <1>2, <1>3, <1>4, <1>5

-----------------------------------------------------------------------------
\* Every step preserves the invariant.
LEMMA StepInv == IInv /\ [Next]_vars => IInv'
<1> SUFFICES ASSUME IInv, [Next]_vars PROVE IInv'
  OBVIOUS
<1>1. ASSUME NEW c \in Client, Step(c) PROVE IInv'
  BY <1>1, StopIdleStep, StopNotFoundStep, StopRunningStep, SignalProcessStep, ReadChannelStep, AwaitDoneStep,
     FinishStopStep, ReturnStep, ReadStatusStep, RemoveEntryStep
  DEF Step
<1>2. ASSUME NEW c \in Client, NEW s \in Sandbox, Stop(c, s) \/ Delete(c, s) PROVE IInv'
  BY <1>2, BeginStep DEF Stop, Delete
<1>3. ASSUME NEW p \in Process, ReaperStep(p) PROVE IInv'
  BY <1>3, ReapStep, CloseDoneStep, UpdateStatusStep DEF ReaperStep
<1>4. CASE UNCHANGED vars
  <2> USE <1>4 DEF vars, entries, system, calls, IInv
  <2>1. TypeOK'
    BY DEF TypeOK
  <2>2. \A s \in Sandbox : EntryInv(s)'
    BY DEF EntryInv, Once
  <2>3. \A p \in Process : ProcessInv(p)'
    BY DEF ProcessInv, Once
  <2>4. \A c \in Client : CallInv(c)'
    BY DEF CallInv
  <2>5. FiniteInv'
    BY DEF FiniteInv
  <2> QED
    BY <2>1, <2>2, <2>3, <2>4, <2>5
<1> QED
  BY <1>1, <1>2, <1>3, <1>4, CreateStep, StartStep, ExitStep DEF Next

\* The inductive invariant holds in every reachable state.
THEOREM ProcessAdapterInvariant == Spec => []IInv
<1> QED
  BY InitInv, StepInv, PTL DEF Spec

\* Every variable keeps its type; in particular the channel that the reaper closes
\* is always one that some Start has made.
THEOREM TypeCorrect == Spec => []TypeOK
<1>1. IInv => TypeOK
  BY DEF IInv
<1> QED
  BY <1>1, ProcessAdapterInvariant, PTL

\* Stop, Delete and the reaper, in any number and order: a sandbox that was started
\* at most once is marked stopped only when its process has ended.
THEOREM StoppedIsTrueOfFirstRunCorrect == Spec => []StoppedIsTrueOfFirstRun
<1> QED
  BY StoppedIsTrue, ProcessAdapterInvariant, PTL
=============================================================================
