--------------------------- MODULE ProcessAdapter ---------------------------
(***************************************************************************)
(* The native-process sandbox adapter, internal/adapters/process/process.go. *)
(* A sandbox is an entry of a map guarded by one mutex.  Start launches an   *)
(* operating-system process and a reaper goroutine that waits for it; Stop   *)
(* and Delete signal the process, wait for the reaper's channel without the  *)
(* mutex, and take the mutex again to record what they believe.              *)
(*                                                                         *)
(* An entry outlives its removal from the map in the hands of calls that     *)
(* looked it up before.  Identifiers are never used twice (GenerateID).      *)
(***************************************************************************)
EXTENDS Naturals, FiniteSets

CONSTANTS
    Client,     \* goroutines calling the adapter
    Sandbox,    \* sandbox identifiers
    Process,    \* operating-system processes, one per successful Start
    NoProcess, NoSandbox

ASSUME ConstantsAssumption == NoProcess \notin Process /\ NoSandbox \notin Sandbox

VARIABLES
    \* The entries.
    known,      \* the keys of the map
    status,     \* entry.sandbox.Status, "none" before Create
    cmd,        \* entry.cmd
    waitDone,   \* entry.waitDone, named by the process whose Start made the channel
    \* The operating system and the reapers.
    os,         \* what became of each process
    of,         \* the sandbox a process was started for
    reaper,     \* where the process's reaper is
    closed,     \* the channels that are closed
    panicked,   \* a channel was closed twice: the program is gone
    \* The calls.
    pc,
    target,     \* the sandbox a call is about
    seen,       \* the call's local variable cmd
    channel     \* the channel a call has started to receive from

entries == <<known, status, cmd, waitDone>>
system  == <<os, of, reaper, closed, panicked>>
calls   == <<pc, target, seen, channel>>
vars    == <<entries, system, calls>>

Label == {"idle", "stop", "signal", "receive", "await", "finish", "return",
          "delete", "dstop", "dsignal", "dreceive", "dawait", "dfinish", "remove"}

TypeOK ==
    /\ known \subseteq Sandbox
    /\ status \in [Sandbox -> {"none", "pending", "running", "stopped"}]
    /\ cmd \in [Sandbox -> Process \cup {NoProcess}]
    /\ waitDone \in [Sandbox -> Process \cup {NoProcess}]
    /\ os \in [Process -> {"unused", "alive", "exited"}]
    /\ of \in [Process -> Sandbox \cup {NoSandbox}]
    /\ reaper \in [Process -> {"none", "wait", "close", "update", "done"}]
    /\ closed \subseteq Process
    /\ panicked \in BOOLEAN
    /\ pc \in [Client -> Label]
    /\ target \in [Client -> Sandbox \cup {NoSandbox}]
    /\ seen \in [Client -> Process \cup {NoProcess}]
    /\ channel \in [Client -> Process \cup {NoProcess}]

Init ==
    /\ known = {}
    /\ status = [s \in Sandbox |-> "none"]
    /\ cmd = [s \in Sandbox |-> NoProcess]
    /\ waitDone = [s \in Sandbox |-> NoProcess]
    /\ os = [p \in Process |-> "unused"]
    /\ of = [p \in Process |-> NoSandbox]
    /\ reaper = [p \in Process |-> "none"]
    /\ closed = {}
    /\ panicked = FALSE
    /\ pc = [c \in Client |-> "idle"]
    /\ target = [c \in Client |-> NoSandbox]
    /\ seen = [c \in Client |-> NoProcess]
    /\ channel = [c \in Client |-> NoProcess]

Goto(c, label) == pc' = [pc EXCEPT ![c] = label]

\* (Some definitions are preceded by a variant that a slip in the code would give;
\* PROJECT.json pairs each with the property that tells the two apart.)

(***************************************************************************)
(* Create and Start hold the mutex from beginning to end.  Start launches    *)
(* the process inside it; resolving the command, the log file or the fork    *)
(* may fail, which changes nothing.                                         *)
(***************************************************************************)
Create(c, s) ==
    /\ pc[c] = "idle" /\ ~panicked
    /\ status[s] = "none"
    /\ known' = known \cup {s}
    /\ status' = [status EXCEPT ![s] = "pending"]
    /\ UNCHANGED <<cmd, waitDone, system, calls>>

ForgetsChannel(c, s, p) ==
    /\ pc[c] = "idle" /\ ~panicked
    /\ s \in known
    /\ status[s] # "running"
    /\ os[p] = "unused"
    /\ os' = [os EXCEPT ![p] = "alive"]
    /\ of' = [of EXCEPT ![p] = s]
    /\ reaper' = [reaper EXCEPT ![p] = "wait"]
    /\ cmd' = [cmd EXCEPT ![s] = p]
    /\ status' = [status EXCEPT ![s] = "running"]
    /\ UNCHANGED <<known, waitDone, closed, panicked, calls>>
Start(c, s, p) ==
    /\ pc[c] = "idle" /\ ~panicked
    /\ s \in known
    /\ status[s] # "running"
    /\ os[p] = "unused"
    /\ os' = [os EXCEPT ![p] = "alive"]
    /\ of' = [of EXCEPT ![p] = s]
    /\ reaper' = [reaper EXCEPT ![p] = "wait"]
    /\ cmd' = [cmd EXCEPT ![s] = p]
    /\ waitDone' = [waitDone EXCEPT ![s] = p]
    /\ status' = [status EXCEPT ![s] = "running"]
    /\ UNCHANGED <<known, closed, panicked, calls>>

(***************************************************************************)
(* A process ends by itself, by the signal, or with Start's context.         *)
(***************************************************************************)
Exit(p) ==
    /\ os[p] = "alive"
    /\ os' = [os EXCEPT ![p] = "exited"]
    /\ UNCHANGED <<entries, of, reaper, closed, panicked, calls>>

(***************************************************************************)
(* The reaper: cmd.Wait, close(entry.waitDone), then the status, under the   *)
(* mutex and of whatever entry the map has now.                             *)
(***************************************************************************)
Reap(p) ==
    /\ reaper[p] = "wait" /\ ~panicked
    /\ os[p] = "exited"
    /\ reaper' = [reaper EXCEPT ![p] = "close"]
    /\ UNCHANGED <<entries, os, of, closed, panicked, calls>>

\* The field is read now: a later Start may have put its own channel there.
CloseDone(p) ==
    /\ reaper[p] = "close" /\ ~panicked
    /\ LET ch == waitDone[of[p]]
       IN /\ panicked' = (ch \in closed)
          /\ closed' = closed \cup {ch}
    /\ reaper' = [reaper EXCEPT ![p] = "update"]
    /\ UNCHANGED <<entries, os, of, calls>>

NoUpdate(p) ==
    /\ reaper[p] = "update" /\ ~panicked
    /\ reaper' = [reaper EXCEPT ![p] = "done"]
    /\ UNCHANGED <<entries, os, of, closed, panicked, calls>>
UpdateStatus(p) ==
    /\ reaper[p] = "update" /\ ~panicked
    /\ LET s == of[p]
       IN status' = IF s \in known /\ status[s] = "running"
                    THEN [status EXCEPT ![s] = "stopped"] ELSE status
    /\ reaper' = [reaper EXCEPT ![p] = "done"]
    /\ UNCHANGED <<known, cmd, waitDone, os, of, closed, panicked, calls>>

(***************************************************************************)
(* Stop: look, unlock, signal, receive from the channel, lock, record.       *)
(* Delete runs the same steps inside itself (labels with a d).              *)
(***************************************************************************)
EndCall(c) ==
    /\ Goto(c, "idle")
    /\ target' = [target EXCEPT ![c] = NoSandbox]
    /\ seen' = [seen EXCEPT ![c] = NoProcess]
    /\ channel' = [channel EXCEPT ![c] = NoProcess]

Begin(c, s, label) ==
    /\ pc[c] = "idle" /\ ~panicked
    /\ s \in known
    /\ target' = [target EXCEPT ![c] = s]
    /\ Goto(c, label)
    /\ UNCHANGED <<entries, system, seen, channel>>

Stop(c, s) == Begin(c, s, "stop")

\* Nothing to signal: the entry is marked stopped whatever it was.
StopIdle(c) ==
    /\ pc[c] \in {"stop", "dstop"} /\ ~panicked
    /\ LET s == target[c]
       IN /\ s \in known
          /\ status[s] # "running" \/ cmd[s] = NoProcess
          /\ status' = [status EXCEPT ![s] = "stopped"]
          /\ cmd' = [cmd EXCEPT ![s] = NoProcess]
    /\ Goto(c, IF pc[c] = "stop" THEN "return" ELSE "remove")
    /\ UNCHANGED <<known, waitDone, system, target, seen, channel>>

\* Somebody deleted the sandbox meanwhile.
StopNotFound(c) ==
    /\ pc[c] \in {"stop", "dstop"} /\ ~panicked
    /\ target[c] \notin known
    /\ Goto(c, IF pc[c] = "stop" THEN "return" ELSE "remove")
    /\ UNCHANGED <<entries, system, target, seen, channel>>

StopRunning(c) ==
    /\ pc[c] \in {"stop", "dstop"} /\ ~panicked
    /\ LET s == target[c]
       IN /\ s \in known
          /\ status[s] = "running" /\ cmd[s] # NoProcess
          /\ seen' = [seen EXCEPT ![c] = cmd[s]]
    /\ Goto(c, IF pc[c] = "stop" THEN "signal" ELSE "dsignal")
    /\ UNCHANGED <<entries, system, target, channel>>

\* SIGKILL ends the process; SIGTERM, which only Stop sends, it may outlive.
SignalProcess(c) ==
    /\ pc[c] \in {"signal", "dsignal"} /\ ~panicked
    /\ \/ os' = [os EXCEPT ![seen[c]] = "exited"]
       \/ pc[c] = "signal" /\ os' = os
    /\ Goto(c, IF pc[c] = "signal" THEN "receive" ELSE "dreceive")
    /\ UNCHANGED <<entries, of, reaper, closed, panicked, target, seen, channel>>

\* <-entry.waitDone reads the field without the mutex, then blocks.
ReadChannel(c) ==
    /\ pc[c] \in {"receive", "dreceive"} /\ ~panicked
    /\ channel' = [channel EXCEPT ![c] = waitDone[target[c]]]
    /\ Goto(c, IF pc[c] = "receive" THEN "await" ELSE "dawait")
    /\ UNCHANGED <<entries, system, target, seen>>

NoWait(c) ==
    /\ pc[c] \in {"await", "dawait"} /\ ~panicked
    /\ Goto(c, IF pc[c] = "await" THEN "finish" ELSE "dfinish")
    /\ UNCHANGED <<entries, system, target, seen, channel>>
AwaitDone(c) ==
    /\ pc[c] \in {"await", "dawait"} /\ ~panicked
    /\ channel[c] \in closed
    /\ Goto(c, IF pc[c] = "await" THEN "finish" ELSE "dfinish")
    /\ UNCHANGED <<entries, system, target, seen, channel>>

FinishStop(c) ==
    /\ pc[c] \in {"finish", "dfinish"} /\ ~panicked
    /\ status' = [status EXCEPT ![target[c]] = "stopped"]
    /\ cmd' = [cmd EXCEPT ![target[c]] = NoProcess]
    /\ Goto(c, IF pc[c] = "finish" THEN "return" ELSE "remove")
    /\ UNCHANGED <<known, waitDone, system, target, seen, channel>>

Return(c) ==
    /\ pc[c] = "return" /\ ~panicked
    /\ EndCall(c)
    /\ UNCHANGED <<entries, system>>

(***************************************************************************)
(* Delete: look the entry up, read its status without the mutex, stop it if  *)
(* it runs, then remove it from the map.                                    *)
(***************************************************************************)
Delete(c, s) == Begin(c, s, "delete")

ReadStatus(c) ==
    /\ pc[c] = "delete" /\ ~panicked
    /\ Goto(c, IF status[target[c]] = "running" THEN "dstop" ELSE "remove")
    /\ UNCHANGED <<entries, system, target, seen, channel>>

RemoveEntry(c) ==
    /\ pc[c] = "remove" /\ ~panicked
    /\ known' = known \ {target[c]}
    /\ EndCall(c)
    /\ UNCHANGED <<status, cmd, waitDone, system>>

Step(c) ==
    \/ StopIdle(c) \/ StopNotFound(c) \/ StopRunning(c) \/ SignalProcess(c)
    \/ ReadChannel(c) \/ AwaitDone(c) \/ FinishStop(c) \/ Return(c)
    \/ ReadStatus(c) \/ RemoveEntry(c)

ReaperStep(p) == Reap(p) \/ CloseDone(p) \/ UpdateStatus(p)

Next ==
    \/ \E c \in Client :
          \/ \E s \in Sandbox :
                Create(c, s) \/ Stop(c, s) \/ Delete(c, s) \/ \E p \in Process : Start(c, s, p)
          \/ Step(c)
    \/ \E p \in Process : Exit(p) \/ ReaperStep(p)

Spec == Init /\ [][Next]_vars

\* Goroutines run.  A process need not end by itself, and a caller need not call.
FairSpec ==
    /\ Spec
    /\ \A c \in Client : WF_vars(Step(c))
    /\ \A p \in Process : WF_vars(ReaperStep(p))

(***************************************************************************)
(* Properties.                                                             *)
(***************************************************************************)
Alive(s) == {p \in Process : of[p] = s /\ os[p] = "alive"}

\* A sandbox does not go on being reported as running when no process of it is
\* left: some reaper or Stop notices (or the program has crashed).
StatusCatchesUp ==
    \A s \in Sandbox :
        s \in known /\ status[s] = "running" /\ Alive(s) = {} ~>
            s \notin known \/ status[s] # "running" \/ Alive(s) # {} \/ panicked

\* As long as a sandbox has been started at most once, it is reported as stopped
\* only when its process has ended, however Stop, Delete and the reaper interleave.
\* (A second Start breaks this: StoppedHasNoProcess.)
StoppedIsTrueOfFirstRun ==
    \A s \in Sandbox :
        status[s] = "stopped" /\ Cardinality({p \in Process : of[p] = s}) <= 1 => Alive(s) = {}

\* process.go:122: "Stop terminates the running sandbox process", and :166: "Delete
\* tears down process state": a sandbox that is stopped or deleted has no process.
StoppedHasNoProcess ==
    \A s \in Sandbox : status[s] = "stopped" => Alive(s) = {}
=============================================================================
