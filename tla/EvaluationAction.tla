-------------------------- MODULE EvaluationAction --------------------------
(***************************************************************************)
(* EvaluationAction.Execute of pkg/orchestrate/evaluation.go: resolve the    *)
(* GPU inventory, lease the GPUs, inspect the host, run one bounded command, *)
(* judge what it left in the output root, and unwind through the deferred    *)
(* functions that return the lease and clean up.                             *)
(*                                                                         *)
(* The lease table is LeaseTable, which ReservationStore implements.  The    *)
(* output root's locks and files are the business of OutputRoot; here every  *)
(* execution has a root of its own.                                         *)
(***************************************************************************)
EXTENDS Naturals

CONSTANTS
    Action,         \* concurrent executions
    GPU, Token,
    Owner,          \* the owner strings: manifest digests
    Timeout,        \* request.TimeoutMillis values that occur
    Ttl,            \* action.ReservationTTL values that occur
    Skew,           \* EvaluationReservationSkew
    MaxTimeout,     \* MaxEvaluationTimeout
    MaxTime,        \* bound on the clock
    NoRecord, NoToken

ASSUME ConstantsAssumption ==
    /\ Timeout \subseteq Nat /\ Ttl \subseteq Nat
    /\ Skew \in Nat /\ MaxTimeout \in Nat \ {0} /\ MaxTime \in Nat
    /\ Owner # {}
    /\ NoToken \notin Token
    /\ NoRecord \notin [token : Token, owner : Owner, expires : Nat]

VARIABLES
    clock, table,   \* the lease table
    used,           \* tokens given out
    pc,
    uuids,          \* requestedUUIDs(request.GPUBindings)
    timeout,
    ttl,
    lease,          \* the token of the lease Reserve returned
    leasedAt,       \* when it returned it
    startedAt,      \* when the command started
    started,        \* actionStarted
    created,        \* root.created
    result          \* the EvaluationResult: Success, Released, ErrorCode

request == <<uuids, timeout, ttl>>
locals  == <<request, lease, leasedAt, startedAt, started, created>>
vars    == <<clock, table, used, pc, locals, result>>

Leases == INSTANCE LeaseTable

Label == {"idle", "inventory", "reserve", "snapshot", "inspect", "run", "release", "unwind", "returned"}

\* One code stands for all that the inventory step, or the inspection, can fail with.
Code ==
    {"", "inventory_unavailable", "reservation_failed", "output_snapshot_failed", "inspection_failed",
     "action_timeout", "output_truncated", "action_failed", "ambiguous_job_output",
     "job_lock_mismatch", "cleanup_failed", "output_root_cleanup_failed"}

Result == [success : BOOLEAN, released : BOOLEAN, code : Code]

TypeOK ==
    /\ clock \in Nat
    /\ table \in [GPU -> Leases!Record \cup {NoRecord}]
    /\ used \subseteq Token
    /\ pc \in [Action -> Label]
    /\ uuids \in [Action -> SUBSET GPU]
    /\ timeout \in [Action -> Nat] /\ ttl \in [Action -> Nat]
    /\ lease \in [Action -> Token \cup {NoToken}]
    /\ leasedAt \in [Action -> Nat] /\ startedAt \in [Action -> Nat]
    /\ started \in [Action -> BOOLEAN] /\ created \in [Action -> BOOLEAN]
    /\ result \in [Action -> Result]

NewResult == [success |-> FALSE, released |-> TRUE, code |-> ""]

Init ==
    /\ Leases!Init
    /\ used = {}
    /\ pc = [a \in Action |-> "idle"]
    /\ uuids = [a \in Action |-> {}]
    /\ timeout = [a \in Action |-> 0]
    /\ ttl = [a \in Action |-> 0]
    /\ lease = [a \in Action |-> NoToken]
    /\ leasedAt = [a \in Action |-> 0]
    /\ startedAt = [a \in Action |-> 0]
    /\ started = [a \in Action |-> FALSE]
    /\ created = [a \in Action |-> FALSE]
    /\ result = [a \in Action |-> NewResult]

Goto(a, label) == pc' = [pc EXCEPT ![a] = label]

\* (Some definitions are preceded by a variant that a slip in the code would give;
\* PROJECT.json pairs each with the property that tells the two apart.)

(***************************************************************************)
(* validate: the TTL must cover the timeout and the skew, but neither the    *)
(* TTL nor the minimum asked of it exceeds MaxEvaluationTimeout.             *)
(***************************************************************************)
MinimumTTL(t) == IF t + Skew > MaxTimeout THEN MaxTimeout ELSE t + Skew

ForgetsSkew(t, life) == t > 0 /\ t <= MaxTimeout /\ life >= t /\ life <= MaxTimeout
ValidLimits(t, life) ==
    /\ t > 0 /\ t <= MaxTimeout
    /\ life >= MinimumTTL(t) /\ life <= MaxTimeout

\* Up to and including the output lock; whether Execute made the root is settled.
Execute(a, gpus, t, life, made) ==
    /\ pc[a] = "idle"
    /\ gpus # {}
    /\ ValidLimits(t, life)
    /\ uuids' = [uuids EXCEPT ![a] = gpus]
    /\ timeout' = [timeout EXCEPT ![a] = t]
    /\ ttl' = [ttl EXCEPT ![a] = life]
    /\ created' = [created EXCEPT ![a] = made]
    /\ result' = [result EXCEPT ![a] = NewResult]
    /\ Goto(a, "inventory")
    /\ UNCHANGED <<clock, table, used, lease, leasedAt, startedAt, started>>

\* return failEvaluation(...): the deferred functions registered so far are left.
FailEvaluation(a, code, deferred) ==
    /\ result' = [result EXCEPT ![a] = [success |-> FALSE, released |-> @.released, code |-> code]]
    /\ Goto(a, deferred)
    /\ UNCHANGED <<clock, table, used, locals>>

(***************************************************************************)
(* Inventory and reservation.                                              *)
(***************************************************************************)
ResolveInventory(a) ==
    /\ pc[a] = "inventory"
    /\ \/ /\ Goto(a, "reserve")
          /\ UNCHANGED <<clock, table, used, locals, result>>
       \/ FailEvaluation(a, "inventory_unavailable", "unwind")

Reserve(a) ==
    /\ pc[a] = "reserve"
    /\ clock + ttl[a] <= MaxTime       \* the bound leaves every lease room to expire
    /\ \E token \in Token \ used, owner \in Owner :
          /\ Leases!Grant(uuids[a], [token |-> token, owner |-> owner, expires |-> clock + ttl[a]])
          /\ used' = used \cup {token}
          /\ lease' = [lease EXCEPT ![a] = token]
    /\ leasedAt' = [leasedAt EXCEPT ![a] = clock]
    /\ result' = [result EXCEPT ![a].released = FALSE]
    /\ Goto(a, "snapshot")
    /\ UNCHANGED <<request, startedAt, started, created>>

\* A GPU is taken, or the store fails.
ReserveFails(a) ==
    /\ pc[a] = "reserve"
    /\ FailEvaluation(a, "reservation_failed", "unwind")

(***************************************************************************)
(* Snapshot, inspection and the command.  None of them is given less time    *)
(* because the lease is running; only the command itself is bounded.        *)
(***************************************************************************)
SnapshotBefore(a) ==
    /\ pc[a] = "snapshot"
    /\ \/ /\ Goto(a, "inspect")
          /\ UNCHANGED <<clock, table, used, locals, result>>
       \/ FailEvaluation(a, "output_snapshot_failed", "release")

InspectFails(a) ==
    /\ pc[a] = "inspect"
    /\ FailEvaluation(a, "inspection_failed", "release")

StartCommand(a) ==
    /\ pc[a] = "inspect"
    /\ started' = [started EXCEPT ![a] = TRUE]
    /\ startedAt' = [startedAt EXCEPT ![a] = clock]
    /\ Goto(a, "run")
    /\ UNCHANGED <<clock, table, used, request, lease, leasedAt, created, result>>

\* What the command's result and the directories it left come to.  The command's
\* own failure is preferred to that of its output.
UnwrappedError(flags, output) ==
    CASE "timed_out" \in flags      -> "action_timeout"
      [] "truncated" \in flags      -> "output_truncated"
      [] "failed" \in flags         -> "action_failed"
      [] output # "one job"         -> "evaluation_failed"
      [] OTHER                      -> ""
OutcomeCode(flags, output) ==
    CASE "timed_out" \in flags      -> "action_timeout"
      [] "truncated" \in flags      -> "output_truncated"
      [] "failed" \in flags         -> "action_failed"
      [] output = "unreadable"      -> "output_snapshot_failed"
      [] output = "not one job"     -> "ambiguous_job_output"
      [] output = "foreign lock"    -> "job_lock_mismatch"
      [] OTHER                      -> ""

Outputs == {"unreadable", "not one job", "foreign lock", "one job"}

\* The command ends, and the output root is compared with the first snapshot.
FinishCommand(a, flags, output) ==
    /\ pc[a] = "run"
    /\ LET code == OutcomeCode(flags, output)
       IN result' = [result EXCEPT ![a] = [success |-> (code = ""), released |-> @.released, code |-> code]]
    /\ Goto(a, "release")
    /\ UNCHANGED <<clock, table, used, locals>>

(***************************************************************************)
(* The deferred functions, last registered first.                          *)
(***************************************************************************)
ReleaseLease(a) ==
    /\ pc[a] = "release"
    /\ Leases!Free(uuids[a], lease[a])
    /\ result' = [result EXCEPT ![a].released = TRUE]
    /\ Goto(a, "unwind")
    /\ UNCHANGED <<used, locals>>

\* The store fails or times out, or the lease has expired and a GPU of it is
\* somebody else's by now.  A code that is there already stays.
KeepsSuccess(a) ==
    /\ pc[a] = "release"
    /\ result' = [result EXCEPT ![a].code = IF @ = "" THEN "cleanup_failed" ELSE @]
    /\ Goto(a, "unwind")
    /\ UNCHANGED <<clock, table, used, locals>>
OverwritesCode(a) ==
    /\ pc[a] = "release"
    /\ result' = [result EXCEPT ![a].success = FALSE, ![a].code = "cleanup_failed"]
    /\ Goto(a, "unwind")
    /\ UNCHANGED <<clock, table, used, locals>>
ClaimsReleased(a) ==
    /\ pc[a] = "release"
    /\ result' = [result EXCEPT ![a].success = FALSE, ![a].released = TRUE,
                                ![a].code = IF @ = "" THEN "cleanup_failed" ELSE @]
    /\ Goto(a, "unwind")
    /\ UNCHANGED <<clock, table, used, locals>>
ReleaseFails(a) ==
    /\ pc[a] = "release"
    /\ result' = [result EXCEPT ![a] = [success |-> FALSE, released |-> FALSE,
                                        code |-> IF @.code = "" THEN "cleanup_failed" ELSE @.code]]
    /\ Goto(a, "unwind")
    /\ UNCHANGED <<clock, table, used, locals>>

\* The output root's deferred function: a root Execute made is removed after a
\* failure that came before the command.
NeedsCleanup(a) == created[a] /\ ~started[a] /\ result[a].code # ""

UnwindRoot(a) ==
    /\ pc[a] = "unwind"
    /\ \/ UNCHANGED result
       \/ /\ NeedsCleanup(a)
          /\ result' = [result EXCEPT ![a] = [success |-> FALSE, released |-> @.released,
                                              code |-> "output_root_cleanup_failed"]]
    /\ Goto(a, "returned")
    /\ UNCHANGED <<clock, table, used, locals>>

\* The caller is done with the result.
Reset(a) ==
    /\ Goto(a, "idle")
    /\ uuids' = [uuids EXCEPT ![a] = {}]
    /\ timeout' = [timeout EXCEPT ![a] = 0]
    /\ ttl' = [ttl EXCEPT ![a] = 0]
    /\ lease' = [lease EXCEPT ![a] = NoToken]
    /\ leasedAt' = [leasedAt EXCEPT ![a] = 0]
    /\ startedAt' = [startedAt EXCEPT ![a] = 0]
    /\ started' = [started EXCEPT ![a] = FALSE]
    /\ created' = [created EXCEPT ![a] = FALSE]
    /\ result' = [result EXCEPT ![a] = NewResult]
    /\ UNCHANGED <<clock, table, used>>

Collect(a) == pc[a] = "returned" /\ Reset(a)

Crash(a) == pc[a] \notin {"idle", "returned"} /\ Reset(a)

\* The runner kills a command that outlives its timeout, so time does not pass
\* beyond that while it runs.
Tick ==
    /\ clock < MaxTime
    /\ \A a \in Action : pc[a] = "run" => clock < startedAt[a] + timeout[a]
    /\ Leases!Tick
    /\ UNCHANGED <<used, pc, locals, result>>

Flags == SUBSET {"timed_out", "truncated", "failed"}

Step(a) ==
    \/ ResolveInventory(a) \/ Reserve(a) \/ ReserveFails(a) \/ SnapshotBefore(a)
    \/ InspectFails(a) \/ StartCommand(a)
    \/ \E flags \in Flags, output \in Outputs : FinishCommand(a, flags, output)
    \/ ReleaseLease(a) \/ ReleaseFails(a) \/ UnwindRoot(a)

Next ==
    \/ \E a \in Action :
          \/ \E gpus \in SUBSET GPU, t \in Timeout, life \in Ttl, made \in BOOLEAN :
                 Execute(a, gpus, t, life, made)
          \/ Step(a) \/ Collect(a) \/ Crash(a)
    \/ Tick

Spec == Init /\ [][Next]_vars

(***************************************************************************)
(* Properties.                                                             *)
(***************************************************************************)

\* "result.Released" can be believed: an execution that returns it true has no
\* GPU left under its lease, on any path through the deferred functions.
ReleasedIsTrue ==
    \A a \in Action :
        pc[a] = "returned" /\ result[a].released =>
            \A g \in GPU : table[g] # NoRecord => table[g].token # lease[a]

\* Success is returned only with the lease given back, no error code, and a
\* command that ran to its end in time: no deferred function turns a success
\* sour without saying so.
SuccessIsClean ==
    \A a \in Action :
        pc[a] = "returned" =>
            /\ result[a].success <=> result[a].code = ""
            /\ result[a].success => result[a].released /\ started[a]

\* What Execute returns is true of the lease and of the command, after all its
\* deferred functions have had their say.
ResultIsTrue == ReleasedIsTrue /\ SuccessIsClean

\* The code of the first failure survives a failing release; only the clean-up of
\* a root whose command never started may replace it.
FirstCodeKept ==
    [][\A a \in Action :
          result[a].code # "" /\ pc'[a] # "idle" /\ result'[a].code # result[a].code =>
              result'[a].code = "output_root_cleanup_failed" /\ created[a] /\ ~started[a]]_vars

\* Where the TTL rule is not cut off at MaxEvaluationTimeout, and the command
\* starts within the skew after the lease, the lease outlasts the command.
LeaseCoversPromptCommand ==
    \A a \in Action :
        /\ pc[a] = "run"
        /\ timeout[a] + Skew <= MaxTimeout
        /\ startedAt[a] - leasedAt[a] < Skew
        => \A g \in uuids[a] : table[g] # NoRecord /\ table[g].token = lease[a]

\* evaluation.go:37-38: the skew makes sure that "the GPU lease cannot expire while
\* the bounded command is still running".
LeaseCoversCommand ==
    \A a \in Action :
        pc[a] = "run" => \A g \in uuids[a] : table[g] # NoRecord /\ table[g].token = lease[a]

=============================================================================
