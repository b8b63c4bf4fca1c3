----------------------- MODULE EvaluationActionProofs -----------------------
(***************************************************************************)
(* Safety of EvaluationAction.Execute over the lease table, for any sets of  *)
(* executions, GPUs and tokens and any timeouts, lifetimes, skew and limit.  *)
(***************************************************************************)
EXTENDS EvaluationAction, TLAPS

(***************************************************************************)
(* The inductive invariant.  The properties speak of executions that have    *)
(* returned or whose command runs; the parts below follow an execution and   *)
(* its lease to that point.                                                 *)
(***************************************************************************)

\* The labels between a successful Reserve and the release of the lease.
Leased == {"snapshot", "inspect", "run", "release"}

\* The labels at which no step of Execute has decided anything yet.
Undecided == {"idle", "inventory", "reserve", "snapshot", "inspect", "run"}

\* Tokens are drawn once: what the table and the executions have was drawn, and
\* two executions never have the same one.
TokenInv ==
    /\ \A g \in GPU : table[g] # NoRecord => table[g].token \in used
    /\ \A a \in Action : lease[a] \in used \cup {NoToken}
    /\ \A a, b \in Action : a # b /\ lease[a] = lease[b] => lease[a] = NoToken

\* A lease marks no GPU but the requested ones.
LeaseInv ==
    \A a \in Action, g \in GPU :
        table[g] # NoRecord /\ table[g].token = lease[a] => g \in uuids[a]

\* An execution has a token exactly from Reserve on.
PlaceInv ==
    \A a \in Action :
        /\ pc[a] \in Leased => lease[a] # NoToken /\ ~result[a].released
        /\ pc[a] \in {"idle", "inventory", "reserve"} => lease[a] = NoToken

\* "released" is true at every label at which it is set.
GivenBackInv ==
    \A a \in Action : result[a].released =>
        \A g \in GPU : table[g] # NoRecord => table[g].token # lease[a]

\* Success, code and the command agree from the first decision on.
VerdictInv ==
    \A a \in Action :
        /\ pc[a] \in Undecided => ~result[a].success /\ result[a].code = ""
        /\ pc[a] \notin Undecided => (result[a].success <=> result[a].code = "")
        /\ result[a].success => started[a]
        /\ result[a].success /\ pc[a] # "release" => result[a].released
        /\ pc[a] = "run" => started[a]

\* The limits that validate accepted.
LimitsInv ==
    \A a \in Action : pc[a] # "idle" => ValidLimits(timeout[a], ttl[a])

\* A lease that has not reached its end is in the table, on every requested GPU.
UnexpiredInv ==
    \A a \in Action : pc[a] \in Leased /\ clock < leasedAt[a] + ttl[a] =>
        \A g \in uuids[a] :
            table[g] # NoRecord /\ table[g].token = lease[a] /\ table[g].expires = leasedAt[a] + ttl[a]

\* The runner lets no command outlive its timeout.
BoundedInv ==
    \A a \in Action : pc[a] = "run" => clock <= startedAt[a] + timeout[a]

IInv ==
    /\ TypeOK /\ TokenInv /\ LeaseInv /\ PlaceInv /\ GivenBackInv /\ VerdictInv
    /\ LimitsInv /\ UnexpiredInv /\ BoundedInv

-----------------------------------------------------------------------------
\* A table without leases and executions that have not begun satisfy the invariant.
LEMMA InitInv == Init => IInv
<1> SUFFICES ASSUME Init PROVE IInv
  OBVIOUS
<1> USE ConstantsAssumption DEF Init, Leases!Init, NewResult
<1>1. TypeOK
  BY DEF TypeOK, Result, Code, Label
<1>2. TokenInv
  BY DEF TokenInv
<1>3. LeaseInv
  BY DEF LeaseInv
<1>4. PlaceInv
  BY DEF PlaceInv, Leased
<1>5. GivenBackInv
  BY DEF GivenBackInv
<1>6. VerdictInv
  BY DEF VerdictInv, Undecided
<1>7. LimitsInv
  BY DEF LimitsInv
<1>8. UnexpiredInv
  BY DEF UnexpiredInv, Leased
<1>9. BoundedInv
  BY DEF BoundedInv
<1> QED
  BY <1>1, <1>2, <1>3, <1>4, <1>5, <1>6, <1>7, <1>8, <1>9 DEF IInv

\* A new call to Execute.
LEMMA ExecuteStep ==
  ASSUME IInv, NEW a \in Action, NEW gpus \in SUBSET GPU, NEW t \in Timeout, NEW life \in Ttl,
         NEW made \in BOOLEAN, Execute(a, gpus, t, life, made)
  PROVE  IInv'
<1> USE ConstantsAssumption DEF IInv, Execute, Goto, NewResult
<1>1. TypeOK'
  BY DEF TypeOK, Result, Code, Label
<1>2. TokenInv'
  BY DEF TokenInv, TypeOK
<1>3. LeaseInv'
  BY DEF LeaseInv, TypeOK, TokenInv, PlaceInv
<1>4. PlaceInv'
  BY DEF PlaceInv, Leased, TypeOK
<1>5. GivenBackInv'
  BY DEF GivenBackInv, TypeOK, TokenInv, PlaceInv
<1>6. VerdictInv'
  BY DEF VerdictInv, Undecided, TypeOK
<1>7. LimitsInv'
  BY DEF LimitsInv, TypeOK
<1>8. UnexpiredInv'
  BY DEF UnexpiredInv, Leased, TypeOK
<1>9. BoundedInv'
  BY DEF BoundedInv, TypeOK
<1> QED
  BY <1>1, <1>2, <1>3, <1>4, <1>5, <1>6, <1>7, <1>8, <1>9 DEF IInv

\* An error return: with a lease the deferred release is next, without one the root's clean-up.
LEMMA FailStep ==
  ASSUME IInv, NEW a \in Action, NEW code \in Code \ {""}, NEW deferred \in Label,
         FailEvaluation(a, code, deferred),
         \/ pc[a] \in {"inventory", "reserve"} /\ deferred = "unwind"
         \/ pc[a] \in {"snapshot", "inspect"} /\ deferred = "release"
  PROVE  IInv'
<1> USE ConstantsAssumption DEF IInv, FailEvaluation, Goto, locals, request
<1>1. TypeOK'
  BY DEF TypeOK, Result, Code, Label
<1>2. TokenInv'
  BY DEF TokenInv, TypeOK
<1>3. LeaseInv'
  BY DEF LeaseInv, TypeOK
<1>4. PlaceInv'
  BY DEF PlaceInv, Leased, TypeOK, Result
<1>5. GivenBackInv'
  BY DEF GivenBackInv, TypeOK, Result
<1>6. VerdictInv'
  BY DEF VerdictInv, Undecided, TypeOK, Result
<1>7. LimitsInv'
  BY DEF LimitsInv, TypeOK
<1>8. UnexpiredInv'
  BY DEF UnexpiredInv, Leased, TypeOK
<1>9. BoundedInv'
  BY DEF BoundedInv, TypeOK
<1> QED
  BY <1>1, <1>2, <1>3, <1>4, <1>5, <1>6, <1>7, <1>8, <1>9 DEF IInv

\* A step that succeeds and leaves everything to the next.
LEMMA AdvanceStep ==
  ASSUME IInv, NEW a \in Action, NEW label \in Label, Goto(a, label), UNCHANGED <<clock, table, used, locals, result>>,
         \/ pc[a] = "inventory" /\ label = "reserve"
         \/ pc[a] = "snapshot" /\ label = "inspect"
         \/ pc[a] = "unwind" /\ label = "returned"
  PROVE  IInv'
<1> USE ConstantsAssumption DEF IInv, Goto, locals, request
<1>1. TypeOK'
  BY DEF TypeOK, Result, Code, Label
<1>2. TokenInv'
  BY DEF TokenInv, TypeOK
<1>3. LeaseInv'
  BY DEF LeaseInv, TypeOK
<1>4. PlaceInv'
  BY DEF PlaceInv, Leased, TypeOK
<1>5. GivenBackInv'
  BY DEF GivenBackInv, TypeOK
<1>6. VerdictInv'
  BY DEF VerdictInv, Undecided, TypeOK
<1>7. LimitsInv'
  BY DEF LimitsInv, TypeOK
<1>8. UnexpiredInv'
  BY DEF UnexpiredInv, Leased, TypeOK
<1>9. BoundedInv'
  BY DEF BoundedInv, TypeOK
<1> QED
  BY <1>1, <1>2, <1>3, <1>4, <1>5, <1>6, <1>7, <1>8, <1>9 DEF IInv

\* The lease is granted.
LEMMA ReserveStep ==
  ASSUME IInv, NEW a \in Action, Reserve(a)
  PROVE  IInv'
<1>a. /\ result' \in [Action -> Result]
      /\ result'[a].success = result[a].success /\ result'[a].code = result[a].code
      /\ result'[a].released = FALSE
  <2>1. result' = [result EXCEPT ![a].released = FALSE] /\ result \in [Action -> Result]
    BY DEF Reserve, IInv, TypeOK
  <2> QED
    BY <2>1 DEF Result
<1>b. \A b \in Action : b # a => pc'[b] = pc[b] /\ result'[b] = result[b]
  BY DEF Reserve, Goto, IInv, TypeOK
<1> USE ConstantsAssumption DEF IInv, Reserve, Goto, request, Leases!Grant, Leases!Record
<1>1. TypeOK'
  BY <1>a DEF TypeOK, Label
<1>2. TokenInv'
  BY DEF TokenInv, TypeOK
<1>3. LeaseInv'
  BY DEF LeaseInv, TypeOK, TokenInv
<1>4. PlaceInv'
  BY DEF PlaceInv, Leased, TypeOK
<1>5. GivenBackInv'
  BY DEF GivenBackInv, TypeOK, TokenInv
<1>6. VerdictInv'
  BY <1>a, <1>b DEF VerdictInv, Undecided, TypeOK
<1>7. LimitsInv'
  BY DEF LimitsInv, TypeOK
<1>8. UnexpiredInv'
  BY DEF UnexpiredInv, Leased, TypeOK
<1>9. BoundedInv'
  BY DEF BoundedInv, TypeOK
<1> QED
  BY <1>1, <1>2, <1>3, <1>4, <1>5, <1>6, <1>7, <1>8, <1>9 DEF IInv

\* The command starts.
LEMMA StartStep ==
  ASSUME IInv, NEW a \in Action, StartCommand(a)
  PROVE  IInv'
<1> USE ConstantsAssumption DEF IInv, StartCommand, Goto, request
<1>1. TypeOK'
  BY DEF TypeOK, Result, Code, Label
<1>2. TokenInv'
  BY DEF TokenInv, TypeOK
<1>3. LeaseInv'
  BY DEF LeaseInv, TypeOK
<1>4. PlaceInv'
  BY DEF PlaceInv, Leased, TypeOK
<1>5. GivenBackInv'
  BY DEF GivenBackInv, TypeOK
<1>6. VerdictInv'
  BY DEF VerdictInv, Undecided, TypeOK
<1>7. LimitsInv'
  BY DEF LimitsInv, TypeOK
<1>8. UnexpiredInv'
  BY DEF UnexpiredInv, Leased, TypeOK
<1>9. BoundedInv'
  BY DEF BoundedInv, TypeOK
<1> QED
  BY <1>1, <1>2, <1>3, <1>4, <1>5, <1>6, <1>7, <1>8, <1>9 DEF IInv

\* The command ends.
LEMMA FinishStep ==
  ASSUME IInv, NEW a \in Action, NEW flags \in Flags, NEW output \in Outputs, FinishCommand(a, flags, output)
  PROVE  IInv'
<1> USE ConstantsAssumption DEF IInv, FinishCommand, Goto, locals, request
<1>1. TypeOK'
  BY DEF TypeOK, Result, Code, Label, OutcomeCode
<1>2. TokenInv'
  BY DEF TokenInv, TypeOK
<1>3. LeaseInv'
  BY DEF LeaseInv, TypeOK
<1>4. PlaceInv'
  BY DEF PlaceInv, Leased, TypeOK, Result
<1>5. GivenBackInv'
  BY DEF GivenBackInv, TypeOK, Result
<1>6. VerdictInv'
  BY DEF VerdictInv, Undecided, TypeOK, Result, OutcomeCode
<1>7. LimitsInv'
  BY DEF LimitsInv, TypeOK
<1>8. UnexpiredInv'
  BY DEF UnexpiredInv, Leased, TypeOK
<1>9. BoundedInv'
  BY DEF BoundedInv, TypeOK
<1> QED
  BY <1>1, <1>2, <1>3, <1>4, <1>5, <1>6, <1>7, <1>8, <1>9 DEF IInv

\* The lease is given back.
LEMMA ReleaseStep ==
  ASSUME IInv, NEW a \in Action, ReleaseLease(a)
  PROVE  IInv'
<1>a. /\ result' \in [Action -> Result]
      /\ result'[a].success = result[a].success /\ result'[a].code = result[a].code
      /\ result'[a].released = TRUE
  <2>1. result' = [result EXCEPT ![a].released = TRUE] /\ result \in [Action -> Result]
    BY DEF ReleaseLease, IInv, TypeOK
  <2> QED
    BY <2>1 DEF Result
<1>b. \A b \in Action : b # a => pc'[b] = pc[b] /\ result'[b] = result[b]
  BY DEF ReleaseLease, Goto, IInv, TypeOK
<1> USE ConstantsAssumption DEF IInv, ReleaseLease, Goto, locals, request, Leases!Free
<1>1. TypeOK'
  BY DEF TypeOK, Result, Code, Label
<1>2. TokenInv'
  BY DEF TokenInv, TypeOK
<1>3. LeaseInv'
  BY DEF LeaseInv, TypeOK
<1>4. PlaceInv'
  BY DEF PlaceInv, Leased, TypeOK, Result
<1>5. GivenBackInv'
  BY DEF GivenBackInv, TypeOK, LeaseInv, Result
<1>6. VerdictInv'
  BY <1>a, <1>b DEF VerdictInv, Undecided, TypeOK
<1>7. LimitsInv'
  BY DEF LimitsInv, TypeOK
<1>8. UnexpiredInv'
  BY DEF UnexpiredInv, Leased, TypeOK, TokenInv, PlaceInv
<1>9. BoundedInv'
  BY DEF BoundedInv, TypeOK
<1> QED
  BY <1>1, <1>2, <1>3, <1>4, <1>5, <1>6, <1>7, <1>8, <1>9 DEF IInv

\* The release fails.
LEMMA ReleaseFailsStep ==
  ASSUME IInv, NEW a \in Action, ReleaseFails(a)
  PROVE  IInv'
<1> USE ConstantsAssumption DEF IInv, ReleaseFails, Goto, locals, request
<1>1. TypeOK'
  BY DEF TypeOK, Result, Code, Label
<1>2. TokenInv'
  BY DEF TokenInv, TypeOK
<1>3. LeaseInv'
  BY DEF LeaseInv, TypeOK
<1>4. PlaceInv'
  BY DEF PlaceInv, Leased, TypeOK, Result
<1>5. GivenBackInv'
  BY DEF GivenBackInv, TypeOK, Result
<1>6. VerdictInv'
  BY DEF VerdictInv, Undecided, TypeOK, Result
<1>7. LimitsInv'
  BY DEF LimitsInv, TypeOK
<1>8. UnexpiredInv'
  BY DEF UnexpiredInv, Leased, TypeOK
<1>9. BoundedInv'
  BY DEF BoundedInv, TypeOK
<1> QED
  BY <1>1, <1>2, <1>3, <1>4, <1>5, <1>6, <1>7, <1>8, <1>9 DEF IInv

\* The clean-up of the root fails.
LEMMA CleanupFailsStep ==
  ASSUME IInv, NEW a \in Action, pc[a] = "unwind", NeedsCleanup(a), Goto(a, "returned"),
         result' = [result EXCEPT ![a] = [success |-> FALSE, released |-> @.released,
                                          code |-> "output_root_cleanup_failed"]],
         UNCHANGED <<clock, table, used, locals>>
  PROVE  IInv'
<1> USE ConstantsAssumption DEF IInv, Goto, locals, request
<1>1. TypeOK'
  BY DEF TypeOK, Result, Code, Label
<1>2. TokenInv'
  BY DEF TokenInv, TypeOK
<1>3. LeaseInv'
  BY DEF LeaseInv, TypeOK
<1>4. PlaceInv'
  BY DEF PlaceInv, Leased, TypeOK, Result
<1>5. GivenBackInv'
  BY DEF GivenBackInv, TypeOK, Result
<1>6. VerdictInv'
  BY DEF VerdictInv, Undecided, TypeOK, Result, NeedsCleanup
<1>7. LimitsInv'
  BY DEF LimitsInv, TypeOK
<1>8. UnexpiredInv'
  BY DEF UnexpiredInv, Leased, TypeOK
<1>9. BoundedInv'
  BY DEF BoundedInv, TypeOK
<1> QED
  BY <1>1, <1>2, <1>3, <1>4, <1>5, <1>6, <1>7, <1>8, <1>9 DEF IInv

\* Execute has returned its result, or its process dies.
LEMMA ResetStep ==
  ASSUME IInv, NEW a \in Action, Reset(a)
  PROVE  IInv'
<1> USE ConstantsAssumption DEF IInv, Reset, Goto, NewResult
<1>1. TypeOK'
  BY DEF TypeOK, Result, Code, Label
<1>2. TokenInv'
  BY DEF TokenInv, TypeOK
<1>3. LeaseInv'
  BY DEF LeaseInv, TypeOK, TokenInv
<1>4. PlaceInv'
  BY DEF PlaceInv, Leased, TypeOK
<1>5. GivenBackInv'
  BY DEF GivenBackInv, TypeOK, TokenInv
<1>6. VerdictInv'
  BY DEF VerdictInv, Undecided, TypeOK
<1>7. LimitsInv'
  BY DEF LimitsInv, TypeOK
<1>8. UnexpiredInv'
  BY DEF UnexpiredInv, Leased, TypeOK
<1>9. BoundedInv'
  BY DEF BoundedInv, TypeOK
<1> QED
  BY <1>1, <1>2, <1>3, <1>4, <1>5, <1>6, <1>7, <1>8, <1>9 DEF IInv

\* Time passes: expired leases leave the table, unexpired ones stay.
LEMMA TickStep ==
  ASSUME IInv, Tick
  PROVE  IInv'
<1> USE ConstantsAssumption DEF IInv, Tick, locals, request, Leases!Tick
<1>0. /\ clock' = clock + 1 /\ clock' \in Nat
      /\ \A g \in GPU : table'[g] # NoRecord => table[g] # NoRecord /\ table'[g] = table[g]
      /\ \A g \in GPU : table[g] # NoRecord /\ table[g].expires > clock' => table'[g] = table[g]
  BY DEF TypeOK
<1>1. TypeOK'
  BY <1>0 DEF TypeOK
<1>2. TokenInv'
  BY <1>0 DEF TokenInv, TypeOK
<1>3. LeaseInv'
  BY <1>0 DEF LeaseInv, TypeOK
<1>4. PlaceInv'
  BY DEF PlaceInv
<1>5. GivenBackInv'
  BY <1>0 DEF GivenBackInv
<1>6. VerdictInv'
  BY DEF VerdictInv
<1>7. LimitsInv'
  BY DEF LimitsInv
<1>8. UnexpiredInv'
  BY <1>0 DEF UnexpiredInv, TypeOK
<1>9. BoundedInv'
  BY <1>0 DEF BoundedInv, TypeOK
<1> QED
  BY <1>1, <1>2, <1>3, <1>4, <1>5, <1>6, <1>7, <1>8, <1>9 DEF IInv

\* Every step keeps the invariant.
LEMMA StepInv == IInv /\ [Next]_vars => IInv'
<1> SUFFICES ASSUME IInv, [Next]_vars PROVE IInv'
  OBVIOUS
<1>1. CASE UNCHANGED vars
  BY <1>1 DEF vars, locals, request, IInv, TypeOK, TokenInv, LeaseInv, PlaceInv, GivenBackInv,
              VerdictInv, LimitsInv, UnexpiredInv, BoundedInv
<1>2. ASSUME NEW a \in Action, NEW gpus \in SUBSET GPU, NEW t \in Timeout, NEW life \in Ttl,
             NEW made \in BOOLEAN, Execute(a, gpus, t, life, made)
      PROVE  IInv'
  BY <1>2, ExecuteStep
<1>3. ASSUME NEW a \in Action, ResolveInventory(a) PROVE IInv'
  BY <1>3, AdvanceStep, FailStep DEF ResolveInventory, Code, Label
<1>4. ASSUME NEW a \in Action, Reserve(a) PROVE IInv'
  BY <1>4, ReserveStep
<1>5. ASSUME NEW a \in Action, ReserveFails(a) PROVE IInv'
  BY <1>5, FailStep DEF ReserveFails, Code, Label
<1>6. ASSUME NEW a \in Action, SnapshotBefore(a) PROVE IInv'
  BY <1>6, AdvanceStep, FailStep DEF SnapshotBefore, Code, Label
<1>7. ASSUME NEW a \in Action, InspectFails(a) PROVE IInv'
  BY <1>7, FailStep DEF InspectFails, Code, Label
<1>8. ASSUME NEW a \in Action, StartCommand(a) PROVE IInv'
  BY <1>8, StartStep
<1>9. ASSUME NEW a \in Action, NEW flags \in Flags, NEW output \in Outputs,
             FinishCommand(a, flags, output)
      PROVE  IInv'
  BY <1>9, FinishStep
<1>10. ASSUME NEW a \in Action, ReleaseLease(a) PROVE IInv'
  BY <1>10, ReleaseStep
<1>11. ASSUME NEW a \in Action, ReleaseFails(a) PROVE IInv'
  BY <1>11, ReleaseFailsStep
<1>12. ASSUME NEW a \in Action, UnwindRoot(a) PROVE IInv'
  BY <1>12, AdvanceStep, CleanupFailsStep DEF UnwindRoot, Label
<1>13. ASSUME NEW a \in Action, Collect(a) \/ Crash(a) PROVE IInv'
  BY <1>13, ResetStep DEF Collect, Crash
<1>14. CASE Tick
  BY <1>14, TickStep
<1> QED
  BY <1>1, <1>2, <1>3, <1>4, <1>5, <1>6, <1>7, <1>8, <1>9, <1>10, <1>11, <1>12, <1>13, <1>14
     DEF Next, Step

\* The invariant holds in every state of every execution.
THEOREM EvaluationInvariant == Spec => []IInv
  BY InitInv, StepInv, PTL DEF Spec

\* The variables keep their types, whatever the executions' limits and outcomes.
THEOREM TypeCorrect == Spec => []TypeOK
  BY EvaluationInvariant, PTL DEF IInv

\* What Execute returns is true: "released" means that no GPU is left under the
\* lease, and success comes without a code, with the lease given back and a command
\* that was started.
THEOREM ResultIsTrueCorrect == Spec => []ResultIsTrue
<1>1. IInv => ResultIsTrue
  BY DEF IInv, GivenBackInv, VerdictInv, ResultIsTrue, ReleasedIsTrue, SuccessIsClean, Undecided
<1> QED
  BY <1>1, EvaluationInvariant, PTL

\* A lease outlasts the command if the command starts within the skew: from the
\* limits that validate accepted, its start and its timeout end before the lease.
THEOREM LeaseCoversPromptCommandCorrect == Spec => []LeaseCoversPromptCommand
<1>1. IInv => LeaseCoversPromptCommand
  <2> SUFFICES ASSUME IInv, NEW a \in Action, pc[a] = "run", timeout[a] + Skew <= MaxTimeout,
                      startedAt[a] - leasedAt[a] < Skew, NEW g \in uuids[a]
               PROVE  table[g] # NoRecord /\ table[g].token = lease[a]
    BY DEF LeaseCoversPromptCommand
  <2>1. /\ clock \in Nat /\ Skew \in Nat /\ MaxTimeout \in Nat
        /\ startedAt[a] \in Nat /\ leasedAt[a] \in Nat /\ timeout[a] \in Nat /\ ttl[a] \in Nat
    BY ConstantsAssumption DEF IInv, TypeOK
  <2>2. ttl[a] >= timeout[a] + Skew
    BY <2>1 DEF IInv, LimitsInv, ValidLimits, MinimumTTL
  <2>3. clock <= startedAt[a] + timeout[a]
    BY DEF IInv, BoundedInv
  <2>4. clock < leasedAt[a] + ttl[a]
    BY <2>1, <2>2, <2>3
  <2> QED
    BY <2>4 DEF IInv, UnexpiredInv, Leased
<1> QED
  BY <1>1, EvaluationInvariant, PTL

\* The code of the first failure survives a failing release; only the clean-up of a
\* root whose command never started may replace it.
THEOREM FirstCodeKeptCorrect == Spec => FirstCodeKept
<1> DEFINE Kept(a) ==
      result[a].code # "" /\ pc'[a] # "idle" /\ result'[a].code # result[a].code =>
          result'[a].code = "output_root_cleanup_failed" /\ created[a] /\ ~started[a]
<1>1. ASSUME IInv, [Next]_vars, NEW a \in Action PROVE Kept(a)
  <2> SUFFICES ASSUME result[a].code # "", pc'[a] # "idle", result'[a].code # result[a].code
               PROVE  result'[a].code = "output_root_cleanup_failed" /\ created[a] /\ ~started[a]
    OBVIOUS
  <2>1. result \in [Action -> Result] /\ pc \in [Action -> Label] /\ pc[a] \notin Undecided
    BY <1>1 DEF IInv, TypeOK, VerdictInv
  <2>2. PICK b \in Action :
          \/ \E gpus \in SUBSET GPU, t \in Timeout, life \in Ttl, made \in BOOLEAN :
                 Execute(b, gpus, t, life, made)
          \/ Step(b) \/ Collect(b) \/ Crash(b)
    BY <1>1 DEF Next, vars, Tick
  <2>3. a = b
    BY <2>1, <2>2 DEF Execute, Step, ResolveInventory, FailEvaluation, Reserve, ReserveFails,
       SnapshotBefore, InspectFails, StartCommand, FinishCommand, ReleaseLease, ReleaseFails,
       UnwindRoot, Collect, Crash, Reset
  <2>4. ReleaseLease(a) \/ ReleaseFails(a) \/ UnwindRoot(a)
    BY <2>1, <2>2, <2>3 DEF Undecided, Execute, Step, ResolveInventory, Reserve, ReserveFails,
       SnapshotBefore, InspectFails, StartCommand, FinishCommand, Collect, Crash, Reset, Goto
  <2>5. ~ReleaseLease(a)
    <3>1. [result EXCEPT ![a].released = TRUE][a].code = result[a].code
      BY <2>1 DEF Result
    <3> QED
      BY <3>1 DEF ReleaseLease
  <2>6. ~ReleaseFails(a)
    <3> DEFINE R == [success |-> FALSE, released |-> FALSE,
                     code |-> IF result[a].code = "" THEN "cleanup_failed" ELSE result[a].code]
    <3>1. R.code = result[a].code
      OBVIOUS
    <3>2. ReleaseFails(a) => result'[a] = R
      BY <2>1 DEF ReleaseFails
    <3> QED
      BY <3>1, <3>2
  <2>7. UnwindRoot(a)
    BY <2>4, <2>5, <2>6
  <2>8. NeedsCleanup(a)
    BY <2>7 DEF UnwindRoot
  <2>9. result'[a].code = "output_root_cleanup_failed"
    <3> DEFINE R == [success |-> FALSE, released |-> result[a].released,
                     code |-> "output_root_cleanup_failed"]
    <3>1. result' = [result EXCEPT ![a] = R]
      BY <2>7 DEF UnwindRoot
    <3>2. result'[a] = R
      BY <2>1, <3>1
    <3>3. R.code = "output_root_cleanup_failed"
      OBVIOUS
    <3> HIDE DEF R
    <3> QED
      BY <3>2, <3>3
  <2> QED
    BY <2>8, <2>9 DEF NeedsCleanup
<1>2. IInv /\ [Next]_vars => \A a \in Action : Kept(a)
  BY <1>1
<1> QED
  BY <1>2, EvaluationInvariant, PTL DEF Spec, FirstCodeKept
=============================================================================
