--------------------------- MODULE ContainerDeploy ---------------------------
(***************************************************************************)
(* Deployments onto a container engine through its command line.            *)
(*                                                                          *)
(* A job is one Deploy of pkg/orchestrate/sandbox_dispatcher.go over an     *)
(* adapter: "podman" (internal/adapters/podman) or "native" (the Apple and  *)
(* WSL dialects of internal/adapters/containers).  The run is one           *)
(* Execute of pkg/orchestrate/service_lifecycle.go, which starts services   *)
(* with podman and rolls back; its caller may try the same run id again.    *)
(* Other clients of the same engine list, stop and delete.                  *)
(*                                                                          *)
(* The engine is external.  Every command is one step: it does its work and *)
(* answers, does it and the answer is lost (the client was killed by its    *)
(* context or deadline, or wrote too much), or fails.  A container has an   *)
(* id of its own and a name that must be free when it is created.  The      *)
(* engine may hang for good: then a command ends only when its context or   *)
(* deadline kills it.                                                       *)
(***************************************************************************)
EXTENDS Integers, FiniteSets, Sequences, Functions

CONSTANTS
    Job,         \* deployments
    Configs,     \* their configurations [name, valid]
    Plans,       \* sequences of intents [phase, service, known]
    Casts,       \* who takes part: subsets of Job with "run", "lister"
    MaxAttempts, \* times the run is tried
    MaxMeddle    \* stops and deletes by other clients

ASSUME ConstantsAssumption ==
    /\ "run" \notin Job
    /\ \A p \in Plans : p \in Seq(Range(p))
    /\ MaxAttempts \in Nat /\ MaxMeddle \in Nat

VARIABLES
    cast, kind, shape, cfg, plan,  \* fixed
    boxes,     \* the engine's containers: id -> [name, owner, state]
    next,      \* the next id
    stuck,     \* the engine hangs
    meddled,   \* stops and deletes so far
    ctx,       \* the context of each job and of the run
    pc,        \* where each Deploy is
    ref,       \* what Create asks inspect for: an id, 0 for the name
    mine,      \* sandbox.ID of each Deploy: an id, 0 for none or for the name
    reported,  \* the status each Deploy returns
    fault,     \* what a Deploy or the run could not know or undo
    phase, at, \* where Execute is
    created,   \* its local list of container ids
    attempt,
    listing    \* a List: where it is, ids to inspect, inspected, first id not asked for

fixed == <<cast, kind, shape, cfg, plan>>
engine == <<boxes, next, stuck, meddled>>
deploys == <<pc, ref, mine, reported>>
run == <<phase, at, created, attempt>>
vars == <<fixed, engine, ctx, deploys, fault, run, listing>>

Actor == Job \cup {"run"}

Init ==
    /\ cast \in Casts
    /\ kind \in IF "run" \in cast THEN {"podman"} ELSE {"podman", "native"}
    /\ shape \in IF kind = "native" THEN {"status", "state", "object"} ELSE {"state"}
    /\ cfg \in [cast \cap Job -> Configs]
    /\ plan \in IF "run" \in cast THEN Plans ELSE {<<>>}
    /\ boxes = <<>> /\ next = 1
    /\ stuck = FALSE /\ meddled = 0
    /\ ctx = [c \in Actor |-> "live"]
    /\ pc = [j \in Job |-> "idle"]
    /\ ref = [j \in Job |-> 0]
    /\ mine = [j \in Job |-> 0]
    /\ reported = [j \in Job |-> "none"]
    /\ fault = [c \in Actor |-> {}]
    /\ phase = "idle" /\ at = 0 /\ created = <<>> /\ attempt = 1
    /\ listing = [at |-> "idle", todo |-> {}, got |-> {}, since |-> 0]
-----------------------------------------------------------------------------
(***************************************************************************)
(* The engine, and how a command of actor c comes back.  Only the clean-up  *)
(* of a job runs without the job's context; only the native adapter and     *)
(* the run's command runner set a deadline of their own.                    *)
(***************************************************************************)
Cleaning(c) == c \in Job /\ pc[c] = "cleanup"

Ok(c) == ~stuck /\ (ctx[c] = "live" \/ Cleaning(c))

NoDeadline(c) == stuck => ctx[c] = "ended" /\ ~Cleaning(c)

Fails(c) ==
    stuck => kind = "native" \/ c = "run" \/ (ctx[c] = "ended" /\ ~Cleaning(c))

Free(name) == \A b \in DOMAIN boxes : boxes[b].name # name

AddBox(name, owner, state) ==
    /\ boxes' = [b \in DOMAIN boxes \cup {next} |->
                    IF b = next THEN [name |-> name, owner |-> owner, state |-> state]
                    ELSE boxes[b]]
    /\ next' = next + 1

SetState(b, state) == boxes' = [boxes EXCEPT ![b].state = state]

Remove(gone) == boxes' = Restrict(boxes, DOMAIN boxes \ gone)

Keep == UNCHANGED <<fixed, stuck, meddled, listing>>
-----------------------------------------------------------------------------
(***************************************************************************)
(* What inspect prints, and the status the adapters read out of it.         *)
(***************************************************************************)
Inspect(state) ==
    LET raw(s, o, n) == [status |-> s, state |-> o, object |-> n]
    IN  CASE shape = "status" -> raw(state, "absent", "absent")
          [] shape = "state"  -> raw("", state, "absent")
          [] shape = "object" -> raw("", "absent", state)

CreatedIsRunning(word) ==
    IF word \in {"running", "created", "configured", "initialized"} THEN "running" ELSE "stopped"

RawStatus(word) == word

sandboxStatus(word) ==
    CASE word = "running" -> "running"
      [] word \in {"created", "configured", "initialized"} -> "pending"
      [] word = "pending" /\ kind = "native" -> "pending"
      [] OTHER -> "stopped"

decodeSandbox(raw) ==
    LET word == IF raw.state # "absent" THEN raw.state ELSE raw.status
    IN  IF raw.object \notin {"absent", ""} THEN sandboxStatus(raw.object) ELSE sandboxStatus(word)

Status(b) == decodeSandbox(Inspect(boxes[b].state))
-----------------------------------------------------------------------------
(***************************************************************************)
(* Deploy.                                                                  *)
(***************************************************************************)
To(j, q) == pc' = [pc EXCEPT ![j] = q]

Fail(j, what) == To(j, "failed") /\ fault' = [fault EXCEPT ![j] = @ \cup what]

\* A create command that succeeds and prints nothing: native then goes by name.
Identified(out) == out = "id" \/ (out = "nothing" /\ kind = "native")

\* Adapter.Create up to the create command: the configuration, the probe, the
\* arguments.  A silent engine is an error to podman and "the name" to native.
Create(j) ==
    /\ pc[j] = "idle"
    /\ \/ /\ Ok(j) /\ cfg[j].valid /\ Free(cfg[j].name)
          /\ AddBox(cfg[j].name, <<j, 1>>, "created")
          /\ \E out \in {"id", "nothing", "lost"} :
                IF Identified(out)
                THEN /\ To(j, "inspect") /\ UNCHANGED fault
                     /\ ref' = [ref EXCEPT ![j] = IF out = "id" THEN next ELSE 0]
                ELSE Fail(j, {"blind"}) /\ UNCHANGED ref
       \/ /\ Fails(j)
          /\ Fail(j, {})
          /\ UNCHANGED <<boxes, next, ref>>
    /\ UNCHANGED <<ctx, mine, reported>>

\* The container a command means that is given sandbox.ID.
Target(j) ==
    {b \in DOMAIN boxes : IF mine[j] = 0 THEN boxes[b].name = cfg[j].name ELSE b = mine[j]}

\* Create ends with Get: its error is Create's, and the container is forgotten.
\* Native takes the name for the id if inspect prints none.
CreateGet(j) ==
    /\ pc[j] = "inspect"
    /\ \/ /\ Ok(j)
          /\ \E b \in DOMAIN boxes :
                /\ IF ref[j] = 0 THEN boxes[b].name = cfg[j].name ELSE b = ref[j]
                /\ \E id \in IF kind = "native" THEN {b, 0} ELSE {b} :
                      mine' = [mine EXCEPT ![j] = id]
          /\ To(j, IF kind = "native" THEN "check" ELSE "start")
          /\ UNCHANGED fault
       \/ /\ Fails(j)
          /\ Fail(j, {"blind"})
          /\ UNCHANGED mine
    /\ UNCHANGED <<boxes, next, ctx, ref, reported>>

\* Adapter.Start of native looks first.
StartGet(j) ==
    /\ pc[j] = "check"
    /\ \/ /\ Ok(j)
          /\ \E b \in Target(j) : To(j, IF Status(b) = "running" THEN "refresh" ELSE "start")
       \/ Fails(j) /\ To(j, "cleanup")
    /\ UNCHANGED <<boxes, next, ctx, ref, mine, reported, fault>>

StartRun(j) ==
    /\ pc[j] = "start"
    /\ \/ /\ Ok(j)
          /\ \E b \in Target(j) : SetState(b, "running")
          /\ \E q \in {"cleanup", IF kind = "native" THEN "refresh" ELSE "verify"} : To(j, q)
       \/ Fails(j) /\ To(j, "cleanup") /\ UNCHANGED boxes
    /\ UNCHANGED <<next, ctx, ref, mine, reported, fault>>

\* Adapter.Start of podman looks afterwards.
StartInspect(j) ==
    /\ pc[j] = "verify"
    /\ \/ Ok(j) /\ Target(j) # {} /\ To(j, "refresh")
       \/ Fails(j) /\ To(j, "cleanup")
    /\ UNCHANGED <<boxes, next, ctx, ref, mine, reported, fault>>

CleanupUnderContext(j) ==
    /\ pc[j] = "cleanup"
    /\ IF ctx[j] = "live"
       THEN ~stuck /\ Remove(Target(j)) /\ Fail(j, {})
       ELSE UNCHANGED boxes /\ Fail(j, {})
    /\ UNCHANGED <<next, ctx, ref, mine, reported>>

\* Start failed: Adapter.Delete, without the context.
Cleanup(j) ==
    /\ pc[j] = "cleanup"
    /\ \/ Ok(j) /\ Remove(Target(j)) /\ Fail(j, {})
       \/ Fails(j) /\ UNCHANGED boxes /\ Fail(j, {"refused"})
    /\ UNCHANGED <<next, ctx, ref, mine, reported>>

Refresh(j) ==
    /\ pc[j] = "refresh"
    /\ To(j, "done")
    /\ \/ /\ Ok(j)
          /\ \E b \in Target(j) : reported' = [reported EXCEPT ![j] = Status(b)]
       \/ Fails(j) /\ reported' = [reported EXCEPT ![j] = "running"]
    /\ UNCHANGED <<boxes, next, ctx, ref, mine, fault>>

Deploy(j) ==
    /\ j \in cast
    /\ \/ Create(j) \/ CreateGet(j) \/ StartGet(j) \/ StartRun(j)
       \/ StartInspect(j) \/ Cleanup(j) \/ Refresh(j)
    /\ Keep /\ UNCHANGED run
-----------------------------------------------------------------------------
(***************************************************************************)
(* Execute, of the run number `attempt`.                                    *)
(***************************************************************************)
Self == <<"run", attempt>>

\* The request is validated and `podman info` asked.
Begin ==
    /\ phase = "idle"
    /\ \/ Ok("run") /\ phase' = "spawn" /\ at' = 1
       \/ Fails("run") /\ phase' = "failed" /\ UNCHANGED at
    /\ UNCHANGED <<boxes, next, created, fault>>

RollBack(what) ==
    /\ phase' = "rollback"
    /\ at' = Len(created)
    /\ fault' = [fault EXCEPT !["run"] = @ \cup what]
    /\ UNCHANGED created

\* `podman run --detach`.  A container that could not be started stays behind.
Spawn(service) ==
    \/ /\ Ok("run") /\ Free(service)
       /\ \E out \in {"id", "nothing", "lost", "unstarted"} :
             /\ AddBox(service, Self, IF out = "unstarted" THEN "created" ELSE "running")
             /\ IF out = "id"
                THEN /\ created' = Append(created, next)
                     /\ at' = at + 1 /\ UNCHANGED <<phase, fault>>
                ELSE RollBack({"blind"})
    \/ Fails("run") /\ RollBack({}) /\ UNCHANGED <<boxes, next>>

SkipUnknown(i) ==
    \/ i.phase = "create" /\ i.known /\ Spawn(i.service)
    \/ /\ i.phase # "create" \/ ~i.known
       /\ at' = at + 1 /\ UNCHANGED <<boxes, next, phase, created, fault>>

\* Other phases are passed over; an unknown service, or one without an image,
\* is found out only when its turn comes.
Intent(i) ==
    \/ i.phase = "create" /\ i.known /\ Spawn(i.service)
    \/ i.phase = "create" /\ ~i.known /\ RollBack({}) /\ UNCHANGED <<boxes, next>>
    \/ /\ i.phase # "create"
       /\ at' = at + 1 /\ UNCHANGED <<boxes, next, phase, created, fault>>

Step ==
    /\ phase = "spawn"
    /\ IF at <= Len(plan) THEN Intent(plan[at])
       ELSE phase' = "ok" /\ UNCHANGED <<boxes, next, at, created, fault>>

SparesFirst ==
    /\ phase = "rollback"
    /\ IF at <= 1 THEN phase' = "failed" /\ UNCHANGED <<boxes, at, fault>>
       ELSE /\ at' = at - 1 /\ UNCHANGED <<phase, fault>>
            /\ IF created[at] \in DOMAIN boxes THEN SetState(created[at], "exited") ELSE UNCHANGED boxes
    /\ UNCHANGED <<next, created>>

\* Also stops whatever has the name of the service that failed.
StopsByName ==
    /\ phase = "rollback"
    /\ \E b \in DOMAIN boxes, i \in DOMAIN plan :
          boxes[b].name = plan[i].service /\ SetState(b, "exited")
    /\ phase' = "failed"
    /\ UNCHANGED <<next, at, created, fault>>

\* `podman stop` under the run's own context; errors are dropped.
rollback ==
    /\ phase = "rollback"
    /\ IF at = 0 THEN phase' = "failed" /\ UNCHANGED <<boxes, at, fault>>
       ELSE /\ at' = at - 1 /\ UNCHANGED phase
            /\ \/ /\ Ok("run") /\ created[at] \in DOMAIN boxes /\ UNCHANGED fault
                  /\ \/ boxes[created[at]].state = "running" /\ SetState(created[at], "exited")
                     \/ boxes[created[at]].state # "running" /\ UNCHANGED boxes
               \/ /\ Fails("run") /\ UNCHANGED boxes
                  /\ fault' = [fault EXCEPT !["run"] = @ \cup {"refused"}]
    /\ UNCHANGED <<next, created>>

Execute ==
    /\ "run" \in cast
    /\ Begin \/ Step \/ rollback
    /\ Keep /\ UNCHANGED <<ctx, deploys, attempt>>

\* The caller of a failed Execute tries again.
Retry ==
    /\ phase = "failed" /\ attempt < MaxAttempts
    /\ attempt' = attempt + 1
    /\ phase' = "idle" /\ at' = 0 /\ created' = <<>>
    /\ ctx' = [ctx EXCEPT !["run"] = "live"]
    /\ fault' = [fault EXCEPT !["run"] = {}]
    /\ Keep /\ UNCHANGED <<boxes, next, deploys>>
-----------------------------------------------------------------------------
(***************************************************************************)
(* Other clients, the containers themselves, and the clock.                 *)
(***************************************************************************)
Others == UNCHANGED <<fixed, next, stuck, deploys, fault, run>>

\* Adapter.Stop and Adapter.Delete of somebody who lists the containers.
Meddle(b) ==
    /\ meddled < MaxMeddle /\ ~stuck
    /\ meddled' = meddled + 1
    /\ \/ boxes[b].state = "running" /\ SetState(b, "exited")
       \/ Remove({b})
    /\ Others /\ UNCHANGED <<ctx, listing>>

BoxEnds(b) ==
    /\ boxes[b].state = "running"
    /\ SetState(b, "exited")
    /\ Others /\ UNCHANGED <<meddled, ctx, listing>>

CtxEnds(c) ==
    /\ c \in cast \cap Actor
    /\ ctx[c] = "live"
    /\ IF c = "run" THEN phase \in {"spawn", "rollback"} ELSE pc[c] \notin {"done", "failed"}
    /\ ctx' = [ctx EXCEPT ![c] = "ended"]
    /\ Others /\ UNCHANGED <<boxes, meddled, listing>>

Hang ==
    /\ ~stuck /\ stuck' = TRUE
    /\ UNCHANGED <<fixed, boxes, next, meddled, ctx, deploys, fault, run, listing>>

RunningIds == {b \in DOMAIN boxes : boxes[b].state = "running"}

\* The list command asks for stopped containers too.
listIDs == DOMAIN boxes

\* List inspects what it was told, one by one, and fails with the first error.
List ==
    /\ "lister" \in cast
    /\ \/ /\ listing.at = "idle" /\ ~stuck
          /\ listing' = [at |-> "getting", todo |-> listIDs, got |-> {}, since |-> next]
       \/ /\ listing.at = "getting" /\ listing.todo = {}
          /\ listing' = [listing EXCEPT !.at = "done"]
       \/ /\ listing.at = "getting" /\ ~stuck
          /\ \E b \in listing.todo :
                listing' = IF b \in DOMAIN boxes
                           THEN [listing EXCEPT !.todo = @ \ {b}, !.got = @ \cup {b}]
                           ELSE [listing EXCEPT !.at = "error"]
    /\ Others /\ UNCHANGED <<boxes, meddled, ctx>>

Next ==
    \/ \E j \in Job : Deploy(j)
    \/ Execute \/ Retry
    \/ \E b \in DOMAIN boxes : Meddle(b) \/ BoxEnds(b)
    \/ \E c \in Actor : CtxEnds(c)
    \/ Hang \/ List

Fairness == WF_vars(Execute) /\ \A j \in Job : WF_vars(Deploy(j))

Spec == Init /\ [][Next]_vars /\ Fairness
-----------------------------------------------------------------------------
TypeOK ==
    /\ DOMAIN boxes \subseteq 1 .. next - 1
    /\ \A b \in DOMAIN boxes : /\ boxes[b].owner \in Actor \X (1 .. attempt)
                               /\ boxes[b].state \in {"created", "running", "exited"}
    /\ pc \in [Job -> {"idle", "inspect", "check", "start", "verify", "cleanup",
                       "refresh", "done", "failed"}]
    /\ ref \in [Job -> 0 .. next - 1] /\ mine \in [Job -> 0 .. next - 1]
    /\ reported \in [Job -> {"none", "pending", "running", "stopped"}]
    /\ fault \in [Actor -> SUBSET {"blind", "refused"}]
    /\ phase \in {"idle", "spawn", "rollback", "ok", "failed"}
    /\ Range(created) \subseteq 1 .. next - 1
    /\ listing.todo \cup listing.got \subseteq 1 .. next - 1

\* A failed Deploy leaves no container of its own behind, even when its context
\* has ended, unless it never learnt the id (the create command's answer or the
\* inspect after it was lost) or the engine refused the clean-up.
FailedLeavesNothing ==
    \A j \in Job : pc[j] = "failed" /\ fault[j] = {}
        => \A b \in DOMAIN boxes : boxes[b].owner # <<j, 1>>

\* The container behind a successful Deploy has been started: Start never takes
\* one for running that is only created.
DeployedWasStarted ==
    \A j \in Job, b \in DOMAIN boxes :
        pc[j] = "done" /\ (boxes[b].owner = <<j, 1>> \/ b = mine[j]) => boxes[b].state # "created"

\* Cleaning up, a Deploy removes only its own container and an Execute stops
\* only its own, also when names clash and when the run is tried again.  (A
\* native engine whose create or inspect command prints no id leaves only the
\* name, which may by then be somebody else's.)
OnlyOwnTouched ==
    [][\A b \in DOMAIN boxes :
          (b \notin DOMAIN boxes' \/ boxes'[b] # boxes[b]) =>
              /\ \A j \in Job : pc[j] = "cleanup" /\ pc'[j] = "failed" /\ ref[j] # 0 /\ mine[j] # 0
                    => boxes[b].owner = <<j, 1>>
              /\ phase = "rollback" /\ <<phase, at>>' # <<phase, at>>
                    => boxes[b].owner = Self]_vars

\* When Execute has failed and every stop was answered, nothing it started is
\* running any more, except the one service whose run command's answer was lost.
RollbackStops ==
    phase = "failed" /\ "refused" \notin fault["run"] =>
        LET up == {b \in DOMAIN boxes : boxes[b].owner = Self /\ boxes[b].state = "running"}
        IN  Cardinality(up) <= Cardinality(fault["run"]) /\ up \cap Range(created) = {}

\* A successful Execute has made one container for every create intent of the
\* plan, in order, each under its service's name; turn is the intent behind each.
SuccessIsComplete ==
    phase = "ok" =>
        \E turn \in [DOMAIN created -> DOMAIN plan] :
            /\ \A i, k \in DOMAIN created : i < k => turn[i] < turn[k]
            /\ Range(turn) = {k \in DOMAIN plan : plan[k].phase = "create"}
            /\ \A i \in DOMAIN created : created[i] \in DOMAIN boxes =>
                  /\ boxes[created[i]].name = plan[turn[i]].service
                  /\ boxes[created[i]].owner = Self

\* A List that succeeds shows every container that was there when it began and
\* still is, started or not.
ListSound ==
    listing.at = "done" => \A b \in DOMAIN boxes : b < listing.since => b \in listing.got

\* Deploy returns: always over the native adapter, which has a deadline, and
\* over podman once its context has ended, unless the engine hangs in the
\* clean-up, which nothing cuts short.  Execute always returns.
CallsReturn ==
    /\ \A j \in Job :
          pc[j] # "idle" /\ (kind = "native" \/ ctx[j] = "ended")
              ~> pc[j] \in {"done", "failed"} \/ (kind = "podman" /\ stuck /\ pc[j] = "cleanup")
    /\ phase = "spawn" ~> phase \in {"ok", "failed"}

\* A deployment or a run leaves the engine as its result says: nothing behind
\* after a failure, everything started after a success.
LifecycleInv ==
    TypeOK /\ FailedLeavesNothing /\ DeployedWasStarted /\ RollbackStops /\ SuccessIsComplete
=============================================================================
