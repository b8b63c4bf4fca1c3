--------------------------- MODULE ReservationStore ---------------------------
(***************************************************************************)
(* The process-safe, file-backed GPU reservation store of                   *)
(* pkg/gpu/reservation.go.  Several callers (goroutines of one process or    *)
(* of several processes) run Reserve, Release and Active against one store   *)
(* file.  Every call serialises itself with an flock on Path+".lock", reads  *)
(* the whole file, drops the records its own reading of the clock finds      *)
(* expired, decides, and replaces the file with a temp-file-and-rename.      *)
(*                                                                         *)
(* A caller may die between any two steps: the kernel then drops its flock,  *)
(* its unrenamed temp file is never read, and what it renamed stays.         *)
(***************************************************************************)
EXTENDS Naturals

CONSTANTS
    Proc,       \* callers of the store, each with at most one call in flight
    GPU,        \* GPU UUIDs
    Owner,      \* owner strings
    Token,      \* 32-byte random ownership tokens
    Ttl,        \* the positive expiry durations callers ask for
    MaxTime,    \* bound on the clock
    NoRecord,   \* "this UUID is not a key of the reservations map"
    NoToken,    \* a Reserve that has not drawn its token yet
    NoRequest,  \* no call in flight
    NoProc      \* nobody holds the flock

Record == [token : Token, owner : Owner, expires : Nat]
Table  == [GPU -> Record \cup {NoRecord}]
Holding == [gpu : GPU, record : Record]

Request == [op : {"reserve", "release", "active"}, uuids : SUBSET GPU,
            owner : Owner, ttl : Nat, token : Token \cup {NoToken}]

ASSUME ConstantsAssumption ==
    /\ Owner # {}
    /\ Ttl \subseteq Nat \ {0}
    /\ MaxTime \in Nat
    /\ NoRecord \notin Record
    /\ NoToken \notin Token
    /\ NoProc \notin Proc
    /\ NoRequest \notin Request

VARIABLES
    clock,      \* what store.now() returns
    file,       \* the reservations map that store.Path holds
    lock,       \* holder of the flock on store.Path + ".lock"
    pc,         \* where each caller is in its call
    req,        \* the arguments of the call in flight
    st,         \* the call's in-memory reservationState
    now,        \* the clock value the call read
    done,       \* whether the call's context is cancelled or past its deadline
    ret         \* whether the call is about to return nil or an error

\* What callers have learned; no step of the code reads these.
VARIABLES
    used,       \* tokens drawn so far
    known,      \* tokens some caller knows: from its lease or from Active
    held        \* what holders may rely on: one entry per GPU of each lease that
                \* Reserve returned, until it expires or a Release removes it

calls  == <<pc, req, st, now, done, ret>>
ghosts == <<used, known, held>>
vars   == <<clock, file, lock, calls, ghosts>>

(***************************************************************************)
(* Types.                                                                  *)
(***************************************************************************)
\* Between store.lock and the deferred unlockReservationFile.
Critical == {"read", "check", "write", "commit", "unlock"}

Label == {"idle", "lock", "wait"} \cup Critical

TypeOK ==
    /\ clock \in Nat
    /\ file \in Table
    /\ lock \in Proc \cup {NoProc}
    /\ pc \in [Proc -> Label]
    /\ req \in [Proc -> Request \cup {NoRequest}]
    /\ st \in [Proc -> Table]
    /\ now \in [Proc -> Nat]
    /\ done \in [Proc -> BOOLEAN]
    /\ ret \in [Proc -> {"ok", "error"}]
    /\ used \subseteq Token
    /\ known \subseteq Token
    /\ held \subseteq Holding

(***************************************************************************)
(* State functions.                                                        *)
(***************************************************************************)
EmptyTable == [g \in GPU |-> NoRecord]

\* (Some definitions are preceded by a variant that a slip in the code would give;
\* PROJECT.json pairs each with the property that tells the two apart.)

\* A record counts until the instant it expires: !ExpiresAt.After(now) drops it.
ExpiresEarly(record, t) == record # NoRecord /\ record.expires > t + 1
Unexpired(record, t) == record # NoRecord /\ record.expires > t

RemoveExpired(table, t) ==
    [g \in GPU |-> IF Unexpired(table[g], t) THEN table[g] ELSE NoRecord]

OverwriteFile(table, uuids, record) ==
    [g \in GPU |-> IF g \in uuids THEN record ELSE NoRecord]
AddFirstOnly(table, uuids, record) ==
    [g \in GPU |-> IF g = CHOOSE h \in uuids : TRUE THEN record ELSE table[g]]
AddRecords(table, uuids, record) ==
    [g \in GPU |-> IF g \in uuids THEN record ELSE table[g]]

DeleteRecords(table, uuids) ==
    [g \in GPU |-> IF g \in uuids THEN NoRecord ELSE table[g]]

SameOwnerString(record, r) == record.owner = r.owner
Owns(record, r) == record.token = r.token /\ record.owner = r.owner

\* The requested GPUs the in-memory state already has a record for.
AllReserved(table, uuids) ==
    IF \A g \in uuids : table[g] # NoRecord THEN uuids ELSE {}
Conflicts(table, uuids) == {g \in uuids : table[g] # NoRecord}

\* randomToken: 32 random bytes, so a token nobody has drawn before.
IgnoresRandError == Token \cup {NoToken}
FreshTokens == Token \ used

Tokens(table) == {table[g].token : g \in {h \in GPU : table[h] # NoRecord}}

(***************************************************************************)
(* Initial state: no store file, which readState takes for an empty one.    *)
(***************************************************************************)
Init ==
    /\ clock = 0
    /\ file = EmptyTable
    /\ lock = NoProc
    /\ pc = [p \in Proc |-> "idle"]
    /\ req = [p \in Proc |-> NoRequest]
    /\ st = [p \in Proc |-> EmptyTable]
    /\ now = [p \in Proc |-> 0]
    /\ done = [p \in Proc |-> FALSE]
    /\ ret = [p \in Proc |-> "ok"]
    /\ used = {}
    /\ known = {}
    /\ held = {}

(***************************************************************************)
(* Entering a call.  The guards are the argument checks; a call that fails  *)
(* them returns its error before it touches the store.                     *)
(***************************************************************************)
Enter(p, r) ==
    /\ pc[p] = "idle"
    /\ pc' = [pc EXCEPT ![p] = "lock"]
    /\ req' = [req EXCEPT ![p] = r]
    /\ UNCHANGED <<clock, file, lock, st, now, done, ret, ghosts>>

Reserve(p, uuids, owner, ttl) ==
    /\ uuids # {}
    /\ Enter(p, [op |-> "reserve", uuids |-> uuids, owner |-> owner,
                 ttl |-> ttl, token |-> NoToken])

\* A lease is a plain value: a caller may hand back what Reserve returned, the
\* one-GPU leases Active listed, or any other complete combination.
Release(p, token, owner, uuids) ==
    /\ token \in known
    /\ uuids # {}
    /\ Enter(p, [op |-> "release", uuids |-> uuids, owner |-> owner,
                 ttl |-> 0, token |-> token])

\* Active takes no arguments; the request's other fields are not read.
Active(p) ==
    Enter(p, [op |-> "active", uuids |-> {}, owner |-> CHOOSE o \in Owner : TRUE,
              ttl |-> 0, token |-> NoToken])

(***************************************************************************)
(* Leaving a call without the lock, and giving up inside it.               *)
(***************************************************************************)
Clear(p) ==
    /\ pc' = [pc EXCEPT ![p] = "idle"]
    /\ req' = [req EXCEPT ![p] = NoRequest]
    /\ st' = [st EXCEPT ![p] = EmptyTable]
    /\ now' = [now EXCEPT ![p] = 0]
    /\ done' = [done EXCEPT ![p] = FALSE]
    /\ ret' = [ret EXCEPT ![p] = "ok"]

\* An error return inside the critical section: only the deferred unlock is left.
ReturnsWithoutUnlock(p) == Clear(p) /\ UNCHANGED <<clock, file, lock, ghosts>>
Fail(p) ==
    /\ pc' = [pc EXCEPT ![p] = "unlock"]
    /\ ret' = [ret EXCEPT ![p] = "error"]
    /\ UNCHANGED <<clock, file, lock, req, st, now, done, ghosts>>

(***************************************************************************)
(* store.lock: try the flock; if it is contended, sleep on a timer or the   *)
(* context.  The context is consulted only after a failed attempt.         *)
(***************************************************************************)
TryLock(p) ==
    /\ pc[p] = "lock"
    /\ \/ /\ lock = NoProc
          /\ lock' = p
          /\ pc' = [pc EXCEPT ![p] = "read"]
          /\ done' = [done EXCEPT ![p] = FALSE]   \* not consulted any more
       \/ /\ lock # NoProc
          /\ pc' = [pc EXCEPT ![p] = "wait"]
          /\ UNCHANGED <<lock, done>>
    /\ UNCHANGED <<clock, file, req, st, now, ret, ghosts>>

\* MkdirAll, OpenFile or the flock call itself fails.
LockFails(p) ==
    /\ pc[p] = "lock"
    /\ Clear(p)
    /\ UNCHANGED <<clock, file, lock, ghosts>>

Wake(p) ==
    /\ pc[p] = "wait"
    /\ ~done[p]
    /\ pc' = [pc EXCEPT ![p] = "lock"]
    /\ UNCHANGED <<clock, file, lock, req, st, now, done, ret, ghosts>>

IgnoresContext(p) ==
    /\ pc[p] = "wait"
    /\ pc' = [pc EXCEPT ![p] = "lock"]
    /\ UNCHANGED <<clock, file, lock, req, st, now, done, ret, ghosts>>
Cancel(p) ==
    /\ pc[p] = "wait"
    /\ done[p]
    /\ Clear(p)
    /\ UNCHANGED <<clock, file, lock, ghosts>>

\* The caller's context ends while its call waits for the lock.  Past the lock
\* no step of the store looks at it.
CtxDone(p) ==
    /\ pc[p] \in {"lock", "wait"}
    /\ ~done[p]
    /\ done' = [done EXCEPT ![p] = TRUE]
    /\ UNCHANGED <<clock, file, lock, pc, req, st, now, ret, ghosts>>

(***************************************************************************)
(* readState, then store.now() and the decision.                           *)
(***************************************************************************)
ReadState(p) ==
    /\ pc[p] = "read"
    /\ st' = [st EXCEPT ![p] = file]
    /\ pc' = [pc EXCEPT ![p] = "check"]
    /\ UNCHANGED <<clock, file, lock, req, now, done, ret, ghosts>>

\* An I/O error, or a file that is not a version 1 store.
ReadFails(p) ==
    /\ pc[p] = "read"
    /\ Fail(p)

CheckReserve(p) ==
    /\ pc[p] = "check"
    /\ req[p].op = "reserve"
    /\ LET live == RemoveExpired(st[p], clock)
       IN \/ /\ Conflicts(live, req[p].uuids) # {}
             /\ Fail(p)
          \/ /\ Conflicts(live, req[p].uuids) = {}
             /\ \E t \in FreshTokens :
                   /\ used' = used \cup {t}
                   /\ req' = [req EXCEPT ![p].token = t]
                   /\ st' = [st EXCEPT ![p] =
                        AddRecords(live, req[p].uuids,
                            [token |-> t, owner |-> req[p].owner,
                             expires |-> clock + req[p].ttl])]
             /\ now' = [now EXCEPT ![p] = clock]
             /\ pc' = [pc EXCEPT ![p] = "write"]
             /\ UNCHANGED <<clock, file, lock, done, ret, known, held>>

\* rand.Read fails.
RandomTokenFails(p) ==
    /\ pc[p] = "check"
    /\ req[p].op = "reserve"
    /\ Conflicts(RemoveExpired(st[p], clock), req[p].uuids) = {}
    /\ Fail(p)

CheckRelease(p) ==
    /\ pc[p] = "check"
    /\ req[p].op = "release"
    /\ LET live    == RemoveExpired(st[p], clock)
           foreign == {g \in req[p].uuids : live[g] # NoRecord /\ ~Owns(live[g], req[p])}
       IN \/ /\ foreign # {}
             /\ Fail(p)
          \/ /\ foreign = {}
             /\ st' = [st EXCEPT ![p] = DeleteRecords(live, req[p].uuids)]
             /\ now' = [now EXCEPT ![p] = clock]
             /\ pc' = [pc EXCEPT ![p] = "write"]
             /\ UNCHANGED <<clock, file, lock, req, done, ret, ghosts>>

CheckActive(p) ==
    /\ pc[p] = "check"
    /\ req[p].op = "active"
    /\ st' = [st EXCEPT ![p] = RemoveExpired(st[p], clock)]
    /\ now' = [now EXCEPT ![p] = clock]
    /\ pc' = [pc EXCEPT ![p] = "unlock"]
    /\ UNCHANGED <<clock, file, lock, req, done, ret, ghosts>>

(***************************************************************************)
(* writeState: fill and sync a temp file nobody reads, then rename it over  *)
(* store.Path.  A failure of either half leaves the old file in place.      *)
(***************************************************************************)
WriteTemp(p) ==
    /\ pc[p] = "write"
    /\ pc' = [pc EXCEPT ![p] = "commit"]
    /\ UNCHANGED <<clock, file, lock, req, st, now, done, ret, ghosts>>

WriteFails(p) ==
    /\ pc[p] \in {"write", "commit"}
    /\ Fail(p)

Commit(p) ==
    /\ pc[p] = "commit"
    /\ file' = st[p]
    /\ pc' = [pc EXCEPT ![p] = "unlock"]
    /\ held' = IF req[p].op = "release"
                THEN {h \in held : h.gpu \notin req[p].uuids \/ h.record.token # req[p].token}
                ELSE held
    /\ UNCHANGED <<clock, lock, req, st, now, done, ret, used, known>>

\* The record Reserve put on every requested GPU, as the lease it returns has it.
LeaseRecord(p) ==
    [token |-> req[p].token, owner |-> req[p].owner, expires |-> now[p] + req[p].ttl]

\* The deferred unlockReservationFile and the return to the caller.
Unlock(p) ==
    /\ pc[p] = "unlock"
    /\ lock' = NoProc
    /\ \/ /\ ret[p] = "ok" /\ req[p].op = "reserve"
          /\ held' = IF LeaseRecord(p).expires > clock
                     THEN held \cup {[gpu |-> g, record |-> LeaseRecord(p)] : g \in req[p].uuids}
                     ELSE held
          /\ known' = known \cup {req[p].token}
       \/ /\ ret[p] = "ok" /\ req[p].op = "active"
          /\ known' = known \cup Tokens(st[p])
          /\ held' = held
       \/ /\ ret[p] = "error" \/ req[p].op = "release"
          /\ UNCHANGED <<known, held>>
    /\ Clear(p)
    /\ UNCHANGED <<clock, file, used>>

(***************************************************************************)
(* The environment: the caller's process dies, time passes.                *)
(***************************************************************************)
Crash(p) ==
    /\ pc[p] # "idle"
    /\ lock' = IF lock = p THEN NoProc ELSE lock
    /\ Clear(p)
    /\ UNCHANGED <<clock, file, ghosts>>

Tick ==
    /\ clock < MaxTime
    /\ clock' = clock + 1
    /\ held' = {h \in held : h.record.expires > clock'}
    /\ UNCHANGED <<file, lock, calls, used, known>>

\* The steps a running caller takes by itself once its call has begun.
Step(p) ==
    \/ TryLock(p) \/ LockFails(p) \/ Wake(p) \/ Cancel(p)
    \/ ReadState(p) \/ ReadFails(p)
    \/ CheckReserve(p) \/ RandomTokenFails(p) \/ CheckRelease(p) \/ CheckActive(p)
    \/ WriteTemp(p) \/ WriteFails(p) \/ Commit(p) \/ Unlock(p)

Call(p) ==
    \/ \E uuids \in SUBSET GPU, owner \in Owner, ttl \in Ttl : Reserve(p, uuids, owner, ttl)
    \/ \E uuids \in SUBSET GPU, owner \in Owner, token \in Token : Release(p, token, owner, uuids)
    \/ Active(p)

Next ==
    \/ \E p \in Proc : Call(p) \/ Step(p) \/ CtxDone(p) \/ Crash(p)
    \/ Tick

Spec == Init /\ [][Next]_vars

\* A call's steps run on their own, and contexts have deadlines: evaluation.go
\* releases under a five-second context.  Nothing obliges a caller to call, to
\* crash or to survive, and time need not pass.
FairSpec ==
    /\ Spec
    /\ \A p \in Proc : WF_vars(Step(p)) /\ WF_vars(CtxDone(p))

(***************************************************************************)
(* Properties.                                                             *)
(***************************************************************************)

\* No GPU is leased to two holders at once, whatever interleaving, expiry, crash
\* or failed write led here: the reason Reserve takes the lock before it reads
\* and stamps the lease with the clock it compared against.
ExclusiveLease == \A h1, h2 \in held : h1.gpu = h2.gpu => h1 = h2

\* What Reserve returned stays in the store file, record for record, until it
\* expires or is released: no other caller's read-modify-write loses it.
LeaseOnDisk == \A h \in held : file[h.gpu] = h.record

HeldBy(table, t) == {g \in GPU : table[g] # NoRecord /\ table[g].token = t}

\* "Reserve atomically reserves every UUID or none of them": in the file a token
\* appears on the whole requested set in one step and from then on only loses
\* GPUs, also when the reserving process dies half way through writeState.
AllOrNothing ==
    [][\A t \in Token :
          \/ HeldBy(file', t) \subseteq HeldBy(file, t)
          \/ /\ HeldBy(file, t) = {}
             /\ \E p \in Proc : req[p] # NoRequest /\ req[p].token = t
                                /\ HeldBy(file', t) = req[p].uuids]_vars

\* "Release removes only reservations owned by the supplied unexpired token": a
\* record that has not expired leaves the file only through a Release that names
\* that GPU and carries the record's token and owner.
OnlyOwnerFrees ==
    [][\A g \in GPU :
          file[g] # NoRecord /\ file[g].expires > clock /\ file'[g] # file[g] =>
              \E p \in Proc : /\ pc[p] = "commit" /\ req[p].op = "release"
                              /\ g \in req[p].uuids
                              /\ file[g].token = req[p].token
                              /\ file[g].owner = req[p].owner]_vars

\* Every call returns (or its process dies), however contended the lock is: the
\* wait loop gives up when the context ends.
CallReturns == \A p \in Proc : pc[p] # "idle" ~> pc[p] = "idle"

\* No return path and no crash leaves the flock held.
LockFreed == lock # NoProc ~> lock = NoProc

\* Both of the above: whatever happens on the way, a call of Reserve, Release or
\* Active comes back and the next caller can have the lock.
CallsEnd == CallReturns /\ LockFreed

(***************************************************************************)
(* Refinement.                                                             *)
(***************************************************************************)

\* The leases the file holds at this instant.
LiveTable ==
    [g \in GPU |-> IF file[g] # NoRecord /\ file[g].expires > clock
                   THEN file[g] ELSE NoRecord]

Leases == INSTANCE LeaseTable WITH table <- LiveTable

\* Seen through its file and the clock, the store is an atomic table of leases:
\* locking, stale clock readings, expired records still in the file, failed
\* writes and crashes are invisible.
ImplementsLeaseTable == Leases!Spec
===============================================================================
