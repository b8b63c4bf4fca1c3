------------------------------ MODULE AuditLog ------------------------------
(***************************************************************************)
(* The audit log of internal/api: auditMiddleware in router.go and            *)
(* AuditLogger in audit.go, a ring of the latest entries with a rotating      *)
(* JSONL file behind it.                                                    *)
(*                                                                         *)
(* A request's entry is stamped, to the second, when its handler is done and  *)
(* before Append takes the mutex, so requests may append in another order     *)
(* than they were stamped.  Append, with the rotation it ends in, and Query   *)
(* are one critical section each.                                           *)
(***************************************************************************)
EXTENDS Integers, Sequences, FiniteSets, SequencesExt

CONSTANTS
    Request,        \* requests served; each leaves one entry
    Kind,           \* values [provider, isolation] of those fields (the middleware
                    \* leaves both "")
    Capacity,       \* MaxInMemoryEntries
    MaxLines,       \* MaxJSONLLenBytes, counted in lines
    DataDir,        \* whether NewAuditLogger got a directory to write to
    MaxTime,        \* bound on the clock, in seconds
    Limits, Offsets,  \* the pages queries ask for
    Unset,            \* a query argument that was left empty
    NoEntry         \* the zero AuditEntry

ASSUME ConstantsAssumption ==
    /\ Capacity \in Nat \ {0}
    /\ MaxLines \in Nat \ {0}
    /\ DataDir \in BOOLEAN
    /\ MaxTime \in Nat
    /\ Limits \subseteq Int
    /\ Offsets \subseteq Nat

Entry == [request : Request, time : 0 .. MaxTime, kind : Kind]

ASSUME NoEntryAssumption == NoEntry \notin Entry

VARIABLES
    clock,
    stamped,        \* the entry of each request whose handler is done, NoEntry before
    buf, head, count,
    handle,         \* l.jsonlFile: "none" (nil), "open", or "closed" but still set
    lines,          \* what the file at jsonlPath holds
    archive         \* what the file rotated in each second holds

\* History.
VARIABLES
    log,            \* what this logger was given, oldest first
    written,        \* what all loggers so far were given, oldest first
    excused         \* entries a failure the code ignores kept from or took off the disk

ring == <<buf, head, count>>
disk == <<handle, lines, archive>>
vars == <<clock, stamped, ring, disk, log, written, excused>>

TypeOK ==
    /\ clock \in 0 .. MaxTime
    /\ stamped \in [Request -> Entry \cup {NoEntry}]
    /\ buf \in [0 .. Capacity - 1 -> Entry \cup {NoEntry}]
    /\ head \in 0 .. Capacity - 1
    /\ count \in 0 .. Capacity
    /\ handle \in {"none", "open", "closed"}
    /\ lines \in Seq(Entry)
    /\ archive \in [0 .. MaxTime -> Seq(Entry)]
    /\ log \in Seq(Entry)
    /\ written \in Seq(Entry)
    /\ excused \subseteq Entry

EmptyRing == [i \in 0 .. Capacity - 1 |-> NoEntry]

\* NewAuditLogger; without a directory, or if the file cannot be opened, there is
\* only the ring.
Handles == IF DataDir THEN {"none", "open"} ELSE {"none"}

Init ==
    /\ clock = 0
    /\ stamped = [r \in Request |-> NoEntry]
    /\ buf = EmptyRing /\ head = 0 /\ count = 0
    /\ handle \in Handles
    /\ lines = <<>>
    /\ archive = [t \in 0 .. MaxTime |-> <<>>]
    /\ log = <<>>
    /\ written = <<>>
    /\ excused = {}

(***************************************************************************)
(* Append.                                                                 *)
(***************************************************************************)

\* (Some definitions are preceded by a variant that a slip in the code would give;
\* PROJECT.json pairs each with the property that tells the two apart.)

CountsPast == (head + 1) % (Capacity + 1)
NextHead == (head + 1) % Capacity

AppendRing(e) ==
    /\ buf' = [buf EXCEPT ![head] = e]
    /\ head' = NextHead
    /\ count' = IF count < Capacity THEN count + 1 ELSE count

\* The file is closed, renamed and opened anew.  A failed rename is logged and the
\* old file opened again; after a failed open the closed handle stays.  A file
\* rotated in the same second before is replaced.
TruncatesOnReopen(content, lost) ==
    /\ handle' \in {"open", "closed"}
    /\ lines' = <<>>
    /\ \/ /\ excused' = excused \cup lost
          /\ UNCHANGED archive
       \/ /\ archive' = [archive EXCEPT ![clock] = content]
          /\ excused' = excused \cup lost \cup ToSet(archive[clock])
Rotate(content, lost) ==
    /\ handle' \in {"open", "closed"}
    /\ \/ /\ lines' = content
          /\ excused' = excused \cup lost
          /\ UNCHANGED archive
       \/ /\ lines' = <<>>
          /\ archive' = [archive EXCEPT ![clock] = content]
          /\ excused' = excused \cup lost \cup ToSet(archive[clock])

MaybeRotate(content, lost) ==
    \/ /\ Len(content) < MaxLines
       /\ lines' = content
       /\ excused' = excused \cup lost
       /\ UNCHANGED <<handle, archive>>
    \/ /\ Len(content) >= MaxLines
       /\ Rotate(content, lost)

\* Nothing to write to (no file, or a closed one, whose Stat fails too), or the line
\* is written, or the write fails and its error is dropped.
WriteLine(e) ==
    \/ /\ handle # "open"
       /\ excused' = excused \cup {e}
       /\ UNCHANGED disk
    \/ /\ handle = "open"
       /\ MaybeRotate(Append(lines, e), {}) \/ MaybeRotate(lines, {e})

AppendEntry(r) ==
    /\ stamped[r] # NoEntry
    /\ stamped[r] \notin ToSet(written)
    /\ AppendRing(stamped[r])
    /\ WriteLine(stamped[r])
    /\ log' = Append(log, stamped[r])
    /\ written' = Append(written, stamped[r])
    /\ UNCHANGED <<clock, stamped>>

\* auditMiddleware: next.ServeHTTP has returned, and the entry is put together.
Stamp(r, kind) ==
    /\ stamped[r] = NoEntry
    /\ stamped' = [stamped EXCEPT ![r] = [request |-> r, time |-> clock, kind |-> kind]]
    /\ UNCHANGED <<clock, ring, disk, log, written, excused>>

\* Close leaves the closed handle in place.
Close ==
    /\ handle # "none"
    /\ handle' = "closed"
    /\ UNCHANGED <<clock, stamped, ring, lines, archive, log, written, excused>>

\* The daemon ends and a new one opens the same file for appending; what was
\* stamped and not appended is gone.
Restart ==
    /\ stamped' = [r \in Request |-> IF stamped[r] \in ToSet(written) THEN stamped[r] ELSE NoEntry]
    /\ buf' = EmptyRing /\ head' = 0 /\ count' = 0
    /\ handle' \in Handles
    /\ log' = <<>>
    /\ UNCHANGED <<clock, lines, archive, written, excused>>

Tick ==
    /\ clock < MaxTime
    /\ clock' = clock + 1
    /\ UNCHANGED <<stamped, ring, disk, log, written, excused>>

Next ==
    \/ \E r \in Request :
          \/ AppendEntry(r)
          \/ \E kind \in Kind : Stamp(r, kind)
    \/ Close \/ Restart \/ Tick

Spec == Init /\ [][Next]_vars

(***************************************************************************)
(* Query: walk the ring from the newest entry, stop at the first that is      *)
(* older than from, filter, and cut the page out.                            *)
(***************************************************************************)
StartsAtHead(i) == buf[(head - i + Capacity) % Capacity]
NewestBut(i) ==
    LET start == (head - 1 + Capacity) % Capacity
    IN buf[(start - i + Capacity) % Capacity]

Since(e, from)        == from = Unset \/ e.time >= from
Matches(e, to, want) ==
    /\ to = Unset \/ e.time <= to
    /\ want.provider = Unset \/ e.kind.provider = want.provider
    /\ want.isolation = Unset \/ e.kind.isolation = want.isolation

\* The steps of the walk that add an entry: no step so far has met the break, and
\* the entry passes the other filters.
Found(from, to, want) ==
    {i \in 0 .. count - 1 : /\ \A j \in 0 .. i : Since(NewestBut(j), from)
                           /\ Matches(NewestBut(i), to, want)}

\* The k-th smallest member of a finite set of numbers.
Nth(S, k) == CHOOSE i \in S : Cardinality({j \in S : j <= i}) = k

Page(entries, limit, offset) ==
    IF offset > Len(entries) THEN <<>>
    ELSE LET rest == SubSeq(entries, offset + 1, Len(entries))
         IN IF limit > 0 /\ limit < Len(rest) THEN SubSeq(rest, 1, limit) ELSE rest

Query(from, to, want, limit, offset) ==
    LET found    == Found(from, to, want)
        filtered == [k \in 1 .. Cardinality(found) |-> NewestBut(Nth(found, k))]
    IN Page(filtered, limit, offset)

(***************************************************************************)
(* Properties.                                                             *)
(***************************************************************************)
\* The entries a reader of the log may expect: the latest Capacity ones, Newest(0)
\* being the last one appended.
Kept      == IF Len(log) > Capacity THEN Capacity ELSE Len(log)
Newest(n) == log[Len(log) - n]

Times     == {Unset} \cup 0 .. MaxTime
Wants     == [provider  : {Unset} \cup ({k.provider : k \in Kind} \ {""}),
              isolation : {Unset} \cup ({k.isolation : k \in Kind} \ {""})]

\* The k-th newest entry that passes all filters is at position k - offset of the
\* answer if it belongs on the page, and the answer has nothing else.
Answers(from, to, want, limit, offset) ==
    LET passing == {n \in 0 .. Kept - 1 : Since(Newest(n), from) /\ Matches(Newest(n), to, want)}
        Rank(n) == Cardinality({m \in passing : m <= n})
        answer  == Query(from, to, want, limit, offset)
    IN /\ \A n \in passing :
            Rank(n) > offset /\ (limit <= 0 \/ Rank(n) <= offset + limit)
                => Rank(n) - offset \in DOMAIN answer /\ answer[Rank(n) - offset] = Newest(n)
       /\ \A k \in DOMAIN answer :
            k + offset <= Cardinality(passing) /\ (limit <= 0 \/ k <= limit)

Sorted == \A m, n \in 0 .. Kept - 1 : m < n => Newest(n).time <= Newest(m).time

\* Query answers from the ring what the whole list of appended entries would give,
\* page by page, through any number of wrap-arounds, provided it is not asked for a
\* lower bound while the ring is out of order.  (Then the break in the walk, "entries
\* are monotonic; no need to go further", may leave out an entry that matches.)
QueryExact ==
    \A from \in Times, to \in Times, want \in Wants, limit \in Limits, offset \in Offsets :
        from = Unset \/ Sorted => Answers(from, to, want, limit, offset)

\* The files hold, read in their order, what the list holds but for the lost entries,
\* each entry once and in the order of the list.
InOrder(files, list, lost) ==
    /\ \A i, j \in DOMAIN list : list[i] = list[j] => i = j
    /\ \A t \in DOMAIN files : ToSet(files[t]) \subseteq ToSet(list) \ lost
    /\ \A e \in ToSet(list) \ lost : \E t \in DOMAIN files : e \in ToSet(files[t])
    /\ \A t, u \in DOMAIN files : \A k \in DOMAIN files[t], l \in DOMAIN files[u] :
         t < u \/ (t = u /\ k < l)
            => \E i, j \in DOMAIN list : i < j /\ list[i] = files[t][k] /\ list[j] = files[u][l]

\* The rotated files in the order of their names, and then the current one.
Disk == [t \in 0 .. MaxTime + 1 |-> IF t = MaxTime + 1 THEN lines ELSE archive[t]]

\* Read in the order of their names, the rotated files and then the current one hold
\* every entry once and in the order of the appends, across rotations, failed
\* renames and restarts, but for the entries whose loss the code knowingly accepts.
DiskInOrder == InOrder(Disk, written, excused)
=============================================================================
