------------------------------ MODULE Listing ------------------------------
(***************************************************************************)
(* A client walks through GET /api/jobs page by page while jobs are created *)
(* and cleaned up.  A page is made by two queries, one for the rows and one *)
(* for the total, and positions in the list move when rows come and go.    *)
(* Jobs are numbered in the order of their creation; the list is sorted by *)
(* created_at, newest first.                                               *)
(***************************************************************************)
EXTENDS Integers, FiniteSets

CONSTANTS
    MaxJobs,        \* bound on the jobs ever created
    Width,          \* bits of the integers that offsets are stored in, 32
    DefaultLimit,   \* page size when the request has none that is legal, 20
    MaxLimit,       \* largest page size, 100
    Limits,         \* page sizes that clients ask for
    Offsets         \* offsets at which clients begin

ASSUME ListingAssumption ==
    /\ MaxJobs \in Nat /\ Width \in Nat \ {0}
    /\ MaxLimit \in Nat \ {0} /\ DefaultLimit \in 1..MaxLimit
    /\ Limits \subseteq Int /\ Offsets \subseteq Nat
    /\ MaxJobs + MaxLimit < 2^(Width - 1)

VARIABLES
    table,      \* the jobs in the table
    created,    \* how many jobs have been created
    at,         \* what the walk does next
    limit,      \* the page size, as the response tells it
    offset,     \* the offset of the request under way, as stored
    page,       \* the rows the first query of the request returned
    seen,       \* history: the jobs the client has received,
    repeats,    \* how many rows it received again,
    first,      \* the offset it began with,
    due,        \* the jobs from there on when it began,
    mark,       \* how many jobs there had been by then,
    deleted     \* and the jobs deleted since

jobs == <<table, created>>
request == <<at, limit, offset, page>>
history == <<seen, repeats, first, due, mark, deleted>>
vars == <<jobs, request, history>>

-----------------------------------------------------------------------------
(* The handler and the service.                                            *)

\* Conversion to int32 keeps the low bits.
Stored(n) == LET half == 2^(Width - 1) IN ((n + half) % (2 * half)) - half

ParseLimit(l) == IF l \in 1..MaxLimit THEN l ELSE DefaultLimit

\* Mutant of ParseOffset: the parameter is lost.
ParseOffsetLost(o) == Stored(0)

\* Mutant of ParseOffset: no conversion.
ParseOffsetWide(o) == IF o >= 0 THEN o ELSE 0

ParseOffset(o) == IF o >= 0 THEN Stored(o) ELSE 0

Position(j) == Cardinality({k \in table : k > j})

\* Mutant of Rows: OFFSET starts one row late.
RowsOneLate(l, o) == {j \in table : Position(j) \in (o + 1)..(o + l)}

\* Mutant of Rows: a page overlaps the next one.
RowsOneMore(l, o) == {j \in table : Position(j) \in o..(o + l)}

Rows(l, o) == {j \in table : Position(j) \in o..(o + l - 1)}

\* Mutant of HasMore: every page is taken for the first one.
HasMoreThanOnePage(l, o, total) == l < total

HasMore(l, o, total) == Stored(o + l) < total

-----------------------------------------------------------------------------
(* The walk.                                                               *)

Begin(l, o) ==
    /\ at = "idle"
    /\ at' = "rows"
    /\ limit' = ParseLimit(l)
    /\ offset' = ParseOffset(o)
    /\ first' = o
    /\ due' = {j \in table : Position(j) >= o}
    /\ mark' = created
    /\ UNCHANGED <<jobs, page, seen, repeats, deleted>>

\* Postgres refuses a negative OFFSET.
ListRefused ==
    /\ at = "rows"
    /\ offset < 0
    /\ at' = "refused"
    /\ UNCHANGED <<jobs, limit, offset, page, history>>

\* Either query may fail; the client is told so and gives up.
ListFails ==
    /\ at = "rows"
    /\ at' = "failed"
    /\ UNCHANGED <<jobs, limit, offset, page, history>>

CountFails ==
    /\ at = "count"
    /\ at' = "failed"
    /\ page' = {}
    /\ UNCHANGED <<jobs, limit, offset, history>>

ListRows ==
    /\ at = "rows"
    /\ offset >= 0
    /\ page' = Rows(limit, offset)
    /\ at' = "count"
    /\ UNCHANGED <<jobs, limit, offset, history>>

\* Bound of the history variable, above any value RepeatsBounded allows.
Capped(n) == IF n > MaxJobs THEN MaxJobs + 1 ELSE n

\* The response is complete; the client asks for the next page if there is
\* one, at the position after the page it got.
CountTotal ==
    /\ at = "count"
    /\ seen' = seen \cup page
    /\ repeats' = Capped(repeats + Cardinality(seen \cap page))
    /\ IF HasMore(limit, offset, Cardinality(table))
       THEN at' = "rows" /\ offset' = ParseOffset(offset + limit)
       ELSE at' = "done" /\ UNCHANGED offset
    /\ page' = {}
    /\ UNCHANGED <<jobs, limit, first, due, mark, deleted>>

-----------------------------------------------------------------------------
(* Other requests and the clean-up task.                                   *)

CreateJob ==
    /\ created < MaxJobs
    /\ created' = created + 1
    /\ table' = table \cup {created + 1}
    /\ UNCHANGED <<request, history>>

\* Finished jobs that are older than the cutoff go, whichever those are.
CleanupJobs(S) ==
    /\ S # {}
    /\ table' = table \ S
    /\ deleted' = IF at = "idle" THEN deleted ELSE deleted \cup S
    /\ UNCHANGED <<created, request, seen, repeats, first, due, mark>>

-----------------------------------------------------------------------------

Init ==
    /\ created \in 0..MaxJobs
    /\ table = 1..created
    /\ at = "idle"
    /\ limit = DefaultLimit
    /\ offset = 0
    /\ page = {}
    /\ seen = {} /\ repeats = 0 /\ first = 0 /\ due = {} /\ mark = 0
    /\ deleted = {}

Walk == ListRefused \/ ListFails \/ ListRows \/ CountTotal \/ CountFails

Next ==
    \/ \E l \in Limits, o \in Offsets : Begin(l, o)
    \/ Walk
    \/ CreateJob
    \/ \E S \in SUBSET table : CleanupJobs(S)

Spec == Init /\ [][Next]_vars

\* Requests are answered, if only with an error, and the client goes on asking.
FairSpec == Spec /\ WF_vars(Walk)

-----------------------------------------------------------------------------
(* Properties.                                                             *)

\* Offsets fit their type, pages their size.
TypeOK ==
    /\ table \subseteq 1..created
    /\ created \in 0..MaxJobs
    /\ at \in {"idle", "rows", "count", "done", "refused", "failed"}
    /\ limit \in 1..MaxLimit
    /\ offset \in -(2^(Width - 1))..(2^(Width - 1) - 1)
    /\ page \subseteq 1..created /\ Cardinality(page) <= limit
    /\ seen \subseteq 1..created
    /\ repeats \in 0..(MaxJobs + 1)
    /\ first \in Nat
    /\ due \subseteq 1..MaxJobs /\ mark \in 0..MaxJobs
    /\ deleted \subseteq 1..created

\* A walk that has ended at the last page skipped no more of the jobs that
\* were in the list when it began, and still are, than were deleted
\* meanwhile, between pages or between the two queries of one.  Jobs created
\* meanwhile never make it skip any.
SkipsBounded ==
    at = "done" => Cardinality((due \cap table) \ seen) <= Cardinality(deleted)

\* A job is listed twice only because jobs were created meanwhile: there are
\* no more repeated rows than such jobs.
RepeatsBounded == repeats <= created - mark

\* The database refuses a request for its offset only if the client began
\* beyond the jobs there can be: no walk gets there page by page.  Any request
\* may fail for other reasons, and then answers 500 as well.
OnlyFarOffsetsRefused == at = "refused" => first > MaxJobs

\* A walk comes to an end.
WalkEnds == at = "rows" ~> at \in {"done", "refused", "failed"}

=============================================================================
