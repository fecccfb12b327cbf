------------------------------- MODULE Reads -------------------------------
(***************************************************************************)
(* The reads a console makes, a statement at a time and in no transaction, *)
(* beside the writers of what they read (internal/core: job_query.go,      *)
(* inspect.go, read.go, tree.go, job_audit_read.go, node_starts.go,        *)
(* progress.go, run_logs.go, feed.go).                                     *)
(*                                                                         *)
(* A caller walks one listing by its keyset cursor, a page a call; polls   *)
(* the finish feed, whose entries are stamped before they are committed;   *)
(* or reads a job's tree, level by level.  `rows` is the table it reads: a *)
(* row's `at` is the time its listing goes by, scheduled_at for a waiting  *)
(* job and finalized_at for one that ended.  Ids order as they were drawn, *)
(* which is not the order their inserts commit in.                         *)
(***************************************************************************)
EXTENDS Integers, Sequences, FiniteSetsExt

CONSTANTS
    MaxId,         \* bound: ids are 1..MaxId
    MaxClock,      \* bound: the clock
    WriteBound,    \* bound: what writers do beside a listing or a tree
    FeedBound,     \* bound: and beside the feed
    Asked,         \* the terminal states a finished listing asks for, in order, repeats and all
    Limit,         \* the page, resolved by readLimit
    Settle,        \* ListRunFinishesParams.Settle
    FeedLimit,     \* ListRunFinishesParams.Limit
    ScanLimit,     \* feedScanLimit
    Wanted,        \* the runs of the feed's Kinds and Queues
    Families,      \* parent_job_id of each id, 0 for none, as the jobs may have it
    Depth, Nodes   \* JobTreeParams.MaxDepth and MaxNodes

Ids == 1..MaxId
Ended == {"succeeded", "discarded"}
Absent == {"none", "gone"}   \* not there yet, and no longer

ASSUME ReadsAssumption ==
    /\ {MaxClock, WriteBound, FeedBound, Depth} \subseteq Nat
    /\ {MaxId, Limit, FeedLimit, ScanLimit, Nodes, Settle} \subseteq Nat \ {0}
    /\ Wanted \subseteq Ids
    /\ Asked \in Seq(Ended) /\ Asked # <<>> /\ Families \subseteq [Ids -> 0..MaxId]

VARIABLES
    op,      \* what the caller reads
    clock,
    rows,    \* the table, each row with its state and time
    reader,  \* the caller's walk or poll: its cursor and what it was given
    parent,  \* the jobs' parents
    tree,    \* treeWalk
    writes,  \* counts up to WriteBound
    steady,  \* history: the rows in scope and unchanged since the read began
    grew     \* history: a job was inserted while a tree was read

vars == <<op, clock, rows, parent, reader, tree, writes, steady, grew>>

----------------------------------------------------------------------------
(* Keyset pages. *)

\* distinctStates: where Asked names a state first.
Distinct == {n \in DOMAIN Asked : \A m \in 1..(n - 1) : Asked[m] # Asked[n]}

\* A listing: the states each of a page's statements reads, whether it goes by
\* time before id, and down or up, and whether it reads one row past the page.
Listing(statements, byTime, down, probe) ==
    [statements |-> statements, byTime |-> byTime, down |-> down, probe |-> probe]

AnyJob == <<Ended \cup {"waiting"}>>
EachEnded == [n \in Distinct |-> {Asked[n]}]   \* a range of jobs_finished each

QueryNewest == Listing(AnyJob, FALSE, TRUE, TRUE)
QueryOldest == Listing(AnyJob, FALSE, FALSE, TRUE)
QueryScheduled == Listing(<<{"waiting"}>>, TRUE, FALSE, TRUE)
QueryFinished == Listing(EachEnded, TRUE, TRUE, TRUE)
ListFinished == Listing(EachEnded, TRUE, TRUE, FALSE)
ListJobs == Listing(AnyJob, FALSE, TRUE, FALSE)
ListChildren == Listing(AnyJob, FALSE, TRUE, TRUE)
ChildOutputs == Listing(<<Ended>>, TRUE, TRUE, FALSE)
ListRuns == Listing(<<{"present"}>>, FALSE, TRUE, FALSE)
ListRunLogs == Listing(<<{"present"}>>, FALSE, FALSE, FALSE)
AuditNewest == Listing(<<{"present"}>>, TRUE, TRUE, TRUE)
AuditOldest == Listing(<<{"present"}>>, TRUE, FALSE, TRUE)
ListNodeStarts == Listing(<<{"present"}>>, TRUE, FALSE, TRUE)

JobSorts == {"newest", "oldest", "scheduled", "finished"}
JobLists == JobSorts \cup {"history", "jobs", "children", "outputs"}
Growing == {"runs", "lines"}     \* numbered from 1 as they are written
Stamped == {"newAudit", "oldAudit", "starts"}
Listings == JobLists \cup Growing \cup Stamped
List(o) ==
    CASE o = "newest" -> QueryNewest [] o = "oldest" -> QueryOldest
      [] o = "scheduled" -> QueryScheduled [] o = "finished" -> QueryFinished
      [] o = "history" -> ListFinished [] o = "jobs" -> ListJobs
      [] o = "children" -> ListChildren [] o = "outputs" -> ChildOutputs
      [] o = "runs" -> ListRuns [] o = "lines" -> ListRunLogs
      [] o = "newAudit" -> AuditNewest [] o = "oldAudit" -> AuditOldest
      [] o = "starts" -> ListNodeStarts

Earlier(a, b) == a.at < b.at \/ (a.at = b.at /\ a.id < b.id)
Before(down, a, b) == IF down THEN Earlier(b, a) ELSE Earlier(a, b)
Precedes(o, a, b) == Before(List(o).down, a, b)

\* ORDER BY ... LIMIT n, and the last row of what it gives.
First(S, n, down) == {k \in S : Cardinality({m \in S : Before(down, m, k)}) < n}
Final(S, down) == CHOOSE k \in S : \A m \in S : ~Before(down, k, m)

\* A row as the statement of a stage finds it.
Key(o, i, stage) == [at |-> IF List(o).byTime THEN rows[i].at ELSE 0, id |-> i, stage |-> stage]

\* The filter: what the statements read, a parent's children, what has started by now.
InScope(o, i) ==
    /\ \E n \in DOMAIN List(o).statements : rows[i].state \in List(o).statements[n]
    /\ o = "children" => parent[i] = 1
    /\ o = "starts" => rows[i].at < clock

\* What follows a cursor.
\* Mutant: of the rows that share its time, none.
BeyondTime(o, c, k) ==
    IF ~List(o).byTime THEN Precedes(o, c, k) ELSE IF List(o).down THEN k.at < c.at ELSE k.at > c.at
Beyond(o, c, k) == IF o = "outputs" THEN k.at < c.at ELSE Precedes(o, c, k)

\* The first n rows a stage's statement finds.
Found(o, stage, c, n) ==
    LET all == {Key(o, i, stage) :
                  i \in {j \in Ids : InScope(o, j) /\ rows[j].state \in List(o).statements[stage]}}
    IN First({k \in all : c.sort = "none" \/ Beyond(o, c, k)}, n, List(o).down)

NoCursor == [sort |-> "none", at |-> 0, id |-> 0]
CursorAfter(o, k) == [sort |-> o, at |-> k.at, id |-> k.id]

\* decodeQueryCursor and decodeAuditCursor: only the sort that issued it.
Decoded(o, c) == IF c.sort = o THEN c ELSE NoCursor

NewWalk == [pc |-> "read", cursor |-> NoCursor, page |-> {}, stage |-> 1, pages |-> <<>>,
            since |-> 0, from |-> NoCursor]
Unread == [pc |-> "off", level |-> {}, place |-> <<>>, depth |-> 0, counts |-> <<>>, kids |-> <<>>,
           listed |-> {}, nodes |-> 0, truncated |-> FALSE]
InScopeNow(o) == {i \in Ids : InScope(o, i)}

\* What the caller was given, but for pages without a row.
Given(pages, page) == IF page = {} THEN pages ELSE Append(pages, page)

\* The caller has the whole page: it keeps its rows and, past a full one, goes on.
Delivered(o, found) ==
    LET page == First(found, Limit, List(o).down)
        more == Cardinality(found) >= (IF List(o).probe THEN Limit + 1 ELSE Limit)
    IN [reader EXCEPT !.pages = Given(@, page), !.page = {}, !.stage = 1,
                      !.pc = IF more THEN "read" ELSE "done",
                      !.cursor = IF more THEN CursorAfter(o, Final(page, List(o).down)) ELSE @]

\* One statement of a page; the last one merges them.
ReadPage ==
    /\ op \in Listings /\ reader.pc = "read"
    /\ LET n == IF List(op).probe THEN Limit + 1 ELSE Limit
           found == reader.page \cup Found(op, reader.stage, reader.cursor, n)
           later == {m \in DOMAIN List(op).statements : m > reader.stage}
       IN reader' = IF later # {} THEN [reader EXCEPT !.page = found, !.stage = Min(later)]
                    ELSE Delivered(op, found)
    /\ UNCHANGED <<op, clock, rows, parent, tree, writes, steady, grew>>

\* A failed statement fails the page, which the caller asks for again.
ReadFails ==
    /\ op \in Listings /\ reader.pc = "read" /\ reader.stage > 1
    /\ reader' = [reader EXCEPT !.page = {}, !.stage = 1]
    /\ UNCHANGED <<op, clock, rows, parent, tree, writes, steady, grew>>

\* The caller changes the sort and passes the cursor it has: refused, it starts over.
Resort ==
    /\ op \in JobSorts /\ reader.pc = "read" /\ reader.stage = 1 /\ reader.cursor # NoCursor
    /\ \E o \in JobSorts \ {op} :
         /\ op' = o
         /\ reader' = [NewWalk EXCEPT !.cursor = Decoded(o, reader.cursor)]
         /\ steady' = InScopeNow(o)
    /\ writes < WriteBound /\ writes' = writes + 1
    /\ UNCHANGED <<clock, rows, parent, tree, grew>>

----------------------------------------------------------------------------
(* The finish feed. *)

FeedKey(i) == [at |-> rows[i].at, id |-> i, stage |-> 1]
Horizon == clock - Settle
FeedStart == IF reader.cursor.sort = "feed" THEN reader.cursor
             ELSE [sort |-> "feed", at |-> IF reader.since > 0 THEN reader.since ELSE Horizon, id |-> 0]

Logged == {"logged", "late", "bare"}   \* committed: in time, too late, and without its run since

\* feedScanSQL.
ScanRange(start) ==
    {k \in {FeedKey(i) : i \in {j \in Ids : rows[j].state \in Logged}} : Earlier(start, k) /\ k.at <= Horizon}
ScanFinishes(start) == First(ScanRange(start), ScanLimit, FALSE)

Finishes(entries) ==
    First({k \in entries : k.id \in Wanted /\ rows[k.id].state # "bare"}, FeedLimit, FALSE)

\* NextCursor.  Mutant: nothing returned, nothing passed.
NextReturned(start, entries, page) ==
    IF page = {} THEN start ELSE CursorAfter("feed", Final(page, FALSE))
NextCursor(start, entries, page) ==
    IF Cardinality(page) = FeedLimit THEN CursorAfter("feed", Final(page, FALSE))
    ELSE IF entries = {} THEN start ELSE CursorAfter("feed", Final(entries, FALSE))

ListRunFinishes ==
    /\ op = "feed"
    /\ LET entries == ScanFinishes(FeedStart)
           page == Finishes(entries)
       IN reader' = [reader EXCEPT !.cursor = NextCursor(FeedStart, entries, page),
                                   !.pages = Given(@, page),
                                   !.from = IF @ = NoCursor THEN FeedStart ELSE @]
    /\ UNCHANGED <<op, clock, rows, parent, tree, writes, steady, grew>>

----------------------------------------------------------------------------
(* JobTree. *)

Kids(p) == {i \in Ids : rows[i].state \notin Absent /\ parent[i] = p}
Newest(S, n) == {i \in S : Cardinality({j \in S : j > i}) < n}

FindRoot ==
    /\ op = "tree" /\ tree.pc = "root"
    /\ tree' = IF rows[1].state \in Absent THEN [tree EXCEPT !.pc = "done"]
               ELSE [tree EXCEPT !.pc = "count", !.level = {1}, !.place = [n \in {1} |-> 1],
                                    !.listed = {1}, !.nodes = 1]
    /\ UNCHANGED <<op, clock, rows, parent, reader, writes, steady, grew>>

CountChildren ==
    /\ op = "tree" /\ tree.pc = "count"
    /\ tree' = [tree EXCEPT !.pc = "read",
                            !.counts = [n \in tree.level |-> Cardinality(Kids(n))]]
    /\ UNCHANGED <<op, clock, rows, parent, reader, writes, steady, grew>>

\* What the node budget leaves of each node's children, in level order; none of
\* those below the last level.
Planned(n) ==
    Cardinality(UNION {{m} \X (1..tree.counts[m]) : m \in {l \in tree.level : tree.place[l] < tree.place[n]}})
Take(n) ==
    IF tree.depth = Depth THEN 0
    ELSE Max({0, Min({tree.counts[n], Nodes - tree.nodes - Planned(n)})})

\* Mutant: only the node budget is reported.
CutByBudget == tree.depth < Depth /\ \E n \in tree.level : Take(n) < tree.counts[n]
Cut == \E n \in tree.level : Take(n) < tree.counts[n]

\* readChildren: the parents taken whole in one statement, the one taken in part
\* in another, each cut to what was planned.
Whole(n) == Take(n) = tree.counts[n]
Read(n, whole) == IF Whole(n) = whole THEN Newest(Kids(n), Take(n)) ELSE tree.kids[n]

\* The next level's order: by the parents', and each one's newest first.
Sooner(i, j) ==
    \/ tree.place[parent[i]] < tree.place[parent[j]]
    \/ parent[i] = parent[j] /\ i > j
Descended(kids) ==
    LET next == (UNION {kids[n] : n \in tree.level}) \ tree.listed
    IN [tree EXCEPT !.pc = IF next = {} THEN "done" ELSE "count", !.level = next,
                    !.place = [i \in next |-> Cardinality({j \in next : Sooner(j, i)})],
                    !.depth = @ + 1, !.counts = <<>>, !.kids = <<>>,
                    !.listed = @ \cup next, !.nodes = @ + Cardinality(next),
                    !.truncated = @ \/ Cut]

ReadWhole ==
    /\ op = "tree" /\ tree.pc = "read"
    /\ LET kids == [n \in tree.level |-> IF Whole(n) THEN Read(n, TRUE) ELSE {}]
       IN tree' = IF \E n \in tree.level : Take(n) > 0 /\ ~Whole(n)
                  THEN [tree EXCEPT !.pc = "rest", !.kids = kids]
                  ELSE Descended(kids)
    /\ UNCHANGED <<op, clock, rows, parent, reader, writes, steady, grew>>

ReadPart ==
    /\ op = "tree" /\ tree.pc = "rest"
    /\ tree' = Descended([n \in tree.level |-> Read(n, FALSE)])
    /\ UNCHANGED <<op, clock, rows, parent, reader, writes, steady, grew>>

----------------------------------------------------------------------------
(* The writers, as far as a listing sees them. *)

Write(i, row) ==
    /\ writes < (IF op = "feed" THEN FeedBound ELSE WriteBound) /\ writes' = writes + 1
    /\ rows' = [rows EXCEPT ![i] = row]
    /\ steady' = steady \ {i}
    /\ grew' = (grew \/ (op = "tree" /\ rows[i].state = "none"))
    /\ UNCHANGED <<op, clock, parent, reader, tree>>

Row(state, at) == [state |-> state, at |-> at]

Jobs == JobLists \cup {"tree"}

InsertJob(i) ==
    /\ op \in Jobs /\ rows[i].state = "none"
    /\ \E t \in {clock, clock + 1} : Write(i, Row("waiting", t))

RescheduleJob(i) ==
    /\ op \in JobLists /\ rows[i].state = "waiting"
    /\ \E t \in {clock, clock + 1} : Write(i, Row("waiting", t))

\* A finalize or a cancel.
EndJob(i) ==
    /\ op \in JobLists /\ rows[i].state = "waiting"
    /\ \E s \in Ended : Write(i, Row(s, clock))

\* A forced retry, some time after the job ended.
RetryJob(i) ==
    /\ op \in JobLists /\ rows[i].state \in Ended /\ rows[i].at < clock
    /\ Write(i, Row("waiting", clock))

\* DeleteJob or retention.
DeleteJob(i) ==
    /\ op \in Jobs /\ rows[i].state \in Ended
    /\ Write(i, Row("gone", 0))

\* An attempt's stub, a line of its log.
AppendRow(i) ==
    /\ op \in Growing /\ rows[i].state = "none" /\ \A j \in 1..(i - 1) : rows[j].state # "none"
    /\ Write(i, Row("present", 0))

\* recordAudit, a node's registration: stamped before the transaction commits.
StampRow(i) ==
    /\ op \in Stamped /\ rows[i].state = "none"
    /\ \E t \in {clock - 1, clock} : Write(i, Row("present", t))

\* DeleteAuditEntries, the registry's prune.
PruneRow(i) ==
    /\ op \in Stamped /\ rows[i].state = "present" /\ rows[i].at < clock
    /\ Write(i, Row("gone", 0))

\* An attempt ends, stamping finished_at, and its finalize commits or fails.
StampFinish(i) ==
    /\ op = "feed" /\ rows[i].state = "none" /\ clock + Settle <= MaxClock
    /\ Write(i, Row("open", clock))
CommitFinish(i) ==
    /\ op = "feed" /\ rows[i].state = "open"
    /\ rows' = [rows EXCEPT ![i].state = IF clock - rows[i].at < Settle THEN "logged" ELSE "late"]
    /\ UNCHANGED <<op, clock, parent, reader, tree, writes, steady, grew>>
FinalizeFails(i) ==
    /\ op = "feed" /\ rows[i].state = "open"
    /\ Write(i, Row("gone", 0))

\* Retention deletes the run, and its entry of the finish log with it or later.
DeleteRun(i) ==
    /\ op = "feed" /\ rows[i].state \in {"logged", "late"} /\ rows[i].at < clock
    /\ \E s \in {"bare", "gone"} : Write(i, Row(s, rows[i].at))

Tick ==
    /\ clock < MaxClock
    /\ clock' = clock + 1
    /\ UNCHANGED <<op, rows, parent, reader, tree, writes, steady, grew>>

----------------------------------------------------------------------------

\* What a table may hold when a read begins, shortly before MaxClock.
EndedRows(S) == {Row(s, t) : s \in S, t \in {MaxClock - 2, MaxClock - 1}}
Contents(o) ==
    {Row("none", 0)} \cup
    CASE o \in {"finished", "history"} -> EndedRows({"succeeded"}) \cup {Row("discarded", MaxClock - 1)}
      [] o = "outputs" -> EndedRows({"succeeded"})
      [] o = "scheduled" -> {Row("waiting", MaxClock - 1), Row("waiting", MaxClock)}
      [] o \in JobLists -> {Row("waiting", MaxClock), Row("succeeded", MaxClock - 2)}
      [] o \in Stamped -> {Row("present", MaxClock - 2), Row("present", MaxClock - 1)}
      [] o \in Growing -> {Row("present", 0)}
      [] o = "tree" -> {Row("succeeded", 0)}
      [] o = "feed" -> {}

Init ==
    /\ op \in Listings \cup {"tree", "feed"}
    /\ clock = IF op = "feed" THEN Settle ELSE MaxClock - 1
    /\ rows \in [Ids -> Contents(op)]
    /\ op \in Growing => \A i, j \in Ids : i < j /\ rows[i].state = "none" => rows[j].state = "none"
    /\ parent \in IF op \in {"tree", "children"} THEN Families ELSE {[i \in Ids |-> 0]}
    /\ \E t \in (IF op = "feed" THEN {0, Settle} ELSE {0}) : reader = [NewWalk EXCEPT !.since = t]
    /\ tree = [Unread EXCEPT !.pc = IF op = "tree" THEN "root" ELSE "off"]
    /\ writes = 0 /\ grew = FALSE
    /\ steady = IF op \in Listings THEN InScopeNow(op)
                ELSE {i \in Ids : op = "tree" /\ rows[i].state \notin Absent}

Reading == \/ ReadPage \/ ReadFails \/ Resort \/ ListRunFinishes
           \/ FindRoot \/ CountChildren \/ ReadWhole \/ ReadPart
Writing(i) == \/ InsertJob(i) \/ RescheduleJob(i) \/ EndJob(i) \/ RetryJob(i) \/ DeleteJob(i)
              \/ AppendRow(i) \/ StampRow(i) \/ PruneRow(i)
              \/ StampFinish(i) \/ CommitFinish(i) \/ FinalizeFails(i) \/ DeleteRun(i)

Next == Reading \/ Tick \/ \E i \in Ids : Writing(i)

Spec == Init /\ [][Next]_vars

\* The clock runs and the feed's follower polls.
FairSpec == Spec /\ WF_vars(Tick) /\ WF_vars(ListRunFinishes)

----------------------------------------------------------------------------
(* Correctness. *)

\* The rows the caller was given, each with its page.
Rows == UNION {{n} \X reader.pages[n] : n \in DOMAIN reader.pages}
Times(i) == Cardinality({r \in Rows : r[2].id = i})

\* A page is sorted, so it is in order if no two of its rows are level.
InOrder(down) ==
    \A a, b \in Rows : \/ a[1] > b[1]
                       \/ a[1] = b[1] /\ (a = b \/ Before(down, b[2], a[2]))
                       \/ Before(down, a[2], b[2])

\* Whatever is inserted, moved and deleted while a caller walks a listing, page
\* after page, its pages put together are in the listing's order with no row
\* repeated at its place (one that moves on may be met again there), and a walk
\* that came to its end has listed once every row that was there all along and
\* did not move.  (ChildOutputs' cursor is created_at alone: it
\* passes the rows that share it.)
ListingExact ==
    op \in Listings =>
        /\ InOrder(List(op).down)
        /\ reader.pc = "done" =>
             \A i \in steady :
                 \/ Times(i) = 1
                 \/ /\ op = "outputs" /\ Times(i) = 0
                    /\ \E r \in Rows : r[2].at = rows[i].at

\* The feed's cursor never passes a finish that committed within Settle of its
\* stamp: what lies before it, from where the follower began, was returned, once
\* and in order, whatever the filter, the page and the scan limit left out.
FeedPassesNone ==
    op = "feed" =>
        /\ InOrder(FALSE)
        /\ \A i \in Wanted :
             /\ rows[i].state = "logged" /\ reader.cursor.sort = "feed"
             /\ Earlier(reader.from, FeedKey(i)) /\ ~Earlier(reader.cursor, FeedKey(i))
             => Times(i) = 1

\* And a follower that keeps polling comes to hold every such finish whose run is
\* not deleted before.
FeedArrives ==
    <>[](\A i \in Wanted :
            /\ rows[i].state = "logged" /\ reader.cursor.sort = "feed"
            /\ Earlier(reader.from, FeedKey(i))
            => Times(i) = 1)

\* The finish feed loses nothing and repeats nothing for good.
FeedExact == []FeedPassesNone /\ FeedArrives

\* The jobs of the tree that were there all along, below jobs that were: every
\* set that has the root and is closed under them has these.
Closed(S) == 1 \in S /\ \A j \in steady : parent[j] \in S => j \in S
Descendants == {i \in Ids : \A S \in SUBSET Ids : Closed(S) => i \in S}

\* A tree that is not said to be truncated lists every descendant that was there
\* all along, within its bounds and no job twice, unless a job was inserted under
\* it meanwhile: a child inserted between the count of a level and its read takes
\* the place of an older one.
TreeWhole ==
    op = "tree" =>
        /\ tree.nodes <= Nodes /\ tree.nodes = Cardinality(tree.listed)
        /\ tree.pc = "done" /\ tree.listed # {} /\ ~tree.truncated /\ ~grew =>
             Descendants \subseteq tree.listed
=============================================================================
