--------------------------- MODULE WorkspaceReads ---------------------------
(***************************************************************************)
(* The workspace's lists: orders, anomalies, reviews, a driver's tasks, a  *)
(* team's tasks, runtime threads and vector memories, each read page by    *)
(* page while the rest of the system keeps writing the rows they list.     *)
(*                                                                         *)
(* A client asks for a first page and then follows next_cursor, the id of  *)
(* the last row it was shown; it may be answered 503 and ask again, and    *)
(* it may stop.  The statements of one MySQL page run in one session and   *)
(* read one snapshot (InnoDB's default isolation), so a page is one step.  *)
(* A page of vector memories is four calls with an await between them.     *)
(*                                                                         *)
(* Row ids are allotted when a row is inserted and seen when it is         *)
(* committed, so rows may become visible out of the order of their ids.    *)
(* A row is reduced to the columns the lists filter by, and an answer to   *)
(* the ids of its items and its cursor; whether the search text occurs in  *)
(* a row is a function of its id.                                          *)
(***************************************************************************)
EXTENDS Integers, FiniteSets, Sequences, Functions, TLC

CONSTANTS MaxRows,        \* ids of a table are 1..MaxRows
          Limit,          \* the page size a client asks for
          CursorMax,      \* largest cursor the parser takes (2^63 - 1 in the code)
          Employees,      \* subjects tasks may be assigned to
          Found,          \* ids of the rows the search text occurs in
          InitialTables,  \* databases the clients start from
          MaxWrites,      \* bound: rows written while a behaviour lasts
          None

ASSUME ReadsAssumption ==
    /\ MaxRows \in Nat \ {0} /\ Limit \in 1 .. 100 /\ CursorMax >= MaxRows
    /\ Found \subseteq 1 .. MaxRows

VARIABLES db,      \* the committed rows of every table
          walk,    \* the client's walk through one list, or None
          writes

vars == <<db, walk, writes>>

Ids == 1 .. MaxRows
NewestFirst == [k \in Ids |-> MaxRows + 1 - k]
OldestFirst == [k \in Ids |-> k]

-----------------------------------------------------------------------------
(* Pages.                                                                  *)

\* Mutant of page: the cursor is the row looked at beyond the page.
page_skipping(ids, before) ==
    LET rows == SelectSeq(NewestFirst, LAMBDA i : i \in ids /\ (before = None \/ i < before))
    IN [items |-> SubSeq(rows, 1, IF Len(rows) > Limit THEN Limit ELSE Len(rows)),
        next_cursor |-> IF Len(rows) > Limit THEN rows[Limit + 1] ELSE None]

\* What every list query does with its conditions: newest first, strictly
\* below the cursor, one row more than asked for to learn whether there is
\* another page.
page(ids, before) ==
    LET rows == SelectSeq(NewestFirst, LAMBDA i : i \in ids /\ (before = None \/ i < before))
        visible == SubSeq(rows, 1, IF Len(rows) > Limit THEN Limit ELSE Len(rows))
    IN [items |-> visible,
        next_cursor |-> IF Len(rows) > Limit THEN visible[Len(visible)] ELSE None]

TERMINAL_STATUSES == {"APPROVED", "COMPLETED", "DLQ", "FAILED", "REVIEW_REQUIRED"}
MY_TASK_STATUS_GROUPS ==
    [READY   |-> {"APPROVED", "ASSIGNED"},
     WAITING |-> {"PENDING", "QUEUED", "REVIEW_REQUIRED"},
     ACTIVE  |-> {"RUNNING", "PROCESSING", "IN_PROGRESS"},
     ENDED   |-> {"COMPLETED", "REJECTED", "FAILED", "CANCELLED"}]

-----------------------------------------------------------------------------
(* The lists.  Each has the filters its route takes and the rows that      *)
(* meet them.                                                              *)

Given(filter, value) == filter = None \/ filter = value

order_conditions(f, i) ==
    /\ f.query => i \in Found
    /\ Given(f.status, db.orders[i].status)

\* The search text may also occur in the number of the anomaly's order.
anomaly_conditions(f, i) ==
    /\ f.query => i \in Found \/ db.anomalies[i].order \in Found
    /\ Given(f.risk, db.anomalies[i].risk)
    /\ Given(f.status, db.anomalies[i].status)

list_orders(f) == {i \in DOMAIN db.orders : order_conditions(f, i)}

list_anomalies(f) == {i \in DOMAIN db.anomalies : anomaly_conditions(f, i)}

list_reviews == {t \in DOMAIN db.tasks : db.tasks[t].status = "REVIEW_REQUIRED"}

in_state(f, t) == f.state = None \/ db.tasks[t].status \in MY_TASK_STATUS_GROUPS[f.state]

list_my_tasks(f) == {t \in DOMAIN db.tasks : db.tasks[t].assignee = f.owner /\ in_state(f, t)}

\* The tasks of the active members, or of the one asked for.
list_team_tasks(f) ==
    {t \in DOMAIN db.tasks : /\ db.tasks[t].assignee \in db.members
                             /\ Given(f.owner, db.tasks[t].assignee)
                             /\ in_state(f, t)}

list_runtime_threads(f) == {i \in DOMAIN db.threads : Given(f.status, db.threads[i])}

matching(f) ==
    CASE f.list = "orders"    -> list_orders(f)
      [] f.list = "anomalies" -> list_anomalies(f)
      [] f.list = "reviews"   -> list_reviews
      [] f.list = "my"        -> list_my_tasks(f)
      [] f.list = "team"      -> list_team_tasks(f)
      [] f.list = "threads"   -> list_runtime_threads(f)
      [] f.list = "vectors"   -> db.points

Filters ==
         [list : {"orders"}, query : BOOLEAN, status : {None, "IN_TRANSIT"}]
    \cup [list : {"anomalies"}, query : BOOLEAN, risk : {None, "HIGH"}, status : {None, "OPEN"}]
    \cup [list : {"reviews", "vectors"}]
    \cup [list : {"my"}, owner : Employees, state : {None} \cup DOMAIN MY_TASK_STATUS_GROUPS]
    \cup [list : {"team"}, owner : {None} \cup Employees, state : {None} \cup DOMAIN MY_TASK_STATUS_GROUPS]
    \cup [list : {"threads"}, status : {None, "STABLE"}]

-----------------------------------------------------------------------------
(* The client.                                                             *)

\* A cursor the parser does not take is answered 422.
parse_numeric_cursor(cursor) == cursor # None => cursor <= CursorMax

\* seen: the ids shown so far; steady: the rows that have met the filters
\* ever since the first page was read.
Opened(f) == [filter |-> f, seen |-> <<>>, cursor |-> None, ended |-> FALSE,
              steady |-> matching(f), scrolled |-> None]

Advanced(w, answer) ==
    [w EXCEPT !.seen = @ \o answer.items, !.cursor = answer.next_cursor,
              !.ended = answer.next_cursor = None, !.scrolled = None]

\* A team list of somebody who is not an active member is refused.
TeamMemberNotFound(f) == f.list = "team" /\ f.owner # None /\ f.owner \notin db.members

ReadPage(w) ==
    /\ parse_numeric_cursor(w.cursor)
    /\ ~ TeamMemberNotFound(w.filter)
    /\ walk' = Advanced(w, page(matching(w.filter), w.cursor))
    /\ UNCHANGED <<db, writes>>

FirstPage(f) == walk = None /\ f.list # "vectors" /\ ReadPage(Opened(f))

\* Refused: the walk never opens.
Refused(f) == walk = None /\ TeamMemberNotFound(f) /\ UNCHANGED vars

NextPage == walk # None /\ walk.filter.list # "vectors" /\ ~ walk.ended /\ ReadPage(walk)

\* A lost connection is answered 503; the client keeps its cursor.
Unavailable ==
    /\ walk # None /\ ~ walk.ended
    /\ walk' = [walk EXCEPT !.scrolled = None]
    /\ UNCHANGED <<db, writes>>

\* The collection exists once something is in it; Qdrant scrolls by point
\* id from the offset on, and returns the id the next page starts from.
Scroll(w) ==
    LET points == SelectSeq(OldestFirst, LAMBDA i : i \in db.points /\ (w.cursor = None \/ i >= w.cursor))
        taken == SubSeq(points, 1, IF Len(points) > Limit THEN Limit ELSE Len(points))
        answer == [items |-> taken,
                   next_cursor |-> IF Len(points) > Limit THEN points[Limit + 1] ELSE None]
    IN /\ walk' = IF db.points = {} THEN Advanced(w, answer) ELSE [w EXCEPT !.scrolled = answer]
       /\ UNCHANGED <<db, writes>>

OpenVectors == walk = None /\ Scroll(Opened([list |-> "vectors"]))
ScrollOn ==
    /\ walk # None /\ walk.filter.list = "vectors"
    /\ ~ walk.ended /\ walk.scrolled = None
    /\ Scroll(walk)

\* The collection's size and its seeded points are asked for before the
\* scrolled page is answered; points may be written meanwhile.
AnswerScrolled ==
    /\ walk # None /\ walk.scrolled # None
    /\ walk' = Advanced(walk, walk.scrolled)
    /\ UNCHANGED <<db, writes>>

CloseList == walk # None /\ walk' = None /\ UNCHANGED <<db, writes>>

-----------------------------------------------------------------------------
(* The writers, as far as the lists can tell.                              *)

Write(new) ==
    /\ writes < MaxWrites
    /\ writes' = writes + 1
    /\ db' = new

Free(table) == Ids \ DOMAIN table

AddOrder ==
    \E i \in Free(db.orders) :
        Write([db EXCEPT !.orders = @ @@ (i :> [status |-> "IN_TRANSIT"])])

AddAccount ==
    \E e \in Employees \ db.members : Write([db EXCEPT !.members = @ \cup {e}])

create_report ==
    \E i \in Free(db.anomalies), o \in DOMAIN db.orders, risk \in {"HIGH", "LOW"} :
        Write([db EXCEPT !.anomalies = @ @@ (i :> [order |-> o, risk |-> risk, status |-> "REPORTED"])])

\* The task and its thread are inserted in one transaction.
create ==
    \E i \in Free(db.tasks), j \in Free(db.threads), e \in Employees :
        /\ db.orders # <<>>
        /\ Write([db EXCEPT !.tasks = @ @@ (i :> [status |-> "PENDING", assignee |-> e]),
                            !.threads = @ @@ (j :> "RUNNING")])

\* The worker and the API write a task's status over whatever it is by then.
set_status(t, s) == Write([db EXCEPT !.tasks[t].status = s])

mark_processing ==
    \E t \in DOMAIN db.tasks :
        db.tasks[t].status \notin TERMINAL_STATUSES /\ set_status(t, "PROCESSING")

verdict ==
    \E t \in DOMAIN db.tasks, s \in {"APPROVED", "REVIEW_REQUIRED", "REJECTED", "FAILED"} :
        set_status(t, s)

\* A message delivered too often is moved to the dead-letter stream.
dead_letter == \E t \in DOMAIN db.tasks : set_status(t, "DLQ")

\* A submission the queue refused, and its republication.
submission_fails == \E t \in DOMAIN db.tasks : set_status(t, "SUBMISSION_FAILED")

set_submission_pending == \E t \in DOMAIN db.tasks : set_status(t, "PENDING")

decide ==
    \E t \in DOMAIN db.tasks, s \in {"APPROVED", "REJECTED"} :
        db.tasks[t].status = "REVIEW_REQUIRED" /\ set_status(t, s)

ThreadMoves ==
    \E i \in DOMAIN db.threads, s \in {"STABLE", "OVERRIDING", "RUNNING", "TERMINAL"} :
        /\ db.threads[i] \notin {"TERMINAL", s}
        /\ s = "OVERRIDING" => db.threads[i] = "STABLE"
        /\ Write([db EXCEPT !.threads[i] = s])

Upsert == \E i \in Ids \ db.points : Write([db EXCEPT !.points = @ \cup {i}])

Writer == \/ AddOrder \/ AddAccount \/ create_report \/ create \/ mark_processing
          \/ verdict \/ dead_letter \/ submission_fails \/ set_submission_pending
          \/ decide \/ ThreadMoves \/ Upsert

\* Rows that stop meeting the filters are no longer steady.
Written ==
    /\ Writer
    /\ IF walk = None THEN UNCHANGED walk
       ELSE \E f \in {walk.filter} : walk' = [walk EXCEPT !.steady = @ \cap matching(f)']

-----------------------------------------------------------------------------
Init == db \in InitialTables /\ walk = None /\ writes = 0

Client == \/ \E f \in Filters : FirstPage(f) \/ Refused(f)
          \/ NextPage \/ Unavailable \/ OpenVectors \/ ScrollOn \/ AnswerScrolled \/ CloseList

Next == Client \/ Written

Spec == Init /\ [][Next]_vars

-----------------------------------------------------------------------------
(* Properties.                                                             *)

Before(list, a, b) == IF list = "vectors" THEN a < b ELSE a > b

(***************************************************************************)
(* Whatever is written between two pages, a client that follows            *)
(* next_cursor is never shown a row twice, and when it is told there is no *)
(* further page it has been shown every row that met its filters from the  *)
(* first page to the last.                                                 *)
(***************************************************************************)
WalkListsSteadyRows ==
    walk # None =>
        /\ \A i, j \in DOMAIN walk.seen : i < j => Before(walk.filter.list, walk.seen[i], walk.seen[j])
        /\ walk.ended => walk.steady \subseteq Range(walk.seen)

=============================================================================
