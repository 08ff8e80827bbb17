--------------------------- MODULE TaskSubmission ---------------------------
(***************************************************************************)
(* From an HTTP request to an entry on the dispatch stream: a driver's     *)
(* anomaly report (AnomalyReportService.submit) or a dispatcher's direct   *)
(* submission (DispatchTaskApiService.submit), both behind the admission   *)
(* control of RateLimit, with several API processes at work.               *)
(*                                                                         *)
(* One step per database transaction or Redis call.  The worker, whose     *)
(* own steps are in DispatchPipeline, appears as the consumer that gives   *)
(* each task one verdict.  A request's own name serves as the uuid of the  *)
(* rows it creates.                                                        *)
(***************************************************************************)
EXTENDS RateLimit, Sequences

CONSTANTS
    Mixes,              \* bounds: the inputs that clients send side by side,
                        \* how many of them and until when
    SourceRow,          \* source task -> its task, order and vehicle columns
    Stripped,           \* what is left of a text when its padding is stripped
    ActiveEmployees,    \* subjects with an active EMPLOYEE account
    Verdicts,           \* outcomes of a task's execution
    MaxFaults,          \* bound: failed Redis calls and API crashes
    None

VARIABLES
    sourceStatus,       \* source task -> status of its row
    reports,            \* report key -> anomaly row
    tasks,              \* dispatch idempotency key -> task row
    verdict,            \* dispatch key -> outcome the worker recorded
    stream, cursor,
    request,
    faults,             \* Redis calls failed and API processes crashed so far
    queueErrors         \* history: keys whose XADD has failed once

ledgerVars == <<sourceStatus, reports, tasks, verdict>>
queueVars == <<stream, cursor>>
historyVars == <<faults, queueErrors>>
vars == <<admissionVars, ledgerVars, queueVars, request, historyVars>>

Requests == UNION {1..m.requests : m \in Mixes}     \* named in the order they arrive
Sources == DOMAIN SourceRow
Inputs == UNION {m.inputs : m \in Mixes}
ReportKeys == {i.key : i \in {j \in Inputs : j.kind = "report"}}
TERMINAL_STATUSES == {"APPROVED", "COMPLETED", "DLQ", "FAILED", "REVIEW_REQUIRED"}
MY_TASK_STATUS_GROUPS ==
    [READY |-> {"APPROVED", "ASSIGNED"},
     WAITING |-> {"PENDING", "QUEUED", "REVIEW_REQUIRED"},
     ACTIVE |-> {"RUNNING", "PROCESSING", "IN_PROGRESS"},
     ENDED |-> {"COMPLETED", "REJECTED", "FAILED", "CANCELLED"}]
REPORTABLE_GROUPS == {"READY", "WAITING", "ACTIVE"}

\* _dispatch_key: a report's task has a key of its own, derived from the report's.
dispatch_key(i) == IF i.kind = "report" THEN <<"anomaly-report", i.key>> ELSE <<i.key>>
Keys == {dispatch_key(i) : i \in {j \in Inputs : j.kind # "read"}}

Idle == [pc |-> "new", in |-> None, answer |-> None]

Init ==
    /\ AdmissionInit
    /\ sourceStatus = [s \in Sources |-> SourceRow[s].status]
    /\ reports = [k \in ReportKeys |-> None]
    /\ tasks = [k \in Keys |-> None]
    /\ verdict = [k \in Keys |-> None]
    /\ stream = << >> /\ cursor = 0
    /\ request = [r \in Requests |-> Idle]
    /\ faults = 0 /\ queueErrors = {}

input(r) == request[r].in
key(r) == dispatch_key(input(r))
goto(r, pc) == request' = [request EXCEPT ![r].pc = pc]
refuse(r, code) == request' = [request EXCEPT ![r].pc = "done", ![r].answer = [code |-> code]]
accept(r, row, duplicate) ==
    request' = [request EXCEPT
        ![r].pc = "done",
        ![r].answer = [code |-> "ACCEPTED", task |-> row.task_id, duplicate |-> duplicate]]

-----------------------------------------------------------------------------
(* Admission, before the handler *)

operation(i) == IF i.kind = "read" THEN "observability_read" ELSE "dispatch_submit"
first_step(i) == CASE i.kind = "report" -> "get_source"
                   [] i.kind = "submit" -> "lookup"
                   [] i.kind = "read" -> "done"

\* require_rate_limit: the request enters its handler, or is answered 429 or 503.
one_more_fault == faults < MaxFaults /\ faults' = faults + 1

\* _normalized: a report is compared and stored stripped, a submission as sent.
normalized(i) == IF i.kind = "report" THEN [i EXCEPT !.content = Stripped[@]] ELSE i

enter(r, i, pc, answer) ==
    request' = [request EXCEPT ![r] = [pc |-> pc, in |-> normalized(i), answer |-> answer]]

Arrive(r, i, now) ==
    LET s == i.subject
        op == operation(i)
    IN
    /\ request[r].pc = "new" /\ \A q \in 1..(r - 1) : request[q].pc # "new"
    /\ \E m \in Mixes :
          /\ r <= m.requests /\ now <= m.until
          /\ {normalized(i)} \cup {input(q) : q \in 1..(r - 1)} \subseteq {normalized(j) : j \in m.inputs}
    /\ \/ /\ AdmitByBucket(s, op, now)
          /\ enter(r, i, first_step(i), None) /\ UNCHANGED faults
       \/ /\ RefuseByBucket(s, op, now)
          /\ enter(r, i, "done", [code |-> "RATE_LIMIT_EXCEEDED"]) /\ UNCHANGED faults
       \/ /\ one_more_fault
          /\ \/ /\ \E p \in Processes : AdmitInEmergency(p, s, op, now)
                /\ enter(r, i, first_step(i), None)
             \/ /\ \E p \in Processes : RefuseInEmergency(p, s, op, now)
                /\ enter(r, i, "done", [code |-> "RATE_LIMIT_EXCEEDED"])
             \/ /\ RefuseUndecided(s, op, now)
                /\ enter(r, i, "done", [code |-> "SECURITY_CONTROL_UNAVAILABLE"])
    /\ UNCHANGED <<ledgerVars, queueVars, queueErrors>>

-----------------------------------------------------------------------------
(* AnomalyReportService.submit *)

task_group(status) == {g \in DOMAIN MY_TASK_STATUS_GROUPS : status \in MY_TASK_STATUS_GROUPS[g]}

\* driver and route fall back on the vehicle's driver and the order's stations
context_complete(row) ==
    /\ row.vehicle
    /\ row.driver \/ row.vehicle_driver
    /\ row.route \/ row.stations

\* get_source_task and the checks on it, in the order of the handler.
GetSource(r) ==
    LET s == input(r).source
        row == SourceRow[s]
        fault == CASE s \notin Sources -> "SOURCE_TASK_NOT_FOUND"
                   [] row.assignee # input(r).subject -> "REPORT_SOURCE_FORBIDDEN"
                   [] row.anomaly -> "SOURCE_TASK_NOT_REPORTABLE"
                   [] task_group(sourceStatus[s]) \cap REPORTABLE_GROUPS = {} -> "SOURCE_TASK_ENDED"
                   [] ~context_complete(row) -> "SOURCE_CONTEXT_INCOMPLETE"
                   [] OTHER -> None
    IN
    /\ request[r].pc = "get_source"
    /\ IF fault = None THEN goto(r, "find_report") ELSE refuse(r, fault)
    /\ UNCHANGED <<admissionVars, ledgerVars, queueVars, historyVars>>

same_report(report, i) ==
    report.source = i.source /\ report.content = i.content /\ report.subject = i.subject

FindReport(r) ==
    LET report == reports[input(r).key] IN
    /\ request[r].pc = "find_report"
    /\ CASE report = None -> goto(r, "create_report")
         [] report # None /\ same_report(report, input(r)) -> goto(r, "lookup")
         [] OTHER -> refuse(r, "IDEMPOTENCY_CONFLICT")
    /\ UNCHANGED <<admissionVars, ledgerVars, queueVars, historyVars>>

anomaly_row(r, i) == [id |-> r, source |-> i.source, content |-> i.content, subject |-> i.subject]

\* create_report: unique(report_idempotency_key) decides a race, and the loser
\* goes on with the winner's row when it says the same.
CreateReport(r) ==
    LET i == input(r) IN
    /\ request[r].pc = "create_report"
    /\ reports' = IF reports[i.key] = None THEN [reports EXCEPT ![i.key] = anomaly_row(r, i)] ELSE reports
    /\ IF same_report(reports'[i.key], i)
         THEN goto(r, "lookup") ELSE refuse(r, "IDEMPOTENCY_CONFLICT")
    /\ UNCHANGED <<admissionVars, sourceStatus, tasks, verdict, queueVars, historyVars>>

-----------------------------------------------------------------------------
(* DispatchTaskApiService.submit *)

order(i) == IF i.kind = "report" THEN SourceRow[i.source].order ELSE i.order
assignee(i) == IF i.kind = "report" \/ i.assignee = None THEN i.subject ELSE i.assignee
names_assignee(i) == i.kind = "report" \/ i.assignee # None
anomaly(i) == IF i.kind = "report" THEN reports[i.key].id ELSE None

\* The report handler does not expect AssigneeNotFoundError.
no_employee(i) == IF i.kind = "report" THEN "INTERNAL_ERROR" ELSE "ASSIGNEE_NOT_FOUND"

\* Mutants of LookupTask: every known task is published again; the row is
\* reopened before the publication instead of after it.
LookupRepublishesAll(r) ==
    /\ request[r].pc = "lookup"
    /\ goto(r, IF tasks[key(r)] = None THEN "begin" ELSE "republish")
    /\ UNCHANGED <<admissionVars, ledgerVars, queueVars, historyVars>>

\* The assignee must be an active employee; then the key is looked up.
LookupTask(r) ==
    LET i == input(r)
        row == tasks[key(r)]
    IN
    /\ request[r].pc = "lookup"
    /\ CASE names_assignee(i) /\ assignee(i) \notin ActiveEmployees -> refuse(r, no_employee(i))
         [] row = None -> goto(r, "begin")
         [] row.order # order(i) \/ row.assignee # assignee(i) -> refuse(r, "IDEMPOTENCY_CONFLICT")
         [] row.status = "SUBMISSION_FAILED" -> goto(r, "republish")
         [] OTHER -> accept(r, row, TRUE)
    /\ UNCHANGED <<admissionVars, ledgerVars, queueVars, historyVars>>

task_row(r, i) ==
    [task_id |-> r, order |-> order(i), assignee |-> assignee(i),
     anomaly |-> anomaly(i), status |-> "PENDING"]

\* IdempotencyService.begin with a fresh task id.  The loser of a race finds a
\* row with another task id under its key, which _existing calls a conflict:
\* an exception of the ledger's own class, which neither handler expects.
BeginTask(r) ==
    /\ request[r].pc = "begin"
    /\ IF tasks[key(r)] = None
         THEN tasks' = [tasks EXCEPT ![key(r)] = task_row(r, input(r))] /\ goto(r, "publish")
         ELSE refuse(r, "INTERNAL_ERROR") /\ UNCHANGED tasks
    /\ UNCHANGED <<admissionVars, sourceStatus, reports, verdict, queueVars, historyVars>>

\* The message is built from the request, with the task's identity.
message(r) == [key |-> key(r), anomaly |-> anomaly(input(r)), content |-> input(r).content]
xadd(r) == stream' = Append(stream, message(r))

Publish(r) ==
    /\ request[r].pc \in {"publish", "republish"}
    /\ xadd(r)
    /\ IF request[r].pc = "publish" THEN accept(r, tasks[key(r)], FALSE) ELSE goto(r, "set_pending")
    /\ UNCHANGED <<admissionVars, ledgerVars, cursor, historyVars>>

\* QueueConnectionError: the entry may have been appended all the same.  A
\* republication leaves the row as it is.
queue_unavailable(r) ==
    request' = [request EXCEPT
        ![r].pc = "done",
        ![r].answer = [code |-> "QUEUE_UNAVAILABLE", task |-> tasks[key(r)].task_id]]

PublishFails(r) ==
    /\ request[r].pc \in {"publish", "republish"}
    /\ one_more_fault
    /\ queueErrors' = queueErrors \cup {key(r)}
    /\ xadd(r) \/ UNCHANGED stream
    /\ IF request[r].pc = "publish" THEN goto(r, "mark_failed") ELSE queue_unavailable(r)
    /\ UNCHANGED <<admissionVars, ledgerVars, cursor>>

\* mark_terminal and _set_submission_pending write whatever the row says now.
set_status(k, status) == tasks' = [tasks EXCEPT ![k].status = status]

\* Mutant: the error is answered and the row left PENDING.
MarkNothing(r) ==
    /\ request[r].pc = "mark_failed"
    /\ queue_unavailable(r)
    /\ UNCHANGED <<admissionVars, ledgerVars, queueVars, historyVars>>

MarkSubmissionFailed(r) ==
    /\ request[r].pc = "mark_failed"
    /\ set_status(key(r), "SUBMISSION_FAILED")
    /\ queue_unavailable(r)
    /\ UNCHANGED <<admissionVars, sourceStatus, reports, verdict, queueVars, historyVars>>

SetSubmissionPending(r) ==
    /\ request[r].pc = "set_pending"
    /\ set_status(key(r), "PENDING")
    /\ accept(r, tasks[key(r)], TRUE)
    /\ UNCHANGED <<admissionVars, sourceStatus, reports, verdict, queueVars, historyVars>>

\* An API process dies: its clients get no answer, its windows are gone.
\* Any of the open requests may be the ones it was serving.
crashed(q) ==
    [q EXCEPT !.pc = "done", !.answer = [code |-> "CRASHED", at |-> q.pc]]

ApiCrash(p, lost) ==
    /\ \A r \in lost : request[r].pc \notin {"new", "done"}
    /\ one_more_fault
    /\ request' = [r \in Requests |-> IF r \in lost THEN crashed(request[r]) ELSE request[r]]
    /\ ForgetWindows(p)
    /\ UNCHANGED <<ledgerVars, queueVars, queueErrors>>

Handle(r) ==
    \/ GetSource(r) \/ FindReport(r) \/ CreateReport(r)
    \/ LookupTask(r) \/ BeginTask(r) \/ Publish(r)
    \/ MarkSubmissionFailed(r) \/ SetSubmissionPending(r)

-----------------------------------------------------------------------------
(* The rest of the system *)

\* A worker takes the next entry.  A terminal row is acknowledged as it is; a
\* task already dispatched and audited gets its recorded verdict back; any
\* other is executed.
Consume ==
    LET k == stream[cursor + 1].key
        recorded == verdict[k] \in {"APPROVED", "REVIEW_REQUIRED"}
    IN
    /\ cursor < Len(stream)
    /\ cursor' = cursor + 1
    /\ IF tasks[k].status \in TERMINAL_STATUSES THEN UNCHANGED <<tasks, verdict>>
       ELSE \E v \in IF recorded THEN {verdict[k]} ELSE Verdicts :
                /\ verdict' = [verdict EXCEPT ![k] = v]
                /\ set_status(k, v)
    /\ UNCHANGED <<admissionVars, sourceStatus, reports, stream, request, historyVars>>

\* ReviewDecisionService.decide on the task reported on: a rejection ends it.
SourceDecided(s) ==
    /\ sourceStatus[s] = "REVIEW_REQUIRED"
    /\ \E decision \in {"APPROVED", "REJECTED"} :
          sourceStatus' = [sourceStatus EXCEPT ![s] = decision]
    /\ UNCHANGED <<admissionVars, reports, tasks, verdict, queueVars, request, historyVars>>

Finished ==
    /\ \A r \in Requests : request[r].pc \in {"new", "done"}
    /\ cursor = Len(stream)
    /\ UNCHANGED vars

Next ==
    \/ \E r \in Requests :
          \/ \E i \in Inputs, now \in clock..MaxClock : Arrive(r, i, now)
          \/ Handle(r) \/ PublishFails(r)
    \/ \E p \in Processes, lost \in SUBSET Requests : ApiCrash(p, lost)
    \/ Consume
    \/ \E s \in Sources : SourceDecided(s)
    \/ Finished

Spec == Init /\ [][Next]_vars

-----------------------------------------------------------------------------

Answered(r, code) == request[r].pc = "done" /\ request[r].answer # None /\ request[r].answer.code = code
Accepted(r) == Answered(r, "ACCEPTED")
Saved(i) ==
    LET row == reports[i.key]
    IN  row.subject = i.subject /\ row.source = i.source /\ row.content = i.content
Queued(k) == \E n \in 1..Len(stream) : stream[n].key = k
Publishing(k) == \E r \in Requests : request[r].pc \in {"publish", "mark_failed"} /\ key(r) = k
AbandonedBeforeQueue(k) ==
    \E r \in Requests : Answered(r, "CRASHED") /\ request[r].answer.at \in {"publish", "mark_failed"}
                        /\ key(r) = k

\* A task that no stream entry announces is being published, or is marked for
\* another publication, or lost its API process between the insert and XADD
\* (DispatchTaskApiService.submit): no other way leads to a silent PENDING row.
UnqueuedIsAccountedFor ==
    \A k \in Keys :
        tasks[k] # None /\ ~Queued(k) =>
            tasks[k].status = "SUBMISSION_FAILED" \/ Publishing(k) \/ AbandonedBeforeQueue(k)

\* The late writes of mark_terminal(SUBMISSION_FAILED) and _set_submission_pending
\* are the only ones that hide a verdict: a row that shows something else than
\* the worker recorded belongs to a task whose XADD failed before.
VerdictShownUnlessQueueFailed ==
    \A k \in Keys :
        verdict[k] # None /\ tasks[k].status # verdict[k] => k \in queueErrors

=============================================================================
