------------------------ MODULE PipelineOutcome_proofs ------------------------
(***************************************************************************)
(* TLAPS proofs about the dispatch pipeline, fifth part: what an approval  *)
(* leads to.  What is published was approved and is never refused, and an  *)
(* acknowledged approval is published, with its breakdown case open.       *)
(***************************************************************************)
EXTENDS PipelineVerdicts_proofs

USE PipelineAssumption

\* Audit rows a without a person's decision; a task with everything done.
HumanFree(a) == \A k \in 1 .. Len(a) : ~a[k].human
Complete(t) == published[t] /\ (t \in Breakdown => cased[t])

\* A published task is approved and was never refused; a task a person refused
\* was one the audit left to a person.
Refusals(l, d, a, p) ==
    /\ p => /\ l \in {"APPROVED", "DLQ"} /\ d # "REJECTED"
            /\ \E k \in 1 .. Len(a) : a[k].result = "APPROVED"
    /\ l = "REVIEW_REQUIRED" /\ a # <<>> => a[1].result = "REVIEW_REQUIRED"
    /\ d = "REJECTED" => l # "APPROVED" /\ a # <<>> /\ a[1].result = "REVIEW_REQUIRED"
    /\ l = "REJECTED" => ~HumanFree(a)

\* What a worker knows of its task at each step.
Doing(x, l, a, p, complete) ==
    /\ Deciding(x) => l \in {"PENDING", "REJECTED", "DLQ"} /\ ~p
    /\ x.pc = "breakdown" => p
    /\ x.pc = "ack" /\ HumanFree(a) /\ l = "APPROVED" => complete
    /\ x.pc = "mark_thread" /\ x.replay /\ x.verdict # "APPROVED" /\ HumanFree(a) => l # "APPROVED"

\* Refusals of a task's rows, and Doing of a worker on its task.
TaskRefusals(t) == Refusals(ledger[t], dispatch[t], audits[t], published[t])
WorkerDoes(w) ==
    LET t == task_of(w) IN Doing(worker[w], ledger[t], audits[t], published[t], Complete(t))

\* An entry is acknowledged without a dead letter only when nothing is left to do.
Settled(i) ==
    LET t == stream[i] IN
    acked(i) /\ dlq[i] = 0 /\ HumanFree(audits[t]) =>
        /\ ledger[t] = "APPROVED" => Complete(t)
        /\ \A w \in Workers : worker[w].pc # "idle" /\ task_of(w) = t => ~Deciding(worker[w])

\* The inductive invariant behind PublishedIsApproved and AckedApprovalIsComplete.
OutcomeInv ==
    Undisturbed =>
        /\ \A t \in Tasks : TaskRefusals(t)
        /\ \A w \in Workers : worker[w].pc # "idle" => WorkerDoes(w)
        /\ \A w \in Workers : worker[w].pc = "dlq_ack" => dlq[worker[w].msg] # 0
        /\ \A i \in Messages : Settled(i)

\* A decision of a person stays in the audit.
LEMMA HumanStays ==
    ASSUME NEW a \in Seq(Row), NEW r \in Row
    PROVE  HumanFree(Append(a, r)) => HumanFree(a) /\ ~r.human
<1> DEFINE b == Append(a, r)
<1>1. /\ Len(b) = Len(a) + 1 /\ b[Len(a) + 1] = r /\ Len(a) \in Nat
      /\ \A k \in 1 .. Len(a) : b[k] = a[k]
  BY AuditGrows, Zenon
<1> HIDE DEF b
<1>2. Len(a) + 1 \in 1 .. Len(b) /\ \A k \in 1 .. Len(a) : k \in 1 .. Len(b)
  BY <1>1
<1>3. HumanFree(b) => HumanFree(a) /\ ~r.human
  BY <1>1, <1>2, Zenon DEF HumanFree
<1> QED BY <1>3, Zenon DEF b

\* Refusals through the steps that change the rows.
LEMMA RefusalsLedger ==
    ASSUME NEW l, NEW d, NEW a, NEW p, Refusals(l, d, a, p)
    PROVE  /\ Refusals("DLQ", d, a, p)
           /\ l = "NONE" => Refusals("PENDING", d, a, p)
           /\ \A v \in {"APPROVED", "REVIEW_REQUIRED"} :
                 ~p /\ (a # <<>> => v = a[1].result) => Refusals(v, d, a, p)
           /\ l = "APPROVED" /\ (\E k \in 1 .. Len(a) : a[k].result = "APPROVED") => Refusals(l, d, a, TRUE)
           /\ \A e : d = "NONE" /\ e # "REJECTED" => Refusals(l, e, a, p)
BY Zenon DEF Refusals

\* The audit node inserts a row for a task that is not yet published.
LEMMA RefusalsInsert ==
    ASSUME NEW l \in {"PENDING", "REJECTED", "DLQ"}, NEW d, NEW a \in Seq(Row), NEW p, ~p, Refusals(l, d, a, p), NEW r \in Row
    PROVE  Refusals(l, d, Append(a, r), p)
<1> DEFINE b == Append(a, r)
<1>1. (HumanFree(b) => HumanFree(a)) /\ (a # <<>> => b # <<>> /\ b[1] = a[1])
  BY HumanStays, AuditGrows
<1> HIDE DEF b
<1>2. Refusals(l, d, b, p)
  BY <1>1, Zenon DEF Refusals
<1> QED BY <1>2, Zenon DEF b

\* A person decides a task that the audit left to a person: it is not published.
LEMMA RefusalsDecide ==
    ASSUME NEW result \in {"APPROVED", "REJECTED"}, NEW d, NEW a \in Seq(Row), a # <<>>, NEW p,
           Refusals("REVIEW_REQUIRED", d, a, p), NEW r \in Row, r.human
    PROVE  Refusals(result, result, Append(a, r), p) /\ ~HumanFree(Append(a, r)) /\ ~p
<1> DEFINE b == Append(a, r)
<1>1. ~HumanFree(b) /\ b # <<>> /\ b[1] = a[1]
  BY HumanStays, AuditGrows
<1> HIDE DEF b
<1>2. Refusals(result, result, b, p) /\ ~p
  BY <1>1, Zenon DEF Refusals
<1> QED BY <1>1, <1>2, Zenon DEF b

\* What anybody but the holder of the lock does to the outcome of a task.
OtherOutcome(t) ==
    /\ published[t] => published'[t]
    /\ cased[t] => cased'[t]
    /\ HumanFree(audits'[t]) => HumanFree(audits[t])
    /\ \/ /\ ledger'[t] = ledger[t] /\ audits'[t] = audits[t]
          /\ published'[t] = published[t] \/ ledger[t] = "APPROVED"
       \/ ledger'[t] = "DLQ" /\ audits'[t] = audits[t] /\ published'[t] = published[t]
       \/ ledger[t] = "NONE" /\ ledger'[t] = "PENDING" /\ audits'[t] = audits[t] /\ published'[t] = published[t]
       \/ ledger[t] = "REVIEW_REQUIRED" /\ ~HumanFree(audits'[t]) /\ published'[t] = published[t]

\* What others do leaves the holder of the lock its obligations.
LEMMA DoingOther ==
    ASSUME NEW t, OtherOutcome(t), NEW x, Doing(x, ledger[t], audits[t], published[t], Complete(t))
    PROVE  Doing(x, ledger'[t], audits'[t], published'[t], Complete(t)')
<1>1. Complete(t) => Complete(t)'
  BY Zenon DEF Complete, OtherOutcome
<1> QED BY <1>1, Zenon DEF Doing, OtherOutcome

\* A step that leaves the outcome of task t alone.
SameOutcome(t) ==
    /\ ledger'[t] = ledger[t] /\ dispatch'[t] = dispatch[t] /\ audits'[t] = audits[t]
    /\ published'[t] = published[t] /\ cased'[t] = cased[t]

\* Leaving the outcome alone is something others do.
LEMMA SameOutcomeOther ==
    ASSUME NEW t, SameOutcome(t)
    PROVE  OtherOutcome(t) /\ (TaskRefusals(t) => TaskRefusals(t)')
BY Zenon DEF SameOutcome, OtherOutcome, TaskRefusals

\* Requests, operators, reviewers, the dead-letter steps and workers on other
\* tasks: none refuses what is published.
LEMMA OthersOutcome ==
    ASSUME TypeInv, NoRetry, ~limits.flaky, RowFirst, [Next]_vars, NEW t \in Tasks, TaskInv(t), TaskRefusals(t),
           \A w \in Workers : BusyAction(w) /\ worker[w].pc \in LockedSteps => task_of(w) # t
    PROVE  OtherOutcome(t) /\ TaskRefusals(t)'
<1>0. /\ ledger \in [Tasks -> TERMINAL_STATUSES \cup {"NONE", "PENDING", "SUBMISSION_FAILED", "REJECTED"}]
      /\ dispatch \in [Tasks -> {"NONE", "EXECUTED"} \cup AuditStatus]
      /\ audits \in [Tasks -> Seq(Row)] /\ audits[t] \in Seq(Row)
      /\ published \in [Tasks -> BOOLEAN] /\ cased \in [Tasks -> BOOLEAN]
  BY Zenon DEF TypeInv, RowsOK, Row
<1>1. CASE UNCHANGED <<ledgerVars, threadVars, stream, request>>
  BY <1>1, SameOutcomeOther, Zenon DEF SameOutcome, ledgerVars
<1>2. ASSUME NEW r \in Requests, RequestStep(r) \/ ApiCrash(r) PROVE OtherOutcome(t) /\ TaskRefusals(t)'
  <2>1. UNCHANGED <<dispatch, audits, published, cased>>
    BY <1>2, RequestFrame, Zenon
  <2>2. ledger' = ledger \/ \E u : ledger[u] = "NONE" /\ ledger' = [ledger EXCEPT ![u] = "PENDING"]
    BY <1>2, Requested, Zenon DEF NoRetry
  <2>3. ledger'[t] = ledger[t] \/ (ledger[t] = "NONE" /\ ledger'[t] = "PENDING")
    BY <1>0, <2>2, Zenon
  <2> QED BY <2>1, <2>3, RefusalsLedger, Zenon DEF OtherOutcome, TaskRefusals
<1>3. ASSUME NEW w \in Workers, BusyAction(w) PROVE OtherOutcome(t) /\ TaskRefusals(t)'
  <2>1. CASE task_of(w) # t
    BY <1>3, <2>1, OwnRows, SameOutcomeOther, Zenon DEF SameOutcome
  <2>2. CASE worker[w].pc \notin LockedSteps
    <3>1. DlqThread(w) \/ DlqTask(w) \/ DlqAdd(w)
      BY <1>3, <2>2, ZenonT(60) DEF BusyAction, BeginMessage, Reconcile, StartGraph, DispatchNode, WriteCheckpoint, SaveDispatch,
             AuditRead, AuditInsert, SaveAudit, GraphFails, MarkThread, MarkTask, AutoPublish, HandleBreakdown, Ack,
             LockedSteps, GraphSteps
    <3>2. CASE DlqThread(w) \/ DlqAdd(w)
      BY <3>2, SameOutcomeOther, Zenon DEF DlqThread, DlqAdd, SameOutcome, ledgerVars
    <3>3. CASE DlqTask(w)
      <4>1. ledger' = [ledger EXCEPT ![task_of(w)] = "DLQ"] /\ UNCHANGED <<dispatch, audits, published, cased>>
        BY <3>3, Zenon DEF DlqTask, set_status
      <4>2. ledger'[t] \in {ledger[t], "DLQ"}
        BY <1>0, <4>1, Zenon
      <4>3. Refusals(ledger'[t], dispatch[t], audits[t], published[t])
        BY <4>2, RefusalsLedger, Zenon DEF TaskRefusals
      <4>4. TaskRefusals(t)'
        BY <4>1, <4>3, Zenon DEF TaskRefusals
      <4>5. OtherOutcome(t)
        BY <4>1, <4>2, Zenon DEF OtherOutcome
      <4> QED BY <4>4, <4>5, Zenon
    <3> QED BY <3>1, <3>2, <3>3, Zenon
  <2> QED BY <1>3, <2>1, <2>2, Zenon
<1>4. ASSUME NEW u \in Tasks, PublishByOperator(u) PROVE OtherOutcome(t) /\ TaskRefusals(t)'
  <2>1. /\ ~published[u] /\ can_publish(u) /\ published' = [published EXCEPT ![u] = TRUE]
        /\ UNCHANGED <<ledger, dispatch, audits, cased>>
    BY <1>4, Zenon DEF PublishByOperator
  <2>2. CASE t # u
    BY <1>0, <2>1, <2>2, SameOutcomeOther, Zenon DEF SameOutcome
  <2>3. CASE t = u
    <3>1. published'[t] = TRUE
      BY <1>0, <2>1, <2>3, Zenon
    <3>2. ledger[t] = "APPROVED" /\ \E k \in 1 .. Len(audits[t]) : audits[t][k].result = "APPROVED"
      BY <1>0, <2>1, <2>3 DEF can_publish, approved_for_publication, RowFirst
    <3>3. TaskRefusals(t)'
      BY <2>1, <3>1, <3>2, RefusalsLedger, Zenon DEF TaskRefusals
    <3> QED BY <2>1, <3>1, <3>2, <3>3, Zenon DEF OtherOutcome
  <2> QED BY <2>2, <2>3, Zenon
<1>5. ASSUME NEW u \in Tasks, NEW result \in {"APPROVED", "REJECTED"}, Decide(u, result)
      PROVE  OtherOutcome(t) /\ TaskRefusals(t)'
  <2> DEFINE row == [result |-> result, human |-> TRUE]
  <2>1. /\ ledger[u] = "REVIEW_REQUIRED" /\ dispatch[u] # "NONE" /\ UNCHANGED <<published, cased>>
        /\ ledger' = [ledger EXCEPT ![u] = result] /\ dispatch' = [dispatch EXCEPT ![u] = result]
        /\ audits' = [audits EXCEPT ![u] = Append(audits[u], row)]
    BY <1>5, Zenon DEF Decide, may_decide, set_status
  <2>2. CASE t # u
    BY <1>0, <2>1, <2>2, SameOutcomeOther, Zenon DEF SameOutcome
  <2>3. CASE t = u
    <3>1. row \in Row /\ row.human
      BY Zenon DEF Row, AuditStatus
    <3> HIDE DEF row
    <3>2. ledger'[t] = result /\ dispatch'[t] = result /\ audits'[t] = Append(audits[t], row)
      BY <1>0, <2>1, <2>3, Zenon
    <3>3. audits[t] # <<>>
      BY <2>1, <2>3, Zenon DEF TaskInv, Backed
    <3>4. /\ Refusals(result, result, Append(audits[t], row), published[t])
          /\ ~HumanFree(Append(audits[t], row))
      BY <1>0, <2>1, <2>3, <3>1, <3>3, RefusalsDecide DEF TaskRefusals
    <3> QED BY <2>1, <2>3, <3>2, <3>4, Zenon DEF OtherOutcome, TaskRefusals
  <2> QED BY <2>2, <2>3, Zenon
<1> QED BY <1>1, <1>2, <1>3, <1>4, <1>5, Quiet, Zenon

\* Only begin makes a worker decide.
LEMMA DecidingBy ==
    ASSUME TypeInv, ReplayInv, NEW w \in Workers, BusyAction(w), Deciding(worker[w])'
    PROVE  \/ Deciding(worker[w])
           \/ BeginMessage(w) /\ ledger[task_of(w)] \notin TERMINAL_STATUSES
<1>0. ReplayOK(worker[w])
  BY Zenon DEF ReplayInv
<1>1. CASE BeginMessage(w)
  BY <1>1, Begun, Zenon DEF Deciding, GraphSteps
<1>2. CASE \/ Reconcile(w) \/ StartGraph(w) \/ DispatchNode(w) \/ WriteCheckpoint(w) \/ SaveDispatch(w)
           \/ AuditRead(w) \/ AuditInsert(w) \/ SaveAudit(w) \/ GraphFails(w) \/ MarkTask(w)
  BY <1>2, Zenon DEF Reconcile, StartGraph, DispatchNode, WriteCheckpoint, SaveDispatch, AuditRead, AuditInsert, SaveAudit,
              GraphFails, MarkTask, Deciding, GraphSteps
<1>3. CASE MarkThread(w)
  <2>1. /\ worker[w].pc = "mark_thread"
        /\ worker'[w].pc = (IF worker[w].replay THEN after_task(worker[w].verdict) ELSE "mark_task")
    BY <1>3, Stepped, Zenon DEF MarkThread
  <2> QED BY <2>1, Zenon DEF Deciding, GraphSteps, after_task
<1>4. CASE AutoPublish(w) \/ HandleBreakdown(w) \/ Ack(w) \/ DlqThread(w) \/ DlqTask(w) \/ DlqAdd(w)
  <2>1. PICK pc \in {"ack", "release", "breakdown", "dlq_task", "dlq_add", "dlq_ack"} : step(w, pc)
    BY <1>4, Zenon DEF AutoPublish, HandleBreakdown, Ack, DlqThread, DlqTask, DlqAdd, after_publish
  <2> QED BY <2>1, Stepped, Zenon DEF Deciding, GraphSteps
<1> QED BY <1>1, <1>2, <1>3, <1>4, Zenon DEF BusyAction

\* A worker that goes on deciding, or gives up, is bound to nothing new.
LEMMA GoesOn ==
    ASSUME NEW x, NEW y, NEW l, NEW a, NEW b, NEW p, NEW c, NEW e, Doing(y, l, a, p, c),
           Deciding(x) => Deciding(y), x.pc \notin {"breakdown", "ack"}, ~(x.pc = "mark_thread" /\ x.replay)
    PROVE  Doing(x, l, b, p, e)
BY Zenon DEF Doing

\* Steps of the holder that leave the rows alone: begin finds a task that was
\* never published or replays its verdict.
LEMMA QuietOutcome ==
    ASSUME TypeInv, ReplayInv, RowFirst, NoRetry, NEW w \in Workers, TaskRefusals(task_of(w)), WorkerDoes(w),
           \/ BeginMessage(w) \/ Reconcile(w) \/ StartGraph(w) \/ WriteCheckpoint(w) \/ SaveDispatch(w)
           \/ AuditRead(w) \/ SaveAudit(w) \/ GraphFails(w) \/ MarkThread(w) \/ Ack(w)
    PROVE  SameOutcome(task_of(w)) /\ WorkerDoes(w)'
<1> DEFINE t == task_of(w)
           x == worker'[w]
           y == worker[w]
<1>0. /\ BusyAction(w) /\ task_of(w)' = t /\ t \in Tasks /\ worker[w].msg \in 1 .. cursor
      /\ cursor \in 0 .. Len(stream) /\ ReplayOK(y)
      /\ ledger \in [Tasks -> TERMINAL_STATUSES \cup {"NONE", "PENDING", "SUBMISSION_FAILED", "REJECTED"}]
  BY Frame, TaskOf, ZenonT(60) DEF BusyAction, ReplayInv, TypeInv, QueueOK, RowsOK
<1>1. UNCHANGED ledgerVars
  BY ZenonT(60) DEF BeginMessage, Reconcile, StartGraph, WriteCheckpoint, SaveDispatch, AuditRead, SaveAudit, GraphFails, MarkThread, Ack
<1>2. SameOutcome(t)
  BY <1>1, ZenonT(60) DEF SameOutcome, ledgerVars
<1>3. Complete(t)' = Complete(t)
  BY <1>0, <1>2, ZenonT(60) DEF Complete, SameOutcome
<1>4. Doing(y, ledger[t], audits[t], published[t], Complete(t))
  BY Zenon DEF WorkerDoes
<1>5. Doing(x, ledger[t], audits[t], published[t], Complete(t))
  <2>1. CASE BeginMessage(w)
    <3>1. ledger[t] \notin {"NONE", "SUBMISSION_FAILED"}
      BY <1>0 DEF RowFirst, NoRetry, task_of
    <3>2. CASE ledger[t] \in TERMINAL_STATUSES
      <4>1. x.pc = "mark_thread" /\ x.verdict = ledger[t] /\ x.replay
        BY <2>1, <3>2, Begun, ZenonT(60)
      <4> QED BY <4>1, Zenon DEF Doing, Deciding, GraphSteps
    <3>3. CASE ledger[t] \notin TERMINAL_STATUSES
      <4>1. x.pc = "reconcile"
        BY <2>1, <3>3, Begun, ZenonT(60)
      <4>2. ledger[t] \in {"PENDING", "REJECTED"} /\ ~published[t]
        BY <1>0, <3>1, <3>3, Zenon DEF TaskRefusals, Refusals, TERMINAL_STATUSES
      <4> QED BY <4>1, <4>2, Zenon DEF Doing
    <3> QED BY <3>2, <3>3, Zenon
  <2>2. CASE MarkThread(w)
    <3>1. /\ y.pc = "mark_thread" /\ x.verdict = y.verdict /\ x.replay = y.replay
          /\ x.pc = (IF y.replay THEN after_task(y.verdict) ELSE "mark_task")
      BY <2>2, Stepped, Zenon DEF MarkThread
    <3>2. CASE y.replay
      BY <1>4, <3>1, <3>2, Zenon DEF Doing, Deciding, GraphSteps, after_task
    <3>3. CASE ~y.replay
      BY <1>4, <3>1, <3>3, Zenon DEF Doing, Deciding
    <3> QED BY <3>2, <3>3, Zenon
  <2>3. CASE ~BeginMessage(w) /\ ~MarkThread(w)
    <3>1. Deciding(x) => Deciding(y)
      BY <1>0, <2>3, DecidingBy, Zenon DEF Deciding
    <3>2. x.pc \notin {"breakdown", "ack"} /\ ~(x.pc = "mark_thread" /\ x.replay)
      <4>1. CASE Ack(w)
        BY <4>1, Stepped DEF Ack
      <4>2. CASE Reconcile(w)
        BY <1>0, <4>2, Reconciled, Zenon DEF ReplayOK, FreshSteps
      <4>3. CASE StartGraph(w)
        BY <4>3, Started, Zenon
      <4>4. CASE WriteCheckpoint(w)
        BY <4>4, Written, ZenonT(60)
      <4>5. CASE SaveDispatch(w) \/ SaveAudit(w)
        <5>1. PICK next : save(w, next) /\ next \in {"audit_read", "mark_thread", "release"}
          BY <4>5, Zenon DEF SaveDispatch, SaveAudit, after_graph
        <5>2. worker[w].pc \in {"save_dispatch", "save_audit"}
          BY <4>5, Zenon DEF SaveDispatch, SaveAudit
        <5> QED BY <1>0, <5>1, <5>2, Saved, Zenon DEF ReplayOK, FreshSteps, GraphSteps
      <4>6. CASE AuditRead(w)
        BY <4>6, Audited, Zenon
      <4>7. CASE GraphFails(w)
        BY <4>7, Stepped DEF GraphFails
      <4> QED BY <2>3, <4>1, <4>2, <4>3, <4>4, <4>5, <4>6, <4>7, Zenon
    <3> QED BY <1>4, <3>1, <3>2, GoesOn, Zenon
  <2> QED BY <2>1, <2>2, <2>3, Zenon
<1>6. Doing(worker'[w], ledger'[t], audits'[t], published'[t], Complete(t)')
  BY <1>2, <1>3, <1>5, Zenon DEF SameOutcome
<1> QED BY <1>0, <1>2, <1>6, ZenonT(60) DEF WorkerDoes

\* What the holder of the lock does to the outcome of its task.
OwnMoves(w) ==
    LET t == task_of(w) IN
    /\ published[t] => published'[t]
    /\ cased[t] => cased'[t]
    /\ HumanFree(audits'[t]) => HumanFree(audits[t])
    /\ Deciding(worker[w]) \/ ledger'[t] = ledger[t]

\* The holder records its plan, and then its verdict, of a task it decides.
LEMMA DispatchOutcome ==
    ASSUME TypeInv, NEW w \in Workers, TaskRefusals(task_of(w)), WorkerDoes(w), DispatchNode(w)
    PROVE  TaskRefusals(task_of(w))' /\ WorkerDoes(w)' /\ OwnMoves(w)
<1> DEFINE t == task_of(w)
           x == worker'[w]
           y == worker[w]
           d == dispatch[t]
           e == dispatch'[t]
<1>0. /\ task_of(w)' = t /\ t \in Tasks
  BY Frame, TaskOf, ZenonT(60) DEF BusyAction
<1>1. y.pc = "dispatch" /\ x.pc = "write_dispatch" /\ UNCHANGED <<ledger, audits, published, cased>>
  BY Dispatched, ZenonT(60) DEF DispatchNode
<1>2. Complete(t)' = Complete(t)
  BY <1>0, <1>1, Zenon DEF Complete
<1>3. e = d \/ (d = "NONE" /\ e # "REJECTED")
  <2>1. dispatch \in [Tasks -> {"NONE", "EXECUTED"} \cup AuditStatus]
    BY Zenon DEF TypeInv, RowsOK
  <2>2. \/ d = "NONE" /\ dispatch' = [dispatch EXCEPT ![t] = row_of(x.pos)]
        \/ dispatch' = dispatch
    BY Dispatched, Zenon
  <2>3. e = d \/ (d = "NONE" /\ e = row_of(x.pos))
    BY <1>0, <2>1, <2>2, Zenon
  <2>4. row_of(x.pos) # "REJECTED"
    <3>1. x.pos \in AfterDispatch
      BY Dispatched, Zenon
    <3> HIDE DEF x
    <3> QED BY <3>1, Zenon DEF row_of, AfterDispatch
  <2> QED BY <2>3, <2>4, Zenon
<1>4. Doing(y, ledger[t], audits[t], published[t], Complete(t)) /\ Refusals(ledger[t], d, audits[t], published[t])
  BY Zenon DEF WorkerDoes, TaskRefusals
<1>5. Refusals(ledger[t], e, audits[t], published[t])
  BY <1>3, <1>4, RefusalsLedger, ZenonT(60)
<1>6. Doing(x, ledger[t], audits[t], published[t], Complete(t))
  BY <1>1, <1>4, GoesOn, Zenon DEF Deciding, GraphSteps
<1>7. ledger'[t] = ledger[t] /\ audits'[t] = audits[t] /\ published'[t] = published[t] /\ cased'[t] = cased[t]
  BY <1>1, Zenon
<1>8. TaskRefusals(t)'
  BY <1>0, <1>5, <1>7, ZenonT(60) DEF TaskRefusals
<1>9. WorkerDoes(w)'
  BY <1>0, <1>2, <1>6, <1>7, Zenon DEF WorkerDoes
<1>10. OwnMoves(w)
  BY <1>7, Zenon DEF OwnMoves
<1> QED BY <1>8, <1>9, <1>10, Zenon

\* The audit node decides a task that is not yet published.
LEMMA InsertOutcome ==
    ASSUME TypeInv, NEW w \in Workers, TaskRefusals(task_of(w)), WorkerDoes(w), AuditInsert(w)
    PROVE  TaskRefusals(task_of(w))' /\ WorkerDoes(w)' /\ OwnMoves(w)
<1> DEFINE t == task_of(w)
           x == worker'[w]
           y == worker[w]
           a == audits[t]
           b == audits'[t]
           r == [result |-> y.verdict, human |-> FALSE]
<1>0. /\ task_of(w)' = t /\ t \in Tasks /\ a \in Seq(Row)
      /\ audits \in [Tasks -> Seq([result : AuditStatus, human : BOOLEAN])]
  BY Frame, TaskOf, RowsTyped, Zenon DEF BusyAction, TypeInv, RowsOK
<1>1. y.pc = "audit_insert" /\ x.pc = "write_audit" /\ UNCHANGED <<ledger, dispatch, published, cased>>
  BY Inserted, Zenon DEF AuditInsert
<1>2. r \in Row
  BY <1>1, WorkerTyped, ZenonT(60) DEF WorkerOK, Row
<1>3. b = a \/ b = Append(a, r)
  BY <1>0, Inserted, ZenonT(60)
<1>4. Complete(t)' = Complete(t)
  BY <1>0, <1>1, Zenon DEF Complete
<1>5. Doing(y, ledger[t], a, published[t], Complete(t)) /\ Refusals(ledger[t], dispatch[t], a, published[t])
  BY Zenon DEF WorkerDoes, TaskRefusals
<1> HIDE DEF a, b, r
<1>6. ledger[t] \in {"PENDING", "REJECTED", "DLQ"} /\ ~published[t]
  BY <1>1, <1>5, Zenon DEF Doing, Deciding, GraphSteps
<1>7. Refusals(ledger[t], dispatch[t], b, published[t]) /\ (HumanFree(b) => HumanFree(a))
  <2>1. CASE b = a
    BY <1>5, <2>1, Zenon
  <2>2. CASE b = Append(a, r)
    <3>1. HumanFree(b) => HumanFree(a)
      BY <1>0, <1>2, <2>2, HumanStays, Zenon
    <3>2. Refusals(ledger[t], dispatch[t], b, published[t])
      BY <1>0, <1>2, <1>5, <1>6, <2>2, RefusalsInsert, ZenonT(60)
    <3> QED BY <3>1, <3>2, Zenon
  <2> QED BY <1>3, <2>1, <2>2, Zenon
<1>8. Doing(x, ledger[t], b, published[t], Complete(t))
  BY <1>1, <1>5, GoesOn, Zenon DEF Deciding, GraphSteps
<1>9. ledger'[t] = ledger[t] /\ dispatch'[t] = dispatch[t] /\ published'[t] = published[t] /\ cased'[t] = cased[t]
  BY <1>1, Zenon
<1>10. TaskRefusals(t)'
  BY <1>0, <1>7, <1>9, Zenon DEF TaskRefusals, b
<1>11. WorkerDoes(w)'
  BY <1>0, <1>4, <1>8, <1>9, Zenon DEF WorkerDoes, b
<1>12. OwnMoves(w)
  BY <1>7, <1>9, Zenon DEF OwnMoves, a, b
<1> QED BY <1>10, <1>11, <1>12, Zenon

\* The task row takes the verdict of the first audit row.
LEMMA MarkOutcome ==
    ASSUME TypeInv, NEW w \in Workers, RunInv(w), TaskRefusals(task_of(w)), WorkerDoes(w), MarkTask(w)
    PROVE  TaskRefusals(task_of(w))' /\ WorkerDoes(w)' /\ OwnMoves(w)
<1> DEFINE t == task_of(w)
           x == worker'[w]
           y == worker[w]
           a == audits[t]
<1>0. /\ task_of(w)' = t /\ t \in Tasks /\ a \in Seq(Row)
      /\ ledger \in [Tasks -> TERMINAL_STATUSES \cup {"NONE", "PENDING", "SUBMISSION_FAILED", "REJECTED"}]
  BY Frame, TaskOf, RowsTyped, Zenon DEF BusyAction, TypeInv, RowsOK
<1>1. /\ y.pc = "mark_task" /\ UNCHANGED <<dispatch, audits, published, cased>>
      /\ ledger' = [ledger EXCEPT ![t] = y.verdict] /\ step(w, after_task(y.verdict))
  BY Zenon DEF MarkTask, set_status
<1>2. /\ ledger'[t] = y.verdict /\ dispatch'[t] = dispatch[t] /\ audits'[t] = a
      /\ published'[t] = published[t] /\ cased'[t] = cased[t]
  BY <1>0, <1>1, Zenon
<1>3. x.pc = after_task(y.verdict) /\ y.verdict \in TERMINAL_STATUSES
  BY <1>1, Stepped, WorkerTyped, ZenonT(60) DEF WorkerOK
<1>4. /\ Doing(y, ledger[t], a, published[t], Complete(t)) /\ Refusals(ledger[t], dispatch[t], a, published[t])
      /\ Running(y, ledger[t], dispatch[t], a, thread[t], store[t])
  BY Zenon DEF WorkerDoes, TaskRefusals, RunInv
<1> HIDE DEF a
<1>5. ~published[t]
  BY <1>1, <1>4, ZenonT(60) DEF Doing, Deciding
<1>6. \/ a = <<>> /\ y.verdict = "REVIEW_REQUIRED"
      \/ a # <<>> /\ y.verdict = a[1].result
  BY <1>1, <1>4, ZenonT(60) DEF Running
<1>7. y.verdict \in {"APPROVED", "REVIEW_REQUIRED"}
  <2>1. CASE a # <<>>
    <3>1. a[1] \in Row
      BY <1>0, <2>1, ElementTyped
    <3> QED BY <1>3, <1>6, <2>1, <3>1, Zenon DEF Row, AuditStatus, TERMINAL_STATUSES
  <2> QED BY <1>6, <2>1, ZenonT(60)
<1>8. Refusals(y.verdict, dispatch[t], a, published[t])
  BY <1>4, <1>5, <1>6, <1>7, RefusalsLedger, ZenonT(60)
<1>9. Doing(x, y.verdict, a, published[t], Complete(t)')
  BY <1>3, Zenon DEF Doing, Deciding, GraphSteps, after_task
<1>10. TaskRefusals(t)'
  BY <1>0, <1>2, <1>8, Zenon DEF TaskRefusals
<1>11. WorkerDoes(w)'
  BY <1>0, <1>2, <1>9, ZenonT(60) DEF WorkerDoes
<1>12. OwnMoves(w)
  BY <1>1, <1>2, Zenon DEF OwnMoves, Deciding, a
<1> QED BY <1>10, <1>11, <1>12, Zenon

\* _auto_publish publishes an approved task, and only a breakdown goes on.
LEMMA PublishOutcome ==
    ASSUME TypeInv, RowFirst, NEW w \in Workers, TaskInv(task_of(w)), TaskRefusals(task_of(w)), WorkerDoes(w), AutoPublish(w)
    PROVE  TaskRefusals(task_of(w))' /\ WorkerDoes(w)' /\ OwnMoves(w)
<1> DEFINE t == task_of(w)
           x == worker'[w]
           y == worker[w]
<1>0. /\ task_of(w)' = t /\ t \in Tasks /\ published \in [Tasks -> BOOLEAN]
  BY Frame, TaskOf, Zenon DEF BusyAction, TypeInv, RowsOK
<1>1. y.pc = "publish" /\ UNCHANGED <<ledger, dispatch, audits, cased>>
  BY Zenon DEF AutoPublish
<1>2. ledger'[t] = ledger[t] /\ dispatch'[t] = dispatch[t] /\ audits'[t] = audits[t] /\ cased'[t] = cased[t]
  BY <1>1, Zenon
<1>3. Refusals(ledger[t], dispatch[t], audits[t], published[t]) /\ Backed(ledger[t], dispatch[t], audits[t])
  BY Zenon DEF TaskRefusals, TaskInv
<1>4. CASE can_publish(t) /\ published' = [published EXCEPT ![t] = TRUE] /\ step(w, after_publish(t))
  <2>1. published'[t] = TRUE /\ x.pc = after_publish(t)
    BY <1>0, <1>4, Stepped, Zenon
  <2>2. published[t] \/ ledger[t] = "APPROVED"
    BY <1>0, <1>4, ZenonT(60) DEF can_publish, approved_for_publication, RowFirst
  <2>3. Refusals(ledger[t], dispatch[t], audits[t], TRUE)
    BY <1>0, <1>3, <2>2, RefusalsLedger, Zenon DEF Backed
  <2>4. TaskRefusals(t)'
    BY <1>0, <1>2, <2>1, <2>3, ZenonT(60) DEF TaskRefusals
  <2>5. x.pc = "ack" => Complete(t)'
    BY <1>0, <2>1, Zenon DEF after_publish, Complete
  <2>6. Doing(x, ledger[t], audits[t], TRUE, Complete(t)')
    BY <2>1, <2>5, Zenon DEF Doing, Deciding, GraphSteps, after_publish
  <2>7. WorkerDoes(w)'
    BY <1>0, <1>2, <2>1, <2>6, Zenon DEF WorkerDoes
  <2>8. OwnMoves(w)
    BY <1>2, <2>1, Zenon DEF OwnMoves
  <2> QED BY <2>4, <2>7, <2>8, Zenon
<1>5. CASE step(w, "release") /\ UNCHANGED published
  <2>1. published'[t] = published[t] /\ x.pc = "release"
    BY <1>5, Stepped, Zenon
  <2>2. TaskRefusals(t)'
    BY <1>0, <1>2, <1>3, <2>1, Zenon DEF TaskRefusals
  <2>3. WorkerDoes(w)'
    BY <1>0, <2>1, ZenonT(60) DEF WorkerDoes, Doing, Deciding, GraphSteps
  <2>4. OwnMoves(w)
    BY <1>2, <2>1, Zenon DEF OwnMoves
  <2> QED BY <2>2, <2>3, <2>4, Zenon
<1> QED BY <1>4, <1>5, Zenon DEF AutoPublish

\* The breakdown case is opened for a published task.
LEMMA BreakdownOutcome ==
    ASSUME TypeInv, NEW w \in Workers, TaskRefusals(task_of(w)), WorkerDoes(w), HandleBreakdown(w)
    PROVE  TaskRefusals(task_of(w))' /\ WorkerDoes(w)' /\ OwnMoves(w)
<1> DEFINE t == task_of(w)
           x == worker'[w]
           y == worker[w]
<1>0. /\ task_of(w)' = t /\ t \in Tasks /\ cased \in [Tasks -> BOOLEAN]
  BY Frame, TaskOf, Zenon DEF BusyAction, TypeInv, RowsOK
<1>1. y.pc = "breakdown" /\ UNCHANGED <<ledger, dispatch, audits, published>>
  BY Zenon DEF HandleBreakdown
<1>2. ledger'[t] = ledger[t] /\ dispatch'[t] = dispatch[t] /\ audits'[t] = audits[t] /\ published'[t] = published[t]
  BY <1>1, Zenon
<1>3. published[t]
  BY <1>1, Zenon DEF WorkerDoes, Doing
<1>4. TaskRefusals(t)'
  BY <1>0, <1>2, Zenon DEF TaskRefusals
<1>5. CASE cased' = [cased EXCEPT ![t] = TRUE] /\ step(w, "ack")
  <2>1. cased'[t] = TRUE /\ x.pc = "ack"
    BY <1>0, <1>5, Stepped, Zenon
  <2>2. Complete(t)'
    BY <1>0, <1>2, <1>3, <2>1, Zenon DEF Complete
  <2>3. WorkerDoes(w)'
    BY <1>0, <2>1, <2>2, Zenon DEF WorkerDoes, Doing, Deciding, GraphSteps
  <2>4. OwnMoves(w)
    BY <1>2, <2>1, Zenon DEF OwnMoves
  <2> QED BY <1>4, <2>3, <2>4, Zenon
<1>6. CASE UNCHANGED cased /\ step(w, "release")
  <2>1. cased'[t] = cased[t] /\ x.pc = "release"
    BY <1>6, Stepped, ZenonT(60)
  <2>3. WorkerDoes(w)'
    BY <1>0, <2>1, ZenonT(60) DEF WorkerDoes, Doing, Deciding, GraphSteps
  <2>4. OwnMoves(w)
    BY <1>2, <2>1, Zenon DEF OwnMoves
  <2> QED BY <1>4, <2>3, <2>4, Zenon
<1> QED BY <1>5, <1>6, Zenon DEF HandleBreakdown

\* Every step of the holder of the lock keeps the outcome of its task in order.
LEMMA OwnOutcome ==
    ASSUME TypeInv, ReplayInv, RowFirst, NoRetry, NEW w \in Workers, BusyAction(w), worker[w].pc \in LockedSteps,
           TaskInv(task_of(w)), RunInv(w), TaskRefusals(task_of(w)), WorkerDoes(w)
    PROVE  TaskRefusals(task_of(w))' /\ WorkerDoes(w)' /\ OwnMoves(w)
<1>0. ~DlqThread(w) /\ ~DlqTask(w) /\ ~DlqAdd(w)
  BY Zenon DEF DlqThread, DlqTask, DlqAdd, LockedSteps, GraphSteps
<1>1. CASE DispatchNode(w)
  BY <1>1, DispatchOutcome, Zenon
<1>2. CASE AuditInsert(w)
  BY <1>2, InsertOutcome, Zenon
<1>3. CASE MarkTask(w)
  BY <1>3, MarkOutcome, Zenon
<1>4. CASE AutoPublish(w)
  BY <1>4, PublishOutcome, Zenon
<1>5. CASE HandleBreakdown(w)
  BY <1>5, BreakdownOutcome, Zenon
<1>6. CASE \/ BeginMessage(w) \/ Reconcile(w) \/ StartGraph(w) \/ WriteCheckpoint(w) \/ SaveDispatch(w)
           \/ AuditRead(w) \/ SaveAudit(w) \/ GraphFails(w) \/ MarkThread(w) \/ Ack(w)
  <2>1. SameOutcome(task_of(w)) /\ WorkerDoes(w)'
    BY <1>6, QuietOutcome, Zenon
  <2>2. task_of(w)' = task_of(w)
    BY Frame, Zenon
  <2>3. TaskRefusals(task_of(w))'
    BY <2>1, <2>2, Zenon DEF SameOutcome, TaskRefusals
  <2>4. OwnMoves(w)
    BY <2>1, Zenon DEF OwnMoves, SameOutcome
  <2> QED BY <2>1, <2>3, <2>4, Zenon
<1> QED BY <1>0, <1>1, <1>2, <1>3, <1>4, <1>5, <1>6, ZenonT(60) DEF BusyAction

\* Dead letters stay in their stream.
LEMMA DlqStays ==
    ASSUME TypeInv, [Next]_vars, NEW i \in Messages
    PROVE  /\ dlq[i] # 0 => dlq'[i] # 0
           /\ \A w \in Workers : DlqAdd(w) /\ worker[w].msg = i => dlq'[i] # 0
<1>0. dlq \in [Messages -> Nat]
  BY Zenon DEF TypeInv, QueueOK
<1>1. ASSUME NEW w \in Workers, DlqAdd(w) PROVE dlq' = [dlq EXCEPT ![worker[w].msg] = @ + 1]
  BY <1>1, Zenon DEF DlqAdd
<1>2. \A w \in Workers : DlqAdd(w) /\ worker[w].msg = i => dlq'[i] # 0
  BY <1>0, <1>1
<1>3. ASSUME NEW w \in Workers, BusyAction(w) PROVE dlq' = dlq \/ DlqAdd(w)
  BY <1>3, ZenonT(60) DEF BusyAction, BeginMessage, Reconcile, StartGraph, DispatchNode, WriteCheckpoint, SaveDispatch,
              AuditRead, AuditInsert, SaveAudit, GraphFails, MarkThread, MarkTask, AutoPublish, HandleBreakdown,
              Ack, DlqThread, DlqTask, queueVars
<1>4. ASSUME NEW w \in Workers, \/ TakeWork(w) \/ RecoverMessage(w) \/ DlqAck(w) \/ AcquireLock(w) \/ Probe(w)
                                \/ ReleaseLock(w) \/ ProbeRelease(w) \/ WorkerCrash(w)
      PROVE  dlq' = dlq
  BY <1>4, IdleFrame, LockFrame, ReleaseFrame, Zenon DEF queueVars
<1>5. ASSUME NEW t \in Tasks, \/ LockExpires(t) \/ PublishByOperator(t)
                              \/ \E result \in {"APPROVED", "REJECTED"} : Decide(t, result)
      PROVE  dlq' = dlq
  BY <1>5, Zenon DEF LockExpires, PublishByOperator, Decide, queueVars
<1>6. ASSUME NEW r \in Requests, RequestStep(r) \/ ApiCrash(r) PROVE dlq' = dlq
  BY <1>6, RequestFrame, Zenon
<1>7. dlq' = dlq \/ \E w \in Workers : DlqAdd(w)
  <2>1. CASE UNCHANGED vars
    BY <2>1, Zenon DEF vars, queueVars
  <2>2. CASE Next
    BY <1>3, <1>4, <1>5, <1>6, <2>2, Cases, Zenon
  <2> QED BY <2>1, <2>2, Zenon
<1>8. dlq[i] # 0 => dlq'[i] # 0
  BY <1>0, <1>1, <1>7
<1> QED BY <1>2, <1>8, Zenon

\* The holder of a task's lock is alone.
LEMMA Alone ==
    ASSUME HolderHasLock, faults.lock = 0, NEW v \in Workers, NEW w \in Workers, task_of(v) \in Tasks,
           worker[v].pc \in LockedSteps, worker[w].pc \in LockedSteps, task_of(v) = task_of(w)
    PROVE  v = w
BY Zenon DEF HolderHasLock, holds_lock

\* Without the lock, and before and after the work, a worker decides nothing.
LEMMA DecidingIsLocked ==
    ASSUME NEW x, x.pc \notin LockedSteps \/ x.pc \in {"begin", "release", "probe_release"}
    PROVE  ~Deciding(x) /\ \A l, a, p, c : Doing(x, l, a, p, c)
BY Zenon DEF Deciding, Doing, LockedSteps, GraphSteps

\* Every step keeps the obligations of every worker.
LEMMA WorkerDoesStep ==
    ASSUME TypeInv, ReplayInv, RowFirst, HolderHasLock, NoRetry, ~limits.flaky, faults.lock = 0, [Next]_vars,
           \A t \in Tasks : TaskInv(t) /\ TaskRefusals(t),
           \A w \in Workers : worker[w].pc \in LockedSteps => RunInv(w) /\ WorkerDoes(w),
           NEW w \in Workers
    PROVE  WorkerDoes(w)'
<1>1. CASE worker'[w].pc \notin LockedSteps \/ worker'[w].pc \in {"begin", "release", "probe_release"}
  BY <1>1, DecidingIsLocked, ZenonT(60) DEF WorkerDoes
<1>2. CASE worker'[w].pc \in LockedSteps /\ BusyAction(w)
  <2>1. worker[w].pc \in LockedSteps /\ task_of(w) \in Tasks
    BY <1>2, Frame, TaskOf, Zenon
  <2> QED BY <1>2, <2>1, OwnOutcome, Zenon
<1>3. CASE worker'[w].pc \in LockedSteps /\ ~BusyAction(w) /\ worker'[w] = worker[w]
  <2> DEFINE t == task_of(w)
  <2>1. worker[w].pc \in LockedSteps /\ worker[w].pc # "idle"
    BY <1>3, Steps, Zenon
  <2>2. t \in Tasks /\ task_of(w)' = t
    BY <1>3, <2>1, TaskOf, TaskKept, Zenon DEF task_of
  <2>3. \A v \in Workers : BusyAction(v) /\ worker[v].pc \in LockedSteps => task_of(v) # t
    BY <1>3, <2>1, <2>2, Alone, Zenon
  <2>4. OtherOutcome(t)
    BY <2>2, <2>3, OthersOutcome, Zenon
  <2>5. Doing(worker[w], ledger[t], audits[t], published[t], Complete(t))
    BY <2>1, Zenon DEF WorkerDoes
  <2>6. Doing(worker[w], ledger'[t], audits'[t], published'[t], Complete(t)')
    <3> HIDE DEF t
    <3>1. ASSUME NEW u, u = t PROVE Doing(worker[w], ledger'[u], audits'[u], published'[u], Complete(u)')
      BY <2>4, <2>5, <3>1, DoingOther, Zenon
    <3>2. t' = t
      BY <2>2, Zenon DEF t
    <3> QED BY <3>1, <3>2, Zenon
  <2> QED BY <1>3, <2>2, <2>6, Zenon DEF WorkerDoes
<1>4. worker'[w].pc \in {"idle", "lock", "probe", "dlq_thread"} => worker'[w].pc \notin LockedSteps
  BY Zenon DEF LockedSteps, GraphSteps
<1> QED BY <1>1, <1>2, <1>3, <1>4, WorkerCases, Zenon

\* Nobody undoes what was complete when an entry was acknowledged.
LEMMA SettledStep ==
    ASSUME TypeInv, ReplayInv, RowFirst, HolderHasLock, NoRetry, ~limits.flaky, faults.lock = 0, [Next]_vars,
           \A t \in Tasks : TaskInv(t) /\ TaskRefusals(t),
           \A w \in Workers : worker[w].pc \in LockedSteps => RunInv(w) /\ WorkerDoes(w),
           \A w \in Workers : worker[w].pc = "dlq_ack" => dlq[worker[w].msg] # 0,
           NEW i \in Messages, acked(i) => Final(stream[i]), Settled(i)
    PROVE  Settled(i)'
<1> DEFINE t == stream[i]
<1> SUFFICES ASSUME acked(i)', dlq'[i] = 0, HumanFree(audits'[stream'[i]])
             PROVE  /\ ledger'[stream'[i]] = "APPROVED" => Complete(stream[i])'
                    /\ \A w \in Workers : worker'[w].pc # "idle" /\ task_of(w)' = stream'[i] => ~Deciding(worker[w])'
  BY ZenonT(60) DEF Settled
<1>0. stream \in Seq(Tasks) /\ cursor \in 0 .. Len(stream) /\ dlq[i] = 0
  BY DlqStays, ZenonT(60) DEF TypeInv, QueueOK
<1>1. acked(i) \/ \E v \in Workers : Ack(v) /\ worker[v].msg = i
  <2>1. ASSUME NEW v \in Workers, DlqAck(v), worker[v].msg = i PROVE FALSE
    BY <1>0, <2>1, ZenonT(60) DEF DlqAck
  <2> QED BY <2>1, AckedBy, ZenonT(60)
<1>2. i \in 1 .. cursor
  <2>1. CASE acked(i)
    <3>1. Len(stream) \in Nat
      BY <1>0
    <3> QED BY <1>0, <2>1, <3>1, AckedRead, Zenon
  <2>2. ASSUME NEW v \in Workers, Ack(v), worker[v].msg = i PROVE i \in 1 .. cursor
    BY <2>2, TaskOf, Zenon DEF Ack
  <2> QED BY <1>1, <2>1, <2>2, ZenonT(60)
<1>3. t \in Tasks /\ stream'[i] = t
  <2>1. i \in 1 .. Len(stream)
    BY <1>0, <1>2
  <2>2. stream[i] \in Tasks
    BY <1>0, <2>1, ElementTyped, Zenon
  <2>3. stream'[i] = stream[i]
    BY <1>2, <2>1, TaskKept, Zenon
  <2> QED BY <2>2, <2>3, Zenon
<1>4. ASSUME NEW v \in Workers, Ack(v), worker[v].msg = i
      PROVE  BusyAction(v) /\ worker[v].pc = "ack" /\ worker[v].pc \in LockedSteps /\ task_of(v) = t
  BY <1>4, Steps, Zenon DEF Ack, BusyAction, task_of
<1>5. ASSUME NEW w \in Workers, worker[w].pc \in LockedSteps, task_of(w) = t, HumanFree(audits[t])
      PROVE  /\ ~Deciding(worker[w])
             /\ ledger[t] = "APPROVED" => Complete(t)
             /\ worker[w].pc = "begin" => ledger[t] \in TERMINAL_STATUSES
  <2>1. CASE acked(i)
    <3>1. ledger[t] # "REJECTED"
      BY <1>3, <1>5, Zenon DEF TaskRefusals, Refusals
    <3>2. Final(t)
      BY <2>1, ZenonT(60)
    <3>3. worker[w].pc # "idle"
      BY <1>5, Steps, ZenonT(60)
    <3> QED BY <1>0, <1>5, <2>1, <3>1, <3>2, <3>3, ZenonT(60) DEF Settled, Final
  <2>2. ASSUME NEW v \in Workers, Ack(v), worker[v].msg = i
        PROVE  w = v /\ worker[w].pc = "ack"
    BY <1>3, <1>4, <1>5, <2>2, Alone, ZenonT(60)
  <2>3. CASE worker[w].pc = "ack"
    <3>1. WorkerDoes(w)
      BY <1>5, Zenon
    <3> QED BY <1>5, <2>3, <3>1, ZenonT(60) DEF WorkerDoes, Doing, Deciding, GraphSteps
  <2> QED BY <1>1, <2>1, <2>2, <2>3, Zenon
<1>6. HumanFree(audits'[t]) /\ acked(i)'
  BY <1>3, Zenon
<1>7. /\ HumanFree(audits[t])
      /\ ledger'[t] = "APPROVED" => Complete(t) /\ (published[t] => published'[t]) /\ (cased[t] => cased'[t])
  <2>1. ASSUME NEW w \in Workers, BusyAction(w), worker[w].pc \in LockedSteps, task_of(w) = t
        PROVE  /\ HumanFree(audits[t])
               /\ ledger'[t] = "APPROVED" => Complete(t) /\ (published[t] => published'[t]) /\ (cased[t] => cased'[t])
    <3>1. OwnMoves(w)
      BY <1>3, <2>1, OwnOutcome, Zenon
    <3>2. /\ published[t] => published'[t]
          /\ cased[t] => cased'[t]
          /\ HumanFree(audits[t])
          /\ Deciding(worker[w]) \/ ledger'[t] = ledger[t]
      BY <1>6, <2>1, <3>1, Zenon DEF OwnMoves
    <3> QED BY <1>5, <2>1, <3>2, ZenonT(60)
  <2>2. CASE \A w \in Workers : BusyAction(w) /\ worker[w].pc \in LockedSteps => task_of(w) # t
    <3>1. OtherOutcome(t)
      BY <1>3, <2>2, OthersOutcome, ZenonT(60)
    <3>2. acked(i)
      BY <1>1, <1>4, <2>2, Zenon
    <3>3. HumanFree(audits[t]) /\ (ledger'[t] = "APPROVED" => ledger[t] = "APPROVED")
      BY <1>6, <3>1, ZenonT(60) DEF OtherOutcome
    <3>4. ledger[t] = "APPROVED" => Complete(t)
      BY <1>0, <3>2, <3>3, ZenonT(60) DEF Settled
    <3> QED BY <3>1, <3>3, <3>4, ZenonT(60) DEF OtherOutcome
  <2> QED BY <2>1, <2>2, ZenonT(60)
<1>8. ledger'[t] = "APPROVED" => Complete(stream[i])'
  BY <1>3, <1>7, ZenonT(60) DEF Complete
<1>9. ASSUME NEW w \in Workers, worker'[w].pc # "idle", task_of(w)' = t, Deciding(worker[w])' PROVE FALSE
  <2>1. CASE BusyAction(w)
    <3>1. task_of(w) = t
      BY <1>9, <2>1, Frame, Zenon
    <3>2. Deciding(worker[w]) \/ (worker[w].pc = "begin" /\ ledger[t] \notin TERMINAL_STATUSES)
      BY <1>9, <2>1, <3>1, DecidingBy, Zenon DEF BeginMessage
    <3>3. worker[w].pc \in LockedSteps
      BY <3>2, Steps, DecidingIsLocked, Zenon
    <3> QED BY <1>5, <1>7, <3>1, <3>2, <3>3, ZenonT(60)
  <2>2. CASE worker'[w] = worker[w]
    <3>1. Deciding(worker[w]) /\ worker[w].pc # "idle"
      BY <1>9, <2>2, Zenon DEF Deciding
    <3>2. task_of(w) = t
      BY <1>9, <2>2, <3>1, TaskKept, Zenon DEF task_of
    <3>3. worker[w].pc \in LockedSteps
      BY <3>1, DecidingIsLocked, ZenonT(60)
    <3> QED BY <1>5, <1>7, <3>1, <3>2, <3>3, ZenonT(60)
  <2>3. worker'[w].pc \notin {"idle", "lock", "probe", "dlq_thread", "begin", "probe_release"}
    BY <1>9, Zenon DEF Deciding, GraphSteps
  <2> QED BY <2>1, <2>2, <2>3, WorkerCases, ZenonT(60)
<1> QED BY <1>3, <1>8, <1>9, Zenon

\* Every step keeps the outcome invariant.
LEMMA OutcomeStep ==
    ASSUME TypeInv, ReplayInv, RowFirst, HolderHasLock, VerdictInv, FinalInv, OutcomeInv, [Next]_vars
    PROVE  OutcomeInv'
<1> SUFFICES ASSUME Undisturbed'
             PROVE  /\ \A t \in Tasks : TaskRefusals(t)'
                    /\ \A w \in Workers : WorkerDoes(w)'
                    /\ \A w \in Workers : worker'[w].pc = "dlq_ack" => dlq'[worker'[w].msg] # 0
                    /\ \A i \in Messages : Settled(i)'
  BY Zenon DEF OutcomeInv, Messages
<1>0. faults.lock = 0 /\ ~limits.flaky /\ Undisturbed
  <2>1. faults'.lock = 0 /\ ~limits'.flaky
    BY Zenon DEF Undisturbed
  <2>2. faults.lock = 0
    BY <2>1, LossCounts, Zenon
  <2>3. limits' = limits
    BY Cases, Zenon DEF vars
  <2> QED BY <2>1, <2>2, <2>3, Zenon DEF Undisturbed
<1>1. NoRetry /\ \A i \in Messages : acked(i) => Final(stream[i])
  BY <1>0, Zenon DEF FinalInv
<1>2. /\ \A t \in Tasks : TaskInv(t) /\ TaskRefusals(t)
      /\ \A w \in Workers : worker[w].pc \in LockedSteps => RunInv(w) /\ WorkerDoes(w)
      /\ \A w \in Workers : worker[w].pc = "dlq_ack" => dlq[worker[w].msg] # 0
      /\ \A i \in Messages : Settled(i)
  BY <1>0, Steps, Zenon DEF VerdictInv, OutcomeInv
<1>3. ASSUME NEW t \in Tasks PROVE TaskRefusals(t)'
  <2>1. ASSUME NEW w \in Workers, BusyAction(w), worker[w].pc \in LockedSteps, task_of(w) = t PROVE TaskRefusals(t)'
    <3>1. TaskRefusals(task_of(w))' /\ task_of(w)' = t
      BY <1>1, <1>2, <2>1, OwnOutcome, Frame, Zenon
    <3> QED BY <3>1, Zenon DEF TaskRefusals
  <2>2. CASE \A w \in Workers : BusyAction(w) /\ worker[w].pc \in LockedSteps => task_of(w) # t
    BY <1>0, <1>1, <1>2, <2>2, OthersOutcome, Zenon
  <2> QED BY <2>1, <2>2, Zenon
<1>4. ASSUME NEW w \in Workers PROVE WorkerDoes(w)'
  BY <1>0, <1>1, <1>2, WorkerDoesStep, Zenon
<1>5. ASSUME NEW w \in Workers, worker'[w].pc = "dlq_ack" PROVE dlq'[worker'[w].msg] # 0
  <2>1. CASE worker'[w] = worker[w]
    <3>1. worker[w].pc # "idle" /\ dlq[worker[w].msg] # 0
      BY <1>2, <1>5, <2>1, Zenon
    <3>2. worker[w].msg \in Messages
      BY <3>1, TaskOf, Zenon
    <3> QED BY <2>1, <3>1, <3>2, DlqStays, ZenonT(60)
  <2>2. CASE BusyAction(w)
    <3>1. worker'[w].msg = worker[w].msg /\ worker[w].msg \in Messages
      BY <2>2, Frame, TaskOf, ZenonT(60)
    <3>2. DlqAdd(w)
      <4>2. ~BeginMessage(w) /\ ~Reconcile(w) /\ ~StartGraph(w) /\ ~DispatchNode(w) /\ ~WriteCheckpoint(w)
        BY <1>5, Begun, Reconciled, Started, Dispatched, Written, ZenonT(60)
      <4>3. ~SaveDispatch(w) /\ ~SaveAudit(w)
        BY <1>5, Saved DEF SaveDispatch, SaveAudit, after_graph
      <4>4. ~AuditRead(w) /\ ~AuditInsert(w)
        BY <1>5, Audited, Inserted, Zenon
      <4>5. /\ ~GraphFails(w) /\ ~MarkThread(w) /\ ~MarkTask(w) /\ ~AutoPublish(w) /\ ~HandleBreakdown(w) /\ ~Ack(w)
            /\ ~DlqThread(w) /\ ~DlqTask(w)
        <5>1. \A pc \in {"release", "ack", "publish", "breakdown", "mark_task", "dlq_task", "dlq_add"} : ~step(w, pc)
          BY <1>5, Stepped, Zenon
        <5> QED BY <5>1, ZenonT(60) DEF GraphFails, MarkThread, MarkTask, AutoPublish, HandleBreakdown, Ack, DlqThread, DlqTask,
                            after_task, after_publish
      <4> QED BY <2>2, <4>2, <4>3, <4>4, <4>5, ZenonT(60) DEF BusyAction
    <3> QED BY <3>1, <3>2, DlqStays, ZenonT(60)
  <2> QED BY <1>5, <2>1, <2>2, WorkerCases, Zenon
<1>6. ASSUME NEW i \in Messages PROVE Settled(i)'
  BY <1>0, <1>1, <1>2, SettledStep, Zenon
<1> QED BY <1>3, <1>4, <1>5, <1>6, Zenon

\* At first nothing is published, refused or acknowledged.
LEMMA OutcomeInit == Init => OutcomeInv
<1> SUFFICES ASSUME Init PROVE OutcomeInv
  BY Zenon
<1>1. ASSUME NEW t \in Tasks PROVE TaskRefusals(t)
  <2>1. ledger[t] = "NONE" /\ dispatch[t] = "NONE" /\ audits[t] = <<>> /\ published[t] = FALSE
    BY Zenon DEF Init
  <2> QED BY <2>1, Zenon DEF TaskRefusals, Refusals
<1>2. ASSUME NEW w \in Workers PROVE worker[w].pc = "idle"
  BY Zenon DEF Init, IdleWorker
<1>3. ASSUME NEW i \in Messages PROVE ~acked(i)
  BY DEF Init, acked, Messages
<1> QED BY <1>1, <1>2, <1>3, ZenonT(60) DEF OutcomeInv, Settled

\* The outcome invariant holds in every reachable state.
THEOREM OutcomeSafe == Spec => []OutcomeInv
<1>1. TypeInv /\ RowFirst /\ ReplayInv /\ HolderHasLock /\ VerdictInv /\ FinalInv /\ OutcomeInv /\ [Next]_vars => OutcomeInv'
  BY OutcomeStep, Zenon
<1> QED BY <1>1, OutcomeInit, VerdictSafe, FinalSafe, PTL DEF Spec

\* What is published was approved by an audit row, and neither the task nor its
\* dispatch row is ever refused afterwards, while no lock is lost under its
\* holder and the queue accepts every entry (PublicationService._publish,
\* ReviewDecisionService.decide).
THEOREM PublicationsAreApproved == Spec => []PublishedIsApproved
<1>1. OutcomeInv => PublishedIsApproved
  BY Zenon DEF OutcomeInv, PublishedIsApproved, TaskRefusals, Refusals
<1> QED BY <1>1, OutcomeSafe, PTL

\* Acknowledge last: an entry that left the pending list without a dead letter,
\* and whose task the audit approved with no decision of a person, is published
\* and its breakdown case is open (process_message), while no lock is lost under
\* its holder and the queue accepts every entry.
THEOREM AcknowledgedApprovalIsComplete == Spec => []AckedApprovalIsComplete
<1>1. ASSUME NEW t \in Tasks, by_person(t) = {} PROVE HumanFree(audits[t])
  BY <1>1, Zenon DEF by_person, HumanFree
<1>2. TypeInv /\ OutcomeInv => AckedApprovalIsComplete
  <2> SUFFICES ASSUME TypeInv, OutcomeInv, NEW i \in Messages, acked(i), dlq[i] = 0, Undisturbed,
                      ledger[stream[i]] = "APPROVED", by_person(stream[i]) = {}
               PROVE  Complete(stream[i])
    BY Zenon DEF AckedApprovalIsComplete, Complete
  <2>1. stream[i] \in Tasks
    <3>1. stream \in Seq(Tasks) /\ cursor \in 0 .. Len(stream)
      BY Zenon DEF TypeInv, QueueOK
    <3>2. i \in 1 .. Len(stream)
      <4>1. Len(stream) \in Nat
        BY <3>1
      <4> QED BY <3>1, <4>1, AckedRead, Zenon
    <3> QED BY <3>1, <3>2, ElementTyped, Zenon
  <2>2. HumanFree(audits[stream[i]])
    BY <1>1, <2>1, Zenon
  <2> QED BY <2>2, Zenon DEF OutcomeInv, Settled
<1> QED BY <1>2, OutcomeSafe, TypeSafe, PTL

=============================================================================
