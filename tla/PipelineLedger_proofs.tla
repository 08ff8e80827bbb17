------------------------- MODULE PipelineLedger_proofs -------------------------
(***************************************************************************)
(* TLAPS proofs about the dispatch pipeline, third part: the rows of a     *)
(* task.  The task row comes first, the canonical checkpoint only          *)
(* advances, and what is acknowledged has a final status.                  *)
(***************************************************************************)
EXTENDS PipelineLocks_proofs

USE PipelineAssumption

\* A worker only touches the rows of its task.
LEMMA OwnRows ==
    ASSUME TypeInv, NEW w \in Workers, BusyAction(w)
    PROVE  /\ \/ ledger' = ledger
              \/ MarkTask(w) /\ ledger' = [ledger EXCEPT ![task_of(w)] = worker[w].verdict]
              \/ DlqTask(w) /\ ledger' = [ledger EXCEPT ![task_of(w)] = "DLQ"]
           /\ \A t \in Tasks \ {task_of(w)} :
                 /\ ledger'[t] = ledger[t] /\ dispatch'[t] = dispatch[t] /\ audits'[t] = audits[t]
                 /\ published'[t] = published[t] /\ cased'[t] = cased[t]
                 /\ thread'[t] = thread[t] /\ store'[t] = store[t]
<1> DEFINE t == task_of(w)
<1>0. /\ ledger \in [Tasks -> TERMINAL_STATUSES \cup {"NONE", "PENDING", "SUBMISSION_FAILED", "REJECTED"}]
      /\ dispatch \in [Tasks -> {"NONE", "EXECUTED"} \cup AuditStatus]
      /\ audits \in [Tasks -> Seq([result : AuditStatus, human : BOOLEAN])]
      /\ published \in [Tasks -> BOOLEAN] /\ cased \in [Tasks -> BOOLEAN]
      /\ thread \in [Tasks -> [ckpt : Nat, terminal : BOOLEAN]]
      /\ store \in [Tasks -> Seq([pos : Position, parent : Nat])]
  BY Zenon DEF TypeInv, RowsOK, ThreadsOK
<1>1. CASE BeginMessage(w) \/ Reconcile(w) \/ AuditRead(w) \/ GraphFails(w) \/ Ack(w) \/ DlqAdd(w)
  BY <1>1, Zenon DEF BeginMessage, Reconcile, AuditRead, GraphFails, Ack, DlqAdd, ledgerVars, threadVars
<1>2. CASE StartGraph(w)
  <2>1. UNCHANGED <<ledgerVars, store>> /\ (thread' = thread \/ \E c : thread' = [thread EXCEPT ![task_of(w)].ckpt = c])
    BY <1>2, Started, Zenon
  <2> QED BY <1>0, <2>1, Zenon DEF ledgerVars
<1>3. CASE DispatchNode(w)
  <2>1. UNCHANGED <<ledger, audits, published, cased, threadVars>>
    BY <1>3, Dispatched, Zenon
  <2>2. dispatch' = dispatch \/ \E d : dispatch' = [dispatch EXCEPT ![task_of(w)] = d]
    BY <1>3, Dispatched
  <2> QED BY <1>0, <2>1, <2>2, Zenon DEF threadVars
<1>4. CASE WriteCheckpoint(w)
  <2>1. UNCHANGED <<ledgerVars, thread>> /\ \E s : store' = [store EXCEPT ![task_of(w)] = s]
    BY <1>4, Zenon DEF WriteCheckpoint
  <2> QED BY <1>0, <2>1, Zenon DEF ledgerVars
<1>5. CASE SaveDispatch(w) \/ SaveAudit(w)
  <2>1. PICK next : save(w, next)
    BY <1>5, Zenon DEF SaveDispatch, SaveAudit
  <2>2. worker[w].pc # "idle" /\ UNCHANGED <<ledgerVars, store>>
    BY <1>5, Zenon DEF SaveDispatch, SaveAudit
  <2> QED BY <1>0, <2>1, <2>2, Saved DEF ledgerVars
<1>6. CASE AuditInsert(w)
  <2>1. UNCHANGED <<ledger, dispatch, published, cased, threadVars>>
    BY <1>6, Inserted, Zenon
  <2>2. audits' = audits \/ \E s : audits' = [audits EXCEPT ![task_of(w)] = s]
    BY <1>6, Zenon DEF AuditInsert
  <2> QED BY <1>0, <2>1, <2>2, Zenon DEF threadVars
<1>7. CASE MarkThread(w) \/ DlqThread(w)
  <2>1. PICK b : thread' = [thread EXCEPT ![task_of(w)].terminal = b]
    BY <1>7, Zenon DEF MarkThread, DlqThread, terminate
  <2> QED BY <1>0, <1>7, <2>1, Zenon DEF MarkThread, DlqThread, ledgerVars
<1>8. CASE MarkTask(w) \/ DlqTask(w)
  BY <1>0, <1>8, Zenon DEF MarkTask, DlqTask, set_status, threadVars
<1>9. CASE AutoPublish(w) \/ HandleBreakdown(w)
  BY <1>0, <1>9, Zenon DEF AutoPublish, HandleBreakdown, threadVars
<1> QED BY <1>1, <1>2, <1>3, <1>4, <1>5, <1>6, <1>7, <1>8, <1>9, Zenon DEF BusyAction

\* A worker replays only what begin found ended; the run of a graph ends in one
\* of two verdicts.
FreshSteps == {"idle", "lock", "probe", "begin", "reconcile", "thread", "mark_task"} \cup GraphSteps
ReplayOK(x) ==
    /\ x.pc \in FreshSteps => ~x.replay
    /\ x.pc \in {"mark_thread", "mark_task"} /\ ~x.replay => x.verdict \in {"APPROVED", "REVIEW_REQUIRED"}

\* Every worker's local state says truly whether it replays.
ReplayInv == \A w \in Workers : ReplayOK(worker[w])

\* A worker that decides, rather than replays, is never marked as replaying.
LEMMA ReplayStep ==
    ASSUME TypeInv, ReplayInv, [Next]_vars
    PROVE  ReplayInv'
<1> SUFFICES ASSUME NEW v \in Workers, worker'[v] # worker[v] PROVE ReplayOK(worker[v])'
  BY Zenon DEF ReplayInv, ReplayOK
<1>0. ReplayOK(worker[v])
  BY Zenon DEF ReplayInv
<1>1. ASSUME NEW w \in Workers, v = w, BusyAction(w) PROVE ReplayOK(worker[v])'
  <2> USE <1>1
  <2>1. CASE BeginMessage(w)
    BY <1>0, <2>1, Begun, Zenon DEF ReplayOK, FreshSteps, GraphSteps
  <2>2. CASE Reconcile(w)
    BY <1>0, <2>2, Reconciled, Zenon DEF ReplayOK, FreshSteps, GraphSteps
  <2>3. CASE StartGraph(w)
    BY <1>0, <2>3, Started, Zenon DEF ReplayOK, FreshSteps, GraphSteps
  <2>4. CASE DispatchNode(w)
    BY <1>0, <2>4, Dispatched, Zenon DEF ReplayOK, FreshSteps, GraphSteps
  <2>5. CASE WriteCheckpoint(w)
    BY <1>0, <2>5, Written, Zenon DEF ReplayOK, FreshSteps, GraphSteps
  <2>6. CASE SaveDispatch(w) \/ SaveAudit(w)
    <3>1. PICK next : /\ save(w, next) /\ next \in {"audit_read", "mark_thread", "release"}
                      /\ next = "mark_thread" => worker[w].verdict \in {"APPROVED", "REVIEW_REQUIRED"}
      BY <2>6 DEF SaveDispatch, SaveAudit, after_graph
    <3>2. worker[w].pc \in {"save_dispatch", "save_audit"}
      BY <2>6, Zenon DEF SaveDispatch, SaveAudit
    <3> QED BY <1>0, <3>1, <3>2, Saved DEF ReplayOK, FreshSteps, GraphSteps
  <2>7. CASE AuditRead(w)
    BY <1>0, <2>7, Audited, Zenon DEF ReplayOK, FreshSteps, GraphSteps
  <2>8. CASE AuditInsert(w)
    BY <1>0, <2>8, Inserted, Zenon DEF ReplayOK, FreshSteps, GraphSteps
  <2>9. CASE GraphFails(w) \/ MarkTask(w) \/ AutoPublish(w) \/ HandleBreakdown(w) \/ Ack(w) \/ DlqThread(w) \/ DlqTask(w) \/ DlqAdd(w)
    <3>1. PICK pc \in {"publish", "ack", "release", "breakdown", "dlq_task", "dlq_add", "dlq_ack"} : step(w, pc)
      BY <2>9, Zenon DEF GraphFails, MarkTask, AutoPublish, HandleBreakdown, Ack, DlqThread, DlqTask, DlqAdd, after_task, after_publish
    <3> QED BY <3>1, Stepped, Zenon DEF ReplayOK, FreshSteps, GraphSteps
  <2>10. CASE MarkThread(w)
    BY <1>0, <2>10, Stepped DEF MarkThread, after_task, ReplayOK, FreshSteps, GraphSteps
  <2> QED BY <1>1, <2>1, <2>2, <2>3, <2>4, <2>5, <2>6, <2>7, <2>8, <2>9, <2>10, Zenon DEF BusyAction
<1>2. ASSUME NEW w \in Workers, v = w, TakeWork(w) \/ RecoverMessage(w) \/ DlqAck(w) PROVE ReplayOK(worker[v])'
  BY <1>2, IdleFrame, Zenon DEF ReplayOK
<1>3. ASSUME NEW w \in Workers, v = w, AcquireLock(w) \/ Probe(w) PROVE ReplayOK(worker[v])'
  BY <1>0, <1>3, LockFrame, Zenon DEF ReplayOK, FreshSteps
<1>4. ASSUME NEW w \in Workers, v = w, ReleaseLock(w) \/ ProbeRelease(w) \/ WorkerCrash(w) PROVE ReplayOK(worker[v])'
  BY <1>4, ReleaseFrame, Zenon DEF ReplayOK, FreshSteps, GraphSteps
<1>5. CASE UNCHANGED vars
  BY <1>5, Zenon DEF vars
<1>6. CASE Next
  <2>1. ASSUME NEW r \in Requests, RequestStep(r) \/ ApiCrash(r) PROVE FALSE
    BY <2>1, RequestFrame, Zenon
  <2>2. ASSUME NEW t \in Tasks, \/ LockExpires(t) \/ PublishByOperator(t)
                                \/ \E result \in {"APPROVED", "REJECTED"} : Decide(t, result)
        PROVE  FALSE
    BY <2>2, Zenon DEF LockExpires, PublishByOperator, Decide
  <2>3. ASSUME NEW w \in Workers, v # w, BusyAction(w) PROVE FALSE
    BY <2>3, Frame, Zenon
  <2>4. ASSUME NEW w \in Workers, v # w, TakeWork(w) \/ RecoverMessage(w) \/ DlqAck(w) PROVE FALSE
    BY <2>4, IdleFrame, Zenon
  <2>5. ASSUME NEW w \in Workers, v # w, AcquireLock(w) \/ Probe(w) PROVE FALSE
    BY <2>5, LockFrame, Zenon
  <2>6. ASSUME NEW w \in Workers, v # w, ReleaseLock(w) \/ ProbeRelease(w) \/ WorkerCrash(w) PROVE FALSE
    BY <2>6, ReleaseFrame, ZenonT(60)
  <2> QED BY <1>6, <1>1, <1>2, <1>3, <1>4, <2>1, <2>2, <2>3, <2>4, <2>5, <2>6, Cases, Zenon
<1> QED BY <1>5, <1>6, Zenon

\* Ledger rows come first and stay.
RowFirst ==
    /\ \A t \in Tasks : ledger[t] \notin {"COMPLETED", "FAILED"}
    /\ \A i \in 1 .. Len(stream) : ledger[stream[i]] # "NONE"
    /\ \A r \in Requests :
          request[r].pc \in {"publish", "mark_failed", "republish", "set_pending"} => ledger[request[r].task] # "NONE"
    /\ \A t \in Tasks : ledger[t] = "NONE" => thread[t] = NewThread

\* Everything else leaves the rows, the threads, the stream and the requests
\* alone.
LEMMA Quiet ==
    ASSUME TypeInv, [Next]_vars
    PROVE  \/ UNCHANGED <<ledgerVars, threadVars, stream, request>>
           \/ \E r \in Requests : RequestStep(r) \/ ApiCrash(r)
           \/ \E w \in Workers : BusyAction(w)
           \/ \E t \in Tasks : PublishByOperator(t) \/ \E result \in {"APPROVED", "REJECTED"} : Decide(t, result)
<1>1. ASSUME NEW w \in Workers, TakeWork(w) \/ RecoverMessage(w) \/ DlqAck(w)
      PROVE  UNCHANGED <<ledgerVars, threadVars, stream, request>>
  BY <1>1, IdleFrame, Zenon
<1>2. ASSUME NEW w \in Workers, AcquireLock(w) \/ Probe(w)
      PROVE  UNCHANGED <<ledgerVars, threadVars, stream, request>>
  BY <1>2, LockFrame, Zenon DEF queueVars
<1>3. ASSUME NEW w \in Workers, ReleaseLock(w) \/ ProbeRelease(w) \/ WorkerCrash(w)
      PROVE  UNCHANGED <<ledgerVars, threadVars, stream, request>>
  BY <1>3, ReleaseFrame, ZenonT(60) DEF queueVars
<1>4. ASSUME NEW t \in Tasks, LockExpires(t) PROVE UNCHANGED <<ledgerVars, threadVars, stream, request>>
  BY <1>4, ExpiryFrame, Zenon DEF queueVars
<1>5. CASE UNCHANGED vars
  BY <1>5, Zenon DEF vars, queueVars
<1> QED BY <1>1, <1>2, <1>3, <1>4, <1>5, Cases, Zenon

\* What a step of a request does.
LEMMA Requested ==
    ASSUME TypeInv, NEW r \in Requests, RequestStep(r) \/ ApiCrash(r)
    PROVE  LET t == request[r].task IN
           /\ \A q \in Requests \ {r} : request'[q] = request[q]
           /\ request'[r].task \in Tasks
           /\ \/ /\ UNCHANGED <<ledger, thread, stream>>
                 /\ \/ request'[r].pc \in {"begin", "done"}
                    \/ request'[r].pc = "republish" /\ ledger[request'[r].task] = "SUBMISSION_FAILED"
              \/ /\ request[r].pc = "begin" /\ request'[r].pc = "publish" /\ request'[r].task = t
                 /\ ledger[t] = "NONE" /\ ledger' = [ledger EXCEPT ![t] = "PENDING"]
                 /\ thread' = [thread EXCEPT ![t] = NewThread] /\ stream' = stream
              \/ /\ request[r].pc \in {"publish", "republish"} /\ request'[r].task = t
                 /\ \/ stream' = Append(stream, t)
                    \/ limits.flaky /\ stream' = stream
                 /\ \/ request'[r].pc = "done"
                    \/ request'[r].pc = "set_pending" /\ request[r].pc = "republish"
                    \/ request'[r].pc = "mark_failed" /\ limits.flaky
                 /\ UNCHANGED <<ledger, thread>>
              \/ /\ request[r].pc = "mark_failed" /\ request'[r].pc = "done"
                 /\ ledger' = [ledger EXCEPT ![t] = "SUBMISSION_FAILED"] /\ UNCHANGED <<thread, stream>>
              \/ /\ request[r].pc = "set_pending" /\ request'[r].pc = "done"
                 /\ ledger' = [ledger EXCEPT ![t] = "PENDING"] /\ UNCHANGED <<thread, stream>>
<1>0. request \in [Requests -> RequestState] /\ limits \in Situation
  BY Zenon DEF TypeInv, RequestsOK
<1>1. ASSUME NEW pc \in {"begin", "publish", "mark_failed", "republish", "set_pending", "done"}, goto(r, pc),
             request[r].pc # "new"
      PROVE  /\ request'[r].pc = pc /\ request'[r].task = request[r].task /\ request'[r].task \in Tasks
             /\ \A q \in Requests \ {r} : request'[q] = request[q]
  BY <1>0, <1>1, Goto
<1>2. ASSUME NEW t \in limits.tasks, Submit(r, t)
      PROVE  /\ UNCHANGED <<ledger, thread, stream>>
             /\ \/ request'[r].pc \in {"begin", "done"}
                \/ request'[r].pc = "republish" /\ ledger[request'[r].task] = "SUBMISSION_FAILED"
             /\ request'[r].task \in Tasks
             /\ \A q \in Requests \ {r} : request'[q] = request[q]
  BY <1>0, <1>2, Zenon DEF Submit, Situation, ledgerVars, threadVars, queueVars
<1>3. CASE BeginTask(r)
  <2>1. \/ /\ ledger[request[r].task] = "NONE" /\ set_status(request[r].task, "PENDING")
           /\ thread' = [thread EXCEPT ![request[r].task] = NewThread] /\ goto(r, "publish")
        \/ goto(r, "done") /\ UNCHANGED <<ledger, thread>>
    BY <1>3, Zenon DEF BeginTask, key_is_free
  <2>2. request[r].pc = "begin" /\ stream' = stream
    BY <1>3, Zenon DEF BeginTask, queueVars
  <2> QED BY <1>1, <2>1, <2>2, Zenon DEF set_status
<1>4. CASE Publish(r)
  <2>1. PICK pc \in {"done", "set_pending", "mark_failed"} :
            /\ goto(r, pc)
            /\ pc = "set_pending" => request[r].pc = "republish"
            /\ pc = "mark_failed" => limits.flaky
            /\ stream' = Append(stream, request[r].task) \/ (limits.flaky /\ stream' = stream)
    BY <1>4, Zenon DEF Publish, xadd
  <2>2. request[r].pc \in {"publish", "republish"} /\ UNCHANGED <<ledger, thread>>
    BY <1>4, Zenon DEF Publish, ledgerVars, threadVars
  <2> QED BY <1>1, <2>1, <2>2, Zenon
<1>5. CASE MarkSubmissionFailed(r)
  BY <1>1, <1>5, Zenon DEF MarkSubmissionFailed, set_status, threadVars, queueVars
<1>6. CASE SetSubmissionPending(r)
  BY <1>1, <1>6, Zenon DEF SetSubmissionPending, set_status, threadVars, queueVars
<1>7. CASE ApiCrash(r)
  BY <1>1, <1>7, Zenon DEF ApiCrash, ledgerVars, threadVars, queueVars
<1> QED BY <1>2, <1>3, <1>4, <1>5, <1>6, <1>7, Zenon DEF RequestStep

\* The task row comes before the stream entry, the dispatch row and the thread.
LEMMA RowStep ==
    ASSUME TypeInv, ReplayInv, RowFirst, [Next]_vars
    PROVE  RowFirst'
\* A task that has a row keeps one (IdempotencyService.begin never deletes).
<1>RowsStay.
    \A t \in Tasks : ledger'[t] = "NONE" => ledger[t] = "NONE"
  <2>0. ledger \in [Tasks -> TERMINAL_STATUSES \cup {"NONE", "PENDING", "SUBMISSION_FAILED", "REJECTED"}]
    BY Zenon DEF TypeInv, RowsOK
  <2>1. ASSUME NEW w \in Workers, BusyAction(w) PROVE \A t \in Tasks : ledger'[t] = "NONE" => ledger[t] = "NONE"
    <3>1. MarkTask(w) => worker[w].verdict # "NONE"
      BY Zenon DEF MarkTask, TypeInv, WorkersOK, WorkerOK, TERMINAL_STATUSES
    <3> QED BY <2>0, <2>1, <3>1, OwnRows, Zenon
  <2>2. ASSUME NEW r \in Requests, RequestStep(r) \/ ApiCrash(r) PROVE \A t \in Tasks : ledger'[t] = "NONE" => ledger[t] = "NONE"
    <3>1. ledger' = ledger \/ \E t, s : s # "NONE" /\ ledger' = [ledger EXCEPT ![t] = s]
      BY <2>2, Zenon DEF RequestStep, Submit, BeginTask, Publish, MarkSubmissionFailed, SetSubmissionPending, ApiCrash,
                  set_status, ledgerVars
    <3> QED BY <2>0, <3>1, Zenon
  <2>3. ASSUME NEW t \in Tasks, PublishByOperator(t) \/ \E result \in {"APPROVED", "REJECTED"} : Decide(t, result)
        PROVE  \A u \in Tasks : ledger'[u] = "NONE" => ledger[u] = "NONE"
    BY <2>0, <2>3, Zenon DEF PublishByOperator, Decide, set_status
  <2>4. ledger' = ledger => \A t \in Tasks : ledger'[t] = "NONE" => ledger[t] = "NONE"
    BY Zenon
  <2>5. ASSUME NEW w \in Workers, TakeWork(w) \/ RecoverMessage(w) \/ DlqAck(w) PROVE ledger' = ledger
    BY <2>5, IdleFrame, Zenon DEF ledgerVars
  <2>6. ASSUME NEW w \in Workers, AcquireLock(w) \/ Probe(w) PROVE ledger' = ledger
    BY <2>6, LockFrame, Zenon DEF ledgerVars
  <2>7. ASSUME NEW w \in Workers, ReleaseLock(w) \/ ProbeRelease(w) \/ WorkerCrash(w) PROVE ledger' = ledger
    BY <2>7, ReleaseFrame, Zenon DEF ledgerVars
  <2>8. ASSUME NEW t \in Tasks, LockExpires(t) PROVE ledger' = ledger
    BY <2>8, ExpiryFrame, Zenon DEF ledgerVars
  <2>9. CASE UNCHANGED vars
    BY <2>4, <2>9, Zenon DEF vars, ledgerVars
  <2> QED BY <2>1, <2>2, <2>3, <2>4, <2>5, <2>6, <2>7, <2>8, <2>9, Cases, Zenon

<1>0. /\ ledger \in [Tasks -> TERMINAL_STATUSES \cup {"NONE", "PENDING", "SUBMISSION_FAILED", "REJECTED"}]
      /\ thread \in [Tasks -> [ckpt : Nat, terminal : BOOLEAN]]
      /\ stream \in Seq(Tasks) /\ cursor \in 0 .. Len(stream)
      /\ \A r \in Requests : request[r].pc # "new" => request[r].task \in Tasks
  BY Zenon DEF TypeInv, RowsOK, ThreadsOK, QueueOK, RequestsOK
<1>1. CASE UNCHANGED <<ledgerVars, threadVars, stream, request>>
  BY <1>1, Zenon DEF RowFirst, ledgerVars, threadVars
<1>2. ASSUME NEW r \in Requests, RequestStep(r) \/ ApiCrash(r) PROVE RowFirst'
  <2>1. \A t \in Tasks : ledger'[t] \notin {"COMPLETED", "FAILED"}
    BY <1>0, <1>2, Requested DEF RowFirst
  <2>2. \A q \in Requests : request'[q].pc \in {"publish", "mark_failed", "republish", "set_pending"} =>
            ledger'[request'[q].task] # "NONE"
    <3>1. ASSUME NEW q \in Requests, q # r, request'[q].pc \in {"publish", "mark_failed", "republish", "set_pending"}
          PROVE  ledger'[request'[q].task] # "NONE"
      BY <1>0, <1>2, <3>1, Requested, <1>RowsStay DEF RowFirst
    <3>2. request'[r].pc \in {"publish", "mark_failed", "republish", "set_pending"} => ledger'[request'[r].task] # "NONE"
      BY <1>0, <1>2, Requested, <1>RowsStay, SMTT(30) DEF RowFirst
    <3> QED BY <3>1, <3>2, Zenon
  <2>3. \A i \in 1 .. Len(stream') : ledger'[stream'[i]] # "NONE"
    <3>1. CASE stream' = stream
      BY <1>0, <3>1, <1>RowsStay, ElementTyped, Zenon DEF RowFirst
    <3>2. CASE stream' # stream
      <4>1. /\ request[r].pc \in {"publish", "republish"} /\ stream' = Append(stream, request[r].task)
            /\ UNCHANGED ledger
        BY <1>2, <3>2, Requested, Zenon
      <4> QED BY <1>0, <4>1, AppendFacts DEF RowFirst
    <3> QED BY <3>1, <3>2, Zenon
  <2>4. \A t \in Tasks : ledger'[t] = "NONE" => thread'[t] = NewThread
    BY <1>0, <1>2, Requested, <1>RowsStay, ZenonT(60) DEF RowFirst, NewThread
  <2> QED BY <2>1, <2>2, <2>3, <2>4, Zenon DEF RowFirst
<1>3. ASSUME NEW w \in Workers, BusyAction(w) PROVE RowFirst'
  <2>1. UNCHANGED <<stream, request>> /\ task_of(w) \in Tasks
    BY <1>3, Frame, TaskOf, Zenon
  <2>2. MarkTask(w) => worker[w].verdict \in {"APPROVED", "REVIEW_REQUIRED"}
    BY Zenon DEF MarkTask, ReplayInv, ReplayOK, FreshSteps
  <2>3. \A t \in Tasks : ledger'[t] \notin {"COMPLETED", "FAILED"}
    BY <1>0, <1>3, <2>2, OwnRows DEF RowFirst
  <2>4. ledger[task_of(w)] # "NONE"
    <3>1. worker[w].msg \in 1 .. cursor
      BY <1>3, Frame, TaskOf, Zenon
    <3> QED BY <1>0, <3>1 DEF RowFirst, task_of
  <2>5. \A t \in Tasks : ledger'[t] = "NONE" => thread'[t] = NewThread
    BY <1>3, <2>4, <1>RowsStay, OwnRows DEF RowFirst
  <2>6. \A i \in 1 .. Len(stream) : stream[i] \in Tasks
    BY <1>0, ElementTyped, Zenon
  <2> QED BY <1>0, <2>1, <2>3, <2>5, <2>6, <1>RowsStay, Zenon DEF RowFirst
<1>4. ASSUME NEW t \in Tasks, PublishByOperator(t) \/ \E result \in {"APPROVED", "REJECTED"} : Decide(t, result)
      PROVE  RowFirst'
  <2>1. UNCHANGED <<stream, thread, request>>
    BY <1>4, Zenon DEF PublishByOperator, Decide, threadVars, queueVars
  <2>2. \A u \in Tasks : ledger'[u] \notin {"COMPLETED", "FAILED"}
    BY <1>0, <1>4, Zenon DEF PublishByOperator, Decide, set_status, RowFirst
  <2>6. \A i \in 1 .. Len(stream) : stream[i] \in Tasks
    BY <1>0, ElementTyped, Zenon
  <2> QED BY <1>0, <2>1, <2>2, <2>6, <1>RowsStay, Zenon DEF RowFirst
<1> QED BY <1>1, <1>2, <1>3, <1>4, Quiet, Zenon

\* The step of CanonicalAdvances.
CanonicalStep ==
    \A t \in Tasks : thread'[t].ckpt # thread[t].ckpt =>
        /\ thread'[t].ckpt # 0
        /\ store[t][thread'[t].ckpt].parent = thread[t].ckpt

\* So does every step of the system.
LEMMA CanonicalMoves ==
    ASSUME TypeInv, RowFirst, [Next]_vars
    PROVE  CanonicalStep
\* A worker moves the canonical pointer only to a checkpoint that follows it.
<1>Promoted.
    ASSUME NEW w \in Workers, BusyAction(w),
           thread'[task_of(w)].ckpt # thread[task_of(w)].ckpt
    PROVE  thread'[task_of(w)].ckpt \in children(task_of(w), thread[task_of(w)].ckpt)
  <2> USE <1>Promoted
  <2> DEFINE t == task_of(w)
  <2>0. /\ thread \in [Tasks -> [ckpt : Nat, terminal : BOOLEAN]] /\ t \in Tasks
        /\ worker[w].pc # "idle"
    BY TaskOf, Frame, Zenon DEF TypeInv, ThreadsOK
  <2>1. CASE StartGraph(w)
    BY <2>0, <2>1, Started DEF orphans
  <2>2. CASE SaveDispatch(w) \/ SaveAudit(w)
    <3>1. PICK next : save(w, next)
      BY <2>2, Zenon DEF SaveDispatch, SaveAudit
    <3>2. newest(children(t, worker[w].canon)) \subseteq children(t, worker[w].canon)
      BY <2>0, Children, Zenon
    <3>3. PICK k \in children(t, worker[w].canon) :
            can_promote(t, worker[w].canon, k) /\ thread' = [thread EXCEPT ![t].ckpt = k]
      BY <2>0, <3>1, <3>2, Saved, ZenonT(60)
    <3>4. thread'[t].ckpt = k
      BY <2>0, <3>3, Zenon
    <3> QED BY <3>3, <3>4, Zenon DEF can_promote
  <2>3. CASE ~(StartGraph(w) \/ SaveDispatch(w) \/ SaveAudit(w))
    <3>1. thread' = thread \/ \E b : thread' = [thread EXCEPT ![t].terminal = b]
      BY <2>3, Zenon DEF BusyAction, BeginMessage, Reconcile, DispatchNode, WriteCheckpoint, AuditRead, AuditInsert, GraphFails,
                  MarkThread, MarkTask, AutoPublish, HandleBreakdown, Ack, DlqThread, DlqTask, DlqAdd, terminate, threadVars
    <3> QED BY <2>0, <3>1, Zenon
  <2> QED BY <2>1, <2>2, <2>3, Zenon

<1>0. thread \in [Tasks -> [ckpt : Nat, terminal : BOOLEAN]]
  BY Zenon DEF TypeInv, ThreadsOK
<1>1. ASSUME NEW r \in Requests, RequestStep(r) \/ ApiCrash(r) PROVE CanonicalStep
  <2>1. \/ thread' = thread
        \/ \E t : ledger[t] = "NONE" /\ thread' = [thread EXCEPT ![t] = NewThread]
    BY <1>1, Requested, Zenon
  <2>2. \A t \in Tasks : ledger[t] = "NONE" => thread[t] = NewThread
    BY Zenon DEF RowFirst
  <2> QED BY <1>0, <2>1, <2>2, Zenon DEF CanonicalStep
<1>2. ASSUME NEW w \in Workers, BusyAction(w) PROVE CanonicalStep
  <2>1. \A t \in Tasks \ {task_of(w)} : thread'[t] = thread[t]
    BY <1>2, OwnRows, ZenonT(60)
  <2>2. children(task_of(w), thread[task_of(w)].ckpt) \subseteq 1 .. Len(store[task_of(w)])
    BY Zenon DEF children
  <2> QED BY <1>2, <2>1, <2>2, <1>Promoted DEF CanonicalStep, children
<1>3. ASSUME NEW t \in Tasks, PublishByOperator(t) \/ \E result \in {"APPROVED", "REJECTED"} : Decide(t, result)
      PROVE  CanonicalStep
  BY <1>3, Zenon DEF PublishByOperator, Decide, threadVars, CanonicalStep
<1>4. CASE UNCHANGED <<ledgerVars, threadVars, stream, request>>
  BY <1>4, Zenon DEF threadVars, CanonicalStep
<1> QED BY <1>1, <1>2, <1>3, <1>4, Quiet, Zenon

\* At first there are no rows.
LEMMA LedgerInit == Init => RowFirst /\ ReplayInv
BY DEF Init, RowFirst, NewThread, ReplayInv, ReplayOK, IdleWorker, FreshSteps, GraphSteps

\* In every reachable state a task in the stream has a row, a task without a row
\* has an untouched thread, and only a replay is marked as one.
THEOREM LedgerSafe == Spec => [](TypeInv /\ RowFirst /\ ReplayInv)
<1>1. TypeInv /\ RowFirst /\ ReplayInv /\ [Next]_vars => (RowFirst /\ ReplayInv)'
  BY RowStep, ReplayStep, Zenon
<1> QED BY <1>1, LedgerInit, TypeSafe, PTL DEF Spec

\* The canonical checkpoint of a runtime thread only moves to one written right
\* after it, whatever workers, requests and faults do.
THEOREM CanonicalOnlyAdvances == Spec => CanonicalAdvances
<1>1. TypeInv /\ RowFirst /\ [Next]_vars => [CanonicalStep]_vars
  BY CanonicalMoves, Zenon
<1>2. Spec => [][CanonicalStep]_vars
  BY <1>1, LedgerSafe, PTL DEF Spec
<1> QED BY <1>2, PTL DEF CanonicalAdvances, CanonicalStep

\* A message leaves the pending list only by the acknowledgement of a worker.
LEMMA AckedBy ==
    ASSUME TypeInv, [Next]_vars, NEW i \in Messages, acked(i)', ~acked(i)
    PROVE  \E w \in Workers : (Ack(w) \/ DlqAck(w)) /\ worker[w].msg = i
<1>0. /\ pel \in [Messages -> [owner : Workers \cup {None}, count : 0 .. limits.delivery]]
      /\ cursor \in Nat /\ \A j \in Messages : pending(j) => j <= cursor
  BY DEF TypeInv, QueueOK
<1>1. ASSUME NEW w \in Workers, BusyAction(w) PROVE \E v \in Workers : (Ack(v) \/ DlqAck(v)) /\ worker[v].msg = i
  <2>1. CASE Ack(w)
    BY <1>0, <2>1, Zenon DEF Ack, xack, acked, pending
  <2>2. CASE ~Ack(w)
    <3>1. UNCHANGED <<cursor, pel>>
      BY <1>1, <2>2, Zenon DEF BusyAction, BeginMessage, Reconcile, StartGraph, DispatchNode, WriteCheckpoint, SaveDispatch,
             AuditRead, AuditInsert, SaveAudit, GraphFails, MarkThread, MarkTask, AutoPublish, HandleBreakdown,
             DlqThread, DlqTask, DlqAdd, queueVars
    <3> QED BY <3>1, Zenon DEF acked, pending
  <2> QED BY <2>1, <2>2, Zenon
<1>2. ASSUME NEW w \in Workers, TakeWork(w) \/ RecoverMessage(w) \/ DlqAck(w)
      PROVE  \E v \in Workers : (Ack(v) \/ DlqAck(v)) /\ worker[v].msg = i
  <2>1. CASE DlqAck(w)
    BY <1>0, <2>1, Zenon DEF DlqAck, xack, acked, pending
  <2>2. CASE ReadGroup(w)
    <3>1. cursor' = cursor + 1 /\ pel' = [pel EXCEPT ![cursor + 1] = [owner |-> w, count |-> 1]]
      BY <2>2, Zenon DEF ReadGroup
    <3>2. CASE i = cursor + 1
      <4>1. pel'[i].owner = w
        BY <1>0, <3>1, <3>2, Zenon
      <4> QED BY <4>1, Zenon DEF acked, pending
    <3>3. CASE i # cursor + 1
      <4>1. pel'[i] = pel[i] /\ i \in Nat
        BY <1>0, <3>1, <3>3 DEF Messages
      <4>2. i <= cursor' /\ pel[i].owner = None
        BY <4>1, Zenon DEF acked, pending
      <4> QED BY <1>0, <3>1, <3>3, <4>1, <4>2 DEF acked, pending
    <3> QED BY <3>2, <3>3, Zenon
  <2>3. ASSUME NEW S \in SUBSET Messages, ClaimPending(w, S) PROVE FALSE
    <3>1. cursor' = cursor /\ \/ i \in S /\ pel'[i].owner = w
                              \/ i \notin S /\ pel'[i] = pel[i]
      BY <2>3, Zenon DEF ClaimPending
    <3> QED BY <2>3, <3>1, Zenon DEF acked, pending
  <2>4. CASE RecoverMessage(w)
    BY <2>4, Zenon DEF RecoverMessage, queueVars, acked, pending
  <2> QED BY <1>2, <2>1, <2>2, <2>3, <2>4, Zenon DEF TakeWork
<1>3. (UNCHANGED <<cursor, pel>>) => FALSE
  BY Zenon DEF acked, pending
<1>4. ASSUME NEW r \in Requests, RequestStep(r) \/ ApiCrash(r) PROVE UNCHANGED <<cursor, pel>>
  BY <1>4, RequestFrame, Zenon
<1>5. ASSUME NEW w \in Workers, AcquireLock(w) \/ Probe(w) PROVE UNCHANGED <<cursor, pel>>
  BY <1>5, LockFrame, Zenon DEF queueVars
<1>6. ASSUME NEW w \in Workers, ReleaseLock(w) \/ ProbeRelease(w) \/ WorkerCrash(w) PROVE UNCHANGED <<cursor, pel>>
  BY <1>6, ReleaseFrame, ZenonT(60) DEF queueVars
<1>7. ASSUME NEW t \in Tasks, \/ LockExpires(t) \/ PublishByOperator(t)
                              \/ \E result \in {"APPROVED", "REJECTED"} : Decide(t, result)
      PROVE  UNCHANGED <<cursor, pel>>
  BY <1>7, Zenon DEF LockExpires, PublishByOperator, Decide, queueVars
<1>8. CASE UNCHANGED vars
  BY <1>3, <1>8, Zenon DEF vars, queueVars
<1> QED BY <1>1, <1>2, <1>3, <1>4, <1>5, <1>6, <1>7, <1>8, Cases, Zenon

\* Who changed a worker's local state.
LEMMA WorkerCases ==
    ASSUME TypeInv, [Next]_vars, NEW w \in Workers
    PROVE  \/ worker'[w] = worker[w]
           \/ BusyAction(w)
           \/ worker'[w].pc \in {"idle", "lock", "probe", "dlq_thread"}
           \/ worker[w].pc = "lock" /\ worker'[w].pc = "begin"
           \/ worker[w].pc = "probe" /\ worker'[w].pc = "probe_release"
<1>1. ASSUME NEW v \in Workers, v = w, TakeWork(v) \/ RecoverMessage(v) \/ DlqAck(v)
      PROVE worker'[w].pc \in {"idle", "lock", "probe", "dlq_thread"}
  BY <1>1, IdleFrame, Zenon
<1>2. ASSUME NEW v \in Workers, v = w, AcquireLock(v) \/ Probe(v)
      PROVE \/ worker'[w].pc = "idle"
            \/ worker[w].pc = "lock" /\ worker'[w].pc = "begin"
            \/ worker[w].pc = "probe" /\ worker'[w].pc = "probe_release"
  BY <1>2, LockFrame, Zenon
<1>3. ASSUME NEW v \in Workers, v = w, ReleaseLock(v) \/ ProbeRelease(v) \/ WorkerCrash(v)
      PROVE worker'[w].pc \in {"idle", "lock", "probe", "dlq_thread"}
  BY <1>3, ReleaseFrame, Zenon
<1>4. ASSUME NEW v \in Workers, v # w, BusyAction(v) PROVE worker'[w] = worker[w]
  BY <1>4, Frame, Zenon
<1>5. ASSUME NEW v \in Workers, v # w, TakeWork(v) \/ RecoverMessage(v) \/ DlqAck(v) PROVE worker'[w] = worker[w]
  BY <1>5, IdleFrame, Zenon
<1>6. ASSUME NEW v \in Workers, v # w, AcquireLock(v) \/ Probe(v) PROVE worker'[w] = worker[w]
  BY <1>6, LockFrame, Zenon
<1>7. ASSUME NEW v \in Workers, v # w, ReleaseLock(v) \/ ProbeRelease(v) \/ WorkerCrash(v) PROVE worker'[w] = worker[w]
  BY <1>7, ReleaseFrame, Zenon
<1>8. ASSUME NEW r \in Requests, RequestStep(r) \/ ApiCrash(r) PROVE worker'[w] = worker[w]
  BY <1>8, RequestFrame, Zenon
<1>9. ASSUME NEW t \in Tasks, \/ LockExpires(t) \/ PublishByOperator(t)
                              \/ \E result \in {"APPROVED", "REJECTED"} : Decide(t, result)
      PROVE  worker'[w] = worker[w]
  BY <1>9, Zenon DEF LockExpires, PublishByOperator, Decide
<1>10. CASE UNCHANGED vars
  BY <1>10, Zenon DEF vars
<1> QED BY <1>1, <1>2, <1>3, <1>4, <1>5, <1>6, <1>7, <1>8, <1>9, <1>10, Cases, Zenon

Final(t) == ledger[t] \in TERMINAL_STATUSES \cup {"REJECTED"}

\* Where a worker stands when its task must have ended.
Ended(x) ==
    \/ x.pc \in {"publish", "breakdown", "ack", "dlq_add", "dlq_ack"}
    \/ x.pc = "mark_thread" /\ x.replay

NoRetry ==
    /\ \A r \in Requests : request[r].pc \notin {"mark_failed", "republish", "set_pending"}
    /\ \A t \in Tasks : ledger[t] # "SUBMISSION_FAILED"

FinalInv ==
    ~limits.flaky =>
        /\ NoRetry
        /\ \A i \in Messages : acked(i) => Final(stream[i])
        /\ \A w \in Workers : Ended(worker[w]) => Final(task_of(w))

\* Every step keeps acknowledged tasks final.
LEMMA FinalStep ==
    ASSUME TypeInv, ReplayInv, FinalInv, [Next]_vars
    PROVE  FinalInv'
\* A task with a final status keeps one.
<1>FinalStays.
    ASSUME NoRetry, NEW t \in Tasks, Final(t)
    PROVE  Final(t)'
  <2> USE <1>FinalStays
  <2>0. ledger \in [Tasks -> TERMINAL_STATUSES \cup {"NONE", "PENDING", "SUBMISSION_FAILED", "REJECTED"}]
    BY Zenon DEF TypeInv, RowsOK
  <2>1. CASE UNCHANGED <<ledgerVars, threadVars, stream, request>>
    BY <2>1, Zenon DEF Final, ledgerVars
  <2>2. ASSUME NEW r \in Requests, RequestStep(r) \/ ApiCrash(r) PROVE Final(t)'
    <3>1. ledger' = ledger \/ \E u : ledger[u] = "NONE" /\ ledger' = [ledger EXCEPT ![u] = "PENDING"]
      BY <2>2, Requested, Zenon DEF NoRetry
    <3> QED BY <2>0, <3>1, Zenon DEF Final, TERMINAL_STATUSES
  <2>3. ASSUME NEW w \in Workers, BusyAction(w) PROVE Final(t)'
    <3>1. MarkTask(w) => worker[w].verdict \in TERMINAL_STATUSES
      BY Zenon DEF MarkTask, TypeInv, WorkersOK, WorkerOK
    <3> QED BY <2>0, <2>3, <3>1, OwnRows, ZenonT(60) DEF Final, TERMINAL_STATUSES
  <2>4. ASSUME NEW u \in Tasks, PublishByOperator(u) \/ \E result \in {"APPROVED", "REJECTED"} : Decide(u, result)
        PROVE  Final(t)'
    BY <2>0, <2>4, Zenon DEF PublishByOperator, Decide, set_status, Final, TERMINAL_STATUSES
  <2> QED BY <2>1, <2>2, <2>3, <2>4, Quiet, Zenon

\* A worker gets to the end of process_message, or of the dead-letter steps, by
\* making the status of its task final or by finding it final.
<1>EndedBy.
    ASSUME NEW w \in Workers, BusyAction(w), Ended(worker[w])'
    PROVE  Ended(worker[w]) \/ Final(task_of(w))'
  <2> USE <1>EndedBy
  <2>0. /\ ledger \in [Tasks -> TERMINAL_STATUSES \cup {"NONE", "PENDING", "SUBMISSION_FAILED", "REJECTED"}]
        /\ task_of(w)' = task_of(w) /\ task_of(w) \in Tasks /\ ReplayOK(worker[w])
    BY TaskOf, Frame, ZenonT(60) DEF TypeInv, RowsOK, ReplayInv
  <2>1. CASE BeginMessage(w)
    BY <2>0, <2>1, Begun, Zenon DEF Final, Ended, ledgerVars
  <2>2. CASE Reconcile(w)
    BY <2>0, <2>2, Reconciled, Zenon DEF ReplayOK, FreshSteps, Ended
  <2>3. CASE StartGraph(w)
    BY <2>3, Started, Zenon DEF Ended
  <2>4. CASE DispatchNode(w)
    BY <2>4, Dispatched, Zenon DEF Ended
  <2>5. CASE WriteCheckpoint(w)
    BY <2>5, Written, Zenon DEF Ended
  <2>6. CASE SaveDispatch(w) \/ SaveAudit(w)
    <3>1. PICK next : save(w, next) /\ next \in {"audit_read", "mark_thread", "release"}
      BY <2>6, Zenon DEF SaveDispatch, SaveAudit, after_graph
    <3>2. worker[w].pc \in {"save_dispatch", "save_audit"}
      BY <2>6, Zenon DEF SaveDispatch, SaveAudit
    <3> QED BY <2>0, <3>1, <3>2, Saved DEF ReplayOK, FreshSteps, GraphSteps, Ended
  <2>7. CASE AuditRead(w)
    BY <2>7, Audited, Zenon DEF Ended
  <2>8. CASE AuditInsert(w)
    BY <2>8, Inserted, Zenon DEF Ended
  <2>9. CASE GraphFails(w) \/ Ack(w)
    BY <2>9, Stepped DEF GraphFails, Ack, Ended
  <2>10. CASE MarkThread(w)
    <3>1. /\ worker[w].pc = "mark_thread" /\ worker'[w].replay = worker[w].replay
          /\ worker'[w].pc = (IF worker[w].replay THEN after_task(worker[w].verdict) ELSE "mark_task")
      BY <2>10, Stepped, Zenon DEF MarkThread
    <3> QED BY <3>1, Zenon DEF Ended
  <2>11. CASE MarkTask(w)
    <3>1. worker[w].verdict \in TERMINAL_STATUSES
      BY <2>11, Zenon DEF MarkTask, TypeInv, WorkersOK, WorkerOK
    <3> QED BY <2>0, <2>11, <3>1, Zenon DEF MarkTask, set_status, Final
  <2>12. CASE AutoPublish(w) \/ HandleBreakdown(w) \/ DlqAdd(w)
    BY <2>12, ZenonT(60) DEF AutoPublish, HandleBreakdown, DlqAdd, Ended
  <2>13. CASE DlqThread(w)
    <3>1. worker'[w].pc = "dlq_task"
      BY <2>13, Stepped, Zenon DEF DlqThread
    <3> QED BY <3>1, Zenon DEF Ended
  <2>14. CASE DlqTask(w)
    BY <2>0, <2>14, Zenon DEF DlqTask, set_status, Final, TERMINAL_STATUSES
  <2> QED BY <2>1, <2>2, <2>3, <2>4, <2>5, <2>6, <2>7, <2>8, <2>9, <2>10, <2>11, <2>12, <2>13, <2>14, Zenon DEF BusyAction

<1> SUFFICES ASSUME ~limits'.flaky PROVE NoRetry' /\ (\A i \in Messages : acked(i)' => Final(stream[i])')
                                         /\ (\A w \in Workers : Ended(worker[w])' => Final(task_of(w))')
  BY Zenon DEF FinalInv, Messages
<1>0. /\ ledger \in [Tasks -> TERMINAL_STATUSES \cup {"NONE", "PENDING", "SUBMISSION_FAILED", "REJECTED"}]
      /\ stream \in Seq(Tasks) /\ cursor \in 0 .. Len(stream)
      /\ TypeInv'
  BY TypeStep, Zenon DEF TypeInv, RowsOK, QueueOK
<1>1. ~limits.flaky /\ limits' = limits
  BY Cases, Zenon DEF vars
<1>2. NoRetry
  BY <1>1, Zenon DEF FinalInv
<1>3. NoRetry'
  <2>1. CASE UNCHANGED <<ledgerVars, threadVars, stream, request>>
    BY <1>2, <2>1, Zenon DEF NoRetry, ledgerVars
  <2>2. ASSUME NEW r \in Requests, RequestStep(r) \/ ApiCrash(r) PROVE NoRetry'
    <3>1. \A t \in Tasks : ledger'[t] # "SUBMISSION_FAILED"
      BY <1>0, <1>2, <2>2, Requested, ZenonT(60) DEF NoRetry
    <3>2. request'[r].pc \notin {"mark_failed", "republish", "set_pending"} /\ \A q \in Requests \ {r} : request'[q] = request[q]
      BY <1>1, <1>2, <2>2, Requested, ZenonT(60) DEF NoRetry
    <3> QED BY <1>2, <3>1, <3>2, Zenon DEF NoRetry
  <2>3. ASSUME NEW w \in Workers, BusyAction(w) PROVE NoRetry'
    <3>1. MarkTask(w) => worker[w].verdict \in TERMINAL_STATUSES
      BY Zenon DEF MarkTask, TypeInv, WorkersOK, WorkerOK
    <3>2. request' = request
      BY <2>3, Frame, ZenonT(60)
    <3>3. \A t \in Tasks : ledger'[t] # "SUBMISSION_FAILED"
      BY <1>0, <1>2, <2>3, <3>1, OwnRows, ZenonT(60) DEF NoRetry, TERMINAL_STATUSES
    <3> QED BY <1>2, <3>2, <3>3, Zenon DEF NoRetry
  <2>4. ASSUME NEW t \in Tasks, PublishByOperator(t) \/ \E result \in {"APPROVED", "REJECTED"} : Decide(t, result)
        PROVE  NoRetry'
    BY <1>0, <1>2, <2>4, Zenon DEF NoRetry, PublishByOperator, Decide, set_status
  <2> QED BY <2>1, <2>2, <2>3, <2>4, Quiet, Zenon
<1>4. ASSUME NEW w \in Workers, Ended(worker[w])' PROVE Final(task_of(w))'
  <2>1. CASE worker'[w] = worker[w]
    <3>1. worker[w].pc # "idle" /\ Ended(worker[w])
      BY <1>4, <2>1, Zenon DEF Ended
    <3>2. task_of(w)' = task_of(w) /\ task_of(w) \in Tasks
      BY <2>1, <3>1, TaskKept, TaskOf, Zenon DEF task_of
    <3>3. Final(task_of(w))
      BY <1>1, <3>1, Zenon DEF FinalInv
    <3> QED BY <1>2, <3>2, <3>3, <1>FinalStays, Zenon DEF Final
  <2>2. ASSUME BusyAction(w) PROVE Final(task_of(w))'
    <3>1. task_of(w)' = task_of(w) /\ task_of(w) \in Tasks
      BY <2>2, Frame, TaskOf, Zenon
    <3>2. CASE Ended(worker[w])
      <4>1. Final(task_of(w))
        BY <1>1, <3>2, Zenon DEF FinalInv
      <4> QED BY <1>2, <3>1, <4>1, <1>FinalStays, Zenon DEF Final
    <3> QED BY <1>4, <2>2, <3>2, <1>EndedBy, Zenon
  <2>3. worker'[w].pc \notin {"idle", "lock", "probe", "dlq_thread", "begin", "probe_release"}
    BY <1>4, Zenon DEF Ended
  <2> QED BY <2>1, <2>2, <2>3, WorkerCases, Zenon
<1>5. ASSUME NEW i \in Messages, acked(i)' PROVE Final(stream[i])'
  <2>1. CASE acked(i)
    <3>1. i \in 1 .. cursor /\ i \in 1 .. Len(stream) /\ Final(stream[i])
      BY <1>0, <1>1, <2>1 DEF acked, Messages, FinalInv
    <3>2. stream'[i] = stream[i] /\ stream[i] \in Tasks
      BY <1>0, <3>1, TaskKept, ElementTyped, Zenon
    <3> QED BY <1>2, <3>1, <3>2, <1>FinalStays, Zenon DEF Final
  <2>2. CASE ~acked(i)
    <3>1. PICK w \in Workers : (Ack(w) \/ DlqAck(w)) /\ worker[w].msg = i
      BY <1>5, <2>2, AckedBy, Zenon
    <3>2. worker[w].pc \in {"ack", "dlq_ack"} /\ UNCHANGED <<ledger, stream>>
      BY <3>1, Zenon DEF Ack, DlqAck, ledgerVars
    <3>3. Final(task_of(w))
      BY <1>1, <3>2, Zenon DEF FinalInv, Ended
    <3> QED BY <3>1, <3>2, <3>3, Zenon DEF Final, task_of
  <2> QED BY <2>1, <2>2, Zenon
<1> QED BY <1>3, <1>4, <1>5, Zenon

\* At first nothing is acknowledged.
LEMMA FinalInit == Init => FinalInv
BY DEF Init, FinalInv, NoRetry, acked, pending, Ended, IdleWorker, Messages

\* FinalInv holds in every reachable state.
THEOREM FinalSafe == Spec => []FinalInv
<1>1. TypeInv /\ ReplayInv /\ FinalInv /\ [Next]_vars => FinalInv'
  BY FinalStep, Zenon
<1> QED BY <1>1, FinalInit, LedgerSafe, PTL DEF Spec

\* Acknowledge last: an entry that has left the pending list belongs to a task
\* with a final status, also when locks are lost and two workers run the task.
THEOREM AcknowledgedLast == Spec => []AckedHasVerdict
<1>1. FinalInv => AckedHasVerdict
  BY Zenon DEF FinalInv, AckedHasVerdict, Final
<1> QED BY <1>1, FinalSafe, PTL

=============================================================================
