--------------------------- MODULE DispatchPipeline ---------------------------
(***************************************************************************)
(* The path of a dispatch task from the API call that submits it to the    *)
(* acknowledgement of its stream message:                                  *)
(*   - API requests write the task row (the idempotency ledger) and then   *)
(*     publish a message on a Redis stream                                 *)
(*     (services/dispatch_task_api_service.py, idempotency/service.py);    *)
(*   - workers read messages through a consumer group, take back those     *)
(*     left pending, run the agent graph under a Redis lock, and           *)
(*     acknowledge once the outcome is durable                             *)
(*     (workers/dispatch_worker.py, streams/redis_queue.py,                *)
(*     locks/redis_execution_lock.py);                                     *)
(*   - reviewers decide tasks that need a person, and operators publish    *)
(*     (reviews/service.py, publications/service.py).                      *)
(*                                                                         *)
(* A step is one database transaction or one Redis command: everything     *)
(* that happens between two of them is local to its process.  The graph is *)
(* cut at its two durable effects, the dispatch row and the audit row; the *)
(* six agents before them only prepare the state, and any of them failing  *)
(* is GraphFails.  A task stands for one idempotency key.                  *)
(***************************************************************************)
EXTENDS Naturals, Sequences, FiniteSets

CONSTANTS
    Tasks,          \* idempotency keys, one dispatch_tasks row each
    Breakdown,      \* tasks whose anomaly type is VEHICLE_BREAKDOWN
    Workers,        \* consumers of the group
    Requests,       \* HTTP calls that submit a task
    Situations,     \* what a behaviour is set in: see limits
    MaxMessages,    \* bound: entries the stream may get
    None

\* The fields of a situation: who takes part, and the bounds.
\*   tasks, workers, requests: those of Tasks, Workers, Requests that act
\*   delivery:  max_delivery_attempts of the retry policy
\*   crashes:   worker processes that die
\*   losses:    locks that expire under a live holder
\*   cuts:      requests cut off between two of their steps
\*   decisions: reviewer decisions per task
\*   flaky:     may XADD report a connection error?
Situation ==
    [tasks : SUBSET Tasks, workers : SUBSET Workers, requests : SUBSET Requests,
     delivery : Nat \ {0}, crashes : Nat, losses : Nat, cuts : Nat, decisions : Nat, flaky : BOOLEAN]

VARIABLES
    ledger,      \* dispatch_tasks.status
    dispatch,    \* dispatches.status of the task's only row
    audits,      \* audit_records of the task, in id order
    published,   \* is there a dispatch_publications row?
    cased,       \* has the breakdown case been opened?
    thread,      \* runtime_threads row: canonical checkpoint, is it TERMINAL?
    store,       \* checkpoints in Redis, oldest first; their index is their id
    stream,      \* the task stream, append only
    cursor,      \* last-delivered-id of the consumer group
    pel,         \* pending entries list: owner and delivery count
    dlq,         \* entries of the dead-letter stream per message
    lock,        \* execution lock: the holder whose token is stored
    worker,      \* local state of each worker
    request,     \* local state of each API request
    faults,      \* how many of each bounded fault have happened
    limits       \* the situation of this behaviour, which never changes

ledgerVars == <<ledger, dispatch, audits, published, cased>>
queueVars == <<stream, cursor, pel, dlq>>
threadVars == <<thread, store>>
vars == <<ledgerVars, threadVars, queueVars, lock, worker, request, faults, limits>>

Messages == 1 .. MaxMessages
TERMINAL_STATUSES == {"APPROVED", "COMPLETED", "DLQ", "FAILED", "REVIEW_REQUIRED"}
AuditStatus == {"APPROVED", "REVIEW_REQUIRED", "REJECTED"}

ASSUME PipelineAssumption ==
    /\ Breakdown \subseteq Tasks
    /\ Situations \subseteq Situation
    /\ MaxMessages \in Nat
    /\ None \notin Workers \cup Tasks \cup TERMINAL_STATUSES \cup AuditStatus

\* What a checkpoint stands for: before the dispatch node (id 0, none written),
\* after it, or after the audit node, when next_node is null.  After the dispatch node its
\* state decides what the audit will say: "approve", "reject" or "review" about a
\* dispatch row, or "conflicted" when no vehicle could be reserved and there is
\* no row.
AfterDispatch == {"approve", "reject", "review", "conflicted"}
Position == {"start", "end"} \cup AfterDispatch

NewThread == [ckpt |-> 0, terminal |-> FALSE]
IdleWorker ==
    [pc |-> "idle", msg |-> 0, todo |-> {}, verdict |-> None,
     replay |-> FALSE, pos |-> "start", seen |-> FALSE,
     head |-> 0, canon |-> 0]

GraphSteps ==
    {"dispatch", "write_dispatch", "save_dispatch",
     "audit_read", "audit_insert", "write_audit", "save_audit"}
LockedSteps ==
    {"begin", "reconcile", "thread", "mark_thread", "mark_task", "publish",
     "breakdown", "ack", "release", "probe_release"} \cup GraphSteps
WorkerSteps ==
    {"idle", "lock", "probe", "dlq_thread", "dlq_task", "dlq_add", "dlq_ack"} \cup LockedSteps

task_of(w) == stream[worker[w].msg]
pending(i) == pel[i].owner # None
acked(i) == i <= cursor /\ ~pending(i)

Init ==
    /\ ledger = [t \in Tasks |-> "NONE"]
    /\ dispatch = [t \in Tasks |-> "NONE"]
    /\ audits = [t \in Tasks |-> <<>>]
    /\ published = [t \in Tasks |-> FALSE]
    /\ cased = [t \in Tasks |-> FALSE]
    /\ thread = [t \in Tasks |-> NewThread]
    /\ store = [t \in Tasks |-> <<>>]
    /\ stream = <<>>
    /\ cursor = 0
    /\ pel = [i \in Messages |-> [owner |-> None, count |-> 0]]
    /\ dlq = [i \in Messages |-> 0]
    /\ lock = [t \in Tasks |-> None]
    /\ worker = [w \in Workers |-> IdleWorker]
    /\ request = [r \in Requests |-> [pc |-> "new", task |-> None]]
    /\ faults = [crash |-> 0, lock |-> 0, api |-> 0]
    /\ limits \in Situations

-----------------------------------------------------------------------------
(* API: submit and _publish_existing *)

goto(r, pc) == request' = [request EXCEPT ![r].pc = pc]
set_status(t, status) == ledger' = [ledger EXCEPT ![t] = status]
xadd(t) == Len(stream) < MaxMessages /\ stream' = Append(stream, t)

\* submit looks the key up: a fresh key is inserted next, a failed submission
\* is published again, anything else is answered as a duplicate.
Submit(r, t) ==
    /\ request[r].pc = "new"
    /\ request' = [request EXCEPT ![r] =
          [task |-> t,
           pc |-> CASE ledger[t] = "NONE" -> "begin"
                    [] ledger[t] = "SUBMISSION_FAILED" -> "republish"
                    [] OTHER -> "done"]]
    /\ UNCHANGED <<ledgerVars, threadVars, queueVars, lock, worker, faults>>

\* A row may have appeared since the lookup: unique(idempotency_key).
key_unchecked(t) == TRUE
key_is_free(t) == ledger[t] = "NONE"

\* IdempotencyService.begin for a new task: the task row and its runtime thread
\* in one transaction.  The loser of a race on the key gets an exception.
BeginTask(r) ==
    LET t == request[r].task IN
    /\ request[r].pc = "begin"
    /\ IF key_is_free(t)
         THEN /\ set_status(t, "PENDING")
              /\ thread' = [thread EXCEPT ![t] = NewThread]
              /\ goto(r, "publish")
         ELSE goto(r, "done") /\ UNCHANGED <<ledger, thread>>
    /\ UNCHANGED <<dispatch, audits, published, cased, store, queueVars, lock, worker, faults>>

\* XADD.  A connection error tells the caller nothing: the entry may or may not
\* have been appended.
Publish(r) ==
    /\ request[r].pc \in {"publish", "republish"}
    /\ \/ /\ xadd(request[r].task)
          /\ goto(r, IF request[r].pc = "publish" THEN "done" ELSE "set_pending")
       \/ /\ limits.flaky
          /\ xadd(request[r].task) \/ UNCHANGED stream
          /\ goto(r, IF request[r].pc = "publish" THEN "mark_failed" ELSE "done")
    /\ UNCHANGED <<ledgerVars, threadVars, cursor, pel, dlq, lock, worker, faults>>

\* mark_terminal(task_id, "SUBMISSION_FAILED")
MarkSubmissionFailed(r) ==
    /\ request[r].pc = "mark_failed"
    /\ set_status(request[r].task, "SUBMISSION_FAILED")
    /\ goto(r, "done")
    /\ UNCHANGED <<dispatch, audits, published, cased, threadVars, queueVars, lock, worker, faults>>

\* _set_submission_pending, after the entry is already on the stream
SetSubmissionPending(r) ==
    /\ request[r].pc = "set_pending"
    /\ set_status(request[r].task, "PENDING")
    /\ goto(r, "done")
    /\ UNCHANGED <<dispatch, audits, published, cased, threadVars, queueVars, lock, worker, faults>>

\* The API process dies, or its database connection does, between two steps.
ApiCrash(r) ==
    /\ request[r].pc \notin {"new", "done"}
    /\ faults.api < limits.cuts
    /\ faults' = [faults EXCEPT !.api = @ + 1]
    /\ goto(r, "done")
    /\ UNCHANGED <<ledgerVars, threadVars, queueVars, lock, worker>>

-----------------------------------------------------------------------------
(* Redis: consumer group and execution lock *)

step(w, pc) == worker' = [worker EXCEPT ![w].pc = pc]

\* Back to the loop of run_once or recover_once, with the rest of the batch.
finish(w) == worker' = [worker EXCEPT ![w] = [IdleWorker EXCEPT !.todo = worker[w].todo]]

xack(i) == pel' = [pel EXCEPT ![i].owner = None]

\* release deletes the lock only while it still stores this holder's token.
released(t, w) == IF lock[t] = w THEN None ELSE lock[t]

\* read_group with count 1: the next entry nobody has received.
ReadGroup(w) ==
    /\ worker[w].pc = "idle" /\ worker[w].todo = {}
    /\ cursor < Len(stream)
    /\ cursor' = cursor + 1
    /\ pel' = [pel EXCEPT ![cursor + 1] = [owner |-> w, count |-> 1]]
    /\ worker' = [worker EXCEPT ![w].pc = "lock", ![w].msg = cursor + 1]
    /\ UNCHANGED <<ledgerVars, threadVars, stream, dlq, lock, request, faults>>

\* The count is only compared with limits.delivery: it saturates there.
one_more(n) == IF n < limits.delivery THEN n + 1 ELSE n

\* _delivery_counts asks for the consumer's first Cardinality(S) pending
\* entries: a claimed entry behind older ones gets no count, written 0.
delivery_count(w, S, entries, i) ==
    LET older == {j \in Messages : j < i /\ entries[j].owner = w}
    IN  IF Cardinality(older) < Cardinality(S) THEN entries[i].count ELSE 0

\* claim_pending: XAUTOCLAIM takes whatever has been idle long enough, from any
\* consumer, also entries whose worker is alive and still busy with them.
ClaimPending(w, S) ==
    LET entries == [i \in Messages |->
            IF i \in S THEN [owner |-> w, count |-> one_more(pel[i].count)] ELSE pel[i]]
    IN
    /\ worker[w].pc = "idle" /\ worker[w].todo = {}
    /\ S # {}
    /\ \A i \in S : pending(i)
    /\ pel' = entries
    /\ worker' = [worker EXCEPT ![w].todo =
          {[msg |-> i, count |-> delivery_count(w, S, entries, i)] : i \in S}]
    /\ UNCHANGED <<ledgerVars, threadVars, stream, cursor, dlq, lock, request, faults>>

first(todo) == {m \in todo : \A n \in todo : m.msg <= n.msg}

\* RetryPolicy.should_retry
always_retry(count) == TRUE
should_retry(count) == count < limits.delivery

\* _recover_message: no count leaves the entry pending, a count below the limit
\* processes it again, the limit sends it to the dead-letter stream.
RecoverMessage(w) ==
    /\ worker[w].pc = "idle"
    /\ \E m \in first(worker[w].todo) :
         LET next == CASE m.count = 0 -> "idle"
                       [] m.count # 0 /\ should_retry(m.count) -> "lock"
                       [] OTHER -> "probe"
         IN  worker' = [worker EXCEPT ![w].todo = @ \ {m}, ![w].pc = next,
                                      ![w].msg = IF next = "idle" THEN 0 ELSE m.msg]
    /\ UNCHANGED <<ledgerVars, threadVars, queueVars, lock, request, faults>>

lock_ignored(t) == TRUE
lock_free(t) == lock[t] = None

\* process_message takes the lock (SET NX PX); LOCKED leaves the entry pending.
AcquireLock(w) ==
    LET t == task_of(w) IN
    /\ worker[w].pc = "lock"
    /\ IF lock_free(t)
         THEN lock' = [lock EXCEPT ![t] = w] /\ step(w, "begin")
         ELSE UNCHANGED lock /\ finish(w)
    /\ UNCHANGED <<ledgerVars, threadVars, queueVars, request, faults>>

\* The finally clause of process_message
ReleaseLock(w) ==
    /\ worker[w].pc = "release"
    /\ lock' = [lock EXCEPT ![task_of(w)] = released(task_of(w), w)]
    /\ finish(w)
    /\ UNCHANGED <<ledgerVars, threadVars, queueVars, request, faults>>

holds_lock(w, t) == worker[w].pc \in LockedSteps /\ task_of(w) = t

\* The lock's PX runs out after its holder died, or under a live holder whose
\* renewal failed or came too late (_maintain_execution_lock then stops and the
\* execution goes on).
LockExpires(t) ==
    /\ lock[t] # None
    /\ holds_lock(lock[t], t) => faults.lock < limits.losses
    /\ faults' = IF holds_lock(lock[t], t) THEN [faults EXCEPT !.lock = @ + 1] ELSE faults
    /\ lock' = [lock EXCEPT ![t] = None]
    /\ UNCHANGED <<ledgerVars, threadVars, queueVars, worker, request>>

\* A worker process dies, or an exception ends its loop; in the second case the
\* finally clause still releases the lock.  It restarts under the same name.
WorkerCrash(w) ==
    /\ worker[w] # IdleWorker
    /\ faults.crash < limits.crashes
    /\ faults' = [faults EXCEPT !.crash = @ + 1]
    /\ worker' = [worker EXCEPT ![w] = IdleWorker]
    /\ \/ UNCHANGED lock
       \/ /\ worker[w].pc \in LockedSteps
          /\ lock' = [lock EXCEPT ![task_of(w)] = released(task_of(w), w)]
    /\ UNCHANGED <<ledgerVars, threadVars, queueVars, request>>

-----------------------------------------------------------------------------
(* process_message: what has already been done? *)

is_terminal(status) == status \in TERMINAL_STATUSES

\* IdempotencyService.begin for a worker.  The row exists, since the API wrote
\* it before the message: the decision is TERMINAL or IN_PROGRESS, never NEW.
BeginMessage(w) ==
    LET status == ledger[task_of(w)] IN
    /\ worker[w].pc = "begin"
    /\ worker' = IF is_terminal(status)
         THEN [worker EXCEPT ![w].pc = "mark_thread", ![w].verdict = status, ![w].replay = TRUE]
         ELSE [worker EXCEPT ![w].pc = "reconcile"]
    /\ UNCHANGED <<ledgerVars, threadVars, queueVars, lock, request, faults>>

\* reconcile_existing_execution reads one audit row of the dispatch, the oldest;
\* only APPROVED and REVIEW_REQUIRED end the task.
Reconcile(w) ==
    LET t == task_of(w)
        found == dispatch[t] # "NONE" /\ audits[t] # <<>>
    IN
    /\ worker[w].pc = "reconcile"
    /\ worker' = IF found /\ audits[t][1].result \in {"APPROVED", "REVIEW_REQUIRED"}
         THEN [worker EXCEPT ![w].pc = "mark_thread", ![w].verdict = audits[t][1].result]
         ELSE [worker EXCEPT ![w].pc = "thread"]
    /\ UNCHANGED <<ledgerVars, threadVars, queueVars, lock, request, faults>>

-----------------------------------------------------------------------------
(* The graph, from the runtime thread's canonical checkpoint *)

pos_of(t, c) == IF c = 0 THEN "start" ELSE store[t][c].pos
children(t, c) == {k \in 1 .. Len(store[t]) : store[t][k].parent = c}
newest(S) == {k \in S : \A j \in S : j <= k}

\* ThreadCheckpointReconciler.reconcile: a checkpoint that was written after the
\* canonical one but never promoted is promoted now; two are
\* DIVERGENT_ORPHAN_CHECKPOINTS.
orphans(t) == IF thread[t].terminal THEN {} ELSE children(t, thread[t].ckpt)
divergent(t) == \E j, k \in orphans(t) : j # k

\* A thread that has not started runs from its input even when it is TERMINAL;
\* otherwise TERMINAL or next_node null refuses (RUNTIME_THREAD_TERMINAL,
\* BoundaryClaimConflict).
runnable(t, c) == c = 0 \/ (pos_of(t, c) # "end" /\ ~thread[t].terminal)

\* _runtime_thread, then run_new or claim_next_node and resume.
StartGraph(w) ==
    LET t == task_of(w)
        c == IF orphans(t) = {} THEN thread[t].ckpt ELSE CHOOSE k \in orphans(t) : TRUE
    IN
    /\ worker[w].pc = "thread"
    /\ IF ~divergent(t)
         THEN thread' = [thread EXCEPT ![t].ckpt = c]
         ELSE UNCHANGED thread
    /\ worker' = IF ~divergent(t) /\ runnable(t, c)
         THEN [worker EXCEPT ![w].pc = IF c = 0 THEN "dispatch" ELSE "audit_read",
                             ![w].pos = pos_of(t, c), ![w].head = c, ![w].canon = c]
         ELSE [worker EXCEPT ![w].pc = "release"]
    /\ UNCHANGED <<ledgerVars, store, queueVars, lock, request, faults>>

\* An agent, a provider, a boundary claim or the checkpoint store fails: the
\* result is FAILED and the entry stays pending.
GraphFails(w) ==
    /\ worker[w].pc \in GraphSteps \cup {"thread"}
    /\ step(w, "release")
    /\ UNCHANGED <<ledgerVars, threadVars, queueVars, lock, request, faults>>

\* The outcomes of execute for a plan that needs no person, needs one, or finds
\* no vehicle, and the row each leaves.
row_of(p) ==
    CASE p \in {"approve", "reject"} -> "EXECUTED"
      [] p = "review" -> "REVIEW_REQUIRED"
      [] p = "conflicted" -> "NONE"

\* A row read back as REVIEW_REQUIRED sends the task to a person whatever the
\* plan; any other row leaves it to the plan of this run.
read_back(row) == IF row = "REVIEW_REQUIRED" THEN {"review"} ELSE {"approve", "reject", "review"}

\* DispatchService.execute creates the task's row or reads it back (unique task
\* id); when no candidate vehicle can be reserved there is no row at all.
DispatchNode(w) ==
    LET t == task_of(w) IN
    /\ worker[w].pc = "dispatch"
    /\ \E p \in IF dispatch[t] = "NONE" THEN AfterDispatch ELSE read_back(dispatch[t]) :
         /\ dispatch' = IF dispatch[t] = "NONE" THEN [dispatch EXCEPT ![t] = row_of(p)] ELSE dispatch
         /\ worker' = [worker EXCEPT ![w].pc = "write_dispatch", ![w].pos = p]
    /\ UNCHANGED <<ledger, audits, published, cased, threadVars, queueVars, lock, request, faults>>

\* The node is done and its checkpoint is written to Redis, after the head of
\* this run: not canonical until promote_checkpoint accepts it.
WriteCheckpoint(w) ==
    LET t == task_of(w)
        p == IF worker[w].pc = "write_dispatch" THEN worker[w].pos ELSE "end"
    IN
    /\ worker[w].pc \in {"write_dispatch", "write_audit"}
    /\ store' = [store EXCEPT ![t] = Append(@, [pos |-> p, parent |-> worker[w].head])]
    /\ worker' = [worker EXCEPT ![w].head = Len(store[t]) + 1,
                                ![w].pc = IF @ = "write_dispatch" THEN "save_dispatch" ELSE "save_audit"]
    /\ UNCHANGED <<ledgerVars, thread, queueVars, lock, request, faults>>

\* promote_checkpoint(expected c, new k): accepts what is canonical already, and
\* otherwise compares and swaps, never on a TERMINAL thread.
can_promote(t, c, k) == thread[t].ckpt = k \/ (thread[t].ckpt = c /\ ~thread[t].terminal)

\* _latest_boundary and _promote: the newest checkpoint that follows the one this
\* runner knows as canonical, which may be another worker's; then the pointer
\* moves to it.  (GraphFails covers a resumed runner that mark_resumed tells of a
\* pointer somebody else has moved.)
save(w, next) ==
    LET t == task_of(w)
        found == children(t, worker[w].canon)
    IN  \/ \E k \in newest(found) :
             /\ can_promote(t, worker[w].canon, k)
             /\ thread' = [thread EXCEPT ![t].ckpt = k]
             /\ worker' = [worker EXCEPT ![w].canon = k, ![w].pc = next]
        \/ /\ \A k \in newest(found) : ~can_promote(t, worker[w].canon, k)
           /\ step(w, "release")
           /\ UNCHANGED thread

SaveDispatch(w) ==
    /\ worker[w].pc = "save_dispatch"
    /\ save(w, "audit_read")
    /\ UNCHANGED <<ledgerVars, store, queueVars, lock, request, faults>>

\* _evaluate is a function of the checkpointed state.
evaluate(pos) ==
    CASE pos = "approve" -> "APPROVED"
      [] pos = "reject" -> "REJECTED"
      [] OTHER -> "REVIEW_REQUIRED"

\* AuditService.audit: the verdict, then an unlocked look for an existing row.
AuditRead(w) ==
    /\ worker[w].pc = "audit_read"
    /\ worker' = [worker EXCEPT ![w].pc = "audit_insert",
                                ![w].verdict = evaluate(worker[w].pos),
                                ![w].seen = audits[task_of(w)] # <<>>]
    /\ UNCHANGED <<ledgerVars, threadVars, queueVars, lock, request, faults>>

\* _persist_if_possible: the row is inserted if none was seen; without a dispatch
\* there is nothing to refer to and no row.
needs_no_row(w) == FALSE
needs_row(w) == worker[w].pos # "conflicted" /\ ~worker[w].seen

\* A database error there (AUDIT_PERSISTENCE_ERROR) ends the graph without verdict.
AuditInsert(w) ==
    LET t == task_of(w) IN
    /\ worker[w].pc = "audit_insert"
    /\ \/ /\ audits' = IF needs_row(w)
               THEN [audits EXCEPT ![t] = Append(@, [result |-> worker[w].verdict, human |-> FALSE])]
               ELSE audits
          /\ step(w, "write_audit")
       \/ /\ worker[w].pos # "conflicted"
          /\ worker' = [worker EXCEPT ![w].pc = "write_audit", ![w].verdict = None]
          /\ UNCHANGED audits
    /\ UNCHANGED <<ledger, dispatch, published, cased, threadVars, queueVars, lock, request, faults>>

\* _terminal_state: REJECTED and no verdict leave the entry unacknowledged.
after_graph_acks(verdict) == IF verdict \in {"APPROVED", "REVIEW_REQUIRED"} THEN "mark_thread" ELSE "ack"
after_graph(verdict) == IF verdict \in {"APPROVED", "REVIEW_REQUIRED"} THEN "mark_thread" ELSE "release"

SaveAudit(w) ==
    /\ worker[w].pc = "save_audit"
    /\ save(w, after_graph(worker[w].verdict))
    /\ UNCHANGED <<ledgerVars, store, queueVars, lock, request, faults>>

-----------------------------------------------------------------------------
(* process_message: make the outcome durable, then acknowledge *)

\* mark_terminal of the runtime thread.  An exception is logged and treated as
\* success, so the thread may stay as it is.
terminate(t) == \E b \in {TRUE, thread[t].terminal} : thread' = [thread EXCEPT ![t].terminal = b]

\* _auto_publish and _handle_vehicle_breakdown only act on APPROVED.
after_task(verdict) == IF verdict = "APPROVED" THEN "publish" ELSE "ack"
after_publish_ack(t) == "ack"
after_publish(t) == IF t \in Breakdown THEN "breakdown" ELSE "ack"

MarkThread(w) ==
    /\ worker[w].pc = "mark_thread"
    /\ terminate(task_of(w))
    /\ step(w, IF worker[w].replay THEN after_task(worker[w].verdict) ELSE "mark_task")
    /\ UNCHANGED <<ledgerVars, store, queueVars, lock, request, faults>>

MarkTask(w) ==
    /\ worker[w].pc = "mark_task"
    /\ set_status(task_of(w), worker[w].verdict)
    /\ step(w, after_task(worker[w].verdict))
    /\ UNCHANGED <<dispatch, audits, published, cased, threadVars, queueVars, lock, request, faults>>

\* PublicationService._publish under the task's row lock: an existing row is
\* returned, otherwise the task and its newest audit row must be approved.
approved_for_publication(t) ==
    /\ dispatch[t] # "NONE"
    /\ ledger[t] \in {"APPROVED", "COMPLETED"}
    /\ audits[t] # <<>> /\ audits[t][Len(audits[t])].result = "APPROVED"

can_publish(t) == published[t] \/ approved_for_publication(t)

AutoPublish(w) ==
    LET t == task_of(w) IN
    /\ worker[w].pc = "publish"
    /\ \/ /\ can_publish(t)
          /\ published' = [published EXCEPT ![t] = TRUE]
          /\ step(w, after_publish(t))
       \/ step(w, "release") /\ UNCHANGED published    \* AUTO_PUBLICATION_ERROR
    /\ UNCHANGED <<ledger, dispatch, audits, cased, threadVars, queueVars, lock, request, faults>>

\* handle_approved_breakdown; FleetOperations models what it does.
HandleBreakdown(w) ==
    /\ worker[w].pc = "breakdown"
    /\ \/ cased' = [cased EXCEPT ![task_of(w)] = TRUE] /\ step(w, "ack")
       \/ UNCHANGED cased /\ step(w, "release")   \* VEHICLE_RESCUE_ORCHESTRATION_ERROR
    /\ UNCHANGED <<ledger, dispatch, audits, published, threadVars, queueVars, lock, request, faults>>

Ack(w) ==
    /\ worker[w].pc = "ack"
    /\ xack(worker[w].msg)
    /\ step(w, "release")
    /\ UNCHANGED <<ledgerVars, threadVars, stream, cursor, dlq, lock, request, faults>>

-----------------------------------------------------------------------------
(* _recover_message at the delivery limit *)

\* _execution_is_active takes the lock as a probe and gives it back at once.
Probe(w) ==
    LET t == task_of(w) IN
    /\ worker[w].pc = "probe"
    /\ IF lock_free(t)
         THEN lock' = [lock EXCEPT ![t] = w] /\ step(w, "probe_release")
         ELSE UNCHANGED lock /\ finish(w)
    /\ UNCHANGED <<ledgerVars, threadVars, queueVars, request, faults>>

ProbeRelease(w) ==
    /\ worker[w].pc = "probe_release"
    /\ lock' = [lock EXCEPT ![task_of(w)] = released(task_of(w), w)]
    /\ step(w, "dlq_thread")
    /\ UNCHANGED <<ledgerVars, threadVars, queueVars, request, faults>>

DlqThread(w) ==
    /\ worker[w].pc = "dlq_thread"
    /\ terminate(task_of(w))
    /\ step(w, "dlq_task")
    /\ UNCHANGED <<ledgerVars, store, queueVars, lock, request, faults>>

DlqTask(w) ==
    /\ worker[w].pc = "dlq_task"
    /\ set_status(task_of(w), "DLQ")
    /\ step(w, "dlq_add")
    /\ UNCHANGED <<dispatch, audits, published, cased, threadVars, queueVars, lock, request, faults>>

\* move_to_dlq: the dead-letter entry, then the acknowledgement.
DlqAdd(w) ==
    /\ worker[w].pc = "dlq_add"
    /\ dlq' = [dlq EXCEPT ![worker[w].msg] = @ + 1]
    /\ step(w, "dlq_ack")
    /\ UNCHANGED <<ledgerVars, threadVars, stream, cursor, pel, lock, request, faults>>

DlqAck(w) ==
    /\ worker[w].pc = "dlq_ack"
    /\ xack(worker[w].msg)
    /\ finish(w)
    /\ UNCHANGED <<ledgerVars, threadVars, stream, cursor, dlq, lock, request, faults>>

-----------------------------------------------------------------------------
(* People *)

by_person(t) == {k \in 1 .. Len(audits[t]) : audits[t][k].human}
may_decide_approved(t) == ledger[t] \in {"REVIEW_REQUIRED", "APPROVED"}
may_decide(t) == ledger[t] = "REVIEW_REQUIRED"

\* ReviewDecisionService.decide: one transaction under the task's row lock.
Decide(t, result) ==
    /\ may_decide(t)
    /\ dispatch[t] # "NONE"
    /\ Cardinality(by_person(t)) < limits.decisions
    /\ set_status(t, result)
    /\ dispatch' = [dispatch EXCEPT ![t] = result]
    /\ audits' = [audits EXCEPT ![t] = Append(@, [result |-> result, human |-> TRUE])]
    /\ UNCHANGED <<published, cased, threadVars, queueVars, lock, worker, request, faults>>

\* An operator publishes the task through the API.
PublishByOperator(t) ==
    /\ ~published[t] /\ can_publish(t)
    /\ published' = [published EXCEPT ![t] = TRUE]
    /\ UNCHANGED <<ledger, dispatch, audits, cased, threadVars, queueVars, lock, worker, request, faults>>

-----------------------------------------------------------------------------

RequestStep(r) ==
    \/ \E t \in limits.tasks : Submit(r, t)
    \/ BeginTask(r) \/ Publish(r) \/ MarkSubmissionFailed(r) \/ SetSubmissionPending(r)

\* What the loop of a worker does by itself, besides taking new work.
WorkerStep(w) ==
    \/ RecoverMessage(w) \/ AcquireLock(w) \/ ReleaseLock(w)
    \/ BeginMessage(w) \/ Reconcile(w) \/ StartGraph(w)
    \/ DispatchNode(w) \/ WriteCheckpoint(w) \/ SaveDispatch(w) \/ AuditRead(w) \/ AuditInsert(w) \/ SaveAudit(w)
    \/ GraphFails(w)
    \/ MarkThread(w) \/ MarkTask(w) \/ AutoPublish(w) \/ HandleBreakdown(w) \/ Ack(w)
    \/ Probe(w) \/ ProbeRelease(w) \/ DlqThread(w) \/ DlqTask(w) \/ DlqAdd(w) \/ DlqAck(w)

TakeWork(w) == ReadGroup(w) \/ \E S \in SUBSET Messages : ClaimPending(w, S)

Next ==
    /\ \/ \E r \in limits.requests : RequestStep(r) \/ ApiCrash(r)
       \/ \E w \in limits.workers : WorkerStep(w) \/ TakeWork(w) \/ WorkerCrash(w)
       \/ \E t \in Tasks : LockExpires(t) \/ PublishByOperator(t)
       \/ \E t \in Tasks, result \in {"APPROVED", "REJECTED"} : Decide(t, result)
    /\ UNCHANGED limits

Spec == Init /\ [][Next]_vars

\* Every process keeps running: worker_entrypoint loops over recover_once and
\* run_once, a request runs to its end unless it crashes, and Redis expires the
\* lock of a dead holder.  A pending entry becomes idle, and from then on every
\* XAUTOCLAIM of any worker includes it (strong fairness per entry).  Nothing is
\* assumed of people or of faults.
ClaimEntry(w, i) == \E S \in SUBSET Messages : i \in S /\ ClaimPending(w, S)
DeadLockExpires(t) == lock[t] # None /\ ~holds_lock(lock[t], t) /\ LockExpires(t)
Runs(w) == w \in limits.workers /\ UNCHANGED limits
Fairness ==
    /\ \A w \in Workers : WF_vars(Runs(w) /\ WorkerStep(w)) /\ WF_vars(Runs(w) /\ TakeWork(w))
    /\ \A i \in Messages : SF_vars(\E w \in Workers : Runs(w) /\ ClaimEntry(w, i))
    /\ \A r \in Requests : WF_vars(RequestStep(r) /\ request[r].pc # "new" /\ UNCHANGED limits)
    /\ \A t \in Tasks : WF_vars(DeadLockExpires(t) /\ UNCHANGED limits)
FairSpec == Spec /\ Fairness

-----------------------------------------------------------------------------
(* Properties *)

WorkerState ==
    [pc : WorkerSteps, msg : {0} \cup Messages,
     todo : SUBSET [msg : Messages, count : 0 .. limits.delivery],
     verdict : TERMINAL_STATUSES \cup AuditStatus \cup {None},
     replay : BOOLEAN, pos : Position, seen : BOOLEAN, head : Nat, canon : Nat]
RequestState ==
    [task : Tasks \cup {None},
     pc : {"new", "begin", "publish", "mark_failed", "republish", "set_pending", "done"}]

\* Type invariant of the rows, the stream, the lock and the processes.
TypeOK ==
    /\ ledger \in [Tasks -> TERMINAL_STATUSES \cup {"NONE", "PENDING", "SUBMISSION_FAILED", "REJECTED"}]
    /\ dispatch \in [Tasks -> {"NONE", "EXECUTED"} \cup AuditStatus]
    /\ audits \in [Tasks -> Seq([result : AuditStatus, human : BOOLEAN])]
    /\ published \in [Tasks -> BOOLEAN] /\ cased \in [Tasks -> BOOLEAN]
    /\ store \in [Tasks -> Seq([pos : Position, parent : Nat])]
    /\ thread \in [Tasks -> [ckpt : Nat, terminal : BOOLEAN]]
    /\ \A t \in Tasks : thread[t].ckpt \in 0 .. Len(store[t])
    /\ stream \in Seq(Tasks) /\ cursor \in 0 .. Len(stream)
    /\ pel \in [Messages -> [owner : Workers \cup {None}, count : 0 .. limits.delivery]]
    /\ dlq \in [Messages -> Nat]
    /\ lock \in [Tasks -> Workers \cup {None}]
    /\ worker \in [Workers -> WorkerState]
    /\ request \in [Requests -> RequestState]
    /\ faults \in [crash : Nat, lock : Nat, api : Nat]
    /\ limits \in Situations

\* While no lock expires under its holder, at most one worker is inside
\* process_message for a task, across crashes, claims and dead-letter probes.
OneExecutionPerTask ==
    faults.lock = 0 =>
        \A v, w \in Workers, t \in Tasks :
            holds_lock(v, t) /\ holds_lock(w, t) => v = w

\* Acknowledge last (process_message, move_to_dlq): once an entry has left the
\* pending list, its task has a final status, also when a lock is lost and two
\* workers run the task.  (For queues that answer: after a connection error the
\* request itself may write over it.)
AckedHasVerdict ==
    \A i \in Messages : acked(i) /\ ~limits.flaky => ledger[stream[i]] \in TERMINAL_STATUSES \cup {"REJECTED"}

\* No lock was lost, so nobody else runs a worker's task, and XADD answers, so no
\* request writes its own status over the verdict.  The code relies on both; what
\* it can do without them is among the known limits in README.md.
Undisturbed == faults.lock = 0 /\ ~limits.flaky

\* ... and unless the entry went to the dead-letter stream, a task that the audit
\* approved by itself has been published and its breakdown case opened.
AckedApprovalIsComplete ==
    \A i \in Messages :
        LET t == stream[i] IN
        acked(i) /\ dlq[i] = 0 /\ Undisturbed /\ ledger[t] = "APPROVED" /\ by_person(t) = {} =>
            published[t] /\ (t \in Breakdown => cased[t])

\* A task is APPROVED only with a dispatch row and an audit row that approved it:
\* the verdict a run returns is the one it recorded.  (Of two workers that run a
\* task at once only the first to insert leaves its verdict in the audit.)
ApprovalIsAudited ==
    \A t \in Tasks : ledger[t] = "APPROVED" /\ faults.lock = 0 =>
        /\ dispatch[t] # "NONE"
        /\ \E k \in 1 .. Len(audits[t]) : audits[t][k].result = "APPROVED"

\* A published route belongs to a task some audit approved, and nobody has
\* rejected that task since: no interleaving of workers, replays, dead letters,
\* reviewers and operators publishes what a person refused or refuses what is
\* published.
PublishedIsApproved ==
    \A t \in Tasks : published[t] /\ Undisturbed =>
        /\ \E k \in 1 .. Len(audits[t]) : audits[t][k].result = "APPROVED"
        /\ "REJECTED" \notin {ledger[t], dispatch[t]}

\* The canonical checkpoint only moves to a checkpoint that was written right
\* after it: no worker, reconciliation or second submission moves a thread back
\* or onto a branch the pointer has left.
CanonicalAdvances ==
    [][\A t \in Tasks : thread'[t].ckpt # thread[t].ckpt =>
         /\ thread'[t].ckpt # 0
         /\ store[t][thread'[t].ckpt].parent = thread[t].ckpt]_vars

\* Every message is acknowledged or dead-lettered in the end: retries are
\* bounded, and no crash, lock or missing delivery count keeps it pending.  (A
\* message stays acknowledged, so all of them being so again and again says
\* this of each.)
MessageSettles == []<>(\A i \in 1 .. Len(stream) : acked(i))

-----------------------------------------------------------------------------
(* A statement of the documentation that the code does not keep *)

\* FINAL_FACTS.md 9.2: a task that is already terminal is replayed and
\* acknowledged when it is delivered again; its verdict is not replaced.
ApprovedIsReplayed ==
    [][\A t \in Tasks : ledger[t] = "APPROVED" => ledger'[t] # "DLQ"]_vars

=============================================================================
