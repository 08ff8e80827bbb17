------------------------- MODULE PipelineTypes_proofs --------------------------
(***************************************************************************)
(* TLAPS proofs about the dispatch pipeline, first part: the types of the  *)
(* system's state, in the inductive form (TypeInv) that every later proof  *)
(* rests on.                                                               *)
(***************************************************************************)
EXTENDS DispatchPipeline, TLAPS

USE PipelineAssumption

\* The rows of the tasks in MySQL.
RowsOK ==
    /\ ledger \in [Tasks -> TERMINAL_STATUSES \cup {"NONE", "PENDING", "SUBMISSION_FAILED", "REJECTED"}]
    /\ dispatch \in [Tasks -> {"NONE", "EXECUTED"} \cup AuditStatus]
    /\ audits \in [Tasks -> Seq([result : AuditStatus, human : BOOLEAN])]
    /\ published \in [Tasks -> BOOLEAN] /\ cased \in [Tasks -> BOOLEAN]

\* The runtime threads: the canonical pointer names a checkpoint of the store.
ThreadsOK ==
    /\ store \in [Tasks -> Seq([pos : Position, parent : Nat])]
    /\ thread \in [Tasks -> [ckpt : Nat, terminal : BOOLEAN]]
    /\ \A t \in Tasks : thread[t].ckpt \in 0 .. Len(store[t])

\* The stream and its consumer group: only delivered entries are pending.
QueueOK ==
    /\ stream \in Seq(Tasks) /\ cursor \in 0 .. Len(stream) /\ Len(stream) <= MaxMessages
    /\ pel \in [Messages -> [owner : Workers \cup {None}, count : 0 .. limits.delivery]]
    /\ dlq \in [Messages -> Nat]
    /\ \A i \in Messages : pending(i) => i <= cursor

\* A request that has looked its key up knows its task.
RequestsOK ==
    /\ request \in [Requests -> RequestState]
    /\ \A r \in Requests : request[r].pc # "new" => request[r].task \in Tasks

\* What holds of a worker's local state x: an idle one has forgotten the last
\* message, a busy one has a message the group has delivered, and the verdict it
\* is about to record, or to write into the task row, is one.
WorkerOK(x) ==
    /\ x.pc # "idle" => x.msg \in 1 .. cursor
    /\ \A m \in x.todo : m.msg <= cursor
    /\ x.pc = "idle" => x = [IdleWorker EXCEPT !.todo = x.todo]
    /\ x.pc = "audit_insert" => x.verdict \in AuditStatus
    /\ x.pc \in {"mark_thread", "mark_task"} => x.verdict \in TERMINAL_STATUSES

\* The workers, each with its local state.
WorkersOK ==
    /\ worker \in [Workers -> WorkerState]
    /\ \A w \in Workers : WorkerOK(worker[w])

\* The inductive form of TypeOK.
TypeInv ==
    /\ RowsOK /\ ThreadsOK /\ QueueOK /\ RequestsOK /\ WorkersOK
    /\ lock \in [Tasks -> Workers \cup {None}]
    /\ faults \in [crash : Nat, lock : Nat, api : Nat]
    /\ limits \in Situations

\* The type invariant the runs check follows from its inductive form.
LEMMA TypeInvOK == TypeInv => TypeOK
BY Zenon DEF TypeInv, TypeOK, RowsOK, ThreadsOK, QueueOK, RequestsOK, WorkersOK

\* An empty deployment has the types.
LEMMA TypeInit == Init => TypeInv
<1> SUFFICES ASSUME Init PROVE TypeInv
  BY Zenon
<1> USE DEF Init
<1>1. RowsOK
  BY DEF RowsOK
<1>2. ThreadsOK
  BY DEF ThreadsOK, NewThread
<1>3. limits \in Situations /\ limits.delivery \in Nat
  BY Zenon DEF Situation
<1>4. QueueOK
  BY <1>3 DEF QueueOK, pending
<1>5. RequestsOK
  BY Zenon DEF RequestsOK, RequestState
<1>6. WorkersOK
  BY <1>3, Zenon DEF WorkersOK, WorkerOK, WorkerState, IdleWorker, WorkerSteps, Position
<1> QED BY <1>1, <1>2, <1>3, <1>4, <1>5, <1>6, Zenon DEF TypeInv

\* Appending to a table that only grows keeps the rows it has.
LEMMA AppendFacts ==
    ASSUME NEW S, NEW s \in Seq(S), NEW e \in S
    PROVE  /\ Append(s, e) \in Seq(S) /\ Len(Append(s, e)) = Len(s) + 1
           /\ \A i \in 1 .. Len(s) : Append(s, e)[i] = s[i]
           /\ Append(s, e)[Len(s) + 1] = e
OBVIOUS

\* An acknowledged entry has been read, and so has been added.
LEMMA AckedRead ==
    ASSUME NEW i \in Messages, Len(stream) \in Nat, cursor \in 0 .. Len(stream), acked(i)
    PROVE  i \in 1 .. cursor /\ i \in 1 .. Len(stream)
BY DEF acked, Messages

\* The local state of one worker has its type.
LEMMA WorkerTyped ==
    ASSUME TypeInv, NEW w \in Workers
    PROVE  worker[w] \in WorkerState /\ WorkerOK(worker[w])
BY Zenon DEF TypeInv, WorkersOK

\* Steps of the graph are taken under the lock; waiting for work is not.
LEMMA Steps ==
    /\ GraphSteps \subseteq LockedSteps /\ LockedSteps \subseteq WorkerSteps
    /\ "idle" \notin LockedSteps /\ {"idle", "lock", "probe", "dlq_thread", "dlq_task", "dlq_add", "dlq_ack"} \subseteq WorkerSteps
    /\ {"begin", "reconcile", "thread", "mark_thread", "mark_task", "publish",
        "breakdown", "ack", "release", "probe_release"} \subseteq LockedSteps
    /\ \A pc \in GraphSteps : pc \in WorkerSteps /\ pc # "idle"
BY Zenon DEF WorkerSteps, LockedSteps, GraphSteps

\* A busy worker works on an entry of the stream, for a task of the system.
LEMMA TaskOf ==
    ASSUME TypeInv, NEW w \in Workers, worker[w].pc # "idle"
    PROVE  task_of(w) \in Tasks /\ worker[w].msg \in Messages /\ worker[w].msg \in 1 .. cursor
<1>1. worker[w].msg \in 1 .. cursor
  BY WorkerTyped, Zenon DEF WorkerOK
<1>2. stream \in Seq(Tasks) /\ cursor \in 0 .. Len(stream) /\ Len(stream) <= MaxMessages
  BY Zenon DEF TypeInv, QueueOK
<1> QED BY <1>1, <1>2 DEF task_of, Messages

\* A request that goes to another step keeps its task.
LEMMA Goto ==
    ASSUME TypeInv, NEW r \in Requests, request[r].pc # "new",
           NEW pc \in {"begin", "publish", "mark_failed", "republish", "set_pending", "done"}, goto(r, pc)
    PROVE  \E x \in RequestState :
              request' = [request EXCEPT ![r] = x] /\ x.pc = pc /\ x.task = request[r].task /\ x.task \in Tasks
<1> DEFINE x == [request[r] EXCEPT !.pc = pc]
<1>1. x \in RequestState /\ x.pc = pc /\ x.task = request[r].task /\ x.task \in Tasks
  BY DEF TypeInv, RequestsOK, RequestState
<1>2. request' = [request EXCEPT ![r] = x]
  BY Zenon DEF goto
<1> QED BY <1>1, <1>2, Zenon

\* The entries of a sequence have its element type.
LEMMA ElementTyped ==
    ASSUME NEW S, NEW s \in Seq(S), NEW i \in 1 .. Len(s)
    PROVE  s[i] \in S
OBVIOUS

\* The checkpoints of a thread have their type.
LEMMA StoreTyped ==
    ASSUME TypeInv, NEW t \in Tasks
    PROVE  /\ store[t] \in Seq([pos : Position, parent : Nat]) /\ Len(store[t]) \in Nat
           /\ \A k \in 1 .. Len(store[t]) : store[t][k].pos \in Position /\ store[t][k].parent \in Nat
           /\ thread[t] \in [ckpt : Nat, terminal : BOOLEAN] /\ thread[t].ckpt \in 0 .. Len(store[t])
<1>1. store \in [Tasks -> Seq([pos : Position, parent : Nat])]
  BY Zenon DEF TypeInv, ThreadsOK
<1>2. store[t] \in Seq([pos : Position, parent : Nat])
  BY <1>1, Zenon
<1>3. \A k \in 1 .. Len(store[t]) : store[t][k] \in [pos : Position, parent : Nat]
  BY <1>2, ElementTyped, Zenon
<1>4. Len(store[t]) \in Nat
  BY <1>2
<1> QED BY <1>2, <1>3, <1>4, Zenon DEF TypeInv, ThreadsOK

\* The checkpoints that follow c are checkpoints of the store, and the newest of
\* them is one of them.
LEMMA Children ==
    ASSUME TypeInv, NEW t \in Tasks, NEW c
    PROVE  /\ children(t, c) \subseteq 1 .. Len(store[t])
           /\ newest(children(t, c)) \subseteq children(t, c)
BY Zenon DEF children, newest

\* save either promotes the newest checkpoint after the runner's canonical one,
\* which exists, or changes nothing and gives up.
Promotes(w, next, k) ==
    LET t == task_of(w)
    IN  /\ k \in newest(children(t, worker[w].canon))
        /\ can_promote(t, worker[w].canon, k)
        /\ thread' = [thread EXCEPT ![t].ckpt = k]
        /\ worker' = [worker EXCEPT ![w].canon = k, ![w].pc = next]

\* Saving a boundary promotes its checkpoint, or gives the message up.
LEMMA SaveCases ==
    ASSUME NEW w \in Workers, NEW next, save(w, next)
    PROVE  (\E k : Promotes(w, next, k)) \/ (step(w, "release") /\ UNCHANGED thread)
BY Zenon DEF save, Promotes

\* Every step keeps the types.
LEMMA TypeStep ==
    ASSUME TypeInv, [Next]_vars
    PROVE  TypeInv'
\* What a step leaves alone keeps its type.
<1>Kept.
    ASSUME UNCHANGED limits
    PROVE  /\ UNCHANGED ledgerVars => RowsOK'
           /\ UNCHANGED threadVars => ThreadsOK'
           /\ UNCHANGED queueVars => QueueOK'
           /\ UNCHANGED <<request, stream>> => RequestsOK'
           /\ UNCHANGED <<worker, cursor>> => WorkersOK'
  <2> USE <1>Kept
  <2>1. UNCHANGED ledgerVars => RowsOK'
    BY Zenon DEF TypeInv, RowsOK, ledgerVars
  <2>2. UNCHANGED threadVars => ThreadsOK'
    BY Zenon DEF TypeInv, ThreadsOK, threadVars
  <2>3. UNCHANGED queueVars => QueueOK'
    BY DEF TypeInv, QueueOK, queueVars, pending
  <2>4. UNCHANGED <<request, stream>> => RequestsOK'
    BY Zenon DEF TypeInv, RequestsOK, RequestState
  <2>5. UNCHANGED <<worker, cursor>> => WorkersOK'
    BY DEF TypeInv, WorkersOK, WorkerOK, WorkerState
  <2> QED BY <2>1, <2>2, <2>3, <2>4, <2>5, Zenon

\* One worker moves to x.
<1>WorkerMove.
    ASSUME UNCHANGED limits, cursor' \in Nat, cursor <= cursor',
           NEW w \in Workers, NEW x \in WorkerState,
           worker' = [worker EXCEPT ![w] = x],
           x.pc # "idle" => x.msg \in 1 .. cursor',
           \A m \in x.todo : m.msg <= cursor',
           x.pc = "idle" => x = [IdleWorker EXCEPT !.todo = x.todo],
           x.pc = "audit_insert" => x.verdict \in AuditStatus,
           x.pc \in {"mark_thread", "mark_task"} => x.verdict \in TERMINAL_STATUSES
    PROVE  WorkersOK'
  <2> USE <1>WorkerMove
  <2>1. WorkerState' = WorkerState
    BY Zenon DEF WorkerState
  <2>2. worker' \in [Workers -> WorkerState]
    BY Zenon DEF TypeInv, WorkersOK
  <2>3. \A v \in Workers : worker'[v] = IF v = w THEN x ELSE worker[v]
    BY Zenon DEF TypeInv, WorkersOK
  <2>4. cursor \in Nat
    BY DEF TypeInv, QueueOK
  <2>5. ASSUME NEW v \in Workers PROVE WorkerOK(worker[v])'
    <3>1. CASE v = w
      BY <2>3, <3>1, Zenon DEF WorkerOK
    <3>2. CASE v # w
      <4>1. WorkerOK(worker[v]) /\ worker'[v] = worker[v]
        BY <2>3, <3>2, WorkerTyped, Zenon
      <4>2. \A m \in worker[v].todo : m.msg \in Nat
        BY WorkerTyped DEF WorkerState, Messages
      <4>3. \A m \in worker[v].todo : m.msg <= cursor'
        BY <2>4, <4>1, <4>2 DEF WorkerOK
      <4>4. worker[v].pc # "idle" => worker[v].msg \in 1 .. cursor'
        BY <2>4, <4>1 DEF WorkerOK
      <4> QED BY <4>1, <4>3, <4>4, Zenon DEF WorkerOK
    <3> QED BY <3>1, <3>2, Zenon
  <2> QED BY <2>1, <2>2, <2>5, Zenon DEF WorkersOK

\* A busy worker stays with its message.
<1>BusyStep.
    ASSUME UNCHANGED <<cursor, limits>>, NEW w \in Workers, NEW x \in WorkerState,
           worker[w].pc # "idle", worker' = [worker EXCEPT ![w] = x],
           x.pc # "idle", x.msg = worker[w].msg, x.todo = worker[w].todo,
           x.pc = "audit_insert" => x.verdict \in AuditStatus,
           x.pc \in {"mark_thread", "mark_task"} => x.verdict \in TERMINAL_STATUSES
    PROVE  WorkersOK'
  <2> USE <1>BusyStep
  <2>1. cursor' \in Nat /\ cursor <= cursor'
    BY DEF TypeInv, QueueOK
  <2>2. x.msg \in 1 .. cursor' /\ \A m \in x.todo : m.msg <= cursor'
    BY WorkerTyped, Zenon DEF WorkerOK
  <2> QED BY <2>1, <2>2, <1>WorkerMove, Zenon

\* Dropping a message keeps the workers well formed.
<1>FinishStep.
    ASSUME NEW w \in Workers, finish(w), UNCHANGED <<cursor, limits>>
    PROVE  WorkersOK'
  <2> USE <1>FinishStep
  <2> DEFINE x == [IdleWorker EXCEPT !.todo = worker[w].todo]
  <2>1. x \in WorkerState /\ x.pc = "idle" /\ x = [IdleWorker EXCEPT !.todo = x.todo] /\ x.todo = worker[w].todo
    BY WorkerTyped, Steps, Zenon DEF WorkerState, IdleWorker, Position
  <2>2. cursor' \in Nat /\ cursor <= cursor'
    BY DEF TypeInv, QueueOK
  <2>3. worker' = [worker EXCEPT ![w] = x]
    BY Zenon DEF finish
  <2> HIDE DEF x
  <2>4. \A m \in x.todo : m.msg <= cursor'
    BY <2>1, WorkerTyped, Zenon DEF WorkerOK
  <2> QED BY <2>1, <2>2, <2>3, <2>4, <1>WorkerMove, Zenon

\* Moving to the next step keeps the workers well formed.
<1>PcStep.
    ASSUME NEW w \in Workers, NEW pc \in WorkerSteps, step(w, pc),
           worker[w].pc # "idle", pc \notin {"idle", "mark_thread", "audit_insert"},
           pc = "mark_task" => worker[w].pc = "mark_thread", UNCHANGED <<cursor, limits>>
    PROVE  WorkersOK'
  <2> USE <1>PcStep
  <2> DEFINE x == [worker[w] EXCEPT !.pc = pc]
  <2>1. x \in WorkerState /\ x.pc = pc /\ x.msg = worker[w].msg /\ x.todo = worker[w].todo
        /\ x.verdict = worker[w].verdict
    BY WorkerTyped DEF WorkerState
  <2>2. worker' = [worker EXCEPT ![w] = x]
    BY Zenon DEF step
  <2>3. worker[w].pc = "mark_thread" => worker[w].verdict \in TERMINAL_STATUSES
    BY WorkerTyped, Zenon DEF WorkerOK
  <2> HIDE DEF x
  <2> QED BY <2>1, <2>2, <2>3, <1>BusyStep, Zenon

\* One request moves to x.
<1>RequestMove.
    ASSUME NEW r \in Requests, NEW x \in RequestState,
           request' = [request EXCEPT ![r] = x], x.pc # "new" => x.task \in Tasks
    PROVE  RequestsOK'
  <2> USE <1>RequestMove
  <2>1. request' \in [Requests -> RequestState] /\ RequestState' = RequestState
    BY Zenon DEF TypeInv, RequestsOK, RequestState
  <2>2. \A q \in Requests : request'[q].pc # "new" => request'[q].task \in Tasks
    BY Zenon DEF TypeInv, RequestsOK
  <2> QED BY <2>1, <2>2, Zenon DEF RequestsOK

\* The canonical pointer of a thread moves inside its store.
<1>ThreadMove.
    ASSUME ThreadsOK, NEW t \in Tasks, NEW c \in 0 .. Len(store[t]), NEW b \in BOOLEAN,
           thread' = [thread EXCEPT ![t] = [ckpt |-> c, terminal |-> b]], store' = store
    PROVE  ThreadsOK'
  <2> USE <1>ThreadMove
  <2>1. \A s \in Tasks : Len(store[s]) \in Nat
    BY DEF ThreadsOK
  <2>2. [ckpt |-> c, terminal |-> b] \in [ckpt : Nat, terminal : BOOLEAN]
    BY <2>1
  <2>3. thread' \in [Tasks -> [ckpt : Nat, terminal : BOOLEAN]]
    BY <2>2, Zenon DEF ThreadsOK
  <2>4. \A s \in Tasks : thread'[s] = IF s = t THEN [ckpt |-> c, terminal |-> b] ELSE thread[s]
    BY Zenon DEF ThreadsOK
  <2>5. \A s \in Tasks : thread'[s].ckpt \in 0 .. Len(store[s])
    BY <2>4, Zenon DEF ThreadsOK
  <2> QED BY <2>3, <2>5, Zenon DEF ThreadsOK

\* Submitting, publishing and a crash of the API keep the types.
<1>TypeRequest.
    ASSUME UNCHANGED limits, NEW r \in Requests, RequestStep(r) \/ ApiCrash(r)
    PROVE  TypeInv'
  <2> USE <1>TypeRequest
  <2>0. limits.tasks \subseteq Tasks
    BY Zenon DEF TypeInv, Situation
  <2>1. CASE \E t \in limits.tasks : Submit(r, t)
    <3>1. PICK t \in Tasks : Submit(r, t)
      BY <2>0, <2>1, Zenon
    <3> DEFINE x == [task |-> t,
                     pc |-> CASE ledger[t] = "NONE" -> "begin"
                              [] ledger[t] = "SUBMISSION_FAILED" -> "republish"
                              [] OTHER -> "done"]
    <3>3. x.task = t /\ x.pc \in {"begin", "republish", "done"} /\ x \in RequestState
      BY Zenon DEF RequestState
    <3>4. request' = [request EXCEPT ![r] = x] /\ request[r].pc = "new" /\ stream' = stream
      BY <3>1, Zenon DEF Submit, queueVars
    <3> HIDE DEF x
    <3>2. RequestsOK'
      BY <3>3, <3>4, <1>RequestMove, Zenon
    <3> QED BY <3>1, <3>2, <1>Kept, Zenon DEF Submit, TypeInv, queueVars
  <2>2. CASE BeginTask(r)
    <3> USE <2>2 DEF BeginTask
    <3>1. request[r].task \in Tasks /\ request[r].pc = "begin"
      BY Zenon DEF TypeInv, RequestsOK
    <3>2. RequestsOK'
      <4>1. goto(r, "publish") \/ goto(r, "done")
        BY Zenon
      <4> QED BY <3>1, <4>1, Goto, <1>RequestMove, ZenonT(60) DEF queueVars
    <3>3. RowsOK'
      BY <3>1, Zenon DEF TypeInv, RowsOK, set_status
    <3>4. ThreadsOK'
      <4>1. \A t \in Tasks : Len(store[t]) \in Nat
        BY DEF TypeInv, ThreadsOK
      <4>2. thread' = thread \/ thread' = [thread EXCEPT ![request[r].task] = [ckpt |-> 0, terminal |-> FALSE]]
        BY Zenon DEF NewThread
      <4>3. store' = store
        BY Zenon
      <4> HIDE <2>2 DEF BeginTask
      <4>4. CASE thread' = thread
        BY <4>3, <4>4, Zenon DEF TypeInv, ThreadsOK
      <4>5. CASE thread' = [thread EXCEPT ![request[r].task] = [ckpt |-> 0, terminal |-> FALSE]]
        <5>1. ThreadsOK /\ 0 \in 0 .. Len(store[request[r].task]) /\ FALSE \in BOOLEAN
          BY <3>1, <4>1 DEF TypeInv
        <5> QED BY <3>1, <4>3, <4>5, <5>1, <1>ThreadMove, Zenon
      <4> QED BY <4>2, <4>4, <4>5, Zenon
    <3> QED BY <3>2, <3>3, <3>4, <1>Kept, Zenon DEF TypeInv, queueVars
  <2>3. CASE Publish(r)
    <3> USE <2>3 DEF Publish
    <3>1. request[r].task \in Tasks /\ request[r].pc \in {"publish", "republish"}
      BY Zenon DEF TypeInv, RequestsOK
    <3>2. stream' = stream \/ (Len(stream) < MaxMessages /\ stream' = Append(stream, request[r].task))
      BY Zenon DEF xadd
    <3>3. stream' \in Seq(Tasks) /\ Len(stream) <= Len(stream') /\ Len(stream') <= MaxMessages
      <4>1. stream \in Seq(Tasks) /\ Len(stream) \in Nat /\ Len(stream) <= MaxMessages
        BY DEF TypeInv, QueueOK
      <4> HIDE <2>3 DEF Publish
      <4> QED BY <3>1, <3>2, <4>1, AppendFacts
    <3>4. RequestsOK'
      <4>1. PICK pc \in {"done", "set_pending", "mark_failed"} : goto(r, pc)
        BY Zenon
      <4> QED BY <3>1, <4>1, Goto, <1>RequestMove
    <3>5. QueueOK'
      BY <3>3 DEF TypeInv, QueueOK, pending
    <3> QED BY <3>4, <3>5, <1>Kept, Zenon DEF TypeInv
  <2>4. CASE MarkSubmissionFailed(r) \/ SetSubmissionPending(r)
    <3> USE <2>4 DEF MarkSubmissionFailed, SetSubmissionPending
    <3>1. request[r].task \in Tasks /\ request[r].pc # "new"
      BY Zenon DEF TypeInv, RequestsOK
    <3>2. RequestsOK'
      <4>1. goto(r, "done") /\ stream' = stream
        BY Zenon DEF queueVars
      <4> QED BY <3>1, <4>1, Goto, <1>RequestMove
    <3>3. RowsOK'
      BY <3>1, ZenonT(60) DEF TypeInv, RowsOK, set_status
    <3> QED BY <3>2, <3>3, <1>Kept, Zenon DEF TypeInv, queueVars
  <2>5. CASE ApiCrash(r)
    <3> USE <2>5 DEF ApiCrash
    <3>1. RequestsOK'
      <4>1. goto(r, "done") /\ stream' = stream /\ request[r].pc # "new"
        BY Zenon DEF queueVars
      <4> QED BY <4>1, Goto, <1>RequestMove
    <3> QED BY <3>1, <1>Kept DEF TypeInv, queueVars
  <2> QED BY <2>1, <2>2, <2>3, <2>4, <2>5, Zenon DEF RequestStep

\* Reading and claiming
<1>TypeTakeWork.
    ASSUME UNCHANGED limits, NEW w \in Workers, TakeWork(w)
    PROVE  TypeInv'
  <2> USE <1>TypeTakeWork
  <2>0. limits.delivery \in Nat \ {0}
    BY Zenon DEF TypeInv, Situation
  <2>1. Len(stream) \in Nat
    BY DEF TypeInv, QueueOK
  <2>2. Len(stream) <= MaxMessages
    BY Zenon DEF TypeInv, QueueOK
  <2>3. CASE ReadGroup(w)
    <3> USE <2>3 DEF ReadGroup
    <3>1. cursor + 1 \in Messages /\ cursor + 1 \in 1 .. Len(stream) /\ cursor \in Nat
      BY <2>1, <2>2 DEF TypeInv, QueueOK, Messages
    <3>2. QueueOK'
      <4>1. [owner |-> w, count |-> 1] \in [owner : Workers \cup {None}, count : 0 .. limits.delivery]
        BY <2>0
      <4>2. pel' \in [Messages -> [owner : Workers \cup {None}, count : 0 .. limits.delivery]]
        BY <3>1, <4>1, Zenon DEF TypeInv, QueueOK
      <4>3. \A i \in Messages : pending(i)' => i <= cursor'
        BY <3>1, SMTT(30) DEF TypeInv, QueueOK, pending, Messages
      <4> QED BY <3>1, <4>2, <4>3 DEF TypeInv, QueueOK
    <3>3. WorkersOK'
      <4> DEFINE x == [worker[w] EXCEPT !.pc = "lock", !.msg = cursor + 1]
      <4>1. x \in WorkerState /\ x.pc = "lock" /\ x.msg = cursor + 1 /\ x.todo = {}
        <5>1. worker[w] \in WorkerState /\ worker[w].todo = {} /\ cursor + 1 \in Messages
          BY <3>1, WorkerTyped, Zenon
        <5> HIDE <2>3 DEF ReadGroup
        <5> QED BY <5>1, Steps, Zenon DEF WorkerState
      <4>2. worker' = [worker EXCEPT ![w] = x] /\ cursor' = cursor + 1
        BY Zenon
      <4>3. cursor' \in Nat /\ cursor <= cursor' /\ x.msg \in 1 .. cursor'
        BY <3>1, <4>1, <4>2
      <4> HIDE <2>3 DEF x, ReadGroup
      <4> QED BY <4>1, <4>2, <4>3, <1>WorkerMove, Zenon
    <3> QED BY <3>2, <3>3, <1>Kept, Zenon DEF TypeInv
  <2>4. CASE \E S \in SUBSET Messages : ClaimPending(w, S)
    <3>1. PICK S \in SUBSET Messages : ClaimPending(w, S)
      BY <2>4, Zenon
    <3> DEFINE entries == [i \in Messages |->
                  IF i \in S THEN [owner |-> w, count |-> one_more(pel[i].count)] ELSE pel[i]]
               todo == {[msg |-> i, count |-> delivery_count(w, S, entries, i)] : i \in S}
    <3>2. entries \in [Messages -> [owner : Workers \cup {None}, count : 0 .. limits.delivery]]
      BY <2>0, SMTT(30) DEF one_more, TypeInv, QueueOK
    <3>3. todo \in SUBSET [msg : Messages, count : 0 .. limits.delivery]
      <4>1. \A i \in S : delivery_count(w, S, entries, i) \in 0 .. limits.delivery
        <5> TAKE i \in S
        <5>1. entries[i].count \in 0 .. limits.delivery /\ 0 \in 0 .. limits.delivery
          BY <2>0, <3>2
        <5> HIDE DEF entries
        <5> QED BY <5>1, Zenon DEF delivery_count
      <4> HIDE DEF entries
      <4> QED BY <4>1
    <3>4. \A m \in todo : m.msg \in S
      <4> HIDE DEF entries
      <4> QED OBVIOUS
    <3>5. pel' = entries /\ worker' = [worker EXCEPT ![w].todo = todo] /\ worker[w].pc = "idle"
          /\ (\A i \in S : pending(i))
          /\ UNCHANGED <<ledgerVars, threadVars, stream, cursor, dlq, lock, request, faults>>
      BY <3>1, Zenon DEF ClaimPending
    <3>6. QueueOK'
      <4>1. \A i \in Messages : pending(i)' => pending(i)
        BY <3>5, Zenon DEF pending
      <4> HIDE DEF entries
      <4> QED BY <3>2, <3>5, <4>1, Zenon DEF TypeInv, QueueOK
    <3>7. WorkersOK'
      <4> HIDE DEF todo
      <4>1. \A m \in todo : m.msg <= cursor
        BY <3>4, <3>5, Zenon DEF TypeInv, QueueOK
      <4> DEFINE x == [worker[w] EXCEPT !.todo = todo]
      <4>2. worker[w] \in WorkerState /\ worker[w] = [IdleWorker EXCEPT !.todo = worker[w].todo]
        BY <3>5, WorkerTyped, Zenon DEF WorkerOK
      <4>3. x \in WorkerState /\ x.pc = "idle" /\ x.todo = todo
        BY <3>3, <3>5, <4>2, Zenon DEF WorkerState
      <4>4. x = [IdleWorker EXCEPT !.todo = todo]
        BY <4>2, ZenonT(60) DEF IdleWorker
      <4>5. worker' = [worker EXCEPT ![w] = x] /\ cursor' \in Nat /\ cursor <= cursor' /\ cursor' = cursor
        BY <3>5 DEF TypeInv, QueueOK
      <4> HIDE DEF x
      <4> QED BY <4>1, <4>3, <4>4, <4>5, <1>WorkerMove, Zenon
    <3> HIDE DEF entries, todo
    <3> QED BY <3>5, <3>6, <3>7, <1>Kept, Zenon DEF TypeInv
  <2> QED BY <2>3, <2>4, Zenon DEF TakeWork

\* The lock, its release and its expiry; a worker that dies.
<1>TypeLock.
    ASSUME UNCHANGED limits, NEW w \in Workers,
           AcquireLock(w) \/ ReleaseLock(w) \/ Probe(w) \/ ProbeRelease(w) \/ WorkerCrash(w)
    PROVE  TypeInv'
  <2> USE <1>TypeLock
  <2>1. worker[w].pc # "idle" => task_of(w) \in Tasks
    BY TaskOf, Zenon
  <2>2. CASE AcquireLock(w) \/ Probe(w)
    <3>1. /\ lock' = lock \/ lock' = [lock EXCEPT ![task_of(w)] = w]
          /\ step(w, "begin") \/ step(w, "probe_release") \/ finish(w)
          /\ worker[w].pc # "idle"
          /\ UNCHANGED <<ledgerVars, threadVars, queueVars, request, faults>>
      BY <2>2, Zenon DEF AcquireLock, Probe
    <3>2. WorkersOK'
      BY <3>1, <1>PcStep, <1>FinishStep, Steps, Zenon DEF queueVars
    <3>3. lock' \in [Tasks -> Workers \cup {None}]
      BY <2>1, <3>1, Zenon DEF TypeInv
    <3> QED BY <3>1, <3>2, <3>3, <1>Kept, Zenon DEF TypeInv, queueVars
  <2>3. CASE ReleaseLock(w) \/ ProbeRelease(w)
    <3>1. /\ lock' = [lock EXCEPT ![task_of(w)] = released(task_of(w), w)]
          /\ step(w, "dlq_thread") \/ finish(w)
          /\ worker[w].pc # "idle"
          /\ UNCHANGED <<ledgerVars, threadVars, queueVars, request, faults>>
      BY <2>3, Zenon DEF ReleaseLock, ProbeRelease
    <3>2. WorkersOK'
      BY <3>1, <1>PcStep, <1>FinishStep, Steps, Zenon DEF queueVars
    <3>3. lock' \in [Tasks -> Workers \cup {None}]
      BY <2>1, <3>1, Zenon DEF TypeInv, released
    <3> QED BY <3>1, <3>2, <3>3, <1>Kept, Zenon DEF TypeInv, queueVars
  <2>4. CASE WorkerCrash(w)
    <3>1. worker' = [worker EXCEPT ![w] = IdleWorker]
          /\ faults' = [faults EXCEPT !.crash = @ + 1]
          /\ UNCHANGED <<ledgerVars, threadVars, queueVars, request>>
      BY <2>4, Zenon DEF WorkerCrash
    <3>2. WorkersOK'
      <4>1. IdleWorker \in WorkerState /\ IdleWorker = [IdleWorker EXCEPT !.todo = IdleWorker.todo]
            /\ IdleWorker.pc = "idle" /\ IdleWorker.todo = {}
        BY Steps, Zenon DEF IdleWorker, WorkerState, Position
      <4>2. cursor' \in Nat /\ cursor <= cursor'
        BY <3>1 DEF queueVars, TypeInv, QueueOK
      <4> QED BY <3>1, <4>1, <4>2, <1>WorkerMove, Zenon
    <3>3. lock' \in [Tasks -> Workers \cup {None}]
      <4>1. worker[w].pc \in LockedSteps => worker[w].pc # "idle"
        BY Zenon DEF LockedSteps, GraphSteps
      <4> QED BY <2>1, <2>4, <4>1, Zenon DEF TypeInv, released, WorkerCrash
    <3>4. faults' \in [crash : Nat, lock : Nat, api : Nat]
      BY <3>1 DEF TypeInv
    <3> QED BY <3>1, <3>2, <3>3, <3>4, <1>Kept, Zenon DEF TypeInv, queueVars
  <2> QED BY <2>2, <2>3, <2>4, Zenon

\* Lock expiry, publication by an operator and review keep the types.
<1>TypePeople.
    ASSUME UNCHANGED limits, NEW t \in Tasks,
           \/ LockExpires(t) \/ PublishByOperator(t)
           \/ \E result \in {"APPROVED", "REJECTED"} : Decide(t, result)
    PROVE  TypeInv'
  <2> USE <1>TypePeople
  <2>1. CASE LockExpires(t)
    <3>1. lock' \in [Tasks -> Workers \cup {None}] /\ faults' \in [crash : Nat, lock : Nat, api : Nat]
      BY <2>1 DEF LockExpires, TypeInv
    <3> QED BY <2>1, <3>1, <1>Kept, Zenon DEF LockExpires, TypeInv, queueVars
  <2>2. CASE PublishByOperator(t)
    <3>1. RowsOK'
      BY <2>2, Zenon DEF PublishByOperator, TypeInv, RowsOK
    <3> QED BY <2>2, <3>1, <1>Kept, Zenon DEF PublishByOperator, TypeInv, queueVars
  <2>3. ASSUME NEW result \in {"APPROVED", "REJECTED"}, Decide(t, result) PROVE TypeInv'
    <3>1. [result |-> result, human |-> TRUE] \in [result : AuditStatus, human : BOOLEAN]
      BY Zenon DEF AuditStatus
    <3>2. audits[t] \in Seq([result : AuditStatus, human : BOOLEAN])
      BY Zenon DEF TypeInv, RowsOK
    <3>3. Append(audits[t], [result |-> result, human |-> TRUE]) \in Seq([result : AuditStatus, human : BOOLEAN])
      BY <3>1, <3>2, AppendFacts, Zenon
    <3>4. RowsOK'
      BY <2>3, <3>3, Zenon DEF Decide, TypeInv, RowsOK, set_status, AuditStatus, TERMINAL_STATUSES
    <3> QED BY <2>3, <3>4, <1>Kept, Zenon DEF Decide, TypeInv, queueVars
  <2> QED BY <2>1, <2>2, <2>3, Zenon

\* Steps that only change the worker.
<1>TypeLocal.
    ASSUME UNCHANGED limits, NEW w \in Workers,
           \/ RecoverMessage(w) \/ BeginMessage(w) \/ Reconcile(w) \/ AuditRead(w) \/ GraphFails(w)
    PROVE  TypeInv'
  <2> USE <1>TypeLocal
  <2>0. worker[w] \in WorkerState
    BY WorkerTyped, Zenon
  <2>1. UNCHANGED <<ledgerVars, threadVars, queueVars, lock, request, faults>>
    BY Zenon DEF RecoverMessage, BeginMessage, Reconcile, AuditRead, GraphFails
  <2>2. WorkersOK'
    <3>1. CASE RecoverMessage(w)
      <4>1. PICK m \in worker[w].todo :
              LET next == CASE m.count = 0 -> "idle"
                            [] m.count # 0 /\ should_retry(m.count) -> "lock"
                            [] OTHER -> "probe"
              IN  worker' = [worker EXCEPT ![w].todo = @ \ {m}, ![w].pc = next,
                                           ![w].msg = IF next = "idle" THEN 0 ELSE m.msg]
        BY <3>1, Zenon DEF RecoverMessage, first
      <4> DEFINE next == CASE m.count = 0 -> "idle"
                    [] m.count # 0 /\ should_retry(m.count) -> "lock"
                    [] OTHER -> "probe"
                 x == [worker[w] EXCEPT !.todo = @ \ {m}, !.pc = next, !.msg = IF next = "idle" THEN 0 ELSE m.msg]
      <4>2. m \in [msg : Messages, count : 0 .. limits.delivery] /\ m.msg \in 1 .. cursor
        <5>1. m \in [msg : Messages, count : 0 .. limits.delivery]
          BY <2>0, Zenon DEF WorkerState
        <5>2. m.msg <= cursor
          BY WorkerTyped, Zenon DEF WorkerOK
        <5> QED BY <5>1, <5>2 DEF Messages, TypeInv, QueueOK
      <4>3. next \in {"idle", "lock", "probe"} /\ next \in WorkerSteps
        BY Zenon DEF WorkerSteps
      <4>4. worker' = [worker EXCEPT ![w] = x] /\ cursor' = cursor
        BY <2>1, <4>1, Zenon DEF queueVars
      <4> HIDE DEF next
      <4>5. x \in WorkerState /\ x.pc = next /\ x.todo = worker[w].todo \ {m}
        BY <2>0, <4>2, <4>3, Zenon DEF WorkerState
      <4>6. next # "idle" => x.msg = m.msg
        BY <2>0, Zenon DEF WorkerState
      <4>7. next = "idle" => x = [IdleWorker EXCEPT !.todo = worker[w].todo \ {m}]
        <5>1. worker[w] = [IdleWorker EXCEPT !.todo = worker[w].todo] /\ worker[w].pc = "idle"
          BY <3>1, WorkerTyped, Zenon DEF RecoverMessage, WorkerOK
        <5> SUFFICES ASSUME next = "idle" PROVE x = [IdleWorker EXCEPT !.todo = worker[w].todo \ {m}]
          BY Zenon
        <5> QED BY <5>1, ZenonT(60) DEF IdleWorker
      <4>8. \A n \in worker[w].todo : n.msg <= cursor
        BY WorkerTyped, Zenon DEF WorkerOK
      <4>9. cursor' \in Nat /\ cursor <= cursor'
        BY <4>4 DEF TypeInv, QueueOK
      <4> HIDE DEF x
      <4> QED BY <4>2, <4>3, <4>4, <4>5, <4>6, <4>7, <4>8, <4>9, <1>WorkerMove, Zenon
    <3>2. CASE BeginMessage(w)
      <4> DEFINE s == ledger[task_of(w)]
                 x == IF is_terminal(s) THEN [worker[w] EXCEPT !.pc = "mark_thread", !.verdict = s, !.replay = TRUE]
                                        ELSE [worker[w] EXCEPT !.pc = "reconcile"]
      <4>1. worker' = [worker EXCEPT ![w] = x] /\ cursor' = cursor /\ worker[w].pc # "idle"
        BY <2>1, <3>2, Zenon DEF BeginMessage, queueVars
      <4> HIDE DEF s
      <4>2. x \in WorkerState /\ x.pc \in {"mark_thread", "reconcile"} /\ x.msg = worker[w].msg /\ x.todo = worker[w].todo
        BY <2>0, Steps, Zenon DEF WorkerState, is_terminal
      <4>3. x.pc = "mark_thread" => x.verdict \in TERMINAL_STATUSES
        BY <2>0, Zenon DEF WorkerState, is_terminal
      <4> HIDE DEF x
      <4> QED BY <4>1, <4>2, <4>3, <1>BusyStep, Zenon
    <3>3. CASE Reconcile(w)
      <4> DEFINE a == audits[task_of(w)][1].result
      <4>1. /\ \/ step(w, "thread")
               \/ a \in {"APPROVED", "REVIEW_REQUIRED"} /\ worker' = [worker EXCEPT ![w].pc = "mark_thread", ![w].verdict = a]
            /\ cursor' = cursor /\ worker[w].pc # "idle"
        BY <2>1, <3>3, Zenon DEF Reconcile, step, queueVars
      <4> HIDE DEF a
      <4>2. CASE step(w, "thread")
        BY <4>1, <4>2, <1>PcStep, Steps, Zenon
      <4>3. CASE a \in {"APPROVED", "REVIEW_REQUIRED"} /\ worker' = [worker EXCEPT ![w].pc = "mark_thread", ![w].verdict = a]
        <5> DEFINE x == [worker[w] EXCEPT !.pc = "mark_thread", !.verdict = a]
        <5>1. a \in TERMINAL_STATUSES
          BY <4>3, Zenon DEF TERMINAL_STATUSES
        <5>2. x \in WorkerState /\ x.pc = "mark_thread" /\ x.msg = worker[w].msg /\ x.todo = worker[w].todo /\ x.verdict = a
          BY <2>0, <5>1, Steps, Zenon DEF WorkerState
        <5>3. worker' = [worker EXCEPT ![w] = x]
          BY <4>3, Zenon
        <5> HIDE DEF x
        <5> QED BY <4>1, <5>1, <5>2, <5>3, <1>BusyStep, Zenon
      <4> QED BY <4>1, <4>2, <4>3, Zenon
    <3>4. CASE AuditRead(w)
      <4> DEFINE x == [worker[w] EXCEPT !.pc = "audit_insert", !.verdict = evaluate(worker[w].pos),
                                        !.seen = audits[task_of(w)] # <<>>]
      <4>1. evaluate(worker[w].pos) \in AuditStatus
        BY Zenon DEF evaluate, AuditStatus
      <4>2. (audits[task_of(w)] # <<>>) \in BOOLEAN
        BY Zenon
      <4>3. x \in WorkerState /\ x.pc = "audit_insert" /\ x.msg = worker[w].msg /\ x.todo = worker[w].todo
        BY <2>0, <4>1, <4>2, Steps, Zenon DEF WorkerState, GraphSteps
      <4>4. worker[w].pc # "idle" /\ cursor' = cursor /\ worker' = [worker EXCEPT ![w] = x]
        BY <2>1, <3>4, Zenon DEF AuditRead, queueVars
      <4>5. x.verdict \in AuditStatus
        BY <2>0, <4>1, Zenon DEF WorkerState
      <4> HIDE DEF x
      <4> QED BY <4>3, <4>4, <4>5, <1>BusyStep, Zenon
    <3>5. CASE GraphFails(w)
      <4>1. worker[w].pc # "idle"
        BY <3>5, Zenon DEF GraphFails, GraphSteps
      <4> QED BY <2>1, <3>5, <4>1, <1>PcStep, Steps, Zenon DEF GraphFails, queueVars
    <3> QED BY <3>1, <3>2, <3>3, <3>4, <3>5, Zenon
  <2> QED BY <2>1, <2>2, <1>Kept, Zenon DEF TypeInv, queueVars

\* The canonical pointer moves to a checkpoint of the task, the row's state stays.
<1>PointerMoves.
    ASSUME NEW t \in Tasks, NEW c \in 0 .. Len(store[t]),
           thread' = [thread EXCEPT ![t].ckpt = c], store' = store
    PROVE  ThreadsOK'
  <2> USE <1>PointerMoves
  <2>1. thread[t] \in [ckpt : Nat, terminal : BOOLEAN]
    BY StoreTyped, Zenon
  <2>2. PICK b \in BOOLEAN : thread[t].terminal = b
    BY <2>1, Zenon
  <2>3. [thread[t] EXCEPT !.ckpt = c] = [ckpt |-> c, terminal |-> b]
    BY <2>1, <2>2
  <2>4. thread' = [thread EXCEPT ![t] = [ckpt |-> c, terminal |-> b]]
    BY <2>3, Zenon
  <2>5. ThreadsOK
    BY Zenon DEF TypeInv
  <2> QED BY <2>4, <2>5, <1>ThreadMove, Zenon

\* mark_terminal keeps the threads well formed.
<1>Terminated.
    ASSUME NEW t \in Tasks, terminate(t), store' = store
    PROVE  ThreadsOK'
  <2> USE <1>Terminated
  <2>1. thread[t] \in [ckpt : Nat, terminal : BOOLEAN] /\ thread[t].ckpt \in 0 .. Len(store[t])
    BY StoreTyped, Zenon
  <2>2. PICK b \in BOOLEAN : thread' = [thread EXCEPT ![t].terminal = b]
    BY <2>1, Zenon DEF terminate
  <2>3. [thread[t] EXCEPT !.terminal = b] = [ckpt |-> thread[t].ckpt, terminal |-> b]
    BY <2>1
  <2>4. thread' = [thread EXCEPT ![t] = [ckpt |-> thread[t].ckpt, terminal |-> b]]
    BY <2>2, <2>3, Zenon
  <2>5. ThreadsOK
    BY Zenon DEF TypeInv
  <2> QED BY <2>1, <2>4, <2>5, <1>ThreadMove, Zenon

\* Saving a boundary (_promote) keeps the types.
<1>TypeSave.
    ASSUME UNCHANGED limits, NEW w \in Workers, SaveDispatch(w) \/ SaveAudit(w)
    PROVE  TypeInv'
  <2> USE <1>TypeSave
  <2>1. PICK next \in WorkerSteps \ {"idle", "audit_insert", "mark_task"} :
          /\ save(w, next) /\ worker[w].pc # "idle"
          /\ next = "mark_thread" => worker[w].verdict \in TERMINAL_STATUSES
          /\ UNCHANGED <<ledgerVars, store, queueVars, lock, request, faults>>
    BY Steps, Zenon DEF SaveDispatch, SaveAudit, after_graph, GraphSteps, TERMINAL_STATUSES
  <2>2. task_of(w) \in Tasks /\ worker[w] \in WorkerState
    BY <2>1, TaskOf, WorkerTyped, Zenon
  <2>3. CASE step(w, "release") /\ UNCHANGED thread
    <3>1. UNCHANGED <<cursor, limits>>
      BY <2>1, Zenon DEF queueVars
    <3>2. /\ "release" \in WorkerSteps /\ "release" # "mark_task"
          /\ "release" \notin {"idle", "mark_thread", "audit_insert"}
      BY Steps, Zenon
    <3>3. WorkersOK'
      BY <2>1, <2>3, <3>1, <3>2, <1>PcStep, Zenon
    <3> QED BY <2>1, <2>3, <3>3, <1>Kept, Zenon DEF TypeInv, queueVars, threadVars
  <2>4. ASSUME NEW k, Promotes(w, next, k) PROVE TypeInv'
    <3> DEFINE x == [worker[w] EXCEPT !.canon = k, !.pc = next]
    <3>1. k \in 1 .. Len(store[task_of(w)]) /\ Len(store[task_of(w)]) \in Nat
      BY <2>2, <2>4, Children, StoreTyped, Zenon DEF Promotes
    <3>2. /\ thread' = [thread EXCEPT ![task_of(w)].ckpt = k]
          /\ worker' = [worker EXCEPT ![w] = x]
      BY <2>4, Zenon DEF Promotes
    <3>3. ThreadsOK'
      <4>1. k \in 0 .. Len(store[task_of(w)]) /\ store' = store
        BY <2>1, <3>1
      <4> QED BY <2>2, <3>2, <4>1, <1>PointerMoves, Zenon
    <3>4. k \in Nat
      BY <3>1
    <3>5. x \in WorkerState /\ x.pc = next /\ x.msg = worker[w].msg /\ x.todo = worker[w].todo /\ x.verdict = worker[w].verdict
      BY <2>2, <3>4, Zenon DEF WorkerState
    <3> HIDE DEF x
    <3>6. WorkersOK'
      BY <2>1, <3>2, <3>5, <1>BusyStep, Zenon DEF queueVars
    <3> QED BY <2>1, <3>3, <3>6, <1>Kept, Zenon DEF TypeInv, queueVars
  <2> QED BY <2>1, <2>3, <2>4, SaveCases, Zenon

\* Starting or resuming the graph keeps the types.
<1>TypeStart.
    ASSUME UNCHANGED limits, NEW w \in Workers, StartGraph(w)
    PROVE  TypeInv'
  <2> USE <1>TypeStart
  <2> DEFINE t == task_of(w)
             c == IF orphans(t) = {} THEN thread[t].ckpt ELSE CHOOSE k \in orphans(t) : TRUE
             x == [worker[w] EXCEPT !.pc = IF c = 0 THEN "dispatch" ELSE "audit_read",
                                    !.pos = pos_of(t, c), !.head = c, !.canon = c]
  <2>1. worker[w] \in WorkerState /\ worker[w].pc # "idle" /\ t \in Tasks
    BY WorkerTyped, TaskOf, ZenonT(60) DEF StartGraph
  <2>2. /\ thread' = thread \/ thread' = [thread EXCEPT ![t].ckpt = c]
        /\ worker' = [worker EXCEPT ![w] = x] \/ step(w, "release")
        /\ UNCHANGED <<ledgerVars, store, queueVars, lock, request, faults>>
    BY ZenonT(60) DEF StartGraph, step
  <2> HIDE DEF t
  <2>3. c \in 0 .. Len(store[t]) /\ Len(store[t]) \in Nat
    <3>1. orphans(t) = {} \/ orphans(t) = children(t, thread[t].ckpt)
      BY Zenon DEF orphans
    <3>2. CASE orphans(t) = {}
      BY <2>1, <3>2, StoreTyped, Zenon
    <3>3. CASE orphans(t) # {}
      <4>1. orphans(t) \subseteq 1 .. Len(store[t])
        BY <2>1, <3>1, <3>3, Children, Zenon
      <4>2. c \in orphans(t)
        BY <3>3, Zenon
      <4> HIDE DEF c
      <4> QED BY <2>1, <4>1, <4>2, StoreTyped
    <3> QED BY <3>2, <3>3, Zenon
  <2> HIDE DEF c
  <2>4. pos_of(t, c) \in Position /\ c \in Nat
    BY <2>1, <2>3, StoreTyped DEF pos_of, Position
  <2>5. ThreadsOK'
    <3>1. CASE thread' = thread
      BY <2>2, <3>1, <1>Kept, Zenon DEF threadVars
    <3> QED BY <2>1, <2>2, <2>3, <3>1, <1>PointerMoves, Zenon
  <2>6. x \in WorkerState /\ x.pc \in {"dispatch", "audit_read"} /\ x.msg = worker[w].msg /\ x.todo = worker[w].todo
    <3>1. {"dispatch", "audit_read"} \subseteq WorkerSteps
      BY Steps, Zenon DEF GraphSteps
    <3> QED BY <2>1, <2>4, <3>1, Zenon DEF WorkerState
  <2> HIDE DEF x
  <2>7. WorkersOK'
    BY <2>1, <2>2, <2>6, <1>BusyStep, <1>PcStep, Steps, Zenon DEF queueVars
  <2> QED BY <2>2, <2>5, <2>7, <1>Kept, Zenon DEF TypeInv, queueVars

\* The dispatch node keeps the types.
<1>TypeDispatch.
    ASSUME UNCHANGED limits, NEW w \in Workers, DispatchNode(w)
    PROVE  TypeInv'
  <2> USE <1>TypeDispatch
  <2> DEFINE t == task_of(w)
  <2>1. worker[w] \in WorkerState /\ worker[w].pc # "idle" /\ t \in Tasks
    BY WorkerTyped, TaskOf, Zenon DEF DispatchNode
  <2>2. PICK p \in AfterDispatch :
          /\ dispatch' = dispatch \/ dispatch' = [dispatch EXCEPT ![t] = row_of(p)]
          /\ worker' = [worker EXCEPT ![w].pc = "write_dispatch", ![w].pos = p]
          /\ UNCHANGED <<ledger, audits, published, cased, threadVars, queueVars, lock, request, faults>>
    BY Zenon DEF DispatchNode, AfterDispatch, read_back
  <2> HIDE DEF t
  <2>3. row_of(p) \in {"NONE", "EXECUTED"} \cup AuditStatus
    BY Zenon DEF row_of, AfterDispatch, AuditStatus
  <2>4. dispatch' \in [Tasks -> {"NONE", "EXECUTED"} \cup AuditStatus]
    <3>1. dispatch \in [Tasks -> {"NONE", "EXECUTED"} \cup AuditStatus]
      BY Zenon DEF TypeInv, RowsOK
    <3> QED BY <2>1, <2>2, <2>3, <3>1, Zenon
  <2>5. RowsOK'
    BY <2>2, <2>4, Zenon DEF TypeInv, RowsOK
  <2> DEFINE x == [worker[w] EXCEPT !.pc = "write_dispatch", !.pos = p]
  <2>6. x \in WorkerState /\ x.pc = "write_dispatch" /\ x.msg = worker[w].msg /\ x.todo = worker[w].todo
    <3>1. "write_dispatch" \in WorkerSteps /\ p \in Position
      BY Steps, Zenon DEF GraphSteps, Position
    <3> QED BY <2>1, <3>1, Zenon DEF WorkerState
  <2>7. worker' = [worker EXCEPT ![w] = x]
    BY <2>2, Zenon
  <2> HIDE DEF x
  <2>8. WorkersOK'
    BY <2>1, <2>2, <2>6, <2>7, <1>BusyStep, Zenon DEF queueVars
  <2> QED BY <2>2, <2>5, <2>8, <1>Kept, Zenon DEF TypeInv, queueVars

\* Writing a checkpoint keeps the types.
<1>TypeWrite.
    ASSUME UNCHANGED limits, NEW w \in Workers, WriteCheckpoint(w)
    PROVE  TypeInv'
  <2> USE <1>TypeWrite
  <2> DEFINE t == task_of(w)
             c == [pos |-> IF worker[w].pc = "write_dispatch" THEN worker[w].pos ELSE "end", parent |-> worker[w].head]
             pc == IF worker[w].pc = "write_dispatch" THEN "save_dispatch" ELSE "save_audit"
             x == [worker[w] EXCEPT !.head = Len(store[t]) + 1, !.pc = pc]
  <2>1. worker[w] \in WorkerState /\ worker[w].pc # "idle" /\ t \in Tasks
    BY WorkerTyped, TaskOf, Zenon DEF WriteCheckpoint
  <2>2. /\ store' = [store EXCEPT ![t] = Append(store[t], c)] /\ worker' = [worker EXCEPT ![w] = x]
        /\ UNCHANGED <<ledgerVars, thread, queueVars, lock, request, faults>>
    BY Zenon DEF WriteCheckpoint
  <2>3. c \in [pos : Position, parent : Nat]
    BY <2>1, Zenon DEF WorkerState, Position
  <2> HIDE DEF t, c
  <2>4. store[t] \in Seq([pos : Position, parent : Nat]) /\ Len(store[t]) \in Nat
    BY <2>1, StoreTyped, Zenon
  <2>5. x \in WorkerState /\ x.pc \in {"save_dispatch", "save_audit"} /\ x.msg = worker[w].msg /\ x.todo = worker[w].todo
    <3>1. pc \in WorkerSteps /\ Len(store[t]) + 1 \in Nat
      BY <2>4, Steps DEF GraphSteps
    <3>2. pc \in {"save_dispatch", "save_audit"}
      BY Zenon
    <3> HIDE DEF pc
    <3> QED BY <2>1, <3>1, <3>2, Zenon DEF WorkerState
  <2> HIDE DEF x
  <2>6. /\ Append(store[t], c) \in Seq([pos : Position, parent : Nat])
        /\ Len(Append(store[t], c)) = Len(store[t]) + 1
    BY <2>3, <2>4, AppendFacts
  <2>7. ThreadsOK'
    <3>0. store \in [Tasks -> Seq([pos : Position, parent : Nat])]
      BY Zenon DEF TypeInv, ThreadsOK
    <3>1. store' \in [Tasks -> Seq([pos : Position, parent : Nat])]
      BY <2>2, <2>6, <3>0, Zenon
    <3>2. \A s \in Tasks : store'[s] = IF s = t THEN Append(store[t], c) ELSE store[s]
      BY <2>2, <3>0, Zenon
    <3>3. \A s \in Tasks : thread[s].ckpt \in 0 .. Len(store[s])
      BY StoreTyped, Zenon
    <3>4. \A s \in Tasks : thread'[s].ckpt \in 0 .. Len(store'[s])
      BY <2>2, <2>4, <2>6, <3>2, <3>3
    <3> QED BY <2>2, <3>1, <3>4, Zenon DEF TypeInv, ThreadsOK
  <2>8. WorkersOK'
    BY <2>1, <2>2, <2>5, <1>BusyStep, Zenon DEF queueVars
  <2> QED BY <2>2, <2>7, <2>8, <1>Kept, Zenon DEF TypeInv, queueVars

\* The audit node keeps the types.
<1>TypeInsert.
    ASSUME UNCHANGED limits, NEW w \in Workers, AuditInsert(w)
    PROVE  TypeInv'
  <2> USE <1>TypeInsert
  <2> DEFINE t == task_of(w)
             row == [result |-> worker[w].verdict, human |-> FALSE]
             Row == [result : AuditStatus, human : BOOLEAN]
  <2>1. worker[w] \in WorkerState /\ worker[w].pc # "idle" /\ t \in Tasks /\ worker[w].verdict \in AuditStatus
    BY WorkerTyped, TaskOf, Zenon DEF AuditInsert, WorkerOK
  <2>2. /\ \/ step(w, "write_audit")
           \/ worker' = [worker EXCEPT ![w].pc = "write_audit", ![w].verdict = None]
        /\ audits' = audits \/ audits' = [audits EXCEPT ![t] = Append(audits[t], row)]
        /\ UNCHANGED <<ledger, dispatch, published, cased, threadVars, queueVars, lock, request, faults>>
    BY Zenon DEF AuditInsert
  <2>3. row \in Row
    BY <2>1, Zenon
  <2> HIDE DEF t, row
  <2>4. audits' \in [Tasks -> Seq(Row)]
    <3>1. audits \in [Tasks -> Seq(Row)]
      BY Zenon DEF TypeInv, RowsOK
    <3> HIDE DEF Row
    <3>2. Append(audits[t], row) \in Seq(Row)
      BY <2>1, <2>3, <3>1, AppendFacts, Zenon
    <3> QED BY <2>1, <2>2, <3>1, <3>2, Zenon
  <2>5. RowsOK'
    BY <2>2, <2>4, Zenon DEF TypeInv, RowsOK
  <2>6. WorkersOK'
    <3>1. "write_audit" \in WorkerSteps
      BY Steps, Zenon DEF GraphSteps
    <3>2. CASE step(w, "write_audit")
      BY <2>1, <2>2, <3>1, <3>2, <1>PcStep, Zenon DEF queueVars
    <3>3. CASE worker' = [worker EXCEPT ![w].pc = "write_audit", ![w].verdict = None]
      <4> DEFINE x == [worker[w] EXCEPT !.pc = "write_audit", !.verdict = None]
      <4>1. x \in WorkerState /\ x.pc = "write_audit" /\ x.msg = worker[w].msg /\ x.todo = worker[w].todo
        BY <2>1, <3>1, Zenon DEF WorkerState
      <4>2. worker' = [worker EXCEPT ![w] = x]
        BY <3>3, ZenonT(60)
      <4> HIDE DEF x
      <4> QED BY <2>1, <2>2, <4>1, <4>2, <1>BusyStep, Zenon DEF queueVars
    <3> QED BY <2>2, <3>2, <3>3, Zenon
  <2> QED BY <2>2, <2>5, <2>6, <1>Kept, Zenon DEF TypeInv, queueVars

\* process_message and move_to_dlq make the outcome durable.
<1>TypeOutcome.
    ASSUME UNCHANGED limits, NEW w \in Workers,
           MarkThread(w) \/ MarkTask(w) \/ AutoPublish(w) \/ HandleBreakdown(w) \/ DlqThread(w) \/ DlqTask(w)
    PROVE  TypeInv'
  <2> USE <1>TypeOutcome
  <2> DEFINE t == task_of(w)
  <2>1. worker[w].pc # "idle" /\ t \in Tasks
    BY TaskOf, Zenon DEF MarkThread, MarkTask, AutoPublish, HandleBreakdown, DlqThread, DlqTask
  <2>2. /\ \E pc \in WorkerSteps \ {"idle", "mark_thread", "audit_insert"} :
              step(w, pc) /\ (pc = "mark_task" => worker[w].pc = "mark_thread")
        /\ UNCHANGED <<queueVars, lock, request, faults>>
    <3>0. /\ {"publish", "breakdown", "ack", "release", "dlq_task", "dlq_add"} \subseteq WorkerSteps \ {"idle", "mark_thread", "audit_insert"}
          /\ "mark_task" \notin {"publish", "breakdown", "ack", "release", "dlq_task", "dlq_add"}
      BY Steps, Zenon
    <3>1. CASE MarkThread(w)
      BY <3>1, Steps, Zenon DEF MarkThread, after_task
    <3>2. CASE MarkTask(w)
      <4>1. /\ step(w, after_task(worker[w].verdict)) /\ UNCHANGED <<queueVars, lock, request, faults>>
            /\ after_task(worker[w].verdict) \in {"publish", "ack"}
        BY <3>2, Zenon DEF MarkTask, after_task
      <4> QED BY <3>0, <4>1, Zenon
    <3>3. CASE AutoPublish(w)
      <4>1. /\ step(w, after_publish(task_of(w))) \/ step(w, "release")
            /\ UNCHANGED <<queueVars, lock, request, faults>>
            /\ after_publish(task_of(w)) \in {"breakdown", "ack"}
        BY <3>3, Zenon DEF AutoPublish, after_publish
      <4> QED BY <3>0, <4>1, Zenon
    <3>4. CASE HandleBreakdown(w)
      <4>1. (step(w, "ack") \/ step(w, "release")) /\ UNCHANGED <<queueVars, lock, request, faults>>
        BY <3>4, Zenon DEF HandleBreakdown
      <4> QED BY <3>0, <4>1, Zenon
    <3>5. CASE DlqThread(w)
      <4>1. step(w, "dlq_task") /\ UNCHANGED <<queueVars, lock, request, faults>>
        BY <3>5, Zenon DEF DlqThread
      <4> QED BY <3>0, <4>1, Zenon
    <3>6. CASE DlqTask(w)
      <4>1. step(w, "dlq_add") /\ UNCHANGED <<queueVars, lock, request, faults>>
        BY <3>6, Zenon DEF DlqTask
      <4> QED BY <3>0, <4>1, Zenon
    <3> QED BY <3>1, <3>2, <3>3, <3>4, <3>5, <3>6, Zenon
  <2>3. WorkersOK'
    BY <2>1, <2>2, <1>PcStep, Zenon DEF queueVars
  <2>4. RowsOK'
    <3>1. CASE MarkThread(w) \/ DlqThread(w)
      BY <3>1, <1>Kept, ZenonT(60) DEF MarkThread, DlqThread
    <3>2. CASE MarkTask(w) \/ DlqTask(w)
      <4>1. PICK s \in TERMINAL_STATUSES : set_status(t, s)
        <5>1. MarkTask(w) => worker[w].verdict \in TERMINAL_STATUSES
          BY WorkerTyped, Zenon DEF MarkTask, WorkerOK
        <5>2. "DLQ" \in TERMINAL_STATUSES
          BY Zenon DEF TERMINAL_STATUSES
        <5> QED BY <3>2, <5>1, <5>2, Zenon DEF MarkTask, DlqTask
      <4>2. ledger' \in [Tasks -> TERMINAL_STATUSES \cup {"NONE", "PENDING", "SUBMISSION_FAILED", "REJECTED"}]
        BY <2>1, <4>1, Zenon DEF TypeInv, RowsOK, set_status
      <4> QED BY <3>2, <4>2, ZenonT(60) DEF MarkTask, DlqTask, TypeInv, RowsOK
    <3>3. CASE AutoPublish(w) \/ HandleBreakdown(w)
      <4>1. published' \in [Tasks -> BOOLEAN] /\ cased' \in [Tasks -> BOOLEAN]
        BY <2>1, <3>3, ZenonT(60) DEF AutoPublish, HandleBreakdown, TypeInv, RowsOK
      <4> QED BY <3>3, <4>1, ZenonT(60) DEF AutoPublish, HandleBreakdown, TypeInv, RowsOK
    <3> QED BY <3>1, <3>2, <3>3, Zenon
  <2>5. ThreadsOK'
    <3>1. CASE MarkThread(w) \/ DlqThread(w)
      BY <2>1, <3>1, <1>Terminated, Zenon DEF MarkThread, DlqThread
    <3>2. CASE MarkTask(w) \/ DlqTask(w) \/ AutoPublish(w) \/ HandleBreakdown(w)
      BY <3>2, <1>Kept, Zenon DEF MarkTask, DlqTask, AutoPublish, HandleBreakdown
    <3> QED BY <3>1, <3>2, Zenon
  <2> QED BY <2>2, <2>3, <2>4, <2>5, <1>Kept, Zenon DEF TypeInv, queueVars

\* The acknowledgement, and the dead-letter entry before it.
<1>TypeAck.
    ASSUME UNCHANGED limits, NEW w \in Workers, Ack(w) \/ DlqAdd(w) \/ DlqAck(w)
    PROVE  TypeInv'
  <2> USE <1>TypeAck
  <2>1. worker[w].pc # "idle" /\ worker[w].msg \in Messages
    BY TaskOf, Zenon DEF Ack, DlqAdd, DlqAck
  <2>2. UNCHANGED <<ledgerVars, threadVars, stream, cursor, lock, request, faults>>
    BY Zenon DEF Ack, DlqAdd, DlqAck
  <2>3. WorkersOK'
    BY <2>1, <2>2, <1>PcStep, <1>FinishStep, Steps, Zenon DEF Ack, DlqAdd, DlqAck
  <2>4. QueueOK'
    <3>1. CASE xack(worker[w].msg) /\ dlq' = dlq
      <4>1. /\ pel' \in [Messages -> [owner : Workers \cup {None}, count : 0 .. limits.delivery]]
            /\ \A i \in Messages : pending(i)' => pending(i)
        BY <2>1, <3>1, ZenonT(60) DEF xack, pending, TypeInv, QueueOK
      <4> QED BY <2>2, <3>1, <4>1, Zenon DEF TypeInv, QueueOK
    <3>2. CASE dlq' = [dlq EXCEPT ![worker[w].msg] = @ + 1] /\ pel' = pel
      <4>1. dlq' \in [Messages -> Nat]
        <5>1. dlq \in [Messages -> Nat] /\ worker[w].msg \in Messages
          BY <2>1, Zenon DEF TypeInv, QueueOK
        <5>2. dlq[worker[w].msg] + 1 \in Nat
          BY <5>1
        <5> QED BY <3>2, <5>1, <5>2, Zenon
      <4> QED BY <2>2, <3>2, <4>1, Zenon DEF TypeInv, QueueOK, pending
    <3> QED BY <3>1, <3>2, Zenon DEF Ack, DlqAdd, DlqAck
  <2> QED BY <2>2, <2>3, <2>4, <1>Kept, Zenon DEF TypeInv

<1>1. limits.requests \subseteq Requests /\ limits.workers \subseteq Workers
  BY Zenon DEF TypeInv, Situation
<1>2. CASE UNCHANGED vars
  BY <1>2, <1>Kept, Zenon DEF vars, TypeInv, queueVars
<1>3. CASE Next
  <2>0. UNCHANGED limits
    BY <1>3, Zenon DEF Next
  <2>1. ASSUME NEW r \in Requests, RequestStep(r) \/ ApiCrash(r) PROVE TypeInv'
    BY <2>0, <2>1, <1>TypeRequest, Zenon
  <2>2. ASSUME NEW w \in Workers, WorkerStep(w) \/ TakeWork(w) \/ WorkerCrash(w) PROVE TypeInv'
    BY <2>0, <2>2, <1>TypeTakeWork, <1>TypeLock, <1>TypeLocal, <1>TypeSave, <1>TypeStart, <1>TypeDispatch, <1>TypeWrite, <1>TypeInsert,
       <1>TypeOutcome, <1>TypeAck, Zenon DEF WorkerStep
  <2>3. ASSUME NEW t \in Tasks, LockExpires(t) \/ PublishByOperator(t) PROVE TypeInv'
    BY <2>0, <2>3, <1>TypePeople, Zenon
  <2>4. ASSUME NEW t \in Tasks, NEW result \in {"APPROVED", "REJECTED"}, Decide(t, result) PROVE TypeInv'
    BY <2>0, <2>4, <1>TypePeople, Zenon
  <2> QED BY <1>1, <1>3, <2>1, <2>2, <2>3, <2>4, Zenon DEF Next
<1> QED BY <1>2, <1>3, Zenon

\* The types hold in every reachable state, with the facts later proofs rest on:
\* an idle worker has forgotten its last message, a busy one works on a delivered
\* entry, and the canonical pointer stays inside the thread's checkpoints.
THEOREM TypeSafe == Spec => []TypeInv
BY TypeInit, TypeStep, PTL DEF Spec

=============================================================================
