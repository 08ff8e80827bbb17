------------------------- MODULE PipelineLocks_proofs --------------------------
(***************************************************************************)
(* TLAPS proofs about the dispatch pipeline, second part: what each step   *)
(* changes, and that the execution lock keeps two workers off one task.    *)
(***************************************************************************)
EXTENDS PipelineTypes_proofs

USE PipelineAssumption

\* What a worker does between taking a message (and its lock) and dropping it.
BusyAction(w) ==
    \/ BeginMessage(w) \/ Reconcile(w) \/ StartGraph(w)
    \/ DispatchNode(w) \/ WriteCheckpoint(w) \/ SaveDispatch(w) \/ AuditRead(w) \/ AuditInsert(w) \/ SaveAudit(w)
    \/ GraphFails(w)
    \/ MarkThread(w) \/ MarkTask(w) \/ AutoPublish(w) \/ HandleBreakdown(w) \/ Ack(w)
    \/ DlqThread(w) \/ DlqTask(w) \/ DlqAdd(w)

\* An update of one worker leaves the others alone.
LEMMA Moved ==
    ASSUME TypeInv, NEW w \in Workers, NEW x, worker' = [worker EXCEPT ![w] = x]
    PROVE  worker'[w] = x /\ \A v \in Workers \ {w} : worker'[v] = worker[v]
BY Zenon DEF TypeInv, WorkersOK

\* step only moves the program counter of one worker.
LEMMA Stepped ==
    ASSUME TypeInv, NEW w \in Workers, NEW pc, step(w, pc)
    PROVE  /\ worker'[w].pc = pc /\ worker'[w].msg = worker[w].msg /\ worker'[w].todo = worker[w].todo
           /\ worker'[w].verdict = worker[w].verdict /\ worker'[w].replay = worker[w].replay
           /\ worker'[w].pos = worker[w].pos /\ worker'[w].seen = worker[w].seen
           /\ worker'[w].head = worker[w].head /\ worker'[w].canon = worker[w].canon
           /\ \A v \in Workers \ {w} : worker'[v] = worker[v]
<1>1. worker' = [worker EXCEPT ![w] = [worker[w] EXCEPT !.pc = pc]]
  BY Zenon DEF step
<1>2. worker'[w] = [worker[w] EXCEPT !.pc = pc] /\ \A v \in Workers \ {w} : worker'[v] = worker[v]
  BY <1>1, Moved, Zenon
<1> QED BY <1>2, WorkerTyped, Zenon DEF WorkerState

\* finish makes one worker idle.
LEMMA Finished ==
    ASSUME TypeInv, NEW w \in Workers, finish(w)
    PROVE  /\ worker'[w].pc = "idle" /\ worker'[w].replay = FALSE
           /\ \A v \in Workers \ {w} : worker'[v] = worker[v]
<1>1. worker'[w] = [IdleWorker EXCEPT !.todo = worker[w].todo] /\ \A v \in Workers \ {w} : worker'[v] = worker[v]
  BY Moved, Zenon DEF finish
<1> QED BY <1>1, Zenon DEF IdleWorker

\* What each step leaves in the worker.
LEMMA Begun ==
    ASSUME TypeInv, NEW w \in Workers, BeginMessage(w)
    PROVE  /\ worker[w].pc = "begin" /\ worker'[w].msg = worker[w].msg
           /\ \A v \in Workers \ {w} : worker'[v] = worker[v]
           /\ \/ /\ ledger[task_of(w)] \in TERMINAL_STATUSES
                 /\ worker'[w].pc = "mark_thread" /\ worker'[w].verdict = ledger[task_of(w)] /\ worker'[w].replay = TRUE
              \/ /\ ledger[task_of(w)] \notin TERMINAL_STATUSES
                 /\ worker'[w].pc = "reconcile" /\ worker'[w].replay = worker[w].replay
           /\ UNCHANGED <<ledgerVars, threadVars, queueVars, lock, request, faults>>
<1> DEFINE s == ledger[task_of(w)]
           x == IF is_terminal(s) THEN [worker[w] EXCEPT !.pc = "mark_thread", !.verdict = s, !.replay = TRUE]
                                  ELSE [worker[w] EXCEPT !.pc = "reconcile"]
<1>1. worker' = [worker EXCEPT ![w] = x] /\ worker[w].pc = "begin"
      /\ UNCHANGED <<ledgerVars, threadVars, queueVars, lock, request, faults>>
  BY Zenon DEF BeginMessage
<1> HIDE DEF s
<1>2. worker'[w] = x /\ \A v \in Workers \ {w} : worker'[v] = worker[v]
  BY <1>1, Moved, Zenon
<1>3. x.msg = worker[w].msg
      /\ \/ s \in TERMINAL_STATUSES /\ x.pc = "mark_thread" /\ x.verdict = s /\ x.replay = TRUE
         \/ s \notin TERMINAL_STATUSES /\ x.pc = "reconcile" /\ x.replay = worker[w].replay
  BY WorkerTyped, Zenon DEF WorkerState, is_terminal
<1> HIDE DEF x
<1> QED BY <1>1, <1>2, <1>3, Zenon DEF s

\* reconcile_existing_execution ends the message with the verdict of the oldest
\* audit row, or goes on to the thread.
LEMMA Reconciled ==
    ASSUME TypeInv, NEW w \in Workers, Reconcile(w)
    PROVE  /\ worker[w].pc = "reconcile" /\ worker'[w].msg = worker[w].msg
           /\ \A v \in Workers \ {w} : worker'[v] = worker[v]
           /\ \/ /\ dispatch[task_of(w)] # "NONE" /\ audits[task_of(w)] # <<>>
                 /\ worker'[w].verdict = audits[task_of(w)][1].result
                 /\ worker'[w].verdict \in {"APPROVED", "REVIEW_REQUIRED"}
                 /\ worker'[w].pc = "mark_thread"
              \/ worker'[w].pc = "thread"
           /\ worker'[w].replay = worker[w].replay
           /\ UNCHANGED <<ledgerVars, threadVars, queueVars, lock, request, faults>>
<1> DEFINE t == task_of(w)
           a == audits[t][1].result
           found == dispatch[t] # "NONE" /\ audits[t] # <<>> /\ a \in {"APPROVED", "REVIEW_REQUIRED"}
           x == IF found THEN [worker[w] EXCEPT !.pc = "mark_thread", !.verdict = a]
                         ELSE [worker[w] EXCEPT !.pc = "thread"]
<1>1. worker' = [worker EXCEPT ![w] = x] /\ worker[w].pc = "reconcile"
      /\ UNCHANGED <<ledgerVars, threadVars, queueVars, lock, request, faults>>
  BY Zenon DEF Reconcile
<1> HIDE DEF a, t
<1>2. worker'[w] = x /\ \A v \in Workers \ {w} : worker'[v] = worker[v]
  BY <1>1, Moved, ZenonT(60)
<1>3. x.msg = worker[w].msg /\ x.replay = worker[w].replay /\ (found => x.pc = "mark_thread" /\ x.verdict = a)
      /\ (~found => x.pc = "thread")
  BY WorkerTyped, Zenon DEF WorkerState
<1> HIDE DEF x
<1> QED BY <1>1, <1>2, <1>3, Zenon DEF a, t

\* Where the graph starts: at a new thread, after the one boundary that follows
\* the canonical checkpoint, or not at all.
LEMMA Started ==
    ASSUME TypeInv, NEW w \in Workers, StartGraph(w)
    PROVE  LET t == task_of(w) IN
           /\ worker[w].pc = "thread" /\ worker'[w].msg = worker[w].msg /\ worker'[w].replay = worker[w].replay
           /\ \A v \in Workers \ {w} : worker'[v] = worker[v]
           /\ \/ worker'[w].pc = "release" /\ thread' = thread
              \/ \E c \in 0 .. Len(store[t]) :
                    /\ \/ c = thread[t].ckpt /\ orphans(t) = {}
                       \/ orphans(t) = {c} /\ ~thread[t].terminal /\ c \in children(t, thread[t].ckpt)
                    /\ thread' = [thread EXCEPT ![t].ckpt = c]
                    /\ \/ worker'[w].pc = "release"
                       \/ /\ runnable(t, c) /\ worker'[w].pc = (IF c = 0 THEN "dispatch" ELSE "audit_read")
                          /\ worker'[w].pos = pos_of(t, c) /\ worker'[w].head = c /\ worker'[w].canon = c
           /\ UNCHANGED <<ledgerVars, store, queueVars, lock, request, faults>>
<1> DEFINE t == task_of(w)
           c == IF orphans(t) = {} THEN thread[t].ckpt ELSE CHOOSE k \in orphans(t) : TRUE
           one == ~divergent(t)
           x == IF one /\ runnable(t, c)
                  THEN [worker[w] EXCEPT !.pc = IF c = 0 THEN "dispatch" ELSE "audit_read",
                                         !.pos = pos_of(t, c), !.head = c, !.canon = c]
                  ELSE [worker[w] EXCEPT !.pc = "release"]
<1>1. /\ worker[w].pc = "thread"
      /\ worker' = [worker EXCEPT ![w] = x]
      /\ IF one THEN thread' = [thread EXCEPT ![t].ckpt = c] ELSE thread' = thread
      /\ UNCHANGED <<ledgerVars, store, queueVars, lock, request, faults>>
  BY ZenonT(60) DEF StartGraph
<1>2. t \in Tasks
  BY <1>1, TaskOf, Zenon
<1> HIDE DEF t
<1>3. Len(store[t]) \in Nat /\ thread[t].ckpt \in 0 .. Len(store[t])
  BY <1>2, StoreTyped, Zenon
<1>4. one => /\ c \in 0 .. Len(store[t])
             /\ \/ c = thread[t].ckpt /\ orphans(t) = {}
                \/ orphans(t) = {c} /\ ~thread[t].terminal /\ c \in children(t, thread[t].ckpt)
  <2>1. CASE orphans(t) = {}
    BY <1>3, <2>1, Zenon
  <2>2. CASE one /\ orphans(t) # {}
    <3>1. orphans(t) = children(t, thread[t].ckpt) /\ ~thread[t].terminal
      BY <2>2, Zenon DEF orphans
    <3>2. orphans(t) \subseteq 1 .. Len(store[t])
      BY <1>2, <3>1, Children, Zenon
    <3>3. c \in orphans(t)
      BY <2>2, Zenon
    <3> HIDE DEF c
    <3>4. orphans(t) = {c}
      BY <2>2, <3>3, Zenon DEF divergent
    <3> QED BY <1>3, <3>1, <3>2, <3>3, <3>4
  <2> QED BY <2>1, <2>2, Zenon
<1> HIDE DEF c, one
<1>5. worker'[w] = x /\ \A v \in Workers \ {w} : worker'[v] = worker[v]
  BY <1>1, Moved, Zenon
<1>6. /\ x.msg = worker[w].msg /\ x.replay = worker[w].replay
      /\ \/ x.pc = "release"
         \/ /\ one /\ runnable(t, c) /\ x.pc = (IF c = 0 THEN "dispatch" ELSE "audit_read")
            /\ x.pos = pos_of(t, c) /\ x.head = c /\ x.canon = c
  BY WorkerTyped, Zenon DEF WorkerState
<1> HIDE DEF x
<1>7. CASE one
  BY <1>1, <1>4, <1>5, <1>6, <1>7, Zenon DEF t
<1>8. CASE ~one
  BY <1>1, <1>5, <1>6, <1>8, Zenon DEF t
<1> QED BY <1>7, <1>8, Zenon

\* The dispatch node creates the row of its task or reads it back.
LEMMA Dispatched ==
    ASSUME TypeInv, NEW w \in Workers, DispatchNode(w)
    PROVE  LET t == task_of(w) IN
           /\ worker[w].pc = "dispatch" /\ worker'[w].pc = "write_dispatch"
           /\ worker'[w].msg = worker[w].msg /\ worker'[w].replay = worker[w].replay
           /\ worker'[w].head = worker[w].head /\ worker'[w].canon = worker[w].canon
           /\ worker'[w].pos \in AfterDispatch
           /\ \A v \in Workers \ {w} : worker'[v] = worker[v]
           /\ \/ dispatch[t] = "NONE" /\ dispatch' = [dispatch EXCEPT ![t] = row_of(worker'[w].pos)]
              \/ dispatch[t] # "NONE" /\ worker'[w].pos \in read_back(dispatch[t]) /\ dispatch' = dispatch
           /\ UNCHANGED <<ledger, audits, published, cased, threadVars, queueVars, lock, request, faults>>
<1> DEFINE t == task_of(w)
<1>1. worker[w].pc = "dispatch"
      /\ UNCHANGED <<ledger, audits, published, cased, threadVars, queueVars, lock, request, faults>>
  BY Zenon DEF DispatchNode
<1>2. PICK p \in AfterDispatch :
        /\ worker' = [worker EXCEPT ![w].pc = "write_dispatch", ![w].pos = p]
        /\ \/ dispatch[t] = "NONE" /\ dispatch' = [dispatch EXCEPT ![t] = row_of(p)]
           \/ dispatch[t] # "NONE" /\ p \in read_back(dispatch[t]) /\ dispatch' = dispatch
  BY Zenon DEF DispatchNode, read_back, AfterDispatch
<1> DEFINE x == [worker[w] EXCEPT !.pc = "write_dispatch", !.pos = p]
<1>3. worker'[w] = x /\ \A v \in Workers \ {w} : worker'[v] = worker[v]
  <2>1. worker' = [worker EXCEPT ![w] = x]
    BY <1>2, Zenon
  <2> HIDE DEF x
  <2> QED BY <2>1, Moved, Zenon
<1>4. x.pc = "write_dispatch" /\ x.pos = p /\ x.msg = worker[w].msg /\ x.replay = worker[w].replay
      /\ x.head = worker[w].head /\ x.canon = worker[w].canon
  BY WorkerTyped, Zenon DEF WorkerState
<1> HIDE DEF x
<1> QED BY <1>1, <1>2, <1>3, <1>4, Zenon

\* Writing a checkpoint appends it to the store of the task.
LEMMA Written ==
    ASSUME TypeInv, NEW w \in Workers, WriteCheckpoint(w)
    PROVE  LET t == task_of(w)
               p == IF worker[w].pc = "write_dispatch" THEN worker[w].pos ELSE "end"
           IN
           /\ worker[w].pc \in {"write_dispatch", "write_audit"}
           /\ worker'[w].pc = (IF worker[w].pc = "write_dispatch" THEN "save_dispatch" ELSE "save_audit")
           /\ worker'[w].head = Len(store[t]) + 1
           /\ worker'[w].msg = worker[w].msg /\ worker'[w].replay = worker[w].replay
           /\ worker'[w].pos = worker[w].pos /\ worker'[w].canon = worker[w].canon
           /\ worker'[w].verdict = worker[w].verdict
           /\ \A v \in Workers \ {w} : worker'[v] = worker[v]
           /\ store' = [store EXCEPT ![t] = Append(@, [pos |-> p, parent |-> worker[w].head])]
           /\ UNCHANGED <<ledgerVars, thread, queueVars, lock, request, faults>>
<1> DEFINE t == task_of(w)
           pc == IF worker[w].pc = "write_dispatch" THEN "save_dispatch" ELSE "save_audit"
           x == [worker[w] EXCEPT !.head = Len(store[t]) + 1, !.pc = pc]
<1>1. worker' = [worker EXCEPT ![w] = x]
  BY Zenon DEF WriteCheckpoint
<1> HIDE DEF pc
<1>3. worker'[w] = x /\ \A v \in Workers \ {w} : worker'[v] = worker[v]
  BY <1>1, Moved, Zenon
<1>4. x.pc = pc /\ x.head = Len(store[t]) + 1 /\ x.msg = worker[w].msg /\ x.replay = worker[w].replay
      /\ x.pos = worker[w].pos /\ x.canon = worker[w].canon /\ x.verdict = worker[w].verdict
  BY WorkerTyped, Zenon DEF WorkerState
<1> HIDE DEF x
<1> QED BY <1>3, <1>4, Zenon DEF WriteCheckpoint, pc

\* Saving promotes the newest checkpoint after the one this runner knows as
\* canonical, or gives the message up.
LEMMA Saved ==
    ASSUME TypeInv, NEW w \in Workers, NEW next, worker[w].pc # "idle", save(w, next)
    PROVE  LET t == task_of(w)
           IN
           /\ worker'[w].msg = worker[w].msg /\ worker'[w].replay = worker[w].replay
           /\ worker'[w].verdict = worker[w].verdict /\ worker'[w].pos = worker[w].pos
           /\ worker'[w].head = worker[w].head
           /\ \A v \in Workers \ {w} : worker'[v] = worker[v]
           /\ \/ worker'[w].pc = "release" /\ thread' = thread
              \/ \E k \in newest(children(t, worker[w].canon)) :
                   /\ can_promote(t, worker[w].canon, k) /\ thread' = [thread EXCEPT ![t].ckpt = k]
                   /\ worker'[w].pc = next /\ worker'[w].canon = k
<1>1. CASE step(w, "release") /\ thread' = thread
  BY <1>1, Stepped, Zenon
<1>2. CASE \E k : Promotes(w, next, k)
  <2>0. PICK k : Promotes(w, next, k)
    BY <1>2, Zenon
  <2> DEFINE x == [worker[w] EXCEPT !.canon = k, !.pc = next]
  <2>1. worker' = [worker EXCEPT ![w] = x]
    BY <2>0, Zenon DEF Promotes
  <2>2. worker'[w] = x /\ \A v \in Workers \ {w} : worker'[v] = worker[v]
    BY <2>1, Moved, Zenon
  <2>3. x.pc = next /\ x.canon = k /\ x.msg = worker[w].msg /\ x.replay = worker[w].replay
        /\ x.verdict = worker[w].verdict /\ x.pos = worker[w].pos /\ x.head = worker[w].head
    BY WorkerTyped, Zenon DEF WorkerState
  <2> HIDE DEF x
  <2> QED BY <2>0, <2>2, <2>3, Zenon DEF Promotes
<1> QED BY <1>1, <1>2, SaveCases, Zenon

\* The audit node reads the rows before it inserts one.
LEMMA Audited ==
    ASSUME TypeInv, NEW w \in Workers, AuditRead(w)
    PROVE  /\ worker[w].pc = "audit_read" /\ worker'[w].pc = "audit_insert"
           /\ worker'[w].msg = worker[w].msg /\ worker'[w].replay = worker[w].replay
           /\ worker'[w].pos = worker[w].pos /\ worker'[w].head = worker[w].head /\ worker'[w].canon = worker[w].canon
           /\ worker'[w].verdict = evaluate(worker[w].pos)
           /\ worker'[w].seen <=> audits[task_of(w)] # <<>>
           /\ \A v \in Workers \ {w} : worker'[v] = worker[v]
           /\ UNCHANGED <<ledgerVars, threadVars, queueVars, lock, request, faults>>
<1> DEFINE e == evaluate(worker[w].pos)
           b == audits[task_of(w)] # <<>>
           x == [worker[w] EXCEPT !.pc = "audit_insert", !.verdict = e, !.seen = b]
<1>1. worker' = [worker EXCEPT ![w] = x]
  BY Zenon DEF AuditRead
<1> HIDE DEF e, b
<1>2. worker'[w] = x /\ \A v \in Workers \ {w} : worker'[v] = worker[v]
  BY <1>1, Moved, Zenon
<1>3. x.pc = "audit_insert" /\ x.verdict = e /\ x.seen = b /\ x.msg = worker[w].msg /\ x.replay = worker[w].replay
      /\ x.pos = worker[w].pos /\ x.head = worker[w].head /\ x.canon = worker[w].canon
  BY WorkerTyped, Zenon DEF WorkerState
<1> HIDE DEF x
<1> QED BY <1>2, <1>3, Zenon DEF AuditRead, e, b

\* The audit node inserts its row when it needs one, and may fail to.
LEMMA Inserted ==
    ASSUME TypeInv, NEW w \in Workers, AuditInsert(w)
    PROVE  LET t == task_of(w) IN
           /\ worker[w].pc = "audit_insert" /\ worker'[w].pc = "write_audit"
           /\ worker'[w].msg = worker[w].msg /\ worker'[w].replay = worker[w].replay
           /\ worker'[w].pos = worker[w].pos /\ worker'[w].head = worker[w].head /\ worker'[w].canon = worker[w].canon
           /\ \/ /\ worker'[w].verdict = worker[w].verdict /\ needs_row(w)
                 /\ audits' = [audits EXCEPT ![t] = Append(@, [result |-> worker[w].verdict, human |-> FALSE])]
              \/ worker'[w].verdict = worker[w].verdict /\ ~needs_row(w) /\ audits' = audits
              \/ worker'[w].verdict = None /\ audits' = audits
           /\ \A v \in Workers \ {w} : worker'[v] = worker[v]
           /\ UNCHANGED <<ledger, dispatch, published, cased, threadVars, queueVars, lock, request, faults>>
<1>1. CASE step(w, "write_audit")
           /\ audits' = IF needs_row(w)
                THEN [audits EXCEPT ![task_of(w)] = Append(@, [result |-> worker[w].verdict, human |-> FALSE])]
                ELSE audits
  BY <1>1, Stepped DEF AuditInsert
<1>2. CASE worker' = [worker EXCEPT ![w].pc = "write_audit", ![w].verdict = None] /\ audits' = audits
  <2> DEFINE x == [worker[w] EXCEPT !.pc = "write_audit", !.verdict = None]
  <2>1. worker' = [worker EXCEPT ![w] = x]
    BY <1>2, Zenon
  <2>2. worker'[w] = x /\ \A v \in Workers \ {w} : worker'[v] = worker[v]
    BY <2>1, Moved, Zenon
  <2>3. x.pc = "write_audit" /\ x.verdict = None /\ x.msg = worker[w].msg /\ x.replay = worker[w].replay
      /\ x.pos = worker[w].pos /\ x.head = worker[w].head /\ x.canon = worker[w].canon
    BY WorkerTyped DEF WorkerState
  <2> HIDE DEF x
  <2> QED BY <1>2, <2>2, <2>3, Zenon DEF AuditInsert
<1> QED BY <1>1, <1>2, Zenon DEF AuditInsert

\* A step of a busy worker: it keeps its message, nobody takes a lock, and the
\* other workers stay where they are.
LEMMA Frame ==
    ASSUME TypeInv, NEW w \in Workers, BusyAction(w)
    PROVE  /\ worker[w].pc # "idle" /\ worker'[w].pc # "idle"
           /\ worker'[w].msg = worker[w].msg /\ task_of(w)' = task_of(w)
           /\ worker'[w].pc \in LockedSteps => worker[w].pc \in LockedSteps
           /\ \A v \in Workers \ {w} : worker'[v] = worker[v]
           /\ UNCHANGED <<stream, cursor, lock, request, faults>>
<1> USE Steps
<1>1. CASE BeginMessage(w)
  BY <1>1, Begun, Zenon DEF task_of, queueVars
<1>2. CASE Reconcile(w)
  BY <1>2, Reconciled, Zenon DEF task_of, queueVars
<1>3. CASE StartGraph(w)
  BY <1>3, Started, Zenon DEF task_of, queueVars
<1>4. CASE DispatchNode(w)
  <2>1. "dispatch" \in LockedSteps
    BY Zenon DEF GraphSteps
  <2> QED BY <1>4, <2>1, Dispatched, Zenon DEF task_of, queueVars
<1>5. CASE WriteCheckpoint(w)
  <2>1. {"write_dispatch", "write_audit"} \subseteq LockedSteps
    BY Zenon DEF GraphSteps
  <2> QED BY <1>5, <2>1, Written, ZenonT(60) DEF task_of, queueVars
<1>6. CASE SaveDispatch(w) \/ SaveAudit(w)
  <2>1. {"save_dispatch", "save_audit"} \subseteq LockedSteps
    BY Zenon DEF GraphSteps
  <2>2. PICK next \in {"audit_read", "mark_thread", "release"} : save(w, next)
    BY <1>6, Zenon DEF SaveDispatch, SaveAudit, after_graph
  <2>3. worker[w].pc \in {"save_dispatch", "save_audit"} /\ UNCHANGED <<queueVars, lock, request, faults>>
    BY <1>6, Zenon DEF SaveDispatch, SaveAudit
  <2> QED BY <2>1, <2>2, <2>3, Saved, Zenon DEF task_of, queueVars
<1>7. CASE AuditRead(w)
  <2>1. "audit_read" \in LockedSteps
    BY Zenon DEF GraphSteps
  <2> QED BY <1>7, <2>1, Audited, Zenon DEF task_of, queueVars
<1>8. CASE AuditInsert(w)
  <2>1. "audit_insert" \in LockedSteps
    BY Zenon DEF GraphSteps
  <2> QED BY <1>8, <2>1, Inserted, Zenon DEF task_of, queueVars
<1>9. CASE GraphFails(w)
  BY <1>9, Stepped DEF GraphFails, task_of, queueVars
<1>10. CASE MarkThread(w) \/ MarkTask(w) \/ AutoPublish(w) \/ HandleBreakdown(w) \/ Ack(w)
  <2>1. PICK pc \in {"mark_task", "publish", "breakdown", "ack", "release"} : step(w, pc)
    BY <1>10, Zenon DEF MarkThread, MarkTask, AutoPublish, HandleBreakdown, Ack, after_task, after_publish
  <2>2. worker[w].pc \in {"mark_thread", "mark_task", "publish", "breakdown", "ack"}
        /\ UNCHANGED <<stream, cursor, lock, request, faults>>
    BY <1>10, Zenon DEF MarkThread, MarkTask, AutoPublish, HandleBreakdown, Ack, queueVars
  <2> QED BY <2>1, <2>2, Stepped DEF task_of
<1>11. CASE DlqThread(w) \/ DlqTask(w) \/ DlqAdd(w)
  <2>1. PICK pc \in {"dlq_task", "dlq_add", "dlq_ack"} : step(w, pc)
    BY <1>11, Zenon DEF DlqThread, DlqTask, DlqAdd
  <2>2. worker[w].pc # "idle" /\ UNCHANGED <<stream, cursor, lock, request, faults>>
    BY <1>11, Zenon DEF DlqThread, DlqTask, DlqAdd, queueVars
  <2>3. {"dlq_task", "dlq_add", "dlq_ack"} \cap LockedSteps = {}
    BY Zenon DEF LockedSteps, GraphSteps
  <2> QED BY <2>1, <2>2, <2>3, Stepped DEF task_of
<1> QED BY <1>1, <1>2, <1>3, <1>4, <1>5, <1>6, <1>7, <1>8, <1>9, <1>10, <1>11, Zenon DEF BusyAction

\* The steps of the system, by who takes them.
LEMMA Cases ==
    ASSUME TypeInv, Next
    PROVE  /\ limits' = limits
           /\ \/ \E r \in Requests : RequestStep(r) \/ ApiCrash(r)
              \/ \E w \in Workers : BusyAction(w)
              \/ \E w \in Workers : TakeWork(w) \/ RecoverMessage(w) \/ DlqAck(w)
              \/ \E w \in Workers : AcquireLock(w) \/ Probe(w)
              \/ \E w \in Workers : ReleaseLock(w) \/ ProbeRelease(w) \/ WorkerCrash(w)
              \/ \E t \in Tasks : LockExpires(t)
              \/ \E t \in Tasks : PublishByOperator(t) \/ \E result \in {"APPROVED", "REJECTED"} : Decide(t, result)
<1>1. limits.requests \subseteq Requests /\ limits.workers \subseteq Workers
  BY Zenon DEF TypeInv, Situation
<1>2. \A w \in Workers : WorkerStep(w) =>
        \/ BusyAction(w) \/ RecoverMessage(w) \/ DlqAck(w)
        \/ AcquireLock(w) \/ Probe(w) \/ ReleaseLock(w) \/ ProbeRelease(w)
  BY Zenon DEF WorkerStep, BusyAction
<1> QED BY <1>1, <1>2, Zenon DEF Next

\* Requests only change their own state, the task rows and the end of the stream.
LEMMA RequestFrame ==
    ASSUME TypeInv, NEW r \in Requests, RequestStep(r) \/ ApiCrash(r)
    PROVE  /\ UNCHANGED <<dispatch, audits, published, cased, store, cursor, pel, dlq, lock, worker>>
           /\ faults'.lock = faults.lock
           /\ \A i \in 1 .. cursor : stream'[i] = stream[i]
<1>1. CASE \E t \in limits.tasks : Submit(r, t)
  BY <1>1, Zenon DEF Submit, ledgerVars, threadVars, queueVars
<1>2. CASE BeginTask(r)
  BY <1>2, Zenon DEF BeginTask, queueVars
<1>3. CASE Publish(r)
  <2>1. stream \in Seq(Tasks) /\ request[r].task \in Tasks /\ cursor \in 0 .. Len(stream)
    BY <1>3, Zenon DEF TypeInv, QueueOK, RequestsOK, Publish
  <2>2. stream' = stream \/ stream' = Append(stream, request[r].task)
    BY <1>3, Zenon DEF Publish, xadd
  <2>3. \A i \in 1 .. cursor : stream'[i] = stream[i]
    BY <2>1, <2>2, AppendFacts
  <2> QED BY <1>3, <2>3, Zenon DEF Publish, ledgerVars, threadVars
<1>4. CASE MarkSubmissionFailed(r) \/ SetSubmissionPending(r)
  BY <1>4, Zenon DEF MarkSubmissionFailed, SetSubmissionPending, queueVars, threadVars
<1>5. CASE ApiCrash(r)
  BY <1>5, Zenon DEF ApiCrash, queueVars, threadVars, ledgerVars, TypeInv
<1> QED BY <1>1, <1>2, <1>3, <1>4, <1>5, Zenon DEF RequestStep

\* Taking a message, and dropping it at the end of a dead letter.
LEMMA IdleFrame ==
    ASSUME TypeInv, NEW w \in Workers, TakeWork(w) \/ RecoverMessage(w) \/ DlqAck(w)
    PROVE  /\ worker'[w].pc \in {"idle", "lock", "probe"} /\ worker'[w].replay = FALSE
           /\ \A v \in Workers \ {w} : worker'[v] = worker[v]
           /\ UNCHANGED <<ledgerVars, threadVars, stream, dlq, lock, request, faults>>
<1>0. worker[w] \in WorkerState /\ (worker[w].pc = "idle" => worker[w].replay = FALSE)
  BY WorkerTyped, Zenon DEF WorkerOK, IdleWorker
<1>1. CASE ReadGroup(w)
  <2> DEFINE x == [worker[w] EXCEPT !.pc = "lock", !.msg = cursor + 1]
  <2>1. worker' = [worker EXCEPT ![w] = x] /\ worker[w].pc = "idle"
        /\ UNCHANGED <<ledgerVars, threadVars, stream, dlq, lock, request, faults>>
    BY <1>1, Zenon DEF ReadGroup
  <2>2. x.pc = "lock" /\ x.replay = worker[w].replay
    BY <1>0, Zenon DEF WorkerState
  <2> HIDE DEF x
  <2> QED BY <1>0, <2>1, <2>2, Moved, Zenon
<1>2. CASE \E S \in SUBSET Messages : ClaimPending(w, S)
  <2>1. PICK todo : worker' = [worker EXCEPT ![w].todo = todo] /\ worker[w].pc = "idle"
        /\ UNCHANGED <<ledgerVars, threadVars, stream, dlq, lock, request, faults>>
    BY <1>2, Zenon DEF ClaimPending
  <2> DEFINE x == [worker[w] EXCEPT !.todo = todo]
  <2>2. x.pc = worker[w].pc /\ x.replay = worker[w].replay /\ worker' = [worker EXCEPT ![w] = x]
    BY <1>0, <2>1, Zenon DEF WorkerState
  <2> HIDE DEF x
  <2> QED BY <1>0, <2>1, <2>2, Moved
<1>3. CASE RecoverMessage(w)
  <2>1. PICK m, next, msg : /\ worker' = [worker EXCEPT ![w].todo = @ \ {m}, ![w].pc = next, ![w].msg = msg]
                            /\ next \in {"idle", "lock", "probe"}
    BY <1>3, Zenon DEF RecoverMessage
  <2>2. worker[w].pc = "idle" /\ UNCHANGED <<ledgerVars, threadVars, stream, dlq, lock, request, faults>>
    BY <1>3, Zenon DEF RecoverMessage, queueVars
  <2> DEFINE x == [worker[w] EXCEPT !.todo = @ \ {m}, !.pc = next, !.msg = msg]
  <2>3. x.pc = next /\ x.replay = worker[w].replay /\ worker' = [worker EXCEPT ![w] = x]
    BY <1>0, <2>1, Zenon DEF WorkerState
  <2> HIDE DEF x
  <2> QED BY <1>0, <2>1, <2>2, <2>3, Moved, ZenonT(60)
<1>4. CASE DlqAck(w)
  BY <1>4, Finished, Zenon DEF DlqAck
<1> QED BY <1>1, <1>2, <1>3, <1>4, Zenon DEF TakeWork

\* Taking the lock, to run the task or as a probe.
LEMMA LockFrame ==
    ASSUME TypeInv, NEW w \in Workers, AcquireLock(w) \/ Probe(w)
    PROVE  LET t == task_of(w) IN
           /\ t \in Tasks /\ worker[w].pc \in {"lock", "probe"}
           /\ \/ /\ lock[t] = None /\ lock' = [lock EXCEPT ![t] = w] /\ worker'[w].msg = worker[w].msg
                 /\ worker'[w].pc = (IF worker[w].pc = "lock" THEN "begin" ELSE "probe_release")
                 /\ worker'[w].replay = worker[w].replay
              \/ lock' = lock /\ worker'[w].pc = "idle" /\ worker'[w].replay = FALSE
           /\ \A v \in Workers \ {w} : worker'[v] = worker[v]
           /\ UNCHANGED <<ledgerVars, threadVars, queueVars, request, faults>>
<1>1. worker[w].pc \in {"lock", "probe"} /\ task_of(w) \in Tasks
  BY TaskOf, Zenon DEF AcquireLock, Probe
<1>2. /\ \/ lock[task_of(w)] = None /\ lock' = [lock EXCEPT ![task_of(w)] = w]
            /\ step(w, IF worker[w].pc = "lock" THEN "begin" ELSE "probe_release")
         \/ lock' = lock /\ finish(w)
      /\ UNCHANGED <<ledgerVars, threadVars, queueVars, request, faults>>
  BY Zenon DEF AcquireLock, Probe, lock_free
<1>3. CASE lock' = lock /\ finish(w)
  BY <1>1, <1>2, <1>3, Finished, Zenon
<1>4. CASE /\ lock[task_of(w)] = None /\ lock' = [lock EXCEPT ![task_of(w)] = w]
           /\ step(w, IF worker[w].pc = "lock" THEN "begin" ELSE "probe_release")
  <2>1. PICK pc : pc = (IF worker[w].pc = "lock" THEN "begin" ELSE "probe_release") /\ step(w, pc)
    BY <1>4, Zenon
  <2> QED BY <1>1, <1>2, <1>4, <2>1, Stepped
<1> QED BY <1>2, <1>3, <1>4, Zenon

\* Giving it back, or dying.
LEMMA ReleaseFrame ==
    ASSUME TypeInv, NEW w \in Workers, ReleaseLock(w) \/ ProbeRelease(w) \/ WorkerCrash(w)
    PROVE  /\ worker'[w].pc \in {"idle", "dlq_thread"} /\ (worker'[w].pc = "idle" => worker'[w].replay = FALSE)
           /\ worker'[w].pc = "dlq_thread" => worker'[w].msg = worker[w].msg /\ worker[w].pc = "probe_release"
           /\ \/ lock' = lock
              \/ task_of(w) \in Tasks /\ lock' = [lock EXCEPT ![task_of(w)] = released(task_of(w), w)]
           /\ \A v \in Workers \ {w} : worker'[v] = worker[v]
           /\ faults'.lock = faults.lock
           /\ UNCHANGED <<ledgerVars, threadVars, queueVars, request>>
<1>1. CASE ReleaseLock(w) \/ ProbeRelease(w)
  <2>1. task_of(w) \in Tasks
    BY <1>1, TaskOf, Zenon DEF ReleaseLock, ProbeRelease
  <2>2. /\ lock' = [lock EXCEPT ![task_of(w)] = released(task_of(w), w)]
        /\ UNCHANGED <<ledgerVars, threadVars, queueVars, request, faults>>
        /\ finish(w) \/ (worker[w].pc = "probe_release" /\ step(w, "dlq_thread"))
    BY <1>1, Zenon DEF ReleaseLock, ProbeRelease
  <2>3. CASE finish(w)
    BY <2>1, <2>2, <2>3, Finished, Zenon
  <2>4. CASE worker[w].pc = "probe_release" /\ step(w, "dlq_thread")
    BY <2>1, <2>2, <2>4, Stepped
  <2> QED BY <2>2, <2>3, <2>4, Zenon
<1>2. CASE WorkerCrash(w)
  <2>1. worker' = [worker EXCEPT ![w] = IdleWorker] /\ IdleWorker.pc = "idle" /\ IdleWorker.replay = FALSE
    BY <1>2, Zenon DEF WorkerCrash, IdleWorker
  <2>2. worker[w].pc \in LockedSteps => task_of(w) \in Tasks
    BY Steps, TaskOf, Zenon
  <2>3. faults'.lock = faults.lock
    BY <1>2, Zenon DEF WorkerCrash, TypeInv
  <2> QED BY <1>2, <2>1, <2>2, <2>3, Moved, Zenon DEF WorkerCrash
<1> QED BY <1>1, <1>2, Zenon

\* A lock that expires under its holder is counted.
LEMMA ExpiryFrame ==
    ASSUME TypeInv, NEW t \in Tasks, LockExpires(t)
    PROVE  /\ lock' = [lock EXCEPT ![t] = None] /\ lock[t] # None
           /\ faults.lock \in Nat /\ faults'.lock = faults.lock + (IF holds_lock(lock[t], t) THEN 1 ELSE 0)
           /\ UNCHANGED <<ledgerVars, threadVars, queueVars, worker, request>>
<1>1. faults \in [crash : Nat, lock : Nat, api : Nat]
  BY Zenon DEF TypeInv
<1> QED BY <1>1 DEF LockExpires

\* Messages keep their place: what a busy worker works on does not change.
LEMMA TaskKept ==
    ASSUME TypeInv, [Next]_vars
    PROVE  /\ \A i \in 1 .. cursor : stream'[i] = stream[i]
           /\ \A v \in Workers : worker[v].pc # "idle" => stream'[worker[v].msg] = task_of(v)
<1>1. \A i \in 1 .. cursor : stream'[i] = stream[i]
  <2>1. CASE UNCHANGED vars
    BY <2>1, Zenon DEF vars, queueVars
  <2>2. CASE Next
    <3>1. ASSUME NEW r \in Requests, RequestStep(r) \/ ApiCrash(r) PROVE \A i \in 1 .. cursor : stream'[i] = stream[i]
      BY <3>1, RequestFrame, Zenon
    <3>2. ASSUME NEW w \in Workers, BusyAction(w) PROVE stream' = stream
      BY <3>2, Frame, Zenon
    <3>3. ASSUME NEW w \in Workers, TakeWork(w) \/ RecoverMessage(w) \/ DlqAck(w) PROVE stream' = stream
      BY <3>3, IdleFrame, Zenon
    <3>4. ASSUME NEW w \in Workers, AcquireLock(w) \/ Probe(w) PROVE stream' = stream
      BY <3>4, LockFrame, Zenon DEF queueVars
    <3>5. ASSUME NEW w \in Workers, ReleaseLock(w) \/ ProbeRelease(w) \/ WorkerCrash(w) PROVE stream' = stream
      BY <3>5, ReleaseFrame, Zenon DEF queueVars
    <3>6. ASSUME NEW t \in Tasks, LockExpires(t) PROVE stream' = stream
      BY <3>6, ExpiryFrame, Zenon DEF queueVars
    <3>7. ASSUME NEW t \in Tasks, PublishByOperator(t) \/ \E result \in {"APPROVED", "REJECTED"} : Decide(t, result)
          PROVE  stream' = stream
      BY <3>7, Zenon DEF PublishByOperator, Decide, queueVars
    <3> QED BY <2>2, <3>1, <3>2, <3>3, <3>4, <3>5, <3>6, <3>7, Cases, Zenon
  <2> QED BY <2>1, <2>2, Zenon
<1> QED BY <1>1, TaskOf, Zenon DEF task_of

\* While no lock has been lost, whoever is inside process_message for a task is
\* the one whose token the lock stores.
HolderHasLock ==
    faults.lock = 0 => \A w \in Workers, t \in Tasks : holds_lock(w, t) => lock[t] = w

\* Every step keeps holders and locks together.
LEMMA LockStep ==
    ASSUME TypeInv, HolderHasLock, [Next]_vars
    PROVE  HolderHasLock'
<1> USE DEF HolderHasLock
<1>0. \A v \in Workers : worker[v].pc \in LockedSteps => stream'[worker[v].msg] = task_of(v)
  BY TaskKept, Steps, Zenon
<1>a. ASSUME NEW v \in Workers, NEW t \in Tasks, worker'[v] = worker[v], holds_lock(v, t)'
      PROVE  holds_lock(v, t)
  BY <1>0, <1>a, Zenon DEF holds_lock, task_of
<1>1. CASE UNCHANGED vars
  BY <1>1, Zenon DEF vars, queueVars, holds_lock, task_of
<1>2. ASSUME NEW r \in Requests, RequestStep(r) \/ ApiCrash(r) PROVE HolderHasLock'
  BY <1>2, <1>a, RequestFrame, Zenon
<1>3. ASSUME NEW w \in Workers, BusyAction(w) PROVE HolderHasLock'
  <2>1. \A v \in Workers, t \in Tasks : holds_lock(v, t)' => holds_lock(v, t)
    BY <1>3, <1>a, Frame, Zenon DEF holds_lock
  <2> QED BY <1>3, <2>1, Frame
<1>4. ASSUME NEW w \in Workers, TakeWork(w) \/ RecoverMessage(w) \/ DlqAck(w) PROVE HolderHasLock'
  <2>1. worker'[w].pc \notin LockedSteps
    BY <1>4, IdleFrame, Zenon DEF LockedSteps, GraphSteps
  <2>2. \A v \in Workers, t \in Tasks : holds_lock(v, t)' => holds_lock(v, t)
    BY <1>4, <1>a, <2>1, IdleFrame, Zenon DEF holds_lock
  <2> QED BY <1>4, <2>2, IdleFrame, Zenon
<1>5. ASSUME NEW w \in Workers, AcquireLock(w) \/ Probe(w) PROVE HolderHasLock'
  <2> SUFFICES ASSUME faults'.lock = 0, NEW v \in Workers, NEW t \in Tasks, holds_lock(v, t)'
               PROVE  lock'[t] = v
    BY Zenon
  <2>0. faults.lock = 0 /\ lock \in [Tasks -> Workers \cup {None}]
    BY <1>5, LockFrame, Zenon DEF TypeInv
  <2>1. CASE v # w
    <3>1. lock[t] = v
      BY <1>5, <1>a, <2>0, <2>1, LockFrame, ZenonT(60)
    <3> QED BY <1>5, <2>0, <3>1, LockFrame, ZenonT(60)
  <2>2. CASE v = w
    <3>1. worker'[w].pc \in LockedSteps
      BY <2>2, Zenon DEF holds_lock
    <3>2. worker'[w].pc # "idle"
      BY <3>1, Steps, Zenon
    <3>3. worker'[w].msg = worker[w].msg /\ lock' = [lock EXCEPT ![task_of(w)] = w] /\ stream' = stream
      BY <1>5, <3>2, LockFrame, Zenon DEF queueVars
    <3>4. t = task_of(w)
      BY <2>2, <3>3, Zenon DEF holds_lock, task_of
    <3> QED BY <2>0, <2>2, <3>3, <3>4, Zenon
  <2> QED BY <2>1, <2>2, Zenon
<1>6. ASSUME NEW w \in Workers, ReleaseLock(w) \/ ProbeRelease(w) \/ WorkerCrash(w) PROVE HolderHasLock'
  <2> SUFFICES ASSUME faults'.lock = 0, NEW v \in Workers, NEW t \in Tasks, holds_lock(v, t)'
               PROVE  lock'[t] = v
    BY Zenon
  <2>0. faults.lock = 0 /\ lock \in [Tasks -> Workers \cup {None}]
    BY <1>6, ReleaseFrame, Zenon DEF TypeInv
  <2>1. v # w
    <3>1. worker'[w].pc \notin LockedSteps
      BY <1>6, ReleaseFrame, Zenon DEF LockedSteps, GraphSteps
    <3> QED BY <3>1, Zenon DEF holds_lock
  <2>2. lock[t] = v
    <3>1. worker'[v] = worker[v]
      BY <1>6, <2>1, ReleaseFrame, ZenonT(60)
    <3>2. holds_lock(v, t)
      BY <1>a, <3>1, Zenon
    <3> QED BY <2>0, <3>2, Zenon
  <2>3. \/ lock' = lock
        \/ task_of(w) \in Tasks /\ lock' = [lock EXCEPT ![task_of(w)] = released(task_of(w), w)]
    BY <1>6, ReleaseFrame, Zenon
  <2> QED BY <2>0, <2>1, <2>2, <2>3, Zenon DEF released
<1>7. ASSUME NEW t \in Tasks, LockExpires(t) PROVE HolderHasLock'
  <2> SUFFICES ASSUME faults'.lock = 0, NEW v \in Workers, NEW s \in Tasks, holds_lock(v, s)'
               PROVE  lock'[s] = v
    BY Zenon
  <2>0. faults.lock = 0 /\ lock \in [Tasks -> Workers \cup {None}] /\ ~holds_lock(lock[t], t)
    BY <1>7, ExpiryFrame DEF TypeInv
  <2>1. holds_lock(v, s) /\ lock[s] = v
    BY <1>7, <1>a, <2>0, ExpiryFrame, Zenon
  <2>2. s # t
    BY <2>0, <2>1, Zenon
  <2> QED BY <1>7, <2>0, <2>1, <2>2, ExpiryFrame
<1>8. ASSUME NEW t \in Tasks, PublishByOperator(t) \/ \E result \in {"APPROVED", "REJECTED"} : Decide(t, result)
      PROVE  HolderHasLock'
  BY <1>8, <1>a, Zenon DEF PublishByOperator, Decide
<1> QED BY <1>1, <1>2, <1>3, <1>4, <1>5, <1>6, <1>7, <1>8, Cases, Zenon

\* At first nobody holds a lock.
LEMMA LockInit == Init => HolderHasLock
BY DEF Init, HolderHasLock, holds_lock, IdleWorker, LockedSteps, GraphSteps

\* Two workers cannot both be entered as the holder of one task.
LEMMA LockAlone ==
    ASSUME HolderHasLock
    PROVE  OneExecutionPerTask
BY Zenon DEF HolderHasLock, OneExecutionPerTask

\* Two workers never execute the same task at once, unless a lock was lost under
\* its holder (RedisTaskExecutionLock.acquire, release).
THEOREM ExecutionIsExclusive == Spec => []OneExecutionPerTask
<1>1. TypeInv /\ HolderHasLock /\ [Next]_vars => HolderHasLock'
  BY LockStep, Zenon
<1>2. HolderHasLock => OneExecutionPerTask
  BY LockAlone, Zenon
<1> QED BY <1>1, <1>2, LockInit, TypeSafe, PTL DEF Spec

=============================================================================
