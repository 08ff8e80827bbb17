------------------------ MODULE PipelineVerdicts_proofs ------------------------
(***************************************************************************)
(* TLAPS proofs about the dispatch pipeline, fourth part: the verdict of a *)
(* task.  Whatever crashes and resumptions lie between the dispatch node   *)
(* and the task row, the verdict written is the one the first audit row    *)
(* records, so an approval is always audited.                              *)
(***************************************************************************)
EXTENDS PipelineLedger_proofs

USE PipelineAssumption

\* The store s of a task: checkpoints of the dispatch node start a branch, those
\* of the audit node end one; a plan has its dispatch row d, a conflict has none
\* unless the thread th was marked TERMINAL before anything became canonical.
Planned == {"approve", "reject", "review"}
Branches(s, d, th) ==
    \A k \in 1 .. Len(s) :
        /\ s[k].parent = 0 => s[k].pos \in AfterDispatch
        /\ s[k].parent # 0 => s[k].pos = "end" /\ s[k].parent < k /\ s[s[k].parent].parent = 0
        /\ s[k].pos \in Planned => d # "NONE"
        /\ s[k].pos = "conflicted" => d = "NONE" \/ (th.terminal /\ th.ckpt = 0)

\* A position that is not 0 is that of a checkpoint.
LEMMA Present ==
    ASSUME NEW n \in Nat, NEW k \in 0 .. n, k # 0
    PROVE  k \in 1 .. n /\ n \in 1 .. n
OBVIOUS



\* The plan behind checkpoint c: its own, or that of the checkpoint it follows.
plan(s, c) == IF s[c].parent = 0 THEN s[c].pos ELSE s[s[c].parent].pos

\* The oldest audit row is the verdict on the canonical plan.
FirstAudit(s, th, a) ==
    a # <<>> =>
        /\ th.ckpt # 0 /\ plan(s, th.ckpt) # "conflicted"
        /\ a[1].result = evaluate(plan(s, th.ckpt))

\* A status l of the task row is backed by the dispatch row and the audit rows.
Backed(l, d, a) ==
    /\ l = "REVIEW_REQUIRED" => d = "NONE" \/ a # <<>>
    /\ l = "APPROVED" => d # "NONE" /\ \E k \in 1 .. Len(a) : a[k].result = "APPROVED"

\* A worker that is still deciding its task, rather than replaying or finishing.
Deciding(x) ==
    \/ x.pc \in {"reconcile", "thread", "mark_task"} \cup GraphSteps
    \/ x.pc = "mark_thread" /\ ~x.replay

\* A worker x under the lock, step by step: nobody has ended its task, its run
\* continues from the canonical checkpoint, its own checkpoint is the last one
\* written, and its verdict is the evaluation of the canonical plan; when it has
\* a verdict to write, that is the oldest audit row's.
Running(x, l, d, a, th, s) ==
    /\ Deciding(x) => l \notin {"APPROVED", "REVIEW_REQUIRED"}
    /\ x.pc \in {"dispatch", "write_dispatch"} =>
          /\ x.canon = 0 /\ x.head = 0 /\ th.ckpt = 0
          /\ th.terminal \/ \A k \in 1 .. Len(s) : s[k].parent # 0
    /\ x.pc \in {"write_dispatch", "save_dispatch"} =>
          x.pos \in AfterDispatch /\ (x.pos = "conflicted" <=> d = "NONE")
    /\ x.pc = "save_dispatch" =>
          /\ x.canon = 0 /\ th.ckpt = 0
          /\ x.head = Len(s) /\ x.head # 0 /\ s[x.head] = [pos |-> x.pos, parent |-> 0]
    /\ x.pc \in {"audit_read", "audit_insert", "write_audit", "save_audit"} =>
          x.canon = th.ckpt /\ th.ckpt # 0 /\ s[th.ckpt] = [pos |-> x.pos, parent |-> 0]
    /\ x.pc \in {"audit_read", "audit_insert", "write_audit"} => x.head = th.ckpt
    /\ x.pc = "save_audit" =>
          x.head = Len(s) /\ x.head # 0 /\ s[x.head] = [pos |-> "end", parent |-> th.ckpt]
    /\ x.pc = "audit_insert" => x.verdict = evaluate(x.pos) /\ (x.seen => a # <<>>)
    /\ x.pc \in {"write_audit", "save_audit"} =>
          x.verdict = None \/ (x.verdict = evaluate(x.pos) /\ (x.pos # "conflicted" => a # <<>>))
    /\ x.pc = "mark_task" \/ (x.pc = "mark_thread" /\ ~x.replay) =>
          \/ a = <<>> /\ x.verdict = "REVIEW_REQUIRED" /\ d = "NONE"
          \/ a # <<>> /\ x.verdict = a[1].result

\* What holds of every task ...
TaskInv(t) ==
    /\ Branches(store[t], dispatch[t], thread[t])
    /\ FirstAudit(store[t], thread[t], audits[t])
    /\ Backed(ledger[t], dispatch[t], audits[t])

\* ... and of every worker that holds a lock ...
RunInv(w) ==
    LET t == task_of(w) IN Running(worker[w], ledger[t], dispatch[t], audits[t], thread[t], store[t])

\* ... while no lock was lost under its holder.
VerdictInv ==
    faults.lock = 0 =>
        /\ \A t \in Tasks : TaskInv(t)
        /\ \A w \in Workers : worker[w].pc \in LockedSteps => RunInv(w)

\* Rows of the three tables.
Ckpt == [pos : Position, parent : Nat]
Row == [result : AuditStatus, human : BOOLEAN]
ThreadRow == [ckpt : Nat, terminal : BOOLEAN]

\* The rows of one task have their types.
LEMMA RowsTyped ==
    ASSUME TypeInv, NEW t \in Tasks
    PROVE  /\ store[t] \in Seq(Ckpt) /\ Len(store[t]) \in Nat
           /\ thread[t] \in ThreadRow /\ thread[t].ckpt \in 0 .. Len(store[t])
           /\ audits[t] \in Seq(Row) /\ Len(audits[t]) \in Nat
           /\ \A k \in 1 .. Len(audits[t]) : audits[t][k] \in Row
<1>1. audits[t] \in Seq(Row)
  BY Zenon DEF TypeInv, RowsOK, Row
<1>2. Len(audits[t]) \in Nat /\ \A k \in 1 .. Len(audits[t]) : audits[t][k] \in Row
  BY <1>1, ElementTyped
<1> QED BY <1>1, <1>2, StoreTyped, Zenon DEF Ckpt, ThreadRow

\* A step that leaves the rows of task t alone.
SameRows(t) ==
    /\ ledger'[t] = ledger[t] /\ dispatch'[t] = dispatch[t] /\ audits'[t] = audits[t]
    /\ thread'[t] = thread[t] /\ store'[t] = store[t]

\* Steps at which nothing is asked of the worker.
LEMMA Unbound ==
    ASSUME NEW x, x.pc \in {"begin", "publish", "breakdown", "ack", "release", "probe_release"} \/ (x.pc = "mark_thread" /\ x.replay),
           NEW l, NEW d, NEW a, NEW th, NEW s
    PROVE  Running(x, l, d, a, th, s)
BY Zenon DEF Running, Deciding, GraphSteps

\* An audit row appended to rows a.
LEMMA AuditGrows ==
    ASSUME NEW a \in Seq(Row), NEW r \in Row
    PROVE  /\ Append(a, r) # <<>> /\ Append(a, r) \in Seq(Row) /\ Len(Append(a, r)) = Len(a) + 1
           /\ a # <<>> => Append(a, r)[1] = a[1]
           /\ a = <<>> => Append(a, r)[1] = r
           /\ Append(a, r)[Len(a) + 1] = r /\ Len(a) \in Nat
           /\ \A k \in 1 .. Len(a) : Append(a, r)[k] = a[k]
<1>1. /\ Append(a, r) \in Seq(Row) /\ Len(Append(a, r)) = Len(a) + 1 /\ Len(a) \in Nat
      /\ \A k \in 1 .. Len(a) : Append(a, r)[k] = a[k]
      /\ Append(a, r)[Len(a) + 1] = r
  BY AppendFacts
<1>2. a # <<>> => 1 \in 1 .. Len(a)
  OBVIOUS
<1>3. a = <<>> => Len(a) + 1 = 1
  OBVIOUS
<1>4. Append(a, r) # <<>>
  BY <1>1
<1> QED BY <1>1, <1>2, <1>3, <1>4, Zenon

\* A thread that becomes TERMINAL.
LEMMA Terminates ==
    ASSUME TypeInv, NEW t \in Tasks, terminate(t)
    PROVE  /\ thread'[t].ckpt = thread[t].ckpt /\ (thread[t].terminal => thread'[t].terminal)
           /\ \A u \in Tasks \ {t} : thread'[u] = thread[u]
<1>1. thread \in [Tasks -> ThreadRow]
  BY Zenon DEF TypeInv, ThreadsOK, ThreadRow
<1>2. PICK b \in {TRUE, thread[t].terminal} : thread' = [thread EXCEPT ![t].terminal = b]
  BY Zenon DEF terminate
<1> QED BY <1>1, <1>2, Zenon DEF ThreadRow

\* Marking the thread TERMINAL disturbs nothing.
LEMMA TerminalIsFine ==
    ASSUME NEW th, NEW ht, ht.ckpt = th.ckpt, th.terminal => ht.terminal, NEW s, NEW d, NEW a, NEW x, NEW l
    PROVE  /\ Branches(s, d, th) => Branches(s, d, ht)
           /\ FirstAudit(s, th, a) => FirstAudit(s, ht, a)
           /\ Running(x, l, d, a, th, s) => Running(x, l, d, a, ht, s)
<1>1. Branches(s, d, th) => Branches(s, d, ht)
  BY Zenon DEF Branches
<1>2. FirstAudit(s, th, a) => FirstAudit(s, ht, a)
  BY Zenon DEF FirstAudit
<1>3. Running(x, l, d, a, th, s) => Running(x, l, d, a, ht, s)
  BY Zenon DEF Running
<1> QED BY <1>1, <1>2, <1>3, Zenon

\* Every step of the holder of the lock keeps the facts about its task.
LEMMA OwnStep ==
    ASSUME TypeInv, ReplayInv, NEW w \in Workers, BusyAction(w), worker[w].pc \in LockedSteps,
           TaskInv(task_of(w)), RunInv(w)
    PROVE  TaskInv(task_of(w))' /\ RunInv(w)'
\* Written checkpoints and promoted ones keep the branches in shape.
<1>BranchGrows.
    ASSUME NEW s \in Seq(Ckpt), NEW d, NEW th, Branches(s, d, th), NEW c \in Ckpt,
           \/ /\ c.parent = 0 /\ c.pos \in AfterDispatch
              /\ c.pos = "conflicted" <=> d = "NONE"
           \/ /\ c.pos = "end" /\ c.parent \in 1 .. Len(s) /\ s[c.parent].parent = 0
    PROVE  Branches(Append(s, c), d, th)
  <2> USE <1>BranchGrows
  <2> DEFINE z == Append(s, c)
  <2>1. /\ Len(z) = Len(s) + 1 /\ z[Len(s) + 1] = c /\ Len(s) \in Nat
        /\ \A k \in 1 .. Len(s) : z[k] = s[k] /\ s[k] \in Ckpt
    BY AppendFacts, ElementTyped
  <2> HIDE DEF z
  <2>2. ASSUME NEW k \in 1 .. Len(s)
        PROVE  /\ z[k].parent = 0 => z[k].pos \in AfterDispatch
               /\ z[k].parent # 0 => z[k].pos = "end" /\ z[k].parent < k /\ z[z[k].parent].parent = 0
               /\ z[k].pos \in Planned => d # "NONE"
               /\ z[k].pos = "conflicted" => d = "NONE" \/ (th.terminal /\ th.ckpt = 0)
    <3>1. z[k] = s[k] /\ s[k].parent \in Nat
      BY <2>1, Zenon DEF Ckpt
    <3>2. s[k].parent # 0 => s[k].parent \in 1 .. Len(s)
      BY <2>1, <3>1 DEF Branches
    <3> QED BY <2>1, <3>1, <3>2 DEF Branches
  <2>3. /\ c.parent = 0 => c.pos \in AfterDispatch
        /\ c.parent # 0 => c.pos = "end" /\ c.parent < Len(s) + 1 /\ z[c.parent].parent = 0
        /\ c.pos \in Planned => d # "NONE"
        /\ c.pos = "conflicted" => d = "NONE" \/ (th.terminal /\ th.ckpt = 0)
    BY <2>1 DEF Planned, AfterDispatch
  <2>4. \A k \in 1 .. Len(z) : k \in 1 .. Len(s) \/ k = Len(s) + 1
    BY <2>1
  <2>5. Branches(z, d, th)
    BY <2>1, <2>2, <2>3, <2>4, Zenon DEF Branches
  <2> QED BY <2>5, Zenon DEF z

\* What the dispatch node left on the branch of a checkpoint.
<1>PlanIs.
    ASSUME NEW s \in Seq(Ckpt), NEW d, NEW th, Branches(s, d, th), NEW c \in 1 .. Len(s)
    PROVE  /\ plan(s, c) \in AfterDispatch
           /\ plan(s, c) # "conflicted" => d # "NONE"
           /\ plan(s, c) = "conflicted" => d = "NONE" \/ (th.terminal /\ th.ckpt = 0)
           /\ s[c].parent # 0 => s[c].parent \in 1 .. Len(s) /\ s[s[c].parent].parent = 0
  <2> USE <1>PlanIs
  <2>0. s[c] \in Ckpt /\ Len(s) \in Nat
    BY ElementTyped
  <2>1. s[c].parent \in Nat /\ Len(s) \in Nat
    BY <2>0, Zenon DEF Ckpt
  <2>2. s[c].parent # 0 => s[c].parent \in 1 .. Len(s) /\ s[s[c].parent].parent = 0
    BY <2>1 DEF Branches
  <2>3. CASE s[c].parent = 0
    BY <2>2, <2>3, Zenon DEF Branches, plan, Planned, AfterDispatch
  <2>4. CASE s[c].parent # 0
    <3> DEFINE k == s[c].parent
    <3>1. k \in 1 .. Len(s) /\ s[k].parent = 0 /\ plan(s, c) = s[k].pos
      BY <2>2, <2>4, Zenon DEF plan
    <3> HIDE DEF k
    <3>2. /\ s[k].pos \in AfterDispatch
          /\ s[k].pos # "conflicted" => d # "NONE"
          /\ s[k].pos = "conflicted" => d = "NONE" \/ (th.terminal /\ th.ckpt = 0)
      BY <3>1, Zenon DEF Branches, Planned, AfterDispatch
    <3> QED BY <2>2, <3>1, <3>2, Zenon
  <2> QED BY <2>3, <2>4, Zenon

\* Checkpoints written later do not change the plan behind an earlier one.
<1>PlanGrows.
    ASSUME NEW s \in Seq(Ckpt), NEW d, NEW th, Branches(s, d, th), NEW x \in Ckpt, NEW c \in 1 .. Len(s)
    PROVE  plan(Append(s, x), c) = plan(s, c)
  <2> USE <1>PlanGrows
  <2>1. \A k \in 1 .. Len(s) : Append(s, x)[k] = s[k]
    BY AppendFacts
  <2> QED BY <2>1, <1>PlanIs DEF plan

\* The checkpoint of the audit node carries the plan of the one it follows.
<1>PlanMoves.
    ASSUME NEW s \in Seq(Ckpt), NEW d, NEW th, Branches(s, d, th), NEW c \in 1 .. Len(s), NEW k \in 1 .. Len(s),
           s[k].parent = c
    PROVE  plan(s, k) = plan(s, c) /\ s[c].parent = 0 /\ s[k].pos = "end" /\ c < k
  <2> USE <1>PlanMoves
  <2>1. s[k].parent # 0
    OBVIOUS
  <2> QED BY <2>1, <1>PlanIs, Zenon DEF plan, Branches

\* A task whose rows are left alone keeps its facts.
<1>TaskKeeps.
    ASSUME NEW t, SameRows(t), TaskInv(t)
    PROVE  TaskInv(t)'
  BY <1>TaskKeeps, Zenon DEF SameRows, TaskInv

\* Beginning a message and reconciling its task.
<1>OwnBegin.
    ASSUME BeginMessage(w) \/ Reconcile(w)
    PROVE  TaskInv(task_of(w))' /\ RunInv(w)'
  <2> USE <1>OwnBegin
  <2>0. task_of(w)' = task_of(w) /\ SameRows(task_of(w))
    BY Frame, Zenon DEF BusyAction, SameRows, BeginMessage, Reconcile, ledgerVars, threadVars
  <2>1. TaskInv(task_of(w))'
    BY <2>0, <1>TaskKeeps, Zenon
  <2> DEFINE t == task_of(w)
             x == worker'[w]
  <2>2. CASE BeginMessage(w)
    <3>1. \/ x.pc = "mark_thread" /\ x.replay
          \/ x.pc = "reconcile" /\ ledger[t] \notin {"APPROVED", "REVIEW_REQUIRED"}
      BY <2>2, Begun, ZenonT(60) DEF TERMINAL_STATUSES
    <3>2. x.pc = "reconcile" => Running(x, ledger[t], dispatch[t], audits[t], thread[t], store[t])
      BY <3>1, Zenon DEF Running
    <3>3. Running(x, ledger[t], dispatch[t], audits[t], thread[t], store[t])
      BY <3>1, <3>2, Unbound, Zenon
    <3> QED BY <2>0, <2>1, <3>3, Zenon DEF RunInv, SameRows
  <2>3. CASE Reconcile(w)
    <3>1. ledger[t] \notin {"APPROVED", "REVIEW_REQUIRED"}
      BY <2>3, Reconciled, Zenon DEF RunInv, Running, Deciding
    <3>2. \/ x.pc = "mark_thread" /\ audits[t] # <<>> /\ x.verdict = audits[t][1].result
          \/ x.pc = "thread"
      BY <2>3, Reconciled, Zenon
    <3>3. Running(x, ledger[t], dispatch[t], audits[t], thread[t], store[t])
      BY <3>1, <3>2, Zenon DEF Running
    <3> QED BY <2>0, <2>1, <3>3, Zenon DEF RunInv, SameRows
  <2> QED BY <2>2, <2>3, Zenon

\* Starting the graph: what is resumed is the plan of the canonical checkpoint.
<1>OwnStart.
    ASSUME StartGraph(w)
    PROVE  TaskInv(task_of(w))' /\ RunInv(w)'
  <2> USE <1>OwnStart
  <2> DEFINE t == task_of(w)
             x == worker'[w]
             s == store[t]
             d == dispatch[t]
             th == thread[t]
             a == audits[t]
  <2>0. /\ task_of(w)' = t /\ t \in Tasks /\ s \in Seq(Ckpt) /\ th \in ThreadRow /\ th.ckpt \in 0 .. Len(s)
        /\ thread \in [Tasks -> ThreadRow] /\ Len(s) \in Nat
    BY Frame, TaskOf, RowsTyped, Zenon DEF BusyAction, TypeInv, ThreadsOK, ThreadRow
  <2>1. worker[w].pc = "thread" /\ UNCHANGED <<ledgerVars, store>>
    BY Started, Zenon
  <2>2. /\ ledger'[t] = ledger[t] /\ dispatch'[t] = d /\ audits'[t] = a /\ store'[t] = s
    BY <2>1, Zenon DEF ledgerVars
  <2>3. ledger[t] \notin {"APPROVED", "REVIEW_REQUIRED"}
    BY <2>1, Zenon DEF RunInv, Running, Deciding
  <2>4. CASE thread' = thread /\ x.pc = "release"
    BY <2>0, <2>2, <2>4, <1>TaskKeeps, Unbound, ZenonT(60) DEF SameRows, RunInv
  <2>5. CASE ~(thread' = thread /\ x.pc = "release")
    <3>1. PICK c \in 0 .. Len(s) :
            /\ \/ c = th.ckpt /\ orphans(t) = {}
               \/ orphans(t) = {c} /\ ~th.terminal /\ c \in children(t, th.ckpt)
            /\ thread' = [thread EXCEPT ![t].ckpt = c]
            /\ \/ x.pc = "release"
               \/ /\ runnable(t, c) /\ x.pc = (IF c = 0 THEN "dispatch" ELSE "audit_read")
                  /\ x.pos = pos_of(t, c) /\ x.head = c /\ x.canon = c
      BY <2>5, Started, Zenon
    <3> DEFINE ht == thread'[t]
    <3>2. ht.ckpt = c /\ ht.terminal = th.terminal
      BY <2>0, <3>1, Zenon DEF ThreadRow
    <3>3. c # th.ckpt => c \in 1 .. Len(s) /\ s[c].parent = th.ckpt /\ ~th.terminal
      BY <3>1, Zenon DEF children
    <3>4. Branches(s, d, th) /\ FirstAudit(s, th, a) /\ Backed(ledger[t], d, a)
      BY Zenon DEF TaskInv
    <3> HIDE DEF s, d, th, a, x, t, ht
    <3>5. Branches(s, d, ht)
      BY <3>2, <3>3, <3>4, ZenonT(60) DEF Branches
    <3>6. FirstAudit(s, ht, a)
      <4>1. CASE c = th.ckpt
        BY <3>2, <3>4, <4>1, Zenon DEF FirstAudit
      <4>2. CASE c # th.ckpt /\ th.ckpt = 0
        BY <3>4, <4>2, Zenon DEF FirstAudit
      <4>3. CASE c # th.ckpt /\ th.ckpt # 0
        <5>1. plan(s, c) = plan(s, th.ckpt)
          BY <2>0, <3>3, <3>4, <4>3, <1>PlanMoves
        <5> QED BY <3>2, <3>3, <3>4, <4>3, <5>1 DEF FirstAudit
      <4> QED BY <4>1, <4>2, <4>3, Zenon
    <3>7. Running(x, ledger[t], d, a, ht, s)
      <4>1. CASE x.pc = "release"
        BY <4>1, Unbound, Zenon
      <4>2. CASE x.pc = "dispatch" /\ c = 0
        <5>1. x.head = 0 /\ x.canon = 0
          BY <3>1, <4>2, Zenon
        <5>2. th.terminal \/ \A k \in 1 .. Len(s) : s[k].parent # 0
          BY <3>1, <3>3, <4>2 DEF orphans, children, s, th, t
        <5> QED BY <2>3, <3>2, <4>2, <5>1, <5>2, Zenon DEF Running
      <4>3. CASE x.pc = "audit_read" /\ c # 0
        <5>1. /\ c \in 1 .. Len(s) /\ x.head = c /\ x.canon = c
              /\ s[c].pos # "end" /\ x.pos = s[c].pos
          BY <2>0, <3>1, <4>3 DEF runnable, pos_of, s
        <5>2. s[c] \in Ckpt
          BY <2>0, <5>1, ElementTyped, Zenon
        <5>3. s[c].parent = 0
          BY <3>4, <5>1, Zenon DEF Branches
        <5>4. s[c] = [pos |-> x.pos, parent |-> 0]
          BY <5>1, <5>2, <5>3, Zenon DEF Ckpt
        <5> QED BY <2>3, <3>2, <4>3, <5>1, <5>4, Zenon DEF Running
      <4> QED BY <3>1, <4>1, <4>2, <4>3, Zenon
    <3> QED BY <2>0, <2>2, <3>4, <3>5, <3>6, <3>7, Zenon DEF TaskInv, RunInv, s, d, th, a, x, t, ht
  <2> QED BY <2>4, <2>5, Zenon

\* The dispatch node: a plan that is not a conflict has its row.
<1>OwnDispatch.
    ASSUME DispatchNode(w)
    PROVE  TaskInv(task_of(w))' /\ RunInv(w)'
  <2> USE <1>OwnDispatch
  <2> DEFINE t == task_of(w)
             x == worker'[w]
             s == store[t]
             d == dispatch[t]
             th == thread[t]
             a == audits[t]
             e == dispatch'[t]
  <2>0. /\ task_of(w)' = t /\ t \in Tasks /\ dispatch \in [Tasks -> {"NONE", "EXECUTED"} \cup AuditStatus]
    BY Frame, TaskOf, Zenon DEF BusyAction, TypeInv, RowsOK
  <2>1. worker[w].pc = "dispatch" /\ UNCHANGED <<ledger, audits, threadVars>>
    BY Dispatched, Zenon
  <2>2. ledger'[t] = ledger[t] /\ audits'[t] = a /\ thread'[t] = th /\ store'[t] = s
    BY <2>1, Zenon DEF threadVars
  <2>3. /\ ledger[t] \notin {"APPROVED", "REVIEW_REQUIRED"}
        /\ worker[w].canon = 0 /\ worker[w].head = 0 /\ th.ckpt = 0
        /\ th.terminal \/ \A k \in 1 .. Len(s) : s[k].parent # 0
    BY <2>1, Zenon DEF RunInv, Running, Deciding, GraphSteps
  <2>4. /\ x.pc = "write_dispatch" /\ x.pos \in AfterDispatch
        /\ x.head = 0 /\ x.canon = 0
        /\ \/ d = "NONE" /\ e = row_of(x.pos)
           \/ d # "NONE" /\ e = d /\ x.pos \in read_back(d)
    BY <2>0, <2>3, Dispatched, Zenon
  <2>5. (x.pos = "conflicted" <=> e = "NONE") /\ (d # "NONE" => e # "NONE")
    BY <2>4, Zenon DEF row_of, read_back, AfterDispatch
  <2>6. Branches(s, d, th) /\ FirstAudit(s, th, a)
    BY Zenon DEF TaskInv
  <2> HIDE DEF s, d, th, a, x, t, e
  <2>7. Branches(s, e, th)
    BY <2>3, <2>5, <2>6, Zenon DEF Branches
  <2>8. Backed(ledger[t], e, a)
    BY <2>3, Zenon DEF Backed
  <2>9. Running(x, ledger[t], e, a, th, s)
    BY <2>3, <2>4, <2>5, Zenon DEF Running
  <2> QED BY <2>0, <2>2, <2>6, <2>7, <2>8, <2>9, Zenon DEF TaskInv, RunInv, s, d, th, a, x, t, e

\* Writing a checkpoint after the head of this run.
<1>OwnWrite.
    ASSUME WriteCheckpoint(w)
    PROVE  TaskInv(task_of(w))' /\ RunInv(w)'
  <2> USE <1>OwnWrite
  <2> DEFINE t == task_of(w)
             x == worker'[w]
             y == worker[w]
             s == store[t]
             d == dispatch[t]
             th == thread[t]
             a == audits[t]
             c == [pos |-> IF y.pc = "write_dispatch" THEN y.pos ELSE "end", parent |-> y.head]
             z == store'[t]
  <2>0. /\ task_of(w)' = t /\ t \in Tasks /\ s \in Seq(Ckpt) /\ Len(s) \in Nat /\ th.ckpt \in 0 .. Len(s)
        /\ y \in WorkerState /\ store \in [Tasks -> Seq([pos : Position, parent : Nat])]
    BY Frame, TaskOf, RowsTyped, WorkerTyped, ZenonT(60) DEF BusyAction, TypeInv, ThreadsOK
  <2>1. y.pc \in {"write_dispatch", "write_audit"} /\ UNCHANGED <<ledgerVars, thread>>
    BY Written, Zenon
  <2>2. ledger'[t] = ledger[t] /\ dispatch'[t] = d /\ audits'[t] = a /\ thread'[t] = th
    BY <2>1, Zenon DEF ledgerVars
  <2>3. z = Append(s, c)
    BY <2>0, Written
  <2>4. c \in Ckpt
    BY <2>0, Zenon DEF Ckpt, WorkerState, Position
  <2>5. /\ x.pc = (IF y.pc = "write_dispatch" THEN "save_dispatch" ELSE "save_audit")
        /\ x.head = Len(s) + 1 /\ x.pos = y.pos /\ x.canon = y.canon /\ x.verdict = y.verdict
    BY Written, Zenon
  <2>6. Branches(s, d, th) /\ FirstAudit(s, th, a) /\ Backed(ledger[t], d, a)
    BY Zenon DEF TaskInv
  <2>7. Running(y, ledger[t], d, a, th, s)
    BY Zenon DEF RunInv
  <2>8. c.parent = y.head /\ c.pos = (IF y.pc = "write_dispatch" THEN y.pos ELSE "end")
    BY Zenon
  <2>9. c = [pos |-> c.pos, parent |-> y.head]
    BY Zenon
  <2> HIDE DEF s, d, th, a, x, t, y, c, z
  <2>10. /\ Len(z) = Len(s) + 1 /\ z[Len(s) + 1] = c
         /\ \A k \in 1 .. Len(s) : z[k] = s[k]
    BY <2>0, <2>3, <2>4, AppendFacts
  <2>11. ledger[t] \notin {"APPROVED", "REVIEW_REQUIRED"}
    BY <2>1, <2>7, Zenon DEF Running, Deciding, GraphSteps
  <2>12. CASE y.pc = "write_dispatch"
    <3>1. /\ y.head = 0 /\ y.canon = 0 /\ th.ckpt = 0 /\ y.pos \in AfterDispatch
          /\ y.pos = "conflicted" <=> d = "NONE"
      BY <2>7, <2>12, Zenon DEF Running
    <3>2. c.parent = 0 /\ c.pos = y.pos
      BY <2>8, <2>12, <3>1, Zenon
    <3>3. Branches(z, d, th)
      BY <2>0, <2>3, <2>4, <2>6, <3>1, <3>2, <1>BranchGrows, Zenon
    <3>4. FirstAudit(z, th, a)
      BY <2>6, <3>1, Zenon DEF FirstAudit
    <3>5. z[x.head] = [pos |-> x.pos, parent |-> 0]
      BY <2>5, <2>9, <2>10, <3>1, <3>2, Zenon
    <3>6. Running(x, ledger[t], d, a, th, z)
      BY <2>0, <2>5, <2>10, <2>11, <2>12, <3>1, <3>5 DEF Running
    <3> QED BY <2>0, <2>2, <2>6, <3>3, <3>4, <3>6, Zenon DEF TaskInv, RunInv, s, d, th, a, x, t, z
  <2>13. CASE y.pc = "write_audit"
    <3>1. /\ y.head = th.ckpt /\ y.canon = th.ckpt /\ th.ckpt # 0 /\ s[th.ckpt] = [pos |-> y.pos, parent |-> 0]
          /\ y.verdict = None \/ (y.verdict = evaluate(y.pos) /\ (y.pos # "conflicted" => a # <<>>))
      BY <2>7, <2>13, Zenon DEF Running
    <3>2. c.parent \in 1 .. Len(s) /\ c.pos = "end" /\ s[c.parent].parent = 0
      <4>1. th.ckpt \in 1 .. Len(s)
        BY <2>0, <3>1, Present, Zenon
      <4>2. s[th.ckpt].parent = 0
        BY <3>1
      <4>3. c.parent = th.ckpt /\ c.pos = "end"
        BY <2>8, <2>13, <3>1, Zenon
      <4> QED BY <4>1, <4>2, <4>3, Zenon
    <3>3. Branches(z, d, th)
      BY <2>0, <2>3, <2>4, <2>6, <3>2, <1>BranchGrows, Zenon
    <3>4. plan(z, th.ckpt) = plan(s, th.ckpt)
      BY <2>0, <2>3, <2>4, <2>6, <3>1, <1>PlanGrows
    <3>5. FirstAudit(z, th, a)
      BY <2>6, <3>4, Zenon DEF FirstAudit
    <3>6. z[x.head] = [pos |-> "end", parent |-> th.ckpt] /\ z[th.ckpt] = [pos |-> x.pos, parent |-> 0]
      BY <2>0, <2>5, <2>9, <2>10, <3>1, <3>2
    <3>7. Running(x, ledger[t], d, a, th, z)
      <4>1. /\ x.pc = "save_audit" /\ x.canon = th.ckpt /\ th.ckpt # 0 /\ x.head = Len(z) /\ x.head # 0
            /\ x.verdict = None \/ (x.verdict = evaluate(x.pos) /\ (x.pos # "conflicted" => a # <<>>))
        BY <2>0, <2>5, <2>10, <2>13, <3>1
      <4> QED BY <2>11, <3>6, <4>1, ZenonT(60) DEF Running
    <3> QED BY <2>0, <2>2, <2>6, <3>3, <3>5, <3>7, Zenon DEF TaskInv, RunInv, s, d, th, a, x, t, z
  <2> QED BY <2>1, <2>12, <2>13, Zenon

\* The checkpoint written last is the newest that follows its parent.
<1>LastIsNewest.
    ASSUME NEW t \in Tasks, NEW c, Len(store[t]) # 0, store[t][Len(store[t])].parent = c
    PROVE  newest(children(t, c)) = {Len(store[t])}
  <2> USE <1>LastIsNewest
  <2>1. Len(store[t]) \in Nat
    BY RowsTyped, Zenon
  <2>2. children(t, c) \subseteq 1 .. Len(store[t]) /\ Len(store[t]) \in children(t, c)
    BY <2>1 DEF children
  <2> QED BY <2>1, <2>2 DEF newest

\* Promoting the boundary of the dispatch node.
<1>OwnSaveDispatch.
    ASSUME SaveDispatch(w)
    PROVE  TaskInv(task_of(w))' /\ RunInv(w)'
  <2> USE <1>OwnSaveDispatch
  <2> DEFINE t == task_of(w)
             x == worker'[w]
             y == worker[w]
             s == store[t]
             d == dispatch[t]
             th == thread[t]
             a == audits[t]
             ht == thread'[t]
  <2>0. /\ task_of(w)' = t /\ t \in Tasks /\ s \in Seq(Ckpt) /\ Len(s) \in Nat /\ th \in ThreadRow
        /\ thread \in [Tasks -> ThreadRow]
    BY Frame, TaskOf, RowsTyped, Zenon DEF BusyAction, TypeInv, ThreadsOK, ThreadRow
  <2>1. y.pc = "save_dispatch" /\ save(w, "audit_read") /\ UNCHANGED <<ledgerVars, store>>
    BY Zenon DEF SaveDispatch
  <2>2. ledger'[t] = ledger[t] /\ dispatch'[t] = d /\ audits'[t] = a /\ store'[t] = s
    BY <2>1, Zenon DEF ledgerVars
  <2>3. Running(y, ledger[t], d, a, th, s) /\ Branches(s, d, th) /\ FirstAudit(s, th, a) /\ Backed(ledger[t], d, a)
    BY Zenon DEF RunInv, TaskInv
  <2>4. /\ ledger[t] \notin {"APPROVED", "REVIEW_REQUIRED"}
        /\ y.canon = 0 /\ th.ckpt = 0 /\ y.head = Len(s) /\ Len(s) # 0
        /\ s[Len(s)] = [pos |-> y.pos, parent |-> 0]
    BY <2>1, <2>3, ZenonT(60) DEF Running, Deciding, GraphSteps
  <2>5. newest(children(t, y.canon)) = {Len(s)}
    <3>1. s[Len(s)].parent = y.canon
      BY <2>4
    <3> HIDE DEF y
    <3> QED BY <2>0, <2>4, <3>1, <1>LastIsNewest, Zenon
  <2>6. /\ x.pos = y.pos /\ x.head = y.head
        /\ \/ x.pc = "release" /\ thread' = thread
           \/ /\ can_promote(t, 0, Len(s)) /\ thread' = [thread EXCEPT ![t].ckpt = Len(s)]
              /\ x.pc = "audit_read" /\ x.canon = Len(s)
    BY <2>1, <2>4, <2>5, Saved
  <2>7. CASE x.pc = "release" /\ thread' = thread
    BY <2>0, <2>2, <2>7, <1>TaskKeeps, Unbound, Zenon DEF SameRows, RunInv
  <2>8. CASE ~(x.pc = "release" /\ thread' = thread)
    <3>1. ~th.terminal /\ ht.ckpt = Len(s) /\ ht.terminal = th.terminal /\ x.pc = "audit_read" /\ x.canon = Len(s)
      BY <2>0, <2>4, <2>6, <2>8, ZenonT(60) DEF can_promote, ThreadRow
    <3> HIDE DEF s, d, th, a, x, t, y, ht
    <3>2. Branches(s, d, ht)
      BY <2>3, <2>4, <3>1, Zenon DEF Branches
    <3>3. FirstAudit(s, ht, a)
      BY <2>3, <2>4, Zenon DEF FirstAudit
    <3>4. Running(x, ledger[t], d, a, ht, s)
      BY <2>0, <2>4, <2>6, <3>1, Zenon DEF Running
    <3> QED BY <2>0, <2>2, <2>3, <3>2, <3>3, <3>4, Zenon DEF TaskInv, RunInv, s, d, th, a, x, t, ht
  <2> QED BY <2>7, <2>8, Zenon

\* Promoting the boundary of the audit node: the verdict of the run is the
\* recorded one.
<1>OwnSaveAudit.
    ASSUME SaveAudit(w)
    PROVE  TaskInv(task_of(w))' /\ RunInv(w)'
  <2> USE <1>OwnSaveAudit
  <2> DEFINE t == task_of(w)
             x == worker'[w]
             y == worker[w]
             s == store[t]
             d == dispatch[t]
             th == thread[t]
             a == audits[t]
             ht == thread'[t]
  <2>0. /\ task_of(w)' = t /\ t \in Tasks /\ s \in Seq(Ckpt) /\ Len(s) \in Nat /\ th \in ThreadRow
        /\ thread \in [Tasks -> ThreadRow] /\ th.ckpt \in 0 .. Len(s)
    BY Frame, TaskOf, RowsTyped, Zenon DEF BusyAction, TypeInv, ThreadsOK, ThreadRow
  <2>1. y.pc = "save_audit" /\ save(w, after_graph(y.verdict)) /\ UNCHANGED <<ledgerVars, store>>
    BY Zenon DEF SaveAudit
  <2>2. ledger'[t] = ledger[t] /\ dispatch'[t] = d /\ audits'[t] = a /\ store'[t] = s
    BY <2>1, Zenon DEF ledgerVars
  <2>3. Running(y, ledger[t], d, a, th, s) /\ Branches(s, d, th) /\ FirstAudit(s, th, a) /\ Backed(ledger[t], d, a)
    BY Zenon DEF RunInv, TaskInv
  <2>4. /\ ledger[t] \notin {"APPROVED", "REVIEW_REQUIRED"}
        /\ y.canon = th.ckpt /\ th.ckpt # 0 /\ s[th.ckpt] = [pos |-> y.pos, parent |-> 0]
        /\ y.head = Len(s) /\ Len(s) # 0 /\ s[Len(s)] = [pos |-> "end", parent |-> th.ckpt]
        /\ y.verdict = None \/ (y.verdict = evaluate(y.pos) /\ (y.pos # "conflicted" => a # <<>>))
    BY <2>1, <2>3, ZenonT(60) DEF Running, Deciding, GraphSteps
  <2>5. newest(children(t, y.canon)) = {Len(s)}
    <3>1. s[Len(s)].parent = y.canon
      BY <2>4
    <3> HIDE DEF y
    <3> QED BY <2>0, <2>4, <3>1, <1>LastIsNewest, Zenon
  <2>6. /\ x.verdict = y.verdict
        /\ \/ x.pc = "release" /\ thread' = thread
           \/ /\ can_promote(t, th.ckpt, Len(s)) /\ thread' = [thread EXCEPT ![t].ckpt = Len(s)]
              /\ x.pc = after_graph(y.verdict)
    BY <2>1, <2>4, <2>5, Saved, ZenonT(60)
  <2>7. CASE x.pc = "release" /\ thread' = thread
    BY <2>0, <2>2, <2>7, <1>TaskKeeps, Unbound, Zenon DEF SameRows, RunInv
  <2>8. CASE ~(x.pc = "release" /\ thread' = thread)
    <3>1. ht.ckpt = Len(s) /\ ht.terminal = th.terminal /\ x.pc = after_graph(y.verdict)
      BY <2>0, <2>6, <2>8 DEF ThreadRow
    <3> HIDE DEF s, d, th, a, x, t, y, ht
    <3>2. th.ckpt \in 1 .. Len(s) /\ Len(s) \in 1 .. Len(s)
      <4>1. Len(s) \in Nat /\ Len(s) # 0 /\ th.ckpt \in 0 .. Len(s) /\ th.ckpt # 0
        BY <2>0, <2>4, Zenon
      <4> QED BY <4>1, Present, Zenon
    <3>3. plan(s, Len(s)) = plan(s, th.ckpt) /\ plan(s, th.ckpt) = y.pos
      <4>0. s[th.ckpt].pos = y.pos /\ s[th.ckpt].parent = 0 /\ s[Len(s)].parent = th.ckpt
        BY <2>4
      <4>1. plan(s, th.ckpt) = y.pos
        BY <4>0, Zenon DEF plan
      <4>2. plan(s, Len(s)) = plan(s, th.ckpt)
        BY <2>0, <2>3, <3>2, <4>0, <1>PlanMoves
      <4> QED BY <4>1, <4>2, Zenon
    <3>4. Branches(s, d, ht)
      BY <2>3, <2>4, <3>1, ZenonT(60) DEF Branches
    <3>5. FirstAudit(s, ht, a)
      BY <2>3, <2>4, <3>1, <3>3, Zenon DEF FirstAudit
    <3>6. Running(x, ledger[t], d, a, ht, s)
      <4>1. CASE x.pc = "release"
        BY <4>1, Unbound, Zenon
      <4>2. CASE x.pc # "release"
        <5>1. x.pc = "mark_thread" /\ y.verdict \in {"APPROVED", "REVIEW_REQUIRED"}
          BY <3>1, <4>2, Zenon DEF after_graph
        <5>2. y.verdict = evaluate(y.pos) /\ (y.pos # "conflicted" => a # <<>>)
          BY <2>4, <5>1, Zenon DEF TERMINAL_STATUSES
        <5>3. a = <<>> => y.verdict = "REVIEW_REQUIRED" /\ d = "NONE"
          BY <2>0, <2>3, <2>4, <3>2, <3>3, <5>2, <1>PlanIs DEF evaluate
        <5>4. a # <<>> => y.verdict = a[1].result
          BY <2>3, <3>3, <5>2, Zenon DEF FirstAudit
        <5> QED BY <2>4, <2>6, <5>1, <5>3, <5>4, Zenon DEF Running
      <4> QED BY <4>1, <4>2, Zenon
    <3> QED BY <2>0, <2>2, <2>3, <3>4, <3>5, <3>6, Zenon DEF TaskInv, RunInv, s, d, th, a, x, t, ht
  <2> QED BY <2>7, <2>8, Zenon

\* The audit node evaluates the plan of the canonical checkpoint.
<1>OwnAuditRead.
    ASSUME AuditRead(w)
    PROVE  TaskInv(task_of(w))' /\ RunInv(w)'
  <2> USE <1>OwnAuditRead
  <2> DEFINE t == task_of(w)
             x == worker'[w]
             y == worker[w]
  <2>0. task_of(w)' = t /\ SameRows(t)
    BY Frame, ZenonT(60) DEF BusyAction, SameRows, AuditRead, ledgerVars, threadVars
  <2>1. /\ y.pc = "audit_read" /\ x.pc = "audit_insert" /\ x.pos = y.pos /\ x.head = y.head /\ x.canon = y.canon
        /\ x.verdict = evaluate(y.pos) /\ (x.seen => audits[t] # <<>>)
    BY Audited, Zenon
  <2>2. Running(y, ledger[t], dispatch[t], audits[t], thread[t], store[t])
    BY Zenon DEF RunInv
  <2>3. Running(x, ledger[t], dispatch[t], audits[t], thread[t], store[t])
    BY <2>1, <2>2, ZenonT(60) DEF Running, Deciding, GraphSteps
  <2> QED BY <2>0, <2>3, <1>TaskKeeps, Zenon DEF RunInv, SameRows

\* A further audit row takes no backing away.
<1>BackedGrows.
    ASSUME NEW a \in Seq(Row), NEW r \in Row, NEW l, NEW d, Backed(l, d, a)
    PROVE  Backed(l, d, Append(a, r))
  <2> USE <1>BackedGrows
  <2> DEFINE b == Append(a, r)
  <2>1. b # <<>> /\ Len(b) = Len(a) + 1 /\ Len(a) \in Nat /\ \A k \in 1 .. Len(a) : b[k] = a[k]
    BY AuditGrows
  <2> HIDE DEF b
  <2>2. Backed(l, d, b)
    BY <2>1 DEF Backed
  <2> QED BY <2>2, Zenon DEF b

\* The audit node inserts the first row with the verdict of the canonical plan.
<1>OwnAuditInsert.
    ASSUME AuditInsert(w)
    PROVE  TaskInv(task_of(w))' /\ RunInv(w)'
  <2> USE <1>OwnAuditInsert
  <2> DEFINE t == task_of(w)
             x == worker'[w]
             y == worker[w]
             s == store[t]
             d == dispatch[t]
             th == thread[t]
             a == audits[t]
             b == audits'[t]
             r == [result |-> y.verdict, human |-> FALSE]
  <2>0. /\ task_of(w)' = t /\ t \in Tasks /\ a \in Seq(Row) /\ th.ckpt \in 0 .. Len(s)
        /\ audits \in [Tasks -> Seq([result : AuditStatus, human : BOOLEAN])]
    BY Frame, TaskOf, RowsTyped, ZenonT(60) DEF BusyAction, TypeInv, RowsOK
  <2>1. y.pc = "audit_insert" /\ UNCHANGED <<ledger, dispatch, threadVars>>
    BY Inserted, ZenonT(60)
  <2>2. ledger'[t] = ledger[t] /\ dispatch'[t] = d /\ thread'[t] = th /\ store'[t] = s
    BY <2>1, Zenon DEF threadVars
  <2>3. r \in Row
    BY <2>1, WorkerTyped, Zenon DEF WorkerOK, Row
  <2>4. /\ x.pc = "write_audit" /\ x.pos = y.pos /\ x.head = y.head /\ x.canon = y.canon
        /\ \/ x.verdict = y.verdict /\ y.pos # "conflicted" /\ ~y.seen /\ b = Append(a, r)
           \/ x.verdict = y.verdict /\ (y.pos # "conflicted" => y.seen) /\ b = a
           \/ x.verdict = None /\ b = a
    BY <2>0, Inserted, ZenonT(60) DEF needs_row
  <2>5. Running(y, ledger[t], d, a, th, s) /\ Branches(s, d, th) /\ FirstAudit(s, th, a) /\ Backed(ledger[t], d, a)
    BY Zenon DEF RunInv, TaskInv
  <2>6. r.result = y.verdict
    BY Zenon
  <2> HIDE DEF s, d, th, a, x, t, y, b, r
  <2>7. /\ ledger[t] \notin {"APPROVED", "REVIEW_REQUIRED"}
        /\ y.canon = th.ckpt /\ y.head = th.ckpt /\ th.ckpt # 0 /\ s[th.ckpt] = [pos |-> y.pos, parent |-> 0]
        /\ y.verdict = evaluate(y.pos) /\ (y.seen => a # <<>>)
    BY <2>1, <2>5, Zenon DEF Running, Deciding, GraphSteps
  <2>8. plan(s, th.ckpt) = y.pos
    BY <2>7 DEF plan
  <2>9. FirstAudit(s, th, b) /\ Backed(ledger[t], d, b)
    <3>1. CASE b = a
      BY <2>5, <3>1, Zenon
    <3>2. CASE b = Append(a, r) /\ y.pos # "conflicted"
      <4>1. Backed(ledger[t], d, b)
        BY <2>0, <2>3, <2>5, <3>2, <1>BackedGrows, Zenon
      <4>2. FirstAudit(s, th, b)
        <5>1. a # <<>> => b[1] = a[1]
          BY <2>0, <2>3, <3>2, AuditGrows, Zenon
        <5>2. a = <<>> => b[1].result = y.verdict
          BY <2>0, <2>3, <2>6, <3>2, AuditGrows, ZenonT(60)
        <5> QED BY <2>5, <2>7, <2>8, <3>2, <5>1, <5>2, Zenon DEF FirstAudit
      <4> QED BY <4>1, <4>2, Zenon
    <3> QED BY <2>4, <3>1, <3>2, Zenon
  <2>10. x.verdict = None \/ (x.verdict = evaluate(x.pos) /\ (x.pos # "conflicted" => b # <<>>))
    BY <2>0, <2>3, <2>4, <2>7, AuditGrows
  <2>11. Running(x, ledger[t], d, b, th, s)
    BY <2>4, <2>7, <2>10, Zenon DEF Running
  <2> QED BY <2>0, <2>2, <2>5, <2>9, <2>11, Zenon DEF TaskInv, RunInv, s, d, th, a, x, t, b

\* Marking the thread.
<1>OwnMarkThread.
    ASSUME MarkThread(w)
    PROVE  TaskInv(task_of(w))' /\ RunInv(w)'
  <2> USE <1>OwnMarkThread
  <2> DEFINE t == task_of(w)
             x == worker'[w]
             y == worker[w]
             th == thread[t]
             ht == thread'[t]
             d == dispatch[t]
             a == audits[t]
             s == store[t]
  <2>0. task_of(w)' = t /\ t \in Tasks
    BY Frame, TaskOf, ZenonT(60) DEF BusyAction
  <2>1. /\ y.pc = "mark_thread" /\ terminate(t) /\ UNCHANGED <<ledgerVars, store>>
        /\ step(w, IF y.replay THEN after_task(y.verdict) ELSE "mark_task")
    BY Zenon DEF MarkThread
  <2>2. ledger'[t] = ledger[t] /\ dispatch'[t] = d /\ audits'[t] = a /\ store'[t] = s
    BY <2>1, Zenon DEF ledgerVars
  <2>3. x.pc = (IF y.replay THEN after_task(y.verdict) ELSE "mark_task") /\ x.verdict = y.verdict
    BY <2>1, Stepped, ZenonT(60)
  <2>4. ht.ckpt = th.ckpt /\ (th.terminal => ht.terminal)
    BY <2>0, <2>1, Terminates, Zenon
  <2>5. Running(y, ledger[t], d, a, th, s) /\ Branches(s, d, th) /\ FirstAudit(s, th, a) /\ Backed(ledger[t], d, a)
    BY Zenon DEF RunInv, TaskInv
  <2> HIDE DEF s, d, th, a, x, t, y, ht
  <2>6. Branches(s, d, ht) /\ FirstAudit(s, ht, a)
    BY <2>4, <2>5, TerminalIsFine, Zenon
  <2>7. Running(x, ledger[t], d, a, ht, s)
    <3>1. CASE y.replay
      BY <2>3, <3>1, Unbound, Zenon DEF after_task
    <3>2. CASE ~y.replay
      BY <2>1, <2>3, <2>5, <3>2, Zenon DEF Running, Deciding
    <3> QED BY <3>1, <3>2, Zenon
  <2> QED BY <2>0, <2>2, <2>5, <2>6, <2>7, Zenon DEF TaskInv, RunInv, s, d, th, a, x, t, ht

\* The verdict a run writes into the task row is the one its audit recorded.
<1>OwnMarkTask.
    ASSUME MarkTask(w)
    PROVE  TaskInv(task_of(w))' /\ RunInv(w)'
  <2> USE <1>OwnMarkTask
  <2> DEFINE t == task_of(w)
             x == worker'[w]
             y == worker[w]
             th == thread[t]
             d == dispatch[t]
             a == audits[t]
             s == store[t]
  <2>0. /\ task_of(w)' = t /\ t \in Tasks /\ s \in Seq(Ckpt) /\ th.ckpt \in 0 .. Len(s) /\ a \in Seq(Row)
        /\ ledger \in [Tasks -> TERMINAL_STATUSES \cup {"NONE", "PENDING", "SUBMISSION_FAILED", "REJECTED"}]
    BY Frame, TaskOf, RowsTyped, ZenonT(60) DEF BusyAction, TypeInv, RowsOK
  <2>1. /\ y.pc = "mark_task" /\ UNCHANGED <<dispatch, audits, threadVars>>
        /\ ledger' = [ledger EXCEPT ![t] = y.verdict] /\ step(w, after_task(y.verdict))
    BY ZenonT(60) DEF MarkTask, set_status
  <2>2. ledger'[t] = y.verdict /\ dispatch'[t] = d /\ audits'[t] = a /\ thread'[t] = th /\ store'[t] = s
    BY <2>0, <2>1, ZenonT(60) DEF threadVars
  <2>3. x.pc = after_task(y.verdict)
    BY <2>1, Stepped, Zenon
  <2>5. Running(y, ledger[t], d, a, th, s) /\ Branches(s, d, th) /\ FirstAudit(s, th, a)
    BY ZenonT(60) DEF RunInv, TaskInv
  <2> HIDE DEF s, d, th, a, x, t, y
  <2>6. \/ a = <<>> /\ y.verdict = "REVIEW_REQUIRED" /\ d = "NONE"
        \/ a # <<>> /\ y.verdict = a[1].result
    BY <2>1, <2>5, Zenon DEF Running
  <2>7. a # <<>> => d # "NONE"
    BY <2>0, <2>5, <1>PlanIs DEF FirstAudit
  <2>8. a # <<>> => 1 \in 1 .. Len(a)
    BY <2>0
  <2>9. Backed(y.verdict, d, a)
    BY <2>6, <2>7, <2>8, Zenon DEF Backed
  <2>10. Running(x, y.verdict, d, a, th, s)
    BY <2>3, Unbound, Zenon DEF after_task
  <2> QED BY <2>0, <2>2, <2>5, <2>9, <2>10, Zenon DEF TaskInv, RunInv, s, d, th, a, x, t

\* The steps after the verdict is written.
<1>OwnRest.
    ASSUME GraphFails(w) \/ AutoPublish(w) \/ HandleBreakdown(w) \/ Ack(w)
    PROVE  TaskInv(task_of(w))' /\ RunInv(w)'
  <2> USE <1>OwnRest
  <2>0. task_of(w)' = task_of(w)
    BY Frame, ZenonT(60) DEF BusyAction
  <2>1. UNCHANGED <<ledger, dispatch, audits, thread, store>>
    BY ZenonT(60) DEF GraphFails, AutoPublish, HandleBreakdown, Ack, ledgerVars, threadVars
  <2>2. SameRows(task_of(w))
    BY <2>1, ZenonT(60) DEF SameRows
  <2>3. PICK pc \in {"release", "ack", "breakdown"} : step(w, pc)
    BY ZenonT(60) DEF GraphFails, AutoPublish, HandleBreakdown, Ack, after_publish
  <2>4. worker'[w].pc \in {"begin", "publish", "breakdown", "ack", "release", "probe_release"}
    BY <2>3, Stepped, ZenonT(60)
  <2> QED BY <2>0, <2>2, <2>4, <1>TaskKeeps, Unbound, ZenonT(60) DEF RunInv

<1>1. ~DlqThread(w) /\ ~DlqTask(w) /\ ~DlqAdd(w)
  BY ZenonT(60) DEF DlqThread, DlqTask, DlqAdd, LockedSteps, GraphSteps
<1> QED BY <1>1, <1>OwnBegin, <1>OwnStart, <1>OwnDispatch, <1>OwnWrite, <1>OwnSaveDispatch, <1>OwnSaveAudit, <1>OwnAuditRead, <1>OwnAuditInsert,
           <1>OwnMarkThread, <1>OwnMarkTask, <1>OwnRest, ZenonT(60) DEF BusyAction

\* What anybody but the holder of the lock may do to the rows of a task.
Other(t) ==
    /\ store'[t] = store[t]
    /\ thread'[t].ckpt = thread[t].ckpt /\ (thread[t].terminal => thread'[t].terminal)
    /\ ledger'[t] \in {ledger[t], "PENDING", "SUBMISSION_FAILED", "DLQ"} \/ ledger[t] = "REVIEW_REQUIRED"
    /\ dispatch'[t] = "NONE" <=> dispatch[t] = "NONE"
    /\ \/ audits'[t] = audits[t]
       \/ audits[t] # <<>> /\ audits'[t] # <<>> /\ audits'[t][1] = audits[t][1]

\* What others do to a task leaves the run of its holder as it was.
LEMMA OtherRun ==
    ASSUME NEW t, Other(t), NEW x, Running(x, ledger[t], dispatch[t], audits[t], thread[t], store[t])
    PROVE  Running(x, ledger'[t], dispatch'[t], audits'[t], thread'[t], store'[t])
<1> DEFINE d == dispatch[t]
           e == dispatch'[t]
           a == audits[t]
           b == audits'[t]
           th == thread[t]
           ht == thread'[t]
           s == store[t]
           l == ledger[t]
           m == ledger'[t]
<1>1. /\ store'[t] = s /\ ht.ckpt = th.ckpt /\ (th.terminal => ht.terminal)
      /\ m \in {l, "PENDING", "SUBMISSION_FAILED", "DLQ"} \/ l = "REVIEW_REQUIRED"
      /\ e = "NONE" <=> d = "NONE"
      /\ b = a \/ (a # <<>> /\ b # <<>> /\ b[1] = a[1])
  BY Zenon DEF Other
<1>2. Running(x, l, d, a, th, s)
  BY Zenon
<1> HIDE DEF d, e, a, b, th, ht, s, l, m
<1>3. Running(x, m, e, b, ht, s)
  <2>1. CASE Deciding(x)
    <3>1. Deciding(x) /\ l \notin {"APPROVED", "REVIEW_REQUIRED"} /\ m \notin {"APPROVED", "REVIEW_REQUIRED"}
      BY <1>1, <1>2, <2>1, ZenonT(60) DEF Running
    <3>2. Running(x, l, d, a, ht, s)
      BY <1>1, <1>2, TerminalIsFine, Zenon
    <3> HIDE DEF Deciding
    <3>3. b # <<>> <=> a # <<>>
      BY <1>1, Zenon
    <3> QED BY <1>1, <3>1, <3>2, <3>3, ZenonT(60) DEF Running
  <2>2. CASE ~Deciding(x)
    BY <2>2, ZenonT(60) DEF Running, Deciding, GraphSteps
  <2> QED BY <2>1, <2>2, Zenon
<1> QED BY <1>1, <1>3, ZenonT(60) DEF d, e, a, b, th, ht, s, l, m

\* It keeps the facts about the task too.
LEMMA OtherTask ==
    ASSUME NEW t, Other(t), TaskInv(t), Backed(ledger[t], dispatch[t], audits[t])'
    PROVE  TaskInv(t)'
<1> DEFINE d == dispatch[t]
           e == dispatch'[t]
           a == audits[t]
           b == audits'[t]
           th == thread[t]
           ht == thread'[t]
           s == store[t]
<1>1. /\ store'[t] = s /\ ht.ckpt = th.ckpt /\ (th.terminal => ht.terminal)
      /\ e = "NONE" <=> d = "NONE"
      /\ b = a \/ (a # <<>> /\ b # <<>> /\ b[1] = a[1])
  BY ZenonT(60) DEF Other
<1>2. Branches(s, d, th) /\ FirstAudit(s, th, a)
  BY ZenonT(60) DEF TaskInv
<1> HIDE DEF d, e, a, b, th, ht, s
<1>3. Branches(s, d, ht) /\ FirstAudit(s, ht, a)
  BY <1>1, <1>2, TerminalIsFine, Zenon
<1>4. Branches(s, e, ht)
  BY <1>1, <1>3, Zenon DEF Branches
<1>5. FirstAudit(s, ht, b)
  BY <1>1, <1>3, Zenon DEF FirstAudit
<1> QED BY <1>1, <1>4, <1>5, ZenonT(60) DEF TaskInv, d, e, a, b, th, ht, s

\* Unless the holder of its lock acts, a task's rows change as Other says.
LEMMA Others ==
    ASSUME TypeInv, RowFirst, [Next]_vars, NEW t \in Tasks, TaskInv(t),
           \A w \in Workers : BusyAction(w) /\ worker[w].pc \in LockedSteps => task_of(w) # t
    PROVE  Other(t) /\ Backed(ledger[t], dispatch[t], audits[t])'
\* Leaving a task alone is something others do.
<1>SameIsOther.
    ASSUME SameRows(t)
    PROVE  Other(t) /\ (Backed(ledger[t], dispatch[t], audits[t]) => Backed(ledger[t], dispatch[t], audits[t])')
  BY <1>SameIsOther, Zenon DEF SameRows, Other

\* Requests create task rows and nothing else.
<1>RequestIsOther.
    ASSUME NEW r \in Requests, RequestStep(r) \/ ApiCrash(r),
           Backed(ledger[t], dispatch[t], audits[t])
    PROVE  Other(t) /\ Backed(ledger[t], dispatch[t], audits[t])'
  <2> USE <1>RequestIsOther
  <2>0. /\ ledger \in [Tasks -> TERMINAL_STATUSES \cup {"NONE", "PENDING", "SUBMISSION_FAILED", "REJECTED"}]
        /\ thread \in [Tasks -> ThreadRow]
    BY Zenon DEF TypeInv, RowsOK, ThreadsOK, ThreadRow
  <2>1. dispatch' = dispatch /\ audits' = audits /\ store' = store
    BY RequestFrame, ZenonT(60)
  <2>2. thread'[t] = thread[t]
    BY <2>0, Requested, ZenonT(60) DEF RowFirst
  <2>3. ledger'[t] \in {ledger[t], "PENDING", "SUBMISSION_FAILED"}
    BY <2>0, Requested, Zenon
  <2>4. Backed(ledger'[t], dispatch[t], audits[t])
    BY <2>3, Zenon DEF Backed
  <2> QED BY <2>1, <2>2, <2>3, <2>4, Zenon DEF Other

\* Operators publish, and reviewers decide what has a dispatch row and waits for
\* them.
<1>PeopleAreOther.
    ASSUME NEW u \in Tasks,
           PublishByOperator(u) \/ \E result \in {"APPROVED", "REJECTED"} : Decide(u, result), Backed(ledger[t], dispatch[t], audits[t])
    PROVE  Other(t) /\ Backed(ledger[t], dispatch[t], audits[t])'
  <2> USE <1>PeopleAreOther
  <2>0. /\ ledger \in [Tasks -> TERMINAL_STATUSES \cup {"NONE", "PENDING", "SUBMISSION_FAILED", "REJECTED"}]
        /\ dispatch \in [Tasks -> {"NONE", "EXECUTED"} \cup AuditStatus]
        /\ audits \in [Tasks -> Seq(Row)] /\ audits[t] \in Seq(Row)
    BY ZenonT(60) DEF TypeInv, RowsOK, Row
  <2>1. CASE PublishByOperator(u)
    BY <2>1, <1>SameIsOther, Zenon DEF PublishByOperator, SameRows, threadVars
  <2>2. ASSUME NEW result \in {"APPROVED", "REJECTED"}, Decide(u, result)
        PROVE  Other(t) /\ Backed(ledger[t], dispatch[t], audits[t])'
    <3> DEFINE row == [result |-> result, human |-> TRUE]
    <3>1. /\ ledger[u] = "REVIEW_REQUIRED" /\ dispatch[u] # "NONE" /\ UNCHANGED <<thread, store>>
          /\ ledger' = [ledger EXCEPT ![u] = result] /\ dispatch' = [dispatch EXCEPT ![u] = result]
          /\ audits' = [audits EXCEPT ![u] = Append(audits[u], row)]
      BY <2>2, Zenon DEF Decide, may_decide, set_status, threadVars
    <3>2. CASE t # u
      BY <2>0, <3>1, <3>2, <1>SameIsOther, ZenonT(60) DEF SameRows
    <3>3. CASE t = u
      <4>1. row \in Row /\ row.result = result
        BY Zenon DEF Row, AuditStatus
      <4> HIDE DEF row
      <4>2. ledger'[t] = result /\ dispatch'[t] = result /\ audits'[t] = Append(audits[t], row)
        BY <2>0, <3>1, <3>3, Zenon
      <4>3. audits[t] # <<>>
        BY <3>1, <3>3, Zenon DEF Backed
      <4> DEFINE b == Append(audits[t], row)
      <4>4. b # <<>> /\ b[1] = audits[t][1] /\ Len(b) = Len(audits[t]) + 1 /\ b[Len(b)] = row /\ Len(audits[t]) \in Nat
        BY <2>0, <4>1, <4>3, AuditGrows
      <4> HIDE DEF b
      <4>5. Other(t)
        BY <3>1, <3>3, <4>2, <4>3, <4>4, Zenon DEF Other, b
      <4>6. Backed(result, result, b)
        BY <4>1, <4>4 DEF Backed
      <4> QED BY <4>2, <4>5, <4>6, Zenon DEF b
    <3> QED BY <3>2, <3>3, ZenonT(60)
  <2> QED BY <2>1, <2>2, ZenonT(60)

\* The dead-letter steps mark the thread and the task, whoever holds the lock.
<1>DlqIsOther.
    ASSUME NEW w \in Workers, DlqThread(w) \/ DlqTask(w) \/ DlqAdd(w),
           Backed(ledger[t], dispatch[t], audits[t])
    PROVE  Other(t) /\ Backed(ledger[t], dispatch[t], audits[t])'
  <2> USE <1>DlqIsOther
  <2>0. /\ ledger \in [Tasks -> TERMINAL_STATUSES \cup {"NONE", "PENDING", "SUBMISSION_FAILED", "REJECTED"}]
        /\ task_of(w) \in Tasks
    BY TaskOf, ZenonT(60) DEF TypeInv, RowsOK, DlqThread, DlqTask, DlqAdd
  <2>1. CASE DlqThread(w)
    <3>1. terminate(task_of(w)) /\ UNCHANGED <<ledger, dispatch, audits, store>>
      BY <2>1, ZenonT(60) DEF DlqThread, ledgerVars
    <3>2. thread'[t].ckpt = thread[t].ckpt /\ (thread[t].terminal => thread'[t].terminal)
      BY <2>0, <3>1, Terminates, ZenonT(60)
    <3> QED BY <3>1, <3>2, ZenonT(60) DEF Other
  <2>2. CASE DlqTask(w)
    <3>1. ledger' = [ledger EXCEPT ![task_of(w)] = "DLQ"] /\ UNCHANGED <<dispatch, audits, thread, store>>
      BY <2>2, Zenon DEF DlqTask, set_status, threadVars
    <3>2. ledger'[t] \in {ledger[t], "DLQ"}
      BY <2>0, <3>1, Zenon
    <3>3. Backed(ledger'[t], dispatch[t], audits[t])
      BY <3>2, Zenon DEF Backed
    <3> QED BY <3>1, <3>2, <3>3, ZenonT(60) DEF Other
  <2>3. CASE DlqAdd(w)
    BY <2>3, <1>SameIsOther, ZenonT(60) DEF DlqAdd, SameRows, ledgerVars, threadVars
  <2> QED BY <2>1, <2>2, <2>3, ZenonT(60)

<1>0. Backed(ledger[t], dispatch[t], audits[t])
  BY ZenonT(60) DEF TaskInv
<1>1. CASE UNCHANGED <<ledgerVars, threadVars, stream, request>>
  BY <1>0, <1>1, <1>SameIsOther, ZenonT(60) DEF SameRows, ledgerVars, threadVars
<1>2. ASSUME NEW w \in Workers, BusyAction(w) PROVE Other(t) /\ Backed(ledger[t], dispatch[t], audits[t])'
  <2>1. CASE task_of(w) # t
    BY <1>0, <1>2, <2>1, OwnRows, <1>SameIsOther, Zenon DEF SameRows
  <2>2. CASE worker[w].pc \notin LockedSteps
    <3>1. DlqThread(w) \/ DlqTask(w) \/ DlqAdd(w)
      BY <1>2, <2>2, ZenonT(60) DEF BusyAction, BeginMessage, Reconcile, StartGraph, DispatchNode, WriteCheckpoint, SaveDispatch,
             AuditRead, AuditInsert, SaveAudit, GraphFails, MarkThread, MarkTask, AutoPublish, HandleBreakdown, Ack,
             LockedSteps, GraphSteps
    <3> QED BY <1>0, <3>1, <1>DlqIsOther, Zenon
  <2> QED BY <1>2, <2>1, <2>2, Zenon
<1> QED BY <1>0, <1>1, <1>2, Quiet, <1>RequestIsOther, <1>PeopleAreOther, Zenon

\* A lost lock stays counted.
LEMMA LossCounts ==
    ASSUME TypeInv, [Next]_vars, faults'.lock = 0
    PROVE  faults.lock = 0
<1>1. ASSUME NEW t \in Tasks, LockExpires(t) PROVE faults.lock = 0
  BY <1>1, ExpiryFrame
<1>2. ASSUME NEW t \in Tasks, PublishByOperator(t) \/ \E result \in {"APPROVED", "REJECTED"} : Decide(t, result)
      PROVE  faults' = faults
  BY <1>2, Zenon DEF PublishByOperator, Decide
<1>3. ASSUME NEW w \in Workers, BusyAction(w) PROVE faults' = faults
  BY <1>3, Frame, Zenon
<1>4. ASSUME NEW w \in Workers, TakeWork(w) \/ RecoverMessage(w) \/ DlqAck(w) PROVE faults' = faults
  BY <1>4, IdleFrame, ZenonT(60)
<1>5. ASSUME NEW w \in Workers, AcquireLock(w) \/ Probe(w) PROVE faults' = faults
  BY <1>5, LockFrame, Zenon
<1>6. ASSUME NEW w \in Workers, ReleaseLock(w) \/ ProbeRelease(w) \/ WorkerCrash(w) PROVE faults'.lock = faults.lock
  BY <1>6, ReleaseFrame, Zenon
<1>7. ASSUME NEW r \in Requests, RequestStep(r) \/ ApiCrash(r) PROVE faults'.lock = faults.lock
  BY <1>7, RequestFrame, Zenon
<1>8. CASE UNCHANGED vars
  BY <1>8, Zenon DEF vars
<1> QED BY <1>1, <1>2, <1>3, <1>4, <1>5, <1>6, <1>7, <1>8, Cases, Zenon

\* Every step keeps the verdict invariant: the holder by OwnStep, the others by
\* Others, and nobody else holds the lock.
LEMMA VerdictStep ==
    ASSUME TypeInv, ReplayInv, RowFirst, HolderHasLock, VerdictInv, [Next]_vars
    PROVE  VerdictInv'
<1> SUFFICES ASSUME faults'.lock = 0
             PROVE  /\ \A t \in Tasks : TaskInv(t)'
                    /\ \A w \in Workers : worker'[w].pc \in LockedSteps => RunInv(w)'
  BY Zenon DEF VerdictInv
<1>0. /\ faults.lock = 0
      /\ \A t \in Tasks : TaskInv(t)
      /\ \A w \in Workers : worker[w].pc \in LockedSteps => RunInv(w)
  BY LossCounts, Zenon DEF VerdictInv
<1>1. ASSUME NEW t \in Tasks PROVE TaskInv(t)'
  <2>1. CASE \E w \in Workers : BusyAction(w) /\ worker[w].pc \in LockedSteps /\ task_of(w) = t
    <3>1. PICK w \in Workers : BusyAction(w) /\ worker[w].pc \in LockedSteps /\ task_of(w) = t
      BY <2>1, Zenon
    <3>2. TaskInv(task_of(w))' /\ task_of(w)' = t
      BY <1>0, <3>1, OwnStep, Frame, Zenon
    <3> QED BY <3>2, Zenon DEF TaskInv
  <2>2. CASE \A w \in Workers : BusyAction(w) /\ worker[w].pc \in LockedSteps => task_of(w) # t
    BY <1>0, <2>2, Others, OtherTask, Zenon
  <2> QED BY <2>1, <2>2, Zenon
<1>2. ASSUME NEW w \in Workers, worker'[w].pc \in LockedSteps PROVE RunInv(w)'
  <2>1. CASE BusyAction(w)
    <3>1. worker[w].pc \in LockedSteps /\ task_of(w) \in Tasks
      BY <1>2, <2>1, Frame, TaskOf, Zenon
    <3> QED BY <1>0, <2>1, <3>1, OwnStep, Zenon
  <2>2. CASE ~BusyAction(w) /\ worker'[w] = worker[w]
    <3> DEFINE t == task_of(w)
    <3>1. worker[w].pc \in LockedSteps /\ worker[w].pc # "idle"
      BY <1>2, <2>2, Steps, Zenon
    <3>2. t \in Tasks /\ task_of(w)' = t
      BY <2>2, <3>1, TaskOf, TaskKept, Zenon DEF task_of
    <3>3. \A v \in Workers : BusyAction(v) /\ worker[v].pc \in LockedSteps => task_of(v) # t
      BY <1>0, <2>2, <3>1, <3>2, ZenonT(60) DEF HolderHasLock, holds_lock
    <3>4. Other(t)
      BY <1>0, <3>2, <3>3, Others, Zenon
    <3>5. Running(worker[w], ledger[t], dispatch[t], audits[t], thread[t], store[t])
      BY <1>0, <3>1, Zenon DEF RunInv
    <3>6. Running(worker[w], ledger'[t], dispatch'[t], audits'[t], thread'[t], store'[t])
      BY <3>4, <3>5, OtherRun, Zenon
    <3> QED BY <2>2, <3>2, <3>6, Zenon DEF RunInv
  <2>3. CASE worker'[w].pc \in {"begin", "probe_release"}
    BY <2>3, Unbound, Zenon DEF RunInv
  <2>4. worker'[w].pc \notin {"idle", "lock", "probe", "dlq_thread"}
    BY <1>2, Zenon DEF LockedSteps, GraphSteps
  <2> QED BY <2>1, <2>2, <2>3, <2>4, WorkerCases, Zenon
<1> QED BY <1>1, <1>2, Zenon

\* At first there is no verdict.
LEMMA VerdictInit == Init => VerdictInv
<1> SUFFICES ASSUME Init PROVE VerdictInv
  BY Zenon
<1>1. ASSUME NEW t \in Tasks PROVE TaskInv(t)
  <2>1. ledger[t] = "NONE" /\ audits[t] = <<>> /\ store[t] = <<>>
    BY Zenon DEF Init
  <2>2. Branches(store[t], dispatch[t], thread[t])
    <3>1. 1 .. Len(<<>>) = {}
      OBVIOUS
    <3> QED BY <2>1, <3>1, Zenon DEF Branches
  <2> QED BY <2>1, <2>2, Zenon DEF TaskInv, FirstAudit, Backed
<1>2. ASSUME NEW w \in Workers PROVE worker[w].pc = "idle"
  BY Zenon DEF Init, IdleWorker
<1>3. "idle" \notin LockedSteps
  BY Zenon DEF LockedSteps, GraphSteps
<1> QED BY <1>1, <1>2, <1>3, Zenon DEF VerdictInv

\* The verdict invariant holds in every reachable state.
THEOREM VerdictSafe == Spec => [](TypeInv /\ RowFirst /\ ReplayInv /\ HolderHasLock /\ VerdictInv)
<1>1. TypeInv /\ HolderHasLock /\ [Next]_vars => HolderHasLock'
  BY LockStep, Zenon
<1>2. TypeInv /\ ReplayInv /\ RowFirst /\ HolderHasLock /\ VerdictInv /\ [Next]_vars => VerdictInv'
  BY VerdictStep, Zenon
<1> QED BY <1>1, <1>2, LockInit, VerdictInit, LedgerSafe, PTL DEF Spec

\* A task is APPROVED only with a dispatch row and an approving audit row, as
\* long as no lock is lost under its holder.
THEOREM ApprovalsAreAudited == Spec => []ApprovalIsAudited
<1>1. VerdictInv => ApprovalIsAudited
  BY Zenon DEF VerdictInv, ApprovalIsAudited, TaskInv, Backed
<1> QED BY <1>1, VerdictSafe, PTL

=============================================================================
