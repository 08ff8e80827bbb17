--------------------------- MODULE RuntimeOverrides ---------------------------
(***************************************************************************)
(* A supervisor changes the state of a paused graph execution: the vehicle *)
(* of a task becomes BROKEN, UNAVAILABLE or MAINTENANCE between the        *)
(* environment node and the capacity node.                                 *)
(*   - operators: RuntimeOverrideService.apply and the override reconciler *)
(*     (runtime_overrides/service.py, reconciler.py);                      *)
(*   - workers: the checkpointed runner and the thread reconciler          *)
(*     (runtime_threads/runner.py, reconciler.py, and the way              *)
(*     workers/dispatch_worker.py calls them);                             *)
(*   - the rows they compare and swap: runtime_threads and                 *)
(*     runtime_overrides (the two sqlalchemy_repository.py).               *)
(*                                                                         *)
(* One runtime thread is modelled: no step touches two.  A step is one     *)
(* transaction, one Redis command or one checkpoint write.  Two workers    *)
(* may run the thread at once, which is what is left of the execution lock *)
(* once it has expired (module DispatchPipeline).                          *)
(***************************************************************************)
EXTENDS Naturals, Sequences, FiniteSets

CONSTANTS
    Workers,      \* processes that run the graph
    Operators,    \* calls of apply or reconcile
    Keys,         \* idempotency keys; one payload each
    NewValue,     \* new_value of the payload of a key
    NamesNext,    \* keys whose payload gives the optional expected_next_node
    Boundary,     \* position of the environment node in NODE_ORDER
    LastNode,     \* length of NODE_ORDER
    MaxCalls,     \* bound: calls of apply (a reconciliation settles its row, so there are few)
    MaxFaults,    \* bound: processes that die, nodes that fail, locks that expire
    MaxRuns,      \* bound: checkpoints written
    None

VehicleRuntimeStatus == {"NORMAL", "BROKEN", "UNAVAILABLE", "MAINTENANCE"}

ASSUME OverrideAssumption ==
    /\ NewValue \in [Keys -> VehicleRuntimeStatus \ {"NORMAL"}]
    /\ NamesNext \subseteq Keys
    /\ LastNode \in Nat /\ Boundary \in 1 .. LastNode - 1
    /\ {MaxCalls, MaxFaults, MaxRuns} \subseteq Nat
    /\ None \notin Operators \cup Nat

VARIABLES
    thread,     \* the runtime_threads row
    store,      \* checkpoints; the index is the id, 0 is "no checkpoint yet"
    row,        \* the runtime_overrides row of each key
    lock,       \* the boundary lock of the thread: the call whose token is stored
    op,         \* local state of each call
    worker,     \* local state of each worker
    calls, faults

vars == <<thread, store, row, lock, op, worker, calls, faults>>

RuntimeThreadStatus == {"RUNNING", "STABLE", "OVERRIDING", "TERMINAL"}
RuntimeOverrideStatus ==
    {"PENDING", "APPLYING", "APPLIED", "REJECTED", "CONFLICT", "PARTIAL", "FAILED"}

\* current_node is the node at position count of NODE_ORDER.
next_node(t) == IF t.status = "TERMINAL" \/ t.count = LastNode THEN None ELSE t.count + 1

\* A checkpoint knows the checkpoints it descends from, the number of nodes
\* completed and the vehicle status in its state.
Root == [above |-> {}, count |-> 0, value |-> "NORMAL"]
record(c) == IF c = 0 THEN Root ELSE store[c]
descends_from(c, d) == d \in record(c).above
child(c, count, value) == [above |-> record(c).above \cup {c}, count |-> count, value |-> value]

NoRow == [status |-> "NONE", version |-> 0, next |-> None, source |-> None, result |-> None, event |-> "PENDING"]
IdleCall == [pc |-> "idle", key |-> None, seen |-> NoRow, th |-> None, result |-> None,
             verdict |-> None, handle |-> FALSE, claimed |-> FALSE, candidate |-> FALSE]
IdleWorker == [pc |-> "idle", th |-> None, base |-> 0, resume |-> FALSE]

Init ==
    /\ thread = [status |-> "RUNNING", cp |-> 0, version |-> 0, count |-> 0]
    /\ store = <<>>
    /\ row = [k \in Keys |-> NoRow]
    /\ lock = None
    /\ op = [o \in Operators |-> IdleCall]
    /\ worker = [w \in Workers |-> IdleWorker]
    /\ calls = 0
    /\ faults = 0

-----------------------------------------------------------------------------
(* The rows *)

at_tuple(status, cp, version, next) ==
    /\ thread.status = status
    /\ thread.cp = cp
    /\ thread.version = version
    /\ next_node(thread) = next

\* _claim_boundary and release_override_boundary: one UPDATE with the whole tuple.
claim_boundary(t, status) ==
    /\ at_tuple("STABLE", t.cp, t.version, next_node(t))
    /\ thread' = [thread EXCEPT !.status = status]
can_release(cp, version, next) == at_tuple("OVERRIDING", cp, version, next)
release_boundary == thread' = [thread EXCEPT !.status = "STABLE"]

\* promote_checkpoint: compare the canonical pointer and its version, whatever
\* the status, unless TERMINAL.
version_unchecked(t) == thread.status # "TERMINAL"
can_promote(t) ==
    /\ thread.status # "TERMINAL"
    /\ thread.cp = t.cp
    /\ thread.version = t.version
promoted(c) ==
    [status |-> "STABLE", cp |-> c, version |-> thread.version + 1, count |-> thread.count + 1]

\* finish and mark_partial of the override ledger: only APPLIED is final.
set_row(k, status) ==
    row' = IF row[k].status = "APPLIED" THEN row ELSE [row EXCEPT ![k].status = status]

\* promote_applied: the ledger row and the thread row in one transaction.
thread_unchecked(k, c) ==
    /\ row[k].result = c
    /\ row[k].status \in {"APPLYING", "PARTIAL"}
    /\ thread.status # "TERMINAL"
can_apply(k, c) ==
    /\ row[k].result = c
    /\ row[k].status \in {"APPLYING", "PARTIAL"}
    /\ at_tuple("OVERRIDING", row[k].source, row[k].version, row[k].next)
promote_applied(k) ==
    /\ thread' = [thread EXCEPT !.cp = row[k].result, !.version = @ + 1, !.status = "STABLE"]
    /\ row' = [row EXCEPT ![k].status = "APPLIED"]

-----------------------------------------------------------------------------
(* RuntimeOverrideService.apply *)

goto(o, pc) == op' = [op EXCEPT ![o].pc = pc]
conclude(o, verdict) == op' = [op EXCEPT ![o].pc = "finish", ![o].verdict = verdict]
return(o) == op' = [op EXCEPT ![o] = IdleCall]

\* begin_or_replay: the first call with a key inserts its row, with the version the
\* operator was shown; a later one reads it.  An unfinished row is settled by the
\* replay, a PENDING one is executed by it, a finished one is the answer.
Begin(o, k) ==
    /\ op[o].pc = "idle" /\ calls < MaxCalls
    /\ calls' = calls + 1
    /\ \/ /\ row[k].status = "NONE"
          /\ row' = [row EXCEPT ![k].status = "PENDING", ![k].version = thread.version,
                                ![k].next = IF k \in NamesNext THEN Boundary + 1 ELSE None]
          /\ op' = [op EXCEPT ![o].pc = "lock", ![o].key = k]
       \/ /\ row[k].status \in {"PENDING", "APPLYING"}
          /\ op' = [op EXCEPT ![o].pc = CASE row[k].status = "PENDING" -> "lock"
                                          [] row[k].result # None -> "partial"
                                          [] OTHER -> "interrupted",
                              ![o].key = k, ![o].seen = row[k]]
          /\ UNCHANGED row
    /\ UNCHANGED <<thread, store, lock, worker, faults>>

\* The replay of an interrupted call gives its fence back, if it is still there.
Interrupted(o) ==
    /\ op[o].pc = "interrupted"
    /\ LET r == op[o].seen
       IN  \/ can_release(r.source, r.version, r.next) /\ release_boundary
           \/ ~can_release(r.source, r.version, r.next) /\ UNCHANGED thread
    /\ conclude(o, "FAILED")
    /\ UNCHANGED <<store, row, lock, worker, calls, faults>>

\* SET NX PX; a call that does not get the lock ends as BUSY.
AcquireLock(o) ==
    /\ op[o].pc = "lock"
    /\ \/ /\ lock = None
          /\ lock' = o
          /\ op' = [op EXCEPT ![o].pc = "read", ![o].handle = TRUE]
       \/ /\ lock # None
          /\ conclude(o, "CONFLICT")
          /\ UNCHANGED lock
    /\ UNCHANGED <<thread, store, row, worker, calls, faults>>

\* What the service and the policy require of the thread and of its checkpoint.
at_boundary(k, t) ==
    /\ t.status = "STABLE"
    /\ t.version = row[k].version
    /\ t.count = Boundary
    /\ row[k].next \in {None, next_node(t)}
evaluate(k, t) == at_boundary(k, t) /\ record(t.cp).value = "NORMAL"
refusal(k, t) == IF t.status = "TERMINAL" \/ at_boundary(k, t) THEN "REJECTED" ELSE "CONFLICT"

\* get_by_thread_id, then get_exact of its checkpoint, which may be unavailable.
ReadThread(o) ==
    /\ op[o].pc = "read"
    /\ LET k == op[o].key
       IN  \/ /\ evaluate(k, thread)
              /\ op' = [op EXCEPT ![o].pc = "claim", ![o].th = thread]
           \/ /\ ~evaluate(k, thread)
              /\ conclude(o, refusal(k, thread))
           \/ /\ thread.status = "STABLE" /\ thread.version = row[k].version /\ thread.cp # 0
              /\ conclude(o, "FAILED")
    /\ UNCHANGED <<thread, store, row, lock, worker, calls, faults>>

ClaimBoundary(o) ==
    /\ op[o].pc = "claim"
    /\ \/ /\ claim_boundary(op[o].th, "OVERRIDING")
          /\ op' = [op EXCEPT ![o].pc = "applying", ![o].claimed = TRUE]
       \/ /\ ~at_tuple("STABLE", op[o].th.cp, op[o].th.version, next_node(op[o].th))
          /\ conclude(o, "CONFLICT")
          /\ UNCHANGED thread
    /\ UNCHANGED <<store, row, lock, worker, calls, faults>>

\* mark_applying raises when another call of the key has finished the row.
MarkApplying(o) ==
    /\ op[o].pc = "applying"
    /\ LET k == op[o].key
       IN  \/ /\ row[k].status = "PENDING"
              /\ row' = [row EXCEPT ![k].status = "APPLYING", ![k].source = op[o].th.cp]
              /\ goto(o, "update")
           \/ /\ row[k].status = "APPLYING"
              /\ goto(o, "update")
              /\ UNCHANGED row
           \/ /\ row[k].status \notin {"PENDING", "APPLYING"}
              /\ goto(o, "unlock")
              /\ UNCHANGED row
    /\ UNCHANGED <<thread, store, lock, worker, calls, faults>>

\* aupdate_state writes a child of the source; it may fail before or after writing.
\* An error of the checkpoint store is answered, any other one leaves the call.
UpdateState(o) ==
    /\ op[o].pc = "update" /\ Len(store) < MaxRuns
    /\ \/ /\ store' = Append(store, child(op[o].th.cp, op[o].th.count, NewValue[op[o].key]))
          /\ op' = [op EXCEPT ![o].pc = "attach", ![o].candidate = TRUE, ![o].result = Len(store')]
          /\ UNCHANGED faults
       \/ /\ faults < MaxFaults /\ faults' = faults + 1
          /\ store' \in {store, Append(store, child(op[o].th.cp, op[o].th.count, NewValue[op[o].key]))}
          /\ \E handler \in {"release", "unlock"} : goto(o, handler)
    /\ UNCHANGED <<thread, row, lock, worker, calls>>

\* A failed update gives the fence back; when the fence is gone the exception ends the call.
ReleaseBoundary(o) ==
    /\ op[o].pc = "release"
    /\ LET t == op[o].th
       IN  \/ /\ can_release(t.cp, t.version, next_node(t))
              /\ release_boundary
              /\ op' = [op EXCEPT ![o].pc = "finish", ![o].verdict = "FAILED", ![o].claimed = FALSE]
           \/ /\ ~can_release(t.cp, t.version, next_node(t))
              /\ goto(o, "unlock")
              /\ UNCHANGED thread
    /\ UNCHANGED <<store, row, lock, worker, calls, faults>>

\* attach_result_checkpoint raises when the row is no longer APPLYING.
AttachResult(o) ==
    /\ op[o].pc = "attach"
    /\ LET k == op[o].key
       IN  \/ /\ row[k].status = "APPLYING" /\ row[k].result \in {None, op[o].result}
              /\ row' = [row EXCEPT ![k].result = op[o].result]
              /\ goto(o, "promote")
           \/ /\ row[k].status # "APPLYING" \/ row[k].result \notin {None, op[o].result}
              /\ goto(o, "unlock")
              /\ UNCHANGED row
    /\ UNCHANGED <<thread, store, lock, worker, calls, faults>>

PromoteApplied(o) ==
    /\ op[o].pc = "promote"
    /\ LET k == op[o].key
       IN  \/ /\ can_apply(k, op[o].result)
              /\ promote_applied(k)
              /\ goto(o, "event")
           \/ /\ ~can_apply(k, op[o].result)
              /\ goto(o, IF row[k].status = "APPLIED" THEN "event" ELSE "partial")
              /\ UNCHANGED <<thread, row>>
    /\ UNCHANGED <<store, lock, worker, calls, faults>>

\* publish_applied may fail; mark_event_status records it.
MarkEvent(o) ==
    /\ op[o].pc = "event"
    /\ \E e \in {"PUBLISHED", "FAILED"} : row' = [row EXCEPT ![op[o].key].event = e]
    /\ goto(o, "unlock")
    /\ UNCHANGED <<thread, store, lock, worker, calls, faults>>

after_verdict(o) == IF op[o].handle THEN goto(o, "unlock") ELSE return(o)

MarkPartial(o) ==
    /\ op[o].pc = "partial"
    /\ set_row(op[o].key, "PARTIAL")
    /\ after_verdict(o)
    /\ UNCHANGED <<thread, store, lock, worker, calls, faults>>

Finish(o) ==
    /\ op[o].pc = "finish"
    /\ set_row(op[o].key, op[o].verdict)
    /\ after_verdict(o)
    /\ UNCHANGED <<thread, store, lock, worker, calls, faults>>

\* The finally block: compare and delete the lock, then give back a fence that
\* guards no candidate.  It does so with the tuple it reads, whoever put it there.
Unlock(o) ==
    /\ op[o].pc = "unlock"
    /\ lock' = IF lock = o THEN None ELSE lock
    /\ IF op[o].claimed /\ ~op[o].candidate THEN goto(o, "cleanup") ELSE return(o)
    /\ UNCHANGED <<thread, store, row, worker, calls, faults>>

Cleanup(o) ==
    /\ op[o].pc = "cleanup"
    /\ IF thread.status = "OVERRIDING" THEN release_boundary ELSE UNCHANGED thread
    /\ return(o)
    /\ UNCHANGED <<store, row, lock, worker, calls, faults>>

-----------------------------------------------------------------------------
(* RuntimeOverrideReconciler.reconcile *)

\* A PARTIAL row whose fence is still there is looked at; any other one is a conflict.
Reconcile(o, k) ==
    /\ op[o].pc = "idle"
    /\ row[k].status = "PARTIAL"
    /\ op' = [op EXCEPT ![o].key = k, ![o].result = row[k].result, ![o].verdict = "CONFLICT",
                        ![o].pc = IF /\ thread.status = "OVERRIDING"
                                     /\ thread.cp = row[k].source
                                     /\ thread.version = row[k].version
                                  THEN "reconcile" ELSE "finish"]
    /\ UNCHANGED <<thread, store, row, lock, worker, calls, faults>>

ReconcilePromote(o) ==
    /\ op[o].pc = "reconcile"
    /\ LET k == op[o].key
       IN  \/ can_apply(k, op[o].result) /\ promote_applied(k) /\ return(o)
           \/ /\ ~can_apply(k, op[o].result)
              /\ IF row[k].status = "APPLIED" THEN return(o) ELSE goto(o, "finish")
              /\ UNCHANGED <<thread, row>>
    /\ UNCHANGED <<store, lock, worker, calls, faults>>

-----------------------------------------------------------------------------
(* Workers *)

step(w, pc) == worker' = [worker EXCEPT ![w].pc = pc]
stop(w) == worker' = [worker EXCEPT ![w] = IdleWorker]

\* The checkpoints that continue a thread by one node.  When it has no canonical
\* checkpoint yet, no node may have completed above them
\* (checkpoint_has_initial_ancestry).
continues(t) ==
    {c \in 1 .. Len(store) :
        /\ record(c).count = t.count + 1
        /\ descends_from(c, t.cp)
        /\ t.cp = 0 => \A d \in record(c).above : record(d).count = 0}
newest(S) == CHOOSE c \in S : \A d \in S : d <= c

\* _runtime_thread reads the row.  Once the audit node is done only the
\* terminal status is missing.
StartRun(w) ==
    /\ worker[w].pc = "idle" /\ thread.status # "TERMINAL"
    /\ worker' = [worker EXCEPT ![w].th = thread,
                                ![w].pc = IF thread.count = LastNode THEN "terminal" ELSE "orphans"]
    /\ UNCHANGED <<thread, store, row, lock, op, calls, faults>>

\* How _process_graph goes on with a thread: it claims a STABLE one, and runs
\* one that is RUNNING or OVERRIDING as it is.
waits_for_fence(w, t) ==
    IF t.status = "OVERRIDING" THEN stop(w)
    ELSE worker' = [worker EXCEPT ![w].th = t, ![w].base = t.cp, ![w].resume = (t.cp # 0),
                                  ![w].pc = IF t.cp # 0 /\ t.status = "STABLE" THEN "claim" ELSE "run"]
begin_run(w, t) ==
    worker' = [worker EXCEPT ![w].th = t, ![w].base = t.cp, ![w].resume = (t.cp # 0),
                             ![w].pc = IF t.cp # 0 /\ t.status = "STABLE" THEN "claim" ELSE "run"]

\* ThreadCheckpointReconciler.reconcile: the only continuation is adopted, several
\* are an error.
AdoptOrphan(w) ==
    /\ worker[w].pc = "orphans"
    /\ LET t == worker[w].th
           cs == continues(t)
       IN  \/ /\ cs = {}
              /\ begin_run(w, t)
              /\ UNCHANGED thread
           \/ \E c \in cs :
                /\ cs = {c} /\ can_promote(t)
                /\ thread' = promoted(c)
                /\ IF thread'.count = LastNode THEN step(w, "terminal") ELSE begin_run(w, thread')
           \/ /\ Cardinality(cs) > 1 \/ (cs # {} /\ ~can_promote(t))
              /\ stop(w)
              /\ UNCHANGED thread
    /\ UNCHANGED <<store, row, lock, op, calls, faults>>

ClaimNextNode(w) ==
    /\ worker[w].pc = "claim"
    /\ LET t == worker[w].th
       IN  \/ /\ claim_boundary(t, "RUNNING")
              /\ worker' = [worker EXCEPT ![w].pc = "run", ![w].th = thread']
           \/ /\ ~at_tuple("STABLE", t.cp, t.version, next_node(t))
              /\ stop(w)
              /\ UNCHANGED thread
    /\ UNCHANGED <<store, row, lock, op, calls, faults>>

\* The graph runs one node from the state it has in hand and writes its checkpoint.
RunNode(w) ==
    /\ worker[w].pc = "run" /\ Len(store) < MaxRuns
    /\ LET b == worker[w].base
       IN  store' = Append(store, child(b, record(b).count + 1, record(b).value))
    /\ worker' = [worker EXCEPT ![w].base = Len(store'),
                                ![w].pc = IF worker[w].resume THEN "resumed" ELSE "promote"]
    /\ UNCHANGED <<thread, row, lock, op, calls, faults>>

\* After the first node of a resumed run mark_resumed replaces the runner's view
\* of the thread by the row as it is now.
MarkResumed(w) ==
    /\ worker[w].pc = "resumed"
    /\ worker' = [worker EXCEPT ![w].th = thread, ![w].resume = FALSE, ![w].pc = "promote"]
    /\ UNCHANGED <<thread, store, row, lock, op, calls, faults>>

\* _latest_boundary takes the newest continuation of the thread as the runner
\* knows it; the graph stops after the environment node.
boundaries(w) ==
    IF next_node(worker[w].th) = record(worker[w].base).count
    THEN continues(worker[w].th) ELSE {}
Promote(w) ==
    /\ worker[w].pc = "promote"
    /\ LET t == worker[w].th
           c == IF boundaries(w) = {} THEN None ELSE newest(boundaries(w))
       IN  \/ /\ c # None
              /\ \/ /\ can_promote(t) /\ thread.cp # c
                    /\ thread' = promoted(c)
                 \/ /\ thread.cp = c
                    /\ UNCHANGED thread
              /\ IF thread'.count = Boundary
                 THEN stop(w)
                 ELSE worker' = [worker EXCEPT ![w].th = thread',
                                   ![w].pc = IF thread'.count = LastNode THEN "terminal" ELSE "run"]
           \/ /\ c = None \/ (~can_promote(t) /\ thread.cp # c)
              /\ stop(w)
              /\ UNCHANGED thread
    /\ UNCHANGED <<store, row, lock, op, calls, faults>>

MarkTerminal(w) ==
    /\ worker[w].pc = "terminal"
    /\ thread' = [thread EXCEPT !.status = "TERMINAL"]
    /\ stop(w)
    /\ UNCHANGED <<store, row, lock, op, calls, faults>>

-----------------------------------------------------------------------------
(* Faults *)

CallDies(o) ==
    /\ op[o].pc # "idle" /\ faults < MaxFaults
    /\ faults' = faults + 1
    /\ return(o)
    /\ UNCHANGED <<thread, store, row, lock, worker, calls>>

\* A statement of the call fails: nothing catches it but the finally block, and the
\* row stays as it is.
CallRaises(o) ==
    /\ op[o].handle /\ op[o].pc \notin {"update", "unlock", "cleanup"} /\ faults < MaxFaults
    /\ faults' = faults + 1
    /\ goto(o, "unlock")
    /\ UNCHANGED <<thread, store, row, lock, worker, calls>>

\* The worker process dies, or the node it runs raises.
RunFails(w) ==
    /\ worker[w].pc # "idle" /\ faults < MaxFaults
    /\ faults' = faults + 1
    /\ stop(w)
    /\ UNCHANGED <<thread, store, row, lock, op, calls>>

\* The boundary lock is never renewed.  That of a dead call always expires.
LockExpires ==
    /\ lock # None
    /\ \/ op[lock].handle /\ faults < MaxFaults /\ faults' = faults + 1
       \/ ~op[lock].handle /\ UNCHANGED faults
    /\ lock' = None
    /\ UNCHANGED <<thread, store, row, op, worker, calls>>

\* The message of the task reaches its last delivery (_recover_message).
DeadLetter ==
    /\ thread.status # "TERMINAL" /\ faults < MaxFaults
    /\ faults' = faults + 1
    /\ thread' = [thread EXCEPT !.status = "TERMINAL"]
    /\ UNCHANGED <<store, row, lock, op, worker, calls>>

CallStep(o) ==
    \/ Interrupted(o) \/ AcquireLock(o) \/ ReadThread(o) \/ ClaimBoundary(o)
    \/ MarkApplying(o) \/ UpdateState(o) \/ ReleaseBoundary(o) \/ AttachResult(o)
    \/ PromoteApplied(o) \/ MarkEvent(o) \/ MarkPartial(o) \/ Finish(o)
    \/ Unlock(o) \/ Cleanup(o) \/ ReconcilePromote(o)
RunStep(w) ==
    \/ AdoptOrphan(w) \/ ClaimNextNode(w) \/ RunNode(w) \/ MarkResumed(w)
    \/ Promote(w) \/ MarkTerminal(w)

Next ==
    \/ \E o \in Operators :
         CallStep(o) \/ CallDies(o) \/ CallRaises(o) \/ \E k \in Keys : Begin(o, k) \/ Reconcile(o, k)
    \/ \E w \in Workers : StartRun(w) \/ RunStep(w) \/ RunFails(w)
    \/ LockExpires \/ DeadLetter

Spec == Init /\ [][Next]_vars

\* Calls and runs go on by themselves; the recovery loop of the workers delivers
\* the message again until the thread is terminal.
Fairness ==
    /\ \A o \in Operators : WF_vars(CallStep(o))
    /\ \A w \in Workers : WF_vars(StartRun(w)) /\ WF_vars(RunStep(w))
FairSpec == Spec /\ Fairness

-----------------------------------------------------------------------------
(* Properties *)

Thread == [status : RuntimeThreadStatus, cp : 0 .. MaxRuns, version : Nat, count : 0 .. LastNode]
Checkpoint == [above : SUBSET (0 .. MaxRuns), count : 0 .. LastNode, value : VehicleRuntimeStatus]
Row == [status : RuntimeOverrideStatus \cup {"NONE"}, version : Nat, next : {Boundary + 1, None},
        source : 0 .. MaxRuns \cup {None}, result : 0 .. MaxRuns \cup {None},
        event : {"PENDING", "PUBLISHED", "FAILED"}]
CallSteps ==
    {"idle", "lock", "interrupted", "read", "claim", "applying", "update", "release", "attach",
     "promote", "event", "partial", "finish", "unlock", "cleanup", "reconcile"}
RunSteps == {"idle", "orphans", "claim", "run", "resumed", "promote", "terminal"}

\* Every row, checkpoint and local state has its type.
TypeOK ==
    /\ thread \in Thread
    /\ Len(store) <= MaxRuns /\ \A c \in 1 .. Len(store) : store[c] \in Checkpoint
    /\ row \in [Keys -> Row]
    /\ lock \in Operators \cup {None}
    /\ \A o \in Operators :
         /\ op[o].pc \in CallSteps
         /\ op[o].key \in Keys \cup {None}
         /\ op[o].th \in Thread \cup {None}
         /\ op[o].result \in 0 .. MaxRuns \cup {None}
    /\ \A w \in Workers :
         /\ worker[w].pc \in RunSteps
         /\ worker[w].th \in Thread \cup {None}
         /\ worker[w].base \in 0 .. MaxRuns
    /\ calls \in 0 .. MaxCalls /\ faults \in 0 .. MaxFaults

\* An override recorded APPLIED stays in force: whatever workers, replays,
\* reconcilers and later overrides do, the canonical checkpoint is its result or
\* descends from it, and carries its value.
OverrideTakesEffect ==
    \A k \in Keys : row[k].status = "APPLIED" =>
        /\ thread.cp = row[k].result \/ descends_from(thread.cp, row[k].result)
        /\ record(thread.cp).value = NewValue[k]

\* A vehicle that an override has already taken out of NORMAL is not overridden again.
AppliedOnce == \A j, k \in Keys : row[j].status = "APPLIED" /\ row[k].status = "APPLIED" => j = k

\* The canonical pointer only moves down the tree of checkpoints, and the state
\* version changes exactly when it moves.
CanonicalLine ==
    [][/\ thread'.cp # thread.cp => thread.cp \in store'[thread'.cp].above
       /\ thread'.version = IF thread'.cp = thread.cp THEN thread.version ELSE thread.version + 1]_vars

\* Overrides, abandoned or not, never stop the thread for good.
ThreadEnds == <>(thread.status = "TERMINAL")

=============================================================================
