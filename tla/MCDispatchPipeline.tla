------------------------- MODULE MCDispatchPipeline -------------------------
(***************************************************************************)
(* Small instances of DispatchPipeline, one situation per question.        *)
(***************************************************************************)
EXTENDS DispatchPipeline

CONSTANTS t1, t2, w1, w2, r1, r2

Calm == [tasks |-> {t1}, workers |-> {w1, w2}, requests |-> {r1}, delivery |-> 3,
         crashes |-> 0, losses |-> 0, cuts |-> 0, decisions |-> 2, flaky |-> FALSE]

\* One breakdown task, two workers; a worker dies, a request is cut off.
Lifecycle == [Calm EXCEPT !.crashes = 1, !.cuts = 1]

\* Two tasks pending on one consumer, claimed in batches.
Batch == [Calm EXCEPT !.tasks = {t1, t2}, !.workers = {w1}, !.requests = {r1, r2}, !.delivery = 2, !.decisions = 0]

\* A lock expires under a live holder.
LockLoss == [Calm EXCEPT !.losses = 1]

\* A client asks again after a queue error: two messages of one task.
Resubmission == [Calm EXCEPT !.requests = {r1, r2}, !.delivery = 2, !.decisions = 1, !.flaky = TRUE]

\* One worker, so that every delivery of a message begins after the last one ended.
OneWorker == {[Calm EXCEPT !.workers = {w1}, !.decisions = 0]}

Settling == {Lifecycle, Batch, [LockLoss EXCEPT !.delivery = 2], [Resubmission EXCEPT !.workers = {w1}]}
=============================================================================
