---------------------------- MODULE SharedMemory ----------------------------
(***************************************************************************)
(* Controlled changes of one shared-memory fact (shared_memory/).          *)
(*   - calls: SharedMemoryMutationService.mutate and resume_mutation;      *)
(*   - the MySQL rows: the fact, the mutation ledger, the evidence;        *)
(*   - the stores that make a version searchable, Qdrant (VECTOR) and      *)
(*     Neo4j (GRAPH), which know nothing of each other or of MySQL;        *)
(*   - the Redis lock of the fact, which is not renewed.                   *)
(* A step is one transaction, one store operation or one Redis command.    *)
(* Facts share no rows, projections or locks, so one is enough.  Version 0 *)
(* stands for the absent fact (None in the code).                          *)
(***************************************************************************)
EXTENDS Naturals, FiniteSets

CONSTANTS
    Kinds,         \* fact kinds considered
    Keys,          \* idempotency keys; one command, hence one ledger row, each
    Command,       \* Command[k]: content, evidence, confidence, expires, human
    Calls,         \* calls of mutate or resume_mutation in progress
    MinConfidence, RejectDelta,    \* MemoryPolicySettings
    MaxCalls,      \* bound: calls made
    MaxFaults,     \* bound: calls cut short and store operations that fail
    MaxDisturbed,  \* bound: failed store operations that take effect later and
                   \* locks that expire while their call is alive
    None

ASSUME MemoryAssumption ==
    /\ Kinds \subseteq {"ATTRIBUTE", "RELATIONSHIP", "EXPERIENCE", "HYBRID"}
    /\ \A k \in Keys :
          Command[k].confidence \in Nat /\ {Command[k].human, Command[k].expires} \subseteq BOOLEAN
    /\ {MinConfidence, RejectDelta, MaxCalls, MaxFaults, MaxDisturbed} \subseteq Nat
    /\ None \notin Keys \cup Calls \cup
          {"CREATE", "MERGE", "REPLACE", "NOOP", "REJECT", "CONFLICT_REVIEW", "STAGED", "ACTIVE", "RETIRED", "FAILED"}

VARIABLES
    kind,        \* the kind of the fact, part of its identity
    fact,        \* the shared_memory_facts row
    row,         \* the memory_mutations row of each key
    evidence,    \* keys whose evidence row is written
    accepted,    \* keys whose evidence is linked to the fact
    proj,        \* projections in the stores
    late,        \* store operations reported as failed and still under way
    lock,        \* the call whose token holds the lock of the fact
    call,        \* local state of each call
    calls, faults

factVars == <<kind, fact, evidence, accepted>>
ledgerVars == <<factVars, row>>
storeVars == <<proj, late>>
envVars == <<calls, faults>>
vars == <<ledgerVars, storeVars, lock, call, envVars>>

MutationStatus ==
    {"NONE", "PENDING", "APPLYING", "FINALIZING", "APPLIED", "PARTIAL", "REJECTED", "CONFLICT"}
Stores == {"VECTOR", "GRAPH"}
Projecting == {"CREATE", "MERGE", "REPLACE"}
Contents == {Command[k].content : k \in Keys}
Versions == 0..Cardinality(Keys)

\* _validate_command: the stores a kind of fact is projected to
targets ==
    CASE kind \in {"ATTRIBUTE", "RELATIONSHIP"} -> {"GRAPH"}
      [] kind = "EXPERIENCE" -> {"VECTOR"}
      [] kind = "HYBRID" -> Stores

NoFact == [version |-> 0, content |-> None, confidence |-> 0, expires |-> FALSE, status |-> "NONE", last |-> None]
NoRow == [status |-> "NONE", expected |-> 0, decision |-> None, before |-> 0, after |-> 0,
          stored |-> [s \in Stores |-> "NOT_REQUIRED"]]
IdleCall == [pc |-> "idle", key |-> None, expected |-> 0, resume |-> FALSE, seen |-> NoRow,
             todo |-> {}, found |-> None, failed |-> FALSE]

Init ==
    /\ kind \in Kinds
    /\ fact = NoFact
    /\ row = [k \in Keys |-> NoRow]
    /\ evidence = {} /\ accepted = {}
    /\ proj = {} /\ late = {}
    /\ lock = None
    /\ call = [c \in Calls |-> IdleCall]
    /\ calls = 0 /\ faults = [failed |-> 0, disturbed |-> 0]

-----------------------------------------------------------------------------
(* The policy.  The clock decides whether the fact has expired and whether  *)
(* the command is older than the last change of the fact.                   *)

is_expired(expired) == fact.expires /\ expired

duplicate_evidence(k) == \E j \in accepted : Command[j].evidence = Command[k].evidence

metadata_unchanged(k) == Command[k].confidence = fact.confidence /\ Command[k].expires = fact.expires

evaluate_mutation(k, expired, stale) ==
    IF Command[k].confidence < MinConfidence /\ ~Command[k].human THEN "CONFLICT_REVIEW"
    ELSE IF fact.version = 0                                      THEN "CREATE"
    ELSE IF is_expired(expired)                                   THEN "REPLACE"
    ELSE IF Command[k].content = fact.content
         THEN IF duplicate_evidence(k) /\ metadata_unchanged(k) THEN "NOOP" ELSE "MERGE"
    ELSE IF Command[k].human                                      THEN "REPLACE"
    ELSE IF stale \/ fact.confidence >= Command[k].confidence + RejectDelta THEN "REJECT"
    ELSE "CONFLICT_REVIEW"

\* record_decision
decided(r, d) ==
    [r EXCEPT !.decision = d, !.before = fact.version,
              !.after = IF d \in Projecting THEN fact.version + 1 ELSE fact.version,
              !.status = CASE d = "NOOP" -> "APPLIED"
                           [] d = "REJECT" -> "REJECTED"
                           [] d = "CONFLICT_REVIEW" -> "CONFLICT"
                           [] d \in Projecting -> @,
              !.stored = IF d \in Projecting THEN @ ELSE [s \in Stores |-> "NOT_REQUIRED"]]

-----------------------------------------------------------------------------
(* The stores.  A projection is found by its version: a Qdrant point by its *)
(* id, a Neo4j edge by its projection_id and the entity it leads to, which  *)
(* for an ATTRIBUTE is its value.  The commands of a fact are taken to name  *)
(* the same vector_memory_id, or none.                                      *)

entity(k, s) == IF s = "GRAPH" /\ kind = "ATTRIBUTE" THEN Command[k].content ELSE None

others(k, s, v) == {p \in proj : p.store # s \/ p.version # v \/ p.entity # entity(k, s)}

staged(k, s, v) == [store |-> s, version |-> v, entity |-> entity(k, s), key |-> k, status |-> "STAGED"]

stage_visible(k, s, v) == others(k, s, v) \cup {[staged(k, s, v) EXCEPT !.status = "ACTIVE"]}
stage_if_absent(k, s, v) == IF others(k, s, v) = proj THEN proj \cup {staged(k, s, v)} ELSE proj
stage(k, s, v) == others(k, s, v) \cup {staged(k, s, v)}

activate(s, v) ==
    {IF p.store = s /\ p.version = v THEN [p EXCEPT !.status = "ACTIVE"] ELSE p : p \in proj}

retire_previous(s, v) ==
    {IF p.store = s /\ p.version < v /\ p.status = "ACTIVE" THEN [p EXCEPT !.status = "RETIRED"] ELSE p
        : p \in proj}

performed(w) ==
    CASE w.op = "stage" -> stage(w.key, w.store, w.version)
      [] w.op = "activate" -> activate(w.store, w.version)
      [] w.op = "retire" -> retire_previous(w.store, w.version)

\* the statuses probe may answer for the projection of a mutation
probe(k, s, v) ==
    LET mine == {p \in proj : p.store = s /\ p.key = k /\ p.version = v}
    IN  IF mine = {} THEN {None} ELSE {p.status : p \in mine}

-----------------------------------------------------------------------------
(* The calls.                                                               *)

goto(c, pc) == call' = [call EXCEPT ![c].pc = pc]

at(c, pc) == call[c].pc = pc

\* the store a call works on: VECTOR before GRAPH
target(c) == IF "VECTOR" \in call[c].todo THEN "VECTOR" ELSE "GRAPH"

set_fields(k, r) == row' = [row EXCEPT ![k] = r]

\* mutate; a client names a version it has seen.  The same key with another
\* payload is answered with MemoryIdempotencyConflict and changes nothing.
Mutate(c, k, e) ==
    /\ call[c].pc = "idle" /\ calls < MaxCalls
    /\ row[k].status # "NONE" => e = row[k].expected
    /\ call' = [call EXCEPT ![c] = [IdleCall EXCEPT !.pc = "lock", !.key = k, !.expected = e]]
    /\ calls' = calls + 1
    /\ UNCHANGED <<ledgerVars, storeVars, lock, faults>>

\* resume_mutation reads the row before it takes the lock
Resume(c, k) ==
    /\ call[c].pc = "idle" /\ calls < MaxCalls
    /\ row[k].status \in {"PENDING", "APPLYING", "FINALIZING", "PARTIAL"}
    /\ call' = [call EXCEPT ![c] = [IdleCall EXCEPT !.pc = "lock", !.key = k, !.resume = TRUE, !.seen = row[k]]]
    /\ calls' = calls + 1
    /\ UNCHANGED <<ledgerVars, storeVars, lock, faults>>

\* MemoryMutationLock.acquire; a held lock ends the call (MemoryMutationBusy)
Acquire(c) ==
    /\ at(c, "lock")
    /\ IF lock = None
       THEN /\ lock' = c
            /\ goto(c, IF call[c].resume THEN "applying" ELSE "begin")
       ELSE /\ call' = [call EXCEPT ![c] = IdleCall]
            /\ UNCHANGED lock
    /\ UNCHANGED <<ledgerVars, storeVars, envVars>>

begin_or_replay(c) ==
    /\ at(c, "begin")
    /\ LET k == call[c].key
       IN  IF row[k].status # "NONE"
           THEN goto(c, "unlock") /\ UNCHANGED row
           ELSE /\ set_fields(k, [NoRow EXCEPT
                       !.status = "PENDING", !.expected = call[c].expected,
                       !.stored = [s \in Stores |-> IF s \in targets THEN "PENDING" ELSE "NOT_REQUIRED"]])
                /\ goto(c, "decide")
    /\ UNCHANGED <<factVars, storeVars, lock, envVars>>

\* load_fact, evaluate_mutation and record_decision, which writes a row that no
\* other call changes before it is decided; a version the client did not expect
\* raises and leaves the row PENDING
Decide(c) ==
    /\ at(c, "decide")
    /\ LET k == call[c].key
       IN  \/ /\ call[c].expected # fact.version
              /\ goto(c, "unlock")
              /\ UNCHANGED row
           \/ /\ call[c].expected = fact.version
              /\ \E expired, stale \in BOOLEAN :
                    LET r == decided(row[k], evaluate_mutation(k, expired, stale))
                    IN  /\ set_fields(k, r)
                        /\ call' = [call EXCEPT ![c].pc = "evidence", ![c].seen = r]
    /\ UNCHANGED <<factVars, storeVars, lock, envVars>>

append_evidence(c) ==
    /\ at(c, "evidence")
    /\ evidence' = evidence \cup {call[c].key}
    /\ LET seen == call[c].seen
       IN  goto(c, CASE seen.decision \in Projecting -> "applying"
                     [] seen.decision = "CONFLICT_REVIEW" /\ seen.before = 0 -> "review"
                     [] OTHER -> "unlock")
    /\ UNCHANGED <<kind, fact, accepted, row, storeVars, lock, envVars>>

\* the evidence rows a mutation links to the fact
linked(k) == {k} \cap evidence

\* the fact as a mutation leaves it
written(k, version, status) ==
    [version |-> version, content |-> Command[k].content, confidence |-> Command[k].confidence,
     expires |-> Command[k].expires, status |-> status, last |-> k]

create_pending_review(c) ==
    /\ at(c, "review")
    /\ LET k == call[c].key
       IN  IF fact.version # 0
           THEN UNCHANGED <<fact, accepted>>
           ELSE /\ fact' = written(k, 1, "PENDING_REVIEW")
                /\ accepted' = accepted \cup linked(k)
    /\ goto(c, "unlock")
    /\ UNCHANGED <<kind, evidence, row, storeVars, lock, envVars>>

\* a resumed mutation without decision raises MemoryMutationValidationError
mark_applying(c) ==
    /\ at(c, "applying")
    /\ IF call[c].seen.decision = None
       THEN goto(c, "unlock") /\ UNCHANGED row
       ELSE /\ set_fields(call[c].key, [row[call[c].key] EXCEPT !.status = "APPLYING"])
            /\ call' = [call EXCEPT ![c].pc = IF call[c].resume THEN "probe" ELSE "stage", ![c].todo = targets]
    /\ UNCHANGED <<factVars, storeVars, lock, envVars>>

\* resume: a projection that is in the store is not staged again
Probe(c) ==
    /\ at(c, "probe")
    /\ \E status \in probe(call[c].key, target(c), call[c].seen.after) :
          IF status \in {"STAGED", "ACTIVE"}
          THEN call' = [call EXCEPT ![c].pc = "staged", ![c].found = status]
          ELSE goto(c, "stage")
    /\ UNCHANGED <<ledgerVars, storeVars, lock, envVars>>

\* A store operation succeeds, or fails for its caller: then it took effect,
\* did not, or does so later (asyncio.to_thread goes on after the timeout).
operation(c, op) == [op |-> op, key |-> call[c].key, store |-> target(c), version |-> call[c].seen.after]

succeeds(w) == proj' = performed(w) /\ UNCHANGED <<late, faults>>

fails(w) ==
    /\ faults.failed < MaxFaults
    /\ \/ /\ proj' \in {proj, performed(w)}
          /\ faults' = [faults EXCEPT !.failed = @ + 1]
          /\ UNCHANGED late
       \/ /\ faults.disturbed < MaxDisturbed
          /\ late' = late \cup {w}
          /\ faults' = [faults EXCEPT !.failed = @ + 1, !.disturbed = @ + 1]
          /\ UNCHANGED proj

Stage(c) ==
    /\ at(c, "stage")
    /\ \/ succeeds(operation(c, "stage")) /\ call' = [call EXCEPT ![c].pc = "staged", ![c].found = "STAGED"]
       \/ fails(operation(c, "stage")) /\ call' = [call EXCEPT ![c].pc = "staged", ![c].found = "FAILED"]
    /\ UNCHANGED <<ledgerVars, lock, calls>>

\* update_projection_status; a failure does not keep the other store from being staged
Staged(c) ==
    /\ at(c, "staged")
    /\ set_fields(call[c].key, [row[call[c].key] EXCEPT !.stored[target(c)] = call[c].found])
    /\ LET rest == call[c].todo \ {target(c)}
           failed == call[c].failed \/ call[c].found = "FAILED"
       IN  call' = [call EXCEPT
              ![c].todo = rest, ![c].failed = failed,
              ![c].pc = CASE rest # {} -> IF call[c].resume THEN "probe" ELSE "stage"
                          [] rest = {} -> IF failed THEN "partial" ELSE "finalize"]
    /\ UNCHANGED <<factVars, storeVars, lock, envVars>>

\* finalize_canonical: the mutation is the last one of the fact already, or
\* the fact is still the one it was decided on
author_unchecked(k, seen) == fact.version = seen.after
already_final(k, seen) == fact.last = k /\ fact.version = seen.after

before_unchecked(seen) == TRUE
before_matches(seen) == fact.version = seen.before

\* the version column counts the updates of the row
Finalize(c) ==
    /\ at(c, "finalize")
    /\ LET k == call[c].key
           seen == call[c].seen
           proceed == /\ set_fields(k, [row[k] EXCEPT !.status = "FINALIZING"])
                      /\ call' = [call EXCEPT ![c].pc = IF call[c].resume THEN "reprobe" ELSE "activate",
                                              ![c].todo = targets]
       IN  \/ /\ already_final(k, seen)
              /\ proceed
              /\ UNCHANGED <<fact, accepted>>
           \/ /\ ~already_final(k, seen) /\ before_matches(seen)
              /\ proceed
              /\ fact' = written(k, fact.version + 1, "ACTIVE")
              /\ accepted' = accepted \cup linked(k)
           \/ /\ ~already_final(k, seen) /\ ~before_matches(seen)
              /\ goto(c, "unlock")
              /\ UNCHANGED <<fact, accepted, row>>
    /\ UNCHANGED <<kind, evidence, storeVars, lock, envVars>>

\* the next store to activate, or the end of the call
activated(c, failed) ==
    LET rest == call[c].todo \ {target(c)}
    IN  call' = [call EXCEPT
           ![c].todo = rest, ![c].failed = failed,
           ![c].pc = CASE rest # {} -> IF call[c].resume THEN "reprobe" ELSE "activate"
                       [] rest = {} -> IF failed THEN "partial" ELSE "applied"]

\* resume: an ACTIVE projection is left alone, and so are the previous ones
Reprobe(c) ==
    /\ at(c, "reprobe")
    /\ \E status \in probe(call[c].key, target(c), call[c].seen.after) :
          IF status = "ACTIVE" THEN activated(c, call[c].failed) ELSE goto(c, "activate")
    /\ UNCHANGED <<ledgerVars, storeVars, lock, envVars>>

\* _activate_projection: activate, retire_previous, then the ledger
retire_first == <<"retire", "activate">>
activation == <<"activate", "retire">>

Activate(c) ==
    /\ at(c, "activate")
    /\ \/ succeeds(operation(c, activation[1])) /\ goto(c, "retire")
       \/ fails(operation(c, activation[1])) /\ activated(c, TRUE)
    /\ UNCHANGED <<ledgerVars, lock, calls>>

Retire(c) ==
    /\ at(c, "retire")
    /\ \/ succeeds(operation(c, activation[2])) /\ goto(c, "activated")
       \/ fails(operation(c, activation[2])) /\ activated(c, TRUE)
    /\ UNCHANGED <<ledgerVars, lock, calls>>

Activated(c) ==
    /\ at(c, "activated")
    /\ set_fields(call[c].key, [row[call[c].key] EXCEPT !.stored[target(c)] = "ACTIVE"])
    /\ activated(c, call[c].failed)
    /\ UNCHANGED <<factVars, storeVars, lock, envVars>>

mark_partial(c) ==
    /\ at(c, "partial")
    /\ set_fields(call[c].key, [row[call[c].key] EXCEPT !.status = "PARTIAL"])
    /\ goto(c, "unlock")
    /\ UNCHANGED <<factVars, storeVars, lock, envVars>>

\* MemoryProjectionIncomplete otherwise
may_be_applied(r) ==
    /\ \A s \in Stores : r.stored[s] \in {"NOT_REQUIRED", "ACTIVE"}
    /\ fact.version # 0 /\ fact.version = r.after

mark_applied(c) ==
    /\ at(c, "applied")
    /\ LET k == call[c].key
       IN  IF may_be_applied(row[k])
           THEN set_fields(k, [row[k] EXCEPT !.status = "APPLIED"])
           ELSE UNCHANGED row
    /\ goto(c, "unlock")
    /\ UNCHANGED <<factVars, storeVars, lock, envVars>>

\* MemoryMutationLock.release compares the token
Release(c) ==
    /\ at(c, "unlock")
    /\ lock' = IF lock = c THEN None ELSE lock
    /\ call' = [call EXCEPT ![c] = IdleCall]
    /\ UNCHANGED <<ledgerVars, storeVars, envVars>>

-----------------------------------------------------------------------------
(* Faults.                                                                  *)

\* the time of the call is over, or a step raises: the lock is released;
\* or the process dies and the lock stays
Abort(c) ==
    /\ call[c].pc \notin {"idle", "lock", "unlock"}
    /\ faults.failed < MaxFaults
    /\ faults' = [faults EXCEPT !.failed = @ + 1]
    /\ goto(c, "unlock") \/ call' = [call EXCEPT ![c] = IdleCall]
    /\ UNCHANGED <<ledgerVars, storeVars, lock, calls>>

LateWrite ==
    /\ \E w \in late : proj' = performed(w) /\ late' = late \ {w}
    /\ UNCHANGED <<ledgerVars, lock, call, envVars>>

\* the lock expires: of a call that is gone, or of one slower than its time to live
LockExpires ==
    /\ lock # None
    /\ \/ call[lock].pc \in {"idle", "lock"} /\ UNCHANGED faults
       \/ /\ call[lock].pc \notin {"idle", "lock"} /\ faults.disturbed < MaxDisturbed
          /\ faults' = [faults EXCEPT !.disturbed = @ + 1]
    /\ lock' = None
    /\ UNCHANGED <<ledgerVars, storeVars, call, calls>>

Step(c) ==
    \/ Acquire(c) \/ begin_or_replay(c) \/ Decide(c) \/ append_evidence(c) \/ create_pending_review(c)
    \/ mark_applying(c) \/ Probe(c) \/ Stage(c) \/ Staged(c) \/ Finalize(c) \/ Reprobe(c)
    \/ Activate(c) \/ Retire(c) \/ Activated(c) \/ mark_partial(c) \/ mark_applied(c) \/ Release(c)

Next ==
    \/ \E c \in Calls, k \in Keys, e \in 0..fact.version : Mutate(c, k, e)
    \/ \E c \in Calls, k \in Keys : Resume(c, k)
    \/ \E c \in Calls : Step(c) \/ Abort(c)
    \/ LateWrite
    \/ LockExpires

Spec == Init /\ [][Next]_vars

-----------------------------------------------------------------------------
(* Properties.                                                              *)

Projection ==
    [store : Stores, version : Versions, entity : Contents \cup {None}, key : Keys,
     status : {"STAGED", "ACTIVE", "RETIRED"}]

Row ==
    [status : MutationStatus, expected : Versions, before : Versions, after : Versions,
     decision : Projecting \cup {"NOOP", "REJECT", "CONFLICT_REVIEW", None},
     stored : [Stores -> {"NOT_REQUIRED", "PENDING", "STAGED", "ACTIVE", "FAILED"}]]

\* The types of the state; rows, projections and late writes are well formed.
TypeOK ==
    /\ kind \in Kinds
    /\ fact.version \in Versions /\ fact.last \in Keys \cup {None}
    /\ fact.status \in {"NONE", "ACTIVE", "PENDING_REVIEW"}
    /\ row \in [Keys -> Row]
    /\ accepted \subseteq evidence /\ evidence \subseteq Keys
    /\ proj \subseteq Projection
    /\ lock \in Calls \cup {None}
    /\ \A c \in Calls : call[c].todo \subseteq targets /\ call[c].seen \in Row

\* no live call lost its lock and no store operation outlived its call
undisturbed == faults.disturbed = 0

\* a mutation that MySQL has as the author of its version
finalized(k) == row[k].decision \in Projecting /\ row[k].status \in {"FINALIZING", "APPLIED"}

\* A version of the fact has one author: no two mutations are FINALIZING or
\* APPLIED for the same version, and the fact names the one that wrote the
\* version it has (finalize_canonical under retries, resumes and lost locks).
OneAuthorPerVersion ==
    /\ \A k \in Keys : finalized(k) =>
          /\ row[k].after <= fact.version
          /\ row[k].after = fact.version => fact.last = k
    /\ \A j, k \in Keys : finalized(j) /\ finalized(k) /\ row[j].after = row[k].after => j = k

\* The fact advances by one version at a time, and only to a mutation that
\* was decided on the version it replaces (a late finalize_canonical of a
\* mutation decided on an older version must be refused).
FactAdvances ==
    [][fact' # fact =>
          /\ fact'.version = fact.version + 1
          /\ row[fact'.last].before = fact.version]_vars

\* Nothing becomes searchable before MySQL has it: an ACTIVE projection never
\* is of a version the fact has not reached, and the projection that shows the
\* present version at its author's entity is the author's.  (An ATTRIBUTE edge
\* to another value, left STAGED by a mutation that failed, has the same
\* projection_id: Neo4jMemoryProjection.activate shows it as well.)
VisibleIsCanonical ==
    \A p \in proj : p.status = "ACTIVE" =>
        /\ p.version <= fact.version
        /\ undisturbed /\ p.version = fact.version /\ p.entity = entity(fact.last, p.store) =>
              p.key = fact.last

\* the last step of a call of mutate, which has retired the older projections itself
first_pass(k) == \E c \in Calls : call[c].key = k /\ at(c, "applied") /\ ~call[c].resume

\* mark_applied speaks the truth: when a mutation is recorded as APPLIED the
\* fact is at its version and every required store shows its projection,
\* whatever failed before and however often it was resumed; and when mutate
\* records it, no older projection is visible, whatever earlier mutations left
\* behind.  (resume_mutation skips the retirement of a store it finds ACTIVE.)
AppliedWhenVisible ==
    [][\A k \in Keys :
          /\ undisturbed
          /\ row[k].status # "APPLIED" /\ row'[k].status = "APPLIED" /\ row'[k].decision \in Projecting
          => /\ fact.last = k /\ fact.version = row[k].after
             /\ \A s \in targets : \E p \in proj :
                    p.store = s /\ p.key = k /\ p.version = fact.version /\ p.status = "ACTIVE"
             /\ first_pass(k) => \A p \in proj :
                    p.store \in targets /\ p.status = "ACTIVE" => p.version = fact.version]_vars

\* A projection is retired only when its store shows a newer one: a search
\* never finds a gap between retire_previous and activate.
RetiredWhenReplaced ==
    [][\A p \in proj :
          undisturbed /\ p.status = "ACTIVE" /\ [p EXCEPT !.status = "RETIRED"] \in proj' =>
              \E q \in proj : q.store = p.store /\ q.version > p.version /\ q.status = "ACTIVE"]_vars
=============================================================================
