------------------------ MODULE SharedMemory_proofs -------------------------
(***************************************************************************)
(* TLAPS proofs about the controlled changes of a shared-memory fact: the  *)
(* five properties of SharedMemory, for every set of keys and calls, every *)
(* policy and any number of calls, failed operations and lost locks.       *)
(***************************************************************************)
EXTENDS SharedMemory, TLAPS

\* The steps of a call, by what the call has done already.
StagePcs == {"probe", "stage", "staged"}
ActivatePcs == {"reprobe", "activate", "retire", "activated"}
FinalPcs == ActivatePcs \cup {"applied"}
ApplyPcs == StagePcs \cup FinalPcs \cup {"finalize", "partial"}
Pcs == ApplyPcs \cup {"idle", "lock", "begin", "decide", "evidence", "review", "applying", "unlock"}

Decisions == Projecting \cup {"NOOP", "REJECT", "CONFLICT_REVIEW"}

RowState ==
    [status : MutationStatus, expected : Nat, decision : Decisions \cup {None}, before : Nat, after : Nat,
     stored : [Stores -> {"NOT_REQUIRED", "PENDING", "STAGED", "ACTIVE", "FAILED"}]]

ProjectionState ==
    [store : Stores, version : Nat, entity : Contents \cup {None}, key : Keys,
     status : {"STAGED", "ACTIVE", "RETIRED"}]

OperationState == [op : {"stage", "activate", "retire"}, key : Keys, store : Stores, version : Nat]

CallState ==
    [pc : Pcs, key : Keys \cup {None}, expected : Nat, resume : BOOLEAN, seen : RowState,
     todo : SUBSET Stores, found : {"STAGED", "ACTIVE", "FAILED", None}, failed : BOOLEAN]

\* What holds of the local state x of a call: one that does something has a
\* key, one that works on stores has a store to work on, one that has staged or
\* activated everything has none left, and only a resumed one looks for ACTIVE.
CallOK(x) ==
    /\ x.pc # "idle" => x.key \in Keys
    /\ x.todo \subseteq targets
    /\ x.pc \in StagePcs \cup ActivatePcs => x.todo # {}
    /\ x.pc = "staged" => x.found # None
    /\ x.pc \in {"finalize", "applied"} => x.todo = {} /\ ~x.failed
    /\ x.pc = "reprobe" => x.resume

CallsOK ==
    /\ call \in [Calls -> CallState]
    /\ \A c \in Calls : CallOK(call[c])

\* The types of the state, with versions unbounded.
TypeInv ==
    /\ kind \in Kinds
    /\ fact.version \in Nat
    /\ row \in [Keys -> RowState]
    /\ late \subseteq OperationState
    /\ lock \in Calls \cup {None}
    /\ faults \in [failed : Nat, disturbed : Nat]
    /\ CallsOK

\* A row is decided once, by the call that created it.
RowInv ==
    \A k \in Keys :
        /\ row[k].status = "NONE" => row[k].decision = None
        /\ row[k].decision \in Projecting => row[k].after = row[k].before + 1
        /\ row[k].status = "PENDING" => row[k].decision \in Projecting \cup {None}
        /\ row[k].status \in {"APPLYING", "FINALIZING", "PARTIAL"} => row[k].decision \in Projecting
        /\ row[k].status = "APPLIED" => row[k].decision # None

DecideInv ==
    \A c \in Calls : call[c].pc = "decide" =>
        /\ row[call[c].key].status # "NONE" /\ row[call[c].key].decision = None
        /\ \A d \in Calls : call[d].pc = "decide" /\ call[d].key = call[c].key => d = c

\* What a call remembers of a decided row is what the row says.
SameDecision(r, seen) ==
    seen.decision # None => r.decision = seen.decision /\ r.before = seen.before /\ r.after = seen.after

SeenOK(x) ==
    /\ x.pc # "idle" => SameDecision(row[x.key], x.seen)
    /\ x.pc = "lock" /\ x.resume => x.seen.decision \in Projecting \cup {None}
    /\ x.pc \in ApplyPcs => x.seen.decision \in Projecting
    /\ x.pc = "applying" => x.seen.decision \in Projecting \cup {None}
    /\ x.pc = "evidence" => x.seen.decision # None
    /\ x.pc = "review" => x.seen.decision = "CONFLICT_REVIEW" /\ x.seen.before = 0

LedgerInv == RowInv /\ DecideInv /\ \A c \in Calls : SeenOK(call[c])

\* The fact has reached version v, and k wrote it if it is the present one.
Reached(k, v) == v <= fact.version /\ (v = fact.version => fact.last = k)

FinalInv ==
    /\ \A c \in Calls : call[c].pc \in FinalPcs => Reached(call[c].key, call[c].seen.after)
    /\ OneAuthorPerVersion

\* What the fact has reached it does not lose.
LEMMA ReachedStays ==
    ASSUME fact.version \in Nat, NEW k, NEW v \in Nat, Reached(k, v),
           fact' = fact \/ fact'.version = fact.version + 1
    PROVE  Reached(k, v)'
BY DEF Reached

\* A store holds one projection of a version, or of a version and a value.
WellStored(S) ==
    /\ S \subseteq ProjectionState
    /\ \A p \in S : p.entity = entity(p.key, p.store)
    /\ \A p, q \in S : p.store = q.store /\ p.version = q.version /\ p.entity = q.entity => p = q

\* What is searchable, or is about to be, is of a version the fact has reached.
StoreInv ==
    /\ WellStored(proj)
    /\ \A p \in proj : p.status = "ACTIVE" => p.version <= fact.version
    /\ \A w \in late : w.op = "activate" => w.version <= fact.version

\* Nobody but the holder of the lock works on the fact.
LockInv ==
    undisturbed =>
        /\ late = {}
        /\ \A c \in Calls : call[c].pc \notin {"idle", "lock"} => lock = c

\* S holds, or shows, the projection of version v by mutation k in store s.
Holds(S, k, s, v) == \E p \in S : p.store = s /\ p.key = k /\ p.version = v
Shows(S, k, s, v) == \E p \in S : p.store = s /\ p.key = k /\ p.version = v /\ p.status = "ACTIVE"

\* The store a call with these stores to do works on.
NextOf(todo) == IF "VECTOR" \in todo THEN "VECTOR" ELSE "GRAPH"

\* What the projections S hold of the mutation the call x is applying.
Progress(x, S) ==
    LET k == x.key
        v == x.seen.after
    IN  /\ x.pc \in StagePcs \cup {"finalize"} /\ ~x.failed => \A s \in targets \ x.todo : Holds(S, k, s, v)
        /\ x.pc = "staged" /\ x.found # "FAILED" => Holds(S, k, NextOf(x.todo), v)
        /\ x.pc \in FinalPcs => \A s \in targets : Holds(S, k, s, v)
        /\ x.pc \in FinalPcs /\ ~x.failed => \A s \in targets \ x.todo : Shows(S, k, s, v)
        /\ x.pc \in {"retire", "activated"} => Shows(S, k, NextOf(x.todo), v)

ProgressInv == undisturbed => \A c \in Calls : Progress(call[c], proj)

\* S shows no version before v in store s.
Clear(S, s, v) == \A p \in S : p.store = s /\ p.status = "ACTIVE" => v <= p.version

\* What a call of mutate has retired in the projections S.
Cleared(x, S) ==
    ~x.resume =>
        /\ x.pc \in FinalPcs /\ ~x.failed => \A s \in targets \ x.todo : Clear(S, s, x.seen.after)
        /\ x.pc = "activated" => Clear(S, NextOf(x.todo), x.seen.after)

ClearInv == undisturbed => \A c \in Calls : Cleared(call[c], proj)

MemoryInv ==
    /\ TypeInv /\ LedgerInv /\ FinalInv
    /\ StoreInv /\ LockInv /\ ProgressInv /\ ClearInv /\ VisibleIsCanonical

USE MemoryAssumption

\* A kind of fact has stores.
LEMMA Targets == kind \in Kinds => targets \subseteq Stores /\ targets # {}
BY Zenon DEF targets, Stores

\* The local state of one call.
LEMMA CallTyped ==
    ASSUME TypeInv, NEW c \in Calls
    PROVE  call[c] \in CallState /\ CallOK(call[c])
BY Zenon DEF TypeInv, CallsOK

\* One call moves to x.
LEMMA CallMove ==
    ASSUME TypeInv, UNCHANGED kind, NEW c \in Calls, NEW x \in CallState, CallOK(x),
           call' = [call EXCEPT ![c] = x]
    PROVE  CallsOK' /\ \A d \in Calls : call'[d] = IF d = c THEN x ELSE call[d]
<1>1. targets' = targets
  BY Zenon DEF targets
<1>2. call' \in [Calls -> CallState] /\ \A d \in Calls : call'[d] = IF d = c THEN x ELSE call[d]
  BY Zenon DEF TypeInv, CallsOK
<1>3. ASSUME NEW d \in Calls PROVE CallOK(call[d])'
  BY <1>1, <1>2, CallTyped, Zenon DEF CallOK
<1> QED BY <1>2, <1>3, Zenon DEF CallsOK

\* A store a call works on is one it has to do.
LEMMA TargetOK ==
    ASSUME TypeInv, NEW c \in Calls, call[c].todo # {}
    PROVE  target(c) \in call[c].todo /\ target(c) \in Stores /\ target(c) \in targets
<1>1. call[c].todo \subseteq targets /\ call[c].todo \subseteq Stores
  BY CallTyped, Targets, Zenon DEF CallOK, TypeInv
<1> QED BY <1>1, Zenon DEF target, Stores

\* A step of c leaves the other calls alone, and c with its key and the row it read.
Others(c) == \A d \in Calls : d # c => call'[d] = call[d]
Keeps(c) ==
    /\ call'[c].key = call[c].key /\ call'[c].seen = call[c].seen
    /\ call'[c].resume = call[c].resume /\ call'[c].expected = call[c].expected

\* Going to another step of the call.
LEMMA GotoMove ==
    ASSUME TypeInv, UNCHANGED kind, NEW c \in Calls, NEW pc \in Pcs, goto(c, pc),
           call[c].pc # "idle",
           pc \in StagePcs \cup ActivatePcs => call[c].todo # {},
           pc \notin {"staged", "finalize", "applied", "reprobe"}
    PROVE  /\ CallsOK' /\ Others(c) /\ Keeps(c) /\ call'[c].pc = pc
           /\ call'[c].todo = call[c].todo /\ call'[c].failed = call[c].failed
<1> DEFINE x == [call[c] EXCEPT !.pc = pc]
<1>1. /\ x \in CallState /\ x.pc = pc /\ x.key = call[c].key /\ x.todo = call[c].todo
      /\ x.seen = call[c].seen /\ x.resume = call[c].resume /\ x.failed = call[c].failed
      /\ x.expected = call[c].expected
  BY CallTyped DEF CallState
<1>2. call' = [call EXCEPT ![c] = x]
  BY Zenon DEF goto
<1>3. CallOK(x)
  BY <1>1, CallTyped, Zenon DEF CallOK
<1> HIDE DEF x
<1>4. CallsOK' /\ \A d \in Calls : call'[d] = IF d = c THEN x ELSE call[d]
  BY <1>1, <1>2, <1>3, CallMove, Zenon
<1> QED BY <1>1, <1>4, Zenon DEF Others, Keeps

\* A call that has ended is well formed, and so is a row that is not there.
LEMMA IdleTyped == NoRow \in RowState /\ IdleCall \in CallState /\ CallOK(IdleCall)
<1>1. NoRow \in RowState
  BY Zenon DEF NoRow, RowState, MutationStatus, Decisions
<1>2. IdleCall \in CallState
  BY <1>1, Zenon DEF IdleCall, CallState, Pcs
<1> QED BY <1>1, <1>2, Zenon DEF IdleCall, CallOK, StagePcs, ActivatePcs

\* One row of the ledger is written.
LEMMA RowMove ==
    ASSUME TypeInv, NEW k \in Keys, NEW r \in RowState, set_fields(k, r)
    PROVE  /\ row' \in [Keys -> RowState]
           /\ \A j \in Keys : row'[j] = IF j = k THEN r ELSE row[j]
BY Zenon DEF TypeInv, set_fields

\* The policy decides, and a decided row is well formed.
LEMMA DecidedTyped ==
    ASSUME TypeInv, NEW k \in Keys, NEW expired \in BOOLEAN, NEW stale \in BOOLEAN
    PROVE  LET d == evaluate_mutation(k, expired, stale)
               r == decided(row[k], d)
           IN  /\ d \in Decisions
               /\ r \in RowState /\ r.decision = d /\ r.before = fact.version
               /\ r.after = IF d \in Projecting THEN fact.version + 1 ELSE fact.version
               /\ d \in Projecting => r.status = row[k].status
               /\ d \notin Projecting => r.status \in {"APPLIED", "REJECTED", "CONFLICT"}
<1> DEFINE d == evaluate_mutation(k, expired, stale)
           r == decided(row[k], d)
<1>1. d \in Decisions
  BY Zenon DEF evaluate_mutation, Decisions, Projecting
<1>2. row[k] \in RowState /\ fact.version \in Nat
  BY Zenon DEF TypeInv
<1> HIDE DEF d
<1> DEFINE n == IF d \in Projecting THEN fact.version + 1 ELSE fact.version
           st == CASE d = "NOOP" -> "APPLIED"
                   [] d = "REJECT" -> "REJECTED"
                   [] d = "CONFLICT_REVIEW" -> "CONFLICT"
                   [] d \in Projecting -> row[k].status
           sd == IF d \in Projecting THEN row[k].stored ELSE [s \in Stores |-> "NOT_REQUIRED"]
<1>3. n \in Nat
  BY <1>2
<1>4. /\ st \in MutationStatus
      /\ d \in Projecting => st = row[k].status
      /\ d \notin Projecting => st \in {"APPLIED", "REJECTED", "CONFLICT"}
  BY <1>1, <1>2, Zenon DEF Decisions, Projecting, MutationStatus, RowState
<1>5. sd \in [Stores -> {"NOT_REQUIRED", "PENDING", "STAGED", "ACTIVE", "FAILED"}]
  BY <1>2, Zenon DEF RowState
<1>6. r = [row[k] EXCEPT !.decision = d, !.before = fact.version, !.after = n, !.status = st, !.stored = sd]
  BY Zenon DEF decided
<1> HIDE DEF n, st, sd, r
<1>7. r \in RowState /\ r.decision = d /\ r.before = fact.version /\ r.after = n /\ r.status = st
  BY <1>1, <1>2, <1>3, <1>4, <1>5, <1>6, Zenon DEF RowState
<1> QED BY <1>1, <1>4, <1>7, Zenon DEF d, n, r


\* A call ends.
LEMMA EndMove ==
    ASSUME TypeInv, UNCHANGED kind, NEW c \in Calls, call' = [call EXCEPT ![c] = IdleCall]
    PROVE  CallsOK' /\ Others(c) /\ call'[c] = IdleCall
BY IdleTyped, CallMove, ZenonT(60) DEF Others

\* A client makes a call.
LEMMA MutateMove ==
    ASSUME TypeInv, NEW c \in Calls, NEW k \in Keys, NEW e \in Nat, Mutate(c, k, e)
    PROVE  /\ CallsOK' /\ Others(c)
           /\ call'[c].pc = "lock" /\ call'[c].key = k /\ call'[c].seen = NoRow /\ call'[c].resume = FALSE
<1> DEFINE x == [IdleCall EXCEPT !.pc = "lock", !.key = k, !.expected = e]
<1>1. /\ x \in CallState /\ x.pc = "lock" /\ x.key = k /\ x.seen = NoRow /\ x.resume = FALSE
      /\ x.todo = {} /\ call' = [call EXCEPT ![c] = x] /\ UNCHANGED kind
  BY IdleTyped, Zenon DEF Mutate, IdleCall, CallState, Pcs, ledgerVars, factVars
<1>2. CallOK(x)
  BY <1>1, Zenon DEF CallOK, StagePcs, ActivatePcs
<1> HIDE DEF x
<1>3. CallsOK' /\ \A d \in Calls : call'[d] = IF d = c THEN x ELSE call[d]
  BY <1>1, <1>2, CallMove, ZenonT(60)
<1> QED BY <1>1, <1>3, Zenon DEF Others

\* A mutation is resumed.
LEMMA ResumeMove ==
    ASSUME TypeInv, NEW c \in Calls, NEW k \in Keys, Resume(c, k)
    PROVE  /\ CallsOK' /\ Others(c)
           /\ call'[c].pc = "lock" /\ call'[c].key = k /\ call'[c].seen = row[k] /\ call'[c].resume = TRUE
<1> DEFINE x == [IdleCall EXCEPT !.pc = "lock", !.key = k, !.resume = TRUE, !.seen = row[k]]
<1>0. row[k] \in RowState
  BY Zenon DEF TypeInv
<1>1. /\ x \in CallState /\ x.pc = "lock" /\ x.key = k /\ x.seen = row[k] /\ x.resume = TRUE
      /\ x.todo = {} /\ call' = [call EXCEPT ![c] = x] /\ UNCHANGED kind
  BY <1>0, IdleTyped, Zenon DEF Resume, IdleCall, CallState, Pcs, ledgerVars, factVars
<1>2. CallOK(x)
  BY <1>1, Zenon DEF CallOK, StagePcs, ActivatePcs
<1> HIDE DEF x
<1>3. CallsOK' /\ \A d \in Calls : call'[d] = IF d = c THEN x ELSE call[d]
  BY <1>1, <1>2, CallMove, ZenonT(60)
<1> QED BY <1>1, <1>3, Zenon DEF Others

\* A call takes the lock or finds it held.
LEMMA AcquireMove ==
    ASSUME TypeInv, NEW c \in Calls, Acquire(c)
    PROVE  /\ CallsOK' /\ Others(c)
           /\ \/ lock = None /\ lock' = c /\ Keeps(c) /\ call'[c].pc = IF call[c].resume THEN "applying" ELSE "begin"
              \/ UNCHANGED lock /\ call'[c] = IdleCall
<1>0. call[c].pc = "lock" /\ UNCHANGED kind
  BY Zenon DEF Acquire, at, ledgerVars, factVars
<1>1. CASE lock = None
  <2>1. PICK pc \in {"applying", "begin"} : goto(c, pc) /\ pc = (IF call[c].resume THEN "applying" ELSE "begin") /\ lock' = c
    BY <1>1, Zenon DEF Acquire
  <2>2. pc \in Pcs /\ pc \notin StagePcs \cup ActivatePcs
    BY Zenon DEF Pcs, StagePcs, ActivatePcs
  <2> QED BY <1>0, <1>1, <2>1, <2>2, GotoMove, Zenon
<1>2. CASE lock # None
  BY <1>0, <1>2, EndMove, Zenon DEF Acquire
<1> QED BY <1>1, <1>2, Zenon

\* The row of a new mutation.
LEMMA BeginMove ==
    ASSUME TypeInv, NEW c \in Calls, begin_or_replay(c)
    PROVE  /\ CallsOK' /\ Others(c) /\ Keeps(c) /\ call[c].key \in Keys /\ row' \in [Keys -> RowState]
           /\ \/ call'[c].pc = "unlock" /\ UNCHANGED row
              \/ /\ call'[c].pc = "decide"
                 /\ row[call[c].key].status = "NONE"
                 /\ row'[call[c].key].status = "PENDING" /\ row'[call[c].key].decision = None
                 /\ \A j \in Keys : j # call[c].key => row'[j] = row[j]
<1> DEFINE k == call[c].key
           r == [NoRow EXCEPT !.status = "PENDING", !.expected = call[c].expected,
                    !.stored = [s \in Stores |-> IF s \in targets THEN "PENDING" ELSE "NOT_REQUIRED"]]
<1>0. call[c].pc = "begin" /\ UNCHANGED kind /\ k \in Keys /\ row \in [Keys -> RowState]
  BY CallTyped, Zenon DEF begin_or_replay, at, factVars, CallOK, TypeInv
<1>1. r \in RowState /\ r.status = "PENDING" /\ r.decision = None
  BY CallTyped, Zenon DEF NoRow, RowState, MutationStatus, CallState, Decisions
<1>2. {"unlock", "decide"} \subseteq Pcs /\ {"unlock", "decide"} \cap (StagePcs \cup ActivatePcs) = {}
  BY Zenon DEF Pcs, StagePcs, ActivatePcs
<1>3. CASE row[k].status # "NONE"
  <2>1. goto(c, "unlock") /\ UNCHANGED row
    BY <1>3, Zenon DEF begin_or_replay
  <2> QED BY <1>0, <1>2, <2>1, GotoMove, Zenon
<1>4. CASE row[k].status = "NONE"
  <2>1. goto(c, "decide") /\ set_fields(k, r)
    BY <1>4, Zenon DEF begin_or_replay
  <2> HIDE DEF r
  <2>2. row' \in [Keys -> RowState] /\ \A j \in Keys : row'[j] = IF j = k THEN r ELSE row[j]
    BY <1>0, <1>1, <2>1, RowMove
  <2>3. CallsOK' /\ Others(c) /\ Keeps(c) /\ call'[c].pc = "decide"
    BY <1>0, <1>2, <2>1, GotoMove
  <2> QED BY <1>0, <1>1, <1>4, <2>2, <2>3, Zenon
<1> QED BY <1>3, <1>4, Zenon


\* A decided row is written without touching the decision.
RowKeeps(k, status) ==
    /\ row' \in [Keys -> RowState]
    /\ row'[k].status = status /\ row'[k].decision = row[k].decision
    /\ row'[k].before = row[k].before /\ row'[k].after = row[k].after
    /\ \A j \in Keys : j # k => row'[j] = row[j]

\* Writing the status of a row.
LEMMA StatusMove ==
    ASSUME TypeInv, NEW k \in Keys, NEW status \in MutationStatus,
           set_fields(k, [row[k] EXCEPT !.status = status])
    PROVE  RowKeeps(k, status)
<1> DEFINE r == [row[k] EXCEPT !.status = status]
<1>1. /\ r \in RowState /\ r.status = status /\ r.decision = row[k].decision
      /\ r.before = row[k].before /\ r.after = row[k].after
  BY DEF TypeInv, RowState
<1> HIDE DEF r
<1>2. row' \in [Keys -> RowState] /\ \A j \in Keys : row'[j] = IF j = k THEN r ELSE row[j]
  BY <1>1, RowMove, Zenon DEF r
<1> QED BY <1>1, <1>2, Zenon DEF RowKeeps

\* Writing how far a store is.
LEMMA StoredMove ==
    ASSUME TypeInv, NEW k \in Keys, NEW s \in Stores, NEW f \in {"STAGED", "ACTIVE", "FAILED"},
           set_fields(k, [row[k] EXCEPT !.stored[s] = f])
    PROVE  RowKeeps(k, row[k].status)
<1> DEFINE r == [row[k] EXCEPT !.stored[s] = f]
<1>1. /\ r \in RowState /\ r.status = row[k].status /\ r.decision = row[k].decision
      /\ r.before = row[k].before /\ r.after = row[k].after
  BY SMTT(30) DEF TypeInv, RowState
<1> HIDE DEF r
<1>2. row' \in [Keys -> RowState] /\ \A j \in Keys : row'[j] = IF j = k THEN r ELSE row[j]
  BY <1>1, RowMove, Zenon DEF r
<1> QED BY <1>1, <1>2, Zenon DEF RowKeeps

\* The decision is written into the row and remembered by the call.
LEMMA DecideMove ==
    ASSUME TypeInv, NEW c \in Calls, Decide(c)
    PROVE  LET k == call[c].key
           IN  /\ CallsOK' /\ Others(c) /\ k \in Keys
               /\ call'[c].key = k /\ call'[c].resume = call[c].resume
               /\ \/ call'[c].pc = "unlock" /\ Keeps(c) /\ UNCHANGED row
                  \/ /\ call'[c].pc = "evidence" /\ call'[c].seen = row'[k]
                     /\ row' \in [Keys -> RowState] /\ \A j \in Keys : j # k => row'[j] = row[j]
                     /\ row'[k].decision \in Decisions /\ row'[k].before = fact.version
                     /\ row'[k].decision \in Projecting =>
                           row'[k].after = fact.version + 1 /\ row'[k].status = row[k].status
                     /\ row'[k].decision \notin Projecting => row'[k].status \in {"APPLIED", "REJECTED", "CONFLICT"}
<1> DEFINE k == call[c].key
<1>0. call[c].pc = "decide" /\ UNCHANGED kind /\ k \in Keys
  BY CallTyped, Zenon DEF Decide, at, factVars, CallOK
<1>1. CASE call[c].expected # fact.version
  <2>1. goto(c, "unlock") /\ UNCHANGED row
    BY <1>1, Zenon DEF Decide
  <2>2. "unlock" \in Pcs /\ "unlock" \notin StagePcs \cup ActivatePcs
    BY Zenon DEF Pcs, StagePcs, ActivatePcs
  <2>3. CallsOK' /\ Others(c) /\ Keeps(c) /\ call'[c].pc = "unlock"
    BY <1>0, <2>1, <2>2, GotoMove, Zenon
  <2> QED BY <1>0, <2>1, <2>3, Zenon DEF Keeps
<1>2. CASE call[c].expected = fact.version
  <2>1. PICK expired, stale \in BOOLEAN :
           LET r == decided(row[k], evaluate_mutation(k, expired, stale))
           IN  set_fields(k, r) /\ call' = [call EXCEPT ![c].pc = "evidence", ![c].seen = r]
    BY <1>2, Zenon DEF Decide
  <2> DEFINE d == evaluate_mutation(k, expired, stale)
             r == decided(row[k], d)
             x == [call[c] EXCEPT !.pc = "evidence", !.seen = r]
  <2>2. /\ d \in Decisions
        /\ r \in RowState /\ r.decision = d /\ r.before = fact.version
        /\ r.after = IF d \in Projecting THEN fact.version + 1 ELSE fact.version
        /\ d \in Projecting => r.status = row[k].status
        /\ d \notin Projecting => r.status \in {"APPLIED", "REJECTED", "CONFLICT"}
    BY <1>0, DecidedTyped
  <2>3. set_fields(k, r) /\ call' = [call EXCEPT ![c] = x]
    BY <2>1, Zenon
  <2> HIDE DEF d, r
  <2>0. "evidence" \in Pcs /\ call[c] \in CallState
    BY CallTyped, Zenon DEF Pcs
  <2>4. /\ x \in CallState /\ x.pc = "evidence" /\ x.seen = r /\ x.key = k /\ x.resume = call[c].resume
        /\ x.todo = call[c].todo
    BY <2>0, <2>2, Zenon DEF CallState
  <2> HIDE DEF x
  <2>5. CallOK(x)
    BY <1>0, <2>4, CallTyped, Zenon DEF CallOK, StagePcs, ActivatePcs
  <2>6. CallsOK' /\ \A e \in Calls : call'[e] = IF e = c THEN x ELSE call[e]
    BY <1>0, <2>3, <2>4, <2>5, CallMove, ZenonT(60)
  <2>7. row' \in [Keys -> RowState] /\ \A j \in Keys : row'[j] = IF j = k THEN r ELSE row[j]
    BY <1>0, <2>2, <2>3, RowMove
  <2>8. /\ row'[k] = r /\ call'[c] = x /\ Others(c) /\ \A j \in Keys : j # k => row'[j] = row[j]
    BY <1>0, <2>6, <2>7, Zenon DEF Others
  <2> QED BY <1>0, <2>2, <2>4, <2>6, <2>7, <2>8, Zenon
<1> QED BY <1>1, <1>2, Zenon

\* After the evidence a mutation is applied, reviewed or done.
LEMMA EvidenceMove ==
    ASSUME TypeInv, NEW c \in Calls, append_evidence(c)
    PROVE  /\ CallsOK' /\ Others(c) /\ Keeps(c)
           /\ \/ call'[c].pc = "applying" /\ call[c].seen.decision \in Projecting
              \/ call'[c].pc = "review" /\ call[c].seen.decision = "CONFLICT_REVIEW" /\ call[c].seen.before = 0
              \/ call'[c].pc = "unlock"
<1>0. call[c].pc = "evidence" /\ UNCHANGED kind
  BY Zenon DEF append_evidence, at
<1>1. PICK pc \in {"applying", "review", "unlock"} :
         /\ goto(c, pc)
         /\ pc = "applying" => call[c].seen.decision \in Projecting
         /\ pc = "review" => call[c].seen.decision = "CONFLICT_REVIEW" /\ call[c].seen.before = 0
  BY Zenon DEF append_evidence
<1>2. pc \in Pcs /\ pc \notin StagePcs \cup ActivatePcs /\ pc \notin {"staged", "finalize", "applied"}
  BY Zenon DEF Pcs, StagePcs, ActivatePcs
<1> QED BY <1>0, <1>1, <1>2, GotoMove


\* Steps are distinct where it matters.
LEMMA Steps ==
    /\ ApplyPcs \subseteq Pcs /\ StagePcs \subseteq ApplyPcs /\ FinalPcs \subseteq ApplyPcs /\ ActivatePcs \subseteq FinalPcs
    /\ {"finalize", "partial"} \subseteq ApplyPcs /\ "applied" \in FinalPcs
    /\ {"probe", "stage", "staged"} = StagePcs /\ {"reprobe", "activate", "retire", "activated"} = ActivatePcs
    /\ {"idle", "lock", "begin", "decide", "evidence", "review", "applying", "unlock"} \subseteq Pcs
    /\ {"idle", "lock", "begin", "decide", "evidence", "review", "applying", "unlock"} \cap ApplyPcs = {}
    /\ {"finalize", "applied", "partial"} \cap (StagePcs \cup ActivatePcs) = {}
    /\ (StagePcs \cup {"finalize", "partial"}) \cap FinalPcs = {}
BY Zenon DEF Pcs, ApplyPcs, StagePcs, FinalPcs, ActivatePcs

\* A call goes on with the same mutation.
LEMMA WorkMove ==
    ASSUME TypeInv, UNCHANGED kind, NEW c \in Calls, NEW x \in CallState, CallOK(x),
           call' = [call EXCEPT ![c] = x], x.key = call[c].key, x.seen = call[c].seen,
           x.resume = call[c].resume, x.expected = call[c].expected
    PROVE  CallsOK' /\ Others(c) /\ Keeps(c) /\ call'[c] = x
<1>1. CallsOK' /\ \A d \in Calls : call'[d] = IF d = c THEN x ELSE call[d]
  BY CallMove, Zenon
<1> QED BY <1>1, Zenon DEF Others, Keeps

\* The row is marked APPLYING and the stores are gone through.
LEMMA ApplyingMove ==
    ASSUME TypeInv, NEW c \in Calls, mark_applying(c)
    PROVE  /\ CallsOK' /\ Others(c) /\ Keeps(c) /\ call[c].key \in Keys
           /\ \/ call'[c].pc = "unlock" /\ UNCHANGED row
              \/ /\ call[c].seen.decision # None
                 /\ RowKeeps(call[c].key, "APPLYING")
                 /\ call'[c].pc \in {"probe", "stage"} /\ call'[c].todo = targets
<1> DEFINE k == call[c].key
<1>0. call[c].pc = "applying" /\ UNCHANGED kind /\ k \in Keys
  BY CallTyped, Zenon DEF mark_applying, at, factVars, CallOK
<1>1. CASE call[c].seen.decision = None
  <2>1. goto(c, "unlock") /\ UNCHANGED row
    BY <1>1, Zenon DEF mark_applying
  <2> QED BY <1>0, <2>1, Steps, GotoMove, Zenon
<1>2. CASE call[c].seen.decision # None
  <2> DEFINE pc == IF call[c].resume THEN "probe" ELSE "stage"
             x == [call[c] EXCEPT !.pc = pc, !.todo = targets]
  <2>1. set_fields(k, [row[k] EXCEPT !.status = "APPLYING"]) /\ call' = [call EXCEPT ![c] = x]
    BY <1>2, Zenon DEF mark_applying
  <2>2. pc \in {"probe", "stage"} /\ pc \in Pcs
    BY Zenon DEF Pcs, ApplyPcs, StagePcs
  <2> HIDE DEF pc
  <2>3. targets \subseteq Stores /\ targets # {}
    BY Targets, Zenon DEF TypeInv
  <2>4. /\ x \in CallState /\ x.pc = pc /\ x.todo = targets /\ x.key = k /\ x.seen = call[c].seen
        /\ x.resume = call[c].resume /\ x.expected = call[c].expected
    BY <2>2, <2>3, CallTyped, ZenonT(60) DEF CallState
  <2> HIDE DEF x
  <2>5. CallOK(x)
    BY <1>0, <2>2, <2>3, <2>4, CallTyped, Zenon DEF CallOK
  <2>6. CallsOK' /\ Others(c) /\ Keeps(c) /\ call'[c] = x
    BY <1>0, <2>1, <2>4, <2>5, WorkMove, Zenon
  <2>7. RowKeeps(k, "APPLYING")
    BY <1>0, <2>1, StatusMove, Zenon DEF MutationStatus
  <2> QED BY <1>0, <1>2, <2>2, <2>4, <2>6, <2>7, Zenon
<1> QED BY <1>1, <1>2, Zenon

\* What probe says of a projection is so.
LEMMA ProbeFacts ==
    ASSUME NEW k, NEW s, NEW v, NEW status \in probe(k, s, v), status # None
    PROVE  \E p \in proj : p.store = s /\ p.key = k /\ p.version = v /\ p.status = status
BY Zenon DEF probe

\* A resumed call finds the projection in the store or stages it.
LEMMA ProbeMove ==
    ASSUME TypeInv, NEW c \in Calls, Probe(c)
    PROVE  /\ CallsOK' /\ Others(c) /\ Keeps(c) /\ call[c].pc = "probe"
           /\ call'[c].todo = call[c].todo /\ call'[c].failed = call[c].failed
           /\ \/ call'[c].pc = "stage"
              \/ call'[c].pc = "staged" /\ Holds(proj, call[c].key, target(c), call[c].seen.after)
<1>0. call[c].pc = "probe" /\ UNCHANGED kind /\ call[c].todo # {}
  BY CallTyped, Zenon DEF Probe, at, ledgerVars, factVars, CallOK, StagePcs
<1>1. PICK status \in probe(call[c].key, target(c), call[c].seen.after) :
         IF status \in {"STAGED", "ACTIVE"}
         THEN call' = [call EXCEPT ![c].pc = "staged", ![c].found = status]
         ELSE goto(c, "stage")
  BY Zenon DEF Probe
<1>2. CASE status \in {"STAGED", "ACTIVE"}
  <2> DEFINE x == [call[c] EXCEPT !.pc = "staged", !.found = status]
  <2>1. call' = [call EXCEPT ![c] = x]
    BY <1>1, <1>2, Zenon
  <2>2. "staged" \in Pcs
    BY Zenon DEF Pcs, ApplyPcs, StagePcs
  <2>3. /\ x \in CallState /\ x.pc = "staged" /\ x.todo = call[c].todo /\ x.key = call[c].key /\ x.seen = call[c].seen
        /\ x.resume = call[c].resume /\ x.expected = call[c].expected /\ x.failed = call[c].failed /\ x.found = status
    BY <1>2, <2>2, CallTyped, ZenonT(60) DEF CallState
  <2> HIDE DEF x
  <2>4. CallOK(x)
    BY <1>0, <1>2, <2>3, CallTyped, Zenon DEF CallOK
  <2>5. CallsOK' /\ Others(c) /\ Keeps(c) /\ call'[c] = x
    BY <1>0, <2>1, <2>3, <2>4, WorkMove, Zenon
  <2>6. Holds(proj, call[c].key, target(c), call[c].seen.after)
    BY <1>2, ProbeFacts DEF Holds
  <2> QED BY <1>0, <2>3, <2>5, <2>6, Zenon
<1>3. CASE status \notin {"STAGED", "ACTIVE"}
  BY <1>0, <1>1, <1>3, Steps, GotoMove, Zenon
<1> QED BY <1>2, <1>3, Zenon

\* A call stages the projection, or fails to.
LEMMA StageMove ==
    ASSUME TypeInv, NEW c \in Calls, Stage(c)
    PROVE  /\ CallsOK' /\ Others(c) /\ Keeps(c) /\ call[c].pc = "stage" /\ call'[c].pc = "staged"
           /\ call'[c].todo = call[c].todo /\ call'[c].failed = call[c].failed
           /\ \/ succeeds(operation(c, "stage")) /\ call'[c].found = "STAGED"
              \/ fails(operation(c, "stage")) /\ call'[c].found = "FAILED"
<1>0. call[c].pc = "stage" /\ UNCHANGED kind /\ call[c].todo # {}
  BY CallTyped, Zenon DEF Stage, at, ledgerVars, factVars, CallOK, StagePcs
<1>1. PICK f \in {"STAGED", "FAILED"} :
         /\ call' = [call EXCEPT ![c].pc = "staged", ![c].found = f]
         /\ \/ f = "STAGED" /\ succeeds(operation(c, "stage"))
            \/ f = "FAILED" /\ fails(operation(c, "stage"))
  BY Zenon DEF Stage
<1> DEFINE x == [call[c] EXCEPT !.pc = "staged", !.found = f]
<1>2. "staged" \in Pcs
  BY Zenon DEF Pcs, ApplyPcs, StagePcs
<1>3. /\ x \in CallState /\ x.pc = "staged" /\ x.todo = call[c].todo /\ x.key = call[c].key /\ x.seen = call[c].seen
      /\ x.resume = call[c].resume /\ x.expected = call[c].expected /\ x.failed = call[c].failed /\ x.found = f
  BY <1>2, CallTyped, ZenonT(60) DEF CallState
<1>4. call' = [call EXCEPT ![c] = x]
  BY <1>1, Zenon
<1> HIDE DEF x
<1>5. CallOK(x)
  BY <1>0, <1>3, CallTyped, Zenon DEF CallOK
<1>6. CallsOK' /\ Others(c) /\ Keeps(c) /\ call'[c] = x
  BY <1>0, <1>3, <1>4, <1>5, WorkMove, Zenon
<1> QED BY <1>0, <1>1, <1>3, <1>6, Zenon


\* A store is staged; after the last one the fact is changed, or the mutation is PARTIAL.
LEMMA StagedMove ==
    ASSUME TypeInv, NEW c \in Calls, Staged(c)
    PROVE  /\ CallsOK' /\ Others(c) /\ Keeps(c) /\ call[c].key \in Keys /\ call[c].pc = "staged"
           /\ RowKeeps(call[c].key, row[call[c].key].status)
           /\ call'[c].todo = call[c].todo \ {target(c)}
           /\ call'[c].failed = (call[c].failed \/ call[c].found = "FAILED")
           /\ \/ call'[c].pc \in {"probe", "stage", "partial"}
              \/ call'[c].pc = "finalize" /\ call'[c].todo = {} /\ call'[c].failed = FALSE
<1> DEFINE k == call[c].key
           s == target(c)
           rest == call[c].todo \ {s}
           failed == call[c].failed \/ call[c].found = "FAILED"
           pc == CASE rest # {} -> IF call[c].resume THEN "probe" ELSE "stage"
                   [] rest = {} -> IF failed THEN "partial" ELSE "finalize"
           x == [call[c] EXCEPT !.todo = rest, !.failed = failed, !.pc = pc]
<1>0. /\ call[c].pc = "staged" /\ UNCHANGED kind /\ k \in Keys /\ call[c].todo # {} /\ call[c].todo \subseteq targets
      /\ call[c].found \in {"STAGED", "ACTIVE", "FAILED"} /\ call[c] \in CallState
  BY CallTyped, Zenon DEF Staged, at, factVars, CallOK, StagePcs, CallState
<1>1. set_fields(k, [row[k] EXCEPT !.stored[s] = call[c].found]) /\ call' = [call EXCEPT ![c] = x]
  BY Zenon DEF Staged
<1>2. s \in Stores
  BY <1>0, TargetOK, Zenon
<1>3. RowKeeps(k, row[k].status)
  BY <1>0, <1>1, <1>2, StoredMove, Zenon
<1>4. /\ rest \subseteq targets /\ rest \subseteq Stores /\ failed \in BOOLEAN
      /\ pc \in {"probe", "stage", "partial", "finalize"}
      /\ pc = "finalize" => rest = {} /\ failed = FALSE
      /\ pc \in {"probe", "stage"} => rest # {}
  BY <1>0, Zenon DEF CallState
<1> HIDE DEF rest, failed, pc, s
<1>5. pc \in Pcs
  BY <1>4, Zenon DEF Pcs, ApplyPcs, StagePcs
<1>6. /\ x \in CallState /\ x.pc = pc /\ x.todo = rest /\ x.failed = failed /\ x.key = k /\ x.seen = call[c].seen
      /\ x.resume = call[c].resume /\ x.expected = call[c].expected
  BY <1>0, <1>4, <1>5, Zenon DEF CallState
<1> HIDE DEF x
<1>7. CallOK(x)
  BY <1>0, <1>4, <1>6, Zenon DEF CallOK, StagePcs, ActivatePcs
<1>8. CallsOK' /\ Others(c) /\ Keeps(c) /\ call'[c] = x
  BY <1>0, <1>1, <1>6, <1>7, WorkMove, ZenonT(60)
<1> QED BY <1>0, <1>3, <1>4, <1>6, <1>8, Zenon DEF rest, failed, s

\* The fact is changed by the mutation, was changed by it already, or is not its to change.
LEMMA FinalizeMove ==
    ASSUME TypeInv, NEW c \in Calls, Finalize(c)
    PROVE  LET k == call[c].key
               seen == call[c].seen
           IN  /\ CallsOK' /\ Others(c) /\ Keeps(c) /\ k \in Keys /\ call[c].pc = "finalize"
               /\ \/ call'[c].pc = "unlock" /\ UNCHANGED <<fact, row>>
                  \/ /\ call'[c].pc \in {"reprobe", "activate"} /\ call'[c].todo = targets
                     /\ RowKeeps(k, "FINALIZING")
                     /\ \/ fact.last = k /\ fact.version = seen.after /\ UNCHANGED fact
                        \/ fact.version = seen.before /\ fact'.version = fact.version + 1 /\ fact'.last = k
<1> DEFINE k == call[c].key
           seen == call[c].seen
<1>0. call[c].pc = "finalize" /\ UNCHANGED kind /\ k \in Keys
  BY CallTyped, Zenon DEF Finalize, at, CallOK
<1>1. CASE ~already_final(k, seen) /\ ~before_matches(seen)
  <2>1. goto(c, "unlock") /\ UNCHANGED <<fact, row>>
    BY <1>1, Zenon DEF Finalize
  <2>2. CallsOK' /\ Others(c) /\ Keeps(c) /\ call'[c].pc = "unlock"
    BY <1>0, <2>1, Steps, GotoMove, Zenon
  <2> QED BY <1>0, <2>1, <2>2, Zenon
<1>2. CASE already_final(k, seen) \/ before_matches(seen)
  <2> DEFINE pc == IF call[c].resume THEN "reprobe" ELSE "activate"
             x == [call[c] EXCEPT !.pc = pc, !.todo = targets]
  <2>1. /\ set_fields(k, [row[k] EXCEPT !.status = "FINALIZING"]) /\ call' = [call EXCEPT ![c] = x]
        /\ \/ already_final(k, seen) /\ UNCHANGED fact
           \/ before_matches(seen) /\ fact' = written(k, fact.version + 1, "ACTIVE")
    BY <1>2, Zenon DEF Finalize
  <2>2. pc \in {"reprobe", "activate"} /\ pc \in Pcs /\ (pc = "reprobe" => call[c].resume)
    BY Zenon DEF Pcs, ApplyPcs, FinalPcs, ActivatePcs
  <2> HIDE DEF pc
  <2>3. targets \subseteq Stores /\ targets # {}
    BY Targets, Zenon DEF TypeInv
  <2>4. /\ x \in CallState /\ x.pc = pc /\ x.todo = targets /\ x.key = k /\ x.seen = seen
        /\ x.resume = call[c].resume /\ x.expected = call[c].expected
    BY <2>2, <2>3, CallTyped, ZenonT(60) DEF CallState
  <2> HIDE DEF x
  <2>5. CallOK(x)
    BY <1>0, <2>2, <2>3, <2>4, CallTyped, Zenon DEF CallOK
  <2>6. CallsOK' /\ Others(c) /\ Keeps(c) /\ call'[c] = x
    BY <1>0, <2>1, <2>4, <2>5, WorkMove, Zenon
  <2>7. RowKeeps(k, "FINALIZING")
    BY <1>0, <2>1, StatusMove, Zenon DEF MutationStatus
  <2>8. \/ fact.last = k /\ fact.version = seen.after /\ UNCHANGED fact
        \/ fact.version = seen.before /\ fact'.version = fact.version + 1 /\ fact'.last = k
    BY <2>1 DEF already_final, before_matches, written
  <2> QED BY <1>0, <2>2, <2>4, <2>6, <2>7, <2>8, Zenon
<1> QED BY <1>1, <1>2, Zenon

\* The next store to activate, or the end.
LEMMA NextStore ==
    ASSUME TypeInv, UNCHANGED kind, NEW c \in Calls, NEW failed \in BOOLEAN, activated(c, failed),
           call[c].pc \in ActivatePcs
    PROVE  /\ CallsOK' /\ Others(c) /\ Keeps(c)
           /\ call'[c].todo = call[c].todo \ {target(c)} /\ call'[c].failed = failed
           /\ \/ call'[c].pc \in {"reprobe", "activate", "partial"}
              \/ call'[c].pc = "applied" /\ call'[c].todo = {} /\ failed = FALSE
<1> DEFINE rest == call[c].todo \ {target(c)}
           pc == CASE rest # {} -> IF call[c].resume THEN "reprobe" ELSE "activate"
                   [] rest = {} -> IF failed THEN "partial" ELSE "applied"
           x == [call[c] EXCEPT !.todo = rest, !.failed = failed, !.pc = pc]
<1>0. /\ call[c].pc # "idle" /\ call[c].key \in Keys /\ call[c].todo \subseteq targets
      /\ call[c] \in CallState
  BY CallTyped, Zenon DEF CallOK, CallState, ActivatePcs
<1>1. call' = [call EXCEPT ![c] = x]
  BY Zenon DEF activated
<1>2. /\ rest \subseteq targets /\ rest \subseteq Stores
      /\ pc \in {"reprobe", "activate", "partial", "applied"}
      /\ pc = "applied" => rest = {} /\ failed = FALSE
      /\ pc \in {"reprobe", "activate"} => rest # {}
      /\ pc = "reprobe" => call[c].resume
  BY <1>0, Zenon DEF CallState
<1> HIDE DEF rest, pc
<1>3. pc \in Pcs
  BY <1>2, Zenon DEF Pcs, ApplyPcs, FinalPcs, ActivatePcs
<1>4. /\ x \in CallState /\ x.pc = pc /\ x.todo = rest /\ x.failed = failed /\ x.key = call[c].key /\ x.seen = call[c].seen
      /\ x.resume = call[c].resume /\ x.expected = call[c].expected
  BY <1>0, <1>2, <1>3, Zenon DEF CallState
<1> HIDE DEF x
<1>5. CallOK(x)
  BY <1>0, <1>2, <1>4, Zenon DEF CallOK, StagePcs, ActivatePcs
<1>6. CallsOK' /\ Others(c) /\ Keeps(c) /\ call'[c] = x
  BY <1>0, <1>1, <1>4, <1>5, WorkMove, Zenon
<1> QED BY <1>2, <1>4, <1>6, Zenon DEF rest


\* A resumed call passes over a store that shows the projection.
LEMMA ReprobeMove ==
    ASSUME TypeInv, NEW c \in Calls, Reprobe(c)
    PROVE  /\ CallsOK' /\ Others(c) /\ Keeps(c) /\ call[c].pc = "reprobe" /\ call'[c].failed = call[c].failed
           /\ \/ call'[c].pc = "activate" /\ call'[c].todo = call[c].todo
              \/ /\ Shows(proj, call[c].key, target(c), call[c].seen.after)
                 /\ call'[c].todo = call[c].todo \ {target(c)}
                 /\ \/ call'[c].pc \in {"reprobe", "activate", "partial"}
                    \/ call'[c].pc = "applied" /\ call'[c].todo = {} /\ call[c].failed = FALSE
<1>0. call[c].pc = "reprobe" /\ UNCHANGED kind /\ call[c].todo # {} /\ call[c].failed \in BOOLEAN
  BY CallTyped, Zenon DEF Reprobe, at, ledgerVars, factVars, CallOK, ActivatePcs, CallState
<1>1. PICK status \in probe(call[c].key, target(c), call[c].seen.after) :
         IF status = "ACTIVE" THEN activated(c, call[c].failed) ELSE goto(c, "activate")
  BY Zenon DEF Reprobe
<1>2. CASE status = "ACTIVE"
  <2>1. Shows(proj, call[c].key, target(c), call[c].seen.after)
    BY <1>2, ProbeFacts DEF Shows
  <2>2. activated(c, call[c].failed) /\ call[c].pc \in ActivatePcs
    BY <1>0, <1>1, <1>2, Zenon DEF ActivatePcs
  <2> QED BY <1>0, <2>1, <2>2, NextStore, ZenonT(60)
<1>3. CASE status # "ACTIVE"
  BY <1>0, <1>1, <1>3, Steps, GotoMove, Zenon
<1> QED BY <1>2, <1>3, Zenon

\* A store operation of the activation succeeds, or fails and the next store is taken.
Failing(c) ==
    /\ call'[c].failed = TRUE /\ call'[c].todo = call[c].todo \ {target(c)}
    /\ call'[c].pc \in {"reprobe", "activate", "partial"}

\* A call activates its projection.
LEMMA ActivateMove ==
    ASSUME TypeInv, NEW c \in Calls, Activate(c)
    PROVE  /\ CallsOK' /\ Others(c) /\ Keeps(c) /\ call[c].pc = "activate"
           /\ \/ /\ succeeds(operation(c, "activate"))
                 /\ call'[c].pc = "retire" /\ call'[c].todo = call[c].todo /\ call'[c].failed = call[c].failed
              \/ fails(operation(c, "activate")) /\ Failing(c)
<1>0. call[c].pc = "activate" /\ UNCHANGED kind /\ call[c].todo # {} /\ call[c].pc \in ActivatePcs
  BY CallTyped, Zenon DEF Activate, at, ledgerVars, factVars, CallOK, ActivatePcs
<1>1. CASE succeeds(operation(c, "activate")) /\ goto(c, "retire")
  BY <1>0, <1>1, Steps, GotoMove, Zenon
<1>2. CASE fails(operation(c, "activate")) /\ activated(c, TRUE)
  <2>1. /\ CallsOK' /\ Others(c) /\ Keeps(c) /\ call'[c].todo = call[c].todo \ {target(c)} /\ call'[c].failed = TRUE
        /\ call'[c].pc \in {"reprobe", "activate", "partial"}
    BY <1>0, <1>2, NextStore, Zenon
  <2> QED BY <1>0, <1>2, <2>1, Zenon DEF Failing
<1> QED BY <1>1, <1>2, Zenon DEF Activate, activation

\* A call retires the projections of older versions.
LEMMA RetireMove ==
    ASSUME TypeInv, NEW c \in Calls, Retire(c)
    PROVE  /\ CallsOK' /\ Others(c) /\ Keeps(c) /\ call[c].pc = "retire"
           /\ \/ /\ succeeds(operation(c, "retire"))
                 /\ call'[c].pc = "activated" /\ call'[c].todo = call[c].todo /\ call'[c].failed = call[c].failed
              \/ fails(operation(c, "retire")) /\ Failing(c)
<1>0. call[c].pc = "retire" /\ UNCHANGED kind /\ call[c].todo # {} /\ call[c].pc \in ActivatePcs
  BY CallTyped, Zenon DEF Retire, at, ledgerVars, factVars, CallOK, ActivatePcs
<1>1. CASE succeeds(operation(c, "retire")) /\ goto(c, "activated")
  BY <1>0, <1>1, Steps, GotoMove, Zenon
<1>2. CASE fails(operation(c, "retire")) /\ activated(c, TRUE)
  <2>1. /\ CallsOK' /\ Others(c) /\ Keeps(c) /\ call'[c].todo = call[c].todo \ {target(c)} /\ call'[c].failed = TRUE
        /\ call'[c].pc \in {"reprobe", "activate", "partial"}
    BY <1>0, <1>2, NextStore, Zenon
  <2> QED BY <1>0, <1>2, <2>1, Zenon DEF Failing
<1> QED BY <1>1, <1>2, ZenonT(60) DEF Retire, activation

\* The store is recorded as ACTIVE.
LEMMA ActivatedMove ==
    ASSUME TypeInv, NEW c \in Calls, Activated(c)
    PROVE  /\ CallsOK' /\ Others(c) /\ Keeps(c) /\ call[c].pc = "activated" /\ call[c].key \in Keys
           /\ RowKeeps(call[c].key, row[call[c].key].status)
           /\ call'[c].todo = call[c].todo \ {target(c)} /\ call'[c].failed = call[c].failed
           /\ \/ call'[c].pc \in {"reprobe", "activate", "partial"}
              \/ call'[c].pc = "applied" /\ call'[c].todo = {} /\ call[c].failed = FALSE
<1>0. /\ call[c].pc = "activated" /\ UNCHANGED kind /\ call[c].todo # {} /\ call[c].pc \in ActivatePcs
      /\ call[c].key \in Keys /\ call[c].failed \in BOOLEAN
  BY CallTyped, Zenon DEF Activated, at, factVars, CallOK, ActivatePcs, CallState
<1>1. /\ set_fields(call[c].key, [row[call[c].key] EXCEPT !.stored[target(c)] = "ACTIVE"])
      /\ activated(c, call[c].failed)
  BY Zenon DEF Activated
<1>2. RowKeeps(call[c].key, row[call[c].key].status)
  BY <1>0, <1>1, TargetOK, StoredMove, Zenon
<1> QED BY <1>0, <1>1, <1>2, NextStore, ZenonT(60)

\* The mutation is recorded as PARTIAL.
LEMMA PartialMove ==
    ASSUME TypeInv, NEW c \in Calls, mark_partial(c)
    PROVE  /\ CallsOK' /\ Others(c) /\ Keeps(c) /\ call[c].pc = "partial" /\ call'[c].pc = "unlock"
           /\ call[c].key \in Keys /\ RowKeeps(call[c].key, "PARTIAL")
<1>0. call[c].pc = "partial" /\ UNCHANGED kind /\ call[c].key \in Keys
  BY CallTyped, Zenon DEF mark_partial, at, factVars, CallOK
<1>1. /\ set_fields(call[c].key, [row[call[c].key] EXCEPT !.status = "PARTIAL"])
      /\ goto(c, "unlock")
  BY Zenon DEF mark_partial
<1>2. RowKeeps(call[c].key, "PARTIAL")
  BY <1>0, <1>1, StatusMove, Zenon DEF MutationStatus
<1> QED BY <1>0, <1>1, <1>2, Steps, GotoMove, Zenon

\* The mutation is recorded as APPLIED, if the fact is at its version.
LEMMA AppliedMove ==
    ASSUME TypeInv, NEW c \in Calls, mark_applied(c)
    PROVE  /\ CallsOK' /\ Others(c) /\ Keeps(c) /\ call[c].pc = "applied" /\ call'[c].pc = "unlock"
           /\ call[c].key \in Keys
           /\ \/ UNCHANGED row
              \/ RowKeeps(call[c].key, "APPLIED") /\ fact.version = row[call[c].key].after
<1>0. call[c].pc = "applied" /\ UNCHANGED kind /\ call[c].key \in Keys
  BY CallTyped, Zenon DEF mark_applied, at, factVars, CallOK
<1>1. /\ goto(c, "unlock")
      /\ \/ UNCHANGED row
         \/ /\ set_fields(call[c].key, [row[call[c].key] EXCEPT !.status = "APPLIED"])
            /\ fact.version = row[call[c].key].after
  BY Zenon DEF mark_applied, may_be_applied
<1>2. UNCHANGED row \/ (RowKeeps(call[c].key, "APPLIED") /\ fact.version = row[call[c].key].after)
  BY <1>0, <1>1, StatusMove, Zenon DEF MutationStatus
<1> QED BY <1>0, <1>1, <1>2, Steps, GotoMove, Zenon


-----------------------------------------------------------------------------
\* The ledger: a row is decided once, and nobody forgets what was decided.

\* A step that writes no row, or a decided one without touching the decision.
RowsKept ==
    \/ UNCHANGED row
    \/ \E k \in Keys, status \in MutationStatus \ {"NONE"} :
          row[k].decision \in Projecting /\ RowKeeps(k, status)

\* Such a step changes no decision.
LEMMA FrozenRows ==
    ASSUME TypeInv, LedgerInv, RowsKept
    PROVE  /\ RowInv'
           /\ \A k \in Keys : /\ row'[k].decision = row[k].decision
                              /\ row'[k].before = row[k].before /\ row'[k].after = row[k].after
                              /\ row[k].status # "NONE" => row'[k].status # "NONE"
<1>1. CASE UNCHANGED row
  BY <1>1, Zenon DEF LedgerInv, RowInv
<1>2. CASE ~UNCHANGED row
  <2>1. PICK k \in Keys, status \in MutationStatus \ {"NONE"} :
           row[k].decision \in Projecting /\ RowKeeps(k, status)
    BY <1>2, Zenon DEF RowsKept
  <2>2. \A j \in Keys : /\ row'[j].decision = row[j].decision
                        /\ row'[j].before = row[j].before /\ row'[j].after = row[j].after
                        /\ row'[j].status = IF j = k THEN status ELSE row[j].status
    BY <2>1, Zenon DEF RowKeeps
  <2>3. RowInv'
    BY <2>1, <2>2 DEF LedgerInv, RowInv, Projecting
  <2> QED BY <2>1, <2>2, <2>3, Zenon
<1> QED BY <1>1, <1>2, Zenon

\* A step of one call that leaves the decisions alone keeps the ledger.
LEMMA LedgerKept ==
    ASSUME TypeInv, CallsOK', LedgerInv, RowsKept, NEW c \in Calls, Others(c),
           call'[c].pc # "decide", SeenOK(call[c])'
    PROVE  LedgerInv'
<1>1. /\ RowInv'
      /\ \A k \in Keys : /\ row'[k].decision = row[k].decision
                         /\ row'[k].before = row[k].before /\ row'[k].after = row[k].after
                         /\ row[k].status # "NONE" => row'[k].status # "NONE"
  BY FrozenRows, Zenon
<1>2. ASSUME NEW d \in Calls PROVE SeenOK(call[d])'
  <2>1. CASE d = c
    BY <2>1, Zenon
  <2>2. CASE d # c
    <3>1. call'[d] = call[d] /\ SeenOK(call[d]) /\ CallOK(call[d])
      BY <2>2, CallTyped, Zenon DEF Others, LedgerInv
    <3> QED BY <1>1, <3>1 DEF SeenOK, SameDecision, CallOK
  <2> QED BY <2>1, <2>2, Zenon
<1>3. DecideInv'
  <2>1. \A d \in Calls : call'[d].pc = "decide" => call'[d] = call[d] /\ call[d].key \in Keys
    BY CallTyped, Zenon DEF Others, CallOK
  <2> QED BY <1>1, <2>1 DEF LedgerInv, DecideInv
<1> QED BY <1>1, <1>2, <1>3, Zenon DEF LedgerInv

\* So does a call that goes on with its mutation.
LEMMA GoesOn ==
    ASSUME TypeInv, CallsOK', LedgerInv, RowsKept, NEW c \in Calls, Others(c), Keeps(c),
           call[c].pc # "idle", call'[c].pc \notin {"lock", "decide", "evidence"},
           call'[c].pc \in ApplyPcs => call[c].seen.decision \in Projecting,
           call'[c].pc = "applying" => call[c].seen.decision \in Projecting \cup {None},
           call'[c].pc = "review" => call[c].seen.decision = "CONFLICT_REVIEW" /\ call[c].seen.before = 0
    PROVE  LedgerInv'
<1>1. \A k \in Keys : /\ row'[k].decision = row[k].decision
                      /\ row'[k].before = row[k].before /\ row'[k].after = row[k].after
  BY FrozenRows, Zenon
<1>2. SeenOK(call[c]) /\ call[c].key \in Keys
  BY CallTyped, Zenon DEF LedgerInv, CallOK
<1>3. SeenOK(call[c])'
  BY <1>1, <1>2, ZenonT(60) DEF SeenOK, SameDecision, Keeps
<1> QED BY <1>3, LedgerKept, Zenon

\* A call that ends, or begins afresh, remembers nothing.
LEMMA Forgets ==
    ASSUME TypeInv, CallsOK', LedgerInv, UNCHANGED row, NEW c \in Calls, Others(c),
           call'[c] = IdleCall
    PROVE  LedgerInv'
<1>0. call'[c].pc = "idle" /\ "idle" # "decide"
  BY DEF IdleCall
<1>1. SeenOK(call[c])'
  <2>1. "idle" \notin ApplyPcs
    BY Steps, Zenon
  <2> QED BY <1>0, <2>1, Zenon DEF SeenOK
<1>2. call'[c].pc # "decide"
  BY <1>0, Zenon
<1> QED BY <1>1, <1>2, LedgerKept, Zenon DEF RowsKept

\* A call in the middle of a mutation: what it remembers of the row is so.
LEMMA Remembered ==
    ASSUME TypeInv, LedgerInv, NEW c \in Calls, call[c].pc # "idle", call[c].seen.decision # None
    PROVE  LET k == call[c].key
           IN  /\ k \in Keys /\ row[k].decision = call[c].seen.decision /\ row[k].status # "NONE"
               /\ row[k].before = call[c].seen.before /\ row[k].after = call[c].seen.after
               /\ row[k].decision \in Projecting => row[k].after = row[k].before + 1
BY CallTyped, Zenon DEF LedgerInv, RowInv, SeenOK, SameDecision, CallOK


\* The ledger part of every step of a call.
LEMMA LedgerOfStep ==
    ASSUME TypeInv, LedgerInv, NEW c \in Calls, Step(c) \/ Abort(c)
    PROVE  LedgerInv' /\ CallsOK' /\ row' \in [Keys -> RowState] /\ UNCHANGED kind
<1> DEFINE k == call[c].key
<1>0. row \in [Keys -> RowState] /\ None \notin Projecting
  BY Zenon DEF TypeInv, Projecting
<1>a. SeenOK(call[c])
  BY Zenon DEF LedgerInv
<1>b. call[c].pc \in ApplyPcs => /\ call[c].pc # "idle" /\ k \in Keys
                                 /\ call[c].seen.decision \in Projecting /\ row[k].decision \in Projecting
                                 /\ row[k].status \in MutationStatus \ {"NONE"}
  <2>1. call[c].pc \in ApplyPcs => call[c].pc # "idle" /\ call[c].seen.decision \in Projecting
    BY <1>a, Steps, Zenon DEF SeenOK
  <2> QED BY <1>0, <2>1, Remembered, Zenon DEF RowState
<1>1. ASSUME Acquire(c) PROVE LedgerInv' /\ CallsOK' /\ row' \in [Keys -> RowState] /\ UNCHANGED kind
  <2>1. call[c].pc = "lock" /\ UNCHANGED <<kind, row>>
    BY <1>1, Zenon DEF Acquire, at, ledgerVars, factVars
  <2>2. CASE call'[c] = IdleCall
    BY <1>0, <1>1, <2>1, <2>2, AcquireMove, Forgets, Zenon
  <2>3. CASE call'[c] # IdleCall
    <3>1. CallsOK' /\ Others(c) /\ Keeps(c) /\ call'[c].pc = IF call[c].resume THEN "applying" ELSE "begin"
      BY <1>1, <2>3, AcquireMove, Zenon
    <3>2. call'[c].pc = "applying" => call[c].seen.decision \in Projecting \cup {None}
      BY <1>a, <2>1, <3>1, Zenon DEF SeenOK
    <3>3. call'[c].pc \notin ApplyPcs /\ call'[c].pc \notin {"lock", "decide", "evidence", "review"}
      BY <3>1, Steps, Zenon
    <3> QED BY <1>0, <2>1, <3>1, <3>2, <3>3, GoesOn, Zenon DEF RowsKept
  <2> QED BY <2>2, <2>3, Zenon
<1>2. ASSUME begin_or_replay(c) PROVE LedgerInv' /\ CallsOK' /\ row' \in [Keys -> RowState] /\ UNCHANGED kind
  <2>1. call[c].pc = "begin" /\ UNCHANGED kind
    BY <1>2, Zenon DEF begin_or_replay, at, factVars
  <2>2. CASE call'[c].pc = "unlock"
    BY <1>0, <1>2, <2>1, <2>2, BeginMove, GoesOn, Steps, Zenon DEF RowsKept
  <2>3. CASE call'[c].pc # "unlock"
    <3>1. /\ CallsOK' /\ Others(c) /\ Keeps(c) /\ k \in Keys /\ row' \in [Keys -> RowState]
          /\ call'[c].pc = "decide" /\ row[k].status = "NONE"
          /\ row'[k].status = "PENDING" /\ row'[k].decision = None
          /\ \A j \in Keys : j # k => row'[j] = row[j]
      BY <1>2, <2>3, BeginMove, Zenon
    <3>2. row[k].decision = None
      BY <3>1, Zenon DEF LedgerInv, RowInv
    <3>3. RowInv'
      BY <1>0, <3>1 DEF LedgerInv, RowInv
    <3>4. ASSUME NEW d \in Calls PROVE SeenOK(call[d])'
      <4>1. SeenOK(call[d]) /\ CallOK(call[d])
        BY CallTyped, Zenon DEF LedgerInv
      <4>2. CASE d = c
        BY <2>1, <3>1, <3>2, <4>1, <4>2, Steps, Zenon DEF SeenOK, SameDecision, Keeps
      <4>3. CASE d # c
        BY <3>1, <3>2, <4>1, <4>3, ZenonT(120) DEF SeenOK, SameDecision, CallOK, Others
      <4> QED BY <4>2, <4>3, Zenon
    <3>5. \A d \in Calls : d # c /\ call'[d].pc = "decide" =>
             call'[d] = call[d] /\ call[d].key \in Keys /\ call[d].key # k
      BY <3>1, CallTyped, ZenonT(60) DEF Others, CallOK, LedgerInv, DecideInv
    <3>6. DecideInv'
      <4>1. call'[c].key = k
        BY <3>1, Zenon DEF Keeps
      <4>2. "PENDING" # "NONE"
        BY Zenon
      <4>3. ASSUME NEW d \in Calls, d # c, call'[d].pc = "decide"
            PROVE  /\ row'[call'[d].key].status # "NONE" /\ row'[call'[d].key].decision = None
                   /\ call'[d].key # k
                   /\ \A e \in Calls : call'[e].pc = "decide" /\ call'[e].key = call'[d].key => e = d
        <5>1. call'[d] = call[d] /\ call[d].key \in Keys /\ call[d].key # k
          BY <3>5, <4>3, Zenon
        <5>2. row'[call'[d].key] = row[call[d].key]
          BY <3>1, <5>1, Zenon
        <5>3. call[d].pc = "decide"
          BY <4>3, <5>1, Zenon
        <5>4. /\ row[call[d].key].status # "NONE" /\ row[call[d].key].decision = None
              /\ \A e \in Calls : call[e].pc = "decide" /\ call[e].key = call[d].key => e = d
          BY <5>3, Zenon DEF LedgerInv, DecideInv
        <5>5. \A e \in Calls : call'[e].pc = "decide" /\ call'[e].key = call'[d].key => e = d
          BY <3>5, <4>1, <5>1, <5>4, Zenon
        <5> QED BY <5>1, <5>2, <5>4, <5>5, Zenon
      <4> QED BY <3>1, <4>1, <4>2, <4>3, ZenonT(60) DEF DecideInv
    <3> QED BY <2>1, <3>1, <3>3, <3>4, <3>6, Zenon DEF LedgerInv
  <2> QED BY <2>2, <2>3, Zenon
<1>3. ASSUME Decide(c) PROVE LedgerInv' /\ CallsOK' /\ row' \in [Keys -> RowState] /\ UNCHANGED kind
  <2>1. call[c].pc = "decide" /\ UNCHANGED kind
    BY <1>3, Zenon DEF Decide, at, factVars
  <2>2. CASE call'[c].pc = "unlock"
    BY <1>0, <1>3, <2>1, <2>2, DecideMove, GoesOn, Steps DEF RowsKept
  <2>3. CASE call'[c].pc # "unlock"
    <3>1. /\ CallsOK' /\ Others(c) /\ k \in Keys /\ call'[c].key = k /\ call'[c].resume = call[c].resume
          /\ call'[c].pc = "evidence" /\ call'[c].seen = row'[k]
          /\ row' \in [Keys -> RowState] /\ \A j \in Keys : j # k => row'[j] = row[j]
          /\ row'[k].decision \in Decisions /\ row'[k].before = fact.version
          /\ row'[k].decision \in Projecting => row'[k].after = fact.version + 1 /\ row'[k].status = row[k].status
          /\ row'[k].decision \notin Projecting => row'[k].status \in {"APPLIED", "REJECTED", "CONFLICT"}
      BY <1>3, <2>3, DecideMove, Zenon
    <3>2. row[k].status # "NONE" /\ row[k].decision = None
      BY <2>1, Zenon DEF LedgerInv, DecideInv
    <3>3. RowInv'
      BY <1>0, <3>1, <3>2 DEF LedgerInv, RowInv, TypeInv, Decisions, Projecting
    <3>4. ASSUME NEW d \in Calls PROVE SeenOK(call[d])'
      <4>1. SeenOK(call[d]) /\ CallOK(call[d])
        BY CallTyped, Zenon DEF LedgerInv
      <4>2. CASE d = c
        BY <3>1, <4>2, Steps, Zenon DEF SeenOK, SameDecision, Decisions, Projecting
      <4>3. CASE d # c
        BY <3>1, <3>2, <4>1, <4>3, ZenonT(120) DEF SeenOK, SameDecision, CallOK, Others
      <4> QED BY <4>2, <4>3, Zenon
    <3>5. \A d \in Calls : call'[d].pc = "decide" =>
             call'[d] = call[d] /\ call[d].key \in Keys /\ call[d].key # k
      BY <2>1, <3>1, CallTyped, ZenonT(120) DEF Others, CallOK, LedgerInv, DecideInv
    <3>6. DecideInv'
      BY <3>1, <3>5 DEF LedgerInv, DecideInv
    <3> QED BY <2>1, <3>1, <3>3, <3>4, <3>6, Zenon DEF LedgerInv
  <2> QED BY <2>2, <2>3, Zenon
<1>4. ASSUME append_evidence(c) PROVE LedgerInv' /\ CallsOK' /\ row' \in [Keys -> RowState] /\ UNCHANGED kind
  <2>1. call[c].pc = "evidence" /\ UNCHANGED <<kind, row>>
    BY <1>4, Zenon DEF append_evidence, at
  <2>2. call'[c].pc \notin ApplyPcs /\ call'[c].pc \notin {"lock", "decide", "evidence"}
    BY <1>4, EvidenceMove, Steps, Zenon
  <2> QED BY <1>0, <1>4, <2>1, <2>2, EvidenceMove, GoesOn, Zenon DEF RowsKept
<1>5. ASSUME create_pending_review(c) PROVE LedgerInv' /\ CallsOK' /\ row' \in [Keys -> RowState] /\ UNCHANGED kind
  <2>1. call[c].pc = "review" /\ UNCHANGED <<kind, row>> /\ goto(c, "unlock")
    BY <1>5, Zenon DEF create_pending_review, at
  <2> QED BY <1>0, <2>1, GotoMove, GoesOn, Steps DEF RowsKept
<1>6. ASSUME mark_applying(c) PROVE LedgerInv' /\ CallsOK' /\ row' \in [Keys -> RowState] /\ UNCHANGED kind
  <2>1. call[c].pc = "applying" /\ UNCHANGED kind
    BY <1>6, Zenon DEF mark_applying, at, factVars
  <2>2. CASE call'[c].pc = "unlock" /\ UNCHANGED row
    BY <1>0, <1>6, <2>1, <2>2, ApplyingMove, GoesOn, Steps, Zenon DEF RowsKept
  <2>3. CASE ~(call'[c].pc = "unlock" /\ UNCHANGED row)
    <3>1. /\ CallsOK' /\ Others(c) /\ Keeps(c) /\ k \in Keys /\ call[c].seen.decision # None
          /\ RowKeeps(k, "APPLYING") /\ call'[c].pc \in {"probe", "stage"}
      BY <1>6, <2>3, ApplyingMove, Zenon
    <3>2. call[c].seen.decision \in Projecting /\ row[k].decision \in Projecting
      BY <1>a, <2>1, <3>1, Remembered, Zenon DEF SeenOK
    <3>3. RowsKept /\ row' \in [Keys -> RowState]
      BY <3>1, <3>2, Zenon DEF RowsKept, RowKeeps, MutationStatus
    <3> QED BY <2>1, <3>1, <3>2, <3>3, GoesOn, Zenon
  <2> QED BY <2>2, <2>3, Zenon
<1>7. ASSUME Probe(c) \/ Stage(c) \/ Reprobe(c) \/ Activate(c) \/ Retire(c)
      PROVE LedgerInv' /\ CallsOK' /\ row' \in [Keys -> RowState] /\ UNCHANGED kind
  <2>1. UNCHANGED <<kind, row>>
    BY <1>7, Zenon DEF Probe, Stage, Reprobe, Activate, Retire, ledgerVars, factVars
  <2>2. CallsOK' /\ Others(c) /\ Keeps(c) /\ call[c].pc \in ApplyPcs
    BY <1>7, ProbeMove, StageMove, ReprobeMove, ActivateMove, RetireMove, Steps, ZenonT(60)
  <2>3. call'[c].pc \in ApplyPcs
    BY <1>7, ProbeMove, StageMove, ReprobeMove, ActivateMove, RetireMove, Steps, ZenonT(60) DEF Failing
  <2>4. call'[c].pc \notin {"lock", "decide", "evidence", "applying", "review"}
    BY <2>3, Steps, Zenon
  <2> QED BY <1>0, <1>b, <2>1, <2>2, <2>3, <2>4, GoesOn, Zenon DEF RowsKept
<1>8. ASSUME Staged(c) \/ Activated(c)
      PROVE LedgerInv' /\ CallsOK' /\ row' \in [Keys -> RowState] /\ UNCHANGED kind
  <2>1. UNCHANGED kind
    BY <1>8, Zenon DEF Staged, Activated, factVars
  <2>2. /\ CallsOK' /\ Others(c) /\ Keeps(c) /\ call[c].pc \in ApplyPcs /\ call'[c].pc \in ApplyPcs
        /\ RowKeeps(k, row[k].status)
    BY <1>8, StagedMove, ActivatedMove, Steps, ZenonT(60)
  <2>3. call'[c].pc \notin {"lock", "decide", "evidence", "applying", "review"}
    BY <2>2, Steps, Zenon
  <2>4. RowsKept /\ row' \in [Keys -> RowState]
    BY <1>b, <2>2, Zenon DEF RowsKept, RowKeeps
  <2> QED BY <1>b, <2>1, <2>2, <2>3, <2>4, GoesOn, Zenon
<1>9. ASSUME Finalize(c) \/ mark_partial(c) \/ mark_applied(c)
      PROVE LedgerInv' /\ CallsOK' /\ row' \in [Keys -> RowState] /\ UNCHANGED kind
  <2>1. UNCHANGED kind
    BY <1>9, Zenon DEF Finalize, mark_partial, mark_applied, factVars
  <2>2. /\ CallsOK' /\ Others(c) /\ Keeps(c) /\ call[c].pc \in ApplyPcs
        /\ call'[c].pc \in {"unlock", "reprobe", "activate"}
    BY <1>9, FinalizeMove, PartialMove, AppliedMove, Steps, ZenonT(60)
  <2>3. UNCHANGED row \/ \E status \in {"FINALIZING", "PARTIAL", "APPLIED"} : RowKeeps(k, status)
    BY <1>9, FinalizeMove, PartialMove, AppliedMove, Zenon
  <2>4. RowsKept /\ row' \in [Keys -> RowState]
    BY <1>0, <1>b, <2>2, <2>3, Zenon DEF RowsKept, RowKeeps, MutationStatus
  <2> QED BY <1>b, <2>1, <2>2, <2>4, GoesOn, Zenon
<1>10. ASSUME Release(c) PROVE LedgerInv' /\ CallsOK' /\ row' \in [Keys -> RowState] /\ UNCHANGED kind
  <2>1. call' = [call EXCEPT ![c] = IdleCall] /\ UNCHANGED <<kind, row>>
    BY <1>10, Zenon DEF Release, ledgerVars, factVars
  <2> QED BY <1>0, <2>1, EndMove, Forgets, Zenon
<1>11. ASSUME Abort(c) PROVE LedgerInv' /\ CallsOK' /\ row' \in [Keys -> RowState] /\ UNCHANGED kind
  <2>1. call[c].pc # "idle" /\ UNCHANGED <<kind, row>>
    BY <1>11, Zenon DEF Abort, ledgerVars, factVars
  <2>2. CASE goto(c, "unlock")
    <3>1. /\ "unlock" \in Pcs \ ApplyPcs /\ "unlock" \notin StagePcs \cup ActivatePcs
          /\ "unlock" \notin {"staged", "finalize", "applied"}
          /\ "unlock" \notin {"lock", "decide", "evidence", "applying", "review"}
      BY Zenon DEF Pcs, ApplyPcs, StagePcs, FinalPcs, ActivatePcs
    <3>2. CallsOK' /\ Others(c) /\ Keeps(c) /\ call'[c].pc = "unlock"
      BY <1>0, <2>1, <2>2, <3>1, GotoMove, Zenon
    <3>3. LedgerInv'
      BY <1>0, <2>1, <3>1, <3>2, GoesOn, Zenon DEF RowsKept
    <3> QED BY <1>0, <2>1, <3>2, <3>3, Zenon
  <2>3. CASE call' = [call EXCEPT ![c] = IdleCall]
    BY <1>0, <2>1, <2>3, EndMove, Forgets, Zenon
  <2> QED BY <1>11, <2>2, <2>3, Zenon DEF Abort
<1> QED BY <1>1, <1>2, <1>3, <1>4, <1>5, <1>6, <1>7, <1>8, <1>9, <1>10, <1>11, ZenonT(60) DEF Step


\* The ledger part of every step.
LEMMA LedgerStep ==
    ASSUME TypeInv, LedgerInv, Next
    PROVE  LedgerInv' /\ CallsOK' /\ row' \in [Keys -> RowState] /\ UNCHANGED kind
<1>0. row \in [Keys -> RowState] /\ fact.version \in Nat
  BY Zenon DEF TypeInv
<1>1. ASSUME NEW c \in Calls, NEW k \in Keys, NEW e \in 0 .. fact.version, Mutate(c, k, e)
      PROVE  LedgerInv' /\ CallsOK' /\ row' \in [Keys -> RowState] /\ UNCHANGED kind
  <2>1. UNCHANGED <<kind, row>> /\ e \in Nat
    BY <1>0, <1>1 DEF Mutate, ledgerVars, factVars
  <2>2. /\ CallsOK' /\ Others(c)
        /\ call'[c].pc = "lock" /\ call'[c].key = k /\ call'[c].seen = NoRow /\ call'[c].resume = FALSE
    BY <1>1, <2>1, MutateMove, Zenon
  <2>3. SeenOK(call[c])'
    BY <2>2, Steps DEF SeenOK, SameDecision, NoRow
  <2> QED BY <1>0, <2>1, <2>2, <2>3, LedgerKept, Zenon DEF RowsKept
<1>2. ASSUME NEW c \in Calls, NEW k \in Keys, Resume(c, k)
      PROVE  LedgerInv' /\ CallsOK' /\ row' \in [Keys -> RowState] /\ UNCHANGED kind
  <2>1. UNCHANGED <<kind, row>> /\ row[k].status \in {"PENDING", "APPLYING", "FINALIZING", "PARTIAL"}
    BY <1>2, Zenon DEF Resume, ledgerVars, factVars
  <2>2. /\ CallsOK' /\ Others(c)
        /\ call'[c].pc = "lock" /\ call'[c].key = k /\ call'[c].seen = row[k] /\ call'[c].resume = TRUE
    BY <1>2, ResumeMove, Zenon
  <2>3. row[k].decision \in Projecting \cup {None}
    BY <2>1, Zenon DEF LedgerInv, RowInv
  <2>4. SeenOK(call[c])'
    BY <2>1, <2>2, <2>3, Steps, Zenon DEF SeenOK, SameDecision
  <2> QED BY <1>0, <2>1, <2>2, <2>4, LedgerKept, Zenon DEF RowsKept
<1>3. ASSUME LateWrite \/ LockExpires
      PROVE  LedgerInv' /\ CallsOK' /\ row' \in [Keys -> RowState] /\ UNCHANGED kind
  <2>1. UNCHANGED <<kind, row, call>>
    BY <1>3, Zenon DEF LateWrite, LockExpires, ledgerVars, factVars
  <2>2. LedgerInv'
    BY <2>1 DEF LedgerInv, RowInv, DecideInv, SeenOK, SameDecision
  <2>3. CallsOK'
    BY <2>1, Zenon DEF TypeInv, CallsOK, CallOK, targets
  <2> QED BY <1>0, <2>1, <2>2, <2>3, Zenon
<1> QED BY <1>1, <1>2, <1>3, LedgerOfStep, Zenon DEF Next

-----------------------------------------------------------------------------
\* The fact: a version has one author.

\* How the fact changes: by a review that creates it, or by finalize_canonical.
LEMMA FactStep ==
    ASSUME TypeInv, LedgerInv, Next, fact' # fact
    PROVE  \E c \in Calls :
              /\ fact'.version = fact.version + 1 /\ fact'.last = call[c].key /\ call[c].key \in Keys
              /\ row[call[c].key].before = fact.version
              /\ \/ call[c].pc = "review" /\ call'[c].pc = "unlock" /\ Others(c) /\ UNCHANGED row
                 \/ Finalize(c)
<1>1. PICK c \in Calls : create_pending_review(c) \/ Finalize(c)
  BY ZenonT(60) DEF Next, Mutate, Resume, Step, Abort, LateWrite, LockExpires, Acquire, begin_or_replay, Decide,
         append_evidence, mark_applying, Probe, Stage, Staged, Reprobe, Activate, Retire, Activated,
         mark_partial, mark_applied, Release, ledgerVars, factVars
<1>2. fact.version \in Nat
  BY Zenon DEF TypeInv
<1>3. CASE create_pending_review(c)
  <2>1. call[c].pc = "review" /\ fact.version = 0 /\ fact' = written(call[c].key, 1, "PENDING_REVIEW")
        /\ goto(c, "unlock") /\ UNCHANGED <<kind, row>>
    BY <1>3, Zenon DEF create_pending_review, at
  <2>2. fact'.version = 1 /\ fact'.last = call[c].key
    BY <2>1, Zenon DEF written
  <2>3. call[c].seen.decision = "CONFLICT_REVIEW" /\ call[c].seen.before = 0
    BY <2>1, Zenon DEF LedgerInv, SeenOK
  <2>4. call[c].key \in Keys /\ row[call[c].key].before = 0
    BY <2>1, <2>3, Remembered, Zenon
  <2>5. Others(c) /\ call'[c].pc = "unlock"
    BY <2>1, GotoMove, Steps, Zenon
  <2> QED BY <2>1, <2>2, <2>4, <2>5
<1>4. CASE Finalize(c)
  <2>1. /\ call[c].pc = "finalize" /\ call[c].key \in Keys
        /\ fact.version = call[c].seen.before /\ fact'.version = fact.version + 1 /\ fact'.last = call[c].key
    BY <1>4, FinalizeMove, Zenon
  <2>2. call[c].seen.decision \in Projecting /\ call[c].seen.decision # None
    BY <2>1, Steps, ZenonT(60) DEF LedgerInv, SeenOK, Projecting
  <2>3. row[call[c].key].before = fact.version
    BY <2>1, <2>2, Remembered, Zenon
  <2> QED BY <1>4, <2>1, <2>3, Zenon
<1> QED BY <1>1, <1>3, <1>4, Zenon


\* Every step is one of a call, which leaves the others alone, or of nobody.
LEMMA OneMoves ==
    ASSUME TypeInv, Next
    PROVE  \/ \E c \in Calls, k \in Keys, e \in Nat : Mutate(c, k, e) /\ Others(c)
           \/ \E c \in Calls, k \in Keys : Resume(c, k) /\ Others(c)
           \/ \E c \in Calls : (Step(c) \/ Abort(c)) /\ Others(c)
           \/ LateWrite \/ LockExpires
<1>1. ASSUME NEW c \in Calls, NEW k \in Keys, NEW e \in 0 .. fact.version, Mutate(c, k, e)
      PROVE  e \in Nat /\ Others(c)
  <2>1. e \in Nat
    BY DEF TypeInv
  <2> QED BY <1>1, <2>1, MutateMove, Zenon
<1>2. ASSUME NEW c \in Calls, NEW k \in Keys, Resume(c, k) PROVE Others(c)
  BY <1>2, ResumeMove, Zenon
<1>3. ASSUME NEW c \in Calls, Step(c) \/ Abort(c) PROVE Others(c)
  <2>1. ASSUME create_pending_review(c) \/ Release(c) \/ Abort(c) PROVE Others(c)
    <3>1. goto(c, "unlock") \/ call' = [call EXCEPT ![c] = IdleCall]
      BY <2>1, Zenon DEF create_pending_review, Release, Abort
    <3>2. UNCHANGED kind
      BY <2>1, Zenon DEF create_pending_review, Release, Abort, ledgerVars, factVars
    <3>3. goto(c, "unlock") => call[c].pc # "idle"
      <4>1. CASE create_pending_review(c) \/ Abort(c)
        BY <4>1, Zenon DEF create_pending_review, Abort, at
      <4>2. CASE Release(c)
        BY <4>2, Zenon DEF Release, at
      <4> QED BY <2>1, <4>1, <4>2, Zenon
    <3> QED BY <3>1, <3>2, <3>3, GotoMove, EndMove, Steps, Zenon
  <2>2. ASSUME Acquire(c) \/ begin_or_replay(c) \/ Decide(c) \/ append_evidence(c) \/ mark_applying(c) PROVE Others(c)
    BY <2>2, AcquireMove, BeginMove, DecideMove, EvidenceMove, ApplyingMove, ZenonT(60)
  <2>3. ASSUME Probe(c) \/ Stage(c) \/ Staged(c) \/ Finalize(c) \/ Reprobe(c) PROVE Others(c)
    BY <2>3, ProbeMove, StageMove, StagedMove, FinalizeMove, ReprobeMove, ZenonT(60)
  <2>4. ASSUME Activate(c) \/ Retire(c) \/ Activated(c) \/ mark_partial(c) \/ mark_applied(c) PROVE Others(c)
    BY <2>4, ActivateMove, RetireMove, ActivatedMove, PartialMove, AppliedMove, Zenon
  <2> QED BY <1>3, <2>1, <2>2, <2>3, <2>4, Zenon DEF Step
<1> QED BY <1>1, <1>2, <1>3, Zenon DEF Next

\* Only finalize_canonical leads to the activation of the projections.
LEMMA FinalEntry ==
    ASSUME TypeInv, Next, NEW d \in Calls, call'[d].pc \in FinalPcs
    PROVE  \/ call[d].pc \in FinalPcs /\ call'[d].key = call[d].key /\ call'[d].seen = call[d].seen
           \/ Finalize(d)
<1>1. CASE call'[d] = call[d]
  BY <1>1, Zenon
<1>2. CASE call'[d] # call[d]
  <2>1. \/ \E k \in Keys, e \in Nat : Mutate(d, k, e)
        \/ \E k \in Keys : Resume(d, k)
        \/ Step(d) \/ Abort(d)
    <3>1. ~LateWrite /\ ~LockExpires
      BY <1>2, Zenon DEF LateWrite, LockExpires
    <3> QED BY <1>2, <3>1, OneMoves, Zenon DEF Others
  <2>2. call'[d].pc \notin {"idle", "lock", "begin", "decide", "evidence", "review", "applying", "unlock"}
    BY Steps, Zenon
  <2>3. call'[d].pc \notin StagePcs \cup {"finalize", "partial"}
    BY Steps, Zenon
  <2>4. call'[d] # IdleCall
    BY <2>2 DEF IdleCall
  <2>5. ~(\E k \in Keys, e \in Nat : Mutate(d, k, e)) /\ ~(\E k \in Keys : Resume(d, k))
    BY <2>2, MutateMove, ResumeMove, Zenon
  <2>6. ~Acquire(d) /\ ~begin_or_replay(d) /\ ~Decide(d) /\ ~append_evidence(d)
    BY <2>2, <2>4, AcquireMove, BeginMove, DecideMove, EvidenceMove, Zenon
  <2>7. ~mark_applying(d) /\ ~Probe(d) /\ ~Stage(d) /\ ~Staged(d) /\ ~mark_partial(d) /\ ~mark_applied(d)
    BY <2>2, <2>3, ApplyingMove, ProbeMove, StageMove, StagedMove, PartialMove, AppliedMove, Zenon DEF StagePcs
  <2>8. ~create_pending_review(d) /\ ~Release(d) /\ ~Abort(d)
    <3>1. call'[d] # IdleCall /\ ~goto(d, "unlock")
      BY <2>2, <2>4 DEF goto, TypeInv, CallsOK, CallState
    <3>2. call' # [call EXCEPT ![d] = IdleCall]
      BY <2>4, Zenon DEF TypeInv, CallsOK
    <3> QED BY <3>1, <3>2, Zenon DEF create_pending_review, Release, Abort
  <2>9. Finalize(d) \/ Reprobe(d) \/ Activate(d) \/ Retire(d) \/ Activated(d)
    BY <2>1, <2>5, <2>6, <2>7, <2>8, Zenon DEF Step
  <2>10. CASE ~Finalize(d)
    <3>1. Keeps(d) /\ call[d].pc \in FinalPcs
      BY <2>9, <2>10, ReprobeMove, ActivateMove, RetireMove, ActivatedMove, Steps, ZenonT(60)
    <3> QED BY <3>1, Zenon DEF Keeps
  <2> QED BY <2>10, Zenon
<1> QED BY <1>1, <1>2, Zenon

\* A call that reaches the activation has the fact at its version or beyond.
LEMMA FinalCalls ==
    ASSUME TypeInv, LedgerInv, FinalInv, Next, NEW d \in Calls, call'[d].pc \in FinalPcs
    PROVE  Reached(call[d].key, call[d].seen.after)'
<1>1. fact.version \in Nat /\ call[d].seen.after \in Nat
  BY CallTyped, Zenon DEF TypeInv, CallState, RowState
<1>2. fact' = fact \/ fact'.version = fact.version + 1
  BY FactStep, Zenon
<1>3. CASE call[d].pc \in FinalPcs /\ call'[d].key = call[d].key /\ call'[d].seen = call[d].seen
  <2> DEFINE k == call[d].key
             v == call[d].seen.after
  <2>1. Reached(k, v)
    BY <1>3, Zenon DEF FinalInv
  <2>2. v <= fact'.version /\ (v = fact'.version => fact'.last = k)
    BY <1>1, <1>2, <2>1 DEF Reached
  <2> QED BY <1>3, <2>2, Zenon DEF Reached
<1>4. CASE Finalize(d)
  <2>1. /\ Keeps(d) /\ call[d].pc = "finalize"
        /\ \/ fact.last = call[d].key /\ fact.version = call[d].seen.after /\ UNCHANGED fact
           \/ fact.version = call[d].seen.before /\ fact'.version = fact.version + 1 /\ fact'.last = call[d].key
    <3>1. call'[d].pc # "unlock"
      BY Steps, Zenon
    <3> QED BY <1>4, <3>1, FinalizeMove, Zenon
  <2>2. call[d].seen.decision \in Projecting /\ call[d].seen.decision # None
    BY <2>1, Steps, ZenonT(60) DEF LedgerInv, SeenOK, Projecting
  <2>3. call[d].seen.after = call[d].seen.before + 1
    BY <2>1, <2>2, Remembered, Zenon
  <2> QED BY <1>1, <2>1, <2>3 DEF Reached, Keeps
<1> QED BY <1>3, <1>4, FinalEntry, Zenon


\* A row becomes FINALIZING or APPLIED by a call whose mutation the fact has reached.
LEMMA StatusEntry ==
    ASSUME TypeInv, LedgerInv, Next, NEW k \in Keys,
           row'[k].decision \in Projecting, row'[k].status \in {"FINALIZING", "APPLIED"}
    PROVE  \/ /\ row[k].decision \in Projecting /\ row[k].status \in {"FINALIZING", "APPLIED"}
              /\ row'[k].after = row[k].after /\ row'[k].status = row[k].status
           \/ \E c \in Calls :
                 /\ call[c].key = k /\ row'[k].after = call[c].seen.after /\ row[k].after = call[c].seen.after
                 /\ call[c].pc # "idle" /\ Keeps(c) /\ Others(c)
                 /\ \/ Finalize(c) /\ call'[c].pc \in FinalPcs /\ row'[k].status = "FINALIZING"
                    \/ mark_applied(c) /\ UNCHANGED fact /\ fact.version = row[k].after
<1>1. CASE row'[k] = row[k]
  BY <1>1, Zenon
<1>2. CASE row'[k] # row[k]
  <2>1. PICK c \in Calls : \/ begin_or_replay(c) \/ Decide(c) \/ mark_applying(c) \/ Staged(c) \/ Finalize(c)
                           \/ Activated(c) \/ mark_partial(c) \/ mark_applied(c)
    BY <1>2, ZenonT(60) DEF Next, Mutate, Resume, Step, Abort, LateWrite, LockExpires, Acquire,
         append_evidence, create_pending_review, Probe, Stage, Reprobe, Activate, Retire, Release, ledgerVars, factVars
  <2>2. None \notin Projecting
    BY Zenon DEF Projecting
  <2>3. ~begin_or_replay(c)
    BY <1>2, <2>2, BeginMove, Zenon
  <2>4. ASSUME Decide(c) PROVE FALSE
    <3>1. /\ call[c].key = k /\ row'[k].status = row[k].status
      BY <1>2, <2>4, DecideMove, Zenon
    <3>2. call[c].pc = "decide" /\ row[k].decision = None /\ row[k].status # "NONE"
      BY <2>4, <3>1, Zenon DEF Decide, at, LedgerInv, DecideInv
    <3> QED BY <2>2, <3>1, <3>2, ZenonT(60) DEF LedgerInv, RowInv
  <2>5. ASSUME Staged(c) \/ Activated(c)
        PROVE  /\ row[k].decision \in Projecting /\ row[k].status \in {"FINALIZING", "APPLIED"}
               /\ row'[k].after = row[k].after /\ row'[k].status = row[k].status
    <3>1. call[c].key \in Keys /\ RowKeeps(call[c].key, row[call[c].key].status)
      BY <2>5, StagedMove, ActivatedMove, ZenonT(60)
    <3> QED BY <1>2, <3>1, Zenon DEF RowKeeps
  <2>6. ~mark_applying(c) /\ ~mark_partial(c)
    <3>1. ASSUME mark_applying(c) PROVE FALSE
      <4>1. RowKeeps(call[c].key, "APPLYING")
        BY <1>2, <3>1, ApplyingMove, Zenon
      <4> QED BY <1>2, <4>1, Zenon DEF RowKeeps
    <3>2. ASSUME mark_partial(c) PROVE FALSE
      <4>1. RowKeeps(call[c].key, "PARTIAL")
        BY <3>2, PartialMove, Zenon
      <4> QED BY <1>2, <4>1, Zenon DEF RowKeeps
    <3> QED BY <3>1, <3>2, Zenon
  <2>7. ASSUME Finalize(c) \/ mark_applied(c)
        PROVE  /\ call[c].key = k /\ row'[k].after = call[c].seen.after /\ row[k].after = call[c].seen.after
               /\ call[c].pc # "idle" /\ Keeps(c) /\ Others(c)
               /\ \/ Finalize(c) /\ call'[c].pc \in FinalPcs /\ row'[k].status = "FINALIZING"
                  \/ mark_applied(c) /\ UNCHANGED fact /\ fact.version = row[k].after
    <3>1. Keeps(c) /\ Others(c) /\ call[c].pc \in {"finalize", "applied"} /\ call[c].key \in Keys
      BY <2>7, FinalizeMove, AppliedMove, Zenon
    <3>2. \/ Finalize(c) /\ RowKeeps(call[c].key, "FINALIZING") /\ call'[c].pc \in {"reprobe", "activate"}
          \/ mark_applied(c) /\ RowKeeps(call[c].key, "APPLIED") /\ fact.version = row[call[c].key].after
      BY <1>2, <2>7, FinalizeMove, AppliedMove, Zenon
    <3>3. call[c].key = k /\ row'[k].after = row[k].after
      BY <1>2, <3>2, Zenon DEF RowKeeps
    <3>4. call[c].pc # "idle" /\ call[c].seen.decision \in Projecting
      BY <3>1, Steps, ZenonT(60) DEF LedgerInv, SeenOK
    <3>5. row[k].after = call[c].seen.after
      BY <2>2, <3>3, <3>4, Remembered, Zenon
    <3>6. mark_applied(c) => UNCHANGED fact
      BY Zenon DEF mark_applied, factVars
    <3>7. \/ Finalize(c) /\ call'[c].pc \in FinalPcs /\ row'[k].status = "FINALIZING"
          \/ mark_applied(c) /\ UNCHANGED fact /\ fact.version = row[k].after
      BY <3>2, <3>3, <3>6, Steps, Zenon DEF RowKeeps
    <3> QED BY <3>1, <3>3, <3>4, <3>5, <3>7, Zenon
  <2> QED BY <2>1, <2>3, <2>4, <2>5, <2>6, <2>7, ZenonT(60)
<1> QED BY <1>1, <1>2, ZenonT(60)

\* The fact keeps its authors.
LEMMA FinalStep ==
    ASSUME TypeInv, LedgerInv, FinalInv, Next
    PROVE  FinalInv'
<1>1. ASSUME NEW k \in Keys, row'[k].decision \in Projecting, row'[k].status \in {"FINALIZING", "APPLIED"}
      PROVE  row'[k].after <= fact'.version /\ (row'[k].after = fact'.version => fact'.last = k)
  <2>0. fact.version \in Nat /\ row[k].after \in Nat
    BY Zenon DEF TypeInv, RowState
  <2>1. fact' = fact \/ fact'.version = fact.version + 1
    BY FactStep, Zenon
  <2>2. CASE /\ row[k].decision \in Projecting /\ row[k].status \in {"FINALIZING", "APPLIED"}
             /\ row'[k].after = row[k].after
    <3>1. row[k].after <= fact.version /\ (row[k].after = fact.version => fact.last = k)
      BY <2>2, Zenon DEF FinalInv, OneAuthorPerVersion, finalized
    <3> QED BY <2>0, <2>1, <2>2, <3>1
  <2>3. ASSUME NEW c \in Calls, call[c].key = k, row'[k].after = call[c].seen.after, Keeps(c),
               Finalize(c) /\ call'[c].pc \in FinalPcs
        PROVE  row'[k].after <= fact'.version /\ (row'[k].after = fact'.version => fact'.last = k)
    <3>1. Reached(call[c].key, call[c].seen.after)'
      BY <2>3, FinalCalls, Zenon
    <3> QED BY <2>3, <3>1, Zenon DEF Reached, Keeps
  <2>4. ASSUME NEW c \in Calls, call[c].key = k, row'[k].after = call[c].seen.after, mark_applied(c), UNCHANGED fact
        PROVE  row'[k].after <= fact'.version /\ (row'[k].after = fact'.version => fact'.last = k)
    <3>1. call[c].pc \in FinalPcs
      BY <2>4, AppliedMove, Steps, Zenon
    <3> QED BY <2>4, <3>1, Zenon DEF FinalInv, Reached
  <2> QED BY <1>1, <2>2, <2>3, <2>4, StatusEntry, Zenon
<1>2. ASSUME NEW k \in Keys, finalized(k)'
      PROVE  (finalized(k) /\ row'[k].after = row[k].after) \/ row'[k].after = fact'.version
  <2>1. ASSUME NEW c \in Calls, call[c].key = k, row'[k].after = call[c].seen.after, Keeps(c),
               Finalize(c) /\ call'[c].pc \in FinalPcs
        PROVE  row'[k].after = fact'.version
    <3>1. /\ call[c].pc = "finalize"
          /\ \/ fact.version = call[c].seen.after /\ UNCHANGED fact
             \/ fact.version = call[c].seen.before /\ fact'.version = fact.version + 1
      BY <2>1, FinalizeMove, Steps, Zenon
    <3>2. call[c].seen.decision \in Projecting /\ call[c].seen.decision # None
      BY <3>1, Steps, ZenonT(60) DEF LedgerInv, SeenOK, Projecting
    <3>3. call[c].seen.after = call[c].seen.before + 1
      BY <3>1, <3>2, Remembered, Zenon
    <3> QED BY <2>1, <3>1, <3>3, Zenon
  <2>2. ASSUME NEW c \in Calls, mark_applied(c), UNCHANGED fact, fact.version = row[k].after,
               row'[k].after = call[c].seen.after, row[k].after = call[c].seen.after
        PROVE  row'[k].after = fact'.version
    BY <2>2, Zenon
  <2> QED BY <1>2, <2>1, <2>2, StatusEntry, Zenon DEF finalized
<1>3. ASSUME NEW j \in Keys, NEW k \in Keys, finalized(j)', finalized(k)', row'[j].after = row'[k].after PROVE j = k
  <2>1. CASE row'[j].after = fact'.version
    BY <1>1, <1>3, <2>1, Zenon DEF finalized
  <2>2. CASE row'[j].after # fact'.version
    BY <1>2, <1>3, <2>2, Zenon DEF FinalInv, OneAuthorPerVersion
  <2> QED BY <2>1, <2>2, Zenon
<1>4. OneAuthorPerVersion'
  BY <1>1, <1>3, Zenon DEF OneAuthorPerVersion, finalized
<1>5. \A c \in Calls : (call[c].pc \in FinalPcs => Reached(call[c].key, call[c].seen.after))'
  BY FinalCalls, Zenon
<1> QED BY <1>4, <1>5, Zenon DEF FinalInv


-----------------------------------------------------------------------------
\* The stores: what an operation does to the projections.

Same(p, q) == p.store = q.store /\ p.version = q.version /\ p.entity = q.entity /\ p.key = q.key

\* Staging puts one projection in the place of the one of the same name.
LEMMA StageFacts ==
    ASSUME kind \in Kinds, WellStored(proj), NEW k \in Keys, NEW s \in Stores, NEW v \in Nat
    PROVE  /\ WellStored(stage(k, s, v))
           /\ \A p \in stage(k, s, v) : p.status # "STAGED" => p \in proj
           /\ \A p \in proj : p.store # s => p \in stage(k, s, v)
           /\ \E p \in stage(k, s, v) : p.store = s /\ p.key = k /\ p.version = v
<1> DEFINE e == entity(k, s)
           n == staged(k, s, v)
           S == stage(k, s, v)
<1>1. e \in Contents \cup {None}
  BY Zenon DEF entity, Contents
<1>2. n.store = s /\ n.version = v /\ n.entity = e /\ n.key = k /\ n.status = "STAGED" /\ n \in ProjectionState
  BY <1>1, Zenon DEF staged, ProjectionState
<1>3. \A p : p \in S <=> (p = n \/ (p \in proj /\ (p.store # s \/ p.version # v \/ p.entity # e)))
  BY Zenon DEF stage, others
<1> HIDE DEF n, S, e
<1>4. S \subseteq ProjectionState
  BY <1>2, <1>3, Zenon DEF WellStored
<1>5. ASSUME NEW p \in S PROVE p.entity = entity(p.key, p.store)
  BY <1>2, <1>3, Zenon DEF WellStored, e
<1>6. ASSUME NEW p \in S, NEW q \in S, p.store = q.store, p.version = q.version, p.entity = q.entity PROVE p = q
  BY <1>2, <1>3, <1>6, Zenon DEF WellStored
<1>7. WellStored(S)
  BY <1>4, <1>5, <1>6, Zenon DEF WellStored
<1>8. \E p \in S : p.store = s /\ p.key = k /\ p.version = v
  BY <1>2, <1>3, Zenon
<1>9. \A p \in S : p.status # "STAGED" => p \in proj
  BY <1>2, <1>3, Zenon
<1>10. \A p \in proj : p.store # s => p \in S
  BY <1>3, Zenon
<1> QED BY <1>7, <1>8, <1>9, <1>10, Zenon DEF S

\* Changing statuses keeps the projections well stored.
LEMMA Relabelled ==
    ASSUME WellStored(proj), NEW f \in [proj -> ProjectionState], \A p \in proj : Same(f[p], p)
    PROVE  WellStored({f[p] : p \in proj})
<1> DEFINE S == {f[p] : p \in proj}
<1>1. \A q \in S : \E p \in proj : q = f[p]
  BY Zenon
<1> HIDE DEF S
<1>2. S \subseteq ProjectionState
  BY <1>1, ZenonT(60)
<1>3. ASSUME NEW q \in S PROVE q.entity = entity(q.key, q.store)
  BY <1>1 DEF WellStored, Same
<1>4. ASSUME NEW p \in S, NEW q \in S, p.store = q.store, p.version = q.version, p.entity = q.entity PROVE p = q
  BY <1>1, <1>4 DEF WellStored, Same
<1>5. WellStored(S)
  BY <1>2, <1>3, <1>4, Zenon DEF WellStored
<1> QED BY <1>5, Zenon DEF S

\* Activation shows the projections of one version.
LEMMA ActivateFacts ==
    ASSUME WellStored(proj), NEW s, NEW v
    PROVE  /\ WellStored(activate(s, v))
           /\ \A q \in activate(s, v) : \E p \in proj :
                 Same(q, p) /\ q.status = IF p.store = s /\ p.version = v THEN "ACTIVE" ELSE p.status
           /\ \A p \in proj : \E q \in activate(s, v) :
                 Same(q, p) /\ q.status = IF p.store = s /\ p.version = v THEN "ACTIVE" ELSE p.status
<1> DEFINE f == [p \in proj |-> IF p.store = s /\ p.version = v THEN [p EXCEPT !.status = "ACTIVE"] ELSE p]
           S == activate(s, v)
<1>0. f \in [proj -> ProjectionState]
  BY DEF WellStored, ProjectionState
<1>1. S = {f[p] : p \in proj}
  BY Zenon DEF activate
<1>2. \A p \in proj : /\ Same(f[p], p)
                      /\ f[p].status = IF p.store = s /\ p.version = v THEN "ACTIVE" ELSE p.status
  BY Zenon DEF WellStored, ProjectionState, Same
<1> HIDE DEF S, f
<1>3. WellStored(S)
  BY <1>0, <1>1, <1>2, Relabelled, Zenon
<1> QED BY <1>1, <1>2, <1>3 DEF S

\* Retiring hides the projections of older versions.
LEMMA RetireFacts ==
    ASSUME WellStored(proj), NEW s, NEW v
    PROVE  /\ WellStored(retire_previous(s, v))
           /\ \A q \in retire_previous(s, v) : \E p \in proj :
                 /\ Same(q, p)
                 /\ q.status = IF p.store = s /\ p.version < v /\ p.status = "ACTIVE" THEN "RETIRED" ELSE p.status
           /\ \A p \in proj : \E q \in retire_previous(s, v) :
                 /\ Same(q, p)
                 /\ q.status = IF p.store = s /\ p.version < v /\ p.status = "ACTIVE" THEN "RETIRED" ELSE p.status
<1> DEFINE f == [p \in proj |-> IF p.store = s /\ p.version < v /\ p.status = "ACTIVE" THEN [p EXCEPT !.status = "RETIRED"] ELSE p]
           S == retire_previous(s, v)
<1>0. f \in [proj -> ProjectionState]
  BY DEF WellStored, ProjectionState
<1>1. S = {f[p] : p \in proj}
  BY Zenon DEF retire_previous
<1>2. \A p \in proj :
         /\ Same(f[p], p)
         /\ f[p].status = IF p.store = s /\ p.version < v /\ p.status = "ACTIVE" THEN "RETIRED" ELSE p.status
  BY DEF WellStored, ProjectionState, Same
<1> HIDE DEF S, f
<1>3. WellStored(S)
  BY <1>0, <1>1, <1>2, Relabelled, Zenon
<1> QED BY <1>1, <1>2, <1>3 DEF S


\* An operation on a store, on behalf of a call or late.
LEMMA PerformedFacts ==
    ASSUME TypeInv, StoreInv, NEW w \in OperationState, w.op = "activate" => w.version <= fact.version
    PROVE  /\ WellStored(performed(w))
           /\ \A p \in performed(w) : p.status = "ACTIVE" => p.version <= fact.version
<1>0. kind \in Kinds /\ w.key \in Keys /\ w.store \in Stores /\ w.version \in Nat /\ WellStored(proj)
  BY Zenon DEF TypeInv, OperationState, StoreInv
<1>1. CASE w.op = "stage"
  <2>1. performed(w) = stage(w.key, w.store, w.version)
    BY <1>1, Zenon DEF performed
  <2> QED BY <1>0, <2>1, StageFacts DEF StoreInv
<1>2. CASE w.op = "activate"
  <2>1. performed(w) = activate(w.store, w.version)
    BY <1>2, Zenon DEF performed
  <2>2. \A q \in activate(w.store, w.version) : \E p \in proj :
           Same(q, p) /\ q.status = IF p.store = w.store /\ p.version = w.version THEN "ACTIVE" ELSE p.status
    BY <1>0, ActivateFacts, ZenonT(60)
  <2>3. \A q \in activate(w.store, w.version) : q.status = "ACTIVE" => q.version <= fact.version
    BY <1>2, <2>2 DEF StoreInv, Same
  <2> QED BY <1>0, <2>1, <2>3, ActivateFacts
<1>3. CASE w.op = "retire"
  <2>1. performed(w) = retire_previous(w.store, w.version)
    BY <1>3, Zenon DEF performed
  <2>2. \A q \in retire_previous(w.store, w.version) : \E p \in proj :
           /\ Same(q, p)
           /\ q.status = IF p.store = w.store /\ p.version < w.version /\ p.status = "ACTIVE" THEN "RETIRED" ELSE p.status
    BY <1>0, RetireFacts
  <2>3. \A q \in retire_previous(w.store, w.version) : q.status = "ACTIVE" => q.version <= fact.version
    BY <2>2, Zenon DEF StoreInv, Same
  <2> QED BY <1>0, <2>1, <2>3, RetireFacts
<1> QED BY <1>1, <1>2, <1>3, Zenon DEF OperationState

\* The operation a call is performing.
LEMMA OperationTyped ==
    ASSUME TypeInv, FinalInv, NEW c \in Calls, NEW op \in {"stage", "activate", "retire"}, call[c].pc = op
    PROVE  LET w == operation(c, op)
           IN  /\ w \in OperationState /\ w.op = op
               /\ w.key = call[c].key /\ w.store = target(c) /\ w.version = call[c].seen.after
               /\ w.store \in targets /\ w.store \in call[c].todo
               /\ op = "activate" => w.version <= fact.version
<1>1. call[c].key \in Keys /\ call[c].todo # {} /\ call[c].seen.after \in Nat
  BY CallTyped, Zenon DEF CallOK, CallState, RowState, StagePcs, ActivatePcs
<1>2. op = "activate" => call[c].seen.after <= fact.version
  BY Steps, Zenon DEF FinalInv, Reached
<1> QED BY <1>1, <1>2, TargetOK, ZenonT(60) DEF operation, OperationState

\* The steps that work on the stores.
LEMMA StoreMoves ==
    ASSUME TypeInv, FinalInv, Next
    PROVE  \/ UNCHANGED <<proj, late>> /\ faults'.disturbed >= faults.disturbed
           \/ \E c \in Calls, op \in {"stage", "activate", "retire"} :
                 /\ call[c].pc = op /\ Others(c) /\ UNCHANGED <<fact, kind, lock>>
                 /\ op = "stage" => Stage(c)
                 /\ op = "activate" => Activate(c)
                 /\ op = "retire" => Retire(c)
                 /\ \/ proj' \in {proj, performed(operation(c, op))} /\ UNCHANGED late
                    \/ proj' = proj /\ late' = late \cup {operation(c, op)} /\ faults'.disturbed > 0
                 /\ faults'.disturbed >= faults.disturbed
           \/ LateWrite
<1>0. faults.failed \in Nat /\ faults.disturbed \in Nat /\ faults \in [failed : Nat, disturbed : Nat]
  BY Zenon DEF TypeInv
<1>1. ASSUME NEW c \in Calls, Stage(c) \/ Activate(c) \/ Retire(c)
      PROVE \E op \in {"stage", "activate", "retire"} :
                 /\ call[c].pc = op /\ Others(c) /\ UNCHANGED <<fact, kind, lock>>
                 /\ op = "stage" => Stage(c)
                 /\ op = "activate" => Activate(c)
                 /\ op = "retire" => Retire(c)
                 /\ \/ proj' \in {proj, performed(operation(c, op))} /\ UNCHANGED late
                    \/ proj' = proj /\ late' = late \cup {operation(c, op)} /\ faults'.disturbed > 0
                 /\ faults'.disturbed >= faults.disturbed
  <2>1. PICK op \in {"stage", "activate", "retire"} :
           /\ call[c].pc = op /\ Others(c)
           /\ (op = "stage" /\ Stage(c)) \/ (op = "activate" /\ Activate(c)) \/ (op = "retire" /\ Retire(c))
           /\ succeeds(operation(c, op)) \/ fails(operation(c, op))
    BY <1>1, StageMove, ActivateMove, RetireMove, Zenon
  <2>2. UNCHANGED <<fact, kind, lock>>
    BY <1>1, Zenon DEF Stage, Activate, Retire, ledgerVars, factVars
  <2> DEFINE w == operation(c, op)
  <2>3. CASE succeeds(w)
    <3>1. proj' = performed(w) /\ UNCHANGED late /\ faults'.disturbed = faults.disturbed
      BY <2>3, Zenon DEF succeeds
    <3>2. faults'.disturbed >= faults.disturbed
      BY <1>0, <3>1
    <3> QED BY <2>1, <2>2, <3>1, <3>2, Zenon
  <2>4. CASE fails(w)
    <3>1. /\ \/ proj' \in {proj, performed(w)} /\ UNCHANGED late
             \/ proj' = proj /\ late' = late \cup {w} /\ faults'.disturbed > 0
          /\ faults'.disturbed >= faults.disturbed
      <4> HIDE DEF w
      <4>1. \/ /\ proj' \in {proj, performed(w)} /\ UNCHANGED late
               /\ faults' = [faults EXCEPT !.failed = @ + 1]
            \/ /\ proj' = proj /\ late' = late \cup {w}
               /\ faults' = [faults EXCEPT !.failed = @ + 1, !.disturbed = @ + 1]
        BY <2>4, Zenon DEF fails
      <4>2. faults' = [faults EXCEPT !.failed = @ + 1] => faults'.disturbed = faults.disturbed
        BY <1>0, Zenon
      <4>3. faults' = [faults EXCEPT !.failed = @ + 1, !.disturbed = @ + 1] => faults'.disturbed = faults.disturbed + 1
        BY <1>0, Zenon
      <4> QED BY <1>0, <4>1, <4>2, <4>3
    <3> QED BY <2>1, <2>2, <3>1, Zenon
  <2> QED BY <2>1, <2>3, <2>4, ZenonT(60)
<1>2. ASSUME NEW c \in Calls, Step(c) \/ Abort(c), ~Stage(c), ~Activate(c), ~Retire(c)
      PROVE  UNCHANGED <<proj, late>> /\ faults'.disturbed >= faults.disturbed
  <2>1. UNCHANGED <<proj, late>>
    BY <1>2, Zenon DEF Step, Abort, Acquire, begin_or_replay, Decide, append_evidence, create_pending_review,
         mark_applying, Probe, Staged, Finalize, Reprobe, Activated, mark_partial, mark_applied, Release, storeVars
  <2>2. UNCHANGED faults \/ faults' = [faults EXCEPT !.failed = @ + 1]
    BY <1>2, Zenon DEF Step, Abort, Acquire, begin_or_replay, Decide, append_evidence, create_pending_review,
         mark_applying, Probe, Staged, Finalize, Reprobe, Activated, mark_partial, mark_applied, Release, envVars
  <2> QED BY <1>0, <2>1, <2>2
<1>3. ASSUME LockExpires PROVE UNCHANGED <<proj, late>> /\ faults'.disturbed >= faults.disturbed
  BY <1>0, <1>3 DEF LockExpires, storeVars
<1>4. ASSUME NEW c, NEW k, NEW e, Mutate(c, k, e) \/ Resume(c, k)
      PROVE  UNCHANGED <<proj, late>> /\ faults'.disturbed >= faults.disturbed
  BY <1>0, <1>4 DEF Mutate, Resume, storeVars
<1> QED BY <1>1, <1>2, <1>3, <1>4, Zenon DEF Next


\* The stores stay in order, whoever writes to them.
LEMMA StoreStep ==
    ASSUME TypeInv, LedgerInv, FinalInv, StoreInv, Next
    PROVE  StoreInv' /\ late' \subseteq OperationState
<1>0. /\ kind' = kind /\ fact.version \in Nat /\ fact'.version \in Nat /\ fact.version <= fact'.version
      /\ late \subseteq OperationState
  BY LedgerStep, FactStep DEF TypeInv
<1>2. ASSUME NEW w \in OperationState, w.op = "activate" => w.version <= fact.version, proj' \in {proj, performed(w)},
             late' \subseteq late \cup {w}
      PROVE  StoreInv' /\ late' \subseteq OperationState
  <2>1. WellStored(proj') /\ \A p \in proj' : p.status = "ACTIVE" => p.version <= fact.version
    BY <1>2, PerformedFacts, Zenon DEF StoreInv
  <2>2. WellStored(proj)'
    BY <1>0, <2>1, Zenon DEF WellStored, entity
  <2>3. ASSUME NEW p \in proj', p.status = "ACTIVE" PROVE p.version <= fact'.version
    <3>1. p.version \in Nat /\ p.version <= fact.version
      BY <2>1, <2>3, Zenon DEF WellStored, ProjectionState
    <3> QED BY <1>0, <3>1
  <2>4. \A u \in late' : u \in OperationState /\ (u.op = "activate" => u.version <= fact'.version)
    BY <1>0, <1>2 DEF StoreInv, OperationState
  <2> QED BY <2>2, <2>3, <2>4, Zenon DEF StoreInv
<1>3. CASE UNCHANGED <<proj, late>>
  <2>1. WellStored(proj)'
    BY <1>0, <1>3, Zenon DEF WellStored, entity, StoreInv
  <2>2. \A p \in proj' : p.status = "ACTIVE" => p.version <= fact'.version
    BY <1>0, <1>3 DEF WellStored, ProjectionState, StoreInv
  <2>3. \A u \in late' : u \in OperationState /\ (u.op = "activate" => u.version <= fact'.version)
    BY <1>0, <1>3 DEF StoreInv, OperationState
  <2> QED BY <2>1, <2>2, <2>3, Zenon DEF StoreInv
<1>4. ASSUME NEW c \in Calls, NEW op \in {"stage", "activate", "retire"}, call[c].pc = op,
             \/ proj' \in {proj, performed(operation(c, op))} /\ UNCHANGED late
             \/ proj' = proj /\ late' = late \cup {operation(c, op)}
      PROVE  StoreInv' /\ late' \subseteq OperationState
  <2> DEFINE w == operation(c, op)
  <2>1. w \in OperationState /\ (w.op = "activate" => w.version <= fact.version)
    BY <1>4, OperationTyped, Zenon
  <2>2. proj' \in {proj, performed(w)} /\ late' \subseteq late \cup {w}
    BY <1>4, Zenon
  <2> HIDE DEF w
  <2> QED BY <1>2, <2>1, <2>2, Zenon
<1>5. CASE LateWrite
  <2>1. PICK w \in late : proj' = performed(w) /\ late' = late \ {w}
    BY <1>5, Zenon DEF LateWrite
  <2>2. w \in OperationState /\ (w.op = "activate" => w.version <= fact.version)
    BY <1>0, ZenonT(60) DEF StoreInv
  <2> QED BY <1>2, <2>1, <2>2, Zenon
<1> QED BY <1>3, <1>4, <1>5, StoreMoves, Zenon

\* The types of everything else.
LEMMA TypeStep ==
    ASSUME TypeInv, LedgerInv, FinalInv, StoreInv, Next
    PROVE  TypeInv'
<1>0. lock \in Calls \cup {None} /\ faults \in [failed : Nat, disturbed : Nat] /\ fact.version \in Nat
  BY Zenon DEF TypeInv
<1>1. kind' \in Kinds /\ row' \in [Keys -> RowState] /\ CallsOK'
  BY LedgerStep, Zenon DEF TypeInv
<1>2. fact'.version \in Nat
  BY <1>0, FactStep
<1>3. late' \subseteq OperationState
  BY StoreStep, Zenon
<1>4. lock' \in Calls \cup {None}
  <2>1. lock' \in {lock, None} \/ \E c \in Calls : lock' = c
    BY ZenonT(60) DEF Next, Mutate, Resume, Step, Abort, LateWrite, LockExpires, Acquire, begin_or_replay, Decide,
         append_evidence, create_pending_review, mark_applying, Probe, Stage, Staged, Finalize, Reprobe, Activate, Retire,
         Activated, mark_partial, mark_applied, Release
  <2> QED BY <1>0, <2>1, Zenon
<1>5. faults' \in [failed : Nat, disturbed : Nat]
  <2>1. \/ UNCHANGED faults \/ faults' = [faults EXCEPT !.failed = @ + 1]
        \/ faults' = [faults EXCEPT !.disturbed = @ + 1]
        \/ faults' = [faults EXCEPT !.failed = @ + 1, !.disturbed = @ + 1]
    <3>1. ASSUME NEW c \in Calls, Step(c) \/ Abort(c)
          PROVE  \/ UNCHANGED faults \/ faults' = [faults EXCEPT !.failed = @ + 1]
                 \/ faults' = [faults EXCEPT !.failed = @ + 1, !.disturbed = @ + 1]
      BY <3>1, Zenon DEF Step, Abort, Acquire, begin_or_replay, Decide, append_evidence, create_pending_review,
         mark_applying, Probe, Stage, Staged, Finalize, Reprobe, Activate, Retire, Activated, mark_partial, mark_applied,
         Release, envVars, succeeds, fails
    <3>2. ASSUME Next, \A c \in Calls : ~Step(c) /\ ~Abort(c)
          PROVE  UNCHANGED faults \/ faults' = [faults EXCEPT !.disturbed = @ + 1]
      BY <3>2, Zenon DEF Next, Mutate, Resume, LateWrite, LockExpires, envVars
    <3> QED BY <3>1, <3>2, Zenon
  <2>2. /\ [faults EXCEPT !.failed = @ + 1] \in [failed : Nat, disturbed : Nat]
        /\ [faults EXCEPT !.disturbed = @ + 1] \in [failed : Nat, disturbed : Nat]
    BY <1>0
  <2>3. [faults EXCEPT !.failed = @ + 1, !.disturbed = @ + 1] \in [failed : Nat, disturbed : Nat]
    <3>1. ASSUME NEW i \in Nat, NEW j \in Nat
          PROVE  [faults EXCEPT !.failed = i, !.disturbed = j] \in [failed : Nat, disturbed : Nat]
      BY <1>0, Zenon
    <3>2. faults.failed + 1 \in Nat /\ faults.disturbed + 1 \in Nat
      BY <1>0
    <3> QED BY <3>1, <3>2, Zenon
  <2> QED BY <1>0, <2>1, <2>2, <2>3, Zenon
<1> QED BY <1>1, <1>2, <1>3, <1>4, <1>5, Zenon DEF TypeInv


-----------------------------------------------------------------------------
\* The lock: without disturbance, one call works on the fact.

\* Disturbances are counted and not forgotten.
LEMMA Disturbed ==
    ASSUME TypeInv, FinalInv, Next, undisturbed'
    PROVE  undisturbed
<1>1. faults.disturbed \in Nat
  BY Zenon DEF TypeInv
<1>2. faults'.disturbed >= faults.disturbed
  <2>1. LateWrite => UNCHANGED faults
    BY Zenon DEF LateWrite, envVars
  <2> QED BY <1>1, <2>1, StoreMoves
<1> QED BY <1>1, <1>2 DEF undisturbed

\* A step of a call under the lock leaves the lock alone; Release ends the call.
LEMMA LockMoves ==
    ASSUME TypeInv, NEW c \in Calls, Step(c) \/ Abort(c), ~Acquire(c), call'[c].pc \notin {"idle", "lock"}
    PROVE  UNCHANGED lock /\ call[c].pc \notin {"idle", "lock"}
<1>1. ~Release(c)
  <2>1. Release(c) => call'[c] = IdleCall
    BY EndMove, Zenon DEF Release, ledgerVars, factVars
  <2>2. IdleCall.pc = "idle"
    BY Zenon DEF IdleCall
  <2> QED BY <2>1, <2>2, Zenon
<1>2. UNCHANGED lock
  BY <1>1, Zenon DEF Step, Abort, begin_or_replay, Decide, append_evidence, create_pending_review,
         mark_applying, Probe, Stage, Staged, Finalize, Reprobe, Activate, Retire, Activated, mark_partial, mark_applied
<1>3. call[c].pc \notin {"idle", "lock"}
  BY <1>1, Zenon DEF Step, Abort, begin_or_replay, Decide, append_evidence, create_pending_review,
         mark_applying, Probe, Stage, Staged, Finalize, Reprobe, Activate, Retire, Activated, mark_partial, mark_applied, at
<1> QED BY <1>2, <1>3, Zenon

\* The lock excludes the other calls.
LEMMA LockStep ==
    ASSUME TypeInv, FinalInv, LockInv, Next
    PROVE  LockInv'
<1> SUFFICES ASSUME undisturbed' PROVE late' = {} /\ \A d \in Calls : call'[d].pc \notin {"idle", "lock"} => lock' = d
  BY Zenon DEF LockInv
<1>0. undisturbed /\ late = {} /\ (\A d \in Calls : call[d].pc \notin {"idle", "lock"} => lock = d) /\ faults.disturbed \in Nat
  BY Disturbed, Zenon DEF LockInv, TypeInv
<1>1. late' = {}
  <2>1. ~LateWrite
    BY <1>0, Zenon DEF LateWrite
  <2>2. ~(faults'.disturbed > 0)
    BY DEF undisturbed
  <2> QED BY <1>0, <2>1, <2>2, StoreMoves, Zenon
<1>2. ASSUME NEW c \in Calls, Others(c), Step(c) \/ Abort(c), NEW d \in Calls, call'[d].pc \notin {"idle", "lock"}
      PROVE  lock' = d
  <2>1. CASE Acquire(c)
    <3>1. \/ lock = None /\ lock' = c
          \/ UNCHANGED lock /\ call'[c] = IdleCall
      BY <2>1, AcquireMove, Zenon
    <3>2. d # c => lock = d /\ lock # None
      BY <1>0, <1>2, Zenon DEF Others
    <3>3. IdleCall.pc = "idle"
      BY Zenon DEF IdleCall
    <3> QED BY <1>2, <3>1, <3>2, <3>3
  <2>2. CASE ~Acquire(c) /\ d = c
    BY <1>0, <1>2, <2>2, LockMoves, Zenon
  <2>3. CASE ~Acquire(c) /\ d # c
    <3>1. lock = d /\ d # c
      BY <1>0, <1>2, <2>3, Zenon DEF Others
    <3>2. UNCHANGED lock \/ lock' = (IF lock = c THEN None ELSE lock)
      BY <1>2, <2>3, Zenon DEF Step, Abort, begin_or_replay, Decide, append_evidence, create_pending_review,
         mark_applying, Probe, Stage, Staged, Finalize, Reprobe, Activate, Retire, Activated, mark_partial, mark_applied,
         Release
    <3> QED BY <3>1, <3>2, Zenon
  <2> QED BY <2>1, <2>2, <2>3, Zenon
<1>3. ASSUME NEW c \in Calls, Others(c), UNCHANGED lock, call'[c].pc = "lock", NEW d \in Calls, call'[d].pc \notin {"idle", "lock"}
      PROVE  lock' = d
  BY <1>0, <1>3, Zenon DEF Others
<1>4. ASSUME NEW c \in Calls, NEW k \in Keys, NEW e \in Nat, Mutate(c, k, e) PROVE UNCHANGED lock /\ call'[c].pc = "lock"
  BY <1>4, MutateMove, ZenonT(60) DEF Mutate
<1>5. ASSUME NEW c \in Calls, NEW k \in Keys, Resume(c, k) PROVE UNCHANGED lock /\ call'[c].pc = "lock"
  BY <1>5, ResumeMove, Zenon DEF Resume
<1>6. ASSUME LateWrite \/ LockExpires, NEW d \in Calls, call'[d].pc \notin {"idle", "lock"} PROVE lock' = d
  <2>1. UNCHANGED call /\ lock = d
    BY <1>0, <1>6, Zenon DEF LateWrite, LockExpires
  <2>2. ~LockExpires
    BY <1>0, <1>6, <2>1 DEF LockExpires, undisturbed, TypeInv
  <2> QED BY <1>6, <2>1, <2>2, Zenon DEF LateWrite
<1> QED BY <1>1, <1>2, <1>3, <1>4, <1>5, <1>6, OneMoves, Zenon


-----------------------------------------------------------------------------
\* The projections of the mutation that is applied under the lock.

\* What a call works on.
LEMMA TargetIs == \A c \in Calls : target(c) = NextOf(call[c].todo)
BY Zenon DEF target, NextOf

\* Only staging a store takes a projection from it, and only retiring hides one.
LEMMA OperationKeeps ==
    ASSUME TypeInv, StoreInv, NEW w \in OperationState, NEW k, NEW s, NEW v \in Nat
    PROVE  /\ Holds(proj, k, s, v) /\ (w.op # "stage" \/ w.store # s) => Holds(performed(w), k, s, v)
           /\ Shows(proj, k, s, v) /\ (w.op = "activate" \/ (w.op = "retire" /\ w.version <= v)) =>
                 Shows(performed(w), k, s, v)
           /\ w.op = "stage" => Holds(performed(w), w.key, w.store, w.version)
           /\ w.op = "activate" /\ Holds(proj, k, w.store, w.version) => Shows(performed(w), k, w.store, w.version)
<1>0. kind \in Kinds /\ w.key \in Keys /\ w.store \in Stores /\ w.version \in Nat /\ WellStored(proj)
  BY Zenon DEF TypeInv, OperationState, StoreInv
<1>1. CASE w.op = "stage"
  <2>1. performed(w) = stage(w.key, w.store, w.version)
    BY <1>1, Zenon DEF performed
  <2>2. /\ \A p \in proj : p.store # w.store => p \in performed(w)
        /\ \E p \in performed(w) : p.store = w.store /\ p.key = w.key /\ p.version = w.version
    BY <1>0, <2>1, StageFacts
  <2> QED BY <1>1, <2>2, Zenon DEF Holds
<1>2. CASE w.op = "activate"
  <2>1. performed(w) = activate(w.store, w.version)
    BY <1>2, Zenon DEF performed
  <2>2. \A p \in proj : \E q \in performed(w) :
           Same(q, p) /\ q.status = IF p.store = w.store /\ p.version = w.version THEN "ACTIVE" ELSE p.status
    BY <1>0, <2>1, ActivateFacts
  <2> QED BY <1>2, <2>2 DEF Holds, Shows, Same
<1>3. CASE w.op = "retire"
  <2>1. performed(w) = retire_previous(w.store, w.version)
    BY <1>3, Zenon DEF performed
  <2>2. \A p \in proj : \E q \in performed(w) :
           /\ Same(q, p)
           /\ q.status = IF p.store = w.store /\ p.version < w.version /\ p.status = "ACTIVE" THEN "RETIRED" ELSE p.status
    BY <1>0, <2>1, RetireFacts
  <2>3. Holds(proj, k, s, v) => Holds(performed(w), k, s, v)
    BY <2>2, ZenonT(60) DEF Holds, Same
  <2>4. Shows(proj, k, s, v) /\ w.version <= v => Shows(performed(w), k, s, v)
    BY <1>0, <2>2 DEF Shows, Same
  <2> QED BY <1>3, <2>3, <2>4, Zenon
<1> QED BY <1>1, <1>2, <1>3, Zenon DEF OperationState

LEMMA HoldsKept ==
    ASSUME TypeInv, StoreInv, NEW w \in OperationState, NEW k, NEW s, NEW v \in Nat,
           Holds(proj, k, s, v), w.op # "stage" \/ w.store # s
    PROVE  Holds(performed(w), k, s, v)
BY OperationKeeps, Zenon

LEMMA ShowsKept ==
    ASSUME TypeInv, StoreInv, NEW w \in OperationState, NEW k, NEW s, NEW v \in Nat,
           Shows(proj, k, s, v), w.op = "activate" \/ (w.op = "retire" /\ w.version <= v)
    PROVE  Shows(performed(w), k, s, v)
BY OperationKeeps, Zenon

\* What a store operation of a call leaves behind.
LEMMA Outcome ==
    ASSUME NEW w, succeeds(w) \/ fails(w)
    PROVE  proj' \in {proj, performed(w)} /\ (succeeds(w) => proj' = performed(w))
BY Zenon DEF succeeds, fails

\* The steps that stage the projections.
LEMMA StagingProgress ==
    ASSUME TypeInv, FinalInv, StoreInv, UNCHANGED kind, NEW c \in Calls, Progress(call[c], proj),
           mark_applying(c) \/ Probe(c) \/ Stage(c) \/ Staged(c)
    PROVE  Progress(call'[c], proj')
<1> DEFINE k == call[c].key
           v == call[c].seen.after
           y == call'[c]
           T == call[c].todo
<1>0. v \in Nat /\ target(c) = NextOf(T) /\ T \subseteq targets
  BY CallTyped, TargetIs, Zenon DEF CallState, RowState, CallOK
<1>1. CASE mark_applying(c)
  <2>1. Keeps(c) /\ (y.pc = "unlock" \/ (y.pc \in {"probe", "stage"} /\ y.todo = targets))
    BY <1>1, ApplyingMove, Zenon
  <2> HIDE DEF y
  <2>2. y.pc \notin FinalPcs /\ y.pc \notin {"staged", "retire", "activated"}
    BY <2>1, Steps, Zenon
  <2>3. y.pc \in StagePcs \cup {"finalize"} => targets \ y.todo = {}
    BY <2>1, Zenon DEF StagePcs
  <2> QED BY <2>2, <2>3, ZenonT(60) DEF Progress, y
<1>2. CASE Probe(c)
  <2>1. /\ Keeps(c) /\ call[c].pc = "probe" /\ y.todo = T /\ y.failed = call[c].failed
        /\ \/ y.pc = "stage"
           \/ y.pc = "staged" /\ Holds(proj, k, target(c), v)
    BY <1>2, ProbeMove, Zenon
  <2>2. proj' = proj
    BY <1>2, Zenon DEF Probe, storeVars
  <2>3. y.key = k /\ y.seen.after = v
    BY <2>1, Zenon DEF Keeps
  <2> HIDE DEF y
  <2>4. y.pc \notin FinalPcs /\ y.pc \notin {"retire", "activated"} /\ call[c].pc \in StagePcs
    BY <2>1, Steps, ZenonT(60)
  <2>5. ~y.failed => \A s \in targets \ y.todo : Holds(proj, k, s, v)
    BY <2>1, <2>4, ZenonT(60) DEF Progress
  <2> QED BY <1>0, <2>1, <2>2, <2>3, <2>4, <2>5, ZenonT(60) DEF Progress, y
<1>3. CASE Stage(c)
  <2> DEFINE w == operation(c, "stage")
  <2>1. /\ Keeps(c) /\ call[c].pc = "stage" /\ y.pc = "staged" /\ y.todo = T /\ y.failed = call[c].failed
        /\ \/ succeeds(w) /\ y.found = "STAGED"
           \/ fails(w) /\ y.found = "FAILED"
    BY <1>3, StageMove, ZenonT(60)
  <2>2. proj' \in {proj, performed(w)} /\ (y.found # "FAILED" => proj' = performed(w))
    BY <2>1, Outcome, ZenonT(60)
  <2>3. y.key = k /\ y.seen.after = v
    BY <2>1, ZenonT(60) DEF Keeps
  <2>4. w \in OperationState /\ w.op = "stage" /\ w.key = k /\ w.store = target(c) /\ w.version = v /\ w.store \in T
    BY <2>1, OperationTyped, ZenonT(60)
  <2> HIDE DEF y, w
  <2>5. y.pc \notin FinalPcs /\ y.pc \notin {"retire", "activated"} /\ call[c].pc \in StagePcs
    BY <2>1, Steps, ZenonT(60)
  <2>6. ASSUME ~y.failed, NEW s \in targets \ y.todo PROVE Holds(proj', k, s, v)
    <3>1. Holds(proj, k, s, v) /\ s # w.store
      BY <2>1, <2>4, <2>5, <2>6, Zenon DEF Progress
    <3>2. Holds(performed(w), k, s, v)
      BY <1>0, <2>4, <3>1, HoldsKept, Zenon
    <3> QED BY <2>2, <3>1, <3>2, Zenon
  <2>7. y.found # "FAILED" => Holds(proj', k, NextOf(y.todo), v)
    BY <1>0, <2>1, <2>2, <2>4, OperationKeeps, ZenonT(60)
  <2> QED BY <2>1, <2>3, <2>5, <2>6, <2>7, ZenonT(60) DEF Progress, y
<1>4. CASE Staged(c)
  <2>1. /\ Keeps(c) /\ call[c].pc = "staged" /\ y.todo = T \ {target(c)}
        /\ y.failed = (call[c].failed \/ call[c].found = "FAILED")
        /\ y.pc \in {"probe", "stage", "partial", "finalize"}
    BY <1>4, StagedMove, Zenon
  <2>2. proj' = proj
    BY <1>4, Zenon DEF Staged, storeVars
  <2>3. y.key = k /\ y.seen.after = v
    BY <2>1, ZenonT(60) DEF Keeps
  <2> HIDE DEF y
  <2>4. y.pc \notin FinalPcs /\ y.pc \notin {"staged", "retire", "activated"} /\ call[c].pc \in StagePcs
    BY <2>1, Steps, ZenonT(60)
  <2>5. ASSUME ~y.failed, NEW s \in targets \ y.todo PROVE Holds(proj, k, s, v)
    <3>1. ~call[c].failed /\ call[c].found # "FAILED"
      BY <2>1, <2>5, ZenonT(60)
    <3>2. CASE s = target(c)
      BY <1>0, <2>1, <3>1, <3>2, ZenonT(60) DEF Progress
    <3>3. CASE s # target(c)
      BY <2>1, <2>4, <2>5, <3>1, <3>3, ZenonT(60) DEF Progress
    <3> QED BY <3>2, <3>3, Zenon
  <2> QED BY <2>2, <2>3, <2>4, <2>5, ZenonT(60) DEF Progress, y
<1> QED BY <1>1, <1>2, <1>3, <1>4, Zenon

\* The steps that show them.
LEMMA ShowingProgress ==
    ASSUME TypeInv, FinalInv, StoreInv, UNCHANGED kind, NEW c \in Calls, Progress(call[c], proj),
           Finalize(c) \/ Reprobe(c) \/ Activate(c) \/ Retire(c) \/ Activated(c)
    PROVE  Progress(call'[c], proj')
<1> DEFINE k == call[c].key
           v == call[c].seen.after
           y == call'[c]
           T == call[c].todo
<1>0. v \in Nat /\ target(c) = NextOf(T) /\ T \subseteq targets
  BY CallTyped, TargetIs, ZenonT(60) DEF CallState, RowState, CallOK
<1>1. CASE Finalize(c)
  <2>1. /\ Keeps(c) /\ call[c].pc = "finalize"
        /\ (y.pc = "unlock" \/ (y.pc \in {"reprobe", "activate"} /\ y.todo = targets))
    BY <1>1, FinalizeMove, Zenon
  <2>2. proj' = proj
    BY <1>1, Zenon DEF Finalize, storeVars
  <2>3. y.key = k /\ y.seen.after = v
    BY <2>1, Zenon DEF Keeps
  <2>4. T = {} /\ ~call[c].failed
    BY <2>1, CallTyped, Zenon DEF CallOK
  <2> HIDE DEF y
  <2>5. y.pc \notin StagePcs \cup {"finalize"} /\ y.pc \notin {"staged", "retire", "activated"}
    BY <2>1, Steps, Zenon
  <2>6. \A s \in targets : Holds(proj, k, s, v)
    BY <2>1, <2>4, Zenon DEF Progress
  <2>7. y.pc \in FinalPcs => targets \ y.todo = {}
    BY <2>1, Steps, Zenon
  <2> QED BY <2>2, <2>3, <2>5, <2>6, <2>7, ZenonT(60) DEF Progress, y
<1>2. CASE Reprobe(c) \/ Activated(c)
  <2>1. /\ Keeps(c) /\ call[c].pc \in {"reprobe", "activated"} /\ y.failed = call[c].failed
        /\ y.pc \in {"reprobe", "activate", "partial", "applied"}
        /\ \/ y.todo = T
           \/ y.todo = T \ {target(c)} /\ (call[c].pc = "activated" \/ Shows(proj, k, target(c), v))
    BY <1>2, ReprobeMove, ActivatedMove, Zenon
  <2>2. proj' = proj
    BY <1>2, Zenon DEF Reprobe, Activated, storeVars
  <2>3. y.key = k /\ y.seen.after = v
    BY <2>1, ZenonT(60) DEF Keeps
  <2> HIDE DEF y
  <2>4. y.pc \notin StagePcs \cup {"finalize"} /\ y.pc \notin {"staged", "retire", "activated"} /\ call[c].pc \in FinalPcs
    BY <2>1, Steps, ZenonT(60)
  <2>5. \A s \in targets : Holds(proj, k, s, v)
    BY <2>4, ZenonT(60) DEF Progress
  <2>6. call[c].pc = "activated" => Shows(proj, k, target(c), v)
    BY <1>0, ZenonT(60) DEF Progress
  <2>7. ASSUME ~y.failed, NEW s \in targets \ y.todo PROVE Shows(proj, k, s, v)
    <3>1. CASE s \in T
      BY <2>1, <2>6, <2>7, <3>1, ZenonT(60)
    <3>2. CASE s \notin T
      BY <2>1, <2>4, <2>7, <3>2, ZenonT(60) DEF Progress
    <3> QED BY <3>1, <3>2, ZenonT(60)
  <2> QED BY <2>2, <2>3, <2>4, <2>5, <2>7, ZenonT(60) DEF Progress, y
<1>3. CASE Activate(c) \/ Retire(c)
  <2>1. PICK op \in {"activate", "retire"} :
           /\ Keeps(c) /\ call[c].pc = op
           /\ \/ /\ succeeds(operation(c, op)) /\ y.todo = T /\ y.failed = call[c].failed
                 /\ y.pc = IF op = "activate" THEN "retire" ELSE "activated"
              \/ fails(operation(c, op)) /\ Failing(c)
    BY <1>3, ActivateMove, RetireMove, ZenonT(60)
  <2> DEFINE w == operation(c, op)
  <2>2. /\ w \in OperationState /\ w.op = op /\ w.key = k /\ w.store = target(c) /\ w.version = v
        /\ w.store \in T /\ w.store \in targets
    BY <2>1, OperationTyped, ZenonT(60)
  <2>3. y.key = k /\ y.seen.after = v
    BY <2>1, Zenon DEF Keeps
  <2>4. /\ call[c].pc \in FinalPcs /\ y.pc \in {"reprobe", "activate", "partial", "retire", "activated"}
        /\ y.pc \notin StagePcs \cup {"finalize"} /\ y.pc # "staged"
    BY <2>1, Steps, ZenonT(60) DEF Failing
  <2>5. proj' \in {proj, performed(w)} /\ (succeeds(w) => proj' = performed(w))
    BY <2>1, Outcome, ZenonT(60)
  <2>6. ASSUME NEW s \in targets PROVE Holds(proj', k, s, v)
    <3>1. Holds(proj, k, s, v)
      BY <2>4, Zenon DEF Progress
    <3> HIDE DEF w
    <3>2. w.op # "stage"
      BY <2>1, <2>2, Zenon
    <3>3. Holds(performed(w), k, s, v)
      BY <1>0, <2>2, <3>1, <3>2, HoldsKept, Zenon
    <3> QED BY <2>5, <3>1, <3>3, Zenon
  <2>7. CASE ~succeeds(w)
    <3>1. y.failed = TRUE /\ y.pc \notin {"retire", "activated"}
      BY <2>1, <2>7, Zenon DEF Failing
    <3> HIDE DEF y, w
    <3> QED BY <2>3, <2>4, <2>6, <3>1, ZenonT(60) DEF Progress, y
  <2>8. CASE succeeds(w)
    <3>0. proj' = performed(w)
      BY <2>5, <2>8, ZenonT(60)
    <3>1. CASE y.failed = TRUE /\ y.pc \notin {"retire", "activated"}
      <4> HIDE DEF y, w
      <4> QED BY <2>3, <2>4, <2>6, <3>1, ZenonT(60) DEF Progress, y
    <3>2. CASE /\ y.todo = T /\ y.failed = call[c].failed
               /\ y.pc = IF op = "activate" THEN "retire" ELSE "activated"
      <4> HIDE DEF y, w
      <4>1. \A s \in targets : Holds(proj, k, s, v)
        BY <2>4, ZenonT(60) DEF Progress
      <4>2. Shows(proj', k, target(c), v)
        <5>1. CASE op = "activate"
          BY <1>0, <2>2, <3>0, <4>1, <5>1, OperationKeeps, ZenonT(60)
        <5>2. CASE op = "retire"
          <6>1. Shows(proj, k, target(c), v)
            BY <1>0, <2>1, <5>2, Zenon DEF Progress
          <6>2. w.op = "retire" /\ w.version <= v
            <7>1. w.op = "retire" /\ w.version = v
              BY <2>2, <5>2, Zenon
            <7>2. v \in Nat
              BY <1>0, Zenon
            <7> QED BY <7>1, <7>2
          <6> QED BY <1>0, <2>2, <3>0, <6>1, <6>2, ShowsKept, Zenon
        <5> QED BY <5>1, <5>2, ZenonT(60)
      <4>3. ASSUME ~y.failed, NEW s \in targets \ y.todo PROVE Shows(proj', k, s, v)
        <5>1. Shows(proj, k, s, v)
          BY <2>4, <3>2, <4>3, Zenon DEF Progress
        <5>2. w.op = "activate" \/ (w.op = "retire" /\ w.version <= v)
          BY <1>0, <2>1, <2>2
        <5> QED BY <1>0, <2>2, <3>0, <5>1, <5>2, ShowsKept, Zenon
      <4> QED BY <1>0, <2>3, <2>4, <2>6, <3>2, <4>2, <4>3, ZenonT(60) DEF Progress, y
    <3> QED BY <2>1, <3>1, <3>2, ZenonT(60) DEF Failing
  <2> QED BY <2>7, <2>8, ZenonT(60)
<1> QED BY <1>1, <1>2, <1>3, ZenonT(60)


\* A call that is not applying a mutation has nothing to show.
LEMMA NoProgress ==
    ASSUME NEW x, NEW S, x.pc \notin ApplyPcs
    PROVE  Progress(x, S)
BY ZenonT(60) DEF Progress, ApplyPcs, FinalPcs, StagePcs, ActivatePcs

\* Without disturbance, only the call that holds the lock changes the stores.
LEMMA OneWorks ==
    ASSUME TypeInv, FinalInv, LockInv, Next, undisturbed, NEW d \in Calls, call[d].pc \notin {"idle", "lock"}
    PROVE  proj' = proj \/ Stage(d) \/ Activate(d) \/ Retire(d)
<1>1. ~LateWrite
  BY Zenon DEF LateWrite, LockInv
<1>2. ASSUME NEW c \in Calls, NEW op \in {"stage", "activate", "retire"}, call[c].pc = op PROVE c = d
  BY <1>2, Zenon DEF LockInv
<1> QED BY <1>1, <1>2, StoreMoves, ZenonT(60)

\* A call that is applying a mutation and does not move finds the stores unchanged.
LEMMA Bystander ==
    ASSUME TypeInv, LedgerInv, FinalInv, LockInv, Next, undisturbed, NEW d \in Calls,
           call'[d].pc \in ApplyPcs,
           ~mark_applying(d), ~Probe(d), ~Stage(d), ~Staged(d),
           ~Finalize(d), ~Reprobe(d), ~Activate(d), ~Retire(d), ~Activated(d)
    PROVE  call'[d] = call[d] /\ proj' = proj
<1>1. call'[d] = call[d]
  <2>1. call'[d].pc \notin {"idle", "lock", "begin", "decide", "evidence", "review", "applying", "unlock"}
    BY Steps, Zenon
  <2>2. call'[d] # IdleCall
    BY <2>1 DEF IdleCall
  <2>3. ~(\E k \in Keys, e \in Nat : Mutate(d, k, e)) /\ ~(\E k \in Keys : Resume(d, k))
    BY <2>1, MutateMove, ResumeMove, Zenon
  <2>4. ~Acquire(d) /\ ~begin_or_replay(d) /\ ~Decide(d) /\ ~append_evidence(d)
    BY <2>1, <2>2, AcquireMove, BeginMove, DecideMove, EvidenceMove, ZenonT(60)
  <2>5. ~mark_partial(d) /\ ~mark_applied(d)
    BY <2>1, PartialMove, AppliedMove, Zenon
  <2>6. ~create_pending_review(d) /\ ~Release(d) /\ ~Abort(d)
    <3>1. ~goto(d, "unlock")
      BY <2>1 DEF goto, TypeInv, CallsOK, CallState
    <3>2. call' # [call EXCEPT ![d] = IdleCall]
      BY <2>2, Zenon DEF TypeInv, CallsOK
    <3> QED BY <3>1, <3>2, Zenon DEF create_pending_review, Release, Abort
  <2>7. ~Step(d) /\ ~Abort(d)
    BY <2>4, <2>5, <2>6, Zenon DEF Step
  <2>8. LateWrite \/ LockExpires => UNCHANGED call
    BY Zenon DEF LateWrite, LockExpires
  <2> QED BY <2>3, <2>7, <2>8, OneMoves, Zenon DEF Others
<1>2. call[d].pc \notin {"idle", "lock"}
  BY <1>1, Steps, ZenonT(60)
<1>3. proj' = proj
  BY <1>2, OneWorks, Zenon
<1> QED BY <1>1, <1>3, Zenon

\* What a call has put into the stores stays there while the call works on it.
LEMMA ProgressStep ==
    ASSUME TypeInv, LedgerInv, FinalInv, StoreInv, LockInv, ProgressInv, Next
    PROVE  ProgressInv'
<1> SUFFICES ASSUME undisturbed', NEW d \in Calls PROVE Progress(call[d], proj)'
  BY ZenonT(60) DEF ProgressInv
<1>0. undisturbed /\ Progress(call[d], proj) /\ UNCHANGED kind
  BY Disturbed, LedgerStep, ZenonT(60) DEF ProgressInv
<1>1. Progress(call'[d], proj')
  <2>1. CASE call'[d].pc \notin ApplyPcs
    BY <2>1, NoProgress, Zenon
  <2>2. CASE mark_applying(d) \/ Probe(d) \/ Stage(d) \/ Staged(d)
    BY <1>0, <2>2, StagingProgress, Zenon
  <2>3. CASE Finalize(d) \/ Reprobe(d) \/ Activate(d) \/ Retire(d) \/ Activated(d)
    BY <1>0, <2>3, ShowingProgress, Zenon
  <2>4. CASE /\ call'[d].pc \in ApplyPcs
             /\ ~mark_applying(d) /\ ~Probe(d) /\ ~Stage(d) /\ ~Staged(d)
             /\ ~Finalize(d) /\ ~Reprobe(d) /\ ~Activate(d) /\ ~Retire(d) /\ ~Activated(d)
    <3>1. call'[d] = call[d] /\ proj' = proj
      BY <1>0, <2>4, Bystander, Zenon
    <3> QED BY <1>0, <3>1, Zenon
  <2> QED BY <2>1, <2>2, <2>3, <2>4, ZenonT(60)
<1>2. targets' = targets
  BY <1>0, Zenon DEF targets
<1> QED BY <1>1, <1>2, ZenonT(60) DEF Progress

\* Retiring clears a store, and showing version v or a later one leaves it clear.
LEMMA OperationClears ==
    ASSUME TypeInv, StoreInv, NEW w \in OperationState, NEW s, NEW v \in Nat
    PROVE  /\ Clear(proj, s, v) /\ w.op \in {"activate", "retire"} /\ v <= w.version => Clear(performed(w), s, v)
           /\ w.op = "retire" => Clear(performed(w), w.store, w.version)
<1>0. w.version \in Nat /\ WellStored(proj) /\ \A p \in proj : p.version \in Nat
  BY DEF TypeInv, OperationState, StoreInv, WellStored, ProjectionState
<1>1. CASE w.op = "activate"
  <2>1. performed(w) = activate(w.store, w.version)
    BY <1>1, Zenon DEF performed
  <2>2. \A q \in performed(w) : \E p \in proj :
           Same(q, p) /\ q.status = IF p.store = w.store /\ p.version = w.version THEN "ACTIVE" ELSE p.status
    BY <1>0, <2>1, ActivateFacts
  <2>3. Clear(proj, s, v) /\ v <= w.version => Clear(performed(w), s, v)
    <3> SUFFICES ASSUME Clear(proj, s, v), v <= w.version,
                        NEW q \in performed(w), q.store = s, q.status = "ACTIVE"
                 PROVE  v <= q.version
      BY Zenon DEF Clear
    <3>1. PICK p \in proj : /\ p.store = q.store /\ p.version = q.version
                            /\ q.status = IF p.store = w.store /\ p.version = w.version THEN "ACTIVE" ELSE p.status
      BY <2>2, Zenon DEF Same
    <3>2. CASE p.version = w.version
      BY <3>1, <3>2, Zenon
    <3>3. CASE p.version # w.version
      <4>1. p.status = "ACTIVE" /\ p.store = s
        BY <3>1, <3>3, Zenon
      <4>2. v <= p.version
        BY <4>1, Zenon DEF Clear
      <4> QED BY <3>1, <4>2, Zenon
    <3> QED BY <3>2, <3>3, Zenon
  <2> QED BY <1>1, <2>3, Zenon
<1>2. CASE w.op = "retire"
  <2>1. performed(w) = retire_previous(w.store, w.version)
    BY <1>2, Zenon DEF performed
  <2>2. \A q \in performed(w) : \E p \in proj :
           /\ Same(q, p)
           /\ q.status = IF p.store = w.store /\ p.version < w.version /\ p.status = "ACTIVE" THEN "RETIRED" ELSE p.status
    BY <1>0, <2>1, RetireFacts
  <2>3. Clear(proj, s, v) => Clear(performed(w), s, v)
    <3> SUFFICES ASSUME Clear(proj, s, v),
                        NEW q \in performed(w), q.store = s, q.status = "ACTIVE"
                 PROVE  v <= q.version
      BY Zenon DEF Clear
    <3>1. PICK p \in proj :
             /\ p.store = q.store /\ p.version = q.version
             /\ q.status = IF p.store = w.store /\ p.version < w.version /\ p.status = "ACTIVE" THEN "RETIRED" ELSE p.status
      BY <2>2, Zenon DEF Same
    <3>2. p.status = "ACTIVE"
      BY <3>1
    <3>3. v <= p.version
      BY <3>1, <3>2, Zenon DEF Clear
    <3> QED BY <3>1, <3>3, Zenon
  <2>4. Clear(performed(w), w.store, w.version)
    BY <1>0, <2>2 DEF Clear, Same
  <2> QED BY <1>2, <2>3, <2>4, Zenon
<1>3. CASE w.op = "stage"
  BY <1>3, Zenon
<1> QED BY <1>1, <1>2, <1>3, Zenon DEF OperationState

\* The steps of a call of mutate that show its projections and hide the older ones.
LEMMA ClearingStep ==
    ASSUME TypeInv, FinalInv, StoreInv, UNCHANGED kind, NEW c \in Calls, Cleared(call[c], proj), ~call[c].resume,
           Finalize(c) \/ Reprobe(c) \/ Activate(c) \/ Retire(c) \/ Activated(c)
    PROVE  Cleared(call'[c], proj')
<1> DEFINE v == call[c].seen.after
           y == call'[c]
           T == call[c].todo
<1>0. v \in Nat /\ target(c) = NextOf(T)
  BY CallTyped, TargetIs, ZenonT(60) DEF CallState, RowState
<1>1. CASE Finalize(c)
  <2>1. y.pc = "unlock" \/ (y.pc \in {"reprobe", "activate"} /\ y.todo = targets)
    BY <1>1, FinalizeMove, Zenon
  <2> HIDE DEF y
  <2>2. y.pc # "activated" /\ (y.pc \in FinalPcs => targets \ y.todo = {})
    BY <2>1, Steps, Zenon
  <2> QED BY <2>2, Zenon DEF Cleared, y
<1>2. CASE Reprobe(c)
  BY <1>2, ReprobeMove, CallTyped, Zenon DEF CallOK
<1>3. CASE Activated(c)
  <2>1. /\ Keeps(c) /\ call[c].pc = "activated" /\ y.failed = call[c].failed
        /\ y.pc \in {"reprobe", "activate", "partial", "applied"} /\ y.todo = T \ {target(c)}
    BY <1>3, ActivatedMove, Zenon
  <2>2. proj' = proj
    BY <1>3, Zenon DEF Activated, storeVars
  <2>3. y.seen.after = v /\ call[c].pc \in FinalPcs
    BY <2>1, Steps, Zenon DEF Keeps
  <2> HIDE DEF y
  <2>4. ASSUME ~y.failed, NEW s \in targets \ y.todo PROVE Clear(proj, s, v)
    <3>1. CASE s = target(c)
      BY <1>0, <2>1, <3>1, Zenon DEF Cleared
    <3>2. CASE s # target(c)
      BY <2>1, <2>3, <2>4, <3>2, Zenon DEF Cleared
    <3> QED BY <3>1, <3>2, Zenon
  <2> QED BY <2>1, <2>2, <2>3, <2>4, ZenonT(60) DEF Cleared, y
<1>4. CASE Activate(c) \/ Retire(c)
  <2>1. PICK op \in {"activate", "retire"} :
           /\ Keeps(c) /\ call[c].pc = op
           /\ \/ /\ succeeds(operation(c, op)) /\ y.todo = T /\ y.failed = call[c].failed
                 /\ y.pc = IF op = "activate" THEN "retire" ELSE "activated"
              \/ fails(operation(c, op)) /\ Failing(c)
    BY <1>4, ActivateMove, RetireMove, ZenonT(60)
  <2> DEFINE w == operation(c, op)
  <2>2. w \in OperationState /\ w.op = op /\ w.store = target(c) /\ w.version = v
    BY <2>1, OperationTyped, ZenonT(60)
  <2>3. y.seen.after = v /\ call[c].pc \in FinalPcs
    BY <2>1, Steps, Zenon DEF Keeps
  <2>4. CASE Failing(c)
    <3>1. y.failed = TRUE /\ y.pc # "activated"
      BY <2>4, Zenon DEF Failing
    <3> HIDE DEF y
    <3> QED BY <3>1, Zenon DEF Cleared, y
  <2>5. CASE /\ succeeds(w) /\ y.todo = T /\ y.failed = call[c].failed
             /\ y.pc = IF op = "activate" THEN "retire" ELSE "activated"
    <3>0. proj' = performed(w) /\ v <= w.version
      <4>1. proj' = performed(w)
        BY <2>5, Zenon DEF succeeds
      <4> QED BY <1>0, <2>2, <4>1
    <3> HIDE DEF y, w
    <3>1. ASSUME ~y.failed, NEW s \in targets \ y.todo PROVE Clear(proj', s, v)
      <4>1. Clear(proj, s, v)
        BY <2>3, <2>5, <3>1, Zenon DEF Cleared
      <4> QED BY <1>0, <2>2, <3>0, <4>1, OperationClears, Zenon
    <3>2. y.pc = "activated" => Clear(proj', NextOf(y.todo), v)
      <4>1. y.pc = "activated" => op = "retire"
        BY <2>5, Zenon
      <4> QED BY <1>0, <2>2, <2>5, <3>0, <4>1, OperationClears, ZenonT(60)
    <3> QED BY <2>3, <3>1, <3>2, ZenonT(60) DEF Cleared, y
  <2> QED BY <2>1, <2>4, <2>5, Zenon
<1> QED BY <1>1, <1>2, <1>3, <1>4, Zenon

\* What a call of mutate has retired stays so while the call works.
LEMMA ClearStep ==
    ASSUME TypeInv, LedgerInv, FinalInv, StoreInv, LockInv, ClearInv, Next
    PROVE  ClearInv'
<1> SUFFICES ASSUME undisturbed', NEW d \in Calls PROVE Cleared(call[d], proj)'
  BY ZenonT(60) DEF ClearInv
<1>0. undisturbed /\ Cleared(call[d], proj) /\ UNCHANGED kind
  BY Disturbed, LedgerStep, ZenonT(60) DEF ClearInv
<1>1. Cleared(call'[d], proj')
  <2>1. CASE call'[d].pc \notin FinalPcs
    BY <2>1, Steps, Zenon DEF Cleared
  <2>2. CASE mark_applying(d) \/ Probe(d) \/ Stage(d) \/ Staged(d)
    <3>1. call'[d].pc \in {"unlock", "probe", "stage", "staged", "partial", "finalize"}
      BY <2>2, ApplyingMove, ProbeMove, StageMove, StagedMove, Zenon
    <3> QED BY <2>1, <3>1, Steps, Zenon
  <2>3. CASE Finalize(d) \/ Reprobe(d) \/ Activate(d) \/ Retire(d) \/ Activated(d)
    <3>1. call'[d].resume = call[d].resume
      BY <2>3, FinalizeMove, ReprobeMove, ActivateMove, RetireMove, ActivatedMove, Zenon DEF Keeps
    <3>2. CASE call[d].resume
      BY <3>1, <3>2, Zenon DEF Cleared
    <3>3. CASE ~call[d].resume
      BY <1>0, <2>3, <3>3, ClearingStep, Zenon
    <3> QED BY <3>2, <3>3, Zenon
  <2>4. CASE /\ call'[d].pc \in FinalPcs
             /\ ~mark_applying(d) /\ ~Probe(d) /\ ~Stage(d) /\ ~Staged(d)
             /\ ~Finalize(d) /\ ~Reprobe(d) /\ ~Activate(d) /\ ~Retire(d) /\ ~Activated(d)
    <3>1. call'[d] = call[d] /\ proj' = proj
      BY <1>0, <2>4, Steps, Bystander, Zenon
    <3> QED BY <1>0, <3>1, ZenonT(60)
  <2> QED BY <2>1, <2>2, <2>3, <2>4, ZenonT(60)
<1>2. targets' = targets
  BY <1>0, Zenon DEF targets
<1> QED BY <1>1, <1>2, ZenonT(60) DEF Cleared

\* Where the author of a version has its projection, the store shows no other.
LEMMA VisibleStep ==
    ASSUME TypeInv, LedgerInv, FinalInv, StoreInv, LockInv, ProgressInv, VisibleIsCanonical, Next
    PROVE  VisibleIsCanonical'
<1>1. \A p \in proj' : p.status = "ACTIVE" => p.version <= fact'.version
  BY StoreStep, ZenonT(60) DEF StoreInv
<1>a. \A k, s : entity(k, s)' = entity(k, s)
  BY LedgerStep, Zenon DEF entity
<1>2. ASSUME NEW p \in proj', p.status = "ACTIVE", undisturbed', p.version = fact'.version,
             p.entity = entity(fact'.last, p.store)
      PROVE  p.key = fact'.last
  <2>0. undisturbed /\ kind' = kind /\ fact.version \in Nat /\ WellStored(proj)
    BY <1>2, Disturbed, LedgerStep, Zenon DEF TypeInv, StoreInv
  <2>1. ~LateWrite
    BY <2>0, Zenon DEF LateWrite, LockInv
  <2>2. CASE proj' = proj
    <3>1. p.version <= fact.version
      BY <1>2, <2>2, Zenon DEF StoreInv
    <3>2. fact' # fact => fact'.version = fact.version + 1
      BY FactStep, Zenon
    <3>3. fact' = fact
      BY <1>2, <2>0, <3>1, <3>2
    <3> QED BY <1>2, <2>0, <2>2, <3>3, Zenon DEF VisibleIsCanonical
  <2>3. ASSUME NEW c \in Calls, NEW op \in {"stage", "activate", "retire"}, call[c].pc = op, UNCHANGED fact,
               proj' = performed(operation(c, op))
        PROVE  p.key = fact'.last
    <3> DEFINE w == operation(c, op)
    <3>1. /\ w \in OperationState /\ w.op = op /\ w.key = call[c].key /\ w.version = call[c].seen.after
          /\ w.store \in targets
      BY <2>3, OperationTyped, ZenonT(60)
    <3>2. proj' = performed(w)
      BY <2>3, Zenon
    <3>a. kind \in Kinds /\ w.key \in Keys /\ w.store \in Stores /\ w.version \in Nat
      BY <3>1, Zenon DEF TypeInv, OperationState
    <3> HIDE DEF w
    <3>3. ASSUME NEW q \in proj, q.status = "ACTIVE", Same(p, q) PROVE p.key = fact'.last
      BY <1>2, <2>0, <2>3, <3>3, Zenon DEF VisibleIsCanonical, Same
    <3>4. CASE op = "stage"
      <4>1. proj' = stage(w.key, w.store, w.version)
        BY <3>1, <3>2, <3>4, Zenon DEF performed
      <4>2. p \in proj
        BY <1>2, <2>0, <3>a, <4>1, StageFacts, ZenonT(60)
      <4> QED BY <1>2, <3>3, <4>2, Zenon DEF Same
    <3>5. CASE op = "retire"
      <4>1. proj' = retire_previous(w.store, w.version)
        BY <3>1, <3>2, <3>5, Zenon DEF performed
      <4>2. PICK q \in proj :
              /\ Same(p, q)
              /\ p.status = IF q.store = w.store /\ q.version < w.version /\ q.status = "ACTIVE" THEN "RETIRED" ELSE q.status
        BY <1>2, <2>0, <4>1, RetireFacts
      <4> QED BY <1>2, <3>3, <4>2, Zenon
    <3>6. CASE op = "activate"
      <4>1. proj' = activate(w.store, w.version)
        BY <3>1, <3>2, <3>6, Zenon DEF performed
      <4>2. PICK q \in proj :
               Same(p, q) /\ p.status = IF q.store = w.store /\ q.version = w.version THEN "ACTIVE" ELSE q.status
        BY <1>2, <2>0, <4>1, ActivateFacts
      <4>3. CASE q.store = w.store /\ q.version = w.version
        <5>1. Reached(w.key, w.version)
          BY <2>3, <3>1, <3>6, Steps, ZenonT(60) DEF FinalInv
        <5>2. fact.last = w.key
          BY <1>2, <2>3, <4>2, <4>3, <5>1, ZenonT(60) DEF Reached, Same
        <5>3. Holds(proj, w.key, w.store, w.version)
          BY <2>0, <2>3, <3>1, <3>6, Steps, ZenonT(60) DEF ProgressInv, Progress
        <5>4. PICK r \in proj : r.store = w.store /\ r.key = w.key /\ r.version = w.version
          BY <5>3, Zenon DEF Holds
        <5>5. r.entity = q.entity
          <6>1. r.entity = entity(w.key, w.store)
            BY <2>0, <5>4, Zenon DEF WellStored
          <6>2. q.entity = entity(w.key, w.store)
            BY <1>2, <2>3, <4>2, <4>3, <5>2, Zenon DEF Same
          <6> QED BY <6>1, <6>2, Zenon
        <5>6. r = q
          BY <2>0, <4>3, <5>4, <5>5, ZenonT(60) DEF WellStored
        <5> QED BY <2>3, <4>2, <5>2, <5>4, <5>6, ZenonT(60) DEF Same
      <4>4. CASE ~(q.store = w.store /\ q.version = w.version)
        BY <1>2, <3>3, <4>2, <4>4, Zenon
      <4> QED BY <4>3, <4>4, Zenon
    <3> QED BY <3>4, <3>5, <3>6, Zenon
  <2> QED BY <2>1, <2>2, <2>3, StoreMoves, ZenonT(60)
<1> QED BY <1>1, <1>a, <1>2, Zenon DEF VisibleIsCanonical


-----------------------------------------------------------------------------
\* The theorems.

\* Before the first call there is nothing.
LEMMA MemoryInit == Init => MemoryInv
<1> SUFFICES ASSUME Init PROVE MemoryInv
  BY Zenon
<1>0. /\ kind \in Kinds /\ fact.version = 0 /\ row = [k \in Keys |-> NoRow] /\ proj = {} /\ late = {} /\ lock = None
      /\ call = [c \in Calls |-> IdleCall] /\ faults = [failed |-> 0, disturbed |-> 0]
  BY ZenonT(60) DEF Init, NoFact
<1>1. /\ NoRow.status = "NONE" /\ NoRow.decision = None /\ IdleCall.pc = "idle"
      /\ \A c \in Calls : call[c].pc = "idle"
      /\ \A k \in Keys : row[k].status = "NONE" /\ row[k].decision = None
  BY <1>0, ZenonT(60) DEF NoRow, IdleCall
<1>2. CallsOK
  BY <1>0, IdleTyped, Zenon DEF CallsOK
<1>3. TypeInv
  BY <1>0, <1>2, IdleTyped DEF TypeInv
<1>4. None \notin Projecting
  BY Zenon DEF Projecting
<1>5. LedgerInv
  BY <1>1, <1>4, Steps, Zenon DEF LedgerInv, RowInv, DecideInv, SeenOK
<1>6. FinalInv
  BY <1>1, <1>4, Steps, Zenon DEF FinalInv, OneAuthorPerVersion, finalized
<1>7. StoreInv /\ VisibleIsCanonical /\ LockInv
  BY <1>0, <1>1, Zenon DEF StoreInv, WellStored, VisibleIsCanonical, LockInv
<1>8. ProgressInv /\ ClearInv
  BY <1>1, NoProgress, Steps, Zenon DEF ProgressInv, ClearInv, Cleared
<1> QED BY <1>3, <1>5, <1>6, <1>7, <1>8, Zenon DEF MemoryInv

\* Every step keeps the invariant.
LEMMA MemoryStep == MemoryInv /\ [Next]_vars => MemoryInv'
<1>1. ASSUME MemoryInv, Next PROVE MemoryInv'
  BY <1>1, TypeStep, LedgerStep, FinalStep, StoreStep, LockStep, ProgressStep, ClearStep, VisibleStep, Zenon DEF MemoryInv
<1>2. ASSUME MemoryInv, UNCHANGED vars PROVE MemoryInv'
  <2>1. UNCHANGED <<kind, fact, row, proj, late, lock, call, faults>>
    BY <1>2, Zenon DEF vars, ledgerVars, factVars, storeVars, envVars
  <2>2. TypeInv' /\ LedgerInv'
    BY <1>2, <2>1, ZenonT(60) DEF MemoryInv, TypeInv, CallsOK, CallOK, targets, LedgerInv, RowInv, DecideInv, SeenOK
  <2>3. FinalInv' /\ LockInv' /\ VisibleIsCanonical'
    BY <1>2, <2>1, Zenon DEF MemoryInv, FinalInv, Reached, OneAuthorPerVersion, finalized, LockInv, undisturbed, VisibleIsCanonical, entity
  <2>4. StoreInv' /\ ProgressInv' /\ ClearInv'
    BY <1>2, <2>1, Zenon DEF MemoryInv, StoreInv, WellStored, entity, ProgressInv, Progress, ClearInv, Cleared, undisturbed, targets
  <2> QED BY <2>2, <2>3, <2>4, Zenon DEF MemoryInv
<1> QED BY <1>1, <1>2, Zenon

\* The invariant that the properties of the shared memory follow from: rows
\* decided once, calls that remember them, stores in order, and, as long as no
\* lock is lost and no operation outlives its call, one call at work.
THEOREM MemorySafe == Spec => []MemoryInv
BY MemoryInit, MemoryStep, PTL DEF Spec

\* No two mutations are FINALIZING or APPLIED for one version of the fact, and
\* the fact names the author of its version (finalize_canonical), however calls
\* interleave, fail, lose their locks and are resumed.
THEOREM OneAuthor == Spec => []OneAuthorPerVersion
<1>1. MemoryInv => OneAuthorPerVersion
  BY Zenon DEF MemoryInv, FinalInv
<1> QED BY <1>1, MemorySafe, PTL

\* No store shows a version before MySQL has it (_activate_projection after
\* finalize_canonical), late store operations and lost locks included; without
\* them the projection it shows of the present version, at the entity of that
\* version's author, is the author's.
THEOREM SearchFollowsTheFact == Spec => []VisibleIsCanonical
<1>1. MemoryInv => VisibleIsCanonical
  BY Zenon DEF MemoryInv
<1> QED BY <1>1, MemorySafe, PTL

\* The fact advances one version at a time, to a mutation decided on the
\* version it replaces (the version check of finalize_canonical).
THEOREM FactOnlyAdvances == Spec => FactAdvances
<1> DEFINE Adv == fact' # fact =>
                     /\ fact'.version = fact.version + 1
                     /\ row[fact'.last].before = fact.version
<1>1. MemoryInv /\ [Next]_vars => [Adv]_vars
  <2>1. ASSUME MemoryInv, Next PROVE Adv
    BY <2>1, FactStep, Zenon DEF MemoryInv
  <2> QED BY <2>1, Zenon
<1> HIDE DEF Adv
<1>2. Spec => [][Adv]_vars
  BY <1>1, MemorySafe, PTL DEF Spec
<1> QED BY <1>2, Zenon DEF FactAdvances, Adv

\* mark_applied speaks the truth: the fact is at the mutation's version, every
\* required store shows its projection, and after a call of mutate none of them
\* shows an older one.
THEOREM AppliedMeansVisible == Spec => AppliedWhenVisible
<1> DEFINE Was(k) == /\ undisturbed
                     /\ row[k].status # "APPLIED" /\ row'[k].status = "APPLIED" /\ row'[k].decision \in Projecting
           Is(k) == /\ fact.last = k /\ fact.version = row[k].after
                    /\ \A s \in targets : \E p \in proj :
                          p.store = s /\ p.key = k /\ p.version = fact.version /\ p.status = "ACTIVE"
                    /\ first_pass(k) => \A p \in proj :
                          p.store \in targets /\ p.status = "ACTIVE" => p.version = fact.version
           App == \A k \in Keys : Was(k) => Is(k)
<1>1. ASSUME MemoryInv, Next, NEW k \in Keys, Was(k) PROVE Is(k)
  <2>1. TypeInv /\ LedgerInv /\ FinalInv /\ ProgressInv
    BY <1>1, ZenonT(60) DEF MemoryInv
  <2>2. PICK c \in Calls : /\ call[c].key = k /\ row[k].after = call[c].seen.after
                           /\ mark_applied(c) /\ fact.version = row[k].after
    BY <1>1, <2>1, StatusEntry, ZenonT(60)
  <2>3. call[c].pc = "applied" /\ call[c].pc \in FinalPcs /\ call[c].todo = {} /\ ~call[c].failed
    BY <2>1, <2>2, CallTyped, AppliedMove, Steps, ZenonT(60) DEF CallOK
  <2>4. fact.last = k
    BY <2>1, <2>2, <2>3, ZenonT(60) DEF FinalInv, Reached
  <2>5. \A s \in targets : Shows(proj, k, s, fact.version)
    BY <1>1, <2>1, <2>2, <2>3, Zenon DEF ProgressInv, Progress
  <2>6. ASSUME first_pass(k), NEW p \in proj, p.store \in targets, p.status = "ACTIVE"
        PROVE  p.version = fact.version
    <3>1. ~call[c].resume
      BY <1>1, <2>3, <2>6, Zenon DEF first_pass, at, MemoryInv, LockInv
    <3>2. Clear(proj, p.store, fact.version)
      BY <1>1, <2>2, <2>3, <2>6, <3>1, Zenon DEF MemoryInv, ClearInv, Cleared
    <3>3. fact.version <= p.version /\ p.version <= fact.version
      BY <1>1, <2>6, <3>2, Zenon DEF Clear, MemoryInv, StoreInv
    <3>4. fact.version \in Nat /\ p.version \in Nat
      BY <1>1, <2>1 DEF MemoryInv, StoreInv, WellStored, ProjectionState, TypeInv
    <3> QED BY <3>3, <3>4
  <2> QED BY <2>2, <2>4, <2>5, <2>6, ZenonT(60) DEF Shows
<1>2. MemoryInv /\ [Next]_vars => [App]_vars
  <2>1. ASSUME MemoryInv, Next PROVE App
    <3> HIDE DEF Was, Is
    <3> QED BY <1>1, <2>1, Zenon
  <2> QED BY <2>1, Zenon
<1> HIDE DEF App
<1>3. Spec => [][App]_vars
  BY <1>2, MemorySafe, PTL DEF Spec
<1> QED BY <1>3, Zenon DEF AppliedWhenVisible, App

\* A projection is retired only when its store shows a newer one (activate
\* before retire_previous), so a search never finds a gap.
THEOREM NoGapInSearch == Spec => RetiredWhenReplaced
<1> DEFINE Was(p) == undisturbed /\ p.status = "ACTIVE" /\ [p EXCEPT !.status = "RETIRED"] \in proj'
           Is(p) == \E q \in proj : q.store = p.store /\ q.version > p.version /\ q.status = "ACTIVE"
           Ret == \A p \in proj : Was(p) => Is(p)
<1>2. ASSUME MemoryInv, Next, NEW p \in proj, Was(p) PROVE Is(p)
  <2> DEFINE r == [p EXCEPT !.status = "RETIRED"]
  <2>0. TypeInv /\ FinalInv /\ StoreInv /\ LockInv /\ ProgressInv /\ WellStored(proj) /\ undisturbed /\ p.status = "ACTIVE"
    BY <1>2, Zenon DEF MemoryInv, StoreInv
  <2>1. Same(r, p) /\ r.status = "RETIRED" /\ r \in proj'
    BY <1>2, <2>0, Zenon DEF WellStored, ProjectionState, Same
  <2> HIDE DEF r
  <2>2. r \notin proj
    BY <2>0, <2>1, Zenon DEF WellStored, Same
  <2>3. \A q \in proj : Same(r, q) => q = p
    BY <2>0, <2>1, ZenonT(60) DEF WellStored, Same
  <2>4. ~LateWrite
    BY <2>0, Zenon DEF LateWrite, LockInv
  <2>5. PICK c \in Calls, op \in {"stage", "activate", "retire"} : call[c].pc = op /\ proj' = performed(operation(c, op))
    BY <1>2, <2>0, <2>1, <2>2, <2>4, StoreMoves, Zenon
  <2> DEFINE w == operation(c, op)
  <2>6. /\ w \in OperationState /\ w.op = op /\ w.key = call[c].key /\ w.version = call[c].seen.after
        /\ w.store = target(c) /\ proj' = performed(w)
    BY <2>0, <2>5, OperationTyped, Zenon
  <2>7. kind \in Kinds /\ w.key \in Keys /\ w.store \in Stores /\ w.version \in Nat /\ p.version \in Nat
    BY <2>0, <2>6, ZenonT(60) DEF TypeInv, OperationState, WellStored, ProjectionState
  <2> HIDE DEF w
  <2>8. op # "stage"
    <3> SUFFICES ASSUME op = "stage" PROVE FALSE
      BY Zenon
    <3>1. proj' = stage(w.key, w.store, w.version)
      BY <2>6, Zenon DEF performed
    <3>2. r \in proj' /\ r.status # "STAGED"
      BY <2>1, Zenon
    <3>3. \A q \in stage(w.key, w.store, w.version) : q.status # "STAGED" => q \in proj
      BY <2>0, <2>7, StageFacts
    <3> QED BY <2>2, <3>1, <3>2, <3>3, Zenon
  <2>9. op # "activate"
    <3> SUFFICES ASSUME op = "activate" PROVE FALSE
      BY Zenon
    <3>1. proj' = activate(w.store, w.version)
      BY <2>6, Zenon DEF performed
    <3>2. PICK q \in proj :
             Same(r, q) /\ r.status = IF q.store = w.store /\ q.version = w.version THEN "ACTIVE" ELSE q.status
      BY <2>0, <2>1, <3>1, ActivateFacts
    <3> QED BY <2>0, <2>1, <2>3, <3>2, Zenon
  <2>10. op = "retire" /\ call[c].pc = "retire"
    BY <2>5, <2>8, <2>9, Zenon
  <2>11. p.store = w.store /\ p.version < w.version
    <3>1. proj' = retire_previous(w.store, w.version)
      BY <2>6, <2>10, Zenon DEF performed
    <3>2. PICK q \in proj :
             /\ Same(r, q)
             /\ r.status = IF q.store = w.store /\ q.version < w.version /\ q.status = "ACTIVE" THEN "RETIRED" ELSE q.status
      BY <2>0, <2>1, <3>1, RetireFacts
    <3> QED BY <2>0, <2>1, <2>3, <3>2, Zenon
  <2>12. Shows(proj, w.key, w.store, w.version)
    BY <2>0, <2>6, <2>10, TargetIs, ZenonT(60) DEF ProgressInv, Progress
  <2>13. PICK q \in proj : q.store = w.store /\ q.version = w.version /\ q.status = "ACTIVE"
    BY <2>12, Zenon DEF Shows
  <2> QED BY <2>7, <2>11, <2>13, Zenon
<1>3. MemoryInv /\ [Next]_vars => [Ret]_vars
  <2>1. ASSUME MemoryInv, Next PROVE Ret
    <3> HIDE DEF Was, Is
    <3> QED BY <1>2, <2>1, Zenon
  <2> QED BY <2>1, Zenon
<1> HIDE DEF Ret
<1>4. Spec => [][Ret]_vars
  BY <1>3, MemorySafe, PTL DEF Spec
<1> QED BY <1>4, Zenon DEF RetiredWhenReplaced, Ret

=============================================================================
