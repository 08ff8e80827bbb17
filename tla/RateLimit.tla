------------------------------ MODULE RateLimit ------------------------------
(***************************************************************************)
(* Admission control of the HTTP API (security/rate_limit.py): one token   *)
(* bucket per subject and operation class in Redis, and the process-local  *)
(* window that admits reads while Redis does not answer.                   *)
(*                                                                         *)
(* Time is counted in ticks, Minute of them to the minute.  Tokens are     *)
(* counted in 1/Minute of a token, so a tick refills refill_per_minute     *)
(* units and a request costs Minute units: no rounding is hidden.  Only an  *)
(* admission reads the clock, so the clock is the time of the last one and  *)
(* every admission happens at some time now, not before it.  The script      *)
(* reads the time of the Redis server, taken never to be set back.          *)
(***************************************************************************)
EXTENDS Integers, FiniteSets

CONSTANTS
    Subjects,
    Processes,          \* the API processes
    Policies,           \* operation class -> [capacity, refill_per_minute]
    Minute,
    EmergencyCapacity,
    EmergencyWindow,    \* in ticks
    MaxClock            \* bound: ticks of one behaviour

VARIABLES
    clock,              \* time of the last admission
    bucket,             \* subject, operation -> set of at most one bucket hash
    entries,            \* process, subject, operation -> set of at most one window
    admitted            \* history: requests let through, by the control that
                        \* did: the buckets, or the windows of a process

admissionVars == <<clock, bucket, entries, admitted>>

Operations == DOMAIN Policies
Controls == {"redis"} \cup Processes
HIGH_RISK_OPERATIONS == {"dispatch_submit", "runtime_override", "memory_mutation", "ws_ticket"}

ASSUME PolicyAssumption ==
    /\ \A op \in Operations : Policies[op].capacity > 0 /\ Policies[op].refill_per_minute > 0
    /\ Minute > 0 /\ EmergencyCapacity > 0 /\ EmergencyWindow > 0

AdmissionInit ==
    /\ clock = 0
    /\ bucket = [s \in Subjects, op \in Operations |-> {}]
    /\ entries = [p \in Processes, s \in Subjects, op \in Operations |-> {}]
    /\ admitted = [c \in Controls, s \in Subjects, op \in Operations |-> 0]

Smaller(a, b) == IF a < b THEN a ELSE b
Larger(a, b) == IF a < b THEN b ELSE a

-----------------------------------------------------------------------------
(* TOKEN_BUCKET_LUA, one atomic script *)

\* The key outlives two refills of the whole bucket, and at least a minute.
ttl(op) ==
    LET p == Policies[op]
    IN  Larger(Minute, (2 * Minute * p.capacity + p.refill_per_minute - 1) \div p.refill_per_minute)

\* An expired key reads as a missing one, and a missing one as a full bucket.
live_bucket(s, op, now) == {b \in bucket[s, op] : now < b.expires}

refilled(s, op, now) ==
    LET full == Policies[op].capacity * Minute
        refill(b) == b.tokens + Larger(0, now - b.updated) * Policies[op].refill_per_minute
    IN  IF live_bucket(s, op, now) = {} THEN full
        ELSE Smaller(full, refill(CHOOSE b \in live_bucket(s, op, now) : TRUE))

has_token(s, op, now) == refilled(s, op, now) >= Minute

\* The hash and its expiry are written whether or not a token was left.
\* Mutant of the script: only the tokens are written back.
hash_stale_time(s, op, now, left) ==
    LET old == live_bucket(s, op, now)
    IN  {[tokens |-> left, expires |-> now + ttl(op),
          updated |-> IF old = {} THEN now ELSE (CHOOSE b \in old : TRUE).updated]}
hash(s, op, now, left) == {[tokens |-> left, updated |-> now, expires |-> now + ttl(op)]}

take_token(s, op, now) ==
    LET left == refilled(s, op, now) - (IF has_token(s, op, now) THEN Minute ELSE 0)
    IN  bucket' = [bucket EXCEPT ![s, op] = hash(s, op, now, left)]

count(control, s, op) == admitted' = [admitted EXCEPT ![control, s, op] = @ + 1]

-----------------------------------------------------------------------------
(* RateLimitAdmission.check *)

\* Redis decides.
AdmitByBucket(s, op, now) ==
    /\ has_token(s, op, now)
    /\ take_token(s, op, now)
    /\ count("redis", s, op)
    /\ clock' = now /\ UNCHANGED entries

RefuseByBucket(s, op, now) ==
    /\ ~has_token(s, op, now)
    /\ take_token(s, op, now)
    /\ clock' = now /\ UNCHANGED <<entries, admitted>>

\* Redis fails: the script has run, or not, and the caller cannot tell.
LimiterUnavailable(s, op, now) == take_token(s, op, now) \/ UNCHANGED bucket

\* EmergencyReadRateLimiter.admit: a window opened by its first request.
window(p, s, op, now) ==
    LET open == {e \in entries[p, s, op] : now - e.started < EmergencyWindow}
    IN  IF open = {} THEN [started |-> now, count |-> 0] ELSE CHOOSE e \in open : TRUE

AdmitInEmergency(p, s, op, now) ==
    /\ op \notin HIGH_RISK_OPERATIONS
    /\ LimiterUnavailable(s, op, now)
    /\ window(p, s, op, now).count < EmergencyCapacity
    /\ entries' = [entries EXCEPT ![p, s, op] = {[window(p, s, op, now) EXCEPT !.count = @ + 1]}]
    /\ count(p, s, op)
    /\ clock' = now

RefuseInEmergency(p, s, op, now) ==
    /\ op \notin HIGH_RISK_OPERATIONS
    /\ LimiterUnavailable(s, op, now)
    /\ window(p, s, op, now).count >= EmergencyCapacity
    /\ entries' = [entries EXCEPT ![p, s, op] = {window(p, s, op, now)}]
    /\ clock' = now /\ UNCHANGED admitted

\* A high-risk operation is not let through undecided: 503.
RefuseUndecided(s, op, now) ==
    /\ op \in HIGH_RISK_OPERATIONS
    /\ LimiterUnavailable(s, op, now)
    /\ clock' = now /\ UNCHANGED <<entries, admitted>>

\* A process that is started again has no windows, and is counted anew.
forget(p, f, nothing) ==
    [x \in DOMAIN f |-> IF x[1] = p THEN nothing ELSE f[x]]
ForgetWindows(p) ==
    /\ entries' = forget(p, entries, {})
    /\ admitted' = forget(p, admitted, 0)
    /\ UNCHANGED <<clock, bucket>>

-----------------------------------------------------------------------------

\* Whatever the order of requests, refills, expiries of the key and failures
\* of Redis, a subject is let through by the bucket at most its capacity plus
\* what the elapsed time refills, part of a token included, and by the
\* emergency windows of one process, while it lives, at most their capacity
\* per window begun (TOKEN_BUCKET_LUA, EmergencyReadRateLimiter).
AdmissionBounded ==
    \A s \in Subjects, op \in Operations :
        /\ admitted["redis", s, op] * Minute
              <= Policies[op].capacity * Minute + clock * Policies[op].refill_per_minute
        /\ \A p \in Processes :
              admitted[p, s, op] <= EmergencyCapacity * (1 + clock \div EmergencyWindow)
=============================================================================
