-------------------------- MODULE RequestAdmission --------------------------
(***************************************************************************)
(* How a request is admitted: its bearer token is verified with a key of   *)
(* the issuer, looked up in the revocation store and checked against the   *)
(* permission its route requires; a high-risk permission is granted only   *)
(* with a durable audit record.                                            *)
(*                                                                         *)
(* One API process serves the requests on one event loop, so the code      *)
(* between two awaits is one step.  The awaits are the resolver's lock,    *)
(* the fetch of the issuer's keys and the calls of the revocation store.   *)
(* Meanwhile the issuer rotates its keys, and time passes.                 *)
(*                                                                         *)
(* The resolver's keys are replaced as a whole by every fetch and serve    *)
(* for CacheTtl; the lock is asyncio's, first come first served.           *)
(***************************************************************************)
EXTENDS Integers, FiniteSets, Sequences, SequencesExt

CONSTANTS Requests,       \* 1..n, numbered in the order of their arrival
          Tokens,
          Calls,          \* the <<token, operation>> pairs a request may carry; None: no Authorization header
          Kids,           \* key ids of the issuer
          FirstKeys,      \* key sets the issuer may start with
          Kid,            \* the key a token is signed with
          Roles,          \* the roles a token claims
          Verifies,       \* tokens whose signature and claims are in order
          Exp,            \* when the tokens of the issuer expire
          CacheTtl, Leeway, SessionTtl,
          Transit,        \* longest time between the issuer's answer and its receipt
          MaxTime,        \* bound on the clock
          MaxFaults,      \* bound: failed calls
          MaxRotations,   \* bound: changes of the issuer's key set
          None

ASSUME AdmissionAssumption ==
    /\ Kid \in [Tokens -> Kids] /\ Exp \in [Tokens -> Nat] /\ Verifies \subseteq Tokens
    /\ {CacheTtl, Leeway, SessionTtl, Transit, MaxTime, MaxFaults, MaxRotations} \subseteq Nat

VARIABLES provider,    \* the authentication provider, chosen at startup
          now,
          published,   \* the issuer's current keys
          withdrawn,   \* when a key was last withdrawn
          rotations,
          keys,        \* the resolver's cache, its expiry, its lock
          expires_at,
          holder,
          waiters,
          exp,         \* expiry of the tokens issued so far, None for the others
          revoked,     \* when the store's entry for a token lapses, 0 for no entry
          logged_out,  \* tokens whose logout was answered 204
          req,         \* the requests
          audit,       \* security audit records
          faults

resolver == <<keys, expires_at, holder, waiters>>
issuer == <<published, withdrawn, rotations>>
vars == <<provider, now, issuer, resolver, exp, revoked, logged_out, req, audit, faults>>

-----------------------------------------------------------------------------
(* Permissions.                                                            *)

dispatcher == {"dispatch:read", "dispatch:create", "orders:read", "anomalies:read", "agents:read", "memory:read"}
supervisor == dispatcher \cup {"dispatch:review", "memory:mutate", "runtime:read", "runtime:override",
                               "audit:read", "monitor:read"}
ALL_PERMISSIONS == supervisor \cup {"anomalies:report", "system:admin"}

ROLE_PERMISSION_MATRIX ==
    [EMPLOYEE   |-> {"dispatch:read", "anomalies:report"},
     DISPATCHER |-> dispatcher,
     SUPERVISOR |-> supervisor,
     OPERATOR   |-> {"agents:read", "runtime:read", "audit:read", "monitor:read"},
     AUDITOR    |-> {"memory:read", "runtime:read", "audit:read", "monitor:read"},
     ADMIN      |-> ALL_PERMISSIONS]

\* Unknown roles are passed over.
permissions_for_roles(values) ==
    UNION {ROLE_PERMISSION_MATRIX[role] : role \in values \cap DOMAIN ROLE_PERMISSION_MATRIX}

HIGH_RISK_PERMISSIONS == {"dispatch:create", "memory:mutate", "runtime:override", "system:admin"}

\* What the routes in play require; logout requires a principal only.
required(op) == CASE op = "read" -> "dispatch:read" [] op = "write" -> "dispatch:create" [] op = "logout" -> None

-----------------------------------------------------------------------------
(* Answers and the audit trail.                                            *)

\* absent: the token's key was not published at some moment of the request;
\* stale: it had been withdrawn too long when the token was verified; after:
\* the token's logout was confirmed before; lasting: the token had not
\* expired when the revocation store answered.
Idle == [pc |-> "idle", token |-> None, op |-> None, answer |-> None, reply |-> None, served |-> 0,
         absent |-> FALSE, stale |-> FALSE, after |-> FALSE, lasting |-> FALSE]

\* Records of refusals are written if the audit store takes them.
Recorded(r, event, status, needed) ==
    \/ audit' = audit \cup {[request |-> r, event |-> event, status |-> status]} /\ UNCHANGED faults
    \/ ~ needed /\ faults < MaxFaults /\ faults' = faults + 1 /\ UNCHANGED audit

audit_authentication_failure(r, code) ==
    Recorded(r, IF code \in {"TOKEN_INVALID", "TOKEN_EXPIRED"} THEN code ELSE "AUTHENTICATION_FAILED",
             "DENIED", FALSE)

\* An answered request keeps only what the properties ask of it.
Answered(q, answer) ==
    [Idle EXCEPT !.pc = "done", !.answer = answer, !.stale = q.stale,
                 !.token = IF answer = "TOKEN_INVALID" THEN q.token ELSE None,
                 !.absent = answer = "TOKEN_INVALID" /\ q.absent,
                 !.op = IF answer = "ADMITTED" THEN q.op ELSE None,
                 !.lasting = answer = "ADMITTED" /\ q.lasting,
                 !.after = answer = "ADMITTED" /\ q.after]

\* get_current_principal turns what the provider raised into an answer.
Refuse(r, q, code) ==
    /\ req' = [req EXCEPT ![r] = Answered(q, code)]
    /\ audit_authentication_failure(r, code)

-----------------------------------------------------------------------------
(* Verification of a token with the key it names.                          *)

WithdrawnFor(k) == IF k \in published THEN 0 ELSE now - withdrawn[k]

\* The principal has the known ones of the claimed roles, at least one.
principal(t) == Roles[t] \cap DOMAIN ROLE_PERMISSION_MATRIX

\* Signature and required claims, expiry with leeway, principal.  Then the
\* revocation store is asked.
Decode(r, q) ==
    LET t == q.token IN
    CASE t \in Verifies /\ now >= exp[t] + Leeway -> Refuse(r, q, "TOKEN_EXPIRED")
      [] t \notin Verifies \/ principal(t) = {} -> Refuse(r, q, "TOKEN_INVALID")
      [] OTHER -> /\ req' = [req EXCEPT ![r] = [q EXCEPT !.pc = "checking", !.stale = WithdrawnFor(Kid[t]) > CacheTtl + Transit]]
                  /\ UNCHANGED <<audit, faults>>

-----------------------------------------------------------------------------
(* The resolver.                                                           *)

\* Mutant of cached: keys never lapse.
cached_forever(t) == Kid[t] \in keys

cached(t) == now < expires_at /\ Kid[t] \in keys

\* A request that finds its key takes it at once; else it takes the lock if
\* nobody has it or waits for it, and fetches, or queues for it.
Resolve(r, q) ==
    \/ cached(q.token) /\ Decode(r, q) /\ UNCHANGED resolver
    \/ /\ ~ cached(q.token) /\ holder = None /\ waiters = <<>>
       /\ holder' = r
       /\ req' = [req EXCEPT ![r] = [q EXCEPT !.pc = "fetching"]]
       /\ UNCHANGED <<keys, expires_at, waiters, audit, faults>>
    \/ /\ ~ cached(q.token) /\ (holder # None \/ waiters # <<>>)
       /\ waiters' = Append(waiters, r)
       /\ req' = [req EXCEPT ![r] = [q EXCEPT !.pc = "queued"]]
       /\ UNCHANGED <<keys, expires_at, holder, audit, faults>>

\* Mutant of Wake: the fetch another request made is taken for this one's.
WakeWithoutFetch(r) ==
    /\ holder = None /\ waiters # <<>> /\ Head(waiters) = r
    /\ waiters' = Tail(waiters)
    /\ IF cached(req[r].token) THEN Decode(r, req[r]) ELSE Refuse(r, req[r], "TOKEN_INVALID")
    /\ UNCHANGED <<provider, now, issuer, keys, expires_at, holder, exp, revoked, logged_out>>

\* The first waiter gets the lock, looks again, and fetches if it must.
Wake(r) ==
    /\ holder = None /\ waiters # <<>> /\ Head(waiters) = r
    /\ waiters' = Tail(waiters)
    /\ IF cached(req[r].token)
       THEN Decode(r, req[r]) /\ UNCHANGED holder
       ELSE /\ holder' = r
            /\ req' = [req EXCEPT ![r].pc = "fetching"]
            /\ UNCHANGED <<audit, faults>>
    /\ UNCHANGED <<provider, now, issuer, keys, expires_at, exp, revoked, logged_out>>

\* The issuer answers with the keys it publishes at that moment.
Serve(r) ==
    /\ req[r].pc = "fetching" /\ req[r].reply = None
    /\ req' = [req EXCEPT ![r].reply = published, ![r].served = now]
    /\ UNCHANGED <<provider, now, issuer, resolver, exp, revoked, logged_out, audit, faults>>

\* The answer replaces the cache, the lock is released, and the token is
\* verified or its key is unknown.
Deliver(r) ==
    /\ req[r].pc = "fetching" /\ req[r].reply # None
    /\ keys' = req[r].reply
    /\ expires_at' = now + CacheTtl
    /\ holder' = None
    /\ IF Kid[req[r].token] \in req[r].reply THEN Decode(r, [req[r] EXCEPT !.reply = None, !.served = 0])
       ELSE Refuse(r, [req[r] EXCEPT !.reply = None, !.served = 0], "TOKEN_INVALID")
    /\ UNCHANGED <<provider, now, issuer, waiters, exp, revoked, logged_out>>

Fault == faults < MaxFaults /\ faults' = faults + 1

\* Mutant of FetchFails: the lock is not released on the way out.
FetchFailsLocked(r) ==
    /\ req[r].pc = "fetching"
    /\ req' = [req EXCEPT ![r] = Answered([@ EXCEPT !.reply = None, !.served = 0], "AUTHENTICATION_UNAVAILABLE")]
    /\ Fault
    /\ audit' = audit \cup {[request |-> r, event |-> "AUTHENTICATION_FAILED", status |-> "DENIED"]}
    /\ UNCHANGED <<provider, now, issuer, resolver, exp, revoked, logged_out>>

\* A timeout, an error status or a malformed answer: 503, and the cache
\* stays as it was.
FetchFails(r) ==
    /\ req[r].pc = "fetching"
    /\ holder' = None
    /\ req' = [req EXCEPT ![r] = Answered([@ EXCEPT !.reply = None, !.served = 0], "AUTHENTICATION_UNAVAILABLE")]
    /\ Fault
    /\ audit' = audit \cup {[request |-> r, event |-> "AUTHENTICATION_FAILED", status |-> "DENIED"]}
    /\ UNCHANGED <<provider, now, issuer, keys, expires_at, waiters, exp, revoked, logged_out>>

-----------------------------------------------------------------------------
(* Arrival, admission and logout.                                          *)

\* The development provider verifies with its own secret: no key is looked up.
DevelopmentAuthenticate(r, q) == Decode(r, q) /\ UNCHANGED resolver

\* A header that is not "Bearer" and one word.
Malformed == "malformed"

\* A request without a bearer token is refused, and the disabled provider refuses all.
Arrive(r, t, op) ==
    /\ req[r].pc = "idle" /\ \A s \in Requests : s < r => req[s].pc # "idle"
    /\ LET q == [Idle EXCEPT !.token = t, !.op = op, !.after = t \in logged_out,
                             !.absent = t \in Tokens /\ Kid[t] \notin published]
       IN CASE t = None \/ (t \in Tokens /\ provider = "disabled") ->
                  Refuse(r, q, "AUTHENTICATION_REQUIRED") /\ UNCHANGED resolver
            [] t = Malformed -> Refuse(r, q, "TOKEN_INVALID") /\ UNCHANGED resolver
            [] t \in Tokens /\ provider = "development_jwt" -> DevelopmentAuthenticate(r, q)
            [] t \in Tokens /\ provider = "oidc_jwt" -> Resolve(r, q)
    /\ UNCHANGED <<provider, now, issuer, exp, revoked, logged_out>>

is_revoked(t) == now < revoked[t]

denied_type(permission) ==
    CASE permission = "runtime:override" -> "RUNTIME_OVERRIDE_DENIED"
      [] permission = "memory:mutate" -> "MEMORY_MUTATION_DENIED"
      [] OTHER -> "AUTHORIZATION_DENIED"

\* A denial is recorded if possible; a high-risk admission must be, or the
\* request is answered 503.
require_permission(r, q, permission) ==
    CASE permission \notin permissions_for_roles(Roles[q.token]) ->
            /\ req' = [req EXCEPT ![r] = Answered(q, "AUTHORIZATION_DENIED")]
            /\ Recorded(r, denied_type(permission), "DENIED", FALSE)
      [] permission \in permissions_for_roles(Roles[q.token]) /\ permission \in HIGH_RISK_PERMISSIONS ->
            \/ /\ req' = [req EXCEPT ![r] = Answered(q, "ADMITTED")]
               /\ Recorded(r, "SECURITY_ADMISSION", "ALLOWED", TRUE)
            \/ /\ req' = [req EXCEPT ![r] = Answered(q, "SECURITY_CONTROL_UNAVAILABLE")]
               /\ Fault /\ UNCHANGED audit
      [] OTHER -> req' = [req EXCEPT ![r] = Answered(q, "ADMITTED")] /\ UNCHANGED <<audit, faults>>

\* The revocation store answers, and the request is decided.
Check(r) ==
    LET q == [req[r] EXCEPT !.lasting = @ \/ (req[r].after /\ now < exp[req[r].token])] IN
    /\ req[r].pc = "checking"
    /\ CASE is_revoked(q.token) -> Refuse(r, q, "TOKEN_REVOKED")
         [] ~ is_revoked(q.token) /\ q.op = "logout" ->
               req' = [req EXCEPT ![r] = [q EXCEPT !.pc = "revoking"]] /\ UNCHANGED <<audit, faults>>
         [] OTHER -> require_permission(r, q, required(q.op))
    /\ UNCHANGED <<provider, now, issuer, resolver, exp, revoked, logged_out>>

\* Mutant of CheckFails: a store that cannot be asked has revoked nothing.
CheckFailsOpen(r) ==
    /\ req[r].pc = "checking" /\ req[r].op # "logout"
    /\ Fault
    /\ req' = [req EXCEPT ![r] = Answered([@ EXCEPT !.lasting = @ \/ (req[r].after /\ now < exp[req[r].token])], "ADMITTED")]
    /\ audit' = audit \cup {[request |-> r, event |-> "SECURITY_ADMISSION", status |-> "ALLOWED"]}
    /\ UNCHANGED <<provider, now, issuer, resolver, exp, revoked, logged_out>>

\* The store cannot be reached: 503.
CheckFails(r) ==
    /\ req[r].pc = "checking"
    /\ Fault
    /\ req' = [req EXCEPT ![r] = Answered(@, "AUTHENTICATION_UNAVAILABLE")]
    /\ audit' = audit \cup {[request |-> r, event |-> "AUTHENTICATION_FAILED", status |-> "DENIED"]}
    /\ UNCHANGED <<provider, now, issuer, resolver, exp, revoked, logged_out>>

\* The entry lasts as long as the token; nothing is stored for a token that
\* has expired.
revoke(r) ==
    LET t == req[r].token IN
    /\ req[r].pc = "revoking"
    /\ revoked' = IF exp[t] > now THEN [revoked EXCEPT ![t] = exp[t]] ELSE revoked
    /\ logged_out' = logged_out \cup {t}
    /\ req' = [req EXCEPT ![r] = Answered(@, "LOGGED_OUT")]
    /\ UNCHANGED <<provider, now, issuer, resolver, exp, audit, faults>>

\* The store does not take the entry, or its answer is lost: 503 either way.
RevokeFails(r) ==
    LET t == req[r].token IN
    /\ req[r].pc = "revoking" /\ exp[t] > now
    /\ Fault
    /\ revoked' \in {revoked, [revoked EXCEPT ![t] = exp[t]]}
    /\ req' = [req EXCEPT ![r] = Answered(@, "AUTHENTICATION_UNAVAILABLE")]
    /\ UNCHANGED <<provider, now, issuer, resolver, exp, logged_out, audit>>

-----------------------------------------------------------------------------
(* The surroundings.                                                       *)

\* Sessions of the development profiles.
issue_identity(t) ==
    /\ provider = "development_jwt" /\ exp[t] = None
    /\ exp' = [exp EXCEPT ![t] = now + SessionTtl]
    /\ UNCHANGED <<provider, now, issuer, resolver, revoked, logged_out, req, audit, faults>>

\* The issuer publishes a key or withdraws one; it always publishes some.
Rotate(k) ==
    /\ provider = "oidc_jwt" /\ rotations < MaxRotations
    /\ rotations' = rotations + 1
    /\ published' = IF k \in published THEN published \ {k} ELSE published \cup {k}
    /\ published' # {}
    /\ withdrawn' = IF k \in published THEN [withdrawn EXCEPT ![k] = now] ELSE withdrawn
    /\ req' = [r \in Requests |-> IF req[r].pc \notin {"idle", "done"} /\ Kid[req[r].token] \notin published'
                                  THEN [req[r] EXCEPT !.absent = TRUE] ELSE req[r]]
    /\ UNCHANGED <<provider, now, resolver, exp, revoked, logged_out, audit, faults>>

Tick ==
    /\ now < MaxTime
    /\ \A r \in Requests : req[r].reply # None => now - req[r].served < Transit
    /\ now' = now + 1
    /\ UNCHANGED <<provider, issuer, resolver, exp, revoked, logged_out, req, audit, faults>>

Init ==
    /\ provider \in {"oidc_jwt", "development_jwt", "disabled"}
    /\ now = 0
    /\ published \in IF provider = "oidc_jwt" THEN FirstKeys ELSE {Kids}
    /\ withdrawn = [k \in Kids |-> 0] /\ rotations = 0
    /\ keys = {} /\ expires_at = 0 /\ holder = None /\ waiters = <<>>
    /\ exp = [t \in Tokens |-> IF provider = "development_jwt" THEN None ELSE Exp[t]]
    /\ revoked = [t \in Tokens |-> 0] /\ logged_out = {}
    /\ req = [r \in Requests |-> Idle] /\ audit = {} /\ faults = 0

Progress(r) == Wake(r) \/ Serve(r) \/ Deliver(r) \/ FetchFails(r) \/ Check(r) \/ CheckFails(r)
               \/ revoke(r) \/ RevokeFails(r)

Arrivals(r) == \E c \in Calls[r] : (c[1] \in Tokens => exp[c[1]] # None) /\ Arrive(r, c[1], c[2])

Next == \/ \E r \in Requests : Arrivals(r) \/ Progress(r)
        \/ \E t \in Tokens : issue_identity(t)
        \/ \E k \in Kids : Rotate(k)
        \/ Tick

\* The event loop runs every request whose await has returned, and every
\* call returns or times out.
Spec == Init /\ [][Next]_vars /\ \A r \in Requests : WF_req(Progress(r))

-----------------------------------------------------------------------------
(* Properties.                                                             *)

(***************************************************************************)
(* A token is never accepted on a key the issuer withdrew longer ago than  *)
(* the cache holds keys, plus the time the issuer's answer was under way.  *)
(***************************************************************************)
WithdrawnKeyLapses ==
    provider = "oidc_jwt" =>
        \A r \in Requests : req[r].pc \in {"checking", "revoking"} \/ req[r].answer = "ADMITTED" =>
            ~ req[r].stale

(***************************************************************************)
(* A good token is refused as invalid only if its key was not published at *)
(* some moment of the request: a key published before the request is found *)
(* even if the cache, or a fetch already under way when it arrived, does   *)
(* not know it yet.                                                        *)
(***************************************************************************)
PublishedKeyIsFound ==
    \A r \in Requests :
        req[r].answer = "TOKEN_INVALID" /\ req[r].token \in Verifies
            /\ principal(req[r].token) # {}
        => provider = "oidc_jwt" /\ req[r].absent

(***************************************************************************)
(* A request that arrives after its token's logout was confirmed is not    *)
(* admitted while the token lasts, whichever calls fail meanwhile.         *)
(***************************************************************************)
LoggedOutIsRefused ==
    \A r \in Requests :
        req[r].after /\ req[r].answer = "ADMITTED" => ~ req[r].lasting

(***************************************************************************)
(* Every request that arrives is answered: nobody waits for the resolver's *)
(* lock forever, whichever fetches fail.  (A request is sent once, so the  *)
(* pending ones being none again and again says this of each.)             *)
(***************************************************************************)
EveryRequestAnswered ==
    []<>(\A r \in Requests : req[r].pc \in {"idle", "done"})
=============================================================================
