------------------------ MODULE FleetOperations_proofs -------------------------
(***************************************************************************)
(* TLAPS proofs that the fleet rows stay consistent, for every number of   *)
(* tasks, vehicles, bays and workers, and any number of demo resets: the   *)
(* workers' jobs, the breakdown cases, maintenance and the reset, the      *)
(* history a case leaves in its outbox, and the theorems that put them     *)
(* together.                                                               *)
(***************************************************************************)
EXTENDS FleetOperations, Integers, TLAPS

\* The empty sequence, lengths and domains.
LEMMA SequenceFacts ==
    ASSUME NEW S
    PROVE  /\ <<>> \in Seq(S) /\ Len(<<>>) = 0
           /\ \A s \in Seq(S) : /\ Len(s) \in Nat /\ DOMAIN s = 1 .. Len(s) /\ (s # <<>> => Len(s) # 0)
                                /\ \A i \in DOMAIN s : s[i] \in S
OBVIOUS

\* One element makes a sequence, and so do two.
LEMMA OneFacts ==
    ASSUME NEW S, NEW x \in S
    PROVE  <<x>> \in Seq(S) /\ DOMAIN <<x>> = {1} /\ <<x>>[1] = x
OBVIOUS
LEMMA PairFacts ==
    ASSUME NEW S, NEW x \in S, NEW y \in S
    PROVE  <<x, y>> \in Seq(S) /\ DOMAIN <<x, y>> = {1, 2} /\ <<x, y>>[1] = x /\ <<x, y>>[2] = y
OBVIOUS

\* What follows the first element of a sequence.
LEMMA TailFacts ==
    ASSUME NEW S, NEW s \in Seq(S), s # <<>>
    PROVE  /\ Tail(s) \in Seq(S) /\ Len(Tail(s)) = Len(s) - 1
           /\ \A i \in 1 .. Len(Tail(s)) : Tail(s)[i] = s[i + 1]
OBVIOUS

\* Two sequences one after the other.
LEMMA ConcatFacts ==
    ASSUME NEW S, NEW s \in Seq(S), NEW e \in Seq(S)
    PROVE  /\ s \o e \in Seq(S) /\ Len(s \o e) = Len(s) + Len(e)
           /\ \A i \in 1 .. Len(s) + Len(e) : (s \o e)[i] = IF i <= Len(s) THEN s[i] ELSE e[i - Len(s)]
OBVIOUS

\* n has the entries of s, then those of e.
Joins(s, e, n) ==
    /\ DOMAIN n \subseteq Int /\ Len(s) \in Int
    /\ \A j \in DOMAIN e : Len(s) + j \in DOMAIN n /\ n[Len(s) + j] = e[j]
    /\ \A i \in DOMAIN n : (i \in DOMAIN s /\ n[i] = s[i]) \/ (i - Len(s) \in DOMAIN e /\ n[i] = e[i - Len(s)])

\* The entries of a concatenation are those of its parts.
LEMMA ConcatEntries ==
    ASSUME NEW S, NEW s \in Seq(S), NEW e \in Seq(S)
    PROVE  Joins(s, e, s \o e)
<1>0. PICK n : n = s \o e
  BY Zenon
<1>1. Len(s) \in Nat /\ Len(e) \in Nat /\ DOMAIN s = 1 .. Len(s) /\ DOMAIN e = 1 .. Len(e)
  OBVIOUS
<1>2. /\ DOMAIN n = 1 .. Len(s) + Len(e)
      /\ \A i \in 1 .. Len(s) + Len(e) : n[i] = IF i <= Len(s) THEN s[i] ELSE e[i - Len(s)]
  BY <1>0, ConcatFacts
<1>3. Joins(s, e, n)
  BY <1>1, <1>2, SMTT(30) DEF Joins
<1> QED BY <1>0, <1>3, Zenon

USE FleetAssumption

--------------------------------------------------------------------------------
\* The workers' jobs: reserving a vehicle and asking for a breakdown case.

fleetVars == <<vehicleVars, dispatchVars, missionVars, orderVars, outbox, routed, resets>>

\* The conjuncts that do not look at the workers' jobs.
RowInv ==
    /\ RescueUnitExclusive
    /\ BayHeldByItsOrder
    /\ CaseInLockstep
    /\ NothingStranded
    /\ OneReservationPerVehicle
    /\ NoVehicleForgotten
    /\ TimerInv
    /\ HeldInv

\* Steps that leave every row alone keep the row invariants.
LEMMA RowsUntouched ==
    ASSUME RowTypeOK, RowInv, UNCHANGED fleetVars
    PROVE  RowTypeOK' /\ RowInv'
<1>1. RowTypeOK'
  BY Zenon DEF RowTypeOK, fleetVars, vehicleVars, dispatchVars, missionVars, orderVars
<1>2. RescueUnitExclusive' /\ BayHeldByItsOrder' /\ NothingStranded'
  BY Zenon DEF RowInv, RescueUnitExclusive, BayHeldByItsOrder, NothingStranded,
         fleetVars, vehicleVars, dispatchVars, missionVars, orderVars
<1>3. CaseInLockstep' /\ TimerInv'
  BY Zenon DEF RowInv, CaseInLockstep, Lockstep, TimerInv,
         fleetVars, vehicleVars, dispatchVars, missionVars, orderVars
<1>4. OneReservationPerVehicle' /\ NoVehicleForgotten' /\ HeldInv'
  BY DEF RowInv, OneReservationPerVehicle, NoVehicleForgotten, HeldInv,
         fleetVars, vehicleVars, dispatchVars, missionVars, orderVars
<1> QED BY <1>1, <1>2, <1>3, <1>4, Zenon DEF RowInv

\* Every change of a vehicle's status moves the version of its row.
VersionMoves ==
    \A v \in Vehicles :
        /\ vehicle_version'[v] >= vehicle_version[v]
        /\ vehicle_status'[v] # vehicle_status[v] => vehicle_version'[v] > vehicle_version[v]

\* A step that writes no row moves no version back.
LEMMA VersionsUntouched ==
    ASSUME TypeOK, UNCHANGED fleetVars
    PROVE  VersionMoves /\ vehicle_version' \in [Vehicles -> Nat]
<1>1. UNCHANGED <<vehicle_status, vehicle_version>>
  BY Zenon DEF fleetVars, vehicleVars
<1>2. vehicle_version \in [Vehicles -> Nat]
  BY Zenon DEF TypeOK, RowTypeOK
<1> QED BY <1>1, <1>2 DEF VersionMoves

\* So a step that leaves the jobs alone, or clears one, keeps what the jobs rely on.
LEMMA JobsStayUsable ==
    ASSUME TypeOK, JobInv, VersionMoves,
           vehicle_version' \in [Vehicles -> Nat],
           \/ UNCHANGED job
           \/ \E w \in Workers : job' = [job EXCEPT ![w] = IdleJob]
    PROVE  job' \in [Workers -> Job] /\ JobInv'
<1>1. IdleJob \in Job
  BY DEF IdleJob, Job
<1>2. job' \in [Workers -> Job]
  BY <1>1, Zenon DEF TypeOK
<1>3. ASSUME NEW w \in Workers
      PROVE  job'[w] = job[w] \/ job'[w] = IdleJob
  BY Zenon DEF TypeOK
<1>4. ASSUME NEW w \in Workers, job[w].pc = "flush", Head(job[w].attempts) # None
      PROVE  Head(job[w].attempts) \in Vehicles
  <2>1. job[w] \in Job
    BY Zenon DEF TypeOK
  <2>2. Len(job[w].attempts) \in {1, 2} /\ job[w].attempts \in Seq(Vehicles \cup {None})
    BY <1>4, <2>1, Zenon DEF JobInv, Job
  <2> QED BY <1>4, <2>2
<1>5. JobInv'
  <2> SUFFICES ASSUME NEW w \in Workers PROVE JobInv!(w)'
    BY Zenon DEF JobInv
  <2>1. CASE job'[w] = IdleJob
    BY <2>1 DEF JobInv, IdleJob
  <2>2. CASE job'[w] = job[w]
    <3> DEFINE v == Head(job[w].attempts)
    <3>1. JobInv!(w)
      BY Zenon DEF JobInv
    <3>2. CASE job[w].pc = "flush" /\ v # None
      <4>1. v \in Vehicles
        BY <1>4, <3>2, Zenon
      <4>2. job[w].version \in Nat
        BY Zenon DEF TypeOK, RowTypeOK, Job
      <4>3. vehicle_version[v] \in Nat /\ vehicle_version'[v] \in Nat
        BY <4>1, Zenon DEF TypeOK, RowTypeOK
      <4> QED BY <2>2, <3>1, <3>2, <4>1, <4>2, <4>3 DEF VersionMoves
    <3>3. CASE ~(job[w].pc = "flush" /\ v # None)
      BY <2>2, <3>1, <3>3, Zenon
    <3> QED BY <3>2, <3>3, Zenon
  <2> QED BY <1>3, <2>1, <2>2, Zenon
<1> QED BY <1>2, <1>5, Zenon

--------------------------------------------------------------------------------
(* Reserving a vehicle                                                     *)

\* The vehicle a job tries next is a vehicle and not the broken one of its own
\* order.
LEMMA AttemptIsVehicle ==
    ASSUME TypeOK, JobInv, NEW w \in Workers, job[w].pc \in {"execute", "flush"}
    PROVE  /\ job[w].task \in Tasks
           /\ Head(job[w].attempts) \in Vehicles \cup {None}
           /\ Head(job[w].attempts) # OrderVehicle[job[w].task]
<1>1. job[w].attempts \in Seq(Vehicles \cup {None}) /\ Len(job[w].attempts) \in {1, 2}
  BY Zenon DEF TypeOK, Job, JobInv
<1>2. Head(job[w].attempts) = job[w].attempts[1] /\ 1 \in DOMAIN job[w].attempts
  BY <1>1
<1>3. Head(job[w].attempts) # OrderVehicle[job[w].task]
  BY <1>2 DEF JobInv
<1> QED BY <1>1, <1>2, <1>3 DEF JobInv

\* Moving on to the next candidate (execute, after _CandidateReservationConflict)
\* keeps the jobs usable.
LEMMA CandidateStep ==
    ASSUME TypeOK, JobInv, UNCHANGED vehicleVars,
           NEW w \in Workers, job[w].pc \in {"execute", "flush"}, next_candidate(w)
    PROVE  job' \in [Workers -> Job] /\ JobInv'
<1> DEFINE a == job[w].attempts
           j == IF Len(a) = 1 THEN IdleJob
                ELSE [job[w] EXCEPT !.pc = "execute", !.attempts = Tail(a)]
<1>1. job[w] \in Job /\ a \in Seq(Vehicles \cup {None}) /\ Len(a) \in {1, 2}
  BY Zenon DEF TypeOK, Job, JobInv
<1>2. job' = [job EXCEPT ![w] = j]
  BY Zenon DEF next_candidate
<1>3. IdleJob \in Job
  BY DEF IdleJob, Job
<1>4. j \in Job
  <2>1. Tail(a) \in Seq(Vehicles \cup {None})
    <3>1. a # << >>
      <4>1. Len(a) # 0
        <5> HIDE DEF a
        <5>1. Len(a) \in {1, 2}
          BY <1>1, Zenon
        <5> HIDE <5>1
        <5> SUFFICES ASSUME NEW n \in {1, 2} PROVE n # 0
          BY <5>1, Zenon
        <5> QED OBVIOUS
      <4> QED BY <4>1, SequenceFacts, Zenon
    <3> QED BY <1>1, <3>1, TailFacts, Zenon
  <2> QED BY <1>1, <1>3, <2>1, Zenon DEF Job
<1>5. job' \in [Workers -> Job] /\ job'[w] = j /\ \A x \in Workers \ {w} : job'[x] = job[x]
  BY <1>2, <1>4, Zenon DEF TypeOK
<1>6. ASSUME NEW x \in Workers PROVE JobInv!(x)'
  <2>1. CASE x # w
    BY <1>5, <2>1 DEF JobInv, vehicleVars
  <2>2. CASE x = w /\ Len(a) = 1
    BY <1>5, <2>2 DEF JobInv, IdleJob
  <2>3. CASE x = w /\ Len(a) = 2
    <3>1. job'[w].pc = "execute" /\ job'[w].task = job[w].task /\ job'[w].attempts = Tail(a)
      BY <1>1, <1>5, <2>3 DEF Job
    <3>2. Len(Tail(a)) = 1 /\ \A i \in DOMAIN Tail(a) : Tail(a)[i] = a[2]
      <4>1. a # <<>>
        <5>1. Len(<<>>) # 2
          OBVIOUS
        <5> QED BY <2>3, <5>1, Zenon
      <4>2. /\ Tail(a) \in Seq(Vehicles \cup {None})
            /\ Len(Tail(a)) = Len(a) - 1
            /\ \A i \in 1..Len(Tail(a)) : Tail(a)[i] = a[i + 1]
        BY <1>1, <4>1, TailFacts
      <4>3. DOMAIN Tail(a) = 1..Len(Tail(a))
        BY <4>2, SequenceFacts, Zenon
      <4>4. Len(Tail(a)) = 1
        BY <2>3, <4>2
      <4> QED BY <4>2, <4>3, <4>4, SMTT(30)
    <3>3. a[2] # OrderVehicle[job[w].task] /\ job[w].task \in Tasks
      <4>1. 2 \in DOMAIN a
        BY <1>1, <2>3
      <4> QED BY <4>1, Zenon DEF JobInv
    <3> QED BY <2>3, <3>1, <3>2, <3>3
  <2> QED BY <1>1, <2>1, <2>2, <2>3, Zenon
<1> QED BY <1>5, <1>6, Zenon DEF JobInv

\* DispatchService.execute begins: only a job changes.
LEMMA StartDispatchStep ==
    ASSUME TypeOK, JobInv, NEW w \in Workers, NEW t \in Tasks, start_dispatch(w, t)
    PROVE  UNCHANGED fleetVars /\ job' \in [Workers -> Job] /\ JobInv'
<1>1. PICK a \in CandidateLists(t) :
        job' = [job EXCEPT ![w] = [pc |-> "execute", task |-> t, attempts |-> a, version |-> 0]]
  BY Zenon DEF start_dispatch
<1>2. /\ a \in Seq(Vehicles \cup {None}) /\ Len(a) \in {1, 2}
      /\ \A i \in DOMAIN a : a[i] # OrderVehicle[t]
  <2>1. CASE a = <<None>>
    BY <2>1
  <2>2. CASE \E v \in Vehicles \ {OrderVehicle[t]} : a = <<v>>
    BY <2>2
  <2>3. CASE \E u, v \in Vehicles \ {OrderVehicle[t]} : a = <<u, v>>
    <3>1. PICK u \in Vehicles \ {OrderVehicle[t]}, v \in Vehicles \ {OrderVehicle[t]} : a = <<u, v>>
      BY <2>3, Zenon
    <3>2. DOMAIN a = {1, 2} /\ a[1] = u /\ a[2] = v
      BY <3>1
    <3> QED BY <3>1, <3>2
  <2> QED BY <1>1, <2>1, <2>2, <2>3 DEF CandidateLists
<1>3. UNCHANGED fleetVars
  BY Zenon DEF start_dispatch, fleetVars
<1>4. job' \in [Workers -> Job]
  BY <1>1, <1>2, Zenon DEF TypeOK, Job
<1>5. ASSUME NEW x \in Workers PROVE JobInv!(x)'
  <2>1. CASE x = w
    BY <1>1, <1>2, <2>1, Zenon DEF TypeOK
  <2>2. CASE x # w
    BY <1>1, <1>3, <2>2, Zenon DEF TypeOK, JobInv, fleetVars, vehicleVars
  <2> QED BY <2>1, <2>2, Zenon
<1> QED BY <1>3, <1>4, <1>5, Zenon DEF JobInv

\* The unlocked read of _execute_once: a version remembered now belongs to an
\* AVAILABLE vehicle.
LEMMA ExecuteReadStep ==
    ASSUME TypeOK, JobInv, NEW w \in Workers, execute_read(w)
    PROVE  UNCHANGED fleetVars /\ job' \in [Workers -> Job] /\ JobInv'
<1> DEFINE v == Head(job[w].attempts)
<1>1. UNCHANGED fleetVars /\ job[w].pc = "execute"
  BY Zenon DEF execute_read, fleetVars
<1>2. job[w] \in Job
  BY Zenon DEF TypeOK
<1>3. v \in Vehicles \cup {None}
  BY <1>1, AttemptIsVehicle, Zenon
<1>4. VersionMoves /\ vehicle_version' \in [Vehicles -> Nat]
  BY <1>1 DEF VersionMoves, fleetVars, vehicleVars, TypeOK, RowTypeOK
<1>5. CASE job' = [job EXCEPT ![w] = IdleJob]
  BY <1>1, <1>4, <1>5, JobsStayUsable, Zenon
<1>6. CASE next_candidate(w)
  BY <1>1, <1>6, CandidateStep, Zenon DEF fleetVars
<1>7. CASE v = None /\ job' = [job EXCEPT ![w].pc = "flush"]
  <2>1. job' \in [Workers -> Job]
    BY <1>2, <1>7, Zenon DEF TypeOK, Job
  <2>2. ASSUME NEW x \in Workers PROVE JobInv!(x)'
    BY <1>1, <1>2, <1>7 DEF TypeOK, Job, JobInv, fleetVars, vehicleVars
  <2> QED BY <1>1, <2>1, <2>2, Zenon DEF JobInv
<1>8. CASE /\ v # None /\ vehicle_status[v] = "AVAILABLE"
           /\ job' = [job EXCEPT ![w].pc = "flush", ![w].version = vehicle_version[v]]
  <2>1. vehicle_version[v] \in Nat
    BY <1>3, <1>8, Zenon DEF TypeOK, RowTypeOK
  <2>2. /\ job' \in [Workers -> Job]
        /\ \A x \in Workers \ {w} : job'[x] = job[x]
        /\ job'[w] = [job[w] EXCEPT !.pc = "flush", !.version = vehicle_version[v]]
    BY <1>2, <1>8, <2>1, Zenon DEF TypeOK, Job
  <2>3. /\ job'[w].pc = "flush" /\ job'[w].version = vehicle_version[v]
        /\ job'[w].task = job[w].task /\ job'[w].attempts = job[w].attempts
    BY <1>2, <2>2, Zenon DEF Job
  <2>4. ASSUME NEW x \in Workers PROVE JobInv!(x)'
    <3>1. CASE x = w
      <4>1. vehicle_version' = vehicle_version /\ vehicle_status' = vehicle_status
        BY <1>1, Zenon DEF fleetVars, vehicleVars
      <4>2. /\ job[w].task \in Tasks /\ Len(job[w].attempts) \in {1, 2}
            /\ \A i \in DOMAIN job[w].attempts : job[w].attempts[i] # OrderVehicle[job[w].task]
        BY <1>1, Zenon DEF JobInv
      <4>3. /\ job'[w].version <= vehicle_version'[Head(job'[w].attempts)]
            /\ vehicle_status'[Head(job'[w].attempts)] = "AVAILABLE"
        <5>1. Head(job'[w].attempts) = v
          BY <2>3, Zenon
        <5>2. job'[w].version <= vehicle_version[v]
          BY <2>1, <2>3
        <5> QED BY <1>8, <4>1, <5>1, <5>2, Zenon
      <4>4. JobInv!(w)'
        BY <2>3, <4>2, <4>3, Zenon
      <4> QED BY <3>1, <4>4, Zenon
    <3>2. CASE x # w
      BY <1>1, <2>2, <3>2 DEF JobInv, fleetVars, vehicleVars
    <3> QED BY <3>1, <3>2, Zenon
  <2> QED BY <1>1, <2>2, <2>4, Zenon DEF JobInv
<1> QED BY <1>5, <1>6, <1>7, <1>8, Zenon DEF execute_read

\* The reservation itself: the version check makes it start from AVAILABLE.
LEMMA ReserveFromAvailable ==
    ASSUME TypeOK, JobInv, NEW w \in Workers, job[w].pc = "flush",
           Head(job[w].attempts) # None, version_matches(w, Head(job[w].attempts))
    PROVE  vehicle_status[Head(job[w].attempts)] = "AVAILABLE"
BY Zenon DEF version_matches, JobInv

\* The flush of _execute_once: the version check makes the reservation exclusive.
LEMMA ExecuteCommitStep ==
    ASSUME OperationsInv, NEW w \in Workers, execute_commit(w)
    PROVE  OperationsInv'
<1> DEFINE t == job[w].task
           v == Head(job[w].attempts)
<1> USE DEF OperationsInv
<1>1. job[w].pc = "flush" /\ UNCHANGED <<missionVars, orderVars, outbox, routed, resets>>
  BY Zenon DEF execute_commit
<1>2. t \in Tasks /\ v \in Vehicles \cup {None} /\ v # OrderVehicle[t]
  BY <1>1, AttemptIsVehicle, Zenon
<1>3. CASE /\ UNCHANGED <<vehicleVars, dispatchVars>>
           /\ next_candidate(w) \/ job' = [job EXCEPT ![w] = IdleJob]
  <2>1. UNCHANGED fleetVars
    BY <1>1, <1>3, Zenon DEF fleetVars
  <2>2. VersionMoves /\ vehicle_version' \in [Vehicles -> Nat]
    BY <2>1, VersionsUntouched, Zenon
  <2>3. job' \in [Workers -> Job] /\ JobInv'
    BY <1>1, <1>3, <2>2, CandidateStep, JobsStayUsable, Zenon
  <2> QED BY <2>1, <2>3, RowsUntouched, Zenon DEF TypeOK, RowInv
<1>4. CASE /\ version_matches(w, v) /\ t \notin dispatched
           /\ dispatched' = dispatched \cup {t} /\ target' = [target EXCEPT ![t] = v]
           /\ v = None /\ UNCHANGED vehicleVars
           /\ job' = [job EXCEPT ![w] = IdleJob]
  <2>1. VersionMoves /\ vehicle_version' \in [Vehicles -> Nat]
    BY <1>4 DEF VersionMoves, vehicleVars, TypeOK, RowTypeOK
  <2>2. job' \in [Workers -> Job] /\ JobInv'
    BY <1>4, <2>1, JobsStayUsable, Zenon
  <2>3. target' = target
    BY <1>2, <1>4 DEF HeldInv, TypeOK, RowTypeOK
  <2>4. RowTypeOK'
    BY <1>1, <1>2, <1>4, Zenon DEF TypeOK, RowTypeOK, vehicleVars, missionVars, orderVars
  <2>5. RescueUnitExclusive' /\ BayHeldByItsOrder' /\ NothingStranded' /\ TimerInv'
    BY <1>1, Zenon DEF RescueUnitExclusive, BayHeldByItsOrder, NothingStranded, TimerInv, missionVars, orderVars
  <2>6. CaseInLockstep' /\ NoVehicleForgotten'
    BY <1>1, <1>4, ZenonT(60) DEF CaseInLockstep, Lockstep, NoVehicleForgotten, missionVars, orderVars, vehicleVars
  <2>7. HeldInv' /\ OneReservationPerVehicle'
    BY <1>1, <1>2, <1>4, <2>3 DEF HeldInv, OneReservationPerVehicle, missionVars, vehicleVars, TypeOK, RowTypeOK
  <2> QED BY <2>2, <2>4, <2>5, <2>6, <2>7, Zenon DEF TypeOK
<1>5. CASE /\ version_matches(w, v) /\ t \notin dispatched
           /\ dispatched' = dispatched \cup {t} /\ target' = [target EXCEPT ![t] = v]
           /\ v # None
           /\ vehicle_status' = [vehicle_status EXCEPT ![v] = "RESERVED"]
           /\ vehicle_version' = [vehicle_version EXCEPT ![v] = @ + 1]
           /\ UNCHANGED vehicle_order
           /\ job' = [job EXCEPT ![w] = IdleJob]
  <2>0. v \in Vehicles /\ vehicle_status[v] = "AVAILABLE" /\ vehicle_version[v] \in Nat
    BY <1>1, <1>2, <1>5, ReserveFromAvailable, Zenon DEF TypeOK, RowTypeOK
  <2>1. VersionMoves /\ vehicle_version' \in [Vehicles -> Nat]
    BY <1>5, <2>0 DEF VersionMoves, TypeOK, RowTypeOK
  <2>2. job' \in [Workers -> Job] /\ JobInv'
    BY <1>5, <2>1, JobsStayUsable, Zenon
  <2>4. RowTypeOK'
    BY <1>1, <1>2, <1>5, <2>0, <2>1, Zenon
    DEF TypeOK, RowTypeOK, missionVars, orderVars, VehicleOperationalStatus
  <2>5. RescueUnitExclusive' /\ BayHeldByItsOrder' /\ NothingStranded' /\ TimerInv'
    BY <1>1, Zenon DEF RescueUnitExclusive, BayHeldByItsOrder, NothingStranded, TimerInv, missionVars, orderVars
  <2>6. CaseInLockstep'
    BY <1>1, <1>5, <2>0, ZenonT(60)
    DEF CaseInLockstep, Lockstep, missionVars, orderVars, TypeOK, RowTypeOK, OpenOrder, ActiveMaintenance, ActiveRescue
  <2>7. NoVehicleForgotten'
    BY <1>1, <1>5, <2>0 DEF NoVehicleForgotten, missionVars, orderVars, TypeOK, RowTypeOK
  <2>8. \A u \in Tasks : target[u] = v /\ mission_status[u] = "NONE" => resets # 0
    BY <2>0, <1>5, Zenon DEF HeldInv
  <2>9. target' = [target EXCEPT ![t] = v] /\ target'[t] = v /\ \A u \in Tasks : u # t => target'[u] = target[u]
    <3>1. target \in [Tasks -> Vehicles \cup {None}]
      BY Zenon DEF TypeOK, RowTypeOK
    <3> QED BY <1>2, <1>5, <3>1, Zenon
  <2>10. UNCHANGED <<mission_status, resets>> /\ dispatched' = dispatched \cup {t} /\ dispatched \subseteq Tasks
    BY <1>1, <1>5, Zenon DEF missionVars, TypeOK, RowTypeOK
  <2>11. HeldInv'
    <3>0. vehicle_status'[v] = "RESERVED" /\ \A x \in Vehicles : x # v => vehicle_status'[x] = vehicle_status[x]
      <4>1. vehicle_status \in [Vehicles -> VehicleOperationalStatus]
        BY Zenon DEF TypeOK, RowTypeOK
      <4> QED BY <1>5, <2>0, <4>1, Zenon
    <3>1. ASSUME NEW u \in Tasks, target'[u] # None PROVE u \in dispatched' /\ target'[u] # OrderVehicle[u]
      BY <1>2, <2>9, <2>10, <3>1, Zenon DEF HeldInv
    <3>2. ASSUME resets = 0, NEW u \in Tasks, target'[u] # None, mission_status[u] = "NONE"
          PROVE  vehicle_status'[target'[u]] = "RESERVED"
      <4>1. CASE u = t
        BY <2>9, <3>0, <4>1, Zenon
      <4>2. CASE u # t
        <5>1. target'[u] = target[u] /\ vehicle_status[target[u]] = "RESERVED"
          BY <2>9, <3>2, <4>2, Zenon DEF HeldInv
        <5>2. target[u] # v
          BY <2>8, <3>2, Zenon
        <5>3. target[u] \in Vehicles
          BY <3>2, <5>1, ZenonT(60) DEF TypeOK, RowTypeOK
        <5> QED BY <3>0, <5>1, <5>2, <5>3, Zenon
      <4> QED BY <4>1, <4>2, Zenon
    <3> QED BY <2>10, <3>1, <3>2, Zenon DEF HeldInv
  <2>12. OneReservationPerVehicle'
    <3>1. ASSUME resets = 0, NEW u \in dispatched', target'[u] # None, mission_status[u] = "NONE", u # t
          PROVE  u \in dispatched /\ target'[u] = target[u] /\ target[u] # v
      BY <2>8, <2>9, <2>10, <3>1, Zenon
    <3> SUFFICES ASSUME resets = 0, NEW x \in dispatched', NEW y \in dispatched',
                        target'[x] = target'[y], target'[x] # None,
                        mission_status[x] = "NONE", mission_status[y] = "NONE", x # y
                 PROVE  FALSE
      BY <2>10, ZenonT(60) DEF OneReservationPerVehicle
    <3>2. x # t /\ y # t
      BY <2>9, <3>1, ZenonT(60)
    <3>3. x \in dispatched /\ y \in dispatched /\ target[x] = target[y] /\ target[x] # None
      BY <3>1, <3>2, Zenon
    <3> QED BY <3>3, Zenon DEF OneReservationPerVehicle
  <2> QED BY <2>2, <2>4, <2>5, <2>6, <2>7, <2>11, <2>12, Zenon DEF TypeOK
<1> QED BY <1>3, <1>4, <1>5, Zenon DEF execute_commit

--------------------------------------------------------------------------------
(* Opening a case                                                          *)

\* A step that changes nothing but a job keeps the invariant if the jobs stay
\* usable.
LEMMA JobOnlyStep ==
    ASSUME OperationsInv, UNCHANGED fleetVars, job' \in [Workers -> Job], JobInv'
    PROVE  OperationsInv'
BY RowsUntouched, Zenon DEF OperationsInv, RowInv, TypeOK

\* RescueOrchestrationService.orchestrate up to create_breakdown_case: only a job
\* and the routed flag change.
LEMMA OrchestrateStep ==
    ASSUME OperationsInv, NEW w \in Workers, NEW t \in Tasks, orchestrate(w, t)
    PROVE  OperationsInv'
<1> USE DEF OperationsInv
<1>0. UNCHANGED <<vehicleVars, dispatchVars, missionVars, orderVars, outbox, resets>>
  BY Zenon DEF orchestrate
<1>1. routed' \in [Tasks -> BOOLEAN]
  BY Zenon DEF orchestrate, TypeOK, RowTypeOK
<1>2. RowTypeOK'
  BY <1>0, <1>1, Zenon DEF TypeOK, RowTypeOK, vehicleVars, dispatchVars, missionVars, orderVars
<1>3. RowInv'
  <2>1. RescueUnitExclusive' /\ BayHeldByItsOrder' /\ NothingStranded' /\ TimerInv'
    BY <1>0, Zenon DEF RescueUnitExclusive, BayHeldByItsOrder, NothingStranded, TimerInv, missionVars, orderVars
  <2>2. CaseInLockstep' /\ NoVehicleForgotten'
    BY <1>0, ZenonT(60) DEF CaseInLockstep, Lockstep, NoVehicleForgotten, missionVars, orderVars, vehicleVars
  <2>3. HeldInv' /\ OneReservationPerVehicle'
    BY <1>0 DEF HeldInv, OneReservationPerVehicle, missionVars, vehicleVars, dispatchVars
  <2> QED BY <2>1, <2>2, <2>3, Zenon DEF RowInv
<1>4. job' \in [Workers -> Job] /\ JobInv'
  <2>1. VersionMoves /\ vehicle_version' \in [Vehicles -> Nat]
    BY <1>0 DEF VersionMoves, vehicleVars, TypeOK, RowTypeOK
  <2>2. CASE UNCHANGED job
    BY <2>1, <2>2, JobsStayUsable, Zenon
  <2>3. CASE job' = [job EXCEPT ![w] = [IdleJob EXCEPT !.pc = "create", !.task = t]]
    <3> DEFINE j == [IdleJob EXCEPT !.pc = "create", !.task = t]
    <3>0. IdleJob \in Job
      BY DEF IdleJob, Job
    <3>1. j \in Job /\ j.pc = "create" /\ j.task = t
      BY <3>0, Zenon DEF Job
    <3>2. job' \in [Workers -> Job] /\ job'[w] = j /\ \A x \in Workers \ {w} : job'[x] = job[x]
      BY <2>3, <3>1, Zenon DEF TypeOK
    <3>3. ASSUME NEW x \in Workers PROVE JobInv!(x)'
      <4>1. CASE x = w
        BY <3>1, <3>2, <4>1, Zenon
      <4>2. CASE x # w
        BY <1>0, <3>2, <4>2 DEF JobInv, vehicleVars
      <4> QED BY <4>1, <4>2, Zenon
    <3> QED BY <3>2, <3>3, Zenon DEF JobInv
  <2> QED BY <2>2, <2>3, Zenon DEF orchestrate
<1> QED BY <1>2, <1>3, <1>4, Zenon DEF RowInv, TypeOK

\* Appending events to a task's outbox keeps the outbox typed.
LEMMA EmitTyped ==
    ASSUME NEW t \in Tasks, NEW e \in Seq(Events), outbox \in [Tasks -> Seq(Events)], emit(t, e)
    PROVE  outbox' \in [Tasks -> Seq(Events)]
<1>1. outbox[t] \o e \in Seq(Events)
  BY ConcatFacts, Zenon
<1> QED BY <1>1, Zenon DEF emit

\* The events create_breakdown_case records are events.
LEMMA CaseEventsTyped ==
    ASSUME NEW r
    PROVE  <<"VEHICLE_STOPPED">> \o (IF r = None THEN <<>> ELSE <<"REPLACEMENT_DISPATCHED">>)
             \o <<"RESCUE_DISPATCHED", "MAINTENANCE_SCHEDULED">> \in Seq(Events)
<1> DEFINE x == IF r = None THEN <<>> ELSE <<"REPLACEMENT_DISPATCHED">>
<1>1. <<"VEHICLE_STOPPED">> \in Seq(Events)
  BY DEF Events
<1>2. x \in Seq(Events)
  <2>1. <<"REPLACEMENT_DISPATCHED">> \in Seq(Events)
    BY DEF Events
  <2>2. <<>> \in Seq(Events)
    OBVIOUS
  <2> QED BY <2>1, <2>2, Zenon
<1>3. <<"RESCUE_DISPATCHED", "MAINTENANCE_SCHEDULED">> \in Seq(Events)
  BY DEF Events
<1> HIDE DEF x
<1>4. <<"VEHICLE_STOPPED">> \o x \in Seq(Events)
  BY <1>1, <1>2, ConcatFacts, Zenon
<1>5. (<<"VEHICLE_STOPPED">> \o x) \o <<"RESCUE_DISPATCHED", "MAINTENANCE_SCHEDULED">> \in Seq(Events)
  BY <1>3, <1>4, ConcatFacts, Zenon
<1> QED BY <1>5, Zenon DEF x

\* Two open cases are about two vehicles.
LEMMA OpenCasesDisjoint ==
    ASSUME CaseInLockstep, NEW t \in Tasks, NEW u \in Tasks,
           order_status[t] \in OpenOrder, order_status[u] \in OpenOrder,
           OrderVehicle[t] = OrderVehicle[u]
    PROVE  t = u
BY DEF CaseInLockstep, Lockstep

--------------------------------------------------------------------------------
\* Breakdown cases: opening a case and towing its vehicle, whatever other
\* cases are open.

\* The locked transaction that opens a case, whatever the bay it takes.
LEMMA CommitCaseStep ==
    ASSUME OperationsInv, NEW t \in Tasks, NEW no \in Days \X {Suffix[u] : u \in Tasks},
           case_can_commit(t, no), commit_case(t, no), UNCHANGED <<dispatchVars, resets>>
    PROVE  RowTypeOK' /\ RowInv' /\ VersionMoves
<1> DEFINE v == OrderVehicle[t]
           r == target[t]
<1> USE DEF OperationsInv
<1>1. /\ v \in Vehicles /\ r \in Vehicles \cup {None} /\ r # v
      /\ None \notin Vehicles
  <2>1. target \in [Tasks -> Vehicles \cup {None}] /\ (r # None => r # v)
    BY Zenon DEF TypeOK, RowTypeOK, HeldInv
  <2> QED BY <2>1, Zenon
<1>2. /\ vehicle_status[v] \in {"AVAILABLE", "IN_TRANSIT"}
      /\ r # None => vehicle_status[r] \in {"AVAILABLE", "RESERVED"}
  BY Zenon DEF case_can_commit, vehicles_may_move, VehicleMay, VehicleTransitions
<1>3. unit_status = "AVAILABLE" /\ mission_status[t] = "NONE"
  BY Zenon DEF case_can_commit, unit_free, unique_keys_free
<1>4. \A u \in Tasks : mission_status[u] \notin ActiveRescue
  BY <1>3, Zenon DEF RescueUnitExclusive
<1>5. order_status[t] \notin OpenOrder
  BY <1>3, Zenon DEF CaseInLockstep, Lockstep, OpenOrder, ActiveRescue
<1>6. \A u \in Tasks : order_status[u] \in OpenOrder => OrderVehicle[u] # v /\ OrderVehicle[u] # r
  BY <1>1, <1>2, <1>4 DEF CaseInLockstep, Lockstep, OpenOrder, ActiveMaintenance
<1>7. PICK b \in free_bays : /\ order_bay' = [order_bay EXCEPT ![t] = b]
                             /\ bay_order' = [bay_order EXCEPT ![b] = t]
  BY Zenon DEF commit_case
<1>8. b \in Bays /\ bay_order[b] = None
  BY Zenon DEF free_bays
<1>9. /\ vehicle_status' \in [Vehicles -> VehicleOperationalStatus]
      /\ vehicle_status'[v] = "WAITING_RESCUE"
      /\ r # None => vehicle_status'[r] = "IN_TRANSIT"
      /\ \A x \in Vehicles : x # v /\ x # r => vehicle_status'[x] = vehicle_status[x]
  BY <1>1, ZenonT(60) DEF commit_case, TypeOK, RowTypeOK, VehicleOperationalStatus
<1>10. vehicle_version' \in [Vehicles -> Nat] /\ VersionMoves
  <2>1. vehicle_version \in [Vehicles -> Nat]
    BY Zenon DEF TypeOK, RowTypeOK
  <2>2. vehicle_version' = [x \in Vehicles |-> IF x \in {v} \cup ({r} \ {None}) THEN vehicle_version[x] + 1
                                             ELSE vehicle_version[x]]
    BY Zenon DEF commit_case
  <2> QED BY <1>1, <1>9, <2>1, <2>2 DEF VersionMoves
<1>11. /\ vehicle_order' = [vehicle_order EXCEPT ![v] = t]
       /\ unit_status' = "DISPATCHED"
       /\ mission_status' = [mission_status EXCEPT ![t] = "DISPATCHED"]
       /\ mission_timer' = [mission_timer EXCEPT ![t] = TRUE]
       /\ mission_no' = [mission_no EXCEPT ![t] = no]
       /\ order_status' = [order_status EXCEPT ![t] = "SCHEDULED"]
       /\ UNCHANGED <<order_timer, order_result, dispatched, target, resets>>
  BY Zenon DEF commit_case, dispatchVars
<1>12. \A u \in Tasks : u # t => /\ mission_status'[u] = mission_status[u]
                                 /\ mission_timer'[u] = mission_timer[u]
                                 /\ order_status'[u] = order_status[u]
                                 /\ order_bay'[u] = order_bay[u]
  BY <1>7, <1>11, Zenon DEF TypeOK, RowTypeOK
<1>13. /\ mission_status'[t] = "DISPATCHED" /\ mission_timer'[t]
       /\ order_status'[t] = "SCHEDULED" /\ order_bay'[t] = b
       /\ vehicle_order'[v] = t
  BY <1>1, <1>7, <1>11, Zenon DEF TypeOK, RowTypeOK
<1>14. RowTypeOK'
  <2>1. outbox' \in [Tasks -> Seq(Events)]
    BY CaseEventsTyped, EmitTyped, Zenon DEF commit_case, TypeOK, RowTypeOK
  <2>2. order_manual' \in [Tasks -> BOOLEAN] /\ routed' \in [Tasks -> BOOLEAN]
    <3>1. PICK m \in BOOLEAN : order_manual' = [order_manual EXCEPT ![t] = m]
      BY Zenon DEF commit_case
    <3>2. PICK e \in BOOLEAN : routed' = [routed EXCEPT ![t] = e]
      BY Zenon DEF commit_case
    <3>3. order_manual' \in [Tasks -> BOOLEAN]
      BY <3>1, Zenon DEF TypeOK, RowTypeOK
    <3>4. routed' \in [Tasks -> BOOLEAN]
      BY <3>2, Zenon DEF TypeOK, RowTypeOK
    <3> QED BY <3>3, <3>4, Zenon
  <2>3. /\ mission_status' \in [Tasks -> RescueStatus \cup {"NONE"}]
        /\ mission_timer' \in [Tasks -> BOOLEAN]
        /\ mission_no' \in [Tasks -> (Days \X {Suffix[u] : u \in Tasks}) \cup {None}]
        /\ order_status' \in [Tasks -> MaintenanceStatus \cup {"NONE"}]
    BY <1>11, Zenon DEF TypeOK, RowTypeOK, RescueStatus, MaintenanceStatus
  <2>4. /\ vehicle_order' \in [Vehicles -> Tasks \cup {None}]
        /\ order_bay' \in [Tasks -> Bays \cup {None}]
        /\ bay_order' \in [Bays -> Tasks \cup {None}]
    BY <1>7, <1>8, <1>11, Zenon DEF TypeOK, RowTypeOK
  <2>5. /\ order_timer' \in [Tasks -> BOOLEAN] /\ order_result' \in [Tasks -> {"NONE", "PASSED", "FAILED"}]
        /\ dispatched' \subseteq Tasks /\ target' \in [Tasks -> Vehicles \cup {None}] /\ resets' \in Nat
    BY <1>11, Zenon DEF TypeOK, RowTypeOK
  <2>6. unit_status' \in {"AVAILABLE", "DISPATCHED"}
    BY <1>11, Zenon
  <2> QED BY <1>9, <1>10, <2>1, <2>2, <2>3, <2>4, <2>5, <2>6, Zenon DEF RowTypeOK
<1>15. RescueUnitExclusive'
  <2>1. \A u \in Tasks : mission_status'[u] \in ActiveRescue => u = t
    BY <1>4, <1>12, Zenon
  <2>2. "DISPATCHED" \in ActiveRescue
    BY Zenon DEF ActiveRescue
  <2> QED BY <1>11, <1>13, <2>1, <2>2, ZenonT(60) DEF RescueUnitExclusive
<1>16. BayHeldByItsOrder'
  <2>1. ASSUME NEW c \in Bays, bay_order'[c] # None
        PROVE  order_status'[bay_order'[c]] \in OpenOrder /\ order_bay'[bay_order'[c]] = c
    <3>1. CASE c = b
      BY <1>7, <1>8, <1>13, <3>1, ZenonT(60) DEF TypeOK, RowTypeOK, OpenOrder
    <3>2. CASE c # b
      <4>1. bay_order'[c] = bay_order[c] /\ bay_order[c] \in Tasks
        BY <1>7, <1>8, <2>1, <3>2, ZenonT(60) DEF TypeOK, RowTypeOK
      <4>2. order_status[bay_order[c]] \in OpenOrder /\ order_bay[bay_order[c]] = c
        BY <2>1, <4>1, Zenon DEF BayHeldByItsOrder
      <4>3. bay_order[c] # t
        BY <1>5, <4>2, Zenon
      <4> QED BY <1>12, <4>1, <4>2, <4>3, ZenonT(60)
    <3> QED BY <3>1, <3>2, Zenon
  <2>2. ASSUME NEW u \in Tasks, order_status'[u] \in OpenOrder
        PROVE  order_bay'[u] \in Bays /\ bay_order'[order_bay'[u]] = u
    <3>1. CASE u = t
      BY <1>7, <1>8, <1>13, <3>1, ZenonT(60) DEF TypeOK, RowTypeOK
    <3>2. CASE u # t
      <4>1. order_bay'[u] = order_bay[u] /\ order_bay[u] \in Bays /\ bay_order[order_bay[u]] = u
        BY <1>12, <2>2, <3>2, Zenon DEF BayHeldByItsOrder
      <4>2. order_bay[u] # b
        BY <1>8, <4>1, Zenon
      <4> QED BY <1>7, <1>8, <4>1, <4>2, ZenonT(60) DEF TypeOK, RowTypeOK
    <3> QED BY <3>1, <3>2, Zenon
  <2> QED BY <2>1, <2>2, Zenon DEF BayHeldByItsOrder
<1>17. CaseInLockstep'
  <2> SUFFICES ASSUME NEW u \in Tasks PROVE Lockstep(u)'
    BY Zenon DEF CaseInLockstep
  <2>1. CASE u = t
    BY <1>9, <1>13, <2>1, Zenon DEF Lockstep, ActiveRescue, ActiveMaintenance, OpenOrder
  <2>2. CASE u # t
    <3>1. Lockstep(u) /\ OrderVehicle[u] \in Vehicles
      BY Zenon DEF CaseInLockstep
    <3>2. CASE order_status[u] \in OpenOrder
      <4>1. /\ vehicle_status'[OrderVehicle[u]] = vehicle_status[OrderVehicle[u]]
            /\ vehicle_order'[OrderVehicle[u]] = vehicle_order[OrderVehicle[u]]
        BY <1>6, <1>9, <1>11, <3>1, <3>2, ZenonT(60) DEF TypeOK, RowTypeOK
      <4> QED BY <1>12, <2>2, <3>1, <4>1, Zenon DEF Lockstep
    <3>3. CASE order_status[u] \notin OpenOrder
      BY <1>4, <1>12, <2>2, <3>3, ZenonT(60) DEF Lockstep, OpenOrder, ActiveRescue
    <3> QED BY <3>2, <3>3, Zenon
  <2> QED BY <2>1, <2>2, Zenon
<1>18. NothingStranded' /\ TimerInv'
  <2>1. ~order_timer[t]
    BY <1>5, Zenon DEF TimerInv, OpenOrder
  <2>2. \A u \in Tasks : u # t => order_manual'[u] = order_manual[u]
    <3>1. order_manual \in [Tasks -> BOOLEAN] /\ \E m \in BOOLEAN : order_manual' = [order_manual EXCEPT ![t] = m]
      BY Zenon DEF commit_case, TypeOK, RowTypeOK
    <3> QED BY <3>1, Zenon
  <2> QED BY <1>11, <1>12, <1>13, <2>1, <2>2
          DEF NothingStranded, TimerInv, ActiveRescue, ActiveMaintenance
<1>19. HeldInv' /\ OneReservationPerVehicle'
  <2>1. ASSUME resets = 0, NEW u \in Tasks, u # t, target[u] # None, mission_status[u] = "NONE"
        PROVE  target[u] \in Vehicles /\ target[u] # v /\ target[u] # r
    <3>1. target[u] \in Vehicles
      <4>1. target \in [Tasks -> Vehicles \cup {None}]
        BY Zenon DEF TypeOK, RowTypeOK
      <4> QED BY <2>1, <4>1, Zenon
    <3>2. u \in dispatched /\ vehicle_status[target[u]] = "RESERVED"
      BY <2>1, Zenon DEF HeldInv
    <3>3. target[u] # v
      BY <1>2, <1>3, <3>2, Zenon
    <3>4. target[u] # r
      <4> SUFFICES ASSUME target[u] = r PROVE FALSE
        BY Zenon
      <4>1. t \in dispatched
        BY <2>1, Zenon DEF HeldInv
      <4> QED BY <1>3, <2>1, <3>2, <4>1, Zenon DEF OneReservationPerVehicle
    <3> QED BY <3>1, <3>3, <3>4, Zenon
  <2>2. HeldInv'
    <3>1. \A u \in Tasks : target[u] # None => u \in dispatched /\ target[u] # OrderVehicle[u]
      BY Zenon DEF HeldInv
    <3>2. ASSUME resets = 0, NEW u \in Tasks, target[u] # None, mission_status'[u] = "NONE"
          PROVE  vehicle_status'[target[u]] = "RESERVED"
      <4>1. u # t
        BY <1>13, <3>2, Zenon
      <4>2. mission_status[u] = "NONE"
        BY <1>12, <3>2, <4>1, Zenon
      <4>3. target[u] \in Vehicles /\ target[u] # v /\ target[u] # r
        BY <2>1, <3>2, <4>1, <4>2, Zenon
      <4>4. vehicle_status[target[u]] = "RESERVED"
        BY <3>2, <4>2, Zenon DEF HeldInv
      <4> QED BY <1>9, <4>3, <4>4, Zenon
    <3> QED BY <1>11, <3>1, <3>2, Zenon DEF HeldInv
  <2>3. OneReservationPerVehicle'
    <3>1. UNCHANGED <<dispatched, target, resets>>
      BY <1>11, Zenon
    <3>2. \A u \in Tasks : mission_status'[u] = "NONE" => mission_status[u] = "NONE"
      BY <1>12, <1>13, Zenon
    <3> SUFFICES ASSUME resets = 0, NEW x \in dispatched, NEW y \in dispatched,
                        target[x] = target[y], target[x] # None,
                        mission_status'[x] = "NONE", mission_status'[y] = "NONE"
                 PROVE  x = y
      BY <3>1, ZenonT(60) DEF OneReservationPerVehicle
    <3>3. x \in Tasks /\ y \in Tasks
      BY Zenon DEF TypeOK, RowTypeOK
    <3> QED BY <3>2, <3>3, Zenon DEF OneReservationPerVehicle
  <2> QED BY <2>2, <2>3, Zenon
<1>20. NoVehicleForgotten'
  <2> SUFFICES ASSUME resets = 0, NEW x \in Vehicles,
                      vehicle_status'[x] \in {"WAITING_RESCUE", "IN_RESCUE", "MAINTENANCE", "QA_PENDING"}
               PROVE  \/ \E u \in Tasks : OrderVehicle[u] = x /\ order_status'[u] \in OpenOrder
                      \/ vehicle_status'[x] = SeedStatus[x]
    BY <1>11, Zenon DEF NoVehicleForgotten
  <2>1. CASE x = v
    BY <1>13, <2>1, Zenon DEF OpenOrder
  <2>2. CASE x # v
    <3>1. vehicle_status'[x] = vehicle_status[x]
      BY <1>1, <1>9, <2>2, Zenon
    <3>2. \/ \E u \in Tasks : OrderVehicle[u] = x /\ order_status[u] \in OpenOrder
          \/ vehicle_status'[x] = SeedStatus[x]
      BY <3>1, Zenon DEF NoVehicleForgotten
    <3> QED BY <1>5, <1>12, <3>2, Zenon
  <2> QED BY <2>1, <2>2, Zenon
<1> QED BY <1>10, <1>14, <1>15, <1>16, <1>17, <1>18, <1>19, <1>20, Zenon DEF RowInv

\* create_breakdown_case, committed or refused, keeps the invariant.
LEMMA CreateCaseStep ==
    ASSUME OperationsInv, NEW w \in Workers, create_breakdown_case(w)
    PROVE  OperationsInv'
<1> DEFINE t == job[w].task
<1>1. t \in Tasks
  BY Zenon DEF OperationsInv, JobInv, create_breakdown_case
<1>2. job' = [job EXCEPT ![w] = IdleJob] /\ UNCHANGED <<dispatchVars, resets>>
  BY Zenon DEF create_breakdown_case
<1>3. PICK day \in Days :
        \/ case_can_commit(t, <<day, Suffix[t]>>) /\ commit_case(t, <<day, Suffix[t]>>)
        \/ UNCHANGED <<vehicleVars, missionVars, orderVars, outbox, routed>>
  BY Zenon DEF create_breakdown_case
<1>4. RowTypeOK' /\ RowInv' /\ VersionMoves
  <2>1. CASE case_can_commit(t, <<day, Suffix[t]>>) /\ commit_case(t, <<day, Suffix[t]>>)
    <3>1. <<day, Suffix[t]>> \in Days \X {Suffix[u] : u \in Tasks}
      BY <1>1, Zenon
    <3> QED BY <1>1, <1>2, <2>1, <3>1, CommitCaseStep, Zenon
  <2>2. CASE UNCHANGED <<vehicleVars, missionVars, orderVars, outbox, routed>>
    <3>1. UNCHANGED fleetVars
      BY <1>2, <2>2, Zenon DEF fleetVars
    <3>2. VersionMoves
      BY <2>2 DEF VersionMoves, vehicleVars, OperationsInv, TypeOK, RowTypeOK
    <3> QED BY <3>1, <3>2, RowsUntouched, Zenon DEF OperationsInv, RowInv, TypeOK
  <2> QED BY <1>3, <2>1, <2>2, Zenon
<1>5. job' \in [Workers -> Job] /\ JobInv'
  BY <1>2, <1>4, JobsStayUsable, Zenon DEF OperationsInv, RowTypeOK
<1> QED BY <1>4, <1>5, Zenon DEF OperationsInv, RowInv, TypeOK

--------------------------------------------------------------------------------
(* Moving a case forward                                                   *)

\* A step of the case of t: every other case and every other vehicle is left alone.
CaseMove(t) ==
    /\ order_status[t] \in OpenOrder
    /\ UNCHANGED <<dispatchVars, mission_no, order_manual, order_bay, routed, job, resets>>
    /\ \A u \in Tasks \ {t} :
         /\ mission_status'[u] = mission_status[u] /\ mission_timer'[u] = mission_timer[u]
         /\ order_status'[u] = order_status[u] /\ order_timer'[u] = order_timer[u]
    /\ \A x \in Vehicles \ {OrderVehicle[t]} :
         /\ vehicle_status'[x] = vehicle_status[x] /\ vehicle_order'[x] = vehicle_order[x]

\* A step that moves one case leaves every other case, and every promised
\* vehicle, as it was.
LEMMA OtherCasesKept ==
    ASSUME OperationsInv, NEW t \in Tasks, CaseMove(t), Lockstep(t)', mission_status'[t] # "NONE",
           vehicle_status'[OrderVehicle[t]]
             \in {"WAITING_RESCUE", "IN_RESCUE", "MAINTENANCE", "QA_PENDING"}
             => order_status'[t] \in OpenOrder
    PROVE  CaseInLockstep' /\ HeldInv' /\ OneReservationPerVehicle' /\ NoVehicleForgotten'
<1> USE DEF OperationsInv
<1> DEFINE v == OrderVehicle[t]
<1>1. v \in Vehicles /\ vehicle_status[v] \in {"WAITING_RESCUE", "IN_RESCUE", "MAINTENANCE", "QA_PENDING"}
  BY Zenon DEF CaseMove, CaseInLockstep, Lockstep, OpenOrder, ActiveRescue
<1>2. UNCHANGED <<dispatched, target, resets>>
  BY Zenon DEF CaseMove, dispatchVars
<1>3. CaseInLockstep'
  <2> SUFFICES ASSUME NEW u \in Tasks, u # t PROVE Lockstep(u)'
    BY Zenon DEF CaseInLockstep
  <2>1. /\ Lockstep(u) /\ OrderVehicle[u] \in Vehicles
        /\ mission_status'[u] = mission_status[u] /\ order_status'[u] = order_status[u]
    BY Zenon DEF CaseInLockstep, CaseMove
  <2>2. CASE order_status[u] \in OpenOrder
    <3>1. OrderVehicle[u] # v
      BY <2>2, OpenCasesDisjoint, Zenon DEF CaseMove
    <3>2. /\ vehicle_status'[OrderVehicle[u]] = vehicle_status[OrderVehicle[u]]
          /\ vehicle_order'[OrderVehicle[u]] = vehicle_order[OrderVehicle[u]]
      BY <2>1, <3>1, Zenon DEF CaseMove
    <3> QED BY <2>1, <3>2, Zenon DEF Lockstep
  <2>3. CASE order_status[u] \notin OpenOrder
    BY <2>1, <2>3, Zenon DEF Lockstep, OpenOrder
  <2> QED BY <2>2, <2>3, Zenon
<1>4. mission_status[t] # "NONE"
  BY Zenon DEF CaseMove, CaseInLockstep, Lockstep, OpenOrder, ActiveRescue
<1>5. \A u \in Tasks : mission_status'[u] = "NONE" => mission_status[u] = "NONE"
  BY Zenon DEF CaseMove
<1>6. HeldInv'
  <2>1. ASSUME resets = 0, NEW u \in Tasks, target[u] # None, mission_status'[u] = "NONE"
        PROVE  vehicle_status'[target[u]] = "RESERVED"
    <3>1. vehicle_status[target[u]] = "RESERVED" /\ target[u] \in Vehicles
      <4>1. target \in [Tasks -> Vehicles \cup {None}]
        BY Zenon DEF TypeOK, RowTypeOK
      <4>2. vehicle_status[target[u]] = "RESERVED"
        BY <1>5, <2>1, Zenon DEF HeldInv
      <4> QED BY <2>1, <4>1, <4>2, Zenon
    <3>2. target[u] # v
      BY <1>1, <3>1, Zenon
    <3> QED BY <3>1, <3>2, Zenon DEF CaseMove
  <2> QED BY <1>2, <2>1, Zenon DEF HeldInv
<1>7. OneReservationPerVehicle'
  BY <1>2, <1>5, ZenonT(60) DEF OneReservationPerVehicle, TypeOK, RowTypeOK
<1>8. NoVehicleForgotten'
  <2> SUFFICES ASSUME resets = 0, NEW x \in Vehicles,
                      vehicle_status'[x] \in {"WAITING_RESCUE", "IN_RESCUE", "MAINTENANCE", "QA_PENDING"}
               PROVE  \/ \E u \in Tasks : OrderVehicle[u] = x /\ order_status'[u] \in OpenOrder
                      \/ vehicle_status'[x] = SeedStatus[x]
    BY <1>2, Zenon DEF NoVehicleForgotten
  <2>1. CASE x = v
    BY <2>1, Zenon
  <2>2. CASE x # v
    <3>1. vehicle_status'[x] = vehicle_status[x]
      BY <2>2, Zenon DEF CaseMove
    <3>2. \/ \E u \in Tasks \ {t} : OrderVehicle[u] = x /\ order_status[u] \in OpenOrder
          \/ vehicle_status'[x] = SeedStatus[x]
      BY <2>2, <3>1, Zenon DEF NoVehicleForgotten
    <3> QED BY <3>2, Zenon DEF CaseMove
  <2> QED BY <2>1, <2>2, Zenon
<1> QED BY <1>3, <1>6, <1>7, <1>8, Zenon

\* Orders that stay open keep their bays.
LEMMA BayKept ==
    ASSUME OperationsInv, NEW t \in Tasks, CaseMove(t), UNCHANGED bay_order, order_status'[t] \in OpenOrder
    PROVE  BayHeldByItsOrder'
<1>1. \A u \in Tasks : order_status'[u] \in OpenOrder <=> order_status[u] \in OpenOrder
  BY Zenon DEF CaseMove
<1>2. order_bay' = order_bay
  BY Zenon DEF CaseMove
<1>3. bay_order \in [Bays -> Tasks \cup {None}] /\ BayHeldByItsOrder
  BY Zenon DEF OperationsInv, TypeOK, RowTypeOK
<1>4. ASSUME NEW b \in Bays, bay_order[b] # None
      PROVE  order_status'[bay_order[b]] \in OpenOrder /\ order_bay[bay_order[b]] = b
  <2>1. bay_order[b] \in Tasks
    BY <1>3, <1>4, Zenon
  <2> QED BY <1>1, <1>3, <1>4, <2>1, Zenon DEF BayHeldByItsOrder
<1>5. \A u \in Tasks : order_status'[u] \in OpenOrder => order_bay[u] \in Bays /\ bay_order[order_bay[u]] = u
  BY <1>1, <1>3, Zenon DEF BayHeldByItsOrder
<1> QED BY <1>2, <1>4, <1>5, Zenon DEF BayHeldByItsOrder

\* _release_vehicle_and_bay frees the bay of the order that closes, and no other.
LEMMA BayReleased ==
    ASSUME OperationsInv, NEW t \in Tasks, CaseMove(t), order_status'[t] \notin OpenOrder,
           bay_order' = [bay_order EXCEPT ![order_bay[t]] = None]
    PROVE  BayHeldByItsOrder' /\ bay_order' \in [Bays -> Tasks \cup {None}]
<1> USE DEF OperationsInv
<1>1. order_bay[t] \in Bays /\ bay_order[order_bay[t]] = t /\ bay_order \in [Bays -> Tasks \cup {None}]
  BY Zenon DEF BayHeldByItsOrder, CaseMove, TypeOK, RowTypeOK
<1>2. order_bay' = order_bay /\ \A u \in Tasks \ {t} : order_status'[u] = order_status[u]
  BY Zenon DEF CaseMove
<1>3. ASSUME NEW c \in Bays, bay_order'[c] # None
      PROVE  order_status'[bay_order'[c]] \in OpenOrder /\ order_bay'[bay_order'[c]] = c
  <2>1. c # order_bay[t] /\ bay_order'[c] = bay_order[c]
    BY <1>1, <1>3, Zenon
  <2>2. bay_order[c] \in Tasks /\ order_status[bay_order[c]] \in OpenOrder /\ order_bay[bay_order[c]] = c
    BY <1>1, <1>3, <2>1 DEF BayHeldByItsOrder
  <2> QED BY <1>2, <2>1, <2>2, Zenon
<1>4. ASSUME NEW u \in Tasks, order_status'[u] \in OpenOrder
      PROVE  order_bay'[u] \in Bays /\ bay_order'[order_bay'[u]] = u
  <2>1. u # t /\ order_bay[u] \in Bays /\ bay_order[order_bay[u]] = u
    BY <1>2, <1>4, Zenon DEF BayHeldByItsOrder
  <2>2. order_bay[u] # order_bay[t]
    BY <1>1, <2>1, Zenon
  <2> QED BY <1>1, <1>2, <2>1, <2>2, Zenon
<1> QED BY <1>1, <1>3, <1>4, Zenon DEF BayHeldByItsOrder

\* _transition_vehicle moves one vehicle and its version.
LEMMA MoveVehicle ==
    ASSUME TypeOK, NEW v \in Vehicles, NEW s \in VehicleOperationalStatus, move_vehicle(v, s)
    PROVE  /\ vehicle_status' \in [Vehicles -> VehicleOperationalStatus]
           /\ vehicle_version' \in [Vehicles -> Nat]
           /\ vehicle_status'[v] = s
           /\ \A x \in Vehicles \ {v} : vehicle_status'[x] = vehicle_status[x]
           /\ VersionMoves
<1>1. /\ vehicle_status \in [Vehicles -> VehicleOperationalStatus] /\ vehicle_version \in [Vehicles -> Nat]
      /\ vehicle_status' = [vehicle_status EXCEPT ![v] = s]
      /\ vehicle_version' = [vehicle_version EXCEPT ![v] = @ + 1]
  BY Zenon DEF move_vehicle, TypeOK, RowTypeOK
<1> QED BY <1>1 DEF VersionMoves

\* A step that leaves the vehicle rows alone moves no version.
LEMMA SameVehicles ==
    ASSUME TypeOK, UNCHANGED vehicleVars
    PROVE  /\ vehicle_status' \in [Vehicles -> VehicleOperationalStatus]
           /\ vehicle_version' \in [Vehicles -> Nat]
           /\ vehicle_order' \in [Vehicles -> Tasks \cup {None}]
           /\ VersionMoves
BY DEF TypeOK, RowTypeOK, VersionMoves, vehicleVars

\* What is left of a step of one case once its own row facts are known.
LEMMA CaseMoveKeepsInv ==
    ASSUME OperationsInv, NEW t \in Tasks, CaseMove(t), RowTypeOK', VersionMoves, RescueUnitExclusive',
           BayHeldByItsOrder', Lockstep(t)', mission_status'[t] # "NONE",
           vehicle_status'[OrderVehicle[t]]
             \in {"WAITING_RESCUE", "IN_RESCUE", "MAINTENANCE", "QA_PENDING"}
             => order_status'[t] \in OpenOrder,
           NothingStranded!(t)', TimerInv!(t)'
    PROVE  OperationsInv'
<1>1. CaseInLockstep' /\ HeldInv' /\ OneReservationPerVehicle' /\ NoVehicleForgotten'
  BY OtherCasesKept, Zenon
<1>2. job' \in [Workers -> Job] /\ JobInv'
  <2>1. UNCHANGED job
    BY Zenon DEF CaseMove
  <2> QED BY <2>1, JobsStayUsable, Zenon DEF OperationsInv, RowTypeOK
<1>3. NothingStranded' /\ TimerInv'
  BY DEF OperationsInv, CaseMove, NothingStranded, TimerInv
<1> QED BY <1>1, <1>2, <1>3, Zenon DEF OperationsInv, TypeOK

\* advance_one_due_rescue, the unit reaches the vehicle.
LEMMA RescueArrivesStep ==
    ASSUME OperationsInv, NEW t \in Tasks, advance_one_due_rescue(t), rescue_arrives(t)
    PROVE  OperationsInv'
<1> USE DEF OperationsInv
<1>1. /\ mission_status[t] = "DISPATCHED" /\ mission_timer[t]
      /\ mission_status' = [mission_status EXCEPT ![t] = "ARRIVED"]
      /\ UNCHANGED <<vehicleVars, unit_status, mission_timer, orderVars>>
      /\ UNCHANGED <<dispatchVars, mission_no, routed, job, resets>>
  BY Zenon DEF advance_one_due_rescue, rescue_arrives
<1>2. Lockstep(t) /\ order_status[t] = "SCHEDULED"
  BY <1>1, Zenon DEF CaseInLockstep, Lockstep
<1>3. /\ mission_status' \in [Tasks -> RescueStatus \cup {"NONE"}] /\ mission_status'[t] = "ARRIVED"
      /\ \A u \in Tasks \ {t} : mission_status'[u] = mission_status[u]
  BY <1>1, Zenon DEF TypeOK, RowTypeOK, RescueStatus
<1>4. CaseMove(t)
  BY <1>1, <1>2, <1>3, Zenon DEF CaseMove, vehicleVars, orderVars, OpenOrder
<1>5. outbox' \in [Tasks -> Seq(Events)]
  <2>1. <<"RESCUE_ARRIVED">> \in Seq(Events)
    BY DEF Events
  <2> QED BY <2>1, EmitTyped, Zenon DEF rescue_arrives, TypeOK, RowTypeOK
<1>6. RowTypeOK'
  BY <1>1, <1>3, <1>5, Zenon DEF TypeOK, RowTypeOK, vehicleVars, orderVars, dispatchVars
<1>7. VersionMoves
  BY <1>1, SameVehicles, Zenon
<1>8. RescueUnitExclusive'
  BY <1>1, <1>3 DEF RescueUnitExclusive, ActiveRescue
<1>9. BayHeldByItsOrder'
  BY <1>1, <1>2, <1>4, BayKept, Zenon DEF orderVars, OpenOrder
<1>10. Lockstep(t)'
  BY <1>1, <1>2, <1>3, Zenon DEF Lockstep, vehicleVars, orderVars, ActiveRescue, ActiveMaintenance
<1>11. NothingStranded!(t)' /\ TimerInv!(t)'
  BY <1>1, <1>2, <1>3, Zenon DEF orderVars, NothingStranded, TimerInv, ActiveRescue, ActiveMaintenance
<1> QED
  BY <1>1, <1>2, <1>3, <1>4, <1>6, <1>7, <1>8, <1>9, <1>10, <1>11, CaseMoveKeepsInv, Zenon DEF orderVars, OpenOrder

\* advance_one_due_rescue, the vehicle is loaded.
LEMMA VehicleLoadedStep ==
    ASSUME OperationsInv, NEW t \in Tasks, advance_one_due_rescue(t), vehicle_loaded(t)
    PROVE  OperationsInv'
<1> USE DEF OperationsInv
<1>1. /\ mission_status[t] = "ARRIVED" /\ mission_timer[t]
      /\ mission_status' = [mission_status EXCEPT ![t] = "LOADED"]
      /\ UNCHANGED <<vehicle_order, unit_status, mission_timer, orderVars>>
      /\ UNCHANGED <<dispatchVars, mission_no, routed, job, resets>>
  BY Zenon DEF advance_one_due_rescue, vehicle_loaded
<1>2. Lockstep(t) /\ order_status[t] = "SCHEDULED"
  BY <1>1, Zenon DEF CaseInLockstep, Lockstep
<1>3. /\ mission_status' \in [Tasks -> RescueStatus \cup {"NONE"}] /\ mission_status'[t] = "LOADED"
      /\ \A u \in Tasks \ {t} : mission_status'[u] = mission_status[u]
  BY <1>1, Zenon DEF TypeOK, RowTypeOK, RescueStatus
<1>0. /\ vehicle_status' \in [Vehicles -> VehicleOperationalStatus]
      /\ vehicle_version' \in [Vehicles -> Nat]
      /\ vehicle_status'[OrderVehicle[t]] = "IN_RESCUE"
      /\ \A x \in Vehicles \ {OrderVehicle[t]} : vehicle_status'[x] = vehicle_status[x]
      /\ VersionMoves
  <2>1. "IN_RESCUE" \in VehicleOperationalStatus /\ OrderVehicle[t] \in Vehicles
    BY Zenon DEF VehicleOperationalStatus
  <2> QED BY <2>1, MoveVehicle, Zenon DEF vehicle_loaded
<1>4. CaseMove(t)
  BY <1>0, <1>1, <1>2, <1>3, Zenon DEF CaseMove, orderVars, OpenOrder
<1>5. outbox' \in [Tasks -> Seq(Events)]
  <2>1. <<"VEHICLE_LOADED">> \in Seq(Events)
    BY DEF Events
  <2> QED BY <2>1, EmitTyped, Zenon DEF vehicle_loaded, TypeOK, RowTypeOK
<1>6. RowTypeOK'
  BY <1>0, <1>1, <1>3, <1>5, Zenon DEF TypeOK, RowTypeOK, orderVars, dispatchVars
<1>8. RescueUnitExclusive'
  BY <1>1, <1>3 DEF RescueUnitExclusive, ActiveRescue
<1>9. BayHeldByItsOrder'
  BY <1>1, <1>2, <1>4, BayKept, Zenon DEF orderVars, OpenOrder
<1>10. Lockstep(t)'
  BY <1>0, <1>1, <1>2, <1>3, Zenon DEF Lockstep, orderVars, ActiveRescue, ActiveMaintenance
<1>11. NothingStranded!(t)' /\ TimerInv!(t)'
  BY <1>1, <1>2, <1>3, Zenon DEF orderVars, NothingStranded, TimerInv, ActiveRescue, ActiveMaintenance
<1> QED
  BY <1>0, <1>1, <1>2, <1>3, <1>4, <1>6, <1>8, <1>9, <1>10, <1>11, CaseMoveKeepsInv, Zenon DEF orderVars, OpenOrder

\* advance_one_due_rescue, the vehicle is delivered and the unit is free again.
LEMMA TowDeliveredStep ==
    ASSUME OperationsInv, NEW t \in Tasks, advance_one_due_rescue(t), tow_delivered(t)
    PROVE  OperationsInv'
<1> USE DEF OperationsInv
<1>1. /\ mission_status[t] = "LOADED" /\ order_status[t] = "SCHEDULED"
      /\ mission_status' = [mission_status EXCEPT ![t] = "DELIVERED"]
      /\ mission_timer' = [mission_timer EXCEPT ![t] = FALSE]
      /\ order_status' = [order_status EXCEPT ![t] = "WAITING_BAY"]
      /\ order_timer' = [order_timer EXCEPT ![t] = TRUE]
      /\ unit_status' = "AVAILABLE"
      /\ UNCHANGED <<vehicle_order, order_manual, order_result, order_bay, bay_order>>
      /\ UNCHANGED <<dispatchVars, mission_no, routed, job, resets>>
  BY Zenon DEF advance_one_due_rescue, tow_delivered, order_waits_for_bay, release_unit
<1>2. Lockstep(t)
  BY Zenon DEF CaseInLockstep
<1>3. /\ mission_status' \in [Tasks -> RescueStatus \cup {"NONE"}] /\ mission_status'[t] = "DELIVERED"
      /\ mission_timer' \in [Tasks -> BOOLEAN] /\ ~mission_timer'[t]
      /\ order_status' \in [Tasks -> MaintenanceStatus \cup {"NONE"}] /\ order_status'[t] = "WAITING_BAY"
      /\ order_timer' \in [Tasks -> BOOLEAN] /\ order_timer'[t]
  BY <1>1, Zenon DEF TypeOK, RowTypeOK, RescueStatus, MaintenanceStatus
<1>0. /\ vehicle_status' \in [Vehicles -> VehicleOperationalStatus]
      /\ vehicle_version' \in [Vehicles -> Nat]
      /\ vehicle_status'[OrderVehicle[t]] = "MAINTENANCE"
      /\ \A x \in Vehicles \ {OrderVehicle[t]} : vehicle_status'[x] = vehicle_status[x]
      /\ VersionMoves
  <2>1. "MAINTENANCE" \in VehicleOperationalStatus /\ OrderVehicle[t] \in Vehicles
    BY Zenon DEF VehicleOperationalStatus
  <2> QED BY <2>1, MoveVehicle, Zenon DEF tow_delivered
<1>4. CaseMove(t)
  BY <1>0, <1>1, Zenon DEF CaseMove, OpenOrder, TypeOK, RowTypeOK
<1>5. outbox' \in [Tasks -> Seq(Events)]
  <2>1. <<"TOW_DELIVERED">> \in Seq(Events)
    BY DEF Events
  <2> QED BY <2>1, EmitTyped, Zenon DEF tow_delivered, TypeOK, RowTypeOK
<1>6. RowTypeOK'
  BY <1>0, <1>1, <1>3, <1>5, Zenon DEF TypeOK, RowTypeOK, dispatchVars
<1>8. RescueUnitExclusive'
  BY <1>1, <1>3, <1>4, ZenonT(60) DEF RescueUnitExclusive, ActiveRescue, CaseMove
<1>9. BayHeldByItsOrder'
  BY <1>1, <1>3, <1>4, BayKept, Zenon DEF OpenOrder, ActiveMaintenance
<1>10. Lockstep(t)'
  BY <1>0, <1>1, <1>2, <1>3, Zenon DEF Lockstep, ActiveRescue, ActiveMaintenance, OpenOrder
<1>11. NothingStranded!(t)' /\ TimerInv!(t)'
  BY <1>3, Zenon DEF ActiveRescue, ActiveMaintenance
<1> QED
  BY <1>0, <1>3, <1>4, <1>6, <1>8, <1>9, <1>10, <1>11, CaseMoveKeepsInv, Zenon DEF OpenOrder, ActiveMaintenance

--------------------------------------------------------------------------------
\* Maintenance, the demo reset, and the theorems.

\* Maintenance steps leave the missions alone.
LEMMA MissionsKept ==
    ASSUME OperationsInv, UNCHANGED missionVars
    PROVE  RescueUnitExclusive'
BY Zenon DEF OperationsInv, RescueUnitExclusive, missionVars

\* advance_one_due_maintenance stops the timer of an order that needs an
\* inspector.
LEMMA AwaitInspectionStep ==
    ASSUME OperationsInv, NEW t \in Tasks, advance_one_due_maintenance(t), await_inspection(t)
    PROVE  OperationsInv'
<1> USE DEF OperationsInv
<1>1. /\ order_status[t] = "QA_PENDING" /\ order_manual[t]
      /\ order_timer' = [order_timer EXCEPT ![t] = FALSE]
      /\ UNCHANGED <<vehicleVars, order_status, order_result, bay_order, outbox>>
      /\ UNCHANGED <<dispatchVars, missionVars, order_manual, order_bay, routed, job, resets>>
  BY Zenon DEF advance_one_due_maintenance, await_inspection, needs_person
<1>2. Lockstep(t) /\ TimerInv!(t)
  BY Zenon DEF CaseInLockstep, TimerInv
<1>3. order_timer' \in [Tasks -> BOOLEAN] /\ ~order_timer'[t]
  BY <1>1, Zenon DEF TypeOK, RowTypeOK
<1>4. CaseMove(t)
  BY <1>1, Zenon DEF CaseMove, vehicleVars, missionVars, OpenOrder, ActiveMaintenance, TypeOK, RowTypeOK
<1>5. RowTypeOK'
  BY <1>1, <1>3, ZenonT(60) DEF TypeOK, RowTypeOK, vehicleVars, missionVars, dispatchVars
<1>6. VersionMoves
  BY <1>1, SameVehicles, ZenonT(60)
<1>7. BayHeldByItsOrder'
  BY <1>1, <1>4, BayKept, Zenon DEF OpenOrder, ActiveMaintenance
<1>8. Lockstep(t)'
  BY <1>1, <1>2, Zenon DEF Lockstep, vehicleVars, missionVars
<1>9. NothingStranded!(t)' /\ TimerInv!(t)'
  BY <1>1, <1>2, <1>3, Zenon DEF missionVars, NothingStranded, ActiveMaintenance
<1>10. mission_status'[t] # "NONE"
  BY <1>1, <1>2, Zenon DEF Lockstep, missionVars, ActiveMaintenance
<1> QED
  BY <1>1, <1>4, <1>5, <1>6, <1>7, <1>8, <1>9, <1>10, MissionsKept, CaseMoveKeepsInv, Zenon
  DEF OpenOrder, ActiveMaintenance

\* advance_one_due_maintenance, the stages before quality control.
LEMMA StartRepairStageStep ==
    ASSUME OperationsInv, NEW t \in Tasks, advance_one_due_maintenance(t), start_repair_stage(t)
    PROVE  OperationsInv'
<1> USE DEF OperationsInv
<1>1. PICK s \in {"DIAGNOSING", "REPAIRING"} :
        /\ order_status[t] \in {"WAITING_BAY", "DIAGNOSING"} /\ order_timer[t]
        /\ order_status' = [order_status EXCEPT ![t] = s]
        /\ emit(t, <<"MAINTENANCE_DIAGNOSING">>) \/ emit(t, <<"MAINTENANCE_REPAIRING">>)
        /\ UNCHANGED <<vehicleVars, order_timer, order_result, bay_order>>
        /\ UNCHANGED <<dispatchVars, missionVars, order_manual, order_bay, routed, job, resets>>
  BY Zenon DEF advance_one_due_maintenance, start_repair_stage
<1>2. Lockstep(t) /\ TimerInv!(t)
  BY Zenon DEF CaseInLockstep, TimerInv
<1>3. order_status' \in [Tasks -> MaintenanceStatus \cup {"NONE"}] /\ order_status'[t] = s
  BY <1>1, Zenon DEF TypeOK, RowTypeOK, MaintenanceStatus
<1>4. CaseMove(t)
  BY <1>1, Zenon DEF CaseMove, vehicleVars, missionVars, OpenOrder, ActiveMaintenance, TypeOK, RowTypeOK
<1>5. outbox' \in [Tasks -> Seq(Events)]
  <2>1. <<"MAINTENANCE_DIAGNOSING">> \in Seq(Events)
    BY DEF Events
  <2>2. <<"MAINTENANCE_REPAIRING">> \in Seq(Events)
    BY DEF Events
  <2> QED BY <1>1, <2>1, <2>2, EmitTyped, Zenon DEF TypeOK, RowTypeOK
<1>6. RowTypeOK'
  BY <1>1, <1>3, <1>5, ZenonT(60) DEF TypeOK, RowTypeOK, vehicleVars, missionVars, dispatchVars
<1>7. VersionMoves
  BY <1>1, SameVehicles, ZenonT(60)
<1>8. BayHeldByItsOrder'
  BY <1>1, <1>3, <1>4, BayKept, Zenon DEF OpenOrder, ActiveMaintenance
<1>9. Lockstep(t)'
  BY <1>1, <1>2, <1>3, Zenon DEF Lockstep, vehicleVars, missionVars, ActiveRescue, ActiveMaintenance, OpenOrder
<1>10. NothingStranded!(t)' /\ TimerInv!(t)'
  BY <1>1, <1>2, <1>3, Zenon DEF missionVars, NothingStranded, ActiveMaintenance
<1>11. mission_status'[t] # "NONE"
  BY <1>1, <1>2, Zenon DEF Lockstep, missionVars, ActiveMaintenance
<1> QED
  BY <1>1, <1>3, <1>4, <1>6, <1>7, <1>8, <1>9, <1>10, <1>11, MissionsKept, CaseMoveKeepsInv, Zenon
  DEF OpenOrder, ActiveMaintenance

\* advance_one_due_maintenance, quality control begins.
LEMMA StartQAStep ==
    ASSUME OperationsInv, NEW t \in Tasks, advance_one_due_maintenance(t), start_qa(t)
    PROVE  OperationsInv'
<1> USE DEF OperationsInv
<1>1. /\ order_status[t] = "REPAIRING" /\ order_timer[t]
      /\ order_status' = [order_status EXCEPT ![t] = "QA_PENDING"]
      /\ UNCHANGED <<vehicle_order, order_timer, order_result, bay_order>>
      /\ UNCHANGED <<dispatchVars, missionVars, order_manual, order_bay, routed, job, resets>>
  BY Zenon DEF advance_one_due_maintenance, start_qa
<1>2. Lockstep(t) /\ TimerInv!(t)
  BY Zenon DEF CaseInLockstep, TimerInv
<1>3. order_status' \in [Tasks -> MaintenanceStatus \cup {"NONE"}] /\ order_status'[t] = "QA_PENDING"
  BY <1>1, Zenon DEF TypeOK, RowTypeOK, MaintenanceStatus
<1>0. /\ vehicle_status' \in [Vehicles -> VehicleOperationalStatus]
      /\ vehicle_version' \in [Vehicles -> Nat]
      /\ vehicle_status'[OrderVehicle[t]] = "QA_PENDING"
      /\ \A x \in Vehicles \ {OrderVehicle[t]} : vehicle_status'[x] = vehicle_status[x]
      /\ VersionMoves
  <2>1. "QA_PENDING" \in VehicleOperationalStatus /\ OrderVehicle[t] \in Vehicles
    BY Zenon DEF VehicleOperationalStatus
  <2> QED BY <2>1, MoveVehicle, Zenon DEF start_qa
<1>4. CaseMove(t)
  BY <1>0, <1>1, Zenon DEF CaseMove, missionVars, OpenOrder, ActiveMaintenance, TypeOK, RowTypeOK
<1>5. outbox' \in [Tasks -> Seq(Events)]
  <2>1. <<"MAINTENANCE_QA_PENDING">> \in Seq(Events)
    BY DEF Events
  <2> QED BY <2>1, EmitTyped, Zenon DEF start_qa, TypeOK, RowTypeOK
<1>6. RowTypeOK'
  BY <1>0, <1>1, <1>3, <1>5, Zenon DEF TypeOK, RowTypeOK, missionVars, dispatchVars
<1>8. BayHeldByItsOrder'
  BY <1>1, <1>3, <1>4, BayKept, Zenon DEF OpenOrder, ActiveMaintenance
<1>9. Lockstep(t)'
  BY <1>0, <1>1, <1>2, <1>3, Zenon DEF Lockstep, missionVars, ActiveRescue, ActiveMaintenance, OpenOrder
<1>10. NothingStranded!(t)' /\ TimerInv!(t)'
  BY <1>1, <1>2, <1>3, Zenon DEF missionVars, NothingStranded, ActiveMaintenance
<1>11. mission_status'[t] # "NONE"
  BY <1>1, <1>2, Zenon DEF Lockstep, missionVars, ActiveMaintenance
<1> QED
  BY <1>0, <1>1, <1>3, <1>4, <1>6, <1>8, <1>9, <1>10, <1>11, MissionsKept, CaseMoveKeepsInv, Zenon
  DEF OpenOrder, ActiveMaintenance

\* An order ends the same way whether the progressor or an inspector ends it.
LEMMA OrderClosedStep ==
    ASSUME OperationsInv, NEW t \in Tasks, NEW passed \in BOOLEAN, NEW e \in Seq(Events),
           order_status[t] = "QA_PENDING",
           order_status' = [order_status EXCEPT ![t] = IF passed THEN "COMPLETED" ELSE "FAILED"],
           order_result' = [order_result EXCEPT ![t] = IF passed THEN "PASSED" ELSE "FAILED"],
           order_timer' = [order_timer EXCEPT ![t] = FALSE],
           release_vehicle_and_bay(t, passed), emit(t, e),
           UNCHANGED <<dispatchVars, missionVars, order_manual, order_bay, routed, job, resets>>
    PROVE  OperationsInv'
<1> USE DEF OperationsInv
<1> DEFINE v == OrderVehicle[t]
           s == IF passed THEN "AVAILABLE" ELSE "OUT_OF_SERVICE"
<1>1. /\ order_status' \in [Tasks -> MaintenanceStatus \cup {"NONE"}]
      /\ order_status'[t] \in {"COMPLETED", "FAILED"}
      /\ order_result' \in [Tasks -> {"NONE", "PASSED", "FAILED"}]
      /\ order_timer' \in [Tasks -> BOOLEAN] /\ ~order_timer'[t]
  BY Zenon DEF TypeOK, RowTypeOK, MaintenanceStatus
<1>2. Lockstep(t) /\ TimerInv!(t)
  BY Zenon DEF CaseInLockstep, TimerInv
<1>3. v \in Vehicles /\ s \in VehicleOperationalStatus /\ move_vehicle(v, s)
  BY Zenon DEF VehicleOperationalStatus, release_vehicle_and_bay
<1>4. /\ vehicle_status' \in [Vehicles -> VehicleOperationalStatus]
      /\ vehicle_version' \in [Vehicles -> Nat]
      /\ vehicle_status'[v] = s
      /\ \A x \in Vehicles \ {v} : vehicle_status'[x] = vehicle_status[x]
      /\ VersionMoves
  BY <1>3, MoveVehicle, Zenon
<1>5. /\ vehicle_order' \in [Vehicles -> Tasks \cup {None}]
      /\ \A x \in Vehicles \ {v} : vehicle_order'[x] = vehicle_order[x]
  BY Zenon DEF release_vehicle_and_bay, TypeOK, RowTypeOK
<1>6. CaseMove(t)
  BY <1>4, <1>5, Zenon DEF CaseMove, missionVars, OpenOrder, ActiveMaintenance, TypeOK, RowTypeOK
<1>7. BayHeldByItsOrder' /\ bay_order' \in [Bays -> Tasks \cup {None}]
  BY <1>1, <1>6, BayReleased, Zenon DEF OpenOrder, ActiveMaintenance, release_vehicle_and_bay
<1>8. outbox' \in [Tasks -> Seq(Events)]
  BY EmitTyped, Zenon DEF TypeOK, RowTypeOK
<1>9. RowTypeOK'
  BY <1>1, <1>4, <1>5, <1>7, <1>8, Zenon DEF TypeOK, RowTypeOK, missionVars, dispatchVars
<1>10. mission_status'[t] = "DELIVERED" /\ mission_timer'[t] = mission_timer[t]
  BY <1>2, Zenon DEF Lockstep, missionVars, ActiveMaintenance
<1>11. Lockstep(t)'
  BY <1>1, <1>10, Zenon DEF Lockstep, ActiveRescue, ActiveMaintenance, OpenOrder
<1>12. NothingStranded!(t)' /\ TimerInv!(t)'
  BY <1>1, <1>2, <1>10, Zenon DEF missionVars, ActiveRescue, ActiveMaintenance
<1> QED
  BY <1>4, <1>6, <1>7, <1>9, <1>10, <1>11, <1>12, MissionsKept, CaseMoveKeepsInv, Zenon

\* advance_one_due_maintenance closes an order.
LEMMA CompleteOrderStep ==
    ASSUME OperationsInv, NEW t \in Tasks, advance_one_due_maintenance(t), complete_order(t)
    PROVE  OperationsInv'
<1>1. <<"MAINTENANCE_COMPLETED", "VEHICLE_AVAILABLE">> \in Seq(Events)
  BY DEF Events
<1>2. /\ order_status[t] = "QA_PENDING"
      /\ order_status' = [order_status EXCEPT ![t] = IF TRUE THEN "COMPLETED" ELSE "FAILED"]
      /\ order_timer' = [order_timer EXCEPT ![t] = FALSE]
      /\ order_result' = [order_result EXCEPT ![t] = IF TRUE THEN "PASSED" ELSE "FAILED"]
      /\ release_vehicle_and_bay(t, TRUE)
      /\ emit(t, <<"MAINTENANCE_COMPLETED", "VEHICLE_AVAILABLE">>)
      /\ UNCHANGED <<dispatchVars, missionVars, order_manual, order_bay, routed, job, resets>>
  BY Zenon DEF advance_one_due_maintenance, complete_order
<1> QED BY <1>1, <1>2, OrderClosedStep, Zenon

\* record_inspection closes an order.
LEMMA RecordInspectionStep ==
    ASSUME OperationsInv, NEW t \in Tasks, NEW passed \in BOOLEAN, record_inspection(t, passed)
    PROVE  OperationsInv'
<1>1. <<IF passed THEN "VEHICLE_AVAILABLE" ELSE "VEHICLE_OUT_OF_SERVICE", "INSPECTION_DECIDED">>
        \in Seq(Events)
  BY DEF Events
<1> QED BY <1>1, OrderClosedStep, ZenonT(60) DEF record_inspection

--------------------------------------------------------------------------------
(* The demonstration reset                                                 *)

\* The demonstration reset keeps the invariant: what it cancels holds nothing any
\* more.
LEMMA ResetStep ==
    ASSUME OperationsInv, reset_vehicle_breakdown
    PROVE  OperationsInv'
<1> USE DEF OperationsInv
<1>1. /\ resets' \in Nat /\ resets' # 0
      /\ UNCHANGED <<dispatchVars, mission_no, order_manual, order_result, order_bay, outbox, routed, job>>
      /\ unit_status' = "AVAILABLE" /\ bay_order' = [b \in Bays |-> None]
  BY DEF reset_vehicle_breakdown, free_units, free_all_bays, TypeOK, RowTypeOK
<1>2. /\ mission_status' \in [Tasks -> RescueStatus \cup {"NONE"}]
      /\ mission_timer' \in [Tasks -> BOOLEAN]
      /\ \A t \in Tasks : /\ mission_status'[t] \notin ActiveRescue
                          /\ ~mission_timer'[t]
  BY ZenonT(60) DEF reset_vehicle_breakdown, cancel_missions, TypeOK, RowTypeOK, TimerInv, RescueStatus, ActiveRescue
<1>3. /\ order_status' \in [Tasks -> MaintenanceStatus \cup {"NONE"}]
      /\ order_timer' \in [Tasks -> BOOLEAN]
      /\ \A t \in Tasks : /\ order_status'[t] \notin OpenOrder
                          /\ ~order_timer'[t]
  BY Zenon DEF reset_vehicle_breakdown, cancel_orders, TypeOK, RowTypeOK, TimerInv, MaintenanceStatus,
         OpenOrder, ActiveMaintenance
<1>4. PICK touched \in SUBSET DOMAIN DemoStatus :
        /\ \A v \in DOMAIN DemoStatus :
             vehicle_status[v] # DemoStatus[v] \/ vehicle_order[v] # None => v \in touched
        /\ vehicle_version' = [v \in Vehicles |-> IF v \in touched THEN vehicle_version[v] + 1
                                                 ELSE vehicle_version[v]]
  BY ZenonT(60) DEF reset_vehicle_breakdown
<1>5. /\ vehicle_status' = [v \in Vehicles |-> IF v \in DOMAIN DemoStatus THEN DemoStatus[v]
                                               ELSE vehicle_status[v]]
      /\ vehicle_order' \in [Vehicles -> Tasks \cup {None}]
  BY Zenon DEF reset_vehicle_breakdown, TypeOK, RowTypeOK
<1>6. vehicle_version' \in [Vehicles -> Nat] /\ VersionMoves
  BY <1>4, <1>5 DEF VersionMoves, TypeOK, RowTypeOK
<1>7. vehicle_status' \in [Vehicles -> VehicleOperationalStatus]
  BY <1>5, Zenon DEF TypeOK, RowTypeOK, VehicleOperationalStatus
<1>8. RowTypeOK'
  BY <1>1, <1>2, <1>3, <1>5, <1>6, <1>7, Zenon DEF TypeOK, RowTypeOK, dispatchVars
<1>9. job' \in [Workers -> Job] /\ JobInv'
  BY <1>1, <1>6, JobsStayUsable, Zenon
<1>10. RescueUnitExclusive' /\ BayHeldByItsOrder'
  BY <1>1, <1>2, <1>3, Zenon DEF RescueUnitExclusive, BayHeldByItsOrder
<1>11. CaseInLockstep' /\ NothingStranded' /\ TimerInv'
  BY <1>2, <1>3 DEF CaseInLockstep, Lockstep, NothingStranded, TimerInv, ActiveRescue, OpenOrder,
                    ActiveMaintenance
<1>12. OneReservationPerVehicle' /\ NoVehicleForgotten' /\ HeldInv'
  BY <1>1, Zenon DEF OneReservationPerVehicle, NoVehicleForgotten, HeldInv, dispatchVars
<1> QED BY <1>8, <1>9, <1>10, <1>11, <1>12, Zenon DEF TypeOK

--------------------------------------------------------------------------------
(* Every step keeps rows and jobs consistent                               *)

\* The seeded rows satisfy the invariant.
LEMMA InitInv ==
    ASSUME Init
    PROVE  OperationsInv
<1>1. IdleJob \in Job
  BY DEF IdleJob, Job
<1>2. job \in [Workers -> Job] /\ JobInv
  BY <1>1, Zenon DEF Init, JobInv, IdleJob
<1>3. outbox \in [Tasks -> Seq(Events)]
  BY SequenceFacts, Zenon DEF Init
<1>4. vehicle_status \in [Vehicles -> VehicleOperationalStatus]
  BY Zenon DEF Init, VehicleOperationalStatus
<1>5. RowTypeOK
  BY <1>3, <1>4, Zenon DEF Init, RowTypeOK
<1>6. RescueUnitExclusive /\ BayHeldByItsOrder /\ NothingStranded /\ TimerInv
  BY Zenon DEF Init, RescueUnitExclusive, BayHeldByItsOrder, NothingStranded, TimerInv, ActiveRescue,
         OpenOrder, ActiveMaintenance
<1>7. CaseInLockstep
  BY Zenon DEF Init, CaseInLockstep, Lockstep, ActiveRescue, OpenOrder, ActiveMaintenance
<1>8. OneReservationPerVehicle /\ NoVehicleForgotten /\ HeldInv
  BY Zenon DEF Init, OneReservationPerVehicle, NoVehicleForgotten, HeldInv
<1> QED BY <1>2, <1>5, <1>6, <1>7, <1>8, Zenon DEF OperationsInv, TypeOK

\* Every step keeps the invariant.
LEMMA NextInv ==
    ASSUME OperationsInv, [Next]_vars
    PROVE  OperationsInv'
<1>1. ASSUME NEW w \in Workers, NEW t \in Tasks, start_dispatch(w, t) PROVE OperationsInv'
  BY <1>1, StartDispatchStep, JobOnlyStep, Zenon DEF OperationsInv
<1>2. ASSUME NEW w \in Workers, NEW t \in Tasks, orchestrate(w, t) PROVE OperationsInv'
  BY <1>2, OrchestrateStep, Zenon
<1>3. ASSUME NEW w \in Workers, execute_read(w) PROVE OperationsInv'
  BY <1>3, ExecuteReadStep, JobOnlyStep, Zenon DEF OperationsInv
<1>4. ASSUME NEW w \in Workers, execute_commit(w) PROVE OperationsInv'
  BY <1>4, ExecuteCommitStep, Zenon
<1>5. ASSUME NEW w \in Workers, create_breakdown_case(w) PROVE OperationsInv'
  BY <1>5, CreateCaseStep, Zenon
<1>6. ASSUME NEW w \in Workers, crash(w) PROVE OperationsInv'
  <2>1. UNCHANGED fleetVars /\ job' = [job EXCEPT ![w] = IdleJob]
    BY <1>6, Zenon DEF crash, fleetVars
  <2>2. VersionMoves /\ vehicle_version' \in [Vehicles -> Nat]
    BY <2>1, VersionsUntouched, Zenon DEF OperationsInv
  <2> QED BY <2>1, <2>2, JobsStayUsable, JobOnlyStep, Zenon DEF OperationsInv
<1>7. ASSUME NEW t \in Tasks, advance_one_due_rescue(t) PROVE OperationsInv'
  BY <1>7, RescueArrivesStep, VehicleLoadedStep, TowDeliveredStep, Zenon DEF advance_one_due_rescue
<1>8. ASSUME NEW t \in Tasks, advance_one_due_maintenance(t) PROVE OperationsInv'
  BY <1>8, AwaitInspectionStep, StartRepairStageStep, StartQAStep, CompleteOrderStep, Zenon
  DEF advance_one_due_maintenance
<1>9. ASSUME NEW t \in Tasks, NEW passed \in BOOLEAN, record_inspection(t, passed) PROVE OperationsInv'
  BY <1>9, RecordInspectionStep, Zenon
<1>10. CASE reset_vehicle_breakdown
  BY <1>10, ResetStep, Zenon
<1>11. CASE \/ UNCHANGED <<vehicleVars, dispatchVars, missionVars, orderVars, outbox, routed, job, resets>>
            \/ UNCHANGED vars
  <2>1. UNCHANGED fleetVars /\ UNCHANGED job
    BY <1>11, Zenon DEF vars, fleetVars
  <2>2. VersionMoves /\ vehicle_version' \in [Vehicles -> Nat]
    BY <2>1, VersionsUntouched, Zenon DEF OperationsInv
  <2> QED BY <2>1, <2>2, JobsStayUsable, JobOnlyStep, Zenon DEF OperationsInv
<1> QED BY <1>1, <1>2, <1>3, <1>4, <1>5, <1>6, <1>7, <1>8, <1>9, <1>10, <1>11, Zenon DEF Next

--------------------------------------------------------------------------------
(* The history a case leaves in its outbox                                 *)

\* What HistoryInv says of one case.
CaseHistory(t) ==
    /\ \A i, j \in DOMAIN outbox[t] : outbox[t][i] = outbox[t][j] => i = j
    /\ \A i \in DOMAIN outbox[t] : Past(t, outbox[t][i])
    /\ order_manual[t] /\ order_status[t] = "COMPLETED" =>
         \E i \in DOMAIN outbox[t] : outbox[t][i] = "INSPECTION_DECIDED"
    /\ mission_status[t] = "NONE" => order_status[t] = "NONE" /\ order_result[t] = "NONE"
    /\ order_status[t] \in OpenOrder => order_result[t] = "NONE"

historyVars == <<outbox, mission_status, order_status, order_result, order_manual>>

\* A step that leaves the outbox and the state of the cases alone keeps their history.
LEMMA HistoryUntouched ==
    ASSUME HistoryInv, UNCHANGED historyVars
    PROVE  HistoryInv'
<1>1. UNCHANGED <<outbox, mission_status, order_status, order_result, order_manual>>
  BY Zenon DEF historyVars
<1>2. EventsRecordedOnce' /\ ManualOrderDecidedByPerson'
  <2>1. EventsRecordedOnce'
    BY <1>1, ZenonT(60) DEF HistoryInv, EventsRecordedOnce
  <2>2. ManualOrderDecidedByPerson'
    <3>1. ManualOrderDecidedByPerson
      BY Zenon DEF HistoryInv
    <3> QED BY <1>1, <3>1, ZenonT(60) DEF ManualOrderDecidedByPerson
  <2> QED BY <2>1, <2>2, Zenon
<1>3. ASSUME NEW t \in Tasks, NEW e PROVE Past(t, e)' <=> Past(t, e)
  BY <1>1, Zenon DEF Past
<1> QED BY <1>1, <1>2, <1>3, Zenon DEF HistoryInv

\* A step that records new events in the outbox of a case, as the case passes them.
LEMMA CaseRecords ==
    ASSUME outbox \in [Tasks -> Seq(Events)], NEW t \in Tasks, CaseHistory(t),
           NEW e \in Seq(Events), emit(t, e),
           \A i, j \in DOMAIN e : e[i] = e[j] => i = j,
           \A i \in DOMAIN e : ~Past(t, e[i]) /\ Past(t, e[i])',
           \A x \in Events : Past(t, x) => Past(t, x)',
           mission_status'[t] # "NONE",
           order_status'[t] \in OpenOrder => order_result'[t] = "NONE",
           order_manual'[t] /\ order_status'[t] = "COMPLETED" => \E i \in DOMAIN e : e[i] = "INSPECTION_DECIDED"
    PROVE  CaseHistory(t)'
<1>0. PICK s : s \in Seq(Events) /\ s = outbox[t]
  BY Zenon
<1>1. PICK n : n = s \o e /\ Joins(s, e, n)
  BY <1>0, ConcatEntries, Zenon
<1>3. outbox'[t] = n
  BY <1>0, <1>1, Zenon DEF emit
<1>2. \A i \in DOMAIN s : s[i] \in Events /\ Past(t, s[i])
  <2>1. \A i \in DOMAIN s : s[i] \in Events
    BY <1>0, SequenceFacts, Zenon
  <2>2. \A i \in DOMAIN s : Past(t, s[i])
    BY <1>0, Zenon DEF CaseHistory
  <2> QED BY <2>1, <2>2, Zenon
<1>4. \A i, j \in DOMAIN s : s[i] = s[j] => i = j
  BY <1>0, Zenon DEF CaseHistory
<1>5. \A i, j \in DOMAIN n : n[i] = n[j] => i = j
  <2> SUFFICES ASSUME NEW i \in DOMAIN n, NEW j \in DOMAIN n, n[i] = n[j] PROVE i = j
    BY Zenon
  <2>1. ~(i \in DOMAIN s /\ n[i] = s[i] /\ j - Len(s) \in DOMAIN e /\ n[j] = e[j - Len(s)])
    BY <1>2, Zenon
  <2>2. ~(j \in DOMAIN s /\ n[j] = s[j] /\ i - Len(s) \in DOMAIN e /\ n[i] = e[i - Len(s)])
    BY <1>2, Zenon
  <2>3. (i \in DOMAIN s /\ j \in DOMAIN s /\ s[i] = s[j])
          \/ (i - Len(s) \in DOMAIN e /\ j - Len(s) \in DOMAIN e /\ e[i - Len(s)] = e[j - Len(s)])
    BY <1>1, <2>1, <2>2, Zenon DEF Joins
  <2>4. i \in Int /\ j \in Int /\ Len(s) \in Int
    BY <1>1, Zenon DEF Joins
  <2> QED BY <1>4, <2>3, <2>4
<1>6. \A i \in DOMAIN n : Past(t, n[i])'
  BY <1>1, <1>2, ZenonT(60) DEF Joins
<1>7. order_manual'[t] /\ order_status'[t] = "COMPLETED" => \E i \in DOMAIN n : n[i] = "INSPECTION_DECIDED"
  <2> SUFFICES ASSUME order_manual'[t], order_status'[t] = "COMPLETED" PROVE \E i \in DOMAIN n : n[i] = "INSPECTION_DECIDED"
    BY Zenon
  <2>1. PICK j \in DOMAIN e : e[j] = "INSPECTION_DECIDED"
    BY Zenon
  <2>2. Len(s) + j \in DOMAIN n /\ n[Len(s) + j] = "INSPECTION_DECIDED"
    BY <1>1, <2>1, Zenon DEF Joins
  <2> QED BY <2>2, Zenon
<1> QED BY <1>3, <1>5, <1>6, <1>7, Zenon DEF CaseHistory

\* A case no step touches keeps its history.
LEMMA HistoryKept ==
    ASSUME NEW u \in Tasks, CaseHistory(u), outbox'[u] = outbox[u], mission_status'[u] = mission_status[u],
           order_status'[u] = order_status[u], order_result'[u] = order_result[u], order_manual'[u] = order_manual[u]
    PROVE  CaseHistory(u)'
BY ZenonT(60) DEF CaseHistory, Past

\* A step of one case.
OtherHistories(t) ==
    \A u \in Tasks \ {t} :
        /\ outbox'[u] = outbox[u] /\ mission_status'[u] = mission_status[u] /\ order_status'[u] = order_status[u]
        /\ order_result'[u] = order_result[u] /\ order_manual'[u] = order_manual[u]

LEMMA OneHistoryMoves ==
    ASSUME HistoryInv, NEW t \in Tasks, OtherHistories(t), CaseHistory(t)'
    PROVE  HistoryInv'
<1>1. \A u \in Tasks : CaseHistory(u)
  BY Zenon DEF HistoryInv, CaseHistory, EventsRecordedOnce, ManualOrderDecidedByPerson
<1>2. \A u \in Tasks : CaseHistory(u)'
  BY <1>1, HistoryKept, Zenon DEF OtherHistories
<1> QED BY <1>2, Zenon DEF HistoryInv, CaseHistory, EventsRecordedOnce, ManualOrderDecidedByPerson


\* A step of one case that records one event, or two.
LEMMA RecordsOne ==
    ASSUME OperationsInv, HistoryInv, NEW t \in Tasks, OtherHistories(t), NEW x \in Events, emit(t, <<x>>),
           ~Past(t, x), Past(t, x)', \A y \in Events : Past(t, y) => Past(t, y)',
           order_status'[t] \in OpenOrder, order_result'[t] = "NONE"
    PROVE  HistoryInv'
<1>1. PICK e \in Seq(Events) : e = <<x>> /\ DOMAIN e = {1} /\ e[1] = x
  <2>1. <<x>> \in Seq(Events) /\ DOMAIN <<x>> = {1} /\ <<x>>[1] = x
    BY OneFacts, Zenon
  <2> QED BY <2>1, Zenon
<1>2. outbox \in [Tasks -> Seq(Events)] /\ emit(t, e)
  BY <1>1, Zenon DEF OperationsInv, TypeOK, RowTypeOK
<1>3. CaseHistory(t)
  BY ZenonT(60) DEF HistoryInv, CaseHistory, EventsRecordedOnce, ManualOrderDecidedByPerson
<1>4. mission_status'[t] # "NONE" /\ order_status'[t] # "COMPLETED"
  BY Zenon DEF Past, OpenOrder, ActiveMaintenance
<1>5. \A i \in DOMAIN e : ~Past(t, e[i]) /\ Past(t, e[i])'
  BY <1>1, Zenon
<1>6. CaseHistory(t)'
  BY <1>1, <1>2, <1>3, <1>4, <1>5, CaseRecords, Zenon
<1> QED BY <1>6, OneHistoryMoves, Zenon

LEMMA RecordsTwo ==
    ASSUME OperationsInv, HistoryInv, NEW t \in Tasks, OtherHistories(t),
           NEW x \in Events, NEW y \in Events, x # y, emit(t, <<x, y>>),
           ~Past(t, x), ~Past(t, y), Past(t, x)', Past(t, y)', \A z \in Events : Past(t, z) => Past(t, z)',
           order_status'[t] \notin OpenOrder, order_manual'[t] => y = "INSPECTION_DECIDED"
    PROVE  HistoryInv'
<1>1. PICK e \in Seq(Events) : e = <<x, y>> /\ DOMAIN e = {1, 2} /\ e[1] = x /\ e[2] = y
  <2>1. <<x, y>> \in Seq(Events) /\ DOMAIN <<x, y>> = {1, 2} /\ <<x, y>>[1] = x /\ <<x, y>>[2] = y
    BY PairFacts, Zenon
  <2> QED BY <2>1, Zenon
<1>2. outbox \in [Tasks -> Seq(Events)] /\ emit(t, e)
  BY <1>1, Zenon DEF OperationsInv, TypeOK, RowTypeOK
<1>3. CaseHistory(t)
  BY Zenon DEF HistoryInv, CaseHistory, EventsRecordedOnce, ManualOrderDecidedByPerson
<1>4. mission_status'[t] # "NONE"
  BY Zenon DEF Past
<1>5. \A i \in DOMAIN e : ~Past(t, e[i]) /\ Past(t, e[i])'
  BY <1>1, Zenon
<1>6. /\ \A i, j \in DOMAIN e : e[i] = e[j] => i = j
      /\ order_manual'[t] => \E i \in DOMAIN e : e[i] = "INSPECTION_DECIDED"
  BY <1>1, Zenon
<1>7. CaseHistory(t)'
  BY <1>1, <1>2, <1>3, <1>4, <1>5, <1>6, CaseRecords, Zenon
<1> QED BY <1>7, OneHistoryMoves, Zenon

\* The progressor's steps of a mission.
LEMMA RescueHistory ==
    ASSUME OperationsInv, HistoryInv, NEW t \in Tasks, advance_one_due_rescue(t)
    PROVE  HistoryInv'
<1>1. /\ mission_status \in [Tasks -> RescueStatus \cup {"NONE"}] /\ order_status \in [Tasks -> MaintenanceStatus \cup {"NONE"}]
      /\ outbox \in [Tasks -> Seq(Events)]
  BY Zenon DEF OperationsInv, TypeOK, RowTypeOK
<1>2. mission_status[t] \in ActiveRescue /\ order_status[t] = "SCHEDULED" /\ order_result[t] = "NONE"
  BY Zenon DEF advance_one_due_rescue, OperationsInv, TimerInv, CaseInLockstep, Lockstep, ActiveRescue, HistoryInv, OpenOrder
<1>3. UNCHANGED <<order_manual, order_result>>
  BY Zenon DEF advance_one_due_rescue, rescue_arrives, vehicle_loaded, tow_delivered, orderVars
<1>4. CASE rescue_arrives(t)
  <2>1. /\ mission_status[t] = "DISPATCHED" /\ mission_status' = [mission_status EXCEPT ![t] = "ARRIVED"]
        /\ emit(t, <<"RESCUE_ARRIVED">>) /\ UNCHANGED order_status
    BY <1>4, Zenon DEF rescue_arrives, orderVars
  <2>2. OtherHistories(t)
    BY <1>1, <1>3, <2>1, Zenon DEF OtherHistories, emit
  <2>3. \A y \in Events : Past(t, y) => Past(t, y)'
    BY <1>1, <2>1, Zenon DEF Past, ActiveRescue
  <2>4. ~Past(t, "RESCUE_ARRIVED") /\ Past(t, "RESCUE_ARRIVED")'
    BY <1>1, <2>1, Zenon DEF Past
  <2> QED BY <1>2, <1>3, <2>1, <2>2, <2>3, <2>4, RecordsOne, Zenon DEF OpenOrder, Events
<1>5. CASE vehicle_loaded(t)
  <2>1. /\ mission_status[t] = "ARRIVED" /\ mission_status' = [mission_status EXCEPT ![t] = "LOADED"]
        /\ emit(t, <<"VEHICLE_LOADED">>) /\ UNCHANGED order_status
    BY <1>5, Zenon DEF vehicle_loaded, orderVars
  <2>2. OtherHistories(t)
    BY <1>1, <1>3, <2>1, Zenon DEF OtherHistories, emit
  <2>3. \A y \in Events : Past(t, y) => Past(t, y)'
    BY <1>1, <2>1, Zenon DEF Past, ActiveRescue
  <2>4. ~Past(t, "VEHICLE_LOADED") /\ Past(t, "VEHICLE_LOADED")'
    BY <1>1, <2>1, Zenon DEF Past
  <2> QED BY <1>2, <1>3, <2>1, <2>2, <2>3, <2>4, RecordsOne, Zenon DEF OpenOrder, Events
<1>6. CASE tow_delivered(t)
  <2>1. /\ mission_status[t] = "LOADED" /\ mission_status' = [mission_status EXCEPT ![t] = "DELIVERED"]
        /\ order_status[t] = "SCHEDULED" /\ order_status' = [order_status EXCEPT ![t] = "WAITING_BAY"]
        /\ emit(t, <<"TOW_DELIVERED">>)
    BY <1>6, Zenon DEF tow_delivered, order_waits_for_bay
  <2>2. OtherHistories(t)
    BY <1>1, <1>3, <2>1, Zenon DEF OtherHistories, emit
  <2>3. \A y \in Events : Past(t, y) => Past(t, y)'
    BY <1>1, <2>1, Zenon DEF Past, ActiveRescue, OpenOrder, ActiveMaintenance
  <2>4. ~Past(t, "TOW_DELIVERED") /\ Past(t, "TOW_DELIVERED")'
    BY <1>1, <2>1, Zenon DEF Past, ActiveRescue
  <2> QED BY <1>1, <1>2, <1>3, <2>1, <2>2, <2>3, <2>4, RecordsOne, Zenon DEF OpenOrder, ActiveMaintenance, Events
<1> QED BY <1>4, <1>5, <1>6, Zenon DEF advance_one_due_rescue


\* The progressor's steps of an order, and the inspector's.
LEMMA MaintenanceHistory ==
    ASSUME OperationsInv, HistoryInv, NEW t \in Tasks, advance_one_due_maintenance(t)
    PROVE  HistoryInv'
<1>1. /\ order_status \in [Tasks -> MaintenanceStatus \cup {"NONE"}] /\ outbox \in [Tasks -> Seq(Events)]
      /\ order_result \in [Tasks -> {"NONE", "PASSED", "FAILED"}]
  BY Zenon DEF OperationsInv, TypeOK, RowTypeOK
<1>2. /\ order_status[t] \in ActiveMaintenance /\ order_result[t] = "NONE"
      /\ mission_status[t] = "DELIVERED"
  BY Zenon DEF advance_one_due_maintenance, OperationsInv, TimerInv, CaseInLockstep, Lockstep, HistoryInv, OpenOrder
<1>3. UNCHANGED <<order_manual, mission_status>>
  BY Zenon DEF advance_one_due_maintenance, missionVars
<1>4. CASE await_inspection(t)
  <2>1. UNCHANGED historyVars
    BY <1>3, <1>4, Zenon DEF await_inspection, historyVars
  <2> QED BY <2>1, HistoryUntouched, Zenon
<1>5. ASSUME NEW s \in OpenOrder, NEW x \in Events, order_status' = [order_status EXCEPT ![t] = s],
             emit(t, <<x>>), UNCHANGED order_result, ~Past(t, x), Past(t, x)',
             \A y \in Events : Past(t, y) => Past(t, y)'
      PROVE  HistoryInv'
  <2>1. OtherHistories(t)
    BY <1>1, <1>3, <1>5, Zenon DEF OtherHistories, emit
  <2>2. order_status'[t] \in OpenOrder /\ order_result'[t] = "NONE"
    BY <1>1, <1>2, <1>5, Zenon
  <2> QED BY <1>5, <2>1, <2>2, RecordsOne, Zenon
<1>6. CASE order_status[t] = "WAITING_BAY" /\ start_repair_stage(t)
  <2>1. /\ order_status' = [order_status EXCEPT ![t] = "DIAGNOSING"] /\ UNCHANGED order_result
        /\ emit(t, <<"MAINTENANCE_DIAGNOSING">>) /\ order_status'[t] = "DIAGNOSING"
    BY <1>1, <1>6, Zenon DEF start_repair_stage
  <2>2. ~Past(t, "MAINTENANCE_DIAGNOSING") /\ Past(t, "MAINTENANCE_DIAGNOSING")'
    BY <1>2, <1>3, <1>6, <2>1, Zenon DEF Past
  <2>3. \A y \in Events : Past(t, y) => Past(t, y)'
    BY <1>3, <1>6, <2>1, Zenon DEF Past, OpenOrder, ActiveMaintenance
  <2> QED BY <1>5, <2>1, <2>2, <2>3, Zenon DEF OpenOrder, ActiveMaintenance, Events
<1>7. CASE order_status[t] = "DIAGNOSING" /\ start_repair_stage(t)
  <2>1. /\ order_status' = [order_status EXCEPT ![t] = "REPAIRING"] /\ UNCHANGED order_result
        /\ emit(t, <<"MAINTENANCE_REPAIRING">>) /\ order_status'[t] = "REPAIRING"
    BY <1>1, <1>7, Zenon DEF start_repair_stage
  <2>2. ~Past(t, "MAINTENANCE_REPAIRING") /\ Past(t, "MAINTENANCE_REPAIRING")'
    BY <1>2, <1>3, <1>7, <2>1, Zenon DEF Past
  <2>3. \A y \in Events : Past(t, y) => Past(t, y)'
    BY <1>3, <1>7, <2>1, Zenon DEF Past, OpenOrder, ActiveMaintenance
  <2> QED BY <1>5, <2>1, <2>2, <2>3, Zenon DEF OpenOrder, ActiveMaintenance, Events
<1>8. CASE start_qa(t)
  <2>1. /\ order_status' = [order_status EXCEPT ![t] = "QA_PENDING"] /\ UNCHANGED order_result
        /\ emit(t, <<"MAINTENANCE_QA_PENDING">>) /\ order_status'[t] = "QA_PENDING" /\ order_status[t] = "REPAIRING"
    BY <1>1, <1>8, Zenon DEF start_qa
  <2>2. ~Past(t, "MAINTENANCE_QA_PENDING") /\ Past(t, "MAINTENANCE_QA_PENDING")'
    BY <1>2, <1>3, <2>1, Zenon DEF Past, OpenOrder, ActiveMaintenance
  <2>3. \A y \in Events : Past(t, y) => Past(t, y)'
    BY <1>3, <2>1, Zenon DEF Past, OpenOrder, ActiveMaintenance
  <2> QED BY <1>5, <2>1, <2>2, <2>3, Zenon DEF OpenOrder, ActiveMaintenance, Events
<1>9. CASE complete_order(t)
  <2>1. /\ order_status' = [order_status EXCEPT ![t] = "COMPLETED"]
        /\ order_result' = [order_result EXCEPT ![t] = "PASSED"]
        /\ emit(t, <<"MAINTENANCE_COMPLETED", "VEHICLE_AVAILABLE">>) /\ order_status'[t] = "COMPLETED"
        /\ ~order_manual'[t]
    BY <1>1, <1>2, <1>3, <1>9, Zenon DEF complete_order, needs_person
  <2>2. OtherHistories(t)
    BY <1>1, <1>3, <2>1, Zenon DEF OtherHistories, emit
  <2>3. order_status[t] \in OpenOrder /\ order_status'[t] \notin OpenOrder
    BY <1>2, <2>1, Zenon DEF OpenOrder, ActiveMaintenance
  <2>4. \A y \in Events : Past(t, y) => Past(t, y)'
    BY <1>3, <2>1, <2>3, Zenon DEF Past, OpenOrder, ActiveMaintenance
  <2>5. \A x \in {"MAINTENANCE_COMPLETED", "VEHICLE_AVAILABLE"} : ~Past(t, x) /\ Past(t, x)'
    BY <1>2, <1>3, <2>3, Zenon DEF Past
  <2> QED BY <2>1, <2>2, <2>3, <2>4, <2>5, RecordsTwo, Zenon DEF Events
<1> QED BY <1>4, <1>6, <1>7, <1>8, <1>9, Zenon DEF advance_one_due_maintenance, start_repair_stage

LEMMA InspectionHistory ==
    ASSUME OperationsInv, HistoryInv, NEW t \in Tasks, NEW passed \in BOOLEAN, record_inspection(t, passed)
    PROVE  HistoryInv'
<1> DEFINE x == IF passed THEN "VEHICLE_AVAILABLE" ELSE "VEHICLE_OUT_OF_SERVICE"
<1>1. /\ order_status \in [Tasks -> MaintenanceStatus \cup {"NONE"}] /\ outbox \in [Tasks -> Seq(Events)]
      /\ order_result \in [Tasks -> {"NONE", "PASSED", "FAILED"}]
  BY Zenon DEF OperationsInv, TypeOK, RowTypeOK
<1>2. order_status[t] \in OpenOrder /\ mission_status[t] = "DELIVERED"
  BY Zenon DEF record_inspection, OperationsInv, CaseInLockstep, Lockstep, OpenOrder, ActiveMaintenance
<1>3. UNCHANGED <<order_manual, mission_status>> /\ emit(t, <<x, "INSPECTION_DECIDED">>)
  BY Zenon DEF record_inspection, missionVars
<1>4. OtherHistories(t) /\ order_status'[t] \notin OpenOrder
  BY <1>1, <1>3, Zenon DEF OtherHistories, record_inspection, emit, OpenOrder, ActiveMaintenance
<1>5. \A y \in Events : Past(t, y) => Past(t, y)'
  BY <1>3, <1>4, Zenon DEF Past, OpenOrder, ActiveMaintenance
<1>6. ~Past(t, x) /\ Past(t, x)' /\ ~Past(t, "INSPECTION_DECIDED") /\ Past(t, "INSPECTION_DECIDED")'
  BY <1>2, <1>3, <1>4, Zenon DEF Past
<1>7. x \in Events /\ x # "INSPECTION_DECIDED" /\ "INSPECTION_DECIDED" \in Events
  BY Zenon DEF Events
<1> HIDE DEF x
<1> QED BY <1>3, <1>4, <1>5, <1>6, <1>7, RecordsTwo, Zenon


\* The events of a new case are distinct.
LEMMA CaseEventsDistinct ==
    ASSUME NEW r
    PROVE  \E e \in Seq(Events) :
              /\ e = <<"VEHICLE_STOPPED">> \o (IF r = None THEN <<>> ELSE <<"REPLACEMENT_DISPATCHED">>)
                       \o <<"RESCUE_DISPATCHED", "MAINTENANCE_SCHEDULED">>
              /\ \A i, j \in DOMAIN e : e[i] = e[j] => i = j
              /\ \A i \in DOMAIN e : e[i] \in {"VEHICLE_STOPPED", "REPLACEMENT_DISPATCHED", "RESCUE_DISPATCHED",
                                               "MAINTENANCE_SCHEDULED"}
<1>1. CASE r = None
  <2>1. PICK e : e = <<"VEHICLE_STOPPED">> \o <<>> \o <<"RESCUE_DISPATCHED", "MAINTENANCE_SCHEDULED">>
    BY Zenon
  <2>2. /\ e \in Seq(Events) /\ DOMAIN e = 1 .. 3 /\ e[1] = "VEHICLE_STOPPED"
        /\ e[2] = "RESCUE_DISPATCHED" /\ e[3] = "MAINTENANCE_SCHEDULED"
    BY <2>1 DEF Events
  <2>3. /\ \A i, j \in DOMAIN e : e[i] = e[j] => i = j
        /\ \A i \in DOMAIN e : e[i] \in {"VEHICLE_STOPPED", "REPLACEMENT_DISPATCHED", "RESCUE_DISPATCHED",
                                         "MAINTENANCE_SCHEDULED"}
    BY <2>2
  <2> QED BY <1>1, <2>1, <2>2, <2>3, Zenon
<1>2. CASE r # None
  <2>1. PICK e : e = <<"VEHICLE_STOPPED">> \o <<"REPLACEMENT_DISPATCHED">> \o <<"RESCUE_DISPATCHED", "MAINTENANCE_SCHEDULED">>
    BY Zenon
  <2>2. /\ e \in Seq(Events) /\ DOMAIN e = 1 .. 4 /\ e[1] = "VEHICLE_STOPPED" /\ e[2] = "REPLACEMENT_DISPATCHED"
        /\ e[3] = "RESCUE_DISPATCHED" /\ e[4] = "MAINTENANCE_SCHEDULED"
    BY <2>1 DEF Events
  <2>3. /\ \A i, j \in DOMAIN e : e[i] = e[j] => i = j
        /\ \A i \in DOMAIN e : e[i] \in {"VEHICLE_STOPPED", "REPLACEMENT_DISPATCHED", "RESCUE_DISPATCHED",
                                         "MAINTENANCE_SCHEDULED"}
    BY <2>2
  <2> QED BY <1>2, <2>1, <2>2, <2>3, Zenon
<1> QED BY <1>1, <1>2, Zenon

\* Opening a case records its first events.
LEMMA OpeningHistory ==
    ASSUME OperationsInv, HistoryInv, NEW t \in Tasks, NEW no, mission_status[t] = "NONE", commit_case(t, no)
    PROVE  HistoryInv'
<1>1. /\ mission_status \in [Tasks -> RescueStatus \cup {"NONE"}] /\ order_status \in [Tasks -> MaintenanceStatus \cup {"NONE"}]
      /\ outbox \in [Tasks -> Seq(Events)] /\ order_manual \in [Tasks -> BOOLEAN]
  BY Zenon DEF OperationsInv, TypeOK, RowTypeOK
<1>2. PICK e \in Seq(Events) :
         /\ emit(t, e) /\ \A i, j \in DOMAIN e : e[i] = e[j] => i = j
         /\ \A i \in DOMAIN e : e[i] \in {"VEHICLE_STOPPED", "REPLACEMENT_DISPATCHED", "RESCUE_DISPATCHED",
                                          "MAINTENANCE_SCHEDULED"}
  <2>1. PICK e \in Seq(Events) :
           /\ e = <<"VEHICLE_STOPPED">> \o (IF target[t] = None THEN <<>> ELSE <<"REPLACEMENT_DISPATCHED">>)
                    \o <<"RESCUE_DISPATCHED", "MAINTENANCE_SCHEDULED">>
           /\ \A i, j \in DOMAIN e : e[i] = e[j] => i = j
           /\ \A i \in DOMAIN e : e[i] \in {"VEHICLE_STOPPED", "REPLACEMENT_DISPATCHED", "RESCUE_DISPATCHED",
                                            "MAINTENANCE_SCHEDULED"}
    BY CaseEventsDistinct, Zenon
  <2>2. emit(t, e)
    BY <2>1, Zenon DEF commit_case, emit
  <2> QED BY <2>1, <2>2, Zenon
<1>3. PICK m \in BOOLEAN :
         /\ mission_status' = [mission_status EXCEPT ![t] = "DISPATCHED"]
         /\ order_status' = [order_status EXCEPT ![t] = "SCHEDULED"]
         /\ order_manual' = [order_manual EXCEPT ![t] = m] /\ UNCHANGED order_result
  BY Zenon DEF commit_case
<1>4. OtherHistories(t)
  BY <1>1, <1>2, <1>3, Zenon DEF OtherHistories, emit
<1>5. \A i \in DOMAIN e : ~Past(t, e[i]) /\ Past(t, e[i])'
  BY <1>1, <1>2, <1>3, Zenon DEF Past
<1>6. \A y \in Events : Past(t, y) => Past(t, y)'
  BY Zenon DEF Past
<1>7. mission_status'[t] = "DISPATCHED" /\ order_status'[t] = "SCHEDULED" /\ order_result'[t] = "NONE"
  BY <1>1, <1>3, Zenon DEF HistoryInv
<1>8. CaseHistory(t)
  BY Zenon DEF HistoryInv, CaseHistory, EventsRecordedOnce, ManualOrderDecidedByPerson
<1>9. CaseHistory(t)'
  BY <1>1, <1>2, <1>5, <1>6, <1>7, <1>8, CaseRecords, Zenon
<1> QED BY <1>4, <1>9, OneHistoryMoves, Zenon

\* The reset of the demonstration records nothing, and cancels.
LEMMA ResetHistory ==
    ASSUME OperationsInv, HistoryInv, reset_vehicle_breakdown
    PROVE  HistoryInv'
<1>1. /\ mission_status' = [t \in Tasks |-> IF mission_status[t] \in ActiveRescue THEN "CANCELLED" ELSE mission_status[t]]
      /\ order_status' = [t \in Tasks |-> IF order_status[t] \in OpenOrder THEN "CANCELLED" ELSE order_status[t]]
      /\ UNCHANGED <<order_manual, order_result, outbox>>
  BY Zenon DEF reset_vehicle_breakdown, cancel_missions, cancel_orders
<1>2. "CANCELLED" \notin OpenOrder /\ "CANCELLED" \notin ActiveRescue /\ "NONE" \notin OpenOrder
  BY Zenon DEF OpenOrder, ActiveMaintenance, ActiveRescue
<1>3. ASSUME NEW t \in Tasks PROVE CaseHistory(t)'
  <2>1. CaseHistory(t)
    BY ZenonT(60) DEF HistoryInv, CaseHistory, EventsRecordedOnce, ManualOrderDecidedByPerson
  <2>2. \A y \in Events : Past(t, y) => Past(t, y)'
    BY <1>1, ZenonT(60) DEF Past, OpenOrder, ActiveMaintenance, ActiveRescue
  <2>3. /\ mission_status'[t] = "NONE" => mission_status[t] = "NONE"
        /\ order_status'[t] \notin OpenOrder /\ (order_status[t] = "NONE" => order_status'[t] = "NONE")
        /\ order_status'[t] = "COMPLETED" => order_status[t] = "COMPLETED"
    BY <1>1, <1>2, Zenon
  <2>4. \A i \in DOMAIN outbox[t] : outbox[t][i] \in Events
    <3>1. outbox[t] \in Seq(Events)
      BY Zenon DEF OperationsInv, TypeOK, RowTypeOK
    <3> QED BY <3>1, SequenceFacts, Zenon
  <2>5. \A i \in DOMAIN outbox'[t] : Past(t, outbox[t][i])'
    BY <1>1, <2>1, <2>2, <2>4, Zenon DEF CaseHistory
  <2> QED BY <1>1, <2>1, <2>3, <2>5, Zenon DEF CaseHistory
<1> QED BY <1>3, Zenon DEF HistoryInv, CaseHistory, EventsRecordedOnce, ManualOrderDecidedByPerson


\* No case, no history.
LEMMA HistoryInit == Init => HistoryInv
<1> SUFFICES ASSUME Init PROVE HistoryInv
  BY Zenon
<1>1. \A t \in Tasks : DOMAIN outbox[t] = {}
  BY DEF Init
<1>2. "NONE" \notin OpenOrder
  BY Zenon DEF OpenOrder, ActiveMaintenance
<1> QED BY <1>1, <1>2, Zenon DEF Init, HistoryInv, EventsRecordedOnce, ManualOrderDecidedByPerson

\* Every step of a case in good order keeps its history.
LEMMA HistoryStep ==
    ASSUME OperationsInv, HistoryInv, [Next]_vars
    PROVE  HistoryInv'
<1>1. ASSUME UNCHANGED historyVars PROVE HistoryInv'
  BY <1>1, HistoryUntouched, Zenon
<1>2. ASSUME NEW w \in Workers, create_breakdown_case(w) PROVE HistoryInv'
  <2> DEFINE t == job[w].task
  <2>1. t \in Tasks
    BY <1>2, Zenon DEF OperationsInv, JobInv, create_breakdown_case
  <2>2. PICK day \in Days :
          \/ case_can_commit(t, <<day, Suffix[t]>>) /\ commit_case(t, <<day, Suffix[t]>>)
          \/ UNCHANGED <<missionVars, orderVars, outbox>>
    BY <1>2, Zenon DEF create_breakdown_case
  <2>3. CASE case_can_commit(t, <<day, Suffix[t]>>) /\ commit_case(t, <<day, Suffix[t]>>)
    <3>1. mission_status[t] = "NONE"
      BY <2>3, Zenon DEF case_can_commit, unique_keys_free
    <3> QED BY <2>1, <2>3, <3>1, OpeningHistory, Zenon
  <2>4. CASE UNCHANGED <<missionVars, orderVars, outbox>>
    BY <1>1, <2>4, Zenon DEF historyVars, missionVars, orderVars
  <2> QED BY <2>2, <2>3, <2>4, Zenon
<1>3. ASSUME NEW w \in Workers, NEW t \in Tasks, start_dispatch(w, t) \/ orchestrate(w, t) PROVE HistoryInv'
  BY <1>1, <1>3, Zenon DEF historyVars, start_dispatch, orchestrate, missionVars, orderVars
<1>4. ASSUME NEW w \in Workers, execute_read(w) \/ execute_commit(w) \/ crash(w) PROVE HistoryInv'
  BY <1>1, <1>4, Zenon DEF historyVars, execute_read, execute_commit, crash, missionVars, orderVars
<1>5. CASE \/ UNCHANGED <<vehicleVars, dispatchVars, missionVars, orderVars, outbox, routed, job, resets>>
           \/ UNCHANGED vars
  BY <1>1, <1>5, Zenon DEF vars, historyVars, missionVars, orderVars
<1> QED
  BY <1>2, <1>3, <1>4, <1>5, RescueHistory, MaintenanceHistory, InspectionHistory, ResetHistory, Zenon DEF Next

--------------------------------------------------------------------------------
(* The theorems                                                            *)

\* The rows, the jobs and the outboxes stay consistent in every interleaving of workers,
\* progressor, inspectors and demo resets: the conjunction of the invariants the run checks.
THEOREM FleetInvariant == Spec => []FleetInv
<1>1. Init => FleetInv
  BY InitInv, HistoryInit, Zenon DEF FleetInv, Init
<1>2. FleetInv /\ [Next]_vars => FleetInv'
  <2> SUFFICES ASSUME FleetInv, [Next]_vars PROVE FleetInv'
    BY Zenon
  <2>1. progressor' \in {"running", "stopped"}
    BY Zenon DEF FleetInv, Next, vars, run_once_fails, start_vehicle_operations_progressor
  <2> QED BY <2>1, NextInv, HistoryStep, Zenon DEF FleetInv
<1> QED BY <1>1, <1>2, PTL DEF Spec

\* The single rescue unit serves one mission at a time and is busy exactly while it does.
THEOREM RescueUnitSafety == Spec => []RescueUnitExclusive
<1>1. FleetInv => RescueUnitExclusive
  BY Zenon DEF FleetInv, OperationsInv
<1> QED BY <1>1, FleetInvariant, PTL

\* A maintenance bay and its open order always point at each other.
THEOREM BaySafety == Spec => []BayHeldByItsOrder
<1>1. FleetInv => BayHeldByItsOrder
  BY Zenon DEF FleetInv, OperationsInv
<1> QED BY <1>1, FleetInvariant, PTL

\* Mission, order and vehicle of a case agree at every stage, so the progressor's
\* transition checks cannot fail and stop it.
THEOREM LockstepSafety == Spec => []CaseInLockstep
<1>1. FleetInv => CaseInLockstep
  BY Zenon DEF FleetInv, OperationsInv
<1> QED BY <1>1, FleetInvariant, PTL

\* Until the first demo reset, no vehicle is promised to two undispatched tasks.
THEOREM ReservationSafety == Spec => []OneReservationPerVehicle
<1>1. FleetInv => OneReservationPerVehicle
  BY Zenon DEF FleetInv, OperationsInv
<1> QED BY <1>1, FleetInvariant, PTL

\* A redelivered task or a second worker records no event of a case twice (the outbox rows
\* of orchestrate and of the progressor), so a vehicle is stopped, towed and released once.
THEOREM EventsOnce == Spec => []EventsRecordedOnce
<1>1. FleetInv => EventsRecordedOnce
  BY Zenon DEF FleetInv, HistoryInv
<1> QED BY <1>1, FleetInvariant, PTL

\* The progressor never completes an order that needs a manual inspection: such an order
\* is completed by record_inspection only.
THEOREM ManualOrdersWait == Spec => []ManualOrderDecidedByPerson
<1>1. FleetInv => ManualOrderDecidedByPerson
  BY Zenon DEF FleetInv, HistoryInv
<1> QED BY <1>1, FleetInvariant, PTL

\* Only the flush of the dispatch service reserves a vehicle.
LEMMA ReserveStep ==
    ASSUME OperationsInv, [Next]_vars, NEW v \in Vehicles,
           vehicle_status'[v] = "RESERVED", vehicle_status[v] # "RESERVED"
    PROVE  vehicle_status[v] = "AVAILABLE"
<1> USE DEF OperationsInv
<1>1. ~ UNCHANGED vehicleVars
  BY Zenon DEF vehicleVars
<1>2. ASSUME NEW w \in Workers, execute_commit(w) PROVE vehicle_status[v] = "AVAILABLE"
  <2>1. /\ job[w].pc = "flush" /\ version_matches(w, Head(job[w].attempts))
        /\ Head(job[w].attempts) # None
        /\ vehicle_status' = [vehicle_status EXCEPT ![Head(job[w].attempts)] = "RESERVED"]
    BY <1>1, <1>2, Zenon DEF execute_commit
  <2>2. v = Head(job[w].attempts)
    BY <2>1, Zenon DEF TypeOK, RowTypeOK
  <2> QED BY <2>1, <2>2, ReserveFromAvailable, Zenon
<1>3. ASSUME NEW w \in Workers, create_breakdown_case(w) PROVE FALSE
  <2>1. PICK day \in Days : commit_case(job[w].task, <<day, Suffix[job[w].task]>>)
    BY <1>1, <1>3, Zenon DEF create_breakdown_case
  <2>2. vehicle_status'[v] \in {"WAITING_RESCUE", "IN_TRANSIT", vehicle_status[v]}
    BY <2>1, Zenon DEF commit_case
  <2> QED BY <2>2, Zenon
<1>4. ASSUME NEW x \in Vehicles, NEW s, s # "RESERVED", move_vehicle(x, s) PROVE FALSE
  BY <1>4, Zenon DEF move_vehicle, TypeOK, RowTypeOK
<1>5. ASSUME NEW t \in Tasks, advance_one_due_rescue(t) PROVE FALSE
  BY <1>1, <1>4, <1>5, Zenon DEF advance_one_due_rescue, rescue_arrives, vehicle_loaded, tow_delivered
<1>6. ASSUME NEW t \in Tasks, NEW passed \in BOOLEAN, release_vehicle_and_bay(t, passed) PROVE FALSE
  BY <1>4, <1>6, Zenon DEF release_vehicle_and_bay
<1>7. ASSUME NEW t \in Tasks, advance_one_due_maintenance(t) PROVE FALSE
  BY <1>1, <1>4, <1>6, <1>7, Zenon DEF advance_one_due_maintenance, await_inspection, start_repair_stage,
                                start_qa, complete_order
<1>8. ASSUME NEW t \in Tasks, NEW passed \in BOOLEAN, record_inspection(t, passed) PROVE FALSE
  BY <1>6, <1>8, Zenon DEF record_inspection
<1>9. CASE reset_vehicle_breakdown
  BY <1>9, Zenon DEF reset_vehicle_breakdown
<1> QED
  BY <1>1, <1>2, <1>3, <1>5, <1>7, <1>8, <1>9, Zenon
  DEF Next, vars, start_dispatch, orchestrate, execute_read, crash

\* A vehicle is reserved only from AVAILABLE, although the dispatch service decides on a
\* read it made without a lock.
THEOREM ReservationFromAvailable == Spec => ReservedOnlyWhenAvailable
<1> DEFINE A == \A v \in Vehicles : vehicle_status'[v] = "RESERVED" /\ vehicle_status[v] # "RESERVED"
                                     => vehicle_status[v] = "AVAILABLE"
<1>1. FleetInv /\ [Next]_vars => [A]_vars
  BY ReserveStep, Zenon DEF FleetInv
<1>2. Spec => [][A]_vars
  BY <1>1, FleetInvariant, PTL DEF Spec
<1> QED BY <1>2, Zenon DEF ReservedOnlyWhenAvailable
================================================================================
