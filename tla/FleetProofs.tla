------------------------------ MODULE FleetProofs -----------------------------
(***************************************************************************)
(* Proofs about the fleet of SAIKI, for every set of ports and modems      *)
(* (WorkerManager), and about the monitor of one SIM in it, for every      *)
(* threshold above one, every modem and every sequence of answers          *)
(* (CpinRuntime).                                                          *)
(***************************************************************************)
EXTENDS WorkerManager, CpinRuntime, TLAPS

-----------------------------------------------------------------------------
(* The fleet.                                                              *)

(* The strengthened invariant: a scan or the monitor that takes a worker   *)
(* down or is about to make one knows which, and a registered worker runs. *)
StepsHaveTargets ==
  /\ \A s \in Scanners :
       /\ scan[s].pc \in {"teardown", "create"} => scan[s].port \in Ports
       /\ scan[s].pc = "teardown" => scan[s].victim # 0
  /\ watch.pc = "teardown" => watch.port \in Ports /\ watch.victim # 0

RegisteredRuns ==
  \A p \in Ports : registered[p] # 0 => <<p, registered[p]>> \in alive

Owned == RegisteredRuns /\ NoLeaks /\ OneUndertaker

FleetInv == TypeOK /\ StepsHaveTargets /\ ParticipatingIsRegistered /\ Owned

SameUndertakers ==
  \A p \in Ports, n \in 1 .. MaxWorkers : Undertakers(p, n)' = Undertakers(p, n)

-----------------------------------------------------------------------------
(* The types of what the locked sections change.                           *)

RegistryOK ==
  /\ registered \in [Ports -> 0 .. MaxWorkers]
  /\ alive \subseteq Workers
  /\ holder \in [Ports -> 0 .. MaxWorkers]
  /\ portState \in [Ports -> PortState]

LEMMA StateTypes ==
  /\ "ACTIVE" \in PortState /\ "REMOVED" \in PortState /\ "OFFLINE" \in PortState
  /\ "VALID_MODEM" \in PortState /\ "EXCLUDED" \in PortState /\ "NONE" \in PortState
  BY DEF PortState

LEMMA RegisterType ==
  ASSUME RegistryOK, NEW p \in Ports, Register(p)
  PROVE  RegistryOK'
<1>1. PICK n \in Fresh(p) :
        /\ registered' = [registered EXCEPT ![p] = n]
        /\ alive' = alive \cup {<<p, n>>}
        /\ holder' = [holder EXCEPT ![p] = IF p \in plugged /\ Free(p) THEN n ELSE @]
        /\ portState' = [portState EXCEPT ![p] = IF @ = "EXCLUDED" THEN @ ELSE "ACTIVE"]
  BY DEF Register
<1>2. n \in 1 .. MaxWorkers /\ n \in 0 .. MaxWorkers
  BY FleetAssumption DEF Fresh
<1>3. (IF p \in plugged /\ Free(p) THEN n ELSE holder[p]) \in 0 .. MaxWorkers
  BY <1>2 DEF RegistryOK
<1>4. (IF portState[p] = "EXCLUDED" THEN portState[p] ELSE "ACTIVE") \in PortState
  BY StateTypes DEF RegistryOK
<1> QED
  BY <1>1, <1>2, <1>3, <1>4 DEF RegistryOK, Workers

LEMMA UnregisterType ==
  ASSUME RegistryOK, NEW p \in Ports, Unregister(p)
  PROVE  RegistryOK'
<1>1. 0 \in 0 .. MaxWorkers
  BY FleetAssumption
<1>2. (IF portState[p] \in Participating \cup {"OFFLINE"} THEN "REMOVED"
       ELSE portState[p]) \in PortState
  BY StateTypes DEF RegistryOK
<1> QED
  BY <1>1, <1>2 DEF Unregister, RegistryOK

LEMMA TakeDownType ==
  ASSUME RegistryOK, NEW p \in Ports, NEW n \in 1 .. MaxWorkers, TakeDown(p, n)
  PROVE  RegistryOK'
<1>1. (IF holder[p] = n THEN 0 ELSE holder[p]) \in 0 .. MaxWorkers
  BY FleetAssumption DEF RegistryOK
<1> QED
  BY <1>1 DEF TakeDown, RegistryOK

LEMMA CreateType ==
  ASSUME RegistryOK, NEW p \in Ports, CreateWorker(p)
  PROVE  RegistryOK'
  BY RegisterType DEF CreateWorker, registry, RegistryOK

LEMMA StopType == ASSUME RegistryOK, StopAll PROVE RegistryOK'
<1>1. 0 \in 0 .. MaxWorkers
  BY FleetAssumption
<1> QED
  BY <1>1, StateTypes DEF StopAll, RegistryOK

(* What the other variables keep.                                          *)
RestOK ==
  /\ program \in {"cli", "gui"} /\ plugged \subseteq Ports /\ plugs \in 0 .. MaxPlugs
  /\ scanning \in BOOLEAN
  /\ probing \in [Ports -> SUBSET Scanners]
  /\ failed \subseteq Ports
  /\ known \subseteq Ports
  /\ dying \subseteq Workers
  /\ failures \in 0 .. MaxFailures

StepsOK == scan \in [Scanners -> ScanType] /\ watch \in WatchType

LEMMA TypeParts == TypeOK <=> RegistryOK /\ RestOK /\ StepsOK
  BY DEF TypeOK, RegistryOK, RestOK, StepsOK

LEMMA RegistryStep == ASSUME FleetInv, [Next]_vars PROVE RegistryOK'
<1> USE DEF FleetInv
<1>1. RegistryOK
  BY TypeParts
<1>2. CASE UNCHANGED registry
  BY <1>1, <1>2 DEF registry, RegistryOK
<1>3. ASSUME NEW s \in Scanners, ScanTakesDown(s) PROVE RegistryOK'
  <2>1. scan[s].port \in Ports /\ scan[s].victim \in 1 .. MaxWorkers
    BY <1>3, FleetAssumption DEF ScanTakesDown, StepsHaveTargets, TypeOK, ScanType
  <2> QED
    BY <1>1, <1>3, <2>1, TakeDownType DEF ScanTakesDown
<1>4. ASSUME NEW s \in Scanners, CreateVerified(s) PROVE RegistryOK'
  BY <1>1, <1>4, CreateType DEF CreateVerified, StepsHaveTargets
<1>5. ASSUME NEW s \in Scanners, MarkOffline(s) PROVE RegistryOK'
  <2>1. \A p \in Ports : (IF portState[p] \in Participating /\ p \notin scan[s].detected
                         THEN "OFFLINE" ELSE portState[p]) \in PortState
    BY <1>1, StateTypes DEF RegistryOK
  <2> QED
    BY <1>1, <1>5, <2>1 DEF MarkOffline, RegistryOK
<1>6. ASSUME NEW s \in Scanners, NEW p \in Ports, RemoveGone(s, p) PROVE RegistryOK'
  BY <1>1, <1>6, UnregisterType DEF RemoveGone
<1>7. ASSUME NEW s \in Scanners, NEW p \in Ports, HandOffGood(s, p) PROVE RegistryOK'
  BY <1>1, <1>7, StateTypes DEF HandOffGood, RegistryOK
<1>8. CASE WatchTakesDown
  <2>1. watch.port \in Ports /\ watch.victim \in 1 .. MaxWorkers
    BY <1>8, FleetAssumption DEF WatchTakesDown, StepsHaveTargets, TypeOK, WatchType
  <2> QED
    BY <1>1, <1>8, <2>1, TakeDownType DEF WatchTakesDown
<1>9. ASSUME NEW p \in Ports, Appeared(p) PROVE RegistryOK'
  BY <1>1, <1>9, CreateType DEF Appeared
<1>10. ASSUME NEW p \in Ports, Gone(p) PROVE RegistryOK'
  BY <1>1, <1>10, UnregisterType DEF Gone
<1>11. CASE StopAll
  BY <1>1, <1>11, StopType
<1>12. ASSUME NEW p \in Ports, ExcludePort(p) \/ IncludePort(p) PROVE RegistryOK'
  BY <1>1, <1>12, StateTypes DEF ExcludePort, IncludePort, RegistryOK
<1>13. ASSUME NEW p \in Ports, NEW n \in 1 .. MaxWorkers, Fails(p, n) PROVE RegistryOK'
  BY <1>1, <1>2, <1>13, UnregisterType DEF Fails
<1>14. ASSUME NEW p \in Ports, NEW n \in 1 .. MaxWorkers, DyingTakenDown(p, n)
       PROVE  RegistryOK'
  BY <1>1, <1>14, TakeDownType DEF DyingTakenDown
<1>15. ASSUME NEW s \in Scanners, Enumerate(s) \/ Snapshot(s) \/ FilterCandidates(s)
       PROVE  UNCHANGED registry
  BY <1>15 DEF Enumerate, Snapshot, FilterCandidates
<1>16. ASSUME NEW s \in Scanners, NEW p \in Ports,
              ProbeOpens(s, p) \/ ProbeAnswers(s, p) \/ HandOffBad(s, p)
       PROVE  UNCHANGED registry
  BY <1>16 DEF ProbeOpens, ProbeAnswers, HandOffBad
<1>17. ASSUME NEW p \in Ports, CooldownEnds(p) \/ Plug(p) PROVE UNCHANGED registry
  BY <1>17 DEF CooldownEnds, Plug
<1>18. ASSUME Look \/ UNCHANGED vars PROVE UNCHANGED registry
  BY <1>18 DEF Look, vars
<1> QED
  BY <1>2, <1>3, <1>4, <1>5, <1>6, <1>7, <1>8, <1>9, <1>10, <1>11, <1>12, <1>13, <1>14,
     <1>15, <1>16, <1>17, <1>18 DEF Next, ScanStep, WatchStep

LEMMA RestStep == ASSUME FleetInv, [Next]_vars PROVE RestOK'
<1> USE DEF FleetInv
<1>1. RestOK
  BY TypeParts
<1>2. CASE UNCHANGED <<world, scanning, probing, failed, known, dying, failures>>
  BY <1>1, <1>2 DEF world, RestOK
<1>3. ASSUME NEW s \in Scanners,
             Enumerate(s) \/ Snapshot(s) \/ ScanTakesDown(s) \/ FilterCandidates(s)
               \/ CreateVerified(s) \/ MarkOffline(s)
       PROVE  UNCHANGED <<world, scanning, probing, failed, known, dying, failures>>
  BY <1>3 DEF Enumerate, Snapshot, ScanTakesDown, FilterCandidates, CreateVerified, MarkOffline
<1>4. ASSUME NEW s \in Scanners, NEW p \in Ports, RemoveGone(s, p) \/ HandOffGood(s, p)
       PROVE  UNCHANGED <<world, scanning, probing, failed, known, dying, failures>>
  BY <1>4 DEF RemoveGone, HandOffGood
<1>5. ASSUME NEW s \in Scanners, NEW p \in Ports, ProbeOpens(s, p) PROVE RestOK'
  BY <1>1, <1>5 DEF ProbeOpens, RestOK, world
<1>6. ASSUME NEW s \in Scanners, NEW p \in Ports, ProbeAnswers(s, p) PROVE RestOK'
  <2>1. failures' \in 0 .. MaxFailures
    BY <1>1, <1>6, FleetAssumption DEF ProbeAnswers, RestOK
  <2>2. probing' \in [Ports -> SUBSET Scanners]
    BY <1>1, <1>6 DEF ProbeAnswers, RestOK
  <2> QED
    BY <1>1, <1>6, <2>1, <2>2 DEF ProbeAnswers, RestOK, world
<1>7. ASSUME NEW s \in Scanners, NEW p \in Ports, HandOffBad(s, p) PROVE RestOK'
  BY <1>1, <1>7 DEF HandOffBad, RestOK, world
<1>8. ASSUME NEW p \in Ports, Appeared(p) \/ Gone(p)
       PROVE  UNCHANGED <<world, scanning, probing, failed, known, dying, failures>>
  BY <1>8 DEF Appeared, Gone
<1>9. ASSUME WatchTakesDown
       PROVE  UNCHANGED <<world, scanning, probing, failed, known, dying, failures>>
  BY <1>9 DEF WatchTakesDown
<1>10. CASE Look
  BY <1>1, <1>10 DEF Look, RestOK, world
<1>11. CASE StopAll
  BY <1>1, <1>11 DEF StopAll, RestOK, world
<1>12. ASSUME NEW p \in Ports, CooldownEnds(p) PROVE RestOK'
  BY <1>1, <1>12 DEF CooldownEnds, RestOK, world
<1>13. ASSUME NEW p \in Ports, ExcludePort(p) \/ IncludePort(p)
       PROVE  UNCHANGED <<world, scanning, probing, failed, known, dying, failures>>
  BY <1>13 DEF ExcludePort, IncludePort
<1>14. ASSUME NEW p \in Ports, Plug(p) PROVE RestOK'
  <2>1. plugs' \in 0 .. MaxPlugs
    BY <1>1, <1>14, FleetAssumption DEF Plug, RestOK
  <2> QED
    BY <1>1, <1>14, <2>1 DEF Plug, RestOK
<1>15. ASSUME NEW p \in Ports, NEW n \in 1 .. MaxWorkers, Fails(p, n) PROVE RestOK'
  <2>1. failures' \in 0 .. MaxFailures
    BY <1>1, <1>15, FleetAssumption DEF Fails, RestOK
  <2>2. dying' \subseteq Workers
    <3>1. registered[p] # 0 => <<p, registered[p]>> \in Workers
      BY FleetAssumption DEF TypeOK, Workers
    <3> QED
      BY <1>1, <1>15, <3>1 DEF Fails, RestOK
  <2> QED
    BY <1>1, <1>15, <2>1, <2>2 DEF Fails, RestOK, world
<1>16. ASSUME NEW p \in Ports, NEW n \in 1 .. MaxWorkers, DyingTakenDown(p, n) PROVE RestOK'
  BY <1>1, <1>16 DEF DyingTakenDown, RestOK, world
<1>17. CASE UNCHANGED vars
  BY <1>2, <1>17 DEF vars
<1> QED
  BY <1>2, <1>3, <1>4, <1>5, <1>6, <1>7, <1>8, <1>9, <1>10, <1>11, <1>12, <1>13, <1>14,
     <1>15, <1>16, <1>17 DEF Next, ScanStep, WatchStep

(* A scan's record is replaced by r.                                       *)
LEMMA ScanPart ==
  ASSUME StepsOK, StepsHaveTargets, NEW s \in Scanners, NEW r \in ScanType,
         r.pc \in {"teardown", "create"} => r.port \in Ports,
         r.pc = "teardown" => r.victim # 0,
         scan' = [scan EXCEPT ![s] = r], UNCHANGED watch
  PROVE  StepsOK' /\ StepsHaveTargets'
  BY DEF StepsOK, StepsHaveTargets

LEMMA StepsStep == ASSUME FleetInv, [Next]_vars PROVE StepsOK' /\ StepsHaveTargets'
<1> USE DEF FleetInv
<1>0. StepsOK /\ StepsHaveTargets
  BY TypeParts
<1>1. CASE UNCHANGED <<scan, watch>>
  BY <1>0, <1>1 DEF StepsOK, StepsHaveTargets
<1>a. 0 \in 0 .. MaxWorkers
  BY FleetAssumption
<1>b. \A s \in Scanners : scan[s] \in ScanType
  BY <1>0 DEF StepsOK
<1>2. ASSUME NEW s \in Scanners, Enumerate(s) PROVE StepsOK' /\ StepsHaveTargets'
  <2> DEFINE r == [scan[s] EXCEPT !.pc = "snapshot", !.detected = plugged]
  <2>1. r \in ScanType /\ r.pc = "snapshot"
    BY <1>b DEF TypeOK, ScanType, ScanSteps
  <2>2. scan' = [scan EXCEPT ![s] = r]
    BY <1>0, <1>2 DEF Enumerate, StepsOK
  <2> HIDE DEF r
  <2> QED
    BY <1>0, <1>2, <2>1, <2>2, ScanPart DEF Enumerate
<1>3. ASSUME NEW s \in Scanners, Snapshot(s) PROVE StepsOK' /\ StepsHaveTargets'
  <2> DEFINE r == [scan[s] EXCEPT
                   !.pc = "remove",
                   !.current = {p \in Ports : registered[p] # 0},
                   !.skip = {p \in Ports : portState[p] \in Participating},
                   !.todo = {p \in Ports : registered[p] # 0} \ scan[s].detected]
  <2>1. r \in ScanType /\ r.pc = "remove"
    BY <1>b DEF TypeOK, ScanType, ScanSteps
  <2>2. scan' = [scan EXCEPT ![s] = r]
    BY <1>0, <1>3 DEF Snapshot, StepsOK
  <2> HIDE DEF r
  <2> QED
    BY <1>0, <1>3, <2>1, <2>2, ScanPart DEF Snapshot
<1>4. ASSUME NEW s \in Scanners, ScanTakesDown(s) PROVE StepsOK' /\ StepsHaveTargets'
  <2> DEFINE r == [scan[s] EXCEPT !.pc = "remove", !.port = NoPort, !.victim = 0]
  <2>1. r \in ScanType /\ r.pc = "remove"
    BY <1>b, <1>a DEF TypeOK, ScanType, ScanSteps
  <2>2. scan' = [scan EXCEPT ![s] = r]
    BY <1>0, <1>4 DEF ScanTakesDown, StepsOK
  <2> HIDE DEF r
  <2> QED
    BY <1>0, <1>4, <2>1, <2>2, ScanPart DEF ScanTakesDown
<1>5. ASSUME NEW s \in Scanners, FilterCandidates(s) PROVE StepsOK' /\ StepsHaveTargets'
  <2> DEFINE r == [scan[s] EXCEPT
                   !.pc = "probe",
                   !.todo = (scan[s].detected \cap Candidates) \ (scan[s].skip \cup failed),
                   !.skip = {}, !.port = NoPort]
  <2>1. r \in ScanType /\ r.pc = "probe"
    BY <1>b DEF TypeOK, ScanType, ScanSteps
  <2>2. scan' = [scan EXCEPT ![s] = r]
    BY <1>0, <1>5 DEF FilterCandidates, StepsOK
  <2> HIDE DEF r
  <2> QED
    BY <1>0, <1>5, <2>1, <2>2, ScanPart DEF FilterCandidates
<1>6. ASSUME NEW s \in Scanners, CreateVerified(s) PROVE StepsOK' /\ StepsHaveTargets'
  <2> DEFINE r == [scan[s] EXCEPT !.pc = "probe", !.port = NoPort]
  <2>1. r \in ScanType /\ r.pc = "probe"
    BY <1>b DEF TypeOK, ScanType, ScanSteps
  <2>2. scan' = [scan EXCEPT ![s] = r]
    BY <1>0, <1>6 DEF CreateVerified, StepsOK
  <2> HIDE DEF r
  <2> QED
    BY <1>0, <1>6, <2>1, <2>2, ScanPart DEF CreateVerified
<1>7. ASSUME NEW s \in Scanners, MarkOffline(s) PROVE StepsOK' /\ StepsHaveTargets'
  <2>1. NoScan \in ScanType /\ NoScan.pc = "idle"
    BY <1>a DEF NoScan, ScanType, ScanSteps
  <2> QED
    BY <1>0, <1>7, <2>1 DEF MarkOffline, StepsOK, StepsHaveTargets
<1>8. ASSUME NEW s \in Scanners, NEW p \in Ports, RemoveGone(s, p)
      PROVE  StepsOK' /\ StepsHaveTargets'
  <2>1. registered[p] \in 0 .. MaxWorkers
    BY DEF TypeOK
  <2> QED
    BY <1>0, <1>8, <2>1 DEF RemoveGone, StepsOK, StepsHaveTargets, ScanType, ScanSteps
<1>9. ASSUME NEW s \in Scanners, NEW p \in Ports, ProbeOpens(s, p)
      PROVE  StepsOK' /\ StepsHaveTargets'
  BY <1>0, <1>9 DEF ProbeOpens, StepsOK, StepsHaveTargets, ScanType, ScanSteps
<1>10. ASSUME NEW s \in Scanners, NEW p \in Ports, ProbeAnswers(s, p)
       PROVE  StepsOK' /\ StepsHaveTargets'
  <2> DEFINE good == [scan[s] EXCEPT !.good = @ \cup {p}]
             bad == [scan[s] EXCEPT !.bad = @ \cup {p}]
  <2>1. \A r \in {good, bad} :
          /\ r \in ScanType
          /\ r.pc = scan[s].pc /\ r.port = scan[s].port /\ r.victim = scan[s].victim
    BY <1>b DEF ScanType
  <2>2. \E r \in {good, bad} : scan' = [scan EXCEPT ![s] = r]
    BY <1>0, <1>10 DEF ProbeAnswers, StepsOK
  <2> HIDE DEF good, bad
  <2>3. PICK r \in {good, bad} : scan' = [scan EXCEPT ![s] = r]
    BY <2>2
  <2>4. /\ r.pc \in {"teardown", "create"} => r.port \in Ports
        /\ r.pc = "teardown" => r.victim # 0
    BY <1>0, <2>1 DEF StepsHaveTargets
  <2>5. r \in ScanType /\ UNCHANGED watch
    BY <1>10, <2>1 DEF ProbeAnswers
  <2> QED
    BY <1>0, <2>3, <2>4, <2>5, ScanPart
<1>11. ASSUME NEW s \in Scanners, NEW p \in Ports, HandOffBad(s, p)
       PROVE  StepsOK' /\ StepsHaveTargets'
  BY <1>0, <1>11 DEF HandOffBad, StepsOK, StepsHaveTargets, ScanType, ScanSteps
<1>12. ASSUME NEW s \in Scanners, NEW p \in Ports, HandOffGood(s, p)
       PROVE  StepsOK' /\ StepsHaveTargets'
  BY <1>0, <1>12 DEF HandOffGood, StepsOK, StepsHaveTargets, ScanType, ScanSteps
<1>13. CASE Look
  BY <1>0, <1>13 DEF Look, TypeOK, StepsOK, StepsHaveTargets, WatchType, NoWatch
<1>14. ASSUME NEW p \in Ports, Appeared(p) PROVE StepsOK' /\ StepsHaveTargets'
  BY <1>0, <1>14 DEF Appeared, StepsOK, StepsHaveTargets, WatchType
<1>15. ASSUME NEW p \in Ports, Gone(p) PROVE StepsOK' /\ StepsHaveTargets'
  <2>1. registered[p] \in 0 .. MaxWorkers
    BY DEF TypeOK
  <2> QED
    BY <1>0, <1>15, <2>1 DEF Gone, StepsOK, StepsHaveTargets, WatchType, WatchSteps
<1>16. CASE WatchTakesDown
  BY <1>0, <1>a, <1>16 DEF WatchTakesDown, StepsOK, StepsHaveTargets, WatchType, WatchSteps
<1>17. CASE StopAll
  BY <1>1, <1>17 DEF StopAll
<1>18. ASSUME NEW p \in Ports, CooldownEnds(p) \/ ExcludePort(p) \/ IncludePort(p) \/ Plug(p)
       PROVE  UNCHANGED <<scan, watch>>
  BY <1>18 DEF CooldownEnds, ExcludePort, IncludePort, Plug
<1>19. ASSUME NEW p \in Ports, NEW n \in 1 .. MaxWorkers, Fails(p, n) \/ DyingTakenDown(p, n)
       PROVE  UNCHANGED <<scan, watch>>
  BY <1>19 DEF Fails, DyingTakenDown
<1>20. CASE UNCHANGED vars
  BY <1>1, <1>20 DEF vars
<1> QED
  BY <1>1, <1>2, <1>3, <1>4, <1>5, <1>6, <1>7, <1>8, <1>9, <1>10, <1>11, <1>12, <1>13, <1>14,
     <1>15, <1>16, <1>17, <1>18, <1>19, <1>20 DEF Next, ScanStep, WatchStep

-----------------------------------------------------------------------------
(* A participating port is registered.                                     *)

LEMMA ParticipatingStep == ASSUME FleetInv, [Next]_vars PROVE ParticipatingIsRegistered'
<1> USE DEF FleetInv
<1>0. RegistryOK /\ ParticipatingIsRegistered
  BY TypeParts
<1>1. CASE UNCHANGED <<registered, portState>>
  BY <1>0, <1>1 DEF ParticipatingIsRegistered
<1>2. ASSUME NEW p \in Ports, Unregister(p) PROVE ParticipatingIsRegistered'
  BY <1>0, <1>2 DEF Unregister, RegistryOK, ParticipatingIsRegistered, Participating
<1>3. ASSUME NEW p \in Ports, CreateWorker(p) PROVE ParticipatingIsRegistered'
  <2>1. CASE UNCHANGED registry
    BY <1>1, <2>1 DEF registry
  <2>2. CASE Register(p)
    BY <1>0, <2>2 DEF Register, Fresh, RegistryOK, ParticipatingIsRegistered
  <2> QED
    BY <1>3, <2>1, <2>2 DEF CreateWorker
<1>4. ASSUME NEW s \in Scanners, CreateVerified(s) PROVE ParticipatingIsRegistered'
  BY <1>3, <1>4 DEF CreateVerified, StepsHaveTargets
<1>5. ASSUME NEW s \in Scanners, MarkOffline(s) PROVE ParticipatingIsRegistered'
  BY <1>0, <1>5 DEF MarkOffline, RegistryOK, ParticipatingIsRegistered, Participating
<1>6. ASSUME NEW s \in Scanners, NEW p \in Ports, RemoveGone(s, p)
      PROVE  ParticipatingIsRegistered'
  BY <1>2, <1>6 DEF RemoveGone
<1>7. ASSUME NEW s \in Scanners, NEW p \in Ports, HandOffGood(s, p)
      PROVE  ParticipatingIsRegistered'
  BY <1>0, <1>7 DEF HandOffGood, RegistryOK, ParticipatingIsRegistered, Participating
<1>8. ASSUME NEW p \in Ports, Appeared(p) \/ Gone(p) PROVE ParticipatingIsRegistered'
  BY <1>2, <1>3, <1>8 DEF Appeared, Gone
<1>9. CASE StopAll
  BY <1>0, <1>9 DEF StopAll, ParticipatingIsRegistered, Participating
<1>10. ASSUME NEW p \in Ports, ExcludePort(p) \/ IncludePort(p)
       PROVE  ParticipatingIsRegistered'
  BY <1>0, <1>10 DEF ExcludePort, IncludePort, RegistryOK, ParticipatingIsRegistered, Participating
<1>11. ASSUME NEW p \in Ports, NEW n \in 1 .. MaxWorkers, Fails(p, n)
       PROVE  ParticipatingIsRegistered'
  BY <1>1, <1>2, <1>11 DEF Fails, registry
<1>12. ASSUME NEW s \in Scanners,
              Enumerate(s) \/ Snapshot(s) \/ FilterCandidates(s) \/ ScanTakesDown(s)
       PROVE  UNCHANGED <<registered, portState>>
  BY <1>12 DEF Enumerate, Snapshot, FilterCandidates, ScanTakesDown, TakeDown, registry
<1>13. ASSUME NEW s \in Scanners, NEW p \in Ports,
              ProbeOpens(s, p) \/ ProbeAnswers(s, p) \/ HandOffBad(s, p)
       PROVE  UNCHANGED <<registered, portState>>
  BY <1>13 DEF ProbeOpens, ProbeAnswers, HandOffBad, registry
<1>14. ASSUME NEW p \in Ports, NEW n \in 1 .. MaxWorkers,
              CooldownEnds(p) \/ Plug(p) \/ DyingTakenDown(p, n)
       PROVE  UNCHANGED <<registered, portState>>
  BY <1>14 DEF CooldownEnds, Plug, DyingTakenDown, TakeDown, registry
<1>15. ASSUME Look \/ WatchTakesDown \/ UNCHANGED vars
       PROVE  UNCHANGED <<registered, portState>>
  BY <1>15 DEF Look, WatchTakesDown, TakeDown, vars, registry
<1>16. MaxWorkers \in 1 .. MaxWorkers
  BY FleetAssumption
<1> QED
  BY <1>1, <1>4, <1>5, <1>6, <1>7, <1>8, <1>9, <1>10, <1>11, <1>12, <1>13, <1>14, <1>15, <1>16
  DEF Next, ScanStep, WatchStep

-----------------------------------------------------------------------------
(* Every worker that runs has one owner.                                   *)

(* What a step changes of who takes whom down.                             *)
OthersKeep(p, n) ==
  \A q \in Ports, k \in 1 .. MaxWorkers :
    <<q, k>> # <<p, n>> => Undertakers(q, k)' = Undertakers(q, k)

SameTeardowns ==
  \A s \in Scanners :
    /\ scan'[s].pc = "teardown" <=> scan[s].pc = "teardown"
    /\ scan[s].pc = "teardown" => /\ scan'[s].port = scan[s].port
                                  /\ scan'[s].victim = scan[s].victim

LEMMA TeardownsSame ==
  ASSUME SameTeardowns, UNCHANGED <<watch, dying>>
  PROVE  SameUndertakers
  BY DEF SameTeardowns, SameUndertakers, Undertakers

LEMMA OwnedSame ==
  ASSUME Owned, SameUndertakers, UNCHANGED <<registered, alive, holder>>,
         alive \subseteq Workers
  PROVE  Owned'
<1>1. RegisteredRuns'
  BY DEF Owned, RegisteredRuns
<1>2. NoLeaks'
  BY DEF Owned, NoLeaks, SameUndertakers, Workers
<1>3. OneUndertaker'
  <2> SUFFICES ASSUME NEW q \in Ports, NEW k \in 1 .. MaxWorkers
               PROVE  /\ \A x, y \in Undertakers(q, k)' : x = y
                      /\ Undertakers(q, k)' # {} => <<q, k>> \in alive' /\ registered'[q] # k
    BY DEF OneUndertaker
  <2>1. Undertakers(q, k)' = Undertakers(q, k)
    BY DEF SameUndertakers
  <2> QED
    BY <2>1 DEF Owned, OneUndertaker
<1> QED
  BY <1>1, <1>2, <1>3 DEF Owned

LEMMA OwnedRegister ==
  ASSUME RegistryOK, Owned, NEW p \in Ports, registered[p] = 0, Register(p), SameUndertakers
  PROVE  Owned'
<1>1. PICK n \in Fresh(p) :
        /\ registered' = [registered EXCEPT ![p] = n]
        /\ alive' = alive \cup {<<p, n>>}
        /\ holder' = [holder EXCEPT ![p] = IF p \in plugged /\ Free(p) THEN n ELSE @]
  BY DEF Register
<1>2. n \in 1 .. MaxWorkers /\ <<p, n>> \notin alive /\ n # 0
  BY FleetAssumption DEF Fresh
<1>3. RegisteredRuns'
  BY <1>1 DEF Owned, RegisteredRuns, RegistryOK
<1>4. NoLeaks'
  <2>1. ASSUME NEW w \in alive' PROVE (registered[w[1]] = w[2] \/ Undertakers(w[1], w[2]) # {})'
    BY <1>1, <1>2, <2>1 DEF Owned, NoLeaks, SameUndertakers, RegistryOK, Workers
  <2>2. ASSUME NEW q \in Ports, holder'[q] # 0 PROVE <<q, holder'[q]>> \in alive'
    BY <1>1, <1>2, <2>2 DEF Owned, NoLeaks, RegistryOK
  <2> QED
    BY <2>1, <2>2 DEF NoLeaks
<1>5. OneUndertaker'
  <2> SUFFICES ASSUME NEW q \in Ports, NEW k \in 1 .. MaxWorkers
               PROVE  /\ \A x, y \in Undertakers(q, k)' : x = y
                      /\ Undertakers(q, k)' # {} => <<q, k>> \in alive' /\ registered'[q] # k
    BY DEF OneUndertaker
  <2>1. Undertakers(q, k)' = Undertakers(q, k)
    BY DEF SameUndertakers
  <2>2. Undertakers(p, n) = {}
    BY <1>2 DEF Owned, OneUndertaker
  <2>3. CASE q = p /\ k = n
    BY <2>1, <2>2, <2>3
  <2>4. CASE ~(q = p /\ k = n)
    BY <1>1, <1>2, <2>1, <2>4 DEF Owned, OneUndertaker, RegistryOK
  <2> QED
    BY <2>3, <2>4
<1> QED
  BY <1>3, <1>4, <1>5 DEF Owned

LEMMA OwnedUnregister ==
  ASSUME RegistryOK, Owned, NEW p \in Ports, NEW n \in 1 .. MaxWorkers,
         registered[p] = n, Unregister(p), NEW a,
         Undertakers(p, n)' = Undertakers(p, n) \cup {a}, OthersKeep(p, n)
  PROVE  Owned'
<1>1. <<p, n>> \in alive
  BY FleetAssumption DEF Owned, RegisteredRuns
<1>2. /\ registered' = [registered EXCEPT ![p] = 0]
      /\ alive' = alive /\ holder' = holder
  BY DEF Unregister
<1>3. Undertakers(p, n)' = {a}
  BY <1>1 DEF Owned, OneUndertaker
<1>4. RegisteredRuns'
  BY <1>2 DEF Owned, RegisteredRuns, RegistryOK
<1>5. NoLeaks'
  <2>1. ASSUME NEW w \in alive PROVE (registered[w[1]] = w[2] \/ Undertakers(w[1], w[2]) # {})'
    <3>1. PICK q \in Ports, k \in 1 .. MaxWorkers : w = <<q, k>>
      BY DEF RegistryOK, Workers
    <3>2. CASE q = p /\ k = n
      BY <1>3, <3>1, <3>2
    <3>3. CASE ~(q = p /\ k = n)
      <4>1. Undertakers(q, k)' = Undertakers(q, k)
        BY <3>3 DEF OthersKeep
      <4>2. registered[q] = k \/ Undertakers(q, k) # {}
        BY <3>1 DEF Owned, NoLeaks
      <4> QED
        BY <1>2, <3>1, <3>3, <4>1, <4>2 DEF RegistryOK
    <3> QED
      BY <3>2, <3>3
  <2> QED
    BY <1>2, <2>1 DEF Owned, NoLeaks
<1>6. OneUndertaker'
  <2> SUFFICES ASSUME NEW q \in Ports, NEW k \in 1 .. MaxWorkers
               PROVE  /\ \A x, y \in Undertakers(q, k)' : x = y
                      /\ Undertakers(q, k)' # {} => <<q, k>> \in alive' /\ registered'[q] # k
    BY DEF OneUndertaker
  <2>1. CASE q = p /\ k = n
    BY <1>1, <1>2, <1>3, <2>1, FleetAssumption DEF RegistryOK
  <2>2. CASE ~(q = p /\ k = n)
    <3>1. Undertakers(q, k)' = Undertakers(q, k)
      BY <2>2 DEF OthersKeep
    <3> QED
      BY <1>2, <3>1, FleetAssumption DEF Owned, OneUndertaker, RegistryOK
  <2> QED
    BY <2>1, <2>2
<1> QED
  BY <1>4, <1>5, <1>6 DEF Owned

LEMMA OwnedTakeDown ==
  ASSUME RegistryOK, Owned, NEW p \in Ports, NEW n \in 1 .. MaxWorkers, TakeDown(p, n),
         Undertakers(p, n) # {}, Undertakers(p, n)' = {}, OthersKeep(p, n)
  PROVE  Owned'
<1>1. /\ alive' = alive \ {<<p, n>>} /\ registered' = registered
      /\ holder' = [holder EXCEPT ![p] = IF @ = n THEN 0 ELSE @]
  BY DEF TakeDown
<1>2. registered[p] # n
  BY DEF Owned, OneUndertaker
<1>3. RegisteredRuns'
  BY <1>1, <1>2 DEF Owned, RegisteredRuns, RegistryOK
<1>4. NoLeaks'
  <2>1. ASSUME NEW w \in alive' PROVE (registered[w[1]] = w[2] \/ Undertakers(w[1], w[2]) # {})'
    <3>1. PICK q \in Ports, k \in 1 .. MaxWorkers : w = <<q, k>>
      BY <1>1 DEF RegistryOK, Workers
    <3>2. Undertakers(q, k)' = Undertakers(q, k)
      BY <1>1, <3>1 DEF OthersKeep
    <3> QED
      BY <1>1, <3>1, <3>2 DEF Owned, NoLeaks
  <2>2. ASSUME NEW q \in Ports, holder'[q] # 0 PROVE <<q, holder'[q]>> \in alive'
    BY <1>1, <2>2 DEF Owned, NoLeaks, RegistryOK
  <2> QED
    BY <2>1, <2>2 DEF NoLeaks
<1>5. OneUndertaker'
  <2> SUFFICES ASSUME NEW q \in Ports, NEW k \in 1 .. MaxWorkers
               PROVE  /\ \A x, y \in Undertakers(q, k)' : x = y
                      /\ Undertakers(q, k)' # {} => <<q, k>> \in alive' /\ registered'[q] # k
    BY DEF OneUndertaker
  <2>1. CASE q = p /\ k = n
    BY <2>1
  <2>2. CASE ~(q = p /\ k = n)
    <3>1. Undertakers(q, k)' = Undertakers(q, k)
      BY <2>2 DEF OthersKeep
    <3> QED
      BY <1>1, <2>2, <3>1 DEF Owned, OneUndertaker
  <2> QED
    BY <2>1, <2>2
<1> QED
  BY <1>3, <1>4, <1>5 DEF Owned

LEMMA OwnedStop ==
  ASSUME RegistryOK, Owned, StopAll, SameUndertakers
  PROVE  Owned'
<1>1. /\ alive' = {w \in alive : registered[w[1]] # w[2]}
      /\ registered' = [p \in Ports |-> 0]
      /\ holder' = [p \in Ports |-> IF holder[p] = registered[p] THEN 0 ELSE holder[p]]
  BY DEF StopAll
<1>2. RegisteredRuns'
  BY <1>1 DEF RegisteredRuns
<1>3. NoLeaks'
  <2>1. ASSUME NEW w \in alive' PROVE Undertakers(w[1], w[2])' # {}
    BY <1>1 DEF Owned, NoLeaks, SameUndertakers, RegistryOK, Workers
  <2>2. ASSUME NEW q \in Ports, holder'[q] # 0 PROVE <<q, holder'[q]>> \in alive'
    BY <1>1, <2>2 DEF Owned, NoLeaks
  <2> QED
    BY <2>1, <2>2 DEF NoLeaks
<1>4. OneUndertaker'
  <2> SUFFICES ASSUME NEW q \in Ports, NEW k \in 1 .. MaxWorkers
               PROVE  /\ \A x, y \in Undertakers(q, k)' : x = y
                      /\ Undertakers(q, k)' # {} => <<q, k>> \in alive' /\ registered'[q] # k
    BY DEF OneUndertaker
  <2>1. Undertakers(q, k)' = Undertakers(q, k)
    BY DEF SameUndertakers
  <2> QED
    BY <1>1, <2>1, FleetAssumption DEF Owned, OneUndertaker
<1> QED
  BY <1>2, <1>3, <1>4 DEF Owned

(* destroy_worker by a: if the port has a worker, a takes it down.         *)
LEMMA OwnedDestroy ==
  ASSUME RegistryOK, Owned, NEW p \in Ports, Unregister(p), NEW a,
         registered[p] = 0 => SameUndertakers,
         \A n \in 1 .. MaxWorkers : registered[p] = n =>
           Undertakers(p, n)' = Undertakers(p, n) \cup {a} /\ OthersKeep(p, n)
  PROVE  Owned'
<1>1. CASE registered[p] = 0
  <2>1. UNCHANGED <<registered, alive, holder>>
    BY <1>1 DEF Unregister, RegistryOK
  <2> QED
    BY <1>1, <2>1, OwnedSame DEF RegistryOK
<1>2. CASE registered[p] # 0
  <2>1. PICK n \in 1 .. MaxWorkers : registered[p] = n
    BY <1>2, FleetAssumption DEF RegistryOK
  <2> QED
    BY <2>1, OwnedUnregister
<1> QED
  BY <1>1, <1>2

LEMMA OwnedCreate ==
  ASSUME RegistryOK, Owned, NEW p \in Ports, CreateWorker(p), SameUndertakers
  PROVE  Owned'
<1>1. CASE UNCHANGED registry
  BY <1>1, OwnedSame DEF registry, RegistryOK
<1>2. CASE registered[p] = 0 /\ Register(p)
  BY <1>2, OwnedRegister
<1> QED
  BY <1>1, <1>2 DEF CreateWorker

LEMMA ScansSame == ASSUME FleetInv, [Next]_vars PROVE
  \/ SameUndertakers
  \/ \E s \in Scanners : ScanTakesDown(s) \/ \E p \in Ports : RemoveGone(s, p)
  \/ WatchTakesDown \/ \E p \in Ports : Gone(p)
  \/ \E p \in Ports, n \in 1 .. MaxWorkers : Fails(p, n) \/ DyingTakenDown(p, n)
<1> USE DEF FleetInv
<1>0. StepsOK
  BY TypeParts
<1>1. ASSUME SameTeardowns, UNCHANGED <<watch, dying>> PROVE SameUndertakers
  BY <1>1, TeardownsSame
<1>2. ASSUME UNCHANGED <<scan, watch, dying>> PROVE SameUndertakers
  BY <1>1, <1>2 DEF SameTeardowns
<1>3. ASSUME NEW s \in Scanners, Enumerate(s) PROVE SameUndertakers
  BY <1>0, <1>1, <1>3 DEF Enumerate, SameTeardowns, StepsOK, ScanType
<1>4. ASSUME NEW s \in Scanners, Snapshot(s) PROVE SameUndertakers
  BY <1>0, <1>1, <1>4 DEF Snapshot, SameTeardowns, StepsOK, ScanType
<1>5. ASSUME NEW s \in Scanners, FilterCandidates(s) PROVE SameUndertakers
  BY <1>0, <1>1, <1>5 DEF FilterCandidates, SameTeardowns, StepsOK, ScanType
<1>6. ASSUME NEW s \in Scanners, CreateVerified(s) PROVE SameUndertakers
  BY <1>0, <1>1, <1>6 DEF CreateVerified, SameTeardowns, StepsOK, ScanType
<1>7. ASSUME NEW s \in Scanners, MarkOffline(s) PROVE SameUndertakers
  BY <1>0, <1>1, <1>7 DEF MarkOffline, Probed, SameTeardowns, StepsOK, NoScan
<1>8. ASSUME NEW s \in Scanners, NEW p \in Ports, ProbeOpens(s, p) PROVE SameUndertakers
  BY <1>0, <1>1, <1>8 DEF ProbeOpens, SameTeardowns, StepsOK, ScanType
<1>9. ASSUME NEW s \in Scanners, NEW p \in Ports, ProbeAnswers(s, p) PROVE SameUndertakers
  BY <1>0, <1>1, <1>9 DEF ProbeAnswers, SameTeardowns, StepsOK, ScanType
<1>10. ASSUME NEW s \in Scanners, NEW p \in Ports, HandOffBad(s, p) PROVE SameUndertakers
  BY <1>0, <1>1, <1>10 DEF HandOffBad, SameTeardowns, StepsOK, ScanType
<1>11. ASSUME NEW s \in Scanners, NEW p \in Ports, HandOffGood(s, p) PROVE SameUndertakers
  BY <1>0, <1>1, <1>11 DEF HandOffGood, Probed, SameTeardowns, StepsOK, ScanType
<1>12. CASE Look
  BY <1>0, <1>12 DEF Look, NoWatch, SameUndertakers, Undertakers, StepsOK, WatchType
<1>13. ASSUME NEW p \in Ports, Appeared(p) PROVE SameUndertakers
  BY <1>0, <1>13 DEF Appeared, SameUndertakers, Undertakers, StepsOK, WatchType
<1>14. ASSUME NEW p \in Ports, CooldownEnds(p) \/ ExcludePort(p) \/ IncludePort(p) \/ Plug(p)
       PROVE  SameUndertakers
  BY <1>2, <1>14 DEF CooldownEnds, ExcludePort, IncludePort, Plug
<1>15. ASSUME StopAll \/ UNCHANGED vars PROVE SameUndertakers
  BY <1>2, <1>15 DEF StopAll, vars
<1> QED
  BY <1>3, <1>4, <1>5, <1>6, <1>7, <1>8, <1>9, <1>10, <1>11, <1>12, <1>13, <1>14, <1>15
  DEF Next, ScanStep, WatchStep

LEMMA OwnedStep == ASSUME FleetInv, [Next]_vars PROVE Owned'
<1> USE DEF FleetInv
<1>0. RegistryOK /\ StepsOK /\ Owned /\ alive \subseteq Workers
  BY TypeParts DEF RegistryOK
<1>1. ASSUME NEW s \in Scanners, NEW p \in Ports, RemoveGone(s, p) PROVE Owned'
  <2>1. scan[s].pc = "remove" /\ Unregister(p) /\ UNCHANGED <<watch, dying>>
    BY <1>1 DEF RemoveGone
  <2>2. registered[p] # 0 => scan'[s].port = p /\ scan'[s].victim = registered[p]
    BY <1>0, <1>1 DEF RemoveGone, StepsOK, ScanType
  <2>3. scan'[s].pc = IF registered[p] # 0 THEN "teardown" ELSE "remove"
    BY <1>0, <1>1 DEF RemoveGone, StepsOK, ScanType
  <2>4. \A x \in Scanners \ {s} : scan'[x] = scan[x]
    BY <1>0, <1>1 DEF RemoveGone, StepsOK
  <2>5. registered[p] = 0 => SameUndertakers
    BY <2>1, <2>3, <2>4, TeardownsSame DEF SameTeardowns
  <2>6. ASSUME NEW n \in 1 .. MaxWorkers, registered[p] = n
        PROVE  Undertakers(p, n)' = Undertakers(p, n) \cup {s} /\ OthersKeep(p, n)
    <3>1. scan'[s].pc = "teardown" /\ scan'[s].port = p /\ scan'[s].victim = n
      BY <2>2, <2>3, <2>6
    <3>2. Undertakers(p, n)' = Undertakers(p, n) \cup {s}
      BY <2>1, <2>4, <3>1 DEF Undertakers
    <3>3. OthersKeep(p, n)
      BY <2>1, <2>4, <3>1 DEF OthersKeep, Undertakers
    <3> QED
      BY <3>2, <3>3
  <2> QED
    BY <1>0, <2>1, <2>5, <2>6, OwnedDestroy
<1>2. ASSUME NEW s \in Scanners, ScanTakesDown(s) PROVE Owned'
  <2>1. PICK p \in Ports, n \in 1 .. MaxWorkers :
          p = scan[s].port /\ n = scan[s].victim
    BY <1>0, <1>2, FleetAssumption DEF ScanTakesDown, StepsHaveTargets, StepsOK, ScanType
  <2>2. scan[s].pc = "teardown" /\ TakeDown(p, n) /\ UNCHANGED <<watch, dying>>
    BY <1>2, <2>1 DEF ScanTakesDown
  <2>3. scan'[s].pc = "remove" /\ \A x \in Scanners \ {s} : scan'[x] = scan[x]
    BY <1>0, <1>2 DEF ScanTakesDown, StepsOK, ScanType
  <2>4. Undertakers(p, n) = {s}
    <3>1. s \in Undertakers(p, n)
      BY <2>1, <2>2 DEF Undertakers
    <3>2. \A x, y \in Undertakers(p, n) : x = y
      BY <1>0 DEF Owned, OneUndertaker
    <3> QED
      BY <3>1, <3>2
  <2>5. Undertakers(p, n)' = {}
    BY <2>2, <2>3, <2>4 DEF Undertakers, Scanners
  <2>6. OthersKeep(p, n)
    BY <2>1, <2>2, <2>3 DEF OthersKeep, Undertakers
  <2> QED
    BY <1>0, <2>2, <2>4, <2>5, <2>6, OwnedTakeDown
<1>3. ASSUME NEW p \in Ports, Gone(p) PROVE Owned'
  <2>1. Unregister(p) /\ UNCHANGED <<scan, dying>> /\ watch.pc = "events"
    BY <1>3 DEF Gone
  <2>2. registered[p] = 0 => watch'.pc = "events"
    BY <1>0, <1>3 DEF Gone, StepsOK, WatchType
  <2>3. registered[p] # 0 => /\ watch'.pc = "teardown" /\ watch'.port = p
                            /\ watch'.victim = registered[p]
    BY <1>0, <1>3 DEF Gone, StepsOK, WatchType
  <2>4. registered[p] = 0 => SameUndertakers
    BY <2>1, <2>2 DEF SameUndertakers, Undertakers
  <2>5. ASSUME NEW n \in 1 .. MaxWorkers, registered[p] = n
        PROVE  Undertakers(p, n)' = Undertakers(p, n) \cup {"watch"} /\ OthersKeep(p, n)
    <3>1. watch'.pc = "teardown" /\ watch'.port = p /\ watch'.victim = n
      BY <2>3, <2>5
    <3> QED
      BY <2>1, <3>1 DEF OthersKeep, Undertakers
  <2> QED
    BY <1>0, <2>1, <2>4, <2>5, OwnedDestroy
<1>4. CASE WatchTakesDown
  <2>1. PICK p \in Ports, n \in 1 .. MaxWorkers :
          p = watch.port /\ n = watch.victim
    BY <1>0, <1>4, FleetAssumption DEF WatchTakesDown, StepsHaveTargets, StepsOK, WatchType
  <2>2. watch.pc = "teardown" /\ TakeDown(p, n) /\ UNCHANGED <<scan, dying>>
    BY <1>4, <2>1 DEF WatchTakesDown
  <2>3. watch'.pc = "events"
    BY <1>0, <1>4 DEF WatchTakesDown, StepsOK, WatchType
  <2>4. Undertakers(p, n) = {"watch"}
    <3>1. "watch" \in Undertakers(p, n)
      BY <2>1, <2>2 DEF Undertakers
    <3>2. \A x, y \in Undertakers(p, n) : x = y
      BY <1>0 DEF Owned, OneUndertaker
    <3> QED
      BY <3>1, <3>2
  <2>5. Undertakers(p, n)' = {}
    BY <2>2, <2>3, <2>4 DEF Undertakers, Scanners
  <2>6. OthersKeep(p, n)
    BY <2>1, <2>2, <2>3 DEF OthersKeep, Undertakers
  <2> QED
    BY <1>0, <2>2, <2>4, <2>5, <2>6, OwnedTakeDown
<1>5. ASSUME NEW p \in Ports, NEW m \in 1 .. MaxWorkers, Fails(p, m) PROVE Owned'
  <2>1. UNCHANGED <<scan, watch>>
    BY <1>5 DEF Fails
  <2>2. CASE registered[p] = 0
    <3>1. UNCHANGED <<registered, alive, holder, dying>>
      BY <1>5, <2>2 DEF Fails, registry
    <3>2. SameUndertakers
      BY <2>1, <3>1 DEF SameUndertakers, Undertakers
    <3> QED
      BY <1>0, <3>1, <3>2, OwnedSame
  <2>3. CASE registered[p] # 0
    <3>1. Unregister(p) /\ dying' = dying \cup {<<p, registered[p]>>}
      BY <1>5, <2>3 DEF Fails
    <3>2. ASSUME NEW n \in 1 .. MaxWorkers, registered[p] = n
          PROVE  Undertakers(p, n)' = Undertakers(p, n) \cup {"worker"} /\ OthersKeep(p, n)
      BY <2>1, <3>1, <3>2 DEF OthersKeep, Undertakers
    <3> QED
      BY <1>0, <2>3, <3>1, <3>2, OwnedDestroy
  <2> QED
    BY <2>2, <2>3
<1>6. ASSUME NEW p \in Ports, NEW n \in 1 .. MaxWorkers, DyingTakenDown(p, n) PROVE Owned'
  <2>1. /\ <<p, n>> \in dying /\ dying' = dying \ {<<p, n>>}
        /\ TakeDown(p, n) /\ UNCHANGED <<scan, watch>>
    BY <1>6 DEF DyingTakenDown
  <2>2. Undertakers(p, n) = {"worker"}
    <3>1. "worker" \in Undertakers(p, n)
      BY <2>1 DEF Undertakers
    <3>2. \A x, y \in Undertakers(p, n) : x = y
      BY <1>0 DEF Owned, OneUndertaker
    <3> QED
      BY <3>1, <3>2
  <2>3. Undertakers(p, n)' = {}
    BY <2>1, <2>2 DEF Undertakers, Scanners
  <2>4. OthersKeep(p, n)
    BY <2>1 DEF OthersKeep, Undertakers
  <2> QED
    BY <1>0, <2>1, <2>2, <2>3, <2>4, OwnedTakeDown
<1>7. CASE SameUndertakers
  <2>1. CASE UNCHANGED <<registered, alive, holder>>
    BY <1>0, <1>7, <2>1, OwnedSame
  <2>2. ASSUME NEW p \in Ports, CreateWorker(p) PROVE Owned'
    BY <1>0, <1>7, <2>2, OwnedCreate
  <2>3. ASSUME NEW s \in Scanners, CreateVerified(s) PROVE Owned'
    BY <2>2, <2>3 DEF CreateVerified, StepsHaveTargets
  <2>4. CASE StopAll
    BY <1>0, <1>7, <2>4, OwnedStop
  <2>5. ASSUME NEW s \in Scanners,
               Enumerate(s) \/ Snapshot(s) \/ FilterCandidates(s) \/ MarkOffline(s)
        PROVE  UNCHANGED <<registered, alive, holder>>
    BY <2>5 DEF Enumerate, Snapshot, FilterCandidates, MarkOffline, registry
  <2>6. ASSUME NEW s \in Scanners, NEW p \in Ports,
               ProbeOpens(s, p) \/ ProbeAnswers(s, p) \/ HandOffBad(s, p) \/ HandOffGood(s, p)
        PROVE  UNCHANGED <<registered, alive, holder>>
    BY <2>6 DEF ProbeOpens, ProbeAnswers, HandOffBad, HandOffGood, registry
  <2>7. ASSUME NEW p \in Ports,
               CooldownEnds(p) \/ ExcludePort(p) \/ IncludePort(p) \/ Plug(p)
        PROVE  UNCHANGED <<registered, alive, holder>>
    BY <2>7 DEF CooldownEnds, ExcludePort, IncludePort, Plug, registry
  <2>8. ASSUME Look \/ UNCHANGED vars PROVE UNCHANGED <<registered, alive, holder>>
    BY <2>8 DEF Look, vars, registry
  <2>9. ASSUME NEW p \in Ports, Appeared(p) PROVE Owned'
    BY <2>2, <2>9 DEF Appeared
  <2> QED
    BY <1>1, <1>2, <1>3, <1>4, <1>5, <1>6, <2>1, <2>3, <2>4, <2>5, <2>6, <2>7, <2>8, <2>9
    DEF Next, ScanStep, WatchStep
<1> QED
  BY <1>1, <1>2, <1>3, <1>4, <1>5, <1>6, <1>7, ScansSame

-----------------------------------------------------------------------------
LEMMA InitInv == ASSUME Init PROVE FleetInv
<1>1. TypeOK
  <2>1. NoScan \in ScanType
    BY FleetAssumption DEF NoScan, ScanType, ScanSteps
  <2>2. NoWatch \in WatchType
    BY FleetAssumption DEF NoWatch, WatchType, WatchSteps
  <2>3. 0 \in 0 .. MaxWorkers /\ 0 \in 0 .. MaxPlugs /\ 0 \in 0 .. MaxFailures
    BY FleetAssumption
  <2>4. RegistryOK
    BY <2>3, StateTypes DEF Init, RegistryOK
  <2>5. RestOK
    BY <2>3 DEF Init, RestOK
  <2>6. StepsOK
    BY <2>1, <2>2 DEF Init, StepsOK
  <2> QED
    BY <2>4, <2>5, <2>6, TypeParts
<1>2. StepsHaveTargets
  BY DEF Init, StepsHaveTargets, NoScan, NoWatch
<1>3. ParticipatingIsRegistered
  BY DEF Init, ParticipatingIsRegistered, Participating
<1>4. Owned
  <2>1. \A p \in Ports, n \in 1 .. MaxWorkers : Undertakers(p, n) = {}
    BY DEF Init, Undertakers, NoScan, NoWatch
  <2> QED
    BY <2>1 DEF Init, Owned, RegisteredRuns, NoLeaks, OneUndertaker
<1> QED
  BY <1>1, <1>2, <1>3, <1>4 DEF FleetInv

LEMMA InvStep == ASSUME FleetInv, [Next]_vars PROVE FleetInv'
<1>1. TypeOK'
  <2>1. RegistryOK' /\ RestOK' /\ StepsOK'
    BY RegistryStep, RestStep, StepsStep
  <2> QED
    BY <2>1 DEF TypeOK, RegistryOK, RestOK, StepsOK
<1> QED
  BY <1>1, StepsStep, ParticipatingStep, OwnedStep DEF FleetInv

LEMMA Invariance == Spec => []FleetInv
<1>1. Init => FleetInv
  BY InitInv
<1>2. FleetInv /\ [Next]_vars => FleetInv'
  BY InvStep
<1> QED
  BY <1>1, <1>2, PTL DEF Spec

(* Every variable keeps its type, for every set of ports.                  *)
THEOREM FleetTypeCorrect == Spec => []TypeOK
<1>1. FleetInv => TypeOK
  BY DEF FleetInv
<1> QED
  BY <1>1, Invariance, PTL

(* The map of states never calls a port without a worker ACTIVE, EXCLUDED  *)
(* or OFFLINE.                                                             *)
THEOREM ParticipatingCorrect == Spec => []ParticipatingIsRegistered
<1>1. FleetInv => ParticipatingIsRegistered
  BY DEF FleetInv
<1> QED
  BY <1>1, Invariance, PTL

(* No worker thread and no serial handle is ever without an owner.         *)
THEOREM LeaksCorrect == Spec => []NoLeaks
<1>1. FleetInv => NoLeaks
  BY DEF FleetInv, Owned
<1> QED
  BY <1>1, Invariance, PTL

(* No worker is taken down by two threads.                                 *)
THEOREM UndertakerCorrect == Spec => []OneUndertaker
<1>1. FleetInv => OneUndertaker
  BY DEF FleetInv, Owned
<1> QED
  BY <1>1, Invariance, PTL

-----------------------------------------------------------------------------
(* The monitor of a SIM.                                                   *)

(* ParseCpin names a state for every answer, and the modem's answers are   *)
(* answers.                                                                *)
LEMMA ParseType == \A raw \in Raws : ParseCpin(raw) \in CpinState
<1> TAKE raw \in Raws
<1>1. raw \in Raws \ {"NONE", "+CPIN: NOT READY", "+CPIN: READY",
                      "+CME ERROR: SIM NOT INSERTED", "+CPIN: SIM PIN"}
        => ParseCpin(raw) = "NOT_READY"
  BY Zenon DEF ParseCpin
<1>2. /\ ParseCpin("NONE") = "UNKNOWN"
      /\ ParseCpin("+CPIN: NOT READY") = "NOT_READY"
      /\ ParseCpin("+CPIN: READY") = "READY"
      /\ ParseCpin("+CME ERROR: SIM NOT INSERTED") = "NOT_INSERTED"
      /\ ParseCpin("+CPIN: SIM PIN") = "PIN_REQUIRED"
  BY Zenon DEF ParseCpin
<1> QED
  BY <1>1, <1>2 DEF CpinState

LEMMA AnswersType ==
  ASSUME CpinTypeOK, NEW a \in Answers
  PROVE  a[1] \in Raws /\ a[2] \in 0 .. MaxGlitches
<1>1. SimAnswer(sim) \in Raws
  <2>1. SimAnswer(sim) \in {"+CPIN: READY", AbsentAnswer, "+CPIN: SIM PIN",
                           "+CPIN: NOT READY"}
    BY Zenon DEF SimAnswer
  <2> QED
    BY <2>1, CpinAssumption DEF Raws
<1>2. CASE a = <<"", glitches>>
  BY <1>2 DEF CpinTypeOK, Raws
<1>3. CASE a = <<SimAnswer(sim), glitches>>
  BY <1>1, <1>3 DEF CpinTypeOK
<1>4. CASE \E g \in Glitches : glitches < MaxGlitches /\ a = <<g, glitches + 1>>
  BY <1>4, CpinAssumption DEF CpinTypeOK
<1> QED
  BY <1>2, <1>3, <1>4 DEF Answers

-----------------------------------------------------------------------------
(* The strengthened invariant.  While the poller confirms or counts, the   *)
(* state is READY; a counter reaches its threshold only between its        *)
(* increment and the comparison that clears it.                            *)
InFlight ==
  /\ poller.pc \in {"confirm", "confirmed", "store", "weigh"} => state = "READY"
  /\ poller.pc \in {"store", "weigh"} => poller.answer \in Counted
  /\ poller.pc = "store" => poller.loaded < Threshold[poller.answer]
  /\ \A k \in Counted :
       \/ count[k] < Threshold[k]
       \/ poller.pc = "weigh" /\ poller.answer = k /\ count[k] = Threshold[k]

LastAnswer ==
  poller.pc \in {"sleep", "query", "publish", "exited"} /\ state # "READY" =>
    \/ state = poller.answer
    \/ state = "NOT_READY" /\ poller.answer = "UNKNOWN"

Told == poller.pc # "publish" => heard = state

Lateness ==
  /\ late \in {0, 1}
  /\ running => late = 0
  /\ late = 1 => poller.pc \in {"sleep", "exited"}

CpinInv == CpinTypeOK /\ InFlight /\ LastAnswer /\ Told /\ Lateness

LEMMA ThresholdType ==
         /\ Threshold \in [Counted -> Nat \ {0, 1}]
         /\ "UNKNOWN" \in Counted /\ "NOT_INSERTED" \in Counted
         /\ Counted = {"UNKNOWN", "NOT_INSERTED"} /\ Counted \subseteq CpinState
  BY CpinAssumption DEF Threshold, Counted, CpinState

LEMMA CpinInitial == ASSUME CpinInit PROVE CpinInv
<1>1. CpinTypeOK
  <2>1. poller \in PollerType
    <3>1. "sleep" \in PollSteps /\ "" \in Raws /\ "UNKNOWN" \in CpinState /\ 0 \in Nat
      BY DEF PollSteps, Raws, CpinState
    <3> QED
      BY <3>1 DEF CpinInit, PollerType
  <2>2. swaps \in 0 .. MaxSwaps /\ glitches \in 0 .. MaxGlitches
    <3>1. 0 \in 0 .. MaxSwaps /\ 0 \in 0 .. MaxGlitches
      BY CpinAssumption
    <3> QED
      BY <3>1 DEF CpinInit
  <2> QED
    BY <2>1, <2>2 DEF CpinInit, CpinTypeOK, StopSteps, CpinState
<1>2. InFlight
  <2>1. \A k \in Counted : count[k] = 0 /\ Threshold[k] \in Nat \ {0, 1}
    BY ThresholdType DEF CpinInit
  <2>2. poller.pc = "sleep"
    BY DEF CpinInit
  <2> QED
    BY <2>1, <2>2 DEF InFlight
<1> QED
  BY <1>1, <1>2 DEF CpinInv, CpinInit, LastAnswer, Told, Lateness

(* What the definition every poll ends with does to the types.             *)
LEMMA ConcludeType ==
  ASSUME CpinTypeOK, NEW new \in CpinState, Conclude(new)
  PROVE  poller' \in PollerType /\ state' \in CpinState /\ polled' \in BOOLEAN
  BY DEF CpinTypeOK, Conclude, PollerType, PollSteps

LEMMA AskType ==
  ASSUME CpinTypeOK, NEW from, NEW to \in PollSteps, Ask(from, to)
  PROVE  CpinTypeOK'
<1>1. PICK a \in Answers :
        /\ glitches' = a[2]
        /\ poller' = [poller EXCEPT !.pc = to, !.raw = a[1],
                                    !.answer = ParseCpin(a[1]), !.before = poller.answer]
  BY DEF Ask
<1>2. a[1] \in Raws /\ a[2] \in 0 .. MaxGlitches /\ ParseCpin(a[1]) \in CpinState
  BY AnswersType, ParseType
<1>3. poller' \in PollerType
  BY <1>1, <1>2 DEF CpinTypeOK, PollerType
<1> QED
  BY <1>1, <1>2, <1>3 DEF CpinTypeOK, Ask

LEMMA TypeStep == ASSUME CpinInv, [CpinNext]_cpinVars PROVE CpinTypeOK'
<1> USE DEF CpinInv
<1>1. CASE LoopTest
  BY <1>1 DEF LoopTest, CpinTypeOK, PollerType, PollSteps, modem
<1>2. CASE Query
  BY <1>2, AskType DEF Query, PollSteps
<1>3. CASE AskAgain
  BY <1>3 DEF AskAgain, CpinTypeOK, PollerType, PollSteps, modem
<1>4. CASE ConfirmQuery
  BY <1>4, AskType DEF ConfirmQuery, PollSteps
<1>5. CASE Confirmed
  <2>1. (IF poller.answer = "READY" THEN state ELSE poller.answer) \in CpinState
    BY DEF CpinTypeOK, PollerType
  <2> QED
    BY <1>5, <2>1, ConcludeType DEF Confirmed, CpinTypeOK, modem
<1>6. CASE LoadCount
  BY <1>6 DEF LoadCount, CpinTypeOK, PollerType, PollSteps, modem
<1>7. CASE StoreCount
  BY <1>7, ThresholdType DEF StoreCount, InFlight, CpinTypeOK, PollerType, PollSteps, modem
<1>8. CASE Weigh
  <2>1. count' \in [Counted -> Nat]
    BY <1>8, ThresholdType DEF Weigh, CpinTypeOK, Zeros
  <2>2. \E new \in CpinState : Conclude(new)
    BY <1>8, Zenon DEF Weigh, CpinTypeOK, CpinState
  <2>3. poller' \in PollerType /\ state' \in CpinState /\ polled' \in BOOLEAN
    BY <2>2, ConcludeType
  <2> QED
    BY <1>8, <2>1, <2>3 DEF Weigh, CpinTypeOK, modem
<1>9. CASE Accept
  <2>1. poller.answer \in CpinState
    BY DEF CpinTypeOK, PollerType
  <2>2. count' \in [Counted -> Nat]
    BY <1>9 DEF Accept, CpinTypeOK, Zeros
  <2> QED
    BY <1>9, <2>1, <2>2, ConcludeType DEF Accept, CpinTypeOK, modem
<1>10. CASE Publish
  BY <1>10 DEF Publish, CpinTypeOK, PollerType, PollSteps, modem
<1>11. CASE StopRequested
  BY <1>11 DEF StopRequested, CpinTypeOK, StopSteps, modem
<1>12. CASE JoinReturns
  BY <1>12 DEF JoinReturns, CpinTypeOK, StopSteps, modem
<1>13. CASE ResetStabilization
  BY <1>13 DEF ResetStabilization, CpinTypeOK, StopSteps, Zeros, modem
<1>14. CASE CloseSerial
  BY <1>14 DEF CloseSerial, CpinTypeOK, StopSteps, modem
<1>15. CASE SwapSim
  BY <1>15, CpinAssumption DEF SwapSim, CpinTypeOK
<1>16. CASE UNCHANGED cpinVars
  BY <1>16 DEF cpinVars, CpinTypeOK
<1> QED
  BY <1>1, <1>2, <1>3, <1>4, <1>5, <1>6, <1>7, <1>8, <1>9, <1>10, <1>11, <1>12,
     <1>13, <1>14, <1>15, <1>16 DEF CpinNext, Poll, Disconnect

(* Every action keeps the rest of the invariant; SMT is given the fields   *)
(* that the action sets.                                                   *)
LEMMA CpinStep == ASSUME CpinInv, [CpinNext]_cpinVars PROVE CpinInv'
<1>1. CpinTypeOK'
  BY TypeStep
<1> SUFFICES InFlight' /\ LastAnswer' /\ Told' /\ Lateness'
  BY <1>1 DEF CpinInv
<1> USE DEF InFlight, LastAnswer, Told, Lateness
<1>2. poller \in PollerType /\ count \in [Counted -> Nat] /\ late \in Nat
      /\ state \in CpinState
  BY DEF CpinInv, CpinTypeOK
<1>3. CASE LoopTest
  BY <1>2, <1>3, ThresholdType DEF LoopTest, CpinInv, PollerType, modem
<1>4. CASE Query
  BY <1>2, <1>4 DEF Query, Ask, CpinInv, PollerType
<1>5. CASE AskAgain
  BY <1>2, <1>5, ThresholdType DEF AskAgain, NeedsConfirmation, CpinInv, PollerType, modem
<1>6. CASE ConfirmQuery
  BY <1>2, <1>6 DEF ConfirmQuery, Ask, CpinInv, PollerType
<1>7. CASE Confirmed
  BY <1>2, <1>7, ThresholdType DEF Confirmed, Conclude, CpinInv, PollerType, modem
<1>8. CASE LoadCount
  BY <1>2, <1>8, ThresholdType DEF LoadCount, NeedsConfirmation, CpinInv, PollerType, modem
<1>9. CASE StoreCount
  BY <1>2, <1>9, ThresholdType DEF StoreCount, CpinInv, PollerType, modem
<1>10. CASE Weigh
  BY <1>2, <1>10, ThresholdType DEF Weigh, Conclude, Zeros, CpinInv, PollerType, modem
<1>11. CASE Accept
  BY <1>2, <1>11, ThresholdType DEF Accept, NeedsConfirmation, Conclude, Zeros, CpinInv,
     PollerType, modem
<1>12. CASE Publish
  BY <1>2, <1>12, ThresholdType DEF Publish, CpinInv, PollerType, modem
<1>13. CASE StopRequested
  BY <1>2, <1>13 DEF StopRequested, CpinInv
<1>14. CASE JoinReturns
  BY <1>2, <1>14 DEF JoinReturns, CpinInv
<1>15. CASE ResetStabilization
  BY <1>2, <1>15, ThresholdType DEF ResetStabilization, Zeros, CpinInv
<1>16. CASE CloseSerial
  BY <1>2, <1>16 DEF CloseSerial, CpinInv
<1>17. CASE SwapSim
  BY <1>2, <1>17 DEF SwapSim, CpinInv
<1>18. CASE UNCHANGED cpinVars
  BY <1>18 DEF cpinVars, CpinInv
<1> QED
  BY <1>3, <1>4, <1>5, <1>6, <1>7, <1>8, <1>9, <1>10, <1>11, <1>12, <1>13, <1>14,
     <1>15, <1>16, <1>17, <1>18 DEF CpinNext, Poll, Disconnect

THEOREM CpinInvariance == CpinSpec => []CpinInv
<1>1. CpinInit => CpinInv
  BY CpinInitial
<1>2. CpinInv /\ [CpinNext]_cpinVars => CpinInv'
  BY CpinStep
<1> QED
  BY <1>1, <1>2, PTL DEF CpinSpec

(* Every variable keeps its type.                                          *)
THEOREM CpinTypeCorrect == CpinSpec => []CpinTypeOK
<1>1. CpinInv => CpinTypeOK
  BY DEF CpinInv
<1> QED
  BY <1>1, CpinInvariance, PTL

(* The counters stay below their thresholds between polls, whatever        *)
(* reset_stabilization interrupts.                                         *)
THEOREM CountsCorrect == CpinSpec => []CountsBelowThreshold
<1>1. CpinInv => CountsBelowThreshold
  BY DEF CpinInv, InFlight, CountsBelowThreshold
<1> QED
  BY <1>1, CpinInvariance, PTL

(* A state other than READY is the modem's last answer.                    *)
THEOREM LastAnswerCorrect == CpinSpec => []BadStateIsLastAnswer
<1>1. CpinInv => BadStateIsLastAnswer
  BY DEF CpinInv, LastAnswer, BadStateIsLastAnswer, AtRest
<1> QED
  BY <1>1, CpinInvariance, PTL

(* Between polls the subscribers know the state.                           *)
THEOREM SubscribersCorrect == CpinSpec => []SubscribersAgree
<1>1. CpinInv => SubscribersAgree
  BY DEF CpinInv, Told, SubscribersAgree, AtRest
<1> QED
  BY <1>1, CpinInvariance, PTL

(* A stopped poller publishes at most once more.                           *)
THEOREM LateCorrect == CpinSpec => []OneLateTransition
<1>1. CpinInv => OneLateTransition
  BY DEF CpinInv, Lateness, OneLateTransition
<1> QED
  BY <1>1, CpinInvariance, PTL

-----------------------------------------------------------------------------
(* The refinement of DebouncedSim.                                         *)

LEMMA InitRefines == ASSUME CpinInit PROVE Debounced!Init
<1>1. poller.pc = "sleep" /\ state = "UNKNOWN"
  BY DEF CpinInit
<1> QED
  BY <1>1 DEF Debounced!Init, Doubtful

(* What a conclusion is in the abstract: READY is kept, given up under a   *)
(* doubt, or was not shown at all.                                         *)
LEMMA StepRefines ==
  ASSUME CpinInv, CpinInv', [CpinNext]_cpinVars
  PROVE  [Debounced!Next]_<<state, Doubtful>>
<1> USE DEF Debounced!Next, Debounced!Doubt, Debounced!Dismiss, Debounced!Drop,
            Debounced!Follow
<1>1. /\ poller \in PollerType /\ count \in [Counted -> Nat]
      /\ state \in CpinState /\ state' \in CpinState
      /\ Doubtful \in BOOLEAN /\ Doubtful' \in BOOLEAN
  BY DEF CpinInv, CpinTypeOK, Doubtful
<1>2. ASSUME state' = state PROVE Debounced!Next \/ UNCHANGED <<state, Doubtful>>
  BY <1>1, <1>2, Zenon DEF Doubtful
<1>3. ASSUME state' # state PROVE Debounced!Next
  <2>1. CASE Confirmed
    <3>1. state = "READY" /\ Doubtful
      BY <2>1 DEF Confirmed, CpinInv, InFlight, Doubtful
    <3> QED
      BY <1>1, <1>3, <3>1
  <2>2. CASE Weigh
    <3>1. poller.answer \in Counted /\ state = "READY"
          /\ count[poller.answer] >= Threshold[poller.answer]
      BY <1>1, <1>3, <2>2, ThresholdType DEF Weigh, Conclude, CpinInv, InFlight
    <3>2. count[poller.answer] > 1
      BY <1>1, <3>1, ThresholdType
    <3>3. Doubtful
      BY <2>2, <3>1, <3>2 DEF Weigh, Doubtful
    <3> QED
      BY <1>1, <1>3, <3>1, <3>3
  <2>3. CASE Accept
    <3>1. state # "READY"
      BY <1>3, <2>3 DEF Accept, NeedsConfirmation, Conclude
    <3>2. poller'.pc = "publish" /\ count' = Zeros
      BY <1>1, <1>3, <2>3 DEF Accept, Conclude, PollerType
    <3>3. ~Doubtful'
      BY <3>2 DEF Doubtful, Zeros
    <3> QED
      BY <1>1, <3>1, <3>3
  <2>4. Confirmed \/ Weigh \/ Accept
    BY <1>3 DEF CpinNext, Poll, Disconnect, LoopTest, Query, Ask, AskAgain, ConfirmQuery,
       LoadCount, StoreCount, Publish, StopRequested, JoinReturns, ResetStabilization,
       CloseSerial, SwapSim, cpinVars
  <2> QED
    BY <2>1, <2>2, <2>3, <2>4
<1> QED
  BY <1>2, <1>3

(* CpinRuntime debounces as DebouncedSim says.                             *)
THEOREM DebounceRefinement == CpinSpec => ImplementsDebounce
<1>1. CpinInit => Debounced!Init
  BY InitRefines
<1>2. CpinInv /\ CpinInv' /\ [CpinNext]_cpinVars => [Debounced!Next]_<<state, Doubtful>>
  BY StepRefines
<1> QED
  BY <1>1, <1>2, CpinInvariance, PTL DEF CpinSpec, ImplementsDebounce, Debounced!DebounceSpec

===============================================================================
