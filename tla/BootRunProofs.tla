--------------------------- MODULE BootRunProofs ---------------------------
(***************************************************************************)
(* Theorems about BootRun, for every set of inputs, of URLs and of          *)
(* statuses.                                                                *)
(***************************************************************************)
EXTENDS BootRun, TLAPS

(* The first refusal that applies to a table of at most eight exists, so    *)
(* its class is one the table lists.                                        *)
LEMMA FirstApplies ==
  ASSUME NEW table, DOMAIN table \subseteq 1..8, Refuses(table)
  PROVE  \E k \in Applying(table) : RefusalClass(table) = table[k].class
<1> DEFINE S == Applying(table)
<1>1. S \subseteq 1..8 /\ S # {}
  BY DEF Applying, Refuses
<1>2. \E k \in S : \A j \in S : k <= j
  BY <1>1, SMTT(60)
<1> QED
  BY <1>2 DEF RefusalClass

LEMMA EarlyClass ==
  ASSUME Refuses(EarlyRefusals(inp))
  PROVE  RefusalClass(EarlyRefusals(inp)) \in RefusalClasses
<1> DEFINE T == EarlyRefusals(inp)
<1>1. DOMAIN T \subseteq 1..8
  BY DEF EarlyRefusals
<1>2. PICK k \in Applying(T) : RefusalClass(T) = T[k].class
  BY <1>1, FirstApplies
<1>3. k \in 1..8
  BY <1>1 DEF Applying
<1>4. \A j \in 1..8 : T[j].class \in RefusalClasses
  BY DEF EarlyRefusals, Refusal, RefusalClasses
<1> QED
  BY <1>2, <1>3, <1>4

LEMMA LateClass ==
  ASSUME Refuses(LateRefusals(inp))
  PROVE  RefusalClass(LateRefusals(inp)) \in RefusalClasses
<1> DEFINE T == LateRefusals(inp)
<1>1. DOMAIN T = 1..5
  BY DEF LateRefusals
<1>2. PICK k \in Applying(T) : RefusalClass(T) = T[k].class
  BY <1>1, FirstApplies
<1>3. k \in 1..5
  BY <1>1 DEF Applying
<1>4. \A j \in 1..5 : T[j].class \in RefusalClasses
  BY DEF LateRefusals, Refusal, RefusalClasses
<1> QED
  BY <1>2, <1>3, <1>4

(* What the assumptions say of the inputs and of the sets of URLs.          *)
LEMMA CandidatesAreUrls == Candidates \subseteq Urls
BY UrlAssumption DEF Candidates

LEMMA InputType ==
  ASSUME inp \in InputSet
  PROVE  inp \in Inputs /\ Inferable(inp)
BY InputAssumption

LEMMA EmptyTypes == NoEvidence \in Evidences /\ NoResult \in Results
BY DEF NoEvidence, Evidence, Evidences, Owners, NoResult, Result, Results

LEMMA ResultType ==
  ASSUME NEW r \in {"booted", "failed", "refused"},
         NEW c \in FailureClasses \cup {"none"}, NEW e \in Evidences
  PROVE  Result(r, c, e) \in Results
BY DEF Result, Results

LEMMA UnhealthyType ==
  ASSUME NEW m, NEW e
  PROVE  UnhealthyClasses(m, e) \subseteq FailureClasses
BY DEF UnhealthyClasses, FailureClasses, ByText

(* The steps that a refusal records, and a refusal of the gate.             *)
LEMMA RefusalRecord ==
  ASSUME NEW class
  PROVE  /\ StepOfRefusal(class) \in Seq(ObservedSteps)
         /\ \A k \in DOMAIN StepOfRefusal(class) :
              /\ StepOfRefusal(class)[k].kind \in RefusalSteps
              /\ ~StepOfRefusal(class)[k].ok
<1> DEFINE one(kind) == <<[kind |-> kind, ok |-> FALSE]>>
<1>1. ASSUME NEW kind \in RefusalSteps
      PROVE  /\ one(kind) \in Seq(ObservedSteps)
             /\ \A k \in DOMAIN one(kind) :
                  one(kind)[k].kind \in RefusalSteps /\ ~one(kind)[k].ok
  BY <1>1 DEF ObservedSteps
<1>2. {"skipped-preparation", "package-manager-version", "health-preflight"}
        \subseteq RefusalSteps
  BY DEF RefusalSteps
<1>3. CASE class = "dependency_install_skipped"
  BY <1>1, <1>2, <1>3 DEF StepOfRefusal
<1>4. CASE class = "package_manager_version_mismatch"
  BY <1>1, <1>2, <1>4 DEF StepOfRefusal
<1>5. CASE class = "health_preoccupied"
  BY <1>1, <1>2, <1>5 DEF StepOfRefusal
<1>6. CASE class \notin {"dependency_install_skipped", "health_preoccupied",
                        "package_manager_version_mismatch"}
  <2>1. StepOfRefusal(class) = <<>>
    BY <1>6 DEF StepOfRefusal
  <2> QED
    BY <2>1
<1> QED
  BY <1>3, <1>4, <1>5, <1>6

LEMMA GateRefusal ==
  ASSUME GateRefuseEarly \/ GateRefuseLate
  PROVE  /\ pc = "gate" /\ pc' = "done"
         /\ UNCHANGED <<inp, step, phase, cands, todo, probe, latest, late, timedOut,
                        verdict, wrote, occupied, appVars, server, composeUp>>
         /\ \/ inp.opts.dryRun /\ attestation' = NoResult /\ observed' = observed
            \/ \E c \in RefusalClasses :
                 /\ ~inp.opts.dryRun
                 /\ attestation' = Result("refused", c, NoEvidence)
                 /\ observed' = StepOfRefusal(c)
<1>1. PICK table : GateRefuse(table) /\ RefusalClass(table) \in RefusalClasses
  BY EarlyClass, LateClass DEF GateRefuseEarly, GateRefuseLate, GateRefuse
<1> QED
  BY <1>1 DEF GateRefuse, GateRefuseEarly, GateRefuseLate

LEMMA CommandOkType ==
  ASSUME NEW exitZero \in BOOLEAN, TypeOK, pc = "command"
  PROVE  CommandOk(exitZero) \in BOOLEAN
BY DEF CommandOk, TypeOK

-----------------------------------------------------------------------------
(* TypeOK is an invariant: every field keeps to the values the code gives   *)
(* it (run.ts, exec.ts).                                                    *)
LEMMA TypeInit == Init => TypeOK
<1> SUFFICES ASSUME Init PROVE TypeOK
  OBVIOUS
<1>0. ForeignStatuses \subseteq Statuses
  BY StatusAssumption
<1>1. server \in [Urls -> [owner : Owners, status : Statuses \cup {"none"}]]
  BY <1>0 DEF Init, Owners, Free, Listener
<1>2. /\ pc = "gate" /\ step = 1 /\ phase = "preflight" /\ observed = <<>>
      /\ printed = {} /\ cands = {} /\ todo = {} /\ occupied = {}
  BY DEF Init
<1>3. probe \in Evidences /\ latest \in Evidences
  BY EmptyTypes DEF Init
<1>4. verdict \in Results /\ attestation \in Results
  BY EmptyTypes DEF Init
<1>5. /\ inp \in InputSet /\ late \in BOOLEAN /\ timedOut \in BOOLEAN
      /\ wrote \in BOOLEAN /\ leader = "none" /\ group \in BOOLEAN
      /\ exitSeen \in BOOLEAN /\ composeUp \in BOOLEAN
  BY DEF Init
<1> QED
  BY <1>1, <1>2, <1>3, <1>4, <1>5 DEF TypeOK, PCs

LEMMA HostType ==
  ASSUME TypeOK, Host
  PROVE  TypeOK'
<1> USE DEF TypeOK, EnvUnchanged, runVars, appVars, Listener, Free, Owners, Kind,
           Plan
<1>1. ASSUME NEW u \in Urls, NEW s \in Statuses, AppListens(u, s) \/ StatusChanges(u, s)
                \/ ForeignStarts(u, s) \/ ComposeListens(u, s)
      PROVE  TypeOK'
  BY <1>1 DEF AppListens, StatusChanges, ForeignStarts, ComposeListens
<1>2. ASSUME NEW u \in Urls, AppPrints(u) \/ OutputScrolls(u)
                \/ ForeignStops(u) \/ ComposeStops(u)
      PROVE  TypeOK'
  BY <1>2 DEF AppPrints, OutputScrolls, ForeignStops, ComposeStops
<1>3. CASE AppForks
  BY <1>3 DEF AppForks
<1>4. CASE LeaderExits
  BY <1>4 DEF LeaderExits, Vacated
<1>5. CASE GroupExits
  BY <1>5 DEF GroupExits, Vacated
<1>6. CASE ExitDelivered
  BY <1>6 DEF ExitDelivered
<1> QED
  BY <1>1, <1>2, <1>3, <1>4, <1>5, <1>6 DEF Host

LEMMA TypeStep ==
  ASSUME TypeOK, [Next]_vars
  PROVE  TypeOK'
<1> USE DEF TypeOK, PCs, runVars, appVars, Kind, Plan
<1>1. CASE GateRefuseEarly
  BY <1>1, GateRefusal, RefusalRecord, EmptyTypes, ResultType DEF FailureClasses
<1>2. CASE GateRefuseLate
  BY <1>2, GateRefusal, RefusalRecord, EmptyTypes, ResultType DEF FailureClasses
<1>3. CASE DryRun
  BY <1>3 DEF DryRun
<1>4. CASE GateOpen
  BY <1>4, CandidatesAreUrls DEF GateOpen
<1>5. CASE PreflightRefuse
  BY <1>5, ResultType, RefusalRecord DEF PreflightRefuse, FailureClasses,
     RefusalClasses
<1>6. CASE PreflightPass
  BY <1>6 DEF PreflightPass
<1>7. CASE WritePlanFiles
  BY <1>7, InputType DEF WritePlanFiles, GeneratesFiles
<1>8. CASE StartCommand
  BY <1>8 DEF StartCommand
<1>9. CASE FallThrough
  BY <1>9, EmptyTypes, ResultType DEF FallThrough, FailureClasses,
     RefusalClasses
<1>10. CASE StartApp
  BY <1>10, CandidatesAreUrls, EmptyTypes DEF StartApp, BeginPoll
<1>11. CASE StartComposePoll
  BY <1>11, CandidatesAreUrls, EmptyTypes DEF StartComposePoll, BeginPoll
<1>12. CASE PollRound
  BY <1>12, UrlAssumption DEF PollRound, OutputUrls
<1>13. CASE PollOver
  BY <1>13, UrlAssumption DEF PollOver, OutputUrls
<1>14. CASE RoundOver
  BY <1>14 DEF RoundOver
<1>15. CASE PauseOver
  BY <1>15 DEF PauseOver
<1>16. CASE HandleAnswer
  BY <1>16 DEF HandleAnswer
<1>17. CASE \E u \in Urls : SendProbe(u)
  BY <1>17 DEF SendProbe, Evidence, Evidences, Owners
<1>18. CASE LoopTurn
  BY <1>18 DEF LoopTurn
<1>19. CASE JudgeExited
  <2>1. observed' \in Seq(ObservedSteps)
    BY <1>19 DEF JudgeExited, ObservedSteps
  <2>2. PICK c \in FailureClasses : verdict' = Result("failed", c, latest)
    BY <1>19 DEF JudgeExited, FailureClasses, ByText
  <2>3. verdict' \in Results
    BY <2>2, ResultType
  <2> QED
    BY <1>19, <2>1, <2>3, UrlAssumption DEF JudgeExited
<1>20. CASE JudgeBooted
  <2>1. observed' \in Seq(ObservedSteps)
    BY <1>20 DEF JudgeBooted, ObservedSteps
  <2>2. verdict' \in Results
    BY <1>20, ResultType DEF JudgeBooted
  <2> QED
    BY <1>20, <2>1, <2>2, UrlAssumption DEF JudgeBooted
<1>21. CASE JudgeUnhealthy
  <2>1. observed' \in Seq(ObservedSteps)
    BY <1>21 DEF JudgeUnhealthy, ObservedSteps
  <2>2. verdict' \in Results
    BY <1>21, ResultType, UnhealthyType DEF JudgeUnhealthy
  <2> QED
    BY <1>21, <2>1, <2>2, UrlAssumption DEF JudgeUnhealthy
<1>22. CASE StopSignal
  BY <1>22 DEF StopSignal
<1>23. CASE ComposeBooted
  <2>1. observed' \in Seq(ObservedSteps)
    BY <1>23 DEF ComposeBooted, ObservedSteps
  <2>2. verdict' \in Results
    BY <1>23, ResultType DEF ComposeBooted
  <2> QED
    BY <1>23, <2>1, <2>2, UrlAssumption DEF ComposeBooted
<1>24. CASE ComposeUnhealthy
  BY <1>24 DEF ComposeUnhealthy, ObservedSteps
<1>25. CASE \E ok \in BOOLEAN : Diagnose(ok)
  <2>1. PICK ok \in BOOLEAN : Diagnose(ok)
    BY <1>25
  <2>2. observed' \in Seq(ObservedSteps)
    BY <2>1 DEF Diagnose, ObservedSteps
  <2>3. verdict' \in Results
    <3>1. CASE verdict' = verdict
      BY <3>1
    <3>2. CASE \E c \in UnhealthyClasses(FALSE, latest) :
                 verdict' = Result("failed", c, latest)
      <4>1. PICK c \in FailureClasses : verdict' = Result("failed", c, latest)
        BY <3>2, UnhealthyType
      <4> QED
        BY <4>1, ResultType
    <3>3. verdict' = verdict \/ \E c \in UnhealthyClasses(FALSE, latest) :
                                  verdict' = Result("failed", c, latest)
      BY <2>1 DEF Diagnose
    <3> QED
      BY <3>1, <3>2, <3>3
  <2>4. pc' \in {"diagnose-logs", "attest"}
    BY <2>1 DEF Diagnose
  <2> QED
    BY <2>1, <2>2, <2>3, <2>4 DEF Diagnose
<1>26. CASE Attest
  BY <1>26 DEF Attest
<1>27. CASE Closes
  <2>1. PICK exitZero \in BOOLEAN : CommandCloses(exitZero)
    BY <1>27 DEF Closes
  <2>2. CommandOk(exitZero) \in BOOLEAN
    BY <2>1, CommandOkType DEF CommandCloses
  <2>3. observed' \in Seq(ObservedSteps)
    BY <2>1, <2>2 DEF CommandCloses, ObservedSteps
  <2>4. \/ verdict' = verdict
        \/ \E c \in FailureClasses : verdict' = Result("failed", c, NoEvidence)
    BY <2>1 DEF CommandCloses, FailureClasses, ByText
  <2>5. verdict' \in Results
    BY <2>4, EmptyTypes, ResultType
  <2> QED
    BY <2>1, <2>2, <2>3, <2>5 DEF CommandCloses
<1>28. CASE CommandTimesOut
  BY <1>28 DEF CommandTimesOut
<1>29. CASE Answer
  BY <1>29 DEF Answer, Evidence, Evidences
<1>30. CASE StopClosed
  BY <1>30 DEF StopClosed
<1>31. CASE StopKilled
  BY <1>31 DEF StopKilled, Vacated, Free, Owners
<1>32. CASE DeadlinePasses
  BY <1>32 DEF DeadlinePasses
<1>33. CASE Host
  BY <1>33, HostType
<1>34. CASE Returned
  BY <1>34 DEF Returned, vars
<1>35. CASE UNCHANGED vars
  BY <1>35 DEF vars
<1> QED BY <1>1, <1>2, <1>3, <1>4, <1>5, <1>6, <1>7, <1>8, <1>9, <1>10,
     <1>11, <1>12, <1>13, <1>14, <1>15, <1>16, <1>17, <1>18, <1>19, <1>20,
     <1>21, <1>22, <1>23, <1>24, <1>25, <1>26, <1>27, <1>28, <1>29, <1>30,
     <1>31, <1>32, <1>33, <1>34, <1>35 DEF Next, Up

THEOREM TypeCorrect == Spec => []TypeOK
<1>1. Init => TypeOK
  BY TypeInit
<1>2. TypeOK /\ [Next]_vars => TypeOK'
  BY TypeStep
<1> QED
  BY <1>1, <1>2, PTL DEF Spec
-----------------------------------------------------------------------------
(* The strengthening of the safety properties: where `up` is determines     *)
(* which phase it is in, whether the gate has let it through and what it    *)
(* has started; and an accepted response that came too late is known to be  *)
(* late wherever a verdict is drawn from it.                                *)
GatePassed ==
  ~Refuses(EarlyRefusals(inp)) /\ ~Refuses(LateRefusals(inp))

Before == {"gate", "preflighted", "write", "loop", "command"}

PhaseInv ==
  /\ pc \in Before => phase = "preflight"
  /\ pc \in {"poll", "pause", "judge"} => phase # "preflight"
  /\ pc \in {"turn", "stop", "stopping"} => phase = "app"
  /\ pc \in {"diagnose-ps", "diagnose-logs"} => phase = "compose"
  /\ phase = "app" => leader # "none"

UntouchedInv ==
  \/ pc \in {"gate", "preflighted", "write"}
  \/ phase = "preflight" /\ pc \in {"probe", "await", "answered"}
  => leader = "none" /\ observed = <<>>

GateInv == pc \notin {"gate", "done"} => GatePassed

LivenessKnown(e) == Accepted(e) /\ ~e.live => leader = "exited"

LateAnswerInv ==
  phase = "app" =>
    /\ pc = "answered" => LivenessKnown(probe)
    /\ LivenessKnown(latest)
    /\ pc = "judge" /\ Accepted(latest) /\ ~latest.live => exitSeen

VerdictInv ==
  /\ verdict.result = "booted" =>
       /\ pc \in {"stop", "stopping", "attest", "done"}
       /\ phase # "preflight" /\ Supports(latest) /\ verdict.evidence = latest
  /\ pc \in {"stop", "stopping", "attest"} =>
       verdict.result \in {"booted", "failed"}
  /\ pc # "done" => attestation = NoResult
  /\ attestation.result = "booted" => attestation = verdict

SafetyInv ==
  TypeOK /\ PhaseInv /\ UntouchedInv /\ GateInv /\ LateAnswerInv /\ VerdictInv
    /\ HostConsent

(* A plan with a host command got past the gate only with consent.          *)
LEMMA GateMeans ==
  ASSUME GatePassed
  PROVE  /\ inp.opts.provider = "local" => inp.opts.unsafeLocal
         /\ ~RunsSourceCompose(inp) /\ inp.facts.prep > 0 => inp.opts.install
         /\ inp.opts.provider = "docker" /\ ~RunsSourceCompose(inp) =>
              HostSteps(inp) = <<>>
<1>1. ~EarlyRefusals(inp)[8].when
  <2>1. 8 \in DOMAIN EarlyRefusals(inp)
    BY DEF EarlyRefusals
  <2> QED
    BY <2>1 DEF GatePassed, Refuses, Applying
<1>2. ~LateRefusals(inp)[2].when /\ ~LateRefusals(inp)[3].when
  <2>1. 2 \in DOMAIN LateRefusals(inp) /\ 3 \in DOMAIN LateRefusals(inp)
    BY DEF LateRefusals
  <2> QED
    BY <2>1 DEF GatePassed, Refuses, Applying
<1>3. EarlyRefusals(inp)[8].when
        = (inp.opts.provider = "local" /\ ~inp.opts.unsafeLocal)
  BY DEF EarlyRefusals, Refusal
<1>4. /\ LateRefusals(inp)[2].when
           = (~RunsSourceCompose(inp) /\ inp.facts.prep > 0 /\ ~inp.opts.install)
      /\ LateRefusals(inp)[3].when
           = (/\ inp.opts.provider = "docker" /\ ~RunsSourceCompose(inp)
              /\ HostSteps(inp) # <<>>)
  BY DEF LateRefusals, Refusal
<1> QED
  BY <1>1, <1>2, <1>3, <1>4

(* The three parts of a plan hold what their names say.                     *)
LEMMA PlanParts ==
  ASSUME inp \in InputSet
  PROVE  /\ ServiceSteps(inp) \in Seq({"service"})
         /\ HostSteps(inp) \in Seq({"install", "start-app"})
         /\ HealthSteps(inp) \in Seq({"health"})
         /\ inp.facts.prep \in Nat
         /\ inp.opts.provider \in {"local", "docker"}
         /\ inp.facts.prep = 0 =>
              \A k \in DOMAIN HostSteps(inp) : HostSteps(inp)[k] # "install"
<1>1. inp.facts.prep \in Nat /\ inp.opts.provider \in {"local", "docker"}
  BY InputType DEF Inputs, Facts, Options, Providers
<1>2. ServiceSteps(inp) \in Seq({"service"})
  <2>1. <<"service">> \in Seq({"service"}) /\ <<>> \in Seq({"service"})
    OBVIOUS
  <2>2. ServiceSteps(inp) = <<"service">> \/ ServiceSteps(inp) = <<>>
    BY Zenon DEF ServiceSteps
  <2> QED
    BY <2>1, <2>2
<1>3. HealthSteps(inp) \in Seq({"health"})
  <2>1. <<"health">> \in Seq({"health"}) /\ <<>> \in Seq({"health"})
    OBVIOUS
  <2>2. HealthSteps(inp) = <<"health">> \/ HealthSteps(inp) = <<>>
    BY Zenon DEF HealthSteps
  <2> QED
    BY <2>1, <2>2
<1> DEFINE P == [k \in 1..inp.facts.prep |-> "install"]
           A == IF HasCommand(inp) THEN <<"start-app">> ELSE <<>>
<1>4. P \in Seq({"install", "start-app"}) /\ Len(P) = inp.facts.prep
  BY <1>1
<1>5. A \in Seq({"install", "start-app"})
  <2>1. /\ <<"start-app">> \in Seq({"install", "start-app"})
        /\ <<>> \in Seq({"install", "start-app"})
    OBVIOUS
  <2>2. A = <<"start-app">> \/ A = <<>>
    BY Zenon
  <2> QED
    BY <2>1, <2>2
<1>6. HostSteps(inp) = IF RunsSourceCompose(inp) THEN <<>> ELSE P \o A
  BY DEF HostSteps
<1>7. HostSteps(inp) \in Seq({"install", "start-app"})
  BY <1>4, <1>5, <1>6
<1>8. inp.facts.prep = 0 =>
        \A k \in DOMAIN HostSteps(inp) : HostSteps(inp)[k] # "install"
  <2> SUFFICES ASSUME inp.facts.prep = 0, NEW k \in DOMAIN HostSteps(inp)
               PROVE  HostSteps(inp)[k] # "install"
    OBVIOUS
  <2>1. CASE RunsSourceCompose(inp)
    BY <2>1, <1>6
  <2>2. CASE ~RunsSourceCompose(inp)
    <3>1. HostSteps(inp) = P \o A /\ Len(P) = 0
      BY <2>2, <1>4, <1>6
    <3>2. k \in 1..Len(A) /\ HostSteps(inp)[k] = A[k]
      BY <3>1, <1>4, <1>5
    <3> QED
      BY <3>2
  <2> QED
    BY <2>1, <2>2
<1> QED
  BY <1>1, <1>2, <1>3, <1>7, <1>8

LEMMA PlannedHostStep ==
  ASSUME inp \in InputSet, NEW k \in 1..Len(Plan),
         Plan[k] \in {"install", "start-app"}
  PROVE  /\ HostSteps(inp) # <<>>
         /\ Plan[k] = "install" => inp.facts.prep > 0
<1> DEFINE S == ServiceSteps(inp)  H == HostSteps(inp)  E == HealthSteps(inp)
<1>1. /\ S \in Seq({"service"}) /\ H \in Seq({"install", "start-app"})
      /\ E \in Seq({"health"})
  BY PlanParts
<1>2. Plan = S \o H \o E
  BY DEF Plan, PlanSteps
<1> HIDE DEF S, H, E
<1>3. /\ S \o H \in Seq({"service", "install", "start-app"})
      /\ Len(S \o H) = Len(S) + Len(H) /\ Len(S) \in Nat /\ Len(H) \in Nat
      /\ \A i \in 1..Len(S) : (S \o H)[i] = "service"
      /\ \A i \in 1..Len(H) : (S \o H)[Len(S) + i] = H[i]
  BY <1>1
<1>4. k \in 1..Len(S \o H) /\ Plan[k] = (S \o H)[k]
  <2>1. CASE k <= Len(S \o H)
    BY <1>1, <1>2, <1>3, <2>1
  <2>2. CASE k > Len(S \o H)
    <3>1. \E i \in 1..Len(E) : Plan[k] = E[i]
      BY <1>1, <1>2, <1>3, <2>2
    <3> QED
      BY <1>1, <3>1
  <2> QED
    BY <2>1, <2>2, <1>3
<1>5. PICK j \in 1..Len(H) : Plan[k] = H[j]
  <2>1. k > Len(S)
    BY <1>1, <1>3, <1>4
  <2>2. k - Len(S) \in 1..Len(H) /\ k = Len(S) + (k - Len(S))
    BY <1>3, <1>4, <2>1
  <2> QED
    BY <1>3, <1>4, <2>2
<1>6. H # <<>>
  BY <1>1, <1>5
<1>7. Plan[k] = "install" => inp.facts.prep > 0
  <2>1. j \in DOMAIN H
    BY <1>1, <1>5
  <2>2. inp.facts.prep = 0 => H[j] # "install"
    BY <2>1, PlanParts DEF H
  <2> QED
    BY <1>5, <2>2, PlanParts
<1> QED
  BY <1>6, <1>7 DEF H

LEMMA HostStepConsent ==
  ASSUME inp \in InputSet, GatePassed, NEW k \in 1..Len(Plan),
         Plan[k] \in {"install", "start-app"}
  PROVE  /\ Acknowledged(inp)
         /\ Plan[k] = "install" => inp.opts.install
<1>1. ~RunsSourceCompose(inp)
  BY PlannedHostStep DEF HostSteps
<1> QED
  BY <1>1, GateMeans, PlannedHostStep, PlanParts DEF Acknowledged

LEMMA PhaseStep ==
  ASSUME TypeOK, PhaseInv, [Next]_vars
  PROVE  PhaseInv'
<1> USE DEF PhaseInv, Before, TypeOK, runVars, appVars
<1>1. CASE GateRefuseEarly \/ GateRefuseLate \/ DryRun \/ GateOpen
  BY <1>1 DEF GateRefuseEarly, GateRefuseLate, GateRefuse, DryRun, GateOpen
<1>2. CASE PreflightRefuse \/ PreflightPass \/ WritePlanFiles
  BY <1>2 DEF PreflightRefuse, PreflightPass, WritePlanFiles
<1>3. CASE StartCommand \/ CommandTimesOut
  BY <1>3 DEF StartCommand, CommandTimesOut
<1>4. CASE Closes \/ FallThrough
  BY <1>4 DEF Closes, CommandCloses, FallThrough
<1>5. CASE StartApp \/ StartComposePoll
  BY <1>5 DEF StartApp, StartComposePoll, BeginPoll
<1>6. CASE PollRound \/ PollOver \/ RoundOver \/ PauseOver \/ DeadlinePasses
  BY <1>6 DEF PollRound, PollOver, RoundOver, PauseOver, DeadlinePasses
<1>7. CASE \E u \in Urls : SendProbe(u)
  BY <1>7 DEF SendProbe
<1>8. CASE Answer \/ HandleAnswer
  BY <1>8 DEF Answer, HandleAnswer
<1>9. CASE LoopTurn
  BY <1>9 DEF LoopTurn
<1>10. CASE JudgeExited \/ JudgeBooted \/ JudgeUnhealthy
  BY <1>10 DEF JudgeExited, JudgeBooted, JudgeUnhealthy
<1>11. CASE StopSignal \/ StopClosed \/ StopKilled
  BY <1>11 DEF StopSignal, StopClosed, StopKilled
<1>12. CASE ComposeBooted \/ ComposeUnhealthy
  BY <1>12 DEF ComposeBooted, ComposeUnhealthy
<1>13. CASE \E ok \in BOOLEAN : Diagnose(ok)
  BY <1>13 DEF Diagnose
<1>14. CASE Attest
  BY <1>14 DEF Attest
<1>15. CASE Host
  BY <1>15 DEF Host, AppListens, StatusChanges, ForeignStarts,
     ComposeListens, AppPrints, OutputScrolls, ForeignStops, ComposeStops,
     AppForks, LeaderExits, GroupExits, ExitDelivered, EnvUnchanged
<1>16. CASE Returned \/ UNCHANGED vars
  BY <1>16 DEF Returned, vars
<1> QED BY <1>1, <1>2, <1>3, <1>4, <1>5, <1>6, <1>7, <1>8, <1>9, <1>10,
     <1>11, <1>12, <1>13, <1>14, <1>15, <1>16 DEF Next, Up

LEMMA UntouchedStep ==
  ASSUME TypeOK, PhaseInv, UntouchedInv, [Next]_vars
  PROVE  UntouchedInv'
<1> USE DEF UntouchedInv, PhaseInv, Before, TypeOK, runVars, appVars
<1>1. CASE GateRefuseEarly \/ GateRefuseLate \/ DryRun \/ GateOpen
  BY <1>1 DEF GateRefuseEarly, GateRefuseLate, GateRefuse, DryRun, GateOpen
<1>2. CASE PreflightRefuse \/ PreflightPass \/ WritePlanFiles
  BY <1>2 DEF PreflightRefuse, PreflightPass, WritePlanFiles
<1>3. CASE StartCommand \/ CommandTimesOut
  BY <1>3 DEF StartCommand, CommandTimesOut
<1>4. CASE Closes \/ FallThrough
  BY <1>4 DEF Closes, CommandCloses, FallThrough
<1>5. CASE StartApp \/ StartComposePoll
  BY <1>5 DEF StartApp, StartComposePoll, BeginPoll
<1>6. CASE PollRound \/ PollOver \/ RoundOver \/ PauseOver \/ DeadlinePasses
  BY <1>6 DEF PollRound, PollOver, RoundOver, PauseOver, DeadlinePasses
<1>7. CASE \E u \in Urls : SendProbe(u)
  BY <1>7 DEF SendProbe
<1>8. CASE Answer \/ HandleAnswer
  BY <1>8 DEF Answer, HandleAnswer
<1>9. CASE LoopTurn
  BY <1>9 DEF LoopTurn
<1>10. CASE JudgeExited \/ JudgeBooted \/ JudgeUnhealthy
  BY <1>10 DEF JudgeExited, JudgeBooted, JudgeUnhealthy
<1>11. CASE StopSignal \/ StopClosed \/ StopKilled
  BY <1>11 DEF StopSignal, StopClosed, StopKilled
<1>12. CASE ComposeBooted \/ ComposeUnhealthy
  BY <1>12 DEF ComposeBooted, ComposeUnhealthy
<1>13. CASE \E ok \in BOOLEAN : Diagnose(ok)
  BY <1>13 DEF Diagnose
<1>14. CASE Attest
  BY <1>14 DEF Attest
<1>15. CASE Host
  BY <1>15 DEF Host, AppListens, StatusChanges, ForeignStarts,
     ComposeListens, AppPrints, OutputScrolls, ForeignStops, ComposeStops,
     AppForks, LeaderExits, GroupExits, ExitDelivered, EnvUnchanged
<1>16. CASE Returned \/ UNCHANGED vars
  BY <1>16 DEF Returned, vars
<1> QED BY <1>1, <1>2, <1>3, <1>4, <1>5, <1>6, <1>7, <1>8, <1>9, <1>10,
     <1>11, <1>12, <1>13, <1>14, <1>15, <1>16 DEF Next, Up

LEMMA GateStep ==
  ASSUME TypeOK, GateInv, [Next]_vars
  PROVE  GateInv'
<1> USE DEF GateInv, GatePassed, runVars, appVars
<1>1. CASE GateRefuseEarly \/ GateRefuseLate \/ DryRun \/ GateOpen
  BY <1>1 DEF GateRefuseEarly, GateRefuseLate, GateRefuse, DryRun, GateOpen
<1>2. CASE PreflightRefuse \/ PreflightPass \/ WritePlanFiles
  BY <1>2 DEF PreflightRefuse, PreflightPass, WritePlanFiles
<1>3. CASE StartCommand \/ CommandTimesOut
  BY <1>3 DEF StartCommand, CommandTimesOut
<1>4. CASE Closes \/ FallThrough
  BY <1>4 DEF Closes, CommandCloses, FallThrough
<1>5. CASE StartApp \/ StartComposePoll
  BY <1>5 DEF StartApp, StartComposePoll, BeginPoll
<1>6. CASE PollRound \/ PollOver \/ RoundOver \/ PauseOver \/ DeadlinePasses
  BY <1>6 DEF PollRound, PollOver, RoundOver, PauseOver, DeadlinePasses
<1>7. CASE \E u \in Urls : SendProbe(u)
  BY <1>7 DEF SendProbe
<1>8. CASE Answer \/ HandleAnswer
  BY <1>8 DEF Answer, HandleAnswer
<1>9. CASE LoopTurn
  BY <1>9 DEF LoopTurn
<1>10. CASE JudgeExited \/ JudgeBooted \/ JudgeUnhealthy
  BY <1>10 DEF JudgeExited, JudgeBooted, JudgeUnhealthy
<1>11. CASE StopSignal \/ StopClosed \/ StopKilled
  BY <1>11 DEF StopSignal, StopClosed, StopKilled
<1>12. CASE ComposeBooted \/ ComposeUnhealthy
  BY <1>12 DEF ComposeBooted, ComposeUnhealthy
<1>13. CASE \E ok \in BOOLEAN : Diagnose(ok)
  BY <1>13 DEF Diagnose
<1>14. CASE Attest
  BY <1>14 DEF Attest
<1>15. CASE Host
  BY <1>15 DEF Host, AppListens, StatusChanges, ForeignStarts,
     ComposeListens, AppPrints, OutputScrolls, ForeignStops, ComposeStops,
     AppForks, LeaderExits, GroupExits, ExitDelivered, EnvUnchanged
<1>16. CASE Returned \/ UNCHANGED vars
  BY <1>16 DEF Returned, vars
<1> QED BY <1>1, <1>2, <1>3, <1>4, <1>5, <1>6, <1>7, <1>8, <1>9, <1>10,
     <1>11, <1>12, <1>13, <1>14, <1>15, <1>16 DEF Next, Up

LEMMA LateAnswerStep ==
  ASSUME TypeOK, PhaseInv, LateAnswerInv, [Next]_vars
  PROVE  LateAnswerInv'
<1> USE DEF LateAnswerInv, LivenessKnown, Accepted, PhaseInv, Before,
           TypeOK,    runVars, appVars
<1>1. CASE GateRefuseEarly \/ GateRefuseLate \/ DryRun \/ GateOpen
  BY <1>1 DEF GateRefuseEarly, GateRefuseLate, GateRefuse, DryRun, GateOpen
<1>2. CASE PreflightRefuse \/ PreflightPass \/ WritePlanFiles
  BY <1>2 DEF PreflightRefuse, PreflightPass, WritePlanFiles
<1>3. CASE StartCommand \/ CommandTimesOut
  BY <1>3 DEF StartCommand, CommandTimesOut
<1>4. CASE Closes \/ FallThrough
  BY <1>4 DEF Closes, CommandCloses, FallThrough
<1>5. CASE StartApp \/ StartComposePoll
  BY <1>5 DEF StartApp, StartComposePoll, BeginPoll, NoEvidence, Evidence
<1>6. CASE PollRound \/ PollOver \/ RoundOver \/ PauseOver \/ DeadlinePasses
  BY <1>6 DEF PollRound, PollOver, RoundOver, PauseOver, DeadlinePasses
<1>7. CASE \E u \in Urls : SendProbe(u)
  BY <1>7 DEF SendProbe
<1>8. CASE Answer \/ HandleAnswer
  <2>1. CASE Answer
    <3>1. probe'.live = (leader = "running") /\ leader' = leader
      BY <2>1 DEF Answer, Evidence
    <3> QED
      BY <2>1, <3>1 DEF Answer
  <2>2. CASE HandleAnswer
    BY <2>2 DEF HandleAnswer
  <2> QED
    BY <1>8, <2>1, <2>2
<1>9. CASE LoopTurn
  BY <1>9 DEF LoopTurn
<1>10. CASE JudgeExited \/ JudgeBooted \/ JudgeUnhealthy
  BY <1>10 DEF JudgeExited, JudgeBooted, JudgeUnhealthy
<1>11. CASE StopSignal \/ StopClosed \/ StopKilled
  BY <1>11 DEF StopSignal, StopClosed, StopKilled
<1>12. CASE ComposeBooted \/ ComposeUnhealthy
  BY <1>12 DEF ComposeBooted, ComposeUnhealthy
<1>13. CASE \E ok \in BOOLEAN : Diagnose(ok)
  BY <1>13 DEF Diagnose
<1>14. CASE Attest
  BY <1>14 DEF Attest
<1>15. CASE Host
  BY <1>15 DEF Host, AppListens, StatusChanges, ForeignStarts,
     ComposeListens, AppPrints, OutputScrolls, ForeignStops, ComposeStops,
     AppForks, LeaderExits, GroupExits, ExitDelivered, EnvUnchanged
<1>16. CASE Returned \/ UNCHANGED vars
  BY <1>16 DEF Returned, vars
<1> QED BY <1>1, <1>2, <1>3, <1>4, <1>5, <1>6, <1>7, <1>8, <1>9, <1>10,
     <1>11, <1>12, <1>13, <1>14, <1>15, <1>16 DEF Next, Up

LEMMA VerdictStep ==
  ASSUME TypeOK, PhaseInv, LateAnswerInv, VerdictInv, [Next]_vars
  PROVE  VerdictInv'
<1> USE DEF VerdictInv, Supports, PhaseInv, Before, TypeOK, runVars, appVars
<1>1. CASE GateRefuseEarly \/ GateRefuseLate \/ DryRun \/ GateOpen
  BY <1>1 DEF GateRefuseEarly, GateRefuseLate, GateRefuse, DryRun, GateOpen,
     Result, NoResult
<1>2. CASE PreflightRefuse \/ PreflightPass \/ WritePlanFiles
  BY <1>2 DEF PreflightRefuse, PreflightPass, WritePlanFiles, Result
<1>3. CASE StartCommand \/ CommandTimesOut
  BY <1>3 DEF StartCommand, CommandTimesOut
<1>4. CASE Closes \/ FallThrough
  <2>1. CASE Closes
    <3>1. PICK exitZero \in BOOLEAN : CommandCloses(exitZero)
      BY <2>1 DEF Closes
    <3>2. \/ verdict' = verdict /\ pc' = "loop"
          \/ verdict'.result = "failed" /\ pc' = "attest"
      BY <3>1 DEF CommandCloses, Result
    <3>3. pc = "command" /\ UNCHANGED attestation
      BY <3>1 DEF CommandCloses
    <3> QED
      BY <3>2, <3>3
  <2>2. CASE FallThrough
    BY <2>2 DEF FallThrough, Result
  <2> QED
    BY <1>4, <2>1, <2>2
<1>5. CASE StartApp \/ StartComposePoll
  BY <1>5 DEF StartApp, StartComposePoll, BeginPoll
<1>6. CASE PollRound \/ PollOver \/ RoundOver \/ PauseOver \/ DeadlinePasses
  BY <1>6 DEF PollRound, PollOver, RoundOver, PauseOver, DeadlinePasses
<1>7. CASE \E u \in Urls : SendProbe(u)
  BY <1>7 DEF SendProbe
<1>8. CASE Answer \/ HandleAnswer
  BY <1>8 DEF Answer, HandleAnswer
<1>9. CASE LoopTurn
  BY <1>9 DEF LoopTurn
<1>10. CASE JudgeExited \/ JudgeBooted \/ JudgeUnhealthy
  BY <1>10 DEF JudgeExited, JudgeBooted, JudgeUnhealthy, LateAnswerInv,
     Result
<1>11. CASE StopSignal \/ StopClosed \/ StopKilled
  BY <1>11 DEF StopSignal, StopClosed, StopKilled
<1>12. CASE ComposeBooted \/ ComposeUnhealthy
  BY <1>12 DEF ComposeBooted, ComposeUnhealthy, Result
<1>13. CASE \E ok \in BOOLEAN : Diagnose(ok)
  <2>1. PICK ok \in BOOLEAN : Diagnose(ok)
    BY <1>13
  <2>2. \/ verdict' = verdict /\ pc' = "diagnose-logs"
        \/ verdict'.result = "failed" /\ pc' = "attest"
    <3>1. CASE pc = "diagnose-ps"
      BY <2>1, <3>1 DEF Diagnose
    <3>2. CASE pc = "diagnose-logs"
      <4>1. PICK c : verdict' = Result("failed", c, latest)
        BY <2>1, <3>2 DEF Diagnose
      <4>2. pc' = "attest"
        BY <2>1, <3>2 DEF Diagnose
      <4> QED
        BY <4>1, <4>2 DEF Result
    <3> QED
      BY <2>1, <3>1, <3>2 DEF Diagnose
  <2>3. pc \in {"diagnose-ps", "diagnose-logs"} /\ UNCHANGED attestation
    BY <2>1 DEF Diagnose
  <2> QED
    BY <2>2, <2>3
<1>14. CASE Attest
  BY <1>14 DEF Attest
<1>15. CASE Host
  BY <1>15 DEF Host, AppListens, StatusChanges, ForeignStarts,
     ComposeListens, AppPrints, OutputScrolls, ForeignStops, ComposeStops,
     AppForks, LeaderExits, GroupExits, ExitDelivered, EnvUnchanged
<1>16. CASE Returned \/ UNCHANGED vars
  BY <1>16 DEF Returned, vars
<1> QED BY <1>1, <1>2, <1>3, <1>4, <1>5, <1>6, <1>7, <1>8, <1>9, <1>10,
     <1>11, <1>12, <1>13, <1>14, <1>15, <1>16 DEF Next, Up

-----------------------------------------------------------------------------
(* A kind is among the observed steps after an append exactly if it was     *)
(* before or is the kind appended.                                          *)
Seen(o, kind) == \E k \in DOMAIN o : o[k].kind = kind

LEMMA SeenAfterAppend ==
  ASSUME NEW o \in Seq(ObservedSteps), NEW e \in ObservedSteps, NEW kind
  PROVE  /\ Append(o, e) \in Seq(ObservedSteps)
         /\ Seen(Append(o, e), kind) <=> Seen(o, kind) \/ e.kind = kind
<1>1. /\ Append(o, e) \in Seq(ObservedSteps) /\ Len(o) \in Nat
      /\ DOMAIN Append(o, e) = 1..(Len(o) + 1) /\ DOMAIN o = 1..Len(o)
      /\ Append(o, e)[Len(o) + 1] = e
      /\ \A k \in DOMAIN o : Append(o, e)[k] = o[k]
  OBVIOUS
<1> QED
  BY <1>1 DEF Seen

LEMMA SeenAfterTwo ==
  ASSUME NEW o \in Seq(ObservedSteps), NEW d \in ObservedSteps,
         NEW e \in ObservedSteps, NEW kind
  PROVE  Seen(o \o <<d, e>>, kind) <=>
           Seen(o, kind) \/ d.kind = kind \/ e.kind = kind
<1>1. o \o <<d, e>> = Append(Append(o, d), e)
  OBVIOUS
<1>2. /\ Append(o, d) \in Seq(ObservedSteps)
      /\ Seen(Append(o, d), kind) <=> Seen(o, kind) \/ d.kind = kind
  BY SeenAfterAppend
<1>3. Seen(Append(Append(o, d), e), kind) <=>
        Seen(Append(o, d), kind) \/ e.kind = kind
  BY <1>2, SeenAfterAppend
<1> QED
  BY <1>1, <1>2, <1>3

(* Only StartCommand and composeDiagnostics begin a command.                *)
LEMMA BegunStep ==
  ASSUME TypeOK, UntouchedInv, NEW kind \in {"install", "service"},
         ~StartCommand, ~\E ok \in BOOLEAN : Diagnose(ok), [Next]_vars
  PROVE  Begun(kind)' <=> Begun(kind)
<1> USE DEF Begun, Kind, Plan, TypeOK, runVars, appVars
<1>1. CASE DryRun \/ GateOpen
  BY <1>1 DEF DryRun, GateOpen
<1>2. CASE PreflightPass \/ WritePlanFiles
  BY <1>2 DEF PreflightPass, WritePlanFiles
<1>17. CASE GateRefuseEarly \/ GateRefuseLate \/ PreflightRefuse
  <2>1. /\ pc \in {"gate", "preflighted"} /\ pc' = "done" /\ observed = <<>>
        /\ observed' = observed \/ \E c : observed' = StepOfRefusal(c)
    BY <1>17, GateRefusal DEF PreflightRefuse, UntouchedInv
  <2>2. ~Begun(kind)
    BY <2>1
  <2>3. \A k \in DOMAIN observed' : observed'[k].kind \in RefusalSteps
    BY <2>1, RefusalRecord
  <2>4. kind \notin RefusalSteps
    BY DEF RefusalSteps
  <2>5. ~Begun(kind)'
    BY <2>1, <2>3, <2>4
  <2> QED
    BY <2>2, <2>5
<1>3. CASE StartCommand \/ CommandTimesOut
  BY <1>3 DEF CommandTimesOut
<1>4. CASE Closes \/ FallThrough
  <2>1. CASE Closes
    <3>1. PICK exitZero \in BOOLEAN : CommandCloses(exitZero)
      BY <2>1 DEF Closes
    <3> DEFINE e == [kind |-> Kind, ok |-> CommandOk(exitZero)]
    <3>2. observed' = Append(observed, e) /\ pc = "command" /\ pc' # "command"
      BY <3>1 DEF CommandCloses
    <3>3. e \in ObservedSteps
      BY <3>1, <3>2, CommandOkType DEF ObservedSteps
    <3>4. Seen(observed', kind) <=> Seen(observed, kind) \/ Kind = kind
      BY <3>2, <3>3, SeenAfterAppend
    <3> QED
      BY <3>2, <3>4 DEF Seen
  <2>2. CASE FallThrough
    BY <2>2 DEF FallThrough
  <2> QED
    BY <1>4, <2>1, <2>2
<1>5. CASE StartApp \/ StartComposePoll
  BY <1>5 DEF StartApp, StartComposePoll, BeginPoll
<1>6. CASE PollRound \/ PollOver \/ RoundOver \/ PauseOver \/ DeadlinePasses
  BY <1>6 DEF PollRound, PollOver, RoundOver, PauseOver, DeadlinePasses
<1>7. CASE \E u \in Urls : SendProbe(u)
  BY <1>7 DEF SendProbe
<1>8. CASE Answer \/ HandleAnswer
  BY <1>8 DEF Answer, HandleAnswer
<1>9. CASE LoopTurn
  BY <1>9 DEF LoopTurn
<1>10. CASE JudgeExited \/ JudgeBooted \/ JudgeUnhealthy
  <2>1. /\ pc = "judge" /\ pc' # "command"
        /\ \/ \E d \in ObservedSteps :
                observed' = Append(observed, d) /\ d.kind = "start-app"
           \/ \E d, e \in ObservedSteps :
                /\ observed' = observed \o <<d, e>>
                /\ d.kind = "start-app" /\ e.kind = "health"
    <3>1. CASE JudgeExited
      <4> DEFINE d == [kind |-> "start-app", ok |-> FALSE]
      <4>1. d \in ObservedSteps /\ d.kind = "start-app"
        BY DEF ObservedSteps
      <4> QED
        BY <3>1, <4>1 DEF JudgeExited
    <3>2. CASE JudgeBooted \/ JudgeUnhealthy
      <4> DEFINE d == [kind |-> "start-app", ok |-> TRUE]
                 e(x) == [kind |-> "health", ok |-> x]
      <4>1. /\ d \in ObservedSteps /\ d.kind = "start-app"
            /\ \A x \in BOOLEAN : e(x) \in ObservedSteps /\ e(x).kind = "health"
        BY DEF ObservedSteps
      <4>2. pc = "judge" /\ pc' # "command"
        BY <3>2 DEF JudgeBooted, JudgeUnhealthy
      <4>3. \E x \in BOOLEAN : observed' = observed \o <<d, e(x)>>
        BY <3>2 DEF JudgeBooted, JudgeUnhealthy
      <4> QED
        BY <4>1, <4>2, <4>3
    <3> QED
      BY <1>10, <3>1, <3>2
  <2>2. Seen(observed', kind) <=> Seen(observed, kind)
    <3>1. ASSUME NEW d \in ObservedSteps, d.kind = "start-app",
                 observed' = Append(observed, d)
          PROVE  Seen(observed', kind) <=> Seen(observed, kind)
      BY <3>1, SeenAfterAppend
    <3>2. ASSUME NEW d \in ObservedSteps, NEW e \in ObservedSteps,
                 observed' = observed \o <<d, e>>,
                 d.kind = "start-app", e.kind = "health"
          PROVE  Seen(observed', kind) <=> Seen(observed, kind)
      BY <3>2, SeenAfterTwo
    <3> QED
      BY <2>1, <3>1, <3>2
  <2> QED
    BY <2>1, <2>2 DEF Seen
<1>11. CASE StopSignal \/ StopClosed \/ StopKilled
  BY <1>11 DEF StopSignal, StopClosed, StopKilled
<1>12. CASE ComposeBooted \/ ComposeUnhealthy
  <2>1. /\ pc = "judge" /\ pc' # "command"
        /\ \E d \in ObservedSteps :
             observed' = Append(observed, d) /\ d.kind = "health"
    <3> DEFINE d(x) == [kind |-> "health", ok |-> x]
    <3>1. \A x \in BOOLEAN : d(x) \in ObservedSteps /\ d(x).kind = "health"
      BY DEF ObservedSteps
    <3>2. pc = "judge" /\ pc' # "command"
      BY <1>12 DEF ComposeBooted, ComposeUnhealthy
    <3>3. \E x \in BOOLEAN : observed' = Append(observed, d(x))
      BY <1>12 DEF ComposeBooted, ComposeUnhealthy
    <3> QED
      BY <3>1, <3>2, <3>3
  <2>2. PICK d \in ObservedSteps :
          observed' = Append(observed, d) /\ d.kind = "health"
    BY <2>1
  <2>3. Seen(observed', kind) <=> Seen(observed, kind)
    BY <2>2, SeenAfterAppend
  <2> QED
    BY <2>1, <2>3 DEF Seen
<1>13. CASE \E ok \in BOOLEAN : Diagnose(ok)
  BY <1>13
<1>14. CASE Attest
  BY <1>14 DEF Attest
<1>15. CASE Host
  BY <1>15 DEF Host, AppListens, StatusChanges, ForeignStarts,
     ComposeListens, AppPrints, OutputScrolls, ForeignStops, ComposeStops,
     AppForks, LeaderExits, GroupExits, ExitDelivered, EnvUnchanged
<1>16. CASE Returned \/ UNCHANGED vars
  BY <1>16 DEF Returned, vars
<1> QED BY <1>1, <1>2, <1>3, <1>4, <1>5, <1>6, <1>7, <1>8, <1>9, <1>10,
     <1>11, <1>12, <1>13, <1>14, <1>15, <1>16, <1>17 DEF Next, Up

LEMMA DiagnoseStep ==
  ASSUME TypeOK, NEW ok \in BOOLEAN, Diagnose(ok)
  PROVE  /\ Begun("install")' <=> Begun("install")
         /\ Begun("service")'
<1> DEFINE e == [kind |-> "service", ok |-> ok]
<1>1. /\ e \in ObservedSteps /\ observed' = Append(observed, e)
      /\ pc # "command" /\ pc' # "command"
  BY DEF Diagnose, ObservedSteps
<1>2. \A kind : Seen(observed', kind) <=> Seen(observed, kind) \/ e.kind = kind
  BY <1>1, SeenAfterAppend DEF TypeOK
<1> QED
  BY <1>1, <1>2 DEF Begun, Seen

(* No other action starts the supervised process or forgets that it ran.    *)
LEMMA QuietStep ==
  ASSUME PhaseInv, ~StartCommand, ~StartApp, [Next]_vars
  PROVE  UNCHANGED inp /\ (leader' # "none" <=> leader # "none")
<1> USE DEF PhaseInv, runVars, appVars
<1>1. CASE GateRefuseEarly \/ GateRefuseLate \/ DryRun \/ GateOpen
  BY <1>1 DEF GateRefuseEarly, GateRefuseLate, GateRefuse, DryRun, GateOpen
<1>2. CASE PreflightRefuse \/ PreflightPass \/ WritePlanFiles
  BY <1>2 DEF PreflightRefuse, PreflightPass, WritePlanFiles
<1>3. CASE StartCommand \/ CommandTimesOut
  BY <1>3 DEF CommandTimesOut
<1>4. CASE Closes \/ FallThrough
  BY <1>4 DEF Closes, CommandCloses, FallThrough
<1>5. CASE StartApp \/ StartComposePoll
  BY <1>5 DEF StartComposePoll, BeginPoll
<1>6. CASE PollRound \/ PollOver \/ RoundOver \/ PauseOver \/ DeadlinePasses
  BY <1>6 DEF PollRound, PollOver, RoundOver, PauseOver, DeadlinePasses
<1>7. CASE \E u \in Urls : SendProbe(u)
  BY <1>7 DEF SendProbe
<1>8. CASE Answer \/ HandleAnswer
  BY <1>8 DEF Answer, HandleAnswer
<1>9. CASE LoopTurn
  BY <1>9 DEF LoopTurn
<1>10. CASE JudgeExited \/ JudgeBooted \/ JudgeUnhealthy
  BY <1>10 DEF JudgeExited, JudgeBooted, JudgeUnhealthy
<1>11. CASE StopSignal \/ StopClosed \/ StopKilled
  BY <1>11 DEF StopSignal, StopClosed, StopKilled
<1>12. CASE ComposeBooted \/ ComposeUnhealthy
  BY <1>12 DEF ComposeBooted, ComposeUnhealthy
<1>13. CASE \E ok \in BOOLEAN : Diagnose(ok)
  BY <1>13 DEF Diagnose
<1>14. CASE Attest
  BY <1>14 DEF Attest
<1>15. CASE Host
  BY <1>15 DEF Host, AppListens, StatusChanges, ForeignStarts,
     ComposeListens, AppPrints, OutputScrolls, ForeignStops, ComposeStops,
     AppForks, LeaderExits, GroupExits, ExitDelivered, EnvUnchanged
<1>16. CASE Returned \/ UNCHANGED vars
  BY <1>16 DEF Returned, vars
<1> QED BY <1>1, <1>2, <1>3, <1>4, <1>5, <1>6, <1>7, <1>8, <1>9, <1>10,
     <1>11, <1>12, <1>13, <1>14, <1>15, <1>16 DEF Next, Up

-----------------------------------------------------------------------------
(* SafetyInv is inductive.                                                  *)
LEMMA ConsentStep ==
  ASSUME TypeOK, PhaseInv, UntouchedInv, GateInv, HostConsent, [Next]_vars
  PROVE  HostConsent'
<1>1. CASE StartCommand
  <2>1. /\ pc = "loop" /\ step \in 1..Len(Plan) /\ Kind = Plan[step]
        /\ UNCHANGED <<inp, step, leader, observed>>
    BY <1>1 DEF StartCommand, Kind, TypeOK, appVars
  <2>2. Kind = "install" => Acknowledged(inp) /\ inp.opts.install
    BY <2>1, HostStepConsent DEF GateInv, TypeOK
  <2>3. Begun("install")' => Begun("install") \/ Kind = "install"
    BY <2>1 DEF Begun, Kind, Plan
  <2> QED
    BY <2>1, <2>2, <2>3 DEF HostConsent, HostRan, Acknowledged
<1>2. CASE StartApp
  <2>1. /\ pc = "loop" /\ step \in 1..Len(Plan) /\ Plan[step] = "start-app"
        /\ UNCHANGED inp
    BY <1>2 DEF StartApp, BeginPoll, Kind, TypeOK
  <2>2. Acknowledged(inp)
    BY <2>1, HostStepConsent DEF GateInv, TypeOK
  <2>3. ~StartCommand /\ ~\E ok \in BOOLEAN : Diagnose(ok)
    BY <1>2, <2>1 DEF StartApp, StartCommand, BeginPoll, Diagnose
  <2>4. Begun("install")' <=> Begun("install")
    BY <2>3, BegunStep
  <2> QED
    BY <2>1, <2>2, <2>4 DEF HostConsent, Acknowledged
<1>3. CASE \E ok \in BOOLEAN : Diagnose(ok)
  <2>1. Begun("install")' <=> Begun("install")
    BY <1>3, DiagnoseStep
  <2>2. UNCHANGED <<inp, leader>>
    BY <1>3 DEF Diagnose, appVars
  <2> QED
    BY <2>1, <2>2 DEF HostConsent, HostRan, Acknowledged
<1>4. CASE ~StartCommand /\ ~StartApp /\ ~\E ok \in BOOLEAN : Diagnose(ok)
  <2>1. Begun("install")' <=> Begun("install")
    BY <1>4, BegunStep
  <2>2. UNCHANGED inp /\ (leader' # "none" => leader # "none")
    BY <1>4, QuietStep
  <2> QED
    BY <2>1, <2>2 DEF HostConsent, HostRan, Acknowledged
<1> QED
  BY <1>1, <1>2, <1>3, <1>4

LEMMA SafetyInit == Init => SafetyInv
<1> SUFFICES ASSUME Init PROVE SafetyInv
  OBVIOUS
<1>1. TypeOK
  BY TypeInit
<1>2. /\ pc = "gate" /\ phase = "preflight" /\ leader = "none" /\ observed = <<>>
      /\ verdict = NoResult /\ attestation = NoResult
  BY DEF Init
<1>3. PhaseInv /\ UntouchedInv /\ GateInv /\ LateAnswerInv
  BY <1>2 DEF PhaseInv, UntouchedInv, GateInv, LateAnswerInv, Before
<1>4. VerdictInv
  BY <1>2 DEF VerdictInv, NoResult, Result
<1>5. HostConsent
  BY <1>2 DEF HostConsent, HostRan, Begun
<1> QED
  BY <1>1, <1>3, <1>4, <1>5 DEF SafetyInv

LEMMA SafetyStep ==
  ASSUME SafetyInv, [Next]_vars
  PROVE  SafetyInv'
BY TypeStep, PhaseStep, UntouchedStep, GateStep, LateAnswerStep, VerdictStep,
   ConsentStep DEF SafetyInv

(* What TLC checks as SafetyInv's parts on small instances holds for every  *)
(* set of inputs, of URLs and of statuses.                                  *)
THEOREM SafetyCorrect == Spec => []SafetyInv
<1>1. Init => SafetyInv
  BY SafetyInit
<1>2. SafetyInv /\ [Next]_vars => SafetyInv'
  BY SafetyStep
<1> QED
  BY <1>1, <1>2, PTL DEF Spec

(* A boot of a supervised application rests on a response given while the   *)
(* supervised process was running (run.ts:554-612).                         *)
THEOREM AttributedBootCorrect == Spec => []AttributedBoot
<1>1. SafetyInv => AttributedBoot
  BY DEF SafetyInv, VerdictInv, AttributedBoot, Booted, Supports
<1> QED
  BY <1>1, SafetyCorrect, PTL

(* Nothing of the repository runs on the host without consent               *)
(* (run.ts:340-383).                                                        *)
THEOREM HostConsentCorrect == Spec => []HostConsent
<1>1. SafetyInv => HostConsent
  BY DEF SafetyInv
<1> QED
  BY <1>1, SafetyCorrect, PTL

-----------------------------------------------------------------------------
(* The refinement: the strengthening it needs beyond SafetyInv is that the  *)
(* containers of a Compose application were started before it is polled,    *)
(* because their step is the first of the plan.                             *)
ComposeInv == phase = "compose" => Begun("service")

FirstStepInv ==
  /\ pc \in {"loop", "command"} /\ step = 1 => observed = <<>>
  /\ step > 1 => observed # <<>> /\ observed[1].kind = Plan[1]

RefinementInv == SafetyInv /\ ComposeInv /\ FirstStepInv

LEMMA ServiceComesFirst ==
  ASSUME inp \in InputSet, RunsSourceCompose(inp)
  PROVE  Plan[1] = "service"
<1>1. inp.facts.repoCompose /\ inp.opts.provider = "docker"
  <2>1. inp.facts.builds \in Nat
    BY InputType DEF Inputs, Facts
  <2> QED
    BY <2>1, InputType DEF RunsSourceCompose, Inferable
<1>2. ServiceSteps(inp) = <<"service">>
  BY <1>1 DEF ServiceSteps
<1>3. HostSteps(inp) \in Seq({"install", "start-app"})
      /\ HealthSteps(inp) \in Seq({"health"})
  BY PlanParts
<1> QED
  BY <1>2, <1>3 DEF Plan, PlanSteps

(* An append keeps the first observed step.                                 *)
LEMMA FirstAfterAppend ==
  ASSUME NEW o \in Seq(ObservedSteps), NEW e \in ObservedSteps
  PROVE  /\ Append(o, e) # <<>> /\ Append(o, e) \in Seq(ObservedSteps)
         /\ o # <<>> => Append(o, e)[1] = o[1]
         /\ o = <<>> => Append(o, e)[1] = e
OBVIOUS

LEMMA FirstAfterTwo ==
  ASSUME NEW o \in Seq(ObservedSteps), NEW d \in ObservedSteps,
         NEW e \in ObservedSteps, o # <<>>
  PROVE  o \o <<d, e>> # <<>> /\ (o \o <<d, e>>)[1] = o[1]
<1>1. o \o <<d, e>> = Append(Append(o, d), e)
  OBVIOUS
<1>2. /\ Append(o, d) \in Seq(ObservedSteps) /\ Append(o, d) # <<>>
      /\ Append(o, d)[1] = o[1]
  BY FirstAfterAppend
<1> QED
  BY <1>1, <1>2, FirstAfterAppend

LEMMA FirstStepStep ==
  ASSUME TypeOK, PhaseInv, UntouchedInv, FirstStepInv, [Next]_vars
  PROVE  FirstStepInv'
<1> USE DEF FirstStepInv, PhaseInv, UntouchedInv, Before, Plan, TypeOK,
           runVars, appVars
<1>1. CASE GateRefuseEarly \/ GateRefuseLate \/ DryRun \/ GateOpen
  BY <1>1 DEF GateRefuseEarly, GateRefuseLate, GateRefuse, DryRun, GateOpen
<1>2. CASE PreflightRefuse \/ PreflightPass \/ WritePlanFiles
  BY <1>2 DEF PreflightRefuse, PreflightPass, WritePlanFiles
<1>3. CASE StartCommand \/ CommandTimesOut
  BY <1>3 DEF StartCommand, CommandTimesOut
<1>4. CASE Closes \/ FallThrough
  <2>1. CASE Closes
    <3>1. PICK exitZero \in BOOLEAN : CommandCloses(exitZero)
      BY <2>1 DEF Closes
    <3> DEFINE e == [kind |-> Kind, ok |-> CommandOk(exitZero)]
    <3>2. /\ observed' = Append(observed, e) /\ pc = "command"
          /\ UNCHANGED inp
      BY <3>1 DEF CommandCloses
    <3>5. \/ step' = step /\ pc' = "attest"
          \/ step' = step + 1 /\ pc' = "loop"
      <4>1. CASE CommandOk(exitZero)
        BY <3>1, <4>1 DEF CommandCloses
      <4>2. CASE ~CommandOk(exitZero)
        BY <3>1, <4>2 DEF CommandCloses
      <4> QED
        BY <4>1, <4>2
    <3>3. e \in ObservedSteps
      BY <3>1, <3>2, CommandOkType DEF ObservedSteps
    <3>4. /\ observed' # <<>>
          /\ observed # <<>> => observed'[1] = observed[1]
          /\ observed = <<>> => observed'[1].kind = Kind
      BY <3>2, <3>3, FirstAfterAppend
    <3> QED
      BY <3>2, <3>4, <3>5 DEF Kind
  <2>2. CASE FallThrough
    BY <2>2 DEF FallThrough
  <2> QED
    BY <1>4, <2>1, <2>2
<1>5. CASE StartApp \/ StartComposePoll
  BY <1>5 DEF StartApp, StartComposePoll, BeginPoll
<1>6. CASE PollRound \/ PollOver \/ RoundOver \/ PauseOver \/ DeadlinePasses
  BY <1>6 DEF PollRound, PollOver, RoundOver, PauseOver, DeadlinePasses
<1>7. CASE \E u \in Urls : SendProbe(u)
  BY <1>7 DEF SendProbe
<1>8. CASE Answer \/ HandleAnswer
  BY <1>8 DEF Answer, HandleAnswer
<1>9. CASE LoopTurn
  BY <1>9 DEF LoopTurn
<1>10. CASE JudgeExited \/ JudgeBooted \/ JudgeUnhealthy
  <2>1. CASE JudgeExited
    <3> DEFINE d == [kind |-> "start-app", ok |-> FALSE]
    <3>1. d \in ObservedSteps /\ observed' = Append(observed, d)
      BY <2>1 DEF JudgeExited, ObservedSteps
    <3>2. observed # <<>> => observed' # <<>> /\ observed'[1] = observed[1]
      BY <3>1, FirstAfterAppend
    <3>3. pc' = "attest" /\ UNCHANGED <<step, inp>>
      BY <2>1 DEF JudgeExited
    <3> QED
      BY <3>2, <3>3
  <2>2. CASE JudgeBooted \/ JudgeUnhealthy
    <3> DEFINE d == [kind |-> "start-app", ok |-> TRUE]
               e(x) == [kind |-> "health", ok |-> x]
    <3>1. d \in ObservedSteps /\ \A x \in BOOLEAN : e(x) \in ObservedSteps
      BY DEF ObservedSteps
    <3>2. PICK x \in BOOLEAN : observed' = observed \o <<d, e(x)>>
      BY <2>2 DEF JudgeBooted, JudgeUnhealthy
    <3>3. observed # <<>> => observed' # <<>> /\ observed'[1] = observed[1]
      BY <3>1, <3>2, FirstAfterTwo
    <3>4. pc' = "stop" /\ UNCHANGED <<step, inp>>
      BY <2>2 DEF JudgeBooted, JudgeUnhealthy
    <3> QED
      BY <3>3, <3>4
  <2> QED
    BY <1>10, <2>1, <2>2
<1>11. CASE StopSignal \/ StopClosed \/ StopKilled
  BY <1>11 DEF StopSignal, StopClosed, StopKilled
<1>12. CASE ComposeBooted \/ ComposeUnhealthy
  BY <1>12 DEF ComposeBooted, ComposeUnhealthy
<1>13. CASE \E ok \in BOOLEAN : Diagnose(ok)
  <2>1. PICK ok \in BOOLEAN : Diagnose(ok)
    BY <1>13
  <2> DEFINE e == [kind |-> "service", ok |-> ok]
  <2>2. e \in ObservedSteps /\ observed' = Append(observed, e)
    BY <2>1 DEF Diagnose, ObservedSteps
  <2>3. observed # <<>> => observed' # <<>> /\ observed'[1] = observed[1]
    BY <2>2, FirstAfterAppend
  <2>4. pc' \in {"attest", "diagnose-logs"} /\ UNCHANGED <<step, inp>>
    BY <2>1 DEF Diagnose
  <2> QED
    BY <2>3, <2>4
<1>14. CASE Attest
  BY <1>14 DEF Attest
<1>15. CASE Host
  BY <1>15 DEF Host, AppListens, StatusChanges, ForeignStarts,
     ComposeListens, AppPrints, OutputScrolls, ForeignStops, ComposeStops,
     AppForks, LeaderExits, GroupExits, ExitDelivered, EnvUnchanged
<1>16. CASE Returned \/ UNCHANGED vars
  BY <1>16 DEF Returned, vars
<1> QED BY <1>1, <1>2, <1>3, <1>4, <1>5, <1>6, <1>7, <1>8, <1>9, <1>10,
     <1>11, <1>12, <1>13, <1>14, <1>15, <1>16 DEF Next, Up

(* Who may change the evidence and the attestation.                         *)
LEMMA HeardStep ==
  ASSUME ~StartApp, ~StartComposePoll, ~HandleAnswer, [Next]_vars
  PROVE  UNCHANGED <<phase, latest>>
<1> USE DEF runVars, appVars
<1>1. CASE GateRefuseEarly \/ GateRefuseLate \/ DryRun \/ GateOpen
  BY <1>1 DEF GateRefuseEarly, GateRefuseLate, GateRefuse, DryRun, GateOpen
<1>2. CASE PreflightRefuse \/ PreflightPass \/ WritePlanFiles
  BY <1>2 DEF PreflightRefuse, PreflightPass, WritePlanFiles
<1>3. CASE StartCommand \/ CommandTimesOut
  BY <1>3 DEF StartCommand, CommandTimesOut
<1>4. CASE Closes \/ FallThrough
  BY <1>4 DEF Closes, CommandCloses, FallThrough
<1>5. CASE StartApp \/ StartComposePoll
  BY <1>5
<1>6. CASE PollRound \/ PollOver \/ RoundOver \/ PauseOver \/ DeadlinePasses
  BY <1>6 DEF PollRound, PollOver, RoundOver, PauseOver, DeadlinePasses
<1>7. CASE \E u \in Urls : SendProbe(u)
  BY <1>7 DEF SendProbe
<1>8. CASE Answer \/ HandleAnswer
  BY <1>8 DEF Answer
<1>9. CASE LoopTurn
  BY <1>9 DEF LoopTurn
<1>10. CASE JudgeExited \/ JudgeBooted \/ JudgeUnhealthy
  BY <1>10 DEF JudgeExited, JudgeBooted, JudgeUnhealthy
<1>11. CASE StopSignal \/ StopClosed \/ StopKilled
  BY <1>11 DEF StopSignal, StopClosed, StopKilled
<1>12. CASE ComposeBooted \/ ComposeUnhealthy
  BY <1>12 DEF ComposeBooted, ComposeUnhealthy
<1>13. CASE \E ok \in BOOLEAN : Diagnose(ok)
  BY <1>13 DEF Diagnose
<1>14. CASE Attest
  BY <1>14 DEF Attest
<1>15. CASE Host
  BY <1>15 DEF Host, AppListens, StatusChanges, ForeignStarts,
     ComposeListens, AppPrints, OutputScrolls, ForeignStops, ComposeStops,
     AppForks, LeaderExits, GroupExits, ExitDelivered, EnvUnchanged
<1>16. CASE Returned \/ UNCHANGED vars
  BY <1>16 DEF Returned, vars
<1> QED BY <1>1, <1>2, <1>3, <1>4, <1>5, <1>6, <1>7, <1>8, <1>9, <1>10,
     <1>11, <1>12, <1>13, <1>14, <1>15, <1>16 DEF Next, Up

LEMMA ReportStep ==
  ASSUME ~GateRefuseEarly, ~GateRefuseLate,
         ~PreflightRefuse, ~Attest, [Next]_vars
  PROVE  UNCHANGED attestation
<1> USE DEF runVars, appVars
<1>1. CASE GateRefuseEarly \/ GateRefuseLate \/ DryRun \/ GateOpen
  BY <1>1 DEF DryRun, GateOpen
<1>2. CASE PreflightRefuse \/ PreflightPass \/ WritePlanFiles
  BY <1>2 DEF PreflightPass, WritePlanFiles
<1>3. CASE StartCommand \/ CommandTimesOut
  BY <1>3 DEF StartCommand, CommandTimesOut
<1>4. CASE Closes \/ FallThrough
  BY <1>4 DEF Closes, CommandCloses, FallThrough
<1>5. CASE StartApp \/ StartComposePoll
  BY <1>5 DEF StartApp, StartComposePoll, BeginPoll
<1>6. CASE PollRound \/ PollOver \/ RoundOver \/ PauseOver \/ DeadlinePasses
  BY <1>6 DEF PollRound, PollOver, RoundOver, PauseOver, DeadlinePasses
<1>7. CASE \E u \in Urls : SendProbe(u)
  BY <1>7 DEF SendProbe
<1>8. CASE Answer \/ HandleAnswer
  BY <1>8 DEF Answer, HandleAnswer
<1>9. CASE LoopTurn
  BY <1>9 DEF LoopTurn
<1>10. CASE JudgeExited \/ JudgeBooted \/ JudgeUnhealthy
  BY <1>10 DEF JudgeExited, JudgeBooted, JudgeUnhealthy
<1>11. CASE StopSignal \/ StopClosed \/ StopKilled
  BY <1>11 DEF StopSignal, StopClosed, StopKilled
<1>12. CASE ComposeBooted \/ ComposeUnhealthy
  BY <1>12 DEF ComposeBooted, ComposeUnhealthy
<1>13. CASE \E ok \in BOOLEAN : Diagnose(ok)
  BY <1>13 DEF Diagnose
<1>14. CASE Attest
  BY <1>14
<1>15. CASE Host
  BY <1>15 DEF Host, AppListens, StatusChanges, ForeignStarts,
     ComposeListens, AppPrints, OutputScrolls, ForeignStops, ComposeStops,
     AppForks, LeaderExits, GroupExits, ExitDelivered, EnvUnchanged
<1>16. CASE Returned \/ UNCHANGED vars
  BY <1>16 DEF Returned, vars
<1> QED BY <1>1, <1>2, <1>3, <1>4, <1>5, <1>6, <1>7, <1>8, <1>9, <1>10,
     <1>11, <1>12, <1>13, <1>14, <1>15, <1>16 DEF Next, Up

LEMMA ComposeStep ==
  ASSUME TypeOK, UntouchedInv, FirstStepInv, ComposeInv, [Next]_vars
  PROVE  ComposeInv'
<1>1. CASE StartCommand \/ StartApp
  BY <1>1 DEF StartCommand, StartApp, BeginPoll, ComposeInv, Begun
<1>2. CASE StartComposePoll
  <2>1. /\ step <= Len(Plan) /\ Plan[step] = "health" /\ RunsSourceCompose(inp)
        /\ UNCHANGED observed
    BY <1>2 DEF StartComposePoll, BeginPoll, Kind
  <2>2. step > 1
    BY <2>1, ServiceComesFirst DEF TypeOK
  <2>3. observed # <<>> /\ observed[1].kind = "service"
    BY <2>1, <2>2, ServiceComesFirst DEF FirstStepInv, TypeOK
  <2>4. 1 \in DOMAIN observed
    BY <2>3 DEF TypeOK
  <2> QED
    BY <2>1, <2>3, <2>4 DEF ComposeInv, Begun
<1>3. CASE \E ok \in BOOLEAN : Diagnose(ok)
  BY <1>3, DiagnoseStep DEF ComposeInv
<1>4. CASE /\ ~StartCommand /\ ~StartApp /\ ~StartComposePoll
           /\ ~\E ok \in BOOLEAN : Diagnose(ok)
  <2>1. Begun("service")' <=> Begun("service")
    BY <1>4, BegunStep
  <2>2. CASE HandleAnswer
    BY <2>1, <2>2 DEF HandleAnswer, ComposeInv
  <2>3. CASE ~HandleAnswer
    BY <1>4, <2>1, <2>3, HeardStep DEF ComposeInv
  <2> QED
    BY <2>2, <2>3
<1> QED
  BY <1>1, <1>2, <1>3, <1>4

LEMMA RefinementInvStep ==
  ASSUME RefinementInv, [Next]_vars
  PROVE  RefinementInv'
BY SafetyStep, FirstStepStep, ComposeStep DEF RefinementInv, SafetyInv

(* What was run does not change but by starting something.                  *)
LEMMA RanStep ==
  ASSUME RefinementInv, [Next]_vars, ~StartCommand, ~StartApp
  PROVE  Ran' = Ran /\ UNCHANGED inp
<1>1. UNCHANGED inp /\ (leader' # "none" <=> leader # "none")
  BY QuietStep DEF RefinementInv, SafetyInv
<1>2. CASE \E ok \in BOOLEAN : Diagnose(ok)
  <2>1. phase = "compose"
    BY <1>2 DEF Diagnose, RefinementInv, SafetyInv, PhaseInv
  <2>2. Begun("service") /\ Begun("service")'
    BY <1>2, <2>1, DiagnoseStep DEF RefinementInv, SafetyInv, ComposeInv
  <2>3. Begun("install")' <=> Begun("install")
    BY <1>2, DiagnoseStep DEF RefinementInv, SafetyInv
  <2> QED
    BY <1>1, <2>2, <2>3 DEF Ran, HostRan
<1>3. CASE ~\E ok \in BOOLEAN : Diagnose(ok)
  <2>1. /\ Begun("install")' <=> Begun("install")
        /\ Begun("service")' <=> Begun("service")
    BY <1>3, BegunStep DEF RefinementInv, SafetyInv
  <2> QED
    BY <1>1, <2>1 DEF Ran, HostRan
<1> QED
  BY <1>2, <1>3

Heard == phase # "preflight" /\ Supports(latest)

LEMMA SameReport ==
  ASSUME RefinementInv, pc # "done"
  PROVE  attestation.result = "none"
BY DEF RefinementInv, SafetyInv, VerdictInv, NoResult, Result

LEMMA NothingRan ==
  ASSUME RefinementInv, pc \in {"gate", "preflighted"}
  PROVE  Ran = "nothing"
<1>1. leader = "none" /\ observed = <<>>
  BY DEF RefinementInv, SafetyInv, UntouchedInv
<1> QED
  BY <1>1 DEF Ran, HostRan, Begun

LEMMA PromiseStep ==
  ASSUME RefinementInv, [Next]_vars
  PROVE  [Verdict!Next]_Verdict!vars
<1> USE DEF Verdict!Next, Verdict!vars, Verdict!Silent, Verdict!Conclude
<1>1. CASE GateRefuseEarly \/ GateRefuseLate \/ PreflightRefuse
  <2>1. /\ pc \in {"gate", "preflighted"} /\ UNCHANGED <<inp, phase, latest>>
        /\ attestation'.result \in {"none", "refused"}
    BY <1>1 DEF GateRefuseEarly, GateRefuseLate, GateRefuse, PreflightRefuse,
       NoResult, Result
  <2>2. ~StartCommand /\ ~StartApp
    BY <2>1 DEF StartCommand, StartApp
  <2>3. /\ Ran = "nothing" /\ Ran' = Ran
        /\ Acknowledged(inp)' = Acknowledged(inp) /\ Heard' = Heard
        /\ attestation.result = "none"
    BY <2>1, <2>2, NothingRan, RanStep, SameReport
       DEF Heard, Supports, Accepted, Acknowledged
  <2> QED
    BY <2>1, <2>3 DEF Verdict!Refuse, Heard
<1>2. CASE StartCommand
  <2>1. /\ pc = "loop" /\ step \in 1..Len(Plan) /\ Plan[step] = Kind
        /\ Kind \in {"service", "install"}
        /\ UNCHANGED <<inp, step, phase, latest, observed, attestation, leader>>
        /\ pc' = "command"
    BY <1>2 DEF StartCommand, RefinementInv, SafetyInv, TypeOK, Kind, appVars
  <2>2. Kind = "install" => Acknowledged(inp)
    BY <2>1, HostStepConsent DEF RefinementInv, SafetyInv, GateInv, TypeOK
  <2>3. /\ Begun("install")' <=> Begun("install") \/ Kind = "install"
        /\ Begun("service")' <=> Begun("service") \/ Kind = "service"
    BY <2>1 DEF Begun, Kind, Plan
  <2>4. /\ Acknowledged(inp)' = Acknowledged(inp) /\ Heard' = Heard
        /\ attestation'.result = "none" /\ attestation.result = "none"
    BY <2>1, SameReport DEF Heard, Supports, Accepted, Acknowledged
  <2>5. \/ Ran' = Ran
        \/ Ran' = "host" /\ Acknowledged(inp)
        \/ Ran = "nothing" /\ Ran' = "containers"
    BY <2>1, <2>2, <2>3 DEF Ran, HostRan
  <2> QED
    BY <2>4, <2>5 DEF Verdict!RunHost, Verdict!RunContainers, Heard
<1>3. CASE StartApp
  <2>1. /\ pc = "loop" /\ step \in 1..Len(Plan) /\ Plan[step] = "start-app"
        /\ UNCHANGED <<inp, attestation>> /\ leader' = "running"
        /\ latest' = NoEvidence
    BY <1>3 DEF StartApp, BeginPoll, RefinementInv, SafetyInv, TypeOK, Kind
  <2>2. Acknowledged(inp) /\ Acknowledged(inp)'
    BY <2>1, HostStepConsent
       DEF RefinementInv, SafetyInv, GateInv, TypeOK, Acknowledged
  <2>3. ~Heard /\ ~Heard'
    BY <2>1 DEF Heard, RefinementInv, SafetyInv, PhaseInv, Before, Supports,
       Accepted, NoEvidence, Evidence
  <2>4. Ran' = "host"
    BY <2>1 DEF Ran, HostRan
  <2>5. attestation.result = "none" /\ attestation'.result = "none"
    BY <2>1, SameReport
  <2> QED
    BY <2>2, <2>3, <2>4, <2>5 DEF Verdict!RunHost, Heard
<1>4. CASE StartComposePoll
  <2>1. /\ pc = "loop" /\ latest' = NoEvidence /\ UNCHANGED attestation
    BY <1>4 DEF StartComposePoll, BeginPoll
  <2>2. ~StartCommand /\ ~StartApp
    BY <1>4 DEF StartComposePoll, StartCommand, StartApp
  <2>3. ~Heard /\ ~Heard'
    BY <2>1 DEF Heard, RefinementInv, SafetyInv, PhaseInv, Before, Supports,
       Accepted, NoEvidence, Evidence
  <2> QED
    BY <2>1, <2>2, <2>3, RanStep DEF Heard, Acknowledged
<1>5. CASE HandleAnswer
  <2>1. /\ pc = "answered" /\ UNCHANGED <<phase, attestation>>
    BY <1>5 DEF HandleAnswer
  <2>2. ~StartCommand /\ ~StartApp
    BY <2>1 DEF StartCommand, StartApp
  <2>3. Ran' = Ran /\ UNCHANGED inp /\ attestation.result = "none"
    BY <2>1, <2>2, RanStep, SameReport
  <2>4. CASE phase = "preflight"
    BY <2>1, <2>3, <2>4 DEF Heard, Acknowledged
  <2>5. CASE phase # "preflight"
    <3>1. Ran # "nothing"
      BY <2>5 DEF RefinementInv, SafetyInv, TypeOK, PhaseInv, ComposeInv, Ran,
         HostRan
    <3>2. Heard' \in BOOLEAN
      BY DEF Heard, Supports, Accepted
    <3> QED
      BY <2>1, <2>3, <3>1, <3>2 DEF Verdict!Hear, Heard, Acknowledged
  <2> QED
    BY <2>4, <2>5
<1>6. CASE Attest
  <2>1. /\ pc = "attest" /\ UNCHANGED <<inp, phase, latest>>
        /\ attestation' = verdict
    BY <1>6 DEF Attest
  <2>2. ~StartCommand /\ ~StartApp
    BY <2>1 DEF StartCommand, StartApp
  <2>3. /\ Ran' = Ran /\ Acknowledged(inp)' = Acknowledged(inp)
        /\ Heard' = Heard /\ attestation.result = "none"
    BY <2>1, <2>2, RanStep, SameReport
       DEF Heard, Supports, Accepted, Acknowledged
  <2>4. /\ verdict.result \in {"booted", "failed"}
        /\ verdict.result = "booted" => Heard
    BY <2>1 DEF RefinementInv, SafetyInv, VerdictInv, Heard
  <2> QED
    BY <2>1, <2>3, <2>4 DEF Verdict!Boot, Verdict!Fail, Heard
<1>7. CASE /\ ~GateRefuseEarly /\ ~GateRefuseLate /\ ~PreflightRefuse
           /\ ~StartCommand /\ ~StartApp /\ ~StartComposePoll
           /\ ~HandleAnswer /\ ~Attest
  <2>1. UNCHANGED <<phase, latest, attestation, inp>> /\ Ran' = Ran
    BY <1>7, HeardStep, ReportStep, RanStep
  <2>2. Heard' = Heard /\ Acknowledged(inp)' = Acknowledged(inp)
    BY <2>1 DEF Heard, Supports, Accepted, Acknowledged
  <2> QED
    BY <2>1, <2>2 DEF Heard
<1> QED
  BY <1>1, <1>2, <1>3, <1>4, <1>5, <1>6, <1>7

(* The step loop keeps the promise of BootVerdict: it refuses before it     *)
(* runs, runs on the host with consent, concludes "booted" while its        *)
(* evidence supports it, and concludes once (run.ts:222-710).               *)
THEOREM PromiseKept == Spec => KeepsPromise
<1>1. Init => RefinementInv
  <2> SUFFICES ASSUME Init PROVE RefinementInv
    OBVIOUS
  <2>1. SafetyInv
    BY SafetyInit
  <2>2. ComposeInv /\ FirstStepInv
    BY DEF Init, ComposeInv, FirstStepInv
  <2> QED
    BY <2>1, <2>2 DEF RefinementInv
<1>2. RefinementInv /\ [Next]_vars => RefinementInv'
  BY RefinementInvStep
<1>3. Init => Verdict!Init
  <2> SUFFICES ASSUME Init PROVE Verdict!Init
    OBVIOUS
  <2>1. /\ phase = "preflight" /\ leader = "none" /\ observed = <<>>
        /\ pc = "gate" /\ attestation = NoResult /\ inp \in InputSet
    BY DEF Init
  <2>2. Ran = "nothing"
    BY <2>1 DEF Ran, HostRan, Begun
  <2>3. Acknowledged(inp) \in BOOLEAN
    BY DEF Acknowledged
  <2> QED
    BY <2>1, <2>2, <2>3 DEF Verdict!Init, NoResult, Result
<1>4. RefinementInv /\ [Next]_vars => [Verdict!Next]_Verdict!vars
  BY PromiseStep
<1> QED
  BY <1>1, <1>2, <1>3, <1>4, PTL DEF Spec, KeepsPromise, Verdict!Spec
-----------------------------------------------------------------------------
(* The supervised process: it exists in the phase of its own polls only,    *)
(* its exit is known only once it happened, and it is gone where nothing    *)
(* waits for it any more.                                                   *)
LeaderInv ==
  /\ leader # "none" => phase = "app"
  /\ exitSeen => leader = "exited"
  /\ phase = "app" /\ pc \in {"attest", "done"} => leader = "exited"

LEMMA LeaderStep ==
  ASSUME TypeOK, PhaseInv, LeaderInv, [Next]_vars
  PROVE  LeaderInv'
<1> USE DEF LeaderInv, PhaseInv, Before, TypeOK, runVars, appVars
<1>1. CASE GateRefuseEarly \/ GateRefuseLate \/ DryRun \/ GateOpen
  BY <1>1 DEF GateRefuseEarly, GateRefuseLate, GateRefuse, DryRun, GateOpen
<1>2. CASE PreflightRefuse \/ PreflightPass \/ WritePlanFiles
  BY <1>2 DEF PreflightRefuse, PreflightPass, WritePlanFiles
<1>3. CASE StartCommand \/ CommandTimesOut
  BY <1>3 DEF StartCommand, CommandTimesOut
<1>4. CASE Closes \/ FallThrough
  <2>1. /\ pc \in {"loop", "command"}
        /\ UNCHANGED <<phase, leader, exitSeen>>
    BY <1>4 DEF Closes, CommandCloses, FallThrough
  <2> QED
    BY <2>1
<1>5. CASE StartApp \/ StartComposePoll
  BY <1>5 DEF StartApp, StartComposePoll, BeginPoll
<1>6. CASE PollRound \/ PollOver \/ RoundOver \/ PauseOver \/ DeadlinePasses
  BY <1>6 DEF PollRound, PollOver, RoundOver, PauseOver, DeadlinePasses
<1>7. CASE \E u \in Urls : SendProbe(u)
  BY <1>7 DEF SendProbe
<1>8. CASE Answer \/ HandleAnswer
  BY <1>8 DEF Answer, HandleAnswer
<1>9. CASE LoopTurn
  BY <1>9 DEF LoopTurn
<1>10. CASE JudgeExited \/ JudgeBooted \/ JudgeUnhealthy
  BY <1>10 DEF JudgeExited, JudgeBooted, JudgeUnhealthy
<1>11. CASE StopSignal \/ StopClosed \/ StopKilled
  BY <1>11 DEF StopSignal, StopClosed, StopKilled
<1>12. CASE ComposeBooted \/ ComposeUnhealthy
  BY <1>12 DEF ComposeBooted, ComposeUnhealthy
<1>13. CASE \E ok \in BOOLEAN : Diagnose(ok)
  BY <1>13 DEF Diagnose
<1>14. CASE Attest
  BY <1>14 DEF Attest
<1>15. CASE Host
  BY <1>15 DEF Host, AppListens, StatusChanges, ForeignStarts,
     ComposeListens, AppPrints, OutputScrolls, ForeignStops, ComposeStops,
     AppForks, LeaderExits, GroupExits, ExitDelivered, EnvUnchanged
<1>16. CASE Returned \/ UNCHANGED vars
  BY <1>16 DEF Returned, vars
<1> QED BY <1>1, <1>2, <1>3, <1>4, <1>5, <1>6, <1>7, <1>8, <1>9, <1>10,
     <1>11, <1>12, <1>13, <1>14, <1>15, <1>16 DEF Next, Up

(* When `up` returns, the process it supervised is gone (run.ts:601-656,    *)
(* exec.ts:195-203).                                                        *)
THEOREM NoLeaderSurvivesCorrect == Spec => []NoLeaderSurvives
<1>1. Init => LeaderInv
  BY DEF Init, LeaderInv
<1>2. SafetyInv /\ LeaderInv /\ [Next]_vars => LeaderInv'
  BY LeaderStep DEF SafetyInv
<1>3. LeaderInv => NoLeaderSurvives
  BY DEF LeaderInv, NoLeaderSurvives
<1> QED
  BY <1>1, <1>2, <1>3, SafetyCorrect, PTL DEF Spec

-----------------------------------------------------------------------------
(* A class is backed by the evidence it comes with and by the steps that    *)
(* were observed.                                                           *)
LostIn(o, kind) == \E k \in DOMAIN o : o[k].kind = kind /\ ~o[k].ok

Backed(r, seen, over, o) ==
  /\ r.class = "install_failed" => LostIn(o, "install")
  /\ r.class = "app_exited_early" => seen /\ LostIn(o, "start-app")
  /\ r.class = "health_check_timeout" =>
       over /\ LostIn(o, "health") /\ r.evidence.status # "error5xx"
  /\ r.evidence.status = "error5xx" /\ ~LostIn(o, "start-app") =>
       r.class \in {"health_http_error", "health_candidate_port_mismatch"}
  /\ Accepted(r.evidence) => LostIn(o, "start-app")

Ending == {"stop", "stopping", "attest", "done"}

(* A failed verdict is backed from where it is drawn; a poll that is over   *)
(* has run into its timeout, an exit or an accepted response; and a Compose *)
(* application is only diagnosed after an unhealthy timeout.                *)
ClassInv ==
  /\ verdict.result = "failed" =>
       pc \in Ending /\ Backed(verdict, exitSeen, late, observed)
  /\ attestation.result = "failed" => attestation = verdict
  /\ pc \in {"turn", "judge"} =>
       late \/ (phase = "app" /\ exitSeen) \/ Accepted(latest)
  /\ pc \in {"diagnose-ps", "diagnose-logs"} =>
       late /\ ~Accepted(latest) /\ LostIn(observed, "health")

LEMMA LostAfterAppend ==
  ASSUME NEW o \in Seq(ObservedSteps), NEW e \in ObservedSteps, NEW kind
  PROVE  /\ Append(o, e) \in Seq(ObservedSteps)
         /\ LostIn(Append(o, e), kind) <=>
              LostIn(o, kind) \/ (e.kind = kind /\ ~e.ok)
<1>1. /\ Append(o, e) \in Seq(ObservedSteps) /\ Len(o) \in Nat
      /\ DOMAIN Append(o, e) = 1..(Len(o) + 1) /\ DOMAIN o = 1..Len(o)
      /\ Append(o, e)[Len(o) + 1] = e
      /\ \A k \in DOMAIN o : Append(o, e)[k] = o[k]
  OBVIOUS
<1> QED
  BY <1>1 DEF LostIn

(* The verdicts of the step loop.                                           *)
LEMMA UnhealthyBacked ==
  ASSUME NEW m, NEW c \in UnhealthyClasses(m, latest), NEW seen, NEW o,
         late, ~Accepted(latest), LostIn(o, "health")
  PROVE  Backed(Result("failed", c, latest), seen, late, o)
BY DEF UnhealthyClasses, ByText, Backed, Result

LEMMA ClosesBacked ==
  ASSUME TypeOK, ClassInv, NEW exitZero \in BOOLEAN, CommandCloses(exitZero)
  PROVE  ClassInv'
<1> DEFINE e == [kind |-> Kind, ok |-> CommandOk(exitZero)]
<1>1. /\ pc = "command" /\ pc' \in {"loop", "attest"}
      /\ observed' = Append(observed, e) /\ UNCHANGED attestation
      /\ e.kind = Kind /\ e.ok = CommandOk(exitZero)
  BY DEF CommandCloses
<1>2. e \in ObservedSteps
  BY <1>1, CommandOkType DEF ObservedSteps, TypeOK
<1>3. verdict.result # "failed" /\ attestation.result # "failed"
  BY <1>1 DEF ClassInv, Ending
<1>4. CASE CommandOk(exitZero)
  <2>1. pc' = "loop" /\ verdict' = verdict
    BY <1>4 DEF CommandCloses
  <2> QED
    BY <1>1, <1>3, <2>1 DEF ClassInv
<1>5. CASE ~CommandOk(exitZero)
  <2>1. PICK c \in ByText \cup {IF Kind = "install" THEN "install_failed"
                                                   ELSE "unknown_failure"} :
          verdict' = Result("failed", c, NoEvidence)
    BY <1>5 DEF CommandCloses
  <2>2. c = "install_failed" => Kind = "install"
    BY DEF ByText
  <2>3. c \notin {"app_exited_early", "health_check_timeout"}
    BY DEF ByText
  <2>4. c = "install_failed" => LostIn(observed', "install")
    BY <1>1, <1>2, <1>5, <2>2, LostAfterAppend DEF TypeOK
  <2>5. /\ verdict'.class = c /\ verdict'.evidence.status = "none"
        /\ ~Accepted(verdict'.evidence)
    BY <2>1 DEF Result, NoEvidence, Evidence, Accepted
  <2>6. Backed(verdict', exitSeen', late', observed')
    BY <2>3, <2>4, <2>5 DEF Backed
  <2>7. pc' = "attest"
    BY <1>5 DEF CommandCloses
  <2> QED
    BY <1>1, <1>3, <2>6, <2>7 DEF ClassInv, Ending
<1> QED
  BY <1>4, <1>5

LEMMA ExitedBacked ==
  ASSUME TypeOK, ClassInv, JudgeExited
  PROVE  ClassInv'
<1> DEFINE e == [kind |-> "start-app", ok |-> FALSE]
<1>1. /\ pc = "judge" /\ pc' = "attest" /\ exitSeen /\ exitSeen'
      /\ observed' = Append(observed, e) /\ UNCHANGED attestation
      /\ e.kind = "start-app" /\ e.ok = FALSE
  BY DEF JudgeExited, appVars
<1>2. e \in ObservedSteps
  BY DEF ObservedSteps
<1>3. LostIn(observed', "start-app")
  BY <1>1, <1>2, LostAfterAppend DEF TypeOK
<1>4. PICK c \in ByText \cup {"app_exited_early"} :
        verdict' = Result("failed", c, latest)
  BY DEF JudgeExited
<1>5. verdict'.class = c /\ c \notin {"install_failed", "health_check_timeout"}
  BY <1>4 DEF Result, ByText
<1>6. Backed(verdict', exitSeen', late', observed')
  BY <1>1, <1>3, <1>5 DEF Backed
<1>7. attestation.result # "failed"
  BY <1>1 DEF ClassInv, Ending
<1> QED
  BY <1>1, <1>6, <1>7 DEF ClassInv, Ending

LEMMA UnhealthyVerdict ==
  ASSUME TypeOK, PhaseInv, ClassInv, JudgeUnhealthy
  PROVE  ClassInv'
<1> DEFINE d == [kind |-> "start-app", ok |-> TRUE]
           e == [kind |-> "health", ok |-> FALSE]
           m == PortMismatch(cands')
<1>1. /\ pc = "judge" /\ pc' = "stop" /\ ~exitSeen /\ ~Accepted(latest)
      /\ observed' = observed \o <<d, e>> /\ UNCHANGED <<late, latest, attestation>>
  BY DEF JudgeUnhealthy
<1>2. late
  BY <1>1 DEF ClassInv
<1>3. /\ d \in ObservedSteps /\ e \in ObservedSteps
      /\ e.kind = "health" /\ e.ok = FALSE
  BY DEF ObservedSteps
<1> HIDE DEF d, e
<1>4. observed' = Append(Append(observed, d), e)
  BY <1>1, <1>3 DEF TypeOK
<1>5. LostIn(observed', "health")
  <2>1. Append(observed, d) \in Seq(ObservedSteps)
    BY <1>3, LostAfterAppend DEF TypeOK
  <2> QED
    BY <1>3, <1>4, <2>1, LostAfterAppend
<1>6. PICK c \in UnhealthyClasses(m, latest) : verdict' = Result("failed", c, latest)
  BY DEF JudgeUnhealthy
<1> HIDE DEF m
<1>7. Backed(verdict', exitSeen', late', observed')
  BY <1>1, <1>2, <1>5, <1>6, UnhealthyBacked
<1>8. attestation.result # "failed"
  BY <1>1 DEF ClassInv, Ending
<1> QED
  BY <1>1, <1>7, <1>8 DEF ClassInv, Ending

(* `docker compose ps` and `logs` come after the poll and before the verdict.*)
LEMMA DiagnoseBacked ==
  ASSUME TypeOK, PhaseInv, ClassInv, ComposeUnhealthy \/ \E ok \in BOOLEAN : Diagnose(ok)
  PROVE  ClassInv'
<1>1. CASE ComposeUnhealthy
  <2> DEFINE e == [kind |-> "health", ok |-> FALSE]
  <2>1. /\ pc = "judge" /\ phase = "compose" /\ ~Accepted(latest)
        /\ pc' = "diagnose-ps" /\ observed' = Append(observed, e)
        /\ UNCHANGED <<late, latest, verdict, attestation>>
        /\ e \in ObservedSteps /\ e.kind = "health" /\ e.ok = FALSE
    BY <1>1 DEF ComposeUnhealthy, ObservedSteps
  <2>2. late /\ verdict.result # "failed"
    BY <2>1 DEF ClassInv, Ending
  <2>3. LostIn(observed', "health")
    BY <2>1, LostAfterAppend DEF TypeOK
  <2> HIDE DEF e
  <2> QED
    BY <2>1, <2>2, <2>3 DEF ClassInv, Ending
<1>2. ASSUME NEW ok \in BOOLEAN, Diagnose(ok)
      PROVE  ClassInv'
  <2> DEFINE e == [kind |-> "service", ok |-> ok]
  <2>1. /\ pc \in {"diagnose-ps", "diagnose-logs"} /\ e \in ObservedSteps
        /\ observed' = Append(observed, e) /\ UNCHANGED <<late, latest, attestation>>
        /\ \/ pc' = "diagnose-logs" /\ UNCHANGED verdict
           \/ pc' = "attest" /\ \E c \in UnhealthyClasses(FALSE, latest) :
                                   verdict' = Result("failed", c, latest)
    BY <1>2 DEF Diagnose, ObservedSteps
  <2>2. late /\ ~Accepted(latest) /\ LostIn(observed, "health") /\ verdict.result # "failed"
    BY <2>1 DEF ClassInv, Ending
  <2>3. LostIn(observed', "health")
    BY <2>1, <2>2, LostAfterAppend DEF TypeOK
  <2> HIDE DEF e
  <2>4. CASE pc' = "diagnose-logs" /\ UNCHANGED verdict
    BY <2>1, <2>2, <2>3, <2>4 DEF ClassInv, Ending
  <2>5. ASSUME pc' = "attest", NEW c \in UnhealthyClasses(FALSE, latest),
               verdict' = Result("failed", c, latest)
        PROVE  ClassInv'
    <3>1. Backed(verdict', exitSeen', late', observed')
      BY <2>1, <2>2, <2>3, <2>5, UnhealthyBacked
    <3> QED
      BY <2>1, <2>2, <2>5, <3>1 DEF ClassInv, Ending
  <2> QED
    BY <2>1, <2>4, <2>5
<1> QED
  BY <1>1, <1>2

LEMMA ClassStep ==
  ASSUME SafetyInv, ClassInv, [Next]_vars
  PROVE  ClassInv'
<1>0. /\ TypeOK /\ PhaseInv
      /\ pc # "done" => attestation = NoResult
      /\ NoResult.result # "failed"
  BY DEF SafetyInv, VerdictInv, NoResult, Result
<1>1. pc \notin Ending => verdict.result # "failed" /\ attestation.result # "failed"
  BY <1>0 DEF ClassInv, Ending
<1> USE DEF runVars, appVars
<1>2. CASE GateRefuseEarly \/ GateRefuseLate \/ PreflightRefuse
  <2>1. /\ pc \notin Ending /\ pc' = "done" /\ verdict' = verdict
        /\ attestation'.result # "failed"
    BY <1>2, GateRefusal DEF PreflightRefuse, Ending, NoResult, Result
  <2> QED
    BY <1>1, <2>1 DEF ClassInv
<1>3. CASE DryRun \/ GateOpen \/ PreflightPass \/ WritePlanFiles
  BY <1>1, <1>3 DEF DryRun, GateOpen, PreflightPass, WritePlanFiles, ClassInv, Ending
<1>4. CASE StartCommand \/ CommandTimesOut
  BY <1>1, <1>4 DEF StartCommand, CommandTimesOut, ClassInv, Ending
<1>5. CASE Closes
  BY <1>0, <1>5, ClosesBacked DEF Closes
<1>6. CASE FallThrough
  <2>1. /\ pc = "loop" /\ pc' = "attest" /\ UNCHANGED attestation
        /\ verdict' = Result("failed", "orchestration_not_supported", NoEvidence)
    BY <1>6 DEF FallThrough
  <2>2. Backed(verdict', exitSeen', late', observed')
    BY <2>1 DEF Backed, Result, NoEvidence, Evidence, Accepted
  <2> QED
    BY <1>1, <2>1, <2>2 DEF ClassInv, Ending
<1>7. CASE StartApp \/ StartComposePoll
  BY <1>1, <1>7 DEF StartApp, StartComposePoll, BeginPoll, ClassInv, Ending
<1>8. CASE PollRound \/ RoundOver \/ PauseOver \/ Answer
  BY <1>1, <1>8 DEF PollRound, RoundOver, PauseOver, Answer, ClassInv, Ending
<1>9. CASE PollOver
  BY <1>1, <1>9 DEF PollOver, ShouldStop, ClassInv, Ending
<1>10. CASE DeadlinePasses
  BY <1>1, <1>10 DEF DeadlinePasses, ClassInv, Ending
<1>11. CASE \E u \in Urls : SendProbe(u)
  BY <1>1, <1>11 DEF SendProbe, ClassInv, Ending
<1>12. CASE HandleAnswer
  <2>1. /\ pc = "answered" /\ UNCHANGED <<verdict, attestation>>
        /\ pc' \in {"probe", "preflighted", "pause", "turn", "judge"}
        /\ pc' \in {"turn", "judge"} => Accepted(probe) /\ latest' = probe
    BY <1>12 DEF HandleAnswer, Accepted
  <2> QED
    BY <1>1, <2>1 DEF ClassInv, Ending
<1>13. CASE LoopTurn
  <2>1. /\ pc = "turn" /\ pc' = "judge" /\ (exitSeen => exitSeen')
        /\ UNCHANGED <<verdict, attestation, late, latest, phase>>
    BY <1>13 DEF LoopTurn
  <2> QED
    BY <1>1, <2>1 DEF ClassInv, Ending
<1>14. CASE JudgeExited \/ JudgeUnhealthy
  BY <1>0, <1>14, ExitedBacked, UnhealthyVerdict
<1>15. CASE JudgeBooted \/ ComposeBooted
  <2>1. /\ pc = "judge" /\ pc' \in Ending /\ pc' # "done" /\ UNCHANGED attestation
        /\ verdict'.result = "booted"
    BY <1>15 DEF JudgeBooted, ComposeBooted, Ending, Result
  <2> QED
    BY <1>1, <2>1 DEF ClassInv, Ending
<1>16. CASE ComposeUnhealthy \/ \E ok \in BOOLEAN : Diagnose(ok)
  BY <1>0, <1>16, DiagnoseBacked
<1>17. CASE StopSignal \/ StopClosed \/ StopKilled \/ Attest
  <2>1. /\ pc \in Ending /\ pc' \in Ending /\ (exitSeen => exitSeen')
        /\ UNCHANGED <<verdict, late, observed>>
        /\ attestation' = attestation \/ attestation' = verdict
    BY <1>17 DEF StopSignal, StopClosed, StopKilled, Attest, Ending
  <2> QED
    BY <2>1 DEF ClassInv, Ending, Backed
<1>18. CASE Host \/ Returned \/ UNCHANGED vars
  <2>1. UNCHANGED <<inp, runVars>> /\ (exitSeen => exitSeen')
    BY <1>18 DEF Host, AppListens, StatusChanges, ForeignStarts, ComposeListens,
       AppPrints, OutputScrolls, ForeignStops, ComposeStops, AppForks, LeaderExits,
       GroupExits, ExitDelivered, EnvUnchanged, Returned, vars
  <2> QED
    BY <2>1 DEF ClassInv, Ending, Backed
<1> QED
  BY <1>2, <1>3, <1>4, <1>5, <1>6, <1>7, <1>8, <1>9, <1>10, <1>11, <1>12, <1>13,
     <1>14, <1>15, <1>16, <1>17, <1>18 DEF Next, Up

(* The class of a failure goes with what was observed, whatever classes the *)
(* output suggests (run.ts:506-706, taxonomy.ts:413, 591).                  *)
THEOREM ClassMatchesEvidenceCorrect == Spec => []ClassMatchesEvidence
<1>1. Init => ClassInv
  BY DEF Init, ClassInv, NoResult, Result
<1>2. ClassInv => ClassMatchesEvidence
  BY DEF ClassInv, Backed, ClassMatchesEvidence, Lost, LostIn
<1>3. SafetyInv /\ ClassInv /\ [Next]_vars => ClassInv'
  BY ClassStep
<1> QED
  BY <1>1, <1>2, <1>3, SafetyCorrect, PTL DEF Spec
-----------------------------------------------------------------------------
(* Only a run that is not dry gets past the gate, and before the step loop  *)
(* nothing was written and no containers were brought up.                   *)
DryRunInv == pc \notin {"gate", "done"} => ~inp.opts.dryRun

CleanInv ==
  \/ pc \in {"gate", "preflighted", "write"}
  \/ phase = "preflight" /\ pc \in {"probe", "await", "answered"}
  => ~composeUp /\ ~wrote

(* No step of a refusal is observed while the run goes on.                  *)
Planned(o) == \A k \in DOMAIN o : o[k].kind \notin RefusalSteps
PlannedInv == pc # "done" => Planned(observed)

OutcomeInv == SafetyInv /\ DryRunInv /\ CleanInv /\ PlannedInv /\ OutcomeRecorded

LEMMA TwoAppends ==
  ASSUME NEW o \in Seq(ObservedSteps), NEW d \in ObservedSteps,
         NEW e \in ObservedSteps
  PROVE  o \o <<d, e>> = Append(Append(o, d), e)
OBVIOUS

LEMMA PlannedAfterAppend ==
  ASSUME NEW o \in Seq(ObservedSteps), Planned(o),
         NEW e \in ObservedSteps, e.kind \notin RefusalSteps
  PROVE  /\ Append(o, e) \in Seq(ObservedSteps)
         /\ Planned(Append(o, e))
<1>1. /\ Append(o, e) \in Seq(ObservedSteps) /\ Len(o) \in Nat
      /\ DOMAIN Append(o, e) = 1..(Len(o) + 1) /\ DOMAIN o = 1..Len(o)
      /\ Append(o, e)[Len(o) + 1] = e
      /\ \A k \in DOMAIN o : Append(o, e)[k] = o[k]
  OBVIOUS
<1> QED
  BY <1>1 DEF Planned

LEMMA PlannedStep ==
  ASSUME TypeOK, PlannedInv, [Next]_vars
  PROVE  PlannedInv'
<1> USE DEF PlannedInv, TypeOK, runVars, appVars
<1> DEFINE e(kind, ok) == [kind |-> kind, ok |-> ok]
           Kinds == {"service", "install", "start-app", "health"}
<1>0. \A kind \in Kinds, ok \in BOOLEAN :
        e(kind, ok) \in ObservedSteps /\ e(kind, ok).kind \notin RefusalSteps
  BY DEF ObservedSteps, RefusalSteps
<1>1. CASE GateRefuseEarly \/ GateRefuseLate \/ DryRun \/ PreflightRefuse \/ Attest
  <2>1. pc' = "done"
    BY <1>1, GateRefusal DEF DryRun, PreflightRefuse, Attest
  <2> QED
    BY <2>1
<1>2. CASE GateOpen \/ PreflightPass \/ WritePlanFiles \/ StartCommand \/ CommandTimesOut
  BY <1>2 DEF GateOpen, PreflightPass, WritePlanFiles, StartCommand, CommandTimesOut
<1>3. CASE Closes
  <2>1. PICK exitZero \in BOOLEAN : CommandCloses(exitZero)
    BY <1>3 DEF Closes
  <2>2. /\ pc = "command" /\ Kind \in Kinds /\ CommandOk(exitZero) \in BOOLEAN
        /\ observed' = Append(observed, e(Kind, CommandOk(exitZero)))
    BY <2>1, CommandOkType DEF CommandCloses
  <2> HIDE DEF e, Kinds
  <2> QED
    BY <1>0, <2>2, PlannedAfterAppend
<1>4. CASE FallThrough \/ StartApp \/ StartComposePoll
  BY <1>4 DEF FallThrough, StartApp, StartComposePoll, BeginPoll
<1>5. CASE PollRound \/ PollOver \/ RoundOver \/ PauseOver \/ DeadlinePasses
  BY <1>5 DEF PollRound, PollOver, RoundOver, PauseOver, DeadlinePasses
<1>6. CASE (\E u \in Urls : SendProbe(u)) \/ Answer \/ HandleAnswer \/ LoopTurn
  BY <1>6 DEF SendProbe, Answer, HandleAnswer, LoopTurn
<1>7. CASE JudgeExited
  <2>1. pc = "judge" /\ observed' = Append(observed, e("start-app", FALSE))
    BY <1>7 DEF JudgeExited
  <2> HIDE DEF e
  <2> QED
    BY <1>0, <2>1, PlannedAfterAppend
<1>8. CASE JudgeBooted \/ JudgeUnhealthy
  <2>1. PICK ok \in BOOLEAN :
          observed' = observed \o <<e("start-app", TRUE), e("health", ok)>>
    BY <1>8 DEF JudgeBooted, JudgeUnhealthy
  <2>2. pc = "judge"
    BY <1>8 DEF JudgeBooted, JudgeUnhealthy
  <2>3. e("start-app", TRUE) \in ObservedSteps /\ e("health", ok) \in ObservedSteps
    BY <1>0
  <2>4. /\ e("start-app", TRUE).kind \notin RefusalSteps
        /\ e("health", ok).kind \notin RefusalSteps
    BY <1>0
  <2>5. observed' = Append(Append(observed, e("start-app", TRUE)), e("health", ok))
    BY <2>1, <2>3, TwoAppends
  <2> HIDE DEF e
  <2>6. /\ Append(observed, e("start-app", TRUE)) \in Seq(ObservedSteps)
        /\ Planned(Append(observed, e("start-app", TRUE)))
    BY <2>2, <2>3, <2>4, PlannedAfterAppend
  <2>7. Planned(observed')
    BY <2>3, <2>4, <2>5, <2>6, PlannedAfterAppend
  <2> QED
    BY <2>7 DEF Planned
<1>9. CASE ComposeBooted \/ ComposeUnhealthy
  <2>1. /\ pc = "judge"
        /\ \E ok \in BOOLEAN : observed' = Append(observed, e("health", ok))
    BY <1>9 DEF ComposeBooted, ComposeUnhealthy
  <2> HIDE DEF e
  <2> QED
    BY <1>0, <2>1, PlannedAfterAppend
<1>10. CASE \E ok \in BOOLEAN : Diagnose(ok)
  <2>1. /\ pc # "done"
        /\ \E ok \in BOOLEAN : observed' = Append(observed, e("service", ok))
    BY <1>10 DEF Diagnose
  <2> HIDE DEF e
  <2> QED
    BY <1>0, <2>1, PlannedAfterAppend
<1>11. CASE StopSignal \/ StopClosed \/ StopKilled
  BY <1>11 DEF StopSignal, StopClosed, StopKilled
<1>12. CASE Host \/ Returned \/ UNCHANGED vars
  BY <1>12 DEF Host, AppListens, StatusChanges, ForeignStarts,
     ComposeListens, AppPrints, OutputScrolls, ForeignStops, ComposeStops,
     AppForks, LeaderExits, GroupExits, ExitDelivered, EnvUnchanged, Returned, vars
<1> QED
  BY <1>1, <1>2, <1>3, <1>4, <1>5, <1>6, <1>7, <1>8, <1>9, <1>10, <1>11, <1>12
  DEF Next, Up

LEMMA DryRunStep ==
  ASSUME SafetyInv, DryRunInv, [Next]_vars
  PROVE  DryRunInv'
<1> USE DEF DryRunInv, SafetyInv, PhaseInv, Before, runVars, appVars
<1>1. CASE GateRefuseEarly \/ GateRefuseLate \/ DryRun \/ GateOpen
  BY <1>1 DEF GateRefuseEarly, GateRefuseLate, GateRefuse, DryRun, GateOpen
<1>2. CASE PreflightRefuse \/ PreflightPass \/ WritePlanFiles
  BY <1>2 DEF PreflightRefuse, PreflightPass, WritePlanFiles
<1>3. CASE StartCommand \/ CommandTimesOut
  BY <1>3 DEF StartCommand, CommandTimesOut
<1>4. CASE Closes \/ FallThrough
  BY <1>4 DEF Closes, CommandCloses, FallThrough
<1>5. CASE StartApp \/ StartComposePoll
  BY <1>5 DEF StartApp, StartComposePoll, BeginPoll
<1>6. CASE PollRound \/ PollOver \/ RoundOver \/ PauseOver \/ DeadlinePasses
  BY <1>6 DEF PollRound, PollOver, RoundOver, PauseOver, DeadlinePasses
<1>7. CASE \E u \in Urls : SendProbe(u)
  BY <1>7 DEF SendProbe
<1>8. CASE Answer \/ HandleAnswer
  BY <1>8 DEF Answer, HandleAnswer
<1>9. CASE LoopTurn
  BY <1>9 DEF LoopTurn
<1>10. CASE JudgeExited \/ JudgeBooted \/ JudgeUnhealthy
  BY <1>10 DEF JudgeExited, JudgeBooted, JudgeUnhealthy
<1>11. CASE StopSignal \/ StopClosed \/ StopKilled
  BY <1>11 DEF StopSignal, StopClosed, StopKilled
<1>12. CASE ComposeBooted \/ ComposeUnhealthy
  BY <1>12 DEF ComposeBooted, ComposeUnhealthy
<1>13. CASE \E ok \in BOOLEAN : Diagnose(ok)
  BY <1>13 DEF Diagnose
<1>14. CASE Attest
  BY <1>14 DEF Attest
<1>15. CASE Host
  BY <1>15 DEF Host, AppListens, StatusChanges, ForeignStarts,
     ComposeListens, AppPrints, OutputScrolls, ForeignStops, ComposeStops,
     AppForks, LeaderExits, GroupExits, ExitDelivered, EnvUnchanged
<1>16. CASE Returned \/ UNCHANGED vars
  BY <1>16 DEF Returned, vars
<1> QED BY <1>1, <1>2, <1>3, <1>4, <1>5, <1>6, <1>7, <1>8, <1>9, <1>10,
     <1>11, <1>12, <1>13, <1>14, <1>15, <1>16 DEF Next, Up

LEMMA CleanStep ==
  ASSUME TypeOK, PhaseInv, CleanInv, [Next]_vars
  PROVE  CleanInv'
<1> USE DEF CleanInv, PhaseInv, Before, TypeOK, runVars, appVars
<1>1. CASE GateRefuseEarly \/ GateRefuseLate \/ DryRun \/ GateOpen
  BY <1>1 DEF GateRefuseEarly, GateRefuseLate, GateRefuse, DryRun, GateOpen
<1>2. CASE PreflightRefuse \/ PreflightPass \/ WritePlanFiles
  BY <1>2 DEF PreflightRefuse, PreflightPass, WritePlanFiles
<1>3. CASE StartCommand \/ CommandTimesOut
  BY <1>3 DEF StartCommand, CommandTimesOut
<1>4. CASE Closes \/ FallThrough
  <2>1. pc' \in {"loop", "attest"}
    BY <1>4 DEF Closes, CommandCloses, FallThrough
  <2> QED
    BY <2>1
<1>5. CASE StartApp \/ StartComposePoll
  BY <1>5 DEF StartApp, StartComposePoll, BeginPoll
<1>6. CASE PollRound \/ PollOver \/ RoundOver \/ PauseOver \/ DeadlinePasses
  BY <1>6 DEF PollRound, PollOver, RoundOver, PauseOver, DeadlinePasses
<1>7. CASE \E u \in Urls : SendProbe(u)
  BY <1>7 DEF SendProbe
<1>8. CASE Answer \/ HandleAnswer
  BY <1>8 DEF Answer, HandleAnswer
<1>9. CASE LoopTurn
  BY <1>9 DEF LoopTurn
<1>10. CASE JudgeExited \/ JudgeBooted \/ JudgeUnhealthy
  BY <1>10 DEF JudgeExited, JudgeBooted, JudgeUnhealthy
<1>11. CASE StopSignal \/ StopClosed \/ StopKilled
  BY <1>11 DEF StopSignal, StopClosed, StopKilled
<1>12. CASE ComposeBooted \/ ComposeUnhealthy
  BY <1>12 DEF ComposeBooted, ComposeUnhealthy
<1>13. CASE \E ok \in BOOLEAN : Diagnose(ok)
  <2>1. pc' \in {"diagnose-logs", "attest"}
    BY <1>13 DEF Diagnose
  <2> QED
    BY <2>1
<1>14. CASE Attest
  BY <1>14 DEF Attest
<1>15. CASE Host
  BY <1>15 DEF Host, AppListens, StatusChanges, ForeignStarts,
     ComposeListens, AppPrints, OutputScrolls, ForeignStops, ComposeStops,
     AppForks, LeaderExits, GroupExits, ExitDelivered, EnvUnchanged
<1>16. CASE Returned \/ UNCHANGED vars
  BY <1>16 DEF Returned, vars
<1> QED BY <1>1, <1>2, <1>3, <1>4, <1>5, <1>6, <1>7, <1>8, <1>9, <1>10,
     <1>11, <1>12, <1>13, <1>14, <1>15, <1>16 DEF Next, Up

(* Who ends the run.                                                        *)
LEMMA DoneStep ==
  ASSUME ~GateRefuseEarly, ~GateRefuseLate, ~DryRun, ~PreflightRefuse,
         ~Attest, pc # "done", [Next]_vars
  PROVE  pc' # "done"
<1> USE DEF runVars, appVars
<1>1. CASE GateOpen
  BY <1>1 DEF GateOpen
<1>2. CASE PreflightPass \/ WritePlanFiles
  BY <1>2 DEF PreflightPass, WritePlanFiles
<1>3. CASE StartCommand \/ CommandTimesOut
  BY <1>3 DEF StartCommand, CommandTimesOut
<1>4. CASE Closes \/ FallThrough
  BY <1>4 DEF Closes, CommandCloses, FallThrough
<1>5. CASE StartApp \/ StartComposePoll
  BY <1>5 DEF StartApp, StartComposePoll, BeginPoll
<1>6. CASE PollRound \/ PollOver \/ RoundOver \/ PauseOver \/ DeadlinePasses
  BY <1>6 DEF PollRound, PollOver, RoundOver, PauseOver, DeadlinePasses
<1>7. CASE \E u \in Urls : SendProbe(u)
  BY <1>7 DEF SendProbe
<1>8. CASE Answer \/ HandleAnswer
  BY <1>8 DEF Answer, HandleAnswer
<1>9. CASE LoopTurn
  BY <1>9 DEF LoopTurn
<1>10. CASE JudgeExited \/ JudgeBooted \/ JudgeUnhealthy
  BY <1>10 DEF JudgeExited, JudgeBooted, JudgeUnhealthy
<1>11. CASE StopSignal \/ StopClosed \/ StopKilled
  BY <1>11 DEF StopSignal, StopClosed, StopKilled
<1>12. CASE ComposeBooted \/ ComposeUnhealthy
  BY <1>12 DEF ComposeBooted, ComposeUnhealthy
<1>13. CASE \E ok \in BOOLEAN : Diagnose(ok)
  BY <1>13 DEF Diagnose
<1>14. CASE Host
  BY <1>14 DEF Host, AppListens, StatusChanges, ForeignStarts,
     ComposeListens, AppPrints, OutputScrolls, ForeignStops, ComposeStops,
     AppForks, LeaderExits, GroupExits, ExitDelivered, EnvUnchanged
<1>15. CASE Returned \/ UNCHANGED vars
  BY <1>15 DEF Returned, vars
<1> QED BY <1>1, <1>2, <1>3, <1>4, <1>5, <1>6, <1>7, <1>8, <1>9, <1>10,
     <1>11, <1>12, <1>13, <1>14, <1>15 DEF Next, Up

(* A run that is over changes nothing any more.                             *)
LEMMA DoneStays ==
  ASSUME pc = "done", PhaseInv, [Next]_vars
  PROVE  UNCHANGED vars
<1> USE DEF PhaseInv, Before
<1>1. ~Host
  BY DEF Host
<1>2. ~Up
  BY DEF Up, GateRefuseEarly, GateRefuseLate, DryRun, GateOpen,
     PreflightRefuse, PreflightPass, WritePlanFiles, StartCommand,
     FallThrough, StartApp, StartComposePoll, PollRound, PollOver, RoundOver,
     PauseOver, HandleAnswer, SendProbe, LoopTurn, JudgeExited, JudgeBooted,
     JudgeUnhealthy, StopSignal, ComposeBooted, ComposeUnhealthy, Diagnose,
     Attest
<1>3. ~Closes /\ ~CommandTimesOut /\ ~Answer /\ ~StopClosed /\ ~StopKilled
        /\ ~DeadlinePasses
  BY DEF Closes, CommandCloses, CommandTimesOut, Answer, StopClosed,
     StopKilled, DeadlinePasses
<1> QED
  BY <1>1, <1>2, <1>3 DEF Next, Returned

LEMMA OutcomeStep ==
  ASSUME OutcomeInv, [Next]_vars
  PROVE  OutcomeRecorded'
<1> USE DEF OutcomeInv, SafetyInv, UntouchedInv, CleanInv, DryRunInv, VerdictInv
<1>0. \A c : Result("refused", c, NoEvidence) # NoResult
             /\ Result("refused", c, latest) # NoResult
  BY DEF NoResult, Result
<1>1. CASE GateRefuseEarly \/ GateRefuseLate
  <2>1. /\ pc = "gate" /\ leader' = "none" /\ ~composeUp' /\ ~wrote'
        /\ observed = <<>> /\ inp' = inp
    BY <1>1, GateRefusal DEF appVars
  <2>2. CASE inp.opts.dryRun /\ attestation' = NoResult /\ observed' = observed
    BY <2>1, <2>2 DEF OutcomeRecorded, NoResult, Result
  <2>3. ASSUME ~inp.opts.dryRun,
               NEW c, attestation' = Result("refused", c, NoEvidence),
               observed' = StepOfRefusal(c)
        PROVE  OutcomeRecorded'
    <3>1. attestation'.result = "refused"
      BY <2>3 DEF Result
    <3> QED
      BY <1>0, <2>1, <2>3, <3>1, RefusalRecord DEF OutcomeRecorded
  <2> QED
    BY <1>1, <2>2, <2>3, GateRefusal
<1>2. CASE DryRun
  <2>1. /\ pc = "gate" /\ inp.opts.dryRun /\ attestation' = NoResult
        /\ UNCHANGED <<inp, leader, composeUp, wrote>> /\ observed' = <<>>
    BY <1>2 DEF DryRun, appVars
  <2> QED
    BY <2>1 DEF OutcomeRecorded, NoResult, Result
<1>3. CASE PreflightRefuse
  <2>1. /\ pc = "preflighted" /\ ~inp.opts.dryRun
        /\ UNCHANGED <<inp, leader, composeUp, wrote>>
        /\ attestation' = Result("refused", "health_preoccupied", latest)
        /\ observed' = StepOfRefusal("health_preoccupied")
    BY <1>3 DEF PreflightRefuse, appVars
  <2>2. attestation'.result = "refused"
    BY <2>1 DEF Result
  <2> QED
    BY <1>0, <2>1, <2>2, RefusalRecord DEF OutcomeRecorded
<1>4. CASE Attest
  <2>1. pc = "attest" /\ UNCHANGED <<inp, observed>> /\ attestation' = verdict
    BY <1>4 DEF Attest
  <2>2. /\ verdict.result \in {"booted", "failed"} /\ ~inp.opts.dryRun
        /\ Planned(observed)
    BY <2>1 DEF PlannedInv
  <2>3. /\ attestation' # NoResult /\ attestation'.result # "refused"
        /\ Planned(observed)'
    BY <2>1, <2>2 DEF NoResult, Result, Planned
  <2> QED
    BY <2>1, <2>2, <2>3 DEF OutcomeRecorded, Planned
<1>5. CASE pc = "done"
  BY <1>5, DoneStays DEF OutcomeRecorded, vars, runVars, appVars
<1> QED
  BY <1>1, <1>2, <1>3, <1>4, <1>5, DoneStep DEF OutcomeRecorded

(* A dry run leaves nothing, every other run an attestation, and a refusal  *)
(* precedes everything that is started or written and records no step of    *)
(* the plan (run.ts:285-442).                                               *)
THEOREM OutcomeRecordedCorrect == Spec => []OutcomeRecorded
<1>1. Init => OutcomeInv
  <2> SUFFICES ASSUME Init PROVE OutcomeInv
    OBVIOUS
  <2>1. pc = "gate" /\ ~composeUp /\ ~wrote /\ observed = <<>>
    BY DEF Init
  <2> QED
    BY <2>1, SafetyInit
    DEF OutcomeInv, DryRunInv, CleanInv, PlannedInv, Planned, OutcomeRecorded
<1>2. OutcomeInv /\ [Next]_vars => OutcomeInv'
  <2> SUFFICES ASSUME OutcomeInv, [Next]_vars PROVE OutcomeInv'
    OBVIOUS
  <2>1. DryRunInv'
    BY DryRunStep DEF OutcomeInv
  <2>2. CleanInv'
    BY CleanStep DEF OutcomeInv, SafetyInv
  <2>3. PlannedInv'
    BY PlannedStep DEF OutcomeInv, SafetyInv
  <2> QED
    BY <2>1, <2>2, <2>3, SafetyStep, OutcomeStep DEF OutcomeInv
<1>3. OutcomeInv => OutcomeRecorded
  BY DEF OutcomeInv
<1> QED
  BY <1>1, <1>2, <1>3, PTL DEF Spec
-----------------------------------------------------------------------------
(* The commands of the plan.                                                *)
Work == ServiceSteps(inp) \o HostSteps(inp)

(* A plan starts the application only as the last of its commands, and      *)
(* checks health only after all of them.                                    *)
LEMMA PlanOrder ==
  ASSUME inp \in InputSet, NEW k \in 1..Len(Plan)
  PROVE  /\ Work \in Seq({"service", "install", "start-app"})
         /\ Plan[k] = "start-app" =>
              Len(Work) = k /\ \A i \in 1..k : Work[i] = Plan[i]
         /\ Plan[k] = "health" =>
              Len(Work) = k - 1 /\ \A i \in 1..(k - 1) : Work[i] = Plan[i]
<1> DEFINE S == ServiceSteps(inp)  H == HostSteps(inp)  E == HealthSteps(inp)
           P == [j \in 1..inp.facts.prep |-> "install"]
<1>1. /\ S \in Seq({"service"}) /\ H \in Seq({"install", "start-app"})
      /\ E \in Seq({"health"}) /\ inp.facts.prep \in Nat
  BY PlanParts
<1>2. Plan = (S \o H) \o E /\ Work = S \o H
  BY DEF Plan, PlanSteps, Work
<1>3. \/ H = <<>> \/ H = P \o <<>> \/ H = P \o <<"start-app">>
  BY Zenon DEF HostSteps
<1>4. E = <<>> \/ E = <<"health">>
  BY Zenon DEF HealthSteps
<1>5. \A j \in 1..Len(H) : H[j] = "start-app" => j = Len(H)
  <2>1. P \in Seq({"install"})
    BY <1>1
  <2> HIDE DEF P
  <2>2. CASE H = <<>>
    BY <2>2
  <2>3. CASE H = P \o <<>>
    <3>1. H = P
      BY <2>1, <2>3
    <3> QED
      BY <2>1, <3>1
  <2>4. CASE H = P \o <<"start-app">>
    <3>1. /\ Len(H) = Len(P) + 1 /\ Len(P) \in Nat
          /\ \A j \in 1..Len(P) : H[j] = P[j] /\ P[j] = "install"
      BY <2>1, <2>4
    <3> QED
      BY <3>1
  <2> QED
    BY <1>3, <2>2, <2>3, <2>4
<1> HIDE DEF S, H, E
<1>6. /\ Work \in Seq({"service", "install", "start-app"})
      /\ Len(Work) = Len(S) + Len(H) /\ Len(S) \in Nat /\ Len(H) \in Nat
      /\ \A i \in 1..Len(S) : Work[i] = "service"
      /\ \A i \in 1..Len(H) : Work[Len(S) + i] = H[i]
  BY <1>1, <1>2
<1>7. /\ Len(Plan) = Len(Work) + Len(E) /\ Len(E) \in {0, 1}
      /\ \A i \in 1..Len(Work) : Plan[i] = Work[i]
      /\ \A i \in 1..Len(E) : Plan[Len(Work) + i] = "health"
  <2>1. CASE E = <<>>
    BY <1>1, <1>2, <1>6, <2>1
  <2>2. CASE E = <<"health">>
    BY <1>1, <1>2, <1>6, <2>2
  <2> QED
    BY <1>4, <2>1, <2>2
<1>a. /\ Len(Plan) = Len(Work) + Len(E)
      /\ Len(Work) \in Nat /\ (Len(E) = 0 \/ Len(E) = 1)
  BY <1>6, <1>7
<1>b. k \in Nat \ {0} /\ k <= Len(Plan)
  BY <1>a
<1>8. CASE k <= Len(Work)
  <2>1. Plan[k] = Work[k] /\ Plan[k] # "health"
    BY <1>6, <1>7, <1>8
  <2>2. ASSUME Plan[k] = "start-app" PROVE k = Len(Work)
    <3>1. k > Len(S)
      <4>1. k \in 1..Len(S) => Work[k] = "service"
        BY <1>6
      <4> QED
        BY <1>b, <1>6, <2>1, <2>2, <4>1
    <3> DEFINE i == k - Len(S)
    <3>2. i \in 1..Len(H) /\ k = Len(S) + i
      BY <1>b, <1>6, <1>8, <3>1
    <3> HIDE DEF i
    <3>3. Work[k] = H[i]
      BY <1>6, <3>2
    <3> QED
      BY <1>5, <1>6, <2>1, <2>2, <3>2, <3>3
  <2> QED
    BY <1>6, <1>7, <2>1, <2>2
<1>9. CASE k > Len(Work)
  <2> DEFINE w == Len(Work)  v == Len(E)  n == Len(Plan)
  <2>0. w \in Nat /\ (v = 0 \/ v = 1) /\ n = w + v /\ k \in Nat /\ k <= n
          /\ k > w
    BY <1>a, <1>b, <1>9
  <2> HIDE DEF w, v, n
  <2>1. k = w + 1 /\ v = 1
    BY <2>0
  <2> USE DEF w, v, n
  <2>2. Plan[k] = "health"
    BY <1>7, <2>1
  <2> QED
    BY <1>6, <1>7, <2>1, <2>2
<1> QED
  BY <1>a, <1>b, <1>6, <1>8, <1>9

(* What two appended steps leave of those before them.                      *)
LEMMA AfterTwo ==
  ASSUME NEW o \in Seq(ObservedSteps), NEW d \in ObservedSteps,
         NEW e \in ObservedSteps
  PROVE  /\ DOMAIN (o \o <<d, e>>) = 1..(Len(o) + 2)
         /\ (o \o <<d, e>>)[Len(o) + 1] = d /\ (o \o <<d, e>>)[Len(o) + 2] = e
         /\ \A i \in 1..Len(o) : (o \o <<d, e>>)[i] = o[i]
<1>1. o \o <<d, e>> = Append(Append(o, d), e)
  OBVIOUS
<1>2. /\ Append(o, d) \in Seq(ObservedSteps) /\ Len(Append(o, d)) = Len(o) + 1
      /\ Append(o, d)[Len(o) + 1] = d
      /\ \A i \in 1..Len(o) : Append(o, d)[i] = o[i]
  OBVIOUS
<1> DEFINE p == Append(o, d)
<1> HIDE DEF p
<1>3. p \in Seq(ObservedSteps) /\ Len(p) = Len(o) + 1 /\ Len(o) \in Nat
  BY <1>2 DEF p
<1>4. /\ DOMAIN Append(p, e) = 1..(Len(p) + 1) /\ Append(p, e)[Len(p) + 1] = e
      /\ \A i \in 1..Len(p) : Append(p, e)[i] = p[i]
  BY <1>3
<1> QED
  BY <1>1, <1>2, <1>3, <1>4 DEF p

(* Until the verdict is drawn, the observed steps are the plan as far as it *)
(* was carried out, every one a success.                                    *)
Concluding ==
  pc \in {"stop", "stopping", "diagnose-ps", "diagnose-logs", "attest", "done"}

CarriedOut(n) ==
  /\ Len(observed) = n /\ n <= Len(Plan)
  /\ \A k \in 1..n : observed[k].ok /\ observed[k].kind = Plan[k]

AllCarriedOut ==
  /\ [k \in DOMAIN observed |-> observed[k].kind] = Work \o <<"health">>
  /\ \A k \in DOMAIN observed : observed[k].ok

ProgressInv ==
  /\ ~Concluding => CarriedOut(step - 1)
  /\ phase = "app" /\ ~Concluding => step <= Len(Plan) /\ Kind = "start-app"
  /\ phase = "compose" /\ ~Concluding => step <= Len(Plan) /\ Kind = "health"
  /\ verdict.result = "booted" => AllCarriedOut

LEMMA CarriedFrame ==
  ASSUME UNCHANGED <<inp, step, observed>>
  PROVE  /\ CarriedOut(step - 1)' <=> CarriedOut(step - 1)
         /\ AllCarriedOut' <=> AllCarriedOut
         /\ Kind' = Kind /\ Len(Plan)' = Len(Plan)
BY DEF CarriedOut, AllCarriedOut, Plan, Work, Kind

LEMMA ProgressStep ==
  ASSUME SafetyInv, ProgressInv, [Next]_vars
  PROVE  ProgressInv'
<1> USE DEF Concluding, runVars, appVars
<1>0. /\ TypeOK /\ PhaseInv /\ VerdictInv
      /\ Len(Plan) \in Nat /\ step \in Nat \ {0}
  <2>1. TypeOK /\ PhaseInv /\ VerdictInv
    BY DEF SafetyInv
  <2>2. Plan \in Seq({"service", "install", "start-app", "health"})
    <3>1. /\ ServiceSteps(inp) \in Seq({"service"})
          /\ HostSteps(inp) \in Seq({"install", "start-app"})
          /\ HealthSteps(inp) \in Seq({"health"})
      BY <2>1, PlanParts DEF TypeOK
    <3> HIDE DEF PlanSteps
    <3> QED
      BY <3>1 DEF Plan, PlanSteps
  <2> QED
    BY <2>1, <2>2 DEF TypeOK
<1> USE DEF PhaseInv, Before
<1>1. CASE DryRun \/ GateOpen
  BY <1>0, <1>1, CarriedFrame DEF ProgressInv, DryRun, GateOpen
<1>2. CASE PreflightPass \/ WritePlanFiles
  BY <1>0, <1>2, CarriedFrame DEF ProgressInv, PreflightPass, WritePlanFiles
<1>17. CASE GateRefuseEarly \/ GateRefuseLate \/ PreflightRefuse
  <2>1. pc \in {"gate", "preflighted"} /\ pc' = "done" /\ verdict' = verdict
    BY <1>17, GateRefusal DEF PreflightRefuse
  <2>2. verdict.result # "booted"
    BY <1>0, <2>1 DEF VerdictInv
  <2> QED
    BY <2>1, <2>2 DEF ProgressInv
<1>3. CASE StartCommand \/ CommandTimesOut
  BY <1>0, <1>3, CarriedFrame DEF ProgressInv, StartCommand, CommandTimesOut
<1>4. CASE Closes \/ FallThrough
  <2>1. CASE Closes
    <3>1. PICK exitZero \in BOOLEAN : CommandCloses(exitZero)
      BY <2>1 DEF Closes
    <3> DEFINE e == [kind |-> Kind, ok |-> CommandOk(exitZero)]
    <3>2. /\ observed' = Append(observed, e) /\ pc = "command"
          /\ UNCHANGED <<inp, phase>>
      BY <3>1 DEF CommandCloses
    <3>3. /\ e \in ObservedSteps /\ observed \in Seq(ObservedSteps)
          /\ step <= Len(Plan) /\ verdict.result # "booted"
          /\ phase = "preflight"
      BY <1>0, <3>1, <3>2, CommandOkType DEF ObservedSteps, TypeOK, VerdictInv
    <3>4. CASE CommandOk(exitZero)
      <4>1. step' = step + 1 /\ UNCHANGED verdict /\ pc' = "loop"
        BY <3>1, <3>4 DEF CommandCloses
      <4>2. CarriedOut(step - 1)
        BY <3>2 DEF ProgressInv
      <4>3. /\ Len(observed') = step /\ observed'[step].ok
            /\ observed'[step].kind = Plan[step]
            /\ \A k \in 1..(step - 1) : observed'[k] = observed[k]
        BY <1>0, <3>2, <3>3, <3>4, <4>2 DEF CarriedOut, Kind
      <4>4. CarriedOut(step - 1)'
        BY <1>0, <3>2, <3>3, <4>1, <4>2, <4>3 DEF CarriedOut, Plan
      <4> QED
        BY <1>0, <3>2, <3>3, <4>1, <4>4 DEF ProgressInv
    <3>5. CASE ~CommandOk(exitZero)
      <4>1. pc' = "attest" /\ verdict'.result = "failed"
        BY <3>1, <3>5 DEF CommandCloses, Result
      <4> QED
        BY <4>1 DEF ProgressInv
    <3> QED
      BY <3>4, <3>5
  <2>2. CASE FallThrough
    BY <1>0, <2>2 DEF FallThrough, ProgressInv, Result
  <2> QED
    BY <1>4, <2>1, <2>2
<1>5. CASE StartApp \/ StartComposePoll
  <2>1. /\ pc = "loop" /\ step <= Len(Plan) /\ pc' = "poll"
        /\ UNCHANGED <<inp, step, observed, verdict>>
        /\ \/ Kind = "start-app" /\ phase' = "app"
           \/ Kind = "health" /\ phase' = "compose"
    BY <1>5 DEF StartApp, StartComposePoll, BeginPoll
  <2> QED
    BY <2>1, CarriedFrame DEF ProgressInv
<1>6. CASE PollRound \/ PollOver \/ RoundOver \/ PauseOver \/ DeadlinePasses
  BY <1>0, <1>6, CarriedFrame DEF ProgressInv, PollRound, PollOver, RoundOver,
     PauseOver, DeadlinePasses
<1>7. CASE \E u \in Urls : SendProbe(u)
  BY <1>0, <1>7, CarriedFrame DEF ProgressInv, SendProbe
<1>8. CASE Answer \/ HandleAnswer
  BY <1>0, <1>8, CarriedFrame DEF ProgressInv, Answer, HandleAnswer
<1>9. CASE LoopTurn
  BY <1>0, <1>9, CarriedFrame DEF ProgressInv, LoopTurn
<1>10. CASE JudgeExited \/ JudgeBooted \/ JudgeUnhealthy
  <2>1. CASE JudgeExited \/ JudgeUnhealthy
    <3>1. pc' \in {"attest", "stop"} /\ verdict'.result = "failed"
      BY <2>1 DEF JudgeExited, JudgeUnhealthy, Result
    <3> QED
      BY <3>1 DEF ProgressInv
  <2>2. CASE JudgeBooted
    <3> DEFINE d == [kind |-> "start-app", ok |-> TRUE]
               e == [kind |-> "health", ok |-> TRUE]
    <3>1. /\ pc = "judge" /\ phase = "app" /\ pc' = "stop" /\ UNCHANGED inp
          /\ observed' = observed \o <<d, e>>
      BY <2>2 DEF JudgeBooted
    <3>2. /\ CarriedOut(step - 1) /\ step \in 1..Len(Plan)
          /\ Plan[step] = "start-app"
      BY <1>0, <3>1 DEF ProgressInv, Kind
    <3>3. /\ Work \in Seq({"service", "install", "start-app"})
          /\ Len(Work) = step /\ \A i \in 1..step : Work[i] = Plan[i]
      BY <1>0, <3>2, PlanOrder DEF TypeOK
    <3>4. /\ observed \in Seq(ObservedSteps) /\ Len(observed) = step - 1
          /\ d \in ObservedSteps /\ e \in ObservedSteps
      BY <1>0, <3>2 DEF CarriedOut, TypeOK, ObservedSteps
    <3>5. /\ DOMAIN observed' = 1..(step + 1)
          /\ observed'[step] = d /\ observed'[step + 1] = e
          /\ \A i \in 1..(step - 1) : observed'[i] = observed[i]
      <4> HIDE DEF d, e
      <4>1. /\ DOMAIN (observed \o <<d, e>>) = 1..(Len(observed) + 2)
            /\ (observed \o <<d, e>>)[Len(observed) + 1] = d
            /\ (observed \o <<d, e>>)[Len(observed) + 2] = e
            /\ \A i \in 1..Len(observed) :
                 (observed \o <<d, e>>)[i] = observed[i]
        BY <3>4, AfterTwo
      <4>2. Len(observed) + 2 = step + 1 /\ Len(observed) + 1 = step
        BY <1>0, <3>4
      <4> QED
        BY <3>1, <3>4, <4>1, <4>2
    <3>6. \A i \in 1..(step + 1) : observed'[i].ok
            /\ observed'[i].kind = (Work \o <<"health">>)[i]
      BY <1>0, <3>2, <3>3, <3>5 DEF CarriedOut
    <3>7. Work \o <<"health">>
            = [i \in 1..(step + 1) |-> (Work \o <<"health">>)[i]]
      BY <1>0, <3>3
    <3>8. [k \in DOMAIN observed' |-> observed'[k].kind] = Work \o <<"health">>
      BY <3>5, <3>6, <3>7, Zenon
    <3>9. AllCarriedOut'
      BY <3>1, <3>5, <3>6, <3>8 DEF AllCarriedOut, Work
    <3> QED
      BY <3>1, <3>9 DEF ProgressInv
  <2> QED
    BY <1>10, <2>1, <2>2
<1>11. CASE StopSignal \/ StopClosed \/ StopKilled
  BY <1>0, <1>11, CarriedFrame DEF ProgressInv, StopSignal, StopClosed,
     StopKilled
<1>12. CASE ComposeBooted \/ ComposeUnhealthy
  <2>1. CASE ComposeUnhealthy
    <3>1. pc = "judge" /\ pc' = "diagnose-ps" /\ UNCHANGED verdict
      BY <2>1 DEF ComposeUnhealthy
    <3> QED
      BY <1>0, <3>1 DEF ProgressInv, VerdictInv
  <2>2. CASE ComposeBooted
    <3> DEFINE e == [kind |-> "health", ok |-> TRUE]
    <3>1. /\ pc = "judge" /\ phase = "compose" /\ pc' = "attest"
          /\ UNCHANGED inp
          /\ observed' = Append(observed, e)
      BY <2>2 DEF ComposeBooted
    <3>2. /\ CarriedOut(step - 1) /\ step \in 1..Len(Plan)
          /\ Plan[step] = "health"
      BY <1>0, <3>1 DEF ProgressInv, Kind
    <3>3. /\ Work \in Seq({"service", "install", "start-app"})
          /\ Len(Work) = step - 1 /\ \A i \in 1..(step - 1) : Work[i] = Plan[i]
      BY <1>0, <3>2, PlanOrder DEF TypeOK
    <3>4. /\ observed \in Seq(ObservedSteps) /\ Len(observed) = step - 1
          /\ e \in ObservedSteps
      BY <1>0, <3>2 DEF CarriedOut, TypeOK, ObservedSteps
    <3>5. /\ DOMAIN observed' = 1..step /\ observed'[step] = e
          /\ \A i \in 1..(step - 1) : observed'[i] = observed[i]
      BY <1>0, <3>1, <3>4
    <3>6. \A i \in 1..step : observed'[i].ok
            /\ observed'[i].kind = (Work \o <<"health">>)[i]
      <4>1. /\ (Work \o <<"health">>)[step] = "health"
            /\ \A i \in 1..(step - 1) : (Work \o <<"health">>)[i] = Plan[i]
        BY <1>0, <3>3
      <4>2. observed'[step].ok /\ observed'[step].kind = "health"
        BY <3>5
      <4>3. \A i \in 1..(step - 1) : observed'[i].ok /\ observed'[i].kind = Plan[i]
        BY <3>2, <3>5 DEF CarriedOut
      <4>4. \A i \in 1..step : i = step \/ i \in 1..(step - 1)
        BY <1>0
      <4> QED
        BY <4>1, <4>2, <4>3, <4>4, Zenon
    <3>7. Work \o <<"health">>
            = [i \in 1..step |-> (Work \o <<"health">>)[i]]
      BY <1>0, <3>3
    <3>8. [k \in DOMAIN observed' |-> observed'[k].kind] = Work \o <<"health">>
      BY <3>5, <3>6, <3>7, Zenon
    <3>9. AllCarriedOut'
      BY <3>1, <3>5, <3>6, <3>8 DEF AllCarriedOut, Work
    <3> QED
      BY <3>1, <3>9 DEF ProgressInv
  <2> QED
    BY <1>12, <2>1, <2>2
<1>13. CASE \E ok \in BOOLEAN : Diagnose(ok)
  <2>1. PICK ok \in BOOLEAN : Diagnose(ok)
    BY <1>13
  <2>2. verdict.result # "booted"
    BY <1>0, <2>1 DEF Diagnose, VerdictInv
  <2>3. \/ verdict' = verdict
        \/ \E c : verdict' = Result("failed", c, latest)
    BY <2>1 DEF Diagnose
  <2>4. verdict'.result # "booted"
    BY <2>2, <2>3 DEF Result
  <2>5. pc' \in {"diagnose-logs", "attest"}
    BY <2>1 DEF Diagnose
  <2> QED
    BY <2>4, <2>5 DEF ProgressInv
<1>14. CASE Attest
  BY <1>0, <1>14, CarriedFrame DEF ProgressInv, Attest
<1>15. CASE Host
  <2>1. UNCHANGED <<inp, runVars>>
    BY <1>15 DEF Host, AppListens, StatusChanges, ForeignStarts,
     ComposeListens, AppPrints, OutputScrolls, ForeignStops, ComposeStops,
     AppForks, LeaderExits, GroupExits, ExitDelivered, EnvUnchanged
  <2> QED
    BY <2>1, CarriedFrame DEF ProgressInv
<1>16. CASE Returned \/ UNCHANGED vars
  BY <1>16, CarriedFrame DEF Returned, vars, ProgressInv
<1> QED BY <1>1, <1>2, <1>3, <1>4, <1>5, <1>6, <1>7, <1>8, <1>9, <1>10,
     <1>11, <1>12, <1>13, <1>14, <1>15, <1>16, <1>17 DEF Next, Up

(* A boot means that every command of the plan was carried out in order and *)
(* succeeded, then the health check, and nothing else (run.ts:506-616).     *)
THEOREM BootedMeansEveryStepOkCorrect == Spec => []BootedMeansEveryStepOk
<1> DEFINE I == SafetyInv /\ ProgressInv
<1>1. Init => I
  <2> SUFFICES ASSUME Init PROVE ProgressInv
    BY SafetyInit
  <2>1. /\ pc = "gate" /\ step = 1 /\ observed = <<>> /\ phase = "preflight"
        /\ verdict.result = "none" /\ inp \in InputSet
    BY DEF Init, NoResult, Result
  <2>2. Len(Plan) \in Nat
    <3>1. /\ ServiceSteps(inp) \in Seq({"service"})
          /\ HostSteps(inp) \in Seq({"install", "start-app"})
          /\ HealthSteps(inp) \in Seq({"health"})
      BY <2>1, PlanParts
    <3> QED
      BY <3>1 DEF Plan, PlanSteps
  <2> QED
    BY <2>1, <2>2 DEF ProgressInv, CarriedOut, Concluding
<1>2. I /\ [Next]_vars => I'
  BY SafetyStep, ProgressStep
<1>3. I => BootedMeansEveryStepOk
  BY DEF SafetyInv, VerdictInv, ProgressInv, AllCarriedOut,
     BootedMeansEveryStepOk, StepsOfBoot, Work, Booted
<1> HIDE DEF I
<1>4. Spec => []I
  BY <1>1, <1>2, PTL DEF Spec
<1> QED
  BY <1>3, <1>4, PTL
-----------------------------------------------------------------------------
(* What BootedByThisRun supposes of the host.                               *)
QuietHost ==
  /\ ~Churn /\ ~Leftover
  /\ ForeignUrls \cap Advertised = {}
  /\ "hang" \notin ForeignStatuses

Foreign(u) == server[u].owner = "foreign"

ListenersInv ==
  \A u \in Urls :
    /\ server[u].owner = "none" => server[u].status = "none"
    /\ server[u].owner # "leftover"
    /\ Foreign(u) => u \in ForeignUrls /\ server[u].status \in ForeignStatuses

(* The URLs the current round of probes may visit.                          *)
Reach == Candidates \cup (IF phase = "app" THEN Advertised ELSE {})

ReachInv ==
  /\ phase # "preflight" => cands \subseteq Reach
  /\ pc \in {"probe", "await", "answered"} => todo \subseteq Reach
  /\ pc \in {"await", "answered"} => probe.url \in Reach

(* The candidates of the preflight that nobody has answered for so far.     *)
Probed ==
  Candidates
    \ (todo \cup IF pc \in {"await", "answered"} THEN {probe.url} ELSE {})

OnHost == inp.opts.provider = "local" /\ HasCommand(inp)

PreflightInv ==
  /\ /\ phase = "preflight" /\ pc \in {"probe", "await", "answered"}
     /\ latest = NoEvidence
     => \A u \in Probed : ~Foreign(u)
  /\ phase = "preflight" /\ pc = "answered" /\ Foreign(probe.url) =>
       probe.status # "none"
  /\ /\ OnHost
     /\ \/ pc = "preflighted" /\ latest = NoEvidence
        \/ pc \in {"write", "loop", "command"}
        \/ phase = "app"
     => \A u \in Candidates : ~Foreign(u)
  /\ phase = "app" => OnHost

BoundInv ==
  /\ RunsSourceCompose(inp) /\ step > 1 => \A u \in ComposeUrls : ~Foreign(u)
  /\ phase = "compose" => RunsSourceCompose(inp) /\ step > 1

Ours(e) == Accepted(e) => e.owner \in {"app", "compose"}

OursInv ==
  phase # "preflight" => Ours(latest) /\ (pc = "answered" => Ours(probe))

QuietInv == ListenersInv /\ ReachInv /\ PreflightInv /\ BoundInv /\ OursInv

LEMMA InputStep ==
  ASSUME [Next]_vars
  PROVE  UNCHANGED inp
<1> USE DEF runVars, appVars
<1>1. CASE GateRefuseEarly \/ GateRefuseLate \/ DryRun \/ GateOpen
  BY <1>1 DEF GateRefuseEarly, GateRefuseLate, GateRefuse, DryRun, GateOpen
<1>2. CASE PreflightRefuse \/ PreflightPass \/ WritePlanFiles
  BY <1>2 DEF PreflightRefuse, PreflightPass, WritePlanFiles
<1>3. CASE StartCommand \/ CommandTimesOut
  BY <1>3 DEF StartCommand, CommandTimesOut
<1>4. CASE Closes \/ FallThrough
  BY <1>4 DEF Closes, CommandCloses, FallThrough
<1>5. CASE StartApp \/ StartComposePoll
  BY <1>5 DEF StartApp, StartComposePoll, BeginPoll
<1>6. CASE PollRound \/ PollOver \/ RoundOver \/ PauseOver \/ DeadlinePasses
  BY <1>6 DEF PollRound, PollOver, RoundOver, PauseOver, DeadlinePasses
<1>7. CASE \E u \in Urls : SendProbe(u)
  BY <1>7 DEF SendProbe
<1>8. CASE Answer \/ HandleAnswer
  BY <1>8 DEF Answer, HandleAnswer
<1>9. CASE LoopTurn
  BY <1>9 DEF LoopTurn
<1>10. CASE JudgeExited \/ JudgeBooted \/ JudgeUnhealthy
  BY <1>10 DEF JudgeExited, JudgeBooted, JudgeUnhealthy
<1>11. CASE StopSignal \/ StopClosed \/ StopKilled
  BY <1>11 DEF StopSignal, StopClosed, StopKilled
<1>12. CASE ComposeBooted \/ ComposeUnhealthy
  BY <1>12 DEF ComposeBooted, ComposeUnhealthy
<1>13. CASE \E ok \in BOOLEAN : Diagnose(ok)
  BY <1>13 DEF Diagnose
<1>14. CASE Attest
  BY <1>14 DEF Attest
<1>15. CASE Host
  BY <1>15 DEF Host, AppListens, StatusChanges, ForeignStarts, ComposeListens,
     AppPrints, OutputScrolls, ForeignStops, ComposeStops, AppForks,
     LeaderExits, GroupExits, ExitDelivered, EnvUnchanged
<1>16. CASE Returned \/ UNCHANGED vars
  BY <1>16 DEF Returned, vars
<1> QED BY <1>1, <1>2, <1>3, <1>4, <1>5, <1>6, <1>7, <1>8, <1>9, <1>10, <1>11,
     <1>12, <1>13, <1>14, <1>15, <1>16 DEF Next, Up

(* Only the host and the kill at the end of stop() change who listens.      *)
LEMMA ServerFrame ==
  ASSUME ~Host, ~StopKilled, [Next]_vars
  PROVE  UNCHANGED server
<1> USE DEF runVars, appVars
<1>1. CASE GateRefuseEarly \/ GateRefuseLate \/ DryRun \/ GateOpen
  BY <1>1 DEF GateRefuseEarly, GateRefuseLate, GateRefuse, DryRun, GateOpen
<1>2. CASE PreflightRefuse \/ PreflightPass \/ WritePlanFiles
  BY <1>2 DEF PreflightRefuse, PreflightPass, WritePlanFiles
<1>3. CASE StartCommand \/ CommandTimesOut
  BY <1>3 DEF StartCommand, CommandTimesOut
<1>4. CASE Closes \/ FallThrough
  BY <1>4 DEF Closes, CommandCloses, FallThrough
<1>5. CASE StartApp \/ StartComposePoll
  BY <1>5 DEF StartApp, StartComposePoll, BeginPoll
<1>6. CASE PollRound \/ PollOver \/ RoundOver \/ PauseOver \/ DeadlinePasses
  BY <1>6 DEF PollRound, PollOver, RoundOver, PauseOver, DeadlinePasses
<1>7. CASE \E u \in Urls : SendProbe(u)
  BY <1>7 DEF SendProbe
<1>8. CASE Answer \/ HandleAnswer
  BY <1>8 DEF Answer, HandleAnswer
<1>9. CASE LoopTurn
  BY <1>9 DEF LoopTurn
<1>10. CASE JudgeExited \/ JudgeBooted \/ JudgeUnhealthy
  BY <1>10 DEF JudgeExited, JudgeBooted, JudgeUnhealthy
<1>11. CASE StopSignal \/ StopClosed \/ StopKilled
  BY <1>11 DEF StopSignal, StopClosed
<1>12. CASE ComposeBooted \/ ComposeUnhealthy
  BY <1>12 DEF ComposeBooted, ComposeUnhealthy
<1>13. CASE \E ok \in BOOLEAN : Diagnose(ok)
  BY <1>13 DEF Diagnose
<1>14. CASE Attest
  BY <1>14 DEF Attest
<1>15. CASE Host
  BY <1>15
<1>16. CASE Returned \/ UNCHANGED vars
  BY <1>16 DEF Returned, vars
<1> QED BY <1>1, <1>2, <1>3, <1>4, <1>5, <1>6, <1>7, <1>8, <1>9, <1>10, <1>11,
     <1>12, <1>13, <1>14, <1>15, <1>16 DEF Next, Up

(* On a quiet host no service that BootProof did not start comes up.        *)
LEMMA ListenersStep ==
  ASSUME QuietHost, TypeOK, ListenersInv, [Next]_vars
  PROVE  /\ ListenersInv'
         /\ \A u \in Urls : Foreign(u)' => Foreign(u)
<1> USE DEF ListenersInv, Foreign, QuietHost, TypeOK
<1>1. CASE StopKilled
  BY <1>1 DEF StopKilled, Vacated, Free
<1>2. CASE Host
  <2>0. /\ "none" \notin Statuses
        /\ server \in [Urls -> [owner : Owners, status : Statuses \cup {"none"}]]
    BY StatusAssumption
  <2>1. ASSUME NEW v \in Urls, NEW s \in Statuses,
               AppListens(v, s) \/ ComposeListens(v, s)
        PROVE  /\ ListenersInv'
               /\ \A u \in Urls : Foreign(u)' => Foreign(u)
    <3>1. \E o \in {"app", "compose"} :
             server' = [server EXCEPT ![v] = [owner |-> o, status |-> s]]
      BY <2>1 DEF AppListens, ComposeListens, Listener
    <3> QED
      BY <2>0, <3>1
  <2>2. ASSUME NEW v \in Urls, NEW s \in Statuses, StatusChanges(v, s)
        PROVE  /\ ListenersInv'
               /\ \A u \in Urls : Foreign(u)' => Foreign(u)
    <3>1. /\ server' = [server EXCEPT ![v].status = s]
          /\ server[v] # Free
          /\ server[v].owner = "foreign" => s \in ForeignStatuses
      BY <2>2 DEF StatusChanges
    <3>2. server[v].owner # "none"
      <4>1. server[v].owner = "none" => server[v] = Free
        BY <2>0 DEF Free
      <4> QED
        BY <3>1, <4>1
    <3> QED
      BY <2>0, <3>1, <3>2
  <2>3. ASSUME NEW v \in Urls, ForeignStops(v) \/ ComposeStops(v)
        PROVE  /\ ListenersInv'
               /\ \A u \in Urls : Foreign(u)' => Foreign(u)
    BY <2>0, <2>3 DEF ForeignStops, ComposeStops, Free
  <2>4. CASE LeaderExits \/ GroupExits
    BY <2>0, <2>4 DEF LeaderExits, GroupExits, Vacated, Free
  <2>5. CASE UNCHANGED server
    BY <2>5
  <2>6. \A u \in Urls, s \in Statuses : ~ForeignStarts(u, s)
    BY DEF ForeignStarts
  <2> QED
    BY <1>2, <2>1, <2>2, <2>3, <2>4, <2>5, <2>6 DEF Host, AppPrints,
       OutputScrolls, AppForks, ExitDelivered
<1>3. CASE ~StopKilled /\ ~Host
  BY <1>3, ServerFrame
<1> QED
  BY <1>1, <1>2, <1>3

(* What the plan and the gate decide does not change.                       *)
LEMMA FixedStep ==
  ASSUME [Next]_vars
  PROVE  /\ Candidates' = Candidates /\ OnHost' = OnHost
         /\ RunsSourceCompose(inp)' = RunsSourceCompose(inp)
         /\ NeedsPreflight' = NeedsPreflight /\ Plan' = Plan
BY InputStep DEF Candidates, OnHost, RunsSourceCompose, NeedsPreflight, Plan

LEMMA ReachStep ==
  ASSUME TypeOK, PhaseInv, ReachInv, [Next]_vars
  PROVE  ReachInv'
<1>0. Candidates' = Candidates
  BY FixedStep
<1> USE <1>0 DEF ReachInv, Reach, OutputUrls, Evidence, TypeOK, PhaseInv,
           Before, runVars, appVars
<1>1. CASE GateRefuseEarly \/ GateRefuseLate \/ DryRun \/ GateOpen
  BY <1>1 DEF GateRefuseEarly, GateRefuseLate, GateRefuse, DryRun, GateOpen
<1>2. CASE PreflightRefuse \/ PreflightPass \/ WritePlanFiles
  BY <1>2 DEF PreflightRefuse, PreflightPass, WritePlanFiles
<1>3. CASE StartCommand \/ CommandTimesOut
  BY <1>3 DEF StartCommand, CommandTimesOut
<1>4. CASE Closes \/ FallThrough
  BY <1>4 DEF Closes, CommandCloses, FallThrough
<1>5. CASE StartApp \/ StartComposePoll
  BY <1>5 DEF StartApp, StartComposePoll, BeginPoll
<1>6. CASE PollRound \/ PollOver \/ RoundOver \/ PauseOver \/ DeadlinePasses
  BY <1>6 DEF PollRound, PollOver, RoundOver, PauseOver, DeadlinePasses
<1>7. CASE \E u \in Urls : SendProbe(u)
  BY <1>7 DEF SendProbe
<1>8. CASE Answer \/ HandleAnswer
  BY <1>8 DEF Answer, HandleAnswer
<1>9. CASE LoopTurn
  BY <1>9 DEF LoopTurn
<1>10. CASE JudgeExited \/ JudgeBooted \/ JudgeUnhealthy
  BY <1>10 DEF JudgeExited, JudgeBooted, JudgeUnhealthy
<1>11. CASE StopSignal \/ StopClosed \/ StopKilled
  BY <1>11 DEF StopSignal, StopClosed, StopKilled
<1>12. CASE ComposeBooted \/ ComposeUnhealthy
  BY <1>12 DEF ComposeBooted, ComposeUnhealthy
<1>13. CASE \E ok \in BOOLEAN : Diagnose(ok)
  BY <1>13 DEF Diagnose
<1>14. CASE Attest
  BY <1>14 DEF Attest
<1>15. CASE Host
  BY <1>15 DEF Host, AppListens, StatusChanges, ForeignStarts, ComposeListens,
     AppPrints, OutputScrolls, ForeignStops, ComposeStops, AppForks,
     LeaderExits, GroupExits, ExitDelivered, EnvUnchanged
<1>16. CASE Returned \/ UNCHANGED vars
  BY <1>16 DEF Returned, vars
<1> QED BY <1>1, <1>2, <1>3, <1>4, <1>5, <1>6, <1>7, <1>8, <1>9, <1>10, <1>11,
     <1>12, <1>13, <1>14, <1>15, <1>16 DEF Next, Up

(* A start-app step is planned for a command only, and past the gate for    *)
(* the local provider only.                                                 *)
LEMMA StartsOnHost ==
  ASSUME inp \in InputSet, GatePassed, NEW k \in 1..Len(Plan),
         Plan[k] = "start-app"
  PROVE  OnHost
<1>1. HostSteps(inp) # <<>> /\ Acknowledged(inp)
  BY PlannedHostStep, HostStepConsent
<1>2. ASSUME ~HasCommand(inp) PROVE FALSE
  <2>1. inp.facts.prep = 0
    BY <1>2, InputType, PlanParts DEF HasCommand, Inferable
  <2>2. HostSteps(inp) = [j \in 1..inp.facts.prep |-> "install"] \o <<>>
    BY <1>1, <1>2 DEF HostSteps
  <2> QED
    BY <1>1, <2>1, <2>2
<1> QED
  BY <1>1, <1>2 DEF OnHost, Acknowledged

LEMMA PreflightStep ==
  ASSUME QuietHost, SafetyInv, ListenersInv, ReachInv, PreflightInv, [Next]_vars
  PROVE  PreflightInv'
<1>0. /\ Candidates' = Candidates /\ OnHost' = OnHost
      /\ \A u \in Urls : Foreign(u)' => Foreign(u)
      /\ Candidates \subseteq Urls
  BY FixedStep, ListenersStep, CandidatesAreUrls DEF SafetyInv
<1>a. /\ TypeOK /\ PhaseInv /\ GateInv
      /\ phase = "preflight" /\ pc = "answered" => probe.url \in Urls
  BY CandidatesAreUrls DEF SafetyInv, ReachInv, Reach
<1> USE <1>0, <1>a DEF PreflightInv, Probed, ShouldStop, Evidence, TypeOK,
           PhaseInv, Before, runVars, appVars
<1>1. CASE GateRefuseEarly \/ GateRefuseLate \/ DryRun \/ GateOpen
  <2>1. CASE GateOpen
    <3>1. /\ pc = "gate" /\ phase = "preflight" /\ UNCHANGED phase
          /\ \/ NeedsPreflight /\ pc' = "probe" /\ todo' = Candidates
             \/ ~NeedsPreflight /\ pc' = "write"
      BY <2>1 DEF GateOpen
    <3>2. OnHost /\ ~NeedsPreflight => Candidates = {}
      BY DEF OnHost, NeedsPreflight
    <3> QED
      BY <3>1, <3>2
  <2> QED
    BY <1>1, <2>1 DEF GateRefuseEarly, GateRefuseLate, GateRefuse, DryRun
<1>2. CASE PreflightRefuse \/ PreflightPass \/ WritePlanFiles
  BY <1>2 DEF PreflightRefuse, PreflightPass, WritePlanFiles
<1>3. CASE StartCommand \/ CommandTimesOut
  BY <1>3 DEF StartCommand, CommandTimesOut
<1>4. CASE Closes \/ FallThrough
  <2>1. /\ pc \in {"loop", "command"} /\ pc' \in {"loop", "attest"}
        /\ UNCHANGED phase
    BY <1>4 DEF Closes, CommandCloses, FallThrough
  <2> QED
    BY <2>1
<1>5. CASE StartApp \/ StartComposePoll
  <2>1. CASE StartApp
    <3>1. /\ pc = "loop" /\ step \in 1..Len(Plan) /\ Plan[step] = "start-app"
          /\ phase' = "app" /\ pc' = "poll"
      BY <2>1 DEF StartApp, BeginPoll, Kind
    <3>2. OnHost
      BY <3>1, StartsOnHost DEF GateInv
    <3> QED
      BY <3>1, <3>2
  <2>2. CASE StartComposePoll
    BY <2>2 DEF StartComposePoll, BeginPoll
  <2> QED
    BY <1>5, <2>1, <2>2
<1>6. CASE PollRound \/ PollOver \/ RoundOver \/ PauseOver \/ DeadlinePasses
  BY <1>6 DEF PollRound, PollOver, RoundOver, PauseOver, DeadlinePasses
<1>7. CASE \E u \in Urls : SendProbe(u)
  BY <1>7 DEF SendProbe
<1>8. CASE Answer \/ HandleAnswer
  <2>1. CASE Answer
    <3>1. /\ pc = "await" /\ pc' = "answered"
          /\ UNCHANGED <<phase, todo, latest>>
          /\ probe'.url = probe.url
          /\ probe'.status = IF server[probe.url].status = "hang"
                               THEN "none" ELSE server[probe.url].status
      BY <2>1 DEF Answer, Evidence
    <3>2. Foreign(probe.url) => probe'.status # "none"
      BY <3>1, StatusAssumption DEF ListenersInv, Foreign, QuietHost
    <3> QED
      BY <3>1, <3>2
  <2>2. CASE HandleAnswer
    <3>1. /\ pc = "answered" /\ pc' # "answered" /\ pc' # "await"
          /\ UNCHANGED <<phase, todo, probe>>
          /\ latest' = IF probe.status = "none" THEN latest ELSE probe
      BY <2>2 DEF HandleAnswer
    <3>2. CASE phase = "preflight"
      <4>1. probe.url \in Candidates
        BY <3>1, <3>2 DEF ReachInv, Reach
      <4>2. probe # NoEvidence
        BY <4>1, CandidatesAreUrls, UrlAssumption DEF NoEvidence, Evidence
      <4>3. latest' = NoEvidence => latest = NoEvidence /\ ~Foreign(probe.url)
              /\ ~Accepted(probe)
        BY <3>1, <3>2, <4>2 DEF Accepted
      <4>4. ~Accepted(probe) => pc' = "probe"
        BY <2>2 DEF HandleAnswer
      <4>5. pc' \in {"probe", "preflighted"}
        BY <2>2, <3>2 DEF HandleAnswer
      <4> QED
        BY <3>1, <3>2, <4>3, <4>4, <4>5
    <3>3. CASE phase # "preflight"
      <4>1. pc' \notin {"preflighted", "write", "loop", "command"}
        BY <2>2, <3>3 DEF HandleAnswer
      <4> QED
        BY <3>1, <3>3, <4>1
    <3> QED
      BY <3>2, <3>3
  <2> QED
    BY <1>8, <2>1, <2>2
<1>9. CASE LoopTurn
  BY <1>9 DEF LoopTurn
<1>10. CASE JudgeExited \/ JudgeBooted \/ JudgeUnhealthy
  BY <1>10 DEF JudgeExited, JudgeBooted, JudgeUnhealthy
<1>11. CASE StopSignal \/ StopClosed \/ StopKilled
  BY <1>11 DEF StopSignal, StopClosed, StopKilled
<1>12. CASE ComposeBooted \/ ComposeUnhealthy
  BY <1>12 DEF ComposeBooted, ComposeUnhealthy
<1>13. CASE \E ok \in BOOLEAN : Diagnose(ok)
  BY <1>13 DEF Diagnose
<1>14. CASE Attest
  BY <1>14 DEF Attest
<1>15. CASE Host
  BY <1>15 DEF Host, AppListens, StatusChanges, ForeignStarts, ComposeListens,
     AppPrints, OutputScrolls, ForeignStops, ComposeStops, AppForks,
     LeaderExits, GroupExits, ExitDelivered, EnvUnchanged
<1>16. CASE Returned \/ UNCHANGED vars
  BY <1>16 DEF Returned, vars
<1> QED BY <1>1, <1>2, <1>3, <1>4, <1>5, <1>6, <1>7, <1>8, <1>9, <1>10, <1>11,
     <1>12, <1>13, <1>14, <1>15, <1>16 DEF Next, Up

LEMMA BoundStep ==
  ASSUME QuietHost, TypeOK, ListenersInv, BoundInv, [Next]_vars
  PROVE  BoundInv'
<1>0. /\ RunsSourceCompose(inp)' = RunsSourceCompose(inp)
      /\ \A u \in Urls : Foreign(u)' => Foreign(u)
      /\ ComposeUrls \subseteq Urls
  BY FixedStep, ListenersStep, UrlAssumption
<1> USE <1>0 DEF BoundInv, TypeOK, runVars, appVars
<1>1. CASE GateRefuseEarly \/ GateRefuseLate \/ DryRun \/ GateOpen
  BY <1>1 DEF GateRefuseEarly, GateRefuseLate, GateRefuse, DryRun, GateOpen
<1>2. CASE PreflightRefuse \/ PreflightPass \/ WritePlanFiles
  BY <1>2 DEF PreflightRefuse, PreflightPass, WritePlanFiles
<1>3. CASE StartCommand \/ CommandTimesOut
  BY <1>3 DEF StartCommand, CommandTimesOut
<1>4. CASE Closes \/ FallThrough
  <2>1. CASE Closes
    <3>1. PICK exitZero \in BOOLEAN : CommandCloses(exitZero)
      BY <2>1 DEF Closes
    <3>2. /\ pc = "command" /\ UNCHANGED <<phase, server>>
          /\ Kind = "service" /\ exitZero => PortsBindable
          /\ CommandOk(exitZero) => step' = step + 1
          /\ ~CommandOk(exitZero) => step' = step
      BY <3>1 DEF CommandCloses
    <3>3. ASSUME RunsSourceCompose(inp), step = 1, step' > 1
          PROVE  PortsBindable
      <4>1. Kind = "service" /\ CommandOk(exitZero)
        BY <3>2, <3>3, ServiceComesFirst DEF Kind
      <4> QED
        BY <3>2, <4>1 DEF CommandOk
    <3> QED
      BY <3>2, <3>3 DEF PortsBindable, Foreign
  <2>2. CASE FallThrough
    BY <2>2 DEF FallThrough
  <2> QED
    BY <1>4, <2>1, <2>2
<1>5. CASE StartApp \/ StartComposePoll
  <2>1. CASE StartApp
    BY <2>1 DEF StartApp, BeginPoll
  <2>2. CASE StartComposePoll
    <3>1. /\ Plan[step] = "health" /\ RunsSourceCompose(inp)
          /\ UNCHANGED <<step, server>>
      BY <2>2 DEF StartComposePoll, BeginPoll, Kind
    <3>2. step > 1
      BY <3>1, ServiceComesFirst
    <3> QED
      BY <3>1, <3>2
  <2> QED
    BY <1>5, <2>1, <2>2
<1>6. CASE PollRound \/ PollOver \/ RoundOver \/ PauseOver \/ DeadlinePasses
  BY <1>6 DEF PollRound, PollOver, RoundOver, PauseOver, DeadlinePasses
<1>7. CASE \E u \in Urls : SendProbe(u)
  BY <1>7 DEF SendProbe
<1>8. CASE Answer \/ HandleAnswer
  BY <1>8 DEF Answer, HandleAnswer
<1>9. CASE LoopTurn
  BY <1>9 DEF LoopTurn
<1>10. CASE JudgeExited \/ JudgeBooted \/ JudgeUnhealthy
  BY <1>10 DEF JudgeExited, JudgeBooted, JudgeUnhealthy
<1>11. CASE StopSignal \/ StopClosed \/ StopKilled
  BY <1>11 DEF StopSignal, StopClosed, StopKilled
<1>12. CASE ComposeBooted \/ ComposeUnhealthy
  BY <1>12 DEF ComposeBooted, ComposeUnhealthy
<1>13. CASE \E ok \in BOOLEAN : Diagnose(ok)
  BY <1>13 DEF Diagnose
<1>14. CASE Attest
  BY <1>14 DEF Attest
<1>15. CASE Host
  BY <1>15 DEF Host, AppListens, StatusChanges, ForeignStarts, ComposeListens,
     AppPrints, OutputScrolls, ForeignStops, ComposeStops, AppForks,
     LeaderExits, GroupExits, ExitDelivered, EnvUnchanged
<1>16. CASE Returned \/ UNCHANGED vars
  BY <1>16 DEF Returned, vars
<1> QED BY <1>1, <1>2, <1>3, <1>4, <1>5, <1>6, <1>7, <1>8, <1>9, <1>10, <1>11,
     <1>12, <1>13, <1>14, <1>15, <1>16 DEF Next, Up

(* After the preflight no URL the poll may visit is a foreign service's.    *)
LEMMA NothingForeign ==
  ASSUME QuietHost, SafetyInv, QuietInv, phase # "preflight", pc = "await"
  PROVE  ~Foreign(probe.url)
<1>1. probe.url \in Reach /\ probe.url \in Urls
  BY DEF QuietInv, ReachInv, SafetyInv, TypeOK
<1>2. CASE phase = "app"
  BY <1>1, <1>2 DEF QuietInv, PreflightInv, ListenersInv, QuietHost, Reach
<1>3. CASE phase = "compose"
  BY <1>1, <1>3 DEF QuietInv, BoundInv, Reach, Candidates
<1> QED
  BY <1>2, <1>3 DEF SafetyInv, TypeOK

LEMMA OursStep ==
  ASSUME QuietHost, SafetyInv, QuietInv, [Next]_vars
  PROVE  OursInv'
<1>a. TypeOK /\ PhaseInv /\ ListenersInv /\ OursInv
  BY DEF SafetyInv, QuietInv
<1> USE <1>a DEF OursInv, Ours, Accepted, TypeOK, PhaseInv, Before, runVars,
           appVars
<1>1. CASE GateRefuseEarly \/ GateRefuseLate \/ DryRun \/ GateOpen
  BY <1>1 DEF GateRefuseEarly, GateRefuseLate, GateRefuse, DryRun, GateOpen
<1>2. CASE PreflightRefuse \/ PreflightPass \/ WritePlanFiles
  BY <1>2 DEF PreflightRefuse, PreflightPass, WritePlanFiles
<1>3. CASE StartCommand \/ CommandTimesOut
  BY <1>3 DEF StartCommand, CommandTimesOut
<1>4. CASE Closes \/ FallThrough
  BY <1>4 DEF Closes, CommandCloses, FallThrough
<1>5. CASE StartApp \/ StartComposePoll
  BY <1>5 DEF StartApp, StartComposePoll, BeginPoll, NoEvidence, Evidence
<1>6. CASE PollRound \/ PollOver \/ RoundOver \/ PauseOver \/ DeadlinePasses
  BY <1>6 DEF PollRound, PollOver, RoundOver, PauseOver, DeadlinePasses
<1>7. CASE \E u \in Urls : SendProbe(u)
  BY <1>7 DEF SendProbe
<1>8. CASE Answer \/ HandleAnswer
  <2>1. CASE Answer
    <3> DEFINE u == probe.url
    <3>1. /\ pc = "await" /\ UNCHANGED <<phase, latest>>
          /\ probe'.owner = server[u].owner
          /\ probe'.status = IF server[u].status = "hang"
                               THEN "none" ELSE server[u].status
      BY <2>1 DEF Answer, Evidence
    <3>2. ASSUME phase # "preflight", probe'.status = "accepted"
          PROVE  server[u].owner \in {"app", "compose"}
      <4>1. u \in Urls /\ server[u].status = "accepted"
        BY <3>1, <3>2
      <4>2. server[u].owner \in Owners
        BY <4>1
      <4>3. ~Foreign(u)
        BY <3>1, <3>2, NothingForeign
      <4> QED
        BY <4>1, <4>2, <4>3 DEF ListenersInv, Foreign, Owners
    <3> QED
      BY <3>1, <3>2
  <2>2. CASE HandleAnswer
    BY <2>2 DEF HandleAnswer
  <2> QED
    BY <1>8, <2>1, <2>2
<1>9. CASE LoopTurn
  BY <1>9 DEF LoopTurn
<1>10. CASE JudgeExited \/ JudgeBooted \/ JudgeUnhealthy
  BY <1>10 DEF JudgeExited, JudgeBooted, JudgeUnhealthy
<1>11. CASE StopSignal \/ StopClosed \/ StopKilled
  BY <1>11 DEF StopSignal, StopClosed, StopKilled
<1>12. CASE ComposeBooted \/ ComposeUnhealthy
  BY <1>12 DEF ComposeBooted, ComposeUnhealthy
<1>13. CASE \E ok \in BOOLEAN : Diagnose(ok)
  BY <1>13 DEF Diagnose
<1>14. CASE Attest
  BY <1>14 DEF Attest
<1>15. CASE Host
  BY <1>15 DEF Host, AppListens, StatusChanges, ForeignStarts, ComposeListens,
     AppPrints, OutputScrolls, ForeignStops, ComposeStops, AppForks,
     LeaderExits, GroupExits, ExitDelivered, EnvUnchanged
<1>16. CASE Returned \/ UNCHANGED vars
  BY <1>16 DEF Returned, vars
<1> QED BY <1>1, <1>2, <1>3, <1>4, <1>5, <1>6, <1>7, <1>8, <1>9, <1>10, <1>11,
     <1>12, <1>13, <1>14, <1>15, <1>16 DEF Next, Up

(* With no service that comes up meanwhile, none where only the output      *)
(* points and no container left from before, a boot is evidence of what     *)
(* this run started (run.ts:412-439).                                       *)
THEOREM BootedByThisRunCorrect ==
  ASSUME QuietHost
  PROVE  Spec => []BootedByThisRun
<1> DEFINE I == SafetyInv /\ QuietInv
<1>1. Init => I
  <2> SUFFICES ASSUME Init PROVE QuietInv
    BY SafetyInit
  <2>1. /\ pc = "gate" /\ step = 1 /\ phase = "preflight"
        /\ ~Leftover
    BY DEF Init, QuietHost
  <2>2. ListenersInv
    BY <2>1 DEF Init, ListenersInv, Foreign, Free, Listener
  <2> QED
    BY <2>1, <2>2 DEF QuietInv, ReachInv, PreflightInv, BoundInv, OursInv
<1>2. I /\ [Next]_vars => I'
  <2> SUFFICES ASSUME I, [Next]_vars PROVE I'
    OBVIOUS
  <2>1. TypeOK /\ PhaseInv
    BY DEF SafetyInv
  <2>2. SafetyInv'
    BY SafetyStep
  <2>3. ListenersInv' /\ ReachInv' /\ PreflightInv' /\ BoundInv' /\ OursInv'
    BY <2>1, ListenersStep, ReachStep, PreflightStep, BoundStep, OursStep
       DEF QuietInv
  <2> QED
    BY <2>2, <2>3 DEF QuietInv
<1>3. I => BootedByThisRun
  BY DEF SafetyInv, VerdictInv, QuietInv, OursInv, Ours, Supports,
     BootedByThisRun, Booted
<1> HIDE DEF I
<1>4. Spec => []I
  BY <1>1, <1>2, PTL DEF Spec
<1> QED
  BY <1>3, <1>4, PTL
=============================================================================
