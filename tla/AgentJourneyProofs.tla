-------------------------- MODULE AgentJourneyProofs -------------------------
(***************************************************************************)
(* Theorems about AgentJourney: for every repository, host and attestation, *)
(* the plans ask before they change anything, `plan-agent` fails only over  *)
(* a URL that must be quoted, an attestation that does not verify moves no  *)
(* plan, and an external service is never a boot.                           *)
(***************************************************************************)
EXTENDS AgentJourney, RepairSafetyProofs

(* What a step must be: it asks before it changes anything, and it passes   *)
(* the validator unless the URL it observes is quoted.                      *)
Asks(c) ==
  /\ c.action.kind = "command" /\ ~c.action.approval =>
       c.action.scope = "none" /\ "verify_url" \in c.action.cmd.traits
  /\ c.action.scope \in {"credentials", "kubernetes_cluster", "host_tool_install"}
       => c.action.approval
  /\ "key_material" \in c.action.cmd.traits => c.secret
Lawful(c, s, a) ==
  Asks(c) /\ (StepValid(c) \/ \E u \in Urls(s, a) : u \in Quoted)

LEMMA InstructionStep ==
  ASSUME NEW class, NEW s, NEW a, NEW risk \in {"medium", "high"}, NEW scope
  PROVE  Lawful(AssessedStep(Instruction(class, risk, scope)), s, a)
<1> DEFINE st == AssessedStep(Instruction(class, risk, scope))
<1>1. /\ st.secret = (scope = "credentials") /\ st.action.kind = "instruction"
      /\ st.action.cmd = NoCommand /\ st.action.risk = risk /\ st.action.scope = scope
      /\ st.action.approval = TRUE
  BY DEF Instruction, Planned, AssessedStep, Declared, Assessed, Assess, Action
<1> HIDE DEF st
<1>2. StepValid(st)
  BY <1>1 DEF StepValid, AssessmentValid
<1>3. Asks(st)
  BY <1>1 DEF Asks, NoCommand, Cmd
<1> QED
  BY <1>2, <1>3 DEF Lawful, st

LEMMA UnsupportedStep ==
  ASSUME NEW s, NEW a
  PROVE  Lawful(AssessedStep(Unsupported), s, a)
<1> DEFINE st == AssessedStep(Unsupported)
<1>1. /\ st.action.kind = "instruction" /\ st.action.cmd = NoCommand
      /\ st.action.risk = "blocked" /\ st.action.scope = "unknown"
      /\ st.action.approval = FALSE
  BY DEF Unsupported, Instruction, Planned, AssessedStep, Declared, Assessed, Assess, Action
<1> HIDE DEF st
<1>2. StepValid(st)
  BY <1>1 DEF StepValid, AssessmentValid
<1>3. Asks(st)
  BY <1>1 DEF Asks, NoCommand, Cmd
<1> QED
  BY <1>2, <1>3 DEF Lawful, st

(* The commands that a plan may name, and what the policy says of them.     *)
LEMMA PlannedCommands ==
  /\ \A c \in {BrewInstall, KindCreate, AbctlInstall, AbctlCredentials} :
       /\ CommandValid(c) /\ Registered(c) /\ "quoted" \notin c.traits
       /\ Inferred(c).risk = "high"
  /\ Inferred(BrewInstall).scope = "host_tool_install"
  /\ Inferred(KindCreate).scope = "kubernetes_cluster"
  /\ Inferred(AbctlInstall).scope = "kubernetes_cluster"
  /\ Inferred(AbctlCredentials).scope = "credentials"
  /\ \A c \in {BrewInstall, KindCreate, AbctlInstall} : "key_material" \notin c.traits
<1>1. /\ BrewInstall.traits = {"tool_install"}
      /\ KindCreate.traits = {"cluster_create", "cluster_tool"}
      /\ AbctlInstall.traits = {"cluster_create", "cluster_tool"}
      /\ AbctlCredentials.traits = {"key_material", "cluster_tool"}
  BY DEF BrewInstall, KindCreate, AbctlInstall, AbctlCredentials, Cmd
<1>2. Inferred(BrewInstall) = RiskRules[4]
  BY <1>1, FirstRule, RulesTable DEF Rule
<1>3. \A c : c.traits = {"cluster_create", "cluster_tool"} => Inferred(c) = RiskRules[6]
  <2> TAKE c
  <2> HAVE c.traits = {"cluster_create", "cluster_tool"}
  <2>1. \A n \in 1..18 : RiskRules[n].trait \in c.traits \cup {"any"} => 6 <= n
    BY RulesTable
  <2>2. RiskRules[6].trait \in c.traits
    BY RulesTable DEF Rule
  <2> QED
    BY <2>1, <2>2, LeastRule
<1>4. Inferred(AbctlCredentials) = RiskRules[8]
  <2>1. \A n \in 1..18 : RiskRules[n].trait \in AbctlCredentials.traits \cup {"any"} => 8 <= n
    BY <1>1, RulesTable
  <2>2. RiskRules[8].trait \in AbctlCredentials.traits
    BY <1>1, RulesTable DEF Rule
  <2> QED
    BY <2>1, <2>2, LeastRule
<1>5. \A c \in {BrewInstall, KindCreate, AbctlInstall, AbctlCredentials} :
        CommandValid(c) /\ Registered(c) /\ "quoted" \notin c.traits
  BY <1>1 DEF CommandValid, ForbiddenTraits, Registered
<1> QED
  BY <1>1, <1>2, <1>3, <1>4, <1>5, RulesTable DEF Rule

LEMMA HighStep ==
  ASSUME NEW class, NEW s, NEW a,
         NEW c \in {BrewInstall, KindCreate, AbctlInstall, AbctlCredentials},
         NEW scope, scope = Inferred(c).scope
  PROVE  Lawful(AssessedStep(Command(class, c, "high", scope)), s, a)
<1> DEFINE st == AssessedStep(Command(class, c, "high", scope))
<1>1. /\ CommandValid(c) /\ Registered(c) /\ "quoted" \notin c.traits
      /\ Inferred(c).risk = "high" /\ scope # "unknown"
      /\ "key_material" \in c.traits => scope = "credentials"
  BY PlannedCommands
<1>2. Higher("high", Inferred(c).risk) = "high"
  BY <1>1, HigherOf
<1>3. \A ask \in BOOLEAN :
        Assess("command", c, "high", scope, ask)
          = [risk |-> "high", scope |-> scope, approval |-> TRUE]
  BY <1>1, <1>2 DEF Assess
<1>4. /\ st.secret = (scope = "credentials") /\ st.action.kind = "command"
      /\ st.action.cmd = c /\ st.action.risk = "high" /\ st.action.scope = scope
      /\ st.action.approval = TRUE
  BY <1>1, <1>2 DEF Command, Planned, AssessedStep, Declared, Assessed, Assess, Action
<1> HIDE DEF st
<1>5. StepValid(st)
  <2>1. Assess("command", st.action.cmd, st.action.risk, st.action.scope, st.action.approval)
          = [risk |-> "high", scope |-> scope, approval |-> TRUE]
    BY <1>3, <1>4
  <2> QED
    BY <1>1, <1>4, <2>1 DEF StepValid, AssessmentValid
<1>6. Asks(st)
  BY <1>1, <1>4 DEF Asks
<1> QED
  BY <1>5, <1>6 DEF Lawful, st

(* The URL that a plan observes is one of those it saw.                     *)
LEMMA PreferredIsSeen ==
  ASSUME NEW us, us # {}, us \subseteq {UrlOrder[n] : n \in DOMAIN UrlOrder}
  PROVE  PreferredUrl(us) \in us
<1>1. /\ DOMAIN UrlOrder = 1..3 /\ UrlOrder[1] = "health" /\ UrlOrder[2] = "page"
      /\ UrlOrder[3] = "starred"
  BY DEF UrlOrder
<1> HIDE DEF UrlOrder
<1> DEFINE first(n) == UrlOrder[n] \in us /\ \A m \in 1..(n - 1) : UrlOrder[m] \notin us
<1>2. \E n \in DOMAIN UrlOrder : first(n)
  <2>1. CASE UrlOrder[1] \in us
    <3>1. first(1)
      BY <2>1
    <3> QED
      BY <1>1, <3>1
  <2>2. CASE UrlOrder[1] \notin us /\ UrlOrder[2] \in us
    <3>1. first(2)
      BY <2>2
    <3> QED
      BY <1>1, <3>1
  <2>3. CASE UrlOrder[1] \notin us /\ UrlOrder[2] \notin us
    <3>1. UrlOrder[3] \in us
      BY <1>1, <2>3
    <3>2. first(3)
      BY <2>3, <3>1
    <3> QED
      BY <1>1, <3>2
  <2> QED
    BY <2>1, <2>2, <2>3
<1>3. first(CHOOSE n \in DOMAIN UrlOrder : first(n))
  BY <1>2
<1> QED
  BY <1>3 DEF PreferredUrl

LEMMA ObserveStep ==
  ASSUME NEW s, NEW a, NEW c \in ObserveActions(s, a)
  PROVE  Lawful(AssessedStep(c), s, a)
<1> DEFINE u == PreferredUrl(Urls(s, a))
           v == VerifyUrl(u)
           st == AssessedStep(c)
<1>1. /\ External(s, a) /\ CommandValid(v)
      /\ c = Command("external_health_verification_required", v, "low", "none")
  BY DEF ObserveActions
<1>2. u \in Urls(s, a)
  <2>1. Urls(s, a) # {} /\ Urls(s, a) \subseteq {UrlOrder[n] : n \in DOMAIN UrlOrder}
    BY <1>1 DEF External, Urls
  <2> QED
    BY <2>1, PreferredIsSeen
<1> HIDE DEF u
<1>3. /\ v.traits \subseteq {"verify_url", "quoted"} /\ "verify_url" \in v.traits
      /\ "quoted" \in v.traits => u \in Quoted
  BY DEF VerifyUrl, Cmd
<1> HIDE DEF v
<1>4. Inferred(v).risk = "low" /\ Inferred(v).scope = "none"
  <2>1. \A n \in 1..18 : RiskRules[n].trait \in v.traits \cup {"any"} => 9 <= n
    BY <1>3, RulesTable
  <2>2. RiskRules[9].trait \in v.traits
    BY <1>3, RulesTable DEF Rule
  <2>3. Inferred(v) = RiskRules[9]
    BY <2>1, <2>2, LeastRule
  <2> QED
    BY <2>3, RulesTable DEF Rule
<1>5. Higher("low", Inferred(v).risk) = "low"
  BY <1>4, HigherOf
<1>6. Assess("command", v, "low", "none", FALSE)
        = [risk |-> "low", scope |-> "none", approval |-> FALSE]
  BY <1>1, <1>4, <1>5 DEF Assess
<1>7. /\ st.action.kind = "command" /\ st.action.cmd = v /\ st.action.risk = "low"
      /\ st.action.scope = "none" /\ st.action.approval = FALSE
  BY <1>1, <1>4, <1>5
  DEF Command, Planned, AssessedStep, Declared, Assessed, Assess, Action
<1> HIDE DEF st
<1>8. Asks(st)
  BY <1>3, <1>7 DEF Asks
<1>9. "quoted" \notin v.traits => StepValid(st)
  <2>1. Assess("command", st.action.cmd, st.action.risk, st.action.scope, st.action.approval)
          = [risk |-> "low", scope |-> "none", approval |-> FALSE]
    BY <1>6, <1>7
  <2> QED
    BY <1>1, <1>3, <1>7, <2>1 DEF StepValid, AssessmentValid, Registered
<1> QED
  BY <1>2, <1>3, <1>8, <1>9 DEF Lawful, st

LEMMA InstallStep ==
  ASSUME NEW s, NEW t, NEW a
  PROVE  Lawful(AssessedStep(InstallTool(s, t)), s, a)
BY HighStep, InstructionStep, PlannedCommands DEF InstallTool

LEMMA ClusterSteps ==
  ASSUME NEW s, NEW a,
         NEW c \in ClusterActions(s) \cup OrchestratorActions(s) \cup CredentialActions(s)
  PROVE  Lawful(AssessedStep(c), s, a)
<1>1. \/ \E class : c = Command(class, KindCreate, "high", "kubernetes_cluster")
      \/ \E class : c = Command(class, AbctlInstall, "high", "kubernetes_cluster")
      \/ \E class, scope : c = Instruction(class, "high", scope)
  BY DEF ClusterActions, OrchestratorActions, CredentialActions
<1> QED
  BY <1>1, HighStep, InstructionStep, PlannedCommands

LEMMA AirbyteSteps ==
  ASSUME NEW s, NEW a, NEW c \in AirbyteActions
  PROVE  Lawful(AssessedStep(c), s, a)
BY HighStep, PlannedCommands DEF AirbyteActions

(* Every step of every plan.                                                *)
LEMMA LawfulPlan ==
  ASSUME NEW s, NEW have, NEW a, NEW c \in BuildAgentPlan(s, have, a).steps
  PROVE  Lawful(c, s, a)
<1>1. PICK d \in DeclaredSteps(s, have, a) : c = AssessedStep(d)
  BY DEF BuildAgentPlan
<1>2. \/ d = Unsupported
      \/ \E t : d = InstallTool(s, t)
      \/ d \in AirbyteActions
      \/ d \in ClusterActions(s) \cup OrchestratorActions(s) \cup CredentialActions(s)
      \/ d \in ObserveActions(s, a)
  BY <1>1 DEF DeclaredSteps, Steps
<1> QED
  BY <1>1, <1>2, UnsupportedStep, InstallStep, AirbyteSteps, ClusterSteps, ObserveStep
-----------------------------------------------------------------------------
(* docs/AGENT_IN_THE_LOOP.md: whatever the repository, the host and the     *)
(* attestation show, a plan offers no command without approval but the      *)
(* observation of a URL (agent-plan.ts:658-845).                            *)
THEOREM PlansAskFirstCorrect == Spec => []PlansAskFirst
<1>1. Init => PlansAskFirst
  BY DEF Init, PlansAskFirst, NoPlan
<1>2. ASSUME PlansAskFirst, [Next]_vars
      PROVE  PlansAskFirst'
  <2>1. CASE PlanAgent
    <3>1. plan' = plan \/ plan' = BuildAgentPlan(sight, tools, attestation)
      BY <2>1 DEF PlanAgent
    <3>2. \A c \in BuildAgentPlan(sight, tools, attestation).steps : Asks(c)
      BY LawfulPlan DEF Lawful
    <3>3. CASE plan' = plan
      BY <1>2, <3>3 DEF PlansAskFirst
    <3>4. CASE plan' = BuildAgentPlan(sight, tools, attestation)
      <4>1. \A c \in plan'.steps : Asks(c)
        BY <3>2, <3>4
      <4> QED
        BY <4>1 DEF PlansAskFirst, Asks
    <3> QED
      BY <3>1, <3>3, <3>4
  <2>2. CASE plan' = plan
    BY <1>2, <2>2 DEF PlansAskFirst
  <2> QED
    BY <1>2, <2>1, <2>2
    DEF Next, UpExternalHealth, Up, EditAttestation, BreakRun, InstallATool, vars
<1> QED
  BY <1>1, <1>2, PTL DEF Spec

(* plan-agent throws only over a URL that it saw and must quote, because    *)
(* every other step of a plan passes the validator                          *)
(* (agent-plan.ts:815-831, 423-438).                                        *)
THEOREM FailsOnlyOverQuotesCorrect == Spec => FailsOnlyOverQuotes
<1>1. ASSUME [Next]_vars, commands' # commands, report' = "threw"
      PROVE  \E u \in Urls(sight, attestation) : u \in Quoted
  <2>1. PlanAgent
    BY <1>1
    DEF Next, UpExternalHealth, Up, EditAttestation, BreakRun, InstallATool, vars
  <2>2. ~AgentPlanValid(BuildAgentPlan(sight, tools, attestation))
    BY <1>1, <2>1 DEF PlanAgent
  <2>3. PICK c \in BuildAgentPlan(sight, tools, attestation).steps : ~StepValid(c)
    BY <2>2 DEF AgentPlanValid
  <2>4. Lawful(c, sight, attestation)
    BY LawfulPlan
  <2> QED
    BY <2>3, <2>4 DEF Lawful
<1> QED
  BY <1>1, PTL DEF Spec, FailsOnlyOverQuotes
-----------------------------------------------------------------------------
(* A plan depends on an attestation only as far as it verifies.             *)
LEMMA UntrustedPlan ==
  ASSUME NEW s, NEW have, NEW a, a.state # "intact"
  PROVE  BuildAgentPlan(s, have, a) = BuildAgentPlan(s, have, NoAttestation)
<1>1. Trusted(a) = NoAttestation /\ Trusted(NoAttestation) = NoAttestation
  BY DEF Trusted, NoAttestation
<1>2. NoAttestation.mode = "none"
  BY DEF NoAttestation
<1>3. PriorClass(a) = PriorClass(NoAttestation)
  BY <1>1 DEF PriorClass
<1>4. UrlsSeen(s, a) = UrlsSeen(s, NoAttestation)
  BY <1>1, <1>2 DEF UrlsSeen
<1>5. Urls(s, a) = Urls(s, NoAttestation)
  BY <1>4 DEF Urls
<1>6. /\ Direct(s, a) = Direct(s, NoAttestation)
      /\ External(s, a) = External(s, NoAttestation)
  BY <1>3, <1>5 DEF Direct, External
<1>7. ObserveActions(s, a) = ObserveActions(s, NoAttestation)
  BY <1>5, <1>6 DEF ObserveActions
<1>8. Steps(s, have, a) = Steps(s, have, NoAttestation)
  BY <1>7 DEF Steps
<1>9. DeclaredSteps(s, have, a) = DeclaredSteps(s, have, NoAttestation)
  BY <1>6, <1>8 DEF DeclaredSteps
<1>10. CurrentClass(s, have, a) = CurrentClass(s, have, NoAttestation)
  BY <1>3, <1>6 DEF CurrentClass
<1> QED
  BY <1>6, <1>9, <1>10 DEF BuildAgentPlan

(* An attestation whose signature does not verify moves no plan: the plan   *)
(* is that of a repository without one (agent-plan.ts:325-353).             *)
THEOREM EditedIsIgnoredCorrect == Spec => EditedIsIgnored
<1>1. ASSUME [Next]_vars, attestation.state = "edited", plan' # plan
      PROVE  plan' = BuildAgentPlan(sight, tools, NoAttestation)
  <2>1. PlanAgent
    BY <1>1
    DEF Next, UpExternalHealth, Up, EditAttestation, BreakRun, InstallATool, vars
  <2>2. plan' = BuildAgentPlan(sight, tools, attestation)
    BY <1>1, <2>1 DEF PlanAgent
  <2> QED
    BY <1>1, <2>2, UntrustedPlan
<1> QED
  BY <1>1, PTL DEF Spec, EditedIsIgnored
-----------------------------------------------------------------------------
(* docs/HONESTY_CONTRACT.md: a service that BootProof did not start is      *)
(* never a boot, and verified is the answer of the last observation         *)
(* (external-health.ts:130-174, 181-257).                                   *)
THEOREM ExternalIsNotABootCorrect == Spec => []ExternalIsNotABoot
<1>1. Init => ExternalIsNotABoot
  BY DEF Init, ExternalIsNotABoot, NoRun
<1>2. ASSUME ExternalIsNotABoot, [Next]_vars
      PROVE  ExternalIsNotABoot'
  <2>1. CASE PlanAgent
    <3>1. /\ observed' = observed
          /\ run' = run \/ \E p : run' = Run(PlanningStatus(p), FALSE)
      BY <2>1 DEF PlanAgent
    <3>2. CASE run' = run
      BY <1>2, <3>1, <3>2 DEF ExternalIsNotABoot
    <3>3. ASSUME NEW p, run' = Run(PlanningStatus(p), FALSE)
          PROVE  ExternalIsNotABoot'
      <4>1. PlanningStatus(p) # "verified_external_health"
        BY DEF PlanningStatus
      <4> QED
        BY <3>3, <4>1 DEF ExternalIsNotABoot, Run
    <3> QED
      BY <3>1, <3>2, <3>3
  <2>2. ASSUME NEW u \in GivenUrls, NEW answer \in Answers, UpExternalHealth(u, answer)
        PROVE  ExternalIsNotABoot'
    <3> DEFINE e == ExternalAttestation(u, Classify(answer))
    <3>1. /\ observed' = answer
          /\ run' = IF run = NoRun \/ ~run.intact THEN run ELSE Verification(e)
      BY <2>2 DEF UpExternalHealth
    <3>2. e.mode = "external" /\ (e.healthy => answer \in {"success", "redirect"})
      BY DEF ExternalAttestation, Classify, Answers
    <3>3. /\ ~Verification(e).orchestrated
          /\ Verification(e).status = "verified_external_health" => e.healthy
      BY <3>2 DEF Verification, Run
    <3> HIDE DEF e
    <3>4. CASE run = NoRun
      <4>1. run' = NoRun
        BY <3>1, <3>4
      <4> QED
        BY <4>1 DEF ExternalIsNotABoot, NoRun
    <3>5. CASE run # NoRun /\ ~run.intact
      BY <1>2, <3>1, <3>5 DEF ExternalIsNotABoot
    <3>6. CASE run # NoRun /\ run.intact
      BY <3>1, <3>2, <3>3, <3>6 DEF ExternalIsNotABoot
    <3> QED
      BY <3>4, <3>5, <3>6
  <2>3. CASE BreakRun
    BY <1>2, <2>3 DEF BreakRun, ExternalIsNotABoot
  <2>4. CASE UNCHANGED <<run, observed>>
    BY <1>2, <2>4 DEF ExternalIsNotABoot
  <2> QED
    BY <1>2, <2>1, <2>2, <2>3, <2>4
    DEF Next, Up, EditAttestation, InstallATool, vars
<1> QED
  BY <1>1, <1>2, PTL DEF Spec
=============================================================================
