------------------------------ MODULE AgentPlan ------------------------------
(***************************************************************************)
(* agent-plan.ts: the plan for an agent that `plan-agent` derives from what *)
(* it sees in a repository, the tools on PATH and the last attestation, and *)
(* the validator it must pass.  A sight of a repository keeps               *)
(*   marks, dirs   what speaks for Airbyte, and how many of its directories *)
(*   traits        tools and needs that file names and texts show           *)
(*   commands      the documented runbook commands                          *)
(*   urls          the documented local URLs                                *)
(*   runnable      inference found one complete way to start an application *)
(***************************************************************************)
EXTENDS RepairSafety

(* URLs in the order in which a plan prefers them.  A starred one holds a   *)
(* character that is plain in a URL and quoted in a command.                *)
UrlOrder == <<"health", "page", "starred">>
Quoted == {"starred"}

Airbyte(s) ==
  \/ "remote" \in s.marks
  \/ {"settings", "readme"} \subseteq s.marks /\ s.dirs >= 2
  \/ {"readme", "docs"} \subseteq s.marks /\ s.dirs >= 3

Orchestrators == {"abctl", "kind", "helm", "kubernetes"}
Traits(s) ==
  s.traits
    \cup (IF "gradle" \in s.traits THEN {"java"} ELSE {})
    \cup (IF Airbyte(s) THEN Orchestrators \cup {"java", "credentials"} ELSE {})

RelevantTools(s) ==
  (Traits(s) \cap {"java", "abctl", "kind", "helm", "kubectl"})
    \cup (IF Airbyte(s) THEN {"docker"} ELSE {})
    \cup (IF "gradle" \in s.traits /\ "gradlew" \notin s.traits
            THEN {"gradle"} ELSE {})

Heavy(s) == Traits(s) \cap Orchestrators # {}
-----------------------------------------------------------------------------
(* loadPriorAttestation: one whose signature does not verify is ignored.    *)
NoAttestation ==
  [state |-> "none", mode |-> "none", class |-> "none", healthy |-> FALSE,
   url |-> "none"]
Trusted(a) == IF a.state = "intact" THEN a ELSE NoAttestation

(* Faulty variant: the prior attestation is believed as it lies there.      *)
PriorClassUnverified(a) == a.class
PriorClass(a) == Trusted(a).class

UrlsSeen(s, a) ==
  s.urls \cup (IF Airbyte(s) THEN {"health"} ELSE {})
         \cup (IF Trusted(a).mode = "external" THEN {a.url} ELSE {})
Urls(s, a) == UrlsSeen(s, a) \cap {UrlOrder[n] : n \in DOMAIN UrlOrder}
PreferredUrl(us) ==
  UrlOrder[CHOOSE n \in DOMAIN UrlOrder :
             UrlOrder[n] \in us /\ \A m \in 1..(n - 1) : UrlOrder[m] \notin us]

Direct(s, a) ==
  s.runnable /\ ~Heavy(s) /\ PriorClass(a) # "orchestration_not_supported"
External(s, a) == ~Direct(s, a) /\ Urls(s, a) # {}
-----------------------------------------------------------------------------
(* Candidate actions.                                                       *)
BrewInstall == Cmd("brew_install", {"tool_install"})
KindCreate == Cmd("kind_create_cluster", {"cluster_create", "cluster_tool"})
AbctlInstall == Cmd("abctl_local_install", {"cluster_create", "cluster_tool"})
AbctlCredentials == Cmd("abctl_local_credentials", {"key_material", "cluster_tool"})
VerifyUrl(u) ==
  Cmd("bootproof_verify_url",
      {"verify_url"} \cup (IF u \in Quoted THEN {"quoted"} ELSE {}))

(* Faulty variant: a step that reads credentials is not marked.             *)
PlannedUnmarked(class, kind, c, risk, scope) ==
  [class |-> class, secret |-> FALSE,
   action |-> Declared(kind, c, {}, risk, scope, FALSE)]

Planned(class, kind, c, risk, scope) ==
  [class |-> class, secret |-> scope = "credentials",
   action |-> Declared(kind, c, {}, risk, scope, FALSE)]
Instruction(class, risk, scope) == Planned(class, "instruction", NoCommand, risk, scope)
Command(class, c, risk, scope) == Planned(class, "command", c, risk, scope)

InstallTool(s, t) ==
  IF Airbyte(s) /\ t \in {"java", "kind", "helm"}
    THEN Command("host_tool_install_required", BrewInstall, "high", "host_tool_install")
    ELSE Instruction("host_tool_install_required", "medium",
                     IF t = "docker" THEN "container_runtime" ELSE "host_tool_install")

ClusterActions(s) ==
  LET class == "kubernetes_cluster_creation_required"
      scope == "kubernetes_cluster" IN
  (IF "kind_create" \in s.commands
     THEN {Command(class, KindCreate, "high", scope)} ELSE {})
  \cup (IF "kubernetes" \in Traits(s) /\ "abctl" \notin Traits(s)
            /\ "kind_create" \notin s.commands
     THEN {Instruction(class, "high", scope)} ELSE {})

OrchestratorActions(s) ==
  LET class == "heavy_orchestration_required"
      scope == "kubernetes_cluster" IN
  (IF "abctl_install" \in s.commands
     THEN {Command(class, AbctlInstall, "high", scope)} ELSE {})
  \cup (IF Heavy(s) /\ s.commands = {}
     THEN {Instruction(class, "high", scope)} ELSE {})

AirbyteActions ==
  {Command("external_orchestrator_required", AbctlInstall, "high", "kubernetes_cluster"),
   Command("auth_required", AbctlCredentials, "high", "credentials")}

(* Faulty variant: obtaining credentials is of low risk.                    *)
CredentialActionsAtEase(s) ==
  IF "credentials" \in Traits(s)
    THEN {Instruction("credential_required", "low", "credentials")} ELSE {}

CredentialActions(s) ==
  IF "credentials" \in Traits(s)
    THEN {Instruction("credential_required", "high", "credentials")} ELSE {}

(* It is offered only when the command policy accepts it.                   *)
ObserveActions(s, a) ==
  LET c == VerifyUrl(PreferredUrl(Urls(s, a))) IN
  IF External(s, a) /\ CommandValid(c)
    THEN {Command("external_health_verification_required", c, "low", "none")}
    ELSE {}

Unsupported == Instruction("heavy_orchestration_required", "blocked", "unknown")

MissingTools(s, tools) == RelevantTools(s) \ tools
Steps(s, tools, a) ==
  {InstallTool(s, t) : t \in MissingTools(s, tools)}
    \cup (IF Airbyte(s) THEN AirbyteActions
          ELSE ClusterActions(s) \cup OrchestratorActions(s) \cup CredentialActions(s))
    \cup ObserveActions(s, a)

DeclaredSteps(s, tools, a) ==
  IF Steps(s, tools, a) = {} /\ ~Direct(s, a) THEN {Unsupported}
  ELSE Steps(s, tools, a)

AssessedStep(c) ==
  [c EXCEPT !.action = Action(@.kind, @.cmd, {}, Assessed(@), "plan")]
-----------------------------------------------------------------------------
(* genericFailureClass: the first that applies.                             *)
When(condition, class) == [holds |-> condition, class |-> class]
First(rules) ==
  LET hits == {n \in DOMAIN rules : rules[n].holds} IN
  IF hits = {} THEN "none"
  ELSE rules[CHOOSE n \in hits : \A m \in hits : n <= m].class

CurrentClass(s, tools, a) ==
  First(<<When(PriorClass(a) # "none", PriorClass(a)),
          When(Airbyte(s), "airbyte_abctl_managed"),
          When(MissingTools(s, tools) # {}, "host_tool_install_required"),
          When("kind_create" \in s.commands, "kubernetes_cluster_creation_required"),
          When(Heavy(s), "heavy_orchestration_required"),
          When("credentials" \in Traits(s), "credential_required"),
          When(External(s, a), "external_health_verification_required")>>)

BuildAgentPlan(s, tools, a) ==
  [class |-> CurrentClass(s, tools, a),
   steps |-> {AssessedStep(c) : c \in DeclaredSteps(s, tools, a)},
   direct |-> Direct(s, a), external |-> External(s, a)]

(* validateAgentPlan, as far as a built plan can fail it.  A command is     *)
(* parsed from its display, and one with a quoted argument does not parse.  *)
Registered(c) ==
  c \in {BrewInstall, KindCreate, AbctlInstall, AbctlCredentials}
    \/ "verify_url" \in c.traits
StepValid(c) ==
  LET a == c.action
      again == Assess("command", a.cmd, a.risk, a.scope, a.approval) IN
  /\ AssessmentValid(a)
  /\ a.kind = "command" =>
       /\ Registered(a.cmd) /\ "quoted" \notin a.cmd.traits /\ CommandValid(a.cmd)
       /\ again = [risk |-> a.risk, scope |-> a.scope, approval |-> a.approval]
  /\ a.kind = "instruction" => a.cmd = NoCommand
  /\ a.scope = "credentials" => c.secret
AgentPlanValid(plan) == \A c \in plan.steps : StepValid(c)
=============================================================================
