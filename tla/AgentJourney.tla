----------------------------- MODULE AgentJourney ----------------------------
(***************************************************************************)
(* An agent in the loop: `plan-agent` writes a plan and starts a run from   *)
(* what it sees, a person acts, the service outside comes and goes, and     *)
(* `up --external-health` (external-health.ts) observes it, replaces the    *)
(* attestation that the next plan reads, and appends to the latest run.     *)
(* Between any two commands the tools may change, and so may the            *)
(* attestation and the run that the next command reads.                     *)
(***************************************************************************)
EXTENDS AgentPlan

CONSTANTS
  Sights,       (* the repositories                                         *)
  Tools,        (* the tools a host may have                                *)
  UpResults,    (* what `up` itself may attest: [class, healthy]            *)
  GivenUrls,    (* the URLs a person names                                  *)
  MaxCommands   (* bound: how many commands are run                         *)

ASSUME BoundAssumption == MaxCommands \in Nat

VARIABLES
  sight, tools, (* the repository and the host                              *)
  attestation,  (* .bootproof/attestation.json                              *)
  plan,         (* .bootproof/agent-plan.json                               *)
  run,          (* final-summary.json of the latest agent run               *)
  report,       (* how the last command ended                               *)
  commands,
  observed      (* history: what the last observation met                   *)

world == <<sight, tools>>
vars  == <<world, attestation, plan, run, report, commands, observed>>

Answers == {"success", "redirect", "auth", "error", "silent"}
NoPlan == [class |-> "none", steps |-> {}, direct |-> FALSE, external |-> FALSE]
NoRun == [status |-> "none", orchestrated |-> FALSE, intact |-> TRUE]
Run(status, orchestrated) ==
  [status |-> status, orchestrated |-> orchestrated, intact |-> TRUE]

Init ==
  /\ sight \in Sights /\ tools \in SUBSET Tools
  /\ attestation = NoAttestation /\ plan = NoPlan /\ run = NoRun
  /\ report = "none" /\ commands = 0 /\ observed = "none"

Spent == commands < MaxCommands /\ commands' = commands + 1
-----------------------------------------------------------------------------
(* planningStatus and the writes of `plan-agent`; an invalid plan throws    *)
(* before anything is written.                                              *)
PlanningStatus(p) ==
  IF \E c \in p.steps : c.action.risk = "blocked" THEN "stopped_blocked"
  ELSE IF \E c \in p.steps : c.action.approval THEN "stopped_for_approval"
  ELSE "planned"

PlanAgent ==
  /\ Spent
  /\ LET p == BuildAgentPlan(sight, tools, attestation) IN
       IF AgentPlanValid(p)
         THEN /\ plan' = p /\ report' = "planned"
              /\ run' = Run(PlanningStatus(p), FALSE)
         ELSE report' = "threw" /\ UNCHANGED <<plan, run>>
  /\ UNCHANGED <<world, attestation, observed>>

(* observeExternalHealth: one request, redirects are not followed.          *)
(* Faulty variant: any answer will do.                                      *)
ClassifyAnyAnswer(answer) ==
  CASE answer = "silent" -> "external_health_unreachable"
    [] OTHER -> "external_service_verified"

Classify(answer) ==
  CASE answer = "auth" -> "auth_required"
    [] answer \in {"success", "redirect"} -> "external_service_verified"
    [] OTHER -> "external_health_unreachable"

(* Faulty variant: a service that answers counts as booted.                 *)
ExternalAttestationBooted(url, class) ==
  [state |-> "intact", mode |-> "bootproof", url |-> url,
   healthy |-> class = "external_service_verified",
   class |-> IF class = "external_service_verified" THEN "none" ELSE class]

ExternalAttestation(url, class) ==
  [state |-> "intact", mode |-> "external", url |-> url,
   healthy |-> class = "external_service_verified",
   class |-> IF class = "external_service_verified" THEN "none" ELSE class]

(* appendAgentVerification, which AgentRun has step by step.                *)
Verification(a) ==
  Run(CASE ~a.healthy -> "verification_failed"
        [] a.healthy /\ a.mode = "external" -> "verified_external_health"
        [] OTHER -> "verified_bootproof_orchestrated",
      a.healthy /\ a.mode # "external")

(* The attestation is written before the run is read; over a broken chain   *)
(* the append throws.                                                       *)
UpExternalHealth(url, answer) ==
  /\ Spent
  /\ LET a == ExternalAttestation(url, Classify(answer)) IN
       /\ attestation' = a /\ observed' = answer
       /\ run' = IF run = NoRun \/ ~run.intact THEN run ELSE Verification(a)
       /\ report' = CASE ~run.intact -> "append_threw"
                      [] run.intact /\ a.healthy -> "verified"
                      [] OTHER -> "unverified"
  /\ UNCHANGED <<world, plan>>

(* `up` of BootProof itself: its attestation replaces the one of before,    *)
(* and no agent run hears of it.                                            *)
Up(r) ==
  /\ Spent
  /\ attestation' = [state |-> "intact", mode |-> "bootproof", class |-> r.class,
                     healthy |-> r.healthy, url |-> "none"]
  /\ report' = IF r.healthy THEN "verified" ELSE "unverified"
  /\ UNCHANGED <<world, plan, run, observed>>

(* Somebody edits the attestation: its signature verifies no longer.        *)
EditAttestation ==
  /\ attestation.state = "intact"
  /\ attestation' = [attestation EXCEPT !.state = "edited",
                                        !.class = "orchestration_not_supported"]
  /\ UNCHANGED <<world, plan, run, report, commands, observed>>

(* Or a receipt of the run, or a crash cuts an append short.                *)
BreakRun ==
  /\ run # NoRun /\ run.intact
  /\ run' = [run EXCEPT !.intact = FALSE]
  /\ UNCHANGED <<world, attestation, plan, report, commands, observed>>

InstallATool ==
  /\ commands < MaxCommands
  /\ \E t \in Tools \ tools : tools' = tools \cup {t}
  /\ UNCHANGED <<sight, attestation, plan, run, report, commands, observed>>

Next ==
  \/ PlanAgent
  \/ \E u \in GivenUrls, answer \in Answers : UpExternalHealth(u, answer)
  \/ \E r \in UpResults : Up(r)
  \/ EditAttestation \/ BreakRun
  \/ InstallATool

Spec == Init /\ [][Next]_vars
-----------------------------------------------------------------------------
(* docs/AGENT_IN_THE_LOOP.md: whatever the repository shows, the only       *)
(* command a plan offers without approval is the observation of a URL;      *)
(* clusters, installs and credentials ask first, and credentials are marked *)
(* (agent-plan.ts:658-845).                                                 *)
PlansAskFirst ==
  \A c \in plan.steps :
    /\ c.action.kind = "command" /\ ~c.action.approval =>
         c.action.scope = "none" /\ "verify_url" \in c.action.cmd.traits
    /\ c.action.scope \in {"credentials", "kubernetes_cluster", "host_tool_install"}
         => c.action.approval
    /\ "key_material" \in c.action.cmd.traits => c.secret

(* plan-agent fails only over a URL whose characters a command must quote:  *)
(* createRepairCommand quotes it, the validator parses the quotes as text   *)
(* (agent-plan.ts:815-831, 423-438).                                        *)
FailsOnlyOverQuotes ==
  [][commands' # commands /\ report' = "threw"
       => \E u \in Urls(sight, attestation) : u \in Quoted]_vars

(* An attestation that does not verify moves no plan: a plan written over   *)
(* one is the plan of a repository without any (agent-plan.ts:325-353).     *)
EditedIsIgnored ==
  [][attestation.state = "edited" /\ plan' # plan
       => plan' = BuildAgentPlan(sight, tools, NoAttestation)]_vars

(* docs/HONESTY_CONTRACT.md: a service that BootProof did not start is      *)
(* never a boot, and a run says verified only of an answer 2xx or 3xx, by   *)
(* the observation that was made last (external-health.ts:130-174, 181-257).*)
ExternalIsNotABoot ==
  /\ run.intact /\ run.status = "verified_external_health"
       => observed \in {"success", "redirect"}
  /\ ~run.orchestrated
=============================================================================
