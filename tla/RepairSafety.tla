---------------------------- MODULE RepairSafety -----------------------------
(***************************************************************************)
(* repair-safety.ts: what a command may do, how risky an action is, and     *)
(* which actions and receipts are valid.  A command is the set of the       *)
(* patterns it matches, one trait for each pattern of the code; a path is   *)
(* the kind of file it names.                                               *)
(***************************************************************************)
EXTENDS Naturals, Sequences, FiniteSets

RiskLevels == <<"none", "low", "medium", "high", "blocked">>
Weight(r) == CHOOSE n \in DOMAIN RiskLevels : RiskLevels[n] = r
Higher(r, s) == IF Weight(r) >= Weight(s) THEN r ELSE s

MutationScopes ==
  {"none", "repo_only", "project_cache", "container_runtime",
   "host_tool_install", "host_network", "kubernetes_cluster", "database",
   "service", "credentials", "unknown"}
ActionKinds == {"command", "patch", "instruction"}
-----------------------------------------------------------------------------
(* Commands.                                                                *)
Cmd(name, traits) == [name |-> name, traits |-> traits]

(* The classes of commands in the order in which they are tried.            *)
Rule(t, r, s) == [trait |-> t, risk |-> r, scope |-> s]
RiskRules ==
  <<Rule("forced_push",       "high",   "host_network"),
    Rule("sensitive_rsync",   "high",   "host_network"),
    Rule("sensitive_archive", "high",   "credentials"),
    Rule("tool_install",      "high",   "host_tool_install"),
    Rule("docker_prune",      "high",   "container_runtime"),
    Rule("cluster_create",    "high",   "kubernetes_cluster"),
    Rule("migration",         "high",   "database"),
    Rule("key_material",      "high",   "credentials"),
    Rule("verify_url",        "low",    "none"),
    Rule("reads_status",      "low",    "none"),
    Rule("brew_services",     "medium", "service"),
    Rule("bundle_config",     "medium", "project_cache"),
    Rule("corepack_prepare",  "medium", "project_cache"),
    Rule("createuser",        "medium", "database"),
    Rule("container_tool",    "medium", "container_runtime"),
    Rule("cluster_tool",      "medium", "kubernetes_cluster"),
    Rule("network_tool",      "medium", "host_network"),
    Rule("any",               "medium", "unknown")>>

Inferred(c) ==
  LET hits == {n \in DOMAIN RiskRules :
                 RiskRules[n].trait \in c.traits \cup {"any"}}
  IN RiskRules[CHOOSE n \in hits : \A m \in hits : n <= m]

(* What no repair command may be or do.                                     *)
ForbiddenTraits ==
  {"misleading_display", "shell_control", "shell", "sudo", "raw_disk_write",
   "inline_code", "rm_rf", "pipe_to_shell", "world_writable", "chown_recursive",
   "mkfs", "disk_erase", "drops_database", "prints_environment",
   "protected_env_path", "writes_blocked_path", "exposes_secret"}

CommandValid(c) ==
  /\ c.traits \cap ForbiddenTraits = {}
  /\ "secret_path" \in c.traits =>
       c.traits \cap {"sensitive_archive", "sensitive_rsync"} # {}
  /\ "secret_upload" \in c.traits =>
       "sensitive_rsync" \in c.traits /\ "remote" \notin c.traits
-----------------------------------------------------------------------------
(* Paths.                                                                   *)
BlockedPaths == {"env", "git_dir", "signer_key", "secret", "outside"}
RepairPaths ==
  {"package_json_pins", "database_yml", "gitlab_yml", "lockfile",
   "bootproof_file", "env_example"}
OtherPaths == {"package_json", "sqlite_file", "source_file"}
Paths == BlockedPaths \cup RepairPaths \cup OtherPaths

PatchValid(files) == files # {} /\ files \cap BlockedPaths = {}

(* assertRepairScope: the files a deterministic repair may write.           *)
InRepairScope(files) == files \subseteq RepairPaths
-----------------------------------------------------------------------------
(* Actions.  The prompt, the explanations and the evidence are left out.    *)
NoCommand == Cmd("none", {})
NoAction ==
  [kind |-> "none", cmd |-> NoCommand, files |-> {}, risk |-> "none",
   scope |-> "none", approval |-> FALSE, source |-> "none"]

Assess(kind, c, risk, scope, ask) ==
  LET allowed == kind = "command" => CommandValid(c)
      level == CASE ~allowed -> "blocked"
                 [] allowed /\ kind = "command" -> Higher(risk, Inferred(c).risk)
                 [] kind = "patch" -> Higher(risk, "low")
                 [] OTHER -> risk
      known == allowed /\ Inferred(c).scope # "unknown"
      reach == CASE kind = "patch" -> "repo_only"
                 [] kind = "command" /\ known -> Inferred(c).scope
                 [] kind = "command" /\ ~known /\ scope = "none" -> "unknown"
                 [] OTHER -> scope
  IN [risk |-> level, scope |-> reach,
      approval |-> level # "blocked" /\
                   (ask \/ kind = "patch" \/ level \in {"medium", "high"})]

AssessmentValid(a) ==
  /\ a.risk = "blocked" => ~a.approval
  /\ a.risk \in {"medium", "high"} => a.approval

Action(kind, c, files, assessment, source) ==
  [kind |-> kind, cmd |-> c, files |-> files, risk |-> assessment.risk,
   scope |-> assessment.scope, approval |-> assessment.approval,
   source |-> source]

ActionValid(a) ==
  /\ a.risk # "blocked"
  /\ a.risk \in {"medium", "high"} => a.approval
  /\ a.kind = "command" =>
       LET least == Assess("command", a.cmd, "none", a.scope, FALSE) IN
       /\ CommandValid(a.cmd)
       /\ a.scope = "none" => a.risk \in {"none", "low"}
       /\ Weight(a.risk) >= Weight(least.risk)
       /\ least.scope # "unknown" => a.scope = least.scope
  /\ a.kind = "patch" =>
       PatchValid(a.files) /\ a.scope = "repo_only" /\ a.approval

(* buildRepairAction and buildAiSuggestedRepairAction turn a declared action *)
(* into an assessed one; both throw when the result is not ActionValid.     *)
Declared(kind, c, files, risk, scope, ask) ==
  [kind |-> kind, cmd |-> c, files |-> files, risk |-> risk, scope |-> scope,
   approval |-> ask, source |-> "declared"]
Assessed(a) == Assess(a.kind, a.cmd, a.risk, a.scope, a.approval)
Deterministic(a) == Action(a.kind, a.cmd, a.files, Assessed(a), "playbook")
AiSuggested(a) ==
  [Action(a.kind, a.cmd, a.files, Assessed(a), "ai") EXCEPT !.approval = TRUE]
-----------------------------------------------------------------------------
(* validateRepairReceiptBase, as far as its fields can disagree; it also    *)
(* wants the action to be valid.                                            *)
ReceiptStatuses == {"not_applied", "applied", "failed"}
ReceiptConsistent(r) ==
  /\ r.status \in ReceiptStatuses
  /\ r.appliedAt <=> r.status = "applied"
  /\ r.verified => r.progressed
=============================================================================
