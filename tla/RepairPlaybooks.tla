--------------------------- MODULE RepairPlaybooks ---------------------------
(***************************************************************************)
(* repair-playbooks.ts and the registry of repair.ts: which repair answers  *)
(* a failure.  A situation is the class of the recorded failure and the     *)
(* facts that its evidence, the repository and the host show when they are  *)
(* looked at:                                                               *)
(*   classified  the evidence still classifies as the recorded class        *)
(*   subject     it names the one thing the repair is for (a Ruby version,  *)
(*               cmake, idn-ruby, config/gitlab.yml, a role, the sections,  *)
(*               the SQLite file, RAILS_ENV alone, a PostgreSQL version)    *)
(*   brew, package, prefix_safe   Homebrew, the package to start, a prefix  *)
(*               that identifies no machine                                 *)
(*   example, missing, clean      a file to copy, no file at the            *)
(*               destination, no secret in what would be written            *)
(*   remote_host, project         a database elsewhere; the project's own   *)
(*               markers (artisan, the directory; the sections to remove)   *)
(***************************************************************************)
EXTENDS RepairSafety

Situation(class, facts) == [class |-> class, facts |-> facts]
Shows(s, fs) == fs \subseteq s.facts

NoCandidate == [id |-> "none", action |-> NoAction, follow |-> {}]
Candidate(id, action, follow) ==
  [id |-> id, action |-> action, follow |-> follow]

BrewInstall(what)  == Cmd("brew_install_" \o what, {"tool_install"})
BrewServices(what) == Cmd("brew_services_" \o what, {"brew_services"})
RbenvInstall       == Cmd("rbenv_install", {"tool_install"})
BundleConfig       == Cmd("bundle_config", {"bundle_config"})
CreateUser         == Cmd("createuser", {"createuser"})
ArtisanMigrate     == Cmd("artisan_migrate", {"migration"})
RailsMigrate       == Cmd("rails_db_migrate", {"migration"})
CorepackPrepare    == Cmd("corepack_prepare", {"corepack_prepare"})

(* What a playbook declares; RepairFix has it assessed.                     *)
Run(c, risk, scope) == Declared("command", c, {}, risk, scope, TRUE)
Patch(file) ==
  Declared("patch", NoCommand, {file}, "medium", "repo_only", TRUE)
Instruct == Declared("instruction", NoCommand, {}, "low", "none", FALSE)
InstructSetup ==
  Declared("instruction", NoCommand, {}, "medium", "host_tool_install", TRUE)
-----------------------------------------------------------------------------
SentryClasses ==
  {"repo_requires_devenv", "missing_devenv_tool", "missing_direnv_tool",
   "sentry_virtualenv_not_activated"}

Ruby(s) ==
  IF ~Shows(s, {"subject"}) THEN NoCandidate
  ELSE Candidate("install-required-ruby-with-rbenv",
                 Run(RbenvInstall, "medium", "host_tool_install"), {})

BuildTool(s) ==
  IF ~Shows(s, {"subject"}) THEN NoCandidate
  ELSE Candidate("install-cmake-with-homebrew",
                 Run(BrewInstall("cmake"), "medium", "host_tool_install"), {})

NativeExtension(s) ==
  LET configure == Run(BundleConfig, "medium", "project_cache") IN
  CASE ~Shows(s, {"subject"}) -> NoCandidate
    [] Shows(s, {"subject"}) /\ ~Shows(s, {"brew"}) ->
         Candidate("install-idn-ruby-native-dependencies-instruction", Instruct, {})
    [] Shows(s, {"subject", "brew", "package"}) ->
         IF Shows(s, {"prefix_safe"})
           THEN Candidate("configure-idn-ruby-for-homebrew-libidn", configure, {})
           ELSE Candidate("configure-idn-ruby-instruction", Instruct, {})
    [] OTHER ->
         Candidate("install-idn-ruby-native-dependencies",
                   Run(BrewInstall("libidn"), "medium", "host_tool_install"),
                   IF Shows(s, {"prefix_safe"}) THEN {configure} ELSE {})

(* Faulty variant: the path of the example is the one that is written.      *)
CopyConfigOverExample(s, id, destination) ==
  IF Shows(s, {"example", "missing", "clean"})
    THEN Candidate(id, Patch("source_file"), {})
    ELSE NoCandidate

(* copyConfigCandidate.                                                     *)
CopyConfig(s, id, destination) ==
  IF Shows(s, {"example", "missing", "clean"})
    THEN Candidate(id, Patch(destination), {})
    ELSE NoCandidate

GitlabConfig(s) ==
  IF Shows(s, {"subject"})
    THEN CopyConfig(s, "copy-gitlab-config-example", "gitlab_yml")
    ELSE NoCandidate

SqliteFile(s) ==
  IF Shows(s, {"subject", "project", "missing", "clean"})
    THEN Candidate("create-laravel-sqlite-database", Patch("sqlite_file"),
                   {Run(ArtisanMigrate, "high", "database")})
    ELSE NoCandidate

Postgres(s) ==
  CASE Shows(s, {"remote_host"}) -> NoCandidate
    [] ~Shows(s, {"remote_host"}) /\ Shows(s, {"brew", "package"}) ->
         Candidate("start-postgres-with-homebrew",
                   Run(BrewServices("postgres"), "medium", "service"), {Instruct})
    [] OTHER -> Candidate("start-postgres-instruction", Instruct, {})

PostgresRole(s) ==
  IF Shows(s, {"subject"})
    THEN Candidate("create-required-postgres-role",
                   Run(CreateUser, "medium", "database"), {})
    ELSE NoCandidate

PostgresVersion(s) ==
  LET start == Run(BrewServices("postgres"), "high", "service") IN
  CASE ~Shows(s, {"subject", "brew"}) ->
         Candidate("install-supported-postgres-instruction", Instruct, {})
    [] Shows(s, {"subject", "brew", "package"}) ->
         Candidate("start-required-postgres-version", start, {Instruct})
    [] OTHER ->
         Candidate("install-required-postgres-version",
                   Run(BrewInstall("postgres"), "high", "host_tool_install"), {start})

DatabaseSections(s) ==
  IF Shows(s, {"subject", "project", "clean"})
    THEN Candidate("remove-unsupported-database-sections", Patch("database_yml"), {})
    ELSE NoCandidate

Redis(s) ==
  IF Shows(s, {"brew"})
    THEN Candidate("start-redis-with-homebrew",
                   Run(BrewServices("redis"), "medium", "service"), {})
    ELSE Candidate("start-redis-instruction", Instruct, {})

MissingEnv(s) ==
  IF Shows(s, {"subject"})
    THEN Candidate("rerun-with-rails-development", Instruct, {})
    ELSE NoCandidate

(* deterministicRepairCandidateFor, for a recorded failure.                 *)
PlaybookFor(s) ==
  IF ~Shows(s, {"classified"}) THEN NoCandidate
  ELSE CASE s.class \in SentryClasses ->
              Candidate("prepare-sentry-devenv-instruction", InstructSetup, {})
         [] s.class = "missing_ruby_version" -> Ruby(s)
         [] s.class = "missing_build_tool" -> BuildTool(s)
         [] s.class = "native_extension_compile_failed" -> NativeExtension(s)
         [] s.class = "missing_database_config" ->
              CopyConfig(s, "copy-database-config-example", "database_yml")
         [] s.class = "missing_required_config" -> GitlabConfig(s)
         [] s.class = "laravel_sqlite_database_missing" -> SqliteFile(s)
         [] s.class = "laravel_migrations_required" ->
              Candidate("run-laravel-database-migrations",
                        Run(ArtisanMigrate, "high", "database"), {})
         [] s.class = "postgres_unavailable" -> Postgres(s)
         [] s.class = "postgres_role_missing" -> PostgresRole(s)
         [] s.class = "database_schema_missing" ->
              Candidate("run-rails-database-migrations",
                        Run(RailsMigrate, "high", "database"), {})
         [] s.class = "unsupported_database_version" -> PostgresVersion(s)
         [] s.class = "unsupported_database_config" -> DatabaseSections(s)
         [] s.class = "redis_unavailable" -> Redis(s)
         [] s.class = "missing_env_var" -> MissingEnv(s)
         [] OTHER -> NoCandidate

(* Each of its actions goes through buildRepairAction.                      *)
BuiltCandidate(c) ==
  IF c = NoCandidate THEN c
  ELSE [c EXCEPT !.action = Deterministic(@),
                 !.follow = {Deterministic(a) : a \in @}]
CandidateFor(s) == BuiltCandidate(PlaybookFor(s))
-----------------------------------------------------------------------------
(* The registered remediations run in the sandbox.  Their facts:            *)
(*   port, mapping   the evidence names a port, and a Compose file maps it  *)
(*   literal         the mapping is written without a variable              *)
(*   repo_compose    the Compose file is the repository's own               *)
(*   link            a symbolic link lies on the path that is written       *)
(*   version         the repository declares a package manager version      *)
(*   prepares        corepack exits 0 in time                               *)
(*   prisma, ... drizzle   the files and the declared dependency are there  *)
(*   and the evidence speaks of this framework or of a missing table        *)
RegisteredClasses ==
  {"service_port_allocated", "package_manager_version_mismatch",
   "migrations_missing"}
Frameworks == {"prisma", "django", "rails", "knex", "drizzle"}

(* What applying one comes to: it changes nothing, it fails, it breaks the  *)
(* contract on what may be written, or it changes the sandbox.              *)
Remedy(how, id, files) == [how |-> how, id |-> id, files |-> files]

RemapPort(s) ==
  LET id == "remap-conflicting-service-port" IN
  CASE ~Shows(s, {"port", "mapping"}) -> Remedy("inapplicable", id, {})
    [] Shows(s, {"port", "mapping"}) /\ ~Shows(s, {"literal"}) ->
         IF Shows(s, {"repo_compose"}) THEN Remedy("fails", id, {})
                                       ELSE Remedy("inapplicable", id, {})
    [] Shows(s, {"port", "mapping", "literal", "link"}) -> Remedy("escapes", id, {})
    [] OTHER -> Remedy("applied", id, {"bootproof_file"})

ActivatePackageManager(s) ==
  LET id == "activate-declared-package-manager" IN
  CASE ~Shows(s, {"version"}) -> Remedy("inapplicable", id, {})
    [] Shows(s, {"version"}) /\ ~Shows(s, {"prepares"}) -> Remedy("fails", id, {})
    [] OTHER -> Remedy("applied", id, {})

(* Only one framework can be meant.                                         *)
DeployMigrations(s) ==
  LET id == "apply-framework-migrations" IN
  IF Cardinality(s.facts \cap Frameworks) = 1
    THEN Remedy("applied", id, {}) ELSE Remedy("inapplicable", id, {})

RemedyFor(s) ==
  CASE s.class = "service_port_allocated" -> RemapPort(s)
    [] s.class = "package_manager_version_mismatch" -> ActivatePackageManager(s)
    [] s.class = "migrations_missing" -> DeployMigrations(s)

(* proposedActionFor: what the receipt of a remedy proposes.                *)
DeclaredRemedy(r) ==
  CASE r.files # {} ->
         Declared("patch", NoCommand, r.files, "low", "repo_only", TRUE)
    [] r.id = "activate-declared-package-manager" ->
         Run(CorepackPrepare, "medium", "project_cache")
    [] OTHER -> Run(RailsMigrate, "high", "database")
ActionOfRemedy(s) == Deterministic(DeclaredRemedy(RemedyFor(s)))
-----------------------------------------------------------------------------
(* repairProgressed and verifiedAfterRepair.  An attestation made after a   *)
(* repair says how it was made, whether it observed health, and its class.  *)
After(mode, healthy, class) == [mode |-> mode, healthy |-> healthy, class |-> class]
NoAfter == After("none", FALSE, "none")

Booted(after) == after.mode = "up" /\ after.healthy
Verified(after) == after.mode # "none" /\ after.healthy
(* Faulty variant: a boot that attests no class is no progress.             *)
ProgressedByClass(before, after) ==
  after.class # "none" /\ after.class # before

Progressed(before, after) ==
  Booted(after) \/ (after.class # "none" /\ after.class # before)
=============================================================================
