----------------------------- MODULE MCRepairFix -----------------------------
(* Small instances of RepairFix for TLC.                                    *)
EXTENDS RepairFix

(* Every playbook with every combination of the facts it looks at.          *)
Looks(class) ==
  CASE class \in {"missing_ruby_version", "missing_build_tool",
                  "postgres_role_missing", "missing_env_var"} -> {"subject"}
    [] class = "native_extension_compile_failed" ->
         {"subject", "brew", "package", "prefix_safe"}
    [] class = "missing_database_config" -> {"example", "missing", "clean"}
    [] class = "missing_required_config" -> {"subject", "example", "missing", "clean"}
    [] class = "laravel_sqlite_database_missing" ->
         {"subject", "project", "missing", "clean"}
    [] class = "postgres_unavailable" -> {"remote_host", "brew", "package"}
    [] class = "unsupported_database_version" -> {"subject", "brew", "package"}
    [] class = "unsupported_database_config" -> {"subject", "project", "clean"}
    [] class = "redis_unavailable" -> {"brew"}
    [] OTHER -> {}
PlaybookClasses ==
  SentryClasses \cup
  {"missing_ruby_version", "missing_build_tool", "native_extension_compile_failed",
   "missing_database_config", "missing_required_config",
   "laravel_sqlite_database_missing", "laravel_migrations_required",
   "postgres_unavailable", "postgres_role_missing", "database_schema_missing",
   "unsupported_database_version", "unsupported_database_config",
   "redis_unavailable", "missing_env_var"}
Registry ==
  {Situation("service_port_allocated", f) :
     f \in SUBSET {"port", "mapping", "literal", "repo_compose", "link"}} \cup
  {Situation("package_manager_version_mismatch", f) :
     f \in SUBSET {"version", "prepares"}} \cup
  {Situation("migrations_missing", f) : f \in SUBSET {"prisma", "rails"}}

Unknown == Situation("unknown_failure", {"classified"})
AllFailures ==
  UNION {{Situation(c, {"classified"} \cup f) : f \in SUBSET Looks(c)} :
           c \in PlaybookClasses}
    \cup Registry \cup {Unknown, Situation("redis_unavailable", {})}

(* One class stands for the others where they share their course.           *)
SomeFailures ==
  {s \in AllFailures :
     \/ s.class \in {"redis_unavailable", "unknown_failure", "migrations_missing"}
     \/ s.class = "laravel_sqlite_database_missing" /\ Cardinality(s.facts) = 5
     \/ s.class = "missing_database_config" /\ Cardinality(s.facts) = 4}

Failed(s) == World(TRUE, "docker", FALSE, FALSE, s)
Start1 == {Failed(s) : s \in AllFailures}
Start2 ==
  {World(TRUE, "local", FALSE, FALSE, s) : s \in SomeFailures} \cup
  {World(TRUE, "docker", FALSE, TRUE, s) : s \in Registry} \cup
  {World(TRUE, "docker", TRUE, FALSE, s) :
     s \in {Unknown, Situation("redis_unavailable", {"classified", "brew"})}} \cup
  {World(FALSE, "docker", FALSE, FALSE, Unknown)}
SomeWorlds == Start1 \cup Start2
LaterWorlds ==
  {Failed(Situation("redis_unavailable", {"classified", "brew"})),
   Failed(Situation("missing_database_config",
                    {"classified", "example", "missing", "clean"}))}

Line(runs, provider, batch, unsafe, ai, key) ==
  [runs |-> runs, provider |-> provider, batch |-> batch, unsafe |-> unsafe,
   ai |-> ai, key |-> key]
SomeOptions ==
  {Line(FALSE, "any", FALSE, FALSE, FALSE, FALSE),
   Line(TRUE, "any", FALSE, FALSE, FALSE, FALSE),
   Line(TRUE, "any", TRUE, TRUE, FALSE, FALSE),
   Line(TRUE, "local", FALSE, TRUE, TRUE, TRUE),
   Line(TRUE, "local", FALSE, FALSE, TRUE, TRUE),
   Line(TRUE, "any", FALSE, FALSE, TRUE, TRUE),
   Line(TRUE, "any", FALSE, TRUE, TRUE, FALSE),
   Line(TRUE, "any", TRUE, FALSE, TRUE, TRUE)}

Suggestion(kind, c, fs, risk) ==
  [wellFormed |-> TRUE, kind |-> kind, cmd |-> c, files |-> fs, risk |-> risk]
SomeSuggestions ==
  {Suggestion("command", Cmd("status", {"reads_status"}), {}, "none"),
   Suggestion("command", Cmd("sudo_install", {"tool_install", "sudo"}), {}, "low"),
   Suggestion("command", Cmd("npm_rebuild", {}), {}, "low"),
   Suggestion("patch", NoCommand, {"source_file"}, "low"),
   Suggestion("patch", NoCommand, {"env"}, "low"),
   Suggestion("instruction", NoCommand, {}, "medium"),
   Suggestion("instruction", NoCommand, {}, "blocked"),
   [Suggestion("command", Cmd("npm_rebuild", {}), {}, "low")
      EXCEPT !.wellFormed = FALSE]}
=============================================================================
