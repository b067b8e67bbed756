--------------------------- MODULE MCAgentJourney ----------------------------
(* Small instances of AgentJourney for TLC.                                 *)
EXTENDS AgentJourney

Sight(marks, dirs, traits, commands_, urls, runnable) ==
  [marks |-> marks, dirs |-> dirs, traits |-> traits, commands |-> commands_,
   urls |-> urls, runnable |-> runnable]

(* The documents name a command only together with its tool.                *)
Plain ==
  {s \in {Sight({}, 0, t, c, u, r) :
            t \in SUBSET {"gradle", "abctl", "kind", "kubernetes", "credentials"},
            c \in SUBSET {"kind_create", "abctl_install"},
            u \in {{}, {"starred"}},
            r \in BOOLEAN} :
     /\ "kind_create" \in s.commands => "kind" \in s.traits
     /\ "abctl_install" \in s.commands => "abctl" \in s.traits
     /\ s.runnable <=> "gradle" \in s.traits \/ s.traits \subseteq {"kind"}}
Airbytes ==
  {Sight({"remote"}, 0, {}, {}, {}, FALSE),
   Sight({"settings", "readme"}, 2, {"gradle", "gradlew"}, {}, {}, TRUE),
   Sight({"readme", "docs"}, 3, {"abctl", "kubectl", "kubernetes"},
         {"abctl_install"}, {"page"}, FALSE),
   Sight({"readme", "docs"}, 2, {"abctl"}, {"abctl_install"}, {"page"}, TRUE),
   Sight({}, 0, {}, {}, {"health", "page", "starred"}, FALSE),
   Sight({}, 0, {"gradle"}, {}, {"page"}, FALSE)}
SomeSights == Plain \cup Airbytes

SomeResults ==
  {[class |-> "none", healthy |-> TRUE],
   [class |-> "orchestration_not_supported", healthy |-> FALSE]}
=============================================================================
