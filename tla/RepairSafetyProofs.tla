------------------------- MODULE RepairSafetyProofs -------------------------
(***************************************************************************)
(* What the policy of RepairSafety comes to: the order of the risks, the    *)
(* class that the patterns of a command give it, and what that makes of an  *)
(* action.  The theorems about the playbooks and about the plans for agents *)
(* rest on it.                                                              *)
(***************************************************************************)
EXTENDS RepairSafety, TLAPS

(* The risks in ascending order.                                            *)
LEMMA Weights ==
  /\ Weight("none") = 1 /\ Weight("low") = 2 /\ Weight("medium") = 3
  /\ Weight("high") = 4 /\ Weight("blocked") = 5
<1>1. /\ DOMAIN RiskLevels = 1..5
      /\ RiskLevels[1] = "none" /\ RiskLevels[2] = "low" /\ RiskLevels[3] = "medium"
      /\ RiskLevels[4] = "high" /\ RiskLevels[5] = "blocked"
  BY DEF RiskLevels
<1>2. \A n \in 1..5 : RiskLevels[n] = "none" <=> n = 1
  BY <1>1
<1>3. \A n \in 1..5 : RiskLevels[n] = "low" <=> n = 2
  BY <1>1
<1>4. \A n \in 1..5 : RiskLevels[n] = "medium" <=> n = 3
  BY <1>1
<1>5. \A n \in 1..5 : RiskLevels[n] = "high" <=> n = 4
  BY <1>1
<1>6. \A n \in 1..5 : RiskLevels[n] = "blocked" <=> n = 5
  BY <1>1
<1> HIDE DEF RiskLevels
<1>7. Weight("none") = 1
  BY <1>1, <1>2 DEF Weight
<1>8. Weight("low") = 2
  BY <1>1, <1>3 DEF Weight
<1>9. Weight("medium") = 3
  BY <1>1, <1>4 DEF Weight
<1>10. Weight("high") = 4
  BY <1>1, <1>5 DEF Weight
<1>11. Weight("blocked") = 5
  BY <1>1, <1>6 DEF Weight
<1> QED
  BY <1>7, <1>8, <1>9, <1>10, <1>11

LEMMA HigherOf ==
  ASSUME NEW r \in {"low", "medium", "high"}, NEW s \in {"none", "low", "medium", "high"}
  PROVE  /\ Higher(r, s) \in {r, s}
         /\ Higher(r, s) # "none" /\ Higher(r, s) # "blocked"
         /\ Weight(Higher(r, s)) >= Weight(r) /\ Weight(Higher(r, s)) >= Weight(s)
         /\ s = "none" \/ s = r => Higher(r, s) = r
BY Weights DEF Higher

(* The rules as a table.                                                    *)
LEMMA RulesTable ==
  /\ DOMAIN RiskRules = 1..18
  /\ RiskRules[4] = Rule("tool_install", "high", "host_tool_install")
  /\ RiskRules[6] = Rule("cluster_create", "high", "kubernetes_cluster")
  /\ RiskRules[7] = Rule("migration", "high", "database")
  /\ RiskRules[8] = Rule("key_material", "high", "credentials")
  /\ RiskRules[9] = Rule("verify_url", "low", "none")
  /\ RiskRules[11] = Rule("brew_services", "medium", "service")
  /\ RiskRules[12] = Rule("bundle_config", "medium", "project_cache")
  /\ RiskRules[14] = Rule("createuser", "medium", "database")
  /\ RiskRules[18].trait = "any"
  /\ \A n \in 1..18 :
       /\ RiskRules[n].trait = "tool_install" => n = 4
       /\ RiskRules[n].trait = "cluster_create" => n = 6
       /\ RiskRules[n].trait = "migration" => n = 7
       /\ RiskRules[n].trait = "key_material" => n = 8
       /\ RiskRules[n].trait = "verify_url" => n = 9
       /\ RiskRules[n].trait = "brew_services" => n = 11
       /\ RiskRules[n].trait = "bundle_config" => n = 12
       /\ RiskRules[n].trait = "createuser" => n = 14
       /\ RiskRules[n].trait = "cluster_tool" => n = 16
       /\ RiskRules[n].trait = "any" => n = 18
       /\ RiskRules[n].trait # "quoted"
BY DEF RiskRules, Rule

(* The first rule whose pattern a command matches is its class.             *)
LEMMA LeastRule ==
  ASSUME NEW c, NEW k \in 1..18, RiskRules[k].trait \in c.traits,
         \A n \in 1..18 : RiskRules[n].trait \in c.traits \cup {"any"} => k <= n
  PROVE  Inferred(c) = RiskRules[k]
<1> DEFINE hits == {n \in DOMAIN RiskRules : RiskRules[n].trait \in c.traits \cup {"any"}}
<1>1. hits \subseteq 1..18 /\ k \in hits /\ \A n \in hits : k <= n
  BY RulesTable
<1>2. k = CHOOSE n \in hits : \A m \in hits : n <= m
  <2>1. \A n \in hits : (\A m \in hits : n <= m) <=> n = k
    BY <1>1
  <2> HIDE DEF hits
  <2> QED
    BY <1>1, <2>1
<1> QED
  BY <1>2 DEF Inferred

(* A command with one pattern.                                              *)
LEMMA FirstRule ==
  ASSUME NEW c, NEW t, NEW k \in 1..17, c.traits = {t},
         RiskRules[k].trait = t,
         \A n \in 1..18 : RiskRules[n].trait = t => n = k
  PROVE  Inferred(c) = RiskRules[k]
<1>1. \A n \in 1..18 : RiskRules[n].trait \in c.traits \cup {"any"} => k <= n
  BY RulesTable
<1> QED
  BY <1>1, LeastRule
=============================================================================
