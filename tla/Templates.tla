------------------------------ MODULE Templates ------------------------------
(***************************************************************************)
(* What two organisations agree on when they take a template               *)
(* (packages/shared/src/templates.ts) and click through the guided set-up: *)
(* the contract and the customer's policy come from the template, the      *)
(* provider's policy is made from the contract                             *)
(* (packages/core/src/onboarding.ts, acceptInvitation), and either side    *)
(* may change its own policy in the form of the room page                  *)
(* (apps/web/app/rooms/[roomId]/setup.tsx).  Pure data, for the policy     *)
(* engine of module PolicyEngine.                                          *)
(***************************************************************************)
EXTENDS Naturals

HARD_DENY_CATEGORIES == {"credential", "private_key", "api_key", "authentication_token"}

(* All but "general", which no rule restricts.                             *)
DATA_CATEGORIES ==
  HARD_DENY_CATEGORIES \cup
  {"pii", "phi", "financial", "source_code", "network_configuration",
   "infrastructure_metadata", "customer_data", "employee_data", "business_strategy",
   "architecture", "resource_inventory", "performance_metric", "network_requirements"}

(* The actions that the forms offer, and the templates name.               *)
COMMON_ACTIONS ==
  {"read_inventory", "generate_migration_plan", "run_health_check", "create_resource",
   "modify_resource", "delete_resource", "change_dns", "change_firewall",
   "deploy_to_production", "rotate_secrets", "spend_money"}

-----------------------------------------------------------------------------
(* The templates: what the contract permits, forbids and asks a human for, *)
(* the number of its completion criteria, and what the policy allows and   *)
(* asks a human for (a class that it denies is like one that it leaves     *)
(* out).  Every one allows all event types and up to CONFIDENTIAL.         *)

Common == {"architecture", "infrastructure_metadata", "resource_inventory"}

NeverShared == {"credential", "private_key", "customer_data", "pii"}

cloud_migration ==
  [permitted  |-> Common \cup {"performance_metric", "network_requirements"},
   forbidden  |-> NeverShared \cup {"source_code"},
   actions    |-> {"read_inventory", "generate_migration_plan", "run_health_check"},
   askActions |-> {"create_resource", "modify_resource", "delete_resource", "change_dns",
                   "deploy_to_production", "spend_money"},
   criteria   |-> 3,
   allow      |-> Common \cup {"performance_metric", "network_requirements"},
   ask        |-> {"network_configuration"}]

vendor_security_review ==
  [permitted  |-> Common \cup {"network_requirements"},
   forbidden  |-> NeverShared \cup {"phi", "source_code"},
   actions    |-> {"read_inventory", "run_health_check"},
   askActions |-> {"create_resource", "modify_resource", "spend_money"},
   criteria   |-> 3,
   allow      |-> Common \cup {"network_requirements"},
   ask        |-> {"network_configuration"}]

compliance_evidence ==
  [permitted  |-> Common \cup {"performance_metric"},
   forbidden  |-> NeverShared \cup {"phi", "employee_data", "financial"},
   actions    |-> {"read_inventory"},
   askActions |-> {"create_resource", "modify_resource", "spend_money"},
   criteria   |-> 2,
   allow      |-> Common \cup {"performance_metric"},
   ask        |-> {}]

incident_remediation ==
  [permitted  |-> Common \cup {"network_requirements"},
   forbidden  |-> NeverShared \cup {"source_code"},
   actions    |-> {"read_inventory", "run_health_check"},
   askActions |-> {"modify_resource", "delete_resource", "change_firewall", "change_dns",
                   "deploy_to_production", "rotate_secrets"},
   criteria   |-> 2,
   allow      |-> Common \cup {"network_requirements"},
   ask        |-> {"network_configuration"}]

(* The contract that you fill in yourself, with nothing filled in.         *)
blank ==
  [permitted  |-> {"architecture", "infrastructure_metadata"},
   forbidden  |-> NeverShared,
   actions    |-> {},
   askActions |-> {"create_resource", "modify_resource", "delete_resource", "change_dns",
                   "spend_money"},
   criteria   |-> 1,
   allow      |-> {"architecture", "infrastructure_metadata"},
   ask        |-> {}]

ROOM_TEMPLATES ==
  {cloud_migration, vendor_security_review, compliance_evidence, incident_remediation, blank}

-----------------------------------------------------------------------------
BASE_EVENT_TYPES ==
  {"message", "data_request", "data_response", "evidence_submission", "action_proposal"}

CONFIDENTIAL == 2

Policy(allow, ask, autonomous) ==
  [allowedEventTypes       |-> BASE_EVENT_TYPES,
   dataClassRules          |-> [c \in DATA_CATEGORIES |->
                                  IF c \in allow THEN "ALLOW"
                                  ELSE IF c \in ask THEN "REQUIRE_APPROVAL" ELSE "DENY"],
   maxAutoSensitivity      |-> CONFIDENTIAL,
   autonomousActions       |-> autonomous,
   approvalRequiredActions |-> {}]

ContractOf(t) ==
  [permittedDataClasses    |-> t.permitted,
   forbiddenDataClasses    |-> t.forbidden,
   permittedActions        |-> t.actions,
   approvalRequiredActions |-> t.askActions]

(* launchRoom: the inviting side takes the template's policy.              *)
TemplatePolicy(t) == Policy(t.allow, t.ask, t.actions)

(* acceptInvitation: the invited side's mirrors the contract.  What the    *)
(* contract both permits and forbids is denied.                            *)
MirroredPolicy(contract) ==
  Policy(contract.permittedDataClasses \ contract.forbiddenDataClasses, {},
         contract.permittedActions)

(* PolicyForm: the rule of one class, and the ceiling.                     *)
EditRule(policy, class, rule) == [policy EXCEPT !.dataClassRules[class] = rule]

EditCeiling(policy, level) == [policy EXCEPT !.maxAutoSensitivity = level]
=============================================================================
