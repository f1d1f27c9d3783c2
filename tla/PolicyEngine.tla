---------------------------- MODULE PolicyEngine ----------------------------
(***************************************************************************)
(* The policy decision point (packages/policy/src/index.ts): a table of    *)
(* rules, of which the first that applies decides.  Platform floors come   *)
(* first, then the task contract, then the sender's own policy, and a last *)
(* contract rule.  Pure data, used by module Gateway.  Beside it stands    *)
(* the mirror of the table for an OPA sidecar                              *)
(* (packages/policy/src/rego/room_policy.rego), to be compared with it.    *)
(***************************************************************************)
EXTENDS RoomStates, Naturals, Sequences

CONSTANTS Categories,          \* DATA_CATEGORIES but "general", which no rule restricts
          HardDenyCategories,  \* HARD_DENY_CATEGORIES
          Actions              \* names of actions

ASSUME PolicyEngineAssumption == HardDenyCategories \subseteq Categories

(* The event types that the rules or the gateway tell apart; "message"     *)
(* stands for the others.                                                  *)
EventType == {"message", "data_request", "data_response", "evidence_submission", "action_proposal"}

(* The types that carry data out, which must fit the contract's scope.     *)
Disclosures == {"data_response", "evidence_submission"}

(* sensitivityRank: PUBLIC to SECRET.                                      *)
Sensitivity == 0..4

DisclosureRule == {"ALLOW", "DENY", "REQUIRE_APPROVAL"}

(* A category without a rule is one with the rule DENY.                    *)
ParticipantPolicy ==
  [allowedEventTypes       : SUBSET EventType,
   dataClassRules          : [Categories -> DisclosureRule],
   maxAutoSensitivity      : Sensitivity,
   autonomousActions       : SUBSET Actions,
   approvalRequiredActions : SUBSET Actions]

TaskContract ==
  [permittedDataClasses    : SUBSET Categories,
   forbiddenDataClasses    : SUBSET Categories,
   permittedActions        : SUBSET Actions,
   approvalRequiredActions : SUBSET Actions]

(* What the gateway tells the engine of an event and of its room.          *)
PolicyInput ==
  [state       : RoomState,
   type        : EventType,
   categories  : SUBSET Categories,
   sensitivity : Sensitivity,
   action      : Actions,
   secret      : BOOLEAN]

Deny(rule, when)            == [result |-> "deny", rule |-> rule, when |-> when]
RequireApproval(rule, when) == [result |-> "require_approval", rule |-> rule, when |-> when]

-----------------------------------------------------------------------------
Barred(ev) == ev.categories \cap HardDenyCategories # {}

Forbidden(ev, contract) == ev.categories \cap contract.forbiddenDataClasses # {}

Proposes(ev, actions) == ev.type = "action_proposal" /\ ev.action \in actions

(* Seeded fault: categories that need approval are let through.            *)
UnderDenied(ev, policy, rules) ==
  {c \in ev.categories : policy.dataClassRules[c] \in rules \ {"REQUIRE_APPROVAL"}}

Under(ev, policy, rules) == {c \in ev.categories : policy.dataClassRules[c] \in rules}

(* Seeded fault: the contract's rule for actions comes before the floors.  *)
RulesActionsFirst(ev, policy, contract) ==
  <<RequireApproval("contract.approval_required_action",
                    Proposes(ev, contract.approvalRequiredActions)),
    Deny("platform.secret_disclosure", ev.secret),
    Deny("platform.hard_deny_category", Barred(ev)),
    Deny("platform.room_not_active", ev.state \notin Routing),
    Deny("contract.forbidden_data_class", Forbidden(ev, contract)),
    Deny("participant.event_type", ev.type \notin policy.allowedEventTypes)>>

(* The rules in the order of the code.                                     *)
Rules(ev, policy, contract) ==
  <<Deny("platform.secret_disclosure", ev.secret),
    Deny("platform.hard_deny_category", Barred(ev)),
    Deny("platform.room_not_active", ev.state \notin Routing),
    Deny("contract.forbidden_data_class", Forbidden(ev, contract)),
    RequireApproval("contract.approval_required_action",
                    Proposes(ev, contract.approvalRequiredActions)),
    Deny("contract.action_not_permitted", Proposes(ev, Actions \ contract.permittedActions)),
    Deny("participant.event_type", ev.type \notin policy.allowedEventTypes),
    RequireApproval("participant.approval_required_action",
                    Proposes(ev, policy.approvalRequiredActions)),
    RequireApproval("participant.action_not_autonomous",
                    Proposes(ev, Actions \ policy.autonomousActions)),
    Deny("participant.data_class", Under(ev, policy, {"DENY"}) # {}),
    RequireApproval("participant.data_class_approval",
                    Under(ev, policy, {"REQUIRE_APPROVAL"}) # {}),
    RequireApproval("participant.sensitivity_ceiling", ev.sensitivity > policy.maxAutoSensitivity),
    Deny("contract.data_class_out_of_scope",
         ev.type \in Disclosures /\ ~(ev.categories \subseteq contract.permittedDataClasses))>>

Applicable(rules) == {i \in DOMAIN rules : rules[i].when}

Decision == {"allow", "deny", "require_approval"}

(* The result of the first applicable rule, or "allow".                    *)
evaluate(ev, policy, contract) ==
  LET rules == Rules(ev, policy, contract)
      hits  == Applicable(rules)
  IN IF hits = {} THEN "allow"
     ELSE rules[CHOOSE i \in hits : \A j \in hits : i <= j].result

-----------------------------------------------------------------------------
(* What the repository says an event must satisfy to cross without a       *)
(* human: docs/policy-engine.md, layer by layer and in no order.           *)
MeetsFloors(ev) ==
  /\ ~ev.secret
  /\ ev.categories \cap HardDenyCategories = {}
  /\ ev.state \in Routing

MeetsContract(ev, contract) ==
  /\ ev.categories \cap contract.forbiddenDataClasses = {}
  /\ ev.type \in Disclosures => ev.categories \subseteq contract.permittedDataClasses
  /\ ev.type = "action_proposal" =>
       ev.action \in contract.permittedActions \ contract.approvalRequiredActions

MeetsPolicy(ev, policy) ==
  /\ ev.type \in policy.allowedEventTypes
  /\ \A c \in ev.categories : policy.dataClassRules[c] = "ALLOW"
  /\ ev.sensitivity <= policy.maxAutoSensitivity
  /\ ev.type = "action_proposal" =>
       ev.action \in policy.autonomousActions \ policy.approvalRequiredActions

Autonomous(ev, policy, contract) ==
  MeetsFloors(ev) /\ MeetsContract(ev, contract) /\ MeetsPolicy(ev, policy)
-----------------------------------------------------------------------------
(* The mirror: no order of rules, but floors that exclude one another and  *)
(* one path that allows.  What it does not allow is denied by default, and *)
(* no rule of it asks for an approval.                                     *)
hard_denied(ev) == Barred(ev)

event_type_allowed(ev, policy) == ev.type \in policy.allowedEventTypes

contract_forbidden(ev, contract) == Forbidden(ev, contract)

action_needs_approval(ev, contract) == Proposes(ev, contract.approvalRequiredActions)

action_permitted(ev, policy, contract) ==
  \/ ev.type # "action_proposal"
  \/ Proposes(ev, contract.permittedActions \cap policy.autonomousActions)

data_classes_allowed(ev, policy) == \A c \in ev.categories : policy.dataClassRules[c] = "ALLOW"

sensitivity_ok(ev, policy) == ev.sensitivity <= policy.maxAutoSensitivity

MirrorAllows(ev, policy, contract) ==
  /\ ~ev.secret
  /\ ~hard_denied(ev)
  /\ ev.state \in Routing
  /\ event_type_allowed(ev, policy)
  /\ ~contract_forbidden(ev, contract)
  /\ ~action_needs_approval(ev, contract)
  /\ action_permitted(ev, policy, contract)
  /\ data_classes_allowed(ev, policy)
  /\ sensitivity_ok(ev, policy)

MirrorDecision(ev, policy, contract) == IF MirrorAllows(ev, policy, contract) THEN "allow" ELSE "deny"

(* What the mirror does not ask and the table does: whether the sender     *)
(* wants to approve the action itself, and whether what is disclosed lies  *)
(* in the contract's scope.                                                *)
Unasked(ev, policy, contract) ==
  \/ Proposes(ev, policy.approvalRequiredActions)
  \/ ev.type \in Disclosures /\ ~(ev.categories \subseteq contract.permittedDataClasses)
=============================================================================
