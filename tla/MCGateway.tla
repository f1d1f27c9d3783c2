----------------------------- MODULE MCGateway -----------------------------
(* Model-checking instance of Gateway: a key that the detectors know, an   *)
(* address that they know as personal data, an inventory that only a label *)
(* tells, and one action.                                                  *)
EXTENDS Gateway, TLC

CONSTANTS key, address, api_key, pii, inventory

Symmetry == Permutations(Participants)

MCFound == [f \in SUBSET Fields |-> (IF key \in f THEN {api_key} ELSE {})
                                    \cup (IF address \in f THEN {pii} ELSE {})]

(* Nothing; an inventory, RESTRICTED; a key that no detector would find.   *)
MCDeclared == {[categories |-> {}, sensitivity |-> 0],
               [categories |-> {inventory}, sensitivity |-> 3],
               [categories |-> {api_key}, sensitivity |-> 1]}

Permissive ==
  [allowedEventTypes |-> EventType, dataClassRules |-> [c \in Categories |-> "ALLOW"],
   maxAutoSensitivity |-> 4, autonomousActions |-> Actions, approvalRequiredActions |-> {}]

Careful ==
  [allowedEventTypes |-> EventType \ {"message"},
   dataClassRules |-> [c \in Categories |-> IF c = pii THEN "REQUIRE_APPROVAL" ELSE "ALLOW"],
   maxAutoSensitivity |-> 2, autonomousActions |-> {}, approvalRequiredActions |-> {}]

MCPolicies == {Permissive, Careful}

(* Personal data is in scope; personal data is forbidden, and actions ask  *)
(* a human.                                                                *)
MCContracts ==
  {[permittedDataClasses |-> {pii}, forbiddenDataClasses |-> {},
    permittedActions |-> Actions, approvalRequiredActions |-> {}],
   [permittedDataClasses |-> {inventory}, forbiddenDataClasses |-> {pii},
    permittedActions |-> {}, approvalRequiredActions |-> Actions]}
=============================================================================
