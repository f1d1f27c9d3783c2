--------------------------- MODULE Gateway_proofs ---------------------------
(***************************************************************************)
(* Proofs about the gateway and its rule table, for every set of           *)
(* participants, policies, contracts, categories and detectors, and every  *)
(* number of submissions in flight.                                        *)
(***************************************************************************)
EXTENDS Gateway, SequenceTheorems, TLAPS

-----------------------------------------------------------------------------
(* The rule table.                                                         *)

(* A set of numbers above n has a least element below n + 5, or is above   *)
(* n + 4.                                                                  *)
LEMMA NextFour ==
  ASSUME NEW hits \in SUBSET Nat, NEW n \in Nat, \A i \in hits : i > n
  PROVE  \/ \E i \in hits : i <= n + 4 /\ \A j \in hits : i <= j
         \/ \A i \in hits : i > n + 4
<1>1. CASE n + 1 \in hits
  BY <1>1
<1>2. CASE n + 1 \notin hits /\ n + 2 \in hits
  BY <1>2
<1>3. CASE n + 1 \notin hits /\ n + 2 \notin hits /\ n + 3 \in hits
  BY <1>3
<1>4. CASE n + 1 \notin hits /\ n + 2 \notin hits /\ n + 3 \notin hits /\ n + 4 \in hits
  BY <1>4
<1>5. CASE n + 1 \notin hits /\ n + 2 \notin hits /\ n + 3 \notin hits /\ n + 4 \notin hits
  BY <1>5
<1> QED
  BY <1>1, <1>2, <1>3, <1>4, <1>5

(* Of the rules that apply, one is the first, and it is one of the first   *)
(* four if one of these applies.                                           *)
LEMMA FirstApplies ==
  ASSUME NEW hits \in SUBSET (1..13), hits # {}
  PROVE  LET first == CHOOSE i \in hits : \A j \in hits : i <= j
         IN first \in hits /\ \A j \in hits : first <= j
<1>1. hits \in SUBSET Nat /\ \A i \in hits : i > 0
  OBVIOUS
<1>2. \/ \E i \in hits : \A j \in hits : i <= j
      \/ \A i \in hits : i > 4
  BY <1>1, NextFour
<1>3. \/ \E i \in hits : \A j \in hits : i <= j
      \/ \A i \in hits : i > 8
  BY <1>1, <1>2, NextFour
<1>4. \/ \E i \in hits : \A j \in hits : i <= j
      \/ \A i \in hits : i > 12
  BY <1>1, <1>3, NextFour
<1>5. \E i \in hits : \A j \in hits : i <= j
  <2>1. CASE \A i \in hits : i > 12
    <3>1. PICK i \in hits : TRUE
      OBVIOUS
    <3>2. \A j \in hits : i <= j
      BY <2>1
    <3> QED
      BY <3>2
  <2> QED
    BY <1>4, <2>1
<1> QED
  BY <1>5

(* The table has thirteen rules; none allows, the first four deny.         *)
LEMMA RuleShape ==
  ASSUME NEW ev, NEW policyOf, NEW contractOf
  PROVE  /\ DOMAIN Rules(ev, policyOf, contractOf) = 1..13
         /\ \A i \in 1..13 : Rules(ev, policyOf, contractOf)[i].result \in {"deny", "require_approval"}
         /\ \A i \in 1..4 : Rules(ev, policyOf, contractOf)[i].result = "deny"
  BY DEF Rules, Deny, RequireApproval

(* When the floors and the contract's prohibitions apply.                  *)
LEMMA FloorRules ==
  ASSUME NEW ev, NEW policyOf, NEW contractOf
  PROVE  /\ Rules(ev, policyOf, contractOf)[1].when <=> ev.secret
         /\ Rules(ev, policyOf, contractOf)[2].when <=> Barred(ev)
         /\ Rules(ev, policyOf, contractOf)[3].when <=> ev.state \notin Routing
         /\ Rules(ev, policyOf, contractOf)[4].when <=> Forbidden(ev, contractOf)
  BY DEF Rules, Deny, RequireApproval

(* When the rules about actions apply.                                     *)
LEMMA ActionRules ==
  ASSUME NEW ev, NEW policyOf, NEW contractOf
  PROVE  /\ Rules(ev, policyOf, contractOf)[5].when <=> Proposes(ev, contractOf.approvalRequiredActions)
         /\ Rules(ev, policyOf, contractOf)[6].when <=> Proposes(ev, Actions \ contractOf.permittedActions)
         /\ Rules(ev, policyOf, contractOf)[8].when <=> Proposes(ev, policyOf.approvalRequiredActions)
         /\ Rules(ev, policyOf, contractOf)[9].when <=> Proposes(ev, Actions \ policyOf.autonomousActions)
  BY DEF Rules, Deny, RequireApproval

(* When the rules about types, data classes and sensitivity apply.         *)
LEMMA LimitRules ==
  ASSUME NEW ev, NEW policyOf, NEW contractOf
  PROVE  /\ Rules(ev, policyOf, contractOf)[7].when <=> ev.type \notin policyOf.allowedEventTypes
         /\ Rules(ev, policyOf, contractOf)[10].when <=> Under(ev, policyOf, {"DENY"}) # {}
         /\ Rules(ev, policyOf, contractOf)[11].when <=> Under(ev, policyOf, {"REQUIRE_APPROVAL"}) # {}
         /\ Rules(ev, policyOf, contractOf)[12].when <=> ev.sensitivity > policyOf.maxAutoSensitivity
         /\ Rules(ev, policyOf, contractOf)[13].when <=> (/\ ev.type \in Disclosures
                                                        /\ ~(ev.categories \subseteq contractOf.permittedDataClasses))
  BY DEF Rules, Deny, RequireApproval

(* What is not denied is no secret, of no category that may never be       *)
(* disclosed, and of no class that the contract forbids.                   *)
LEMMA NotDeniedIsClean ==
  ASSUME NEW ev \in PolicyInput, NEW policyOf, NEW contractOf,
         evaluate(ev, policyOf, contractOf) # "deny"
  PROVE  /\ ~ev.secret
         /\ ev.categories \cap (HardDenyCategories \cup contractOf.forbiddenDataClasses) = {}
<1> DEFINE rules == Rules(ev, policyOf, contractOf)
           hits  == Applicable(rules)
           first == CHOOSE i \in hits : \A j \in hits : i <= j
<1>1. hits \in SUBSET (1..13)
  BY RuleShape DEF Applicable
<1>2. ASSUME NEW k \in hits, k <= 4
      PROVE  FALSE
  <2>1. first \in hits /\ \A j \in hits : first <= j
    BY <1>1, <1>2, FirstApplies
  <2>2. evaluate(ev, policyOf, contractOf) = rules[first].result
    BY <1>2 DEF evaluate
  <2> HIDE DEF first, hits
  <2>3. first \in 1..4
    BY <1>1, <1>2, <2>1
  <2>4. rules[first].result = "deny"
    BY <2>3, RuleShape
  <2> QED
    BY <2>2, <2>4
<1>3. 1 \notin hits /\ 2 \notin hits /\ 4 \notin hits
  BY <1>2
<1>4. ~rules[1].when /\ ~rules[2].when /\ ~rules[4].when
  BY <1>3, RuleShape DEF Applicable
<1>5. ~ev.secret
  BY <1>4, FloorRules
<1>6. ~Barred(ev) /\ ~Forbidden(ev, contractOf)
  BY <1>4, FloorRules
<1> QED
  BY <1>5, <1>6 DEF Barred, Forbidden

(* What is allowed meets every layer, in whatever order they are asked.    *)
LEMMA AllowedIsAutonomous ==
  ASSUME NEW ev \in PolicyInput, NEW policyOf \in ParticipantPolicy,
         NEW contractOf \in TaskContract,
         evaluate(ev, policyOf, contractOf) = "allow"
  PROVE  Autonomous(ev, policyOf, contractOf)
<1> DEFINE rules == Rules(ev, policyOf, contractOf)
           hits  == Applicable(rules)
           first == CHOOSE i \in hits : \A j \in hits : i <= j
<1>1. hits \in SUBSET (1..13)
  BY RuleShape DEF Applicable
<1>2. hits = {}
  <2>1. SUFFICES ASSUME hits # {}
                 PROVE  FALSE
    OBVIOUS
  <2>2. first \in hits
    BY <1>1, <2>1, FirstApplies
  <2>3. evaluate(ev, policyOf, contractOf) = rules[first].result
    BY <2>1 DEF evaluate
  <2> HIDE DEF first, hits
  <2>4. rules[first].result \in {"deny", "require_approval"}
    BY <1>1, <2>2, RuleShape
  <2> QED
    BY <2>3, <2>4
<1>3. \A i \in 1..13 : ~rules[i].when
  BY <1>2, RuleShape DEF Applicable
<1>4. /\ ~ev.secret /\ ~Barred(ev) /\ ev.state \in Routing /\ ~Forbidden(ev, contractOf)
  BY <1>3, FloorRules
<1>5. /\ ~Proposes(ev, contractOf.approvalRequiredActions)
      /\ ~Proposes(ev, Actions \ contractOf.permittedActions)
      /\ ~Proposes(ev, policyOf.approvalRequiredActions)
      /\ ~Proposes(ev, Actions \ policyOf.autonomousActions)
  <2>1. ~rules[5].when /\ ~rules[6].when /\ ~rules[8].when /\ ~rules[9].when
    BY <1>3
  <2> HIDE DEF rules
  <2>2. /\ rules[5].when <=> Proposes(ev, contractOf.approvalRequiredActions)
        /\ rules[6].when <=> Proposes(ev, Actions \ contractOf.permittedActions)
        /\ rules[8].when <=> Proposes(ev, policyOf.approvalRequiredActions)
        /\ rules[9].when <=> Proposes(ev, Actions \ policyOf.autonomousActions)
    BY ActionRules DEF rules
  <2> QED
    BY <2>1, <2>2
<1>6. /\ ev.type \in policyOf.allowedEventTypes
      /\ Under(ev, policyOf, {"DENY"}) = {} /\ Under(ev, policyOf, {"REQUIRE_APPROVAL"}) = {}
      /\ ~(ev.sensitivity > policyOf.maxAutoSensitivity)
      /\ ev.type \in Disclosures => ev.categories \subseteq contractOf.permittedDataClasses
  BY <1>3, LimitRules
<1>7. MeetsFloors(ev)
  BY <1>4 DEF MeetsFloors, Barred
<1>8. MeetsContract(ev, contractOf)
  BY <1>4, <1>5, <1>6 DEF MeetsContract, Forbidden, Proposes, PolicyInput
<1>9. \A c \in ev.categories : policyOf.dataClassRules[c] = "ALLOW"
  <2>1. ASSUME NEW c \in ev.categories
        PROVE  policyOf.dataClassRules[c] \in DisclosureRule
    BY DEF PolicyInput, ParticipantPolicy
  <2> QED
    BY <1>6, <2>1 DEF Under, DisclosureRule
<1>10. MeetsPolicy(ev, policyOf)
  BY <1>5, <1>6, <1>9 DEF MeetsPolicy, Proposes, PolicyInput, ParticipantPolicy, Sensitivity
<1> QED
  BY <1>7, <1>8, <1>10 DEF Autonomous

(* What meets every layer runs into no rule, and is allowed.               *)
LEMMA AutonomousIsAllowed ==
  ASSUME NEW ev \in PolicyInput, NEW policyOf \in ParticipantPolicy,
         NEW contractOf \in TaskContract,
         Autonomous(ev, policyOf, contractOf)
  PROVE  evaluate(ev, policyOf, contractOf) = "allow"
<1> DEFINE rules == Rules(ev, policyOf, contractOf)
<1>1. /\ MeetsFloors(ev) /\ MeetsContract(ev, contractOf) /\ MeetsPolicy(ev, policyOf)
  BY DEF Autonomous
<1>2. ~rules[1].when /\ ~rules[2].when /\ ~rules[3].when /\ ~rules[4].when
  BY <1>1, FloorRules DEF MeetsFloors, MeetsContract, Barred, Forbidden
<1>3. ~rules[5].when /\ ~rules[6].when /\ ~rules[8].when /\ ~rules[9].when
  <2>1. /\ ~Proposes(ev, contractOf.approvalRequiredActions)
        /\ ~Proposes(ev, Actions \ contractOf.permittedActions)
        /\ ~Proposes(ev, policyOf.approvalRequiredActions)
        /\ ~Proposes(ev, Actions \ policyOf.autonomousActions)
    BY <1>1 DEF MeetsContract, MeetsPolicy, Proposes
  <2> QED
    BY <2>1, ActionRules
<1>4. ~rules[7].when /\ ~rules[10].when /\ ~rules[11].when /\ ~rules[12].when /\ ~rules[13].when
  <2>1. /\ ev.type \in policyOf.allowedEventTypes
        /\ Under(ev, policyOf, {"DENY"}) = {} /\ Under(ev, policyOf, {"REQUIRE_APPROVAL"}) = {}
    BY <1>1 DEF MeetsPolicy, Under
  <2>2. ~(ev.sensitivity > policyOf.maxAutoSensitivity)
    BY <1>1 DEF MeetsPolicy, PolicyInput, ParticipantPolicy, Sensitivity
  <2>3. ev.type \in Disclosures => ev.categories \subseteq contractOf.permittedDataClasses
    BY <1>1 DEF MeetsContract
  <2> QED
    BY <2>1, <2>2, <2>3, LimitRules
<1>5. Applicable(rules) = {}
  <2>1. DOMAIN rules = 1..13
    BY RuleShape
  <2> HIDE DEF rules
  <2>2. \A i \in 1..13 : ~rules[i].when
    BY <1>2, <1>3, <1>4
  <2> QED
    BY <2>1, <2>2 DEF Applicable
<1> QED
  BY <1>5 DEF evaluate

(* The mirror is never the stricter of the two where the table allows: an  *)
(* installation that turns to the sidecar refuses nothing that the table   *)
(* lets through without a human.                                           *)
THEOREM MirrorFollowsTable ==
  ASSUME NEW ev \in PolicyInput, NEW policyOf \in ParticipantPolicy,
         NEW contractOf \in TaskContract,
         evaluate(ev, policyOf, contractOf) = "allow"
  PROVE  MirrorDecision(ev, policyOf, contractOf) = "allow"
<1>1. Autonomous(ev, policyOf, contractOf)
  BY AllowedIsAutonomous
<1>2. MirrorAllows(ev, policyOf, contractOf)
  BY <1>1 DEF Autonomous, MeetsFloors, MeetsContract, MeetsPolicy, MirrorAllows, hard_denied,
     event_type_allowed, contract_forbidden, action_needs_approval, action_permitted,
     data_classes_allowed, sensitivity_ok, Barred, Forbidden, Proposes
<1> QED
  BY <1>2 DEF MirrorDecision

(* Where the mirror allows what the table does not, it is for one of the   *)
(* two questions it does not ask: an action that the sender itself wants   *)
(* to approve, or a disclosure outside the contract's scope.               *)
THEOREM MirrorIsLaxerIn ==
  ASSUME NEW ev \in PolicyInput, NEW policyOf \in ParticipantPolicy,
         NEW contractOf \in TaskContract,
         MirrorDecision(ev, policyOf, contractOf) = "allow"
  PROVE  \/ evaluate(ev, policyOf, contractOf) = "allow"
         \/ Unasked(ev, policyOf, contractOf)
<1>1. MirrorAllows(ev, policyOf, contractOf)
  BY DEF MirrorDecision
<1>2. SUFFICES ASSUME ~Unasked(ev, policyOf, contractOf)
               PROVE  Autonomous(ev, policyOf, contractOf)
  BY AutonomousIsAllowed
<1>3. MeetsFloors(ev)
  BY <1>1 DEF MirrorAllows, MeetsFloors, hard_denied, Barred
<1>4. MeetsContract(ev, contractOf)
  BY <1>1, <1>2 DEF MirrorAllows, MeetsContract, contract_forbidden, action_needs_approval,
     action_permitted, Forbidden, Proposes, Unasked
<1>5. MeetsPolicy(ev, policyOf)
  BY <1>1, <1>2 DEF MirrorAllows, MeetsPolicy, event_type_allowed, action_permitted,
     data_classes_allowed, sensitivity_ok, Proposes, Unasked
<1> QED
  BY <1>3, <1>4, <1>5 DEF Autonomous

-----------------------------------------------------------------------------
(* Types.                                                                  *)

(* What the engine is told of a candidate is a PolicyInput.                *)
LEMMA InputType ==
  ASSUME TypeOK, NEW from \in Participants, NEW candidate \in Candidate
  PROVE  /\ Filtered(candidate) \in SUBSET Fields
         /\ Input(from, candidate) \in PolicyInput
         /\ Input(from, candidate).type = candidate.type
<1>1. /\ candidate.fields \in SUBSET Fields /\ candidate.type \in EventType
      /\ candidate.action \in Actions
      /\ candidate.declared.categories \in SUBSET Categories
      /\ candidate.declared.sensitivity \in 0..4
  BY GatewayAssumption DEF Candidate, Classification, Sensitivity
<1>2. Filtered(candidate) \in SUBSET Fields
  BY <1>1 DEF Filtered
<1>3. FoundIn(candidate.type, Filtered(candidate)) \in SUBSET Categories
  BY <1>2, GatewayAssumption DEF FoundIn
<1>4. ASSUME NEW found
      PROVE  LevelOf(found, candidate.declared.sensitivity) \in 0..4
  BY <1>1 DEF LevelOf
<1>5. ASSUME NEW found
      PROVE  HasSecret(found) \in BOOLEAN
  BY DEF HasSecret
<1>6. room \in RoomState
  BY DEF TypeOK
<1>7. Input(from, candidate) \in PolicyInput
  BY <1>1, <1>3, <1>4, <1>5, <1>6 DEF Input, PolicyInput, Sensitivity
<1>8. Input(from, candidate).type = candidate.type
  BY DEF Input
<1> QED
  BY <1>2, <1>7, <1>8

(* A free slot is a slot.                                                  *)
LEMMA IdleIsSlot == Idle \in Slot /\ Idle.step = "idle"
  BY DEF Idle, Slot, Step

(* A slot from its parts.                                                  *)
LEMMA SlotIntro ==
  ASSUME NEW step \in Step, NEW event \in Seq(Event), NEW sender \in Seq(Participants)
  PROVE  [step |-> step, event |-> event, sender |-> sender] \in Slot
  BY DEF Slot

(* What a decided submission carries on is a slot, and only what was not   *)
(* denied is carried on.                                                   *)
LEMMA DecidedType ==
  ASSUME NEW decision \in Decision, NEW event \in Event
  PROVE  /\ Decided(decision, event) \in Slot
         /\ SenderIsKnown(Decided(decision, event))
         /\ Decided(decision, event).step \notin {"idle", "count"}
         /\ Decided(decision, event).step \in {"route", "hold"} =>
              decision # "deny" /\ Decided(decision, event).event = <<event>>
         /\ Decided(decision, event).step = "route" => decision = "allow"
<1>1. event.from \in Participants
  BY DEF Event
<1>2. <<event>> \in Seq(Event) /\ <<event.from>> \in Seq(Participants) /\ Len(<<event.from>>) = 1
  BY <1>1
<1>6. <<>> \in Seq(Event) /\ <<>> \in Seq(Participants)
  OBVIOUS
<1>3. CASE decision = "allow"
  <2>1. Decided(decision, event) = [step |-> "route", event |-> <<event>>, sender |-> <<>>]
    BY <1>3 DEF Decided, Idle
  <2>2. Decided(decision, event) \in Slot
    BY <1>2, <1>6, <2>1, SlotIntro DEF Step
  <2>3. Decided(decision, event).step = "route" /\ Decided(decision, event).event = <<event>>
    BY <2>1
  <2> QED
    BY <1>3, <2>2, <2>3 DEF SenderIsKnown
<1>4. CASE decision = "require_approval"
  <2>1. Decided(decision, event) = [step |-> "hold", event |-> <<event>>, sender |-> <<>>]
    BY <1>4 DEF Decided, Idle
  <2>2. Decided(decision, event) \in Slot
    BY <1>2, <1>6, <2>1, SlotIntro DEF Step
  <2>3. Decided(decision, event).step = "hold" /\ Decided(decision, event).event = <<event>>
    BY <2>1
  <2> QED
    BY <1>4, <2>2, <2>3 DEF SenderIsKnown
<1>5. CASE decision = "deny"
  <2>1. CASE event.input.secret
    <3>1. Decided(decision, event) =
            [step |-> "blockSecret", event |-> <<>>, sender |-> <<event.from>>]
      BY <1>5, <2>1 DEF Decided, Idle
    <3>2. Decided(decision, event) \in Slot
      BY <1>2, <1>6, <3>1, SlotIntro DEF Step
    <3>3. /\ Decided(decision, event).step = "blockSecret"
          /\ Decided(decision, event).sender = <<event.from>>
      BY <3>1
    <3> QED
      BY <1>2, <3>2, <3>3 DEF SenderIsKnown
  <2>2. CASE ~event.input.secret
    <3>1. Decided(decision, event) = [step |-> "block", event |-> <<>>, sender |-> <<>>]
      BY <1>5, <2>2 DEF Decided, Idle
    <3>2. Decided(decision, event) \in Slot
      BY <1>6, <3>1, SlotIntro DEF Step
    <3>3. Decided(decision, event).step = "block"
      BY <3>1
    <3> QED
      BY <3>2, <3>3 DEF SenderIsKnown
  <2> QED
    BY <2>1, <2>2
<1> QED
  BY <1>3, <1>4, <1>5 DEF Decision

(* The engine answers with one of three words.                             *)
LEMMA EvaluateDecides ==
  ASSUME NEW ev, NEW policyOf, NEW contractOf
  PROVE  evaluate(ev, policyOf, contractOf) \in Decision
<1> DEFINE hits  == Applicable(Rules(ev, policyOf, contractOf))
           first == CHOOSE i \in hits : \A j \in hits : i <= j
<1>1. hits \in SUBSET (1..13)
  BY RuleShape DEF Applicable
<1>2. CASE hits = {}
  BY <1>2 DEF evaluate, Decision
<1>3. CASE hits # {}
  <2>1. first \in hits
    BY <1>1, <1>3, FirstApplies
  <2>2. evaluate(ev, policyOf, contractOf) = Rules(ev, policyOf, contractOf)[first].result
    BY <1>3 DEF evaluate
  <2> HIDE DEF first, hits
  <2> QED
    BY <1>1, <2>1, <2>2, RuleShape DEF Decision
<1> QED
  BY <1>2, <1>3

-----------------------------------------------------------------------------
(* What a step does to the parts of the invariant.                         *)

(* The stream is append-only.                                              *)
StreamGrows == routed' = routed \/ \E e \in Event : routed' = Append(routed, e)

(* What may cross may still cross when the stream has grown.               *)
LEMMA MayCrossStays ==
  ASSUME routed \in Seq(Event), StreamGrows, contract' = contract, NEW event, MayCross(event)
  PROVE  MayCross(event)'
<1>1. Len(routed) \in Nat /\ Len(routed') \in Nat /\ Len(routed') >= Len(routed)
  BY DEF StreamGrows
<1>2. \A j \in 1..Len(routed) : j \in 1..Len(routed') /\ routed'[j] = routed[j]
  BY DEF StreamGrows
<1>3. Clean(event)'
  BY DEF MayCross, Clean
<1>4. Solicited(event, Len(routed))'
  BY <1>1, <1>2 DEF MayCross, Solicited
<1> QED
  BY <1>3, <1>4 DEF MayCross

(* An event that may cross, and that a human released or every layer       *)
(* allows, leaves the stream as it must be.                                *)
LEMMA RoutedStays ==
  ASSUME routed \in Seq(Event), NEW e \in Event, routed' = Append(routed, e),
         contract' = contract, MayCross(e), MeetsAll(e),
         NothingBarredCrosses, OnlyRequestedFields, AutonomousIsAgreed
  PROVE  /\ routed' \in Seq(Event)
         /\ NothingBarredCrosses' /\ OnlyRequestedFields' /\ AutonomousIsAgreed'
<1>1. Len(routed) \in Nat /\ Len(routed') = Len(routed) + 1 /\ routed' \in Seq(Event)
  OBVIOUS
<1>2. \A j \in 1..Len(routed) : routed'[j] = routed[j]
  OBVIOUS
<1>3. routed'[Len(routed) + 1] = e
  OBVIOUS
<1>4. NothingBarredCrosses'
  BY <1>1, <1>2, <1>3 DEF NothingBarredCrosses, MayCross, Clean
<1>5. OnlyRequestedFields'
  <2> SUFFICES ASSUME NEW i \in 1..Len(routed'), routed'[i].input.type = "data_response"
               PROVE  \E j \in 1..(i-1) :
                        /\ routed'[j].input.type = "data_request" /\ routed'[j].from # routed'[i].from
                        /\ routed'[i].fields \subseteq routed'[j].fields
    BY DEF OnlyRequestedFields
  <2>1. CASE i \in 1..Len(routed)
    <3>1. PICK j \in 1..(i-1) :
            /\ routed[j].input.type = "data_request" /\ routed[j].from # routed[i].from
            /\ routed[i].fields \subseteq routed[j].fields
      BY <1>2, <2>1 DEF OnlyRequestedFields
    <3>2. j \in 1..Len(routed)
      BY <1>1, <2>1
    <3> QED
      BY <1>2, <2>1, <3>1, <3>2
  <2>2. CASE i = Len(routed) + 1
    <3>1. PICK j \in 1..Len(routed) :
            /\ routed[j].input.type = "data_request" /\ routed[j].from # e.from
            /\ e.fields \subseteq routed[j].fields
      BY <1>3, <2>2 DEF MayCross, Solicited
    <3> QED
      BY <1>1, <1>2, <1>3, <2>2, <3>1
  <2> QED
    BY <1>1, <2>1, <2>2
<1>6. AutonomousIsAgreed'
  BY <1>1, <1>2, <1>3 DEF AutonomousIsAgreed, MeetsAll
<1> QED
  BY <1>1, <1>4, <1>5, <1>6

(* A submission leaves its slot with an event that may cross.              *)
LEMMA SubmitMayCross ==
  ASSUME TypeOK, NEW s \in Slots, NEW from \in Participants, NEW candidate \in Candidate,
         Submit(s, from, candidate)
  PROVE  \E x \in Slot :
           /\ slot' = [slot EXCEPT ![s] = x] /\ slot[s].step = "idle"
           /\ x.step \notin {"idle", "count"} /\ SlotMayCross(x) /\ SenderIsKnown(x)
<1> DEFINE input == Input(from, candidate)
           event == [from |-> from, fields |-> Filtered(candidate), input |-> input,
                     under |-> policy[from], human |-> FALSE]
           decision == evaluate(input, policy[from], contract)
           x == Decided(decision, event)
<1>1. input \in PolicyInput /\ Filtered(candidate) \in SUBSET Fields /\ input.type = candidate.type
  BY InputType
<1>2. policy[from] \in ParticipantPolicy /\ contract \in TaskContract
  BY DEF TypeOK
<1>3. event \in Event
  BY <1>1, <1>2 DEF Event
<1>4. slot' = [slot EXCEPT ![s] = x] /\ slot[s].step = "idle"
  BY DEF Submit
<1>5. decision \in Decision
  BY EvaluateDecides
<1>6. /\ x \in Slot /\ SenderIsKnown(x) /\ x.step \notin {"idle", "count"}
      /\ x.step \in {"route", "hold"} => decision # "deny" /\ x.event = <<event>>
      /\ x.step = "route" => decision = "allow"
  <2> HIDE DEF decision, event
  <2> QED
    BY <1>3, <1>5, DecidedType
<1>7. decision # "deny" => Clean(event)
  BY <1>1, NotDeniedIsClean DEF Clean
<1>8. Solicited(event, Len(routed))
  <2>1. candidate.type = "data_response" =>
          /\ Answers(from, candidate)
          /\ Filtered(candidate) \subseteq routed[candidate.request].fields
    BY DEF Submit, Filtered
  <2> QED
    BY <1>1, <2>1 DEF Solicited, Answers
<1>9. decision = "allow" => MeetsAll(event)
  BY <1>1, <1>2, AllowedIsAutonomous DEF MeetsAll
<1>10. SlotMayCross(x)
  <2> HIDE DEF decision, event, x
  <2>1. ASSUME x.step \in {"route", "hold"}
        PROVE  Len(x.event) = 1 /\ x.event[1] = event /\ MayCross(event)
    <3>1. decision # "deny" /\ x.event = <<event>>
      BY <1>6, <2>1
    <3>2. Len(x.event) = 1 /\ x.event[1] = event
      BY <3>1
    <3>3. Clean(event)
      BY <1>7, <3>1
    <3>4. MayCross(event)
      BY <1>8, <3>3 DEF MayCross
    <3> QED
      BY <3>2, <3>4
  <2>2. ASSUME x.step = "route"
        PROVE  MeetsAll(event)
    BY <1>6, <1>9, <2>2
  <2>3. x.step \in {"route", "hold"} => Len(x.event) = 1 /\ MayCross(x.event[1])
    BY <2>1
  <2>4. x.step = "route" => MeetsAll(x.event[1])
    BY <2>1, <2>2
  <2> QED
    BY <2>3, <2>4 DEF SlotMayCross
<1> QED
  BY <1>4, <1>6, <1>10

(* A step of one submission leaves the others what they carry.             *)
LEMMA SlotStep ==
  ASSUME TypeOK, StreamGrows, contract' = contract, SlotsMayCross, SendersAreKnown,
         NEW s \in Slots, NEW x \in Slot, slot' = [slot EXCEPT ![s] = x],
         SlotMayCross(x), SenderIsKnown(x)
  PROVE  slot' \in [Slots -> Slot] /\ SlotsMayCross' /\ SendersAreKnown'
<1>1. routed \in Seq(Event) /\ slot \in [Slots -> Slot]
  BY DEF TypeOK
<1>2. slot' \in [Slots -> Slot]
  BY <1>1
<1>3. \A t \in Slots : SlotMayCross(slot'[t]) /\ SenderIsKnown(slot'[t])
  BY <1>1 DEF SlotsMayCross, SendersAreKnown
<1>4. SendersAreKnown'
  BY <1>3 DEF SendersAreKnown, SenderIsKnown
<1>5. ASSUME NEW t \in Slots
      PROVE  SlotMayCross(slot[t])'
  <2> DEFINE y == slot'[t]
  <2>1. SlotMayCross(y)
    BY <1>3
  <2>2. /\ y.step \in {"route", "hold"} => Len(y.event) = 1 /\ MayCross(y.event[1])
        /\ y.step = "route" => MeetsAll(y.event[1])
    BY <2>1 DEF SlotMayCross
  <2>3. y.step \in {"route", "hold"} => MayCross(slot[t].event[1])'
    <3> SUFFICES ASSUME y.step \in {"route", "hold"}
                 PROVE  MayCross(slot[t].event[1])'
      OBVIOUS
    <3>1. PICK event : event = slot'[t].event[1]
      OBVIOUS
    <3>2. MayCross(event)
      BY <2>2, <3>1
    <3>3. Clean(event)' /\ Solicited(event, Len(routed))'
      BY <1>1, <3>2, MayCrossStays DEF MayCross
    <3> QED
      BY <3>1, <3>3 DEF MayCross, Clean, Solicited
  <2>4. y.step = "route" => MeetsAll(slot[t].event[1])'
    BY <2>2 DEF MeetsAll
  <2> QED
    BY <2>2, <2>3, <2>4 DEF SlotMayCross
<1>6. SlotsMayCross'
  BY <1>5 DEF SlotsMayCross
<1> QED
  BY <1>2, <1>4, <1>6

(* What the submissions carry may still cross when the stream has grown.   *)
LEMMA SlotsStay ==
  ASSUME TypeOK, StreamGrows, UNCHANGED <<contract, slot>>, SlotsMayCross, SendersAreKnown
  PROVE  SlotsMayCross' /\ SendersAreKnown'
<1>1. SendersAreKnown'
  BY DEF SendersAreKnown, SenderIsKnown
<1>2. ASSUME NEW s \in Slots
      PROVE  SlotMayCross(slot[s])'
  <2>1. SlotMayCross(slot[s]) /\ routed \in Seq(Event)
    BY DEF SlotsMayCross, TypeOK
  <2>2. slot[s].step \in {"route", "hold"} => Clean(slot[s].event[1])' /\ MayCross(slot[s].event[1])'
    <3>1. PICK event : event = slot[s].event[1]
      OBVIOUS
    <3>2. slot[s].step \in {"route", "hold"} => MayCross(event)'
      BY <2>1, <3>1, MayCrossStays DEF SlotMayCross
    <3> QED
      BY <3>1, <3>2 DEF MayCross, Clean, Solicited
  <2>3. slot[s].step = "route" => MeetsAll(slot[s].event[1])'
    BY <2>1 DEF SlotMayCross, MeetsAll
  <2> QED
    BY <2>1, <2>2, <2>3 DEF SlotMayCross
<1> QED
  BY <1>1, <1>2 DEF SlotsMayCross

(* A free slot carries nothing that may not cross.                         *)
LEMMA IdleMayCross == Idle \in Slot /\ Idle.step = "idle" /\ SlotMayCross(Idle) /\ SenderIsKnown(Idle)
  BY IdleIsSlot DEF SlotMayCross, SenderIsKnown

(* What is held may still cross when the stream has grown.                 *)
LEMMA HeldStays ==
  ASSUME routed \in Seq(Event), StreamGrows, contract' = contract,
         \A event \in held' : MayCross(event)
  PROVE  HeldMayCross'
<1>1. ASSUME NEW event \in held'
      PROVE  Clean(event)' /\ Solicited(event, Len(routed))'
  BY <1>1, MayCrossStays DEF MayCross
<1> QED
  BY <1>1 DEF HeldMayCross, MayCross, Clean, Solicited

(* A step that blocks no secret leaves the third secret counted.           *)
LEMMA ThirdStays ==
  ASSUME ThirdIsCounted, secrets' = secrets,
         room = "QUARANTINED" \/ lifted => room' = "QUARANTINED" \/ lifted',
         \A s \in Slots : slot[s].step = "count" => slot'[s] = slot[s]
  PROVE  ThirdIsCounted'
  BY DEF ThirdIsCounted

(* A step that touches neither the contract nor the stream leaves the      *)
(* stream as it was.                                                       *)
LEMMA StreamStays ==
  ASSUME routed' = routed, contract' = contract,
         NothingBarredCrosses, OnlyRequestedFields, AutonomousIsAgreed
  PROVE  StreamGrows /\ NothingBarredCrosses' /\ OnlyRequestedFields' /\ AutonomousIsAgreed'
  BY DEF StreamGrows, NothingBarredCrosses, OnlyRequestedFields, AutonomousIsAgreed

-----------------------------------------------------------------------------
(* The invariant is inductive.                                             *)

(* The invariant holds initially.                                          *)
LEMMA InitHolds == Init => IInv
<1> SUFFICES ASSUME Init
             PROVE  IInv
  OBVIOUS
<1>1. TypeOK
  <2>1. /\ contract \in TaskContract
        /\ policy \in [Participants -> ParticipantPolicy]
    BY GatewayAssumption DEF Init
  <2>2. slot \in [Slots -> Slot]
    BY IdleIsSlot DEF Init
  <2>3. routed \in Seq(Event)
    BY DEF Init
  <2> QED
    BY <2>1, <2>2, <2>3 DEF Init, TypeOK, RoomState
<1>2. SlotsMayCross /\ SendersAreKnown
  BY IdleMayCross DEF Init, SlotsMayCross, SendersAreKnown
<1>3. HeldMayCross /\ NothingBarredCrosses /\ OnlyRequestedFields /\ AutonomousIsAgreed
  BY DEF Init, HeldMayCross, NothingBarredCrosses, OnlyRequestedFields, AutonomousIsAgreed
<1>4. RoomRunsOrStops /\ ThirdIsCounted
  BY DEF Init, RoomRunsOrStops, ThirdIsCounted
<1> QED
  BY <1>1, <1>2, <1>3, <1>4 DEF IInv

(* Every step, of a submission or of a human, keeps the invariant.         *)
LEMMA StepKeeps == IInv /\ [Next]_vars => IInv'
<1> SUFFICES ASSUME IInv, [Next]_vars
             PROVE  IInv'
  OBVIOUS
<1>0. /\ TypeOK /\ SlotsMayCross /\ HeldMayCross
      /\ NothingBarredCrosses /\ OnlyRequestedFields /\ AutonomousIsAgreed
      /\ SendersAreKnown /\ RoomRunsOrStops /\ ThirdIsCounted
  BY DEF IInv
<1>t. /\ room \in RoomState /\ contract \in TaskContract
      /\ policy \in [Participants -> ParticipantPolicy]
      /\ routed \in Seq(Event) /\ held \subseteq Event
      /\ secrets \in [Participants -> Nat] /\ lifted \in BOOLEAN
      /\ slot \in [Slots -> Slot]
  BY <1>0 DEF TypeOK
<1>1. ASSUME NEW s \in Slots, NEW from \in Participants, NEW candidate \in Candidate,
             Submit(s, from, candidate)
      PROVE  IInv'
  <2>1. UNCHANGED <<room, contract, policy, routed, held, secrets, lifted>>
    BY <1>1 DEF Submit
  <2>2. PICK x \in Slot :
          /\ slot' = [slot EXCEPT ![s] = x] /\ slot[s].step = "idle"
          /\ x.step \notin {"idle", "count"} /\ SlotMayCross(x) /\ SenderIsKnown(x)
    BY <1>0, <1>1, SubmitMayCross
  <2>3. StreamGrows /\ NothingBarredCrosses' /\ OnlyRequestedFields' /\ AutonomousIsAgreed'
    BY <1>0, <2>1, StreamStays
  <2>4. slot' \in [Slots -> Slot] /\ SlotsMayCross' /\ SendersAreKnown'
    BY <1>0, <2>1, <2>2, <2>3, SlotStep
  <2>5. HeldMayCross'
    BY <1>0, <1>t, <2>1, <2>3, HeldStays DEF HeldMayCross
  <2>6. ThirdIsCounted'
    BY <1>0, <1>t, <2>1, <2>2, ThirdStays
  <2>7. TypeOK' /\ RoomRunsOrStops'
    BY <1>0, <1>t, <2>1, <2>4 DEF TypeOK, RoomRunsOrStops
  <2> QED
    BY <2>3, <2>4, <2>5, <2>6, <2>7 DEF IInv
<1>2. ASSUME NEW s \in Slots, Route(s)
      PROVE  IInv'
  <2> DEFINE event == slot[s].event[1]
  <2>1. /\ slot[s].step = "route" /\ routed' = Append(routed, event)
        /\ slot' = [slot EXCEPT ![s] = Idle]
        /\ UNCHANGED <<room, contract, policy, held, secrets, lifted>>
    BY <1>2 DEF Route
  <2>2. event \in Event /\ MayCross(event) /\ MeetsAll(event)
    BY <1>0, <1>t, <2>1 DEF SlotsMayCross, SlotMayCross, Slot
  <2> HIDE DEF event
  <2>3. StreamGrows
    BY <2>1, <2>2 DEF StreamGrows
  <2>4. /\ routed' \in Seq(Event)
        /\ NothingBarredCrosses' /\ OnlyRequestedFields' /\ AutonomousIsAgreed'
    BY <1>0, <1>t, <2>1, <2>2, RoutedStays
  <2>5. slot' \in [Slots -> Slot] /\ SlotsMayCross' /\ SendersAreKnown'
    BY <1>0, <2>1, <2>3, SlotStep, IdleMayCross
  <2>6. HeldMayCross'
    BY <1>0, <1>t, <2>1, <2>3, HeldStays DEF HeldMayCross
  <2>7. ThirdIsCounted'
    BY <1>0, <1>t, <2>1, ThirdStays
  <2>8. TypeOK' /\ RoomRunsOrStops'
    BY <1>0, <1>t, <2>1, <2>4, <2>5 DEF TypeOK, RoomRunsOrStops
  <2> QED
    BY <2>4, <2>5, <2>6, <2>7, <2>8 DEF IInv
<1>3. ASSUME NEW s \in Slots, Hold(s)
      PROVE  IInv'
  <2> DEFINE event == slot[s].event[1]
  <2>1. /\ slot[s].step = "hold" /\ held' = held \cup {event}
        /\ slot' = [slot EXCEPT ![s] = Idle]
        /\ UNCHANGED <<room, contract, policy, routed, secrets, lifted>>
    BY <1>3 DEF Hold
  <2>2. event \in Event /\ MayCross(event)
    BY <1>0, <1>t, <2>1 DEF SlotsMayCross, SlotMayCross, Slot
  <2> HIDE DEF event
  <2>3. StreamGrows /\ NothingBarredCrosses' /\ OnlyRequestedFields' /\ AutonomousIsAgreed'
    BY <1>0, <2>1, StreamStays
  <2>4. slot' \in [Slots -> Slot] /\ SlotsMayCross' /\ SendersAreKnown'
    BY <1>0, <2>1, <2>3, SlotStep, IdleMayCross
  <2>5. \A e \in held' : MayCross(e)
    BY <1>0, <2>1, <2>2 DEF HeldMayCross
  <2>6. HeldMayCross'
    BY <1>t, <2>1, <2>3, <2>5, HeldStays
  <2>7. ThirdIsCounted'
    BY <1>0, <1>t, <2>1, ThirdStays
  <2>8. TypeOK' /\ RoomRunsOrStops'
    BY <1>0, <1>t, <2>1, <2>2, <2>4 DEF TypeOK, RoomRunsOrStops
  <2> QED
    BY <2>3, <2>4, <2>6, <2>7, <2>8 DEF IInv
<1>4. ASSUME NEW s \in Slots, Block(s)
      PROVE  IInv'
  <2>1. /\ slot[s].step = "block" /\ slot' = [slot EXCEPT ![s] = Idle]
        /\ UNCHANGED <<room, contract, policy, routed, held, secrets, lifted>>
    BY <1>4 DEF Block
  <2>3. StreamGrows /\ NothingBarredCrosses' /\ OnlyRequestedFields' /\ AutonomousIsAgreed'
    BY <1>0, <2>1, StreamStays
  <2>4. slot' \in [Slots -> Slot] /\ SlotsMayCross' /\ SendersAreKnown'
    BY <1>0, <2>1, <2>3, SlotStep, IdleMayCross
  <2>5. HeldMayCross'
    BY <1>0, <1>t, <2>1, <2>3, HeldStays DEF HeldMayCross
  <2>6. ThirdIsCounted'
    BY <1>0, <1>t, <2>1, ThirdStays
  <2>7. TypeOK' /\ RoomRunsOrStops'
    BY <1>0, <1>t, <2>1, <2>4 DEF TypeOK, RoomRunsOrStops
  <2> QED
    BY <2>3, <2>4, <2>5, <2>6, <2>7 DEF IInv
<1>5. ASSUME NEW s \in Slots, BlockSecret(s)
      PROVE  IInv'
  <2> DEFINE sender == slot[s].sender[1]
             x == [slot[s] EXCEPT !.step = "count"]
  <2>1. /\ slot[s].step = "blockSecret" /\ secrets' = [secrets EXCEPT ![sender] = @ + 1]
        /\ slot' = [slot EXCEPT ![s] = x]
        /\ UNCHANGED <<room, contract, policy, routed, held, lifted>>
    BY <1>5 DEF BlockSecret
  <2>2. /\ x \in Slot /\ x.step = "count" /\ x.sender = slot[s].sender
        /\ Len(slot[s].sender) = 1 /\ sender \in Participants
    <3>1. slot[s] \in Slot
      BY <1>t
    <3>2. slot[s].sender \in Seq(Participants) /\ "count" \in Step
      BY <3>1 DEF Slot, Step
    <3>3. Len(slot[s].sender) = 1
      BY <1>0, <2>1 DEF SendersAreKnown, SenderIsKnown
    <3>4. sender \in Participants
      BY <3>2, <3>3
    <3>5. x \in Slot /\ x.step = "count" /\ x.sender = slot[s].sender
      BY <3>1, <3>2 DEF Slot
    <3> QED
      BY <3>3, <3>4, <3>5
  <2>3. SlotMayCross(x) /\ SenderIsKnown(x)
    BY <2>2 DEF SlotMayCross, SenderIsKnown
  <2> HIDE DEF x
  <2>4. StreamGrows /\ NothingBarredCrosses' /\ OnlyRequestedFields' /\ AutonomousIsAgreed'
    BY <1>0, <2>1, StreamStays
  <2>5. slot' \in [Slots -> Slot] /\ SlotsMayCross' /\ SendersAreKnown'
    BY <1>0, <2>1, <2>2, <2>3, <2>4, SlotStep
  <2>6. HeldMayCross'
    BY <1>0, <1>t, <2>1, <2>4, HeldStays DEF HeldMayCross
  <2>7. /\ secrets' \in [Participants -> Nat] /\ secrets'[sender] = secrets[sender] + 1
        /\ \A p \in Participants : secrets'[p] >= secrets[p]
        /\ \A p \in Participants \ {sender} : secrets'[p] = secrets[p]
    BY <1>t, <2>1, <2>2
  <2>8. ThirdIsCounted'
    <3> SUFFICES ASSUME NEW p \in Participants, secrets'[p] >= 3, room # "QUARANTINED", ~lifted
                 PROVE  \E t \in Slots : slot'[t].step = "count" /\ secrets'[slot'[t].sender[1]] >= 3
      BY <1>t, <2>1 DEF ThirdIsCounted
    <3>1. CASE p = sender
      <4>1. slot'[s].step = "count" /\ slot'[s].sender[1] = sender
        BY <1>t, <2>1, <2>2
      <4> QED
        BY <3>1, <4>1
    <3>2. CASE p # sender
      <4>1. secrets[p] >= 3
        BY <2>7, <3>2
      <4>2. PICK t \in Slots : slot[t].step = "count" /\ secrets[slot[t].sender[1]] >= 3
        BY <1>0, <4>1 DEF ThirdIsCounted
      <4>3. t # s /\ slot'[t] = slot[t]
        BY <1>t, <2>1, <4>2
      <4>4. slot[t].sender[1] \in Participants
        BY <1>0, <1>t, <4>2 DEF SendersAreKnown, SenderIsKnown, Slot
      <4>5. secrets'[slot[t].sender[1]] >= 3
        BY <1>t, <2>7, <4>2, <4>4
      <4> QED
        BY <4>2, <4>3, <4>5
    <3> QED
      BY <3>1, <3>2
  <2>9. TypeOK' /\ RoomRunsOrStops'
    BY <1>0, <1>t, <2>1, <2>5, <2>7 DEF TypeOK, RoomRunsOrStops
  <2> QED
    BY <2>4, <2>5, <2>6, <2>8, <2>9 DEF IInv
<1>6. ASSUME NEW s \in Slots, CountAttempts(s)
      PROVE  IInv'
  <2> DEFINE sender == slot[s].sender[1]
  <2>1. /\ slot[s].step = "count" /\ slot' = [slot EXCEPT ![s] = Idle]
        /\ UNCHANGED <<contract, policy, routed, held, secrets>>
    BY <1>6 DEF CountAttempts
  <2>2. IF secrets[sender] >= 3 /\ CanTransition(room, "QUARANTINED")
        THEN room' = "QUARANTINED" /\ lifted' = FALSE
        ELSE room' = room /\ lifted' = lifted
    BY <1>6 DEF CountAttempts, TooMany
  <2>3. StreamGrows /\ NothingBarredCrosses' /\ OnlyRequestedFields' /\ AutonomousIsAgreed'
    BY <1>0, <2>1, StreamStays
  <2>4. slot' \in [Slots -> Slot] /\ SlotsMayCross' /\ SendersAreKnown'
    BY <1>0, <2>1, <2>3, SlotStep, IdleMayCross
  <2>5. HeldMayCross'
    BY <1>0, <1>t, <2>1, <2>3, HeldStays DEF HeldMayCross
  <2>6. room' \in RoomState /\ lifted' \in BOOLEAN /\ RoomRunsOrStops'
    BY <1>0, <1>t, <2>2 DEF RoomRunsOrStops, RoomState
  <2>7. ThirdIsCounted'
    <3>1. CASE secrets[sender] >= 3
      <4>1. room' = "QUARANTINED"
        BY <1>0, <2>2, <3>1 DEF RoomRunsOrStops, CanTransition, Transitions
      <4> QED
        BY <4>1 DEF ThirdIsCounted
    <3>2. CASE ~(secrets[sender] >= 3)
      <4> SUFFICES ASSUME NEW p \in Participants, secrets[p] >= 3, room # "QUARANTINED", ~lifted
                   PROVE  \E t \in Slots : slot'[t].step = "count" /\ secrets[slot'[t].sender[1]] >= 3
        BY <2>1, <2>2, <3>2 DEF ThirdIsCounted
      <4>1. PICK t \in Slots : slot[t].step = "count" /\ secrets[slot[t].sender[1]] >= 3
        BY <1>0 DEF ThirdIsCounted
      <4>2. t # s
        BY <3>2, <4>1
      <4> QED
        BY <1>t, <2>1, <4>1, <4>2
    <3> QED
      BY <3>1, <3>2
  <2>8. TypeOK'
    BY <1>t, <2>1, <2>4, <2>6 DEF TypeOK
  <2> QED
    BY <2>3, <2>4, <2>5, <2>6, <2>7, <2>8 DEF IInv
<1>7. ASSUME NEW event \in held, Release(event)
      PROVE  IInv'
  <2> DEFINE e == [event EXCEPT !.human = TRUE]
  <2>1. /\ held' = held \ {event} /\ routed' = Append(routed, e)
        /\ UNCHANGED <<room, contract, policy, secrets, lifted, slot>>
    BY <1>7 DEF Release
  <2>2. /\ e \in Event /\ e.human = TRUE /\ e.input = event.input
        /\ e.from = event.from /\ e.fields = event.fields
    BY <1>t DEF Event
  <2> HIDE DEF e
  <2>3. MayCross(event)
    BY <1>0 DEF HeldMayCross
  <2>4. MayCross(e) /\ MeetsAll(e)
    BY <2>2, <2>3 DEF MayCross, Clean, Solicited, MeetsAll
  <2>5. StreamGrows
    BY <2>1, <2>2 DEF StreamGrows
  <2>6. /\ routed' \in Seq(Event)
        /\ NothingBarredCrosses' /\ OnlyRequestedFields' /\ AutonomousIsAgreed'
    BY <1>0, <1>t, <2>1, <2>2, <2>4, RoutedStays
  <2>7. SlotsMayCross' /\ SendersAreKnown'
    BY <1>0, <1>t, <2>1, <2>5, SlotsStay
  <2>8. HeldMayCross'
    BY <1>0, <1>t, <2>1, <2>5, HeldStays DEF HeldMayCross
  <2>9. ThirdIsCounted'
    BY <1>0, <2>1, ThirdStays
  <2>10. TypeOK' /\ RoomRunsOrStops'
    BY <1>0, <1>t, <2>1, <2>6 DEF TypeOK, RoomRunsOrStops
  <2> QED
    BY <2>6, <2>7, <2>8, <2>9, <2>10 DEF IInv
<1>8. ASSUME UNCHANGED <<contract, routed, secrets, slot>>, held' \subseteq held,
             policy' \in [Participants -> ParticipantPolicy],
             room' \in {"ACTIVE", "PAUSED", "QUARANTINED"}, lifted' \in BOOLEAN,
             room = "QUARANTINED" \/ lifted => room' = "QUARANTINED" \/ lifted'
      PROVE  IInv'
  <2>1. StreamGrows /\ NothingBarredCrosses' /\ OnlyRequestedFields' /\ AutonomousIsAgreed'
    BY <1>0, <1>8, StreamStays
  <2>2. SlotsMayCross' /\ SendersAreKnown'
    BY <1>0, <1>t, <1>8, <2>1, SlotsStay
  <2>3. HeldMayCross'
    BY <1>0, <1>t, <1>8, <2>1, HeldStays DEF HeldMayCross
  <2>4. ThirdIsCounted'
    BY <1>0, <1>8, ThirdStays
  <2>5. TypeOK' /\ RoomRunsOrStops'
    BY <1>t, <1>8 DEF TypeOK, RoomRunsOrStops, RoomState
  <2> QED
    BY <2>1, <2>2, <2>3, <2>4, <2>5 DEF IInv
<1>9. ASSUME NEW event \in held, Refuse(event)
      PROVE  IInv'
  BY <1>0, <1>t, <1>8, <1>9 DEF Refuse, RoomRunsOrStops
<1>10. ASSUME NEW p \in Participants, NEW new \in Policies, SetParticipantPolicy(p, new)
       PROVE  IInv'
  <2>1. new \in ParticipantPolicy
    BY GatewayAssumption
  <2>2. policy' \in [Participants -> ParticipantPolicy]
    BY <1>t, <1>10, <2>1 DEF SetParticipantPolicy
  <2> QED
    BY <1>0, <1>t, <1>8, <1>10, <2>2 DEF SetParticipantPolicy, RoomRunsOrStops
<1>11. ASSUME NEW to \in RoomState, MoveRoom(to)
       PROVE  IInv'
  <2>1. /\ room' \in {"ACTIVE", "PAUSED", "QUARANTINED"} /\ lifted' \in BOOLEAN
        /\ room = "QUARANTINED" \/ lifted => lifted'
        /\ UNCHANGED <<contract, policy, routed, held, secrets, slot>>
    BY <1>t, <1>11 DEF MoveRoom
  <2> QED
    BY <1>t, <1>8, <2>1
<1>12. ASSUME UNCHANGED vars
       PROVE  IInv'
  BY <1>0, <1>t, <1>8, <1>12 DEF vars, RoomRunsOrStops
<1> QED
  BY <1>1, <1>2, <1>3, <1>4, <1>5, <1>6, <1>7, <1>9, <1>10, <1>11, <1>12 DEF Next

(* The invariant holds for every set of participants, policies and         *)
(* contracts, every detector, and every number of submissions in flight.   *)
THEOREM InvariantHolds == Spec => []IInv
  BY InitHolds, StepKeeps, PTL DEF Spec

(* Nothing that may never be disclosed, and nothing that the contract      *)
(* forbids, enters the stream: not under any policy, not by the approval   *)
(* of a human, not by a race with a change of policy or a pause.           *)
THEOREM NothingBarred == Spec => []NothingBarredCrosses
<1>1. IInv => NothingBarredCrosses
  BY DEF IInv
<1> QED
  BY <1>1, InvariantHolds, PTL

(* Answers stay within what the peer has asked for.                        *)
THEOREM AnswersAreAskedFor == Spec => []OnlyRequestedFields
<1>1. IInv => OnlyRequestedFields
  BY DEF IInv
<1> QED
  BY <1>1, InvariantHolds, PTL

(* The first-applicable table lets through, without a human, only what     *)
(* every layer by itself would let through.                                *)
THEOREM AutonomyIsAgreed == Spec => []AutonomousIsAgreed
<1>1. IInv => AutonomousIsAgreed
  BY DEF IInv
<1> QED
  BY <1>1, InvariantHolds, PTL

(* The third secret of a sender stops the room until a human resumes it,   *)
(* with any number of submissions in flight.                               *)
THEOREM ThirdSecretStopsRoom == Spec => []ThirdSecretStops
<1>1. IInv => ThirdSecretStops
  BY DEF IInv, ThirdIsCounted, ThirdSecretStops, Routing
<1> QED
  BY <1>1, InvariantHolds, PTL
=============================================================================
