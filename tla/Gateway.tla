------------------------------- MODULE Gateway -------------------------------
(***************************************************************************)
(* The event pipeline, the only way of agent content into a room           *)
(* (packages/core/src/pipeline.ts): filter, classify (packages/dlp),       *)
(* decide (module PolicyEngine), and then route, hold for a human, or      *)
(* block and count; with the humans who release what is held, change their *)
(* policy, pause and resume.                                               *)
(*                                                                         *)
(* A submission reads everything it needs and then writes: between the two *)
(* anything may happen, and every element of Slots is a submission in      *)
(* flight.  The contract cannot change in a room that has been READY.  How *)
(* the decision of an approval races is the subject of module Approvals,   *)
(* how room rows race that of RoomSetup and RoomExecution; both are one    *)
(* action here.                                                            *)
(***************************************************************************)
EXTENDS PolicyEngine, FiniteSets

LOCAL INSTANCE FiniteSetsExt

CONSTANTS Participants,  \* the two participants
          Policies,      \* the policies they may set
          Contracts,     \* the contracts they may agree on
          Fields,        \* names of data, and pieces of text
          Found,         \* the categories that the detectors find in a set of fields
          Declared,      \* the classifications that agents declare
          Slots,         \* submissions in flight at the same time
          MaxEvents,     \* bound on the events routed or held
          MaxTotal       \* bound on these and on the secrets blocked, together

Classification == [categories : SUBSET Categories, sensitivity : Sensitivity]

ASSUME GatewayAssumption ==
  /\ Policies \subseteq ParticipantPolicy /\ Contracts \subseteq TaskContract
  /\ Found \in [SUBSET Fields -> SUBSET Categories]
  /\ Declared \subseteq Classification
  /\ MaxEvents \in Nat /\ MaxTotal \in Nat

VARIABLES
  room,      \* rooms.state
  contract,  \* the latest contract, which both have approved
  policy,    \* the participants' policies
  routed,    \* the agent events of the stream, in order
  held,      \* the approvals that are PENDING
  secrets,   \* the policy_block events with rule platform.secret_disclosure, by sender
  lifted,    \* history: a human has taken the room out of quarantine
  slot       \* the submissions in flight

vars == <<room, contract, policy, routed, held, secrets, lifted, slot>>

-----------------------------------------------------------------------------
(* What an agent hands in.  `request` is the position of the data_request  *)
(* that a data_response answers.                                           *)
Candidate ==
  [type : EventType, fields : SUBSET Fields, action : Actions, request : 1..MaxEvents,
   declared : Declared]

(* An event of the stream or held for it, with what it was decided on.     *)
Event == [from : Participants, fields : SUBSET Fields, input : PolicyInput,
          under : ParticipantPolicy, human : BOOLEAN]

Step == {"idle", "route", "hold", "block", "blockSecret", "count"}

(* What a submission carries to its next write: the event, or the sender   *)
(* whose secret was blocked.                                               *)
Slot == [step : Step, event : Seq(Event), sender : Seq(Participants)]

Idle == [step |-> "idle", event |-> <<>>, sender |-> <<>>]

TypeOK ==
  /\ room \in RoomState
  /\ contract \in TaskContract
  /\ policy \in [Participants -> ParticipantPolicy]
  /\ routed \in Seq(Event)
  /\ held \subseteq Event
  /\ secrets \in [Participants -> Nat]
  /\ lifted \in BOOLEAN
  /\ slot \in [Slots -> Slot]

Init ==
  /\ room = "ACTIVE"
  /\ contract \in Contracts
  /\ policy \in [Participants -> Policies]
  /\ routed = <<>>
  /\ held = {}
  /\ secrets = [p \in Participants |-> 0]
  /\ lifted = FALSE
  /\ slot = [s \in Slots |-> Idle]

-----------------------------------------------------------------------------
(* Structural filter: a data_response carries fields that the other asked  *)
(* for in the request that it names, and is rejected when there is none.   *)

(* Seeded fault: a request of one's own will do.                           *)
AnswersAnyone(from, candidate) ==
  /\ candidate.request \in 1..Len(routed)
  /\ routed[candidate.request].input.type = "data_request"

Answers(from, candidate) ==
  /\ candidate.request \in 1..Len(routed)
  /\ routed[candidate.request].input.type = "data_request"
  /\ routed[candidate.request].from # from

Filtered(candidate) ==
  IF candidate.type = "data_response"
  THEN candidate.fields \cap routed[candidate.request].fields
  ELSE candidate.fields

(* runDlp: a request names fields and does not contain them.  Declared     *)
(* labels are added to what is found; a secret is SECRET, and the rest is  *)
(* at least INTERNAL.                                                      *)
FoundIn(type, fields) == IF type = "data_request" THEN {} ELSE Found[fields]

HasSecret(categories) == categories \cap HardDenyCategories # {}

LevelOf(found, level) == IF HasSecret(found) THEN 4 ELSE IF level > 1 THEN level ELSE 1

Input(from, candidate) ==
  LET found == FoundIn(candidate.type, Filtered(candidate)) IN
  [state       |-> room,
   type        |-> candidate.type,
   categories  |-> found \cup candidate.declared.categories,
   sensitivity |-> LevelOf(found, candidate.declared.sensitivity),
   action      |-> candidate.action,
   secret      |-> HasSecret(found)]

Crossing == Len(routed) + Cardinality(held)

Blocked == MapThenSumSet(LAMBDA p : secrets[p], Participants)

(* submitCandidateEvent, up to its first write.                            *)
Decided(decision, event) ==
  CASE decision = "allow"            -> [Idle EXCEPT !.step = "route", !.event = <<event>>]
    [] decision = "require_approval" -> [Idle EXCEPT !.step = "hold", !.event = <<event>>]
    [] decision = "deny" ->
         IF event.input.secret THEN [Idle EXCEPT !.step = "blockSecret", !.sender = <<event.from>>]
         ELSE [Idle EXCEPT !.step = "block"]

Submit(s, from, candidate) ==
  LET input == Input(from, candidate)
      event == [from |-> from, fields |-> Filtered(candidate), input |-> input,
                under |-> policy[from], human |-> FALSE]
  IN
  /\ slot[s].step = "idle"
  /\ Crossing < MaxEvents /\ Crossing + Blocked < MaxTotal
  /\ IF candidate.type = "data_response" THEN Answers(from, candidate) ELSE candidate.request = 1
  /\ slot' = [slot EXCEPT ![s] = Decided(evaluate(input, policy[from], contract), event)]
  /\ UNCHANGED <<room, contract, policy, routed, held, secrets, lifted>>

(* persistAllowedEvent.                                                    *)
Route(s) ==
  /\ slot[s].step = "route"
  /\ routed' = Append(routed, slot[s].event[1])
  /\ slot' = [slot EXCEPT ![s] = Idle]
  /\ UNCHANGED <<room, contract, policy, held, secrets, lifted>>

(* handleRequiresApproval.                                                 *)
Hold(s) ==
  /\ slot[s].step = "hold"
  /\ held' = held \cup {slot[s].event[1]}
  /\ slot' = [slot EXCEPT ![s] = Idle]
  /\ UNCHANGED <<room, contract, policy, routed, secrets, lifted>>

(* handleDenied.  Only the block of a secret is counted.                   *)
Block(s) ==
  /\ slot[s].step = "block"
  /\ slot' = [slot EXCEPT ![s] = Idle]
  /\ UNCHANGED <<room, contract, policy, routed, held, secrets, lifted>>

BlockSecret(s) ==
  /\ slot[s].step = "blockSecret"
  /\ secrets' = [secrets EXCEPT ![slot[s].sender[1]] = @ + 1]
  /\ slot' = [slot EXCEPT ![s].step = "count"]
  /\ UNCHANGED <<room, contract, policy, routed, held, lifted>>

(* Seeded fault: off by one.                                               *)
MoreThanThree(attempts) == attempts > 3

TooMany(attempts) == attempts >= 3

(* quarantineRoom, from any state that allows it.                          *)
CountAttempts(s) ==
  /\ slot[s].step = "count"
  /\ IF TooMany(secrets[slot[s].sender[1]]) /\ CanTransition(room, "QUARANTINED")
     THEN room' = "QUARANTINED" /\ lifted' = FALSE
     ELSE UNCHANGED <<room, lifted>>
  /\ slot' = [slot EXCEPT ![s] = Idle]
  /\ UNCHANGED <<contract, policy, routed, held, secrets>>

-----------------------------------------------------------------------------
(* Humans.                                                                 *)

(* decideApproval: policy is not asked again, the detectors are.  What is  *)
(* refused or rejected is not held any more.                               *)
Release(event) ==
  /\ event \in held
  /\ ~HasSecret(FoundIn(event.input.type, event.fields))
  /\ held' = held \ {event}
  /\ routed' = Append(routed, [event EXCEPT !.human = TRUE])
  /\ UNCHANGED <<room, contract, policy, secrets, lifted, slot>>

Refuse(event) ==
  /\ event \in held
  /\ held' = held \ {event}
  /\ UNCHANGED <<room, contract, policy, routed, secrets, lifted, slot>>

(* setParticipantPolicy.                                                   *)
SetParticipantPolicy(p, new) ==
  /\ room \in {"PAUSED", "QUARANTINED"}
  /\ policy' = [policy EXCEPT ![p] = new]
  /\ UNCHANGED <<room, contract, routed, held, secrets, lifted, slot>>

(* pauseRoom and resumeRoom.                                               *)
MoveRoom(to) ==
  /\ to \in {"PAUSED", "ACTIVE"}
  /\ CanTransition(room, to)
  /\ room' = to
  /\ lifted' = (lifted \/ room = "QUARANTINED")
  /\ UNCHANGED <<contract, policy, routed, held, secrets, slot>>

Next ==
  \/ \E s \in Slots :
       \/ \E from \in Participants, candidate \in Candidate : Submit(s, from, candidate)
       \/ Route(s) \/ Hold(s) \/ Block(s) \/ BlockSecret(s) \/ CountAttempts(s)
  \/ \E event \in held : Release(event) \/ Refuse(event)
  \/ \E p \in Participants, new \in Policies : SetParticipantPolicy(p, new)
  \/ \E to \in RoomState : MoveRoom(to)

Spec == Init /\ [][Next]_vars

-----------------------------------------------------------------------------
(* Properties.                                                             *)

(* Nothing of a category that may never be disclosed, found or declared,   *)
(* and nothing of a class that the contract forbids, reaches the peer:     *)
(* with whatever policy, and not through a human's approval either.        *)
NothingBarredCrosses ==
  \A i \in 1..Len(routed) :
    /\ ~routed[i].input.secret
    /\ routed[i].input.categories \cap (HardDenyCategories \cup contract.forbiddenDataClasses) = {}

(* A data_response, held or not, says only what the peer has asked for in  *)
(* an earlier request.                                                     *)
OnlyRequestedFields ==
  \A i \in 1..Len(routed) : routed[i].input.type = "data_response" =>
    \E j \in 1..(i-1) :
      /\ routed[j].input.type = "data_request" /\ routed[j].from # routed[i].from
      /\ routed[i].fields \subseteq routed[j].fields

(* What crosses without a human meets every layer, floors, contract and    *)
(* the sender's policy, whatever the order in which the engine asks them.  *)
AutonomousIsAgreed ==
  \A i \in 1..Len(routed) : ~routed[i].human =>
    Autonomous(routed[i].input, routed[i].under, contract)

(* After the third secret of a sender the room does not run, until a human *)
(* lets it; and then the next secret stops it again.                       *)
ThirdSecretStops ==
  (\E p \in Participants : secrets[p] >= 3) /\ (\A s \in Slots : slot[s].step = "idle") =>
    room \notin Routing \/ lifted

-----------------------------------------------------------------------------
(* The inductive invariant: what is decided stays right until it is        *)
(* written, because the contract does not change and the stream only grows.*)

Clean(event) ==
  /\ ~event.input.secret
  /\ event.input.categories \cap (HardDenyCategories \cup contract.forbiddenDataClasses) = {}

(* One of the first n events of the stream asked for it.                   *)
Solicited(event, n) ==
  event.input.type = "data_response" =>
    \E j \in 1..n :
      /\ routed[j].input.type = "data_request" /\ routed[j].from # event.from
      /\ event.fields \subseteq routed[j].fields

MayCross(event) == Clean(event) /\ Solicited(event, Len(routed))

MeetsAll(event) == event.human \/ Autonomous(event.input, event.under, contract)

SlotMayCross(x) ==
  x.step \in {"route", "hold"} =>
    /\ Len(x.event) = 1
    /\ MayCross(x.event[1])
    /\ x.step = "route" => MeetsAll(x.event[1])

SlotsMayCross == \A s \in Slots : SlotMayCross(slot[s])

HeldMayCross == \A event \in held : MayCross(event)

SenderIsKnown(x) == x.step \in {"blockSecret", "count"} => Len(x.sender) = 1

SendersAreKnown == \A s \in Slots : SenderIsKnown(slot[s])

RoomRunsOrStops == room \in {"ACTIVE", "PAUSED", "QUARANTINED"}

(* The third secret stops the room, or is about to.                        *)
ThirdIsCounted ==
  (\E p \in Participants : secrets[p] >= 3) =>
    \/ room = "QUARANTINED" \/ lifted
    \/ \E s \in Slots : slot[s].step = "count" /\ secrets[slot[s].sender[1]] >= 3

IInv ==
  /\ TypeOK
  /\ SlotsMayCross /\ HeldMayCross
  /\ NothingBarredCrosses /\ OnlyRequestedFields /\ AutonomousIsAgreed
  /\ SendersAreKnown /\ RoomRunsOrStops /\ ThirdIsCounted
=============================================================================
