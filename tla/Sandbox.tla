------------------------------- MODULE Sandbox -------------------------------
(***************************************************************************)
(* Two sandbox agents (packages/agents/src/heuristic.ts) in a room set up  *)
(* from a template, with everything between them: what the orchestrator    *)
(* tells an agent and whose turn it gives (orchestrator.ts), the runtime   *)
(* that drives the turns (runtime.ts), the policy that allows, holds or    *)
(* refuses what the agents hand in and its effect on the room              *)
(* (pipeline.ts), and the humans who decide what is held (approvals.ts),   *)
(* post in their agent's name, pause, resume and step.                     *)
(*                                                                         *)
(* The composition of modules Runtime, Gateway, Approvals and              *)
(* RoomExecution, seen from the agents: here the stream has contents, an   *)
(* agent answers what it reads, and the question is whether the two get    *)
(* anywhere.  In turn the details that those modules are about are one     *)
(* action here: the poll reads the stream and the approvals at once, and a *)
(* submission reads the room and makes its first write at once.            *)
(*                                                                         *)
(* Every turn of one drive is several actions: the input is built, the     *)
(* agent's answer is submitted, it takes effect, the drive looks back.     *)
(***************************************************************************)
EXTENDS RoomStates, Templates, Integers, SequencesExt, FiniteSetsExt

CONSTANTS Chosen,          \* the templates that rooms are made from
          Window,          \* events that an agent is shown
          TurnsPerPickup,  \* maxTurnsPerPickup
          MaxTurns,        \* budget.maxTurns
          Settings,        \* rules and ceilings that an organisation may set for what its
                           \* agent discloses
          MaxIncidents     \* bound on what is rejected, posted and stepped by hand, on
                           \* pauses, resumes, approvals that lapse, and restarts, and on
                           \* drives that overlap a decision, together

Engine == INSTANCE PolicyEngine
            WITH Categories <- DATA_CATEGORIES, HardDenyCategories <- HARD_DENY_CATEGORIES,
                 Actions <- COMMON_ACTIONS

ASSUME SandboxAssumption ==
  /\ Chosen \subseteq ROOM_TEMPLATES
  /\ Window \in Nat \ {0} /\ TurnsPerPickup \in Nat \ {0} /\ MaxTurns \in Nat \ {0}
  /\ Settings \subseteq [rule : Engine!DisclosureRule, ceiling : Engine!Sensitivity]
  /\ MaxIncidents \in Nat

VARIABLES
  task,      \* what was agreed: the number of criteria, and what policy says of a type
  room,      \* rooms.state
  turns,     \* usage.turns
  stream,    \* the room's events
  evidenced, \* the criteria that are no longer PENDING
  held,      \* the bodies of the approvals that are PENDING
  call,      \* the request of a human that is on its way: the release of a body, a post
  drive,     \* the call of driveRoom
  quiesced,  \* the marker: length of the stream when the room went idle; -1 when unset
  incidents, \* number of these so far
  hasty,     \* history: turns begun while an approval was undecided or on its way,
             \* and effects lost in a restart
  lost       \* history: a proposal that a human posted too early, or that came while
             \* the room was paused, had no effect; the marker passed an event that no
             \* turn has read; or a human changed something without an event

sandboxVars == <<task, room, turns, stream, evidenced, held, call, drive, quiesced,
                 incidents, hasty, lost>>

-----------------------------------------------------------------------------
Role == {"customer", "provider"}

Other(role) == IF role = "customer" THEN "provider" ELSE "customer"

RequestType  == {"data_request", "clarification_request"}
ResponseType == {"data_response", "clarification_response"}

AgentType ==
  RequestType \cup ResponseType \cup {"message", "evidence_submission", "completion_proposal"}

(* Everything the platform itself appends.                                 *)
Notice == {"policy_block", "approval_request", "action_rejected", "action_authorized",
           "completion_rejection", "room_pause"}

(* `about`: the place in the stream of the request that is answered, or    *)
(* the criterion; for what a human wrote, a number of its own.             *)
RoomEvent == [from : Role \cup {"platform"}, type : AgentType \cup Notice, about : Int]

Body(from, type, about) == [from |-> from, type |-> type, about |-> about]

Say(type) == Body("platform", type, 0)

NoDrive == [step |-> "free", turn |-> 0, idle |-> 0, before |-> 0, seen |-> 0,
            last |-> "nobody", answer |-> <<>>]

Drive == [step : {"free", "turn", "submit", "effect", "check", "finish"},
          turn : 0..TurnsPerPickup, idle : 0..2, before : Nat, seen : Nat,
          last : Role \cup {"nobody"}, answer : Seq(RoomEvent)]

NoCall == [step |-> "none", body |-> <<>>]

SandboxTypeOK ==
  /\ task.criteria \in 1..3 /\ task.verdict \in [Role -> [AgentType -> Engine!Decision]]
  /\ room \in {"ACTIVE", "PAUSED", "COMPLETION_PROPOSED"}
  /\ turns \in 0..MaxTurns
  /\ stream \in Seq(RoomEvent) /\ held \in Seq(RoomEvent)
  /\ evidenced \subseteq 1..task.criteria
  /\ call \in [step : {"none", "persist", "effect"}, body : Seq(RoomEvent)]
  /\ drive \in Drive
  /\ quiesced \in Nat \cup {-1}
  /\ incidents \in 0..MaxIncidents
  /\ hasty \in Nat /\ lost \in BOOLEAN

-----------------------------------------------------------------------------
(* What the policy engine says of the agents' events while the room runs:  *)
(* an answer is declared CONFIDENTIAL, evidence INTERNAL, both as metadata *)
(* of the infrastructure; nothing is found in the rest.                    *)
Categories(type) ==
  IF type \in {"data_response", "evidence_submission"} THEN {"infrastructure_metadata"} ELSE {}

Input(type) ==
  [state       |-> "ACTIVE",
   type        |-> IF type \in BASE_EVENT_TYPES THEN type ELSE "message",
   categories  |-> Categories(type),
   sensitivity |-> IF type = "data_response" THEN CONFIDENTIAL ELSE 1,
   action      |-> "read_inventory",
   secret      |-> FALSE]

Verdicts(policy, contract) ==
  [type \in AgentType |-> Engine!evaluate(Input(type), policy, contract)]

EditedPolicies(policy) ==
  {EditCeiling(EditRule(policy, "infrastructure_metadata", s.rule), s.ceiling) : s \in Settings}

SandboxInit ==
  /\ \E t \in Chosen :
       \E customers \in EditedPolicies(TemplatePolicy(t)),
          providers \in EditedPolicies(MirroredPolicy(ContractOf(t))) :
         task = [criteria |-> t.criteria,
                 verdict  |-> [customer |-> Verdicts(customers, ContractOf(t)),
                               provider |-> Verdicts(providers, ContractOf(t))]]
  /\ room = "ACTIVE" /\ turns = 0
  /\ stream = <<>> /\ evidenced = {} /\ held = <<>>
  /\ call = NoCall /\ drive = NoDrive
  /\ quiesced = -1
  /\ incidents = 0
  /\ hasty = 0 /\ lost = FALSE

-----------------------------------------------------------------------------
(* buildTurnInput.  Both participants see every event: it is theirs, or    *)
(* for the other of two, or for all.                                       *)
recentEvents == {i \in DOMAIN stream : i > Len(stream) - Window}

(* Seeded fault: clarifications are not looked for.                        *)
AnsweredData == {stream[i].about : i \in {j \in DOMAIN stream : stream[j].type = "data_response"}}

Answered == {stream[i].about : i \in {j \in DOMAIN stream : stream[j].type \in ResponseType}}

pendingRequests(role) ==
  {i \in DOMAIN stream :
     stream[i].type \in RequestType /\ stream[i].from = Other(role) /\ i \notin Answered}

(* The oldest of them, if it is of that type.                              *)
HeadIs(role, type) ==
  pendingRequests(role) # {} /\ stream[Min(pendingRequests(role))].type = type

hasSent(role, type) ==
  \E i \in recentEvents : stream[i].from = role /\ stream[i].type = type

Unevidenced == (1..task.criteria) \ evidenced

Reply(role, type) == <<Body(role, type, Min(pendingRequests(role)))>>

(* executeTurn: at most one event, a function of the input alone.          *)
customerTurn ==
  CASE HeadIs("customer", "data_request")   -> Reply("customer", "data_response")
    [] ~HeadIs("customer", "data_request") /\ ~hasSent("customer", "data_request")
         -> <<Body("customer", "data_request", 0)>>
    [] ~HeadIs("customer", "data_request") /\ hasSent("customer", "data_request")
       /\ Unevidenced = {} /\ ~hasSent("customer", "message")
         -> <<Body("customer", "message", 0)>>
    [] OTHER -> <<>>

providerTurn ==
  CASE HeadIs("provider", "data_request")          -> Reply("provider", "data_response")
    [] HeadIs("provider", "clarification_request") -> Reply("provider", "clarification_response")
    [] pendingRequests("provider") = {} /\ Unevidenced # {}
         -> <<Body("provider", "evidence_submission", Min(Unevidenced))>>
    [] pendingRequests("provider") = {} /\ Unevidenced = {}
       /\ ~hasSent("provider", "completion_proposal")
         -> <<Body("provider", "completion_proposal", 0)>>
    [] OTHER -> <<>>

executeTurn(role) == IF role = "customer" THEN customerTurn ELSE providerTurn

-----------------------------------------------------------------------------
FromAgents == SelectSeq(stream, LAMBDA e : e.from \in Role)

(* Seeded fault: the turn goes to whoever did not speak last.              *)
nextParticipantByEvent(last) ==
  IF FromAgents = <<>> THEN "customer" ELSE Other(Last(FromAgents).from)

(* nextParticipant: whoever did not run last, and in a drive's first turn  *)
(* whoever did not speak last.                                             *)
nextParticipant(last) ==
  IF last # "nobody" THEN Other(last)
  ELSE IF FromAgents = <<>> THEN "customer" ELSE Other(Last(FromAgents).from)

(* loopDetected: three equal bodies among the agents' last eight.          *)
loopDetected ==
  LET lately == {i \in DOMAIN FromAgents : i > Len(FromAgents) - 8}
  IN \E i \in lately :
       Cardinality({j \in lately : FromAgents[j].type = FromAgents[i].type
                                   /\ FromAgents[j].about = FromAgents[i].about}) >= 3

-----------------------------------------------------------------------------
DriveAt(step) == drive.step = step
DriveTo(step) == drive' = [drive EXCEPT !.step = step]

(* What the drive itself appends needs no turn of its own.                 *)
Wrote(step) == [drive EXCEPT !.step = step, !.seen = @ + Len(stream') - Len(stream)]

Incident == incidents < MaxIncidents /\ incidents' = incidents + 1

Overlap(with) == IF with THEN Incident ELSE UNCHANGED incidents

(* scan(): a running room whose stream has grown is parked when a human is *)
(* asked, and driven when not.                                             *)
Scan ==
  /\ DriveAt("free")
  /\ room \in Routing
  /\ quiesced # Len(stream)
  /\ Overlap(call # NoCall)
  /\ IF held # <<>>
     THEN quiesced' = Len(stream) /\ UNCHANGED drive
     ELSE DriveTo("turn") /\ UNCHANGED quiesced
  /\ UNCHANGED <<task, room, turns, stream, evidenced, held, call, hasty, lost>>

(* POST /step: runOnce.                                                    *)
RunOnce ==
  /\ DriveAt("free")
  /\ room \in Routing
  /\ Incident
  /\ DriveTo("turn")
  /\ UNCHANGED <<task, room, turns, stream, evidenced, held, call, quiesced, hasty, lost>>

(* Seeded fault: the budget is looked at one turn late.                    *)
RunTurnLate ==
  LET role == nextParticipant(drive.last) IN
  /\ DriveAt("turn")
  /\ drive.turn < TurnsPerPickup /\ room \in Routing
  /\ turns <= MaxTurns /\ ~loopDetected
  /\ turns' = turns + 1
  /\ drive' = [drive EXCEPT !.step = "submit", !.last = role, !.answer = executeTurn(role),
                            !.before = Len(stream), !.seen = Len(stream)]
  /\ UNCHANGED <<task, room, stream, evidenced, held, call, quiesced, incidents, hasty, lost>>

(* driveRoom's loop and runTurn, up to what the agent answers.             *)
RunTurn ==
  LET role == nextParticipant(drive.last) IN
  /\ DriveAt("turn")
  /\ drive.turn < TurnsPerPickup /\ room \in Routing
  /\ turns < MaxTurns /\ ~loopDetected
  /\ turns' = turns + 1
  /\ drive' = [drive EXCEPT !.step = "submit", !.last = role, !.answer = executeTurn(role),
                            !.before = Len(stream), !.seen = Len(stream)]
  /\ hasty' = hasty + (IF held # <<>> \/ call # NoCall THEN 1 ELSE 0)
  /\ UNCHANGED <<task, room, stream, evidenced, held, call, quiesced, incidents, lost>>

(* The limit is reached, or the room does not run; or pauseForBudget.      *)
RefuseTurn ==
  /\ DriveAt("turn")
  /\ \/ /\ drive.turn = TurnsPerPickup \/ room \notin Routing
        /\ UNCHANGED <<room, stream>>
     \/ /\ drive.turn < TurnsPerPickup /\ room \in Routing
        /\ turns >= MaxTurns \/ loopDetected
        /\ IF room = "ACTIVE"
           THEN room' = "PAUSED" /\ stream' = Append(stream, Say("room_pause"))
           ELSE UNCHANGED <<room, stream>>
  /\ drive' = Wrote("finish")
  /\ UNCHANGED <<task, turns, evidenced, held, call, quiesced, incidents, hasty, lost>>

-----------------------------------------------------------------------------
(* submitCandidateEvent: refused, held for a human, or persisted.          *)
Decision(body) == IF room \in Routing THEN task.verdict[body.from][body.type] ELSE "deny"

Submitted(body) ==
  /\ stream' = Append(stream,
       CASE Decision(body) = "deny"             -> Say("policy_block")
         [] Decision(body) = "require_approval" -> Say("approval_request")
         [] Decision(body) = "allow"            -> body)
  /\ held' = IF Decision(body) = "require_approval" THEN Append(held, body) ELSE held

(* applySideEffects: evidence changes its criterion, a proposal the room   *)
(* if it is ACTIVE and nothing is PENDING.                                 *)
SideEffects(body) ==
  LET proposed == body.type = "completion_proposal"
      accepted == proposed /\ Unevidenced = {}
  IN
  /\ evidenced' = IF body.type = "evidence_submission" THEN evidenced \cup {body.about}
                  ELSE evidenced
  /\ stream' = IF proposed /\ ~accepted THEN Append(stream, Say("completion_rejection"))
               ELSE stream
  /\ room' = IF accepted /\ room = "ACTIVE" THEN "COMPLETION_PROPOSED" ELSE room
  /\ lost' = (lost \/ (accepted /\ room \notin Routing)
                   \/ (proposed /\ ~accepted /\ body.about # 0))

Submit ==
  /\ DriveAt("submit")
  /\ IF drive.answer = <<>>
     THEN DriveTo("check") /\ UNCHANGED <<stream, held>>
     ELSE /\ Submitted(drive.answer[1])
          /\ drive' = Wrote(IF Decision(drive.answer[1]) = "allow" THEN "effect" ELSE "check")
  /\ UNCHANGED <<task, room, turns, evidenced, call, quiesced, incidents, hasty, lost>>

Effect ==
  /\ DriveAt("effect")
  /\ SideEffects(drive.answer[1])
  /\ drive' = Wrote("check")
  /\ UNCHANGED <<task, turns, held, call, quiesced, incidents, hasty>>

(* After the turn: stop for a human, or when both had nothing to say.      *)
Check ==
  LET idle == IF Len(stream) = drive.before THEN drive.idle + 1 ELSE 0 IN
  /\ DriveAt("check")
  /\ drive' = IF held # <<>> \/ idle >= 2
              THEN [drive EXCEPT !.step = "finish"]
              ELSE [drive EXCEPT !.step = "turn", !.idle = idle, !.turn = drive.turn + 1]
  /\ UNCHANGED <<task, room, turns, stream, evidenced, held, call, quiesced, incidents,
                 hasty, lost>>

(* The finally block: the marker is set to the last event there is now,    *)
(* whether or not a turn has read it.                                      *)
Finish ==
  /\ DriveAt("finish")
  /\ quiesced' = Len(stream)
  /\ lost' = (lost \/ Len(stream) > drive.seen \/ drive.turn = TurnsPerPickup)
  /\ drive' = NoDrive
  /\ UNCHANGED <<task, room, turns, stream, evidenced, held, call, incidents, hasty>>

DriveNext == RunTurn \/ RefuseTurn \/ Submit \/ Effect \/ Check \/ Finish

-----------------------------------------------------------------------------
(* Humans.                                                                 *)

(* decideApproval.  The claim comes before the release, and nobody asks    *)
(* for the state of the room.                                              *)
Approve(i) ==
  /\ call = NoCall
  /\ Overlap(~DriveAt("free"))
  /\ held' = RemoveAt(held, i)
  /\ call' = [step |-> "persist", body |-> <<held[i]>>]
  /\ UNCHANGED <<task, room, turns, stream, evidenced, drive, quiesced, hasty, lost>>

Release ==
  /\ call.step = "persist"
  /\ stream' = stream \o call.body \o <<Say("action_authorized")>>
  /\ call' = [call EXCEPT !.step = "effect"]
  /\ UNCHANGED <<task, room, turns, evidenced, held, drive, quiesced, incidents, hasty, lost>>

CallEffect ==
  /\ call.step = "effect"
  /\ SideEffects(call.body[1])
  /\ call' = NoCall
  /\ UNCHANGED <<task, turns, held, drive, quiesced, incidents, hasty>>

Reject(i) ==
  /\ Incident
  /\ held' = RemoveAt(held, i)
  /\ stream' = Append(stream, Say("action_rejected"))
  /\ UNCHANGED <<task, room, turns, evidenced, call, drive, quiesced, hasty, lost>>

(* POST .../participants/:id/events, in the name of one's own participant. *)
Post(role, type) ==
  LET body == Body(role, type, -1 - incidents) IN
  /\ Incident
  /\ call = NoCall
  /\ Submitted(body)
  /\ call' = IF Decision(body) = "allow" THEN [step |-> "effect", body |-> <<body>>] ELSE NoCall
  /\ UNCHANGED <<task, room, turns, evidenced, drive, quiesced, hasty, lost>>

(* pauseRoom and resumeRoom add no event, and neither does an approval     *)
(* that is decided too late.                                               *)
Disturb ==
  /\ \/ Incident /\ CanTransition(room, "PAUSED") /\ room' = "PAUSED" /\ UNCHANGED held
     \/ /\ room = "PAUSED" /\ room' = "ACTIVE"
        /\ UNCHANGED <<held, incidents>>
     \/ Incident /\ held # <<>> /\ held' = Tail(held) /\ UNCHANGED room
  /\ lost' = TRUE
  /\ UNCHANGED <<task, turns, stream, evidenced, call, drive, quiesced, hasty>>

(* The process restarts: marker, drive and every request are gone, with    *)
(* the effects that they had yet to make.                                  *)
Interrupted ==
  (IF DriveAt("effect") THEN drive.answer ELSE <<>>)
  \o (IF call.step = "effect" THEN call.body ELSE <<>>)

Restart ==
  /\ Incident
  /\ drive' = NoDrive /\ call' = NoCall /\ quiesced' = -1
  /\ hasty' = hasty + Cardinality({i \in DOMAIN Interrupted :
                                    Interrupted[i].type = "evidence_submission"})
  /\ lost' = (lost \/ \E i \in DOMAIN Interrupted : Interrupted[i].type = "completion_proposal")
  /\ UNCHANGED <<task, room, turns, stream, evidenced, held>>

SandboxNext ==
  \/ Scan \/ DriveNext
  \/ RunOnce
  \/ \E i \in DOMAIN held : Approve(i) \/ Reject(i)
  \/ Release \/ CallEffect
  \/ \E role \in Role, type \in RequestType \cup {"completion_proposal"} : Post(role, type)
  \/ Disturb
  \/ Restart

(* The poll re-arms its timer, a drive goes on, and a request that the     *)
(* server has begun is carried through.  Nobody has to decide, post, step, *)
(* pause or restart.                                                       *)
Fairness ==
  WF_sandboxVars(Scan) /\ WF_sandboxVars(DriveNext) /\ WF_sandboxVars(Release \/ CallEffect)

SandboxSpec == SandboxInit /\ [][SandboxNext]_sandboxVars /\ Fairness

-----------------------------------------------------------------------------
(* Properties.                                                             *)

(* What has been handed in, in whatever order; and how often.              *)
Delivered == stream \o held \o (IF call.step = "persist" THEN call.body ELSE <<>>)

Occurrences(body, s) == Cardinality({i \in DOMAIN s : s[i] = body})

(* The agents decide from the stream alone what is still to be answered,   *)
(* and an answer that a human holds is not in it.  So a request is         *)
(* answered once and a criterion is evidenced once, counting what is held, *)
(* unless a turn began while a human still had something to decide (which  *)
(* only /step or a decision on its way allows), or a restart lost an       *)
(* effect.                                                                 *)
RepeatsBounded ==
  \A i \in DOMAIN Delivered :
    Delivered[i].type \in ResponseType \cup {"evidence_submission"} =>
      Occurrences(Delivered[i], Delivered) <= 1 + hasty

(* heuristic.ts: the agents progress the task toward completion so demos   *)
(* terminate.  Where no policy refuses what they hand in, the completion   *)
(* is proposed, or a human leaves an approval undecided for ever; however  *)
(* the humans step, post and reject, and whenever the process restarts.    *)
(* Excepted are a spent budget, a room that is paused for a loop because   *)
(* one event is in it three times, and what `lost` records.                *)
DemoFinishes ==
  (\A role \in Role, type \in AgentType : task.verdict[role][type] # "deny") =>
    \/ <>(room = "COMPLETION_PROPOSED" \/ turns = MaxTurns \/ lost
         \/ (room = "PAUSED" /\ hasty > 1))
    \/ <>[](held # <<>>)
=============================================================================
