---------------------------- MODULE RoomExecution ----------------------------
(***************************************************************************)
(* A room from READY on: start, agent turns with their budgets, pauses,    *)
(* evidence and its verification, completion by both organisations,        *)
(* cancellation, closure, quarantine.  packages/core/src: rooms.ts,        *)
(* orchestrator.ts, runtime.ts (haltRoom), pipeline.ts (side effects),     *)
(* approvals.ts (verifyEvidence).                                          *)
(*                                                                         *)
(* A handler reads rows and later writes whole rows; each element of Procs *)
(* is a slot for one request or one agent turn in flight, and each store   *)
(* write and each read after the first write is an action.  What overlaps  *)
(* may therefore write over what it has not seen.  The code then leaves    *)
(* the whitelist, loses accounts of turns and undoes verifications; the    *)
(* properties say that it does so in these ways only, and at what price.   *)
(***************************************************************************)
EXTENDS RoomStates, Naturals, FiniteSets

CONSTANTS Orgs,        \* the two participating organisations
          Criteria,    \* completion criteria that require evidence
          MaxTurns,    \* budget.maxTurns
          Procs,       \* requests and turns in flight at the same time
          MaxCrashes,  \* bound on the number of crashes
          MaxLost      \* bound on the number of accounts that are written over

ASSUME RoomExecutionAssumption ==
  /\ Orgs # {} /\ Criteria # {}
  /\ MaxTurns \in Nat \ {0}
  /\ IsFiniteSet(Procs)
  /\ MaxCrashes \in Nat /\ MaxLost \in Nat

VARIABLES
  room,      \* the row of rooms: state, usage.turns
  consent,   \* the participants whose completionApprovedByUserId is set
  evidence,  \* the criteria for which a row of evidence exists
  criteria,  \* criterion_statuses
  held,      \* an agent's evidence or proposal waits for a human's approval
  req,       \* requests and turns in flight
  crashes,   \* number of crashes so far
  ran,       \* history: turns in which an agent was really run
  lost,      \* history: accounts of turns that a row read before them wrote over
  late       \* history: criteria verified while a submission that had found
             \*   them unverified was still to write

vars == <<room, consent, evidence, criteria, held, req, crashes, ran, lost, late>>

-----------------------------------------------------------------------------
RoomRow == [state : RoomState, turns : Nat]

CriterionState == {"PENDING", "EVIDENCE_SUBMITTED", "VERIFIED"}

Step == {"idle", "writeRoom", "stampStart", "writeClosed", "voidApprovals",
         "executeTurn", "readUsage", "submit", "readToPause",
         "createEvidence", "readCriterion", "writeCriterion", "writeVerified",
         "readStatus", "readToPropose", "readToQuarantine",
         "writeConsent", "listConsent", "readToComplete"}

(* The row about to be written, the state of the room that the request     *)
(* goes on from, as it has read or checked it, and what it is about.       *)
Request == [step : Step, then : Step, room : RoomRow, from : RoomState,
            criterion : Criteria, org : Orgs]

Ready == [state |-> "READY", turns |-> 0]

Idle == [step |-> "idle", then |-> "idle", room |-> Ready, from |-> "READY",
         criterion |-> CHOOSE c \in Criteria : TRUE, org |-> CHOOSE o \in Orgs : TRUE]

TypeOK ==
  /\ room \in RoomRow
  /\ consent \subseteq Orgs
  /\ evidence \subseteq Criteria
  /\ criteria \in [Criteria -> CriterionState]
  /\ held \in BOOLEAN
  /\ req \in [Procs -> Request]
  /\ crashes \in 0..MaxCrashes
  /\ ran \in Nat
  /\ lost \in 0..MaxLost
  /\ late \subseteq Criteria

(* RoomSetup ends here.                                                    *)
Init ==
  /\ room = Ready
  /\ consent = {}
  /\ evidence = {}
  /\ criteria = [c \in Criteria |-> "PENDING"]
  /\ held = FALSE
  /\ req = [p \in Procs |-> Idle]
  /\ crashes = 0
  /\ ran = 0
  /\ lost = 0
  /\ late = {}

-----------------------------------------------------------------------------
(* Pieces of a handler.                                                    *)

At(p, step)   == req[p].step = step
Goto(p, step) == req' = [req EXCEPT ![p].step = step]
Set(p, r)     == req' = [req EXCEPT ![p] = r]
Done(p)       == Set(p, Idle)
Begin(p, r)   == At(p, "idle") /\ Set(p, r)

UnchangedRows == UNCHANGED <<room, consent, evidence, criteria, held, crashes, ran, lost, late>>

Moved(row, to) == [row EXCEPT !.state = to]

(* The write of `row` comes next, and then `then`.                         *)
Writing(from, row, then) ==
  [Idle EXCEPT !.step = "writeRoom", !.then = then, !.room = row, !.from = from]

(* Read the row; if it is in one of the states, write it moved.            *)
ReadAndMove(p, step, states, to) ==
  /\ At(p, step)
  /\ IF room.state \in states
     THEN Set(p, Writing(room.state, Moved(room, to), "idle"))
     ELSE Done(p)
  /\ UnchangedRows

(* The row is written whole, over whatever turns others have accounted for *)
(* since it was read; `counted` is what it accounts for itself.            *)
SaveRoom(row, counted) ==
  /\ room' = row
  /\ lost' = IF row.turns < room.turns + counted
             THEN lost + (room.turns + counted - row.turns)
             ELSE lost
  /\ lost' <= MaxLost

(* Steps that write the room once more keep the row as they have left it.  *)
Rewriting == {"stampStart", "writeClosed"}

WriteRoom(p) ==
  /\ At(p, "writeRoom")
  /\ SaveRoom(req[p].room, IF req[p].then = "submit" THEN 1 ELSE 0)
  /\ IF req[p].then \in Rewriting
     THEN Set(p, [Idle EXCEPT !.step = req[p].then, !.room = req[p].room, !.from = req[p].room.state])
     ELSE Set(p, [Idle EXCEPT !.step = req[p].then])
  /\ UNCHANGED <<consent, evidence, criteria, held, crashes, ran, late>>

-----------------------------------------------------------------------------
(* Humans: startRoom, pauseRoom, resumeRoom, cancelRoom, closeRoom.        *)

StartRoom(p) ==
  /\ room.state = "READY"
  /\ Begin(p, Writing("READY", Moved(room, "ACTIVE"), "stampStart"))
  /\ UnchangedRows

StampStart(p) ==
  /\ At(p, "stampStart")
  /\ SaveRoom(req[p].room, 0)
  /\ Done(p)
  /\ UNCHANGED <<consent, evidence, criteria, held, crashes, ran, late>>

MoveRoom(p, to) ==
  /\ to \in {"PAUSED", "ACTIVE", "CANCELED"}
  /\ CanTransition(room.state, to)
  /\ Begin(p, Writing(room.state, Moved(room, to), "idle"))
  /\ UnchangedRows

Closable == {"COMPLETED", "CANCELED", "QUARANTINED"}

CloseRoom(p) ==
  /\ \/ /\ room.state \in Closable
        /\ Begin(p, Writing(room.state, Moved(room, "CLOSED"), "voidApprovals"))
     \/ /\ room.state \notin Closable
        /\ CanTransition(room.state, "CANCELED")
        /\ Begin(p, Writing(room.state, Moved(room, "CANCELED"), "writeClosed"))
  /\ UnchangedRows

WriteClosed(p) ==
  /\ At(p, "writeClosed")
  /\ SaveRoom(Moved(req[p].room, "CLOSED"), 0)
  /\ Set(p, [Idle EXCEPT !.step = "voidApprovals"])
  /\ UNCHANGED <<consent, evidence, criteria, held, crashes, ran, late>>

VoidApprovals(p) ==
  /\ At(p, "voidApprovals")
  /\ held' = FALSE
  /\ Done(p)
  /\ UNCHANGED <<room, consent, evidence, criteria, crashes, ran, lost, late>>

-----------------------------------------------------------------------------
(* runTurn: budget check, the agent, the account of its usage, its events. *)

(* Seeded fault: off by one.                                               *)
BudgetOverrun(row) == row.turns > MaxTurns

(* Whether maxDurationMinutes have passed is left open: see RefuseTurn.    *)
BudgetExceeded(row) == row.turns >= MaxTurns

(* A poll or a /step takes the room up; both may, since the lock is looked *)
(* at long before it is set (see Runtime).                                 *)
Drive(p, step) == Begin(p, [Idle EXCEPT !.step = step])

RunTurn(p) ==
  /\ room.state \in Routing
  /\ ~BudgetExceeded(room)
  /\ Drive(p, "executeTurn")
  /\ UnchangedRows

(* The budget is spent, the time is over, or the last exchanges repeat     *)
(* each other (whether they do, and what the time is, is left open).       *)
RefuseTurn(p) ==
  /\ room.state \in Routing
  /\ Drive(p, "readToPause")
  /\ UnchangedRows

(* Seeded fault: the room is paused in whatever state it is.               *)
ReadToPauseAny(p) == ReadAndMove(p, "readToPause", RoomState, "PAUSED")

(* pauseForBudget and haltRoom read the room again and pause an ACTIVE one.*)
ReadToPause(p) == ReadAndMove(p, "readToPause", {"ACTIVE"}, "PAUSED")

(* A connection that cannot be used halts the room before any turn.        *)
HaltRoom(p) == Drive(p, "readToPause") /\ UnchangedRows

ExecuteTurn(p) ==
  /\ At(p, "executeTurn")
  /\ ran' = ran + 1
  /\ Goto(p, "readUsage")
  /\ UNCHANGED <<room, consent, evidence, criteria, held, crashes, lost, late>>

(* A provider failure ends the turn before it is accounted.                *)
FailTurn(p) ==
  /\ At(p, "executeTurn")
  /\ Done(p)
  /\ UnchangedRows

ReadUsage(p) ==
  /\ At(p, "readUsage")
  /\ Set(p, Writing(room.state, [room EXCEPT !.turns = @ + 1], "submit"))
  /\ UnchangedRows

-----------------------------------------------------------------------------
(* submitCandidateEvent, from a turn or from the API, as far as it leads   *)
(* to writes outside the event stream.  At most one event of a turn is     *)
(* followed; the others come as submissions of their own.                  *)

Submitting(p) == At(p, "idle") \/ At(p, "submit")

SubmitEvidence(p, c) ==
  /\ Submitting(p)
  /\ room.state \in Routing
  /\ Set(p, [Idle EXCEPT !.step = "createEvidence", !.criterion = c])
  /\ UnchangedRows

CreateEvidence(p) ==
  /\ At(p, "createEvidence")
  /\ evidence' = evidence \cup {req[p].criterion}
  /\ Goto(p, "readCriterion")
  /\ UNCHANGED <<room, consent, criteria, held, crashes, ran, lost, late>>

(* Seeded fault: the criterion's state is not asked.                       *)
ReadCriterionUnasked(p) ==
  /\ At(p, "readCriterion")
  /\ Goto(p, "writeCriterion")
  /\ UnchangedRows

ReadCriterion(p) ==
  /\ At(p, "readCriterion")
  /\ IF criteria[req[p].criterion] # "VERIFIED" THEN Goto(p, "writeCriterion") ELSE Done(p)
  /\ UnchangedRows

(* Seeded fault: the name of the event in the place of the state.          *)
WriteCriterionMisnamed(p) ==
  /\ At(p, "writeCriterion")
  /\ criteria' = [criteria EXCEPT ![req[p].criterion] = "evidence_submission"]
  /\ Done(p)
  /\ UNCHANGED <<room, consent, evidence, held, crashes, ran, lost, late>>

WriteCriterion(p) ==
  /\ At(p, "writeCriterion")
  /\ criteria' = [criteria EXCEPT ![req[p].criterion] = "EVIDENCE_SUBMITTED"]
  /\ Done(p)
  /\ UNCHANGED <<room, consent, evidence, held, crashes, ran, lost, late>>

SubmitProposal(p) ==
  /\ Submitting(p)
  /\ room.state \in Routing
  /\ Goto(p, "readStatus")
  /\ UnchangedRows

Satisfied == \A c \in Criteria : criteria[c] # "PENDING"
Verified  == \A c \in Criteria : criteria[c] = "VERIFIED"

ReadStatus(p) ==
  /\ At(p, "readStatus")
  /\ IF Satisfied THEN Goto(p, "readToPropose") ELSE Done(p)
  /\ UnchangedRows

ReadToPropose(p) == ReadAndMove(p, "readToPropose", {"ACTIVE"}, "COMPLETION_PROPOSED")

(* The third secret of a sender, in whatever state the room is.            *)
SubmitSecret(p) ==
  /\ Submitting(p)
  /\ Goto(p, "readToQuarantine")
  /\ UnchangedRows

ReadToQuarantine(p) ==
  ReadAndMove(p, "readToQuarantine", {s \in RoomState : CanTransition(s, "QUARANTINED")}, "QUARANTINED")

(* handleRequiresApproval.                                                 *)
Hold(p) ==
  /\ Submitting(p)
  /\ room.state \in Routing
  /\ held' = TRUE
  /\ Done(p)
  /\ UNCHANGED <<room, consent, evidence, criteria, crashes, ran, lost, late>>

(* decideApproval, once the approval is claimed: the effects follow in     *)
(* whatever state the room is; a rejection has none.                       *)
DecideHeld(p) ==
  /\ held
  /\ held' = FALSE
  /\ \/ \E c \in Criteria : Begin(p, [Idle EXCEPT !.step = "createEvidence", !.criterion = c])
     \/ Begin(p, [Idle EXCEPT !.step = "readStatus"])
     \/ At(p, "idle") /\ UNCHANGED req
  /\ UNCHANGED <<room, consent, evidence, criteria, crashes, ran, lost, late>>

(* Everything else an agent may say, and silence.                          *)
EndTurn(p) ==
  /\ At(p, "submit")
  /\ Done(p)
  /\ UnchangedRows

-----------------------------------------------------------------------------
(* verifyEvidence and approveCompletion.  The first asks nothing of the    *)
(* room's state.                                                           *)

VerifyEvidence(p, c) ==
  /\ c \in evidence
  /\ Begin(p, [Idle EXCEPT !.step = "writeVerified", !.criterion = c])
  /\ UnchangedRows

WriteVerified(p) ==
  /\ At(p, "writeVerified")
  /\ LET c == req[p].criterion
     IN  /\ criteria' = [criteria EXCEPT ![c] = "VERIFIED"]
         /\ late' = IF \E q \in Procs : At(q, "writeCriterion") /\ req[q].criterion = c
                    THEN late \cup {c} ELSE late \ {c}
  /\ Done(p)
  /\ UNCHANGED <<room, consent, evidence, held, crashes, ran, lost>>

ApproveCompletion(p, o) ==
  /\ room.state = "COMPLETION_PROPOSED"
  /\ Satisfied /\ Verified
  /\ Begin(p, [Idle EXCEPT !.step = "writeConsent", !.org = o, !.from = room.state])
  /\ UnchangedRows

WriteConsent(p) ==
  /\ At(p, "writeConsent")
  /\ consent' = consent \cup {req[p].org}
  /\ Goto(p, "listConsent")
  /\ UNCHANGED <<room, evidence, criteria, held, crashes, ran, lost, late>>

ListConsent(p) ==
  /\ At(p, "listConsent")
  /\ IF consent = Orgs THEN Goto(p, "readToComplete") ELSE Done(p)
  /\ UnchangedRows

(* The row is read again and its state not asked: whatever state the room  *)
(* is in now, the one it goes on from is the one it was in at the start.   *)
ReadToComplete(p) ==
  /\ At(p, "readToComplete")
  /\ Set(p, Writing(req[p].from, Moved(room, "COMPLETED"), "idle"))
  /\ UnchangedRows

-----------------------------------------------------------------------------
(* The surroundings.                                                       *)

Crash(p) ==
  /\ crashes < MaxCrashes
  /\ ~At(p, "idle")
  /\ crashes' = crashes + 1
  /\ Done(p)
  /\ UNCHANGED <<room, consent, evidence, criteria, held, ran, lost, late>>

Next ==
  \E p \in Procs :
    \/ WriteRoom(p)
    \/ StartRoom(p) \/ StampStart(p)
    \/ \E to \in RoomState : MoveRoom(p, to)
    \/ CloseRoom(p) \/ WriteClosed(p) \/ VoidApprovals(p)
    \/ RunTurn(p) \/ RefuseTurn(p) \/ HaltRoom(p) \/ ReadToPause(p)
    \/ ExecuteTurn(p) \/ FailTurn(p) \/ ReadUsage(p) \/ EndTurn(p)
    \/ \E c \in Criteria : SubmitEvidence(p, c) \/ VerifyEvidence(p, c)
    \/ CreateEvidence(p) \/ ReadCriterion(p) \/ WriteCriterion(p) \/ WriteVerified(p)
    \/ SubmitProposal(p) \/ ReadStatus(p) \/ ReadToPropose(p)
    \/ SubmitSecret(p) \/ ReadToQuarantine(p)
    \/ Hold(p) \/ DecideHeld(p)
    \/ \E o \in Orgs : ApproveCompletion(p, o)
    \/ WriteConsent(p) \/ ListConsent(p) \/ ReadToComplete(p)
    \/ Crash(p)

Spec == Init /\ [][Next]_vars

-----------------------------------------------------------------------------
(* Properties, whatever requests and turns overlap.                        *)

(* A move of a room that is not on the whitelist is made by a request that *)
(* had read or checked the room in another state: pauseForBudget,          *)
(* haltRoom, quarantineRoom, the completion proposal and approveCompletion *)
(* consult no whitelist, and no handler looks again before it writes.      *)
LegalMoves ==
  [][room'.state # room.state =>
       \/ CanTransition(room.state, room'.state)
       \/ \E p \in Procs : req'[p] # req[p] /\ req[p].from # room.state]_vars

(* A completed room has the consent of every organisation and verified     *)
(* evidence for every criterion, save one that was verified over a         *)
(* submission under way, whose late write takes the verification back.     *)
CompletedIsBacked ==
  room.state = "COMPLETED" =>
    consent = Orgs /\ \A c \in Criteria \ late : criteria[c] = "VERIFIED"

(* Agents run at most maxTurns times, and once more for every crash        *)
(* between an answer and its account, for every account that another       *)
(* request writes over, and for every further turn that overlaps.          *)
TurnBudget == ran <= MaxTurns + crashes + lost + (Cardinality(Procs) - 1)
=============================================================================
