------------------------------- MODULE Runtime -------------------------------
(***************************************************************************)
(* The room runtime (packages/core/src/runtime.ts) and the turn loop that  *)
(* it drives (orchestrator.ts runTurn): a poll loop that picks up a        *)
(* running room when its event stream has grown past a marker, an          *)
(* in-process lock, and POST /step, which drives the room by hand.         *)
(*                                                                         *)
(* One room, since rooms share nothing but the poll.  Everything between   *)
(* two `await`s is one action, so the scan, the drives, the humans and the *)
(* agents that post over the API interleave.  The reads and the write of a *)
(* room row that belong together are one action here; what can come        *)
(* between them is the subject of module RoomExecution.                    *)
(***************************************************************************)
EXTENDS RoomStates, Integers, FiniteSets

CONSTANTS Drives,          \* slots for calls of driveRoom
          Participants,    \* how many participants the room has: two, once it runs
          TurnsPerPickup,  \* maxTurnsPerPickup
          MaxTurns,        \* budget.maxTurns
          MaxEvents,       \* bound on the events that agents and humans add
          MaxMoves,        \* bound on the moves of the room that humans make
          MaxIncidents     \* bound on POST /step requests, restarts and failures, together

ASSUME RuntimeAssumption ==
  /\ Drives # {} /\ IsFiniteSet(Drives)
  /\ Participants \in 1..2
  /\ TurnsPerPickup \in Nat \ {0} /\ MaxTurns \in Nat \ {0}
  /\ MaxEvents \in Nat /\ MaxMoves \in Nat /\ MaxIncidents \in Nat

VARIABLES
  room,      \* rooms.state
  turns,     \* usage.turns
  seq,       \* sequence number of the room's last event
  staffed,   \* every participant has an agent connection
  pending,   \* some approval of the room is PENDING
  quiesced,  \* the marker: last event when the room went idle; -1 when unset
  driving,   \* the in-process lock
  scan,      \* the poll: where it is, and the last event it read
  drive,     \* the calls of driveRoom
  steps, moves, mishaps, storeFailed,
  unread,    \* history: an event meant for the agents came after the last turn began
  heldTurns  \* history: turns begun since an approval has been pending

vars == <<room, turns, seq, staffed, pending, quiesced, driving, scan, drive,
          steps, moves, mishaps, storeFailed, unread, heldTurns>>

-----------------------------------------------------------------------------
Answer == {"silence", "message", "held", "proposal"}

DriveStep == {"free", "connect", "loop", "turn", "announce", "execute", "report",
              "account", "submit", "check", "finish", "park", "unlock"}

(* `failed`: the call will reject, and the poll parks the room once more.  *)
Call == [step : DriveStep, turn : 0..TurnsPerPickup, idle : 0..2, before : Nat, failed : BOOLEAN]

Free == [step |-> "free", turn |-> 0, idle |-> 0, before |-> 0, failed |-> FALSE]

NoScan == [step |-> "idle", last |-> 0]

TypeOK ==
  /\ room \in RoomState
  /\ turns \in Nat /\ seq \in Nat
  /\ staffed \in BOOLEAN /\ pending \in BOOLEAN
  /\ quiesced \in Nat \cup {-1}
  /\ driving \in BOOLEAN
  /\ scan \in [step : {"idle", "readEvents", "readApprovals"}, last : Nat]
  /\ drive \in [Drives -> Call]
  /\ steps \in 0..MaxIncidents /\ moves \in 0..MaxMoves /\ mishaps \in 0..MaxIncidents
  /\ storeFailed \in BOOLEAN
  /\ unread \in BOOLEAN
  /\ heldTurns \in Nat

(* A room that is started has its agents.  One that was quarantined while  *)
(* its terms were negotiated, and was paused and resumed, need not.        *)
Init ==
  /\ room = "ACTIVE"
  /\ turns = 0 /\ seq = 0
  /\ staffed \in BOOLEAN
  /\ pending = FALSE
  /\ quiesced = -1
  /\ driving = FALSE
  /\ scan = NoScan
  /\ drive = [d \in Drives |-> Free]
  /\ steps = 0 /\ moves = 0 /\ mishaps = 0 /\ storeFailed = FALSE
  /\ unread = FALSE
  /\ heldTurns = 0

-----------------------------------------------------------------------------
Live == {d \in Drives : drive[d].step # "free"}

At(d, step)   == drive[d].step = step
Goto(d, step) == drive' = [drive EXCEPT ![d].step = step]

(* The loop is left, for the finally block.                                *)
EndDrive(d) == drive' = [drive EXCEPT ![d] = [Free EXCEPT !.step = "finish"]]

(* driveRoom is called: in the first free slot.                            *)
Launch ==
  /\ Live # Drives
  /\ LET d == CHOOSE x \in Drives : x \notin Live
     IN drive' = [drive EXCEPT ![d] = [Free EXCEPT !.step = "connect"]]

StreamUnchanged == UNCHANGED <<seq, pending, unread, heldTurns>>
BoundsUnchanged == UNCHANGED <<staffed, steps, moves, mishaps, storeFailed>>

(* appendRoomEvent of something the agents should answer, and of a notice. *)
AppendForAgents == seq' = seq + 1 /\ unread' = TRUE
AppendNotice    == seq' = seq + 1 /\ UNCHANGED unread

(* A completion proposal moves an ACTIVE room; the third secret            *)
(* quarantines the room.                                                   *)
MayBeProposed    == room' \in IF room = "ACTIVE" THEN {room, "COMPLETION_PROPOSED"} ELSE {room}
MayBeQuarantined == room' \in IF CanTransition(room, "QUARANTINED") THEN {room, "QUARANTINED"} ELSE {room}

HoldBegins == pending' = TRUE /\ heldTurns' = IF pending THEN heldTurns ELSE 0

-----------------------------------------------------------------------------
(* Seeded fault: the scan does not look at the lock.                       *)
ListRoomsUnlocked ==
  /\ scan.step = "idle"
  /\ room \in Routing
  /\ scan' = [scan EXCEPT !.step = "readEvents"]
  /\ UNCHANGED <<room, turns, quiesced, driving, drive>> /\ StreamUnchanged /\ BoundsUnchanged

(* scan().  listActiveRooms, and the lock is looked at.                    *)
ListRooms ==
  /\ scan.step = "idle"
  /\ room \in Routing
  /\ ~driving
  /\ scan' = [scan EXCEPT !.step = "readEvents"]
  /\ UNCHANGED <<room, turns, quiesced, driving, drive>> /\ StreamUnchanged /\ BoundsUnchanged

(* Seeded fault: the marker is not compared with the last event.           *)
ReadEventsOnce ==
  /\ scan.step = "readEvents"
  /\ scan' = IF quiesced # -1 THEN NoScan ELSE [step |-> "readApprovals", last |-> seq]
  /\ UNCHANGED <<room, turns, quiesced, driving, drive>> /\ StreamUnchanged /\ BoundsUnchanged

(* Nothing new since it went idle.                                         *)
ReadEvents ==
  /\ scan.step = "readEvents"
  /\ scan' = IF quiesced = seq THEN NoScan ELSE [step |-> "readApprovals", last |-> seq]
  /\ UNCHANGED <<room, turns, quiesced, driving, drive>> /\ StreamUnchanged /\ BoundsUnchanged

(* A pending approval parks the room; otherwise the lock is taken, which   *)
(* is not looked at again.                                                 *)
ReadApprovals ==
  /\ scan.step = "readApprovals"
  /\ scan' = NoScan
  /\ \/ pending /\ quiesced' = scan.last /\ UNCHANGED <<driving, drive>>
     \/ ~pending /\ driving' = TRUE /\ Launch /\ UNCHANGED quiesced
  /\ UNCHANGED <<room, turns>> /\ StreamUnchanged /\ BoundsUnchanged

(* POST /step: runOnce.                                                    *)
StepRequest ==
  /\ room \in Routing
  /\ ~driving
  /\ steps + mishaps < MaxIncidents
  /\ steps' = steps + 1
  /\ driving' = TRUE
  /\ Launch
  /\ UNCHANGED <<room, turns, staffed, quiesced, scan, moves, mishaps, storeFailed>> /\ StreamUnchanged

-----------------------------------------------------------------------------
(* driveRoom.                                                              *)

(* The participants are read.  Fewer than two, and the drive is over       *)
(* before the try, without a marker; a participant without an agent, and   *)
(* it is over within, and the finally block sets the marker.               *)
Connect(d) ==
  /\ At(d, "connect")
  /\ Goto(d, IF Participants < 2 THEN "unlock" ELSE IF staffed THEN "loop" ELSE "finish")
  /\ UNCHANGED <<room, turns, quiesced, driving, scan>> /\ StreamUnchanged /\ BoundsUnchanged

(* A connection is not ACTIVE or does not start: haltRoom.                 *)
HaltRoom(d) ==
  /\ At(d, "connect")
  /\ Participants = 2
  /\ room' = IF room = "ACTIVE" THEN "PAUSED" ELSE room
  /\ EndDrive(d)
  /\ UNCHANGED <<turns, quiesced, driving, scan>> /\ StreamUnchanged /\ BoundsUnchanged

NextTurn(d) ==
  /\ At(d, "loop")
  /\ IF drive[d].turn < TurnsPerPickup /\ room \in Routing
     THEN drive' = [drive EXCEPT ![d].step = "turn", ![d].before = seq]
     ELSE EndDrive(d)
  /\ UNCHANGED <<room, turns, quiesced, driving, scan>> /\ StreamUnchanged /\ BoundsUnchanged

(* runTurn, up to the input that it builds for the agent.                  *)
RunTurn(d) ==
  /\ At(d, "turn")
  /\ room \in Routing
  /\ turns < MaxTurns
  /\ unread' = FALSE
  /\ heldTurns' = IF pending THEN heldTurns + 1 ELSE heldTurns
  /\ Goto(d, "execute")
  /\ UNCHANGED <<room, turns, seq, pending, quiesced, driving, scan>> /\ BoundsUnchanged

RefuseTurn(d) ==
  /\ At(d, "turn")
  /\ room \notin Routing
  /\ EndDrive(d)
  /\ UNCHANGED <<room, turns, quiesced, driving, scan>> /\ StreamUnchanged /\ BoundsUnchanged

(* The budget is spent, or three of the last eight events are the same     *)
(* (whether they are is left open): pauseForBudget.                        *)
PauseForBudget(d) ==
  /\ At(d, "turn")
  /\ room \in Routing
  /\ turns >= MaxTurns \/ seq >= 3
  /\ IF room = "ACTIVE"
     THEN room' = "PAUSED" /\ Goto(d, "announce")
     ELSE EndDrive(d) /\ UNCHANGED room
  /\ UNCHANGED <<turns, quiesced, driving, scan>> /\ StreamUnchanged /\ BoundsUnchanged

AnnouncePause(d) ==
  /\ At(d, "announce")
  /\ AppendNotice
  /\ EndDrive(d)
  /\ UNCHANGED <<room, turns, pending, heldTurns, quiesced, driving, scan>> /\ BoundsUnchanged

(* The agent answers; what, is left open until it is submitted.            *)
ExecuteTurn(d) ==
  /\ At(d, "execute")
  /\ Goto(d, "account")
  /\ UNCHANGED <<room, turns, quiesced, driving, scan>> /\ StreamUnchanged /\ BoundsUnchanged

ReportFailure(d) ==
  /\ At(d, "report")
  /\ AppendNotice
  /\ EndDrive(d)
  /\ UNCHANGED <<room, turns, pending, heldTurns, quiesced, driving, scan>> /\ BoundsUnchanged

(* Seeded fault: a wrong sign.                                             *)
AccountTurnBackwards(d) ==
  /\ At(d, "account")
  /\ turns' = turns - 1
  /\ Goto(d, "submit")
  /\ UNCHANGED <<room, quiesced, driving, scan>> /\ StreamUnchanged /\ BoundsUnchanged

AccountTurn(d) ==
  /\ At(d, "account")
  /\ turns' = turns + 1
  /\ Goto(d, "submit")
  /\ UNCHANGED <<room, quiesced, driving, scan>> /\ StreamUnchanged /\ BoundsUnchanged

(* submitCandidateEvent.  Policy may refuse the answer, and does when the  *)
(* room no longer routes: the stream gets a policy_block.                  *)
SubmitAnswer(d, answer) ==
  /\ At(d, "submit")
  /\ answer = "silence" \/ seq < MaxEvents
  /\ \/ /\ answer = "silence"
        /\ UNCHANGED room /\ StreamUnchanged
     \/ /\ answer # "silence"
        /\ AppendNotice
        /\ MayBeQuarantined
        /\ UNCHANGED <<pending, heldTurns>>
     \/ /\ answer = "message" /\ room \in Routing
        /\ AppendForAgents
        /\ UNCHANGED <<room, pending, heldTurns>>
     \/ /\ answer = "held" /\ room \in Routing
        /\ HoldBegins
        /\ AppendNotice
        /\ UNCHANGED room
     \/ /\ answer = "proposal" /\ room \in Routing
        /\ AppendForAgents
        /\ room' = "COMPLETION_PROPOSED"
        /\ UNCHANGED <<pending, heldTurns>>
  /\ Goto(d, "check")
  /\ UNCHANGED <<turns, quiesced, driving, scan>> /\ BoundsUnchanged

(* Seeded fault: pending approvals are not asked for.                      *)
AfterTurnUnasked(d) ==
  LET idle == IF seq = drive[d].before THEN drive[d].idle + 1 ELSE 0 IN
  /\ At(d, "check")
  /\ IF idle >= 2
     THEN EndDrive(d)
     ELSE drive' = [drive EXCEPT ![d] = [Free EXCEPT !.step = "loop", !.idle = idle,
                                                   !.turn = drive[d].turn + 1]]
  /\ UNCHANGED <<room, turns, quiesced, driving, scan>> /\ StreamUnchanged /\ BoundsUnchanged

(* After the turn: stop for a human, or when both had nothing to say.      *)
AfterTurn(d) ==
  LET idle == IF seq = drive[d].before THEN drive[d].idle + 1 ELSE 0 IN
  /\ At(d, "check")
  /\ IF pending \/ idle >= 2
     THEN EndDrive(d)
     ELSE drive' = [drive EXCEPT ![d] = [Free EXCEPT !.step = "loop", !.idle = idle,
                                                   !.turn = drive[d].turn + 1]]
  /\ UNCHANGED <<room, turns, quiesced, driving, scan>> /\ StreamUnchanged /\ BoundsUnchanged

(* The finally block: the marker is set to the last event there is now.    *)
Quiesce(d) ==
  /\ At(d, "finish")
  /\ quiesced' = seq
  /\ Goto(d, IF drive[d].failed THEN "park" ELSE "unlock")
  /\ UNCHANGED <<room, turns, driving, scan>> /\ StreamUnchanged /\ BoundsUnchanged

(* quiesceAfterFailure sets it again, to what is the last event by now.    *)
Park(d) ==
  /\ At(d, "park")
  /\ quiesced' = seq
  /\ Goto(d, "unlock")
  /\ UNCHANGED <<room, turns, driving, scan>> /\ StreamUnchanged /\ BoundsUnchanged

(* The adapters are disconnected, and the lock is deleted.                 *)
Unlock(d) ==
  /\ At(d, "unlock")
  /\ driving' = FALSE
  /\ drive' = [drive EXCEPT ![d] = Free]
  /\ UNCHANGED <<room, turns, quiesced, scan>> /\ StreamUnchanged /\ BoundsUnchanged

DriveNext(d) ==
  \/ Connect(d) \/ HaltRoom(d)
  \/ NextTurn(d) \/ RunTurn(d) \/ RefuseTurn(d) \/ PauseForBudget(d) \/ AnnouncePause(d)
  \/ ExecuteTurn(d) \/ ReportFailure(d) \/ AccountTurn(d)
  \/ \E answer \in Answer : SubmitAnswer(d, answer)
  \/ AfterTurn(d)
  \/ Quiesce(d) \/ Park(d) \/ Unlock(d)

ScanNext == ListRooms \/ ReadEvents \/ ReadApprovals

-----------------------------------------------------------------------------
(* Failures.  A store call outside the turn throws: the drive ends in its  *)
(* finally block and rejects, which only the poll's calls look after, so   *)
(* that `failed` is left open.  A read that sets the marker throws: the    *)
(* marker stays.  The scan throws: it ends, and the next poll starts over. *)
Mishap == steps + mishaps < MaxIncidents /\ mishaps' = mishaps + 1

DriveFails(d) ==
  /\ Mishap
  /\ storeFailed' = TRUE
  /\ drive[d].step \in {"connect", "loop", "report", "check"}
  /\ \E failed \in BOOLEAN :
       drive' = [drive EXCEPT ![d] = [Free EXCEPT !.step = "finish", !.failed = failed]]
  /\ UNCHANGED <<room, turns, staffed, quiesced, driving, scan, steps, moves>> /\ StreamUnchanged

QuiesceFails(d) ==
  /\ Mishap
  /\ storeFailed' = TRUE
  /\ \/ At(d, "finish") /\ Goto(d, IF drive[d].failed THEN "park" ELSE "unlock")
     \/ At(d, "park") /\ Goto(d, "unlock")
  /\ UNCHANGED <<room, turns, staffed, quiesced, driving, scan, steps, moves>> /\ StreamUnchanged

ScanFails ==
  /\ Mishap
  /\ storeFailed' = TRUE
  /\ scan.step # "idle"
  /\ scan' = NoScan
  /\ UNCHANGED <<room, turns, staffed, quiesced, driving, drive, steps, moves>> /\ StreamUnchanged

(* Whatever throws within the turn, most of all the agent's provider, is   *)
(* reported: reportAgentFailure.                                           *)
FailTurn(d) ==
  /\ Mishap
  /\ drive[d].step \in {"turn", "announce", "execute", "account", "submit"}
  /\ storeFailed' = (storeFailed \/ ~At(d, "execute"))
  /\ Goto(d, "report")
  /\ UNCHANGED <<room, turns, staffed, quiesced, driving, scan, steps, moves>> /\ StreamUnchanged

(* The process restarts: marker, lock and every call are gone.             *)
Restart ==
  /\ Mishap
  /\ quiesced' = -1
  /\ driving' = FALSE
  /\ scan' = NoScan
  /\ drive' = [d \in Drives |-> Free]
  /\ UNCHANGED <<room, turns, staffed, steps, moves, storeFailed>> /\ StreamUnchanged

-----------------------------------------------------------------------------
(* Humans and agents over the API.  pause, resume, and everything that     *)
(* ends a room (cancel, close, completion) move the row and add no event.  *)
RuntimeUnchanged ==
  UNCHANGED <<turns, staffed, quiesced, driving, scan, drive, steps, mishaps, storeFailed>>

(* connectAgentToRoom for the last participant that was without an agent:  *)
(* the room and its stream do not change.  Nothing takes a connection away.*)
ConnectAgent ==
  /\ ~staffed
  /\ staffed' = TRUE
  /\ UNCHANGED <<room, turns, quiesced, driving, scan, drive, steps, moves, mishaps, storeFailed>>
  /\ StreamUnchanged

MoveRoom(to) ==
  /\ to \in {"PAUSED", "ACTIVE", "CANCELED"}
  /\ CanTransition(room, to)
  /\ moves < MaxMoves
  /\ moves' = moves + 1
  /\ room' = to
  /\ RuntimeUnchanged /\ StreamUnchanged

PostEvent ==
  /\ seq < MaxEvents
  /\ room \in Routing
  /\ AppendForAgents
  /\ MayBeProposed
  /\ UNCHANGED <<pending, heldTurns, moves>> /\ RuntimeUnchanged

(* Policy refuses it, whatever state the room is in.                       *)
PostBlocked ==
  /\ seq < MaxEvents
  /\ AppendNotice
  /\ MayBeQuarantined
  /\ UNCHANGED <<pending, heldTurns, moves>> /\ RuntimeUnchanged

PostHeld ==
  /\ seq < MaxEvents
  /\ room \in Routing
  /\ HoldBegins
  /\ AppendNotice
  /\ UNCHANGED <<room, moves>> /\ RuntimeUnchanged

(* The last pending approval is decided, with an event for the agents, or  *)
(* becomes EXPIRED or INVALIDATED, without one.                            *)
Decide ==
  /\ pending
  /\ seq < MaxEvents
  /\ pending' = FALSE
  /\ AppendForAgents
  /\ MayBeProposed
  /\ UNCHANGED <<heldTurns, moves>> /\ RuntimeUnchanged

Lapse ==
  /\ pending
  /\ pending' = FALSE
  /\ UNCHANGED <<room, seq, unread, heldTurns, moves>> /\ RuntimeUnchanged

Next ==
  \/ ScanNext
  \/ StepRequest
  \/ \E d \in Drives : DriveNext(d) \/ FailTurn(d) \/ DriveFails(d) \/ QuiesceFails(d)
  \/ ScanFails
  \/ Restart
  \/ ConnectAgent
  \/ \E to \in RoomState : MoveRoom(to)
  \/ PostEvent \/ PostBlocked \/ PostHeld \/ Decide \/ Lapse

(* The poll re-arms its timer after every scan, whatever it ended with,    *)
(* and every call of an agent has a timeout.  Nobody has to post, decide,  *)
(* pause or restart.                                                       *)
Fairness == WF_vars(ScanNext) /\ \A d \in Drives : WF_vars(DriveNext(d))

Spec == Init /\ [][Next]_vars /\ Fairness

-----------------------------------------------------------------------------
(* Properties.                                                             *)

(* The lock keeps the poll from driving a room twice; only a /step request *)
(* that comes while the poll is looking lets one more drive in, and then   *)
(* the first to finish gives the lock of both away.                        *)
DrivesBounded == Cardinality(Live) <= 1 + steps

(* A room that waits for a human waits: since an approval has been pending *)
(* at most the turn that was on its way is run, and one for every /step.   *)
HeldTurnsBounded == heldTurns <= 1 + steps

(* An event that comes while nobody drives the room, and both participants *)
(* have their agents, is read by an agent, unless the room stops or waits  *)
(* for a human; also when the process restarts in between, and when the    *)
(* last agent was connected a moment ago.  An event that a drive finds     *)
(* before that is marked as seen and left.                                 *)
NewEventIsServed ==
  (room = "ACTIVE" /\ staffed /\ ~pending /\ unread /\ seq # quiesced /\ Live = {})
    ~> (~unread \/ room # "ACTIVE" \/ pending \/ storeFailed)

-----------------------------------------------------------------------------
(* Statement of the repository that the code does not keep.                *)

(* README.md:56: the runtime drives every ACTIVE room, and stops for       *)
(* approvals, budgets, or failures.  Said here of a room whose agents are  *)
(* connected from the start.  An event that comes after the last turn of a *)
(* drive has read the stream, and before its finally block reads the last  *)
(* sequence number, is marked as seen, and nobody ever answers it.         *)
ActiveRoomIsDriven ==
  []staffed => ((room = "ACTIVE" /\ ~pending /\ unread)
                  ~> (~unread \/ room # "ACTIVE" \/ pending \/ storeFailed))
=============================================================================
