---------------------------- MODULE Workers_proofs ----------------------------
(***************************************************************************)
(* Proofs about the two workers of the API process, which share no state.  *)
(* First the room runtime: for every number of calls of driveRoom in       *)
(* flight, every budget and batch of turns, and however often the process  *)
(* restarts, a store call throws or somebody asks for a step.  Then the    *)
(* dispatcher of the outbox: for every set of recipients, every batch and  *)
(* number of attempts, and any number of crashes and lost answers.         *)
(***************************************************************************)
EXTENDS Runtime, Notifications, FiniteSetTheorems, TLAPS

-----------------------------------------------------------------------------
(* The parts of the inductive invariant.                                   *)

(* A call that has started a turn has turns left, and one that goes on was *)
(* not idle twice.                                                         *)
Turning == {"turn", "announce", "execute", "report", "account", "submit", "check"}

Fits(c) == c \in Call /\ c.idle <= 1 /\ (c.step \in Turning => c.turn < TurnsPerPickup)

CallsFit == \A d \in Drives : Fits(drive[d])

(* Only a request for a step gets past the lock, or the poll that looked   *)
(* at it before: whenever the lock is free, and whenever the poll is on    *)
(* its way to a drive, there is room for one drive more.                   *)
RoomForOne ==
  /\ Cardinality(Live) <= 1 + steps
  /\ ~driving \/ scan.step # "idle" => Cardinality(Live) <= steps

(* The calls that may begin a turn without looking at the approvals again. *)
AboutToTurn == {"connect", "loop", "turn"}
Beginning == {d \in Drives : drive[d].step \in AboutToTurn}

(* While an approval is pending every such call has its turn, and no other *)
(* is begun but by a request for a step.                                   *)
TurnsLeft == pending => heldTurns + Cardinality(Beginning) <= 1 + steps

IInv == /\ TypeOK
        /\ CallsFit
        /\ RoomForOne
        /\ TurnsLeft
        /\ HeldTurnsBounded

-----------------------------------------------------------------------------
(* What a call of driveRoom can become.                                    *)

(* Free, just called, and about to finish or to go on.                     *)
LEMMA FreshCalls ==
  /\ Fits(Free) /\ Free.step = "free"
  /\ \A step \in DriveStep \ Turning :
       Fits([Free EXCEPT !.step = step]) /\ [Free EXCEPT !.step = step].step = step
  /\ \A failed \in BOOLEAN :
       /\ Fits([Free EXCEPT !.step = "finish", !.failed = failed])
       /\ [Free EXCEPT !.step = "finish", !.failed = failed].step = "finish"
  /\ \A idle \in 0..1, turn \in 0..TurnsPerPickup :
       /\ Fits([Free EXCEPT !.step = "loop", !.idle = idle, !.turn = turn])
       /\ [Free EXCEPT !.step = "loop", !.idle = idle, !.turn = turn].step = "loop"
<1>1. 0 \in 0..TurnsPerPickup /\ RuntimeAssumption
  BY RuntimeAssumption DEF RuntimeAssumption
<1>2. Free \in Call /\ Free.step = "free" /\ Free.idle = 0
  BY <1>1 DEF Free, Call, DriveStep
<1>3. /\ "free" \in DriveStep /\ "free" \notin Turning
      /\ "finish" \in DriveStep /\ "finish" \notin Turning
      /\ "loop" \in DriveStep /\ "loop" \notin Turning
  BY DEF DriveStep, Turning
<1>4. Fits(Free)
  BY <1>2, <1>3 DEF Fits
<1>5. ASSUME NEW step \in DriveStep \ Turning
      PROVE  Fits([Free EXCEPT !.step = step]) /\ [Free EXCEPT !.step = step].step = step
  BY <1>2 DEF Fits, Call
<1>6. ASSUME NEW failed \in BOOLEAN
      PROVE  /\ Fits([Free EXCEPT !.step = "finish", !.failed = failed])
             /\ [Free EXCEPT !.step = "finish", !.failed = failed].step = "finish"
  <2> DEFINE c == [Free EXCEPT !.step = "finish", !.failed = failed]
  <2>1. c \in Call /\ c.step = "finish" /\ c.idle = 0
    BY <1>2, <1>3 DEF Call
  <2> HIDE DEF c
  <2>2. Fits(c) /\ c.step = "finish"
    BY <1>3, <2>1 DEF Fits
  <2> QED
    BY <2>2 DEF c
<1>7. ASSUME NEW idle \in 0..1, NEW turn \in 0..TurnsPerPickup
      PROVE  /\ Fits([Free EXCEPT !.step = "loop", !.idle = idle, !.turn = turn])
             /\ [Free EXCEPT !.step = "loop", !.idle = idle, !.turn = turn].step = "loop"
  <2> DEFINE c == [Free EXCEPT !.step = "loop", !.idle = idle, !.turn = turn]
  <2>0. idle \in 0..2
    OBVIOUS
  <2>1. c \in Call
    BY <1>2, <1>3, <2>0 DEF Call
  <2>3. c.step = "loop" /\ c.idle = idle
    BY <1>2 DEF Call
  <2> HIDE DEF c
  <2>2. Fits(c) /\ c.step = "loop"
    BY <1>3, <2>1, <2>3 DEF Fits
  <2> QED
    BY <2>2 DEF c
<1> QED
  BY <1>2, <1>4, <1>5, <1>6, <1>7

(* What a step of a call is, as far as the locks and the turns go: the     *)
(* call d becomes c.                                                       *)
Becomes(d, c) ==
  /\ drive' = [drive EXCEPT ![d] = c]
  /\ Fits(c)
  /\ drive[d].step # "free"
  /\ c.step = "free" \/ driving' = driving
  /\ scan' = scan /\ steps' = steps
  /\ c.step \in AboutToTurn => drive[d].step \in AboutToTurn \/ ~pending'
  /\ \/ heldTurns' = heldTurns /\ (pending' => pending)
     \/ heldTurns' = 0 /\ ~pending
     \/ /\ heldTurns' = heldTurns + 1 /\ pending
        /\ drive[d].step \in AboutToTurn /\ c.step \notin AboutToTurn

LEMMA DriveBecomes ==
  ASSUME TypeOK, CallsFit, NEW d \in Drives,
         DriveNext(d) \/ FailTurn(d) \/ DriveFails(d) \/ QuiesceFails(d)
  PROVE  \E c : Becomes(d, c)
<1>0. /\ DOMAIN drive = Drives /\ drive[d] \in Call /\ Fits(drive[d])
      /\ heldTurns \in Nat /\ seq \in Nat /\ pending \in BOOLEAN
  BY DEF TypeOK, CallsFit
<1>1. ASSUME NEW step \in DriveStep, Goto(d, step),
             step \in Turning => drive[d].step \in Turning
      PROVE  /\ drive' = [drive EXCEPT ![d] = [drive[d] EXCEPT !.step = step]]
             /\ Fits([drive[d] EXCEPT !.step = step])
             /\ [drive[d] EXCEPT !.step = step].step = step
  BY <1>0, <1>1 DEF Goto, Fits, Call
<1>2. ASSUME EndDrive(d)
      PROVE  /\ drive' = [drive EXCEPT ![d] = [Free EXCEPT !.step = "finish"]]
             /\ Fits([Free EXCEPT !.step = "finish"])
             /\ [Free EXCEPT !.step = "finish"].step = "finish"
  BY <1>2, FreshCalls DEF EndDrive, DriveStep, Turning
<1>3. CASE Connect(d)
  BY <1>1, <1>3 DEF Connect, At, StreamUnchanged, BoundsUnchanged, Becomes, AboutToTurn, DriveStep,
     Turning
<1>4. CASE HaltRoom(d) \/ RefuseTurn(d)
  BY <1>2, <1>4 DEF HaltRoom, RefuseTurn, At, StreamUnchanged, BoundsUnchanged, Becomes, AboutToTurn
<1>5. CASE NextTurn(d)
  <2>1. CASE EndDrive(d)
    BY <1>2, <1>5, <2>1 DEF NextTurn, At, StreamUnchanged, BoundsUnchanged, Becomes, AboutToTurn
  <2>2. CASE /\ drive[d].turn < TurnsPerPickup
             /\ drive' = [drive EXCEPT ![d].step = "turn", ![d].before = seq]
    <3> DEFINE c == [drive[d] EXCEPT !.step = "turn", !.before = seq]
    <3>1. drive' = [drive EXCEPT ![d] = c]
      BY <1>0, <2>2
    <3>2. Fits(c) /\ c.step = "turn"
      BY <1>0, <2>2 DEF Fits, Call, DriveStep
    <3> HIDE DEF c
    <3> QED
      BY <1>5, <3>1, <3>2 DEF NextTurn, At, StreamUnchanged, BoundsUnchanged, Becomes, AboutToTurn
  <2> QED
    BY <1>5, <2>1, <2>2 DEF NextTurn
<1>6. CASE RunTurn(d)
  BY <1>0, <1>1, <1>6 DEF RunTurn, At, BoundsUnchanged, Becomes, AboutToTurn, DriveStep, Turning
<1>7. CASE PauseForBudget(d)
  <2>1. CASE Goto(d, "announce")
    BY <1>1, <1>7, <2>1 DEF PauseForBudget, At, StreamUnchanged, BoundsUnchanged, Becomes,
       AboutToTurn, DriveStep, Turning
  <2>2. CASE EndDrive(d)
    BY <1>2, <1>7, <2>2 DEF PauseForBudget, At, StreamUnchanged, BoundsUnchanged, Becomes, AboutToTurn
  <2> QED
    BY <1>7, <2>1, <2>2 DEF PauseForBudget
<1>8. CASE AnnouncePause(d) \/ ReportFailure(d)
  <2>1. /\ drive[d].step # "free" /\ EndDrive(d)
        /\ UNCHANGED <<pending, heldTurns, driving, scan, steps>>
    BY <1>8 DEF AnnouncePause, ReportFailure, At, BoundsUnchanged
  <2> QED
    BY <1>2, <2>1 DEF Becomes, AboutToTurn
<1>9. CASE ExecuteTurn(d) \/ AccountTurn(d)
  <2>1. /\ drive[d].step \in {"execute", "account"}
        /\ Goto(d, "account") \/ Goto(d, "submit")
        /\ UNCHANGED <<pending, heldTurns, driving, scan, steps>>
    BY <1>9 DEF ExecuteTurn, AccountTurn, At, StreamUnchanged, BoundsUnchanged
  <2> QED
    BY <1>1, <2>1 DEF Becomes, AboutToTurn, DriveStep, Turning
<1>10. ASSUME NEW answer \in Answer, SubmitAnswer(d, answer)
       PROVE  \E c : Becomes(d, c)
  <2>1. \/ heldTurns' = heldTurns /\ pending' = pending
        \/ pending' = TRUE /\ heldTurns' = IF pending THEN heldTurns ELSE 0
    BY <1>10 DEF SubmitAnswer, StreamUnchanged, HoldBegins
  <2>2. /\ At(d, "submit") /\ Goto(d, "check")
        /\ driving' = driving /\ scan' = scan /\ steps' = steps
    BY <1>10 DEF SubmitAnswer, BoundsUnchanged
  <2>3. /\ drive' = [drive EXCEPT ![d] = [drive[d] EXCEPT !.step = "check"]]
        /\ Fits([drive[d] EXCEPT !.step = "check"])
        /\ [drive[d] EXCEPT !.step = "check"].step = "check"
    BY <1>1, <2>2 DEF At, DriveStep, Turning
  <2>4. drive[d].step = "submit"
    BY <2>2 DEF At
  <2>5. \/ heldTurns' = heldTurns /\ (pending' => pending)
        \/ heldTurns' = 0 /\ ~pending
    BY <1>0, <2>1
  <2> QED
    BY <2>2, <2>3, <2>4, <2>5 DEF Becomes, AboutToTurn
<1>11. CASE AfterTurn(d)
  <2>1. CASE EndDrive(d)
    BY <1>2, <1>11, <2>1 DEF AfterTurn, At, StreamUnchanged, BoundsUnchanged, Becomes, AboutToTurn
  <2>2. CASE ~EndDrive(d)
    <3> DEFINE idle == IF seq = drive[d].before THEN drive[d].idle + 1 ELSE 0
               c == [Free EXCEPT !.step = "loop", !.idle = idle, !.turn = drive[d].turn + 1]
    <3>1. drive' = [drive EXCEPT ![d] = c] /\ ~pending /\ idle < 2 /\ At(d, "check")
      BY <1>0, <1>11, <2>2 DEF AfterTurn, Call
    <3>2. /\ idle \in 0..1
          /\ drive[d].turn + 1 \in 0..TurnsPerPickup
      BY <1>0, <3>1, RuntimeAssumption DEF Fits, Call, Turning, At
    <3> HIDE DEF idle
    <3>3. Fits(c) /\ c.step = "loop"
      BY ZenonT(30), <3>2, FreshCalls
    <3> HIDE DEF c
    <3> QED
      BY <1>11, <3>1, <3>3 DEF AfterTurn, At, StreamUnchanged, BoundsUnchanged, Becomes, AboutToTurn
  <2> QED
    BY <2>1, <2>2
<1>12. CASE Quiesce(d) \/ Park(d)
  <2>1. /\ drive[d].step \in {"finish", "park"}
        /\ Goto(d, "park") \/ Goto(d, "unlock")
        /\ UNCHANGED <<pending, heldTurns, driving, scan, steps>>
    BY <1>12 DEF Quiesce, Park, At, StreamUnchanged, BoundsUnchanged
  <2> QED
    BY <1>1, <2>1 DEF Becomes, AboutToTurn, DriveStep, Turning
<1>13. CASE Unlock(d)
  BY <1>13, FreshCalls DEF Unlock, At, StreamUnchanged, BoundsUnchanged, Becomes, AboutToTurn
<1>14. CASE FailTurn(d)
  BY <1>1, <1>14 DEF FailTurn, Mishap, StreamUnchanged, Becomes, AboutToTurn, DriveStep, Turning
<1>15. CASE DriveFails(d)
  BY <1>15, FreshCalls DEF DriveFails, Mishap, StreamUnchanged, Becomes, AboutToTurn
<1>16. CASE QuiesceFails(d)
  BY <1>1, <1>16 DEF QuiesceFails, Mishap, At, StreamUnchanged, Becomes, AboutToTurn, DriveStep,
     Turning
<1> QED
  BY <1>3, <1>4, <1>5, <1>6, <1>7, <1>8, <1>9, <1>10, <1>11, <1>12, <1>13, <1>14, <1>15, <1>16
  DEF DriveNext

(* A call of driveRoom takes a slot that was free.                         *)
LEMMA LaunchTakesSlot ==
  ASSUME TypeOK, CallsFit, Launch
  PROVE  /\ CallsFit' /\ drive' \in [Drives -> Call]
         /\ \E d \in Drives \ Live : /\ Live' = Live \cup {d}
                                     /\ Beginning' = Beginning \cup {d}
<1> DEFINE d == CHOOSE x \in Drives : x \notin Live
           c == [Free EXCEPT !.step = "connect"]
<1>1. d \in Drives /\ d \notin Live
  BY DEF Launch, Live
<1>2. drive' = [drive EXCEPT ![d] = c]
  BY DEF Launch
<1>3. Fits(c) /\ c.step = "connect"
  BY FreshCalls DEF DriveStep, Turning
<1> HIDE DEF d, c
<1>4. drive'[d] = c /\ \A x \in Drives : x # d => drive'[x] = drive[x]
  BY <1>1, <1>2 DEF TypeOK
<1>5. CallsFit' /\ drive' \in [Drives -> Call]
  BY <1>2, <1>3, <1>4 DEF CallsFit, TypeOK, Fits
<1>6. Live' = Live \cup {d}
  BY <1>1, <1>3, <1>4 DEF Live
<1>7. Beginning' = Beginning \cup {d}
  BY <1>1, <1>3, <1>4 DEF Beginning, AboutToTurn
<1> QED
  BY <1>1, <1>5, <1>6, <1>7

-----------------------------------------------------------------------------
(* Types.                                                                  *)

LEMMA BecomingFits ==
  ASSUME TypeOK, CallsFit, NEW d \in Drives, NEW c, Becomes(d, c)
  PROVE  CallsFit' /\ drive' \in [Drives -> Call]
BY DEF Becomes, CallsFit, TypeOK, Fits

(* What is not about the calls of driveRoom.                               *)
SurroundingsOK ==
  /\ room \in RoomState
  /\ turns \in Nat /\ seq \in Nat
  /\ staffed \in BOOLEAN /\ pending \in BOOLEAN
  /\ quiesced \in Nat \cup {-1}
  /\ driving \in BOOLEAN
  /\ scan \in [step : {"idle", "readEvents", "readApprovals"}, last : Nat]
  /\ steps \in 0..MaxIncidents /\ moves \in 0..MaxMoves /\ mishaps \in 0..MaxIncidents
  /\ storeFailed \in BOOLEAN
  /\ unread \in BOOLEAN
  /\ heldTurns \in Nat

LEMMA DriveSurroundings ==
  ASSUME SurroundingsOK, NEW d \in Drives, DriveNext(d)
  PROVE  SurroundingsOK'
<1> USE DEF SurroundingsOK, StreamUnchanged, BoundsUnchanged
<1>0. {"PAUSED", "COMPLETION_PROPOSED", "QUARANTINED"} \subseteq RoomState
  BY DEF RoomState
<1>1. CASE \/ Connect(d) \/ NextTurn(d) \/ RefuseTurn(d) \/ ExecuteTurn(d) \/ AfterTurn(d)
  BY <1>1 DEF Connect, NextTurn, RefuseTurn, ExecuteTurn, AfterTurn
<1>2. CASE HaltRoom(d)
  BY <1>0, <1>2 DEF HaltRoom
<1>3. CASE RunTurn(d)
  <2>1. /\ UNCHANGED <<room, turns, seq, pending, quiesced, driving, scan>>
        /\ UNCHANGED <<staffed, steps, moves, mishaps, storeFailed>>
        /\ unread' \in BOOLEAN
        /\ heldTurns' = heldTurns \/ heldTurns' = heldTurns + 1
    BY <1>3 DEF RunTurn
  <2> QED
    BY <2>1
<1>4. CASE PauseForBudget(d)
  BY <1>0, <1>4 DEF PauseForBudget
<1>5. CASE AnnouncePause(d) \/ ReportFailure(d)
  BY <1>5 DEF AnnouncePause, ReportFailure, AppendNotice
<1>6. CASE AccountTurn(d)
  BY <1>6 DEF AccountTurn
<1>7. ASSUME NEW answer \in Answer, SubmitAnswer(d, answer)
      PROVE  SurroundingsOK'
  <2>1. /\ UNCHANGED <<turns, staffed, quiesced, driving, scan, steps, moves, mishaps, storeFailed>>
        /\ room' \in {room, "COMPLETION_PROPOSED", "QUARANTINED"}
        /\ seq' \in {seq, seq + 1} /\ heldTurns' \in {heldTurns, 0}
    BY <1>7 DEF SubmitAnswer, AppendNotice, AppendForAgents, HoldBegins, MayBeQuarantined
  <2>2. unread' \in BOOLEAN /\ pending' \in BOOLEAN
    BY <1>7 DEF SubmitAnswer, AppendNotice, AppendForAgents, HoldBegins
  <2> QED
    BY <1>0, <2>1, <2>2
<1>8. CASE Quiesce(d) \/ Park(d)
  BY <1>8 DEF Quiesce, Park
<1>9. CASE Unlock(d)
  BY <1>9 DEF Unlock
<1> QED
  BY <1>1, <1>2, <1>3, <1>4, <1>5, <1>6, <1>7, <1>8, <1>9 DEF DriveNext

LEMMA OtherSurroundings ==
  ASSUME SurroundingsOK,
         \/ ScanNext \/ StepRequest \/ ScanFails \/ Restart \/ ConnectAgent
         \/ \E d \in Drives : FailTurn(d) \/ DriveFails(d) \/ QuiesceFails(d)
         \/ \E to \in RoomState : MoveRoom(to)
         \/ PostEvent \/ PostBlocked \/ PostHeld \/ Decide \/ Lapse
         \/ UNCHANGED vars
  PROVE  SurroundingsOK'
<1> USE DEF SurroundingsOK, StreamUnchanged, BoundsUnchanged
<1>0. /\ {"PAUSED", "COMPLETION_PROPOSED", "QUARANTINED"} \subseteq RoomState
      /\ NoScan \in [step : {"idle", "readEvents", "readApprovals"}, last : Nat]
      /\ MaxIncidents \in Nat /\ MaxMoves \in Nat
  BY RuntimeAssumption DEF RoomState, NoScan
<1>1. CASE ScanNext
  <2>1. CASE ListRooms
    BY <2>1 DEF ListRooms
  <2>2. CASE ReadEvents
    BY <1>0, <2>2 DEF ReadEvents
  <2>3. CASE ReadApprovals
    BY <1>0, <2>3 DEF ReadApprovals
  <2> QED
    BY <1>1, <2>1, <2>2, <2>3 DEF ScanNext
<1>2. CASE StepRequest
  BY <1>0, <1>2 DEF StepRequest
<1>3. CASE ScanFails \/ Restart
  <2>1. /\ UNCHANGED <<room, turns, seq, staffed, pending, steps, moves, unread, heldTurns>>
        /\ Mishap /\ scan' = NoScan /\ quiesced' \in {quiesced, -1}
    BY <1>3 DEF ScanFails, Restart
  <2>2. driving' \in BOOLEAN /\ storeFailed' \in BOOLEAN
    BY <1>3 DEF ScanFails, Restart
  <2> QED
    BY <1>0, <2>1, <2>2 DEF Mishap
<1>4. ASSUME NEW d \in Drives, FailTurn(d) \/ DriveFails(d) \/ QuiesceFails(d)
      PROVE  SurroundingsOK'
  <2>1. /\ UNCHANGED <<room, turns, seq, staffed, pending, quiesced, driving, scan>>
        /\ UNCHANGED <<steps, moves, unread, heldTurns>>
        /\ Mishap
    BY <1>4 DEF FailTurn, DriveFails, QuiesceFails
  <2>2. storeFailed' \in BOOLEAN
    BY <1>4 DEF FailTurn, DriveFails, QuiesceFails
  <2> QED
    BY <1>0, <2>1, <2>2 DEF Mishap
<1>5. ASSUME NEW to \in RoomState, MoveRoom(to)
      PROVE  SurroundingsOK'
  BY <1>0, <1>5 DEF MoveRoom, RuntimeUnchanged
<1>6. CASE PostEvent \/ PostBlocked \/ PostHeld \/ Decide \/ Lapse
  <2>1. /\ UNCHANGED <<turns, staffed, quiesced, driving, scan, steps, mishaps, storeFailed>>
        /\ room' \in {room, "COMPLETION_PROPOSED", "QUARANTINED"}
        /\ seq' \in {seq, seq + 1} /\ heldTurns' \in {heldTurns, 0}
        /\ moves' = moves
    BY <1>6 DEF PostEvent, PostBlocked, PostHeld, Decide, Lapse, AppendNotice, AppendForAgents,
       HoldBegins, MayBeQuarantined, MayBeProposed, RuntimeUnchanged
  <2>2. unread' \in BOOLEAN /\ pending' \in BOOLEAN
    BY <1>6 DEF PostEvent, PostBlocked, PostHeld, Decide, Lapse, AppendNotice, AppendForAgents,
       HoldBegins
  <2> QED
    BY <1>0, <2>1, <2>2
<1>7. CASE UNCHANGED vars
  BY <1>7 DEF vars
<1>8. CASE ConnectAgent
  BY <1>8 DEF ConnectAgent
<1> QED
  BY <1>1, <1>2, <1>3, <1>4, <1>5, <1>6, <1>7, <1>8

LEMMA StepKeepsType == TypeOK /\ CallsFit /\ [Next]_vars => TypeOK' /\ CallsFit'
<1> SUFFICES ASSUME TypeOK, CallsFit, [Next]_vars
             PROVE  SurroundingsOK' /\ drive' \in [Drives -> Call] /\ CallsFit'
  BY DEF TypeOK, SurroundingsOK
<1>1. SurroundingsOK
  BY DEF TypeOK, SurroundingsOK
<1>2. SurroundingsOK'
  BY <1>1, DriveSurroundings, OtherSurroundings DEF Next
<1>3. CASE drive' = drive
  BY <1>2, <1>3 DEF TypeOK, CallsFit
<1>4. CASE Launch
  BY <1>2, <1>4, LaunchTakesSlot
<1>5. CASE Restart
  BY <1>2, <1>5, FreshCalls DEF Restart, CallsFit, Fits
<1>6. ASSUME NEW d \in Drives, DriveNext(d) \/ FailTurn(d) \/ DriveFails(d) \/ QuiesceFails(d)
      PROVE  drive' \in [Drives -> Call] /\ CallsFit'
  BY <1>6, DriveBecomes, BecomingFits
<1> QED
  BY <1>2, <1>3, <1>4, <1>5, <1>6
  DEF Next, ScanNext, ListRooms, ReadEvents, ReadApprovals, StepRequest, ScanFails, ConnectAgent, MoveRoom,
      PostEvent, PostBlocked, PostHeld, Decide, Lapse, RuntimeUnchanged, vars

LEMMA InitType == Init => TypeOK /\ CallsFit
<1>1. "ACTIVE" \in RoomState /\ MaxIncidents \in Nat /\ MaxMoves \in Nat
  BY RuntimeAssumption DEF RoomState
<1>2. NoScan \in [step : {"idle", "readEvents", "readApprovals"}, last : Nat]
  BY DEF NoScan
<1>3. Fits(Free) /\ Free \in Call
  BY FreshCalls DEF Fits
<1>4. ASSUME Init
      PROVE  drive \in [Drives -> Call] /\ CallsFit
  BY <1>3, <1>4 DEF Init, CallsFit
<1>5. ASSUME Init
      PROVE  SurroundingsOK
  <2>1. /\ room = "ACTIVE" /\ turns = 0 /\ seq = 0 /\ quiesced = -1 /\ scan = NoScan
        /\ steps = 0 /\ moves = 0 /\ mishaps = 0 /\ heldTurns = 0
    BY <1>5 DEF Init
  <2>2. /\ staffed \in BOOLEAN /\ pending \in BOOLEAN /\ driving \in BOOLEAN
        /\ storeFailed \in BOOLEAN /\ unread \in BOOLEAN
    BY <1>5 DEF Init
  <2> QED
    BY <1>1, <1>2, <2>1, <2>2 DEF SurroundingsOK
<1> QED
  BY <1>4, <1>5 DEF TypeOK, SurroundingsOK

(* Every variable keeps its type.                                          *)
THEOREM TypeCorrect == Spec => []TypeOK
BY InitType, StepKeepsType, PTL DEF Spec

-----------------------------------------------------------------------------
(* The lock, and the turns that are begun while an approval is pending.    *)

(* The slots are finite, and so is what they are counted by.               *)
LEMMA Counts ==
  /\ IsFiniteSet(Live) /\ Cardinality(Live) \in Nat
  /\ IsFiniteSet(Beginning) /\ Cardinality(Beginning) \in Nat
  /\ Cardinality(Beginning) <= Cardinality(Live)
<1>1. IsFiniteSet(Drives) /\ Live \in SUBSET Drives
  BY RuntimeAssumption DEF Live
<1>2. IsFiniteSet(Live)
  BY <1>1, FS_Subset
<1>3. Beginning \in SUBSET Live
  BY DEF Beginning, Live, AboutToTurn
<1> QED
  BY <1>2, <1>3, FS_Subset, FS_CardinalityType

(* A step of a call leaves the others in their slots: fewer are live when  *)
(* it ends, and no more are about to turn, unless nothing is pending.      *)
LEMMA BecomingCounts ==
  ASSUME TypeOK, NEW d \in Drives, NEW c, Becomes(d, c)
  PROVE  /\ c.step # "free" => Live' = Live
         /\ c.step = "free" => Live' = Live \ {d} /\ d \in Live
         /\ pending' => Beginning' \in SUBSET Beginning
         /\ c.step \notin AboutToTurn => Beginning' = Beginning \ {d}
         /\ drive[d].step \in AboutToTurn => d \in Beginning
<1>1. drive'[d] = c /\ \A x \in Drives : x # d => drive'[x] = drive[x]
  BY DEF Becomes, TypeOK
<1>2. drive[d].step # "free"
  BY DEF Becomes
<1>3. c.step # "free" => Live' = Live
  BY <1>1, <1>2 DEF Live
<1>4. c.step = "free" => Live' = Live \ {d} /\ d \in Live
  BY <1>1, <1>2 DEF Live
<1>5. pending' => Beginning' \in SUBSET Beginning
  BY <1>1 DEF Becomes, Beginning
<1>6. c.step \notin AboutToTurn => Beginning' = Beginning \ {d}
  BY <1>1 DEF Beginning
<1> QED
  BY <1>3, <1>4, <1>5, <1>6 DEF Beginning

LEMMA BecomingKeeps ==
  ASSUME IInv, TypeOK', NEW d \in Drives, NEW c, Becomes(d, c)
  PROVE  RoomForOne' /\ TurnsLeft' /\ HeldTurnsBounded'
<1>0. /\ TypeOK /\ RoomForOne /\ TurnsLeft /\ HeldTurnsBounded
      /\ steps \in Nat /\ heldTurns \in Nat /\ heldTurns' \in Nat
      /\ scan' = scan /\ steps' = steps
      /\ pending \in BOOLEAN
  BY RuntimeAssumption DEF IInv, TypeOK, Becomes
<1>1. RoomForOne'
  <2>1. CASE c.step # "free"
    <3>1. Live' = Live /\ driving' = driving
      BY <1>0, <2>1, BecomingCounts DEF Becomes
    <3> QED
      BY <1>0, <3>1 DEF RoomForOne
  <2>2. CASE c.step = "free"
    <3>1. Live' = Live \ {d} /\ d \in Live
      BY <1>0, <2>2, BecomingCounts
    <3>2. Cardinality(Live \ {d}) = Cardinality(Live) - 1
      BY <3>1, Counts, FS_RemoveElement
    <3>3. Cardinality(Live') = Cardinality(Live) - 1
      BY <3>1, <3>2
    <3> QED
      BY <1>0, <3>3, Counts DEF RoomForOne
  <2> QED
    BY <2>1, <2>2
<1>2. TurnsLeft' /\ HeldTurnsBounded'
  <2>1. CASE heldTurns' = heldTurns /\ (pending' => pending)
    <3>1. pending' => Cardinality(Beginning') <= Cardinality(Beginning) /\ Cardinality(Beginning') \in Nat
      <4> SUFFICES ASSUME pending'
                   PROVE  Cardinality(Beginning') <= Cardinality(Beginning) /\ Cardinality(Beginning') \in Nat
        OBVIOUS
      <4>1. Beginning' \in SUBSET Beginning
        BY <1>0, BecomingCounts
      <4> QED
        BY <4>1, Counts, FS_Subset, FS_CardinalityType
    <3> QED
      BY <1>0, <2>1, <3>1, Counts DEF TurnsLeft, HeldTurnsBounded
  <2>2. CASE heldTurns' = 0 /\ ~pending
    <3>1. CASE pending'
      <4>1. Beginning' \in SUBSET Beginning
        BY <1>0, <3>1, BecomingCounts
      <4>2. Cardinality(Beginning') <= Cardinality(Beginning) /\ Cardinality(Beginning') \in Nat
        BY <4>1, Counts, FS_Subset, FS_CardinalityType
      <4>3. Cardinality(Live) <= 1 + steps
        BY <1>0 DEF RoomForOne
      <4> QED
        BY <1>0, <2>2, <4>2, <4>3, Counts DEF TurnsLeft, HeldTurnsBounded
    <3>2. CASE ~pending'
      BY <1>0, <2>2, <3>2 DEF TurnsLeft, HeldTurnsBounded
    <3> QED
      BY <3>1, <3>2
  <2>3. CASE /\ heldTurns' = heldTurns + 1 /\ pending
             /\ drive[d].step \in AboutToTurn /\ c.step \notin AboutToTurn
    <3>1. Beginning' = Beginning \ {d} /\ d \in Beginning
      BY <1>0, <2>3, BecomingCounts
    <3>2. Cardinality(Beginning \ {d}) = Cardinality(Beginning) - 1 /\ Cardinality(Beginning \ {d}) \in Nat
      BY <3>1, Counts, FS_RemoveElement, FS_CardinalityType
    <3>3. Cardinality(Beginning') = Cardinality(Beginning) - 1 /\ Cardinality(Beginning) - 1 \in Nat
      BY <3>1, <3>2
    <3> QED
      BY <1>0, <2>3, <3>3, Counts DEF TurnsLeft, HeldTurnsBounded
  <2> QED
    BY <2>1, <2>2, <2>3 DEF Becomes
<1> QED
  BY <1>1, <1>2

(* A step that leaves the calls alone.                                     *)
LEMMA CallsAlone ==
  ASSUME IInv, TypeOK', drive' = drive, driving' = driving, steps' = steps,
         scan'.step # "idle" => scan.step # "idle" \/ ~driving,
         \/ heldTurns' = heldTurns /\ (pending' => pending)
         \/ heldTurns' = 0 /\ ~pending
  PROVE  RoomForOne' /\ TurnsLeft' /\ HeldTurnsBounded'
<1>1. Live' = Live /\ Beginning' = Beginning
  BY DEF Live, Beginning
<1>2. steps \in Nat /\ heldTurns \in Nat
  BY RuntimeAssumption DEF IInv, TypeOK
<1>3. RoomForOne'
  BY <1>1 DEF IInv, RoomForOne
<1>4. Cardinality(Live) <= 1 + steps
  BY DEF IInv, RoomForOne
<1>5. TurnsLeft' /\ HeldTurnsBounded'
  BY <1>1, <1>2, <1>4, Counts DEF IInv, TurnsLeft, HeldTurnsBounded
<1> QED
  BY <1>3, <1>5

(* A drive is launched by the poll, which saw the lock free and nothing    *)
(* pending, or by a request for a step, which is one more.                 *)
LEMMA LaunchKeeps ==
  ASSUME IInv, TypeOK', Launch, driving' = TRUE, UNCHANGED <<pending, heldTurns>>,
         \/ steps' = steps /\ scan.step # "idle" /\ scan'.step = "idle" /\ ~pending
         \/ steps' = steps + 1 /\ ~driving /\ scan' = scan
  PROVE  RoomForOne' /\ TurnsLeft' /\ HeldTurnsBounded'
<1>0. /\ TypeOK /\ CallsFit /\ RoomForOne /\ TurnsLeft /\ HeldTurnsBounded
      /\ steps \in Nat /\ heldTurns \in Nat
  BY RuntimeAssumption DEF IInv, TypeOK
<1>1. PICK d \in Drives \ Live : /\ Live' = Live \cup {d}
                                 /\ Beginning' = Beginning \cup {d}
  BY <1>0, LaunchTakesSlot
<1>2. d \notin Live /\ d \notin Beginning
  BY DEF Live, Beginning, AboutToTurn
<1>3. /\ Cardinality(Live \cup {d}) = Cardinality(Live) + 1
      /\ Cardinality(Beginning \cup {d}) = Cardinality(Beginning) + 1
  BY <1>2, Counts, FS_AddElement
<1>4. /\ Cardinality(Live') = Cardinality(Live) + 1
      /\ Cardinality(Beginning') = Cardinality(Beginning) + 1
  BY <1>1, <1>3
<1>5. RoomForOne'
  BY <1>0, <1>4, Counts DEF RoomForOne
<1>6. TurnsLeft' /\ HeldTurnsBounded'
  BY <1>0, <1>4, Counts DEF TurnsLeft, HeldTurnsBounded
<1> QED
  BY <1>5, <1>6

(* The invariant is inductive.                                             *)
LEMMA Invariance == Spec => []IInv
<1>1. Init => IInv
  <2> SUFFICES ASSUME Init
               PROVE  RoomForOne /\ TurnsLeft /\ HeldTurnsBounded
    BY InitType DEF IInv
  <2>1. Live = {} /\ steps = 0 /\ heldTurns = 0 /\ ~pending
    BY DEF Init, Live, Free
  <2> QED
    BY <2>1, FS_EmptySet DEF RoomForOne, TurnsLeft, HeldTurnsBounded
<1>2. IInv /\ [Next]_vars => IInv'
  <2> SUFFICES ASSUME IInv, [Next]_vars
               PROVE  RoomForOne' /\ TurnsLeft' /\ HeldTurnsBounded'
    BY StepKeepsType DEF IInv
  <2>0. /\ TypeOK /\ CallsFit /\ TypeOK'
    BY StepKeepsType DEF IInv
  <2> DEFINE Kept == RoomForOne' /\ TurnsLeft' /\ HeldTurnsBounded'
  <2>1. ASSUME NEW d \in Drives, DriveNext(d) \/ FailTurn(d) \/ DriveFails(d) \/ QuiesceFails(d)
        PROVE  Kept
    BY <2>0, <2>1, DriveBecomes, BecomingKeeps
  <2>2. CASE ListRooms \/ ReadEvents \/ ScanFails
    <3>1. /\ drive' = drive /\ driving' = driving /\ steps' = steps
          /\ UNCHANGED <<pending, heldTurns>>
          /\ scan'.step # "idle" => scan.step # "idle" \/ ~driving
      BY <2>2 DEF ListRooms, ReadEvents, ScanFails, Mishap, NoScan, StreamUnchanged, BoundsUnchanged
    <3> QED
      BY <2>0, <3>1, CallsAlone
  <2>3. CASE ReadApprovals
    <3>1. CASE pending /\ quiesced' = scan.last /\ UNCHANGED <<driving, drive>>
      <4>1. /\ drive' = drive /\ driving' = driving /\ steps' = steps
            /\ UNCHANGED <<pending, heldTurns>>
            /\ scan'.step = "idle"
        BY <2>3, <3>1 DEF ReadApprovals, NoScan, StreamUnchanged, BoundsUnchanged
      <4> QED
        BY <2>0, <4>1, CallsAlone
    <3>2. CASE ~pending /\ driving' = TRUE /\ Launch /\ UNCHANGED quiesced
      <4>1. /\ steps' = steps /\ scan.step # "idle" /\ scan'.step = "idle"
            /\ UNCHANGED <<pending, heldTurns>>
        BY <2>3 DEF ReadApprovals, NoScan, StreamUnchanged, BoundsUnchanged
      <4> QED
        BY <2>0, <3>2, <4>1, LaunchKeeps
    <3> QED
      BY <2>3, <3>1, <3>2 DEF ReadApprovals
  <2>4. CASE StepRequest
    <3>1. /\ steps' = steps + 1 /\ ~driving /\ scan' = scan /\ driving' = TRUE /\ Launch
          /\ UNCHANGED <<pending, heldTurns>>
      BY <2>4 DEF StepRequest, StreamUnchanged
    <3> QED
      BY <2>0, <3>1, LaunchKeeps
  <2>5. CASE Restart
    <3>1. /\ Live' = {} /\ Beginning' = {} /\ UNCHANGED <<pending, heldTurns, steps>>
      BY <2>5 DEF Restart, Live, Beginning, Free, AboutToTurn, StreamUnchanged
    <3>2. Cardinality(Live') = 0 /\ Cardinality(Beginning') = 0
      BY <3>1, FS_EmptySet
    <3>3. steps \in Nat /\ heldTurns \in Nat
      BY <2>0, RuntimeAssumption DEF TypeOK
    <3> QED
      BY <3>1, <3>2, <3>3 DEF IInv, RoomForOne, TurnsLeft, HeldTurnsBounded
  <2>6. ASSUME \/ \E to \in RoomState : MoveRoom(to)
               \/ PostEvent \/ PostBlocked \/ PostHeld \/ Decide \/ Lapse
               \/ ConnectAgent \/ UNCHANGED vars
        PROVE  Kept
    <3>1. drive' = drive /\ driving' = driving /\ steps' = steps /\ scan' = scan
      BY <2>6 DEF MoveRoom, PostEvent, PostBlocked, PostHeld, Decide, Lapse, ConnectAgent,
         RuntimeUnchanged, vars
    <3>2. \/ heldTurns' = heldTurns /\ (pending' => pending)
          \/ heldTurns' = 0 /\ ~pending
      <4>1. CASE PostHeld
        BY <4>1 DEF PostHeld, HoldBegins
      <4>2. CASE Decide \/ Lapse
        BY <4>2 DEF Decide, Lapse
      <4>3. CASE \/ \E to \in RoomState : MoveRoom(to)
                 \/ PostEvent \/ PostBlocked \/ ConnectAgent \/ UNCHANGED vars
        BY <4>3 DEF MoveRoom, PostEvent, PostBlocked, ConnectAgent, StreamUnchanged, vars
      <4> QED
        BY <2>6, <4>1, <4>2, <4>3
    <3> QED
      BY <2>0, <3>1, <3>2, CallsAlone
  <2> QED
    BY <2>1, <2>2, <2>3, <2>4, <2>5, <2>6 DEF Next, ScanNext
<1> QED
  BY <1>1, <1>2, PTL DEF Spec

(* The lock holds but for requests for a step: at most one drive more than *)
(* there were such requests is in flight, for any number of slots.         *)
THEOREM LockHolds == Spec => []DrivesBounded
<1>1. IInv => DrivesBounded
  BY DEF IInv, RoomForOne, DrivesBounded
<1> QED
  BY <1>1, Invariance, PTL

(* A room that waits for a human gets no more turns than were on their way,*)
(* and one for every request for a step, wherever the process restarts.    *)
THEOREM RoomWaits == Spec => []HeldTurnsBounded
<1>1. IInv => HeldTurnsBounded
  BY DEF IInv
<1> QED
  BY <1>1, Invariance, PTL

-----------------------------------------------------------------------------
(* The outbox: the parts of the invariant.                                 *)

Tick == [step : TickStep, todo : SUBSET Claimed, current : Claimed]

(* The types, but for the number of attempts.                              *)
MailTyped ==
  /\ approval \in {"NONE", "PENDING", "DECIDED"}
  /\ request \in [step : {"idle", "pending", "reminder", "over"}, todo : SUBSET Users]
  /\ telling \subseteq Users /\ proposals \in 0..MaxProposals
  /\ outbox \in [Notification -> Row]
  /\ tick \in [Dispatchers -> Tick]
  /\ mailbox \in [Notification -> Nat]
  /\ late \in Nat
  /\ troubles \in 0..MaxTroubles

(* There is one process, and so one dispatcher.                            *)
OneDispatcher == \E d \in Dispatchers : \A e \in Dispatchers : e = d

Delivering == {"suppress", "send", "markSent", "markFailed"}

(* What a dispatcher has claimed and not dealt with.                       *)
InHand(d) == tick[d].todo \cup (IF tick[d].step \in Delivering THEN {tick[d].current} ELSE {})

(* What a dispatcher has in hand is as it was when it claimed it.          *)
HandsInOrder ==
  \A d \in Dispatchers :
    /\ tick[d].step = "idle" => tick[d].todo = {}
    /\ \A c \in InHand(d) : outbox[c.n].status = "PENDING" /\ outbox[c.n].attempts = c.attempts
    /\ tick[d].step \in Delivering => tick[d].current \notin tick[d].todo

(* A row that nobody has in hand has an attempt left for its next claim.   *)
AttemptsLeft ==
  \A n \in Notification :
    /\ outbox[n].attempts <= MaxAttempts + troubles
    /\ outbox[n].status = "PENDING" =>
         \/ outbox[n].attempts < MaxAttempts + troubles
         \/ \E d \in Dispatchers : \E c \in InHand(d) : c.n = n

(* What is neither marked nor about to be was delivered in troubles only.  *)
CopiesCounted ==
  \A n \in Notification :
    /\ outbox[n].status = "ABSENT" => mailbox[n] = 0
    /\ \/ mailbox[n] <= troubles
       \/ /\ mailbox[n] = 1 + troubles
          /\ \/ outbox[n].status = "SENT"
             \/ \E d \in Dispatchers : tick[d].step = "markSent" /\ Current(d) = n

(* The reminders that were checked and are on their way.                   *)
Reminding == {d \in Dispatchers : tick[d].step = "send" /\ Current(d).kind = "approval_reminder"}

RemindersCounted ==
  /\ approval # "DECIDED" => late = 0
  /\ late + Cardinality(Reminding) <= Cardinality(Dispatchers)

-----------------------------------------------------------------------------
(* Types of the outbox.                                                    *)

LEMMA IdleIsTick ==
  /\ NoOne \in Claimed
  /\ Idle \in Tick /\ Idle.step = "idle" /\ Idle.todo = {}
<1>1. PICK u \in Users : TRUE
  BY NotificationsAssumption
<1>2. [kind |-> "approval_pending", user |-> u] \in Notification
  BY DEF Notification, Kind
<1>3. [n |-> [kind |-> "approval_pending", user |-> u], attempts |-> 0]
        \in [n : Notification, attempts : {0}]
  BY <1>2
<1>4. NoOne \in [n : Notification, attempts : {0}]
  BY <1>3 DEF NoOne
<1>5. NoOne \in Claimed
  BY <1>4 DEF Claimed
<1> QED
  BY <1>5 DEF Idle, Tick, TickStep

(* What a step of dispatcher d leaves of the others.                       *)
Others(d) == tick' \in [Dispatchers -> Tick] /\ \A e \in Dispatchers \ {d} : tick'[e] = tick[e]

LEMMA Replacing ==
  ASSUME MailTyped, NEW d \in Dispatchers, NEW r \in Tick, tick' = [tick EXCEPT ![d] = r]
  PROVE  Others(d) /\ tick'[d] = r
<1> QED
  BY DEF MailTyped, Others

LEMMA GotoMoves ==
  ASSUME MailTyped, NEW d \in Dispatchers, NEW step \in TickStep, TickGoto(d, step)
  PROVE  /\ Others(d) /\ tick'[d].step = step
         /\ tick'[d].todo = tick[d].todo /\ tick'[d].current = tick[d].current
<1> DEFINE r == [tick[d] EXCEPT !.step = step]
<1>1. tick[d] \in Tick /\ tick \in [Dispatchers -> Tick]
  BY DEF MailTyped
<1>2. /\ r \in Tick /\ r.step = step
      /\ r.todo = tick[d].todo /\ r.current = tick[d].current
  BY <1>1 DEF Tick
<1>3. tick' = [tick EXCEPT ![d] = r]
  BY <1>1 DEF TickGoto
<1> HIDE DEF r
<1> QED
  BY <1>2, <1>3, Replacing

LEMMA GoOnMoves ==
  ASSUME MailTyped, NEW d \in Dispatchers, GoOn(d)
  PROVE  Others(d) /\ tick'[d].step = "next" /\ tick'[d].todo = tick[d].todo
<1> DEFINE r == [tick[d] EXCEPT !.step = "next", !.current = NoOne]
<1>1. tick[d] \in Tick /\ tick \in [Dispatchers -> Tick]
  BY DEF MailTyped
<1>2. r \in Tick /\ r.step = "next" /\ r.todo = tick[d].todo
  BY <1>1, IdleIsTick DEF Tick, TickStep
<1>3. tick' = [tick EXCEPT ![d] = r]
  BY <1>1 DEF GoOn
<1> HIDE DEF r
<1> QED
  BY <1>2, <1>3, Replacing

LEMMA TakeNextMoves ==
  ASSUME MailTyped, NEW d \in Dispatchers, TakeNext(d)
  PROVE  /\ Others(d) /\ tick[d].step = "next"
         /\ \E c \in tick[d].todo :
              /\ tick'[d].step = (IF ShouldSuppress(c.n) THEN "suppress" ELSE "send")
              /\ tick'[d].todo = tick[d].todo \ {c} /\ tick'[d].current = c
<1>1. tick[d] \in Tick /\ tick \in [Dispatchers -> Tick] /\ tick[d].todo \subseteq Claimed
  BY DEF MailTyped, Tick
<1>2. PICK c \in tick[d].todo :
        tick' = [tick EXCEPT ![d] = [step    |-> IF ShouldSuppress(c.n) THEN "suppress" ELSE "send",
                                     todo    |-> tick[d].todo \ {c},
                                     current |-> c]]
  BY <1>1 DEF TakeNext
<1> DEFINE step == IF ShouldSuppress(c.n) THEN "suppress" ELSE "send"
           r == [step |-> step, todo |-> tick[d].todo \ {c}, current |-> c]
<1>3. step \in TickStep
  BY DEF TickStep
<1>4. r \in Tick /\ r.step = step /\ r.todo = tick[d].todo \ {c} /\ r.current = c
  BY <1>1, <1>3 DEF Tick
<1>5. tick' = [tick EXCEPT ![d] = r]
  BY <1>2
<1> HIDE DEF r
<1>6. Others(d) /\ tick'[d] = r
  BY <1>4, <1>5, Replacing
<1> QED
  BY <1>4, <1>6 DEF TakeNext, TickAt

LEMMA ClaimMoves ==
  ASSUME MailTyped, NEW d \in Dispatchers, NEW batch \in SUBSET Notification, Claim(d, batch)
  PROVE  /\ Others(d) /\ tick[d].step = "idle" /\ tick'[d].step = "next"
         /\ tick'[d].todo = {[n |-> n, attempts |-> outbox[n].attempts + 1] : n \in batch}
<1> DEFINE todo == {[n |-> n, attempts |-> outbox[n].attempts + 1] : n \in batch}
           r == [tick[d] EXCEPT !.step = "next", !.todo = todo]
<1>1. tick[d] \in Tick /\ tick \in [Dispatchers -> Tick]
  BY DEF MailTyped
<1>2. \A n \in Notification : outbox[n].attempts \in Nat
  BY DEF MailTyped, Row
<1>3. todo \in SUBSET Claimed
  BY <1>2 DEF Claimed
<1>4. tick' = [tick EXCEPT ![d] = r] /\ tick[d].step = "idle"
  BY <1>1 DEF Claim, TickAt
<1> HIDE DEF todo
<1>5. r \in Tick /\ r.step = "next" /\ r.todo = todo
  BY <1>1, <1>3 DEF Tick, TickStep
<1> HIDE DEF r
<1>6. Others(d) /\ tick'[d] = r
  BY <1>4, <1>5, Replacing
<1> QED
  BY <1>4, <1>5, <1>6 DEF todo

LEMMA IdleMoves ==
  ASSUME MailTyped, NEW d \in Dispatchers, tick' = [tick EXCEPT ![d] = Idle]
  PROVE  Others(d) /\ tick'[d].step = "idle" /\ tick'[d].todo = {}
<1> QED
  BY IdleIsTick, Replacing

-----------------------------------------------------------------------------
(* The types are kept.                                                     *)

(* A row with another status, another count or another time.               *)
LEMMA RowChanges ==
  ASSUME MailTyped, NEW n \in Notification, NEW row \in Row, outbox' = [outbox EXCEPT ![n] = row]
  PROVE  /\ outbox' \in [Notification -> Row]
         /\ outbox'[n] = row
         /\ \A m \in Notification \ {n} : outbox'[m] = outbox[m]
<1> QED
  BY DEF MailTyped

(* What is queued is new, or was there.                                    *)
LEMMA QueuedRows ==
  ASSUME MailTyped, NEW n \in Notification, NEW due \in BOOLEAN, outbox' = Queued(n, due)
  PROVE  /\ outbox' \in [Notification -> Row]
         /\ \A m \in Notification :
              \/ outbox'[m].status = outbox[m].status /\ outbox'[m].attempts = outbox[m].attempts
              \/ /\ outbox[m].status = "ABSENT"
                 /\ outbox'[m].status = "PENDING" /\ outbox'[m].attempts = 0
<1> DEFINE row == [status |-> "PENDING", attempts |-> 0, due |-> due]
<1>1. row \in Row /\ row.status = "PENDING" /\ row.attempts = 0
  BY DEF Row
<1>2. CASE outbox[n].status = "ABSENT"
  <2>1. outbox' = [outbox EXCEPT ![n] = row]
    BY <1>2 DEF Queued
  <2> HIDE DEF row
  <2>2. outbox'[n] = row /\ outbox' \in [Notification -> Row]
        /\ \A m \in Notification \ {n} : outbox'[m] = outbox[m]
    BY <1>1, <2>1, RowChanges
  <2> QED
    BY <1>1, <1>2, <2>2
<1>3. CASE outbox[n].status # "ABSENT"
  BY <1>3 DEF Queued, MailTyped
<1> QED
  BY <1>2, <1>3

LEMMA MailOf ==
  ASSUME NEW u \in Users, NEW kind \in Kind
  PROVE  [kind |-> kind, user |-> u] \in Notification
<1> QED
  BY DEF Notification

LEMMA CurrentTyped ==
  ASSUME MailTyped, NEW d \in Dispatchers
  PROVE  /\ tick[d] \in Tick /\ tick[d].current \in Claimed /\ tick[d].todo \subseteq Claimed
         /\ Current(d) \in Notification /\ outbox[Current(d)] \in Row
         /\ tick[d].current.attempts \in Nat
<1>1. tick[d] \in Tick
  BY DEF MailTyped
<1>2. tick[d].current \in Claimed /\ tick[d].todo \subseteq Claimed
  BY <1>1 DEF Tick
<1>3. tick[d].current.n \in Notification /\ tick[d].current.attempts \in Nat
  BY <1>2 DEF Claimed
<1> QED
  BY <1>1, <1>2, <1>3 DEF Current, MailTyped

(* What a dispatcher marks, and what it leaves.                            *)
Marked(d) ==
  /\ outbox' \in [Notification -> Row]
  /\ \A m \in Notification \ {Current(d)} : outbox'[m] = outbox[m]
  /\ outbox'[Current(d)].attempts = outbox[Current(d)].attempts
  /\ Others(d) /\ tick'[d].step = "next" /\ tick'[d].todo = tick[d].todo

LEMMA SentMarks ==
  ASSUME MailTyped, NEW d \in Dispatchers, Suppress(d) \/ MarkSent(d)
  PROVE  /\ Marked(d) /\ outbox'[Current(d)].status = "SENT"
         /\ tick[d].step \in {"suppress", "markSent"}
<1>1. outbox[Current(d)] \in Row /\ Current(d) \in Notification
  BY CurrentTyped
<1> DEFINE row == [outbox[Current(d)] EXCEPT !.status = "SENT"]
<1>2. row \in Row /\ row.status = "SENT" /\ row.attempts = outbox[Current(d)].attempts
  BY <1>1 DEF Row
<1>3. outbox' = [outbox EXCEPT ![Current(d)] = row] /\ GoOn(d)
      /\ tick[d].step \in {"suppress", "markSent"}
  BY <1>1 DEF Suppress, MarkSent, TickAt, MailTyped
<1> HIDE DEF row
<1>4. outbox'[Current(d)] = row /\ outbox' \in [Notification -> Row]
      /\ \A m \in Notification \ {Current(d)} : outbox'[m] = outbox[m]
  BY <1>1, <1>2, <1>3, RowChanges
<1>5. Others(d) /\ tick'[d].step = "next" /\ tick'[d].todo = tick[d].todo
  BY <1>3, GoOnMoves
<1> QED
  BY <1>2, <1>3, <1>4, <1>5 DEF Marked

LEMMA FailedMarks ==
  ASSUME MailTyped, NEW d \in Dispatchers, MarkFailed(d)
  PROVE  /\ Marked(d) /\ tick[d].step = "markFailed"
         /\ \/ outbox'[Current(d)].status = "FAILED"
            \/ outbox'[Current(d)].status = "PENDING" /\ tick[d].current.attempts < MaxAttempts
<1>1. outbox[Current(d)] \in Row /\ Current(d) \in Notification /\ tick[d].current.attempts \in Nat
  BY CurrentTyped
<1> DEFINE giveUp == GiveUp(tick[d].current.attempts)
           old    == outbox[Current(d)]
           row    == [old EXCEPT !.status = IF giveUp THEN "FAILED" ELSE "PENDING",
                                 !.due    = giveUp /\ old.due]
<1>2. (giveUp /\ old.due) \in BOOLEAN /\ giveUp \in BOOLEAN
  BY <1>1 DEF GiveUp
<1>3. row \in Row /\ row.status = (IF giveUp THEN "FAILED" ELSE "PENDING") /\ row.attempts = old.attempts
  BY <1>1, <1>2 DEF Row
<1>4. outbox' = [outbox EXCEPT ![Current(d)] = row] /\ GoOn(d) /\ tick[d].step = "markFailed"
  BY <1>1 DEF MarkFailed, TickAt
<1> HIDE DEF row
<1>5. outbox'[Current(d)] = row /\ outbox' \in [Notification -> Row]
      /\ \A m \in Notification \ {Current(d)} : outbox'[m] = outbox[m]
  BY <1>1, <1>3, <1>4, RowChanges
<1>6. Others(d) /\ tick'[d].step = "next" /\ tick'[d].todo = tick[d].todo
  BY <1>4, GoOnMoves
<1>7. \/ row.status = "FAILED"
      \/ row.status = "PENDING" /\ tick[d].current.attempts < MaxAttempts
  BY NotificationsAssumption, <1>1, <1>3 DEF GiveUp
<1> QED
  BY <1>3, <1>4, <1>5, <1>6, <1>7 DEF Marked

LEMMA ClaimedRows ==
  ASSUME MailTyped, NEW d \in Dispatchers, NEW batch \in SUBSET Due, Claim(d, batch)
  PROVE  /\ outbox' \in [Notification -> Row]
         /\ \A n \in Notification :
              /\ outbox'[n].status = outbox[n].status
              /\ outbox'[n].attempts = IF n \in batch THEN outbox[n].attempts + 1 ELSE outbox[n].attempts
<1>1. \A n \in Notification : outbox[n] \in Row
  BY DEF MailTyped
<1>2. \A row \in Row : /\ [row EXCEPT !.attempts = row.attempts + 1] \in Row
                       /\ [row EXCEPT !.attempts = row.attempts + 1].status = row.status
                       /\ [row EXCEPT !.attempts = row.attempts + 1].attempts = row.attempts + 1
  BY DEF Row
<1>3. outbox' = [n \in Notification |->
                   IF n \in batch THEN [outbox[n] EXCEPT !.attempts = outbox[n].attempts + 1] ELSE outbox[n]]
  BY DEF Claim
<1> QED
  BY <1>1, <1>2, <1>3

(* Copies of a mail, delivered one at a time.                              *)
LEMMA Delivered ==
  ASSUME MailTyped, NEW d \in Dispatchers, Deliver(d)
  PROVE  /\ mailbox' \in [Notification -> Nat]
         /\ mailbox'[Current(d)] = mailbox[Current(d)] + 1
         /\ \A m \in Notification \ {Current(d)} : mailbox'[m] = mailbox[m]
         /\ late' \in Nat
<1>1. Current(d) \in Notification
  BY CurrentTyped
<1> QED
  BY <1>1 DEF Deliver, MailTyped

(* What the requests, the humans and time do to the rows.                  *)
RowsKept ==
  /\ outbox' \in [Notification -> Row]
  /\ tick' = tick /\ mailbox' = mailbox
  /\ \A m \in Notification :
       \/ outbox'[m].status = outbox[m].status /\ outbox'[m].attempts = outbox[m].attempts
       \/ /\ outbox[m].status = "ABSENT"
          /\ outbox'[m].status = "PENDING" /\ outbox'[m].attempts = 0

(* The steps that no dispatcher takes.                                     *)
Elsewhere ==
  \/ CreateApproval \/ ProposeCompletion \/ DecideApproval
  \/ \E u \in Users : EnqueuePending(u) \/ EnqueueReminder(u) \/ EnqueueProposed(u)
  \/ \E n \in Notification : BecomeDue(n)
  \/ CrashRequest

LEMMA ElsewhereTyped ==
  ASSUME MailTyped, Elsewhere
  PROVE  /\ MailTyped' /\ RowsKept
         /\ troubles' \in {troubles, troubles + 1} /\ late' = late
         /\ approval = "DECIDED" => approval' = "DECIDED"
<1>1. CASE CreateApproval
  BY <1>1 DEF CreateApproval, MailTyped, RowsKept
<1>2. CASE ProposeCompletion
  BY NotificationsAssumption, <1>2 DEF ProposeCompletion, MailTyped, RowsKept
<1>3. CASE DecideApproval
  BY <1>3 DEF DecideApproval, MailTyped, RowsKept
<1>4. ASSUME NEW u \in Users, EnqueuePending(u)
      PROVE  /\ MailTyped' /\ RowsKept
             /\ troubles' = troubles /\ late' = late /\ approval' = approval
  <2>1. /\ outbox' \in [Notification -> Row]
        /\ \A m \in Notification :
             \/ outbox'[m].status = outbox[m].status /\ outbox'[m].attempts = outbox[m].attempts
             \/ /\ outbox[m].status = "ABSENT"
                /\ outbox'[m].status = "PENDING" /\ outbox'[m].attempts = 0
    BY <1>4, QueuedRows, MailOf DEF EnqueuePending, Kind
  <2> QED
    BY <1>4, <2>1 DEF EnqueuePending, MailTyped, RowsKept
<1>5. ASSUME NEW u \in Users, EnqueueReminder(u)
      PROVE  /\ MailTyped' /\ RowsKept
             /\ troubles' = troubles /\ late' = late /\ approval' = approval
  <2>1. /\ outbox' \in [Notification -> Row]
        /\ \A m \in Notification :
             \/ outbox'[m].status = outbox[m].status /\ outbox'[m].attempts = outbox[m].attempts
             \/ /\ outbox[m].status = "ABSENT"
                /\ outbox'[m].status = "PENDING" /\ outbox'[m].attempts = 0
    BY <1>5, QueuedRows, MailOf DEF EnqueueReminder, Kind
  <2> QED
    BY <1>5, <2>1 DEF EnqueueReminder, MailTyped, RowsKept
<1>6. ASSUME NEW u \in Users, EnqueueProposed(u)
      PROVE  /\ MailTyped' /\ RowsKept
             /\ troubles' = troubles /\ late' = late /\ approval' = approval
  <2>1. /\ outbox' \in [Notification -> Row]
        /\ \A m \in Notification :
             \/ outbox'[m].status = outbox[m].status /\ outbox'[m].attempts = outbox[m].attempts
             \/ /\ outbox[m].status = "ABSENT"
                /\ outbox'[m].status = "PENDING" /\ outbox'[m].attempts = 0
    BY <1>6, QueuedRows, MailOf DEF EnqueueProposed, Kind
  <2> QED
    BY <1>6, <2>1 DEF EnqueueProposed, MailTyped, RowsKept
<1>7. ASSUME NEW n \in Notification, BecomeDue(n)
      PROVE  /\ MailTyped' /\ RowsKept
             /\ troubles' = troubles /\ late' = late /\ approval' = approval
  <2> DEFINE row == [outbox[n] EXCEPT !.due = TRUE]
  <2>1. row \in Row /\ row.status = outbox[n].status /\ row.attempts = outbox[n].attempts
    BY DEF Row, MailTyped
  <2>2. outbox' = [outbox EXCEPT ![n] = row]
    BY <1>7 DEF BecomeDue, MailTyped
  <2> HIDE DEF row
  <2>3. /\ outbox' \in [Notification -> Row]
        /\ \A m \in Notification :
             outbox'[m].status = outbox[m].status /\ outbox'[m].attempts = outbox[m].attempts
    BY <2>1, <2>2, RowChanges
  <2> QED
    BY <1>7, <2>3 DEF BecomeDue, MailTyped, RowsKept
<1>8. CASE CrashRequest
  BY NotificationsAssumption, <1>8 DEF CrashRequest, Trouble, MailTyped, RowsKept
<1> QED
  BY <1>1, <1>2, <1>3, <1>4, <1>5, <1>6, <1>7, <1>8 DEF Elsewhere

(* The steps that dispatcher d takes, and what can befall it.              *)
Dispatching(d) == TickNext(d) \/ SendTimesOut(d) \/ MarkSentFails(d) \/ CrashDispatcher(d)

(* The types after a step of a dispatcher.                                 *)
LEMMA DispatcherTyped ==
  ASSUME MailTyped, NEW d \in Dispatchers,
         Dispatching(d)
  PROVE  /\ MailTyped' /\ Others(d)
         /\ troubles' \in {troubles, troubles + 1} /\ approval' = approval
<1> DEFINE Rest == /\ approval' = approval /\ request' = request
                   /\ telling' = telling /\ proposals' = proposals
<1>1. ASSUME NEW batch \in SUBSET Due, Claim(d, batch)
      PROVE  /\ Rest /\ Others(d) /\ mailbox' = mailbox /\ late' = late /\ troubles' = troubles
             /\ outbox' \in [Notification -> Row]
  BY <1>1, ClaimedRows, ClaimMoves DEF Claim, Due
<1>2. CASE TakeNext(d)
  BY <1>2, TakeNextMoves DEF TakeNext, MailTyped, Others
<1>3. CASE TickDone(d)
  BY <1>3, IdleMoves DEF TickDone, MailTyped, Others
<1>4. ASSUME Suppress(d) \/ MarkSent(d)
      PROVE  /\ Rest /\ Others(d) /\ mailbox' = mailbox /\ late' = late /\ troubles' = troubles
             /\ outbox' \in [Notification -> Row]
  BY <1>4, SentMarks DEF Suppress, MarkSent, Marked
<1>5. ASSUME MarkFailed(d)
      PROVE  /\ Rest /\ Others(d) /\ mailbox' = mailbox /\ late' = late /\ troubles' = troubles
             /\ outbox' \in [Notification -> Row]
  BY <1>5, FailedMarks DEF MarkFailed, Marked
<1>6. ASSUME Send(d) \/ SendTimesOut(d)
      PROVE  /\ Rest /\ Others(d) /\ outbox' = outbox
             /\ mailbox' \in [Notification -> Nat] /\ late' \in Nat
             /\ troubles' \in {troubles, troubles + 1} /\ troubles' \in 0..MaxTroubles
  <2>1. "markSent" \in TickStep /\ "markFailed" \in TickStep
    BY DEF TickStep
  <2>2. Deliver(d) /\ Others(d)
    BY <1>6, <2>1, GotoMoves DEF Send, SendTimesOut
  <2> QED
    BY NotificationsAssumption, <1>6, <2>2, Delivered DEF Send, SendTimesOut, Trouble, MailTyped
<1>7. CASE SendFails(d) \/ MarkSentFails(d)
  <2>1. Others(d)
    BY <1>7, GotoMoves DEF SendFails, MarkSentFails, TickStep
  <2> QED
    BY NotificationsAssumption, <1>7, <2>1 DEF SendFails, MarkSentFails, Trouble, MailTyped, Others
<1>8. CASE CrashDispatcher(d)
  <2>1. Others(d)
    BY <1>8, IdleMoves DEF CrashDispatcher
  <2> QED
    BY NotificationsAssumption, <1>8, <2>1 DEF CrashDispatcher, Trouble, MailTyped, Others
<1>9. CASE \E batch \in SUBSET Due : Claim(d, batch)
  BY <1>1, <1>9 DEF MailTyped, Others
<1>10. CASE Suppress(d) \/ MarkSent(d)
  BY <1>4, <1>10 DEF MailTyped, Others
<1>11. CASE MarkFailed(d)
  BY <1>5, <1>11 DEF MailTyped, Others
<1>12. CASE Send(d) \/ SendTimesOut(d)
  BY <1>6, <1>12 DEF MailTyped, Others
<1> QED
  BY <1>2, <1>3, <1>7, <1>8, <1>9, <1>10, <1>11, <1>12 DEF Dispatching, TickNext

-----------------------------------------------------------------------------
(* Late reminders, for any number of dispatchers.                          *)

(* A step that changes a dispatcher without reminding anybody.             *)
LEMMA NobodyReminded ==
  ASSUME MailTyped, RemindersCounted, NEW d \in Dispatchers, Others(d),
         tick'[d].step # "send", late' = late, approval' = approval
  PROVE  RemindersCounted'
<1>1. Reminding' \subseteq Reminding
  BY DEF Reminding, Current, Others
<1>2. IsFiniteSet(Reminding)
  BY NotificationsAssumption, FS_Subset DEF Reminding
<1>3. Cardinality(Reminding') <= Cardinality(Reminding)
      /\ Cardinality(Reminding') \in Nat /\ Cardinality(Reminding) \in Nat
  BY <1>1, <1>2, FS_Subset, FS_CardinalityType
<1>4. Cardinality(Dispatchers) \in Nat
  BY NotificationsAssumption, FS_CardinalityType
<1> QED
  BY <1>3, <1>4 DEF RemindersCounted, MailTyped

(* A reminder is taken up only while the approval is pending: nobody is    *)
(* late yet.                                                               *)
LEMMA ReminderTaken ==
  ASSUME MailTyped, RemindersCounted, NEW d \in Dispatchers, TakeNext(d)
  PROVE  RemindersCounted'
<1>1. late' = late /\ approval' = approval
  BY DEF TakeNext
<1>2. PICK c \in tick[d].todo :
        /\ tick'[d].step = (IF ShouldSuppress(c.n) THEN "suppress" ELSE "send")
        /\ tick'[d].current = c
  BY TakeNextMoves
<1>3. Others(d) /\ tick[d].step = "next"
  BY TakeNextMoves
<1>4. CASE approval = "PENDING"
  <2>1. late' = 0 /\ approval' # "DECIDED"
    BY <1>1, <1>4 DEF RemindersCounted
  <2>2. Cardinality(Reminding') <= Cardinality(Dispatchers)
    <3>1. Reminding' \subseteq Dispatchers
      BY DEF Reminding
    <3> QED
      BY NotificationsAssumption, <3>1, FS_Subset
  <2>3. Cardinality(Reminding') \in Nat
    BY NotificationsAssumption, FS_Subset, FS_CardinalityType DEF Reminding
  <2> QED
    BY <2>1, <2>2, <2>3 DEF RemindersCounted
<1>5. CASE approval # "PENDING"
  <2>1. Reminding' = Reminding
    BY <1>2, <1>3, <1>5 DEF Reminding, Current, Others, ShouldSuppress
  <2> QED
    BY <1>1, <2>1 DEF RemindersCounted
<1> QED
  BY <1>4, <1>5

(* A reminder that is delivered is no longer on its way.                   *)
LEMMA ReminderDelivered ==
  ASSUME MailTyped, RemindersCounted, NEW d \in Dispatchers, Others(d),
         tick[d].step = "send", tick'[d].step # "send", Deliver(d), approval' = approval
  PROVE  RemindersCounted'
<1>1. CASE Current(d).kind = "approval_reminder" /\ approval = "DECIDED"
  <2>1. Reminding' = Reminding \ {d} /\ d \in Reminding
    BY <1>1 DEF Reminding, Current, Others
  <2>2. IsFiniteSet(Reminding)
    BY NotificationsAssumption, FS_Subset DEF Reminding
  <2>3. Cardinality(Reminding') = Cardinality(Reminding) - 1
    BY <2>1, <2>2, FS_RemoveElement
  <2>4. Cardinality(Reminding) \in Nat /\ Cardinality(Dispatchers) \in Nat
    BY NotificationsAssumption, <2>2, FS_CardinalityType
  <2>5. late' = late + 1 /\ late \in Nat
    BY <1>1 DEF Deliver, MailTyped
  <2> QED
    BY <1>1, <2>3, <2>4, <2>5 DEF RemindersCounted
<1>2. CASE ~(Current(d).kind = "approval_reminder" /\ approval = "DECIDED")
  BY <1>2, NobodyReminded DEF Deliver
<1> QED
  BY <1>1, <1>2

LEMMA LateStep ==
  ASSUME MailTyped, RemindersCounted, [OutboxNext]_outboxVars
  PROVE  RemindersCounted'
<1>1. CASE UNCHANGED outboxVars
  BY <1>1 DEF outboxVars, RemindersCounted, Reminding, Current
<1>2. CASE Elsewhere
  <2>1. tick' = tick /\ late' = late /\ (approval = "DECIDED" => approval' = "DECIDED")
    BY <1>2, ElsewhereTyped DEF RowsKept
  <2> QED
    BY <2>1 DEF RemindersCounted, Reminding, Current
<1>3. ASSUME NEW d \in Dispatchers, Dispatching(d)
      PROVE  RemindersCounted'
  <2>1. Others(d) /\ approval' = approval
    BY <1>3, DispatcherTyped
  <2>2. CASE TakeNext(d)
    BY <2>2, ReminderTaken
  <2>3. CASE Send(d) \/ SendTimesOut(d)
    <3>1. tick[d].step = "send" /\ Deliver(d) /\ tick'[d].step # "send"
      BY <2>3, GotoMoves DEF Send, SendTimesOut, TickAt, TickStep
    <3> QED
      BY <2>1, <3>1, ReminderDelivered
  <2>4. CASE \E batch \in SUBSET Due : Claim(d, batch)
    <3>1. PICK batch \in SUBSET Due : Claim(d, batch)
      BY <2>4
    <3>2. batch \in SUBSET Notification
      BY DEF Due
    <3>3. tick'[d].step # "send" /\ late' = late
      BY <3>1, <3>2, ClaimMoves DEF Claim
    <3> QED
      BY <2>1, <3>3, NobodyReminded
  <2>5. CASE TickDone(d) \/ CrashDispatcher(d)
    <3>1. tick'[d].step # "send" /\ late' = late
      BY <2>5, IdleMoves DEF TickDone, CrashDispatcher
    <3> QED
      BY <2>1, <3>1, NobodyReminded
  <2>6. CASE Suppress(d) \/ MarkSent(d) \/ MarkFailed(d)
    <3>1. tick'[d].step # "send"
      BY <2>6, SentMarks, FailedMarks DEF Marked
    <3>2. late' = late
      BY <2>6 DEF Suppress, MarkSent, MarkFailed
    <3> QED
      BY <2>1, <3>1, <3>2, NobodyReminded
  <2>7. CASE SendFails(d) \/ MarkSentFails(d)
    <3>1. tick'[d].step # "send" /\ late' = late
      BY <2>7, GotoMoves DEF SendFails, MarkSentFails, TickStep
    <3> QED
      BY <2>1, <3>1, NobodyReminded
  <2> QED
    BY <1>3, <2>2, <2>3, <2>4, <2>5, <2>6, <2>7 DEF Dispatching, TickNext
<1> QED
  BY <1>1, <1>2, <1>3 DEF OutboxNext, Elsewhere, Dispatching

-----------------------------------------------------------------------------
(* What the one dispatcher has in hand, and what it has delivered.         *)

MailInHand == HandsInOrder /\ AttemptsLeft /\ CopiesCounted

(* The rows as the one dispatcher sees them.                               *)
LEMMA OneHand ==
  ASSUME MailTyped, OneDispatcher, MailInHand, NEW d \in Dispatchers
  PROVE  /\ \A e \in Dispatchers : e = d
         /\ InHand(d) \subseteq Claimed
         /\ tick[d].step = "idle" => InHand(d) = {}
         /\ \A c \in InHand(d) : /\ c.n \in Notification /\ c.attempts \in Nat
                                 /\ outbox[c.n].status = "PENDING" /\ outbox[c.n].attempts = c.attempts
         /\ tick[d].step \in Delivering =>
              /\ tick[d].current \in InHand(d) /\ Current(d) = tick[d].current.n
              /\ \A c \in tick[d].todo : c.n # Current(d)
         /\ \A n \in Notification :
              /\ outbox[n].attempts \in Nat /\ mailbox[n] \in Nat
              /\ outbox[n].attempts <= MaxAttempts + troubles
              /\ outbox[n].status = "PENDING" =>
                   outbox[n].attempts < MaxAttempts + troubles \/ \E c \in InHand(d) : c.n = n
              /\ outbox[n].status = "ABSENT" => mailbox[n] = 0
              /\ \/ mailbox[n] <= troubles
                 \/ /\ mailbox[n] = 1 + troubles
                    /\ outbox[n].status = "SENT" \/ (tick[d].step = "markSent" /\ Current(d) = n)
<1>1. \A e \in Dispatchers : e = d
  BY DEF OneDispatcher
<1>2. tick[d] \in Tick /\ tick[d].current \in Claimed /\ tick[d].todo \subseteq Claimed
  BY CurrentTyped
<1>3. InHand(d) \subseteq Claimed
  BY <1>2 DEF InHand
<1>4. \A c \in Claimed : c.n \in Notification /\ c.attempts \in Nat
  BY DEF Claimed
<1>5. \A c \in InHand(d) : outbox[c.n].status = "PENDING" /\ outbox[c.n].attempts = c.attempts
  BY DEF MailInHand, HandsInOrder
<1>6. tick[d].step = "idle" => InHand(d) = {}
  BY DEF MailInHand, HandsInOrder, InHand, Delivering
<1>7. ASSUME tick[d].step \in Delivering
      PROVE  /\ tick[d].current \in InHand(d) /\ Current(d) = tick[d].current.n
             /\ \A c \in tick[d].todo : c.n # Current(d)
  <2>1. tick[d].current \in InHand(d) /\ Current(d) = tick[d].current.n
        /\ tick[d].todo \subseteq InHand(d) /\ tick[d].current \notin tick[d].todo
    BY <1>7 DEF InHand, Current, MailInHand, HandsInOrder
  <2>2. ASSUME NEW c \in tick[d].todo, c.n = tick[d].current.n
        PROVE  FALSE
    <3>1. c.attempts = tick[d].current.attempts
      BY <1>5, <2>1, <2>2
    <3>2. c = tick[d].current
      BY <1>2, <2>2, <3>1 DEF Claimed
    <3> QED
      BY <2>1, <2>2, <3>2
  <2> QED
    BY <2>1, <2>2
<1>8. \A n \in Notification : outbox[n].attempts \in Nat /\ mailbox[n] \in Nat
  BY DEF MailTyped, Row
<1>9. \A n \in Notification :
        /\ outbox[n].attempts <= MaxAttempts + troubles
        /\ outbox[n].status = "PENDING" =>
             outbox[n].attempts < MaxAttempts + troubles \/ \E c \in InHand(d) : c.n = n
  BY <1>1 DEF MailInHand, AttemptsLeft
<1>10. \A n \in Notification :
         /\ outbox[n].status = "ABSENT" => mailbox[n] = 0
         /\ \/ mailbox[n] <= troubles
            \/ /\ mailbox[n] = 1 + troubles
               /\ outbox[n].status = "SENT" \/ (tick[d].step = "markSent" /\ Current(d) = n)
  BY <1>1 DEF MailInHand, CopiesCounted
<1> QED
  BY <1>1, <1>3, <1>4, <1>5, <1>6, <1>7, <1>8, <1>9, <1>10

(* It is enough to look at one dispatcher afterwards as well.              *)
LEMMA OneHandAfter ==
  ASSUME OneDispatcher, NEW d \in Dispatchers,
         (tick[d].step = "idle" => tick[d].todo = {})',
         (\A c \in InHand(d) : outbox[c.n].status = "PENDING" /\ outbox[c.n].attempts = c.attempts)',
         (tick[d].step \in Delivering => tick[d].current \notin tick[d].todo)',
         (\A n \in Notification :
            /\ outbox[n].attempts <= MaxAttempts + troubles
            /\ outbox[n].status = "PENDING" =>
                 outbox[n].attempts < MaxAttempts + troubles \/ \E c \in InHand(d) : c.n = n)',
         (\A n \in Notification :
            /\ outbox[n].status = "ABSENT" => mailbox[n] = 0
            /\ \/ mailbox[n] <= troubles
               \/ /\ mailbox[n] = 1 + troubles
                  /\ outbox[n].status = "SENT" \/ (tick[d].step = "markSent" /\ Current(d) = n))'
  PROVE  MailInHand'
<1>1. \A e \in Dispatchers : e = d
  BY DEF OneDispatcher
<1>2. HandsInOrder'
  BY <1>1 DEF HandsInOrder
<1>3. AttemptsLeft'
  BY DEF AttemptsLeft
<1>4. CopiesCounted'
  BY DEF CopiesCounted
<1> QED
  BY <1>2, <1>3, <1>4 DEF MailInHand

LEMMA ElsewhereInHand ==
  ASSUME MailTyped, OneDispatcher, MailInHand,
         RowsKept, troubles' \in {troubles, troubles + 1}
  PROVE  MailInHand'
<1>1. PICK d \in Dispatchers : TRUE
  BY DEF OneDispatcher
<1>2. tick' = tick /\ mailbox' = mailbox /\ InHand(d)' = InHand(d)
      /\ troubles \in Nat /\ MaxAttempts \in Nat \ {0}
  BY NotificationsAssumption DEF RowsKept, InHand, MailTyped
<1>3. \A m \in Notification :
        \/ outbox'[m].status = outbox[m].status /\ outbox'[m].attempts = outbox[m].attempts
        \/ /\ outbox[m].status = "ABSENT"
           /\ outbox'[m].status = "PENDING" /\ outbox'[m].attempts = 0
  BY DEF RowsKept
<1>4. (tick[d].step = "idle" => tick[d].todo = {})'
      /\ (tick[d].step \in Delivering => tick[d].current \notin tick[d].todo)'
  BY <1>2 DEF MailInHand, HandsInOrder
<1>5. (\A c \in InHand(d) : outbox[c.n].status = "PENDING" /\ outbox[c.n].attempts = c.attempts)'
  BY <1>2, <1>3, OneHand
<1>6. (\A n \in Notification :
         /\ outbox[n].attempts <= MaxAttempts + troubles
         /\ outbox[n].status = "PENDING" =>
              outbox[n].attempts < MaxAttempts + troubles \/ \E c \in InHand(d) : c.n = n)'
  <2>1. ASSUME NEW n \in Notification
        PROVE  /\ outbox'[n].attempts <= MaxAttempts + troubles'
               /\ outbox'[n].status = "PENDING" =>
                    outbox'[n].attempts < MaxAttempts + troubles' \/ \E c \in InHand(d) : c.n = n
    <3>1. /\ outbox[n].attempts \in Nat /\ outbox[n].attempts <= MaxAttempts + troubles
          /\ outbox[n].status = "PENDING" =>
               outbox[n].attempts < MaxAttempts + troubles \/ \E c \in InHand(d) : c.n = n
      BY OneHand
    <3> QED
      BY <1>2, <1>3, <3>1
  <2> QED
    BY <1>2, <2>1
<1>7. (\A n \in Notification :
         /\ outbox[n].status = "ABSENT" => mailbox[n] = 0
         /\ \/ mailbox[n] <= troubles
            \/ /\ mailbox[n] = 1 + troubles
               /\ outbox[n].status = "SENT" \/ (tick[d].step = "markSent" /\ Current(d) = n))'
  <2>1. ASSUME NEW n \in Notification
        PROVE  /\ outbox'[n].status = "ABSENT" => mailbox'[n] = 0
               /\ \/ mailbox'[n] <= troubles'
                  \/ /\ mailbox'[n] = 1 + troubles'
                     /\ outbox'[n].status = "SENT" \/ (tick'[d].step = "markSent" /\ Current(d)' = n)
    <3>1. /\ mailbox[n] \in Nat
          /\ outbox[n].status = "ABSENT" => mailbox[n] = 0
          /\ \/ mailbox[n] <= troubles
             \/ /\ mailbox[n] = 1 + troubles
                /\ outbox[n].status = "SENT" \/ (tick[d].step = "markSent" /\ Current(d) = n)
      BY OneHand
    <3>2. Current(d)' = Current(d)
      BY <1>2 DEF Current
    <3> QED
      BY <1>2, <1>3, <3>1, <3>2
  <2> QED
    BY <2>1
<1> QED
  BY <1>4, <1>5, <1>6, <1>7, OneHandAfter

(* What is claimed is what the dispatcher has in hand, and nothing else.   *)
LEMMA ClaimInHand ==
  ASSUME MailTyped, OneDispatcher, MailInHand,
         NEW d \in Dispatchers, NEW batch \in SUBSET Due, Claim(d, batch)
  PROVE  MailInHand'
<1>1. batch \in SUBSET Notification /\ \A n \in batch : outbox[n].status = "PENDING"
  BY DEF Due
<1>2. /\ tick[d].step = "idle" /\ tick'[d].step = "next"
      /\ tick'[d].todo = {[n |-> n, attempts |-> outbox[n].attempts + 1] : n \in batch}
  BY <1>1, ClaimMoves
<1>3. \A n \in Notification :
        /\ outbox'[n].status = outbox[n].status
        /\ outbox'[n].attempts = IF n \in batch THEN outbox[n].attempts + 1 ELSE outbox[n].attempts
  BY ClaimedRows
<1>4. mailbox' = mailbox /\ troubles' = troubles /\ troubles \in Nat /\ MaxAttempts \in Nat
  BY NotificationsAssumption DEF Claim, MailTyped
<1>5. InHand(d) = {} /\ InHand(d)' = {[n |-> n, attempts |-> outbox[n].attempts + 1] : n \in batch}
  BY <1>2, OneHand DEF InHand, Delivering
<1>6. (tick[d].step = "idle" => tick[d].todo = {})'
      /\ (tick[d].step \in Delivering => tick[d].current \notin tick[d].todo)'
  BY <1>2 DEF Delivering
<1>7. (\A c \in InHand(d) : outbox[c.n].status = "PENDING" /\ outbox[c.n].attempts = c.attempts)'
  <2>1. ASSUME NEW n \in batch
        PROVE  outbox'[n].status = "PENDING" /\ outbox'[n].attempts = outbox[n].attempts + 1
    BY <1>1, <1>3
  <2>2. ASSUME NEW c \in InHand(d)'
        PROVE  outbox'[c.n].status = "PENDING" /\ outbox'[c.n].attempts = c.attempts
    <3>1. PICK n \in batch : c = [n |-> n, attempts |-> outbox[n].attempts + 1]
      BY <1>5
    <3>2. c.n = n /\ c.attempts = outbox[n].attempts + 1
      BY <3>1
    <3> QED
      BY <2>1, <3>2
  <2> QED
    BY <2>2
<1>8. (\A n \in Notification :
         /\ outbox[n].attempts <= MaxAttempts + troubles
         /\ outbox[n].status = "PENDING" =>
              outbox[n].attempts < MaxAttempts + troubles \/ \E c \in InHand(d) : c.n = n)'
  <2>1. ASSUME NEW n \in Notification
        PROVE  /\ outbox'[n].attempts <= MaxAttempts + troubles
               /\ outbox'[n].status = "PENDING" =>
                    outbox'[n].attempts < MaxAttempts + troubles \/ \E c \in InHand(d)' : c.n = n
    <3>1. /\ outbox[n].attempts \in Nat /\ outbox[n].attempts <= MaxAttempts + troubles
          /\ outbox[n].status = "PENDING" => outbox[n].attempts < MaxAttempts + troubles
      BY <1>5, OneHand
    <3>2. CASE n \in batch
      <4>1. outbox'[n].attempts = outbox[n].attempts + 1 /\ outbox[n].status = "PENDING"
        BY <1>1, <1>3, <3>2
      <4>2. [n |-> n, attempts |-> outbox[n].attempts + 1] \in InHand(d)'
        BY <1>5, <3>2
      <4>3. [n |-> n, attempts |-> outbox[n].attempts + 1].n = n
        OBVIOUS
      <4>4. \E c \in InHand(d)' : c.n = n
        BY <4>2, <4>3
      <4> QED
        BY <1>4, <3>1, <4>1, <4>4
    <3>3. CASE n \notin batch
      BY <1>3, <3>1, <3>3
    <3> QED
      BY <3>2, <3>3
  <2> QED
    BY <1>4, <2>1
<1>9. (\A n \in Notification :
         /\ outbox[n].status = "ABSENT" => mailbox[n] = 0
         /\ \/ mailbox[n] <= troubles
            \/ /\ mailbox[n] = 1 + troubles
               /\ outbox[n].status = "SENT" \/ (tick[d].step = "markSent" /\ Current(d) = n))'
  <2>1. \A n \in Notification :
          /\ outbox[n].status = "ABSENT" => mailbox[n] = 0
          /\ \/ mailbox[n] <= troubles
             \/ mailbox[n] = 1 + troubles /\ outbox[n].status = "SENT"
    BY <1>2, OneHand
  <2> QED
    BY <1>3, <1>4, <2>1
<1> QED
  BY <1>6, <1>7, <1>8, <1>9, OneHandAfter

(* What is in hand stays in hand, or is dropped when something fails.      *)
LEMMA PassedOn ==
  ASSUME MailTyped, OneDispatcher, MailInHand, NEW d \in Dispatchers,
         outbox' = outbox, mailbox' = mailbox,
         \/ troubles' = troubles /\ InHand(d)' = InHand(d) /\ tick[d].step # "markSent"
         \/ troubles' = troubles + 1 /\ InHand(d)' \subseteq InHand(d),
         tick'[d].step = "idle" => tick'[d].todo = {},
         tick'[d].step \in Delivering => tick'[d].current \notin tick'[d].todo
  PROVE  MailInHand'
<1>1. troubles \in Nat /\ MaxAttempts \in Nat
  BY NotificationsAssumption DEF MailTyped
<1>2. (\A c \in InHand(d) : outbox[c.n].status = "PENDING" /\ outbox[c.n].attempts = c.attempts)'
  <2>1. InHand(d)' \subseteq InHand(d)
    OBVIOUS
  <2> QED
    BY <2>1, OneHand
<1>3. (\A n \in Notification :
         /\ outbox[n].attempts <= MaxAttempts + troubles
         /\ outbox[n].status = "PENDING" =>
              outbox[n].attempts < MaxAttempts + troubles \/ \E c \in InHand(d) : c.n = n)'
  <2>1. \A n \in Notification :
          /\ outbox[n].attempts \in Nat /\ outbox[n].attempts <= MaxAttempts + troubles
          /\ outbox[n].status = "PENDING" =>
               outbox[n].attempts < MaxAttempts + troubles \/ \E c \in InHand(d) : c.n = n
    BY OneHand
  <2>2. CASE troubles' = troubles + 1
    BY <1>1, <2>1, <2>2
  <2>3. CASE troubles' = troubles /\ InHand(d)' = InHand(d)
    BY <2>1, <2>3
  <2> QED
    BY <2>2, <2>3
<1>4. (\A n \in Notification :
         /\ outbox[n].status = "ABSENT" => mailbox[n] = 0
         /\ \/ mailbox[n] <= troubles
            \/ /\ mailbox[n] = 1 + troubles
               /\ outbox[n].status = "SENT" \/ (tick[d].step = "markSent" /\ Current(d) = n))'
  <2>1. \A n \in Notification :
          /\ mailbox[n] \in Nat
          /\ outbox[n].status = "ABSENT" => mailbox[n] = 0
          /\ \/ mailbox[n] <= troubles
             \/ /\ mailbox[n] = 1 + troubles
                /\ outbox[n].status = "SENT" \/ tick[d].step = "markSent"
    BY OneHand
  <2>2. CASE troubles' = troubles + 1
    BY <1>1, <2>1, <2>2
  <2>3. CASE troubles' = troubles /\ tick[d].step # "markSent"
    BY <2>1, <2>3
  <2> QED
    BY <2>2, <2>3
<1> QED
  BY <1>2, <1>3, <1>4, OneHandAfter

LEMMA TakeNextInHand ==
  ASSUME MailTyped, OneDispatcher, MailInHand, NEW d \in Dispatchers, TakeNext(d)
  PROVE  MailInHand'
<1>1. /\ tick[d].step = "next"
      /\ \E c \in tick[d].todo :
           /\ tick'[d].step \in {"suppress", "send"}
           /\ tick'[d].todo = tick[d].todo \ {c} /\ tick'[d].current = c
  BY TakeNextMoves
<1>2. InHand(d) = tick[d].todo /\ InHand(d)' = tick[d].todo
  BY <1>1 DEF InHand, Delivering
<1>3. outbox' = outbox /\ mailbox' = mailbox /\ troubles' = troubles
  BY DEF TakeNext
<1> QED
  BY <1>1, <1>2, <1>3, PassedOn

LEMMA IdleInHand ==
  ASSUME MailTyped, OneDispatcher, MailInHand, NEW d \in Dispatchers,
         TickDone(d) \/ CrashDispatcher(d)
  PROVE  MailInHand'
<1>1. tick'[d].step = "idle" /\ tick'[d].todo = {}
  BY IdleMoves DEF TickDone, CrashDispatcher
<1>2. InHand(d)' = {}
  BY <1>1 DEF InHand, Delivering
<1>3. CASE TickDone(d)
  <2>1. InHand(d) = {} /\ tick[d].step # "markSent"
    BY <1>3 DEF TickDone, TickAt, InHand, Delivering
  <2>2. outbox' = outbox /\ mailbox' = mailbox /\ troubles' = troubles
    BY <1>3 DEF TickDone
  <2> QED
    BY <1>1, <1>2, <2>1, <2>2, PassedOn DEF Delivering
<1>4. CASE CrashDispatcher(d)
  <2>1. outbox' = outbox /\ mailbox' = mailbox /\ troubles' = troubles + 1
    BY <1>4 DEF CrashDispatcher, Trouble
  <2> QED
    BY <1>1, <1>2, <2>1, PassedOn DEF Delivering
<1> QED
  BY <1>3, <1>4

LEMMA FailureInHand ==
  ASSUME MailTyped, OneDispatcher, MailInHand, NEW d \in Dispatchers,
         SendFails(d) \/ MarkSentFails(d)
  PROVE  MailInHand'
<1>1. /\ tick'[d].step = "markFailed" /\ tick[d].step \in {"send", "markSent"}
      /\ tick'[d].todo = tick[d].todo /\ tick'[d].current = tick[d].current
  BY GotoMoves DEF SendFails, MarkSentFails, TickAt, TickStep
<1>2. InHand(d)' = InHand(d) /\ tick'[d].current \notin tick'[d].todo
  BY <1>1 DEF InHand, Delivering, MailInHand, HandsInOrder
<1>3. /\ outbox' = outbox /\ mailbox' = mailbox
      /\ \/ troubles' = troubles /\ tick[d].step # "markSent"
         \/ troubles' = troubles + 1
  BY DEF SendFails, MarkSentFails, Trouble, TickAt
<1> QED
  BY <1>1, <1>2, <1>3, PassedOn

(* The row that is marked leaves the hand.                                 *)
LEMMA MarkedInHand ==
  ASSUME MailTyped, OneDispatcher, MailInHand, NEW d \in Dispatchers, Marked(d),
         tick[d].step \in {"suppress", "markSent", "markFailed"},
         \/ outbox'[Current(d)].status = "SENT"
         \/ /\ outbox'[Current(d)].status = "FAILED" /\ tick[d].step = "markFailed"
         \/ /\ outbox'[Current(d)].status = "PENDING" /\ tick[d].step = "markFailed"
            /\ tick[d].current.attempts < MaxAttempts,
         mailbox' = mailbox, troubles' = troubles
  PROVE  MailInHand'
<1>1. /\ tick[d].current \in InHand(d) /\ Current(d) = tick[d].current.n
      /\ \A c \in tick[d].todo : c.n # Current(d)
  BY OneHand DEF Delivering
<1>2. InHand(d)' = tick[d].todo /\ InHand(d)' \subseteq InHand(d)
      /\ \A c \in InHand(d) : c \in InHand(d)' \/ c.n = Current(d)
  BY <1>1 DEF InHand, Delivering, Marked
<1>3. /\ tick'[d].step = "next" /\ outbox'[Current(d)].attempts = outbox[Current(d)].attempts
      /\ \A m \in Notification \ {Current(d)} : outbox'[m] = outbox[m]
  BY DEF Marked
<1>4. outbox[Current(d)].status = "PENDING" /\ outbox[Current(d)].attempts = tick[d].current.attempts
  BY <1>1, OneHand
<1>5. troubles \in Nat /\ MaxAttempts \in Nat /\ Current(d) \in Notification
      /\ tick[d].current.attempts \in Nat
  BY NotificationsAssumption, CurrentTyped DEF MailTyped
<1>6. (tick[d].step = "idle" => tick[d].todo = {})'
      /\ (tick[d].step \in Delivering => tick[d].current \notin tick[d].todo)'
  BY <1>3 DEF Delivering
<1>7. (\A c \in InHand(d) : outbox[c.n].status = "PENDING" /\ outbox[c.n].attempts = c.attempts)'
  <2>1. \A c \in InHand(d)' : /\ c.n \in Notification \ {Current(d)}
                              /\ outbox[c.n].status = "PENDING" /\ outbox[c.n].attempts = c.attempts
    BY <1>1, <1>2, OneHand
  <2> QED
    BY <1>3, <2>1
<1>8. (\A n \in Notification :
         /\ outbox[n].attempts <= MaxAttempts + troubles
         /\ outbox[n].status = "PENDING" =>
              outbox[n].attempts < MaxAttempts + troubles \/ \E c \in InHand(d) : c.n = n)'
  <2>1. ASSUME NEW n \in Notification
        PROVE  /\ outbox'[n].attempts <= MaxAttempts + troubles
               /\ outbox'[n].status = "PENDING" =>
                    outbox'[n].attempts < MaxAttempts + troubles \/ \E c \in InHand(d)' : c.n = n
    <3>1. /\ outbox[n].attempts \in Nat /\ outbox[n].attempts <= MaxAttempts + troubles
          /\ outbox[n].status = "PENDING" =>
               outbox[n].attempts < MaxAttempts + troubles \/ \E c \in InHand(d) : c.n = n
      BY OneHand
    <3>2. CASE n = Current(d)
      BY <1>3, <1>4, <1>5, <3>1, <3>2
    <3>3. CASE n # Current(d)
      BY <1>2, <1>3, <3>1, <3>3
    <3> QED
      BY <3>2, <3>3
  <2> QED
    BY <2>1
<1>9. (\A n \in Notification :
         /\ outbox[n].status = "ABSENT" => mailbox[n] = 0
         /\ \/ mailbox[n] <= troubles
            \/ /\ mailbox[n] = 1 + troubles
               /\ outbox[n].status = "SENT" \/ (tick[d].step = "markSent" /\ Current(d) = n))'
  <2>1. ASSUME NEW n \in Notification
        PROVE  /\ outbox'[n].status = "ABSENT" => mailbox[n] = 0
               /\ \/ mailbox[n] <= troubles
                  \/ mailbox[n] = 1 + troubles /\ outbox'[n].status = "SENT"
    <3>1. /\ outbox[n].status = "ABSENT" => mailbox[n] = 0
          /\ \/ mailbox[n] <= troubles
             \/ /\ mailbox[n] = 1 + troubles
                /\ outbox[n].status = "SENT" \/ (tick[d].step = "markSent" /\ Current(d) = n)
      BY OneHand
    <3>2. CASE n = Current(d)
      BY <1>4, <3>1, <3>2
    <3>3. CASE n # Current(d)
      BY <1>3, <3>1, <3>3
    <3> QED
      BY <3>2, <3>3
  <2> QED
    BY <2>1
<1> QED
  BY <1>6, <1>7, <1>8, <1>9, OneHandAfter

(* A mail in hand was delivered in troubles only: one copy more is the     *)
(* one that is about to be marked, or the trouble's.                       *)
LEMMA DeliveryInHand ==
  ASSUME MailTyped, OneDispatcher, MailInHand, NEW d \in Dispatchers,
         Send(d) \/ SendTimesOut(d)
  PROVE  MailInHand'
<1>1. /\ tick[d].step = "send" /\ Deliver(d) /\ outbox' = outbox
      /\ \/ troubles' = troubles /\ tick'[d].step = "markSent"
         \/ troubles' = troubles + 1 /\ tick'[d].step = "markFailed"
      /\ tick'[d].todo = tick[d].todo /\ tick'[d].current = tick[d].current
  BY GotoMoves DEF Send, SendTimesOut, TickAt, TickStep, Trouble
<1>2. InHand(d)' = InHand(d) /\ tick'[d].current \notin tick'[d].todo /\ Current(d)' = Current(d)
  BY <1>1 DEF InHand, Delivering, MailInHand, HandsInOrder, Current
<1>3. tick[d].current \in InHand(d) /\ Current(d) = tick[d].current.n
  BY <1>1, OneHand DEF Delivering
<1>4. outbox[Current(d)].status = "PENDING" /\ troubles \in Nat /\ MaxAttempts \in Nat
  BY NotificationsAssumption, <1>3, OneHand DEF MailTyped
<1>5. (tick[d].step = "idle" => tick[d].todo = {})'
      /\ (tick[d].step \in Delivering => tick[d].current \notin tick[d].todo)'
  BY <1>1, <1>2
<1>6. (\A c \in InHand(d) : outbox[c.n].status = "PENDING" /\ outbox[c.n].attempts = c.attempts)'
  BY <1>1, <1>2, OneHand
<1>7. (\A n \in Notification :
         /\ outbox[n].attempts <= MaxAttempts + troubles
         /\ outbox[n].status = "PENDING" =>
              outbox[n].attempts < MaxAttempts + troubles \/ \E c \in InHand(d) : c.n = n)'
  <2>1. \A n \in Notification :
          /\ outbox[n].attempts \in Nat /\ outbox[n].attempts <= MaxAttempts + troubles
          /\ outbox[n].status = "PENDING" =>
               outbox[n].attempts < MaxAttempts + troubles \/ \E c \in InHand(d) : c.n = n
    BY OneHand
  <2> QED
    BY <1>1, <1>2, <1>4, <2>1
<1>8. (\A n \in Notification :
         /\ outbox[n].status = "ABSENT" => mailbox[n] = 0
         /\ \/ mailbox[n] <= troubles
            \/ /\ mailbox[n] = 1 + troubles
               /\ outbox[n].status = "SENT" \/ (tick[d].step = "markSent" /\ Current(d) = n))'
  <2>1. ASSUME NEW n \in Notification
        PROVE  /\ outbox'[n].status = "ABSENT" => mailbox'[n] = 0
               /\ \/ mailbox'[n] <= troubles'
                  \/ /\ mailbox'[n] = 1 + troubles'
                     /\ outbox'[n].status = "SENT" \/ (tick'[d].step = "markSent" /\ Current(d)' = n)
    <3>1. /\ mailbox[n] \in Nat
          /\ outbox[n].status = "ABSENT" => mailbox[n] = 0
          /\ mailbox[n] <= troubles \/ (mailbox[n] = 1 + troubles /\ outbox[n].status = "SENT")
      BY <1>1, OneHand
    <3>2. CASE n = Current(d)
      <4>1. mailbox'[n] = mailbox[n] + 1 /\ mailbox[n] <= troubles
        BY <1>1, <1>4, <3>1, <3>2, Delivered
      <4> QED
        BY <1>1, <1>2, <1>4, <3>1, <3>2, <4>1
    <3>3. CASE n # Current(d)
      <4>1. mailbox'[n] = mailbox[n]
        BY <1>1, <3>3, Delivered
      <4> QED
        BY <1>1, <1>4, <3>1, <4>1
    <3> QED
      BY <3>2, <3>3
  <2> QED
    BY <2>1
<1> QED
  BY <1>5, <1>6, <1>7, <1>8, OneHandAfter

LEMMA HandStep ==
  ASSUME MailTyped, OneDispatcher, MailInHand, [OutboxNext]_outboxVars
  PROVE  MailInHand'
<1>1. CASE UNCHANGED outboxVars
  BY <1>1 DEF outboxVars, MailInHand, HandsInOrder, AttemptsLeft, CopiesCounted, InHand, Current
<1>2. CASE Elsewhere
  BY <1>2, ElsewhereTyped, ElsewhereInHand
<1>3. ASSUME NEW d \in Dispatchers, Dispatching(d)
      PROVE  MailInHand'
  <2>1. ASSUME NEW batch \in SUBSET Due, Claim(d, batch)
        PROVE  MailInHand'
    BY <2>1, ClaimInHand
  <2>2. CASE Suppress(d) \/ MarkSent(d)
    <3>1. mailbox' = mailbox /\ troubles' = troubles
      BY <2>2 DEF Suppress, MarkSent
    <3>2. Marked(d) /\ outbox'[Current(d)].status = "SENT" /\ tick[d].step \in {"suppress", "markSent"}
      BY <2>2, SentMarks
    <3> QED
      BY <3>1, <3>2, MarkedInHand
  <2>3. CASE MarkFailed(d)
    <3>1. mailbox' = mailbox /\ troubles' = troubles
      BY <2>3 DEF MarkFailed
    <3> QED
      BY <2>3, <3>1, FailedMarks, MarkedInHand
  <2>4. CASE TakeNext(d)
    BY <2>4, TakeNextInHand
  <2>5. CASE TickDone(d) \/ CrashDispatcher(d)
    BY <2>5, IdleInHand
  <2>6. CASE SendFails(d) \/ MarkSentFails(d)
    BY <2>6, FailureInHand
  <2>7. CASE Send(d) \/ SendTimesOut(d)
    BY <2>7, DeliveryInHand
  <2> QED
    BY <1>3, <2>1, <2>2, <2>3, <2>4, <2>5, <2>6, <2>7 DEF Dispatching, TickNext
<1> QED
  BY <1>1, <1>2, <1>3 DEF OutboxNext, Elsewhere, Dispatching

LEMMA TypedStep ==
  ASSUME MailTyped, [OutboxNext]_outboxVars
  PROVE  MailTyped'
<1>1. CASE UNCHANGED outboxVars
  BY <1>1 DEF outboxVars, MailTyped
<1>2. CASE Elsewhere
  BY <1>2, ElsewhereTyped
<1>3. CASE \E d \in Dispatchers : Dispatching(d)
  BY <1>3, DispatcherTyped
<1> QED
  BY <1>1, <1>2, <1>3 DEF OutboxNext, Elsewhere, Dispatching

LEMMA MailStarts ==
  ASSUME OutboxInit
  PROVE  MailTyped /\ RemindersCounted /\ MailInHand
<1>1. NoRow \in Row /\ NoRow.status = "ABSENT" /\ NoRow.attempts = 0
  BY DEF NoRow, Row
<1>2. MailTyped
  BY NotificationsAssumption, <1>1, IdleIsTick DEF OutboxInit, MailTyped
<1>3. Reminding = {} /\ late = 0
  BY IdleIsTick DEF OutboxInit, Reminding
<1>4. Cardinality(Reminding) = 0 /\ Cardinality(Dispatchers) \in Nat
  BY NotificationsAssumption, <1>3, FS_EmptySet, FS_CardinalityType
<1>5. RemindersCounted
  BY <1>3, <1>4 DEF RemindersCounted
<1>6. \A d \in Dispatchers : tick[d].step = "idle" /\ tick[d].todo = {} /\ InHand(d) = {}
  BY IdleIsTick DEF OutboxInit, InHand, Delivering
<1>7. HandsInOrder
  BY <1>6 DEF HandsInOrder, Delivering
<1>8. MaxAttempts \in Nat \ {0} /\ troubles = 0
      /\ \A n \in Notification : outbox[n].status = "ABSENT" /\ outbox[n].attempts = 0 /\ mailbox[n] = 0
  BY NotificationsAssumption, <1>1 DEF OutboxInit
<1>9. AttemptsLeft /\ CopiesCounted
  BY <1>8 DEF AttemptsLeft, CopiesCounted
<1> QED
  BY <1>2, <1>5, <1>7, <1>9 DEF MailInHand

(* After the decision one reminder for each process at most goes out,      *)
(* whatever fails: shouldSuppress, asked right before the send.            *)
THEOREM RemindersEnd == OutboxSpec => []FewLateReminders
<1>1. OutboxInit => MailTyped /\ RemindersCounted
  BY MailStarts
<1>2. MailTyped /\ RemindersCounted /\ [OutboxNext]_outboxVars => (MailTyped /\ RemindersCounted)'
  BY TypedStep, LateStep
<1>3. MailTyped /\ RemindersCounted => FewLateReminders
  <2>1. Cardinality(Reminding) \in Nat /\ Cardinality(Dispatchers) \in Nat
    BY NotificationsAssumption, FS_Subset, FS_CardinalityType DEF Reminding
  <2> QED
    BY <2>1 DEF MailTyped, RemindersCounted, FewLateReminders
<1> QED
  BY <1>1, <1>2, <1>3, PTL DEF OutboxSpec

(* What the one dispatcher has in hand, and what was delivered.            *)
LEMMA MailInvariant == ASSUME OneDispatcher PROVE OutboxSpec => [](MailTyped /\ MailInHand)
<1>1. OutboxInit => MailTyped /\ MailInHand
  BY MailStarts
<1>2. MailTyped /\ MailInHand /\ [OutboxNext]_outboxVars => (MailTyped /\ MailInHand)'
  BY TypedStep, HandStep
<1> QED
  BY <1>1, <1>2, PTL DEF OutboxSpec

(* Rows, counters and claims keep their types, and the retries of a mail   *)
(* end after maxAttempts, but for one more after each crash.               *)
THEOREM MailTypes == ASSUME OneDispatcher PROVE OutboxSpec => []OutboxTypeOK
<1>1. MailTyped /\ MailInHand => OutboxTypeOK
  <2>1. ASSUME MailTyped, NEW d \in Dispatchers
        PROVE  /\ tick[d].step \in TickStep
               /\ \A c \in tick[d].todo \cup {tick[d].current} : c \in Claimed
    BY <2>1, CurrentTyped DEF Tick
  <2> QED
    BY <2>1 DEF MailTyped, MailInHand, AttemptsLeft, OutboxTypeOK
<1> QED
  BY <1>1, MailInvariant, PTL

(* A mail is delivered once, and once more for each crash or lost answer.  *)
THEOREM MailsNotRepeated == ASSUME OneDispatcher PROVE OutboxSpec => []DeliveredOnce
<1>1. MailTyped /\ MailInHand => DeliveredOnce
  <2>1. ASSUME MailTyped, MailInHand, NEW n \in Notification
        PROVE  mailbox[n] <= 1 + troubles
    <3>1. mailbox[n] \in Nat /\ troubles \in Nat
      BY <2>1 DEF MailTyped
    <3> QED
      BY <2>1, <3>1 DEF MailInHand, CopiesCounted
  <2> QED
    BY <2>1 DEF DeliveredOnce
<1> QED
  BY <1>1, MailInvariant, PTL
=============================================================================
