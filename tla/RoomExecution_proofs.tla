------------------------ MODULE RoomExecution_proofs ------------------------
(***************************************************************************)
(* Proofs about a room from READY on: for every set of organisations and   *)
(* completion criteria, every budget of turns, every number of crashes and *)
(* any finite number of requests and turns that overlap.                   *)
(***************************************************************************)
EXTENDS RoomExecution, FiniteSetTheorems, TLAPS

(* The slot of p now holds a request with these fields, the other slots    *)
(* what they held.                                                         *)
Slot(p, step, then, row, from, criterion) ==
  /\ req' \in [Procs -> Request]
  /\ req'[p].step = step /\ req'[p].then = then
  /\ req'[p].room = row /\ req'[p].from = from /\ req'[p].criterion = criterion
  /\ \A q \in Procs \ {p} : req'[q] = req[q]

(* An idle slot is a request, about the row of a room that is READY.       *)
LEMMA IdleIsRequest ==
  /\ Idle \in Request
  /\ Idle.step = "idle" /\ Idle.then = "idle" /\ Idle.room = Ready /\ Idle.from = "READY"
  /\ Ready \in RoomRow /\ Ready.turns = 0 /\ Ready.state = "READY"
  <1>1. (CHOOSE c \in Criteria : TRUE) \in Criteria /\ (CHOOSE o \in Orgs : TRUE) \in Orgs
    BY RoomExecutionAssumption
  <1>2. Ready \in RoomRow /\ Ready.turns = 0 /\ Ready.state = "READY"
    BY DEF Ready, RoomRow, RoomState
  <1> HIDE DEF Ready
  <1>3. Idle \in Request
    BY <1>1, <1>2 DEF Idle, Request, Step, RoomState
  <1>4. Idle.step = "idle" /\ Idle.then = "idle" /\ Idle.room = Ready /\ Idle.from = "READY"
    BY DEF Idle
  <1> QED
    BY <1>2, <1>3, <1>4

(* A row that moves or that counts a turn is a row; only the state or the  *)
(* count differ.                                                           *)
LEMMA Rows ==
  ASSUME NEW row \in RoomRow
  PROVE  /\ \A to \in RoomState : /\ Moved(row, to) \in RoomRow
                                  /\ Moved(row, to).state = to
                                  /\ Moved(row, to).turns = row.turns
         /\ [row EXCEPT !.turns = row.turns + 1] \in RoomRow
         /\ [row EXCEPT !.turns = row.turns + 1].state = row.state
         /\ [row EXCEPT !.turns = row.turns + 1].turns = row.turns + 1
  <1>1. ASSUME NEW to \in RoomState
        PROVE  /\ Moved(row, to) \in RoomRow
               /\ Moved(row, to).state = to
               /\ Moved(row, to).turns = row.turns
    BY DEF Moved, RoomRow
  <1>2. /\ [row EXCEPT !.turns = row.turns + 1] \in RoomRow
        /\ [row EXCEPT !.turns = row.turns + 1].state = row.state
        /\ [row EXCEPT !.turns = row.turns + 1].turns = row.turns + 1
    BY DEF RoomRow
  <1> QED
    BY <1>1, <1>2

(* What ending a request, moving it on, having it write a row or giving    *)
(* its slot another request does to that slot.                             *)
LEMMA Moves ==
  ASSUME TypeOK, NEW p \in Procs
  PROVE  /\ Done(p) => Slot(p, "idle", "idle", Ready, "READY", Idle.criterion)
         /\ \A s \in Step : Goto(p, s) =>
              Slot(p, s, req[p].then, req[p].room, req[p].from, req[p].criterion)
         /\ \A from \in RoomState, row \in RoomRow, then \in Step :
              Set(p, Writing(from, row, then)) =>
                Slot(p, "writeRoom", then, row, from, Idle.criterion)
         /\ \A s \in Step : Set(p, [Idle EXCEPT !.step = s]) =>
              Slot(p, s, "idle", Ready, "READY", Idle.criterion)
         /\ \A s \in Step, c \in Criteria : Set(p, [Idle EXCEPT !.step = s, !.criterion = c]) =>
              Slot(p, s, "idle", Ready, "READY", c)
         /\ \A s \in Step, o \in Orgs, from \in RoomState :
              Set(p, [Idle EXCEPT !.step = s, !.org = o, !.from = from]) =>
                Slot(p, s, "idle", Ready, from, Idle.criterion)
         /\ \A s \in Step, row \in RoomRow, from \in RoomState :
              Set(p, [Idle EXCEPT !.step = s, !.room = row, !.from = from]) =>
                Slot(p, s, "idle", row, from, Idle.criterion)
  <1>0. req \in [Procs -> Request] /\ req[p] \in Request
    BY DEF TypeOK
  <1> USE <1>0, IdleIsRequest DEF Slot
  <1>1. Done(p) => Slot(p, "idle", "idle", Ready, "READY", Idle.criterion)
    BY DEF Done, Set
  <1>2. ASSUME NEW s \in Step, Goto(p, s)
        PROVE  Slot(p, s, req[p].then, req[p].room, req[p].from, req[p].criterion)
    BY <1>2 DEF Goto, Request
  <1>3. ASSUME NEW from \in RoomState, NEW row \in RoomRow, NEW then \in Step,
               Set(p, Writing(from, row, then))
        PROVE  Slot(p, "writeRoom", then, row, from, Idle.criterion)
    <2>1. /\ Writing(from, row, then) \in Request
          /\ Writing(from, row, then).step = "writeRoom" /\ Writing(from, row, then).then = then
          /\ Writing(from, row, then).room = row /\ Writing(from, row, then).from = from
          /\ Writing(from, row, then).criterion = Idle.criterion
      BY DEF Writing, Request, Step
    <2> QED
      BY <1>3, <2>1 DEF Set
  <1>4. ASSUME NEW s \in Step, Set(p, [Idle EXCEPT !.step = s])
        PROVE  Slot(p, s, "idle", Ready, "READY", Idle.criterion)
    BY <1>4 DEF Set, Request
  <1>5. ASSUME NEW s \in Step, NEW c \in Criteria,
               Set(p, [Idle EXCEPT !.step = s, !.criterion = c])
        PROVE  Slot(p, s, "idle", Ready, "READY", c)
    BY <1>5 DEF Set, Request
  <1>6. ASSUME NEW s \in Step, NEW o \in Orgs, NEW from \in RoomState,
               Set(p, [Idle EXCEPT !.step = s, !.org = o, !.from = from])
        PROVE  Slot(p, s, "idle", Ready, from, Idle.criterion)
    BY <1>6 DEF Set, Request
  <1>7. ASSUME NEW s \in Step, NEW row \in RoomRow, NEW from \in RoomState,
               Set(p, [Idle EXCEPT !.step = s, !.room = row, !.from = from])
        PROVE  Slot(p, s, "idle", row, from, Idle.criterion)
    BY <1>7 DEF Set, Request
  <1> QED
    BY <1>1, <1>2, <1>3, <1>4, <1>5, <1>6, <1>7

(* The moves of the whitelist that handlers make without consulting it.    *)
LEMMA Whitelist ==
  /\ CanTransition("READY", "ACTIVE") /\ CanTransition("ACTIVE", "PAUSED")
  /\ CanTransition("ACTIVE", "COMPLETION_PROPOSED")
  /\ CanTransition("COMPLETION_PROPOSED", "COMPLETED")
  /\ \A s \in {"COMPLETED", "CANCELED", "QUARANTINED"} : CanTransition(s, "CLOSED")
  BY DEF CanTransition, Transitions

(* The states that handlers name.                                          *)
LEMMA StatesNamed ==
  {"READY", "PAUSED", "ACTIVE", "CANCELED", "CLOSED", "COMPLETION_PROPOSED", "COMPLETED",
   "QUARANTINED"} \subseteq RoomState
  BY DEF RoomState

-----------------------------------------------------------------------------
(* Every variable keeps its type, whatever overlaps.                       *)
LEMMA StepKeepsType == TypeOK /\ [Next]_vars => TypeOK'
<1> SUFFICES ASSUME TypeOK, [Next]_vars
             PROVE  TypeOK'
  OBVIOUS
<1>0. /\ room \in RoomRow /\ \A p \in Procs : req[p] \in Request
      /\ room.state \in RoomState
      /\ \A to \in RoomState : Moved(room, to) \in RoomRow
  BY Rows DEF TypeOK, RoomRow
<1> USE <1>0, StatesNamed DEF Slot
<1>a. ASSUME NEW p \in Procs, req' \in [Procs -> Request], UnchangedRows
      PROVE  TypeOK'
  BY <1>a DEF TypeOK, UnchangedRows
<1>b. ASSUME NEW p \in Procs, NEW step, NEW states, NEW to \in RoomState,
             ReadAndMove(p, step, states, to)
      PROVE  TypeOK'
  BY <1>a, <1>b, Moves DEF ReadAndMove, Step
<1>c. ASSUME NEW row \in RoomRow, NEW counted \in {0, 1}, SaveRoom(row, counted)
      PROVE  room' \in RoomRow /\ lost' \in 0..MaxLost
  <2>1. row.turns \in Nat /\ room.turns \in Nat /\ lost \in Nat /\ MaxLost \in Nat
    BY RoomExecutionAssumption DEF TypeOK, RoomRow
  <2> QED
    BY <1>c, <2>1 DEF SaveRoom
<1>1. ASSUME NEW p \in Procs, WriteRoom(p)
      PROVE  TypeOK'
  <2>1. req[p].then \in Step /\ req[p].room \in RoomRow /\ req[p].room.state \in RoomState
    BY DEF Request, RoomRow
  <2>2. req' \in [Procs -> Request]
    BY <1>1, <2>1, Moves DEF WriteRoom
  <2>3. room' \in RoomRow /\ lost' \in 0..MaxLost
    BY <1>1, <1>c, <2>1 DEF WriteRoom
  <2> QED
    BY <1>1, <2>2, <2>3 DEF WriteRoom, TypeOK
<1>2. ASSUME NEW p \in Procs, StartRoom(p) \/ CloseRoom(p) \/ \E to \in RoomState : MoveRoom(p, to)
      PROVE  TypeOK'
  <2>1. req' \in [Procs -> Request]
    BY <1>2, Moves DEF StartRoom, CloseRoom, MoveRoom, Begin, Step
  <2> QED
    BY <1>2, <1>a, <2>1 DEF StartRoom, CloseRoom, MoveRoom
<1>3. ASSUME NEW p \in Procs, StampStart(p) \/ WriteClosed(p)
      PROVE  TypeOK'
  <2>1. req[p].room \in RoomRow /\ Moved(req[p].room, "CLOSED") \in RoomRow
    BY Rows DEF Request
  <2>2. req' \in [Procs -> Request]
    BY <1>3, Moves DEF StampStart, WriteClosed, Step
  <2>3. room' \in RoomRow /\ lost' \in 0..MaxLost
    BY <1>3, <1>c, <2>1 DEF StampStart, WriteClosed
  <2> QED
    BY <1>3, <2>2, <2>3 DEF StampStart, WriteClosed, TypeOK
<1>4. ASSUME NEW p \in Procs,
             \/ RunTurn(p) \/ RefuseTurn(p) \/ HaltRoom(p) \/ FailTurn(p) \/ ReadCriterion(p)
             \/ SubmitProposal(p) \/ ReadStatus(p) \/ SubmitSecret(p) \/ EndTurn(p) \/ ListConsent(p)
      PROVE  TypeOK'
  <2>1. req' \in [Procs -> Request]
    BY <1>4, Moves DEF RunTurn, RefuseTurn, HaltRoom, Drive, Begin, FailTurn, ReadCriterion,
         SubmitProposal, ReadStatus, SubmitSecret, EndTurn, ListConsent, Step
  <2> QED
    BY <1>4, <1>a, <2>1 DEF RunTurn, RefuseTurn, HaltRoom, FailTurn, ReadCriterion, SubmitProposal,
         ReadStatus, SubmitSecret, EndTurn, ListConsent
<1>5. ASSUME NEW p \in Procs, ReadToPause(p) \/ ReadToPropose(p) \/ ReadToQuarantine(p)
      PROVE  TypeOK'
  BY <1>5, <1>b DEF ReadToPause, ReadToPropose, ReadToQuarantine
<1>6. ASSUME NEW p \in Procs, ReadToComplete(p)
      PROVE  TypeOK'
  <2>1. req[p].from \in RoomState
    BY DEF Request
  <2> QED
    BY <1>6, <1>a, <2>1, Moves DEF ReadToComplete, Step
<1>7. ASSUME NEW p \in Procs, ExecuteTurn(p)
      PROVE  TypeOK'
  <2>1. req' \in [Procs -> Request]
    BY <1>7, Moves DEF ExecuteTurn, Step
  <2> QED
    BY <1>7, <2>1 DEF ExecuteTurn, TypeOK
<1>8. ASSUME NEW p \in Procs, ReadUsage(p)
      PROVE  TypeOK'
  BY <1>8, <1>a, Moves, Rows DEF ReadUsage, Step
<1>9. ASSUME NEW p \in Procs, NEW c \in Criteria, SubmitEvidence(p, c) \/ VerifyEvidence(p, c)
      PROVE  TypeOK'
  BY <1>9, <1>a, Moves DEF SubmitEvidence, VerifyEvidence, Begin, Step
<1>10. ASSUME NEW p \in Procs, CreateEvidence(p) \/ WriteCriterion(p) \/ WriteConsent(p)
       PROVE  TypeOK'
  <2>1. req[p].criterion \in Criteria /\ req[p].org \in Orgs
    BY DEF Request
  <2>2. req' \in [Procs -> Request]
    BY <1>10, Moves DEF CreateEvidence, WriteCriterion, WriteConsent, Step
  <2> QED
    BY <1>10, <2>1, <2>2 DEF CreateEvidence, WriteCriterion, WriteConsent, TypeOK, CriterionState
<1>11. ASSUME NEW p \in Procs, WriteVerified(p)
       PROVE  TypeOK'
  <2>1. req[p].criterion \in Criteria
    BY DEF Request
  <2>2. req' \in [Procs -> Request]
    BY <1>11, Moves DEF WriteVerified
  <2>3. criteria' \in [Criteria -> CriterionState] /\ late' \subseteq Criteria
    BY <1>11, <2>1 DEF WriteVerified, TypeOK, CriterionState
  <2> QED
    BY <1>11, <2>2, <2>3 DEF WriteVerified, TypeOK
<1>12. ASSUME NEW p \in Procs, Hold(p) \/ VoidApprovals(p)
       PROVE  TypeOK'
  <2>1. req' \in [Procs -> Request]
    BY <1>12, Moves DEF Hold, VoidApprovals
  <2> QED
    BY <1>12, <2>1 DEF Hold, VoidApprovals, TypeOK
<1>13. ASSUME NEW p \in Procs, DecideHeld(p)
       PROVE  TypeOK'
  <2>1. req' \in [Procs -> Request]
    BY <1>13, Moves DEF DecideHeld, Begin, Step, TypeOK
  <2> QED
    BY <1>13, <2>1 DEF DecideHeld, TypeOK
<1>14. ASSUME NEW p \in Procs, NEW o \in Orgs, ApproveCompletion(p, o)
       PROVE  TypeOK'
  BY ZenonT(30), <1>14, <1>a, Moves DEF ApproveCompletion, Begin, Step
<1>15. ASSUME NEW p \in Procs, Crash(p)
       PROVE  TypeOK'
  <2>1. req' \in [Procs -> Request]
    BY <1>15, Moves DEF Crash
  <2> QED
    BY <1>15, <2>1, RoomExecutionAssumption DEF Crash, TypeOK
<1>16. CASE UNCHANGED vars
  BY <1>16 DEF vars, TypeOK
<1> QED
  BY <1>1, <1>2, <1>3, <1>4, <1>5, <1>6, <1>7, <1>8, <1>9, <1>10, <1>11, <1>12, <1>13, <1>14, <1>15,
     <1>16 DEF Next

(* The types hold at the start.                                            *)
LEMMA InitType == Init => TypeOK
<1> SUFFICES ASSUME Init
             PROVE  TypeOK
  OBVIOUS
<1>1. crashes \in 0..MaxCrashes /\ ran \in Nat /\ lost \in 0..MaxLost
  BY RoomExecutionAssumption DEF Init
<1>2. req \in [Procs -> Request] /\ room \in RoomRow
  BY IdleIsRequest DEF Init
<1>3. criteria \in [Criteria -> CriterionState]
  BY DEF Init, CriterionState
<1> QED
  BY <1>1, <1>2, <1>3 DEF Init, TypeOK

(* Every variable keeps its type, however requests and turns overlap.      *)
THEOREM TypeCorrect == Spec => []TypeOK
<1> QED
  BY InitType, StepKeepsType, PTL DEF Spec

-----------------------------------------------------------------------------
(* The moves of the room.                                                  *)

(* What a request writes is where the whitelist leads from the state it    *)
(* goes on from.                                                           *)
Fits(r) ==
  /\ r.then \in {"idle", "submit", "stampStart", "writeClosed", "voidApprovals"}
  /\ r.step = "writeRoom" => /\ r.room.state = r.from \/ CanTransition(r.from, r.room.state)
                             /\ r.then = "writeClosed" => r.room.state = "CANCELED"
  /\ r.step = "stampStart" => r.room.state = r.from
  /\ r.step = "writeClosed" => r.from = "CANCELED"
  /\ r.step \in {"writeConsent", "listConsent", "readToComplete"} => r.from = "COMPLETION_PROPOSED"

MovesInv == TypeOK /\ \A p \in Procs : Fits(req[p])

Legal == room'.state # room.state =>
           \/ CanTransition(room.state, room'.state)
           \/ \E p \in Procs : req'[p] # req[p] /\ req[p].from # room.state

(* The step, whatever overlaps.                                            *)
LEMMA MovesStep == MovesInv /\ [Next]_vars => MovesInv' /\ Legal
<1> SUFFICES ASSUME MovesInv, [Next]_vars
             PROVE  MovesInv' /\ Legal
  OBVIOUS
<1>0. TypeOK /\ TypeOK' /\ \A p \in Procs : Fits(req[p])
  BY StepKeepsType DEF MovesInv
<1>1. /\ room \in RoomRow /\ room.state \in RoomState
      /\ \A p \in Procs : /\ req[p] \in Request /\ req[p].room \in RoomRow /\ req[p].then \in Step
                          /\ req[p].from \in RoomState /\ req[p].room.state \in RoomState
      /\ \A to \in RoomState : Moved(room, to) \in RoomRow /\ Moved(room, to).state = to
  <2>1. room \in RoomRow /\ req \in [Procs -> Request]
    BY <1>0 DEF TypeOK
  <2>2. \A to \in RoomState : Moved(room, to) \in RoomRow /\ Moved(room, to).state = to
    BY <2>1, Rows
  <2> QED
    BY <2>1, <2>2 DEF Request, RoomRow
<1> USE <1>0, <1>1
(* Only the slot of p changes, and what it holds fits.                     *)
<1>a. ASSUME NEW p \in Procs, NEW step, NEW then, NEW row, NEW from, NEW c,
             Slot(p, step, then, row, from, c),
             then \in {"idle", "submit", "stampStart", "writeClosed", "voidApprovals"},
             step = "writeRoom" => /\ row.state = from \/ CanTransition(from, row.state)
                                   /\ then = "writeClosed" => row.state = "CANCELED",
             step = "stampStart" => row.state = from,
             step = "writeClosed" => from = "CANCELED",
             step \in {"writeConsent", "listConsent", "readToComplete"} => from = "COMPLETION_PROPOSED"
      PROVE  MovesInv'
  <2>1. Fits(req[p])'
    BY <1>a DEF Slot, Fits
  <2>2. ASSUME NEW q \in Procs, q # p
        PROVE  Fits(req[q])'
    BY <1>a, <2>2 DEF Slot, Fits
  <2> QED
    BY <2>1, <2>2 DEF MovesInv
<1>b. ASSUME NEW p \in Procs, Done(p)
      PROVE  MovesInv'
  <2>1. Slot(p, "idle", "idle", Ready, "READY", Idle.criterion)
    BY <1>b, Moves
  <2> QED
    BY <1>a, <2>1
(* A step of the request that says nothing of the room.                    *)
<1>c. ASSUME NEW p \in Procs,
             NEW s \in {"idle", "executeTurn", "readUsage", "readToPause", "submit", "createEvidence",
                        "readCriterion", "writeCriterion", "writeVerified", "readStatus",
                        "readToPropose", "readToQuarantine", "voidApprovals"},
             \/ Goto(p, s) \/ Set(p, [Idle EXCEPT !.step = s])
             \/ \E c \in Criteria : Set(p, [Idle EXCEPT !.step = s, !.criterion = c])
      PROVE  MovesInv'
  <2>1. s \in Step
    BY DEF Step
  <2>2. \/ Slot(p, s, req[p].then, req[p].room, req[p].from, req[p].criterion)
        \/ \E c : Slot(p, s, "idle", Ready, "READY", c)
    BY <1>c, <2>1, Moves
  <2>3. CASE Slot(p, s, req[p].then, req[p].room, req[p].from, req[p].criterion)
    BY <1>a, <2>3 DEF Fits
  <2>4. ASSUME NEW c, Slot(p, s, "idle", Ready, "READY", c)
        PROVE  MovesInv'
    BY <1>a, <2>4
  <2> QED
    BY <2>2, <2>3, <2>4
<1>d. ASSUME NEW p \in Procs, NEW from \in RoomState, NEW row \in RoomRow,
             NEW then \in {"idle", "submit", "stampStart", "writeClosed", "voidApprovals"},
             Set(p, Writing(from, row, then)), row.state = from \/ CanTransition(from, row.state),
             then = "writeClosed" => row.state = "CANCELED"
      PROVE  MovesInv'
  <2>1. then \in Step
    BY DEF Step
  <2>2. Slot(p, "writeRoom", then, row, from, Idle.criterion)
    BY <1>d, <2>1, Moves
  <2> QED
    BY <1>a, <1>d, <2>2
<1>e. ASSUME NEW p \in Procs, NEW step, NEW states, NEW to \in RoomState,
             ReadAndMove(p, step, states, to),
             room.state \in states => CanTransition(room.state, to)
      PROVE  MovesInv'
  <2>1. CASE room.state \in states
    BY <1>d, <1>e, <2>1 DEF ReadAndMove
  <2>2. CASE room.state \notin states
    BY <1>b, <1>e, <2>2 DEF ReadAndMove
  <2> QED
    BY <2>1, <2>2
<1>2. ASSUME NEW p \in Procs, WriteRoom(p)
      PROVE  MovesInv' /\ Legal
  <2> DEFINE r == req[p]
  <2>1. /\ r.step = "writeRoom" /\ room' = r.room
        /\ r.then \in Rewriting => Slot(p, r.then, "idle", r.room, r.room.state, Idle.criterion)
        /\ r.then \notin Rewriting => Slot(p, r.then, "idle", Ready, "READY", Idle.criterion)
    BY <1>2, Moves DEF WriteRoom, SaveRoom, At
  <2>2. MovesInv'
    <3>1. CASE r.then \in Rewriting
      BY <1>a, <2>1, <3>1 DEF Rewriting, Fits
    <3>2. CASE r.then \notin Rewriting
      BY <1>a, <2>1, <3>2 DEF Rewriting, Fits
    <3> QED
      BY <3>1, <3>2
  <2>3. req'[p] # req[p]
    BY <2>1 DEF Slot, Fits
  <2>4. room'.state = r.from \/ CanTransition(r.from, room'.state)
    BY <2>1 DEF Fits
  <2> QED
    BY <2>2, <2>3, <2>4 DEF Legal
<1>3. ASSUME NEW p \in Procs, StampStart(p)
      PROVE  MovesInv' /\ Legal
  <2>1. MovesInv'
    BY <1>3, <1>b DEF StampStart
  <2>2. req[p].step = "stampStart" /\ room' = req[p].room /\ room'.state = req[p].from
    BY <1>3 DEF StampStart, SaveRoom, At, Fits
  <2>3. req'[p] # req[p]
    BY <1>3, <2>2, Moves DEF StampStart, Slot
  <2> QED
    BY <2>1, <2>2, <2>3 DEF Legal
<1>4. ASSUME NEW p \in Procs, WriteClosed(p)
      PROVE  MovesInv' /\ Legal
  <2>1. MovesInv'
    BY <1>4, <1>c DEF WriteClosed
  <2>2. req[p].step = "writeClosed" /\ room'.state = "CLOSED" /\ req[p].from = "CANCELED"
    <3>1. req[p].step = "writeClosed" /\ room' = Moved(req[p].room, "CLOSED")
      BY <1>4 DEF WriteClosed, SaveRoom, At
    <3>2. Moved(req[p].room, "CLOSED").state = "CLOSED"
      BY Rows, StatesNamed
    <3> QED
      BY <3>1, <3>2 DEF Fits
  <2>3. req'[p] # req[p]
    <3>1. Slot(p, "voidApprovals", "idle", Ready, "READY", Idle.criterion)
      BY <1>4, Moves DEF WriteClosed, Step
    <3> QED
      BY <2>2, <3>1 DEF Slot
  <2> QED
    BY <2>1, <2>2, <2>3, Whitelist DEF Legal
(* From here on the room's row stays as it is.                             *)
<1>5. ASSUME NEW p \in Procs, StartRoom(p) \/ CloseRoom(p) \/ \E to \in RoomState : MoveRoom(p, to)
      PROVE  MovesInv'
  <2>1. PICK to \in {"ACTIVE", "PAUSED", "CANCELED", "CLOSED"},
             then \in {"idle", "stampStart", "voidApprovals", "writeClosed"} :
          /\ Set(p, Writing(room.state, Moved(room, to), then))
          /\ CanTransition(room.state, to)
          /\ then = "writeClosed" => to = "CANCELED"
    <3>1. CASE StartRoom(p)
      BY <3>1, Whitelist DEF StartRoom, Begin
    <3>2. CASE CloseRoom(p)
      BY <3>2, Whitelist DEF CloseRoom, Closable, Begin
    <3>3. CASE \E to \in RoomState : MoveRoom(p, to)
      BY <3>3 DEF MoveRoom, Begin
    <3> QED
      BY <1>5, <3>1, <3>2, <3>3
  <2>2. Moved(room, to) \in RoomRow /\ Moved(room, to).state = to
    BY StatesNamed
  <2> QED
    BY <1>d, <2>1, <2>2
<1>6. ASSUME NEW p \in Procs,
             \/ RunTurn(p) \/ RefuseTurn(p) \/ HaltRoom(p) \/ ExecuteTurn(p) \/ CreateEvidence(p)
             \/ SubmitProposal(p) \/ SubmitSecret(p)
             \/ \E c \in Criteria : SubmitEvidence(p, c) \/ VerifyEvidence(p, c)
      PROVE  MovesInv'
  BY <1>6, <1>c DEF RunTurn, RefuseTurn, HaltRoom, Drive, Begin, ExecuteTurn, CreateEvidence,
                    SubmitProposal, SubmitSecret, SubmitEvidence, VerifyEvidence
<1>7. ASSUME NEW p \in Procs,
             \/ FailTurn(p) \/ EndTurn(p) \/ Hold(p) \/ VoidApprovals(p) \/ WriteCriterion(p)
             \/ WriteVerified(p) \/ Crash(p)
      PROVE  MovesInv'
  BY <1>7, <1>b DEF FailTurn, EndTurn, Hold, VoidApprovals, WriteCriterion, WriteVerified, Crash
<1>8. ASSUME NEW p \in Procs, ReadCriterion(p) \/ ReadStatus(p)
      PROVE  MovesInv'
  BY <1>8, <1>b, <1>c DEF ReadCriterion, ReadStatus
<1>9. ASSUME NEW p \in Procs, ReadToPause(p) \/ ReadToPropose(p) \/ ReadToQuarantine(p)
      PROVE  MovesInv'
  <2>1. CASE ReadToPause(p)
    BY <1>e, <2>1, StatesNamed, Whitelist DEF ReadToPause
  <2>2. CASE ReadToPropose(p)
    BY <1>e, <2>2, StatesNamed, Whitelist DEF ReadToPropose
  <2>3. CASE ReadToQuarantine(p)
    BY <1>e, <2>3, StatesNamed DEF ReadToQuarantine
  <2> QED
    BY <1>9, <2>1, <2>2, <2>3
<1>10. ASSUME NEW p \in Procs, ReadToComplete(p)
       PROVE  MovesInv'
  <2>1. req[p].from = "COMPLETION_PROPOSED" /\ Set(p, Writing(req[p].from, Moved(room, "COMPLETED"), "idle"))
    BY <1>10 DEF ReadToComplete, At, Fits
  <2>2. Moved(room, "COMPLETED") \in RoomRow /\ Moved(room, "COMPLETED").state = "COMPLETED"
    BY StatesNamed
  <2> QED
    BY <1>d, <2>1, <2>2, Whitelist
<1>11. ASSUME NEW p \in Procs, ReadUsage(p)
       PROVE  MovesInv'
  <2> DEFINE row == [room EXCEPT !.turns = room.turns + 1]
  <2>1. row \in RoomRow /\ row.state = room.state
    BY Rows
  <2>2. Set(p, Writing(room.state, row, "submit"))
    BY <1>11 DEF ReadUsage
  <2> HIDE DEF row
  <2> QED
    BY <1>d, <2>1, <2>2
<1>12. ASSUME NEW p \in Procs, DecideHeld(p)
       PROVE  MovesInv'
  <2>1. CASE UNCHANGED req
    BY <2>1 DEF MovesInv, Fits
  <2>2. CASE ~UNCHANGED req
    BY <1>12, <1>c, <2>2 DEF DecideHeld, Begin
  <2> QED
    BY <2>1, <2>2
<1>13. ASSUME NEW p \in Procs, NEW o \in Orgs, ApproveCompletion(p, o)
       PROVE  MovesInv'
  <2>1. Slot(p, "writeConsent", "idle", Ready, "COMPLETION_PROPOSED", Idle.criterion)
    BY <1>13, Moves DEF ApproveCompletion, Begin, Step
  <2> QED
    BY <1>a, <2>1
<1>14. ASSUME NEW p \in Procs, WriteConsent(p) \/ ListConsent(p)
       PROVE  MovesInv'
  <2>1. CASE Done(p)
    BY <1>b, <2>1
  <2>2. ASSUME NEW s \in {"listConsent", "readToComplete"}, Goto(p, s)
        PROVE  MovesInv'
    <3>1. Slot(p, s, req[p].then, req[p].room, req[p].from, req[p].criterion)
      BY <2>2, Moves DEF Step
    <3>2. req[p].step \in {"writeConsent", "listConsent"}
      BY <1>14 DEF WriteConsent, ListConsent, At
    <3> QED
      BY <1>a, <3>1, <3>2 DEF Fits
  <2> QED
    BY <1>14, <2>1, <2>2 DEF WriteConsent, ListConsent
<1>15. ASSUME NEW p \in Procs,
              \/ StartRoom(p) \/ CloseRoom(p) \/ VoidApprovals(p)
              \/ \E to \in RoomState : MoveRoom(p, to)
              \/ RunTurn(p) \/ RefuseTurn(p) \/ HaltRoom(p) \/ ReadToPause(p) \/ ExecuteTurn(p)
              \/ FailTurn(p) \/ ReadUsage(p) \/ EndTurn(p)
              \/ \E c \in Criteria : SubmitEvidence(p, c) \/ VerifyEvidence(p, c)
              \/ CreateEvidence(p) \/ ReadCriterion(p) \/ WriteCriterion(p) \/ WriteVerified(p)
              \/ SubmitProposal(p) \/ ReadStatus(p) \/ ReadToPropose(p)
              \/ SubmitSecret(p) \/ ReadToQuarantine(p) \/ Hold(p) \/ DecideHeld(p)
              \/ \E o \in Orgs : ApproveCompletion(p, o)
              \/ WriteConsent(p) \/ ListConsent(p) \/ ReadToComplete(p) \/ Crash(p)
       PROVE  UNCHANGED room
  BY <1>15 DEF StartRoom, CloseRoom, VoidApprovals, MoveRoom, RunTurn, RefuseTurn, HaltRoom,
     ReadToPause, ExecuteTurn, FailTurn, ReadUsage, EndTurn, SubmitEvidence, VerifyEvidence,
     CreateEvidence, ReadCriterion, WriteCriterion, WriteVerified, SubmitProposal, ReadStatus,
     ReadToPropose, SubmitSecret, ReadToQuarantine, Hold, DecideHeld, ApproveCompletion,
     WriteConsent, ListConsent, ReadToComplete, Crash, ReadAndMove, UnchangedRows
<1>16. CASE UNCHANGED vars
  BY <1>16 DEF vars, MovesInv, Fits, Legal
<1>17. UNCHANGED room => Legal
  BY DEF Legal
<1>18. MovesInv'
  BY <1>2, <1>3, <1>4, <1>5, <1>6, <1>7, <1>8, <1>9, <1>10, <1>11, <1>12, <1>13, <1>14, <1>16 DEF Next
<1>19. Legal
  BY <1>2, <1>3, <1>4, <1>15, <1>16, <1>17 DEF Next
<1> QED
  BY <1>18, <1>19

(* Every request fits at all times.                                        *)
LEMMA AlwaysFitting == Spec => []MovesInv
<1>1. Init => MovesInv
  <2> SUFFICES ASSUME Init
               PROVE  MovesInv
    OBVIOUS
  <2>1. \A p \in Procs : Fits(req[p])
    BY IdleIsRequest DEF Init, Fits
  <2> QED
    BY <2>1, InitType DEF MovesInv
<1> QED
  BY <1>1, MovesStep, PTL DEF Spec

(* packages/shared/src/room.ts, whatever overlaps: rows move along the     *)
(* whitelist, also where a handler sets the state without consulting it,   *)
(* unless the handler had read or checked the room in another state.       *)
THEOREM MovesAreLegal == Spec => LegalMoves
<1>1. MovesInv /\ [Next]_vars => [Legal]_vars
  BY MovesStep
<1>2. LegalMoves <=> [][Legal]_vars
  BY DEF LegalMoves, Legal
<1> QED
  BY <1>1, <1>2, AlwaysFitting, PTL DEF Spec

-----------------------------------------------------------------------------
(* The budget of turns.                                                    *)

(* The turn has run the agent and has not accounted for it; and the turns  *)
(* that have found the budget unspent and have not run the agent.          *)
Unaccounted(p) == \/ req[p].step = "readUsage"
                  \/ req[p].step = "writeRoom" /\ req[p].then = "submit"

Accounting == {p \in Procs : Unaccounted(p)}
Started    == {p \in Procs : req[p].step = "executeTurn"}

(* Every turn that ran is in the row, is about to be, or was lost; and     *)
(* those that ran or will run are within the budget and what it costs that *)
(* turns overlap, crash and write over each other's accounts.              *)
BudgetInv ==
  /\ TypeOK
  /\ ran <= room.turns + Cardinality(Accounting) + crashes + lost
  /\ ran + Cardinality(Started) <= MaxTurns - 1 + Cardinality(Procs) + crashes + lost

(* What one element adds to a finite set, and its absence takes away.      *)
LEMMA OneMore ==
  ASSUME NEW S, NEW T, NEW x, IsFiniteSet(S), T \ {x} = S \ {x}
  PROVE  /\ Cardinality(S) \in Nat /\ Cardinality(T) \in Nat
         /\ x \in S /\ x \in T => Cardinality(T) = Cardinality(S)
         /\ x \notin S /\ x \notin T => Cardinality(T) = Cardinality(S)
         /\ x \notin S /\ x \in T => Cardinality(T) = Cardinality(S) + 1
         /\ x \in S /\ x \notin T => Cardinality(T) = Cardinality(S) - 1
  <1>1. Cardinality(S) \in Nat
    BY FS_CardinalityType
  <1>2. ASSUME x \in S <=> x \in T
        PROVE  T = S
    BY <1>2
  <1>3. ASSUME x \notin S, x \in T
        PROVE  Cardinality(T) = Cardinality(S) + 1
    <2>1. T = S \cup {x}
      BY <1>3
    <2> QED
      BY <1>3, <2>1, FS_AddElement
  <1>4. ASSUME x \in S, x \notin T
        PROVE  Cardinality(T) = Cardinality(S) - 1
    <2>1. T = S \ {x}
      BY <1>4
    <2> QED
      BY <1>4, <2>1, FS_RemoveElement
  <1>5. IsFiniteSet(T)
    <2>1. T \subseteq S \cup {x}
      OBVIOUS
    <2>2. IsFiniteSet(S \cup {x})
      BY FS_AddElement
    <2> QED
      BY <2>1, <2>2, FS_Subset
  <1>6. Cardinality(T) \in Nat
    BY <1>5, FS_CardinalityType
  <1> QED
    BY <1>1, <1>2, <1>3, <1>4, <1>6

(* How a change of one slot changes the two sets.                          *)
LEMMA TurnsInFlight ==
  ASSUME TypeOK, NEW p \in Procs, NEW step, NEW then, NEW row, NEW from, NEW c,
         Slot(p, step, then, row, from, c)
  PROVE  /\ Cardinality(Accounting) \in Nat /\ Cardinality(Started) \in Nat
         /\ Cardinality(Accounting)' \in Nat /\ Cardinality(Started)' \in Nat
         /\ LET now == step = "readUsage" \/ (step = "writeRoom" /\ then = "submit")
                was == Unaccounted(p)
            IN  /\ (now <=> was) => Cardinality(Accounting)' = Cardinality(Accounting)
                /\ now /\ ~was => Cardinality(Accounting)' = Cardinality(Accounting) + 1
                /\ ~now /\ was => Cardinality(Accounting)' = Cardinality(Accounting) - 1
         /\ LET now == step = "executeTurn"
                was == req[p].step = "executeTurn"
            IN  /\ (now <=> was) => Cardinality(Started)' = Cardinality(Started)
                /\ now /\ ~was => Cardinality(Started)' = Cardinality(Started) + 1
                /\ ~now /\ was => Cardinality(Started)' = Cardinality(Started) - 1
  <1>1. IsFiniteSet(Accounting) /\ IsFiniteSet(Started)
    BY FS_Subset, RoomExecutionAssumption DEF Accounting, Started
  <1>2. Accounting' \ {p} = Accounting \ {p} /\ Started' \ {p} = Started \ {p}
    BY DEF Accounting, Started, Unaccounted, Slot
  <1>3. /\ p \in Accounting <=> Unaccounted(p)
        /\ p \in Accounting' <=> step = "readUsage" \/ (step = "writeRoom" /\ then = "submit")
        /\ p \in Started <=> req[p].step = "executeTurn"
        /\ p \in Started' <=> step = "executeTurn"
    BY DEF Accounting, Started, Unaccounted, Slot
  <1> HIDE DEF Accounting, Started
  <1>4. /\ Cardinality(Accounting) \in Nat /\ Cardinality(Accounting') \in Nat
        /\ (p \in Accounting' <=> p \in Accounting) => Cardinality(Accounting') = Cardinality(Accounting)
        /\ p \in Accounting' /\ p \notin Accounting => Cardinality(Accounting') = Cardinality(Accounting) + 1
        /\ p \notin Accounting' /\ p \in Accounting => Cardinality(Accounting') = Cardinality(Accounting) - 1
    BY <1>1, <1>2, OneMore
  <1>5. /\ Cardinality(Started) \in Nat /\ Cardinality(Started') \in Nat
        /\ (p \in Started' <=> p \in Started) => Cardinality(Started') = Cardinality(Started)
        /\ p \in Started' /\ p \notin Started => Cardinality(Started') = Cardinality(Started) + 1
        /\ p \notin Started' /\ p \in Started => Cardinality(Started') = Cardinality(Started) - 1
    BY <1>1, <1>2, OneMore
  <1> QED
    BY <1>3, <1>4, <1>5

(* The turns that have found the budget unspent and those that have run    *)
(* the agent are different slots.                                          *)
LEMMA Disjoint ==
  ASSUME TypeOK, NEW p \in Procs, p \notin Accounting, p \notin Started
  PROVE  Cardinality(Accounting) + Cardinality(Started) + 1 <= Cardinality(Procs)
  <1>1. IsFiniteSet(Procs) /\ IsFiniteSet(Accounting) /\ IsFiniteSet(Started)
    BY FS_Subset, RoomExecutionAssumption DEF Accounting, Started
  <1>2. Accounting \cap Started = {}
    BY DEF Accounting, Started, Unaccounted
  <1>3. /\ IsFiniteSet(Accounting \cup Started)
        /\ Cardinality(Accounting \cup Started) = Cardinality(Accounting) + Cardinality(Started)
    <2>1. Cardinality(Accounting \cap Started) = 0
      BY <1>2, FS_EmptySet
    <2>2. Cardinality(Accounting) \in Nat /\ Cardinality(Started) \in Nat
      BY <1>1, FS_CardinalityType
    <2>3. /\ IsFiniteSet(Accounting \cup Started)
          /\ Cardinality(Accounting \cup Started)
               = Cardinality(Accounting) + Cardinality(Started) - Cardinality(Accounting \cap Started)
      BY <1>1, FS_Union
    <2> QED
      BY <2>1, <2>2, <2>3
  <1>4. /\ IsFiniteSet((Accounting \cup Started) \cup {p})
        /\ Cardinality((Accounting \cup Started) \cup {p}) = Cardinality(Accounting \cup Started) + 1
    BY <1>3, FS_AddElement
  <1>5. (Accounting \cup Started) \cup {p} \subseteq Procs
    BY DEF Accounting, Started
  <1>6. Cardinality((Accounting \cup Started) \cup {p}) <= Cardinality(Procs)
    BY <1>1, <1>5, FS_Subset
  <1> QED
    BY <1>3, <1>4, <1>6

(* The step, whatever overlaps.                                            *)
LEMMA BudgetStep == MovesInv /\ BudgetInv /\ [Next]_vars => BudgetInv'
<1> SUFFICES ASSUME MovesInv, BudgetInv, [Next]_vars
             PROVE  BudgetInv'
  OBVIOUS
<1>0. TypeOK /\ TypeOK'
  BY StepKeepsType DEF BudgetInv
<1>1. /\ room \in RoomRow /\ room.turns \in Nat /\ ran \in Nat /\ crashes \in Nat /\ lost \in Nat
      /\ MaxTurns \in Nat /\ Cardinality(Procs) \in Nat
      /\ \A p \in Procs : /\ req[p] \in Request /\ req[p].room \in RoomRow /\ req[p].then \in Step
                          /\ req[p].room.turns \in Nat /\ req[p].from \in RoomState
      /\ \A to \in RoomState : Moved(room, to) \in RoomRow
  <2>1. room \in RoomRow /\ req \in [Procs -> Request] /\ crashes \in Nat /\ ran \in Nat /\ lost \in Nat
    BY <1>0, RoomExecutionAssumption DEF TypeOK
  <2>2. MaxTurns \in Nat /\ Cardinality(Procs) \in Nat
    BY FS_CardinalityType, RoomExecutionAssumption
  <2>3. \A to \in RoomState : Moved(room, to) \in RoomRow
    BY <2>1, Rows
  <2> QED
    BY <2>1, <2>2, <2>3 DEF Request, RoomRow
<1>2. /\ ran <= room.turns + Cardinality(Accounting) + crashes + lost
      /\ ran + Cardinality(Started) <= MaxTurns - 1 + Cardinality(Procs) + crashes + lost
  BY DEF BudgetInv
<1> USE <1>0, <1>1
(* A request that neither starts, runs nor accounts for a turn.            *)
<1>a. ASSUME NEW p \in Procs, NEW step, NEW then, NEW row, NEW from, NEW c,
             Slot(p, step, then, row, from, c), UNCHANGED <<room, ran, crashes, lost>>,
             ~Unaccounted(p), req[p].step # "executeTurn",
             step \notin {"executeTurn", "readUsage"}, step = "writeRoom" => then # "submit"
      PROVE  BudgetInv'
  <2>1. Cardinality(Accounting)' = Cardinality(Accounting) /\ Cardinality(Started)' = Cardinality(Started)
    BY <1>a, TurnsInFlight
  <2> QED
    BY <1>2, <1>a, <2>1 DEF BudgetInv
(* What a handler does that has nothing to do with turns.                  *)
<1>b. ASSUME NEW p \in Procs, ~Unaccounted(p), req[p].step # "executeTurn",
             UNCHANGED <<room, ran, crashes, lost>>,
             \/ Done(p)
             \/ \E s \in Step \ {"executeTurn", "readUsage", "writeRoom"} :
                  \/ Goto(p, s) \/ Set(p, [Idle EXCEPT !.step = s])
                  \/ \E c \in Criteria : Set(p, [Idle EXCEPT !.step = s, !.criterion = c])
             \/ \E from, to \in RoomState, then \in Step \ {"submit"} :
                  Set(p, Writing(from, Moved(room, to), then))
      PROVE  BudgetInv'
  <2>0. /\ UNCHANGED <<room, ran, crashes, lost>>
        /\ ~Unaccounted(p) /\ req[p].step # "executeTurn"
    BY <1>b
  <2>1. CASE Done(p)
    <3>1. Slot(p, "idle", "idle", Ready, "READY", Idle.criterion)
      BY <2>1, Moves
    <3> QED
      BY <1>a, <2>0, <3>1
  <2>2. ASSUME NEW s \in Step \ {"executeTurn", "readUsage", "writeRoom"},
               \/ Goto(p, s) \/ Set(p, [Idle EXCEPT !.step = s])
               \/ \E c \in Criteria : Set(p, [Idle EXCEPT !.step = s, !.criterion = c])
        PROVE  BudgetInv'
    <3>1. \E then, row, from, c : Slot(p, s, then, row, from, c)
      BY <2>2, Moves
    <3> QED
      BY <1>a, <2>0, <3>1
  <2>3. ASSUME NEW from \in RoomState, NEW to \in RoomState, NEW then \in Step \ {"submit"},
               Set(p, Writing(from, Moved(room, to), then))
        PROVE  BudgetInv'
    <3>1. Slot(p, "writeRoom", then, Moved(room, to), from, Idle.criterion)
      BY <2>3, Moves
    <3> QED
      BY <1>a, <2>0, <3>1
  <2> QED
    BY <1>b, <2>1, <2>2, <2>3
<1>3. ASSUME NEW p \in Procs, WriteRoom(p)
      PROVE  BudgetInv'
  <2> DEFINE r == req[p]
             counted == IF r.then = "submit" THEN 1 ELSE 0
  <2>1. /\ r.step = "writeRoom" /\ SaveRoom(r.room, counted) /\ UNCHANGED <<ran, crashes>>
        /\ \E row, from, c : Slot(p, r.then, "idle", row, from, c)
    <3>1. r.room.state \in RoomState
      BY DEF RoomRow
    <3> QED
      BY <1>3, <3>1, Moves DEF WriteRoom, At
  <2>2. r.then \notin {"executeTurn", "readUsage", "writeRoom"}
    BY DEF MovesInv, Fits
  <2>3. /\ Cardinality(Started)' = Cardinality(Started) /\ Cardinality(Started) \in Nat
        /\ Cardinality(Accounting) \in Nat
        /\ Cardinality(Accounting)' = Cardinality(Accounting) - counted
    BY <2>1, <2>2, TurnsInFlight DEF Unaccounted
  <2>4. /\ lost' \in Nat /\ lost <= lost'
        /\ room.turns + counted + lost <= room'.turns + lost'
    BY <2>1 DEF SaveRoom
  <2>5. room'.turns \in Nat /\ counted \in Nat
    BY <2>1 DEF SaveRoom
  <2> HIDE DEF counted
  <2>6. ran' <= room'.turns + Cardinality(Accounting)' + crashes' + lost'
    BY <1>2, <2>1, <2>3, <2>4, <2>5
  <2>7. ran' + Cardinality(Started)' <= MaxTurns - 1 + Cardinality(Procs) + crashes' + lost'
    BY <1>2, <2>1, <2>3, <2>4
  <2> QED
    BY <2>6, <2>7 DEF BudgetInv
<1>4. ASSUME NEW p \in Procs, StampStart(p) \/ WriteClosed(p)
      PROVE  BudgetInv'
  <2>1. PICK row \in RoomRow : SaveRoom(row, 0)
    <3>1. Moved(req[p].room, "CLOSED") \in RoomRow
      BY Rows, StatesNamed
    <3> QED
      BY <1>4, <3>1 DEF StampStart, WriteClosed
  <2>2. /\ UNCHANGED <<ran, crashes>> /\ ~Unaccounted(p) /\ req[p].step # "executeTurn"
        /\ \E s \in {"idle", "voidApprovals"} : \E then, r, from, c : Slot(p, s, then, r, from, c)
    BY <1>4, Moves DEF StampStart, WriteClosed, Unaccounted, At, Step
  <2>3. /\ Cardinality(Accounting)' = Cardinality(Accounting) /\ Cardinality(Started)' = Cardinality(Started)
        /\ Cardinality(Accounting) \in Nat /\ Cardinality(Started) \in Nat
    BY <2>2, TurnsInFlight
  <2>4. room'.turns \in Nat /\ lost' \in Nat /\ lost <= lost' /\ room.turns + lost <= room'.turns + lost'
    BY <2>1 DEF SaveRoom, RoomRow
  <2> QED
    BY <1>2, <2>2, <2>3, <2>4 DEF BudgetInv
<1>5. ASSUME NEW p \in Procs, RunTurn(p)
      PROVE  BudgetInv'
  <2>1. /\ Slot(p, "executeTurn", "idle", Ready, "READY", Idle.criterion)
        /\ req[p].step = "idle" /\ room.turns < MaxTurns /\ UNCHANGED <<room, ran, crashes, lost>>
    <3>1. Set(p, [Idle EXCEPT !.step = "executeTurn"])
      BY <1>5 DEF RunTurn, Drive, Begin
    <3>2. Slot(p, "executeTurn", "idle", Ready, "READY", Idle.criterion)
      BY <3>1, Moves DEF Step
    <3>3. room.turns < MaxTurns
      BY <1>5 DEF RunTurn, BudgetExceeded
    <3> QED
      BY <1>5, <3>2, <3>3 DEF RunTurn, Drive, Begin, At, UnchangedRows
  <2>2. /\ Cardinality(Accounting)' = Cardinality(Accounting)
        /\ Cardinality(Started)' = Cardinality(Started) + 1
        /\ Cardinality(Accounting) \in Nat /\ Cardinality(Started) \in Nat
    BY <2>1, TurnsInFlight DEF Unaccounted
  <2>3. Cardinality(Accounting) + Cardinality(Started) + 1 <= Cardinality(Procs)
    <3>1. p \notin Accounting /\ p \notin Started
      BY <2>1 DEF Accounting, Started, Unaccounted
    <3> QED
      BY <3>1, Disjoint
  <2> QED
    BY <1>2, <2>1, <2>2, <2>3 DEF BudgetInv
<1>6. ASSUME NEW p \in Procs, ExecuteTurn(p)
      PROVE  BudgetInv'
  <2>1. /\ \E then, row, from, c : Slot(p, "readUsage", then, row, from, c)
        /\ req[p].step = "executeTurn" /\ ran' = ran + 1 /\ UNCHANGED <<room, crashes, lost>>
    BY <1>6, Moves DEF ExecuteTurn, At, Step
  <2>2. /\ Cardinality(Accounting)' = Cardinality(Accounting) + 1
        /\ Cardinality(Started)' = Cardinality(Started) - 1
        /\ Cardinality(Accounting) \in Nat /\ Cardinality(Started) \in Nat
    BY <2>1, TurnsInFlight DEF Unaccounted
  <2> QED
    BY <1>2, <2>1, <2>2 DEF BudgetInv
<1>7. ASSUME NEW p \in Procs, FailTurn(p)
      PROVE  BudgetInv'
  <2>1. /\ Slot(p, "idle", "idle", Ready, "READY", Idle.criterion)
        /\ req[p].step = "executeTurn" /\ UNCHANGED <<room, ran, crashes, lost>>
    BY <1>7, Moves DEF FailTurn, At, UnchangedRows
  <2>2. /\ Cardinality(Accounting)' = Cardinality(Accounting)
        /\ Cardinality(Started)' = Cardinality(Started) - 1
        /\ Cardinality(Accounting) \in Nat /\ Cardinality(Started) \in Nat
    BY <2>1, TurnsInFlight DEF Unaccounted
  <2> QED
    BY <1>2, <2>1, <2>2 DEF BudgetInv
<1>8. ASSUME NEW p \in Procs, ReadUsage(p)
      PROVE  BudgetInv'
  <2> DEFINE row == [room EXCEPT !.turns = room.turns + 1]
  <2>1. row \in RoomRow /\ room.state \in RoomState
    BY Rows DEF RoomRow
  <2>2. /\ Set(p, Writing(room.state, row, "submit")) /\ req[p].step = "readUsage"
        /\ UNCHANGED <<room, ran, crashes, lost>>
    BY <1>8 DEF ReadUsage, UnchangedRows, At
  <2> HIDE DEF row
  <2>3. Slot(p, "writeRoom", "submit", row, room.state, Idle.criterion)
    BY <2>1, <2>2, Moves DEF Step
  <2>4. Cardinality(Accounting)' = Cardinality(Accounting) /\ Cardinality(Started)' = Cardinality(Started)
    BY <2>2, <2>3, TurnsInFlight DEF Unaccounted
  <2> QED
    BY <1>2, <2>2, <2>4 DEF BudgetInv
<1>9. ASSUME NEW p \in Procs, Crash(p)
      PROVE  BudgetInv'
  <2>1. /\ Slot(p, "idle", "idle", Ready, "READY", Idle.criterion)
        /\ crashes' = crashes + 1 /\ UNCHANGED <<room, ran, lost>>
    BY <1>9, Moves DEF Crash
  <2>2. /\ Cardinality(Accounting) - 1 <= Cardinality(Accounting)'
        /\ Cardinality(Started)' <= Cardinality(Started)
        /\ Cardinality(Accounting) \in Nat /\ Cardinality(Started) \in Nat
        /\ Cardinality(Accounting)' \in Nat /\ Cardinality(Started)' \in Nat
    BY <2>1, TurnsInFlight
  <2> QED
    BY <1>2, <2>1, <2>2 DEF BudgetInv
(* The other requests.                                                     *)
<1>10. ASSUME NEW p \in Procs, StartRoom(p) \/ CloseRoom(p) \/ \E to \in RoomState : MoveRoom(p, to)
       PROVE  BudgetInv'
  <2>1. \E from, to \in RoomState, then \in Step \ {"submit"} :
          Set(p, Writing(from, Moved(room, to), then))
    <3>1. room.state \in RoomState
      BY DEF RoomRow
    <3> QED
      BY <1>10, <3>1, StatesNamed DEF StartRoom, CloseRoom, MoveRoom, Begin, Step
  <2>2. UNCHANGED <<room, ran, crashes, lost>> /\ ~Unaccounted(p) /\ req[p].step # "executeTurn"
    BY <1>10 DEF StartRoom, CloseRoom, MoveRoom, Begin, At, Unaccounted, UnchangedRows
  <2> QED
    BY <1>b, <2>1, <2>2
<1>11. ASSUME NEW p \in Procs,
              \/ RefuseTurn(p) \/ HaltRoom(p) \/ VoidApprovals(p) \/ EndTurn(p) \/ Hold(p)
              \/ CreateEvidence(p) \/ ReadCriterion(p) \/ WriteCriterion(p) \/ WriteVerified(p)
              \/ SubmitProposal(p) \/ ReadStatus(p) \/ SubmitSecret(p)
              \/ WriteConsent(p) \/ ListConsent(p)
              \/ \E c \in Criteria : SubmitEvidence(p, c) \/ VerifyEvidence(p, c)
       PROVE  BudgetInv'
  <2>1. UNCHANGED <<room, ran, crashes, lost>> /\ ~Unaccounted(p) /\ req[p].step # "executeTurn"
    BY <1>11 DEF RefuseTurn, HaltRoom, Drive, Begin, VoidApprovals, EndTurn, Hold, CreateEvidence,
       ReadCriterion, WriteCriterion, WriteVerified, SubmitProposal, ReadStatus, SubmitSecret,
       WriteConsent, ListConsent, SubmitEvidence, VerifyEvidence, Submitting, At, Unaccounted,
       UnchangedRows
  <2>2. \/ Done(p)
        \/ \E s \in {"readToPause", "readCriterion", "writeCriterion", "readStatus", "readToPropose",
                     "readToQuarantine", "listConsent", "readToComplete", "createEvidence",
                     "writeVerified"} :
             \/ Goto(p, s) \/ Set(p, [Idle EXCEPT !.step = s])
             \/ \E c \in Criteria : Set(p, [Idle EXCEPT !.step = s, !.criterion = c])
    BY <1>11 DEF RefuseTurn, HaltRoom, Drive, Begin, VoidApprovals, EndTurn, Hold, CreateEvidence,
       ReadCriterion, WriteCriterion, WriteVerified, SubmitProposal, ReadStatus, SubmitSecret,
       WriteConsent, ListConsent, SubmitEvidence, VerifyEvidence
  <2>3. {"readToPause", "readCriterion", "writeCriterion", "readStatus", "readToPropose",
         "readToQuarantine", "listConsent", "readToComplete", "createEvidence", "writeVerified"}
          \subseteq Step \ {"executeTurn", "readUsage", "writeRoom"}
    BY DEF Step
  <2> QED
    BY <1>b, <2>1, <2>2, <2>3
<1>12. ASSUME NEW p \in Procs,
              \/ ReadToPause(p) \/ ReadToPropose(p) \/ ReadToQuarantine(p) \/ ReadToComplete(p)
       PROVE  BudgetInv'
  <2>1. UNCHANGED <<room, ran, crashes, lost>> /\ ~Unaccounted(p) /\ req[p].step # "executeTurn"
    BY <1>12 DEF ReadToPause, ReadToPropose, ReadToQuarantine, ReadToComplete, ReadAndMove, At,
       Unaccounted, UnchangedRows
  <2>2. \/ Done(p)
        \/ \E from, to \in RoomState : Set(p, Writing(from, Moved(room, to), "idle"))
    <3>1. room.state \in RoomState
      BY DEF RoomRow
    <3> QED
      BY <1>12, <3>1, StatesNamed DEF ReadToPause, ReadToPropose, ReadToQuarantine, ReadToComplete,
         ReadAndMove
  <2>3. "idle" \in Step \ {"submit"}
    BY DEF Step
  <2> QED
    BY <1>b, <2>1, <2>2, <2>3
<1>13. ASSUME NEW p \in Procs, DecideHeld(p)
       PROVE  BudgetInv'
  <2>1. UNCHANGED <<room, ran, crashes, lost>>
    BY <1>13 DEF DecideHeld
  <2>2. CASE UNCHANGED req
    BY <1>2, <2>1, <2>2 DEF BudgetInv, Accounting, Started, Unaccounted
  <2>3. CASE ~UNCHANGED req
    <3>1. /\ ~Unaccounted(p) /\ req[p].step # "executeTurn"
          /\ \/ \E c \in Criteria : Set(p, [Idle EXCEPT !.step = "createEvidence", !.criterion = c])
             \/ Set(p, [Idle EXCEPT !.step = "readStatus"])
      BY <1>13, <2>3 DEF DecideHeld, Begin, At, Unaccounted
    <3>2. {"createEvidence", "readStatus"} \subseteq Step \ {"executeTurn", "readUsage", "writeRoom"}
      BY DEF Step
    <3> QED
      BY <1>b, <2>1, <3>1, <3>2
  <2> QED
    BY <2>2, <2>3
<1>14. ASSUME NEW p \in Procs, NEW o \in Orgs, ApproveCompletion(p, o)
       PROVE  BudgetInv'
  <2>1. Slot(p, "writeConsent", "idle", Ready, room.state, Idle.criterion)
    BY <1>14, StatesNamed, Moves DEF ApproveCompletion, Begin, Step
  <2>2. UNCHANGED <<room, ran, crashes, lost>> /\ ~Unaccounted(p) /\ req[p].step # "executeTurn"
    BY <1>14 DEF ApproveCompletion, Begin, At, Unaccounted, UnchangedRows
  <2> QED
    BY <1>a, <2>1, <2>2
<1>15. CASE UNCHANGED vars
  BY <1>2, <1>15 DEF vars, BudgetInv, Accounting, Started, Unaccounted
<1> QED
  BY <1>3, <1>4, <1>5, <1>6, <1>7, <1>8, <1>9, <1>10, <1>11, <1>12, <1>13, <1>14, <1>15 DEF Next

(* orchestrator.ts, runTurn, whatever overlaps: agents run maxTurns times  *)
(* at most, and once more for every crash between an answer and its        *)
(* account, every account that a stale row writes over, and every further  *)
(* turn that can be in flight at the same time.                            *)
THEOREM BudgetKept == Spec => []TurnBudget
<1>1. Init => BudgetInv
  <2> SUFFICES ASSUME Init
               PROVE  BudgetInv
    OBVIOUS
  <2>1. Accounting = {} /\ Started = {}
    BY IdleIsRequest DEF Init, Accounting, Started, Unaccounted
  <2>2. Cardinality(Accounting) = 0 /\ Cardinality(Started) = 0
    BY <2>1, FS_EmptySet
  <2>3. Cardinality(Procs) \in Nat /\ MaxTurns \in Nat \ {0} /\ room.turns = 0
    BY FS_CardinalityType, IdleIsRequest, RoomExecutionAssumption DEF Init
  <2> QED
    BY <2>2, <2>3, InitType DEF Init, BudgetInv
<1>2. MovesInv /\ BudgetInv /\ [Next]_vars => BudgetInv'
  BY BudgetStep
<1>3. BudgetInv => TurnBudget
  <2> SUFFICES ASSUME BudgetInv
               PROVE  TurnBudget
    OBVIOUS
  <2>1. IsFiniteSet(Started)
    BY FS_Subset, RoomExecutionAssumption DEF Started
  <2>2. /\ Cardinality(Started) \in Nat /\ Cardinality(Procs) \in Nat
        /\ ran \in Nat /\ crashes \in Nat /\ lost \in Nat /\ MaxTurns \in Nat
    BY <2>1, FS_CardinalityType, RoomExecutionAssumption DEF BudgetInv, TypeOK
  <2> QED
    BY <2>2 DEF BudgetInv, TurnBudget
<1> QED
  BY <1>1, <1>2, <1>3, AlwaysFitting, PTL DEF Spec

-----------------------------------------------------------------------------
(* What a completion rests on.                                             *)

(* Whoever overlaps, the evidence for every criterion stays verified, save *)
(* where a submission was under way when it was verified.                  *)
Checked == \A c \in Criteria \ late : criteria[c] = "VERIFIED"

(* What a request has seen is still on record, however old it is; so is    *)
(* what a row that it may write, or write back, says of the room.          *)
Seen(r) ==
  /\ r.step \in {"readCriterion", "writeCriterion", "writeVerified"} => r.criterion \in evidence
  /\ r.step = "writeCriterion" /\ criteria[r.criterion] = "VERIFIED" => r.criterion \in late
  /\ r.step \in {"writeConsent", "listConsent", "readToComplete"} => Checked
  /\ r.step = "readToComplete" => consent = Orgs
  /\ r.room.state = "COMPLETED" => consent = Orgs

RecordsBack ==
  /\ \A c \in Criteria : criteria[c] # "PENDING" => c \in evidence
  /\ \A c \in late : criteria[c] # "PENDING"
  /\ consent # {} => Checked
  /\ room.state = "COMPLETED" => consent = Orgs

OverlapInv == TypeOK /\ RecordsBack /\ \A p \in Procs : Seen(req[p])

(* What is on record is never taken back, and a verification is undone     *)
(* only by a submission that was under way.                                *)
RecordsGrow ==
  /\ consent \subseteq consent' /\ evidence \subseteq evidence'
  /\ Checked => Checked'
  /\ \A p \in Procs : req[p].step = "writeCriterion" /\ criteria'[req[p].criterion] = "VERIFIED" =>
       req[p].criterion \in late'

(* Where the records grow, what the other requests have seen stays.        *)
LEMMA SeenStays ==
  ASSUME OverlapInv, TypeOK', RecordsGrow, RecordsBack', NEW p \in Procs,
         \A q \in Procs \ {p} : req'[q] = req[q], Seen(req[p])'
  PROVE  OverlapInv'
  <1>1. consent' \subseteq Orgs /\ consent \subseteq Orgs
    BY DEF OverlapInv, TypeOK
  <1>2. ASSUME NEW q \in Procs, q # p
        PROVE  Seen(req[q])'
    <2>1. Seen(req[q]) /\ req'[q] = req[q]
      BY <1>2 DEF OverlapInv
    <2> QED
      BY <1>1, <2>1 DEF Seen, RecordsGrow
  <1> QED
    BY <1>2 DEF OverlapInv

(* The step, whatever overlaps.                                            *)
LEMMA OverlapStep == MovesInv /\ OverlapInv /\ [Next]_vars => OverlapInv'
<1> SUFFICES ASSUME MovesInv, OverlapInv, [Next]_vars
             PROVE  OverlapInv'
  OBVIOUS
<1>0. TypeOK /\ TypeOK' /\ RecordsBack /\ \A p \in Procs : Seen(req[p]) /\ Fits(req[p])
  BY StepKeepsType DEF OverlapInv, MovesInv
<1>1. /\ room \in RoomRow /\ criteria \in [Criteria -> CriterionState] /\ room.state \in RoomState
      /\ \A p \in Procs : /\ req[p] \in Request /\ req[p].room \in RoomRow
                          /\ req[p].then \in Step /\ req[p].criterion \in Criteria
                          /\ req[p].from \in RoomState
      /\ \A to \in RoomState : Moved(room, to) \in RoomRow /\ Moved(room, to).state = to
      /\ Ready.state = "READY" /\ Ready \in RoomRow
  <2>1. room \in RoomRow /\ criteria \in [Criteria -> CriterionState] /\ req \in [Procs -> Request]
    BY <1>0 DEF TypeOK
  <2>2. \A p \in Procs : /\ req[p] \in Request /\ req[p].room \in RoomRow
                         /\ req[p].then \in Step /\ req[p].criterion \in Criteria
                         /\ req[p].from \in RoomState
    BY <2>1 DEF Request
  <2>3. \A to \in RoomState : Moved(room, to) \in RoomRow /\ Moved(room, to).state = to
    BY <2>1, Rows
  <2> QED
    BY <2>1, <2>2, <2>3, IdleIsRequest DEF RoomRow
<1> USE <1>0, <1>1
(* A step that writes none of the records and not the room's row.          *)
<1>a. ASSUME NEW p \in Procs, UNCHANGED <<room, consent, evidence, criteria, late>>,
             NEW step, NEW then, NEW row, NEW from, NEW c, Slot(p, step, then, row, from, c),
             row.state = "COMPLETED" => consent = Orgs,
             step \in {"readCriterion", "writeCriterion", "writeVerified"} => c \in evidence,
             step = "writeCriterion" => criteria[c] # "VERIFIED",
             step \in {"writeConsent", "listConsent", "readToComplete"} => Checked,
             step = "readToComplete" => consent = Orgs
      PROVE  OverlapInv'
  <2>1. RecordsGrow /\ RecordsBack'
    BY <1>a DEF RecordsGrow, RecordsBack, Checked, Seen
  <2>2. Seen(req[p])'
    BY <1>a DEF Slot, Seen, Checked
  <2> QED
    BY <1>a, <2>1, <2>2, SeenStays DEF Slot
(* A request that ends, and one that goes on to a step that needs nothing. *)
<1>b. ASSUME NEW p \in Procs, UNCHANGED <<room, consent, evidence, criteria, late>>, Done(p)
      PROVE  OverlapInv'
  <2>1. Slot(p, "idle", "idle", Ready, "READY", Idle.criterion)
    BY <1>b, Moves
  <2> QED
    BY <1>a, <1>b, <2>1
<1>c. ASSUME NEW p \in Procs, UNCHANGED <<room, consent, evidence, criteria, late>>,
             NEW s \in {"readUsage", "readStatus", "readToPropose", "readToQuarantine",
                        "readToPause", "executeTurn", "createEvidence"},
             \/ Goto(p, s) \/ Set(p, [Idle EXCEPT !.step = s])
             \/ \E c \in Criteria : Set(p, [Idle EXCEPT !.step = s, !.criterion = c])
      PROVE  OverlapInv'
  <2>1. \E then, row, from, c : /\ Slot(p, s, then, row, from, c)
                                /\ row.state = "COMPLETED" => consent = Orgs
    <3>1. s \in Step
      BY DEF Step
    <3>2. req[p].room.state = "COMPLETED" => consent = Orgs
      BY DEF Seen
    <3> QED
      BY <1>c, <3>1, <3>2, Moves
  <2> QED
    BY <1>a, <1>c, <2>1
<1>d. ASSUME NEW p \in Procs, NEW step, NEW states, NEW to \in RoomState,
             ReadAndMove(p, step, states, to), to # "COMPLETED"
      PROVE  OverlapInv'
  <2>1. UNCHANGED <<room, consent, evidence, criteria, late>>
    BY <1>d DEF ReadAndMove, UnchangedRows
  <2>2. CASE Done(p)
    BY <1>b, <2>1, <2>2
  <2>3. CASE Set(p, Writing(room.state, Moved(room, to), "idle"))
    <3>1. Slot(p, "writeRoom", "idle", Moved(room, to), room.state, Idle.criterion)
      BY <2>3, Moves DEF Step
    <3> QED
      BY <1>a, <1>d, <2>1, <3>1
  <2> QED
    BY <1>d, <2>2, <2>3 DEF ReadAndMove
<1>2. ASSUME NEW p \in Procs, WriteRoom(p)
      PROVE  OverlapInv'
  <2>1. \E row \in {req[p].room, Ready} : \E then, from, c :
          Slot(p, req[p].then, then, row, from, c)
    <3>1. req[p].room.state \in RoomState
      BY DEF RoomRow
    <3> QED
      BY <1>2, <3>1, Moves DEF WriteRoom
  <2>2. room' = req[p].room /\ UNCHANGED <<consent, evidence, criteria, late>>
    BY <1>2 DEF WriteRoom, SaveRoom
  <2>3. RecordsGrow /\ RecordsBack'
    BY <2>2 DEF RecordsGrow, RecordsBack, Seen, Checked
  <2>4. Seen(req[p])'
    BY <2>1, <2>2 DEF Slot, Seen, Fits
  <2> QED
    BY <2>1, <2>3, <2>4, SeenStays DEF Slot
<1>3. ASSUME NEW p \in Procs, StampStart(p) \/ WriteClosed(p)
      PROVE  OverlapInv'
  <2>1. \E s \in {"idle", "voidApprovals"} : Slot(p, s, "idle", Ready, "READY", Idle.criterion)
    BY <1>3, Moves DEF StampStart, WriteClosed, Step
  <2>2. room'.state = req[p].room.state \/ room'.state = "CLOSED"
    <3>1. CASE StampStart(p)
      BY <3>1 DEF StampStart, SaveRoom
    <3>2. CASE WriteClosed(p)
      <4>1. req[p].room \in RoomRow /\ "CLOSED" \in RoomState
        BY StatesNamed
      <4>2. Moved(req[p].room, "CLOSED").state = "CLOSED"
        BY <4>1, Rows
      <4> QED
        BY <3>2, <4>2 DEF WriteClosed, SaveRoom
    <3> QED
      BY <1>3, <3>1, <3>2
  <2>3. UNCHANGED <<consent, evidence, criteria, late>>
    BY <1>3 DEF StampStart, WriteClosed
  <2>4. RecordsGrow /\ RecordsBack'
    BY <2>2, <2>3 DEF RecordsGrow, RecordsBack, Seen, Checked
  <2>5. Seen(req[p])'
    BY <2>1, <2>3 DEF Slot, Seen
  <2> QED
    BY <2>1, <2>4, <2>5, SeenStays DEF Slot
<1>4. ASSUME NEW p \in Procs, StartRoom(p) \/ CloseRoom(p) \/ \E to \in RoomState : MoveRoom(p, to)
      PROVE  OverlapInv'
  <2>1. PICK from \in RoomState, to \in {"ACTIVE", "PAUSED", "CANCELED", "CLOSED"},
             then \in {"idle", "stampStart", "writeClosed", "voidApprovals"} :
          Set(p, Writing(from, Moved(room, to), then))
    BY <1>4, StatesNamed DEF StartRoom, CloseRoom, MoveRoom, Begin
  <2>2. Slot(p, "writeRoom", then, Moved(room, to), from, Idle.criterion)
    <3>1. then \in Step /\ Moved(room, to) \in RoomRow
      BY StatesNamed DEF Step
    <3> HIDE <1>0, <1>1
    <3> QED
      BY <1>0, <2>1, <3>1, Moves
  <2>3. Moved(room, to).state # "COMPLETED"
    BY StatesNamed
  <2>4. UnchangedRows
    BY <1>4 DEF StartRoom, CloseRoom, MoveRoom
  <2> QED
    BY <1>a, <2>2, <2>3, <2>4 DEF UnchangedRows
<1>5. ASSUME NEW p \in Procs,
             \/ RunTurn(p) \/ RefuseTurn(p) \/ HaltRoom(p) \/ SubmitProposal(p) \/ SubmitSecret(p)
             \/ ExecuteTurn(p) \/ \E c \in Criteria : SubmitEvidence(p, c)
      PROVE  OverlapInv'
  BY <1>5, <1>c DEF RunTurn, RefuseTurn, HaltRoom, Drive, Begin, SubmitProposal, SubmitSecret,
                    ExecuteTurn, SubmitEvidence, UnchangedRows
<1>6. ASSUME NEW p \in Procs,
             \/ FailTurn(p) \/ EndTurn(p) \/ Hold(p) \/ VoidApprovals(p) \/ Crash(p)
      PROVE  OverlapInv'
  BY <1>6, <1>b DEF FailTurn, EndTurn, Hold, VoidApprovals, Crash, UnchangedRows
<1>7. ASSUME NEW p \in Procs, ReadToPause(p) \/ ReadToPropose(p) \/ ReadToQuarantine(p)
      PROVE  OverlapInv'
  BY <1>7, <1>d, StatesNamed DEF ReadToPause, ReadToPropose, ReadToQuarantine
<1>8. ASSUME NEW p \in Procs, ReadToComplete(p)
      PROVE  OverlapInv'
  <2>1. consent = Orgs
    BY <1>8 DEF ReadToComplete, At, Seen
  <2>2. Slot(p, "writeRoom", "idle", Moved(room, "COMPLETED"), req[p].from, Idle.criterion)
    BY <1>8, Moves, StatesNamed DEF ReadToComplete, Step
  <2> QED
    BY <1>8, <1>a, <2>1, <2>2 DEF ReadToComplete, UnchangedRows
<1>9. ASSUME NEW p \in Procs, ReadUsage(p)
      PROVE  OverlapInv'
  <2> DEFINE row == [room EXCEPT !.turns = room.turns + 1]
  <2>1. row \in RoomRow /\ row.state = room.state
    BY Rows
  <2>2. Set(p, Writing(room.state, row, "submit")) /\ UnchangedRows
    BY <1>9 DEF ReadUsage
  <2> HIDE DEF row
  <2>3. Slot(p, "writeRoom", "submit", row, room.state, Idle.criterion)
    BY <2>1, <2>2, Moves DEF Step
  <2> QED
    BY <1>a, <2>1, <2>2, <2>3 DEF UnchangedRows, RecordsBack
<1>10. ASSUME NEW p \in Procs, NEW c \in Criteria, VerifyEvidence(p, c)
       PROVE  OverlapInv'
  <2>1. Slot(p, "writeVerified", "idle", Ready, "READY", c)
    BY <1>10, Moves DEF VerifyEvidence, Begin, Step
  <2> QED
    BY <1>10, <1>a, <2>1 DEF VerifyEvidence, UnchangedRows
<1>11. ASSUME NEW p \in Procs, CreateEvidence(p)
       PROVE  OverlapInv'
  <2>1. Slot(p, "readCriterion", req[p].then, req[p].room, req[p].from, req[p].criterion)
    BY <1>11, Moves DEF CreateEvidence, Step
  <2>2. RecordsGrow /\ RecordsBack'
    BY <1>11 DEF CreateEvidence, RecordsGrow, RecordsBack, Checked, Seen
  <2>3. Seen(req[p])'
    BY <1>11, <2>1 DEF CreateEvidence, Slot, Seen
  <2> QED
    BY <2>1, <2>2, <2>3, SeenStays DEF Slot
<1>12. ASSUME NEW p \in Procs, ReadCriterion(p)
       PROVE  OverlapInv'
  <2>1. req[p].criterion \in evidence
    BY <1>12 DEF ReadCriterion, At, Seen
  <2>2. \/ Slot(p, "idle", "idle", Ready, "READY", Idle.criterion)
        \/ /\ criteria[req[p].criterion] # "VERIFIED"
           /\ Slot(p, "writeCriterion", req[p].then, req[p].room, req[p].from, req[p].criterion)
    BY <1>12, Moves DEF ReadCriterion, Step
  <2>3. req[p].room.state = "COMPLETED" => consent = Orgs
    BY DEF Seen
  <2>4. UNCHANGED <<room, consent, evidence, criteria, late>>
    BY <1>12 DEF ReadCriterion, UnchangedRows
  <2> QED
    BY <1>a, <2>1, <2>2, <2>3, <2>4
<1>13. ASSUME NEW p \in Procs, WriteCriterion(p)
       PROVE  OverlapInv'
  <2> DEFINE c == req[p].criterion
  <2>1. /\ Slot(p, "idle", "idle", Ready, "READY", Idle.criterion)
        /\ criteria' = [criteria EXCEPT ![c] = "EVIDENCE_SUBMITTED"]
        /\ UNCHANGED <<room, consent, evidence, late>>
    BY <1>13, Moves DEF WriteCriterion
  <2>2. c \in evidence /\ (criteria[c] = "VERIFIED" => c \in late)
    BY <1>13 DEF WriteCriterion, At, Seen
  <2>3. Checked => Checked'
    BY <2>1, <2>2 DEF Checked
  <2>4. RecordsGrow /\ RecordsBack'
    BY <2>1, <2>2, <2>3 DEF RecordsGrow, RecordsBack, Seen
  <2>5. Seen(req[p])'
    BY <2>1 DEF Slot, Seen
  <2> QED
    BY <2>1, <2>4, <2>5, SeenStays DEF Slot
<1>14. ASSUME NEW p \in Procs, WriteVerified(p)
       PROVE  OverlapInv'
  <2> DEFINE c == req[p].criterion
  <2>1. /\ Slot(p, "idle", "idle", Ready, "READY", Idle.criterion)
        /\ criteria' = [criteria EXCEPT ![c] = "VERIFIED"]
        /\ late' = IF \E q \in Procs : req[q].step = "writeCriterion" /\ req[q].criterion = c
                   THEN late \cup {c} ELSE late \ {c}
        /\ UNCHANGED <<room, consent, evidence>>
    BY <1>14, Moves DEF WriteVerified, At
  <2>2. c \in evidence
    BY <1>14 DEF WriteVerified, At, Seen
  <2>3. Checked => Checked'
    BY <2>1 DEF Checked
  <2>4. \A q \in Procs : req[q].step = "writeCriterion" /\ criteria'[req[q].criterion] = "VERIFIED" =>
          req[q].criterion \in late'
    <3> SUFFICES ASSUME NEW q \in Procs, req[q].step = "writeCriterion",
                        criteria'[req[q].criterion] = "VERIFIED"
                 PROVE  req[q].criterion \in late'
      OBVIOUS
    <3>1. CASE req[q].criterion = c
      BY <2>1, <3>1
    <3>2. CASE req[q].criterion # c
      BY <2>1, <3>2 DEF Seen
    <3> QED
      BY <3>1, <3>2
  <2>5. RecordsGrow
    BY <2>1, <2>3, <2>4 DEF RecordsGrow
  <2>6. RecordsBack'
    BY <2>1, <2>2, <2>3 DEF RecordsBack
  <2>7. Seen(req[p])'
    BY <2>1 DEF Slot, Seen
  <2> QED
    BY <2>1, <2>5, <2>6, <2>7, SeenStays DEF Slot
<1>15. ASSUME NEW p \in Procs, ReadStatus(p)
       PROVE  OverlapInv'
  BY <1>15, <1>b, <1>c DEF ReadStatus, UnchangedRows
<1>16. ASSUME NEW p \in Procs, DecideHeld(p)
       PROVE  OverlapInv'
  <2>1. UNCHANGED <<room, consent, evidence, criteria, late>>
    BY <1>16 DEF DecideHeld
  <2>2. CASE UNCHANGED req
    BY <2>1, <2>2 DEF OverlapInv, RecordsBack, Seen, Checked
  <2>3. CASE ~UNCHANGED req
    BY <1>16, <1>c, <2>1, <2>3 DEF DecideHeld, Begin
  <2> QED
    BY <2>2, <2>3
<1>17. ASSUME NEW p \in Procs, NEW o \in Orgs, ApproveCompletion(p, o)
       PROVE  OverlapInv'
  <2>1. Slot(p, "writeConsent", "idle", Ready, room.state, Idle.criterion)
    BY <1>17, Moves DEF ApproveCompletion, Begin, Step
  <2>2. Checked
    BY <1>17 DEF ApproveCompletion, Verified, Checked
  <2> QED
    BY <1>17, <1>a, <2>1, <2>2 DEF ApproveCompletion, UnchangedRows
<1>18. ASSUME NEW p \in Procs, WriteConsent(p)
       PROVE  OverlapInv'
  <2>1. Slot(p, "listConsent", req[p].then, req[p].room, req[p].from, req[p].criterion)
    BY <1>18, Moves DEF WriteConsent, Step
  <2>2. Checked /\ req[p].org \in Orgs /\ consent \subseteq Orgs
    BY <1>18 DEF WriteConsent, At, Seen, Request, TypeOK
  <2>3. RecordsGrow /\ RecordsBack'
    BY <1>18, <2>2 DEF WriteConsent, RecordsGrow, RecordsBack, Checked, Seen
  <2>4. Seen(req[p])'
    BY <1>18, <2>1, <2>2 DEF WriteConsent, Slot, Seen, Checked
  <2> QED
    BY <2>1, <2>3, <2>4, SeenStays DEF Slot
<1>19. ASSUME NEW p \in Procs, ListConsent(p)
       PROVE  OverlapInv'
  <2>1. \/ Slot(p, "idle", "idle", Ready, "READY", Idle.criterion)
        \/ /\ consent = Orgs
           /\ Slot(p, "readToComplete", req[p].then, req[p].room, req[p].from, req[p].criterion)
    BY <1>19, Moves DEF ListConsent, Step
  <2>2. Checked /\ (req[p].room.state = "COMPLETED" => consent = Orgs)
    BY <1>19 DEF ListConsent, At, Seen
  <2>3. UNCHANGED <<room, consent, evidence, criteria, late>>
    BY <1>19 DEF ListConsent, UnchangedRows
  <2> QED
    BY <1>a, <2>1, <2>2, <2>3
<1>20. CASE UNCHANGED vars
  BY <1>20 DEF vars, OverlapInv, RecordsBack, Seen, Checked
<1> QED
  BY <1>2, <1>3, <1>4, <1>5, <1>6, <1>7, <1>8, <1>9, <1>10, <1>11, <1>12, <1>13, <1>14, <1>15,
     <1>16, <1>17, <1>18, <1>19, <1>20 DEF Next

(* What a completion rests on is on record at all times.                   *)
LEMMA AlwaysOnRecord == Spec => []OverlapInv
<1>1. Init => OverlapInv
  <2> SUFFICES ASSUME Init
               PROVE  OverlapInv
    OBVIOUS
  <2>1. \A p \in Procs : Seen(req[p])
    BY IdleIsRequest DEF Init, Seen
  <2>2. RecordsBack
    BY IdleIsRequest DEF Init, RecordsBack
  <2> QED
    BY <2>1, <2>2, InitType DEF OverlapInv
<1> QED
  BY <1>1, OverlapStep, AlwaysFitting, PTL DEF Spec

(* rooms.ts, approveCompletion, whatever overlaps: a room that is          *)
(* COMPLETED has the consent of every organisation, and its evidence is    *)
(* verified, save for a criterion that was verified over a submission      *)
(* under way.                                                              *)
THEOREM CompletionBacked == Spec => []CompletedIsBacked
<1>1. OverlapInv => CompletedIsBacked
  BY RoomExecutionAssumption DEF OverlapInv, RecordsBack, CompletedIsBacked, Checked
<1> QED
  BY <1>1, AlwaysOnRecord, PTL

(* Whatever overlaps, of a completed room evidence was handed in for every *)
(* criterion, and every criterion has moved on.                            *)
CompletedIsWitnessed ==
  room.state = "COMPLETED" => consent = Orgs /\ evidence = Criteria /\ Satisfied

(* rooms.ts, completionStatus: also the late write of a submission leaves  *)
(* the evidence of a completed room on record.                             *)
THEOREM CompletionWitnessed == Spec => []CompletedIsWitnessed
<1>1. OverlapInv => CompletedIsWitnessed
  <2> SUFFICES ASSUME OverlapInv, room.state = "COMPLETED"
               PROVE  consent = Orgs /\ evidence = Criteria /\ Satisfied
    BY DEF CompletedIsWitnessed
  <2>1. consent = Orgs /\ Checked
    BY RoomExecutionAssumption DEF OverlapInv, RecordsBack
  <2>2. Satisfied
    BY <2>1 DEF OverlapInv, RecordsBack, Checked, Satisfied
  <2> QED
    BY <2>1, <2>2 DEF OverlapInv, RecordsBack, TypeOK, Satisfied
<1> QED
  BY <1>1, AlwaysOnRecord, PTL
=============================================================================
