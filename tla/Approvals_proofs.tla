-------------------------- MODULE Approvals_proofs --------------------------
(***************************************************************************)
(* Proofs about the approval service, for every set of approvals, bodies   *)
(* and concurrent requests and every number of crashes.                    *)
(***************************************************************************)
EXTENDS Approvals, SequenceTheorems, TLAPS

(* The value an idle slot carries is a request.                            *)
LEMMA IdleIsRequest == Idle \in Request /\ NoApproval \in Approval
  BY ApprovalsAssumption DEF Idle, Request, Step, AnyId, NoApproval, HeldRow, Approval, ApprovalStatus

(* Moving a request on, or ending it, leaves a request.                    *)
LEMMA GotoType ==
  ASSUME req \in [Procs -> Request], NEW p \in Procs, NEW next \in Step,
         Done(p) \/ Goto(p, next)
  PROVE  req' \in [Procs -> Request]
  <1>1. CASE Done(p)
    BY <1>1, IdleIsRequest DEF Done
  <1>2. CASE Goto(p, next)
    BY <1>2 DEF Goto, Request
  <1> QED
    BY <1>1, <1>2

(* A claim changes the status and the consumption mark, nothing else.      *)
LEMMA ClaimedIsApproval ==
  ASSUME NEW row \in Approval, NEW status \in ApprovalStatus
  PROVE  /\ Claimed(row, status) \in Approval
         /\ Claimed(row, status).status = status
         /\ Claimed(row, status).body = row.body
         /\ Claimed(row, status).hash = row.hash
  BY DEF Claimed, Approval

-----------------------------------------------------------------------------
(* The event stream grows by one event at a time: what that does to the    *)
(* events of one approval.                                                 *)
LEMMA EventsGrow ==
  ASSUME NEW stream \in Seq(Event), NEW e \in Event, NEW types, NEW a
  PROVE  EventsOf(Append(stream, e), types, a) =
           IF e.type \in types /\ e.approval = a
           THEN EventsOf(stream, types, a) \cup {Len(stream) + 1}
           ELSE EventsOf(stream, types, a)
  BY DEF EventsOf

-----------------------------------------------------------------------------
(* Every variable keeps its type.                                          *)
THEOREM TypeCorrect == Spec => []TypeOK
<1>1. Init => TypeOK
  BY IdleIsRequest, ApprovalsAssumption DEF Init, TypeOK, RoomState
<1>2. TypeOK /\ [Next]_vars => TypeOK'
  <2> SUFFICES ASSUME TypeOK, [Next]_vars
               PROVE  TypeOK'
    OBVIOUS
  <2>0. Idle \in Request /\ NoApproval \in Approval
    BY IdleIsRequest
  <2> USE <2>0 DEF TypeOK
  <2>1. ASSUME NEW p \in Procs, NEW body \in Bodies, HoldBegin(p, body)
        PROVE  TypeOK'
    <3>1. HeldRow("PENDING", body) \in Approval
      BY DEF HeldRow, Approval, ApprovalStatus
    <3>2. [Idle EXCEPT !.step = "createApproval", !.row = HeldRow("PENDING", body)] \in Request
      BY <3>1 DEF Request, Step
    <3>3. req' = [req EXCEPT ![p] = [Idle EXCEPT !.step = "createApproval",
                                                 !.row = HeldRow("PENDING", body)]]
      BY <2>1 DEF HoldBegin
    <3>4. req' \in [Procs -> Request]
      BY <3>2, <3>3
    <3> QED
      BY <2>1, <3>4 DEF HoldBegin
  <2>2. ASSUME NEW p \in Procs, NEW a \in ApprovalIds, CreateApproval(p, a)
        PROVE  TypeOK'
    <3>1. req[p] \in Request /\ req[p].row \in Approval
      BY DEF Request
    <3>2. [req[p] EXCEPT !.step = "appendRequest", !.id = a] \in Request
      BY <3>1 DEF Request, Step
    <3>3. req' = [req EXCEPT ![p] = [req[p] EXCEPT !.step = "appendRequest", !.id = a]]
      BY <2>2 DEF CreateApproval
    <3>4. req' \in [Procs -> Request]
      BY <3>2, <3>3
    <3> QED
      BY <2>2, <3>1, <3>4 DEF CreateApproval
  <2>3. ASSUME NEW p \in Procs, NEW a \in ApprovalIds, DecideBegin(p, a)
        PROVE  TypeOK'
    BY <2>3 DEF DecideBegin, FirstWrites, Request, Step
  <2>4. ASSUME NEW p \in Procs, MarkExpired(p)
        PROVE  TypeOK'
    BY <2>4 DEF MarkExpired, Done, Request, Approval, ApprovalStatus
  <2>5. ASSUME NEW p \in Procs, NEW step \in Step, NEW status \in ApprovalStatus,
               NEW next \in Step, Claim(p, step, status, next)
        PROVE  TypeOK'
    <3>1. Done(p) \/ Goto(p, next)
      BY <2>5 DEF Claim
    <3>2. req[p].id \in ApprovalIds /\ approvals[req[p].id] \in Approval
      BY DEF Request
    <3>3. \/ approvals' = approvals
          \/ approvals' = [approvals EXCEPT ![req[p].id] = Claimed(approvals[req[p].id], status)]
      BY <2>5 DEF Claim
    <3>4. approvals' \in [ApprovalIds -> Approval]
      BY <3>2, <3>3, ClaimedIsApproval
    <3>5. UNCHANGED <<room, due, flagged, events, crashes, late>>
      BY <2>5 DEF Claim
    <3> QED
      BY <3>1, <3>4, <3>5, GotoType
  <2>6. ASSUME NEW p \in Procs, NEW step \in Step, NEW e \in Event, NEW next \in Step,
               Emit(p, step, e, next)
        PROVE  TypeOK'
    <3>1. Done(p) \/ Goto(p, next)
      BY <2>6 DEF Emit
    <3> QED
      BY <2>6, <3>1, GotoType DEF Emit, Append1
  <2>7. ASSUME NEW p \in Procs, CloseBegin(p) \/ ListApprovals(p) \/ CloseDone(p)
        PROVE  TypeOK'
    BY <2>7 DEF CloseBegin, ListApprovals, CloseDone, Done, Request, Step, RoomState, Idle
  <2>8. ASSUME NEW p \in Procs, VoidOne(p)
        PROVE  TypeOK'
    <3> PICK item \in req[p].todo :
          /\ approvals' = [approvals EXCEPT ![item[1]] = [item[2] EXCEPT !.status = "INVALIDATED"]]
          /\ req' = [req EXCEPT ![p].todo = @ \ {item}]
      BY <2>8 DEF VoidOne
    <3>1. item[1] \in ApprovalIds /\ item[2] \in Approval
      BY DEF Request
    <3>2. [item[2] EXCEPT !.status = "INVALIDATED"] \in Approval
      BY <3>1 DEF Approval, ApprovalStatus
    <3>3. approvals' \in [ApprovalIds -> Approval]
      BY <3>1, <3>2
    <3>4. [req[p] EXCEPT !.todo = @ \ {item}] \in Request
      BY DEF Request
    <3>5. req' = [req EXCEPT ![p] = [req[p] EXCEPT !.todo = @ \ {item}]]
      OBVIOUS
    <3>6. req' \in [Procs -> Request]
      BY <3>4, <3>5
    <3> QED
      BY <2>8, <3>3, <3>6 DEF VoidOne
  <2>9. ASSUME NEW p \in Procs, Crash(p)
        PROVE  TypeOK'
    BY <2>9 DEF Crash, Done
  <2>10. CASE \/ \E to \in RoomState : MoveRoom(to)
              \/ \E a \in ApprovalIds : PassDeadline(a)
              \/ \E body \in Bodies : ExtendDetectors(body)
    BY <2>10 DEF MoveRoom, PassDeadline, ExtendDetectors
  <2>11. CASE UNCHANGED vars
    BY <2>11 DEF vars
  <2>15. ASSUME NEW a \in ApprovalIds, NEW body \in Bodies, EditHeldBody(a, body)
         PROVE  TypeOK'
    <3>1. [approvals[a] EXCEPT !.body = body] \in Approval
      BY DEF Approval
    <3>2. approvals' = [approvals EXCEPT ![a] = [approvals[a] EXCEPT !.body = body]]
      BY <2>15 DEF EditHeldBody
    <3>3. approvals' \in [ApprovalIds -> Approval]
      BY <3>1, <3>2
    <3> QED
      BY <2>15, <3>3 DEF EditHeldBody
  <2>12. \A p \in Procs : req[p].id \in ApprovalIds /\ req[p].row.body \in Bodies \cup {NoBody}
    BY DEF Request, Approval
  <2>13. ASSUME NEW p \in Procs,
                AppendRequest(p) \/ AppendRejected(p) \/ AppendReleased(p) \/ AppendAuthorized(p)
         PROVE  TypeOK'
    BY <2>6, <2>12, <2>13 DEF AppendRequest, AppendRejected, AppendReleased, AppendAuthorized,
       Step, Event, EventType, SystemEvent, Content
  <2>14. ASSUME NEW p \in Procs, ClaimRejected(p) \/ ClaimInvalidated(p) \/ ClaimApproved(p)
         PROVE  TypeOK'
    BY <2>5, <2>14 DEF ClaimRejected, ClaimInvalidated, ClaimApproved, Step, ApprovalStatus
  <2> QED
    BY <2>1, <2>2, <2>3, <2>4, <2>7, <2>8, <2>9, <2>10, <2>11, <2>13, <2>14, <2>15 DEF Next
<1> QED
  BY <1>1, <1>2, PTL DEF Spec

-----------------------------------------------------------------------------
(* A step that leaves the stream alone, gives no request a claim, changes  *)
(* no row's hash and reopens no row keeps the parts of the invariant that  *)
(* speak of the stream.                                                    *)
LEMMA QuietStep ==
  ASSUME IInv, TypeOK', UNCHANGED events,
         \A q \in Procs : \/ req'[q] = req[q]
                          \/ req'[q].step \notin Deciding \cup {"appendAuthorized"},
         \A a \in ApprovalIds :
           /\ approvals'[a].hash = approvals[a].hash \/ approvals[a].status = "ABSENT"
           /\ approvals'[a].status \in {"ABSENT", "PENDING"} =>
                approvals[a].status \in {"ABSENT", "PENDING"}
  PROVE  /\ UndecidedIsUntouched'
         /\ ClaimIsExclusive'
         /\ AuthorizeAfterRelease'
         /\ DecidedOnce'
         /\ ReleasedAsProposed'
         /\ AuthorizedAfterRelease'
  <1> USE DEF IInv
  <1>1. UndecidedIsUntouched'
    BY DEF UndecidedIsUntouched
  <1>2. ClaimIsExclusive'
    BY DEF ClaimIsExclusive
  <1>3. AuthorizeAfterRelease'
    BY DEF AuthorizeAfterRelease, At
  <1>4. DecidedOnce'
    BY DEF DecidedOnce
  <1>5. ReleasedAsProposed'
    <2> SUFFICES ASSUME NEW i \in 1..Len(events), events[i].type = "released"
                 PROVE  approvals'[events[i].approval].hash = ParametersHash(events[i].body)
      BY DEF ReleasedAsProposed
    <2>0. events[i] \in Event
      BY DEF TypeOK
    <2>1. events[i].approval \in ApprovalIds
      BY <2>0 DEF Event
    <2>2. i \in EventsOf(events, Decisions \cup {"action_authorized"}, events[i].approval)
      BY DEF EventsOf, Decisions
    <2>3. approvals[events[i].approval].status # "ABSENT"
      BY <2>1, <2>2 DEF UndecidedIsUntouched
    <2> QED
      BY <2>1, <2>3 DEF ReleasedAsProposed
  <1>6. AuthorizedAfterRelease'
    BY DEF AuthorizedAfterRelease
  <1> QED
    BY <1>1, <1>2, <1>3, <1>4, <1>5, <1>6

(* The request that wins a claim holds it alone, and nothing of the row is *)
(* in the stream yet.                                                      *)
LEMMA WonClaim ==
  ASSUME IInv, TypeOK', UNCHANGED events, NEW p \in Procs,
         approvals[req[p].id].status = "PENDING",
         NEW status \in {"APPROVED", "REJECTED"}, NEW next \in Deciding,
         approvals' = [approvals EXCEPT ![req[p].id] = Claimed(@, status)],
         Goto(p, next)
  PROVE  /\ UndecidedIsUntouched'
         /\ ClaimIsExclusive'
         /\ AuthorizeAfterRelease'
         /\ DecidedOnce'
         /\ ReleasedAsProposed'
         /\ AuthorizedAfterRelease'
  <1> DEFINE a == req[p].id
  <1>0. /\ TypeOK /\ UndecidedIsUntouched /\ ClaimIsExclusive /\ AuthorizeAfterRelease
        /\ SnapshotHash /\ DecidedOnce /\ ReleasedAsProposed /\ AuthorizedAfterRelease
    BY DEF IInv
  <1>1. /\ a \in ApprovalIds /\ approvals[a] \in Approval
        /\ status \in ApprovalStatus
    BY <1>0 DEF TypeOK, Request, ApprovalStatus
  <1>2. /\ approvals'[a].status = status
        /\ approvals'[a].hash = approvals[a].hash
        /\ \A b \in ApprovalIds \ {a} : approvals'[b] = approvals[b]
    BY <1>0, <1>1, ClaimedIsApproval DEF TypeOK
  <1>3. /\ req'[p].step = next /\ req'[p].id = a
        /\ \A q \in Procs \ {p} : req'[q] = req[q]
    BY <1>0 DEF Goto, TypeOK, Request
  <1>4. /\ EventsOf(events, Decisions \cup {"action_authorized"}, a) = {}
        /\ \A q \in Procs : req[q].id = a => req[q].step \notin Deciding \cup {"appendAuthorized"}
    BY <1>0, <1>1 DEF UndecidedIsUntouched
  <1>5. EventsOf(events, Decisions, a) = {}
    BY <1>4 DEF EventsOf
  <1>6. UndecidedIsUntouched'
    <2> SUFFICES ASSUME NEW b \in ApprovalIds, approvals'[b].status \in {"ABSENT", "PENDING"}
                 PROVE  /\ EventsOf(events, Decisions \cup {"action_authorized"}, b) = {}
                        /\ \A q \in Procs : req'[q].id = b =>
                             req'[q].step \notin Deciding \cup {"appendAuthorized"}
      BY DEF UndecidedIsUntouched
    <2>1. b # a
      BY <1>2
    <2> QED
      <3>1. approvals[b].status \in {"ABSENT", "PENDING"}
        BY <1>2, <2>1
      <3>2. /\ EventsOf(events, Decisions \cup {"action_authorized"}, b) = {}
            /\ \A q \in Procs : req[q].id = b =>
                 req[q].step \notin Deciding \cup {"appendAuthorized"}
        BY <1>0, <3>1 DEF UndecidedIsUntouched
      <3> QED
        BY <1>3, <2>1, <3>2
  <1>7. ClaimIsExclusive'
    BY <1>0, <1>3, <1>4, <1>5 DEF ClaimIsExclusive
  <1>8. AuthorizeAfterRelease'
    BY <1>0, <1>3 DEF AuthorizeAfterRelease, At, Deciding
  <1>9. ReleasedAsProposed'
    <2> SUFFICES ASSUME NEW i \in 1..Len(events), events[i].type = "released"
                 PROVE  approvals'[events[i].approval].hash = ParametersHash(events[i].body)
      BY DEF ReleasedAsProposed
    <2>1. events[i] \in Event
      BY <1>0 DEF TypeOK
    <2>2. events[i].approval \in ApprovalIds
      BY <2>1 DEF Event
    <2> QED
      BY <1>0, <1>2, <2>2 DEF ReleasedAsProposed
  <1>10. DecidedOnce' /\ AuthorizedAfterRelease'
    BY <1>0 DEF DecidedOnce, AuthorizedAfterRelease
  <1> QED
    BY <1>6, <1>7, <1>8, <1>9, <1>10

(* One event more: the parts of the invariant about the stream alone.      *)
LEMMA EventTypes ==
  ASSUME TypeOK, NEW e \in Event, events' = Append(events, e)
  PROVE  /\ Len(events') = Len(events) + 1
         /\ events'[Len(events) + 1] = e
         /\ \A i \in 1..Len(events) : events'[i] = events[i] /\ events[i] \in Event
         /\ \A types, a : EventsOf(events', types, a) =
              IF e.type \in types /\ e.approval = a
              THEN EventsOf(events, types, a) \cup {Len(events) + 1}
              ELSE EventsOf(events, types, a)
         /\ Len(events) \in Nat
         /\ e.approval \in ApprovalIds
  <1>1. /\ events \in Seq(Event)
        /\ e.approval \in ApprovalIds
    BY DEF TypeOK, Event
  <1>2. \A types, a : EventsOf(events', types, a) =
              IF e.type \in types /\ e.approval = a
              THEN EventsOf(events, types, a) \cup {Len(events) + 1}
              ELSE EventsOf(events, types, a)
    BY <1>1, EventsGrow
  <1> QED
    BY <1>1, <1>2

(* The owner of a claim writes the release or the rejection.               *)
LEMMA DecisionEvent ==
  ASSUME IInv, TypeOK', NEW p \in Procs, req[p].step \in Deciding,
         NEW e \in Event, events' = Append(events, e),
         e.approval = req[p].id, UNCHANGED approvals,
         \/ e.type = "action_rejected" /\ Done(p)
         \/ /\ e.type = "released" /\ Goto(p, "appendAuthorized")
            /\ ParametersHash(e.body) = req[p].row.hash
  PROVE  /\ UndecidedIsUntouched'
         /\ ClaimIsExclusive'
         /\ AuthorizeAfterRelease'
         /\ DecidedOnce'
         /\ ReleasedAsProposed'
         /\ AuthorizedAfterRelease'
  <1> DEFINE a == req[p].id
  <1>0. /\ TypeOK /\ UndecidedIsUntouched /\ ClaimIsExclusive /\ AuthorizeAfterRelease
        /\ SnapshotHash /\ DecidedOnce /\ ReleasedAsProposed /\ AuthorizedAfterRelease
    BY DEF IInv
  <1>1. /\ a \in ApprovalIds
        /\ approvals[a].status \notin {"ABSENT", "PENDING"}
        /\ req[p].row.hash = approvals[a].hash
        /\ e.approval = a
    BY <1>0 DEF UndecidedIsUntouched, SnapshotHash, SnapshotIsRows, Deciding, TypeOK, Request
  <1>2. /\ EventsOf(events, Decisions, a) = {}
        /\ \A q \in Procs \ {p} : req[q].step \in Deciding => req[q].id # a
    BY <1>0 DEF ClaimIsExclusive
  <1>3. /\ req'[p].step \notin Deciding
        /\ req'[p].step = "appendAuthorized" => e.type = "released" /\ req'[p].id = a
        /\ \A q \in Procs \ {p} : req'[q] = req[q]
    BY <1>0 DEF Done, Goto, Idle, Deciding, TypeOK, Request
  <1>4. /\ Len(events') = Len(events) + 1
        /\ events'[Len(events) + 1] = e
        /\ \A i \in 1..Len(events) : events'[i] = events[i] /\ events[i] \in Event
        /\ \A types, b : EventsOf(events', types, b) =
             IF e.type \in types /\ e.approval = b
             THEN EventsOf(events, types, b) \cup {Len(events) + 1}
             ELSE EventsOf(events, types, b)
        /\ Len(events) \in Nat
    BY <1>0, EventTypes
  <1>5. UndecidedIsUntouched'
    <2> SUFFICES ASSUME NEW b \in ApprovalIds, approvals[b].status \in {"ABSENT", "PENDING"}
                 PROVE  /\ EventsOf(events', Decisions \cup {"action_authorized"}, b) = {}
                        /\ \A q \in Procs : req'[q].id = b =>
                             req'[q].step \notin Deciding \cup {"appendAuthorized"}
      BY DEF UndecidedIsUntouched
    <2>1. b # a
      BY <1>1
    <2>2. /\ EventsOf(events, Decisions \cup {"action_authorized"}, b) = {}
          /\ \A q \in Procs : req[q].id = b =>
               req[q].step \notin Deciding \cup {"appendAuthorized"}
      BY <1>0 DEF UndecidedIsUntouched
    <2>3. EventsOf(events', Decisions \cup {"action_authorized"}, b) =
            EventsOf(events, Decisions \cup {"action_authorized"}, b)
      <3>1. e.approval # b
        BY <1>1, <2>1
      <3> QED
        BY <1>4, <3>1
    <2> QED
      BY <1>3, <2>1, <2>2, <2>3
  <1>6. ClaimIsExclusive'
    <2> SUFFICES ASSUME NEW q \in Procs, req'[q].step \in Deciding
                 PROVE  /\ EventsOf(events', Decisions, req'[q].id) = {}
                        /\ \A r \in Procs : r # q /\ req'[r].step \in Deciding =>
                             req'[r].id # req'[q].id
      BY DEF ClaimIsExclusive
    <2>1. q # p /\ req'[q] = req[q]
      BY <1>3
    <2>2. /\ EventsOf(events, Decisions, req[q].id) = {}
          /\ \A r \in Procs : r # q /\ req[r].step \in Deciding => req[r].id # req[q].id
          /\ req[q].id # a
      BY <1>0, <1>2, <2>1 DEF ClaimIsExclusive
    <2> QED
      BY <1>3, <1>4, <2>1, <2>2
  <1>7. AuthorizeAfterRelease'
    <2> SUFFICES ASSUME NEW q \in Procs, req'[q].step = "appendAuthorized"
                 PROVE  EventsOf(events', {"released"}, req'[q].id) # {}
      BY DEF AuthorizeAfterRelease, At
    <2>1. CASE q = p
      <3>1. Len(events) + 1 \in EventsOf(events', {"released"}, a)
        BY <1>3, <1>4, <2>1
      <3> QED
        BY <1>3, <2>1, <3>1
    <2>2. CASE q # p
      <3>1. EventsOf(events, {"released"}, req[q].id) # {} /\ req'[q] = req[q]
        BY <1>0, <1>3, <2>2 DEF AuthorizeAfterRelease, At
      <3> QED
        BY <1>4, <3>1
    <2> QED
      BY <2>1, <2>2
  <1>8. DecidedOnce'
    BY <1>0, <1>2, <1>4 DEF DecidedOnce, Decisions
  <1>9. ReleasedAsProposed'
    BY <1>0, <1>1, <1>4 DEF ReleasedAsProposed
  <1>10. AuthorizedAfterRelease'
    BY <1>0, <1>4 DEF AuthorizedAfterRelease
  <1> QED
    BY <1>5, <1>6, <1>7, <1>8, <1>9, <1>10

(* The two events that decide nothing: the request, and the authorisation  *)
(* that follows its release.                                               *)
LEMMA OtherEvent ==
  ASSUME IInv, TypeOK', NEW p \in Procs, Done(p), UNCHANGED approvals,
         NEW e \in Event, events' = Append(events, e), e.approval = req[p].id,
         \/ e.type = "approval_request"
         \/ e.type = "action_authorized" /\ EventsOf(events, {"released"}, req[p].id) # {}
  PROVE  /\ UndecidedIsUntouched'
         /\ ClaimIsExclusive'
         /\ AuthorizeAfterRelease'
         /\ DecidedOnce'
         /\ ReleasedAsProposed'
         /\ AuthorizedAfterRelease'
  <1> DEFINE a == req[p].id
  <1>0. /\ TypeOK /\ UndecidedIsUntouched /\ ClaimIsExclusive /\ AuthorizeAfterRelease
        /\ SnapshotHash /\ DecidedOnce /\ ReleasedAsProposed /\ AuthorizedAfterRelease
    BY DEF IInv
  <1>1. /\ a \in ApprovalIds
        /\ e.approval = a
        /\ e.type \notin Decisions
    BY <1>0 DEF TypeOK, Request, Decisions
  <1>2. /\ req'[p].step = "idle"
        /\ \A q \in Procs \ {p} : req'[q] = req[q]
    BY <1>0 DEF Done, Idle, TypeOK, Request
  <1>3. /\ Len(events') = Len(events) + 1
        /\ events'[Len(events) + 1] = e
        /\ \A i \in 1..Len(events) : events'[i] = events[i] /\ events[i] \in Event
        /\ \A types, b : EventsOf(events', types, b) =
             IF e.type \in types /\ e.approval = b
             THEN EventsOf(events, types, b) \cup {Len(events) + 1}
             ELSE EventsOf(events, types, b)
        /\ Len(events) \in Nat
    BY <1>0, EventTypes
  <1>4. \A b : EventsOf(events', Decisions, b) = EventsOf(events, Decisions, b)
    BY <1>1, <1>3
  <1>5. \A b : EventsOf(events', {"released"}, b) = EventsOf(events, {"released"}, b)
    BY <1>1, <1>3 DEF Decisions
  <1>6. e.type = "action_authorized" => approvals[a].status \notin {"ABSENT", "PENDING"}
    <2> SUFFICES ASSUME e.type = "action_authorized",
                        approvals[a].status \in {"ABSENT", "PENDING"}
                 PROVE  FALSE
      OBVIOUS
    <2>1. PICK j : j \in EventsOf(events, {"released"}, a)
      OBVIOUS
    <2>2. j \in EventsOf(events, Decisions \cup {"action_authorized"}, a)
      BY <2>1 DEF EventsOf, Decisions
    <2> QED
      BY <1>0, <1>1, <2>2 DEF UndecidedIsUntouched
  <1>7. UndecidedIsUntouched'
    <2> SUFFICES ASSUME NEW b \in ApprovalIds, approvals[b].status \in {"ABSENT", "PENDING"}
                 PROVE  /\ EventsOf(events', Decisions \cup {"action_authorized"}, b) = {}
                        /\ \A q \in Procs : req'[q].id = b =>
                             req'[q].step \notin Deciding \cup {"appendAuthorized"}
      BY DEF UndecidedIsUntouched
    <2>1. ~ (e.type \in Decisions \cup {"action_authorized"} /\ e.approval = b)
      BY <1>1, <1>6
    <2>2. EventsOf(events', Decisions \cup {"action_authorized"}, b) =
            EventsOf(events, Decisions \cup {"action_authorized"}, b)
      BY <1>3, <2>1
    <2>3. /\ EventsOf(events, Decisions \cup {"action_authorized"}, b) = {}
          /\ \A q \in Procs : req[q].id = b =>
               req[q].step \notin Deciding \cup {"appendAuthorized"}
      BY <1>0 DEF UndecidedIsUntouched
    <2> QED
      BY <1>2, <2>2, <2>3 DEF Deciding
  <1>8. ClaimIsExclusive'
    BY <1>0, <1>2, <1>4 DEF ClaimIsExclusive, Deciding
  <1>9. AuthorizeAfterRelease'
    BY <1>0, <1>2, <1>5 DEF AuthorizeAfterRelease, At
  <1>10. DecidedOnce'
    BY <1>0, <1>4 DEF DecidedOnce, Decisions
  <1>11. ReleasedAsProposed'
    BY <1>0, <1>1, <1>3 DEF ReleasedAsProposed, Decisions
  <1>12. AuthorizedAfterRelease'
    <2> SUFFICES ASSUME NEW i \in 1..Len(events'), events'[i].type = "action_authorized"
                 PROVE  \E j \in 1..(i-1) : /\ events'[j].type = "released"
                                           /\ events'[j].approval = events'[i].approval
      BY DEF AuthorizedAfterRelease
    <2>1. CASE i \in 1..Len(events)
      BY <1>0, <1>3, <2>1 DEF AuthorizedAfterRelease
    <2>2. CASE i = Len(events) + 1
      <3>1. PICK j : j \in EventsOf(events, {"released"}, a)
        BY <1>3, <2>2
      <3>2. j \in 1..Len(events) /\ events[j].type = "released" /\ events[j].approval = a
        BY <3>1 DEF EventsOf
      <3> QED
        BY <1>1, <1>3, <2>2, <3>2
    <2> QED
      BY <1>3, <2>1, <2>2
  <1> QED
    BY <1>7, <1>8, <1>9, <1>10, <1>11, <1>12

(* What requests have read keeps the hash of its row as long as rows keep  *)
(* their hashes.                                                           *)
LEMMA SnapshotsStay ==
  ASSUME IInv, TypeOK',
         \A a \in ApprovalIds : approvals[a].status # "ABSENT" =>
           /\ approvals'[a].status # "ABSENT"
           /\ approvals'[a].hash = approvals[a].hash,
         \A q \in Procs : \/ req'[q] = req[q]
                          \/ req'[q].step = "idle" /\ req'[q].todo = {}
                          \/ SnapshotIsRows(q)'
  PROVE  SnapshotHash'
  <1>0. TypeOK /\ SnapshotHash
    BY DEF IInv
  <1> SUFFICES ASSUME NEW q \in Procs
               PROVE  SnapshotIsRows(q)'
    BY DEF SnapshotHash
  <1>1. CASE req'[q] = req[q]
    <2>1. SnapshotIsRows(q)
      BY <1>0 DEF SnapshotHash
    <2>2. req[q].id \in ApprovalIds /\ \A item \in req[q].todo : item[1] \in ApprovalIds
      BY <1>0 DEF TypeOK, Request
    <2> QED
      BY <1>1, <2>1, <2>2 DEF SnapshotIsRows
  <1>2. CASE req'[q].step = "idle" /\ req'[q].todo = {}
    BY <1>2 DEF SnapshotIsRows, Deciding
  <1> QED
    BY <1>1, <1>2

-----------------------------------------------------------------------------
(* The invariant without its types and snapshots: what the stream says.    *)
StreamInv ==
  /\ UndecidedIsUntouched
  /\ ClaimIsExclusive
  /\ AuthorizeAfterRelease
  /\ DecidedOnce
  /\ ReleasedAsProposed
  /\ AuthorizedAfterRelease

(* The invariant is inductive: the initial state has it, every step keeps  *)
(* it, so every reachable state has it.                                    *)
THEOREM InvariantHolds == Spec => []IInv
<1>1. Init => IInv
  <2> SUFFICES ASSUME Init
               PROVE  IInv
    OBVIOUS
  <2>1. TypeOK
    BY IdleIsRequest, ApprovalsAssumption DEF Init, TypeOK, RoomState
  <2>2. Len(events) = 0 /\ \A types, a : EventsOf(events, types, a) = {}
    BY DEF Init, EventsOf
  <2>3. \A p \in Procs : req[p].step = "idle" /\ req[p].todo = {}
    BY DEF Init, Idle
  <2>4. SnapshotHash
    BY <2>3 DEF SnapshotHash, SnapshotIsRows, Deciding
  <2>5. StreamInv
    BY <2>2, <2>3 DEF StreamInv, UndecidedIsUntouched, ClaimIsExclusive, AuthorizeAfterRelease,
       At, Deciding, DecidedOnce, ReleasedAsProposed, AuthorizedAfterRelease
  <2> QED
    BY <2>1, <2>4, <2>5 DEF IInv, StreamInv
<1>2. IInv /\ TypeOK' /\ [Next]_vars => IInv'
  <2> SUFFICES ASSUME IInv, TypeOK', [Next]_vars
               PROVE  SnapshotHash' /\ StreamInv'
    BY DEF IInv, StreamInv
  <2>0. /\ TypeOK /\ SnapshotHash
        /\ \A p \in Procs : req[p] \in Request
        /\ \A a \in ApprovalIds : approvals[a] \in Approval
        /\ Idle.step = "idle" /\ Idle.todo = {}
    BY DEF IInv, TypeOK, Idle
  <2>1. ASSUME NEW p \in Procs, NEW body \in Bodies, HoldBegin(p, body)
        PROVE  SnapshotHash' /\ StreamInv'
    <3>1. /\ req'[p].step = "createApproval" /\ req'[p].todo = {}
          /\ req'[p].row.status = "PENDING"
          /\ \A q \in Procs \ {p} : req'[q] = req[q]
          /\ approvals' = approvals /\ events' = events
      BY <2>0, <2>1, IdleIsRequest DEF HoldBegin, HeldRow, TypeOK, Idle, Request
    <3>2. SnapshotIsRows(p)'
      BY <3>1 DEF SnapshotIsRows, Deciding
    <3>3. SnapshotHash'
      BY <3>1, <3>2, SnapshotsStay
    <3> QED
      BY <3>1, <3>3, QuietStep DEF StreamInv, Deciding
  <2>2. ASSUME NEW p \in Procs, NEW a \in ApprovalIds, CreateApproval(p, a)
        PROVE  SnapshotHash' /\ StreamInv'
    <3>1. /\ req'[p].step = "appendRequest" /\ req'[p].todo = req[p].todo
          /\ req'[p].id = a /\ req'[p].row = req[p].row /\ approvals'[a] = req[p].row
          /\ \A q \in Procs \ {p} : req'[q] = req[q]
          /\ req[p].step = "createApproval" /\ approvals[a].status = "ABSENT"
          /\ \A b \in ApprovalIds \ {a} : approvals'[b] = approvals[b]
          /\ events' = events
      BY <2>0, <2>2 DEF CreateApproval, At, TypeOK, Request
    <3>2. SnapshotIsRows(p)
      BY <2>0 DEF SnapshotHash
    <3>3. \A item \in req[p].todo : item[1] # a /\ item[1] \in ApprovalIds
      BY <2>0, <3>1, <3>2 DEF SnapshotIsRows, Request
    <3>4. SnapshotIsRows(p)'
      BY <3>1, <3>2, <3>3 DEF SnapshotIsRows, Deciding
    <3>5. SnapshotHash'
      BY <3>1, <3>4, SnapshotsStay
    <3> QED
      BY <3>1, <3>5, QuietStep DEF StreamInv, Deciding
  <2>3. ASSUME NEW p \in Procs, NEW a \in ApprovalIds, DecideBegin(p, a)
        PROVE  SnapshotHash' /\ StreamInv'
    <3>1. PICK step \in FirstWrites(a) :
            req' = [req EXCEPT ![p] = [step |-> step, id |-> a, row |-> approvals[a], todo |-> {}]]
      BY <2>3 DEF DecideBegin
    <3>2. /\ req'[p] = [step |-> step, id |-> a, row |-> approvals[a], todo |-> {}]
          /\ \A q \in Procs \ {p} : req'[q] = req[q]
          /\ approvals' = approvals /\ events' = events
          /\ approvals[a].status = "PENDING"
      BY <2>0, <2>3, <3>1 DEF DecideBegin, TypeOK
    <3>3. /\ step \in {"markExpired", "claimRejected", "claimApproved", "claimInvalidated"}
          /\ step = "claimApproved" => Releasable(approvals[a])
      BY <3>1 DEF FirstWrites
    <3>4. SnapshotIsRows(p)'
      BY <3>2, <3>3 DEF SnapshotIsRows, Releasable
    <3>5. SnapshotHash'
      BY <3>2, <3>4, SnapshotsStay
    <3> QED
      BY <3>2, <3>3, <3>5, QuietStep DEF StreamInv, Deciding
  <2>4. ASSUME NEW p \in Procs, MarkExpired(p)
        PROVE  SnapshotHash' /\ StreamInv'
    <3>1. /\ req' = [req EXCEPT ![p] = Idle] /\ events' = events
          /\ req[p].id \in ApprovalIds
          /\ approvals' = [approvals EXCEPT ![req[p].id] = [req[p].row EXCEPT !.status = "EXPIRED"]]
      BY <2>0, <2>4 DEF MarkExpired, Done, Request
    <3>2. /\ approvals[req[p].id].status # "ABSENT"
          /\ req[p].row.hash = approvals[req[p].id].hash
          /\ req[p].row \in Approval
      BY <2>0, <2>4 DEF MarkExpired, At, SnapshotHash, SnapshotIsRows, Request
    <3>3. /\ \A b \in ApprovalIds \ {req[p].id} : approvals'[b] = approvals[b]
          /\ approvals'[req[p].id].status = "EXPIRED"
          /\ approvals'[req[p].id].hash = approvals[req[p].id].hash
          /\ req'[p] = Idle
          /\ \A q \in Procs \ {p} : req'[q] = req[q]
      BY <2>0, <3>1, <3>2 DEF TypeOK, Approval
    <3>4. SnapshotHash'
      BY <2>0, <3>2, <3>3, SnapshotsStay
    <3> QED
      BY <2>0, <3>1, <3>3, <3>4, QuietStep DEF StreamInv, Deciding
  <2>5. ASSUME NEW p \in Procs, NEW step \in {"claimRejected", "claimInvalidated"},
               NEW status \in {"REJECTED", "INVALIDATED"},
               NEW next \in {"idle", "appendRejected"},
               Claim(p, step, status, next), next = "idle" <=> status = "INVALIDATED"
        PROVE  SnapshotHash' /\ StreamInv'
    <3> DEFINE a == req[p].id
    <3>1. /\ a \in ApprovalIds /\ approvals[a] \in Approval
          /\ status \in ApprovalStatus /\ events' = events
          /\ SnapshotIsRows(p)
          /\ req[p].step = step
      BY <2>0, <2>5 DEF Claim, At, Request, ApprovalStatus, SnapshotHash
    <3>2. CASE approvals[a].status = "PENDING" /\ next = "appendRejected"
      <4>1. /\ approvals' = [approvals EXCEPT ![a] = Claimed(@, status)]
            /\ Goto(p, next) /\ status = "REJECTED"
        BY <2>5, <3>2 DEF Claim
      <4>2. StreamInv'
        BY <3>1, <3>2, <4>1, WonClaim DEF StreamInv, Deciding
      <4>3. /\ \A b \in ApprovalIds \ {a} : approvals'[b] = approvals[b]
            /\ approvals'[a].status = status
            /\ approvals'[a].hash = approvals[a].hash
        BY <2>0, <3>1, <4>1, ClaimedIsApproval DEF TypeOK
      <4>4. /\ \A q \in Procs \ {p} : req'[q] = req[q]
            /\ req'[p].step = "appendRejected" /\ req'[p].id = a
            /\ req'[p].row = req[p].row /\ req'[p].todo = req[p].todo
        BY <2>0, <3>2, <4>1 DEF Goto, TypeOK, Request
      <4>5. \A item \in req[p].todo : item[1] \in ApprovalIds
        BY <2>0 DEF Request
      <4>6. SnapshotIsRows(p)'
        BY <3>1, <4>1, <4>3, <4>4, <4>5 DEF SnapshotIsRows
      <4> QED
        BY <4>1, <4>2, <4>3, <4>4, <4>6, SnapshotsStay
    <3>3. CASE ~(approvals[a].status = "PENDING" /\ next = "appendRejected")
      <4>1. /\ Done(p)
            /\ \/ approvals' = approvals
               \/ /\ approvals' = [approvals EXCEPT ![a] = Claimed(@, status)]
                  /\ status = "INVALIDATED"
        BY <2>5, <3>3 DEF Claim
      <4>2. /\ \A b \in ApprovalIds \ {a} : approvals'[b] = approvals[b]
            /\ approvals'[a] = approvals[a] \/ approvals'[a].status = "INVALIDATED"
            /\ approvals'[a].hash = approvals[a].hash
        BY <2>0, <3>1, <4>1, ClaimedIsApproval DEF TypeOK
      <4>3. req'[p] = Idle /\ \A q \in Procs \ {p} : req'[q] = req[q]
        BY <2>0, <4>1 DEF Done, TypeOK
      <4>4. SnapshotHash'
        BY <2>0, <4>2, <4>3, SnapshotsStay
      <4> QED
        BY <2>0, <3>1, <4>2, <4>3, <4>4, QuietStep DEF StreamInv, Deciding
    <3> QED
      BY <3>2, <3>3
  <2>6. ASSUME NEW p \in Procs, ClaimApproved(p)
        PROVE  SnapshotHash' /\ StreamInv'
    <3> DEFINE a == req[p].id
    <3>1. /\ a \in ApprovalIds /\ approvals[a] \in Approval
          /\ "APPROVED" \in ApprovalStatus /\ events' = events
          /\ SnapshotIsRows(p)
          /\ req[p].step = "claimApproved"
      BY <2>0, <2>6 DEF ClaimApproved, Claim, At, Request, ApprovalStatus, SnapshotHash
    <3>2. CASE approvals[a].status = "PENDING"
      <4>1. /\ approvals' = [approvals EXCEPT ![a] = Claimed(@, "APPROVED")]
            /\ Goto(p, "appendReleased")
        BY <2>6, <3>2 DEF ClaimApproved, Claim
      <4>2. StreamInv'
        BY <3>1, <3>2, <4>1, WonClaim DEF StreamInv, Deciding
      <4>3. /\ \A b \in ApprovalIds \ {a} : approvals'[b] = approvals[b]
            /\ approvals'[a].status = "APPROVED"
            /\ approvals'[a].hash = approvals[a].hash
        BY <2>0, <3>1, <4>1, ClaimedIsApproval DEF TypeOK
      <4>4. /\ \A q \in Procs \ {p} : req'[q] = req[q]
            /\ req'[p].step = "appendReleased" /\ req'[p].id = a
            /\ req'[p].row = req[p].row /\ req'[p].todo = req[p].todo
        BY <2>0, <4>1 DEF Goto, TypeOK, Request
      <4>5. \A item \in req[p].todo : item[1] \in ApprovalIds
        BY <2>0 DEF Request
      <4>6. SnapshotIsRows(p)'
        BY <3>1, <4>3, <4>4, <4>5 DEF SnapshotIsRows
      <4> QED
        BY <4>2, <4>3, <4>4, <4>6, SnapshotsStay
    <3>3. CASE approvals[a].status # "PENDING"
      <4>1. /\ approvals' = approvals
            /\ req'[p] = Idle /\ \A q \in Procs \ {p} : req'[q] = req[q]
        BY <2>0, <2>6, <3>3 DEF ClaimApproved, Claim, Done, TypeOK
      <4>2. SnapshotHash'
        BY <2>0, <4>1, SnapshotsStay
      <4> QED
        BY <2>0, <3>1, <4>1, <4>2, QuietStep DEF StreamInv, Deciding
    <3> QED
      BY <3>2, <3>3
  <2>7. ASSUME NEW p \in Procs, AppendRejected(p) \/ AppendReleased(p)
        PROVE  SnapshotHash' /\ StreamInv'
    <3> DEFINE e == IF req[p].step = "appendRejected"
                    THEN SystemEvent("action_rejected", req[p].id)
                    ELSE Content(req[p].id, req[p].row.body)
    <3>1. /\ req[p].id \in ApprovalIds /\ req[p].row.body \in Bodies \cup {NoBody}
          /\ req[p].step \in Deciding /\ approvals' = approvals
          /\ events' = Append(events, e)
          /\ SnapshotIsRows(p)
      BY <2>0, <2>7 DEF AppendRejected, AppendReleased, Emit, Append1, At, Deciding, Request,
         Approval, SnapshotHash
    <3>2. \/ req[p].step = "appendRejected" /\ Done(p)
          \/ req[p].step = "appendReleased" /\ Goto(p, "appendAuthorized")
      BY <2>7 DEF AppendRejected, AppendReleased, Emit, At
    <3>3. e \in Event /\ e.approval = req[p].id
      BY <3>1 DEF SystemEvent, Content, Event, EventType
    <3>4. \/ e.type = "action_rejected" /\ Done(p)
          \/ /\ e.type = "released" /\ Goto(p, "appendAuthorized")
             /\ ParametersHash(e.body) = req[p].row.hash
      BY <3>1, <3>2 DEF SystemEvent, Content, SnapshotIsRows
    <3>5. StreamInv'
      BY <3>1, <3>3, <3>4, DecisionEvent DEF StreamInv
    <3>6. /\ \A q \in Procs \ {p} : req'[q] = req[q]
          /\ \/ req'[p] = Idle
             \/ /\ req'[p].step = "appendAuthorized" /\ req'[p].id = req[p].id
                /\ req'[p].row = req[p].row /\ req'[p].todo = req[p].todo
      BY <2>0, <3>2 DEF Done, Goto, TypeOK, Request
    <3>7. req'[p] = Idle \/ SnapshotIsRows(p)'
      BY <3>1, <3>6 DEF SnapshotIsRows, Deciding
    <3> QED
      BY <2>0, <3>1, <3>5, <3>6, <3>7, SnapshotsStay
  <2>8. ASSUME NEW p \in Procs, AppendRequest(p) \/ AppendAuthorized(p)
        PROVE  SnapshotHash' /\ StreamInv'
    <3> DEFINE e == IF req[p].step = "appendRequest"
                    THEN SystemEvent("approval_request", req[p].id)
                    ELSE SystemEvent("action_authorized", req[p].id)
    <3>1. /\ req[p].id \in ApprovalIds /\ approvals' = approvals /\ Done(p)
          /\ req[p].step \in {"appendRequest", "appendAuthorized"}
          /\ events' = Append(events, e)
      BY <2>0, <2>8 DEF AppendRequest, AppendAuthorized, Emit, Append1, At, Request
    <3>2. /\ e \in Event /\ e.approval = req[p].id
          /\ \/ e.type = "approval_request"
             \/ e.type = "action_authorized" /\ EventsOf(events, {"released"}, req[p].id) # {}
      BY <3>1 DEF SystemEvent, Event, EventType, IInv, AuthorizeAfterRelease, At
    <3>3. StreamInv'
      BY <3>1, <3>2, OtherEvent DEF StreamInv
    <3>4. req'[p] = Idle /\ \A q \in Procs \ {p} : req'[q] = req[q]
      BY <2>0, <3>1 DEF Done, TypeOK
    <3> QED
      BY <2>0, <3>1, <3>3, <3>4, SnapshotsStay
  <2>9. ASSUME NEW p \in Procs, CloseBegin(p) \/ CloseDone(p) \/ Crash(p)
        PROVE  SnapshotHash' /\ StreamInv'
    <3>1. /\ \A q \in Procs \ {p} : req'[q] = req[q]
          /\ req'[p].step \in {"idle", "listApprovals"} /\ req'[p].todo = {}
          /\ approvals' = approvals /\ events' = events
      BY <2>0, <2>9 DEF CloseBegin, CloseDone, Crash, Done, TypeOK, Idle
    <3>2. SnapshotIsRows(p)'
      BY <3>1 DEF SnapshotIsRows, Deciding
    <3>3. SnapshotHash'
      BY <3>1, <3>2, SnapshotsStay
    <3> QED
      BY <3>1, <3>3, QuietStep DEF StreamInv, Deciding
  <2>10. ASSUME NEW p \in Procs, ListApprovals(p)
         PROVE  SnapshotHash' /\ StreamInv'
    <3> DEFINE pending == {x \in ApprovalIds : approvals[x].status = "PENDING"}
    <3>1. /\ \A q \in Procs \ {p} : req'[q] = req[q]
          /\ req'[p].step = "voidApprovals"
          /\ req'[p].todo = {<<a, approvals[a]>> : a \in pending}
          /\ approvals' = approvals /\ events' = events
      BY <2>0, <2>10 DEF ListApprovals, TypeOK, Request
    <3>2. SnapshotIsRows(p)'
      BY <3>1 DEF SnapshotIsRows, Deciding
    <3>3. SnapshotHash'
      BY <3>1, <3>2, SnapshotsStay
    <3> QED
      BY <3>1, <3>3, QuietStep DEF StreamInv, Deciding
  <2>11. ASSUME NEW p \in Procs, VoidOne(p)
         PROVE  SnapshotHash' /\ StreamInv'
    <3> PICK item \in req[p].todo :
          /\ approvals' = [approvals EXCEPT ![item[1]] = [item[2] EXCEPT !.status = "INVALIDATED"]]
          /\ req' = [req EXCEPT ![p].todo = @ \ {item}]
      BY <2>11 DEF VoidOne
    <3>1. /\ item[1] \in ApprovalIds /\ item[2] \in Approval
          /\ SnapshotIsRows(p) /\ req[p].step = "voidApprovals" /\ events' = events
          /\ \A x \in req[p].todo : x[1] \in ApprovalIds
      BY <2>0, <2>11 DEF VoidOne, At, Request, SnapshotHash
    <3>2. approvals[item[1]].status # "ABSENT" /\ item[2].hash = approvals[item[1]].hash
      BY <3>1 DEF SnapshotIsRows
    <3>3. /\ \A b \in ApprovalIds \ {item[1]} : approvals'[b] = approvals[b]
          /\ approvals'[item[1]].status = "INVALIDATED"
          /\ approvals'[item[1]].hash = approvals[item[1]].hash
      BY <2>0, <3>1, <3>2 DEF TypeOK, Approval
    <3>4. /\ \A q \in Procs \ {p} : req'[q] = req[q]
          /\ req'[p].step = "voidApprovals" /\ req'[p].todo \subseteq req[p].todo
      BY <2>0, <3>1 DEF TypeOK, Request
    <3>5. SnapshotIsRows(p)'
      BY <3>1, <3>3, <3>4 DEF SnapshotIsRows, Deciding
    <3>6. SnapshotHash'
      BY <3>2, <3>3, <3>4, <3>5, SnapshotsStay
    <3> QED
      BY <3>1, <3>3, <3>4, <3>6, QuietStep DEF StreamInv, Deciding
  <2>12. CASE \/ \E to \in RoomState : MoveRoom(to)
              \/ \E a \in ApprovalIds : PassDeadline(a)
              \/ \E body \in Bodies : ExtendDetectors(body)
              \/ UNCHANGED vars
    <3>1. approvals' = approvals /\ events' = events /\ req' = req
      BY <2>12 DEF MoveRoom, PassDeadline, ExtendDetectors, vars
    <3>2. SnapshotHash'
      BY <3>1, SnapshotsStay
    <3> QED
      BY <3>1, <3>2, QuietStep DEF StreamInv
  <2>13. ASSUME NEW a \in ApprovalIds, NEW body \in Bodies, EditHeldBody(a, body)
         PROVE  SnapshotHash' /\ StreamInv'
    <3>1. /\ events' = events /\ req' = req
          /\ \A b \in ApprovalIds : /\ approvals'[b].status = approvals[b].status
                                    /\ approvals'[b].hash = approvals[b].hash
      BY <2>0, <2>13 DEF EditHeldBody, TypeOK, Approval
    <3>2. SnapshotHash'
      BY <3>1, SnapshotsStay
    <3> QED
      BY <3>1, <3>2, QuietStep DEF StreamInv
  <2>14. ASSUME NEW p \in Procs, ClaimRejected(p) \/ ClaimInvalidated(p)
         PROVE  SnapshotHash' /\ StreamInv'
    BY <2>5, <2>14 DEF ClaimRejected, ClaimInvalidated
  <2> QED
    BY <2>1, <2>2, <2>3, <2>4, <2>6, <2>7, <2>8, <2>9, <2>10, <2>11, <2>12, <2>13, <2>14
    DEF Next
<1> QED
  BY <1>1, <1>2, TypeCorrect, PTL DEF Spec

(* Whatever races and crashes, at most one release or rejection of an      *)
(* approval reaches the room's event stream.                               *)
THEOREM DecidedAtMostOnce == Spec => []DecidedOnce
<1>1. IInv => DecidedOnce
  BY DEF IInv
<1> QED
  BY <1>1, InvariantHolds, PTL

(* The peer receives exactly what was proposed, though the stored body can *)
(* be edited at any time before the decision.                              *)
THEOREM ReleasedIsProposed == Spec => []ReleasedAsProposed
<1>1. IInv => ReleasedAsProposed
  BY DEF IInv
<1> QED
  BY <1>1, InvariantHolds, PTL

(* No authorisation is announced before the content it authorises.         *)
THEOREM AuthorizationFollows == Spec => []AuthorizedAfterRelease
<1>1. IInv => AuthorizedAfterRelease
  BY DEF IInv
<1> QED
  BY <1>1, InvariantHolds, PTL

(* A pending approval has left no trace and is in nobody's hands.          *)
THEOREM PendingUntouched == Spec => []PendingIsUndecided
<1>1. IInv => PendingIsUndecided
  <2> SUFFICES ASSUME IInv, NEW a \in ApprovalIds, approvals[a].status = "PENDING"
               PROVE  /\ EventsOf(events, Decisions \cup {"action_authorized"}, a) = {}
                      /\ \A p \in Procs : req[p].id = a =>
                           req[p].step \notin Deciding \cup {"appendAuthorized"}
    BY DEF PendingIsUndecided, Decisions, Deciding
  <2> QED
    BY DEF IInv, UndecidedIsUntouched
<1> QED
  BY <1>1, InvariantHolds, PTL

(* No write of the row brings a decided approval back to PENDING: neither  *)
(* the claims, nor the unconditional writes of expiry and of closeRoom.    *)
NeverPendingAgain ==
  [][\A a \in ApprovalIds :
       approvals[a].status \notin {"ABSENT", "PENDING"} => approvals'[a].status # "PENDING"]_vars

THEOREM DecidedStaysDecided == Spec => NeverPendingAgain
<1>1. IInv /\ [Next]_vars =>
        [\A a \in ApprovalIds : approvals[a].status \notin {"ABSENT", "PENDING"} =>
                                 approvals'[a].status # "PENDING"]_vars
  <2> SUFFICES ASSUME IInv, Next, NEW a \in ApprovalIds,
                      approvals[a].status \notin {"ABSENT", "PENDING"}
               PROVE  approvals'[a].status # "PENDING"
    OBVIOUS
  <2>0. /\ TypeOK
        /\ \A p \in Procs : req[p] \in Request
        /\ \A b \in ApprovalIds : approvals[b] \in Approval
    BY DEF IInv, TypeOK
  <2>1. ASSUME NEW p \in Procs, NEW b \in ApprovalIds, CreateApproval(p, b)
        PROVE  approvals'[a].status # "PENDING"
    BY <2>0, <2>1 DEF CreateApproval, TypeOK
  <2>2. ASSUME NEW p \in Procs, MarkExpired(p)
        PROVE  approvals'[a].status # "PENDING"
    <3>1. req[p].id \in ApprovalIds /\ req[p].row \in Approval
      BY <2>0 DEF Request
    <3> QED
      BY <2>0, <2>2, <3>1 DEF MarkExpired, TypeOK, Approval
  <2>3. ASSUME NEW p \in Procs, NEW step, NEW status \in ApprovalStatus \ {"PENDING"}, NEW next,
               Claim(p, step, status, next)
        PROVE  approvals'[a].status # "PENDING"
    <3>1. req[p].id \in ApprovalIds /\ approvals[req[p].id] \in Approval
      BY <2>0 DEF Request
    <3>2. \/ approvals' = approvals
          \/ approvals' = [approvals EXCEPT ![req[p].id] = Claimed(approvals[req[p].id], status)]
      BY <2>3 DEF Claim
    <3> QED
      BY <2>0, <3>1, <3>2, ClaimedIsApproval DEF TypeOK
  <2>4. ASSUME NEW p \in Procs, VoidOne(p)
        PROVE  approvals'[a].status # "PENDING"
    <3> PICK item \in req[p].todo :
          approvals' = [approvals EXCEPT ![item[1]] = [item[2] EXCEPT !.status = "INVALIDATED"]]
      BY <2>4 DEF VoidOne
    <3>1. item[1] \in ApprovalIds /\ item[2] \in Approval
      BY <2>0 DEF Request
    <3> QED
      BY <2>0, <3>1 DEF TypeOK, Approval
  <2>5. ASSUME NEW b \in ApprovalIds, NEW body \in Bodies, EditHeldBody(b, body)
        PROVE  approvals'[a].status # "PENDING"
    BY <2>0, <2>5 DEF EditHeldBody, TypeOK, Approval
  <2>6. ASSUME NEW p \in Procs, ClaimRejected(p) \/ ClaimInvalidated(p) \/ ClaimApproved(p)
        PROVE  approvals'[a].status # "PENDING"
    BY <2>3, <2>6 DEF ClaimRejected, ClaimInvalidated, ClaimApproved, ApprovalStatus
  <2>7. CASE approvals' = approvals
    BY <2>7
  <2> QED
    BY <2>1, <2>2, <2>4, <2>5, <2>6, <2>7
    DEF Next, HoldBegin, DecideBegin, AppendRequest, AppendRejected, AppendReleased,
        AppendAuthorized, Emit, CloseBegin, ListApprovals, CloseDone, Crash, MoveRoom,
        PassDeadline, ExtendDetectors
<1> QED
  BY <1>1, InvariantHolds, PTL DEF Spec, NeverPendingAgain

-----------------------------------------------------------------------------
(* Closing a room.                                                         *)

(* A closeRoom in flight that still has to void `a`.                       *)
WillVoid(a) ==
  \E p \in Procs : \/ At(p, "listApprovals")
                   \/ At(p, "voidApprovals") /\ \E item \in req[p].todo : item[1] = a

(* ClosedUnlessLate, made inductive: what is PENDING in a closed room was  *)
(* held late, or a closeRoom is on its way to it.                          *)
ClosedInv ==
  room = "CLOSED" /\ crashes = 0 =>
    \A a \in ApprovalIds : approvals[a].status = "PENDING" => a \in late \/ WillVoid(a)

(* A step that makes nothing PENDING and lets every closeRoom be.          *)
LEMMA ClosedStays ==
  ASSUME ClosedInv, room' = room, crashes' = crashes, late' = late,
         \A a \in ApprovalIds : approvals'[a].status = "PENDING" => approvals[a].status = "PENDING",
         \A p \in Procs : req[p].step \in {"listApprovals", "voidApprovals"} => req'[p] = req[p]
  PROVE  ClosedInv'
<1> SUFFICES ASSUME room = "CLOSED", crashes = 0,
                    NEW a \in ApprovalIds, approvals'[a].status = "PENDING"
             PROVE  a \in late' \/ WillVoid(a)'
  BY DEF ClosedInv
<1>1. CASE a \in late
  BY <1>1
<1>2. CASE WillVoid(a)
  <2> PICK p \in Procs : \/ At(p, "listApprovals")
                         \/ At(p, "voidApprovals") /\ \E item \in req[p].todo : item[1] = a
    BY <1>2 DEF WillVoid
  <2>1. req'[p] = req[p]
    BY DEF At
  <2> QED
    BY <2>1 DEF WillVoid, At
<1> QED
  BY <1>1, <1>2 DEF ClosedInv

(* A closed room has no approval left that could be granted, but those     *)
(* that were held after closeRoom had listed what to void.                 *)
THEOREM ClosingVoids == Spec => []ClosedUnlessLate
<1>1. Init => ClosedInv
  BY DEF Init, ClosedInv
<1>2. TypeOK /\ ClosedInv /\ [Next]_vars => ClosedInv'
  <2> SUFFICES ASSUME TypeOK, ClosedInv, [Next]_vars
               PROVE  ClosedInv'
    OBVIOUS
  <2>0. /\ \A p \in Procs : req[p] \in Request
        /\ \A b \in ApprovalIds : approvals[b] \in Approval
        /\ req \in [Procs -> Request] /\ approvals \in [ApprovalIds -> Approval]
    BY DEF TypeOK
  <2>1. ASSUME NEW p \in Procs, NEW body \in Bodies, HoldBegin(p, body)
        PROVE  ClosedInv'
    BY <2>0, <2>1, ClosedStays DEF HoldBegin, At
  <2>2. ASSUME NEW p \in Procs, NEW a \in ApprovalIds, CreateApproval(p, a)
        PROVE  ClosedInv'
    <3> SUFFICES ASSUME room' = "CLOSED", crashes' = 0,
                        NEW b \in ApprovalIds, approvals'[b].status = "PENDING"
                 PROVE  b \in late' \/ WillVoid(b)'
      BY DEF ClosedInv
    <3>0. room = "CLOSED" /\ crashes = 0
      BY <2>2 DEF CreateApproval
    <3>1. \A q \in Procs : q # p => req'[q] = req[q]
      BY <2>0, <2>2 DEF CreateApproval
    <3>2. CASE \E q \in Procs : At(q, "listApprovals")
      <4> PICK q \in Procs : At(q, "listApprovals")
        BY <3>2
      <4>1. q # p
        BY <2>2 DEF CreateApproval, At
      <4> QED
        BY <3>1, <4>1 DEF WillVoid, At
    <3>3. CASE b = a /\ \A q \in Procs : ~At(q, "listApprovals")
      BY <2>2, <3>0, <3>3 DEF CreateApproval
    <3>4. CASE b # a /\ \A q \in Procs : ~At(q, "listApprovals")
      <4>1. approvals[b].status = "PENDING"
        BY <2>0, <2>2, <3>4 DEF CreateApproval
      <4>2. CASE b \in late
        BY <2>2, <3>0, <3>4, <4>2 DEF CreateApproval
      <4>3. CASE WillVoid(b)
        <5> PICK q \in Procs : At(q, "voidApprovals") /\ \E item \in req[q].todo : item[1] = b
          BY <3>4, <4>3 DEF WillVoid
        <5>1. q # p
          BY <2>2 DEF CreateApproval, At
        <5> QED
          BY <3>1, <5>1 DEF WillVoid, At
      <4> QED
        BY <3>0, <4>1, <4>2, <4>3 DEF ClosedInv
    <3> QED
      BY <3>2, <3>3, <3>4
  <2>3. ASSUME NEW p \in Procs, NEW a \in ApprovalIds, DecideBegin(p, a)
        PROVE  ClosedInv'
    BY <2>0, <2>3, ClosedStays DEF DecideBegin, At
  <2>4. ASSUME NEW p \in Procs, MarkExpired(p)
        PROVE  ClosedInv'
    <3>1. req[p].id \in ApprovalIds /\ req[p].row \in Approval
      BY <2>0 DEF Request
    <3>2. \A b \in ApprovalIds : approvals'[b].status = "PENDING" => approvals[b].status = "PENDING"
      BY <2>0, <2>4, <3>1 DEF MarkExpired, Approval
    <3> QED
      BY <2>0, <2>4, <3>2, ClosedStays DEF MarkExpired, Done, At
  <2>5. ASSUME NEW p \in Procs, NEW step \in Step \ {"listApprovals", "voidApprovals"},
               NEW status \in ApprovalStatus \ {"PENDING"}, NEW next,
               Claim(p, step, status, next)
        PROVE  ClosedInv'
    <3>1. req[p].id \in ApprovalIds /\ approvals[req[p].id] \in Approval
      BY <2>0 DEF Request
    <3>2. \/ approvals' = approvals
          \/ approvals' = [approvals EXCEPT ![req[p].id] = Claimed(approvals[req[p].id], status)]
      BY <2>5 DEF Claim
    <3>3. \A b \in ApprovalIds : approvals'[b].status = "PENDING" => approvals[b].status = "PENDING"
      BY <2>0, <3>1, <3>2, ClaimedIsApproval
    <3>4. \A q \in Procs : q # p => req'[q] = req[q]
      BY <2>0, <2>5 DEF Claim, Done, Goto
    <3>5. room' = room /\ crashes' = crashes /\ late' = late /\ req[p].step = step
      BY <2>5 DEF Claim, At
    <3> QED
      BY <3>3, <3>4, <3>5, ClosedStays
  <2>6. ASSUME NEW p \in Procs, NEW step \in Step \ {"listApprovals", "voidApprovals"},
               NEW e, NEW next, Emit(p, step, e, next)
        PROVE  ClosedInv'
    <3>1. \A q \in Procs : q # p => req'[q] = req[q]
      BY <2>0, <2>6 DEF Emit, Done, Goto
    <3>2. /\ room' = room /\ crashes' = crashes /\ late' = late /\ approvals' = approvals
          /\ req[p].step = step
      BY <2>6 DEF Emit, At
    <3> QED
      BY <3>1, <3>2, ClosedStays
  <2>7. ASSUME NEW p \in Procs, CloseBegin(p)
        PROVE  ClosedInv'
    <3>1. req'[p].step = "listApprovals"
      BY <2>0, <2>7, IdleIsRequest DEF CloseBegin, Request
    <3> QED
      BY <3>1 DEF ClosedInv, WillVoid, At
  <2>8. ASSUME NEW p \in Procs, ListApprovals(p)
        PROVE  ClosedInv'
    <3> SUFFICES ASSUME NEW a \in ApprovalIds, approvals'[a].status = "PENDING"
                 PROVE  WillVoid(a)'
      BY DEF ClosedInv
    <3>1. approvals[a].status = "PENDING"
      BY <2>8 DEF ListApprovals
    <3>2. /\ req'[p].step = "voidApprovals"
          /\ req'[p].todo = {<<x, approvals[x]>> :
                               x \in {y \in ApprovalIds : approvals[y].status = "PENDING"}}
      BY <2>0, <2>8 DEF ListApprovals, Request
    <3>3. <<a, approvals[a]>> \in req'[p].todo
      BY <3>1, <3>2
    <3>4. \E item \in req'[p].todo : item[1] = a
      BY <3>3
    <3> QED
      BY <3>2, <3>4 DEF WillVoid, At
  <2>9. ASSUME NEW p \in Procs, VoidOne(p)
        PROVE  ClosedInv'
    <3> PICK item \in req[p].todo :
          /\ approvals' = [approvals EXCEPT ![item[1]] = [item[2] EXCEPT !.status = "INVALIDATED"]]
          /\ req' = [req EXCEPT ![p].todo = @ \ {item}]
      BY <2>9 DEF VoidOne
    <3>1. item[1] \in ApprovalIds /\ item[2] \in Approval
      BY <2>0 DEF Request
    <3>2. /\ approvals'[item[1]].status = "INVALIDATED"
          /\ \A b \in ApprovalIds : b # item[1] => approvals'[b] = approvals[b]
      BY <2>0, <3>1 DEF Approval
    <3>3. /\ req'[p].step = req[p].step /\ req'[p].todo = req[p].todo \ {item}
          /\ \A q \in Procs : q # p => req'[q] = req[q]
      BY <2>0 DEF Request
    <3>4. room' = room /\ crashes' = crashes /\ late' = late
      BY <2>9 DEF VoidOne
    <3> SUFFICES ASSUME room = "CLOSED", crashes = 0,
                        NEW a \in ApprovalIds, approvals'[a].status = "PENDING"
                 PROVE  a \in late' \/ WillVoid(a)'
      BY <3>4 DEF ClosedInv
    <3>5. a # item[1] /\ approvals[a].status = "PENDING"
      BY <3>2
    <3>6. CASE WillVoid(a)
      <4> PICK q \in Procs : \/ At(q, "listApprovals")
                             \/ At(q, "voidApprovals") /\ \E other \in req[q].todo : other[1] = a
        BY <3>6 DEF WillVoid
      <4>1. CASE q # p
        BY <3>3, <4>1 DEF WillVoid, At
      <4>2. CASE q = p
        <5>1. \E other \in req[p].todo \ {item} : other[1] = a
          BY <2>9, <3>5, <4>2 DEF VoidOne, At
        <5> QED
          BY <3>3, <4>2, <5>1, <2>9 DEF WillVoid, At, VoidOne
      <4> QED
        BY <4>1, <4>2
    <3> QED
      BY <3>4, <3>5, <3>6 DEF ClosedInv
  <2>10. ASSUME NEW p \in Procs, CloseDone(p)
         PROVE  ClosedInv'
    <3>1. /\ room' = room /\ crashes' = crashes /\ late' = late /\ approvals' = approvals
          /\ At(p, "voidApprovals") /\ req[p].todo = {}
          /\ \A q \in Procs : q # p => req'[q] = req[q]
      BY <2>0, <2>10 DEF CloseDone, Done
    <3> SUFFICES ASSUME room = "CLOSED", crashes = 0,
                        NEW a \in ApprovalIds, approvals[a].status = "PENDING", WillVoid(a)
                 PROVE  WillVoid(a)'
      BY <3>1 DEF ClosedInv
    <3> PICK q \in Procs : \/ At(q, "listApprovals")
                           \/ At(q, "voidApprovals") /\ \E item \in req[q].todo : item[1] = a
      BY DEF WillVoid
    <3>2. q # p
      BY <3>1 DEF At
    <3> QED
      BY <3>1, <3>2 DEF WillVoid, At
  <2>11. ASSUME NEW p \in Procs, Crash(p)
         PROVE  ClosedInv'
    BY <2>11 DEF Crash, TypeOK, ClosedInv
  <2>12. CASE \E to \in RoomState : MoveRoom(to)
    BY <2>12 DEF MoveRoom, ClosedInv
  <2>13. CASE \/ \E a \in ApprovalIds : PassDeadline(a)
              \/ \E body \in Bodies : ExtendDetectors(body)
              \/ UNCHANGED vars
    BY <2>13, ClosedStays DEF PassDeadline, ExtendDetectors, vars
  <2>14. ASSUME NEW a \in ApprovalIds, NEW body \in Bodies, EditHeldBody(a, body)
         PROVE  ClosedInv'
    <3>1. \A b \in ApprovalIds : approvals'[b].status = approvals[b].status
      BY <2>0, <2>14 DEF EditHeldBody, Approval
    <3> QED
      BY <2>14, <3>1, ClosedStays DEF EditHeldBody
  <2>15. ASSUME NEW p \in Procs,
                AppendRequest(p) \/ AppendRejected(p) \/ AppendReleased(p) \/ AppendAuthorized(p)
         PROVE  ClosedInv'
    BY <2>6, <2>15 DEF AppendRequest, AppendRejected, AppendReleased, AppendAuthorized, Step
  <2>16. ASSUME NEW p \in Procs, ClaimRejected(p) \/ ClaimInvalidated(p) \/ ClaimApproved(p)
         PROVE  ClosedInv'
    BY <2>5, <2>16 DEF ClaimRejected, ClaimInvalidated, ClaimApproved, Step, ApprovalStatus
  <2> QED
    BY <2>1, <2>2, <2>3, <2>4, <2>7, <2>8, <2>9, <2>10, <2>11, <2>12, <2>13, <2>14, <2>15, <2>16
    DEF Next
<1>3. ClosedInv => ClosedUnlessLate
  BY DEF ClosedInv, ClosedUnlessLate, WillVoid, Closing, At
<1> QED
  BY <1>1, <1>2, <1>3, TypeCorrect, PTL DEF Spec

-----------------------------------------------------------------------------
(* Carrying a decision through.                                            *)

(* The event that tells of the decision is in the stream, or the request   *)
(* that has made it is about to append it.                                 *)
Told(a, type, step) ==
  EventsOf(events, {type}, a) # {} \/ \E p \in Procs : At(p, step) /\ req[p].id = a

(* NoDecisionLost, made inductive; a row about to be inserted is PENDING.  *)
DecisionInv ==
  /\ \A p \in Procs : At(p, "createApproval") => req[p].row.status = "PENDING"
  /\ crashes = 0 =>
       \A a \in ApprovalIds :
         /\ approvals[a].status = "APPROVED" => Told(a, "released", "appendReleased")
         /\ approvals[a].status = "REJECTED" => Told(a, "action_rejected", "appendRejected")

(* A step that decides nothing keeps it, when every event stays and a      *)
(* request that is about to tell of a decision stays or has told.          *)
LEMMA DecisionStays ==
  ASSUME TypeOK, DecisionInv, crashes' = crashes,
         \A p \in Procs : At(p, "createApproval")' => req'[p] = req[p],
         \A a \in ApprovalIds :
           \/ approvals'[a].status = approvals[a].status
           \/ approvals'[a].status \notin {"APPROVED", "REJECTED"},
         \A a \in ApprovalIds, type \in Decisions :
           EventsOf(events, {type}, a) \subseteq EventsOf(events', {type}, a),
         \A p \in Procs :
           \/ req'[p] = req[p]
           \/ ~At(p, "appendReleased") /\ ~At(p, "appendRejected")
           \/ At(p, "appendReleased") /\ EventsOf(events', {"released"}, req[p].id) # {}
           \/ At(p, "appendRejected") /\ EventsOf(events', {"action_rejected"}, req[p].id) # {}
  PROVE  DecisionInv'
<1>1. ASSUME NEW p \in Procs, At(p, "createApproval")'
      PROVE  req'[p].row.status = "PENDING"
  <2>1. req'[p] = req[p]
    BY <1>1
  <2> QED
    BY <1>1, <2>1 DEF DecisionInv, At
<1>2. ASSUME NEW a \in ApprovalIds, Told(a, "released", "appendReleased")
      PROVE  Told(a, "released", "appendReleased")'
  <2>1. CASE EventsOf(events, {"released"}, a) # {}
    BY <2>1 DEF Told, Decisions
  <2>2. CASE \E p \in Procs : At(p, "appendReleased") /\ req[p].id = a
    <3> PICK p \in Procs : At(p, "appendReleased") /\ req[p].id = a
      BY <2>2
    <3>1. req'[p] = req[p] \/ EventsOf(events', {"released"}, a) # {}
      BY DEF At
    <3> QED
      BY <3>1 DEF Told, At
  <2> QED
    BY <1>2, <2>1, <2>2 DEF Told
<1>3. ASSUME NEW a \in ApprovalIds, Told(a, "action_rejected", "appendRejected")
      PROVE  Told(a, "action_rejected", "appendRejected")'
  <2>1. CASE EventsOf(events, {"action_rejected"}, a) # {}
    BY <2>1 DEF Told, Decisions
  <2>2. CASE \E p \in Procs : At(p, "appendRejected") /\ req[p].id = a
    <3> PICK p \in Procs : At(p, "appendRejected") /\ req[p].id = a
      BY <2>2
    <3>1. req'[p] = req[p] \/ EventsOf(events', {"action_rejected"}, a) # {}
      BY DEF At
    <3> QED
      BY <3>1 DEF Told, At
  <2> QED
    BY <1>3, <2>1, <2>2 DEF Told
<1> QED
  BY <1>1, <1>2, <1>3 DEF DecisionInv

(* No decision is lost without a crash: when no request is in flight, what *)
(* is APPROVED has been released and what is REJECTED has been announced,  *)
(* whichever requests raced for the decision.                              *)
THEOREM DecisionsAreTold == Spec => []NoDecisionLost
<1>1. Init => DecisionInv
  BY DEF Init, DecisionInv, At, Idle, NoApproval, HeldRow
<1>2. TypeOK /\ DecisionInv /\ [Next]_vars => DecisionInv'
  <2> SUFFICES ASSUME TypeOK, DecisionInv, [Next]_vars
               PROVE  DecisionInv'
    OBVIOUS
  <2>0. /\ \A p \in Procs : req[p] \in Request
        /\ \A b \in ApprovalIds : approvals[b] \in Approval
        /\ req \in [Procs -> Request] /\ approvals \in [ApprovalIds -> Approval]
        /\ events \in Seq(Event)
    BY DEF TypeOK
  <2>1. ASSUME NEW p \in Procs, NEW body \in Bodies, HoldBegin(p, body)
        PROVE  DecisionInv'
    <3>1. /\ req'[p].step = "createApproval" /\ req'[p].row.status = "PENDING"
          /\ \A q \in Procs : q # p => req'[q] = req[q]
          /\ UNCHANGED <<approvals, events, crashes>>
      BY <2>0, <2>1, IdleIsRequest DEF HoldBegin, HeldRow, Request
    <3>2. ASSUME NEW a \in ApprovalIds, NEW type, NEW step \in {"appendReleased", "appendRejected"},
                 Told(a, type, step)
          PROVE  Told(a, type, step)'
      BY <2>1, <3>1, <3>2 DEF Told, At, HoldBegin
    <3> QED
      BY <3>1, <3>2 DEF DecisionInv, At
  <2>2. ASSUME NEW p \in Procs, NEW a \in ApprovalIds, CreateApproval(p, a)
        PROVE  DecisionInv'
    <3>1. /\ req'[p].step = "appendRequest" /\ req[p].step = "createApproval"
          /\ \A q \in Procs : q # p => req'[q] = req[q]
          /\ events' = events /\ crashes' = crashes
          /\ req[p].row.status = "PENDING"
      BY <2>0, <2>2 DEF CreateApproval, DecisionInv, At, Request
    <3>2. \A b \in ApprovalIds : \/ approvals'[b].status = approvals[b].status
                                 \/ approvals'[b].status \notin {"APPROVED", "REJECTED"}
      BY <2>0, <2>2, <3>1 DEF CreateApproval
    <3> QED
      BY <3>1, <3>2, DecisionStays DEF At
  <2>3. ASSUME NEW p \in Procs, NEW a \in ApprovalIds, DecideBegin(p, a)
        PROVE  DecisionInv'
    <3> PICK step \in FirstWrites(a) :
          req' = [req EXCEPT ![p] = [step |-> step, id |-> a, row |-> approvals[a], todo |-> {}]]
      BY <2>3 DEF DecideBegin
    <3>1. req'[p].step # "createApproval" /\ \A q \in Procs : q # p => req'[q] = req[q]
      BY <2>0 DEF FirstWrites
    <3> QED
      BY <2>3, <3>1, DecisionStays DEF DecideBegin, At
  <2>4. ASSUME NEW p \in Procs, MarkExpired(p)
        PROVE  DecisionInv'
    <3>1. req[p].id \in ApprovalIds /\ req[p].row \in Approval
      BY <2>0 DEF Request
    <3>2. \A b \in ApprovalIds : \/ approvals'[b].status = approvals[b].status
                                 \/ approvals'[b].status \notin {"APPROVED", "REJECTED"}
      BY <2>0, <2>4, <3>1 DEF MarkExpired, Approval
    <3>3. req'[p].step = "idle" /\ \A q \in Procs : q # p => req'[q] = req[q]
      BY <2>0, <2>4, IdleIsRequest DEF MarkExpired, Done, Idle
    <3> QED
      BY <2>4, <3>2, <3>3, DecisionStays DEF MarkExpired, At
  <2>5. ASSUME NEW p \in Procs, ClaimInvalidated(p)
        PROVE  DecisionInv'
    <3>1. req[p].id \in ApprovalIds /\ approvals[req[p].id] \in Approval
      BY <2>0 DEF Request
    <3>2. \/ approvals' = approvals
          \/ approvals' = [approvals EXCEPT ![req[p].id] =
                             Claimed(approvals[req[p].id], "INVALIDATED")]
      BY <2>5 DEF ClaimInvalidated, Claim
    <3>3. \A b \in ApprovalIds : \/ approvals'[b].status = approvals[b].status
                                 \/ approvals'[b].status \notin {"APPROVED", "REJECTED"}
      BY <2>0, <3>1, <3>2, ClaimedIsApproval DEF ApprovalStatus
    <3>4. /\ req'[p].step = "idle" /\ req[p].step = "claimInvalidated"
          /\ \A q \in Procs : q # p => req'[q] = req[q]
          /\ events' = events /\ crashes' = crashes
      BY <2>0, <2>5, IdleIsRequest DEF ClaimInvalidated, Claim, Done, Idle, At
    <3> QED
      BY <3>3, <3>4, DecisionStays DEF At
  <2>6. ASSUME NEW p \in Procs, ClaimApproved(p) \/ ClaimRejected(p)
        PROVE  DecisionInv'
    <3>1. req[p].id \in ApprovalIds /\ approvals[req[p].id] \in Approval
      BY <2>0 DEF Request
    <3>2. /\ \A q \in Procs : q # p => req'[q] = req[q]
          /\ events' = events /\ crashes' = crashes
          /\ req[p].step \in {"claimApproved", "claimRejected"}
          /\ req'[p].step \in {"idle", "appendReleased", "appendRejected"}
      BY <2>0, <2>6, IdleIsRequest
      DEF ClaimApproved, ClaimRejected, Claim, Done, Goto, Idle, At, Request
    <3>3. CASE approvals' = approvals
      BY <3>2, <3>3, DecisionStays DEF At
    <3>4. CASE /\ ClaimApproved(p) /\ req'[p].step = "appendReleased" /\ req'[p].id = req[p].id
               /\ approvals' = [approvals EXCEPT ![req[p].id] =
                                  Claimed(approvals[req[p].id], "APPROVED")]
      <4>1. ASSUME NEW b \in ApprovalIds, NEW type, NEW step \in {"appendReleased", "appendRejected"},
                   Told(b, type, step)
            PROVE  Told(b, type, step)'
        BY <3>2, <4>1 DEF Told, At
      <4> PICK a \in ApprovalIds : a = req[p].id
        BY <3>1
      <4>2. Told(a, "released", "appendReleased")'
        BY <3>4 DEF Told, At
      <4>3. /\ approvals'[a].status = "APPROVED"
            /\ \A b \in ApprovalIds : b # a => approvals'[b] = approvals[b]
        BY <2>0, <3>1, <3>4, ClaimedIsApproval DEF ApprovalStatus
      <4>4. \A q \in Procs : At(q, "createApproval")' => req'[q].row.status = "PENDING"
        BY <3>2 DEF DecisionInv, At
      <4>5. ASSUME crashes = 0, NEW b \in ApprovalIds, b # a
            PROVE  /\ approvals'[b].status = "APPROVED" => Told(b, "released", "appendReleased")'
                   /\ approvals'[b].status = "REJECTED" => Told(b, "action_rejected", "appendRejected")'
        <5>1. approvals'[b] = approvals[b]
          BY <4>3, <4>5
        <5>2. /\ approvals[b].status = "APPROVED" => Told(b, "released", "appendReleased")
              /\ approvals[b].status = "REJECTED" => Told(b, "action_rejected", "appendRejected")
          BY <4>5 DEF DecisionInv
        <5> QED
          BY <4>1, <5>1, <5>2
      <4>6. ASSUME crashes = 0, NEW b \in ApprovalIds
            PROVE  /\ approvals'[b].status = "APPROVED" => Told(b, "released", "appendReleased")'
                   /\ approvals'[b].status = "REJECTED" => Told(b, "action_rejected", "appendRejected")'
        BY <4>2, <4>3, <4>5, <4>6
      <4> QED
        BY <3>2, <4>4, <4>6 DEF DecisionInv
    <3>5. CASE /\ ClaimRejected(p) /\ req'[p].step = "appendRejected" /\ req'[p].id = req[p].id
               /\ approvals' = [approvals EXCEPT ![req[p].id] =
                                  Claimed(approvals[req[p].id], "REJECTED")]
      <4>1. ASSUME NEW b \in ApprovalIds, NEW type, NEW step \in {"appendReleased", "appendRejected"},
                   Told(b, type, step)
            PROVE  Told(b, type, step)'
        BY <3>2, <4>1 DEF Told, At
      <4> PICK a \in ApprovalIds : a = req[p].id
        BY <3>1
      <4>2. Told(a, "action_rejected", "appendRejected")'
        BY <3>5 DEF Told, At
      <4>3. /\ approvals'[a].status = "REJECTED"
            /\ \A b \in ApprovalIds : b # a => approvals'[b] = approvals[b]
        BY <2>0, <3>1, <3>5, ClaimedIsApproval DEF ApprovalStatus
      <4>4. \A q \in Procs : At(q, "createApproval")' => req'[q].row.status = "PENDING"
        BY <3>2 DEF DecisionInv, At
      <4>5. ASSUME crashes = 0, NEW b \in ApprovalIds, b # a
            PROVE  /\ approvals'[b].status = "APPROVED" => Told(b, "released", "appendReleased")'
                   /\ approvals'[b].status = "REJECTED" => Told(b, "action_rejected", "appendRejected")'
        <5>1. approvals'[b] = approvals[b]
          BY <4>3, <4>5
        <5>2. /\ approvals[b].status = "APPROVED" => Told(b, "released", "appendReleased")
              /\ approvals[b].status = "REJECTED" => Told(b, "action_rejected", "appendRejected")
          BY <4>5 DEF DecisionInv
        <5> QED
          BY <4>1, <5>1, <5>2
      <4>6. ASSUME crashes = 0, NEW b \in ApprovalIds
            PROVE  /\ approvals'[b].status = "APPROVED" => Told(b, "released", "appendReleased")'
                   /\ approvals'[b].status = "REJECTED" => Told(b, "action_rejected", "appendRejected")'
        BY <4>2, <4>3, <4>5, <4>6
      <4> QED
        BY <3>2, <4>4, <4>6 DEF DecisionInv
    <3> QED
      BY <2>0, <2>6, <3>3, <3>4, <3>5 DEF ClaimApproved, ClaimRejected, Claim, Goto, Request
  <2>7. ASSUME NEW p \in Procs,
               AppendRequest(p) \/ AppendRejected(p) \/ AppendReleased(p) \/ AppendAuthorized(p)
        PROVE  DecisionInv'
    <3>1. req[p].id \in ApprovalIds /\ req[p].row.body \in Bodies \cup {NoBody}
      BY <2>0 DEF Request, Approval
    <3> PICK e \in Event :
          /\ events' = Append(events, e) /\ e.approval = req[p].id
          /\ At(p, "appendReleased") => e.type = "released"
          /\ At(p, "appendRejected") => e.type = "action_rejected"
      BY <2>7, <3>1 DEF AppendRequest, AppendRejected, AppendReleased, AppendAuthorized, Emit,
         Append1, At, Event, EventType, SystemEvent, Content
    <3>2. \A b \in ApprovalIds, type \in Decisions :
            /\ EventsOf(events, {type}, b) \subseteq EventsOf(events', {type}, b)
            /\ e.type = type /\ e.approval = b => EventsOf(events', {type}, b) # {}
      <4>1. events \in Seq(Event)
        BY <2>0
      <4>2. \A types, b : EventsOf(events', types, b) =
              IF e.type \in types /\ e.approval = b
              THEN EventsOf(events, types, b) \cup {Len(events) + 1}
              ELSE EventsOf(events, types, b)
        BY <4>1, EventsGrow
      <4> TAKE b \in ApprovalIds, type \in Decisions
      <4> QED
        BY <4>2
    <3>3. /\ approvals' = approvals /\ crashes' = crashes
          /\ req'[p].step # "createApproval"
          /\ \A q \in Procs : q # p => req'[q] = req[q]
      BY <2>0, <2>7, IdleIsRequest
      DEF AppendRequest, AppendRejected, AppendReleased, AppendAuthorized, Emit, Done, Goto, Idle,
          Request
    <3>4. /\ At(p, "appendReleased") => EventsOf(events', {"released"}, req[p].id) # {}
          /\ At(p, "appendRejected") => EventsOf(events', {"action_rejected"}, req[p].id) # {}
      BY <3>1, <3>2 DEF Decisions
    <3> QED
      BY <3>2, <3>3, <3>4, DecisionStays DEF At
  <2>8. ASSUME NEW p \in Procs, CloseBegin(p) \/ ListApprovals(p) \/ CloseDone(p)
        PROVE  DecisionInv'
    <3>1. /\ approvals' = approvals /\ events' = events /\ crashes' = crashes
          /\ req[p].step \in {"idle", "listApprovals", "voidApprovals"}
          /\ req'[p].step \in {"idle", "listApprovals", "voidApprovals"}
          /\ \A q \in Procs : q # p => req'[q] = req[q]
      BY <2>0, <2>8, IdleIsRequest
      DEF CloseBegin, ListApprovals, CloseDone, Done, Idle, At, Request
    <3> QED
      BY <3>1, DecisionStays DEF At
  <2>9. ASSUME NEW p \in Procs, VoidOne(p)
        PROVE  DecisionInv'
    <3> PICK item \in req[p].todo :
          /\ approvals' = [approvals EXCEPT ![item[1]] = [item[2] EXCEPT !.status = "INVALIDATED"]]
          /\ req' = [req EXCEPT ![p].todo = @ \ {item}]
      BY <2>9 DEF VoidOne
    <3>1. item[1] \in ApprovalIds /\ item[2] \in Approval
      BY <2>0 DEF Request
    <3>2. \A b \in ApprovalIds : \/ approvals'[b].status = approvals[b].status
                                 \/ approvals'[b].status \notin {"APPROVED", "REJECTED"}
      BY <2>0, <3>1 DEF Approval
    <3>3. /\ req[p].step = "voidApprovals" /\ req'[p].step = "voidApprovals"
          /\ \A q \in Procs : q # p => req'[q] = req[q]
          /\ events' = events /\ crashes' = crashes
      BY <2>0, <2>9 DEF VoidOne, At, Request
    <3> QED
      BY <3>2, <3>3, DecisionStays DEF At
  <2>10. ASSUME NEW p \in Procs, Crash(p)
         PROVE  DecisionInv'
    <3>1. req'[p].step = "idle" /\ \A q \in Procs : q # p => req'[q] = req[q]
      BY <2>0, <2>10, IdleIsRequest DEF Crash, Done, Idle
    <3>2. crashes' # 0
      BY <2>10 DEF Crash, TypeOK
    <3> QED
      BY <3>1, <3>2 DEF DecisionInv, At
  <2>11. CASE \/ \E to \in RoomState : MoveRoom(to)
              \/ \E a \in ApprovalIds : PassDeadline(a)
              \/ \E body \in Bodies : ExtendDetectors(body)
              \/ UNCHANGED vars
    BY <2>11, DecisionStays DEF MoveRoom, PassDeadline, ExtendDetectors, vars
  <2>12. ASSUME NEW a \in ApprovalIds, NEW body \in Bodies, EditHeldBody(a, body)
         PROVE  DecisionInv'
    <3>1. \A b \in ApprovalIds : approvals'[b].status = approvals[b].status
      BY <2>0, <2>12 DEF EditHeldBody, Approval
    <3> QED
      BY <2>12, <3>1, DecisionStays DEF EditHeldBody
  <2> QED
    BY <2>1, <2>2, <2>3, <2>4, <2>5, <2>6, <2>7, <2>8, <2>9, <2>10, <2>11, <2>12 DEF Next
<1>3. DecisionInv => NoDecisionLost
  BY DEF DecisionInv, NoDecisionLost, Told, At
<1> QED
  BY <1>1, <1>2, <1>3, TypeCorrect, PTL DEF Spec
-----------------------------------------------------------------------------
(* The one-shot grant that the service implements.                         *)
heldNow == [a \in ApprovalIds |-> HeldBy(a)]
logNow  == [i \in 1..Len(events) |-> EntryOf(events[i])]

(* The log grows by an entry for every event, and by none without.         *)
LEMMA LogGrows ==
  ASSUME events \in Seq(Event)
  PROVE  /\ Len(logNow) = Len(events)
         /\ \A i \in 1..Len(events) : logNow[i] = EntryOf(events[i])
         /\ events' = events => logNow' = logNow
         /\ \A e \in Event : events' = Append(events, e) => logNow' = Append(logNow, EntryOf(e))
<1> DEFINE n == Len(events)
<1>1. n \in Nat /\ logNow = [i \in 1..n |-> EntryOf(events[i])]
  BY DEF logNow
<1>2. Len(logNow) = n /\ DOMAIN logNow = 1..n
  BY <1>1
<1>3. ASSUME NEW e \in Event, events' = Append(events, e)
      PROVE  logNow' = Append(logNow, EntryOf(e))
  <2>1. Len(events') = n + 1 /\ \A i \in 1..(n + 1) :
          events'[i] = IF i = n + 1 THEN e ELSE events[i]
    BY <1>3
  <2>2. logNow' = [i \in 1..(n + 1) |-> EntryOf(events'[i])]
    BY <2>1 DEF logNow
  <2> DEFINE S == {EntryOf(x) : x \in Event}
  <2>3. Append(logNow, EntryOf(e)) =
          [i \in 1..(n + 1) |-> IF i = n + 1 THEN EntryOf(e) ELSE logNow[i]]
    <3>1. \A i \in 1..n : logNow[i] \in S
      BY <1>1
    <3>2. EntryOf(e) \in S /\ logNow \in [1..n -> S]
      BY <1>1, <3>1
    <3> HIDE DEF S
    <3>3. logNow \in Seq(S)
      BY <1>1, <3>2
    <3> DEFINE longer == Append(logNow, EntryOf(e))
    <3>4. /\ longer \in Seq(S) /\ Len(longer) = n + 1
          /\ \A i \in 1..(n + 1) : longer[i] = IF i = n + 1 THEN EntryOf(e) ELSE logNow[i]
      BY <1>1, <1>2, <3>2, <3>3
    <3> HIDE DEF longer
    <3>5. DOMAIN longer = 1..(n + 1) /\ longer = [i \in 1..(n + 1) |-> longer[i]]
      BY <3>4
    <3>6. longer = [i \in 1..(n + 1) |-> IF i = n + 1 THEN EntryOf(e) ELSE logNow[i]]
      BY <3>4, <3>5
    <3> QED
      BY <3>6 DEF longer
  <2>4. \A i \in 1..(n + 1) :
          EntryOf(events'[i]) = IF i = n + 1 THEN EntryOf(e) ELSE logNow[i]
    BY <1>1, <2>1
  <2> QED
    BY <2>2, <2>3, <2>4
<1> QED
  BY <1>1, <1>2, <1>3 DEF logNow

(* What is written of an approval is what its events say.                  *)
LEMMA WrittenIs ==
  ASSUME events \in Seq(Event), NEW a, NEW kinds
  PROVE  Grant!Written(a, kinds) <=> EventsOf(events, kinds, a) # {}
<1>1. Grant!Written(a, kinds) <=>
        \E i \in 1..Len(logNow) : logNow[i].grant = a /\ logNow[i].says \in kinds
  BY DEF Grant!Written, logNow
<1>2. ASSUME NEW i \in 1..Len(events)
      PROVE  logNow[i].grant = events[i].approval /\ logNow[i].says = events[i].type
  <2>1. logNow[i] = EntryOf(events[i])
    BY LogGrows
  <2> QED
    BY <2>1 DEF EntryOf
<1>3. Len(logNow) = Len(events)
  BY LogGrows
<1> QED
  BY <1>1, <1>2, <1>3 DEF EventsOf

(* A step that keeps the hash of every row that is there, and makes none,  *)
(* changes nothing that is held.                                           *)
LEMMA HeldStays ==
  ASSUME \A a \in ApprovalIds :
           /\ approvals'[a].status = "ABSENT" <=> approvals[a].status = "ABSENT"
           /\ approvals[a].status # "ABSENT" => approvals'[a].hash = approvals[a].hash
  PROVE  heldNow' = heldNow
<1>1. \A a \in ApprovalIds : HeldBy(a)' = HeldBy(a)
  BY DEF HeldBy
<1> QED
  BY <1>1 DEF heldNow

(* A claim changes neither the hash of a row nor whether it is there.      *)
LEMMA ClaimKeepsHeld ==
  ASSUME TypeOK, NEW p \in Procs, NEW step, NEW status \in ApprovalStatus \ {"ABSENT"}, NEW next,
         Claim(p, step, status, next)
  PROVE  heldNow' = heldNow /\ events' = events
<1>0. /\ approvals \in [ApprovalIds -> Approval] /\ req[p].id \in ApprovalIds
      /\ events' = events
  BY DEF TypeOK, Request, Claim
<1>1. \A row \in Approval :
        Claimed(row, status).status = status /\ Claimed(row, status).hash = row.hash
  BY DEF Claimed, Approval
<1>2. \A a \in ApprovalIds :
        /\ approvals'[a].status = "ABSENT" <=> approvals[a].status = "ABSENT"
        /\ approvals[a].status # "ABSENT" => approvals'[a].hash = approvals[a].hash
  BY <1>0, <1>1 DEF Claim
<1> QED
  BY <1>0, <1>2, HeldStays

(* Every step of the service is a step of the grant, or changes nothing of *)
(* it: an event that the grant could not write has no step to come from.   *)
LEMMA StepGrants ==
  IInv /\ [Next]_vars => [Grant!Next]_<<heldNow, logNow>>
<1> SUFFICES ASSUME IInv, [Next]_vars
             PROVE  Grant!Next \/ (heldNow' = heldNow /\ logNow' = logNow)
  OBVIOUS
<1>0. /\ TypeOK
      /\ events \in Seq(Event) /\ approvals \in [ApprovalIds -> Approval]
      /\ \A p \in Procs : req[p] \in Request
      /\ \A a \in ApprovalIds : heldNow[a] = HeldBy(a)
  BY DEF IInv, TypeOK, heldNow
<1>d. ASSUME UNCHANGED <<approvals, events>>
      PROVE  heldNow' = heldNow /\ logNow' = logNow
  BY <1>0, <1>d, HeldStays, LogGrows
<1>1. ASSUME NEW p \in Procs, NEW a \in ApprovalIds, CreateApproval(p, a)
      PROVE  Grant!Next
  <2>1. /\ approvals[a].status = "ABSENT" /\ events' = events
        /\ approvals' = [approvals EXCEPT ![a] = req[p].row]
        /\ req[p].row.status = "PENDING"
    BY <1>1 DEF CreateApproval, At, IInv, SnapshotHash, SnapshotIsRows
  <2> DEFINE c == req[p].row.hash
  <2>2. c \in {ParametersHash(b) : b \in Bodies \cup {NoBody}}
    BY <1>0 DEF Request, Approval
  <2>3. \A b \in ApprovalIds : HeldBy(b)' = IF b = a THEN {c} ELSE HeldBy(b)
    BY <1>0, <2>1 DEF HeldBy
  <2>4. heldNow[a] = {} /\ heldNow' = [heldNow EXCEPT ![a] = {c}]
    BY <2>1, <2>3 DEF heldNow, HeldBy
  <2>5. logNow' = logNow
    BY <1>0, <2>1, LogGrows
  <2> HIDE DEF c
  <2>6. Grant!Hold(a, c)
    BY <2>4, <2>5 DEF Grant!Hold, heldNow, logNow
  <2> QED
    BY <2>2, <2>6 DEF Grant!Next
<1>2. ASSUME NEW p \in Procs, NEW step, NEW e \in Event, NEW next, Emit(p, step, e, next),
             step \in Deciding \cup {"appendRequest", "appendAuthorized"},
             e.approval = req[p].id
      PROVE  /\ req[p].id \in ApprovalIds
             /\ Grant!Write(req[p].id, e.type, EntryOf(e).content)
  <2> DEFINE a == req[p].id
  <2>1. a \in ApprovalIds /\ events' = Append(events, e) /\ approvals' = approvals
    BY <1>0, <1>2 DEF Emit, Append1, Request
  <2>2. heldNow[a] # {}
    BY <1>0, <1>2, <2>1 DEF HeldBy, IInv, SnapshotHash, SnapshotIsRows, Emit, At
  <2>3. heldNow' = heldNow /\ logNow' = Append(logNow, EntryOf(e))
    BY <1>0, <2>1, LogGrows, HeldStays
  <2>4. EntryOf(e) = Grant!Entry(a, e.type, EntryOf(e).content)
    BY <1>2 DEF EntryOf, Grant!Entry
  <2> QED
    BY <2>1, <2>2, <2>3, <2>4 DEF Grant!Write, heldNow, logNow
<1>3. ASSUME NEW p \in Procs, AppendReleased(p)
      PROVE  Grant!Next
  <2> DEFINE a == req[p].id
             e == Content(a, req[p].row.body)
  <2>1. /\ e \in Event /\ e.type = "released" /\ e.approval = a
        /\ e.body = req[p].row.body
    BY <1>0 DEF Content, Event, EventType, Request, Approval
  <2>2. EntryOf(e).content = {ParametersHash(e.body)}
    BY <2>1 DEF EntryOf
  <2>3. a \in ApprovalIds /\ Grant!Write(a, "released", {ParametersHash(e.body)})
    BY <1>2, <1>3, <2>1, <2>2 DEF AppendReleased, Deciding
  <2>4. /\ approvals[a].status # "ABSENT" /\ approvals[a].hash = ParametersHash(e.body)
        /\ EventsOf(events, Decisions, a) = {}
    BY <1>3, <2>1 DEF AppendReleased, Emit, At, IInv, SnapshotHash, SnapshotIsRows,
                      ClaimIsExclusive, Deciding
  <2>5. heldNow[a] = {ParametersHash(e.body)}
    BY <1>0, <2>3, <2>4 DEF HeldBy
  <2>6. ~Grant!Written(a, Grant!Outcomes)
    BY <1>0, <2>4, WrittenIs DEF Grant!Outcomes, Decisions
  <2>7. Grant!Release(a)
    BY <2>3, <2>5, <2>6 DEF Grant!Release, heldNow
  <2> QED
    BY <2>3, <2>7 DEF Grant!Next
<1>4. ASSUME NEW p \in Procs, NEW step \in {"appendRejected", "appendRequest", "appendAuthorized"},
             NEW type \in EventType \ {"released"},
             Emit(p, step, SystemEvent(type, req[p].id), "idle")
      PROVE  /\ req[p].id \in ApprovalIds
             /\ Grant!Write(req[p].id, type, {})
  <2> DEFINE e == SystemEvent(type, req[p].id)
  <2>1. e \in Event /\ e.type = type /\ e.approval = req[p].id
    BY <1>0 DEF SystemEvent, Event, EventType, Request
  <2>2. EntryOf(e).content = {}
    BY <2>1 DEF EntryOf
  <2> QED
    BY <1>2, <1>4, <2>1, <2>2 DEF Deciding
<1>5. ASSUME NEW p \in Procs, AppendRejected(p)
      PROVE  Grant!Next
  <2>1. req[p].id \in ApprovalIds /\ Grant!Write(req[p].id, "action_rejected", {})
    BY <1>4, <1>5 DEF AppendRejected, EventType
  <2>2. EventsOf(events, Decisions, req[p].id) = {}
    BY <1>5 DEF AppendRejected, Emit, At, IInv, ClaimIsExclusive, Deciding
  <2>3. ~Grant!Written(req[p].id, Grant!Outcomes)
    BY <1>0, <2>2, WrittenIs DEF Grant!Outcomes, Decisions
  <2> QED
    BY <2>1, <2>3 DEF Grant!Next, Grant!Reject
<1>6. ASSUME NEW p \in Procs, AppendRequest(p)
      PROVE  Grant!Next
  <2>1. req[p].id \in ApprovalIds /\ Grant!Write(req[p].id, "approval_request", {})
    BY <1>4, <1>6 DEF AppendRequest, EventType
  <2> QED
    BY <2>1 DEF Grant!Next, Grant!Announce
<1>7. ASSUME NEW p \in Procs, AppendAuthorized(p)
      PROVE  Grant!Next
  <2>1. req[p].id \in ApprovalIds /\ Grant!Write(req[p].id, "action_authorized", {})
    BY <1>4, <1>7 DEF AppendAuthorized, EventType
  <2>2. EventsOf(events, {"released"}, req[p].id) # {}
    BY <1>7 DEF AppendAuthorized, Emit, At, IInv, AuthorizeAfterRelease
  <2>3. Grant!Written(req[p].id, {"released"})
    BY <1>0, <2>2, WrittenIs
  <2> QED
    BY <2>1, <2>3 DEF Grant!Next, Grant!Authorize
<1>8. ASSUME NEW p \in Procs, ClaimRejected(p) \/ ClaimInvalidated(p) \/ ClaimApproved(p)
      PROVE  heldNow' = heldNow /\ logNow' = logNow
  <2>1. heldNow' = heldNow /\ events' = events
    BY <1>0, <1>8, ClaimKeepsHeld DEF ClaimRejected, ClaimInvalidated, ClaimApproved,
                                      ApprovalStatus
  <2> QED
    BY <1>0, <2>1, LogGrows
<1>9. ASSUME NEW p \in Procs, MarkExpired(p)
      PROVE  heldNow' = heldNow /\ logNow' = logNow
  <2>1. /\ req[p].id \in ApprovalIds /\ approvals[req[p].id].status # "ABSENT"
        /\ req[p].row.hash = approvals[req[p].id].hash
    BY <1>0, <1>9 DEF IInv, SnapshotHash, SnapshotIsRows, MarkExpired, At, Request
  <2>2. /\ [req[p].row EXCEPT !.status = "EXPIRED"].status = "EXPIRED"
        /\ [req[p].row EXCEPT !.status = "EXPIRED"].hash = req[p].row.hash
    BY <1>0 DEF Request, Approval
  <2>3. \A a \in ApprovalIds :
          /\ approvals'[a].status = "ABSENT" <=> approvals[a].status = "ABSENT"
          /\ approvals'[a].hash = approvals[a].hash
    BY <1>0, <1>9, <2>1, <2>2 DEF MarkExpired
  <2>4. events' = events
    BY <1>9 DEF MarkExpired
  <2> QED
    BY <1>0, <2>3, <2>4, HeldStays, LogGrows
<1>10. ASSUME NEW p \in Procs, VoidOne(p)
       PROVE  heldNow' = heldNow /\ logNow' = logNow
  <2> PICK item \in req[p].todo :
        approvals' = [approvals EXCEPT ![item[1]] = [item[2] EXCEPT !.status = "INVALIDATED"]]
    BY <1>10 DEF VoidOne
  <2>1. /\ item[1] \in ApprovalIds /\ item[2] \in Approval
        /\ approvals[item[1]].status # "ABSENT" /\ item[2].hash = approvals[item[1]].hash
    BY <1>0 DEF IInv, SnapshotHash, SnapshotIsRows, Request
  <2>2. /\ [item[2] EXCEPT !.status = "INVALIDATED"].status = "INVALIDATED"
        /\ [item[2] EXCEPT !.status = "INVALIDATED"].hash = item[2].hash
    BY <2>1 DEF Approval
  <2>3. \A a \in ApprovalIds :
          /\ approvals'[a].status = "ABSENT" <=> approvals[a].status = "ABSENT"
          /\ approvals'[a].hash = approvals[a].hash
    BY <1>0, <2>1, <2>2
  <2>4. events' = events
    BY <1>10 DEF VoidOne
  <2> QED
    BY <1>0, <2>3, <2>4, HeldStays, LogGrows
<1>11. ASSUME NEW a \in ApprovalIds, NEW body \in Bodies, EditHeldBody(a, body)
       PROVE  heldNow' = heldNow /\ logNow' = logNow
  <2>1. \A b \in ApprovalIds : /\ approvals'[b].status = approvals[b].status
                               /\ approvals'[b].hash = approvals[b].hash
    BY <1>0, <1>11 DEF EditHeldBody, Approval
  <2>2. events' = events
    BY <1>11 DEF EditHeldBody
  <2> QED
    BY <1>0, <2>1, <2>2, HeldStays, LogGrows
<1>12. ASSUME NEW p \in Procs,
              \/ (\E body \in Bodies : HoldBegin(p, body))
              \/ (\E a \in ApprovalIds : DecideBegin(p, a))
              \/ CloseBegin(p) \/ ListApprovals(p) \/ CloseDone(p) \/ Crash(p)
       PROVE  heldNow' = heldNow /\ logNow' = logNow
  BY <1>12, <1>d DEF HoldBegin, DecideBegin, CloseBegin, ListApprovals, CloseDone, Crash
<1>13. ASSUME \/ (\E to \in RoomState : MoveRoom(to))
              \/ (\E a \in ApprovalIds : PassDeadline(a))
              \/ (\E body \in Bodies : ExtendDetectors(body))
              \/ UNCHANGED vars
       PROVE  heldNow' = heldNow /\ logNow' = logNow
  BY <1>13, <1>d DEF MoveRoom, PassDeadline, ExtendDetectors, vars
<1> QED
  BY <1>1, <1>3, <1>5, <1>6, <1>7, <1>8, <1>9, <1>10, <1>11, <1>12, <1>13 DEF Next

(* The approval service implements the one-shot grant, entry by entry:     *)
(* whichever requests race, wherever they crash, and whoever writes the    *)
(* row without the atomic claim, a second release, a release after a       *)
(* refusal, one of something never held or of another content than was     *)
(* held, or an authorization of nothing is a step it never takes.          *)
THEOREM GrantRefinement == Spec => ImplementsGrant
<1>1. Init => Grant!Init
  <2> SUFFICES ASSUME Init
               PROVE  heldNow = [a \in ApprovalIds |-> {}] /\ logNow = <<>>
    BY DEF Grant!Init, heldNow, logNow
  <2>1. \A a \in ApprovalIds : HeldBy(a) = {}
    BY DEF Init, HeldBy, NoApproval, HeldRow
  <2>2. Len(events) = 0
    BY DEF Init
  <2> QED
    BY <2>1, <2>2 DEF heldNow, logNow
<1>2. IInv /\ [Next]_vars =>
        [Grant!Next]_<<[a \in ApprovalIds |-> HeldBy(a)],
                       [i \in 1..Len(events) |-> EntryOf(events[i])]>>
  BY StepGrants DEF heldNow, logNow
<1> QED
  BY <1>1, <1>2, InvariantHolds, PTL DEF Spec, ImplementsGrant, Grant!Spec

=============================================================================
