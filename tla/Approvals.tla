------------------------------ MODULE Approvals ------------------------------
(***************************************************************************)
(* The human approval service (packages/core/src/approvals.ts) over the    *)
(* approvals table and the room's event stream, together with the two      *)
(* other writers of that table: the pipeline, which holds a candidate      *)
(* event (pipeline.ts handleRequiresApproval), and closeRoom (rooms.ts),   *)
(* which voids what is outstanding.                                        *)
(*                                                                         *)
(* Every element of Procs is a slot for one HTTP request or agent turn in  *)
(* flight.  A handler is a sequence of store calls; each store call is one *)
(* action, so any two requests interleave between any two `await`s.  The   *)
(* reads a handler does before its first write are one action.  Crash      *)
(* loses a request at any point: the process dies and nothing resumes it.  *)
(*                                                                         *)
(* Other room handlers move the room along `canTransition`; they are one   *)
(* action here (MoveRoom), detailed in RoomSetup and RoomExecution.        *)
(***************************************************************************)
EXTENDS RoomStates, Naturals, Sequences

CONSTANTS ApprovalIds,  \* primary keys of the approvals table
          Bodies,       \* candidate event bodies
          NoBody,       \* the body of a system event, and of no row
          Procs,        \* requests in flight at the same time
          MaxCrashes    \* bound on the number of crashes

ASSUME ApprovalsAssumption ==
  /\ ApprovalIds # {}
  /\ NoBody \notin Bodies
  /\ MaxCrashes \in Nat

VARIABLES
  room,       \* rooms.state
  approvals,  \* the approvals table
  due,        \* the approvals whose expiresAt lies in the past
  flagged,    \* the bodies in which the deployed detectors find a secret
  events,     \* the room's event stream, as far as approvals write it
  req,        \* the requests in flight: next store call, and what was read
  crashes,    \* number of crashes so far
  late        \* history: the approvals held after closeRoom has listed what to void

vars == <<room, approvals, due, flagged, events, req, crashes, late>>

-----------------------------------------------------------------------------
(* Rows, events and requests.                                              *)

ApprovalStatus == {"ABSENT", "PENDING", "APPROVED", "REJECTED", "EXPIRED", "INVALIDATED"}

(* SHA-256 of the canonicalised body: injective, and not the body.         *)
ParametersHash(body) == <<"sha256", body>>

Approval == [status   : ApprovalStatus,
             body     : Bodies \cup {NoBody},
             hash     : {ParametersHash(b) : b \in Bodies \cup {NoBody}},
             consumed : BOOLEAN]

HeldRow(status, body) ==
  [status |-> status, body |-> body, hash |-> ParametersHash(body), consumed |-> FALSE]

NoApproval == HeldRow("ABSENT", NoBody)

EventType == {"approval_request", "released", "action_rejected", "action_authorized"}

Event == [type : EventType, approval : ApprovalIds, body : Bodies \cup {NoBody}]

SystemEvent(type, a) == [type |-> type, approval |-> a, body |-> NoBody]
Content(a, body)     == [type |-> "released", approval |-> a, body |-> body]

Step == {"idle", "createApproval", "appendRequest",
         "markExpired", "claimRejected", "appendRejected", "claimInvalidated",
         "claimApproved", "appendReleased", "appendAuthorized",
         "listApprovals", "voidApprovals"}

(* `row` is the row the request read or is about to insert; `todo` is what *)
(* is left of the list that closeRoom loops over.                          *)
Request == [step : Step, id : ApprovalIds, row : Approval,
            todo : SUBSET (ApprovalIds \X Approval)]

AnyId == CHOOSE a \in ApprovalIds : TRUE
Idle  == [step |-> "idle", id |-> AnyId, row |-> NoApproval, todo |-> {}]

TypeOK ==
  /\ room \in RoomState
  /\ approvals \in [ApprovalIds -> Approval]
  /\ due \subseteq ApprovalIds
  /\ flagged \subseteq Bodies
  /\ events \in Seq(Event)
  /\ req \in [Procs -> Request]
  /\ crashes \in Nat
  /\ late \subseteq ApprovalIds

Init ==
  /\ room = "ACTIVE"
  /\ approvals = [a \in ApprovalIds |-> NoApproval]
  /\ due = {}
  /\ flagged = {}
  /\ events = <<>>
  /\ req = [p \in Procs |-> Idle]
  /\ crashes = 0
  /\ late = {}

-----------------------------------------------------------------------------
(* Pieces of a handler.                                                    *)

At(p, step) == req[p].step = step
Goto(p, step) == req' = [req EXCEPT ![p].step = step]
Done(p) == req' = [req EXCEPT ![p] = Idle]

Append1(event) == events' = Append(events, event)

(* Only an approving claim sets consumedAt.                                *)
Claimed(row, status) ==
  [row EXCEPT !.status = status,
              !.consumed = IF status = "APPROVED" THEN TRUE ELSE row.consumed]

(* Seeded fault: the claim does not look at the status.                    *)
ClaimAnyway(p, step, status, next) ==
  /\ At(p, step)
  /\ approvals' = [approvals EXCEPT ![req[p].id] = Claimed(@, status)]
  /\ IF next = "idle" THEN Done(p) ELSE Goto(p, next)
  /\ UNCHANGED <<room, due, flagged, events, crashes, late>>

(* claimApproval: UPDATE ... WHERE id = ? AND status = 'PENDING'.  A       *)
(* request that loses the claim fails with CONFLICT.                       *)
Claim(p, step, status, next) ==
  LET a == req[p].id IN
  /\ At(p, step)
  /\ \/ /\ approvals[a].status = "PENDING"
        /\ approvals' = [approvals EXCEPT ![a] = Claimed(@, status)]
        /\ IF next = "idle" THEN Done(p) ELSE Goto(p, next)
     \/ /\ approvals[a].status # "PENDING"
        /\ Done(p)
        /\ UNCHANGED approvals
  /\ UNCHANGED <<room, due, flagged, events, crashes, late>>

(* One appendRoomEvent of the handler that p runs.                         *)
Emit(p, step, event, next) ==
  /\ At(p, step)
  /\ Append1(event)
  /\ IF next = "idle" THEN Done(p) ELSE Goto(p, next)
  /\ UNCHANGED <<room, approvals, due, flagged, crashes, late>>

-----------------------------------------------------------------------------
(* handleRequiresApproval: the pipeline read a routing room and policy     *)
(* asked for a human; the row and its approval_request event follow.       *)
(* Nobody reads the room again in between.                                 *)

HoldBegin(p, body) ==
  /\ At(p, "idle")
  /\ room \in Routing
  /\ body \notin flagged
  /\ req' = [req EXCEPT ![p] = [Idle EXCEPT !.step = "createApproval",
                                            !.row = HeldRow("PENDING", body)]]
  /\ UNCHANGED <<room, approvals, due, flagged, events, crashes, late>>

CreateApproval(p, a) ==
  /\ At(p, "createApproval")
  /\ approvals[a].status = "ABSENT"
  /\ approvals' = [approvals EXCEPT ![a] = req[p].row]
  /\ req' = [req EXCEPT ![p].step = "appendRequest", ![p].id = a]
  /\ late' = IF room = "CLOSED" /\ \A q \in Procs : ~At(q, "listApprovals")
             THEN late \cup {a} ELSE late
  /\ UNCHANGED <<room, due, flagged, events, crashes>>

AppendRequest(p) ==
  Emit(p, "appendRequest", SystemEvent("approval_request", req[p].id), "idle")

-----------------------------------------------------------------------------
(* decideApproval: the reads and checks pick the first write.  A decided   *)
(* approval makes the call fail, which changes nothing.                    *)

(* Seeded fault: the hash is not compared.                                 *)
ReleasableUnhashed(row) == row.body \notin flagged

Releasable(row) == row.hash = ParametersHash(row.body) /\ row.body \notin flagged

FirstWrites(a) ==
  IF a \in due
  THEN {"markExpired"}
  ELSE {"claimRejected",
        IF Releasable(approvals[a]) THEN "claimApproved" ELSE "claimInvalidated"}

DecideBegin(p, a) ==
  /\ At(p, "idle")
  /\ approvals[a].status = "PENDING"
  /\ \E step \in FirstWrites(a) :
       req' = [req EXCEPT ![p] = [step |-> step, id |-> a, row |-> approvals[a], todo |-> {}]]
  /\ UNCHANGED <<room, approvals, due, flagged, events, crashes, late>>

(* updateApproval writes the whole row from the snapshot, unconditionally. *)
MarkExpired(p) ==
  /\ At(p, "markExpired")
  /\ approvals' = [approvals EXCEPT ![req[p].id] = [req[p].row EXCEPT !.status = "EXPIRED"]]
  /\ Done(p)
  /\ UNCHANGED <<room, due, flagged, events, crashes, late>>

ClaimRejected(p)    == Claim(p, "claimRejected", "REJECTED", "appendRejected")
ClaimInvalidated(p) == Claim(p, "claimInvalidated", "INVALIDATED", "idle")

(* Seeded fault: a claim that is not followed by its release.              *)
ClaimApprovedOnly(p) == Claim(p, "claimApproved", "APPROVED", "idle")

ClaimApproved(p) == Claim(p, "claimApproved", "APPROVED", "appendReleased")

AppendRejected(p) ==
  Emit(p, "appendRejected", SystemEvent("action_rejected", req[p].id), "idle")

(* Seeded fault: the release is tried again after it was written.          *)
AppendReleasedTwice(p) ==
  \E next \in {"appendReleased", "appendAuthorized"} :
    Emit(p, "appendReleased", Content(req[p].id, req[p].row.body), next)

(* What is released is the body of the snapshot, not of the claimed row.   *)
AppendReleased(p) ==
  Emit(p, "appendReleased", Content(req[p].id, req[p].row.body), "appendAuthorized")

AppendAuthorized(p) ==
  Emit(p, "appendAuthorized", SystemEvent("action_authorized", req[p].id), "idle")

-----------------------------------------------------------------------------
(* closeRoom, from the write of CLOSED on.                                 *)

CloseBegin(p) ==
  /\ At(p, "idle")
  /\ CanTransition(room, "CANCELED") \/ CanTransition(room, "CLOSED")
  /\ room' = "CLOSED"
  /\ req' = [req EXCEPT ![p] = [Idle EXCEPT !.step = "listApprovals"]]
  /\ UNCHANGED <<approvals, due, flagged, events, crashes, late>>

ListApprovals(p) ==
  /\ At(p, "listApprovals")
  /\ req' = [req EXCEPT ![p].step = "voidApprovals",
                        ![p].todo = {<<a, approvals[a]>> :
                                       a \in {x \in ApprovalIds : approvals[x].status = "PENDING"}}]
  /\ UNCHANGED <<room, approvals, due, flagged, events, crashes, late>>

(* Seeded fault: the row is written back as it was read.                   *)
VoidOneUnvoided(p) ==
  /\ At(p, "voidApprovals")
  /\ \E item \in req[p].todo :
       /\ approvals' = [approvals EXCEPT ![item[1]] = item[2]]
       /\ req' = [req EXCEPT ![p].todo = @ \ {item}]
  /\ UNCHANGED <<room, due, flagged, events, crashes, late>>

VoidOne(p) ==
  /\ At(p, "voidApprovals")
  /\ \E item \in req[p].todo :
       /\ approvals' = [approvals EXCEPT ![item[1]] = [item[2] EXCEPT !.status = "INVALIDATED"]]
       /\ req' = [req EXCEPT ![p].todo = @ \ {item}]
  /\ UNCHANGED <<room, due, flagged, events, crashes, late>>

CloseDone(p) ==
  /\ At(p, "voidApprovals")
  /\ req[p].todo = {}
  /\ Done(p)
  /\ UNCHANGED <<room, approvals, due, flagged, events, crashes, late>>

-----------------------------------------------------------------------------
(* The surroundings.                                                       *)

(* pause, resume, cancel, quarantine, completion.                          *)
MoveRoom(to) ==
  /\ to # "CLOSED"
  /\ CanTransition(room, to)
  /\ room' = to
  /\ UNCHANGED <<approvals, due, flagged, events, req, crashes, late>>

(* 24 hours pass.                                                          *)
PassDeadline(a) ==
  /\ approvals[a].status # "ABSENT"
  /\ a \notin due
  /\ due' = due \cup {a}
  /\ UNCHANGED <<room, approvals, flagged, events, req, crashes, late>>

(* A deployment ships a detector that finds a secret in `body`.            *)
ExtendDetectors(body) ==
  /\ body \notin flagged
  /\ flagged' = flagged \cup {body}
  /\ UNCHANGED <<room, approvals, due, events, req, crashes, late>>

(* Something other than this code edits the held parameters of a row.      *)
EditHeldBody(a, body) ==
  /\ approvals[a].status = "PENDING"
  /\ approvals[a].body # body
  /\ approvals' = [approvals EXCEPT ![a].body = body]
  /\ UNCHANGED <<room, due, flagged, events, req, crashes, late>>

Crash(p) ==
  /\ crashes < MaxCrashes
  /\ ~At(p, "idle")
  /\ crashes' = crashes + 1
  /\ Done(p)
  /\ UNCHANGED <<room, approvals, due, flagged, events, late>>

Next ==
  \/ \E p \in Procs :
       \/ \E body \in Bodies : HoldBegin(p, body)
       \/ \E a \in ApprovalIds : CreateApproval(p, a) \/ DecideBegin(p, a)
       \/ AppendRequest(p)
       \/ MarkExpired(p)
       \/ ClaimRejected(p) \/ ClaimInvalidated(p) \/ ClaimApproved(p)
       \/ AppendRejected(p) \/ AppendReleased(p) \/ AppendAuthorized(p)
       \/ CloseBegin(p) \/ ListApprovals(p) \/ VoidOne(p) \/ CloseDone(p)
       \/ Crash(p)
  \/ \E to \in RoomState : MoveRoom(to)
  \/ \E a \in ApprovalIds : PassDeadline(a)
  \/ \E body \in Bodies : ExtendDetectors(body)
  \/ \E a \in ApprovalIds, body \in Bodies : EditHeldBody(a, body)

Spec == Init /\ [][Next]_vars

-----------------------------------------------------------------------------
(* Properties.                                                             *)

EventsOf(stream, types, a) ==
  {i \in 1..Len(stream) : stream[i].type \in types /\ stream[i].approval = a}

(* An approval is decided at most once: over the whole life of the room    *)
(* its event stream carries at most one release or rejection of the same   *)
(* approval, whatever requests race, whatever crashes, and although two    *)
(* writers of the row (expiry and closeRoom) do not use the atomic claim.  *)
DecidedOnce ==
  \A a \in ApprovalIds :
    \A i, j \in EventsOf(events, {"released", "action_rejected"}, a) : i = j

(* While a row says PENDING nothing of it is in the event stream and no    *)
(* request is about to put it there: a human looking at a pending approval *)
(* looks at content that has not left the organisation.                    *)
PendingIsUndecided ==
  \A a \in ApprovalIds : approvals[a].status = "PENDING" =>
    /\ EventsOf(events, {"released", "action_rejected", "action_authorized"}, a) = {}
    /\ \A p \in Procs : req[p].id = a =>
         req[p].step \notin {"appendReleased", "appendRejected", "appendAuthorized"}

(* What reaches the peer is what was held: the released body has the hash  *)
(* that was stored when the agent proposed it, even when the stored body   *)
(* is edited before, while or after the decision is made.                  *)
ReleasedAsProposed ==
  \A i \in 1..Len(events) : events[i].type = "released" =>
    approvals[events[i].approval].hash = ParametersHash(events[i].body)

(* An action_authorized event always has its release before it.            *)
AuthorizedAfterRelease ==
  \A i \in 1..Len(events) : events[i].type = "action_authorized" =>
    \E j \in 1..(i-1) : events[j].type = "released" /\ events[j].approval = events[i].approval

(* Without crashes no decision is lost: when nothing is in flight, an      *)
(* APPROVED row has its release in the stream, a REJECTED row its notice.  *)
NoDecisionLost ==
  crashes = 0 /\ (\A p \in Procs : At(p, "idle")) =>
    \A a \in ApprovalIds :
      /\ approvals[a].status = "APPROVED" => EventsOf(events, {"released"}, a) # {}
      /\ approvals[a].status = "REJECTED" => EventsOf(events, {"action_rejected"}, a) # {}

(* Closing a room leaves no approval that somebody could still grant, but  *)
(* those held by a submission that had read a running room, after          *)
(* closeRoom has listed what to void: these stay, and are released into    *)
(* the closed room if a human approves them.                               *)
Closing == \E p \in Procs : req[p].step \in {"listApprovals", "voidApprovals"}

ClosedUnlessLate ==
  room = "CLOSED" /\ crashes = 0 /\ ~Closing =>
    \A a \in ApprovalIds : approvals[a].status = "PENDING" => a \in late

(* The service implements the one-shot grant: entry by entry, its stream   *)
(* is a log in which a held content is let go at most once, unchanged,     *)
(* after it was held, never after a refusal, and authorized only after it  *)
(* was let go.  A second release event is a step that the grant has not.   *)
HeldBy(a) == IF approvals[a].status = "ABSENT" THEN {} ELSE {approvals[a].hash}

EntryOf(e) ==
  [grant   |-> e.approval,
   says    |-> e.type,
   content |-> IF e.type = "released" THEN {ParametersHash(e.body)} ELSE {}]

Grant == INSTANCE SingleUseGrant
           WITH Grants   <- ApprovalIds,
                Contents <- {ParametersHash(b) : b \in Bodies \cup {NoBody}},
                held     <- [a \in ApprovalIds |-> HeldBy(a)],
                log      <- [i \in 1..Len(events) |-> EntryOf(events[i])]

ImplementsGrant == Grant!Spec

-----------------------------------------------------------------------------
(* The inductive invariant behind DecidedOnce and ReleasedAsProposed.      *)

Deciding  == {"appendReleased", "appendRejected"}
Decisions == {"released", "action_rejected"}

(* An approval not yet decided has left no trace, and nobody holds its     *)
(* claim.                                                                  *)
UndecidedIsUntouched ==
  \A a \in ApprovalIds : approvals[a].status \in {"ABSENT", "PENDING"} =>
    /\ EventsOf(events, Decisions \cup {"action_authorized"}, a) = {}
    /\ \A p \in Procs : req[p].id = a => req[p].step \notin Deciding \cup {"appendAuthorized"}

(* The winner of a claim is alone with it until it has written its event.  *)
ClaimIsExclusive ==
  \A p \in Procs : req[p].step \in Deciding =>
    /\ EventsOf(events, Decisions, req[p].id) = {}
    /\ \A q \in Procs : q # p /\ req[q].step \in Deciding => req[q].id # req[p].id

AuthorizeAfterRelease ==
  \A p \in Procs : At(p, "appendAuthorized") => EventsOf(events, {"released"}, req[p].id) # {}

(* What a request read may be stale, but its hash is still the row's, and  *)
(* a body that may be released has it.                                     *)
SnapshotIsRows(p) ==
  /\ req[p].step \in Deciding \cup {"appendRequest", "appendAuthorized", "markExpired",
                                    "claimRejected", "claimInvalidated", "claimApproved"} =>
       /\ approvals[req[p].id].status # "ABSENT"
       /\ req[p].row.hash = approvals[req[p].id].hash
  /\ req[p].step = "createApproval" => req[p].row.status = "PENDING"
  /\ req[p].step \in {"claimApproved", "appendReleased"} =>
       req[p].row.hash = ParametersHash(req[p].row.body)
  /\ \A item \in req[p].todo :
       /\ approvals[item[1]].status # "ABSENT"
       /\ item[2].hash = approvals[item[1]].hash

SnapshotHash == \A p \in Procs : SnapshotIsRows(p)

IInv ==
  /\ TypeOK
  /\ UndecidedIsUntouched
  /\ ClaimIsExclusive
  /\ AuthorizeAfterRelease
  /\ SnapshotHash
  /\ DecidedOnce
  /\ ReleasedAsProposed
  /\ AuthorizedAfterRelease

=============================================================================
