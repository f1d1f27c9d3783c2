-------------------------- MODULE RoomSetup_proofs --------------------------
(***************************************************************************)
(* Proofs about the set-up of a room, for every set of organisations and   *)
(* invitations, every number of contract versions, of requests that        *)
(* overlap and of crashes: types are kept, and so is what readiness and    *)
(* the seats rest on at least, whatever rows are written over.             *)
(***************************************************************************)
EXTENDS RoomSetup, FiniteSetTheorems, SequenceTheorems, TLAPS

(* A contract version to insert has been bounded when it was chosen.       *)
VersionsBounded == \A p \in Procs : req[p].version <= MaxVersions

-----------------------------------------------------------------------------
(* Two requests that differ in what a guided request has yet to do only.   *)
SameWork(r, s) ==
  /\ r.step = s.step /\ r.then = s.then /\ r.room = s.room /\ r.org = s.org /\ r.part = s.part
  /\ r.invite = s.invite /\ r.inviteRow = s.inviteRow /\ r.version = s.version
  /\ r.stale = s.stale /\ r.open = s.open

(* The slot of p now holds the request r, as far as one handler goes.      *)
Slot(p, r) ==
  /\ req' \in [Procs -> Request]
  /\ SameWork(req'[p], r)
  /\ \A q \in Procs \ {p} : req'[q] = req[q]

(* The rows that everything starts from.                                   *)
LEMMA FirstRows ==
  /\ Fresh \in RoomRow /\ Fresh.state = "DRAFT" /\ Fresh.started = FALSE
  /\ Absent \in Participant /\ Absent.joined = FALSE /\ Absent.approved = 0
  /\ Joined \in Participant /\ Joined.joined = TRUE /\ Joined.approved = 0
  /\ NoInvite \in Invite /\ NoInvite.by = "nobody" /\ NoInvite.redemptions = 0
  /\ NoInvite.revoked = FALSE
  <1>1. Fresh \in RoomRow /\ Fresh.state = "DRAFT" /\ Fresh.started = FALSE
    BY DEF Fresh, RoomRow, RoomState
  <1>2. Absent \in Participant /\ Absent.joined = FALSE /\ Absent.approved = 0
    BY RoomSetupAssumption DEF Absent, Participant
  <1>3. Joined \in Participant /\ Joined.joined = TRUE /\ Joined.approved = 0
    BY <1>2 DEF Joined, Participant
  <1>4. NoInvite \in Invite /\ NoInvite.by = "nobody" /\ NoInvite.redemptions = 0
        /\ NoInvite.revoked = FALSE
    BY DEF NoInvite, Invite
  <1> QED
    BY <1>1, <1>2, <1>3, <1>4

(* An idle slot is a request.                                              *)
LEMMA IdleIsRequest ==
  /\ Idle \in Request
  /\ Idle.step = "idle" /\ Idle.then = "idle" /\ Idle.version = 0 /\ Idle.plan = <<>>
  <1>1. (CHOOSE i \in Invites : TRUE) \in Invites /\ Creator \in Orgs
    BY RoomSetupAssumption
  <1>2. <<>> \in Seq(Handler)
    OBVIOUS
  <1>3. "idle" \in Step
    BY DEF Step
  <1>4. Idle \in Request
    BY <1>1, <1>2, <1>3, FirstRows DEF Idle, Request
  <1>5. Idle.step = "idle" /\ Idle.then = "idle" /\ Idle.version = 0 /\ Idle.plan = <<>>
    BY DEF Idle
  <1> QED
    BY <1>4, <1>5

(* What ending a request, moving it on, beginning one or calling the next  *)
(* handler of a guided one does to the slots.                              *)
LEMMA Moves ==
  ASSUME req \in [Procs -> Request], NEW p \in Procs
  PROVE  /\ Done(p) \/ Fail(p) => Slot(p, Idle)
         /\ \A s \in Step : Goto(p, s) => Slot(p, [req[p] EXCEPT !.step = s])
         /\ \A r \in Request :
              /\ Begin(p, r) => Slot(p, r) /\ req[p].step = "idle"
              /\ req' = [req EXCEPT ![p] = r] => Slot(p, r)
              /\ \A handler, o : Call(p, handler, o, r) => Slot(p, r) /\ req[p].step = "idle"
  <1>0. req[p] \in Request /\ req[p].plan \in Seq(Handler)
    BY DEF Request
  <1>1. ASSUME NEW r \in Request, req' = [req EXCEPT ![p] = r]
        PROVE  Slot(p, r)
    BY <1>1 DEF Slot, SameWork
  <1>2. ASSUME NEW r \in Request, NEW plan \in Seq(Handler), NEW s \in Request,
               s = [Follow(r, req[p]) EXCEPT !.plan = plan] \/ s = Follow(r, req[p]),
               req' = [req EXCEPT ![p] = s]
        PROVE  Slot(p, r)
    <2>1. Slot(p, s)
      BY <1>1, <1>2
    <2>2. SameWork(s, r)
      BY <1>0, <1>2 DEF Follow, Request, SameWork
    <2> QED
      BY <2>1, <2>2 DEF Slot, SameWork
  <1>3. ASSUME NEW r \in Request
        PROVE  /\ Follow(r, req[p]) \in Request
               /\ \A plan \in Seq(Handler) : [Follow(r, req[p]) EXCEPT !.plan = plan] \in Request
    BY <1>0 DEF Follow, Request
  <1>4. ASSUME Done(p) \/ Fail(p)
        PROVE  Slot(p, Idle)
    <2>1. \/ req' = [req EXCEPT ![p] = Idle]
          \/ req' = [req EXCEPT ![p] = Follow(Idle, req[p])]
      BY <1>4 DEF Done, Fail
    <2> QED
      BY <1>0, <1>1, <1>2, <1>3, <2>1, IdleIsRequest
  <1>5. ASSUME NEW s \in Step, Goto(p, s)
        PROVE  Slot(p, [req[p] EXCEPT !.step = s])
    <2>1. [req[p] EXCEPT !.step = s] \in Request
      BY <1>0 DEF Request
    <2> QED
      BY <1>1, <1>5, <2>1 DEF Goto
  <1>6. ASSUME NEW r \in Request, Begin(p, r)
        PROVE  Slot(p, r) /\ req[p].step = "idle"
    BY <1>1, <1>6 DEF Begin, At
  <1>7. ASSUME NEW r \in Request, NEW handler, NEW o, Call(p, handler, o, r)
        PROVE  Slot(p, r) /\ req[p].step = "idle"
    <2>1. CASE Guided(p)
      <3>1. Tail(req[p].plan) \in Seq(Handler)
        BY <1>0, <2>1 DEF Guided
      <3>2. req' = [req EXCEPT ![p] = [Follow(r, req[p]) EXCEPT !.plan = Tail(req[p].plan)]]
        BY <1>0, <1>7, <2>1 DEF Call
      <3> QED
        BY <1>2, <1>3, <1>7, <3>1, <3>2 DEF Call, At
    <2>2. CASE ~Guided(p)
      BY <1>1, <1>7, <2>2 DEF Call, At
    <2> QED
      BY <2>1, <2>2
  <1> QED
    BY <1>1, <1>4, <1>5, <1>6, <1>7

(* A request that is about to move the room.                               *)
LEMMA TransitionIs ==
  ASSUME NEW r \in Request, NEW to \in RoomState, NEW then \in Step
  PROVE  /\ Transition(r, to, then) \in Request
         /\ Transition(r, to, then).step = "writeRoom" /\ Transition(r, to, then).then = then
         /\ Transition(r, to, then).room = Moved(r.room, to)
         /\ Transition(r, to, then).org = r.org /\ Transition(r, to, then).stale = r.stale
         /\ Moved(r.room, to).state = to /\ Moved(r.room, to).started = r.room.started
  <1>1. r.room \in RoomRow
    BY DEF Request
  <1>2. /\ Moved(r.room, to) \in RoomRow
        /\ Moved(r.room, to).state = to /\ Moved(r.room, to).started = r.room.started
    BY <1>1 DEF Moved, RoomRow
  <1>3. "writeRoom" \in Step
    BY DEF Step
  <1>4. Transition(r, to, then) = [r EXCEPT !.step = "writeRoom", !.then = then,
                                            !.room = Moved(r.room, to)]
    BY DEF Transition
  <1> QED
    BY <1>2, <1>3, <1>4 DEF Request

-----------------------------------------------------------------------------
(* The request that each action leaves in the slot of p.                   *)
Redeeming(o, i) == [Idle EXCEPT !.step = "useInvite", !.org = o, !.room = room, !.invite = i,
                                !.inviteRow = invites[i]]
Updating(o, row) == [Idle EXCEPT !.step = "writePart", !.org = o, !.part = row]
Moving(to, then) == Transition([Idle EXCEPT !.room = room], to, then)
Invited(p, i) ==
  LET r == [req[p] EXCEPT !.invite = i, !.step = "sendToken"] IN
  IF r.room.state = "DRAFT" THEN Transition(r, "INVITED", "sendToken") ELSE r
Stale == {<<o, parts[o]>> : o \in {m \in Members : parts[m].approved # 0}}
Open == {<<i, invites[i]>> :
           i \in {j \in Invites : /\ invites[j].by # "nobody"
                                  /\ ~invites[j].revoked
                                  /\ invites[j].redemptions = 0}}

(* Beginning a handler that works on an invitation or a participant.       *)
LEMMA Beginnings ==
  ASSUME TypeOK, NEW p \in Procs, NEW o \in Orgs, NEW i \in Invites
  PROVE  /\ CreateInviteBegin(p, o) =>
              Slot(p, [Idle EXCEPT !.step = "createInvite", !.org = o, !.room = room])
         /\ RedeemBegin(p, o, i) \/ AcceptInvitation(p, o, i) => Slot(p, Redeeming(o, i))
         /\ ProposeBegin(p, o) =>
              Slot(p, [Idle EXCEPT !.step = "createVersion", !.version = versions + 1])
         /\ ApproveContract(p, o) =>
              Slot(p, Updating(o, [parts[o] EXCEPT !.approved = versions]))
         /\ SetParticipantPolicy(p, o) =>
              Slot(p, Updating(o, [parts[o] EXCEPT !.policy = TRUE]))
         /\ ConnectAgent(p, o) =>
              Slot(p, Updating(o, [parts[o] EXCEPT !.agent = TRUE]))
  <1>0. /\ req \in [Procs -> Request] /\ room \in RoomRow /\ versions \in 0..MaxVersions
        /\ parts[o] \in Participant /\ invites[i] \in Invite /\ Idle \in Request
    BY IdleIsRequest DEF TypeOK
  <1>1. {"createInvite", "useInvite", "createVersion", "writePart"} \subseteq Step
    BY DEF Step
  <1>2. ASSUME CreateInviteBegin(p, o)
        PROVE  Slot(p, [Idle EXCEPT !.step = "createInvite", !.org = o, !.room = room])
    <2> DEFINE r == [Idle EXCEPT !.step = "createInvite", !.org = o, !.room = room]
    <2>1. r \in Request
      BY <1>0, <1>1 DEF Request
    <2>2. Call(p, "invite", o, r)
      BY <1>2 DEF CreateInviteBegin
    <2> HIDE DEF r
    <2>3. Slot(p, r)
      BY <1>0, <2>1, <2>2, Moves
    <2> QED
      BY <2>3 DEF r
  <1>3. ASSUME NEW plan \in Seq(Handler), Redeem(p, o, i, plan)
        PROVE  Slot(p, Redeeming(o, i))
    <2> DEFINE r == [Idle EXCEPT !.step = "useInvite", !.org = o, !.room = room, !.invite = i,
                                 !.inviteRow = invites[i], !.plan = plan, !.caller = o]
    <2>1. r \in Request
      BY <1>0, <1>1 DEF Request
    <2>2. Begin(p, r)
      BY <1>3 DEF Redeem
    <2>3. SameWork(r, Redeeming(o, i))
      BY <1>0 DEF SameWork, Redeeming, Request
    <2> HIDE DEF r
    <2>4. Slot(p, r)
      BY <1>0, <2>1, <2>2, Moves
    <2> QED
      BY <2>3, <2>4 DEF Slot, SameWork
  <1>4. ASSUME RedeemBegin(p, o, i) \/ AcceptInvitation(p, o, i)
        PROVE  Slot(p, Redeeming(o, i))
    <2>1. <<>> \in Seq(Handler) /\ <<"readContract">> \in Seq(Handler)
      BY DEF Handler
    <2> QED
      BY <1>3, <1>4, <2>1 DEF RedeemBegin, AcceptInvitation
  <1>5. ASSUME ProposeBegin(p, o)
        PROVE  Slot(p, [Idle EXCEPT !.step = "createVersion", !.version = versions + 1])
    <2> DEFINE r == [Idle EXCEPT !.step = "createVersion", !.version = versions + 1]
    <2>0. versions + 1 \in Nat
      BY <1>0, RoomSetupAssumption
    <2>1. r \in Request
      BY <1>0, <1>1, <2>0 DEF Request
    <2>2. Call(p, "propose", o, r)
      BY <1>5 DEF ProposeBegin
    <2> HIDE DEF r
    <2>3. Slot(p, r)
      BY <1>0, <2>1, <2>2, Moves
    <2> QED
      BY <2>3 DEF r
  <1>6. ASSUME NEW handler, NEW row \in Participant, UpdateParticipant(p, handler, o, row)
        PROVE  Slot(p, Updating(o, row))
    <2>1. Updating(o, row) \in Request
      BY <1>0, <1>1 DEF Request, Updating
    <2>2. Call(p, handler, o, Updating(o, row))
      BY <1>6 DEF UpdateParticipant, Updating
    <2> QED
      BY <1>0, <2>1, <2>2, Moves
  <1>7. /\ [parts[o] EXCEPT !.approved = versions] \in Participant
        /\ [parts[o] EXCEPT !.policy = TRUE] \in Participant
        /\ [parts[o] EXCEPT !.agent = TRUE] \in Participant
    BY <1>0 DEF Participant
  <1>8. /\ ApproveContract(p, o) => Slot(p, Updating(o, [parts[o] EXCEPT !.approved = versions]))
        /\ SetParticipantPolicy(p, o) => Slot(p, Updating(o, [parts[o] EXCEPT !.policy = TRUE]))
        /\ ConnectAgent(p, o) => Slot(p, Updating(o, [parts[o] EXCEPT !.agent = TRUE]))
    BY <1>6, <1>7 DEF ApproveContract, SetParticipantPolicy, ConnectAgent
  <1> QED
    BY <1>2, <1>4, <1>5, <1>8

(* Going on with a handler after a read or a write.                        *)
LEMMA Continuations ==
  ASSUME TypeOK, NEW p \in Procs
  PROVE  /\ WriteRoom(p) => \/ req[p].then = "idle" /\ Slot(p, Idle)
                            \/ req[p].then # "idle" /\ Slot(p, [req[p] EXCEPT !.step = req[p].then])
         /\ \A i \in Invites : CreateInvite(p, i) => Slot(p, Invited(p, i))
         /\ UseInvite(p) => Slot(p, [req[p] EXCEPT !.step = "join"])
         /\ Join(p) => \/ Slot(p, Idle)
                       \/ Slot(p, Transition(req[p], "NEGOTIATING", "idle"))
         /\ CreateVersion(p) => \/ Slot(p, Idle)
                                \/ Slot(p, [req[p] EXCEPT !.step = "listParts"])
         /\ ListParts(p) => Slot(p, [req[p] EXCEPT !.step = "voidApprovals", !.stale = Stale])
         /\ \A item \in req[p].stale :
              req' = [req EXCEPT ![p].stale = @ \ {item}] =>
                Slot(p, [req[p] EXCEPT !.stale = @ \ {item}])
         /\ WritePart(p) => Slot(p, [req[p] EXCEPT !.step = "readRoom"])
         /\ ReadRoom(p) => \/ Slot(p, Idle)
                           \/ Slot(p, [req[p] EXCEPT !.step = "readVersion", !.room = room])
         /\ ReadVersion(p) => \/ Slot(p, Idle)
                              \/ Slot(p, [req[p] EXCEPT !.step = "readParts", !.version = versions])
         /\ ReadParts(p) => Slot(p, Idle) \/ Slot(p, Transition(req[p], "READY", "idle"))
         /\ WriteClosed(p) => Slot(p, [req[p] EXCEPT !.step = "listInvites"])
         /\ ListInvites(p) => Slot(p, [req[p] EXCEPT !.step = "revokeInvites", !.open = Open])
         /\ \A item \in req[p].open :
              req' = [req EXCEPT ![p].open = @ \ {item}] =>
                Slot(p, [req[p] EXCEPT !.open = @ \ {item}])
  <1>0. /\ req \in [Procs -> Request] /\ room \in RoomRow /\ versions \in 0..MaxVersions
        /\ parts \in [Orgs -> Participant] /\ invites \in [Invites -> Invite]
        /\ req[p] \in Request
    BY DEF TypeOK
  <1>1. /\ "join" \in Step /\ "listParts" \in Step /\ "voidApprovals" \in Step
        /\ "readRoom" \in Step /\ "readVersion" \in Step /\ "readParts" \in Step
        /\ "writeRoom" \in Step /\ "sendToken" \in Step /\ "idle" \in Step
        /\ "listInvites" \in Step /\ "revokeInvites" \in Step /\ req[p].then \in Step
    BY <1>0 DEF Step, Request
  <1>a. ASSUME NEW r \in Request, req' = [req EXCEPT ![p] = r]
        PROVE  Slot(p, r)
    BY <1>0, <1>a, Moves
  <1>b. ASSUME NEW to \in RoomState, NEW then \in Step
        PROVE  Transition(req[p], to, then) \in Request
    BY <1>0, <1>1, <1>b DEF Transition, Moved, Request, RoomRow
  <1>2. ASSUME WriteRoom(p)
        PROVE  \/ req[p].then = "idle" /\ Slot(p, Idle)
               \/ req[p].then # "idle" /\ Slot(p, [req[p] EXCEPT !.step = req[p].then])
    BY <1>0, <1>1, <1>2, Moves DEF WriteRoom
  <1>3. ASSUME NEW i \in Invites, CreateInvite(p, i)
        PROVE  Slot(p, Invited(p, i))
    <2>1. [req[p] EXCEPT !.invite = i, !.step = "sendToken"] \in Request
      BY <1>0, <1>1 DEF Request
    <2>2. Invited(p, i) \in Request
      <3> DEFINE r == [req[p] EXCEPT !.invite = i, !.step = "sendToken"]
      <3>1. r \in Request /\ r.room \in RoomRow
        BY <2>1 DEF Request
      <3> HIDE DEF r
      <3>2. Moved(r.room, "INVITED") \in RoomRow
        BY <3>1 DEF Moved, RoomRow, RoomState
      <3>3. Transition(r, "INVITED", "sendToken") \in Request
        BY <1>1, <3>1, <3>2 DEF Transition, Request
      <3> QED
        BY <3>1, <3>3 DEF Invited, r
    <2>3. req' = [req EXCEPT ![p] = Invited(p, i)]
      BY <1>3 DEF CreateInvite, Invited
    <2> QED
      BY <1>a, <2>2, <2>3
  <1>4. UseInvite(p) => Slot(p, [req[p] EXCEPT !.step = "join"])
    BY <1>0, <1>1, Moves DEF UseInvite
  <1>5. ASSUME Join(p)
        PROVE  Slot(p, Idle) \/ Slot(p, Transition(req[p], "NEGOTIATING", "idle"))
    <2>1. Transition(req[p], "NEGOTIATING", "idle") \in Request
      BY <1>1, <1>b DEF RoomState
    <2>2. Fail(p) \/ req' = [req EXCEPT ![p] = Transition(req[p], "NEGOTIATING", "idle")]
      BY <1>5 DEF Join
    <2> QED
      BY <1>0, <1>a, <2>1, <2>2, Moves
  <1>6. CreateVersion(p) => Slot(p, Idle) \/ Slot(p, [req[p] EXCEPT !.step = "listParts"])
    BY <1>0, <1>1, Moves DEF CreateVersion
  <1>7. ASSUME ListParts(p)
        PROVE  Slot(p, [req[p] EXCEPT !.step = "voidApprovals", !.stale = Stale])
    <2>1. Stale \subseteq Orgs \X Participant
      BY <1>0 DEF Stale, Members
    <2>2. [req[p] EXCEPT !.step = "voidApprovals", !.stale = Stale] \in Request
      BY <1>0, <1>1, <2>1 DEF Request
    <2>3. req' = [req EXCEPT ![p] = [req[p] EXCEPT !.step = "voidApprovals", !.stale = Stale]]
      BY <1>0, <1>7 DEF ListParts, Stale
    <2> QED
      BY <1>a, <2>2, <2>3
  <1>8. ASSUME NEW item \in req[p].stale, req' = [req EXCEPT ![p].stale = @ \ {item}]
        PROVE  Slot(p, [req[p] EXCEPT !.stale = @ \ {item}])
    <2>1. [req[p] EXCEPT !.stale = @ \ {item}] \in Request
      BY <1>0 DEF Request
    <2>2. req' = [req EXCEPT ![p] = [req[p] EXCEPT !.stale = @ \ {item}]]
      BY <1>0, <1>8
    <2> QED
      BY <1>a, <2>1, <2>2
  <1>9. WritePart(p) => Slot(p, [req[p] EXCEPT !.step = "readRoom"])
    BY <1>0, <1>1, Moves DEF WritePart
  <1>10. ASSUME ReadRoom(p)
         PROVE  Slot(p, Idle) \/ Slot(p, [req[p] EXCEPT !.step = "readVersion", !.room = room])
    <2>1. [req[p] EXCEPT !.step = "readVersion", !.room = room] \in Request
      BY <1>0, <1>1 DEF Request
    <2>2. \/ Done(p)
          \/ req' = [req EXCEPT ![p] = [req[p] EXCEPT !.step = "readVersion", !.room = room]]
      BY <1>0, <1>10 DEF ReadRoom
    <2> QED
      BY <1>0, <1>a, <2>1, <2>2, Moves
  <1>11. ASSUME ReadVersion(p)
         PROVE  \/ Slot(p, Idle)
                \/ Slot(p, [req[p] EXCEPT !.step = "readParts", !.version = versions])
    <2>0. versions \in Nat
      BY <1>0, RoomSetupAssumption
    <2>1. [req[p] EXCEPT !.step = "readParts", !.version = versions] \in Request
      BY <1>0, <1>1, <2>0 DEF Request
    <2>2. \/ Done(p)
          \/ req' = [req EXCEPT ![p] = [req[p] EXCEPT !.step = "readParts", !.version = versions]]
      BY <1>0, <1>11 DEF ReadVersion
    <2> QED
      BY <1>0, <1>a, <2>1, <2>2, Moves
  <1>12. ASSUME ReadParts(p)
         PROVE  Slot(p, Idle) \/ Slot(p, Transition(req[p], "READY", "idle"))
    <2>1. Transition(req[p], "READY", "idle") \in Request
      BY <1>1, <1>b DEF RoomState
    <2>2. Done(p) \/ req' = [req EXCEPT ![p] = Transition(req[p], "READY", "idle")]
      BY <1>0, <1>12 DEF ReadParts
    <2> QED
      BY <1>0, <1>a, <2>1, <2>2, Moves
  <1>13. WriteClosed(p) => Slot(p, [req[p] EXCEPT !.step = "listInvites"])
    BY <1>0, <1>1, Moves DEF WriteClosed
  <1>14. ASSUME ListInvites(p)
         PROVE  Slot(p, [req[p] EXCEPT !.step = "revokeInvites", !.open = Open])
    <2>1. Open \subseteq Invites \X Invite
      BY <1>0 DEF Open
    <2>2. [req[p] EXCEPT !.step = "revokeInvites", !.open = Open] \in Request
      BY <1>0, <1>1, <2>1 DEF Request
    <2>3. req' = [req EXCEPT ![p] = [req[p] EXCEPT !.step = "revokeInvites", !.open = Open]]
      BY <1>0, <1>14 DEF ListInvites, Open
    <2> QED
      BY <1>a, <2>2, <2>3
  <1>15. ASSUME NEW item \in req[p].open, req' = [req EXCEPT ![p].open = @ \ {item}]
         PROVE  Slot(p, [req[p] EXCEPT !.open = @ \ {item}])
    <2>1. [req[p] EXCEPT !.open = @ \ {item}] \in Request
      BY <1>0 DEF Request
    <2>2. req' = [req EXCEPT ![p] = [req[p] EXCEPT !.open = @ \ {item}]]
      BY <1>0, <1>15
    <2> QED
      BY <1>a, <2>1, <2>2
  <1> QED
    BY <1>2, <1>3, <1>4, <1>5, <1>6, <1>7, <1>8, <1>9, <1>10, <1>11, <1>12, <1>13, <1>14, <1>15

(* A move of the room, and what only passes a guided request on.           *)
LEMMA OtherMoves ==
  ASSUME TypeOK, NEW p \in Procs
  PROVE  /\ StartRoom(p) => Slot(p, Moving("ACTIVE", "stampStart"))
         /\ \A to \in RoomState : MoveRoom(p, to) => Slot(p, Moving(to, "idle"))
         /\ CloseRoom(p) =>
              \/ /\ room.state \in {"COMPLETED", "CANCELED", "QUARANTINED"}
                 /\ Slot(p, Moving("CLOSED", "listInvites"))
              \/ /\ CanTransition(room.state, "CANCELED")
                 /\ Slot(p, Moving("CANCELED", "writeClosed"))
         /\ Quarantine(p) => Slot(p, Moving("QUARANTINED", "idle"))
         /\ LaunchRoom(p) => Slot(p, Idle)
         /\ ReadContract(p) => Slot(p, Idle) \/ Slot(p, req[p])
         /\ SendToken(p) \/ ProposeDone(p) \/ StampStart(p) \/ CloseDone(p) => Slot(p, Idle)
         /\ GiveUp(p) \/ Crash(p) => Slot(p, Idle)
  <1>0. /\ req \in [Procs -> Request] /\ room \in RoomRow /\ versions \in Nat
        /\ req[p] \in Request /\ Idle \in Request
    BY RoomSetupAssumption, IdleIsRequest DEF TypeOK
  <1>p. /\ <<>> \in Seq(Handler) /\ <<"agent">> \in Seq(Handler)
        /\ <<"policy">> \in Seq(Handler) /\ <<"approve">> \in Seq(Handler)
        /\ <<"propose", "policy">> \in Seq(Handler) /\ <<"approve", "invite">> \in Seq(Handler)
    BY DEF Handler
  <1>1. "writeRoom" \in Step /\ "idle" \in Step /\ "stampStart" \in Step
        /\ "writeClosed" \in Step /\ "listInvites" \in Step
    BY DEF Step
  <1>2. ASSUME NEW to \in RoomState, NEW then \in Step
        PROVE  /\ Moving(to, then) \in Request
               /\ Begin(p, Transition([Idle EXCEPT !.room = room], to, then)) =>
                    Slot(p, Moving(to, then))
    <2>1. Moving(to, then) \in Request
      BY <1>0, <1>1 DEF Moving, Transition, Moved, Request, RoomRow
    <2> QED
      BY <1>0, <2>1, Moves DEF Moving
  <1>3. "ACTIVE" \in RoomState /\ "CLOSED" \in RoomState /\ "CANCELED" \in RoomState
        /\ "QUARANTINED" \in RoomState
    BY DEF RoomState
  <1>4. /\ StartRoom(p) => Slot(p, Moving("ACTIVE", "stampStart"))
        /\ \A to \in RoomState : MoveRoom(p, to) => Slot(p, Moving(to, "idle"))
        /\ CloseRoom(p) =>
             \/ /\ room.state \in {"COMPLETED", "CANCELED", "QUARANTINED"}
                /\ Slot(p, Moving("CLOSED", "listInvites"))
             \/ /\ CanTransition(room.state, "CANCELED")
                /\ Slot(p, Moving("CANCELED", "writeClosed"))
        /\ Quarantine(p) => Slot(p, Moving("QUARANTINED", "idle"))
    BY <1>1, <1>2, <1>3 DEF StartRoom, MoveRoom, CloseRoom, Quarantine
  <1>5. ASSUME NEW r \in Request, NEW plan \in Seq(Handler), NEW approves \in Nat,
               req' = [req EXCEPT ![p] = [r EXCEPT !.plan = plan, !.approves = approves]]
        PROVE  Slot(p, r)
    <2>1. /\ [r EXCEPT !.plan = plan, !.approves = approves] \in Request
          /\ SameWork([r EXCEPT !.plan = plan, !.approves = approves], r)
      BY <1>5 DEF Request, SameWork
    <2>2. Slot(p, [r EXCEPT !.plan = plan, !.approves = approves])
      BY <1>0, <1>5, <2>1, Moves
    <2> QED
      BY <2>1, <2>2 DEF Slot, SameWork
  <1>6. ASSUME LaunchRoom(p)
        PROVE  Slot(p, Idle)
    <2>1. PICK agent \in {<<>>, <<"agent">>} :
            Begin(p, [Idle EXCEPT !.plan = <<"propose", "policy">> \o agent \o <<"approve", "invite">>,
                                  !.approves = 1])
      BY <1>6 DEF LaunchRoom
    <2> DEFINE plan == <<"propose", "policy">> \o agent \o <<"approve", "invite">>
    <2>2. agent \in Seq(Handler)
      BY <1>p
    <2>3. plan \in Seq(Handler)
      BY <1>p, <2>2
    <2>4. req' = [req EXCEPT ![p] = [Idle EXCEPT !.plan = plan, !.approves = 1]]
      BY <2>1 DEF Begin
    <2> HIDE DEF plan
    <2> QED
      BY <1>0, <1>5, <2>3, <2>4
  <1>7. ASSUME ReadContract(p)
        PROVE  Slot(p, Idle) \/ Slot(p, req[p])
    <2>1. PICK agent \in {<<>>, <<"agent">>}, policy \in {<<>>, <<"policy">>} :
            LET plan == policy \o agent \o (IF versions > 0 THEN <<"approve">> ELSE <<>>) IN
            req' = [req EXCEPT ![p] =
              IF plan = <<>> THEN Idle ELSE [@ EXCEPT !.plan = plan, !.approves = versions]]
      BY <1>7 DEF ReadContract
    <2> DEFINE plan == policy \o agent \o (IF versions > 0 THEN <<"approve">> ELSE <<>>)
    <2>2. /\ policy \in Seq(Handler) /\ agent \in Seq(Handler)
          /\ (IF versions > 0 THEN <<"approve">> ELSE <<>>) \in Seq(Handler)
      BY <1>p
    <2>3. plan \in Seq(Handler)
      BY <2>2
    <2>4. \/ req' = [req EXCEPT ![p] = Idle]
          \/ req' = [req EXCEPT ![p] = [req[p] EXCEPT !.plan = plan, !.approves = versions]]
      BY <1>0, <2>1
    <2> HIDE DEF plan
    <2> QED
      BY <1>0, <1>5, <2>3, <2>4, Moves
  <1>8. /\ SendToken(p) \/ ProposeDone(p) \/ StampStart(p) \/ CloseDone(p) => Slot(p, Idle)
        /\ GiveUp(p) \/ Crash(p) => Slot(p, Idle)
    BY <1>0, Moves DEF SendToken, ProposeDone, StampStart, CloseDone, GiveUp, Crash
  <1> QED
    BY <1>4, <1>6, <1>7, <1>8

-----------------------------------------------------------------------------
(* Every step keeps the types, and the bound on the versions to insert.    *)
LEMMA StepKeepsType ==
  TypeOK /\ VersionsBounded /\ [Next]_vars => TypeOK' /\ VersionsBounded'
  <1> SUFFICES ASSUME TypeOK, VersionsBounded, [Next]_vars
               PROVE  TypeOK' /\ VersionsBounded'
    OBVIOUS
  <1> DEFINE Tables == /\ room' \in RoomRow /\ parts' \in [Orgs -> Participant]
                       /\ versions' \in 0..MaxVersions /\ invites' \in [Invites -> Invite]
                       /\ tokens' \subseteq Invites /\ expired' \subseteq Invites
                       /\ crashes' \in 0..MaxCrashes
             Reads == UNCHANGED <<room, parts, versions, invites, tokens, expired, crashes>>
  <1>0. /\ room \in RoomRow /\ parts \in [Orgs -> Participant]
        /\ versions \in 0..MaxVersions /\ invites \in [Invites -> Invite]
        /\ tokens \subseteq Invites /\ expired \subseteq Invites
        /\ req \in [Procs -> Request] /\ crashes \in 0..MaxCrashes
        /\ MaxVersions \in Nat /\ MaxCrashes \in Nat
        /\ Idle \in Request /\ Idle.version = 0
    BY RoomSetupAssumption, IdleIsRequest DEF TypeOK
  <1>1. Reads => Tables
    BY <1>0
  <1>2. ASSUME NEW p \in Procs, NEW r, Slot(p, r), r.version <= MaxVersions, Tables
        PROVE  TypeOK' /\ VersionsBounded'
    BY <1>2 DEF Slot, SameWork, TypeOK, VersionsBounded
  <1>3. ASSUME NEW p \in Procs, Slot(p, Idle), Tables
        PROVE  TypeOK' /\ VersionsBounded'
    BY <1>0, <1>2, <1>3
  <1>4. \A p \in Procs : req[p] \in Request /\ req[p].version <= MaxVersions
    BY <1>0 DEF VersionsBounded
  <1>5. ASSUME NEW r \in Request, NEW step, NEW x, NEW y, r.version <= MaxVersions
        PROVE  /\ [r EXCEPT !.step = step].version <= MaxVersions
               /\ [r EXCEPT !.stale = x].version <= MaxVersions
               /\ [r EXCEPT !.open = x].version <= MaxVersions
               /\ [r EXCEPT !.step = step, !.stale = x].version <= MaxVersions
               /\ [r EXCEPT !.step = step, !.open = x].version <= MaxVersions
               /\ [r EXCEPT !.step = step, !.room = x].version <= MaxVersions
               /\ [r EXCEPT !.step = step, !.org = x, !.room = y].version <= MaxVersions
               /\ Transition(r, x, y).version <= MaxVersions
    BY <1>5 DEF Request, Transition
  <1> HIDE DEF Tables, Reads
  <1>6. ASSUME NEW p \in Procs, WriteRoom(p)
        PROVE  TypeOK' /\ VersionsBounded'
    <2>1. Tables
      BY <1>0, <1>4, <1>6 DEF WriteRoom, Request, Tables
    <2> QED
      BY <1>2, <1>3, <1>4, <1>5, <1>6, <2>1, Continuations
  <1>7. ASSUME NEW p \in Procs, NEW i \in Invites, CreateInvite(p, i)
        PROVE  TypeOK' /\ VersionsBounded'
    <2>1. Tables
      BY <1>0, <1>4, <1>7 DEF CreateInvite, Request, Invite, Tables
    <2>2. Invited(p, i).version <= MaxVersions
      BY <1>4 DEF Invited, Transition, Request
    <2> QED
      BY <1>2, <1>7, <2>1, <2>2, Continuations
  <1>8. ASSUME NEW p \in Procs, UseInvite(p)
        PROVE  TypeOK' /\ VersionsBounded'
    <2>0. [req[p].inviteRow EXCEPT !.redemptions = @ + 1] \in Invite
      BY <1>4 DEF Request, Invite
    <2>1. Tables
      BY <1>0, <1>4, <1>8, <2>0 DEF UseInvite, Tables
    <2> QED
      BY <1>2, <1>4, <1>5, <1>8, <2>1, Continuations
  <1>9. ASSUME NEW p \in Procs, Join(p)
        PROVE  TypeOK' /\ VersionsBounded'
    <2>1. Tables
      BY <1>0, <1>4, <1>9, FirstRows DEF Join, Tables
    <2> QED
      BY <1>2, <1>3, <1>4, <1>5, <1>9, <2>1, Continuations
  <1>10. ASSUME NEW p \in Procs, CreateVersion(p)
         PROVE  TypeOK' /\ VersionsBounded'
    <2>1. Tables
      BY <1>0, <1>4, <1>10 DEF CreateVersion, Request, Tables
    <2> QED
      BY <1>2, <1>3, <1>4, <1>5, <1>10, <2>1, Continuations
  <1>11. ASSUME NEW p \in Procs, VoidApproval(p)
         PROVE  TypeOK' /\ VersionsBounded'
    <2>1. PICK item \in req[p].stale :
            /\ parts' = [parts EXCEPT ![item[1]] = [item[2] EXCEPT !.approved = 0]]
            /\ req' = [req EXCEPT ![p].stale = @ \ {item}]
      BY <1>11 DEF VoidApproval
    <2>2. item[2] \in Participant
      BY <1>4 DEF Request
    <2>3. [item[2] EXCEPT !.approved = 0] \in Participant
      BY <1>0, <2>2 DEF Participant
    <2>4. Tables
      BY <1>0, <1>11, <2>1, <2>3 DEF VoidApproval, Tables
    <2>5. Slot(p, [req[p] EXCEPT !.stale = @ \ {item}])
      BY <2>1, Continuations
    <2> QED
      BY <1>2, <1>4, <1>5, <2>4, <2>5
  <1>12. ASSUME NEW p \in Procs, WritePart(p)
         PROVE  TypeOK' /\ VersionsBounded'
    <2>1. Tables
      BY <1>0, <1>4, <1>12 DEF WritePart, Request, Tables
    <2> QED
      BY <1>2, <1>4, <1>5, <1>12, <2>1, Continuations
  <1>13. ASSUME NEW p \in Procs, RevokeInvite(p)
         PROVE  TypeOK' /\ VersionsBounded'
    <2>1. PICK item \in req[p].open :
            /\ invites' = [invites EXCEPT ![item[1]] = [item[2] EXCEPT !.revoked = TRUE]]
            /\ req' = [req EXCEPT ![p].open = @ \ {item}]
      BY <1>13 DEF RevokeInvite
    <2>2. [item[2] EXCEPT !.revoked = TRUE] \in Invite
      <3>1. item \in Invites \X Invite
        BY <1>4 DEF Request
      <3>2. item[2] \in Invite
        BY <3>1
      <3> QED
        BY <3>2 DEF Invite
    <2>3. Tables
      BY <1>0, <1>13, <2>1, <2>2 DEF RevokeInvite, Tables
    <2>4. Slot(p, [req[p] EXCEPT !.open = @ \ {item}])
      BY <2>1, Continuations
    <2>5. [req[p] EXCEPT !.open = @ \ {item}].version <= MaxVersions
      BY <1>4, <1>5
    <2> QED
      BY <1>2, <2>3, <2>4, <2>5
  <1>14. ASSUME NEW p \in Procs, StampStart(p) \/ WriteClosed(p)
         PROVE  TypeOK' /\ VersionsBounded'
    <2>0. /\ req[p].room \in RoomRow
          /\ [req[p].room EXCEPT !.started = TRUE] \in RoomRow
          /\ Moved(req[p].room, "CLOSED") \in RoomRow
      <3>1. req[p].room \in RoomRow /\ "CLOSED" \in RoomState
        BY <1>4 DEF Request, RoomState
      <3> QED
        BY <3>1 DEF Moved, RoomRow
    <2>1. Tables
      BY <1>0, <1>14, <2>0 DEF StampStart, WriteClosed, Tables
    <2>2. StampStart(p) => Slot(p, Idle)
      BY <1>0, OtherMoves
    <2>3. WriteClosed(p) => Slot(p, [req[p] EXCEPT !.step = "listInvites"])
      BY <1>0, Continuations
    <2>4. [req[p] EXCEPT !.step = "listInvites"].version <= MaxVersions
      BY <1>4 DEF Request
    <2> QED
      BY <1>2, <1>3, <1>14, <2>1, <2>2, <2>3, <2>4
  <1>15. ASSUME NEW p \in Procs, SendToken(p) \/ Crash(p)
         PROVE  TypeOK' /\ VersionsBounded'
    <2>1. Tables
      BY <1>0, <1>4, <1>15 DEF SendToken, Crash, Request, Tables
    <2> QED
      BY <1>3, <1>15, <2>1, OtherMoves
  <1>16. ASSUME NEW p \in Procs,
                \/ ListParts(p) \/ ReadRoom(p) \/ ReadVersion(p) \/ ReadParts(p) \/ ListInvites(p)
         PROVE  TypeOK' /\ VersionsBounded'
    <2>1. Tables
      BY <1>1, <1>16 DEF ListParts, ReadRoom, ReadVersion, ReadParts, ListInvites, Reads
    <2>2. [req[p] EXCEPT !.step = "readParts", !.version = versions].version <= MaxVersions
      BY <1>0, <1>4 DEF Request
    <2>3. CASE ReadVersion(p)
      BY <1>2, <1>3, <2>1, <2>2, <2>3, Continuations
    <2>4. CASE ListParts(p) \/ ListInvites(p)
      BY <1>2, <1>4, <1>5, <2>1, <2>4, Continuations
    <2>5. CASE ReadRoom(p) \/ ReadParts(p)
      BY <1>2, <1>3, <1>4, <1>5, <2>1, <2>5, Continuations
    <2> QED
      BY <1>16, <2>3, <2>4, <2>5
  <1>17. ASSUME NEW p \in Procs,
                \/ ProposeDone(p) \/ CloseDone(p) \/ GiveUp(p) \/ LaunchRoom(p) \/ ReadContract(p)
         PROVE  TypeOK' /\ VersionsBounded'
    <2>1. Tables
      BY <1>1, <1>17 DEF ProposeDone, CloseDone, GiveUp, LaunchRoom, ReadContract, Reads
    <2> QED
      BY <1>2, <1>3, <1>4, <1>17, <2>1, OtherMoves
  <1>18. ASSUME NEW p \in Procs,
                \/ StartRoom(p) \/ CloseRoom(p) \/ Quarantine(p)
                \/ \E to \in RoomState : MoveRoom(p, to)
         PROVE  TypeOK' /\ VersionsBounded'
    <2>1. Tables
      BY <1>1, <1>18 DEF StartRoom, CloseRoom, Quarantine, MoveRoom, Reads
    <2>2. \A to, then : Moving(to, then).version <= MaxVersions
      BY <1>0 DEF Moving, Transition, Request
    <2> QED
      BY <1>2, <1>18, <2>1, <2>2, OtherMoves
  <1>19. ASSUME NEW p \in Procs, NEW o \in Orgs, NEW i \in Invites,
                \/ CreateInviteBegin(p, o) \/ RedeemBegin(p, o, i) \/ AcceptInvitation(p, o, i)
                \/ ApproveContract(p, o) \/ SetParticipantPolicy(p, o) \/ ConnectAgent(p, o)
         PROVE  TypeOK' /\ VersionsBounded'
    <2>1. Tables
      BY <1>1, <1>19 DEF CreateInviteBegin, RedeemBegin, AcceptInvitation, Redeem, ApproveContract,
                         SetParticipantPolicy, ConnectAgent, UpdateParticipant, Reads
    <2>2. /\ \A row : Updating(o, row).version <= MaxVersions
          /\ Redeeming(o, i).version <= MaxVersions
          /\ [Idle EXCEPT !.step = "createInvite", !.org = o, !.room = room].version <= MaxVersions
      BY <1>0 DEF Updating, Redeeming, Request
    <2> QED
      BY <1>2, <1>19, <2>1, <2>2, Beginnings
  <1>20. ASSUME NEW p \in Procs, NEW o \in Orgs, ProposeBegin(p, o)
         PROVE  TypeOK' /\ VersionsBounded'
    <2>1. Tables
      BY <1>1, <1>20 DEF ProposeBegin, Reads
    <2>2. [Idle EXCEPT !.step = "createVersion", !.version = versions + 1].version <= MaxVersions
      BY <1>0, <1>20 DEF Request, ProposeBegin
    <2>3. Slot(p, [Idle EXCEPT !.step = "createVersion", !.version = versions + 1])
      BY <1>20, RoomSetupAssumption, Beginnings
    <2> QED
      BY <1>2, <2>1, <2>2, <2>3
  <1>21. CASE \E i \in Invites : Expire(i)
    BY <1>0, <1>4, <1>21 DEF Expire, TypeOK, VersionsBounded
  <1>22. CASE UNCHANGED vars
    BY <1>22 DEF vars, TypeOK, VersionsBounded
  <1>23. Invites # {}
    BY RoomSetupAssumption
  <1> QED
    BY <1>6, <1>7, <1>8, <1>9, <1>10, <1>11, <1>12, <1>13, <1>14, <1>15, <1>16, <1>17, <1>18,
       <1>19, <1>20, <1>21, <1>22, <1>23 DEF Next

(* The first state has the types.                                          *)
LEMMA InitType == Init => TypeOK /\ VersionsBounded
  BY RoomSetupAssumption, FirstRows, IdleIsRequest DEF Init, TypeOK, VersionsBounded

(* The rows and the requests keep their types, whatever overlaps and       *)
(* wherever the server stops: a row that a handler writes back is a row of *)
(* the table that it goes into, and no version number runs past the bound  *)
(* on those proposed.                                                      *)
THEOREM TypeCorrect == Spec => []TypeOK
  <1>1. TypeOK /\ VersionsBounded /\ [Next]_vars => (TypeOK /\ VersionsBounded)'
    BY StepKeepsType
  <1> QED
    BY <1>1, InitType, PTL DEF Spec

-----------------------------------------------------------------------------
(* Requests that overlap.  An approval may be voided, a policy or an agent *)
(* lost under a stale write, and a third organisation may join; but a room *)
(* is not made READY, and not started, without a contract and a            *)
(* counterparty, and neither is taken back.                                *)
Founded == versions > 0 /\ Members # {Creator}

FoundedWhenReady == room.state = "READY" \/ room.started => Founded

(* What versions and seats there are stays.                                *)
TablesGrow == versions <= versions' /\ Members \subseteq Members'

(* What a request may write, however old its reads are: a room's row that  *)
(* says so only when it is so, and the row of a participant that joined.   *)
Grounded(r) ==
  /\ r.then \in {"idle", "sendToken", "stampStart", "listInvites", "writeClosed"}
  /\ r.room.state = "READY" \/ r.room.started => Founded
  /\ r.step = "stampStart" \/ r.then = "stampStart" => Founded
  /\ r.step = "readParts" => versions > 0
  /\ r.step = "writePart" => r.part.joined /\ r.org \in Members
  /\ \A item \in r.stale : item[2].joined /\ item[1] \in Members

OverlapInv == /\ TypeOK /\ VersionsBounded
              /\ Creator \in Members /\ FoundedWhenReady
              /\ \A p \in Procs : Grounded(req[p])

(* Where the tables grow, what a request may write stays grounded.         *)
LEMMA GroundedStays ==
  ASSUME OverlapInv, TypeOK', VersionsBounded', TablesGrow, FoundedWhenReady', NEW p \in Procs,
         NEW r, Slot(p, r), Grounded(r)
  PROVE  OverlapInv'
  <1>1. Creator \in Members' /\ (Founded => Founded')
    <2>1. versions \in Nat /\ versions' \in Nat
      BY RoomSetupAssumption DEF OverlapInv, TypeOK
    <2> QED
      BY <2>1 DEF OverlapInv, TablesGrow, Founded
  <1>2. versions > 0 => versions' > 0
    <2>1. versions \in Nat /\ versions' \in Nat
      BY RoomSetupAssumption DEF OverlapInv, TypeOK
    <2> QED
      BY <2>1 DEF TablesGrow
  <1>3. Grounded(req[p])'
    BY <1>1, <1>2 DEF Grounded, Slot, SameWork, TablesGrow
  <1>4. ASSUME NEW q \in Procs, q # p
        PROVE  Grounded(req[q])'
    <2>1. Grounded(req[q]) /\ req'[q] = req[q]
      BY <1>4 DEF OverlapInv, Slot
    <2> QED
      BY <1>1, <1>2, <2>1 DEF Grounded, TablesGrow
  <1> QED
    BY <1>1, <1>3, <1>4 DEF OverlapInv

(* A request that is idle, and one that goes on.                           *)
LEMMA GroundedRequests ==
  ASSUME TypeOK, NEW p \in Procs, Grounded(req[p])
  PROVE  /\ Grounded(Idle)
         /\ \A s \in Step \ {"stampStart", "readParts", "writePart"} :
              /\ Grounded([req[p] EXCEPT !.step = s])
              /\ \A x : Grounded([req[p] EXCEPT !.step = s, !.open = x])
         /\ \A to \in RoomState : to # "READY" \/ Founded => Grounded(Transition(req[p], to, "idle"))
  <1>0. req[p] \in Request /\ req[p].room \in RoomRow
    BY DEF TypeOK, Request
  <1>1. Grounded(Idle)
    BY FirstRows DEF Grounded, Idle
  <1>2. ASSUME NEW s \in Step \ {"stampStart", "readParts", "writePart"}
        PROVE  /\ Grounded([req[p] EXCEPT !.step = s])
               /\ \A x : Grounded([req[p] EXCEPT !.step = s, !.open = x])
    BY <1>0 DEF Grounded, Request
  <1>3. ASSUME NEW to \in RoomState, to # "READY" \/ Founded
        PROVE  Grounded(Transition(req[p], to, "idle"))
    <2> DEFINE r == Transition(req[p], to, "idle")
    <2>1. /\ r.step = "writeRoom" /\ r.then = "idle" /\ r.stale = req[p].stale
          /\ r.room = Moved(req[p].room, to)
      BY <1>0 DEF Transition, Request
    <2>2. Moved(req[p].room, to).state = to /\ Moved(req[p].room, to).started = req[p].room.started
      BY <1>0 DEF Moved, RoomRow
    <2> HIDE DEF r
    <2> QED
      BY <1>3, <2>1, <2>2 DEF Grounded, r
  <1> QED
    BY <1>1, <1>2, <1>3

(* The step, whatever overlaps.                                            *)
LEMMA OverlapStep == OverlapInv /\ [Next]_vars => OverlapInv' /\ TablesGrow
  <1> SUFFICES ASSUME OverlapInv, [Next]_vars
               PROVE  OverlapInv' /\ TablesGrow
    OBVIOUS
  <1>0. /\ TypeOK /\ TypeOK' /\ VersionsBounded /\ VersionsBounded' /\ FoundedWhenReady
        /\ \A p \in Procs : Grounded(req[p])
    BY StepKeepsType DEF OverlapInv
  <1>1. /\ room \in RoomRow /\ parts \in [Orgs -> Participant] /\ versions \in Nat
        /\ versions' \in Nat /\ Idle \in Request /\ Grounded(Idle)
        /\ \A p \in Procs : req[p] \in Request /\ req[p].room \in RoomRow
    <2>1. /\ room \in RoomRow /\ parts \in [Orgs -> Participant] /\ versions \in Nat
          /\ versions' \in Nat /\ req \in [Procs -> Request] /\ Idle \in Request
      BY <1>0, IdleIsRequest, RoomSetupAssumption DEF TypeOK
    <2>2. Grounded(Idle)
      BY FirstRows DEF Grounded, Idle
    <2> QED
      BY <2>1, <2>2 DEF Request
  <1>2. {"READY", "NEGOTIATING", "INVITED", "ACTIVE", "PAUSED", "CANCELED", "CLOSED", "QUARANTINED"}
          \subseteq RoomState
    BY DEF RoomState
  (* A step that leaves the room, the participants and the versions alone. *)
  <1>a. ASSUME NEW p \in Procs, NEW r, UNCHANGED <<room, parts, versions>>, Slot(p, r), Grounded(r)
        PROVE  OverlapInv' /\ TablesGrow
    <2>1. TablesGrow /\ FoundedWhenReady'
      BY <1>0, <1>1, <1>a DEF TablesGrow, FoundedWhenReady, Founded, Members
    <2> QED
      BY <1>0, <1>a, <2>1, GroundedStays
  (* One that writes the row of the room.                                  *)
  <1>b. ASSUME NEW p \in Procs, NEW r, UNCHANGED <<parts, versions>>, Slot(p, r), Grounded(r),
               room'.state = "READY" \/ room'.started => Founded
        PROVE  OverlapInv' /\ TablesGrow
    <2>1. TablesGrow /\ FoundedWhenReady'
      BY <1>1, <1>b DEF TablesGrow, FoundedWhenReady, Founded, Members
    <2> QED
      BY <1>0, <1>b, <2>1, GroundedStays
  (* One that writes the row of a participant.                             *)
  <1>c. ASSUME NEW p \in Procs, NEW r, UNCHANGED <<room, versions>>, Slot(p, r), Grounded(r),
               NEW o, NEW row, row.joined, parts' = [parts EXCEPT ![o] = row]
        PROVE  OverlapInv' /\ TablesGrow
    <2>1. \A x \in Orgs : parts'[x] = row \/ parts'[x] = parts[x]
      BY <1>1, <1>c
    <2>2. TablesGrow
      BY <1>1, <1>c, <2>1 DEF TablesGrow, Members
    <2>3. FoundedWhenReady'
      BY <1>1, <1>c, <2>2 DEF OverlapInv, TablesGrow, FoundedWhenReady, Founded
    <2> QED
      BY <1>0, <1>c, <2>2, <2>3, GroundedStays
  <1>3. ASSUME NEW p \in Procs, WriteRoom(p)
        PROVE  OverlapInv' /\ TablesGrow
    <2>1. /\ room' = req[p].room /\ UNCHANGED <<parts, versions>>
          /\ req[p].step = "writeRoom" /\ Grounded(req[p])
      BY <1>0, <1>3 DEF WriteRoom, At
    <2>2. Grounded([req[p] EXCEPT !.step = req[p].then])
      <3>1. req[p].then \notin {"readParts", "writePart"}
        BY <2>1 DEF Grounded
      <3> QED
        BY <1>1, <2>1, <3>1 DEF Grounded, Request
    <2> QED
      BY <1>0, <1>1, <1>3, <1>b, <2>1, <2>2, Continuations DEF Grounded
  <1>4. ASSUME NEW p \in Procs, StampStart(p) \/ WriteClosed(p)
        PROVE  OverlapInv' /\ TablesGrow
    <2>1. \/ /\ Slot(p, Idle) /\ Founded
          \/ /\ Slot(p, [req[p] EXCEPT !.step = "listInvites"])
             /\ room' = Moved(req[p].room, "CLOSED")
      BY <1>0, <1>4, Continuations, OtherMoves DEF StampStart, WriteClosed, At, Grounded
    <2>2. UNCHANGED <<parts, versions>>
      BY <1>4 DEF StampStart, WriteClosed
    <2>3. Grounded([req[p] EXCEPT !.step = "listInvites"])
      BY <1>0, GroundedRequests DEF Step
    <2>4. Moved(req[p].room, "CLOSED").state # "READY"
          /\ Moved(req[p].room, "CLOSED").started = req[p].room.started
      BY <1>1 DEF Moved, RoomRow
    <2>5. CASE Slot(p, Idle) /\ Founded
      BY <1>1, <1>b, <2>2, <2>5
    <2>6. CASE /\ Slot(p, [req[p] EXCEPT !.step = "listInvites"])
               /\ room' = Moved(req[p].room, "CLOSED")
      BY <1>0, <1>b, <2>2, <2>3, <2>4, <2>6 DEF Grounded
    <2> QED
      BY <2>1, <2>5, <2>6
  <1>5. ASSUME NEW p \in Procs, NEW i \in Invites, CreateInvite(p, i)
        PROVE  OverlapInv' /\ TablesGrow
    <2>1. Grounded(Invited(p, i))
      <3> DEFINE r == [req[p] EXCEPT !.invite = i, !.step = "sendToken"]
      <3>0. req[p] \in Request /\ "sendToken" \in Step /\ "INVITED" \in RoomState
        BY <1>1 DEF Step, RoomState
      <3>1. r.room = req[p].room /\ r.stale = req[p].stale /\ r.step = "sendToken"
            /\ r.then = req[p].then
        BY <3>0 DEF Request
      <3>2. r \in Request
        BY <3>0 DEF Request
      <3>3. Grounded(r)
        BY <1>0, <3>1 DEF Grounded
      <3> HIDE DEF r
      <3>4. Grounded(Transition(r, "INVITED", "sendToken"))
        <4> DEFINE t == Transition(r, "INVITED", "sendToken")
        <4>1. /\ t.step = "writeRoom" /\ t.then = "sendToken" /\ t.stale = r.stale
              /\ t.room.state = "INVITED" /\ t.room.started = r.room.started
          BY <3>0, <3>2, TransitionIs
        <4> HIDE DEF t
        <4>2. Grounded(t)
          BY <3>3, <4>1 DEF Grounded
        <4> QED
          BY <4>2 DEF t
      <3> QED
        BY <3>3, <3>4 DEF Invited, r
    <2> QED
      BY <1>0, <1>5, <1>a, <2>1, Continuations DEF CreateInvite
  <1>6. ASSUME NEW p \in Procs, NEW o \in Orgs, NEW i \in Invites,
               \/ CreateInviteBegin(p, o) \/ RedeemBegin(p, o, i) \/ AcceptInvitation(p, o, i)
               \/ ProposeBegin(p, o)
        PROVE  OverlapInv' /\ TablesGrow
    <2>1. /\ Grounded([Idle EXCEPT !.step = "createInvite", !.org = o, !.room = room])
          /\ Grounded(Redeeming(o, i))
          /\ Grounded([Idle EXCEPT !.step = "createVersion", !.version = versions + 1])
      BY <1>0, <1>1 DEF Grounded, Redeeming, FoundedWhenReady, Request
    <2>2. UNCHANGED <<room, parts, versions>>
      BY <1>6 DEF CreateInviteBegin, RedeemBegin, AcceptInvitation, Redeem, ProposeBegin
    <2> QED
      BY <1>0, <1>6, <1>a, <2>1, <2>2, Beginnings
  <1>7. ASSUME NEW p \in Procs, NEW o \in Orgs,
               ApproveContract(p, o) \/ SetParticipantPolicy(p, o) \/ ConnectAgent(p, o)
        PROVE  OverlapInv' /\ TablesGrow
    <2>1. UNCHANGED <<room, parts, versions>> /\ parts[o].joined /\ o \in Members
      BY <1>7 DEF ApproveContract, SetParticipantPolicy, ConnectAgent, UpdateParticipant, Members
    <2>2. /\ [parts[o] EXCEPT !.approved = versions].joined
          /\ [parts[o] EXCEPT !.policy = TRUE].joined
          /\ [parts[o] EXCEPT !.agent = TRUE].joined
      BY <1>1, <2>1 DEF Participant
    <2>3. \A row : row.joined => Grounded(Updating(o, row))
      BY <1>1, <2>1 DEF Grounded, Updating, Request
    <2>4. PICK i \in Invites : TRUE
      BY RoomSetupAssumption
    <2>5. \/ Slot(p, Updating(o, [parts[o] EXCEPT !.approved = versions]))
          \/ Slot(p, Updating(o, [parts[o] EXCEPT !.policy = TRUE]))
          \/ Slot(p, Updating(o, [parts[o] EXCEPT !.agent = TRUE]))
      BY <1>0, <1>7, <2>4, Beginnings
    <2> QED
      BY <1>a, <2>1, <2>2, <2>3, <2>5
  <1>8. ASSUME NEW p \in Procs,
               \/ SendToken(p) \/ ProposeDone(p) \/ CloseDone(p) \/ GiveUp(p) \/ Crash(p)
               \/ LaunchRoom(p) \/ ReadContract(p)
        PROVE  OverlapInv' /\ TablesGrow
    <2>1. UNCHANGED <<room, parts, versions>>
      BY <1>8 DEF SendToken, ProposeDone, CloseDone, GiveUp, Crash, LaunchRoom, ReadContract
    <2>2. Slot(p, Idle) \/ Slot(p, req[p])
      BY <1>0, <1>8, OtherMoves
    <2> QED
      BY <1>0, <1>1, <1>a, <2>1, <2>2
  <1>9. ASSUME NEW p \in Procs, UseInvite(p) \/ ListInvites(p)
        PROVE  OverlapInv' /\ TablesGrow
    <2>1. UNCHANGED <<room, parts, versions>>
      BY <1>9 DEF UseInvite, ListInvites
    <2>2. /\ Grounded([req[p] EXCEPT !.step = "join"])
          /\ Grounded([req[p] EXCEPT !.step = "revokeInvites", !.open = Open])
      BY <1>0, GroundedRequests DEF Step
    <2> QED
      BY <1>0, <1>9, <1>a, <2>1, <2>2, Continuations
  <1>10. ASSUME NEW p \in Procs, Join(p)
         PROVE  OverlapInv' /\ TablesGrow
    <2>1. Slot(p, Idle) \/ Slot(p, Transition(req[p], "NEGOTIATING", "idle"))
      BY <1>0, <1>10, Continuations
    <2>2. Grounded(Transition(req[p], "NEGOTIATING", "idle"))
      BY <1>0, <1>2, GroundedRequests
    <2>3. UNCHANGED <<room, versions>>
      BY <1>10 DEF Join
    <2>4. UNCHANGED parts \/ parts' = [parts EXCEPT ![req[p].org] = Joined]
      BY <1>10 DEF Join
    <2> QED
      BY <1>1, <1>a, <1>c, <2>1, <2>2, <2>3, <2>4, FirstRows
  <1>11. ASSUME NEW p \in Procs, CreateVersion(p)
         PROVE  OverlapInv' /\ TablesGrow
    <2>1. Slot(p, Idle) \/ Slot(p, [req[p] EXCEPT !.step = "listParts"])
      BY <1>0, <1>11, Continuations
    <2>2. Grounded([req[p] EXCEPT !.step = "listParts"])
      BY <1>0, GroundedRequests DEF Step
    <2>3. UNCHANGED <<room, parts>> /\ versions' \in {versions, versions + 1}
      BY <1>11 DEF CreateVersion
    <2>4. TablesGrow
      BY <1>1, <2>3 DEF TablesGrow, Members
    <2>5. FoundedWhenReady'
      BY <1>0, <1>1, <2>3 DEF FoundedWhenReady, Founded, Members
    <2> QED
      BY <1>0, <1>1, <2>1, <2>2, <2>4, <2>5, GroundedStays
  <1>12. ASSUME NEW p \in Procs, ListParts(p)
         PROVE  OverlapInv' /\ TablesGrow
    <2>1. \A item \in Stale : item[2].joined /\ item[1] \in Members
      BY DEF Stale, Members
    <2>2. Grounded([req[p] EXCEPT !.step = "voidApprovals", !.stale = Stale])
      BY <1>0, <1>1, <2>1 DEF Grounded, Request
    <2> QED
      BY <1>0, <1>12, <1>a, <2>2, Continuations DEF ListParts
  <1>13. ASSUME NEW p \in Procs, VoidApproval(p)
         PROVE  OverlapInv' /\ TablesGrow
    <2>1. PICK item \in req[p].stale :
            /\ parts' = [parts EXCEPT ![item[1]] = [item[2] EXCEPT !.approved = 0]]
            /\ req' = [req EXCEPT ![p].stale = @ \ {item}]
      BY <1>13 DEF VoidApproval
    <2>2. item[2] \in Participant /\ item[2].joined
      BY <1>0, <1>1 DEF Request, Grounded
    <2>3. [item[2] EXCEPT !.approved = 0].joined
      BY <2>2 DEF Participant
    <2>4. Slot(p, [req[p] EXCEPT !.stale = @ \ {item}])
      BY <1>0, <2>1, Continuations
    <2>5. Grounded([req[p] EXCEPT !.stale = @ \ {item}])
      BY <1>0, <1>1 DEF Grounded, Request
    <2> QED
      BY <1>13, <1>c, <2>1, <2>3, <2>4, <2>5 DEF VoidApproval
  <1>14. ASSUME NEW p \in Procs, WritePart(p)
         PROVE  OverlapInv' /\ TablesGrow
    <2>1. req[p].part.joined
      BY <1>0, <1>14 DEF WritePart, At, Grounded
    <2>2. Grounded([req[p] EXCEPT !.step = "readRoom"])
      BY <1>0, GroundedRequests DEF Step
    <2>3. Slot(p, [req[p] EXCEPT !.step = "readRoom"])
      BY <1>0, <1>14, Continuations
    <2> QED
      BY <1>14, <1>c, <2>1, <2>2, <2>3 DEF WritePart
  <1>15. ASSUME NEW p \in Procs, ReadRoom(p)
         PROVE  OverlapInv' /\ TablesGrow
    <2>1. Grounded([req[p] EXCEPT !.step = "readVersion", !.room = room])
      BY <1>0, <1>1 DEF Grounded, Request, FoundedWhenReady
    <2> QED
      BY <1>0, <1>1, <1>15, <1>a, <2>1, Continuations DEF ReadRoom
  <1>16. ASSUME NEW p \in Procs, ReadVersion(p)
         PROVE  OverlapInv' /\ TablesGrow
    <2>1. Grounded([req[p] EXCEPT !.step = "readParts", !.version = versions])
          \/ ~(versions > 0)
      BY <1>0, <1>1 DEF Grounded, Request
    <2>2. CASE versions > 0
      BY <1>0, <1>1, <1>16, <1>a, <2>1, <2>2, Continuations DEF ReadVersion
    <2>3. CASE ~(versions > 0)
      <3>1. Slot(p, Idle)
        BY <1>0, <1>16, <2>3, Moves DEF ReadVersion, TypeOK
      <3> QED
        BY <1>1, <1>16, <1>a, <3>1 DEF ReadVersion
    <2> QED
      BY <2>2, <2>3
  <1>17. ASSUME NEW p \in Procs, ReadParts(p)
         PROVE  OverlapInv' /\ TablesGrow
    <2>1. CASE Agreed(req[p].version)
      <3>1. Members # {Creator}
        <4>1. Cardinality(Members) = 2
          BY <2>1 DEF Agreed
        <4>2. Cardinality({Creator}) = 1
          BY FS_Singleton
        <4>3. 1 # 2
          OBVIOUS
        <4> QED
          BY <4>1, <4>2, <4>3, Zenon
      <3>2. Founded
        BY <1>0, <1>17, <3>1 DEF Founded, ReadParts, At, Grounded
      <3>3. Grounded(Transition(req[p], "READY", "idle"))
        BY <1>0, <1>2, <3>2, GroundedRequests
      <3> QED
        BY <1>0, <1>1, <1>17, <1>a, <3>3, Continuations DEF ReadParts
    <2>2. CASE ~Agreed(req[p].version)
      <3>1. Slot(p, Idle)
        BY <1>0, <1>17, <2>2, Moves DEF ReadParts, TypeOK
      <3> QED
        BY <1>1, <1>17, <1>a, <3>1 DEF ReadParts
    <2> QED
      BY <2>1, <2>2
  <1>18. ASSUME NEW p \in Procs, RevokeInvite(p)
         PROVE  OverlapInv' /\ TablesGrow
    <2>1. PICK item \in req[p].open : req' = [req EXCEPT ![p].open = @ \ {item}]
      BY <1>18 DEF RevokeInvite
    <2>2. Slot(p, [req[p] EXCEPT !.open = @ \ {item}])
      BY <1>0, <2>1, Continuations
    <2>3. Grounded([req[p] EXCEPT !.open = @ \ {item}])
      BY <1>0, <1>1 DEF Grounded, Request
    <2> QED
      BY <1>18, <1>a, <2>2, <2>3 DEF RevokeInvite
  <1>19. ASSUME NEW p \in Procs,
                \/ StartRoom(p) \/ CloseRoom(p) \/ Quarantine(p)
                \/ \E to \in RoomState : MoveRoom(p, to)
         PROVE  OverlapInv' /\ TablesGrow
    <2>1. UNCHANGED <<room, parts, versions>>
      BY <1>19 DEF StartRoom, CloseRoom, Quarantine, MoveRoom
    <2>2. ASSUME NEW to \in RoomState \ {"READY"},
                 NEW then \in {"idle", "listInvites", "writeClosed", "stampStart"},
                 then = "stampStart" => Founded
          PROVE  Grounded(Moving(to, then))
      <3> DEFINE r == Moving(to, then)
      <3>1. r.step = "writeRoom" /\ r.then = then /\ r.stale = {} /\ r.room = Moved(room, to)
        BY <1>1 DEF Moving, Transition, Request, Idle
      <3>2. Moved(room, to).state = to /\ Moved(room, to).started = room.started
        BY <1>1 DEF Moved, RoomRow
      <3> HIDE DEF r
      <3> QED
        BY <1>0, <2>2, <3>1, <3>2 DEF Grounded, FoundedWhenReady, r
    <2>3. StartRoom(p) => Founded
      BY <1>0 DEF StartRoom, FoundedWhenReady
    <2>4. PICK to \in RoomState \ {"READY"},
               then \in {"idle", "listInvites", "writeClosed", "stampStart"} :
            (then = "stampStart" => Founded) /\ Slot(p, Moving(to, then))
      <3>1. ASSUME NEW to \in RoomState, MoveRoom(p, to)
            PROVE  to # "READY" /\ Slot(p, Moving(to, "idle"))
        BY <1>0, <3>1, OtherMoves DEF MoveRoom
      <3>2. StartRoom(p) => Founded /\ Slot(p, Moving("ACTIVE", "stampStart"))
        BY <1>0, <2>3, OtherMoves
      <3>3. CloseRoom(p) => \/ Slot(p, Moving("CLOSED", "listInvites"))
                            \/ Slot(p, Moving("CANCELED", "writeClosed"))
        BY <1>0, OtherMoves
      <3>4. Quarantine(p) => Slot(p, Moving("QUARANTINED", "idle"))
        BY <1>0, OtherMoves
      <3>5. {"ACTIVE", "CLOSED", "CANCELED", "QUARANTINED"} \subseteq RoomState \ {"READY"}
        BY <1>2
      <3> QED
        BY <1>19, <3>1, <3>2, <3>3, <3>4, <3>5
    <2> QED
      BY <1>a, <2>1, <2>2, <2>4
  <1>20. CASE UNCHANGED vars \/ \E i \in Invites : Expire(i)
    <2>1. UNCHANGED <<room, parts, versions, req>>
      BY <1>20 DEF vars, Expire
    <2> QED
      BY <1>0, <1>1, <2>1 DEF OverlapInv, TablesGrow, FoundedWhenReady, Grounded, Founded, Members
  <1>21. Invites # {}
    BY RoomSetupAssumption
  <1> QED
    BY <1>3, <1>4, <1>5, <1>6, <1>7, <1>8, <1>9, <1>10, <1>11, <1>12, <1>13, <1>14, <1>15, <1>16,
       <1>17, <1>18, <1>19, <1>20, <1>21 DEF Next

LEMMA InitOverlap == Init => OverlapInv
  <1> SUFFICES ASSUME Init
               PROVE  OverlapInv
    OBVIOUS
  <1>1. TypeOK /\ VersionsBounded
    BY InitType
  <1>2. Creator \in Members /\ FoundedWhenReady
    BY RoomSetupAssumption, FirstRows DEF Init, Members, FoundedWhenReady
  <1>3. \A p \in Procs : Grounded(req[p])
    BY FirstRows DEF Init, Grounded, Idle
  <1> QED
    BY <1>1, <1>2, <1>3 DEF OverlapInv

(* rooms.ts, maybeMarkReady and startRoom, for any number of requests that *)
(* overlap and any crashes: whatever rows are written over, a room that is *)
(* READY or was started has a contract and a second organisation.          *)
THEOREM ReadyIsFounded == Spec => []FoundedWhenReady
  <1>1. OverlapInv /\ [Next]_vars => OverlapInv'
    BY OverlapStep
  <1>2. OverlapInv => FoundedWhenReady
    BY DEF OverlapInv
  <1> QED
    BY <1>1, <1>2, InitOverlap, PTL DEF Spec

(* rooms.ts: the rows that handlers write back whole may be older than a   *)
(* seat or a contract version, but none of them takes one away.            *)
THEOREM SeatsAreKept == Spec => [][TablesGrow]_vars
  <1>1. OverlapInv /\ [Next]_vars => OverlapInv' /\ [TablesGrow]_vars
    BY OverlapStep
  <1> QED
    BY <1>1, InitOverlap, PTL DEF Spec
-----------------------------------------------------------------------------
(* Redemptions that overlap.  Each has passed the checks when it begins,   *)
(* and takes a seat without another look.                                  *)
Joining == {p \in Procs : req[p].step \in {"useInvite", "join"}}

SeatsBounded == Cardinality(Members) <= 1 + Cardinality(Procs)

(* A seat is free when a redemption begins; one that ends has taken a seat *)
(* at most, and nobody else does.                                          *)
SeatMove ==
  \/ Members' = Members /\ Joining' \subseteq Joining
  \/ Members' = Members /\ Cardinality(Members) < 2
  \/ \E p \in Joining, o \in Orgs : Members' = Members \cup {o} /\ Joining' \subseteq Joining \ {p}

(* Every step is one of these.                                             *)
LEMMA SeatStep == OverlapInv /\ [Next]_vars => SeatMove
  <1> SUFFICES ASSUME OverlapInv, [Next]_vars
               PROVE  SeatMove
    OBVIOUS
  <1>0. /\ TypeOK /\ parts \in [Orgs -> Participant] /\ req \in [Procs -> Request]
        /\ Idle \in Request /\ Idle.step = "idle"
        /\ \A p \in Procs : Grounded(req[p]) /\ req[p] \in Request
    BY IdleIsRequest DEF OverlapInv, TypeOK
  (* A slot that is let go, or goes on with something else.                *)
  <1>a. ASSUME NEW p \in Procs, NEW r, Slot(p, r),
               r.step \notin {"useInvite", "join"}
        PROVE  Joining' \subseteq Joining \ {p}
    BY <1>a DEF Slot, SameWork, Joining
  (* The rows of the participants are left alone.                          *)
  <1>b. ASSUME NEW p \in Procs, NEW r, Slot(p, r), UNCHANGED parts,
               r.step \notin {"useInvite", "join"}
        PROVE  SeatMove
    <2>1. Joining' \subseteq Joining
      BY <1>a, <1>b
    <2> QED
      BY <1>b, <2>1 DEF SeatMove, Members
  (* One is written, of an organisation that has joined before.            *)
  <1>c. ASSUME NEW p \in Procs, NEW r, Slot(p, r), r.step \notin {"useInvite", "join"},
               NEW o \in Members, NEW row, row.joined, parts' = [parts EXCEPT ![o] = row]
        PROVE  SeatMove
    <2>1. Joining' \subseteq Joining
      BY <1>a, <1>c
    <2>2. Members' = Members
      BY <1>0, <1>c DEF Members
    <2> QED
      BY <2>1, <2>2 DEF SeatMove
  <1>1. ASSUME NEW p \in Procs, WriteRoom(p)
        PROVE  SeatMove
    <2>1. [req[p] EXCEPT !.step = req[p].then].step \notin {"useInvite", "join"}
      BY <1>0 DEF Grounded, Request
    <2> QED
      BY <1>0, <1>1, <1>b, <2>1, Continuations DEF WriteRoom
  <1>2. ASSUME NEW p \in Procs, NEW i \in Invites, CreateInvite(p, i)
        PROVE  SeatMove
    <2> DEFINE r == [req[p] EXCEPT !.invite = i, !.step = "sendToken"]
    <2>1. r \in Request /\ r.step = "sendToken"
      BY ZenonT(30), <1>0 DEF Request, Step
    <2>2. Transition(r, "INVITED", "sendToken").step = "writeRoom"
      <3>1. "INVITED" \in RoomState /\ "sendToken" \in Step
        BY DEF RoomState, Step
      <3> HIDE DEF r
      <3> QED
        BY <2>1, <3>1, TransitionIs
    <2>3. Invited(p, i).step \in {"sendToken", "writeRoom"}
      BY <2>1, <2>2 DEF Invited
    <2> QED
      BY <1>0, <1>2, <1>b, <2>3, Continuations DEF CreateInvite
  <1>3. ASSUME NEW p \in Procs, NEW o \in Orgs, NEW i \in Invites,
               RedeemBegin(p, o, i) \/ AcceptInvitation(p, o, i)
        PROVE  SeatMove
    BY <1>3 DEF RedeemBegin, AcceptInvitation, Redeem, Redeemable, SeatMove, Members
  <1>4. ASSUME NEW p \in Procs, NEW o \in Orgs,
               \/ CreateInviteBegin(p, o) \/ ProposeBegin(p, o)
               \/ ApproveContract(p, o) \/ SetParticipantPolicy(p, o) \/ ConnectAgent(p, o)
        PROVE  SeatMove
    <2>1. UNCHANGED parts
      BY <1>4 DEF CreateInviteBegin, ProposeBegin, ApproveContract, SetParticipantPolicy,
                  ConnectAgent, UpdateParticipant
    <2>2. /\ [Idle EXCEPT !.step = "createInvite", !.org = o, !.room = room].step = "createInvite"
          /\ [Idle EXCEPT !.step = "createVersion", !.version = versions + 1].step = "createVersion"
          /\ \A row : Updating(o, row).step = "writePart"
      BY <1>0 DEF Request, Updating
    <2>3. PICK i \in Invites : TRUE
      BY RoomSetupAssumption
    <2> QED
      BY ZenonT(30), <1>0, <1>4, <1>b, <2>1, <2>2, <2>3, Beginnings
  <1>5. ASSUME NEW p \in Procs, UseInvite(p)
        PROVE  SeatMove
    <2>1. Slot(p, [req[p] EXCEPT !.step = "join"]) /\ p \in Joining
      BY <1>0, <1>5, Continuations DEF UseInvite, At, Joining
    <2>2. Joining' \subseteq Joining
      BY <2>1 DEF Slot, Joining
    <2> QED
      BY <1>5, <2>2 DEF UseInvite, SeatMove, Members
  <1>6. ASSUME NEW p \in Procs, Join(p)
        PROVE  SeatMove
    <2>1. Transition(req[p], "NEGOTIATING", "idle").step = "writeRoom"
      <3>1. "NEGOTIATING" \in RoomState /\ "idle" \in Step
        BY DEF RoomState, Step
      <3> QED
        BY <1>0, <3>1, TransitionIs
    <2>2. Joining' \subseteq Joining \ {p} /\ p \in Joining
      BY <1>0, <1>6, <1>a, <2>1, Continuations DEF Join, At, Joining
    <2>3. CASE UNCHANGED parts
      BY <2>2, <2>3 DEF SeatMove, Members
    <2>4. CASE parts' = [parts EXCEPT ![req[p].org] = Joined]
      <3>1. req[p].org \in Orgs /\ Joined.joined
        BY <1>0, FirstRows DEF Request
      <3>2. Members' = Members \cup {req[p].org}
        BY <1>0, <2>4, <3>1 DEF Members
      <3> QED
        BY <2>2, <3>1, <3>2 DEF SeatMove
    <2> QED
      BY <1>6, <2>3, <2>4 DEF Join
  <1>7. ASSUME NEW p \in Procs, VoidApproval(p)
        PROVE  SeatMove
    <2>1. PICK item \in req[p].stale :
            /\ parts' = [parts EXCEPT ![item[1]] = [item[2] EXCEPT !.approved = 0]]
            /\ req' = [req EXCEPT ![p].stale = @ \ {item}]
      BY <1>7 DEF VoidApproval
    <2>2. item[2] \in Participant /\ item[2].joined /\ item[1] \in Members
      BY <1>0, <2>1 DEF Request, Grounded
    <2>3. [item[2] EXCEPT !.approved = 0].joined
      BY <2>2 DEF Participant
    <2>4. Slot(p, [req[p] EXCEPT !.stale = @ \ {item}])
      BY <1>0, <2>1, Continuations
    <2>5. [req[p] EXCEPT !.stale = @ \ {item}].step = "voidApprovals"
      BY <1>0, <1>7 DEF VoidApproval, At, Request
    <2> QED
      BY <1>c, <2>1, <2>2, <2>3, <2>4, <2>5
  <1>8. ASSUME NEW p \in Procs, WritePart(p)
        PROVE  SeatMove
    <2>1. req[p].part.joined /\ req[p].org \in Members
      BY <1>0, <1>8 DEF WritePart, At, Grounded
    <2>2. Slot(p, [req[p] EXCEPT !.step = "readRoom"])
      BY <1>0, <1>8, Continuations
    <2>3. [req[p] EXCEPT !.step = "readRoom"].step = "readRoom"
      BY <1>0 DEF Request
    <2> QED
      BY <1>8, <1>c, <2>1, <2>2, <2>3 DEF WritePart
  <1>9. ASSUME NEW p \in Procs,
               \/ CreateVersion(p) \/ ListParts(p) \/ ReadRoom(p) \/ ReadVersion(p) \/ ReadParts(p)
               \/ WriteClosed(p) \/ ListInvites(p)
        PROVE  SeatMove
    <2>1. UNCHANGED parts
      BY <1>9 DEF CreateVersion, ListParts, ReadRoom, ReadVersion, ReadParts, WriteClosed, ListInvites
    <2>2. Transition(req[p], "READY", "idle").step = "writeRoom"
      <3>1. "READY" \in RoomState /\ "idle" \in Step
        BY DEF RoomState, Step
      <3> QED
        BY <1>0, <3>1, TransitionIs
    <2>3. /\ [req[p] EXCEPT !.step = "listParts"].step = "listParts"
          /\ [req[p] EXCEPT !.step = "voidApprovals", !.stale = Stale].step = "voidApprovals"
          /\ [req[p] EXCEPT !.step = "readVersion", !.room = room].step = "readVersion"
          /\ [req[p] EXCEPT !.step = "readParts", !.version = versions].step = "readParts"
          /\ [req[p] EXCEPT !.step = "listInvites"].step = "listInvites"
          /\ [req[p] EXCEPT !.step = "revokeInvites", !.open = Open].step = "revokeInvites"
      BY <1>0 DEF Request
    <2> QED
      BY <1>0, <1>9, <1>b, <2>1, <2>2, <2>3, Continuations
  <1>10. ASSUME NEW p \in Procs, RevokeInvite(p)
         PROVE  SeatMove
    <2>1. PICK item \in req[p].open : req' = [req EXCEPT ![p].open = @ \ {item}]
      BY <1>10 DEF RevokeInvite
    <2>2. Slot(p, [req[p] EXCEPT !.open = @ \ {item}])
      BY <1>0, <2>1, Continuations
    <2>3. [req[p] EXCEPT !.open = @ \ {item}].step = "revokeInvites"
      BY <1>0, <1>10 DEF RevokeInvite, At, Request
    <2> QED
      BY <1>10, <1>b, <2>2, <2>3 DEF RevokeInvite
  <1>11. ASSUME NEW p \in Procs,
                \/ SendToken(p) \/ ProposeDone(p) \/ CloseDone(p) \/ GiveUp(p) \/ Crash(p)
                \/ LaunchRoom(p) \/ ReadContract(p) \/ StampStart(p)
         PROVE  SeatMove
    <2>1. UNCHANGED parts
      BY <1>11 DEF SendToken, ProposeDone, CloseDone, GiveUp, Crash, LaunchRoom, ReadContract,
                   StampStart
    <2>2. \/ Slot(p, Idle)
          \/ Slot(p, req[p]) /\ req[p].step = "idle"
      BY <1>0, <1>11, OtherMoves DEF ReadContract, At
    <2> QED
      BY <1>0, <1>b, <2>1, <2>2
  <1>12. ASSUME NEW p \in Procs,
                \/ StartRoom(p) \/ CloseRoom(p) \/ Quarantine(p)
                \/ \E to \in RoomState : MoveRoom(p, to)
         PROVE  SeatMove
    <2>1. UNCHANGED parts
      BY <1>12 DEF StartRoom, CloseRoom, Quarantine, MoveRoom
    <2>2. \A to, then : Moving(to, then).step = "writeRoom"
      <3>1. ASSUME NEW to, NEW then
            PROVE  Moving(to, then).step = "writeRoom"
        <4> DEFINE r == [Idle EXCEPT !.room = room]
        <4>1. DOMAIN r = DOMAIN Idle /\ "step" \in DOMAIN Idle
          BY <1>0 DEF Request
        <4> HIDE DEF r
        <4> QED
          BY <4>1 DEF Moving, Transition, r
      <3> QED
        BY <3>1
    <2> QED
      BY <1>0, <1>12, <1>b, <2>1, <2>2, OtherMoves
  <1>13. CASE UNCHANGED vars \/ \E i \in Invites : Expire(i)
    <2>1. UNCHANGED <<parts, req>>
      BY <1>13 DEF vars, Expire
    <2> QED
      BY <2>1 DEF SeatMove, Members, Joining
  <1> QED
    BY <1>1, <1>2, <1>3, <1>4, <1>5, <1>6, <1>7, <1>8, <1>9, <1>10, <1>11, <1>12, <1>13 DEF Next

(* Every redemption under way may still take a seat.                       *)
SeatInv == /\ OverlapInv
           /\ IsFiniteSet(Members)
           /\ Cardinality(Members) + Cardinality(Joining) <= 1 + Cardinality(Procs)

(* It stays so.                                                            *)
LEMMA SeatInvStays ==
  ASSUME IsFiniteSet(Procs), SeatInv, [Next]_vars
  PROVE  SeatInv'
  <1>1. OverlapInv' /\ SeatMove
    BY OverlapStep, SeatStep DEF SeatInv
  <1>2. /\ IsFiniteSet(Joining) /\ IsFiniteSet(Joining')
        /\ Cardinality(Joining') <= Cardinality(Procs)
        /\ Cardinality(Joining) \in Nat /\ Cardinality(Joining') \in Nat
        /\ Cardinality(Members) \in Nat /\ Cardinality(Procs) \in Nat
    <2>1. Joining \subseteq Procs /\ Joining' \subseteq Procs
      BY DEF Joining
    <2> QED
      BY <2>1, FS_Subset, FS_CardinalityType DEF SeatInv
  <1>3. CASE Members' = Members /\ Joining' \subseteq Joining
    <2>1. Cardinality(Joining') <= Cardinality(Joining)
      BY <1>2, <1>3, FS_Subset
    <2> QED
      BY <1>1, <1>2, <1>3, <2>1 DEF SeatInv
  <1>4. CASE Members' = Members /\ Cardinality(Members) < 2
    BY <1>1, <1>2, <1>4 DEF SeatInv
  <1>5. ASSUME NEW p \in Joining, NEW o \in Orgs,
               Members' = Members \cup {o}, Joining' \subseteq Joining \ {p}
        PROVE  SeatInv'
    <2>1. IsFiniteSet(Members') /\ Cardinality(Members') <= Cardinality(Members) + 1
      <3> DEFINE M == Members
      <3>0. IsFiniteSet(M)
        BY DEF SeatInv
      <3>1. /\ IsFiniteSet(M \cup {o})
            /\ Cardinality(M \cup {o}) = Cardinality(M) \/ Cardinality(M \cup {o}) = Cardinality(M) + 1
        BY <3>0, FS_AddElement
      <3>2. Cardinality(M \cup {o}) <= Cardinality(M) + 1
        BY <1>2, <3>1
      <3> QED
        BY <1>5, <3>1, <3>2
    <2>2. IsFiniteSet(Joining \ {p}) /\ Cardinality(Joining \ {p}) = Cardinality(Joining) - 1
      BY <1>2, <1>5, FS_RemoveElement
    <2>3. Cardinality(Joining') <= Cardinality(Joining) - 1
      BY <1>5, <2>2, FS_Subset
    <2>4. Cardinality(Members') \in Nat
      BY <2>1, FS_CardinalityType
    <2> QED
      BY <1>1, <1>2, <2>1, <2>3, <2>4 DEF SeatInv
  <1> QED
    BY <1>1, <1>3, <1>4, <1>5 DEF SeatMove

(* redeemInvite, rooms.ts, for any finite number of requests in flight:    *)
(* redemptions that overlap may all find the last seat free, but a room    *)
(* seats at most one organisation more than requests overlap, whatever     *)
(* invitations there are and however rows are written over; so no more     *)
(* than two where none do.                                                 *)
THEOREM SeatsAreBounded ==
  ASSUME IsFiniteSet(Procs)
  PROVE  Spec => []SeatsBounded
  <1>1. Init => SeatInv
    <2> SUFFICES ASSUME Init
                 PROVE  SeatInv
      OBVIOUS
    <2>1. Members = {Creator}
      BY RoomSetupAssumption, FirstRows DEF Init, Members
    <2>2. Joining = {}
      BY IdleIsRequest DEF Init, Joining
    <2>3. /\ IsFiniteSet(Members) /\ Cardinality(Members) = 1
          /\ Cardinality(Joining) = 0 /\ Cardinality(Procs) \in Nat
      BY <2>1, <2>2, FS_Singleton, FS_EmptySet, FS_CardinalityType
    <2> QED
      BY <2>3, InitOverlap DEF SeatInv
  <1>2. SeatInv /\ [Next]_vars => SeatInv'
    BY SeatInvStays
  <1>3. SeatInv => SeatsBounded
    <2> SUFFICES ASSUME SeatInv
                 PROVE  SeatsBounded
      OBVIOUS
    <2>1. Joining \subseteq Procs
      BY DEF Joining
    <2>2. Cardinality(Joining) \in Nat /\ Cardinality(Members) \in Nat /\ Cardinality(Procs) \in Nat
      BY <2>1, FS_Subset, FS_CardinalityType DEF SeatInv
    <2> QED
      BY <2>2 DEF SeatInv, SeatsBounded
  <1> QED
    BY <1>1, <1>2, <1>3, PTL DEF Spec
=============================================================================
