------------------------------ MODULE RoomSetup ------------------------------
(***************************************************************************)
(* How two organisations set a room up: invitation, task contract,         *)
(* participant policy, agent, readiness, start; and the human moves of the *)
(* room row (pause, resume, cancel, close) and its quarantine.             *)
(* packages/core/src/rooms.ts; and the two guided requests that call these *)
(* handlers one after the other, launchRoom and acceptInvitation, of       *)
(* packages/core/src/onboarding.ts.                                        *)
(*                                                                         *)
(* A handler reads the rows it needs, then writes whole rows computed from *)
(* what it read: nothing in the store compares before it sets.  Every      *)
(* store write, and every read after the first write, is an action; the    *)
(* reads before the first write are one.  An element of Procs is a slot    *)
(* for one request in flight, so that one slot is the system whose         *)
(* requests come one after the other, and two are the system that races.   *)
(***************************************************************************)
EXTENDS RoomStates, Naturals, FiniteSets, Sequences

CONSTANTS Orgs,         \* organisations
          Creator,      \* the one whose member created the room
          Invites,      \* primary keys of the invites table
          MaxVersions,  \* bound on the contract versions proposed
          Procs,        \* requests in flight at the same time
          MaxCrashes    \* bound on the number of crashes

ASSUME RoomSetupAssumption ==
  /\ Creator \in Orgs /\ "nobody" \notin Orgs
  /\ Invites # {}
  /\ MaxVersions \in Nat \ {0}
  /\ MaxCrashes \in Nat

VARIABLES
  room,      \* the row of rooms: state, and whether startedAt is set
  parts,     \* room_participants, by organisation (unique per room)
  versions,  \* number of rows in task_contract_versions
  invites,   \* the invites table
  tokens,    \* the invites whose token createInvite has returned to its caller
  expired,   \* the invites whose expiresAt lies in the past
  req,       \* the requests in flight
  crashes    \* number of crashes so far

vars == <<room, parts, versions, invites, tokens, expired, req, crashes>>

-----------------------------------------------------------------------------
(* Rows and requests.                                                      *)

RoomRow == [state : RoomState, started : BOOLEAN]

(* contractApprovedVersion 0 is null.                                      *)
Participant == [joined : BOOLEAN, approved : 0..MaxVersions, policy : BOOLEAN, agent : BOOLEAN]

Absent == [joined |-> FALSE, approved |-> 0, policy |-> FALSE, agent |-> FALSE]
Joined == [Absent EXCEPT !.joined = TRUE]

Invite == [by : Orgs \cup {"nobody"}, redemptions : Nat, revoked : BOOLEAN]

NoInvite == [by |-> "nobody", redemptions |-> 0, revoked |-> FALSE]

Step == {"idle", "createInvite", "useInvite", "join", "createVersion", "listParts",
         "voidApprovals", "writePart", "readRoom", "readVersion", "readParts",
         "writeRoom", "sendToken", "stampStart", "writeClosed", "listInvites", "revokeInvites"}

(* What a handler carries between two store calls: the rows it read, with  *)
(* the changes it is about to write, and what it does after writing a room *)
(* row.  A guided request also carries the handlers it has yet to call,    *)
(* for whom, and the contract version that it approves.                    *)
Handler == {"propose", "policy", "agent", "approve", "invite", "readContract"}

Request == [step : Step, then : Step, room : RoomRow, org : Orgs, part : Participant,
            invite : Invites, inviteRow : Invite, version : Nat,
            stale : SUBSET (Orgs \X Participant), open : SUBSET (Invites \X Invite),
            plan : Seq(Handler), caller : Orgs, approves : Nat]

Fresh == [state |-> "DRAFT", started |-> FALSE]

Idle == [step |-> "idle", then |-> "idle", room |-> Fresh, org |-> Creator, part |-> Absent,
         invite |-> CHOOSE i \in Invites : TRUE, inviteRow |-> NoInvite, version |-> 0,
         stale |-> {}, open |-> {}, plan |-> <<>>, caller |-> Creator, approves |-> 0]

TypeOK ==
  /\ room \in RoomRow
  /\ parts \in [Orgs -> Participant]
  /\ versions \in 0..MaxVersions
  /\ invites \in [Invites -> Invite]
  /\ tokens \subseteq Invites
  /\ expired \subseteq Invites
  /\ req \in [Procs -> Request]
  /\ crashes \in 0..MaxCrashes

(* createRoom has inserted the room and its creator.                       *)
Init ==
  /\ room = Fresh
  /\ parts = [o \in Orgs |-> IF o = Creator THEN Joined ELSE Absent]
  /\ versions = 0
  /\ invites = [i \in Invites |-> NoInvite]
  /\ tokens = {}
  /\ expired = {}
  /\ req = [p \in Procs |-> Idle]
  /\ crashes = 0

-----------------------------------------------------------------------------
(* Pieces of a handler.                                                    *)

At(p, step)   == req[p].step = step
Goto(p, step) == req' = [req EXCEPT ![p].step = step]
Guided(p)     == req[p].plan # <<>>
Fail(p)       == req' = [req EXCEPT ![p] = Idle]

(* A guided request goes on with its next handler.                         *)
Follow(r, old) == [r EXCEPT !.plan = old.plan, !.caller = old.caller, !.approves = old.approves]

Done(p) ==
  req' = [req EXCEPT ![p] = IF Guided(p) THEN Follow(Idle, @) ELSE Idle]

(* A request of its own, or the next handler of a guided one.              *)
Begin(p, r) == At(p, "idle") /\ ~Guided(p) /\ req' = [req EXCEPT ![p] = r]

Call(p, handler, o, r) ==
  /\ At(p, "idle")
  /\ IF Guided(p)
     THEN /\ Head(req[p].plan) = handler /\ req[p].caller = o
          /\ req' = [req EXCEPT ![p] = [Follow(r, req[p]) EXCEPT !.plan = Tail(req[p].plan)]]
     ELSE req' = [req EXCEPT ![p] = r]

Members == {o \in Orgs : parts[o].joined}

Moved(row, to) == [row EXCEPT !.state = to]

(* transition(): the whitelist is checked against the row that was read.   *)
Transition(r, to, then) == [r EXCEPT !.step = "writeRoom", !.then = then, !.room = Moved(r.room, to)]

WriteRoom(p) ==
  /\ At(p, "writeRoom")
  /\ room' = req[p].room
  /\ IF req[p].then = "idle" THEN Done(p) ELSE Goto(p, req[p].then)
  /\ UNCHANGED <<parts, versions, invites, tokens, expired, crashes>>

-----------------------------------------------------------------------------
(* createInvite.                                                           *)

CreateInviteBegin(p, o) ==
  /\ room.state \in {"DRAFT", "INVITED"}
  /\ o \in Members
  /\ \E i \in Invites : invites[i].by = "nobody"
  /\ Call(p, "invite", o, [Idle EXCEPT !.step = "createInvite", !.org = o, !.room = room])
  /\ UNCHANGED <<room, parts, versions, invites, tokens, expired, crashes>>

CreateInvite(p, i) ==
  /\ At(p, "createInvite")
  /\ invites[i].by = "nobody"
  /\ invites' = [invites EXCEPT ![i].by = req[p].org]
  /\ req' = [req EXCEPT ![p] =
       LET r == [req[p] EXCEPT !.invite = i, !.step = "sendToken"] IN
       IF r.room.state = "DRAFT" THEN Transition(r, "INVITED", "sendToken") ELSE r]
  /\ UNCHANGED <<room, parts, versions, tokens, expired, crashes>>

SendToken(p) ==
  /\ At(p, "sendToken")
  /\ tokens' = tokens \cup {req[p].invite}
  /\ Done(p)
  /\ UNCHANGED <<room, parts, versions, invites, expired, crashes>>

-----------------------------------------------------------------------------
(* redeemInvite.                                                           *)

Redeemable(o, i) ==
  /\ i \in tokens
  /\ ~invites[i].revoked /\ i \notin expired /\ invites[i].redemptions < 1
  /\ o # invites[i].by /\ o \notin Members
  /\ Cardinality(Members) < 2

Redeem(p, o, i, plan) ==
  /\ Redeemable(o, i)
  /\ Begin(p, [Idle EXCEPT !.step = "useInvite", !.org = o, !.room = room, !.invite = i,
                           !.inviteRow = invites[i], !.plan = plan, !.caller = o])
  /\ UNCHANGED <<room, parts, versions, invites, tokens, expired, crashes>>

RedeemBegin(p, o, i) == Redeem(p, o, i, <<>>)

(* Seeded fault: the redemption is not counted.                            *)
UseInviteUncounted(p) ==
  /\ At(p, "useInvite")
  /\ Goto(p, "join")
  /\ UNCHANGED <<room, parts, versions, invites, tokens, expired, crashes>>

UseInvite(p) ==
  /\ At(p, "useInvite")
  /\ invites' = [invites EXCEPT ![req[p].invite] = [req[p].inviteRow EXCEPT !.redemptions = @ + 1]]
  /\ Goto(p, "join")
  /\ UNCHANGED <<room, parts, versions, tokens, expired, crashes>>

(* The insert fails on a second row of the same organisation; the          *)
(* transition that follows it throws when the room was not INVITED.        *)
Join(p) ==
  LET r == req[p] IN
  /\ At(p, "join")
  /\ \/ /\ r.org \notin Members
        /\ parts' = [parts EXCEPT ![r.org] = Joined]
        /\ IF CanTransition(r.room.state, "NEGOTIATING")
           THEN req' = [req EXCEPT ![p] = Transition(r, "NEGOTIATING", "idle")]
           ELSE Fail(p)
     \/ r.org \in Members /\ Fail(p) /\ UNCHANGED parts
  /\ UNCHANGED <<room, versions, invites, tokens, expired, crashes>>

-----------------------------------------------------------------------------
(* proposeContract: a new version, then the approvals that it voids.       *)

Proposable == {"DRAFT", "INVITED", "NEGOTIATING"}

(* Seeded fault: a contract may also be proposed for a READY room.         *)
ProposeBeginReady(p, o) ==
  /\ o \in Members
  /\ room.state \in Proposable \cup {"READY"}
  /\ versions < MaxVersions
  /\ Call(p, "propose", o, [Idle EXCEPT !.step = "createVersion", !.version = versions + 1])
  /\ UNCHANGED <<room, parts, versions, invites, tokens, expired, crashes>>

ProposeBegin(p, o) ==
  /\ o \in Members
  /\ room.state \in Proposable
  /\ versions < MaxVersions
  /\ Call(p, "propose", o, [Idle EXCEPT !.step = "createVersion", !.version = versions + 1])
  /\ UNCHANGED <<room, parts, versions, invites, tokens, expired, crashes>>

(* UNIQUE (room_id, version).                                              *)
CreateVersion(p) ==
  /\ At(p, "createVersion")
  /\ \/ /\ req[p].version = versions + 1
        /\ versions' = req[p].version
        /\ Goto(p, "listParts")
     \/ req[p].version <= versions /\ Fail(p) /\ UNCHANGED versions
  /\ UNCHANGED <<room, parts, invites, tokens, expired, crashes>>

ListParts(p) ==
  /\ At(p, "listParts")
  /\ req' = [req EXCEPT ![p].step = "voidApprovals",
                        ![p].stale = {<<o, parts[o]>> : o \in {m \in Members : parts[m].approved # 0}}]
  /\ UNCHANGED <<room, parts, versions, invites, tokens, expired, crashes>>

VoidApproval(p) ==
  /\ At(p, "voidApprovals")
  /\ \E item \in req[p].stale :
       /\ parts' = [parts EXCEPT ![item[1]] = [item[2] EXCEPT !.approved = 0]]
       /\ req' = [req EXCEPT ![p].stale = @ \ {item}]
  /\ UNCHANGED <<room, versions, invites, tokens, expired, crashes>>

ProposeDone(p) ==
  /\ At(p, "voidApprovals")
  /\ req[p].stale = {}
  /\ Done(p)
  /\ UNCHANGED <<room, parts, versions, invites, tokens, expired, crashes>>

-----------------------------------------------------------------------------
(* approveContract, setParticipantPolicy, connectAgentToRoom: one write of *)
(* the caller's participant row, then maybeMarkReady.                      *)

UpdateParticipant(p, handler, o, row) ==
  /\ o \in Members
  /\ Call(p, handler, o, [Idle EXCEPT !.step = "writePart", !.org = o, !.part = row])
  /\ UNCHANGED <<room, parts, versions, invites, tokens, expired, crashes>>

(* Seeded fault: off by one.                                               *)
ApproveContractNext(p, o) ==
  /\ versions > 0
  /\ UpdateParticipant(p, "approve", o, [parts[o] EXCEPT !.approved = versions + 1])

(* Only the latest version can be approved; the room's state is not asked. *)
ApproveContract(p, o) ==
  /\ versions > 0
  /\ Guided(p) => req[p].approves = versions
  /\ UpdateParticipant(p, "approve", o, [parts[o] EXCEPT !.approved = versions])

PolicyFrozen == {"ACTIVE", "COMPLETION_PROPOSED", "COMPLETED", "CLOSED", "CANCELED"}

SetParticipantPolicy(p, o) ==
  /\ room.state \notin PolicyFrozen
  /\ UpdateParticipant(p, "policy", o, [parts[o] EXCEPT !.policy = TRUE])

ConnectAgent(p, o) ==
  UpdateParticipant(p, "agent", o, [parts[o] EXCEPT !.agent = TRUE])

(* Seeded fault: readiness is looked at only when the contract is approved.*)
WritePartUnasked(p) ==
  /\ At(p, "writePart")
  /\ parts' = [parts EXCEPT ![req[p].org] = req[p].part]
  /\ IF req[p].part.approved # parts[req[p].org].approved THEN Goto(p, "readRoom") ELSE Done(p)
  /\ UNCHANGED <<room, versions, invites, tokens, expired, crashes>>

WritePart(p) ==
  /\ At(p, "writePart")
  /\ parts' = [parts EXCEPT ![req[p].org] = req[p].part]
  /\ Goto(p, "readRoom")
  /\ UNCHANGED <<room, versions, invites, tokens, expired, crashes>>

(* maybeMarkReady: three reads, and a write if they agree.                 *)
ReadRoom(p) ==
  /\ At(p, "readRoom")
  /\ IF room.state = "NEGOTIATING"
     THEN req' = [req EXCEPT ![p].step = "readVersion", ![p].room = room]
     ELSE Done(p)
  /\ UNCHANGED <<room, parts, versions, invites, tokens, expired, crashes>>

ReadVersion(p) ==
  /\ At(p, "readVersion")
  /\ IF versions > 0
     THEN req' = [req EXCEPT ![p].step = "readParts", ![p].version = versions]
     ELSE Done(p)
  /\ UNCHANGED <<room, parts, versions, invites, tokens, expired, crashes>>

(* Both organisations have approved this version, set a policy, and        *)
(* connected an agent.                                                     *)
Agreed(version) ==
  /\ Cardinality(Members) = 2
  /\ \A o \in Members : parts[o].approved = version /\ parts[o].policy /\ parts[o].agent

ReadParts(p) ==
  /\ At(p, "readParts")
  /\ IF Agreed(req[p].version)
     THEN req' = [req EXCEPT ![p] = Transition(@, "READY", "idle")]
     ELSE Done(p)
  /\ UNCHANGED <<room, parts, versions, invites, tokens, expired, crashes>>

-----------------------------------------------------------------------------
(* startRoom, pauseRoom, resumeRoom, cancelRoom, closeRoom, quarantine.    *)

StartRoom(p) ==
  /\ room.state = "READY"
  /\ Begin(p, Transition([Idle EXCEPT !.room = room], "ACTIVE", "stampStart"))
  /\ UNCHANGED <<room, parts, versions, invites, tokens, expired, crashes>>

(* The second write of startRoom sets startedAt.                           *)
StampStart(p) ==
  /\ At(p, "stampStart")
  /\ room' = [req[p].room EXCEPT !.started = TRUE]
  /\ Done(p)
  /\ UNCHANGED <<parts, versions, invites, tokens, expired, crashes>>

(* pauseRoom, resumeRoom and cancelRoom: nothing but the whitelist.        *)
MoveRoom(p, to) ==
  /\ to \in {"PAUSED", "ACTIVE", "CANCELED"}
  /\ CanTransition(room.state, to)
  /\ Begin(p, Transition([Idle EXCEPT !.room = room], to, "idle"))
  /\ UNCHANGED <<room, parts, versions, invites, tokens, expired, crashes>>

CloseRoom(p) ==
  /\ \/ /\ room.state \in {"COMPLETED", "CANCELED", "QUARANTINED"}
        /\ Begin(p, Transition([Idle EXCEPT !.room = room], "CLOSED", "listInvites"))
     \/ /\ room.state \notin {"COMPLETED", "CANCELED", "QUARANTINED"}
        /\ CanTransition(room.state, "CANCELED")
        /\ Begin(p, Transition([Idle EXCEPT !.room = room], "CANCELED", "writeClosed"))
  /\ UNCHANGED <<room, parts, versions, invites, tokens, expired, crashes>>

WriteClosed(p) ==
  /\ At(p, "writeClosed")
  /\ room' = Moved(req[p].room, "CLOSED")
  /\ Goto(p, "listInvites")
  /\ UNCHANGED <<parts, versions, invites, tokens, expired, crashes>>

(* Seeded fault: invitations stay open.                                    *)
ListInvitesKept(p) ==
  /\ At(p, "listInvites")
  /\ Goto(p, "revokeInvites")
  /\ UNCHANGED <<room, parts, versions, invites, tokens, expired, crashes>>

ListInvites(p) ==
  /\ At(p, "listInvites")
  /\ req' = [req EXCEPT ![p].step = "revokeInvites",
                        ![p].open = {<<i, invites[i]>> :
                           i \in {j \in Invites : /\ invites[j].by # "nobody"
                                                  /\ ~invites[j].revoked
                                                  /\ invites[j].redemptions = 0}}]
  /\ UNCHANGED <<room, parts, versions, invites, tokens, expired, crashes>>

RevokeInvite(p) ==
  /\ At(p, "revokeInvites")
  /\ \E item \in req[p].open :
       /\ invites' = [invites EXCEPT ![item[1]] = [item[2] EXCEPT !.revoked = TRUE]]
       /\ req' = [req EXCEPT ![p].open = @ \ {item}]
  /\ UNCHANGED <<room, parts, versions, tokens, expired, crashes>>

CloseDone(p) ==
  /\ At(p, "revokeInvites")
  /\ req[p].open = {}
  /\ Done(p)
  /\ UNCHANGED <<room, parts, versions, invites, tokens, expired, crashes>>

(* The third secret of one sender: the pipeline wants a participant with a *)
(* policy and a contract, and looks for secrets before it looks at the     *)
(* room's state.                                                           *)
Quarantine(p) ==
  /\ versions > 0
  /\ \E o \in Members : parts[o].policy
  /\ CanTransition(room.state, "QUARANTINED")
  /\ Begin(p, Transition([Idle EXCEPT !.room = room], "QUARANTINED", "idle"))
  /\ UNCHANGED <<room, parts, versions, invites, tokens, expired, crashes>>

-----------------------------------------------------------------------------
(* Guided onboarding.                                                      *)

(* launchRoom: everything on the inviting side of a room that has just     *)
(* been created; an agent only when the organisation has one.              *)
LaunchRoom(p) ==
  /\ room = Fresh /\ versions = 0 /\ Members = {Creator} /\ parts[Creator] = Joined
  /\ \A i \in Invites : invites[i].by = "nobody"
  /\ \E agent \in {<<>>, <<"agent">>} :
       Begin(p, [Idle EXCEPT !.plan = <<"propose", "policy">> \o agent \o <<"approve", "invite">>,
                             !.approves = 1])
  /\ UNCHANGED <<room, parts, versions, invites, tokens, expired, crashes>>

(* acceptInvitation: redeemInvite first, and then everything on this side. *)
AcceptInvitation(p, o, i) == Redeem(p, o, i, <<"readContract">>)

(* The contract that it has found is the one whose scope becomes the       *)
(* policy, and the one that it approves; without one the caller may bring  *)
(* a policy.                                                               *)
ReadContract(p) ==
  /\ At(p, "idle") /\ Guided(p) /\ Head(req[p].plan) = "readContract"
  /\ \E agent \in {<<>>, <<"agent">>}, policy \in {<<>>, <<"policy">>} :
       LET plan == policy \o agent \o (IF versions > 0 THEN <<"approve">> ELSE <<>>) IN
       /\ versions > 0 => policy # <<>>
       /\ req' = [req EXCEPT ![p] =
            IF plan = <<>> THEN Idle ELSE [@ EXCEPT !.plan = plan, !.approves = versions]]
  /\ UNCHANGED <<room, parts, versions, invites, tokens, expired, crashes>>

(* The next handler throws, and with it the guided request.  A policy that *)
(* the invited side brings may not parse; launchRoom's is the template's.  *)
Refused(p) ==
  LET next == Head(req[p].plan) IN
  \/ next = "propose" /\ room.state \notin Proposable
  \/ next = "policy"  /\ (room.state \in PolicyFrozen \/ req[p].caller # Creator)
  \/ next = "approve" /\ req[p].approves # versions
  \/ next = "invite"  /\ room.state \notin {"DRAFT", "INVITED"}

GiveUp(p) ==
  /\ At(p, "idle") /\ Guided(p)
  /\ Refused(p)
  /\ Fail(p)
  /\ UNCHANGED <<room, parts, versions, invites, tokens, expired, crashes>>

-----------------------------------------------------------------------------
(* The surroundings.                                                       *)

Expire(i) ==
  /\ invites[i].by # "nobody"
  /\ i \notin expired
  /\ expired' = expired \cup {i}
  /\ UNCHANGED <<room, parts, versions, invites, tokens, req, crashes>>

Crash(p) ==
  /\ crashes < MaxCrashes
  /\ ~At(p, "idle") \/ Guided(p)
  /\ crashes' = crashes + 1
  /\ Fail(p)
  /\ UNCHANGED <<room, parts, versions, invites, tokens, expired>>

Next ==
  \/ \E p \in Procs :
       \/ WriteRoom(p)
       \/ \E o \in Orgs : CreateInviteBegin(p, o)
       \/ \E i \in Invites : CreateInvite(p, i)
       \/ SendToken(p)
       \/ \E o \in Orgs, i \in Invites : RedeemBegin(p, o, i)
       \/ UseInvite(p) \/ Join(p)
       \/ \E o \in Orgs : ProposeBegin(p, o)
       \/ CreateVersion(p) \/ ListParts(p) \/ VoidApproval(p) \/ ProposeDone(p)
       \/ \E o \in Orgs : \/ ApproveContract(p, o)
                          \/ SetParticipantPolicy(p, o)
                          \/ ConnectAgent(p, o)
       \/ WritePart(p) \/ ReadRoom(p) \/ ReadVersion(p) \/ ReadParts(p)
       \/ StartRoom(p) \/ StampStart(p)
       \/ \E to \in RoomState : MoveRoom(p, to)
       \/ CloseRoom(p) \/ WriteClosed(p) \/ ListInvites(p) \/ RevokeInvite(p) \/ CloseDone(p)
       \/ Quarantine(p)
       \/ LaunchRoom(p) \/ ReadContract(p) \/ GiveUp(p)
       \/ \E o \in Orgs, i \in Invites : AcceptInvitation(p, o, i)
       \/ Crash(p)
  \/ \E i \in Invites : Expire(i)

Spec == Init /\ [][Next]_vars

-----------------------------------------------------------------------------
(* roomSetupStatus: the steps of the checklist that are not done, as the   *)
(* members of one organisation see it.  There is one other participant at  *)
(* most.                                                                   *)
SetUp(o) == parts[o].policy /\ parts[o].agent /\ versions > 0 /\ parts[o].approved = versions

OpenSteps(me) ==
  LET invited == {i \in Invites : invites[i].by # "nobody"} # {}
      theirs  == Members \ {me}
  IN {step \in {"contract", "policy", "agent", "approve", "invited", "joined", "their_setup"} :
        CASE step = "contract"    -> versions = 0
          [] step = "policy"      -> ~parts[me].policy
          [] step = "agent"       -> ~parts[me].agent
          [] step = "approve"     -> versions = 0 \/ parts[me].approved # versions
          [] step = "invited"     -> ~invited /\ theirs = {}
          [] step = "joined"      -> theirs = {}
          [] step = "their_setup" -> ~\E o \in theirs : SetUp(o)}

-----------------------------------------------------------------------------
(* Properties.                                                             *)

Quiet == \A p \in Procs : At(p, "idle") /\ ~Guided(p)

(* A room that is READY, and one that startRoom has started in whatever    *)
(* state it is by now, has exactly two organisations, and each has         *)
(* approved the latest contract version, set its policy and connected its  *)
(* agent; also after a crash in the middle of a proposal or an approval.   *)
(* (An ACTIVE room may never have been started: quarantine pauses a room   *)
(* that still negotiates, and resumeRoom asks for nothing else.)           *)
ReadyIsAgreed == room.state = "READY" \/ room.started => Agreed(versions)

(* An invitation seats one organisation, and a room seats one besides its  *)
(* creator: whoever joined was paid for by a redemption of its own.        *)
OneSeatPerInvite ==
  /\ Cardinality(Members \ {Creator}) <= Cardinality({i \in Invites : invites[i].redemptions > 0})
  /\ Cardinality(Members) <= 2

(* No readiness is missed: whichever handler completes the agreement, the  *)
(* last write of a guided request included, finds that the room is READY.  *)
(* So nobody has to guess why "Start" is not available (roomSetupStatus):  *)
(* to each side the checklist shows an open step until it is, and none     *)
(* from then on.                                                           *)
ReadyWhenAgreed ==
  room.state \in {"DRAFT", "INVITED", "NEGOTIATING", "READY"} /\ crashes = 0 /\ Quiet =>
    \A me \in Members : OpenSteps(me) = {} <=> room.state = "READY"

(* A closed room has no invitation left that could be redeemed.            *)
ClosedHasNoOpenInvite ==
  room.state = "CLOSED" /\ crashes = 0 /\ Quiet =>
    \A i \in tokens : invites[i].revoked \/ invites[i].redemptions > 0

=============================================================================
