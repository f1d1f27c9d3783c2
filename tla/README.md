# Verification of the rooms

TLA+ models of Secure Agent Rooms, TLC runs that check them on small instances,
and proofs that TLAPS checks for every value of the constants. Every definition
is translated from the TypeScript under `src/`. The `map` in `PROJECT.json` gives
the lines of each one.

- [1. The system](#1-the-system)
- [2. The modules](#2-the-modules)
- [3. What the runs show](#3-what-the-runs-show)
- [4. Where the code and its documents disagree](#4-where-the-code-and-its-documents-disagree)
- [5. What is proved](#5-what-is-proved)
- [6. Races between requests](#6-races-between-requests)
- [7. What is left out](#7-what-is-left-out)
- [8. Plan](#8-plan)

To repeat a check, in this directory: `tlc -config Approvals_race.cfg MCApprovals.tla`
and `tlapm Approvals_proofs.tla`.

## 1. The system

Two organisations each connect an agent to a *room*. The agents never talk to
each other: every event passes a pipeline that filters it, classifies it, asks a
policy engine and then routes it, holds it for a human, or blocks it. A room runs
under a contract that both organisations approved, within budgets, and everything
is written to a hash-chained audit log.

One Node process serves the API, polls the rooms and sends the mails
(`docs/deployment.md:94` pins one replica). Inside it, requests interleave at every
`await`. The store runs every call as one statement or one transaction, and no
transaction spans two calls, so a handler is a sequence of atomic steps and
whatever it read earlier may be stale.

| Component | State | Operations | What is hard about it | What makes it correct |
|---|---|---|---|---|
| Room lifecycle (`core/rooms.ts`) | `rooms`, `room_participants`, `invites`, `task_contract_versions` | invite, redeem, propose and approve a contract, set a policy, connect an agent, start, pause, resume, cancel, close, complete | whole rows written back from a stale read; several writes without a transaction; moves that skip the whitelist | READY and started mean agreed, seats are paid for, states move along `canTransition` |
| Approvals (`core/approvals.ts`) | `approvals` | hold, approve, reject, expire, void | two deciders, a lapse or a closure at the same time; an edited body; crash after the claim | decided once, released as held, told to the room, void once it is closed |
| Event pipeline (`core/pipeline.ts`) | event stream; writes `approvals`, `evidence`, `criterion_statuses`, `rooms` | submit a candidate event | everything is read before anything is written; the third blocked secret | nothing barred crosses, answers stay within requests |
| Data loss prevention (`packages/dlp`) | none | classify | labels that are declared and labels that are found | the stricter of both |
| Policy engine (`packages/policy`) | none | decide | the first applicable rule hides later ones | what is allowed meets every layer |
| Rego mirror (`policy/src/rego`) | none | the same decision, in Rego | drift | agreement with the engine |
| Audit log (`packages/audit`, `core/audit.ts`) | `audit_events`, `audit_checkpoints` | append, checkpoint, verify | concurrent appends; tampering; a head that is signed late | one chain, true checkpoints, tampering is found |
| Orchestrator (`core/orchestrator.ts`) | `rooms.usage` | run a turn | budgets are checked before and counted after | turns are bounded |
| Runtime (`core/runtime.ts`) | marker and lock, both in memory | poll, drive, halt, `/step` | poll, `/step`, restart and humans at the same time | one drive at a time, a held room waits, a new event is served |
| Notification outbox (`core/notifications.ts`) | `notifications` | enqueue, claim, send, mark | a crash between sending and marking, retries, reminders that come too late | few duplicates, retries end, every row settles |
| Store (`packages/database`) | all tables | one atomic statement or transaction per call | conditional updates, the advisory lock | see its users |
| Accounts (`core/identity.ts`, `members.ts`) | users, organisations, memberships, sessions | register, log in, change members | the last owner; registration in six writes | an organisation keeps an owner, nobody is half registered |
| Onboarding (`core/onboarding.ts`) | none of its own | launch a room, accept an invitation | many lifecycle calls in one request, any of which may refuse or be the last | as for the lifecycle |
| API (`apps/api`) | idempotency records, rate buckets, open streams | routes, replay, stream | a retry during the first execution | at most one execution |
| Sandbox agent (`agents/heuristic.ts`), templates (`shared/templates.ts`) | none | answer a turn from its input | two agents, two policies, the orchestrator and a human between them | no answer twice, the demo ends |
| Room page (`apps/web`) | what the last poll brought, a draft of the contract | poll, edit, press a button | buttons on states that are over; a draft that no poll changes | the server refuses what is over; a done task is evidenced |
| Other agents, email, demo | none in a room | I/O | failures and timeouts | assumed to answer anything or fail |

How they interact: the API calls the lifecycle, the approvals and the pipeline.
The runtime calls the orchestrator, which calls an agent and hands its answers to
the pipeline. The pipeline calls DLP and the engine, inserts approvals and queues
mails. A decided approval puts the held body into the stream. Closing a room voids
approvals and revokes invitations. All of them end with an append to the audit log.

`PROJECT.json` lists under `hazards`, by line, what of this a test would hardly
reach, with the property that speaks about it or the reason why none does.

## 2. The modules

```
RoomStates        states and canTransition (shared/room.ts)
 |-- RoomSetup          from DRAFT to READY, with humans, quarantine and closing
 |-- RoomExecution      from READY to CLOSED: turns, budgets, evidence, completion
 |-- Runtime            poll, lock, drives, /step, restarts
 |-- Approvals          approvals and their release  -- implements --> SingleUseGrant
 `-- PolicyEngine       the rule table, and its mirror in Rego
      |-- Gateway       the pipeline around it
      `-- Sandbox       two sandbox agents, set up from Templates, with turns, policy,
                        effects and humans between them
RoomPage          the page of a room, its contract form and its buttons
AuditChain        the log
Notifications     the outbox
Accounts          people and their roles in an organisation
Api               what surrounds every request, and the live streams
```

Each `MC*` module extends one of these with the symmetry set and, for Gateway, a
small world of policies, contracts and detectors, for Sandbox the templates and the
settings of the policy form that are tried. A `*_proofs` module holds the theorems of the
module it is named after; `Workers_proofs` those of Runtime and Notifications,
`Histories_proofs` those of AuditChain and Sandbox, `People_proofs` those of Accounts and
RoomPage.

**How a handler is modelled.** In Approvals, AuditChain, RoomSetup,
RoomExecution, Accounts and Api an element of `Procs` is a request in flight: a record with the name
of its next store call and the rows that it has read. Every store write is an
action, every read after the first write is an action, and the reads before the
first write are one action together with the checks on them, since nothing has
happened yet that they could disturb. Rows are written whole where the code writes
them whole, with what the request read, and conditionally where the SQL has a
condition. `Crash` drops a request at any step. In Runtime the unit is what happens
between two `await`s.

- **RoomSetup** keeps the room row, the participants (each with approved version,
  policy and agent), the number of contract versions and the invitations. An
  operation such as redeeming is `RedeemBegin`, `UseInvite`, `Join`, `ReadRoom`,
  `WriteRoom`; `maybeMarkReady` is `ReadRoom`, `ReadVersion`, `ReadParts`,
  `WriteRoom`; `OpenSteps` is the checklist of `roomSetupStatus`. It also has start, pause, resume, cancel and close, because they
  share the row. Guided onboarding (`LaunchRoom`, `AcceptInvitation`) is a request
  with a plan, a sequence of those handlers: when one is done `Call` begins the
  next, whose own checks may refuse, which ends the request with what is written so
  far (`GiveUp`); a crash may end it after any write.
- **RoomExecution** starts where RoomSetup may end, at READY. It has the turn
  (budget check, agent, account), the proposal, evidence and its verification,
  consent, completion, and the pauses that the runtime and the pipeline cause. Any two of
  these may overlap, two turns as well, since a `/step` and a scan can take the same room
  up. What that does is kept in the request's `from` (the state of the room that it goes
  on from, as it read or checked it) and in two history variables: `lost` counts the
  accounts of turns that an older row writes over, `late` has the criteria that were verified
  while a submission that had found them unverified was still to write. Whether the time is
  over is left open in `RefuseTurn`.
- **Sandbox** composes what Runtime, Gateway, Approvals and RoomExecution are about
  separately, seen from two sandbox agents: `customerTurn` and `providerTurn` are what
  the agents answer to the input that the orchestrator builds (`pendingRequests`,
  `recentEvents`), `nextParticipant` and `loopDetected` are the orchestrator's,
  `Verdicts` asks the rule table of PolicyEngine under the contract and the policies
  of **Templates**, edited by the form or not. A turn is `RunTurn`, `Submit`,
  `Effect`, `Check`; a human approves (`Approve`, `Release`, `CallEffect`), rejects,
  posts, pauses, resumes, steps, or lets an approval lapse; the process restarts. The
  poll and a submission are one action each here, since the modules before take them apart.
- **RoomPage** is the page as a cache: `RefreshRoom` and `RefreshEvidence` copy what the
  server has, a button's guard is what the page shows, and the handler behind it, one
  action, asks the server's rows. The draft of the contract is edited by the actions of
  the form and filled only while it is null.
- **Runtime** is `scan`, `driveRoom`, `haltRoom` and `/step`. A row's read and
  write that belong together are one action here. What may come between them is
  RoomExecution's subject. `Connect` has the returns of `driveRoom` before its loop. With
  one participant (`Participants`) it frees the lock and sets no marker; a room that runs
  always has two, since the second is written before the room negotiates (`rooms.ts:223`)
  and none is ever deleted, so the runs have two. With a participant without an agent
  (`~staffed`) it goes to the `finally` block, which sets the marker. `ConnectAgent` staffs the
  room later on; nothing takes a connection away.
- **Gateway** is `submitCandidateEvent`: `Submit` reads, filters, classifies and
  decides, and the slot then has one write left (route, hold, block) or two (block
  a secret, then count). Releasing, changing a policy and moving the room are one
  action each. **PolicyEngine** is the rule table as a sequence of rules with a
  `when` part, of which the first applicable one decides; `MirrorDecision` is what the Rego module
  would answer to the same question.
- **Approvals** is `decideApproval` with expiry, the hash check, the detectors and
  the conditional claim, and the other writers of the table: the pipeline and
  `closeRoom`. The history variable `late` has the approvals that were stored after
  `closeRoom` had listed what to void. **SingleUseGrant** is what callers may rely on, as a log that
  is only appended to: what a grant holds never changes, it is let go once or refused once,
  never both. The refinement maps the stream to that log event by event, so that a second
  release would be a step which the grant does not have.
- **AuditChain** is the transaction under the advisory lock, taken apart into
  lock, read and insert; checkpoints; `verifyChain`; and changes of the table
  behind the program's back. `Act` stands for the writes of any handler, which
  is why the other modules leave their audits out.
- **Notifications** is the queueing after `createApproval` and after a proposal of
  completion, and the dispatcher. The row's unique `dedupe_key` tells a reminder from
  the first mail, but not a second proposal of completion from the first: of that the
  room's members are told once. The other kinds of mail are queued in the same way.
- **Accounts** is `registerOrganization` with the session that its route creates,
  `addMember`, `changeMemberRole` and `removeMember` over the rows of users and
  memberships of one organisation, with the sandbox agent and the mail that a
  registration creates (`Whole`). Other registrants' organisations are like it and
  are not kept. An address has one spelling here: the store looks an account up
  without regard to case, while its UNIQUE constraint regards it. `raced` is a history variable: it
  says that the owners have changed while another request was about to change a row.
- **Api** is one user: the hooks before and after each handler (session, rate bucket,
  idempotency record), and the stream handlers with their counter. Time is relative:
  where the code compares a moment with now, the model has an age, or the ticks that
  are left. The bucket of a caller without a session is kept by the same function under
  the caller's address. What a handler does is that of the other modules; here it
  succeeds or fails. The deadline of a stream is a free choice of `EndStream`, a
  `Restart` loses what is in memory, and a record may fail to be written.

Operators whose comment begins "Seeded fault" sit beside the definition that they
would replace. Each is a plausible mistake in that code, and the property it is
paired with in `PROJECT.json` (`mutants`) fails under it: this is how we know
that every property depends on the code.

## 3. What the runs show

| Run | Instance | Shows |
|---|---|---|
| `Approvals_race` | 1 approval, 2 bodies, 3 requests, 1 crash | decided at most once; what is released is what was held; no decision is lost without a crash; closing leaves nothing PENDING but what came too late to be seen; SingleUseGrant is implemented |
| `AuditChain_append` | 2 contents, 3 requests, 3 audited actions, 1 crash, 1 tampering | no fork and no gap; checkpoints stay true; an edit, a swap and a deletion before the end are found; every action is in the log without a crash |
| `Gateway_two` | 2 participants, 2 policies, 2 contracts, 1 submission in flight, 2 events, 4 in all with blocked secrets | nothing barred crosses; answers stay within requests; what crosses by itself meets every layer; the third secret stops the room |
| `RoomSetup_serial` | 3 organisations, 2 invitations, 2 versions, 1 request at a time, 1 crash | READY and started are agreed; one seat per invitation; the checklist is empty exactly when the room is READY; closing leaves no open invitation; all of it for single and for guided requests |
| `RoomExecution_two` | 2 organisations, 1 criterion, 2 turns, 2 requests or turns in flight, 1 crash, 1 lost account | completed is consented, and verified but for a verification over a submission under way; the turn budget, with its price for a crash, a lost account and an overlap; only who knew the room in another state leaves the whitelist |
| `Runtime_drive` | 3 drives, 2 participants with or without agents, 2 turns per pickup, 2 turns, 2 events, 1 human move, 1 incident | drives do not multiply; a held room waits; a new event is served |
| `Notifications_one` | 1 recipient, 1 approval, 2 proposals of completion, 1 dispatcher, batch 2, 2 attempts, 1 crash or lost answer | few duplicates, however often the event is repeated; retries end; few late reminders; every row settles |
| `Accounts_race` | 3 people, 2 requests, 3 membership rows, 1 crash | one membership per person; a registration adopts nobody's account; only a crash leaves one half done; an owner is kept unless two changes overlap |
| `Api_hooks` | 2 requests, 2 keys, 3 stream handlers, limit 2, window 3 ticks, 2 streams allowed | no window lets more than two limits through; what was answered is not executed again; the counter of streams is exact |
| `Sandbox_demo` | templates with 3, 2 and 1 criteria, 3 settings of either policy, 12 turns per pickup, 18 turns, 12 events shown, 1 incident | no request is answered and no criterion evidenced twice without cause; the completion is proposed |

The other two runs are the counterexamples of section 4.

**Why the bounds are enough.** In Approvals two deciders and one other writer are
what a race over one row needs, and approvals share nothing but the stream, so one
is enough; two bodies let the stored one be edited. A third auditor is needed to
fork a chain that two have extended, and three rows are the least with a first, a
middle and a last one. Three organisations and two invitations allow two to compete
for one seat; a second version makes approvals stale. In RoomExecution two requests are
what writes over one another; one criterion is enough, as the submission, the
verification and the proposal that race are about the same one, and one lost account is the
turn that goes beyond the budget. Two events are a request and its answer, and three
blocked secrets with one more (`MaxTotal` counts both) are the threshold and the
secret after it. Three drives are the poll's, a `/step`'s and one more, which would
show a lock that two have given away. Two attempts have one that is tried again and
one that is the last (three were checked too, in some minutes). Two requests under two
keys are one and its retry, or two that have nothing to do with each other; three stream
handlers are one more than two streams allowed; a window of three ticks has a beginning,
a middle and an end, and a bucket is pruned after two windows, where the code waits for
five: pruning earlier is the harder case. Of three people one can manage two that race, and three rows let one come
back after a removal; two requests are what a race needs. In Sandbox a behaviour in which
no policy refuses and no incident happens has at most fourteen turns, fewer than twelve in
a drive, so that a pickup limit of 12 (20 in the code) and a budget of 18 (100) do not end
it, while behaviours with refusals or an incident reach both. The agents are shown 12 events
(30), few enough that in a room where everything is held they forget what they have said.
One incident is one rejection, post, step, pause, lapse, restart or decision that overlaps
a drive, at any of its steps. The three settings are the template's own policy,
one that holds all answers for a human, and one that refuses them. For the duplicate ids
of RoomPage one removal among two criteria is enough. All bounds are in the guards of the
actions that count.

`CHECK_DEADLOCK FALSE` is set because the systems do stop: a closed room, a decided
approval, or a counter at its bound. Symmetry is used in runs without liveness, over
organisations other than the creator, people other than the founder, invitations,
criteria, participants, contents, bodies, streams and request slots; nothing chooses among them by name. (A `CHOOSE` occurs only
for the placeholder in idle records, of a set that is not permuted.)

**Fairness.** Runtime, Notifications and Sandbox state liveness, the others do not.
- `WF(ScanNext)`: `runtime.ts` re-arms its timer in a `finally`, so a scan follows a
  scan whatever happened.
- `WF(DriveNext(d))`: a drive waits only for the store and for agents, whose calls
  have a timeout; a failing call is another action.
- `WF(TickNext(d))`: the dispatcher's timer is re-armed likewise, and a mail server
  returns or fails.
- `WF(BecomeDue(n))`: time passes.
- In Sandbox `WF(Scan)` and `WF(DriveNext)` as above, and `WF(Release \/ CallEffect)`: a
  request that the server has begun is carried through.

Nobody has to post, decide, pause, resume, restart or fail. `NewEventIsServed` and
`ActiveRoomIsDriven` excuse a run in which a store call failed: `scan` then parks
the room or skips it until there is a new event, which is what it is written to do.
`NewEventIsServed` is about a room whose participants have agents, when no drive is under
way; `ActiveRoomIsDriven` about one whose participants have agents throughout.
`DemoFinishes` lets a human leave an approval undecided for ever, and excuses what is
not the agents' doing: a policy that refuses their events, a spent budget, a loop that two
incidents cause, and what the history variable `lost` records, which are the ways in which
the runtime itself loses track (section 4).

## 4. Where the code and its documents disagree

Each of these is one run with one property, which TLC finds violated. The quoted
lines and the details are in `PROJECT.json` under `findings`.

1. **An ACTIVE room is left undriven** (`Runtime_stall`, `ActiveRoomIsDriven`). A drive ends
   by setting the marker to the last event there is, not to the last one that an agent was
   given (`runtime.ts:214`). In the trace two silent turns end the drive; an event is posted
   over the API before the `finally` block reads the stream; the marker covers it, and every
   scan finds nothing new and skips the room. Nothing was held, paused or restarted. The
   answer of a turn that uses up the pickup limit is covered in the same way, without a
   race. So are other rooms that wait under a marker for something that adds no event:
   one that was paused or halted and is resumed, and one parked because of an approval
   (`runtime.ts:96`) that then lapses.
2. **One piece of evidence completes two criteria** (`RoomPage_criteria`,
   `DoneIsEvidenced`). The contract form names a new criterion after the number of
   criteria, so that after a removal two may have the same id (`setup.tsx:146`), and
   `completionStatus` looks a criterion's state up by its id.

More were met while modelling and have no run of their own:
- an event of an ACTIVE room without an agent is swallowed: `driveRoom` returns
  (`runtime.ts:149`), and its `finally` block sets the marker, which stays when the agent is
  connected later. Such a room is one that became ACTIVE without an agreed contract, by way
  of a quarantine (below). Runtime has it, and
  `NewEventIsServed` says what is left: the event is served if the agents were there, and it
  was above the marker, when no drive was under way;
- a request that was overtaken moves a room off the whitelist, for example a canceled one
  back to ACTIVE: the end of a turn writes the row it read, and no handler looks
  again before it writes. In the same way an account of a turn is lost, and a verification is
  undone by a submission that had read the criterion before (`pipeline.ts:356`), even after
  both sides consented. RoomExecution has all three in its run, and its properties say that
  nothing else breaks the whitelist, the budget or a completion;
- a room becomes ACTIVE without an agreed contract, against `spec.md:756`: secrets are
  counted before the room's state is looked at, so a negotiating room can be quarantined;
  a quarantined room may be paused, and `resumeRoom` (`rooms.ts:391`) takes any paused room
  to ACTIVE. RoomSetup reaches this, which is why `ReadyIsAgreed` speaks of rooms that
  were READY or *started*;
- an organisation loses its last owner, against `members.ts:131`: `changeMemberRole` and
  `removeMember` count the owners they have read and write afterwards, so two owners who
  demote one another at the same time both succeed. Accounts reaches this, and `OwnerKept`
  says that nothing else does it;
- an approval that is stored after `closeRoom` has listed what to void stays PENDING and is
  released into the closed room when a human approves it, against
  `docs/incident-response.md:11`. Approvals reaches this, and `ClosedUnlessLate` says that
  no other approval survives;
- the runtime loses an ACTIVE room when a drive ends at the pickup limit, when an event came
  after its last turn had begun, and when a proposal of completion took effect while the
  room was paused: the marker is set to the newest event although no turn has seen it.
  Sandbox reaches all three; they are what `lost` records;
- two restarts, each between an answer and its effect, make the sandbox agent hand in the
  same evidence three times, which is a loop that pauses the room;
- the room page fills the form with the first contract it sees and never again, while the
  button beside it approves the newest version (`page.tsx:140` and `:312`); it starts the
  policy form from a default and never from the policy that is saved (`page.tsx:125`); and
  it offers "Resume" to a quarantined room, which the server refuses (`page.tsx:229`).
  RoomPage has the first and the last;
- `resumeRoom` also takes READY to ACTIVE, and does not set `startedAt`, without which
  `budgetExceeded` (`shared/room.ts:60`) knows no duration, while `README.md:52` has
  budgets pause runaway rooms;
- a retry that comes while the first execution runs, after a crash before the record is
  written, or when the record cannot be written (`app.ts:262` swallows that), is executed
  again, against `spec.md:2025`. Api has all three, and `AnsweredIsNotRepeated` says what
  is left: a retry after an answer that was recorded;
- the Rego mirror has fallen behind the table that its header asks it to be kept in sync
  with: it lacks the sender's own list of actions to approve and the contract's scope, and
  it denies where the table asks a human. Section 5 says that there is nothing else;
- the loss of the *newest* audit rows is not found: `verifyAudit` does not compare
  signed checkpoints with the log, although `docs/audit.md:11` counts on them.
  AuditChain lets the table be truncated, and `TamperingDetected` says so by
  excluding that case;
- an answer that is out of scope may be held instead of denied: the rule for scope
  (`policy/src/index.ts:131`) comes after rules that ask a human, while
  `docs/task-contract.md:10` speaks of denial. PolicyEngine keeps the code's order;
- `docs/api-spec.md:5` promises `Idempotency-Key` for all routes that change state;
  PATCH and DELETE do not honour it.

## 5. What is proved

TLAPS checks proofs about eleven modules, for every value of their constants: every safety
invariant and action property that a passing run checks, but for four of RoomSetup that
hold only while requests come one after the other, and the refinement. No theorem assumes that
requests do not overlap, nor that none crashes unless its property says so itself.
A theorem that needs more than the named assumption of its module says so in its statement:
- `SeatsAreBounded` (RoomSetup) and none else: requests in flight are finitely many;
- `OneDispatcher` (Notifications): there is one process, as `docs/deployment.md:94` has it;
- `PageBounds` (RoomPage): the bounds of the form are numbers, with room for one criterion.

Most properties are not inductive as they stand. What each proof adds to them is below.

**Approvals** (`Approvals_proofs`; from `ApprovalsAssumption`: there is an approval,
`NoBody` is not a body). `TypeCorrect` is the type invariant and `InvariantHolds`
the inductive one. `DecidedOnce` alone is not inductive: nothing in it says that the
winner of a claim is alone when it writes its event. `IInv` adds
- `UndecidedIsUntouched`: while a row is ABSENT or PENDING, no event of it is in the
  stream and no request is about to write one;
- `ClaimIsExclusive`: a request about to write a decision is the only one for its
  approval, and none has been written;
- `AuthorizeAfterRelease`: who announces an authorisation has released the content;
- `SnapshotHash`: what a request read may be stale, but its hash is still the row's,
  since hashes are never rewritten.

The argument: a conditional update from PENDING succeeds for one request only; by
`UndecidedIsUntouched` it finds an empty stream; and since no write makes a row PENDING
again (`DecidedStaysDecided`), no second claim succeeds. The lemmas sort the actions into
steps that write no event (`QuietStep`), won claims (`WonClaim`), decisions
(`DecisionEvent`) and other events (`OtherEvent`). Corollaries: `DecidedAtMostOnce`,
`ReleasedIsProposed`, `AuthorizationFollows`, `PendingUntouched`.
Two more invariants rest on these. `DecisionInv` follows a decision from the claim to the
event: as long as nothing crashes, a decided row has its event or a request on its way to
write it (`DecisionsAreTold`). `ClosedInv` follows a closing from the write of CLOSED to
the last row it voids: what is PENDING in a closed room is still to be voided by it, or was
stored after it had listed (`ClosingVoids`). `ClosedStays` and `DecisionStays` are the lemmas
about one step. `GrantRefinement` is the refinement, step by step
(`StepGrants`): the log grows by at most one entry (`LogGrows`, `WrittenIs`); what is held never
changes (`HeldStays`, `ClaimKeepsHeld`); and the entry of a decision is a step of
`SingleUseGrant` because the invariant leaves no decision before it.

**AuditChain** (`Histories_proofs`; from `AuditChainAssumption`). `ChainIntact` needs to
know that a head that was read is still the head when its row is inserted.
`HolderHasLock` and `LockExcludes` say that one request is in a transaction,
`HeadIsCurrent` that its head is current; `SavedHeadIsOnChain` says of a head that was
read *without* the lock only that it is on the chain, which is enough for
`CheckpointsOnChain`. `AppendKeepsIntact` is the lemma about hashes. Corollaries:
`ChainStaysIntact`, `CheckpointsStayTrue`. `TamperingIsDetected` has a lemma for each kind of
tampering (`EditIsSeen`, `SwapIsSeen`, `GapIsSeen`), all from `HashesAdvance` (a row's hash
is longer than the one it follows), and `BrokenStaysBroken` for what is appended later.
`EverythingIsAudited` counts: the log and the requests on their way to it are together as
many as the actions (`NothingIsLost`).

**Gateway** (`Gateway_proofs`; from `GatewayAssumption` and `PolicyEngineAssumption`: types
of the constants only). The rule table is treated once, whatever policy, contract and
event it is given: `FirstApplies` (what is allowed meets no rule), `NotDeniedIsClean`
(what is not denied is neither barred nor forbidden) and `AllowedIsAutonomous` (what is
allowed meets platform, contract and policy, each by itself). The inductive invariant
carries these facts from the decision to the write: `SlotsMayCross` and `HeldMayCross`
hold although policy and state change meanwhile, because the contract does not and the
stream only grows. `ThirdIsCounted` says that after a third secret the room is stopped,
or a submission is about to stop it, or a human has lifted it. Theorems:
`InvariantHolds`, `NothingBarred`, `AnswersAreAskedFor`, `AutonomyIsAgreed`,
`ThirdSecretStopsRoom`. They hold for any number of submissions in flight, of which the
run has one. `MirrorFollowsTable` says that the mirror allows whatever the table
allows, and `MirrorIsLaxerIn` that it allows more only in the two cases that `Unasked`
names; the lemma between them is `AutonomousIsAllowed`, the converse of
`AllowedIsAutonomous`.

**RoomSetup** (`RoomSetup_proofs`; from `RoomSetupAssumption`: the creator is an
organisation, and "nobody", who wrote the empty rows, is not). `TypeCorrect` holds however
requests overlap; beside `TypeOK` it needs `VersionsBounded`, for a version that is chosen
and not yet inserted.
The other theorems hold however they overlap too.
`ReadyIsFounded`: a room that is READY or was started has a contract and a second organisation.
`SeatsAreKept`: no step takes a seat or a contract version away, though participants' rows are
written back whole from old reads. `OverlapInv` says of a request not what it has read but what
it may write, however old: a room's row that is READY or started only if the room is `Founded`,
a participant's row that has joined (`Grounded`). What it may write stays allowed because
the tables only grow (`GroundedStays`). `SeatsAreBounded`: a room seats at most one organisation
more than requests overlap. `SeatInv` counts the members and the redemptions that have found a
seat free and not yet taken it (`Joining`): together they are no more than that, since a
redemption begins only where one member sits and then the joining ones are among the requests;
`SeatStep` sorts the steps by what they do to the two sets. More than that does not hold
(section 6).

**RoomExecution** (`RoomExecution_proofs`; from `RoomExecutionAssumption`: there are
organisations, criteria and a turn, and requests in flight are finitely many). All of it is for
requests and turns that overlap and crash in any way.
- `MovesAreLegal` rests on `MovesInv`: the row that a request is about to write is in the state
  that the request goes on from, or in one that the whitelist allows from there (`Fits`). If the
  room is still in that state, the write is a legal move.
- `BudgetKept` rests on `BudgetInv`: what ran is at most what the row counts, what crashed, what
  was lost, and the turns that have not written their account yet (`Accounting`); and with the
  turns that have yet to run (`Started`) it is within the statement. A turn begins where the
  row is below the budget, and it is itself none of those in flight, so that all but one of
  the slots may be beyond it (`TurnsInFlight`; `OneMore` counts).
- `CompletionBacked` and `CompletionWitnessed` rest on `OverlapInv`, which follows the records.
  They only grow (`RecordsGrow`, `RecordsBack`): whoever consents has seen all criteria
  VERIFIED, and a row that says COMPLETED, whoever holds it and however old it is, was read or
  made when all had consented (`Seen`, `SeenStays`). Who writes EVIDENCE_SUBMITTED over
  VERIFIED had found the criterion unverified, so that it was verified under a submission under
  way and is in `late` (`Checked`). What even such a room has is `CompletionWitnessed`: all
  consents, and for each criterion evidence and a state past PENDING.

**Accounts** (`People_proofs`; from `AccountsAssumption`: the founder is a person, and
people are finitely many). All four hold for any number of requests that overlap. `IInv` adds
- `RegistrationsOwn`: the account a registration works for was inserted by it, no other
  registration has it, and no session was handed out; this is what the unique address gives;
- `OwnerComesFirst` and `PartsInOrder`: nobody manages members before the owner's row, and
  what exists of the organisation at each step of its registration;
- `AnotherOwner`: while no other request changes owners, one that is about to take an owner
  away has counted another. `raced` is set when that ends, and `AnOwnerRemains` is about
  the rest.

**Api** (`Api_proofs`; from `ApiAssumption`: there is a key, the stream handlers are finitely
many, the limits are numbers). `HooksInv` and `StreamsInv` are independent, since no step
changes the variables of both but `Restart`. The first: an answer has a record, and who
came late has an answer, so the lookup finds the record. The second: only a running loop
is open, so whoever ends it first finds it open and frees the slot, and nobody after;
`CleanupCounts` is the lemma about the count. Theorems: `InvariantHolds`,
`AnsweredOnce`, `StreamsStayCounted`. The rate limit has an invariant of its own, `RateInv`:
of the requests of the last i ticks, those since the bucket was filled are what is missing
in it, and those before are one limit at most (`RateIsLimited`). Pruning does no harm, since
a bucket that is old enough for it would have been filled (`ForgettingHolds`); a restart
empties the buckets and the history with them.

**Runtime** (`Workers_proofs`; from `RuntimeAssumption`: calls are finitely many, the limits
are numbers). `DrivesBounded` needs to know what the poll may still do. `RoomForOne` says that
whenever the lock is free, or the poll is between its look at the lock and the drive, there
is room for one drive more; each `/step` makes room for one (`LockHolds`). `TurnsLeft` says
of a pending approval that the turns begun since it came and the calls that may begin one
without looking again are together one and the `/step`s (`RoomWaits`). `CallsFit` keeps the
counters of a call in their range (`TypeCorrect`).

**Notifications** (`Workers_proofs`; from `NotificationsAssumption`: there is somebody to
tell, sets are finite, bounds are numbers).
`RemindersEnd` is for any number of dispatchers: `RemindersCounted` says that reminders delivered
late and those checked and not yet sent are together no more than the dispatchers, since a
reminder is taken up only while the approval is pending, when none is late. The other two need
`OneDispatcher`, for an invariant in three parts: `HandsInOrder` (what was claimed and not
dealt with is PENDING and as it was claimed), `AttemptsLeft` (a row that nobody has in hand
has an attempt left), `CopiesCounted` (what is neither marked nor about to be was delivered
in troubles only). Theorems: `MailTypes`, `MailsNotRepeated`. The two workers share no
state, only the process, and each has the proofs of its own part of the file.

The runs check what the theorems conclude, not the inductive invariants: `IInv` and
`TypeOK` of Approvals, AuditChain, Gateway and Api, and `PendingIsUndecided`,
`AuthorizedAfterRelease` and `NeverPendingAgain` of Approvals, hold for every value of the
constants and are not listed in a run again.

**Sandbox** (`Histories_proofs`; from `SandboxAssumption` and what the modules it is built
from assume). `RepeatsBounded` counts, and the count has to follow an answer from the turn to
the stream, through the hands of a human and a release. `SandboxInv` has three parts:
- `WellFormed`: the types, and that a drive carries at most one answer and a human's call at
  most one body (`DriveOK`, `CallOK`, `HeldOK`), evidence of a criterion that the contract has;
- `AnswersCounted`: for each request the answers in the stream, held for a human, being
  released and being submitted (`Total`) are together no more than one and the number
  `hasty`, of turns that began while a human had something to decide and of pieces of
  evidence whose effect a restart lost;
- `EvidenceCounted`: while a criterion is open, the pieces of evidence for it in the stream
  whose effect is no longer to come are no more than `hasty`.

All steps but two keep the counts because an answer only moves from one place to another
(`Kept`). `RunTurn` is where one is added: by `AnswerIsOpen` the agent answers what it does
not see answered, and where nothing is held or on its way, what it sees is all there is.
`Restart` drops what is in hand, and counts the effects that are lost with it. The lemmas about `Occurrences` (of a
concatenation, after an append, a removal, in a tail) are what the arithmetic rests on.
Theorems: `SandboxTypeCorrect`, `SandboxInvariant`, `NothingIsRepeated`.

**RoomPage** (`People_proofs`; from `PageBounds`). `DoneIsEvidenced` is the statement of
section 4 that one piece of evidence can break. The theorems say how much of it is the
form's fault. `EvidencedUnlessNumbersRepeat`: as long as the ids of the agreed criteria differ,
a completed room has a verified piece of evidence for each that asks for one, whatever the
pages show and in whatever order the buttons are pressed. `EvidencedWithoutRemoval`: nothing but
`RemoveCriterion` makes two ids the same, so in a behaviour without it the statement
holds. The invariant `PageInv` says that an id which is verified has its row of evidence
(`VerifiedHasRow`), and that a room is completed only with all ids verified
(`CompletedIsVerified`); where the ids differ, criterion to row is an injection
(`RowForEach`). `NumbersStay` is the lemma about the form: while only adding is done, the id
of a criterion is its place.

**Only model-checked**: the liveness properties (`NewEventIsServed`, `EveryRowSettles`,
`DemoFinishes`), which are beyond the prover and stay so; `ReadyIsAgreed`, `OneSeatPerInvite`,
`ReadyWhenAgreed` and `ClosedHasNoOpenInvite` of RoomSetup, which hold for one request at a
time and not for every `Procs`; and that the two statements of section 4 do not hold, which
takes a counterexample and no proof.

## 6. Races between requests

Approvals, RoomExecution, AuditChain, Runtime, Gateway, Accounts and Api have actors that
overlap in their runs. Where the code breaks a rule then, the property says by
what exactly: `late` in Approvals and RoomExecution, `lost` and `from` in RoomExecution,
`raced` in Accounts.

`RoomSetup_serial` alone has one request in flight: its properties are those of requests that
do not overlap, with a crash in any of them. With a second element in `Procs` the same module
shows that the code does not keep them, because it writes whole rows from earlier reads:
- `ReadyIsAgreed`: a new version, or a participant's row that was read before its approval, is
  written after `maybeMarkReady` has looked;
- `OneSeatPerInvite`: two redemptions both find the seat free, and a third organisation joins;
- `ReadyWhenAgreed`: a redemption whose organisation has already agreed to everything writes
  NEGOTIATING last, and nobody looks again;
- `ClosedHasNoOpenInvite`: an invitation is created after `closeRoom` has listed what to
  revoke.

A second `createInvite` also writes INVITED over a room that has moved on. How far this can go is proved: `ReadyIsFounded`, `SeatsAreKept` and `SeatsAreBounded`
(section 5) hold for any number of requests that overlap.

Likewise a second element in `Dispatchers` shows duplicates in Notifications, since the
claim does not mark rows as taken; the documents ask for one process. These are named
as hazards at their lines.

## 7. What is left out

- Texts: names, guidance, wording of mails, formats of events. Bodies, contents and
  categories are model values. Which text a detector matches is a constant function.
- Cryptography: hashes are injective (a hash is the sequence or body it covers), and
  signatures cannot be forged.
- Access control: every modelled request is one that its checks let through.
- Spend and tool-call budgets; whether a loop is detected is a free choice, but in Sandbox. A turn
  whose provider fails is not counted in `ran`, as it used no answer.
- A `data_request` names fields, which are not themselves data.
- Rooms other than one: they share only the poll, the dispatcher and the audit log.
- Of accounts: passwords and the agent connections that people add themselves.
- Of the API: the body of a replayed answer (it is the recorded one), the records of other
  users (the key contains the user), the pages that a stream sends.
- Of the web client: every page but the one of a room, and of that one what only shows
  (timeline, names, alerts), the composing of messages and the choice of an agent.
- Of the templates: texts, types of evidence, and event types that no rule tells apart.
- Not modelled at all: the protocols of hosted agents and of mail servers, which are I/O and
  may do anything here; the demo, which has no logic of the rooms.

## 8. Plan

The order was: what crosses a room and who let it (Approvals, Gateway), how rooms come
to run (RoomSetup, RoomExecution), what is on record (AuditChain), what drives them
(Runtime, Notifications), who acts and asks (Accounts, Api), and what the two sides
make of it (Templates, Sandbox, RoomPage). Next:

1. **Races** of RoomSetup (section 6) as properties that say by what exactly they are broken,
   as those of RoomExecution do, in place of the serial ones; and the duration limit.
2. **Closing**: consent to an earlier proposal; what a closed room still accepts.
3. **Agents**: the A2A adapter and its pinned card; connections that are revoked while a
   room runs; alerts and invitations in the outbox.
