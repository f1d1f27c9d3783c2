------------------------------ MODULE RoomPage ------------------------------
(***************************************************************************)
(* The page of a room in the web client (apps/web/app/rooms/[roomId]) of   *)
(* two organisations that have joined, from the drafting of the contract   *)
(* to the approval of its completion, and the handlers that its buttons    *)
(* call (rooms.ts), each of which is one action here: RoomSetup and        *)
(* RoomExecution take them apart.                                          *)
(*                                                                         *)
(* What a page shows is what its last poll has brought, so every button is *)
(* offered on a state of the room that may be over; the draft of the       *)
(* contract is the page's own, and no poll ever changes one that is there. *)
(* Of a contract the criteria are kept.  Policies and agents are set.      *)
(***************************************************************************)
EXTENDS RoomStates, Naturals, SequencesExt, FiniteSets

CONSTANTS Orgs,         \* the two organisations, a page each
          MaxCriteria,  \* bound on the criteria of a draft
          MaxVersions,  \* bound on the contracts proposed
          MaxEvidence   \* bound on the evidence submitted

VARIABLES
  room,       \* rooms.state
  contracts,  \* the contract versions
  approved,   \* contractApprovedVersion, by organisation; 0 is null
  evidence,   \* the evidence rows
  criterion,  \* criterion statuses, by the id of the criterion
  consent,    \* the organisations that approved the completion
  page        \* the state of the page, by organisation

pageVars == <<room, contracts, approved, evidence, criterion, consent, page>>

-----------------------------------------------------------------------------
CriterionId == 1..MaxCriteria

Criterion == [id : CriterionId, evidenceRequired : BOOLEAN]

(* An empty draft is null: a contract has a criterion at least.            *)
NoDraft == <<>>

Page == [loaded : BOOLEAN, state : RoomState, version : 0..MaxVersions,
         draft : Seq(Criterion), rows : Nat]

Blank == [loaded |-> FALSE, state |-> "NEGOTIATING", version |-> 0,
          draft |-> NoDraft, rows |-> 0]

PageInit ==
  /\ room = "NEGOTIATING"
  /\ contracts = <<>>
  /\ approved = [o \in Orgs |-> 0]
  /\ evidence = <<>>
  /\ criterion = [c \in CriterionId |-> "PENDING"]
  /\ consent = {}
  /\ page = [o \in Orgs |-> Blank]

Shows(o, states) == page[o].loaded /\ page[o].state \in states

Contract == Last(contracts)

-----------------------------------------------------------------------------
(* The page.                                                               *)

(* A draft that is still null is filled with the contract.                 *)
Filled(o) ==
  IF page[o].draft = NoDraft /\ contracts # <<>> THEN Contract ELSE page[o].draft

(* refresh: five requests of their own.  This is the room's.               *)
RefreshRoom(o) ==
  /\ page' = [page EXCEPT ![o] = [@ EXCEPT !.loaded = TRUE, !.state = room,
                                          !.version = Len(contracts), !.draft = Filled(o)]]
  /\ UNCHANGED <<room, contracts, approved, evidence, criterion, consent>>

RefreshEvidence(o) ==
  /\ page' = [page EXCEPT ![o].rows = Len(evidence)]
  /\ UNCHANGED <<room, contracts, approved, evidence, criterion, consent>>

Draft(o, draft) ==
  /\ page' = [page EXCEPT ![o].draft = draft]
  /\ UNCHANGED <<room, contracts, approved, evidence, criterion, consent>>

(* A page that has seen no contract starts from defaultContract.           *)
SeedDraft(o) ==
  /\ page[o].loaded /\ page[o].draft = NoDraft /\ page[o].version = 0
  /\ Draft(o, <<[id |-> 1, evidenceRequired |-> TRUE]>>)

(* ContractForm: the id of a new criterion is the number of criteria.      *)
AddCriterion(o) ==
  /\ page[o].draft # NoDraft
  /\ Len(page[o].draft) < MaxCriteria
  /\ Draft(o, Append(page[o].draft, [id |-> Len(page[o].draft) + 1, evidenceRequired |-> TRUE]))

RemoveCriterion(o, i) ==
  /\ Len(page[o].draft) > 1
  /\ Draft(o, RemoveAt(page[o].draft, i))

ToggleEvidence(o, i) ==
  Draft(o, [page[o].draft EXCEPT ![i].evidenceRequired = ~@])

-----------------------------------------------------------------------------
(* The buttons and the handlers behind them.                               *)

(* proposeContract voids every approval.  Criterion ids are not compared.  *)
ProposeContract(o) ==
  /\ page[o].draft # NoDraft
  /\ room \in {"DRAFT", "INVITED", "NEGOTIATING"}
  /\ Len(contracts) < MaxVersions
  /\ contracts' = Append(contracts, page[o].draft)
  /\ approved' = [x \in Orgs |-> 0]
  /\ UNCHANGED <<room, evidence, criterion, consent, page>>

(* The button carries the version that the last poll brought.              *)
ApproveContract(o) ==
  /\ page[o].version > 0 /\ page[o].draft # NoDraft
  /\ page[o].version = Len(contracts)
  /\ approved' = [approved EXCEPT ![o] = page[o].version]
  /\ room' = IF room = "NEGOTIATING" /\ \A x \in Orgs : approved'[x] = Len(contracts)
             THEN "READY" ELSE room
  /\ UNCHANGED <<contracts, evidence, criterion, consent, page>>

Start(o) ==
  /\ Shows(o, {"READY"})
  /\ room = "READY"
  /\ room' = "ACTIVE"
  /\ UNCHANGED <<contracts, approved, evidence, criterion, consent, page>>

Pause(o) ==
  /\ Shows(o, {"ACTIVE"})
  /\ CanTransition(room, "PAUSED")
  /\ room' = "PAUSED"
  /\ UNCHANGED <<contracts, approved, evidence, criterion, consent, page>>

Resume(o) ==
  /\ Shows(o, {"PAUSED", "QUARANTINED"})
  /\ room = "PAUSED"
  /\ room' = "ACTIVE"
  /\ UNCHANGED <<contracts, approved, evidence, criterion, consent, page>>

(* "Mark human-verified", on a row that the page shows.                    *)
VerifyEvidence(o, i) ==
  /\ i <= page[o].rows
  /\ ~evidence[i].verified
  /\ evidence' = [evidence EXCEPT ![i].verified = TRUE]
  /\ criterion' = [criterion EXCEPT ![evidence[i].criterion] = "VERIFIED"]
  /\ UNCHANGED <<room, contracts, approved, consent, page>>

(* completionStatus: a criterion's status is looked up by its id.          *)
Required  == {i \in DOMAIN Contract : Contract[i].evidenceRequired}
Satisfied == \A i \in Required : criterion[Contract[i].id] # "PENDING"
Verified  == \A i \in Required : criterion[Contract[i].id] = "VERIFIED"

ApproveCompletion(o) ==
  /\ Shows(o, {"COMPLETION_PROPOSED"})
  /\ room = "COMPLETION_PROPOSED"
  /\ Satisfied /\ Verified
  /\ consent' = consent \cup {o}
  /\ room' = IF consent' = Orgs THEN "COMPLETED" ELSE room
  /\ UNCHANGED <<contracts, approved, evidence, criterion, page>>

-----------------------------------------------------------------------------
(* The agents, as far as they matter: evidence for a criterion of the      *)
(* contract, and the proposal when nothing is PENDING.                     *)
SubmitEvidence(i) ==
  LET id == Contract[i].id IN
  /\ room \in Routing
  /\ Len(evidence) < MaxEvidence
  /\ evidence' = Append(evidence, [criterion |-> id, verified |-> FALSE])
  /\ criterion' = [criterion EXCEPT ![id] = IF @ = "VERIFIED" THEN @ ELSE "EVIDENCE_SUBMITTED"]
  /\ UNCHANGED <<room, contracts, approved, consent, page>>

ProposeCompletion ==
  /\ room = "ACTIVE"
  /\ Satisfied
  /\ room' = "COMPLETION_PROPOSED"
  /\ UNCHANGED <<contracts, approved, evidence, criterion, consent, page>>

PageNext ==
  \/ \E o \in Orgs :
       \/ RefreshRoom(o) \/ RefreshEvidence(o)
       \/ SeedDraft(o) \/ AddCriterion(o)
       \/ \E i \in DOMAIN page[o].draft : RemoveCriterion(o, i) \/ ToggleEvidence(o, i)
       \/ ProposeContract(o) \/ ApproveContract(o)
       \/ Start(o) \/ Pause(o) \/ Resume(o)
       \/ \E i \in DOMAIN evidence : VerifyEvidence(o, i)
       \/ ApproveCompletion(o)
  \/ contracts # <<>> /\ \E i \in DOMAIN Contract : SubmitEvidence(i)
  \/ ProposeCompletion

PageSpec == PageInit /\ [][PageNext]_pageVars

-----------------------------------------------------------------------------
(* Statement of the repository that the code does not keep.                *)

(* setup.tsx:100: the task is only done when these are met - with evidence *)
(* a human verifies.  An evidence row is for one criterion, so a completed *)
(* task has as many verified rows as criteria that require evidence.       *)
DoneIsEvidenced ==
  room = "COMPLETED" =>
    Cardinality({i \in DOMAIN evidence : evidence[i].verified}) >= Cardinality(Required)
=============================================================================
