---------------------------- MODULE People_proofs ----------------------------
(***************************************************************************)
(* Proofs about what people do: how they register and manage members, for  *)
(* every set of addresses, every number of requests in flight at the same  *)
(* time and every number of crashes; and how two of them draft, agree and  *)
(* complete a task on the pages of a room, whatever these show.            *)
(***************************************************************************)
EXTENDS Accounts, RoomPage, SequenceTheorems, FiniteSetTheorems, TLAPS

-----------------------------------------------------------------------------
(* Module Accounts.                                                        *)

(* The parts of the inductive invariant.                                   *)

(* A registration that has its account and has not ended.                  *)
RegSteps == {"createOrganization", "createOwner", "createAgent", "notify", "createSession"}
Registering(p) == req[p].step \in RegSteps

(* A request that manages members.                                         *)
MemberSteps == {"createColleague", "getMembership", "createMembership",
                "updateMembership", "deleteMembership"}

(* A request that, on the rows it will find, may take an owner's role or   *)
(* row away.                                                               *)
TakesOwner(p) == \/ req[p].step = "deleteMembership"
                 \/ req[p].step = "updateMembership" /\ req[p].role # "owner"

(* The account that a registration works for is its own: it is registered, *)
(* no session was handed out for it, no other registration has it, and     *)
(* only Founder's goes through more than the session.                      *)
RegistrationsOwn ==
  /\ \A p \in Procs : Registering(p) =>
       /\ accounts[req[p].user] = "registered"
       /\ welcomed[req[p].user] = 0
       /\ req[p].step # "createSession" => req[p].user = Founder
  /\ \A p, q \in Procs :
       Registering(p) /\ Registering(q) /\ req[p].user = req[q].user => p = q

(* Nobody is a member, and nobody manages members, before Founder's        *)
(* registration has inserted the owner; that one is the first row.         *)
OwnerComesFirst ==
  /\ rows = 0 => members = {}
  /\ rows > 0 => accounts[Founder] = "registered"
  /\ \A m \in members : m.id <= rows
  /\ \A p \in Procs :
       /\ req[p].step \in {"createOrganization", "createOwner"} => rows = 0
       /\ req[p].step \in MemberSteps => rows > 0
       /\ req[p].id <= rows

(* What exists of the organisation at each step of its registration.       *)
PartsInOrder ==
  \A p \in Procs :
    /\ req[p].step \in {"createOwner", "createAgent", "notify"} => "organization" \in org
    /\ req[p].step \in {"createAgent", "notify"} => rows > 0
    /\ req[p].step = "notify" => "agent" \in org
    /\ req[p].step = "createSession" /\ req[p].user = Founder => ~HalfRegistered

(* Until owners change under a request that is about to take an owner      *)
(* away, there is another owner.                                           *)
AnotherOwner ==
  \A p \in Procs : TakesOwner(p) /\ (\E o \in Owners : o.id = req[p].id) =>
    raced \/ \E o \in Owners : o.id # req[p].id

IInv == /\ TypeOK
        /\ RegistrationsOwn
        /\ RegistrationAdoptsNobody
        /\ OwnerComesFirst
        /\ PartsInOrder
        /\ NothingHalfRegistered
        /\ AnotherOwner
        /\ OwnerKept

-----------------------------------------------------------------------------
(* The slot of p now holds a request with these fields, the other slots    *)
(* what they held.                                                         *)
Slot(p, step, user, role, id) ==
  /\ req' \in [Procs -> Request]
  /\ \A q \in Procs : /\ req'[q].step = IF q = p THEN step ELSE req[q].step
                      /\ req'[q].user = IF q = p THEN user ELSE req[q].user
                      /\ req'[q].role = IF q = p THEN role ELSE req[q].role
                      /\ req'[q].id   = IF q = p THEN id ELSE req[q].id

(* An idle slot is a request; the row of a member has a user and an id.    *)
LEMMA Fields ==
  /\ Idle \in Request
  /\ Idle.step = "idle" /\ Idle.user = Founder /\ Idle.role = "member" /\ Idle.id = 0
  /\ \A m \in Membership : m.user \in Users /\ m.id \in 0..MaxRows /\ m.role \in OrgRole
  BY AccountsAssumption DEF Idle, Request, Step, OrgRole, Membership

(* What ending a request, moving it on or beginning one does to the slots. *)
LEMMA Moves ==
  ASSUME TypeOK, NEW p \in Procs
  PROVE  /\ Done(p) => Slot(p, "idle", Founder, "member", 0)
         /\ \A s \in Step : Goto(p, s) => Slot(p, s, req[p].user, req[p].role, req[p].id)
         /\ \A r \in Request : Begin(p, r) => Slot(p, r.step, r.user, r.role, r.id)
  <1>0. req \in [Procs -> Request]
    BY DEF TypeOK
  <1>1. ASSUME Done(p)
        PROVE  Slot(p, "idle", Founder, "member", 0)
    BY <1>0, <1>1, Fields DEF Done, Slot
  <1>2. ASSUME NEW s \in Step, Goto(p, s)
        PROVE  Slot(p, s, req[p].user, req[p].role, req[p].id)
    BY <1>0, <1>2 DEF Goto, Slot, Request
  <1>3. ASSUME NEW r \in Request, Begin(p, r)
        PROVE  Slot(p, r.step, r.user, r.role, r.id)
    BY <1>0, <1>3 DEF Begin, Slot
  <1> QED
    BY <1>1, <1>2, <1>3

(* The requests that a caller can begin.                                   *)
LEMMA Begins ==
  ASSUME TypeOK, NEW p \in Procs
  PROVE  /\ \A u \in Users : Register(p, u) => Slot(p, "createUser", u, "member", 0)
         /\ \A actor, u \in Users, role \in OrgRole : AddMember(p, actor, u, role) =>
              \E s \in {"createMembership", "createColleague"} : Slot(p, s, u, role, 0)
         /\ \A actor \in Users, m \in members, role \in OrgRole :
              ChangeMemberRole(p, actor, m, role) =>
                Slot(p, "updateMembership", m.user, role, m.id)
         /\ \A actor \in Users, m \in members :
              RemoveMember(p, actor, m) => Slot(p, "deleteMembership", m.user, "member", m.id)
  <1> USE Fields
  <1>1. ASSUME NEW u \in Users, Register(p, u)
        PROVE  Slot(p, "createUser", u, "member", 0)
    <2> DEFINE r == [Idle EXCEPT !.step = "createUser", !.user = u]
    <2>1. r \in Request /\ r.step = "createUser" /\ r.user = u /\ r.role = "member" /\ r.id = 0
      BY DEF Request, Step
    <2> QED
      BY <1>1, <2>1, Moves DEF Register
  <1>2. ASSUME NEW actor \in Users, NEW u \in Users, NEW role \in OrgRole,
               AddMember(p, actor, u, role)
        PROVE  \E s \in {"createMembership", "createColleague"} : Slot(p, s, u, role, 0)
    <2> DEFINE s == IF Known(u) THEN "createMembership" ELSE "createColleague"
               r == [Idle EXCEPT !.user = u, !.role = role, !.step = s]
    <2>1. s \in {"createMembership", "createColleague"}
      OBVIOUS
    <2> HIDE DEF s
    <2>2. r \in Request /\ r.step = s /\ r.user = u /\ r.role = role /\ r.id = 0
      BY <2>1 DEF Request, Step
    <2>3. Begin(p, r)
      BY <1>2 DEF AddMember, s
    <2> QED
      BY <2>1, <2>2, <2>3, Moves
  <1>3. ASSUME NEW actor \in Users, NEW m \in members, NEW role \in OrgRole,
               ChangeMemberRole(p, actor, m, role)
        PROVE  Slot(p, "updateMembership", m.user, role, m.id)
    <2> DEFINE r == [Idle EXCEPT !.step = "updateMembership", !.user = m.user,
                                 !.id = m.id, !.role = role]
    <2>1. m.user \in Users /\ m.id \in 0..MaxRows
      BY DEF TypeOK
    <2>2. r \in Request /\ r.step = "updateMembership" /\ r.user = m.user /\ r.role = role
          /\ r.id = m.id
      BY <2>1 DEF Request, Step
    <2> QED
      BY <1>3, <2>2, Moves DEF ChangeMemberRole
  <1>4. ASSUME NEW actor \in Users, NEW m \in members, RemoveMember(p, actor, m)
        PROVE  Slot(p, "deleteMembership", m.user, "member", m.id)
    <2> DEFINE r == [Idle EXCEPT !.step = "deleteMembership", !.user = m.user, !.id = m.id]
    <2>1. m.user \in Users /\ m.id \in 0..MaxRows
      BY DEF TypeOK
    <2>2. r \in Request /\ r.step = "deleteMembership" /\ r.user = m.user /\ r.role = "member"
          /\ r.id = m.id
      BY <2>1 DEF Request, Step
    <2> QED
      BY <1>4, <2>2, Moves DEF RemoveMember
  <1> QED
    BY <1>1, <1>2, <1>3, <1>4

(* A row with a new id, of somebody who is no member yet, keeps the table  *)
(* a table: one row for a user and for an id.                              *)
LEMMA InsertType ==
  ASSUME TypeOK, OwnerComesFirst, NEW u \in Users, NEW role \in OrgRole,
         ~IsMember(u), Insert(u, role)
  PROVE  /\ members' \subseteq Membership
         /\ \A m, n \in members' : m.user = n.user \/ m.id = n.id => m = n
         /\ rows' \in 1..MaxRows /\ rows' = rows + 1
         /\ \A m \in members' : m.id <= rows'
  <1> DEFINE new == [id |-> rows + 1, user |-> u, role |-> role]
  <1>1. rows + 1 \in 1..MaxRows /\ rows' = rows + 1 /\ rows \in Nat
    BY AccountsAssumption DEF TypeOK, Insert
  <1>2. new \in Membership
    BY <1>1 DEF Membership
  <1>3. members' = members \cup {new} /\ members \subseteq Membership
    BY DEF Insert, TypeOK
  <1>4. \A m \in members : m.user # u /\ m.id # rows + 1 /\ m.id <= rows
    BY <1>1, <1>3 DEF IsMember, OwnerComesFirst, Membership
  <1>5. \A m, n \in members' : m.user = n.user \/ m.id = n.id => m = n
    <2>1. \A m, n \in members : m.user = n.user \/ m.id = n.id => m = n
      BY DEF TypeOK
    <2>2. new.user = u /\ new.id = rows + 1
      OBVIOUS
    <2> QED
      BY <1>3, <1>4, <2>1, <2>2
  <1>6. \A m \in members' : m.id <= rows'
    BY <1>1, <1>3, <1>4 DEF Membership
  <1> QED
    BY <1>1, <1>2, <1>3, <1>5, <1>6

(* A role that changes, or a row that goes, keeps it one too.              *)
LEMMA WriteType ==
  ASSUME TypeOK, NEW p \in Procs, UpdateMembership(p) \/ DeleteMembership(p)
  PROVE  /\ members' \subseteq Membership
         /\ \A m, n \in members' : m.user = n.user \/ m.id = n.id => m = n
         /\ \A n \in members' : \E m \in members : m.id = n.id
         /\ raced' \in BOOLEAN
  <1>1. req[p].role \in OrgRole /\ req[p].id \in 0..MaxRows
    BY DEF TypeOK, Request
  <1>2. \A m, n \in members : m.user = n.user \/ m.id = n.id => m = n
    BY DEF TypeOK
  <1>3. raced' \in BOOLEAN
    BY DEF UpdateMembership, DeleteMembership, NoteRace, TypeOK
  <1>4. CASE UpdateMembership(p)
    <2> DEFINE W(m) == IF m.id = req[p].id THEN [m EXCEPT !.role = req[p].role] ELSE m
    <2>1. \A m \in members : /\ W(m) \in Membership
                             /\ W(m).id = m.id /\ W(m).user = m.user
      BY <1>1 DEF TypeOK, Membership
    <2>2. members' = {W(m) : m \in members}
      BY <1>4 DEF UpdateMembership
    <2> HIDE DEF W
    <2> QED
      BY <1>2, <1>3, <2>1, <2>2
  <1>5. CASE DeleteMembership(p)
    BY <1>2, <1>3, <1>5 DEF DeleteMembership, TypeOK
  <1> QED
    BY <1>4, <1>5

-----------------------------------------------------------------------------
(* Every variable keeps its type in a step from a state of the invariant.  *)
LEMMA StepKeepsType == IInv /\ [Next]_vars => TypeOK'
<1> SUFFICES ASSUME IInv, [Next]_vars
             PROVE  TypeOK'
  OBVIOUS
<1>0. TypeOK /\ OwnerComesFirst
  BY DEF IInv
<1> USE <1>0 DEF TypeOK, Step, Slot
<1>1. ASSUME NEW p \in Procs, NEW u \in Users, Register(p, u)
      PROVE  TypeOK'
  BY <1>1, Begins DEF Register
<1>2. ASSUME NEW p \in Procs, CreateUser(p)
      PROVE  TypeOK'
  <2>1. AfterUser(req[p].user) \in Step
    BY DEF AfterUser
  <2>2. req' \in [Procs -> Request]
    BY <1>2, <2>1, Moves DEF CreateUser
  <2> QED
    BY <1>2, <2>2 DEF CreateUser
<1>3. ASSUME NEW p \in Procs,
             CreateOrganization(p) \/ CreateAgent(p) \/ NotifyWelcome(p)
      PROVE  TypeOK'
  <2>1. req' \in [Procs -> Request]
    BY <1>3, Moves DEF CreateOrganization, CreateAgent, NotifyWelcome
  <2>2. org' \subseteq Whole
    BY <1>3 DEF CreateOrganization, CreateAgent, NotifyWelcome, Whole
  <2> QED
    BY <1>3, <2>1, <2>2 DEF CreateOrganization, CreateAgent, NotifyWelcome
<1>4. ASSUME NEW p \in Procs, CreateOwner(p)
      PROVE  TypeOK'
  <2>1. ~IsMember(Founder)
    BY <1>4 DEF CreateOwner, At, OwnerComesFirst, IsMember
  <2>2. Founder \in Users /\ "owner" \in OrgRole
    BY AccountsAssumption DEF OrgRole
  <2>3. /\ members' \subseteq Membership
        /\ \A m, n \in members' : m.user = n.user \/ m.id = n.id => m = n
        /\ rows' \in 0..MaxRows
    BY <1>4, <2>1, <2>2, InsertType DEF CreateOwner
  <2>4. req' \in [Procs -> Request]
    BY <1>4, Moves DEF CreateOwner
  <2> QED
    BY <1>4, <2>3, <2>4 DEF CreateOwner
<1>5. ASSUME NEW p \in Procs, CreateSession(p)
      PROVE  TypeOK'
  <2>1. req' \in [Procs -> Request]
    BY <1>5, Moves DEF CreateSession
  <2>2. req[p].user \in Users
    BY DEF Request
  <2>3. welcomed' \in [Users -> Nat]
    BY <1>5, <2>2 DEF CreateSession
  <2> QED
    BY <1>5, <2>1, <2>3 DEF CreateSession
<1>6. ASSUME NEW p \in Procs, NEW actor \in Users, NEW u \in Users, NEW role \in OrgRole,
             AddMember(p, actor, u, role)
      PROVE  TypeOK'
  BY <1>6, Begins DEF AddMember
<1>7. ASSUME NEW p \in Procs, CreateColleague(p) \/ GetMembership(p)
      PROVE  TypeOK'
  <2>1. req' \in [Procs -> Request]
    BY <1>7, Moves DEF CreateColleague, GetMembership
  <2> QED
    BY <1>7, <2>1 DEF CreateColleague, GetMembership
<1>8. ASSUME NEW p \in Procs, CreateMembership(p)
      PROVE  TypeOK'
  <2>1. req[p].user \in Users /\ req[p].role \in OrgRole
    BY DEF Request
  <2>2. /\ members' \subseteq Membership
        /\ \A m, n \in members' : m.user = n.user \/ m.id = n.id => m = n
        /\ rows' \in 0..MaxRows
    BY <1>8, <2>1, InsertType DEF CreateMembership
  <2>3. req' \in [Procs -> Request]
    BY <1>8, Moves DEF CreateMembership
  <2> QED
    BY <1>8, <2>2, <2>3 DEF CreateMembership
<1>9. ASSUME NEW p \in Procs, NEW actor \in Users, NEW m \in members,
             \/ \E role \in OrgRole : ChangeMemberRole(p, actor, m, role)
             \/ RemoveMember(p, actor, m)
      PROVE  TypeOK'
  <2>1. req' \in [Procs -> Request]
    BY <1>9, Begins
  <2> QED
    BY <1>9, <2>1 DEF ChangeMemberRole, RemoveMember
<1>10. ASSUME NEW p \in Procs, UpdateMembership(p) \/ DeleteMembership(p)
       PROVE  TypeOK'
  <2>1. req' \in [Procs -> Request]
    BY <1>10, Moves DEF UpdateMembership, DeleteMembership
  <2> QED
    BY <1>10, <2>1, WriteType DEF UpdateMembership, DeleteMembership
<1>11. ASSUME NEW p \in Procs, Crash(p)
       PROVE  TypeOK'
  BY <1>11, Moves, AccountsAssumption DEF Crash
<1>12. CASE UNCHANGED vars
  BY <1>12 DEF vars
<1> QED
  BY <1>1, <1>2, <1>3, <1>4, <1>5, <1>6, <1>7, <1>8, <1>9, <1>10, <1>11, <1>12 DEF Next

-----------------------------------------------------------------------------
(* A registration keeps the account it created to itself.                  *)
LEMMA StepKeepsRegistrations ==
  IInv /\ [Next]_vars => RegistrationsOwn' /\ RegistrationAdoptsNobody'
<1> DEFINE Goal == RegistrationsOwn' /\ RegistrationAdoptsNobody'
<1> SUFFICES ASSUME IInv, [Next]_vars
             PROVE  Goal
  OBVIOUS
<1>0. TypeOK /\ RegistrationsOwn /\ RegistrationAdoptsNobody
  BY DEF IInv
<1>a. /\ accounts \in [Users -> {"none", "registered", "added"}]
      /\ welcomed \in [Users -> Nat]
      /\ \A p \in Procs : req[p].user \in Users
  BY <1>0 DEF TypeOK, Request
<1> USE <1>0, <1>a
    DEF RegSteps
<1>b. ASSUME NEW p \in Procs, NEW step, step \notin RegSteps, NEW user, NEW role, NEW id,
             Slot(p, step, user, role, id), UNCHANGED welcomed,
             \A u \in Users : accounts[u] # "none" => accounts'[u] = accounts[u]
      PROVE  Goal
  <2>1. \A q \in Procs : Registering(q)' =>
          Registering(q) /\ req'[q].step = req[q].step /\ req'[q].user = req[q].user
    BY <1>b DEF Slot, Registering
  <2>2. RegistrationsOwn'
    BY <1>b, <2>1 DEF RegistrationsOwn, Registering
  <2>3. RegistrationAdoptsNobody'
    BY <1>b DEF RegistrationAdoptsNobody
  <2> QED
    BY <2>2, <2>3
<1> HIDE DEF Goal
<1>1. ASSUME NEW p \in Procs, NEW u \in Users, Register(p, u)
      PROVE  Goal
  BY <1>1, <1>b, Begins DEF Register
<1>2. ASSUME NEW p \in Procs, CreateUser(p)
      PROVE  Goal
  <2>1. CASE Known(req[p].user)
    BY <1>2, <1>b, <2>1, Moves DEF CreateUser
  <2>2. CASE ~Known(req[p].user)
    <3>1. AfterUser(req[p].user) \in {"createOrganization", "createSession"}
          /\ (AfterUser(req[p].user) = "createOrganization" => req[p].user = Founder)
      BY DEF AfterUser
    <3>2. Slot(p, AfterUser(req[p].user), req[p].user, req[p].role, req[p].id)
      BY <1>2, <2>2, <3>1, Moves DEF CreateUser, Step
    <3>3. accounts[req[p].user] = "none" /\ welcomed[req[p].user] = 0
      BY <2>2 DEF Known, RegistrationAdoptsNobody
    <3> QED
      BY <1>2, <2>2, <3>1, <3>2, <3>3 DEF CreateUser, Goal, Slot, RegistrationsOwn, RegistrationAdoptsNobody, Registering
  <2> QED
    BY <2>1, <2>2
<1>3. ASSUME NEW p \in Procs,
             \/ CreateOrganization(p) \/ CreateOwner(p) \/ CreateAgent(p) \/ NotifyWelcome(p)
      PROVE  Goal
  <2>1. UNCHANGED <<accounts, welcomed>>
    BY <1>3 DEF CreateOrganization, CreateOwner, CreateAgent, NotifyWelcome
  <2>2. /\ req[p].step \in RegSteps \ {"createSession"}
        /\ \E s \in RegSteps : Slot(p, s, req[p].user, req[p].role, req[p].id)
    BY <1>3, Moves DEF CreateOrganization, CreateOwner, CreateAgent, NotifyWelcome, At, Step
  <2> QED
    BY <2>1, <2>2 DEF Goal, Slot, RegistrationsOwn, RegistrationAdoptsNobody, Registering
<1>4. ASSUME NEW p \in Procs, CreateSession(p)
      PROVE  Goal
  <2>1. Slot(p, "idle", Founder, "member", 0)
    BY <1>4, Moves DEF CreateSession
  <2>2. accounts[req[p].user] = "registered" /\ welcomed[req[p].user] = 0
    BY <1>4 DEF CreateSession, At, RegistrationsOwn, Registering
  <2> QED
    BY <1>4, <2>1, <2>2 DEF CreateSession, At, Goal, Slot, RegistrationsOwn, RegistrationAdoptsNobody, Registering
<1>5. ASSUME NEW p \in Procs, NEW actor \in Users, NEW u \in Users, NEW role \in OrgRole,
             AddMember(p, actor, u, role)
      PROVE  Goal
  BY <1>5, <1>b, Begins DEF AddMember
<1>6. ASSUME NEW p \in Procs, CreateColleague(p)
      PROVE  Goal
  <2>1. \/ Slot(p, "idle", Founder, "member", 0)
        \/ Slot(p, "getMembership", req[p].user, req[p].role, req[p].id)
    BY <1>6, Moves DEF CreateColleague, Step
  <2>2. \A u \in Users : accounts[u] # "none" => accounts'[u] = accounts[u]
    BY <1>6 DEF CreateColleague, Known
  <2>3. UNCHANGED welcomed
    BY <1>6 DEF CreateColleague
  <2> QED
    BY <1>b, <2>1, <2>2, <2>3
<1>7. ASSUME NEW p \in Procs,
             \/ GetMembership(p) \/ CreateMembership(p) \/ UpdateMembership(p)
             \/ DeleteMembership(p) \/ Crash(p)
      PROVE  Goal
  <2>1. \/ Slot(p, "idle", Founder, "member", 0)
        \/ Slot(p, "createMembership", req[p].user, req[p].role, req[p].id)
    BY <1>7, Moves
    DEF GetMembership, CreateMembership, UpdateMembership, DeleteMembership, Crash, Step
  <2>2. UNCHANGED <<accounts, welcomed>>
    BY <1>7 DEF GetMembership, CreateMembership, UpdateMembership, DeleteMembership, Crash
  <2> QED
    BY <1>b, <2>1, <2>2
<1>8. ASSUME NEW p \in Procs, NEW actor \in Users, NEW m \in members,
             \/ \E role \in OrgRole : ChangeMemberRole(p, actor, m, role)
             \/ RemoveMember(p, actor, m)
      PROVE  Goal
  BY <1>8, <1>b, Begins DEF ChangeMemberRole, RemoveMember
<1>9. CASE UNCHANGED vars
  BY <1>9 DEF vars, Goal, RegistrationsOwn, RegistrationAdoptsNobody, Registering
<1> QED
  BY <1>1, <1>2, <1>3, <1>4, <1>5, <1>6, <1>7, <1>8, <1>9 DEF Next

-----------------------------------------------------------------------------
(* The owner's row is the first, and nobody manages members before it.     *)
LEMMA StepKeepsOwnerFirst == IInv /\ [Next]_vars => OwnerComesFirst'
<1> SUFFICES ASSUME IInv, [Next]_vars
             PROVE  OwnerComesFirst'
  OBVIOUS
<1>0. TypeOK /\ RegistrationsOwn /\ OwnerComesFirst
  BY DEF IInv
<1>a. /\ rows \in Nat /\ members \subseteq Membership
      /\ \A p \in Procs : req[p].id \in Nat /\ req[p].user \in Users /\ req[p].role \in OrgRole
  BY <1>0, AccountsAssumption DEF TypeOK, Request
<1>b. \A m \in members : m.id \in Nat
  BY <1>a DEF Membership
<1> USE <1>0, <1>a DEF MemberSteps
(* A step that leaves the table of members alone.                          *)
<1>c. ASSUME NEW p \in Procs, NEW step, NEW user, NEW role, NEW id,
             Slot(p, step, user, role, id), id <= rows, UNCHANGED <<members, rows>>,
             accounts[Founder] = "registered" => accounts'[Founder] = "registered",
             step \in {"createOrganization", "createOwner"} => rows = 0,
             step \in MemberSteps => rows > 0
      PROVE  OwnerComesFirst'
  BY <1>c DEF Slot, OwnerComesFirst
<1>1. ASSUME NEW p \in Procs, NEW u \in Users, Register(p, u)
      PROVE  OwnerComesFirst'
  <2>1. Slot(p, "createUser", u, "member", 0) /\ UNCHANGED <<accounts, members, rows>>
    BY <1>1, Begins DEF Register
  <2> QED
    BY <1>c, <2>1
<1>2. ASSUME NEW p \in Procs, CreateUser(p)
      PROVE  OwnerComesFirst'
  <2>1. CASE Known(req[p].user)
    BY <1>2, <1>c, <2>1, Moves DEF CreateUser
  <2>2. CASE ~Known(req[p].user)
    <3>1. AfterUser(req[p].user) \in {"createOrganization", "createSession"}
          /\ (AfterUser(req[p].user) = "createOrganization" => req[p].user = Founder)
      BY DEF AfterUser
    <3>2. Slot(p, AfterUser(req[p].user), req[p].user, req[p].role, req[p].id)
      BY <1>2, <2>2, <3>1, Moves DEF CreateUser, Step
    <3>3. req[p].user = Founder => rows = 0
      BY <2>2 DEF Known, OwnerComesFirst
    <3>4. accounts[Founder] = "registered" => accounts'[Founder] = "registered"
      <4>1. accounts' = [accounts EXCEPT ![req[p].user] = "registered"]
        BY <1>2, <2>2 DEF CreateUser
      <4> QED
        BY <4>1, AccountsAssumption DEF TypeOK
    <3>5. UNCHANGED <<members, rows>> /\ req[p].id <= rows
      BY <1>2 DEF CreateUser, OwnerComesFirst
    <3> QED
      BY <1>c, <3>1, <3>2, <3>3, <3>4, <3>5
  <2> QED
    BY <2>1, <2>2
<1>3. ASSUME NEW p \in Procs, CreateOrganization(p)
      PROVE  OwnerComesFirst'
  <2>1. Slot(p, "createOwner", req[p].user, req[p].role, req[p].id)
    BY <1>3, Moves DEF CreateOrganization, Step
  <2>2. rows = 0 /\ req[p].id <= rows
    BY <1>3 DEF CreateOrganization, At, OwnerComesFirst
  <2> QED
    BY <1>3, <1>c, <2>1, <2>2 DEF CreateOrganization
<1>4. ASSUME NEW p \in Procs, CreateOwner(p)
      PROVE  OwnerComesFirst'
  <2>1. Slot(p, "createAgent", req[p].user, req[p].role, req[p].id)
    BY <1>4, Moves DEF CreateOwner, Step
  <2>2. At(p, "createOwner") /\ Insert(Founder, "owner") /\ UNCHANGED accounts
    BY <1>4 DEF CreateOwner
  <2>3. accounts[Founder] = "registered"
    BY <2>2 DEF At, RegistrationsOwn, Registering, RegSteps
  <2>4. ~IsMember(Founder) /\ Founder \in Users /\ "owner" \in OrgRole
    BY <2>2, AccountsAssumption DEF At, OwnerComesFirst, IsMember, OrgRole
  <2>5. rows' = rows + 1 /\ \A m \in members' : m.id <= rows'
    BY <2>2, <2>4, InsertType
  <2>6. \A q \in Procs \ {p} : req[q].step \notin {"createOrganization", "createOwner"}
    BY <2>2 DEF At, RegistrationsOwn, Registering, RegSteps
  <2> QED
    BY <2>1, <2>2, <2>3, <2>5, <2>6 DEF Slot, OwnerComesFirst
<1>5. ASSUME NEW p \in Procs, CreateAgent(p) \/ NotifyWelcome(p) \/ CreateSession(p)
      PROVE  OwnerComesFirst'
  <2>1. \/ Slot(p, "notify", req[p].user, req[p].role, req[p].id)
        \/ Slot(p, "createSession", req[p].user, req[p].role, req[p].id)
        \/ Slot(p, "idle", Founder, "member", 0)
    BY <1>5, Moves DEF CreateAgent, NotifyWelcome, CreateSession, Step
  <2>2. UNCHANGED <<accounts, members, rows>> /\ req[p].id <= rows
    BY <1>5 DEF CreateAgent, NotifyWelcome, CreateSession, OwnerComesFirst
  <2> QED
    BY <1>c, <2>1, <2>2
<1>6. ASSUME NEW p \in Procs, NEW actor \in Users, NEW u \in Users, NEW role \in OrgRole,
             AddMember(p, actor, u, role)
      PROVE  OwnerComesFirst'
  <2>1. members # {}
    BY <1>6 DEF AddMember, HasRole, IsMember
  <2>2. rows > 0
    BY <2>1 DEF OwnerComesFirst
  <2>3. PICK s \in {"createMembership", "createColleague"} : Slot(p, s, u, role, 0)
    BY <1>6, Begins
  <2>4. UNCHANGED <<accounts, members, rows>>
    BY <1>6 DEF AddMember
  <2> QED
    BY <1>c, <2>2, <2>3, <2>4
<1>7. ASSUME NEW p \in Procs, CreateColleague(p) \/ GetMembership(p)
      PROVE  OwnerComesFirst'
  <2>1. \/ Slot(p, "idle", Founder, "member", 0)
        \/ Slot(p, "getMembership", req[p].user, req[p].role, req[p].id)
        \/ Slot(p, "createMembership", req[p].user, req[p].role, req[p].id)
    BY <1>7, Moves DEF CreateColleague, GetMembership, Step
  <2>2. rows > 0 /\ req[p].id <= rows
    BY <1>7 DEF CreateColleague, GetMembership, At, OwnerComesFirst
  <2>3. /\ UNCHANGED <<members, rows>>
        /\ accounts[Founder] = "registered" => accounts'[Founder] = "registered"
    <3>1. CASE CreateColleague(p)
      BY <3>1, AccountsAssumption DEF CreateColleague, Known, TypeOK
    <3>2. CASE GetMembership(p)
      BY <3>2 DEF GetMembership
    <3> QED
      BY <1>7, <3>1, <3>2
  <2> QED
    BY <1>c, <2>1, <2>2, <2>3
<1>8. ASSUME NEW p \in Procs, CreateMembership(p)
      PROVE  OwnerComesFirst'
  <2>1. Slot(p, "idle", Founder, "member", 0)
    BY <1>8, Moves DEF CreateMembership
  <2>2. rows > 0 /\ accounts[Founder] = "registered" /\ UNCHANGED accounts
    BY <1>8 DEF CreateMembership, At, OwnerComesFirst
  <2>3. CASE IsMember(req[p].user)
    BY <1>8, <1>c, <2>1, <2>2, <2>3 DEF CreateMembership
  <2>4. CASE ~IsMember(req[p].user)
    <3>1. rows' = rows + 1 /\ \A m \in members' : m.id <= rows'
      BY <1>8, <2>4, InsertType DEF CreateMembership
    <3>2. \A q \in Procs : req[q].step \notin {"createOrganization", "createOwner"}
      BY <2>2 DEF OwnerComesFirst
    <3> QED
      BY <2>1, <2>2, <3>1, <3>2 DEF Slot, OwnerComesFirst
  <2> QED
    BY <2>3, <2>4
<1>9. ASSUME NEW p \in Procs, NEW actor \in Users, NEW m \in members,
             \/ \E role \in OrgRole : ChangeMemberRole(p, actor, m, role)
             \/ RemoveMember(p, actor, m)
      PROVE  OwnerComesFirst'
  <2>1. rows > 0 /\ m.id <= rows
    BY DEF OwnerComesFirst
  <2> QED
    BY <1>9, <1>c, <2>1, Begins DEF ChangeMemberRole, RemoveMember
<1>10. ASSUME NEW p \in Procs, UpdateMembership(p) \/ DeleteMembership(p)
       PROVE  OwnerComesFirst'
  <2>1. Slot(p, "idle", Founder, "member", 0) /\ UNCHANGED <<accounts, rows>>
    BY <1>10, Moves DEF UpdateMembership, DeleteMembership
  <2>2. rows > 0
    BY <1>10 DEF UpdateMembership, DeleteMembership, At, OwnerComesFirst
  <2>3. \A m \in members' : m.id <= rows
    BY <1>10, WriteType DEF OwnerComesFirst
  <2> QED
    BY <2>1, <2>2, <2>3 DEF Slot, OwnerComesFirst
<1>11. ASSUME NEW p \in Procs, Crash(p)
       PROVE  OwnerComesFirst'
  BY <1>11, <1>c, Moves DEF Crash
<1>12. CASE UNCHANGED vars
  BY <1>12 DEF vars, OwnerComesFirst
<1> QED
  BY <1>1, <1>2, <1>3, <1>4, <1>5, <1>6, <1>7, <1>8, <1>9, <1>10, <1>11, <1>12 DEF Next

-----------------------------------------------------------------------------
(* The organisation is built in order, and only a crash leaves it half     *)
(* built.                                                                  *)
LEMMA StepKeepsParts == IInv /\ [Next]_vars => PartsInOrder' /\ NothingHalfRegistered'
<1> DEFINE Goal == PartsInOrder' /\ NothingHalfRegistered'
<1> SUFFICES ASSUME IInv, [Next]_vars
             PROVE  Goal
  OBVIOUS
<1>0. /\ TypeOK /\ RegistrationsOwn /\ OwnerComesFirst /\ RegistrationAdoptsNobody
      /\ PartsInOrder /\ NothingHalfRegistered
  BY DEF IInv
<1>a. /\ rows \in Nat /\ crashes \in Nat /\ Founder \in Users
      /\ accounts \in [Users -> {"none", "registered", "added"}]
      /\ welcomed \in [Users -> Nat]
      /\ \A p \in Procs : req[p].user \in Users
  BY <1>0, AccountsAssumption DEF TypeOK, Request
<1> USE <1>a
(* A request that is not registering Founder's organisation begins, moves  *)
(* on or ends; it may add to the tables.                                   *)
<1>b. ASSUME NEW p \in Procs, NEW step, NEW user, NEW role, NEW id,
             Slot(p, step, user, role, id), UNCHANGED <<org, crashes>>, rows' \in Nat, rows' >= rows,
             accounts'[Founder] = accounts[Founder], welcomed'[Founder] = welcomed[Founder],
             step \notin RegSteps, req[p].user = Founder => req[p].step \notin RegSteps
      PROVE  Goal
  <2>1. HalfRegistered' => HalfRegistered
    BY <1>b DEF HalfRegistered
  <2>2. PartsInOrder'
    BY <1>0, <1>b, <2>1 DEF PartsInOrder, Slot, RegSteps
  <2>3. NothingHalfRegistered'
    BY <1>0, <1>b, <2>1 DEF NothingHalfRegistered, Slot, RegSteps
  <2> QED
    BY <2>2, <2>3
(* An account that is not Founder's is registered, or its session handed   *)
(* out.                                                                    *)
<1>c. ASSUME NEW p \in Procs, NEW step, NEW user, NEW role, NEW id,
             Slot(p, step, user, role, id), UNCHANGED <<org, crashes, rows>>,
             accounts'[Founder] = accounts[Founder], welcomed'[Founder] = welcomed[Founder],
             step \in {"idle", "createSession"}, step = "createSession" => user # Founder,
             req[p].user # Founder
      PROVE  Goal
  <2>1. HalfRegistered' <=> HalfRegistered
    BY <1>c DEF HalfRegistered
  <2>2. PartsInOrder'
    BY <1>0, <1>c, <2>1 DEF PartsInOrder, Slot
  <2>3. NothingHalfRegistered'
    BY <1>0, <1>c, <2>1 DEF NothingHalfRegistered, Slot
  <2> QED
    BY <2>2, <2>3
<1> HIDE DEF Goal
<1>1. ASSUME NEW p \in Procs, NEW u \in Users, Register(p, u)
      PROVE  Goal
  <2>1. Slot(p, "createUser", u, "member", 0) /\ req[p].step = "idle"
    BY <1>0, <1>1, Begins DEF Register, Begin, At
  <2>2. UNCHANGED <<accounts, org, rows, welcomed, crashes>>
    BY <1>1 DEF Register
  <2> QED
    BY <1>b, <2>1, <2>2 DEF RegSteps
<1>2. ASSUME NEW p \in Procs, CreateUser(p)
      PROVE  Goal
  <2>0. req[p].step = "createUser" /\ UNCHANGED <<org, rows, welcomed, crashes>>
    BY <1>2 DEF CreateUser, At
  <2>1. CASE Known(req[p].user)
    <3>1. Slot(p, "idle", Founder, "member", 0) /\ UNCHANGED accounts
      BY <1>0, <1>2, <2>1, Moves DEF CreateUser
    <3> QED
      BY <1>b, <2>0, <3>1 DEF RegSteps
  <2>2. CASE ~Known(req[p].user) /\ req[p].user # Founder
    <3>1. Slot(p, "createSession", req[p].user, req[p].role, req[p].id)
      BY <1>0, <1>2, <2>2, Moves DEF CreateUser, AfterUser, Step
    <3>2. accounts'[Founder] = accounts[Founder]
      BY <1>2, <2>2 DEF CreateUser
    <3> QED
      BY <1>c, <2>0, <2>2, <3>1, <3>2
  <2>3. CASE ~Known(req[p].user) /\ req[p].user = Founder
    <3>1. Slot(p, "createOrganization", Founder, req[p].role, req[p].id)
      BY <1>0, <1>2, <2>3, Moves DEF CreateUser, AfterUser, Step
    <3>2. rows = 0 /\ ~(welcomed[Founder] > 0)
      BY <1>0, <2>3 DEF Known, OwnerComesFirst, RegistrationAdoptsNobody
    <3>3. PartsInOrder'
      BY <1>0, <2>0, <3>1 DEF PartsInOrder, RegistrationsOwn, Registering, RegSteps, Known, Slot, HalfRegistered
    <3>4. NothingHalfRegistered'
      BY <2>0, <3>1, <3>2 DEF NothingHalfRegistered, Slot
    <3> QED
      BY <3>3, <3>4 DEF Goal
  <2> QED
    BY <2>1, <2>2, <2>3
(* The steps of Founder's registration.                                    *)
<1>d. ASSUME NEW p \in Procs, Registering(p), req[p].step # "createSession"
      PROVE  /\ req[p].user = Founder /\ welcomed[Founder] = 0
             /\ \A q \in Procs \ {p} : Registering(q) => req[q].user # Founder
                                                      /\ req[q].step = "createSession"
  BY <1>0, <1>d DEF RegistrationsOwn
<1>3. ASSUME NEW p \in Procs, CreateOrganization(p) \/ CreateOwner(p)
      PROVE  Goal
  <2>0. Registering(p) /\ req[p].step # "createSession"
    BY <1>3 DEF CreateOrganization, CreateOwner, At, Registering, RegSteps
  <2>1. PICK step \in {"createOwner", "createAgent"} :
          /\ Slot(p, step, req[p].user, req[p].role, req[p].id)
          /\ "organization" \in org'
          /\ step = "createAgent" => rows' > 0
    <3>1. CASE CreateOrganization(p)
      BY <1>0, <3>1, Moves DEF CreateOrganization, Step
    <3>2. CASE CreateOwner(p)
      BY <1>0, <3>2, Moves DEF CreateOwner, Step, At, PartsInOrder, Insert
    <3> QED
      BY <1>3, <3>1, <3>2
  <2>2. UNCHANGED <<accounts, welcomed, crashes>>
    BY <1>3 DEF CreateOrganization, CreateOwner
  <2>3. PartsInOrder'
    BY <1>d, <2>0, <2>1, <2>2 DEF PartsInOrder, Slot, Registering, RegSteps
  <2>4. NothingHalfRegistered'
    BY <1>d, <2>0, <2>1, <2>2 DEF NothingHalfRegistered, Slot
  <2> QED
    BY <2>3, <2>4 DEF Goal
<1>4. ASSUME NEW p \in Procs, CreateAgent(p) \/ NotifyWelcome(p)
      PROVE  Goal
  <2>0. Registering(p) /\ req[p].step # "createSession"
    BY <1>4 DEF CreateAgent, NotifyWelcome, At, Registering, RegSteps
  <2>1. PICK step \in {"notify", "createSession"} :
          Slot(p, step, req[p].user, req[p].role, req[p].id)
    BY <1>0, <1>4, Moves DEF CreateAgent, NotifyWelcome, Step
  <2>2. rows > 0 /\ {"organization", "agent"} \subseteq org'
    BY <1>0, <1>4 DEF CreateAgent, NotifyWelcome, At, PartsInOrder
  <2>3. UNCHANGED <<accounts, rows, welcomed, crashes>>
    BY <1>4 DEF CreateAgent, NotifyWelcome
  <2>4. ~HalfRegistered'
    BY <2>2, <2>3 DEF HalfRegistered
  <2>5. PartsInOrder'
    BY <1>d, <2>0, <2>1, <2>2, <2>3, <2>4 DEF PartsInOrder, Slot
  <2> QED
    BY <2>4, <2>5 DEF Goal, NothingHalfRegistered
<1>5. ASSUME NEW p \in Procs, CreateSession(p)
      PROVE  Goal
  <2>0. /\ req[p].step = "createSession" /\ Slot(p, "idle", Founder, "member", 0)
        /\ UNCHANGED <<accounts, org, rows, crashes>>
        /\ welcomed' = [welcomed EXCEPT ![req[p].user] = @ + 1]
    BY <1>0, <1>5, Moves DEF CreateSession, At
  <2>1. CASE req[p].user # Founder
    BY <1>c, <2>0, <2>1
  <2>2. CASE req[p].user = Founder
    <3>1. ~HalfRegistered'
      BY <1>0, <2>0, <2>2 DEF PartsInOrder, HalfRegistered
    <3>2. PartsInOrder'
      BY <1>0, <2>0, <3>1 DEF PartsInOrder, Slot
    <3> QED
      BY <3>1, <3>2 DEF Goal, NothingHalfRegistered
  <2> QED
    BY <2>1, <2>2
(* The steps that manage members.                                          *)
<1>6. ASSUME NEW p \in Procs, NEW actor \in Users, NEW u \in Users, NEW role \in OrgRole,
             AddMember(p, actor, u, role)
      PROVE  Goal
  <2>1. PICK s \in {"createMembership", "createColleague"} : Slot(p, s, u, role, 0)
    BY <1>0, <1>6, Begins
  <2>2. req[p].step = "idle" /\ UNCHANGED <<accounts, org, rows, welcomed, crashes>>
    BY <1>6 DEF AddMember, Begin, At
  <2> QED
    BY <1>b, <2>1, <2>2 DEF RegSteps
<1>7. ASSUME NEW p \in Procs,
             \/ CreateColleague(p) \/ GetMembership(p) \/ CreateMembership(p)
             \/ UpdateMembership(p) \/ DeleteMembership(p)
      PROVE  Goal
  <2>1. \/ Slot(p, "idle", Founder, "member", 0)
        \/ Slot(p, "getMembership", req[p].user, req[p].role, req[p].id)
        \/ Slot(p, "createMembership", req[p].user, req[p].role, req[p].id)
    BY <1>0, <1>7, Moves DEF CreateColleague, GetMembership, CreateMembership,
                             UpdateMembership, DeleteMembership, Step
  <2>2. req[p].step \in MemberSteps /\ UNCHANGED <<org, welcomed, crashes>>
    BY <1>7 DEF CreateColleague, GetMembership, CreateMembership, UpdateMembership,
                DeleteMembership, At, MemberSteps
  <2>3. rows' \in {rows, rows + 1}
    BY <1>7 DEF CreateColleague, GetMembership, CreateMembership, UpdateMembership,
                DeleteMembership, Insert
  <2>4. accounts'[Founder] = accounts[Founder]
    <3>1. accounts[Founder] = "registered"
      BY <1>0, <2>2 DEF OwnerComesFirst
    <3> QED
      BY <1>7, <3>1 DEF CreateColleague, GetMembership, CreateMembership, UpdateMembership,
                        DeleteMembership, Known
  <2>5. req[p].step \notin RegSteps /\ rows' \in Nat /\ rows' >= rows
    BY <2>2, <2>3 DEF RegSteps, MemberSteps
  <2> QED
    BY <1>b, <2>1, <2>2, <2>4, <2>5 DEF RegSteps
<1>8. ASSUME NEW p \in Procs, NEW actor \in Users, NEW m \in members,
             \/ \E role \in OrgRole : ChangeMemberRole(p, actor, m, role)
             \/ RemoveMember(p, actor, m)
      PROVE  Goal
  <2>1. \/ \E role \in OrgRole : Slot(p, "updateMembership", m.user, role, m.id)
        \/ Slot(p, "deleteMembership", m.user, "member", m.id)
    BY <1>0, <1>8, Begins
  <2>2. req[p].step = "idle" /\ UNCHANGED <<accounts, org, rows, welcomed, crashes>>
    BY <1>8 DEF ChangeMemberRole, RemoveMember, Begin, At
  <2> QED
    BY <1>b, <2>1, <2>2 DEF RegSteps
<1>9. ASSUME NEW p \in Procs, Crash(p)
      PROVE  Goal
  <2>1. Slot(p, "idle", Founder, "member", 0) /\ UNCHANGED <<accounts, org, rows, welcomed>>
    BY <1>0, <1>9, Moves DEF Crash
  <2>2. crashes' # 0
    BY <1>9 DEF Crash
  <2> QED
    BY <1>0, <2>1, <2>2 DEF Goal, PartsInOrder, NothingHalfRegistered, HalfRegistered, Slot
<1>10. CASE UNCHANGED vars
  BY <1>0, <1>10 DEF vars, Goal, PartsInOrder, NothingHalfRegistered, HalfRegistered
<1> QED
  BY <1>1, <1>2, <1>3, <1>4, <1>5, <1>6, <1>7, <1>8, <1>9, <1>10 DEF Next

-----------------------------------------------------------------------------
(* Nobody takes the last owner away, unless owners change under them.      *)
LEMMA StepKeepsOwners == IInv /\ [Next]_vars => AnotherOwner' /\ OwnerKept'
<1> DEFINE Goal == AnotherOwner' /\ OwnerKept'
<1> SUFFICES ASSUME IInv, [Next]_vars
             PROVE  Goal
  OBVIOUS
<1>0. TypeOK /\ RegistrationsOwn /\ OwnerComesFirst /\ AnotherOwner /\ OwnerKept
  BY DEF IInv
<1>a. /\ rows \in Nat /\ members \subseteq Membership
      /\ \A m, n \in members : m.id = n.id => m = n
      /\ \A m \in members : m.id \in Nat /\ m.id <= rows
      /\ \A p \in Procs : req[p].id \in Nat /\ req[p].id <= rows
  <2>1. /\ rows \in Nat /\ members \subseteq Membership
        /\ \A m, n \in members : m.id = n.id => m = n
    BY <1>0 DEF TypeOK
  <2>2. \A m \in members : m.id \in Nat /\ m.id <= rows
    BY <1>0, <2>1, Fields DEF OwnerComesFirst
  <2>3. \A p \in Procs : req[p].id \in Nat /\ req[p].id <= rows
    BY <1>0 DEF OwnerComesFirst, TypeOK, Request
  <2> QED
    BY <2>1, <2>2, <2>3
(* A step that writes no row: what p is about to take away has another.    *)
<1>b. ASSUME NEW p \in Procs, NEW step, NEW user, NEW role, NEW id,
             Slot(p, step, user, role, id), UNCHANGED <<members, rows, raced>>,
             \/ step \notin {"updateMembership", "deleteMembership"}
             \/ step = "updateMembership" /\ role = "owner"
             \/ \A o \in Owners : o.id # id
             \/ \E o \in Owners : o.id # id
      PROVE  Goal
  <2>1. Owners' = Owners
    BY <1>b DEF Owners
  <2>2. AnotherOwner'
    BY <1>0, <1>b, <2>1 DEF AnotherOwner, TakesOwner, Slot
  <2> QED
    BY <1>0, <1>b, <2>1, <2>2 DEF OwnerKept
(* A step that inserts a row: its id is new, so no request is about it.    *)
<1>c. ASSUME NEW p \in Procs, NEW step, step \notin {"updateMembership", "deleteMembership"},
             NEW user, NEW role, NEW id, Slot(p, step, user, role, id), UNCHANGED raced,
             NEW u, NEW newRole, Insert(u, newRole), rows > 0 \/ newRole = "owner"
      PROVE  Goal
  <2> DEFINE new == [id |-> rows + 1, user |-> u, role |-> newRole]
  <2>1. members' = members \cup {new} /\ rows' = rows + 1
    BY <1>c DEF Insert
  <2>2. Owners \subseteq Owners' /\ (newRole = "owner" => new \in Owners')
    BY <2>1 DEF Owners
  <2>3. \A o \in Owners' : o.id = rows + 1 \/ o \in Owners
    BY <2>1 DEF Owners
  <2>4. AnotherOwner'
    BY <1>0, <1>a, <1>c, <2>2, <2>3 DEF AnotherOwner, TakesOwner, Slot
  <2>5. OwnerKept'
    BY <1>0, <1>c, <2>1, <2>2 DEF OwnerKept
  <2> QED
    BY <2>4, <2>5
<1> HIDE DEF Goal
<1>1. ASSUME NEW p \in Procs, NEW u \in Users, Register(p, u)
      PROVE  Goal
  <2>1. Slot(p, "createUser", u, "member", 0) /\ UNCHANGED <<members, rows, raced>>
    BY <1>0, <1>1, Begins DEF Register
  <2> QED
    BY <1>b, <2>1
<1>2. ASSUME NEW p \in Procs,
             \/ CreateUser(p) \/ CreateOrganization(p) \/ CreateAgent(p) \/ NotifyWelcome(p)
             \/ CreateSession(p) \/ CreateColleague(p) \/ GetMembership(p) \/ Crash(p)
      PROVE  Goal
  <2>1. \/ Slot(p, "idle", Founder, "member", 0)
        \/ \E step \in Step \ {"updateMembership", "deleteMembership"} :
             Slot(p, step, req[p].user, req[p].role, req[p].id)
    BY <1>0, <1>2, Moves DEF CreateUser, AfterUser, CreateOrganization, CreateAgent, NotifyWelcome,
         CreateSession, CreateColleague, GetMembership, Crash, Step
  <2>2. UNCHANGED <<members, rows, raced>>
    BY <1>2 DEF CreateUser, CreateOrganization, CreateAgent, NotifyWelcome, CreateSession,
         CreateColleague, GetMembership, Crash
  <2> QED
    BY <1>b, <2>1, <2>2
<1>3. ASSUME NEW p \in Procs, CreateOwner(p)
      PROVE  Goal
  <2>1. Slot(p, "createAgent", req[p].user, req[p].role, req[p].id)
    BY <1>0, <1>3, Moves DEF CreateOwner, Step
  <2>2. Insert(Founder, "owner") /\ UNCHANGED raced
    BY <1>3 DEF CreateOwner
  <2> QED
    BY <1>c, <2>1, <2>2
<1>4. ASSUME NEW p \in Procs, NEW actor \in Users, NEW u \in Users, NEW role \in OrgRole,
             AddMember(p, actor, u, role)
      PROVE  Goal
  <2>1. PICK s \in {"createMembership", "createColleague"} : Slot(p, s, u, role, 0)
    BY <1>0, <1>4, Begins
  <2>2. UNCHANGED <<members, rows, raced>>
    BY <1>4 DEF AddMember
  <2> QED
    BY <1>b, <2>1, <2>2
<1>5. ASSUME NEW p \in Procs, CreateMembership(p)
      PROVE  Goal
  <2>1. Slot(p, "idle", Founder, "member", 0) /\ UNCHANGED raced
    BY <1>0, <1>5, Moves DEF CreateMembership
  <2>2. rows > 0
    BY <1>0, <1>5 DEF CreateMembership, At, OwnerComesFirst, MemberSteps
  <2>3. CASE IsMember(req[p].user)
    BY <1>5, <1>b, <2>1, <2>3 DEF CreateMembership
  <2>4. CASE ~IsMember(req[p].user)
    BY <1>5, <1>c, <2>1, <2>2, <2>4 DEF CreateMembership
  <2> QED
    BY <2>3, <2>4
(* Two owners: the rule asks that an owner who goes is not the only one.   *)
<1>d. ASSUME NEW m \in members, m.role = "owner" => Cardinality(Owners) > 1
      PROVE  (\A o \in Owners : o.id # m.id) \/ (\E o \in Owners : o.id # m.id)
  <2> SUFFICES ASSUME \A o \in Owners : o.id = m.id, Owners # {}
               PROVE  FALSE
    OBVIOUS
  <2>1. \A o \in Owners : o = m
    BY <1>a DEF Owners
  <2>2. Owners = {m}
    BY <2>1
  <2>3. m.role = "owner"
    BY <2>2 DEF Owners
  <2>4. Cardinality(Owners) = 1
    BY <2>2, FS_Singleton
  <2> QED
    BY <1>d, <2>3, <2>4
<1>6. ASSUME NEW p \in Procs, NEW actor \in Users, NEW m \in members, NEW role \in OrgRole,
             ChangeMemberRole(p, actor, m, role)
      PROVE  Goal
  <2>1. Slot(p, "updateMembership", m.user, role, m.id) /\ UNCHANGED <<members, rows, raced>>
    BY <1>0, <1>6, Begins DEF ChangeMemberRole
  <2>2. role # "owner" => (m.role = "owner" => Cardinality(Owners) > 1)
    BY <1>6 DEF ChangeMemberRole
  <2> QED
    BY <1>b, <1>d, <2>1, <2>2
<1>7. ASSUME NEW p \in Procs, NEW actor \in Users, NEW m \in members, RemoveMember(p, actor, m)
      PROVE  Goal
  <2>1. Slot(p, "deleteMembership", m.user, "member", m.id) /\ UNCHANGED <<members, rows, raced>>
    BY <1>0, <1>7, Begins DEF RemoveMember
  <2>2. m.role = "owner" => Cardinality(Owners) > 1
    BY <1>7 DEF RemoveMember
  <2> QED
    BY <1>b, <1>d, <2>1, <2>2
<1>8. ASSUME NEW p \in Procs, UpdateMembership(p) \/ DeleteMembership(p)
      PROVE  Goal
  <2>1. Slot(p, "idle", Founder, "member", 0) /\ UNCHANGED rows
    BY <1>0, <1>8, Moves DEF UpdateMembership, DeleteMembership
  <2>2. /\ raced => raced'
        /\ raced' \/ Owners' = Owners
             \/ \A q \in Procs \ {p} : req[q].step \notin {"updateMembership", "deleteMembership"}
    BY <1>8 DEF UpdateMembership, DeleteMembership, NoteRace
  <2>3. AnotherOwner'
    BY <1>0, <2>1, <2>2 DEF AnotherOwner, TakesOwner, Slot
  <2>4. req[p].step \in {"updateMembership", "deleteMembership"} /\ rows > 0
    BY <1>0, <1>8 DEF UpdateMembership, DeleteMembership, At, OwnerComesFirst, MemberSteps
  <2>5. raced \/ \E o \in Owners : TakesOwner(p) => o.id # req[p].id
    BY <1>0, <2>4 DEF AnotherOwner, OwnerKept
  <2>6. ASSUME NEW o \in Owners, TakesOwner(p) => o.id # req[p].id
        PROVE  Owners' # {}
    <3>1. o \in members /\ o.role = "owner"
      BY DEF Owners
    <3>2. CASE o.id # req[p].id
      <4>1. o \in members'
        BY <1>8, <3>1, <3>2 DEF UpdateMembership, DeleteMembership
      <4> QED
        BY <3>1, <4>1 DEF Owners
    <3>3. CASE o.id = req[p].id
      <4>1. req[p].step = "updateMembership" /\ req[p].role = "owner"
        BY <2>4, <2>6, <3>3 DEF TakesOwner
      <4>2. members' = {IF m.id = req[p].id THEN [m EXCEPT !.role = req[p].role] ELSE m : m \in members}
        BY <1>8, <4>1 DEF UpdateMembership, DeleteMembership, At
      <4>3. [o EXCEPT !.role = "owner"] \in members'
        BY <3>1, <3>3, <4>1, <4>2
      <4>4. [o EXCEPT !.role = "owner"].role = "owner"
        BY <1>a, <3>1 DEF Membership
      <4> QED
        BY <4>3, <4>4 DEF Owners
    <3> QED
      BY <3>2, <3>3
  <2>7. OwnerKept'
    BY <2>2, <2>5, <2>6 DEF OwnerKept
  <2> QED
    BY <2>3, <2>7 DEF Goal
<1>9. CASE UNCHANGED vars
  BY <1>0, <1>9 DEF vars, Goal, AnotherOwner, OwnerKept, TakesOwner, Owners
<1> QED
  BY <1>1, <1>2, <1>3, <1>4, <1>5, <1>6, <1>7, <1>8, <1>9 DEF Next

-----------------------------------------------------------------------------
(* The invariant holds at the start and every step keeps it.               *)
THEOREM Invariance == Spec => []IInv
<1>1. Init => IInv
  <2> SUFFICES ASSUME Init
               PROVE  IInv
    OBVIOUS
  <2>1. TypeOK
    <3>1. rows \in 0..MaxRows /\ crashes \in 0..MaxCrashes
      BY AccountsAssumption DEF Init
    <3>2. req \in [Procs -> Request]
      BY Fields DEF Init
    <3>3. /\ accounts \in [Users -> {"none", "registered", "added"}]
          /\ welcomed \in [Users -> Nat]
      BY DEF Init
    <3>4. /\ org \subseteq Whole /\ members \subseteq Membership /\ raced \in BOOLEAN
          /\ \A m, n \in members : m.user = n.user \/ m.id = n.id => m = n
      BY DEF Init
    <3> QED
      BY <3>1, <3>2, <3>3, <3>4 DEF TypeOK
  <2>2. \A p \in Procs : req[p].step = "idle" /\ req[p].id = 0
    BY Fields DEF Init
  <2>3. RegistrationsOwn /\ RegistrationAdoptsNobody
    BY <2>2 DEF Init, RegistrationsOwn, RegistrationAdoptsNobody, Registering, RegSteps
  <2>4. OwnerComesFirst /\ PartsInOrder /\ AnotherOwner
    BY <2>2 DEF Init, OwnerComesFirst, PartsInOrder, AnotherOwner, TakesOwner, MemberSteps
  <2>5. NothingHalfRegistered /\ OwnerKept
    BY AccountsAssumption DEF Init, NothingHalfRegistered, HalfRegistered, OwnerKept
  <2> QED
    BY <2>1, <2>3, <2>4, <2>5 DEF IInv
<1>2. IInv /\ [Next]_vars => IInv'
  BY StepKeepsType, StepKeepsRegistrations, StepKeepsOwnerFirst, StepKeepsParts, StepKeepsOwners
  DEF IInv
<1> QED
  BY <1>1, <1>2, PTL DEF Spec

(* Every variable keeps its type, and the table of members one row for a   *)
(* user and one for an id.                                                 *)
THEOREM TypeCorrect == Spec => []TypeOK
  BY Invariance, PTL DEF IInv

(* identity.ts: registration hands out at most one session for an address, *)
(* and none for an account that somebody else created, whatever comes      *)
(* between its look for the account and the insert.                        *)
THEOREM NobodyAdopted == Spec => []RegistrationAdoptsNobody
  BY Invariance, PTL DEF IInv

(* identity.ts: only a crash leaves an account without its organisation    *)
(* and agent, and the session is handed out when both are there.           *)
THEOREM RegistrationComplete == Spec => []NothingHalfRegistered
  BY Invariance, PTL DEF IInv

(* members.ts:131: an organisation keeps an owner, unless two requests     *)
(* that change owners overlap.                                             *)
THEOREM AnOwnerRemains == Spec => []OwnerKept
  BY Invariance, PTL DEF IInv

-----------------------------------------------------------------------------
(* Module RoomPage.                                                        *)

(* There is room for a criterion and for a contract.                       *)
PageBounds == MaxCriteria \in Nat \ {0} /\ MaxVersions \in Nat

PageTypeOK ==
  /\ room \in {"NEGOTIATING", "READY", "ACTIVE", "PAUSED", "COMPLETION_PROPOSED", "COMPLETED"}
  /\ contracts \in Seq(Seq(Criterion)) /\ Len(contracts) <= MaxVersions
  /\ approved \in [Orgs -> 0..MaxVersions]
  /\ evidence \in Seq([criterion : CriterionId, verified : BOOLEAN])
  /\ criterion \in [CriterionId -> {"PENDING", "EVIDENCE_SUBMITTED", "VERIFIED"}]
  /\ consent \subseteq Orgs
  /\ page \in [Orgs -> Page]

(* Nobody agrees to a contract that is not there.                          *)
ContractAgreed == room # "NEGOTIATING" => contracts # <<>>

(* A criterion is verified by a row of evidence for it.                    *)
VerifiedHasRow ==
  \A c \in CriterionId :
    criterion[c] = "VERIFIED" =>
      \E i \in DOMAIN evidence : evidence[i].criterion = c /\ evidence[i].verified

(* What both sides have consented to stays verified.                       *)
CompletedIsVerified == room = "COMPLETED" => Verified

PageInv == PageTypeOK /\ ContractAgreed /\ VerifiedHasRow /\ CompletedIsVerified

(* The ids of the criteria: they differ in the contract agreed on; and     *)
(* wherever criteria were only added, they are the places.                 *)
NumbersDiffer ==
  \A i, j \in DOMAIN Contract : Contract[i].id = Contract[j].id => i = j

Numbered(draft) == \A i \in DOMAIN draft : draft[i].id = i

AllNumbered ==
  /\ \A o \in Orgs : Numbered(page[o].draft)
  /\ \A v \in DOMAIN contracts : Numbered(contracts[v])

Removal == \E o \in Orgs : \E i \in DOMAIN page[o].draft : RemoveCriterion(o, i)

-----------------------------------------------------------------------------
(* What is in a sequence.                                                  *)
LEMMA ElementsOfSequence ==
  ASSUME NEW S, NEW s \in Seq(S)
  PROVE  \A i \in DOMAIN s : s[i] \in S
  OBVIOUS

(* The contract that the room has is one of those that were proposed.      *)
LEMMA ContractIsLast ==
  ASSUME PageTypeOK, contracts # <<>>
  PROVE  /\ Contract \in Seq(Criterion) /\ Contract = contracts[Len(contracts)]
         /\ Len(contracts) \in DOMAIN contracts
         /\ \A i \in DOMAIN Contract : Contract[i].id \in CriterionId
  <1>1. /\ Contract \in Seq(Criterion) /\ Contract = contracts[Len(contracts)]
        /\ Len(contracts) \in DOMAIN contracts
    BY DEF PageTypeOK, Contract, Last
  <1>2. \A i \in DOMAIN Contract : Contract[i] \in Criterion
    BY <1>1
  <1> QED
    BY <1>1, <1>2 DEF Criterion

(* A draft without one of its criteria is a draft, and so is one in which  *)
(* a criterion no longer asks for evidence, or does again; that one keeps  *)
(* its ids.                                                                *)
LEMMA RemovalShortens ==
  ASSUME NEW S, NEW s \in Seq(S), NEW i \in DOMAIN s
  PROVE  RemoveAt(s, i) \in Seq(S)
  <1> DEFINE u == SubSeq(s, 1, i - 1)
             v == SubSeq(s, i + 1, Len(s))
  <1>1. /\ DOMAIN s = 1..Len(s) /\ Len(s) \in Nat /\ i \in 1..Len(s)
        /\ \A j \in 1..Len(s) : s[j] \in S
    OBVIOUS
  <1>2. u \in Seq(S) /\ v \in Seq(S)
    BY <1>1, SubSeqProperties
  <1>3. RemoveAt(s, i) = u \o v
    BY DEF RemoveAt
  <1> HIDE DEF u, v
  <1> QED
    BY <1>2, <1>3, ConcatProperties

(* The checkbox.                                                           *)
LEMMA ToggleKeepsNumbers ==
  ASSUME NEW s \in Seq(Criterion), NEW i \in DOMAIN s
  PROVE  LET t == [s EXCEPT ![i].evidenceRequired = ~@] IN
         /\ t \in Seq(Criterion) /\ DOMAIN t = DOMAIN s
         /\ \A j \in DOMAIN s : t[j].id = s[j].id
  <1> DEFINE t == [s EXCEPT ![i].evidenceRequired = ~@]
  <1>1. DOMAIN t = DOMAIN s /\ DOMAIN s = 1..Len(s) /\ Len(s) \in Nat
    OBVIOUS
  <1>2. ASSUME NEW j \in DOMAIN s
        PROVE  t[j] \in Criterion /\ t[j].id = s[j].id
    <2>1. s[j] \in Criterion
      OBVIOUS
    <2>2. t[j] = IF j = i THEN [s[j] EXCEPT !.evidenceRequired = ~@] ELSE s[j]
      OBVIOUS
    <2>3. [s[j] EXCEPT !.evidenceRequired = ~@] \in Criterion
          /\ [s[j] EXCEPT !.evidenceRequired = ~@].id = s[j].id
      BY <2>1 DEF Criterion
    <2> HIDE DEF t
    <2> QED
      BY <2>1, <2>2, <2>3
  <1>3. t \in [1..Len(s) -> Criterion]
    BY <1>1, <1>2
  <1> HIDE DEF t
  <1>4. t \in Seq(Criterion)
    BY <1>1, <1>3
  <1> QED
    BY <1>1, <1>2, <1>4 DEF t

(* The form: what a page makes of its draft is a draft.                    *)
LEMMA DraftsKeepType ==
  ASSUME PageBounds, PageTypeOK, NEW o \in Orgs,
         \/ RefreshRoom(o) \/ RefreshEvidence(o) \/ SeedDraft(o) \/ AddCriterion(o)
         \/ \E i \in DOMAIN page[o].draft : RemoveCriterion(o, i) \/ ToggleEvidence(o, i)
  PROVE  /\ page' \in [Orgs -> Page]
         /\ UNCHANGED <<room, contracts, approved, evidence, criterion, consent>>
  <1>1. UNCHANGED <<room, contracts, approved, evidence, criterion, consent>>
    BY DEF RefreshRoom, RefreshEvidence, SeedDraft, AddCriterion, RemoveCriterion,
           ToggleEvidence, Draft
  <1>2. page \in [Orgs -> Page] /\ page[o].draft \in Seq(Criterion)
    BY DEF PageTypeOK, Page
  <1>3. ASSUME NEW d \in Seq(Criterion), Draft(o, d)
        PROVE  page' \in [Orgs -> Page]
    BY <1>2, <1>3 DEF Draft, Page
  <1>4. CASE RefreshRoom(o)
    <2>1. Filled(o) \in Seq(Criterion)
      BY <1>2, ContractIsLast DEF Filled
    <2> DEFINE r == [page[o] EXCEPT !.loaded = TRUE, !.state = room,
                                    !.version = Len(contracts), !.draft = Filled(o)]
    <2>2. page' = [page EXCEPT ![o] = r]
      BY <1>4 DEF RefreshRoom
    <2>3. Len(contracts) \in 0..MaxVersions /\ room \in RoomState
      BY DEF PageBounds, PageTypeOK, RoomState
    <2>4. r \in Page
      BY <1>2, <2>1, <2>3 DEF Page
    <2> HIDE DEF r
    <2> QED
      BY <1>1, <1>2, <2>2, <2>4
  <1>5. CASE RefreshEvidence(o)
    <2>1. Len(evidence) \in Nat
      BY DEF PageTypeOK
    <2> QED
      BY <1>1, <1>2, <1>5, <2>1 DEF RefreshEvidence, Page
  <1>6. CASE SeedDraft(o)
    <2>1. <<[id |-> 1, evidenceRequired |-> TRUE]>> \in Seq(Criterion)
      BY DEF PageBounds, Criterion, CriterionId
    <2> QED
      BY <1>1, <1>3, <1>6, <2>1 DEF SeedDraft
  <1>7. CASE AddCriterion(o)
    <2>1. [id |-> Len(page[o].draft) + 1, evidenceRequired |-> TRUE] \in Criterion
      BY <1>2, <1>7 DEF AddCriterion, PageBounds, Criterion, CriterionId
    <2>2. Append(page[o].draft, [id |-> Len(page[o].draft) + 1, evidenceRequired |-> TRUE])
            \in Seq(Criterion)
      BY <1>2, <2>1
    <2> QED
      BY <1>1, <1>3, <1>7, <2>2 DEF AddCriterion
  <1>8. ASSUME NEW i \in DOMAIN page[o].draft, RemoveCriterion(o, i)
        PROVE  page' \in [Orgs -> Page]
    <2>1. RemoveAt(page[o].draft, i) \in Seq(Criterion)
      BY <1>2, <1>8, RemovalShortens
    <2> QED
      BY <1>3, <1>8, <2>1 DEF RemoveCriterion
  <1>9. ASSUME NEW i \in DOMAIN page[o].draft, ToggleEvidence(o, i)
        PROVE  page' \in [Orgs -> Page]
    <2>1. [page[o].draft EXCEPT ![i].evidenceRequired = ~@] \in Seq(Criterion)
      BY <1>2, <1>9, ToggleKeepsNumbers
    <2> QED
      BY <1>3, <1>9, <2>1 DEF ToggleEvidence
  <1> QED
    BY <1>1, <1>4, <1>5, <1>6, <1>7, <1>8, <1>9

(* The step, for the types and for what a completion rests on.             *)
LEMMA PageStepKeepsInv ==
  ASSUME PageBounds, PageInv, [PageNext]_pageVars
  PROVE  PageInv'
  <1> USE DEF PageInv
  <1>1. ASSUME NEW o \in Orgs,
               \/ RefreshRoom(o) \/ RefreshEvidence(o) \/ SeedDraft(o) \/ AddCriterion(o)
               \/ \E i \in DOMAIN page[o].draft : RemoveCriterion(o, i) \/ ToggleEvidence(o, i)
        PROVE  PageInv'
    <2>1. /\ page' \in [Orgs -> Page]
          /\ UNCHANGED <<room, contracts, approved, evidence, criterion, consent>>
      BY <1>1, DraftsKeepType
    <2> QED
      BY <2>1 DEF PageTypeOK, ContractAgreed, VerifiedHasRow, CompletedIsVerified, Verified,
                  Required, Contract, Last
  <1>2. ASSUME NEW o \in Orgs, ProposeContract(o)
        PROVE  PageInv'
    <2>1. page[o].draft \in Seq(Criterion) /\ contracts \in Seq(Seq(Criterion))
      BY DEF PageTypeOK, Page
    <2>2. contracts' \in Seq(Seq(Criterion)) /\ Len(contracts') <= MaxVersions /\ contracts' # <<>>
      BY <1>2, <2>1 DEF ProposeContract, PageBounds
    <2>3. /\ room' = room /\ room = "NEGOTIATING"
          /\ UNCHANGED <<evidence, criterion, consent, page>>
          /\ approved' \in [Orgs -> 0..MaxVersions]
      BY <1>2 DEF ProposeContract, PageTypeOK, PageBounds
    <2> QED
      BY <2>2, <2>3 DEF PageTypeOK, ContractAgreed, VerifiedHasRow, CompletedIsVerified
  <1>3. ASSUME NEW o \in Orgs, ApproveContract(o)
        PROVE  PageInv'
    <2>1. UNCHANGED <<contracts, evidence, criterion, consent, page>>
      BY <1>3 DEF ApproveContract
    <2>2. /\ approved' \in [Orgs -> 0..MaxVersions]
          /\ room' = room \/ (room' = "READY" /\ contracts # <<>>)
      BY <1>3 DEF ApproveContract, PageTypeOK, Page
    <2> QED
      BY <2>1, <2>2 DEF PageTypeOK, ContractAgreed, VerifiedHasRow, CompletedIsVerified, Verified,
                        Required, Contract, Last
  <1>4. ASSUME NEW o \in Orgs, Start(o) \/ Pause(o) \/ Resume(o)
        PROVE  PageInv'
    <2>1. /\ UNCHANGED <<contracts, approved, evidence, criterion, consent, page>>
          /\ room # "NEGOTIATING" /\ room' \in {"ACTIVE", "PAUSED"}
      BY <1>4 DEF Start, Pause, Resume, CanTransition, Transitions
    <2> QED
      BY <2>1 DEF PageTypeOK, ContractAgreed, VerifiedHasRow, CompletedIsVerified
  <1>5. ASSUME NEW o \in Orgs, NEW i \in DOMAIN evidence, VerifyEvidence(o, i)
        PROVE  PageInv'
    <2>1. /\ UNCHANGED <<room, contracts, approved, consent, page>>
          /\ evidence' = [evidence EXCEPT ![i].verified = TRUE]
          /\ criterion' = [criterion EXCEPT ![evidence[i].criterion] = "VERIFIED"]
      BY <1>5 DEF VerifyEvidence
    <2>2. /\ evidence \in Seq([criterion : CriterionId, verified : BOOLEAN])
          /\ criterion \in [CriterionId -> {"PENDING", "EVIDENCE_SUBMITTED", "VERIFIED"}]
      BY DEF PageTypeOK
    <2>3. /\ DOMAIN evidence' = DOMAIN evidence
          /\ \A j \in DOMAIN evidence :
               evidence'[j] = IF j = i THEN [evidence[j] EXCEPT !.verified = TRUE] ELSE evidence[j]
      BY <2>1, <2>2
    <2>4. evidence' \in Seq([criterion : CriterionId, verified : BOOLEAN])
      <3> DEFINE Row == [criterion : CriterionId, verified : BOOLEAN]
      <3>1. \A j \in DOMAIN evidence : evidence[j] \in Row
        BY <2>2, ElementsOfSequence
      <3>2. \A j \in DOMAIN evidence : [evidence[j] EXCEPT !.verified = TRUE] \in Row
        BY <3>1
      <3>3. \A j \in DOMAIN evidence : evidence'[j] \in Row
        BY <2>3, <3>1, <3>2
      <3>4. DOMAIN evidence = 1..Len(evidence) /\ Len(evidence) \in Nat
        BY <2>2
      <3>5. evidence' = [j \in DOMAIN evidence |-> evidence'[j]]
        BY <2>1
      <3> HIDE DEF Row
      <3>6. evidence' \in [1..Len(evidence) -> Row]
        BY <3>3, <3>4, <3>5
      <3>7. evidence' \in Seq(Row)
        BY <3>4, <3>6
      <3> QED
        BY <3>7 DEF Row
    <2>5. criterion' \in [CriterionId -> {"PENDING", "EVIDENCE_SUBMITTED", "VERIFIED"}]
      BY <2>1, <2>2
    <2>6. /\ evidence'[i].criterion = evidence[i].criterion /\ evidence'[i].verified
          /\ \A j \in DOMAIN evidence :
               evidence[j].verified =>
                 evidence'[j].verified /\ evidence'[j].criterion = evidence[j].criterion
      <3>1. \A j \in DOMAIN evidence :
              evidence[j] \in [criterion : CriterionId, verified : BOOLEAN]
        BY <2>2, ElementsOfSequence
      <3> QED
        BY <2>3, <3>1
    <2>7. VerifiedHasRow'
      <3>1. ASSUME NEW c \in CriterionId, criterion'[c] = "VERIFIED"
            PROVE  \E j \in DOMAIN evidence' :
                     evidence'[j].criterion = c /\ evidence'[j].verified
        <4>1. CASE c = evidence[i].criterion
          BY <2>3, <2>6, <4>1
        <4>2. CASE c # evidence[i].criterion
          <5>1. criterion[c] = "VERIFIED"
            BY <2>1, <2>2, <3>1, <4>2
          <5> QED
            BY <2>3, <2>6, <5>1 DEF VerifiedHasRow
        <4> QED
          BY <4>1, <4>2
      <3> QED
        BY <3>1 DEF VerifiedHasRow
    <2>8. \A c : c \in CriterionId /\ criterion[c] = "VERIFIED" => criterion'[c] = "VERIFIED"
      BY <2>1, <2>2
    <2>9. CompletedIsVerified'
      <3>1. SUFFICES ASSUME room = "COMPLETED"
                     PROVE  Verified'
        BY <2>1 DEF CompletedIsVerified
      <3>2. contracts # <<>> /\ Verified
        BY <3>1 DEF ContractAgreed, CompletedIsVerified
      <3>3. \A j \in Required : Contract[j].id \in CriterionId
        BY <3>2, ContractIsLast DEF Required
      <3>4. Contract' = Contract /\ Required' = Required
        BY <2>1 DEF Contract, Required, Last
      <3> QED
        BY <2>8, <3>2, <3>3, <3>4 DEF Verified
    <2> QED
      BY <2>1, <2>4, <2>5, <2>7, <2>9 DEF PageTypeOK, ContractAgreed
  <1>6. ASSUME NEW o \in Orgs, ApproveCompletion(o)
        PROVE  PageInv'
    <2>1. /\ UNCHANGED <<contracts, approved, evidence, criterion, page>>
          /\ Verified /\ consent' = consent \cup {o}
          /\ room = "COMPLETION_PROPOSED" /\ room' \in {"COMPLETION_PROPOSED", "COMPLETED"}
      BY <1>6 DEF ApproveCompletion
    <2>2. Verified'
      BY <2>1 DEF Verified, Required, Contract, Last
    <2> QED
      BY <2>1, <2>2 DEF PageTypeOK, ContractAgreed, VerifiedHasRow, CompletedIsVerified
  <1>7. ASSUME contracts # <<>>, NEW i \in DOMAIN Contract, SubmitEvidence(i)
        PROVE  PageInv'
    <2> DEFINE id == Contract[i].id
               row == [criterion |-> id, verified |-> FALSE]
    <2>1. /\ UNCHANGED <<room, contracts, approved, consent, page>> /\ room # "COMPLETED"
          /\ evidence' = Append(evidence, row)
          /\ criterion' = [criterion EXCEPT ![id] = IF @ = "VERIFIED" THEN @
                                                   ELSE "EVIDENCE_SUBMITTED"]
      BY <1>7 DEF SubmitEvidence, Routing
    <2>2. id \in CriterionId
      BY <1>7, ContractIsLast
    <2> HIDE DEF id
    <2>3. /\ evidence \in Seq([criterion : CriterionId, verified : BOOLEAN])
          /\ row \in [criterion : CriterionId, verified : BOOLEAN]
          /\ criterion \in [CriterionId -> {"PENDING", "EVIDENCE_SUBMITTED", "VERIFIED"}]
      BY <2>2 DEF PageTypeOK
    <2> HIDE DEF row
    <2>4. /\ evidence' \in Seq([criterion : CriterionId, verified : BOOLEAN])
          /\ criterion' \in [CriterionId -> {"PENDING", "EVIDENCE_SUBMITTED", "VERIFIED"}]
          /\ DOMAIN evidence \subseteq DOMAIN evidence'
          /\ \A j \in DOMAIN evidence : evidence'[j] = evidence[j]
      BY <2>1, <2>2, <2>3
    <2>5. \A c \in CriterionId : criterion'[c] = "VERIFIED" => criterion[c] = "VERIFIED"
      BY <2>1, <2>2, <2>3
    <2>6. VerifiedHasRow'
      BY <2>4, <2>5 DEF VerifiedHasRow
    <2> QED
      BY <2>1, <2>4, <2>6 DEF PageTypeOK, ContractAgreed, CompletedIsVerified
  <1>8. CASE ProposeCompletion
    BY <1>8 DEF ProposeCompletion, PageTypeOK, ContractAgreed, VerifiedHasRow,
                CompletedIsVerified
  <1>9. CASE UNCHANGED pageVars
    BY <1>9 DEF pageVars, PageTypeOK, ContractAgreed, VerifiedHasRow, CompletedIsVerified, Verified,
                Required, Contract, Last
  <1> QED
    BY <1>1, <1>2, <1>3, <1>4, <1>5, <1>6, <1>7, <1>8, <1>9 DEF PageNext

(* An open page and a room under negotiation.                              *)
LEMMA PageInitHasInv ==
  ASSUME PageBounds, PageInit
  PROVE  PageInv /\ AllNumbered
  <1>1. Blank \in Page /\ Blank.draft = <<>>
    BY DEF PageBounds, Blank, Page, RoomState, NoDraft
  <1>2. page \in [Orgs -> Page] /\ \A o \in Orgs : page[o] = Blank
    BY <1>1 DEF PageInit
  <1>3. AllNumbered
    BY <1>1, <1>2 DEF PageInit, AllNumbered, Numbered
  <1> QED
    BY <1>2, <1>3 DEF PageInit, PageBounds, PageInv, PageTypeOK, ContractAgreed, VerifiedHasRow,
                      CompletedIsVerified

(* Where the ids of a contract differ, a completed task has as many        *)
(* verified rows as criteria that ask for one: a row each.                 *)
LEMMA RowForEach ==
  ASSUME PageInv, NumbersDiffer
  PROVE  DoneIsEvidenced
  <1> DEFINE checked == {i \in DOMAIN evidence : evidence[i].verified}
             Row(i) == CHOOSE j \in checked : evidence[j].criterion = Contract[i].id
             f == [i \in Required |-> Row(i)]
  <1>1. SUFFICES ASSUME room = "COMPLETED"
                 PROVE  Cardinality(checked) >= Cardinality(Required)
    BY DEF DoneIsEvidenced
  <1>2. contracts # <<>> /\ Verified
    BY <1>1 DEF PageInv, ContractAgreed, CompletedIsVerified
  <1>3. \A i \in Required : i \in DOMAIN Contract /\ Contract[i].id \in CriterionId
    BY <1>2, ContractIsLast DEF PageInv, Required
  <1>4. ASSUME NEW i \in Required
        PROVE  Row(i) \in checked /\ evidence[Row(i)].criterion = Contract[i].id
    <2>1. \E j \in checked : evidence[j].criterion = Contract[i].id
      BY <1>2, <1>3 DEF Verified, VerifiedHasRow, PageInv
    <2> QED
      BY <2>1
  <1> HIDE DEF Row
  <1>5. f \in [Required -> checked]
    BY <1>4
  <1>6. \A i, j \in Required : f[i] = f[j] => i = j
    BY <1>3, <1>4 DEF NumbersDiffer
  <1>7. IsFiniteSet(checked)
    <2>1. DOMAIN evidence = 1..Len(evidence) /\ Len(evidence) \in Int
      BY DEF PageInv, PageTypeOK
    <2>2. IsFiniteSet(DOMAIN evidence)
      BY <2>1, FS_Interval
    <2>3. checked \in SUBSET DOMAIN evidence
      OBVIOUS
    <2> QED
      BY <2>2, <2>3, FS_Subset
  <1> HIDE DEF f, checked
  <1>8. f \in Injection(Required, checked)
    BY <1>5, <1>6 DEF Injection, IsInjective
  <1>9. /\ Cardinality(Required) <= Cardinality(checked) /\ Cardinality(checked) \in Nat
        /\ Cardinality(Required) \in Nat
    BY <1>7, <1>8, FS_Injection, FS_CardinalityType
  <1> QED
    BY <1>9

(* As long as nothing is removed, ids are places.                          *)
LEMMA NumbersStay ==
  ASSUME PageBounds, PageInv, AllNumbered, [PageNext /\ ~Removal]_pageVars
  PROVE  AllNumbered'
  <1>1. ASSUME contracts' = contracts, page' = page
        PROVE  AllNumbered'
    BY <1>1 DEF AllNumbered, Numbered
  <1>2. ASSUME NEW o \in Orgs, NEW d, Numbered(d), page' = [page EXCEPT ![o].draft = d],
               contracts' = contracts
        PROVE  AllNumbered'
    <2>1. page \in [Orgs -> Page]
      BY DEF PageInv, PageTypeOK
    <2>2. \A x \in Orgs : page'[x].draft = IF x = o THEN d ELSE page[x].draft
      BY <1>2, <2>1 DEF Page
    <2> QED
      BY <1>2, <2>2 DEF AllNumbered, Numbered
  <1>3. ASSUME NEW o \in Orgs, RefreshRoom(o)
        PROVE  AllNumbered'
    <2>1. Numbered(Filled(o))
      BY ContractIsLast DEF PageInv, AllNumbered, Filled
    <2> DEFINE r == [page[o] EXCEPT !.loaded = TRUE, !.state = room,
                                    !.version = Len(contracts), !.draft = Filled(o)]
    <2>2. page' = [page EXCEPT ![o] = r] /\ contracts' = contracts
      BY <1>3 DEF RefreshRoom
    <2>3. page \in [Orgs -> Page]
      BY DEF PageInv, PageTypeOK
    <2>4. r.draft = Filled(o)
      BY <2>3 DEF Page
    <2> HIDE DEF r
    <2>5. \A x \in Orgs : page'[x].draft = IF x = o THEN Filled(o) ELSE page[x].draft
      BY <2>2, <2>3, <2>4
    <2> QED
      BY <2>1, <2>2, <2>5 DEF AllNumbered, Numbered
  <1>4. ASSUME NEW o \in Orgs, RefreshEvidence(o)
        PROVE  AllNumbered'
    <2>1. page \in [Orgs -> Page]
      BY DEF PageInv, PageTypeOK
    <2>2. contracts' = contracts /\ \A x \in Orgs : page'[x].draft = page[x].draft
      BY <1>4, <2>1 DEF RefreshEvidence, Page
    <2> QED
      BY <2>2 DEF AllNumbered, Numbered
  <1>5. ASSUME NEW o \in Orgs, SeedDraft(o)
        PROVE  AllNumbered'
    <2>1. Numbered(<<[id |-> 1, evidenceRequired |-> TRUE]>>)
      BY DEF Numbered
    <2> QED
      BY <1>2, <1>5, <2>1 DEF SeedDraft, Draft
  <1>6. ASSUME NEW o \in Orgs, AddCriterion(o)
        PROVE  AllNumbered'
    <2> DEFINE new == [id |-> Len(page[o].draft) + 1, evidenceRequired |-> TRUE]
    <2>1. page[o].draft \in Seq(Criterion) /\ Numbered(page[o].draft)
      BY DEF PageInv, PageTypeOK, Page, AllNumbered
    <2>2. new.id = Len(page[o].draft) + 1
      OBVIOUS
    <2> HIDE DEF new
    <2>3. Numbered(Append(page[o].draft, new))
      <3>1. SUFFICES ASSUME NEW i \in DOMAIN Append(page[o].draft, new)
                     PROVE  Append(page[o].draft, new)[i].id = i
        BY DEF Numbered
      <3>2. /\ Len(page[o].draft) \in Nat /\ DOMAIN page[o].draft = 1..Len(page[o].draft)
            /\ i \in 1..(Len(page[o].draft) + 1)
        BY <2>1
      <3>3. CASE i = Len(page[o].draft) + 1
        <4>1. Append(page[o].draft, new)[i] = new
          BY <2>1, <3>3
        <4> QED
          BY <2>2, <3>3, <4>1
      <3>4. CASE i \in DOMAIN page[o].draft
        <4>1. Append(page[o].draft, new)[i] = page[o].draft[i]
          BY <2>1, <3>2, <3>4
        <4> QED
          BY <2>1, <3>4, <4>1 DEF Numbered
      <3> QED
        BY <3>2, <3>3, <3>4
    <2> QED
      BY <1>2, <1>6, <2>3 DEF AddCriterion, Draft, new
  <1>7. ASSUME NEW o \in Orgs, NEW i \in DOMAIN page[o].draft, ToggleEvidence(o, i)
        PROVE  AllNumbered'
    <2> DEFINE d == [page[o].draft EXCEPT ![i].evidenceRequired = ~@]
    <2>1. page[o].draft \in Seq(Criterion) /\ Numbered(page[o].draft)
      BY DEF PageInv, PageTypeOK, Page, AllNumbered
    <2>2. Numbered(d)
      BY <2>1, ToggleKeepsNumbers DEF Numbered
    <2>3. page' = [page EXCEPT ![o].draft = d] /\ contracts' = contracts
      BY <1>7 DEF ToggleEvidence, Draft
    <2> HIDE DEF d
    <2> QED
      BY <1>2, <2>2, <2>3
  <1>8. ASSUME NEW o \in Orgs, ProposeContract(o)
        PROVE  AllNumbered'
    <2>1. contracts' = Append(contracts, page[o].draft) /\ page' = page
      BY <1>8 DEF ProposeContract
    <2>2. contracts \in Seq(Seq(Criterion)) /\ page[o].draft \in Seq(Criterion)
          /\ Numbered(page[o].draft)
      BY DEF PageInv, PageTypeOK, Page, AllNumbered
    <2>3. ASSUME NEW v \in DOMAIN contracts'
          PROVE  \/ v \in DOMAIN contracts /\ contracts'[v] = contracts[v]
                 \/ contracts'[v] = page[o].draft
      BY <2>1, <2>2
    <2> QED
      BY <2>1, <2>2, <2>3 DEF AllNumbered
  <1>9. CASE UNCHANGED pageVars
    BY <1>1, <1>9 DEF pageVars
  <1>10. CASE PageNext /\ ~Removal
    <2>1. CASE \E o \in Orgs :
                 \/ ApproveContract(o) \/ Start(o) \/ Pause(o) \/ Resume(o)
                 \/ \E i \in DOMAIN evidence : VerifyEvidence(o, i)
                 \/ ApproveCompletion(o)
      BY <1>1, <2>1 DEF ApproveContract, Start, Pause, Resume, VerifyEvidence, ApproveCompletion
    <2>2. CASE (contracts # <<>> /\ \E i \in DOMAIN Contract : SubmitEvidence(i))
               \/ ProposeCompletion
      BY <1>1, <2>2 DEF SubmitEvidence, ProposeCompletion
    <2> QED
      BY <1>3, <1>4, <1>5, <1>6, <1>7, <1>8, <1>10, <2>1, <2>2 DEF PageNext, Removal
  <1> QED
    BY <1>9, <1>10

(* Whatever the buttons do in whatever order, with pages that show a room  *)
(* that is over: a completed task is evidenced when the ids of its         *)
(* criteria differ.  So the repeated ids are all that is wrong.            *)
THEOREM EvidencedUnlessNumbersRepeat ==
  ASSUME PageBounds
  PROVE  PageSpec => [](NumbersDiffer => DoneIsEvidenced)
  <1>1. PageInit => PageInv
    BY PageInitHasInv
  <1>2. PageInv /\ [PageNext]_pageVars => PageInv'
    BY PageStepKeepsInv
  <1>3. PageInv => (NumbersDiffer => DoneIsEvidenced)
    BY RowForEach
  <1> QED
    BY <1>1, <1>2, <1>3, PTL DEF PageSpec

(* And the button that removes a criterion is all that makes them repeat:  *)
(* where nobody uses it, what setup.tsx:100 says of a task is true.        *)
THEOREM EvidencedWithoutRemoval ==
  ASSUME PageBounds
  PROVE  PageInit /\ [][PageNext /\ ~Removal]_pageVars => []DoneIsEvidenced
  <1>1. PageInit => PageInv /\ AllNumbered
    BY PageInitHasInv
  <1>2. PageInv /\ AllNumbered /\ [PageNext /\ ~Removal]_pageVars => (PageInv /\ AllNumbered)'
    BY PageStepKeepsInv, NumbersStay
  <1>3. PageInv /\ AllNumbered => DoneIsEvidenced
    <2>1. ASSUME PageInv, AllNumbered, contracts # <<>>
          PROVE  NumbersDiffer
      BY <2>1, ContractIsLast DEF PageInv, AllNumbered, Numbered, NumbersDiffer
    <2>2. ASSUME PageInv, contracts = <<>>
          PROVE  DoneIsEvidenced
      BY <2>2 DEF PageInv, ContractAgreed, DoneIsEvidenced
    <2> QED
      BY <2>1, <2>2, RowForEach
  <1> QED
    BY <1>1, <1>2, <1>3, PTL
=============================================================================
