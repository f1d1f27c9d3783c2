------------------------------- MODULE Accounts -------------------------------
(***************************************************************************)
(* People and their roles in an organisation: registration                 *)
(* (packages/core/src/identity.ts) and the management of members           *)
(* (packages/core/src/members.ts) over the tables users and                *)
(* organization_memberships.                                               *)
(*                                                                         *)
(* One organisation, the one that Founder's registration creates; the      *)
(* organisations of others that register are like it and are not kept.     *)
(* An email address is a model value with one spelling.  As in RoomSetup,  *)
(* an element of Procs is a slot for a request in flight, a store write is *)
(* an action, and the reads before the first write are one with its checks.*)
(***************************************************************************)
EXTENDS Naturals, FiniteSets

CONSTANTS Users,      \* email addresses
          Founder,    \* the one who registers the organisation
          Procs,      \* requests in flight at the same time
          MaxRows,    \* bound on the membership rows ever inserted
          MaxCrashes  \* bound on the number of crashes

ASSUME AccountsAssumption ==
  /\ Founder \in Users /\ IsFiniteSet(Users)
  /\ MaxRows \in Nat \ {0} /\ MaxCrashes \in Nat

VARIABLES
  accounts,  \* the table users: who created the row, by address
  org,       \* what else Founder's registration has created so far
  members,   \* organization_memberships
  rows,      \* number of membership rows inserted so far, the last one's id
  welcomed,  \* number of sessions that registrations handed out, by address
  raced,     \* history: owners changed while another request was about to change a row
  req,       \* the requests in flight
  crashes    \* number of crashes so far

vars == <<accounts, org, members, rows, welcomed, raced, req, crashes>>

-----------------------------------------------------------------------------
(* "admin" stands for security_admin too, "member" for auditor.            *)
OrgRole    == {"owner", "admin", "member"}
AdminRoles == {"owner", "admin"}

Membership == [id : 1..MaxRows, user : Users, role : OrgRole]

Step == {"idle", "createUser", "createOrganization", "createOwner", "createAgent", "notify",
         "createSession", "createColleague", "getMembership", "createMembership",
         "updateMembership", "deleteMembership"}

(* The organisation, the sandbox agent that it starts with, and the mail   *)
(* that welcomes its owner.                                                *)
Whole == {"organization", "agent", "welcome"}

(* `id` is the row to update or delete; `role` the role to write.          *)
Request == [step : Step, user : Users, role : OrgRole, id : 0..MaxRows]

Idle == [step |-> "idle", user |-> Founder, role |-> "member", id |-> 0]

TypeOK ==
  /\ accounts \in [Users -> {"none", "registered", "added"}]
  /\ org \subseteq Whole
  /\ members \subseteq Membership
  /\ \A m, n \in members : m.user = n.user \/ m.id = n.id => m = n
  /\ rows \in 0..MaxRows
  /\ welcomed \in [Users -> Nat]
  /\ raced \in BOOLEAN
  /\ req \in [Procs -> Request]
  /\ crashes \in 0..MaxCrashes

Init ==
  /\ accounts = [u \in Users |-> "none"]
  /\ org = {}
  /\ members = {}
  /\ rows = 0
  /\ welcomed = [u \in Users |-> 0]
  /\ raced = FALSE
  /\ req = [p \in Procs |-> Idle]
  /\ crashes = 0

-----------------------------------------------------------------------------
(* Pieces of a handler.                                                    *)

At(p, step)   == req[p].step = step
Goto(p, step) == req' = [req EXCEPT ![p].step = step]
Done(p)       == req' = [req EXCEPT ![p] = Idle]
Begin(p, r)   == At(p, "idle") /\ req' = [req EXCEPT ![p] = r]

Known(u)    == accounts[u] # "none"
IsMember(u) == \E m \in members : m.user = u
RoleOf(u)   == (CHOOSE m \in members : m.user = u).role
HasRole(u, roles) == IsMember(u) /\ RoleOf(u) \in roles
Owners      == {m \in members : m.role = "owner"}

(* A write by one request that another, already checked, has not foreseen. *)
NoteRace(p) ==
  raced' = (raced \/ /\ Owners' # Owners
                     /\ \E q \in Procs \ {p} :
                          req[q].step \in {"updateMembership", "deleteMembership"})

(* UNIQUE (organization_id, user_id): a second row is refused.             *)
Insert(u, role) ==
  /\ rows < MaxRows
  /\ rows' = rows + 1
  /\ members' = members \cup {[id |-> rows + 1, user |-> u, role |-> role]}

-----------------------------------------------------------------------------
(* registerOrganization and the session that the route creates after it.   *)

Register(p, u) ==
  /\ ~Known(u)
  /\ Begin(p, [Idle EXCEPT !.step = "createUser", !.user = u])
  /\ UNCHANGED <<accounts, org, members, rows, welcomed, raced, crashes>>

(* What the others create besides their account is not kept.               *)
AfterUser(u) == IF u = Founder THEN "createOrganization" ELSE "createSession"

(* Seeded fault: a row that is already there is taken for one's own.       *)
CreateUserOrAdopt(p) ==
  LET u == req[p].user IN
  /\ At(p, "createUser")
  /\ accounts' = [accounts EXCEPT ![u] = IF Known(u) THEN @ ELSE "registered"]
  /\ Goto(p, AfterUser(u))
  /\ UNCHANGED <<org, members, rows, welcomed, raced, crashes>>

(* users.email is UNIQUE: whoever comes second fails.                      *)
CreateUser(p) ==
  LET u == req[p].user IN
  /\ At(p, "createUser")
  /\ \/ /\ ~Known(u)
        /\ accounts' = [accounts EXCEPT ![u] = "registered"]
        /\ Goto(p, AfterUser(u))
     \/ Known(u) /\ Done(p) /\ UNCHANGED accounts
  /\ UNCHANGED <<org, members, rows, welcomed, raced, crashes>>

CreateOrganization(p) ==
  /\ At(p, "createOrganization")
  /\ org' = org \cup {"organization"}
  /\ Goto(p, "createOwner")
  /\ UNCHANGED <<accounts, members, rows, welcomed, raced, crashes>>

(* Seeded fault: the session is handed out before the rest is done.        *)
CreateOwnerEarly(p) ==
  /\ At(p, "createOwner")
  /\ Insert(Founder, "owner")
  /\ Goto(p, "createSession")
  /\ UNCHANGED <<accounts, org, welcomed, raced, crashes>>

CreateOwner(p) ==
  /\ At(p, "createOwner")
  /\ Insert(Founder, "owner")
  /\ Goto(p, "createAgent")
  /\ UNCHANGED <<accounts, org, welcomed, raced, crashes>>

CreateAgent(p) ==
  /\ At(p, "createAgent")
  /\ org' = org \cup {"agent"}
  /\ Goto(p, "notify")
  /\ UNCHANGED <<accounts, members, rows, welcomed, raced, crashes>>

(* notifyWelcome; a notification that cannot be queued is logged, and the  *)
(* registration goes on.                                                   *)
NotifyWelcome(p) ==
  /\ At(p, "notify")
  /\ org' \in {org, org \cup {"welcome"}}
  /\ Goto(p, "createSession")
  /\ UNCHANGED <<accounts, members, rows, welcomed, raced, crashes>>

(* createSession looks the account up by its address.                      *)
CreateSession(p) ==
  /\ At(p, "createSession")
  /\ welcomed' = [welcomed EXCEPT ![req[p].user] = @ + 1]
  /\ Done(p)
  /\ UNCHANGED <<accounts, org, members, rows, raced, crashes>>

-----------------------------------------------------------------------------
(* addMember: an account if there is none, then the membership.            *)

AddMember(p, actor, u, role) ==
  /\ HasRole(actor, AdminRoles)
  /\ role = "owner" => HasRole(actor, {"owner"})
  /\ ~IsMember(u)
  /\ Begin(p, [Idle EXCEPT !.user = u, !.role = role,
                           !.step = IF Known(u) THEN "createMembership" ELSE "createColleague"])
  /\ UNCHANGED <<accounts, org, members, rows, welcomed, raced, crashes>>

CreateColleague(p) ==
  LET u == req[p].user IN
  /\ At(p, "createColleague")
  /\ \/ /\ ~Known(u)
        /\ accounts' = [accounts EXCEPT ![u] = "added"]
        /\ Goto(p, "getMembership")
     \/ Known(u) /\ Done(p) /\ UNCHANGED accounts
  /\ UNCHANGED <<org, members, rows, welcomed, raced, crashes>>

GetMembership(p) ==
  /\ At(p, "getMembership")
  /\ IF IsMember(req[p].user) THEN Done(p) ELSE Goto(p, "createMembership")
  /\ UNCHANGED <<accounts, org, members, rows, welcomed, raced, crashes>>

(* Seeded fault: nothing is unique.                                        *)
CreateMembershipTwice(p) ==
  /\ At(p, "createMembership")
  /\ Insert(req[p].user, req[p].role)
  /\ Done(p)
  /\ UNCHANGED <<accounts, org, welcomed, raced, crashes>>

CreateMembership(p) ==
  /\ At(p, "createMembership")
  /\ \/ ~IsMember(req[p].user) /\ Insert(req[p].user, req[p].role)
     \/ IsMember(req[p].user) /\ UNCHANGED <<members, rows>>
  /\ Done(p)
  /\ UNCHANGED <<accounts, org, welcomed, raced, crashes>>

-----------------------------------------------------------------------------
(* changeMemberRole and removeMember: the rule that an owner must remain   *)
(* is checked on the rows that were read, and the row is written by its id.*)

(* Seeded fault: the rule is not asked when an owner changes.              *)
ChangeMemberRoleFreely(p, actor, m, role) ==
  /\ HasRole(actor, AdminRoles)
  /\ "owner" \in {role, m.role} => HasRole(actor, {"owner"})
  /\ Begin(p, [Idle EXCEPT !.step = "updateMembership", !.user = m.user,
                           !.id = m.id, !.role = role])
  /\ UNCHANGED <<accounts, org, members, rows, welcomed, raced, crashes>>

ChangeMemberRole(p, actor, m, role) ==
  /\ HasRole(actor, AdminRoles)
  /\ "owner" \in {role, m.role} => HasRole(actor, {"owner"})
  /\ m.role = "owner" /\ role # "owner" => Cardinality(Owners) > 1
  /\ Begin(p, [Idle EXCEPT !.step = "updateMembership", !.user = m.user,
                           !.id = m.id, !.role = role])
  /\ UNCHANGED <<accounts, org, members, rows, welcomed, raced, crashes>>

(* UPDATE ... WHERE id: of a row that is gone, nothing.                    *)
UpdateMembership(p) ==
  /\ At(p, "updateMembership")
  /\ members' = {IF m.id = req[p].id THEN [m EXCEPT !.role = req[p].role] ELSE m : m \in members}
  /\ NoteRace(p)
  /\ Done(p)
  /\ UNCHANGED <<accounts, org, rows, welcomed, crashes>>

RemoveMember(p, actor, m) ==
  /\ HasRole(actor, AdminRoles)
  /\ m.role = "owner" => HasRole(actor, {"owner"}) /\ Cardinality(Owners) > 1
  /\ Begin(p, [Idle EXCEPT !.step = "deleteMembership", !.user = m.user, !.id = m.id])
  /\ UNCHANGED <<accounts, org, members, rows, welcomed, raced, crashes>>

DeleteMembership(p) ==
  /\ At(p, "deleteMembership")
  /\ members' = {m \in members : m.id # req[p].id}
  /\ NoteRace(p)
  /\ Done(p)
  /\ UNCHANGED <<accounts, org, rows, welcomed, crashes>>

-----------------------------------------------------------------------------
Crash(p) ==
  /\ crashes < MaxCrashes
  /\ ~At(p, "idle")
  /\ crashes' = crashes + 1
  /\ Done(p)
  /\ UNCHANGED <<accounts, org, members, rows, welcomed, raced>>

Next ==
  \E p \in Procs :
    \/ \E u \in Users : Register(p, u)
    \/ CreateUser(p) \/ CreateOrganization(p) \/ CreateOwner(p)
    \/ CreateAgent(p) \/ NotifyWelcome(p) \/ CreateSession(p)
    \/ \E actor, u \in Users, role \in OrgRole : AddMember(p, actor, u, role)
    \/ CreateColleague(p) \/ GetMembership(p) \/ CreateMembership(p)
    \/ \E actor \in Users, m \in members :
         \/ \E role \in OrgRole : ChangeMemberRole(p, actor, m, role)
         \/ RemoveMember(p, actor, m)
    \/ UpdateMembership(p) \/ DeleteMembership(p)
    \/ Crash(p)

Spec == Init /\ [][Next]_vars

-----------------------------------------------------------------------------
(* Properties.                                                             *)

(* Registration never adopts an account: it hands a session out at most    *)
(* once for an address, and never for an account that a colleague created, *)
(* whatever comes between its look for the account and the insert.         *)
RegistrationAdoptsNobody ==
  \A u \in Users : welcomed[u] <= IF accounts[u] = "registered" THEN 1 ELSE 0

(* A registration that fails half way leaves an account that cannot be     *)
(* registered again, with a part of its organisation.  Only a crash does:  *)
(* without one, an account that lacks something is still being registered, *)
(* and the session is handed out when its owner has an organisation with   *)
(* an agent.                                                               *)
HalfRegistered ==
  accounts[Founder] = "registered" /\ (rows = 0 \/ ~({"organization", "agent"} \subseteq org))

NothingHalfRegistered ==
  /\ HalfRegistered /\ crashes = 0 =>
       \E p \in Procs : /\ req[p].user = Founder
                        /\ req[p].step \in {"createOrganization", "createOwner", "createAgent"}
  /\ welcomed[Founder] > 0 => ~HalfRegistered

(* members.ts:131: never leave an organization without an owner.  It keeps *)
(* one, unless two requests that change owners have overlapped (two owners *)
(* who demote one another both find the other one): neither one alone, nor *)
(* a crash, can leave it without.                                          *)
OwnerKept == rows > 0 => Owners # {} \/ raced
=============================================================================
