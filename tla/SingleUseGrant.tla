--------------------------- MODULE SingleUseGrant ---------------------------
(***************************************************************************)
(* What the approval service promises to its callers, seen through a log   *)
(* that is only appended to: what a grant holds never changes, exactly     *)
(* that is let go once, or it is refused once, and never both.  Every      *)
(* entry is a step of its own, so a second release is one too many.        *)
(***************************************************************************)
EXTENDS Naturals, Sequences

CONSTANTS Grants, Contents

VARIABLES
  held,  \* what each grant holds: nothing, or one content for good
  log    \* the entries written so far, oldest first

Outcomes == {"released", "action_rejected"}

Entry(g, says, content) == [grant |-> g, says |-> says, content |-> content]

Written(g, kinds) ==
  \E i \in 1..Len(log) : log[i].grant = g /\ log[i].says \in kinds

Init ==
  /\ held = [g \in Grants |-> {}]
  /\ log = <<>>

Hold(g, c) ==
  /\ held[g] = {}
  /\ held' = [held EXCEPT ![g] = {c}]
  /\ UNCHANGED log

Write(g, says, content) ==
  /\ held[g] # {}
  /\ log' = Append(log, Entry(g, says, content))
  /\ UNCHANGED held

Announce(g) == Write(g, "approval_request", {})

(* The one step that lets something go, and it lets go what is held.       *)
Release(g) == ~Written(g, Outcomes) /\ Write(g, "released", held[g])

Reject(g) == ~Written(g, Outcomes) /\ Write(g, "action_rejected", {})

Authorize(g) == Written(g, {"released"}) /\ Write(g, "action_authorized", {})

Next ==
  \E g \in Grants :
    \/ \E c \in Contents : Hold(g, c)
    \/ Announce(g) \/ Release(g) \/ Reject(g) \/ Authorize(g)

Spec == Init /\ [][Next]_<<held, log>>
=============================================================================
