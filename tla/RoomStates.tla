----------------------------- MODULE RoomStates -----------------------------
(***************************************************************************)
(* The room state machine of packages/shared/src/room.ts: the eleven room  *)
(* states and the whitelist of legal moves that `canTransition` consults.  *)
(* Pure data, shared by every module that holds a room row.                *)
(***************************************************************************)

RoomState == {"DRAFT", "INVITED", "NEGOTIATING", "READY", "ACTIVE", "PAUSED",
              "COMPLETION_PROPOSED", "COMPLETED", "CLOSED", "CANCELED",
              "QUARANTINED"}

Transitions ==
  [DRAFT               |-> {"INVITED", "CANCELED"},
   INVITED             |-> {"NEGOTIATING", "CANCELED"},
   NEGOTIATING         |-> {"READY", "CANCELED", "QUARANTINED"},
   READY               |-> {"ACTIVE", "CANCELED", "QUARANTINED"},
   ACTIVE              |-> {"PAUSED", "COMPLETION_PROPOSED", "CANCELED", "QUARANTINED"},
   PAUSED              |-> {"ACTIVE", "CANCELED", "QUARANTINED"},
   COMPLETION_PROPOSED |-> {"ACTIVE", "COMPLETED", "CANCELED", "QUARANTINED"},
   COMPLETED           |-> {"CLOSED"},
   CLOSED              |-> {},
   CANCELED            |-> {"CLOSED"},
   QUARANTINED         |-> {"PAUSED", "CANCELED", "CLOSED"}]

CanTransition(from, to) == to \in Transitions[from]

(* The two states in which agents run and the policy engine routes events. *)
Routing == {"ACTIVE", "COMPLETION_PROPOSED"}
=============================================================================
