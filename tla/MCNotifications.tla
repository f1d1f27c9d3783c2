-------------------------- MODULE MCNotifications --------------------------
(* Model-checking instance of Notifications.                               *)
EXTENDS Notifications
=============================================================================
