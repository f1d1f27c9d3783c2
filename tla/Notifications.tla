---------------------------- MODULE Notifications ----------------------------
(***************************************************************************)
(* The outbox of emails (packages/core/src/notifications.ts over the table *)
(* notifications): the request that holds an approval queues one mail and  *)
(* one reminder for every recipient, the one that proposes completion      *)
(* queues one mail for each, and a dispatcher claims what is due, sends    *)
(* it, and marks it sent or failed.  Invitations, alerts and welcomes are  *)
(* queued and sent like these, with a key that no second event has.        *)
(*                                                                         *)
(* A dispatcher belongs to a process; its own `running` flag keeps it from *)
(* overlapping with itself.  Time is what makes a row due.                 *)
(*                                                                         *)
(* No name here is one of Runtime, the other worker of the same process.   *)
(***************************************************************************)
EXTENDS Naturals, FiniteSets

CONSTANTS Users,        \* who is to be told: the notified roles that did not opt out
          Dispatchers,  \* one for each process of the API
          BatchSize,    \* rows claimed by one tick
          MaxAttempts,  \* maxAttempts
          MaxProposals, \* bound on the proposals of completion
          MaxTroubles   \* bound on crashes and on calls whose answer is lost

ASSUME NotificationsAssumption ==
  /\ Users # {} /\ IsFiniteSet(Users) /\ IsFiniteSet(Dispatchers)
  /\ BatchSize \in Nat \ {0} /\ MaxAttempts \in Nat \ {0}
  /\ MaxProposals \in Nat /\ MaxTroubles \in Nat

VARIABLES
  approval,  \* the approval the mails are about: "NONE", "PENDING" or "DECIDED"
  request,   \* the request that holds it and then queues the mails
  telling,   \* recipients whom the request that proposes completion has to tell
  proposals, \* number of proposals so far
  outbox,    \* the table notifications, by dedupe key
  tick,      \* what every dispatcher is doing
  mailbox,   \* history: the copies of each mail that were delivered
  late,      \* history: reminders delivered although the approval was decided
  troubles   \* number of crashes and lost answers

outboxVars == <<approval, request, telling, proposals, outbox, tick, mailbox, late, troubles>>

-----------------------------------------------------------------------------
Kind == {"approval_pending", "approval_reminder", "completion_proposed"}

(* One logical notification is one row: the dedupe key.                    *)
Notification == [kind : Kind, user : Users]

Row == [status : {"ABSENT", "PENDING", "SENT", "FAILED"}, attempts : Nat, due : BOOLEAN]

NoRow == [status |-> "ABSENT", attempts |-> 0, due |-> FALSE]

(* A row that was claimed, with the attempts that the claim returned.      *)
Claimed == [n : Notification, attempts : Nat]

TickStep == {"idle", "next", "suppress", "send", "markSent", "markFailed"}

NoOne == CHOOSE c \in [n : Notification, attempts : {0}] : TRUE

Idle == [step |-> "idle", todo |-> {}, current |-> NoOne]

(* Retries end: maxAttempts, and one more for every crash.                 *)
OutboxTypeOK ==
  /\ approval \in {"NONE", "PENDING", "DECIDED"}
  /\ request \in [step : {"idle", "pending", "reminder", "over"}, todo : SUBSET Users]
  /\ telling \subseteq Users /\ proposals \in 0..MaxProposals
  /\ outbox \in [Notification -> Row]
  /\ \A n \in Notification : outbox[n].attempts <= MaxAttempts + troubles
  /\ \A d \in Dispatchers :
       /\ tick[d].step \in TickStep
       /\ \A c \in tick[d].todo \cup {tick[d].current} : c \in Claimed
  /\ mailbox \in [Notification -> Nat]
  /\ late \in Nat
  /\ troubles \in 0..MaxTroubles

OutboxInit ==
  /\ approval = "NONE"
  /\ request = [step |-> "idle", todo |-> {}]
  /\ telling = {} /\ proposals = 0
  /\ outbox = [n \in Notification |-> NoRow]
  /\ tick = [d \in Dispatchers |-> Idle]
  /\ mailbox = [n \in Notification |-> 0]
  /\ late = 0
  /\ troubles = 0

-----------------------------------------------------------------------------
(* handleRequiresApproval and notifyApprovalPending.                       *)

CreateApproval ==
  /\ approval = "NONE"
  /\ approval' = "PENDING"
  /\ request' = [step |-> "pending", todo |-> Users]
  /\ UNCHANGED <<telling, proposals, outbox, tick, mailbox, late, troubles>>

(* Seeded fault: what was sent before is queued again.                     *)
QueuedAgain(n, due) ==
  [outbox EXCEPT ![n] = [status |-> "PENDING", attempts |-> 0, due |-> due]]

(* INSERT ... ON CONFLICT (dedupe_key) DO NOTHING.                         *)
Queued(n, due) ==
  IF outbox[n].status = "ABSENT"
  THEN [outbox EXCEPT ![n] = [status |-> "PENDING", attempts |-> 0, due |-> due]]
  ELSE outbox

EnqueuePending(u) ==
  /\ request.step = "pending" /\ u \in request.todo
  /\ outbox' = Queued([kind |-> "approval_pending", user |-> u], TRUE)
  /\ request' = [step |-> "reminder", todo |-> {u}]
  /\ UNCHANGED <<approval, telling, proposals, tick, mailbox, late, troubles>>

(* Due in four hours.                                                      *)
EnqueueReminder(u) ==
  /\ request.step = "reminder" /\ u \in request.todo
  /\ outbox' = Queued([kind |-> "approval_reminder", user |-> u], FALSE)
  /\ LET left == {v \in Users : outbox[[kind |-> "approval_pending", user |-> v]].status = "ABSENT"}
     IN request' = [step |-> IF left = {} THEN "over" ELSE "pending", todo |-> left]
  /\ UNCHANGED <<approval, telling, proposals, tick, mailbox, late, troubles>>

(* The side effects of a proposal, and notifyCompletionProposed.  A room   *)
(* may be proposed again; the dedupe key does not tell the two apart.      *)
ProposeCompletion ==
  /\ telling = {} /\ proposals < MaxProposals
  /\ telling' = Users
  /\ proposals' = proposals + 1
  /\ UNCHANGED <<approval, request, outbox, tick, mailbox, late, troubles>>

EnqueueProposed(u) ==
  /\ u \in telling
  /\ outbox' = Queued([kind |-> "completion_proposed", user |-> u], TRUE)
  /\ telling' = telling \ {u}
  /\ UNCHANGED <<approval, request, proposals, tick, mailbox, late, troubles>>

DecideApproval ==
  /\ approval = "PENDING"
  /\ approval' = "DECIDED"
  /\ UNCHANGED <<request, telling, proposals, outbox, tick, mailbox, late, troubles>>

(* Four hours, or the backoff of a failed attempt, have passed.            *)
BecomeDue(n) ==
  /\ outbox[n].status = "PENDING"
  /\ ~outbox[n].due
  /\ outbox' = [outbox EXCEPT ![n].due = TRUE]
  /\ UNCHANGED <<approval, request, telling, proposals, tick, mailbox, late, troubles>>

-----------------------------------------------------------------------------
(* NotificationDispatcher.tick.                                            *)

TickAt(d, step)   == tick[d].step = step
TickGoto(d, step) == tick' = [tick EXCEPT ![d].step = step]
GoOn(d)       == tick' = [tick EXCEPT ![d].step = "next", ![d].current = NoOne]

Current(d) == tick[d].current.n

(* Seeded fault: a row that was claimed once is never claimed again.       *)
DueOnlyOnce == {n \in Notification : outbox[n].status = "PENDING" /\ outbox[n].due
                                       /\ outbox[n].attempts = 0}

Due == {n \in Notification : outbox[n].status = "PENDING" /\ outbox[n].due}

(* claimPendingNotifications: one statement, which counts an attempt and   *)
(* leaves the row PENDING and due.                                         *)
Claim(d, batch) ==
  /\ TickAt(d, "idle")
  /\ batch # {}
  /\ IF Cardinality(Due) <= BatchSize THEN batch = Due ELSE Cardinality(batch) = BatchSize
  /\ outbox' = [n \in Notification |->
                  IF n \in batch THEN [outbox[n] EXCEPT !.attempts = @ + 1] ELSE outbox[n]]
  /\ tick' = [tick EXCEPT ![d].step = "next",
                          ![d].todo = {[n |-> n, attempts |-> outbox[n].attempts + 1] : n \in batch}]
  /\ UNCHANGED <<approval, request, telling, proposals, mailbox, late, troubles>>

(* Seeded fault: reminders are never suppressed.                           *)
NeverSuppress(n) == FALSE

(* shouldSuppress: nobody is reminded of what is decided.                  *)
ShouldSuppress(n) == n.kind = "approval_reminder" /\ approval # "PENDING"

TakeNext(d) ==
  /\ TickAt(d, "next")
  /\ \E c \in tick[d].todo :
       tick' = [tick EXCEPT ![d] = [step    |-> IF ShouldSuppress(c.n) THEN "suppress" ELSE "send",
                                    todo    |-> @.todo \ {c},
                                    current |-> c]]
  /\ UNCHANGED <<approval, request, telling, proposals, outbox, mailbox, late, troubles>>

TickDone(d) ==
  /\ TickAt(d, "next")
  /\ tick[d].todo = {}
  /\ tick' = [tick EXCEPT ![d] = Idle]
  /\ UNCHANGED <<approval, request, telling, proposals, outbox, mailbox, late, troubles>>

Suppress(d) ==
  /\ TickAt(d, "suppress")
  /\ outbox' = [outbox EXCEPT ![Current(d)].status = "SENT"]
  /\ GoOn(d)
  /\ UNCHANGED <<approval, request, telling, proposals, mailbox, late, troubles>>

Deliver(d) ==
  /\ mailbox' = [mailbox EXCEPT ![Current(d)] = @ + 1]
  /\ late' = IF Current(d).kind = "approval_reminder" /\ approval = "DECIDED" THEN late + 1 ELSE late

Send(d) ==
  /\ TickAt(d, "send")
  /\ Deliver(d)
  /\ TickGoto(d, "markSent")
  /\ UNCHANGED <<approval, request, telling, proposals, outbox, troubles>>

SendFails(d) ==
  /\ TickAt(d, "send")
  /\ TickGoto(d, "markFailed")
  /\ UNCHANGED <<approval, request, telling, proposals, outbox, mailbox, late, troubles>>

MarkSent(d) ==
  /\ TickAt(d, "markSent")
  /\ outbox' = [outbox EXCEPT ![Current(d)].status = "SENT"]
  /\ GoOn(d)
  /\ UNCHANGED <<approval, request, telling, proposals, mailbox, late, troubles>>

(* Seeded fault: one attempt too many.                                     *)
GiveUpLate(attempts) == attempts > MaxAttempts

GiveUp(attempts) == attempts >= MaxAttempts

(* Back to PENDING with a backoff, or FAILED.                              *)
MarkFailed(d) ==
  LET giveUp == GiveUp(tick[d].current.attempts)
      row    == outbox[Current(d)]
  IN
  /\ TickAt(d, "markFailed")
  /\ outbox' = [outbox EXCEPT
       ![Current(d)] = [row EXCEPT !.status = IF giveUp THEN "FAILED" ELSE "PENDING",
                                   !.due    = giveUp /\ row.due]]
  /\ GoOn(d)
  /\ UNCHANGED <<approval, request, telling, proposals, mailbox, late, troubles>>

TickNext(d) ==
  \/ \E batch \in SUBSET Due : Claim(d, batch)
  \/ TakeNext(d) \/ TickDone(d)
  \/ Suppress(d)
  \/ Send(d) \/ SendFails(d) \/ MarkSent(d) \/ MarkFailed(d)

-----------------------------------------------------------------------------
Trouble == troubles < MaxTroubles /\ troubles' = troubles + 1

(* The mail server took the mail, and the call or the note of it failed.   *)
SendTimesOut(d) ==
  /\ Trouble
  /\ TickAt(d, "send")
  /\ Deliver(d)
  /\ TickGoto(d, "markFailed")
  /\ UNCHANGED <<approval, request, telling, proposals, outbox>>

MarkSentFails(d) ==
  /\ Trouble
  /\ TickAt(d, "markSent")
  /\ TickGoto(d, "markFailed")
  /\ UNCHANGED <<approval, request, telling, proposals, outbox, mailbox, late>>

(* The process dies, or another store call of the tick throws.             *)
CrashDispatcher(d) ==
  /\ Trouble
  /\ ~TickAt(d, "idle")
  /\ tick' = [tick EXCEPT ![d] = Idle]
  /\ UNCHANGED <<approval, request, telling, proposals, outbox, mailbox, late>>

(* The process dies, or `safely` swallows the failure of an insert.        *)
CrashRequest ==
  /\ Trouble
  /\ \/ /\ request.step \in {"pending", "reminder"}
        /\ request' = [step |-> "over", todo |-> {}]
        /\ UNCHANGED telling
     \/ /\ telling # {}
        /\ telling' = {}
        /\ UNCHANGED request
  /\ UNCHANGED <<approval, proposals, outbox, tick, mailbox, late>>

OutboxNext ==
  \/ CreateApproval \/ ProposeCompletion \/ DecideApproval
  \/ \E u \in Users : EnqueuePending(u) \/ EnqueueReminder(u) \/ EnqueueProposed(u)
  \/ \E n \in Notification : BecomeDue(n)
  \/ \E d \in Dispatchers : TickNext(d) \/ SendTimesOut(d) \/ MarkSentFails(d) \/ CrashDispatcher(d)
  \/ CrashRequest

(* The timer of a dispatcher is re-armed after every tick, whatever it     *)
(* ended with; a call of the mail server returns or fails; time passes.    *)
OutboxFairness ==
  /\ \A d \in Dispatchers : WF_outboxVars(TickNext(d))
  /\ \A n \in Notification : WF_outboxVars(BecomeDue(n))

OutboxSpec == OutboxInit /\ [][OutboxNext]_outboxVars /\ OutboxFairness

-----------------------------------------------------------------------------
(* Properties.                                                             *)

(* A mail is delivered once, however often the event is repeated that it   *)
(* tells of, and once more for each crash or lost answer.                  *)
DeliveredOnce == \A n \in Notification : mailbox[n] <= 1 + troubles

(* Each reminder is checked right before it is sent, and checked again     *)
(* before it is sent again: after the decision at most the mail that is on *)
(* its way goes out, whatever fails.                                       *)
FewLateReminders == late <= Cardinality(Dispatchers)

(* What is queued is dealt with in the end, although a crash leaves rows   *)
(* claimed and attempts fail.                                              *)
EveryRowSettles ==
  \A n \in Notification : outbox[n].status = "PENDING" ~> outbox[n].status \in {"SENT", "FAILED"}
=============================================================================
