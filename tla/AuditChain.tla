----------------------------- MODULE AuditChain -----------------------------
(***************************************************************************)
(* The tamper-evident audit log: audit() and checkpointAudit() of          *)
(* packages/core/src/audit.ts, chainEvent and verifyChain of               *)
(* packages/audit/src/index.ts, and the transaction appendAuditEvent of    *)
(* packages/database/src/postgres.ts, which serialises on an advisory lock *)
(* so that the chain does not fork.                                        *)
(*                                                                         *)
(* Every handler first does what it does and then audits it: Act stands    *)
(* for the write of any handler.  Tamper stands for a change of the table  *)
(* behind the program's back.                                              *)
(***************************************************************************)
EXTENDS Naturals, Sequences

CONSTANTS Contents,    \* what there is to audit
          Procs,       \* requests in flight
          MaxEvents,   \* bound on the number of audited actions
          MaxCrashes   \* bound on the number of crashes

ASSUME AuditChainAssumption ==
  /\ Contents # {}
  /\ MaxEvents \in Nat /\ MaxCrashes \in Nat

VARIABLES
  log,          \* audit_events, in the order of their sequence numbers
  lock,         \* the holders of the advisory lock 'booth:audit'
  checkpoints,  \* audit_checkpoints
  acted,        \* number of actions that must be in the log
  tampered,     \* what was done to the table: "no", or the kind of change
  req,          \* the requests in flight
  crashes       \* number of crashes so far

vars == <<log, lock, checkpoints, acted, tampered, req, crashes>>

-----------------------------------------------------------------------------
(* An event without its hashes, and the chain hash.  SHA-256 over the      *)
(* previous hash and the canonical event has no collisions and no cycles:  *)
(* a hash is the sequence of the events it covers.                         *)
Event == [content : Contents, sequence : Nat]

HashValue == Seq(Event)
GENESIS_HASH == <<>>
computeEventHash(previousHash, event) == Append(previousHash, event)

AuditEvent == [event : Event, previousHash : HashValue, eventHash : HashValue]

chainEvent(previousHash, event) ==
  [event |-> event, previousHash |-> previousHash,
   eventHash |-> computeEventHash(previousHash, event)]

(* The hash that the row at position i must follow.                        *)
Before(events, i) == IF i = 1 THEN GENESIS_HASH ELSE events[i-1].eventHash

(* Seeded fault: every row is compared with itself.                        *)
BrokenAlone(events) ==
  {i \in 1..Len(events) :
     events[i].eventHash # computeEventHash(events[i].previousHash, events[i].event)}

(* verifyChain walks the rows and stops at the first that does not follow. *)
Broken(events) ==
  {i \in 1..Len(events) :
     \/ events[i].previousHash # Before(events, i)
     \/ events[i].eventHash # computeEventHash(Before(events, i), events[i].event)}

verifyChain(events) == Broken(events) = {}

Checkpoint == [upToSequence : Nat, headHash : HashValue]

(* The last row's sequence number and hash.                                *)
auditHead ==
  IF log = <<>>
  THEN [upToSequence |-> 0, headHash |-> GENESIS_HASH]
  ELSE [upToSequence |-> log[Len(log)].event.sequence,
        headHash     |-> log[Len(log)].eventHash]

-----------------------------------------------------------------------------
Step == {"idle", "begin", "locked", "insert", "save"}

(* `head` is what the request read of the log's head.                      *)
Request == [step : Step, content : Contents, head : Checkpoint]

Idle == [step |-> "idle", content |-> CHOOSE c \in Contents : TRUE,
         head |-> [upToSequence |-> 0, headHash |-> GENESIS_HASH]]

Tampering == {"no", "edited", "reordered", "deleted", "truncated"}

TypeOK ==
  /\ log \in Seq(AuditEvent)
  /\ lock \subseteq Procs
  /\ checkpoints \subseteq Checkpoint
  /\ acted \in Nat
  /\ tampered \in Tampering
  /\ req \in [Procs -> Request]
  /\ crashes \in Nat

Init ==
  /\ log = <<>>
  /\ lock = {}
  /\ checkpoints = {}
  /\ acted = 0
  /\ tampered = "no"
  /\ req = [p \in Procs |-> Idle]
  /\ crashes = 0

At(p, step) == req[p].step = step
Done(p)     == req' = [req EXCEPT ![p] = Idle]

-----------------------------------------------------------------------------
(* A handler does its work, and has it audited.                            *)
Act(p, content) ==
  /\ At(p, "idle")
  /\ acted < MaxEvents
  /\ acted' = acted + 1
  /\ req' = [req EXCEPT ![p] = [Idle EXCEPT !.step = "begin", !.content = content]]
  /\ UNCHANGED <<log, lock, checkpoints, tampered, crashes>>

(* Seeded faults: nobody waits for the lock; nobody waits, and who does    *)
(* not get it gives up.                                                    *)
LockShared(p) ==
  /\ At(p, "begin")
  /\ lock' = lock \cup {p}
  /\ req' = [req EXCEPT ![p].step = "locked"]
  /\ UNCHANGED <<log, checkpoints, acted, tampered, crashes>>

LockOrSkip(p) ==
  /\ At(p, "begin")
  /\ IF lock = {}
     THEN lock' = {p} /\ req' = [req EXCEPT ![p].step = "locked"]
     ELSE Done(p) /\ UNCHANGED lock
  /\ UNCHANGED <<log, checkpoints, acted, tampered, crashes>>

(* appendAuditEvent: pg_advisory_xact_lock, read of the head, insert and   *)
(* commit, which gives the lock back.                                      *)
Lock(p) ==
  /\ At(p, "begin")
  /\ lock = {}
  /\ lock' = {p}
  /\ req' = [req EXCEPT ![p].step = "locked"]
  /\ UNCHANGED <<log, checkpoints, acted, tampered, crashes>>

ReadHead(p) ==
  /\ At(p, "locked")
  /\ req' = [req EXCEPT ![p].step = "insert", ![p].head = auditHead]
  /\ UNCHANGED <<log, lock, checkpoints, acted, tampered, crashes>>

NextEvent(r) == [content |-> r.content, sequence |-> r.head.upToSequence + 1]

Insert(p) ==
  /\ At(p, "insert")
  /\ log' = Append(log, chainEvent(req[p].head.headHash, NextEvent(req[p])))
  /\ lock' = lock \ {p}
  /\ Done(p)
  /\ UNCHANGED <<checkpoints, acted, tampered, crashes>>

(* checkpointAudit, at the end of closeRoom: sign the head that was read.  *)
ReadForCheckpoint(p) ==
  /\ At(p, "idle")
  /\ req' = [req EXCEPT ![p] = [Idle EXCEPT !.step = "save", !.head = auditHead]]
  /\ UNCHANGED <<log, lock, checkpoints, acted, tampered, crashes>>

(* Seeded fault: the length is read anew, and the hash is the old one.     *)
SaveCheckpointTorn(p) ==
  /\ At(p, "save")
  /\ checkpoints' = checkpoints \cup {[req[p].head EXCEPT !.upToSequence = Len(log)]}
  /\ Done(p)
  /\ UNCHANGED <<log, lock, acted, tampered, crashes>>

SaveCheckpoint(p) ==
  /\ At(p, "save")
  /\ checkpoints' = checkpoints \cup {req[p].head}
  /\ Done(p)
  /\ UNCHANGED <<log, lock, acted, tampered, crashes>>

(* The process dies: an open transaction is rolled back, its lock is free. *)
Crash(p) ==
  /\ crashes < MaxCrashes
  /\ ~At(p, "idle")
  /\ crashes' = crashes + 1
  /\ lock' = lock \ {p}
  /\ Done(p)
  /\ UNCHANGED <<log, checkpoints, acted, tampered>>

-----------------------------------------------------------------------------
(* One change of the table that the program did not make.                  *)
Tamper(kind, result) ==
  /\ tampered = "no"
  /\ tampered' = kind
  /\ log' = result
  /\ UNCHANGED <<lock, checkpoints, acted, req, crashes>>

Reworded(row, content) ==
  [row EXCEPT !.event = [content |-> content, sequence |-> row.event.sequence]]

Edited(events, i, content) == [events EXCEPT ![i] = Reworded(events[i], content)]

Swapped(events, i) == [events EXCEPT ![i] = events[i+1], ![i+1] = events[i]]

Without(events, i) == [j \in 1..(Len(events) - 1) |-> IF j < i THEN events[j] ELSE events[j+1]]

EditRow(i, content) ==
  /\ content # log[i].event.content
  /\ Tamper("edited", Edited(log, i, content))

SwapRows(i) == i < Len(log) /\ Tamper("reordered", Swapped(log, i))

DeleteRow(i) ==
  Tamper(IF i < Len(log) THEN "deleted" ELSE "truncated", Without(log, i))

Next ==
  \/ \E p \in Procs :
       \/ \E content \in Contents : Act(p, content)
       \/ Lock(p) \/ ReadHead(p) \/ Insert(p)
       \/ ReadForCheckpoint(p) \/ SaveCheckpoint(p)
       \/ Crash(p)
  \/ \E i \in 1..Len(log) :
       \/ \E content \in Contents : EditRow(i, content)
       \/ SwapRows(i) \/ DeleteRow(i)

Spec == Init /\ [][Next]_vars

-----------------------------------------------------------------------------
(* Properties.                                                             *)

(* However many requests audit at the same time, and wherever they crash,  *)
(* the log is one unforked chain that verifyChain accepts, with sequence   *)
(* numbers that have neither gaps nor repetitions.                         *)
ChainIntact ==
  tampered = "no" =>
    /\ verifyChain(log)
    /\ \A i \in 1..Len(log) : log[i].event.sequence = i

(* A signed checkpoint names a head that the log really had, and keeps: no *)
(* append rewrites what it covers.                                         *)
CheckpointsOnChain ==
  tampered = "no" =>
    \A cp \in checkpoints :
      cp.upToSequence <= Len(log) /\ cp.headHash = Before(log, cp.upToSequence + 1)

(* verifyChain finds a row whose content was changed, two rows that were   *)
(* swapped, and a row that was removed, also when the log has grown since: *)
(* all but the removal of the newest row, which leaves a prefix, and which *)
(* verifyAudit does not compare with the checkpoints.                      *)
TamperingDetected == tampered \notin {"no", "truncated"} => ~verifyChain(log)

(* Without crashes, every action of a finished request is in the log.      *)
EverythingAudited ==
  /\ crashes = 0 /\ tampered \notin {"deleted", "truncated"}
  /\ \A p \in Procs : At(p, "idle")
  => Len(log) = acted

-----------------------------------------------------------------------------
(* The inductive invariant: the lock excludes, and a head read under the   *)
(* lock is still the head.                                                 *)

InTransaction(p) == req[p].step \in {"locked", "insert"}

LockExcludes == \A p, q \in Procs : InTransaction(p) /\ InTransaction(q) => p = q

HolderHasLock == \A p \in Procs : InTransaction(p) => p \in lock

HeadIsCurrent == tampered = "no" => \A p \in Procs : At(p, "insert") => req[p].head = auditHead

SavedHeadIsOnChain ==
  tampered = "no" =>
    \A p \in Procs : At(p, "save") =>
      /\ req[p].head.upToSequence <= Len(log)
      /\ req[p].head.headHash = Before(log, req[p].head.upToSequence + 1)

IInv ==
  /\ TypeOK
  /\ HolderHasLock /\ LockExcludes
  /\ HeadIsCurrent /\ SavedHeadIsOnChain
  /\ ChainIntact /\ CheckpointsOnChain
=============================================================================
