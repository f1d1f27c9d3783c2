-------------------------- MODULE Histories_proofs ---------------------------
(***************************************************************************)
(* Proofs about the two histories that are only ever appended to, and that *)
(* whoever appends reads first: the audit log, for every number of         *)
(* concurrent requests, events and crashes; and the stream of a room, from *)
(* which the sandbox agents tell what they have answered.                  *)
(***************************************************************************)
EXTENDS AuditChain, Sandbox, SequenceTheorems, FiniteSetTheorems, TLAPS

-----------------------------------------------------------------------------
(* Module AuditChain.                                                      *)

(* An idle request is a request.                                           *)
LEMMA IdleIsRequest == Idle \in Request
  <1>1. (CHOOSE c \in Contents : TRUE) \in Contents
    BY AuditChainAssumption
  <1> QED
    BY <1>1 DEF Idle, Request, Step, Checkpoint, HashValue, GENESIS_HASH

(* A row that is chained to a hash is a row of the table.                  *)
LEMMA ChainedRow ==
  ASSUME NEW h \in HashValue, NEW e \in Event
  PROVE  /\ chainEvent(h, e) \in AuditEvent
         /\ chainEvent(h, e).event = e
         /\ chainEvent(h, e).previousHash = h
         /\ chainEvent(h, e).eventHash = computeEventHash(h, e)
  BY DEF chainEvent, computeEventHash, HashValue, AuditEvent

(* The head of a log is a checkpoint one could sign.                       *)
LEMMA HeadType ==
  ASSUME log \in Seq(AuditEvent)
  PROVE  auditHead \in Checkpoint
  <1>1. CASE log = <<>>
    BY <1>1 DEF auditHead, Checkpoint, HashValue, GENESIS_HASH
  <1>2. CASE log # <<>>
    <2>1. Len(log) \in 1..Len(log) /\ log[Len(log)] \in AuditEvent
      BY <1>2
    <2> QED
      BY <1>2, <2>1 DEF auditHead, Checkpoint, AuditEvent, Event
  <1> QED
    BY <1>1, <1>2

(* In an intact log the head has the number and the hash of the last row.  *)
LEMMA HeadOfIntact ==
  ASSUME log \in Seq(AuditEvent), \A i \in 1..Len(log) : log[i].event.sequence = i
  PROVE  /\ auditHead.upToSequence = Len(log)
         /\ auditHead.headHash = Before(log, Len(log) + 1)
  <1>1. CASE log = <<>>
    BY <1>1 DEF auditHead, Before
  <1>2. CASE log # <<>>
    <2>1. Len(log) \in 1..Len(log) /\ Len(log) + 1 # 1
      BY <1>2
    <2> QED
      BY <1>2, <2>1 DEF auditHead, Before
  <1> QED
    BY <1>1, <1>2

(* Appending a row chained to the head keeps a log intact, and leaves the  *)
(* hashes before every row what they were.                                 *)
LEMMA AppendKeepsIntact ==
  ASSUME log \in Seq(AuditEvent), verifyChain(log),
         \A i \in 1..Len(log) : log[i].event.sequence = i,
         NEW row \in AuditEvent,
         row.previousHash = Before(log, Len(log) + 1),
         row.eventHash = computeEventHash(row.previousHash, row.event),
         row.event.sequence = Len(log) + 1
  PROVE  /\ verifyChain(Append(log, row))
         /\ \A i \in 1..(Len(log) + 1) : Append(log, row)[i].event.sequence = i
         /\ \A i \in 1..(Len(log) + 1) : Before(Append(log, row), i) = Before(log, i)
  <1> DEFINE new == Append(log, row)
  <1>1. /\ Len(new) = Len(log) + 1 /\ Len(log) \in Nat
        /\ \A i \in 1..Len(log) : new[i] = log[i]
        /\ new[Len(log) + 1] = row
    OBVIOUS
  <1>2. \A i \in 1..(Len(log) + 1) : new[i].event.sequence = i
    BY <1>1
  <1>3. \A i \in 1..(Len(log) + 1) : Before(new, i) = Before(log, i)
    BY <1>1 DEF Before
  <1>4. verifyChain(new)
    <2> SUFFICES ASSUME NEW i \in 1..Len(new)
                 PROVE  /\ new[i].previousHash = Before(new, i)
                        /\ new[i].eventHash = computeEventHash(Before(new, i), new[i].event)
      BY DEF verifyChain, Broken
    <2>1. CASE i \in 1..Len(log)
      BY <1>1, <1>3, <2>1 DEF verifyChain, Broken
    <2>2. CASE i = Len(log) + 1
      BY <1>1, <1>3, <2>2
    <2> QED
      BY <1>1, <2>1, <2>2
  <1> QED
    BY <1>2, <1>3, <1>4

-----------------------------------------------------------------------------
(* Every variable keeps its type.                                          *)
THEOREM TypeCorrect == Spec => []TypeOK
<1>1. Init => TypeOK
  BY IdleIsRequest DEF Init, TypeOK, Tampering
<1>2. TypeOK /\ [Next]_vars => TypeOK'
  <2> SUFFICES ASSUME TypeOK, [Next]_vars
               PROVE  TypeOK'
    OBVIOUS
  <2>0. Idle \in Request /\ auditHead \in Checkpoint
    BY IdleIsRequest, HeadType DEF TypeOK
  <2> USE <2>0 DEF TypeOK
  <2>1. ASSUME NEW p \in Procs, NEW content \in Contents, Act(p, content)
        PROVE  TypeOK'
    <3>1. [Idle EXCEPT !.step = "begin", !.content = content] \in Request
      BY DEF Request, Step
    <3>2. req' \in [Procs -> Request]
      BY <2>1, <3>1 DEF Act
    <3> QED
      BY <2>1, <3>2 DEF Act
  <2>2. ASSUME NEW p \in Procs, Lock(p) \/ ReadHead(p) \/ ReadForCheckpoint(p)
        PROVE  TypeOK'
    <3>1. /\ [req[p] EXCEPT !.step = "locked"] \in Request
          /\ [req[p] EXCEPT !.step = "insert", !.head = auditHead] \in Request
          /\ [Idle EXCEPT !.step = "save", !.head = auditHead] \in Request
      BY DEF Request, Step
    <3>2. req' \in [Procs -> Request]
      BY <2>2, <3>1 DEF Lock, ReadHead, ReadForCheckpoint
    <3> QED
      BY <2>2, <3>2 DEF Lock, ReadHead, ReadForCheckpoint
  <2>3. ASSUME NEW p \in Procs, Insert(p)
        PROVE  TypeOK'
    <3>1. /\ NextEvent(req[p]) \in Event
          /\ req[p].head.headHash \in HashValue
      BY DEF NextEvent, Event, Request, Checkpoint
    <3>2. log' \in Seq(AuditEvent)
      BY <2>3, <3>1, ChainedRow DEF Insert
    <3> QED
      BY <2>3, <3>2 DEF Insert, Done
  <2>4. ASSUME NEW p \in Procs, SaveCheckpoint(p) \/ Crash(p)
        PROVE  TypeOK'
    <3>1. req[p].head \in Checkpoint
      BY DEF Request
    <3>2. req' \in [Procs -> Request]
      BY <2>4 DEF SaveCheckpoint, Crash, Done
    <3> QED
      BY <2>4, <3>1, <3>2 DEF SaveCheckpoint, Crash
  <2>5. ASSUME NEW i \in 1..Len(log), NEW content \in Contents, EditRow(i, content)
        PROVE  TypeOK'
    <3>0. log[i] \in AuditEvent
      OBVIOUS
    <3>1. Reworded(log[i], content) \in AuditEvent
      BY <3>0 DEF Reworded, AuditEvent, Event
    <3>2. log' = [log EXCEPT ![i] = Reworded(log[i], content)]
      BY <2>5 DEF EditRow, Tamper, Edited
    <3>3. log' \in Seq(AuditEvent)
      BY <3>1, <3>2
    <3> QED
      BY <2>5, <3>3 DEF EditRow, Tamper, Tampering
  <2>6. ASSUME NEW i \in 1..Len(log), SwapRows(i)
        PROVE  TypeOK'
    <3>1. log' = [log EXCEPT ![i] = log[i+1], ![i+1] = log[i]] /\ i + 1 \in 1..Len(log)
      BY <2>6 DEF SwapRows, Tamper, Swapped
    <3>2. log' \in Seq(AuditEvent)
      BY <3>1
    <3> QED
      BY <2>6, <3>2 DEF SwapRows, Tamper, Tampering
  <2>7. ASSUME NEW i \in 1..Len(log), DeleteRow(i)
        PROVE  TypeOK'
    <3>1. /\ log' = [j \in 1..(Len(log) - 1) |-> IF j < i THEN log[j] ELSE log[j+1]]
          /\ Len(log) - 1 \in Nat
      BY <2>7 DEF DeleteRow, Tamper, Without
    <3>2. \A j \in 1..(Len(log) - 1) : log[j] \in AuditEvent /\ log[j+1] \in AuditEvent
      BY <3>1
    <3>3. log' \in Seq(AuditEvent)
      BY <3>1, <3>2
    <3> QED
      BY <2>7, <3>3 DEF DeleteRow, Tamper, Tampering
  <2>8. CASE UNCHANGED vars
    BY <2>8 DEF vars
  <2> QED
    BY <2>1, <2>2, <2>3, <2>4, <2>5, <2>6, <2>7, <2>8 DEF Next
<1> QED
  BY <1>1, <1>2, PTL DEF Spec

-----------------------------------------------------------------------------
(* The invariant without its types.                                        *)
Safe ==
  /\ HolderHasLock /\ LockExcludes
  /\ HeadIsCurrent /\ SavedHeadIsOnChain
  /\ ChainIntact /\ CheckpointsOnChain

(* The invariant is inductive: only the holder of the lock appends, so     *)
(* that the head it read is still the head when it inserts.                *)
THEOREM InvariantHolds == Spec => []IInv
<1>1. Init => Safe
  <2> SUFFICES ASSUME Init
               PROVE  Safe
    OBVIOUS
  <2>1. /\ Len(log) = 0 /\ checkpoints = {}
        /\ \A p \in Procs : req[p].step = "idle"
    BY DEF Init, Idle
  <2>2. HolderHasLock /\ LockExcludes /\ HeadIsCurrent /\ SavedHeadIsOnChain
    BY <2>1 DEF HolderHasLock, LockExcludes, InTransaction, HeadIsCurrent, SavedHeadIsOnChain, At
  <2>3. ChainIntact /\ CheckpointsOnChain
    BY <2>1 DEF ChainIntact, CheckpointsOnChain, verifyChain, Broken
  <2> QED
    BY <2>2, <2>3 DEF Safe
<1>2. TypeOK /\ TypeOK' /\ Safe /\ [Next]_vars => Safe'
  <2> SUFFICES ASSUME TypeOK, TypeOK', Safe, [Next]_vars
               PROVE  Safe'
    OBVIOUS
  <2>0. /\ log \in Seq(AuditEvent)
        /\ \A p \in Procs : req[p] \in Request
        /\ DOMAIN req = Procs
        /\ Idle.step = "idle"
    BY DEF TypeOK, Idle
  <2>1. /\ HolderHasLock /\ LockExcludes
        /\ HeadIsCurrent /\ SavedHeadIsOnChain
        /\ ChainIntact /\ CheckpointsOnChain
    BY DEF Safe
  <2>2. ASSUME NEW p \in Procs, NEW content \in Contents, Act(p, content)
        PROVE  Safe'
    <3>1. /\ req'[p].step = "begin"
          /\ \A q \in Procs \ {p} : req'[q] = req[q]
          /\ UNCHANGED <<log, lock, checkpoints, tampered>>
      BY <2>0, <2>2 DEF Act, Idle
    <3>2. HolderHasLock' /\ LockExcludes'
      BY <2>1, <3>1 DEF HolderHasLock, LockExcludes, InTransaction
    <3>3. HeadIsCurrent' /\ SavedHeadIsOnChain'
      BY <2>1, <3>1 DEF HeadIsCurrent, SavedHeadIsOnChain, At, auditHead, Before
    <3>4. ChainIntact' /\ CheckpointsOnChain'
      BY <2>1, <3>1 DEF ChainIntact, CheckpointsOnChain, verifyChain, Broken, Before
    <3> QED
      BY <3>2, <3>3, <3>4 DEF Safe
  <2>3. ASSUME NEW p \in Procs, Lock(p)
        PROVE  Safe'
    <3>1. /\ req'[p].step = "locked" /\ lock = {} /\ lock' = {p}
          /\ \A q \in Procs \ {p} : req'[q] = req[q]
          /\ UNCHANGED <<log, checkpoints, tampered>>
      BY <2>0, <2>3 DEF Lock, Request
    <3>2. HolderHasLock' /\ LockExcludes'
      BY <2>1, <3>1 DEF HolderHasLock, LockExcludes, InTransaction
    <3>3. HeadIsCurrent' /\ SavedHeadIsOnChain'
      BY <2>1, <3>1 DEF HeadIsCurrent, SavedHeadIsOnChain, At, auditHead, Before
    <3>4. ChainIntact' /\ CheckpointsOnChain'
      BY <2>1, <3>1 DEF ChainIntact, CheckpointsOnChain, verifyChain, Broken, Before
    <3> QED
      BY <3>2, <3>3, <3>4 DEF Safe
  <2>4. ASSUME NEW p \in Procs, ReadHead(p) \/ ReadForCheckpoint(p)
        PROVE  Safe'
    <3>1. /\ req'[p].step \in {"insert", "save"} /\ req'[p].head = auditHead
          /\ req'[p].step = "insert" => req[p].step = "locked"
          /\ \A q \in Procs \ {p} : req'[q] = req[q]
          /\ UNCHANGED <<log, lock, checkpoints, tampered>>
      <4>1. CASE ReadHead(p)
        BY <2>0, <4>1 DEF ReadHead, At, Request
      <4>2. CASE ReadForCheckpoint(p)
        <5>1. req' = [req EXCEPT ![p] = [Idle EXCEPT !.step = "save", !.head = auditHead]]
          BY <4>2 DEF ReadForCheckpoint
        <5>2. /\ [Idle EXCEPT !.step = "save", !.head = auditHead].step = "save"
              /\ [Idle EXCEPT !.step = "save", !.head = auditHead].head = auditHead
          BY DEF Idle
        <5>3. /\ req'[p] = [Idle EXCEPT !.step = "save", !.head = auditHead]
              /\ \A q \in Procs \ {p} : req'[q] = req[q]
          BY <2>0, <5>1
        <5>4. UNCHANGED <<log, lock, checkpoints, tampered>>
          BY <4>2 DEF ReadForCheckpoint
        <5> QED
          BY <5>2, <5>3, <5>4
      <4> QED
        BY <2>4, <4>1, <4>2
    <3>2. HolderHasLock' /\ LockExcludes'
      BY <2>1, <3>1 DEF HolderHasLock, LockExcludes, InTransaction
    <3>3. HeadIsCurrent'
      BY <2>1, <3>1 DEF HeadIsCurrent, At, auditHead
    <3>4. SavedHeadIsOnChain'
      <4> SUFFICES ASSUME tampered = "no", NEW q \in Procs, req'[q].step = "save"
                   PROVE  /\ req'[q].head.upToSequence <= Len(log)
                          /\ req'[q].head.headHash = Before(log, req'[q].head.upToSequence + 1)
        BY <3>1 DEF SavedHeadIsOnChain, At, Before
      <4>1. CASE q # p
        BY <2>1, <3>1, <4>1 DEF SavedHeadIsOnChain, At
      <4>2. CASE q = p
        <5>1. /\ auditHead.upToSequence = Len(log)
              /\ auditHead.headHash = Before(log, Len(log) + 1)
          BY <2>0, <2>1, HeadOfIntact DEF ChainIntact
        <5>2. Len(log) \in Nat
          BY <2>0
        <5> QED
          BY <3>1, <4>2, <5>1, <5>2
      <4> QED
        BY <4>1, <4>2
    <3>5. ChainIntact' /\ CheckpointsOnChain'
      BY <2>1, <3>1 DEF ChainIntact, CheckpointsOnChain, verifyChain, Broken, Before
    <3> QED
      BY <3>2, <3>3, <3>4, <3>5 DEF Safe
  <2>5. ASSUME NEW p \in Procs, Insert(p)
        PROVE  Safe'
    <3> DEFINE row == chainEvent(req[p].head.headHash, NextEvent(req[p]))
    <3>1. /\ req[p].step = "insert" /\ req'[p].step = "idle"
          /\ lock' = lock \ {p} /\ log' = Append(log, row)
          /\ \A q \in Procs \ {p} : req'[q] = req[q]
          /\ UNCHANGED <<checkpoints, tampered>>
      BY <2>0, <2>5 DEF Insert, At, Done
    <3>2. \A q \in Procs \ {p} : ~InTransaction(q)
      BY <2>1, <3>1 DEF LockExcludes, InTransaction
    <3>3. HolderHasLock' /\ LockExcludes' /\ HeadIsCurrent'
      BY <3>1, <3>2 DEF HolderHasLock, LockExcludes, InTransaction, HeadIsCurrent, At
    <3>4. ASSUME tampered = "no"
          PROVE  /\ verifyChain(log')
                 /\ Len(log') = Len(log) + 1 /\ Len(log) \in Nat
                 /\ \A i \in 1..Len(log') : log'[i].event.sequence = i
                 /\ \A i \in 1..(Len(log) + 1) : Before(log', i) = Before(log, i)
      <4>1. verifyChain(log) /\ \A i \in 1..Len(log) : log[i].event.sequence = i
        BY <2>1, <3>4 DEF ChainIntact
      <4>2. /\ req[p].head.upToSequence = Len(log)
            /\ req[p].head.headHash = Before(log, Len(log) + 1)
        BY <2>0, <2>1, <3>1, <3>4, <4>1, HeadOfIntact DEF HeadIsCurrent, At
      <4>3. /\ NextEvent(req[p]) \in Event /\ NextEvent(req[p]).sequence = Len(log) + 1
            /\ req[p].head.headHash \in HashValue
        BY <2>0, <4>2 DEF NextEvent, Event, Request, Checkpoint
      <4>4. /\ row \in AuditEvent /\ row.event = NextEvent(req[p])
            /\ row.previousHash = Before(log, Len(log) + 1)
            /\ row.eventHash = computeEventHash(row.previousHash, row.event)
        BY <4>2, <4>3, ChainedRow
      <4>5. row.event.sequence = Len(log) + 1
        BY <4>3, <4>4
      <4> HIDE DEF row
      <4>6. /\ verifyChain(Append(log, row))
            /\ \A i \in 1..(Len(log) + 1) : Append(log, row)[i].event.sequence = i
            /\ \A i \in 1..(Len(log) + 1) : Before(Append(log, row), i) = Before(log, i)
        BY <2>0, <4>1, <4>4, <4>5, AppendKeepsIntact
      <4>7. Len(log') = Len(log) + 1 /\ Len(log) \in Nat
        BY <2>0, <3>1, <4>4
      <4> QED
        BY <3>1, <4>6, <4>7
    <3>5. ChainIntact'
      BY <3>1, <3>4 DEF ChainIntact, verifyChain, Broken, Before
    <3>6. SavedHeadIsOnChain'
      <4> SUFFICES ASSUME tampered = "no", NEW q \in Procs, req'[q].step = "save"
                   PROVE  /\ req'[q].head.upToSequence <= Len(log')
                          /\ req'[q].head.headHash = Before(log', req'[q].head.upToSequence + 1)
        BY <3>1 DEF SavedHeadIsOnChain, At, Before
      <4>1. /\ req'[q] = req[q]
            /\ req[q].head.upToSequence \in Nat
            /\ req[q].head.upToSequence <= Len(log)
            /\ req[q].head.headHash = Before(log, req[q].head.upToSequence + 1)
        BY <2>0, <2>1, <3>1 DEF SavedHeadIsOnChain, At, Request, Checkpoint
      <4> QED
        BY <3>4, <4>1
    <3>7. CheckpointsOnChain'
      <4> SUFFICES ASSUME tampered = "no", NEW cp \in checkpoints
                   PROVE  /\ cp.upToSequence <= Len(log')
                          /\ cp.headHash = Before(log', cp.upToSequence + 1)
        BY <3>1 DEF CheckpointsOnChain, Before
      <4>1. /\ cp.upToSequence \in Nat
            /\ cp.upToSequence <= Len(log)
            /\ cp.headHash = Before(log, cp.upToSequence + 1)
        BY <2>1 DEF CheckpointsOnChain, TypeOK, Checkpoint
      <4> QED
        BY <3>4, <4>1
    <3> QED
      BY <3>3, <3>5, <3>6, <3>7 DEF Safe
  <2>6. ASSUME NEW p \in Procs, SaveCheckpoint(p)
        PROVE  Safe'
    <3>1. /\ req[p].step = "save" /\ req'[p].step = "idle"
          /\ checkpoints' = checkpoints \cup {req[p].head}
          /\ \A q \in Procs \ {p} : req'[q] = req[q]
          /\ UNCHANGED <<log, lock, tampered>>
      BY <2>0, <2>6 DEF SaveCheckpoint, At, Done
    <3>2. HolderHasLock' /\ LockExcludes'
      BY <2>1, <3>1 DEF HolderHasLock, LockExcludes, InTransaction
    <3>3. HeadIsCurrent' /\ SavedHeadIsOnChain'
      BY <2>1, <3>1 DEF HeadIsCurrent, SavedHeadIsOnChain, At, auditHead, Before
    <3>4. ChainIntact'
      BY <2>1, <3>1 DEF ChainIntact, verifyChain, Broken, Before
    <3>5. CheckpointsOnChain'
      <4> SUFFICES ASSUME tampered = "no", NEW cp \in checkpoints'
                   PROVE  /\ cp.upToSequence <= Len(log)
                          /\ cp.headHash = Before(log, cp.upToSequence + 1)
        BY <3>1 DEF CheckpointsOnChain, Before
      <4>1. CASE cp \in checkpoints
        BY <2>1, <4>1 DEF CheckpointsOnChain
      <4>2. CASE cp = req[p].head
        BY <2>1, <3>1, <4>2 DEF SavedHeadIsOnChain, At
      <4> QED
        BY <3>1, <4>1, <4>2
    <3> QED
      BY <3>2, <3>3, <3>4, <3>5 DEF Safe
  <2>7. ASSUME NEW p \in Procs, Crash(p)
        PROVE  Safe'
    <3>1. /\ req'[p].step = "idle" /\ lock' = lock \ {p}
          /\ \A q \in Procs \ {p} : req'[q] = req[q]
          /\ UNCHANGED <<log, checkpoints, tampered>>
      BY <2>0, <2>7 DEF Crash, Done
    <3>2. HolderHasLock' /\ LockExcludes'
      BY <2>1, <3>1 DEF HolderHasLock, LockExcludes, InTransaction
    <3>3. HeadIsCurrent' /\ SavedHeadIsOnChain'
      BY <2>1, <3>1 DEF HeadIsCurrent, SavedHeadIsOnChain, At, auditHead, Before
    <3>4. ChainIntact' /\ CheckpointsOnChain'
      BY <2>1, <3>1 DEF ChainIntact, CheckpointsOnChain, verifyChain, Broken, Before
    <3> QED
      BY <3>2, <3>3, <3>4 DEF Safe
  <2>8. ASSUME NEW kind \in Tampering \ {"no"}, NEW result, Tamper(kind, result)
        PROVE  Safe'
    <3>1. tampered' # "no" /\ lock' = lock /\ req' = req
      BY <2>8 DEF Tamper
    <3>2. HolderHasLock' /\ LockExcludes'
      BY <2>1, <3>1 DEF HolderHasLock, LockExcludes, InTransaction
    <3> QED
      BY <3>1, <3>2 DEF Safe, HeadIsCurrent, SavedHeadIsOnChain, ChainIntact, CheckpointsOnChain
  <2>9. CASE UNCHANGED vars
    <3>1. /\ UNCHANGED <<log, lock, checkpoints, tampered>>
          /\ req' = req
      BY <2>9 DEF vars
    <3>2. HolderHasLock' /\ LockExcludes' /\ HeadIsCurrent' /\ SavedHeadIsOnChain'
      BY <2>1, <3>1 DEF HolderHasLock, LockExcludes, InTransaction, HeadIsCurrent,
         SavedHeadIsOnChain, At, auditHead, Before
    <3>3. ChainIntact' /\ CheckpointsOnChain'
      BY <2>1, <3>1 DEF ChainIntact, CheckpointsOnChain, verifyChain, Broken, Before
    <3> QED
      BY <3>2, <3>3 DEF Safe
  <2> QED
    BY <2>2, <2>3, <2>4, <2>5, <2>6, <2>7, <2>8, <2>9 DEF Next, EditRow, SwapRows, DeleteRow, Tampering
<1>3. TypeOK /\ Safe <=> IInv
  BY DEF IInv, Safe
<1> QED
  BY <1>1, <1>2, <1>3, TypeCorrect, PTL DEF Spec

(* The log never forks, and has a row for every number.                    *)
THEOREM ChainStaysIntact == Spec => []ChainIntact
<1>1. IInv => ChainIntact
  BY DEF IInv
<1> QED
  BY <1>1, InvariantHolds, PTL

(* A signed checkpoint stays true of the log.                              *)
THEOREM CheckpointsStayTrue == Spec => []CheckpointsOnChain
<1>1. IInv => CheckpointsOnChain
  BY DEF IInv
<1> QED
  BY <1>1, InvariantHolds, PTL

-----------------------------------------------------------------------------
(* verifyChain over a log that was touched.                                *)

(* A hash never follows from itself: the row after row i does not follow   *)
(* what row i followed.                                                    *)
LEMMA HashesAdvance ==
  ASSUME log \in Seq(AuditEvent), verifyChain(log), NEW i \in 1..Len(log), i + 1 \in 1..Len(log)
  PROVE  log[i+1].previousHash # Before(log, i)
<1>1. log[i] \in AuditEvent
  OBVIOUS
<1>2. /\ log[i+1].previousHash = log[i].eventHash
      /\ log[i].previousHash = Before(log, i)
      /\ log[i].eventHash = Append(Before(log, i), log[i].event)
  <2>1. \A j \in 1..Len(log) :
          /\ log[j].previousHash = Before(log, j)
          /\ log[j].eventHash = Append(Before(log, j), log[j].event)
    BY DEF verifyChain, Broken, computeEventHash
  <2>2. Before(log, i+1) = log[i].eventHash
    BY DEF Before
  <2> QED
    BY <2>1, <2>2
<1>3. Before(log, i) \in Seq(Event) /\ log[i].event \in Event
  BY <1>1, <1>2 DEF AuditEvent, HashValue
<1>4. /\ Len(Append(Before(log, i), log[i].event)) = Len(Before(log, i)) + 1
      /\ Len(Before(log, i)) \in Nat
  BY <1>3
<1> QED
  BY <1>2, <1>4

(* Growth repairs nothing.                                                 *)
LEMMA BrokenStaysBroken ==
  ASSUME log \in Seq(AuditEvent), ~verifyChain(log), NEW row \in AuditEvent
  PROVE  ~verifyChain(Append(log, row))
<1>1. /\ Len(Append(log, row)) = Len(log) + 1 /\ Len(log) \in Nat
      /\ \A i \in 1..Len(log) : Append(log, row)[i] = log[i]
  OBVIOUS
<1>2. \A i \in 1..Len(log) : Before(Append(log, row), i) = Before(log, i)
  BY <1>1 DEF Before
<1> QED
  BY <1>1, <1>2 DEF verifyChain, Broken

(* A row with another content has another hash.                            *)
LEMMA EditIsSeen ==
  ASSUME log \in Seq(AuditEvent), verifyChain(log), NEW i \in 1..Len(log),
         NEW content \in Contents, content # log[i].event.content
  PROVE  ~verifyChain(Edited(log, i, content))
<1> DEFINE new == Edited(log, i, content)
<1>1. log[i] \in AuditEvent /\ log[i].event \in Event
  <2>1. log[i] \in AuditEvent
    OBVIOUS
  <2> QED
    BY <2>1 DEF AuditEvent
<1>2. /\ Len(new) = Len(log)
      /\ new[i] = Reworded(log[i], content)
      /\ \A j \in 1..Len(log) : j # i => new[j] = log[j]
  BY DEF Edited
<1>3. Before(new, i) = Before(log, i)
  BY <1>2 DEF Before
<1>4. /\ log[i].previousHash = Before(log, i)
      /\ log[i].eventHash = Append(Before(log, i), log[i].event)
  BY DEF verifyChain, Broken, computeEventHash
<1>5. /\ new[i].eventHash = log[i].eventHash
      /\ new[i].event = [content |-> content, sequence |-> log[i].event.sequence]
      /\ new[i].event \in Event /\ new[i].event # log[i].event
  BY <1>1, <1>2 DEF Reworded, AuditEvent, Event
<1>6. Before(log, i) \in Seq(Event)
  BY <1>1, <1>4 DEF AuditEvent, HashValue
<1> HIDE DEF new
<1>7. Append(Before(log, i), log[i].event) # Append(Before(log, i), new[i].event)
  <2> DEFINE n == Len(Before(log, i)) + 1
  <2>1. /\ Append(Before(log, i), log[i].event)[n] = log[i].event
        /\ Append(Before(log, i), new[i].event)[n] = new[i].event
    BY <1>1, <1>5, <1>6
  <2> QED
    BY <1>5, <2>1
<1>8. ~verifyChain(new)
  BY <1>2, <1>3, <1>4, <1>5, <1>7 DEF verifyChain, Broken, computeEventHash
<1> QED
  BY <1>8 DEF new

(* Of two rows that changed places, the one that comes first now follows   *)
(* the other.                                                              *)
LEMMA SwapIsSeen ==
  ASSUME log \in Seq(AuditEvent), verifyChain(log), NEW i \in 1..Len(log), i < Len(log)
  PROVE  ~verifyChain(Swapped(log, i))
<1> DEFINE new == Swapped(log, i)
<1>0. i + 1 \in 1..Len(log) /\ i # i + 1
  OBVIOUS
<1>1. /\ Len(new) = Len(log)
      /\ new[i] = log[i+1]
      /\ \A j \in 1..Len(log) : j < i => new[j] = log[j]
  BY <1>0 DEF Swapped
<1> HIDE DEF new
<1>2. Before(new, i) = Before(log, i)
  BY <1>1 DEF Before
<1>3. new[i].previousHash # Before(new, i)
  BY <1>0, <1>1, <1>2, HashesAdvance
<1>4. ~verifyChain(new)
  BY <1>1, <1>3 DEF verifyChain, Broken
<1> QED
  BY <1>4 DEF new

(* The row after a row that was removed follows what is not there.         *)
LEMMA GapIsSeen ==
  ASSUME log \in Seq(AuditEvent), verifyChain(log), NEW i \in 1..Len(log), i < Len(log)
  PROVE  ~verifyChain(Without(log, i))
<1> DEFINE new == Without(log, i)
<1>0. i + 1 \in 1..Len(log) /\ Len(log) - 1 \in Nat
  OBVIOUS
<1>1. /\ Len(new) = Len(log) - 1
      /\ new[i] = log[i+1]
      /\ \A j \in 1..Len(log) : j < i => new[j] = log[j]
  BY <1>0 DEF Without
<1> HIDE DEF new
<1>2. Before(new, i) = Before(log, i)
  BY <1>1 DEF Before
<1>3. new[i].previousHash # Before(new, i)
  BY <1>0, <1>1, <1>2, HashesAdvance
<1>4. ~verifyChain(new)
  BY <1>0, <1>1, <1>3 DEF verifyChain, Broken
<1> QED
  BY <1>4 DEF new

(* Whoever rewords, swaps or removes rows of the table is found out by     *)
(* verifyChain, then and ever after; but for the newest row.               *)
THEOREM TamperingIsDetected == Spec => []TamperingDetected
<1>1. Init => TamperingDetected
  BY DEF Init, TamperingDetected
<1>2. TypeOK /\ ChainIntact /\ TamperingDetected /\ [Next]_vars => TamperingDetected'
  <2> SUFFICES ASSUME TypeOK, ChainIntact, TamperingDetected, [Next]_vars
               PROVE  TamperingDetected'
    OBVIOUS
  <2>0. log \in Seq(AuditEvent) /\ \A p \in Procs : req[p] \in Request
    BY DEF TypeOK
  <2>1. ASSUME NEW p \in Procs, Insert(p)
        PROVE  TamperingDetected'
    <3> DEFINE row == chainEvent(req[p].head.headHash, NextEvent(req[p]))
    <3>1. /\ NextEvent(req[p]) \in Event
          /\ req[p].head.headHash \in HashValue
      BY <2>0 DEF NextEvent, Event, Request, Checkpoint
    <3>2. row \in AuditEvent
      BY <3>1, ChainedRow
    <3>3. log' = Append(log, row) /\ tampered' = tampered
      BY <2>1 DEF Insert
    <3> HIDE DEF row
    <3> QED
      BY <2>0, <3>2, <3>3, BrokenStaysBroken DEF TamperingDetected
  <2>2. ASSUME NEW i \in 1..Len(log), NEW content \in Contents, EditRow(i, content)
        PROVE  TamperingDetected'
    BY <2>0, <2>2, EditIsSeen DEF EditRow, Tamper, ChainIntact, TamperingDetected
  <2>3. ASSUME NEW i \in 1..Len(log), SwapRows(i)
        PROVE  TamperingDetected'
    BY <2>0, <2>3, SwapIsSeen DEF SwapRows, Tamper, ChainIntact, TamperingDetected
  <2>4. ASSUME NEW i \in 1..Len(log), DeleteRow(i)
        PROVE  TamperingDetected'
    BY <2>0, <2>4, GapIsSeen DEF DeleteRow, Tamper, ChainIntact, TamperingDetected
  <2>5. ASSUME log' = log, tampered' = tampered
        PROVE  TamperingDetected'
    BY <2>5 DEF TamperingDetected, verifyChain, Broken, Before
  <2> QED
    BY <2>1, <2>2, <2>3, <2>4, <2>5
    DEF Next, Act, Lock, ReadHead, ReadForCheckpoint, SaveCheckpoint, Crash, vars
<1> QED
  BY <1>1, <1>2, TypeCorrect, ChainStaysIntact, PTL DEF Spec

-----------------------------------------------------------------------------
(* The requests whose action is done and not yet in the log.               *)
Auditing == {p \in Procs : req[p].step \in {"begin", "locked", "insert"}}

(* As long as no process crashes and no row is removed, every action is in *)
(* the log or has a request that is about to put it there.                 *)
NothingIsLost ==
  crashes = 0 /\ tampered \notin {"deleted", "truncated"} =>
    IsFiniteSet(Auditing) /\ Len(log) + Cardinality(Auditing) = acted

(* Every action of a finished request is in the log.                       *)
THEOREM EverythingIsAudited == Spec => []EverythingAudited
<1>1. Init => NothingIsLost
  <2> SUFFICES ASSUME Init
               PROVE  IsFiniteSet(Auditing) /\ Len(log) + Cardinality(Auditing) = acted
    BY DEF NothingIsLost
  <2>1. Auditing = {}
    BY DEF Init, Auditing, Idle
  <2> QED
    BY <2>1, FS_EmptySet DEF Init
<1>2. TypeOK /\ NothingIsLost /\ [Next]_vars => NothingIsLost'
  <2> SUFFICES ASSUME TypeOK, NothingIsLost, [Next]_vars,
                      crashes' = 0, tampered' \notin {"deleted", "truncated"}
               PROVE  IsFiniteSet(Auditing') /\ Len(log') + Cardinality(Auditing') = acted'
    BY DEF NothingIsLost
  <2>0. /\ log \in Seq(AuditEvent) /\ Len(log) \in Nat
        /\ DOMAIN req = Procs /\ \A p \in Procs : req[p] \in Request
        /\ acted \in Nat /\ crashes \in Nat
    BY DEF TypeOK
  <2>1. crashes = 0 /\ tampered \notin {"deleted", "truncated"}
    <3>1. ASSUME NEW p \in Procs, NEW content \in Contents,
                 \/ Act(p, content) \/ Lock(p) \/ ReadHead(p) \/ Insert(p)
                 \/ ReadForCheckpoint(p) \/ SaveCheckpoint(p)
          PROVE  crashes' = crashes /\ tampered' = tampered
      BY <3>1 DEF Act, Lock, ReadHead, Insert, ReadForCheckpoint, SaveCheckpoint
    <3>2. ASSUME NEW p \in Procs, Crash(p)
          PROVE  crashes' = crashes + 1
      BY <3>2 DEF Crash
    <3>3. ASSUME NEW i \in 1..Len(log), NEW content \in Contents,
                 EditRow(i, content) \/ SwapRows(i) \/ DeleteRow(i)
          PROVE  crashes' = crashes /\ tampered = "no"
      BY <3>3 DEF EditRow, SwapRows, DeleteRow, Tamper
    <3>4. CASE UNCHANGED vars
      BY <3>4 DEF vars
    <3>5. Contents # {}
      BY AuditChainAssumption
    <3> QED
      BY <2>0, <3>1, <3>2, <3>3, <3>4, <3>5 DEF Next
  <2>2. IsFiniteSet(Auditing) /\ Len(log) + Cardinality(Auditing) = acted
    BY <2>1 DEF NothingIsLost
  <2>3. Cardinality(Auditing) \in Nat
    BY <2>2, FS_CardinalityType
  <2>4. ASSUME NEW p \in Procs, NEW content \in Contents, Act(p, content)
        PROVE  Auditing' = Auditing \cup {p} /\ p \notin Auditing
               /\ acted' = acted + 1 /\ log' = log
    BY <2>0, <2>4 DEF Act, At, Auditing, Idle
  <2>5. ASSUME NEW p \in Procs, Insert(p)
        PROVE  Auditing' = Auditing \ {p} /\ p \in Auditing
               /\ acted' = acted /\ Len(log') = Len(log) + 1
    <3>1. Auditing' = Auditing \ {p} /\ p \in Auditing
      BY <2>0, <2>5 DEF Insert, Done, At, Auditing, Idle
    <3> QED
      BY <2>0, <2>5, <3>1 DEF Insert
  <2>6. ASSUME NEW p \in Procs, Lock(p) \/ ReadHead(p) \/ ReadForCheckpoint(p) \/ SaveCheckpoint(p)
        PROVE  Auditing' = Auditing /\ acted' = acted /\ log' = log
    <3>1. /\ \A q \in Procs \ {p} : req'[q] = req[q]
          /\ \/ req[p].step = "begin" /\ req'[p].step = "locked"
             \/ req[p].step = "locked" /\ req'[p].step = "insert"
             \/ req[p].step = "idle" /\ req'[p].step = "save"
             \/ req[p].step = "save" /\ req'[p].step = "idle"
      <4>1. CASE Lock(p) \/ ReadHead(p)
        BY <2>0, <4>1 DEF Lock, ReadHead, At, Request
      <4>2. CASE ReadForCheckpoint(p)
        <5>1. [Idle EXCEPT !.step = "save", !.head = auditHead].step = "save"
          BY DEF Idle
        <5> QED
          BY <2>0, <4>2, <5>1 DEF ReadForCheckpoint, At
      <4>3. CASE SaveCheckpoint(p)
        <5>1. Idle.step = "idle"
          BY DEF Idle
        <5> QED
          BY <2>0, <4>3, <5>1 DEF SaveCheckpoint, Done, At
      <4> QED
        BY <2>6, <4>1, <4>2, <4>3
    <3> QED
      BY <2>6, <3>1 DEF Lock, ReadHead, ReadForCheckpoint, SaveCheckpoint, Auditing
  <2>7. ASSUME NEW i \in 1..Len(log),
               SwapRows(i) \/ \E content \in Contents : EditRow(i, content)
        PROVE  Auditing' = Auditing /\ acted' = acted /\ Len(log') = Len(log)
    BY <2>0, <2>7 DEF SwapRows, EditRow, Tamper, Swapped, Edited, Auditing
  <2>9. ASSUME NEW p \in Procs, Crash(p)
        PROVE  FALSE
    BY <2>1, <2>9 DEF Crash
  <2>10. ASSUME NEW i \in 1..Len(log), DeleteRow(i)
         PROVE  FALSE
    BY <2>10 DEF DeleteRow, Tamper
  <2>11. \/ Len(log') = Len(log) /\ acted' = acted /\ Auditing' = Auditing
         \/ \E p : Auditing' = Auditing \cup {p} /\ p \notin Auditing
                   /\ acted' = acted + 1 /\ log' = log
         \/ \E p : Auditing' = Auditing \ {p} /\ p \in Auditing
                   /\ acted' = acted /\ Len(log') = Len(log) + 1
    <3>1. CASE UNCHANGED vars
      BY <3>1 DEF vars, Auditing
    <3>2. CASE Next
      BY <2>4, <2>5, <2>6, <2>7, <2>9, <2>10, <3>2 DEF Next
    <3> QED
      BY <3>1, <3>2
  <2>12. ASSUME NEW p, Auditing' = Auditing \cup {p}, p \notin Auditing,
                acted' = acted + 1, log' = log
         PROVE  IsFiniteSet(Auditing') /\ Len(log') + Cardinality(Auditing') = acted'
    <3>1. /\ IsFiniteSet(Auditing \cup {p})
          /\ Cardinality(Auditing \cup {p}) = Cardinality(Auditing) + 1
      BY <2>2, <2>12, FS_AddElement
    <3>2. IsFiniteSet(Auditing') /\ Cardinality(Auditing') = Cardinality(Auditing) + 1
      BY <2>12, <3>1
    <3> QED
      BY <2>0, <2>2, <2>3, <2>12, <3>2
  <2>13. ASSUME NEW p, Auditing' = Auditing \ {p}, p \in Auditing,
                acted' = acted, Len(log') = Len(log) + 1
         PROVE  IsFiniteSet(Auditing') /\ Len(log') + Cardinality(Auditing') = acted'
    <3>1. /\ IsFiniteSet(Auditing \ {p})
          /\ Cardinality(Auditing \ {p}) = Cardinality(Auditing) - 1
      BY <2>2, <2>13, FS_RemoveElement
    <3>2. IsFiniteSet(Auditing') /\ Cardinality(Auditing') = Cardinality(Auditing) - 1
      BY <2>13, <3>1
    <3> QED
      BY <2>0, <2>2, <2>3, <2>13, <3>2
  <2> QED
    BY <2>2, <2>11, <2>12, <2>13
<1>3. TypeOK /\ NothingIsLost => EverythingAudited
  <2> SUFFICES ASSUME TypeOK, NothingIsLost, crashes = 0,
                      tampered \notin {"deleted", "truncated"},
                      \A p \in Procs : At(p, "idle")
               PROVE  Len(log) = acted
    BY DEF EverythingAudited
  <2>1. Auditing = {}
    BY DEF Auditing, At
  <2>2. Len(log) \in Nat
    BY DEF TypeOK
  <2> QED
    BY <2>1, <2>2, FS_EmptySet DEF NothingIsLost
<1> QED
  BY <1>1, <1>2, <1>3, TypeCorrect, PTL DEF Spec

-----------------------------------------------------------------------------
(* Module Sandbox.                                                         *)

(* Counting in sequences.                                                  *)

(* The places of a body in a sequence are finitely many.                   *)
LEMMA OccurrencesFinite ==
  ASSUME NEW S, NEW s \in Seq(S), NEW e
  PROVE  /\ IsFiniteSet({i \in DOMAIN s : s[i] = e})
         /\ Occurrences(e, s) \in Nat
  <1>1. DOMAIN s = 1..Len(s) /\ Len(s) \in Int
    OBVIOUS
  <1>2. IsFiniteSet(1..Len(s))
    BY <1>1, FS_Interval
  <1>3. {i \in DOMAIN s : s[i] = e} \in SUBSET (1..Len(s))
    BY <1>1
  <1>4. IsFiniteSet({i \in DOMAIN s : s[i] = e})
    BY <1>2, <1>3, FS_Subset
  <1> QED
    BY <1>4, FS_CardinalityType DEF Occurrences

(* Nothing is in the empty sequence, and a single event once or never.     *)
LEMMA OccurrencesInShort ==
  ASSUME NEW e, NEW f
  PROVE  /\ Occurrences(e, <<>>) = 0
         /\ Occurrences(e, <<f>>) = IF f = e THEN 1 ELSE 0
  <1>1. {i \in DOMAIN <<>> : <<>>[i] = e} = {}
    OBVIOUS
  <1>2. DOMAIN <<f>> = {1} /\ <<f>>[1] = f
    OBVIOUS
  <1>3. {i \in DOMAIN <<f>> : <<f>>[i] = e} = IF f = e THEN {1} ELSE {}
    BY <1>2
  <1> QED
    BY <1>1, <1>3, FS_EmptySet, FS_Singleton DEF Occurrences

(* Of two sequences, one after the other, the occurrences add up.          *)
LEMMA OccurrencesConcat ==
  ASSUME NEW S, NEW s \in Seq(S), NEW t \in Seq(S), NEW e
  PROVE  Occurrences(e, s \o t) = Occurrences(e, s) + Occurrences(e, t)
  <1> DEFINE A == {i \in DOMAIN s : s[i] = e}
             B == {i \in DOMAIN t : t[i] = e}
             C == {i \in DOMAIN (s \o t) : (s \o t)[i] = e}
             D == {i \in C : i > Len(s)}
             f == [i \in B |-> Len(s) + i]
  <1>1. /\ Len(s) \in Nat /\ Len(t) \in Nat
        /\ DOMAIN s = 1..Len(s) /\ DOMAIN t = 1..Len(t)
        /\ DOMAIN (s \o t) = 1..(Len(s) + Len(t))
        /\ \A i \in 1..Len(s) : (s \o t)[i] = s[i]
        /\ \A i \in 1..Len(t) : (s \o t)[Len(s) + i] = t[i]
    OBVIOUS
  <1>2. IsFiniteSet(A) /\ IsFiniteSet(B)
    BY OccurrencesFinite
  <1>3. C = A \cup D /\ A \cap D = {}
    BY <1>1
  <1>4. ExistsBijection(B, D)
    <2>1. f \in [B -> D]
      BY <1>1
    <2>2. \A i, j \in B : f[i] = f[j] => i = j
      BY <1>1
    <2>3. \A k \in D : \E i \in B : f[i] = k
      <3>1. SUFFICES ASSUME NEW k \in D
                     PROVE  k - Len(s) \in B /\ f[k - Len(s)] = k
        OBVIOUS
      <3>2. k - Len(s) \in 1..Len(t)
        BY <1>1
      <3>3. t[k - Len(s)] = (s \o t)[Len(s) + (k - Len(s))]
        BY <1>1, <3>2
      <3>4. Len(s) + (k - Len(s)) = k
        BY <1>1
      <3> QED
        BY <1>1, <3>2, <3>3, <3>4
    <2> HIDE DEF f, B, D
    <2>4. f \in Injection(B, D) /\ f \in Surjection(B, D)
      BY <2>1, <2>2, <2>3 DEF Injection, Surjection, IsInjective
    <2> QED
      BY <2>4 DEF ExistsBijection, Bijection
  <1>5. IsFiniteSet(D) /\ Cardinality(D) = Cardinality(B)
    BY <1>2, <1>4, FS_Bijection
  <1> HIDE DEF A, B, C, D
  <1>6. Cardinality(C) = Cardinality(A) + Cardinality(D)
    <2>1. Cardinality(A \cup D) = Cardinality(A) + Cardinality(D) - Cardinality(A \cap D)
      BY <1>2, <1>5, FS_Union
    <2>2. Cardinality(A) \in Nat /\ Cardinality(D) \in Nat /\ Cardinality({}) = 0
      BY <1>2, <1>5, FS_CardinalityType, FS_EmptySet
    <2>3. Cardinality(C) = Cardinality(A \cup D) /\ Cardinality(A \cap D) = Cardinality({})
      BY <1>3, Zenon
    <2> QED
      BY <2>1, <2>2, <2>3
  <1> QED
    BY <1>5, <1>6 DEF Occurrences, A, B, C

(* One more at the end.                                                    *)
LEMMA OccurrencesAppend ==
  ASSUME NEW S, NEW s \in Seq(S), NEW f \in S, NEW e
  PROVE  Occurrences(e, Append(s, f)) = Occurrences(e, s) + (IF f = e THEN 1 ELSE 0)
  <1>1. Append(s, f) = s \o <<f>> /\ <<f>> \in Seq(S)
    BY AppendIsConcat
  <1>2. Occurrences(e, s \o <<f>>) = Occurrences(e, s) + Occurrences(e, <<f>>)
    BY <1>1, OccurrencesConcat
  <1>3. Occurrences(e, <<f>>) = IF f = e THEN 1 ELSE 0
    BY OccurrencesInShort
  <1> QED
    BY <1>1, <1>2, <1>3, Zenon

(* One fewer in the middle.                                                *)
LEMMA OccurrencesRemove ==
  ASSUME NEW S, NEW s \in Seq(S), NEW i \in DOMAIN s, NEW e
  PROVE  /\ RemoveAt(s, i) \in Seq(S)
         /\ Occurrences(e, s) = Occurrences(e, RemoveAt(s, i)) + (IF s[i] = e THEN 1 ELSE 0)
  <1> DEFINE u == SubSeq(s, 1, i - 1)
             v == SubSeq(s, i + 1, Len(s))
  <1>1. /\ DOMAIN s = 1..Len(s) /\ Len(s) \in Nat /\ i \in 1..Len(s)
        /\ \A j \in 1..Len(s) : s[j] \in S
    OBVIOUS
  <1>2. u \in Seq(S) /\ v \in Seq(S) /\ <<s[i]>> \in Seq(S)
    BY <1>1, SubSeqProperties
  <1>3. s = u \o (<<s[i]>> \o v)
    <2>1. SubSeq(s, i, Len(s)) = <<s[i]>> \o v
      <3>1. Len(s) \in i..Len(s)
        BY <1>1
      <3> QED
        BY <1>1, <3>1, SubSeqRecursiveFirst
    <2>2. /\ 1 \in 1..Len(s) + 1 /\ i - 1 \in 1 - 1..Len(s) /\ Len(s) \in i - 1..Len(s)
          /\ (i - 1) + 1 = i
      BY <1>1
    <2>3. u \o SubSeq(s, (i - 1) + 1, Len(s)) = SubSeq(s, 1, Len(s))
      BY <2>2, ConcatAdjacentSubSeq
    <2> QED
      BY <2>1, <2>2, <2>3, SubSeqFull
  <1>4. RemoveAt(s, i) = u \o v
    BY DEF RemoveAt
  <1> HIDE DEF u, v
  <1>5. <<s[i]>> \o v \in Seq(S) /\ u \o v \in Seq(S)
    BY <1>2, ConcatProperties
  <1>6. Occurrences(e, s) = Occurrences(e, u) + (Occurrences(e, <<s[i]>>) + Occurrences(e, v))
    <2>1. Occurrences(e, s) = Occurrences(e, u \o (<<s[i]>> \o v))
      BY <1>3, Zenon
    <2>2. Occurrences(e, u \o (<<s[i]>> \o v)) = Occurrences(e, u) + Occurrences(e, <<s[i]>> \o v)
      BY <1>2, <1>5, OccurrencesConcat
    <2>3. Occurrences(e, <<s[i]>> \o v) = Occurrences(e, <<s[i]>>) + Occurrences(e, v)
      BY <1>2, OccurrencesConcat
    <2> QED
      BY <2>1, <2>2, <2>3, Zenon
  <1>7. Occurrences(e, u \o v) = Occurrences(e, u) + Occurrences(e, v)
    BY <1>2, OccurrencesConcat
  <1>8. Occurrences(e, u) \in Nat /\ Occurrences(e, v) \in Nat
    BY <1>2, OccurrencesFinite
  <1>9. Occurrences(e, <<s[i]>>) = IF s[i] = e THEN 1 ELSE 0
    BY OccurrencesInShort
  <1>10. Occurrences(e, s) = Occurrences(e, u \o v) + (IF s[i] = e THEN 1 ELSE 0)
    BY <1>6, <1>7, <1>8, <1>9
  <1> QED
    BY <1>4, <1>5, <1>10, Zenon

(* And one fewer, or as many, without the head.                            *)
LEMMA OccurrencesTail ==
  ASSUME NEW S, NEW s \in Seq(S), s # <<>>, NEW e
  PROVE  Tail(s) \in Seq(S) /\ Occurrences(e, Tail(s)) <= Occurrences(e, s)
  <1>1. /\ Tail(s) \in Seq(S) /\ <<Head(s)>> \in Seq(S) /\ Head(s) \in S
        /\ s = <<Head(s)>> \o Tail(s)
    OBVIOUS
  <1>2. Occurrences(e, s) = Occurrences(e, <<Head(s)>>) + Occurrences(e, Tail(s))
    BY <1>1, OccurrencesConcat
  <1>3. Occurrences(e, <<Head(s)>>) \in Nat /\ Occurrences(e, Tail(s)) \in Nat
    BY <1>1, OccurrencesFinite
  <1> QED
    BY <1>1, <1>2, <1>3

-----------------------------------------------------------------------------
(* What the agents answer, and what the policy says of it.                 *)
AgentEvent == [from : Role, type : AgentType, about : Int]

(* A set of numbers that is not empty has a least one.                     *)
LEMMA LeastExists ==
  ASSUME NEW S \in SUBSET Nat, S # {}
  PROVE  \E x \in S : \A y \in S : x <= y
  <1> DEFINE Less == {p \in Nat \X Nat : p[1] < p[2]}
  <1>1. Less = OpToRel(<, Nat)
    BY DEF OpToRel
  <1>2. IsWellFoundedOn(Less, Nat)
    BY <1>1, NatLessThanWellFounded
  <1>3. S \subseteq Nat
    OBVIOUS
  <1> HIDE DEF Less
  <1>4. PICK x \in S : \A y \in S : ~(<<y, x>> \in Less)
    BY <1>2, <1>3, WFMin
  <1>5. ASSUME NEW y \in S
        PROVE  x <= y
    <2>1. <<y, x>> \in Less <=> y < x
      BY DEF Less
    <2> QED
      BY <1>4, <2>1
  <1> QED
    BY <1>5

(* Every verdict of the policy engine is one of its three decisions.       *)
LEMMA VerdictIsDecision ==
  ASSUME NEW ev, NEW policy, NEW contract
  PROVE  Engine!evaluate(ev, policy, contract) \in Engine!Decision
  <1> DEFINE rules == Engine!Rules(ev, policy, contract)
             hits  == Engine!Applicable(rules)
             first == CHOOSE i \in hits : \A j \in hits : i <= j
  <1>1. DOMAIN rules = 1..13 /\ \A i \in 1..13 : rules[i].result \in {"deny", "require_approval"}
    BY DEF Engine!Rules, Engine!Deny, Engine!RequireApproval
  <1>2. hits \in SUBSET (1..13)
    BY <1>1 DEF Engine!Applicable
  <1> HIDE DEF rules
  <1>3. CASE hits = {}
    BY <1>3 DEF Engine!evaluate, Engine!Decision, rules
  <1>4. CASE hits # {}
    <2>1. first \in hits
      BY <1>2, <1>4, LeastExists
    <2>2. Engine!evaluate(ev, policy, contract) = rules[first].result
      BY <1>4 DEF Engine!evaluate, rules
    <2> HIDE DEF hits, first
    <2> QED
      BY <1>1, <1>2, <2>1, <2>2 DEF Engine!Decision
  <1> QED
    BY <1>3, <1>4

(* What a participant answers names a request that is open, or a criterion *)
(* that is, and comes from the participant.                                *)
LEMMA AnswerIsOpen ==
  ASSUME stream \in Seq(RoomEvent), task.criteria \in 1..3, NEW role \in Role
  PROVE  \/ executeTurn(role) = <<>>
         \/ \E b \in AgentEvent :
              /\ executeTurn(role) = <<b>>
              /\ b.type \in ResponseType => b.about \notin Answered
              /\ b.type = "evidence_submission" => b.about \in Unevidenced
  <1>1. ASSUME NEW r \in Role, pendingRequests(r) # {}
        PROVE  Min(pendingRequests(r)) \in Nat /\ Min(pendingRequests(r)) \notin Answered
    <2>1. pendingRequests(r) \in SUBSET Nat
      BY DEF pendingRequests
    <2>2. Min(pendingRequests(r)) \in pendingRequests(r)
      BY <1>1, <2>1, LeastExists DEF Min
    <2> QED
      BY <2>1, <2>2 DEF pendingRequests
  <1>2. ASSUME Unevidenced # {}
        PROVE  Min(Unevidenced) \in Unevidenced /\ Min(Unevidenced) \in Nat
    <2>1. Unevidenced \in SUBSET Nat
      BY DEF Unevidenced
    <2>2. Min(Unevidenced) \in Unevidenced
      BY <1>2, <2>1, LeastExists DEF Min
    <2> QED
      BY <2>1, <2>2
  <1> DEFINE Open(s) ==
        \/ s = <<>>
        \/ \E b \in AgentEvent :
             /\ s = <<b>>
             /\ b.type \in ResponseType => b.about \notin Answered
             /\ b.type = "evidence_submission" => b.about \in Unevidenced
  <1>3. ASSUME NEW r \in Role, NEW type \in ResponseType, pendingRequests(r) # {}
        PROVE  Open(Reply(r, type))
    <2>1. Body(r, type, Min(pendingRequests(r))) \in AgentEvent
      BY <1>1, <1>3 DEF Body, AgentEvent, AgentType
    <2> QED
      BY <1>1, <1>3, <2>1 DEF Reply, Body, ResponseType
  <1>4. ASSUME NEW r \in Role, NEW type \in {"data_request", "message", "completion_proposal"}
        PROVE  Open(<<Body(r, type, 0)>>)
    <2>1. Body(r, type, 0) \in AgentEvent
      BY <1>4 DEF Body, AgentEvent, AgentType, RequestType
    <2> QED
      BY <1>4, <2>1 DEF Body, ResponseType
  <1>5. ASSUME Unevidenced # {}
        PROVE  Open(<<Body("provider", "evidence_submission", Min(Unevidenced))>>)
    <2>1. Body("provider", "evidence_submission", Min(Unevidenced)) \in AgentEvent
      BY <1>2, <1>5 DEF Body, AgentEvent, AgentType, Role
    <2> QED
      BY <1>2, <1>5, <2>1 DEF Body, ResponseType
  <1>6. Open(<<>>)
    OBVIOUS
  <1> HIDE DEF Open
  <1>7. Open(customerTurn)
    BY <1>3, <1>4, <1>6 DEF customerTurn, HeadIs, Role, ResponseType
  <1>8. Open(providerTurn)
    BY <1>3, <1>4, <1>5, <1>6 DEF providerTurn, HeadIs, Role, ResponseType
  <1>9. Open(executeTurn(role))
    BY <1>7, <1>8 DEF executeTurn
  <1> QED
    BY <1>9 DEF Open

-----------------------------------------------------------------------------
(* The inductive invariant.                                                *)

(* What a participant, or a human in its name, hands in under a contract   *)
(* of n criteria.                                                          *)
HandedIn(n) == {e \in AgentEvent : e.type = "evidence_submission" => e.about \in 1..n}

(* The places an event that was handed in passes through: answered and not *)
(* yet submitted, claimed and not yet released, persisted and not yet in   *)
(* effect.                                                                 *)
Answering == IF DriveAt("submit") THEN drive.answer ELSE <<>>

Releasing == IF call.step = "persist" THEN call.body ELSE <<>>

InDrive == IF DriveAt("effect") THEN drive.answer ELSE <<>>

InCall == IF call.step = "effect" THEN call.body ELSE <<>>

(* A drive and a request carry one event at most, a turn is one that the   *)
(* drive may take, and evidence names a criterion of the contract.         *)
DriveOK ==
  /\ drive.answer \in Seq(HandedIn(task.criteria)) /\ Len(drive.answer) <= 1
  /\ DriveAt("effect") => Len(drive.answer) = 1
  /\ drive.step \in {"submit", "effect", "check"} => drive.turn < TurnsPerPickup

CallOK ==
  /\ call.body \in Seq(HandedIn(task.criteria)) /\ Len(call.body) <= 1
  /\ call.step = "none" => call = NoCall
  /\ call.step # "none" => Len(call.body) = 1

HeldOK == held \in Seq(HandedIn(task.criteria))

WellFormed == SandboxTypeOK /\ DriveOK /\ CallOK /\ HeldOK

(* What is counted, and where.                                             *)
Counted == {e \in RoomEvent : e.type \in ResponseType \cup {"evidence_submission"}}

Total(e) ==
  Occurrences(e, stream) + Occurrences(e, held) + Occurrences(e, Releasing)
    + Occurrences(e, Answering)

Unsettled(e) == Occurrences(e, stream) - Occurrences(e, InDrive) - Occurrences(e, InCall)

AnswersCounted == \A e \in Counted : Total(e) <= 1 + hasty

(* As long as a criterion is open, all evidence for it that is in the      *)
(* stream is about to take effect, or a hasty turn or a restart stands for *)
(* it.                                                                     *)
EvidenceCounted ==
  \A e \in Counted :
    e.type = "evidence_submission" /\ e.about \notin evidenced => Unsettled(e) <= hasty

SandboxInv == WellFormed /\ AnswersCounted /\ EvidenceCounted

-----------------------------------------------------------------------------
(* Every step keeps the form.                                              *)

(* A sequence of at most one element.                                      *)
LEMMA ShortSequence ==
  ASSUME NEW S, NEW s \in Seq(S), Len(s) <= 1
  PROVE  s = <<>> \/ (Len(s) = 1 /\ s[1] \in S /\ s = <<s[1]>> /\ DOMAIN s = {1})
  <1>1. CASE Len(s) = 0
    BY <1>1
  <1>2. CASE Len(s) = 1
    <2>1. s[1] \in S /\ DOMAIN s = {1}
      BY <1>2
    <2>2. s = <<s[1]>>
      BY <1>2, <2>1, SeqEqual
    <2> QED
      BY <1>2, <2>1, <2>2
  <1>3. Len(s) = 0 \/ Len(s) = 1
    <2> DEFINE n == Len(s)
    <2>1. n \in Nat /\ n <= 1
      OBVIOUS
    <2> HIDE DEF n
    <2>2. n = 0 \/ n = 1
      BY <2>1
    <2> QED
      BY <2>2 DEF n
  <1> QED
    BY <1>1, <1>2, <1>3, Zenon

(* What is handed in is an event of the room, and so is what the platform  *)
(* says, which is not counted.                                             *)
LEMMA EventsOfTheRoom ==
  /\ \A n : HandedIn(n) \subseteq RoomEvent
  /\ \A n, s : s \in Seq(HandedIn(n)) => s \in Seq(RoomEvent)
  /\ \A type \in Notice : Say(type) \in RoomEvent /\ Say(type) \notin Counted
  <1>1. \A n : HandedIn(n) \subseteq RoomEvent
    BY DEF HandedIn, AgentEvent, RoomEvent
  <1>2. \A type \in Notice : Say(type) \in RoomEvent /\ Say(type) \notin Counted
    BY DEF Say, Body, RoomEvent, Notice, Counted, ResponseType
  <1> QED
    BY <1>1, <1>2, SeqMonotonic

(* Policy allows what is handed in, denies it, or asks a human.            *)
LEMMA DecisionOf ==
  ASSUME SandboxTypeOK, NEW n, NEW b \in HandedIn(n)
  PROVE  Decision(b) \in {"allow", "deny", "require_approval"}
  BY DEF Decision, SandboxTypeOK, HandedIn, AgentEvent, Engine!Decision

(* The rooms of the templates.                                             *)
LEMMA InitIsWellFormed == SandboxInit => WellFormed
  <1> SUFFICES ASSUME SandboxInit
               PROVE  WellFormed
    OBVIOUS
  <1>1. \A t \in ROOM_TEMPLATES : t.criteria \in 1..3
    BY DEF ROOM_TEMPLATES, cloud_migration, vendor_security_review, compliance_evidence,
           incident_remediation, blank
  <1>2. \A policy, contract : Verdicts(policy, contract) \in [AgentType -> Engine!Decision]
    BY VerdictIsDecision DEF Verdicts
  <1>3. task.criteria \in 1..3 /\ task.verdict \in [Role -> [AgentType -> Engine!Decision]]
    <2>1. PICK t \in Chosen :
            \E customers \in EditedPolicies(TemplatePolicy(t)),
               providers \in EditedPolicies(MirroredPolicy(ContractOf(t))) :
              task = [criteria |-> t.criteria,
                      verdict  |-> [customer |-> Verdicts(customers, ContractOf(t)),
                                    provider |-> Verdicts(providers, ContractOf(t))]]
      BY DEF SandboxInit
    <2>2. PICK p, q :
            task = [criteria |-> t.criteria,
                    verdict  |-> [customer |-> Verdicts(p, ContractOf(t)),
                                  provider |-> Verdicts(q, ContractOf(t))]]
      BY <2>1
    <2>3. t \in ROOM_TEMPLATES
      BY SandboxAssumption
    <2> QED
      BY <1>1, <1>2, <2>2, <2>3 DEF Role
  <1>4. /\ NoDrive \in Drive
        /\ NoCall \in [step : {"none", "persist", "effect"}, body : Seq(RoomEvent)]
    BY SandboxAssumption DEF NoDrive, Drive, NoCall
  <1>5. SandboxTypeOK
    <2>1. /\ room = "ACTIVE" /\ turns = 0 /\ stream = <<>> /\ evidenced = {} /\ held = <<>>
          /\ call = NoCall /\ drive = NoDrive /\ quiesced = -1
          /\ incidents = 0 /\ hasty = 0 /\ lost = FALSE
      BY DEF SandboxInit
    <2>2. <<>> \in Seq(RoomEvent) /\ MaxTurns \in Nat /\ MaxIncidents \in Nat
      BY SandboxAssumption
    <2>3. /\ drive \in Drive
          /\ call \in [step : {"none", "persist", "effect"}, body : Seq(RoomEvent)]
          /\ stream \in Seq(RoomEvent) /\ held \in Seq(RoomEvent)
          /\ lost \in BOOLEAN /\ evidenced \subseteq 1..task.criteria
      BY <1>4, <2>1, <2>2, Zenon
    <2>4. turns \in 0..MaxTurns /\ incidents \in 0..MaxIncidents /\ hasty \in Nat
          /\ quiesced \in Nat \cup {-1}
      BY <2>1, <2>2
    <2> QED
      BY <1>3, <2>1, <2>3, <2>4 DEF SandboxTypeOK
  <1> QED
    BY <1>5 DEF SandboxInit, WellFormed, DriveOK, CallOK, HeldOK, NoDrive, NoCall, DriveAt

(* The poll, /step, and the look back after a turn move the drive alone.   *)
LEMMA DriveStepsKeepForm ==
  ASSUME WellFormed, Scan \/ RunOnce \/ Check \/ Finish
  PROVE  WellFormed'
  <1>1. /\ UNCHANGED <<task, room, turns, stream, evidenced, held, call, hasty>>
        /\ incidents' \in 0..MaxIncidents /\ quiesced' \in Nat \cup {-1} /\ lost' \in BOOLEAN
    <2>1. UNCHANGED <<task, room, turns, stream, evidenced, held, call, hasty>>
      BY DEF Scan, RunOnce, Check, Finish
    <2>2. incidents' \in 0..MaxIncidents
      BY SandboxAssumption
         DEF Scan, RunOnce, Check, Finish, Incident, Overlap, WellFormed, SandboxTypeOK
    <2>3. quiesced' \in Nat \cup {-1}
      BY DEF Scan, RunOnce, Check, Finish, WellFormed, SandboxTypeOK
    <2>4. lost' \in BOOLEAN
      BY DEF Scan, RunOnce, Check, Finish, WellFormed, SandboxTypeOK
    <2> QED
      BY <2>1, <2>2, <2>3, <2>4
  <1>2. drive' \in Drive /\ DriveOK'
    <2>1. CASE Scan \/ RunOnce
      BY <1>1, <2>1 DEF Scan, RunOnce, DriveTo, DriveAt, Drive, WellFormed, SandboxTypeOK, DriveOK
    <2>2. CASE Check
      <3> DEFINE idle == IF Len(stream) = drive.before THEN drive.idle + 1 ELSE 0
      <3>1. \/ drive' = [drive EXCEPT !.step = "finish"]
            \/ idle < 2 /\ drive' = [drive EXCEPT !.step = "turn", !.idle = idle,
                                                 !.turn = drive.turn + 1]
        <4>1. idle \in Nat
          BY DEF WellFormed, SandboxTypeOK, Drive
        <4>2. drive' = IF held # <<>> \/ idle >= 2
                       THEN [drive EXCEPT !.step = "finish"]
                       ELSE [drive EXCEPT !.step = "turn", !.idle = idle, !.turn = drive.turn + 1]
          BY <2>2 DEF Check
        <4> HIDE DEF idle
        <4> QED
          BY <4>1, <4>2
      <3>2. idle \in Nat /\ drive.turn \in 0..TurnsPerPickup /\ drive.turn < TurnsPerPickup
        BY <2>2 DEF Check, DriveAt, Drive, WellFormed, SandboxTypeOK, DriveOK
      <3> HIDE DEF idle
      <3>3. drive' \in Drive
        <4>1. drive \in Drive
          BY DEF WellFormed, SandboxTypeOK
        <4>2. CASE drive' = [drive EXCEPT !.step = "finish"]
          BY <4>1, <4>2 DEF Drive
        <4>3. CASE /\ idle < 2
                   /\ drive' = [drive EXCEPT !.step = "turn", !.idle = idle,
                                              !.turn = drive.turn + 1]
          <5>1. idle \in 0..2 /\ drive.turn + 1 \in 0..TurnsPerPickup
            BY <3>2, <4>3, SandboxAssumption
          <5> QED
            BY <4>1, <4>3, <5>1 DEF Drive
        <4> QED
          BY <3>1, <4>2, <4>3
      <3>4. drive'.answer = drive.answer /\ drive'.step \in {"finish", "turn"}
        BY <3>1 DEF Drive, WellFormed, SandboxTypeOK
      <3> QED
        BY <1>1, <3>3, <3>4 DEF DriveOK, DriveAt, WellFormed
    <2>3. CASE Finish
      BY <1>1, <2>3, SandboxAssumption
         DEF Finish, NoDrive, DriveAt, Drive, WellFormed, SandboxTypeOK, DriveOK
    <2> QED
      BY <2>1, <2>2, <2>3
  <1> QED
    BY <1>1, <1>2 DEF WellFormed, SandboxTypeOK, CallOK, HeldOK, NoCall

(* A turn that is taken: the answer comes from the participant.            *)
LEMMA RunTurnKeepsForm ==
  ASSUME WellFormed, RunTurn
  PROVE  WellFormed'
  <1> DEFINE role == nextParticipant(drive.last)
  <1>1. role \in Role
    BY DEF nextParticipant, Other, Role
  <1>2. /\ executeTurn(role) \in Seq(HandedIn(task.criteria))
        /\ Len(executeTurn(role)) <= 1
    <2>1. stream \in Seq(RoomEvent) /\ task.criteria \in 1..3
      BY DEF WellFormed, SandboxTypeOK
    <2>2. ASSUME NEW b \in AgentEvent, b.type = "evidence_submission" => b.about \in Unevidenced
          PROVE  b \in HandedIn(task.criteria)
      BY <2>2 DEF HandedIn, Unevidenced
    <2>3. CASE executeTurn(role) = <<>>
      BY <2>3
    <2>4. CASE executeTurn(role) # <<>>
      <3>1. PICK b \in AgentEvent :
              /\ executeTurn(role) = <<b>>
              /\ b.type = "evidence_submission" => b.about \in Unevidenced
        BY <1>1, <2>1, <2>4, AnswerIsOpen
      <3>2. b \in HandedIn(task.criteria)
        BY <2>2, <3>1
      <3> HIDE DEF role
      <3> QED
        BY <3>1, <3>2
    <2> QED
      BY <2>3, <2>4
  <1> HIDE DEF role
  <1>3. drive' = [drive EXCEPT !.step = "submit", !.last = role, !.answer = executeTurn(role),
                               !.before = Len(stream), !.seen = Len(stream)]
    BY DEF RunTurn, role
  <1>4. drive' \in Drive
    <2>1. Len(stream) \in Nat /\ executeTurn(role) \in Seq(RoomEvent)
      BY <1>2, EventsOfTheRoom DEF WellFormed, SandboxTypeOK
    <2> QED
      BY <1>1, <1>3, <2>1 DEF WellFormed, SandboxTypeOK, Drive
  <1>5. /\ drive'.answer = executeTurn(role) /\ drive'.step = "submit" /\ drive'.turn = drive.turn
        /\ drive.turn < TurnsPerPickup
    BY <1>3 DEF WellFormed, SandboxTypeOK, Drive, RunTurn
  <1>6. /\ UNCHANGED <<task, room, stream, evidenced, held, call, quiesced, incidents, lost>>
        /\ turns' \in 0..MaxTurns /\ hasty' \in Nat
    BY SandboxAssumption DEF RunTurn, WellFormed, SandboxTypeOK
  <1>7. DriveOK'
    BY <1>2, <1>5, <1>6 DEF DriveOK, DriveAt
  <1> QED
    BY <1>4, <1>6, <1>7 DEF WellFormed, SandboxTypeOK, CallOK, HeldOK, NoCall

(* What a submission writes, by the verdict of the policy.                 *)
LEMMA SubmittedWrites ==
  ASSUME WellFormed, NEW b \in HandedIn(task.criteria), Submitted(b)
  PROVE  /\ \/ Decision(b) = "allow" /\ stream' = Append(stream, b) /\ held' = held
            \/ Decision(b) = "deny" /\ stream' = Append(stream, Say("policy_block")) /\ held' = held
            \/ /\ Decision(b) = "require_approval"
               /\ stream' = Append(stream, Say("approval_request"))
               /\ held' = Append(held, b)
         /\ stream' \in Seq(RoomEvent) /\ Len(stream') >= Len(stream)
         /\ held' \in Seq(HandedIn(task.criteria))
  <1>1. Decision(b) \in {"allow", "deny", "require_approval"}
    BY DecisionOf DEF WellFormed
  <1>2. \/ Decision(b) = "allow" /\ stream' = Append(stream, b) /\ held' = held
        \/ Decision(b) = "deny" /\ stream' = Append(stream, Say("policy_block")) /\ held' = held
        \/ /\ Decision(b) = "require_approval"
           /\ stream' = Append(stream, Say("approval_request"))
           /\ held' = Append(held, b)
    BY <1>1 DEF Submitted
  <1>3. /\ b \in RoomEvent
        /\ Say("policy_block") \in RoomEvent /\ Say("approval_request") \in RoomEvent
        /\ stream \in Seq(RoomEvent) /\ held \in Seq(HandedIn(task.criteria))
    BY EventsOfTheRoom DEF WellFormed, SandboxTypeOK, HeldOK, Notice
  <1>4. \A e \in RoomEvent : Append(stream, e) \in Seq(RoomEvent)
                             /\ Len(Append(stream, e)) >= Len(stream)
    BY <1>3
  <1>5. Append(held, b) \in Seq(HandedIn(task.criteria))
    BY <1>3
  <1> QED
    BY <1>2, <1>3, <1>4, <1>5

(* What an event does to the room: evidence changes its criterion, and a   *)
(* notice may follow in the stream.                                        *)
LEMMA SideEffectsDo ==
  ASSUME WellFormed, NEW b \in HandedIn(task.criteria), SideEffects(b)
  PROVE  /\ evidenced' = IF b.type = "evidence_submission" THEN evidenced \cup {b.about}
                         ELSE evidenced
         /\ evidenced' \subseteq 1..task.criteria
         /\ \/ stream' = stream
            \/ stream' = Append(stream, Say("completion_rejection"))
         /\ stream' \in Seq(RoomEvent) /\ Len(stream') >= Len(stream)
         /\ room' \in {"ACTIVE", "PAUSED", "COMPLETION_PROPOSED"}
         /\ lost' \in BOOLEAN
  <1>1. evidenced' = IF b.type = "evidence_submission" THEN evidenced \cup {b.about} ELSE evidenced
    BY DEF SideEffects
  <1>2. evidenced' \subseteq 1..task.criteria
    BY <1>1 DEF WellFormed, SandboxTypeOK, HandedIn
  <1>3. stream' = stream \/ stream' = Append(stream, Say("completion_rejection"))
    BY DEF SideEffects
  <1>4. stream' \in Seq(RoomEvent) /\ Len(stream') >= Len(stream)
    <2>1. stream \in Seq(RoomEvent) /\ Say("completion_rejection") \in RoomEvent
      BY EventsOfTheRoom DEF WellFormed, SandboxTypeOK, Notice
    <2> QED
      BY <1>3, <2>1
  <1>5. room' \in {"ACTIVE", "PAUSED", "COMPLETION_PROPOSED"}
    BY DEF SideEffects, WellFormed, SandboxTypeOK
  <1>6. lost' \in BOOLEAN
    BY DEF SideEffects
  <1> QED
    BY <1>1, <1>2, <1>3, <1>4, <1>5, <1>6

(* A drive that wrote goes on in its turn.                                 *)
LEMMA WroteGoesOn ==
  ASSUME WellFormed, stream' \in Seq(RoomEvent), Len(stream') >= Len(stream),
         NEW step \in {"free", "turn", "submit", "effect", "check", "finish"},
         drive' = Wrote(step)
  PROVE  /\ drive' \in Drive
         /\ drive'.step = step /\ drive'.answer = drive.answer /\ drive'.turn = drive.turn
  <1>1. drive \in Drive /\ Len(stream) \in Nat /\ Len(stream') \in Nat
    BY DEF WellFormed, SandboxTypeOK
  <1>2. drive.seen + Len(stream') - Len(stream) \in Nat
    BY <1>1 DEF Drive
  <1>3. drive' = [drive EXCEPT !.step = step, !.seen = drive.seen + Len(stream') - Len(stream)]
    BY DEF Wrote
  <1> QED
    BY <1>1, <1>2, <1>3 DEF Drive

(* A turn that is refused, with the pause that may come with it.           *)
LEMMA RefuseTurnKeepsForm ==
  ASSUME WellFormed, RefuseTurn
  PROVE  WellFormed'
  <1>1. /\ UNCHANGED <<task, turns, evidenced, held, call, quiesced, incidents, hasty, lost>>
        /\ drive' = Wrote("finish")
    BY DEF RefuseTurn
  <1>2. \/ UNCHANGED <<room, stream>>
        \/ room' = "PAUSED" /\ stream' = Append(stream, Say("room_pause"))
    BY DEF RefuseTurn
  <1>3. /\ stream' \in Seq(RoomEvent) /\ Len(stream') >= Len(stream)
        /\ room' \in {"ACTIVE", "PAUSED", "COMPLETION_PROPOSED"}
    <2>1. stream \in Seq(RoomEvent) /\ Say("room_pause") \in RoomEvent
      BY EventsOfTheRoom DEF WellFormed, SandboxTypeOK, Notice
    <2>2. /\ Append(stream, Say("room_pause")) \in Seq(RoomEvent)
          /\ Len(Append(stream, Say("room_pause"))) >= Len(stream)
          /\ Len(stream) >= Len(stream)
      BY <2>1
    <2>3. stream' \in Seq(RoomEvent) /\ Len(stream') >= Len(stream)
      BY <1>2, <2>1, <2>2
    <2>4. room' \in {"ACTIVE", "PAUSED", "COMPLETION_PROPOSED"}
      BY <1>2 DEF WellFormed, SandboxTypeOK
    <2> QED
      BY <2>3, <2>4
  <1>4. drive' \in Drive /\ drive'.step = "finish" /\ drive'.answer = drive.answer
    BY <1>1, <1>3, WroteGoesOn
  <1> QED
    BY <1>1, <1>3, <1>4 DEF WellFormed, SandboxTypeOK, DriveOK, CallOK, HeldOK, NoCall, DriveAt

(* The answer of a turn, if there is one.                                  *)
LEMMA AnswerOfTurn ==
  ASSUME WellFormed, drive.answer # <<>>
  PROVE  /\ Len(drive.answer) = 1 /\ drive.answer = <<drive.answer[1]>>
         /\ drive.answer[1] \in HandedIn(task.criteria)
  BY ShortSequence DEF WellFormed, DriveOK

(* A submission hands the event to the stream or a human, or drops it.     *)
LEMMA SubmitKeepsForm ==
  ASSUME WellFormed, Submit
  PROVE  WellFormed'
  <1>1. UNCHANGED <<task, room, turns, evidenced, call, quiesced, incidents, hasty, lost>>
    BY DEF Submit
  <1>2. CASE drive.answer = <<>>
    <2>1. UNCHANGED <<stream, held>> /\ drive' = [drive EXCEPT !.step = "check"]
      BY <1>2 DEF Submit, DriveTo
    <2>2. drive' \in Drive /\ DriveOK'
      BY <1>1, <2>1 DEF Submit, DriveAt, Drive, WellFormed, SandboxTypeOK, DriveOK
    <2> QED
      BY <1>1, <2>1, <2>2 DEF WellFormed, SandboxTypeOK, CallOK, HeldOK, NoCall
  <1>3. CASE drive.answer # <<>>
    <2>1. Submitted(drive.answer[1]) /\ drive.answer[1] \in HandedIn(task.criteria)
      BY <1>3, AnswerOfTurn DEF Submit
    <2>2. /\ stream' \in Seq(RoomEvent) /\ Len(stream') >= Len(stream)
          /\ held' \in Seq(HandedIn(task.criteria))
      BY <2>1, SubmittedWrites
    <2>3. \E step \in {"effect", "check"} : drive' = Wrote(step)
      BY <1>3 DEF Submit
    <2>4. /\ drive' \in Drive /\ drive'.step \in {"effect", "check"}
          /\ drive'.answer = drive.answer /\ drive'.turn = drive.turn
      BY <2>2, <2>3, WroteGoesOn
    <2>5. DriveOK'
      BY <1>1, <1>3, <2>4, AnswerOfTurn DEF Submit, DriveOK, DriveAt, WellFormed
    <2>6. held' \in Seq(RoomEvent)
      BY <2>2, EventsOfTheRoom
    <2> QED
      BY <1>1, <2>2, <2>4, <2>5, <2>6 DEF WellFormed, SandboxTypeOK, CallOK, HeldOK, NoCall
  <1> QED
    BY <1>2, <1>3

(* The effect of what a drive has persisted.                               *)
LEMMA EffectKeepsForm ==
  ASSUME WellFormed, Effect
  PROVE  WellFormed'
  <1>1. /\ UNCHANGED <<task, turns, held, call, quiesced, incidents, hasty>>
        /\ drive' = Wrote("check") /\ SideEffects(drive.answer[1])
    BY DEF Effect
  <1>2. drive.answer # <<>>
    BY DEF Effect, WellFormed, DriveOK
  <1>3. drive.answer[1] \in HandedIn(task.criteria)
    BY <1>2, AnswerOfTurn
  <1>4. /\ evidenced' \subseteq 1..task.criteria
        /\ stream' \in Seq(RoomEvent) /\ Len(stream') >= Len(stream)
        /\ room' \in {"ACTIVE", "PAUSED", "COMPLETION_PROPOSED"}
        /\ lost' \in BOOLEAN
    BY <1>1, <1>3, SideEffectsDo
  <1>5. /\ drive' \in Drive /\ drive'.step = "check"
        /\ drive'.answer = drive.answer /\ drive'.turn = drive.turn
    BY <1>1, <1>4, WroteGoesOn
  <1>6. DriveOK'
    BY <1>1, <1>5 DEF Effect, DriveOK, DriveAt, WellFormed
  <1> QED
    BY <1>1, <1>4, <1>5, <1>6 DEF WellFormed, SandboxTypeOK, CallOK, HeldOK, NoCall

(* The body that a request carries, if there is one.                       *)
LEMMA BodyOfCall ==
  ASSUME WellFormed, call.step # "none"
  PROVE  call.body = <<call.body[1]>> /\ call.body[1] \in HandedIn(task.criteria)
  BY ShortSequence DEF WellFormed, CallOK

(* A claim: the request now carries the event that was held.               *)
LEMMA ApproveKeepsForm ==
  ASSUME WellFormed, NEW i \in DOMAIN held, Approve(i)
  PROVE  WellFormed'
  <1>1. /\ UNCHANGED <<task, room, turns, stream, evidenced, drive, quiesced, hasty, lost>>
        /\ incidents' \in 0..MaxIncidents
        /\ held' = RemoveAt(held, i) /\ call' = [step |-> "persist", body |-> <<held[i]>>]
    BY SandboxAssumption DEF Approve, Overlap, Incident, WellFormed, SandboxTypeOK
  <1>2. held' \in Seq(HandedIn(task.criteria)) /\ held[i] \in HandedIn(task.criteria)
    BY <1>1, OccurrencesRemove DEF WellFormed, HeldOK
  <1>3. held' \in Seq(RoomEvent) /\ held[i] \in RoomEvent
    BY <1>2, EventsOfTheRoom
  <1>4. /\ call' \in [step : {"none", "persist", "effect"}, body : Seq(RoomEvent)]
        /\ call'.step = "persist" /\ call'.body = <<held[i]>>
        /\ <<held[i]>> \in Seq(HandedIn(task.criteria)) /\ Len(<<held[i]>>) = 1
    BY <1>1, <1>2, <1>3
  <1>5. CallOK'
    BY <1>1, <1>4 DEF CallOK
  <1> QED
    BY <1>1, <1>2, <1>3, <1>4, <1>5 DEF WellFormed, SandboxTypeOK, DriveOK, HeldOK, DriveAt

(* The release of a claimed event.                                         *)
LEMMA ReleaseKeepsForm ==
  ASSUME WellFormed, Release
  PROVE  WellFormed'
  <1>1. /\ UNCHANGED <<task, room, turns, evidenced, held, drive, quiesced, incidents, hasty, lost>>
        /\ stream' = stream \o call.body \o <<Say("action_authorized")>>
        /\ call' = [call EXCEPT !.step = "effect"] /\ call.step = "persist"
    BY DEF Release
  <1>2. stream' \in Seq(RoomEvent)
    <2>1. /\ stream \in Seq(RoomEvent) /\ call.body \in Seq(RoomEvent)
          /\ <<Say("action_authorized")>> \in Seq(RoomEvent)
      BY EventsOfTheRoom DEF WellFormed, SandboxTypeOK, Notice
    <2> QED
      BY <1>1, <2>1
  <1>3. /\ call' \in [step : {"none", "persist", "effect"}, body : Seq(RoomEvent)]
        /\ call'.step = "effect" /\ call'.body = call.body
    BY <1>1 DEF WellFormed, SandboxTypeOK
  <1>4. CallOK'
    BY <1>1, <1>3 DEF CallOK, WellFormed
  <1> QED
    BY <1>1, <1>2, <1>3, <1>4 DEF WellFormed, SandboxTypeOK, DriveOK, HeldOK, DriveAt

(* The request that is answered leaves nothing behind.                     *)
LEMMA NoCallIsCall ==
  /\ NoCall \in [step : {"none", "persist", "effect"}, body : Seq(RoomEvent)]
  /\ NoCall.step = "none" /\ NoCall.body = <<>>
  /\ \A n : <<>> \in Seq(HandedIn(n))
  BY DEF NoCall

(* The effect of what a request has persisted.                             *)
LEMMA CallEffectKeepsForm ==
  ASSUME WellFormed, CallEffect
  PROVE  WellFormed'
  <1>1. /\ UNCHANGED <<task, turns, held, drive, quiesced, incidents, hasty>>
        /\ call' = NoCall /\ SideEffects(call.body[1])
    BY DEF CallEffect
  <1>2. call.body[1] \in HandedIn(task.criteria)
    BY BodyOfCall DEF CallEffect
  <1>3. /\ evidenced' \subseteq 1..task.criteria
        /\ stream' \in Seq(RoomEvent)
        /\ room' \in {"ACTIVE", "PAUSED", "COMPLETION_PROPOSED"}
        /\ lost' \in BOOLEAN
    BY <1>1, <1>2, SideEffectsDo
  <1>4. CallOK'
    BY <1>1, NoCallIsCall DEF CallOK
  <1> QED
    BY <1>1, <1>3, <1>4, NoCallIsCall DEF WellFormed, SandboxTypeOK, DriveOK, HeldOK, DriveAt

(* A rejection drops the event.                                            *)
LEMMA RejectKeepsForm ==
  ASSUME WellFormed, NEW i \in DOMAIN held, Reject(i)
  PROVE  WellFormed'
  <1>1. /\ UNCHANGED <<task, room, turns, evidenced, call, drive, quiesced, hasty, lost>>
        /\ incidents' \in 0..MaxIncidents
        /\ held' = RemoveAt(held, i) /\ stream' = Append(stream, Say("action_rejected"))
    BY SandboxAssumption DEF Reject, Incident, WellFormed, SandboxTypeOK
  <1>2. held' \in Seq(HandedIn(task.criteria))
    BY <1>1, OccurrencesRemove DEF WellFormed, HeldOK
  <1>3. held' \in Seq(RoomEvent)
    BY <1>2, EventsOfTheRoom
  <1>4. stream' \in Seq(RoomEvent)
    BY <1>1, EventsOfTheRoom DEF WellFormed, SandboxTypeOK, Notice
  <1> QED
    BY <1>1, <1>2, <1>3, <1>4
       DEF WellFormed, SandboxTypeOK, DriveOK, CallOK, HeldOK, NoCall, DriveAt

(* What a human posts is handed in like what an agent answers, and is      *)
(* neither an answer nor evidence.                                         *)
LEMMA PostedBody ==
  ASSUME WellFormed, NEW role \in Role, NEW type \in RequestType \cup {"completion_proposal"}
  PROVE  /\ Body(role, type, -1 - incidents) \in HandedIn(task.criteria)
         /\ Body(role, type, -1 - incidents) \notin Counted
  BY DEF WellFormed, SandboxTypeOK, Body, HandedIn, AgentEvent, AgentType, RequestType,
         Counted, ResponseType

(* A post of a human, held or on its way to its effect.                    *)
LEMMA PostKeepsForm ==
  ASSUME WellFormed, NEW role \in Role, NEW type \in RequestType \cup {"completion_proposal"},
         Post(role, type)
  PROVE  WellFormed'
  <1> DEFINE body == Body(role, type, -1 - incidents)
  <1>1. /\ UNCHANGED <<task, room, turns, evidenced, drive, quiesced, hasty, lost>>
        /\ incidents' \in 0..MaxIncidents
        /\ Submitted(body)
        /\ call' = NoCall \/ call' = [step |-> "effect", body |-> <<body>>]
    BY SandboxAssumption DEF Post, Incident, WellFormed, SandboxTypeOK
  <1>2. body \in HandedIn(task.criteria) /\ body \in RoomEvent
    BY PostedBody, EventsOfTheRoom
  <1> HIDE DEF body
  <1>3. /\ stream' \in Seq(RoomEvent)
        /\ held' \in Seq(HandedIn(task.criteria)) /\ held' \in Seq(RoomEvent)
    BY <1>1, <1>2, SubmittedWrites, EventsOfTheRoom
  <1>4. /\ call' \in [step : {"none", "persist", "effect"}, body : Seq(RoomEvent)]
        /\ CallOK'
    <2>1. CASE call' = NoCall
      BY <1>1, <2>1, NoCallIsCall DEF CallOK
    <2>2. CASE call' = [step |-> "effect", body |-> <<body>>]
      <3>1. /\ <<body>> \in Seq(HandedIn(task.criteria)) /\ <<body>> \in Seq(RoomEvent)
            /\ Len(<<body>>) = 1
        BY <1>2
      <3>2. call'.step = "effect" /\ call'.body = <<body>>
        BY <2>2
      <3> QED
        BY <1>1, <2>2, <3>1, <3>2 DEF CallOK
    <2> QED
      BY <1>1, <2>1, <2>2
  <1> QED
    BY <1>1, <1>3, <1>4 DEF WellFormed, SandboxTypeOK, DriveOK, HeldOK, DriveAt

(* A pause, a resume, and an approval that lapses.                         *)
LEMMA DisturbKeepsForm ==
  ASSUME WellFormed, Disturb
  PROVE  WellFormed'
  <1>1. /\ UNCHANGED <<task, turns, stream, evidenced, call, drive, quiesced, hasty>>
        /\ incidents' \in 0..MaxIncidents /\ lost' = TRUE
    BY SandboxAssumption DEF Disturb, Incident, WellFormed, SandboxTypeOK
  <1>2. room' \in {"ACTIVE", "PAUSED", "COMPLETION_PROPOSED"}
    BY DEF Disturb, WellFormed, SandboxTypeOK
  <1>3. held' \in Seq(HandedIn(task.criteria))
    BY OccurrencesTail DEF Disturb, WellFormed, HeldOK
  <1>4. held' \in Seq(RoomEvent)
    BY <1>3, EventsOfTheRoom
  <1> QED
    BY <1>1, <1>2, <1>3, <1>4
       DEF WellFormed, SandboxTypeOK, DriveOK, CallOK, HeldOK, NoCall, DriveAt

(* A restart leaves neither a drive nor a request.                         *)
LEMMA RestartKeepsForm ==
  ASSUME WellFormed, Restart
  PROVE  WellFormed'
  <1>1. /\ UNCHANGED <<task, room, turns, stream, evidenced, held>>
        /\ incidents' \in 0..MaxIncidents
        /\ drive' = NoDrive /\ call' = NoCall /\ quiesced' = -1
    BY SandboxAssumption DEF Restart, Incident, WellFormed, SandboxTypeOK
  <1>2. lost' \in BOOLEAN
    BY DEF Restart, WellFormed, SandboxTypeOK
  <1>3. /\ IsFiniteSet({i \in DOMAIN Interrupted : Interrupted[i].type = "evidence_submission"})
        /\ Cardinality({i \in DOMAIN Interrupted :
                          Interrupted[i].type = "evidence_submission"}) \in Nat
    <2>1. Interrupted \in Seq(RoomEvent)
      <3>1. /\ drive.answer \in Seq(RoomEvent) /\ call.body \in Seq(RoomEvent)
            /\ <<>> \in Seq(RoomEvent)
        BY EventsOfTheRoom DEF WellFormed, SandboxTypeOK, DriveOK
      <3> QED
        BY <3>1, ConcatProperties DEF Interrupted
    <2>2. IsFiniteSet(1..Len(Interrupted)) /\ DOMAIN Interrupted = 1..Len(Interrupted)
      BY <2>1, FS_Interval
    <2>3. {i \in DOMAIN Interrupted : Interrupted[i].type = "evidence_submission"}
             \in SUBSET (1..Len(Interrupted))
      BY <2>2
    <2> QED
      BY <2>2, <2>3, FS_Subset, FS_CardinalityType
  <1>4. hasty' \in Nat
    BY <1>3 DEF Restart, WellFormed, SandboxTypeOK
  <1>5. drive' \in Drive /\ DriveOK'
    BY <1>1, NoCallIsCall, SandboxAssumption DEF DriveOK, NoDrive, Drive, DriveAt
  <1>6. CallOK'
    BY <1>1, NoCallIsCall DEF CallOK
  <1> QED
    BY <1>1, <1>2, <1>4, <1>5, <1>6, NoCallIsCall DEF WellFormed, SandboxTypeOK, HeldOK

(* Every step keeps the form.                                              *)
LEMMA StepKeepsForm == WellFormed /\ [SandboxNext]_sandboxVars => WellFormed'
  <1> SUFFICES ASSUME WellFormed, [SandboxNext]_sandboxVars
               PROVE  WellFormed'
    OBVIOUS
  <1>1. CASE Scan \/ RunOnce \/ Check \/ Finish
    BY <1>1, DriveStepsKeepForm
  <1>2. CASE RunTurn \/ RefuseTurn \/ Submit \/ Effect
    BY <1>2, RunTurnKeepsForm, RefuseTurnKeepsForm, SubmitKeepsForm, EffectKeepsForm
  <1>3. ASSUME NEW i \in DOMAIN held, Approve(i) \/ Reject(i)
        PROVE  WellFormed'
    BY <1>3, ApproveKeepsForm, RejectKeepsForm
  <1>4. CASE Release \/ CallEffect \/ Disturb \/ Restart
    BY <1>4, ReleaseKeepsForm, CallEffectKeepsForm, DisturbKeepsForm, RestartKeepsForm
  <1>5. ASSUME NEW role \in Role, NEW type \in RequestType \cup {"completion_proposal"},
               Post(role, type)
        PROVE  WellFormed'
    BY <1>5, PostKeepsForm
  <1>6. CASE UNCHANGED sandboxVars
    BY <1>6 DEF sandboxVars, WellFormed, SandboxTypeOK, DriveOK, CallOK, HeldOK, NoCall, DriveAt
  <1> QED
    BY <1>1, <1>2, <1>3, <1>4, <1>5, <1>6 DEF SandboxNext, DriveNext

-----------------------------------------------------------------------------
(* Every step keeps the counts.                                            *)

(* Neither is an answer in more places than before, nor is evidence for an *)
(* open criterion in the stream that was not and has no effect to come.    *)
Kept(e) ==
  /\ Total(e)' <= Total(e)
  /\ e.type = "evidence_submission" =>
       e.about \in evidenced' \/ Unsettled(e)' <= Unsettled(e)

(* Every count is a natural number: the sequences are finite.              *)
LEMMA CountsAreNat ==
  ASSUME WellFormed, NEW e
  PROVE  /\ Occurrences(e, stream) \in Nat /\ Occurrences(e, held) \in Nat
         /\ Occurrences(e, Releasing) \in Nat /\ Occurrences(e, Answering) \in Nat
         /\ Occurrences(e, InDrive) \in Nat /\ Occurrences(e, InCall) \in Nat
  <1>1. stream \in Seq(RoomEvent) /\ held \in Seq(RoomEvent)
    BY DEF WellFormed, SandboxTypeOK
  <1>2. /\ Releasing \in Seq(RoomEvent) /\ InCall \in Seq(RoomEvent)
        /\ Answering \in Seq(RoomEvent) /\ InDrive \in Seq(RoomEvent)
    <2>1. drive.answer \in Seq(RoomEvent) /\ call.body \in Seq(RoomEvent) /\ <<>> \in Seq(RoomEvent)
      BY DEF WellFormed, SandboxTypeOK, Drive
    <2> QED
      BY <2>1 DEF Releasing, InCall, Answering, InDrive
  <1> QED
    BY <1>1, <1>2, OccurrencesFinite

(* So every count is a number, in this state and in the next.              *)
LEMMA CountsAreInt ==
  /\ WellFormed => \A e : Total(e) \in Int /\ Unsettled(e) \in Int
  /\ WellFormed' => \A e : Total(e)' \in Int /\ Unsettled(e)' \in Int
  <1>1. WellFormed => \A e : Total(e) \in Int /\ Unsettled(e) \in Int
    BY CountsAreNat DEF Total, Unsettled
  <1>2. (WellFormed => \A e : Total(e) \in Int /\ Unsettled(e) \in Int)'
    BY <1>1, PTL
  <1> QED
    BY <1>1, <1>2

(* A notice is not counted.                                                *)
LEMMA NoticeNotCounted ==
  ASSUME WellFormed, NEW type \in Notice, NEW e \in Counted
  PROVE  Occurrences(e, Append(stream, Say(type))) = Occurrences(e, stream)
  <1>1. stream \in Seq(RoomEvent) /\ Say(type) \in RoomEvent /\ Say(type) # e
    BY EventsOfTheRoom DEF WellFormed, SandboxTypeOK
  <1>2. Occurrences(e, Append(stream, Say(type)))
          = Occurrences(e, stream) + (IF Say(type) = e THEN 1 ELSE 0)
    BY <1>1, OccurrencesAppend
  <1> QED
    BY <1>1, <1>2, CountsAreNat

(* A drive that neither submits nor makes an effect, before the step and   *)
(* after it.                                                               *)
LEMMA QuietDriveKeepsCounts ==
  ASSUME WellFormed, Scan \/ RunOnce \/ Check \/ Finish \/ RefuseTurn,
         NEW e \in Counted
  PROVE  Kept(e)
  <1>1. held' = held /\ call' = call
    BY DEF Scan, RunOnce, Check, Finish, RefuseTurn
  <1>2. drive.step \notin {"submit", "effect"} /\ drive'.step \notin {"submit", "effect"}
    <2>1. drive.step \notin {"submit", "effect"}
      BY DEF Scan, RunOnce, Check, Finish, RefuseTurn, DriveAt
    <2>2. drive \in Drive
      BY DEF WellFormed, SandboxTypeOK
    <2>3. CASE Scan \/ RunOnce
      BY <2>1, <2>2, <2>3 DEF Scan, RunOnce, DriveTo, Drive
    <2>4. CASE Check
      BY <2>1, <2>2, <2>4 DEF Check, Drive
    <2>5. CASE Finish
      BY <2>1, <2>5 DEF Finish, NoDrive
    <2>6. CASE RefuseTurn
      BY <2>1, <2>2, <2>6 DEF RefuseTurn, Wrote, Drive
    <2> QED
      BY <2>3, <2>4, <2>5, <2>6
  <1>3. Occurrences(e, stream') = Occurrences(e, stream)
    <2>1. stream' = stream \/ stream' = Append(stream, Say("room_pause"))
      BY DEF Scan, RunOnce, Check, Finish, RefuseTurn
    <2>2. "room_pause" \in Notice
      BY DEF Notice
    <2>3. Occurrences(e, Append(stream, Say("room_pause"))) = Occurrences(e, stream)
      BY <2>2, NoticeNotCounted
    <2> QED
      BY <2>1, <2>3, Zenon
  <1>4. /\ Answering' = <<>> /\ Answering = <<>> /\ InDrive' = <<>> /\ InDrive = <<>>
        /\ Releasing' = Releasing /\ InCall' = InCall
    BY <1>1, <1>2 DEF Answering, InDrive, Releasing, InCall, DriveAt
  <1>5. Total(e)' = Total(e) /\ Unsettled(e)' = Unsettled(e)
    BY <1>1, <1>3, <1>4, Zenon DEF Total, Unsettled
  <1> QED
    BY <1>5, CountsAreNat DEF Kept, Total, Unsettled

(* What is submitted leaves the drive for the stream, or for the humans.   *)
LEMMA SubmitKeepsCounts ==
  ASSUME WellFormed, Submit, NEW e \in Counted
  PROVE  Kept(e)
  <1>1. /\ Releasing' = Releasing /\ InCall' = InCall /\ drive \in Drive
        /\ Answering = drive.answer /\ InDrive = <<>>
    BY DEF Submit, Releasing, InCall, Answering, InDrive, DriveAt, WellFormed, SandboxTypeOK
  <1>2. CASE drive.answer = <<>>
    <2>1. stream' = stream /\ held' = held /\ drive'.step = "check"
      BY <1>1, <1>2 DEF Submit, DriveTo, Drive
    <2>2. Answering' = <<>> /\ InDrive' = <<>>
      BY <2>1 DEF Answering, InDrive, DriveAt
    <2>3. Total(e)' = Total(e) /\ Unsettled(e)' = Unsettled(e)
      BY <1>1, <1>2, <2>1, <2>2, Zenon DEF Total, Unsettled
    <2> QED
      BY <2>3, CountsAreNat DEF Kept, Total, Unsettled
  <1>3. CASE drive.answer # <<>>
    <2> DEFINE b == drive.answer[1]
    <2>1. b \in HandedIn(task.criteria) /\ drive.answer = <<b>> /\ Submitted(b)
      BY <1>3, AnswerOfTurn DEF Submit
    <2>2. drive' = Wrote(IF Decision(b) = "allow" THEN "effect" ELSE "check")
      BY <1>3 DEF Submit
    <2> HIDE DEF b
    <2>3. stream' \in Seq(RoomEvent) /\ Len(stream') >= Len(stream)
      BY <2>1, SubmittedWrites
    <2>4. /\ drive'.step = IF Decision(b) = "allow" THEN "effect" ELSE "check"
          /\ drive'.answer = drive.answer
      BY <2>2, <2>3, WroteGoesOn
    <2>5. /\ Answering' = <<>>
          /\ InDrive' = IF Decision(b) = "allow" THEN <<b>> ELSE <<>>
      BY <2>1, <2>4 DEF Answering, InDrive, DriveAt
    <2>6. b \in RoomEvent /\ stream \in Seq(RoomEvent) /\ held \in Seq(RoomEvent)
      BY <2>1, EventsOfTheRoom DEF WellFormed, SandboxTypeOK
    <2> DEFINE n == IF b = e THEN 1 ELSE 0
    <2>7. Occurrences(e, <<b>>) = n /\ Occurrences(e, <<>>) = 0
      BY OccurrencesInShort
    <2>8. /\ Occurrences(e, Answering) = n /\ Occurrences(e, Answering') = 0
          /\ Occurrences(e, InDrive) = 0
      BY <1>1, <2>1, <2>5, <2>7, Zenon
    <2>9. CASE Decision(b) = "allow"
      <3>1. stream' = Append(stream, b) /\ held' = held
        BY <2>1, <2>9, SubmittedWrites
      <3>2. Occurrences(e, stream') = Occurrences(e, stream) + n
        BY <2>6, <3>1, OccurrencesAppend
      <3>3. Occurrences(e, InDrive') = n
        BY <2>5, <2>7, <2>9
      <3> QED
        BY <1>1, <2>8, <3>1, <3>2, <3>3, CountsAreNat DEF Kept, Total, Unsettled
    <2>10. CASE Decision(b) = "deny"
      <3>1. stream' = Append(stream, Say("policy_block")) /\ held' = held
        BY <2>1, <2>10, SubmittedWrites
      <3>2. Occurrences(e, stream') = Occurrences(e, stream)
        BY <3>1, NoticeNotCounted DEF Notice
      <3>3. Occurrences(e, InDrive') = 0
        BY <2>5, <2>7, <2>10
      <3> QED
        BY <1>1, <2>8, <3>1, <3>2, <3>3, CountsAreNat DEF Kept, Total, Unsettled
    <2>11. CASE Decision(b) = "require_approval"
      <3>1. stream' = Append(stream, Say("approval_request")) /\ held' = Append(held, b)
        BY <2>1, <2>11, SubmittedWrites
      <3>2. Occurrences(e, stream') = Occurrences(e, stream)
        BY <3>1, NoticeNotCounted DEF Notice
      <3>3. Occurrences(e, held') = Occurrences(e, held) + n
        BY <2>6, <3>1, OccurrencesAppend
      <3>4. Occurrences(e, InDrive') = 0
        BY <2>5, <2>7, <2>11
      <3> QED
        BY <1>1, <2>8, <3>2, <3>3, <3>4, CountsAreNat DEF Kept, Total, Unsettled
    <2> QED
      BY <2>1, <2>9, <2>10, <2>11, SubmittedWrites
  <1> QED
    BY <1>2, <1>3

(* An effect closes the criterion of the evidence, and adds no more than a *)
(* notice.                                                                 *)
LEMMA EffectOnCounts ==
  ASSUME WellFormed, NEW b \in HandedIn(task.criteria), SideEffects(b), NEW e \in Counted
  PROVE  /\ Occurrences(e, stream') = Occurrences(e, stream)
         /\ e.type = "evidence_submission" /\ b = e => e.about \in evidenced'
  <1>1. Occurrences(e, stream') = Occurrences(e, stream)
    <2>1. stream' = stream \/ stream' = Append(stream, Say("completion_rejection"))
      BY SideEffectsDo
    <2>2. "completion_rejection" \in Notice
      BY DEF Notice
    <2>3. Occurrences(e, Append(stream, Say("completion_rejection"))) = Occurrences(e, stream)
      BY <2>2, NoticeNotCounted
    <2> QED
      BY <2>1, <2>3, Zenon
  <1>2. ASSUME b.type = "evidence_submission"
        PROVE  b.about \in evidenced'
    BY <1>2, SideEffectsDo
  <1> QED
    BY <1>1, <1>2

(* The effect of a drive.                                                  *)
LEMMA EffectKeepsCounts ==
  ASSUME WellFormed, Effect, NEW e \in Counted
  PROVE  Kept(e)
  <1> DEFINE b == drive.answer[1]
             n == IF b = e THEN 1 ELSE 0
  <1>1. b \in HandedIn(task.criteria) /\ drive.answer = <<b>> /\ SideEffects(b)
    BY AnswerOfTurn DEF Effect, WellFormed, DriveOK
  <1>2. held' = held /\ Releasing' = Releasing /\ InCall' = InCall
    BY DEF Effect, Releasing, InCall
  <1> HIDE DEF b
  <1>3. stream' \in Seq(RoomEvent) /\ Len(stream') >= Len(stream)
    BY <1>1, SideEffectsDo
  <1>4. drive'.step = "check"
    BY <1>3, WroteGoesOn DEF Effect
  <1>5. Answering = <<>> /\ Answering' = <<>> /\ InDrive = <<b>> /\ InDrive' = <<>>
    BY <1>1, <1>4 DEF Effect, Answering, InDrive, DriveAt
  <1>6. /\ Occurrences(e, Answering) = 0 /\ Occurrences(e, Answering') = 0
        /\ Occurrences(e, InDrive) = n /\ Occurrences(e, InDrive') = 0
    BY <1>5, OccurrencesInShort, Zenon
  <1> QED
    BY <1>1, <1>2, <1>6, EffectOnCounts, CountsAreNat DEF Kept, Total, Unsettled

(* A claim takes an event from the held to the request.                    *)
LEMMA ApproveKeepsCounts ==
  ASSUME WellFormed, NEW i \in DOMAIN held, Approve(i), NEW e \in Counted
  PROVE  Kept(e)
  <1> DEFINE n == IF held[i] = e THEN 1 ELSE 0
  <1>1. /\ stream' = stream /\ drive' = drive /\ evidenced' = evidenced /\ call = NoCall
        /\ held' = RemoveAt(held, i)
        /\ call' = [step |-> "persist", body |-> <<held[i]>>]
    BY DEF Approve
  <1>2. /\ Answering' = Answering /\ InDrive' = InDrive
        /\ Releasing = <<>> /\ InCall = <<>>
        /\ Releasing' = <<held[i]>> /\ InCall' = <<>>
    BY <1>1 DEF Answering, InDrive, Releasing, InCall, NoCall, DriveAt
  <1>3. Occurrences(e, held) = Occurrences(e, RemoveAt(held, i)) + n
    BY OccurrencesRemove DEF WellFormed, HeldOK
  <1>4. Occurrences(e, held) = Occurrences(e, held') + n
    BY <1>1, <1>3, Zenon
  <1>5. /\ Occurrences(e, Releasing) = 0 /\ Occurrences(e, Releasing') = n
        /\ Occurrences(e, InCall) = 0 /\ Occurrences(e, InCall') = 0
    BY <1>2, OccurrencesInShort, Zenon
  <1>6. Occurrences(e, held') \in Nat
    BY ApproveKeepsForm, OccurrencesFinite DEF WellFormed, HeldOK
  <1>7. /\ Occurrences(e, stream') = Occurrences(e, stream)
        /\ Occurrences(e, Answering') = Occurrences(e, Answering)
        /\ Occurrences(e, InDrive') = Occurrences(e, InDrive)
    BY <1>1, <1>2, Zenon
  <1> QED
    BY <1>4, <1>5, <1>6, <1>7, CountsAreNat DEF Kept, Total, Unsettled

(* A release takes it from the request to the stream.                      *)
LEMMA ReleaseKeepsCounts ==
  ASSUME WellFormed, Release, NEW e \in Counted
  PROVE  Kept(e)
  <1> DEFINE b == call.body[1]
             n == IF b = e THEN 1 ELSE 0
             m == Say("action_authorized")
  <1>1. call.body = <<b>> /\ b \in HandedIn(task.criteria)
    BY BodyOfCall DEF Release
  <1>2. /\ drive' = drive /\ held' = held /\ evidenced' = evidenced
        /\ call.step = "persist" /\ call'.step = "effect" /\ call'.body = call.body
        /\ stream' = stream \o call.body \o <<m>>
    BY DEF Release, WellFormed, SandboxTypeOK
  <1> HIDE DEF b
  <1>3. /\ Answering' = Answering /\ InDrive' = InDrive
        /\ Releasing = <<b>> /\ InCall = <<>>
        /\ Releasing' = <<>> /\ InCall' = <<b>>
    BY <1>1, <1>2 DEF Answering, InDrive, Releasing, InCall, DriveAt
  <1>4. Occurrences(e, stream') = Occurrences(e, stream) + n
    <2>1. /\ stream \in Seq(RoomEvent) /\ b \in RoomEvent /\ m \in RoomEvent /\ m # e
          /\ <<b>> \in Seq(RoomEvent) /\ <<m>> \in Seq(RoomEvent)
          /\ stream \o <<b>> \in Seq(RoomEvent)
      BY <1>1, EventsOfTheRoom DEF WellFormed, SandboxTypeOK, Notice
    <2> HIDE DEF m
    <2>2. Occurrences(e, (stream \o <<b>>) \o <<m>>)
            = Occurrences(e, stream \o <<b>>) + Occurrences(e, <<m>>)
      BY <2>1, OccurrencesConcat
    <2>3. Occurrences(e, stream \o <<b>>) = Occurrences(e, stream) + Occurrences(e, <<b>>)
      BY <2>1, OccurrencesConcat
    <2>4. Occurrences(e, <<m>>) = 0 /\ Occurrences(e, <<b>>) = n
      BY <2>1, OccurrencesInShort, Zenon
    <2>5. Occurrences(e, stream') = Occurrences(e, (stream \o <<b>>) \o <<m>>)
      BY <1>1, <1>2, Zenon
    <2>6. Occurrences(e, stream) \in Nat
      BY CountsAreNat
    <2> QED
      BY <2>2, <2>3, <2>4, <2>5, <2>6
  <1>5. /\ Occurrences(e, Releasing) = n /\ Occurrences(e, Releasing') = 0
        /\ Occurrences(e, InCall) = 0 /\ Occurrences(e, InCall') = n
    BY <1>3, OccurrencesInShort, Zenon
  <1>6. /\ Occurrences(e, held') = Occurrences(e, held)
        /\ Occurrences(e, Answering') = Occurrences(e, Answering)
        /\ Occurrences(e, InDrive') = Occurrences(e, InDrive)
    BY <1>2, <1>3, Zenon
  <1> QED
    BY <1>4, <1>5, <1>6, CountsAreNat DEF Kept, Total, Unsettled

(* The effect of a request.                                                *)
LEMMA CallEffectKeepsCounts ==
  ASSUME WellFormed, CallEffect, NEW e \in Counted
  PROVE  Kept(e)
  <1> DEFINE b == call.body[1]
             n == IF b = e THEN 1 ELSE 0
  <1>1. call.body = <<b>> /\ b \in HandedIn(task.criteria) /\ SideEffects(b)
    BY BodyOfCall DEF CallEffect
  <1>2. held' = held /\ drive' = drive /\ call.step = "effect" /\ call' = NoCall
    BY DEF CallEffect
  <1> HIDE DEF b
  <1>3. /\ Answering' = Answering /\ InDrive' = InDrive
        /\ Releasing = <<>> /\ InCall = <<b>>
        /\ Releasing' = <<>> /\ InCall' = <<>>
    BY <1>1, <1>2, NoCallIsCall DEF Answering, InDrive, Releasing, InCall, DriveAt
  <1>4. /\ Occurrences(e, Releasing) = 0 /\ Occurrences(e, Releasing') = 0
        /\ Occurrences(e, InCall) = n /\ Occurrences(e, InCall') = 0
    BY <1>3, OccurrencesInShort, Zenon
  <1>5. /\ Occurrences(e, held') = Occurrences(e, held)
        /\ Occurrences(e, Answering') = Occurrences(e, Answering)
        /\ Occurrences(e, InDrive') = Occurrences(e, InDrive)
    BY <1>2, <1>3, Zenon
  <1> QED
    BY <1>1, <1>4, <1>5, EffectOnCounts, CountsAreNat DEF Kept, Total, Unsettled

(* What is rejected or lapses is gone, and a human posts nothing that is   *)
(* counted.  A rejection.                                                  *)
LEMMA RejectKeepsCounts ==
  ASSUME WellFormed, NEW i \in DOMAIN held, Reject(i), NEW e \in Counted
  PROVE  Kept(e)
  <1>1. /\ drive' = drive /\ call' = call /\ evidenced' = evidenced
        /\ held' = RemoveAt(held, i) /\ stream' = Append(stream, Say("action_rejected"))
    BY DEF Reject
  <1>2. /\ Answering' = Answering /\ InDrive' = InDrive
        /\ Releasing' = Releasing /\ InCall' = InCall
    BY <1>1 DEF Answering, InDrive, Releasing, InCall, DriveAt
  <1>3. Occurrences(e, stream') = Occurrences(e, stream)
    BY <1>1, NoticeNotCounted DEF Notice
  <1>4. Occurrences(e, held) = Occurrences(e, held') + (IF held[i] = e THEN 1 ELSE 0)
    BY <1>1, OccurrencesRemove DEF WellFormed, HeldOK
  <1>5. Occurrences(e, held') \in Nat
    BY RejectKeepsForm, OccurrencesFinite DEF WellFormed, HeldOK
  <1>6. Occurrences(e, held') <= Occurrences(e, held)
    BY <1>4, <1>5
  <1>7. /\ Occurrences(e, Answering') = Occurrences(e, Answering)
        /\ Occurrences(e, InDrive') = Occurrences(e, InDrive)
        /\ Occurrences(e, Releasing') = Occurrences(e, Releasing)
        /\ Occurrences(e, InCall') = Occurrences(e, InCall)
    BY <1>2, Zenon
  <1> QED
    BY <1>3, <1>5, <1>6, <1>7, CountsAreNat DEF Kept, Total, Unsettled

(* A post.                                                                 *)
LEMMA PostKeepsCounts ==
  ASSUME WellFormed, NEW role \in Role, NEW type \in RequestType \cup {"completion_proposal"},
         Post(role, type), NEW e \in Counted
  PROVE  Kept(e)
  <1> DEFINE b == Body(role, type, -1 - incidents)
  <1>1. /\ drive' = drive /\ evidenced' = evidenced /\ call = NoCall /\ Submitted(b)
        /\ call' = NoCall \/ call' = [step |-> "effect", body |-> <<b>>]
    BY DEF Post
  <1>2. b \in HandedIn(task.criteria) /\ b # e
    BY PostedBody
  <1> HIDE DEF b
  <1>3. /\ Answering' = Answering /\ InDrive' = InDrive
        /\ Releasing = <<>> /\ InCall = <<>>
        /\ Releasing' = <<>> /\ InCall' \in {<<>>, <<b>>}
    BY <1>1, NoCallIsCall DEF Answering, InDrive, Releasing, InCall, DriveAt
  <1>4. /\ Occurrences(e, Releasing) = 0 /\ Occurrences(e, Releasing') = 0
        /\ Occurrences(e, InCall) = 0 /\ Occurrences(e, InCall') = 0
    <2>1. Occurrences(e, <<>>) = 0 /\ Occurrences(e, <<b>>) = 0
      BY <1>2, OccurrencesInShort
    <2>2. InCall' = <<>> \/ InCall' = <<b>>
      BY <1>3
    <2> QED
      BY <1>3, <2>1, <2>2, Zenon
  <1>5. /\ Occurrences(e, stream') = Occurrences(e, stream)
        /\ Occurrences(e, held') = Occurrences(e, held)
    <2>1. b \in RoomEvent /\ stream \in Seq(RoomEvent) /\ held \in Seq(RoomEvent)
      BY <1>2, EventsOfTheRoom DEF WellFormed, SandboxTypeOK
    <2>2. /\ Occurrences(e, Append(stream, b)) = Occurrences(e, stream) + (IF b = e THEN 1 ELSE 0)
          /\ Occurrences(e, Append(held, b)) = Occurrences(e, held) + (IF b = e THEN 1 ELSE 0)
      BY <2>1, OccurrencesAppend
    <2>3. /\ Occurrences(e, Append(stream, b)) = Occurrences(e, stream)
          /\ Occurrences(e, Append(held, b)) = Occurrences(e, held)
      BY <1>2, <2>2, CountsAreNat
    <2>4. /\ Occurrences(e, Append(stream, Say("policy_block"))) = Occurrences(e, stream)
          /\ Occurrences(e, Append(stream, Say("approval_request"))) = Occurrences(e, stream)
      BY NoticeNotCounted DEF Notice
    <2>5. /\ \/ stream' = Append(stream, b)
             \/ stream' = Append(stream, Say("policy_block"))
             \/ stream' = Append(stream, Say("approval_request"))
          /\ held' = held \/ held' = Append(held, b)
      BY <1>1, <1>2, SubmittedWrites, Zenon
    <2> QED
      BY <2>3, <2>4, <2>5, Zenon
  <1>6. /\ Occurrences(e, Answering') = Occurrences(e, Answering)
        /\ Occurrences(e, InDrive') = Occurrences(e, InDrive)
    BY <1>3, Zenon
  <1> QED
    BY <1>4, <1>5, <1>6, CountsAreNat DEF Kept, Total, Unsettled

(* A pause, a resume, and an approval that lapses.                         *)
LEMMA DisturbKeepsCounts ==
  ASSUME WellFormed, Disturb, NEW e \in Counted
  PROVE  Kept(e)
  <1>1. /\ drive' = drive /\ call' = call /\ evidenced' = evidenced /\ stream' = stream
        /\ held' = held \/ (held # <<>> /\ held' = Tail(held))
    BY DEF Disturb
  <1>2. /\ Answering' = Answering /\ InDrive' = InDrive
        /\ Releasing' = Releasing /\ InCall' = InCall
    BY <1>1 DEF Answering, InDrive, Releasing, InCall, DriveAt
  <1>3. Occurrences(e, held') \in Nat /\ Occurrences(e, held') <= Occurrences(e, held)
    <2>1. Occurrences(e, held') \in Nat
      BY DisturbKeepsForm, OccurrencesFinite DEF WellFormed, HeldOK
    <2>2. CASE held' = held
      <3>1. Occurrences(e, held') = Occurrences(e, held)
        BY <2>2, Zenon
      <3> QED
        BY <2>1, <3>1
    <2>3. CASE held # <<>> /\ held' = Tail(held)
      <3>1. Occurrences(e, Tail(held)) <= Occurrences(e, held)
        BY <2>3, OccurrencesTail DEF WellFormed, HeldOK
      <3>2. Occurrences(e, held') <= Occurrences(e, held)
        BY <2>3, <3>1, Zenon
      <3> QED
        BY <2>1, <3>2
    <2> QED
      BY <1>1, <2>2, <2>3
  <1>4. /\ Occurrences(e, Answering') = Occurrences(e, Answering)
        /\ Occurrences(e, InDrive') = Occurrences(e, InDrive)
        /\ Occurrences(e, Releasing') = Occurrences(e, Releasing)
        /\ Occurrences(e, InCall') = Occurrences(e, InCall)
        /\ Occurrences(e, stream') = Occurrences(e, stream)
    BY <1>1, <1>2, Zenon
  <1> QED
    BY <1>3, <1>4, CountsAreNat DEF Kept, Total, Unsettled

(* Where no event is counted in more places, the counts stay in bounds.    *)
LEMMA KeptKeepsCounts ==
  ASSUME WellFormed, WellFormed', AnswersCounted, EvidenceCounted,
         \A e \in Counted : Kept(e), hasty' = hasty, evidenced \subseteq evidenced'
  PROVE  AnswersCounted' /\ EvidenceCounted'
  <1>1. hasty \in Nat
    BY DEF WellFormed, SandboxTypeOK
  <1>2. ASSUME NEW e \in Counted
        PROVE  Total(e)' <= 1 + hasty'
    <2>1. Total(e)' <= Total(e) /\ Total(e) <= 1 + hasty
      BY <1>2 DEF Kept, AnswersCounted
    <2>2. Total(e)' \in Int /\ Total(e) \in Int
      BY CountsAreInt
    <2> QED
      BY <1>1, <2>1, <2>2
  <1>3. ASSUME NEW e \in Counted, e.type = "evidence_submission", e.about \notin evidenced'
        PROVE  Unsettled(e)' <= hasty'
    <2>1. Unsettled(e)' <= Unsettled(e) /\ Unsettled(e) <= hasty
      BY <1>3 DEF Kept, EvidenceCounted
    <2>2. Unsettled(e)' \in Int /\ Unsettled(e) \in Int
      BY CountsAreInt
    <2> QED
      BY <1>1, <2>1, <2>2
  <1> QED
    BY <1>2, <1>3 DEF AnswersCounted, EvidenceCounted

(* A turn that begins adds one event to what was handed in.  It is hasty,  *)
(* or nothing is held or on its way, and then the stream, which is all the *)
(* agent sees, has all there is: no answer to the request, and no evidence *)
(* for the criterion that is not accounted for.                            *)
LEMMA RunTurnKeepsCounts ==
  ASSUME WellFormed, WellFormed', AnswersCounted, EvidenceCounted, RunTurn
  PROVE  AnswersCounted' /\ EvidenceCounted'
  <1> DEFINE role == nextParticipant(drive.last)
             waiting == held # <<>> \/ call # NoCall
  <1>1. role \in Role
    BY DEF nextParticipant, Other, Role
  <1>2. /\ drive.step = "turn" /\ drive'.step = "submit" /\ drive'.answer = executeTurn(role)
        /\ stream' = stream /\ held' = held /\ call' = call /\ evidenced' = evidenced
        /\ hasty' = hasty + (IF waiting THEN 1 ELSE 0)
    BY DEF RunTurn, DriveAt, WellFormed, SandboxTypeOK, Drive
  <1>3. \/ executeTurn(role) = <<>>
        \/ \E b \in AgentEvent :
             /\ executeTurn(role) = <<b>>
             /\ b.type \in ResponseType => b.about \notin Answered
             /\ b.type = "evidence_submission" => b.about \in Unevidenced
    BY <1>1, AnswerIsOpen DEF WellFormed, SandboxTypeOK
  <1>4. hasty \in Nat /\ hasty' \in Nat
    BY DEF WellFormed, SandboxTypeOK
  <1> HIDE DEF role
  <1>5. /\ Answering = <<>> /\ InDrive = <<>> /\ InDrive' = <<>>
        /\ Answering' = executeTurn(role)
        /\ Releasing' = Releasing /\ InCall' = InCall
    BY <1>2 DEF Answering, InDrive, Releasing, InCall, DriveAt
  <1>6. ASSUME NEW e \in Counted
        PROVE  /\ Occurrences(e, stream') = Occurrences(e, stream)
               /\ Occurrences(e, held') = Occurrences(e, held)
               /\ Occurrences(e, Releasing') = Occurrences(e, Releasing)
               /\ Occurrences(e, InCall') = Occurrences(e, InCall)
               /\ Occurrences(e, InDrive') = 0 /\ Occurrences(e, InDrive) = 0
               /\ Occurrences(e, Answering) = 0
               /\ Occurrences(e, Answering') = Occurrences(e, executeTurn(role))
    BY <1>2, <1>5, OccurrencesInShort, Zenon
  <1>7. ASSUME NEW e \in Counted
        PROVE  Occurrences(e, executeTurn(role)) \in {0, 1}
    <2>1. CASE executeTurn(role) = <<>>
      BY <2>1, OccurrencesInShort
    <2>2. ASSUME NEW b, executeTurn(role) = <<b>>
          PROVE  Occurrences(e, executeTurn(role)) \in {0, 1}
      <3>1. Occurrences(e, <<b>>) = 0 \/ Occurrences(e, <<b>>) = 1
        BY OccurrencesInShort
      <3> QED
        BY <2>2, <3>1, Zenon
    <2> QED
      BY <1>3, <2>1, <2>2
  <1>8. ASSUME NEW e \in Counted, ~waiting
        PROVE  Occurrences(e, stream) + Occurrences(e, executeTurn(role)) <= 1 + hasty
    <2>1. Occurrences(e, stream) \in Nat /\ Occurrences(e, stream) <= 1 + hasty
      <3>1. Total(e) <= 1 + hasty
        BY <1>8 DEF AnswersCounted
      <3> QED
        BY <1>4, <3>1, CountsAreNat DEF Total
    <2>2. CASE Occurrences(e, executeTurn(role)) = 0
      BY <1>4, <2>1, <2>2
    <2>3. CASE Occurrences(e, executeTurn(role)) = 1
      <3>1. PICK b \in AgentEvent :
              /\ executeTurn(role) = <<b>>
              /\ b.type \in ResponseType => b.about \notin Answered
              /\ b.type = "evidence_submission" => b.about \in Unevidenced
        <4>1. executeTurn(role) # <<>>
          <5>1. ASSUME executeTurn(role) = <<>>
                PROVE  Occurrences(e, executeTurn(role)) = 0
            BY <5>1, OccurrencesInShort, Zenon
          <5> QED
            BY <2>3, <5>1
        <4> QED
          BY <1>3, <4>1, Zenon
      <3>2. b = e
        <4>1. Occurrences(e, <<b>>) = 1
          BY <2>3, <3>1, Zenon
        <4> QED
          BY <4>1, OccurrencesInShort
      <3>3. CASE e.type \in ResponseType
        <4>1. e.about \notin Answered
          BY <3>1, <3>2, <3>3
        <4>2. {i \in DOMAIN stream : stream[i] = e} = {}
          BY <3>3, <4>1 DEF Answered
        <4>3. Occurrences(e, stream) = 0
          BY <4>2, FS_EmptySet, Zenon DEF Occurrences
        <4> QED
          BY <1>4, <2>3, <4>3
      <3>4. CASE e.type = "evidence_submission"
        <4>1. e.about \notin evidenced
          BY <3>1, <3>2, <3>4 DEF Unevidenced
        <4>2. Unsettled(e) <= hasty
          BY <1>8, <3>4, <4>1 DEF EvidenceCounted
        <4>3. InCall = <<>>
          BY <1>8, NoCallIsCall DEF InCall
        <4>4. Occurrences(e, InCall) = 0
          BY <4>3, OccurrencesInShort, Zenon
        <4>5. Occurrences(e, stream) <= hasty
          BY <1>4, <1>6, <2>1, <4>2, <4>4 DEF Unsettled
        <4> QED
          BY <1>4, <2>1, <2>3, <4>5
      <3> QED
        BY <1>8, <3>3, <3>4 DEF Counted
    <2> QED
      BY <1>7, <1>8, <2>2, <2>3
  <1>9. ASSUME NEW e \in Counted
        PROVE  Total(e)' <= 1 + hasty'
    <2> DEFINE n == Occurrences(e, executeTurn(role))
    <2>1. n \in {0, 1}
      BY <1>7, <1>9
    <2>2. Total(e)' = Total(e) + n /\ Total(e) \in Int
      BY <1>6, <1>9, <2>1, CountsAreNat DEF Total
    <2>3. Total(e) <= 1 + hasty
      BY <1>9 DEF AnswersCounted
    <2>4. CASE waiting
      <3>1. hasty' = hasty + 1
        BY <1>2, <2>4
      <3> QED
        BY <1>4, <2>1, <2>2, <2>3, <3>1
    <2>5. CASE ~waiting
      <3>1. hasty' = hasty
        BY <1>2, <1>4, <2>5
      <3>2. Releasing = <<>> /\ held = <<>>
        BY <2>5, NoCallIsCall DEF Releasing
      <3>3. Occurrences(e, Releasing) = 0 /\ Occurrences(e, held) = 0
        BY <3>2, OccurrencesInShort, Zenon
      <3>4. Occurrences(e, stream) + n <= 1 + hasty
        BY <1>8, <1>9, <2>5
      <3>5. Total(e) = Occurrences(e, stream)
        BY <1>6, <1>9, <3>3, CountsAreNat DEF Total
      <3> QED
        BY <2>2, <3>1, <3>4, <3>5, Zenon
    <2> QED
      BY <2>4, <2>5
  <1>10. ASSUME NEW e \in Counted, e.type = "evidence_submission", e.about \notin evidenced'
         PROVE  Unsettled(e)' <= hasty'
    <2>1. Unsettled(e) <= hasty
      BY <1>2, <1>10 DEF EvidenceCounted
    <2>2. Unsettled(e)' = Unsettled(e) /\ Unsettled(e) \in Int
      BY <1>6, <1>10, CountsAreNat DEF Unsettled
    <2>3. hasty <= hasty'
      BY <1>2, <1>4
    <2> QED
      BY <1>4, <2>1, <2>2, <2>3
  <1> QED
    BY <1>9, <1>10 DEF AnswersCounted, EvidenceCounted

(* A restart drops what was answered and claimed, and every effect on the  *)
(* evidence that it loses is added to hasty.                               *)
LEMMA RestartKeepsCounts ==
  ASSUME WellFormed, WellFormed', AnswersCounted, EvidenceCounted, Restart
  PROVE  AnswersCounted' /\ EvidenceCounted'
  <1> DEFINE Lost == {i \in DOMAIN Interrupted : Interrupted[i].type = "evidence_submission"}
  <1>1. /\ stream' = stream /\ held' = held /\ evidenced' = evidenced
        /\ drive' = NoDrive /\ call' = NoCall /\ hasty' = hasty + Cardinality(Lost)
    BY DEF Restart
  <1>2. InDrive \in Seq(RoomEvent) /\ InCall \in Seq(RoomEvent)
    <2>1. drive.answer \in Seq(RoomEvent) /\ call.body \in Seq(RoomEvent) /\ <<>> \in Seq(RoomEvent)
      BY DEF WellFormed, SandboxTypeOK, Drive
    <2> QED
      BY <2>1 DEF InDrive, InCall
  <1>3. Interrupted = InDrive \o InCall
    BY DEF Interrupted, InDrive, InCall
  <1>4. Interrupted \in Seq(RoomEvent)
    <2>1. InDrive \o InCall \in Seq(RoomEvent)
      BY <1>2
    <2> QED
      BY <1>3, <2>1, Zenon
  <1>5. IsFiniteSet(Lost) /\ Cardinality(Lost) \in Nat
    <2>1. DOMAIN Interrupted = 1..Len(Interrupted) /\ Len(Interrupted) \in Int
      BY <1>4
    <2>2. IsFiniteSet(DOMAIN Interrupted)
      BY <2>1, FS_Interval
    <2>3. Lost \in SUBSET DOMAIN Interrupted
      OBVIOUS
    <2> QED
      BY <2>2, <2>3, FS_Subset, FS_CardinalityType
  <1> HIDE DEF Lost
  <1>6. hasty \in Nat /\ hasty' \in Nat
    BY DEF WellFormed, SandboxTypeOK
  <1>7. /\ Answering' = <<>> /\ InDrive' = <<>> /\ Releasing' = <<>> /\ InCall' = <<>>
    BY <1>1, NoCallIsCall DEF Answering, InDrive, Releasing, InCall, DriveAt, NoDrive
  <1>8. ASSUME NEW e \in Counted
        PROVE  /\ Occurrences(e, stream') = Occurrences(e, stream)
               /\ Occurrences(e, held') = Occurrences(e, held)
               /\ Occurrences(e, Answering') = 0 /\ Occurrences(e, InDrive') = 0
               /\ Occurrences(e, Releasing') = 0 /\ Occurrences(e, InCall') = 0
    BY <1>1, <1>7, OccurrencesInShort, Zenon
  <1>9. ASSUME NEW e \in Counted
        PROVE  Total(e)' <= 1 + hasty'
    <2>1. Total(e) <= 1 + hasty
      BY <1>9 DEF AnswersCounted
    <2>2. Total(e)' <= Total(e) /\ Total(e) \in Int /\ Total(e)' \in Int
      BY <1>8, <1>9, CountsAreNat DEF Total
    <2>3. hasty <= hasty'
      BY <1>1, <1>5, <1>6
    <2> QED
      BY <1>6, <2>1, <2>2, <2>3
  <1>10. ASSUME NEW e \in Counted, e.type = "evidence_submission", e.about \notin evidenced'
         PROVE  Unsettled(e)' <= hasty'
    <2>1. Unsettled(e) <= hasty
      BY <1>1, <1>10 DEF EvidenceCounted
    <2>2. Occurrences(e, InDrive) + Occurrences(e, InCall) <= Cardinality(Lost)
      <3>1. Occurrences(e, InDrive \o InCall) = Occurrences(e, InDrive) + Occurrences(e, InCall)
        BY <1>2, OccurrencesConcat
      <3>2. {i \in DOMAIN Interrupted : Interrupted[i] = e} \in SUBSET Lost
        BY <1>10 DEF Lost
      <3>3. Occurrences(e, Interrupted) <= Cardinality(Lost)
        BY <1>5, <3>2, FS_Subset DEF Occurrences
      <3>4. Occurrences(e, Interrupted) = Occurrences(e, InDrive \o InCall)
        BY <1>3, Zenon
      <3> QED
        BY <3>1, <3>3, <3>4, Zenon
    <2>3. Unsettled(e)' = Occurrences(e, stream)
      BY <1>8, <1>10, CountsAreNat DEF Unsettled
    <2>4. /\ Occurrences(e, stream) \in Nat /\ Occurrences(e, InDrive) \in Nat
          /\ Occurrences(e, InCall) \in Nat
      BY CountsAreNat
    <2>5. Unsettled(e) = Occurrences(e, stream) - Occurrences(e, InDrive) - Occurrences(e, InCall)
      BY DEF Unsettled
    <2> HIDE DEF Unsettled
    <2> QED
      BY <1>1, <1>5, <1>6, <2>1, <2>2, <2>3, <2>4, <2>5
  <1> QED
    BY <1>9, <1>10 DEF AnswersCounted, EvidenceCounted

-----------------------------------------------------------------------------
(* The theorems.                                                           *)

(* The step, for the counts.                                               *)
LEMMA StepKeepsCounts ==
  ASSUME SandboxInv, [SandboxNext]_sandboxVars
  PROVE  AnswersCounted' /\ EvidenceCounted'
  <1>1. /\ WellFormed /\ AnswersCounted /\ EvidenceCounted /\ WellFormed'
    BY StepKeepsForm DEF SandboxInv
  <1>2. CASE RunTurn
    BY <1>1, <1>2, RunTurnKeepsCounts
  <1>3. CASE Restart
    BY <1>1, <1>3, RestartKeepsCounts
  <1>4. CASE Scan \/ RunOnce \/ Check \/ Finish \/ RefuseTurn
    <2>1. hasty' = hasty /\ evidenced' = evidenced
      BY <1>4 DEF Scan, RunOnce, Check, Finish, RefuseTurn
    <2>2. \A e \in Counted : Kept(e)
      BY <1>1, <1>4, QuietDriveKeepsCounts
    <2> QED
      BY <1>1, <2>1, <2>2, KeptKeepsCounts
  <1>5. CASE Submit
    <2>1. hasty' = hasty /\ evidenced' = evidenced
      BY <1>5 DEF Submit
    <2>2. \A e \in Counted : Kept(e)
      BY <1>1, <1>5, SubmitKeepsCounts
    <2> QED
      BY <1>1, <2>1, <2>2, KeptKeepsCounts
  <1>6. CASE Effect \/ CallEffect
    <2>1. hasty' = hasty /\ evidenced \subseteq evidenced'
      BY <1>6 DEF Effect, CallEffect, SideEffects
    <2>2. \A e \in Counted : Kept(e)
      BY <1>1, <1>6, EffectKeepsCounts, CallEffectKeepsCounts
    <2> QED
      BY <1>1, <2>1, <2>2, KeptKeepsCounts
  <1>7. ASSUME NEW i \in DOMAIN held, Approve(i) \/ Reject(i)
        PROVE  AnswersCounted' /\ EvidenceCounted'
    <2>1. hasty' = hasty /\ evidenced' = evidenced
      BY <1>7 DEF Approve, Reject
    <2>2. \A e \in Counted : Kept(e)
      BY <1>1, <1>7, ApproveKeepsCounts, RejectKeepsCounts
    <2> QED
      BY <1>1, <2>1, <2>2, KeptKeepsCounts
  <1>8. CASE Release \/ Disturb
    <2>1. hasty' = hasty /\ evidenced' = evidenced
      BY <1>8 DEF Release, Disturb
    <2>2. \A e \in Counted : Kept(e)
      BY <1>1, <1>8, ReleaseKeepsCounts, DisturbKeepsCounts
    <2> QED
      BY <1>1, <2>1, <2>2, KeptKeepsCounts
  <1>9. ASSUME NEW role \in Role, NEW type \in RequestType \cup {"completion_proposal"},
               Post(role, type)
        PROVE  AnswersCounted' /\ EvidenceCounted'
    <2>1. hasty' = hasty /\ evidenced' = evidenced
      BY <1>9 DEF Post
    <2>2. \A e \in Counted : Kept(e)
      BY <1>1, <1>9, PostKeepsCounts
    <2> QED
      BY <1>1, <2>1, <2>2, KeptKeepsCounts
  <1>10. CASE UNCHANGED sandboxVars
    BY <1>1, <1>10
       DEF sandboxVars, AnswersCounted, EvidenceCounted, Total, Unsettled, Occurrences,
           Answering, Releasing, InDrive, InCall, DriveAt
  <1> QED
    BY <1>2, <1>3, <1>4, <1>5, <1>6, <1>7, <1>8, <1>9, <1>10 DEF SandboxNext, DriveNext

(* In a new room nothing is counted.                                       *)
LEMMA InitCounts == SandboxInit => AnswersCounted /\ EvidenceCounted
  <1> SUFFICES ASSUME SandboxInit
               PROVE  AnswersCounted /\ EvidenceCounted
    OBVIOUS
  <1>1. stream = <<>> /\ held = <<>> /\ call = NoCall /\ drive = NoDrive /\ hasty = 0
    BY DEF SandboxInit
  <1>2. Answering = <<>> /\ InDrive = <<>> /\ Releasing = <<>> /\ InCall = <<>>
    BY <1>1, NoCallIsCall DEF Answering, InDrive, Releasing, InCall, DriveAt, NoDrive
  <1>3. \A e : /\ Occurrences(e, stream) = 0 /\ Occurrences(e, held) = 0
               /\ Occurrences(e, Answering) = 0 /\ Occurrences(e, InDrive) = 0
               /\ Occurrences(e, Releasing) = 0 /\ Occurrences(e, InCall) = 0
    BY <1>1, <1>2, OccurrencesInShort, Zenon
  <1> QED
    BY <1>1, <1>3 DEF AnswersCounted, EvidenceCounted, Total, Unsettled

(* Type correctness, for every contract, template and setting of the       *)
(* policies: what is on its way is always of the kind that the next step   *)
(* of the pipeline takes.                                                  *)
THEOREM SandboxTypeCorrect == SandboxSpec => []SandboxTypeOK
  <1>1. SandboxInit => WellFormed
    BY InitIsWellFormed
  <1>2. WellFormed /\ [SandboxNext]_sandboxVars => WellFormed'
    BY StepKeepsForm
  <1>3. WellFormed => SandboxTypeOK
    BY DEF WellFormed
  <1> QED
    BY <1>1, <1>2, <1>3, PTL DEF SandboxSpec

(* The inductive invariant of the room with two sandbox agents.            *)
THEOREM SandboxInvariant == SandboxSpec => []SandboxInv
  <1>1. SandboxInit => SandboxInv
    BY InitIsWellFormed, InitCounts DEF SandboxInv
  <1>2. SandboxInv /\ [SandboxNext]_sandboxVars => SandboxInv'
    BY StepKeepsForm, StepKeepsCounts DEF SandboxInv
  <1> QED
    BY <1>1, <1>2, PTL DEF SandboxSpec

(* No request is answered twice and no criterion is evidenced twice, in    *)
(* the stream, among what humans hold and on the way from one to the       *)
(* other, but for the turns begun in haste and the effects lost in a       *)
(* restart; for every number of turns, window, template and policy.        *)
THEOREM NothingIsRepeated == SandboxSpec => []RepeatsBounded
  <1>1. SandboxInv => RepeatsBounded
    <2> SUFFICES ASSUME SandboxInv, NEW i \in DOMAIN Delivered,
                        Delivered[i].type \in ResponseType \cup {"evidence_submission"}
                 PROVE  Occurrences(Delivered[i], Delivered) <= 1 + hasty
      BY DEF RepeatsBounded
    <2>1. Delivered = stream \o held \o Releasing
      BY DEF Delivered, Releasing
    <2>2. /\ stream \in Seq(RoomEvent) /\ held \in Seq(RoomEvent) /\ Releasing \in Seq(RoomEvent)
          /\ WellFormed /\ hasty \in Nat
      <3>1. call.body \in Seq(RoomEvent) /\ <<>> \in Seq(RoomEvent)
        BY DEF SandboxInv, WellFormed, SandboxTypeOK
      <3> QED
        BY <3>1 DEF Releasing, SandboxInv, WellFormed, SandboxTypeOK
    <2>3. stream \o held \in Seq(RoomEvent) /\ stream \o held \o Releasing \in Seq(RoomEvent)
      BY <2>2, ConcatProperties
    <2>4. Delivered \in Seq(RoomEvent)
      BY <2>1, <2>3, Zenon
    <2> DEFINE e == Delivered[i]
    <2>5. e \in Counted
      BY <2>4 DEF Counted
    <2> HIDE DEF e
    <2>6. Occurrences(e, Delivered)
            = Occurrences(e, stream) + Occurrences(e, held) + Occurrences(e, Releasing)
      <3>1. Occurrences(e, (stream \o held) \o Releasing)
              = Occurrences(e, stream \o held) + Occurrences(e, Releasing)
        BY <2>2, <2>3, OccurrencesConcat
      <3>2. Occurrences(e, stream \o held) = Occurrences(e, stream) + Occurrences(e, held)
        BY <2>2, OccurrencesConcat
      <3>3. Occurrences(e, Delivered) = Occurrences(e, (stream \o held) \o Releasing)
        BY <2>1, Zenon
      <3> QED
        BY <3>1, <3>2, <3>3, Zenon
    <2>7. Total(e) <= 1 + hasty
      BY <2>5 DEF SandboxInv, AnswersCounted
    <2>8. Occurrences(e, Delivered) <= 1 + hasty
      BY <2>2, <2>6, <2>7, CountsAreNat DEF Total
    <2> QED
      BY <2>8 DEF e
  <1> QED
    BY <1>1, SandboxInvariant, PTL
=============================================================================
