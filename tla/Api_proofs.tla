----------------------------- MODULE Api_proofs -----------------------------
(***************************************************************************)
(* Proofs about what surrounds a request, for any number of requests and   *)
(* streams at the same time, any limits and any lifetimes.                 *)
(***************************************************************************)
EXTENDS Api, FiniteSetTheorems, TLAPS

-----------------------------------------------------------------------------
(* Filling up.                                                             *)

(* A bucket that is filled up stays a bucket, and one with a token left    *)
(* can give it away.                                                       *)
LEMMA RefilledType ==
  ASSUME bucket \in Bucket \cup {NoBucket}
  PROVE  LET b == Refilled(Current) IN
         b \in Bucket /\ (~Exhausted(b) => [b EXCEPT !.tokens = @ - 1] \in Bucket)
<1>1. Limit \in Nat /\ Window \in Nat \ {0} /\ PruneAfter \in Nat
  BY ApiAssumption
<1>2. Horizon \in Nat
  BY <1>1 DEF Horizon
<1>3. Current \in Bucket
  BY <1>1, <1>2 DEF Current, Bucket
<1>4. Refilled(Current) \in Bucket
  <2> DEFINE b == Current
             refill == (b.age \div Window) * Limit
  <2>1. b.age \in Nat /\ b.tokens \in 0..Limit /\ b \in Bucket
    BY <1>2, <1>3 DEF Bucket
  <2>2. b.age \div Window \in Int
    BY <1>1, <2>1
  <2>3. refill \in Int
    BY <1>1, <2>2
  <2>4. Refilled(b) = IF refill > 0 THEN [tokens |-> Least(Limit, b.tokens + refill), age |-> 0] ELSE b
    BY DEF Refilled
  <2> HIDE DEF refill, b
  <2>5. refill > 0 => Least(Limit, b.tokens + refill) \in 0..Limit
    BY <1>1, <2>1, <2>3 DEF Least
  <2>6. Refilled(b) \in Bucket
    BY <1>2, <2>1, <2>4, <2>5 DEF Bucket
  <2> QED
    BY <2>6 DEF b
<1> HIDE DEF Bucket
<1>5. ASSUME NEW b \in Bucket, ~Exhausted(b)
      PROVE  [b EXCEPT !.tokens = @ - 1] \in Bucket
  BY <1>1, <1>5 DEF Exhausted, Bucket
<1> QED
  BY <1>4, <1>5

(* Whether it lets the request through or not, the limit leaves a bucket   *)
(* and a history of counts.                                                *)
LEMMA LimitType ==
  ASSUME TypeOK, Admitted \/ Limited
  PROVE  bucket' \in Bucket \cup {NoBucket} /\ recent' \in [0..(Window - 1) -> Nat]
<1>1. bucket \in Bucket \cup {NoBucket} /\ recent \in [0..(Window - 1) -> Nat]
  BY DEF TypeOK
<1>2. CASE Admitted
  <2>3. recent' \in [0..(Window - 1) -> Nat]
    BY <1>1, <1>2 DEF Admitted
  <2>4. bucket' \in Bucket
    BY <1>1, <1>2, RefilledType DEF Admitted
  <2> QED
    BY <2>3, <2>4
<1>3. CASE Limited
  BY <1>1, <1>3, RefilledType DEF Limited
<1> QED
  BY <1>2, <1>3

-----------------------------------------------------------------------------
(* Counting.                                                               *)

(* The open streams are finitely many.                                     *)
LEMMA OpenIsFinite == IsFiniteSet(OpenStreams) /\ Cardinality(OpenStreams) \in Nat
<1>1. IsFiniteSet(OpenStreams)
  BY ApiAssumption, FS_Subset DEF OpenStreams
<1> QED
  BY <1>1, FS_CardinalityType

(* A step that opens no stream and closes none leaves the count true.      *)
LEMMA CountStays ==
  ASSUME StreamsCounted, counter' = counter, OpenStreams' = OpenStreams
  PROVE  counter' = Cardinality(OpenStreams') /\ counter' <= MaxStreams
  BY DEF StreamsCounted

(* Whoever ends a stream first frees its slot, and who comes later frees   *)
(* none.                                                                   *)
LEMMA CleanupCounts ==
  ASSUME NEW s \in Streams, StreamsCounted, Cleanup(s), OpenStreams' = OpenStreams \ {s}
  PROVE  counter' = Cardinality(OpenStreams') /\ counter' <= MaxStreams /\ counter' \in Nat
<1>1. /\ IsFiniteSet(OpenStreams) /\ Cardinality(OpenStreams) \in Nat
      /\ counter = Cardinality(OpenStreams) /\ counter <= MaxStreams /\ MaxStreams \in Nat
  BY OpenIsFinite, ApiAssumption DEF StreamsCounted
<1>2. CASE stream[s].open
  <2>1. s \in OpenStreams
    BY <1>2 DEF OpenStreams
  <2>2. /\ Cardinality(OpenStreams \ {s}) = Cardinality(OpenStreams) - 1
        /\ Cardinality(OpenStreams) # 0
    BY <1>1, <2>1, FS_RemoveElement, FS_EmptySet
  <2> QED
    BY <1>1, <1>2, <2>2 DEF Cleanup
<1>3. CASE ~stream[s].open
  <2>1. OpenStreams' = OpenStreams
    BY <1>3 DEF OpenStreams
  <2> QED
    BY <1>1, <1>3, <2>1 DEF Cleanup
<1> QED
  BY <1>2, <1>3

-----------------------------------------------------------------------------
(* The inductive invariant: its two halves, the hooks and the streams.     *)

HooksInv ==
  /\ answered \subseteq records
  /\ \A p \in Procs : req[p].late => req[p].key \in answered
  /\ AnsweredIsNotRepeated

StreamsInv ==
  /\ \A s \in Streams : stream[s].open => stream[s].step = "loop"
  /\ StreamsCounted

(* The hooks only look at the requests and the records.                    *)
LEMMA HooksStay ==
  ASSUME HooksInv, UNCHANGED <<records, answered, req>>
  PROVE  HooksInv'
  BY DEF HooksInv, AnsweredIsNotRepeated, At

(* The streams only look at the handlers and the counter.                  *)
LEMMA StreamsStay ==
  ASSUME StreamsInv, UNCHANGED <<stream, counter>>
  PROVE  StreamsInv'
  BY DEF StreamsInv, StreamsCounted, OpenStreams

(* A free slot is a slot, and nobody came late in it.                      *)
LEMMA IdleIsRequest == Idle \in Request /\ Idle.step = "idle" /\ Idle.late = FALSE
<1>1. Idle.key \in Keys
  BY ApiAssumption DEF Idle
<1> QED
  BY <1>1 DEF Idle, Request, Step

LEMMA InitHolds == Init => IInv
<1> SUFFICES ASSUME Init
             PROVE  IInv
  OBVIOUS
<1> USE DEF Init
<1>1. TypeOK
  <2>1. Limit \in Nat /\ Window \in Nat \ {0} /\ SessionLife \in Nat
    BY ApiAssumption
  <2>2. req \in [Procs -> Request]
    BY IdleIsRequest
  <2>3. stream \in [Streams -> Handler]
    BY DEF Ended, Handler
  <2> QED
    BY <2>1, <2>2, <2>3 DEF TypeOK
<1>2. OpenStreams = {}
  BY DEF OpenStreams, Ended
<1>3. StreamsCounted
  BY <1>2, FS_EmptySet, ApiAssumption DEF StreamsCounted, Ended
<1> QED
  BY <1>1, <1>3 DEF IInv, AnsweredIsNotRepeated, Idle, Ended

(* What a hook does to the requests, one step of one of them.              *)
LEMMA HookStep ==
  ASSUME req \in [Procs -> Request], HooksInv, NEW p \in Procs, NEW x \in Request,
         req' = [req EXCEPT ![p] = x],
         answered \subseteq answered', answered' \subseteq records',
         x.late => x.key \in answered /\ x.step \notin {"execute", "save"}
  PROVE  req' \in [Procs -> Request] /\ HooksInv'
<1>1. req' \in [Procs -> Request]
  OBVIOUS
<1>2. ASSUME NEW q \in Procs, req'[q].late
      PROVE  req'[q].key \in answered' /\ req'[q].step \notin {"execute", "save"}
  <2>1. CASE q = p
    BY <1>2, <2>1
  <2>2. CASE q # p
    BY <1>2, <2>2 DEF HooksInv, AnsweredIsNotRepeated, At
  <2> QED
    BY <2>1, <2>2
<1> QED
  BY <1>1, <1>2 DEF HooksInv, AnsweredIsNotRepeated, At

(* What happens to one handler, the counter with it.                       *)
LEMMA StreamStep ==
  ASSUME stream \in [Streams -> Handler], StreamsInv, NEW s \in Streams, NEW x \in Handler,
         stream' = [stream EXCEPT ![s] = x],
         x.open => x.step = "loop", x.step = "loop" /\ x.connected => x.open,
         counter' = Cardinality(OpenStreams') /\ counter' <= MaxStreams
  PROVE  stream' \in [Streams -> Handler] /\ StreamsInv'
<1>1. stream' \in [Streams -> Handler]
  OBVIOUS
<1>2. ASSUME NEW t \in Streams
      PROVE  /\ stream'[t].open => stream'[t].step = "loop"
             /\ stream'[t].step = "loop" /\ stream'[t].connected => stream'[t].open
  <2>1. CASE t = s
    BY <2>1
  <2>2. CASE t # s
    BY <2>2 DEF StreamsInv, StreamsCounted
  <2> QED
    BY <2>1, <2>2
<1> QED
  BY <1>1, <1>2 DEF StreamsInv, StreamsCounted

(* A handler that is not open, and is not after the step, leaves the count *)
(* as it is; one that closes leaves the others open.                       *)
LEMMA OpenAfter ==
  ASSUME stream \in [Streams -> Handler], NEW s \in Streams, NEW x \in Handler,
         stream' = [stream EXCEPT ![s] = x]
  PROVE  OpenStreams' = IF x.open THEN OpenStreams \cup {s} ELSE OpenStreams \ {s}
<1>1. \A t \in Streams : stream'[t] = IF t = s THEN x ELSE stream[t]
  OBVIOUS
<1>2. OpenStreams' = {t \in Streams : stream'[t].open}
  BY DEF OpenStreams
<1> QED
  BY <1>1, <1>2 DEF OpenStreams

(* Every step preserves the invariant: the request's, the stream's, and    *)
(* those that touch neither.                                               *)
LEMMA StepKeeps == IInv /\ [Next]_vars => IInv'
<1> SUFFICES ASSUME IInv, [Next]_vars
             PROVE  IInv'
  OBVIOUS
<1>0. TypeOK /\ HooksInv /\ StreamsInv
  BY DEF IInv, HooksInv, StreamsInv
<1>t. /\ session \in [Tokens -> 0..SessionLife] /\ bucket \in Bucket \cup {NoBucket}
      /\ recent \in [0..(Window - 1) -> Nat] /\ records \subseteq Keys /\ answered \subseteq Keys
      /\ req \in [Procs -> Request] /\ stream \in [Streams -> Handler] /\ counter \in Nat
  BY <1>0 DEF TypeOK
<1>c. Limit \in Nat /\ Window \in Nat \ {0} /\ PruneAfter \in Nat /\ SessionLife \in Nat \ {0}
  BY ApiAssumption
<1>q. TypeOK' /\ HooksInv' /\ StreamsInv' => IInv'
  BY DEF IInv, HooksInv, StreamsInv
<1>1. ASSUME NEW t \in Tokens, Login(t) \/ Logout(t)
      PROVE  IInv'
  <2>1. /\ session' \in [Tokens -> 0..SessionLife]
        /\ UNCHANGED <<bucket, recent, records, answered, req, stream, counter>>
    BY <1>c, <1>t, <1>1 DEF Login, Logout
  <2>2. TypeOK'
    BY <1>t, <2>1 DEF TypeOK
  <2> QED
    BY <1>0, <1>q, <2>1, <2>2, HooksStay, StreamsStay
<1>2. ASSUME NEW t \in Tokens, NEW p \in Procs, NEW k \in Keys, Arrive(p, t, k)
      PROVE  IInv'
  <2>1. bucket' \in Bucket \cup {NoBucket} /\ recent' \in [0..(Window - 1) -> Nat]
    BY <1>0, <1>2, LimitType DEF Arrive
  <2>2. UNCHANGED <<session, records, answered, stream, counter>>
    BY <1>2 DEF Arrive
  <2>3. req' \in [Procs -> Request] /\ HooksInv'
    <3>1. CASE UNCHANGED req
      BY <1>0, <1>t, <2>2, <3>1, HooksStay
    <3>2. CASE req' = [req EXCEPT ![p] = [step |-> "lookup", key |-> k, late |-> k \in answered]]
      <4> DEFINE x == [step |-> "lookup", key |-> k, late |-> k \in answered]
      <4>0. (k \in answered) \in BOOLEAN
        OBVIOUS
      <4>1. x \in Request /\ x.key = k /\ x.late = (k \in answered) /\ x.step = "lookup"
        BY <4>0 DEF Request, Step
      <4>2. answered \subseteq answered' /\ answered' \subseteq records'
        BY <1>0, <2>2 DEF HooksInv
      <4> HIDE DEF x
      <4>3. req' = [req EXCEPT ![p] = x]
        BY <3>2 DEF x
      <4> QED
        BY <1>0, <1>t, <4>1, <4>2, <4>3, HookStep
    <3> QED
      BY <1>2, <3>1, <3>2 DEF Arrive
  <2>4. TypeOK'
    BY <1>t, <2>1, <2>2, <2>3 DEF TypeOK
  <2> QED
    BY <1>0, <1>q, <2>2, <2>3, <2>4, StreamsStay
<1>3. ASSUME NEW p \in Procs, Lookup(p) \/ Execute(p) \/ Save(p)
      PROVE  IInv'
  <2>1. UNCHANGED <<session, bucket, recent, stream, counter>>
    BY <1>3 DEF Lookup, Execute, Save
  <2>2. /\ answered \subseteq answered' /\ answered' \subseteq records'
        /\ records' \subseteq Keys /\ answered' \subseteq Keys
    <3>1. req[p].key \in Keys
      BY <1>t DEF Request
    <3> QED
      BY <1>0, <1>3, <1>t, <3>1 DEF Lookup, Execute, Save, HooksInv
  <2>3. PICK x \in Request :
          /\ req' = [req EXCEPT ![p] = x]
          /\ x.late => x.key \in answered /\ x.step \notin {"execute", "save"}
    <3>1. CASE Done(p)
      BY <3>1, IdleIsRequest DEF Done
    <3>2. CASE At(p, "lookup") /\ req[p].key \notin records /\ Goto(p, "execute")
      <4> DEFINE x == [req[p] EXCEPT !.step = "execute"]
      <4>1. x \in Request /\ x.late = req[p].late
        BY <1>t DEF Request, Step
      <4>2. ~req[p].late
        BY <1>0, <3>2 DEF HooksInv
      <4>3. req' = [req EXCEPT ![p] = x]
        BY <1>t, <3>2 DEF Goto
      <4> QED
        BY <4>1, <4>2, <4>3
    <3>3. CASE At(p, "execute") /\ Goto(p, "save")
      <4> DEFINE x == [req[p] EXCEPT !.step = "save"]
      <4>1. x \in Request /\ x.late = req[p].late
        BY <1>t DEF Request, Step
      <4>2. ~req[p].late
        BY <1>0, <3>3 DEF HooksInv, AnsweredIsNotRepeated
      <4>3. req' = [req EXCEPT ![p] = x]
        BY <1>t, <3>3 DEF Goto
      <4> QED
        BY <4>1, <4>2, <4>3
    <3> QED
      BY <1>3, <3>1, <3>2, <3>3 DEF Lookup, Execute, Save
  <2>4. req' \in [Procs -> Request] /\ HooksInv'
    BY <1>0, <1>t, <2>2, <2>3, HookStep
  <2>5. TypeOK'
    BY <1>t, <2>1, <2>2, <2>4 DEF TypeOK
  <2> QED
    BY <1>0, <1>q, <2>1, <2>4, <2>5, StreamsStay
<1>4. ASSUME NEW s \in Streams, NEW t \in Tokens, RequestStream(s, t)
      PROVE  IInv'
  <2>1. bucket' \in Bucket \cup {NoBucket} /\ recent' \in [0..(Window - 1) -> Nat]
    BY <1>0, <1>4, LimitType DEF RequestStream
  <2>2. UNCHANGED <<session, records, answered, req, counter>>
    BY <1>4 DEF RequestStream
  <2>3. stream' \in [Streams -> Handler] /\ StreamsInv'
    <3>1. CASE UNCHANGED stream
      BY <1>0, <1>t, <2>2, <3>1, StreamsStay
    <3>2. CASE stream' = [stream EXCEPT ![s].step = "access", ![s].connected = TRUE]
      <4> DEFINE x == [stream[s] EXCEPT !.step = "access", !.connected = TRUE]
      <4>1. x \in Handler /\ x.step = "access" /\ x.open = stream[s].open
        BY <1>t DEF Handler
      <4>2. ~stream[s].open
        BY <1>0, <1>4 DEF RequestStream, StreamsInv
      <4>3. stream' = [stream EXCEPT ![s] = x]
        BY <1>t, <3>2
      <4> HIDE DEF x
      <4>4. OpenStreams' = OpenStreams
        BY <1>t, <4>1, <4>2, <4>3, OpenAfter DEF OpenStreams
      <4>5. counter' = Cardinality(OpenStreams') /\ counter' <= MaxStreams
        BY <1>0, <2>2, <4>4, CountStays DEF StreamsInv
      <4> QED
        BY <1>0, <1>t, <4>1, <4>2, <4>3, <4>5, StreamStep
    <3> QED
      BY <1>4, <3>1, <3>2 DEF RequestStream
  <2>4. TypeOK'
    BY <1>t, <2>1, <2>2, <2>3 DEF TypeOK
  <2> QED
    BY <1>0, <1>q, <2>2, <2>3, <2>4, HooksStay
<1>5. ASSUME NEW s \in Streams, OpenStream(s)
      PROVE  IInv'
  <2>1. UNCHANGED <<session, bucket, recent, records, answered, req>>
    BY <1>5 DEF OpenStream
  <2>2. ~stream[s].open
    BY <1>0, <1>5 DEF OpenStream, StreamsInv
  <2>3. counter' \in Nat /\ stream' \in [Streams -> Handler] /\ StreamsInv'
    <3>1. CASE /\ counter < MaxStreams /\ counter' = counter + 1
               /\ stream' = [stream EXCEPT ![s].step = "loop", ![s].open = TRUE]
      <4> DEFINE x == [stream[s] EXCEPT !.step = "loop", !.open = TRUE]
      <4>1. x \in Handler /\ x.step = "loop" /\ x.open
        BY <1>t DEF Handler
      <4>2. stream' = [stream EXCEPT ![s] = x]
        BY <1>t, <3>1
      <4> HIDE DEF x
      <4>3. OpenStreams' = OpenStreams \cup {s} /\ s \notin OpenStreams
        BY <1>t, <2>2, <4>1, <4>2, OpenAfter DEF OpenStreams
      <4>4. Cardinality(OpenStreams') = Cardinality(OpenStreams) + 1
        BY <4>3, OpenIsFinite, FS_AddElement
      <4>5. counter' \in Nat /\ counter' = Cardinality(OpenStreams') /\ counter' <= MaxStreams
        BY <1>0, <1>t, <3>1, <4>4, ApiAssumption DEF StreamsInv, StreamsCounted
      <4> QED
        BY <1>0, <1>t, <4>1, <4>2, <4>5, StreamStep
    <3>2. CASE stream' = [stream EXCEPT ![s] = Ended] /\ UNCHANGED counter
      <4>1. Ended \in Handler /\ ~Ended.open /\ Ended.step = "ended"
        BY DEF Ended, Handler
      <4>2. OpenStreams' = OpenStreams
        BY <1>t, <2>2, <3>2, <4>1, OpenAfter DEF OpenStreams
      <4>3. counter' = Cardinality(OpenStreams') /\ counter' <= MaxStreams
        BY <1>0, <3>2, <4>2, CountStays DEF StreamsInv
      <4> QED
        BY <1>0, <1>t, <3>2, <4>1, <4>3, StreamStep
    <3> QED
      BY <1>5, <3>1, <3>2 DEF OpenStream
  <2>4. TypeOK'
    BY <1>t, <2>1, <2>3 DEF TypeOK
  <2> QED
    BY <1>0, <1>q, <2>1, <2>3, <2>4, HooksStay
<1>6. ASSUME NEW s \in Streams, CloseConnection(s) \/ EndStream(s)
      PROVE  IInv'
  <2>1. UNCHANGED <<session, bucket, recent, records, answered, req>> /\ Cleanup(s)
    BY <1>6 DEF CloseConnection, EndStream
  <2>2. PICK x \in Handler :
          stream' = [stream EXCEPT ![s] = x] /\ ~x.open /\ ~(x.step = "loop" /\ x.connected)
    <3>1. CASE CloseConnection(s)
      <4> DEFINE x == [stream[s] EXCEPT !.connected = FALSE, !.open = FALSE]
      <4>1. x \in Handler /\ ~x.open /\ ~x.connected
        BY <1>t DEF Handler
      <4>2. stream' = [stream EXCEPT ![s] = x]
        BY <1>t, <3>1 DEF CloseConnection
      <4> QED
        BY <4>1, <4>2
    <3>2. CASE EndStream(s)
      <4>1. Ended \in Handler /\ ~Ended.open /\ Ended.step = "ended"
        BY DEF Ended, Handler
      <4>2. stream' = [stream EXCEPT ![s] = Ended]
        BY <3>2 DEF EndStream
      <4> QED
        BY <4>1, <4>2
    <3> QED
      BY <1>6, <3>1, <3>2
  <2>3. OpenStreams' = OpenStreams \ {s}
    BY <1>t, <2>2, OpenAfter
  <2>4. counter' = Cardinality(OpenStreams') /\ counter' <= MaxStreams /\ counter' \in Nat
    BY <1>0, <2>1, <2>3, CleanupCounts DEF StreamsInv
  <2>5. stream' \in [Streams -> Handler] /\ StreamsInv'
    BY <1>0, <1>t, <2>2, <2>4, StreamStep
  <2>6. TypeOK'
    BY <1>t, <2>1, <2>4, <2>5 DEF TypeOK
  <2> QED
    BY <1>0, <1>q, <2>1, <2>5, <2>6, HooksStay
<1>7. ASSUME PruneBuckets
      PROVE  IInv'
  <2>1. bucket' = NoBucket /\ UNCHANGED <<session, recent, records, answered, req, stream, counter>>
    BY <1>7 DEF PruneBuckets
  <2>2. TypeOK'
    BY <1>t, <2>1 DEF TypeOK
  <2> QED
    BY <1>0, <1>q, <2>1, <2>2, HooksStay, StreamsStay
<1>8. ASSUME Tick
      PROVE  IInv'
  <2>1. UNCHANGED <<records, answered, req, stream, counter>>
    BY <1>8 DEF Tick
  <2>2. session' \in [Tokens -> 0..SessionLife]
    BY <1>c, <1>t, <1>8 DEF Tick, Valid
  <2>3. recent' \in [0..(Window - 1) -> Nat]
    BY <1>c, <1>t, <1>8 DEF Tick
  <2>4. bucket' \in Bucket \cup {NoBucket}
    <3>1. Horizon \in Nat
      BY <1>c DEF Horizon
    <3>2. ASSUME bucket \in Bucket
          PROVE  [bucket EXCEPT !.age = Least(@ + 1, Horizon)] \in Bucket
      BY <3>1, <3>2 DEF Bucket, Least
    <3> QED
      BY <1>t, <1>8, <3>2 DEF Tick
  <2>5. TypeOK'
    BY <1>t, <2>1, <2>2, <2>3, <2>4 DEF TypeOK
  <2> QED
    BY <1>0, <1>q, <2>1, <2>5, HooksStay, StreamsStay
<1>9. ASSUME Restart
      PROVE  IInv'
  <2>1. UNCHANGED <<session, records, answered>> /\ bucket' = NoBucket /\ counter' = 0
    BY <1>9 DEF Restart
  <2>2. req' \in [Procs -> Request] /\ HooksInv'
    BY <1>0, <1>9, IdleIsRequest DEF Restart, HooksInv, AnsweredIsNotRepeated, At
  <2>3. stream' = [s \in Streams |-> Ended] /\ Ended \in Handler /\ ~Ended.open /\ ~Ended.connected
    BY <1>9 DEF Restart, Ended, Handler
  <2>4. OpenStreams' = {}
    BY <2>3 DEF OpenStreams
  <2>5. stream' \in [Streams -> Handler] /\ StreamsInv'
    BY <2>1, <2>3, <2>4, FS_EmptySet, ApiAssumption DEF StreamsInv, StreamsCounted
  <2>6. recent' \in [0..(Window - 1) -> Nat]
    BY <1>9 DEF Restart
  <2>7. TypeOK'
    BY <1>t, <2>1, <2>2, <2>5, <2>6 DEF TypeOK
  <2> QED
    BY <1>q, <2>2, <2>5, <2>7
<1>10. ASSUME UNCHANGED vars
       PROVE  IInv'
  <2>1. TypeOK'
    BY <1>t, <1>10 DEF TypeOK, vars
  <2> QED
    BY <1>0, <1>q, <1>10, <2>1, HooksStay, StreamsStay DEF vars
<1> QED
  BY <1>1, <1>2, <1>3, <1>4, <1>5, <1>6, <1>7, <1>8, <1>9, <1>10 DEF Next

(* The invariant holds for any number of requests and streams, any limits  *)
(* and any lifetimes.                                                      *)
THEOREM InvariantHolds == Spec => []IInv
  BY InitHolds, StepKeeps, PTL DEF Spec

(* What has been answered is never executed again for a request that comes *)
(* after the answer.                                                       *)
THEOREM AnsweredOnce == Spec => []AnsweredIsNotRepeated
<1>1. IInv => AnsweredIsNotRepeated
  BY DEF IInv
<1> QED
  BY <1>1, InvariantHolds, PTL

(* The counter of streams neither loses a slot nor lets one more in,       *)
(* whichever of the three ends of a stream comes first.                    *)
THEOREM StreamsStayCounted == Spec => []StreamsCounted
<1>1. IInv => StreamsCounted
  BY DEF IInv
<1> QED
  BY <1>1, InvariantHolds, PTL

-----------------------------------------------------------------------------
(* The rate limit.                                                         *)

(* Whole windows: none before a window has passed, and one at least after. *)
LEMMA WholeWindows ==
  ASSUME NEW age \in Nat
  PROVE  /\ age < Window => (age \div Window) * Limit = 0
         /\ age >= Window => (age \div Window) * Limit \in Int /\ (age \div Window) * Limit >= Limit
<1>0. Window \in Nat \ {0} /\ Limit \in Nat
  BY ApiAssumption
<1>1. age < Window => age \div Window = 0
  BY <1>0
<1>2. age >= Window => age \div Window >= 1
  BY <1>0
<1>3. age \div Window \in Nat
  BY <1>0
<1>4. ASSUME NEW n \in Nat, n >= 1
      PROVE  n * Limit \in Int /\ n * Limit >= Limit
  BY <1>0, <1>4
<1> QED
  BY <1>0, <1>1, <1>2, <1>3, <1>4

(* A bucket is filled to the brim when a window has passed, and otherwise  *)
(* left as it is.                                                          *)
LEMMA FilledToTheBrim ==
  ASSUME NEW b \in Bucket
  PROVE  Refilled(b) = IF b.age >= Window THEN [tokens |-> Limit, age |-> 0] ELSE b
<1> DEFINE refill == (b.age \div Window) * Limit
<1>0. /\ Window \in Nat \ {0} /\ Limit \in Nat \ {0} /\ PruneAfter \in Nat
      /\ Horizon \in Nat
  BY ApiAssumption DEF Horizon
<1>1. b.age \in Nat /\ b.tokens \in 0..Limit
  BY <1>0 DEF Bucket
<1>2. /\ b.age < Window => refill = 0
      /\ b.age >= Window => refill \in Int /\ refill >= Limit
  BY <1>1, WholeWindows
<1>3. Refilled(b) = IF refill > 0 THEN [tokens |-> Least(Limit, b.tokens + refill), age |-> 0] ELSE b
  BY DEF Refilled
<1> HIDE DEF refill
<1>4. b.age >= Window => Least(Limit, b.tokens + refill) = Limit
  BY <1>0, <1>1, <1>2 DEF Least
<1> QED
  BY <1>0, <1>1, <1>2, <1>3, <1>4

(* What was let through since the bucket was filled is what is missing in  *)
(* it, and what was let through before is one limit at most, and older     *)
(* than the filling.                                                       *)
RateInv ==
  \A i \in 0..(Window - 1) :
    IF bucket = NoBucket THEN recent[i] <= Limit
    ELSE /\ recent[i] <= 2 * Limit - bucket.tokens
         /\ i < bucket.age => recent[i] <= Limit - bucket.tokens

(* Who is let through takes from what was in the bucket.                   *)
LEMMA LimitHolds ==
  ASSUME TypeOK, RateInv, Admitted \/ Limited
  PROVE  RateInv'
<1>0. /\ Window \in Nat \ {0} /\ Limit \in Nat \ {0} /\ PruneAfter \in Nat \ {0}
      /\ Horizon \in Nat
      /\ \A b \in Bucket : b.age \in Nat /\ b.tokens \in 0..Limit
      /\ bucket \in Bucket \cup {NoBucket} /\ recent \in [0..(Window - 1) -> Nat]
  <2>1. /\ Window \in Nat \ {0} /\ Limit \in Nat \ {0} /\ PruneAfter \in Nat \ {0}
        /\ Horizon \in Nat
    BY ApiAssumption DEF Horizon
  <2>2. \A b \in Bucket : b.age \in Nat /\ b.tokens \in 0..Limit
    BY <2>1 DEF Bucket
  <2> QED
    BY <2>1, <2>2 DEF TypeOK
<1>1. NoBucket \notin Bucket
  BY <1>0, ApiAssumption DEF Bucket
<1> DEFINE b == Refilled(Current)
<1>2. /\ b \in Bucket
      /\ \A i \in 0..(Window - 1) : /\ recent[i] <= 2 * Limit - b.tokens
                                    /\ i < b.age => recent[i] <= Limit - b.tokens
  <2>1. Current \in Bucket
    BY <1>0 DEF Current, Bucket
  <2>2. Refilled(Current) =
          IF Current.age >= Window THEN [tokens |-> Limit, age |-> 0] ELSE Current
    BY <2>1, FilledToTheBrim
  <2>3. CASE bucket = NoBucket
    <3>1. b = [tokens |-> Limit, age |-> 0]
      BY <1>0, <2>2, <2>3 DEF Current
    <3>2. b \in Bucket
      BY <1>0, <3>1 DEF Bucket
    <3> HIDE DEF b
    <3> QED
      BY <1>0, <2>3, <3>1, <3>2 DEF RateInv
  <2>4. CASE bucket # NoBucket /\ bucket.age >= Window
    <3>1. b = [tokens |-> Limit, age |-> 0] /\ bucket \in Bucket
      BY <1>0, <2>2, <2>4 DEF Current
    <3>2. b \in Bucket
      BY <1>0, <3>1 DEF Bucket
    <3>3. \A i \in 0..(Window - 1) : recent[i] <= Limit - bucket.tokens
      BY <1>0, <2>4, <3>1 DEF RateInv
    <3> HIDE DEF b
    <3> QED
      BY <1>0, <3>1, <3>2, <3>3
  <2>5. CASE bucket # NoBucket /\ ~(bucket.age >= Window)
    <3>1. b = bucket /\ bucket \in Bucket
      BY <1>0, <2>2, <2>5 DEF Current
    <3> HIDE DEF b
    <3> QED
      BY <2>5, <3>1 DEF RateInv
  <2> QED
    BY <2>3, <2>4, <2>5
<1>3. CASE Limited
  <2>1. bucket' = b /\ recent' = recent
    BY <1>3 DEF Limited
  <2> HIDE DEF b
  <2> QED
    BY <1>1, <1>2, <2>1 DEF RateInv
<1>4. CASE Admitted
  <2>1. /\ ~Exhausted(b)
        /\ bucket' = [b EXCEPT !.tokens = @ - 1]
        /\ recent' = [i \in 0..(Window - 1) |-> recent[i] + 1]
    BY <1>4 DEF Admitted
  <2> HIDE DEF b
  <2>2. b.age \in Nat /\ b.tokens \in 0..Limit
    BY <1>0, <1>2
  <2>3. bucket'.tokens = b.tokens - 1 /\ bucket'.age = b.age
    BY <1>2, <2>1 DEF Bucket
  <2>4. bucket' \in Bucket
    BY <1>0, <1>2, <2>1 DEF Bucket, Exhausted
  <2>5. ASSUME NEW i \in 0..(Window - 1)
        PROVE  /\ recent'[i] <= 2 * Limit - bucket'.tokens
               /\ i < bucket'.age => recent'[i] <= Limit - bucket'.tokens
    <3>1. recent[i] \in Nat /\ recent'[i] = recent[i] + 1
      BY <1>0, <2>1
    <3>2. /\ recent[i] <= 2 * Limit - b.tokens
          /\ i < b.age => recent[i] <= Limit - b.tokens
      BY <1>2
    <3>3. Limit \in Nat /\ b.tokens \in Nat /\ b.age \in Nat
      BY <1>0, <2>2
    <3>4. recent'[i] <= 2 * Limit - bucket'.tokens
      BY <2>3, <3>1, <3>2, <3>3
    <3>5. i < bucket'.age => recent'[i] <= Limit - bucket'.tokens
      BY <2>3, <3>1, <3>2, <3>3
    <3> QED
      BY <3>4, <3>5
  <2> QED
    BY <1>1, <2>4, <2>5 DEF RateInv
<1> QED
  BY <1>3, <1>4

(* Time passes: what is counted ages together with the filling.            *)
LEMMA TickHolds ==
  ASSUME TypeOK, RateInv, Tick
  PROVE  RateInv'
<1>0. /\ Window \in Nat \ {0} /\ Limit \in Nat \ {0} /\ PruneAfter \in Nat \ {0}
      /\ recent \in [0..(Window - 1) -> Nat] /\ bucket \in Bucket \cup {NoBucket}
  BY ApiAssumption DEF TypeOK
<1>1. recent' = [i \in 0..(Window - 1) |-> IF i = 0 THEN 0 ELSE recent[i - 1]]
  BY DEF Tick
<1>2. Horizon \in Nat /\ Horizon >= Window
  BY <1>0 DEF Horizon
<1>3. CASE bucket = NoBucket
  <2>1. bucket' = NoBucket
    BY <1>3 DEF Tick
  <2>2. ASSUME NEW i \in 0..(Window - 1)
        PROVE  recent'[i] <= Limit
    BY <1>0, <1>1, <1>3, <2>2 DEF RateInv
  <2> QED
    BY <2>1, <2>2 DEF RateInv
<1>4. CASE bucket # NoBucket
  <2>0. bucket \in Bucket /\ bucket.age \in Nat /\ bucket.tokens \in 0..Limit
    BY <1>0, <1>2, <1>4 DEF Bucket
  <2>1. bucket' = [bucket EXCEPT !.age = Least(@ + 1, Horizon)]
    BY <1>4 DEF Tick
  <2>2. bucket'.tokens = bucket.tokens /\ bucket'.age = Least(bucket.age + 1, Horizon)
    BY <2>0, <2>1 DEF Bucket
  <2>3. bucket' \in Bucket
    BY <1>2, <2>0, <2>1 DEF Bucket, Least
  <2>4. bucket' # NoBucket
    BY <1>2, <2>3, ApiAssumption DEF Bucket
  <2>5. ASSUME NEW i \in 0..(Window - 1)
        PROVE  /\ recent'[i] <= 2 * Limit - bucket.tokens
               /\ i < bucket'.age => recent'[i] <= Limit - bucket.tokens
    <3>1. CASE i = 0
      BY <1>0, <1>1, <2>0, <3>1
    <3>2. CASE i # 0
      <4>1. i - 1 \in 0..(Window - 1) /\ recent'[i] = recent[i - 1]
        BY <1>0, <1>1, <3>2
      <4>2. i < bucket'.age => i - 1 < bucket.age
        BY <1>0, <1>2, <2>0, <2>2 DEF Least
      <4> QED
        BY <1>4, <4>1, <4>2 DEF RateInv
    <3> QED
      BY <3>1, <3>2
  <2> QED
    BY <2>2, <2>4, <2>5 DEF RateInv
<1> QED
  BY <1>3, <1>4

(* A bucket is pruned, or lost in a restart, when there is nothing left in *)
(* the window that an earlier filling let through.                         *)
LEMMA ForgettingHolds ==
  ASSUME TypeOK, RateInv, PruneBuckets \/ Restart
  PROVE  RateInv'
<1>0. /\ Window \in Nat \ {0} /\ Limit \in Nat \ {0} /\ PruneAfter \in Nat \ {0}
      /\ recent \in [0..(Window - 1) -> Nat] /\ bucket \in Bucket \cup {NoBucket}
  BY ApiAssumption DEF TypeOK
<1>1. CASE PruneBuckets
  <2>1. /\ bucket # NoBucket /\ bucket.age > PruneAfter * Window
        /\ bucket' = NoBucket /\ recent' = recent
    BY <1>1 DEF PruneBuckets
  <2>2. Horizon \in Nat
    BY <1>0 DEF Horizon
  <2>3. bucket.age \in Nat /\ bucket.tokens \in 0..Limit
    BY <1>0, <2>1, <2>2 DEF Bucket
  <2>4. PruneAfter * Window >= Window
    BY <1>0
  <2>5. ASSUME NEW i \in 0..(Window - 1)
        PROVE  recent[i] <= Limit
    <3>1. i < bucket.age
      <4>1. PruneAfter * Window \in Nat
        BY <1>0
      <4> QED
        BY <1>0, <2>1, <2>3, <2>4, <4>1
    <3>2. recent[i] <= Limit - bucket.tokens
      BY <2>1, <3>1 DEF RateInv
    <3> QED
      BY <1>0, <2>3, <3>2
  <2> QED
    BY <2>1, <2>5 DEF RateInv
<1>2. CASE Restart
  BY <1>0, <1>2 DEF Restart, RateInv
<1> QED
  BY <1>1, <1>2

(* No stretch of a window's length lets more than two limits through, for  *)
(* any limit, any window and any number of requests.                       *)
THEOREM RateIsLimited == Spec => []RequestsBounded
<1>1. Init => RateInv
  BY ApiAssumption DEF Init, RateInv
<1>2. TypeOK /\ RateInv /\ [Next]_vars => RateInv'
  <2> SUFFICES ASSUME TypeOK, RateInv, [Next]_vars
               PROVE  RateInv'
    OBVIOUS
  <2>1. CASE Admitted \/ Limited
    BY <2>1, LimitHolds
  <2>2. CASE PruneBuckets \/ Tick \/ Restart
    BY <2>2, TickHolds, ForgettingHolds
  <2>3. CASE UNCHANGED <<bucket, recent>>
    BY <2>3 DEF RateInv
  <2> QED
    BY <2>1, <2>2, <2>3
    DEF Next, Login, Logout, Arrive, RequestStream, Lookup, Execute, Save, OpenStream,
        CloseConnection, EndStream, vars
<1>3. TypeOK /\ RateInv => RequestsBounded
  <2> SUFFICES ASSUME TypeOK, RateInv
               PROVE  RequestsBounded
    OBVIOUS
  <2>1. /\ Window - 1 \in 0..(Window - 1) /\ Limit \in Nat /\ Window \in Nat /\ PruneAfter \in Nat
    BY ApiAssumption
  <2>2. Horizon \in Nat
    BY <2>1 DEF Horizon
  <2>3. recent[Window - 1] \in Nat /\ (bucket # NoBucket => bucket.tokens \in 0..Limit)
    BY <2>1, <2>2 DEF TypeOK, Bucket
  <2> QED
    BY <2>1, <2>3 DEF RateInv, RequestsBounded
<1>4. IInv => TypeOK
  BY DEF IInv
<1> QED
  BY <1>1, <1>2, <1>3, <1>4, InvariantHolds, PTL DEF Spec
=============================================================================
