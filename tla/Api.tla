---------------------------------- MODULE Api ----------------------------------
(***************************************************************************)
(* What every request passes before and after its handler                  *)
(* (apps/api/src/app.ts): the session, the rate limit, the idempotency     *)
(* hooks; and the live streams with their counter                          *)
(* (apps/api/src/routes/events.ts).                                        *)
(*                                                                         *)
(* One user: buckets, records and streams of others are keyed by theirs.   *)
(* An element of Procs is a slot for a POST or PUT in flight, an element   *)
(* of Streams one for an open stream.  Each await is a place where others  *)
(* may run; what a hook does between two of them is one action.  Time is   *)
(* relative: what the code compares with now is kept as an age.            *)
(***************************************************************************)
EXTENDS Integers, FiniteSets

CONSTANTS Procs,       \* requests in flight at the same time
          Keys,        \* method, path and Idempotency-Key of a request, together
          Tokens,      \* bearer tokens of the user
          Streams,     \* stream handlers that run at the same time
          NoBucket,    \* the user has no entry in `buckets`
          Limit,       \* AUTHED_RATE_LIMIT
          Window,      \* windowMs, in ticks
          PruneAfter,  \* windows after which a bucket is pruned, 5 in the code
          SessionLife, \* life of a session, in ticks
          MaxStreams   \* SSE_MAX_PER_USER

ASSUME ApiAssumption ==
  /\ Keys # {} /\ IsFiniteSet(Streams)
  /\ Limit \in Nat \ {0} /\ Window \in Nat \ {0} /\ PruneAfter \in Nat \ {0}
  /\ SessionLife \in Nat \ {0} /\ MaxStreams \in Nat
  /\ NoBucket \notin [tokens : Nat, age : Nat]

VARIABLES
  session,   \* ticks until expiresAt, by token; 0 when expired or deleted
  bucket,    \* the user's entry in `buckets`, in memory
  recent,    \* history: recent[i] requests were let through in the last i + 1 ticks
  records,   \* idempotency_records: the keys that have one
  answered,  \* history: keys whose first success was recorded and then answered
  req,       \* the requests in flight
  stream,    \* the stream handlers
  counter    \* sseStreams of the user, in memory

vars == <<session, bucket, recent, records, answered, req, stream, counter>>

-----------------------------------------------------------------------------
(* A bucket ages until it may be pruned, which is all that is ever asked.  *)
Horizon == PruneAfter * Window + 1

Bucket == [tokens : 0..Limit, age : 0..Horizon]

Step == {"idle", "lookup", "execute", "save"}

(* `late`: the key had been answered when the request came.                *)
Request == [step : Step, key : Keys, late : BOOLEAN]

Idle == [step |-> "idle", key |-> CHOOSE k \in Keys : TRUE, late |-> FALSE]

(* `open` is the handler's variable, `connected` says that the client is   *)
(* there; a handler whose client has left may run a while.                 *)
Handler == [step : {"ended", "access", "loop"}, open : BOOLEAN, connected : BOOLEAN]

Ended == [step |-> "ended", open |-> FALSE, connected |-> FALSE]

TypeOK ==
  /\ session \in [Tokens -> 0..SessionLife]
  /\ bucket \in Bucket \cup {NoBucket}
  /\ recent \in [0..(Window - 1) -> Nat]
  /\ records \subseteq Keys /\ answered \subseteq Keys
  /\ req \in [Procs -> Request]
  /\ stream \in [Streams -> Handler]
  /\ counter \in Nat

Init ==
  /\ session = [t \in Tokens |-> 0]
  /\ bucket = NoBucket
  /\ recent = [i \in 0..(Window - 1) |-> 0]
  /\ records = {}
  /\ answered = {}
  /\ req = [p \in Procs |-> Idle]
  /\ stream = [s \in Streams |-> Ended]
  /\ counter = 0

-----------------------------------------------------------------------------
(* Sessions.                                                               *)

Valid(t) == session[t] > 0

(* A login, or a registration, mints a token.                              *)
Login(t) ==
  /\ ~Valid(t)
  /\ session' = [session EXCEPT ![t] = SessionLife]
  /\ UNCHANGED <<bucket, recent, records, answered, req, stream, counter>>

Logout(t) ==
  /\ Valid(t)
  /\ session' = [session EXCEPT ![t] = 0]
  /\ UNCHANGED <<bucket, recent, records, answered, req, stream, counter>>

-----------------------------------------------------------------------------
(* The rate limit: a bucket that is filled up when a whole window has      *)
(* passed since it was filled, not continuously.                           *)

Least(m, n) == IF m < n THEN m ELSE n

Current == IF bucket = NoBucket THEN [tokens |-> Limit, age |-> 0] ELSE bucket

(* Seeded fault: refilledAt is not moved.                                  *)
RefilledAgain(b) == [b EXCEPT !.tokens = Least(Limit, @ + (b.age \div Window) * Limit)]

Refilled(b) ==
  LET refill == (b.age \div Window) * Limit
  IN IF refill > 0 THEN [tokens |-> Least(Limit, b.tokens + refill), age |-> 0] ELSE b

Exhausted(b) == b.tokens < 1

Admitted ==
  LET b == Refilled(Current) IN
  /\ ~Exhausted(b)
  /\ bucket' = [b EXCEPT !.tokens = @ - 1]
  /\ recent' = [i \in 0..(Window - 1) |-> recent[i] + 1]

Limited ==
  /\ Exhausted(Refilled(Current))
  /\ bucket' = Refilled(Current)
  /\ UNCHANGED recent

PruneBuckets ==
  /\ bucket # NoBucket /\ bucket.age > PruneAfter * Window
  /\ bucket' = NoBucket
  /\ UNCHANGED <<session, recent, records, answered, req, stream, counter>>

-----------------------------------------------------------------------------
(* The idempotency hooks around a handler.                                 *)

At(p, step)   == req[p].step = step
Goto(p, step) == req' = [req EXCEPT ![p].step = step]
Done(p)       == req' = [req EXCEPT ![p] = Idle]

(* onRequest: session, then rate limit.                                    *)
Arrive(p, t, k) ==
  /\ At(p, "idle") /\ Valid(t)
  /\ \/ /\ Admitted
        /\ req' = [req EXCEPT ![p] = [step |-> "lookup", key |-> k, late |-> k \in answered]]
     \/ Limited /\ UNCHANGED req
  /\ UNCHANGED <<session, records, answered, stream, counter>>

(* preHandler: what is recorded is sent again, and nothing executed.       *)
Lookup(p) ==
  /\ At(p, "lookup")
  /\ IF req[p].key \in records THEN Done(p) ELSE Goto(p, "execute")
  /\ UNCHANGED <<session, bucket, recent, records, answered, stream, counter>>

(* Seeded fault: the answer does not wait for the record.                  *)
ExecuteAndAnswer(p) ==
  /\ At(p, "execute")
  /\ answered' = answered \cup {req[p].key}
  /\ Goto(p, "save")
  /\ UNCHANGED <<session, bucket, recent, records, stream, counter>>

(* The handler: a failure is answered and not recorded.                    *)
Execute(p) ==
  /\ At(p, "execute")
  /\ Goto(p, "save") \/ Done(p)
  /\ UNCHANGED <<session, bucket, recent, records, answered, stream, counter>>

(* onSend: the first record stays.  The answer goes out after it, also     *)
(* when the record could not be written.                                   *)
Save(p) ==
  /\ At(p, "save")
  /\ \/ /\ records' = records \cup {req[p].key}
        /\ answered' = answered \cup {req[p].key}
     \/ UNCHANGED <<records, answered>>
  /\ Done(p)
  /\ UNCHANGED <<session, bucket, recent, stream, counter>>

-----------------------------------------------------------------------------
(* Streams.                                                                *)

RequestStream(s, t) ==
  /\ stream[s].step = "ended" /\ Valid(t)
  /\ \/ Admitted /\ stream' = [stream EXCEPT ![s].step = "access", ![s].connected = TRUE]
     \/ Limited /\ UNCHANGED stream
  /\ UNCHANGED <<session, records, answered, req, counter>>

(* Access is refused, or all streams are taken, or this is one more; also  *)
(* for a client that has left meanwhile, unheard.                          *)
OpenStream(s) ==
  /\ stream[s].step = "access"
  /\ \/ /\ counter < MaxStreams
        /\ counter' = counter + 1
        /\ stream' = [stream EXCEPT ![s].step = "loop", ![s].open = TRUE]
     \/ stream' = [stream EXCEPT ![s] = Ended] /\ UNCHANGED counter
  /\ UNCHANGED <<session, bucket, recent, records, answered, req>>

(* Seeded fault: cleaned up on closing, and again at the end.              *)
CleanupTwice(s) == counter' = IF counter = 0 THEN 0 ELSE counter - 1

Cleanup(s) == counter' = IF stream[s].open /\ counter > 0 THEN counter - 1 ELSE counter

(* The client leaves; only a loop listens.                                 *)
CloseConnection(s) ==
  /\ stream[s].connected
  /\ Cleanup(s)
  /\ stream' = [stream EXCEPT ![s].connected = FALSE, ![s].open = FALSE]
  /\ UNCHANGED <<session, bucket, recent, records, answered, req>>

(* The loop sees that it is closed, is past its deadline, or fails.        *)
EndStream(s) ==
  /\ stream[s].step = "loop"
  /\ Cleanup(s)
  /\ stream' = [stream EXCEPT ![s] = Ended]
  /\ UNCHANGED <<session, bucket, recent, records, answered, req>>

-----------------------------------------------------------------------------
Tick ==
  /\ session' = [t \in Tokens |-> IF Valid(t) THEN session[t] - 1 ELSE 0]
  /\ bucket' = IF bucket = NoBucket THEN bucket
               ELSE [bucket EXCEPT !.age = Least(@ + 1, Horizon)]
  /\ recent' = [i \in 0..(Window - 1) |-> IF i = 0 THEN 0 ELSE recent[i - 1]]
  /\ UNCHANGED <<records, answered, req, stream, counter>>

(* What is in memory is lost: a new process counts anew.                   *)
Restart ==
  /\ bucket' = NoBucket
  /\ recent' = [i \in 0..(Window - 1) |-> 0]
  /\ req' = [p \in Procs |-> Idle]
  /\ stream' = [s \in Streams |-> Ended]
  /\ counter' = 0
  /\ UNCHANGED <<session, records, answered>>

Next ==
  \/ \E t \in Tokens :
       \/ Login(t) \/ Logout(t)
       \/ \E p \in Procs, k \in Keys : Arrive(p, t, k)
       \/ \E s \in Streams : RequestStream(s, t)
  \/ \E p \in Procs : Lookup(p) \/ Execute(p) \/ Save(p)
  \/ \E s \in Streams : OpenStream(s) \/ CloseConnection(s) \/ EndStream(s)
  \/ PruneBuckets \/ Tick \/ Restart

Spec == Init /\ [][Next]_vars

-----------------------------------------------------------------------------
(* Properties.                                                             *)

(* However requests are placed around a refill, and whatever is pruned, no *)
(* stretch of time as long as a window lets more than two limits through:  *)
(* the end of one filling and the beginning of the next.                   *)
RequestsBounded == recent[Window - 1] <= 2 * Limit

(* A retry that comes after the answer is replayed, not executed: of the   *)
(* handler's success, the record comes first.                              *)
AnsweredIsNotRepeated == \A p \in Procs : req[p].late => ~At(p, "execute") /\ ~At(p, "save")

OpenStreams == {s \in Streams : stream[s].open}

(* The counter is the number of handlers that count as open, whatever ends *)
(* them first and also when the client had left before; so the limit holds *)
(* for the connections, and no slot is lost.                               *)
StreamsCounted ==
  /\ counter = Cardinality(OpenStreams)
  /\ counter <= MaxStreams
  /\ \A s \in Streams : stream[s].step = "loop" /\ stream[s].connected => stream[s].open

(* The inductive invariant.  An answer has a record, who came late has an  *)
(* answer, and only a running loop is open.                                *)
IInv ==
  /\ TypeOK
  /\ answered \subseteq records
  /\ \A p \in Procs : req[p].late => req[p].key \in answered
  /\ AnsweredIsNotRepeated
  /\ \A s \in Streams : stream[s].open => stream[s].step = "loop"
  /\ StreamsCounted
=============================================================================
