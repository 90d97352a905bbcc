------------------------- MODULE RequestBodyProofs -------------------------
(***************************************************************************)
(* Proofs about RequestBody and its BodyPipe for every length of a body,   *)
(* every capacity of the buffers and any number of tries.                  *)
(***************************************************************************)
EXTENDS RequestBody, TLAPS

(***************************************************************************)
(* The inductive invariant.  Its parts are operators of the pipe p, the    *)
(* connection c, the server v and the stage f of the forwarding.           *)
(***************************************************************************)
Calls ==
    ({"data", "ended", "aborted"} \X Consumers)
        \cup ({"space", "abort", "closed"} \X {None})
        \cup ({"read"} \X (0..InSize)) \cup ({"written"} \X BOOLEAN)
        \cup ({"sent", "serverclosed"} \X Servers)

PipeTypes ==
    [size : {Unknown} \cup 0..MaxBody, put : 0..MaxBody, get : 0..MaxBody,
     producer : BOOLEAN, consumer : Consumers \cup {None}, auto : BOOLEAN,
     aborted : BOOLEAN, failed : BOOLEAN, calls : Seq(Calls)]

PipeOK(p) ==
    /\ p \in PipeTypes /\ ~p.failed
    /\ p.get <= p.put /\ p.put - p.get <= MaxCapacity
    /\ p.auto => p.aborted
    /\ p.consumer = Sink => p.auto

(* What the client has sent is in the pipe, in its buffer or on the way; a *)
(* production that ended well has put all of it.                           *)
BodyOK(p, c) ==
    /\ c \in Conns /\ (c.malformed => c.chunked)
    /\ p.put <= c.body
    /\ (p.producer /\ c.chunked) =>
            /\ p.size = Unknown
            /\ p.put + c.inBuf + c.unsent = c.body + 1
    /\ (p.producer /\ ~c.chunked) =>
            /\ p.size = c.body /\ p.put < p.size
            /\ p.put + c.inBuf + c.unsent = c.body
    /\ ~p.producer => p.size \in {Unknown, c.body}
    /\ (~p.producer /\ p.size = p.put) => ~c.malformed /\ c.unsent = 0

(* Who may be attached: nobody before the forwarding, then the current     *)
(* server, which takes all from the first unit on, or the sink, once the   *)
(* body was given up.                                                      *)
ConsumerOK(p, v, f) ==
    /\ v \in ServerStates
    /\ p.aborted => p.get > 0 \/ f = "done"
    /\ f \in {"callouts", "connecting"} => p.consumer = None /\ p.get = 0
    /\ p.consumer \in Servers =>
            p.consumer = v.n /\ f = "serving" /\ v.took = p.get
    /\ f = "serving" => v.n \in Servers
    /\ v.open => f = "serving"
    /\ v.open => p.consumer = v.n \/ (v.whole /\ v.took = p.put)
    /\ v.whole => ~p.producer /\ p.size = p.put

(* The calls that are scheduled.  An end or an abort that is announced is  *)
(* true; there is one read at most, for what the buffer has room for, and  *)
(* one close handler of the server.                                        *)
CallsTrue(p) ==
    \A i \in 1..Len(p.calls) :
        /\ p.calls[i][1] = "ended" => ~p.producer /\ p.size = p.put
        /\ p.calls[i][1] = "abort" => p.aborted

ReadsOK(p, c) ==
    /\ \A i \in 1..Len(p.calls) : p.calls[i][1] = "read" =>
            /\ c.reader = "fired"
            /\ p.calls[i][2] <= c.unsent
            /\ p.calls[i][2] + c.inBuf <= InSize
    /\ \A i, j \in 1..Len(p.calls) :
            (p.calls[i][1] = "read" /\ p.calls[j][1] = "read") => i = j

ClosedOK(p, v, f) ==
    /\ \A i \in 1..Len(p.calls) : p.calls[i][1] = "serverclosed" =>
            ~v.open /\ f = "serving"
    /\ \A i, j \in 1..Len(p.calls) :
            (p.calls[i][1] = "serverclosed"
             /\ p.calls[j][1] = "serverclosed") => i = j

Core(p, v, f) ==
    PipeOK(p) /\ ConsumerOK(p, v, f) /\ CallsTrue(p) /\ ClosedOK(p, v, f)

(* A server that waits for data is told of it before it is told of the     *)
(* end.                                                                    *)
Behind(p, v) ==
    p.consumer = v.n /\ v.open /\ v.sender = "no" /\ p.get < p.put

Told(p, n) ==
    \E j \in 1..Len(p.calls) :
        /\ p.calls[j] = <<"data", n>>
        /\ \A i \in 1..j : p.calls[i] # <<"ended", n>>

DataFirst(p, v) == Behind(p, v) => Told(p, v.n)

BodyInv ==
    /\ Core(pipe, server, fwd) /\ DataFirst(pipe, server)
    /\ BodyOK(pipe, conn) /\ ReadsOK(pipe, conn)
    /\ fwd \in {"callouts", "connecting", "serving", "done"}
    /\ response \in {"none", "ready", "sent"}
    /\ denied \in BOOLEAN

(* What an operation on the pipe leaves alone: the calls that were there,  *)
(* what the producer did, or everything but the calls.                     *)
NoReads(p, q) ==
    /\ Len(p.calls) <= Len(q.calls)
    /\ \A i \in 1..Len(p.calls) : q.calls[i] = p.calls[i]
    /\ \A i \in 1..Len(q.calls) :
            i > Len(p.calls) => q.calls[i][1] # "read"

NoCloses(p) ==
    \A i \in 1..Len(p.calls) : p.calls[i][1] # "serverclosed"

SameBody(p, q) == q.put = p.put /\ q.size = p.size /\ q.producer = p.producer

SamePipe(p, q) ==
    /\ q.size = p.size /\ q.put = p.put /\ q.get = p.get
    /\ q.producer = p.producer /\ q.consumer = p.consumer
    /\ q.auto = p.auto /\ q.aborted = p.aborted /\ q.failed = p.failed

Appended(p, q, call) ==
    /\ q \in PipeTypes /\ SamePipe(p, q)
    /\ Len(p.calls) \in Nat
    /\ Len(q.calls) = Len(p.calls) + 1
    /\ q.calls[Len(p.calls) + 1] = call
    /\ \A i \in 1..Len(p.calls) : q.calls[i] = p.calls[i]

-----------------------------------------------------------------------------
(* The queue of the calls.                                                 *)

(* The bounds are numbers, and no server is None or the sink. *)
LEMMA Bounds ==
    /\ MaxBody \in Nat /\ MaxBody > 0 /\ InSize \in Nat /\ MaxTries \in Nat
    /\ MaxCapacity \in Nat /\ Sink # None
    /\ \A n \in 0..MaxTries : n # Sink /\ n # None
    /\ \A n \in Servers : n # Sink /\ n # None /\ n \in 0..MaxTries
BY PipeAssumption, BodyAssumption DEF Servers

(* Schedule() appends the call and changes nothing else. *)
LEMMA Scheduled ==
    ASSUME NEW p \in PipeTypes, NEW call \in Calls,
           NEW q, q = Schedule(p, call)
    PROVE  Appended(p, q, call)
<1>1. p.calls \in Seq(Calls)
  BY DEF PipeTypes
<1>2. Append(p.calls, call) \in Seq(Calls)
  BY <1>1
<1>3. q = [p EXCEPT !.calls = Append(p.calls, call)]
  BY DEF Schedule
<1>4. q \in PipeTypes /\ SamePipe(p, q)
  BY <1>2, <1>3 DEF PipeTypes, SamePipe
<1>5. q.calls = Append(p.calls, call)
  BY <1>3 DEF PipeTypes
<1> QED
  BY <1>1, <1>4, <1>5 DEF Appended

(* Dialing a call takes the first one from the queue. *)
LEMMA Dialed ==
    ASSUME NEW p \in PipeTypes, p.calls # <<>>,
           NEW q, q = [p EXCEPT !.calls = Tail(p.calls)]
    PROVE  /\ q \in PipeTypes /\ SamePipe(p, q)
           /\ Len(q.calls) \in Nat
           /\ Len(p.calls) = Len(q.calls) + 1
           /\ Head(p.calls) = p.calls[1] /\ p.calls[1] \in Calls
           /\ \A i \in 1..Len(q.calls) : q.calls[i] = p.calls[i + 1]
<1>1. p.calls \in Seq(Calls)
  BY DEF PipeTypes
<1>2. Tail(p.calls) \in Seq(Calls)
  BY <1>1
<1>3. q \in PipeTypes /\ SamePipe(p, q)
  BY <1>2 DEF PipeTypes, SamePipe
<1>4. q.calls = Tail(p.calls)
  BY DEF PipeTypes
<1> QED
  BY <1>1, <1>3, <1>4

(* What a scheduled call may be without disturbing the invariant: an end   *)
(* and an abort are true, and it is no close handler.                      *)
LEMMA ScheduleCore ==
    ASSUME NEW p, NEW v, NEW f, Core(p, v, f),
           NEW call \in Calls, call[1] # "serverclosed",
           call[1] = "ended" => ~p.producer /\ p.size = p.put,
           call[1] = "abort" => p.aborted,
           NEW q, q = Schedule(p, call)
    PROVE  /\ Core(q, v, f) /\ SamePipe(p, q)
           /\ call[1] # "read" => NoReads(p, q)
           /\ NoCloses(p) => NoCloses(q)
           /\ DataFirst(p, v) => DataFirst(q, v)
<1>0. p \in PipeTypes
  BY DEF Core, PipeOK
<1>n. PICK n : n = Len(p.calls)
  OBVIOUS
<1>1. /\ q \in PipeTypes /\ SamePipe(p, q) /\ n \in Nat
      /\ Len(q.calls) = n + 1 /\ q.calls[n + 1] = call
      /\ \A i \in 1..n : q.calls[i] = p.calls[i]
  <2>1. Appended(p, q, call)
    BY <1>0, Scheduled
  <2> QED
    BY <1>n, <2>1, Zenon DEF Appended
<1>2. \A i \in 1..Len(q.calls) : i \in 1..n \/ i = n + 1
  BY <1>1
<1>3. PipeOK(q) /\ ConsumerOK(q, v, f)
  BY <1>1 DEF Core, PipeOK, ConsumerOK, SamePipe
<1>4. CallsTrue(q)
  BY <1>n, <1>1, <1>2 DEF Core, CallsTrue, SamePipe
<1>5. ClosedOK(q, v, f)
  <2>1. \A i \in 1..Len(q.calls) : q.calls[i][1] = "serverclosed" =>
            i \in 1..Len(p.calls) /\ p.calls[i][1] = "serverclosed"
    BY <1>n, <1>1, <1>2
  <2> QED
    BY <2>1, Zenon DEF Core, ClosedOK
<1>6. call[1] # "read" => NoReads(p, q)
  BY <1>n, <1>1, <1>2 DEF NoReads
<1>7. ASSUME DataFirst(p, v) PROVE DataFirst(q, v)
  <2> SUFFICES ASSUME Behind(q, v) PROVE Told(q, v.n)
    BY DEF DataFirst
  <2>1. Told(p, v.n)
    BY <1>1, <1>7 DEF DataFirst, Behind, SamePipe
  <2>2. PICK j \in 1..n : /\ p.calls[j] = <<"data", v.n>>
                          /\ \A i \in 1..j : p.calls[i] # <<"ended", v.n>>
    BY <1>n, <2>1 DEF Told
  <2>3. j \in 1..Len(q.calls) /\ \A i \in 1..j : i \in 1..n
    BY <1>1
  <2> QED
    BY <1>1, <2>2, <2>3 DEF Told
<1>8. NoCloses(p) => NoCloses(q)
  BY <1>n, <1>1, <1>2 DEF NoCloses
<1> QED
  BY <1>1, <1>3, <1>4, <1>5, <1>6, <1>7, <1>8 DEF Core

(* Schedule() of data for the consumer, while the production goes on: no   *)
(* end was announced yet, so the server that waits is told in time.        *)
LEMMA ScheduleData ==
    ASSUME NEW p, NEW v, NEW f, Core(p, v, f), p.producer,
           p.consumer # None,
           NEW q, q = Schedule(p, <<"data", p.consumer>>)
    PROVE  /\ Core(q, v, f) /\ SamePipe(p, q) /\ NoReads(p, q)
           /\ DataFirst(q, v)
<1>0. p \in PipeTypes /\ p.consumer \in Consumers
  BY DEF Core, PipeOK, PipeTypes
<1>c. PICK call : call = <<"data", p.consumer>>
  OBVIOUS
<1>1. call \in Calls /\ call[1] = "data" /\ q = Schedule(p, call)
  BY <1>0, <1>c DEF Calls
<1>2. /\ Core(q, v, f) /\ SamePipe(p, q) /\ NoReads(p, q)
  BY <1>1, <1>c, ScheduleCore
<1>3. /\ Len(p.calls) \in Nat
      /\ Len(q.calls) = Len(p.calls) + 1
      /\ q.calls[Len(p.calls) + 1] = call
      /\ \A i \in 1..Len(p.calls) : q.calls[i] = p.calls[i]
  <2>1. Appended(p, q, call)
    BY <1>0, <1>1, Scheduled
  <2> QED
    BY <2>1, Zenon DEF Appended
<1>4. ASSUME Behind(q, v) PROVE Told(q, v.n)
  <2>1. call = <<"data", v.n>>
    BY <1>2, <1>4, <1>c DEF Behind, SamePipe
  <2>2. ASSUME NEW i \in 1..Len(q.calls) PROVE q.calls[i] # <<"ended", v.n>>
    <3>1. CASE i = Len(p.calls) + 1
      <4>1. q.calls[i][1] = "data"
        BY <1>1, <1>3, <3>1
      <4> QED
        BY <4>1
    <3>2. CASE i \in 1..Len(p.calls)
      BY <1>3, <3>2 DEF Core, CallsTrue
    <3>3. i = Len(p.calls) + 1 \/ i \in 1..Len(p.calls)
      BY <1>3
    <3> QED
      BY <3>1, <3>2, <3>3
  <2>3. /\ Len(q.calls) \in 1..Len(q.calls)
        /\ q.calls[Len(q.calls)] = <<"data", v.n>>
    BY <1>3, <2>1
  <2> QED
    BY <2>2, <2>3 DEF Told
<1> QED
  BY <1>2, <1>4 DEF DataFirst

(* The calls only grow: what NoReads() says adds up. *)
LEMMA NoReadsAdds ==
    ASSUME NEW p \in PipeTypes, NEW q \in PipeTypes, NEW r \in PipeTypes,
           NoReads(p, q), NoReads(q, r)
    PROVE  NoReads(p, r)
<1>1. Len(p.calls) \in Nat /\ Len(q.calls) \in Nat /\ Len(r.calls) \in Nat
  BY DEF PipeTypes
<1>2. \A i \in 1..Len(p.calls) : r.calls[i] = p.calls[i]
  <2>1. \A i \in 1..Len(p.calls) : i \in 1..Len(q.calls)
    BY <1>1 DEF NoReads
  <2> QED
    BY <2>1 DEF NoReads
<1>3. ASSUME NEW i \in 1..Len(r.calls), i > Len(p.calls)
      PROVE  r.calls[i][1] # "read"
  <2>1. CASE i > Len(q.calls)
    BY <2>1 DEF NoReads
  <2>2. CASE i \in 1..Len(q.calls)
    BY <1>3, <2>2 DEF NoReads
  <2> QED
    BY <1>1, <2>1, <2>2
<1> QED
  BY <1>1, <1>2, <1>3 DEF NoReads

(* A pipe with the calls of another one has no new reads. *)
LEMMA NoReadsSame ==
    ASSUME NEW p \in PipeTypes, NEW q, q.calls = p.calls
    PROVE  NoReads(p, q)
<1>1. Len(p.calls) \in Nat
  BY DEF PipeTypes
<1> QED
  BY <1>1 DEF NoReads

(* A Must() that holds changes nothing. *)
LEMMA MustHolds ==
    ASSUME NEW p \in PipeTypes, ~p.failed, NEW cond \in BOOLEAN, cond
    PROVE  Must(p, cond) = p
<1>1. (p.failed \/ ~cond) = p.failed
  BY DEF PipeTypes
<1>2. p = [p EXCEPT !.failed = p.failed]
  BY DEF PipeTypes
<1> QED
  BY <1>1, <1>2, Zenon DEF Must

(* startAutoConsumption() attaches the sink to a pipe nobody consumes.     *)
LEMMA StartAutoCore ==
    ASSUME NEW p, NEW v, NEW f, Core(p, v, f), p.auto, p.consumer = None,
           NEW q, q = StartAutoConsumption(p)
    PROVE  /\ Core(q, v, f) /\ DataFirst(q, v) /\ NoReads(p, q)
           /\ SameBody(p, q) /\ q.get = p.get /\ q.aborted = p.aborted
           /\ q.consumer = Sink
<1>0. p \in PipeTypes /\ ~p.failed
  BY DEF Core, PipeOK
<1>1. Must(p, p.auto /\ p.consumer = None) = p
  <2>1. (p.auto /\ p.consumer = None) \in BOOLEAN
    OBVIOUS
  <2> QED
    BY <1>0, <2>1, MustHolds
<1>2. PICK r : r = [p EXCEPT !.consumer = Sink]
  OBVIOUS
<1>3. /\ r \in PipeTypes /\ r.consumer = Sink /\ r.calls = p.calls
      /\ SameBody(p, r) /\ r.get = p.get /\ r.aborted = p.aborted
      /\ r.auto = p.auto /\ r.failed = p.failed
  BY <1>0, <1>2 DEF PipeTypes, SameBody, Consumers
<1>4. PipeOK(r)
  BY <1>3 DEF Core, PipeOK, SameBody
<1>5. ConsumerOK(r, v, f)
  <2>1. v \in ServerStates /\ v.n # None /\ Sink \notin Servers
    BY Bounds DEF Core, ConsumerOK, ServerStates
  <2>2. f \notin {"callouts", "connecting"}
    BY <1>0 DEF Core, ConsumerOK, PipeOK, PipeTypes
  <2> QED
    BY <1>3, <2>1, <2>2 DEF Core, ConsumerOK, SameBody
<1>6. CallsTrue(r) /\ ClosedOK(r, v, f)
  BY <1>3 DEF Core, CallsTrue, ClosedOK, SameBody
<1>7. Core(r, v, f) /\ NoReads(p, r)
  BY <1>0, <1>3, <1>4, <1>5, <1>6, NoReadsSame DEF Core
<1>8. r.consumer # None /\ r.consumer # v.n
  BY <1>3, Bounds DEF Core, ConsumerOK, ServerStates
<1>9. q = Schedule(r, <<"data", r.consumer>>)
  BY <1>1, <1>2, <1>8
  DEF StartAutoConsumption, ScheduleBodyDataNotification
<1>c. PICK call : call = <<"data", r.consumer>>
  OBVIOUS
<1>10. call \in Calls /\ call[1] = "data"
  BY <1>3, <1>c DEF Calls, Consumers
<1>11. Core(q, v, f) /\ SamePipe(r, q) /\ NoReads(r, q)
  BY <1>7, <1>9, <1>10, <1>c, ScheduleCore
<1>12. q \in PipeTypes /\ NoReads(p, q)
  BY <1>0, <1>3, <1>7, <1>11, NoReadsAdds DEF Core, PipeOK
<1>13. DataFirst(q, v)
  BY <1>8, <1>11 DEF DataFirst, Behind, SamePipe
<1> QED
  BY <1>3, <1>11, <1>12, <1>13 DEF SamePipe, SameBody

-----------------------------------------------------------------------------
(* The producer's operations on the pipe.                                  *)

(* The consumer is told of the end, or of an abort, once production ended. *)
LEMMA EndNotification ==
    ASSUME NEW p, NEW v, NEW f, Core(p, v, f), ~p.producer,
           NEW q, q = ScheduleBodyEndNotification(p)
    PROVE  /\ Core(q, v, f) /\ SamePipe(p, q) /\ NoReads(p, q)
           /\ DataFirst(p, v) => DataFirst(q, v)
<1>0. p \in PipeTypes
  BY DEF Core, PipeOK
<1>1. CASE p.consumer = None
  <2>1. q = p
    BY <1>1 DEF ScheduleBodyEndNotification
  <2> QED
    BY <1>0, <2>1, NoReadsSame DEF SamePipe
<1>2. CASE p.consumer # None
  <2>1. PICK call :
            call = <<IF p.size = p.put THEN "ended" ELSE "aborted",
                     p.consumer>>
    OBVIOUS
  <2>2. q = Schedule(p, call)
    BY <1>2, <2>1 DEF ScheduleBodyEndNotification
  <2>3. p.consumer \in Consumers
    BY <1>0, <1>2 DEF PipeTypes
  <2>4. /\ call \in Calls /\ call[1] \in {"ended", "aborted"}
        /\ call[1] = "ended" => p.size = p.put
    BY <2>1, <2>3 DEF Calls
  <2> QED
    BY <2>2, <2>4, ScheduleCore
<1> QED
  BY <1>1, <1>2

(* clearProducer(): the production ends, well or with an abort that can be *)
(* told from a good end.                                                   *)
LEMMA ClearProducerCore ==
    ASSUME NEW p, NEW v, NEW f, Core(p, v, f), DataFirst(p, v), p.producer,
           NEW atEof \in BOOLEAN, ~atEof => p.size # p.put,
           NEW q, q = ClearProducer(p, atEof)
    PROVE  /\ Core(q, v, f) /\ DataFirst(q, v) /\ NoReads(p, q)
           /\ q.put = p.put /\ ~q.producer
           /\ q.size = IF atEof /\ p.size = Unknown THEN p.put ELSE p.size
<1>0. p \in PipeTypes /\ ~p.failed
  BY DEF Core, PipeOK
<1>s. PICK size : size = IF atEof /\ p.size = Unknown
                         THEN p.put ELSE p.size
  OBVIOUS
<1>1. PICK r : r = [p EXCEPT !.producer = FALSE, !.size = size]
  OBVIOUS
<1>2. size \in {Unknown} \cup 0..MaxBody
  BY <1>0, <1>s DEF PipeTypes
<1>3. /\ r \in PipeTypes /\ r.size = size /\ r.put = p.put
      /\ r.get = p.get /\ r.producer = FALSE /\ r.consumer = p.consumer
      /\ r.auto = p.auto /\ r.aborted = p.aborted /\ r.failed = p.failed
      /\ r.calls = p.calls
  BY <1>0, <1>1, <1>2 DEF PipeTypes
<1>4. q = ScheduleBodyEndNotification(r)
  <2>1. PICK s : s = [p EXCEPT !.producer = FALSE]
    OBVIOUS
  <2>2. /\ s \in PipeTypes /\ ~s.failed /\ s.size = p.size
    BY <1>0, <2>1 DEF PipeTypes
  <2>3. CASE atEof
    <3>1. q = ScheduleBodyEndNotification(
                [s EXCEPT !.size = IF s.size = Unknown
                                   THEN p.put ELSE s.size])
      BY <2>1, <2>3 DEF ClearProducer
    <3>2. [s EXCEPT !.size = IF s.size = Unknown THEN p.put ELSE s.size] = r
      BY <1>0, <1>1, <1>s, <2>1, <2>2, <2>3 DEF PipeTypes
    <3> QED
      BY <3>1, <3>2
  <2>4. CASE ~atEof
    <3>1. q = ScheduleBodyEndNotification(Must(s, p.size # p.put))
      BY <2>1, <2>4 DEF ClearProducer
    <3>2. (p.size # p.put) \in BOOLEAN /\ p.size # p.put
      BY <2>4
    <3>3. Must(s, p.size # p.put) = s
      BY <2>2, <3>2, MustHolds
    <3>4. s = r
      BY <1>0, <1>1, <1>s, <2>1, <2>4 DEF PipeTypes
    <3> QED
      BY <3>1, <3>3, <3>4
  <2> QED
    BY <2>3, <2>4
<1>5. PipeOK(r)
  BY <1>3 DEF Core, PipeOK
<1>6. ConsumerOK(r, v, f)
  BY <1>3 DEF Core, ConsumerOK
<1>7. CallsTrue(r) /\ ClosedOK(r, v, f)
  BY <1>3 DEF Core, CallsTrue, ClosedOK
<1>8. Core(r, v, f) /\ NoReads(p, r)
  BY <1>0, <1>3, <1>5, <1>6, <1>7, NoReadsSame DEF Core
<1>9. DataFirst(r, v)
  BY <1>3 DEF DataFirst, Behind, Told
<1>10. Core(q, v, f) /\ SamePipe(r, q) /\ NoReads(r, q) /\ DataFirst(q, v)
  BY <1>3, <1>4, <1>8, <1>9, EndNotification
<1>11. NoReads(p, q)
  BY <1>0, <1>3, <1>8, <1>10, NoReadsAdds DEF Core, PipeOK
<1> QED
  BY <1>3, <1>s, <1>10, <1>11 DEF SamePipe

(* postAppend(): n more units, which there is room for, reach the consumer *)
(* that is attached, or the sink; the last ones end the production.        *)
LEMMA PostAppendCore ==
    ASSUME NEW p, NEW v, NEW f, Core(p, v, f), DataFirst(p, v), p.producer,
           NEW n \in Nat, p.put + n <= MaxBody,
           Content(p) + n <= MaxCapacity,
           p.size # Unknown => p.put + n <= p.size,
           NEW q, q = PostAppend(p, n)
    PROVE  /\ Core(q, v, f) /\ DataFirst(q, v) /\ NoReads(p, q)
           /\ q.put = p.put + n /\ q.size = p.size
           /\ q.producer <=> (p.size # Unknown => p.put + n < p.size)
<1>0. p \in PipeTypes /\ p.get \in 0..MaxBody /\ p.put \in 0..MaxBody
  BY DEF Core, PipeOK, PipeTypes
<1>1. PICK a : a = [p EXCEPT !.put = @ + n]
  OBVIOUS
<1>2. p.put + n \in 0..MaxBody
  BY <1>0, Bounds
<1>3. /\ a \in PipeTypes /\ a.size = p.size /\ a.put = p.put + n
      /\ a.get = p.get /\ a.producer = p.producer
      /\ a.consumer = p.consumer /\ a.auto = p.auto
      /\ a.aborted = p.aborted /\ a.failed = p.failed /\ a.calls = p.calls
  BY <1>0, <1>1, <1>2 DEF PipeTypes
<1>4. Core(a, v, f) /\ NoReads(p, a)
  <2>1. PipeOK(a)
    <3>1. a.get <= a.put /\ a.put - a.get <= MaxCapacity
      BY <1>0, <1>3, Bounds DEF Core, PipeOK, Content
    <3> QED
      BY <1>3, <3>1 DEF Core, PipeOK
  <2>2. ConsumerOK(a, v, f)
    BY <1>3 DEF Core, ConsumerOK
  <2>3. CallsTrue(a) /\ ClosedOK(a, v, f)
    BY <1>3 DEF Core, CallsTrue, ClosedOK
  <2> QED
    BY <1>0, <1>3, <2>1, <2>2, <2>3, NoReadsSame DEF Core
<1>5. PICK r : r = IF a.auto /\ a.consumer = None
                   THEN StartAutoConsumption(a) ELSE a
  OBVIOUS
<1>6. /\ Core(r, v, f) /\ NoReads(a, r) /\ SameBody(a, r)
      /\ r.consumer = None => ~Behind(r, v)
  <2>1. CASE a.auto /\ a.consumer = None
    <3>1. r = StartAutoConsumption(a)
      BY <1>5, <2>1
    <3>2. /\ Core(r, v, f) /\ NoReads(a, r) /\ SameBody(a, r)
          /\ r.consumer = Sink
      BY <1>4, <2>1, <3>1, StartAutoCore
    <3> QED
      BY <3>2, Bounds
  <2>2. CASE ~(a.auto /\ a.consumer = None)
    <3>1. r = a
      BY <1>5, <2>2
    <3>2. v.n # None
      BY Bounds DEF Core, ConsumerOK, ServerStates
    <3> QED
      BY <1>3, <1>4, <3>1, <3>2, NoReadsSame DEF SameBody, Behind
  <2> QED
    BY <2>1, <2>2
<1>7. PICK s : s = ScheduleBodyDataNotification(r)
  OBVIOUS
<1>8. /\ Core(s, v, f) /\ NoReads(r, s) /\ SameBody(r, s)
      /\ DataFirst(s, v)
  <2>1. r \in PipeTypes /\ r.producer
    BY <1>3, <1>6 DEF Core, PipeOK, SameBody
  <2>2. CASE r.consumer = None
    <3>1. s = r
      BY <1>7, <2>2 DEF ScheduleBodyDataNotification
    <3> QED
      BY <1>6, <2>1, <2>2, <3>1, NoReadsSame DEF DataFirst, SameBody
  <2>3. CASE r.consumer # None
    <3>1. s = Schedule(r, <<"data", r.consumer>>)
      BY <1>7, <2>3 DEF ScheduleBodyDataNotification
    <3>2. /\ Core(s, v, f) /\ SamePipe(r, s) /\ NoReads(r, s)
          /\ DataFirst(s, v)
      BY <1>6, <2>1, <2>3, <3>1, ScheduleData
    <3> QED
      BY <3>2 DEF SamePipe, SameBody
  <2> QED
    BY <2>2, <2>3
<1>9. /\ s \in PipeTypes /\ s.put = p.put + n /\ s.size = p.size
      /\ s.producer /\ NoReads(p, s)
  <2>1. r \in PipeTypes /\ s \in PipeTypes
    BY <1>6, <1>8 DEF Core, PipeOK
  <2>2. NoReads(p, r)
    BY <1>0, <1>3, <1>4, <1>6, <2>1, NoReadsAdds
  <2>3. NoReads(p, s)
    BY <1>0, <1>8, <2>1, <2>2, NoReadsAdds
  <2> QED
    BY <1>3, <1>6, <1>8, <2>1, <2>3 DEF SameBody
<1>10. q = IF MayNeedMoreData(s) THEN s ELSE ClearProducer(s, TRUE)
  BY <1>1, <1>5, <1>7 DEF PostAppend
<1>11. MayNeedMoreData(s) <=> (p.size # Unknown => p.put + n < p.size)
  BY <1>9 DEF MayNeedMoreData, BodySizeKnown
<1>12. CASE MayNeedMoreData(s)
  BY <1>8, <1>9, <1>10, <1>11, <1>12
<1>13. CASE ~MayNeedMoreData(s)
  <2>1. q = ClearProducer(s, TRUE)
    BY <1>10, <1>13
  <2>2. p.size # Unknown
    BY <1>11, <1>13
  <2>3. /\ Core(q, v, f) /\ DataFirst(q, v) /\ NoReads(s, q)
        /\ q.put = s.put /\ ~q.producer
        /\ q.size = IF TRUE /\ s.size = Unknown THEN s.put ELSE s.size
    BY <1>8, <1>9, <2>1, ClearProducerCore
  <2>4. NoReads(p, q)
    BY <1>0, <1>9, <2>3, NoReadsAdds DEF Core, PipeOK
  <2> QED
    BY <1>9, <1>11, <1>13, <2>2, <2>3, <2>4
<1> QED
  BY <1>12, <1>13

(* What Accepted() takes fits in the pipe and is part of the body. *)
LEMMA AcceptedFits ==
    ASSUME NEW p, PipeOK(p), NEW n \in Nat,
           p.size # Unknown => p.put <= p.size
    PROVE  /\ Accepted(p, n) \in Nat /\ Accepted(p, n) <= n
           /\ Content(p) + Accepted(p, n) <= MaxCapacity
           /\ p.size # Unknown => p.put + Accepted(p, n) <= p.size
<1>1. /\ p.get \in 0..MaxBody /\ p.put \in 0..MaxBody
      /\ p.size \in {Unknown} \cup 0..MaxBody
      /\ p.get <= p.put /\ p.put - p.get <= MaxCapacity
  BY DEF PipeOK, PipeTypes
<1> QED
  BY <1>1, Bounds
  DEF Accepted, Least, Space, Content, BodySizeKnown, Unknown

(* putMoreData(): what is accepted is appended. *)
LEMMA PutMoreDataCore ==
    ASSUME NEW p, NEW v, NEW f, Core(p, v, f), DataFirst(p, v), p.producer,
           NEW n \in Nat, p.size # Unknown => p.put < p.size,
           p.put + Accepted(p, n) <= MaxBody,
           NEW q, q = PutMoreData(p, n)
    PROVE  /\ Core(q, v, f) /\ DataFirst(q, v) /\ NoReads(p, q)
           /\ q.put = p.put + Accepted(p, n) /\ q.size = p.size
           /\ q.producer <=> (q.size # Unknown => q.put < q.size)
<1>0. /\ p \in PipeTypes /\ PipeOK(p) /\ p.put \in 0..MaxBody
      /\ p.size \in {Unknown} \cup 0..MaxBody
  BY DEF Core, PipeOK, PipeTypes
<1>k. PICK k : k = Accepted(p, n)
  OBVIOUS
<1>1. /\ k \in Nat /\ Content(p) + k <= MaxCapacity
      /\ p.size # Unknown => p.put + k <= p.size
  <2>1. p.size # Unknown => p.put <= p.size
    BY <1>0, Bounds DEF Unknown
  <2> QED
    BY <1>0, <1>k, <2>1, AcceptedFits
<1>2. CASE k > 0
  <2>1. q = PostAppend(p, k)
    BY <1>2, <1>k DEF PutMoreData
  <2> QED
    BY <1>1, <1>k, <2>1, PostAppendCore
<1>3. CASE k = 0
  <2>1. q = p
    BY <1>3, <1>k DEF PutMoreData
  <2> QED
    BY <1>0, <1>3, <1>k, <2>1, NoReadsSame
<1> QED
  BY <1>1, <1>2, <1>3

(* enableAutoConsumption(), once the consumption was aborted. *)
LEMMA EnableAutoCore ==
    ASSUME NEW p, NEW v, NEW f, Core(p, v, f), DataFirst(p, v), p.aborted,
           NEW q, q = EnableAutoConsumption(p)
    PROVE  /\ Core(q, v, f) /\ DataFirst(q, v) /\ NoReads(p, q)
           /\ SameBody(p, q)
<1>0. p \in PipeTypes
  BY DEF Core, PipeOK
<1>1. PICK r : r = [p EXCEPT !.auto = TRUE]
  OBVIOUS
<1>2. /\ r \in PipeTypes /\ r.auto /\ r.size = p.size /\ r.put = p.put
      /\ r.get = p.get /\ r.producer = p.producer
      /\ r.consumer = p.consumer /\ r.aborted = p.aborted
      /\ r.failed = p.failed /\ r.calls = p.calls
  BY <1>0, <1>1 DEF PipeTypes
<1>3. Core(r, v, f) /\ NoReads(p, r) /\ SameBody(p, r)
  <2>1. PipeOK(r) /\ ConsumerOK(r, v, f)
    BY <1>2 DEF Core, PipeOK, ConsumerOK
  <2>2. CallsTrue(r) /\ ClosedOK(r, v, f)
    BY <1>2 DEF Core, CallsTrue, ClosedOK
  <2> QED
    BY <1>0, <1>2, <2>1, <2>2, NoReadsSame DEF Core, SameBody
<1>4. DataFirst(r, v)
  BY <1>2 DEF DataFirst, Behind, Told
<1>5. CASE p.consumer = None /\ Content(p) > 0
  <2>1. q = StartAutoConsumption(r)
    BY <1>1, <1>5 DEF EnableAutoConsumption
  <2>2. /\ Core(q, v, f) /\ DataFirst(q, v) /\ NoReads(r, q)
        /\ SameBody(r, q)
    BY <1>2, <1>3, <1>5, <2>1, StartAutoCore
  <2>3. NoReads(p, q)
    BY <1>0, <1>2, <1>3, <2>2, NoReadsAdds DEF Core, PipeOK
  <2> QED
    BY <1>3, <2>2, <2>3 DEF SameBody
<1>6. CASE ~(p.consumer = None /\ Content(p) > 0)
  <2>1. q = r
    BY <1>1, <1>6 DEF EnableAutoConsumption
  <2> QED
    BY <1>3, <1>4, <2>1
<1> QED
  BY <1>5, <1>6

-----------------------------------------------------------------------------
(* The consumer's operations on the pipe.                                  *)

(* expectNoConsumption(), when nobody is attached or it was called before; *)
(* the sink is not started, for only an abort enables it.                  *)
LEMMA ExpectNoCore ==
    ASSUME NEW p, NEW v, NEW f, Core(p, v, f), p.get > 0 \/ f = "done",
           p.aborted \/ p.consumer = None,
           NEW q, q = ExpectNoConsumption(p)
    PROVE  /\ Core(q, v, f) /\ NoReads(p, q) /\ SameBody(p, q)
           /\ q.get = p.get /\ q.consumer = p.consumer
           /\ NoCloses(p) => NoCloses(q)
           /\ DataFirst(p, v) => DataFirst(q, v)
<1>0. p \in PipeTypes /\ (p.auto => p.aborted)
  BY DEF Core, PipeOK
<1>1. CASE p.aborted \/ Exhausted(p)
  <2>1. q = p
    BY <1>1 DEF ExpectNoConsumption
  <2> QED
    BY <1>0, <2>1, NoReadsSame DEF SameBody
<1>2. CASE ~(p.aborted \/ Exhausted(p))
  <2>1. PICK r : r = [p EXCEPT !.aborted = TRUE]
    OBVIOUS
  <2>2. /\ r \in PipeTypes /\ r.aborted /\ r.size = p.size
        /\ r.put = p.put /\ r.get = p.get /\ r.producer = p.producer
        /\ r.consumer = p.consumer /\ r.auto = p.auto
        /\ r.failed = p.failed /\ r.calls = p.calls
    BY <1>0, <2>1 DEF PipeTypes
  <2>3. Core(r, v, f) /\ NoReads(p, r) /\ SameBody(p, r)
    <3>1. PipeOK(r) /\ ConsumerOK(r, v, f)
      BY <2>2 DEF Core, PipeOK, ConsumerOK
    <3>2. CallsTrue(r) /\ ClosedOK(r, v, f)
      BY <2>2 DEF Core, CallsTrue, ClosedOK
    <3> QED
      BY <1>0, <2>2, <3>1, <3>2, NoReadsSame DEF Core, SameBody
  <2>4. DataFirst(p, v) => DataFirst(r, v)
    BY <2>2 DEF DataFirst, Behind, Told
  <2>c. NoCloses(p) => NoCloses(r)
    BY <2>2 DEF NoCloses
  <2>5. PICK call : call = <<"abort", None>>
    OBVIOUS
  <2>6. call \in Calls /\ call[1] = "abort"
    BY <2>5 DEF Calls
  <2>7. PICK s : s = Schedule(r, call)
    OBVIOUS
  <2>8. /\ Core(s, v, f) /\ SamePipe(r, s) /\ NoReads(r, s)
        /\ DataFirst(r, v) => DataFirst(s, v)
        /\ NoCloses(r) => NoCloses(s)
    BY <2>2, <2>3, <2>6, <2>7, ScheduleCore
  <2>9. q = s
    <3>1. ~s.auto /\ p.consumer = None
      BY <1>0, <1>2, <2>2, <2>8 DEF SamePipe
    <3> QED
      BY <1>2, <2>1, <2>5, <2>7, <3>1 DEF ExpectNoConsumption
  <2>10. NoReads(p, q)
    BY <1>0, <2>2, <2>3, <2>8, <2>9, NoReadsAdds DEF Core, PipeOK
  <2> QED
    BY <2>2, <2>4, <2>8, <2>9, <2>10, <2>c DEF SamePipe, SameBody
<1> QED
  BY <1>1, <1>2

(* clearConsumer() leaves the pipe without a consumer; a server that stays *)
(* open has had the whole body.                                            *)
LEMMA ClearConsumerCore ==
    ASSUME NEW p, NEW v, NEW f, Core(p, v, f),
           v.open => v.whole /\ v.took = p.put,
           NEW q, q = ClearConsumer(p)
    PROVE  /\ Core(q, v, f) /\ NoReads(p, q) /\ SameBody(p, q)
           /\ q.get = p.get /\ q.consumer = None /\ DataFirst(q, v)
           /\ NoCloses(p) => NoCloses(q)
<1>0. p \in PipeTypes
  BY DEF Core, PipeOK
<1>1. PICK r : r = [p EXCEPT !.consumer = None]
  OBVIOUS
<1>2. /\ r \in PipeTypes /\ r.consumer = None /\ r.size = p.size
      /\ r.put = p.put /\ r.get = p.get /\ r.producer = p.producer
      /\ r.aborted = p.aborted /\ r.auto = p.auto
      /\ r.failed = p.failed /\ r.calls = p.calls
  BY <1>0, <1>1 DEF PipeTypes
<1>3. Core(r, v, f) /\ NoReads(p, r) /\ SameBody(p, r)
  <2>1. None # Sink /\ None \notin Servers
    BY Bounds
  <2>2. PipeOK(r) /\ ConsumerOK(r, v, f)
    BY <1>2, <2>1 DEF Core, PipeOK, ConsumerOK
  <2>3. CallsTrue(r) /\ ClosedOK(r, v, f)
    BY <1>2 DEF Core, CallsTrue, ClosedOK
  <2> QED
    BY <1>0, <1>2, <2>2, <2>3, NoReadsSame DEF Core, SameBody
<1>c. NoCloses(p) => NoCloses(r)
  BY <1>2 DEF NoCloses
<1>4. v.n # None
  BY Bounds DEF Core, ConsumerOK, ServerStates
<1>5. CASE p.consumer # None /\ r.get > 0
  <2>1. q = ExpectNoConsumption(r)
    BY <1>1, <1>5 DEF ClearConsumer
  <2>2. /\ Core(q, v, f) /\ NoReads(r, q) /\ SameBody(r, q)
        /\ q.get = r.get /\ q.consumer = r.consumer
        /\ NoCloses(r) => NoCloses(q)
    BY <1>2, <1>3, <1>5, <2>1, ExpectNoCore
  <2>3. NoReads(p, q)
    BY <1>0, <1>2, <1>3, <2>2, NoReadsAdds DEF Core, PipeOK
  <2> QED
    BY <1>2, <1>3, <1>4, <1>c, <2>2, <2>3 DEF SameBody, DataFirst, Behind
<1>6. CASE ~(p.consumer # None /\ r.get > 0)
  <2>1. q = r
    BY <1>1, <1>6 DEF ClearConsumer
  <2> QED
    BY <1>2, <1>3, <1>4, <1>c, <2>1 DEF SameBody, DataFirst, Behind
<1> QED
  BY <1>5, <1>6

(* What postConsume() of all of theBuf leaves: for a server, which then is *)
(* in the state w and has taken all that was put, or for the sink.         *)
LEMMA PostConsumeCore ==
    ASSUME NEW p, NEW v, NEW f, Core(p, v, f), p.consumer # None,
           NEW w \in ServerStates, w.n = v.n, w.open = v.open,
           w.whole = v.whole,
           p.consumer \in Servers => w.took = p.put,
           p.consumer \notin Servers => w = v,
           NEW q, q = PostConsume(p, Content(p))
    PROVE  /\ Core(q, w, f) /\ NoReads(p, q) /\ SameBody(p, q)
           /\ DataFirst(q, w)
<1>0. /\ p \in PipeTypes /\ p.put \in 0..MaxBody /\ p.get \in 0..MaxBody
      /\ p.get <= p.put
  BY DEF Core, PipeOK, PipeTypes
<1>1. PICK r : r = [p EXCEPT !.get = p.put]
  OBVIOUS
<1>2. /\ r \in PipeTypes /\ r.get = p.put /\ r.size = p.size
      /\ r.put = p.put /\ r.producer = p.producer
      /\ r.consumer = p.consumer /\ r.aborted = p.aborted
      /\ r.auto = p.auto /\ r.failed = p.failed /\ r.calls = p.calls
  BY <1>0, <1>1 DEF PipeTypes
<1>3. r = [p EXCEPT !.get = @ + Content(p)]
  BY <1>0, <1>1 DEF Content
<1>4. Core(r, w, f) /\ NoReads(p, r) /\ SameBody(p, r)
  <2>1. PipeOK(r)
    BY <1>0, <1>2, Bounds DEF Core, PipeOK
  <2>2. ConsumerOK(r, w, f)
    <3>1. p.aborted => r.get > 0 \/ f = "done"
      BY <1>0, <1>2 DEF Core, ConsumerOK
    <3>2. f \notin {"callouts", "connecting"}
      BY DEF Core, ConsumerOK
    <3>3. w.open => r.consumer = w.n \/ (w.whole /\ w.took = r.put)
      <4>1. CASE p.consumer \in Servers
        BY <1>2, <4>1 DEF Core, ConsumerOK
      <4>2. CASE p.consumer \notin Servers
        BY <1>2, <4>2 DEF Core, ConsumerOK
      <4> QED
        BY <4>1, <4>2
    <3> QED
      BY <1>2, <3>1, <3>2, <3>3 DEF Core, ConsumerOK
  <2>3. CallsTrue(r) /\ ClosedOK(r, w, f)
    BY <1>2 DEF Core, CallsTrue, ClosedOK
  <2> QED
    BY <1>0, <1>2, <2>1, <2>2, <2>3, NoReadsSame DEF Core, SameBody
<1>5. DataFirst(r, w)
  BY <1>0, <1>2 DEF DataFirst, Behind
<1>6. CASE MayNeedMoreData(r)
  <2>1. PICK call : call = <<"space", None>>
    OBVIOUS
  <2>2. call \in Calls /\ call[1] = "space"
    BY <2>1 DEF Calls
  <2>3. q = Schedule(r, call)
    BY <1>3, <1>6, <2>1 DEF PostConsume
  <2>4. Core(q, w, f) /\ SamePipe(r, q) /\ NoReads(r, q) /\ DataFirst(q, w)
    BY <1>4, <1>5, <2>2, <2>3, ScheduleCore
  <2>5. NoReads(p, q)
    BY <1>0, <1>2, <1>4, <2>4, NoReadsAdds DEF Core, PipeOK
  <2> QED
    BY <1>4, <2>4, <2>5 DEF SamePipe, SameBody
<1>7. CASE ~MayNeedMoreData(r)
  <2>1. q = r
    BY <1>3, <1>7 DEF PostConsume
  <2> QED
    BY <1>4, <1>5, <2>1
<1> QED
  BY <1>6, <1>7

(* setConsumerIfNotLate() of the server w, in the place of v, which never  *)
(* had any of the body.                                                    *)
LEMMA SetConsumerCore ==
    ASSUME NEW p, NEW v, Core(p, v, "connecting"),
           NEW w \in ServerStates, w.n \in Servers, w.sender = "armed",
           w.took = 0, ~w.whole, NEW q, q = SetConsumer(p, w.n)
    PROVE  /\ Core(q, w, "serving") /\ NoReads(p, q) /\ SameBody(p, q)
           /\ DataFirst(q, w)
<1>0. /\ p \in PipeTypes /\ ~p.failed /\ p.consumer = None /\ p.get = 0
      /\ ~p.aborted
  BY DEF Core, PipeOK, ConsumerOK
<1>1. Must(p, p.consumer = None /\ p.get = 0 /\ ~p.aborted) = p
  <2>1. (p.consumer = None /\ p.get = 0 /\ ~p.aborted) \in BOOLEAN
    OBVIOUS
  <2> QED
    BY <1>0, <2>1, MustHolds
<1>2. PICK r : r = [p EXCEPT !.consumer = w.n]
  OBVIOUS
<1>3. /\ r \in PipeTypes /\ r.consumer = w.n /\ r.size = p.size
      /\ r.put = p.put /\ r.get = p.get /\ r.producer = p.producer
      /\ r.aborted = p.aborted /\ r.auto = p.auto
      /\ r.failed = p.failed /\ r.calls = p.calls
  BY <1>0, <1>2 DEF PipeTypes, Consumers
<1>4. w.n # Sink /\ w.n # None
  BY Bounds
<1>5. Core(r, w, "serving") /\ NoReads(p, r) /\ SameBody(p, r)
  <2>1. PipeOK(r)
    BY <1>3, <1>4 DEF Core, PipeOK
  <2>2. ConsumerOK(r, w, "serving")
    BY <1>0, <1>3, <1>4 DEF ConsumerOK
  <2>3. CallsTrue(r)
    BY <1>3 DEF Core, CallsTrue
  <2>4. ClosedOK(r, w, "serving")
    BY <1>3 DEF Core, ClosedOK
  <2> QED
    BY <1>0, <1>3, <2>1, <2>2, <2>3, <2>4, NoReadsSame DEF Core, SameBody
<1>6. PICK s : s = IF Content(r) > 0
                   THEN ScheduleBodyDataNotification(r) ELSE r
  OBVIOUS
<1>7. Core(s, w, "serving") /\ NoReads(r, s) /\ SamePipe(r, s)
  <2>1. CASE Content(r) > 0
    <3>1. PICK call : call = <<"data", r.consumer>>
      OBVIOUS
    <3>2. call \in Calls /\ call[1] = "data"
      BY <1>3, <3>1 DEF Calls, Consumers
    <3>3. s = Schedule(r, call)
      BY <1>3, <1>4, <1>6, <2>1, <3>1 DEF ScheduleBodyDataNotification
    <3> QED
      BY <1>5, <3>2, <3>3, ScheduleCore
  <2>2. CASE ~(Content(r) > 0)
    <3>1. s = r
      BY <1>6, <2>2
    <3> QED
      BY <1>3, <1>5, <3>1, NoReadsSame DEF SamePipe
  <2> QED
    BY <2>1, <2>2
<1>8. q = IF p.producer THEN s ELSE ScheduleBodyEndNotification(s)
  BY <1>1, <1>2, <1>6 DEF SetConsumer
<1>9. Core(q, w, "serving") /\ NoReads(s, q) /\ SamePipe(s, q)
  <2>0. s \in PipeTypes /\ s.producer = p.producer
    BY <1>3, <1>7 DEF Core, PipeOK, SamePipe
  <2>1. CASE p.producer
    <3>1. q = s
      BY <1>8, <2>1
    <3> QED
      BY <1>7, <2>0, <3>1, NoReadsSame DEF SamePipe
  <2>2. CASE ~p.producer
    BY <1>7, <1>8, <2>0, <2>2, EndNotification
  <2> QED
    BY <2>1, <2>2
<1>10. NoReads(p, q)
  <2>1. s \in PipeTypes /\ q \in PipeTypes
    BY <1>7, <1>9 DEF Core, PipeOK
  <2>2. NoReads(p, s)
    BY <1>0, <1>3, <1>5, <1>7, <2>1, NoReadsAdds
  <2> QED
    BY <1>0, <1>9, <2>1, <2>2, NoReadsAdds
<1>11. DataFirst(q, w)
  BY DEF DataFirst, Behind
<1> QED
  BY <1>5, <1>7, <1>9, <1>10, <1>11 DEF SamePipe, SameBody

-----------------------------------------------------------------------------
(* The calls and the connection.                                           *)

(* A call whose kind is "read" is for at most what the buffer holds, one   *)
(* to a consumer names it.                                                 *)
LEMMA CallKinds ==
    ASSUME NEW call \in Calls
    PROVE  /\ call[1] = "read" => call[2] \in 0..InSize
           /\ call[1] \in {"data", "ended", "aborted"} =>
                    call[2] \in Consumers
           /\ call[1] \in {"sent", "serverclosed"} => call[2] \in Servers
           /\ call = <<call[1], call[2]>>
BY DEF Calls

(* Operations that change nothing of what was produced. *)
LEMMA BodySame ==
    ASSUME NEW p, NEW q, NEW c, BodyOK(p, c), SameBody(p, q)
    PROVE  BodyOK(q, c)
BY DEF BodyOK, SameBody

(* New calls are no reads, and the buffer has no less room than before. *)
LEMMA ReadsSame ==
    ASSUME NEW p \in PipeTypes, NEW q \in PipeTypes, NoReads(p, q),
           NEW c \in Conns, NEW d \in Conns, ReadsOK(p, c),
           c.reader = "fired" => d.reader = "fired",
           d.unsent = c.unsent, d.inBuf <= c.inBuf
    PROVE  ReadsOK(q, d)
<1>1. /\ Len(p.calls) \in Nat /\ Len(q.calls) \in Nat
      /\ p.calls \in Seq(Calls)
  BY DEF PipeTypes
<1>a. \A i \in 1..Len(p.calls) : p.calls[i] \in Calls
  BY <1>1
<1>2. \A i \in 1..Len(q.calls) : q.calls[i][1] = "read" =>
            /\ i \in 1..Len(p.calls) /\ p.calls[i] = q.calls[i]
            /\ p.calls[i][1] = "read"
  BY <1>1 DEF NoReads
<1>3. c.inBuf \in Nat /\ d.inBuf \in Nat /\ InSize \in Nat
  BY Bounds DEF Conns
<1>4. ASSUME NEW i \in 1..Len(q.calls), q.calls[i][1] = "read"
      PROVE  /\ d.reader = "fired" /\ q.calls[i][2] <= d.unsent
             /\ q.calls[i][2] + d.inBuf <= InSize
  <2>1. PICK call : call = p.calls[i]
    OBVIOUS
  <2>2. /\ i \in 1..Len(p.calls) /\ call = q.calls[i] /\ call[1] = "read"
    BY <1>2, <1>4, <2>1
  <2>3. call \in Calls
    BY <1>a, <2>1, <2>2
  <2>4. call[2] \in Int
    BY <1>3, <2>2, <2>3, CallKinds
  <2>5. /\ c.reader = "fired" /\ call[2] <= c.unsent
        /\ call[2] + c.inBuf <= InSize
    BY <2>1, <2>2 DEF ReadsOK
  <2> QED
    BY <1>3, <2>2, <2>4, <2>5
<1>5. ASSUME NEW i \in 1..Len(q.calls), NEW j \in 1..Len(q.calls),
             q.calls[i][1] = "read", q.calls[j][1] = "read"
      PROVE  i = j
  BY <1>2, <1>5, Zenon DEF ReadsOK
<1> QED
  BY <1>4, <1>5 DEF ReadsOK

Dialing(p, q, v, f, c, call) ==
    /\ Core(q, v, f) /\ SamePipe(p, q) /\ ReadsOK(q, c)
    /\ call \in Calls
    /\ call # <<"data", v.n>> => DataFirst(q, v)
    /\ call = <<"ended", v.n>> => ~Behind(p, v)
    /\ call[1] = "ended" => ~p.producer /\ p.size = p.put
    /\ call[1] = "abort" => p.aborted
    /\ call[1] = "read" =>
         /\ \A i \in 1..Len(q.calls) : q.calls[i][1] # "read"
         /\ call[2] <= c.unsent /\ call[2] + c.inBuf <= InSize
         /\ c.reader = "fired"
    /\ call[1] = "serverclosed" =>
         /\ \A i \in 1..Len(q.calls) : q.calls[i][1] # "serverclosed"
         /\ ~v.open /\ f = "serving"

(* Dialing the first call.  If it is for a server that waits for data, it  *)
(* is no end of the body; a read and a close handler were the only ones.   *)
LEMMA DialCore ==
    ASSUME NEW p, NEW v, NEW f, NEW c, Core(p, v, f), ReadsOK(p, c),
           DataFirst(p, v), p.calls # <<>>,
           NEW q, q = [p EXCEPT !.calls = Tail(p.calls)],
           NEW call, call = Head(p.calls)
    PROVE  Dialing(p, q, v, f, c, call)
<1>0. p \in PipeTypes
  BY DEF Core, PipeOK
<1>1. /\ q \in PipeTypes /\ SamePipe(p, q) /\ Len(q.calls) \in Nat
      /\ Len(p.calls) = Len(q.calls) + 1
      /\ call = p.calls[1] /\ call \in Calls
      /\ \A i \in 1..Len(q.calls) : q.calls[i] = p.calls[i + 1]
  BY <1>0, Dialed
<1>2. /\ 1 \in 1..Len(p.calls)
      /\ \A i \in 1..Len(q.calls) : i + 1 \in 1..Len(p.calls) /\ i + 1 # 1
      /\ \A i, j \in 1..Len(q.calls) : i + 1 = j + 1 => i = j
  BY <1>1
<1>3. PipeOK(q) /\ ConsumerOK(q, v, f)
  BY <1>1 DEF Core, PipeOK, ConsumerOK, SamePipe
<1>4. /\ CallsTrue(q)
      /\ call[1] = "ended" => ~p.producer /\ p.size = p.put
      /\ call[1] = "abort" => p.aborted
  <2>1. CallsTrue(p)
    BY DEF Core
  <2> QED
    BY <1>1, <1>2, <2>1 DEF CallsTrue, SamePipe
<1>5. /\ ReadsOK(q, c)
      /\ call[1] = "read" =>
            /\ \A i \in 1..Len(q.calls) : q.calls[i][1] # "read"
            /\ call[2] <= c.unsent /\ call[2] + c.inBuf <= InSize
            /\ c.reader = "fired"
  <2>1. \A i \in 1..Len(p.calls) : p.calls[i][1] = "read" =>
            /\ c.reader = "fired" /\ p.calls[i][2] <= c.unsent
            /\ p.calls[i][2] + c.inBuf <= InSize
    BY Zenon DEF ReadsOK
  <2>2. ASSUME NEW i \in 1..Len(p.calls), NEW j \in 1..Len(p.calls),
               p.calls[i][1] = "read", p.calls[j][1] = "read"
        PROVE  i = j
    BY <2>2, Zenon DEF ReadsOK
  <2>3. \A i \in 1..Len(q.calls) : q.calls[i][1] = "read" =>
            /\ c.reader = "fired" /\ q.calls[i][2] <= c.unsent
            /\ q.calls[i][2] + c.inBuf <= InSize
    <3> SUFFICES ASSUME NEW i \in 1..Len(q.calls),
                        q.calls[i][1] = "read"
                 PROVE  /\ c.reader = "fired" /\ q.calls[i][2] <= c.unsent
                        /\ q.calls[i][2] + c.inBuf <= InSize
      OBVIOUS
    <3>1. q.calls[i] = p.calls[i + 1] /\ i + 1 \in 1..Len(p.calls)
      BY <1>1, <1>2
    <3> QED
      BY <2>1, <3>1, Zenon
  <2>4. ASSUME NEW i \in 1..Len(q.calls), NEW j \in 1..Len(q.calls),
               q.calls[i][1] = "read", q.calls[j][1] = "read"
        PROVE  i = j
    <3>1. i + 1 = j + 1
      BY <1>1, <1>2, <2>2, <2>4
    <3> QED
      BY <1>2, <3>1, Zenon
  <2>5. ASSUME NEW i \in 1..Len(q.calls), q.calls[i][1] = "read"
        PROVE  call[1] # "read"
    <3>1. /\ i + 1 \in 1..Len(p.calls) /\ p.calls[i + 1][1] = "read"
          /\ i + 1 # 1
      BY <1>1, <1>2, <2>5
    <3> QED
      BY <1>1, <1>2, <2>2, <3>1
  <2>6. ReadsOK(q, c)
    BY <2>3, <2>4, Zenon DEF ReadsOK
  <2>7. ASSUME call[1] = "read"
        PROVE  /\ call[2] <= c.unsent /\ call[2] + c.inBuf <= InSize
               /\ c.reader = "fired"
    <3>1. p.calls[1][1] = "read" /\ p.calls[1][2] = call[2]
      BY <1>1, <2>7
    <3> QED
      BY <1>2, <2>1, <3>1, Zenon
  <2> QED
    BY <2>5, <2>6, <2>7, Zenon
<1>6. /\ ClosedOK(q, v, f)
      /\ call[1] = "serverclosed" =>
            /\ \A i \in 1..Len(q.calls) : q.calls[i][1] # "serverclosed"
            /\ ~v.open /\ f = "serving"
  <2>1. ClosedOK(p, v, f)
    BY DEF Core
  <2> QED
    <3>1. \A i \in 1..Len(p.calls) : p.calls[i][1] = "serverclosed" =>
              ~v.open /\ f = "serving"
      BY <2>1, Zenon DEF ClosedOK
    <3>2. ASSUME NEW i \in 1..Len(p.calls), NEW j \in 1..Len(p.calls),
                 p.calls[i][1] = "serverclosed",
                 p.calls[j][1] = "serverclosed"
          PROVE  i = j
      BY <2>1, <3>2, Zenon DEF ClosedOK
    <3>3. \A i \in 1..Len(q.calls) : q.calls[i][1] = "serverclosed" =>
              ~v.open /\ f = "serving"
      BY <1>1, <1>2, <3>1, Zenon
    <3>4. ASSUME NEW i \in 1..Len(q.calls), NEW j \in 1..Len(q.calls),
                 q.calls[i][1] = "serverclosed",
                 q.calls[j][1] = "serverclosed"
          PROVE  i = j
      <4>1. i + 1 = j + 1
        BY <1>1, <1>2, <3>2, <3>4
      <4> QED
        BY <1>2, <4>1, Zenon
    <3>5. ASSUME NEW i \in 1..Len(q.calls), q.calls[i][1] = "serverclosed"
          PROVE  call[1] # "serverclosed"
      <4>1. /\ i + 1 \in 1..Len(p.calls) /\ i + 1 # 1
            /\ p.calls[i + 1][1] = "serverclosed"
        BY <1>1, <1>2, <3>5
      <4> QED
        BY <1>1, <1>2, <3>2, <4>1
    <3>6. ClosedOK(q, v, f)
      BY <3>3, <3>4, Zenon DEF ClosedOK
    <3> QED
      BY <1>1, <1>2, <3>1, <3>5, <3>6, Zenon
<1>7. ASSUME call = <<"ended", v.n>> PROVE ~Behind(p, v)
  <2> SUFFICES ASSUME Told(p, v.n) PROVE FALSE
    BY DEF DataFirst
  <2>1. PICK j \in 1..Len(p.calls) :
            \A i \in 1..j : p.calls[i] # <<"ended", v.n>>
    BY DEF Told
  <2>2. 1 \in 1..j
    BY <1>1
  <2> QED
    BY <1>1, <1>7, <2>1, <2>2
<1>8. ASSUME call # <<"data", v.n>> PROVE DataFirst(q, v)
  <2> SUFFICES ASSUME Behind(q, v) PROVE Told(q, v.n)
    BY DEF DataFirst
  <2>1. Told(p, v.n)
    BY <1>1 DEF DataFirst, Behind, SamePipe
  <2>2. PICK j \in 1..Len(p.calls) :
            /\ p.calls[j] = <<"data", v.n>>
            /\ \A i \in 1..j : p.calls[i] # <<"ended", v.n>>
    BY <2>1 DEF Told
  <2>3. PICK k : k = j - 1
    OBVIOUS
  <2>4. j # 1
    BY <1>1, <1>8, <2>2
  <2>5. /\ k \in 1..Len(q.calls) /\ k + 1 = j
        /\ \A i \in 1..k : i \in 1..Len(q.calls) /\ i + 1 \in 1..j
    BY <1>1, <2>3, <2>4
  <2> QED
    BY <1>1, <2>2, <2>5 DEF Told
<1> QED
  BY <1>1, <1>3, <1>4, <1>5, <1>6, <1>7, <1>8 DEF Core, Dialing

-----------------------------------------------------------------------------
(* The connection's operations.  They keep the invariant whatever the      *)
(* server v and the forwarding f do in the meantime.                       *)
ClientStates == [p : PipeTypes, c : Conns]

ClientInv(s, v, f) ==
    /\ s \in ClientStates /\ Core(s.p, v, f) /\ DataFirst(s.p, v)
    /\ BodyOK(s.p, s.c) /\ ReadsOK(s.p, s.c)

SameBuffer(c, d) ==
    /\ d.body = c.body /\ d.unsent = c.unsent /\ d.inBuf = c.inBuf
    /\ d.chunked = c.chunked /\ d.malformed = c.malformed
    /\ c.reader = "fired" => d.reader = "fired"

(* Nothing is produced and the buffer stays as it was. *)
LEMMA ClientKeeps ==
    ASSUME NEW s, NEW v, NEW f, ClientInv(s, v, f), NEW t \in ClientStates,
           Core(t.p, v, f), DataFirst(t.p, v), NoReads(s.p, t.p),
           SameBody(s.p, t.p), SameBuffer(s.c, t.c)
    PROVE  ClientInv(t, v, f)
<1>1. /\ s.p \in PipeTypes /\ t.p \in PipeTypes /\ s.c \in Conns
      /\ t.c \in Conns
  BY DEF ClientInv, ClientStates
<1>2. BodyOK(t.p, t.c)
  BY <1>1 DEF ClientInv, BodyOK, SameBody, SameBuffer
<1>3. ReadsOK(t.p, t.c)
  <2>1. s.c.inBuf \in Int
    BY <1>1 DEF Conns
  <2>2. /\ s.c.reader = "fired" => t.c.reader = "fired"
        /\ t.c.unsent = s.c.unsent /\ t.c.inBuf <= s.c.inBuf
    BY <2>1 DEF SameBuffer
  <2> QED
    BY <1>1, <2>2, ReadsSame DEF ClientInv
<1> QED
  BY <1>2, <1>3 DEF ClientInv

(* The same when the pipe is not touched at all. *)
LEMMA ClientOnly ==
    ASSUME NEW s, NEW v, NEW f, ClientInv(s, v, f), NEW c \in Conns,
           SameBuffer(s.c, c), NEW t, t = [s EXCEPT !.c = c]
    PROVE  /\ ClientInv(t, v, f) /\ t.p = s.p /\ t.c = c
<1>1. t \in ClientStates /\ t.p = s.p /\ t.c = c /\ s.p \in PipeTypes
  BY DEF ClientInv, ClientStates
<1>2. NoReads(s.p, t.p) /\ SameBody(s.p, t.p)
  BY <1>1, NoReadsSame DEF SameBody
<1>3. Core(t.p, v, f) /\ DataFirst(t.p, v)
  BY <1>1 DEF ClientInv
<1> QED
  BY <1>1, <1>2, <1>3, ClientKeeps

(* clientConnection->close() schedules the close handler. *)
LEMMA ClientCloseInv ==
    ASSUME NEW s, NEW v, NEW f, ClientInv(s, v, f),
           NEW t, t = ClientClose(s)
    PROVE  ClientInv(t, v, f)
<1>0. s.p \in PipeTypes /\ s.c \in Conns
  BY DEF ClientInv, ClientStates
<1>1. CASE s.c.open
  <2>1. PICK call : call = <<"closed", None>>
    OBVIOUS
  <2>2. call \in Calls /\ call[1] = "closed"
    BY <2>1 DEF Calls
  <2>3. PICK q : q = Schedule(s.p, call)
    OBVIOUS
  <2>4. /\ Core(q, v, f) /\ SamePipe(s.p, q) /\ NoReads(s.p, q)
        /\ DataFirst(q, v)
    BY <2>2, <2>3, ScheduleCore DEF ClientInv
  <2>5. PICK c : c = [s.c EXCEPT !.open = FALSE]
    OBVIOUS
  <2>6. c \in Conns /\ SameBuffer(s.c, c)
    BY <1>0, <2>5 DEF Conns, SameBuffer
  <2>7. t = [p |-> q, c |-> c]
    BY <1>1, <2>1, <2>3, <2>5 DEF ClientClose
  <2>8. t \in ClientStates /\ t.p = q /\ t.c = c
    BY <2>4, <2>6, <2>7 DEF ClientStates, Core, PipeOK
  <2>9. SameBody(s.p, t.p)
    BY <2>4, <2>8 DEF SamePipe, SameBody
  <2> QED
    BY <2>4, <2>6, <2>8, <2>9, ClientKeeps
<1>2. CASE ~s.c.open
  BY <1>2 DEF ClientClose
<1> QED
  BY <1>1, <1>2

(* handleRequestBodyData() for a body of a known size: what the pipe takes *)
(* leaves the buffer, and the last unit ends the production.               *)
LEMMA PlainInv ==
    ASSUME NEW s, NEW v, NEW f, ClientInv(s, v, f), s.p.producer,
           ~s.c.chunked, NEW t, t = HandlePlainRequestBody(s)
    PROVE  ClientInv(t, v, f)
<1>0. /\ s.p \in PipeTypes /\ s.c \in Conns /\ PipeOK(s.p)
      /\ Core(s.p, v, f) /\ DataFirst(s.p, v)
  BY DEF ClientInv, ClientStates, Core
<1>1. /\ s.c.inBuf \in 0..InSize /\ s.c.unsent \in Nat
      /\ s.c.body \in 1..MaxBody /\ s.p.put \in Nat
  BY <1>0, Bounds DEF Conns, PipeTypes
<1>2. /\ s.p.size = s.c.body /\ s.p.put < s.p.size
      /\ s.p.put + s.c.inBuf + s.c.unsent = s.c.body
      /\ ~s.c.malformed
  BY DEF ClientInv, BodyOK
<1>3. PICK n : n = Accepted(s.p, s.c.inBuf)
  OBVIOUS
<1>4. n \in Nat /\ n <= s.c.inBuf /\ s.p.put + n <= s.p.size
  <2>1. s.p.size # Unknown /\ s.p.put <= s.p.size /\ s.c.inBuf \in Nat
    BY <1>1, <1>2, Bounds DEF Unknown
  <2> QED
    BY <1>0, <1>3, <2>1, AcceptedFits
<1>5. PICK q : q = PutMoreData(s.p, s.c.inBuf)
  OBVIOUS
<1>6. /\ Core(q, v, f) /\ DataFirst(q, v) /\ NoReads(s.p, q)
      /\ q.put = s.p.put + n /\ q.size = s.p.size
      /\ q.producer <=> (q.size # Unknown => q.put < q.size)
  <2>1. s.c.inBuf \in Nat /\ s.p.put + n <= MaxBody
    BY <1>1, <1>2, <1>4, Bounds
  <2> QED
    BY <1>0, <1>2, <1>3, <1>5, <2>1, PutMoreDataCore
<1>7. PICK c : c = [s.c EXCEPT !.inBuf = s.c.inBuf - n]
  OBVIOUS
<1>8. s.c.inBuf - n \in 0..InSize
  BY <1>1, <1>4, Bounds
<1>9. /\ c \in Conns /\ c.inBuf = s.c.inBuf - n /\ c.body = s.c.body
      /\ c.unsent = s.c.unsent /\ c.chunked = s.c.chunked
      /\ c.malformed = s.c.malformed /\ c.reader = s.c.reader
  BY <1>0, <1>7, <1>8 DEF Conns
<1>10. t = [p |-> q, c |-> c]
  BY <1>3, <1>5, <1>7 DEF HandlePlainRequestBody
<1>11. t \in ClientStates /\ t.p = q /\ t.c = c /\ q \in PipeTypes
  BY <1>6, <1>9, <1>10 DEF ClientStates, Core, PipeOK
<1>12. BodyOK(q, c)
  <2>1. /\ q.put <= c.body /\ q.size = c.body
        /\ q.put + c.inBuf + c.unsent = c.body
        /\ q.producer => q.put < q.size
        /\ q.size = q.put => c.unsent = 0
    BY <1>1, <1>2, <1>4, <1>6, <1>8, <1>9 DEF Unknown
  <2> QED
    BY <1>2, <1>9, <2>1 DEF BodyOK
<1>13. ReadsOK(q, c)
  <2>1. ReadsOK(s.p, s.c) /\ c.inBuf <= s.c.inBuf
    BY <1>1, <1>4, <1>9 DEF ClientInv
  <2> QED
    BY <1>0, <1>6, <1>9, <1>11, <2>1, ReadsSame
<1> QED
  BY <1>6, <1>11, <1>12, <1>13 DEF ClientInv

(* The same for a chunked body, whose size is known at its last chunk: all *)
(* of it was put by then.  A malformed chunk, and one that exceeds the     *)
(* limit, ends it with an abort.                                           *)
LEMMA ChunkedInv ==
    ASSUME NEW s, NEW v, NEW f, ClientInv(s, v, f), s.p.producer,
           s.c.chunked, s.c.inBuf # 0,
           NEW t, t = HandleChunkedRequestBody(s)
    PROVE  ClientInv(t, v, f)
<1>0. /\ s.p \in PipeTypes /\ s.c \in Conns /\ PipeOK(s.p)
      /\ Core(s.p, v, f) /\ DataFirst(s.p, v) /\ ReadsOK(s.p, s.c)
  BY DEF ClientInv, ClientStates, Core
<1>1. /\ s.c.inBuf \in 0..InSize /\ s.c.unsent \in Nat
      /\ s.c.body \in 1..MaxBody /\ s.p.put \in Nat
  BY <1>0, Bounds DEF Conns, PipeTypes
<1>2. /\ s.p.size = Unknown
      /\ s.p.put + s.c.inBuf + s.c.unsent = s.c.body + 1
  BY DEF ClientInv, BodyOK
<1>3. PICK last : last = IF s.c.unsent = 0 THEN 1 ELSE 0
  OBVIOUS
<1>4. PICK units : units = s.c.inBuf - last
  OBVIOUS
<1>5. PICK n : n = Accepted(s.p, units)
  OBVIOUS
<1>6. units \in Nat /\ last \in {0, 1}
  BY <1>1, <1>3, <1>4, Bounds
<1>7. n \in Nat /\ n <= units
  BY <1>0, <1>2, <1>5, <1>6, AcceptedFits
<1>8. PICK q : q = PutMoreData(s.p, units)
  OBVIOUS
<1>9. /\ s.p.put + n <= s.c.body /\ s.p.put + n <= MaxBody
      /\ s.c.inBuf - n \in 0..InSize
  BY <1>1, <1>2, <1>3, <1>4, <1>6, <1>7, Bounds
<1>10. /\ Core(q, v, f) /\ DataFirst(q, v) /\ NoReads(s.p, q)
       /\ q.put = s.p.put + n /\ q.size = Unknown /\ q.producer
  BY <1>0, <1>2, <1>5, <1>6, <1>8, <1>9, PutMoreDataCore
<1>11. PICK c : c = [s.c EXCEPT !.inBuf = s.c.inBuf - n]
  OBVIOUS
<1>12. /\ c \in Conns /\ c.inBuf = s.c.inBuf - n /\ c.body = s.c.body
       /\ c.unsent = s.c.unsent /\ c.chunked = s.c.chunked
       /\ c.malformed = s.c.malformed /\ c.reader = s.c.reader
  BY <1>0, <1>9, <1>11 DEF Conns
<1>13. q \in PipeTypes
  BY <1>10 DEF Core, PipeOK
<1>14. ASSUME NEW d \in Conns, NEW r, Core(r, v, f), DataFirst(r, v),
              NoReads(q, r), BodyOK(r, d), d.unsent = s.c.unsent,
              d.inBuf <= s.c.inBuf, d.reader = s.c.reader,
              NEW u, u = [p |-> r, c |-> d]
       PROVE  ClientInv(u, v, f)
  <2>1. r \in PipeTypes
    BY <1>14 DEF Core, PipeOK
  <2>2. NoReads(s.p, r)
    BY <1>0, <1>10, <1>13, <1>14, <2>1, NoReadsAdds
  <2>3. ReadsOK(r, d)
    BY <1>0, <1>14, <2>1, <2>2, ReadsSame
  <2>4. u \in ClientStates /\ u.p = r /\ u.c = d
    BY <1>14, <2>1 DEF ClientStates
  <2> QED
    BY <1>14, <2>3, <2>4 DEF ClientInv
<1> DEFINE parsed == last = 1 /\ n = units
           bad == q.put > BodyLimit \/ (parsed /\ s.c.malformed)
<1>15. CASE ~bad /\ ~parsed
  <2>1. t = [p |-> q, c |-> c]
    BY <1>3, <1>4, <1>5, <1>8, <1>11, <1>15 DEF HandleChunkedRequestBody
  <2>2. BodyOK(q, c)
    <3>1. /\ q.put <= c.body
          /\ q.put + c.inBuf + c.unsent = c.body + 1
      BY <1>1, <1>2, <1>7, <1>9, <1>10, <1>12
    <3> QED
      BY <1>10, <1>12, <3>1 DEF BodyOK, ClientInv
  <2>3. NoReads(q, q) /\ c.inBuf <= s.c.inBuf
    BY <1>1, <1>7, <1>12, <1>13, NoReadsSame
  <2> QED
    BY <1>10, <1>12, <1>14, <2>1, <2>2, <2>3
<1>16. CASE bad
  <2>1. PICK r : r = ClearProducer(q, FALSE)
    OBVIOUS
  <2>2. q.size # q.put
    BY <1>1, <1>7, <1>10, Bounds DEF Unknown
  <2>3. /\ Core(r, v, f) /\ DataFirst(r, v) /\ NoReads(q, r)
        /\ r.put = q.put /\ ~r.producer /\ r.size = q.size
    BY <1>10, <2>1, <2>2, ClearProducerCore
  <2>4. PICK d : d = [c EXCEPT !.inBuf = 0, !.readMore = FALSE]
    OBVIOUS
  <2>5. /\ d \in Conns /\ d.inBuf = 0 /\ d.body = s.c.body
        /\ d.unsent = s.c.unsent /\ d.chunked = s.c.chunked
        /\ d.malformed = s.c.malformed /\ d.reader = s.c.reader
    <3>1. 0 \in 0..InSize /\ FALSE \in BOOLEAN
      BY Bounds
    <3>2. /\ d \in Conns /\ d.inBuf = 0 /\ d.body = c.body
          /\ d.unsent = c.unsent /\ d.chunked = c.chunked
          /\ d.malformed = c.malformed /\ d.reader = c.reader
      BY <1>12, <2>4, <3>1 DEF Conns
    <3> QED
      BY <1>12, <3>2
  <2>6. BodyOK(r, d)
    <3>1. r.put <= d.body /\ r.size # r.put
      BY <1>1, <1>9, <1>10, <2>2, <2>3, <2>5
    <3> QED
      BY <1>10, <2>3, <2>5, <3>1 DEF BodyOK
  <2>7. PICK u : u = [p |-> r, c |-> d]
    OBVIOUS
  <2>8. ClientInv(u, v, f)
    <3>1. d.inBuf <= s.c.inBuf
      BY <1>1, <2>5
    <3> QED
      BY <1>14, <2>3, <2>5, <2>6, <2>7, <3>1
  <2>9. t = ClientClose(u)
    BY <1>3, <1>4, <1>5, <1>8, <1>11, <1>16, <2>1, <2>4, <2>7
    DEF HandleChunkedRequestBody
  <2> QED
    BY <2>8, <2>9, ClientCloseInv
<1>17. CASE ~bad /\ parsed
  <2>0. /\ s.c.unsent = 0 /\ q.put = s.c.body /\ ~s.c.malformed
    BY <1>1, <1>2, <1>3, <1>4, <1>6, <1>7, <1>10, <1>17
  <2>1. PICK r : r = ClearProducer(q, TRUE)
    OBVIOUS
  <2>2. /\ Core(r, v, f) /\ DataFirst(r, v) /\ NoReads(q, r)
        /\ r.put = q.put /\ ~r.producer /\ r.size = q.put
    BY <1>10, <2>1, ClearProducerCore
  <2>3. PICK d : d = [c EXCEPT !.inBuf = 0]
    OBVIOUS
  <2>4. /\ d \in Conns /\ d.inBuf = 0 /\ d.body = s.c.body
        /\ d.unsent = s.c.unsent /\ d.chunked = s.c.chunked
        /\ d.malformed = s.c.malformed /\ d.reader = s.c.reader
    <3>1. 0 \in 0..InSize /\ FALSE \in BOOLEAN
      BY Bounds
    <3>2. /\ d \in Conns /\ d.inBuf = 0 /\ d.body = c.body
          /\ d.unsent = c.unsent /\ d.chunked = c.chunked
          /\ d.malformed = c.malformed /\ d.reader = c.reader
      BY <1>12, <2>3, <3>1 DEF Conns
    <3> QED
      BY <1>12, <3>2
  <2>5. BodyOK(r, d)
    <3>1. r.put <= d.body
      BY <1>1, <2>0, <2>2, <2>4
    <3> QED
      BY <2>0, <2>2, <2>4, <3>1 DEF BodyOK
  <2>6. d.inBuf <= s.c.inBuf
    BY <1>1, <2>4
  <2>7. t = [p |-> r, c |-> d]
    BY <1>3, <1>4, <1>5, <1>8, <1>11, <1>17, <2>1, <2>3
    DEF HandleChunkedRequestBody
  <2> QED
    BY <1>14, <2>2, <2>4, <2>5, <2>6, <2>7
<1> QED
  BY <1>15, <1>16, <1>17

(* handleRequestBodyData(), which closes a connection that only waited for *)
(* the end of the body.                                                    *)
LEMMA HandleDataInv ==
    ASSUME NEW s, NEW v, NEW f, ClientInv(s, v, f),
           NEW t, t = HandleRequestBodyData(s)
    PROVE  ClientInv(t, v, f)
<1>1. PICK u : u = IF ~s.p.producer \/ s.c.inBuf = 0 THEN s
                   ELSE IF s.c.chunked THEN HandleChunkedRequestBody(s)
                   ELSE HandlePlainRequestBody(s)
  OBVIOUS
<1>2. ClientInv(u, v, f)
  <2>1. CASE ~s.p.producer \/ s.c.inBuf = 0
    BY <1>1, <2>1
  <2>2. CASE ~(~s.p.producer \/ s.c.inBuf = 0) /\ s.c.chunked
    <3>1. u = HandleChunkedRequestBody(s)
      BY <1>1, <2>2
    <3> QED
      BY <2>2, <3>1, ChunkedInv
  <2>3. CASE ~(~s.p.producer \/ s.c.inBuf = 0) /\ ~s.c.chunked
    <3>1. u = HandlePlainRequestBody(s)
      BY <1>1, <2>3
    <3> QED
      BY <2>3, <3>1, PlainInv
  <2> QED
    BY <2>1, <2>2, <2>3
<1>3. t = IF s.p.producer /\ ~u.p.producer /\ u.c.stoppedSending
          THEN ClientClose(u) ELSE u
  BY <1>1 DEF HandleRequestBodyData
<1> QED
  BY <1>2, <1>3, ClientCloseInv

(* readSomeData() and the flags of the connection touch no buffer. *)
LEMMA ReadSomeInv ==
    ASSUME NEW s, NEW v, NEW f, ClientInv(s, v, f),
           NEW t, t = ReadSomeData(s)
    PROVE  ClientInv(t, v, f)
<1>0. s \in ClientStates /\ s.c \in Conns
  BY DEF ClientInv, ClientStates
<1>1. CASE s.c.reader = "no" /\ s.c.inBuf < InSize
  <2>1. PICK c : c = [s.c EXCEPT !.reader = "armed"]
    OBVIOUS
  <2>2. c \in Conns /\ SameBuffer(s.c, c)
    BY <1>0, <1>1, <2>1 DEF Conns, SameBuffer
  <2>3. t = [s EXCEPT !.c = c]
    BY <1>0, <1>1, <2>1 DEF ReadSomeData, ClientStates
  <2> QED
    BY <2>2, <2>3, ClientOnly
<1>2. CASE ~(s.c.reader = "no" /\ s.c.inBuf < InSize)
  BY <1>2 DEF ReadSomeData
<1> QED
  BY <1>1, <1>2

(* clientReadRequest() for the n units of the only read that was pending.  *)
LEMMA ClientReadInv ==
    ASSUME NEW s \in ClientStates, NEW v, NEW f, Core(s.p, v, f),
           DataFirst(s.p, v), BodyOK(s.p, s.c),
           \A i \in 1..Len(s.p.calls) : s.p.calls[i][1] # "read",
           NEW n \in 0..InSize, n <= s.c.unsent, n + s.c.inBuf <= InSize,
           NEW t, t = ClientReadRequest(s, n)
    PROVE  ClientInv(t, v, f)
<1>0. s.p \in PipeTypes /\ s.c \in Conns
  BY DEF ClientStates
<1>1. \A c : ReadsOK(s.p, c)
  BY DEF ReadsOK
<1>2. PICK c : c = [s.c EXCEPT !.reader = "no"]
  OBVIOUS
<1>3. PICK r : r = [s EXCEPT !.c = c]
  OBVIOUS
<1>4. r = [s EXCEPT !.c.reader = "no"]
  BY <1>2, <1>3 DEF ClientStates
<1>5. /\ c \in Conns /\ c.reader = "no" /\ c.inBuf = s.c.inBuf
      /\ c.body = s.c.body /\ c.unsent = s.c.unsent
      /\ c.chunked = s.c.chunked /\ c.malformed = s.c.malformed
      /\ c.open = s.c.open
  BY <1>0, <1>2 DEF Conns
<1>6. r \in ClientStates /\ r.p = s.p /\ r.c = c
  BY <1>0, <1>3, <1>5 DEF ClientStates
<1>7. ClientInv(r, v, f)
  <2>1. BodyOK(s.p, c)
    BY <1>5 DEF BodyOK
  <2> QED
    BY <1>1, <1>6, <2>1 DEF ClientInv
<1>8. PICK d : d = [c EXCEPT !.inBuf = c.inBuf + n, !.unsent = c.unsent - n]
  OBVIOUS
<1>9. PICK u : u = [r EXCEPT !.c = d]
  OBVIOUS
<1>10. u = [r EXCEPT !.c.inBuf = @ + n, !.c.unsent = @ - n]
  BY <1>5, <1>6, <1>8, <1>9 DEF ClientStates, Conns
<1>11. /\ c.inBuf + n \in 0..InSize /\ c.unsent - n \in 0..MaxBody + 1
       /\ c.inBuf \in Nat /\ c.unsent \in Nat
  BY <1>0, <1>5, Bounds DEF Conns
<1>12. /\ d \in Conns /\ d.reader = "no" /\ d.inBuf = c.inBuf + n
       /\ d.body = c.body /\ d.unsent = c.unsent - n
       /\ d.chunked = c.chunked /\ d.malformed = c.malformed
  BY <1>5, <1>8, <1>11 DEF Conns
<1>13. u \in ClientStates /\ u.p = s.p /\ u.c = d
  BY <1>6, <1>9, <1>12 DEF ClientStates
<1>14. ClientInv(u, v, f)
  <2>1. BodyOK(s.p, d)
    <3>1. s.p.put + d.inBuf + d.unsent = s.p.put + s.c.inBuf + s.c.unsent
      <4>1. s.p.put \in Nat /\ n \in Nat
        BY <1>0, Bounds DEF PipeTypes
      <4>2. s.c.inBuf \in Nat /\ s.c.unsent \in Nat
        BY <1>5, <1>11
      <4>3. d.inBuf = s.c.inBuf + n /\ d.unsent = s.c.unsent - n
        BY <1>5, <1>12
      <4> QED
        BY ONLY <4>1, <4>2, <4>3
    <3>2. s.c.unsent = 0 => d.unsent = 0
      BY <1>5, <1>11, <1>12
    <3> QED
      BY <1>5, <1>12, <3>1, <3>2 DEF BodyOK
  <2> QED
    BY <1>1, <1>13, <2>1 DEF ClientInv
<1>15. PICK w : w = HandleRequestBodyData(u)
  OBVIOUS
<1>16. ClientInv(w, v, f)
  BY <1>14, <1>15, HandleDataInv
<1>17. CASE ~s.c.open
  <2>1. t = r
    BY <1>4, <1>17 DEF ClientReadRequest
  <2> QED
    BY <1>7, <2>1
<1>18. CASE s.c.open /\ n = 0
  <2>1. t = ClientClose(r)
    BY <1>4, <1>18 DEF ClientReadRequest
  <2> QED
    BY <1>7, <2>1, ClientCloseInv
<1>19. CASE s.c.open /\ n # 0
  <2>1. t = IF w.c.open /\ w.c.readMore THEN ReadSomeData(w) ELSE w
    BY <1>4, <1>10, <1>15, <1>19 DEF ClientReadRequest
  <2> QED
    BY <1>16, <2>1, ReadSomeInv
<1> QED
  BY <1>17, <1>18, <1>19

(* noteMoreBodySpaceAvailable() *)
LEMMA MoreSpaceInv ==
    ASSUME NEW s, NEW v, NEW f, ClientInv(s, v, f),
           NEW t, t = NoteMoreBodySpaceAvailable(s)
    PROVE  ClientInv(t, v, f)
<1>1. PICK u : u = HandleRequestBodyData(s)
  OBVIOUS
<1>2. ClientInv(u, v, f)
  BY <1>1, HandleDataInv
<1>3. t = IF u.c.open /\ ~u.c.stoppedReceiving THEN ReadSomeData(u) ELSE u
  BY <1>1 DEF NoteMoreBodySpaceAvailable
<1> QED
  BY <1>2, <1>3, ReadSomeInv

(* noteBodyConsumerAborted(), which is called once the consumption was     *)
(* aborted.                                                                *)
LEMMA ConsumerAbortedInv ==
    ASSUME NEW s, NEW v, NEW f, ClientInv(s, v, f), s.p.aborted,
           NEW t, t = NoteBodyConsumerAborted(s)
    PROVE  ClientInv(t, v, f)
<1>0. s \in ClientStates /\ s.p \in PipeTypes /\ s.c \in Conns
  BY DEF ClientInv, ClientStates
<1>1. PICK q : q = EnableAutoConsumption(s.p)
  OBVIOUS
<1>2. /\ Core(q, v, f) /\ DataFirst(q, v) /\ NoReads(s.p, q)
      /\ SameBody(s.p, q)
  BY <1>1, EnableAutoCore DEF ClientInv
<1>3. PICK u : u = [s EXCEPT !.p = q]
  OBVIOUS
<1>4. u = [s EXCEPT !.p = EnableAutoConsumption(@)]
  BY <1>1, <1>3
<1>5. u \in ClientStates /\ u.p = q /\ u.c = s.c
  BY <1>0, <1>2, <1>3 DEF ClientStates, Core, PipeOK
<1>6. ClientInv(u, v, f)
  <2>1. SameBuffer(s.c, u.c)
    BY <1>5 DEF SameBuffer
  <2> QED
    BY <1>2, <1>5, <2>1, ClientKeeps
<1>7. PICK c : c = [u.c EXCEPT !.stoppedReceiving = TRUE]
  OBVIOUS
<1>8. PICK w : w = [u EXCEPT !.c = c]
  OBVIOUS
<1>9. c \in Conns /\ SameBuffer(u.c, c)
  BY <1>0, <1>5, <1>7 DEF Conns, SameBuffer
<1>10. ClientInv(w, v, f)
  BY <1>6, <1>8, <1>9, ClientOnly
<1>11. w = [u EXCEPT !.c.stoppedReceiving = TRUE]
  BY <1>5, <1>7, <1>8 DEF ClientStates
<1>12. t = IF ~u.c.stoppedReceiving /\ u.c.stoppedSending
           THEN ClientClose(w) ELSE w
  BY <1>4, <1>11 DEF NoteBodyConsumerAborted, StopReceiving
<1> QED
  BY <1>10, <1>12, ClientCloseInv

(* writeComplete() keeps the connection, waits for the rest of the body or *)
(* closes it.                                                              *)
LEMMA WriteCompleteInv ==
    ASSUME NEW s, NEW v, NEW f, ClientInv(s, v, f), NEW keepalive,
           NEW t, t = WriteComplete(s, keepalive)
    PROVE  ClientInv(t, v, f)
<1>0. s \in ClientStates /\ s.c \in Conns
  BY DEF ClientInv, ClientStates
<1>1. PICK c : c = [s.c EXCEPT !.stoppedSending = TRUE]
  OBVIOUS
<1>2. PICK u : u = [s EXCEPT !.c = c]
  OBVIOUS
<1>3. c \in Conns /\ SameBuffer(s.c, c)
  BY <1>0, <1>1 DEF Conns, SameBuffer
<1>4. ClientInv(u, v, f)
  BY <1>2, <1>3, ClientOnly
<1>5. u = [s EXCEPT !.c.stoppedSending = TRUE]
  BY <1>0, <1>1, <1>2 DEF ClientStates
<1>6. ClientInv(StopSending(s), v, f)
  <2>1. StopSending(s) = u \/ StopSending(s) = ClientClose(u)
    BY <1>5 DEF StopSending
  <2> QED
    BY <1>4, <2>1, ClientCloseInv
<1>7. ClientInv(KeepaliveNextRequest(s), v, f)
  <2>1. \/ KeepaliveNextRequest(s) = ClientClose(s)
        \/ KeepaliveNextRequest(s) = ReadSomeData(s)
    BY DEF KeepaliveNextRequest
  <2> QED
    BY <2>1, ClientCloseInv, ReadSomeInv
<1>8. t \in {s, StopSending(s), KeepaliveNextRequest(s)}
  <2>1. CASE ~s.c.open
    BY <2>1 DEF WriteComplete
  <2>2. CASE s.c.open /\ keepalive
    BY <2>2 DEF WriteComplete
  <2>3. CASE s.c.open /\ ~keepalive
    BY <2>3 DEF WriteComplete
  <2> QED
    BY <2>1, <2>2, <2>3
<1> QED
  BY <1>6, <1>7, <1>8

(* connStateClosed(): an unfinished production ends with an abort. *)
LEMMA ConnClosedInv ==
    ASSUME NEW s, NEW v, NEW f, ClientInv(s, v, f),
           NEW t, t = ConnStateClosed(s)
    PROVE  ClientInv(t, v, f)
<1>0. s \in ClientStates /\ s.p \in PipeTypes /\ s.c \in Conns
  BY DEF ClientInv, ClientStates
<1>1. PICK q : q = ClearProducer(s.p, FALSE)
  OBVIOUS
<1>2. t = [s EXCEPT !.p = q]
  BY <1>1 DEF ConnStateClosed
<1>3. CASE ~s.p.producer
  <2>1. q = s.p
    BY <1>1, <1>3 DEF ClearProducer
  <2>2. t = s
    BY <1>0, <1>2, <2>1 DEF ClientStates
  <2> QED
    BY <2>2
<1>4. CASE s.p.producer
  <2>1. s.p.size # s.p.put
    BY <1>0, <1>4, Bounds
    DEF ClientInv, BodyOK, PipeTypes, Conns, Unknown
  <2>2. /\ Core(q, v, f) /\ DataFirst(q, v) /\ NoReads(s.p, q)
        /\ q.put = s.p.put /\ ~q.producer /\ q.size = s.p.size
    <3>1. Core(s.p, v, f) /\ DataFirst(s.p, v) /\ FALSE \in BOOLEAN
      BY DEF ClientInv
    <3>2. q.size = IF FALSE /\ s.p.size = Unknown THEN s.p.put ELSE s.p.size
      BY <1>1, <1>4, <2>1, <3>1, ClearProducerCore
    <3>3. /\ Core(q, v, f) /\ DataFirst(q, v) /\ NoReads(s.p, q)
          /\ q.put = s.p.put /\ ~q.producer
      BY <1>1, <1>4, <2>1, <3>1, ClearProducerCore
    <3> QED
      BY <3>2, <3>3
  <2>3. t \in ClientStates /\ t.p = q /\ t.c = s.c /\ q \in PipeTypes
    BY <1>0, <1>2, <2>2 DEF ClientStates, Core, PipeOK
  <2>4. BodyOK(q, s.c)
    BY <1>0, <1>4, <2>1, <2>2 DEF ClientInv, BodyOK, Conns
  <2>5. ReadsOK(q, s.c)
    <3>1. s.c.inBuf <= s.c.inBuf
      BY <1>0 DEF Conns
    <3> QED
      BY <1>0, <2>2, <2>3, <3>1, ReadsSame DEF ClientInv
  <2> QED
    BY <2>2, <2>3, <2>4, <2>5 DEF ClientInv
<1> QED
  BY <1>3, <1>4

-----------------------------------------------------------------------------
(* The server's operations.  They change nothing of what was produced and  *)
(* schedule no read, so the connection's part of the invariant is kept.    *)
Pairs == [p : PipeTypes, v : ServerStates]

ServerDoes(s, t, f) ==
    /\ t \in Pairs /\ Core(t.p, t.v, f) /\ DataFirst(t.p, t.v)
    /\ NoReads(s.p, t.p) /\ SameBody(s.p, t.p)

(* A server that attached to the pipe stays within the invariant when only *)
(* its sender and its flags change.                                        *)
LEMMA SameServer ==
    ASSUME NEW p, NEW v, NEW f, Core(p, v, f), NEW w \in ServerStates,
           w.n = v.n, w.took = v.took, w.open => v.open,
           w.whole = v.whole
    PROVE  Core(p, w, f)
<1>1. ConsumerOK(p, w, f)
  BY DEF Core, ConsumerOK
<1>2. ClosedOK(p, w, f)
  BY DEF Core, ClosedOK
<1> QED
  BY <1>1, <1>2 DEF Core

(* sendMoreRequestBody() takes all of theBuf. *)
LEMMA SendMoreDoes ==
    ASSUME NEW s \in Pairs, NEW f, Core(s.p, s.v, f),
           s.p.consumer = s.v.n, NEW t, t = SendMoreRequestBody(s)
    PROVE  ServerDoes(s, t, f)
<1>0. s.p \in PipeTypes /\ s.v \in ServerStates
  BY DEF Pairs
<1>1. /\ s.p.put \in 0..MaxBody /\ s.p.get \in 0..MaxBody
      /\ s.p.get <= s.p.put /\ s.v.took \in 0..MaxBody
  BY <1>0 DEF Core, PipeOK, PipeTypes, ServerStates
<1>2. s.v.n \in 0..MaxTries /\ s.v.n # None /\ s.v.n # Sink
  BY <1>0, Bounds DEF ServerStates
<1>3. s.p.consumer # None /\ s.p.consumer \in Servers
  BY <1>0, <1>2 DEF PipeTypes, Consumers
<1>4. s.v.took = s.p.get
  BY <1>3 DEF Core, ConsumerOK
<1>5. CASE s.v.open /\ Content(s.p) > 0
  <2>1. PICK w : w = [s.v EXCEPT !.sender = "armed", !.took = s.p.put]
    OBVIOUS
  <2>2. /\ w \in ServerStates /\ w.n = s.v.n /\ w.open = s.v.open
        /\ w.whole = s.v.whole /\ w.took = s.p.put
    BY <1>0, <1>1, <2>1 DEF ServerStates
  <2>3. s.v.took + Content(s.p) = s.p.put
    BY <1>1, <1>4 DEF Content
  <2>4. PICK q : q = PostConsume(s.p, Content(s.p))
    OBVIOUS
  <2>5. t = [p |-> q, v |-> w]
    BY <1>5, <2>1, <2>3, <2>4 DEF SendMoreRequestBody, GetMoreData
  <2>6. /\ Core(q, w, f) /\ NoReads(s.p, q) /\ SameBody(s.p, q)
        /\ DataFirst(q, w)
    BY <1>3, <2>2, <2>4, PostConsumeCore
  <2>7. t \in Pairs /\ t.p = q /\ t.v = w
    BY <2>2, <2>5, <2>6 DEF Pairs, Core, PipeOK
  <2> QED
    BY <2>6, <2>7 DEF ServerDoes
<1>6. CASE ~(s.v.open /\ Content(s.p) > 0)
  <2>1. t = s
    BY <1>6 DEF SendMoreRequestBody
  <2>2. DataFirst(s.p, s.v)
    BY <1>1, <1>6 DEF DataFirst, Behind, Content
  <2> QED
    BY <1>0, <2>1, <2>2, NoReadsSame DEF ServerDoes, SameBody
<1> QED
  BY <1>5, <1>6

(* handleMoreRequestBodyAvailable() *)
LEMMA MoreAvailableDoes ==
    ASSUME NEW s \in Pairs, NEW f, Core(s.p, s.v, f),
           s.p.consumer = s.v.n,
           NEW t, t = HandleMoreRequestBodyAvailable(s)
    PROVE  ServerDoes(s, t, f)
<1>1. CASE s.v.sender = "no"
  BY <1>1, SendMoreDoes DEF HandleMoreRequestBodyAvailable
<1>2. CASE s.v.sender # "no"
  <2>1. t = s
    BY <1>2 DEF HandleMoreRequestBodyAvailable
  <2>2. DataFirst(s.p, s.v) /\ s.p \in PipeTypes
    BY <1>2 DEF DataFirst, Behind, Pairs
  <2> QED
    BY <2>1, <2>2, NoReadsSame DEF ServerDoes, SameBody
<1> QED
  BY <1>1, <1>2

(* doneSendingRequestBody() of a server that has had the whole body. *)
LEMMA DoneSendingDoes ==
    ASSUME NEW s \in Pairs, NEW f, Core(s.p, s.v, f),
           s.v.open => s.v.whole /\ s.v.took = s.p.put,
           NEW t, t = DoneSendingRequestBody(s)
    PROVE  ServerDoes(s, t, f)
<1>1. PICK q : q = ClearConsumer(s.p)
  OBVIOUS
<1>2. /\ Core(q, s.v, f) /\ NoReads(s.p, q) /\ SameBody(s.p, q)
      /\ DataFirst(q, s.v)
  BY <1>1, ClearConsumerCore
<1>3. t = [s EXCEPT !.p = q]
  BY <1>1 DEF DoneSendingRequestBody
<1>4. t \in Pairs /\ t.p = q /\ t.v = s.v
  BY <1>2, <1>3 DEF Pairs, Core, PipeOK
<1> QED
  BY <1>2, <1>4 DEF ServerDoes

(* handleRequestBodyProductionEnded(): a server that writes nothing at the *)
(* moment has taken all that was put, for it was told of the data first.   *)
LEMMA ProductionEndedDoes ==
    ASSUME NEW s \in Pairs, NEW f, Core(s.p, s.v, f),
           s.p.consumer = s.v.n, ~s.p.producer, s.p.size = s.p.put,
           ~Behind(s.p, s.v),
           NEW t, t = HandleRequestBodyProductionEnded(s)
    PROVE  ServerDoes(s, t, f)
<1>0. /\ s.p \in PipeTypes /\ s.v \in ServerStates
      /\ s.p.put \in 0..MaxBody /\ s.p.get \in 0..MaxBody
      /\ s.p.get <= s.p.put
  BY DEF Pairs, Core, PipeOK, PipeTypes
<1>1. PICK w : w = [s.v EXCEPT !.whole = TRUE]
  OBVIOUS
<1>2. PICK u : u = [s EXCEPT !.v = w]
  OBVIOUS
<1>3. u = [s EXCEPT !.v.whole = TRUE]
  BY <1>1, <1>2 DEF Pairs
<1>4. /\ w \in ServerStates /\ w.whole /\ w.n = s.v.n
      /\ w.took = s.v.took /\ w.open = s.v.open /\ w.sender = s.v.sender
  BY <1>0, <1>1 DEF ServerStates
<1>5. u \in Pairs /\ u.p = s.p /\ u.v = w
  BY <1>0, <1>2, <1>4 DEF Pairs
<1>6. Core(s.p, w, f)
  <2>1. ConsumerOK(s.p, w, f)
    BY <1>4 DEF Core, ConsumerOK
  <2>2. ClosedOK(s.p, w, f)
    BY <1>4 DEF Core, ClosedOK
  <2> QED
    BY <2>1, <2>2 DEF Core
<1>7. CASE s.v.sender = "no"
  <2>1. t = DoneSendingRequestBody(u)
    BY <1>3, <1>7 DEF HandleRequestBodyProductionEnded
  <2>2. s.v.n # None /\ s.v.n # Sink
    BY <1>0, Bounds DEF ServerStates
  <2>3. s.p.consumer \in Servers
    BY <1>0, <2>2 DEF PipeTypes, Consumers
  <2>4. w.open => w.whole /\ w.took = s.p.put
    BY <1>0, <1>4, <1>7, <2>3 DEF Behind, Core, ConsumerOK
  <2>5. ServerDoes(u, t, f)
    BY <1>5, <1>6, <2>1, <2>4, DoneSendingDoes
  <2> QED
    BY <1>5, <2>5 DEF ServerDoes
<1>8. CASE s.v.sender # "no"
  <2>1. t = u
    BY <1>3, <1>8 DEF HandleRequestBodyProductionEnded
  <2>2. DataFirst(s.p, w)
    BY <1>4, <1>8 DEF DataFirst, Behind
  <2> QED
    BY <1>0, <1>5, <1>6, <2>1, <2>2, NoReadsSame DEF ServerDoes, SameBody
<1> QED
  BY <1>7, <1>8

(* serverConnection->close() schedules the one close handler. *)
LEMMA ServerCloseDoes ==
    ASSUME NEW s \in Pairs, NEW f,
           Core(s.p, [s.v EXCEPT !.open = FALSE], f),
           s.v.open => f = "serving" /\ NoCloses(s.p),
           NEW t, t = ServerClose(s)
    PROVE  ServerDoes(s, t, f) /\ ~t.v.open
<1>0. s.p \in PipeTypes /\ s.v \in ServerStates
  BY DEF Pairs
<1>1. PICK w : w = [s.v EXCEPT !.open = FALSE]
  OBVIOUS
<1>2. w \in ServerStates /\ ~w.open /\ w.n = s.v.n /\ Core(s.p, w, f)
  BY <1>0, <1>1 DEF ServerStates
<1>3. CASE s.v.open
  <2>1. PICK call : call = <<"serverclosed", s.v.n>>
    OBVIOUS
  <2>2. s.v.n \in Servers
    BY <1>2, <1>3 DEF Core, ConsumerOK
  <2>3. call \in Calls /\ call[1] = "serverclosed"
    BY <2>1, <2>2 DEF Calls
  <2>4. PICK q : q = Schedule(s.p, call)
    OBVIOUS
  <2>5. Appended(s.p, q, call)
    BY <1>0, <2>3, <2>4, Scheduled
  <2>6. /\ q \in PipeTypes /\ SamePipe(s.p, q) /\ Len(s.p.calls) \in Nat
        /\ \A i \in 1..Len(q.calls) :
                \/ i = Len(s.p.calls) + 1 /\ q.calls[i] = call
                \/ i \in 1..Len(s.p.calls) /\ q.calls[i] = s.p.calls[i]
    BY <2>5 DEF Appended
  <2>7. PipeOK(q) /\ ConsumerOK(q, w, f)
    BY <1>2, <2>6 DEF Core, PipeOK, ConsumerOK, SamePipe
  <2>8. CallsTrue(q)
    <3>1. CallsTrue(s.p)
      BY <1>2 DEF Core
    <3> QED
      BY <2>3, <2>6, <3>1 DEF CallsTrue, SamePipe
  <2>9. \A i \in 1..Len(q.calls) :
            q.calls[i][1] = "serverclosed" => i = Len(s.p.calls) + 1
    BY <1>3, <2>6 DEF NoCloses
  <2>10. ClosedOK(q, w, f)
    BY <1>2, <1>3, <2>9, Zenon DEF ClosedOK
  <2>11. NoReads(s.p, q) /\ SameBody(s.p, q)
    BY <2>3, <2>5, <2>6 DEF NoReads, Appended, SamePipe, SameBody
  <2>12. t = [p |-> q, v |-> w]
    BY <1>1, <1>3, <2>1, <2>4 DEF ServerClose
  <2>13. t \in Pairs /\ t.p = q /\ t.v = w
    BY <1>2, <2>6, <2>12 DEF Pairs
  <2>14. DataFirst(q, w)
    BY <1>2 DEF DataFirst, Behind
  <2> QED
    BY <1>2, <2>7, <2>8, <2>10, <2>11, <2>13, <2>14 DEF ServerDoes, Core
<1>4. CASE ~s.v.open
  <2>1. t = s
    BY <1>4 DEF ServerClose
  <2>2. w = s.v
    BY <1>0, <1>1, <1>4 DEF ServerStates
  <2>3. DataFirst(s.p, s.v)
    BY <1>4 DEF DataFirst, Behind
  <2> QED
    BY <1>0, <1>2, <1>4, <2>1, <2>2, <2>3, NoReadsSame
    DEF ServerDoes, SameBody
<1> QED
  BY <1>3, <1>4

(* No close handler is pending while the server's connection is open. *)
LEMMA OpenNoCloses ==
    ASSUME NEW p, NEW v, NEW f, Core(p, v, f), v.open
    PROVE  f = "serving" /\ NoCloses(p)
BY DEF Core, ConsumerOK, ClosedOK, NoCloses

(* handleRequestBodyProducerAborted() leaves the pipe and closes. *)
LEMMA ProducerAbortedDoes ==
    ASSUME NEW s \in Pairs, NEW f, Core(s.p, s.v, f),
           NEW t, t = HandleRequestBodyProducerAborted(s)
    PROVE  ServerDoes(s, t, f)
<1>0. s.p \in PipeTypes /\ s.v \in ServerStates
  BY DEF Pairs
<1>1. PICK w : w = [s.v EXCEPT !.dontRetry = TRUE]
  OBVIOUS
<1>2. PICK x : x = [w EXCEPT !.open = FALSE]
  OBVIOUS
<1>3. /\ w \in ServerStates /\ w.open = s.v.open
      /\ x \in ServerStates /\ ~x.open /\ x.n = s.v.n
      /\ x.took = s.v.took /\ x.whole = s.v.whole
  BY <1>0, <1>1, <1>2 DEF ServerStates
<1>4. Core(s.p, x, f)
  BY <1>3, SameServer
<1>5. PICK q : q = ClearConsumer(s.p)
  OBVIOUS
<1>6. /\ Core(q, x, f) /\ NoReads(s.p, q) /\ SameBody(s.p, q)
      /\ NoCloses(s.p) => NoCloses(q)
  BY <1>3, <1>4, <1>5, ClearConsumerCore
<1>7. PICK u : u = [p |-> q, v |-> w]
  OBVIOUS
<1>8. u \in Pairs /\ u.p = q /\ u.v = w /\ q \in PipeTypes
  BY <1>3, <1>6, <1>7 DEF Pairs, Core, PipeOK
<1>9. t = ServerClose(u)
  BY <1>1, <1>5, <1>7 DEF HandleRequestBodyProducerAborted
<1>10. u.v.open => f = "serving" /\ NoCloses(u.p)
  <2>1. s.v.open => f = "serving" /\ NoCloses(s.p)
    BY OpenNoCloses
  <2>2. u.v.open = s.v.open /\ u.p = q
    BY <1>3, <1>8
  <2> QED
    BY <1>6, <2>1, <2>2
<1>11. ServerDoes(u, t, f)
  BY <1>2, <1>6, <1>8, <1>9, <1>10, ServerCloseDoes
<1>12. NoReads(s.p, t.p)
  <2>1. t.p \in PipeTypes /\ NoReads(q, t.p)
    BY <1>8, <1>11 DEF ServerDoes, Pairs
  <2> QED
    BY <1>0, <1>6, <1>8, <2>1, NoReadsAdds
<1> QED
  BY <1>6, <1>8, <1>11, <1>12 DEF ServerDoes, SameBody

(* sentRequestBody(): what was put in the meantime is sent, or, once the   *)
(* production ended, everything was.                                       *)
LEMMA SentDoes ==
    ASSUME NEW s \in Pairs, NEW f, Core(s.p, s.v, f),
           NEW t, t = SentRequestBody(s)
    PROVE  ServerDoes(s, t, f)
<1>0. /\ s.p \in PipeTypes /\ s.v \in ServerStates
      /\ s.p.put \in 0..MaxBody /\ s.p.get \in 0..MaxBody
      /\ s.p.get <= s.p.put
  BY DEF Pairs, Core, PipeOK, PipeTypes
<1>1. PICK w : w = [s.v EXCEPT !.sender = "no"]
  OBVIOUS
<1>2. PICK u : u = [s EXCEPT !.v = w]
  OBVIOUS
<1>3. u = [s EXCEPT !.v.sender = "no"]
  BY <1>1, <1>2 DEF Pairs
<1>4. /\ w \in ServerStates /\ w.whole = s.v.whole /\ w.n = s.v.n
      /\ w.took = s.v.took /\ w.open = s.v.open
  BY <1>0, <1>1 DEF ServerStates
<1>5. u \in Pairs /\ u.p = s.p /\ u.v = w
  BY <1>0, <1>2, <1>4 DEF Pairs
<1>6. Core(s.p, w, f)
  BY <1>4, SameServer
<1>7. ASSUME ~Behind(s.p, w) PROVE ServerDoes(s, u, f)
  <2>1. DataFirst(s.p, w)
    BY <1>7 DEF DataFirst
  <2> QED
    BY <1>0, <1>5, <1>6, <2>1, NoReadsSame DEF ServerDoes, SameBody
<1>8. CASE ~s.v.open \/ s.p.consumer # s.v.n
  <2>1. t = u
    BY <1>3, <1>8 DEF SentRequestBody
  <2>2. ~Behind(s.p, w)
    BY <1>4, <1>8 DEF Behind
  <2> QED
    BY <1>7, <2>1, <2>2
<1>9. CASE s.v.open /\ s.p.consumer = s.v.n /\ ~Exhausted(s.p)
  <2>1. t = SendMoreRequestBody(u)
    BY <1>3, <1>9 DEF SentRequestBody
  <2>2. ServerDoes(u, t, f)
    BY <1>4, <1>5, <1>6, <1>9, <2>1, SendMoreDoes
  <2> QED
    BY <1>5, <2>2 DEF ServerDoes
<1>10. CASE s.v.open /\ s.p.consumer = s.v.n /\ Exhausted(s.p)
  <2>1. t = IF s.v.whole THEN DoneSendingRequestBody(u) ELSE u
    BY <1>3, <1>10 DEF SentRequestBody
  <2>2. ~(s.p.get < s.p.put)
    BY <1>10 DEF Exhausted
  <2>3. CASE s.v.whole
    <3>1. s.v.n # None /\ s.v.n # Sink
      BY <1>0, Bounds DEF ServerStates
    <3>2. s.p.consumer \in Servers
      BY <1>0, <1>10, <3>1 DEF PipeTypes, Consumers
    <3>3. w.whole /\ w.took = s.p.put
      BY <1>0, <1>4, <2>2, <2>3, <3>2 DEF Core, ConsumerOK
    <3>4. ServerDoes(u, t, f)
      BY <1>5, <1>6, <2>1, <2>3, <3>3, DoneSendingDoes
    <3> QED
      BY <1>5, <3>4 DEF ServerDoes
  <2>4. CASE ~s.v.whole
    <3>1. ~Behind(s.p, w)
      BY <2>2 DEF Behind
    <3> QED
      BY <1>7, <2>1, <2>4, <3>1
  <2> QED
    BY <2>3, <2>4
<1> QED
  BY <1>8, <1>9, <1>10

(* The sink consumes what comes, and leaves at the end. *)
LEMMA SinkDoes ==
    ASSUME NEW p, NEW v, NEW f, Core(p, v, f), p.consumer = Sink,
           NEW what, NEW q, q = BodySink(p, what)
    PROVE  /\ Core(q, v, f) /\ DataFirst(q, v) /\ NoReads(p, q)
           /\ SameBody(p, q)
<1>0. v \in ServerStates /\ v.n # Sink /\ Sink # None /\ Sink \notin Servers
  BY Bounds DEF Core, ConsumerOK, ServerStates
<1>1. CASE what = "data"
  <2>1. q = PostConsume(p, Content(p))
    BY <1>1 DEF BodySink
  <2> QED
    BY <1>0, <2>1, PostConsumeCore
<1>2. CASE what # "data"
  <2>1. q = ClearConsumer(p)
    BY <1>2 DEF BodySink
  <2>2. v.open => v.whole /\ v.took = p.put
    BY <1>0 DEF Core, ConsumerOK
  <2> QED
    BY <2>1, <2>2, ClearConsumerCore
<1> QED
  BY <1>1, <1>2

(* What retryOrBail() finds when the server has left: another try only     *)
(* starts with an untouched body; otherwise the body is given up, which    *)
(* is new to the pipe or was said before.                                  *)
LEMMA RetryPipe ==
    ASSUME NEW p, NEW v, NEW f, Core(p, v, f),
           f \in {"connecting", "serving"}, ~v.open,
           p.consumer \notin Servers, NoCloses(p),
           NEW q, q = DoneWithRetries(p)
    PROVE  /\ ~BodyNibbled(p) =>
                    Core(p, v, "connecting") /\ DataFirst(p, v)
           /\ Core(q, v, "done") /\ DataFirst(q, v)
           /\ NoReads(p, q) /\ SameBody(p, q)
<1>0. p \in PipeTypes /\ p.get \in 0..MaxBody
  BY DEF Core, PipeOK, PipeTypes
<1>1. p.consumer = None \/ p.consumer = Sink
  BY <1>0 DEF PipeTypes, Consumers
<1>2. p.consumer = Sink => p.aborted /\ p.get > 0
  BY DEF Core, PipeOK, ConsumerOK
<1>3. ASSUME NEW g PROVE ClosedOK(p, v, g)
  BY DEF ClosedOK, NoCloses
<1>4. DataFirst(p, v)
  BY DEF DataFirst, Behind
<1>5. ASSUME ~BodyNibbled(p) PROVE Core(p, v, "connecting")
  <2>1. p.get = 0 /\ p.consumer = None
    BY <1>0, <1>1, <1>2, <1>5 DEF BodyNibbled
  <2>2. ConsumerOK(p, v, "connecting")
    BY <2>1 DEF Core, ConsumerOK
  <2> QED
    BY <1>3, <2>2 DEF Core
<1>6. Core(p, v, "done")
  <2>1. ConsumerOK(p, v, "done")
    BY DEF Core, ConsumerOK
  <2> QED
    BY <1>3, <2>1 DEF Core
<1>7. q = ExpectNoConsumption(p)
  BY DEF DoneWithRetries
<1>8. /\ Core(q, v, "done") /\ NoReads(p, q) /\ SameBody(p, q)
      /\ DataFirst(p, v) => DataFirst(q, v)
  <2>1. p.aborted \/ p.consumer = None
    BY <1>1, <1>2
  <2> QED
    BY <1>6, <1>7, <2>1, ExpectNoCore
<1> QED
  BY <1>4, <1>5, <1>8

-----------------------------------------------------------------------------
(* The invariant holds initially and every step keeps it.                  *)

(* What others do to the pipe does not disturb the connection. *)
LEMMA Undisturbed ==
    ASSUME NEW p \in PipeTypes, NEW q \in PipeTypes, NEW c, BodyOK(p, c),
           ReadsOK(p, c), NoReads(p, q), SameBody(p, q)
    PROVE  BodyOK(q, c) /\ ReadsOK(q, c)
<1>1. c \in Conns /\ c.inBuf \in Int
  BY DEF BodyOK, Conns
<1>2. c.inBuf <= c.inBuf
  BY <1>1
<1> QED
  BY <1>1, <1>2, BodySame, ReadsSame

(* The body that expectRequestBody() creates. *)
LEMMA BodyInit == RequestBodyInit => BodyInv
<1> SUFFICES ASSUME RequestBodyInit PROVE BodyInv
  OBVIOUS
<1>1. PICK size \in 1..MaxBody, chunked \in BOOLEAN, malformed \in BOOLEAN :
        /\ malformed => chunked
        /\ pipe = NewPipe(IF chunked THEN Unknown ELSE size)
        /\ conn = [body |-> size,
                   unsent |-> IF chunked THEN size + 1 ELSE size,
                   inBuf |-> 0, reader |-> "armed", open |-> TRUE,
                   chunked |-> chunked, malformed |-> malformed,
                   readMore |-> TRUE,
                   stoppedSending |-> FALSE, stoppedReceiving |-> FALSE]
        /\ server = [n |-> 0, open |-> FALSE, sender |-> "no",
                     whole |-> FALSE, dontRetry |-> FALSE, took |-> 0]
        /\ fwd = "callouts" /\ response = "none" /\ denied = FALSE
  BY DEF RequestBodyInit
<1>2. PICK bytes : bytes = IF chunked THEN Unknown ELSE size
  OBVIOUS
<1>3. PICK unsent : unsent = IF chunked THEN size + 1 ELSE size
  OBVIOUS
<1>4. /\ bytes \in {Unknown} \cup 0..MaxBody /\ unsent \in 0..MaxBody + 1
      /\ 0 \in 0..InSize /\ 0 \in 0..MaxBody /\ 0 \in 0..MaxTries
      /\ None \in Consumers \cup {None} /\ <<>> \in Seq(Calls)
  BY <1>2, <1>3, Bounds
<1>5. /\ pipe \in PipeTypes /\ pipe.size = bytes /\ pipe.put = 0
      /\ pipe.get = 0 /\ pipe.producer = TRUE /\ pipe.consumer = None
      /\ pipe.auto = FALSE /\ pipe.aborted = FALSE
      /\ pipe.failed = FALSE /\ pipe.calls = <<>>
  BY <1>1, <1>2, <1>4 DEF NewPipe, PipeTypes
<1>6. /\ conn \in Conns /\ conn.body = size /\ conn.unsent = unsent
      /\ conn.inBuf = 0 /\ conn.chunked = chunked
      /\ conn.malformed = malformed
  BY <1>1, <1>3, <1>4 DEF Conns
<1>7. /\ server \in ServerStates /\ server.n = 0 /\ server.open = FALSE
      /\ server.whole = FALSE
  BY <1>1, <1>4 DEF ServerStates
<1>8. PipeOK(pipe)
  BY <1>5, Bounds DEF PipeOK
<1>9. ConsumerOK(pipe, server, fwd)
  BY <1>1, <1>5, <1>7, Bounds DEF ConsumerOK
<1>10. /\ CallsTrue(pipe) /\ ClosedOK(pipe, server, fwd)
       /\ ReadsOK(pipe, conn)
  BY <1>5 DEF CallsTrue, ClosedOK, ReadsOK
<1>11. DataFirst(pipe, server)
  BY <1>7 DEF DataFirst, Behind
<1>12. BodyOK(pipe, conn)
  BY <1>1, <1>2, <1>3, <1>5, <1>6, Bounds DEF BodyOK
<1> QED
  BY <1>1, <1>8, <1>9, <1>10, <1>11, <1>12 DEF BodyInv, Core

(* The invariant after a step, from its parts. *)
LEMMA BodyStep ==
    ASSUME BodyInv, NEW q, NEW d, NEW w, NEW g, NEW a, NEW b,
           pipe' = q, conn' = d, server' = w, fwd' = g, response' = a,
           denied' = b,
           Core(q, w, g), DataFirst(q, w), BodyOK(q, d), ReadsOK(q, d),
           g \in {"callouts", "connecting", "serving", "done"},
           a \in {"none", "ready", "sent"}, b \in BOOLEAN
    PROVE  BodyInv'
BY DEF BodyInv

(* The forwarding's and the server's steps that do not dial a call. *)
LEMMA ForwardKeeps ==
    ASSUME BodyInv,
           \/ StartForwarding \/ Deny \/ HandleAdaptationFailure
           \/ StartServer \/ ConnectFails
    PROVE  BodyInv'
<1>0. PICK p, c, v, f, a, b :
        /\ p = pipe /\ c = conn /\ v = server /\ f = fwd
        /\ a = response /\ b = denied
  OBVIOUS
<1>1. /\ Core(p, v, f) /\ DataFirst(p, v) /\ BodyOK(p, c) /\ ReadsOK(p, c)
      /\ p \in PipeTypes /\ v \in ServerStates
      /\ a \in {"none", "ready", "sent"} /\ b \in BOOLEAN
  BY <1>0 DEF BodyInv, Core, PipeOK, ConsumerOK
<1>2. v.n \in 0..MaxTries
  BY <1>1 DEF ServerStates
<1>3. ASSUME f = "callouts", NEW g \in {"connecting", "done"}
      PROVE  Core(p, v, g) /\ p.consumer = None
  <2>1. ConsumerOK(p, v, g)
    BY <1>1, <1>3 DEF Core, ConsumerOK
  <2>2. ClosedOK(p, v, g)
    BY <1>1, <1>3 DEF Core, ClosedOK
  <2> QED
    BY <1>1, <1>3, <2>1, <2>2 DEF Core, ConsumerOK
<1>4. CASE StartForwarding
  <2>1. /\ f = "callouts" /\ fwd' = "connecting" /\ pipe' = p
        /\ conn' = c /\ server' = v /\ response' = a /\ denied' = b
    BY <1>0, <1>4 DEF StartForwarding
  <2>2. Core(p, v, "connecting")
    BY <1>3, <2>1
  <2> QED
    BY <1>1, <2>1, <2>2, BodyStep
<1>5. CASE Deny
  <2>1. /\ f = "callouts" /\ fwd' = "done" /\ pipe' = p
        /\ conn' = c /\ server' = v /\ response' = "ready"
        /\ denied' = TRUE
    BY <1>0, <1>5 DEF Deny
  <2>2. Core(p, v, "done")
    BY <1>3, <2>1
  <2> QED
    BY <1>1, <2>1, <2>2, BodyStep
<1>6. CASE HandleAdaptationFailure
  <2>1. PICK q : q = IF p.producer THEN ExpectNoConsumption(p) ELSE p
    OBVIOUS
  <2>2. /\ f = "callouts" /\ fwd' = "done" /\ pipe' = q
        /\ conn' = c /\ server' = v /\ response' = "ready" /\ denied' = b
    BY <1>0, <1>6, <2>1 DEF HandleAdaptationFailure
  <2>3. Core(p, v, "done") /\ p.consumer = None
    BY <1>3, <2>2
  <2>4. /\ Core(q, v, "done") /\ DataFirst(q, v) /\ NoReads(p, q)
        /\ SameBody(p, q)
    <3>1. CASE p.producer
      BY <1>1, <2>1, <2>3, <3>1, ExpectNoCore
    <3>2. CASE ~p.producer
      BY <1>1, <2>1, <2>3, <3>2, NoReadsSame DEF SameBody
    <3> QED
      BY <3>1, <3>2
  <2>5. BodyOK(q, c) /\ ReadsOK(q, c)
    BY <1>1, <2>4, Undisturbed DEF Core, PipeOK
  <2> QED
    BY <1>1, <2>2, <2>4, <2>5, BodyStep
<1>7. CASE StartServer
  <2>1. PICK w : w = [n |-> v.n + 1, open |-> TRUE, sender |-> "armed",
                      whole |-> FALSE, dontRetry |-> FALSE, took |-> 0]
    OBVIOUS
  <2>2. PICK q : q = SetConsumer(p, v.n + 1)
    OBVIOUS
  <2>3. /\ f = "connecting" /\ v.n < MaxTries /\ fwd' = "serving"
        /\ pipe' = q /\ conn' = c /\ server' = w /\ response' = a
        /\ denied' = b
    BY <1>0, <1>7, <2>1, <2>2 DEF StartServer
  <2>4. v.n + 1 \in Servers /\ v.n + 1 \in 0..MaxTries
        /\ 0 \in 0..MaxBody
    BY <1>2, <2>3, Bounds DEF Servers
  <2>5. /\ w \in ServerStates /\ w.n = v.n + 1 /\ w.sender = "armed"
        /\ w.took = 0 /\ ~w.whole
    BY <2>1, <2>4 DEF ServerStates
  <2>6. /\ Core(q, w, "serving") /\ NoReads(p, q) /\ SameBody(p, q)
        /\ DataFirst(q, w)
    BY <1>1, <2>2, <2>3, <2>4, <2>5, SetConsumerCore
  <2>7. BodyOK(q, c) /\ ReadsOK(q, c)
    BY <1>1, <2>6, Undisturbed DEF Core, PipeOK
  <2> QED
    BY <1>1, <2>3, <2>6, <2>7, BodyStep
<1>8. CASE ConnectFails
  <2>1. PICK w : w = [v EXCEPT !.n = v.n + 1]
    OBVIOUS
  <2>2. PICK q : q = DoneWithRetries(p)
    OBVIOUS
  <2>3. /\ f = "connecting" /\ v.n < MaxTries
        /\ conn' = c /\ server' = w /\ denied' = b
        /\ \/ /\ ~BodyNibbled(p)
              /\ pipe' = p /\ fwd' = "connecting" /\ response' = a
           \/ pipe' = q /\ fwd' = "done" /\ response' = "ready"
    BY <1>0, <1>8, <2>1, <2>2 DEF ConnectFails, RetryOrBail
  <2>4. v.n + 1 \in 0..MaxTries
    BY <1>2, <2>3, Bounds
  <2>5. /\ w \in ServerStates /\ w.n = v.n + 1 /\ w.open = v.open
        /\ w.whole = v.whole
    BY <1>1, <2>1, <2>4 DEF ServerStates
  <2>6. p.consumer = None /\ ~v.open /\ NoCloses(p) /\ None \notin Servers
    BY <1>1, <2>3, Bounds DEF Core, ConsumerOK, ClosedOK, NoCloses
  <2>7. Core(p, w, "connecting")
    <3>1. ConsumerOK(p, w, "connecting")
      BY <1>1, <2>3, <2>5, <2>6 DEF Core, ConsumerOK
    <3>2. ClosedOK(p, w, "connecting")
      BY <2>6 DEF ClosedOK, NoCloses
    <3> QED
      BY <1>1, <3>1, <3>2 DEF Core
  <2>8. /\ DataFirst(p, w) /\ Core(q, w, "done") /\ DataFirst(q, w)
        /\ NoReads(p, q) /\ SameBody(p, q)
    <3>1. DataFirst(p, w)
      BY <2>5, <2>6 DEF DataFirst, Behind
    <3> QED
      BY <2>2, <2>5, <2>6, <2>7, <3>1, RetryPipe
  <2>9. BodyOK(q, c) /\ ReadsOK(q, c)
    BY <1>1, <2>8, Undisturbed DEF Core, PipeOK
  <2>10. CASE pipe' = p /\ fwd' = "connecting" /\ response' = a
    BY <1>1, <2>3, <2>7, <2>8, <2>10, BodyStep
  <2>11. CASE pipe' = q /\ fwd' = "done" /\ response' = "ready"
    BY <1>1, <2>3, <2>8, <2>9, <2>11, BodyStep
  <2> QED
    BY <2>3, <2>10, <2>11
<1> QED
  BY <1>4, <1>5, <1>6, <1>7, <1>8

(* The events of the connections schedule their handlers. *)
LEMMA EventsKeep ==
    ASSUME BodyInv,
           \/ \E n \in 0..InSize : ClientSends(n)
           \/ ServerWritten \/ ServerFails \/ ServerReplies
           \/ \E keepalive \in BOOLEAN : ResponseWritten(keepalive)
    PROVE  BodyInv'
<1>0. PICK p, c, v, f, a, b :
        /\ p = pipe /\ c = conn /\ v = server /\ f = fwd
        /\ a = response /\ b = denied
  OBVIOUS
<1>1. /\ Core(p, v, f) /\ DataFirst(p, v) /\ BodyOK(p, c) /\ ReadsOK(p, c)
      /\ p \in PipeTypes /\ v \in ServerStates /\ c \in Conns
      /\ f \in {"callouts", "connecting", "serving", "done"}
      /\ a \in {"none", "ready", "sent"} /\ b \in BOOLEAN
  BY <1>0 DEF BodyInv, Core, PipeOK, ConsumerOK, BodyOK
<1>2. ASSUME NEW n \in 0..InSize, ClientSends(n) PROVE BodyInv'
  <2>1. PICK d : d = [c EXCEPT !.reader = "fired"]
    OBVIOUS
  <2>2. PICK call : call = <<"read", n>>
    OBVIOUS
  <2>3. PICK q : q = Schedule(p, call)
    OBVIOUS
  <2>4. /\ c.reader = "armed" /\ n <= c.unsent /\ n <= InSize - c.inBuf
        /\ pipe' = q /\ conn' = d /\ server' = v /\ fwd' = f
        /\ response' = a /\ denied' = b
    BY <1>0, <1>2, <2>1, <2>2, <2>3 DEF ClientSends
  <2>5. call \in Calls /\ call[1] = "read" /\ call[2] = n
    BY <2>2 DEF Calls
  <2>6. Core(q, v, f) /\ SamePipe(p, q) /\ DataFirst(q, v)
    BY <1>1, <2>3, <2>5, ScheduleCore
  <2>7. /\ d \in Conns /\ SameBuffer(c, d) /\ d.reader = "fired"
    BY <1>1, <2>1 DEF Conns, SameBuffer
  <2>8. BodyOK(q, d)
    BY <1>1, <2>6, <2>7 DEF BodyOK, SamePipe, SameBuffer
  <2>9. ReadsOK(q, d)
    <3>1. Appended(p, q, call)
      BY <1>1, <2>3, <2>5, Scheduled
    <3>2. \A i \in 1..Len(p.calls) : p.calls[i][1] # "read"
      BY <1>1, <2>4 DEF ReadsOK
    <3>3. \A i \in 1..Len(q.calls) : q.calls[i][1] = "read" =>
                i = Len(p.calls) + 1 /\ q.calls[i] = call
      <4>1. \A i \in 1..Len(q.calls) :
                i = Len(p.calls) + 1 \/ i \in 1..Len(p.calls)
        BY <3>1 DEF Appended
      <4> QED
        BY <3>1, <3>2, <4>1 DEF Appended
    <3>4. n <= d.unsent /\ n + d.inBuf <= InSize
      BY <1>1, <2>4, <2>7, Bounds DEF SameBuffer, Conns
    <3>5. \A i \in 1..Len(q.calls) : q.calls[i][1] = "read" =>
            /\ d.reader = "fired" /\ q.calls[i][2] <= d.unsent
            /\ q.calls[i][2] + d.inBuf <= InSize
      BY <2>5, <2>7, <3>3, <3>4
    <3>6. \A i, j \in 1..Len(q.calls) :
            (q.calls[i][1] = "read" /\ q.calls[j][1] = "read") => i = j
      BY <3>3, Zenon
    <3> QED
      BY <3>5, <3>6 DEF ReadsOK
  <2> QED
    BY <1>1, <2>4, <2>6, <2>8, <2>9, BodyStep
<1>3. CASE ServerWritten
  <2>1. PICK w : w = [v EXCEPT !.sender = "fired"]
    OBVIOUS
  <2>2. PICK call : call = <<"sent", v.n>>
    OBVIOUS
  <2>3. PICK q : q = Schedule(p, call)
    OBVIOUS
  <2>4. /\ v.open /\ pipe' = q /\ conn' = c /\ server' = w /\ fwd' = f
        /\ response' = a /\ denied' = b
    BY <1>0, <1>3, <2>1, <2>2, <2>3 DEF ServerWritten
  <2>5. v.n \in Servers
    BY <1>1, <2>4 DEF Core, ConsumerOK
  <2>6. call \in Calls /\ call[1] = "sent"
    BY <2>2, <2>5 DEF Calls
  <2>7. /\ w \in ServerStates /\ w.n = v.n /\ w.took = v.took
        /\ w.open = v.open /\ w.whole = v.whole /\ w.sender = "fired"
    BY <1>1, <2>1 DEF ServerStates
  <2>8. Core(p, w, f)
    BY <1>1, <2>7, SameServer
  <2>9. Core(q, w, f) /\ SamePipe(p, q) /\ NoReads(p, q)
    BY <2>3, <2>6, <2>8, ScheduleCore
  <2>10. DataFirst(q, w)
    BY <2>7 DEF DataFirst, Behind
  <2>11. BodyOK(q, c) /\ ReadsOK(q, c)
    BY <1>1, <2>9, Undisturbed DEF Core, PipeOK, SamePipe, SameBody
  <2> QED
    BY <1>1, <2>4, <2>9, <2>10, <2>11, BodyStep
<1>4. CASE ServerFails
  <2>1. PICK s : s = [p |-> p, v |-> v]
    OBVIOUS
  <2>2. PICK t : t = ServerClose(s)
    OBVIOUS
  <2>3. /\ v.open /\ pipe' = t.p /\ conn' = c /\ server' = t.v /\ fwd' = f
        /\ response' = a /\ denied' = b
    BY <1>0, <1>4, <2>1, <2>2 DEF ServerFails
  <2>4. s \in Pairs /\ s.p = p /\ s.v = v
    BY <1>1, <2>1 DEF Pairs
  <2>5. PICK w : w = [v EXCEPT !.open = FALSE]
    OBVIOUS
  <2>6. /\ w \in ServerStates /\ w.n = v.n /\ w.took = v.took
        /\ ~w.open /\ w.whole = v.whole
    BY <1>1, <2>5 DEF ServerStates
  <2>7. Core(p, w, f) /\ f = "serving" /\ NoCloses(p)
    BY <1>1, <2>3, <2>6, SameServer, OpenNoCloses
  <2>8. ServerDoes(s, t, f)
    BY <2>2, <2>4, <2>5, <2>7, ServerCloseDoes
  <2>9. BodyOK(t.p, c) /\ ReadsOK(t.p, c)
    BY <1>1, <2>4, <2>8, Undisturbed DEF ServerDoes, Pairs
  <2>10. Core(t.p, t.v, f) /\ DataFirst(t.p, t.v)
    BY <2>8 DEF ServerDoes
  <2>11. PICK x, y : x = t.p /\ y = t.v
    OBVIOUS
  <2> QED
    BY <1>1, <2>3, <2>9, <2>10, <2>11, BodyStep
<1>5. CASE ServerReplies
  <2>1. PICK w : w = [v EXCEPT !.open = FALSE]
    OBVIOUS
  <2>2. PICK r : r = IF p.consumer = v.n THEN ClearConsumer(p) ELSE p
    OBVIOUS
  <2>3. PICK q : q = DoneWithRetries(r)
    OBVIOUS
  <2>4. /\ v.open /\ conn' = c /\ server' = w /\ denied' = b
        /\ \/ /\ ~BodyNibbled(r)
              /\ pipe' = r /\ fwd' = "connecting" /\ response' = a
           \/ pipe' = q /\ fwd' = "done" /\ response' = "ready"
    BY <1>0, <1>5, <2>1, <2>2, <2>3 DEF ServerReplies, RetryOrBail
  <2>5. /\ w \in ServerStates /\ w.n = v.n /\ w.took = v.took
        /\ ~w.open /\ w.whole = v.whole
    BY <1>1, <2>1 DEF ServerStates
  <2>6. Core(p, w, f) /\ f = "serving" /\ NoCloses(p)
    BY <1>1, <2>4, <2>5, SameServer, OpenNoCloses
  <2>7. /\ Core(r, w, f) /\ NoReads(p, r) /\ SameBody(p, r)
        /\ r.consumer \notin Servers /\ NoCloses(r)
    <3>1. CASE p.consumer = v.n
      BY <2>2, <2>5, <2>6, <3>1, ClearConsumerCore, Bounds
    <3>2. CASE p.consumer # v.n
      <4>1. r = p
        BY <2>2, <3>2
      <4>2. p.consumer \notin Servers
        BY <1>1, <3>2 DEF Core, ConsumerOK
      <4> QED
        BY <1>1, <2>6, <4>1, <4>2, NoReadsSame DEF SameBody
    <3> QED
      BY <3>1, <3>2
  <2>8. /\ ~BodyNibbled(r) => Core(r, w, "connecting") /\ DataFirst(r, w)
        /\ Core(q, w, "done") /\ DataFirst(q, w)
        /\ NoReads(r, q) /\ SameBody(r, q)
    BY <2>3, <2>5, <2>6, <2>7, RetryPipe
  <2>9. /\ r \in PipeTypes /\ q \in PipeTypes
    BY <2>7, <2>8 DEF Core, PipeOK
  <2>10. BodyOK(r, c) /\ ReadsOK(r, c)
    BY <1>1, <2>7, <2>9, Undisturbed
  <2>11. BodyOK(q, c) /\ ReadsOK(q, c)
    BY <2>8, <2>9, <2>10, Undisturbed
  <2>12. CASE /\ ~BodyNibbled(r)
              /\ pipe' = r /\ fwd' = "connecting" /\ response' = a
    BY <1>1, <2>4, <2>8, <2>10, <2>12, BodyStep
  <2>13. CASE pipe' = q /\ fwd' = "done" /\ response' = "ready"
    BY <1>1, <2>4, <2>8, <2>11, <2>13, BodyStep
  <2> QED
    BY <2>4, <2>12, <2>13
<1>6. ASSUME NEW keepalive \in BOOLEAN, ResponseWritten(keepalive)
      PROVE  BodyInv'
  <2>1. PICK call : call = <<"written", keepalive>>
    OBVIOUS
  <2>2. PICK q : q = Schedule(p, call)
    OBVIOUS
  <2>3. /\ pipe' = q /\ conn' = c /\ server' = v /\ fwd' = f
        /\ response' = "sent" /\ denied' = b
    BY <1>0, <1>6, <2>1, <2>2 DEF ResponseWritten
  <2>4. call \in Calls /\ call[1] = "written"
    BY <2>1 DEF Calls
  <2>5. /\ Core(q, v, f) /\ SamePipe(p, q) /\ NoReads(p, q)
        /\ DataFirst(q, v)
    BY <1>1, <2>2, <2>4, ScheduleCore
  <2>6. BodyOK(q, c) /\ ReadsOK(q, c)
    BY <1>1, <2>5, Undisturbed DEF Core, PipeOK, SamePipe, SameBody
  <2> QED
    BY <1>1, <2>3, <2>5, <2>6, BodyStep
<1> QED
  BY <1>2, <1>3, <1>4, <1>5, <1>6

(* The calls that are dialed. *)
LEMMA DialKeeps ==
    ASSUME BodyInv, Dial
    PROVE  BodyInv'
<1>0. PICK p, c, v, f, a, b :
        /\ p = pipe /\ c = conn /\ v = server /\ f = fwd
        /\ a = response /\ b = denied
  OBVIOUS
<1>1. /\ Core(p, v, f) /\ DataFirst(p, v) /\ BodyOK(p, c) /\ ReadsOK(p, c)
      /\ p \in PipeTypes /\ v \in ServerStates /\ c \in Conns
      /\ f \in {"callouts", "connecting", "serving", "done"}
      /\ a \in {"none", "ready", "sent"} /\ b \in BOOLEAN
      /\ p.calls # <<>> /\ denied' = b
  BY <1>0 DEF BodyInv, Core, PipeOK, ConsumerOK, BodyOK, Dial
<1>2. PICK call : call = Head(p.calls)
  OBVIOUS
<1>3. PICK r : r = [p EXCEPT !.calls = Tail(p.calls)]
  OBVIOUS
<1>4. call = Call /\ r = Rest
  BY <1>0, <1>2, <1>3 DEF Call, Rest
<1>5. /\ Core(r, v, f) /\ SamePipe(p, r) /\ ReadsOK(r, c)
      /\ call \in Calls
      /\ call # <<"data", v.n>> => DataFirst(r, v)
      /\ call = <<"ended", v.n>> => ~Behind(p, v)
      /\ call[1] = "ended" => ~p.producer /\ p.size = p.put
      /\ call[1] = "abort" => p.aborted
      /\ call[1] = "read" =>
            /\ \A i \in 1..Len(r.calls) : r.calls[i][1] # "read"
            /\ call[2] <= c.unsent /\ call[2] + c.inBuf <= InSize
            /\ c.reader = "fired"
      /\ call[1] = "serverclosed" =>
            /\ \A i \in 1..Len(r.calls) : r.calls[i][1] # "serverclosed"
            /\ ~v.open /\ f = "serving"
  <2>1. Dialing(p, r, v, f, c, call)
    BY <1>1, <1>2, <1>3, DialCore
  <2> QED
    BY <2>1, Zenon DEF Dialing
<1>6. r \in PipeTypes /\ BodyOK(r, c) /\ call = <<call[1], call[2]>>
  <2>1. SameBody(p, r)
    BY <1>5 DEF SamePipe, SameBody
  <2> QED
    BY <1>1, <1>5, <2>1, BodySame, CallKinds DEF Core, PipeOK
<1>7. PICK s : s = [p |-> r, c |-> c]
  OBVIOUS
<1>8. s \in ClientStates /\ s.p = r /\ s.c = c
  BY <1>1, <1>6, <1>7 DEF ClientStates
<1>9. call[1] # "data" => ClientInv(s, v, f)
  <2>1. call[1] # "data" => call # <<"data", v.n>>
    OBVIOUS
  <2> QED
    BY <1>5, <1>6, <1>8, <2>1 DEF ClientInv
<1>10. ASSUME NEW t, ToClient(t), ClientInv(t, v, f) PROVE BodyInv'
  <2>1. PICK q, d : q = t.p /\ d = t.c
    OBVIOUS
  <2>2. /\ pipe' = q /\ conn' = d /\ server' = v /\ fwd' = f
        /\ response' = a
    BY <1>0, <1>10, <2>1 DEF ToClient
  <2>3. Core(q, v, f) /\ DataFirst(q, v) /\ BodyOK(q, d) /\ ReadsOK(q, d)
    BY <1>10, <2>1 DEF ClientInv
  <2> QED
    BY <1>1, <2>2, <2>3, BodyStep
<1>11. CASE DialConnection
  <2>1. CASE call[1] = "read" /\ ToClient(ClientReadRequest(s, call[2]))
    <3>1. call[2] \in 0..InSize
      BY <1>5, <2>1, CallKinds
    <3>2. DataFirst(r, v)
      BY <1>5, <2>1
    <3>3. PICK t : t = ClientReadRequest(s, call[2])
      OBVIOUS
    <3>4. ClientInv(t, v, f)
      BY <1>5, <1>6, <1>8, <2>1, <3>1, <3>2, <3>3, ClientReadInv
    <3> QED
      BY <1>10, <2>1, <3>3, <3>4
  <2>2. CASE call[1] = "written" /\ ToClient(WriteComplete(s, call[2]))
    <3>1. PICK t : t = WriteComplete(s, call[2])
      OBVIOUS
    <3>2. ClientInv(t, v, f)
      BY <1>9, <2>2, <3>1, WriteCompleteInv
    <3> QED
      BY <1>10, <2>2, <3>1, <3>2
  <2>3. CASE call[1] = "closed" /\ ToClient(ConnStateClosed(s))
    <3>1. PICK t : t = ConnStateClosed(s)
      OBVIOUS
    <3>2. ClientInv(t, v, f)
      BY <1>9, <2>3, <3>1, ConnClosedInv
    <3> QED
      BY <1>10, <2>3, <3>1, <3>2
  <2> QED
    BY <1>0, <1>4, <1>7, <1>11, <2>1, <2>2, <2>3 DEF DialConnection
<1>12. CASE DialProducer
  <2>1. PICK t : t = CASE ~p.producer -> s
                       [] p.producer /\ call[1] = "space" ->
                             NoteMoreBodySpaceAvailable(s)
                       [] OTHER -> NoteBodyConsumerAborted(s)
    OBVIOUS
  <2>2. call[1] \in {"space", "abort"} /\ ToClient(t)
    BY <1>0, <1>4, <1>7, <1>12, <2>1 DEF DialProducer
  <2>3. ClientInv(s, v, f)
    BY <1>9, <2>2
  <2>4. CASE ~p.producer
    <3>1. t = s
      BY <2>1, <2>4
    <3> QED
      BY <1>10, <2>2, <2>3, <3>1
  <2>5. CASE p.producer /\ call[1] = "space"
    <3>1. t = NoteMoreBodySpaceAvailable(s)
      BY <2>1, <2>5
    <3> QED
      BY <1>10, <2>2, <2>3, <3>1, MoreSpaceInv
  <2>6. CASE p.producer /\ call[1] # "space"
    <3>1. t = NoteBodyConsumerAborted(s)
      BY <2>1, <2>6
    <3>2. s.p.aborted
      BY <1>5, <1>8, <2>2, <2>6 DEF SamePipe
    <3> QED
      BY <1>10, <2>2, <2>3, <3>1, <3>2, ConsumerAbortedInv
  <2> QED
    BY <2>4, <2>5, <2>6
<1>13. PICK z : z = [p |-> r, v |-> v]
  OBVIOUS
<1>14. z \in Pairs /\ z.p = r /\ z.v = v
  BY <1>1, <1>6, <1>13 DEF Pairs
<1>15. ASSUME NEW t, ToServer(t), ServerDoes(z, t, f) PROVE BodyInv'
  <2>1. PICK q, w : q = t.p /\ w = t.v
    OBVIOUS
  <2>2. /\ pipe' = q /\ conn' = c /\ server' = w /\ fwd' = f
        /\ response' = a
    BY <1>0, <1>15, <2>1 DEF ToServer
  <2>3. /\ Core(q, w, f) /\ DataFirst(q, w) /\ NoReads(r, q)
        /\ SameBody(r, q) /\ q \in PipeTypes
    BY <1>14, <1>15, <2>1 DEF ServerDoes, Pairs
  <2>4. BodyOK(q, c) /\ ReadsOK(q, c)
    BY <1>5, <1>6, <2>3, Undisturbed
  <2> QED
    BY <1>1, <2>2, <2>3, <2>4, BodyStep
<1>16. ASSUME DataFirst(r, v) PROVE ServerDoes(z, z, f)
  BY <1>5, <1>6, <1>14, <1>16, NoReadsSame DEF ServerDoes, SameBody
<1>17. CASE DialConsumer
  <2>1. PICK t : t = IF p.consumer # call[2] THEN z
                     ELSE IF call[2] = Sink
                     THEN [z EXCEPT !.p = BodySink(@, call[1])]
                     ELSE CASE call[1] = "data" ->
                                 HandleMoreRequestBodyAvailable(z)
                            [] call[1] = "ended" ->
                                 HandleRequestBodyProductionEnded(z)
                            [] OTHER ->
                                 HandleRequestBodyProducerAborted(z)
    OBVIOUS
  <2>2. call[1] \in {"data", "ended", "aborted"} /\ ToServer(t)
    BY <1>0, <1>4, <1>13, <1>17, <2>1 DEF DialConsumer
  <2>3. /\ call[2] \in Consumers /\ v.n # Sink /\ v.n # None
        /\ \A n \in Servers : n # Sink
    BY <1>1, <1>5, <2>2, CallKinds, Bounds DEF ServerStates
  <2>4. ServerDoes(z, t, f)
    <3>1. CASE p.consumer # call[2]
      <4>1. t = z
        BY <2>1, <3>1
      <4>2. DataFirst(r, v)
        <5>1. CASE call # <<"data", v.n>>
          BY <1>5, <5>1
        <5>2. CASE call = <<"data", v.n>>
          <6>1. r.consumer # v.n
            BY <1>5, <3>1, <5>2 DEF SamePipe
          <6> QED
            BY <6>1 DEF DataFirst, Behind
        <5> QED
          BY <5>1, <5>2
      <4> QED
        BY <1>16, <4>1, <4>2
    <3>2. CASE call[2] = Sink /\ p.consumer = Sink
      <4>1. PICK q : q = BodySink(r, call[1])
        OBVIOUS
      <4>2. t = [z EXCEPT !.p = q]
        <5>1. [z EXCEPT !.p = BodySink(@, call[1])] = [z EXCEPT !.p = q]
          BY <1>14, <4>1
        <5> QED
          BY <2>1, <2>3, <3>2, <5>1
      <4>3. /\ Core(q, v, f) /\ DataFirst(q, v) /\ NoReads(r, q)
            /\ SameBody(r, q)
        BY <1>5, <3>2, <4>1, SinkDoes DEF SamePipe
      <4>4. t \in Pairs /\ t.p = q /\ t.v = v
        BY <1>14, <4>2, <4>3 DEF Pairs, Core, PipeOK
      <4> QED
        BY <1>14, <4>3, <4>4 DEF ServerDoes
    <3>3. CASE p.consumer = call[2] /\ call[2] # Sink
      <4>1. p.consumer = v.n /\ r.consumer = v.n
        <5>1. p.consumer \in Servers
          BY <2>3, <3>3 DEF Consumers
        <5> QED
          BY <1>1, <1>5, <5>1 DEF Core, ConsumerOK, SamePipe
      <4>2. CASE call[1] = "data"
        <5>1. t = HandleMoreRequestBodyAvailable(z)
          BY <2>1, <3>3, <4>1, <4>2
        <5> QED
          BY <1>5, <1>14, <4>1, <5>1, MoreAvailableDoes
      <4>3. CASE call[1] = "ended"
        <5>1. t = HandleRequestBodyProductionEnded(z)
          BY <2>1, <3>3, <4>1, <4>3
        <5>2. call = <<"ended", v.n>>
          BY <1>6, <3>3, <4>1, <4>3
        <5>3. ~Behind(r, v) /\ ~r.producer /\ r.size = r.put
          BY <1>5, <4>3, <5>2 DEF Behind, SamePipe
        <5> QED
          BY <1>5, <1>14, <4>1, <5>1, <5>3, ProductionEndedDoes
      <4>4. CASE call[1] = "aborted"
        <5>1. t = HandleRequestBodyProducerAborted(z)
          BY <2>1, <3>3, <4>1, <4>4
        <5> QED
          BY <1>5, <1>14, <5>1, ProducerAbortedDoes
      <4> QED
        BY <2>2, <4>2, <4>3, <4>4
    <3> QED
      BY <3>1, <3>2, <3>3
  <2> QED
    BY <1>15, <2>2, <2>4
<1>18. CASE DialSent
  <2>1. PICK t : t = IF call[2] = v.n THEN SentRequestBody(z) ELSE z
    OBVIOUS
  <2>2. call[1] = "sent" /\ ToServer(t)
    BY <1>0, <1>4, <1>13, <1>18, <2>1 DEF DialSent
  <2>3. DataFirst(r, v)
    BY <1>5, <2>2
  <2>4. ServerDoes(z, t, f)
    <3>1. CASE call[2] = v.n
      BY <1>5, <1>14, <2>1, <3>1, SentDoes
    <3>2. CASE call[2] # v.n
      BY <1>16, <2>1, <2>3, <3>2
    <3> QED
      BY <3>1, <3>2
  <2> QED
    BY <1>15, <2>2, <2>4
<1>19. CASE DialServerClosed
  <2>1. PICK u : u = IF p.consumer = v.n THEN ClearConsumer(r) ELSE r
    OBVIOUS
  <2>2. PICK q : q = DoneWithRetries(u)
    OBVIOUS
  <2>3. /\ call[1] = "serverclosed" /\ conn' = c /\ server' = v
        /\ \/ /\ ~BodyNibbled(u)
              /\ pipe' = u /\ fwd' = "connecting" /\ response' = a
           \/ pipe' = q /\ fwd' = "done" /\ response' = "ready"
    BY <1>0, <1>4, <1>19, <2>1, <2>2 DEF DialServerClosed, RetryOrBail
  <2>4. NoCloses(r) /\ ~v.open /\ f = "serving"
    BY <1>5, <2>3 DEF NoCloses
  <2>5. /\ Core(u, v, f) /\ NoReads(r, u) /\ SameBody(r, u)
        /\ u.consumer \notin Servers /\ NoCloses(u)
    <3>1. CASE p.consumer = v.n
      BY <1>5, <2>1, <2>4, <3>1, ClearConsumerCore, Bounds
    <3>2. CASE p.consumer # v.n
      <4>1. u = r
        BY <2>1, <3>2
      <4>2. r.consumer \notin Servers
        BY <1>1, <1>5, <3>2 DEF Core, ConsumerOK, SamePipe
      <4> QED
        BY <1>5, <1>6, <2>4, <4>1, <4>2, NoReadsSame DEF SameBody
    <3> QED
      BY <3>1, <3>2
  <2>6. /\ ~BodyNibbled(u) => Core(u, v, "connecting") /\ DataFirst(u, v)
        /\ Core(q, v, "done") /\ DataFirst(q, v)
        /\ NoReads(u, q) /\ SameBody(u, q)
    BY <2>2, <2>4, <2>5, RetryPipe
  <2>7. /\ u \in PipeTypes /\ q \in PipeTypes
    BY <2>5, <2>6 DEF Core, PipeOK
  <2>8. BodyOK(u, c) /\ ReadsOK(u, c)
    BY <1>5, <1>6, <2>5, <2>7, Undisturbed
  <2>9. BodyOK(q, c) /\ ReadsOK(q, c)
    BY <2>6, <2>7, <2>8, Undisturbed
  <2>10. CASE /\ ~BodyNibbled(u)
              /\ pipe' = u /\ fwd' = "connecting" /\ response' = a
    BY <1>1, <2>3, <2>6, <2>8, <2>10, BodyStep
  <2>11. CASE pipe' = q /\ fwd' = "done" /\ response' = "ready"
    BY <1>1, <2>3, <2>6, <2>9, <2>11, BodyStep
  <2> QED
    BY <2>3, <2>10, <2>11
<1> QED
  BY <1>11, <1>12, <1>17, <1>18, <1>19 DEF Dial

(* BodyInv is an invariant of the specification. *)
LEMMA BodyInvariant == RequestBodySpec => []BodyInv
<1>1. ASSUME BodyInv, [RequestBodyNext]_vars PROVE BodyInv'
  <2>1. CASE UNCHANGED vars
    BY <1>1, <2>1 DEF vars, BodyInv
  <2>2. CASE RequestBodyNext
    BY <1>1, <2>2, ForwardKeeps, EventsKeep, DialKeeps DEF RequestBodyNext
  <2> QED
    BY <1>1, <2>1, <2>2
<1> QED
  BY <1>1, BodyInit, PTL DEF RequestBodySpec

(* Types, and no more in theBuf or of the body than there may be, at every *)
(* state of every behaviour of the request's body.                         *)
THEOREM BodyTypes == RequestBodySpec => []RequestBodyTypeOK
<1>1. BodyInv => RequestBodyTypeOK
  <2> SUFFICES ASSUME BodyInv PROVE RequestBodyTypeOK
    OBVIOUS
  <2>1. /\ pipe \in PipeTypes /\ conn \in Conns /\ server \in ServerStates
        /\ pipe.get <= pipe.put /\ pipe.put - pipe.get <= MaxCapacity
    BY DEF BodyInv, Core, PipeOK, ConsumerOK, BodyOK
  <2>2. /\ pipe.put \in Nat /\ pipe.get \in Nat
        /\ pipe.consumer \in Consumers \cup {None}
    BY <2>1, Bounds DEF PipeTypes
  <2>3. Content(pipe) \in 0..MaxCapacity
    BY <2>1, <2>2, Bounds DEF Content
  <2>4. BodySizeKnown(pipe) => pipe.put <= pipe.size
    BY DEF BodyInv, BodyOK, BodySizeKnown
  <2> QED
    BY <2>1, <2>2, <2>3, <2>4 DEF BodyInv, RequestBodyTypeOK
<1> QED
  BY <1>1, BodyInvariant, PTL

(* No assert() and no Must() of BodyPipe.cc fails. *)
THEOREM BodyAssertionsHold == RequestBodySpec => []AssertionsHold
<1>1. BodyInv => AssertionsHold
  BY DEF BodyInv, Core, PipeOK, AssertionsHold
<1> QED
  BY <1>1, BodyInvariant, PTL

(* A server that was told the whole body and left the pipe was given every *)
(* unit of what the client sent.                                           *)
THEOREM BodyWholeSent == RequestBodySpec => []WholeBodySent
<1>1. BodyInv => WholeBodySent
  <2> SUFFICES ASSUME BodyInv, server.open, server.whole,
                      pipe.consumer # server.n
               PROVE  /\ server.took = conn.body /\ pipe.size = conn.body
                      /\ ~conn.malformed /\ conn.unsent = 0
    BY DEF WholeBodySent
  <2>1. /\ server.took = pipe.put /\ ~pipe.producer /\ pipe.size = pipe.put
    BY DEF BodyInv, Core, ConsumerOK
  <2>2. pipe.put # Unknown
    BY Bounds DEF BodyInv, Core, PipeOK, PipeTypes, Unknown
  <2> QED
    BY <2>1, <2>2 DEF BodyInv, BodyOK
<1> QED
  BY <1>1, BodyInvariant, PTL
=============================================================================
