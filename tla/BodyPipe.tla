------------------------------ MODULE BodyPipe ------------------------------
(***************************************************************************)
(* BodyPipe (src/src/BodyPipe.cc): hands a message body from a producer to *)
(* a consumer. Every operation is an operator from the pipe it is called   *)
(* on to the pipe it leaves, a record with                                 *)
(*   size      theBodySize, Unknown until it is known                      *)
(*   put, get  thePutSize and theGetSize; put - get is what theBuf holds   *)
(*   producer  theProducer is set                                          *)
(*   consumer  theConsumer: None, a server, or the BodySink                *)
(*   auto      mustAutoConsume                                             *)
(*   aborted   abortedConsumption                                          *)
(*   failed    an assert() or a Must() of an operation did not hold        *)
(*   calls     the AsyncCallQueue of the process, with the notifications   *)
(*             scheduled so far, each <<what, to whom>>                    *)
(***************************************************************************)
EXTENDS Integers, Sequences

CONSTANTS MaxCapacity,          \* of theBuf
          Sink,                 \* the consumer of auto-consumption
          None

ASSUME PipeAssumption == MaxCapacity \in Nat \ {0} /\ Sink # None

Unknown == -1

NewPipe(size) ==                \* a pipe with its producer
    [size |-> size, put |-> 0, get |-> 0, producer |-> TRUE,
     consumer |-> None, auto |-> FALSE, aborted |-> FALSE,
     failed |-> FALSE, calls |-> <<>>]

Content(p) == p.put - p.get
Space(p) == MaxCapacity - Content(p)
BodySizeKnown(p) == p.size # Unknown
MayNeedMoreData(p) == BodySizeKnown(p) => p.put < p.size
Exhausted(p) == ~(p.get < p.put \/ (p.producer /\ MayNeedMoreData(p)))

Schedule(p, call) == [p EXCEPT !.calls = Append(@, call)]
Must(p, condition) == [p EXCEPT !.failed = @ \/ ~condition]

ScheduleBodyDataNotification(p) ==
    IF p.consumer = None THEN p ELSE Schedule(p, <<"data", p.consumer>>)

ScheduleBodyEndNotification(p) ==
    IF p.consumer = None THEN p
    ELSE Schedule(p, <<IF p.size = p.put THEN "ended" ELSE "aborted",
                       p.consumer>>)

ClearProducerMutant(p, atEof) ==        \* tells the consumer of no abort
    LET q == [p EXCEPT !.producer = FALSE]
    IN  IF p.producer /\ atEof
        THEN ScheduleBodyEndNotification([q EXCEPT !.size = p.put])
        ELSE q

ClearProducer(p, atEof) ==
    LET q == [p EXCEPT !.producer = FALSE]
        r == IF atEof
             THEN [q EXCEPT !.size = IF @ = Unknown THEN p.put ELSE @]
             ELSE Must(q, p.size # p.put)
    IN  IF p.producer THEN ScheduleBodyEndNotification(r) ELSE p

StartAutoConsumption(p) ==
    ScheduleBodyDataNotification(
        [Must(p, p.auto /\ p.consumer = None) EXCEPT !.consumer = Sink])

(* What postAppend() would be if it told of the end before the data.       *)
PostAppendMutant(p, n) ==
    LET q == [p EXCEPT !.put = @ + n]
        r == IF q.auto /\ q.consumer = None
             THEN StartAutoConsumption(q) ELSE q
    IN  ScheduleBodyDataNotification(
            IF MayNeedMoreData(r) THEN r ELSE ClearProducer(r, TRUE))

PostAppend(p, n) ==
    LET q == [p EXCEPT !.put = @ + n]
        r == IF q.auto /\ q.consumer = None
             THEN StartAutoConsumption(q) ELSE q
        s == ScheduleBodyDataNotification(r)
    IN  IF MayNeedMoreData(s) THEN s ELSE ClearProducer(s, TRUE)

PostConsume(p, n) ==
    LET q == [p EXCEPT !.get = @ + n]
    IN  IF MayNeedMoreData(q) THEN Schedule(q, <<"space", None>>) ELSE q

Least(m, n) == IF m < n THEN m ELSE n

(* How many of n bytes putMoreData(), or the chunked parser, takes.        *)
AcceptedMutant(p, n) ==                 \* does not look at the space
    IF BodySizeKnown(p) THEN Least(n, p.size - p.put) ELSE n

Accepted(p, n) ==
    Least(Least(n, Space(p)),
          IF BodySizeKnown(p) THEN p.size - p.put ELSE n)

PutMoreData(p, n) ==
    IF Accepted(p, n) > 0 THEN PostAppend(p, Accepted(p, n)) ELSE p

(* Neither kind of regular consumer leaves anything in theBuf.             *)
GetMoreData(p) == IF Content(p) > 0 THEN PostConsume(p, Content(p)) ELSE p

ExpectNoConsumption(p) ==
    LET q == Schedule([p EXCEPT !.aborted = TRUE], <<"abort", None>>)
    IN  IF p.aborted \/ Exhausted(p) THEN p
        ELSE IF p.consumer # None THEN Must(p, FALSE)       \* throws
        ELSE IF q.auto THEN StartAutoConsumption(q) ELSE q

ClearConsumer(p) ==
    LET q == [p EXCEPT !.consumer = None]
    IN  IF p.consumer # None /\ q.get > 0 THEN ExpectNoConsumption(q) ELSE q

SetConsumer(p, c) ==            \* setConsumerIfNotLate(), which is not late
    LET q == [Must(p, p.consumer = None /\ p.get = 0 /\ ~p.aborted)
                EXCEPT !.consumer = c]
        r == IF Content(q) > 0 THEN ScheduleBodyDataNotification(q) ELSE q
    IN  IF p.producer THEN r ELSE ScheduleBodyEndNotification(r)

EnableAutoConsumption(p) ==
    LET q == [p EXCEPT !.auto = TRUE]
    IN  IF p.consumer = None /\ Content(p) > 0
        THEN StartAutoConsumption(q) ELSE q
=============================================================================
