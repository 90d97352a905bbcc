---------------------------- MODULE RequestBody ----------------------------
(***************************************************************************)
(* A request body on its way from a client to a server: ConnStateData      *)
(* (client_side.cc) produces it into a BodyPipe, ServerStateData           *)
(* (Server.cc, http.cc) consumes it, FwdState (forward.cc) tries one       *)
(* server after the other, and the jobs notify each other with             *)
(* asynchronous calls that are dialed in the order of their scheduling.    *)
(* Connections may fail at any time, and a server may reply before it has  *)
(* the body. A body is a number of units; a chunked one ends with the last *)
(* chunk, which is one more unit of the client's stream.                   *)
(***************************************************************************)
EXTENDS BodyPipe, FiniteSets

CONSTANTS MaxBody,              \* units of the longest body
          BodyLimit,            \* request_body_max_size, in units
          InSize,               \* units that ConnStateData::in.buf holds
          MaxTries              \* servers that FwdState tries

ASSUME BodyAssumption ==
    /\ MaxBody \in Nat \ {0} /\ InSize \in Nat \ {0} /\ MaxTries \in Nat
    /\ BodyLimit \in Nat \ {0}
    /\ Sink \notin 0..MaxTries /\ None \notin 0..MaxTries

VARIABLES pipe,         \* the BodyPipe and the call queue
          conn,         \* the client's connection, ConnStateData
          server,       \* the current ServerStateData
          fwd,          \* "callouts", "connecting", "serving" or "done"
          response,     \* "none", "ready" or "sent"
          denied        \* the request was refused without forwarding

vars == <<pipe, conn, server, fwd, response, denied>>

Servers == 1..MaxTries
Consumers == Servers \cup {Sink}

(* conn: body, the length of the body; unsent, units of the client's       *)
(* stream that are not in in.buf yet; inBuf, in.notYetUsed; reader, "no",  *)
(* "armed" or "fired"; fields of ConnStateData; malformed, what follows    *)
(* these units, in the middle of the body or at its end, is not a chunk.   *)
Conns == [body : 1..MaxBody, unsent : 0..MaxBody + 1, inBuf : 0..InSize,
          reader : {"no", "armed", "fired"}, open : BOOLEAN,
          chunked : BOOLEAN, malformed : BOOLEAN, readMore : BOOLEAN,
          stoppedSending : BOOLEAN, stoppedReceiving : BOOLEAN]

(* server: n, which try it is; sender, the state of requestSender; whole,  *)
(* receivedWholeRequestBody; took, units written to the server.            *)
ServerStates == [n : 0..MaxTries, open : BOOLEAN,
                 sender : {"no", "armed", "fired"}, whole : BOOLEAN,
                 dontRetry : BOOLEAN, took : 0..MaxBody]

(* Types; no more units are in the buffers than they hold. *)
RequestBodyTypeOK ==
    /\ conn \in Conns
    /\ server \in ServerStates
    /\ fwd \in {"callouts", "connecting", "serving", "done"}
    /\ response \in {"none", "ready", "sent"}
    /\ denied \in BOOLEAN
    /\ pipe.consumer \in Consumers \cup {None}
    /\ Content(pipe) \in 0..MaxCapacity
    /\ BodySizeKnown(pipe) => pipe.put <= pipe.size

RequestBodyInit ==              \* expectRequestBody()
    \E size \in 1..MaxBody, chunked, malformed \in BOOLEAN :
        /\ malformed => chunked
        /\ ~chunked => size <= BodyLimit        \* clientProcessRequest()
        /\ pipe = NewPipe(IF chunked THEN Unknown ELSE size)
        /\ conn = [body |-> size,
                   unsent |-> IF chunked THEN size + 1 ELSE size,
                   inBuf |-> 0, reader |-> "armed", open |-> TRUE,
                   chunked |-> chunked, malformed |-> malformed,
                   readMore |-> TRUE,
                   stoppedSending |-> FALSE, stoppedReceiving |-> FALSE]
        /\ server = [n |-> 0, open |-> FALSE, sender |-> "no",
                     whole |-> FALSE, dontRetry |-> FALSE, took |-> 0]
        /\ fwd = "callouts"
        /\ response = "none"
        /\ denied = FALSE

-----------------------------------------------------------------------------
(* The client's connection. Its operators take and return the pipe and the *)
(* connection, [p, c].                                                     *)

ClientClose(s) ==               \* clientConnection->close()
    IF s.c.open
    THEN [p |-> Schedule(s.p, <<"closed", None>>),
          c |-> [s.c EXCEPT !.open = FALSE]]
    ELSE s

(* With a known size putMoreData() ends the production by itself.          *)
HandlePlainRequestBody(s) ==
    [p |-> PutMoreData(s.p, s.c.inBuf),
     c |-> [s.c EXCEPT !.inBuf = @ - Accepted(s.p, @)]]

(* The parser stops at the last chunk, or where theBuf is full; a chunk    *)
(* that is malformed, or that exceeds the limit, aborts the production.    *)
HandleChunkedRequestBody(s) ==
    LET last == IF s.c.unsent = 0 THEN 1 ELSE 0
        units == s.c.inBuf - last
        n == Accepted(s.p, units)
        q == PutMoreData(s.p, units)
        c == [s.c EXCEPT !.inBuf = @ - n]
        parsed == last = 1 /\ n = units
    IN  IF q.put > BodyLimit \/ (parsed /\ s.c.malformed)
        THEN ClientClose([p |-> ClearProducer(q, FALSE),
                          c |-> [c EXCEPT !.inBuf = 0, !.readMore = FALSE]])
        ELSE IF ~parsed THEN [p |-> q, c |-> c]
        ELSE [p |-> ClearProducer(q, TRUE), c |-> [c EXCEPT !.inBuf = 0]]

HandleRequestBodyData(s) ==
    LET t == IF ~s.p.producer \/ s.c.inBuf = 0 THEN s
             ELSE IF s.c.chunked THEN HandleChunkedRequestBody(s)
             ELSE HandlePlainRequestBody(s)
    IN  IF s.p.producer /\ ~t.p.producer /\ t.c.stoppedSending
        THEN ClientClose(t) ELSE t

ReadSomeData(s) ==
    IF s.c.reader = "no" /\ s.c.inBuf < InSize
    THEN [s EXCEPT !.c.reader = "armed"] ELSE s

(* clientReadRequest() for n units, 0 at the end of the connection.        *)
ClientReadRequest(s, n) ==
    LET r == [s EXCEPT !.c.reader = "no"]
        t == HandleRequestBodyData([r EXCEPT !.c.inBuf = @ + n,
                                             !.c.unsent = @ - n])
    IN  CASE ~s.c.open -> r
          [] s.c.open /\ n = 0 -> ClientClose(r)
          [] OTHER -> IF t.c.open /\ t.c.readMore
                      THEN ReadSomeData(t) ELSE t

NoteMoreBodySpaceAvailable(s) ==
    LET t == HandleRequestBodyData(s)
    IN  IF t.c.open /\ ~t.c.stoppedReceiving THEN ReadSomeData(t) ELSE t

StopReceiving(s) ==
    LET t == [s EXCEPT !.c.stoppedReceiving = TRUE]
    IN  IF ~s.c.stoppedReceiving /\ s.c.stoppedSending
        THEN ClientClose(t) ELSE t

NoteBodyConsumerAborted(s) ==
    StopReceiving([s EXCEPT !.p = EnableAutoConsumption(@)])

MayNeedToReadMoreBody(s) ==
    /\ s.p.producer
    /\ BodySizeKnown(s.p) => s.p.size - s.p.put > s.c.inBuf

StopSending(s) ==
    LET t == [s EXCEPT !.c.stoppedSending = TRUE]
    IN  IF ~s.c.stoppedReceiving /\ MayNeedToReadMoreBody(s)
        THEN t ELSE ClientClose(t)

KeepaliveNextRequest(s) ==
    IF s.c.stoppedReceiving THEN ClientClose(s) ELSE ReadSomeData(s)

(* writeComplete() after the last write of the response.                   *)
WriteComplete(s, keepalive) ==
    CASE ~s.c.open -> s
      [] s.c.open /\ keepalive -> KeepaliveNextRequest(s)
      [] OTHER -> StopSending(s)

ConnStateClosed(s) == [s EXCEPT !.p = ClearProducer(@, FALSE)]

-----------------------------------------------------------------------------
(* The server, [p, v].                                                     *)

ServerClose(s) ==               \* serverConnection->close()
    IF s.v.open
    THEN [p |-> Schedule(s.p, <<"serverclosed", s.v.n>>),
          v |-> [s.v EXCEPT !.open = FALSE]]
    ELSE s

SendMoreRequestBody(s) ==
    IF s.v.open /\ Content(s.p) > 0
    THEN [p |-> GetMoreData(s.p),
          v |-> [s.v EXCEPT !.sender = "armed",
                            !.took = @ + Content(s.p)]]
    ELSE s

DoneSendingRequestBody(s) == [s EXCEPT !.p = ClearConsumer(@)]

HandleMoreRequestBodyAvailable(s) ==
    IF s.v.sender = "no" THEN SendMoreRequestBody(s) ELSE s

HandleRequestBodyProductionEnded(s) ==
    LET t == [s EXCEPT !.v.whole = TRUE]
    IN  IF s.v.sender = "no" THEN DoneSendingRequestBody(t) ELSE t

HandleRequestBodyProducerAborted(s) ==
    ServerClose([p |-> ClearConsumer(s.p),
                 v |-> [s.v EXCEPT !.dontRetry = TRUE]])

SentRequestBody(s) ==
    LET t == [s EXCEPT !.v.sender = "no"]
    IN  CASE ~s.v.open \/ s.p.consumer # s.v.n -> t
          [] s.v.open /\ s.p.consumer = s.v.n /\ ~Exhausted(s.p) ->
                SendMoreRequestBody(t)
          [] OTHER -> IF s.v.whole THEN DoneSendingRequestBody(t) ELSE t

BodySink(p, what) ==            \* the three methods of the class
    IF what = "data" THEN PostConsume(p, Content(p)) ELSE ClearConsumer(p)

-----------------------------------------------------------------------------
(* FwdState                                                                *)

BodyNibbledMutant(p) == FALSE           \* retries whatever was consumed

BodyNibbled(p) == p.get > 0             \* HttpRequest::bodyNibbled()

DoneWithRetriesMutant(p) == p           \* forgets that there is a body

DoneWithRetries(p) == ExpectNoConsumption(p)

(* retryOrBail(), with the FwdState's destruction when it bails out; the   *)
(* conditions of checkRetry() that are not about the body are a choice.    *)
RetryOrBail(p, v) ==
    \/ /\ ~BodyNibbled(p) /\ ~v.dontRetry /\ v.n < MaxTries
       /\ pipe' = p
       /\ fwd' = "connecting"
       /\ UNCHANGED response
    \/ /\ pipe' = DoneWithRetries(p)
       /\ fwd' = "done"
       /\ response' = "ready"

StartForwarding ==                      \* FwdState::Start()
    /\ fwd = "callouts" /\ MaxTries > 0
    /\ fwd' = "connecting"
    /\ UNCHANGED <<pipe, conn, server, response, denied>>

(* clientAccessCheckDone() and other callouts that end with an error page  *)
Deny ==
    /\ fwd = "callouts"
    /\ fwd' = "done" /\ response' = "ready" /\ denied' = TRUE
    /\ UNCHANGED <<pipe, conn, server>>

HandleAdaptationFailure ==              \* expectNoForwarding()
    /\ fwd = "callouts"
    /\ fwd' = "done" /\ response' = "ready"
    /\ pipe' = IF pipe.producer THEN ExpectNoConsumption(pipe) ELSE pipe
    /\ UNCHANGED <<conn, server, denied>>

(* FwdState::dispatch(), HttpStateData::sendRequest(): the first thing the *)
(* sender writes is the header.                                            *)
StartServer ==
    /\ fwd = "connecting" /\ server.n < MaxTries
    /\ fwd' = "serving"
    /\ server' = [n |-> server.n + 1, open |-> TRUE, sender |-> "armed",
                  whole |-> FALSE, dontRetry |-> FALSE, took |-> 0]
    /\ pipe' = SetConsumer(pipe, server.n + 1)
    /\ UNCHANGED <<conn, response, denied>>

ConnectFails ==                         \* FwdState::connectDone()
    /\ fwd = "connecting" /\ server.n < MaxTries
    /\ server' = [server EXCEPT !.n = @ + 1]
    /\ RetryOrBail(pipe, server')
    /\ UNCHANGED <<conn, denied>>

-----------------------------------------------------------------------------
(* Events of the connections; their handlers are calls of the queue.       *)

ClientSends(n) ==
    /\ conn.open /\ conn.reader = "armed"
    /\ n <= conn.unsent /\ n <= InSize - conn.inBuf
    /\ conn' = [conn EXCEPT !.reader = "fired"]
    /\ pipe' = Schedule(pipe, <<"read", n>>)
    /\ UNCHANGED <<server, fwd, response, denied>>

ServerWritten ==
    /\ server.open /\ server.sender = "armed"
    /\ server' = [server EXCEPT !.sender = "fired"]
    /\ pipe' = Schedule(pipe, <<"sent", server.n>>)
    /\ UNCHANGED <<conn, fwd, response, denied>>

ServerFails ==                          \* a timeout, a reset connection
    /\ fwd = "serving" /\ server.open
    /\ LET s == ServerClose([p |-> pipe, v |-> server])
       IN  pipe' = s.p /\ server' = s.v
    /\ UNCHANGED <<conn, fwd, response, denied>>

(* The whole response is there: serverComplete(), FwdState::complete().    *)
(* A status that allows another try is reforwarded.                        *)
ServerReplies ==
    /\ fwd = "serving" /\ server.open
    /\ server' = [server EXCEPT !.open = FALSE]
    /\ RetryOrBail(IF pipe.consumer = server.n THEN ClearConsumer(pipe)
                   ELSE pipe, server)
    /\ UNCHANGED <<conn, denied>>

ResponseWritten(keepalive) ==
    /\ response = "ready" /\ conn.open
    /\ response' = "sent"
    /\ pipe' = Schedule(pipe, <<"written", keepalive>>)
    /\ UNCHANGED <<conn, server, fwd, denied>>

-----------------------------------------------------------------------------
(* AsyncCallQueue::fire(): dials the first call. A call to a producer or a *)
(* consumer that has left the pipe is not dialed.                          *)

Call == Head(pipe.calls)
Rest == [pipe EXCEPT !.calls = Tail(@)]

ToClient(s) ==
    pipe' = s.p /\ conn' = s.c /\ UNCHANGED <<server, fwd, response>>
ToServer(s) ==
    pipe' = s.p /\ server' = s.v /\ UNCHANGED <<conn, fwd, response>>

DialConnection ==
    LET s == [p |-> Rest, c |-> conn]
    IN  \/ Call[1] = "read" /\ ToClient(ClientReadRequest(s, Call[2]))
        \/ Call[1] = "written" /\ ToClient(WriteComplete(s, Call[2]))
        \/ Call[1] = "closed" /\ ToClient(ConnStateClosed(s))

DialProducer ==
    LET s == [p |-> Rest, c |-> conn]
    IN  /\ Call[1] \in {"space", "abort"}
        /\ ToClient(CASE ~pipe.producer -> s
                      [] pipe.producer /\ Call[1] = "space" ->
                            NoteMoreBodySpaceAvailable(s)
                      [] OTHER -> NoteBodyConsumerAborted(s))

DialConsumer ==
    LET s == [p |-> Rest, v |-> server]
    IN  /\ Call[1] \in {"data", "ended", "aborted"}
        /\ ToServer(IF pipe.consumer # Call[2] THEN s
                    ELSE IF Call[2] = Sink
                    THEN [s EXCEPT !.p = BodySink(@, Call[1])]
                    ELSE CASE Call[1] = "data" ->
                                HandleMoreRequestBodyAvailable(s)
                           [] Call[1] = "ended" ->
                                HandleRequestBodyProductionEnded(s)
                           [] OTHER ->
                                HandleRequestBodyProducerAborted(s))

DialSent ==
    /\ Call[1] = "sent"
    /\ ToServer(IF Call[2] = server.n
                THEN SentRequestBody([p |-> Rest, v |-> server])
                ELSE [p |-> Rest, v |-> server])

(* The close handlers of the server, whose swanSong() leaves the pipe, and *)
(* of the FwdState, in this order.                                         *)
DialServerClosed ==
    /\ Call[1] = "serverclosed"
    /\ RetryOrBail(IF pipe.consumer = server.n THEN ClearConsumer(Rest)
                   ELSE Rest, server)
    /\ UNCHANGED <<conn, server>>

Dial ==
    /\ pipe.calls # <<>>
    /\ DialConnection \/ DialProducer \/ DialConsumer \/ DialSent
       \/ DialServerClosed
    /\ UNCHANGED denied

RequestBodyNext ==
    \/ StartForwarding \/ Deny \/ HandleAdaptationFailure
    \/ StartServer \/ ConnectFails
    \/ \E n \in 0..InSize : ClientSends(n)
    \/ ServerWritten \/ ServerFails \/ ServerReplies
    \/ \E keepalive \in BOOLEAN : ResponseWritten(keepalive)
    \/ Dial

(* Calls are dialed, a client goes on sending while Squid reads, a server  *)
(* takes what it is sent, and answers or fails: read_timeout and           *)
(* connect_timeout see to that. The lifetime of a client's connection, a   *)
(* day, is not counted on.                                                 *)
RequestBodyFairness ==
    /\ []<>(pipe.calls = <<>>) \/ []<><<Dial>>_vars     \* WF_vars(Dial)
    /\ WF_vars(\E n \in 1..InSize : ClientSends(n))
    /\ WF_vars(StartForwarding \/ Deny \/ HandleAdaptationFailure)
    /\ WF_vars(StartServer \/ ConnectFails)
    /\ WF_vars(ServerWritten)
    /\ WF_vars(ServerFails \/ ServerReplies)
    /\ WF_vars(\E keepalive \in BOOLEAN : ResponseWritten(keepalive))

RequestBodySpec == RequestBodyInit /\ [][RequestBodyNext]_vars
                   /\ RequestBodyFairness

-----------------------------------------------------------------------------
(* No assert() and no Must() of BodyPipe.cc fails, whatever the order of   *)
(* the calls: no server attaches to a pipe that another consumed from or   *)
(* that nobody will consume, no consumer is attached when FwdState gives   *)
(* the body up, and an abort can be told from an end.                      *)
AssertionsHold == ~pipe.failed

(* A server that was told the whole body (receivedWholeRequestBody) and    *)
(* has left the pipe was given every unit of it, from the first one, and   *)
(* the client sent it: a retry starts with the first byte, and what was    *)
(* consumed by another server or the sink is not missing.                  *)
WholeBodySent ==
    (server.open /\ server.whole /\ pipe.consumer # server.n)
        => /\ server.took = conn.body /\ pipe.size = conn.body
           /\ ~conn.malformed /\ conn.unsent = 0

(* Once forwarding is over, the client's side stops producing: the body    *)
(* is drained into a sink or the connection is closed, and the producer    *)
(* does not wait for space for ever. A refused request is not covered.     *)
BodyEnds == (fwd = "done" /\ ~denied) ~> ~pipe.producer

(* Every consumer leaves the pipe, the sink included: ~BodyPipe() asserts  *)
(* it, and a sink that is never told the end would never be destroyed.     *)
ConsumersLeave == (pipe.consumer # None) ~> (pipe.consumer = None)

(* A connection whose response failed, or was not to be kept, is closed.   *)
ClosesASAP == conn.stoppedSending ~> ~conn.open
=============================================================================
