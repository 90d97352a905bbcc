------------------------------- MODULE Helper -------------------------------
(***************************************************************************)
(* The stateless helpers of src/helper.cc: squid keeps a list of helper    *)
(* processes, gives a request to the least loaded one or queues it, starts *)
(* processes when it has too few, and replaces all of them when it is      *)
(* reconfigured. Redirectors, external ACLs and basic authentication run   *)
(* on it. The pipe to a process is one socket pair (IPC_STREAM), so that   *)
(* both ends of it close together.                                         *)
(*                                                                         *)
(* h.list       hlp->servers, in the order of the list                     *)
(* h.srv[s]     a helper_server: its requests by channel, stats.pending,   *)
(*              the channels in wqueue and in writebuf, whether it has     *)
(*              replied, flags.shutdown and flags.closing, and whether its *)
(*              process runs                                               *)
(* h.queue      hlp->queue                                                 *)
(* h.active     childs.n_active (childs.n_running is Len(h.list))          *)
(* h.answers    how often a request's callback was called                  *)
(* h.gone       requests whose caller is gone: invalid cbdata              *)
(* h.exits      "fatal", or "assert" when an assertion of Comm::Write()    *)
(*              failed; then squid is gone                                 *)
(* h.forkFailed some process could not be started                          *)
(***************************************************************************)
EXTENDS Naturals, SequencesExt, FiniteSetsExt

CONSTANTS MaxRequests, MaxProcesses, MaxCrashes, MaxReconfigures,  \* bounds
          Leaving,               \* the requests whose callers may go away
          NMax, NStartup, NIdle, Concurrency       \* HelperChildConfig

ASSUME HelperAssumption ==
    /\ {NMax, NIdle, MaxProcesses, MaxRequests} \subseteq Nat \ {0}
    /\ {NStartup, Concurrency, MaxCrashes, MaxReconfigures} \subseteq Nat
    /\ NStartup <= NMax /\ NStartup <= MaxProcesses
    /\ Leaving \subseteq 1..MaxRequests

VARIABLES
    h,
    reconfiguring,          \* the global flag of main.cc
    submitted,              \* requests 1..submitted were submitted
    crashes, reconfigures   \* how many there were

helperVars == <<h, reconfiguring, submitted, crashes, reconfigures>>

None == 0
Requests == 1..MaxRequests
Servers == 1..MaxProcesses
MaxPending == IF Concurrency = 0 THEN 1 ELSE Concurrency
Channels == 0..(MaxPending - 1)

NewServer == [slot |-> [ch \in Channels |-> None], pending |-> 0,
              wqueue |-> {}, writebuf |-> {}, replied |-> FALSE,
              shutdown |-> FALSE, closing |-> FALSE, alive |-> TRUE]

Listed(g) == ToSet(g.list)
InService(g) == {s \in Listed(g) : ~g.srv[s].shutdown}

(* HelperChildConfig::needNew()                                            *)
NeedNew(active, special) ==
    IF special THEN NStartup
    ELSE IF active + NIdle < NMax THEN NIdle
    ELSE IF active < NMax THEN NMax - active ELSE 0

(* GetFirstAvailable(): the first server, or the first of the later ones   *)
(* that is less loaded.                                                    *)
Available(g) ==
    LET load(i) == g.srv[g.list[i]].pending
        usable == {i \in DOMAIN g.list : ~g.srv[g.list[i]].shutdown}
        less == {i \in usable : load(i) < load(Min(usable))}
        selected == IF less = {} THEN Min(usable) ELSE Min(less)
    IN  IF usable = {} \/ load(selected) >= MaxPending THEN None
        ELSE g.list[selected]

FreeChannel(g, s) == Min({ch \in Channels : g.srv[s].slot[ch] = None})

(* helperDispatch(). A pipe that is closing has no descriptor any more.    *)
DispatchMutant(g, s, r) ==                  \* forgets ++pending
    IF r \in g.gone THEN g
    ELSE LET ch == FreeChannel(g, s)
         IN  [g EXCEPT !.srv[s].slot[ch] = r,
                       !.srv[s].writebuf = @ \union {ch}]

Dispatch(g, s, r) ==
    IF r \in g.gone THEN g
    ELSE LET ch == FreeChannel(g, s)
             v == g.srv[s]
             full == v.wqueue \union {ch}
         IN  [g EXCEPT
                !.srv[s] = [v EXCEPT
                    !.slot[ch] = r, !.pending = @ + 1,
                    !.wqueue = IF v.writebuf = {} THEN {} ELSE full,
                    !.writebuf = IF v.writebuf = {} THEN full ELSE @],
                !.exits = IF v.writebuf = {} /\ v.closing
                          THEN "assert" ELSE @]

(* helperKickQueue(): a dispatch never makes another server available.     *)
KickOne(g) ==
    IF g.queue = <<>> \/ Available(g) = None \/ g.exits # "no" THEN g
    ELSE Dispatch([g EXCEPT !.queue = Tail(@)], Available(g), Head(g.queue))

KickQueue(g) ==
    LET kick[n \in 0..Len(g.queue)] ==
            IF n = 0 THEN g ELSE KickOne(kick[n - 1])
    IN  kick[Len(g.queue)]

(* helperOpenServers(): n of the processes needed could be started.        *)
CanOpen(g, n, special) ==
    n <= NeedNew(g.active, special) /\ n <= MaxProcesses - Len(g.list)

OpenServers(g, n, special) ==
    LET new == CHOOSE q \in [1..n -> Servers \ Listed(g)] : IsInjective(q)
    IN  KickQueue([g EXCEPT
            !.list = @ \o new,
            !.srv = [s \in Servers |->
                        IF s \in ToSet(new) THEN NewServer ELSE @[s]],
            !.active = @ + n,
            !.forkFailed = @ \/ n < NeedNew(g.active, special)])

(* Enqueue(), late when the last warning is ten minutes old                *)
Enqueue(g, r, n, late, special) ==
    LET f == [g EXCEPT !.queue = Append(@, r)]
    IN  IF NeedNew(g.active, special) > 0 THEN OpenServers(f, n, special)
        ELSE IF late /\ ~special /\ Len(f.queue) > 2 * Len(f.list)
             THEN [f EXCEPT !.exits = "fatal"]
        ELSE f

(* helperSubmit()                                                          *)
HelperSubmit(g, r, n, late, special) ==
    IF Available(g) # None THEN Dispatch(g, Available(g), r)
    ELSE Enqueue(g, r, n, late, special)

(* The callback with a request's answer, if there is still a caller        *)
CallBack(g, r) == IF r \in g.gone THEN g
                  ELSE [g EXCEPT !.answers[r] = @ + 1]

-----------------------------------------------------------------------------
HelperInit ==
    /\ h = [list |-> [s \in 1..NStartup |-> s],
            srv |-> [s \in Servers |-> NewServer],
            queue |-> <<>>, active |-> NStartup,
            answers |-> [r \in Requests |-> 0], gone |-> {},
            exits |-> "no", forkFailed |-> FALSE]
    /\ reconfiguring = FALSE /\ submitted = 0
    /\ crashes = 0 /\ reconfigures = 0

Submit(r, n, late) ==
    /\ r = submitted + 1 /\ CanOpen(h, n, reconfiguring)
    /\ submitted' = r
    /\ h' = HelperSubmit(h, r, n, late, reconfiguring)
    /\ UNCHANGED <<reconfiguring, crashes, reconfigures>>

(* The end of helperReturnBuffer(): go on with the queue, or close a       *)
(* server that was only waiting for its last reply.                        *)
AfterReplyMutant(g, s) ==               \* leaves the queue to the next submit
    IF g.srv[s].shutdown /\ g.srv[s].pending = 0
    THEN [g EXCEPT !.srv[s].closing = TRUE] ELSE g

AfterReply(g, s) ==
    IF ~g.srv[s].shutdown THEN KickQueue(g)
    ELSE IF g.srv[s].pending = 0 THEN [g EXCEPT !.srv[s].closing = TRUE]
    ELSE g

(* helperHandleRead() and helperReturnBuffer(): the channel is free before *)
(* the callback, pending counts it until after it, and the callback may    *)
(* submit the next request. What waits in wqueue is not yet answered.      *)
ReturnBuffer(s, ch, next, n, late) ==
    LET v == h.srv[s]
        f == CallBack([h EXCEPT !.srv[s].slot[ch] = None], v.slot[ch])
        g == IF next = None THEN f
             ELSE HelperSubmit(f, next, n, late, reconfiguring)
    IN  /\ s \in Listed(h) /\ v.alive /\ ~v.closing
        /\ v.slot[ch] # None /\ ch \notin v.wqueue
        /\ next # None => next = submitted + 1 /\ v.slot[ch] \notin h.gone
        /\ CanOpen(f, n, reconfiguring)
        /\ submitted' = IF next = None THEN submitted ELSE next
        /\ h' = IF g.exits # "no" THEN g
                ELSE AfterReply([g EXCEPT !.srv[s].pending = @ - 1,
                                          !.srv[s].replied = TRUE], s)
        /\ UNCHANGED <<reconfiguring, crashes, reconfigures>>

(* helperDispatchWriteDone(): after an error wqueue waits for a dispatch.  *)
WriteDone(s) ==
    LET v == h.srv[s]
        ok == v.alive /\ ~v.closing
    IN  /\ s \in Listed(h) /\ v.writebuf # {}
        /\ h' = [h EXCEPT !.srv[s].writebuf = IF ok THEN v.wqueue ELSE {},
                          !.srv[s].wqueue = IF ok THEN {} ELSE v.wqueue]
        /\ UNCHANGED <<reconfiguring, submitted, crashes, reconfigures>>

(* The helper process dies.                                                *)
Crash(s) ==
    /\ s \in Listed(h) /\ h.srv[s].alive /\ ~h.srv[s].closing
    /\ crashes < MaxCrashes /\ crashes' = crashes + 1
    /\ h' = [h EXCEPT !.srv[s].alive = FALSE]
    /\ UNCHANGED <<reconfiguring, submitted, reconfigures>>

(* helperHandleRead() at the end of file: closePipesSafely(), which has    *)
(* helperServerFree() called later.                                        *)
ReadEof(s) ==
    /\ s \in Listed(h) /\ ~h.srv[s].alive /\ ~h.srv[s].closing
    /\ h' = [h EXCEPT !.srv[s].closing = TRUE]
    /\ UNCHANGED <<reconfiguring, submitted, crashes, reconfigures>>

(* The last loop of helperServerFree()                                     *)
AnswerAllMutant(g, v) ==                \* only the first channel
    IF v.slot[0] = None THEN g ELSE CallBack(g, v.slot[0])

AnswerAll(g, v) ==
    [g EXCEPT !.answers = [r \in Requests |->
        IF r \in g.gone THEN @[r]
        ELSE @[r] + Cardinality({ch \in Channels : v.slot[ch] = r})]]

(* helperServerFree(), rapid when processes were started in the last 30 s  *)
HelperServerFree(s, n, rapid) ==
    LET v == h.srv[s]
        at == CHOOSE i \in DOMAIN h.list : h.list[i] = s
        f == [h EXCEPT !.list = RemoveAt(@, at),
                       !.srv[s] = NewServer,
                       !.active = IF v.shutdown THEN @ ELSE @ - 1]
        opens == ~v.shutdown /\ NeedNew(f.active, reconfiguring) > 0
        fatal == opens /\ f.active < NStartup /\ rapid /\ ~v.replied
    IN  /\ s \in Listed(h) /\ v.closing
        /\ CanOpen(f, n, reconfiguring) /\ (~opens => n = 0)
        /\ h' = IF fatal THEN [f EXCEPT !.exits = "fatal"]
                ELSE AnswerAll(IF opens
                               THEN OpenServers(f, n, reconfiguring)
                               ELSE f, v)
        /\ UNCHANGED <<reconfiguring, submitted, crashes, reconfigures>>

(* mainReconfigureStart() calls helperShutdown().                          *)
ReconfigureStart ==
    /\ ~reconfiguring /\ reconfigures < MaxReconfigures
    /\ reconfiguring' = TRUE /\ reconfigures' = reconfigures + 1
    /\ h' = [h EXCEPT
                !.srv = [s \in Servers |->
                    IF s \notin InService(h) THEN h.srv[s]
                    ELSE [h.srv[s] EXCEPT
                            !.shutdown = TRUE,
                            !.closing = @ \/ h.srv[s].pending = 0]],
                !.active = @ - Cardinality(InService(h))]
    /\ UNCHANGED <<submitted, crashes>>

(* mainReconfigureFinish(), a second later: helperOpenServers() is called  *)
(* before the flag is reset.                                               *)
ReconfigureFinish(n) ==
    /\ reconfiguring /\ CanOpen(h, n, TRUE)
    /\ h' = OpenServers(h, n, TRUE)
    /\ reconfiguring' = FALSE
    /\ UNCHANGED <<submitted, crashes, reconfigures>>

(* The caller of a request goes away: its cbdata is no longer valid.       *)
Cancel(r) ==
    /\ r \in Leaving \ h.gone /\ r <= submitted /\ h.answers[r] = 0
    /\ h' = [h EXCEPT !.gone = @ \union {r}]
    /\ UNCHANGED <<reconfiguring, submitted, crashes, reconfigures>>

Forks == 0..NMax

Replies(s) == \E ch \in Channels, next \in Requests \union {None},
                 n \in Forks, late \in BOOLEAN :
                    ReturnBuffer(s, ch, next, n, late)
Freed(s) == \E n \in Forks, rapid \in BOOLEAN : HelperServerFree(s, n, rapid)
Finish == \E n \in Forks : ReconfigureFinish(n)

HelperNext ==
    /\ h.exits = "no"
    /\ \/ \E r \in Requests, n \in Forks, late \in BOOLEAN :
            Submit(r, n, late)
       \/ \E s \in Servers : \/ Replies(s) \/ WriteDone(s) \/ Crash(s)
                             \/ ReadEof(s) \/ Freed(s)
       \/ ReconfigureStart \/ Finish
       \/ \E r \in Requests : Cancel(r)

(* A process answers what it was sent or dies; descriptors that are ready, *)
(* closed descriptors and the event of the reconfiguration are served.     *)
(* Each is weak fairness, with the guards written out.                     *)
HelperFairness ==
    /\ \A s \in Servers :
        /\ []<>(\/ s \notin Listed(h) \/ h.srv[s].closing \/ ~h.srv[s].alive
                \/ h.srv[s].pending = 0 \/ h.exits # "no")
           \/ []<><<Replies(s) \/ Crash(s)>>_helperVars
        /\ []<>(s \notin Listed(h) \/ h.srv[s].writebuf = {}
                \/ h.exits # "no") \/ []<><<WriteDone(s)>>_helperVars
        /\ []<>(s \notin Listed(h) \/ h.srv[s].alive \/ h.srv[s].closing
                \/ h.exits # "no") \/ []<><<ReadEof(s)>>_helperVars
        /\ []<>(s \notin Listed(h) \/ ~h.srv[s].closing \/ h.exits # "no")
           \/ []<><<Freed(s)>>_helperVars
    /\ []<>(~reconfiguring \/ h.exits # "no") \/ []<><<Finish>>_helperVars

HelperSpec == HelperInit /\ [][HelperNext]_helperVars /\ HelperFairness

-----------------------------------------------------------------------------
Used(s) == {ch \in Channels : h.srv[s].slot[ch] # None}

(* The counters of the helpers and of each of them are exact: the          *)
(* assertions on n_active and on a free slot in helperDispatch() rest on   *)
(* them.                                                                   *)
HelperTypeOK ==
    /\ h.list \in Seq(Servers) /\ IsInjective(h.list)
    /\ h.queue \in Seq(Requests) /\ h.answers \in [Requests -> Nat]
    /\ h.exits = "no" =>
        /\ h.active = Cardinality(InService(h))
        /\ \A s \in Listed(h) : h.srv[s].pending = Cardinality(Used(s))

(* No request is lost and none is answered twice: one that was submitted   *)
(* waits in the queue, or on one channel of one helper, or its caller was  *)
(* called once, whatever crashes, reconfigurations and submissions from    *)
(* callbacks came in between.                                              *)
RequestsAccounted ==
    h.exits = "no" =>
        \A r \in 1..submitted :
            LET places == Cardinality({i \in DOMAIN h.queue : h.queue[i] = r})
                        + Cardinality({p \in Listed(h) \X Channels :
                                            h.srv[p[1]].slot[p[2]] = r})
                        + h.answers[r]
            IN  IF r \in h.gone THEN places <= 1 ELSE places = 1

(* Every request is answered, unless its caller leaves, squid exits or     *)
(* a helper could not be started.                                          *)
EveryRequestAnswered ==
    \A r \in Requests :
        r <= submitted ~> \/ h.answers[r] > 0 \/ r \in h.gone
                           \/ h.exits # "no" \/ h.forkFailed
=============================================================================
