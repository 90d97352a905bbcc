----------------------------- MODULE StoreEntry -----------------------------
(***************************************************************************)
(* A StoreEntry while its object is fetched: the server side appends,      *)
(* memory keeps a window of the object (MemObject, mem_hdr), swapOut()     *)
(* copies it to a file of a cache_dir that writes asynchronously, and      *)
(* store_clients read from memory or from that file (store.cc,             *)
(* MemObject.cc, stmem.cc, store_client.cc, store_swapout.cc,              *)
(* store_swapin.cc). Offsets count units of which a page holds PageSize;   *)
(* the reply header and the swap header have no units of their own. The    *)
(* operations are operators on [e, cl]: the entry and its clients.         *)
(***************************************************************************)
EXTENDS Integers, FiniteSets, FiniteSetsExt

CONSTANTS Clients,
          Eager,        \* clients that copy again in their callback
          PageSize,     \* SM_PAGE_SIZE
          MaxObject,    \* units of the longest object
          MaxObjSize,   \* store_maxobjsize
          RamLimit,     \* Config.Store.maxInMemObjSize
          ReadAheadGap, \* Config.readAheadGap
          BufSize       \* units that a client asks for

ASSUME StoreAssumption ==
    /\ IsFiniteSet(Clients) /\ Eager \subseteq Clients
    /\ \A n \in {PageSize, MaxObject, ReadAheadGap, BufSize} :
            n \in Nat \ {0}
    /\ MaxObjSize \in Nat /\ RamLimit \in Nat

VARIABLES entry, clients, server

vars == <<entry, clients, server>>

Unknown == -1

(* entry: end, endOffset(); lo, inmem_lo; dataLo, lowestOffset() of the    *)
(* nodes; clen, the expected size; queue, swapout.queue_offset; sio, the   *)
(* swap-out file is open; written, its offset(); failed, a swap-out has    *)
(* failed (a history variable); dead, the assertion of freeDataUpto().     *)
EntryTypes ==
    [status : {"PENDING", "OK"}, aborted : BOOLEAN, released : BOOLEAN,
     end : 0..MaxObject, lo : 0..MaxObject + 1, dataLo : 0..MaxObject,
     clen : {Unknown} \cup 1..MaxObject,
     decision : {"swNeedsCheck", "swPossible", "swImpossible"},
     swap : {"NONE", "WRITING", "DONE"}, queue : 0..MaxObject,
     sio : BOOLEAN, closing : BOOLEAN, written : 0..MaxObject,
     failed : BOOLEAN, dead : BOOLEAN]

(* A client: got, units its last callback brought; state, "idle" between a *)
(* callback and the next copy(), "waiting" for data, "disk" during a disk  *)
(* read, "event" with a copy event pending, "failed" after an error.       *)
ClientTypes ==
    [type : {"none", "mem", "disk"}, offset : 0..MaxObject,
     got : 0..BufSize,
     state : {"idle", "waiting", "disk", "event", "failed"}]

NoClient == [type |-> "none", offset |-> 0, got |-> 0, state |-> "idle"]

(* Types; the swap-out file is open exactly while it is written, and what  *)
(* is written was queued, and what is queued was received.                 *)
StoreTypeOK ==
    /\ entry \in EntryTypes
    /\ clients \in [Clients -> ClientTypes]
    /\ server \in {"reading", "deferred", "gone"}
    /\ entry.sio <=> entry.swap = "WRITING"
    /\ entry.queue <= entry.end
    /\ ~entry.failed => entry.written <= entry.queue

StoreInit ==            \* a miss: the requester's client is the first one
    /\ \E clen \in {Unknown} \cup 1..MaxObject :
        entry = [status |-> "PENDING", aborted |-> FALSE,
                 released |-> FALSE, end |-> 0, lo |-> 0, dataLo |-> 0,
                 clen |-> clen, decision |-> "swNeedsCheck",
                 swap |-> "NONE", queue |-> 0, sio |-> FALSE,
                 closing |-> FALSE, written |-> 0, failed |-> FALSE,
                 dead |-> FALSE]
    /\ \E c \in Clients :
        clients = [d \in Clients |->
                     IF d = c THEN [NoClient EXCEPT !.type = "mem",
                                                    !.state = "waiting"]
                     ELSE NoClient]
    /\ server = "reading"

-----------------------------------------------------------------------------
(* MemObject                                                               *)

Attached(cl) == {c \in Clients : cl[c].type # "none"}
MemReaders(cl) == {c \in Clients : cl[c].type = "mem"}

LowestMemReaderOffset(e, cl) ==
    Min({e.end + 1} \cup {cl[c].offset : c \in MemReaders(cl)})

ReadAheadPolicyCanRead(e, cl) ==
    e.end < LowestMemReaderOffset(e, cl) + ReadAheadGap

ObjectBytesOnDisk(e) == IF e.sio THEN e.written ELSE 0

PolicyLowestOffsetToKeep(e, cl) ==      \* memory_cache_first is on
    LET lowest == LowestMemReaderOffset(e, cl)
    IN  IF e.end < lowest \/ e.end - e.lo > RamLimit THEN lowest ELSE e.lo

PageStart(offset) == offset - (offset % PageSize)

(* Frees the pages that end at or below the target, never the last one.    *)
FreeDataUpto(e, target) ==
    LET lastPage == IF e.end = 0 THEN 0
                    ELSE PageStart(e.end - 1)
        lowest == Max({e.dataLo, Min({lastPage, PageStart(target)})})
    IN  [e EXCEPT !.dataLo = lowest, !.dead = lowest > target]

ReleaseRequest(e) == [e EXCEPT !.released = TRUE]

TrimSwappableMutant(e, cl) ==           \* up to what is queued for the disk
    LET new == Max({0, Min({PolicyLowestOffsetToKeep(e, cl), e.queue - 1})})
    IN  [FreeDataUpto(e, new) EXCEPT !.lo = new]

TrimSwappable(e, cl) ==
    LET new == Max({0, Min({PolicyLowestOffsetToKeep(e, cl),
                            ObjectBytesOnDisk(e) - 1})})
    IN  [FreeDataUpto(e, new) EXCEPT !.lo = new]

TrimUnSwappable(e, cl) ==
    LET new == PolicyLowestOffsetToKeep(e, cl)
    IN  IF new = 0 THEN e
        ELSE [FreeDataUpto(ReleaseRequest(e), new) EXCEPT !.lo = new]

KeepForLocalMemoryCache(e) ==
    e.end > 0 /\ e.lo = 0 /\ Max({e.end, e.clen}) <= RamLimit

MaybeTrimMemory(e, cl, preserveSwappable) ==
    IF KeepForLocalMemoryCache(e) THEN e
    ELSE IF preserveSwappable THEN TrimSwappable(e, cl)
    ELSE TrimUnSwappable(e, cl)

-----------------------------------------------------------------------------
(* Swap-out. "how" is what the rest of the process makes of it: "ok",      *)
(* "fails" (storeCreate() has no room), "later" (too many open files), or  *)
(* "uncachable" (checkCachable() for a reason that is not modelled).       *)

Hows == {"ok", "fails", "later", "uncachable"}

CheckCachable(e, how) ==
    /\ how # "uncachable" /\ ~e.released
    /\ e.clen <= MaxObjSize /\ e.end <= MaxObjSize

(* mayStartSwapOut() with what it decides; an object of unknown length is  *)
(* left undecided. It answers whether the decision is not swImpossible.    *)
MayStartSwapOut(e, how) ==
    CASE e.decision # "swNeedsCheck" -> e
      [] e.decision = "swNeedsCheck" /\ ~CheckCachable(e, how) ->
            ReleaseRequest([e EXCEPT !.decision = "swImpossible"])
      [] OTHER -> IF e.lo > 0
                  THEN [e EXCEPT !.decision = "swImpossible"]
                  ELSE IF e.clen = Unknown /\ e.status = "PENDING" THEN e
                  ELSE [e EXCEPT !.decision = "swPossible"]

StoreSwapOutStart(e, how) ==
    IF how = "fails" THEN [e EXCEPT !.decision = "swImpossible"]
    ELSE [e EXCEPT !.swap = "WRITING", !.sio = TRUE, !.written = 0]

SwapOutFileClose(e) == IF e.sio THEN [e EXCEPT !.closing = TRUE] ELSE e

DoPagesMutant(e) ==             \* the last page is not written
    [e EXCEPT !.queue = e.queue + PageStart(e.end - e.queue)]

DoPages(e) ==
    [e EXCEPT !.queue = IF e.status = "OK" THEN e.end
                        ELSE e.queue + PageStart(e.end - e.queue)]

SwapOutMaybe(e, how) ==         \* swapOut() after the trimming
    LET available == e.end - e.queue
        started == IF e.swap = "NONE" THEN StoreSwapOutStart(e, how) ELSE e
        paged == IF started.sio THEN DoPages(started) ELSE started
    IN  CASE e.dead \/ e.decision # "swPossible" -> e
          [] available = 0 /\ ~e.dead /\ e.decision = "swPossible" ->
                IF e.status = "OK" THEN SwapOutFileClose(e) ELSE e
          [] OTHER ->
                IF /\ e.status = "PENDING"
                   /\ available < PageSize \/ how = "later"
                THEN e
                ELSE IF e.status = "OK" THEN SwapOutFileClose(paged)
                ELSE paged

SwapOut(e, cl, how) ==
    LET d == IF e.swap = "WRITING" THEN e ELSE MayStartSwapOut(e, how)
        preserve == e.swap = "WRITING" \/ d.decision # "swImpossible"
    IN  IF e.aborted THEN e
        ELSE SwapOutMaybe(MaybeTrimMemory(d, cl, preserve), how)

(* storeSwapOutFileClosed(); the queue_offset and the decision stay.       *)
FileClosedMutant(e, ok) ==      \* the swapout.sio stays
    LET f == [e EXCEPT !.closing = FALSE]
    IN  IF ok /\ e.status = "OK" /\ ~e.aborted
        THEN [f EXCEPT !.swap = "DONE"]
        ELSE ReleaseRequest([f EXCEPT !.swap = "NONE", !.failed = TRUE])

FileClosed(e, ok) ==
    LET f == [e EXCEPT !.sio = FALSE, !.closing = FALSE]
    IN  IF ok /\ e.status = "OK" /\ ~e.aborted
        THEN [f EXCEPT !.swap = "DONE"]
        ELSE ReleaseRequest([f EXCEPT !.swap = "NONE", !.failed = TRUE])

-----------------------------------------------------------------------------
(* store_client                                                            *)

InMemory(e, c) == e.lo <= c.offset /\ c.offset < e.end

NoMoreToSend(e, c) ==
    e.status = "OK" /\ ~e.aborted /\ c.offset >= e.end

(* The memory holds the units, and calls back with them; an eager client   *)
(* copies again at once, while store_copying is set.                       *)
ScheduleMemRead(e, c, eager) ==
    LET got == Min({BufSize, e.end - c.offset})
    IN  IF eager THEN [c EXCEPT !.offset = @ + got, !.got = 0,
                                !.state = "event"]
        ELSE [c EXCEPT !.got = got, !.state = "idle"]

DoCopy(e, c, eager) ==          \* with the swap-in file open, if any
    CASE NoMoreToSend(e, c) -> [c EXCEPT !.got = 0, !.state = "idle"]
      [] ~NoMoreToSend(e, c) /\ e.status = "PENDING" /\ c.offset >= e.end ->
            [c EXCEPT !.state = "waiting"]
      [] OTHER -> IF InMemory(e, c) THEN ScheduleMemRead(e, c, eager)
                  ELSE [c EXCEPT !.state = "disk"]

(* Runs before the new client is counted.                                  *)
StoreClientType(e, cl) ==
    CASE e.lo > 0 -> "disk"
      [] e.lo = 0 /\ e.status = "OK" -> "mem"   \* all of it is in memory
      [] OTHER -> IF Cardinality(Attached(cl)) = 1 \/ e.swap = "NONE"
                  THEN "mem" ELSE "disk"

InvokeHandlersMutant(e, cl, how) ==     \* not once the object is complete
    LET f == SwapOut(e, cl, how)
    IN  [e |-> f,
         cl |-> [c \in Clients |->
                    IF cl[c].state = "waiting" /\ e.status = "PENDING"
                    THEN DoCopy(f, cl[c], c \in Eager) ELSE cl[c]]]

InvokeHandlers(e, cl, how) ==
    LET f == SwapOut(e, cl, how)
    IN  [e |-> f,
         cl |-> [c \in Clients |->
                    IF cl[c].state = "waiting"
                    THEN DoCopy(f, cl[c], c \in Eager) ELSE cl[c]]]

Complete(e, valid) ==                   \* complete(), validLength()
    LET f == [e EXCEPT !.status = "OK"]
    IN  IF valid THEN f ELSE ReleaseRequest(f)

ValidLength(e) == e.clen \in {Unknown, e.end}

Abort(e) ==                             \* no clients are left
    SwapOutFileClose(ReleaseRequest(
        [e EXCEPT !.aborted = TRUE, !.status = "OK"]))

-----------------------------------------------------------------------------
(* The server side                                                         *)

NextRead(s) ==                          \* delayAwareRead()
    IF ReadAheadPolicyCanRead(s.e, s.cl) THEN "reading" ELSE "deferred"

KickReadsMutant(s) == server

KickReads(s) == IF server = "deferred" THEN NextRead(s) ELSE server

Becomes(s) == entry' = s.e /\ clients' = s.cl

ServerReads(n, how) ==                  \* append()
    /\ server = "reading" /\ entry.status = "PENDING"
    /\ entry.end + n <= IF entry.clen = Unknown THEN MaxObject
                        ELSE entry.clen
    /\ LET s == InvokeHandlers([entry EXCEPT !.end = @ + n], clients, how)
       IN  Becomes(s) /\ server' = NextRead(s)

ServerEnds(how) ==                      \* the end of the reply, or too soon
    /\ server = "reading" /\ entry.status = "PENDING" /\ entry.end > 0
    /\ Becomes(InvokeHandlers(Complete(entry, ValidLength(entry)),
                              clients, how))
    /\ server' = "gone"

(* The read timeout, of a deferred read too: FwdState::completed() also    *)
(* releases the entry, which has no error page to hold once it has data,   *)
(* but only after complete() has started, or finished, the swap-out.       *)
ServerTimesOut(how) ==
    /\ server # "gone" /\ entry.status = "PENDING" /\ entry.end > 0
    /\ LET s == InvokeHandlers(Complete(entry, ValidLength(entry)),
                               clients, how)
       IN  Becomes([s EXCEPT !.e = ReleaseRequest(@)])
    /\ server' = "gone"

ServerStops ==                          \* the event of abort.callback
    /\ entry.aborted /\ server # "gone"
    /\ server' = "gone"
    /\ UNCHANGED <<entry, clients>>

-----------------------------------------------------------------------------
(* The client side                                                         *)

(* A hit on the entry: storeClientListAdd() and the first copy(), which    *)
(* opens the swap-in file of a disk client, or fails to.                   *)
Attach(c, opens) ==
    /\ clients[c].type = "none" /\ ~entry.released /\ entry.end > 0
    /\ LET d == [NoClient EXCEPT !.type = StoreClientType(entry, clients)]
           r == IF d.type = "disk" /\ ~opens
                THEN [d EXCEPT !.state = "failed"]
                ELSE DoCopy(entry, d, c \in Eager)
       IN  /\ opens \/ d.type = "disk"
           /\ clients' = [clients EXCEPT ![c] = r]
    /\ server' = KickReads([e |-> entry, cl |-> clients'])
    /\ UNCHANGED entry

(* A client goes on where it was, or further on with its next range.       *)
Copy(c, offset) ==
    /\ clients[c].type # "none" /\ clients[c].state = "idle"
    /\ offset >= clients[c].offset + clients[c].got
    /\ LET d == [clients[c] EXCEPT !.offset = offset, !.got = 0]
       IN  clients' = [clients EXCEPT ![c] = DoCopy(entry, d, c \in Eager)]
    /\ server' = KickReads([e |-> entry, cl |-> clients'])
    /\ UNCHANGED entry

StoreClientCopyEvent(c) ==
    /\ clients[c].state = "event"
    /\ clients' = [clients EXCEPT ![c] = DoCopy(entry, @, c \in Eager)]
    /\ server' = KickReads([e |-> entry, cl |-> clients'])
    /\ UNCHANGED entry

(* readBody(): n units; fewer than were asked for at the end of what is    *)
(* written, anything of a file whose swap-out failed, or an error.         *)
DiskRead(c, n) ==
    /\ clients[c].state = "disk"
    /\ ~entry.failed =>
            n \in {0, Min({BufSize, entry.written - clients[c].offset})}
    /\ clients' = [clients EXCEPT ![c].got = n,
                        ![c].state = IF n = 0 THEN "failed" ELSE "idle"]
    /\ UNCHANGED <<entry, server>>

(* storeUnregister(), at any time: the client may have gone.               *)
Leave(c, how, quickAbort) ==
    /\ clients[c].type # "none"
    /\ LET cl == [clients EXCEPT ![c] = NoClient]
           f == IF entry.status = "OK" /\ entry.swap # "DONE"
                THEN SwapOut(entry, cl, how) ELSE entry
           last == Attached(cl) = {}
       IN  /\ clients' = cl
           /\ entry' = IF last /\ f.status = "PENDING" /\ quickAbort
                       THEN Abort(f) ELSE f
           /\ server' = IF last THEN server
                        ELSE KickReads([e |-> f, cl |-> cl])

-----------------------------------------------------------------------------
(* The disk                                                                *)

PageWritten ==                          \* writeCompleted()
    /\ entry.sio /\ entry.written < entry.queue
    /\ entry' = [entry EXCEPT
                    !.written = Min({@ + PageSize, entry.queue})]
    /\ UNCHANGED <<clients, server>>

StoreSwapOutFileClosed(ok) ==
    /\ entry.sio
    /\ ok => entry.closing /\ entry.written = entry.queue
    /\ entry' = FileClosed(entry, ok)
    /\ UNCHANGED <<clients, server>>

-----------------------------------------------------------------------------
StoreNext ==
    /\ ~entry.dead
    /\ \/ \E how \in Hows : \/ \E n \in 1..2 : ServerReads(n, how)
                            \/ ServerEnds(how) \/ ServerTimesOut(how)
       \/ ServerStops
       \/ \E c \in Clients :
            \/ \E opens \in BOOLEAN : Attach(c, opens)
            \/ \E offset \in 0..MaxObject : Copy(c, offset)
            \/ StoreClientCopyEvent(c)
            \/ \E n \in 0..BufSize : DiskRead(c, n)
            \/ \E how \in Hows, quickAbort \in BOOLEAN :
                    Leave(c, how, quickAbort)
       \/ PageWritten
       \/ \E ok \in BOOLEAN : StoreSwapOutFileClosed(ok)

(* A server sends, or ends its reply; events run and the disk answers; a   *)
(* client that was answered copies again or leaves, which its own write    *)
(* timeout sees to. Each is weak fairness, with the guards written out.    *)
ServerActs == \E how \in Hows :
    (\E n \in 1..2 : ServerReads(n, how)) \/ ServerEnds(how)
GoesOn(c) ==
    \/ \E how \in Hows, quickAbort \in BOOLEAN : Leave(c, how, quickAbort)
    \/ \E offset \in 0..MaxObject : Copy(c, offset)

(* Without an end of arrivals a stream of newcomers, each at the first     *)
(* unit, may keep the read-ahead gap closed to a client that is ahead.     *)
ArrivalsStop ==
    <>[][\A c \in Clients, opens \in BOOLEAN : ~Attach(c, opens)]_vars

StoreFairness ==
    /\ ArrivalsStop
    /\ []<>(server # "reading" \/ entry.status = "OK" \/ entry.dead)
       \/ []<><<ServerActs>>_vars
    /\ \A c \in Clients :
        /\ []<>(clients[c].state # "event" \/ entry.dead)
           \/ []<><<StoreClientCopyEvent(c)>>_vars
        /\ []<>(clients[c].state # "disk" \/ entry.dead)
           \/ []<><<\E n \in 0..BufSize : DiskRead(c, n)>>_vars
        /\ []<>(\/ clients[c].type = "none" \/ entry.dead
                \/ clients[c].state \notin {"idle", "failed"})
           \/ []<><<GoesOn(c)>>_vars

StoreSpec == StoreInit /\ [][StoreNext]_vars /\ StoreFairness

-----------------------------------------------------------------------------
(* What a client may still ask for is there: a memory client's next unit   *)
(* is not below inmem_lo, which the assertions of scheduleDiskRead() and   *)
(* of swapOut() count on, and what a disk client no longer finds in memory *)
(* has reached the disk, not only the queue to it. Once a swap-out failed, *)
(* a disk client's file is incomplete.                                     *)
ReadersHaveData ==
    \A c \in Clients :
        /\ clients[c].type = "mem" => clients[c].offset >= entry.lo
        /\ (clients[c].type = "disk" /\ ~entry.failed
            /\ clients[c].offset < entry.lo) =>
                clients[c].offset < entry.written

(* A file that is kept for later hits holds the whole object: all units    *)
(* were written and the length is what the server announced.               *)
SwappedWhole ==
    (entry.swap = "DONE" /\ ~entry.released) =>
        /\ entry.written = entry.end
        /\ entry.clen \in {Unknown, entry.end}

(* A server's read is not left deferred when the read-ahead gap is open    *)
(* again, as long as some client is there.                                 *)
DeferredOnlyWhenAhead ==
    (server = "deferred" /\ Attached(clients) # {} /\ ~entry.aborted) =>
        ~ReadAheadPolicyCanRead(entry, clients)

(* Every copy() is answered: by data, by the end of the object or by an    *)
(* error. A client that waits is not forgotten.                            *)
ClientsServed ==
    \A c \in Clients :
        clients[c].state \in {"waiting", "disk", "event"}
            ~> (clients[c].state \in {"idle", "failed"} \/ entry.dead)

(* The assertion of mem_hdr::freeDataUpto(): the first unit of memory is   *)
(* not above what is freed.                                                *)
LowestOffsetFreed == ~entry.dead
=============================================================================
