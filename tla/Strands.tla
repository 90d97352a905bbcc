------------------------------ MODULE Strands ------------------------------
(***************************************************************************)
(* The coordinator and the strands of the kids (src/src/ipc/): every kid   *)
(* registers with the coordinator; a disker registers again with the name  *)
(* of its db file; a worker asks the coordinator which kid serves a db     *)
(* file (IpcIoFile::open) and for shared listening sockets (SharedListen). *)
(*                                                                         *)
(* Messages are datagrams, each sent by a UdsSender job of its own which   *)
(* retries and may give up: messages of one kid may overtake each other    *)
(* and get lost, that is, stay in requests or answers for ever. Kids die;  *)
(* the master process starts a successor with the same kid number, and the *)
(* datagrams to it go to the same address, while requests of the dead kid  *)
(* may still wait in the coordinator's socket.  The coordinator is a kid   *)
(* too: its successor starts knowing nobody, and strands do not register   *)
(* again (Coordinator::Instance()).                                        *)
(***************************************************************************)
EXTENDS Integers, Sequences, FiniteSets, Bags

CONSTANTS Workers, Diskers,   \* a disker's tag, its db file, is its name
          Ports,              \* the listening sockets a worker wants
          MaxDeaths,          \* bound on the deaths of kids
          None

Kids == Workers \cup Diskers
Coords == [pid : 0..MaxDeaths, tag : Diskers \cup {None}]  \* StrandCoord

ASSUME StrandsAssumption ==
    /\ IsFiniteSet(Kids) /\ IsFiniteSet(Ports)
    /\ Workers \cap Diskers = {}
    /\ None \notin Kids \cup Ports \cup Coords
    /\ MaxDeaths \in Nat

VARIABLES pid,          \* [Kids -> 0..MaxDeaths]: the life of the kid
          listening,    \* [Kids -> BOOLEAN]: its Strand job exists
          registered,   \* [Kids -> BOOLEAN]: got the acknowledgement
          opened,       \* [Diskers -> BOOLEAN]: the disker opened its db
          file,         \* [Workers -> [Diskers -> FileStates]]
          pending,      \* [Workers -> [Ids -> Ports]]: the request map
          socket,       \* [Workers -> [Ports -> Ports]]: what was joined
          requests,     \* set of messages on their way to the coordinator
          answers,      \* bag of messages to kids, with their UdsSenders
          strands,      \* [Kids -> Coords]: Coordinator::strands_
          searchers,    \* bag of searches: Coordinator::searchers
          listeners,    \* ports it has opened: Coordinator::listeners
          coordinating, \* the Coordinator job exists
          forgotten,    \* kids whose strand went with a dead coordinator
          orphaned      \* kids that died with a listen request under way

kids == <<pid, listening, registered, opened, file, pending, socket,
          orphaned>>
coordinator == <<strands, searchers, listeners, coordinating, forgotten>>
vars == <<kids, requests, answers, coordinator>>

Ids == 0..Cardinality(Ports) - 1
FileStates == {"closed", "waiting", "open"}

Registration(k, t) ==
    [type |-> "registration", kid |-> k, pid |-> pid[k], tag |-> t]
Search(w, t) ==
    [type |-> "search", kid |-> w, pid |-> pid[w], tag |-> t]
Listen(w, i, p) ==
    [type |-> "listen", kid |-> w, pid |-> pid[w], tag |-> p, id |-> i]

(* Types; a message is kept with the pid of its sender. *)
StrandsTypeOK ==
    /\ pid \in [Kids -> 0..MaxDeaths]
    /\ listening \in [Kids -> BOOLEAN]
    /\ registered \in [Kids -> BOOLEAN]
    /\ opened \in [Diskers -> BOOLEAN]
    /\ file \in [Workers -> [Diskers -> FileStates]]
    /\ pending \in [Workers -> [Ids -> Ports \cup {None}]]
    /\ socket \in [Workers -> [Ports -> Ports \cup {None}]]
    /\ \A m \in requests \cup BagToSet(answers) : m.pid <= pid[m.kid]
    /\ strands \in [Kids -> Coords \cup {None}]
    /\ listeners \in SUBSET Ports
    /\ coordinating \in BOOLEAN
    /\ forgotten \in SUBSET Kids
    /\ orphaned \in SUBSET Workers

StrandsInit ==
    /\ pid = [k \in Kids |-> 0]
    /\ listening = [k \in Kids |-> TRUE]
    /\ registered = [k \in Kids |-> FALSE]
    /\ opened = [d \in Diskers |-> FALSE]
    /\ file = [w \in Workers |-> [d \in Diskers |-> "closed"]]
    /\ pending = [w \in Workers |-> [i \in Ids |-> None]]
    /\ socket = [w \in Workers |-> [p \in Ports |-> None]]
    /\ requests = {Registration(k, None) : k \in Kids}      \* registerSelf()
    /\ answers = EmptyBag
    /\ strands = [k \in Kids |-> None]
    /\ searchers = EmptyBag
    /\ listeners = {}
    /\ coordinating = TRUE
    /\ forgotten = {}
    /\ orphaned = {}

-----------------------------------------------------------------------------
(* The kids                                                                *)

Sends(m) == requests' = requests \cup {m}

DiskerOpens(d) ==               \* IpcIoFile::open() in a disker
    /\ ~opened[d]
    /\ opened' = [opened EXCEPT ![d] = TRUE]
    /\ Sends(Registration(d, d))
    /\ UNCHANGED <<pid, listening, registered, file, pending, socket,
                   orphaned, answers, coordinator>>

WorkerOpens(w, d) ==            \* IpcIoFile::open() in a worker
    /\ file[w][d] = "closed"
    /\ file' = [file EXCEPT ![w][d] = "waiting"]
    /\ Sends(Search(w, d))
    /\ UNCHANGED <<pid, listening, registered, opened, pending, socket,
                   orphaned, answers, coordinator>>

Wants(w, p) ==
    socket[w][p] = None /\ \A i \in Ids : pending[w][i] # p

AddToMapMutant(w) == 0          \* does not look for an unused id

AddToMap(w) ==                  \* the first unused id
    CHOOSE i \in Ids : /\ pending[w][i] = None
                       /\ \A j \in Ids : j < i => pending[w][j] # None

JoinSharedListen(w, p) ==
    /\ Wants(w, p)
    /\ pending' = [pending EXCEPT ![w][AddToMap(w)] = p]
    /\ Sends(Listen(w, AddToMap(w), p))
    /\ UNCHANGED <<pid, listening, registered, opened, file, socket,
                   orphaned, answers, coordinator>>

AckMutant(k, m) == TRUE         \* takes the ACK of a dead predecessor

Ack(k, m) == m.pid = pid[k]     \* handleRegistrationResponse(): may be stale

SharedListenJoinedMutant(w, m) ==       \* takes the map id for the socket
    \/ /\ pending[w][m.id] # None
       /\ socket' = [socket EXCEPT ![w][pending[w][m.id]] = m.id]
       /\ pending' = [pending EXCEPT ![w][m.id] = None]
       /\ UNCHANGED listening
    \/ /\ pending[w][m.id] = None
       /\ listening' = [listening EXCEPT ![w] = FALSE]
       /\ UNCHANGED <<socket, pending>>

(* SharedListenJoined() throws if nobody waits for the answer, which ends  *)
(* the Strand job.                                                         *)
SharedListenJoined(w, m) ==
    \/ /\ pending[w][m.id] # None
       /\ socket' = [socket EXCEPT ![w][pending[w][m.id]] = m.tag]
       /\ pending' = [pending EXCEPT ![w][m.id] = None]
       /\ UNCHANGED listening
    \/ /\ pending[w][m.id] = None
       /\ listening' = [listening EXCEPT ![w] = FALSE]
       /\ UNCHANGED <<socket, pending>>

StrandReceives(m) ==            \* Strand::receive()
    LET k == m.kid IN
    /\ BagIn(m, answers)
    /\ listening[k]
    /\ answers' = answers (-) SetToBag({m})
    /\ \/ /\ m.type = "registration"
          /\ registered' = [registered EXCEPT ![k] = @ \/ Ack(k, m)]
          /\ UNCHANGED <<file, pending, socket, listening>>
       \/ /\ m.type = "search"      \* HandleOpenResponse(); it may be LATE
          /\ file' = [file EXCEPT ![k][m.tag] =
                         IF @ = "waiting" THEN "open" ELSE @]
          /\ UNCHANGED <<registered, pending, socket, listening>>
       \/ /\ m.type = "listen"
          /\ SharedListenJoined(k, m)
          /\ UNCHANGED <<registered, file>>
    /\ UNCHANGED <<pid, opened, orphaned, requests, coordinator>>

-----------------------------------------------------------------------------
(* Deaths.  A kid may crash at any time; it kills itself when the          *)
(* registration or the opening of a db file times out (fatalf()).  The     *)
(* master restarts it until it is hopeless(); then it does nothing more.   *)

ListensUnderWay(k) ==
    \E m \in requests \cup BagToSet(answers) : m.kid = k /\ m.type = "listen"

Deaths ==                       \* a kid and one of its deaths so far
    {l \in Kids \X (1..MaxDeaths) : l[2] <= pid[l[1]]}

Dies(k) ==
    /\ Cardinality(Deaths) < MaxDeaths
    /\ pid' = [pid EXCEPT ![k] = @ + 1]
    /\ Sends([Registration(k, None) EXCEPT !.pid = @ + 1])
    /\ listening' = [listening EXCEPT ![k] = TRUE]
    /\ registered' = [registered EXCEPT ![k] = FALSE]
    /\ opened' = [d \in Diskers |-> opened[d] /\ d # k]
    /\ file' = [w \in Workers |-> [d \in Diskers |->
                   IF w = k THEN "closed" ELSE file[w][d]]]
    /\ pending' = [w \in Workers |-> [i \in Ids |->
                      IF w = k THEN None ELSE pending[w][i]]]
    /\ socket' = [w \in Workers |-> [p \in Ports |->
                     IF w = k THEN None ELSE socket[w][p]]]
    /\ orphaned' = orphaned \cup {w \in Workers : w = k /\ ListensUnderWay(w)}
    /\ UNCHANGED <<answers, coordinator>>

-----------------------------------------------------------------------------
(* The coordinator                                                         *)

Answers(B) == answers' = answers (+) B

(* notifySearcher(): the answer to s names the strand with its tag.        *)
Waiting(t) == {s \in BagToSet(searchers) : s.tag = t}
WaitingBag(t) == [s \in Waiting(t) |-> searchers[s]]

OldTag(k, t) ==                 \* keep more detailed info
    IF t = None /\ strands[k] # None THEN strands[k].tag ELSE t

RegisterStrand(m) ==            \* and the acknowledgement
    /\ strands' = [strands EXCEPT ![m.kid] =
                      [pid |-> m.pid, tag |-> OldTag(m.kid, m.tag)]]
    /\ searchers' = searchers (-) WaitingBag(m.tag)
    /\ forgotten' = forgotten \ {m.kid}
    /\ Answers(WaitingBag(m.tag) (+) SetToBag({m}))
    /\ UNCHANGED <<listeners, coordinating>>

HandleSearchRequestMutant(m) == \* waits for the next registration
    /\ searchers' = searchers (+) SetToBag({m})
    /\ UNCHANGED <<answers, strands, listeners, coordinating, forgotten>>

HandleSearchRequest(m) ==
    /\ IF \E k \in Kids : strands[k] # None /\ strands[k].tag = m.tag
       THEN Answers(SetToBag({m})) /\ UNCHANGED searchers
       ELSE searchers' = searchers (+) SetToBag({m}) /\ UNCHANGED answers
    /\ UNCHANGED <<strands, listeners, coordinating, forgotten>>

(* The port is open or openListenSocket() opens it.  If that fails there   *)
(* is no answer: TypedMsgHdr::putFd() throws, which ends the job.          *)
HandleSharedListenRequest(m) ==
    /\ \/ /\ listeners' = listeners \cup {m.tag}
          /\ Answers(SetToBag({m}))
          /\ UNCHANGED coordinating
       \/ /\ m.tag \notin listeners
          /\ coordinating' = FALSE
          /\ UNCHANGED <<listeners, answers>>
    /\ UNCHANGED <<strands, searchers, forgotten>>

(* Coordinator::receive().  What a dead kid had sent came before what its  *)
(* successor sends: it was received already or is lost.                    *)
Outdated(m) == {n \in requests : n.kid = m.kid /\ n.pid < m.pid}

CoordinatorReceives(m) ==
    /\ coordinating
    /\ requests' = requests \ ({m} \cup Outdated(m))
    /\ \/ m.type = "registration" /\ RegisterStrand(m)
       \/ m.type = "search" /\ HandleSearchRequest(m)
       \/ m.type = "listen" /\ HandleSharedListenRequest(m)
    /\ UNCHANGED kids

(* The process dies and the master starts another one, with a socket of    *)
(* its own: what dead kids had left in the old one is lost, while living   *)
(* kids retry.  Nobody tells the strands to register again.                *)
CoordinatorDies ==
    /\ strands' = [k \in Kids |-> None]
    /\ searchers' = EmptyBag
    /\ listeners' = {}
    /\ coordinating' = TRUE
    /\ forgotten' = forgotten \cup {k \in Kids : strands[k] # None}
    /\ requests' = {m \in requests : m.pid = pid[m.kid]}
    /\ UNCHANGED <<kids, answers>>

-----------------------------------------------------------------------------
StrandsNext ==
    \/ \E d \in Diskers : DiskerOpens(d)
    \/ \E w \in Workers : \/ \E d \in Diskers : WorkerOpens(w, d)
                          \/ \E p \in Ports : JoinSharedListen(w, p)
    \/ \E k \in Kids : Dies(k)
    \/ \E m \in requests : CoordinatorReceives(m)
    \/ CoordinatorDies
    \/ \E m \in BagToSet(answers) : StrandReceives(m)

StrandsSpec == StrandsInit /\ [][StrandsNext]_vars

-----------------------------------------------------------------------------
(* Properties *)

(***************************************************************************)
(* Once a kid knows that it is registered, the coordinator has its pid and *)
(* not the one of a predecessor (broadcastSignal() signals these pids),    *)
(* whatever of the two was delayed, lost or reordered.  A kid known to a   *)
(* coordinator that died is not listed at all until it registers again,    *)
(* which it does not while it lives: after a restart of the coordinator    *)
(* kids are missing, but none is listed with a wrong pid.                  *)
(***************************************************************************)
RegisteredIsCurrent ==
    \A k \in Kids : registered[k] =>
        IF k \in forgotten
        THEN strands[k] = None
        ELSE strands[k] # None /\ strands[k].pid = pid[k]

(***************************************************************************)
(* Nobody is left waiting for a strand that the coordinator knows: the two *)
(* registrations of a disker and the searches of workers may come in any   *)
(* order, and from successors of dead kids.                                *)
(***************************************************************************)
NoForgottenSearch ==
    \A s \in BagToSet(searchers) : \A k \in Kids :
        strands[k] # None => strands[k].tag # s.tag

(***************************************************************************)
(* Each port gets its own listening socket, and the strand goes on         *)
(* listening, unless the worker's predecessor died with a listen request   *)
(* in the coordinator's hands.                                             *)
(***************************************************************************)
ListensAsAsked ==
    \A w \in Workers \ orphaned :
        /\ listening[w]
        /\ \A p \in Ports : socket[w][p] \in {p, None}

(***************************************************************************)
(* Strands and the Coordinator are Ports, which "listen forever"           *)
(* (Port.cc).                                                              *)
(***************************************************************************)
ListensForever == coordinating /\ \A k \in Kids : listening[k]
=============================================================================
