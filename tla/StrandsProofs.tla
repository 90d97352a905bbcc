--------------------------- MODULE StrandsProofs ---------------------------
(***************************************************************************)
(* Proofs about Strands: the coordinator's registry and the strands stay   *)
(* consistent for any number of kids, ports and deaths, whatever messages  *)
(* are delayed, lost or overtaken, and whenever the coordinator restarts.  *)
(***************************************************************************)
EXTENDS Strands, FiniteSetTheorems, TLAPS

(* The messages there are, whoever sent them and in whichever life.        *)
Registrations == [type : {"registration"}, kid : Kids, pid : 0..MaxDeaths,
                  tag : Diskers \cup {None}]
Searches == [type : {"search"}, kid : Workers, pid : 0..MaxDeaths,
             tag : Diskers]
Listens == [type : {"listen"}, kid : Workers, pid : 0..MaxDeaths,
            tag : Ports, id : Ids]

MessagesKnown ==
    /\ requests \subseteq Registrations \cup Searches \cup Listens
    /\ DOMAIN answers \subseteq Registrations \cup Searches \cup Listens
    /\ DOMAIN searchers \subseteq Searches
    /\ IsABag(answers) /\ IsABag(searchers)
    /\ \A m \in DOMAIN searchers : m.pid <= pid[m.kid]

(* The coordinator's pid of a kid grows: no request older than the newest  *)
(* registration is left.                                                   *)
RegistryGrows ==
    \A k \in Kids : strands[k] # None =>
        /\ strands[k].pid <= pid[k]
        /\ \A m \in requests : m.kid = k => strands[k].pid <= m.pid

(* What was acknowledged was taken in, if not by this coordinator then by  *)
(* a dead one.  Acknowledgements outlive a coordinator: no request older   *)
(* than them is left, nor one older than a kid that got its own.           *)
AcksTakenIn ==
    /\ \A m \in DOMAIN answers : m.type = "registration" =>
          /\ \/ m.kid \in forgotten
             \/ strands[m.kid] # None /\ m.pid <= strands[m.kid].pid
          /\ \A n \in requests : n.kid = m.kid => m.pid <= n.pid
    /\ \A n \in requests : registered[n.kid] => n.pid = pid[n.kid]

(* A forgotten kid is not listed.                                          *)
ForgottenUnlisted == \A k \in forgotten : strands[k] = None

(* What the coordinator knows of the kids.                                 *)
Registry ==
    /\ RegistryGrows /\ AcksTakenIn
    /\ ForgottenUnlisted /\ RegisteredIsCurrent

(* A port waits in at most one place of the request map.                   *)
PortsApart ==
    \A w \in Workers : \A i, j \in Ids :
        (pending[w][i] # None /\ pending[w][i] = pending[w][j]) => i = j

(* A listen request under way is of this life of its worker, there is one  *)
(* copy of it, and the request map knows what it is about.                 *)
ListensTracked ==
    \A w \in Workers \ orphaned :
        /\ \A m \in requests \cup DOMAIN answers :
              (m.kid = w /\ m.type = "listen") =>
                  m.pid = pid[w] /\ pending[w][m.id] = m.tag
        /\ \A m \in DOMAIN answers :
              (m.kid = w /\ m.type = "listen") =>
                  m \notin requests /\ answers[m] = 1

(* The inductive invariant.                                                *)
StrandsInv ==
    /\ StrandsTypeOK /\ MessagesKnown
    /\ Registry /\ NoForgottenSearch
    /\ PortsApart /\ ListensTracked /\ ListensAsAsked

-----------------------------------------------------------------------------
(* Bags                                                                    *)

(* Adding a bag adds its elements, and its copies.                         *)
LEMMA AddBag ==
    ASSUME NEW A, NEW B, IsABag(A), IsABag(B)
    PROVE  /\ IsABag(A (+) B)
           /\ DOMAIN (A (+) B) = DOMAIN A \cup DOMAIN B
           /\ \A e \in DOMAIN A \ DOMAIN B : (A (+) B)[e] = A[e]
           /\ \A e \in DOMAIN B \ DOMAIN A : (A (+) B)[e] = B[e]
  BY DEF IsABag, (+)

(* Taking a bag away leaves the elements with more copies.                 *)
LEMMA TakeBag ==
    ASSUME NEW A, NEW B, IsABag(A), IsABag(B)
    PROVE  /\ IsABag(A (-) B)
           /\ DOMAIN (A (-) B) \subseteq DOMAIN A
           /\ \A e \in DOMAIN (A (-) B) :
                 IF e \in DOMAIN B THEN A[e] # B[e]
                                  ELSE (A (-) B)[e] = A[e]
  BY DEF IsABag, (-)

(* A set as a bag has one copy of each element.                            *)
LEMMA OneCopy ==
    ASSUME NEW S
    PROVE  /\ IsABag(SetToBag(S))
           /\ DOMAIN SetToBag(S) = S
           /\ \A e \in S : SetToBag(S)[e] = 1
  BY DEF IsABag, SetToBag

(* One more copy of an element.                                            *)
LEMMA AddOne ==
    ASSUME NEW A, NEW m, IsABag(A)
    PROVE  /\ IsABag(A (+) SetToBag({m}))
           /\ DOMAIN (A (+) SetToBag({m})) = DOMAIN A \cup {m}
           /\ \A e \in DOMAIN A : e # m => (A (+) SetToBag({m}))[e] = A[e]
           /\ m \notin DOMAIN A => (A (+) SetToBag({m}))[m] = 1
  BY DEF IsABag, SetToBag, (+)

(* The bag without any element.                                            *)
LEMMA NoCopies == IsABag(EmptyBag) /\ DOMAIN EmptyBag = {}
  BY DEF IsABag, EmptyBag, SetToBag

-----------------------------------------------------------------------------
(* The messages                                                            *)

(* What the fields of a message may hold, by its type.                     *)
LEMMA Fields ==
    ASSUME NEW m \in Registrations \cup Searches \cup Listens
    PROVE  /\ m.kid \in Kids /\ m.pid \in 0..MaxDeaths
           /\ m.type \in {"registration", "search", "listen"}
           /\ m.type = "registration" => m.tag \in Diskers \cup {None}
           /\ m.type = "search" =>
                 m.tag \in Diskers /\ m.kid \in Workers /\ m \in Searches
           /\ m.type = "listen" =>
                 m.tag \in Ports /\ m.id \in Ids /\ m.kid \in Workers
  BY DEF Registrations, Searches, Listens, Kids

(* In the initial state all kids have just sent their first registration.  *)
LEMMA StrandsInitially == StrandsInit => StrandsInv
  <1> SUFFICES ASSUME StrandsInit PROVE StrandsInv
    OBVIOUS
  <1> USE StrandsAssumption
  <1>1. requests \subseteq Registrations
        /\ \A m \in requests : m.pid = 0 /\ m.type = "registration"
    BY DEF StrandsInit, Registration, Registrations, Kids
  <1>2. DOMAIN answers = {} /\ DOMAIN searchers = {}
        /\ IsABag(answers) /\ IsABag(searchers)
    BY NoCopies DEF StrandsInit
  <1>3. StrandsTypeOK
    <2>1. \A m \in requests \cup BagToSet(answers) : m.pid <= pid[m.kid]
      BY <1>1, <1>2, Fields DEF StrandsInit, BagToSet
    <2> QED
      BY <2>1 DEF StrandsInit, StrandsTypeOK, FileStates, Kids
  <1>4. MessagesKnown
    BY <1>1, <1>2 DEF MessagesKnown
  <1>5. Registry /\ NoForgottenSearch
    <2>1. \A k \in Kids : strands[k] = None /\ registered[k] = FALSE
      BY DEF StrandsInit
    <2>2. \A m \in requests : m.kid \in Kids
      BY <1>1 DEF Registrations
    <2>3. forgotten = {}
      BY DEF StrandsInit
    <2> QED
      BY <1>2, <2>1, <2>2, <2>3
         DEF Registry, RegistryGrows, AcksTakenIn, ForgottenUnlisted,
             RegisteredIsCurrent, NoForgottenSearch, BagToSet
  <1>6. PortsApart /\ ListensTracked /\ ListensAsAsked
    BY <1>1, <1>2 DEF PortsApart, ListensTracked, ListensAsAsked,
                      StrandsInit, Kids
  <1> QED
    BY <1>3, <1>4, <1>5, <1>6 DEF StrandsInv

-----------------------------------------------------------------------------
(* The request map                                                         *)

(* A set of naturals that is not empty has a least element.                *)
LEMMA LeastOf ==
    ASSUME NEW S \in SUBSET Nat, S # {}
    PROVE  \E i \in S : \A j \in S : i <= j
  <1> DEFINE R == {rs \in Nat \X Nat : rs[1] < rs[2]}
  <1>1. R = OpToRel(<, Nat)
    BY DEF OpToRel
  <1> HIDE DEF R
  <1>2. IsWellFoundedOn(R, Nat)
    BY <1>1, NatLessThanWellFounded, Zenon
  <1>3. PICK i \in S : \A j \in S : ~(<<j, i>> \in R)
    BY <1>2, WFMin, Zenon
  <1>4. \A j \in S : <<j, i>> \in R <=> j < i
    BY DEF R
  <1>5. \A j \in S : ~(j < i)
    BY <1>3, <1>4, Zenon
  <1>6. \A j \in S : i <= j
    BY <1>5
  <1> QED
    BY <1>6

(* AddToMap() finds an unused id for a port that is not in the map: there  *)
(* are as many ids as ports.                                               *)
LEMMA FreeId ==
    ASSUME StrandsTypeOK, PortsApart, NEW w \in Workers, NEW p \in Ports,
           \A i \in Ids : pending[w][i] # p
    PROVE  AddToMap(w) \in Ids /\ pending[w][AddToMap(w)] = None
  <1> DEFINE f == pending[w]
             U == {i \in Ids : f[i] = None}
             N == Cardinality(Ports)
  <1> USE StrandsAssumption
  <1>a. N \in Nat
    BY FS_CardinalityType
  <1> HIDE DEF N
  <1>1. N \in Nat /\ IsFiniteSet(Ids) /\ Cardinality(Ids) = N
    <2>1. Ids = 0..N - 1
      BY DEF Ids, N
    <2>2. PICK b \in Int : b = N - 1
      BY <1>a
    <2>3. IsFiniteSet(0..b)
          /\ Cardinality(0..b) = IF 0 > b THEN 0 ELSE b - 0 + 1
      BY FS_Interval
    <2> QED
      BY <1>a, <2>1, <2>2, <2>3
  <1>2. U # {}
    <2> SUFFICES ASSUME U = {} PROVE FALSE
      OBVIOUS
    <2>1. f \in [Ids -> Ports \ {p}]
      BY DEF StrandsTypeOK
    <2>2. Cardinality(Ports \ {p}) < Cardinality(Ids)
          /\ IsFiniteSet(Ports \ {p})
      <3>1. /\ IsFiniteSet(Ports \ {p})
            /\ Cardinality(Ports \ {p}) = IF p \in Ports
                                          THEN Cardinality(Ports) - 1
                                          ELSE Cardinality(Ports)
        BY FS_RemoveElement
      <3>2. N = Cardinality(Ports)
        BY DEF N
      <3> QED
        BY <1>1, <3>1, <3>2
    <2>3. PICK i \in Ids, j \in Ids : i # j /\ f[i] = f[j]
      <3> HIDE DEF f
      <3> QED
        BY <2>1, <2>2, <1>1, FS_PigeonHole
    <2>4. f[i] # None
      BY <2>3, <2>1
    <2> QED
      BY <2>3, <2>4 DEF PortsApart
  <1>3. U \in SUBSET Nat
    BY <1>1 DEF Ids
  <1>4. PICK i \in U : \A j \in U : i <= j
    BY <1>2, <1>3, LeastOf
  <1>5. i \in Ids /\ f[i] = None /\ \A j \in Ids : j < i => f[j] # None
    BY <1>4, <1>1 DEF Ids
  <1> QED
    BY <1>5 DEF AddToMap

-----------------------------------------------------------------------------
(* What a step does to the messages                                        *)

(* The coordinator answers the request, and the searches it satisfies.     *)
LEMMA CoordinatorAnswers ==
    ASSUME MessagesKnown, NEW m \in requests, CoordinatorReceives(m)
    PROVE  /\ IsABag(answers') /\ IsABag(searchers')
           /\ DOMAIN answers' \subseteq
                  DOMAIN answers \cup DOMAIN searchers \cup {m}
           /\ DOMAIN searchers' \subseteq DOMAIN searchers \cup {m}
           /\ m \in DOMAIN searchers' =>
                  m \in DOMAIN searchers \/ m.type = "search"
           /\ \A n \in DOMAIN answers' : n.type = "listen" =>
                  \/ n # m /\ n \in DOMAIN answers /\ answers'[n] = answers[n]
                  \/ n = m /\ (m \notin DOMAIN answers => answers'[n] = 1)
  <1> DEFINE M == SetToBag({m})
             W == WaitingBag(m.tag)
  <1>1. IsABag(M) /\ DOMAIN M = {m} /\ M[m] = 1
    BY OneCopy
  <1>2. IsABag(W) /\ DOMAIN W \subseteq DOMAIN searchers
    BY DEF MessagesKnown, WaitingBag, Waiting, IsABag, BagToSet
  <1>3. \A n \in DOMAIN searchers : n.type = "search"
    BY DEF MessagesKnown, Searches
  <1> HIDE DEF M, W
  <1>4. IsABag(answers) /\ IsABag(searchers)
    BY DEF MessagesKnown
  <1>5. /\ IsABag(answers (+) M)
        /\ DOMAIN (answers (+) M) = DOMAIN answers \cup {m}
        /\ \A e \in DOMAIN answers : e # m => (answers (+) M)[e] = answers[e]
        /\ m \notin DOMAIN answers => (answers (+) M)[m] = 1
    BY <1>4, AddOne, Zenon DEF M
  <1>6. /\ IsABag(searchers (+) M)
        /\ DOMAIN (searchers (+) M) = DOMAIN searchers \cup {m}
    BY <1>4, AddOne, Zenon DEF M
  <1>7. CASE m.type = "registration" /\ RegisterStrand(m)
    <2>1. searchers' = searchers (-) W /\ answers' = answers (+) (W (+) M)
      BY <1>7 DEF RegisterStrand, Answers, M, W
    <2>2. /\ IsABag(W (+) M)
          /\ DOMAIN (W (+) M) \subseteq DOMAIN searchers \cup {m}
      BY <1>1, <1>2, AddBag
    <2> DEFINE A == W (+) M
    <2> HIDE DEF A
    <2>3. /\ IsABag(answers (+) A)
          /\ DOMAIN (answers (+) A) = DOMAIN answers \cup DOMAIN A
          /\ \A e \in DOMAIN answers \ DOMAIN A :
                 (answers (+) A)[e] = answers[e]
      BY <1>4, <2>2, AddBag DEF A
    <2>4. /\ IsABag(searchers (-) W)
          /\ DOMAIN (searchers (-) W) \subseteq DOMAIN searchers
      BY <1>2, <1>4, TakeBag, Zenon
    <2>5. /\ answers' = answers (+) A
          /\ DOMAIN A \subseteq DOMAIN searchers \cup {m}
      BY <2>1, <2>2 DEF A
    <2>6. \A n \in DOMAIN answers' : n.type = "listen" =>
             n # m /\ n \in DOMAIN answers /\ answers'[n] = answers[n]
      BY <1>3, <1>7, <2>3, <2>5
    <2> QED
      BY <2>1, <2>3, <2>4, <2>5, <2>6
  <1>8. CASE m.type = "search" /\ HandleSearchRequest(m)
    <2>1. CASE answers' = answers (+) M /\ UNCHANGED searchers
      BY <1>4, <1>8, <1>5, <2>1
    <2>2. CASE searchers' = searchers (+) M /\ UNCHANGED answers
      <3>1. \A n \in DOMAIN answers : n = m => m \in DOMAIN answers
        OBVIOUS
      <3> QED
        BY <1>4, <1>8, <1>6, <2>2, <3>1
    <2> QED
      BY <1>8, <2>1, <2>2 DEF HandleSearchRequest, Answers, M
  <1>9. CASE m.type = "listen" /\ HandleSharedListenRequest(m)
    <2>1. UNCHANGED searchers /\ answers' \in {answers, answers (+) M}
      BY <1>9 DEF HandleSharedListenRequest, Answers, M
    <2>2. CASE answers' = answers (+) M
      BY <1>4, <1>9, <1>5, <2>1, <2>2
    <2>3. CASE answers' = answers
      <3>1. \A n \in DOMAIN answers : n = m => m \in DOMAIN answers
        OBVIOUS
      <3> QED
        BY <1>4, <1>9, <2>1, <2>3, <3>1
    <2> QED
      BY <2>1, <2>2, <2>3
  <1> QED
    BY <1>7, <1>8, <1>9 DEF CoordinatorReceives

(* A strand takes one copy of an answer.                                   *)
LEMMA StrandTakes ==
    ASSUME MessagesKnown, NEW m \in DOMAIN answers, StrandReceives(m)
    PROVE  /\ IsABag(answers')
           /\ DOMAIN answers' \subseteq DOMAIN answers
           /\ \A n \in DOMAIN answers' : n # m => answers'[n] = answers[n]
           /\ answers[m] = 1 => m \notin DOMAIN answers'
           /\ UNCHANGED <<requests, coordinator, pid, orphaned>>
  <1> DEFINE M == SetToBag({m})
  <1>1. IsABag(M) /\ DOMAIN M = {m} /\ M[m] = 1
    BY OneCopy
  <1> HIDE DEF M
  <1>2. answers' = answers (-) M
        /\ UNCHANGED <<requests, coordinator, pid, orphaned>>
    BY DEF StrandReceives, M
  <1> QED
    BY <1>1, <1>2, TakeBag DEF MessagesKnown

(* A kid that may still die has a life left.                               *)
LEMMA LifeLeft ==
    ASSUME StrandsTypeOK, NEW k \in Kids, Cardinality(Deaths) < MaxDeaths
    PROVE  pid[k] + 1 \in 0..MaxDeaths
  <1> USE StrandsAssumption
  <1>1. pid[k] \in 0..MaxDeaths
    BY DEF StrandsTypeOK
  <1>2. ASSUME pid[k] = MaxDeaths PROVE FALSE
    <2> DEFINE f == [n \in 1..MaxDeaths |-> <<k, n>>]
    <2>1. IsFiniteSet(1..MaxDeaths) /\ Cardinality(1..MaxDeaths) = MaxDeaths
      BY FS_Interval
    <2>2. IsFiniteSet(Kids \X (1..MaxDeaths))
      BY <2>1, FS_Product
    <2>3. Deaths \in SUBSET (Kids \X (1..MaxDeaths))
      BY DEF Deaths
    <2>4. IsFiniteSet(Deaths)
      BY <2>2, <2>3, FS_Subset, Zenon
    <2>5. f \in Injection(1..MaxDeaths, Deaths)
      BY <1>2 DEF Deaths, Injection, IsInjective
    <2> HIDE DEF f
    <2>6. Cardinality(1..MaxDeaths) <= Cardinality(Deaths)
      BY <2>4, <2>5, FS_Injection, Zenon
    <2>7. Cardinality(Deaths) \in Nat
      BY <2>4, FS_CardinalityType
    <2> QED
      BY <2>1, <2>6, <2>7
  <1> QED
    BY <1>1, <1>2

-----------------------------------------------------------------------------
(* The invariant is inductive                                              *)

(* Types, and the messages there are.                                      *)
LEMMA TypeStep ==
    StrandsInv /\ [StrandsNext]_vars => StrandsTypeOK' /\ MessagesKnown'
  <1> SUFFICES ASSUME StrandsInv, [StrandsNext]_vars
               PROVE  StrandsTypeOK' /\ MessagesKnown'
    OBVIOUS
  <1> USE StrandsAssumption
  <1>1. StrandsTypeOK /\ MessagesKnown /\ PortsApart
    BY DEF StrandsInv
  <1> DEFINE All == Registrations \cup Searches \cup Listens
  <1>2. pid \in [Kids -> 0..MaxDeaths]
    BY <1>1 DEF StrandsTypeOK
  <1>3. ASSUME NEW d \in Diskers, DiskerOpens(d)
        PROVE  StrandsTypeOK' /\ MessagesKnown'
    <2>1. Registration(d, d) \in All /\ Registration(d, d).pid = pid[d]
          /\ Registration(d, d).kid = d
      BY <1>2 DEF Registration, Registrations, Kids
    <2>2. \A m \in (requests \cup BagToSet(answers))' : m.pid <= pid'[m.kid]
      BY <1>1, <1>3, <2>1 DEF DiskerOpens, Sends, StrandsTypeOK, Kids
    <2>3. StrandsTypeOK'
      BY <1>1, <1>3, <2>2 DEF DiskerOpens, StrandsTypeOK, coordinator
    <2> QED
      BY <1>1, <1>3, <2>1, <2>3
         DEF DiskerOpens, Sends, MessagesKnown, coordinator
  <1>4. ASSUME NEW w \in Workers, NEW d \in Diskers, WorkerOpens(w, d)
        PROVE  StrandsTypeOK' /\ MessagesKnown'
    <2>1. Search(w, d) \in All /\ Search(w, d).pid = pid[w]
          /\ Search(w, d).kid = w
      BY <1>2 DEF Search, Searches, Kids
    <2>2. \A m \in (requests \cup BagToSet(answers))' : m.pid <= pid'[m.kid]
      BY <1>1, <1>4, <2>1 DEF WorkerOpens, Sends, StrandsTypeOK, Kids
    <2>3. file' \in [Workers -> [Diskers -> FileStates]]
      BY <1>1, <1>4 DEF WorkerOpens, StrandsTypeOK, FileStates
    <2>4. StrandsTypeOK'
      BY <1>1, <1>4, <2>2, <2>3 DEF WorkerOpens, StrandsTypeOK, coordinator
    <2> QED
      BY <1>1, <1>4, <2>1, <2>4
         DEF WorkerOpens, Sends, MessagesKnown, coordinator
  <1>5. ASSUME NEW w \in Workers, NEW p \in Ports, JoinSharedListen(w, p)
        PROVE  StrandsTypeOK' /\ MessagesKnown'
    <2>1. PICK i \in Ids : i = AddToMap(w)
      BY <1>1, <1>5, FreeId DEF JoinSharedListen, Wants
    <2>2. Listen(w, i, p) \in All /\ Listen(w, i, p).pid = pid[w]
          /\ Listen(w, i, p).kid = w
      BY <1>2 DEF Listen, Listens, Kids
    <2>3. requests' = requests \cup {Listen(w, i, p)}
          /\ pending' = [pending EXCEPT ![w][i] = p]
      BY <1>5, <2>1 DEF JoinSharedListen, Sends
    <2>4. \A m \in (requests \cup BagToSet(answers))' : m.pid <= pid'[m.kid]
      BY <1>1, <1>5, <2>2, <2>3 DEF JoinSharedListen, StrandsTypeOK, Kids
    <2>5. pending' \in [Workers -> [Ids -> Ports \cup {None}]]
      BY <1>1, <2>3 DEF StrandsTypeOK
    <2>6. StrandsTypeOK'
      BY <1>1, <1>5, <2>4, <2>5 DEF JoinSharedListen, StrandsTypeOK,
                                    coordinator
    <2> QED
      BY <1>1, <1>5, <2>2, <2>3, <2>6
         DEF JoinSharedListen, MessagesKnown, coordinator
  <1>6. ASSUME NEW k \in Kids, Dies(k)
        PROVE  StrandsTypeOK' /\ MessagesKnown'
    <2>1. pid[k] + 1 \in 0..MaxDeaths
      BY <1>1, <1>6, LifeLeft DEF Dies
    <2>2. pid' \in [Kids -> 0..MaxDeaths] /\ \A c \in Kids : pid[c] <= pid'[c]
          /\ pid'[k] = pid[k] + 1
      BY <1>2, <1>6, <2>1 DEF Dies
    <2> DEFINE n == [Registration(k, None) EXCEPT !.pid = @ + 1]
    <2>3. n \in All /\ n.pid = pid[k] + 1 /\ n.kid = k
      BY <1>2, <2>1 DEF Registration, Registrations
    <2>4. requests' = requests \cup {n} /\ answers' = answers
          /\ searchers' = searchers
      BY <1>6 DEF Dies, Sends, coordinator
    <2> HIDE DEF n
    <2>5. \A m \in requests \cup DOMAIN answers \cup DOMAIN searchers :
             m.kid \in Kids /\ m.pid \in 0..MaxDeaths /\ m.pid <= pid[m.kid]
      BY <1>1, Fields DEF MessagesKnown, StrandsTypeOK, BagToSet
    <2>6. \A m \in requests \cup DOMAIN answers \cup DOMAIN searchers :
             m.pid <= pid'[m.kid]
      <3> SUFFICES ASSUME NEW m \in requests \cup DOMAIN answers
                                             \cup DOMAIN searchers
                   PROVE  m.pid <= pid'[m.kid]
        OBVIOUS
      <3>1. PICK c \in Kids, a \in 0..MaxDeaths : c = m.kid /\ a = m.pid
        BY <2>5
      <3> QED
        BY <1>2, <2>2, <2>5, <3>1
    <2>7. \A m \in (requests \cup BagToSet(answers))' : m.pid <= pid'[m.kid]
      BY <2>2, <2>3, <2>4, <2>6 DEF BagToSet
    <2>8. file' \in [Workers -> [Diskers -> FileStates]]
          /\ pending' \in [Workers -> [Ids -> Ports \cup {None}]]
          /\ socket' \in [Workers -> [Ports -> Ports \cup {None}]]
          /\ orphaned' \in SUBSET Workers
          /\ strands' \in [Kids -> Coords \cup {None}]
          /\ listeners' \in SUBSET Ports /\ forgotten' \in SUBSET Kids
      BY <1>1, <1>6 DEF Dies, StrandsTypeOK, FileStates, coordinator
    <2>9. listening' \in [Kids -> BOOLEAN] /\ registered' \in [Kids -> BOOLEAN]
          /\ opened' \in [Diskers -> BOOLEAN] /\ coordinating' \in BOOLEAN
      BY <1>1, <1>6 DEF Dies, StrandsTypeOK, coordinator
    <2>10. StrandsTypeOK'
      BY <2>2, <2>7, <2>8, <2>9 DEF StrandsTypeOK
    <2>11. MessagesKnown'
      BY <1>1, <2>3, <2>4, <2>6 DEF MessagesKnown
    <2> QED
      BY <2>10, <2>11
  <1>7. ASSUME NEW m \in requests, CoordinatorReceives(m)
        PROVE  StrandsTypeOK' /\ MessagesKnown'
    <2>1. /\ IsABag(answers') /\ IsABag(searchers')
          /\ DOMAIN answers' \subseteq
                 DOMAIN answers \cup DOMAIN searchers \cup {m}
          /\ DOMAIN searchers' \subseteq DOMAIN searchers \cup {m}
          /\ m \in DOMAIN searchers' =>
                 m \in DOMAIN searchers \/ m.type = "search"
      BY <1>1, <1>7, CoordinatorAnswers
    <2>2. requests' \subseteq requests /\ UNCHANGED kids
      BY <1>7 DEF CoordinatorReceives
    <2>3. /\ m \in All /\ m.kid \in Kids /\ m.pid \in 0..MaxDeaths
          /\ m.type = "search" => m \in Searches
          /\ m.type = "registration" => m.tag \in Diskers \cup {None}
          /\ m.type = "listen" => m.tag \in Ports
      BY <1>1, Fields DEF MessagesKnown
    <2>4. strands' \in [Kids -> Coords \cup {None}]
      <3>1. CASE m.type = "registration" /\ RegisterStrand(m)
        <4>1. OldTag(m.kid, m.tag) \in Diskers \cup {None}
          BY <1>1, <2>3, <3>1 DEF OldTag, StrandsTypeOK, Coords
        <4>2. [pid |-> m.pid, tag |-> OldTag(m.kid, m.tag)] \in Coords
          BY <2>3, <4>1 DEF Coords
        <4> QED
          BY <1>1, <2>3, <3>1, <4>2 DEF RegisterStrand, StrandsTypeOK
      <3>2. CASE UNCHANGED strands
        BY <1>1, <3>2 DEF StrandsTypeOK
      <3> QED
        BY <1>7, <3>1, <3>2
           DEF CoordinatorReceives, HandleSearchRequest,
               HandleSharedListenRequest
    <2>9. listeners' \in SUBSET Ports /\ forgotten' \in SUBSET Kids
          /\ coordinating' \in BOOLEAN
      BY <1>1, <1>7, <2>3
         DEF CoordinatorReceives, RegisterStrand, HandleSearchRequest,
             HandleSharedListenRequest, StrandsTypeOK
    <2>5. m.pid <= pid[m.kid]
      BY <1>1 DEF StrandsTypeOK
    <2>6. \A n \in (requests \cup BagToSet(answers))' : n.pid <= pid'[n.kid]
      BY <1>1, <2>1, <2>2, <2>5 DEF MessagesKnown, StrandsTypeOK, BagToSet,
                                    kids
    <2>7. StrandsTypeOK'
      BY <1>1, <2>2, <2>4, <2>6, <2>9 DEF StrandsTypeOK, kids
    <2>8. MessagesKnown'
      BY <1>1, <2>1, <2>2, <2>3, <2>5 DEF MessagesKnown, kids
    <2> QED
      BY <2>7, <2>8
  <1>8. ASSUME NEW m \in BagToSet(answers), StrandReceives(m)
        PROVE  StrandsTypeOK' /\ MessagesKnown'
    <2>1. /\ m \in DOMAIN answers /\ IsABag(answers')
          /\ DOMAIN answers' \subseteq DOMAIN answers
          /\ UNCHANGED <<requests, coordinator, pid, orphaned>>
      BY <1>1, <1>8, StrandTakes DEF BagToSet
    <2>2. MessagesKnown'
      BY <1>1, <2>1 DEF MessagesKnown, coordinator
    <2>3. \A n \in (requests \cup BagToSet(answers))' : n.pid <= pid'[n.kid]
      BY <1>1, <2>1 DEF StrandsTypeOK, BagToSet
    <2>4. /\ m.kid \in Kids
          /\ m.type = "search" => m.tag \in Diskers /\ m.kid \in Workers
          /\ m.type = "listen" =>
                m.tag \in Ports /\ m.id \in Ids /\ m.kid \in Workers
      BY <1>1, <2>1, Fields DEF MessagesKnown
    <2> DEFINE k == m.kid
    <2> DEFINE Typed ==
               /\ listening \in [Kids -> BOOLEAN]
               /\ registered \in [Kids -> BOOLEAN]
               /\ file \in [Workers -> [Diskers -> FileStates]]
               /\ pending \in [Workers -> [Ids -> Ports \cup {None}]]
               /\ socket \in [Workers -> [Ports -> Ports \cup {None}]]
    <2>5. Typed
      BY <1>1 DEF StrandsTypeOK
    <2>6. Typed'
      <3>1. CASE /\ m.type = "registration"
                 /\ registered' = [registered EXCEPT ![k] = @ \/ Ack(k, m)]
                 /\ UNCHANGED <<file, pending, socket, listening>>
        BY <2>4, <2>5, <3>1
      <3>2. CASE /\ m.type = "search"
                 /\ file' = [file EXCEPT ![k][m.tag] =
                                IF @ = "waiting" THEN "open" ELSE @]
                 /\ UNCHANGED <<registered, pending, socket, listening>>
        <4>1. file' \in [Workers -> [Diskers -> FileStates]]
          BY <2>4, <2>5, <3>2 DEF FileStates
        <4> QED
          BY <2>5, <3>2, <4>1
      <3>3. CASE /\ m.type = "listen"
                 /\ SharedListenJoined(k, m)
                 /\ UNCHANGED <<registered, file>>
        <4> PICK w \in Workers, i \in Ids, p \in Ports :
               w = k /\ i = m.id /\ p = m.tag
          BY <2>4, <3>3
        <4>1. CASE pending[w][i] # None
          <5>1. PICK q \in Ports : q = pending[w][i]
            BY <2>5, <4>1
          <5>2. socket' = [socket EXCEPT ![w][q] = p]
                /\ pending' = [pending EXCEPT ![w][i] = None]
                /\ UNCHANGED <<listening, registered, file>>
            BY <3>3, <4>1, <5>1 DEF SharedListenJoined
          <5> QED
            BY <2>5, <5>2
        <4>2. CASE pending[w][i] = None
          <5>1. listening' = [listening EXCEPT ![k] = FALSE]
                /\ UNCHANGED <<socket, pending, registered, file>>
            BY <3>3, <4>2 DEF SharedListenJoined
          <5> QED
            BY <2>4, <2>5, <5>1
        <4> QED
          BY <4>1, <4>2
      <3> QED
        BY <1>8, <3>1, <3>2, <3>3 DEF StrandReceives
    <2>7. opened' \in [Diskers -> BOOLEAN]
      BY <1>1, <1>8 DEF StrandReceives, StrandsTypeOK
    <2>8. StrandsTypeOK'
      BY <1>1, <2>1, <2>3, <2>6, <2>7 DEF StrandsTypeOK, coordinator
    <2> QED
      BY <2>2, <2>8
  <1>9. CASE UNCHANGED vars
    BY <1>1, <1>9 DEF vars, kids, coordinator, StrandsTypeOK, MessagesKnown,
                      BagToSet
  <1>10. CASE CoordinatorDies
    <2>1. requests' \subseteq requests /\ UNCHANGED <<kids, answers>>
          /\ IsABag(searchers') /\ DOMAIN searchers' = {}
      BY <1>10, NoCopies DEF CoordinatorDies
    <2>2. /\ strands' \in [Kids -> Coords \cup {None}]
          /\ listeners' \in SUBSET Ports /\ forgotten' \in SUBSET Kids
          /\ coordinating' \in BOOLEAN
      BY <1>1, <1>10 DEF CoordinatorDies, StrandsTypeOK
    <2>3. StrandsTypeOK'
      BY <1>1, <2>1, <2>2 DEF StrandsTypeOK, kids
    <2> QED
      BY <1>1, <2>1, <2>3 DEF MessagesKnown
  <1> QED
    BY <1>3, <1>4, <1>5, <1>6, <1>7, <1>8, <1>9, <1>10 DEF StrandsNext

(* A registration never replaces a newer one.                              *)
LEMMA RegistryStep ==
    StrandsInv /\ [StrandsNext]_vars => Registry'
  <1> SUFFICES ASSUME StrandsInv, [StrandsNext]_vars
               PROVE  Registry'
    OBVIOUS
  <1> USE StrandsAssumption
  <1>1. /\ MessagesKnown /\ RegistryGrows /\ AcksTakenIn
        /\ ForgottenUnlisted /\ RegisteredIsCurrent
    BY DEF StrandsInv, Registry
  <1>2. /\ pid \in [Kids -> 0..MaxDeaths]
        /\ strands \in [Kids -> Coords \cup {None}]
        /\ \A m \in requests \cup DOMAIN answers : m.pid <= pid[m.kid]
        /\ registered \in [Kids -> BOOLEAN] /\ forgotten \in SUBSET Kids
    BY DEF StrandsInv, StrandsTypeOK, BagToSet
  <1>3. \A m \in requests \cup DOMAIN answers :
           m.kid \in Kids /\ m.pid \in 0..MaxDeaths
    BY <1>1, Fields DEF MessagesKnown
  <1>4. \A k \in Kids : strands[k] # None => strands[k].pid \in 0..MaxDeaths
    BY <1>2 DEF Coords
  (* A new request of the current life changes nothing. *)
  <1>5. ASSUME NEW k \in Kids, NEW m, m.kid = k, m.pid = pid[k], Sends(m),
               UNCHANGED <<pid, registered, answers, coordinator>>
        PROVE  Registry'
    <2>1. RegistryGrows'
      BY <1>1, <1>2, <1>4, <1>5 DEF Sends, RegistryGrows, coordinator
    <2>2. AcksTakenIn'
      <3>1. \A n \in DOMAIN answers : n.kid = k => n.pid <= m.pid
        BY <1>2, <1>5
      <3> QED
        BY <1>1, <1>5, <3>1 DEF Sends, AcksTakenIn, coordinator
    <2> QED
      BY <1>1, <1>5, <2>1, <2>2
         DEF Registry, ForgottenUnlisted, RegisteredIsCurrent, coordinator
  <1>6. ASSUME NEW d \in Diskers, DiskerOpens(d)
        PROVE  Registry'
    <2>1. Registration(d, d).kid = d /\ Registration(d, d).pid = pid[d]
      BY DEF Registration
    <2> QED
      BY <1>5, <1>6, <2>1 DEF DiskerOpens, Kids
  <1>7. ASSUME NEW w \in Workers, NEW d \in Diskers, WorkerOpens(w, d)
        PROVE  Registry'
    <2>1. Search(w, d).kid = w /\ Search(w, d).pid = pid[w]
      BY DEF Search
    <2> QED
      BY <1>5, <1>7, <2>1 DEF WorkerOpens, Kids
  <1>8. ASSUME NEW w \in Workers, NEW p \in Ports, JoinSharedListen(w, p)
        PROVE  Registry'
    <2>1. Listen(w, AddToMap(w), p).kid = w
          /\ Listen(w, AddToMap(w), p).pid = pid[w]
      BY DEF Listen
    <2> QED
      BY <1>5, <1>8, <2>1 DEF JoinSharedListen, Kids
  <1>9. ASSUME NEW k \in Kids, Dies(k)
        PROVE  Registry'
    <2>1. /\ pid' = [pid EXCEPT ![k] = @ + 1]
          /\ registered' = [registered EXCEPT ![k] = FALSE]
          /\ UNCHANGED <<answers, strands, forgotten>>
      BY <1>9 DEF Dies, coordinator
    <2> DEFINE n == [Registration(k, None) EXCEPT !.pid = @ + 1]
    <2>2. requests' = requests \cup {n} /\ n.kid = k /\ n.pid = pid[k] + 1
      BY <1>9 DEF Dies, Sends, Registration
    <2> HIDE DEF n
    <2>3. /\ \A c \in Kids : pid[c] <= pid'[c]
          /\ \A c \in Kids \ {k} : /\ pid'[c] = pid[c]
                                   /\ registered'[c] = registered[c]
          /\ ~registered'[k]
      BY <1>2, <2>1
    <2>4. RegistryGrows'
      BY <1>1, <1>2, <1>4, <2>1, <2>2, <2>3 DEF RegistryGrows
    <2>5. AcksTakenIn'
      <3>1. \A m \in DOMAIN answers : m.kid = k => m.pid <= n.pid
        BY <1>2, <1>3, <2>2
      <3>2. \A m \in requests' : m = n \/ m \in requests
        BY <2>2
      <3>3. \A m \in requests' : registered'[m.kid] => m.pid = pid'[m.kid]
        BY <1>1, <1>3, <2>2, <2>3, <3>2 DEF AcksTakenIn
      <3>4. \A m \in DOMAIN answers : m.type = "registration" =>
               /\ \/ m.kid \in forgotten
                  \/ strands[m.kid] # None /\ m.pid <= strands[m.kid].pid
               /\ \A o \in requests' : o.kid = m.kid => m.pid <= o.pid
        BY <1>1, <2>2, <3>1, <3>2 DEF AcksTakenIn
      <3> QED
        BY <2>1, <3>3, <3>4 DEF AcksTakenIn
    <2>6. RegisteredIsCurrent'
      <3> SUFFICES ASSUME NEW c \in Kids, registered'[c]
                   PROVE  IF c \in forgotten
                          THEN strands[c] = None
                          ELSE strands[c] # None /\ strands[c].pid = pid'[c]
        BY <2>1 DEF RegisteredIsCurrent
      <3>1. c # k /\ registered[c] /\ pid'[c] = pid[c]
        BY <2>3
      <3> QED
        BY <1>1, <3>1 DEF RegisteredIsCurrent
    <2> QED
      BY <1>1, <2>1, <2>4, <2>5, <2>6 DEF Registry, ForgottenUnlisted
  <1>10. ASSUME NEW m \in requests, CoordinatorReceives(m)
         PROVE  Registry'
    <2> PICK k \in Kids, a \in 0..MaxDeaths : k = m.kid /\ a = m.pid
      BY <1>3
    <2>1. /\ requests' \subseteq requests
          /\ \A n \in requests' : n.kid = k => a <= n.pid
          /\ UNCHANGED <<pid, registered>>
      BY <1>3, <1>10 DEF CoordinatorReceives, Outdated, kids
    <2>2. DOMAIN answers' \subseteq DOMAIN answers \cup DOMAIN searchers
                                                  \cup {m}
      BY <1>1, <1>10, CoordinatorAnswers
    <2>3. \A n \in DOMAIN searchers : n.type = "search"
      BY <1>1 DEF MessagesKnown, Searches
    <2>4. CASE m.type = "registration" /\ RegisterStrand(m)
      <3>1. /\ strands'[k] # None /\ strands'[k].pid = a
            /\ \A c \in Kids \ {k} : strands'[c] = strands[c]
        <4>1. m.tag \in Diskers \cup {None}
          BY <1>1, <2>4, Fields DEF MessagesKnown
        <4>2. PICK t \in Diskers \cup {None} :
                  strands' = [strands EXCEPT ![k] = [pid |-> a, tag |-> t]]
          BY <1>2, <2>4, <4>1 DEF RegisterStrand, OldTag, Coords
        <4>3. [pid |-> a, tag |-> t] \in Coords
          BY DEF Coords
        <4> QED
          BY <1>2, <4>2, <4>3
      <3>2. a <= pid[k] /\ (strands[k] # None => strands[k].pid <= a)
        BY <1>1, <1>2 DEF RegistryGrows
      <3>3. forgotten' = forgotten \ {k}
        BY <2>4 DEF RegisterStrand
      <3>4. \A n \in DOMAIN answers :
               (n.type = "registration" /\ n.kid = k) => n.pid <= a
        BY <1>1 DEF AcksTakenIn
      <3>5. RegistryGrows'
        BY <1>1, <2>1, <3>1, <3>2 DEF RegistryGrows
      <3>6. AcksTakenIn'
        <4>1. ASSUME NEW n \in DOMAIN answers', n.type = "registration"
              PROVE  /\ \/ n.kid \in forgotten'
                        \/ /\ strands'[n.kid] # None
                           /\ n.pid <= strands'[n.kid].pid
                     /\ \A o \in requests' : o.kid = n.kid => n.pid <= o.pid
          <5>1. n = m \/ n \in DOMAIN answers
            BY <2>2, <2>3, <4>1
          <5>2. CASE n = m
            BY <2>1, <3>1, <5>2
          <5>3. CASE n \in DOMAIN answers
            BY <1>1, <1>3, <2>1, <3>1, <3>3, <3>4, <4>1, <5>3
               DEF AcksTakenIn
          <5> QED
            BY <5>1, <5>2, <5>3
        <4> QED
          BY <1>1, <2>1, <4>1 DEF AcksTakenIn
      <3>7. ForgottenUnlisted'
        BY <1>1, <1>2, <3>1, <3>3 DEF ForgottenUnlisted
      <3>8. RegisteredIsCurrent'
        <4> SUFFICES ASSUME NEW c \in Kids, registered[c]
                     PROVE  IF c \in forgotten'
                            THEN strands'[c] = None
                            ELSE strands'[c] # None /\ strands'[c].pid = pid[c]
          BY <2>1 DEF RegisteredIsCurrent
        <4>1. CASE c # k
          BY <1>1, <3>1, <3>3, <4>1 DEF RegisteredIsCurrent
        <4>2. CASE c = k
          BY <1>1, <3>1, <3>3, <4>2 DEF AcksTakenIn
        <4> QED
          BY <4>1, <4>2
      <3> QED
        BY <3>5, <3>6, <3>7, <3>8 DEF Registry
    <2>5. CASE m.type # "registration" /\ UNCHANGED <<strands, forgotten>>
      <3>1. RegistryGrows' /\ ForgottenUnlisted' /\ RegisteredIsCurrent'
        BY <1>1, <2>1, <2>5
           DEF RegistryGrows, ForgottenUnlisted, RegisteredIsCurrent
      <3>2. \A n \in DOMAIN answers' : n.type = "registration" =>
               n \in DOMAIN answers
        BY <2>2, <2>3, <2>5
      <3>3. AcksTakenIn'
        BY <1>1, <2>1, <2>5, <3>2 DEF AcksTakenIn
      <3> QED
        BY <3>1, <3>3 DEF Registry
    <2> QED
      BY <1>10, <2>4, <2>5
         DEF CoordinatorReceives, HandleSearchRequest,
             HandleSharedListenRequest
  <1>11. ASSUME NEW m \in BagToSet(answers), StrandReceives(m)
         PROVE  Registry'
    <2>1. /\ m \in DOMAIN answers /\ DOMAIN answers' \subseteq DOMAIN answers
          /\ UNCHANGED <<requests, strands, forgotten, pid>>
      BY <1>1, <1>11, StrandTakes DEF BagToSet, coordinator
    <2>2. RegistryGrows' /\ ForgottenUnlisted'
      BY <1>1, <2>1 DEF RegistryGrows, ForgottenUnlisted
    <2>3. CASE UNCHANGED registered
      BY <1>1, <2>1, <2>2, <2>3
         DEF Registry, AcksTakenIn, RegisteredIsCurrent
    <2>4. CASE /\ m.type = "registration"
               /\ registered' = [registered EXCEPT
                                    ![m.kid] = @ \/ Ack(m.kid, m)]
      <3> PICK k \in Kids, a \in 0..MaxDeaths : k = m.kid /\ a = m.pid
        BY <1>3, <2>1
      <3>1. \A c \in Kids : registered'[c] =>
               registered[c] \/ (c = k /\ a = pid[k])
        BY <1>2, <2>4 DEF Ack
      <3>2. /\ \/ k \in forgotten
               \/ strands[k] # None /\ a <= strands[k].pid
            /\ \A n \in requests : n.kid = k => a <= n.pid
        BY <1>1, <2>1, <2>4 DEF AcksTakenIn
      <3>3. RegisteredIsCurrent'
        <4> SUFFICES ASSUME NEW c \in Kids, registered'[c]
                     PROVE  IF c \in forgotten
                            THEN strands[c] = None
                            ELSE strands[c] # None /\ strands[c].pid = pid[c]
          BY <2>1 DEF RegisteredIsCurrent
        <4>1. CASE registered[c]
          BY <1>1, <4>1 DEF RegisteredIsCurrent
        <4>2. CASE c = k /\ a = pid[k]
          <5>1. CASE k \in forgotten
            BY <1>1, <4>2, <5>1 DEF ForgottenUnlisted
          <5>2. CASE k \notin forgotten
            BY <1>1, <1>2, <1>4, <3>2, <4>2, <5>2 DEF RegistryGrows
          <5> QED
            BY <5>1, <5>2
        <4> QED
          BY <3>1, <4>1, <4>2
      <3>4. AcksTakenIn'
        <4> SUFFICES ASSUME NEW n \in requests, registered'[n.kid]
                     PROVE  n.pid = pid[n.kid]
          BY <1>1, <2>1 DEF AcksTakenIn
        <4>1. n.kid \in Kids /\ n.pid \in 0..MaxDeaths /\ n.pid <= pid[n.kid]
          BY <1>2, <1>3
        <4>2. CASE registered[n.kid]
          BY <1>1, <4>2 DEF AcksTakenIn
        <4>3. CASE n.kid = k /\ a = pid[k]
          <5>1. pid[k] <= n.pid /\ n.pid <= pid[k]
            BY <3>2, <4>1, <4>3
          <5> QED
            BY <1>2, <4>1, <4>3, <5>1
        <4> QED
          BY <3>1, <4>1, <4>2, <4>3
      <3> QED
        BY <2>2, <3>3, <3>4 DEF Registry
    <2> QED
      BY <1>11, <2>3, <2>4 DEF StrandReceives
  <1>12. CASE CoordinatorDies
    <2>1. /\ \A k \in Kids : strands'[k] = None
          /\ forgotten' = forgotten \cup {k \in Kids : strands[k] # None}
          /\ requests' \subseteq requests
          /\ UNCHANGED <<pid, registered, answers>>
      BY <1>12 DEF CoordinatorDies, kids
    <2>2. RegistryGrows' /\ ForgottenUnlisted'
      BY <1>2, <2>1 DEF RegistryGrows, ForgottenUnlisted
    <2>3. AcksTakenIn'
      BY <1>1, <1>3, <2>1 DEF AcksTakenIn
    <2>4. RegisteredIsCurrent'
      BY <1>1, <2>1 DEF RegisteredIsCurrent
    <2> QED
      BY <2>2, <2>3, <2>4 DEF Registry
  <1>13. CASE UNCHANGED vars
    BY <1>1, <1>13 DEF vars, kids, coordinator, Registry, RegistryGrows,
                       AcksTakenIn, ForgottenUnlisted, RegisteredIsCurrent
  <1> QED
    BY <1>6, <1>7, <1>8, <1>9, <1>10, <1>11, <1>12, <1>13 DEF StrandsNext

(* Whoever registers a tag answers the searches for it.                    *)
LEMMA SearchStep ==
    StrandsInv /\ [StrandsNext]_vars => NoForgottenSearch'
  <1> SUFFICES ASSUME StrandsInv, [StrandsNext]_vars
               PROVE  NoForgottenSearch'
    OBVIOUS
  <1> USE StrandsAssumption
  <1>1. MessagesKnown /\ NoForgottenSearch
        /\ strands \in [Kids -> Coords \cup {None}]
    BY DEF StrandsInv, StrandsTypeOK
  <1>2. CASE UNCHANGED coordinator
    BY <1>1, <1>2 DEF coordinator, NoForgottenSearch, BagToSet
  <1>3. ASSUME NEW m \in requests, m.type = "registration", RegisterStrand(m)
        PROVE  NoForgottenSearch'
    <2> DEFINE W == WaitingBag(m.tag)
    <2>1. IsABag(W) /\ IsABag(searchers)
      BY <1>1 DEF MessagesKnown, WaitingBag, Waiting, IsABag, BagToSet
    <2>2. DOMAIN W = {s \in DOMAIN searchers : s.tag = m.tag}
          /\ \A s \in DOMAIN W : W[s] = searchers[s]
      BY DEF WaitingBag, Waiting, BagToSet
    <2> HIDE DEF W
    <2>3. searchers' = searchers (-) W
      BY <1>3 DEF RegisterStrand, W
    <2>4. /\ DOMAIN (searchers (-) W) \subseteq DOMAIN searchers
          /\ \A e \in DOMAIN (searchers (-) W) :
                e \in DOMAIN W => searchers[e] # W[e]
      BY <2>1, TakeBag, Zenon
    <2>5. DOMAIN searchers' \subseteq DOMAIN searchers
          /\ \A s \in DOMAIN searchers' : s.tag # m.tag
      BY <2>2, <2>3, <2>4
    <2>6. m.kid \in Kids /\ m.tag \in Diskers \cup {None}
          /\ m.pid \in 0..MaxDeaths
      BY <1>1, <1>3, Fields DEF MessagesKnown
    <2>7. \A k \in Kids : \/ strands'[k] = strands[k]
                          \/ k = m.kid /\ strands'[k].tag =
                                 OldTag(m.kid, m.tag)
      BY <1>1, <1>3, <2>6 DEF RegisterStrand
    <2>8. \A s \in DOMAIN searchers : s.tag \in Diskers
      BY <1>1 DEF MessagesKnown, Searches
    <2>9. OldTag(m.kid, m.tag) \in {m.tag, None}
          \/ (strands[m.kid] # None
              /\ OldTag(m.kid, m.tag) = strands[m.kid].tag)
      BY DEF OldTag
    <2>10. \A s \in DOMAIN searchers' : s.tag # OldTag(m.kid, m.tag)
      BY <1>1, <2>5, <2>6, <2>8, <2>9 DEF NoForgottenSearch, BagToSet, Kids
    <2> QED
      BY <1>1, <2>5, <2>7, <2>10 DEF NoForgottenSearch, BagToSet
  <1>4. ASSUME NEW m \in requests, HandleSearchRequest(m)
        PROVE  NoForgottenSearch'
    <2> UNCHANGED strands
      BY <1>4 DEF HandleSearchRequest
    <2>1. CASE UNCHANGED searchers
      BY <1>1, <1>4, <2>1 DEF NoForgottenSearch, BagToSet
    <2>2. CASE /\ \A k \in Kids : strands[k] # None => strands[k].tag # m.tag
               /\ searchers' = searchers (+) SetToBag({m})
      <3>1. DOMAIN searchers' = DOMAIN searchers \cup {m}
        BY <1>1, <2>2, AddOne DEF MessagesKnown
      <3> QED
        BY <1>1, <1>4, <2>2, <3>1 DEF NoForgottenSearch, BagToSet
    <2> QED
      BY <1>4, <2>1, <2>2 DEF HandleSearchRequest
  <1>5. ASSUME NEW m \in requests, CoordinatorReceives(m)
        PROVE  NoForgottenSearch'
    <2>1. CASE HandleSharedListenRequest(m)
      BY <1>1, <2>1
         DEF HandleSharedListenRequest, NoForgottenSearch, BagToSet
    <2> QED
      BY <1>3, <1>4, <1>5, <2>1 DEF CoordinatorReceives
  <1>6. ASSUME NEW m \in BagToSet(answers), StrandReceives(m)
        PROVE  NoForgottenSearch'
    BY <1>2, <1>6 DEF StrandReceives
  <1>7. CASE CoordinatorDies
    BY <1>7, NoCopies DEF CoordinatorDies, NoForgottenSearch, BagToSet
  <1> QED
    BY <1>2, <1>5, <1>6, <1>7 DEF StrandsNext, DiskerOpens, WorkerOpens,
       JoinSharedListen, Dies, vars

(* A port enters the request map once.                                     *)
LEMMA PortsStep ==
    StrandsInv /\ [StrandsNext]_vars => PortsApart'
  <1> SUFFICES ASSUME StrandsInv, [StrandsNext]_vars
               PROVE  PortsApart'
    OBVIOUS
  <1> USE StrandsAssumption
  <1>1. /\ MessagesKnown /\ PortsApart /\ StrandsTypeOK
        /\ pending \in [Workers -> [Ids -> Ports \cup {None}]]
    BY DEF StrandsInv, StrandsTypeOK
  <1>2. CASE UNCHANGED pending
    BY <1>1, <1>2 DEF PortsApart
  <1>3. ASSUME NEW w \in Workers, NEW p \in Ports, JoinSharedListen(w, p)
        PROVE  PortsApart'
    <2>1. PICK i \in Ids : i = AddToMap(w) /\ pending[w][i] = None
      BY <1>1, <1>3, FreeId DEF JoinSharedListen, Wants
    <2>2. pending' = [pending EXCEPT ![w][i] = p]
          /\ \A j \in Ids : pending[w][j] # p
      BY <1>3, <2>1 DEF JoinSharedListen, Wants
    <2> QED
      BY <1>1, <2>1, <2>2 DEF PortsApart
  <1>4. ASSUME NEW k \in Kids, Dies(k)
        PROVE  PortsApart'
    <2>1. \A w \in Workers, i \in Ids :
             pending'[w][i] = None \/ pending'[w] = pending[w]
      BY <1>1, <1>4 DEF Dies
    <2> QED
      BY <1>1, <2>1 DEF PortsApart
  <1>5. ASSUME NEW m \in BagToSet(answers), StrandReceives(m)
        PROVE  PortsApart'
    <2>1. UNCHANGED pending
          \/ (m.type = "listen"
              /\ pending' = [pending EXCEPT ![m.kid][m.id] = None])
      BY <1>5 DEF StrandReceives, SharedListenJoined
    <2>2. m.type = "listen" => m.kid \in Workers /\ m.id \in Ids
      BY <1>1, Fields DEF MessagesKnown, BagToSet
    <2>3. \A w \in Workers, i \in Ids :
             pending'[w][i] \in {None, pending[w][i]}
      BY <1>1, <2>1, <2>2
    <2> QED
      BY <1>1, <2>3 DEF PortsApart
  <1>6. ASSUME NEW m \in requests, CoordinatorReceives(m)
        PROVE  PortsApart'
    BY <1>2, <1>6 DEF CoordinatorReceives, kids
  <1> QED
    BY <1>2, <1>3, <1>4, <1>5, <1>6
       DEF StrandsNext, DiskerOpens, WorkerOpens, CoordinatorDies, vars, kids

(* The answers to the listen requests of one life find it waiting.         *)
LEMMA ListenStep ==
    StrandsInv /\ [StrandsNext]_vars => ListensTracked' /\ ListensAsAsked'
  <1> SUFFICES ASSUME StrandsInv, [StrandsNext]_vars
               PROVE  ListensTracked' /\ ListensAsAsked'
    OBVIOUS
  <1> USE StrandsAssumption
  <1>1. /\ MessagesKnown /\ StrandsTypeOK /\ PortsApart
        /\ ListensTracked /\ ListensAsAsked
    BY DEF StrandsInv
  <1>2. /\ pid \in [Kids -> 0..MaxDeaths]
        /\ pending \in [Workers -> [Ids -> Ports \cup {None}]]
        /\ socket \in [Workers -> [Ports -> Ports \cup {None}]]
        /\ listening \in [Kids -> BOOLEAN]
        /\ orphaned \in SUBSET Workers
    BY <1>1 DEF StrandsTypeOK
  (* Anything but a listen request may be sent. *)
  <1>3. ASSUME NEW m, m.type # "listen", Sends(m),
               UNCHANGED <<pid, listening, pending, socket, orphaned, answers>>
        PROVE  ListensTracked' /\ ListensAsAsked'
    <2>1. ListensTracked'
      BY <1>1, <1>3 DEF Sends, ListensTracked
    <2>2. ListensAsAsked'
      BY <1>1, <1>3 DEF ListensAsAsked
    <2> QED
      BY <2>1, <2>2
  <1>4. ASSUME NEW d \in Diskers, DiskerOpens(d)
        PROVE  ListensTracked' /\ ListensAsAsked'
    <2>1. Registration(d, d).type # "listen"
      BY DEF Registration
    <2> QED
      BY <1>3, <1>4, <2>1 DEF DiskerOpens
  <1>5. ASSUME NEW w \in Workers, NEW d \in Diskers, WorkerOpens(w, d)
        PROVE  ListensTracked' /\ ListensAsAsked'
    <2>1. Search(w, d).type # "listen"
      BY DEF Search
    <2> QED
      BY <1>3, <1>5, <2>1 DEF WorkerOpens
  <1>6. ASSUME NEW w \in Workers, NEW p \in Ports, JoinSharedListen(w, p)
        PROVE  ListensTracked' /\ ListensAsAsked'
    <2>1. PICK i \in Ids : i = AddToMap(w) /\ pending[w][i] = None
      BY <1>1, <1>6, FreeId DEF JoinSharedListen, Wants
    <2> DEFINE n == Listen(w, i, p)
    <2>2. /\ requests' = requests \cup {n}
          /\ pending' = [pending EXCEPT ![w][i] = p]
          /\ UNCHANGED <<pid, listening, socket, orphaned, answers>>
      BY <1>6, <2>1 DEF JoinSharedListen, Sends
    <2>3. n.kid = w /\ n.pid = pid[w] /\ n.id = i /\ n.tag = p
          /\ n.type = "listen"
      BY DEF Listen
    <2> HIDE DEF n
    <2>4. ListensAsAsked'
      BY <1>1, <2>2 DEF ListensAsAsked
    <2>5. \A m \in requests \cup DOMAIN answers :
             (m.type = "listen" /\ m.kid \notin orphaned)
                 => m.tag # None /\ m.kid \in Workers /\ m.id \in Ids
      BY <1>1, Fields DEF MessagesKnown
    <2>6. \A m \in requests \cup DOMAIN answers :
             (m.type = "listen" /\ m.kid \notin orphaned /\ m.kid = w)
                 => m.id # i
      BY <1>1, <2>1, <2>5 DEF ListensTracked
    <2>7. w \notin orphaned => n \notin DOMAIN answers
      BY <2>3, <2>6
    <2>8. ListensTracked'
      <3> SUFFICES ASSUME NEW v \in Workers \ orphaned
                   PROVE  /\ \A m \in requests' \cup DOMAIN answers :
                                (m.kid = v /\ m.type = "listen") =>
                                    m.pid = pid[v]
                                    /\ pending'[v][m.id] = m.tag
                          /\ \A m \in DOMAIN answers :
                                (m.kid = v /\ m.type = "listen") =>
                                    m \notin requests' /\ answers[m] = 1
        BY <2>2 DEF ListensTracked
      <3>1. \A j \in Ids : (v # w \/ j # i) => pending'[v][j] = pending[v][j]
        BY <1>2, <2>2
      <3>2. pending'[w][i] = p
        BY <1>2, <2>2
      <3>3. ASSUME NEW m \in requests \cup DOMAIN answers, m.kid = v,
                   m.type = "listen"
            PROVE  m.pid = pid[v] /\ pending'[v][m.id] = m.tag
        BY <1>1, <2>5, <2>6, <3>1, <3>3 DEF ListensTracked
      <3> QED
        BY <1>1, <2>2, <2>3, <2>7, <3>2, <3>3 DEF ListensTracked
    <2> QED
      BY <2>4, <2>8
  <1>7. ASSUME NEW k \in Kids, Dies(k)
        PROVE  ListensTracked' /\ ListensAsAsked'
    <2> DEFINE n == [Registration(k, None) EXCEPT !.pid = @ + 1]
    <2>1. requests' = requests \cup {n} /\ n.type # "listen"
          /\ UNCHANGED answers
      BY <1>7 DEF Dies, Sends, Registration
    <2> HIDE DEF n
    <2> SUFFICES ASSUME NEW w \in Workers \ orphaned'
                 PROVE  /\ \A m \in requests' \cup DOMAIN answers :
                              (m.kid = w /\ m.type = "listen") =>
                                  m.pid = pid'[w]
                                  /\ pending'[w][m.id] = m.tag
                        /\ \A m \in DOMAIN answers :
                              (m.kid = w /\ m.type = "listen") =>
                                  m \notin requests' /\ answers[m] = 1
                        /\ listening'[w]
                        /\ \A p \in Ports : socket'[w][p] \in {p, None}
      BY <2>1 DEF ListensTracked, ListensAsAsked
    <2>2. w \in Workers \ orphaned /\ w \in Kids
          /\ (w = k => ~ListensUnderWay(w))
      BY <1>7 DEF Dies, Kids
    <2>3. CASE w = k
      <3>1. \A m \in requests' \cup DOMAIN answers :
               ~(m.kid = w /\ m.type = "listen")
        BY <2>1, <2>2, <2>3 DEF ListensUnderWay, BagToSet
      <3>2. listening'[w] /\ \A p \in Ports : socket'[w][p] = None
        BY <1>2, <1>7, <2>2, <2>3 DEF Dies
      <3> QED
        BY <3>1, <3>2
    <2>4. CASE w # k
      <3>1. /\ pid'[w] = pid[w] /\ listening'[w] = listening[w]
            /\ pending'[w] = [i \in Ids |-> pending[w][i]]
            /\ socket'[w] = [p \in Ports |-> socket[w][p]]
        BY <1>2, <1>7, <2>2, <2>4 DEF Dies
      <3>2. pending'[w] = pending[w] /\ socket'[w] = socket[w]
        BY <1>2, <3>1
      <3> QED
        BY <1>1, <2>1, <2>2, <3>1, <3>2 DEF ListensTracked, ListensAsAsked
    <2> QED
      BY <2>3, <2>4
  <1>8. ASSUME NEW m \in requests, CoordinatorReceives(m)
        PROVE  ListensTracked' /\ ListensAsAsked'
    <2>1. /\ requests' \subseteq requests \ {m}
          /\ UNCHANGED <<pid, listening, pending, socket, orphaned>>
      BY <1>8 DEF CoordinatorReceives, kids
    <2>2. /\ DOMAIN answers' \subseteq
                 DOMAIN answers \cup DOMAIN searchers \cup {m}
          /\ \A n \in DOMAIN answers' : n.type = "listen" =>
                 \/ n # m /\ n \in DOMAIN answers /\ answers'[n] = answers[n]
                 \/ n = m /\ (m \notin DOMAIN answers => answers'[n] = 1)
      BY <1>1, <1>8, CoordinatorAnswers
    <2>3. ListensAsAsked'
      BY <1>1, <2>1 DEF ListensAsAsked
    <2>4. ListensTracked'
      <3> SUFFICES ASSUME NEW w \in Workers \ orphaned
                   PROVE  /\ \A n \in requests' \cup DOMAIN answers' :
                                (n.kid = w /\ n.type = "listen") =>
                                    n.pid = pid[w]
                                    /\ pending[w][n.id] = n.tag
                          /\ \A n \in DOMAIN answers' :
                                (n.kid = w /\ n.type = "listen") =>
                                    n \notin requests' /\ answers'[n] = 1
        BY <2>1 DEF ListensTracked
      <3>1. \A n \in DOMAIN answers : (n.kid = w /\ n.type = "listen") =>
               n \notin requests /\ answers[n] = 1
        BY <1>1 DEF ListensTracked
      <3>2. \A n \in DOMAIN answers' : (n.kid = w /\ n.type = "listen") =>
               n \notin requests' /\ answers'[n] = 1
        BY <2>1, <2>2, <3>1
      <3> QED
        BY <1>1, <2>1, <2>2, <3>2 DEF ListensTracked
    <2> QED
      BY <2>3, <2>4
  <1>9. ASSUME NEW m \in BagToSet(answers), StrandReceives(m)
        PROVE  ListensTracked' /\ ListensAsAsked'
    <2>1. /\ m \in DOMAIN answers
          /\ DOMAIN answers' \subseteq DOMAIN answers
          /\ \A n \in DOMAIN answers' : n # m => answers'[n] = answers[n]
          /\ answers[m] = 1 => m \notin DOMAIN answers'
          /\ UNCHANGED <<requests, pid, orphaned>>
      BY <1>1, <1>9, StrandTakes DEF BagToSet
    <2>2. /\ m.type = "listen" => /\ m.tag \in Ports /\ m.id \in Ids
                                  /\ m.kid \in Workers
      BY <1>1, <2>1, Fields DEF MessagesKnown
    <2>3. CASE m.type # "listen"
      <3>1. UNCHANGED <<listening, pending, socket>>
        BY <1>9, <2>3 DEF StrandReceives
      <3>2. ListensTracked'
        BY <1>1, <2>1, <2>3, <3>1 DEF ListensTracked
      <3> QED
        BY <1>1, <2>1, <3>1, <3>2 DEF ListensAsAsked
    <2>4. CASE m.type = "listen"
      <3> PICK v \in Workers, i \in Ids, p \in Ports :
             v = m.kid /\ i = m.id /\ p = m.tag
        BY <2>2, <2>4
      <3>1. SharedListenJoined(v, m)
        BY <1>9, <2>4 DEF StrandReceives
      <3> SUFFICES ASSUME NEW w \in Workers \ orphaned
                   PROVE  /\ \A n \in requests \cup DOMAIN answers' :
                                (n.kid = w /\ n.type = "listen") =>
                                    n.pid = pid[w]
                                    /\ pending'[w][n.id] = n.tag
                          /\ \A n \in DOMAIN answers' :
                                (n.kid = w /\ n.type = "listen") =>
                                    n \notin requests /\ answers'[n] = 1
                          /\ listening'[w]
                          /\ \A q \in Ports : socket'[w][q] \in {q, None}
        BY <2>1 DEF ListensTracked, ListensAsAsked
      <3>2. CASE w # v
        <4>1. pending'[w] = pending[w] /\ socket'[w] = socket[w]
              /\ listening'[w] = listening[w]
          BY <1>2, <3>1, <3>2 DEF SharedListenJoined, Kids
        <4>2. \A n \in DOMAIN answers' : (n.kid = w /\ n.type = "listen") =>
                 answers'[n] = answers[n]
          BY <2>1, <3>2
        <4> QED
          BY <1>1, <2>1, <4>1, <4>2 DEF ListensTracked, ListensAsAsked
      <3>3. CASE w = v
        <4>1. pending[w][i] = p /\ answers[m] = 1 /\ m.pid = pid[w]
              /\ m \notin requests
          BY <1>1, <2>1, <2>4, <3>3 DEF ListensTracked
        <4>2. /\ pending' = [pending EXCEPT ![w][i] = None]
              /\ socket' = [socket EXCEPT ![w][p] = p]
              /\ UNCHANGED listening
          BY <3>1, <3>3, <4>1 DEF SharedListenJoined
        <4>3. \A n \in requests \cup DOMAIN answers' :
                 n \in requests \cup DOMAIN answers /\ n # m
          BY <2>1, <4>1
        <4>4. ASSUME NEW n \in requests \cup DOMAIN answers', n.kid = w,
                     n.type = "listen"
              PROVE  n.id \in Ids \ {i}
          <5>1. n \in Listens /\ m \in Listens
            BY <1>1, <2>1, <2>4, <4>3, <4>4
               DEF MessagesKnown, Registrations, Searches
          <5>2. n.pid = pid[w] /\ pending[w][n.id] = n.tag
            BY <1>1, <4>3, <4>4 DEF ListensTracked
          <5>3. n.id = i => n = m
            BY <3>3, <4>1, <4>4, <5>1, <5>2 DEF Listens
          <5> QED
            BY <4>3, <5>1, <5>3 DEF Listens
        <4>5. \A j \in Ids \ {i} : pending'[w][j] = pending[w][j]
          BY <1>2, <4>2
        <4>6. \A q \in Ports : socket'[w][q] \in {q, None}
          BY <1>1, <1>2, <4>2 DEF ListensAsAsked
        <4>7. listening'[w]
          BY <1>1, <4>2 DEF ListensAsAsked
        <4>8. \A n \in requests \cup DOMAIN answers' :
                 (n.kid = w /\ n.type = "listen") =>
                     n.pid = pid[w] /\ pending'[w][n.id] = n.tag
          BY <1>1, <4>3, <4>4, <4>5 DEF ListensTracked
        <4>9. \A n \in DOMAIN answers' : (n.kid = w /\ n.type = "listen") =>
                 n \notin requests /\ answers'[n] = 1
          BY <1>1, <2>1, <4>3 DEF ListensTracked
        <4> QED
          BY <4>6, <4>7, <4>8, <4>9
      <3> QED
        BY <3>2, <3>3
    <2> QED
      BY <2>3, <2>4
  <1>10. CASE UNCHANGED vars
    BY <1>1, <1>10 DEF vars, kids, ListensTracked, ListensAsAsked
  <1>11. CASE CoordinatorDies
    <2>1. requests' \subseteq requests /\ UNCHANGED <<kids, answers>>
      BY <1>11 DEF CoordinatorDies
    <2> QED
      BY <1>1, <2>1 DEF kids, ListensTracked, ListensAsAsked
  <1> QED
    BY <1>4, <1>5, <1>6, <1>7, <1>8, <1>9, <1>10, <1>11 DEF StrandsNext

(* The invariant holds of every reachable state.                           *)
LEMMA StrandsAlways == StrandsSpec => []StrandsInv
  <1>1. StrandsInv /\ [StrandsNext]_vars => StrandsInv'
    BY TypeStep, RegistryStep, SearchStep, PortsStep, ListenStep
       DEF StrandsInv
  <1> QED
    BY <1>1, StrandsInitially, PTL DEF StrandsSpec

-----------------------------------------------------------------------------
(* The coordinator's list, the mail and the kids keep their types.         *)
THEOREM StrandsTypes == StrandsSpec => []StrandsTypeOK
  <1>1. StrandsInv => StrandsTypeOK
    BY DEF StrandsInv
  <1> QED
    BY <1>1, StrandsAlways, PTL

(***************************************************************************)
(* Registration is safe for every set of kids and every number of deaths:  *)
(* a kid that got its acknowledgement is the one whose pid the coordinator *)
(* keeps, until a coordinator dies; its successors do not list that kid,   *)
(* rather than list it wrongly, until it registers again.                  *)
(***************************************************************************)
THEOREM RegistrySafe == StrandsSpec => []RegisteredIsCurrent
  <1>1. StrandsInv => RegisteredIsCurrent
    BY DEF StrandsInv, Registry
  <1> QED
    BY <1>1, StrandsAlways, PTL

(* Nobody that searches for the strand of a db file is left waiting once   *)
(* the coordinator knows it, in whatever order searches and registrations  *)
(* come, those of successors of dead kids included.                        *)
THEOREM SearchesSafe == StrandsSpec => []NoForgottenSearch
  <1>1. StrandsInv => NoForgottenSearch
    BY DEF StrandsInv
  <1> QED
    BY <1>1, StrandsAlways, PTL

(***************************************************************************)
(* Every port of a worker gets its own listening socket, and its strand    *)
(* never ends, unless the worker's predecessor died in the middle of a     *)
(* listen request.                                                         *)
(***************************************************************************)
THEOREM ListensSafe == StrandsSpec => []ListensAsAsked
  <1>1. StrandsInv => ListensAsAsked
    BY DEF StrandsInv
  <1> QED
    BY <1>1, StrandsAlways, PTL
=============================================================================
