--------------------------- MODULE ProduceProofs ----------------------------
(***************************************************************************)
(* Theorems about idempotent production, for any number of clients, sends  *)
(* and batches: every step preserves the invariant of SendProofs, and the  *)
(* log implements ExactlyOnceLog.                                          *)
(***************************************************************************)
EXTENDS SendProofs

----------------------------------------------------------------------------
(* The steps preserve the invariant *)

\* The oldest unanswered send, or the next one.
LEMMA OldestIsLeast ==
  ASSUME NEW sent \in Nat, NEW unanswered, unanswered \subseteq 1..sent
  PROVE  /\ Min(unanswered \cup {sent + 1}) \in Nat
         /\ Min(unanswered \cup {sent + 1}) \in unanswered \cup {sent + 1}
         /\ \A n \in unanswered \cup {sent + 1} : Min(unanswered \cup {sent + 1}) <= n
<1> DEFINE all == unanswered \cup {sent + 1}
<1>1. all \subseteq Nat /\ all # {}
  OBVIOUS
<1> HIDE DEF all
<1>2. Min(all) \in all /\ \A n \in all : Min(all) <= n
  BY <1>1, MinOfNaturals
<1> QED
  BY <1>1, <1>2 DEF all

\* Steps that leave the log and the ids alone leave what they say of each other.
LEMMA SameLog ==
  ASSUME ProduceInv, log' = log, \A d \in Client : client'[d].id = client[d].id
  PROVE  /\ LogInv' /\ IdsAreUnique'
         /\ \A d \in Client : \A k \in Nat : HasStored(d, k) => HasStored(d, k)'
         /\ confirmed' = confirmed => ConfirmedOffsetIsTrue'
<1>1. LogInv'
  BY DEF ProduceInv, LogInv, IsLog, Contiguous, OriginsDiffer
<1>2. IdsAreUnique'
  BY DEF ProduceInv, IdsAreUnique
<1>3. ASSUME NEW d \in Client, NEW k \in Nat, HasStored(d, k)
      PROVE  HasStored(d, k)'
  BY <1>3 DEF HasStored, IsStored, StateAfter, Entry, OffsetOf
<1>4. confirmed' = confirmed => ConfirmedOffsetIsTrue'
  BY DEF ProduceInv, ConfirmedOffsetIsTrue, IsStored, OffsetOf
<1> QED
  BY <1>1, <1>2, <1>3, <1>4

\* A step that moves a client's own numbers only.
LEMMA ClientStep ==
  ASSUME ProduceInv, UNCHANGED <<next_id, epochs, log, confirmed>>,
         client' \in [Client -> [id : Nat, sent : Nat, unanswered : SUBSET Nat]],
         wire' \in [Client -> SUBSET Nat],
         \A d \in Client : client'[d].id = client[d].id,
         \A d \in Client : ClientInv(d)',
         \A d \in Client : /\ client[d].sent <= client'[d].sent
                           /\ \A n \in 1..client'[d].sent : n \notin client'[d].unanswered
                                => n \in 1..client[d].sent /\ n \notin client[d].unanswered
  PROVE  ProduceInv'
<1>1. /\ LogInv' /\ IdsAreUnique' /\ ConfirmedOffsetIsTrue'
      /\ \A d \in Client : \A k \in Nat : HasStored(d, k) => HasStored(d, k)'
  BY SameLog
<1>2. ASSUME NEW d \in Client
      PROVE  Progress(d)'
  <2>1. client[d].sent \in Nat /\ client'[d].sent \in Nat
    BY DEF ProduceInv
  <2>2. PICK k \in 0..client[d].sent :
          /\ HasStored(d, k)
          /\ \A n \in 1..client[d].sent : n \notin client[d].unanswered => n <= k
    BY DEF ProduceInv, Progress
  <2>3. k \in 0..client'[d].sent /\ k \in Nat
    BY <2>1
  <2>4. HasStored(d, k)'
    BY <1>1, <2>2, <2>3
  <2> QED
    BY <2>2, <2>3, <2>4 DEF Progress
<1> QED
  BY <1>1, <1>2 DEF ProduceInv

\* A client that asks for an id gets one that nobody has, or loses it.
LEMMA InitProducerIdKeeps ==
  ASSUME ProduceInv, NEW c \in Client, InitProducerId(c)
  PROVE  ProduceInv'
<1>1. /\ next_id \in Nat /\ next_id' = next_id + 1 /\ next_id + 1 <= MaxProducerId
      /\ log' = log /\ wire' = wire /\ confirmed' = confirmed
      /\ client[c].id = NoId
  BY DEF ProduceInv, InitProducerId, Allocate
<1>2. /\ client \in [Client -> [id : Nat, sent : Nat, unanswered : SUBSET Nat]]
      /\ \A d \in Client : ClientInv(d) /\ Progress(d)
  BY DEF ProduceInv
<1>3. next_id' \in 0..MaxProducerId /\ epochs' \in [1..next_id' -> {0}]
  <2>1. epochs \in [1..next_id -> {0}] /\ epochs' = [p \in DOMAIN epochs \cup {next_id + 1} |->
                                                   IF p = next_id + 1 THEN 0 ELSE epochs[p]]
    BY DEF ProduceInv, InitProducerId, Allocate
  <2>2. 1..next_id' = 1..next_id \cup {next_id + 1} /\ MaxProducerId \in Nat
    BY <1>1, ClientAssumption
  <2> QED
    BY <1>1, <2>1, <2>2
<1>4. /\ \A d \in Client : /\ client'[d].id \in {client[d].id, next_id + 1}
                           /\ d # c => client'[d].id = client[d].id
                           /\ client'[d].sent = client[d].sent
                           /\ client'[d].unanswered = client[d].unanswered
      /\ client' \in [Client -> [id : Nat, sent : Nat, unanswered : SUBSET Nat]]
  <2>1. client' = client \/ client' = [client EXCEPT ![c].id = next_id + 1]
    BY DEF InitProducerId
  <2>2. CASE client' = client
    BY <1>2, <2>2
  <2>3. CASE client' = [client EXCEPT ![c].id = next_id + 1]
    BY <1>1, <1>2, <2>3
  <2> QED
    BY <2>1, <2>2, <2>3
<1>5. \A d \in Client : client[d].id \in 0..next_id
  BY <1>2 DEF ClientInv
<1>6. \A p \in DOMAIN log.producers : p # NoId /\ \E d \in Client : client[d].id = p
  BY DEF ProduceInv, LogInv
<1>7. next_id + 1 \notin DOMAIN log.producers
  BY <1>1, <1>5, <1>6
<1>8. LogInv'
  <2>1. \A p \in DOMAIN log.producers : p # NoId /\ \E d \in Client : client'[d].id = p
    BY <1>1, <1>4, <1>6
  <2> QED
    BY <1>1, <2>1 DEF ProduceInv, LogInv, IsLog, Contiguous, OriginsDiffer
<1>9. ASSUME NEW d \in Client
      PROVE  ClientInv(d)'
  <2>1. client'[d].id \in 0..next_id' /\ (client[d].id # NoId => client'[d].id # NoId)
    BY <1>1, <1>4, <1>5 DEF NoId
  <2>2. Oldest(d)' = Oldest(d)
    BY <1>4 DEF Oldest
  <2> QED
    BY <1>1, <1>2, <1>4, <2>1, <2>2 DEF ClientInv
<1>10. ASSUME NEW d \in Client
       PROVE  Progress(d)'
  <2>1. PICK k \in 0..client[d].sent :
          /\ HasStored(d, k)
          /\ \A n \in 1..client[d].sent : n \notin client[d].unanswered => n <= k
    BY <1>2 DEF Progress
  <2>2. CASE client'[d].id = client[d].id
    <3>1. HasStored(d, k)'
      BY <1>1, <2>1, <2>2 DEF HasStored, IsStored, StateAfter, Entry, OffsetOf
    <3> QED
      BY <1>4, <2>1, <3>1 DEF Progress
  <2>3. CASE client'[d].id # client[d].id
    <3>1. client'[d].id = next_id + 1 /\ client[d].id = NoId
      BY <1>1, <1>4, <2>3
    <3>2. client[d].sent = 0
      BY <1>2, <3>1 DEF ClientInv
    <3>3. k = 0
      BY <3>2
    <3>4. HasStored(d, k)'
      BY <1>1, <1>7, <2>1, <3>1, <3>3 DEF HasStored, IsStored
    <3> QED
      BY <1>4, <2>1, <3>4 DEF Progress
  <2> QED
    BY <2>2, <2>3
<1>11. IdsAreUnique'
  <2>1. \A d, e \in Client : client[d].id = client[e].id /\ client[d].id # NoId => d = e
    BY DEF ProduceInv, IdsAreUnique
  <2>2. \A d \in Client : client[d].id # next_id + 1
    BY <1>1, <1>5
  <2> QED
    BY <1>1, <1>4, <2>1, <2>2 DEF IdsAreUnique
<1>12. ConfirmedOffsetIsTrue'
  BY <1>1 DEF ProduceInv, ConfirmedOffsetIsTrue, IsStored, OffsetOf
<1> QED
  BY <1>1, <1>3, <1>4, <1>8, <1>9, <1>10, <1>11, <1>12 DEF ProduceInv

\* A new send is the latest one, and the window says it may be sent.
LEMMA SendKeeps ==
  ASSUME ProduceInv, NEW c \in Client, Send(c)
  PROVE  ProduceInv'
<1> DEFINE sent == client[c].sent
           u == client[c].unanswered
<1>1. /\ client \in [Client -> [id : Nat, sent : Nat, unanswered : SUBSET Nat]]
      /\ wire \in [Client -> SUBSET Nat]
      /\ \A d \in Client : ClientInv(d)
  BY DEF ProduceInv
<1>2. /\ UNCHANGED <<next_id, epochs, log, confirmed>>
      /\ client[c].id # NoId /\ sent < Sends[c] /\ sent + 1 - Oldest(c) < MaxInFlight
      /\ client' = [client EXCEPT ![c].sent = @ + 1, ![c].unanswered = @ \cup {sent + 1}]
      /\ wire' = [wire EXCEPT ![c] = @ \cup {sent + 1}]
  BY DEF Send
<1>3. /\ client' \in [Client -> [id : Nat, sent : Nat, unanswered : SUBSET Nat]]
      /\ wire' \in [Client -> SUBSET Nat]
      /\ \A d \in Client : client'[d].id = client[d].id
      /\ \A d \in Client \ {c} : client'[d] = client[d] /\ wire'[d] = wire[d]
      /\ client'[c].sent = sent + 1 /\ client'[c].unanswered = u \cup {sent + 1}
      /\ wire'[c] = wire[c] \cup {sent + 1}
  <2>1. client[c] \in [id : Nat, sent : Nat, unanswered : SUBSET Nat]
    BY <1>1
  <2>2. DOMAIN client' = Client /\ \A d \in Client \ {c} : client'[d] = client[d]
    BY <1>1, <1>2
  <2>3. client'[c] = [client[c] EXCEPT !.sent = @ + 1, !.unanswered = @ \cup {sent + 1}]
    BY <1>1, <1>2
  <2>4. client'[c] = [id |-> client[c].id, sent |-> sent + 1, unanswered |-> u \cup {sent + 1}]
    BY <2>1, <2>3
  <2>5. client'[c] \in [id : Nat, sent : Nat, unanswered : SUBSET Nat]
    BY <2>1, <2>4
  <2>6. client' = [d \in Client |-> client'[d]]
    BY <1>1, <1>2
  <2>7. client' \in [Client -> [id : Nat, sent : Nat, unanswered : SUBSET Nat]]
    BY <1>1, <2>2, <2>5, <2>6
  <2>8. /\ wire' \in [Client -> SUBSET Nat] /\ wire'[c] = wire[c] \cup {sent + 1}
        /\ \A d \in Client \ {c} : wire'[d] = wire[d]
    BY <1>1, <1>2, <2>1
  <2> QED
    BY <2>2, <2>4, <2>7, <2>8
<1>4. sent \in Nat /\ u \subseteq 1..sent /\ Sends[c] \in Nat /\ MaxInFlight \in Nat \ {0}
      /\ MaxDelay \in Nat /\ wire[c] \subseteq 1..sent
      /\ \A m \in wire[c] : m >= Oldest(c) - MaxDelay
  BY <1>1, SendsAssumption, LayoutAssumption, ClientAssumption DEF ClientInv
<1>5. /\ Oldest(c) \in Nat /\ Oldest(c) \in u \cup {sent + 1}
      /\ \A n \in u \cup {sent + 1} : Oldest(c) <= n
  BY <1>4, OldestIsLeast DEF Oldest
<1>6. /\ Oldest(c)' \in Nat
      /\ \A n \in u \cup {sent + 1} : Oldest(c)' <= n
  <2>1. Oldest(c)' = Min((u \cup {sent + 1}) \cup {(sent + 1) + 1})
    BY <1>3 DEF Oldest
  <2>2. sent + 1 \in Nat /\ u \cup {sent + 1} \subseteq 1..(sent + 1)
    BY <1>4
  <2> DEFINE v == u \cup {sent + 1}
             s == sent + 1
  <2> HIDE DEF v, s
  <2>3. s \in Nat /\ v \subseteq 1..s
    BY <2>2 DEF v, s
  <2>4. Min(v \cup {s + 1}) \in Nat /\ \A n \in v \cup {s + 1} : Min(v \cup {s + 1}) <= n
    BY <2>3, OldestIsLeast
  <2> QED
    BY <2>1, <2>4 DEF v, s
<1>7. ClientInv(c)'
  <2> HIDE DEF u, sent
  <2>1. client'[c].id \in 0..next_id' /\ client'[c].id # NoId
    BY <1>1, <1>2, <1>3 DEF ClientInv
  <2>2. client'[c].sent \in 0..Sends[c]
    BY <1>2, <1>3, <1>4
  <2>3. client'[c].unanswered \subseteq 1..client'[c].sent
        /\ wire'[c] \subseteq 1..client'[c].sent
    BY <1>3, <1>4
  <2>4. \A n \in client'[c].unanswered : client'[c].sent - n < MaxInFlight
    BY <1>2, <1>3, <1>4, <1>5
  <2>5. Oldest(c)' <= Oldest(c) /\ Oldest(c)' <= sent + 1
    BY <1>5, <1>6
  <2>6. \A m \in wire'[c] : m >= Oldest(c)' - MaxDelay
    BY <2>5, <1>3, <1>4, <1>5, <1>6
  <2> QED
    BY <2>1, <2>2, <2>3, <2>4, <2>6 DEF ClientInv
<1>8. ASSUME NEW d \in Client, d # c
      PROVE  ClientInv(d)'
  <2>1. ClientInv(d) /\ client'[d] = client[d] /\ wire'[d] = wire[d] /\ next_id' = next_id
    BY <1>1, <1>2, <1>3, <1>8
  <2> QED
    BY <2>1 DEF ClientInv, Oldest
<1>9. \A d \in Client : ClientInv(d)'
  BY <1>7, <1>8
<1>10. ASSUME NEW d \in Client
       PROVE  /\ client[d].sent <= client'[d].sent
              /\ \A n \in 1..client'[d].sent : n \notin client'[d].unanswered
                   => n \in 1..client[d].sent /\ n \notin client[d].unanswered
  <2>1. CASE d = c
    <3>1. sent \in Nat /\ client'[c].sent = sent + 1 /\ client'[c].unanswered = u \cup {sent + 1}
      BY <1>3, <1>4
    <3> HIDE DEF sent, u
    <3>2. sent <= sent + 1
      BY <3>1
    <3>3. \A n \in 1..(sent + 1) : n \notin u \cup {sent + 1} => n \in 1..sent /\ n \notin u
      BY <3>1
    <3> QED
      BY <2>1, <3>1, <3>2, <3>3 DEF sent, u
  <2>2. CASE d # c
    <3>1. client'[d] = client[d] /\ client[d].sent \in Nat
      BY <1>1, <1>3, <2>2
    <3> QED
      BY <3>1
  <2> QED
    BY <2>1, <2>2
<1> QED
  BY <1>2, <1>3, <1>9, <1>10, ClientStep

\* Copies come and go within the sends that may be on their way.
LEMMA WireStep ==
  ASSUME ProduceInv, UNCHANGED <<next_id, epochs, log, client, confirmed>>,
         NEW c \in Client, NEW w, wire' = [wire EXCEPT ![c] = w],
         w \subseteq wire[c] \cup client[c].unanswered
  PROVE  ProduceInv'
<1>1. /\ client \in [Client -> [id : Nat, sent : Nat, unanswered : SUBSET Nat]]
      /\ wire \in [Client -> SUBSET Nat]
      /\ \A d \in Client : ClientInv(d)
  BY DEF ProduceInv
<1>2. /\ wire' \in [Client -> SUBSET Nat] /\ wire'[c] = w
      /\ \A d \in Client \ {c} : wire'[d] = wire[d]
  BY <1>1
<1>3. client[c].sent \in Nat /\ client[c].unanswered \subseteq 1..client[c].sent
      /\ wire[c] \subseteq 1..client[c].sent /\ MaxDelay \in Nat
  BY <1>1, ClientAssumption DEF ClientInv
<1>4. /\ Oldest(c) \in Nat
      /\ \A n \in client[c].unanswered : Oldest(c) <= n
  BY <1>3, OldestIsLeast DEF Oldest
<1>5. \A d \in Client : Oldest(d)' = Oldest(d)
  BY DEF Oldest
<1>6. ClientInv(c)'
  <2>1. \A m \in wire'[c] : m >= Oldest(c)' - MaxDelay
    <3>1. \A m \in wire[c] : m >= Oldest(c) - MaxDelay
      BY <1>1 DEF ClientInv
    <3>2. \A m \in client[c].unanswered : m >= Oldest(c) - MaxDelay
      BY <1>3, <1>4
    <3> QED
      BY <1>2, <1>5, <3>1, <3>2
  <2> QED
    BY <1>1, <1>2, <1>3, <2>1 DEF ClientInv
<1>7. \A d \in Client : ClientInv(d)'
  <2>1. ASSUME NEW d \in Client, d # c
        PROVE  ClientInv(d)'
    <3>1. ClientInv(d) /\ wire'[d] = wire[d]
      BY <1>1, <1>2, <2>1
    <3> QED
      BY <1>5, <3>1 DEF ClientInv
  <2> QED
    BY <1>6, <2>1
<1>8. \A d \in Client : client[d].sent \in Nat /\ client'[d] = client[d]
  BY <1>1
<1> QED
  BY <1>1, <1>2, <1>7, <1>8, ClientStep

\* A client repeats only what is unanswered.
LEMMA ResendKeeps ==
  ASSUME ProduceInv, NEW c \in Client, NEW n, Resend(c, n)
  PROVE  ProduceInv'
<1>1. wire' = [wire EXCEPT ![c] = wire[c] \cup {n}]
      /\ wire[c] \cup {n} \subseteq wire[c] \cup client[c].unanswered
  BY DEF Resend
<1> QED
  BY <1>1, WireStep DEF Resend

\* The network may lose a copy.
LEMMA LoseKeeps ==
  ASSUME ProduceInv, NEW c \in Client, Lose(c)
  PROVE  ProduceInv'
<1>1. PICK n \in wire[c] : wire' = [wire EXCEPT ![c] = wire[c] \ {n}]
  BY DEF Lose
<1>2. wire[c] \ {n} \subseteq wire[c] \cup client[c].unanswered
  OBVIOUS
<1> QED
  BY <1>1, <1>2, WireStep DEF Lose

\* So the record sets that no correct client sends change nothing.
LEMMA ProduceOddKeeps ==
  ASSUME ProduceInv, NEW c \in Client, ProduceOdd(c)
  PROVE  ProduceInv'
<1>1. log' = log
  BY OddSendsAreRefused DEF ProduceOdd
<1>2. wire' = wire /\ wire[c] \subseteq wire[c] \cup client[c].unanswered
      /\ wire' = [wire EXCEPT ![c] = wire[c]]
  BY DEF ProduceOdd, ProduceInv
<1> QED
  BY <1>1, <1>2, WireStep DEF ProduceOdd

\* What an append of new batches keeps of the log and of what clients were told.
LEMMA GrowStep ==
  ASSUME ProduceInv, NEW records, RecordSet(records), Accepted(log, records),
         log' = Grown(log, records), \A d \in Client : client'[d].id = client[d].id,
         \A i \in DOMAIN records : records[i].origin[1] # NoId =>
           /\ \A j \in DOMAIN log.batches : log.batches[j].origin # records[i].origin
           /\ \A h \in DOMAIN records : records[h].origin = records[i].origin => h = i,
         \/ records[1].producer = NoProducerId
         \/ records[1].producer # NoId /\ \E d \in Client : client[d].id = records[1].producer
  PROVE  /\ LogInv' /\ IdsAreUnique'
         /\ \A x \in confirmed : IsStored(x[1], x[2])' /\ OffsetOf(x[1], x[2])' = x[3]
<1> DEFINE new == Grown(log, records)
<1>1. IsLog(log) /\ Contiguous(log) /\ OriginsDiffer(log) /\ ValidateRecordSet(records) = "None"
  BY DEF ProduceInv, LogInv, Accepted
<1>2. IsLog(new) /\ Contiguous(new)
  BY <1>1, GrownIsContiguous
<1>3. OriginsDiffer(new)
  BY <1>1, GrownOriginsDiffer
<1>4. new.next_offset <= MaxOffset
  BY DEF Grown, Accepted
<1>5. \A p \in DOMAIN new.producers : p # NoId /\ \E d \in Client : client[d].id = p
  <2>1. \A p \in DOMAIN log.producers : p # NoId /\ \E d \in Client : client[d].id = p
    BY DEF ProduceInv, LogInv
  <2>2. \A p \in DOMAIN new.producers :
          p \in DOMAIN log.producers
          \/ (p = records[1].producer /\ records[1].producer # NoProducerId)
    BY DEF Grown
  <2> QED
    BY <2>1, <2>2
<1> HIDE DEF new
<1>6. LogInv'
  <2>1. log' = new
    BY DEF new
  <2> QED
    BY <1>2, <1>3, <1>4, <1>5, <2>1 DEF LogInv, IsLog, Contiguous, OriginsDiffer
<1>7. IdsAreUnique'
  BY DEF ProduceInv, IdsAreUnique
<1>8. ASSUME NEW x \in confirmed
      PROVE  IsStored(x[1], x[2])' /\ OffsetOf(x[1], x[2])' = x[3]
  <2> DEFINE c == x[1]
             n == x[2]
  <2>1. c # NoId /\ IsStored(c, n) /\ OffsetOf(c, n) = x[3]
    BY ClientAssumption DEF ProduceInv, ConfirmedOffsetIsTrue
  <2> HIDE DEF c, n
  <2>2. PICK j \in DOMAIN log.batches : log.batches[j].origin = <<c, n, 1>>
    BY <2>1 DEF IsStored
  <2>3. /\ j \in DOMAIN new.batches
        /\ new.batches[j].origin = <<c, n, 1>>
        /\ OffsetIn(new, c, n) = OffsetIn(log, c, n)
    BY <1>1, <1>3, <2>1, <2>2, GrownKeepsOffsets DEF new
  <2>4. IsStored(c, n)' /\ OffsetOf(c, n)' = x[3]
    BY <2>1, <2>3 DEF IsStored, OffsetOf, OffsetIn, new
  <2> QED
    BY <2>4 DEF c, n
<1> QED
  BY <1>6, <1>7, <1>8

\* A batch without a producer id is stored or refused.
LEMMA PlainOutcome ==
  ASSUME ProduceInv, ProducePlain
  PROVE  /\ RecordSet(Plain) /\ Plain[1].producer = NoProducerId
         /\ 1 \in DOMAIN Plain /\ \A i \in DOMAIN Plain : Plain[i].origin[1] = NoId
         /\ log' = log \/ (Accepted(log, Plain) /\ log' = Grown(log, Plain))
<1>1. /\ UNCHANGED <<next_id, epochs, client, wire, confirmed>>
      /\ log' = ProducePartition(Plain).log
  BY DEF ProducePlain
<1>2. /\ DOMAIN Plain = {1} /\ Plain \in Seq(Range(Plain))
      /\ Plain[1].producer = NoProducerId /\ Plain[1].origin[1] = NoId
      /\ Plain[1].size \in Nat \ {0} /\ Plain[1].count \in Nat \ {0}
  <2>1. DOMAIN Plain = 1..1 /\ Plain = [i \in 1..1 |-> Plain[i]] /\ 1..1 = {1}
    BY DEF Plain
  <2>2. Plain \in Seq(Range(Plain))
    BY <2>1 DEF Range
  <2> QED
    BY <2>1, <2>2 DEF Plain
<1>3. RecordSet(Plain)
  BY <1>2 DEF RecordSet
<1>4. ProducePartition(Plain).log = log
      \/ ProducePartition(Plain).log = AppendRecords(log, Plain).log
  BY DEF ProducePartition
<1>5. log.next_offset \in Nat
  BY DEF ProduceInv, LogInv, IsLog
<1>6. log' = log \/ (Accepted(log, Plain) /\ log' = Grown(log, Plain))
  BY <1>1, <1>3, <1>4, <1>5, AppendOutcome
<1> QED
  BY <1>2, <1>3, <1>6

\* No history changes by it.
LEMMA ProducePlainKeeps ==
  ASSUME ProduceInv, ProducePlain
  PROVE  ProduceInv'
<1>1. UNCHANGED <<next_id, epochs, client, wire, confirmed>>
  BY DEF ProducePlain
<1>2. /\ RecordSet(Plain) /\ Plain[1].producer = NoProducerId
      /\ \A i \in DOMAIN Plain : Plain[i].origin[1] = NoId
      /\ log' = log \/ (Accepted(log, Plain) /\ log' = Grown(log, Plain))
  BY PlainOutcome
<1>7. \A d \in Client : client'[d].id = client[d].id
  BY <1>1
<1>8. CASE log' = log
  <2>1. /\ LogInv' /\ IdsAreUnique' /\ ConfirmedOffsetIsTrue'
        /\ \A d \in Client : \A k \in Nat : HasStored(d, k) => HasStored(d, k)'
    BY <1>1, <1>7, <1>8, SameLog
  <2>2. ASSUME NEW d \in Client
        PROVE  ClientInv(d)' /\ Progress(d)'
    <3>1. ClientInv(d) /\ client[d].sent \in Nat
      BY DEF ProduceInv
    <3>2. PICK k \in 0..client[d].sent :
            /\ HasStored(d, k)
            /\ \A n \in 1..client[d].sent : n \notin client[d].unanswered => n <= k
      BY DEF ProduceInv, Progress
    <3>3. HasStored(d, k)'
      BY <2>1, <3>1, <3>2
    <3>4. Progress(d)'
      BY <1>1, <3>2, <3>3 DEF Progress
    <3>5. ClientInv(d)'
      BY <1>1, <3>1 DEF ClientInv, Oldest
    <3> QED
      BY <3>4, <3>5
  <2> QED
    BY <1>1, <2>1, <2>2 DEF ProduceInv
<1>9. CASE Accepted(log, Plain) /\ log' = Grown(log, Plain)
  <2>1. ValidateRecordSet(Plain) = "None" /\ IsLog(log) /\ OriginsDiffer(log)
    BY <1>9 DEF Accepted, ProduceInv, LogInv
  <2>2. /\ LogInv' /\ IdsAreUnique'
        /\ \A x \in confirmed : IsStored(x[1], x[2])' /\ OffsetOf(x[1], x[2])' = x[3]
    BY <1>2, <1>7, <1>9, GrowStep
  <2>3. ConfirmedOffsetIsTrue'
    BY <1>1, <2>2 DEF ConfirmedOffsetIsTrue
  <2>4. OriginsDiffer(log')
    BY <2>2 DEF LogInv, OriginsDiffer
  <2>5. ASSUME NEW d \in Client
        PROVE  ClientInv(d)' /\ Progress(d)'
    <3>1. ClientInv(d) /\ client[d].sent \in Nat /\ client[d].id \in Nat
      BY DEF ProduceInv
    <3>2. PICK k \in 0..client[d].sent :
            /\ HasStored(d, k)
            /\ \A n \in 1..client[d].sent : n \notin client[d].unanswered => n <= k
      BY DEF ProduceInv, Progress
    <3>3. HasStored(d, k)'
      <4>1. client[d].id # Plain[1].producer
        BY <1>2, <3>1 DEF NoProducerId
      <4>2. \A i \in DOMAIN Plain : Plain[i].origin[1] # d
        BY <1>2, ClientAssumption
      <4>3. k \in Nat
        BY <3>1
      <4> QED
        BY <1>2, <1>7, <1>9, <2>1, <2>4, <3>2, <4>1, <4>2, <4>3, OthersKeepHistory
    <3>4. Progress(d)'
      BY <1>1, <3>2, <3>3 DEF Progress
    <3>5. ClientInv(d)'
      BY <1>1, <3>1 DEF ClientInv, Oldest
    <3> QED
      BY <3>4, <3>5
  <2> QED
    BY <1>1, <2>2, <2>3, <2>5 DEF ProduceInv
<1> QED
  BY <1>2, <1>8, <1>9

\* How far a copy on its way can be from the sends that are stored.
LEMMA CopiesAreNear ==
  ASSUME ProduceInv, NEW c \in Client, NEW n \in wire[c], NEW k \in 0..client[c].sent,
         \A m \in 1..client[c].sent : m \notin client[c].unanswered => m <= k
  PROVE  /\ n \in Nat \ {0} /\ n <= client[c].sent /\ client[c].sent \in Nat /\ k \in Nat
         /\ n - k <= MaxInFlight
         /\ k + 1 - n <= Span
         /\ client[c].id # NoId
<1> DEFINE sent == client[c].sent
<1>1. /\ sent \in Nat /\ n \in 1..sent /\ n >= Oldest(c) - MaxDelay
      /\ client[c].unanswered \subseteq 1..sent
      /\ \A m \in client[c].unanswered : sent - m < MaxInFlight
      /\ sent > 0 => client[c].id # NoId
  BY DEF ProduceInv, ClientInv
<1>2. MaxInFlight \in Nat \ {0} /\ MaxDelay \in Nat /\ k \in Nat /\ Span \in Nat
      /\ Span >= MaxInFlight + MaxDelay
  BY <1>1, SpanCovers, ClientAssumption
<1>3. Oldest(c) \in Nat /\ Oldest(c) \in client[c].unanswered \cup {sent + 1}
  BY <1>1, OldestIsLeast DEF Oldest
<1>4. sent - Oldest(c) < MaxInFlight
  BY <1>1, <1>2, <1>3
<1>5. sent - k <= MaxInFlight
  <2>1. CASE k = sent
    BY <2>1, <1>1, <1>2
  <2>2. CASE k < sent
    <3>1. k + 1 \in 1..sent /\ ~(k + 1 <= k)
      BY <2>2, <1>1, <1>2
    <3>2. k + 1 \in client[c].unanswered
      BY <3>1
    <3>3. sent - (k + 1) < MaxInFlight
      BY <3>2, <1>1
    <3> QED
      BY <3>3, <1>1, <1>2
  <2> QED
    BY <2>1, <2>2, <1>1
<1> QED
  BY <1>1, <1>2, <1>3, <1>4, <1>5

\* A copy of a send that the log does not store leaves it alone.  If the answer
\* counts for the client then the send is stored, where the answer says.
LEMMA DeliveredUnstored ==
  ASSUME ProduceInv, NEW c \in Client, NEW n \in wire[c], NEW k \in 0..client[c].sent,
         HasStored(c, k),
         \A m \in 1..client[c].sent : m \notin client[c].unanswered => m <= k,
         n = k + 1 => ~Accepted(log, SendOf(c, n))
  PROVE  /\ ProducePartition(SendOf(c, n)).log = log
         /\ ProducePartition(SendOf(c, n)).reply.error \in {"None", "DuplicateSequence"} => n <= k
         /\ ProducePartition(SendOf(c, n)).reply.error = "None" =>
              /\ IsStored(c, n)
              /\ ProducePartition(SendOf(c, n)).reply.base_offset = OffsetOf(c, n)
<1> DEFINE records == SendOf(c, n)
           outcome == ProducePartition(records)
<1>1. /\ n \in Nat \ {0} /\ n <= client[c].sent /\ client[c].sent \in Nat /\ k \in Nat
      /\ n - k <= MaxInFlight /\ k + 1 - n <= Span /\ client[c].id # NoId
  BY CopiesAreNear
<1>2. Ready(c, k) /\ n \in DOMAIN Layout
  BY <1>1, ClientIsReady
<1>3. outcome = AppendRecords(log, records)
  BY <1>2, SendReachesLog
<1>4. Keep(k) \in Nat /\ Keep(k) <= k
  BY <1>1, SpanCovers
<1>5. CASE n = k + 1
  <2>1. outcome = [log |-> log, reply |-> Refused("OffsetOverflow")]
    BY <1>2, <1>3, <1>5, NextSendOutcome
  <2> HIDE DEF outcome
  <2>2. outcome.log = log /\ outcome.reply.error = "OffsetOverflow"
    BY <2>1 DEF Refused
  <2> QED
    BY <2>2 DEF outcome
<1>6. CASE n > k + 1
  <2>1. outcome = [log |-> log, reply |-> Refused("OutOfOrderSequence")]
    BY <1>1, <1>2, <1>3, <1>6, EarlySendOutcome
  <2> HIDE DEF outcome
  <2>2. outcome.log = log /\ outcome.reply.error = "OutOfOrderSequence"
    BY <2>1 DEF Refused
  <2> QED
    BY <2>2 DEF outcome
<1>7. CASE n <= k /\ n > k - Keep(k)
  <2>1. outcome = [log |-> log,
                   reply |-> [error |-> "None", base_offset |-> OffsetOf(c, n),
                              last_offset |-> OffsetOf(c, n) + RecordsIn(n) - 1,
                              appended |-> FALSE]]
    BY <1>2, <1>3, <1>7, RepeatedSendOutcome
  <2> HIDE DEF outcome
  <2>2. outcome.log = log /\ outcome.reply.base_offset = OffsetOf(c, n)
    BY <2>1
  <2>3. IsStored(c, n)
    BY <1>1, <1>7 DEF HasStored
  <2> QED
    BY <1>7, <2>2, <2>3 DEF outcome
<1>8. CASE n <= k - Keep(k)
  <2>1. outcome.log = log /\ outcome.reply.error # "None"
    BY <1>1, <1>2, <1>3, <1>8, OldSendOutcome
  <2>2. n <= k
    BY <1>1, <1>4, <1>8
  <2> QED
    BY <2>1, <2>2
<1> QED
  BY <1>1, <1>4, <1>5, <1>6, <1>7, <1>8

\* What a delivered copy does to the client that sent it.
LEMMA DeliverClient ==
  ASSUME ProduceInv, NEW c \in Client, NEW n, NEW another \in BOOLEAN, NEW lost \in BOOLEAN,
         Deliver(c, n, another, lost)
  PROVE  /\ client' \in [Client -> [id : Nat, sent : Nat, unanswered : SUBSET Nat]]
         /\ wire' \in [Client -> SUBSET Nat]
         /\ \A d \in Client : ClientInv(d)'
         /\ \A d \in Client : client'[d].id = client[d].id /\ client'[d].sent = client[d].sent
         /\ \A d \in Client \ {c} : client'[d].unanswered = client[d].unanswered
         /\ \/ client'[c].unanswered = client[c].unanswered
            \/ /\ client'[c].unanswered = client[c].unanswered \ {n}
               /\ ProducePartition(SendOf(c, n)).reply.error \in {"None", "DuplicateSequence"}
<1>1. /\ client \in [Client -> [id : Nat, sent : Nat, unanswered : SUBSET Nat]]
      /\ wire \in [Client -> SUBSET Nat]
      /\ \A d \in Client : ClientInv(d)
  BY DEF ProduceInv
<1>2. /\ next_id' = next_id
      /\ \/ client' = client
         \/ /\ client' = [client EXCEPT ![c].unanswered = @ \ {n}]
            /\ ProducePartition(SendOf(c, n)).reply.error \in {"None", "DuplicateSequence"}
  BY DEF Deliver
<1>3. PICK w \in SUBSET wire[c] : /\ wire' = [wire EXCEPT ![c] = w]
                                  /\ \A m \in w : m >= Oldest(c)' - MaxDelay
  <2> DEFINE w == {m \in IF another THEN wire[c] ELSE wire[c] \ {n} : m >= Oldest(c)' - MaxDelay}
  <2>1. wire' = [wire EXCEPT ![c] = w]
    BY DEF Deliver
  <2>2. w \in SUBSET wire[c] /\ \A m \in w : m >= Oldest(c)' - MaxDelay
    OBVIOUS
  <2> HIDE DEF w
  <2> QED
    BY <2>1, <2>2
<1>4. /\ client' \in [Client -> [id : Nat, sent : Nat, unanswered : SUBSET Nat]]
      /\ \A d \in Client : client'[d].id = client[d].id /\ client'[d].sent = client[d].sent
      /\ \A d \in Client \ {c} : client'[d] = client[d]
      /\ \/ client'[c].unanswered = client[c].unanswered
         \/ /\ client'[c].unanswered = client[c].unanswered \ {n}
            /\ ProducePartition(SendOf(c, n)).reply.error \in {"None", "DuplicateSequence"}
  <2>1. CASE client' = client
    BY <1>1, <2>1
  <2>2. CASE /\ client' = [client EXCEPT ![c].unanswered = @ \ {n}]
             /\ ProducePartition(SendOf(c, n)).reply.error \in {"None", "DuplicateSequence"}
    <3>1. /\ client' \in [Client -> [id : Nat, sent : Nat, unanswered : SUBSET Nat]]
          /\ \A d \in Client : client'[d].id = client[d].id /\ client'[d].sent = client[d].sent
          /\ \A d \in Client \ {c} : client'[d] = client[d]
          /\ client'[c].unanswered = client[c].unanswered \ {n}
      BY <1>1, <2>2
    <3> QED
      BY <2>2, <3>1
  <2> QED
    BY <1>2, <2>1, <2>2
<1>5. /\ wire' \in [Client -> SUBSET Nat] /\ wire'[c] = w
      /\ \A d \in Client \ {c} : wire'[d] = wire[d]
  BY <1>1, <1>3
<1>6. ClientInv(c)'
  <2>1. client'[c].unanswered \subseteq client[c].unanswered /\ wire'[c] \subseteq wire[c]
    BY <1>4, <1>5
  <2>2. \A m \in wire'[c] : m >= Oldest(c)' - MaxDelay
    BY <1>3, <1>5
  <2>3. ClientInv(c)
    BY <1>1
  <2> QED
    BY <1>2, <1>4, <2>1, <2>2, <2>3 DEF ClientInv
<1>7. ASSUME NEW d \in Client, d # c
      PROVE  ClientInv(d)'
  <2>1. ClientInv(d) /\ client'[d] = client[d] /\ wire'[d] = wire[d]
    BY <1>1, <1>4, <1>5, <1>7
  <2> QED
    BY <1>2, <2>1 DEF ClientInv, Oldest
<1> QED
  BY <1>4, <1>5, <1>6, <1>7

\* The answer to a delivered copy reaches the confirmed ones, or is lost.
LEMMA DeliverConfirms ==
  ASSUME NEW c, NEW n, NEW another, NEW lost, Deliver(c, n, another, lost)
  PROVE  /\ log' = ProducePartition(SendOf(c, n)).log
         /\ next_id' = next_id /\ epochs' = epochs
         /\ \/ confirmed' = confirmed
            \/ /\ ProducePartition(SendOf(c, n)).reply.error = "None"
               /\ confirmed' = confirmed
                    \cup {<<c, n, ProducePartition(SendOf(c, n)).reply.base_offset>>}
  BY DEF Deliver

\* A copy of the next send, when the log stores it.
LEMMA DeliverStores ==
  ASSUME ProduceInv, NEW c \in Client, NEW n \in wire[c], NEW k \in 0..client[c].sent,
         HasStored(c, k),
         \A m \in 1..client[c].sent : m \notin client[c].unanswered => m <= k,
         n = k + 1, Accepted(log, SendOf(c, n)),
         log' = ProducePartition(SendOf(c, n)).log,
         \A d \in Client : client'[d].id = client[d].id
  PROVE  /\ LogInv' /\ IdsAreUnique'
         /\ \A x \in confirmed : IsStored(x[1], x[2])' /\ OffsetOf(x[1], x[2])' = x[3]
         /\ HasStored(c, n)' /\ IsStored(c, n)'
         /\ ProducePartition(SendOf(c, n)).reply.base_offset = OffsetOf(c, n)'
         /\ log' = Grown(log, SendOf(c, n)) /\ Ready(c, k) /\ n \in DOMAIN Layout
         /\ \A d \in Client \ {c} : \A m \in Nat : HasStored(d, m) => HasStored(d, m)'
<1> DEFINE records == SendOf(c, n)
<1>1. /\ n \in Nat \ {0} /\ n <= client[c].sent /\ client[c].sent \in Nat /\ k \in Nat
      /\ client[c].id # NoId
  BY CopiesAreNear
<1>2. Ready(c, k) /\ n \in DOMAIN Layout /\ client[c].id \in Nat
  BY <1>1, ClientIsReady
<1>3. /\ RecordSet(records) /\ ValidateRecordSet(records) = "None"
      /\ \A i \in DOMAIN records : records[i].origin = <<c, n, i>>
      /\ records[1].producer = client[c].id
  BY <1>2, SendIsValid, SendReachesLog
<1>4. /\ ProducePartition(records)
           = [log |-> Grown(log, records), reply |-> AppendResult(log, records)]
  BY <1>2, <1>3, SendReachesLog, AppendOutcome DEF Ready
<1>5. log' = Grown(log, records)
  BY <1>4
<1>6. IsLog(log) /\ OriginsDiffer(log)
  BY DEF ProduceInv, LogInv
<1>7. ASSUME NEW i \in DOMAIN records
      PROVE  /\ \A j \in DOMAIN log.batches : log.batches[j].origin # records[i].origin
             /\ \A h \in DOMAIN records : records[h].origin = records[i].origin => h = i
  <2>1. ASSUME NEW j \in DOMAIN log.batches, log.batches[j].origin = <<c, n, i>>
        PROVE  FALSE
    <3>1. log.batches[j].origin[1] = c
      BY <2>1
    <3>2. PICK m \in 1..k : \E h \in DOMAIN Layout[m] : log.batches[j].origin = <<c, m, h>>
      BY <3>1 DEF HasStored
    <3>3. m = n
      BY <2>1, <3>2
    <3> QED
      BY <1>1, <3>3
  <2> QED
    BY <1>3, <2>1
<1>8. records[1].producer # NoId /\ \E d \in Client : client[d].id = records[1].producer
  BY <1>1, <1>3
<1>9. /\ LogInv' /\ IdsAreUnique'
      /\ \A x \in confirmed : IsStored(x[1], x[2])' /\ OffsetOf(x[1], x[2])' = x[3]
  <2> HIDE DEF records
  <2>1. Accepted(log, records)
    BY DEF records
  <2> QED
    BY <1>3, <1>5, <1>7, <1>8, <2>1, GrowStep
<1>10. OriginsDiffer(log')
  BY <1>9 DEF LogInv, OriginsDiffer
<1>11. c # NoId
  BY ClientAssumption
<1>12. HasStored(c, n)'
  BY <1>2, <1>5, <1>6, <1>10, SenderGainsHistory
<1>13. IsStored(c, n)' /\ OffsetOf(c, n)' = log.next_offset
  BY <1>2, <1>5, <1>6, <1>10, <1>11, SendGetsNextOffset
<1>14. ProducePartition(records).reply.base_offset = log.next_offset
  BY <1>4 DEF AppendResult
<1>15. ASSUME NEW d \in Client \ {c}, NEW m \in Nat, HasStored(d, m)
       PROVE  HasStored(d, m)'
  <2>1. client[d].id # records[1].producer
    BY <1>1, <1>3 DEF ProduceInv, IdsAreUnique
  <2>2. \A i \in DOMAIN records : records[i].origin[1] # d
    BY <1>3
  <2> HIDE DEF records
  <2> QED
    BY <1>3, <1>5, <1>6, <1>10, <1>15, <2>1, <2>2, OthersKeepHistory
<1> QED
  BY <1>2, <1>5, <1>9, <1>12, <1>13, <1>14, <1>15

\* A delivered copy keeps the invariant.
LEMMA DeliverKeeps ==
  ASSUME ProduceInv, NEW c \in Client, NEW n, NEW another \in BOOLEAN, NEW lost \in BOOLEAN,
         Deliver(c, n, another, lost)
  PROVE  ProduceInv'
<1> DEFINE outcome == ProducePartition(SendOf(c, n))
<1>1. /\ client' \in [Client -> [id : Nat, sent : Nat, unanswered : SUBSET Nat]]
      /\ wire' \in [Client -> SUBSET Nat]
      /\ \A d \in Client : ClientInv(d)'
      /\ \A d \in Client : client'[d].id = client[d].id /\ client'[d].sent = client[d].sent
      /\ \A d \in Client \ {c} : client'[d].unanswered = client[d].unanswered
      /\ \/ client'[c].unanswered = client[c].unanswered
         \/ /\ client'[c].unanswered = client[c].unanswered \ {n}
            /\ outcome.reply.error \in {"None", "DuplicateSequence"}
  BY DeliverClient
<1>2. /\ log' = outcome.log /\ next_id' = next_id /\ epochs' = epochs
      /\ \/ confirmed' = confirmed
         \/ /\ outcome.reply.error = "None"
            /\ confirmed' = confirmed \cup {<<c, n, outcome.reply.base_offset>>}
  BY DeliverConfirms
<1>3. n \in wire[c]
  BY DEF Deliver
<1>4. PICK k \in 0..client[c].sent :
        /\ HasStored(c, k)
        /\ \A m \in 1..client[c].sent : m \notin client[c].unanswered => m <= k
  BY DEF ProduceInv, Progress
<1>5. /\ n \in Nat \ {0} /\ n <= client[c].sent /\ client[c].sent \in Nat /\ k \in Nat
      /\ client[c].id # NoId
  BY <1>3, <1>4, CopiesAreNear
<1>6. n \in DOMAIN Layout
  BY <1>4, <1>5, ClientIsReady
<1>7. \A d \in Client : client'[d].id = client[d].id
  BY <1>1
<1> HIDE DEF outcome
<1>8. PICK stored \in 0..client[c].sent :
        /\ stored >= k
        /\ LogInv' /\ IdsAreUnique' /\ HasStored(c, stored)'
        /\ \A x \in confirmed : IsStored(x[1], x[2])' /\ OffsetOf(x[1], x[2])' = x[3]
        /\ \A d \in Client \ {c} : \A m \in Nat : HasStored(d, m) => HasStored(d, m)'
        /\ outcome.reply.error \in {"None", "DuplicateSequence"} => n <= stored
        /\ outcome.reply.error = "None" =>
             IsStored(c, n)' /\ outcome.reply.base_offset = OffsetOf(c, n)'
  <2>1. CASE n = k + 1 /\ Accepted(log, SendOf(c, n))
    <3>1. /\ LogInv' /\ IdsAreUnique' /\ HasStored(c, n)' /\ IsStored(c, n)'
          /\ \A x \in confirmed : IsStored(x[1], x[2])' /\ OffsetOf(x[1], x[2])' = x[3]
          /\ outcome.reply.base_offset = OffsetOf(c, n)'
          /\ \A d \in Client \ {c} : \A m \in Nat : HasStored(d, m) => HasStored(d, m)'
      BY <1>2, <1>3, <1>4, <1>7, <2>1, DeliverStores DEF outcome
    <3>2. n \in 0..client[c].sent /\ n >= k /\ n <= n
      BY <1>5, <2>1
    <3> QED
      BY <3>1, <3>2
  <2>2. CASE ~(n = k + 1 /\ Accepted(log, SendOf(c, n)))
    <3>1. /\ outcome.log = log
          /\ outcome.reply.error \in {"None", "DuplicateSequence"} => n <= k
          /\ outcome.reply.error = "None" =>
               IsStored(c, n) /\ outcome.reply.base_offset = OffsetOf(c, n)
      BY <1>3, <1>4, <2>2, DeliveredUnstored DEF outcome
    <3>2. log' = log
      BY <1>2, <3>1
    <3>3. /\ LogInv' /\ IdsAreUnique'
          /\ \A d \in Client : \A m \in Nat : HasStored(d, m) => HasStored(d, m)'
      BY <1>7, <3>2, SameLog
    <3>4. HasStored(c, k)'
      BY <1>4, <1>5, <3>3
    <3>5. \A x \in confirmed : IsStored(x[1], x[2])' /\ OffsetOf(x[1], x[2])' = x[3]
      BY <3>2 DEF ProduceInv, ConfirmedOffsetIsTrue, IsStored, OffsetOf
    <3>6. IsStored(c, n) => IsStored(c, n)'
      BY <3>2 DEF IsStored
    <3>7. OffsetOf(c, n)' = OffsetOf(c, n)
      BY <3>2 DEF OffsetOf
    <3>8. k >= k
      BY <1>5
    <3> QED
      BY <1>4, <3>1, <3>3, <3>4, <3>5, <3>6, <3>7, <3>8
  <2> QED
    BY <2>1, <2>2
<1>9. ASSUME NEW d \in Client
      PROVE  Progress(d)'
  <2>1. CASE d = c
    <3>1. \A m \in 1..client[c].sent : m \notin client'[c].unanswered => m <= stored
      <4>1. \A m \in 1..client[c].sent : m \notin client[c].unanswered => m <= stored
        BY <1>4, <1>5, <1>8
      <4>2. n \notin client'[c].unanswered /\ n \in client[c].unanswered => n <= stored
        BY <1>1, <1>8
      <4>3. \A m \in 1..client[c].sent :
              m \notin client'[c].unanswered => m \notin client[c].unanswered \/ m = n
        BY <1>1
      <4> QED
        BY <4>1, <4>2, <4>3
    <3> QED
      BY <1>1, <1>8, <2>1, <3>1 DEF Progress
  <2>2. CASE d # c
    <3>1. PICK m \in 0..client[d].sent :
            /\ HasStored(d, m)
            /\ \A i \in 1..client[d].sent : i \notin client[d].unanswered => i <= m
      BY DEF ProduceInv, Progress
    <3>2. m \in Nat
      BY DEF ProduceInv
    <3>3. HasStored(d, m)'
      BY <1>8, <2>2, <3>1, <3>2
    <3>4. client'[d].sent = client[d].sent /\ client'[d].unanswered = client[d].unanswered
      BY <1>1, <2>2
    <3> QED
      BY <3>1, <3>3, <3>4 DEF Progress
  <2> QED
    BY <2>1, <2>2
<1>10. ConfirmedOffsetIsTrue' /\ \A x \in confirmed' : x[1] \in Client /\ x[2] \in DOMAIN Layout
  <2>1. \A x \in confirmed : x[1] \in Client /\ x[2] \in DOMAIN Layout
    BY DEF ProduceInv
  <2>2. CASE confirmed' = confirmed
    BY <1>8, <2>1, <2>2 DEF ConfirmedOffsetIsTrue
  <2>3. CASE /\ outcome.reply.error = "None"
             /\ confirmed' = confirmed \cup {<<c, n, outcome.reply.base_offset>>}
    <3>0. PICK y : y = <<c, n, outcome.reply.base_offset>>
      OBVIOUS
    <3>1. y[1] = c /\ y[2] = n /\ y[3] = outcome.reply.base_offset
      BY <3>0
    <3>2. IsStored(c, n)' /\ OffsetOf(c, n)' = outcome.reply.base_offset
      BY <1>8, <2>3
    <3>3. IsStored(y[1], y[2])' /\ OffsetOf(y[1], y[2])' = y[3]
      BY <3>1, <3>2
    <3>4. confirmed' = confirmed \cup {y}
      BY <2>3, <3>0
    <3>5. ConfirmedOffsetIsTrue'
      BY <1>8, <3>3, <3>4 DEF ConfirmedOffsetIsTrue
    <3> QED
      BY <1>6, <2>1, <3>1, <3>4, <3>5
  <2> QED
    BY <1>2, <2>2, <2>3
<1> QED
  BY <1>1, <1>2, <1>8, <1>9, <1>10 DEF ProduceInv

----------------------------------------------------------------------------
(* Idempotent production: the theorems *)

\* The invariant holds at the start.
LEMMA ProduceInvStarts == Init => ProduceInv
<1> SUFFICES ASSUME Init PROVE ProduceInv
  OBVIOUS
<1>1. /\ next_id = 0 /\ epochs = [p \in {} |-> 0] /\ confirmed = {}
      /\ client = [c \in Client |-> [id |-> NoId, sent |-> 0, unanswered |-> {}]]
      /\ wire = [c \in Client |-> {}]
      /\ log.next_offset = 0 /\ log.batches = <<>> /\ DOMAIN log.producers = {}
  BY DEF Init, NewLog
<1>2. next_id \in 0..MaxProducerId /\ epochs \in [1..next_id -> {0}]
  BY <1>1, ClientAssumption
<1>3. client \in [Client -> [id : Nat, sent : Nat, unanswered : SUBSET Nat]]
      /\ wire \in [Client -> SUBSET Nat]
  BY <1>1 DEF NoId
<1>4. LogInv
  <2>1. DOMAIN log.batches = {} /\ log.batches \in Seq(Range(log.batches))
    BY <1>1
  <2>2. IsLog(log) /\ Contiguous(log) /\ OriginsDiffer(log)
    BY <1>1, <2>1 DEF IsLog, Contiguous, OriginsDiffer
  <2> QED
    BY <1>1, <2>2, OffsetAssumption DEF LogInv
<1>5. ASSUME NEW c \in Client
      PROVE  ClientInv(c) /\ Progress(c)
  <2>1. Sends[c] \in Nat
    BY SendsAssumption, LayoutAssumption
  <2>2. client[c].id = NoId /\ client[c].sent = 0 /\ client[c].unanswered = {} /\ wire[c] = {}
    BY <1>1
  <2>3. ClientInv(c)
    BY <1>1, <2>1, <2>2 DEF ClientInv, NoId
  <2>4. HasStored(c, 0)
    BY <1>1 DEF HasStored
  <2>5. Progress(c)
    BY <2>2, <2>4 DEF Progress
  <2> QED
    BY <2>3, <2>5
<1>6. IdsAreUnique
  BY <1>1 DEF IdsAreUnique
<1>7. ConfirmedOffsetIsTrue /\ \A x \in confirmed : x[1] \in Client /\ x[2] \in DOMAIN Layout
  BY <1>1 DEF ConfirmedOffsetIsTrue
<1> QED
  BY <1>2, <1>3, <1>4, <1>5, <1>6, <1>7 DEF ProduceInv

\* Every step keeps the invariant.
LEMMA ProduceInvStep == ProduceInv /\ [Next]_vars => ProduceInv'
<1> SUFFICES ASSUME ProduceInv, [Next]_vars PROVE ProduceInv'
  OBVIOUS
<1>1. CASE UNCHANGED vars
  <2>1. /\ UNCHANGED <<next_id, epochs, log, confirmed>> /\ client' = client /\ wire' = wire
        /\ client' \in [Client -> [id : Nat, sent : Nat, unanswered : SUBSET Nat]]
        /\ wire' \in [Client -> SUBSET Nat]
    BY <1>1 DEF vars, ProduceInv
  <2>2. ASSUME NEW d \in Client
        PROVE  ClientInv(d)' /\ client[d].sent <= client'[d].sent
    <3>1. ClientInv(d) /\ client[d].sent \in Nat
      BY DEF ProduceInv
    <3>2. Oldest(d)' = Oldest(d)
      BY <2>1 DEF Oldest
    <3>3. ClientInv(d)'
      BY <2>1, <3>1, <3>2 DEF ClientInv
    <3> QED
      BY <2>1, <3>1, <3>3
  <2> QED
    BY <2>1, <2>2, ClientStep
<1>2. ASSUME NEW c \in Client, InitProducerId(c) PROVE ProduceInv'
  BY <1>2, InitProducerIdKeeps
<1>3. ASSUME NEW c \in Client, Send(c) PROVE ProduceInv'
  BY <1>3, SendKeeps
<1>4. ASSUME NEW c \in Client, Lose(c) PROVE ProduceInv'
  BY <1>4, LoseKeeps
<1>5. ASSUME NEW c \in Client, ProduceOdd(c) PROVE ProduceInv'
  BY <1>5, ProduceOddKeeps
<1>6. ASSUME NEW c \in Client, NEW n \in DOMAIN Layout, Resend(c, n) PROVE ProduceInv'
  BY <1>6, ResendKeeps
<1>7. ASSUME NEW c \in Client, NEW n \in DOMAIN Layout,
             NEW another \in BOOLEAN, NEW lost \in BOOLEAN, Deliver(c, n, another, lost)
      PROVE  ProduceInv'
  BY <1>7, DeliverKeeps
<1>8. CASE ProducePlain
  BY <1>8, ProducePlainKeeps
<1> QED
  BY <1>1, <1>2, <1>3, <1>4, <1>5, <1>6, <1>7, <1>8 DEF Next

\* So it is an invariant.
LEMMA ProduceInvariance == Spec => []ProduceInv
<1> QED
  BY ProduceInvStarts, ProduceInvStep, PTL DEF Spec

\* A send is stored exactly when it is among the first k.
LEMMA StoredOnes ==
  ASSUME NEW c, NEW k \in Nat, HasStored(c, k), NEW n
  PROVE  IsStored(c, n) <=> n \in 1..k
<1>1. ASSUME IsStored(c, n)
      PROVE  n \in 1..k
  <2>1. PICK j \in DOMAIN log.batches : log.batches[j].origin = <<c, n, 1>>
    BY <1>1 DEF IsStored
  <2>2. log.batches[j].origin[1] = c
    BY <2>1
  <2>3. PICK m \in 1..k : \E i \in DOMAIN Layout[m] : log.batches[j].origin = <<c, m, i>>
    BY <2>2 DEF HasStored
  <2> QED
    BY <2>1, <2>3
<1> QED
  BY <1>1 DEF HasStored

\* The invariant gives the types of the producer states.
LEMMA ProducerStateTypes ==
  ASSUME ProduceInv, NEW p \in DOMAIN log.producers
  PROVE  /\ log.producers[p].next_sequence \in 0..(SequenceModulus - 1)
         /\ Len(log.producers[p].recent) \in 1..RecentAppendLimit
<1>1. PICK c \in Client : client[c].id = p /\ p # NoId
  BY DEF ProduceInv, LogInv
<1>2. PICK k \in 0..client[c].sent : HasStored(c, k)
  BY DEF ProduceInv, Progress
<1>3. Ready(c, k) /\ k \in 0..Len(Layout) /\ Len(Layout) \in Nat
  BY <1>1, <1>2, ClientIsReady DEF Ready
<1>4. k \in Nat /\ k > 0
  BY <1>1, <1>2, <1>3 DEF HasStored
<1>5. log.producers[p] = StateAfter(c, k)
  BY <1>1, <1>2, <1>4 DEF HasStored
<1>6. FirstSequence(k + 1) \in 0..(SequenceModulus - 1)
  <2>1. k + 1 \in 1..(Len(Layout) + 1)
    BY <1>3, <1>4
  <2> QED
    BY <2>1, FirstSequenceRange
<1>7. Keep(k) \in 1..RecentAppendLimit
  BY <1>4, SpanCovers
<1>8. StateAfter(c, k).next_sequence = FirstSequence(k + 1)
      /\ StateAfter(c, k).recent = [j \in 1..Keep(k) |-> Entry(c, k - Keep(k) + j)]
  BY DEF StateAfter
<1>9. Len(StateAfter(c, k).recent) = Keep(k)
  <2>1. Keep(k) \in Nat
    BY <1>7, RecentAssumption
  <2> QED
    BY <1>8, <2>1
<1> QED
  BY <1>5, <1>6, <1>7, <1>8, <1>9

\* For any number of clients and sends, any layout, window and delay: the log
\* of a partition is in order and says what the clients were told.
THEOREM LogAlwaysInOrder == Spec => []LogInOrder
<1>1. ProduceInv => LogInOrder
  <2> SUFFICES ASSUME ProduceInv PROVE LogInOrder
    OBVIOUS
  <2>1. /\ next_id \in 0..MaxProducerId /\ epochs \in [1..next_id -> {0}]
        /\ Contiguous(log) /\ log.next_offset \in Nat /\ log.next_offset <= MaxOffset
        /\ ConfirmedOffsetIsTrue /\ IdsAreUnique
    BY DEF ProduceInv, LogInv, IsLog
  <2>2. log.next_offset \in 0..MaxOffset
    BY <2>1, OffsetAssumption
  <2>3. \A c \in Client : /\ client[c].id \in 0..next_id
                          /\ client[c].unanswered \subseteq 1..client[c].sent
                          /\ wire[c] \subseteq 1..client[c].sent
    BY DEF ProduceInv, ClientInv
  <2>4. TypeOK
    BY <2>1, <2>2, <2>3, ProducerStateTypes DEF TypeOK
  <2> QED
    BY <2>1, <2>4 DEF LogInOrder
<1> QED
  BY <1>1, ProduceInvariance, PTL

\* A client that repeats a stored send it has no answer for is told the
\* original offset: RECENT_APPEND_LIMIT appends cover the sends in flight.
THEOREM RetriesGetOriginalOffset == Spec => []RetryGetsOriginalOffset
<1>1. ProduceInv => RetryGetsOriginalOffset
  <2> SUFFICES ASSUME ProduceInv, NEW c \in Client, NEW n \in client[c].unanswered,
                      IsStored(c, n)
               PROVE  ProducePartition(SendOf(c, n)).reply =
                        [error |-> "None", base_offset |-> OffsetOf(c, n),
                         last_offset |-> OffsetOf(c, n) + RecordsIn(n) - 1, appended |-> FALSE]
    BY DEF RetryGetsOriginalOffset
  <2>1. PICK k \in 0..client[c].sent : HasStored(c, k)
    BY DEF ProduceInv, Progress
  <2>2. /\ client[c].sent \in Nat /\ n \in 1..client[c].sent /\ client[c].sent - n < MaxInFlight
        /\ client[c].id # NoId /\ k \in Nat
    BY <2>1 DEF ProduceInv, ClientInv
  <2>3. Ready(c, k) /\ n \in DOMAIN Layout
    BY <2>1, <2>2, ClientIsReady
  <2>4. n \in 1..k
    BY <2>1, <2>2, StoredOnes
  <2>5. n <= k /\ n > k - Keep(k)
    BY <2>2, <2>4, SpanCovers, WindowAssumption
  <2>6. ProducePartition(SendOf(c, n)) = AppendRecords(log, SendOf(c, n))
    BY <2>3, SendReachesLog
  <2>7. AppendRecords(log, SendOf(c, n)) =
          [log |-> log,
           reply |-> [error |-> "None", base_offset |-> OffsetOf(c, n),
                      last_offset |-> OffsetOf(c, n) + RecordsIn(n) - 1, appended |-> FALSE]]
    BY <2>3, <2>5, RepeatedSendOutcome
  <2> QED
    BY <2>6, <2>7
<1> QED
  BY <1>1, ProduceInvariance, PTL

\* The next send of a client is accepted whenever there are offsets for it.
THEOREM NextSendsAreAccepted == Spec => []NextSendIsAccepted
<1>1. ProduceInv => NextSendIsAccepted
  <2> SUFFICES ASSUME ProduceInv, NEW c \in Client, NEW n \in 1..Sends[c],
                      client[c].id # NoId, ~IsStored(c, n), n > 1 => IsStored(c, n - 1),
                      log.next_offset + RecordsIn(n) <= MaxOffset
               PROVE  ProducePartition(SendOf(c, n)).reply.appended
    BY DEF NextSendIsAccepted
  <2>1. PICK k \in 0..client[c].sent : HasStored(c, k)
    BY DEF ProduceInv, Progress
  <2>2. Ready(c, k) /\ Len(Layout) \in Nat /\ DOMAIN Layout = 1..Len(Layout)
        /\ client[c].sent \in Nat
    BY <2>1, ClientIsReady
  <2>3. n \in DOMAIN Layout /\ n \in Nat \ {0} /\ k \in Nat
    BY <2>2, SendsAssumption
  <2>4. n \notin 1..k /\ (n > 1 => n - 1 \in 1..k)
    BY <2>1, <2>3, StoredOnes
  <2>5. n = k + 1
    BY <2>3, <2>4
  <2>6. Accepted(log, SendOf(c, n))
    BY <2>2, <2>3, <2>5, NextSendOutcome
  <2>7. RecordSet(SendOf(c, n)) /\ log.next_offset \in Nat
        /\ ProducePartition(SendOf(c, n)) = AppendRecords(log, SendOf(c, n))
    BY <2>2, <2>3, SendReachesLog, SendIsValid DEF Ready
  <2>8. ProducePartition(SendOf(c, n)).reply = AppendResult(log, SendOf(c, n))
    BY <2>6, <2>7, AppendOutcome
  <2>9. AppendResult(log, SendOf(c, n)).appended = TRUE
    BY DEF AppendResult
  <2> QED
    BY <2>8, <2>9
<1> QED
  BY <1>1, ProduceInvariance, PTL

----------------------------------------------------------------------------
(* Idempotent production implements ExactlyOnceLog *)

\* The recursive function of Origins, up to the n-th batch.
OriginsUpTo(batches, n, g) ==
  g = [i \in 0..n |-> IF i = 0 THEN <<>>
                      ELSE IF batches[i].origin[1] = NoId THEN g[i - 1]
                      ELSE Append(g[i - 1], batches[i].origin)]

\* There is such a function.
LEMMA OriginsExist ==
  ASSUME NEW batches, NEW n \in Nat
  PROVE  \E g : OriginsUpTo(batches, n, g)
<1> DEFINE P == {m \in Nat : \E g : OriginsUpTo(batches, m, g)}
<1>1. 0 \in P
  <2> DEFINE g == [i \in 0..0 |-> <<>>]
  <2>1. OriginsUpTo(batches, 0, g)
    BY DEF OriginsUpTo
  <2> QED
    BY <2>1
<1>2. ASSUME NEW m \in Nat, m \in P
      PROVE  m + 1 \in P
  <2>1. PICK f : OriginsUpTo(batches, m, f)
    BY <1>2
  <2> DEFINE last == IF batches[m + 1].origin[1] = NoId THEN f[m]
                     ELSE Append(f[m], batches[m + 1].origin)
             g == [i \in 0..(m + 1) |-> IF i = m + 1 THEN last ELSE f[i]]
  <2>2. \A i \in 0..m : f[i] = IF i = 0 THEN <<>>
                               ELSE IF batches[i].origin[1] = NoId THEN f[i - 1]
                               ELSE Append(f[i - 1], batches[i].origin)
    BY <2>1 DEF OriginsUpTo
  <2>3. /\ g[m + 1] = last
        /\ \A i \in 0..m : g[i] = f[i]
        /\ g = [i \in 0..(m + 1) |-> g[i]]
    OBVIOUS
  <2>4. \A i \in 0..(m + 1) : i # 0 => i - 1 \in 0..m
    OBVIOUS
  <2> HIDE DEF g
  <2>5. \A i \in 0..(m + 1) : g[i] = IF i = 0 THEN <<>>
                                     ELSE IF batches[i].origin[1] = NoId THEN g[i - 1]
                                     ELSE Append(g[i - 1], batches[i].origin)
    <3> TAKE i \in 0..(m + 1)
    <3>1. CASE i = m + 1
      <4>1. i # 0 /\ i - 1 = m /\ g[i - 1] = f[m]
        BY <3>1, <2>3
      <4> QED
        BY <3>1, <4>1, <2>3
    <3>2. CASE i # m + 1
      <4>1. i \in 0..m /\ (i # 0 => i - 1 \in 0..m)
        BY <3>2
      <4> QED
        BY <4>1, <2>2, <2>3
    <3> QED
      BY <3>1, <3>2
  <2>6. OriginsUpTo(batches, m + 1, g)
    BY <2>3, <2>5 DEF OriginsUpTo
  <2> QED
    BY <2>6
<1>3. Nat \subseteq P
  <2> HIDE DEF P
  <2> QED
    BY <1>1, <1>2, InductionOverNat
<1> QED
  BY <1>3

\* The origins of the first batches, whichever batches follow.
LEMMA OriginsAgree ==
  ASSUME NEW b, NEW m \in Nat, NEW g, OriginsUpTo(b, m, g),
         NEW d, NEW n \in Nat, NEW h, OriginsUpTo(d, n, h),
         m <= n, \A i \in 1..m : b[i] = d[i]
  PROVE  \A i \in 0..m : g[i] = h[i]
<1> DEFINE P == {i \in Nat : i <= m => g[i] = h[i]}
<1>1. \A i \in 0..m : g[i] = IF i = 0 THEN <<>>
                             ELSE IF b[i].origin[1] = NoId THEN g[i - 1]
                             ELSE Append(g[i - 1], b[i].origin)
  BY DEF OriginsUpTo
<1>2. \A i \in 0..n : h[i] = IF i = 0 THEN <<>>
                             ELSE IF d[i].origin[1] = NoId THEN h[i - 1]
                             ELSE Append(h[i - 1], d[i].origin)
  BY DEF OriginsUpTo
<1>3. 0 \in P
  BY <1>1, <1>2
<1>4. ASSUME NEW i \in Nat, i \in P
      PROVE  i + 1 \in P
  <2>1. SUFFICES ASSUME i + 1 <= m PROVE g[i + 1] = h[i + 1]
    OBVIOUS
  <2>2. /\ i + 1 \in 0..m /\ i + 1 \in 0..n /\ i + 1 \in 1..m /\ i + 1 # 0 /\ (i + 1) - 1 = i
        /\ g[i] = h[i]
    BY <1>4, <2>1
  <2> DEFINE j == i + 1
  <2> HIDE DEF j
  <2>3. b[j] = d[j] /\ j \in 0..m /\ j \in 0..n /\ j # 0 /\ g[j - 1] = h[j - 1]
    BY <2>2 DEF j
  <2>4. g[j] = h[j]
    BY <1>1, <1>2, <2>3
  <2> QED
    BY <2>4 DEF j
<1>5. Nat \subseteq P
  <2> HIDE DEF P
  <2> QED
    BY <1>3, <1>4, InductionOverNat
<1> QED
  BY <1>5

\* What Origins is.
LEMMA OriginsAre ==
  ASSUME NEW batches, Len(batches) \in Nat
  PROVE  \E g : /\ OriginsUpTo(batches, Len(batches), g)
                /\ Origins(batches) = g[Len(batches)]
<1> DEFINE g == CHOOSE f : OriginsUpTo(batches, Len(batches), f)
<1>1. OriginsUpTo(batches, Len(batches), g)
  BY OriginsExist
<1>2. Origins(batches) = g[Len(batches)]
  BY DEF Origins, OriginsUpTo
<1> QED
  BY <1>1, <1>2

\* Origins lists the batches of clients, and no others.
LEMMA OriginsElements ==
  ASSUME NEW batches, Len(batches) \in Nat
  PROVE  /\ Origins(batches) \in Seq(Range(Origins(batches)))
         /\ \A x : x \in Range(Origins(batches)) <=>
              \E j \in 1..Len(batches) : batches[j].origin = x /\ batches[j].origin[1] # NoId
<1>1. PICK g : OriginsUpTo(batches, Len(batches), g) /\ Origins(batches) = g[Len(batches)]
  BY OriginsAre
<1> DEFINE n == Len(batches)
           Listed(i) == {j \in 1..i : batches[j].origin[1] # NoId}
           P == {i \in Nat : i <= n =>
                   /\ g[i] \in Seq(Range(g[i]))
                   /\ Range(g[i]) = {batches[j].origin : j \in Listed(i)}}
<1>2. \A i \in 0..n : g[i] = IF i = 0 THEN <<>>
                             ELSE IF batches[i].origin[1] = NoId THEN g[i - 1]
                             ELSE Append(g[i - 1], batches[i].origin)
  BY <1>1 DEF OriginsUpTo
<1>3. 0 \in P
  <2>1. g[0] = <<>> /\ Listed(0) = {}
    BY <1>2
  <2>2. Range(<<>>) = {} /\ <<>> \in Seq(Range(<<>>))
    BY DEF Range
  <2>3. {batches[j].origin : j \in {}} = {}
    OBVIOUS
  <2> QED
    BY <2>1, <2>2, <2>3
<1>4. ASSUME NEW i \in Nat, i \in P
      PROVE  i + 1 \in P
  <2>1. SUFFICES ASSUME i + 1 <= n
                 PROVE  /\ g[i + 1] \in Seq(Range(g[i + 1]))
                        /\ Range(g[i + 1]) = {batches[j].origin : j \in Listed(i + 1)}
    OBVIOUS
  <2> DEFINE j == i + 1
             e == batches[j].origin
  <2>2. /\ j \in 0..n /\ j # 0 /\ j - 1 = i
        /\ g[i] \in Seq(Range(g[i])) /\ Range(g[i]) = {batches[a].origin : a \in Listed(i)}
    BY <1>4, <2>1
  <2>3. Listed(j) = IF e[1] = NoId THEN Listed(i) ELSE Listed(i) \cup {j}
    <3>1. 1..j = 1..i \cup {j}
      OBVIOUS
    <3> HIDE DEF j
    <3> QED
      BY <3>1
  <2>4. g[j] = IF e[1] = NoId THEN g[i] ELSE Append(g[i], e)
    <3> HIDE DEF j
    <3> QED
      BY <1>2, <2>2
  <2> HIDE DEF j
  <2>5. CASE e[1] = NoId
    BY <2>2, <2>3, <2>4, <2>5 DEF j
  <2>6. CASE e[1] # NoId
    <3>1. g[j] \in Seq(Range(g[j])) /\ Range(g[j]) = Range(g[i]) \cup {e}
      <4> HIDE DEF e
      <4>1. /\ Append(g[i], e) \in Seq(Range(Append(g[i], e)))
            /\ Range(Append(g[i], e)) = Range(g[i]) \cup {e}
        BY <2>2, AppendElements
      <4> QED
        BY <2>4, <2>6, <4>1
    <3>2. {batches[a].origin : a \in Listed(j)} = {batches[a].origin : a \in Listed(i)} \cup {e}
      <4> HIDE DEF Listed
      <4> QED
        BY <2>3, <2>6
    <3> QED
      BY <2>2, <3>1, <3>2 DEF j
  <2> QED
    BY <2>5, <2>6
<1>5. Nat \subseteq P
  <2> HIDE DEF P
  <2> QED
    BY <1>3, <1>4, InductionOverNat
<1>6. n \in P
  <2> HIDE DEF P
  <2> QED
    BY <1>5
<1>7. n <= n
  OBVIOUS
<1>8. /\ g[n] \in Seq(Range(g[n]))
      /\ Range(g[n]) = {batches[j].origin : j \in Listed(n)}
  BY <1>6, <1>7
<1> QED
  BY <1>1, <1>8

\* An append of one client's batches lists them in their order; one of batches
\* without a client lists nothing.
LEMMA OriginsGrow ==
  ASSUME NEW l, IsLog(l), NEW records, RecordSet(records), ValidateRecordSet(records) = "None"
  PROVE  /\ (\A i \in DOMAIN records : records[i].origin[1] = NoId) =>
              Origins(Grown(l, records).batches) = Origins(l.batches)
         /\ (\A i \in DOMAIN records : records[i].origin[1] # NoId) =>
              Origins(Grown(l, records).batches)
                = Origins(l.batches) \o [i \in DOMAIN records |-> records[i].origin]
<1> DEFINE b == l.batches
           new == Grown(l, records).batches
           m == Len(b)
           k == Len(records)
           o == Origins(b)
           part(i) == [j \in 1..i |-> records[j].origin]
<1>1. /\ m \in Nat /\ DOMAIN records = 1..k /\ k \in Nat \ {0} /\ Len(new) = m + k
      /\ \A i \in 1..m : new[i] = b[i]
      /\ \A i \in 1..k : new[m + i].origin = records[i].origin
  <2>1. m \in Nat /\ DOMAIN records = 1..k /\ k \in Nat \ {0} /\ Len(new) = m + k
    BY GrownBatches, Zenon
  <2>2. \A i \in 1..m : new[i] = b[i]
    BY GrownBatches
  <2>3. \A i \in 1..k : new[m + i].origin = records[i].origin
    BY GrownBatches
  <2> QED
    BY <2>1, <2>2, <2>3
<1>2. o \in Seq(Range(o))
  BY <1>1, OriginsElements
<1> HIDE DEF b, new, m, k, o
<1>3. PICK g : OriginsUpTo(b, m, g) /\ o = g[m]
  BY <1>1, OriginsAre DEF m, o
<1>4. PICK h : OriginsUpTo(new, m + k, h) /\ Origins(new) = h[m + k]
  <2>1. Len(new) \in Nat
    BY <1>1
  <2> QED
    BY <1>1, <2>1, OriginsAre
<1>5. h[m] = o
  <2>1. m + k \in Nat /\ m <= m + k /\ m \in 0..m
    BY <1>1
  <2>2. \A i \in 0..m : g[i] = h[i]
    BY <1>1, <1>3, <1>4, <2>1, OriginsAgree
  <2> QED
    BY <1>3, <2>1, <2>2
<1>6. ASSUME NEW i \in Nat, i + 1 <= k
      PROVE  h[m + (i + 1)] = IF records[i + 1].origin[1] = NoId THEN h[m + i]
                              ELSE Append(h[m + i], records[i + 1].origin)
  <2>1. m + (i + 1) \in 0..(m + k) /\ m + (i + 1) # 0 /\ (m + (i + 1)) - 1 = m + i
        /\ i + 1 \in 1..k
    BY <1>1, <1>6
  <2>2. \A a \in 0..(m + k) : h[a] = IF a = 0 THEN <<>>
                                     ELSE IF new[a].origin[1] = NoId THEN h[a - 1]
                                     ELSE Append(h[a - 1], new[a].origin)
    BY <1>4 DEF OriginsUpTo
  <2> DEFINE a == m + (i + 1)
  <2> HIDE DEF a
  <2>3. h[a] = IF new[a].origin[1] = NoId THEN h[a - 1] ELSE Append(h[a - 1], new[a].origin)
    BY <2>1, <2>2 DEF a
  <2>4. new[a].origin = records[i + 1].origin /\ a - 1 = m + i
    BY <1>1, <2>1 DEF a
  <2> QED
    BY <2>3, <2>4 DEF a
<1>7. ASSUME \A i \in DOMAIN records : records[i].origin[1] = NoId
      PROVE  Origins(new) = o
  <2> DEFINE P == {i \in Nat : i <= k => h[m + i] = o}
  <2>1. 0 \in P
    <3>1. m + 0 = m
      BY <1>1
    <3> QED
      BY <1>5, <3>1
  <2>2. ASSUME NEW i \in Nat, i \in P
        PROVE  i + 1 \in P
    <3>1. SUFFICES ASSUME i + 1 <= k PROVE h[m + (i + 1)] = o
      OBVIOUS
    <3>2. i + 1 \in DOMAIN records /\ i <= k
      BY <1>1, <3>1
    <3> QED
      BY <1>6, <1>7, <2>2, <3>1, <3>2
  <2>3. Nat \subseteq P
    <3> HIDE DEF P
    <3> QED
      BY <2>1, <2>2, InductionOverNat
  <2>4. k \in P /\ k <= k
    BY <1>1, <2>3
  <2> QED
    BY <1>4, <2>4
<1>8. ASSUME \A i \in DOMAIN records : records[i].origin[1] # NoId
      PROVE  Origins(new) = o \o part(k)
  <2> DEFINE P == {i \in Nat : i <= k => h[m + i] = o \o part(i)}
  <2>1. 0 \in P
    <3>1. m + 0 = m /\ part(0) = <<>>
      BY <1>1
    <3>2. o \o <<>> = o
      BY <1>2
    <3> QED
      BY <1>5, <3>1, <3>2
  <2>2. ASSUME NEW i \in Nat, i \in P
        PROVE  i + 1 \in P
    <3> HIDE DEF part
    <3>1. SUFFICES ASSUME i + 1 <= k PROVE h[m + (i + 1)] = o \o part(i + 1)
      OBVIOUS
    <3>2. i + 1 \in DOMAIN records /\ i <= k
      BY <1>1, <3>1
    <3>3. h[m + (i + 1)] = Append(o \o part(i), records[i + 1].origin)
      BY <1>6, <1>8, <2>2, <3>1, <3>2
    <3>4. Append(o \o part(i), records[i + 1].origin) = o \o part(i + 1)
      <4> DEFINE e == records[i + 1].origin
                 R == Range(o) \cup Range(part(i)) \cup {e}
      <4>1. part(i) \in Seq(R) /\ o \in Seq(R) /\ e \in R
        <5>1. part(i) \in Seq(Range(part(i)))
          BY DEF Range, part
        <5> QED
          BY <5>1, <1>2
      <4>2. part(i + 1) = Append(part(i), e)
        BY DEF part
      <4> HIDE DEF R, e
      <4>3. Append(o \o part(i), e) = o \o Append(part(i), e)
        BY <4>1
      <4> QED
        BY <4>2, <4>3 DEF e
    <3> QED
      BY <3>3, <3>4
  <2>3. Nat \subseteq P
    <3> HIDE DEF P
    <3> QED
      BY <2>1, <2>2, InductionOverNat
  <2>4. k \in P /\ k <= k
    BY <1>1, <2>3
  <2> QED
    BY <1>4, <2>4
<1> QED
  BY <1>1, <1>7, <1>8 DEF new, o, b

\* The stored sends of a client, as ExactlyOnceLog sees them.
StoredIn(batches, c) ==
  {Origins(batches)[i][2] : i \in {j \in DOMAIN Origins(batches) : Origins(batches)[j][1] = c}}

\* They are those of the batches.
LEMMA StoredSends ==
  ASSUME NEW batches, Len(batches) \in Nat, DOMAIN batches = 1..Len(batches), NEW c, c # NoId
  PROVE  \A n : n \in StoredIn(batches, c) <=>
           \E j \in DOMAIN batches : batches[j].origin[1] = c /\ batches[j].origin[2] = n
<1> DEFINE o == Origins(batches)
<1>1. \A x : x \in Range(o) <=>
        \E j \in 1..Len(batches) : batches[j].origin = x /\ batches[j].origin[1] # NoId
  BY OriginsElements
<1>2. \A n : n \in StoredIn(batches, c) <=> \E i \in DOMAIN o : o[i][1] = c /\ o[i][2] = n
  BY DEF StoredIn
<1> HIDE DEF o
<1>3. \A i \in DOMAIN o : o[i] \in Range(o)
  BY DEF Range
<1>4. \A x \in Range(o) : \E i \in DOMAIN o : o[i] = x
  BY DEF Range
<1> TAKE n
<1>5. ASSUME n \in StoredIn(batches, c)
      PROVE  \E j \in DOMAIN batches : batches[j].origin[1] = c /\ batches[j].origin[2] = n
  <2>1. PICK i \in DOMAIN o : o[i][1] = c /\ o[i][2] = n
    BY <1>2, <1>5
  <2>2. PICK j \in 1..Len(batches) : batches[j].origin = o[i]
    BY <1>1, <1>3
  <2> QED
    BY <2>1, <2>2
<1>6. ASSUME NEW j \in DOMAIN batches, batches[j].origin[1] = c, batches[j].origin[2] = n
      PROVE  n \in StoredIn(batches, c)
  <2>1. batches[j].origin \in Range(o)
    BY <1>1, <1>6
  <2>2. PICK i \in DOMAIN o : o[i] = batches[j].origin
    BY <1>4, <2>1
  <2> QED
    BY <1>2, <1>6, <2>2
<1> QED
  BY <1>5, <1>6

\* Of a client whose first k sends are stored, these are they.
LEMMA StoredInTurn ==
  ASSUME ProduceInv, NEW c \in Client, NEW k \in Nat, HasStored(c, k)
  PROVE  Promise!Stored(c) = 1..k
<1> DEFINE stored == Promise!Stored(c)
<1>1. stored = StoredIn(log.batches, c)
  BY DEF Promise!Stored, StoredIn
<1>2. Len(log.batches) \in Nat /\ DOMAIN log.batches = 1..Len(log.batches) /\ c # NoId
  <2>1. IsLog(log)
    BY DEF ProduceInv, LogInv
  <2>2. c # NoId
    BY ClientAssumption
  <2> QED
    BY <2>1, <2>2 DEF IsLog
<1> HIDE DEF stored
<1>3. \A n : n \in stored <=>
        \E j \in DOMAIN log.batches : log.batches[j].origin[1] = c /\ log.batches[j].origin[2] = n
  BY <1>1, <1>2, StoredSends
<1>4. ASSUME NEW n \in stored
      PROVE  n \in 1..k
  <2>1. PICK j \in DOMAIN log.batches : log.batches[j].origin[1] = c /\ log.batches[j].origin[2] = n
    BY <1>3
  <2>2. PICK m \in 1..k : \E i \in DOMAIN Layout[m] : log.batches[j].origin = <<c, m, i>>
    BY <2>1 DEF HasStored
  <2> QED
    BY <2>1, <2>2
<1>5. ASSUME NEW n \in 1..k
      PROVE  n \in stored
  <2>1. PICK j \in DOMAIN log.batches : log.batches[j].origin = <<c, n, 1>>
    BY DEF HasStored, IsStored
  <2>2. log.batches[j].origin[1] = c /\ log.batches[j].origin[2] = n
    BY <2>1
  <2> QED
    BY <1>3, <2>2
<1> QED
  BY <1>4, <1>5 DEF stored

\* A send that is stored after a step is one that may be confirmed.
LEMMA StoredAfter ==
  ASSUME LogInv', NEW c \in Client, NEW n, IsStored(c, n)'
  PROVE  n \in Promise!Stored(c)'
<1> DEFINE stored == Promise!Stored(c)'
           batches == log'.batches
<1>1. stored = StoredIn(batches, c)
  BY DEF Promise!Stored, StoredIn
<1>2. Len(batches) \in Nat /\ DOMAIN batches = 1..Len(batches) /\ c # NoId
  BY ClientAssumption DEF LogInv, IsLog
<1>3. PICK j \in DOMAIN batches : batches[j].origin = <<c, n, 1>>
  BY DEF IsStored
<1> HIDE DEF stored, batches
<1>4. \A m : m \in stored <=>
        \E i \in DOMAIN batches : batches[i].origin[1] = c /\ batches[i].origin[2] = m
  BY <1>1, <1>2, StoredSends
<1>5. batches[j].origin[1] = c /\ batches[j].origin[2] = n
  BY <1>3
<1> QED
  BY <1>4, <1>5 DEF stored

\* Steps that store and confirm nothing are stutters of ExactlyOnceLog.
LEMMA StutterOf ==
  ASSUME Origins(log'.batches) = Origins(log.batches), confirmed' = confirmed
  PROVE  UNCHANGED Promise!vars
BY DEF Promise!vars

\* A delivered copy stores its send in turn, or stores nothing; what it
\* confirms is stored.
LEMMA DeliverPromise ==
  ASSUME ProduceInv, ProduceInv', NEW c \in Client, NEW n, NEW another \in BOOLEAN,
         NEW lost \in BOOLEAN, Deliver(c, n, another, lost)
  PROVE  Promise!Next
<1> DEFINE outcome == ProducePartition(SendOf(c, n))
<1>1. \A d \in Client : client'[d].id = client[d].id
  BY DeliverClient
<1>2. /\ log' = outcome.log
      /\ \/ confirmed' = confirmed
         \/ /\ outcome.reply.error = "None"
            /\ confirmed' = confirmed \cup {<<c, n, outcome.reply.base_offset>>}
  BY DeliverConfirms
<1>3. n \in wire[c] /\ LogInv'
  BY DEF Deliver, ProduceInv
<1>4. PICK k \in 0..client[c].sent :
        /\ HasStored(c, k)
        /\ \A m \in 1..client[c].sent : m \notin client[c].unanswered => m <= k
  BY DEF ProduceInv, Progress
<1>5. n \in DOMAIN Layout /\ k \in Nat
  BY <1>3, <1>4, CopiesAreNear, ClientIsReady
<1>6. Promise!Stored(c) = 1..k
  BY <1>4, <1>5, StoredInTurn
<1> HIDE DEF outcome
<1>7. /\ Promise!Store(c, n) \/ Origins(log'.batches) = Origins(log.batches)
      /\ outcome.reply.error = "None" => IsStored(c, n)'
  <2>1. CASE n = k + 1 /\ Accepted(log, SendOf(c, n))
    <3>1. IsStored(c, n)' /\ log' = Grown(log, SendOf(c, n)) /\ Ready(c, k)
      BY <1>1, <1>2, <1>3, <1>4, <2>1, DeliverStores DEF outcome
    <3>2. /\ RecordSet(SendOf(c, n)) /\ ValidateRecordSet(SendOf(c, n)) = "None"
          /\ DOMAIN SendOf(c, n) = DOMAIN Layout[n]
          /\ \A i \in DOMAIN Layout[n] : SendOf(c, n)[i].origin = <<c, n, i>>
      BY <1>5, <3>1, SendIsValid, SendReachesLog
    <3>3. \A i \in DOMAIN SendOf(c, n) : SendOf(c, n)[i].origin[1] # NoId
      BY <3>2, ClientAssumption
    <3>4. IsLog(log)
      BY DEF ProduceInv, LogInv
    <3>5. Origins(log'.batches) = Origins(log.batches) \o
            [i \in DOMAIN SendOf(c, n) |-> SendOf(c, n)[i].origin]
      BY <3>1, <3>2, <3>3, <3>4, OriginsGrow
    <3>6. [i \in DOMAIN SendOf(c, n) |-> SendOf(c, n)[i].origin]
            = [i \in DOMAIN Layout[n] |-> <<c, n, i>>]
      BY <3>2
    <3>7. Promise!Stored(c) = 1..(n - 1)
      BY <1>5, <1>6, <2>1
    <3>8. Promise!Store(c, n)
      BY <3>5, <3>6, <3>7 DEF Promise!Store
    <3> QED
      BY <3>1, <3>8
  <2>2. CASE ~(n = k + 1 /\ Accepted(log, SendOf(c, n)))
    <3>1. /\ outcome.log = log
          /\ outcome.reply.error = "None" => IsStored(c, n)
      BY <1>3, <1>4, <2>2, DeliveredUnstored DEF outcome
    <3>2. log' = log
      BY <1>2, <3>1
    <3> QED
      BY <3>1, <3>2 DEF IsStored
  <2> QED
    BY <2>1, <2>2
<1>8. \/ {<<x[1], x[2]>> : x \in confirmed'} = {<<x[1], x[2]>> : x \in confirmed}
      \/ Promise!Confirm(c, n)
  <2>1. CASE confirmed' = confirmed
    BY <2>1
  <2>2. CASE /\ outcome.reply.error = "None"
             /\ confirmed' = confirmed \cup {<<c, n, outcome.reply.base_offset>>}
    <3>1. n \in Promise!Stored(c)'
      BY <1>3, <1>7, <2>2, StoredAfter
    <3>2. PICK y : y = <<c, n, outcome.reply.base_offset>>
      OBVIOUS
    <3>3. y[1] = c /\ y[2] = n /\ confirmed' = confirmed \cup {y}
      BY <2>2, <3>2
    <3>4. {<<x[1], x[2]>> : x \in confirmed'} = {<<x[1], x[2]>> : x \in confirmed} \cup {<<c, n>>}
      BY <3>3
    <3> QED
      BY <3>1, <3>4 DEF Promise!Confirm
  <2> QED
    BY <1>2, <2>1, <2>2
<1> QED
  BY <1>5, <1>7, <1>8 DEF Promise!Next

\* Batches without a producer id are not among the promised ones.
LEMMA PlainIsUnlisted ==
  ASSUME ProduceInv, ProducePlain
  PROVE  Origins(log'.batches) = Origins(log.batches) /\ confirmed' = confirmed
<1>1. IsLog(log) /\ log.next_offset \in Nat
  BY DEF ProduceInv, LogInv, IsLog
<1>2. /\ RecordSet(Plain) /\ \A i \in DOMAIN Plain : Plain[i].origin[1] = NoId
      /\ log' = log \/ (Accepted(log, Plain) /\ log' = Grown(log, Plain))
  BY PlainOutcome
<1>3. CASE log' = log
  BY <1>3 DEF ProducePlain
<1>4. CASE Accepted(log, Plain) /\ log' = Grown(log, Plain)
  <2>1. ValidateRecordSet(Plain) = "None"
    BY <1>4 DEF Accepted
  <2>2. Origins(Grown(log, Plain).batches) = Origins(log.batches)
    BY <1>1, <1>2, <2>1, OriginsGrow
  <2> QED
    BY <1>4, <2>2 DEF ProducePlain
<1> QED
  BY <1>2, <1>3, <1>4

\* Every step is a step of ExactlyOnceLog or a stutter.
LEMMA StepPromise ==
  ASSUME ProduceInv, ProduceInv', [Next]_vars
  PROVE  [Promise!Next]_(Promise!vars)
<1>1. CASE log' = log /\ confirmed' = confirmed
  BY <1>1, StutterOf
<1>2. ASSUME NEW c \in Client, InitProducerId(c) \/ Send(c) \/ Lose(c) \/ ProduceOdd(c)
      PROVE  log' = log /\ confirmed' = confirmed
  <2>1. CASE InitProducerId(c) \/ Send(c) \/ Lose(c)
    BY <2>1 DEF InitProducerId, Send, Lose
  <2>2. CASE ProduceOdd(c)
    BY <2>2, OddSendsAreRefused DEF ProduceOdd
  <2> QED
    BY <1>2, <2>1, <2>2
<1>3. ASSUME NEW c \in Client, NEW n \in DOMAIN Layout, Resend(c, n)
      PROVE  log' = log /\ confirmed' = confirmed
  BY <1>3 DEF Resend
<1>4. ASSUME NEW c \in Client, NEW n \in DOMAIN Layout,
             NEW another \in BOOLEAN, NEW lost \in BOOLEAN, Deliver(c, n, another, lost)
      PROVE  Promise!Next
  BY <1>4, DeliverPromise
<1>5. CASE ProducePlain
  <2>1. Origins(log'.batches) = Origins(log.batches) /\ confirmed' = confirmed
    BY <1>5, PlainIsUnlisted
  <2> QED
    BY <2>1, StutterOf
<1>6. UNCHANGED vars => log' = log /\ confirmed' = confirmed
  BY DEF vars
<1> QED
  BY <1>1, <1>2, <1>3, <1>4, <1>5, <1>6 DEF Next

\* Idempotent production keeps its promise: whatever is lost, delayed, repeated
\* or sent by others, the sends of every client are stored whole, in order and
\* exactly once.
THEOREM SendsAreStoredExactlyOnce == Spec => ExactlyOnce
<1>1. Init => Promise!Init
  <2>1. Init => log.batches = <<>> /\ confirmed = {}
    BY DEF Init, NewLog
  <2>2. Origins(<<>>) = <<>>
    <3>1. Len(<<>>) = 0
      OBVIOUS
    <3>2. PICK g : OriginsUpTo(<<>>, 0, g) /\ Origins(<<>>) = g[0]
      BY <3>1, OriginsAre
    <3> QED
      BY <3>2 DEF OriginsUpTo
  <2> QED
    BY <2>1, <2>2 DEF Promise!Init
<1>2. ProduceInv /\ ProduceInv' /\ [Next]_vars => [Promise!Next]_(Promise!vars)
  BY StepPromise
<1> QED
  BY <1>1, <1>2, ProduceInvariance, PTL DEF Spec, ExactlyOnce, Promise!Spec
=============================================================================
