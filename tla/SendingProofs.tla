------------------------------ MODULE SendingProofs ------------------------------
(***************************************************************************)
(* What a sent message names went before it and the connection is given    *)
(* back; requests of a session are refused with new tokens only; and a     *)
(* data union's withdrawals are reported truly and signatures pay once.    *)
(* For any number of partitions, requests, tokens, calls, members and      *)
(* failures: the bounds of the runs are not assumed.                       *)
(***************************************************************************)
EXTENDS MCSending, Integers, TLAPS

-----------------------------------------------------------------------------
(***************************************************************************)
(* Publishing. Both queues keep the order of the calls as long as no stop  *)
(* comes between (QueuesInOrder, ChainedInTurn), so the predecessor a      *)
(* chainer remembers (ChainersRemember) was called for, and sent, earlier. *)
(***************************************************************************)
Content == [partition : Partitions, timestamp : Timestamps]

\* Calls, and what there is of a message at each stage.
CallsSoFar ==
    /\ \A p \in Publishes :
          /\ p <= called <=> creating[p] # "none"
          /\ p <= called <=> sending[p] # "none"
          /\ p <= called => content[p] \in Content /\ queues[p] <= epoch
          /\ message[p] # None => p <= called /\ creating[p] # "queued"
          /\ creating[p] \in {"chained", "created"} => message[p] # None
          /\ sending[p] = "sent" => message[p] # None
          /\ sending[p] = "cleared" => queues[p] < epoch
    /\ handle => called >= 1

Together(q, p) == q < p /\ p <= called /\ queues[q] = queues[p]

\* A call behind one that waits waits as well, unless a stop has cleared it,
\* and then everything behind it is cleared.
QueuesInOrder ==
    \A q, p \in Publishes : Together(q, p) =>
        /\ sending[q] = "queued" => sending[p] \in {"queued", "cleared"}
        /\ sending[q] = "cleared" => sending[p] = "cleared"
ChainedInTurn ==
    \A q, p \in Publishes : Together(q, p) /\ message[p] # None => creating[q] \notin Waiting

\* Among these messages, q has the one of chain (e, c) with this number.
Has(those, q, e, c, number) ==
    /\ those[q] # None /\ those[q].epoch = e
    /\ those[q].partition = c /\ those[q].number = number
ChainersRemember ==
    \A c \in Partitions : chainers[c] # None =>
        \E q \in Publishes : Has(message, q, epoch, c, chainers[c])
NamesAnEarlierOne ==
    \A p \in Publishes : message[p] # None /\ message[p].previous # None =>
        \E q \in Publishes :
            /\ Has(message, q, message[p].epoch, message[p].partition, message[p].previous)
            /\ Straddles(p) \/ Straddles(q) \/ q < p

\* Only the last call can leave the handle without a timer.
LastCallHolds == handle => timer \/ stopping \/ sending[called] \in {"queued", "rejected"}

IInv ==
    /\ TypeOK /\ CallsSoFar /\ QueuesInOrder /\ ChainedInTurn
    /\ ChainersRemember /\ NamesAnEarlierOne /\ LastCallHolds

LEMMA InitHolds == ASSUME Init PROVE IInv
<1>1. TypeOK
  <2>1. called \in 0..MaxPublishes /\ epoch \in 0..MaxStops /\ faults \in 0..MaxFaults
    BY PublisherAssumption DEF Init
  <2>2. QED
    BY <2>1 DEF Init, TypeOK
<1>2. CallsSoFar
  BY PublisherAssumption DEF Init, CallsSoFar, Publishes
<1>3. QueuesInOrder /\ ChainedInTurn /\ ChainersRemember /\ NamesAnEarlierOne /\ LastCallHolds
  BY DEF Init, QueuesInOrder, ChainedInTurn, ChainersRemember, NamesAnEarlierOne, LastCallHolds,
         Has, Publishes
<1>4. QED
  BY <1>1, <1>2, <1>3 DEF IInv

-----------------------------------------------------------------------------
(* What a conjunct does not mention does not disturb it.                   *)

LEMMA ChainsStay ==
    ASSUME ChainersRemember, NamesAnEarlierOne,
           UNCHANGED message,
           \A p \in Publishes : message[p] # None => queues'[p] = queues[p],
           UNCHANGED <<chainers, epoch>> \/ (\A c \in Partitions : chainers'[c] = None)
    PROVE  ChainersRemember' /\ NamesAnEarlierOne'
<1>1. ChainersRemember'
  BY DEF ChainersRemember, Has
<1>2. NamesAnEarlierOne'
  BY DEF NamesAnEarlierOne, Has, Straddles
<1>3. QED
  BY <1>1, <1>2

-----------------------------------------------------------------------------
(* One lemma per kind of step.                                             *)

LEMMA PublishKeeps ==
    ASSUME IInv, NEW c \in Partitions, NEW t \in Timestamps, Publish(c, t)
    PROVE  IInv'
<1> DEFINE n == called + 1
<1>1. /\ called \in Nat /\ n \in Publishes /\ called' = n /\ MaxPublishes \in Nat
      /\ content' = [content EXCEPT ![n] = [partition |-> c, timestamp |-> t]]
      /\ queues' = [queues EXCEPT ![n] = epoch]
      /\ creating' = [creating EXCEPT ![n] = "queued"] /\ sending' = [sending EXCEPT ![n] = "queued"]
      /\ handle' = TRUE /\ timer' = FALSE
      /\ UNCHANGED <<message, chainers, epoch, stopping, faults>>
  BY PublisherAssumption DEF IInv, TypeOK, Publish, Publishes, chains
<1>2. TypeOK'
  <2>1. called' \in 0..MaxPublishes /\ epoch \in Nat
    BY <1>1 DEF Publishes, IInv, TypeOK
  <2>2. content' \in [Publishes -> [partition : Partitions, timestamp : Timestamps] \union {None}]
    BY <1>1 DEF IInv, TypeOK
  <2>3. /\ queues' \in [Publishes -> Nat]
        /\ creating' \in [Publishes -> {"none", "queued", "chained", "created", "failed", "cleared"}]
        /\ sending' \in [Publishes -> {"none", "queued", "sent", "failed", "rejected", "cleared"}]
    BY <1>1, <2>1 DEF IInv, TypeOK
  <2>4. QED
    BY <1>1, <2>1, <2>2, <2>3 DEF IInv, TypeOK
<1>3. \A p \in Publishes : p \in Nat /\ (p <= called' <=> (p = n \/ p <= called)) /\ (p <= called => p # n)
  BY <1>1 DEF Publishes
<1>4. \A p \in Publishes : p # n => /\ creating'[p] = creating[p] /\ sending'[p] = sending[p]
                                    /\ queues'[p] = queues[p] /\ content'[p] = content[p]
  BY <1>1 DEF IInv, TypeOK
<1>5. /\ creating'[n] = "queued" /\ sending'[n] = "queued" /\ queues'[n] = epoch
      /\ content'[n] = [partition |-> c, timestamp |-> t] /\ message[n] = None
  BY <1>1 DEF IInv, TypeOK, CallsSoFar
<1>6. CallsSoFar'
  <2> SUFFICES ASSUME NEW p \in Publishes
               PROVE  /\ p <= called' <=> creating'[p] # "none"
                      /\ p <= called' <=> sending'[p] # "none"
                      /\ p <= called' => content'[p] \in Content /\ queues'[p] <= epoch
                      /\ message[p] # None => p <= called' /\ creating'[p] # "queued"
                      /\ creating'[p] \in {"chained", "created"} => message[p] # None
                      /\ sending'[p] = "sent" => message[p] # None
                      /\ sending'[p] = "cleared" => queues'[p] < epoch
    BY <1>1 DEF CallsSoFar
  <2>1. CASE p = n
    BY <1>1, <1>3, <1>5, <2>1 DEF Content, IInv, TypeOK
  <2>2. CASE p # n
    BY <1>1, <1>3, <1>4, <2>2 DEF IInv, CallsSoFar
  <2>3. QED
    BY <2>1, <2>2
<1>7. QueuesInOrder'
  <2> SUFFICES ASSUME NEW q \in Publishes, NEW p \in Publishes, Together(q, p)'
               PROVE  /\ sending'[q] = "queued" => sending'[p] \in {"queued", "cleared"}
                      /\ sending'[q] = "cleared" => sending'[p] = "cleared"
    BY DEF QueuesInOrder
  <2>1. q # n
    BY <1>1, <1>3 DEF Together
  <2>2. CASE p = n
    BY <1>1, <1>3, <1>4, <1>5, <2>1, <2>2 DEF Together, IInv, CallsSoFar, TypeOK
  <2>3. CASE p # n
    BY <1>3, <1>4, <2>1, <2>3 DEF Together, IInv, QueuesInOrder
  <2>4. QED
    BY <2>2, <2>3
<1>8. ChainedInTurn'
  <2> SUFFICES ASSUME NEW q \in Publishes, NEW p \in Publishes, Together(q, p)', message[p] # None
               PROVE  creating'[q] \notin Waiting
    BY <1>1 DEF ChainedInTurn
  <2>1. p # n /\ q # n
    BY <1>1, <1>3, <1>5 DEF Together
  <2>2. QED
    BY <1>3, <1>4, <2>1 DEF Together, IInv, ChainedInTurn
<1>9. ChainersRemember' /\ NamesAnEarlierOne'
  <2>1. \A p \in Publishes : message[p] # None => queues'[p] = queues[p]
    BY <1>4, <1>5
  <2>2. QED
    BY <1>1, <2>1, ChainsStay DEF IInv
<1>10. LastCallHolds'
  BY <1>1, <1>5 DEF LastCallHolds
<1>11. QED
  BY <1>2, <1>6, <1>7, <1>8, <1>9, <1>10 DEF IInv
\* A message that is encrypted and signed, or cannot be, leaves the creating queue.
LEMMA CreatedKeeps ==
    ASSUME IInv, NEW p \in Publishes, NEW to \in {"created", "failed"},
           creating[p] \in Waiting, to = "created" => creating[p] = "chained",
           Creates(p, to), UNCHANGED chains, faults' \in 0..MaxFaults
    PROVE  IInv'
<1>1. /\ creating' = [creating EXCEPT ![p] = to]
      /\ UNCHANGED <<called, content, queues, sending, message, chainers, epoch, stopping, handle, timer>>
  BY DEF Creates, chains, handles
<1>2. TypeOK'
  BY <1>1 DEF IInv, TypeOK
<1>3. \A q \in Publishes : creating'[q] = IF q = p THEN to ELSE creating[q]
  BY <1>1 DEF IInv, TypeOK
<1>4. CallsSoFar'
  BY <1>1, <1>3 DEF IInv, CallsSoFar, Waiting
<1>5. QueuesInOrder'
  BY <1>1 DEF IInv, QueuesInOrder, Together
<1>6. ChainedInTurn'
  BY <1>1, <1>3 DEF IInv, ChainedInTurn, Together, Waiting
<1>7. ChainersRemember' /\ NamesAnEarlierOne'
  BY <1>1, ChainsStay DEF IInv
<1>8. LastCallHolds'
  BY <1>1 DEF IInv, LastCallHolds
<1>9. QED
  BY <1>2, <1>4, <1>5, <1>6, <1>7, <1>8 DEF IInv

\* The chainer hands out a number and a reference: it is here that the order of
\* the creating queue makes the one named an earlier call.
LEMMA ChainKeeps ==
    ASSUME IInv, NEW p \in Publishes, Chain(p)
    PROVE  IInv'
<1> DEFINE c == content[p].partition
           t == content[p].timestamp
           number == [timestamp |-> t, sequence |-> NextSequence(chainers[c], t)]
           chained == [epoch |-> epoch, partition |-> c, number |-> number, previous |-> chainers[c]]
<1>1. /\ creating[p] = "queued"
      /\ \A q \in 1..(p - 1) : queues[q] = queues[p] => creating[q] \notin Waiting
      /\ creating' = [creating EXCEPT ![p] = "chained"]
      /\ message' = [message EXCEPT ![p] = chained]
      /\ chainers' = IF Backdated(chainers[c], t) THEN chainers ELSE [chainers EXCEPT ![c] = number]
      /\ UNCHANGED <<called, content, queues, sending, epoch, stopping, handle, timer, faults>>
  BY DEF Chain, Creates, First, handles
<1>2. /\ p \in Nat /\ p <= called /\ content[p] \in Content /\ message[p] = None
      /\ c \in Partitions /\ t \in Timestamps /\ t \in Nat
      /\ epoch \in Nat
      /\ chainers[c] \in NumberPair \union {None}
  <2>1. p \in Nat /\ epoch \in Nat
    BY PublisherAssumption DEF IInv, TypeOK, Publishes
  <2>2. p <= called /\ content[p] \in Content /\ message[p] = None
    BY <1>1 DEF IInv, CallsSoFar
  <2>3. c \in Partitions /\ t \in Timestamps /\ t \in Nat
    BY <2>2, PublisherAssumption DEF Content
  <2>4. QED
    BY <2>1, <2>2, <2>3 DEF IInv, TypeOK
<1>3. number \in NumberPair
  BY <1>2 DEF NextSequence, NumberPair
<1>4. chained \in Message /\ number # None /\ chained # None
  BY <1>2, <1>3, PublisherAssumption DEF Message, NumberPair
<1>5. /\ chained.epoch = epoch /\ chained.partition = c
      /\ chained.number = number /\ chained.previous = chainers[c]
  OBVIOUS
<1> HIDE DEF number, chained, c, t
<1>6. /\ \A q \in Publishes : message'[q] = IF q = p THEN chained ELSE message[q]
      /\ \A q \in Publishes : creating'[q] = IF q = p THEN "chained" ELSE creating[q]
  BY <1>1 DEF IInv, TypeOK
<1>7. TypeOK'
  BY <1>1, <1>2, <1>3, <1>4 DEF IInv, TypeOK
<1>8. CallsSoFar'
  BY <1>1, <1>2, <1>4, <1>6 DEF IInv, CallsSoFar
<1>9. QueuesInOrder' /\ LastCallHolds'
  BY <1>1 DEF IInv, QueuesInOrder, Together, LastCallHolds
<1>10. ChainedInTurn'
  <2> SUFFICES ASSUME NEW q \in Publishes, NEW r \in Publishes, Together(q, r), message'[r] # None
               PROVE  creating'[q] \notin Waiting
    BY <1>1 DEF ChainedInTurn, Together
  <2>1. q \in Nat /\ r \in Nat /\ q < r /\ queues[q] = queues[r]
    BY DEF Together, Publishes
  <2>2. CASE r = p
    <3>1. q \in 1..(p - 1) /\ q # p
      BY <1>2, <2>1, <2>2 DEF Publishes
    <3>2. QED
      BY <1>1, <1>6, <2>1, <2>2, <3>1
  <2>3. CASE r # p
    <3>1. message[r] # None
      BY <1>6, <2>3
    <3>2. creating[q] \notin Waiting
      BY <3>1 DEF IInv, ChainedInTurn
    <3>3. QED
      BY <1>1, <1>6, <3>2 DEF Waiting
  <2>4. QED
    BY <2>2, <2>3
\* Messages that are there stay what they are.
<1>11. ASSUME NEW q \in Publishes, NEW e, NEW d, NEW x, Has(message, q, e, d, x)
       PROVE  q # p /\ Has(message', q, e, d, x) /\ (Straddles(q) => Straddles(q)')
  BY <1>1, <1>2, <1>6, <1>11 DEF Has, Straddles
<1>12. ChainersRemember'
  <2> SUFFICES ASSUME NEW d \in Partitions, chainers'[d] # None
               PROVE  \E q \in Publishes : Has(message', q, epoch, d, chainers'[d])
    BY <1>1 DEF ChainersRemember, Has
  <2>1. CASE chainers'[d] = chainers[d]
    <3>1. PICK q \in Publishes : Has(message, q, epoch, d, chainers[d])
      BY <2>1 DEF IInv, ChainersRemember
    <3>2. Has(message', q, epoch, d, chainers[d])
      BY <1>11, <3>1
    <3>3. QED
      BY <2>1, <3>2
  <2>2. CASE chainers'[d] # chainers[d]
    <3>1. d = c /\ chainers'[d] = number
      BY <1>1, <1>2, <2>2 DEF IInv, TypeOK
    <3>2. QED
      BY <1>1, <1>4, <1>5, <1>6, <3>1 DEF Has
  <2>3. QED
    BY <2>1, <2>2
<1>13. NamesAnEarlierOne'
  <2> SUFFICES ASSUME NEW r \in Publishes, message'[r] # None, message'[r].previous # None
               PROVE  \E q \in Publishes :
                          /\ Has(message', q, message'[r].epoch, message'[r].partition, message'[r].previous)
                          /\ Straddles(r)' \/ Straddles(q)' \/ q < r
    BY DEF NamesAnEarlierOne
  <2>1. CASE r = p
    <3>1. message'[r] = chained /\ chainers[c] # None
      BY <1>5, <1>6, <2>1
    <3>2. PICK q \in Publishes : Has(message, q, epoch, c, chainers[c])
      BY <1>2, <3>1 DEF IInv, ChainersRemember
    <3>3. q # p /\ message'[q] = message[q] /\ message[q] # None /\ message[q].epoch = epoch
      BY <1>2, <1>6, <3>2 DEF Has
    <3>4. Has(message', q, message'[r].epoch, message'[r].partition, message'[r].previous)
      BY <1>5, <3>1, <3>2, <3>3 DEF Has
    <3>5. ASSUME ~Straddles(r)', ~Straddles(q)' PROVE q < r
      <4>1. queues[q] = queues[p]
        BY <1>1, <1>5, <2>1, <3>1, <3>3, <3>5 DEF Straddles
      <4>2. q <= called /\ q \in Nat /\ called \in Nat
        BY <3>3 DEF IInv, CallsSoFar, TypeOK, Publishes
      <4>3. ~(p < q)
        BY <1>1, <3>3, <4>1, <4>2 DEF IInv, ChainedInTurn, Together, Waiting
      <4>4. QED
        BY <1>2, <2>1, <3>3, <4>2, <4>3
    <3>6. QED
      BY <3>4, <3>5
  <2>2. CASE r # p
    <3>1. message'[r] = message[r] /\ (Straddles(r) => Straddles(r)')
      BY <1>1, <1>6, <2>2 DEF Straddles
    <3>2. PICK q \in Publishes :
             /\ Has(message, q, message[r].epoch, message[r].partition, message[r].previous)
             /\ Straddles(r) \/ Straddles(q) \/ q < r
      BY <3>1 DEF IInv, NamesAnEarlierOne
    <3>3. message'[q] = message[q] /\ (Straddles(q) => Straddles(q)')
      BY <1>1, <1>2, <1>6, <3>2 DEF Has, Straddles
    <3>4. Has(message', q, message'[r].epoch, message'[r].partition, message'[r].previous)
      BY <3>1, <3>2, <3>3 DEF Has
    <3>5. QED
      BY <3>1, <3>2, <3>3, <3>4
  <2>3. QED
    BY <2>1, <2>2
<1>14. QED
  BY <1>7, <1>8, <1>9, <1>10, <1>12, <1>13 DEF IInv
\* A call leaves the sending queue, after those before it.
LEMMA SentKeeps ==
    ASSUME IInv, NEW p \in Publishes, NEW to \in {"sent", "failed", "rejected"},
           First(sending, p), to = "sent" => creating[p] = "created", Sends(p, to), faults' \in 0..MaxFaults,
           IF to = "rejected" THEN timer' = timer ELSE timer' = handle
    PROVE  IInv'
<1>1. /\ sending' = [sending EXCEPT ![p] = to]
      /\ UNCHANGED <<called, content, queues, creating, message, chainers, epoch, stopping, handle>>
  BY DEF Sends, chains
<1>2. TypeOK'
  BY <1>1 DEF IInv, TypeOK
<1>3. \A q \in Publishes : sending'[q] = IF q = p THEN to ELSE sending[q]
  BY <1>1 DEF IInv, TypeOK
<1>4. sending[p] = "queued"
  BY DEF First, Waiting, IInv, TypeOK
<1>5. CallsSoFar'
  BY <1>1, <1>3, <1>4 DEF IInv, CallsSoFar
<1>6. QueuesInOrder'
  <2> SUFFICES ASSUME NEW q \in Publishes, NEW r \in Publishes, Together(q, r)
               PROVE  /\ sending'[q] = "queued" => sending'[r] \in {"queued", "cleared"}
                      /\ sending'[q] = "cleared" => sending'[r] = "cleared"
    BY <1>1 DEF QueuesInOrder, Together
  <2>1. /\ sending[q] = "queued" => sending[r] \in {"queued", "cleared"}
        /\ sending[q] = "cleared" => sending[r] = "cleared"
    BY DEF IInv, QueuesInOrder
  <2>2. ASSUME r = p PROVE sending[q] # "queued" /\ sending[q] # "cleared"
    <3>1. q \in 1..(p - 1) /\ queues[q] = queues[p]
      BY <2>2 DEF Together, Publishes
    <3>2. QED
      BY <1>4, <2>1, <2>2, <3>1 DEF First, Waiting
  <2>3. QED
    BY <1>3, <2>1, <2>2
<1>7. ChainedInTurn'
  BY <1>1 DEF IInv, ChainedInTurn, Together
<1>8. ChainersRemember' /\ NamesAnEarlierOne'
  BY <1>1, ChainsStay DEF IInv
<1>9. LastCallHolds'
  <2>1. handle => called \in Publishes
    BY DEF IInv, TypeOK, CallsSoFar, Publishes
  <2>2. QED
    BY <1>1, <1>3, <2>1 DEF IInv, LastCallHolds
<1>10. QED
  BY <1>2, <1>5, <1>6, <1>7, <1>8, <1>9 DEF IInv

LEMMA StopKeeps == ASSUME IInv, Stop PROVE IInv'
<1>1. /\ creating' = Cleared(creating) /\ sending' = Cleared(sending)
      /\ chainers' = [c \in Partitions |-> None]
      /\ epoch' = epoch + 1 /\ epoch < MaxStops /\ epoch \in Nat
      /\ timer' = FALSE /\ stopping' = TRUE
      /\ UNCHANGED <<called, content, queues, message, handle, faults>>
  BY PublisherAssumption DEF Stop, IInv, TypeOK
<1>2. \A q \in Publishes :
         /\ creating'[q] = IF creating[q] = "queued" /\ ~First(creating, q) THEN "cleared" ELSE creating[q]
         /\ sending'[q] = IF sending[q] = "queued" /\ ~First(sending, q) THEN "cleared" ELSE sending[q]
  BY <1>1 DEF Cleared
<1>3. TypeOK'
  <2>1. /\ creating' \in [Publishes -> {"none", "queued", "chained", "created", "failed", "cleared"}]
        /\ sending' \in [Publishes -> {"none", "queued", "sent", "failed", "rejected", "cleared"}]
    BY <1>1 DEF Cleared, IInv, TypeOK
  <2>2. epoch' \in 0..MaxStops
    BY <1>1, PublisherAssumption
  <2>3. QED
    BY <1>1, <2>1, <2>2 DEF IInv, TypeOK
<1>4. CallsSoFar'
  <2> SUFFICES ASSUME NEW p \in Publishes
               PROVE  /\ p <= called <=> creating'[p] # "none"
                      /\ p <= called <=> sending'[p] # "none"
                      /\ p <= called => content[p] \in Content /\ queues[p] <= epoch + 1
                      /\ message[p] # None => p <= called /\ creating'[p] # "queued"
                      /\ creating'[p] \in {"chained", "created"} => message[p] # None
                      /\ sending'[p] = "sent" => message[p] # None
                      /\ sending'[p] = "cleared" => queues[p] < epoch + 1
    BY <1>1 DEF CallsSoFar, IInv
  <2>1. queues[p] \in Nat
    BY DEF IInv, TypeOK
  <2>2. QED
    BY <1>1, <1>2, <2>1 DEF IInv, CallsSoFar
<1>5. QueuesInOrder'
  <2> SUFFICES ASSUME NEW q \in Publishes, NEW p \in Publishes, Together(q, p)
               PROVE  /\ sending'[q] = "queued" => sending'[p] \in {"queued", "cleared"}
                      /\ sending'[q] = "cleared" => sending'[p] = "cleared"
    BY <1>1 DEF QueuesInOrder, Together
  <2>1. /\ sending[q] = "queued" => sending[p] \in {"queued", "cleared"}
        /\ sending[q] = "cleared" => sending[p] = "cleared"
    BY DEF IInv, QueuesInOrder
  <2>2. sending[q] = "queued" => ~First(sending, p)
    <3>1. q \in 1..(p - 1) /\ queues[q] = queues[p]
      BY DEF Together, Publishes
    <3>2. QED
      BY <3>1 DEF First, Waiting
  <2>3. QED
    BY <1>2, <2>1, <2>2
<1>6. ChainedInTurn'
  BY <1>1, <1>2 DEF IInv, ChainedInTurn, Together, Waiting
<1>7. ChainersRemember' /\ NamesAnEarlierOne'
  BY <1>1, ChainsStay DEF IInv
<1>8. LastCallHolds'
  BY <1>1 DEF LastCallHolds
<1>9. QED
  BY <1>3, <1>4, <1>5, <1>6, <1>7, <1>8 DEF IInv

\* The handle is removed, or nothing happens.
LEMMA HandleKeeps ==
    ASSUME IInv, UNCHANGED <<called, content, queues, tasks, chains, epoch, faults>>,
           \/ handle' = FALSE /\ timer' \in BOOLEAN /\ stopping' \in BOOLEAN
           \/ UNCHANGED <<handle, timer, stopping>>
    PROVE  IInv'
<1>1. UNCHANGED <<called, content, queues, creating, sending, message, chainers, epoch, faults>>
  BY DEF tasks, chains
<1>2. TypeOK'
  BY <1>1 DEF IInv, TypeOK
<1>3. CallsSoFar' /\ LastCallHolds'
  <2>1. CASE handle' = FALSE
    BY <1>1, <2>1 DEF IInv, CallsSoFar, LastCallHolds
  <2>2. CASE UNCHANGED <<handle, timer, stopping>>
    BY <1>1, <2>2 DEF IInv, CallsSoFar, LastCallHolds
  <2>3. QED
    BY <2>1, <2>2
<1>4. QueuesInOrder' /\ ChainedInTurn'
  BY <1>1 DEF IInv, QueuesInOrder, ChainedInTurn, Together
<1>5. ChainersRemember' /\ NamesAnEarlierOne'
  BY <1>1, ChainsStay DEF IInv
<1>6. QED
  BY <1>2, <1>3, <1>4, <1>5 DEF IInv

LEMMA StepHolds == ASSUME IInv, [Next]_vars PROVE IInv'
<1>1. faults \in 0..MaxFaults /\ MaxFaults \in Nat /\ (Fault => faults' \in 0..MaxFaults)
  BY PublisherAssumption DEF IInv, TypeOK, Fault
<1>2. CASE \E c \in Partitions, t \in Timestamps : Publish(c, t)
  BY <1>2, PublishKeeps
<1>3. ASSUME NEW p \in Publishes, Chain(p) PROVE IInv'
  BY <1>3, ChainKeeps
<1>4. ASSUME NEW p \in Publishes, CreateEnds(p) PROVE IInv'
  BY <1>1, <1>4, CreatedKeeps DEF CreateEnds, Waiting
<1>5. ASSUME NEW p \in Publishes, CreateFails(p) PROVE IInv'
  BY <1>1, <1>5, CreatedKeeps DEF CreateFails, First
<1>6. ASSUME NEW p \in Publishes, DepsFail(p) PROVE IInv'
  BY <1>1, <1>6, SentKeeps DEF DepsFail
<1>7. ASSUME NEW p \in Publishes, Rejects(p) PROVE IInv'
  BY <1>1, <1>7, SentKeeps DEF Rejects
<1>8. ASSUME NEW p \in Publishes, SendSucceeds(p) PROVE IInv'
  BY <1>1, <1>8, SentKeeps DEF SendSucceeds, Settles
<1>9. ASSUME NEW p \in Publishes, SendFails(p) PROVE IInv'
  BY <1>1, <1>9, SentKeeps DEF SendFails, Settles
<1>10. CASE TimerFires
  BY <1>10, HandleKeeps DEF TimerFires, IInv, TypeOK
<1>11. CASE Stop
  BY <1>11, StopKeeps
<1>12. CASE StopEnds
  BY <1>12, HandleKeeps DEF StopEnds, IInv, TypeOK
<1>13. CASE UNCHANGED vars
  BY <1>13, HandleKeeps DEF vars, handles
<1>14. QED
  BY <1>2, <1>3, <1>4, <1>5, <1>6, <1>7, <1>8, <1>9, <1>10, <1>11, <1>12, <1>13
     DEF Next, Works, Breaks

LEMMA InvariantHolds == Spec => []IInv
BY InitHolds, StepHolds, PTL DEF Spec

-----------------------------------------------------------------------------
(* What subscribers and the connection may rely on.                        *)

\* Every message has a number and a reference of its chain, every call a place in its queues.
THEOREM TypeCorrect == Spec => []TypeOK
<1>1. IInv => TypeOK
  BY DEF IInv
<1>2. QED
  BY InvariantHolds, <1>1, PTL

\* The message that a sent message names as its predecessor was sent before it, or its publisher was
\* told that it failed: createStreamMessage and the send queue both keep the order of the calls.
THEOREM PredecessorsWentFirst == Spec => []PredecessorsGoFirst
<1>1. ASSUME IInv PROVE PredecessorsGoFirst
  <2> SUFFICES ASSUME NEW p \in Publishes, sending[p] = "sent",
                      ~Straddles(p), message[p].previous # None
               PROVE  \E q \in Publishes :
                          /\ Has(message, q, message[p].epoch, message[p].partition, message[p].previous)
                          /\ Straddles(q) \/ sending[q] \in {"sent", "failed", "rejected"}
    BY DEF PredecessorsGoFirst, Has
  <2>1. PICK q \in Publishes :
           /\ Has(message, q, message[p].epoch, message[p].partition, message[p].previous)
           /\ Straddles(p) \/ Straddles(q) \/ q < p
    BY <1>1 DEF IInv, NamesAnEarlierOne, CallsSoFar
  <2>2. ASSUME ~Straddles(q) PROVE sending[q] \in {"sent", "failed", "rejected"}
    <3>1. Together(q, p)
      BY <1>1, <2>1, <2>2 DEF Together, Has, Straddles, IInv, CallsSoFar
    <3>2. sending[q] # "queued" /\ sending[q] # "cleared"
      BY <1>1, <3>1 DEF IInv, QueuesInOrder
    <3>3. sending[q] # "none"
      BY <1>1, <2>1 DEF IInv, CallsSoFar, Has
    <3>4. QED
      BY <1>1, <3>2, <3>3 DEF IInv, TypeOK
  <2>3. QED
    BY <2>1, <2>2
<1>2. QED
  BY InvariantHolds, <1>1, PTL

\* While the publisher has its handle, a message is on its way or something will remove it,
\* unless the last message was rejected before refreshAutoDisconnectTimeout could start the timer.
THEOREM TheHandleGoesBack == Spec => []HandleIsGivenBack
<1>1. ASSUME IInv PROVE HandleIsGivenBack
  <2>1. handle => called \in Publishes
    BY <1>1 DEF IInv, TypeOK, CallsSoFar, Publishes
  <2>2. QED
    BY <1>1, <2>1 DEF IInv, LastCallHolds, HandleIsGivenBack
<1>2. QED
  BY InvariantHolds, <1>1, PTL

-----------------------------------------------------------------------------
(***************************************************************************)
(* The session. What is inductive: the login that runs is the only one and *)
(* runs while logging in, the request of a logout is made while logging    *)
(* out and waits only for itself, those who wait do so for what runs, and  *)
(* a second try has a token issued after the request was made.             *)
(***************************************************************************)
Places == Sessions!Pending \union {"idle", "done", "failed", "refused"}
Entry == [at : Places, token : Nat, retried : BOOLEAN, born : Nat]

SessionTyped ==
    /\ state \in {"loggedOut", "loggingIn", "loggedIn", "loggingOut"}
    /\ sessionToken \in Nat /\ issued \in Nat /\ logins \in Nat
    /\ http \in [Sessions!All -> Entry]
    /\ accepted \subseteq Nat

TokensWereIssued ==
    /\ sessionToken <= issued
    /\ \A r \in Sessions!All : http[r].token <= issued /\ http[r].born <= issued

\* One login while logging in; the request of a logout while logging out.
OneLogin ==
    /\ state = "loggingIn" => logins = 1
    /\ state # "loggingIn" => logins = 0
OneLogout ==
    /\ http[0].at \in {"idle", "sent", "waitsForLogout"}
    /\ http[0].at = "idle" <=> state # "loggingOut"
    /\ http[0].at = "sent" => ~http[0].retried
    /\ http[0].at = "waitsForLogout" => stuck
WaitersAreAwaited ==
    \A r \in Sessions!All :
        /\ http[r].at = "waitsForLogin" => state = "loggingIn"
        /\ http[r].at = "waitsForLogout" => state = "loggingOut"
RetriedWithNewTokens ==
    \A r \in Requests :
        /\ http[r].at = "refused" => http[r].retried
        /\ http[r].retried /\ http[r].at \in {"sent", "refused"} => http[r].token > http[r].born

SessionInv ==
    /\ SessionTyped /\ TokensWereIssued /\ OneLogin /\ OneLogout
    /\ WaitersAreAwaited /\ RetriedWithNewTokens

\* One request moves on: what is asked of its new entry.
LEMMA OneRequestMoves ==
    ASSUME SessionInv, NEW r \in Sessions!All, NEW e \in Entry,
           http' = [http EXCEPT ![r] = e],
           issued' = issued, sessionToken' \in Nat, sessionToken' <= issued, accepted' \subseteq Nat,
           e.token <= issued, e.born <= issued,
           state' \in {"loggedOut", "loggingIn", "loggedIn", "loggingOut"},
           state = "loggingIn" => state' = "loggingIn",
           state = "loggingOut" => state' = "loggingOut",
           state' = "loggingIn" => logins' = 1, state' # "loggingIn" => logins' = 0,
           e.at = "waitsForLogin" => state' = "loggingIn",
           e.at = "waitsForLogout" => state' = "loggingOut",
           r # 0 => /\ state' = "loggingOut" => state = "loggingOut"
                    /\ e.at = "refused" => e.retried
                    /\ e.retried /\ e.at \in {"sent", "refused"} => e.token > e.born,
           r = 0 => /\ state' = "loggingOut"
                    /\ e.at \in {"sent", "waitsForLogout"}
                    /\ e.at = "sent" => ~e.retried
                    /\ e.at = "waitsForLogout" => stuck',
           stuck => stuck'
    PROVE  SessionInv'
<1>1. http' \in [Sessions!All -> Entry] /\ http'[r] = e
      /\ \A q \in Sessions!All \ {r} : http'[q] = http[q]
  BY DEF SessionInv, SessionTyped
<1>2. 0 \in Sessions!All /\ 0 \notin Requests /\ Requests \subseteq Sessions!All
  BY SendingAssumption DEF Sessions!All, Sessions!Logout
<1>3. SessionTyped' /\ TokensWereIssued'
  BY <1>1 DEF SessionInv, SessionTyped, TokensWereIssued
<1>4. OneLogin' /\ OneLogout'
  BY <1>1, <1>2 DEF SessionInv, OneLogin, OneLogout
<1>5. WaitersAreAwaited'
  BY <1>1 DEF SessionInv, WaitersAreAwaited
<1>6. RetriedWithNewTokens'
  BY <1>1, <1>2 DEF SessionInv, RetriedWithNewTokens
<1>7. QED
  BY <1>3, <1>4, <1>5, <1>6 DEF SessionInv

\* A request asks for a token. Only one that is made for the second time
\* requires a new one; that of a logout is not made for the first time here.
LEMMA TokenIsFetched ==
    ASSUME SessionInv, NEW r \in Sessions!All, NEW entry \in Entry, NEW new \in BOOLEAN,
           r = 0 => state = "loggingOut" /\ new,
           entry.born <= issued, entry.token <= issued, entry.retried => new,
           Sessions!GetSessionToken(r, entry, new), stuck => stuck', r = 0 => stuck',
           UNCHANGED <<sessionToken, issued, accepted>>
    PROVE  SessionInv'
<1> DEFINE sent == [entry EXCEPT !.at = "sent", !.token = sessionToken]
           waits(s) == [entry EXCEPT !.at = s]
<1>1. /\ sent \in Entry /\ sent.at = "sent" /\ sent.token = sessionToken
         /\ sent.retried = entry.retried /\ sent.born = entry.born
      /\ \A s \in {"waitsForLogin", "waitsForLogout"} :
            /\ waits(s) \in Entry /\ waits(s).at = s /\ waits(s).token = entry.token
            /\ waits(s).retried = entry.retried /\ waits(s).born = entry.born
  BY DEF SessionInv, SessionTyped, Entry, Places, Sessions!Pending
<1>2. /\ sessionToken \in Nat /\ sessionToken <= issued /\ accepted \subseteq Nat
      /\ state = "loggingIn" => logins = 1
      /\ state # "loggingIn" => logins = 0
      /\ state \in {"loggedOut", "loggingIn", "loggedIn", "loggingOut"}
  BY DEF SessionInv, SessionTyped, TokensWereIssued, OneLogin
<1>3. CASE sessionToken # 0 /\ ~new
  <2>1. http' = [http EXCEPT ![r] = sent] /\ UNCHANGED <<state, logins>>
    BY <1>3, Zenon DEF Sessions!GetSessionToken, Sessions!Has
  <2> HIDE DEF sent
  <2>2. QED
    BY <1>1, <1>2, <1>3, <2>1, OneRequestMoves
<1>4. CASE ~(sessionToken # 0 /\ ~new) /\ state = "loggingOut"
  <2>1. http' = [http EXCEPT ![r] = waits("waitsForLogout")] /\ UNCHANGED <<state, logins>>
    BY <1>4, Zenon DEF Sessions!GetSessionToken, Sessions!Has
  <2> HIDE DEF waits
  <2>2. QED
    BY <1>1, <1>2, <1>4, <2>1, OneRequestMoves
<1>5. CASE ~(sessionToken # 0 /\ ~new) /\ state # "loggingOut"
  <2>1. /\ http' = [http EXCEPT ![r] = waits("waitsForLogin")] /\ state' = "loggingIn"
        /\ logins' = IF Sessions!StartsLogin(state) THEN logins + 1 ELSE logins
    BY <1>5, Zenon DEF Sessions!GetSessionToken, Sessions!Has
  <2> HIDE DEF sent, waits
  <2>2. logins' = 1
    BY <1>2, <1>5, <2>1 DEF Sessions!StartsLogin
  <2>3. QED
    BY <1>1, <1>2, <1>5, <2>1, <2>2, OneRequestMoves
<1>6. QED
  BY <1>3, <1>4, <1>5

\* The entries a request's answer leaves.
LEMMA EntriesKeepTheirFields ==
    ASSUME NEW e \in Entry, NEW s \in Places
    PROVE  /\ [e EXCEPT !.at = s] \in Entry /\ [e EXCEPT !.at = s].at = s
           /\ [e EXCEPT !.at = s].token = e.token /\ [e EXCEPT !.at = s].retried = e.retried
           /\ [e EXCEPT !.at = s].born = e.born
           /\ [e EXCEPT !.retried = TRUE] \in Entry /\ [e EXCEPT !.retried = TRUE].at = e.at
           /\ [e EXCEPT !.retried = TRUE].token = e.token /\ [e EXCEPT !.retried = TRUE].retried
           /\ [e EXCEPT !.retried = TRUE].born = e.born
BY DEF Entry

\* A request is answered: with success, an error or a refusal for good.
LEMMA RequestIsAnswered ==
    ASSUME SessionInv, NEW r \in Requests, NEW s \in {"done", "failed", "refused"},
           http' = [http EXCEPT ![r].at = s], s = "refused" => http[r].retried /\ http[r].at = "sent",
           stuck => stuck', UNCHANGED <<state, sessionToken, issued, accepted, logins>>
    PROVE  SessionInv'
<1> DEFINE e == [http[r] EXCEPT !.at = s]
<1>1. r \in Sessions!All /\ r # 0 /\ http[r] \in Entry /\ s \in Places
  BY SendingAssumption DEF SessionInv, SessionTyped, Sessions!All, Places
<1>2. http' = [http EXCEPT ![r] = e]
  BY Zenon
<1>3. /\ e \in Entry /\ e.at = s /\ e.token = http[r].token /\ e.retried = http[r].retried
      /\ e.born = http[r].born
  BY <1>1, EntriesKeepTheirFields
<1> HIDE DEF e
<1>4. /\ sessionToken \in Nat /\ sessionToken <= issued /\ accepted \subseteq Nat
      /\ state = "loggingIn" => logins = 1
      /\ state # "loggingIn" => logins = 0
      /\ state \in {"loggedOut", "loggingIn", "loggedIn", "loggingOut"}
      /\ http[r].token <= issued /\ http[r].born <= issued
  BY <1>1 DEF SessionInv, SessionTyped, TokensWereIssued, OneLogin
<1>5. s = "refused" => http[r].token > http[r].born
  BY DEF SessionInv, RetriedWithNewTokens
<1>6. QED
  BY <1>1, <1>2, <1>3, <1>4, <1>5, OneRequestMoves

\* The server refuses a request, or that of a logout, for its token.
LEMMA RequestIsRefused ==
    ASSUME SessionInv, NEW r \in Sessions!All, http[r].at = "sent", Sessions!Refuse(r),
           stuck => stuck', r = 0 => stuck', UNCHANGED <<sessionToken, issued, accepted>>
    PROVE  SessionInv'
<1>1. /\ http[r] \in Entry /\ http[r].token <= issued /\ http[r].born <= issued
      /\ r = 0 => ~http[r].retried /\ state = "loggingOut"
      /\ r = 0 \/ r \in Requests
  BY DEF SessionInv, SessionTyped, TokensWereIssued, OneLogout, Sessions!All, Sessions!Logout
<1>2. CASE http[r].retried
  <2>1. r \in Requests /\ http' = [http EXCEPT ![r].at = "refused"] /\ UNCHANGED <<state, logins>>
    BY <1>1, <1>2 DEF Sessions!Refuse
  <2>2. QED
    BY <1>2, <2>1, RequestIsAnswered
<1>3. CASE ~http[r].retried
  <2> DEFINE e == [http[r] EXCEPT !.retried = TRUE]
  <2>1. Sessions!GetSessionToken(r, e, TRUE)
    BY <1>3, Zenon DEF Sessions!Refuse, Sessions!RetriesWithNewToken
  <2>2. "sent" \in Places
    BY DEF Places, Sessions!Pending
  <2>3. e \in Entry /\ e.token <= issued /\ e.born <= issued
    BY <1>1, <2>2, EntriesKeepTheirFields
  <2> HIDE DEF e
  <2>4. QED
    BY <1>1, <2>1, <2>3, TokenIsFetched
<1>4. QED
  BY <1>2, <1>3

LEMMA AuthFetchKeepsTheSession ==
    ASSUME SessionInv, NEW r \in Requests, Sessions!AuthFetch(r)
    PROVE  SessionInv'
<1> DEFINE e == [Sessions!Idle EXCEPT !.born = issued]
<1>1. e \in Entry /\ e.token = 0 /\ e.born = issued /\ ~e.retried
  BY DEF Entry, Places, Sessions!Idle, SessionInv, SessionTyped
<1>2. Sessions!GetSessionToken(r, e, FALSE) /\ UNCHANGED <<sessionToken, issued, accepted, stuck>>
  BY DEF Sessions!AuthFetch
<1> HIDE DEF e
<1>3. /\ r \in Sessions!All /\ r # 0 /\ issued \in Nat
      /\ e.token <= issued /\ e.born <= issued /\ FALSE \in BOOLEAN
  BY <1>1, SendingAssumption DEF Sessions!All, SessionInv, SessionTyped
<1>4. QED
  BY <1>1, <1>2, <1>3, TokenIsFetched

LEMMA LoggedInKeepsTheSession ==
    ASSUME SessionInv, Sessions!LoggedIn
    PROVE  SessionInv'
<1> DEFINE got(q) == [http[q] EXCEPT !.at = "sent", !.token = issued + 1]
           mine == [Sessions!Idle EXCEPT !.at = "sent", !.token = issued + 1, !.born = issued + 1]
<1>0. /\ issued' = issued + 1 /\ accepted' = accepted \cup {issued'}
      /\ logins > 0 /\ logins' = logins - 1
  BY Zenon DEF Sessions!LoggedIn
<1>1. /\ issued \in Nat /\ issued' = issued + 1 /\ accepted' = accepted \cup {issued'}
      /\ logins = 1 /\ logins' = 0 /\ state = "loggingIn"
      /\ http \in [Sessions!All -> Entry] /\ accepted \subseteq Nat
  BY <1>0 DEF SessionInv, SessionTyped, OneLogin
<1>2. /\ \A q \in Sessions!All : /\ got(q) \in Entry /\ got(q).at = "sent" /\ got(q).token = issued + 1
                                 /\ got(q).retried = http[q].retried /\ got(q).born = http[q].born
      /\ mine \in Entry /\ mine.at = "sent" /\ mine.token = issued + 1
      /\ ~mine.retried /\ mine.born = issued + 1
  <2>1. issued + 1 \in Nat /\ "sent" \in Places
    BY <1>1 DEF Places, Sessions!Pending
  <2>2. ASSUME NEW q \in Sessions!All
        PROVE  /\ got(q) \in Entry /\ got(q).at = "sent" /\ got(q).token = issued + 1
               /\ got(q).retried = http[q].retried /\ got(q).born = http[q].born
    <3>1. http[q] \in Entry
      BY <1>1
    <3>2. QED
      BY <2>1, <3>1 DEF Entry
  <2>3. ASSUME NEW t \in Nat
        PROVE  LET m == [Sessions!Idle EXCEPT !.at = "sent", !.token = t, !.born = t]
               IN  m \in Entry /\ m.at = "sent" /\ m.token = t /\ ~m.retried /\ m.born = t
    BY DEF Entry, Places, Sessions!Pending, Sessions!Idle
  <2>4. mine \in Entry /\ mine.at = "sent" /\ mine.token = issued + 1
        /\ ~mine.retried /\ mine.born = issued + 1
    BY <2>1, <2>3
  <2> HIDE DEF got, mine
  <2>5. QED
    BY <2>2, <2>4
<1>3. 0 \in Sessions!All /\ 0 \notin Requests /\ Requests \subseteq Sessions!All
      /\ http[0].at = "idle"
  BY <1>1, SendingAssumption DEF Sessions!All, Sessions!Logout, SessionInv, OneLogout
<1> DEFINE served == [q \in Sessions!All |-> IF http[q].at = "waitsForLogin" THEN got(q) ELSE http[q]]
<1>4. \/ http' = served /\ state' = "loggedIn" /\ sessionToken' = issued'
      \/ http' = [served EXCEPT ![0] = mine] /\ state' = "loggingOut" /\ sessionToken' = 0
  BY <1>1 DEF Sessions!LoggedIn, Sessions!Answered, Sessions!Logout
<1>5. served \in [Sessions!All -> Entry]
  BY <1>1, <1>2
<1> HIDE DEF got, mine
<1>6. /\ http' \in [Sessions!All -> Entry]
      /\ \A q \in Requests : http'[q] = IF http[q].at = "waitsForLogin" THEN got(q) ELSE http[q]
      /\ http'[0] = IF state' = "loggedIn" THEN http[0] ELSE mine
  BY <1>2, <1>3, <1>4, <1>5
<1>7. Sessions!All = Requests \cup {0}
  BY DEF Sessions!All, Sessions!Logout
<1> HIDE DEF served
<1>8. SessionTyped' /\ TokensWereIssued'
  BY <1>1, <1>2, <1>3, <1>4, <1>6, <1>7 DEF SessionInv, SessionTyped, TokensWereIssued, Entry
<1>9. OneLogin' /\ OneLogout'
  BY <1>1, <1>2, <1>3, <1>4, <1>6 DEF SessionInv, OneLogin, OneLogout
<1>10. WaitersAreAwaited'
  BY <1>1, <1>2, <1>3, <1>4, <1>6, <1>7 DEF SessionInv, WaitersAreAwaited
<1>11. RetriedWithNewTokens'
  BY <1>1, <1>2, <1>3, <1>6, <1>7 DEF SessionInv, SessionTyped, TokensWereIssued, Entry, RetriedWithNewTokens
<1>12. QED
  BY <1>8, <1>9, <1>10, <1>11 DEF SessionInv

LEMMA LoginFailsKeepsTheSession ==
    ASSUME SessionInv, Sessions!LoginFails
    PROVE  SessionInv'
<1> DEFINE lost(q) == [http[q] EXCEPT !.at = "failed"]
<1>1. /\ logins = 1 /\ logins' = 0 /\ state = "loggingIn" /\ state' = "loggedOut"
      /\ http \in [Sessions!All -> Entry] /\ UNCHANGED <<sessionToken, issued, accepted>>
      /\ http' = [q \in Sessions!All |-> IF http[q].at = "waitsForLogin" THEN lost(q) ELSE http[q]]
  BY DEF SessionInv, SessionTyped, OneLogin, Sessions!LoginFails, Sessions!Answered
<1>2. \A q \in Sessions!All : /\ lost(q) \in Entry /\ lost(q).at = "failed"
                              /\ lost(q).token = http[q].token
                              /\ lost(q).retried = http[q].retried /\ lost(q).born = http[q].born
  <2>1. \A q \in Sessions!All : http[q] \in Entry
    BY <1>1
  <2>2. "failed" \in Places
    BY DEF Places
  <2>3. QED
    BY <2>1, <2>2, EntriesKeepTheirFields
<1>3. 0 \in Sessions!All /\ 0 \notin Requests /\ Requests \subseteq Sessions!All /\ http[0].at = "idle"
  BY <1>1, SendingAssumption DEF Sessions!All, Sessions!Logout, SessionInv, OneLogout
<1> HIDE DEF lost
<1>4. QED
  BY <1>1, <1>2, <1>3
     DEF SessionInv, SessionTyped, TokensWereIssued, OneLogin, OneLogout, WaitersAreAwaited,
         RetriedWithNewTokens

\* A logout is over: those who waited for it log in, all by one login.
LEMMA LoggedOutKeepsTheSession ==
    ASSUME SessionInv, http[0].at = "sent", Sessions!LoggedOut,
           UNCHANGED <<sessionToken, issued>>, accepted' \subseteq accepted
    PROVE  SessionInv'
<1> DEFINE asks(q) == [http[q] EXCEPT !.at = "waitsForLogin"]
<1>1. state = "loggingOut" /\ logins = 0 /\ http \in [Sessions!All -> Entry] /\ issued \in Nat
  BY DEF SessionInv, SessionTyped, OneLogin, OneLogout
<1>2. 0 \in Sessions!All /\ 0 \notin Requests /\ Requests \subseteq Sessions!All
      /\ Sessions!All = Requests \cup {0}
  BY SendingAssumption DEF Sessions!All, Sessions!Logout
<1>3. /\ \A q \in Sessions!All : /\ asks(q) \in Entry /\ asks(q).at = "waitsForLogin"
                                 /\ asks(q).token = http[q].token
                                 /\ asks(q).retried = http[q].retried /\ asks(q).born = http[q].born
      /\ Sessions!Idle \in Entry /\ Sessions!Idle.at = "idle" /\ Sessions!Idle.token = 0
      /\ Sessions!Idle.born = 0 /\ ~Sessions!Idle.retried
  <2>1. \A q \in Sessions!All : http[q] \in Entry
    BY <1>1
  <2>2. "waitsForLogin" \in Places /\ "idle" \in Places
    BY DEF Places, Sessions!Pending
  <2>3. \A q \in Sessions!All : /\ asks(q) \in Entry /\ asks(q).at = "waitsForLogin"
                                /\ asks(q).token = http[q].token
                                /\ asks(q).retried = http[q].retried /\ asks(q).born = http[q].born
    BY <2>1, <2>2, EntriesKeepTheirFields
  <2>4. /\ Sessions!Idle \in Entry /\ Sessions!Idle.at = "idle" /\ Sessions!Idle.token = 0
        /\ Sessions!Idle.born = 0 /\ ~Sessions!Idle.retried
    BY <2>2 DEF Entry, Sessions!Idle
  <2>5. QED
    BY <2>3, <2>4
<1> DEFINE asked == [q \in Sessions!All |-> IF http[q].at = "waitsForLogout" THEN asks(q) ELSE http[q]]
<1>4. http' = [asked EXCEPT ![0] = Sessions!Idle]
  BY DEF Sessions!LoggedOut, Sessions!Answered, Sessions!Logout
<1>5. asked \in [Sessions!All -> Entry]
  BY <1>1, <1>3
<1> HIDE DEF asks
<1>6. /\ http' \in [Sessions!All -> Entry] /\ http'[0] = Sessions!Idle
      /\ \A q \in Requests : http'[q] = IF http[q].at = "waitsForLogout" THEN asks(q) ELSE http[q]
  BY <1>2, <1>3, <1>4, <1>5
<1> HIDE DEF asked
<1>7. /\ state' = IF Sessions!Waiting = {} THEN "loggedOut" ELSE "loggingIn"
      /\ state' = "loggingIn" => logins' = 1
      /\ state' # "loggingIn" => logins' = 0
  BY <1>1 DEF Sessions!LoggedOut
<1>8. /\ \A q \in Requests : http'[q].at = "waitsForLogin" => state' = "loggingIn"
      /\ \A q \in Requests : http'[q].at # "waitsForLogout"
  BY <1>1, <1>2, <1>3, <1>6, <1>7 DEF SessionInv, WaitersAreAwaited, Sessions!Waiting
<1>9. SessionTyped' /\ TokensWereIssued'
  BY <1>1, <1>2, <1>3, <1>6, <1>7 DEF SessionInv, SessionTyped, TokensWereIssued
<1>10. OneLogin' /\ OneLogout'
  BY <1>2, <1>3, <1>6, <1>7 DEF OneLogin, OneLogout
<1>11. WaitersAreAwaited'
  BY <1>2, <1>3, <1>6, <1>8 DEF WaitersAreAwaited
<1>12. RetriedWithNewTokens'
  BY <1>2, <1>3, <1>6 DEF SessionInv, RetriedWithNewTokens
<1>13. QED
  BY <1>9, <1>10, <1>11, <1>12 DEF SessionInv

LEMMA CallLogoutKeepsTheSession ==
    ASSUME SessionInv, Sessions!CallLogout
    PROVE  SessionInv'
<1>1. CASE UNCHANGED <<state, sessionToken, http, issued, accepted, logins, stuck>>
  BY <1>1 DEF SessionInv, SessionTyped, TokensWereIssued, OneLogin, OneLogout, WaitersAreAwaited,
              RetriedWithNewTokens
<1>2. CASE state = "loggedIn"
  <2> DEFINE e == [Sessions!Idle EXCEPT !.at = "sent", !.token = sessionToken, !.born = issued]
  <2>1. /\ e \in Entry /\ e.at = "sent" /\ e.token = sessionToken /\ e.born = issued /\ ~e.retried
    BY DEF Entry, Places, Sessions!Pending, Sessions!Idle, SessionInv, SessionTyped
  <2>2. /\ http' = [http EXCEPT ![0] = e] /\ state' = "loggingOut" /\ sessionToken' = 0
        /\ UNCHANGED <<issued, accepted, logins, stuck>>
    BY <1>2, Zenon DEF Sessions!CallLogout, Sessions!Logout
  <2> HIDE DEF e
  <2>3. /\ 0 \in Sessions!All /\ issued \in Nat /\ logins = 0 /\ accepted \subseteq Nat
        /\ sessionToken \in Nat /\ sessionToken <= issued /\ 0 \in Nat /\ 0 <= issued
        /\ issued <= issued
    BY <1>2 DEF Sessions!All, Sessions!Logout, SessionInv, SessionTyped, OneLogin, TokensWereIssued
  <2>4. QED
    BY <1>2, <2>1, <2>2, <2>3, OneRequestMoves
<1>3. QED
  BY <1>1, <1>2 DEF Sessions!CallLogout

LEMMA SessionStep ==
    ASSUME SessionInv, Sessions!SessionNext \/ UNCHANGED sessionVars
    PROVE  SessionInv'
<1>0. \A r \in Requests : r \in Sessions!All
  BY DEF Sessions!All
<1>1. CASE Sessions!LoggedIn
  BY <1>1, LoggedInKeepsTheSession
<1>2. CASE Sessions!LoginFails
  BY <1>2, LoginFailsKeepsTheSession
<1>3. CASE Sessions!LogoutOk \/ Sessions!LogoutFails
  BY <1>3, LoggedOutKeepsTheSession
     DEF Sessions!LogoutOk, Sessions!LogoutFails, Sessions!Logout
<1>4. CASE Sessions!LogoutRefused
  <2>1. 0 \in Sessions!All
    BY DEF Sessions!All, Sessions!Logout
  <2>2. QED
    BY <1>4, <2>1, RequestIsRefused DEF Sessions!LogoutRefused, Sessions!Logout
<1>5. CASE Sessions!CallLogout
  BY <1>5, CallLogoutKeepsTheSession
<1>6. ASSUME NEW r \in Requests, Sessions!AuthFetch(r)
      PROVE  SessionInv'
  BY <1>6, AuthFetchKeepsTheSession
<1>7. ASSUME NEW r \in Requests, Sessions!Ok(r) \/ Sessions!Fails(r)
      PROVE  SessionInv'
  BY <1>7, RequestIsAnswered DEF Sessions!Ok, Sessions!Fails
<1>8. ASSUME NEW r \in Requests, Sessions!Unauthorized(r)
      PROVE  SessionInv'
  BY <1>0, <1>8, RequestIsRefused, SendingAssumption DEF Sessions!Unauthorized
<1>9. ASSUME NEW t \in 1..MaxTokens, Sessions!Expires(t)
      PROVE  SessionInv'
  BY <1>9 DEF Sessions!Expires, SessionInv, SessionTyped, TokensWereIssued, OneLogin, OneLogout,
              WaitersAreAwaited, RetriedWithNewTokens
<1>10. CASE UNCHANGED sessionVars
  BY <1>10 DEF sessionVars, SessionInv, SessionTyped, TokensWereIssued, OneLogin, OneLogout,
               WaitersAreAwaited, RetriedWithNewTokens
<1>11. QED
  BY <1>1, <1>2, <1>3, <1>4, <1>5, <1>6, <1>7, <1>8, <1>9, <1>10
     DEF Sessions!SessionNext, Sessions!ServerAnswers

LEMMA SessionBegins ==
    ASSUME Sessions!SessionInit
    PROVE  SessionInv
<1>1. Sessions!Idle \in Entry
  BY DEF Sessions!Idle, Entry, Places
<1>2. 0 \in Sessions!All /\ Requests \subseteq Sessions!All
  BY DEF Sessions!All, Sessions!Logout
<1>3. QED
  BY <1>1, <1>2
     DEF Sessions!SessionInit, Sessions!Idle, SessionInv, SessionTyped, TokensWereIssued, OneLogin,
         OneLogout, WaitersAreAwaited, RetriedWithNewTokens

LEMMA SessionInvIsEnough ==
    ASSUME SessionInv
    PROVE  TokensAreRenewed
BY DEF SessionInv, SessionTyped, OneLogin, WaitersAreAwaited, RetriedWithNewTokens,
       TokensAreRenewed, Sessions!TokensAreRenewed, Sessions!Waiting, Sessions!All

\* In every session, with any number of requests and tokens, a request is
\* refused for good only with a token issued after it was made, one login runs
\* at a time, and nobody waits for a login or a logout that does not run
\* (Session.ts:94, authFetch.ts:110).
THEOREM SessionsRenewTokens == Sessions!SessionSpec => []TokensAreRenewed
<1>1. Sessions!SessionSpec => []SessionInv
  <2>1. Sessions!SessionInit => SessionInv
    BY SessionBegins
  <2>2. SessionInv /\ [Sessions!SessionNext]_(Sessions!sessionVars) => SessionInv'
    BY SessionStep DEF sessionVars, Sessions!sessionVars
  <2>3. QED
    BY <2>1, <2>2, PTL DEF Sessions!SessionSpec
<1>2. SessionInv => TokensAreRenewed
  BY SessionInvIsEnough
<1>3. QED
  BY <1>1, <1>2, PTL

-----------------------------------------------------------------------------
(***************************************************************************)
(* The data union. What is inductive: while a call waits, the balance it   *)
(* has read is the recipient's still, or somebody paid the recipient       *)
(* (BalanceIsFollowed); what arrives has been processed before             *)
(* (ProcessedBeforeArrival); and a signature that has paid names less than *)
(* has been withdrawn since (SpentIsOver), so it cannot pay again.         *)
(***************************************************************************)
Withdrawals == {"withdraw", "byAdmin", "signed"}
OtherCalls == {"join", "transfer", "deploy"}
\* Where a withdrawal may be once it has read the balance.
Underway == {"balance", "sent", "signatures", "estimate", "executing", "delivery", "arrival"}
\* Before its transaction is mined.
Unsent == {"new", "begun", "balance", "approving", "sent"}
Elsewhere == {"joining", "sidechain", "deploying", "approving"}
Results == {"none", "error", "receipt", "null", "hash", "timeout"}
SignatureOf == Members \X (Recipients \X Int \X Int)

CallRecord == [op : Withdrawals \union OtherCalls \union {"none", "transport"},
         at : Underway \union Elsewhere \union {"new", "begun", "settled"},
         result : Results,
         from : Members \union {"nobody"}, to : Recipients \union Members \union {"nobody"},
         signature : SignatureOf \union {<<>>},
         before : Int, amount : Int, message : Calls \union {0},
         sendToMainnet : BOOLEAN, payForTransport : BOOLEAN, waits : BOOLEAN]

UnionTyped ==
    /\ earned \in [Members -> Int] /\ withdrawn \in [Members -> Int]
    /\ tokens \in [Recipients -> [main : Int, side : Int]]
    /\ messages \in [Calls -> {"none", "collecting", "complete"}]
    /\ relayed \in [Calls -> {"no", "executed", "failed"}]
    /\ calls \in [Calls -> CallRecord]
    /\ signatures \subseteq SignatureOf /\ payments \subseteq SignatureOf \X Calls

PaidTo(r) == \E d \in Calls : relayed[d] = "executed" /\ calls[d].to = r

\* What a call is about, and what it has found out so far.
WellFormed(c, e) ==
    /\ e.at \in Unsent => messages[c] = "none"
    /\ e.at # "new" => e.message \in Calls
    /\ e.op \in Withdrawals => e.from \in Members /\ e.to \in Recipients
    /\ e.op \in OtherCalls => ~e.sendToMainnet
    /\ e.op = "transport" => ~e.waits
    /\ e.at \in Elsewhere => e.op \in OtherCalls
    /\ e.at = "begun" => e.op \in Withdrawals \union OtherCalls
    /\ e.at = "approving" => e.op = "transfer"
    /\ e.at = "sent" => e.op \in Withdrawals \union {"transfer"}
    /\ e.at \in {"balance", "delivery"} => e.op \in Withdrawals
    /\ e.at = "delivery" => ~e.payForTransport
    /\ e.at \in {"estimate", "executing"} => messages[e.message] = "complete"
ProcessedBeforeArrival(e) ==
    e.at = "arrival" /\ e.payForTransport => relayed[e.message] # "no"
BalanceIsFollowed(e) ==
    e.waits /\ e.sendToMainnet /\ e.at \in Underway =>
        e.to \in Recipients /\ (tokens[e.to].main = e.before \/ PaidTo(e.to))
ReportIsTrue(e) ==
    e.at = "settled" /\ e.sendToMainnet /\ e.result \in {"receipt", "null"} =>
        /\ e.payForTransport => relayed[e.message] # "no"
        /\ e.waits => PaidTo(e.to)
CallIsSound(c, e) ==
    WellFormed(c, e) /\ ProcessedBeforeArrival(e) /\ BalanceIsFollowed(e) /\ ReportIsTrue(e)

\* The mainnet has seen the messages only whose signatures are collected.
CollectedFirst == \A c \in Calls : relayed[c] # "no" => messages[c] = "complete"

\* A signature that has paid names less than has been withdrawn since.
SpentIsOver == \A p \in payments : p[1][2][3] < withdrawn[p[1][1]]
PaidOnce == \A p, q \in payments : p[1] = q[1] => p = q

UnionInv ==
    /\ UnionTyped /\ (\A c \in Calls : CallIsSound(c, calls[c])) /\ CollectedFirst
    /\ SpentIsOver /\ PaidOnce

\* What a step may do to the calls it does not move.
Onward ==
    /\ \A x \in Calls : relayed[x] # "no" => relayed'[x] = relayed[x]
    /\ \A x \in Calls : messages[x] = "complete" => messages'[x] = "complete"
    /\ \A x \in Calls : calls[x].at # "new" => calls'[x].to = calls[x].to
    /\ \A r \in Recipients : tokens'[r].main # tokens[r].main =>
            \E x \in Calls : relayed'[x] = "executed" /\ calls'[x].to = r

LEMMA PaidStaysPaid ==
    ASSUME UnionInv, Onward, NEW r, PaidTo(r)
    PROVE  \E d \in Calls : relayed'[d] = "executed" /\ calls'[d].to = r
<1>1. PICK d \in Calls : relayed[d] = "executed" /\ calls[d].to = r
  BY DEF PaidTo
<1>2. relayed'[d] = "executed" /\ calls[d].at # "new"
  BY <1>1 DEF Onward, UnionInv, CallIsSound, WellFormed, CollectedFirst, Unsent
<1>3. QED
  BY <1>1, <1>2 DEF Onward

LEMMA BalanceStaysFollowed ==
    ASSUME UnionInv, Onward, NEW d \in Calls, BalanceIsFollowed(calls'[d])
    PROVE  BalanceIsFollowed(calls[d])'
<1>1. CASE calls'[d].waits /\ calls'[d].sendToMainnet /\ calls'[d].at \in Underway
  <2>1. calls'[d].to \in Recipients
        /\ (tokens[calls'[d].to].main = calls'[d].before \/ PaidTo(calls'[d].to))
    BY <1>1 DEF BalanceIsFollowed
  <2>2. CASE PaidTo(calls'[d].to)
    BY <2>1, <2>2, PaidStaysPaid DEF BalanceIsFollowed, PaidTo
  <2>3. CASE tokens'[calls'[d].to].main # tokens[calls'[d].to].main
    BY <2>1, <2>3 DEF BalanceIsFollowed, Onward, PaidTo
  <2>4. CASE tokens'[calls'[d].to].main = tokens[calls'[d].to].main
             /\ tokens[calls'[d].to].main = calls'[d].before
    BY <2>1, <2>4 DEF BalanceIsFollowed
  <2>5. QED
    BY <2>1, <2>2, <2>3, <2>4
<1>2. QED
  BY <1>1 DEF BalanceIsFollowed

\* A call that is sound where a step begins is sound where it ends.
LEMMA SoundStaysSound ==
    ASSUME UnionInv, Onward, NEW d \in Calls, calls'[d] \in CallRecord,
           CallIsSound(d, calls'[d]), calls'[d].at \in Unsent => messages'[d] = messages[d]
    PROVE  CallIsSound(d, calls[d])'
<1>1. WellFormed(d, calls[d])'
  BY DEF CallIsSound, WellFormed, Onward, CallRecord
<1>2. ProcessedBeforeArrival(calls[d])'
  BY DEF CallIsSound, WellFormed, ProcessedBeforeArrival, Onward
<1>3. BalanceIsFollowed(calls[d])'
  BY BalanceStaysFollowed DEF CallIsSound
<1>4. ReportIsTrue(calls[d])'
  BY PaidStaysPaid DEF CallIsSound, WellFormed, ReportIsTrue, Onward, PaidTo
<1>5. QED
  BY <1>1, <1>2, <1>3, <1>4 DEF CallIsSound

\* One call moves on while the chains and the bridge stand still.
LEMMA OneCallMoves ==
    ASSUME UnionInv, NEW c \in Calls, NEW e \in CallRecord, calls' = [calls EXCEPT ![c] = e],
           CallIsSound(c, e), calls[c].at # "new" => e.to = calls[c].to,
           earned' \in [Members -> Int],
           UNCHANGED <<withdrawn, tokens, messages, relayed, signatures, payments>>
    PROVE  UnionInv'
<1>1. /\ calls' \in [Calls -> CallRecord] /\ calls'[c] = e
      /\ \A d \in Calls \ {c} : calls'[d] = calls[d]
  BY DEF UnionInv, UnionTyped
<1>2. Onward
  BY <1>1 DEF Onward
<1>3. ASSUME NEW d \in Calls
      PROVE  CallIsSound(d, calls[d])'
  <2>1. CallIsSound(d, calls'[d]) /\ calls'[d] \in CallRecord
    BY <1>1 DEF UnionInv
  <2>2. QED
    BY <1>2, <2>1, SoundStaysSound
<1>4. UnionTyped' /\ SpentIsOver' /\ PaidOnce' /\ CollectedFirst'
  BY <1>1 DEF UnionInv, UnionTyped, SpentIsOver, PaidOnce, CollectedFirst
<1>5. QED
  BY <1>3, <1>4 DEF UnionInv

\* The chains or the bridge go on while no call moves.
LEMMA NoCallMoves ==
    ASSUME UnionInv, Onward, UnionTyped', UNCHANGED <<calls, withdrawn, payments>>,
           \A d \in Calls : messages'[d] = messages[d] \/ messages[d] # "none",
           CollectedFirst'
    PROVE  UnionInv'
<1>1. ASSUME NEW d \in Calls
      PROVE  CallIsSound(d, calls[d])'
  <2>1. CallIsSound(d, calls'[d]) /\ calls'[d] \in CallRecord
        /\ (calls'[d].at \in Unsent => messages'[d] = messages[d])
    BY DEF UnionInv, UnionTyped, CallIsSound, WellFormed
  <2>2. QED
    BY <2>1, SoundStaysSound
<1>2. QED
  BY <1>1 DEF UnionInv, SpentIsOver, PaidOnce

\* A call only changes its phase, or its phase and its result.
Kept(e, f) ==
    /\ f \in CallRecord /\ f.op = e.op /\ f.from = e.from /\ f.to = e.to /\ f.before = e.before
    /\ f.message = e.message /\ f.sendToMainnet = e.sendToMainnet
    /\ f.payForTransport = e.payForTransport /\ f.waits = e.waits

LEMMA PhaseChanges ==
    ASSUME NEW e \in CallRecord, NEW a \in Underway \union Elsewhere \union {"begun", "settled"}
    PROVE  /\ Kept(e, [e EXCEPT !.at = a])
           /\ [e EXCEPT !.at = a].at = a /\ [e EXCEPT !.at = a].result = e.result
<1>1. [e EXCEPT !.at = a] \in CallRecord
  BY DEF CallRecord
<1>2. QED
  BY <1>1 DEF CallRecord, Kept

LEMMA CallGoes ==
    ASSUME UnionInv, NEW c \in Calls, NEW a \in Underway \union Elsewhere, Union!Goes(c, a),
           calls[c].at \notin {"new", "settled"},
           a \in Unsent => calls[c].at \in Unsent,
           a \in Elsewhere => calls[c].op \in OtherCalls, a = "approving" => calls[c].op = "transfer",
           a = "sent" => calls[c].op \in Withdrawals \union {"transfer"},
           a \in {"balance", "delivery"} => calls[c].op \in Withdrawals,
           a = "delivery" => ~calls[c].payForTransport,
           a \in {"estimate", "executing"} => messages[calls[c].message] = "complete",
           a = "arrival" /\ calls[c].payForTransport => relayed[calls[c].message] # "no",
           a \in Underway => calls[c].at \in Underway \/ ~calls[c].sendToMainnet \/ ~calls[c].waits,
           earned' \in [Members -> Int],
           UNCHANGED <<withdrawn, tokens, messages, relayed, signatures, payments>>
    PROVE  UnionInv'
<1> DEFINE e == [calls[c] EXCEPT !.at = a]
<1>1. calls' = [calls EXCEPT ![c] = e]
  BY Zenon DEF Union!Goes
<1>2. calls[c] \in CallRecord /\ CallIsSound(c, calls[c])
      /\ "settled" \in Underway \union Elsewhere \union {"begun", "settled"}
  BY DEF UnionInv, UnionTyped
<1>3. Kept(calls[c], e) /\ e.at = a /\ e.result = calls[c].result
  BY <1>2, PhaseChanges
<1> HIDE DEF e
<1>4. CallIsSound(c, e)
  BY <1>2, <1>3
     DEF Kept, CallIsSound, WellFormed, ProcessedBeforeArrival, BalanceIsFollowed, ReportIsTrue, Underway,
         Elsewhere, Unsent
<1>5. QED
  BY <1>1, <1>3, <1>4, OneCallMoves DEF Kept

LEMMA CallReturns ==
    ASSUME UnionInv, NEW c \in Calls,
           NEW r \in Results, Union!Returns(c, r),
           calls[c].at # "new",
           calls[c].sendToMainnet /\ r \in {"receipt", "null"} =>
                /\ calls[c].payForTransport => relayed[calls[c].message] # "no"
                /\ calls[c].waits => PaidTo(calls[c].to),
           earned' \in [Members -> Int],
           UNCHANGED <<withdrawn, tokens, messages, relayed, signatures, payments>>
    PROVE  UnionInv'
<1> DEFINE h == [calls[c] EXCEPT !.at = "settled"]
           e == [h EXCEPT !.result = r]
<1>1. calls' = [calls EXCEPT ![c] = e]
  BY Zenon DEF Union!Returns
<1>2. calls[c] \in CallRecord /\ CallIsSound(c, calls[c])
      /\ "settled" \in Underway \union Elsewhere \union {"begun", "settled"}
  BY DEF UnionInv, UnionTyped
<1>a. Kept(calls[c], h) /\ h.at = "settled"
  BY <1>2, PhaseChanges
<1> HIDE DEF h
<1>b. e \in CallRecord /\ e.result = r /\ e.at = h.at
  BY <1>a DEF CallRecord, Kept
<1>3. Kept(calls[c], e) /\ e.at = "settled" /\ e.result = r
  BY <1>a, <1>b DEF CallRecord, Kept
<1> HIDE DEF e
<1>4. CallIsSound(c, e)
  BY <1>2, <1>3
     DEF Kept, CallIsSound, WellFormed, ProcessedBeforeArrival, BalanceIsFollowed, ReportIsTrue, Underway,
         Elsewhere, Unsent
<1>5. QED
  BY <1>1, <1>3, <1>4, OneCallMoves DEF Kept

\* A transport is over, well or because it was over already.
LEMMA CallIsTransported ==
    ASSUME UnionInv, NEW c \in Calls, NEW r \in {"receipt", "null"}, Union!Transported(c, r),
           calls[c].at \in {"signatures", "estimate"}, relayed[calls[c].message] # "no",
           UNCHANGED <<earned, withdrawn, tokens, messages, relayed, signatures, payments>>
    PROVE  UnionInv'
<1>1. calls[c] \in CallRecord /\ CallIsSound(c, calls[c]) /\ earned \in [Members -> Int]
  BY DEF UnionInv, UnionTyped
<1>2. CASE calls[c].waits
  <2> DEFINE h == [calls[c] EXCEPT !.at = "arrival"]
             e == [h EXCEPT !.result = r]
  <2>1. calls' = [calls EXCEPT ![c] = e]
    BY <1>2, Zenon DEF Union!Transported
  <2>2. "arrival" \in Underway \union Elsewhere \union {"begun", "settled"} /\ r \in Results
    BY DEF Underway, Results
  <2>a. Kept(calls[c], h) /\ h.at = "arrival"
    BY <1>1, <2>2, PhaseChanges
  <2> HIDE DEF h
  <2>b. e \in CallRecord /\ e.result = r /\ e.at = h.at
    BY <2>a, <2>2 DEF CallRecord, Kept
  <2>3. Kept(calls[c], e) /\ e.at = "arrival" /\ e.result = r
    BY <2>a, <2>b DEF CallRecord, Kept
  <2> HIDE DEF e
  <2>4. CallIsSound(c, e)
    BY <1>1, <2>3
       DEF Kept, CallIsSound, WellFormed, ProcessedBeforeArrival, BalanceIsFollowed, ReportIsTrue, Underway,
           Elsewhere, Unsent
  <2>5. QED
    BY <1>1, <2>1, <2>3, <2>4, OneCallMoves DEF Kept
<1>3. CASE ~calls[c].waits
  <2>1. Union!Returns(c, r)
    BY <1>3 DEF Union!Transported
  <2>2. r \in Results
    BY DEF Results
  <2>3. QED
    BY <1>1, <1>3, <2>1, <2>2, CallReturns
<1>4. QED
  BY <1>2, <1>3

LEMMA CallBegins ==
    ASSUME UnionInv, NEW c \in Calls, NEW op \in Withdrawals \union OtherCalls,
           NEW from \in Members \union {"nobody"}, NEW to \in Recipients \union Members \union {"nobody"},
           NEW s \in SignatureOf \union {<<>>}, NEW o \in BOOLEAN \X BOOLEAN \X BOOLEAN,
           op \in Withdrawals => from \in Members /\ to \in Recipients,
           op \in OtherCalls => ~o[1],
           Union!Begin(c, op, from, to, s, o)
    PROVE  UnionInv'
<1> DEFINE f == Union!Call(op, "begun", from, to, s, c, o)
<1>1. /\ calls[c].at = "new" /\ calls' = [calls EXCEPT ![c] = f]
      /\ UNCHANGED <<earned, withdrawn, tokens, messages, relayed, signatures, payments>>
  BY SendingAssumption
     DEF Union!Begin, Union!IsNext, Union!At, Union!ledger, Union!bridge
<1>3. /\ f \in CallRecord /\ f.at = "begun" /\ f.op = op /\ f.from = from /\ f.to = to /\ f.message = c
      /\ f.sendToMainnet = o[1]
  BY DEF Union!Call, CallRecord, Results
<1> HIDE DEF f
<1>4. CallIsSound(c, f) /\ earned \in [Members -> Int]
  BY <1>1, <1>3
     DEF CallIsSound, WellFormed, ProcessedBeforeArrival, BalanceIsFollowed, ReportIsTrue, Underway,
         Elsewhere, Unsent, Withdrawals, OtherCalls, UnionInv, UnionTyped
<1>5. QED
  BY <1>1, <1>3, <1>4, OneCallMoves

\* What is known of a call that has begun.
LEMMA WhatIsKnown ==
    ASSUME UnionInv, NEW c \in Calls
    PROVE  /\ calls[c] \in CallRecord /\ earned \in [Members -> Int]
           /\ calls[c].at # "new" => calls[c].message \in Calls
           /\ calls[c].op \in Withdrawals => calls[c].from \in Members /\ calls[c].to \in Recipients
           /\ calls[c].op \in OtherCalls => ~calls[c].sendToMainnet
           /\ calls[c].op = "transport" => ~calls[c].waits
           /\ calls[c].at \in Elsewhere => calls[c].op \in OtherCalls
           /\ calls[c].at = "approving" => calls[c].op = "transfer"
           /\ calls[c].at \in {"balance", "delivery"} => calls[c].op \in Withdrawals
           /\ calls[c].at = "delivery" => ~calls[c].payForTransport
           /\ calls[c].at \in {"estimate", "executing"} => messages[calls[c].message] = "complete"
           /\ calls[c].at = "arrival" /\ calls[c].payForTransport => relayed[calls[c].message] # "no"
           /\ calls[c].at \in Underway /\ calls[c].waits /\ calls[c].sendToMainnet =>
                tokens[calls[c].to].main = calls[c].before \/ PaidTo(calls[c].to)
BY DEF UnionInv, UnionTyped, CallIsSound, WellFormed, ProcessedBeforeArrival, BalanceIsFollowed

LEMMA NothingElse ==
    ASSUME UNCHANGED <<Union!ledger, Union!bridge, signatures>>
    PROVE  UNCHANGED <<earned, withdrawn, tokens, messages, relayed, signatures, payments>>
BY DEF Union!ledger, Union!bridge

LEMMA ReadBalanceIsSound ==
    ASSUME UnionInv, NEW c \in Calls, Union!ReadBalance(c)
    PROVE  UnionInv'
<1> DEFINE b == IF calls[c].waits THEN Union!Balance(c) ELSE 0
           h == [calls[c] EXCEPT !.at = "balance"]
           e == [h EXCEPT !.before = b]
<1>1. /\ calls[c].at = "begun" /\ calls[c].op \in Withdrawals /\ calls[c] \in CallRecord
      /\ calls[c].to \in Recipients /\ earned \in [Members -> Int] /\ CallIsSound(c, calls[c])
  BY WhatIsKnown DEF Union!ReadBalance, Union!At, Withdrawals, UnionInv
<1>2. b \in Int /\ (calls[c].waits /\ calls[c].sendToMainnet => b = tokens[calls[c].to].main)
  BY <1>1 DEF Union!Balance, UnionInv, UnionTyped
<1>3. calls' = [calls EXCEPT ![c] = e]
  BY Zenon DEF Union!ReadBalance
<1>4. UNCHANGED <<earned, withdrawn, tokens, messages, relayed, signatures, payments>>
  BY NothingElse, Zenon DEF Union!ReadBalance
<1> HIDE DEF b
<1>5. Kept(calls[c], h) /\ h.at = "balance" /\ h.result = calls[c].result
  <2>1. "balance" \in Underway \union Elsewhere \union {"begun", "settled"}
    BY DEF Underway
  <2>2. QED
    BY <1>1, <2>1, PhaseChanges
<1> HIDE DEF h
<1>6. /\ e \in CallRecord /\ e.at = "balance" /\ e.before = b
      /\ e.op = calls[c].op /\ e.from = calls[c].from /\ e.to = calls[c].to
      /\ e.message = calls[c].message /\ e.sendToMainnet = calls[c].sendToMainnet
      /\ e.payForTransport = calls[c].payForTransport /\ e.waits = calls[c].waits
  BY <1>2, <1>5 DEF CallRecord, Kept
<1> HIDE DEF e
<1>7. CallIsSound(c, e)
  BY <1>1, <1>2, <1>6
     DEF CallIsSound, WellFormed, ProcessedBeforeArrival, BalanceIsFollowed, ReportIsTrue, Underway,
         Elsewhere, Unsent, OtherCalls, Withdrawals
<1>8. QED
  BY <1>1, <1>3, <1>4, <1>6, <1>7, OneCallMoves

LEMMA TransportHashIsSound ==
    ASSUME UnionInv, NEW c \in Calls, Union!TransportHash(c)
    PROVE  UnionInv'
<1>1. PICK d \in Calls : calls' = [calls EXCEPT ![c] =
                Union!Call("transport", "signatures", "nobody", "nobody", <<>>, d, <<TRUE, TRUE, FALSE>>)]
  BY Zenon DEF Union!TransportHash
<1> DEFINE e == Union!Call("transport", "signatures", "nobody", "nobody", <<>>, d, <<TRUE, TRUE, FALSE>>)
<1>2. calls[c].at = "new"
  BY SendingAssumption DEF Union!TransportHash, Union!IsNext, Union!At
<1>3. UNCHANGED <<earned, withdrawn, tokens, messages, relayed, signatures, payments>>
  BY NothingElse, Zenon DEF Union!TransportHash
<1>4. /\ e \in CallRecord /\ e.op = "transport" /\ e.at = "signatures" /\ e.message = d /\ ~e.waits
  BY DEF Union!Call, CallRecord, Underway, Results
<1> HIDE DEF e
<1>5. CallIsSound(c, e) /\ earned \in [Members -> Int]
  BY <1>4
     DEF CallIsSound, WellFormed, ProcessedBeforeArrival, BalanceIsFollowed, ReportIsTrue, Underway,
         Elsewhere, Unsent, OtherCalls, Withdrawals, UnionInv, UnionTyped
<1>6. calls' = [calls EXCEPT ![c] = e]
  BY <1>1 DEF e
<1>7. QED
  BY <1>2, <1>3, <1>4, <1>5, <1>6, OneCallMoves

\* The steps that only take a call from one place to the next, or end it.
LEMMA PlainStepsAreSound ==
    ASSUME UnionInv, NEW c \in Calls,
           \/ Union!GetWithdrawTx(c) \/ Union!JoinRequest(c) \/ Union!IsMember(c)
           \/ Union!CheckAllowance(c) \/ Union!GetCode(c) \/ Union!DeployDataUnion(c) \/ Union!Until(c)
           \/ Union!TransportMessage(c) \/ Union!EstimateGas(c) \/ Union!AwaitArrival(c)
           \/ Union!ExpectDelivery(c)
    PROVE  UnionInv'
<1>1. UNCHANGED <<earned, withdrawn, tokens, messages, relayed, signatures, payments>>
  BY NothingElse, Zenon
     DEF Union!GetWithdrawTx, Union!JoinRequest, Union!IsMember, Union!CheckAllowance, Union!GetCode,
         Union!DeployDataUnion, Union!Until, Union!TransportMessage, Union!EstimateGas,
         Union!AwaitArrival, Union!ExpectDelivery
<1>2. earned' \in [Members -> Int]
  BY <1>1, WhatIsKnown
<1>3. CASE Union!GetWithdrawTx(c)
  BY <1>1, <1>2, <1>3, WhatIsKnown, CallGoes, CallReturns
     DEF Union!GetWithdrawTx, Union!At, Underway, Elsewhere, Unsent, Results, Withdrawals
<1>4. CASE Union!JoinRequest(c) \/ Union!IsMember(c)
  BY <1>1, <1>2, <1>4, WhatIsKnown, CallGoes, CallReturns
     DEF Union!JoinRequest, Union!IsMember, Union!At, Underway, Elsewhere, Unsent, Results, OtherCalls
<1>5. CASE Union!CheckAllowance(c)
  BY <1>1, <1>2, <1>5, WhatIsKnown, CallGoes
     DEF Union!CheckAllowance, Union!At, Underway, Elsewhere, Unsent, OtherCalls
<1>6. CASE Union!GetCode(c) \/ Union!DeployDataUnion(c)
  BY <1>1, <1>2, <1>6, WhatIsKnown, CallGoes, CallReturns
     DEF Union!GetCode, Union!DeployDataUnion, Union!At, Underway, Elsewhere, Unsent, Results, OtherCalls
<1>7. CASE Union!Until(c)
  BY <1>1, <1>2, <1>7, WhatIsKnown, CallReturns DEF Union!Until, Union!Polls, Union!At, Results
<1>8. CASE Union!TransportMessage(c)
  <2>1. CASE Union!AlreadyProcessed(c)
    BY <1>1, <1>8, <2>1, CallIsTransported
       DEF Union!TransportMessage, Union!At, Union!AlreadyProcessed, Union!Message
  <2>2. CASE ~Union!AlreadyProcessed(c)
    <3>1. /\ Union!Goes(c, "estimate") /\ calls[c].at = "signatures"
          /\ messages[calls[c].message] = "complete"
      BY <1>8, <2>2
         DEF Union!TransportMessage, Union!At, Union!RequiredSignaturesHaveBeenCollected, Union!Message
    <3>2. QED
      BY <1>1, <1>2, <3>1, WhatIsKnown, CallGoes DEF Underway, Elsewhere, Unsent
  <2>3. QED
    BY <2>1, <2>2
<1>9. CASE Union!EstimateGas(c)
  <2>1. CASE Union!AlreadyProcessed(c)
    BY <1>1, <1>9, <2>1, CallIsTransported
       DEF Union!EstimateGas, Union!At, Union!AlreadyProcessed, Union!Message
  <2>2. CASE ~Union!AlreadyProcessed(c)
    <3>1. /\ Union!Goes(c, "executing") \/ Union!Returns(c, "error")
          /\ calls[c].at = "estimate"
      BY <1>9, <2>2 DEF Union!EstimateGas, Union!At
    <3>2. QED
      BY <1>1, <1>2, <3>1, WhatIsKnown, CallGoes, CallReturns
         DEF Underway, Elsewhere, Unsent, Results
  <2>3. QED
    BY <2>1, <2>2
<1>10. CASE Union!AwaitArrival(c)
  <2>1. /\ calls[c].at = "arrival" /\ Union!Returns(c, calls[c].result)
        /\ calls[c].sendToMainnet => tokens[calls[c].to].main # calls[c].before
    BY <1>10 DEF Union!AwaitArrival, Union!At, Union!Balance
  <2>2. calls[c].result \in Results
    BY WhatIsKnown DEF CallRecord
  <2>3. QED
    BY <1>1, <1>2, <2>1, <2>2, WhatIsKnown, CallReturns DEF Underway
<1>11. CASE Union!ExpectDelivery(c)
  <2>1. /\ calls[c].at = "delivery"
        /\ Union!Returns(c, IF calls[c].waits THEN "null" ELSE "hash")
        /\ calls[c].waits /\ calls[c].sendToMainnet => tokens[calls[c].to].main # calls[c].before
    BY <1>11 DEF Union!ExpectDelivery, Union!At, Union!Balance
  <2>2. (IF calls[c].waits THEN "null" ELSE "hash") \in Results
    BY DEF Results
  <2>3. QED
    BY <1>1, <1>2, <2>1, <2>2, WhatIsKnown, CallReturns DEF Underway
<1>12. QED
  BY <1>3, <1>4, <1>5, <1>6, <1>7, <1>8, <1>9, <1>10, <1>11

LEMMA AllowanceAndDeploymentAreSound ==
    ASSUME UnionInv, NEW c \in Calls,
           Union!IncreaseAllowance(c) \/ Union!TransferMined(c) \/ Union!DeployNewDataUnion(c)
    PROVE  UnionInv'
<1>1. CASE Union!IncreaseAllowance(c)
  <2>1. UNCHANGED <<earned, withdrawn, tokens, messages, relayed, signatures, payments>>
    BY <1>1, Zenon DEF Union!IncreaseAllowance, Union!bridge
  <2>2. QED
    BY <1>1, <2>1, WhatIsKnown, CallGoes
       DEF Union!IncreaseAllowance, Union!At, Underway, Elsewhere, Unsent, OtherCalls
<1>2. CASE Union!TransferMined(c)
  <2>1. UNCHANGED <<withdrawn, tokens, messages, relayed, signatures, payments>>
    BY <1>2, Zenon DEF Union!TransferMined, Union!bridge
  <2>2. earned' \in [Members -> Int] /\ ~calls[c].sendToMainnet
    BY <1>2, WhatIsKnown DEF Union!TransferMined, OtherCalls
  <2>3. QED
    BY <1>2, <2>1, <2>2, WhatIsKnown, CallReturns DEF Union!TransferMined, Union!At, Results
<1>3. CASE Union!DeployNewDataUnion(c)
  <2>1. UNCHANGED <<earned, withdrawn, tokens, messages, relayed, signatures, payments>>
    BY <1>3, NothingElse, Zenon DEF Union!DeployNewDataUnion
  <2>2. QED
    BY <1>3, <2>1, WhatIsKnown, CallGoes, CallReturns
       DEF Union!DeployNewDataUnion, Union!At, Underway, Elsewhere, Unsent, Results, OtherCalls
<1>4. QED
  BY <1>1, <1>2, <1>3

\* The contract pays a positive amount out of the earnings, and a signature
\* only when it names what has been withdrawn so far.
LEMMA WhatIsPaid ==
    ASSUME UnionInv, NEW c \in Calls, calls[c].from \in Members
    PROVE  /\ Union!Withdraws(c) \in Int
           /\ Union!Withdraws(c) > 0 /\ calls[c].signature # <<>> =>
                /\ calls[c].signature \in SignatureOf /\ calls[c].signature[1] = calls[c].from
                /\ calls[c].signature[2][3] = withdrawn[calls[c].from]
<1>1. /\ withdrawn \in [Members -> Int] /\ earned \in [Members -> Int]
      /\ calls[c].signature \in SignatureOf \union {<<>>}
  BY DEF UnionInv, UnionTyped, CallRecord
<1>2. CASE calls[c].signature = <<>>
  BY <1>1, <1>2 DEF Union!Withdraws, Union!Withdrawable
<1>3. CASE calls[c].signature # <<>>
  <2>1. PICK m \in Members, to \in Recipients, a \in Int, w \in Int :
            calls[c].signature = <<m, <<to, a, w>>>>
    <3>1. PICK m \in Members, x \in Recipients \X Int \X Int : calls[c].signature = <<m, x>>
      BY <1>1, <1>3 DEF SignatureOf
    <3>2. PICK to \in Recipients, a \in Int, w \in Int : x = <<to, a, w>>
      BY <3>1
    <3>3. QED
      BY <3>1, <3>2
  <2>2. /\ Union!Withdraws(c) \in Int
        /\ Union!Withdraws(c) > 0 =>
            <<m, <<to, a, w>>>> = <<calls[c].from, <<calls[c].to, a, withdrawn[calls[c].from]>>>>
    BY <1>1, <1>3, <2>1 DEF Union!Withdraws, Union!Withdrawable, Union!WithdrawMessage
  <2>3. QED
    BY <1>1, <1>3, <2>1, <2>2
<1>4. QED
  BY <1>2, <1>3

LEMMA MinedIsSound ==
    ASSUME UnionInv, NEW c \in Calls, Union!Mined(c)
    PROVE  UnionInv'
<1> DEFINE m == calls[c].from
           n == Union!Withdraws(c)
<1>1. /\ calls[c].at = "sent" /\ calls[c].op \in Withdrawals /\ calls[c] \in CallRecord
      /\ m \in Members /\ calls[c].to \in Recipients /\ messages[c] = "none" /\ relayed[c] = "no"
      /\ CallIsSound(c, calls[c]) /\ earned \in [Members -> Int] /\ c # 0
      /\ calls[c].message \in Calls
  BY WhatIsKnown, SendingAssumption
     DEF Union!Mined, Union!At, Withdrawals, UnionInv, UnionTyped, CallIsSound, WellFormed, Unsent,
         CollectedFirst
<1>2. n \in Int
  BY <1>1, WhatIsPaid
<1>3. UNCHANGED <<members, earned, relayed, signatures>>
  BY DEF Union!Mined
<1>4. CASE n <= 0
  <2>1. /\ Union!Returns(c, IF n = 0 /\ ~calls[c].sendToMainnet THEN "receipt" ELSE "error")
        /\ UNCHANGED <<withdrawn, tokens, messages, payments>>
    BY <1>4, Zenon DEF Union!Mined
  <2> HIDE DEF n
  <2>2. QED
    BY <1>1, <1>3, <2>1, CallReturns DEF Results
<1>5. CASE n > 0
  <2>1. /\ withdrawn' = [withdrawn EXCEPT ![m] = @ + n]
        /\ payments' = IF calls[c].signature = <<>> THEN payments
                       ELSE payments \cup {<<calls[c].signature, c>>}
    BY <1>2, <1>5 DEF Union!Mined
  <2>2. /\ calls[c].sendToMainnet =>
            /\ messages' = [messages EXCEPT ![c] = "collecting"] /\ UNCHANGED tokens
            /\ calls' = [calls EXCEPT ![c].amount = n, ![c].at =
                                IF calls[c].payForTransport THEN "signatures" ELSE "delivery"]
        /\ ~calls[c].sendToMainnet =>
            /\ tokens' = [tokens EXCEPT ![calls[c].to].side = @ + n]
            /\ Union!Returns(c, "receipt") /\ UNCHANGED messages
    BY <1>2, <1>5 DEF Union!Mined
  <2>3. n > 0 /\ calls[c].signature # <<>> =>
            /\ calls[c].signature \in SignatureOf /\ calls[c].signature[1] = m
            /\ calls[c].signature[2][3] = withdrawn[m]
    BY <1>1, WhatIsPaid
  <2> HIDE DEF n
  <2>4. /\ withdrawn' \in [Members -> Int] /\ withdrawn'[m] > withdrawn[m]
        /\ \A x \in Members : withdrawn'[x] >= withdrawn[x]
    BY <1>1, <1>2, <1>5, <2>1 DEF UnionInv, UnionTyped
  <2>5. payments' \subseteq SignatureOf \X Calls
    BY <1>5, <2>1, <2>3 DEF UnionInv, UnionTyped
  <2>6. SpentIsOver'
    <3> SUFFICES ASSUME NEW p \in payments'
                 PROVE  p[1][2][3] < withdrawn'[p[1][1]]
      BY DEF SpentIsOver
    <3>1. CASE p \in payments
      <4>1. p[1][1] \in Members /\ p[1][2][3] \in Int
        BY <3>1 DEF UnionInv, UnionTyped, SignatureOf
      <4>2. p[1][2][3] < withdrawn[p[1][1]] /\ withdrawn[p[1][1]] \in Int
            /\ withdrawn'[p[1][1]] \in Int
        BY <2>4, <3>1, <4>1 DEF UnionInv, UnionTyped, SpentIsOver
      <4>3. QED
        BY <2>4, <4>1, <4>2
    <3>2. CASE p \notin payments
      <4>1. p = <<calls[c].signature, c>> /\ calls[c].signature # <<>>
        BY <2>1, <3>2
      <4>2. QED
        BY <1>5, <2>3, <2>4, <4>1
    <3>3. QED
      BY <3>1, <3>2
  <2>7. PaidOnce'
    <3>1. ASSUME NEW p \in payments, calls[c].signature # <<>>
          PROVE  p[1] # calls[c].signature
      <4>1. p[1][2][3] < withdrawn[p[1][1]]
        BY <3>1 DEF UnionInv, SpentIsOver
      <4>2. withdrawn[m] \in Int
        BY <1>1 DEF UnionInv, UnionTyped
      <4>3. QED
        BY <1>5, <2>3, <3>1, <4>1, <4>2
    <3>2. QED
      BY <2>1, <3>1 DEF UnionInv, PaidOnce
  <2>8. CollectedFirst'
    BY <1>1, <1>3, <2>2 DEF UnionInv, UnionTyped, CollectedFirst
  <2>9. /\ messages' \in [Calls -> {"none", "collecting", "complete"}]
        /\ tokens' \in [Recipients -> [main : Int, side : Int]]
        /\ \A r \in Recipients : tokens'[r].main = tokens[r].main
        /\ \A x \in Calls \ {c} : messages'[x] = messages[x]
    BY <1>1, <1>2, <2>2 DEF UnionInv, UnionTyped
  <2>10. /\ calls' \in [Calls -> CallRecord] /\ \A x \in Calls \ {c} : calls'[x] = calls[x]
         /\ calls'[c].to = calls[c].to
         /\ CallIsSound(c, calls'[c]) /\ calls'[c].at \notin Unsent
    <3>1. CASE calls[c].sendToMainnet
      <4> DEFINE a == IF calls[c].payForTransport THEN "signatures" ELSE "delivery"
                 h == [calls[c] EXCEPT !.amount = n]
                 e == [h EXCEPT !.at = a]
      <4>1. calls' = [calls EXCEPT ![c] = e]
        BY <2>2, <3>1, Zenon
      <4>2. a \in Underway \union Elsewhere \union {"begun", "settled"}
        BY DEF Underway
      <4>3. h \in CallRecord /\ Kept(calls[c], h) /\ h.result = calls[c].result
        <5>1. h \in CallRecord
          BY <1>1, <1>2 DEF CallRecord
        <5>2. QED
          BY <1>1, <5>1 DEF CallRecord, Kept
      <4> HIDE DEF h
      <4>4. Kept(h, e) /\ e.at = a /\ e.result = h.result
        BY <4>2, <4>3, PhaseChanges
      <4>5. a = "signatures" \/ (a = "delivery" /\ ~calls[c].payForTransport)
        OBVIOUS
      <4> HIDE DEF e, a
      <4>6. CallIsSound(c, e)
        BY <1>1, <4>3, <4>4, <4>5
           DEF CallIsSound, WellFormed, ProcessedBeforeArrival, BalanceIsFollowed, ReportIsTrue,
               Underway, Elsewhere, Unsent, Kept, Withdrawals, OtherCalls
      <4>7. QED
        BY <1>1, <4>1, <4>3, <4>4, <4>5, <4>6 DEF Kept, UnionInv, UnionTyped, Unsent
    <3>2. CASE ~calls[c].sendToMainnet
      <4> DEFINE h == [calls[c] EXCEPT !.at = "settled"]
                 e == [h EXCEPT !.result = "receipt"]
      <4>1. calls' = [calls EXCEPT ![c] = e]
        BY <2>2, <3>2, Zenon DEF Union!Returns
      <4>2. Kept(calls[c], h) /\ h.at = "settled"
        BY <1>1, PhaseChanges
      <4> HIDE DEF h
      <4>3. e \in CallRecord /\ Kept(h, e) /\ e.at = "settled"
        <5>1. e \in CallRecord
          BY <4>2 DEF CallRecord, Kept, Results
        <5>2. QED
          BY <4>2, <5>1 DEF CallRecord, Kept
      <4> HIDE DEF e
      <4>4. CallIsSound(c, e)
        BY <1>1, <3>2, <4>2, <4>3
           DEF CallIsSound, WellFormed, ProcessedBeforeArrival, BalanceIsFollowed, ReportIsTrue,
               Underway, Elsewhere, Unsent, Kept, Withdrawals, OtherCalls
      <4>5. QED
        BY <1>1, <4>1, <4>2, <4>3, <4>4 DEF Kept, UnionInv, UnionTyped, Unsent
    <3>3. QED
      BY <3>1, <3>2
  <2>11. Onward
    BY <1>1, <1>3, <2>9, <2>10 DEF Onward
  <2>12. ASSUME NEW d \in Calls
         PROVE  CallIsSound(d, calls[d])'
    <3>1. /\ CallIsSound(d, calls'[d]) /\ calls'[d] \in CallRecord
          /\ calls'[d].at \in Unsent => messages'[d] = messages[d]
      BY <2>9, <2>10 DEF UnionInv
    <3>2. QED
      BY <2>11, <3>1, SoundStaysSound
  <2>13. UnionTyped'
    BY <1>3, <2>4, <2>5, <2>9, <2>10 DEF UnionInv, UnionTyped
  <2>14. QED
    BY <2>6, <2>7, <2>8, <2>12, <2>13 DEF UnionInv
<1>6. QED
  BY <1>2, <1>4, <1>5

\* The mainnet processes the message of a call whose signatures are collected.
LEMMA RelayedIsOnward ==
    ASSUME UnionInv, NEW d \in Calls, messages[d] = "complete", relayed[d] = "no", Union!Relay(d),
           UNCHANGED messages, \A x \in Calls : calls[x].at # "new" => calls'[x].to = calls[x].to
    PROVE  /\ Onward /\ relayed'[d] # "no" /\ CollectedFirst'
           /\ relayed' \in [Calls -> {"no", "executed", "failed"}]
           /\ tokens' \in [Recipients -> [main : Int, side : Int]]
<1> DEFINE r == calls[d].to
           n == calls[d].amount
<1>1. /\ calls[d] \in CallRecord /\ n \in Int /\ calls[d].at # "new"
      /\ relayed \in [Calls -> {"no", "executed", "failed"}]
      /\ tokens \in [Recipients -> [main : Int, side : Int]]
  BY DEF UnionInv, UnionTyped, CallIsSound, WellFormed, Unsent, CallRecord
<1>2. calls'[d].to = r
  BY <1>1
<1>3. CASE relayed' = [relayed EXCEPT ![d] = "executed"]
           /\ tokens' = [tokens EXCEPT ![r].main = @ + n]
  <2>1. relayed' \in [Calls -> {"no", "executed", "failed"}] /\ relayed'[d] = "executed"
        /\ \A x \in Calls \ {d} : relayed'[x] = relayed[x]
    BY <1>1, <1>3
  <2> HIDE DEF n, r
  <2>2. /\ tokens' \in [Recipients -> [main : Int, side : Int]]
        /\ \A q \in Recipients : q # r => tokens'[q] = tokens[q]
    <3>1. CASE r \in Recipients
      <4>1. tokens[r] \in [main : Int, side : Int] /\ tokens[r].main + n \in Int
        BY <1>1, <3>1
      <4>2. [tokens[r] EXCEPT !.main = @ + n] \in [main : Int, side : Int]
        BY <4>1
      <4>3. tokens' = [tokens EXCEPT ![r] = [tokens[r] EXCEPT !.main = @ + n]]
        BY <1>3, Zenon
      <4>4. QED
        BY <1>1, <4>2, <4>3
    <3>2. CASE r \notin Recipients
      BY <1>1, <1>3, <3>2
    <3>3. QED
      BY <3>1, <3>2
  <2>3. QED
    BY <1>2, <2>1, <2>2 DEF Onward, CollectedFirst, UnionInv
<1>4. CASE relayed' = [relayed EXCEPT ![d] = "failed"] /\ UNCHANGED tokens
  BY <1>1, <1>4 DEF Onward, CollectedFirst, UnionInv
<1>5. QED
  BY <1>3, <1>4, Zenon DEF Union!Relay

LEMMA TransportSignaturesForMessageIsSound ==
    ASSUME UnionInv, NEW c \in Calls, Union!TransportSignaturesForMessage(c)
    PROVE  UnionInv'
<1> DEFINE d == calls[c].message
<1>1. /\ calls[c].at = "executing" /\ calls[c] \in CallRecord /\ CallIsSound(c, calls[c])
      /\ d \in Calls /\ messages[d] = "complete" /\ relayed[d] \in {"no", "executed", "failed"}
      /\ relayed \in [Calls -> {"no", "executed", "failed"}]
  BY WhatIsKnown DEF Union!TransportSignaturesForMessage, Union!At, UnionInv, UnionTyped
<1>2. UNCHANGED <<earned, withdrawn, payments, messages, signatures>>
  BY DEF Union!TransportSignaturesForMessage
<1>3. CASE relayed[d] # "no"
  <2>1. Union!Returns(c, "error") /\ UNCHANGED <<relayed, tokens>>
    BY <1>3 DEF Union!TransportSignaturesForMessage, Union!AlreadyProcessed, Union!Message
  <2>2. QED
    BY <1>1, <1>2, <2>1, CallReturns, WhatIsKnown DEF Results
<1>4. CASE relayed[d] = "no"
  <2>1. Union!Relay(d) /\ Union!Transported(c, "receipt")
    BY <1>4 DEF Union!TransportSignaturesForMessage, Union!AlreadyProcessed, Union!Message
  <2> DEFINE a == IF calls[c].waits THEN "arrival" ELSE "settled"
             h == [calls[c] EXCEPT !.at = a]
             e == [h EXCEPT !.result = "receipt"]
  <2>2. calls' = [calls EXCEPT ![c] = e]
    <3>1. CASE calls[c].waits
      BY <2>1, <3>1, Zenon DEF Union!Transported
    <3>2. CASE ~calls[c].waits
      BY <2>1, <3>2, Zenon DEF Union!Transported, Union!Returns
    <3>3. QED
      BY <3>1, <3>2
  <2>3. Kept(calls[c], h) /\ h.at = a
    <3>1. a \in Underway \union Elsewhere \union {"begun", "settled"}
      BY DEF Underway
    <3> HIDE DEF a
    <3>2. QED
      BY <1>1, <3>1, PhaseChanges
  <2>4. /\ calls[c].waits => a = "arrival"
        /\ ~calls[c].waits => a = "settled"
    OBVIOUS
  <2> HIDE DEF h, a
  <2>5. e \in CallRecord /\ Kept(calls[c], e) /\ e.at = a /\ e.result = "receipt"
    <3>1. e \in CallRecord
      BY <2>3 DEF CallRecord, Kept, Results
    <3>2. QED
      BY <2>3, <3>1 DEF CallRecord, Kept
  <2> HIDE DEF e
  <2>6. /\ calls' \in [Calls -> CallRecord] /\ calls'[c] = e
        /\ \A x \in Calls \ {c} : calls'[x] = calls[x]
        /\ \A x \in Calls : calls'[x].to = calls[x].to
    BY <2>2, <2>5 DEF Kept, UnionInv, UnionTyped
  <2>7. /\ Onward /\ relayed'[d] # "no" /\ CollectedFirst'
        /\ relayed' \in [Calls -> {"no", "executed", "failed"}]
        /\ tokens' \in [Recipients -> [main : Int, side : Int]]
    BY <1>1, <1>2, <1>4, <2>1, <2>6, RelayedIsOnward
  <2>8. CallIsSound(c, calls[c])'
    <3>1. WellFormed(c, calls[c])'
      BY <1>1, <1>2, <2>4, <2>5, <2>6 DEF CallIsSound, WellFormed, Kept, Elsewhere, Unsent
    <3>2. ProcessedBeforeArrival(calls[c])'
      BY <2>5, <2>6, <2>7 DEF ProcessedBeforeArrival, Kept
    <3>3. BalanceIsFollowed(e)
      BY <1>1, <2>5 DEF CallIsSound, BalanceIsFollowed, Kept, Underway
    <3>4. BalanceIsFollowed(calls[c])'
      BY <2>6, <2>7, <3>3, BalanceStaysFollowed
    <3>5. ReportIsTrue(calls[c])'
      BY <2>4, <2>5, <2>6, <2>7 DEF ReportIsTrue, Kept
    <3>6. QED
      BY <3>1, <3>2, <3>4, <3>5 DEF CallIsSound
  <2>9. ASSUME NEW x \in Calls \ {c}
        PROVE  CallIsSound(x, calls[x])'
    <3>1. CallIsSound(x, calls'[x]) /\ calls'[x] \in CallRecord
      BY <2>6 DEF UnionInv
    <3>2. QED
      BY <1>2, <2>7, <3>1, SoundStaysSound
  <2>10. UnionTyped' /\ SpentIsOver' /\ PaidOnce'
    BY <1>2, <2>6, <2>7 DEF UnionInv, UnionTyped, SpentIsOver, PaidOnce
  <2>11. QED
    BY <2>7, <2>8, <2>9, <2>10 DEF UnionInv
<1>5. QED
  BY <1>3, <1>4

\* What the bridge, the members and their admins do.
LEMMA OthersActSoundly ==
    ASSUME UnionInv,
           \/ \E c \in Calls : Union!BridgeSigns(c) \/ Union!BridgeTransports(c)
           \/ \E m \in Members :
                \/ Union!AddMembers(m) \/ Union!RemoveMembers(m)
                \/ \E r \in Recipients : Union!SignWithdrawAllTo(m, r) \/ Union!SignWithdrawAmountTo(m, r, 1)
           \/ Union!BridgeDeploys
    PROVE  UnionInv'
<1>1. ASSUME NEW c \in Calls, Union!BridgeSigns(c)
      PROVE  UnionInv'
  <2>1. /\ messages' = [messages EXCEPT ![c] = "complete"] /\ messages[c] = "collecting"
        /\ UNCHANGED <<earned, withdrawn, tokens, relayed, calls, signatures, payments>>
    BY <1>1, Zenon DEF Union!BridgeSigns, Union!ledger
  <2>2. UnionTyped' /\ CollectedFirst' /\ Onward
    BY <2>1 DEF UnionInv, UnionTyped, CollectedFirst, Onward
  <2>3. \A d \in Calls : messages'[d] = messages[d] \/ messages[d] # "none"
    BY <2>1 DEF UnionInv, UnionTyped
  <2>4. QED
    BY <2>1, <2>2, <2>3, NoCallMoves
<1>2. ASSUME NEW c \in Calls, Union!BridgeTransports(c)
      PROVE  UnionInv'
  <2>1. /\ messages[c] = "complete" /\ relayed[c] = "no" /\ Union!Relay(c)
        /\ UNCHANGED <<earned, withdrawn, payments, messages, calls, signatures>>
    BY <1>2, Zenon DEF Union!BridgeTransports
  <2>2. /\ Onward /\ CollectedFirst'
        /\ relayed' \in [Calls -> {"no", "executed", "failed"}]
        /\ tokens' \in [Recipients -> [main : Int, side : Int]]
    BY <2>1, RelayedIsOnward
  <2>3. UnionTyped'
    BY <2>1, <2>2 DEF UnionInv, UnionTyped
  <2>4. QED
    BY <2>1, <2>2, <2>3, NoCallMoves
<1>3. ASSUME NEW m \in Members, Union!AddMembers(m) \/ Union!RemoveMembers(m) \/ Union!BridgeDeploys
      PROVE  UnionInv'
  <2>1. UNCHANGED <<earned, withdrawn, tokens, messages, relayed, calls, signatures, payments>>
    BY <1>3, Zenon
       DEF Union!AddMembers, Union!RemoveMembers, Union!ChangeMembers, Union!bridge,
           Union!BridgeDeploys, Union!ledger
  <2>2. QED
    BY <2>1, NoCallMoves DEF UnionInv, UnionTyped, CollectedFirst, Onward
<1>4. CASE Union!BridgeDeploys
  <2>1. UNCHANGED <<earned, withdrawn, tokens, messages, relayed, calls, signatures, payments>>
    BY <1>4, Zenon DEF Union!bridge, Union!BridgeDeploys, Union!ledger
  <2>2. QED
    BY <2>1, NoCallMoves DEF UnionInv, UnionTyped, CollectedFirst, Onward
<1>5. ASSUME NEW m \in Members, NEW r \in Recipients, NEW a \in Int,
             Union!SignWithdrawAmountTo(m, r, a)
      PROVE  UnionInv'
  <2>1. UNCHANGED <<earned, withdrawn, tokens, messages, relayed, calls, payments>>
    BY <1>5, Zenon DEF Union!SignWithdrawAmountTo, Union!ledger, Union!bridge
  <2>2. signatures' \subseteq SignatureOf
    BY <1>5 DEF Union!SignWithdrawAmountTo, Union!WithdrawMessage, SignatureOf, UnionInv, UnionTyped
  <2>3. QED
    BY <2>1, <2>2, NoCallMoves DEF UnionInv, UnionTyped, CollectedFirst, Onward
<1>6. QED
  BY <1>1, <1>2, <1>3, <1>4, <1>5 DEF Union!SignWithdrawAllTo, Union!All

LEMMA AskedIsSound ==
    ASSUME UnionInv, NEW c \in Calls, Union!Asked(c)
    PROVE  UnionInv'
<1>1. ASSUME NEW o \in Union!Options,
             \/ Union!WithdrawAll(c, o) \/ Union!WithdrawAllTo(c, o) \/ Union!WithdrawAllToMember(c, o)
      PROVE  UnionInv'
  <2>1. PICK op \in Withdrawals, m \in Members, to \in Recipients : Union!Begin(c, op, m, to, <<>>, o)
    BY <1>1 DEF Union!WithdrawAll, Union!WithdrawAllTo, Union!WithdrawAllToMember, Withdrawals
  <2>2. o \in BOOLEAN \X BOOLEAN \X BOOLEAN /\ op \notin OtherCalls
    BY DEF Union!Options, Withdrawals, OtherCalls
  <2>3. QED
    BY <2>1, <2>2, CallBegins
<1>2. ASSUME NEW o \in Union!Options, Union!WithdrawToSigned(c, o)
      PROVE  UnionInv'
  <2>1. PICK s \in signatures : Union!Begin(c, "signed", s[1], s[2][1], s, o)
    BY <1>2 DEF Union!WithdrawToSigned
  <2>2. s \in SignatureOf /\ s[1] \in Members /\ s[2][1] \in Recipients
    BY DEF UnionInv, UnionTyped, SignatureOf
  <2>3. o \in BOOLEAN \X BOOLEAN \X BOOLEAN /\ "signed" \in Withdrawals /\ "signed" \notin OtherCalls
    BY DEF Union!Options, Withdrawals, OtherCalls
  <2>4. QED
    BY <2>1, <2>2, <2>3, CallBegins
<1>3. CASE Union!Join(c) \/ Union!TransferToMemberInContract(c) \/ Union!Deploy(c)
  <2>1. PICK op \in OtherCalls, m \in Members \union {"nobody"}, w \in BOOLEAN :
            Union!Begin(c, op, m, m, <<>>, <<FALSE, FALSE, w>>)
    BY <1>3 DEF Union!Join, Union!TransferToMemberInContract, Union!Deploy, OtherCalls
  <2>2. /\ <<FALSE, FALSE, w>> \in BOOLEAN \X BOOLEAN \X BOOLEAN /\ ~(<<FALSE, FALSE, w>>)[1]
        /\ op \notin Withdrawals
    BY DEF Withdrawals, OtherCalls
  <2>3. QED
    BY <2>1, <2>2, CallBegins
<1>4. QED
  BY <1>1, <1>2, <1>3, TransportHashIsSound DEF Union!Asked

LEMMA UnionStep ==
    ASSUME UnionInv, Union!UnionNext \/ UNCHANGED unionVars
    PROVE  UnionInv'
<1>1. ASSUME NEW c \in Calls, Union!ClientStep(c) \/ Union!Until(c)
      PROVE  UnionInv'
  BY <1>1, ReadBalanceIsSound, MinedIsSound, TransportSignaturesForMessageIsSound,
     PlainStepsAreSound, AllowanceAndDeploymentAreSound
     DEF Union!ClientStep
<1>2. CASE UNCHANGED unionVars
  BY <1>2, NoCallMoves DEF unionVars, UnionInv, UnionTyped, CollectedFirst, Onward
<1>3. QED
  BY <1>1, <1>2, AskedIsSound, OthersActSoundly DEF Union!UnionNext

LEMMA UnionBegins ==
    ASSUME Union!UnionInit
    PROVE  UnionInv
<1>1. Union!NoCall \in CallRecord /\ Union!NoCall.at = "new" /\ Union!NoCall.op = "none"
  BY DEF Union!NoCall, Union!Call, CallRecord, Results
<1>2. /\ calls = [c \in Calls |-> Union!NoCall]
      /\ messages = [c \in Calls |-> "none"] /\ relayed = [c \in Calls |-> "no"]
      /\ earned = [m \in Members |-> 2] /\ withdrawn = [m \in Members |-> 0]
      /\ tokens = [r \in Recipients |-> [main |-> 0, side |-> 0]]
      /\ signatures = {} /\ payments = {}
  BY DEF Union!UnionInit
<1>3. QED
  BY <1>1, <1>2
     DEF UnionInv, UnionTyped, CallIsSound, WellFormed, ProcessedBeforeArrival, BalanceIsFollowed,
         ReportIsTrue, CollectedFirst, SpentIsOver, PaidOnce, Underway, Elsewhere, Unsent, Withdrawals,
         OtherCalls

LEMMA UnionInvIsEnough ==
    ASSUME UnionInv
    PROVE  WithdrawalsAreTrue
<1>1. Union!ReportsAreTrue
  <2> SUFFICES ASSUME NEW c \in Calls, calls[c].at = "settled", calls[c].sendToMainnet,
                      calls[c].result \in {"receipt", "null"}
               PROVE  /\ calls[c].payForTransport => relayed[calls[c].message] # "no"
                      /\ calls[c].waits => relayed[c] = "executed" \/ Union!PaidByAnother(c)
    BY DEF Union!ReportsAreTrue, Union!At, Union!AlreadyProcessed, Union!Message
  <2>1. ReportIsTrue(calls[c])
    BY DEF UnionInv, CallIsSound
  <2>2. QED
    BY <2>1 DEF ReportIsTrue, PaidTo, Union!PaidByAnother
<1>2. QED
  BY <1>1 DEF UnionInv, PaidOnce, WithdrawalsAreTrue, Union!SignaturesPayOnce

\* With any number of calls, members, recipients and signatures, whatever the
\* bridge does: what is reported of a withdrawal to the mainnet has happened,
\* and a signature pays once (DataUnion.ts:254, :826, :867).
THEOREM UnionsPayTruly == Union!UnionSpec => []WithdrawalsAreTrue
<1>1. Union!UnionSpec => []UnionInv
  <2>1. Union!UnionInit => UnionInv
    BY UnionBegins
  <2>2. UnionInv /\ [Union!UnionNext]_(Union!unionVars) => UnionInv'
    BY UnionStep DEF unionVars, Union!unionVars
  <2>3. QED
    BY <2>1, <2>2, PTL DEF Union!UnionSpec
<1>2. UnionInv => WithdrawalsAreTrue
  BY UnionInvIsEnough
<1>3. QED
  BY <1>1, <1>2, PTL

-----------------------------------------------------------------------------
(***************************************************************************)
(* Everything comes to an end: in a state where no answer is left to give  *)
(* and no call has a step of its own, nobody waits.                        *)
(***************************************************************************)
LEMMA RequestsSettle ==
    ASSUME SessionInv, issued <= MaxTokens
    PROVE  Sessions!EveryRequestSettles
<1> SUFFICES ASSUME Sessions!Over, ~stuck, issued # MaxTokens,
                    NEW r \in Requests, http[r].at \in Sessions!Pending
             PROVE  FALSE
  BY DEF Sessions!EveryRequestSettles
<1>1. r \in Sessions!All /\ 0 \in Sessions!All /\ issued \in Nat /\ issued < MaxTokens
  BY SendingAssumption DEF Sessions!All, Sessions!Logout, SessionInv, SessionTyped
<1>2. CASE http[r].at = "sent"
  BY <1>1, <1>2 DEF Sessions!Over
<1>3. CASE http[r].at = "waitsForLogin"
  <2>1. logins = 1
    BY <1>1, <1>3 DEF SessionInv, WaitersAreAwaited, OneLogin
  <2>2. QED
    BY <1>1, <2>1 DEF Sessions!Over, Sessions!LoginEnds
<1>4. CASE http[r].at = "waitsForLogout"
  <2>1. http[0].at = "sent"
    BY <1>1, <1>4 DEF SessionInv, WaitersAreAwaited, OneLogout
  <2>2. QED
    BY <1>1, <2>1 DEF Sessions!Over
<1>5. QED
  BY <1>2, <1>3, <1>4 DEF Sessions!Pending

LEMMA TokensAreBounded ==
    ASSUME SessionInv, issued <= MaxTokens, Sessions!SessionNext \/ UNCHANGED sessionVars
    PROVE  issued' <= MaxTokens
<1>1. issued \in Nat /\ MaxTokens \in Nat
  BY SendingAssumption DEF SessionInv, SessionTyped
<1>2. CASE Sessions!LoggedIn
  <2>1. issued < MaxTokens /\ issued' = issued + 1
    BY <1>2, Zenon DEF Sessions!LoggedIn
  <2>2. QED
    BY <1>1, <2>1
<1>3. CASE ~Sessions!LoggedIn
  <2>1. UNCHANGED issued
    BY <1>3
       DEF Sessions!SessionNext, Sessions!ServerAnswers, Sessions!LoginFails, Sessions!LogoutOk,
           Sessions!LogoutFails, Sessions!LogoutRefused, Sessions!CallLogout, Sessions!AuthFetch,
           Sessions!Ok, Sessions!Unauthorized, Sessions!Fails, Sessions!Expires, sessionVars
  <2>2. QED
    BY <2>1
<1>4. QED
  BY <1>2, <1>3

LEMMA CallsHaveSteps ==
    ASSUME UnionInv
    PROVE  Union!EveryCallSettles
<1> SUFFICES ASSUME NEW c \in Calls, calls[c].at \notin {"new", "settled"}
             PROVE  Union!HasStep(c)
  BY DEF Union!EveryCallSettles, Union!Over
<1>1. calls[c] \in CallRecord /\ WellFormed(c, calls[c])
  BY DEF UnionInv, UnionTyped, CallIsSound
<1>2. calls[c].at \in Underway \union Elsewhere \union {"begun"}
  BY <1>1 DEF CallRecord
<1>3. QED
  BY <1>1, <1>2
     DEF WellFormed, Union!HasStep, Union!Polls, Union!At, Underway, Elsewhere, Withdrawals, OtherCalls

\* Whatever the order of logins, logouts, refusals, transactions and the bridge:
\* once the server has nothing left to answer and no call a step left to take,
\* no request and no call waits, but for a session whose logout was refused for
\* an expired token (Session.ts:97, DataUnion.ts:815, utils/index.ts:563).
THEOREM CallsSettle == MCSpec => []EveryCallSettles
<1> DEFINE Inv == SessionInv /\ issued <= MaxTokens /\ UnionInv
<1>1. MCInit => Inv
  <2>1. Sessions!SessionInit => issued <= MaxTokens
    BY SendingAssumption DEF Sessions!SessionInit
  <2>2. QED
    BY <2>1, SessionBegins, UnionBegins DEF MCInit
<1>2. Inv /\ [MCNext]_<<part, vars, sessionVars, unionVars>> => Inv'
  <2> SUFFICES ASSUME Inv, [MCNext]_<<part, vars, sessionVars, unionVars>>
               PROVE  Inv'
    OBVIOUS
  <2>1. Sessions!SessionNext \/ UNCHANGED sessionVars
    BY DEF MCNext
  <2>2. Union!UnionNext \/ UNCHANGED unionVars
    BY DEF MCNext
  <2>3. QED
    BY <2>1, <2>2, SessionStep, TokensAreBounded, UnionStep
<1>3. Inv => EveryCallSettles
  BY RequestsSettle, CallsHaveSteps DEF EveryCallSettles
<1>4. QED
  BY <1>1, <1>2, <1>3, PTL DEF MCSpec
==================================================================================
