------------------------------- MODULE BrokerProofs ------------------------------
(***************************************************************************)
(* Every promise of the queue to a peer settles with its message, and      *)
(* messages go out in order; a storage node is subscribed to what it       *)
(* stores and what other plugins want; and the older adapters keep the     *)
(* node subscribed to what their clients listen to. For any number of      *)
(* messages, streams, clients and changes, any bounds, and whatever        *)
(* connections, events and answers come and go.                            *)
(***************************************************************************)
EXTENDS MCBroker, TLAPS, SequenceTheorems, FiniteSetTheorems

-----------------------------------------------------------------------------
(***************************************************************************)
(* The queue of messages to one peer.                                      *)
(***************************************************************************)
\* The messages that wait in a queue, and the order in which they wait.
Waits(q) == {q[i].message : i \in DOMAIN q}
Ascends(q) == \A i, j \in DOMAIN q : i < j => q[i].message < q[j].message

\* The queue holds what is waited for; what is sent was called for before what
\* is not, and what has gone out before what still waits.
QueueMatches == Ascends(queue) /\ Waits(queue) = {m \in Messages : promise[m] = "waiting"}
CallsInOrder == \A m, k \in Messages : promise[m] # "unsent" /\ k < m => promise[k] # "unsent"
GoneIsResolved ==
    \A i \in DOMAIN resolvedOrder :
        /\ promise[resolvedOrder[i]] = "resolved"
        /\ \A k \in Waits(queue) : resolvedOrder[i] < k
TriesAreLeft == \A i \in DOMAIN queue : queue[i].tries < MaxTries
IInv ==
    /\ TypeOK /\ TriesAreLeft
    /\ QueueMatches /\ CallsInOrder /\ GoneIsResolved /\ SentInOrder

-----------------------------------------------------------------------------
(* What the operations on the queue do to it.                              *)

LEMMA TailDropsHead ==
    ASSUME NEW q \in Seq(Item), q # <<>>, Ascends(q)
    PROVE  /\ Tail(q) \in Seq(Item) /\ Len(Tail(q)) = Len(q) - 1
           /\ Ascends(Tail(q))
           /\ Head(q).message \in Messages /\ Head(q).message \in Waits(q)
           /\ Waits(Tail(q)) = Waits(q) \ {Head(q).message}
           /\ \A k \in Waits(Tail(q)) : Head(q).message < k
           /\ \A i \in DOMAIN Tail(q) : Tail(q)[i] = q[i + 1] /\ i + 1 \in DOMAIN q
<1>1. /\ Tail(q) \in Seq(Item) /\ Len(Tail(q)) = Len(q) - 1 /\ Len(q) \in Nat \ {0}
      /\ DOMAIN q = 1 .. Len(q) /\ DOMAIN Tail(q) = 1 .. Len(q) - 1
      /\ \A i \in 1 .. Len(q) - 1 : Tail(q)[i] = q[i + 1]
      /\ Head(q) = q[1] /\ q[1] \in Item
      /\ \A i \in DOMAIN q : q[i] \in Item
  OBVIOUS
<1>2. \A i \in DOMAIN q : q[i].message \in Nat
  BY <1>1, QueueAssumption DEF Item
<1>3. Ascends(Tail(q))
  <2> SUFFICES ASSUME NEW i \in DOMAIN Tail(q), NEW j \in DOMAIN Tail(q), i < j
               PROVE  Tail(q)[i].message < Tail(q)[j].message
    BY DEF Ascends
  <2>1. i + 1 \in DOMAIN q /\ j + 1 \in DOMAIN q /\ i + 1 < j + 1
    BY <1>1
  <2>2. q[i + 1].message < q[j + 1].message
    BY <2>1 DEF Ascends
  <2>3. QED
    BY <1>1, <2>2
<1>4. \A k \in Waits(Tail(q)) : q[1].message < k /\ k \in Waits(q)
  BY <1>1 DEF Ascends, Waits
<1>5. \A k \in Waits(q) : k = q[1].message \/ k \in Waits(Tail(q))
  <2> SUFFICES ASSUME NEW i \in DOMAIN q, i # 1 PROVE q[i].message \in Waits(Tail(q))
    BY <1>1 DEF Waits
  <2>1. i - 1 \in DOMAIN Tail(q) /\ Tail(q)[i - 1] = q[i]
    BY <1>1
  <2>2. QED
    BY <2>1 DEF Waits
<1>6. q[1].message \in Waits(q) /\ q[1].message \in Messages /\ q[1].message \in Nat
  BY <1>1, <1>2 DEF Waits, Item
<1>7. q[1].message \notin Waits(Tail(q))
  BY <1>4, <1>6
<1>8. QED
  BY <1>1, <1>3, <1>4, <1>5, <1>6, <1>7

LEMMA AppendAddsLast ==
    ASSUME NEW q \in Seq(Item), Ascends(q), NEW x \in Item,
           \A k \in Waits(q) : k < x.message
    PROVE  /\ Append(q, x) \in Seq(Item) /\ Len(Append(q, x)) = Len(q) + 1
           /\ Ascends(Append(q, x))
           /\ Waits(Append(q, x)) = Waits(q) \union {x.message}
           /\ \A i \in DOMAIN Append(q, x) : Append(q, x)[i] = x \/ (i \in DOMAIN q /\ Append(q, x)[i] = q[i])
<1>1. /\ Append(q, x) \in Seq(Item) /\ Len(Append(q, x)) = Len(q) + 1 /\ Len(q) \in Nat
      /\ DOMAIN Append(q, x) = 1 .. Len(q) + 1 /\ DOMAIN q = 1 .. Len(q)
      /\ \A i \in DOMAIN q : Append(q, x)[i] = q[i]
      /\ Append(q, x)[Len(q) + 1] = x
  OBVIOUS
<1>2. \A i \in 1 .. Len(q) + 1 : i = Len(q) + 1 \/ i \in DOMAIN q
  BY <1>1
<1>3. Ascends(Append(q, x))
  <2> SUFFICES ASSUME NEW i \in 1 .. Len(q) + 1, NEW j \in 1 .. Len(q) + 1, i < j
               PROVE  Append(q, x)[i].message < Append(q, x)[j].message
    BY <1>1 DEF Ascends
  <2>1. i \in DOMAIN q /\ q[i].message \in Waits(q)
    BY <1>1 DEF Waits
  <2>2. CASE j = Len(q) + 1
    BY <1>1, <2>1, <2>2
  <2>3. CASE j \in DOMAIN q
    BY <1>1, <2>1, <2>3 DEF Ascends
  <2>4. QED
    BY <1>2, <2>2, <2>3
<1>4. Waits(Append(q, x)) = Waits(q) \union {x.message}
  BY <1>1, <1>2 DEF Waits
<1>5. \A i \in DOMAIN Append(q, x) :
         Append(q, x)[i] = x \/ (i \in DOMAIN q /\ Append(q, x)[i] = q[i])
  BY <1>1, <1>2
<1>6. QED
  BY <1>1, <1>3, <1>4, <1>5

LEMMA TriesOnly ==
    ASSUME NEW q \in Seq(Item), q # <<>>, Ascends(q), Head(q).tries + 1 < MaxTries
    PROVE  LET r == [q EXCEPT ![1].tries = @ + 1]
           IN  /\ r \in Seq(Item) /\ Len(r) = Len(q)
               /\ Ascends(r) /\ Waits(r) = Waits(q)
               /\ \A i \in DOMAIN r : i \in DOMAIN q /\ (r[i] = q[i] \/ r[i].tries = Head(q).tries + 1)
<1> DEFINE r == [q EXCEPT ![1].tries = @ + 1]
<1>1. /\ Len(q) \in Nat \ {0} /\ DOMAIN q = 1 .. Len(q) /\ 1 \in DOMAIN q
      /\ Head(q) = q[1] /\ q[1] \in Item /\ \A i \in DOMAIN q : q[i] \in Item
  OBVIOUS
<1>2. /\ r = [q EXCEPT ![1] = [q[1] EXCEPT !.tries = q[1].tries + 1]]
      /\ [q[1] EXCEPT !.tries = q[1].tries + 1] \in Item
  BY <1>1, QueueAssumption DEF Item
<1>3. /\ DOMAIN r = DOMAIN q
      /\ \A i \in DOMAIN q : r[i] = IF i = 1 THEN [q[1] EXCEPT !.tries = q[1].tries + 1] ELSE q[i]
  BY <1>1
<1>4. r \in Seq(Item) /\ Len(r) = Len(q)
  BY <1>1, <1>2, ExceptSeq
<1>5. \A i \in DOMAIN q : r[i].message = q[i].message
  BY <1>1, <1>3 DEF Item
<1>6. \A i \in DOMAIN q : r[i] = q[i] \/ r[i].tries = q[1].tries + 1
  BY <1>1, <1>3 DEF Item
<1>7. QED
  BY <1>1, <1>3, <1>4, <1>5, <1>6 DEF Ascends, Waits

-----------------------------------------------------------------------------
(* Steps that change the queue.                                            *)

USE DEF Reject, HeadMessage

\* What is sent is the first of what has not been sent yet.
LEMMA CalledInTurn ==
    ASSUME IInv, NEW m \in Messages, promise[m] = "unsent",
           \A k \in Messages : k < m => promise[k] # "unsent"
    PROVE  /\ \A k \in Messages : promise[k] # "unsent" => k < m
           /\ \A k \in Waits(queue) : k < m
           /\ \A i \in DOMAIN resolvedOrder : resolvedOrder[i] < m /\ resolvedOrder[i] # m
<1>1. \A k \in Messages : k \in Nat
  BY QueueAssumption
<1>2. \A k \in Messages : promise[k] # "unsent" => k < m
  BY <1>1 DEF IInv, CallsInOrder
<1>3. \A k \in Waits(queue) : k < m
  BY <1>2 DEF IInv, QueueMatches
<1>4. \A i \in DOMAIN resolvedOrder : resolvedOrder[i] \in Messages /\ promise[resolvedOrder[i]] = "resolved"
  BY DEF IInv, TypeOK, GoneIsResolved
<1>5. QED
  BY <1>1, <1>2, <1>3, <1>4

LEMMA SendKeeps ==
    ASSUME IInv, NEW m \in Messages, Send(m)
    PROVE  IInv'
<1> DEFINE crowded == Len(queue) = MaxSize
           rest == IF crowded THEN Tail(queue) ELSE queue
           item == [message |-> m, tries |-> 0]
<1>1. /\ queue \in Seq(Item) /\ Len(queue) <= MaxSize /\ Len(queue) \in Nat
      /\ Ascends(queue) /\ Waits(queue) = {k \in Messages : promise[k] = "waiting"}
      /\ promise[m] = "unsent" /\ item \in Item /\ item.tries < MaxTries
      /\ \A k \in Messages : k \in Nat
      /\ MaxSize \in Nat \ {0}
  BY QueueAssumption DEF IInv, TypeOK, QueueMatches, Send, Item
<1>2. /\ \A k \in Messages : promise[k] # "unsent" => k < m
      /\ \A k \in Waits(queue) : k < m
      /\ \A i \in DOMAIN resolvedOrder : resolvedOrder[i] < m /\ resolvedOrder[i] # m
  BY CalledInTurn DEF Send
<1>3. crowded => queue # <<>>
  BY <1>1
<1>4. /\ rest \in Seq(Item) /\ Len(rest) < MaxSize /\ Len(rest) \in Nat
      /\ Ascends(rest)
      /\ Waits(rest) = IF crowded THEN Waits(queue) \ {Head(queue).message} ELSE Waits(queue)
      /\ \A i \in DOMAIN rest : \E j \in DOMAIN queue : rest[i] = queue[j]
  <2>1. CASE crowded
    <3>1. rest = Tail(queue) /\ queue # <<>>
      BY <1>3, <2>1
    <3>2. /\ Tail(queue) \in Seq(Item) /\ Len(Tail(queue)) = Len(queue) - 1
          /\ Ascends(Tail(queue)) /\ Waits(Tail(queue)) = Waits(queue) \ {Head(queue).message}
          /\ \A i \in DOMAIN Tail(queue) : Tail(queue)[i] = queue[i + 1] /\ i + 1 \in DOMAIN queue
      BY <1>1, <3>1, TailDropsHead
    <3>3. QED
      BY <1>1, <2>1, <3>1, <3>2
  <2>2. CASE ~crowded
    BY <1>1, <2>2
  <2>3. QED
    BY <2>1, <2>2
<1>5. queue' = Append(rest, item)
  BY DEF Send
<1>6. /\ queue' \in Seq(Item) /\ Len(queue') <= MaxSize
      /\ Ascends(queue') /\ Waits(queue') = Waits(rest) \union {m}
      /\ \A i \in DOMAIN queue' : queue'[i] = item \/ (i \in DOMAIN rest /\ queue'[i] = rest[i])
  <2>1. \A k \in Waits(rest) : k < item.message
    BY <1>2, <1>4
  <2> HIDE DEF rest, item
  <2>2. /\ Append(rest, item) \in Seq(Item) /\ Len(Append(rest, item)) = Len(rest) + 1
        /\ Ascends(Append(rest, item)) /\ Waits(Append(rest, item)) = Waits(rest) \union {item.message}
        /\ \A i \in DOMAIN Append(rest, item) :
              Append(rest, item)[i] = item \/ (i \in DOMAIN rest /\ Append(rest, item)[i] = rest[i])
    BY <1>1, <1>4, <2>1, AppendAddsLast
  <2>3. item.message = m
    BY DEF item
  <2>4. QED
    BY <1>1, <1>4, <1>5, <2>2, <2>3
<1>7. /\ promise \in [Messages -> {"unsent", "waiting", "resolved", "rejected"}]
      /\ promise' = [k \in Messages |-> IF k = m THEN "waiting"
                         ELSE IF crowded /\ k = Head(queue).message THEN "rejected" ELSE promise[k]]
      /\ resolvedOrder' = resolvedOrder
  BY DEF Send, IInv, TypeOK, Oldest
<1>8. TypeOK'
  BY <1>6, <1>7 DEF IInv, TypeOK, Send, channelVars
<1>9. QueueMatches'
  <2>1. Waits(queue') = {k \in Messages : promise'[k] = "waiting"}
    BY <1>1, <1>4, <1>6, <1>7
  <2>2. QED
    BY <1>6, <2>1 DEF QueueMatches
<1>10. CallsInOrder'
  <2>1. \A k \in Messages : promise'[k] # "unsent" <=> (k = m \/ promise[k] # "unsent")
    <3>1. crowded => Head(queue).message \in Waits(queue)
      BY <1>1, <1>3, TailDropsHead
    <3>2. QED
      BY <1>1, <1>7, <3>1
  <2>2. \A k \in Messages : k < m => promise[k] # "unsent"
    BY DEF Send
  <2>3. QED
    BY <2>1, <2>2 DEF IInv, CallsInOrder
<1>11. GoneIsResolved'
  <2> SUFFICES ASSUME NEW i \in DOMAIN resolvedOrder
               PROVE  /\ promise'[resolvedOrder[i]] = "resolved"
                      /\ \A k \in Waits(queue') : resolvedOrder[i] < k
    BY <1>7 DEF GoneIsResolved
  <2>1. /\ resolvedOrder[i] \in Messages /\ promise[resolvedOrder[i]] = "resolved"
        /\ \A k \in Waits(queue) : resolvedOrder[i] < k
    BY DEF IInv, TypeOK, GoneIsResolved
  <2>2. crowded => promise[Head(queue).message] = "waiting"
    BY <1>1, <1>3, TailDropsHead
  <2>3. promise'[resolvedOrder[i]] = "resolved"
    BY <1>2, <1>7, <2>1, <2>2
  <2>4. \A k \in Waits(queue') : k = m \/ k \in Waits(queue)
    BY <1>4, <1>6
  <2>5. QED
    BY <1>2, <2>1, <2>3, <2>4
<1>12. TriesAreLeft' /\ SentInOrder'
  <2>1. TriesAreLeft'
    <3>1. \A i \in DOMAIN rest : rest[i].tries < MaxTries
      BY <1>4 DEF IInv, TriesAreLeft
    <3>2. QED
      BY <1>1, <1>6, <3>1 DEF TriesAreLeft
  <2>2. QED
    BY <2>1, <1>7 DEF IInv, SentInOrder
<1>13. QED
  BY <1>8, <1>9, <1>10, <1>11, <1>12 DEF IInv

LEMMA SentLast ==
    ASSUME NEW s \in Seq(Messages), NEW x \in Messages, NEW t, t = Append(s, x)
    PROVE  /\ t \in Seq(Messages)
           /\ \A i \in DOMAIN s : i \in DOMAIN t /\ t[i] = s[i]
           /\ \A i \in DOMAIN t : i \in DOMAIN s \/ t[i] = x
           /\ \A i, j \in DOMAIN t : i < j => i \in DOMAIN s /\ (j \in DOMAIN s \/ t[j] = x)
<1>1. /\ t \in Seq(Messages) /\ Len(s) \in Nat
      /\ DOMAIN s = 1 .. Len(s) /\ DOMAIN t = 1 .. Len(s) + 1
      /\ \A i \in DOMAIN s : t[i] = s[i]
      /\ t[Len(s) + 1] = x
  OBVIOUS
<1>2. \A i \in DOMAIN t : i \in Nat /\ i <= Len(s) + 1 /\ (i = Len(s) + 1 \/ i \in DOMAIN s)
  BY <1>1
<1>3. \A i, j \in DOMAIN t : i < j => i # Len(s) + 1
  BY <1>1, <1>2
<1>4. QED
  BY <1>1, <1>2, <1>3

\* The first message leaves the queue, resolved or rejected.
LEMMA HeadSettles ==
    ASSUME IInv, queue # <<>>, NEW as \in {"resolved", "rejected"},
           queue' = Tail(queue),
           promise' = [promise EXCEPT ![Head(queue).message] = as],
           resolvedOrder' = IF as = "resolved" THEN Append(resolvedOrder, Head(queue).message)
                            ELSE resolvedOrder
    PROVE  /\ queue' \in Seq(Item) /\ Len(queue') <= MaxSize
           /\ promise' \in [Messages -> {"unsent", "waiting", "resolved", "rejected"}]
           /\ resolvedOrder' \in Seq(Messages)
           /\ QueueMatches' /\ CallsInOrder' /\ GoneIsResolved' /\ TriesAreLeft' /\ SentInOrder'
<1> DEFINE head == Head(queue).message
<1>1. /\ queue \in Seq(Item) /\ Len(queue) <= MaxSize /\ Len(queue) \in Nat
      /\ Ascends(queue) /\ Waits(queue) = {k \in Messages : promise[k] = "waiting"}
      /\ promise \in [Messages -> {"unsent", "waiting", "resolved", "rejected"}]
      /\ resolvedOrder \in Seq(Messages)
      /\ MaxSize \in Nat \ {0}
      /\ \A k \in Messages : k \in Nat
  BY QueueAssumption DEF IInv, TypeOK, QueueMatches
<1>2. /\ Tail(queue) \in Seq(Item) /\ Len(Tail(queue)) = Len(queue) - 1
      /\ Ascends(Tail(queue))
      /\ head \in Messages /\ head \in Waits(queue)
      /\ Waits(Tail(queue)) = Waits(queue) \ {head}
      /\ \A k \in Waits(Tail(queue)) : head < k
      /\ \A i \in DOMAIN Tail(queue) : Tail(queue)[i] = queue[i + 1] /\ i + 1 \in DOMAIN queue
  BY <1>1, TailDropsHead
<1> HIDE DEF head
<1>3. /\ promise[head] = "waiting"
      /\ promise' = [promise EXCEPT ![head] = as]
      /\ \A k \in Messages : promise'[k] = IF k = head THEN as ELSE promise[k]
  BY <1>1, <1>2 DEF head
<1>4. queue' \in Seq(Item) /\ Len(queue') <= MaxSize
  BY <1>1, <1>2
<1>5. promise' \in [Messages -> {"unsent", "waiting", "resolved", "rejected"}]
  <2>1. promise \in [Messages -> {"unsent", "waiting", "resolved", "rejected"}]
    BY <1>1
  <2>2. promise' = [promise EXCEPT ![head] = as]
    BY <1>3
  <2>3. QED
    BY <2>1, <2>2
<1>6. QueueMatches'
  <2>1. Waits(queue') = {k \in Messages : promise'[k] = "waiting"}
    BY <1>1, <1>2, <1>3
  <2>2. QED
    BY <1>2, <2>1 DEF QueueMatches
<1>7. CallsInOrder'
  BY <1>2, <1>3 DEF IInv, CallsInOrder
<1>8. \A i \in DOMAIN resolvedOrder :
         /\ resolvedOrder[i] \in Messages /\ promise[resolvedOrder[i]] = "resolved"
         /\ resolvedOrder[i] < head
         /\ \A k \in Waits(queue') : resolvedOrder[i] < k
  BY <1>1, <1>2 DEF IInv, GoneIsResolved
<1>9. TriesAreLeft'
  BY <1>2 DEF IInv, TriesAreLeft
<1>10. CASE as = "rejected"
  <2>1. resolvedOrder' = resolvedOrder
    BY <1>10
  <2>2. GoneIsResolved'
    BY <1>3, <1>8, <2>1 DEF GoneIsResolved
  <2>3. QED
    BY <1>1, <1>4, <1>5, <1>6, <1>7, <1>9, <2>1, <2>2 DEF IInv, SentInOrder
<1>11. CASE as = "resolved"
  <2>1. resolvedOrder' = Append(resolvedOrder, head)
    BY <1>11 DEF head
  <2>2. resolvedOrder \in Seq(Messages) /\ head \in Messages
    BY <1>1, <1>2
  <2>3. /\ resolvedOrder' \in Seq(Messages)
        /\ \A i \in DOMAIN resolvedOrder : resolvedOrder'[i] = resolvedOrder[i]
        /\ \A i \in DOMAIN resolvedOrder' : i \in DOMAIN resolvedOrder \/ resolvedOrder'[i] = head
        /\ \A i, j \in DOMAIN resolvedOrder' :
               i < j => i \in DOMAIN resolvedOrder /\ (j \in DOMAIN resolvedOrder \/ resolvedOrder'[j] = head)
    BY <2>1, <2>2, SentLast, Zenon
  <2>4. GoneIsResolved'
    <3>1. promise'[head] = "resolved" /\ \A k \in Waits(queue') : head < k
      BY <1>2, <1>3, <1>11
    <3>2. \A i \in DOMAIN resolvedOrder :
             promise'[resolvedOrder[i]] = "resolved" /\ \A k \in Waits(queue') : resolvedOrder[i] < k
      BY <1>3, <1>8
    <3>3. ASSUME NEW i \in DOMAIN resolvedOrder'
          PROVE  /\ promise'[resolvedOrder'[i]] = "resolved"
                 /\ \A k \in Waits(queue') : resolvedOrder'[i] < k
      <4>1. CASE i \in DOMAIN resolvedOrder
        <5>1. resolvedOrder'[i] = resolvedOrder[i]
          BY <2>3, <4>1
        <5>2. QED
          BY <3>2, <4>1, <5>1
      <4>2. CASE resolvedOrder'[i] = head
        BY <3>1, <4>2
      <4>3. QED
        BY <2>3, <4>1, <4>2
    <3>4. QED
      BY <3>3, Zenon DEF GoneIsResolved, Waits
  <2>5. SentInOrder'
    <3> SUFFICES ASSUME NEW i \in DOMAIN resolvedOrder', NEW j \in DOMAIN resolvedOrder', i < j
                 PROVE  resolvedOrder'[i] < resolvedOrder'[j]
      BY DEF SentInOrder
    <3>1. i \in DOMAIN resolvedOrder /\ resolvedOrder'[i] = resolvedOrder[i]
      BY <2>3
    <3>2. CASE j \in DOMAIN resolvedOrder
      BY <2>3, <3>1, <3>2 DEF IInv, SentInOrder
    <3>3. CASE resolvedOrder'[j] = head
      BY <1>8, <3>1, <3>3
    <3>4. QED
      BY <2>3, <3>2, <3>3
  <2>6. QED
    BY <1>4, <1>5, <1>6, <1>7, <1>9, <2>3, <2>4, <2>5
<1>12. QED
  BY <1>10, <1>11

LEMMA SentKeeps == ASSUME IInv, Sent PROVE IInv'
<1>1. /\ queue # <<>> /\ queue' = Tail(queue)
      /\ promise' = [promise EXCEPT ![Head(queue).message] = "resolved"]
      /\ resolvedOrder' = Append(resolvedOrder, Head(queue).message)
      /\ ~Idle /\ sends < Burst /\ ~Full
  BY DEF Sent, Trying, LoopGoesOn
<1>2. /\ queue' \in Seq(Item) /\ Len(queue') <= MaxSize
      /\ promise' \in [Messages -> {"unsent", "waiting", "resolved", "rejected"}]
      /\ resolvedOrder' \in Seq(Messages)
      /\ QueueMatches' /\ CallsInOrder' /\ GoneIsResolved' /\ TriesAreLeft' /\ SentInOrder'
  BY <1>1, HeadSettles
<1>3. buffered' \in 0..Threshold /\ sends' \in -1..Burst
  BY <1>1, QueueAssumption DEF Sent, IInv, TypeOK, Full, Idle
<1>4. TypeOK'
  BY <1>2, <1>3 DEF IInv, TypeOK, Sent, timerVars
<1>5. QED
  BY <1>2, <1>4 DEF IInv

LEMMA DropKeeps == ASSUME IInv, DropTooLong PROVE IInv'
<1>1. /\ queue # <<>> /\ queue' = Tail(queue) /\ resolvedOrder' = resolvedOrder
      /\ promise' = [m \in Messages |-> IF m \in {Head(queue).message} THEN "rejected" ELSE promise[m]]
  BY DEF DropTooLong, LoopGoesOn
<1>2. promise' = [promise EXCEPT ![Head(queue).message] = "rejected"]
  BY <1>1 DEF IInv, TypeOK
<1>3. /\ queue' \in Seq(Item) /\ Len(queue') <= MaxSize
      /\ promise' \in [Messages -> {"unsent", "waiting", "resolved", "rejected"}]
      /\ resolvedOrder' \in Seq(Messages)
      /\ QueueMatches' /\ CallsInOrder' /\ GoneIsResolved' /\ TriesAreLeft' /\ SentInOrder'
  BY <1>1, <1>2, HeadSettles
<1>4. TypeOK'
  BY <1>3 DEF IInv, TypeOK, DropTooLong, channelVars, timerVars
<1>5. QED
  BY <1>3, <1>4 DEF IInv

LEMMA FailedKeeps ==
    ASSUME IInv, Trying, ProcessFailedMessage, sends' \in {-1, sends}, isOpen' \in BOOLEAN
    PROVE  IInv'
<1>1. /\ queue # <<>> /\ resolvedOrder' = resolvedOrder /\ queue' = AfterFailure
      /\ promise' = [m \in Messages |-> IF m \in GivenUp THEN "rejected" ELSE promise[m]]
  BY DEF ProcessFailedMessage, Trying, LoopGoesOn
<1>2. /\ queue \in Seq(Item) /\ Len(queue) <= MaxSize /\ Ascends(queue)
      /\ promise \in [Messages -> {"unsent", "waiting", "resolved", "rejected"}]
      /\ Head(queue) = queue[1] /\ 1 \in DOMAIN queue /\ queue[1] \in Item
  BY <1>1 DEF IInv, TypeOK, QueueMatches
<1>3. Head(queue).tries < MaxTries /\ Head(queue).tries \in Nat /\ MaxTries \in Nat
  BY <1>2, QueueAssumption DEF IInv, TriesAreLeft, Item
<1>4. /\ queue' \in Seq(Item) /\ Len(queue') <= MaxSize
      /\ promise' \in [Messages -> {"unsent", "waiting", "resolved", "rejected"}]
      /\ resolvedOrder' \in Seq(Messages)
      /\ QueueMatches' /\ CallsInOrder' /\ GoneIsResolved' /\ TriesAreLeft' /\ SentInOrder'
  <2>1. CASE Head(queue).tries + 1 = MaxTries
    <3>1. queue' = Tail(queue) /\ promise' = [promise EXCEPT ![Head(queue).message] = "rejected"]
      BY <1>1, <1>2, <2>1 DEF AfterFailure, GivenUp
    <3>2. QED
      BY <1>1, <3>1, HeadSettles
  <2>2. CASE Head(queue).tries + 1 # MaxTries
    <3>1. queue' = [queue EXCEPT ![1].tries = @ + 1] /\ promise' = promise
      BY <1>1, <1>2, <2>2 DEF AfterFailure, GivenUp
    <3>2. Head(queue).tries + 1 < MaxTries
      BY <1>3, <2>2
    <3>3. /\ queue' \in Seq(Item) /\ Len(queue') = Len(queue)
          /\ Ascends(queue') /\ Waits(queue') = Waits(queue)
          /\ \A i \in DOMAIN queue' :
                i \in DOMAIN queue /\ (queue'[i] = queue[i] \/ queue'[i].tries = Head(queue).tries + 1)
      <4> DEFINE r == [queue EXCEPT ![1].tries = @ + 1]
      <4>1. /\ r \in Seq(Item) /\ Len(r) = Len(queue)
            /\ Ascends(r) /\ Waits(r) = Waits(queue)
            /\ \A i \in DOMAIN r : i \in DOMAIN queue /\ (r[i] = queue[i] \/ r[i].tries = Head(queue).tries + 1)
        BY <1>1, <1>2, <3>2, TriesOnly
      <4>2. queue' = r
        BY <3>1
      <4> HIDE DEF r
      <4>3. QED
        BY <4>1, <4>2
    <3>4. TriesAreLeft'
      BY <3>2, <3>3 DEF IInv, TriesAreLeft
    <3>5. QueueMatches' /\ CallsInOrder' /\ GoneIsResolved' /\ SentInOrder'
      <4>1. Waits(queue') = Waits(queue) /\ Ascends(queue') /\ promise' = promise /\ resolvedOrder' = resolvedOrder
        BY <1>1, <3>1, <3>3
      <4>2. QueueMatches'
        BY <4>1 DEF IInv, QueueMatches
      <4>3. CallsInOrder'
        BY <4>1 DEF IInv, CallsInOrder
      <4>4. GoneIsResolved'
        BY <4>1 DEF IInv, GoneIsResolved
      <4>5. SentInOrder'
        BY <4>1 DEF IInv, SentInOrder
      <4>6. QED
        BY <4>2, <4>3, <4>4, <4>5
    <3>6. QED
      BY <1>1, <1>2, <3>1, <3>3, <3>4, <3>5 DEF IInv, TypeOK
  <2>3. QED
    BY <2>1, <2>2
<1>5. TypeOK'
  BY <1>4, QueueAssumption DEF IInv, TypeOK, ProcessFailedMessage
<1>6. QED
  BY <1>4, <1>5 DEF IInv
-----------------------------------------------------------------------------
(* The other steps leave the queue and the promises alone.                 *)

LEMMA QueueUntouched ==
    ASSUME IInv, UNCHANGED <<queue, promise, resolvedOrder>>, TypeOK'
    PROVE  IInv'
BY DEF IInv, TriesAreLeft, QueueMatches, CallsInOrder, GoneIsResolved, SentInOrder

LEMMA InitHolds == ASSUME Init PROVE IInv
<1>1. TypeOK
  <2>1. queue \in Seq(Item) /\ Len(queue) <= MaxSize /\ resolvedOrder \in Seq(Messages)
    BY QueueAssumption DEF Init
  <2>2. buffered \in 0..Threshold /\ sends \in -1..Burst
    BY QueueAssumption DEF Init
  <2>3. QED
    BY <2>1, <2>2 DEF Init, TypeOK
<1>2. QueueMatches /\ CallsInOrder /\ GoneIsResolved /\ TriesAreLeft /\ SentInOrder
  BY DEF Init, QueueMatches, CallsInOrder, GoneIsResolved, TriesAreLeft, SentInOrder, Ascends, Waits
<1>3. QED
  BY <1>1, <1>2 DEF IInv

LEMMA StepHolds == ASSUME IInv, [Next]_vars PROVE IInv'
<1> USE DEF IInv, TypeOK, Idle
<1>1. CASE Connect
  BY <1>1, QueueUntouched DEF Connect, channelVars, timerVars
<1>2. CASE EmitOpen
  BY <1>2, QueueUntouched DEF EmitOpen
<1>3. CASE ChannelCloses
  BY <1>3, QueueUntouched DEF ChannelCloses, timerVars
<1>4. CASE Close
  <2>1. buffered' \in 0..Threshold
    BY <1>4, QueueAssumption DEF Close
  <2>2. QED
    BY <1>4, <2>1, QueueUntouched DEF Close
<1>5. CASE Drain
  <2>1. buffered' \in 0..Threshold
    BY <1>5, QueueAssumption DEF Drain
  <2>3. lowEvent' \in BOOLEAN
    BY <1>5 DEF Drain, Full
  <2>2. UNCHANGED <<queue, promise, connection, isOpen, paused, flushRef, flushTimeoutRef, sends, resolvedOrder>>
    BY <1>5 DEF Drain, timerVars
  <2>4. QED
    BY <2>1, <2>2, <2>3, QueueUntouched
<1>6. CASE EmitLowBackpressure
  BY <1>6, QueueUntouched DEF EmitLowBackpressure
<1>7. CASE \E m \in Messages : Send(m)
  BY <1>7, SendKeeps
<1>8. CASE FlushNow
  <2>1. sends' \in -1..Burst
    BY <1>8, QueueAssumption DEF FlushNow
  <2>2. UNCHANGED <<queue, promise, connection, isOpen, buffered, lowEvent, paused, flushTimeoutRef, resolvedOrder>>
    BY <1>8 DEF FlushNow, channelVars
  <2>3. flushRef' = FALSE
    BY <1>8 DEF FlushNow
  <2>4. QED
    BY <2>1, <2>2, <2>3, QueueUntouched
<1>9. CASE FlushLater
  <2>1. sends' \in -1..Burst
    BY <1>9, QueueAssumption DEF FlushLater
  <2>2. UNCHANGED <<queue, promise, connection, isOpen, buffered, lowEvent, paused, flushRef, resolvedOrder>>
    BY <1>9 DEF FlushLater, channelVars
  <2>3. flushTimeoutRef' = FALSE
    BY <1>9 DEF FlushLater
  <2>4. QED
    BY <2>1, <2>2, <2>3, QueueUntouched
<1>10. CASE LoopEnds
  BY <1>10, QueueAssumption, QueueUntouched DEF LoopEnds, channelVars, timerVars
<1>11. CASE LoopYields
  BY <1>11, QueueAssumption, QueueUntouched DEF LoopYields, channelVars
<1>12. CASE DropTooLong
  BY <1>12, DropKeeps
<1>13. CASE Pause
  BY <1>13, QueueAssumption, QueueUntouched DEF Pause, channelVars, timerVars
<1>14. CASE Sent
  BY <1>14, SentKeeps
<1>15. CASE SendThrows
  BY <1>15, FailedKeeps DEF SendThrows
<1>16. CASE SendReturnsFalse
  BY <1>16, FailedKeeps DEF SendReturnsFalse
<1>17. CASE UNCHANGED vars
  BY <1>17, QueueUntouched DEF vars, channelVars, timerVars
<1>18. QED
  BY <1>1, <1>2, <1>3, <1>4, <1>5, <1>6, <1>7, <1>8, <1>9, <1>10, <1>11, <1>12, <1>13,
     <1>14, <1>15, <1>16, <1>17 DEF Next, Looping

LEMMA InvariantHolds == Spec => []IInv
BY InitHolds, StepHolds, PTL DEF Spec

-----------------------------------------------------------------------------
(* What users of the queue may rely on.                                    *)

\* The queue stays within its bound, tries within theirs, and the loop within its burst.
THEOREM TypeCorrect == Spec => []TypeOK
<1>1. IInv => TypeOK
  BY DEF IInv
<1>2. QED
  BY InvariantHolds, <1>1, PTL

\* Messages go out in the order of send(), retries and new connections included: processFailedMessage
\* leaves a message at the head of the queue, and a full queue gives up its oldest.
THEOREM MessagesKeepTheirOrder == Spec => []SentInOrder
<1>1. IInv => SentInOrder
  BY DEF IInv
<1>2. QED
  BY InvariantHolds, <1>1, PTL

\* The promise of send() is open exactly while its message is in the queue, once.
THEOREM EveryPromiseHasItsMessage == Spec => []PromisesMatchQueue
<1>1. ASSUME IInv PROVE PromisesMatchQueue
  <2> SUFFICES ASSUME NEW m \in Messages
               PROVE  LET places == {i \in DOMAIN queue : queue[i].message = m}
                      IN  IF promise[m] = "waiting" THEN \E i \in places : places = {i} ELSE places = {}
    BY DEF PromisesMatchQueue
  <2> DEFINE places == {i \in DOMAIN queue : queue[i].message = m}
  <2>1. m \in Waits(queue) <=> promise[m] = "waiting"
    BY <1>1 DEF IInv, QueueMatches
  <2>2. CASE promise[m] = "waiting"
    <3>1. PICK i \in DOMAIN queue : queue[i].message = m
      BY <2>1, <2>2 DEF Waits
    <3>2. ASSUME NEW j \in DOMAIN queue, queue[j].message = m PROVE j = i
      <4>1. DOMAIN queue \subseteq Nat /\ m \in Nat
        BY <1>1, QueueAssumption DEF IInv, TypeOK
      <4>2. i < j \/ j < i \/ i = j
        BY <4>1
      <4>3. ~(i < j) /\ ~(j < i)
        BY <1>1, <3>1, <3>2, <4>1 DEF IInv, QueueMatches, Ascends
      <4>4. QED
        BY <4>2, <4>3
    <3>3. i \in places /\ places = {i}
      BY <3>1, <3>2
    <3>4. QED
      BY <2>2, <3>3
  <2>3. CASE promise[m] # "waiting"
    BY <2>1, <2>3 DEF Waits
  <2>4. QED
    BY <2>2, <2>3
<1>2. QED
  BY InvariantHolds, <1>1, PTL

\* The queue loses no promise and turns no messages around, whatever fails, fills and reconnects.
THEOREM QueueIsKept == Spec => []MessagesAreKept
<1>1. PromisesMatchQueue /\ SentInOrder => MessagesAreKept
  BY DEF MessagesAreKept
<1>2. QED
  BY <1>1, EveryPromiseHasItsMessage, MessagesKeepTheirOrder, PTL

-----------------------------------------------------------------------------
(***************************************************************************)
(* The configuration of a storage node. What is inductive: the node is     *)
(* subscribed to what is counted (NodeFollowsCounts), and what is counted  *)
(* is what is wanted, of the streams nothing was added to or removed from  *)
(* once too often (CountsWhatIsWanted).                                    *)
(***************************************************************************)
\* How often the plugins and the configuration want a stream.
Wanted(s) == (IF s \in streamKeys THEN 1 ELSE 0) + (IF s \in others THEN 1 ELSE 0)

\* Before the first answer nothing is stored. After it, a stream is counted at
\* least as often as it is wanted unless it was removed once too often, and
\* exactly as often unless it was also added once too often.
CountsWhatIsWanted ==
    phase # "stopped" =>
        \A s \in Streams : /\ s \notin stray => count[s] >= Wanted(s)
                           /\ s \notin stray \union doubled => count[s] = Wanted(s)
BlankUntilStarted == phase = "starting" => streamKeys = {} /\ doubled = {} /\ stray = {}
\* The node is subscribed to what is counted.
NodeFollowsCounts == \A s \in Streams : s \in node <=> count[s] > 0
ConfigInv == Config!TypeOK /\ CountsWhatIsWanted /\ BlankUntilStarted /\ NodeFollowsCounts

LEMMA CountsAreExact ==
    ASSUME NEW more \in SUBSET Streams, NEW less \in SUBSET Streams, more \cap less = {},
           count \in [Streams -> Nat], NodeFollowsCounts, node \subseteq Streams,
           Config!Counts(more, less)
    PROVE  /\ count' \in [Streams -> Nat] /\ NodeFollowsCounts' /\ node' \subseteq Streams
           /\ \A s \in Streams :
                /\ s \in more => count'[s] = count[s] + 1
                /\ s \in less => count'[s] = IF count[s] <= 1 THEN 0 ELSE count[s] - 1
                /\ s \notin more \union less => count'[s] = count[s]
<1>1. /\ count' = [s \in Streams |-> IF s \in more THEN count[s] + 1
                                     ELSE IF s \in less THEN Config!Less(count[s]) ELSE count[s]]
      /\ node' = (node \cup more) \ {s \in less : count'[s] = 0}
  BY Zenon DEF Config!Counts
<1>2. \A s \in Streams :
        /\ s \in more => count'[s] = count[s] + 1
        /\ s \in less => count'[s] = IF count[s] <= 1 THEN 0 ELSE count[s] - 1
        /\ s \notin more \union less => count'[s] = count[s]
  BY <1>1 DEF Config!Less
<1>3. count' \in [Streams -> Nat]
  BY <1>1 DEF Config!Less
<1>4. NodeFollowsCounts' /\ node' \subseteq Streams
  BY <1>1, <1>2, <1>3 DEF NodeFollowsCounts
<1>5. QED
  BY <1>2, <1>3, <1>4

\* Streams are added and removed, whatever is stored already.
LEMMA AddAndRemoveKeepsCounts ==
    ASSUME ConfigInv, NEW added \in SUBSET Streams, NEW removed \in SUBSET Streams,
           added \cap removed = {}, Config!AddAndRemove(added, removed), phase # "starting",
           phase' = phase, others' = others, answer' \subseteq Streams, assigned' \subseteq Streams,
           poll' \in {"waiting", "asking", "answered", "off"}, events' \subseteq events
    PROVE  ConfigInv'
<1>1. /\ count \in [Streams -> Nat] /\ node \subseteq Streams /\ NodeFollowsCounts
      /\ Config!Counts(added, removed)
  BY DEF ConfigInv, Config!TypeOK, Config!AddAndRemove
<1>2. /\ count' \in [Streams -> Nat] /\ NodeFollowsCounts' /\ node' \subseteq Streams
      /\ \A s \in Streams :
            /\ s \in added => count'[s] = count[s] + 1
            /\ s \in removed => count'[s] = IF count[s] <= 1 THEN 0 ELSE count[s] - 1
            /\ s \notin added \union removed => count'[s] = count[s]
  BY <1>1, CountsAreExact
<1>3. /\ streamKeys' = (streamKeys \cup added) \ removed
      /\ doubled' = doubled \cup (added \cap streamKeys)
      /\ stray' = stray \cup (removed \ streamKeys)
  BY DEF Config!AddAndRemove
<1>4. CountsWhatIsWanted'
  <2> SUFFICES ASSUME phase # "stopped", NEW s \in Streams, s \notin stray'
               PROVE  /\ count'[s] >= Wanted(s)'
                      /\ s \notin doubled' => count'[s] = Wanted(s)'
    BY DEF CountsWhatIsWanted
  <2>1. /\ count[s] >= Wanted(s) /\ count[s] \in Nat
        /\ s \notin doubled => count[s] = Wanted(s)
    BY <1>1, <1>3 DEF ConfigInv, CountsWhatIsWanted
  <2>2. CASE s \in added
    BY <1>2, <1>3, <2>1, <2>2 DEF Wanted
  <2>3. CASE s \in removed
    BY <1>2, <1>3, <2>1, <2>3 DEF Wanted
  <2>4. CASE s \notin added \union removed
    BY <1>2, <1>3, <2>1, <2>4 DEF Wanted
  <2>5. QED
    BY <2>2, <2>3, <2>4
<1>5. Config!TypeOK' /\ BlankUntilStarted'
  BY <1>2, <1>3 DEF ConfigInv, Config!TypeOK, BlankUntilStarted
<1>6. QED
  BY <1>2, <1>4, <1>5 DEF ConfigInv

\* Nothing happens to the counts.
LEMMA CountsUnchanged ==
    ASSUME ConfigInv, UNCHANGED <<streamKeys, count, node, doubled, stray, others>>,
           phase' = phase \/ (phase = "starting" /\ phase' = "running"),
           answer' \subseteq Streams, assigned' \subseteq Streams,
           poll' \in {"waiting", "asking", "answered", "off"},
           \A e \in events' : e.stream \in Streams /\ e.added \in BOOLEAN
    PROVE  ConfigInv'
BY DEF ConfigInv, Config!TypeOK, CountsWhatIsWanted, BlankUntilStarted, NodeFollowsCounts, Wanted

LEMMA StartKeepsCounts == ASSUME ConfigInv, Config!Start PROVE ConfigInv'
<1>1. CASE UNCHANGED Config!countVars
  BY <1>1, CountsUnchanged
     DEF Config!Start, Config!countVars, Config!coreVars, ConfigInv, Config!TypeOK
<1>2. CASE Config!Counts(answer, {}) /\ streamKeys' = answer /\ UNCHANGED <<doubled, stray>>
  <2>1. /\ count \in [Streams -> Nat] /\ node \subseteq Streams /\ NodeFollowsCounts
        /\ answer \in SUBSET Streams /\ {} \in SUBSET Streams /\ answer \cap {} = {}
        /\ Config!Counts(answer, {}) /\ streamKeys = {} /\ stray = {} /\ doubled = {}
        /\ phase' = "running" /\ poll' = "waiting" /\ answer' = {}
        /\ UNCHANGED <<assigned, events, others>> /\ phase = "starting"
    BY <1>2 DEF ConfigInv, Config!TypeOK, BlankUntilStarted, Config!Start, Config!coreVars
  <2>2. /\ count' \in [Streams -> Nat] /\ NodeFollowsCounts' /\ node' \subseteq Streams
        /\ \A s \in Streams : count'[s] = IF s \in answer THEN count[s] + 1 ELSE count[s]
    BY <2>1, CountsAreExact
  <2>3. CountsWhatIsWanted'
    BY <1>2, <2>1, <2>2 DEF ConfigInv, CountsWhatIsWanted, Wanted
  <2>4. QED
    BY <1>2, <2>1, <2>2, <2>3 DEF ConfigInv, Config!TypeOK, BlankUntilStarted
<1>3. QED
  BY <1>1, <1>2, Zenon DEF Config!Start

LEMMA StopKeepsTypes == ASSUME ConfigInv, Config!Stop PROVE ConfigInv'
<1>1. /\ count \in [Streams -> Nat] /\ node \subseteq Streams /\ NodeFollowsCounts
      /\ {} \in SUBSET Streams /\ streamKeys \in SUBSET Streams /\ {} \cap streamKeys = {}
      /\ Config!Counts({}, streamKeys) /\ phase' = "stopped"
      /\ UNCHANGED <<assigned, events, streamKeys, answer, others, doubled, stray>>
  BY DEF ConfigInv, Config!TypeOK, Config!Stop, Config!coreVars
<1>2. count' \in [Streams -> Nat] /\ NodeFollowsCounts' /\ node' \subseteq Streams
  BY <1>1, CountsAreExact
<1>3. QED
  BY <1>1, <1>2 DEF ConfigInv, Config!TypeOK, Config!Stop, CountsWhatIsWanted, BlankUntilStarted

LEMMA OthersKeepCounts ==
    ASSUME ConfigInv, NEW s \in Streams, Config!OthersSubscribe(s) \/ Config!OthersUnsubscribe(s)
    PROVE  ConfigInv'
<1>1. /\ count \in [Streams -> Nat] /\ node \subseteq Streams /\ NodeFollowsCounts
      /\ {} \in SUBSET Streams /\ {s} \in SUBSET Streams /\ {} \cap {s} = {} /\ {s} \cap {} = {}
      /\ UNCHANGED <<assigned, events, streamKeys, phase, poll, answer, doubled, stray>>
  BY DEF ConfigInv, Config!TypeOK, Config!OthersSubscribe, Config!OthersUnsubscribe, Config!coreVars
<1>2. CASE Config!OthersSubscribe(s)
  <2>1. s \notin others /\ others' = others \union {s} /\ Config!Counts({s}, {})
    BY <1>2 DEF Config!OthersSubscribe
  <2>2. /\ count' \in [Streams -> Nat] /\ NodeFollowsCounts' /\ node' \subseteq Streams
        /\ \A t \in Streams : count'[t] = IF t = s THEN count[t] + 1 ELSE count[t]
    BY <1>1, <2>1, CountsAreExact
  <2>3. CountsWhatIsWanted'
    BY <1>1, <2>1, <2>2 DEF ConfigInv, CountsWhatIsWanted, Wanted
  <2>4. QED
    BY <1>1, <2>1, <2>2, <2>3 DEF ConfigInv, Config!TypeOK, BlankUntilStarted
<1>3. CASE Config!OthersUnsubscribe(s)
  <2>1. s \in others /\ others' = others \ {s} /\ Config!Counts({}, {s})
    BY <1>3 DEF Config!OthersUnsubscribe
  <2>2. /\ count' \in [Streams -> Nat] /\ NodeFollowsCounts' /\ node' \subseteq Streams
        /\ count'[s] = IF count[s] <= 1 THEN 0 ELSE count[s] - 1
        /\ \A t \in Streams : t # s => count'[t] = count[t]
    BY <1>1, <2>1, CountsAreExact
  <2>3. CountsWhatIsWanted'
    BY <1>1, <2>1, <2>2 DEF ConfigInv, CountsWhatIsWanted, Wanted
  <2>4. QED
    BY <1>1, <2>1, <2>2, <2>3 DEF ConfigInv, Config!TypeOK, BlankUntilStarted
<1>4. QED
  BY <1>2, <1>3

LEMMA ConfigStep ==
    ASSUME ConfigInv, Config!Next \/ UNCHANGED configVars
    PROVE  ConfigInv'
<1>0. /\ \A e \in events : e.stream \in Streams /\ e.added \in BOOLEAN
      /\ streamKeys \subseteq Streams /\ answer \subseteq Streams /\ assigned \subseteq Streams
      /\ poll \in {"waiting", "asking", "answered", "off"}
  BY DEF ConfigInv, Config!TypeOK
<1>1. ASSUME NEW s \in Streams, Config!Assignment(s)
      PROVE  ConfigInv'
  <2>1. /\ UNCHANGED <<streamKeys, count, node, doubled, stray, others, phase, poll, answer>>
        /\ assigned' \subseteq Streams /\ (s \notin assigned) \in BOOLEAN
        /\ events' = events \cup {[number |-> changes, stream |-> s, added |-> s \notin assigned]}
    BY <1>0, <1>1 DEF Config!Assignment, Config!countVars
  <2>2. \A e \in events' : e.stream \in Streams /\ e.added \in BOOLEAN
    <3> DEFINE new == [number |-> changes, stream |-> s, added |-> s \notin assigned]
    <3>1. new.stream \in Streams
      OBVIOUS
    <3>2. new.added \in BOOLEAN
      <4>1. new.added = (s \notin assigned)
        BY Zenon
      <4> HIDE DEF new
      <4>2. QED
        BY <2>1, <4>1
    <3> HIDE DEF new
    <3>3. QED
      BY <1>0, <2>1, <3>1, <3>2 DEF new
  <2>3. QED
    BY <1>0, <2>1, <2>2, CountsUnchanged
<1>2. ASSUME NEW e \in events, Config!EventComes(e)
      PROVE  ConfigInv'
  <2>1. events' \subseteq events /\ UNCHANGED <<assigned, phase, poll, answer, others>>
    BY <1>2 DEF Config!EventComes
  <2>2. {e.stream} \in SUBSET Streams /\ {} \in SUBSET Streams
    BY <1>0
  <2>3. CASE phase = "running" /\ Config!AddAndRemove({e.stream}, {})
    BY <1>0, <2>1, <2>2, <2>3, AddAndRemoveKeepsCounts
  <2>4. CASE phase = "running" /\ Config!AddAndRemove({}, {e.stream})
    BY <1>0, <2>1, <2>2, <2>4, AddAndRemoveKeepsCounts
  <2>5. CASE UNCHANGED Config!countVars
    BY <1>0, <2>1, <2>5, CountsUnchanged DEF Config!countVars
  <2>6. QED
    BY <1>2, <2>3, <2>4, <2>5 DEF Config!EventComes
<1>3. CASE Config!Refreshed
  <2>1. /\ phase # "starting" /\ Config!AddAndRemove(answer \ streamKeys, streamKeys \ answer)
        /\ answer' = {} /\ poll' \in {"waiting", "off"} /\ UNCHANGED <<assigned, events, phase, others>>
    BY <1>3 DEF Config!Refreshed, Config!Added, Config!Removed, Config!PollsAgain, Config!coreVars
  <2>2. /\ answer \ streamKeys \in SUBSET Streams /\ streamKeys \ answer \in SUBSET Streams
        /\ (answer \ streamKeys) \cap (streamKeys \ answer) = {}
    BY <1>0
  <2>3. QED
    BY <1>0, <2>1, <2>2, AddAndRemoveKeepsCounts
<1>4. CASE Config!CoreAnswers \/ Config!RefreshFails \/ Config!Poll
  <2>1. /\ UNCHANGED <<streamKeys, count, node, doubled, stray, others, phase, assigned, events>>
        /\ poll' \in {"waiting", "asking", "answered", "off"} /\ answer' \subseteq Streams
    BY <1>0, <1>4
       DEF Config!CoreAnswers, Config!RefreshFails, Config!Poll, Config!PollsAgain, Config!countVars,
           Config!coreVars
  <2>2. QED
    BY <1>0, <2>1, CountsUnchanged
<1>5. CASE UNCHANGED configVars
  BY <1>0, <1>5, CountsUnchanged DEF configVars
<1>6. QED
  BY <1>1, <1>2, <1>3, <1>4, <1>5, StartKeepsCounts, StopKeepsTypes, OthersKeepCounts
     DEF Config!Next

LEMMA ConfigBegins ==
    ASSUME Config!Init
    PROVE  ConfigInv
BY DEF Config!Init, Config!Blank, ConfigInv, Config!TypeOK, CountsWhatIsWanted, BlankUntilStarted,
       NodeFollowsCounts, Wanted

\* Whatever answers, events and other plugins cross, for any streams and
\* changes: a running storage node is subscribed to what it stores and what
\* others want and counts it, except where an event added or removed once too
\* often (StorageConfig, StoragePlugin, SubscriptionManager).
THEOREM NodesFollowTheirConfig == Config!Spec => []NodeFollowsConfig
<1>1. Config!Spec => []ConfigInv
  <2>1. Config!Init => ConfigInv
    BY ConfigBegins
  <2>2. ConfigInv /\ [Config!Next]_(Config!configVars) => ConfigInv'
    BY ConfigStep DEF configVars, Config!configVars, Config!coreVars, Config!countVars
  <2>3. QED
    BY <2>1, <2>2, PTL DEF Config!Spec
<1>2. ConfigInv => NodeFollowsConfig
  <2> SUFFICES ASSUME ConfigInv
               PROVE  NodeFollowsConfig
    OBVIOUS
  <2>1. Config!TypeOK /\ Config!NodeFollowsConfig
    BY DEF ConfigInv, Config!TypeOK, CountsWhatIsWanted, NodeFollowsCounts, Wanted,
           Config!NodeFollowsConfig
  <2>2. QED
    BY <2>1 DEF NodeFollowsConfig
<1>3. QED
  BY <1>1, <1>2, PTL

-----------------------------------------------------------------------------
(***************************************************************************)
(* The older adapters. What is inductive of their books: who listens is    *)
(* among the connections of a stream the adapter has (ListenersHaveStreams)*)
(* and, where no MQTT client has unsubscribed, knows it at least as often, *)
(* every stream has a listener, and its adapters are counted (Served).     *)
(***************************************************************************)
BooksType ==
    [streams : [Legacy!Adapters -> SUBSET Topics], listens : [Legacy!Clients -> [Topics -> Nat]],
     of : [Legacy!Clients -> [Topics -> Nat]], count : [Topics -> Nat], node : SUBSET Topics]
ListenersHaveStreams(b) ==
    \A c \in Legacy!Clients, s \in Topics :
        b.listens[c][s] > 0 => s \in b.streams[Legacy!AdapterOf(c)]
Has(b, a, s) == IF s \in b.streams[a] THEN 1 ELSE 0
Served(b, s) ==
    /\ \A c \in Legacy!Clients : b.listens[c][s] <= b.of[c][s]
    /\ \A a \in Legacy!Adapters : s \in b.streams[a] =>
          \E c \in Legacy!Clients : Legacy!AdapterOf(c) = a /\ b.listens[c][s] > 0
    /\ b.count[s] = Has(b, "websocket", s) + Has(b, "mqtt", s)
    /\ s \in b.node <=> b.count[s] > 0
BooksFit(b, except) ==
    /\ b \in BooksType /\ ListenersHaveStreams(b)
    /\ \A s \in Topics \ except : Served(b, s)

\* Connections are taken from the streams of one adapter: what is left fits, if an adapter's
\* connections are taken from that adapter's streams.
LEMMA RemovedFits ==
    ASSUME NEW b, NEW except, BooksFit(b, except), NEW a \in Legacy!Adapters,
           NEW times \in [Legacy!Clients -> [Topics -> Nat]],
           \A c \in Legacy!Clients, s \in Topics : times[c][s] > 0 => Legacy!AdapterOf(c) = a
    PROVE  /\ BooksFit(Legacy!Removed(b, a, times), except)
           /\ \A c \in Legacy!Clients, s \in Topics :
                 Legacy!Removed(b, a, times).listens[c][s] = Legacy!Less(b.listens[c][s], times[c][s])
<1> DEFINE listens == [c \in Legacy!Clients |-> [s \in Topics |-> Legacy!Less(b.listens[c][s], times[c][s])]]
           touched == {s \in b.streams[a] : \E c \in Legacy!Clients : times[c][s] > 0}
           emptied == {s \in touched : \A c \in Legacy!Clients :
                                          Legacy!AdapterOf(c) = a => listens[c][s] = 0}
           d == Legacy!Removed(b, a, times)
<1>1. /\ b \in BooksType /\ ListenersHaveStreams(b)
      /\ \A s \in Topics \ except : Served(b, s)
  BY DEF BooksFit
<1>2. /\ DOMAIN b = {"streams", "listens", "of", "count", "node"}
      /\ b.streams \in [Legacy!Adapters -> SUBSET Topics] /\ b.count \in [Topics -> Nat]
      /\ b.listens \in [Legacy!Clients -> [Topics -> Nat]] /\ b.of \in [Legacy!Clients -> [Topics -> Nat]]
      /\ b.node \subseteq Topics
  BY <1>1 DEF BooksType
<1>3. \A m, n \in Nat : /\ Legacy!Less(m, n) \in Nat /\ Legacy!Less(m, n) <= m
                        /\ n = 0 => Legacy!Less(m, n) = m
                        /\ Legacy!Less(m, n) = IF m <= n THEN 0 ELSE m - n
  BY DEF Legacy!Less
<1>31. \A k, m, n \in Nat : m <= k => Legacy!Less(m, n) <= Legacy!Less(k, n)
  BY DEF Legacy!Less
<1> DEFINE counts == [s \in Topics |-> IF s \in emptied THEN Legacy!Less(b.count[s], 1) ELSE b.count[s]]
           leaves == {s \in emptied : b.count[s] <= 1}
           of == [c \in Legacy!Clients |-> [s \in Topics |-> Legacy!Less(b.of[c][s], times[c][s])]]
           e == Legacy!CountsDown(b, emptied)
<1>4. /\ listens \in [Legacy!Clients -> [Topics -> Nat]] /\ of \in [Legacy!Clients -> [Topics -> Nat]]
      /\ counts \in [Topics -> Nat] /\ b.node \ leaves \in SUBSET Topics
  <2>1. \A c \in Legacy!Clients, s \in Topics :
          b.listens[c][s] \in Nat /\ b.of[c][s] \in Nat /\ times[c][s] \in Nat /\ b.count[s] \in Nat
    BY <1>2
  <2>2. \A s \in Topics : Legacy!Less(b.count[s], 1) \in Nat /\ b.count[s] \in Nat
    BY <1>2, <1>3
  <2>3. listens \in [Legacy!Clients -> [Topics -> Nat]]
    BY <1>3, <2>1
  <2>4. of \in [Legacy!Clients -> [Topics -> Nat]]
    BY <1>3, <2>1
  <2> HIDE DEF listens, emptied
  <2>5. counts \in [Topics -> Nat]
    BY <2>2
  <2> HIDE DEF leaves, of, counts
  <2>6. QED
    BY <1>2, <2>3, <2>4, <2>5
<1>5. e = [b EXCEPT !.count = counts, !.node = b.node \ leaves]
  BY <1>1 DEF Legacy!CountsDown, BooksType
<1>6. emptied \subseteq b.streams[a] /\ emptied \subseteq Topics
  BY <1>2
<1>7. d = [e EXCEPT !.streams[a] = @ \ emptied, !.listens = listens,
                    !.of = [c \in Legacy!Clients |-> [s \in Topics |-> Legacy!Less(@[c][s], times[c][s])]]]
  BY DEF Legacy!Removed
<1>8. \A s \in emptied, c \in Legacy!Clients : Legacy!AdapterOf(c) = a => listens[c][s] = 0
  OBVIOUS
<1>9. \A s \in b.streams[a] : s \notin emptied =>
          \/ \A c \in Legacy!Clients : ~ (times[c][s] > 0)
          \/ \E c \in Legacy!Clients : Legacy!AdapterOf(c) = a /\ listens[c][s] # 0
  OBVIOUS
<1>10. \A s \in Topics : /\ counts[s] = IF s \in emptied THEN Legacy!Less(b.count[s], 1) ELSE b.count[s]
                         /\ s \in leaves <=> s \in emptied /\ b.count[s] <= 1
  BY <1>6
<1>11. \A c \in Legacy!Clients, s \in Topics :
        /\ listens[c][s] = Legacy!Less(b.listens[c][s], times[c][s])
        /\ of[c][s] = Legacy!Less(b.of[c][s], times[c][s])
  OBVIOUS
<1>12. /\ d \in BooksType /\ d.listens = listens /\ d.of = of /\ d.count = counts
       /\ d.streams = [b.streams EXCEPT ![a] = @ \ emptied] /\ d.node = b.node \ leaves
  <2> HIDE DEF listens, touched, emptied, counts, leaves, d
  <2>1. e \in BooksType /\ e.streams = b.streams /\ e.of = b.of /\ e.count = counts /\ e.node = b.node \ leaves
    <3> HIDE DEF e
    <3>1. QED
      BY <1>1, <1>4, <1>5 DEF BooksType
  <2> HIDE DEF e
  <2>2. d = [e EXCEPT !.streams[a] = @ \ emptied, !.listens = listens, !.of = of]
    BY <1>7, <2>1
  <2> HIDE DEF of
  <2>3. QED
    BY <1>2, <1>4, <1>6, <2>1, <2>2 DEF BooksType
<1> HIDE DEF listens, touched, emptied, counts, leaves, of, e, d
<1>13. ListenersHaveStreams(d)
  <2> SUFFICES ASSUME NEW c \in Legacy!Clients, NEW s \in Topics, d.listens[c][s] > 0
               PROVE  s \in d.streams[Legacy!AdapterOf(c)]
    BY DEF ListenersHaveStreams
  <2>0. d.listens[c][s] > 0
    OBVIOUS
  <2>1. b.listens[c][s] > 0 /\ s \in b.streams[Legacy!AdapterOf(c)]
    <3>1. b.listens[c][s] \in Nat /\ times[c][s] \in Nat
      BY <1>2
    <3>2. d.listens[c][s] = Legacy!Less(b.listens[c][s], times[c][s])
      BY <1>11, <1>12
    <3>3. b.listens[c][s] > 0
      BY <1>3, <2>0, <3>1, <3>2
    <3>4. QED
      BY <1>1, <3>3 DEF ListenersHaveStreams
  <2>2. s \in emptied => Legacy!AdapterOf(c) # a
    BY <1>8, <1>12
  <2>3. QED
    BY <1>2, <1>12, <2>1, <2>2
<1>14. ASSUME NEW s \in Topics \ except
       PROVE  Served(d, s)
  <2>1. Served(b, s)
    BY <1>1
  <2>2. \A c \in Legacy!Clients : d.listens[c][s] <= d.of[c][s]
    <3> SUFFICES ASSUME NEW c \in Legacy!Clients PROVE d.listens[c][s] <= d.of[c][s]
      OBVIOUS
    <3>1. /\ b.listens[c][s] \in Nat /\ times[c][s] \in Nat /\ b.of[c][s] \in Nat
          /\ b.listens[c][s] <= b.of[c][s]
      BY <1>2, <2>1 DEF Served
    <3>2. QED
      BY <1>31, <1>11, <1>12, <3>1
  <2>3. ASSUME NEW x \in Legacy!Adapters, s \in d.streams[x]
        PROVE  \E c \in Legacy!Clients : Legacy!AdapterOf(c) = x /\ d.listens[c][s] > 0
    <3>1. s \in b.streams[x] /\ (x = a => s \notin emptied)
      BY <1>2, <1>12, <2>3
    <3>2. PICK c \in Legacy!Clients : Legacy!AdapterOf(c) = x /\ b.listens[c][s] > 0
      BY <2>1, <3>1 DEF Served
    <3>3. \A f \in Legacy!Clients : d.listens[f][s] \in Nat /\ times[f][s] \in Nat /\ b.listens[f][s] \in Nat
      BY <1>2, <1>12 DEF BooksType
    <3>4. CASE x = a /\ \E f \in Legacy!Clients : Legacy!AdapterOf(f) = a /\ d.listens[f][s] # 0
      BY <3>3, <3>4
    <3>5. CASE times[c][s] = 0
      BY <1>3, <1>11, <1>12, <3>2, <3>3, <3>5
    <3>6. QED
      BY <1>9, <1>12, <3>1, <3>2, <3>3, <3>4, <3>5
  <2>4. /\ d.count[s] = Has(d, "websocket", s) + Has(d, "mqtt", s)
        /\ s \in d.node <=> d.count[s] > 0
    <3>1. /\ b.count[s] = Has(b, "websocket", s) + Has(b, "mqtt", s)
          /\ s \in b.node <=> b.count[s] > 0 /\ b.count[s] \in Nat
      BY <1>2, <2>1 DEF Served
    <3>2. /\ d.count[s] = IF s \in emptied THEN Legacy!Less(b.count[s], 1) ELSE b.count[s]
          /\ s \in d.node <=> s \in b.node /\ ~ (s \in emptied /\ b.count[s] <= 1)
      BY <1>10, <1>12
    <3>3. \A x \in Legacy!Adapters :
            s \in d.streams[x] <=> s \in b.streams[x] /\ ~ (x = a /\ s \in emptied)
      BY <1>2, <1>12
    <3>4. s \in emptied => s \in b.streams[a]
      BY <1>6
    <3>5. a \in {"websocket", "mqtt"} /\ Legacy!Adapters = {"websocket", "mqtt"}
      BY DEF Legacy!Adapters
    <3>6. CASE a = "websocket"
      BY <3>1, <3>2, <3>3, <3>4, <3>5, <3>6 DEF Has, Legacy!Less
    <3>7. CASE a = "mqtt"
      BY <3>1, <3>2, <3>3, <3>4, <3>5, <3>7 DEF Has, Legacy!Less
    <3>8. QED
      BY <3>5, <3>6, <3>7
  <2>5. QED
    BY <2>2, <2>3, <2>4 DEF Served
<1>15. QED
  BY <1>11, <1>12, <1>13, <1>14 DEF BooksFit, d

\* Somebody joins a stream: it knows of it, and the adapter has the stream.
LEMMA CreatedFields ==
    ASSUME NEW b \in BooksType, NEW a \in Legacy!Adapters, NEW s \in Topics, s \notin b.streams[a]
    PROVE  LET g == Legacy!Created(b, a, s)
           IN  /\ g \in BooksType /\ g.listens = b.listens /\ g.of = b.of
               /\ g.streams = [b.streams EXCEPT ![a] = @ \cup {s}]
               /\ g.count = [b.count EXCEPT ![s] = @ + 1] /\ g.node = b.node \cup {s}
<1> DEFINE g == Legacy!Created(b, a, s)
           x == [b EXCEPT !.streams[a] = @ \cup {s}]
<1>1. g = [x EXCEPT !.count[s] = @ + 1, !.node = @ \cup {s}]
  BY DEF Legacy!Created, Legacy!CountsUp
<1>2. /\ b.streams \in [Legacy!Adapters -> SUBSET Topics] /\ b.count \in [Topics -> Nat]
      /\ b.node \in SUBSET Topics
  BY DEF BooksType
<1>3. [b.streams EXCEPT ![a] = @ \cup {s}] \in [Legacy!Adapters -> SUBSET Topics]
  BY <1>2
<1>4. /\ x \in BooksType /\ x.streams = [b.streams EXCEPT ![a] = @ \cup {s}] /\ x.listens = b.listens
      /\ x.of = b.of /\ x.count = b.count /\ x.node = b.node
  BY <1>3 DEF BooksType
<1> HIDE DEF x
<1>5. [b.count EXCEPT ![s] = @ + 1] \in [Topics -> Nat] /\ b.node \cup {s} \in SUBSET Topics
  BY <1>2
<1> HIDE DEF g
<1>6. /\ g \in BooksType /\ g.streams = x.streams /\ g.listens = x.listens /\ g.of = x.of
      /\ g.count = [b.count EXCEPT ![s] = @ + 1] /\ g.node = b.node \cup {s}
  BY <1>1, <1>4, <1>5 DEF BooksType
<1>7. QED
  BY <1>4, <1>6 DEF g

LEMMA JoinedFits ==
    ASSUME NEW b, NEW except, BooksFit(b, except), NEW c \in Legacy!Clients, NEW s \in Topics
    PROVE  /\ BooksFit(Legacy!Joined(b, c, s), except)
           /\ \A e \in Legacy!Clients, t \in Topics :
                 Legacy!Joined(b, c, s).listens[e][t] =
                    IF e = c /\ t = s THEN b.listens[e][t] + 1 ELSE b.listens[e][t]
<1> DEFINE a == Legacy!AdapterOf(c)
           g == Legacy!Created(b, a, s)
           d == Legacy!Joined(b, c, s)
           lists(f) == [f EXCEPT ![c] = [f[c] EXCEPT ![s] = f[c][s] + 1]]
<1>1. /\ b \in BooksType /\ ListenersHaveStreams(b)
      /\ \A t \in Topics \ except : Served(b, t)
  BY DEF BooksFit
<1>2. /\ b.streams \in [Legacy!Adapters -> SUBSET Topics] /\ b.count \in [Topics -> Nat]
      /\ b.listens \in [Legacy!Clients -> [Topics -> Nat]] /\ b.of \in [Legacy!Clients -> [Topics -> Nat]]
      /\ b.node \subseteq Topics
  BY <1>1 DEF BooksType
<1>3. a \in Legacy!Adapters
  BY DEF Legacy!AdapterOf, Legacy!Adapters
<1>4. g = IF s \in b.streams[a] THEN b ELSE g
  BY DEF Legacy!Created
<1>5. d = [g EXCEPT !.listens[c][s] = @ + 1, !.of[c][s] = @ + 1]
  BY DEF Legacy!Joined
<1>6. /\ g \in BooksType /\ g.listens = b.listens /\ g.of = b.of
      /\ IF s \in b.streams[a] THEN g = b
         ELSE /\ g.streams = [b.streams EXCEPT ![a] = @ \cup {s}]
              /\ g.count = [b.count EXCEPT ![s] = @ + 1] /\ g.node = b.node \cup {s}
  BY <1>1, <1>3, <1>4, CreatedFields
<1> HIDE DEF g, a, d
<1>7. /\ lists(b.listens) \in [Legacy!Clients -> [Topics -> Nat]]
      /\ lists(b.of) \in [Legacy!Clients -> [Topics -> Nat]]
      /\ \A f \in [Legacy!Clients -> [Topics -> Nat]], e \in Legacy!Clients, t \in Topics :
            lists(f)[e][t] = IF e = c /\ t = s THEN f[e][t] + 1 ELSE f[e][t]
  BY <1>2
<1>8. d = [g EXCEPT !.listens = lists(b.listens), !.of = lists(b.of)]
  BY <1>5, <1>6
<1> HIDE DEF lists
<1>9. /\ d \in BooksType /\ d.listens = lists(b.listens) /\ d.of = lists(b.of)
      /\ d.streams = g.streams /\ d.count = g.count /\ d.node = g.node
  BY <1>6, <1>7, <1>8 DEF BooksType
<1>10. \A e \in Legacy!Clients, t \in Topics :
         /\ d.listens[e][t] = IF e = c /\ t = s THEN b.listens[e][t] + 1 ELSE b.listens[e][t]
         /\ d.of[e][t] = IF e = c /\ t = s THEN b.of[e][t] + 1 ELSE b.of[e][t]
         /\ b.listens[e][t] \in Nat /\ b.of[e][t] \in Nat /\ b.count[t] \in Nat
  <2>1. \A e \in Legacy!Clients, t \in Topics :
           d.listens[e][t] = IF e = c /\ t = s THEN b.listens[e][t] + 1 ELSE b.listens[e][t]
    <3>1. b.listens \in [Legacy!Clients -> [Topics -> Nat]]
      BY <1>2
    <3>2. \A e \in Legacy!Clients, t \in Topics :
             lists(b.listens)[e][t] = IF e = c /\ t = s THEN b.listens[e][t] + 1 ELSE b.listens[e][t]
      BY <1>7, <3>1
    <3>3. QED
      BY <1>9, <3>2
  <2>2. \A e \in Legacy!Clients, t \in Topics :
           d.of[e][t] = IF e = c /\ t = s THEN b.of[e][t] + 1 ELSE b.of[e][t]
    <3>1. b.of \in [Legacy!Clients -> [Topics -> Nat]]
      BY <1>2
    <3>2. \A e \in Legacy!Clients, t \in Topics :
             lists(b.of)[e][t] = IF e = c /\ t = s THEN b.of[e][t] + 1 ELSE b.of[e][t]
      BY <1>7, <3>1
    <3>3. QED
      BY <1>9, <3>2
  <2>3. \A e \in Legacy!Clients, t \in Topics :
           b.listens[e][t] \in Nat /\ b.of[e][t] \in Nat /\ b.count[t] \in Nat
    BY <1>2
  <2>4. QED
    BY <2>1, <2>2, <2>3
<1>11. \A x \in Legacy!Adapters, t \in Topics :
         t \in d.streams[x] <=> t \in b.streams[x] \/ (x = a /\ t = s)
  BY <1>2, <1>3, <1>6, <1>9
<1>12. ListenersHaveStreams(d)
  <2> SUFFICES ASSUME NEW e \in Legacy!Clients, NEW t \in Topics, d.listens[e][t] > 0
               PROVE  t \in d.streams[Legacy!AdapterOf(e)]
    BY DEF ListenersHaveStreams
  <2>1. Legacy!AdapterOf(e) \in Legacy!Adapters
    BY DEF Legacy!AdapterOf, Legacy!Adapters
  <2>2. CASE e = c /\ t = s
    BY <1>11, <2>1, <2>2 DEF a
  <2>3. CASE ~ (e = c /\ t = s)
    <3>1. t \in b.streams[Legacy!AdapterOf(e)]
      BY <1>1, <1>10, <2>3 DEF ListenersHaveStreams
    <3>2. QED
      BY <1>11, <2>1, <3>1
  <2>4. QED
    BY <2>2, <2>3
<1>13. ASSUME NEW t \in Topics \ except
       PROVE  Served(d, t)
  <2>1. Served(b, t)
    BY <1>1
  <2>2. \A e \in Legacy!Clients : d.listens[e][t] <= d.of[e][t]
    BY <1>10, <2>1 DEF Served
  <2>3. ASSUME NEW x \in Legacy!Adapters, t \in d.streams[x]
        PROVE  \E e \in Legacy!Clients : Legacy!AdapterOf(e) = x /\ d.listens[e][t] > 0
    <3>1. CASE t \in b.streams[x]
      <4>1. PICK e \in Legacy!Clients : Legacy!AdapterOf(e) = x /\ b.listens[e][t] > 0
        BY <2>1, <3>1 DEF Served
      <4>2. d.listens[e][t] > 0
        BY <1>10, <4>1
      <4>3. QED
        BY <4>1, <4>2
    <3>2. CASE x = a /\ t = s
      <4>1. d.listens[c][t] > 0
        BY <1>10, <3>2
      <4>2. QED
        BY <3>2, <4>1 DEF a
    <3>3. QED
      BY <1>11, <2>3, <3>1, <3>2
  <2>4. /\ d.count[t] = Has(d, "websocket", t) + Has(d, "mqtt", t)
        /\ t \in d.node <=> d.count[t] > 0
    <3>1. /\ b.count[t] = Has(b, "websocket", t) + Has(b, "mqtt", t)
          /\ t \in b.node <=> b.count[t] > 0
      BY <2>1 DEF Served
    <3>2. CASE s \in b.streams[a] \/ t # s
      <4>1. d.count[t] = b.count[t] /\ (t \in d.node <=> t \in b.node)
        BY <1>2, <1>6, <1>9, <3>2
      <4>2. \A x \in Legacy!Adapters : t \in d.streams[x] <=> t \in b.streams[x]
        BY <1>11, <3>2
      <4>3. "websocket" \in Legacy!Adapters /\ "mqtt" \in Legacy!Adapters
        BY DEF Legacy!Adapters
      <4>4. QED
        BY <3>1, <4>1, <4>2, <4>3 DEF Has
    <3>3. CASE s \notin b.streams[a] /\ t = s
      <4>1. d.count[t] = b.count[t] + 1 /\ t \in d.node /\ b.count[t] \in Nat
        BY <1>2, <1>6, <1>9, <3>3
      <4>2. a \in {"websocket", "mqtt"} /\ Legacy!Adapters = {"websocket", "mqtt"}
        BY <1>3 DEF Legacy!Adapters
      <4>3. CASE a = "websocket"
        BY <1>11, <3>1, <3>3, <4>1, <4>2, <4>3 DEF Has
      <4>4. CASE a = "mqtt"
        BY <1>11, <3>1, <3>3, <4>1, <4>2, <4>4 DEF Has
      <4>5. QED
        BY <4>2, <4>3, <4>4
    <3>4. QED
      BY <3>2, <3>3
  <2>5. QED
    BY <2>2, <2>3, <2>4 DEF Served
<1>14. QED
  BY <1>9, <1>10, <1>12, <1>13 DEF BooksFit, d

\* An MQTT client leaves a stream: only what is kept of this stream no longer fits.
LEMMA MqttLeftFits ==
    ASSUME NEW b, NEW except, BooksFit(b, except), NEW c \in Legacy!Clients, NEW s \in Topics,
           s \in b.streams["mqtt"]
    PROVE  /\ BooksFit(Legacy!MqttLeft(b, c, s), except \cup {s})
           /\ Legacy!MqttLeft(b, c, s).listens = b.listens
<1> DEFINE counts == [t \in Topics |-> IF t \in {s} THEN Legacy!Less(b.count[t], 1) ELSE b.count[t]]
           leaves == {t \in {s} : b.count[t] <= 1}
           e == Legacy!CountsDown(b, {s})
           of == [b.of EXCEPT ![c] = [b.of[c] EXCEPT ![s] = Legacy!Less(b.of[c][s], 1)]]
           d == Legacy!MqttLeft(b, c, s)
<1>1. /\ b \in BooksType /\ ListenersHaveStreams(b)
      /\ \A t \in Topics \ except : Served(b, t)
  BY DEF BooksFit
<1>2. /\ b.streams \in [Legacy!Adapters -> SUBSET Topics] /\ b.count \in [Topics -> Nat]
      /\ b.listens \in [Legacy!Clients -> [Topics -> Nat]] /\ b.of \in [Legacy!Clients -> [Topics -> Nat]]
      /\ b.node \subseteq Topics
  BY <1>1 DEF BooksType
<1>3. \A m, n \in Nat : Legacy!Less(m, n) \in Nat
  BY DEF Legacy!Less
<1>4. /\ counts \in [Topics -> Nat] /\ b.node \ leaves \in SUBSET Topics
      /\ of \in [Legacy!Clients -> [Topics -> Nat]]
  <2>1. \A t \in Topics : Legacy!Less(b.count[t], 1) \in Nat /\ b.count[t] \in Nat
    BY <1>2, <1>3
  <2>2. counts \in [Topics -> Nat] /\ b.node \ leaves \in SUBSET Topics
    BY <1>2, <2>1
  <2>3. Legacy!Less(b.of[c][s], 1) \in Nat
    BY <1>2, <1>3
  <2>4. QED
    BY <1>2, <2>2, <2>3
<1>5. e = [b EXCEPT !.count = counts, !.node = b.node \ leaves]
  BY <1>1 DEF Legacy!CountsDown, BooksType
<1>6. d = [e EXCEPT !.of[c][s] = Legacy!Less(@, 1)]
  BY DEF Legacy!MqttLeft
<1>7. \A t \in Topics : t # s => counts[t] = b.count[t] /\ (t \in b.node \ leaves <=> t \in b.node)
  OBVIOUS
<1>8. \A f \in Legacy!Clients, t \in Topics : t # s => of[f][t] = b.of[f][t]
  BY <1>2
<1>9. /\ d \in BooksType /\ d.listens = b.listens /\ d.streams = b.streams
      /\ d.of = of /\ d.count = counts /\ d.node = b.node \ leaves
  <2> HIDE DEF counts, leaves, e, d
  <2>1. /\ e \in BooksType /\ e.streams = b.streams /\ e.listens = b.listens /\ e.of = b.of
        /\ e.count = counts /\ e.node = b.node \ leaves
    BY <1>1, <1>4, <1>5 DEF BooksType
  <2>2. d = [e EXCEPT !.of = of]
    BY <1>6, <2>1
  <2> HIDE DEF of
  <2>3. QED
    BY <1>4, <2>1, <2>2 DEF BooksType
<1> HIDE DEF counts, leaves, e, of, d
<1>10. ListenersHaveStreams(d)
  BY <1>1, <1>9 DEF ListenersHaveStreams
<1>11. \A t \in Topics \ (except \cup {s}) : Served(d, t)
  BY <1>1, <1>7, <1>8, <1>9 DEF Served, Has
<1>12. QED
  BY <1>9, <1>10, <1>11 DEF BooksFit, d

\* Connections end: where no MQTT client has unsubscribed they are among nobody's.
LEMMA ClosedFits ==
    ASSUME NEW b, NEW except, BooksFit(b, except), NEW a \in Legacy!Adapters, NEW gone,
           \A c \in gone : Legacy!AdapterOf(c) = a
    PROVE  /\ BooksFit(Legacy!Closed(b, a, gone), except)
           /\ \A c \in Legacy!Clients, s \in Topics :
                 /\ c \notin gone => Legacy!Closed(b, a, gone).listens[c][s] = b.listens[c][s]
                 /\ c \in gone /\ s \notin except => Legacy!Closed(b, a, gone).listens[c][s] = 0
<1> DEFINE times == [c \in Legacy!Clients |-> [s \in Topics |-> IF c \in gone THEN b.of[c][s] ELSE 0]]
           d == Legacy!Removed(b, a, times)
<1>1. /\ b.listens \in [Legacy!Clients -> [Topics -> Nat]] /\ b.of \in [Legacy!Clients -> [Topics -> Nat]]
      /\ \A s \in Topics \ except : Served(b, s)
  BY DEF BooksFit, BooksType
<1>2. /\ times \in [Legacy!Clients -> [Topics -> Nat]]
      /\ \A c \in Legacy!Clients, s \in Topics : times[c][s] = IF c \in gone THEN b.of[c][s] ELSE 0
  BY <1>1
<1>3. Legacy!Closed(b, a, gone) = d
  BY DEF Legacy!Closed
<1> HIDE DEF times
<1>4. \A c \in Legacy!Clients, s \in Topics : times[c][s] > 0 => Legacy!AdapterOf(c) = a
  BY <1>2
<1>5. /\ BooksFit(d, except)
      /\ \A c \in Legacy!Clients, s \in Topics : d.listens[c][s] = Legacy!Less(b.listens[c][s], times[c][s])
  BY <1>2, <1>4, RemovedFits
<1> HIDE DEF d
<1>6. ASSUME NEW c \in Legacy!Clients, NEW s \in Topics
      PROVE  /\ c \notin gone => d.listens[c][s] = b.listens[c][s]
             /\ c \in gone /\ s \notin except => d.listens[c][s] = 0
  <2>1. b.listens[c][s] \in Nat /\ b.of[c][s] \in Nat
    BY <1>1
  <2>2. s \notin except => b.listens[c][s] <= b.of[c][s]
    BY <1>1 DEF Served
  <2>3. QED
    BY <1>2, <1>5, <2>1, <2>2 DEF Legacy!Less
<1>7. QED
  BY <1>3, <1>5, <1>6

\* A websocket client leaves a stream once.
LEMMA WsLeftFits ==
    ASSUME NEW b, NEW except, BooksFit(b, except), NEW c \in WsClients, NEW s \in Topics
    PROVE  /\ BooksFit(Legacy!WsLeft(b, c, s), except)
           /\ \A e \in Legacy!Clients, t \in Topics :
                 Legacy!WsLeft(b, c, s).listens[e][t] > 0 => b.listens[e][t] > 0
<1> DEFINE times == Legacy!Once(c, s)
           d == Legacy!Removed(b, "websocket", times)
<1>1. CASE s \notin b.streams["websocket"]
  BY <1>1 DEF Legacy!WsLeft
<1>2. CASE s \in b.streams["websocket"]
  <2>1. c \in Legacy!Clients /\ "websocket" \in Legacy!Adapters /\ Legacy!AdapterOf(c) = "websocket"
    BY DEF Legacy!Clients, Legacy!Adapters, Legacy!AdapterOf
  <2>2. times = [Legacy!Nowhere EXCEPT ![c] = [Legacy!Nowhere[c] EXCEPT ![s] = 1]]
    BY DEF Legacy!Once
  <2>3. Legacy!Nowhere = [e \in Legacy!Clients |-> [t \in Topics |-> 0]]
    BY DEF Legacy!Nowhere
  <2>4. /\ times \in [Legacy!Clients -> [Topics -> Nat]]
        /\ \A e \in Legacy!Clients, t \in Topics : times[e][t] = IF e = c /\ t = s THEN 1 ELSE 0
    <3> HIDE DEF times
    <3>1. QED
      BY <2>1, <2>2, <2>3
  <2>5. Legacy!WsLeft(b, c, s) = d
    BY <1>2 DEF Legacy!WsLeft
  <2> HIDE DEF times
  <2>6. \A e \in Legacy!Clients, t \in Topics : times[e][t] > 0 => Legacy!AdapterOf(e) = "websocket"
    BY <2>1, <2>4
  <2>7. /\ BooksFit(d, except)
        /\ \A e \in Legacy!Clients, t \in Topics : d.listens[e][t] = Legacy!Less(b.listens[e][t], times[e][t])
    BY <2>1, <2>4, <2>6, RemovedFits
  <2> HIDE DEF d
  <2>8. ASSUME NEW e \in Legacy!Clients, NEW t \in Topics, d.listens[e][t] > 0
        PROVE  b.listens[e][t] > 0
    <3>1. b.listens[e][t] \in Nat /\ times[e][t] \in Nat
      BY <2>4 DEF BooksFit, BooksType
    <3>2. QED
      BY <2>7, <2>8, <3>1 DEF Legacy!Less
  <2>9. QED
    BY <2>5, <2>7, <2>8
<1>3. QED
  BY <1>1, <1>2

-----------------------------------------------------------------------------
(* The requests. *)
RequestStates ==
    {"checking", "validating", "fetching", "streaming", "answered", "refused", "silent", "aborted"}
Requests ==
    [client : Legacy!Clients, kind : {"subscribe", "resend", "publish"}, stream : Topics,
     state : RequestStates, paused : BOOLEAN, sent : Nat]

\* The same requests of the same clients.
SameRequests(q, r) ==
    /\ r \in Seq(Requests) /\ DOMAIN r = DOMAIN q
    /\ \A j \in DOMAIN q : r[j].client = q[j].client /\ r[j].stream = q[j].stream
SameStates(q, r) == \A j \in DOMAIN q : r[j].state = q[j].state

LEMMA UpdatedRequests ==
    ASSUME NEW q \in Seq(Requests), NEW r \in [DOMAIN q -> Requests]
    PROVE  r \in Seq(Requests)
<1>1. Len(q) \in Nat /\ DOMAIN q = 1 .. Len(q)
  OBVIOUS
<1>2. r \in [1 .. Len(q) -> Requests]
  BY <1>1
<1>3. QED
  BY <1>1, <1>2, IsASeq

LEMMA BecomesSame ==
    ASSUME requests \in Seq(Requests), NEW i \in DOMAIN requests, NEW st \in RequestStates,
           Legacy!Becomes(i, st)
    PROVE  /\ SameRequests(requests, requests')
           /\ \A j \in DOMAIN requests : requests'[j].state = IF j = i THEN st ELSE requests[j].state
<1> DEFINE new == [requests[i] EXCEPT !.state = st]
<1>1. requests' = [requests EXCEPT ![i] = new]
  BY DEF Legacy!Becomes
<1>2. requests[i] \in Requests /\ \A j \in DOMAIN requests : requests[j] \in Requests
  OBVIOUS
<1>3. new \in Requests /\ new.client = requests[i].client /\ new.stream = requests[i].stream /\ new.state = st
  BY <1>2 DEF Requests
<1> HIDE DEF new
<1>4. requests' \in [DOMAIN requests -> Requests]
  BY <1>1, <1>2, <1>3
<1>5. requests' \in Seq(Requests)
  BY <1>4, UpdatedRequests
<1>6. QED
  BY <1>1, <1>3, <1>4, <1>5 DEF SameRequests

LEMMA PausedSame ==
    ASSUME requests \in Seq(Requests), NEW c, NEW to \in BOOLEAN
    PROVE  SameRequests(requests, Legacy!Paused(c, to)) /\ SameStates(requests, Legacy!Paused(c, to))
<1> DEFINE r == Legacy!Paused(c, to)
           new(j) == IF requests[j].client = c /\ requests[j].state = "streaming"
                     THEN [requests[j] EXCEPT !.paused = to] ELSE requests[j]
<1>1. r = [j \in DOMAIN requests |-> new(j)]
  BY DEF Legacy!Paused
<1>2. \A j \in DOMAIN requests :
        /\ new(j) \in Requests /\ new(j).client = requests[j].client
        /\ new(j).stream = requests[j].stream /\ new(j).state = requests[j].state
  <2> SUFFICES ASSUME NEW j \in DOMAIN requests
               PROVE  /\ new(j) \in Requests /\ new(j).client = requests[j].client
                      /\ new(j).stream = requests[j].stream /\ new(j).state = requests[j].state
    OBVIOUS
  <2>1. requests[j] \in Requests
    OBVIOUS
  <2>2. QED
    BY <2>1 DEF Requests
<1> HIDE DEF new, r
<1>3. r \in [DOMAIN requests -> Requests] /\ \A j \in DOMAIN requests : r[j] = new(j)
  BY <1>1, <1>2
<1>4. r \in Seq(Requests)
  BY <1>3, UpdatedRequests
<1>5. QED
  BY <1>2, <1>3, <1>4 DEF SameRequests, SameStates, r

LEMMA SentSame ==
    ASSUME NEW q \in Seq(Requests), NEW i \in DOMAIN q
    PROVE  LET r == [q EXCEPT ![i].sent = @ + 1] IN SameRequests(q, r) /\ SameStates(q, r)
<1> DEFINE r == [q EXCEPT ![i].sent = @ + 1]
           new == [q[i] EXCEPT !.sent = @ + 1]
<1>1. r = [q EXCEPT ![i] = new]
  OBVIOUS
<1>2. q[i] \in Requests /\ \A j \in DOMAIN q : q[j] \in Requests
  OBVIOUS
<1>3. /\ new \in Requests /\ new.client = q[i].client /\ new.stream = q[i].stream
      /\ new.state = q[i].state
  <2>1. q[i] \in Requests
    BY <1>2
  <2>2. q[i].sent + 1 \in Nat
    BY <2>1 DEF Requests
  <2>3. QED
    BY <2>1, <2>2 DEF Requests
<1> HIDE DEF new, r
<1>4. r \in [DOMAIN q -> Requests]
  BY <1>1, <1>2, <1>3
<1>5. r \in Seq(Requests)
  BY <1>4, UpdatedRequests
<1>6. QED
  BY <1>1, <1>3, <1>4, <1>5 DEF SameRequests, SameStates, r

-----------------------------------------------------------------------------
(* What is inductive: the books fit; who is gone listens only because of a *)
(* late request; and a resend that runs, is not late and was not forgotten *)
(* is one of the ongoing ones of a connection.                             *)
GoneAreLate ==
    \A c \in Legacy!Clients \ connected, s \in Topics \ spoiled :
        books.listens[c][s] > 0 =>
            \E i \in late : requests[i].client = c /\ requests[i].stream = s
Running(i) == requests[i].state = "streaming" /\ i \notin late \cup forgotten
RunningAreOngoing ==
    \A i \in DOMAIN requests :
        Running(i) => requests[i].client \in connected /\ i \in ongoing[requests[i].client]
LegacyTyped ==
    /\ requests \in Seq(Requests) /\ ongoing \in [Legacy!Clients -> SUBSET DOMAIN requests]
    /\ sockets \in [Legacy!Clients -> {"new", "open", "closed"}]
    /\ connected \subseteq Legacy!Clients /\ dead \subseteq Legacy!Clients
    /\ full \subseteq Legacy!Clients /\ ponged \subseteq WsClients /\ fulls \in Nat
    /\ spoiled \subseteq Topics /\ late \subseteq DOMAIN requests /\ forgotten \subseteq DOMAIN requests
LegacyInv == LegacyTyped /\ BooksFit(books, spoiled) /\ GoneAreLate /\ RunningAreOngoing

LEMMA LegacyTypesHold == ASSUME LegacyInv PROVE Legacy!TypeOK
<1>1. /\ books \in BooksType /\ requests \in Seq(Requests)
      /\ ongoing \in [Legacy!Clients -> SUBSET DOMAIN requests]
      /\ sockets \in [Legacy!Clients -> {"new", "open", "closed"}]
      /\ connected \cup dead \cup full \subseteq Legacy!Clients /\ ponged \subseteq WsClients
      /\ fulls \in Nat /\ spoiled \subseteq Topics /\ late \cup forgotten \subseteq DOMAIN requests
  BY DEF LegacyInv, LegacyTyped, BooksFit
<1>2. QED
  BY <1>1, Zenon DEF Legacy!TypeOK, BooksType, Requests, RequestStates

\* A step that adds no listener but for a late request, and no resend but one that is ongoing,
\* keeps the rest of the invariant.
LEMMA HistoryKept ==
    ASSUME LegacyInv, spoiled \subseteq spoiled', late \subseteq late', forgotten \subseteq forgotten',
           SameRequests(requests, requests'),
           \A c \in Legacy!Clients \ connected', s \in Topics \ spoiled' : books'.listens[c][s] > 0 =>
              \/ c \notin connected /\ books.listens[c][s] > 0
              \/ \E i \in late' : requests'[i].client = c /\ requests'[i].stream = s,
           \A i \in DOMAIN requests : Running(i)' =>
              \/ Running(i) /\ requests[i].client \in connected' /\ i \in ongoing'[requests[i].client]
              \/ requests'[i].client \in connected' /\ i \in ongoing'[requests'[i].client]
    PROVE  GoneAreLate' /\ RunningAreOngoing'
<1>1. ASSUME NEW c \in Legacy!Clients \ connected', NEW s \in Topics \ spoiled', books'.listens[c][s] > 0
      PROVE  \E i \in late' : requests'[i].client = c /\ requests'[i].stream = s
  <2>1. CASE c \notin connected /\ books.listens[c][s] > 0
    <3>1. PICK i \in late : requests[i].client = c /\ requests[i].stream = s
      BY <1>1, <2>1 DEF LegacyInv, GoneAreLate
    <3>2. i \in late' /\ i \in DOMAIN requests
      BY <3>1 DEF LegacyInv, LegacyTyped
    <3>3. QED
      BY <3>1, <3>2 DEF SameRequests
  <2>2. QED
    BY <1>1, <2>1
<1>2. RunningAreOngoing'
  BY DEF RunningAreOngoing, SameRequests
<1>3. QED
  BY <1>1, <1>2 DEF GoneAreLate

\* What connections do not touch.
LEMMA QuietStep ==
    ASSUME LegacyInv, UNCHANGED <<books, spoiled, late, forgotten>>,
           SameRequests(requests, requests'), connected \subseteq connected',
           connected' \subseteq Legacy!Clients, dead' \subseteq Legacy!Clients,
           full' \subseteq Legacy!Clients, ponged' \subseteq WsClients, fulls' \in Nat,
           sockets' \in [Legacy!Clients -> {"new", "open", "closed"}], ongoing' = ongoing,
           \A i \in DOMAIN requests : requests'[i].state = "streaming" => requests[i].state = "streaming"
    PROVE  LegacyInv'
<1>1. GoneAreLate' /\ RunningAreOngoing'
  <2>1. \A i \in DOMAIN requests : Running(i)' =>
           Running(i) /\ requests[i].client \in connected' /\ i \in ongoing'[requests[i].client]
    BY DEF Running, LegacyInv, RunningAreOngoing
  <2>2. QED
    BY <2>1, HistoryKept
<1>2. BooksFit(books, spoiled)'
  BY DEF LegacyInv
<1>3. QED
  BY <1>1, <1>2 DEF LegacyInv, LegacyTyped, SameRequests

LEMMA ConnectsKeeps == ASSUME LegacyInv, NEW c \in Legacy!Clients, Legacy!Connects(c) PROVE LegacyInv'
<1>1. SameRequests(requests, requests')
  BY DEF LegacyInv, LegacyTyped, SameRequests, Legacy!Connects
<1>2. /\ connected \subseteq connected' /\ connected' \subseteq Legacy!Clients
      /\ sockets' \in [Legacy!Clients -> {"new", "open", "closed"}]
  BY DEF LegacyInv, LegacyTyped, Legacy!Connects
<1>3. QED
  BY <1>1, <1>2, QuietStep DEF LegacyInv, LegacyTyped, Legacy!Connects, Legacy!history, Legacy!fullVars

LEMMA AsksKeeps ==
    ASSUME LegacyInv, NEW c \in Legacy!Clients, NEW s \in Topics,
           NEW kind \in {"subscribe", "resend", "publish"}, Legacy!Asks(c, kind, s)
    PROVE  LegacyInv'
<1>1. PICK st \in {"checking", "validating"} :
        requests' = Append(requests, [client |-> c, kind |-> kind, stream |-> s, state |-> st,
                                      paused |-> FALSE, sent |-> 0])
  BY DEF Legacy!Asks
<1> DEFINE new == [client |-> c, kind |-> kind, stream |-> s, state |-> st, paused |-> FALSE, sent |-> 0]
<1>2. new \in Requests /\ new.state # "streaming"
  BY DEF Requests, RequestStates
<1>3. requests \in Seq(Requests) /\ requests' = Append(requests, new)
  BY <1>1 DEF LegacyInv, LegacyTyped
<1> HIDE DEF new
<1>4. /\ requests' \in Seq(Requests) /\ DOMAIN requests \subseteq DOMAIN requests'
      /\ \A i \in DOMAIN requests : requests'[i] = requests[i]
      /\ \A i \in DOMAIN requests' : i \in DOMAIN requests \/ requests'[i] = new
  BY <1>2, <1>3
<1>5. UNCHANGED <<books, ongoing, sockets, connected, dead, ponged, full, fulls, spoiled, late, forgotten>>
  BY DEF Legacy!Asks, Legacy!clientVars, Legacy!fullVars, Legacy!history
<1>6. GoneAreLate'
  <2> SUFFICES ASSUME NEW e \in Legacy!Clients \ connected, NEW t \in Topics \ spoiled, books.listens[e][t] > 0
               PROVE  \E i \in late : requests'[i].client = e /\ requests'[i].stream = t
    BY <1>5 DEF GoneAreLate
  <2>1. PICK i \in late : requests[i].client = e /\ requests[i].stream = t
    BY DEF LegacyInv, GoneAreLate
  <2>2. i \in DOMAIN requests
    BY DEF LegacyInv, LegacyTyped
  <2>3. QED
    BY <1>4, <2>1, <2>2
<1>7. RunningAreOngoing'
  BY <1>2, <1>4, <1>5 DEF LegacyInv, RunningAreOngoing, Running
<1>8. ongoing' \in [Legacy!Clients -> SUBSET DOMAIN requests']
  BY <1>4, <1>5 DEF LegacyInv, LegacyTyped
<1>9. BooksFit(books, spoiled)'
  BY <1>5 DEF LegacyInv
<1>10. late' \subseteq DOMAIN requests' /\ forgotten' \subseteq DOMAIN requests'
  BY <1>4, <1>5 DEF LegacyInv, LegacyTyped
<1>11. QED
  BY <1>4, <1>5, <1>6, <1>7, <1>8, <1>9, <1>10 DEF LegacyInv, LegacyTyped

\* A request goes on, and no connection changes.
LEMMA PermittedKeeps == ASSUME LegacyInv, NEW i \in DOMAIN requests, Legacy!Permitted(i) PROVE LegacyInv'
<1>1. /\ UNCHANGED <<ongoing, sockets, connected, dead, ponged, full, fulls, spoiled, forgotten>>
      /\ requests \in Seq(Requests)
  BY DEF LegacyInv, LegacyTyped, Legacy!Permitted, Legacy!clientVars, Legacy!fullVars
<1>2. ASSUME NEW st \in RequestStates \ {"streaming"}, Legacy!Becomes(i, st), UNCHANGED <<books, late>>
      PROVE  LegacyInv'
  <2>1. /\ SameRequests(requests, requests')
        /\ \A j \in DOMAIN requests : requests'[j].state = IF j = i THEN st ELSE requests[j].state
    BY <1>1, <1>2, BecomesSame
  <2>2. QED
    BY <1>1, <1>2, <2>1, QuietStep DEF LegacyInv, LegacyTyped
<1>3. CASE /\ books' = Legacy!Joined(books, requests[i].client, requests[i].stream)
           /\ Legacy!Becomes(i, "answered") /\ Legacy!Note(i)
  <2> DEFINE c == requests[i].client
             s == requests[i].stream
  <2>1. /\ SameRequests(requests, requests')
        /\ \A j \in DOMAIN requests : requests'[j].state = IF j = i THEN "answered" ELSE requests[j].state
    BY <1>1, <1>3, BecomesSame DEF RequestStates
  <2>2. c \in Legacy!Clients /\ s \in Topics
    <3>1. requests[i] \in Requests
      BY <1>1
    <3>2. QED
      BY <3>1 DEF Requests
  <2>3. /\ BooksFit(books', spoiled)
        /\ \A e \in Legacy!Clients, t \in Topics :
              books'.listens[e][t] = IF e = c /\ t = s THEN books.listens[e][t] + 1 ELSE books.listens[e][t]
    BY <1>3, <2>2, JoinedFits DEF LegacyInv
  <2>4. late' = IF c \in connected THEN late ELSE late \cup {i}
    BY <1>3 DEF Legacy!Note
  <2>5. late \subseteq late' /\ late' \subseteq DOMAIN requests
    BY <2>4 DEF LegacyInv, LegacyTyped
  <2>6. ASSUME NEW e \in Legacy!Clients \ connected', NEW t \in Topics \ spoiled', books'.listens[e][t] > 0
        PROVE  \/ e \notin connected /\ books.listens[e][t] > 0
               \/ \E j \in late' : requests'[j].client = e /\ requests'[j].stream = t
    <3>1. CASE e = c /\ t = s
      <4>1. i \in late' /\ requests'[i].client = e /\ requests'[i].stream = t
        BY <1>1, <2>1, <2>4, <2>6, <3>1 DEF SameRequests
      <4>2. QED
        BY <4>1
    <3>2. CASE ~ (e = c /\ t = s)
      BY <1>1, <2>3, <2>6, <3>2
    <3>3. QED
      BY <3>1, <3>2
  <2> HIDE DEF c, s
  <2>7. \A j \in DOMAIN requests : Running(j)' =>
           Running(j) /\ requests[j].client \in connected' /\ j \in ongoing'[requests[j].client]
    BY <1>1, <2>1, <2>5 DEF Running, LegacyInv, RunningAreOngoing
  <2>8. GoneAreLate' /\ RunningAreOngoing'
    BY <1>1, <2>1, <2>5, <2>6, <2>7, HistoryKept
  <2>9. QED
    BY <1>1, <2>1, <2>3, <2>5, <2>8 DEF LegacyInv, LegacyTyped, SameRequests
<1>4. QED
  BY <1>2, <1>3 DEF Legacy!Permitted, Legacy!Subscribed, RequestStates

LEMMA AnsweredKeeps ==
    ASSUME LegacyInv, NEW i \in DOMAIN requests, Legacy!Published(i) \/ Legacy!Refused(i)
    PROVE  LegacyInv'
<1>1. PICK st \in {"answered", "refused"} : Legacy!Becomes(i, st)
  BY DEF Legacy!Published, Legacy!Refused
<1>2. UNCHANGED <<books, ongoing, sockets, connected, dead, ponged, full, fulls, spoiled, late, forgotten>>
  BY DEF Legacy!Published, Legacy!Refused, Legacy!clientVars, Legacy!fullVars, Legacy!history
<1>3. st \in RequestStates /\ st # "streaming" /\ requests \in Seq(Requests)
  BY DEF LegacyInv, LegacyTyped, RequestStates
<1>4. /\ SameRequests(requests, requests')
      /\ \A j \in DOMAIN requests : requests'[j].state = IF j = i THEN st ELSE requests[j].state
  BY <1>1, <1>3, BecomesSame
<1>5. QED
  BY <1>2, <1>3, <1>4, QuietStep DEF LegacyInv, LegacyTyped

LEMMA FetchedKeeps == ASSUME LegacyInv, NEW i \in DOMAIN requests, Legacy!Fetched(i) PROVE LegacyInv'
<1> DEFINE c == requests[i].client
           st == IF c \in dead THEN "silent" ELSE "streaming"
<1>1. /\ UNCHANGED <<books, sockets, connected, dead, ponged, full, fulls, spoiled, forgotten>>
      /\ requests \in Seq(Requests) /\ ongoing' = [ongoing EXCEPT ![c] = @ \cup {i}]
      /\ Legacy!Becomes(i, st) /\ Legacy!Note(i)
  BY DEF LegacyInv, LegacyTyped, Legacy!Fetched, Legacy!clientVars, Legacy!fullVars
<1>2. st \in RequestStates /\ c \in Legacy!Clients
  <2>1. requests[i] \in Requests
    BY <1>1
  <2>2. QED
    BY <2>1 DEF Requests, RequestStates
<1>3. late' = IF c \in connected THEN late ELSE late \cup {i}
  BY <1>1 DEF Legacy!Note
<1> HIDE DEF st
<1>4. /\ SameRequests(requests, requests')
      /\ \A j \in DOMAIN requests : requests'[j].state = IF j = i THEN st ELSE requests[j].state
  BY <1>1, <1>2, BecomesSame
<1>5. late \subseteq late' /\ late' \subseteq DOMAIN requests
  BY <1>3 DEF LegacyInv, LegacyTyped
<1>6. /\ ongoing' \in [Legacy!Clients -> SUBSET DOMAIN requests] /\ i \in ongoing'[c]
      /\ \A e \in Legacy!Clients : ongoing[e] \subseteq ongoing'[e]
  BY <1>1, <1>2 DEF LegacyInv, LegacyTyped
<1>7. requests'[i].client = c
  BY <1>4 DEF SameRequests
<1>8. ASSUME NEW j \in DOMAIN requests, Running(j)'
      PROVE  \/ Running(j) /\ requests[j].client \in connected' /\ j \in ongoing'[requests[j].client]
             \/ requests'[j].client \in connected' /\ j \in ongoing'[requests'[j].client]
  <2>1. CASE j = i
    BY <1>1, <1>3, <1>6, <1>7, <1>8, <2>1 DEF Running
  <2>2. CASE j # i
    <3>1. Running(j)
      BY <1>1, <1>4, <1>5, <1>8, <2>2 DEF Running
    <3>2. requests[j].client \in connected /\ j \in ongoing[requests[j].client]
      BY <3>1 DEF LegacyInv, RunningAreOngoing
    <3>3. requests[j].client \in Legacy!Clients
      BY <3>2 DEF LegacyInv, LegacyTyped
    <3>4. QED
      BY <1>1, <1>6, <3>1, <3>2, <3>3
  <2>3. QED
    BY <2>1, <2>2
<1> HIDE DEF c
<1>9. GoneAreLate' /\ RunningAreOngoing'
  BY <1>1, <1>4, <1>5, <1>8, HistoryKept
<1>10. BooksFit(books, spoiled)'
  BY <1>1 DEF LegacyInv
<1>11. QED
  BY <1>1, <1>4, <1>5, <1>6, <1>9, <1>10 DEF LegacyInv, LegacyTyped, SameRequests

LEMMA FillsTyped ==
    ASSUME full \subseteq Legacy!Clients, fulls \in Nat, NEW c \in Legacy!Clients, Legacy!Fills(c)
    PROVE  full' \subseteq Legacy!Clients /\ fulls' \in Nat
<1>1. fulls' = fulls + 1 /\ full' = full \cup {c}
  BY DEF Legacy!Fills
<1>2. QED
  BY <1>1

\* Data flow, stop and flow again: no request changes its state.
LEMMA FlowKeeps ==
    ASSUME LegacyInv,
           \/ \E i \in DOMAIN requests : Legacy!Data(i)
           \/ \E c \in Legacy!Clients : Legacy!Broadcast(c) \/ Legacy!Drain(c)
    PROVE  LegacyInv'
<1>1. /\ UNCHANGED <<books, ongoing, sockets, connected, dead, ponged, spoiled, late, forgotten>>
      /\ requests \in Seq(Requests) /\ connected \subseteq Legacy!Clients
  BY DEF LegacyInv, LegacyTyped, Legacy!Data, Legacy!Broadcast, Legacy!Drain, Legacy!history
<1>2. ASSUME NEW q, q \in Seq(Requests), SameRequests(requests, q), SameStates(requests, q),
             NEW i \in DOMAIN requests, requests' = [q EXCEPT ![i].sent = @ + 1]
      PROVE  SameRequests(requests, requests') /\ SameStates(requests, requests')
  <2>1. i \in DOMAIN q
    BY <1>2 DEF SameRequests
  <2>2. SameRequests(q, requests') /\ SameStates(q, requests')
    BY <1>2, <2>1, SentSame
  <2>3. QED
    BY <1>2, <2>2 DEF SameRequests, SameStates
<1>3. SameRequests(requests, requests) /\ SameStates(requests, requests)
  BY <1>1 DEF SameRequests, SameStates
<1>4. \A c : /\ SameRequests(requests, Legacy!Paused(c, TRUE)) /\ SameStates(requests, Legacy!Paused(c, TRUE))
             /\ SameRequests(requests, Legacy!Paused(c, FALSE)) /\ SameStates(requests, Legacy!Paused(c, FALSE))
             /\ Legacy!Paused(c, TRUE) \in Seq(Requests)
  <2>1. \A c : /\ SameRequests(requests, Legacy!Paused(c, TRUE)) /\ SameStates(requests, Legacy!Paused(c, TRUE))
               /\ SameRequests(requests, Legacy!Paused(c, FALSE)) /\ SameStates(requests, Legacy!Paused(c, FALSE))
    BY <1>1, PausedSame
  <2>2. QED
    BY <2>1 DEF SameRequests
<1>5. CASE \E i \in DOMAIN requests : Legacy!Data(i)
  <2>1. PICK i \in DOMAIN requests : Legacy!Data(i)
    BY <1>5
  <2>2. /\ \/ /\ requests' = [Legacy!Paused(requests[i].client, TRUE) EXCEPT ![i].sent = @ + 1]
              /\ Legacy!Fills(requests[i].client)
           \/ requests' = [requests EXCEPT ![i].sent = @ + 1] /\ UNCHANGED <<full, fulls>>
    BY <2>1 DEF Legacy!Data, Legacy!fullVars
  <2>3. SameRequests(requests, requests') /\ SameStates(requests, requests')
    BY <1>1, <1>2, <1>3, <1>4, <2>2
  <2>4. full' \subseteq Legacy!Clients /\ fulls' \in Nat
    <3>1. requests[i] \in Requests
      BY <1>1
    <3>2. requests[i].client \in Legacy!Clients
      BY <3>1 DEF Requests
    <3>3. QED
      BY <2>2, <3>2, FillsTyped DEF LegacyInv, LegacyTyped
  <2>5. QED
    BY <1>1, <2>3, <2>4, QuietStep DEF LegacyInv, LegacyTyped, SameStates
<1>6. CASE \E c \in Legacy!Clients : Legacy!Broadcast(c) \/ Legacy!Drain(c)
  <2>1. SameRequests(requests, requests') /\ SameStates(requests, requests')
    BY <1>4, <1>6 DEF Legacy!Broadcast, Legacy!Drain
  <2>2. full' \subseteq Legacy!Clients /\ fulls' \in Nat
    BY <1>6, FillsTyped DEF LegacyInv, LegacyTyped, Legacy!Broadcast, Legacy!Drain
  <2>3. QED
    BY <1>1, <2>1, <2>2, QuietStep DEF LegacyInv, LegacyTyped, SameStates
<1>7. QED
  BY <1>5, <1>6

LEMMA EndKeeps == ASSUME LegacyInv, NEW i \in DOMAIN requests, Legacy!End(i) PROVE LegacyInv'
<1> DEFINE c == requests[i].client
           dropped == {j \in ongoing[c] \ {i} : requests[j].state = "streaming"}
<1>1. /\ UNCHANGED <<books, sockets, connected, dead, ponged, full, fulls, spoiled, late>>
      /\ requests \in Seq(Requests) /\ ongoing' = [ongoing EXCEPT ![c] = {}]
      /\ Legacy!Becomes(i, "answered") /\ forgotten' = forgotten \cup dropped
  BY DEF LegacyInv, LegacyTyped, Legacy!End, Legacy!clientVars, Legacy!fullVars
<1>2. /\ SameRequests(requests, requests')
      /\ \A j \in DOMAIN requests : requests'[j].state = IF j = i THEN "answered" ELSE requests[j].state
  BY <1>1, BecomesSame DEF RequestStates
<1>3. c \in Legacy!Clients
  <2>1. requests[i] \in Requests
    BY <1>1
  <2>2. QED
    BY <2>1 DEF Requests
<1>4. /\ dropped \subseteq DOMAIN requests /\ ongoing' \in [Legacy!Clients -> SUBSET DOMAIN requests]
      /\ forgotten \subseteq forgotten' /\ forgotten' \subseteq DOMAIN requests
  BY <1>1, <1>3 DEF LegacyInv, LegacyTyped
<1>5. ASSUME NEW j \in DOMAIN requests, Running(j)'
      PROVE  Running(j) /\ requests[j].client \in connected' /\ j \in ongoing'[requests[j].client]
  <2>1. j # i /\ Running(j)
    BY <1>1, <1>2, <1>5 DEF Running
  <2>2. /\ requests[j].client \in connected /\ j \in ongoing[requests[j].client]
        /\ requests[j].client \in Legacy!Clients
    BY <2>1 DEF LegacyInv, LegacyTyped, RunningAreOngoing
  <2>3. requests[j].client # c
    BY <1>1, <1>5, <2>1, <2>2 DEF Running
  <2>4. QED
    BY <1>1, <2>1, <2>2, <2>3 DEF LegacyInv, LegacyTyped
<1> HIDE DEF c, dropped
<1>6. GoneAreLate' /\ RunningAreOngoing'
  BY <1>1, <1>2, <1>4, <1>5, HistoryKept DEF LegacyInv
<1>7. QED
  BY <1>1, <1>2, <1>4, <1>6 DEF LegacyInv, LegacyTyped, SameRequests

LEMMA UnsubscribeKeeps ==
    ASSUME LegacyInv, NEW c \in Legacy!Clients, NEW s \in Topics, Legacy!Unsubscribe(c, s)
    PROVE  LegacyInv'
<1>1. /\ UNCHANGED <<requests, ongoing, sockets, connected, dead, ponged, full, fulls, late, forgotten>>
      /\ books' = IF c \in WsClients THEN Legacy!WsLeft(books, c, s) ELSE Legacy!MqttLeft(books, c, s)
      /\ spoiled' = IF c \in MqttClients /\ s \in books.streams["mqtt"] THEN spoiled \cup {s} ELSE spoiled
      /\ BooksFit(books, spoiled)
  BY DEF LegacyInv, Legacy!Unsubscribe, Legacy!clientVars, Legacy!fullVars
<1>2. /\ BooksFit(books', spoiled')
      /\ \A e \in Legacy!Clients, t \in Topics : books'.listens[e][t] > 0 => books.listens[e][t] > 0
  <2>1. CASE c \in WsClients
    <3>1. /\ BooksFit(books', spoiled)
          /\ \A e \in Legacy!Clients, t \in Topics : books'.listens[e][t] > 0 => books.listens[e][t] > 0
      BY <1>1, <2>1, WsLeftFits
    <3>2. QED
      BY <1>1, <3>1 DEF BooksFit
  <2>2. CASE c \notin WsClients /\ s \in books.streams["mqtt"]
    <3>1. c \in MqttClients
      BY <2>2 DEF Legacy!Clients
    <3>2. QED
      BY <1>1, <2>2, <3>1, MqttLeftFits
  <2>3. CASE c \notin WsClients /\ s \notin books.streams["mqtt"]
    BY <1>1, <2>3 DEF Legacy!MqttLeft
  <2>4. QED
    BY <2>1, <2>2, <2>3
<1>3. SameRequests(requests, requests')
  BY <1>1 DEF LegacyInv, LegacyTyped, SameRequests
<1>4. \A j \in DOMAIN requests : Running(j)' =>
         Running(j) /\ requests[j].client \in connected' /\ j \in ongoing'[requests[j].client]
  BY <1>1 DEF LegacyInv, RunningAreOngoing, Running
<1>5. spoiled \subseteq spoiled' /\ spoiled' \subseteq Topics
  BY <1>1 DEF LegacyInv, LegacyTyped
<1>6. GoneAreLate' /\ RunningAreOngoing'
  BY <1>1, <1>2, <1>3, <1>4, <1>5, HistoryKept
<1>7. QED
  BY <1>1, <1>2, <1>5, <1>6 DEF LegacyInv, LegacyTyped

\* Connections of one adapter end: they leave their streams, and their resends are aborted.
LEMMA ForgetKeeps ==
    ASSUME LegacyInv, NEW a \in Legacy!Adapters, NEW gone \in SUBSET Legacy!Clients,
           \A c \in gone : Legacy!AdapterOf(c) = a, Legacy!Forget(a, gone),
           UNCHANGED <<full, fulls, spoiled, late, forgotten>>, dead' \subseteq Legacy!Clients,
           sockets' \in [Legacy!Clients -> {"new", "open", "closed"}], ponged' \subseteq WsClients
    PROVE  LegacyInv'
<1> DEFINE aborts(i) == \E c \in gone : i \in ongoing[c]
           new(i) == IF aborts(i) THEN [requests[i] EXCEPT !.state = "aborted"] ELSE requests[i]
<1>1. /\ books' = Legacy!Closed(books, a, gone) /\ connected' = connected \ gone
      /\ requests' = [i \in DOMAIN requests |-> new(i)]
      /\ ongoing' = [c \in Legacy!Clients |-> IF c \in gone THEN {} ELSE ongoing[c]]
      /\ requests \in Seq(Requests) /\ BooksFit(books, spoiled)
  BY DEF LegacyInv, LegacyTyped, Legacy!Forget, Legacy!Abort
<1>2. ASSUME NEW i \in DOMAIN requests
      PROVE  /\ new(i) \in Requests /\ new(i).client = requests[i].client
             /\ new(i).stream = requests[i].stream
             /\ new(i).state = IF aborts(i) THEN "aborted" ELSE requests[i].state
  <2> HIDE DEF aborts
  <2>1. requests[i] \in Requests
    BY <1>1
  <2>2. QED
    BY <2>1 DEF Requests, RequestStates
<1> HIDE DEF new
<1>3. SameRequests(requests, requests')
  <2>1. requests' \in [DOMAIN requests -> Requests]
    BY <1>1, <1>2
  <2>2. requests' \in Seq(Requests)
    BY <1>1, <2>1, UpdatedRequests
  <2>3. QED
    BY <1>1, <1>2, <2>1, <2>2 DEF SameRequests
<1>4. \A i \in DOMAIN requests : requests'[i].state = IF aborts(i) THEN "aborted" ELSE requests[i].state
  BY <1>1, <1>2
<1>5. /\ BooksFit(books', spoiled)
      /\ \A c \in Legacy!Clients, s \in Topics :
            /\ c \notin gone => books'.listens[c][s] = books.listens[c][s]
            /\ c \in gone /\ s \notin spoiled => books'.listens[c][s] = 0
  BY <1>1, ClosedFits
<1>6. ASSUME NEW c \in Legacy!Clients \ connected', NEW s \in Topics \ spoiled', books'.listens[c][s] > 0
      PROVE  c \notin connected /\ books.listens[c][s] > 0
  BY <1>1, <1>5, <1>6
<1>7. ASSUME NEW i \in DOMAIN requests, Running(i)'
      PROVE  Running(i) /\ requests[i].client \in connected' /\ i \in ongoing'[requests[i].client]
  <2>1. ~ aborts(i) /\ Running(i)
    BY <1>4, <1>7 DEF Running
  <2>2. requests[i].client \in connected /\ i \in ongoing[requests[i].client]
    BY <2>1 DEF LegacyInv, RunningAreOngoing
  <2>3. requests[i].client \notin gone /\ requests[i].client \in Legacy!Clients
    BY <2>1, <2>2 DEF LegacyInv, LegacyTyped
  <2>4. QED
    BY <1>1, <2>1, <2>2, <2>3
<1>8. GoneAreLate' /\ RunningAreOngoing'
  BY <1>3, <1>6, <1>7, HistoryKept
<1>9. ongoing' \in [Legacy!Clients -> SUBSET DOMAIN requests]
  BY <1>1 DEF LegacyInv, LegacyTyped
<1>10. QED
  BY <1>1, <1>3, <1>5, <1>8, <1>9 DEF LegacyInv, LegacyTyped, SameRequests

\* A socket or a server closes, a client is silent.
LEMMA CloseKeeps ==
    ASSUME LegacyInv,
           \/ \E c \in Legacy!Clients : Legacy!SocketCloses(c) \/ Legacy!Timeout(c)
           \/ Legacy!PingConnections
           \/ \E a \in Legacy!Adapters : Legacy!CloseServer(a)
    PROVE  LegacyInv'
<1>1. /\ connected \subseteq Legacy!Clients /\ dead \subseteq Legacy!Clients /\ ponged \subseteq WsClients
      /\ sockets \in [Legacy!Clients -> {"new", "open", "closed"}] /\ full \subseteq Legacy!Clients
      /\ fulls \in Nat /\ requests \in Seq(Requests)
  BY DEF LegacyInv, LegacyTyped
<1>2. \A c \in Legacy!Clients : Legacy!AdapterOf(c) \in Legacy!Adapters
  BY DEF Legacy!AdapterOf, Legacy!Adapters
<1>3. ASSUME NEW c \in Legacy!Clients, Legacy!SocketCloses(c)
      PROVE  LegacyInv'
  <2>1. /\ UNCHANGED <<full, fulls, spoiled, late, forgotten, ponged>> /\ dead' \subseteq Legacy!Clients
        /\ sockets' \in [Legacy!Clients -> {"new", "open", "closed"}]
    BY <1>1, <1>3 DEF Legacy!SocketCloses, Legacy!fullVars, Legacy!history
  <2>2. CASE Legacy!Forget(Legacy!AdapterOf(c), {c})
    BY <1>1, <1>2, <2>1, <2>2, ForgetKeeps
  <2>3. CASE UNCHANGED <<books, requests, ongoing, connected>>
    <3>1. SameRequests(requests, requests')
      BY <1>1, <2>3 DEF SameRequests
    <3>2. QED
      BY <1>1, <2>1, <2>3, <3>1, QuietStep
  <2>4. QED
    BY <1>3, <2>2, <2>3 DEF Legacy!SocketCloses
<1>4. ASSUME NEW c \in Legacy!Clients, Legacy!Timeout(c)
      PROVE  LegacyInv'
  <2>1. /\ UNCHANGED <<full, fulls, spoiled, late, forgotten, ponged, dead, sockets>>
        /\ Legacy!Forget(Legacy!AdapterOf(c), {c})
    BY <1>4 DEF Legacy!Timeout, Legacy!fullVars, Legacy!history
  <2>2. QED
    BY <1>1, <1>2, <2>1, ForgetKeeps
<1>5. CASE Legacy!PingConnections
  <2> DEFINE silent == (connected \cap WsClients) \ ponged
  <2>1. /\ UNCHANGED <<full, fulls, spoiled, late, forgotten>> /\ Legacy!Forget("websocket", silent)
        /\ dead' = dead \cup silent /\ ponged' = ponged \ connected
        /\ sockets' = [c \in Legacy!Clients |-> IF c \in silent THEN "closed" ELSE sockets[c]]
    BY <1>5 DEF Legacy!PingConnections, Legacy!fullVars, Legacy!history
  <2>2. silent \in SUBSET Legacy!Clients /\ \A c \in silent : Legacy!AdapterOf(c) = "websocket"
    BY <1>1 DEF Legacy!AdapterOf
  <2>3. "websocket" \in Legacy!Adapters
    BY DEF Legacy!Adapters
  <2> HIDE DEF silent
  <2>4. /\ dead' \subseteq Legacy!Clients /\ ponged' \subseteq WsClients
        /\ sockets' \in [Legacy!Clients -> {"new", "open", "closed"}]
    BY <1>1, <2>1, <2>2
  <2>5. QED
    BY <2>1, <2>2, <2>3, <2>4, ForgetKeeps
<1>6. ASSUME NEW a \in Legacy!Adapters, Legacy!CloseServer(a)
      PROVE  LegacyInv'
  <2> DEFINE all == {c \in connected : Legacy!AdapterOf(c) = a}
  <2>1. /\ UNCHANGED <<full, fulls, spoiled, late, forgotten, ponged, sockets>> /\ Legacy!Forget(a, all)
        /\ dead' = IF a = "websocket" THEN dead \cup all ELSE dead
    BY <1>6 DEF Legacy!CloseServer, Legacy!fullVars, Legacy!history
  <2>2. all \in SUBSET Legacy!Clients /\ \A c \in all : Legacy!AdapterOf(c) = a
    BY <1>1
  <2> HIDE DEF all
  <2>3. dead' \subseteq Legacy!Clients
    BY <1>1, <2>1, <2>2
  <2>4. QED
    BY <1>1, <2>1, <2>2, <2>3, ForgetKeeps
<1>7. QED
  BY <1>3, <1>4, <1>5, <1>6

LEMMA LegacyStep == ASSUME LegacyInv, Legacy!Next \/ UNCHANGED legacyVars PROVE LegacyInv'
<1>1. CASE UNCHANGED legacyVars
  BY <1>1 DEF legacyVars, LegacyInv, LegacyTyped, GoneAreLate, RunningAreOngoing, Running
<1>2. ASSUME NEW c \in Legacy!Clients, Legacy!Pong(c)
      PROVE  LegacyInv'
  <2>1. SameRequests(requests, requests')
    BY <1>2 DEF LegacyInv, LegacyTyped, SameRequests, Legacy!Pong
  <2>2. QED
    BY <1>2, <2>1, QuietStep DEF LegacyInv, LegacyTyped, Legacy!Pong, Legacy!fullVars, Legacy!history
<1>3. QED
  BY <1>1, <1>2, ConnectsKeeps, AsksKeeps, PermittedKeeps, AnsweredKeeps, FetchedKeeps, FlowKeeps,
     EndKeeps, UnsubscribeKeeps, CloseKeeps
     DEF Legacy!Next

LEMMA LegacyBegins == ASSUME Legacy!Init PROVE LegacyInv
<1> DEFINE none == Legacy!Nowhere
<1>1. /\ none \in [Legacy!Clients -> [Topics -> Nat]]
      /\ \A c \in Legacy!Clients, s \in Topics : none[c][s] = 0
  BY DEF Legacy!Nowhere
<1>2. /\ books = [streams |-> [a \in Legacy!Adapters |-> {}], listens |-> none, of |-> none,
                  count |-> [s \in Topics |-> 0], node |-> {}]
      /\ requests = <<>> /\ ongoing = [c \in Legacy!Clients |-> {}]
      /\ sockets = [c \in Legacy!Clients |-> "new"]
      /\ connected = {} /\ dead = {} /\ ponged = WsClients /\ full = {} /\ fulls = 0
      /\ spoiled = {} /\ late = {} /\ forgotten = {}
  BY DEF Legacy!Init
<1> HIDE DEF none
<1>3. books \in BooksType
  BY <1>1, <1>2 DEF BooksType
<1>4. ListenersHaveStreams(books)
  BY <1>1, <1>2 DEF ListenersHaveStreams
<1>5. \A s \in Topics : Served(books, s)
  BY <1>1, <1>2 DEF Served, Has, Legacy!Adapters
<1>6. requests \in Seq(Requests) /\ DOMAIN requests = {}
  BY <1>2
<1>7. LegacyTyped
  <2>1. ongoing \in [Legacy!Clients -> SUBSET DOMAIN requests]
    BY <1>2
  <2>2. QED
    BY <1>2, <1>6, <2>1 DEF LegacyTyped
<1>8. BooksFit(books, spoiled)
  BY <1>2, <1>3, <1>4, <1>5 DEF BooksFit
<1>9. GoneAreLate
  <2>1. \A c \in Legacy!Clients, s \in Topics : books.listens[c][s] = 0
    BY <1>1, <1>2
  <2>2. QED
    BY <2>1 DEF GoneAreLate
<1>10. RunningAreOngoing
  BY <1>6 DEF RunningAreOngoing
<1>11. QED
  BY <1>7, <1>8, <1>9, <1>10 DEF LegacyInv

\* Who listens in an adapter makes the adapter have the stream, and only that.
Wanting(s) == {Legacy!AdapterOf(c) : c \in {d \in Legacy!Clients : books.listens[d][s] > 0}}
LEMMA WantedIsServed ==
    ASSUME BooksFit(books, spoiled)
    PROVE  Legacy!NodeServesListeners
<1>0. \A S : Legacy!Cardinality(S) = Cardinality(S)
  BY DEF Legacy!Cardinality, Cardinality
<1> SUFFICES ASSUME NEW s \in Topics \ spoiled
             PROVE  /\ s \in books.node <=> Wanting(s) # {}
                    /\ books.count[s] = Cardinality(Wanting(s))
                    /\ \A a \in Legacy!Adapters : s \in books.streams[a] <=> a \in Wanting(s)
  BY <1>0 DEF Legacy!NodeServesListeners, Wanting
<1> DEFINE wanting == Wanting(s)
<1>1. Served(books, s) /\ ListenersHaveStreams(books)
  BY DEF BooksFit
<1>2. wanting \subseteq Legacy!Adapters /\ Legacy!Adapters = {"websocket", "mqtt"}
  BY DEF Legacy!AdapterOf, Legacy!Adapters, Wanting
<1>3. \A a \in Legacy!Adapters : s \in books.streams[a] <=> a \in wanting
  <2> SUFFICES ASSUME NEW a \in Legacy!Adapters
               PROVE  s \in books.streams[a] <=> a \in wanting
    OBVIOUS
  <2>1. s \in books.streams[a] => a \in wanting
    BY <1>1 DEF Served, Wanting
  <2>2. a \in wanting => s \in books.streams[a]
    BY <1>1 DEF ListenersHaveStreams, Wanting
  <2>3. QED
    BY <2>1, <2>2
<1> HIDE DEF wanting
<1>4. books.count[s] = (IF "websocket" \in wanting THEN 1 ELSE 0) + (IF "mqtt" \in wanting THEN 1 ELSE 0)
  BY <1>1, <1>2, <1>3 DEF Served, Has
<1>5. \/ wanting = {} \/ wanting = {"websocket"} \/ wanting = {"mqtt"}
      \/ wanting = {"websocket", "mqtt"}
  BY <1>2
<1>6. /\ Cardinality({}) = 0 /\ Cardinality({"websocket"}) = 1 /\ Cardinality({"mqtt"}) = 1
      /\ Cardinality({"websocket", "mqtt"}) = 2
  <2>1. /\ Cardinality({}) = 0 /\ Cardinality({"websocket"}) = 1 /\ Cardinality({"mqtt"}) = 1
        /\ IsFiniteSet({"websocket"})
    BY FS_EmptySet, FS_Singleton
  <2>2. {"websocket", "mqtt"} = {"websocket"} \cup {"mqtt"} /\ "mqtt" \notin {"websocket"}
    OBVIOUS
  <2>3. Cardinality({"websocket"} \cup {"mqtt"})
          = IF "mqtt" \in {"websocket"} THEN Cardinality({"websocket"}) ELSE Cardinality({"websocket"}) + 1
    BY <2>1, FS_AddElement, Zenon
  <2>4. Cardinality({"websocket"} \cup {"mqtt"}) = 2
    BY <2>1, <2>2, <2>3
  <2>5. QED
    BY <2>1, <2>2, <2>4
<1>7. books.count[s] = Cardinality(wanting)
  BY <1>4, <1>5, <1>6
<1>8. s \in books.node <=> wanting # {}
  <2>1. s \in books.node <=> books.count[s] > 0
    BY <1>1 DEF Served
  <2>2. QED
    BY <1>4, <1>5, <2>1
<1>9. QED
  BY <1>3, <1>7, <1>8 DEF wanting

\* Whatever connections, requests, services and sockets do, for any clients, streams, requests and
\* full sockets: the node is subscribed as long as somebody listens and counts each adapter once,
\* and a client that is gone leaves nothing behind, except what its late requests, a forgotten
\* resend and an MQTT client's 'unsubscribe' leave (RequestHandler, WebsocketServer, MqttServer,
\* SubscriptionManager).
THEOREM ListenersStayKept == Legacy!Spec => []ListenersAreKept
<1>1. Legacy!Spec => []LegacyInv
  <2>1. LegacyInv /\ [Legacy!Next]_(Legacy!brokerVars) => LegacyInv'
    BY LegacyStep DEF legacyVars, Legacy!brokerVars, Legacy!clientVars, Legacy!fullVars, Legacy!history
  <2>2. QED
    BY <2>1, LegacyBegins, PTL DEF Legacy!Spec
<1>2. ASSUME LegacyInv
      PROVE  ListenersAreKept
  <2>1. Legacy!TypeOK
    BY <1>2, LegacyTypesHold
  <2>2. Legacy!NodeServesListeners
    BY <1>2, WantedIsServed DEF LegacyInv
  <2>3. Legacy!ClosedLeaveNothing
    <3>1. \A c \in Legacy!Clients \ connected, s \in Topics \ spoiled :
             books.listens[c][s] > 0 => \E i \in late : requests[i].client = c /\ requests[i].stream = s
      BY <1>2 DEF LegacyInv, GoneAreLate
    <3>2. \A c \in Legacy!Clients \ connected, i \in DOMAIN requests \ (late \cup forgotten) :
             requests[i].client = c => requests[i].state # "streaming"
      BY <1>2 DEF LegacyInv, RunningAreOngoing, Running
    <3>3. QED
      BY <3>1, <3>2 DEF Legacy!ClosedLeaveNothing
  <2>4. QED
    BY <2>1, <2>2, <2>3 DEF ListenersAreKept, Legacy!ListenersAreKept
<1>3. QED
  BY <1>1, <1>2, PTL
==================================================================================
