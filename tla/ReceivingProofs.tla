----------------------------- MODULE ReceivingProofs -----------------------------
(***************************************************************************)
(* Three results about what subscribers get.  The group keys of a          *)
(* publisher: every key is announced before it is used and a key that is   *)
(* set takes effect, however often keys are set, and whatever fails, stops *)
(* or crashes while messages are being encrypted.  A subscription with a   *)
(* resend: what the storage node had when it was asked is given before     *)
(* what arrives live, however late the resend ends, and whenever the       *)
(* subscription is cancelled.  And nobody who reads it, cancels it or      *)
(* waits for its end waits in vain.                                        *)
(***************************************************************************)
EXTENDS MCReceiving, Integers, FiniteSetTheorems, TLAPS

\* A message is being encrypted.
Busy == creating.step # "idle"

\* A key is in line in a generation of the exchange, or is there at all.
Waits(g, k) == \E i \in 1 .. Len(next[g]) : next[g][i] = k
Holds(g, k) == k = current[g] \/ Waits(g, k)

\* Somebody may have or use a key, as opposed to its being stored by a rekey() only.
Mentioned(k) ==
    \/ \E i \in 1 .. Len(log) : k \in {log[i].key, log[i].next}
    \/ \E g \in Generations : Holds(g, k)
    \/ k \in old
    \/ Busy /\ k \in {creating.key, creating.next} \cup creating.old

\* The exchange stores one key of its own at a time, and the message waits for it.
OneUse ==
    \A t \in storing : t.for = "use" =>
        /\ creating.step = "rotate"
        /\ \A u \in storing : u.for = "use" => u = t

-----------------------------------------------------------------------------
(* Keys are new when they are set, so what followers had or learn from      *)
(* announcements is not among the keys an exchange holds after a rekey().   *)
Generated ==
    /\ \A k \in Nat : Mentioned(k) => k <= used
    /\ \A t \in storing : t.key <= used
RekeysAreFresh ==
    \A t \in storing : t.for = "rekey" =>
        /\ ~ Mentioned(t.key)
        /\ \A u \in storing : u.key = t.key => u = t
OldIsNotInUse ==
    \A k \in Nat :
        /\ Holds(generation, k) => k \notin old
        /\ creating.step \in {"sub", "use", "rotate"} /\ Holds(creating.generation, k)
               => k \notin creating.old
\* The message that is to be published teaches followers no key that is still to be used: it is
\* not theirs to read, or it announces nothing the exchange holds.
OldIsNotTaken ==
    creating.step = "get" =>
        /\ creating.key \notin creating.old
        /\ \/ creating.key \notin old
           \/ creating.next \in old \cup {None}
           \/ ~ Holds(generation, creating.next)
\* A key that waits in one generation is in no other; the configured key is in all of them.
KeysAreApart == \A g, h \in Generations, k \in Nat : g # h /\ Waits(g, k) => ~ Holds(h, k)

-----------------------------------------------------------------------------
(* The current key is the one the last message was encrypted with or the    *)
(* one it announced, unless the chain was cut.                              *)

\* The generation the next message is of.
Active == IF Busy THEN creating.generation ELSE generation
InTurn ==
    /\ Active <= generation
    /\ \A i \in 1 .. Len(log) : log[i].by <= Active
HasCurrent ==
    /\ \A i \in 1 .. Len(log) : log[i].key # None => current[log[i].by] # None
    /\ creating.step = "get" => creating.key # None /\ current[creating.generation] # None
Latest(i) ==
    /\ log[i].key # None /\ log[i].by = Active
    /\ \A k \in i + 1 .. Len(log) : log[k].key = None
FollowsOn ==
    \A i \in 1 .. Len(log) : Latest(i) =>
        IF creating.step = "get"
        THEN creating.cut \/ creating.key \in {log[i].key, log[i].next}
        ELSE cut \/ current[Active] \in {log[i].key, log[i].next}
GetFollowsOn ==
    creating.step = "get" => cut \/ current[creating.generation] \in {creating.key, creating.next}

-----------------------------------------------------------------------------
\* Whoever has been told that a key is set finds one in the database.
KeyedIsStored ==
    /\ keyed => "publisher" \in open /\ written["publisher"] # {}
    /\ Busy => (creating.keyed => keyed)

Fresh == Generated /\ RekeysAreFresh /\ OldIsNotInUse /\ OldIsNotTaken /\ KeysAreApart
Follows == InTurn /\ HasCurrent /\ FollowsOn /\ GetFollowsOn /\ KeysAreAnnounced
Set == KeyedIsStored /\ EncryptedOnceKeyed
IInv == PublisherTypeOK /\ OneUse /\ Fresh /\ Follows /\ Set

-----------------------------------------------------------------------------
(* The keys that wait in line.                                              *)

LEMMA GenerationsAreNumbers ==
    PublisherTypeOK => /\ MaxStops \in Nat /\ None \notin Nat
                       /\ generation \in Generations /\ generation \in Nat
                       /\ (Busy => creating \in Creating)
BY KeyExchangeAssumption DEF PublisherTypeOK, Generations, Busy, Idle

LEMMA QueuedIsAdded ==
    ASSUME PublisherTypeOK, NEW g \in Generations, NEW k \in Nat, next' = Queued(g, k)
    PROVE  /\ next' \in [Generations -> Seq(Nat)]
           /\ \A h \in Generations, n \in Nat : Waits(h, n)' => Waits(h, n) \/ (h = g /\ n = k)
<1> DEFINE s == <<k>> \o next[g]
           m == IF Len(next[g]) = 0 THEN 1 ELSE 2
<1>1. next[g] \in Seq(Nat) /\ next \in [Generations -> Seq(Nat)]
  BY DEF PublisherTypeOK
<1>2. /\ s \in Seq(Nat) /\ Len(s) = Len(next[g]) + 1 /\ m <= Len(s) /\ m \in {1, 2}
      /\ s[1] = k /\ Len(next[g]) \in Nat
  BY <1>1
<1>3. m = 2 => s[2] = next[g][1] /\ 1 \in 1 .. Len(next[g])
  BY <1>1
<1>4. SubSeq(s, 1, m) \in Seq(Nat) /\ Len(SubSeq(s, 1, m)) = m
      /\ \A i \in 1 .. m : SubSeq(s, 1, m)[i] = s[i]
  <2> HIDE DEF s, m
  <2>1. QED
    BY <1>2
<1>5. next' = [next EXCEPT ![g] = SubSeq(s, 1, m)]
  BY DEF Queued
<1> HIDE DEF s, m
<1>6. next' \in [Generations -> Seq(Nat)]
  BY <1>1, <1>4, <1>5
<1>7. ASSUME NEW h \in Generations, NEW n \in Nat, Waits(h, n)'
      PROVE  Waits(h, n) \/ (h = g /\ n = k)
  <2>1. CASE h # g
    BY <1>1, <1>5, <1>7, <2>1 DEF Waits
  <2>2. CASE h = g
    <3>1. next'[g] = SubSeq(s, 1, m)
      BY <1>1, <1>5
    <3>2. PICK i \in 1 .. m : s[i] = n
      BY <1>4, <1>7, <2>2, <3>1 DEF Waits
    <3>3. i = 1 \/ (i = 2 /\ m = 2)
      BY <1>2, <3>2
    <3>4. QED
      BY <1>2, <1>3, <2>2, <3>2, <3>3 DEF Waits
  <2>3. QED
    BY <2>1, <2>2
<1>8. QED
  BY <1>6, <1>7

LEMMA PoppedWaited ==
    ASSUME PublisherTypeOK, NEW g \in Generations
    PROVE  /\ Popped(g) \in Nat \cup {None}
           /\ Popped(g) # None => Waits(g, Popped(g))
           /\ next[g] # <<>> => Popped(g) # None
           /\ next[g] # <<>> => /\ Front(next[g]) \in Seq(Nat)
                                /\ Len(Front(next[g])) <= Len(next[g])
                                /\ Len(Front(next[g])) \in Nat
                                /\ \A i \in 1 .. Len(Front(next[g])) : Front(next[g])[i] = next[g][i]
<1>1. next[g] \in Seq(Nat) /\ None \notin Nat
  BY KeyExchangeAssumption DEF PublisherTypeOK
<1>2. CASE next[g] = <<>>
  BY <1>2 DEF Popped
<1>3. CASE next[g] # <<>>
  <2>1. Len(next[g]) \in 1 .. Len(next[g]) /\ next[g][Len(next[g])] \in Nat
    BY <1>1, <1>3
  <2>2. Popped(g) = next[g][Len(next[g])]
    BY <1>3 DEF Popped, Last
  <2>3. /\ Front(next[g]) \in Seq(Nat) /\ Len(Front(next[g])) = Len(next[g]) - 1
        /\ \A i \in 1 .. Len(next[g]) - 1 : Front(next[g])[i] = next[g][i]
    BY <1>1, <1>3 DEF Front
  <2>4. Len(next[g]) \in Nat /\ Len(next[g]) - 1 \in Nat /\ Len(next[g]) - 1 <= Len(next[g])
    BY <1>1, <2>1
  <2>5. Waits(g, Popped(g)) /\ Popped(g) \in Nat
    BY <2>1, <2>2 DEF Waits
  <2> DEFINE f == Front(next[g])
             n == Len(next[g])
  <2>6. /\ f \in Seq(Nat) /\ Len(f) <= n /\ Len(f) \in Nat
        /\ \A i \in 1 .. Len(f) : f[i] = next[g][i]
    <3> HIDE DEF f, n
    <3>1. Len(f) = n - 1 /\ f \in Seq(Nat) /\ \A i \in 1 .. n - 1 : f[i] = next[g][i]
      BY <2>3 DEF f, n
    <3>2. n - 1 \in Nat /\ n - 1 <= n
      BY <2>4 DEF n
    <3>3. QED
      BY <3>1, <3>2
  <2>7. QED
    BY <1>1, <2>5, <2>6
<1>4. QED
  BY <1>2, <1>3

\* Who published a message.
LEMMA LogIsTyped ==
    ASSUME PublisherTypeOK
    PROVE  /\ Len(log) \in Nat
           /\ \A i \in 1 .. Len(log) : log[i] \in Logged /\ log[i].by \in Nat /\ log[i].by \in Generations
           /\ Active \in Nat /\ generation \in Nat
<1>1. log \in Seq(Logged)
  BY DEF PublisherTypeOK
<1>2. \A i \in 1 .. Len(log) : log[i] \in Logged
  BY <1>1
<1>3. \A i \in 1 .. Len(log) : log[i].by \in Generations
  BY <1>2 DEF Logged
<1>4. Generations \subseteq Nat
  BY KeyExchangeAssumption DEF Generations
<1>5. Active \in Nat
  BY <1>4, GenerationsAreNumbers DEF Active, Creating
<1>6. Len(log) \in Nat /\ generation \in Nat
  BY <1>1, GenerationsAreNumbers
<1>7. QED
  BY <1>2, <1>3, <1>4, <1>5, <1>6

-----------------------------------------------------------------------------
(* What keeps one part of the invariant.                                    *)

\* No key gets about, and none is added.
LEMMA FreshKeysStay ==
    ASSUME IInv, UNCHANGED used, storing' \subseteq storing,
           \A k \in Nat : Mentioned(k)' => Mentioned(k)
    PROVE  Generated' /\ RekeysAreFresh'
<1>1. \A t \in storing : t.key \in Nat
  BY DEF IInv, PublisherTypeOK
<1>2. Generated'
  BY <1>1 DEF IInv, Fresh, Generated
<1>3. RekeysAreFresh'
  <2> SUFFICES ASSUME NEW t \in storing', t.for = "rekey"
               PROVE  ~ Mentioned(t.key)' /\ \A u \in storing' : u.key = t.key => u = t
    BY DEF RekeysAreFresh
  <2>1. t \in storing /\ ~ Mentioned(t.key) /\ \A u \in storing : u.key = t.key => u = t
    BY DEF IInv, Fresh, RekeysAreFresh
  <2>2. QED
    BY <1>1, <2>1
<1>4. QED
  BY <1>2, <1>3

\* A key is generated and stored; one for rekey() does not get about yet.
LEMMA NewKeyIsFresh ==
    ASSUME IInv, used' = NewKey, NEW g \in Generations, NEW for \in {"next", "use", "rekey"},
           storing' = storing \cup {[generation |-> g, key |-> NewKey, for |-> for]},
           \A k \in Nat : Mentioned(k)' => Mentioned(k) \/ (k = NewKey /\ for # "rekey")
    PROVE  Generated' /\ RekeysAreFresh'
<1> DEFINE new == [generation |-> g, key |-> NewKey, for |-> for]
<1>1. /\ \A t \in storing : t.key \in Nat /\ t.key <= used
      /\ used \in Nat /\ NewKey = used + 1 /\ NewKey \in Nat
      /\ \A k \in Nat : Mentioned(k) => k <= used
  BY DEF IInv, PublisherTypeOK, Fresh, Generated, NewKey
<1>2. new.key = NewKey /\ new.for = for /\ ~ Mentioned(NewKey)
  BY <1>1
<1>3. \A t \in storing' : t = new \/ t \in storing
  OBVIOUS
<1> HIDE DEF new
<1>4. Generated'
  <2>1. \A k \in Nat : Mentioned(k)' => k <= used'
    BY <1>1
  <2>2. \A t \in storing' : t.key <= used'
    BY <1>1, <1>2, <1>3
  <2>3. QED
    BY <2>1, <2>2 DEF Generated
<1>5. RekeysAreFresh'
  <2> SUFFICES ASSUME NEW t \in storing', t.for = "rekey"
               PROVE  ~ Mentioned(t.key)' /\ \A u \in storing' : u.key = t.key => u = t
    BY DEF RekeysAreFresh
  <2>1. CASE t = new
    <3>1. ~ Mentioned(t.key)'
      BY <1>1, <1>2, <2>1
    <3>2. \A u \in storing : u.key # t.key
      BY <1>1, <1>2, <2>1
    <3>3. QED
      BY <1>3, <2>1, <3>1, <3>2
  <2>2. CASE t \in storing
    <3>1. /\ ~ Mentioned(t.key) /\ \A u \in storing : u.key = t.key => u = t
          /\ t.key # NewKey /\ t.key \in Nat
      BY <1>1, <2>2 DEF IInv, Fresh, RekeysAreFresh
    <3>2. QED
      BY <1>2, <1>3, <3>1
  <2>3. QED
    BY <1>3, <2>1, <2>2
<1>6. QED
  BY <1>4, <1>5

\* The message is not yet at its key, nothing is published, and no key becomes current.
LEMMA FollowsStay ==
    ASSUME IInv, UNCHANGED <<log, cut, generation, current>>,
           creating.step # "get", creating'.step # "get", UNCHANGED Active
    PROVE  Follows'
<1>1. \A i \in 1 .. Len(log) : Latest(i)' <=> Latest(i)
  BY DEF Latest
<1>2. FollowsOn'
  BY <1>1 DEF FollowsOn, IInv, Follows
<1>3. InTurn' /\ HasCurrent' /\ GetFollowsOn' /\ KeysAreAnnounced'
  BY DEF IInv, Follows, InTurn, HasCurrent, GetFollowsOn, KeysAreAnnounced
<1>4. QED
  BY <1>2, <1>3 DEF Follows

\* The queues of keys and what followers know stay; the message is at another step.
LEMMA ApartStays ==
    ASSUME IInv, UNCHANGED <<current, next, generation, old>>,
           creating'.step # "get" \/ UNCHANGED creating,
           creating'.step \in {"sub", "use", "rotate"} =>
               \/ creating.step \in {"sub", "use", "rotate"}
                     /\ creating'.generation = creating.generation /\ creating'.old = creating.old
               \/ creating'.generation = generation /\ creating'.old = old
    PROVE  OldIsNotInUse' /\ OldIsNotTaken' /\ KeysAreApart'
<1>1. \A g \in Generations, k \in Nat : /\ Waits(g, k)' <=> Waits(g, k)
                                        /\ Holds(g, k)' <=> Holds(g, k)
  BY DEF Waits, Holds
<1>2. KeysAreApart'
  BY <1>1 DEF KeysAreApart, IInv, Fresh
<1>3. OldIsNotTaken'
  BY DEF OldIsNotTaken, Holds, Waits, IInv, Fresh
<1>4. OldIsNotInUse'
  BY DEF OldIsNotInUse, Holds, Waits, IInv, Fresh
<1>5. QED
  BY <1>2, <1>3, <1>4

-----------------------------------------------------------------------------
(* One lemma per kind of step: what the publisher does with the message and *)
(* its keys, whatever becomes of the database and the subscription.         *)

\* Neither a message nor a key is touched.
LEMMA QuietKeeps ==
    ASSUME IInv, PublisherTypeOK', KeyedIsStored',
           UNCHANGED <<creating, log, current, next, generation, cut, old, used>>,
           storing' \subseteq storing
    PROVE  IInv'
<1>1. \A k \in Nat : Mentioned(k)' => Mentioned(k)
  BY DEF Mentioned, Holds, Waits, Busy
<1>2. Generated' /\ RekeysAreFresh'
  BY <1>1, FreshKeysStay
<1>3. OldIsNotInUse' /\ OldIsNotTaken' /\ KeysAreApart'
  <2>1. UNCHANGED <<current, next, generation, old>> /\ UNCHANGED creating
    OBVIOUS
  <2>2. QED
    BY <2>1, ApartStays
<1>4. InTurn' /\ HasCurrent' /\ GetFollowsOn' /\ KeysAreAnnounced' /\ FollowsOn'
  BY DEF IInv, Follows, InTurn, HasCurrent, GetFollowsOn, KeysAreAnnounced, FollowsOn, Latest,
         Active, Busy
<1>5. EncryptedOnceKeyed' /\ OneUse'
  BY DEF IInv, Set, EncryptedOnceKeyed, OneUse
<1>6. QED
  BY <1>2, <1>3, <1>4, <1>5 DEF IInv, Fresh, Follows, Set

\* A message fails to be encrypted.
LEMMA FailureKeeps ==
    ASSUME IInv, PublisherTypeOK', KeyedIsStored', Fails,
           UNCHANGED <<log, current, next, generation, old, used>>,
           storing' \subseteq storing, \A t \in storing' : t.for # "use"
    PROVE  IInv'
<1>1. creating'.step = "idle" /\ ~ Busy' /\ Active' = generation
  BY DEF Fails, Idle, Busy, Active
<1>2. \A k \in Nat : Mentioned(k)' => Mentioned(k)
  BY <1>1 DEF Mentioned, Holds, Waits
<1>3. Generated' /\ RekeysAreFresh'
  BY <1>2, FreshKeysStay
<1>4. OldIsNotInUse' /\ OldIsNotTaken' /\ KeysAreApart'
  <2>1. creating'.step \notin {"get", "sub", "use", "rotate"}
    BY <1>1
  <2>2. QED
    BY <2>1, ApartStays
<1>5. FollowsOn'
  <2> SUFFICES ASSUME NEW i \in 1 .. Len(log), Latest(i)'
               PROVE  cut' \/ current[generation] \in {log[i].key, log[i].next}
    BY <1>1 DEF FollowsOn
  <2>1. log[i].by = generation /\ log[i].by <= Active /\ Active <= generation /\ Active \in Generations
    BY <1>1, GenerationsAreNumbers DEF Latest, IInv, Follows, InTurn, Active, Creating
  <2>2. Active = generation /\ Latest(i)
    BY <2>1, <1>1, GenerationsAreNumbers DEF Latest, Generations, IInv
  <2>3. CASE creating.step # "get"
    BY <2>2, <2>3 DEF IInv, Follows, FollowsOn, Fails
  <2>4. CASE creating.step = "get" /\ ~ cut'
    <3>1. ~ cut /\ ~ creating.cut /\ creating.next = None /\ creating.generation = generation
      BY <2>2, <2>4 DEF Fails, Active, Busy
    <3>2. /\ creating.key \in {log[i].key, log[i].next}
          /\ current[generation] \in {creating.key, creating.next} /\ current[generation] # None
      BY <2>2, <2>4, <3>1 DEF IInv, Follows, FollowsOn, GetFollowsOn, HasCurrent
    <3>3. QED
      BY <3>1, <3>2
  <2>5. QED
    BY <2>3, <2>4
<1>6. InTurn'
  <2>1. \A i \in 1 .. Len(log) : log[i].by <= generation
    <3> SUFFICES ASSUME NEW i \in 1 .. Len(log) PROVE log[i].by <= generation
      OBVIOUS
    <3>1. log[i].by <= Active /\ Active <= generation
      BY DEF IInv, Follows, InTurn
    <3>2. log[i].by \in Nat /\ Active \in Nat /\ generation \in Nat
      BY LogIsTyped DEF IInv
    <3>3. QED
      BY <3>1, <3>2
  <2>2. QED
    BY <1>1, <2>1, GenerationsAreNumbers DEF InTurn, IInv
<1>7. HasCurrent' /\ GetFollowsOn' /\ KeysAreAnnounced'
  BY <1>1 DEF IInv, Follows, HasCurrent, GetFollowsOn, KeysAreAnnounced
<1>8. EncryptedOnceKeyed' /\ OneUse'
  BY DEF IInv, Set, EncryptedOnceKeyed, OneUse
<1>9. QED
  BY <1>3, <1>4, <1>5, <1>6, <1>7, <1>8 DEF IInv, Fresh, Follows, Set

\* A message gets on.
LEMMA ReachedKeeps ==
    ASSUME IInv, PublisherTypeOK', KeyedIsStored', NEW step \in {"use", "rotate"},
           creating' = Reaches(step), creating.step \in {"sub", "use", "rotate"},
           UNCHANGED <<log, current, cut, generation, old>>, OneUse',
           Generated', RekeysAreFresh', OldIsNotInUse', KeysAreApart'
    PROVE  IInv'
<1>1. /\ creating'.step = step /\ creating'.generation = creating.generation
      /\ creating'.step # "get" /\ creating.step # "get" /\ Busy /\ Busy'
  BY DEF Reaches, Busy
<1>2. UNCHANGED Active
  BY <1>1 DEF Active
<1>3. Follows'
  BY <1>1, <1>2, FollowsStay
<1>4. OldIsNotTaken' /\ EncryptedOnceKeyed'
  BY <1>1 DEF OldIsNotTaken, IInv, Set, EncryptedOnceKeyed
<1>5. QED
  BY <1>3, <1>4 DEF IInv, Fresh, Set

\* A message wants a key, or wants to know whether there are any.
LEMMA WantedKeeps ==
    ASSUME IInv, PublisherTypeOK', KeyedIsStored', NEW step \in {"size", "sub"}, NEW told,
           creating' = Wants(step, told), creating.step \in {"idle", "size"},
           UNCHANGED <<log, current, next, cut, generation, old, used, storing>>
    PROVE  IInv'
<1>1. /\ creating'.step = step /\ creating'.generation = generation /\ creating'.old = old
      /\ creating'.key = None /\ creating'.next = None /\ Busy' /\ Active' = generation
  BY DEF Wants, Busy, Active
<1>2. \A k \in Nat : Mentioned(k)' => Mentioned(k)
  BY <1>1, GenerationsAreNumbers DEF Mentioned, Holds, Waits, IInv
<1>3. Generated' /\ RekeysAreFresh'
  <2>1. storing' \subseteq storing
    OBVIOUS
  <2>2. QED
    BY <1>2, <2>1, FreshKeysStay
<1>4. OldIsNotInUse' /\ OldIsNotTaken' /\ KeysAreApart'
  BY <1>1, ApartStays
<1>5. Active <= generation /\ Active \in Nat /\ generation \in Nat
  BY GenerationsAreNumbers DEF IInv, Follows, InTurn, Active, Creating, Generations
<1>6. \A i \in 1 .. Len(log) : log[i].by <= Active /\ log[i].by \in Nat
  BY LogIsTyped DEF IInv, Follows, InTurn
<1>7. InTurn'
  BY <1>1, <1>5, <1>6 DEF InTurn
<1>8. FollowsOn'
  <2> SUFFICES ASSUME NEW i \in 1 .. Len(log), Latest(i)'
               PROVE  cut \/ current[generation] \in {log[i].key, log[i].next}
    BY <1>1 DEF FollowsOn
  <2>1. log[i].by = generation
    BY <1>1 DEF Latest
  <2>2. Active = generation
    BY <1>5, <1>6, <2>1
  <2>3. Latest(i)
    BY <1>1, <2>2 DEF Latest
  <2>4. QED
    BY <2>2, <2>3 DEF IInv, Follows, FollowsOn
<1>9. HasCurrent' /\ GetFollowsOn' /\ KeysAreAnnounced' /\ EncryptedOnceKeyed'
  BY <1>1 DEF IInv, Follows, Set, HasCurrent, GetFollowsOn, KeysAreAnnounced, EncryptedOnceKeyed
<1>10. OneUse'
  BY DEF IInv, OneUse
<1>11. QED
  BY <1>3, <1>4, <1>7, <1>8, <1>9, <1>10 DEF IInv, Fresh, Follows, Set

\* A message is published.
LEMMA PublishKeeps ==
    ASSUME IInv, PublisherTypeOK', KeyedIsStored', NEW m \in Logged, Publish(m),
           \/ creating.step = "size" /\ m = Plain /\ ~ m.keyed
           \/ creating.step = "get" /\ m = Encrypted,
           UNCHANGED <<current, next, generation, cut, used, storing>>
    PROVE  IInv'
<1> DEFINE n == Len(log)
<1>1. /\ n \in Nat /\ Len(log') = n + 1 /\ log'[n + 1] = m
      /\ \A i \in 1 .. n : log'[i] = log[i] /\ i \in 1 .. n + 1 /\ i # n + 1
      /\ \A i \in 1 .. n + 1 : i \in 1 .. n \/ i = n + 1
      /\ n + 1 \in 1 .. n + 1
  <2>1. log \in Seq(Logged) /\ log' = Append(log, m)
    BY DEF IInv, PublisherTypeOK, Publish
  <2>2. n \in Nat /\ Len(log') = n + 1 /\ log'[n + 1] = m /\ \A i \in 1 .. n : log'[i] = log[i]
    BY <2>1
  <2>3. QED
    BY <2>2
<1> HIDE DEF n
<1>2. /\ creating'.step = "idle" /\ ~ Busy' /\ Active' = generation /\ Busy
      /\ None \notin Nat /\ old \subseteq Nat /\ generation \in Generations /\ generation \in Nat
      /\ creating \in Creating /\ Active = creating.generation
      /\ Active \in Nat /\ Active <= generation
      /\ \A i \in 1 .. n : log[i].by \in Nat /\ log[i].by \in Generations /\ log[i].by <= Active
  <2>1. creating'.step = "idle" /\ ~ Busy' /\ Active' = generation /\ Busy /\ Active = creating.generation
    BY DEF Publish, Idle, Busy, Active
  <2>2. None \notin Nat /\ old \subseteq Nat /\ generation \in Generations /\ creating \in Creating
    BY <2>1, GenerationsAreNumbers DEF IInv, PublisherTypeOK
  <2>3. /\ Active \in Nat /\ generation \in Nat
        /\ \A i \in 1 .. n : log[i].by \in Nat /\ log[i].by \in Generations
    BY LogIsTyped DEF IInv, n
  <2>4. Active <= generation /\ \A i \in 1 .. n : log[i].by <= Active
    BY DEF IInv, Follows, InTurn, n
  <2>5. QED
    BY <2>1, <2>2, <2>3, <2>4
<1>3. \/ /\ m.key = None /\ m.next = None /\ m.by = generation /\ ~ m.keyed /\ ~ m.cut
         /\ creating.step = "size"
      \/ /\ m.key = creating.key /\ m.next = creating.next /\ m.by = creating.generation
         /\ m.cut = creating.cut /\ m.keyed = creating.keyed /\ creating.step = "get"
         /\ m.key # None
  BY DEF Plain, Encrypted, IInv, Follows, HasCurrent
<1>4. old' \subseteq old \cup ({m.next} \ {None})
  BY DEF Publish, Learns
<1>5. \A k \in Nat : Mentioned(k)' => Mentioned(k)
  <2> SUFFICES ASSUME NEW k \in Nat, Mentioned(k)' PROVE Mentioned(k)
    OBVIOUS
  <2>1. k = m.key \/ k = m.next => Mentioned(k)
    BY <1>2, <1>3 DEF Mentioned
  <2>2. ASSUME \E i \in 1 .. Len(log') : k \in {log'[i].key, log'[i].next} PROVE Mentioned(k)
    <3>1. PICK i \in 1 .. n + 1 : k \in {log'[i].key, log'[i].next}
      BY <1>1, <2>2
    <3>2. CASE i = n + 1
      BY <1>1, <2>1, <3>1, <3>2
    <3>3. CASE i \in 1 .. n
      BY <1>1, <3>1, <3>3 DEF Mentioned, n
    <3>4. QED
      BY <1>1, <3>2, <3>3
  <2>3. ASSUME k \in old' PROVE Mentioned(k)
    BY <1>4, <2>1, <2>3 DEF Mentioned
  <2>4. ASSUME \E g \in Generations : Holds(g, k)' PROVE Mentioned(k)
    BY <2>4 DEF Mentioned, Holds, Waits
  <2>5. QED
    BY <1>2, <2>2, <2>3, <2>4 DEF Mentioned
<1>6. Generated' /\ RekeysAreFresh'
  <2>1. storing' \subseteq storing
    OBVIOUS
  <2>2. QED
    BY <1>5, <2>1, FreshKeysStay
<1>7. \A g \in Generations, k \in Nat : /\ Waits(g, k)' <=> Waits(g, k)
                                        /\ Holds(g, k)' <=> Holds(g, k)
  BY DEF Waits, Holds
<1>8. OldIsNotInUse'
  <2> SUFFICES ASSUME NEW k \in Nat, Holds(generation, k), k \in old' PROVE FALSE
    BY <1>2, <1>7 DEF OldIsNotInUse
  <2>1. k \notin old
    BY DEF IInv, Fresh, OldIsNotInUse
  <2>2. k = m.next /\ k # None /\ m.key \in old
    BY <2>1 DEF Publish, Learns
  <2>3. creating.step = "get" /\ creating.key \in old /\ creating.next = k
    BY <1>2, <1>3, <2>2
  <2>4. QED
    BY <2>1, <2>2, <2>3 DEF IInv, Fresh, OldIsNotTaken
<1>9. OldIsNotTaken' /\ KeysAreApart'
  BY <1>2, <1>7 DEF OldIsNotTaken, KeysAreApart, IInv, Fresh
<1>10. InTurn'
  BY <1>1, <1>2, <1>3 DEF InTurn
<1>11. HasCurrent'
  <2> SUFFICES ASSUME NEW i \in 1 .. n + 1, log'[i].key # None PROVE current[log'[i].by] # None
    BY <1>1, <1>2 DEF HasCurrent
  <2>1. CASE i = n + 1
    BY <1>1, <1>3, <2>1 DEF IInv, Follows, HasCurrent
  <2>2. CASE i \in 1 .. n
    BY <1>1, <2>2 DEF IInv, Follows, HasCurrent, n
  <2>3. QED
    BY <1>1, <2>1, <2>2
<1>12. FollowsOn'
  <2> SUFFICES ASSUME NEW i \in 1 .. n + 1, Latest(i)'
               PROVE  cut \/ current[generation] \in {log'[i].key, log'[i].next}
    BY <1>1, <1>2 DEF FollowsOn
  <2>1. log'[i].key # None /\ log'[i].by = generation
        /\ \A k \in i + 1 .. n + 1 : log'[k].key = None
    BY <1>1, <1>2 DEF Latest
  <2>2. CASE i = n + 1
    BY <1>1, <1>3, <2>1, <2>2 DEF IInv, Follows, GetFollowsOn
  <2>3. CASE i \in 1 .. n
    <3>1. n + 1 \in i + 1 .. n + 1 /\ \A k \in i + 1 .. n : k \in i + 1 .. n + 1 /\ k \in 1 .. n
      BY <1>1, <2>3
    <3>2. m.key = None /\ creating.step = "size"
      BY <1>1, <1>3, <2>1, <3>1
    <3>3. log[i] = log'[i] /\ log[i].by <= Active
      BY <1>1, <1>2, <2>3
    <3>4. Active = generation
      BY <1>2, <2>1, <2>3, <3>3
    <3>5. \A k \in i + 1 .. n : log[k].key = None
      BY <1>1, <2>1, <3>1
    <3>6. Latest(i)
      BY <2>1, <3>3, <3>4, <3>5 DEF Latest, n
    <3>7. QED
      BY <2>3, <3>2, <3>3, <3>4, <3>6 DEF IInv, Follows, FollowsOn, n
  <2>4. QED
    BY <1>1, <2>2, <2>3
<1>13. GetFollowsOn'
  BY <1>2 DEF GetFollowsOn
<1>14. KeysAreAnnounced'
  <2> SUFFICES ASSUME NEW i \in 1 .. n + 1, NEW j \in 1 .. n + 1,
                      i < j, log'[i].key # None, log'[j].key # None, log'[i].by = log'[j].by,
                      \A k \in i + 1 .. j - 1 : log'[k].key = None
               PROVE  log'[j].key \in {log'[i].key, log'[i].next} \/ log'[j].cut
    <3>1. DOMAIN log' = 1 .. n + 1
      BY <1>1 DEF PublisherTypeOK
    <3>2. QED
      BY <3>1 DEF KeysAreAnnounced
  <2>1. i \in 1 .. n /\ \A k \in i + 1 .. j - 1 : k \in 1 .. n
    BY <1>1
  <2>2. CASE j = n + 1
    <3>1. m.key # None /\ m.by = creating.generation /\ log[i].by = creating.generation
      BY <1>1, <1>2, <1>3, <2>1, <2>2
    <3>2. \A k \in i + 1 .. n : k \in i + 1 .. j - 1
      BY <1>1, <2>2
    <3>3. \A k \in i + 1 .. n : log[k].key = None
      BY <1>1, <2>1, <3>2
    <3>4. Latest(i)
      BY <1>1, <1>2, <2>1, <3>1, <3>3 DEF Latest, n
    <3>5. creating.cut \/ creating.key \in {log[i].key, log[i].next}
      BY <1>3, <2>1, <3>1, <3>4 DEF IInv, Follows, FollowsOn, n
    <3>6. QED
      BY <1>1, <1>3, <2>1, <2>2, <3>1, <3>5
  <2>3. CASE j \in 1 .. n
    <3>1. \A k \in i + 1 .. j - 1 : log[k].key = None
      BY <1>1, <2>1
    <3>2. DOMAIN log = 1 .. n
      BY DEF IInv, PublisherTypeOK, n
    <3>3. log'[i] = log[i] /\ log'[j] = log[j]
      BY <1>1, <2>1, <2>3
    <3>4. QED
      BY <2>1, <2>3, <3>1, <3>2, <3>3 DEF IInv, Follows, KeysAreAnnounced
  <2>4. QED
    BY <1>1, <2>2, <2>3
<1>15. EncryptedOnceKeyed'
  <2> SUFFICES ASSUME NEW i \in 1 .. n + 1, log'[i].keyed PROVE log'[i].key # None
    <3>1. DOMAIN log' = 1 .. n + 1
      BY <1>1 DEF PublisherTypeOK
    <3>2. QED
      BY <3>1 DEF EncryptedOnceKeyed
  <2>1. CASE i = n + 1
    BY <1>1, <1>3, <2>1
  <2>2. CASE i \in 1 .. n
    <3>1. DOMAIN log = 1 .. n
      BY DEF IInv, PublisherTypeOK, n
    <3>2. QED
      BY <1>1, <2>2, <3>1 DEF IInv, Set, EncryptedOnceKeyed
  <2>3. QED
    BY <1>1, <2>1, <2>2
<1>16. OneUse'
  BY <1>3 DEF IInv, OneUse
<1>17. QED
  BY <1>6, <1>8, <1>9, <1>10, <1>11, <1>12, <1>13, <1>14, <1>15, <1>16 DEF IInv, Fresh, Follows, Set

\* A key that is generated waits in line from now on.
LEMMA QueuedKeeps ==
    ASSUME IInv, NEW g \in Generations, next' = Queued(g, NewKey), used' = NewKey,
           NEW for \in {"next", "use"},
           storing' = storing \cup {[generation |-> g, key |-> NewKey, for |-> for]},
           UNCHANGED <<log, current, generation, old>>,
           \/ UNCHANGED creating
           \/ creating' = Reaches("rotate") /\ creating.step = "use"
    PROVE  Generated' /\ RekeysAreFresh' /\ OldIsNotInUse' /\ OldIsNotTaken' /\ KeysAreApart'
<1>1. /\ used \in Nat /\ NewKey \in Nat /\ None \notin Nat /\ NewKey # None
      /\ generation \in Generations /\ (Busy => creating \in Creating)
  BY GenerationsAreNumbers DEF IInv, PublisherTypeOK, NewKey
<1>2. ~ Mentioned(NewKey)
  BY <1>1 DEF IInv, Fresh, Generated, NewKey
<1>3. \A h \in Generations, k \in Nat : Waits(h, k)' => Waits(h, k) \/ (h = g /\ k = NewKey)
  BY <1>1, QueuedIsAdded DEF IInv
<1>4. \A h \in Generations, k \in Nat : Holds(h, k)' => Holds(h, k) \/ (h = g /\ k = NewKey)
  BY <1>3 DEF Holds
<1>5. /\ Busy' <=> Busy
      /\ creating'.step = creating.step \/ (creating'.step = "rotate" /\ creating.step = "use")
      /\ Busy => /\ creating'.key = creating.key /\ creating'.next = creating.next
                 /\ creating'.old = creating.old /\ creating'.generation = creating.generation
  BY DEF Reaches, Busy
<1>6. \A k \in Nat : Mentioned(k)' => Mentioned(k) \/ k = NewKey
  BY <1>4, <1>5 DEF Mentioned
<1>7. Generated' /\ RekeysAreFresh'
  <2>1. for \in {"next", "use", "rekey"} /\ \A k \in Nat : Mentioned(k)' => Mentioned(k) \/ (k = NewKey /\ for # "rekey")
    BY <1>6
  <2>2. QED
    BY <2>1, NewKeyIsFresh
<1>8. OldIsNotInUse'
  <2> SUFFICES ASSUME NEW k \in Nat
               PROVE  /\ Holds(generation, k)' => k \notin old
                      /\ creating'.step \in {"sub", "use", "rotate"} /\ Holds(creating.generation, k)'
                             => k \notin creating'.old
    BY <1>5 DEF OldIsNotInUse, Busy
  <2>1. ASSUME Holds(generation, k)' PROVE k \notin old
    BY <1>1, <1>2, <1>4, <2>1 DEF IInv, Fresh, OldIsNotInUse, Mentioned
  <2>2. ASSUME creating'.step \in {"sub", "use", "rotate"}, Holds(creating.generation, k)'
        PROVE  k \notin creating'.old
    <3>1. Busy /\ creating.step \in {"sub", "use", "rotate"} /\ creating'.old = creating.old
          /\ creating.generation \in Generations /\ creating'.generation = creating.generation
      BY <1>1, <1>5, <2>2 DEF Busy, Creating
    <3>2. Holds(creating.generation, k) \/ k = NewKey
      BY <1>4, <2>2, <3>1
    <3>3. QED
      BY <1>2, <3>1, <3>2 DEF IInv, Fresh, OldIsNotInUse, Mentioned
  <2>3. QED
    BY <2>1, <2>2
<1>9. OldIsNotTaken'
  <2> SUFFICES ASSUME creating'.step = "get" PROVE OldIsNotTaken'
    BY DEF OldIsNotTaken
  <2>1. creating.step = "get" /\ UNCHANGED creating /\ Busy /\ creating.next \in Nat \cup {None}
    BY <1>1, <1>5 DEF Reaches, Busy, Creating
  <2>2. creating.next # NewKey
    BY <1>2, <2>1 DEF Mentioned
  <2>3. Holds(generation, creating.next)' /\ creating.next \in Nat => Holds(generation, creating.next)
    BY <1>1, <1>4, <2>1, <2>2
  <2>4. QED
    BY <2>1, <2>3 DEF IInv, Fresh, OldIsNotTaken
<1>10. KeysAreApart'
  <2> SUFFICES ASSUME NEW h \in Generations, NEW i \in Generations, NEW k \in Nat, h # i, Waits(h, k)'
               PROVE  ~ Holds(i, k)'
    BY DEF KeysAreApart
  <2>1. CASE k = NewKey
    <3>1. h = g /\ ~ Holds(i, k)
      BY <1>2, <1>3, <2>1 DEF Mentioned, Holds
    <3>2. QED
      BY <1>4, <3>1
  <2>2. CASE k # NewKey
    BY <1>3, <1>4, <2>2 DEF IInv, Fresh, KeysAreApart
  <2>3. QED
    BY <2>1, <2>2
<1>11. QED
  BY <1>7, <1>8, <1>9, <1>10

LEMMA SetNextGroupKeyKeeps == ASSUME IInv, PublisherTypeOK', SetNextGroupKey PROVE IInv'
<1>1. Fresh'
  <2>1. /\ next' = Queued(generation, NewKey) /\ used' = NewKey /\ generation \in Generations
        /\ storing' = storing \cup {[generation |-> generation, key |-> NewKey, for |-> "next"]}
        /\ UNCHANGED <<log, current, generation, old>> /\ UNCHANGED creating
    BY GenerationsAreNumbers DEF SetNextGroupKey, publisherVars, history, IInv
  <2>2. QED
    BY <2>1, QueuedKeeps DEF Fresh
<1>2. UNCHANGED <<log, creating, current, generation, cut, keyed, old, written, open>>
  BY DEF SetNextGroupKey, history, storeVars
<1>3. Follows'
  BY <1>2 DEF IInv, Follows, InTurn, HasCurrent, GetFollowsOn, KeysAreAnnounced, FollowsOn, Latest,
              Active, Busy
<1>4. Set'
  BY <1>2 DEF IInv, Set, KeyedIsStored, EncryptedOnceKeyed, Busy
<1>5. OneUse'
  BY <1>2 DEF SetNextGroupKey, OneUse, IInv
<1>6. QED
  BY <1>1, <1>3, <1>4, <1>5 DEF IInv

LEMMA RekeyKeeps == ASSUME IInv, PublisherTypeOK', Rekey PROVE IInv'
<1>1. /\ UNCHANGED <<log, creating, current, next, generation, cut, keyed, old, written, open>>
      /\ used' = NewKey /\ generation \in Generations
      /\ storing' = storing \cup {[generation |-> generation, key |-> NewKey, for |-> "rekey"]}
  BY GenerationsAreNumbers DEF Rekey, history, storeVars, IInv
<1>2. Generated' /\ RekeysAreFresh'
  <2>1. \A k \in Nat : Mentioned(k)' => Mentioned(k) \/ (k = NewKey /\ "rekey" # "rekey")
    BY <1>1 DEF Mentioned, Holds, Waits, Busy
  <2>2. QED
    BY <1>1, <2>1, NewKeyIsFresh
<1>3. OldIsNotInUse' /\ OldIsNotTaken' /\ KeysAreApart'
  BY <1>1, ApartStays
<1>4. Follows'
  BY <1>1 DEF IInv, Follows, InTurn, HasCurrent, GetFollowsOn, KeysAreAnnounced, FollowsOn, Latest,
              Active, Busy
<1>5. Set'
  BY <1>1 DEF IInv, Set, KeyedIsStored, EncryptedOnceKeyed, Busy
<1>6. OneUse'
  BY <1>1 DEF OneUse, IInv
<1>7. QED
  BY <1>2, <1>3, <1>4, <1>5, <1>6 DEF IInv, Fresh

LEMMA GenerateKeyKeeps == ASSUME IInv, PublisherTypeOK', GenerateKey PROVE IInv'
<1> DEFINE g == creating.generation
<1>1. /\ creating.step = "use" /\ Busy /\ creating \in Creating /\ g \in Generations
  BY GenerationsAreNumbers DEF GenerateKey, Busy, IInv, Creating
<1>2. /\ next' = Queued(g, NewKey) /\ used' = NewKey /\ creating' = Reaches("rotate")
      /\ storing' = storing \cup {[generation |-> g, key |-> NewKey, for |-> "use"]}
      /\ UNCHANGED <<log, current, generation, cut, keyed, old, written, open>>
  BY DEF GenerateKey, history, storeVars
<1>3. Generated' /\ RekeysAreFresh' /\ OldIsNotInUse' /\ OldIsNotTaken' /\ KeysAreApart'
  BY <1>1, <1>2, QueuedKeeps
<1>4. KeyedIsStored'
  BY <1>1, <1>2 DEF IInv, Set, KeyedIsStored, Reaches, Busy
<1>5. OneUse'
  <2>1. \A t \in storing : t.for # "use"
    BY <1>1 DEF IInv, OneUse
  <2>2. creating'.step = "rotate"
    BY <1>2 DEF Reaches
  <2>3. QED
    BY <1>2, <2>1, <2>2 DEF OneUse
<1>6. QED
  BY <1>1, <1>2, <1>3, <1>4, <1>5, ReachedKeeps

\* useGroupKey picks the current key, or the oldest that waits.
LEMMA PickKeyKeeps == ASSUME IInv, PublisherTypeOK', PickKey PROVE IInv'
<1> DEFINE g == creating.generation
<1>1. /\ creating.step = "use" /\ Busy /\ creating \in Creating /\ g \in Generations
      /\ Active = g /\ None \notin Nat /\ generation \in Generations /\ g \in Nat
      /\ current[g] \in Nat \cup {None} /\ current \in [Generations -> Nat \cup {None}]
      /\ next \in [Generations -> Seq(Nat)]
  BY GenerationsAreNumbers, LogIsTyped
     DEF PickKey, Busy, IInv, Creating, Active, PublisherTypeOK
<1>2. /\ Picked(g) # None
      /\ creating' = [step |-> "get", generation |-> g, key |-> Picked(g), next |-> Announced(g),
                      cut |-> cut, keyed |-> creating.keyed, old |-> creating.old]
      /\ current' = [current EXCEPT ![g] = IF Popped(g) = None THEN @ ELSE Popped(g)]
      /\ next' = [next EXCEPT ![g] = IF @ = <<>> THEN @ ELSE Front(@)]
      /\ cut' = FALSE
      /\ UNCHANGED <<log, generation, keyed, old, used, storing, written, open>>
  BY DEF PickKey, storeVars
<1>3. /\ creating'.step = "get" /\ creating'.generation = g /\ creating'.key = Picked(g)
      /\ creating'.next = Announced(g) /\ creating'.cut = cut /\ creating'.keyed = creating.keyed
      /\ creating'.old = creating.old /\ Busy' /\ Active' = g
  BY <1>2 DEF Busy, Active
<1>4. /\ Popped(g) \in Nat \cup {None}
      /\ Popped(g) # None => Waits(g, Popped(g))
      /\ next[g] # <<>> => Popped(g) # None
  BY <1>1, PoppedWaited DEF IInv
<1>5. /\ \A h \in Generations : h # g => current'[h] = current[h] /\ next'[h] = next[h]
      /\ current'[g] = IF Popped(g) = None THEN current[g] ELSE Popped(g)
  BY <1>1, <1>2
<1>6. \A h \in Generations, k \in Nat : Waits(h, k)' => Waits(h, k)
  <2> SUFFICES ASSUME NEW h \in Generations, NEW k \in Nat, Waits(h, k)' PROVE Waits(h, k)
    OBVIOUS
  <2>1. CASE h # g
    BY <1>5, <2>1 DEF Waits
  <2>2. CASE h = g /\ next[g] = <<>>
    <3>1. next'[g] = next[g]
      BY <1>1, <1>2, <2>2
    <3>2. QED
      BY <2>2, <3>1 DEF Waits
  <2>3. CASE h = g /\ next[g] # <<>>
    <3>1. next'[g] = Front(next[g])
      BY <1>1, <1>2, <2>3
    <3>2. /\ Len(Front(next[g])) <= Len(next[g]) /\ Len(Front(next[g])) \in Nat
          /\ \A i \in 1 .. Len(Front(next[g])) : Front(next[g])[i] = next[g][i]
      BY <1>1, <2>3, PoppedWaited DEF IInv
    <3>3. PICK i \in 1 .. Len(Front(next[g])) : Front(next[g])[i] = k
      BY <2>3, <3>1 DEF Waits
    <3>4. Len(next[g]) \in Nat
      BY <1>1
    <3>5. i \in 1 .. Len(next[g])
      BY <3>2, <3>4
    <3>6. QED
      BY <2>3, <3>2, <3>3, <3>5 DEF Waits
  <2>4. QED
    BY <2>1, <2>2, <2>3
<1>7. \A h \in Generations, k \in Nat : Holds(h, k)' => Holds(h, k)
  BY <1>4, <1>5, <1>6 DEF Holds
<1>8. /\ Picked(g) \in Nat /\ Holds(g, Picked(g))
      /\ Announced(g) = None \/ (Announced(g) \in Nat /\ Waits(g, Announced(g)))
  BY <1>1, <1>2, <1>4 DEF Picked, Announced, Holds
<1>9. \A k \in Nat : Mentioned(k)' => Mentioned(k)
  <2> SUFFICES ASSUME NEW k \in Nat, Mentioned(k)' PROVE Mentioned(k)
    OBVIOUS
  <2>1. CASE k \in {Picked(g), Announced(g)}
    BY <1>1, <1>8, <2>1 DEF Mentioned, Holds
  <2>2. CASE \E h \in Generations : Holds(h, k)'
    BY <1>7, <2>2 DEF Mentioned
  <2>3. CASE ~ (\E h \in Generations : Holds(h, k)') /\ k \notin {Picked(g), Announced(g)}
    <3>1. \/ \E i \in 1 .. Len(log) : k \in {log[i].key, log[i].next}
          \/ k \in old
          \/ k \in creating.old
      BY <1>2, <1>3, <2>3 DEF Mentioned
    <3>2. QED
      BY <1>1, <3>1 DEF Mentioned
  <2>4. QED
    BY <2>1, <2>2, <2>3
<1>10. Generated' /\ RekeysAreFresh'
  <2>1. storing' \subseteq storing /\ UNCHANGED used
    BY <1>2
  <2>2. QED
    BY <1>9, <2>1, FreshKeysStay
<1>11. OldIsNotInUse'
  BY <1>1, <1>2, <1>3, <1>7 DEF OldIsNotInUse, IInv, Fresh
<1>12. OldIsNotTaken'
  <2>1. Picked(g) \notin creating.old
    BY <1>1, <1>8 DEF OldIsNotInUse, IInv, Fresh
  <2>2. CASE g = generation
    BY <1>2, <1>3, <1>8, <2>1, <2>2 DEF OldIsNotInUse, OldIsNotTaken, IInv, Fresh
  <2>3. CASE g # generation
    <3>1. \A k \in Nat : Waits(g, k) => ~ Holds(generation, k)
      BY <1>1, <2>3 DEF KeysAreApart, IInv, Fresh
    <3>2. \A k \in Nat : Waits(g, k) => ~ Holds(generation, k)'
      BY <1>1, <1>2, <1>7, <3>1
    <3>3. QED
      BY <1>2, <1>3, <1>8, <2>1, <3>2 DEF OldIsNotTaken
  <2>4. QED
    BY <2>2, <2>3
<1>13. KeysAreApart'
  BY <1>6, <1>7 DEF KeysAreApart, IInv, Fresh
<1>14. \A i \in 1 .. Len(log) : Latest(i)' <=> Latest(i)
  BY <1>1, <1>2, <1>3 DEF Latest
<1>15. HasCurrent'
  <2>1. \A h \in Generations : current[h] # None => current'[h] # None
    BY <1>5
  <2>2. \A i \in 1 .. Len(log) : log[i].by \in Generations
    BY LogIsTyped DEF IInv
  <2>3. current'[g] # None
    BY <1>2, <1>5 DEF Picked
  <2>4. QED
    BY <1>2, <1>3, <2>1, <2>2, <2>3 DEF HasCurrent, IInv, Follows
<1>16. FollowsOn'
  <2> SUFFICES ASSUME NEW i \in 1 .. Len(log), Latest(i)
               PROVE  cut \/ Picked(g) \in {log[i].key, log[i].next}
    BY <1>2, <1>3, <1>14 DEF FollowsOn
  <2>1. cut \/ current[g] \in {log[i].key, log[i].next}
    BY <1>1 DEF IInv, Follows, FollowsOn
  <2>2. current[g] # None
    BY <1>1 DEF IInv, Follows, HasCurrent, Latest
  <2>3. QED
    BY <2>1, <2>2 DEF Picked
<1>17. GetFollowsOn'
  BY <1>3, <1>5 DEF GetFollowsOn, Picked, Announced
<1>18. InTurn' /\ KeysAreAnnounced'
  BY <1>1, <1>2, <1>3 DEF InTurn, KeysAreAnnounced, IInv, Follows
<1>19. Set'
  BY <1>1, <1>2, <1>3 DEF IInv, Set, KeyedIsStored, EncryptedOnceKeyed
<1>20. OneUse'
  BY <1>1, <1>2 DEF IInv, OneUse
<1>21. QED
  BY <1>10, <1>11, <1>12, <1>13, <1>15, <1>16, <1>17, <1>18, <1>19, <1>20 DEF IInv, Fresh, Follows

\* rekey() puts its key in the place of all the others.
LEMMA RekeyedKeeps ==
    ASSUME IInv, PublisherTypeOK', KeyedIsStored', NEW t \in storing, t.for = "rekey",
           Rekeyed(t.generation, t.key), UNCHANGED <<creating, log, generation, used>>,
           storing' = storing \ {t}, cut' = TRUE,
           IF t.generation # generation THEN UNCHANGED old ELSE old' = Followed \ {None}
    PROVE  IInv'
<1> DEFINE g == t.generation
           n == t.key
<1>1. /\ g \in Generations /\ n \in Nat /\ None \notin Nat /\ generation \in Generations
      /\ Busy => creating \in Creating
      /\ current \in [Generations -> Nat \cup {None}] /\ next \in [Generations -> Seq(Nat)]
  BY GenerationsAreNumbers DEF IInv, PublisherTypeOK
<1>2. /\ current' = [current EXCEPT ![g] = n] /\ next' = [next EXCEPT ![g] = <<>>]
  BY DEF Rekeyed
<1>3. ~ Mentioned(n) /\ \A u \in storing : u.key = n => u = t
  BY DEF IInv, Fresh, RekeysAreFresh
<1>4. /\ current'[g] = n /\ next'[g] = <<>>
      /\ \A h \in Generations : h # g => current'[h] = current[h] /\ next'[h] = next[h]
  BY <1>1, <1>2
<1>5. \A h \in Generations, k \in Nat : Waits(h, k)' => h # g /\ Waits(h, k)
  BY <1>4 DEF Waits
<1>6. \A h \in Generations, k \in Nat : Holds(h, k)' => (h = g /\ k = n) \/ (h # g /\ Holds(h, k))
  BY <1>4, <1>5 DEF Holds
<1>7. old' \subseteq Nat /\ \A k \in old' : Mentioned(k)
  <2>1. CASE old' = old
    BY <2>1 DEF IInv, PublisherTypeOK, Mentioned
  <2>2. CASE old' = Followed \ {None}
    <3>1. old' \subseteq Nat
      BY DEF PublisherTypeOK
    <3>2. DOMAIN log = 1 .. Len(log)
      BY DEF IInv, PublisherTypeOK
    <3>3. QED
      BY <2>2, <3>1, <3>2 DEF Followed, Mentioned, Busy
  <2>3. QED
    BY <2>1, <2>2
<1>8. \A k \in Nat : Mentioned(k)' => Mentioned(k) \/ k = n
  BY <1>6, <1>7 DEF Mentioned, Busy
<1>9. Generated'
  BY <1>1, <1>8 DEF IInv, Fresh, Generated
<1>10. RekeysAreFresh'
  <2> SUFFICES ASSUME NEW u \in storing', u.for = "rekey"
               PROVE  ~ Mentioned(u.key)' /\ \A v \in storing' : v.key = u.key => v = u
    BY DEF RekeysAreFresh
  <2>1. u \in storing /\ u # t /\ ~ Mentioned(u.key) /\ \A v \in storing : v.key = u.key => v = u
    BY DEF IInv, Fresh, RekeysAreFresh
  <2>2. u.key # n /\ u.key \in Nat
    BY <1>3, <2>1 DEF IInv, PublisherTypeOK
  <2>3. QED
    BY <1>8, <2>1, <2>2
<1>11. OldIsNotInUse'
  <2> SUFFICES ASSUME NEW k \in Nat
               PROVE  /\ Holds(generation, k)' => k \notin old'
                      /\ creating.step \in {"sub", "use", "rotate"} /\ Holds(creating.generation, k)'
                             => k \notin creating.old
    BY DEF OldIsNotInUse
  <2>1. ASSUME Holds(generation, k)' PROVE k \notin old'
    <3>1. CASE generation = g
      BY <1>1, <1>3, <1>6, <1>7, <2>1, <3>1
    <3>2. CASE generation # g
      BY <1>1, <1>6, <2>1, <3>2 DEF IInv, Fresh, OldIsNotInUse
    <3>3. QED
      BY <3>1, <3>2
  <2>2. ASSUME creating.step \in {"sub", "use", "rotate"}, Holds(creating.generation, k)'
        PROVE  k \notin creating.old
    <3>1. Busy /\ creating.generation \in Generations
      BY <1>1, <2>2 DEF Busy, Creating
    <3>2. k = n \/ Holds(creating.generation, k)
      BY <1>6, <2>2, <3>1
    <3>3. QED
      BY <1>3, <2>2, <3>1, <3>2 DEF IInv, Fresh, OldIsNotInUse, Mentioned
  <2>3. QED
    BY <2>1, <2>2
<1>12. OldIsNotTaken'
  <2> SUFFICES ASSUME creating.step = "get"
               PROVE  /\ creating.key \notin creating.old
                      /\ \/ creating.key \notin old'
                         \/ creating.next \in old' \cup {None}
                         \/ ~ Holds(generation, creating.next)'
    BY DEF OldIsNotTaken
  <2>1. creating.key \notin creating.old
    BY DEF IInv, Fresh, OldIsNotTaken
  <2>2. CASE generation = g
    <3>1. creating.next \in {creating.key, creating.next} /\ old' = Followed \ {None}
      BY <2>2
    <3>2. creating.next \in Followed
      BY <3>1 DEF Followed
    <3>3. creating.next \in old' \cup {None}
      BY <3>1, <3>2
    <3>4. QED
      BY <2>1, <3>3
  <2>3. CASE generation # g
    <3>1. creating.next \in Nat \cup {None}
      BY <1>1 DEF Busy, Creating
    <3>2. creating.next \in Nat /\ Holds(generation, creating.next)' => Holds(generation, creating.next)
      BY <1>1, <1>6, <2>3
    <3>3. QED
      BY <2>3, <3>1, <3>2 DEF IInv, Fresh, OldIsNotTaken
  <2>4. QED
    BY <2>1, <2>2, <2>3
<1>13. KeysAreApart'
  <2> SUFFICES ASSUME NEW h \in Generations, NEW i \in Generations, NEW k \in Nat, h # i, Waits(h, k)'
               PROVE  ~ Holds(i, k)'
    BY DEF KeysAreApart
  <2>1. Waits(h, k) /\ h # g /\ k # n
    BY <1>3, <1>5 DEF Mentioned, Holds
  <2>2. QED
    BY <1>6, <2>1 DEF IInv, Fresh, KeysAreApart
<1>14. HasCurrent'
  <2>1. \A h \in Generations : current[h] # None => current'[h] # None
    BY <1>1, <1>4
  <2>2. \A i \in 1 .. Len(log) : log[i].by \in Generations
    BY LogIsTyped DEF IInv
  <2>3. creating.step = "get" => creating.generation \in Generations
    BY <1>1 DEF Busy, Creating
  <2>4. QED
    BY <2>1, <2>2, <2>3 DEF HasCurrent, IInv, Follows
<1>15. FollowsOn'
  BY DEF FollowsOn, IInv, Follows, Latest, Active, Busy
<1>16. InTurn' /\ GetFollowsOn' /\ KeysAreAnnounced'
  BY DEF InTurn, Active, Busy, GetFollowsOn, KeysAreAnnounced, IInv, Follows
<1>17. EncryptedOnceKeyed' /\ OneUse'
  BY DEF EncryptedOnceKeyed, OneUse, IInv, Set
<1>18. QED
  BY <1>9, <1>10, <1>11, <1>12, <1>13, <1>14, <1>15, <1>16, <1>17 DEF IInv, Fresh, Follows, Set

LEMMA KeyStoredKeeps == ASSUME IInv, PublisherTypeOK', NEW t \in storing, KeyStored(t) PROVE IInv'
<1>1. /\ storing' = storing \ {t} /\ UNCHANGED <<log, generation, used>>
      /\ "publisher" \in open' /\ written'["publisher"] # {}
  BY DEF KeyStored, Writes, Opens, IInv, PublisherTypeOK
<1>2. keyed' \in BOOLEAN /\ (keyed => keyed')
  BY DEF KeyStored, PublisherTypeOK, IInv
<1>3. CASE t.for = "next"
  <2>1. UNCHANGED <<current, next, sub, creating, cut, old>>
    BY <1>3 DEF KeyStored
  <2>2. KeyedIsStored'
    BY <1>1, <1>2, <2>1 DEF KeyedIsStored, IInv, Set, Busy
  <2>3. QED
    BY <1>1, <2>1, <2>2, QuietKeeps
<1>4. CASE t.for = "use"
  <2>1. creating' = Reaches("use") /\ UNCHANGED <<current, next, cut, keyed, old>>
    BY <1>4 DEF KeyStored
  <2>2. creating.step = "rotate" /\ \A u \in storing' : u.for # "use"
    BY <1>1, <1>4 DEF IInv, OneUse
  <2>3. /\ creating'.step = "use" /\ creating'.generation = creating.generation
        /\ creating'.old = creating.old /\ creating'.key = creating.key
        /\ creating'.next = creating.next /\ creating'.keyed = creating.keyed /\ Busy /\ Busy'
    BY <2>1, <2>2 DEF Reaches, Busy
  <2>4. KeyedIsStored'
    BY <1>1, <2>1, <2>3 DEF KeyedIsStored, IInv, Set
  <2>5. \A k \in Nat : Mentioned(k)' => Mentioned(k)
    BY <1>1, <2>1, <2>3 DEF Mentioned, Holds, Waits
  <2>6. Generated' /\ RekeysAreFresh'
    BY <1>1, <2>5, FreshKeysStay
  <2>7. OldIsNotInUse' /\ KeysAreApart'
    <3>1. UNCHANGED <<current, next, generation, old>>
      BY <1>1, <2>1
    <3>2. QED
      BY <2>2, <2>3, <3>1, ApartStays
  <2>8. OneUse'
    BY <2>2 DEF OneUse
  <2>9. QED
    BY <1>1, <2>1, <2>2, <2>4, <2>6, <2>7, <2>8, ReachedKeeps
<1>5. CASE t.for = "rekey"
  <2>1. /\ Rekeyed(t.generation, t.key) /\ UNCHANGED creating /\ cut' = TRUE
        /\ IF t.generation # generation THEN UNCHANGED old ELSE old' = Followed \ {None}
    BY <1>5 DEF KeyStored
  <2>2. KeyedIsStored'
    BY <1>1, <1>2, <2>1 DEF KeyedIsStored, IInv, Set, Busy
  <2>3. QED
    BY <1>1, <1>5, <2>1, <2>2, RekeyedKeeps
<1>6. QED
  BY <1>3, <1>4, <1>5 DEF KeyStored

LEMMA StoringFailsKeeps ==
    ASSUME IInv, PublisherTypeOK', NEW t \in storing, StoringFails(t)
    PROVE  IInv'
<1>1. /\ storing' = storing \ {t}
      /\ UNCHANGED <<log, current, next, generation, old, used, keyed, written, open>>
  BY DEF StoringFails, storeVars
<1>2. CASE t.for = "use"
  <2>1. Fails /\ \A u \in storing' : u.for # "use"
    BY <1>1, <1>2 DEF StoringFails, IInv, OneUse
  <2>2. KeyedIsStored'
    BY <1>1, <2>1 DEF Fails, Idle, KeyedIsStored, IInv, Set, Busy
  <2>3. QED
    BY <1>1, <2>1, <2>2, FailureKeeps
<1>3. CASE t.for # "use"
  <2>1. UNCHANGED <<creating, cut>>
    BY <1>3 DEF StoringFails
  <2>2. KeyedIsStored'
    BY <1>1, <2>1 DEF KeyedIsStored, IInv, Set, Busy
  <2>3. QED
    BY <1>1, <2>1, <2>2, QuietKeeps
<1>4. QED
  BY <1>2, <1>3

LEMMA EncryptKeeps == ASSUME IInv, PublisherTypeOK', Encrypt PROVE IInv'
<1>1. PICK step \in {"size", "sub"} : creating' = Wants(step, keyed)
  BY DEF Encrypt
<1>2. /\ creating.step = "idle"
      /\ UNCHANGED <<log, current, next, cut, generation, old, used, storing, keyed, written, open>>
  BY DEF Encrypt, Idle, history, storeVars
<1>3. KeyedIsStored'
  BY <1>1, <1>2 DEF Wants, KeyedIsStored, IInv, Set
<1>4. QED
  BY <1>1, <1>2, <1>3, WantedKeeps

LEMMA SizeArrivesKeeps == ASSUME IInv, PublisherTypeOK', SizeArrives PROVE IInv'
<1>1. /\ creating.step = "size" /\ Busy /\ creating \in Creating
      /\ UNCHANGED <<current, next, cut, generation, used, storing, keyed, written, open>>
  BY GenerationsAreNumbers DEF SizeArrives, storeVars, Busy, IInv
<1>2. CASE NoneStored
  <2>1. Publish(Plain)
    BY <1>2 DEF SizeArrives
  <2>2. ~ creating.keyed /\ creating.keyed \in BOOLEAN
    BY <1>1, <1>2 DEF IInv, Set, KeyedIsStored, NoneStored, Content, Creating
  <2>3. Plain \in Logged /\ ~ Plain.keyed
    BY <2>2, GenerationsAreNumbers DEF Plain, Logged, IInv
  <2>4. KeyedIsStored'
    BY <1>1, <2>1 DEF Publish, Idle, KeyedIsStored, IInv, Set, Busy
  <2>5. QED
    BY <1>1, <2>1, <2>3, <2>4, PublishKeeps
<1>3. CASE ~ NoneStored
  <2>1. creating' = Wants("sub", creating.keyed) /\ UNCHANGED <<log, old>>
    BY <1>3 DEF SizeArrives
  <2>2. KeyedIsStored'
    BY <1>1, <2>1 DEF Wants, KeyedIsStored, IInv, Set
  <2>3. QED
    BY <1>1, <2>1, <2>2, WantedKeeps
<1>4. QED
  BY <1>2, <1>3

LEMMA UseGroupKeyKeeps == ASSUME IInv, PublisherTypeOK', UseGroupKey PROVE IInv'
<1>1. /\ creating.step = "sub" /\ \A t \in storing : t.for # "use"
      /\ UNCHANGED <<log, current, next, generation, old, used, storing, keyed, written, open>>
  BY DEF UseGroupKey, storeVars, IInv, OneUse
<1>2. CASE creating.generation # generation
  <2>1. Fails
    BY <1>2 DEF UseGroupKey
  <2>2. KeyedIsStored'
    BY <1>1, <2>1 DEF Fails, Idle, KeyedIsStored, IInv, Set, Busy
  <2>3. QED
    BY <1>1, <2>1, <2>2, FailureKeeps
<1>3. CASE creating.generation = generation
  <2>1. creating' = Reaches("use") /\ UNCHANGED cut
    BY <1>3 DEF UseGroupKey
  <2>2. /\ creating'.step = "use" /\ creating'.generation = creating.generation
        /\ creating'.old = creating.old /\ creating'.key = creating.key
        /\ creating'.next = creating.next /\ creating'.keyed = creating.keyed /\ Busy /\ Busy'
    BY <1>1, <2>1 DEF Reaches, Busy
  <2>3. KeyedIsStored'
    BY <1>1, <2>2 DEF KeyedIsStored, IInv, Set
  <2>4. \A k \in Nat : Mentioned(k)' => Mentioned(k)
    BY <1>1, <2>2 DEF Mentioned, Holds, Waits
  <2>5. Generated' /\ RekeysAreFresh'
    BY <1>1, <2>4, FreshKeysStay
  <2>6. OldIsNotInUse' /\ KeysAreApart'
    BY <1>1, <2>2, ApartStays
  <2>7. OneUse'
    BY <1>1 DEF OneUse
  <2>8. QED
    BY <1>1, <2>1, <2>3, <2>5, <2>6, <2>7, ReachedKeeps
<1>4. QED
  BY <1>2, <1>3

LEMMA KeyArrivesKeeps == ASSUME IInv, PublisherTypeOK', KeyArrives PROVE IInv'
<1>1. /\ creating.step = "get" /\ Busy /\ creating \in Creating
      /\ UNCHANGED <<current, next, generation, used, storing, keyed, written, open>>
  BY GenerationsAreNumbers DEF KeyArrives, storeVars, Busy, IInv
<1>2. CASE creating.key \in Content("publisher")
  <2>1. Publish(Encrypted) /\ UNCHANGED cut
    BY <1>2 DEF KeyArrives
  <2>2. Encrypted \in Logged
    BY <1>1 DEF Encrypted, Logged, Creating
  <2>3. KeyedIsStored'
    BY <1>1, <2>1 DEF Publish, Idle, KeyedIsStored, IInv, Set, Busy
  <2>4. QED
    BY <1>1, <2>1, <2>2, <2>3, PublishKeeps
<1>3. CASE creating.key \notin Content("publisher")
  <2>1. Fails /\ UNCHANGED <<log, old>> /\ \A t \in storing : t.for # "use"
    BY <1>1, <1>3 DEF KeyArrives, IInv, OneUse
  <2>2. KeyedIsStored'
    BY <1>1, <2>1 DEF Fails, Idle, KeyedIsStored, IInv, Set, Busy
  <2>3. QED
    BY <1>1, <2>1, <2>2, FailureKeeps
<1>4. QED
  BY <1>2, <1>3

LEMMA PublishFailsKeeps == ASSUME IInv, PublisherTypeOK', PublishFails PROVE IInv'
<1>1. /\ creating.step = "get" /\ Fails /\ \A t \in storing : t.for # "use"
      /\ UNCHANGED <<log, current, next, generation, old, used, storing, keyed, written, open>>
  BY DEF PublishFails, storeVars, IInv, OneUse
<1>2. KeyedIsStored'
  BY <1>1 DEF Fails, Idle, KeyedIsStored, IInv, Set, Busy
<1>3. QED
  BY <1>1, <1>2, FailureKeeps

LEMMA SubArrivesKeeps ==
    ASSUME IInv, PublisherTypeOK', NEW g \in Generations, SubArrives(g)
    PROVE  IInv'
<1>1. UNCHANGED <<creating, log, current, next, generation, cut, old, used, storing, keyed, written, open>>
  BY DEF SubArrives, storeVars, history
<1>2. KeyedIsStored'
  BY <1>1 DEF KeyedIsStored, IInv, Set, Busy
<1>3. QED
  BY <1>1, <1>2, QuietKeeps

LEMMA SubFailsKeeps == ASSUME IInv, PublisherTypeOK', NEW g \in Generations, SubFails(g) PROVE IInv'
<1>1. UNCHANGED <<log, current, next, generation, old, used, storing, keyed, written, open>>
  BY DEF SubFails, storeVars
<1>2. CASE creating.step = "sub" /\ creating.generation = g
  <2>1. Fails /\ \A t \in storing : t.for # "use"
    BY <1>2 DEF SubFails, IInv, OneUse
  <2>2. KeyedIsStored'
    BY <1>1, <2>1 DEF Fails, Idle, KeyedIsStored, IInv, Set, Busy
  <2>3. QED
    BY <1>1, <2>1, <2>2, FailureKeeps
<1>3. CASE ~ (creating.step = "sub" /\ creating.generation = g)
  <2>1. UNCHANGED <<creating, cut>>
    BY <1>3 DEF SubFails
  <2>2. KeyedIsStored'
    BY <1>1, <2>1 DEF KeyedIsStored, IInv, Set, Busy
  <2>3. QED
    BY <1>1, <2>1, <2>2, QuietKeeps
<1>4. QED
  BY <1>2, <1>3

\* What is not Idle is of this generation or an earlier one.
LEMMA LeavingKeeps ==
    ASSUME IInv, PublisherTypeOK', Leaves, KeyedIsStored', storing' \subseteq storing,
           \/ UNCHANGED <<creating, cut>>
           \/ creating' = Idle /\ storing' = {}
    PROVE  IInv'
<1>1. /\ generation' = generation + 1 /\ old' = {} /\ UNCHANGED <<current, next, log, used>>
      /\ generation \in Nat /\ (Busy => creating \in Creating)
  BY GenerationsAreNumbers DEF Leaves, IInv
<1>2. /\ \A i \in 1 .. Len(log) : log[i].by <= Active /\ log[i].by \in Nat
      /\ Active <= generation /\ Active \in Nat
  BY LogIsTyped DEF IInv, Follows, InTurn
<1>3. \/ UNCHANGED <<creating, cut>> /\ Busy /\ Busy' /\ Active' = Active
      \/ ~ Busy' /\ creating'.step = "idle" /\ Active' = generation + 1
  BY <1>1 DEF Busy, Active, Idle
<1>4. \A k \in Nat : Mentioned(k)' => Mentioned(k)
  BY <1>1, <1>3 DEF Mentioned, Holds, Waits
<1>5. Generated' /\ RekeysAreFresh'
  BY <1>1, <1>4, FreshKeysStay
<1>6. \A g \in Generations, k \in Nat : /\ Waits(g, k)' <=> Waits(g, k)
                                        /\ Holds(g, k)' <=> Holds(g, k)
  BY <1>1 DEF Waits, Holds
<1>7. KeysAreApart'
  BY <1>6 DEF KeysAreApart, IInv, Fresh
<1>8. OldIsNotTaken'
  BY <1>1, <1>3 DEF OldIsNotTaken, IInv, Fresh
<1>9. OldIsNotInUse'
  BY <1>1, <1>3 DEF OldIsNotInUse, IInv, Fresh, Holds, Waits
<1>10. InTurn'
  BY <1>1, <1>2, <1>3 DEF InTurn
<1>11. FollowsOn'
  <2> SUFFICES ASSUME NEW i \in 1 .. Len(log), Latest(i)'
               PROVE  IF creating'.step = "get"
                      THEN creating'.cut \/ creating'.key \in {log[i].key, log[i].next}
                      ELSE cut' \/ current[Active'] \in {log[i].key, log[i].next}
    BY <1>1 DEF FollowsOn
  <2>1. log[i].by = Active'
    BY <1>1 DEF Latest
  <2>2. UNCHANGED <<creating, cut>> /\ Active' = Active
    BY <1>1, <1>2, <1>3, <2>1
  <2>3. Latest(i)
    BY <1>1, <2>2 DEF Latest
  <2>4. QED
    BY <2>2, <2>3 DEF IInv, Follows, FollowsOn
<1>12. HasCurrent' /\ GetFollowsOn' /\ KeysAreAnnounced'
  BY <1>1, <1>3 DEF HasCurrent, GetFollowsOn, KeysAreAnnounced, IInv, Follows
<1>13. EncryptedOnceKeyed'
  BY <1>1 DEF EncryptedOnceKeyed, IInv, Set
<1>14. OneUse'
  BY <1>3 DEF OneUse, IInv
<1>15. QED
  BY <1>5, <1>7, <1>8, <1>9, <1>10, <1>11, <1>12, <1>13, <1>14 DEF IInv, Fresh, Follows, Set

LEMMA StopKeeps == ASSUME IInv, PublisherTypeOK', Stop PROVE IInv'
<1>1. /\ Leaves /\ storing' \subseteq storing /\ UNCHANGED <<creating, cut>>
      /\ UNCHANGED <<keyed, written, open>>
  BY DEF Stop, Leaves, storeVars
<1>2. KeyedIsStored'
  BY <1>1 DEF KeyedIsStored, IInv, Set, Busy
<1>3. QED
  BY <1>1, <1>2, LeavingKeeps

LEMMA CrashKeeps == ASSUME IInv, PublisherTypeOK', Crash PROVE IInv'
<1>1. /\ Leaves /\ storing' = {} /\ creating' = Idle
      /\ UNCHANGED <<keyed, written, open>>
  BY DEF Crash, Leaves, storeVars
<1>2. KeyedIsStored'
  BY <1>1 DEF KeyedIsStored, IInv, Set, Busy, Idle
<1>3. QED
  BY <1>1, <1>2, LeavingKeeps

\* What the subscriber does.
Received ==
    \/ Subscriber
    \/ Miss \/ SubscriberRejected \/ RequestFails \/ RequestRefused \/ MailIsLost

LEMMA SubscriberIsApart ==
    ASSUME PublisherTypeOK, Received
    PROVE  /\ UNCHANGED <<publisherVars, used, stops, history>>
           /\ DOMAIN written' = DOMAIN written /\ written'["publisher"] = written["publisher"]
           /\ open \subseteq open'
<1>1. /\ \/ UNCHANGED storeVars
         \/ \E keys : Writes("subscriber", keys)
      /\ UNCHANGED <<publisherVars, used, stops, history>>
  <2>1. CASE TakeNext
    BY <2>1 DEF TakeNext, Decrypts
  <2>2. CASE ResponseArrives
    BY <2>2 DEF ResponseArrives, Decrypts
  <2>3. CASE SubscriberSubscribed \/ RequestPublished \/ RequestArrives \/ RequestAnswered
             \/ SubscriberRejected \/ RequestFails \/ RequestRefused \/ MailIsLost
    BY <2>3 DEF SubscriberSubscribed, RequestPublished, RequestArrives, RequestAnswered,
                SubscriberRejected, RequestFails, RequestRefused, MailIsLost, Goes
  <2>4. CASE Miss
    BY <2>4 DEF Miss
  <2>5. QED
    BY <2>1, <2>2, <2>3, <2>4 DEF Received, Subscriber
<1>2. ASSUME NEW keys, Writes("subscriber", keys)
      PROVE  /\ DOMAIN written' = DOMAIN written /\ written'["publisher"] = written["publisher"]
             /\ open \subseteq open'
  <2>1. written' = [written EXCEPT !["subscriber"] = written["subscriber"] \cup keys]
        /\ (open' = open \/ open' = open \cup {"subscriber"})
    BY <1>2 DEF Writes, Opens
  <2>2. QED
    BY <2>1 DEF PublisherTypeOK
<1>3. QED
  BY <1>1, <1>2 DEF storeVars

LEMMA SubscriberKeeps == ASSUME IInv, Received PROVE IInv'
<1>1. /\ UNCHANGED <<generation, current, next, storing, sub, creating, log, used, stops, cut, keyed, old>>
      /\ DOMAIN written' = DOMAIN written /\ written'["publisher"] = written["publisher"]
      /\ open \subseteq open'
  BY SubscriberIsApart DEF IInv, publisherVars, history
<1>2. PublisherTypeOK'
  BY <1>1 DEF PublisherTypeOK, IInv
<1>3. KeyedIsStored'
  BY <1>1 DEF KeyedIsStored, IInv, Set, Busy
<1>4. QED
  <2>1. storing' \subseteq storing
    BY <1>1
  <2>2. QED
    BY <1>1, <1>2, <1>3, <2>1, QuietKeeps

-----------------------------------------------------------------------------
(* Type correctness of the publisher.                                       *)

LEMMA PublishIsTyped ==
    ASSUME PublisherTypeOK, NEW m \in Logged, Publish(m)
    PROVE  log' \in Seq(Logged) /\ creating' = Idle /\ old' \subseteq Nat
<1>1. log' \in Seq(Logged)
  BY DEF Publish, PublisherTypeOK
<1>2. old' \subseteq Nat
  BY DEF Publish, Learns, Logged, PublisherTypeOK
<1>3. QED
  BY <1>1, <1>2 DEF Publish

LEMMA TypesStay == ASSUME IInv, Next PROVE PublisherTypeOK'
<1>1. /\ PublisherTypeOK /\ generation \in Generations /\ None \notin Nat /\ MaxStops \in Nat
      /\ (Busy => creating \in Creating) /\ NewKey \in Nat
  BY GenerationsAreNumbers DEF IInv, PublisherTypeOK, NewKey
<1>2. \A g \in Generations : Asked(g) \in [Generations -> {"none", "asking", "on", "off"}]
  BY <1>1 DEF Asked, PublisherTypeOK
<1>3. Fails => creating' = Idle /\ cut' \in BOOLEAN
  BY <1>1 DEF Fails
<1>4. ASSUME NEW step \in Steps, Busy PROVE Reaches(step) \in Creating
  BY <1>1, <1>4 DEF Reaches, Creating
<1>5. ASSUME NEW step \in Steps, NEW told \in BOOLEAN PROVE Wants(step, told) \in Creating
  BY <1>1, <1>5 DEF Wants, Creating, PublisherTypeOK
<1>6. CASE SetNextGroupKey
  <2>1. next' \in [Generations -> Seq(Nat)]
    BY <1>1, <1>6, QueuedIsAdded DEF SetNextGroupKey
  <2>2. QED
    BY <1>1, <1>6, <2>1 DEF SetNextGroupKey, PublisherTypeOK, storeVars, history
<1>7. CASE Rekey
  BY <1>1, <1>7 DEF Rekey, PublisherTypeOK, storeVars, history
<1>8. CASE Stop
  <2>1. sub' \in [Generations -> {"none", "asking", "on", "off"}]
    BY <1>1, <1>8 DEF Stop, PublisherTypeOK
  <2>2. stops' \in 0 .. MaxStops /\ generation' = stops'
    BY <1>1, <1>8 DEF Stop, Leaves, PublisherTypeOK
  <2>3. QED
    BY <1>1, <1>8, <2>1, <2>2 DEF Stop, Leaves, PublisherTypeOK, storeVars
<1>9. CASE Crash
  <2>1. sub' \in [Generations -> {"none", "asking", "on", "off"}]
    BY <1>1, <1>9 DEF Crash
  <2>2. stops' \in 0 .. MaxStops /\ generation' = stops'
    BY <1>1, <1>9 DEF Crash, Leaves, PublisherTypeOK
  <2>3. QED
    BY <1>1, <1>9, <2>1, <2>2 DEF Crash, Leaves, PublisherTypeOK, storeVars
<1>10. ASSUME NEW t \in storing, KeyStored(t) PROVE PublisherTypeOK'
  <2>1. /\ t.key \in Nat /\ t.generation \in Generations
        /\ storing' \subseteq storing /\ UNCHANGED <<generation, log, used, stops>>
        /\ DOMAIN written' = DOMAIN written /\ written'["publisher"] \subseteq Nat
    BY <1>1, <1>10 DEF KeyStored, Writes, PublisherTypeOK
  <2>2. CASE t.for = "next"
    BY <1>1, <1>10, <2>1, <2>2 DEF KeyStored, PublisherTypeOK
  <2>3. CASE t.for = "use"
    <3>1. Busy
      BY <2>3 DEF IInv, OneUse, Busy
    <3>2. creating' \in Creating
      BY <1>4, <1>10, <2>3, <3>1 DEF KeyStored, Steps
    <3>3. QED
      BY <1>1, <1>10, <2>1, <2>3, <3>2 DEF KeyStored, PublisherTypeOK
  <2>4. CASE t.for = "rekey"
    <3>1. current' \in [Generations -> Nat \cup {None}] /\ next' \in [Generations -> Seq(Nat)]
      <4> DEFINE none == <<>>
      <4>1. none \in Seq(Nat)
        OBVIOUS
      <4>2. /\ current' = [current EXCEPT ![t.generation] = t.key]
            /\ next' = [next EXCEPT ![t.generation] = none]
        BY <1>10, <2>4 DEF KeyStored, Rekeyed
      <4> HIDE DEF none
      <4>3. current' \in [Generations -> Nat \cup {None}]
        BY <1>1, <2>1, <4>2 DEF PublisherTypeOK
      <4>4. next' \in [Generations -> Seq(Nat)]
        BY <1>1, <2>1, <4>1, <4>2 DEF PublisherTypeOK
      <4>5. QED
        BY <4>3, <4>4
    <3>2. Followed \ {None} \subseteq Nat
      <4>1. \A i \in DOMAIN log : log[i].key \in Nat \cup {None} /\ log[i].next \in Nat \cup {None}
        <5>1. \A i \in 1 .. Len(log) : log[i] \in Logged
          BY <1>1, LogIsTyped
        <5>2. DOMAIN log = 1 .. Len(log)
          BY <1>1 DEF PublisherTypeOK
        <5>3. QED
          BY <5>1, <5>2 DEF Logged
      <4>2. creating.step = "get" => creating.key \in Nat \cup {None} /\ creating.next \in Nat \cup {None}
        BY <1>1 DEF Busy, Creating
      <4>3. QED
        BY <4>1, <4>2 DEF Followed
    <3>3. old' \subseteq Nat /\ sub' \in [Generations -> {"none", "asking", "on", "off"}]
      BY <1>1, <1>2, <1>10, <2>1, <2>4, <3>2 DEF KeyStored, PublisherTypeOK
    <3>4. creating' = creating /\ cut' = TRUE /\ keyed' = TRUE
      BY <1>10, <2>4 DEF KeyStored
    <3>5. QED
      BY <1>1, <2>1, <3>1, <3>3, <3>4 DEF PublisherTypeOK
  <2>5. QED
    BY <1>10, <2>2, <2>3, <2>4 DEF KeyStored
<1>11. ASSUME NEW t \in storing, StoringFails(t) PROVE PublisherTypeOK'
  BY <1>1, <1>3, <1>11 DEF StoringFails, PublisherTypeOK, storeVars
<1>12. CASE Encrypt
  <2>1. creating' \in Creating
    BY <1>1, <1>5, <1>12 DEF Encrypt, Steps, PublisherTypeOK
  <2>2. QED
    BY <1>1, <1>2, <1>12, <2>1 DEF Encrypt, PublisherTypeOK, storeVars, history
<1>13. CASE SizeArrives
  <2>1. Busy /\ creating.keyed \in BOOLEAN
    BY <1>1, <1>13 DEF SizeArrives, Busy, Creating
  <2>2. CASE NoneStored
    <3>1. Publish(Plain) /\ Plain \in Logged /\ UNCHANGED sub
      BY <1>1, <1>13, <2>1, <2>2 DEF SizeArrives, Plain, Logged
    <3>2. QED
      BY <1>1, <1>13, <3>1, PublishIsTyped DEF SizeArrives, PublisherTypeOK, storeVars
  <2>3. CASE ~ NoneStored
    <3>1. creating' \in Creating /\ UNCHANGED <<log, old>>
      BY <1>5, <1>13, <2>1, <2>3 DEF SizeArrives, Steps
    <3>2. QED
      BY <1>1, <1>2, <1>13, <2>3, <3>1 DEF SizeArrives, PublisherTypeOK, storeVars
  <2>4. QED
    BY <2>2, <2>3
<1>14. CASE UseGroupKey
  <2>1. creating' = Idle \/ creating' \in Creating
    BY <1>3, <1>4, <1>14 DEF UseGroupKey, Steps, Busy
  <2>2. cut' \in BOOLEAN
    BY <1>1, <1>3, <1>14 DEF UseGroupKey, PublisherTypeOK
  <2>3. QED
    BY <1>1, <1>14, <2>1, <2>2 DEF UseGroupKey, PublisherTypeOK, storeVars
<1>15. CASE PickKey
  <2> DEFINE g == creating.generation
  <2>1. creating \in Creating /\ g \in Generations /\ creating.step = "use"
    BY <1>1, <1>15 DEF PickKey, Busy, Creating
  <2>2. /\ Popped(g) \in Nat \cup {None} /\ current[g] \in Nat \cup {None}
        /\ next[g] # <<>> => Front(next[g]) \in Seq(Nat)
    BY <1>1, <2>1, PoppedWaited DEF PublisherTypeOK
  <2>3. current' \in [Generations -> Nat \cup {None}]
    BY <1>1, <1>15, <2>2 DEF PickKey, PublisherTypeOK
  <2>4. next' \in [Generations -> Seq(Nat)]
    BY <1>1, <1>15, <2>2 DEF PickKey, PublisherTypeOK
  <2>5. Picked(g) \in Nat \cup {None} /\ Announced(g) \in Nat \cup {None}
    BY <2>2 DEF Picked, Announced
  <2>6. creating' \in Creating /\ cut' \in BOOLEAN
    BY <1>1, <1>15, <2>1, <2>5 DEF PickKey, Creating, Steps, PublisherTypeOK
  <2>7. QED
    BY <1>1, <1>15, <2>3, <2>4, <2>6 DEF PickKey, PublisherTypeOK, storeVars
<1>16. CASE GenerateKey
  <2>1. Busy /\ creating.generation \in Generations
    BY <1>1, <1>16 DEF GenerateKey, Busy, Creating
  <2>2. next' \in [Generations -> Seq(Nat)]
    BY <1>1, <1>16, <2>1, QueuedIsAdded DEF GenerateKey
  <2>3. creating' \in Creating
    BY <1>4, <1>16, <2>1 DEF GenerateKey, Steps
  <2>4. QED
    BY <1>1, <1>16, <2>1, <2>2, <2>3 DEF GenerateKey, PublisherTypeOK, storeVars, history
<1>17. CASE KeyArrives
  <2>1. creating \in Creating
    BY <1>1, <1>17 DEF KeyArrives, Busy
  <2>2. CASE creating.key \in Content("publisher")
    <3>1. Publish(Encrypted) /\ Encrypted \in Logged /\ UNCHANGED cut
      BY <1>17, <2>1, <2>2 DEF KeyArrives, Encrypted, Logged, Creating
    <3>2. QED
      BY <1>1, <1>17, <3>1, PublishIsTyped DEF KeyArrives, PublisherTypeOK, storeVars
  <2>3. CASE creating.key \notin Content("publisher")
    BY <1>1, <1>3, <1>17, <2>3 DEF KeyArrives, PublisherTypeOK, storeVars
  <2>4. QED
    BY <2>2, <2>3
<1>18. CASE PublishFails
  BY <1>1, <1>3, <1>18 DEF PublishFails, PublisherTypeOK, storeVars
<1>19. ASSUME NEW g \in Generations, SubArrives(g) PROVE PublisherTypeOK'
  BY <1>1, <1>19 DEF SubArrives, PublisherTypeOK, storeVars, history
<1>20. ASSUME NEW g \in Generations, SubFails(g) PROVE PublisherTypeOK'
  <2>1. sub' \in [Generations -> {"none", "asking", "on", "off"}]
    BY <1>1, <1>20 DEF SubFails, PublisherTypeOK
  <2>2. (creating' = Idle \/ creating' \in Creating) /\ cut' \in BOOLEAN
    BY <1>1, <1>3, <1>20 DEF SubFails, PublisherTypeOK
  <2>3. QED
    BY <1>1, <1>20, <2>1, <2>2 DEF SubFails, PublisherTypeOK, storeVars
<1>21. CASE Received
  BY <1>21, SubscriberKeeps DEF IInv
<1>22. QED
  BY <1>6, <1>7, <1>8, <1>9, <1>10, <1>11, <1>12, <1>13, <1>14, <1>15, <1>16, <1>17, <1>18, <1>19,
     <1>20, <1>21 DEF Next, Received

-----------------------------------------------------------------------------
(* The theorems.                                                            *)

LEMMA InitHolds == ASSUME Init PROVE IInv
<1>1. /\ Initial["publisher"] \subseteq 1 .. 1 /\ Initial["subscriber"] \subseteq 1 .. 1
      /\ MaxStops \in Nat /\ None \notin Nat
  BY KeyExchangeAssumption
<1> DEFINE given == Initial["publisher"] \cup Initial["subscriber"]
<1>2. used \in Nat /\ (1 \in Initial["publisher"] => used >= 1)
  <2>1. given = {} \/ given = {1}
    BY <1>1
  <2>2. Cardinality({}) = 0 /\ Cardinality({1}) = 1
    BY FS_EmptySet, FS_Singleton
  <2>3. used = Cardinality(given)
    BY DEF Init
  <2>4. QED
    BY <2>1, <2>2, <2>3
<1>3. Configured \in Nat \cup {None} /\ (Configured # None => Configured = 1 /\ 1 \in Initial["publisher"])
  BY <1>1 DEF Configured
<1>4. /\ creating.step = "idle" /\ ~ Busy /\ log = <<>> /\ Len(log) = 0 /\ old = {} /\ storing = {}
      /\ \A g \in Generations : current[g] = Configured /\ next[g] = <<>>
  BY DEF Init, Idle, Busy
<1>5. PublisherTypeOK
  <2>1. <<>> \in Seq(Nat) /\ <<>> \in Seq(Logged) /\ generation \in 0 .. MaxStops
    BY <1>1 DEF Init
  <2>2. current \in [Generations -> Nat \cup {None}] /\ next \in [Generations -> Seq(Nat)]
    BY <1>3, <2>1 DEF Init
  <2>3. QED
    BY <1>1, <1>2, <2>1, <2>2 DEF Init, PublisherTypeOK
<1>6. \A g \in Generations, k \in Nat : ~ Waits(g, k) /\ (Holds(g, k) => k = 1 /\ used >= 1)
  BY <1>1, <1>2, <1>3, <1>4 DEF Waits, Holds
<1>7. Fresh
  <2>1. \A k \in Nat : Mentioned(k) => k <= used
    BY <1>2, <1>4, <1>6 DEF Mentioned
  <2>2. Generated /\ RekeysAreFresh
    BY <1>4, <2>1 DEF Generated, RekeysAreFresh
  <2>3. OldIsNotInUse /\ OldIsNotTaken /\ KeysAreApart
    BY <1>4, <1>6 DEF OldIsNotInUse, OldIsNotTaken, KeysAreApart
  <2>4. QED
    BY <2>2, <2>3 DEF Fresh
<1>8. Follows
  <2>1. generation = 0 /\ DOMAIN log = {}
    BY <1>4 DEF Init
  <2>2. QED
    BY <1>4, <2>1 DEF Follows, InTurn, HasCurrent, FollowsOn, GetFollowsOn, KeysAreAnnounced, Active
<1>9. Set /\ OneUse
  BY <1>4 DEF Init, Set, KeyedIsStored, EncryptedOnceKeyed, OneUse, Busy
<1>10. QED
  BY <1>5, <1>7, <1>8, <1>9 DEF IInv

LEMMA NextKeeps == ASSUME IInv, [Next]_vars PROVE IInv'
<1>1. CASE Next
  <2>1. PublisherTypeOK'
    BY <1>1, TypesStay
  <2>2. CASE SetNextGroupKey \/ Rekey \/ Stop \/ Crash
    BY <2>1, <2>2, SetNextGroupKeyKeeps, RekeyKeeps, StopKeeps, CrashKeeps
  <2>3. CASE \E t \in storing : KeyStored(t) \/ StoringFails(t)
    BY <2>1, <2>3, KeyStoredKeeps, StoringFailsKeeps
  <2>4. CASE Encrypt \/ SizeArrives \/ UseGroupKey \/ PickKey \/ GenerateKey \/ KeyArrives \/ PublishFails
    BY <2>1, <2>4, EncryptKeeps, SizeArrivesKeeps, UseGroupKeyKeeps, PickKeyKeeps, GenerateKeyKeeps,
       KeyArrivesKeeps, PublishFailsKeeps
  <2>5. CASE \E g \in Generations : SubArrives(g) \/ SubFails(g)
    BY <2>1, <2>5, SubArrivesKeeps, SubFailsKeeps
  <2>6. CASE Received
    BY <2>6, SubscriberKeeps
  <2>7. QED
    BY <1>1, <2>2, <2>3, <2>4, <2>5, <2>6 DEF Next, Received
<1>2. CASE UNCHANGED vars
  <2>1. /\ UNCHANGED <<creating, log, current, next, generation, cut, old, used, stops, sub, keyed,
                       written, open, storing>>
    BY <1>2 DEF vars, publisherVars, storeVars, history
  <2>2. PublisherTypeOK'
    BY <2>1 DEF IInv, PublisherTypeOK
  <2>3. KeyedIsStored'
    BY <2>1 DEF KeyedIsStored, IInv, Set, Busy
  <2>4. storing' \subseteq storing
    BY <2>1
  <2>5. QED
    BY <2>1, <2>2, <2>3, <2>4, QuietKeeps
<1>3. QED
  BY <1>1, <1>2

THEOREM InvariantHolds == Spec => []IInv
<1>1. Init => IInv
  BY InitHolds
<1>2. IInv /\ [Next]_vars => IInv'
  BY NextKeeps
<1>3. QED
  BY <1>1, <1>2, PTL DEF Spec

\* The state of the publisher and its stores has its types, whatever fails, stops or crashes.
THEOREM PublisherTyped == Spec => []PublisherTypeOK
BY InvariantHolds, PTL DEF IInv

\* KeyExchange: every key an exchange uses after its first was announced with the message before,
\* however keys are rotated, stored and generated while messages are being encrypted.
THEOREM KeysAnnounced == Spec => []KeysAreAnnounced
<1>1. IInv => KeysAreAnnounced
  BY DEF IInv, Follows
<1>2. QED
  BY <1>1, InvariantHolds, PTL

\* KeyExchange: after rekey() no key is used that a follower of the stream has, and once a key is
\* set every message is encrypted.
THEOREM KeysEffective == Spec => []KeysTakeEffect
<1>1. IInv => KeysTakeEffect
  BY DEF IInv, Fresh, Set, OldIsNotTaken, RekeyStartsAfresh, KeysTakeEffect
<1>2. QED
  BY <1>1, InvariantHolds, PTL

-----------------------------------------------------------------------------
(***************************************************************************)
(* Queues.  Messages go through a queue in ascending order, and nothing    *)
(* comes after the null that ends it.                                      *)
(***************************************************************************)
MessageId == Nat \ {0}
Item == MessageId \cup {Resend!Null}
QueueType ==
    [buffer : Seq(Item), local : Seq(Item),
     at : {"asleep", "awaits", "woken", "rejected", "ended"},
     woken : Int, given : Nat \cup {Resend!Done, Resend!Failed},
     error : {Resend!NoError, "resend failed"}, finished : BOOLEAN, ended : BOOLEAN,
     cancelled : BOOLEAN, onEndCalled : BOOLEAN]

\* The messages the generator has not given yet; when the queue is finished it gives none.
InQueue(q) ==
    {v \in MessageId : /\ ~ q.finished
                     /\ \/ q.at = "woken" /\ v = q.woken
                        \/ \E i \in 1 .. Len(q.local) : v = q.local[i]
                        \/ \E i \in 1 .. Len(q.buffer) : v = q.buffer[i]}
ToGive(q) == InQueue(q) \cup {v \in MessageId : v = q.given}

Before(a, b) == b \in MessageId => a \in MessageId /\ a < b
Ascends(s) == \A i, j \in 1 .. Len(s) : i < j => Before(s[i], s[j])
InLine(q) ==
    /\ Ascends(q.local) /\ Ascends(q.buffer)
    /\ \A i \in 1 .. Len(q.local), j \in 1 .. Len(q.buffer) : Before(q.local[i], q.buffer[j])
    /\ q.at = "woken" => \A j \in 1 .. Len(q.buffer) : Before(q.woken, q.buffer[j])
    /\ q.at \in {"awaits", "woken", "rejected"} => q.local = <<>> /\ q.given = Resend!Nothing
    /\ q.at = "awaits" => q.buffer = <<>>
    /\ q.at = "woken" /\ ~ q.finished => q.woken \in Item
    /\ q.error # Resend!NoError \/ q.cancelled => q.finished
    /\ q.at \in {"rejected", "ended"} \/ q.given \in {Resend!Done, Resend!Failed} => q.finished
    /\ \A v \in InQueue(q) : Before(q.given, v) \/ q.given = Resend!Nothing
    /\ ~ q.finished /\ ~ q.ended =>
           /\ \A i \in 1 .. Len(q.local) : q.local[i] # Resend!Null
           /\ \A i \in 1 .. Len(q.buffer) : q.buffer[i] # Resend!Null
           /\ q.at = "woken" => q.woken # Resend!Null
Sane(q) == q \in QueueType /\ InLine(q)

\* What is done to a queue that gives nothing and is pushed no message.
Stays(q, r) ==
    /\ Sane(r)
    /\ r.given = q.given
    /\ q.finished => r.finished
    /\ r.finished \/ InQueue(r) = InQueue(q)
    /\ Resend!Asked(r) => Resend!Asked(q)

\* What becomes of a queue whose generator goes on: it gives the next message, it waits for one,
\* or the reading is over, since the queue is finished or everything before the null was given.
Gives(q, r) ==
    /\ ~ q.finished /\ ~ r.finished
    /\ r.given \in InQueue(q) /\ InQueue(r) = InQueue(q) \ {r.given}
    /\ \A w \in InQueue(q) : r.given <= w
    /\ ~ Resend!Asked(r)
WaitsForMore(q, r) ==
    /\ ~ q.finished /\ ~ r.finished /\ InQueue(q) = {} /\ InQueue(r) = {}
    /\ r.given = Resend!Nothing
EndsReading(q, r) ==
    /\ r.finished /\ r.given \in {Resend!Done, Resend!Failed}
    /\ q.finished \/ (InQueue(q) = {} /\ q.ended)
    /\ ~ Resend!Asked(r)
GoesOn(q, r) ==
    /\ Sane(r) /\ r.ended = q.ended
    /\ Gives(q, r) \/ WaitsForMore(q, r) \/ EndsReading(q, r)

LEMMA NewQueueIsSane ==
    /\ Sane(Resend!NewQueue)
    /\ InQueue(Resend!NewQueue) = {}
    /\ ~ Resend!NewQueue.finished /\ ~ Resend!NewQueue.ended /\ Resend!NewQueue.given = 0
    /\ ~ Resend!Asked(Resend!NewQueue) /\ Resend!NewQueue.error = Resend!NoError
<1> DEFINE q == Resend!NewQueue
<1>1. /\ q.buffer = <<>> /\ q.local = <<>> /\ q.at = "asleep" /\ q.given = 0 /\ q.error = Resend!NoError
      /\ ~ q.finished /\ ~ q.ended /\ ~ q.cancelled
  BY DEF Resend!NewQueue, Resend!Nothing
<1>2. q \in QueueType
  <2>1. <<>> \in Seq(Item) /\ 0 \in Int /\ 0 \in Nat \cup {Resend!Done, Resend!Failed}
    OBVIOUS
  <2>2. QED
    BY <2>1 DEF Resend!NewQueue, QueueType, Resend!Nothing
<1>3. InQueue(q) = {} /\ ~ Resend!Asked(q)
  BY <1>1 DEF InQueue, Resend!Asked
<1>4. InLine(q)
  BY <1>1, <1>3 DEF InLine, Ascends, Resend!Nothing, Resend!Done, Resend!Failed
<1>5. QED
  BY <1>1, <1>2, <1>3, <1>4 DEF Sane

LEMMA CleanupStays ==
    ASSUME NEW q, Sane(q)
    PROVE  /\ Stays(q, Resend!Cleanup(q))
           /\ Resend!Cleanup(q).finished
           /\ Resend!Cleanup(q).ended = q.ended
           /\ Resend!Cleanup(q).error = Resend!NoError
<1> DEFINE r == Resend!Cleanup(q)
           at == IF q.at # "awaits" THEN q.at
                 ELSE IF q.error = Resend!NoError THEN "woken" ELSE "rejected"
           woken == IF q.at = "awaits" THEN Resend!Done ELSE q.woken
<1>0. q \in QueueType
  BY DEF Sane
<1>1. /\ r.finished = TRUE /\ r.buffer = <<>> /\ r.local = q.local /\ r.given = q.given
      /\ r.ended = q.ended /\ r.error = Resend!NoError /\ r.at = at
  BY <1>0 DEF Resend!Cleanup, QueueType
<1>2. /\ at \in {"asleep", "awaits", "woken", "rejected", "ended"}
      /\ at = q.at \/ (q.at = "awaits" /\ at \in {"woken", "rejected"})
  <2>1. q.at \in {"asleep", "awaits", "woken", "rejected", "ended"}
    BY <1>0 DEF QueueType
  <2>2. QED
    BY <2>1
<1>3. woken \in Int
  <2>1. Resend!Done \in Int
    BY DEF Resend!Done
  <2>2. QED
    BY <1>0, <2>1 DEF QueueType
<1>4. r \in QueueType
  <2>1. r = [q EXCEPT !.finished = TRUE, !.error = Resend!NoError, !.buffer = <<>>, !.onEndCalled = TRUE,
                      !.at = at, !.woken = woken]
    BY DEF Resend!Cleanup
  <2>2. <<>> \in Seq(Item)
    OBVIOUS
  <2> HIDE DEF r, at, woken
  <2>3. QED
    BY <1>0, <1>2, <1>3, <2>1, <2>2 DEF QueueType
<1> HIDE DEF r, at
<1>5. InLine(r)
  BY <1>1, <1>2 DEF Sane, InLine, InQueue, Ascends
<1>6. QED
  BY <1>1, <1>2, <1>4, <1>5 DEF Stays, Sane, Resend!Asked, r

LEMMA CancelStays ==
    ASSUME NEW q, Sane(q), NEW err \in {Resend!NoError, "resend failed"}
    PROVE  /\ Stays(q, Resend!Cancel(q, err))
           /\ Resend!Cancel(q, err).finished
           /\ Resend!Cancel(q, err).ended = q.ended
           /\ err = Resend!NoError => Resend!Cancel(q, err).error = q.error
<1> DEFINE r == Resend!Cancel(q, err)
<1>1. r \in QueueType
  BY DEF Resend!Cancel, Sane, QueueType
<1>2. /\ r.finished = TRUE /\ r.buffer = q.buffer /\ r.local = q.local /\ r.given = q.given
      /\ r.ended = q.ended /\ r.woken = q.woken /\ (err = Resend!NoError => r.error = q.error)
      /\ r.at = IF q.at = "asleep" THEN "ended" ELSE q.at
  BY DEF Resend!Cancel, Sane, QueueType
<1> HIDE DEF r
<1>3. InLine(r)
  BY <1>1, <1>2 DEF Sane, InLine, InQueue
<1>4. QED
  BY <1>1, <1>2, <1>3 DEF Stays, Sane, Resend!Asked, r

LEMMA ThrowStays ==
    ASSUME NEW q, Sane(q), NEW err \in {Resend!NoError, "resend failed"}
    PROVE  Stays(q, Resend!Throw(q, err)) /\ Resend!Throw(q, err).ended = q.ended
<1> DEFINE r == Resend!Throw(q, err)
<1>1. CASE q.finished
  BY <1>1 DEF Resend!Throw, Stays
<1>2. CASE ~ q.finished
  <2>1. r \in QueueType
    BY DEF Resend!Throw, Sane, QueueType
  <2>2. /\ r.finished = TRUE /\ r.buffer = q.buffer /\ r.local = q.local /\ r.given = q.given
        /\ r.ended = q.ended /\ r.woken = q.woken
        /\ r.at = IF q.at = "awaits" THEN "rejected" ELSE q.at
    BY <1>2 DEF Resend!Throw, Sane, QueueType
  <2> HIDE DEF r
  <2>3. InLine(r)
    BY <2>1, <2>2 DEF Sane, InLine, InQueue
  <2>4. QED
    BY <2>1, <2>2, <2>3 DEF Stays, Sane, Resend!Asked, r
<1>3. QED
  BY <1>1, <1>2

LEMMA PushAppends ==
    ASSUME NEW q, Sane(q), NEW v \in Item,
           v \in MessageId => \A w \in ToGive(q) : w < v
    PROVE  LET r == Resend!Push(q, v)
           IN  /\ Sane(r)
               /\ r.given = q.given /\ r.finished = q.finished /\ r.error = q.error
               /\ Resend!Asked(r) => Resend!Asked(q)
               /\ r.ended <=> q.ended \/ (~ q.finished /\ v = Resend!Null)
               /\ q.finished \/ q.ended => r = q
               /\ ~ q.finished /\ ~ q.ended => InQueue(r) = InQueue(q) \cup ({v} \cap MessageId)
<1> DEFINE r == Resend!Push(q, v)
<1>1. CASE q.finished \/ q.ended
  <2>1. r = q
    BY <1>1 DEF Resend!Push
  <2>2. q.ended <=> q.ended \/ (~ q.finished /\ v = Resend!Null)
    BY <1>1
  <2>3. QED
    BY <2>1, <2>2, <1>1
<1>2. CASE ~ q.finished /\ ~ q.ended /\ q.at = "awaits"
  <2>0. v \in Int
    BY DEF Item, MessageId, Resend!Null
  <2>1. r \in QueueType
    BY <1>2, <2>0 DEF Resend!Push, Sane, QueueType
  <2>2. /\ r.finished = q.finished /\ r.buffer = q.buffer /\ r.local = q.local /\ r.given = q.given
        /\ (r.ended <=> v = Resend!Null) /\ r.woken = v /\ r.at = "woken" /\ r.error = q.error /\ r.cancelled = q.cancelled
    BY <1>2 DEF Resend!Push, Sane, QueueType
  <2>3. q.local = <<>> /\ q.buffer = <<>> /\ q.given = Resend!Nothing
    BY <1>2 DEF Sane, InLine
  <2>4. InQueue(r) = {v} \cap MessageId /\ InQueue(q) = {}
    BY <2>2, <2>3, <1>2 DEF InQueue
  <2>5. InLine(r)
    <3>1. q.given \notin {Resend!Done, Resend!Failed} /\ q.error = Resend!NoError /\ ~ q.cancelled /\ \A w \in {v} \cap MessageId : w \in Item
      BY <1>2 DEF Sane, InLine, Item
    <3> HIDE DEF r
    <3>2. QED
      BY <2>2, <2>3, <2>4, <3>1, <1>2 DEF InLine, Ascends
  <2>6. QED
    BY <2>1, <2>2, <2>4, <2>5, <1>2 DEF Sane, Resend!Asked
<1>3. CASE ~ q.finished /\ ~ q.ended /\ q.at # "awaits"
  <2>0. Append(q.buffer, v) \in Seq(Item)
    <3>1. q.buffer \in Seq(Item)
      BY DEF Sane, QueueType
    <3>2. QED
      BY <3>1
  <2>1. r \in QueueType
    BY <1>3, <2>0 DEF Resend!Push, Sane, QueueType
  <2>2. /\ r.finished = q.finished /\ r.local = q.local /\ r.given = q.given
        /\ (r.ended <=> v = Resend!Null) /\ r.woken = q.woken /\ r.at = q.at /\ r.error = q.error /\ r.cancelled = q.cancelled
        /\ r.buffer = Append(q.buffer, v) /\ r.cancelled = q.cancelled
    BY <1>3 DEF Resend!Push, Sane, QueueType
  <2>3. q.buffer \in Seq(Item) /\ q.local \in Seq(Item)
    BY DEF Sane, QueueType
  <2>4. /\ Len(r.buffer) = Len(q.buffer) + 1
        /\ \A i \in 1 .. Len(q.buffer) : r.buffer[i] = q.buffer[i]
        /\ r.buffer[Len(q.buffer) + 1] = v
    BY <2>2, <2>3
  <2>5. InQueue(r) = InQueue(q) \cup ({v} \cap MessageId)
    BY <2>2, <2>3, <2>4, <1>3 DEF InQueue
  <2>6. \A w \in Item : (\/ \E i \in 1 .. Len(q.buffer) : w = q.buffer[i]
                         \/ \E i \in 1 .. Len(q.local) : w = q.local[i]
                         \/ q.at = "woken" /\ w = q.woken) => Before(w, v)
    BY <1>3 DEF Before, ToGive, InQueue, Item, Sane, InLine
  <2>7. Ascends(r.buffer)
    BY <2>2, <2>3, <2>4, <2>6 DEF Sane, InLine, Ascends
  <2>8. \A i \in 1 .. Len(r.local), j \in 1 .. Len(r.buffer) : Before(r.local[i], r.buffer[j])
    BY <2>2, <2>3, <2>4, <2>6 DEF Sane, InLine
  <2>9. r.at = "woken" => \A j \in 1 .. Len(r.buffer) : Before(r.woken, r.buffer[j])
    BY <2>2, <2>3, <2>4, <2>6, <1>3 DEF Sane, InLine
  <2>10. \A w \in InQueue(r) : Before(r.given, w) \/ r.given = Resend!Nothing
    <3>1. \A w \in InQueue(q) : Before(q.given, w) \/ q.given = Resend!Nothing
      BY DEF Sane, InLine
    <3>2. v \in MessageId => Before(q.given, v) \/ q.given = Resend!Nothing
      <4>1. q.given \in MessageId => q.given \in ToGive(q)
        BY DEF ToGive
      <4>2. q.given \notin MessageId => q.given = Resend!Nothing
        BY <1>3 DEF Sane, InLine, QueueType, MessageId, Resend!Nothing
      <4>3. QED
        BY <4>1, <4>2 DEF Before
    <3>3. QED
      BY <2>2, <2>5, <3>1, <3>2
  <2>11. InLine(r)
    <3>1. /\ \A i \in 1 .. Len(q.local) : q.local[i] # Resend!Null
          /\ \A i \in 1 .. Len(q.buffer) : q.buffer[i] # Resend!Null
          /\ q.at = "woken" => q.woken # Resend!Null /\ q.woken \in Item
          /\ q.error = Resend!NoError /\ ~ q.cancelled /\ q.at \notin {"rejected", "ended"} /\ q.given \notin {Resend!Done, Resend!Failed}
          /\ q.at = "woken" => q.local = <<>> /\ q.given = Resend!Nothing
      BY <1>3 DEF Sane, InLine
    <3>2. v # Resend!Null => \A i \in 1 .. Len(r.buffer) : r.buffer[i] # Resend!Null
      BY <2>2, <2>3, <2>4, <3>1
    <3>3. Ascends(r.local)
      BY <2>2 DEF Sane, InLine
    <3> HIDE DEF r
    <3>4. QED
      BY <2>2, <2>7, <2>8, <2>9, <2>10, <3>1, <3>2, <3>3, <1>3 DEF InLine
  <2>12. QED
    BY <2>1, <2>2, <2>5, <2>11, <1>3 DEF Sane, Resend!Asked
<1>4. QED
  BY <1>1, <1>2, <1>3

LEMMA EndsEndsReading ==
    ASSUME NEW q, Sane(q), q.finished \/ (InQueue(q) = {} /\ q.ended), ~ (q.at = "awaits"),
           NEW f, f \in QueueType,
           NEW ans \in {Resend!Done, Resend!Failed},
           f.ended = q.ended, f.error = q.error
    PROVE  GoesOn(q, Resend!Ends(f, ans)) /\ EndsReading(q, Resend!Ends(f, ans))
<1> DEFINE e == [f EXCEPT !.at = "ended", !.local = <<>>, !.given = ans]
           r == Resend!Ends(f, ans)
<1>1. <<>> \in Seq(Item) /\ Resend!Done \in Int
  BY DEF Resend!Done
<1>2. e \in QueueType
  BY <1>1 DEF QueueType
<1>3. e.at = "ended" /\ e.given = ans /\ e.local = <<>> /\ e.ended = f.ended /\ e.woken = f.woken
  BY DEF QueueType
<1>4. r = [e EXCEPT !.finished = TRUE, !.error = Resend!NoError, !.buffer = <<>>, !.onEndCalled = TRUE,
                    !.at = IF e.at # "awaits" THEN e.at
                           ELSE IF e.error = Resend!NoError THEN "woken" ELSE "rejected",
                    !.woken = IF e.at = "awaits" THEN Resend!Done ELSE e.woken]
  BY DEF Resend!Ends, Resend!Cleanup
<1> HIDE DEF e, r
<1>5. /\ r.finished = TRUE /\ r.error = Resend!NoError /\ r.buffer = <<>> /\ r.local = <<>>
      /\ r.given = ans /\ r.at = "ended" /\ r.ended = q.ended
  BY <1>2, <1>3, <1>4 DEF QueueType
<1>6. r \in QueueType
  BY <1>1, <1>2, <1>3, <1>4 DEF QueueType
<1>7. InLine(r)
  BY <1>5 DEF InLine, Ascends, InQueue
<1>8. QED
  BY <1>5, <1>6, <1>7 DEF Sane, GoesOn, EndsReading, Resend!Asked, r

LEMMA ResumeGoesOn ==
    ASSUME NEW q, Sane(q), q.at \in {"woken", "rejected"}
    PROVE  GoesOn(q, Resend!Resume(q))
<1> DEFINE r == Resend!Resume(q)
<1>0. q \in QueueType /\ InLine(q)
  BY DEF Sane
<1>1. CASE q.at = "rejected" \/ q.finished
  <2>1. q.finished
    BY <1>0, <1>1 DEF InLine
  <2>2. r \in {Resend!Ends(q, Resend!Failed), Resend!Ends(q, Resend!Done)}
    BY <1>1 DEF Resend!Resume
  <2>3. QED
    BY <1>0, <2>1, <2>2, EndsEndsReading
<1>2. CASE q.at = "woken" /\ ~ q.finished /\ q.woken = Resend!Null
  <2>1. r = Resend!Ends(q, Resend!Done)
    BY <1>2 DEF Resend!Resume
  <2>2. InQueue(q) = {} /\ q.ended
    <3>1. q.local = <<>> /\ \A j \in 1 .. Len(q.buffer) : Before(q.woken, q.buffer[j])
      BY <1>0, <1>2 DEF InLine
    <3>2. q.woken \notin MessageId
      BY <1>2 DEF Resend!Null, MessageId
    <3>3. InQueue(q) = {}
      BY <1>2, <3>1, <3>2 DEF InQueue, Before
    <3>4. QED
      BY <1>0, <1>2, <3>3 DEF InLine
  <2>3. QED
    BY <1>0, <1>2, <2>1, <2>2, EndsEndsReading
<1>3. CASE q.at = "woken" /\ ~ q.finished /\ q.woken # Resend!Null
  <2>1. q.woken \in MessageId /\ q.local = <<>>
    BY <1>0, <1>3 DEF InLine, Item
  <2>2. q.woken # Resend!Failure /\ q.woken \in Nat \cup {Resend!Done, Resend!Failed}
    BY <2>1 DEF Resend!Failure, MessageId
  <2>3. r = [q EXCEPT !.at = "asleep", !.given = q.woken]
    BY <1>3, <2>2 DEF Resend!Resume, Resend!Gives
  <2>4. r \in QueueType
    BY <1>0, <2>2, <2>3 DEF QueueType
  <2>5. /\ r.at = "asleep" /\ r.given = q.woken /\ r.local = q.local /\ r.buffer = q.buffer
        /\ r.finished = q.finished /\ r.ended = q.ended /\ r.error = q.error /\ r.cancelled = q.cancelled
    BY <1>0, <2>3 DEF QueueType
  <2>6. \A j \in 1 .. Len(q.buffer) : Before(q.woken, q.buffer[j])
    BY <1>0, <1>3 DEF InLine
  <2> HIDE DEF r
  <2>7. InQueue(q) = InQueue(r) \cup {q.woken} /\ \A w \in InQueue(r) : q.woken < w
    BY <1>3, <2>1, <2>5, <2>6 DEF InQueue, Before
  <2>8. q.woken \notin InQueue(r) /\ InQueue(r) = InQueue(q) \ {q.woken}
    BY <2>1, <2>7 DEF MessageId
  <2>9. q.woken \notin {Resend!Done, Resend!Failed}
    BY <2>1 DEF MessageId, Resend!Done, Resend!Failed
  <2>10. InLine(r)
    <3>1. \A v \in InQueue(r) : Before(r.given, v)
      BY <2>1, <2>5, <2>7 DEF Before
    <3>2. QED
      BY <1>0, <1>3, <2>1, <2>5, <2>9, <3>1 DEF InLine
  <2>11. \A w \in InQueue(q) : r.given <= w
    BY <2>1, <2>5, <2>7 DEF MessageId, InQueue
  <2>12. Gives(q, r)
    BY <1>3, <2>1, <2>5, <2>7, <2>8, <2>11 DEF Gives, Resend!Asked
  <2>13. QED
    BY <2>4, <2>5, <2>10, <2>12 DEF GoesOn, Sane, r
<1>4. QED
  BY <1>1, <1>2, <1>3

LEMMA TakenTakes ==
    ASSUME NEW q, Sane(q)
    PROVE  LET r == Resend!Taken(q)
           IN  /\ Sane(r) /\ r.given = Resend!Nothing /\ InQueue(r) = InQueue(q)
               /\ r.finished = q.finished /\ r.ended = q.ended
               /\ q.given # Resend!Nothing => ~ Resend!Asked(r)
<1> DEFINE r == Resend!Taken(q)
<1>1. 0 \in Nat \cup {Resend!Done, Resend!Failed}
  OBVIOUS
<1>2. r \in QueueType
  BY <1>1 DEF Sane, QueueType, Resend!Taken, Resend!Nothing
<1>3. /\ r.given = 0 /\ r.local = q.local /\ r.buffer = q.buffer /\ r.at = q.at /\ r.woken = q.woken
      /\ r.finished = q.finished /\ r.ended = q.ended /\ r.error = q.error /\ r.cancelled = q.cancelled
  BY DEF Sane, QueueType, Resend!Taken, Resend!Nothing
<1>4. 0 \notin {Resend!Done, Resend!Failed}
  BY DEF Resend!Done, Resend!Failed
<1> HIDE DEF r
<1>5. InQueue(r) = InQueue(q)
  BY <1>3 DEF InQueue
<1>6. InLine(r)
  BY <1>3, <1>4, <1>5 DEF Sane, InLine, Resend!Nothing
<1>7. q.given # Resend!Nothing => ~ Resend!Asked(r)
  BY <1>3 DEF Sane, InLine, Resend!Asked
<1>8. QED
  BY <1>2, <1>3, <1>5, <1>6, <1>7 DEF Sane, Resend!Nothing, r

LEMMA FeedGoesOn ==
    ASSUME NEW q, Sane(q), q.given = Resend!Nothing, q.at = "asleep", ~ q.finished,
           Resend!Items(q) # <<>>
    PROVE  GoesOn(q, Resend!Feed(q))
<1> DEFINE s == Resend!Items(q)
           t == Tail(s)
           b == IF q.local # <<>> THEN q.buffer ELSE <<>>
           v == Head(s)
           fed == [q EXCEPT !.local = t, !.buffer = b]
           r == Resend!Feed(q)
<1>1. q \in QueueType /\ q.local \in Seq(Item) /\ q.buffer \in Seq(Item) /\ InLine(q)
  BY DEF Sane, QueueType
<1>2. s \in Seq(Item) /\ b \in Seq(Item) /\ Len(s) > 0 /\ Len(s) \in Nat
  BY <1>1 DEF Resend!Items
<1>3. /\ t \in Seq(Item) /\ Len(t) = Len(s) - 1 /\ \A i \in 1 .. Len(t) : t[i] = s[i + 1]
      /\ v = s[1] /\ v \in Item
  BY <1>2
<1>4. \A x \in Item : (\/ \E i \in 1 .. Len(q.local) : x = q.local[i]
                       \/ \E i \in 1 .. Len(q.buffer) : x = q.buffer[i])
        <=> (\/ \E i \in 1 .. Len(s) : x = s[i]
             \/ \E i \in 1 .. Len(b) : x = b[i])
  <2>1. CASE q.local # <<>>
    <3>1. s = q.local /\ b = q.buffer
      BY <2>1 DEF Resend!Items
    <3> HIDE DEF s, b
    <3>2. QED
      BY <3>1
  <2>2. CASE q.local = <<>>
    <3>1. s = q.buffer /\ b = <<>>
      BY <2>2 DEF Resend!Items
    <3> HIDE DEF s, b
    <3>2. Len(<<>>) = 0
      OBVIOUS
    <3>3. QED
      BY <2>2, <3>1, <3>2
  <2>3. QED
    BY <2>1, <2>2
<1>5. /\ Ascends(s) /\ Ascends(b)
      /\ \A i \in 1 .. Len(s), j \in 1 .. Len(b) : Before(s[i], b[j])
  BY <1>1 DEF InLine, Ascends, Resend!Items
<1>6. fed \in QueueType
  BY <1>1, <1>2, <1>3 DEF QueueType
<1>7. /\ fed.local = t /\ fed.buffer = b /\ fed.at = q.at /\ fed.given = q.given /\ fed.woken = q.woken
      /\ fed.finished = q.finished /\ fed.ended = q.ended /\ fed.error = q.error
      /\ fed.cancelled = q.cancelled
  BY <1>1 DEF QueueType
<1>8. r = IF v = Resend!Null THEN Resend!Ends(fed, Resend!Done)
          ELSE IF v = Resend!Failure THEN Resend!Ends(fed, Resend!Failed)
          ELSE Resend!Gives(fed, v)
  BY DEF Resend!Feed, Resend!Null, Resend!Failure
<1> HIDE DEF s, t, b, v, fed, r
<1>9. InQueue(q) = {x \in MessageId : \/ \E i \in 1 .. Len(s) : x = s[i]
                                    \/ \E i \in 1 .. Len(b) : x = b[i]}
  <2>1. \A x \in MessageId : x \in Item
    BY DEF Item
  <2>2. InQueue(q) = {x \in MessageId : \/ \E i \in 1 .. Len(q.local) : x = q.local[i]
                                      \/ \E i \in 1 .. Len(q.buffer) : x = q.buffer[i]}
    BY DEF InQueue
  <2>3. \A x \in MessageId : (\/ \E i \in 1 .. Len(q.local) : x = q.local[i]
                            \/ \E i \in 1 .. Len(q.buffer) : x = q.buffer[i])
            <=> (\/ \E i \in 1 .. Len(s) : x = s[i]
                 \/ \E i \in 1 .. Len(b) : x = b[i])
    BY <1>4, <2>1
  <2>4. QED
    BY <2>2, <2>3
<1>10. CASE v = Resend!Null
  <2>1. v \notin MessageId
    BY <1>10 DEF Resend!Null, MessageId
  <2>2. InQueue(q) = {}
    BY <1>2, <1>3, <1>5, <1>9, <2>1 DEF Ascends, Before
  <2>3. q.ended
    <3>1. \/ \E i \in 1 .. Len(q.local) : q.local[i] = v
          \/ \E i \in 1 .. Len(q.buffer) : q.buffer[i] = v
      BY <1>2, <1>3 DEF Resend!Items, s
    <3>2. QED
      BY <1>1, <1>10, <3>1 DEF InLine
  <2>4. r = Resend!Ends(fed, Resend!Done)
    BY <1>8, <1>10
  <2>5. QED
    BY <1>6, <1>7, <2>2, <2>3, <2>4, EndsEndsReading DEF r
<1>11. CASE v # Resend!Null
  <2>1. v \in MessageId
    BY <1>3, <1>11 DEF Item
  <2>2. v # Resend!Failure /\ v \notin {Resend!Done, Resend!Failed} /\ v \in Nat \cup {Resend!Done, Resend!Failed}
    BY <2>1 DEF Resend!Failure, Resend!Done, Resend!Failed, MessageId
  <2>3. r = [fed EXCEPT !.at = "asleep", !.given = v]
    BY <1>8, <1>11, <2>2 DEF Resend!Gives
  <2>4. r \in QueueType
    BY <1>6, <2>2, <2>3 DEF QueueType
  <2>5. /\ r.local = t /\ r.buffer = b /\ r.at = "asleep" /\ r.given = v /\ r.finished = q.finished
        /\ r.ended = q.ended /\ r.error = q.error /\ r.cancelled = q.cancelled
    BY <1>6, <1>7, <2>3 DEF QueueType
  <2>6. InQueue(r) = {x \in MessageId : \/ \E i \in 1 .. Len(t) : x = t[i]
                                      \/ \E i \in 1 .. Len(b) : x = b[i]}
    BY <2>5 DEF InQueue
  <2>7. \A i \in 1 .. Len(s) : i = 1 \/ (i - 1 \in 1 .. Len(t) /\ s[i] = t[i - 1])
    BY <1>2, <1>3
  <2>8. /\ \A i \in 1 .. Len(t) : Before(v, t[i])
        /\ \A i \in 1 .. Len(b) : Before(v, b[i])
    BY <1>2, <1>3, <1>5 DEF Ascends
  <2>9. \A w \in InQueue(r) : v < w
    BY <2>6, <2>8 DEF Before
  <2>10. InQueue(q) = InQueue(r) \cup {v}
    <3>1. \A x \in InQueue(q) : x \in InQueue(r) \cup {v}
      BY <1>2, <1>3, <1>9, <2>6, <2>7
    <3>2. v \in InQueue(q)
      BY <1>2, <1>3, <1>9, <2>1
    <3>3. \A i \in 1 .. Len(t) : i + 1 \in 1 .. Len(s) /\ t[i] = s[i + 1]
      BY <1>2, <1>3
    <3>4. \A x \in InQueue(r) : x \in InQueue(q)
      BY <1>9, <2>6, <3>3
    <3>5. QED
      BY <3>1, <3>2, <3>4
  <2>11. InQueue(r) = InQueue(q) \ {v} /\ \A w \in InQueue(q) : v <= w
    <3>1. InQueue(r) \subseteq Nat /\ v \in Nat
      BY <2>1 DEF MessageId, InQueue
    <3>2. v \notin InQueue(r)
      BY <2>9, <3>1
    <3>3. QED
      BY <2>9, <2>10, <3>1, <3>2
  <2>12. Ascends(t) /\ \A i \in 1 .. Len(t), j \in 1 .. Len(b) : Before(t[i], b[j])
    <3>1. \A i \in 1 .. Len(t) : i + 1 \in 1 .. Len(s) /\ t[i] = s[i + 1]
      BY <1>2, <1>3
    <3>2. \A i, j \in 1 .. Len(t) : i < j => i + 1 < j + 1
      BY <1>2, <1>3
    <3>3. Ascends(t)
      BY <1>5, <3>1, <3>2 DEF Ascends
    <3>4. QED
      BY <1>5, <3>1, <3>3
  <2>13. ~ q.ended => /\ \A i \in 1 .. Len(t) : t[i] # Resend!Null
                      /\ \A i \in 1 .. Len(b) : b[i] # Resend!Null
    <3>1. ~ q.ended => \A i \in 1 .. Len(s) : s[i] # Resend!Null
      BY <1>1 DEF InLine, Resend!Items, s
    <3>2. ~ q.ended => \A i \in 1 .. Len(b) : b[i] # Resend!Null
      BY <1>1 DEF InLine, b
    <3>3. QED
      BY <1>2, <1>3, <3>1, <3>2
  <2>14. q.error = Resend!NoError /\ ~ q.cancelled
    BY <1>1 DEF InLine
  <2>15. \A w \in InQueue(r) : Before(v, w)
    BY <2>1, <2>9 DEF Before
  <2>16. InLine(r)
    BY <1>5, <2>2, <2>5, <2>12, <2>13, <2>14, <2>15 DEF InLine
  <2>17. QED
    BY <2>1, <2>4, <2>5, <2>10, <2>11, <2>16 DEF GoesOn, Gives, Sane, Resend!Asked, r
<1>12. QED
  BY <1>10, <1>11

LEMMA NextGoesOn ==
    ASSUME NEW q, Sane(q), q.given = Resend!Nothing, ~ Resend!Asked(q)
    PROVE  GoesOn(q, Resend!Next(q))
<1> DEFINE r == Resend!Next(q)
<1>0. q \in QueueType /\ InLine(q) /\ q.at \in {"asleep", "ended"}
  BY DEF Sane, QueueType, Resend!Asked
<1>1. CASE q.at = "ended"
  <2>1. r = [q EXCEPT !.given = Resend!Done] /\ q.finished
    BY <1>0, <1>1 DEF Resend!Next, InLine
  <2>2. r \in QueueType
    BY <1>0, <2>1 DEF QueueType
  <2>3. /\ r.given = Resend!Done /\ r.local = q.local /\ r.buffer = q.buffer /\ r.at = q.at
        /\ r.finished = q.finished /\ r.ended = q.ended /\ r.error = q.error /\ r.cancelled = q.cancelled
    BY <1>0, <2>1 DEF QueueType
  <2>4. InQueue(r) = {}
    BY <2>1, <2>3 DEF InQueue
  <2> HIDE DEF r
  <2>5. InLine(r)
    BY <1>0, <1>1, <2>1, <2>3, <2>4 DEF InLine
  <2>6. QED
    BY <1>1, <2>1, <2>2, <2>3, <2>5 DEF GoesOn, EndsReading, Sane, Resend!Asked, r
<1>2. CASE q.at = "asleep" /\ q.finished
  <2>1. r \in {Resend!Ends(q, Resend!Failed), Resend!Ends(q, Resend!Done)}
    BY <1>2 DEF Resend!Next
  <2>2. QED
    BY <1>0, <1>2, <2>1, EndsEndsReading
<1>3. CASE q.at = "asleep" /\ ~ q.finished /\ Resend!Items(q) # <<>>
  <2>1. q.error = Resend!NoError
    BY <1>0, <1>3 DEF InLine
  <2>2. r = Resend!Feed(q)
    BY <1>3, <2>1 DEF Resend!Next
  <2>3. QED
    BY <1>3, <2>2, FeedGoesOn
<1>4. CASE q.at = "asleep" /\ ~ q.finished /\ Resend!Items(q) = <<>>
  <2>1. q.error = Resend!NoError /\ ~ q.cancelled /\ q.local = <<>> /\ q.buffer = <<>>
    BY <1>0, <1>4 DEF InLine, Resend!Items
  <2>2. r = [q EXCEPT !.at = "awaits", !.woken = 0]
    BY <1>4, <2>1 DEF Resend!Next, Resend!Nothing
  <2>3. r \in QueueType
    <3>1. 0 \in Int
      OBVIOUS
    <3>2. QED
      BY <1>0, <2>2, <3>1 DEF QueueType
  <2>4. /\ r.given = q.given /\ r.local = q.local /\ r.buffer = q.buffer /\ r.at = "awaits"
        /\ r.finished = q.finished /\ r.ended = q.ended /\ r.error = q.error /\ r.cancelled = q.cancelled
    BY <1>0, <2>2 DEF QueueType
  <2>5. InQueue(r) = {} /\ InQueue(q) = {}
    BY <1>4, <2>1, <2>4 DEF InQueue
  <2> HIDE DEF r
  <2>6. InLine(r)
    BY <1>0, <1>4, <2>1, <2>4, <2>5 DEF InLine
  <2>7. QED
    BY <1>4, <2>3, <2>4, <2>5, <2>6 DEF GoesOn, WaitsForMore, Sane, r
<1>5. QED
  BY <1>0, <1>1, <1>2, <1>3, <1>4

-----------------------------------------------------------------------------
(***************************************************************************)
(* Resent and live messages on their way to the subscriber.                *)
(***************************************************************************)
Early == reading \in {"new", "resends"}
SourceIsOpen == life["source"] = "open"
Got == {handed[i] : i \in 1 .. Len(handed)}
\* What the server has stored but not resent, and may never resend.
Excused(w) == w <= Stored /\ (request = "failed" \/ (request \in {"cut", "none"} /\ w >= toResend))
\* What the subscriber has to do without: it was due after the last message that was resent.
Missing(w) == isResendDone /\ w > lastRead /\ Excused(w)
Accounted(w) == w \in Got \/ w \in Bad \/ Missing(w)

ResendTypeOK ==
    /\ Sane(resends) /\ Sane(realtime) /\ Sane(ordered)
    /\ toResend \in MessageId /\ toCome \in MessageId
    /\ request \in {"adding", "asked", "resending", "over", "none", "cut", "failed"}
    /\ reading \in {"new", "resends", "realtime", "over"}
    /\ {lastRead, lastResentMsgId, lastProcessedMsgId, passed, handedBefore} \subseteq Nat
    /\ isResendDone \in BOOLEAN /\ resentEmitted \in BOOLEAN
    /\ subscriber \in {"away", "asking", "handling", "left"}
    /\ handed \in Seq(MessageId)
    /\ life \in [Resend!Pipelines -> {"open", "ending", "finally", "closing", "done"}]

\* The resent messages that were not read are all in their queue, and reading ends behind the last.
ResendsFit ==
    /\ toResend <= Stored + 1 /\ (request = "over" => toResend = Stored + 1)
    /\ resends.ended => request \in {"over", "none", "cut"}
    /\ \A v \in ToGive(resends) : v < toResend
    /\ Early =>
        /\ lastRead = passed /\ lastRead < toResend
        /\ resends.given \in MessageId => resends.given = lastRead + 1
        /\ ~ resends.finished => ToGive(resends) = lastRead + 1 .. toResend - 1
        /\ resends.finished =>
              \/ request = "failed" \/ life["source"] \in {"closing", "done"}
              \/ /\ lastRead + 1 = toResend /\ resends.ended
                 /\ resends.given \in {Resend!Done, Resend!Failed}

\* What comes before a live message has been passed on, is in the queue or is missing, or is
\* still to be read from the resends.
BeforeLive(w) ==
    w <= passed \/ Missing(w) \/ w \in ToGive(realtime) \/ (Early /\ w <= Stored)
LiveFits ==
    /\ ~ realtime.ended
    /\ \A v \in ToGive(realtime) : v < toCome
    /\ Early => realtime.given = Resend!Nothing /\ ~ Resend!Asked(realtime)
    /\ SourceIsOpen /\ ~ realtime.finished =>
           \A v \in InQueue(realtime) \cup {toCome} : \A w \in 1 .. v - 1 : BeforeLive(w)
    /\ SourceIsOpen /\ realtime.given \in MessageId =>
           \A w \in 1 .. realtime.given - 1 : w <= passed \/ Missing(w)

\* What the ordering has passed on is given in turn, and until the queue is finished nothing is lost.
OrderedFits ==
    /\ SourceIsOpen => ~ ordered.ended
    /\ subscriber \in {"away", "handling"} => ordered.given = Resend!Nothing /\ ~ Resend!Asked(ordered)
    /\ \A v \in ToGive(ordered) : v <= passed /\ \A h \in Got : h < v
    /\ subscriber = "asking" /\ ordered.given \in MessageId =>
           \A w \in 1 .. ordered.given - 1 : Accounted(w)
    /\ subscriber # "left" /\ ~ ordered.finished =>
           \A w \in 1 .. passed : Accounted(w) \/ w \in ToGive(ordered)
HandedFits ==
    /\ \A h \in Got : h <= passed /\ h \notin Bad
    /\ \A i, j \in 1 .. Len(handed) : i < j => handed[i] < handed[j]
    /\ \A h \in Got : \A w \in 1 .. h - 1 : Accounted(w)
    /\ subscriber = "away" => reading = "new"
    /\ subscriber = "handling" => handed # <<>>

\* The marks 'resent' is told by.
MarksFit ==
    /\ Early => ~ isResendDone
    /\ ~ Early => isResendDone
    /\ resentEmitted => isResendDone
    /\ isResendDone => lastResentMsgId = lastRead
    /\ isResendDone /\ lastRead = 0 => resentEmitted
    /\ lastProcessedMsgId \in Got \cup {0}
    /\ handedBefore <= Len(handed)
    /\ resentEmitted => {handed[i] : i \in 1 .. handedBefore} = (1 .. lastRead) \ Bad

ResendInv == ResendTypeOK /\ ResendsFit /\ LiveFits /\ OrderedFits /\ HandedFits /\ MarksFit

-----------------------------------------------------------------------------
\* What the queues, the request and the pipelines may do while no message moves.
QuietQueues ==
    /\ Stays(resends, resends') /\ Stays(realtime, realtime') /\ Stays(ordered, ordered')
    /\ realtime'.ended = realtime.ended /\ ordered'.ended = ordered.ended
    /\ resends.ended => resends'.ended
    /\ resends'.ended => request' \in {"over", "none", "cut"}
    /\ resends'.finished => \/ resends.finished \/ request' = "failed"
                            \/ life'["source"] \in {"closing", "done"}
QuietRequest ==
    /\ request' \in {"adding", "asked", "resending", "over", "none", "cut", "failed"}
    /\ request' = request \/ request \in {"adding", "asked", "resending"}
    /\ request' = "over" => toResend = Stored + 1
QuietPipelines ==
    /\ life' \in [Resend!Pipelines -> {"open", "ending", "finally", "closing", "done"}]
    /\ life["source"] # "open" => life'["source"] # "open"
    /\ life["source"] \in {"closing", "done"} => life'["source"] \in {"closing", "done"}
    /\ subscriber' \in {subscriber, "left"} \/ (subscriber = "handling" /\ subscriber' = "asking")
Unmoved == UNCHANGED <<toResend, toCome, reading, lastRead, isResendDone, lastResentMsgId, passed, handed>>
MarksTyped ==
    /\ {lastRead, lastResentMsgId, lastProcessedMsgId, handedBefore} \subseteq Nat
    /\ isResendDone \in BOOLEAN /\ resentEmitted \in BOOLEAN

LEMMA MarksStay ==
    ASSUME ResendInv,
           UNCHANGED <<reading, lastRead, isResendDone, lastResentMsgId, lastProcessedMsgId, resentEmitted,
                       handed, handedBefore>>
    PROVE  MarksTyped' /\ MarksFit'
BY DEF ResendInv, ResendTypeOK, MarksTyped, MarksFit, Early, Got

LEMMA StaysToGive ==
    ASSUME NEW q, NEW r, Stays(q, r)
    PROVE  /\ ToGive(r) \subseteq ToGive(q) /\ InQueue(r) \subseteq InQueue(q)
           /\ ~ r.finished => ToGive(r) = ToGive(q) /\ InQueue(r) = InQueue(q) /\ ~ q.finished
BY DEF Stays, ToGive, InQueue, Sane, QueueType

LEMMA AccountedStays ==
    ASSUME Unmoved, QuietRequest
    PROVE  \A w : (Missing(w) => Missing(w)') /\ (Accounted(w) => Accounted(w)')
BY DEF Unmoved, QuietRequest, Missing, Excused, Accounted, Got

LEMMA QuietTurnKeeps ==
    ASSUME ResendInv, QuietQueues, QuietRequest, QuietPipelines, Unmoved, MarksTyped', MarksFit'
    PROVE  ResendInv'
<1>1. ResendTypeOK'
  BY DEF ResendInv, ResendTypeOK, QuietQueues, QuietRequest, QuietPipelines, Unmoved, Stays, MarksTyped
<1>2. \A w : (Missing(w) => Missing(w)') /\ (Accounted(w) => Accounted(w)')
  BY AccountedStays
<1>3. /\ ToGive(resends') \subseteq ToGive(resends)
      /\ ~ resends'.finished => ToGive(resends') = ToGive(resends) /\ ~ resends.finished
      /\ ToGive(realtime') \subseteq ToGive(realtime)
      /\ ~ realtime'.finished => /\ ToGive(realtime') = ToGive(realtime) /\ InQueue(realtime') = InQueue(realtime)
                                 /\ ~ realtime.finished
      /\ ToGive(ordered') \subseteq ToGive(ordered)
      /\ ~ ordered'.finished => ToGive(ordered') = ToGive(ordered) /\ ~ ordered.finished
  BY StaysToGive DEF QuietQueues
<1>4. /\ resends'.given = resends.given /\ realtime'.given = realtime.given /\ ordered'.given = ordered.given
      /\ Resend!Asked(realtime') => Resend!Asked(realtime)
      /\ Resend!Asked(ordered') => Resend!Asked(ordered)
      /\ resends.finished => resends'.finished
  BY DEF QuietQueues, Stays
<1>5. Early' = Early /\ (SourceIsOpen' => SourceIsOpen) /\ Got' = Got
  BY DEF Early, SourceIsOpen, Got, Unmoved, QuietPipelines
<1>6. ResendsFit'
  <2>1. Early /\ resends'.finished =>
              \/ request' = "failed" \/ life'["source"] \in {"closing", "done"}
              \/ /\ lastRead' + 1 = toResend' /\ resends'.ended
                 /\ resends'.given \in {Resend!Done, Resend!Failed}
    BY <1>4 DEF ResendInv, ResendsFit, QuietQueues, QuietRequest, QuietPipelines, Unmoved
  <2>2. QED
    BY <1>3, <1>4, <1>5, <2>1 DEF ResendInv, ResendsFit, QuietQueues, QuietRequest, Unmoved
<1>7. LiveFits'
  <2>1. ~ realtime'.ended /\ \A v \in ToGive(realtime') : v < toCome'
    BY <1>3 DEF ResendInv, LiveFits, QuietQueues, Unmoved
  <2>2. Early' => realtime'.given = Resend!Nothing /\ ~ Resend!Asked(realtime')
    BY <1>4, <1>5 DEF ResendInv, LiveFits
  <2>3. ASSUME SourceIsOpen', ~ realtime'.finished,
               NEW v \in InQueue(realtime') \cup {toCome'}, NEW w \in 1 .. v - 1
        PROVE  BeforeLive(w)'
    <3>1. BeforeLive(w)
      BY <1>3, <1>5, <2>3 DEF ResendInv, LiveFits, Unmoved
    <3>2. QED
      BY <1>2, <1>3, <1>5, <2>3, <3>1 DEF BeforeLive, Unmoved
  <2>4. SourceIsOpen' /\ realtime'.given \in MessageId =>
           \A w \in 1 .. realtime'.given - 1 : w <= passed' \/ Missing(w)'
    BY <1>2, <1>4, <1>5 DEF ResendInv, LiveFits, Unmoved
  <2>5. QED
    BY <2>1, <2>2, <2>3, <2>4 DEF LiveFits
<1>8. OrderedFits'
  <2>1. /\ subscriber' \in {"away", "handling"} => ordered'.given = Resend!Nothing /\ ~ Resend!Asked(ordered')
        /\ subscriber' = "asking" => subscriber = "asking" \/ ordered'.given \notin MessageId
        /\ subscriber' # "left" => subscriber # "left"
    BY <1>4 DEF ResendInv, ResendTypeOK, OrderedFits, QuietPipelines, Resend!Nothing, MessageId
  <2>2. SourceIsOpen' => ~ ordered'.ended
    BY <1>5 DEF ResendInv, OrderedFits, QuietQueues
  <2>3. \A v \in ToGive(ordered') : v <= passed' /\ \A h \in Got' : h < v
    BY <1>3, <1>5 DEF ResendInv, OrderedFits, Unmoved
  <2>4. subscriber' = "asking" /\ ordered'.given \in MessageId =>
           \A w \in 1 .. ordered'.given - 1 : Accounted(w)'
    BY <1>2, <1>4, <2>1 DEF ResendInv, OrderedFits
  <2>5. subscriber' # "left" /\ ~ ordered'.finished =>
           \A w \in 1 .. passed' : Accounted(w)' \/ w \in ToGive(ordered')
    BY <1>2, <1>3, <2>1 DEF ResendInv, OrderedFits, Unmoved
  <2>6. QED
    BY <2>1, <2>2, <2>3, <2>4, <2>5 DEF OrderedFits
<1>9. HandedFits'
  BY <1>2, <1>5 DEF ResendInv, HandedFits, QuietPipelines, Unmoved
<1>10. QED
  BY <1>1, <1>6, <1>7, <1>8, <1>9 DEF ResendInv

LEMMA EndStays ==
    ASSUME NEW q, Sane(q)
    PROVE  /\ Stays(q, Resend!End(q))
           /\ Resend!End(q).ended
           /\ Resend!End(q).finished => q.finished
<1>1. CASE q.ended
  BY <1>1 DEF Resend!End, Stays
<1>2. CASE ~ q.ended
  <2> DEFINE p == Resend!Push(q, Resend!Null)
             r == [p EXCEPT !.ended = TRUE]
  <2>1. Resend!Null \in Item /\ Resend!Null \notin MessageId
    BY DEF Item, Resend!Null, MessageId
  <2>2. /\ Sane(p) /\ p.given = q.given /\ p.finished = q.finished
        /\ Resend!Asked(p) => Resend!Asked(q)
        /\ q.finished => p = q
        /\ ~ q.finished => InQueue(p) = InQueue(q)
    <3>1. Resend!Null \in MessageId => \A w \in ToGive(q) : w < Resend!Null
      BY <2>1
    <3>2. /\ Sane(p) /\ p.given = q.given /\ p.finished = q.finished
          /\ Resend!Asked(p) => Resend!Asked(q)
          /\ q.finished \/ q.ended => p = q
          /\ ~ q.finished /\ ~ q.ended => InQueue(p) = InQueue(q) \cup ({Resend!Null} \cap MessageId)
      BY <2>1, <3>1, PushAppends
    <3>3. InQueue(q) \cup ({Resend!Null} \cap MessageId) = InQueue(q)
      BY <2>1
    <3>4. QED
      BY <1>2, <3>2, <3>3
  <2>3. r = Resend!End(q)
    BY <1>2 DEF Resend!End
  <2> HIDE DEF p
  <2>4. r \in QueueType
    BY <2>2 DEF Sane, QueueType
  <2>5. /\ r.given = p.given /\ r.local = p.local /\ r.buffer = p.buffer /\ r.at = p.at
        /\ r.woken = p.woken /\ r.finished = p.finished /\ r.ended = TRUE
        /\ r.error = p.error /\ r.cancelled = p.cancelled
    BY <2>2 DEF Sane, QueueType
  <2> HIDE DEF r
  <2>6. InQueue(r) = InQueue(p)
    BY <2>5 DEF InQueue
  <2>7. InLine(r)
    BY <2>2, <2>5, <2>6 DEF Sane, InLine
  <2>8. Sane(r) /\ (Resend!Asked(r) => Resend!Asked(p))
    BY <2>4, <2>5, <2>7 DEF Sane, Resend!Asked
  <2>9. QED
    BY <2>2, <2>3, <2>5, <2>6, <2>8 DEF Stays
<1>3. QED
  BY <1>1, <1>2

LEMMA GoesOnToGive ==
    ASSUME NEW q, NEW r, Sane(q), q.given = Resend!Nothing, GoesOn(q, r)
    PROVE  /\ Sane(r) /\ r.ended = q.ended
           /\ ToGive(r) \subseteq ToGive(q) /\ InQueue(r) \subseteq InQueue(q)
           /\ ~ r.finished => ToGive(r) = ToGive(q) /\ ~ q.finished
           /\ r.given \in MessageId =>
                  ~ q.finished /\ ~ r.finished /\ r.given \in InQueue(q) /\ \A w \in ToGive(q) : r.given <= w
           /\ r.finished =>
                  /\ r.given \in {Resend!Done, Resend!Failed}
                  /\ q.finished \/ (ToGive(q) = {} /\ q.ended)
<1>1. /\ 0 \notin MessageId /\ {Resend!Done, Resend!Failed} \cap MessageId = {}
      /\ InQueue(q) \subseteq MessageId /\ InQueue(r) \subseteq MessageId
      /\ r.finished => InQueue(r) = {}
  BY DEF MessageId, Resend!Done, Resend!Failed, InQueue
<1>2. ToGive(q) = InQueue(q)
  BY <1>1 DEF ToGive, Resend!Nothing
<1>3. CASE Gives(q, r)
  BY <1>1, <1>2, <1>3 DEF Gives, GoesOn, ToGive
<1>4. CASE WaitsForMore(q, r)
  BY <1>1, <1>2, <1>4 DEF WaitsForMore, GoesOn, ToGive, Resend!Nothing
<1>5. CASE EndsReading(q, r)
  BY <1>1, <1>2, <1>5 DEF EndsReading, GoesOn, ToGive
<1>6. QED
  BY <1>3, <1>4, <1>5 DEF GoesOn

-----------------------------------------------------------------------------
(* A generator goes on, and nothing else happens.                           *)
RestStays ==
    UNCHANGED <<toResend, toCome, request, reading, lastRead, isResendDone, lastResentMsgId,
                lastProcessedMsgId, resentEmitted, passed, handed, handedBefore, subscriber, life>>

LEMMA RestKeeps ==
    ASSUME ResendInv, RestStays
    PROVE  /\ HandedFits' /\ MarksFit'
           /\ Sane(resends)' /\ Sane(realtime)' /\ Sane(ordered)' => ResendTypeOK'
           /\ resends' = resends => ResendsFit'
           /\ realtime' = realtime => LiveFits'
           /\ ordered' = ordered => OrderedFits'
           /\ Early' = Early /\ SourceIsOpen' = SourceIsOpen /\ Got' = Got
           /\ \A w : Missing(w)' = Missing(w) /\ Accounted(w)' = Accounted(w)
<1>1. Early' = Early /\ SourceIsOpen' = SourceIsOpen /\ Got' = Got
  BY DEF Early, SourceIsOpen, Got, RestStays
<1>2. \A w : Missing(w)' = Missing(w) /\ Accounted(w)' = Accounted(w)
  BY <1>1 DEF Missing, Accounted, Excused, RestStays
<1>3. HandedFits' /\ MarksFit'
  BY <1>1, <1>2 DEF ResendInv, HandedFits, MarksFit, RestStays
<1>4. Sane(resends)' /\ Sane(realtime)' /\ Sane(ordered)' => ResendTypeOK'
  BY DEF ResendInv, ResendTypeOK, RestStays
<1>5. resends' = resends => ResendsFit'
  BY <1>1 DEF ResendInv, ResendsFit, RestStays
<1>6. realtime' = realtime => LiveFits'
  BY <1>1, <1>2 DEF ResendInv, LiveFits, BeforeLive, RestStays
<1>7. ordered' = ordered => OrderedFits'
  BY <1>1, <1>2 DEF ResendInv, OrderedFits, RestStays
<1>8. QED
  BY <1>1, <1>2, <1>3, <1>4, <1>5, <1>6, <1>7

LEMMA ResendsGoOn ==
    ASSUME ResendInv, RestStays, UNCHANGED <<realtime, ordered>>,
           resends.given = Resend!Nothing, GoesOn(resends, resends')
    PROVE  ResendInv'
<1>1. /\ Sane(resends') /\ resends'.ended = resends.ended
      /\ ToGive(resends') \subseteq ToGive(resends)
      /\ ~ resends'.finished => ToGive(resends') = ToGive(resends) /\ ~ resends.finished
      /\ resends'.given \in MessageId =>
             ~ resends.finished /\ resends'.given \in InQueue(resends)
             /\ \A w \in ToGive(resends) : resends'.given <= w
      /\ resends'.finished => /\ resends'.given \in {Resend!Done, Resend!Failed}
                              /\ resends.finished \/ (ToGive(resends) = {} /\ resends.ended)
  BY GoesOnToGive DEF ResendInv, ResendTypeOK
<1>2. ResendsFit /\ toResend \in Nat /\ lastRead \in Nat
  BY DEF ResendInv, ResendTypeOK, MessageId
<1>3. ASSUME Early, resends'.given \in MessageId
      PROVE  resends'.given = lastRead + 1
  <2>1. ToGive(resends) = lastRead + 1 .. toResend - 1 /\ lastRead < toResend
    BY <1>1, <1>2, <1>3 DEF ResendsFit
  <2>2. resends'.given \in ToGive(resends) /\ \A w \in ToGive(resends) : resends'.given <= w
    BY <1>1, <1>3 DEF ToGive
  <2>3. lastRead + 1 \in ToGive(resends)
    BY <1>2, <2>1, <2>2
  <2>4. resends'.given \in lastRead + 1 .. toResend - 1 /\ resends'.given <= lastRead + 1
    BY <2>1, <2>2, <2>3
  <2>5. QED
    BY <1>2, <2>4
<1>4. ASSUME Early, resends'.finished
      PROVE  \/ request = "failed" \/ life["source"] \in {"closing", "done"}
             \/ lastRead + 1 = toResend /\ resends.ended
  <2>1. CASE resends.finished
    BY <1>2, <1>4, <2>1 DEF ResendsFit, Resend!Nothing, Resend!Done, Resend!Failed
  <2>2. CASE ~ resends.finished
    <3>1. ToGive(resends) = {} /\ resends.ended
      BY <1>1, <1>4, <2>2
    <3>2. lastRead + 1 .. toResend - 1 = {} /\ lastRead < toResend
      BY <1>2, <1>4, <2>2, <3>1 DEF ResendsFit
    <3>3. QED
      BY <1>2, <3>1, <3>2
  <2>3. QED
    BY <2>1, <2>2
<1>5. Early' = Early
  BY RestKeeps
<1>6. ResendsFit'
  BY <1>1, <1>2, <1>3, <1>4, <1>5 DEF ResendsFit, RestStays
<1>7. QED
  BY <1>1, <1>6, RestKeeps DEF ResendInv, ResendTypeOK

LEMMA RealtimeGoesOn ==
    ASSUME ResendInv, RestStays, UNCHANGED <<resends, ordered>>, ~ Early,
           realtime.given = Resend!Nothing, GoesOn(realtime, realtime')
    PROVE  ResendInv'
<1>1. /\ Sane(realtime') /\ realtime'.ended = realtime.ended
      /\ ToGive(realtime') \subseteq ToGive(realtime)
      /\ InQueue(realtime') \subseteq InQueue(realtime)
      /\ ~ realtime'.finished => ToGive(realtime') = ToGive(realtime) /\ ~ realtime.finished
      /\ realtime'.given \in MessageId =>
             ~ realtime.finished /\ realtime'.given \in InQueue(realtime)
             /\ \A w \in ToGive(realtime) : realtime'.given <= w
  BY GoesOnToGive DEF ResendInv, ResendTypeOK
<1>2. LiveFits
  BY DEF ResendInv
<1>3. Early' = Early /\ SourceIsOpen' = SourceIsOpen /\ \A w : Missing(w)' = Missing(w)
  BY RestKeeps
<1>4. ASSUME SourceIsOpen, realtime'.given \in MessageId, NEW w \in 1 .. realtime'.given - 1
      PROVE  w <= passed \/ Missing(w)
  <2>1. BeforeLive(w)
    BY <1>1, <1>2, <1>4 DEF LiveFits
  <2>2. w \notin ToGive(realtime)
    BY <1>1, <1>4 DEF MessageId
  <2>3. QED
    BY <2>1, <2>2 DEF BeforeLive
<1>5. ASSUME SourceIsOpen, ~ realtime'.finished, NEW v \in InQueue(realtime') \cup {toCome}, NEW w \in 1 .. v - 1
      PROVE  BeforeLive(w)'
  <2>1. BeforeLive(w)
    BY <1>1, <1>2, <1>5 DEF LiveFits
  <2>2. QED
    BY <1>1, <1>3, <1>5, <2>1 DEF BeforeLive, RestStays
<1>6. LiveFits'
  <2>1. ~ realtime'.ended /\ \A v \in ToGive(realtime') : v < toCome'
    BY <1>1, <1>2 DEF LiveFits, RestStays
  <2>2. SourceIsOpen' /\ ~ realtime'.finished =>
           \A v \in InQueue(realtime') \cup {toCome'} : \A w \in 1 .. v - 1 : BeforeLive(w)'
    BY <1>3, <1>5 DEF RestStays
  <2>3. SourceIsOpen' /\ realtime'.given \in MessageId =>
           \A w \in 1 .. realtime'.given - 1 : w <= passed' \/ Missing(w)'
    BY <1>3, <1>4 DEF RestStays
  <2>4. QED
    BY <1>3, <2>1, <2>2, <2>3 DEF LiveFits
<1>7. QED
  BY <1>1, <1>6, RestKeeps DEF ResendInv, ResendTypeOK

LEMMA OrderedGoesOn ==
    ASSUME ResendInv, RestStays, UNCHANGED <<resends, realtime>>, subscriber \in {"asking", "left"},
           ordered.given = Resend!Nothing, GoesOn(ordered, ordered')
    PROVE  ResendInv'
<1>1. /\ Sane(ordered') /\ ordered'.ended = ordered.ended
      /\ ToGive(ordered') \subseteq ToGive(ordered)
      /\ ~ ordered'.finished => ToGive(ordered') = ToGive(ordered) /\ ~ ordered.finished
      /\ ordered'.given \in MessageId =>
             ~ ordered.finished /\ ordered'.given \in InQueue(ordered)
             /\ \A w \in ToGive(ordered) : ordered'.given <= w
  BY GoesOnToGive DEF ResendInv, ResendTypeOK
<1>2. OrderedFits /\ passed \in Nat
  BY DEF ResendInv, ResendTypeOK
<1>3. SourceIsOpen' = SourceIsOpen /\ Got' = Got /\ \A w : Accounted(w)' = Accounted(w)
  BY RestKeeps
<1>4. ASSUME subscriber = "asking", ordered'.given \in MessageId, NEW w \in 1 .. ordered'.given - 1
      PROVE  Accounted(w)
  <2>1. ordered'.given \in ToGive(ordered)
    BY <1>1, <1>4 DEF ToGive
  <2>2. ordered'.given <= passed /\ w \in 1 .. passed
    BY <1>2, <1>4, <2>1 DEF OrderedFits, MessageId
  <2>3. w \notin ToGive(ordered)
    BY <1>1, <1>4 DEF MessageId
  <2>4. QED
    BY <1>1, <1>2, <1>4, <2>2, <2>3 DEF OrderedFits
<1>5. OrderedFits'
  BY <1>1, <1>2, <1>3, <1>4 DEF OrderedFits, RestStays
<1>6. QED
  BY <1>1, <1>5, RestKeeps DEF ResendInv, ResendTypeOK

-----------------------------------------------------------------------------
(* The server sends.                                                        *)
LEMMA UnicastKeeps == ASSUME ResendInv, Resend!Unicast PROVE ResendInv'
<1>1. /\ request = "resending" /\ toResend <= Stored
      /\ resends' = Resend!Push(resends, toResend) /\ toResend' = toResend + 1
      /\ UNCHANGED <<realtime, ordered, toCome, request, reading, lastRead, isResendDone, lastResentMsgId,
                     lastProcessedMsgId, resentEmitted, handedBefore, passed, subscriber, handed, life>>
  BY DEF Resend!Unicast, Resend!marks, Resend!reader, Resend!pipes
<1>2. ResendTypeOK /\ ResendsFit /\ ~ resends.ended /\ toResend \in MessageId /\ lastRead \in Nat
  BY <1>1 DEF ResendInv, ResendsFit, ResendTypeOK
<1>3. \A v \in ToGive(resends) : v < toResend
  BY <1>2 DEF ResendsFit
<1>4. /\ Sane(resends') /\ resends'.given = resends.given /\ resends'.finished = resends.finished
      /\ ~ resends'.ended
      /\ resends.finished => resends' = resends
      /\ ~ resends.finished => InQueue(resends') = InQueue(resends) \cup {toResend}
  <2>1. toResend \in Item /\ toResend # Resend!Null /\ {toResend} \cap MessageId = {toResend}
    BY <1>2 DEF Item, Resend!Null, MessageId
  <2>2. Sane(resends)
    BY <1>2 DEF ResendTypeOK
  <2>3. QED
    BY <1>1, <1>2, <1>3, <2>1, <2>2, PushAppends
<1>5. /\ resends.finished => ToGive(resends') = ToGive(resends)
      /\ ~ resends.finished => ToGive(resends') = ToGive(resends) \cup {toResend}
  BY <1>4 DEF ToGive
<1>6. Early' = Early /\ SourceIsOpen' = SourceIsOpen /\ Got' = Got
      /\ \A w : Missing(w)' = Missing(w) /\ Accounted(w)' = Accounted(w)
  BY <1>1 DEF Early, SourceIsOpen, Got, Missing, Accounted, Excused
<1>7. ResendTypeOK'
  <2>1. toResend' \in MessageId
    BY <1>1, <1>2 DEF MessageId
  <2>2. QED
    BY <1>1, <1>2, <1>4, <2>1 DEF ResendTypeOK
<1>8. ResendsFit'
  <2>1. Stored \in Nat
    BY ReceivingAssumption
  <2>2. toResend' <= Stored + 1 /\ \A v \in ToGive(resends') : v < toResend'
    BY <1>1, <1>2, <1>3, <1>5, <2>1 DEF MessageId, ToGive, InQueue
  <2>3. Early /\ ~ resends.finished => ToGive(resends') = lastRead + 1 .. toResend' - 1
    <3>1. Early => lastRead < toResend /\ (~ resends.finished => ToGive(resends) = lastRead + 1 .. toResend - 1)
      BY <1>2 DEF ResendsFit
    <3>2. toResend \in Int /\ lastRead \in Int
      BY <1>2 DEF MessageId
    <3>3. lastRead < toResend => lastRead + 1 .. toResend = (lastRead + 1 .. toResend - 1) \cup {toResend}
      BY <3>2
    <3>4. toResend' - 1 = toResend
      BY <1>1, <3>2
    <3>5. QED
      BY <1>5, <3>1, <3>3, <3>4
  <2>4. Early /\ resends.finished => request = "failed" \/ life["source"] \in {"closing", "done"}
    BY <1>2 DEF ResendsFit
  <2>5. Early => lastRead < toResend'
    BY <1>1, <1>2 DEF ResendsFit, MessageId
  <2>6. QED
    BY <1>1, <1>2, <1>4, <1>6, <2>2, <2>3, <2>4, <2>5 DEF ResendsFit
<1>9. LiveFits' /\ OrderedFits' /\ HandedFits' /\ MarksFit'
  BY <1>1, <1>6 DEF ResendInv, LiveFits, BeforeLive, OrderedFits, HandedFits, MarksFit
<1>10. QED
  BY <1>7, <1>8, <1>9 DEF ResendInv

LEMMA BroadcastKeeps == ASSUME ResendInv, Resend!Broadcast PROVE ResendInv'
<1>1. /\ realtime' = Resend!Push(realtime, toCome) /\ toCome' = toCome + 1
      /\ UNCHANGED <<resends, ordered, toResend, request, reading, lastRead, isResendDone, lastResentMsgId,
                     lastProcessedMsgId, resentEmitted, handedBefore, passed, subscriber, handed, life>>
  BY DEF Resend!Broadcast, Resend!marks, Resend!reader, Resend!pipes
<1>2. ResendTypeOK /\ LiveFits /\ ~ realtime.ended /\ toCome \in MessageId
  BY DEF ResendInv, LiveFits, ResendTypeOK
<1>3. \A v \in ToGive(realtime) : v < toCome
  BY <1>2 DEF LiveFits
<1>4. /\ Sane(realtime') /\ realtime'.given = realtime.given /\ realtime'.finished = realtime.finished
      /\ ~ realtime'.ended /\ (Resend!Asked(realtime') => Resend!Asked(realtime))
      /\ realtime.finished => realtime' = realtime
      /\ ~ realtime.finished => InQueue(realtime') = InQueue(realtime) \cup {toCome}
  <2>1. toCome \in Item /\ toCome # Resend!Null /\ {toCome} \cap MessageId = {toCome}
    BY <1>2 DEF Item, Resend!Null, MessageId
  <2>2. Sane(realtime)
    BY <1>2 DEF ResendTypeOK
  <2>3. QED
    BY <1>1, <1>2, <1>3, <2>1, <2>2, PushAppends
<1>5. /\ resends' = resends
      /\ realtime.finished => ToGive(realtime') = ToGive(realtime)
      /\ ~ realtime.finished => ToGive(realtime') = ToGive(realtime) \cup {toCome}
  BY <1>1, <1>4 DEF ToGive
<1>6. Early' = Early /\ SourceIsOpen' = SourceIsOpen /\ Got' = Got
      /\ \A w : Missing(w)' = Missing(w) /\ Accounted(w)' = Accounted(w)
  BY <1>1 DEF Early, SourceIsOpen, Got, Missing, Accounted, Excused
<1>7. ResendTypeOK'
  <2>1. toCome' \in MessageId
    BY <1>1, <1>2 DEF MessageId
  <2>2. QED
    BY <1>1, <1>2, <1>4, <2>1 DEF ResendTypeOK
<1>8. LiveFits'
  <2>1. \A v \in ToGive(realtime') : v < toCome'
    <3>1. \A v \in ToGive(realtime) : v \in Nat
      BY DEF ToGive, InQueue, MessageId
    <3>2. toCome \in Nat
      BY <1>2 DEF MessageId
    <3>3. QED
      BY <1>1, <1>3, <1>5, <3>1, <3>2
  <2>2. ASSUME SourceIsOpen, ~ realtime.finished, NEW v \in InQueue(realtime') \cup {toCome'}, NEW w \in 1 .. v - 1
        PROVE  BeforeLive(w)'
    <3>1. \/ w = toCome
          \/ w \in 1 .. toCome - 1
          \/ v \in InQueue(realtime)
      BY <1>1, <1>2, <1>4, <2>2 DEF MessageId
    <3>2. w = toCome \/ BeforeLive(w)
      BY <1>2, <2>2, <3>1 DEF LiveFits
    <3>3. w = toCome => w \in ToGive(realtime')
      BY <1>5, <2>2
    <3>4. BeforeLive(w) => BeforeLive(w)'
      BY <1>1, <1>5, <1>6 DEF BeforeLive
    <3>5. QED
      BY <3>2, <3>3, <3>4 DEF BeforeLive
  <2>3. QED
    BY <1>1, <1>2, <1>4, <1>6, <2>1, <2>2 DEF LiveFits
<1>9. ResendsFit' /\ OrderedFits' /\ HandedFits' /\ MarksFit'
  BY <1>1, <1>6 DEF ResendInv, ResendsFit, OrderedFits, HandedFits, MarksFit
<1>10. QED
  BY <1>7, <1>8, <1>9 DEF ResendInv

-----------------------------------------------------------------------------
(* The marks of 'resent'.                                                   *)
LEMMA MarksAfterResends ==
    ASSUME ResendInv, Early, NEW v \in {lastRead, lastRead + 1}, Resend!HandledResends(v),
           ~ Early', UNCHANGED <<handed>>
    PROVE  MarksTyped' /\ MarksFit'
<1>1. /\ lastRead' = v /\ lastResentMsgId' = v /\ isResendDone' = TRUE
      /\ lastProcessedMsgId' = lastProcessedMsgId /\ handed' = handed
      /\ resentEmitted' = (resentEmitted \/ (~ resentEmitted /\ (v = 0 \/ lastProcessedMsgId = v)))
      /\ handedBefore' = IF resentEmitted' /\ ~ resentEmitted THEN Len(handed) ELSE handedBefore
  BY DEF Resend!HandledResends, Resend!MaybeEmitResend, Resend!ResentIsDue, Resend!Nothing
<1>2. /\ ~ isResendDone /\ ~ resentEmitted /\ lastRead = passed /\ v \in Nat /\ lastRead \in Nat
      /\ handed \in Seq(MessageId) /\ lastProcessedMsgId \in Nat /\ handedBefore \in Nat
      /\ lastProcessedMsgId \in Got \cup {0} /\ handedBefore <= Len(handed) /\ Len(handed) \in Nat
  BY DEF ResendInv, ResendTypeOK, MarksFit, ResendsFit
<1>3. \A h \in Got : h \in MessageId /\ h <= lastRead /\ h \notin Bad
  BY <1>2 DEF ResendInv, HandedFits, Got
<1>4. \A h \in Got : \A w \in 1 .. h - 1 : w \in Got \/ w \in Bad
  BY <1>2 DEF ResendInv, HandedFits, Accounted, Missing
<1>5. Got' = Got /\ (resentEmitted' <=> v = 0 \/ lastProcessedMsgId = v)
  BY <1>1, <1>2 DEF Got
<1>6. ASSUME resentEmitted'
      PROVE  {handed[i] : i \in 1 .. Len(handed)} = (1 .. v) \ Bad
  <2>1. CASE v = 0
    <3>1. v = lastRead
      BY <1>2, <2>1
    <3>2. Got = {}
      BY <1>2, <1>3, <2>1, <3>1 DEF MessageId
    <3>3. (1 .. v) \ Bad = {}
      BY <2>1
    <3>4. QED
      BY <3>2, <3>3 DEF Got
  <2>2. CASE v # 0
    <3>1. v \in Got
      BY <1>2, <1>5, <1>6, <2>2
    <3>2. v <= lastRead
      BY <1>3, <3>1
    <3>3. v = lastRead
      BY <1>2, <3>2
    <3>4. \A h \in Got : h \in (1 .. v) \ Bad
      BY <1>2, <1>3, <3>3 DEF MessageId
    <3>5. \A w \in (1 .. v) \ Bad : w = v \/ w \in 1 .. v - 1
      BY <1>2
    <3>6. \A w \in (1 .. v) \ Bad : w \in Got
      BY <1>4, <3>1, <3>5
    <3>7. QED
      BY <3>4, <3>6 DEF Got
  <2>3. QED
    BY <2>1, <2>2
<1>7. handedBefore' \in Nat /\ handedBefore' <= Len(handed) /\ (resentEmitted' => handedBefore' = Len(handed))
  BY <1>1, <1>2
<1>8. resentEmitted' \in BOOLEAN
  BY <1>1, <1>2
<1>9. resentEmitted' => {handed'[i] : i \in 1 .. handedBefore'} = (1 .. lastRead') \ Bad
  BY <1>1, <1>6, <1>7
<1>10. QED
  BY <1>1, <1>2, <1>5, <1>7, <1>8, <1>9 DEF MarksTyped, MarksFit

LEMMA MarksAfterProcessing ==
    ASSUME ResendInv, handed # <<>>, Resend!DetectEndOfResend, UNCHANGED <<reading, handed>>
    PROVE  MarksTyped' /\ MarksFit' /\ UNCHANGED <<lastRead, isResendDone, lastResentMsgId>>
<1> DEFINE v == handed[Len(handed)]
<1>1. /\ lastProcessedMsgId' = v /\ handed' = handed
      /\ UNCHANGED <<lastRead, isResendDone, lastResentMsgId, reading>>
      /\ resentEmitted' = (resentEmitted \/ (~ resentEmitted /\ isResendDone /\ (lastResentMsgId = 0 \/ v = lastResentMsgId)))
      /\ handedBefore' = IF resentEmitted' /\ ~ resentEmitted THEN Len(handed) ELSE handedBefore
  BY DEF Resend!DetectEndOfResend, Resend!MaybeEmitResend, Resend!ResentIsDue, Resend!Nothing
<1>2. ResendTypeOK /\ MarksFit /\ HandedFits
  BY DEF ResendInv
<1>3. handed \in Seq(MessageId) /\ Len(handed) \in 1 .. Len(handed) /\ v \in MessageId /\ v \in Got
  BY <1>2 DEF ResendTypeOK, Got
<1> HIDE DEF v
<1>4. Got' = Got /\ Early' = Early
  BY <1>1 DEF Got, Early
<1>5. ASSUME resentEmitted', ~ resentEmitted
      PROVE  Got = (1 .. lastRead) \ Bad /\ isResendDone
  <2>1. isResendDone /\ v = lastRead
    BY <1>1, <1>2, <1>5 DEF MarksFit
  <2>2. \A i \in 1 .. Len(handed) : i = Len(handed) \/ i < Len(handed)
    BY <1>3
  <2>3. \A h \in Got : h = v \/ h < v
    BY <1>2, <1>3, <2>2 DEF HandedFits, Got, v
  <2>4. \A h \in Got : h \in (1 .. lastRead) \ Bad
    <3>1. \A h \in Got : h \in MessageId /\ h \notin Bad
      BY <1>2, <1>3 DEF HandedFits, Got
    <3>2. QED
      BY <1>3, <2>1, <2>3, <3>1 DEF MessageId
  <2>5. \A w \in (1 .. lastRead) \ Bad : w = v \/ w \in 1 .. v - 1
    BY <1>3, <2>1 DEF MessageId
  <2>6. \A w \in 1 .. v - 1 : Accounted(w) /\ ~ (w > lastRead)
    BY <1>2, <1>3, <2>1 DEF HandedFits, MessageId
  <2>7. \A w \in (1 .. lastRead) \ Bad : w \in Got
    BY <1>3, <2>5, <2>6 DEF Accounted, Missing
  <2>8. QED
    BY <2>1, <2>4, <2>7
<1>6. MarksTyped'
  <2>1. Len(handed) \in Nat
    BY <1>3
  <2>2. QED
    BY <1>1, <1>2, <1>3, <2>1 DEF ResendTypeOK, MarksTyped, MessageId
<1>7. handedBefore' <= Len(handed)
  BY <1>1, <1>2, <1>3 DEF MarksFit
<1>8. resentEmitted' => {handed'[i] : i \in 1 .. handedBefore'} = (1 .. lastRead') \ Bad
  <2>1. CASE resentEmitted
    BY <1>1, <1>2, <2>1 DEF MarksFit
  <2>2. CASE resentEmitted' /\ ~ resentEmitted
    <3>1. handedBefore' = Len(handed) /\ handed' = handed /\ lastRead' = lastRead
      BY <1>1, <2>2
    <3>2. QED
      BY <1>5, <2>2, <3>1 DEF Got
  <2>3. QED
    BY <2>1, <2>2
<1>9. resentEmitted' => isResendDone'
  BY <1>1, <1>2 DEF MarksFit
<1>10. MarksFit'
  BY <1>1, <1>2, <1>3, <1>4, <1>7, <1>8, <1>9 DEF MarksFit
<1>11. QED
  BY <1>1, <1>6, <1>10

-----------------------------------------------------------------------------
(* The source reads.                                                        *)
LEMMA OrderPushes ==
    ASSUME ResendInv, NEW v \in MessageId, v > passed, SourceIsOpen,
           passed' = v, ordered' = Resend!Push(ordered, v),
           \A w \in passed + 1 .. v - 1 : Missing(w)',
           \A w : Accounted(w) => Accounted(w)',
           UNCHANGED <<handed, subscriber, life>>
    PROVE  Sane(ordered') /\ OrderedFits'
<1>1. ResendTypeOK /\ OrderedFits /\ HandedFits /\ ~ ordered.ended /\ passed \in Nat /\ v \in Nat
  BY DEF ResendInv, ResendTypeOK, OrderedFits, MessageId
<1>2. \A w \in ToGive(ordered) : w <= passed /\ w \in Nat /\ w < v
  BY <1>1 DEF OrderedFits, ToGive, InQueue, MessageId
<1>3. /\ Sane(ordered') /\ ordered'.given = ordered.given /\ ordered'.finished = ordered.finished
      /\ ~ ordered'.ended /\ (Resend!Asked(ordered') => Resend!Asked(ordered))
      /\ ordered.finished => ordered' = ordered
      /\ ~ ordered.finished => InQueue(ordered') = InQueue(ordered) \cup {v}
  <2>1. v \in Item /\ v # Resend!Null /\ {v} \cap MessageId = {v}
    BY <1>1 DEF Item, Resend!Null, MessageId
  <2>2. Sane(ordered)
    BY <1>1 DEF ResendTypeOK
  <2>3. QED
    BY <1>1, <1>2, <2>1, <2>2, PushAppends
<1>4. /\ ordered.finished => ToGive(ordered') = ToGive(ordered)
      /\ ~ ordered.finished => ToGive(ordered') = ToGive(ordered) \cup {v}
  BY <1>3 DEF ToGive
<1>5. Got' = Got /\ SourceIsOpen' = SourceIsOpen /\ \A h \in Got : h \in Nat /\ h < v
  <2>1. \A h \in Got : h \in Nat /\ h <= passed
    BY <1>1 DEF HandedFits, ResendTypeOK, Got, MessageId
  <2>2. QED
    BY <1>1, <2>1 DEF Got, SourceIsOpen
<1>6. \A w \in ToGive(ordered') : w <= passed' /\ \A h \in Got' : h < w
  BY <1>1, <1>2, <1>4, <1>5 DEF OrderedFits
<1>7. subscriber = "asking" /\ ordered'.given \in MessageId =>
           \A w \in 1 .. ordered'.given - 1 : Accounted(w)'
  BY <1>1, <1>3 DEF OrderedFits
<1>8. ASSUME subscriber # "left", ~ ordered.finished, NEW w \in 1 .. passed'
      PROVE  Accounted(w)' \/ w \in ToGive(ordered')
  <2>1. w \in 1 .. passed \/ w \in passed + 1 .. v - 1 \/ w = v
    BY <1>1
  <2>2. w \in 1 .. passed => Accounted(w)' \/ w \in ToGive(ordered')
    BY <1>1, <1>4, <1>8 DEF OrderedFits
  <2>3. QED
    BY <1>4, <1>8, <2>1, <2>2 DEF Accounted
<1>9. QED
  BY <1>1, <1>3, <1>5, <1>6, <1>7, <1>8 DEF OrderedFits

\* The resends are left, for the live messages or for good.
LEMMA LeavingKeepsFit ==
    ASSUME ResendInv, reading = "resends", reading' \in {"realtime", "over"},
           NEW v \in {lastRead, lastRead + 1}, Resend!HandledResends(v),
           Sane(resends'), ToGive(resends') \subseteq ToGive(resends), resends'.ended = resends.ended,
           Stays(ordered, ordered'), ordered'.ended = ordered.ended,
           UNCHANGED <<realtime, toResend, toCome, request, passed, subscriber, handed>>,
           life' \in [Resend!Pipelines -> {"open", "ending", "finally", "closing", "done"}],
           SourceIsOpen' =>
               SourceIsOpen /\ v = lastRead /\ \A w \in 1 .. Stored : w <= lastRead \/ Excused(w)
    PROVE  ResendInv'
<1>1. Early /\ ~ Early' /\ Got' = Got
  BY DEF Early, Got
<1>2. MarksTyped' /\ MarksFit'
  BY <1>1, MarksAfterResends
<1>3. ResendTypeOK /\ ~ isResendDone /\ isResendDone' = TRUE /\ lastRead' = v /\ lastRead = passed
  BY <1>1 DEF ResendInv, MarksFit, ResendsFit, Resend!HandledResends
<1>4. ResendTypeOK'
  BY <1>2, <1>3 DEF ResendTypeOK, MarksTyped, Stays
<1>5. \A w : ~ Missing(w) /\ (Accounted(w) => Accounted(w)') /\ Excused(w)' = Excused(w)
  BY <1>1, <1>3 DEF Missing, Accounted, Excused
<1>6. ResendsFit'
  BY <1>1, <1>4 DEF ResendInv, ResendsFit
<1>7. LiveFits'
  <2>1. ASSUME SourceIsOpen', ~ realtime.finished, NEW u \in InQueue(realtime) \cup {toCome}, NEW w \in 1 .. u - 1
        PROVE  BeforeLive(w)'
    <3>1. SourceIsOpen /\ BeforeLive(w) /\ w \in Nat \ {0}
      <4>1. u \in MessageId
        BY <1>3 DEF ResendTypeOK, InQueue
      <4>2. w \in Nat \ {0}
        BY <4>1 DEF MessageId
      <4>3. QED
        BY <2>1, <4>2 DEF ResendInv, LiveFits
    <3>2. CASE w <= passed \/ w \in ToGive(realtime)
      BY <3>2 DEF BeforeLive
    <3>3. CASE w <= Stored /\ ~ (w <= passed)
      <4>1. w \in 1 .. Stored
        BY <3>1, <3>3, ReceivingAssumption
      <4>2. Excused(w) /\ ~ (w <= lastRead)
        BY <1>3, <2>1, <3>3, <4>1
      <4>3. w > lastRead'
        <5>1. v = lastRead
          BY <2>1
        <5>2. QED
          BY <1>3, <3>1, <4>2, <5>1 DEF ResendTypeOK
      <4>4. QED
        BY <1>3, <1>5, <4>2, <4>3 DEF BeforeLive, Missing
    <3>4. QED
      BY <1>5, <3>1, <3>2, <3>3 DEF BeforeLive
  <2>2. realtime.given = Resend!Nothing /\ realtime.given \notin MessageId
    BY <1>1 DEF ResendInv, LiveFits, Resend!Nothing, MessageId
  <2>3. QED
    BY <1>1, <2>1, <2>2 DEF ResendInv, LiveFits
<1>8. OrderedFits'
  <2>1. /\ ordered'.given = ordered.given /\ (Resend!Asked(ordered') => Resend!Asked(ordered))
        /\ ToGive(ordered') \subseteq ToGive(ordered)
        /\ ~ ordered'.finished => ToGive(ordered') = ToGive(ordered) /\ ~ ordered.finished
    BY StaysToGive DEF Stays
  <2>2. SourceIsOpen' => ~ ordered'.ended
    BY DEF ResendInv, OrderedFits
  <2>3. QED
    BY <1>1, <1>5, <2>1, <2>2 DEF ResendInv, OrderedFits
<1>9. HandedFits'
  BY <1>1, <1>5 DEF ResendInv, HandedFits
<1>10. QED
  BY <1>2, <1>4, <1>6, <1>7, <1>8, <1>9 DEF ResendInv

\* What becomes of life when the source ends, or the subscription.
LEMMA EndingIsTyped ==
    ASSUME ResendTypeOK, NEW p \in Resend!Pipelines
    PROVE  /\ Resend!Ending(p) \in [Resend!Pipelines -> {"open", "ending", "finally", "closing", "done"}]
           /\ p = "source" => Resend!Ending(p)["source"] # "open"
           /\ p = "sub" => Resend!Ending(p)["source"] = life["source"]
BY DEF ResendTypeOK, Resend!Ending, Resend!Pipelines

LEMMA TakenToGive ==
    ASSUME NEW q, Sane(q)
    PROVE  LET r == Resend!Taken(q)
           IN  /\ Sane(r) /\ ToGive(r) = InQueue(q) /\ InQueue(r) = InQueue(q) /\ r.given = Resend!Nothing
               /\ r.finished = q.finished /\ r.ended = q.ended
               /\ q.given # Resend!Nothing => ~ Resend!Asked(r)
               /\ InQueue(q) \subseteq ToGive(q)
               /\ q.given \in MessageId =>
                      ToGive(q) = InQueue(q) \cup {q.given} /\ \A w \in InQueue(q) : q.given < w
<1>1. 0 \notin MessageId
  BY DEF MessageId
<1>2. q.given \in MessageId => \A w \in InQueue(q) : q.given < w
  BY <1>1 DEF Sane, InLine, InQueue, Before, Resend!Nothing
<1>3. QED
  BY <1>1, <1>2, TakenTakes DEF ToGive, Resend!Nothing

LEMMA GivenMessage ==
    ASSUME NEW q, Sane(q), q.given > 0
    PROVE  q.given \in MessageId
<1>1. q.given \in Nat \cup {Resend!Done, Resend!Failed}
  BY DEF Sane, QueueType
<1>2. q.given \in Nat
  BY <1>1 DEF Resend!Done, Resend!Failed
<1>3. QED
  BY <1>2 DEF MessageId

LEMMA ResentMessageKeeps == ASSUME ResendInv, Resend!ResentMessage PROVE ResendInv'
<1> DEFINE v == resends.given
<1>1. /\ reading = "resends" /\ v > 0 /\ resends' = Resend!Taken(resends)
      /\ UNCHANGED <<realtime, toResend, toCome, request, subscriber, handed, life>>
  BY DEF Resend!ResentMessage, Resend!reader, Resend!pipes, Resend!server
<1>2. ResendTypeOK /\ ResendsFit /\ Early /\ Sane(resends) /\ v \in MessageId
  BY <1>1, GivenMessage DEF ResendInv, ResendTypeOK, Early
<1>3. v = lastRead + 1 /\ lastRead = passed /\ lastRead \in Nat /\ toResend \in Nat /\ v > passed
  BY <1>2 DEF ResendsFit, ResendTypeOK, MessageId
<1>4. /\ Sane(resends') /\ ToGive(resends') = InQueue(resends) /\ InQueue(resends') = InQueue(resends)
      /\ resends'.given = Resend!Nothing
      /\ resends'.finished = resends.finished /\ resends'.ended = resends.ended
      /\ InQueue(resends) \subseteq ToGive(resends)
      /\ ToGive(resends) = InQueue(resends) \cup {v} /\ \A w \in InQueue(resends) : v < w
  BY <1>1, <1>2, TakenToGive
<1>5. CASE SourceIsOpen
  <2>1. /\ lastRead' = v /\ passed' = v /\ ordered' = Resend!Push(ordered, v)
        /\ UNCHANGED <<reading, isResendDone, lastResentMsgId, lastProcessedMsgId, resentEmitted, handedBefore>>
    BY <1>1, <1>3, <1>5 DEF Resend!ResentMessage, Resend!Order, SourceIsOpen
  <2>2. ~ isResendDone /\ ~ isResendDone' /\ Early' /\ Got' = Got /\ SourceIsOpen'
    BY <1>1, <1>2, <1>5, <2>1 DEF ResendInv, MarksFit, Early, Got, SourceIsOpen
  <2>3. \A w : ~ Missing(w) /\ (Accounted(w) => Accounted(w)')
    BY <2>2 DEF Missing, Accounted
  <2>4. Sane(ordered') /\ OrderedFits'
    <3>1. passed + 1 .. v - 1 = {}
      BY <1>3
    <3>2. QED
      BY <1>1, <1>2, <1>3, <1>5, <2>1, <2>3, <3>1, OrderPushes
  <2>5. ResendTypeOK'
    BY <1>1, <1>2, <1>4, <2>1, <2>4 DEF ResendTypeOK, MessageId
  <2>6. ResendsFit'
    <3>1. \A w \in ToGive(resends') : w < toResend
      BY <1>2, <1>4 DEF ResendsFit
    <3>2. v < toResend
      BY <1>2, <1>4 DEF ResendsFit
    <3>3. ~ resends.finished => ToGive(resends') = v + 1 .. toResend - 1
      <4>1. ~ resends.finished => InQueue(resends) \cup {v} = lastRead + 1 .. toResend - 1
        BY <1>2, <1>4 DEF ResendsFit
      <4>2. lastRead + 1 .. toResend - 1 = (v + 1 .. toResend - 1) \cup {v}
        BY <1>3, <3>2
      <4>3. v \notin v + 1 .. toResend - 1 /\ v \notin InQueue(resends)
        BY <1>3, <1>4
      <4>4. QED
        BY <1>4, <4>1, <4>2, <4>3
    <3>4. resends.finished => request = "failed" \/ life["source"] \in {"closing", "done"}
      BY <1>2 DEF ResendsFit, MessageId, Resend!Done, Resend!Failed
    <3>5. resends'.given \notin MessageId
      BY <1>4 DEF MessageId, Resend!Nothing
    <3>6. QED
      BY <1>1, <1>2, <1>4, <2>1, <3>1, <3>2, <3>3, <3>4, <3>5 DEF ResendsFit
  <2>7. LiveFits'
    <3>1. \A w \in Nat : w <= passed => w <= passed'
      BY <1>3, <2>1
    <3>2. ASSUME ~ realtime.finished, NEW u \in InQueue(realtime) \cup {toCome}, NEW w \in 1 .. u - 1
          PROVE  BeforeLive(w)'
      <4>1. u \in Nat /\ w \in Nat
        BY <1>2 DEF ResendTypeOK, InQueue, MessageId
      <4>2. BeforeLive(w)
        BY <1>5, <3>2 DEF ResendInv, LiveFits
      <4>3. QED
        BY <1>1, <1>2, <2>2, <2>3, <3>1, <4>1, <4>2 DEF BeforeLive
    <3>3. realtime.given = Resend!Nothing /\ realtime.given \notin MessageId
      BY <1>2 DEF ResendInv, LiveFits, Resend!Nothing, MessageId
    <3>4. realtime' = realtime /\ toCome' = toCome
      BY <1>1
    <3>5. ~ realtime.ended /\ (\A u \in ToGive(realtime) : u < toCome) /\ ~ Resend!Asked(realtime)
      BY <1>2 DEF ResendInv, LiveFits
    <3>6. QED
      BY <3>2, <3>3, <3>4, <3>5 DEF LiveFits
  <2>8. HandedFits'
    <3>1. \A h \in Got : h \in Nat /\ h <= passed'
      <4>1. \A h \in Got : h \in Nat /\ h <= passed
        BY <1>2 DEF ResendInv, HandedFits, Got, ResendTypeOK, MessageId
      <4>2. QED
        BY <1>3, <2>1, <4>1
    <3>2. QED
      BY <1>1, <2>1, <2>2, <2>3, <3>1 DEF ResendInv, HandedFits
  <2>9. MarksFit'
    BY <1>1, <2>1, <2>2 DEF ResendInv, MarksFit
  <2>10. QED
    BY <2>4, <2>5, <2>6, <2>7, <2>8, <2>9 DEF ResendInv
<1>6. CASE ~ SourceIsOpen
  <2>1. Resend!HandledResends(v) /\ reading' = "over" /\ UNCHANGED <<passed, ordered>>
    BY <1>1, <1>6 DEF Resend!ResentMessage, SourceIsOpen
  <2>2. ~ SourceIsOpen'
    BY <1>1, <1>6 DEF SourceIsOpen
  <2>3. Stays(ordered, ordered') /\ ordered'.ended = ordered.ended
    BY <1>2, <2>1 DEF Stays, ResendTypeOK
  <2>4. life' \in [Resend!Pipelines -> {"open", "ending", "finally", "closing", "done"}]
    BY <1>1, <1>2 DEF ResendTypeOK
  <2>5. v \in {lastRead, lastRead + 1}
    BY <1>3
  <2>6. QED
    BY <1>1, <1>4, <2>1, <2>2, <2>3, <2>4, <2>5, LeavingKeepsFit
<1>7. QED
  BY <1>5, <1>6

LEMMA ResendThenRealtimeKeeps == ASSUME ResendInv, Resend!ResendThenRealtime PROVE ResendInv'
<1>1. /\ reading = "resends" /\ resends.given = Resend!Done /\ Resend!HandledResends(lastRead)
      /\ resends' = Resend!Taken(resends)
      /\ reading' = IF SourceIsOpen THEN "realtime" ELSE "over"
      /\ UNCHANGED <<realtime, ordered, toResend, toCome, request, passed, subscriber, handed, life>>
  BY DEF Resend!ResendThenRealtime, Resend!reader, Resend!pipes, Resend!server, SourceIsOpen
<1>2. ResendTypeOK /\ ResendsFit /\ Early /\ Sane(resends)
  BY <1>1 DEF ResendInv, ResendTypeOK, Early
<1>3. /\ Sane(resends') /\ ToGive(resends') \subseteq ToGive(resends) /\ resends'.ended = resends.ended
  BY <1>1, <1>2, TakenToGive
<1>4. Stays(ordered, ordered') /\ ordered'.ended = ordered.ended
  BY <1>1, <1>2 DEF Stays, ResendTypeOK
<1>5. /\ life' \in [Resend!Pipelines -> {"open", "ending", "finally", "closing", "done"}]
      /\ SourceIsOpen' => SourceIsOpen
  BY <1>1, <1>2 DEF ResendTypeOK, SourceIsOpen
<1>6. ASSUME SourceIsOpen, NEW w \in 1 .. Stored
      PROVE  w <= lastRead \/ Excused(w)
  <2>1. resends.finished
    BY <1>1, <1>2 DEF Sane, InLine
  <2>2. request = "failed" \/ (lastRead + 1 = toResend /\ request \in {"over", "none", "cut"})
    BY <1>2, <1>6, <2>1 DEF ResendsFit, SourceIsOpen
  <2>3. request = "over" => toResend = Stored + 1
    BY <1>2 DEF ResendsFit
  <2>4. toResend \in Nat /\ lastRead \in Nat /\ Stored \in Nat
    BY <1>2, ReceivingAssumption DEF ResendTypeOK, MessageId
  <2>5. QED
    BY <2>2, <2>3, <2>4 DEF Excused
<1>7. reading' \in {"realtime", "over"}
  BY <1>1
<1>8. QED
  BY <1>1, <1>3, <1>4, <1>5, <1>6, <1>7, LeavingKeepsFit

LEMMA ResendsLeftKeeps == ASSUME ResendInv, Resend!ResendsLeft PROVE ResendInv'
<1>1. /\ reading = "resends" /\ ~ SourceIsOpen /\ Resend!HandledResends(lastRead) /\ reading' = "over"
      /\ UNCHANGED <<resends, realtime, ordered, toResend, toCome, request, passed, subscriber, handed, life>>
  BY DEF Resend!ResendsLeft, Resend!reader, Resend!pipes, Resend!server, Resend!queues, SourceIsOpen
<1>2. ResendTypeOK
  BY DEF ResendInv
<1>3. /\ Sane(resends') /\ ToGive(resends') \subseteq ToGive(resends) /\ resends'.ended = resends.ended
      /\ Stays(ordered, ordered') /\ ordered'.ended = ordered.ended
      /\ life' \in [Resend!Pipelines -> {"open", "ending", "finally", "closing", "done"}]
      /\ ~ SourceIsOpen'
  BY <1>1, <1>2 DEF Stays, ResendTypeOK, SourceIsOpen
<1>4. QED
  BY <1>1, <1>3, LeavingKeepsFit

LEMMA ResendsFailedKeeps == ASSUME ResendInv, Resend!ResendsFailed PROVE ResendInv'
<1>1. /\ reading = "resends" /\ Resend!HandledResends(lastRead) /\ reading' = "over"
      /\ resends' = Resend!Taken(resends) /\ ordered' = Resend!Throw(ordered, "resend failed")
      /\ life' = Resend!Ending("source")
      /\ UNCHANGED <<realtime, toResend, toCome, request, passed, subscriber, handed>>
  BY DEF Resend!ResendsFailed, Resend!reader, Resend!server
<1>2. ResendTypeOK /\ Sane(resends) /\ Sane(ordered)
  BY DEF ResendInv, ResendTypeOK
<1>3. /\ Sane(resends') /\ ToGive(resends') \subseteq ToGive(resends) /\ resends'.ended = resends.ended
  BY <1>1, <1>2, TakenToGive
<1>4. Stays(ordered, ordered') /\ ordered'.ended = ordered.ended
  BY <1>1, <1>2, ThrowStays
<1>5. /\ life' \in [Resend!Pipelines -> {"open", "ending", "finally", "closing", "done"}]
      /\ ~ SourceIsOpen'
  BY <1>1, <1>2, EndingIsTyped DEF SourceIsOpen, Resend!Pipelines
<1>6. QED
  BY <1>1, <1>3, <1>4, <1>5, LeavingKeepsFit

LEMMA LiveMessageKeeps == ASSUME ResendInv, Resend!LiveMessage PROVE ResendInv'
<1> DEFINE v == realtime.given
<1>1. /\ reading = "realtime" /\ v > 0 /\ realtime' = Resend!Taken(realtime)
      /\ IF SourceIsOpen THEN Resend!Order(v) ELSE UNCHANGED <<passed, ordered>>
      /\ UNCHANGED <<resends, toResend, toCome, request, reading, lastRead, isResendDone, lastResentMsgId,
                     lastProcessedMsgId, resentEmitted, handedBefore, subscriber, handed, life>>
  BY DEF Resend!LiveMessage, Resend!reader, Resend!pipes, Resend!server, Resend!marks, SourceIsOpen
<1>2. ResendTypeOK /\ LiveFits /\ ~ Early /\ Sane(realtime) /\ v \in MessageId /\ passed \in Nat
  BY <1>1, GivenMessage DEF ResendInv, ResendTypeOK, Early
<1>3. /\ Sane(realtime') /\ ToGive(realtime') = InQueue(realtime) /\ InQueue(realtime') = InQueue(realtime)
      /\ realtime'.given = Resend!Nothing
      /\ realtime'.finished = realtime.finished /\ realtime'.ended = realtime.ended
      /\ InQueue(realtime) \subseteq ToGive(realtime)
      /\ ToGive(realtime) = InQueue(realtime) \cup {v}
  BY <1>1, <1>2, TakenToGive
<1>4. ~ Early' /\ Got' = Got /\ SourceIsOpen' = SourceIsOpen
      /\ \A w : Missing(w)' = Missing(w) /\ Accounted(w)' = Accounted(w)
  BY <1>1, <1>2 DEF Early, SourceIsOpen, Got, Missing, Accounted, Excused
<1>5. /\ passed' \in Nat /\ passed <= passed' /\ (SourceIsOpen => v <= passed')
      /\ Sane(ordered') /\ OrderedFits'
  <2>1. CASE SourceIsOpen /\ v > passed
    <3>1. passed' = v /\ ordered' = Resend!Push(ordered, v)
      BY <1>1, <2>1 DEF Resend!Order
    <3>2. \A w \in passed + 1 .. v - 1 : Missing(w)'
      <4>1. \A w \in passed + 1 .. v - 1 : w \in 1 .. v - 1 /\ ~ (w <= passed)
        BY <1>2 DEF MessageId
      <4>2. QED
        BY <1>2, <1>4, <2>1, <4>1 DEF LiveFits
    <3>3. Sane(ordered') /\ OrderedFits'
      BY <1>1, <1>2, <1>4, <2>1, <3>1, <3>2, OrderPushes
    <3>4. QED
      BY <1>2, <2>1, <3>1, <3>3 DEF MessageId
  <2>2. CASE ~ (SourceIsOpen /\ v > passed)
    <3>1. UNCHANGED <<passed, ordered>>
      BY <1>1, <2>2 DEF Resend!Order
    <3>2. OrderedFits'
      BY <1>1, <1>4, <3>1 DEF ResendInv, OrderedFits
    <3>3. QED
      BY <1>2, <2>2, <3>1, <3>2 DEF ResendTypeOK, MessageId
  <2>3. QED
    BY <2>1, <2>2
<1>6. ResendTypeOK'
  BY <1>1, <1>2, <1>3, <1>5 DEF ResendTypeOK
<1>7. ResendsFit'
  BY <1>1, <1>2, <1>4 DEF ResendInv, ResendsFit
<1>8. LiveFits'
  <2>1. ASSUME SourceIsOpen, ~ realtime.finished, NEW u \in InQueue(realtime) \cup {toCome}, NEW w \in 1 .. u - 1
        PROVE  BeforeLive(w)'
    <3>1. u \in Nat /\ w \in Nat
      BY <1>2 DEF ResendTypeOK, InQueue, MessageId
    <3>2. BeforeLive(w)
      BY <1>2, <2>1 DEF LiveFits
    <3>3. w <= passed \/ w = v => w <= passed'
      BY <1>2, <1>5, <2>1, <3>1
    <3>4. QED
      BY <1>2, <1>3, <1>4, <3>2, <3>3 DEF BeforeLive
  <2>2. realtime'.given \notin MessageId
    BY <1>3 DEF Resend!Nothing, MessageId
  <2>3. QED
    BY <1>1, <1>2, <1>3, <1>4, <2>1, <2>2 DEF LiveFits
<1>9. HandedFits'
  <2>1. \A h \in Got : h <= passed'
    <3>1. \A h \in Got : h \in Nat /\ h <= passed
      BY <1>2 DEF ResendInv, HandedFits, Got, ResendTypeOK, MessageId
    <3>2. QED
      BY <1>2, <1>5, <3>1
  <2>2. QED
    BY <1>1, <1>4, <2>1 DEF ResendInv, HandedFits
<1>10. MarksFit'
  BY <1>1, <1>2, <1>4 DEF ResendInv, MarksFit
<1>11. QED
  BY <1>5, <1>6, <1>7, <1>8, <1>9, <1>10 DEF ResendInv

LEMMA RealtimeOverKeeps == ASSUME ResendInv, Resend!RealtimeOver PROVE ResendInv'
<1>1. /\ reading = "realtime" /\ reading' = "over" /\ realtime' = Resend!Taken(realtime)
      /\ ordered' = Resend!End(ordered) /\ life' = Resend!Ending("source")
      /\ UNCHANGED <<resends, toResend, toCome, request, lastRead, isResendDone, lastResentMsgId, passed,
                     lastProcessedMsgId, resentEmitted, handedBefore, subscriber, handed>>
  BY DEF Resend!RealtimeOver, Resend!reader, Resend!server, Resend!marks
<1>2. ResendTypeOK /\ LiveFits /\ Sane(realtime) /\ Sane(ordered)
  BY DEF ResendInv, ResendTypeOK
<1>3. /\ Sane(realtime') /\ ToGive(realtime') \subseteq ToGive(realtime) /\ realtime'.ended = realtime.ended
  BY <1>1, <1>2, TakenToGive
<1>4. /\ Stays(ordered, ordered') /\ ordered'.given = ordered.given /\ (Resend!Asked(ordered') => Resend!Asked(ordered))
      /\ ToGive(ordered') \subseteq ToGive(ordered)
      /\ ~ ordered'.finished => ToGive(ordered') = ToGive(ordered) /\ ~ ordered.finished
  BY <1>1, <1>2, EndStays, StaysToGive DEF Stays
<1>5. /\ life' \in [Resend!Pipelines -> {"open", "ending", "finally", "closing", "done"}]
      /\ ~ SourceIsOpen'
  BY <1>1, <1>2, EndingIsTyped DEF SourceIsOpen, Resend!Pipelines
<1>6. ~ Early /\ ~ Early' /\ Got' = Got /\ \A w : Missing(w)' = Missing(w) /\ Accounted(w)' = Accounted(w)
  BY <1>1 DEF Early, Got, Missing, Accounted, Excused
<1>7. ResendTypeOK'
  BY <1>1, <1>2, <1>3, <1>4, <1>5 DEF ResendTypeOK, Stays
<1>8. ResendsFit' /\ LiveFits' /\ HandedFits' /\ MarksFit'
  BY <1>1, <1>3, <1>5, <1>6 DEF ResendInv, ResendsFit, LiveFits, HandedFits, MarksFit
<1>9. OrderedFits'
  BY <1>1, <1>4, <1>5, <1>6 DEF ResendInv, OrderedFits
<1>10. QED
  BY <1>7, <1>8, <1>9 DEF ResendInv

-----------------------------------------------------------------------------
(* The subscriber.                                                          *)
LEMMA DeliverKeeps == ASSUME ResendInv, Resend!Deliver PROVE ResendInv'
<1> SUFFICES ASSUME NEW v, v = ordered.given
             PROVE  ResendInv'
  OBVIOUS
<1>1. /\ v > 0 /\ ordered' = Resend!Taken(ordered)
      /\ IF subscriber # "asking" \/ v \in Bad THEN UNCHANGED <<subscriber, handed>>
         ELSE subscriber' = "handling" /\ handed' = Append(handed, v)
      /\ UNCHANGED <<resends, realtime, toResend, toCome, request, reading, lastRead, isResendDone,
                     lastResentMsgId, lastProcessedMsgId, resentEmitted, handedBefore, passed, life>>
  BY DEF Resend!Deliver, Resend!IgnoreMessages, Resend!reader, Resend!pipes, Resend!server, Resend!marks
<1>2. ResendTypeOK /\ OrderedFits /\ HandedFits /\ Sane(ordered) /\ v \in MessageId
  BY <1>1, GivenMessage DEF ResendInv, ResendTypeOK
<1>3. /\ Sane(ordered') /\ ToGive(ordered') = InQueue(ordered)
      /\ ordered'.given = Resend!Nothing /\ ~ Resend!Asked(ordered')
      /\ ordered'.finished = ordered.finished /\ ordered'.ended = ordered.ended
      /\ ToGive(ordered) = InQueue(ordered) \cup {v} /\ \A w \in InQueue(ordered) : v < w
  <2>1. v # Resend!Nothing
    BY <1>2 DEF MessageId, Resend!Nothing
  <2>2. QED
    BY <1>1, <1>2, <2>1, TakenToGive
<1>4. subscriber \in {"asking", "left"} /\ ordered'.given \notin MessageId /\ v \in Nat
  BY <1>2, <1>3 DEF OrderedFits, ResendTypeOK, MessageId, Resend!Nothing
<1>5. Early' = Early /\ SourceIsOpen' = SourceIsOpen /\ \A w : Missing(w)' = Missing(w)
  BY <1>1 DEF Early, SourceIsOpen, Missing, Excused
<1>6. CASE subscriber # "asking" \/ v \in Bad
  <2>1. UNCHANGED <<subscriber, handed>> /\ Got' = Got
    BY <1>1, <1>6 DEF Got
  <2>2. \A w : Accounted(w)' = Accounted(w)
    BY <1>5, <2>1 DEF Accounted
  <2>3. subscriber # "left" => Accounted(v)
    BY <1>4, <1>6 DEF Accounted
  <2>4. OrderedFits'
    BY <1>1, <1>2, <1>3, <1>4, <1>5, <2>1, <2>2, <2>3 DEF OrderedFits
  <2>5. ResendTypeOK'
    BY <1>1, <1>2, <1>3, <2>1 DEF ResendTypeOK
  <2>6. ResendsFit' /\ LiveFits' /\ HandedFits' /\ MarksFit'
    BY <1>1, <1>5, <2>1, <2>2 DEF ResendInv, ResendsFit, LiveFits, BeforeLive, HandedFits, MarksFit
  <2>7. QED
    BY <2>4, <2>5, <2>6 DEF ResendInv
<1>7. CASE subscriber = "asking" /\ v \notin Bad
  <2>1. subscriber' = "handling" /\ handed' = Append(handed, v) /\ handed \in Seq(MessageId)
    BY <1>1, <1>2, <1>7 DEF ResendTypeOK
  <2>2. /\ handed' \in Seq(MessageId) /\ Len(handed') = Len(handed) + 1 /\ Len(handed) \in Nat
        /\ \A i \in 1 .. Len(handed) : handed'[i] = handed[i]
        /\ handed'[Len(handed) + 1] = v /\ handed' # <<>>
    BY <1>2, <2>1
  <2>3. Got' = Got \cup {v}
    BY <2>2 DEF Got
  <2>4. \A w : Accounted(w) => Accounted(w)'
    BY <1>5, <2>3 DEF Accounted
  <2>5. Accounted(v)' /\ \A w \in 1 .. v - 1 : Accounted(w)'
    <3>1. Accounted(v)'
      BY <2>3 DEF Accounted
    <3>2. \A w \in 1 .. v - 1 : Accounted(w)
      BY <1>2, <1>7 DEF OrderedFits
    <3>3. QED
      BY <2>4, <3>1, <3>2
  <2>6. v <= passed /\ \A h \in Got : h < v
    BY <1>2, <1>3 DEF OrderedFits
  <2>7. OrderedFits'
    <3>1. \A w \in ToGive(ordered') : w <= passed /\ \A h \in Got' : h < w
      BY <1>2, <1>3, <2>3 DEF OrderedFits
    <3>2. ~ ordered.finished => \A w \in 1 .. passed : Accounted(w)' \/ w \in ToGive(ordered')
      <4>1. ASSUME ~ ordered.finished, NEW w \in 1 .. passed
            PROVE  Accounted(w) \/ w \in ToGive(ordered)
        BY <1>2, <1>7, <4>1 DEF OrderedFits
      <4>2. \A w : w \in ToGive(ordered) => w = v \/ w \in ToGive(ordered')
        BY <1>3
      <4>3. QED
        BY <2>4, <2>5, <4>1, <4>2
    <3>3. QED
      BY <1>1, <1>2, <1>3, <1>4, <1>5, <2>1, <3>1, <3>2 DEF OrderedFits
  <2>8. HandedFits'
    <3>1. \A i, j \in 1 .. Len(handed') : i < j => handed'[i] < handed'[j]
      <4>1. \A i \in 1 .. Len(handed) : handed[i] \in Got
        BY DEF Got
      <4>2. \A j \in 1 .. Len(handed') : j \in 1 .. Len(handed) \/ j = Len(handed) + 1
        BY <2>2
      <4>3. \A i, j \in 1 .. Len(handed') : i < j => i \in 1 .. Len(handed)
        BY <2>2
      <4>4. \A i, j \in 1 .. Len(handed) : i < j => handed[i] < handed[j]
        BY <1>2 DEF HandedFits
      <4>5. QED
        BY <2>2, <2>6, <4>1, <4>2, <4>3, <4>4
    <3>2. \A h \in Got' : h <= passed' /\ h \notin Bad /\ \A w \in 1 .. h - 1 : Accounted(w)'
      BY <1>1, <1>2, <1>7, <2>3, <2>4, <2>5, <2>6 DEF HandedFits
    <3>3. QED
      BY <2>1, <2>2, <3>1, <3>2 DEF HandedFits
  <2>9. MarksFit'
    <3>1. handedBefore \in Nat /\ handedBefore <= Len(handed) /\ MarksFit
      BY <1>2 DEF ResendInv, MarksFit, ResendTypeOK
    <3>2. \A i \in 1 .. handedBefore : handed'[i] = handed[i]
      BY <2>2, <3>1
    <3>3. {handed'[i] : i \in 1 .. handedBefore} = {handed[i] : i \in 1 .. handedBefore}
      BY <3>2
    <3>4. handedBefore <= Len(handed')
      BY <2>2, <3>1
    <3>5. QED
      BY <1>1, <1>5, <2>3, <3>1, <3>3, <3>4 DEF MarksFit
  <2>10. ResendTypeOK'
    BY <1>1, <1>2, <1>3, <2>1, <2>2 DEF ResendTypeOK
  <2>11. ResendsFit' /\ LiveFits'
    BY <1>1, <1>5 DEF ResendInv, ResendsFit, LiveFits, BeforeLive
  <2>12. QED
    BY <2>7, <2>8, <2>9, <2>10, <2>11 DEF ResendInv
<1>8. QED
  BY <1>6, <1>7

LEMMA OrderedOverKeeps == ASSUME ResendInv, Resend!OrderedOver PROVE ResendInv'
<1>1. /\ ordered' = Resend!Taken(ordered) /\ subscriber' = "left" /\ life' = Resend!Ending("sub")
      /\ UNCHANGED <<resends, realtime, toResend, toCome, request, reading, lastRead, isResendDone,
                     lastResentMsgId, lastProcessedMsgId, resentEmitted, handedBefore, passed, handed>>
  BY DEF Resend!OrderedOver, Resend!server, Resend!marks
<1>2. ResendTypeOK /\ Sane(ordered)
  BY DEF ResendInv, ResendTypeOK
<1>3. /\ Sane(ordered') /\ ToGive(ordered') \subseteq ToGive(ordered) /\ ordered'.ended = ordered.ended
  BY <1>1, <1>2, TakenToGive
<1>4. life' \in [Resend!Pipelines -> {"open", "ending", "finally", "closing", "done"}]
      /\ life'["source"] = life["source"]
  BY <1>1, <1>2, EndingIsTyped DEF Resend!Pipelines
<1>5. Early' = Early /\ SourceIsOpen' = SourceIsOpen /\ Got' = Got
      /\ \A w : Missing(w)' = Missing(w) /\ Accounted(w)' = Accounted(w)
  BY <1>1, <1>4 DEF Early, SourceIsOpen, Got, Missing, Accounted, Excused
<1>6. ResendTypeOK'
  BY <1>1, <1>2, <1>3, <1>4 DEF ResendTypeOK
<1>7. OrderedFits'
  BY <1>1, <1>3, <1>5 DEF ResendInv, OrderedFits
<1>8. ResendsFit' /\ LiveFits' /\ HandedFits' /\ MarksFit'
  BY <1>1, <1>4, <1>5 DEF ResendInv, ResendsFit, LiveFits, BeforeLive, HandedFits, MarksFit
<1>9. QED
  BY <1>6, <1>7, <1>8 DEF ResendInv

LEMMA IterateKeeps == ASSUME ResendInv, Resend!Iterate PROVE ResendInv'
<1>1. /\ subscriber = "away" /\ subscriber' = "asking" /\ reading' = "resends"
      /\ UNCHANGED <<resends, realtime, ordered, toResend, toCome, request, lastRead, isResendDone,
                     lastResentMsgId, lastProcessedMsgId, resentEmitted, handedBefore, passed, handed, life>>
  BY DEF Resend!Iterate, Resend!queues, Resend!server, Resend!marks, Resend!pipes
<1>2. reading = "new" /\ ordered.given \notin MessageId
  BY <1>1 DEF ResendInv, HandedFits, OrderedFits, Resend!Nothing, MessageId
<1>3. Early /\ Early' /\ SourceIsOpen' = SourceIsOpen /\ Got' = Got
      /\ \A w : Missing(w)' = Missing(w) /\ Accounted(w)' = Accounted(w)
  BY <1>1, <1>2 DEF Early, SourceIsOpen, Got, Missing, Accounted, Excused
<1>4. ResendTypeOK'
  BY <1>1 DEF ResendInv, ResendTypeOK
<1>5. OrderedFits'
  BY <1>1, <1>2, <1>3 DEF ResendInv, OrderedFits
<1>6. ResendsFit' /\ LiveFits' /\ HandedFits' /\ MarksFit'
  BY <1>1, <1>3 DEF ResendInv, ResendsFit, LiveFits, BeforeLive, HandedFits, MarksFit
<1>7. QED
  BY <1>4, <1>5, <1>6 DEF ResendInv

-----------------------------------------------------------------------------
(* What happens to the request, the pipelines and the cancelled queues.     *)
LEMMA SameStays == ASSUME NEW q, Sane(q) PROVE Stays(q, q)
BY DEF Stays

LEMMA ResendStreamKeeps == ASSUME ResendInv, Resend!ResendStream PROVE ResendInv'
<1>1. /\ UNCHANGED <<realtime, ordered, toResend, toCome, reading, lastRead, isResendDone, lastResentMsgId,
                     lastProcessedMsgId, resentEmitted, handedBefore, passed, subscriber, handed, life>>
      /\ \/ Resend!Ask \/ Resend!Resending
         \/ request = "asked" /\ Resend!EndResends("none")
         \/ request = "resending" /\ toResend > Stored /\ Resend!EndResends("over")
         \/ request \in {"asked", "resending"} /\ Resend!EndResends("cut")
         \/ Resend!ResendFails
  BY DEF Resend!ResendStream, Resend!OnResendDone, Resend!OnDisconnected, Resend!Ask, Resend!Resending,
         Resend!EndResends, Resend!ResendFails, Resend!reader, Resend!pipes, Resend!marks
<1>2. ResendTypeOK /\ ResendsFit /\ Sane(resends) /\ toResend \in Nat /\ Stored \in Nat
  BY ReceivingAssumption DEF ResendInv, ResendTypeOK, MessageId
<1>3. MarksTyped' /\ MarksFit' /\ Unmoved /\ QuietPipelines
  BY <1>1, <1>2, MarksStay DEF Unmoved, QuietPipelines, ResendTypeOK
<1>4. /\ request \in {"adding", "asked", "resending"}
      /\ request' \in {"asked", "resending", "over", "none", "cut", "failed"}
      /\ request' = "over" => toResend > Stored
  BY <1>1 DEF Resend!Ask, Resend!Resending, Resend!EndResends, Resend!ResendFails
<1>5. QuietRequest
  BY <1>2, <1>4 DEF QuietRequest, ResendsFit
<1>6. ~ resends.ended
  BY <1>2, <1>4 DEF ResendsFit
<1>7. CASE UNCHANGED resends
  <2>1. QuietQueues
    BY <1>1, <1>2, <1>6, <1>7, SameStays DEF QuietQueues, ResendTypeOK
  <2>2. QED
    BY <1>3, <1>5, <2>1, QuietTurnKeeps
<1>8. CASE resends' = Resend!End(resends) /\ request' \in {"over", "none", "cut"}
  <2>1. QuietQueues
    BY <1>1, <1>2, <1>6, <1>8, SameStays, EndStays DEF QuietQueues, ResendTypeOK
  <2>2. QED
    BY <1>3, <1>5, <2>1, QuietTurnKeeps
<1>9. CASE resends' = Resend!Cancel(resends, "resend failed") /\ request' = "failed"
  <2>1. QuietQueues
    BY <1>1, <1>2, <1>6, <1>9, SameStays, CancelStays DEF QuietQueues, ResendTypeOK
  <2>2. QED
    BY <1>3, <1>5, <2>1, QuietTurnKeeps
<1>10. QED
  BY <1>1, <1>7, <1>8, <1>9 DEF Resend!Ask, Resend!Resending, Resend!EndResends, Resend!ResendFails

LEMMA LifeStays ==
    ASSUME ResendTypeOK
    PROVE  /\ \A p \in Resend!Pipelines, l \in {"open", "ending", "finally", "closing", "done"} :
                 [life EXCEPT ![p] = l] \in [Resend!Pipelines -> {"open", "ending", "finally", "closing", "done"}]
           /\ \A l \in {"open", "ending", "finally", "closing", "done"} :
                 [life EXCEPT !["sub"] = l]["source"] = life["source"]
           /\ \A l \in {"open", "ending", "finally", "closing", "done"} :
                 [life EXCEPT !["source"] = l]["source"] = l
BY DEF ResendTypeOK, Resend!Pipelines

LEMMA CancelAllIsQuiet ==
    ASSUME ResendTypeOK, Resend!CancelAll("sub"), subscriber' \in {subscriber, "left"}
    PROVE  QuietPipelines /\ ordered' = Resend!Cancel(ordered, Resend!NoError)
<1>1. /\ life' = [r \in Resend!Pipelines |->
                    IF r \in Resend!CancelFns("sub") /\ life[r] = "open" THEN "ending" ELSE life[r]]
      /\ ordered' = Resend!Cancel(ordered, Resend!NoError)
  BY DEF Resend!CancelAll
<1>2. life' \in [Resend!Pipelines -> {"open", "ending", "finally", "closing", "done"}]
  BY <1>1 DEF ResendTypeOK
<1>3. life'["source"] = life["source"] \/ (life["source"] = "open" /\ life'["source"] = "ending")
  BY <1>1 DEF Resend!Pipelines
<1>4. QED
  BY <1>1, <1>2, <1>3 DEF QuietPipelines

LEMMA CancellingKeeps ==
    ASSUME ResendInv, Resend!CancelSubscription \/ Resend!SubscribeFails \/ Resend!Subscribed \/ Resend!StagesEnd
    PROVE  ResendInv'
<1>1. /\ UNCHANGED <<resends, realtime, toResend, toCome, request, reading, lastRead, isResendDone, lastResentMsgId,
                     lastProcessedMsgId, resentEmitted, handedBefore, passed, handed>>
      /\ Resend!CancelAll("sub") \/ UNCHANGED <<ordered, life>>
      /\ subscriber' \in {subscriber, "left"}
  BY DEF Resend!CancelSubscription, Resend!SubscribeFails, Resend!Subscribed, Resend!StagesEnd,
         Resend!reader, Resend!pipes, Resend!marks, Resend!server, Resend!queues
<1>2. ResendTypeOK
  BY DEF ResendInv
<1>3. QuietPipelines /\ ordered' \in {ordered, Resend!Cancel(ordered, Resend!NoError)}
  BY <1>1, <1>2, CancelAllIsQuiet DEF QuietPipelines, ResendTypeOK
<1>4. MarksTyped' /\ MarksFit' /\ Unmoved
  BY <1>1, MarksStay DEF Unmoved
<1>5. QuietQueues /\ QuietRequest
  <2>1. Sane(resends) /\ Sane(realtime) /\ Sane(ordered) /\ ResendsFit
    BY DEF ResendInv, ResendTypeOK
  <2>2. Stays(ordered, ordered') /\ ordered'.ended = ordered.ended
    BY <1>3, <2>1, SameStays, CancelStays
  <2>3. QED
    BY <1>1, <1>2, <2>1, <2>2, SameStays DEF QuietQueues, QuietRequest, ResendsFit, ResendTypeOK
<1>6. QED
  BY <1>3, <1>4, <1>5, QuietTurnKeeps

LEMMA TimerKeeps == ASSUME ResendInv, Resend!Timer PROVE ResendInv'
<1>1. /\ UNCHANGED <<toResend, toCome, request, reading, lastRead, isResendDone, lastResentMsgId,
                     lastProcessedMsgId, resentEmitted, handedBefore, passed, subscriber, handed, life>>
      /\ resends' = resends \/ (resends.cancelled /\ resends' = Resend!AfterCancel(resends))
      /\ realtime' \in {realtime, Resend!AfterCancel(realtime)}
      /\ ordered' \in {ordered, Resend!AfterCancel(ordered)}
  BY DEF Resend!Timer, Resend!CancelEnds, Resend!Cancelled, Resend!reader, Resend!pipes, Resend!marks, Resend!server
<1>2. ResendTypeOK /\ ResendsFit /\ Sane(resends) /\ Sane(realtime) /\ Sane(ordered)
  BY DEF ResendInv, ResendTypeOK
<1>3. \A q : Sane(q) => /\ Stays(q, q)
                        /\ Stays(q, Resend!AfterCancel(q)) /\ Resend!AfterCancel(q).ended = q.ended
  BY SameStays, CleanupStays DEF Resend!AfterCancel, Resend!Return
<1>4. resends.cancelled => resends.finished
  BY <1>2 DEF Sane, InLine
<1>5. QuietQueues /\ QuietRequest
  BY <1>1, <1>2, <1>3, <1>4 DEF QuietQueues, QuietRequest, ResendsFit, ResendTypeOK
<1>6. QuietPipelines /\ Unmoved /\ MarksTyped' /\ MarksFit'
  BY <1>1, <1>2, MarksStay DEF QuietPipelines, Unmoved, ResendTypeOK
<1>7. QED
  BY <1>5, <1>6, QuietTurnKeeps

\* Steps of the pipelines with the queues as they are, but for cancellations.
LEMMA UnwindKeeps ==
    ASSUME ResendInv, QuietPipelines, MarksTyped', MarksFit', Unmoved, request' = request,
           \/ UNCHANGED <<resends, realtime>>
           \/ /\ resends' = Resend!Cancel(resends, Resend!NoError)
              /\ realtime' = Resend!Cancel(realtime, Resend!NoError)
              /\ life'["source"] = "closing",
           ordered' \in {ordered, Resend!Cancel(ordered, Resend!NoError)}
    PROVE  ResendInv'
<1>1. ResendTypeOK /\ ResendsFit /\ Sane(resends) /\ Sane(realtime) /\ Sane(ordered)
  BY DEF ResendInv, ResendTypeOK
<1>2. \A q : Sane(q) => /\ Stays(q, q)
                        /\ Stays(q, Resend!Cancel(q, Resend!NoError))
                        /\ Resend!Cancel(q, Resend!NoError).ended = q.ended
  BY SameStays, CancelStays
<1>3. QuietQueues /\ QuietRequest
  BY <1>1, <1>2 DEF QuietQueues, QuietRequest, ResendsFit, ResendTypeOK
<1>4. QED
  BY <1>3, QuietTurnKeeps

LEMMA ProcessedKeeps == ASSUME ResendInv, Resend!AskNext \/ Resend!Break PROVE ResendInv'
<1>1. /\ subscriber = "handling" /\ subscriber' \in {"asking", "left"} /\ Resend!DetectEndOfResend
      /\ life' \in {life, Resend!Ending("sub")}
      /\ UNCHANGED <<resends, realtime, ordered, toResend, toCome, request, reading, passed, handed>>
  BY DEF Resend!AskNext, Resend!Break, Resend!queues, Resend!server, Resend!pipes
<1>2. handed # <<>> /\ ResendTypeOK
  BY <1>1 DEF ResendInv, HandedFits
<1>3. MarksTyped' /\ MarksFit' /\ Unmoved
  BY <1>1, <1>2, MarksAfterProcessing DEF Unmoved
<1>4. QuietPipelines
  BY <1>1, <1>2, EndingIsTyped DEF QuietPipelines, ResendTypeOK, Resend!Pipelines
<1>5. QED
  BY <1>1, <1>3, <1>4, UnwindKeeps

LEMMA UnwindsKeep == ASSUME ResendInv, Resend!Unwinds PROVE ResendInv'
<1>1. ResendTypeOK
  BY DEF ResendInv
<1>2. CASE Resend!SubFinally
  <2>1. /\ life' = [life EXCEPT !["sub"] = "finally"] /\ subscriber' = "left"
        /\ UNCHANGED <<resends, realtime, ordered, toResend, toCome, request, reading, passed, handed>>
        /\ \/ subscriber = "handling" /\ Resend!DetectEndOfResend
           \/ UNCHANGED <<lastRead, isResendDone, lastResentMsgId, lastProcessedMsgId, resentEmitted, handedBefore>>
    BY <1>2 DEF Resend!SubFinally, Resend!queues, Resend!server, Resend!marks
  <2>2. subscriber = "handling" => handed # <<>>
    BY DEF ResendInv, HandedFits
  <2>3. MarksTyped' /\ MarksFit' /\ Unmoved
    BY <2>1, <2>2, MarksStay, MarksAfterProcessing DEF Unmoved
  <2>4. QuietPipelines
    BY <1>1, <2>1, LifeStays DEF QuietPipelines, Resend!Pipelines
  <2>5. QED
    BY <2>1, <2>3, <2>4, UnwindKeeps
<1>3. CASE Resend!StagesEnd
  BY <1>3, CancellingKeeps
<1>4. CASE Resend!SourceFinally \/ Resend!SubDone \/ Resend!CancelQueues \/ Resend!SourceDone
  <2>1. UNCHANGED <<toResend, toCome, request, reading, lastRead, isResendDone, lastResentMsgId,
                    lastProcessedMsgId, resentEmitted, handedBefore, passed, subscriber, handed>>
    BY <1>4 DEF Resend!SourceFinally, Resend!SubDone, Resend!CancelQueues, Resend!SourceDone,
                Resend!reader, Resend!marks, Resend!server
  <2>2. MarksTyped' /\ MarksFit' /\ Unmoved
    BY <2>1, MarksStay DEF Unmoved
  <2>3. \/ /\ life["source"] = "ending" /\ life' = [life EXCEPT !["source"] = "finally"]
           /\ UNCHANGED <<resends, realtime, ordered>>
        \/ /\ life["source"] = "ending" /\ life' = [life EXCEPT !["source"] = "finally", !["sub"] = "ending"]
           /\ UNCHANGED <<resends, realtime>> /\ ordered' = Resend!Cancel(ordered, Resend!NoError)
        \/ life' = [life EXCEPT !["sub"] = "done"] /\ UNCHANGED <<resends, realtime, ordered>>
        \/ /\ life["source"] = "finally" /\ life' = [life EXCEPT !["source"] = "closing"]
           /\ realtime' = Resend!Cancel(realtime, Resend!NoError)
           /\ resends' = Resend!Cancel(resends, Resend!NoError) /\ UNCHANGED ordered
        \/ /\ life["source"] = "closing" /\ life' = [life EXCEPT !["source"] = "done"]
           /\ UNCHANGED <<resends, realtime, ordered>>
    BY <1>4 DEF Resend!SourceFinally, Resend!SubDone, Resend!CancelQueues, Resend!SourceDone, Resend!queues
  <2>4. /\ ordered' \in {ordered, Resend!Cancel(ordered, Resend!NoError)}
        /\ \/ UNCHANGED <<resends, realtime>>
           \/ /\ resends' = Resend!Cancel(resends, Resend!NoError)
              /\ realtime' = Resend!Cancel(realtime, Resend!NoError)
              /\ life'["source"] = "closing"
    BY <1>1, <2>3, LifeStays
  <2>5. \E p \in Resend!Pipelines, l, k \in {"open", "ending", "finally", "closing", "done"} :
          \/ life' = [life EXCEPT ![p] = l]
          \/ life' = [[life EXCEPT !["source"] = l] EXCEPT !["sub"] = k]
    BY <2>3 DEF Resend!Pipelines
  <2>6. life' \in [Resend!Pipelines -> {"open", "ending", "finally", "closing", "done"}]
    BY <1>1, <2>5 DEF ResendTypeOK, Resend!Pipelines
  <2>7. /\ life["source"] # "open" => life'["source"] # "open"
        /\ life["source"] \in {"closing", "done"} => life'["source"] \in {"closing", "done"}
    BY <1>1, <2>3 DEF ResendTypeOK, Resend!Pipelines
  <2>8. QED
    BY <2>1, <2>2, <2>4, <2>6, <2>7, UnwindKeeps DEF QuietPipelines
<1>5. QED
  BY <1>2, <1>3, <1>4 DEF Resend!Unwinds

LEMMA TurnKeeps == ASSUME ResendInv, Resend!Turn PROVE ResendInv'
<1>1. ResendTypeOK /\ Sane(resends) /\ Sane(realtime) /\ Sane(ordered) /\ LiveFits /\ OrderedFits
  BY DEF ResendInv, ResendTypeOK
<1>2. \A q : Sane(q) /\ Resend!Asks(q) => q.given = Resend!Nothing /\ GoesOn(q, Resend!Next(q))
  BY NextGoesOn DEF Resend!Asks
<1>3. \A q : Sane(q) /\ q.at \in {"woken", "rejected"} =>
          q.given = Resend!Nothing /\ GoesOn(q, Resend!Resume(q)) /\ Resend!Asked(q)
  BY ResumeGoesOn DEF Sane, InLine, Resend!Asked
<1>4. CASE Resend!HandleResends
  <2>1. resends' = Resend!Next(resends) /\ Resend!Asks(resends) /\ RestStays /\ UNCHANGED <<realtime, ordered>>
    BY <1>4 DEF Resend!HandleResends, RestStays, Resend!server, Resend!marks, Resend!reader, Resend!pipes
  <2>2. QED
    BY <1>1, <1>2, <2>1, ResendsGoOn
<1>5. CASE Resend!HandleRealtime
  <2>1. /\ realtime' = Resend!Next(realtime) /\ Resend!Asks(realtime) /\ RestStays /\ UNCHANGED <<resends, ordered>>
        /\ ~ Early
    BY <1>5 DEF Resend!HandleRealtime, RestStays, Resend!server, Resend!marks, Resend!reader, Resend!pipes, Early
  <2>2. QED
    BY <1>1, <1>2, <2>1, RealtimeGoesOn
<1>6. CASE Resend!PullOrdered
  <2>1. /\ ordered' = Resend!Next(ordered) /\ Resend!Asks(ordered) /\ RestStays /\ UNCHANGED <<resends, realtime>>
        /\ subscriber = "asking"
    BY <1>6 DEF Resend!PullOrdered, RestStays, Resend!server, Resend!marks, Resend!reader, Resend!pipes
  <2>2. QED
    BY <1>1, <1>2, <2>1, OrderedGoesOn
<1>7. CASE Resend!GoesOn /\ UNCHANGED <<Resend!server, reading, Resend!marks, passed, Resend!reader, Resend!pipes>>
  <2>1. RestStays
    BY <1>7 DEF RestStays, Resend!server, Resend!marks, Resend!reader, Resend!pipes
  <2>2. CASE /\ resends.at \in {"woken", "rejected"} /\ resends' = Resend!Resume(resends)
             /\ UNCHANGED <<realtime, ordered>>
    BY <1>1, <1>3, <2>1, <2>2, ResendsGoOn
  <2>3. CASE /\ realtime.at \in {"woken", "rejected"} /\ realtime' = Resend!Resume(realtime)
             /\ UNCHANGED <<resends, ordered>>
    <3>1. ~ Early
      BY <1>1, <1>3, <2>3 DEF LiveFits
    <3>2. QED
      BY <1>1, <1>3, <2>1, <2>3, <3>1, RealtimeGoesOn
  <2>4. CASE /\ ordered.at \in {"woken", "rejected"} /\ ordered' = Resend!Resume(ordered)
             /\ UNCHANGED <<resends, realtime>>
    <3>1. subscriber \in {"asking", "left"}
      BY <1>1, <1>3, <2>4 DEF OrderedFits, ResendTypeOK
    <3>2. QED
      BY <1>1, <1>3, <2>1, <2>4, <3>1, OrderedGoesOn
  <2>5. QED
    BY <1>7, <2>2, <2>3, <2>4 DEF Resend!GoesOn
<1>8. QED
  BY <1>4, <1>5, <1>6, <1>7, ResentMessageKeeps, ResendThenRealtimeKeeps, ResendsLeftKeeps, ResendsFailedKeeps,
     LiveMessageKeeps, RealtimeOverKeeps, DeliverKeeps, OrderedOverKeeps
  DEF Resend!Turn, Resend!SourceStep

LEMMA ResendNextKeeps == ASSUME ResendInv, Resend!ResendNext PROVE ResendInv'
BY TurnKeeps, ResendStreamKeeps, CancellingKeeps, TimerKeeps, UnwindsKeep, IterateKeeps, ProcessedKeeps,
   UnicastKeeps, BroadcastKeeps DEF Resend!ResendNext

LEMMA ResendInitHolds == ASSUME Resend!ResendInit PROVE ResendInv
<1>1. /\ resends = Resend!NewQueue /\ realtime = Resend!NewQueue /\ ordered = Resend!NewQueue
      /\ toResend = 1 /\ toCome \in {Stored, Stored + 1} \ {0} /\ request = "adding" /\ reading = "new"
      /\ lastRead = 0 /\ lastResentMsgId = 0 /\ lastProcessedMsgId = 0 /\ isResendDone = FALSE
      /\ resentEmitted = FALSE /\ handedBefore = 0 /\ passed = 0 /\ subscriber = "away" /\ handed = <<>>
      /\ life = [p \in Resend!Pipelines |-> "open"]
  BY DEF Resend!ResendInit, Resend!Nothing
<1> DEFINE q == Resend!NewQueue
<1>2. /\ Sane(q) /\ InQueue(q) = {} /\ ~ q.finished /\ ~ q.ended /\ q.given = 0 /\ ~ Resend!Asked(q)
  BY NewQueueIsSane
<1> HIDE DEF q
<1>3. ToGive(q) = {} /\ q.given \notin MessageId
  BY <1>2 DEF ToGive, MessageId
<1>4. Stored \in Nat /\ toCome \in Nat \ {0} /\ toCome <= Stored + 1
  BY <1>1, ReceivingAssumption
<1>5. ResendTypeOK
  <2>1. 1 \in MessageId /\ toCome \in MessageId
    BY <1>4 DEF MessageId
  <2>2. <<>> \in Seq(MessageId)
    OBVIOUS
  <2>3. life \in [Resend!Pipelines -> {"open", "ending", "finally", "closing", "done"}]
    BY <1>1
  <2>4. Sane(resends) /\ Sane(realtime) /\ Sane(ordered)
    BY <1>1, <1>2 DEF q
  <2>5. {lastRead, lastResentMsgId, lastProcessedMsgId, passed, handedBefore} \subseteq Nat
    BY <1>1
  <2>6. QED
    BY <1>1, <2>1, <2>2, <2>3, <2>4, <2>5 DEF ResendTypeOK
<1>6. Early /\ Got = {}
  BY <1>1 DEF Early, Got
<1>7. ResendsFit
  <2>1. 0 + 1 .. 1 - 1 = {}
    OBVIOUS
  <2>2. QED
    BY <1>1, <1>2, <1>3, <1>4, <2>1 DEF ResendsFit, q, MessageId
<1>8. LiveFits
  <2>1. \A w \in 1 .. toCome - 1 : BeforeLive(w)
    BY <1>4, <1>6 DEF BeforeLive
  <2>2. QED
    BY <1>1, <1>2, <1>3, <2>1 DEF LiveFits, q, Resend!Nothing
<1>9. OrderedFits /\ HandedFits /\ MarksFit
  BY <1>1, <1>2, <1>3, <1>6 DEF OrderedFits, HandedFits, MarksFit, q, Resend!Nothing, Early
<1>10. QED
  BY <1>5, <1>7, <1>8, <1>9 DEF ResendInv

LEMMA MCNextKeepsResend == ASSUME ResendInv, [MCNext]_<<part, vars, resendVars>> PROVE ResendInv'
<1>1. CASE Resend!ResendNext
  BY <1>1, ResendNextKeeps
<1>2. CASE UNCHANGED resendVars
  <2>1. RestStays /\ UNCHANGED <<resends, realtime, ordered>>
    BY <1>2 DEF resendVars, RestStays
  <2>2. QED
    BY <2>1, RestKeeps DEF ResendInv, ResendTypeOK
<1>3. QED
  BY <1>1, <1>2 DEF MCNext

\* ResendSubscribe, PushQueue: where each message is until it is given to the subscriber: unread,
\* in a queue, passed on, or missing for a reason.
THEOREM ResendInvariantHolds == MCSpec => []ResendInv
<1>1. MCInit => ResendInv
  BY ResendInitHolds DEF MCInit
<1>2. ResendInv /\ [MCNext]_<<part, vars, resendVars>> => ResendInv'
  BY MCNextKeepsResend
<1>3. QED
  BY <1>1, <1>2, PTL DEF MCSpec

\* ResendSubscribe: the subscriber gets each message once and in order, the stored ones before the
\* live ones and without a hole but for what failed or was never sent; 'resent' is told when the
\* last of what was resent has been handled, and before any live message.
THEOREM StoredComesFirst == MCSpec => []StoredThenLive
<1>1. ASSUME ResendInv
      PROVE  Resend!NothingIsSkipped
  <2>1. handed \in Seq(MessageId) /\ HandedFits
    BY <1>1 DEF ResendInv, ResendTypeOK
  <2>2. DOMAIN handed = 1 .. Len(handed) /\ Len(handed) \in Nat
    BY <2>1
  <2>3. ASSUME handed # <<>>, NEW v \in 1 .. handed[Len(handed)]
        PROVE  \/ \E i \in DOMAIN handed : handed[i] = v
               \/ v \in Bad \/ Excused(v)
    <3>1. Len(handed) \in 1 .. Len(handed) /\ handed[Len(handed)] \in MessageId
      BY <2>1, <2>3
    <3>2. v = handed[Len(handed)] \/ v \in 1 .. handed[Len(handed)] - 1
      BY <3>1 DEF MessageId
    <3>3. v = handed[Len(handed)] \/ Accounted(v)
      BY <2>1, <3>1, <3>2 DEF HandedFits, Got
    <3>4. QED
      BY <2>2, <3>1, <3>3 DEF Accounted, Missing, Got
  <2>4. \A i, j \in DOMAIN handed : i < j => handed[i] < handed[j]
    BY <2>1, <2>2 DEF HandedFits
  <2>5. QED
    BY <2>3, <2>4 DEF Resend!NothingIsSkipped, Excused
<1>2. ASSUME ResendInv
      PROVE  Resend!ResentComesAfterTheResends
  BY <1>2 DEF ResendInv, MarksFit, Resend!ResentComesAfterTheResends
<1>3. ResendInv => StoredThenLive
  BY <1>1, <1>2 DEF StoredThenLive
<1>4. QED
  BY <1>3, ResendInvariantHolds, PTL

-----------------------------------------------------------------------------
(***************************************************************************)
(* No wake-up is lost.  A reader that waits is woken by the next push, by  *)
(* the null that ends its queue, or when the cancellation has run out; the *)
(* pipelines do not wait for each other; and the end of the resend reaches *)
(* its queue.  So, when nothing is left to happen, a subscriber who asks   *)
(* has had everything, and what was left has come to its end.              *)
(***************************************************************************)
HasNull(q) ==
    \/ q.at = "woken" /\ q.woken = Resend!Null
    \/ \E i \in 1 .. Len(q.local) : q.local[i] = Resend!Null
    \/ \E i \in 1 .. Len(q.buffer) : q.buffer[i] = Resend!Null
WakesUp(q) ==
    /\ q.onEndCalled => q.finished
    /\ q.at = "awaits" /\ q.finished => q.cancelled /\ ~ q.onEndCalled
    /\ q.ended /\ ~ q.finished => HasNull(q)

PipelinesUnwind ==
    /\ life["sub"] # "closing"
    /\ cancelled["sub"] => life["sub"] # "open" /\ life["source"] # "open"
    /\ life["sub"] \in {"finally", "done"} => cancelled["sub"] /\ subscriber = "left"
    /\ life["source"] \in {"finally", "closing", "done"} => life["sub"] # "open"
    /\ life["source"] \in {"closing", "done"} => resends.cancelled /\ realtime.cancelled
    /\ life["source"] = "done" => resends.onEndCalled /\ realtime.onEndCalled
    /\ waits["sub"] => cancelled["sub"] /\ ~ waits["source"]
    /\ waits["source"] => life["source"] \notin {"open", "ending"}
RequestIsTold ==
    /\ request \in {"over", "none", "cut"} => resends.ended
    /\ request = "failed" => resends.finished
ReadingGoesOn ==
    /\ reading = "over" => life["source"] # "open"
    /\ reading # "new" => subscribing = "in"
    /\ subscriber \in {"asking", "handling"} => reading # "new"

ServiceTypeOK ==
    /\ cancelled \in [Resend!Pipelines -> BOOLEAN] /\ waits \in [Resend!Pipelines -> BOOLEAN]
    /\ subscribing \in {"pending", "in", "failed"}
ServiceInv ==
    /\ ServiceTypeOK
    /\ WakesUp(resends) /\ WakesUp(realtime) /\ WakesUp(ordered)
    /\ PipelinesUnwind /\ RequestIsTold /\ ReadingGoesOn

\* What an operation makes of a queue: it goes on waking its reader, and nothing is taken back.
Moves(q, r) ==
    /\ WakesUp(r)
    /\ q.cancelled => r.cancelled
    /\ q.onEndCalled => r.onEndCalled
    /\ q.ended => r.ended
    /\ q.finished => r.finished

LEMMA CleanupMoves ==
    ASSUME NEW q \in QueueType
    PROVE  Moves(q, Resend!Cleanup(q)) /\ Resend!Cleanup(q).onEndCalled
<1> DEFINE r == Resend!Cleanup(q)
           at == IF q.at # "awaits" THEN q.at
                 ELSE IF q.error = Resend!NoError THEN "woken" ELSE "rejected"
<1>1. /\ r.finished = TRUE /\ r.onEndCalled = TRUE /\ r.at = at /\ r.ended = q.ended
      /\ r.cancelled = q.cancelled
  BY DEF Resend!Cleanup, QueueType
<1>2. at # "awaits"
  OBVIOUS
<1> HIDE DEF r, at
<1>3. QED
  BY <1>1, <1>2 DEF Moves, WakesUp, r

LEMMA CancelMoves ==
    ASSUME NEW q \in QueueType, WakesUp(q), NEW err
    PROVE  Moves(q, Resend!Cancel(q, err)) /\ Resend!Cancel(q, err).cancelled
           /\ Resend!Cancel(q, err).finished
<1> DEFINE r == Resend!Cancel(q, err)
<1>1. /\ r.finished = TRUE /\ r.cancelled = TRUE /\ r.ended = q.ended
      /\ r.onEndCalled = q.onEndCalled /\ r.at = IF q.at = "asleep" THEN "ended" ELSE q.at
  BY DEF Resend!Cancel, QueueType
<1>2. QED
  BY <1>1 DEF Moves, WakesUp

LEMMA ThrowMoves ==
    ASSUME NEW q \in QueueType, WakesUp(q), NEW err
    PROVE  Moves(q, Resend!Throw(q, err))
<1> DEFINE r == Resend!Throw(q, err)
<1>1. CASE q.finished
  BY <1>1 DEF Resend!Throw, Moves
<1>2. CASE ~ q.finished
  <2>1. /\ r.finished = TRUE /\ r.cancelled = q.cancelled /\ r.ended = q.ended
        /\ r.onEndCalled = q.onEndCalled /\ r.at = IF q.at = "awaits" THEN "rejected" ELSE q.at
    BY <1>2 DEF Resend!Throw, QueueType
  <2>2. QED
    BY <2>1 DEF Moves, WakesUp
<1>3. QED
  BY <1>1, <1>2

LEMMA PushMoves ==
    ASSUME NEW q \in QueueType, WakesUp(q), NEW v \in Item
    PROVE  Moves(q, Resend!Push(q, v))
<1> DEFINE r == Resend!Push(q, v)
<1>1. CASE q.finished \/ q.ended
  BY <1>1 DEF Resend!Push, Moves
<1>2. CASE ~ q.finished /\ ~ q.ended /\ q.at = "awaits"
  <2>1. /\ r.at = "woken" /\ r.woken = v /\ (r.ended <=> v = Resend!Null) /\ r.finished = q.finished
        /\ r.cancelled = q.cancelled /\ r.onEndCalled = q.onEndCalled
    BY <1>2 DEF Resend!Push, QueueType
  <2> HIDE DEF r
  <2>2. QED
    BY <1>2, <2>1 DEF Moves, WakesUp, HasNull, r
<1>3. CASE ~ q.finished /\ ~ q.ended /\ q.at # "awaits"
  <2>1. /\ r.at = q.at /\ r.buffer = Append(q.buffer, v) /\ (r.ended <=> v = Resend!Null)
        /\ r.finished = q.finished /\ r.cancelled = q.cancelled /\ r.onEndCalled = q.onEndCalled
    BY <1>3 DEF Resend!Push, QueueType
  <2>2. q.buffer \in Seq(Item)
    BY DEF QueueType
  <2> HIDE DEF r
  <2>3. Len(r.buffer) \in 1 .. Len(r.buffer) /\ r.buffer[Len(r.buffer)] = v
    BY <2>1, <2>2
  <2>4. QED
    BY <1>3, <2>1, <2>3 DEF Moves, WakesUp, HasNull, r
<1>4. QED
  BY <1>1, <1>2, <1>3

LEMMA EndMoves ==
    ASSUME NEW q \in QueueType, Sane(q), WakesUp(q)
    PROVE  Moves(q, Resend!End(q)) /\ Resend!End(q).ended
<1>1. CASE q.ended
  BY <1>1 DEF Resend!End, Moves
<1>2. CASE ~ q.ended
  <2> DEFINE p == Resend!Push(q, Resend!Null)
             r == [p EXCEPT !.ended = TRUE]
  <2>1. Resend!Null \in Item /\ (Resend!Null \in MessageId => \A w \in ToGive(q) : w < Resend!Null)
    BY DEF Item, Resend!Null, MessageId
  <2>2. Moves(q, p) /\ p \in QueueType /\ p.finished = q.finished /\ (~ q.finished => p.ended)
    BY <1>2, <2>1, PushMoves, PushAppends DEF Sane
  <2>3. r = Resend!End(q)
    BY <1>2 DEF Resend!End
  <2> HIDE DEF p
  <2>4. /\ r.local = p.local /\ r.buffer = p.buffer /\ r.at = p.at /\ r.woken = p.woken
        /\ r.finished = p.finished /\ r.ended = TRUE /\ r.cancelled = p.cancelled
        /\ r.onEndCalled = p.onEndCalled
    BY <2>2 DEF QueueType
  <2> HIDE DEF r
  <2>5. QED
    BY <2>2, <2>3, <2>4 DEF Moves, WakesUp, HasNull
<1>3. QED
  BY <1>1, <1>2

LEMMA TakenMoves ==
    ASSUME NEW q \in QueueType, WakesUp(q)
    PROVE  Moves(q, Resend!Taken(q))
<1> DEFINE r == Resend!Taken(q)
<1>1. /\ r.local = q.local /\ r.buffer = q.buffer /\ r.at = q.at /\ r.woken = q.woken
      /\ r.finished = q.finished /\ r.ended = q.ended /\ r.cancelled = q.cancelled
      /\ r.onEndCalled = q.onEndCalled
  BY DEF Resend!Taken, QueueType
<1> HIDE DEF r
<1>2. QED
  BY <1>1 DEF Moves, WakesUp, HasNull, r

LEMMA EndsMoves ==
    ASSUME NEW q \in QueueType, NEW f \in QueueType, NEW ans \in {Resend!Done, Resend!Failed},
           f.cancelled = q.cancelled, f.onEndCalled = q.onEndCalled, f.ended = q.ended
    PROVE  Moves(q, Resend!Ends(f, ans))
<1> DEFINE e == [f EXCEPT !.at = "ended", !.local = <<>>, !.given = ans]
<1>1. <<>> \in Seq(Item)
  OBVIOUS
<1>2. e \in QueueType
  BY <1>1 DEF QueueType
<1>3. e.cancelled = f.cancelled /\ e.onEndCalled = f.onEndCalled /\ e.ended = f.ended
  BY DEF QueueType
<1>4. Moves(e, Resend!Cleanup(e)) /\ Resend!Cleanup(e).finished
  BY <1>2, CleanupMoves DEF Moves, WakesUp
<1>5. Resend!Ends(f, ans) = Resend!Cleanup(e)
  BY DEF Resend!Ends
<1> HIDE DEF e
<1>6. QED
  BY <1>3, <1>4, <1>5 DEF Moves

LEMMA GivesMoves ==
    ASSUME NEW q \in QueueType, WakesUp(q), NEW f \in QueueType, NEW v,
           f.cancelled = q.cancelled, f.onEndCalled = q.onEndCalled, f.ended = q.ended,
           f.finished = q.finished,
           f.ended /\ ~ f.finished =>
               \/ \E i \in 1 .. Len(f.local) : f.local[i] = Resend!Null
               \/ \E i \in 1 .. Len(f.buffer) : f.buffer[i] = Resend!Null
    PROVE  Moves(q, Resend!Gives(f, v))
<1> DEFINE r == Resend!Gives(f, v)
<1>1. /\ r.local = f.local /\ r.buffer = f.buffer /\ r.at = "asleep"
      /\ r.finished = f.finished /\ r.ended = f.ended /\ r.cancelled = f.cancelled
      /\ r.onEndCalled = f.onEndCalled
  BY DEF Resend!Gives, QueueType
<1> HIDE DEF r
<1>2. QED
  BY <1>1 DEF Moves, WakesUp, HasNull, r

LEMMA ResumeMoves ==
    ASSUME NEW q \in QueueType, InLine(q), WakesUp(q), q.at \in {"woken", "rejected"}
    PROVE  Moves(q, Resend!Resume(q))
<1>1. CASE Resend!Resume(q) \in {Resend!Ends(q, Resend!Failed), Resend!Ends(q, Resend!Done)}
  BY <1>1, EndsMoves
<1>2. CASE ~ (Resend!Resume(q) \in {Resend!Ends(q, Resend!Failed), Resend!Ends(q, Resend!Done)})
  <2>1. q.at = "woken" /\ q.woken # Resend!Null /\ Resend!Resume(q) = Resend!Gives(q, q.woken)
    BY <1>2 DEF Resend!Resume
  <2>2. QED
    BY <2>1, GivesMoves DEF WakesUp, HasNull
<1>3. QED
  BY <1>1, <1>2

LEMMA FeedMoves ==
    ASSUME NEW q \in QueueType, WakesUp(q), q.at = "asleep", Resend!Items(q) # <<>>
    PROVE  Moves(q, Resend!Feed(q))
<1> DEFINE s == Resend!Items(q)
           t == Tail(s)
           b == IF q.local # <<>> THEN q.buffer ELSE <<>>
           v == Head(s)
           fed == [q EXCEPT !.local = t, !.buffer = b]
<1>0. <<>> \in Seq(Item)
  OBVIOUS
<1>1. q.local \in Seq(Item) /\ q.buffer \in Seq(Item) /\ <<>> \in Seq(Item)
  BY <1>0 DEF QueueType
<1>2. s \in Seq(Item) /\ b \in Seq(Item) /\ s # <<>>
  BY <1>1 DEF Resend!Items
<1>3. /\ t \in Seq(Item) /\ Len(t) = Len(s) - 1 /\ \A i \in 1 .. Len(t) : t[i] = s[i + 1]
      /\ v = s[1] /\ Len(s) \in Nat
  BY <1>2
<1>4. fed \in QueueType
  BY <1>1, <1>2, <1>3 DEF QueueType
<1>5. /\ fed.local = t /\ fed.buffer = b /\ fed.at = q.at
      /\ fed.finished = q.finished /\ fed.ended = q.ended
      /\ fed.cancelled = q.cancelled /\ fed.onEndCalled = q.onEndCalled
  BY DEF QueueType
<1>6. Resend!Feed(q) = IF v = Resend!Null THEN Resend!Ends(fed, Resend!Done)
                       ELSE IF v = Resend!Failure THEN Resend!Ends(fed, Resend!Failed)
                       ELSE Resend!Gives(fed, v)
  BY DEF Resend!Feed, Resend!Null, Resend!Failure
<1>7. q.ended /\ ~ q.finished => \/ \E i \in 1 .. Len(s) : s[i] = Resend!Null
                                 \/ \E i \in 1 .. Len(b) : b[i] = Resend!Null
  <2>1. CASE q.local # <<>>
    BY <2>1 DEF WakesUp, HasNull, Resend!Items
  <2>2. CASE q.local = <<>>
    <3>1. ~ \E i \in 1 .. Len(q.local) : q.local[i] = Resend!Null
      BY <2>2
    <3>2. s = q.buffer
      BY <2>2 DEF Resend!Items
    <3>3. QED
      BY <3>1, <3>2 DEF WakesUp, HasNull
  <2>3. QED
    BY <2>1, <2>2
<1> HIDE DEF s, t, b, v, fed
<1>8. CASE v \in {Resend!Null, Resend!Failure}
  BY <1>4, <1>5, <1>6, <1>8, EndsMoves
<1>9. CASE ~ (v \in {Resend!Null, Resend!Failure})
  <2>1. \A i \in 1 .. Len(s) : s[i] = Resend!Null => i - 1 \in 1 .. Len(t) /\ t[i - 1] = s[i]
    BY <1>3, <1>9
  <2>2. q.ended /\ ~ q.finished => \/ \E i \in 1 .. Len(t) : t[i] = Resend!Null
                                   \/ \E i \in 1 .. Len(b) : b[i] = Resend!Null
    BY <1>7, <2>1
  <2>3. QED
    BY <1>4, <1>5, <1>6, <1>9, <2>2, GivesMoves
<1>10. QED
  BY <1>8, <1>9

LEMMA NextMoves ==
    ASSUME NEW q \in QueueType, InLine(q), WakesUp(q), Resend!Asks(q)
    PROVE  Moves(q, Resend!Next(q))
<1> DEFINE r == Resend!Next(q)
<1>1. CASE q.at = "ended"
  <2>1. r = [q EXCEPT !.given = Resend!Done]
    BY <1>1 DEF Resend!Next
  <2>2. /\ r.local = q.local /\ r.buffer = q.buffer /\ r.at = q.at /\ r.woken = q.woken
        /\ r.finished = q.finished /\ r.ended = q.ended /\ r.cancelled = q.cancelled
        /\ r.onEndCalled = q.onEndCalled
    BY <2>1 DEF QueueType
  <2> HIDE DEF r
  <2>3. QED
    BY <2>2 DEF Moves, WakesUp, HasNull, r
<1>2. CASE r \in {Resend!Ends(q, Resend!Failed), Resend!Ends(q, Resend!Done)}
  BY <1>2, EndsMoves
<1>3. CASE q.at = "asleep" /\ Resend!Items(q) # <<>> /\ r = Resend!Feed(q)
  BY <1>3, FeedMoves
<1>4. CASE q.at = "asleep" /\ ~ q.finished /\ Resend!Items(q) = <<>>
           /\ r = [q EXCEPT !.at = "awaits", !.woken = Resend!Nothing]
  <2>1. /\ r.finished = q.finished /\ r.ended = q.ended /\ r.cancelled = q.cancelled
        /\ r.onEndCalled = q.onEndCalled
    BY <1>4 DEF QueueType
  <2>2. q.local = <<>> /\ q.buffer = <<>>
    BY <1>4 DEF Resend!Items
  <2>3. ~ q.ended
    <3>1. Len(q.local) = 0 /\ Len(q.buffer) = 0
      BY <2>2
    <3>2. QED
      BY <1>4, <3>1 DEF WakesUp, HasNull
  <2> HIDE DEF r
  <2>4. QED
    BY <1>4, <2>1, <2>3 DEF Moves, WakesUp, r
<1>5. QED
  <2>1. q.at \in {"asleep", "ended"}
    BY DEF QueueType, Resend!Asks, Resend!Asked
  <2>2. QED
    BY <1>1, <1>2, <1>3, <1>4, <2>1 DEF Resend!Next

\* The queues of a step that does at most one thing to each of them.
QueuesMove ==
    /\ Moves(resends, resends') /\ Moves(realtime, realtime') /\ Moves(ordered, ordered')

LEMMA EveryMove ==
    ASSUME NEW q, Sane(q), WakesUp(q)
    PROVE  /\ q \in QueueType /\ InLine(q)
           /\ Moves(q, q)
           /\ \A v \in Item : Moves(q, Resend!Push(q, v))
           /\ Moves(q, Resend!End(q)) /\ Resend!End(q).ended
           /\ \A err : Moves(q, Resend!Throw(q, err))
           /\ \A err : /\ Moves(q, Resend!Cancel(q, err)) /\ Resend!Cancel(q, err).cancelled
                       /\ Resend!Cancel(q, err).finished
           /\ Moves(q, Resend!AfterCancel(q))
           /\ Moves(q, Resend!Taken(q))
           /\ Resend!Asks(q) => Moves(q, Resend!Next(q))
           /\ q.at \in {"woken", "rejected"} => Moves(q, Resend!Resume(q))
<1>1. q \in QueueType /\ InLine(q)
  BY DEF Sane
<1>2. Moves(q, q)
  BY DEF Moves
<1>3. QED
  BY <1>1, <1>2, CleanupMoves, CancelMoves, ThrowMoves, PushMoves, EndMoves, TakenMoves, NextMoves, ResumeMoves
  DEF Resend!AfterCancel, Resend!Return

LEMMA QueuesOfResendNext ==
    ASSUME ResendInv, ServiceInv, Resend!ResendNext
    PROVE  QueuesMove
<1>1. /\ Sane(resends) /\ Sane(realtime) /\ Sane(ordered)
      /\ WakesUp(resends) /\ WakesUp(realtime) /\ WakesUp(ordered)
      /\ toResend \in Item /\ toCome \in Item
  BY DEF ResendInv, ResendTypeOK, ServiceInv, Item
<1>2. /\ resends.given > 0 => resends.given \in Item
      /\ realtime.given > 0 => realtime.given \in Item
  BY <1>1, GivenMessage DEF Item
<1>3. \A q \in {resends, realtime, ordered} :
         /\ Moves(q, q)
         /\ \A v \in Item : Moves(q, Resend!Push(q, v))
         /\ Moves(q, Resend!End(q))
         /\ \A err : Moves(q, Resend!Throw(q, err))
         /\ \A err : Moves(q, Resend!Cancel(q, err))
         /\ Moves(q, Resend!AfterCancel(q))
         /\ Moves(q, Resend!Taken(q))
         /\ Resend!Asks(q) => Moves(q, Resend!Next(q))
         /\ q.at \in {"woken", "rejected"} => Moves(q, Resend!Resume(q))
  BY <1>1, EveryMove
<1>4. CASE Resend!SourceStep
  <2>1. CASE Resend!HandleResends \/ Resend!ResendThenRealtime \/ Resend!ResendsLeft
             \/ Resend!ResendsFailed \/ Resend!HandleRealtime \/ Resend!RealtimeOver
    BY <1>3, <2>1 DEF QueuesMove, Resend!HandleResends, Resend!ResendThenRealtime, Resend!ResendsLeft,
       Resend!ResendsFailed, Resend!HandleRealtime, Resend!RealtimeOver, Resend!queues
  <2>2. CASE Resend!ResentMessage \/ Resend!LiveMessage
    <3>1. /\ resends' \in {resends, Resend!Taken(resends)}
          /\ realtime' \in {realtime, Resend!Taken(realtime)}
          /\ \/ ordered' = ordered
             \/ ordered' = Resend!Push(ordered, resends.given) /\ resends.given > 0
             \/ ordered' = Resend!Push(ordered, realtime.given) /\ realtime.given > 0
      BY <2>2 DEF Resend!ResentMessage, Resend!LiveMessage, Resend!Order
    <3>2. QED
      BY <1>2, <1>3, <3>1 DEF QueuesMove
  <2>3. QED
    BY <1>4, <2>1, <2>2 DEF Resend!SourceStep
<1>5. CASE Resend!PullOrdered \/ Resend!Deliver \/ Resend!OrderedOver
           \/ (Resend!GoesOn /\ UNCHANGED <<Resend!server, reading, Resend!marks, passed, Resend!reader, Resend!pipes>>)
  BY <1>3, <1>5 DEF QueuesMove, Resend!PullOrdered, Resend!Deliver, Resend!OrderedOver, Resend!GoesOn
<1>6. CASE Resend!ResendStream
  BY <1>3, <1>6 DEF QueuesMove, Resend!ResendStream, Resend!Ask, Resend!Resending, Resend!OnResendDone,
     Resend!OnDisconnected, Resend!ResendFails, Resend!EndResends
<1>7. CASE Resend!Subscribed \/ Resend!Iterate \/ Resend!AskNext \/ Resend!Break
  BY <1>3, <1>7 DEF QueuesMove, Resend!Subscribed, Resend!Iterate, Resend!AskNext, Resend!Break, Resend!queues
<1>8. CASE Resend!SubscribeFails \/ Resend!CancelSubscription
  BY <1>3, <1>8 DEF QueuesMove, Resend!SubscribeFails, Resend!CancelSubscription, Resend!CancelAll
<1>9. CASE Resend!Timer
  BY <1>3, <1>9 DEF QueuesMove, Resend!Timer, Resend!CancelEnds
<1>10. CASE Resend!Unwinds
  BY <1>3, <1>10 DEF QueuesMove, Resend!Unwinds, Resend!SubFinally, Resend!StagesEnd, Resend!SourceFinally,
     Resend!SubDone, Resend!CancelQueues, Resend!SourceDone, Resend!CancelAll, Resend!queues
<1>11. CASE Resend!Unicast \/ Resend!Broadcast
  BY <1>1, <1>3, <1>11 DEF QueuesMove, Resend!Unicast, Resend!Broadcast
<1>12. QED
  BY <1>4, <1>5, <1>6, <1>7, <1>8, <1>9, <1>10, <1>11 DEF Resend!ResendNext, Resend!Turn

LEMMA RequestStaysTold ==
    ASSUME ResendInv, ServiceInv, QueuesMove, Resend!ResendNext
    PROVE  RequestIsTold'
<1>1. Sane(resends) /\ WakesUp(resends)
  BY DEF ResendInv, ResendTypeOK, ServiceInv
<1>2. CASE request' = request
  BY <1>2 DEF ServiceInv, RequestIsTold, QueuesMove, Moves
<1>3. CASE Resend!ResendStream
  <2>1. \/ request' \in {"asked", "resending"}
        \/ request' \in {"over", "none", "cut"} /\ resends' = Resend!End(resends)
        \/ request' = "failed" /\ resends' = Resend!Cancel(resends, "resend failed")
    BY <1>3 DEF Resend!ResendStream, Resend!Ask, Resend!Resending, Resend!OnResendDone,
       Resend!OnDisconnected, Resend!ResendFails, Resend!EndResends
  <2>2. QED
    BY <1>1, <2>1, EveryMove DEF RequestIsTold
<1>4. CASE ~ Resend!ResendStream
  <2>1. request' = request
    BY <1>4 DEF Resend!ResendNext, Resend!Turn, Resend!SourceStep, Resend!HandleResends,
       Resend!ResendThenRealtime, Resend!ResendsLeft, Resend!ResendsFailed, Resend!HandleRealtime,
       Resend!RealtimeOver, Resend!ResentMessage, Resend!LiveMessage, Resend!PullOrdered, Resend!Deliver,
       Resend!OrderedOver, Resend!Subscribed, Resend!Iterate, Resend!AskNext, Resend!Break,
       Resend!SubscribeFails, Resend!CancelSubscription, Resend!Timer, Resend!Unwinds, Resend!SubFinally,
       Resend!StagesEnd, Resend!SourceFinally, Resend!SubDone, Resend!CancelQueues, Resend!SourceDone,
       Resend!Unicast, Resend!Broadcast, Resend!server
  <2>2. QED
    BY <1>2, <2>1
<1>5. QED
  BY <1>3, <1>4

Shape == PipelinesUnwind /\ ReadingGoesOn /\ ServiceTypeOK

\* The steps that leave the pipelines and the subscriber alone.
LEMMA ShapeOfReading ==
    ASSUME ResendInv, ServiceInv, QueuesMove,
           \/ Resend!SourceStep \/ Resend!PullOrdered \/ Resend!Subscribed \/ Resend!Timer
           \/ Resend!GoesOn /\ UNCHANGED <<Resend!server, reading, Resend!marks, passed, Resend!reader, Resend!pipes>>
           \/ Resend!ResendStream \/ Resend!Unicast \/ Resend!Broadcast
    PROVE  Shape'
<1>1. Shape /\ ResendTypeOK
  BY DEF Shape, ServiceInv, ResendInv
<1>2. CASE UNCHANGED <<life, cancelled, waits, subscriber, reading, subscribing>>
  BY <1>1, <1>2 DEF Shape, PipelinesUnwind, ReadingGoesOn, ServiceTypeOK, QueuesMove, Moves
<1>3. CASE Resend!Subscribed
  <2>1. subscribing' = "in" /\ UNCHANGED <<life, cancelled, waits, subscriber, reading>>
    BY <1>3 DEF Resend!Subscribed, Resend!pipes, Resend!reader
  <2>2. QED
    BY <1>1, <2>1 DEF Shape, PipelinesUnwind, ReadingGoesOn, ServiceTypeOK, QueuesMove, Moves
<1>4. CASE Resend!ResentMessage \/ Resend!ResendThenRealtime \/ Resend!ResendsLeft
  <2>1. /\ reading = "resends"
        /\ \/ reading' \in {"resends", "realtime"}
           \/ reading' = "over" /\ life["source"] # "open"
        /\ UNCHANGED <<life, cancelled, waits, subscriber, subscribing>>
    BY <1>4 DEF Resend!ResentMessage, Resend!ResendThenRealtime, Resend!ResendsLeft, Resend!reader,
       Resend!pipes, Resend!server
  <2>2. QED
    BY <1>1, <2>1 DEF Shape, PipelinesUnwind, ReadingGoesOn, ServiceTypeOK, QueuesMove, Moves
<1>5. CASE Resend!ResendsFailed \/ Resend!RealtimeOver
  <2>1. /\ reading # "new" /\ reading' = "over" /\ life' = Resend!Ending("source")
        /\ UNCHANGED <<cancelled, waits, subscriber, subscribing>>
    BY <1>5 DEF Resend!ResendsFailed, Resend!RealtimeOver, Resend!reader, Resend!server
  <2>2. /\ life'["sub"] = life["sub"]
        /\ life'["source"] = IF life["source"] = "open" THEN "ending" ELSE life["source"]
    BY <1>1, <2>1 DEF ResendTypeOK, Resend!Ending, Resend!Pipelines
  <2>3. QED
    BY <1>1, <2>1, <2>2 DEF Shape, PipelinesUnwind, ReadingGoesOn, ServiceTypeOK, QueuesMove, Moves
<1>6. CASE Resend!HandleResends \/ Resend!HandleRealtime \/ Resend!LiveMessage
  <2>1. UNCHANGED <<life, cancelled, waits, subscriber, reading, subscribing>>
    BY <1>6 DEF Resend!HandleResends, Resend!HandleRealtime, Resend!LiveMessage, Resend!pipes,
       Resend!reader, Resend!server
  <2>2. QED
    BY <1>2, <2>1
<1>7. CASE \/ Resend!PullOrdered \/ Resend!Timer \/ Resend!ResendStream \/ Resend!Unicast \/ Resend!Broadcast
           \/ Resend!GoesOn /\ UNCHANGED <<Resend!server, reading, Resend!marks, passed, Resend!reader, Resend!pipes>>
  <2>1. UNCHANGED <<life, cancelled, waits, subscriber, reading, subscribing>>
    BY <1>7 DEF Resend!PullOrdered, Resend!Timer, Resend!ResendStream, Resend!Unicast, Resend!Broadcast,
       Resend!pipes, Resend!reader, Resend!server
  <2>2. QED
    BY <1>2, <2>1
<1>8. QED
  BY <1>3, <1>4, <1>5, <1>6, <1>7 DEF Resend!SourceStep

\* The steps of the subscriber.
LEMMA ShapeOfSubscriber ==
    ASSUME ResendInv, ServiceInv, QueuesMove,
           Resend!Deliver \/ Resend!OrderedOver \/ Resend!Iterate \/ Resend!AskNext \/ Resend!Break
    PROVE  Shape'
<1>1. Shape /\ ResendTypeOK
  BY DEF Shape, ServiceInv, ResendInv
<1>2. CASE Resend!Deliver
  <2>1. /\ subscriber' = subscriber \/ (subscriber = "asking" /\ subscriber' = "handling")
        /\ UNCHANGED <<life, cancelled, waits, reading, subscribing>>
    BY <1>2 DEF Resend!Deliver, Resend!pipes, Resend!reader, Resend!server
  <2>2. QED
    BY <1>1, <2>1 DEF Shape, PipelinesUnwind, ReadingGoesOn, ServiceTypeOK, QueuesMove, Moves
<1>3. CASE Resend!OrderedOver \/ Resend!Break
  <2>1. /\ subscriber' = "left" /\ life' = Resend!Ending("sub")
        /\ UNCHANGED <<cancelled, waits, reading, subscribing>>
    BY <1>3 DEF Resend!OrderedOver, Resend!Break, Resend!server
  <2>2. /\ life'["source"] = life["source"]
        /\ life'["sub"] = IF life["sub"] = "open" THEN "ending" ELSE life["sub"]
    BY <1>1, <2>1 DEF ResendTypeOK, Resend!Ending, Resend!Pipelines
  <2>3. QED
    BY <1>1, <2>1, <2>2 DEF Shape, PipelinesUnwind, ReadingGoesOn, ServiceTypeOK, QueuesMove, Moves
<1>4. CASE Resend!Iterate \/ Resend!AskNext
  <2>1. /\ life["sub"] = "open" /\ subscriber' = "asking"
        /\ \/ subscribing = "in" /\ reading' = "resends"
           \/ subscriber = "handling" /\ reading' = reading
        /\ UNCHANGED <<life, cancelled, waits, subscribing>>
    BY <1>4 DEF Resend!Iterate, Resend!AskNext, Resend!server, Resend!pipes
  <2>2. QED
    BY <1>1, <2>1 DEF Shape, PipelinesUnwind, ReadingGoesOn, ServiceTypeOK, QueuesMove, Moves
<1>5. QED
  BY <1>2, <1>3, <1>4

LEMMA CancelAllSub ==
    ASSUME ResendTypeOK, ServiceTypeOK, life["sub"] \in {"open", "ending"}, Resend!CancelAll("sub")
    PROVE  /\ life'["sub"] = "ending"
           /\ life'["source"] = IF life["source"] = "open" THEN "ending" ELSE life["source"]
           /\ cancelled'["sub"] /\ (cancelled["source"] => cancelled'["source"])
           /\ cancelled' \in [Resend!Pipelines -> BOOLEAN]
BY DEF ResendTypeOK, ServiceTypeOK, Resend!CancelAll, Resend!CancelFns, Resend!Callable, Resend!Pipelines

\* The steps that cancel the subscription, and the end of the pipelines.
LEMMA ShapeOfUnwinding ==
    ASSUME ResendInv, ServiceInv, QueuesMove,
           Resend!SubscribeFails \/ Resend!CancelSubscription \/ Resend!Unwinds
    PROVE  Shape'
<1>1. Shape /\ ResendTypeOK /\ ServiceTypeOK
  BY DEF Shape, ServiceInv, ResendInv
<1>2. CASE Resend!SubscribeFails \/ Resend!CancelSubscription \/ Resend!StagesEnd
  <2>1. /\ life["sub"] \in {"open", "ending"} /\ Resend!CancelAll("sub")
        /\ subscriber' \in {subscriber, "left"}
        /\ subscribing' = subscribing \/ (subscribing = "pending" /\ subscribing' = "failed")
        /\ UNCHANGED <<waits, reading>>
    BY <1>2 DEF Resend!SubscribeFails, Resend!CancelSubscription, Resend!StagesEnd, Resend!Callable,
       Resend!server, Resend!reader
  <2>2. /\ life'["sub"] = "ending"
        /\ life'["source"] = IF life["source"] = "open" THEN "ending" ELSE life["source"]
        /\ cancelled'["sub"] /\ cancelled' \in [Resend!Pipelines -> BOOLEAN]
    BY <1>1, <2>1, CancelAllSub
  <2>3. QED
    BY <1>1, <2>1, <2>2 DEF Shape, PipelinesUnwind, ReadingGoesOn, ServiceTypeOK, QueuesMove, Moves
<1>3. CASE Resend!SubFinally
  <2>1. /\ life["sub"] = "ending" /\ cancelled["sub"] /\ subscriber' = "left"
        /\ life' = [life EXCEPT !["sub"] = "finally"]
        /\ waits' = [waits EXCEPT !["sub"] = (life["source"] = "ending")]
        /\ UNCHANGED <<cancelled, reading, subscribing>>
    BY <1>3 DEF Resend!SubFinally, Resend!WaitsForCancel, Resend!server
  <2>2. /\ life'["sub"] = "finally" /\ life'["source"] = life["source"]
        /\ waits'["sub"] = (life["source"] = "ending") /\ waits'["source"] = waits["source"]
        /\ waits' \in [Resend!Pipelines -> BOOLEAN]
    BY <1>1, <2>1 DEF ResendTypeOK, ServiceTypeOK, Resend!Pipelines
  <2>3. QED
    BY <1>1, <2>1, <2>2 DEF Shape, PipelinesUnwind, ReadingGoesOn, ServiceTypeOK, QueuesMove, Moves
<1>4. CASE Resend!SourceFinally /\ (cancelled["sub"] \/ life["sub"] \in {"finally", "done"})
  <2>1. /\ life["source"] = "ending" /\ waits' = waits
        /\ life' = [life EXCEPT !["source"] = "finally"]
        /\ cancelled' = [cancelled EXCEPT !["source"] = TRUE]
        /\ UNCHANGED <<subscriber, reading, subscribing>>
    BY <1>4 DEF Resend!SourceFinally, Resend!server, Resend!reader
  <2>2. /\ life'["source"] = "finally" /\ life'["sub"] = life["sub"] /\ cancelled'["sub"] = cancelled["sub"]
        /\ cancelled' \in [Resend!Pipelines -> BOOLEAN]
    BY <1>1, <2>1 DEF ResendTypeOK, ServiceTypeOK, Resend!Pipelines
  <2>3. QED
    BY <1>1, <1>4, <2>1, <2>2 DEF Shape, PipelinesUnwind, ReadingGoesOn, ServiceTypeOK, QueuesMove, Moves
<1>5. CASE Resend!SourceFinally /\ ~ (cancelled["sub"] \/ life["sub"] \in {"finally", "done"})
  <2>1. /\ life["source"] = "ending"
        /\ life' = [life EXCEPT !["source"] = "finally", !["sub"] = "ending"]
        /\ waits' = [waits EXCEPT !["source"] = TRUE]
        /\ cancelled' = [p \in Resend!Pipelines |-> TRUE]
        /\ UNCHANGED <<subscriber, reading, subscribing>>
    BY <1>5 DEF Resend!SourceFinally, Resend!server, Resend!reader
  <2>2. /\ life'["source"] = "finally" /\ life'["sub"] = "ending" /\ cancelled'["sub"]
        /\ waits'["source"] /\ waits'["sub"] = waits["sub"]
        /\ waits' \in [Resend!Pipelines -> BOOLEAN] /\ cancelled' \in [Resend!Pipelines -> BOOLEAN]
    BY <1>1, <2>1 DEF ResendTypeOK, ServiceTypeOK, Resend!Pipelines
  <2>3. QED
    BY <1>1, <1>5, <2>1, <2>2 DEF Shape, PipelinesUnwind, ReadingGoesOn, ServiceTypeOK, QueuesMove, Moves
<1>6. CASE Resend!SubDone
  <2>1. /\ life["sub"] = "finally" /\ life' = [life EXCEPT !["sub"] = "done"]
        /\ UNCHANGED <<cancelled, waits, subscriber, reading, subscribing>>
    BY <1>6 DEF Resend!SubDone, Resend!server, Resend!reader
  <2>2. life'["sub"] = "done" /\ life'["source"] = life["source"]
    BY <1>1, <2>1 DEF ResendTypeOK, Resend!Pipelines
  <2>3. QED
    BY <1>1, <2>1, <2>2 DEF Shape, PipelinesUnwind, ReadingGoesOn, ServiceTypeOK, QueuesMove, Moves
<1>7. CASE Resend!CancelQueues
  <2>1. /\ life["source"] = "finally" /\ life' = [life EXCEPT !["source"] = "closing"]
        /\ realtime' = Resend!Cancel(realtime, Resend!NoError)
        /\ resends' = Resend!Cancel(resends, Resend!NoError)
        /\ UNCHANGED <<cancelled, waits, subscriber, reading, subscribing>>
    BY <1>7 DEF Resend!CancelQueues, Resend!server, Resend!reader
  <2>2. life'["source"] = "closing" /\ life'["sub"] = life["sub"]
    BY <1>1, <2>1 DEF ResendTypeOK, Resend!Pipelines
  <2>3. resends'.cancelled /\ realtime'.cancelled
    BY <2>1, EveryMove DEF ResendInv, ResendTypeOK, ServiceInv
  <2>4. QED
    BY <1>1, <2>1, <2>2, <2>3 DEF Shape, PipelinesUnwind, ReadingGoesOn, ServiceTypeOK
<1>8. CASE Resend!SourceDone
  <2>1. /\ life["source"] = "closing" /\ realtime.onEndCalled /\ resends.onEndCalled
        /\ life' = [life EXCEPT !["source"] = "done"]
        /\ UNCHANGED <<cancelled, waits, subscriber, reading, subscribing>>
    BY <1>8 DEF Resend!SourceDone, Resend!server, Resend!reader
  <2>2. life'["source"] = "done" /\ life'["sub"] = life["sub"]
    BY <1>1, <2>1 DEF ResendTypeOK, Resend!Pipelines
  <2>3. QED
    BY <1>1, <2>1, <2>2 DEF Shape, PipelinesUnwind, ReadingGoesOn, ServiceTypeOK, QueuesMove, Moves
<1>9. QED
  BY <1>2, <1>3, <1>4, <1>5, <1>6, <1>7, <1>8 DEF Resend!Unwinds

LEMMA ServiceInitHolds == ASSUME Resend!ResendInit PROVE ServiceInv
<1>1. /\ resends = Resend!NewQueue /\ realtime = Resend!NewQueue /\ ordered = Resend!NewQueue
      /\ request = "adding" /\ subscribing = "pending" /\ reading = "new" /\ subscriber = "away"
      /\ life = [p \in Resend!Pipelines |-> "open"]
      /\ cancelled = [p \in Resend!Pipelines |-> FALSE] /\ waits = [p \in Resend!Pipelines |-> FALSE]
  BY DEF Resend!ResendInit
<1>2. WakesUp(Resend!NewQueue)
  BY DEF WakesUp, Resend!NewQueue
<1>3. PipelinesUnwind
  BY <1>1 DEF PipelinesUnwind, Resend!Pipelines
<1>4. QED
  BY <1>1, <1>2, <1>3 DEF ServiceInv, ServiceTypeOK, RequestIsTold, ReadingGoesOn

LEMMA MCNextKeepsService ==
    ASSUME ResendInv, ServiceInv, [MCNext]_<<part, vars, resendVars>>
    PROVE  ServiceInv'
<1>1. CASE Resend!ResendNext
  <2>1. QueuesMove
    BY <1>1, QueuesOfResendNext
  <2>2. RequestIsTold'
    BY <1>1, <2>1, RequestStaysTold
  <2>3. Shape'
    BY <1>1, <2>1, ShapeOfReading, ShapeOfSubscriber, ShapeOfUnwinding DEF Resend!ResendNext, Resend!Turn
  <2>4. QED
    BY <2>1, <2>2, <2>3 DEF ServiceInv, QueuesMove, Moves, Shape
<1>2. CASE UNCHANGED resendVars
  BY <1>2 DEF resendVars, ServiceInv, ServiceTypeOK, WakesUp, HasNull, PipelinesUnwind, RequestIsTold, ReadingGoesOn
<1>3. QED
  BY <1>1, <1>2 DEF MCNext

\* ResendSubscribe, PushQueue: no wake-up is lost, and no pipeline waits for one that waits for it.
THEOREM ServiceInvariantHolds == MCSpec => [](ResendInv /\ ServiceInv)
<1>1. MCInit => ResendInv /\ ServiceInv
  BY ResendInitHolds, ServiceInitHolds DEF MCInit
<1>2. ResendInv /\ ServiceInv /\ [MCNext]_<<part, vars, resendVars>> => ResendInv' /\ ServiceInv'
  BY MCNextKeepsResend, MCNextKeepsService
<1>3. QED
  BY <1>1, <1>2, PTL DEF MCSpec

\* A queue whose reader waits, when no turn is due and no cancellation is under way, is empty and open.
LEMMA WaitingQueueIsEmpty ==
    ASSUME NEW q, Sane(q), WakesUp(q), ~ Resend!Cancelled(q),
           q.at \notin {"woken", "rejected"}, q.given = Resend!Nothing, ~ Resend!Asks(q)
    PROVE  ~ q.finished /\ ~ q.ended /\ ToGive(q) = {}
<1>1. q.at = "awaits" /\ q.local = <<>> /\ q.buffer = <<>>
  BY DEF Sane, InLine, QueueType, Resend!Asks, Resend!Asked
<1>2. ~ q.finished
  BY <1>1 DEF WakesUp, Resend!Cancelled
<1>3. ToGive(q) = {}
  BY <1>1 DEF ToGive, InQueue, MessageId, Resend!Nothing
<1>4. ~ HasNull(q)
  BY <1>1 DEF HasNull
<1>5. QED
  BY <1>2, <1>3, <1>4 DEF WakesUp

\* What was left has come to its end: neither pipeline waits for the other.
LEMMA UnwoundInTheEnd ==
    ASSUME ResendInv, ServiceInv, Resend!Over, life["sub"] # "open"
    PROVE  /\ \A p \in Resend!Pipelines : Resend!IsOver(p)
           /\ resends.onEndCalled /\ realtime.onEndCalled /\ subscriber = "left"
<1>1. /\ life["sub"] \in {"open", "ending", "finally", "closing", "done"}
      /\ life["source"] \in {"open", "ending", "finally", "closing", "done"}
      /\ PipelinesUnwind
  BY DEF ResendInv, ResendTypeOK, ServiceInv, Resend!Pipelines
<1>2. /\ \A p \in Resend!Pipelines : life[p] # "ending"
      /\ ~ (life["sub"] = "finally" /\ (waits["sub"] => Resend!IsOver("source")))
      /\ ~ (life["source"] = "finally" /\ (waits["source"] => Resend!IsOver("sub")))
      /\ ~ (life["source"] = "closing" /\ realtime.onEndCalled /\ resends.onEndCalled)
      /\ ~ Resend!Cancelled(resends) /\ ~ Resend!Cancelled(realtime)
  BY DEF Resend!Over, Resend!UnwindingIsDue
<1>3. life["sub"] \in {"finally", "done"} /\ life["source"] \in {"finally", "closing", "done"}
  BY <1>1, <1>2 DEF PipelinesUnwind, Resend!Pipelines
<1>4. life["source"] # "closing"
  BY <1>1, <1>2 DEF PipelinesUnwind, Resend!Cancelled
<1>5. life["source"] = "done"
  BY <1>1, <1>2, <1>3, <1>4 DEF PipelinesUnwind, Resend!IsOver
<1>6. life["sub"] = "done"
  BY <1>2, <1>3, <1>5 DEF Resend!IsOver
<1>7. QED
  BY <1>1, <1>5, <1>6 DEF PipelinesUnwind, Resend!IsOver, Resend!Pipelines

\* A subscriber who asks, when nothing is left to happen, reads live messages, and has had them all.
LEMMA AskingIsServed ==
    ASSUME ResendInv, ServiceInv, Resend!Over, subscriber = "asking"
    PROVE  (1 .. Final) \ Bad \subseteq Resend!Everything
<1>1. /\ ResendTypeOK /\ LiveFits /\ OrderedFits /\ PipelinesUnwind /\ RequestIsTold /\ ReadingGoesOn
      /\ WakesUp(resends) /\ WakesUp(realtime) /\ WakesUp(ordered)
      /\ Sane(resends) /\ Sane(realtime) /\ Sane(ordered)
  BY DEF ResendInv, ResendTypeOK, ServiceInv
<1>2. /\ \A q \in {resends, realtime, ordered} :
             q.at \notin {"woken", "rejected"} /\ q.given = Resend!Nothing /\ ~ Resend!Cancelled(q)
      /\ ~ (reading = "resends" /\ Resend!Asks(resends))
      /\ ~ (reading = "realtime" /\ life["source"] = "open" /\ Resend!Asks(realtime))
      /\ ~ (life["sub"] = "open" /\ Resend!Asks(ordered))
      /\ \A p \in Resend!Pipelines : life[p] # "ending"
      /\ request \notin {"adding", "asked", "resending"}
      /\ ~ (subscribing = "in" /\ toCome <= Final)
  BY DEF Resend!Over, Resend!TurnIsDue, Resend!UnwindingIsDue
<1>3. life["sub"] = "open"
  BY UnwoundInTheEnd
<1>4. life["source"] = "open"
  BY <1>1, <1>2, <1>3 DEF PipelinesUnwind, ResendTypeOK, Resend!Pipelines
<1>5. ~ ordered.finished /\ ToGive(ordered) = {}
  BY <1>1, <1>2, <1>3, WaitingQueueIsEmpty
<1>6. reading # "resends"
  <2>1. reading = "resends" => ~ resends.finished /\ ~ resends.ended
    BY <1>1, <1>2, WaitingQueueIsEmpty
  <2>2. QED
    BY <1>1, <1>2, <2>1 DEF RequestIsTold, ResendTypeOK
<1>7. reading = "realtime" /\ subscribing = "in"
  BY <1>1, <1>4, <1>6 DEF ReadingGoesOn, ResendTypeOK
<1>8. ~ realtime.finished /\ ToGive(realtime) = {}
  BY <1>1, <1>2, <1>4, <1>7, WaitingQueueIsEmpty
<1>9. ASSUME NEW w \in (1 .. Final) \ Bad
      PROVE  w \in Resend!Everything
  <2>1. toCome \in Nat /\ Final \in Nat /\ toCome > Final /\ passed \in Nat /\ Stored \in Nat
    BY <1>1, <1>2, <1>7, ReceivingAssumption DEF ResendTypeOK, MessageId
  <2>2. w \in 1 .. toCome - 1 /\ w \in Nat \ {0}
    BY <2>1
  <2>3. BeforeLive(w)
    BY <1>1, <1>4, <1>8, <2>2 DEF LiveFits, SourceIsOpen
  <2>4. w <= passed \/ Missing(w)
    BY <1>7, <1>8, <2>3 DEF BeforeLive, Early
  <2>5. w <= passed => Accounted(w)
    BY <1>1, <1>5, <2>1, <2>2 DEF OrderedFits
  <2>6. w \in Got \/ Missing(w)
    BY <2>4, <2>5 DEF Accounted
  <2>7. Missing(w) => request \in {"failed", "cut", "none"} /\ w \in 1 .. Stored
    BY <2>1, <2>2 DEF Missing, Excused
  <2>8. w \in Got => w \in {handed[i] : i \in DOMAIN handed}
    BY <1>1 DEF Got, ResendTypeOK
  <2>9. QED
    BY <2>6, <2>7, <2>8 DEF Resend!Everything
<1>10. QED
  BY <1>9

\* ResendSubscribe: one who iterates gets what is published or is told the end, and when a
\* subscription is cancelled or left both pipelines are done and both queues let go of the connection.
THEOREM EveryReaderIsServed == MCSpec => []ReadersAreServed
<1>1. ASSUME ResendInv, ServiceInv
      PROVE  ReadersAreServed
  BY <1>1, UnwoundInTheEnd, AskingIsServed DEF ReadersAreServed, Resend!ReadersAreServed
<1>2. QED
  BY <1>1, ServiceInvariantHolds, PTL

===================================================================
