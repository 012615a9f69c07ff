------------------------------- MODULE KeyExchange -------------------------------
(***************************************************************************)
(* The group keys of one stream: packages/client/src/stream/encryption     *)
(* with publish/Encrypt.ts and subscribe/Decrypt.js.  A publisher takes    *)
(* keys from its GroupKeyStore, announces the next one along with a        *)
(* message, and answers requests for keys; a subscriber takes the messages *)
(* in order and asks for the keys it lacks.  A key is a number, in the     *)
(* order of generation.  Both keep their keys in a database file, which    *)
(* ServerPersistentStore opens only when something has been written.       *)
(* Order and loss of messages are the matter of OrderMessages: here the    *)
(* subscriber takes them in order and may miss some.                       *)
(***************************************************************************)
EXTENDS Naturals, FiniteSets, SequencesExt

CONSTANTS Initial,      \* client |-> keys configured for it (groupKeys); at most one
          Requires,     \* values of stream.requireEncryptedData
          MaxMessages,  \* bound: publishes
          MaxKeys,      \* bound: keys
          MaxStops,     \* bound: times the publisher stops or its process ends
          MaxFaults,    \* bound: calls that fail, messages that do not arrive, refusals
          None

ASSUME KeyExchangeAssumption ==
    /\ Requires \in SUBSET BOOLEAN \ {{}}
    /\ {MaxMessages, MaxKeys, MaxStops, MaxFaults} \subseteq Nat
    /\ None \notin Nat
    /\ \A c \in {"publisher", "subscriber"} : Initial[c] \subseteq 1 .. 1

VARIABLES
    required,     \* stream.requireEncryptedData
    written,      \* client |-> keys in the database, but for the configured ones
    open,         \* clients whose database file exists
    generation,   \* the PublisherKeyExchange in use; a stop() is followed by a new one
    current,      \* generation |-> currentGroupKeyId
    next,         \* generation |-> nextGroupKeys, newest first
    storing,      \* storeKey() calls of the publisher that are not done
    sub,          \* generation |-> its subscription to the publisher's key exchange stream
    creating,     \* the message that is being encrypted
    log,          \* the messages that were published
    outcome,      \* message |-> what became of it at the subscriber
    asking,       \* where the subscriber's request for a key is; one at a time
    answer,       \* the keys in the response to it
    used,         \* keys generated so far
    stops, faults,
    cut,          \* history: the next key used need not have been announced
    keyed,        \* history: a key has been set, and the caller has been told
    old           \* history: keys whoever followed the stream up to the last rekey() has by now

publisherVars == <<generation, current, next, storing, sub, creating, log>>
subscriberVars == <<outcome, asking, answer>>
storeVars == <<written, open>>
history == <<cut, keyed, old>>
vars == <<required, publisherVars, subscriberVars, storeVars, used, stops, faults, history>>

Generations == 0 .. MaxStops
Positions == 1 .. MaxMessages
Idle == [step |-> "idle"]
\* The message the subscriber's pipeline is at, one after the other.
At == Cardinality({ i \in Positions : outcome[i] \notin {"none", "hangs"} }) + 1
Message == log[At]

\* ServerPersistentStore: what get() and size() find.  A file that does not exist is not made
\* by reading, and the configured keys are inserted when it is opened.
Content(c) == IF c \in open THEN written[c] \cup Initial[c] ELSE {}
\* init(): opens the file, which makes it if need be.
Opens(c) == open' = open \cup {c}
\* set(), for some keys or none.
Writes(c, keys) ==
    /\ written' = [written EXCEPT ![c] = @ \cup keys]
    /\ IF keys = {} THEN UNCHANGED open ELSE Opens(c)

Configured == IF Initial["publisher"] = {} THEN None ELSE 1

Init ==
    /\ required \in Requires
    /\ written = [c \in {"publisher", "subscriber"} |-> {}]
    \* Other streams share the file; it matters only to keys that are inserted when it is opened.
    /\ open \in SUBSET { c \in DOMAIN Initial : Initial[c] # {} }
    /\ generation = 0
    /\ current = [g \in Generations |-> Configured]
    /\ next = [g \in Generations |-> <<>>]
    /\ storing = {}
    /\ sub = [g \in Generations |-> "none"]
    /\ creating = Idle
    /\ log = <<>>
    /\ outcome = [i \in Positions |-> "none"]
    /\ asking = "no"
    /\ answer = {}
    /\ used = Cardinality(Initial["publisher"] \cup Initial["subscriber"])
    /\ stops = 0 /\ faults = 0
    /\ cut = FALSE /\ keyed = FALSE /\ old = {}

Fault == faults < MaxFaults /\ faults' = faults + 1

-----------------------------------------------------------------------------
(* GroupKeyStore of the publisher.                                          *)

NewKey == used + 1
CanGenerate == used < MaxKeys

\* setNextGroupKey up to its await: the newest two are kept.
Queued(g, k) == [next EXCEPT ![g] = SubSeq(<<k>> \o @, 1, IF Len(@) = 0 THEN 1 ELSE 2)]

\* What useGroupKey() asks the store for, and the key it announces; `from` is what it was called
\* with.  nextGroupKeys.pop() takes the oldest.
Popped(g) == IF next[g] = <<>> THEN None ELSE Last(next[g])
\* Mutation: the next key is used at once.
PickedAtOnce(g) == IF Popped(g) = None THEN current[g] ELSE Popped(g)
Picked(g) == IF current[g] = None THEN Popped(g) ELSE current[g]
Announced(g) == IF current[g] = None THEN None ELSE Popped(g)

\* isEmpty: what hasAnyGroupKey asks the store once it has found no pending key.
NoneStored == Content("publisher") = {}

\* rotateGroupKey() or setNextGroupKey() of the user.
SetNextGroupKey ==
    /\ CanGenerate
    /\ used' = NewKey
    /\ next' = Queued(generation, NewKey)
    /\ storing' = storing \cup {[generation |-> generation, key |-> NewKey, for |-> "next"]}
    /\ UNCHANGED <<required, generation, current, sub, creating, log, subscriberVars, storeVars,
                   stops, faults, history>>

\* rekey(): stores the key first.
Rekey ==
    /\ CanGenerate
    /\ used' = NewKey
    /\ storing' = storing \cup {[generation |-> generation, key |-> NewKey, for |-> "rekey"]}
    /\ UNCHANGED <<required, generation, current, next, sub, creating, log, subscriberVars,
                   storeVars, stops, faults, history>>

\* getSub: one subscription per exchange, asked for when it is first needed.
Asked(g) == IF sub[g] = "none" THEN [sub EXCEPT ![g] = "asking"] ELSE sub

\* The keys that whoever has followed the stream may have.
Followed == { log[i].key : i \in DOMAIN log } \cup { log[i].next : i \in DOMAIN log }
            \cup (IF creating.step = "get" THEN {creating.key, creating.next} ELSE {})

\* Mutation: the new key waits in line.
RekeyedNext(g, k) ==
    /\ next' = [next EXCEPT ![g] = <<k>>]
    /\ UNCHANGED current
\* rekey() once its key is stored.
Rekeyed(g, k) ==
    /\ current' = [current EXCEPT ![g] = k]
    /\ next' = [next EXCEPT ![g] = <<>>]

\* The message that is being encrypted gets to its next step.
Reaches(step) ==
    [step |-> step, generation |-> creating.generation, key |-> creating.key, next |-> creating.next,
     cut |-> creating.cut, keyed |-> creating.keyed, old |-> creating.old]

\* storeKey() is done.
KeyStored(t) ==
    /\ t \in storing
    /\ storing' = storing \ {t}
    /\ Writes("publisher", {t.key})
    /\ \/ /\ t.for = "next"
          /\ keyed' = TRUE
          /\ UNCHANGED <<current, next, sub, creating, cut, old>>
       \/ /\ t.for = "use"
          /\ creating' = Reaches("use")
          /\ UNCHANGED <<current, next, sub, cut, keyed, old>>
       \/ /\ t.for = "rekey"
          /\ Rekeyed(t.generation, t.key)
          /\ keyed' = TRUE
          /\ cut' = TRUE
          /\ IF t.generation # generation
             THEN UNCHANGED <<sub, old>>
             ELSE sub' = Asked(t.generation) /\ old' = Followed \ {None}
          /\ UNCHANGED creating
    /\ UNCHANGED <<required, generation, log, subscriberVars, used, stops, faults>>

\* The encryption of the message fails, and with it its publish; the chain has moved on already.
Fails ==
    /\ creating' = Idle
    /\ cut' = (cut \/ (creating.step = "get" /\ (creating.cut \/ creating.next # None)))

\* The database fails.  A pending key stays pending.
StoringFails(t) ==
    /\ t \in storing
    /\ Fault
    /\ storing' = storing \ {t}
    /\ IF t.for = "use" THEN Fails ELSE UNCHANGED <<creating, cut>>
    /\ UNCHANGED <<required, generation, current, next, sub, log, subscriberVars, storeVars, used,
                   stops, keyed, old>>

-----------------------------------------------------------------------------
(* encrypt(), for one message after the other (MessageCreator's queue).     *)

\* The exchange and the old keys are those of now.
Wants(step, told) ==
    [step |-> step, generation |-> generation, key |-> None, next |-> None, cut |-> FALSE,
     keyed |-> told, old |-> old]

\* Whoever can decrypt a message learns the key it announces.
Learns(keys, m) == IF m.key \in keys THEN keys \cup ({m.next} \ {None}) ELSE keys
Publish(m) == log' = Append(log, m) /\ creating' = Idle /\ old' = Learns(old, m)
Plain == [key |-> None, next |-> None, by |-> generation, cut |-> FALSE, keyed |-> creating.keyed]
Encrypted == [key |-> creating.key, next |-> creating.next, by |-> creating.generation,
              cut |-> creating.cut, keyed |-> creating.keyed]

\* A publish begins: hasAnyGroupKey if the stream does not require encryption.
Encrypt ==
    /\ creating = Idle
    /\ Len(log) < MaxMessages
    /\ LET needed == required \/ next[generation] # <<>>
       IN  /\ creating' = Wants(IF needed THEN "sub" ELSE "size", keyed)
           /\ sub' = IF needed THEN Asked(generation) ELSE sub
    /\ UNCHANGED <<required, generation, current, next, storing, log, subscriberVars, storeVars,
                   used, stops, faults, history>>

\* isEmpty() answers.
SizeArrives ==
    /\ creating.step = "size"
    /\ IF NoneStored
       THEN Publish(Plain) /\ UNCHANGED sub
       ELSE creating' = Wants("sub", creating.keyed) /\ sub' = Asked(generation) /\ UNCHANGED <<log, old>>
    /\ UNCHANGED <<required, generation, current, next, storing, subscriberVars, storeVars,
                   used, stops, faults, cut, keyed>>

\* Mutation: getSub() is not awaited.
WaitsForNothing(g) == FALSE
\* useGroupKey of the exchange, until it has its subscription.
WaitsForSub(g) == sub[g] = "asking"

UseGroupKey ==
    /\ creating.step = "sub"
    /\ ~ WaitsForSub(creating.generation)
    /\ IF creating.generation # generation
       THEN Fails
       ELSE creating' = Reaches("use") /\ UNCHANGED cut
    /\ UNCHANGED <<required, generation, current, next, storing, sub, log, subscriberVars, storeVars,
                   used, stops, faults, keyed, old>>

\* useGroupKey of the store.
PickKey ==
    /\ creating.step = "use"
    /\ LET g == creating.generation
       IN  /\ Picked(g) # None
           /\ creating' = [step |-> "get", generation |-> g, key |-> Picked(g), next |-> Announced(g),
                            cut |-> cut, keyed |-> creating.keyed, old |-> creating.old]
           /\ current' = [current EXCEPT ![g] = IF Popped(g) = None THEN @ ELSE Popped(g)]
           /\ next' = [next EXCEPT ![g] = IF @ = <<>> THEN @ ELSE Front(@)]
    /\ cut' = FALSE
    /\ UNCHANGED <<required, generation, storing, sub, log, subscriberVars, storeVars, used, stops,
                   faults, keyed, old>>

\* There is none: one is generated, and useGroupKey called again when it is stored.
GenerateKey ==
    /\ creating.step = "use"
    /\ LET g == creating.generation
       IN  /\ Picked(g) = None
           /\ CanGenerate
           /\ next' = Queued(g, NewKey)
           /\ storing' = storing \cup {[generation |-> g, key |-> NewKey, for |-> "use"]}
    /\ used' = NewKey
    /\ creating' = Reaches("rotate")
    /\ UNCHANGED <<required, generation, current, sub, log, subscriberVars, storeVars, stops,
                   faults, history>>

\* The key comes from the database, and the message is encrypted and published.
KeyArrives ==
    /\ creating.step = "get"
    /\ IF creating.key \in Content("publisher")
       THEN Publish(Encrypted) /\ UNCHANGED cut
       ELSE Fails /\ UNCHANGED <<log, old>>
    /\ UNCHANGED <<required, generation, current, next, storing, sub, subscriberVars, storeVars,
                   used, stops, faults, keyed>>

\* The message is encrypted but not published.
PublishFails ==
    /\ creating.step = "get"
    /\ Fault
    /\ Fails
    /\ UNCHANGED <<required, generation, current, next, storing, sub, log, subscriberVars, storeVars,
                   used, stops, keyed, old>>

-----------------------------------------------------------------------------
(* The publisher's subscription, and its end.                               *)

\* client.subscribe() is done; a stop() meanwhile cancels the subscription.
SubArrives(g) ==
    /\ sub[g] = "asking"
    /\ sub' = [sub EXCEPT ![g] = IF g = generation THEN "on" ELSE "off"]
    /\ UNCHANGED <<required, generation, current, next, storing, creating, log, subscriberVars,
                   storeVars, used, stops, faults, history>>

SubFails(g) ==
    /\ sub[g] = "asking"
    /\ Fault
    /\ sub' = [sub EXCEPT ![g] = "none"]
    /\ IF creating.step = "sub" /\ creating.generation = g
       THEN Fails
       ELSE UNCHANGED <<creating, cut>>
    /\ UNCHANGED <<required, generation, current, next, storing, log, subscriberVars, storeVars,
                   used, stops, keyed, old>>

\* stop(): encrypt() makes a new exchange when it needs one.
Leaves ==
    /\ stops < MaxStops
    /\ stops' = stops + 1
    /\ generation' = generation + 1
    /\ old' = {}
    /\ UNCHANGED <<required, current, next, log, storeVars, used, faults, keyed>>

Stop ==
    /\ Leaves
    /\ sub' = [sub EXCEPT ![generation] = IF @ = "on" THEN "off" ELSE @]
    /\ UNCHANGED <<storing, creating, subscriberVars, cut>>

\* The process of the publisher ends and starts again.
Crash ==
    /\ Leaves
    /\ sub' = [g \in Generations |-> IF g <= generation THEN "off" ELSE "none"]
    /\ storing' = {}
    /\ creating' = Idle
    /\ cut' = FALSE
    /\ IF asking = "received"
       THEN asking' = "lost" /\ outcome' = [outcome EXCEPT ![At] = "hangs"]
       ELSE UNCHANGED <<asking, outcome>>
    /\ UNCHANGED answer

-----------------------------------------------------------------------------
(* decrypt() and the subscriber's request.                                  *)

Becomes(o) == outcome' = [outcome EXCEPT ![At] = o]

\* Decrypts the message with a key and keeps the key it announces.
Decrypts(keys) ==
    /\ Becomes("decrypted")
    /\ Writes("subscriber", (keys \cup {Message.next}) \ {None})

\* The next message in order: getKey looks for its key.
TakeNext ==
    /\ asking = "no"
    /\ At <= Len(log)
    /\ \/ Message.key = None /\ Becomes("plain") /\ UNCHANGED <<asking, storeVars>>
       \/ Message.key \in Content("subscriber") /\ Decrypts({}) /\ UNCHANGED asking
       \/ /\ Message.key \notin Content("subscriber") \cup {None}
          /\ asking' = "subscribing"
          /\ UNCHANGED <<outcome, storeVars>>
    /\ UNCHANGED <<required, publisherVars, answer, used, stops, faults, history>>

\* A message the subscriber never gets.
Miss ==
    /\ asking = "no"
    /\ At <= Len(log)
    /\ Fault
    /\ Becomes("missed")
    /\ UNCHANGED <<required, publisherVars, asking, answer, storeVars, used, stops, history>>

\* requestKeys goes from `here` to `there`.
Goes(here, there) ==
    /\ asking = here
    /\ asking' = there
    /\ UNCHANGED <<required, publisherVars, storeVars, used, stops, history>>

SubscriberSubscribed ==
    Goes("subscribing", "publishing") /\ UNCHANGED <<outcome, answer, faults>>
\* UnableToDecryptError: the message is left out.
SubscriberRejected ==
    Goes("subscribing", "no") /\ Fault /\ Becomes("refused") /\ UNCHANGED answer
RequestPublished ==
    Goes("publishing", "sent") /\ UNCHANGED <<outcome, answer, faults>>
\* The finally clause waits for the response to a request that never went out.
RequestFails ==
    Goes("publishing", "lost") /\ Fault /\ Becomes("hangs") /\ UNCHANGED answer
\* A key exchange stream is not stored: requests reach whoever is subscribed.
RequestArrives ==
    /\ Goes("sent", IF \E g \in Generations : sub[g] = "on" THEN "received" ELSE "lost")
    /\ IF asking' = "lost" /\ Message.by # generation THEN Becomes("hangs") ELSE UNCHANGED outcome
    /\ UNCHANGED <<answer, faults>>
RequestAnswered ==
    /\ Goes("received", "answered")
    /\ answer' = {Message.key} \cap Content("publisher")
    /\ UNCHANGED <<outcome, faults>>
\* Not a subscriber, or an error response.
RequestRefused ==
    Goes("received", "no") /\ Fault /\ Becomes("refused") /\ UNCHANGED answer
\* Neither requests nor responses are sent again, nor does anybody stop waiting for them.
MailIsLost ==
    \E here \in {"sent", "answered"} :
        Goes(here, "lost") /\ Fault /\ Becomes("hangs") /\ UNCHANGED answer
ResponseArrives ==
    /\ asking = "answered"
    /\ asking' = "no"
    /\ answer' = {}
    /\ IF Message.key \in answer
       THEN Decrypts(answer)
       ELSE Becomes("failed") /\ UNCHANGED storeVars
    /\ UNCHANGED <<required, publisherVars, used, stops, faults, history>>

-----------------------------------------------------------------------------
Subscriber ==
    \/ TakeNext \/ SubscriberSubscribed \/ RequestPublished
    \/ RequestArrives \/ RequestAnswered \/ ResponseArrives
Next ==
    \/ SetNextGroupKey \/ Rekey \/ Stop \/ Crash
    \/ \E t \in storing : KeyStored(t) \/ StoringFails(t)
    \/ Encrypt \/ SizeArrives \/ UseGroupKey \/ PickKey \/ GenerateKey \/ KeyArrives \/ PublishFails
    \/ \E g \in Generations : SubArrives(g) \/ SubFails(g)
    \/ Subscriber
    \/ Miss \/ SubscriberRejected \/ RequestFails \/ RequestRefused \/ MailIsLost

Spec == Init /\ [][Next]_vars
\* The subscriber's calls return, and what is on its way arrives.
Fairness == WF_vars(Subscriber)
FairSpec == Spec /\ Fairness

-----------------------------------------------------------------------------
(* Properties.                                                              *)

Steps == {"size", "sub", "use", "rotate", "get"}
Creating == [step : Steps, generation : Generations, key : Nat \cup {None}, next : Nat \cup {None},
             cut : BOOLEAN, keyed : BOOLEAN, old : SUBSET Nat]
Logged == [key : Nat \cup {None}, next : Nat \cup {None}, by : Generations, cut : BOOLEAN,
           keyed : BOOLEAN]
PublisherTypeOK ==
    /\ used \in Nat
    /\ stops \in 0 .. MaxStops /\ generation = stops
    /\ DOMAIN written = {"publisher", "subscriber"} /\ written["publisher"] \subseteq Nat
    /\ current \in [Generations -> Nat \cup {None}]
    /\ next \in [Generations -> Seq(Nat)]
    /\ storing \subseteq [generation : Generations, key : Nat, for : {"next", "use", "rekey"}]
    /\ sub \in [Generations -> {"none", "asking", "on", "off"}]
    /\ creating = Idle \/ creating \in Creating
    /\ log \in Seq(Logged)
    /\ cut \in BOOLEAN /\ keyed \in BOOLEAN /\ old \subseteq Nat
TypeOK ==
    /\ PublisherTypeOK
    /\ written["subscriber"] \subseteq Nat
    /\ open \subseteq {"publisher", "subscriber"}
    /\ \A g \in Generations : Len(next[g]) <= 2
    /\ outcome \in [Positions -> {"none", "plain", "decrypted", "missed", "refused", "hangs", "failed"}]
    /\ asking \in {"no", "subscribing", "publishing", "sent", "received", "answered", "lost"}
    /\ answer \subseteq Nat

\* Every key after an exchange's first was announced with the message before, so that whoever
\* follows the stream need not ask for it: however keys are set, rotated and generated while
\* messages are being encrypted, unless one of those failed or rekey() was called.
KeysAreAnnounced ==
    \A i, j \in DOMAIN log :
        /\ i < j /\ log[i].key # None /\ log[j].key # None /\ log[i].by = log[j].by
        /\ \A k \in i + 1 .. j - 1 : log[k].key = None
        => (log[j].key \in {log[i].key, log[i].next} \/ log[j].cut)

\* rekey() is what its name says: no message published after it has returned uses a key that a
\* follower of the stream had before or learns from announcements.
RekeyStartsAfresh == creating.step = "get" => creating.key \notin creating.old

\* Once a caller has been told that a key is set, what is published next is encrypted, in this
\* process and in the next one.
EncryptedOnceKeyed == \A i \in DOMAIN log : log[i].keyed => log[i].key # None

\* Both: a key that is set takes effect.
KeysTakeEffect == RekeyStartsAfresh /\ EncryptedOnceKeyed

\* Every published message is decrypted, unless it is missed or its key refused, or the
\* subscriber waits for a response that was lost: the publisher answers for every key it has
\* used, stopped and started again or not.
EveryMessageIsDecrypted ==
    \A i \in Positions :
        i <= Len(log) ~> \/ outcome[i] \in {"plain", "decrypted", "missed", "refused"}
                         \/ \E j \in 1 .. i : outcome[j] = "hangs"

\* Observation: configured keys are not used before the database exists.
ConfiguredKeysAreUsed == Configured # None => \A i \in DOMAIN log : log[i].key # None
=================================================================================
