------------------------------- MODULE StorageConfig -----------------------------
(***************************************************************************)
(* Which streams a storage node stores (src/packages/broker/src/plugins/   *)
(* storage/StorageConfig.ts and StoragePlugin.ts). The Core API knows the  *)
(* assignments; the node asks it again and again and hears of changes      *)
(* through the stream of assignment events. An answer may be older than an *)
(* event that came before it and an event older than an answer; and other  *)
(* plugins share the node's subscriptions, which SubscriptionManager       *)
(* counts. A stream stands for its partitions.                             *)
(***************************************************************************)
EXTENDS Naturals

CONSTANTS Streams,
          MaxChanges, MaxFailures  \* bounds: changes of assignments, failed requests

VARIABLES
    assigned,     \* external: what the Core API knows
    events,       \* external: assignment events on their way
    changes, failures,
    phase,        \* of the plugin: "starting", "running" or "stopped"
    streamKeys,
    poll,         \* _poll: "waiting", "asking", "answered" or "off"
    answer,       \* the streams of the answer
    count, node,  \* SubscriptionManager.streams, and what the node is subscribed to
    others,       \* streams that another plugin has subscribed to
    doubled,      \* history: streams added that were stored already
    stray         \* history: streams removed that were not stored

coreVars == <<assigned, events, changes, failures>>
countVars == <<streamKeys, count, node, doubled, stray>>
configVars == <<coreVars, countVars, phase, poll, answer, others>>

Blank ==
    /\ events = {} /\ changes = 0 /\ failures = 0 /\ answer = {} /\ streamKeys = {}
    /\ count = [s \in Streams |-> 0] /\ node = {} /\ others = {}
    /\ doubled = {} /\ stray = {}
Init == Blank /\ assigned \in SUBSET Streams /\ phase = "starting" /\ poll = "asking"
Rests == Blank /\ assigned = {} /\ phase = "stopped" /\ poll = "off"

\* SubscriptionManager.subscribe and unsubscribe, for some streams each.
LessAtOnce(n) == 0
Less(n) == IF n <= 1 THEN 0 ELSE n - 1
Counts(more, less) ==
    /\ count' = [s \in Streams |-> IF s \in more THEN count[s] + 1
                                   ELSE IF s \in less THEN Less(count[s]) ELSE count[s]]
    /\ node' = (node \cup more) \ {s \in less : count'[s] = 0}

----------------------------------------------------------------------------
\* External: an assignment changes, which is published, and the Core API answers.
Assignment(s) ==
    /\ changes < MaxChanges /\ changes' = changes + 1
    /\ assigned' = IF s \in assigned THEN assigned \ {s} ELSE assigned \cup {s}
    /\ events' = events \cup {[number |-> changes, stream |-> s, added |-> s \notin assigned]}
    /\ UNCHANGED <<failures, countVars, phase, poll, answer, others>>
CoreAnswers ==
    /\ poll = "asking" /\ poll' = "answered" /\ answer' = assigned
    /\ UNCHANGED <<coreVars, countVars, phase, others>>

\* _addStreams and _removeStreams with the plugin's listener, which stays.
AddAndRemove(added, removed) ==
    /\ streamKeys' = (streamKeys \cup added) \ removed
    /\ Counts(added, removed)
    /\ doubled' = doubled \cup (added \cap streamKeys)
    /\ stray' = stray \cup (removed \ streamKeys)

\* The assignment event listener. Events may overtake each other or get lost.
EventComes(e) ==
    /\ e \in events /\ events' = events \ {e}
    /\ \/ phase = "running" /\ e.added /\ AddAndRemove({e.stream}, {})
       \/ phase = "running" /\ ~e.added /\ AddAndRemove({}, {e.stream})
       \/ UNCHANGED countVars
    /\ UNCHANGED <<assigned, changes, failures, phase, poll, answer, others>>

\* start(): after the first answer or failure.
Start ==
    /\ phase = "starting"
    /\ \/ poll = "asking" /\ UNCHANGED countVars
       \/ /\ poll = "answered" /\ streamKeys' = answer
          /\ Counts(answer, {}) /\ UNCHANGED <<doubled, stray>>
    /\ phase' = "running" /\ poll' = "waiting" /\ answer' = {}
    /\ UNCHANGED <<coreVars, others>>

\* _setStreams, at the end of a refresh that stop() does not end; the poll goes
\* on, also when the request has failed.
Added(keys) == keys \ streamKeys
RemovedNever(keys) == {}
Removed(keys) == streamKeys \ keys
PollsAgain == answer' = {} /\ poll' = IF phase = "running" THEN "waiting" ELSE "off"
Refreshed ==
    /\ phase # "starting" /\ poll = "answered"
    /\ AddAndRemove(Added(answer), Removed(answer))
    /\ PollsAgain /\ UNCHANGED <<coreVars, phase, others>>
RefreshFails ==
    /\ phase # "starting" /\ poll = "asking"
    /\ failures < MaxFailures /\ failures' = failures + 1
    /\ PollsAgain /\ UNCHANGED <<assigned, events, changes, countVars, phase, others>>
Poll ==
    /\ poll = "waiting" /\ poll' = "asking"
    /\ UNCHANGED <<coreVars, countVars, phase, answer, others>>

\* stop(): what is stored stays in streamKeys, the events are not heard any more.
Stop ==
    /\ phase = "running" /\ phase' = "stopped"
    /\ Counts({}, streamKeys)
    /\ poll' = IF poll = "waiting" THEN "off" ELSE poll
    /\ UNCHANGED <<coreVars, streamKeys, answer, others, doubled, stray>>

\* Another plugin, of the same SubscriptionManager.
OthersSubscribe(s) ==
    /\ s \notin others /\ others' = others \cup {s} /\ Counts({s}, {})
    /\ UNCHANGED <<coreVars, streamKeys, phase, poll, answer, doubled, stray>>
OthersUnsubscribe(s) ==
    /\ s \in others /\ others' = others \ {s} /\ Counts({}, {s})
    /\ UNCHANGED <<coreVars, streamKeys, phase, poll, answer, doubled, stray>>

Next ==
    \/ \E s \in Streams : Assignment(s) \/ OthersSubscribe(s) \/ OthersUnsubscribe(s)
    \/ \E e \in events : EventComes(e)
    \/ CoreAnswers \/ Start \/ Refreshed \/ RefreshFails \/ Poll \/ Stop

\* Timers fire, and requests are answered, all but some.
Fairness ==
    /\ WF_configVars(CoreAnswers) /\ WF_configVars(Start \/ Refreshed) /\ WF_configVars(Poll)
Spec == Init /\ [][Next]_configVars
FairSpec == Spec /\ Fairness

----------------------------------------------------------------------------
TypeOK ==
    /\ assigned \cup streamKeys \cup answer \cup node \cup others \cup doubled \cup stray \subseteq Streams
    /\ \A e \in events : e.stream \in Streams /\ e.added \in BOOLEAN
    /\ phase \in {"starting", "running", "stopped"}
    /\ poll \in {"waiting", "asking", "answered", "off"}
    /\ count \in [Streams -> Nat]

\* The node is subscribed to what it stores and to what other plugins want, though
\* answers, events and these plugins cross, and to nothing else; unless an event
\* (or a late answer) added what was stored already, so that the node never leaves
\* the stream, or removed what was not, so that it leaves the others' stream.
\* (StorageConfig, StoragePlugin, SubscriptionManager)
NodeFollowsConfig ==
    phase = "running" =>
        /\ (streamKeys \cup others) \ stray \subseteq node
        /\ \A s \in Streams \ (doubled \cup stray) :
              /\ s \in node => s \in streamKeys \cup others
              /\ count[s] = (IF s \in streamKeys THEN 1 ELSE 0) + (IF s \in others THEN 1 ELSE 0)

\* Once the assignments stay, the node stores what is assigned to it, whatever
\* events were lost, late or out of order. (_poll, refresh)
ConfigCatchesUp == <>(phase = "stopped") \/ <>[](streamKeys = assigned)
==================================================================================
