--------------------------------- MODULE MCBroker --------------------------------
(* Around a broker's node: the configuration of a storage node and the older *)
(* adapters, which make it subscribe to streams, and the queue in which its *)
(* messages to one peer wait. A behaviour moves one of them.                *)
EXTENDS MessageQueue

CONSTANTS Streams, MaxChanges, MaxFailures, Topics,
          WsClients, MqttClients, MaxRequests, MaxSent, MaxFull

VARIABLES part,
          assigned, events, changes, failures, phase, streamKeys, poll, answer, count, node, others,
          doubled, stray,
          books, requests, ongoing, sockets, connected, dead, ponged, full, fulls, spoiled, late, forgotten

Config == INSTANCE StorageConfig
Legacy == INSTANCE LegacyBroker WITH Streams <- Topics

configVars == <<assigned, events, changes, failures, phase, streamKeys, poll, answer, count, node, others,
                doubled, stray>>
legacyVars == <<books, requests, ongoing, sockets, connected, dead, ponged, full, fulls, spoiled, late,
                forgotten>>
\* In a part that rests nothing is due: no storage node has started, no client
\* and no peer is connected.
MCInit ==
    /\ part \in {"config", "adapters", "queue"}
    /\ Init /\ Legacy!Init
    /\ IF part = "config" THEN Config!Init ELSE Config!Rests
MCNext ==
    /\ UNCHANGED part
    /\ \/ part = "config" /\ Config!Next /\ UNCHANGED <<vars, legacyVars>>
       \/ part = "adapters" /\ Legacy!Next /\ UNCHANGED <<vars, configVars>>
       \/ part = "queue" /\ Next /\ UNCHANGED <<configVars, legacyVars>>
MCSpec ==
    /\ MCInit /\ [][MCNext]_<<part, vars, configVars, legacyVars>>
    /\ Fairness /\ Config!Fairness /\ Legacy!Fairness

\* The node is subscribed to what is stored and wanted. (StorageConfig)
NodeFollowsConfig == Config!TypeOK /\ Config!NodeFollowsConfig
\* The node is subscribed as long as somebody listens, and a client that is gone
\* leaves nothing behind. (LegacyBroker)
ListenersAreKept == Legacy!TypeOK /\ Legacy!ListenersAreKept
\* What is stored follows the assignments, and requests are answered.
\* (StorageConfig, LegacyBroker)
RequestsAreMet == Config!ConfigCatchesUp /\ Legacy!EveryRequestIsAnswered
==================================================================================
