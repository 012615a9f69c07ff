---------------------------- MODULE OrderMessages ---------------------------
(***************************************************************************)
(* The ordering stage of a client subscription: an OrderingUtil with one   *)
(* OrderedMsgChain per publisher chain, the resends that fill gaps, and    *)
(* the output stream that has to end once the input has ended and nothing  *)
(* is left to order.  client/src/subscribe/OrderMessages.js and            *)
(* protocol/src/utils/OrderingUtil.ts.                                     *)
(*                                                                         *)
(* Messages may arrive in any order, repeatedly or never.  A resend may    *)
(* answer with any of the messages asked for, at any later time, or fail.  *)
(***************************************************************************)
EXTENDS OrderedMsgChain

CONSTANTS
    Publishers,         \* publisher and message chain: one OrderedMsgChain each
    Sent,               \* for each publisher the messages it published
    Markable,           \* the messages markMessageExplicitly may be called with
    MaxGapRequests      \* client option maxGapRequests

ASSUME MaxGapRequestsAssumption == MaxGapRequests \in Nat \ {0}
\* A publisher links every message to the one it published before it; a message may name one
\* that is not in Sent: that one is lost for good.  (MessageChainer and
\* StreamMessage.validateSequence see to it.)
ASSUME SentAssumption ==
    /\ Sent \in [Publishers -> SUBSET Msg]
    /\ Markable \in [Publishers -> SUBSET Msg]
    /\ \A p \in Publishers :
         /\ Markable[p] \subseteq Sent[p]
         /\ \A m \in Sent[p] : m.prev < m.ref
         /\ \A m, n \in Sent[p] :
              /\ m.ref = n.ref => m = n
              /\ m.ref < n.ref /\ n.prev # NoRef => m.ref <= n.prev

VARIABLES
    chain,      \* orderedChains
    resends,    \* resendStreams: the ranges (after, to] asked for and not finished
    input,      \* the source of the stage: "open" or "closed" (inputClosed)
    out,        \* outStream: "open", "ended", or "error" once an error was pushed
    done,       \* the pipeline was finished by its consumer
    enabled,    \* gap filling is on
    log,        \* history: what each chain handed out, and the gaps it gave up
    lost        \* history: messages in order that the output stream refused

orderingVars == <<chain, resends, input, out, done, enabled, log, lost>>

Delivered(c) == { e.ref : e \in { x \in ToSet(c.emitted) : x.kind = "deliver" } }

\* Mutation: only the chain that drained is looked at.
ClosedByOne(p, c) ==
    /\ input = "closed"
    /\ \E e \in c.raised : e.empty

\* maybeClose, called on every 'drain' and 'error': ends the output if all messages were sent
\* and no chain holds any.
ClosedBy(p, c) ==
    /\ input = "closed"
    /\ \E e \in c.raised : e.empty
    /\ \A q \in Publishers \ {p} : chain[q].queue = {}

\* Chain p becomes c, and its callbacks take effect: messages in order go to the output unless
\* it has ended, and a gap request opens a resend unless gap filling is off.
Becomes(p, c) ==
    /\ chain' = [chain EXCEPT ![p] = [c EXCEPT !.emitted = <<>>, !.asked = {}, !.raised = {}]]
    /\ log' = [log EXCEPT ![p] = @ \o c.emitted]
    /\ lost' = IF out = "ended" /\ ~ done
               THEN lost \cup { [pub |-> p, ref |-> r] : r \in Delivered(c) }
               ELSE lost
    /\ resends' = IF done \/ ~ enabled THEN resends
                  ELSE resends \cup
                       { [pub |-> p, after |-> c.last, to |-> ref] : ref \in c.asked }
    /\ out' = IF out = "open" /\ ClosedBy(p, c) THEN "ended" ELSE out

OrderingInit ==
    /\ enabled \in BOOLEAN
    /\ chain = [p \in Publishers |-> NewChain(IF enabled THEN MaxGapRequests ELSE 0)]
    /\ resends = {}
    /\ input = "open"
    /\ out = "open"
    /\ done = FALSE
    /\ log = [p \in Publishers |-> <<>>]
    /\ lost = {}

-----------------------------------------------------------------------------

\* WriteToOrderingUtil: a message of the source.
Receive(p, m) ==
    /\ input = "open" /\ ~ done
    /\ \E c \in {Add(chain[p], m)} : Becomes(p, c)
    /\ UNCHANGED <<input, done, enabled>>

\* The source is exhausted.
CloseInput ==
    /\ input = "open" /\ ~ done
    /\ input' = "closed"
    /\ out' = IF out = "open" /\ \A p \in Publishers : chain[p].queue = {} THEN "ended" ELSE out
    /\ UNCHANGED <<chain, resends, done, enabled, log, lost>>

\* A user of the stage marks a message of the source (the API is public, the client itself
\* does not call it).
Mark(p, m) ==
    /\ input = "open" /\ ~ done
    /\ \E c \in {MarkExplicitly(chain[p], m)} : Becomes(p, c)
    /\ UNCHANGED <<input, done, enabled>>

FirePropagationTimeout(p) ==
    /\ chain[p].first
    /\ \E c \in {PropagationTimeout(chain[p])} : Becomes(p, c)
    /\ UNCHANGED <<input, done, enabled>>

FireResendTimeout(p) ==
    /\ chain[p].next
    /\ \E c \in {ResendTimeout(chain[p])} : Becomes(p, c)
    /\ UNCHANGED <<input, done, enabled>>

\* A message of a resend (stored messages are those that were published).
ResendDelivers(r, m) ==
    /\ r \in resends /\ ~ done
    /\ m.ref > r.after /\ m.ref <= r.to
    /\ \E c \in {Add(chain[r.pub], m)} : Becomes(r.pub, c)
    /\ UNCHANGED <<input, done, enabled>>

ResendEnds(r) ==
    /\ r \in resends /\ ~ done
    /\ resends' = resends \ {r}
    /\ UNCHANGED <<chain, input, out, done, enabled, log, lost>>

\* NO_STORAGE_NODES: gap filling is switched off for good, every chain is disabled.  That
\* releases no message yet (OrderingTypeOK: no event is left unhandled): a queue that is not
\* empty is blocked, and only its next timeout skips the gap.
ResendFindsNoStorage(r) ==
    /\ r \in resends /\ ~ done
    /\ enabled' = FALSE
    /\ resends' = resends \ {r}
    /\ chain' = [p \in Publishers |-> Disable(chain[p])]
    /\ UNCHANGED <<input, out, done, log, lost>>

\* Any other error is passed on to the consumer.
ResendFails(r) ==
    /\ r \in resends /\ ~ done
    /\ resends' = resends \ {r}
    /\ out' = IF out = "open" THEN "error" ELSE out
    /\ UNCHANGED <<chain, input, done, enabled, log, lost>>

\* The consumer stops, or reads the error: the final function of the pipeline.
Finish ==
    /\ ~ done
    /\ done' = TRUE
    /\ resends' = {}
    /\ chain' = [p \in Publishers |-> ClearGap(chain[p])]
    /\ UNCHANGED <<input, out, enabled, log, lost>>

OrderingNext ==
    \/ \E p \in Publishers : \/ \E m \in Sent[p] : Receive(p, m)
                             \/ \E m \in Markable[p] : Mark(p, m)
                             \/ FirePropagationTimeout(p)
                             \/ FireResendTimeout(p)
    \/ \E r \in resends : \/ \E m \in Sent[r.pub] : ResendDelivers(r, m)
                          \/ ResendEnds(r)
                          \/ ResendFindsNoStorage(r)
                          \/ ResendFails(r)
    \/ CloseInput
    \/ Finish

\* Timers fire.  Nothing is assumed of the network, the storage nodes or the consumer.
OrderingFairness ==
    \A p \in Publishers : /\ WF_orderingVars(FirePropagationTimeout(p))
                          /\ WF_orderingVars(FireResendTimeout(p))

OrderingSpec == OrderingInit /\ [][OrderingNext]_orderingVars /\ OrderingFairness

-----------------------------------------------------------------------------
(* Properties.                                                             *)

OrderingTypeOK ==
    /\ chain \in [Publishers -> [queue : SUBSET Msg, last : Nat, pending : BOOLEAN,
                                 requests : Nat, maxRequests : {0, MaxGapRequests},
                                 first : BOOLEAN, next : BOOLEAN, marked : SUBSET Msg,
                                 emitted : {<<>>}, asked : {{}}, raised : {{}}]]
    /\ resends \subseteq [pub : Publishers, after : Nat, to : Nat]
    /\ input \in {"open", "closed"}
    /\ out \in {"open", "ended", "error"}
    /\ done \in BOOLEAN /\ enabled \in BOOLEAN
    /\ lost \subseteq [pub : Publishers, ref : Nat]

\* What a subscriber receives of each publisher is a legal log of OrderedDelivery: in order,
\* without repetition, every hole accounted for by a gap that was given up.
Abstract == INSTANCE OrderedDelivery
DeliversInOrder == Abstract!Spec

\* The output stream is never ended while a message that will still be put in order is
\* outstanding, so no message is refused by an ended output.
NothingLostAtTheEnd == lost = {}

\* Whatever is lost on the network and however the resends fail, a queued message leaves the
\* queue in the end (unless the subscription is finished first).
QueuesDrain ==
    \A p \in Publishers : chain[p].queue # {} ~> (chain[p].queue = {} \/ done)

\* "we can close when: input has closed AND no gaps are pending AND gaps have been filled or
\* failed" (OrderMessages.js, maybeClose): once that holds the output ends.
EndsWhenNothingIsLeft ==
    (input = "closed" /\ \A p \in Publishers : chain[p].queue = {})
        ~> (out # "open" \/ done)

\* "If we detect a gap, we first wait this amount of time because the missing messages might
\* still be propagated" (DEFAULT_PROPAGATION_TIMEOUT in OrderedMsgChain.ts): when the message
\* that waited for a gap is released and another one waits behind it, the propagation timeout
\* is started for that new gap.
NewGapWaitsForPropagation ==
    [][\A p \in Publishers :
         LET c == chain[p] d == chain'[p] IN
         c.pending /\ d.pending /\ Peek(c) \notin d.queue => d.first]_orderingVars

=============================================================================
