------------------------------- MODULE MCReceiving -------------------------------
(* What a subscriber needs to be given a message: the key it is encrypted   *)
(* with, and, in a behaviour of its own, its turn among the stored and the  *)
(* live ones.                                                               *)
EXTENDS KeyExchange

CONSTANTS Stored, Final, Bad

ASSUME ReceivingAssumption == Stored \in Nat /\ Final \in Nat

VARIABLES part, resends, realtime, ordered, toResend, toCome, request, subscribing, reading, lastRead,
          isResendDone, lastResentMsgId, lastProcessedMsgId, resentEmitted, passed, subscriber,
          handed, handedBefore, life, cancelled, waits

Resend == INSTANCE ResendSubscribe WITH current <- lastRead
resendVars == <<resends, realtime, ordered, toResend, toCome, request, subscribing, reading, lastRead,
                isResendDone, lastResentMsgId, lastProcessedMsgId, resentEmitted, passed, subscriber,
                handed, handedBefore, life, cancelled, waits>>

\* Nobody is given keys from the start.
MCInitial == [client \in {"publisher", "subscriber"} |-> {}]

MCInit ==
    /\ Init /\ part \in {"keys", "resend"}
    /\ Resend!ResendInit
    /\ IF part = "resend" THEN ~required ELSE toCome = Stored + 1
MCNext ==
    /\ UNCHANGED part
    /\ \/ part = "keys" /\ Next /\ UNCHANGED resendVars
       \/ part = "resend" /\ Resend!ResendNext /\ UNCHANGED vars
MCSpec == MCInit /\ [][MCNext]_<<part, vars, resendVars>> /\ Fairness

\* The stored messages and then the live ones, with 'resent' between them.
\* (ResendSubscribe)
StoredThenLive == Resend!NothingIsSkipped /\ Resend!ResentComesAfterTheResends
\* The subscriber is given what there is, and a subscription that is left ends.
\* (ResendSubscribe)
ReadersAreServed == Resend!ReadersAreServed
==================================================================================
