-------------------------------- MODULE MCSending --------------------------------
(* What a client asks others to do: publishing, requests that need a        *)
(* session, and transactions of a data union. A behaviour moves one of them. *)
EXTENDS Publisher

CONSTANTS Requests, MaxTokens, MaxLogouts, MaxRefusals, Calls, Members, Recipients, MaxEarned, MaxSigned

ASSUME SendingAssumption == Requests \subseteq Nat \ {0} /\ Calls \subseteq Nat \ {0} /\ MaxTokens \in Nat

VARIABLES part,
          state, sessionToken, issued, accepted, logins, http, logouts, logoutWaits, refusals, stuck,
          deployed, members, earned, withdrawn, tokens, messages, relayed, calls, signatures,
          allowance, payments

Sessions == INSTANCE Session
Union == INSTANCE DataUnion WITH chains <- deployed

sessionVars == <<state, sessionToken, issued, accepted, logins, http, logouts, logoutWaits, refusals,
                 stuck>>
unionVars == <<deployed, members, earned, withdrawn, tokens, messages, relayed, calls, signatures,
               allowance, payments>>

MCInit ==
    /\ part \in {"publishing", "session", "union"}
    /\ Init /\ Sessions!SessionInit /\ Union!UnionInit
    /\ part = "union" \/ deployed = {}
MCNext ==
    /\ UNCHANGED part
    /\ \/ part = "publishing" /\ Next /\ UNCHANGED <<sessionVars, unionVars>>
       \/ part = "session" /\ Sessions!SessionNext /\ UNCHANGED <<vars, unionVars>>
       \/ part = "union" /\ Union!UnionNext /\ UNCHANGED <<vars, sessionVars>>
MCSpec == MCInit /\ [][MCNext]_<<part, vars, sessionVars, unionVars>> /\ Fairness

\* Requests are refused with new tokens only. (Session)
TokensAreRenewed == Sessions!TokensAreRenewed
\* What a call returns is so, and what is signed off is paid once. (DataUnion)
WithdrawalsAreTrue == Union!ReportsAreTrue /\ Union!SignaturesPayOnce
\* Requests and calls come to an end. (Session, DataUnion)
EveryCallSettles == Sessions!EveryRequestSettles /\ Union!EveryCallSettles
==================================================================================
