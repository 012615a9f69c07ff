--------------------------------- MODULE Session ---------------------------------
(***************************************************************************)
(* The session of a client with the server                                 *)
(* (src/packages/client/src/Session.ts, rest/authFetch.ts,                 *)
(* rest/LoginEndpoints.ts): a token is fetched by the first request that   *)
(* needs it, shared by all, and fetched anew for a request the server      *)
(* refuses. logout() gives it up, by a request like the others.            *)
(* Tokens are numbered in the order they are issued; 0 is none.            *)
(***************************************************************************)
EXTENDS Naturals, FiniteSets

CONSTANTS Requests,     \* requests of the user, numbered as they are made
          MaxTokens,    \* bound: tokens issued
          MaxLogouts,   \* bound: calls of logout()
          MaxRefusals   \* bound: logins that fail, tokens that expire, bad requests

VARIABLES
    state,      \* logged out, logging in, logged in, logging out
    sessionToken,   \* options.sessionToken
    issued,     \* tokens issued so far
    accepted,   \* tokens the server accepts
    logins,     \* calls of loginFunction that have not returned
    http,       \* each request: where it is, its token, whether it is the second try
    logouts,    \* calls of logout() so far
    logoutWaits,    \* calls of logout() that wait for the login
    refusals,
    stuck       \* history: the request of a logout was refused

sessionVars == <<state, sessionToken, issued, accepted, logins, http, logouts, logoutWaits, refusals, stuck>>

Logout == 0
All == Requests \cup {Logout}
Pending == {"waitsForLogin", "waitsForLogout", "sent"}
Idle == [at |-> "idle", token |-> 0, retried |-> FALSE, born |-> 0]

SessionInit ==
    /\ state = "loggedOut" /\ sessionToken = 0 /\ issued = 0 /\ accepted = {} /\ logins = 0
    /\ http = [r \in All |-> Idle]
    /\ logouts = 0 /\ logoutWaits = 0 /\ refusals = 0 /\ stuck = FALSE

Refusal == refusals < MaxRefusals /\ refusals' = refusals + 1
StartsLogin(s) == s \notin {"loggingIn", "loggingOut"}

(***************************************************************************)
(* getSessionToken: the token there is, unless a new one is required; or   *)
(* that of the login that runs or begins; while logging out, what it       *)
(* returns when that is over.                                              *)
(***************************************************************************)
Has(requireNewToken) == sessionToken # 0 /\ ~requireNewToken

GetSessionToken(r, entry, requireNewToken) ==
    IF Has(requireNewToken)
    THEN /\ http' = [http EXCEPT ![r] = [entry EXCEPT !.at = "sent", !.token = sessionToken]]
         /\ UNCHANGED <<state, logins>>
    ELSE IF state = "loggingOut"
    THEN /\ http' = [http EXCEPT ![r] = [entry EXCEPT !.at = "waitsForLogout"]]
         /\ UNCHANGED <<state, logins>>
    ELSE /\ http' = [http EXCEPT ![r] = [entry EXCEPT !.at = "waitsForLogin"]]
         /\ state' = "loggingIn"
         /\ logins' = IF StartsLogin(state) THEN logins + 1 ELSE logins

AuthFetch(r) ==
    /\ \A q \in Requests : http[q].at = "idle" <=> q >= r
    /\ issued < MaxTokens
    /\ GetSessionToken(r, [Idle EXCEPT !.born = issued], FALSE)
    /\ UNCHANGED <<sessionToken, issued, accepted, logouts, logoutWaits, refusals, stuck>>

(***************************************************************************)
(* The login, with challenge and response, succeeds or fails. A logout     *)
(* that waits for it begins at once, but not after a failure.              *)
(***************************************************************************)
Answered(h, from, to) ==
    [r \in All |-> IF h[r].at = from THEN to[r] ELSE h[r]]

LoggedIn ==
    /\ logins > 0 /\ issued < MaxTokens
    /\ issued' = issued + 1 /\ accepted' = accepted \cup {issued'} /\ logins' = logins - 1
    /\ LET served == Answered(http, "waitsForLogin",
                [r \in All |-> [http[r] EXCEPT !.at = "sent", !.token = issued']])
       IN IF logoutWaits = 0
          THEN http' = served /\ state' = "loggedIn" /\ sessionToken' = issued'
          ELSE /\ http' = [served EXCEPT ![Logout] =
                                [Idle EXCEPT !.at = "sent", !.token = issued', !.born = issued']]
               /\ state' = "loggingOut" /\ sessionToken' = 0
    /\ logoutWaits' = 0
    /\ UNCHANGED <<logouts, refusals, stuck>>

LoginFails ==
    /\ logins > 0 /\ Refusal
    /\ logins' = logins - 1 /\ state' = "loggedOut"
    /\ http' = Answered(http, "waitsForLogin", [r \in All |-> [http[r] EXCEPT !.at = "failed"]])
    /\ UNCHANGED <<sessionToken, issued, accepted, logouts, logoutWaits, stuck>>

(***************************************************************************)
(* The server's answers. What is refused is asked once more with a new     *)
(* token.                                                                  *)
(***************************************************************************)
\* Mutant: the retry takes the token there is.
RetriesWithAnyToken == FALSE
RetriesWithNewToken == TRUE

Ok(r) ==
    /\ r \in Requests /\ http[r].at = "sent" /\ http[r].token \in accepted
    /\ http' = [http EXCEPT ![r].at = "done"]
    /\ UNCHANGED <<state, sessionToken, issued, accepted, logins, logouts, logoutWaits, refusals, stuck>>

Refuse(r) ==
    IF http[r].retried
    THEN http' = [http EXCEPT ![r].at = "refused"] /\ UNCHANGED <<state, logins>>
    ELSE GetSessionToken(r, [http[r] EXCEPT !.retried = TRUE], RetriesWithNewToken)

Unauthorized(r) ==
    /\ r \in Requests /\ http[r].at = "sent" /\ http[r].token \notin accepted
    /\ Refuse(r)
    /\ UNCHANGED <<sessionToken, issued, accepted, logouts, logoutWaits, refusals, stuck>>

Fails(r) ==
    /\ r \in Requests /\ http[r].at = "sent" /\ Refusal
    /\ http' = [http EXCEPT ![r].at = "failed"]
    /\ UNCHANGED <<state, sessionToken, issued, accepted, logins, logouts, logoutWaits, stuck>>

Expires(t) ==
    /\ t \in accepted /\ Refusal /\ accepted' = accepted \ {t}
    /\ UNCHANGED <<state, sessionToken, issued, logins, http, logouts, logoutWaits, stuck>>

(***************************************************************************)
(* logout(): not when logged or logging out; after the login that runs.    *)
(* The token is dropped when the request is made, and everybody who waited *)
(* for the end asks for a token then.                                      *)
(***************************************************************************)
CallLogout ==
    /\ logouts < MaxLogouts /\ logouts' = logouts + 1
    /\ \/ /\ state = "loggingIn" /\ logoutWaits' = logoutWaits + 1
          /\ UNCHANGED <<state, sessionToken, http>>
       \/ /\ state = "loggedIn" /\ state' = "loggingOut"
          /\ http' = [http EXCEPT ![Logout] =
                        [Idle EXCEPT !.at = "sent", !.token = sessionToken, !.born = issued]]
          /\ sessionToken' = 0 /\ UNCHANGED logoutWaits
    /\ UNCHANGED <<issued, accepted, logins, refusals, stuck>>

Waiting == {r \in All : http[r].at = "waitsForLogout"}

\* The request of logout() is over, well or not: the session is logged out.
LoggedOut ==
    /\ logins' = IF Waiting = {} THEN logins ELSE logins + 1
    /\ state' = IF Waiting = {} THEN "loggedOut" ELSE "loggingIn"
    /\ http' = [Answered(http, "waitsForLogout",
                         [r \in All |-> [http[r] EXCEPT !.at = "waitsForLogin"]])
                    EXCEPT ![Logout] = Idle]

LogoutOk ==
    /\ http[Logout].at = "sent" /\ http[Logout].token \in accepted
    /\ accepted' = accepted \ {http[Logout].token}
    /\ LoggedOut
    /\ UNCHANGED <<sessionToken, issued, logouts, logoutWaits, refusals, stuck>>
LogoutFails ==
    /\ http[Logout].at = "sent" /\ Refusal
    /\ LoggedOut
    /\ UNCHANGED <<sessionToken, issued, accepted, logouts, logoutWaits, stuck>>
\* The token has expired: the new one that is required waits for the logout.
LogoutRefused ==
    /\ http[Logout].at = "sent" /\ http[Logout].token \notin accepted
    /\ Refuse(Logout) /\ stuck' = TRUE
    /\ UNCHANGED <<sessionToken, issued, accepted, logouts, logoutWaits, refusals>>

ServerAnswers == LoggedIn \/ LoginFails \/ LogoutOk \/ LogoutFails \/ LogoutRefused
SessionNext ==
    \/ ServerAnswers \/ CallLogout
    \/ \E r \in Requests : AuthFetch(r) \/ Ok(r) \/ Unauthorized(r) \/ Fails(r)
    \/ \E t \in 1..MaxTokens : Expires(t)

\* The server answers every request and every login. There is a bounded number
\* of them, so that under weak fairness there come states where no answer is
\* left to give: what must become true is stated of those (Over).
Answers == ServerAnswers \/ \E r \in Requests : Ok(r) \/ Unauthorized(r) \/ Fails(r)
LoginEnds == logins > 0 /\ (issued < MaxTokens \/ refusals < MaxRefusals)
Over == ~LoginEnds /\ \A r \in All : http[r].at # "sent"
SessionSpec == SessionInit /\ [][SessionNext]_sessionVars /\ WF_sessionVars(Answers)

(***************************************************************************)
(* A request is refused for good only with a token that was issued after   *)
(* it was made, one login runs at a time however many ask, and nobody      *)
(* waits for a login that does not run (Session.ts:94, authFetch.ts:110).  *)
(***************************************************************************)
TokensAreRenewed ==
    /\ \A r \in Requests : http[r].at = "refused" => http[r].token > http[r].born
    /\ logins <= 1
    /\ (state = "loggingIn" \/ \E r \in All : http[r].at = "waitsForLogin") => logins = 1
    /\ Waiting # {} => state = "loggingOut"

\* An answer is left to give exactly if one of those is possible.
OverIsRest == Over <=> ~ENABLED Answers

(***************************************************************************)
(* Every request is answered, as long as no logout is refused for a token  *)
(* that has expired: that one waits for its own end, and all others for it *)
(* (Session.ts:97, :135).                                                  *)
(***************************************************************************)
EveryRequestSettles ==
    Over => (stuck \/ issued = MaxTokens \/ \A r \in Requests : http[r].at \notin Pending)
==================================================================================
