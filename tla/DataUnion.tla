-------------------------------- MODULE DataUnion --------------------------------
(***************************************************************************)
(* Withdrawing from a data union, and what goes with it                    *)
(* (src/packages/client/src/dataunion/DataUnion.ts, Contracts.ts): a       *)
(* member's earnings are in a contract on the sidechain; a withdrawal to   *)
(* the mainnet is a message the bridge (AMB) collects signatures for and   *)
(* somebody transports: the client, when it pays for it, or another. The   *)
(* client reads balances and contracts, sends transactions, and polls      *)
(* until something has changed or the time is out, so that between any two *)
(* of its steps the chains go on.                                          *)
(* The contracts and the bridge are not in the repository; they are as its *)
(* code and comments use them. Amounts are in tokens.                      *)
(***************************************************************************)
EXTENDS Integers, FiniteSets

CONSTANTS Calls,        \* calls of the client, numbered; also their messages on the bridge
          Members, Recipients,
          MaxEarned,    \* bound on a member's earnings
          MaxSigned     \* bound on the signatures a member gives

VARIABLES
    chains,     \* where the union's contracts are deployed
    members,    \* of the active ones
    earned, withdrawn,      \* of each member, in the contract
    tokens,     \* of each recipient: [main, side]
    messages,   \* of each call: none, collecting, complete
    relayed,    \* of each call's message on the mainnet: no, executed, failed
    calls,      \* what each call does
    signatures, \* given by members
    allowance,  \* of the union's contract to take from the caller's tokens
    payments    \* history: <<signature, call>> for each withdrawal that used one

unionVars == <<chains, members, earned, withdrawn, tokens, messages, relayed, calls, signatures,
               allowance, payments>>

All == 0        \* the amount in a signature that is for all earnings

Call(op, at, from, to, signature, message, options) ==
    [op |-> op, at |-> at, result |-> "none", from |-> from, to |-> to, signature |-> signature,
     before |-> 0, amount |-> 0, message |-> message,
     sendToMainnet |-> options[1], payForTransport |-> options[2], waits |-> options[3]]
NoCall == Call("none", "new", "nobody", "nobody", <<>>, 0, <<FALSE, FALSE, FALSE>>)

UnionInit ==
    /\ chains \in {{}, {"main", "side"}}
    /\ members = {}
    /\ earned = [m \in Members |-> 2] /\ withdrawn = [m \in Members |-> 0]
    /\ tokens = [r \in Recipients |-> [main |-> 0, side |-> 0]]
    /\ messages = [c \in Calls |-> "none"] /\ relayed = [c \in Calls |-> "no"]
    /\ calls = [c \in Calls |-> NoCall] /\ signatures = {} /\ payments = {} /\ allowance = 0

Withdrawable(m) == earned[m] - withdrawn[m]
At(c, phase) == calls[c].at = phase
IsNext(c) == \A d \in Calls : At(d, "new") <=> d >= c
Goes(c, phase) == calls' = [calls EXCEPT ![c].at = phase]
Returns(c, result) == calls' = [calls EXCEPT ![c].at = "settled", ![c].result = result]
ledger == <<members, earned, withdrawn, tokens, payments, allowance>>
bridge == <<messages, relayed>>

(***************************************************************************)
(* Signing off earnings to somebody, which is only valid until the next    *)
(* withdrawal: the amount withdrawn so far is part of what is signed.      *)
(***************************************************************************)
\* Mutant: the amount withdrawn so far is left out.
WithdrawMessageForGood(to, amount, soFar) == <<to, amount, 0>>
WithdrawMessage(to, amount, soFar) == <<to, amount, soFar>>

SignWithdrawAmountTo(m, to, amount) ==
    /\ chains = {"main", "side"} /\ Cardinality(signatures) < MaxSigned
    /\ signatures' = signatures \cup {<<m, WithdrawMessage(to, amount, withdrawn[m])>>}
    /\ UNCHANGED <<chains, ledger, bridge, calls>>
SignWithdrawAllTo(m, to) == SignWithdrawAmountTo(m, to, All)

(***************************************************************************)
(* The calls begin: what is asked, of whose earnings, for whom.            *)
(***************************************************************************)
Begin(c, op, from, to, signature, options) ==
    /\ IsNext(c) /\ (op = "deploy" \/ chains = {"main", "side"})
    /\ calls' = [calls EXCEPT ![c] = Call(op, "begun", from, to, signature, c, options)]
    /\ UNCHANGED <<chains, ledger, bridge, signatures>>

\* sendToMainnet, payForTransport, waitUntilTransportIsComplete; the last two
\* make no difference when the tokens stay on the sidechain.
Options == {o \in BOOLEAN \X BOOLEAN \X BOOLEAN : o[1] \/ (~o[2] /\ ~o[3])}
WithdrawAll(c, o) == \E m \in Members \cap Recipients : Begin(c, "withdraw", m, m, <<>>, o)
WithdrawAllTo(c, o) == \E m \in Members, to \in Recipients : Begin(c, "withdraw", m, to, <<>>, o)
WithdrawAllToMember(c, o) == \E m \in Members \cap Recipients : Begin(c, "byAdmin", m, m, <<>>, o)
WithdrawToSigned(c, o) ==
    \E s \in signatures : Begin(c, "signed", s[1], s[2][1], s, o)

(***************************************************************************)
(* _executeWithdraw: the balance before, the transaction, and on the       *)
(* mainnet the transport.                                                  *)
(***************************************************************************)
Balance(c) ==
    IF calls[c].sendToMainnet THEN tokens[calls[c].to].main ELSE tokens[calls[c].to].side

ReadBalance(c) ==
    /\ At(c, "begun") /\ calls[c].op \in {"withdraw", "byAdmin", "signed"}
    /\ calls' = [calls EXCEPT ![c].at = "balance",
                              ![c].before = IF calls[c].waits THEN Balance(c) ELSE 0]
    /\ UNCHANGED <<chains, ledger, bridge, signatures>>

\* Only the member's own withdrawals look at the earnings first.
GetWithdrawTx(c) ==
    /\ At(c, "balance")
    /\ IF calls[c].op = "withdraw" /\ Withdrawable(calls[c].from) = 0
       THEN Returns(c, "error") ELSE Goes(c, "sent")
    /\ UNCHANGED <<chains, ledger, bridge, signatures>>

\* The contract: the amount it withdraws; -1 when it reverts.
Withdraws(c) ==
    LET m == calls[c].from  s == calls[c].signature
    IN IF s = <<>> THEN Withdrawable(m)
       ELSE LET amount == s[2][2]
                valid == s = <<m, WithdrawMessage(calls[c].to, amount, withdrawn[m])>>
            IN IF ~valid \/ amount > Withdrawable(m) THEN -1
               ELSE IF amount = All THEN Withdrawable(m) ELSE amount

\* The transaction is mined; a withdrawal of nothing raises no event.
Mined(c) ==
    LET m == calls[c].from  n == Withdraws(c)
    IN /\ At(c, "sent") /\ calls[c].op \in {"withdraw", "byAdmin", "signed"}
       /\ UNCHANGED <<chains, members, earned, relayed, signatures, allowance>>
       /\ IF n <= 0
          THEN /\ Returns(c, IF n = 0 /\ ~calls[c].sendToMainnet THEN "receipt" ELSE "error")
               /\ UNCHANGED <<withdrawn, tokens, messages, payments>>
          ELSE /\ withdrawn' = [withdrawn EXCEPT ![m] = @ + n]
               /\ payments' = IF calls[c].signature = <<>> THEN payments
                              ELSE payments \cup {<<calls[c].signature, c>>}
               /\ IF calls[c].sendToMainnet
                  THEN /\ messages' = [messages EXCEPT ![c] = "collecting"]
                       /\ calls' = [calls EXCEPT ![c].amount = n, ![c].at =
                                IF calls[c].payForTransport THEN "signatures" ELSE "delivery"]
                       /\ UNCHANGED tokens
                  ELSE /\ tokens' = [tokens EXCEPT ![calls[c].to].side = @ + n]
                       /\ Returns(c, "receipt") /\ UNCHANGED messages

\* Without paying: somebody else transports; wait for it or hand out the hash.
ExpectDelivery(c) ==
    /\ At(c, "delivery")
    /\ IF calls[c].waits
       THEN Balance(c) # calls[c].before /\ Returns(c, "null")
       ELSE Returns(c, "hash")
    /\ UNCHANGED <<chains, ledger, bridge, signatures>>

(***************************************************************************)
(* transportMessage: wait for the signatures, look whether the message has *)
(* been processed, estimate, which fails when it has, and execute.         *)
(***************************************************************************)
Message(c) == calls[c].message
RequiredSignaturesHaveBeenCollected(c) == messages[Message(c)] = "complete"
AlreadyProcessed(c) == relayed[Message(c)] # "no"

\* "null" and the receipt alike: go on to the balance, or return.
Transported(c, result) ==
    IF calls[c].waits
    THEN calls' = [calls EXCEPT ![c].at = "arrival", ![c].result = result]
    ELSE Returns(c, result)

\* One who was handed the hash of a message transports it.
TransportHash(c) ==
    \E d \in Calls :
        /\ IsNext(c) /\ calls[d].result = "hash"
        /\ calls' = [calls EXCEPT ![c] = Call("transport", "signatures", "nobody", "nobody", <<>>, d,
                                             <<TRUE, TRUE, FALSE>>)]
        /\ UNCHANGED <<chains, ledger, bridge, signatures>>

TransportMessage(c) ==
    /\ At(c, "signatures") /\ RequiredSignaturesHaveBeenCollected(c)
    /\ IF AlreadyProcessed(c) THEN Transported(c, "null") ELSE Goes(c, "estimate")
    /\ UNCHANGED <<chains, ledger, bridge, signatures>>

\* The estimate fails when the message has been processed, and when signatures
\* are missing or not by validators.
EstimateGas(c) ==
    /\ At(c, "estimate")
    /\ \/ ~AlreadyProcessed(c) /\ (Goes(c, "executing") \/ Returns(c, "error"))
       \/ AlreadyProcessed(c) /\ Transported(c, "null")
    /\ UNCHANGED <<chains, ledger, bridge, signatures>>

\* The mainnet processes a message once, and its call may fail.
Relay(d) ==
    \/ /\ relayed' = [relayed EXCEPT ![d] = "executed"]
       /\ tokens' = [tokens EXCEPT ![calls[d].to].main = @ + calls[d].amount]
    \/ relayed' = [relayed EXCEPT ![d] = "failed"] /\ UNCHANGED tokens

TransportSignaturesForMessage(c) ==
    /\ At(c, "executing")
    /\ IF AlreadyProcessed(c)
       THEN Returns(c, "error") /\ UNCHANGED <<relayed, tokens>>
       ELSE Relay(Message(c)) /\ Transported(c, "receipt")
    /\ UNCHANGED <<chains, members, earned, withdrawn, payments, allowance, messages, signatures>>

AwaitArrival(c) ==
    /\ At(c, "arrival") /\ Balance(c) # calls[c].before
    /\ Returns(c, calls[c].result)
    /\ UNCHANGED <<chains, ledger, bridge, signatures>>

\* Mutant: nothing limits the wait for somebody else's transport.
PollsWithoutDelivery(c) == At(c, "signatures") \/ At(c, "arrival") \/ At(c, "joining") \/ At(c, "sidechain")
\* What a call waits for with until().
Polls(c) ==
    \/ At(c, "signatures") \/ At(c, "arrival") \/ At(c, "joining") \/ At(c, "sidechain")
    \/ At(c, "delivery") /\ calls[c].waits
\* until(): the time is out.
Until(c) ==
    /\ Polls(c)
    /\ Returns(c, "timeout")
    /\ UNCHANGED <<chains, ledger, bridge, signatures>>

(***************************************************************************)
(* Joining with a secret waits until the member is seen in the contract,   *)
(* to which the server adds it, or does not; members part, or are added    *)
(* and removed by an admin.                                                *)
(***************************************************************************)
Join(c) == \E m \in Members : Begin(c, "join", m, m, <<>>, <<FALSE, FALSE, TRUE>>)
JoinRequest(c) ==
    /\ At(c, "begun") /\ calls[c].op = "join"
    /\ Goes(c, "joining") \/ Returns(c, "error")
    /\ UNCHANGED <<chains, ledger, bridge, signatures>>
IsMember(c) ==
    /\ At(c, "joining") /\ calls[c].from \in members /\ Returns(c, "receipt")
    /\ UNCHANGED <<chains, ledger, bridge, signatures>>

ChangeMembers(new) ==
    /\ \E c \in Calls : calls[c].op = "join"      \* a bound: members matter to who joins
    /\ members' = new
    /\ UNCHANGED <<chains, earned, withdrawn, tokens, payments, allowance, bridge, calls, signatures>>
AddMembers(m) == m \notin members /\ ChangeMembers(members \cup {m})
RemoveMembers(m) == m \in members /\ ChangeMembers(members \ {m})

(***************************************************************************)
(* Adding a token to a member's earnings: what the contract may not take   *)
(* yet is allowed first, in a transaction of its own.                      *)
(***************************************************************************)
TransferToMemberInContract(c) ==
    \E m \in Members :
        earned[m] < MaxEarned /\ Begin(c, "transfer", m, m, <<>>, <<FALSE, FALSE, FALSE>>)
CheckAllowance(c) ==
    /\ At(c, "begun") /\ calls[c].op = "transfer"
    /\ Goes(c, IF allowance < 1 THEN "approving" ELSE "sent")
    /\ UNCHANGED <<chains, ledger, bridge, signatures>>
IncreaseAllowance(c) ==
    /\ At(c, "approving") /\ allowance' = allowance + 1 /\ Goes(c, "sent")
    /\ UNCHANGED <<chains, members, earned, withdrawn, tokens, payments, bridge, signatures>>
TransferMined(c) ==
    /\ At(c, "sent") /\ calls[c].op = "transfer"
    /\ IF allowance = 0 THEN Returns(c, "error") /\ UNCHANGED <<allowance, earned>>
       ELSE /\ allowance' = allowance - 1 /\ Returns(c, "receipt")
            /\ earned' = [earned EXCEPT ![calls[c].from] = @ + 1]
    /\ UNCHANGED <<chains, members, withdrawn, tokens, payments, bridge, signatures>>

(***************************************************************************)
(* Deploying: a look whether the name is taken, the mainnet contract, and  *)
(* the wait until the bridge has brought about the one on the sidechain.   *)
(***************************************************************************)
Deploy(c) == Begin(c, "deploy", "nobody", "nobody", <<>>, <<FALSE, FALSE, TRUE>>)
GetCode(c) ==
    /\ At(c, "begun") /\ calls[c].op = "deploy"
    /\ IF "main" \in chains THEN Returns(c, "error") ELSE Goes(c, "deploying")
    /\ UNCHANGED <<chains, ledger, bridge, signatures>>
DeployNewDataUnion(c) ==
    /\ At(c, "deploying")
    /\ IF "main" \in chains THEN Returns(c, "error") /\ UNCHANGED chains
       ELSE chains' = {"main"} /\ Goes(c, "sidechain")
    /\ UNCHANGED <<ledger, bridge, signatures>>
DeployDataUnion(c) ==
    /\ At(c, "sidechain") /\ "side" \in chains /\ Returns(c, "receipt")
    /\ UNCHANGED <<chains, ledger, bridge, signatures>>

(***************************************************************************)
(* The bridge: it deploys on the sidechain, collects signatures, and may   *)
(* transport a message itself.                                             *)
(***************************************************************************)
BridgeDeploys ==
    /\ chains = {"main"} /\ chains' = {"main", "side"}
    /\ UNCHANGED <<ledger, bridge, calls, signatures>>
BridgeSigns(c) ==
    /\ messages[c] = "collecting" /\ messages' = [messages EXCEPT ![c] = "complete"]
    /\ UNCHANGED <<chains, ledger, relayed, calls, signatures>>
BridgeTransports(c) ==
    /\ messages[c] = "complete" /\ relayed[c] = "no" /\ Relay(c)
    /\ UNCHANGED <<chains, members, earned, withdrawn, payments, allowance, messages, calls, signatures>>

Asked(c) ==
    \/ \E o \in Options : WithdrawAll(c, o) \/ WithdrawAllTo(c, o) \/ WithdrawAllToMember(c, o)
                          \/ WithdrawToSigned(c, o)
    \/ TransportHash(c) \/ Join(c) \/ TransferToMemberInContract(c) \/ Deploy(c)
ClientStep(c) ==
    \/ ReadBalance(c) \/ GetWithdrawTx(c) \/ Mined(c) \/ ExpectDelivery(c)
    \/ TransportMessage(c) \/ EstimateGas(c) \/ TransportSignaturesForMessage(c) \/ AwaitArrival(c)
    \/ JoinRequest(c) \/ IsMember(c)
    \/ CheckAllowance(c) \/ IncreaseAllowance(c) \/ TransferMined(c)
    \/ GetCode(c) \/ DeployNewDataUnion(c) \/ DeployDataUnion(c)

UnionNext ==
    \/ \E c \in Calls : Asked(c) \/ ClientStep(c) \/ Until(c) \/ BridgeSigns(c) \/ BridgeTransports(c)
    \/ \E m \in Members :
        \/ AddMembers(m) \/ RemoveMembers(m)
        \/ \E r \in Recipients : SignWithdrawAllTo(m, r) \/ SignWithdrawAmountTo(m, r, 1)
    \/ BridgeDeploys

\* Transactions are mined and reverted or not; the timer of until() is always
\* set. Of the bridge and of those who ask nothing is assumed. A call takes a
\* bounded number of steps, so that under weak fairness there come states where
\* no more are possible: what must become true is stated of those (Over).
UnionGoesOn == \E c \in Calls : ClientStep(c) \/ Until(c)
HasStep(c) ==
    \/ Polls(c)
    \/ At(c, "begun") /\ calls[c].op \in {"withdraw", "byAdmin", "signed", "join", "transfer", "deploy"}
    \/ At(c, "sent") /\ calls[c].op \in {"withdraw", "byAdmin", "signed", "transfer"}
    \/ At(c, "delivery") /\ (calls[c].waits => Balance(c) # calls[c].before)
    \/ calls[c].at \in {"balance", "estimate", "executing", "approving", "deploying"}
Over == \A c \in Calls : ~HasStep(c)
UnionSpec == UnionInit /\ [][UnionNext]_unionVars /\ WF_unionVars(UnionGoesOn)

(***************************************************************************)
(* What the client reports of a withdrawal to the mainnet has happened:    *)
(* with a receipt, or null, its message has been processed, by whoever;    *)
(* and one that waited was paid out, unless another payment to the same    *)
(* recipient stood in for it (DataUnion.ts:826, :867).                     *)
(***************************************************************************)
PaidByAnother(c) ==
    \E d \in Calls \ {c} : relayed[d] = "executed" /\ calls[d].to = calls[c].to
ReportsAreTrue ==
    \A c \in Calls :
        At(c, "settled") /\ calls[c].sendToMainnet /\ calls[c].result \in {"receipt", "null"} =>
            /\ calls[c].payForTransport => AlreadyProcessed(c)
            /\ calls[c].waits => relayed[c] = "executed" \/ PaidByAnother(c)

(***************************************************************************)
(* A member's signature is good for one withdrawal, whatever else is       *)
(* withdrawn before, after or meanwhile (DataUnion.ts:254).                *)
(***************************************************************************)
SignaturesPayOnce == \A p, q \in payments : p[1] = q[1] => p = q

\* A call has a step of its own exactly if one of those is possible.
OverIsRest == Over <=> ~ENABLED UnionGoesOn

(***************************************************************************)
(* Every call comes to an end: none waits for ever for a bridge that does  *)
(* not transport, a member who is not added or a contract that does not    *)
(* appear (DataUnion.ts:815, :853, utils/index.ts:563).                    *)
(***************************************************************************)
EveryCallSettles == Over => (\A c \in Calls : calls[c].at \in {"new", "settled"})
==================================================================================
