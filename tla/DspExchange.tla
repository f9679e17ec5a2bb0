----------------------------- MODULE DspExchange ------------------------------
(***************************************************************************)
(* The consumer steps of a dataspace exchange (steps/connector): negotiate *)
(* a contract, collect the EDR its transfer writes or push the data, and   *)
(* call the data plane.  The connector works on the negotiation and the    *)
(* transfer meanwhile, its management API may fail to answer, and what the *)
(* steps hand on lies in variables every later step of the run reads.      *)
(***************************************************************************)
EXTENDS Naturals

CONSTANTS Planes,     \* the origins a data plane may have
          MaxWait,    \* max_wait of the steps, in ticks
          Poll,       \* poll_interval
          MaxSlow,    \* bound: ticks one call to the connector may take
          MaxContracts, \* bound: negotiations started
          MaxSteps    \* bound: steps run

ASSUME DspExchangeAssumption ==
    /\ {MaxWait, MaxSlow, MaxContracts, MaxSteps} \subseteq Nat /\ Poll \in Nat \ {0}
    /\ "none" \notin Planes

Contracts == 1..MaxContracts
NegotiationTerminal == {"FINALIZED", "TERMINATED"}
TransferTerminal == {"STARTED", "COMPLETED", "TERMINATED", "SUSPENDED"}

VARIABLES
    neg,    \* the connector: state of each negotiation
    xfer,   \* the connector: state of the transfer each negotiation started
    plane,  \* the connector: the data plane of each EDR, once written
    push,   \* the connector: state of the push transfer
    step,   \* the step that runs: what it waits for, and what it has seen
    var,    \* the run's variables: negotiation_id, transfer_id, dataplane_url, edr_token
    sent,   \* what the data-plane calls carried where (history)
    count,  \* steps run so far
    ended   \* how the last step ended
xVars == <<neg, xfer, plane, push, step, var, sent, count, ended>>
xConnector == <<neg, xfer, plane, push>>

NoStep == [kind |-> "none", of |-> 0, at |-> "none", spent |-> 0, seen |-> "none", agreed |-> "no"]
NoToken == [of |-> 0, origin |-> "none"]
Tokens == [of : {0} \cup Contracts, origin : Planes \cup {"none"}]

EndedRec == [kind : {"none", "negotiate", "pull", "push", "get_edr", "flow", "call"},
             why : {"none", "passed", "service", "no_id", "unreadable", "terminated", "timeout", "origin", "no_endpoint"},
             of : {0} \cup Contracts,
             state : {"none", "REQUESTED"} \cup NegotiationTerminal \cup TransferTerminal]

XTypeOK ==
    /\ neg \in [Contracts -> {"none", "REQUESTED"} \cup NegotiationTerminal]
    /\ xfer \in [Contracts -> {"none", "REQUESTED", "STARTED", "TERMINATED"}]
    /\ plane \in [Contracts -> Planes \cup {"none"}]
    /\ push \in {"none", "REQUESTED"} \cup TransferTerminal
    /\ step \in [kind : {"none", "negotiate", "pull", "push"}, of : {0} \cup Contracts,
                 at : {"none", "read", "edr", "why", "wait", "address"},
                 spent : 0..(MaxWait + 3 * MaxSlow),
                 seen : {"none", "REQUESTED"} \cup NegotiationTerminal \cup TransferTerminal,
                 agreed : {"yes", "no"}]
    /\ var \in [nid : {0} \cup Contracts, tid : {0} \cup Contracts,
                url : Planes \cup {"none"}, token : Tokens]
    /\ sent \subseteq [token : Tokens, to : Planes]
    /\ count \in 0..MaxSteps
    /\ ended \in EndedRec

XInit ==
    /\ neg = [c \in Contracts |-> "none"] /\ xfer = [c \in Contracts |-> "none"]
    /\ plane = [c \in Contracts |-> "none"] /\ push = "none"
    /\ step = NoStep /\ var = [nid |-> 0, tid |-> 0, url |-> "none", token |-> NoToken]
    /\ sent = {} /\ count = 0
    /\ ended = [kind |-> "none", why |-> "none", of |-> 0, state |-> "none"]

-----------------------------------------------------------------------------
\* The connector and its counter-party (external).
Negotiated(c) ==
    /\ neg[c] = "REQUESTED"
    /\ \E s \in NegotiationTerminal :
          /\ neg' = [neg EXCEPT ![c] = s]
          /\ xfer' = [xfer EXCEPT ![c] = IF s = "FINALIZED" THEN "REQUESTED" ELSE @]
    /\ UNCHANGED <<plane, push, step, var, sent, count, ended>>

Transferred(c) ==
    /\ xfer[c] = "REQUESTED"
    /\ \E s \in {"STARTED", "TERMINATED"} : xfer' = [xfer EXCEPT ![c] = s]
    /\ UNCHANGED <<neg, plane, push, step, var, sent, count, ended>>

EdrWritten(c) ==
    /\ xfer[c] = "STARTED" /\ plane[c] = "none"
    /\ \E o \in Planes : plane' = [plane EXCEPT ![c] = o]
    /\ UNCHANGED <<neg, xfer, push, step, var, sent, count, ended>>

Pushed ==
    /\ \/ push = "REQUESTED" /\ push' \in TransferTerminal
       \/ push = "STARTED" /\ push' \in {"COMPLETED", "TERMINATED"}
    /\ UNCHANGED <<neg, xfer, plane, step, var, sent, count, ended>>

-----------------------------------------------------------------------------
Ends(why, state) ==
    /\ step' = NoStep
    /\ ended' = [kind |-> step.kind, why |-> why, of |-> step.of, state |-> state]

\* A call to the connector takes its time, inside the wait of the step.
Slow == 0..MaxSlow

Starts(kind, c, at) ==
    /\ step.kind = "none" /\ count < MaxSteps
    /\ count' = count + 1
    /\ step' = [NoStep EXCEPT !.kind = kind, !.of = c, !.at = at]
    /\ UNCHANGED ended

\* A step that is over as soon as it began.
Another(kind, why, c) ==
    /\ step.kind = "none" /\ count < MaxSteps /\ count' = count + 1
    /\ ended' = [kind |-> kind, why |-> why, of |-> c, state |-> "none"]

\* NegotiateStep starts a negotiation of its own; it, and a PUSH, may be turned down or get
\* no id to watch.
TurnedDown ==
    /\ \E kind \in {"negotiate", "push"}, why \in {"service", "no_id"} : Another(kind, why, 0)
    /\ UNCHANGED <<xConnector, step, var, sent>>

Negotiate(c) ==
    /\ neg[c] = "none" /\ \A d \in Contracts : d < c => neg[d] # "none"
    /\ Starts("negotiate", c, "read")
    /\ neg' = [neg EXCEPT ![c] = "REQUESTED"]
    /\ UNCHANGED <<xfer, plane, push, var, sent>>

\* InitiateTransferStep: a PUSH asks for a transfer of its own, a PULL looks for the EDR of
\* the negotiation the negotiation_id variable names.
StartPush ==
    /\ Starts("push", 0, "read") /\ push' = "REQUESTED"
    /\ UNCHANGED <<neg, xfer, plane, var, sent>>

StartPull ==
    /\ var.nid # 0 /\ Starts("pull", var.nid, "edr")
    /\ UNCHANGED <<xConnector, var, sent>>

\* Whether another interval still fits before the deadline.
Again(spent) == spent + Poll <= MaxWait

Entity == IF step.kind = "negotiate" THEN neg[step.of] ELSE push
Terminal == IF step.kind = "negotiate" THEN NegotiationTerminal ELSE TransferTerminal

\* Publishing: the names the test lists under returns:, and no other, take the value the
\* step returned, also when that value is nothing.
Publish(values) ==
    \E returns \in SUBSET DOMAIN values :
       var' = [x \in DOMAIN var |-> IF x \in returns THEN values[x] ELSE var[x]]

Outcome ==
    IF step.kind = "negotiate" THEN [nid |-> step.of]
    ELSE [tid |-> 0, url |-> "none", token |-> NoToken]

\* One round of poll_until_terminal, once the entity was read, or was not (no step asks for
\* its allow_timeout).
Settle(seen, spent) ==
    IF seen = "none"
    THEN Ends("unreadable", seen) /\ UNCHANGED var
    ELSE IF seen \in Terminal
    THEN Ends("passed", seen) /\ Publish(Outcome)
    ELSE IF ~Again(spent)
    THEN Ends("timeout", seen) /\ UNCHANGED var
    ELSE /\ step' = [step EXCEPT !.at = "wait", !.seen = seen, !.spent = spent]
         /\ UNCHANGED <<var, ended>>

\* read_entity answers what the entity is, or nothing, and what was seen before stands.
ReadEntity ==
    /\ step.kind \in {"negotiate", "push"} /\ step.at = "read"
    /\ \E seen \in {Entity, step.seen}, slow \in Slow : Settle(seen, step.spent + slow)
    /\ UNCHANGED <<xConnector, sent, count>>

Slept ==
    /\ step.at = "wait"
    /\ step' = [step EXCEPT !.at = IF step.kind = "pull" THEN "edr" ELSE "read", !.spent = @ + Poll]
    /\ UNCHANGED <<xConnector, var, sent, count, ended>>

\* Mutant of AskForEdr: an agreement is taken for its EDR.
AskForAgreement ==
    /\ step.at = "edr"
    /\ \E slow \in Slow :
          step' = [step EXCEPT !.at = IF neg[step.of] = "FINALIZED" THEN "address" ELSE "why", !.spent = @ + slow]
    /\ UNCHANGED <<xConnector, var, sent, count, ended>>

\* One round of await_edr_entry: the EDR is asked for, and only while it is missing the
\* transfer is read for the reason.
AskForEdr ==
    /\ step.at = "edr"
    /\ \E slow \in Slow :
          step' = [step EXCEPT !.at = IF plane[step.of] # "none" THEN "address" ELSE "why", !.spent = @ + slow]
    /\ UNCHANGED <<xConnector, var, sent, count, ended>>

EdrCallFails ==
    /\ step.at = "edr" /\ Ends("service", "none")
    /\ UNCHANGED <<xConnector, var, sent, count>>

\* What the step does with what it read of the agreement and the transfer.
ReadTransfer(agreed, seen, spent) ==
    IF seen = "TERMINATED" THEN Ends("terminated", seen)
    ELSE IF ~Again(spent) THEN Ends("timeout", seen)
    ELSE /\ step' = [step EXCEPT !.at = "wait", !.agreed = agreed, !.seen = seen, !.spent = spent]
         /\ UNCHANGED ended

\* Either read may fail: the agreement is asked for until it was read once, the transfer
\* only once there is an agreement.
WhyNoEdr ==
    /\ step.at = "why"
    /\ \E agreed \in {step.agreed, IF neg[step.of] = "FINALIZED" THEN "yes" ELSE step.agreed}, slow \in Slow :
          \E seen \in IF agreed = "yes" THEN {step.seen, xfer[step.of]} ELSE {step.seen} :
             ReadTransfer(agreed, seen, step.spent + slow)
    /\ UNCHANGED <<xConnector, var, sent, count>>

\* Mutant of Address: the handle is bound to the address the run used last.
AddressOfLast(c, o) ==
    [url |-> o, token |-> [of |-> c, origin |-> IF var.url = "none" THEN o ELSE var.url]]

\* issued_data_address: the address of an EDR, and its token as a handle of that data plane.
Address(c, o) == [url |-> o, token |-> [of |-> c, origin |-> o]]

\* fetch_data_address: the token becomes a handle of its data plane; a connector that
\* cannot be reached leaves the address out, and the step passes without one.
FetchAddress ==
    /\ step.at = "address"
    /\ Ends("passed", xfer[step.of])
    /\ \/ LET a == Address(step.of, plane[step.of])
          IN  Publish([tid |-> step.of, url |-> a.url, token |-> a.token])
       \/ Publish([tid |-> step.of, url |-> "none", token |-> NoToken])
    /\ UNCHANGED <<xConnector, sent, count>>

\* GetEdrStep reads the EDR of the transfer_id variable; without one, or when the connector
\* cannot be reached, it passes with no output and the variables stay as they were.
GetEdr ==
    /\ Another("get_edr", "passed", var.tid)
    /\ \/ var.tid # 0 /\ plane[var.tid] # "none" /\ Publish(Address(var.tid, plane[var.tid]))
       \/ UNCHANGED var
    /\ UNCHANGED <<xConnector, step, sent>>

\* The one-step flows (do_dsp, pull_data): the SDK negotiates and transfers in one call, or
\* takes the EDR its connection cache has; pull_data also publishes what the EDR entry says,
\* if that can be read.
Flow(c) ==
    /\ neg[c] = "none" \/ plane[c] # "none"
    /\ \A d \in Contracts : d < c => neg[d] # "none"
    /\ Another("flow", "passed", c)
    /\ neg' = [neg EXCEPT ![c] = "FINALIZED"]
    /\ xfer' = [xfer EXCEPT ![c] = "STARTED"]
    /\ \E o \in IF plane[c] = "none" THEN Planes ELSE {plane[c]} :
          /\ plane' = [plane EXCEPT ![c] = o]
          /\ \/ Publish(Address(c, o))
             \/ \E n \in {0, c} :
                   Publish([nid |-> n, tid |-> c, url |-> Address(c, o).url, token |-> Address(c, o).token])
    /\ UNCHANGED <<push, step, sent>>

FlowFails ==
    /\ \E why \in {"service", "no_endpoint"} : Another("flow", why, 0)
    /\ UNCHANGED <<xConnector, step, var, sent>>

\* Credential.reveal_for: a handle opens for its own origin only; no token is sent as none.
Reveal(token, to) == token = NoToken \/ token.origin = to

\* DataplaneCallStep calls the address the variable holds, or one the test names, with the
\* token the variable holds, or none where the test asked for none.
CallDataplane ==
    /\ \E to \in Planes \cup {var.url}, token \in {var.token, NoToken} :
          \/ /\ Reveal(token, to) /\ to # "none"
             /\ Another("call", "passed", token.of)
             /\ sent' = sent \cup {[token |-> token, to |-> to]}
          \/ /\ ~Reveal(token, to)
             /\ Another("call", "origin", token.of) /\ UNCHANGED sent
          \/ /\ Another("call", "service", token.of) /\ UNCHANGED sent
    /\ UNCHANGED <<xConnector, step, var>>

XConnectorMoves == Pushed \/ \E c \in Contracts : Negotiated(c) \/ Transferred(c) \/ EdrWritten(c)
XStepMoves == ReadEntity \/ Slept \/ AskForEdr \/ WhyNoEdr \/ FetchAddress
XNext ==
    \/ XConnectorMoves \/ XStepMoves \/ EdrCallFails
    \/ TurnedDown \/ StartPush \/ StartPull \/ GetEdr \/ FlowFails \/ CallDataplane
    \/ \E c \in Contracts : Negotiate(c) \/ Flow(c)
XSpec == XInit /\ [][XNext]_xVars /\ WF_xVars(XStepMoves)

-----------------------------------------------------------------------------
\* What a step reports is so.  The state negotiate passes with is terminal and the one that
\* negotiation stays in, whichever reads before it failed or lagged behind.  A PULL that
\* passed has the EDR of the negotiation it was asked for, agreed on and with its data plane
\* known, however long the EDR came after the agreement.  A transfer that was seen
\* terminated fails the step at once and for that reason, never as one that took too long.  And
\* whatever the calls take, no interval is slept past the wait the test allowed: a step asks the
\* connector again only within max_wait.  (With the types of the exchange.)
ReportedTruly ==
    /\ XTypeOK
    /\ step.at \in {"read", "edr"} => step.spent <= MaxWait
    /\ ended.kind = "negotiate" /\ ended.why = "passed"
         => ended.state \in NegotiationTerminal /\ neg[ended.of] = ended.state
    /\ ended.kind = "pull" /\ ended.why = "passed"
         => neg[ended.of] = "FINALIZED" /\ plane[ended.of] # "none"
    /\ step.kind = "pull" => step.seen # "TERMINATED"
    /\ ended.kind = "pull" /\ ended.why = "timeout" => ended.state # "TERMINATED"

\* An EDR token travels to the data plane it was issued for and nowhere else, whichever of
\* the run's exchanges wrote the address and the token the call finds in the variables.
TokenStaysHome == \A s \in sent : s.token # NoToken => s.to = plane[s.token.of]

\* Every step ends, also when the connector never settles and never answers.
StepEnds == step.kind # "none" ~> step.kind = "none"
=============================================================================
