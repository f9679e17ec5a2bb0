--------------------------- MODULE DataspaceProofs ----------------------------
(***************************************************************************)
(* The dataspace steps, for any number of data planes, contracts, runs,    *)
(* ids, assets, agreements and pages: where an EDR token may travel, what  *)
(* a contract definition offers, and what a retirement has retired; and    *)
(* for any number of shells, what the steps tell of a twin registry.       *)
(***************************************************************************)
EXTENDS DspExchange, ProviderResources, AgreementRetirement, TwinSteps, SequenceFilterProofs, TLAPS

(***************************************************************************)
(* The tokens of an exchange.                                              *)
(***************************************************************************)
Variables == [nid : {0} \cup Contracts, tid : {0} \cup Contracts,
              url : Planes \cup {"none"}, token : Tokens]
Steps == [kind : {"none", "negotiate", "pull", "push"}, of : {0} \cup Contracts,
          at : {"none", "read", "edr", "why", "wait", "address"}, spent : Nat,
          seen : {"none", "REQUESTED"} \cup NegotiationTerminal \cup TransferTerminal,
          agreed : {"yes", "no"}]
Connector ==
    /\ neg \in [Contracts -> {"none", "REQUESTED"} \cup NegotiationTerminal]
    /\ xfer \in [Contracts -> {"none", "REQUESTED", "STARTED", "TERMINATED"}]
    /\ push \in {"none", "REQUESTED"} \cup TransferTerminal

\* The part of the types the argument needs.
Shape ==
    /\ Connector
    /\ plane \in [Contracts -> Planes \cup {"none"}]
    /\ var \in Variables /\ step \in Steps
    /\ sent \subseteq [token : Tokens, to : Planes]
    /\ step.kind \in {"negotiate", "pull"} => step.of \in Contracts
    /\ step.at \in {"edr", "why", "address"} => step.kind = "pull"

\* A handle of the run is bound to the data plane its EDR was written with.
Bound(t) == t # NoToken => t.of \in Contracts /\ plane[t.of] \in Planes /\ t.origin = plane[t.of]
Delivered ==
    \A s \in sent : s.token # NoToken => s.token.of \in Contracts /\ s.to = plane[s.token.of]

\* What was bound or delivered stays so, since a data plane once known stays; a step about
\* to read an address knows it is there.
TokenInv ==
    /\ Shape /\ Bound(var.token) /\ Delivered
    /\ step.at = "address" => plane[step.of] \in Planes

\* What Publish may do to the variables, whatever names the test lists.
LEMMA Published ==
    ASSUME NEW values, var \in Variables, Publish(values),
           DOMAIN values \subseteq {"nid", "tid", "url", "token"},
           "nid" \in DOMAIN values => values["nid"] \in {0} \cup Contracts,
           "tid" \in DOMAIN values => values["tid"] \in {0} \cup Contracts,
           "url" \in DOMAIN values => values["url"] \in Planes \cup {"none"},
           "token" \in DOMAIN values => values["token"] \in Tokens
    PROVE  /\ var' \in Variables
           /\ \/ var'.token = var.token
              \/ "token" \in DOMAIN values /\ var'.token = values["token"]
<1>1. PICK returns \in SUBSET DOMAIN values :
         var' = [x \in DOMAIN var |-> IF x \in returns THEN values[x] ELSE var[x]]
  BY DEF Publish
<1>2. DOMAIN var = {"nid", "tid", "url", "token"}
  BY DEF Variables
<1>3. /\ var["nid"] \in {0} \cup Contracts /\ var["tid"] \in {0} \cup Contracts
      /\ var["url"] \in Planes \cup {"none"} /\ var["token"] \in Tokens
  BY DEF Variables
<1>4. /\ var'["nid"] \in {0} \cup Contracts /\ var'["tid"] \in {0} \cup Contracts
      /\ var'["url"] \in Planes \cup {"none"} /\ var'["token"] \in Tokens
  BY <1>1, <1>2, <1>3
<1>5. var' = [nid |-> var'["nid"], tid |-> var'["tid"], url |-> var'["url"], token |-> var'["token"]]
  BY <1>1, <1>2
<1>6. var' \in Variables
  BY <1>4, <1>5 DEF Variables
<1> QED
  BY <1>1, <1>2, <1>6

\* A run starts with no token in its variables and nothing sent.
LEMMA InitToken == XInit => TokenInv
<1> USE DspExchangeAssumption DEF XInit, NoStep, NoToken, Tokens, Contracts
<1> SUFFICES ASSUME XInit PROVE TokenInv
  OBVIOUS
<1>1. Shape
  BY DEF Shape, Connector, Variables, Steps, NegotiationTerminal, TransferTerminal
<1> QED
  BY <1>1 DEF TokenInv, Bound, Delivered

\* A step that keeps the planes it knows, the variables and what was sent keeps them bound.
LEMMA KeepsBound ==
    ASSUME TokenInv, plane' \in [Contracts -> Planes \cup {"none"}],
           \A c \in Contracts : plane[c] \in Planes => plane'[c] = plane[c]
    PROVE  /\ \A t : Bound(t) => Bound(t)'
           /\ sent' = sent => Delivered'
           /\ step' = step /\ step.at = "address" => plane'[step.of] \in Planes
<1>1. \A t : Bound(t) => Bound(t)'
  BY DEF Bound, TokenInv, Shape
<1>2. sent' = sent => Delivered'
  BY DspExchangeAssumption DEF TokenInv, Delivered, Shape
<1>3. step' = step /\ step.at = "address" => plane'[step.of] \in Planes
  BY DEF TokenInv, Shape
<1> QED
  BY <1>1, <1>2, <1>3

\* Every step of the exchange, of the connector and of the calls keeps each handle bound to
\* the data plane of its own EDR.
LEMMA NextToken == TokenInv /\ [XNext]_xVars => TokenInv'
<1> USE DspExchangeAssumption
<1> SUFFICES ASSUME TokenInv, [XNext]_xVars PROVE TokenInv'
  OBVIOUS
<1>t. /\ Shape /\ Connector /\ plane \in [Contracts -> Planes \cup {"none"}]
      /\ var \in Variables /\ step \in Steps /\ Bound(var.token) /\ Delivered
  BY DEF TokenInv, Shape
<1>p. ASSUME plane' = plane
      PROVE  /\ plane' \in [Contracts -> Planes \cup {"none"}]
             /\ \A t : Bound(t) => Bound(t)'
             /\ sent' = sent => Delivered'
  BY <1>p, <1>t, KeepsBound
\* The connector's own moves.
<1>1. CASE Pushed
  <2>1. Connector'
    BY <1>1, <1>t DEF Pushed, Connector, TransferTerminal
  <2> QED
    BY <1>1, <1>t, <1>p, <2>1 DEF Pushed, TokenInv, Shape, Bound, Delivered
<1>2. ASSUME NEW c \in Contracts, Negotiated(c) PROVE TokenInv'
  <2>1. Connector'
    BY <1>2, <1>t DEF Negotiated, Connector, NegotiationTerminal
  <2> QED
    BY <1>2, <1>t, <1>p, <2>1 DEF Negotiated, TokenInv, Shape, Bound, Delivered
<1>3. ASSUME NEW c \in Contracts, Transferred(c) PROVE TokenInv'
  <2>1. Connector'
    BY <1>3, <1>t DEF Transferred, Connector
  <2> QED
    BY <1>3, <1>t, <1>p, <2>1 DEF Transferred, TokenInv, Shape, Bound, Delivered
<1>4. ASSUME NEW c \in Contracts, EdrWritten(c) PROVE TokenInv'
  <2>1. /\ plane' \in [Contracts -> Planes \cup {"none"}]
        /\ \A d \in Contracts : plane[d] \in Planes => plane'[d] = plane[d]
    BY <1>4, <1>t DEF EdrWritten
  <2>2. Connector'
    BY <1>4, <1>t DEF EdrWritten, Connector
  <2> QED
    BY <1>4, <1>t, <2>1, <2>2, KeepsBound DEF EdrWritten, TokenInv, Shape
\* The steps that leave the variables alone.
<1>5. ASSUME UNCHANGED <<neg, xfer, plane, push, var, sent>>, step' \in Steps,
             step'.kind \in {"negotiate", "pull"} => step'.of \in Contracts,
             step'.at \in {"edr", "why", "address"} => step'.kind = "pull",
             step'.at = "address" => plane[step'.of] \in Planes
      PROVE  TokenInv'
  BY <1>5, <1>t, <1>p DEF TokenInv, Shape, Connector, Bound, Delivered
<1>n. NoStep \in Steps /\ NoStep.kind = "none" /\ NoStep.at = "none"
  BY DEF NoStep, Steps
<1>6. CASE TurnedDown \/ FlowFails
  BY <1>6, <1>5, <1>t DEF TurnedDown, FlowFails, Another, xConnector, TokenInv, Shape
<1>7. CASE StartPush
  <2>1. step' \in Steps /\ step'.kind = "push" /\ step'.at = "read"
    BY <1>7, <1>n DEF StartPush, Starts, NoStep, Steps
  <2>2. Connector'
    BY <1>7, <1>t DEF StartPush, Connector
  <2> QED
    BY <1>7, <1>t, <1>p, <2>1, <2>2 DEF StartPush, TokenInv, Shape, Bound, Delivered
<1>8. CASE StartPull
  <2>1. var.nid \in Contracts
    BY <1>8, <1>t DEF StartPull, Variables
  <2>2. step' = [NoStep EXCEPT !.kind = "pull", !.of = var.nid, !.at = "edr"]
    BY <1>8 DEF StartPull, Starts
  <2>3. step' \in Steps /\ step'.kind = "pull" /\ step'.of \in Contracts /\ step'.at = "edr"
    BY <2>1, <2>2 DEF NoStep, Steps
  <2> QED
    BY <1>8, <1>5, <2>3 DEF StartPull, xConnector
<1>9. ASSUME NEW c \in Contracts, Negotiate(c) PROVE TokenInv'
  <2>1. step' \in Steps /\ step'.of = c /\ step'.at = "read"
    BY <1>9 DEF Negotiate, Starts, NoStep, Steps
  <2>2. Connector'
    BY <1>9, <1>t DEF Negotiate, Connector
  <2> QED
    BY <1>9, <1>t, <1>p, <2>1, <2>2 DEF Negotiate, TokenInv, Shape, Bound, Delivered
<1>10. CASE Slept
  <2>1. step' \in Steps
    <3>1. step.spent + Poll \in Nat
      BY <1>t DEF DspExchangeAssumption, Steps
    <3> QED
      BY <1>10, <1>t, <3>1 DEF Slept, Steps
  <2>2. /\ step'.kind = step.kind /\ step'.of = step.of /\ step'.at \in {"edr", "read"}
        /\ step'.at = "edr" => step.kind = "pull"
    BY <1>10, <1>t DEF Slept, Steps
  <2> QED
    BY <1>10, <1>5, <1>t, <2>1, <2>2 DEF Slept, xConnector, TokenInv, Shape
<1>s. \A slow \in Slow : step.spent + slow \in Nat
  BY <1>t DEF DspExchangeAssumption, Slow, Steps
<1>11. CASE AskForEdr
  <2>1. PICK slow \in Slow :
           step' = [step EXCEPT !.at = IF plane[step.of] # "none" THEN "address" ELSE "why", !.spent = @ + slow]
    BY <1>11 DEF AskForEdr
  <2>2. step.spent + slow \in Nat
    BY <1>s
  <2>3. step' \in Steps
    BY <2>1, <2>2, <1>t DEF Steps
  <2>4. /\ step'.kind = step.kind /\ step'.of = step.of
        /\ step'.at = IF plane[step.of] # "none" THEN "address" ELSE "why"
    BY <2>1, <1>t DEF Steps
  <2>5. step.kind = "pull" /\ step.of \in Contracts
    BY <1>11, <1>t DEF AskForEdr, Shape
  <2> QED
    BY <1>11, <1>5, <1>t, <2>3, <2>4, <2>5 DEF AskForEdr, xConnector
<1>12. CASE EdrCallFails
  BY <1>12, <1>5, <1>n DEF EdrCallFails, Ends, xConnector
<1>13. CASE WhyNoEdr
  <2>1. PICK agreed \in {step.agreed, IF neg[step.of] = "FINALIZED" THEN "yes" ELSE step.agreed}, slow \in Slow :
           \E seen \in IF agreed = "yes" THEN {step.seen, xfer[step.of]} ELSE {step.seen} :
              ReadTransfer(agreed, seen, step.spent + slow)
    BY <1>13 DEF WhyNoEdr
  <2>2. PICK seen \in {step.seen, xfer[step.of]} : ReadTransfer(agreed, seen, step.spent + slow)
    BY <2>1
  <2>3. step.kind = "pull" /\ step.of \in Contracts
    BY <1>13, <1>t DEF WhyNoEdr, Shape
  <2>4. /\ agreed \in {"yes", "no"} /\ step.spent + slow \in Nat
        /\ seen \in {"none", "REQUESTED"} \cup NegotiationTerminal \cup TransferTerminal
    BY <1>t, <1>s, <2>1, <2>2, <2>3 DEF Steps, Connector, NegotiationTerminal, TransferTerminal
  <2>5. CASE step' = NoStep
    BY <1>13, <1>5, <1>n, <2>5 DEF WhyNoEdr, xConnector
  <2>6. CASE step' = [step EXCEPT !.at = "wait", !.agreed = agreed, !.seen = seen, !.spent = step.spent + slow]
    <3>1. step' \in Steps
      BY <2>6, <2>4, <1>t DEF Steps
    <3>2. step'.at = "wait" /\ step'.kind = step.kind /\ step'.of = step.of
      BY <2>6, <1>t DEF Steps
    <3> QED
      BY <1>13, <1>5, <2>3, <3>1, <3>2 DEF WhyNoEdr, xConnector
  <2> QED
    BY <2>2, <2>5, <2>6 DEF ReadTransfer, Ends
\* The steps that publish.
<1>14. ASSUME Connector', plane' \in [Contracts -> Planes \cup {"none"}], sent' = sent,
              \A c \in Contracts : plane[c] \in Planes => plane'[c] = plane[c],
              step' \in Steps, step'.kind = "none", step'.at \notin {"edr", "why", "address"},
              var' \in Variables,
              var'.token = var.token \/ Bound(var.token)'
       PROVE  TokenInv'
  <2>1. Bound(var.token)' /\ Delivered'
    <3>1. CASE var'.token = var.token
      BY <1>14, <1>t, <3>1, KeepsBound DEF Bound
    <3>2. CASE Bound(var.token)'
      BY <1>14, <3>2, KeepsBound
    <3> QED
      BY <1>14, <3>1, <3>2
  <2> QED
    BY <1>14, <1>t, <2>1 DEF TokenInv, Shape
<1>z. NoToken \in Tokens /\ \A c \in Contracts, o \in Planes : Address(c, o).url = o
         /\ Address(c, o).token \in Tokens /\ Address(c, o).token = [of |-> c, origin |-> o]
  BY DEF NoToken, Tokens, Address
<1>15. CASE ReadEntity
  <2>1. PICK seen \in {Entity, step.seen}, slow \in Slow : Settle(seen, step.spent + slow)
    BY <1>15 DEF ReadEntity
  <2>2. CASE step' = NoStep /\ Publish(Outcome)
    <3>1. CASE step.kind = "negotiate"
      <4>1. Outcome = [nid |-> step.of] /\ step.of \in Contracts
        BY <3>1, <1>t DEF Outcome, Shape
      <4>2. var' \in Variables /\ var'.token = var.token
        BY <4>1, <2>2, <1>t, Published
      <4> QED
        BY <1>14, <1>15, <1>n, <1>t, <2>2, <4>2 DEF ReadEntity, xConnector, Connector
    <3>2. CASE step.kind # "negotiate"
      <4>1. Outcome = [tid |-> 0, url |-> "none", token |-> NoToken]
        BY <3>2 DEF Outcome
      <4>2. /\ var' \in Variables
            /\ var'.token = var.token \/ var'.token = NoToken
        BY <4>1, <2>2, <1>t, <1>z, Published
      <4> QED
        BY <1>14, <1>15, <1>n, <1>t, <2>2, <4>2 DEF ReadEntity, xConnector, Connector, Bound
    <3> QED
      BY <3>1, <3>2
  <2>3. CASE step' = NoStep /\ UNCHANGED var
    BY <1>15, <1>5, <1>n, <2>3 DEF ReadEntity, xConnector
  <2>4. CASE step' = [step EXCEPT !.at = "wait", !.seen = seen, !.spent = step.spent + slow] /\ UNCHANGED var
    <3>1. seen \in {"none", "REQUESTED"} \cup NegotiationTerminal \cup TransferTerminal
      BY <1>15, <1>t, <2>1 DEF ReadEntity, Entity, Steps, Connector, Shape
    <3>2. step' \in Steps
      BY <2>4, <3>1, <1>s, <1>t DEF Steps
    <3>3. step'.at = "wait" /\ step'.kind = step.kind /\ step'.of = step.of
      BY <2>4, <1>t DEF Steps
    <3> QED
      BY <1>15, <1>5, <1>t, <2>4, <3>2, <3>3 DEF ReadEntity, xConnector, Shape
  <2> QED
    BY <2>1, <2>2, <2>3, <2>4 DEF Settle, Ends
<1>16. CASE FetchAddress
  <2>1. step.of \in Contracts /\ plane[step.of] \in Planes
    BY <1>16, <1>t DEF FetchAddress, TokenInv, Shape
  <2>2. step' = NoStep /\ UNCHANGED <<neg, xfer, plane, push, sent>>
    BY <1>16 DEF FetchAddress, Ends, xConnector
  <2>3. CASE Publish([tid |-> step.of, url |-> Address(step.of, plane[step.of]).url,
                      token |-> Address(step.of, plane[step.of]).token])
    <3>1. /\ var' \in Variables
          /\ var'.token = var.token \/ var'.token = [of |-> step.of, origin |-> plane[step.of]]
      BY <2>1, <2>3, <1>t, <1>z, Published
    <3> QED
      BY <1>14, <1>n, <1>t, <2>1, <2>2, <3>1 DEF Connector, Bound
  <2>4. CASE Publish([tid |-> step.of, url |-> "none", token |-> NoToken])
    <3>1. /\ var' \in Variables
          /\ var'.token = var.token \/ var'.token = NoToken
      BY <2>1, <2>4, <1>t, <1>z, Published
    <3> QED
      BY <1>14, <1>n, <1>t, <2>2, <3>1 DEF Connector, Bound
  <2> QED
    BY <1>16, <2>3, <2>4 DEF FetchAddress
<1>17. CASE GetEdr
  <2>1. /\ UNCHANGED <<neg, xfer, plane, push, sent, step>> /\ step.kind = "none"
        /\ step.at \notin {"edr", "why", "address"}
    BY <1>17, <1>t DEF GetEdr, Another, xConnector, Shape
  <2>2. CASE UNCHANGED var
    BY <1>14, <1>t, <2>1, <2>2 DEF Connector
  <2>3. CASE var.tid # 0 /\ plane[var.tid] # "none" /\ Publish(Address(var.tid, plane[var.tid]))
    <3>1. var.tid \in Contracts /\ plane[var.tid] \in Planes
      BY <2>3, <1>t DEF Variables
    <3>2. /\ var' \in Variables
          /\ var'.token = var.token \/ var'.token = [of |-> var.tid, origin |-> plane[var.tid]]
      <4>1. Address(var.tid, plane[var.tid])
              = [url |-> plane[var.tid], token |-> [of |-> var.tid, origin |-> plane[var.tid]]]
        BY DEF Address
      <4> QED
        BY <2>3, <3>1, <4>1, <1>t, <1>z, Published
    <3> QED
      BY <1>14, <1>t, <2>1, <3>1, <3>2 DEF Connector, Bound
  <2> QED
    BY <1>17, <2>2, <2>3 DEF GetEdr
<1>18. ASSUME NEW c \in Contracts, Flow(c) PROVE TokenInv'
  <2>1. /\ UNCHANGED <<push, sent, step>> /\ step.kind = "none"
        /\ step.at \notin {"edr", "why", "address"}
    BY <1>18, <1>t DEF Flow, Another, Shape
  <2>2. PICK o \in IF plane[c] = "none" THEN Planes ELSE {plane[c]} :
          /\ plane' = [plane EXCEPT ![c] = o]
          /\ \/ Publish(Address(c, o))
             \/ \E n \in {0, c} :
                   Publish([nid |-> n, tid |-> c, url |-> Address(c, o).url, token |-> Address(c, o).token])
    BY <1>18 DEF Flow
  <2>3. /\ o \in Planes /\ plane'[c] = o /\ plane' \in [Contracts -> Planes \cup {"none"}]
        /\ \A d \in Contracts : plane[d] \in Planes => plane'[d] = plane[d]
    BY <2>2, <1>t
  <2>4. Connector'
    BY <1>18, <1>t, <2>1 DEF Flow, Connector, NegotiationTerminal
  <2>5. /\ var' \in Variables
        /\ var'.token = var.token \/ var'.token = [of |-> c, origin |-> o]
    <3>1. Address(c, o) = [url |-> o, token |-> [of |-> c, origin |-> o]]
      BY DEF Address
    <3>2. CASE Publish(Address(c, o))
      BY <2>3, <3>1, <3>2, <1>t, <1>z, Published
    <3>3. ASSUME NEW n \in {0, c},
                 Publish([nid |-> n, tid |-> c, url |-> Address(c, o).url, token |-> Address(c, o).token])
          PROVE  /\ var' \in Variables
                 /\ var'.token = var.token \/ var'.token = [of |-> c, origin |-> o]
      BY <2>3, <3>3, <1>t, <1>z, Published
    <3> QED
      BY <2>2, <3>2, <3>3
  <2> QED
    BY <1>14, <1>t, <2>1, <2>3, <2>4, <2>5 DEF Bound
<1>19. CASE CallDataplane
  <2>1. UNCHANGED <<neg, xfer, plane, push, step, var>>
    BY <1>19 DEF CallDataplane, xConnector
  <2>2. CASE sent' = sent
    BY <1>5, <1>t, <2>1, <2>2 DEF TokenInv, Shape
  <2>3. ASSUME NEW to \in Planes \cup {var.url}, NEW token \in {var.token, NoToken},
               Reveal(token, to), to # "none", sent' = sent \cup {[token |-> token, to |-> to]}
        PROVE  TokenInv'
    <3>1. to \in Planes /\ token \in Tokens /\ Bound(token)
      BY <2>3, <1>t, <1>z DEF Variables, Bound
    <3>2. token # NoToken => token.of \in Contracts /\ to = plane[token.of]
      BY <2>3, <3>1 DEF Reveal, Bound
    <3>3. Delivered'
      BY <2>1, <2>3, <3>2, <1>t DEF Delivered
    <3>4. sent' \subseteq [token : Tokens, to : Planes]
      BY <2>3, <3>1, <1>t DEF Shape
    <3> QED
      BY <1>t, <2>1, <3>3, <3>4 DEF TokenInv, Shape, Connector, Bound
  <2> QED
    BY <1>19, <2>2, <2>3 DEF CallDataplane
<1>20. CASE UNCHANGED xVars
  BY <1>20, <1>5, <1>t DEF xVars, TokenInv, Shape
<1> QED
  BY <1>1, <1>2, <1>3, <1>4, <1>6, <1>7, <1>8, <1>9, <1>10, <1>11, <1>12, <1>13, <1>15, <1>16,
     <1>17, <1>18, <1>19, <1>20 DEF XNext, XConnectorMoves, XStepMoves

\* Every EDR token a data-plane call carries goes to the data plane of its own EDR, for any
\* set of data planes and any sequence of negotiations, transfers, flows and calls.
THEOREM TokensStayHome == XSpec => []TokenStaysHome
<1>1. XInit => TokenInv
  BY InitToken
<1>2. TokenInv /\ [XNext]_xVars => TokenInv'
  BY NextToken
<1>3. TokenInv => TokenStaysHome
  BY DEF TokenInv, Delivered, TokenStaysHome
<1> QED
  BY <1>1, <1>2, <1>3, PTL DEF XSpec

-----------------------------------------------------------------------------
(***************************************************************************)
(* What the steps of an exchange report.                                   *)
(***************************************************************************)

\* A transfer follows its agreement, and an EDR its transfer.
ConnFits ==
    \A c \in Contracts : /\ xfer[c] # "none" => neg[c] = "FINALIZED"
                         /\ plane[c] # "none" => xfer[c] = "STARTED"
\* A step that waits has seen nothing yet that would have ended it, and has slept no interval
\* that did not fit into its wait; the calls since may have taken it past that.
StepFits ==
    /\ step.kind = "negotiate" => step.seen \notin NegotiationTerminal
    /\ step.kind = "pull" => step.seen # "TERMINATED"
    /\ step.at \in {"none", "read", "edr"} => step.spent <= MaxWait
    /\ step.at \in {"why", "address"} => step.spent <= MaxWait + MaxSlow
    /\ step.at = "wait" => step.spent + Poll <= MaxWait
EndFits ==
    /\ ended \in EndedRec
    /\ ended.kind = "negotiate" /\ ended.why = "passed"
         => ended.of \in Contracts /\ ended.state \in NegotiationTerminal /\ neg[ended.of] = ended.state
    /\ ended.kind = "pull" /\ ended.why = "passed"
         => ended.of \in Contracts /\ neg[ended.of] = "FINALIZED" /\ plane[ended.of] # "none"
    /\ ended.kind = "pull" /\ ended.why = "timeout" => ended.state # "TERMINATED"
ReportInv == TokenInv /\ ConnFits /\ StepFits /\ EndFits /\ count \in 0..MaxSteps

\* What the connector settled stays settled.
Stays ==
    \A c \in Contracts : /\ neg[c] \in NegotiationTerminal => neg'[c] = neg[c]
                         /\ plane[c] # "none" => plane'[c] = plane[c]

\* The invariant of the reports holds at the start.
LEMMA InitReport == XInit => ReportInv
  <1> SUFFICES ASSUME XInit PROVE ReportInv
    OBVIOUS
  <1>1. TokenInv
    BY InitToken
  <1>2. ConnFits
    BY DEF XInit, ConnFits
  <1>3. StepFits
    BY DspExchangeAssumption DEF XInit, StepFits, NoStep
  <1>4. EndFits
    BY DEF XInit, EndFits, EndedRec
  <1> QED BY <1>1, <1>2, <1>3, <1>4, DspExchangeAssumption DEF ReportInv, XInit

\* Whatever moves, the connector stays in states of its own, and what is settled stays.
LEMMA ConnectorStep ==
  ASSUME ReportInv, [XNext]_xVars
  PROVE  ConnFits' /\ Stays
  <1>t. Connector /\ plane \in [Contracts -> Planes \cup {"none"}] /\ ConnFits
    BY DEF ReportInv, TokenInv, Shape
  <1>0. CASE UNCHANGED <<neg, xfer, plane>>
    BY <1>t, <1>0 DEF ConnFits, Stays
  <1>1. ASSUME NEW c \in Contracts, Negotiated(c) PROVE ConnFits' /\ Stays
    BY <1>1, <1>t DEF Negotiated, ConnFits, Stays, Connector, NegotiationTerminal
  <1>2. ASSUME NEW c \in Contracts, Transferred(c) PROVE ConnFits' /\ Stays
    BY <1>2, <1>t DEF Transferred, ConnFits, Stays, Connector
  <1>3. ASSUME NEW c \in Contracts, EdrWritten(c) PROVE ConnFits' /\ Stays
    BY <1>3, <1>t DEF EdrWritten, ConnFits, Stays, Connector
  <1>4. ASSUME NEW c \in Contracts, Negotiate(c) PROVE ConnFits' /\ Stays
    BY <1>4, <1>t DEF Negotiate, ConnFits, Stays, Connector, NegotiationTerminal
  <1>5. ASSUME NEW c \in Contracts, Flow(c) PROVE ConnFits' /\ Stays
    <2>1. /\ neg[c] = "none" \/ plane[c] # "none"
          /\ neg' = [neg EXCEPT ![c] = "FINALIZED"] /\ xfer' = [xfer EXCEPT ![c] = "STARTED"]
      BY <1>5 DEF Flow
    <2>2. PICK o \in IF plane[c] = "none" THEN Planes ELSE {plane[c]} : plane' = [plane EXCEPT ![c] = o]
      BY <1>5 DEF Flow
    <2> QED BY <1>t, <2>1, <2>2 DEF ConnFits, Stays, Connector, NegotiationTerminal
  <1>6. CASE Pushed \/ XStepMoves \/ EdrCallFails \/ TurnedDown \/ StartPush \/ StartPull \/ GetEdr \/ FlowFails \/ CallDataplane
    BY <1>0, <1>6 DEF Pushed, XStepMoves, ReadEntity, Slept, AskForEdr, WhyNoEdr, FetchAddress, EdrCallFails, TurnedDown,
                      StartPush, StartPull, GetEdr, FlowFails, CallDataplane, xConnector
  <1>7. CASE UNCHANGED xVars
    BY <1>0, <1>7 DEF xVars
  <1> QED
    BY <1>1, <1>2, <1>3, <1>4, <1>5, <1>6, <1>7 DEF XNext, XConnectorMoves

\* No step is before its start; a step that begins has spent nothing and seen nothing.
LEMMA Begun ==
  /\ NoStep \in Steps /\ NoStep.kind = "none" /\ NoStep.at = "none" /\ NoStep.spent = 0 /\ NoStep.seen = "none" /\ NoStep.of = 0
  /\ \A kind, c, at : LET s == [NoStep EXCEPT !.kind = kind, !.of = c, !.at = at]
                      IN  s.kind = kind /\ s.at = at /\ s.spent = 0 /\ s.seen = "none"
  BY DspExchangeAssumption DEF NoStep, Steps

\* What a step has seen so far stays true through every move.
LEMMA StepStep ==
  ASSUME ReportInv, [XNext]_xVars
  PROVE  StepFits'
  <1> USE DspExchangeAssumption
  <1>t. step \in Steps /\ StepFits /\ Shape /\ Connector
    BY DEF ReportInv, TokenInv, Shape
  <1>0. CASE step' = step
    BY <1>0, <1>t DEF StepFits
  <1>1. ASSUME NEW kind, NEW c, NEW at \in {"read", "edr"}, Starts(kind, c, at) PROVE StepFits'
    <2>1. step'.at \in {"read", "edr"} /\ step'.spent = 0 /\ step'.seen = "none"
      BY <1>1, Begun DEF Starts
    <2> QED BY <2>1 DEF StepFits, NegotiationTerminal
  <1>2. ASSUME NEW why, NEW state, Ends(why, state) PROVE StepFits'
    <2>1. step'.kind = "none" /\ step'.at = "none" /\ step'.spent = 0 /\ step'.seen = "none"
      BY <1>2, Begun DEF Ends
    <2> QED BY <2>1 DEF StepFits
  <1>3. CASE ReadEntity
    <2>1. PICK seen \in {Entity, step.seen}, slow \in Slow : Settle(seen, step.spent + slow)
      BY <1>3 DEF ReadEntity
    <2>2. CASE /\ seen \notin Terminal /\ Again(step.spent + slow)
               /\ step' = [step EXCEPT !.at = "wait", !.seen = seen, !.spent = step.spent + slow]
      <3>1. step'.at = "wait" /\ step'.seen = seen /\ step'.spent = step.spent + slow /\ step'.kind = step.kind
        BY <1>t, <2>2 DEF Steps
      <3>2. step.kind \in {"negotiate", "push"}
        BY <1>3 DEF ReadEntity
      <3>3. step.kind = "negotiate" => Terminal = NegotiationTerminal
        BY DEF Terminal
      <3> QED BY <2>2, <3>1, <3>2, <3>3 DEF StepFits, Again
    <2>3. CASE \E why : Ends(why, seen)
      BY <1>2, <2>3
    <2> QED BY <2>1, <2>2, <2>3 DEF Settle
  <1>4. CASE Slept
    <2>1. step'.kind = step.kind /\ step'.seen = step.seen /\ step'.at \in {"edr", "read"} /\ step'.spent = step.spent + Poll /\ step.at = "wait"
      BY <1>4, <1>t DEF Slept, Steps
    <2> QED BY <1>t, <2>1 DEF StepFits
  <1>5. CASE AskForEdr
    <2>1. PICK slow \in Slow :
            step' = [step EXCEPT !.at = IF plane[step.of] # "none" THEN "address" ELSE "why", !.spent = @ + slow]
      BY <1>5 DEF AskForEdr
    <2>2. step'.kind = step.kind /\ step'.seen = step.seen /\ step'.at \in {"address", "why"} /\ step'.spent = step.spent + slow
      BY <1>t, <2>1 DEF Steps
    <2>3. step.spent <= MaxWait /\ step.spent \in Nat /\ slow \in Nat /\ slow <= MaxSlow
      BY <1>5, <1>t DEF AskForEdr, StepFits, Steps, Slow
    <2>4. step'.spent <= MaxWait + MaxSlow
      BY <2>2, <2>3
    <2> QED BY <1>t, <2>2, <2>4 DEF StepFits
  <1>6. CASE WhyNoEdr
    <2>0. PICK agreed \in {step.agreed, IF neg[step.of] = "FINALIZED" THEN "yes" ELSE step.agreed}, slow \in Slow :
             \E seen \in IF agreed = "yes" THEN {step.seen, xfer[step.of]} ELSE {step.seen} :
                ReadTransfer(agreed, seen, step.spent + slow)
      BY <1>6 DEF WhyNoEdr
    <2>1. PICK seen \in {step.seen, xfer[step.of]} : ReadTransfer(agreed, seen, step.spent + slow)
      BY <2>0
    <2>2. CASE /\ seen # "TERMINATED" /\ Again(step.spent + slow)
               /\ step' = [step EXCEPT !.at = "wait", !.agreed = agreed, !.seen = seen, !.spent = step.spent + slow]
      <3>1. step'.at = "wait" /\ step'.seen = seen /\ step'.spent = step.spent + slow /\ step'.kind = step.kind
        BY <1>t, <2>2 DEF Steps
      <3>2. step.kind = "pull"
        BY <1>6, <1>t DEF WhyNoEdr, Shape
      <3> QED BY <2>2, <3>1, <3>2 DEF StepFits, Again
    <2>3. CASE \E why : Ends(why, seen)
      BY <1>2, <2>3
    <2> QED BY <2>1, <2>2, <2>3 DEF ReadTransfer
  <1>7. CASE FetchAddress \/ EdrCallFails
    BY <1>2, <1>7 DEF FetchAddress, EdrCallFails
  <1>8. CASE StartPush \/ StartPull \/ \E c \in Contracts : Negotiate(c)
    BY <1>1, <1>8 DEF StartPush, StartPull, Negotiate
  <1>9. CASE XConnectorMoves
    BY <1>0, <1>9 DEF XConnectorMoves, Pushed, Negotiated, Transferred, EdrWritten
  <1>10. CASE TurnedDown \/ GetEdr \/ FlowFails \/ CallDataplane \/ \E c \in Contracts : Flow(c)
    BY <1>0, <1>10 DEF TurnedDown, GetEdr, FlowFails, CallDataplane, Flow
  <1>11. CASE UNCHANGED xVars
    BY <1>0, <1>11 DEF xVars
  <1> QED
    BY <1>3, <1>4, <1>5, <1>6, <1>7, <1>8, <1>9, <1>10, <1>11 DEF XNext, XStepMoves

\* Reports that name what they are about.
LEMMA EndStep ==
  ASSUME ReportInv, [XNext]_xVars, Stays
  PROVE  EndFits'
  <1> USE DspExchangeAssumption
  <1> DEFINE States == {"none", "REQUESTED"} \cup NegotiationTerminal \cup TransferTerminal
  <1>t. /\ step \in Steps /\ StepFits /\ Shape /\ Connector /\ EndFits /\ plane \in [Contracts -> Planes \cup {"none"}]
        /\ var \in Variables /\ ConnFits
    BY DEF ReportInv, TokenInv, Shape
  <1>0. CASE ended' = ended
    BY <1>0, <1>t DEF EndFits, Stays, NegotiationTerminal
  <1>1. ASSUME NEW kind \in {"negotiate", "push", "get_edr", "flow", "call"}, NEW why \in {"passed", "service", "no_id", "origin", "no_endpoint"},
               NEW c \in {0} \cup Contracts, Another(kind, why, c), kind = "negotiate" => why # "passed"
        PROVE  EndFits'
    <2>1. ended' = [kind |-> kind, why |-> why, of |-> c, state |-> "none"]
      BY <1>1 DEF Another
    <2>2. ended' \in EndedRec /\ ended'.kind = kind /\ ended'.why = why
      BY <2>1 DEF EndedRec
    <2> QED BY <1>1, <2>2 DEF EndFits
  <1>2. ASSUME NEW why \in {"passed", "service", "unreadable", "terminated", "timeout"}, NEW state \in States, Ends(why, state),
               step.kind = "negotiate" /\ why = "passed" => state \in NegotiationTerminal /\ neg[step.of] = state,
               step.kind = "pull" /\ why = "passed" => plane[step.of] # "none",
               step.kind = "pull" /\ why = "timeout" => state # "TERMINATED"
        PROVE  EndFits'
    <2>1. ended' = [kind |-> step.kind, why |-> why, of |-> step.of, state |-> state]
      BY <1>2 DEF Ends
    <2>2. step.kind \in {"none", "negotiate", "pull", "push"} /\ step.of \in {0} \cup Contracts
      BY <1>t DEF Steps
    <2>3. ended' \in EndedRec /\ ended'.kind = step.kind /\ ended'.why = why /\ ended'.of = step.of /\ ended'.state = state
      BY <2>1, <2>2 DEF EndedRec
    <2>4. step.kind \in {"negotiate", "pull"} => step.of \in Contracts
      BY <1>t DEF Shape
    <2>5. step.kind = "negotiate" /\ why = "passed" => neg'[step.of] = state
      BY <1>2, <2>4 DEF Stays
    <2>6. step.kind = "pull" /\ why = "passed" => neg'[step.of] = "FINALIZED" /\ plane'[step.of] # "none"
      BY <1>2, <1>t, <2>4 DEF Stays, ConnFits, NegotiationTerminal
    <2> QED BY <1>2, <2>3, <2>4, <2>5, <2>6 DEF EndFits
  <1>3. CASE ReadEntity
    <2>1. PICK seen \in {Entity, step.seen}, slow \in Slow : Settle(seen, step.spent + slow)
      BY <1>3 DEF ReadEntity
    <2>2. step.kind \in {"negotiate", "push"} /\ (step.kind = "negotiate" => step.of \in Contracts)
      BY <1>3, <1>t DEF ReadEntity, Shape
    <2>3. seen \in States
      BY <1>t, <2>1, <2>2 DEF Entity, Connector, Steps
    <2>4. step.kind = "negotiate" /\ seen \in Terminal => seen \in NegotiationTerminal /\ neg[step.of] = seen
      BY <1>t, <2>1 DEF Entity, Terminal, StepFits
    <2>5. CASE Ends("passed", seen) /\ seen \in Terminal
      BY <1>2, <2>2, <2>3, <2>4, <2>5
    <2>6. CASE Ends("unreadable", seen) \/ Ends("timeout", seen)
      BY <1>2, <2>2, <2>3, <2>6
    <2> QED BY <1>0, <2>1, <2>5, <2>6 DEF Settle
  <1>4. CASE WhyNoEdr
    <2>1. PICK agreed \in {step.agreed, IF neg[step.of] = "FINALIZED" THEN "yes" ELSE step.agreed}, slow \in Slow :
             \E seen \in IF agreed = "yes" THEN {step.seen, xfer[step.of]} ELSE {step.seen} :
                ReadTransfer(agreed, seen, step.spent + slow)
      BY <1>4 DEF WhyNoEdr
    <2>2. PICK seen \in {step.seen, xfer[step.of]} : ReadTransfer(agreed, seen, step.spent + slow)
      BY <2>1
    <2>3. step.kind = "pull" /\ step.of \in Contracts
      BY <1>4, <1>t DEF WhyNoEdr, Shape
    <2>4. seen \in States
      BY <1>t, <2>2, <2>3 DEF Connector, Steps, TransferTerminal
    <2>5. CASE Ends("terminated", seen)
      BY <1>2, <2>3, <2>4, <2>5
    <2>6. CASE Ends("timeout", seen) /\ seen # "TERMINATED"
      BY <1>2, <2>3, <2>4, <2>6
    <2> QED BY <1>0, <2>2, <2>5, <2>6 DEF ReadTransfer
  <1>5. CASE FetchAddress
    <2>1. step.kind = "pull" /\ step.of \in Contracts /\ step.at = "address" /\ Ends("passed", xfer[step.of])
      BY <1>5, <1>t DEF FetchAddress, Shape
    <2>2. plane[step.of] # "none"
      BY <2>1 DEF ReportInv, TokenInv
    <2>3. xfer[step.of] \in States
      BY <1>t, <2>1 DEF Connector, TransferTerminal
    <2> QED BY <1>2, <2>1, <2>2, <2>3
  <1>6. CASE EdrCallFails
    BY <1>2, <1>6 DEF EdrCallFails
  <1>7. CASE TurnedDown \/ FlowFails
    BY <1>1, <1>7 DEF TurnedDown, FlowFails
  <1>8. CASE GetEdr
    BY <1>1, <1>8, <1>t DEF GetEdr, Variables
  <1>9. CASE CallDataplane
    <2>1. PICK token \in {var.token, NoToken} : \E why \in {"passed", "origin", "service"} : Another("call", why, token.of)
      BY <1>9 DEF CallDataplane
    <2>2. token.of \in {0} \cup Contracts
      BY <1>t DEF Variables, Tokens, NoToken
    <2> QED BY <1>1, <2>1, <2>2
  <1>10. CASE \E c \in Contracts : Flow(c)
    BY <1>1, <1>10 DEF Flow
  <1>11. CASE XConnectorMoves \/ Slept \/ AskForEdr \/ StartPush \/ StartPull \/ \E c \in Contracts : Negotiate(c)
    BY <1>0, <1>11 DEF XConnectorMoves, Pushed, Negotiated, Transferred, EdrWritten, Slept, AskForEdr, StartPush, StartPull,
                       Negotiate, Starts
  <1>12. CASE UNCHANGED xVars
    BY <1>0, <1>12 DEF xVars
  <1> QED
    BY <1>3, <1>4, <1>5, <1>6, <1>7, <1>8, <1>9, <1>10, <1>11, <1>12 DEF XNext, XStepMoves

\* The number of steps keeps to its bound.
LEMMA CountStep ==
  ASSUME ReportInv, [XNext]_xVars
  PROVE  count' \in 0..MaxSteps
  <1>1. count' = count \/ (count < MaxSteps /\ count' = count + 1)
    BY DEF XNext, XConnectorMoves, XStepMoves, Pushed, Negotiated, Transferred, EdrWritten, ReadEntity, Slept, AskForEdr,
           WhyNoEdr, FetchAddress, EdrCallFails, TurnedDown, StartPush, StartPull, GetEdr, FlowFails, CallDataplane,
           Negotiate, Flow, Starts, Another, xVars
  <1> QED BY <1>1, DspExchangeAssumption DEF ReportInv

\* What a negotiation, a transfer or an EDR step reports is so and stays so, and no interval is
\* slept past the wait of the step: for any number of data planes, negotiations and steps, any
\* wait, interval and slowness of the connector.
THEOREM ReportsAlwaysTrue == XSpec => []ReportedTruly
<1>1. XInit => ReportInv
  BY InitReport
<1>2. ReportInv /\ [XNext]_xVars => ReportInv'
  <2> SUFFICES ASSUME ReportInv, [XNext]_xVars PROVE ReportInv'
    OBVIOUS
  <2>1. TokenInv'
    BY NextToken DEF ReportInv
  <2>2. ConnFits' /\ Stays
    BY ConnectorStep
  <2>3. StepFits' /\ EndFits' /\ count' \in 0..MaxSteps
    BY <2>2, StepStep, EndStep, CountStep
  <2> QED BY <2>1, <2>2, <2>3 DEF ReportInv
<1>3. ReportInv => ReportedTruly
  <2> SUFFICES ASSUME ReportInv PROVE ReportedTruly
    OBVIOUS
  <2>1. step.spent \in Nat /\ step \in Steps /\ StepFits /\ EndFits
    BY DEF ReportInv, TokenInv, Shape, Steps
  <2>2. step.spent <= MaxWait + MaxSlow
    BY <2>1, DspExchangeAssumption DEF StepFits, Steps
  <2>3. step.spent \in 0..(MaxWait + 3 * MaxSlow)
    BY <2>1, <2>2, DspExchangeAssumption
  <2>4. XTypeOK
    BY <2>1, <2>3 DEF XTypeOK, ReportInv, TokenInv, Shape, Connector, Steps, Variables, EndFits
  <2> QED BY <2>1, <2>4 DEF ReportedTruly, StepFits, EndFits
<1> QED
  BY <1>1, <1>2, <1>3, PTL DEF XSpec

-----------------------------------------------------------------------------
(***************************************************************************)
(* What the runs provision.                                                *)
(***************************************************************************)

\* An id of the connector has a first part; scoped to a run, it starts with its prefix.
LEMMA IdsStart ==
  /\ NoId \notin Ids /\ Written \subseteq Ids
  /\ \A r \in Runs, w \in Written : Prefixed(r, w) \in Ids /\ Owns(r, Prefixed(r, w)) /\ w # NoId
  /\ \A r \in Runs : Head(<<r>>) = r /\ Owns(r, <<r>>)
  <1> DEFINE P == Runs \cup Locals
  <1>1. ASSUME NEW w \in Written PROVE w \in Seq(P) /\ w # <<>>
    <2>1. CASE \E l \in Locals : w = <<l>>
      BY <2>1
    <2>2. CASE \E r \in Runs, l \in Locals : w = <<r, l>>
      BY <2>2
    <2> QED BY <2>1, <2>2 DEF Written
  <1>2. ASSUME NEW r \in Runs, NEW w \in Written PROVE Prefixed(r, w) # <<>> /\ Head(Prefixed(r, w)) = r
    <2> HIDE DEF P
    <2>1. w \in Seq(P) /\ <<r>> \in Seq(P) /\ Len(<<r>>) = 1 /\ Len(w) \in Nat
      BY <1>1 DEF P
    <2>2. Prefixed(r, w) \in Seq(P) /\ Len(Prefixed(r, w)) = 1 + Len(w) /\ Prefixed(r, w)[1] = r
      BY <2>1 DEF Prefixed
    <2> QED BY <2>1, <2>2
  <1>3. Written \subseteq Ids /\ \A r \in Runs, w \in Written : Prefixed(r, w) \in Ids
    BY DEF Ids
  <1>4. ASSUME NEW i \in Ids PROVE i # <<>>
    <2>1. CASE i \in Written
      BY <2>1, <1>1
    <2>2. CASE \E r \in Runs, w \in Written : i = Prefixed(r, w)
      BY <2>2, <1>2
    <2> QED BY <2>1, <2>2 DEF Ids
  <1>5. \A r \in Runs : Head(<<r>>) = r /\ <<r>> # <<>>
    OBVIOUS
  <1>6. NoId \notin Ids /\ \A w \in Written : w # NoId
    BY <1>1, <1>4 DEF NoId
  <1>7. \A r \in Runs, w \in Written : Owns(r, Prefixed(r, w))
    BY <1>2 DEF Owns, NoId
  <1>8. \A r \in Runs : Owns(r, <<r>>)
    BY <1>5 DEF Owns, NoId
  <1> QED BY <1>3, <1>5, <1>6, <1>7, <1>8

\* The id of a resource is one of its run, and no id stays none.
LEMMA ResourceIdIs ==
  ASSUME NEW r \in Runs
  PROVE  /\ \A id \in Written : ResourceId(r, id) \in Ids /\ Owns(r, ResourceId(r, id))
         /\ ResourceId(r, NoId) = NoId
  BY IdsStart DEF ResourceId

\* An asset has the prefix of the run that made it, and a definition selects, and is governed,
\* within the prefix of its own.
DefFits(d) ==
    /\ \E c \in d.selector : c.op \in {"=", "like"} /\ Owns(d.by, c.id)
    /\ d.policy = NoId \/ Owns(d.by, d.policy)
ProvInv ==
    /\ PTypeOK
    /\ \A a \in assets : Owns(owner[a], a)
    /\ \A d \in defs : DefFits(d)
    /\ \A r \in Runs : \A a \in fronts[r] : a \in assets /\ key[a] = r

\* The invariant of the resources holds at the start.
LEMMA ProvInit == PInit => ProvInv
  BY ProviderAssumption DEF PInit, ProvInv, PTypeOK

\* An asset with an id of its run keeps the invariant, whether it is new or was there.
LEMMA AssetPut ==
  ASSUME ProvInv, NEW r \in Runs, NEW id \in Ids, Owns(r, id), NEW k \in Runs \cup {"none"}, PutAsset(r, id, k), Asks,
         UNCHANGED <<policies, defs>>, fronts' \in [Runs -> SUBSET Ids],
         \A q \in Runs : \A a \in fronts'[q] : a \in fronts[q] \/ (id \notin assets /\ a = id /\ q = k)
  PROVE  ProvInv'
  <1>1. made' \in 0..MaxMade
    BY ProviderAssumption DEF Asks, ProvInv, PTypeOK
  <1>2. CASE id \in assets
    <2>1. UNCHANGED <<assets, owner, key>>
      BY <1>2 DEF PutAsset
    <2> QED BY <1>1, <1>2, <2>1 DEF ProvInv, PTypeOK, DefFits
  <1>3. CASE id \notin assets
    <2>1. assets' = assets \cup {id} /\ owner' = [owner EXCEPT ![id] = r] /\ key' = [key EXCEPT ![id] = k]
      BY <1>3 DEF PutAsset
    <2>2. owner' \in [Ids -> Runs \cup {"none"}] /\ key' \in [Ids -> Runs \cup {"none"}] /\ assets' \subseteq Ids
      BY <2>1 DEF ProvInv, PTypeOK
    <2>3. /\ owner'[id] = r /\ key'[id] = k /\ \A a \in Ids : a # id => owner'[a] = owner[a] /\ key'[a] = key[a]
      BY <2>1 DEF ProvInv, PTypeOK
    <2>4. \A a \in Ids : owner'[a] # "none" <=> a \in assets'
      BY <2>1, <2>3, ProviderAssumption DEF ProvInv, PTypeOK
    <2>5. PTypeOK'
      BY <1>1, <2>2, <2>4 DEF ProvInv, PTypeOK
    <2>6. \A a \in assets' : Owns(owner'[a], a)
      BY <2>1, <2>3 DEF ProvInv, PTypeOK
    <2>7. \A q \in Runs : \A a \in fronts'[q] : a \in assets' /\ key'[a] = q
      BY <1>3, <2>1, <2>3 DEF ProvInv, PTypeOK
    <2>8. \A d \in defs' : DefFits(d)
      BY DEF ProvInv
    <2> QED BY <2>5, <2>6, <2>7, <2>8 DEF ProvInv, DefFits
  <1> QED BY <1>2, <1>3

\* A definition that selects within the prefix of its run keeps the invariant.
LEMMA DefinitionPut ==
  ASSUME ProvInv, NEW r \in Runs, NEW id \in Ids, NEW s \in SUBSET Criteria, NEW p \in Ids \cup {NoId},
         \E c \in s : c.op \in {"=", "like"} /\ Owns(r, c.id), p = NoId \/ Owns(r, p), Asks,
         PutDefinition([id |-> id, by |-> r, selector |-> s, policy |-> p]), UNCHANGED <<assets, owner, key, policies, fronts>>
  PROVE  ProvInv'
  <1> DEFINE d == [id |-> id, by |-> r, selector |-> s, policy |-> p]
  <1>1. made' \in 0..MaxMade
    BY ProviderAssumption DEF Asks, ProvInv, PTypeOK
  <1>2. d.id = id /\ d.by = r /\ d.selector = s /\ d.policy = p
    OBVIOUS
  <1>3. defs' = defs \/ (defs' = defs \cup {d} /\ \A e \in defs : e.id # d.id)
    BY DEF PutDefinition
  <1> HIDE DEF d
  <1>4. DefFits(d)
    BY <1>2 DEF DefFits
  <1>5. PTypeOK'
    BY <1>1, <1>2, <1>3 DEF ProvInv, PTypeOK
  <1>6. \A e \in defs' : DefFits(e)
    BY <1>3, <1>4 DEF ProvInv
  <1> QED BY <1>5, <1>6 DEF ProvInv, DefFits

\* What a test may ask for, scoped: the namespace of the run is a criterion of its own.
LEMMA ScopedSelects ==
  ASSUME NEW r \in Runs, NEW s \in Selectors
  PROVE  /\ s \in SUBSET Criteria /\ ScopedSelector(r, s) \in SUBSET Criteria
         /\ \E c \in ScopedSelector(r, s) : c.op \in {"=", "like"} /\ Owns(r, c.id)
  <1> DEFINE all == Ids \cup {<<q>> : q \in Runs} \cup {NoId}
             own == [op |-> "like", id |-> <<r>>]
  <1>1. ASSUME NEW c \in s PROVE c \in Criteria /\ (c.op = "=" => c.id \in Written \cup {NoId})
    <2>1. CASE \E i \in Written \cup {NoId} : s = {[op |-> "=", id |-> i]}
      BY <2>1, IdsStart DEF Criteria
    <2>2. CASE s = {[op |-> "other", id |-> NoId]}
      BY <2>2 DEF Criteria
    <2>3. CASE \E q \in Runs : s = {[op |-> "like", id |-> <<q>>]}
      BY <2>3 DEF Criteria
    <2> QED BY <2>1, <2>2, <2>3 DEF Selectors
  <1>2. own \in Criteria /\ own.op = "like" /\ Owns(r, own.id)
    BY IdsStart DEF Criteria
  <1> HIDE DEF own
  <1>3. ASSUME NEW c \in s, c.op = "=" PROVE [c EXCEPT !.id = ResourceId(r, @)] \in Criteria
    <2> DEFINE i == ResourceId(r, c.id)
    <2>1. c \in Criteria /\ c.id \in Written \cup {NoId}
      BY <1>1, <1>3
    <2>2. i \in all
      BY <2>1, ResourceIdIs
    <2> HIDE DEF i
    <2>3. [c EXCEPT !.id = i] \in Criteria
      BY <2>1, <2>2 DEF Criteria
    <2> QED BY <2>3 DEF i
  <1>4. ScopedSelector(r, s) = {IF c.op = "=" THEN [c EXCEPT !.id = ResourceId(r, @)] ELSE c : c \in s} \cup {own}
    BY DEF ScopedSelector, own
  <1> QED BY <1>1, <1>2, <1>3, <1>4

\* Every creation keeps the invariant.
LEMMA ProvNext == ProvInv /\ [PNext]_pVars => ProvInv'
<1> SUFFICES ASSUME ProvInv, [PNext]_pVars PROVE ProvInv'
  OBVIOUS
<1>1. ASSUME NEW r \in Runs, NEW id \in Written, CreateAsset(r, id) PROVE ProvInv'
  <2> DEFINE i == ResourceId(r, id)
  <2>1. i \in Ids /\ Owns(r, i)
    BY ResourceIdIs
  <2>2. PutAsset(r, i, "none") /\ Asks /\ UNCHANGED <<policies, defs>> /\ fronts' = fronts
    BY <1>1 DEF CreateAsset
  <2> HIDE DEF i
  <2>3. fronts' \in [Runs -> SUBSET Ids]
    BY <2>2 DEF ProvInv, PTypeOK
  <2>4. \A q \in Runs : \A a \in fronts'[q] : a \in fronts[q] \/ (i \notin assets /\ a = i /\ q = "none")
    BY <2>2
  <2> QED BY <2>1, <2>2, <2>3, <2>4, AssetPut
<1>2. ASSUME NEW r \in Runs, NEW id \in Written, CreateMockAsset(r, id) PROVE ProvInv'
  <2> DEFINE i == ResourceId(r, id)
  <2>1. i \in Ids /\ Owns(r, i)
    BY ResourceIdIs
  <2>2. /\ PutAsset(r, i, r) /\ Asks /\ UNCHANGED <<policies, defs>>
        /\ fronts' = IF i \in assets THEN fronts ELSE [fronts EXCEPT ![r] = @ \cup {i}]
    BY <1>2 DEF CreateMockAsset
  <2> HIDE DEF i
  <2>3. fronts' \in [Runs -> SUBSET Ids]
    BY <2>1, <2>2 DEF ProvInv, PTypeOK
  <2>4. \A q \in Runs : \A a \in fronts'[q] : a \in fronts[q] \/ (i \notin assets /\ a = i /\ q = r)
    BY <2>2 DEF ProvInv, PTypeOK
  <2> QED BY <2>1, <2>2, <2>3, <2>4, AssetPut
<1>3. ASSUME NEW r \in Runs, NEW id \in Written, RawAsset(r, id) PROVE ProvInv'
  <2>1. id \in Ids /\ Owns(r, id)
    BY <1>3, IdsStart DEF RawAsset
  <2>2. PutAsset(r, id, "none") /\ Asks /\ UNCHANGED <<policies, defs>> /\ fronts' = fronts
    BY <1>3 DEF RawAsset
  <2>3. fronts' \in [Runs -> SUBSET Ids]
    BY <2>2 DEF ProvInv, PTypeOK
  <2>4. \A q \in Runs : \A a \in fronts'[q] : a \in fronts[q] \/ (id \notin assets /\ a = id /\ q = "none")
    BY <2>2
  <2> QED BY <2>1, <2>2, <2>3, <2>4, AssetPut
<1>4. ASSUME NEW r \in Runs, NEW id \in Written, CreatePolicy(r, id) \/ RawPolicy(r, id) PROVE ProvInv'
  <2>1. /\ Asks /\ UNCHANGED <<assets, owner, key, defs, fronts>>
        /\ \E i \in Ids : policies' = policies \cup {i}
    BY <1>4, IdsStart, ResourceIdIs DEF CreatePolicy, RawPolicy
  <2>2. made' \in 0..MaxMade
    BY <2>1, ProviderAssumption DEF Asks, ProvInv, PTypeOK
  <2> QED BY <2>1, <2>2 DEF ProvInv, PTypeOK, DefFits
<1>5. ASSUME NEW r \in Runs, NEW id \in Written, NEW selector \in Selectors, NEW policy \in Written \cup {NoId},
             CreateContractDefinition(r, id, selector, policy)
      PROVE  ProvInv'
  <2> DEFINE i == ResourceId(r, id)
             s == ScopedSelector(r, selector)
             p == ResourceId(r, policy)
  <2>1. i \in Ids /\ p \in Ids \cup {NoId} /\ (p = NoId \/ Owns(r, p))
    BY ResourceIdIs
  <2>2. s \in SUBSET Criteria /\ \E c \in s : c.op \in {"=", "like"} /\ Owns(r, c.id)
    BY ScopedSelects
  <2>3. /\ Asks /\ PutDefinition([id |-> i, by |-> r, selector |-> s, policy |-> p])
        /\ UNCHANGED <<assets, owner, key, policies, fronts>>
    BY <1>5 DEF CreateContractDefinition
  <2> HIDE DEF i, s, p
  <2> QED BY <2>1, <2>2, <2>3, DefinitionPut
<1>6. ASSUME NEW r \in Runs, NEW id \in Written, NEW selector \in Selectors, NEW policy \in Written \cup {NoId},
             RawDefinition(r, id, selector, policy)
      PROVE  ProvInv'
  <2>1. id \in Ids /\ policy \in Ids \cup {NoId} /\ (policy = NoId \/ Owns(r, policy))
    BY <1>6, IdsStart DEF RawDefinition, RequireResourceNamespace
  <2>2. selector \in SUBSET Criteria /\ \E c \in selector : c.op \in {"=", "like"} /\ Owns(r, c.id)
    BY <1>6, ScopedSelects DEF RawDefinition, RequireResourceNamespace
  <2>3. /\ Asks /\ PutDefinition([id |-> id, by |-> r, selector |-> selector, policy |-> policy])
        /\ UNCHANGED <<assets, owner, key, policies, fronts>>
    BY <1>6 DEF RawDefinition
  <2> QED BY <2>1, <2>2, <2>3, DefinitionPut
<1>7. ASSUME NEW id \in Ids, DeleteAsset(id) PROVE ProvInv'
  <2>1. /\ assets' = assets \ {id} /\ UNCHANGED <<policies, defs, made>>
        /\ owner' = [owner EXCEPT ![id] = "none"] /\ key' = [key EXCEPT ![id] = "none"]
        /\ fronts' = [r \in Runs |-> fronts[r] \ {id}]
    BY <1>7 DEF DeleteAsset
  <2>2. /\ owner' \in [Ids -> Runs \cup {"none"}] /\ key' \in [Ids -> Runs \cup {"none"}]
        /\ owner'[id] = "none" /\ \A a \in Ids : a # id => owner'[a] = owner[a] /\ key'[a] = key[a]
        /\ fronts' \in [Runs -> SUBSET Ids] /\ assets' \subseteq Ids
    BY <2>1 DEF ProvInv, PTypeOK
  <2>3. PTypeOK'
    BY <2>1, <2>2 DEF ProvInv, PTypeOK
  <2>4. (\A a \in assets' : Owns(owner'[a], a)) /\ \A r \in Runs : \A a \in fronts'[r] : a \in assets' /\ key'[a] = r
    BY <2>1, <2>2 DEF ProvInv, PTypeOK
  <2> QED BY <2>1, <2>3, <2>4 DEF ProvInv, DefFits
<1>8. ASSUME NEW id \in Ids, DeletePolicy(id) PROVE ProvInv'
  BY <1>8 DEF DeletePolicy, ProvInv, PTypeOK, DefFits
<1>9. ASSUME NEW id \in Ids, DeleteDefinition(id) PROVE ProvInv'
  BY <1>9 DEF DeleteDefinition, ProvInv, PTypeOK, DefFits
<1>10. CASE UNCHANGED pVars
  BY <1>10 DEF pVars, ProvInv, PTypeOK, DefFits
<1> QED
  BY <1>1, <1>2, <1>3, <1>4, <1>5, <1>6, <1>7, <1>8, <1>9, <1>10 DEF PNext

\* A definition that selects within a namespace offers nothing outside of it.
LEMMA OfferedIsOwn ==
  ASSUME ProvInv, NEW d \in defs
  PROVE  /\ \A a \in Offered(d) : owner[a] = d.by
         /\ d.policy \in policies => Owns(d.by, d.policy)
  <1>1. PICK c \in d.selector : c.op \in {"=", "like"} /\ Owns(d.by, c.id)
    BY DEF ProvInv, DefFits
  <1>2. ASSUME NEW a \in Offered(d) PROVE owner[a] = d.by
    <2>1. a \in assets /\ Satisfies(a, c) /\ Owns(owner[a], a)
      BY <1>1 DEF Offered, ProvInv
    <2>2. Owns(d.by, a)
      BY <1>1, <2>1 DEF Satisfies, Owns
    <2> QED BY <2>1, <2>2 DEF Owns
  <1>3. d.policy \in policies => Owns(d.by, d.policy)
    BY IdsStart DEF ProvInv, PTypeOK, DefFits
  <1> QED BY <1>2, <1>3

\* A contract definition offers and governs what its own run made and nothing else, and an
\* asset a run was told fronts its mock forwards its key: for any runs and any ids they are
\* written with, whatever is created, posted raw and deleted in which order.
THEOREM OffersStayOwn == PSpec => []OffersOwnAssets
<1>1. PInit => ProvInv
  BY ProvInit
<1>2. ProvInv /\ [PNext]_pVars => ProvInv'
  BY ProvNext
<1>3. ProvInv => OffersOwnAssets
  BY OfferedIsOwn DEF ProvInv, OffersOwnAssets
<1> QED
  BY <1>1, <1>2, <1>3, PTL DEF PSpec

-----------------------------------------------------------------------------
(***************************************************************************)
(* The retirement of an asset's agreements.                                *)
(***************************************************************************)

\* While a retirement turns the pages, what it has collected is what the rows of the pages
\* behind it hold of its asset, and those rows are there to stay; once it retires, nothing
\* that was signed before it began is missing from what it has left and what it did.
QueryFits ==
    walk.at = "query" =>
        /\ walk.did = {} /\ walk.page * PageSize <= Len(Rows)
        /\ \A q \in 1..(walk.page * PageSize) : signed[Rows[q]] = walk.asset => Rows[q] \in walk.ids
RetireFits ==
    walk.at = "retire" =>
        /\ \A i \in 1..walk.known : signed[i] = walk.asset => i \in walk.ids \cup walk.did
        /\ walk.status = "204" => walk.did \subseteq retired
WalkFits == \A i \in walk.ids \cup walk.did : signed[i] = walk.asset
AnswerFits ==
    /\ answer.status = "204" /\ answer.error = "none" =>
          \A i \in 1..answer.known : signed[i] = answer.asset => i \in retired
    /\ answer.error = "query" => answer.did = {}
    /\ \A i \in answer.did : signed[i] = answer.asset
RetInv == RTypeOK /\ QueryFits /\ RetireFits /\ WalkFits /\ AnswerFits

\* The rows are the agreements the query answers, and all of them.
LEMMA RowsAre ==
  ASSUME RTypeOK
  PROVE  /\ Rows \in Seq(Agreements) /\ Len(Rows) \in Nat
         /\ \A q \in 1..Len(Rows) : Rows[q] \in Agreements
         /\ \A i \in Answered : \E q \in 1..Len(Rows) : Rows[q] = i
  <1> DEFINE all == [i \in Agreements |-> i]
  <1>1. Len(signed) \in Nat
    BY DEF RTypeOK
  <1>2. all \in Seq(Agreements) /\ Len(all) = Len(signed) /\ \A i \in Agreements : all[i] = i
    BY <1>1 DEF Agreements
  <1>3. Answered \subseteq Agreements
    BY DEF Answered
  <1>4. Rows = Filter(all, Answered)
    BY DEF Rows
  <1> HIDE DEF all
  <1>5. Rows \in Seq(Agreements) /\ \E g : KeptFrom(Rows, all, Answered, Len(all), g)
    BY <1>2, <1>4, FilterFacts
  <1>6. PICK g : KeptFrom(Rows, all, Answered, Len(all), g)
    BY <1>5
  <1>7. ASSUME NEW i \in Answered PROVE \E q \in 1..Len(Rows) : Rows[q] = i
    <2>1. i \in 1..Len(all) /\ all[i] = i
      BY <1>2, <1>3 DEF Agreements
    <2>2. PICK q \in 1..Len(Rows) : g[q] = i
      BY <2>1, <1>6 DEF KeptFrom
    <2> QED BY <2>1, <2>2, <1>6 DEF KeptFrom
  <1> QED BY <1>5, <1>7

RowsCounted == Len(Rows) \in Nat
\* How many rows a query has is a number.
LEMMA RowsCount == RTypeOK => RowsCounted
  BY RowsAre DEF RowsCounted

\* An agreement signed meanwhile comes after every row there is.
LEMMA RowsSign ==
  ASSUME RTypeOK, NEW a \in Assets, signed' = Append(signed, a), walk' = walk
  PROVE  Rows' = Rows \/ Rows' = Append(Rows, Len(signed) + 1)
  <1> DEFINE n == Len(signed)
             all == [i \in Agreements |-> i]
             more == [i \in 1..(n + 1) |-> i]
             T == 1..(n + 1)
             S == Answered'
  <1>1. n \in Nat /\ Len(signed') = n + 1 /\ \A i \in 1..n : signed'[i] = signed[i]
    BY DEF RTypeOK
  <1>2. all \in Seq(T) /\ Len(all) = n /\ (\A i \in 1..n : all[i] = i) /\ n + 1 \in T
    BY <1>1 DEF Agreements
  <1>3. more = Append(all, n + 1)
    BY <1>1, <1>2
  <1>4. Rows' = Filter(more, S)
    BY <1>1 DEF Rows, Agreements
  <1>5. Rows = Filter(all, Answered)
    BY DEF Rows
  <1>6. \A i \in 1..n : i \in Answered <=> i \in S
    BY <1>1 DEF Answered, Agreements
  <1> HIDE DEF all, more, S, T, n
  <1>7. \A i \in 1..Len(all) : all[i] \in Answered <=> all[i] \in S
    BY <1>2, <1>6
  <1>8. Filter(all, Answered) = Filter(all, S)
    BY <1>2, <1>7, FilterAgrees
  <1>9. Filter(Append(all, n + 1), S) = IF n + 1 \in S THEN Append(Filter(all, S), n + 1) ELSE Filter(all, S)
    BY ZenonT(60), <1>2, FilterAppend
  <1>10. Rows' = Rows \/ Rows' = Append(Rows, n + 1)
    BY <1>3, <1>4, <1>5, <1>8, <1>9
  <1> QED BY <1>10 DEF n

\* The page a query answers is the rows from its place on, as many as it holds.
LEMMA PageIs ==
  ASSUME RTypeOK, walk.page * PageSize <= Len(Rows)
  PROVE  /\ walk.page * PageSize \in Nat /\ (walk.page + 1) * PageSize = walk.page * PageSize + PageSize
         /\ Len(Page) < PageSize => Len(Page) = Len(Rows) - walk.page * PageSize
         /\ ~(Len(Page) < PageSize) => Len(Page) = PageSize /\ (walk.page + 1) * PageSize <= Len(Rows)
         /\ \A k \in 1..Len(Page) : Rows[walk.page * PageSize + k] \in ToSet(Page)
         /\ ToSet(Page) \subseteq Agreements
  <1> DEFINE lo == walk.page * PageSize
             hi == (walk.page + 1) * PageSize
             end == IF Len(Rows) < hi THEN Len(Rows) ELSE hi
  <1>1. PageSize \in Nat \ {0} /\ walk.page \in Nat
    BY RetirementAssumption DEF RTypeOK, WalkRec
  <1>2. lo \in Nat /\ hi = lo + PageSize
    BY <1>1
  <1>3. Page = SubSeq(Rows, lo + 1, end) /\ lo <= Len(Rows)
    BY DEF Page
  <1> HIDE DEF lo, hi
  <1>4. Rows \in Seq(Agreements) /\ Len(Rows) \in Nat /\ \A q \in 1..Len(Rows) : Rows[q] \in Agreements
    BY RowsAre
  <1>5. end \in Nat /\ lo <= end /\ end <= Len(Rows) /\ end <= hi /\ (end = Len(Rows) \/ end = hi)
    BY <1>1, <1>2, <1>3, <1>4
  <1> HIDE DEF end
  <1>6. /\ Page \in Seq(Agreements) /\ Len(Page) = end - lo
        /\ \A k \in 1..(end - lo) : Page[k] = Rows[lo + k] /\ Page[k] \in Agreements
    BY <1>2, <1>3, <1>4, <1>5
  <1>7. \A k \in 1..Len(Page) : Rows[lo + k] \in ToSet(Page)
    BY <1>6 DEF ToSet
  <1>8. ToSet(Page) \subseteq Agreements
    BY <1>6 DEF ToSet
  <1>9. /\ Len(Page) < PageSize => Len(Page) = Len(Rows) - lo
        /\ ~(Len(Page) < PageSize) => Len(Page) = PageSize /\ hi <= Len(Rows)
    BY <1>1, <1>2, <1>4, <1>5, <1>6
  <1> QED BY <1>2, <1>7, <1>8, <1>9 DEF lo, hi

\* The record of no walk, field by field.
LEMMA NoWalkIs ==
  ASSUME Len(signed) \in Nat
  PROVE  /\ NoWalk \in WalkRec /\ NoWalk.at = "none" /\ NoWalk.asset = "none" /\ NoWalk.known = 0 /\ NoWalk.page = 0
         /\ NoWalk.filtered = "yes" /\ NoWalk.status = "204" /\ NoWalk.ids = {} /\ NoWalk.did = {}
  <1>1. ASSUME NEW e, e \subseteq Agreements
        PROVE  [at |-> "none", asset |-> "none", known |-> 0, filtered |-> "yes", page |-> 0,
                ids |-> e, did |-> e, status |-> "204"] \in WalkRec
    BY <1>1, RetirementAssumption DEF WalkRec, Statuses
  <1> QED BY <1>1 DEF NoWalk

\* The invariant of the walks holds at the start.
LEMMA RetInit == RInit => RetInv
  <1> SUFFICES ASSUME RInit PROVE RetInv
    OBVIOUS
  <1>1. signed = <<>> /\ retired = {} /\ walk = NoWalk /\ walks = 0
    BY DEF RInit
  <1>2. Len(signed) = 0 /\ signed \in Seq(Assets)
    BY <1>1
  <1>3. walk \in WalkRec /\ walk.at = "none" /\ walk.ids = {} /\ walk.did = {}
    BY <1>1, <1>2, NoWalkIs
  <1>4. answer \in AnswerRec /\ answer.status = "failed" /\ answer.error = "none" /\ answer.did = {}
    <2>1. ASSUME NEW e, e \subseteq Agreements
          PROVE  [asset |-> "none", known |-> 0, status |-> "failed", error |-> "none", did |-> e] \in AnswerRec
      BY <2>1, <1>2 DEF AnswerRec, Statuses
    <2> QED BY <2>1 DEF RInit
  <1>5. RTypeOK
    BY <1>1, <1>2, <1>3, <1>4, RetirementAssumption DEF RTypeOK
  <1> QED BY <1>3, <1>4, <1>5 DEF RetInv, QueryFits, RetireFits, WalkFits, AnswerFits

\* A step that ends answers for what it did; what it answers is the invariant's affair.
LEMMA AnswersFit ==
  ASSUME RetInv, NEW status \in Statuses, NEW error \in {"none", "query"},
         Answers(status, error), UNCHANGED <<signed, retired, walks>>,
         error = "query" => walk.at = "query",
         error = "none" /\ status = "204" => walk.at = "retire" /\ walk.status = "204" /\ walk.ids = {}
  PROVE  RetInv'
  <1>1. walk' = NoWalk /\ Len(signed) \in Nat /\ Agreements' = Agreements /\ WalkRec' = WalkRec /\ AnswerRec' = AnswerRec
    BY DEF Answers, RetInv, RTypeOK, Agreements, WalkRec, AnswerRec
  <1>2. walk' \in WalkRec /\ walk'.at = "none" /\ walk'.ids = {} /\ walk'.did = {}
    BY <1>1, NoWalkIs
  <1>3. walk.asset \in Assets \cup {"none"} /\ walk.known \in 0..Len(signed) /\ walk.did \in SUBSET Agreements
    BY DEF RetInv, RTypeOK, WalkRec
  <1>4. answer' = [asset |-> walk.asset, known |-> walk.known, status |-> status, error |-> error, did |-> walk.did]
    BY DEF Answers
  <1>5. answer' \in AnswerRec /\ answer'.asset = walk.asset /\ answer'.known = walk.known /\ answer'.status = status /\ answer'.error = error /\ answer'.did = walk.did
    BY <1>3, <1>4 DEF AnswerRec
  <1>6. RTypeOK'
    BY <1>1, <1>2, <1>5 DEF RetInv, RTypeOK
  <1>7. AnswerFits'
    BY <1>5 DEF RetInv, AnswerFits, WalkFits, RetireFits, QueryFits
  <1> QED BY <1>2, <1>6, <1>7 DEF RetInv, QueryFits, RetireFits, WalkFits

\* An agreement signed while a walk reads its pages keeps the invariant.
LEMMA SignFits ==
  ASSUME RetInv, NEW a \in Assets, Sign(a)
  PROVE  RetInv'
  <1> DEFINE n == Len(signed)
  <1>1. n < MaxAgreements /\ signed' = Append(signed, a) /\ UNCHANGED <<retired, walk, walks, answer>>
    BY DEF Sign
  <1>2. n \in Nat /\ signed' \in Seq(Assets) /\ Len(signed') = n + 1 /\ \A i \in 1..n : signed'[i] = signed[i]
    BY <1>1 DEF RetInv, RTypeOK
  <1>3. n + 1 <= MaxAgreements
    BY <1>1, <1>2, RetirementAssumption
  <1>4. Agreements = 1..n /\ Agreements' = 1..(n + 1)
    BY <1>2 DEF Agreements
  <1> HIDE DEF n
  <1>5. Agreements \subseteq Agreements' /\ 0..n \subseteq 0..(n + 1)
    BY <1>2, <1>4
  <1>6. walk' \in WalkRec'
    BY <1>1, <1>2, <1>5 DEF RetInv, RTypeOK, WalkRec, n
  <1>7. answer' \in AnswerRec'
    BY <1>1, <1>2, <1>5 DEF RetInv, RTypeOK, AnswerRec, n
  <1>8. RTypeOK'
    BY <1>1, <1>2, <1>3, <1>5, <1>6, <1>7 DEF RetInv, RTypeOK
  <1>9. /\ walk.known \in 0..n /\ walk.ids \subseteq 1..n /\ walk.did \subseteq 1..n
        /\ answer.known \in 0..n /\ answer.did \subseteq 1..n
    BY <1>4 DEF RetInv, RTypeOK, WalkRec, AnswerRec, n
  <1>10. RetireFits' /\ WalkFits' /\ AnswerFits'
    BY <1>1, <1>2, <1>9 DEF RetInv, RetireFits, WalkFits, AnswerFits
  <1>11. QueryFits'
    <2> SUFFICES ASSUME walk.at = "query"
                 PROVE  /\ walk.did = {} /\ walk.page * PageSize <= Len(Rows')
                        /\ \A q \in 1..(walk.page * PageSize) : signed'[Rows'[q]] = walk.asset => Rows'[q] \in walk.ids
      BY <1>1 DEF QueryFits
    <2> DEFINE lo == walk.page * PageSize
    <2>1. Rows' = Rows \/ Rows' = Append(Rows, n + 1)
      BY <1>1, RowsSign DEF RetInv, n
    <2>2. Rows \in Seq(Agreements) /\ Len(Rows) \in Nat /\ \A q \in 1..Len(Rows) : Rows[q] \in 1..n
      BY <1>4, RowsAre DEF RetInv
    <2>3. lo \in Nat /\ walk.did = {} /\ lo <= Len(Rows) /\ \A q \in 1..lo : signed[Rows[q]] = walk.asset => Rows[q] \in walk.ids
      BY RetirementAssumption DEF RetInv, QueryFits, RTypeOK, WalkRec
    <2> HIDE DEF lo
    <2>4. Len(Rows) <= Len(Rows') /\ Len(Rows') \in Nat /\ \A q \in 1..Len(Rows) : Rows'[q] = Rows[q]
      BY <2>1, <2>2
    <2>5. lo <= Len(Rows') /\ \A q \in 1..lo : signed'[Rows'[q]] = walk.asset => Rows'[q] \in walk.ids
      BY <1>2, <2>2, <2>3, <2>4
    <2> QED BY <2>3, <2>5 DEF lo
  <1> QED BY <1>8, <1>10, <1>11 DEF RetInv

\* The start of a walk keeps the invariant.
LEMMA StartFits ==
  ASSUME RetInv, NEW a \in Assets, StartWalk(a)
  PROVE  RetInv'
  <1>1. PICK filtered \in {"yes", "no"} :
           walk' = [NoWalk EXCEPT !.at = "query", !.asset = a, !.known = Len(signed), !.filtered = filtered]
    BY DEF StartWalk
  <1>2. walks < MaxWalks /\ walks' = walks + 1 /\ UNCHANGED <<signed, retired, answer>>
    BY DEF StartWalk
  <1>3. Len(signed) \in Nat /\ Agreements' = Agreements /\ WalkRec' = WalkRec /\ AnswerRec' = AnswerRec
    BY <1>2 DEF RetInv, RTypeOK, Agreements, WalkRec, AnswerRec
  <1>4. NoWalk \in WalkRec /\ NoWalk.page = 0 /\ NoWalk.ids = {} /\ NoWalk.did = {}
    BY <1>3, NoWalkIs
  <1>5. /\ walk' \in WalkRec /\ walk'.at = "query" /\ walk'.page = NoWalk.page /\ walk'.ids = NoWalk.ids /\ walk'.did = NoWalk.did
    <2>1. Len(signed) \in 0..Len(signed)
      BY <1>3
    <2>2. ASSUME NEW w \in WalkRec, NEW k \in 0..Len(signed)
          PROVE  LET v == [w EXCEPT !.at = "query", !.asset = a, !.known = k, !.filtered = filtered]
                 IN  v \in WalkRec /\ v.at = "query" /\ v.page = w.page /\ v.ids = w.ids /\ v.did = w.did
      BY DEF WalkRec
    <2> QED BY <1>1, <1>4, <2>1, <2>2
  <1>6. walk'.page = 0 /\ walk'.ids = {} /\ walk'.did = {}
    BY <1>4, <1>5
  <1>7. walks' \in 0..MaxWalks
    BY <1>2, RetirementAssumption DEF RetInv, RTypeOK
  <1>8. RTypeOK'
    BY <1>2, <1>3, <1>5, <1>7 DEF RetInv, RTypeOK
  <1>9. Len(Rows') \in Nat
    <2>1. RowsCounted'
      BY <1>8, RowsCount, PTL
    <2> QED BY <2>1 DEF RowsCounted
  <1>10. walk'.page * PageSize = 0
    BY <1>6, RetirementAssumption
  <1>11. QueryFits'
    BY <1>6, <1>9, <1>10 DEF QueryFits
  <1>12. AnswerFits'
    BY <1>2 DEF RetInv, AnswerFits
  <1> QED BY <1>5, <1>6, <1>8, <1>11, <1>12 DEF RetInv, RetireFits, WalkFits

\* A page turned is a page collected, and the last one completes the inventory.
LEMMA QueryPageFits ==
  ASSUME RetInv, QueryPage
  PROVE  RetInv'
  <1> DEFINE lo == walk.page * PageSize
             ids == walk.ids \cup Matching(Page)
  <1>1. walk.at = "query" /\ UNCHANGED <<signed, retired, walks>> /\ RTypeOK
    BY DEF QueryPage, RetInv
  <1>2. /\ walk.did = {} /\ lo <= Len(Rows)
        /\ \A q \in 1..lo : signed[Rows[q]] = walk.asset => Rows[q] \in walk.ids
    BY <1>1 DEF RetInv, QueryFits
  <1>3. /\ lo \in Nat /\ (walk.page + 1) * PageSize = lo + PageSize
        /\ Len(Page) < PageSize => Len(Page) = Len(Rows) - lo
        /\ ~(Len(Page) < PageSize) => Len(Page) = PageSize /\ (walk.page + 1) * PageSize <= Len(Rows)
        /\ \A k \in 1..Len(Page) : Rows[lo + k] \in ToSet(Page)
        /\ ToSet(Page) \subseteq Agreements
    BY <1>1, <1>2, PageIs
  <1>4. /\ Rows \in Seq(Agreements) /\ Len(Rows) \in Nat
        /\ \A i \in Answered : \E q \in 1..Len(Rows) : Rows[q] = i
    BY <1>1, RowsAre
  <1>5. /\ Len(signed) \in Nat /\ Agreements' = Agreements /\ WalkRec' = WalkRec /\ AnswerRec' = AnswerRec
    BY <1>1 DEF RTypeOK, Agreements, WalkRec, AnswerRec
  <1>6. ids \subseteq Agreements /\ \A i \in ids : signed[i] = walk.asset
    BY <1>3 DEF Matching, RetInv, RTypeOK, WalkRec, WalkFits
  <1>7. \A q \in 1..(lo + Len(Page)) : signed[Rows[q]] = walk.asset => Rows[q] \in ids
    <2> SUFFICES ASSUME NEW q \in 1..(lo + Len(Page)), signed[Rows[q]] = walk.asset PROVE Rows[q] \in ids
      OBVIOUS
    <2> HIDE DEF lo
    <2>1. Len(Page) \in Nat
      BY <1>2, <1>3, <1>4, RetirementAssumption
    <2>2. CASE q <= lo
      BY <1>2, <1>3, <2>1, <2>2
    <2>3. CASE ~(q <= lo)
      <3>1. q - lo \in 1..Len(Page) /\ lo + (q - lo) = q
        BY <1>3, <2>1, <2>3
      <3>2. Rows[q] \in ToSet(Page)
        BY <1>3, <3>1
      <3> QED BY <3>2 DEF Matching
    <2> QED BY <2>2, <2>3
  <1>8. /\ \/ Len(Page) < PageSize /\ walk' = [walk EXCEPT !.ids = ids, !.at = "retire"] /\ UNCHANGED answer
           \/ ~(Len(Page) < PageSize) /\ walk.page + 1 < MaxPages /\ walk' = [walk EXCEPT !.ids = ids, !.page = @ + 1] /\ UNCHANGED answer
           \/ Answers("failed", "query")
    BY DEF QueryPage
  <1> HIDE DEF ids
  <1>9. CASE Len(Page) < PageSize /\ walk' = [walk EXCEPT !.ids = ids, !.at = "retire"] /\ UNCHANGED answer
    <2>1. /\ walk' \in WalkRec /\ walk'.at = "retire" /\ walk'.ids = ids /\ walk'.did = walk.did /\ walk'.known = walk.known
          /\ walk'.asset = walk.asset /\ walk'.status = walk.status
      BY <1>6, <1>9 DEF RetInv, RTypeOK, WalkRec
    <2>2. RTypeOK'
      BY <1>1, <1>5, <1>9, <2>1 DEF RTypeOK
    <2>3. ASSUME NEW i \in 1..walk.known, signed[i] = walk.asset PROVE i \in ids
      <3>1. i \in Answered
        BY <2>3, <1>5 DEF Answered, Agreements, RetInv, RTypeOK, WalkRec
      <3>2. PICK q \in 1..Len(Rows) : Rows[q] = i
        BY <1>4, <3>1
      <3> HIDE DEF lo
      <3>3. lo + Len(Page) = Len(Rows)
        BY <1>3, <1>4, <1>9
      <3> QED BY <1>7, <2>3, <3>2, <3>3
    <2>4. RetireFits'
      BY <1>1, <1>2, <2>1, <2>3 DEF RetireFits
    <2>5. WalkFits' /\ AnswerFits' /\ QueryFits'
      BY <1>1, <1>2, <1>6, <1>9, <2>1 DEF WalkFits, QueryFits, AnswerFits, RetInv
    <2> QED BY <2>2, <2>4, <2>5 DEF RetInv
  <1>10. CASE ~(Len(Page) < PageSize) /\ walk.page + 1 < MaxPages /\ walk' = [walk EXCEPT !.ids = ids, !.page = @ + 1] /\ UNCHANGED answer
    <2>0. walk.page + 1 \in 0..(MaxPages - 1)
      BY <1>10, <1>1, RetirementAssumption DEF RTypeOK, WalkRec
    <2>1. /\ walk' \in WalkRec /\ walk'.at = "query" /\ walk'.ids = ids /\ walk'.did = walk.did /\ walk'.page = walk.page + 1
          /\ walk'.asset = walk.asset /\ walk'.filtered = walk.filtered
      BY <1>1, <1>6, <1>10, <2>0 DEF RTypeOK, WalkRec
    <2>2. RTypeOK'
      BY <1>1, <1>5, <1>10, <2>1 DEF RTypeOK
    <2>3. Rows' = Rows
      BY <1>1, <2>1 DEF Rows, Answered, Agreements
    <2>4. walk'.page * PageSize = lo + Len(Page) /\ lo + Len(Page) <= Len(Rows)
      BY <1>3, <1>10, <2>1
    <2>5. QueryFits'
      BY <1>1, <1>2, <1>7, <2>1, <2>3, <2>4 DEF QueryFits
    <2>6. WalkFits' /\ AnswerFits' /\ RetireFits'
      BY <1>1, <1>2, <1>6, <1>10, <2>1 DEF WalkFits, RetireFits, AnswerFits, RetInv
    <2> QED BY <2>2, <2>5, <2>6 DEF RetInv
  <1>11. CASE Answers("failed", "query")
    <2>1. "failed" \in Statuses
      BY DEF Statuses
    <2> QED BY <1>1, <1>11, <2>1, AnswersFit
  <1> QED BY <1>8, <1>9, <1>10, <1>11

\* The retirement of one agreement keeps the invariant.
LEMMA RetireNextFits ==
  ASSUME RetInv, RetireNext
  PROVE  RetInv'
  <1> DEFINE i == CHOOSE i \in walk.ids : \A j \in walk.ids : i <= j
  <1>1. walk.at = "retire" /\ walk.ids # {} /\ UNCHANGED <<signed, walks, answer>> /\ RTypeOK
    BY DEF RetireNext, RetInv
  <1>2. PICK outcome \in Statuses :
          /\ retired' \in {retired \cup {i}} \cup IF outcome = "204" THEN {} ELSE {retired}
          /\ walk' = [walk EXCEPT !.ids = @ \ {i}, !.did = @ \cup {i}, !.status = StatusAfter(outcome)]
    BY DEF RetireNext
  <1>3. i \in walk.ids
    <2>1. walk.ids \subseteq Nat
      BY <1>1 DEF RTypeOK, WalkRec, Agreements
    <2>2. \E x \in walk.ids : \A y \in walk.ids : x <= y
      BY <1>1, <2>1, LeastNatural
    <2> QED BY <2>2
  <1> HIDE DEF i
  <1>4. i \in Agreements /\ signed[i] = walk.asset
    BY <1>1, <1>3 DEF RTypeOK, WalkRec, RetInv, WalkFits
  <1>5. /\ StatusAfter(outcome) \in Statuses
        /\ StatusAfter(outcome) = "204" => walk.status = "204" /\ outcome = "204"
    BY <1>1 DEF StatusAfter, RTypeOK, WalkRec
  <1>6. retired \subseteq retired' /\ retired' \subseteq retired \cup {i} /\ (outcome = "204" => i \in retired')
    BY <1>2
  <1>7. /\ walk' \in WalkRec /\ walk'.at = "retire" /\ walk'.ids = walk.ids \ {i} /\ walk'.did = walk.did \cup {i}
        /\ walk'.status = StatusAfter(outcome) /\ walk'.known = walk.known /\ walk'.asset = walk.asset
    BY <1>1, <1>2, <1>4, <1>5 DEF RTypeOK, WalkRec
  <1>8. Agreements' = Agreements /\ WalkRec' = WalkRec /\ AnswerRec' = AnswerRec
    BY <1>1 DEF Agreements, WalkRec, AnswerRec
  <1>9. RTypeOK'
    BY <1>1, <1>4, <1>6, <1>7, <1>8 DEF RTypeOK
  <1>10. RetireFits'
    BY <1>1, <1>5, <1>6, <1>7 DEF RetInv, RetireFits
  <1>11. WalkFits' /\ QueryFits' /\ AnswerFits'
    BY <1>1, <1>4, <1>6, <1>7 DEF RetInv, WalkFits, QueryFits, AnswerFits
  <1> QED BY <1>9, <1>10, <1>11 DEF RetInv

\* Every step keeps the invariant of the walks.
LEMMA RetNext == RetInv /\ [RNext]_rVars => RetInv'
<1> SUFFICES ASSUME RetInv, [RNext]_rVars PROVE RetInv'
  OBVIOUS
<1>1. ASSUME NEW a \in Assets, Sign(a) \/ StartWalk(a) PROVE RetInv'
  BY <1>1, SignFits, StartFits
<1>2. ASSUME NEW i \in Agreements, RetireOne(i) PROVE RetInv'
  <2>1. walk.at = "none" /\ walks < MaxWalks /\ walks' = walks + 1 /\ retired' \in {retired, retired \cup {i}} /\ UNCHANGED <<signed, walk, answer>>
    BY <1>2 DEF RetireOne
  <2>2. walks' \in 0..MaxWalks /\ retired' \subseteq Agreements /\ retired \subseteq retired'
    BY <2>1, RetirementAssumption DEF RetInv, RTypeOK
  <2>3. Agreements' = Agreements /\ WalkRec' = WalkRec /\ AnswerRec' = AnswerRec
    BY <2>1 DEF Agreements, WalkRec, AnswerRec
  <2>4. RTypeOK'
    BY <2>1, <2>2, <2>3 DEF RetInv, RTypeOK
  <2> QED BY <2>1, <2>2, <2>4 DEF RetInv, QueryFits, RetireFits, WalkFits, AnswerFits
<1>3. CASE QueryPage
  BY <1>3, QueryPageFits
<1>4. CASE RetireNext
  BY <1>4, RetireNextFits
<1>5. CASE WalkDone
  <2>1. walk.at = "retire" /\ walk.ids = {} /\ Answers(walk.status, "none") /\ UNCHANGED <<signed, retired, walks>> /\ walk.status \in Statuses
    BY <1>5 DEF WalkDone, RetInv, RTypeOK, WalkRec
  <2> QED BY <2>1, AnswersFit
<1>6. CASE QueryFails
  <2>1. PICK status \in Statuses : Answers(status, "query") /\ UNCHANGED <<signed, retired, walks>> /\ walk.at = "query"
    BY <1>6 DEF QueryFails
  <2> QED BY <2>1, AnswersFit
<1>7. CASE UNCHANGED rVars
  <2>1. UNCHANGED <<signed, retired, walk, walks, answer>>
    BY <1>7 DEF rVars
  <2>2. Agreements' = Agreements /\ WalkRec' = WalkRec /\ AnswerRec' = AnswerRec /\ Rows' = Rows
    BY <2>1 DEF Agreements, WalkRec, AnswerRec, Rows, Answered
  <2> QED BY <2>1, <2>2 DEF RetInv, RTypeOK, QueryFits, RetireFits, WalkFits, AnswerFits
<1> QED
  BY <1>1, <1>2, <1>3, <1>4, <1>5, <1>6, <1>7 DEF RNext, RStepMoves

\* A retirement that reports 204 and no error has retired every agreement of its asset that
\* was signed before it began, and none of another asset; one whose inventory failed has
\* retired none, whatever its status: for any page size and page limit, any number
\* of agreements signed while the pages are turned, and any call refused or unanswered.
THEOREM RetiredWhenDone == RSpec => []DoneMeansRetired
<1>1. RInit => RetInv
  BY RetInit
<1>2. RetInv /\ [RNext]_rVars => RetInv'
  BY RetNext
<1>3. RetInv => DoneMeansRetired
  BY DEF RetInv, DoneMeansRetired, AnswerFits, WalkFits, QueryFits
<1> QED
  BY <1>1, <1>2, <1>3, PTL DEF RSpec

(***************************************************************************)
(* What the twin steps tell of a registry.                                 *)
(***************************************************************************)
Submodels == {SubmodelDocument(u, v) : u \in Urls, v \in {"value", "submodel"}}
Descriptors == [id : ShellIds, links : SUBSET Links, subs : SUBSET Submodels]
Lookups == [kind : {"none", "byQuery", "byLink"}, want : SUBSET Links, ids : Seq(ShellIds),
            left : Seq(ShellIds), docs : Seq(Descriptors), cursor : {0}]
Walks == [at : Nat \ {0}, ids : Seq(ShellIds), still : {"yes", "no"}]

\* The documents are those of some of the first n ids, in their order.
Chosen(docs, ids, n, at) ==
    /\ at \in [1..Len(docs) -> 1..n]
    /\ \A j, k \in 1..Len(docs) : j < k => at[j] < at[k]
    /\ \A k \in 1..Len(docs) : docs[k].id = ids[at[k]]

\* A lookup has read the first ids and has the rest of them left.
LookupFits(q) ==
    /\ q \in Lookups
    /\ \E n \in 0..Len(q.ids) :
          /\ Len(q.left) = Len(q.ids) - n /\ \A k \in 1..Len(q.left) : q.left[k] = q.ids[n + k]
          /\ \E at : Chosen(q.docs, q.ids, n, at)

\* A walk that nobody disturbed has listed what comes before its cursor; the mock, which
\* gives everything at once, never hands out one.
ListingFits(w, host, ds) ==
    /\ w \in Walks /\ host \in {"mock", "sut"}
    /\ host = "mock" => w.at = 1
    /\ w.still = "yes" /\ w.at # 1 =>
          w.at <= Len(ds) /\ w.ids = IdsOf(SubSeq(ds, 1, w.at - 1))

\* The ids of a sequence of descriptors.
LEMMA IdsAre ==
  ASSUME NEW ds \in Seq(Descriptors)
  PROVE  /\ IdsOf(ds) \in Seq(ShellIds) /\ Len(IdsOf(ds)) = Len(ds)
         /\ \A k \in 1..Len(ds) : IdsOf(ds)[k] = ds[k].id
  <1>1. DOMAIN ds = 1..Len(ds) /\ Len(ds) \in Nat /\ \A k \in 1..Len(ds) : ds[k] \in Descriptors
    OBVIOUS
  <1>2. \A k \in 1..Len(ds) : ds[k].id \in ShellIds
    BY <1>1 DEF Descriptors
  <1>3. IdsOf(ds) = [k \in 1..Len(ds) |-> ds[k].id]
    BY <1>1, Zenon DEF IdsOf
  <1>4. IdsOf(ds) \in [1..Len(ds) -> ShellIds]
    BY <1>2, <1>3
  <1>5. IdsOf(ds) \in Seq(ShellIds) /\ Len(IdsOf(ds)) = Len(ds)
    BY <1>1, <1>4
  <1> QED BY <1>3, <1>5

\* The ids that are listed.
LEMMA ListedIs ==
  ASSUME NEW ds \in Seq(Descriptors), NEW i
  PROVE  i \in ToSet(IdsOf(ds)) <=> \E k \in 1..Len(ds) : ds[k].id = i
  <1>1. DOMAIN IdsOf(ds) = 1..Len(ds)
    BY IdsAre
  <1> QED BY <1>1, IdsAre DEF ToSet

\* The lesser of two numbers.
LEMMA LesserOf ==
  ASSUME NEW a \in Nat, NEW b \in Nat
  PROVE  Min({a, b}) \in {a, b} /\ Min({a, b}) <= a /\ Min({a, b}) <= b
  <1>1. \E x \in {a, b} : \A y \in {a, b} : x <= y
    <2>1. CASE a <= b
      BY <2>1
    <2>2. CASE ~(a <= b)
      BY <2>2
    <2> QED BY <2>1, <2>2
  <1>2. Min({a, b}) \in {a, b} /\ \A y \in {a, b} : Min({a, b}) <= y
    BY <1>1, Zenon DEF Min
  <1> QED BY <1>2

\* A descriptor that is added, whoever adds it.
LEMMA AddFits ==
  ASSUME NEW ds \in Seq(Descriptors), NEW i \in ShellIds, NEW ls \in SUBSET Links
  PROVE  /\ Append(ds, Shell(i, ls)) \in Seq(Descriptors)
         /\ ToSet(IdsOf(Append(ds, Shell(i, ls)))) = ToSet(IdsOf(ds)) \cup {i}
  <1> DEFINE d == Shell(i, ls)
  <1>1. d \in Descriptors /\ d.id = i
    BY DEF Shell, Descriptors
  <1> HIDE DEF d
  <1> DEFINE u == Append(ds, d)
  <1>2. /\ u \in Seq(Descriptors) /\ Len(u) = Len(ds) + 1 /\ u[Len(ds) + 1] = d /\ Len(ds) \in Nat
        /\ \A k \in 1..Len(ds) : u[k] = ds[k]
    BY <1>1
  <1> HIDE DEF u
  <1>3. \A x : (\E k \in 1..Len(u) : u[k].id = x) <=> (x = i \/ \E k \in 1..Len(ds) : ds[k].id = x)
    <2>1. \A k \in 1..Len(u) : k = Len(ds) + 1 \/ k \in 1..Len(ds)
      BY <1>2
    <2>2. \A k \in 1..Len(ds) : k \in 1..Len(u)
      BY <1>2
    <2>3. Len(ds) + 1 \in 1..Len(u)
      BY <1>2
    <2> QED BY <1>1, <1>2, <2>1, <2>2, <2>3
  <1>4. ToSet(IdsOf(u)) = ToSet(IdsOf(ds)) \cup {i}
    BY <1>2, <1>3, ListedIs
  <1> QED BY <1>2, <1>4 DEF u, d

\* What a deletion leaves.
LEMMA OthersFit ==
  ASSUME shells \in Seq(Descriptors), NEW i
  PROVE  Others(i) \in Seq(Descriptors) /\ Listed \ {i} \subseteq ToSet(IdsOf(Others(i)))
  <1> DEFINE S == {d \in ToSet(shells) : d.id # i}
             f == Filter(shells, S)
  <1>1. \A k \in 1..Len(shells) : shells[k] \in ToSet(shells)
    BY DEF ToSet
  <1>2. \A k \in 1..Len(shells) : shells[k].id # i => shells[k] \in S
    BY <1>1
  <1>3. f = Others(i)
    BY DEF Others
  <1> HIDE DEF S
  <1>4. f \in Seq(Descriptors) /\ \E g : KeptFrom(f, shells, S, Len(shells), g)
    BY FilterFacts
  <1> HIDE DEF f
  <1>5. PICK g : KeptFrom(f, shells, S, Len(shells), g)
    BY <1>4
  <1>6. ASSUME NEW x \in Listed \ {i} PROVE x \in ToSet(IdsOf(f))
    <2>1. PICK j \in 1..Len(shells) : shells[j].id = x
      BY ListedIs DEF Listed
    <2>2. PICK k \in 1..Len(f) : g[k] = j
      BY <1>2, <1>5, <1>6, <2>1 DEF KeptFrom
    <2>3. f[k] = shells[j]
      BY <1>5, <2>2 DEF KeptFrom
    <2> QED BY <1>4, <2>1, <2>3, ListedIs
  <1> QED BY <1>3, <1>4, <1>6

\* The ids a lookup is answered, and the descriptors of an id.
LEMMA MatchesFit ==
  ASSUME shells \in Seq(Descriptors), NEW want
  PROVE  MockLookup(want) \in Seq(ShellIds)
  <1> DEFINE f == Filter(shells, {d \in ToSet(shells) : Matches(d, want)})
  <1>1. f \in Seq(Descriptors)
    BY FilterFacts
  <1> HIDE DEF f
  <1>2. IdsOf(f) \in Seq(ShellIds)
    BY <1>1, IdsAre
  <1> QED BY <1>2 DEF MockLookup, f
\* What is found under an id is a descriptor with that id.
LEMMA FoundFits ==
  ASSUME shells \in Seq(Descriptors), NEW i, Found(i) # <<>>
  PROVE  Head(Found(i)) \in Descriptors /\ Head(Found(i)).id = i
  <1> DEFINE S == {d \in ToSet(shells) : d.id = i}
             f == Filter(shells, S)
  <1>1. f = Found(i) /\ \A d \in S : d.id = i
    BY DEF Found
  <1> HIDE DEF S
  <1>2. f \in Seq(Descriptors) /\ \E g : KeptFrom(f, shells, S, Len(shells), g)
    BY FilterFacts
  <1> HIDE DEF f
  <1>3. 1 \in 1..Len(f) /\ Head(f) = f[1]
    BY <1>1, <1>2
  <1>4. f[1] \in S /\ f[1] \in Descriptors
    BY <1>2, <1>3 DEF KeptFrom
  <1> QED BY <1>1, <1>3, <1>4

\* The told and the listed: nothing a step was told of is missing.
ToldHolds(t, ds, st) ==
    t \in [shells : SUBSET ShellIds, paths : SUBSET Paths] /\ t.shells \subseteq ToSet(IdsOf(ds)) /\ t.paths \subseteq st
LookupTold(o) ==
    o.kind = "lookup" => o.docs \in Seq(Descriptors) /\ o.ids \in Seq(ShellIds)
                         /\ \E at : Chosen(o.docs, o.ids, Len(o.ids), at)
PageTold(o, w, ds) ==
    o.kind = "page" /\ o.cursor = 0 /\ w.still = "yes" => w.ids = IdsOf(ds)

\* The same of the places that TwinTold speaks of.
LEMMA LookupToldIs ==
  ASSUME LookupTold(out), out.kind = "lookup"
  PROVE  \E at \in [DOMAIN out.docs -> DOMAIN out.ids] :
            /\ \A j, k \in DOMAIN out.docs : j < k => at[j] < at[k]
            /\ \A k \in DOMAIN out.docs : out.docs[k].id = out.ids[at[k]]
  <1> DEFINE docs == out.docs
             ids == out.ids
  <1>1. docs \in Seq(Descriptors) /\ ids \in Seq(ShellIds) /\ \E at : Chosen(docs, ids, Len(ids), at)
    BY DEF LookupTold
  <1> HIDE DEF docs, ids
  <1>2. DOMAIN docs = 1..Len(docs) /\ DOMAIN ids = 1..Len(ids)
    BY <1>1
  <1>3. \E at \in [DOMAIN docs -> DOMAIN ids] :
            /\ \A j, k \in DOMAIN docs : j < k => at[j] < at[k]
            /\ \A k \in DOMAIN docs : docs[k].id = ids[at[k]]
    BY <1>1, <1>2 DEF Chosen
  <1> QED BY <1>3 DEF docs, ids

TwinParts ==
    /\ shells \in Seq(Descriptors) /\ LookupFits(look) /\ ListingFits(page, hosted, shells)
    /\ LookupTold(out) /\ PageTold(out, page, shells) /\ ToldHolds(told, shells, stored)

\* A lookup begins with every id left.
LEMMA LookupStarts ==
  ASSUME NEW kind \in {"none", "byQuery", "byLink"}, NEW want \in SUBSET Links, NEW ids \in Seq(ShellIds)
  PROVE  LookupFits([kind |-> kind, want |-> want, ids |-> ids, left |-> ids, docs |-> <<>>, cursor |-> 0])
  <1> DEFINE e == <<>>
             q == [kind |-> kind, want |-> want, ids |-> ids, left |-> ids, docs |-> e, cursor |-> 0]
  <1>1. e \in Seq(Descriptors) /\ Len(e) = 0 /\ Chosen(e, ids, 0, e)
    BY DEF Chosen
  <1> HIDE DEF e
  <1>2. q \in Lookups /\ q.ids = ids /\ q.left = ids /\ q.docs = e
    BY <1>1 DEF Lookups
  <1> HIDE DEF q
  <1>3. 0 \in 0..Len(q.ids) /\ Len(q.left) = Len(q.ids) - 0 /\ \A k \in 1..Len(q.left) : q.left[k] = q.ids[0 + k]
    BY <1>2
  <1>4. LookupFits(q)
    BY <1>1, <1>2, <1>3 DEF LookupFits
  <1> QED BY <1>4 DEF q, e

\* A read goes on to the next id, with its descriptor or without.
LEMMA LookupReads ==
  ASSUME NEW q, LookupFits(q), q.left # <<>>, NEW yes \in BOOLEAN, NEW d,
         yes => d \in Descriptors /\ d.id = Head(q.left)
  PROVE  LookupFits([q EXCEPT !.left = Tail(@), !.docs = IF yes THEN Append(@, d) ELSE @])
  <1> DEFINE ids == q.ids
             left == q.left
             docs == q.docs
             more == IF yes THEN Append(docs, d) ELSE docs
             w == [q EXCEPT !.left = Tail(@), !.docs = IF yes THEN Append(@, d) ELSE @]
  <1>1. PICK n \in 0..Len(ids) :
          /\ Len(left) = Len(ids) - n /\ \A k \in 1..Len(left) : left[k] = ids[n + k]
          /\ \E at : Chosen(docs, ids, n, at)
    BY DEF LookupFits
  <1>2. PICK at : Chosen(docs, ids, n, at)
    BY <1>1
  <1>3. q \in Lookups
    BY DEF LookupFits
  <1>4. ids \in Seq(ShellIds) /\ left \in Seq(ShellIds) /\ docs \in Seq(Descriptors) /\ left # <<>>
    BY <1>3 DEF Lookups
  <1>5. w = [kind |-> q.kind, want |-> q.want, ids |-> ids, left |-> Tail(left), docs |-> more, cursor |-> q.cursor]
    <2>1. w = [q EXCEPT !.left = Tail(left), !.docs = more]
      OBVIOUS
    <2> HIDE DEF more, w, left
    <2>2. q = [kind |-> q.kind, want |-> q.want, ids |-> q.ids, left |-> q.left, docs |-> q.docs, cursor |-> q.cursor]
      BY <1>3 DEF Lookups
    <2> QED BY <2>1, <2>2
  <1>6. yes => d \in Descriptors /\ d.id = Head(left)
    OBVIOUS
  <1>7. q.kind \in {"none", "byQuery", "byLink"} /\ q.want \in SUBSET Links /\ q.cursor \in {0}
    BY <1>3 DEF Lookups
  <1> HIDE DEF ids, left, docs
  <1>8. /\ Len(left) \in Nat /\ Len(left) > 0 /\ Tail(left) \in Seq(ShellIds) /\ Len(Tail(left)) = Len(left) - 1
        /\ (\A k \in 1..Len(Tail(left)) : Tail(left)[k] = left[k + 1]) /\ Head(left) = left[1]
    BY <1>4
  <1>9. n + 1 \in 0..Len(ids) /\ Head(left) = ids[n + 1]
    BY <1>1, <1>4, <1>8
  <1>10. /\ Len(Tail(left)) = Len(ids) - (n + 1)
         /\ \A k \in 1..Len(Tail(left)) : Tail(left)[k] = ids[(n + 1) + k]
    <2>1. \A k \in 1..Len(Tail(left)) : k + 1 \in 1..Len(left) /\ n + (k + 1) = (n + 1) + k
      BY <1>4, <1>8
    <2> QED BY <1>1, <1>4, <1>8, <2>1
  <1>11. more \in Seq(Descriptors) /\ \E h : Chosen(more, ids, n + 1, h)
    <2>1. CASE ~yes
      <3>1. at \in [1..Len(docs) -> 1..(n + 1)]
        BY <1>2 DEF Chosen
      <3>2. Chosen(docs, ids, n + 1, at)
        BY <1>2, <3>1 DEF Chosen
      <3> QED BY <1>4, <2>1, <3>2
    <2>2. CASE yes
      <3> DEFINE u == Append(docs, d)
                 h == [k \in 1..(Len(docs) + 1) |-> IF k = Len(docs) + 1 THEN n + 1 ELSE at[k]]
      <3>1. /\ u \in Seq(Descriptors) /\ Len(u) = Len(docs) + 1 /\ u[Len(docs) + 1] = d /\ Len(docs) \in Nat
            /\ \A k \in 1..Len(docs) : u[k] = docs[k]
        BY <1>4, <1>6, <2>2
      <3>2. h \in [1..(Len(docs) + 1) -> 1..(n + 1)]
        BY <1>2, <3>1 DEF Chosen
      <3>3. \A j, k \in 1..(Len(docs) + 1) : j < k => h[j] < h[k]
        <4>1. ASSUME NEW j \in 1..(Len(docs) + 1), NEW k \in 1..(Len(docs) + 1), j < k PROVE h[j] < h[k]
          <5>1. j \in 1..Len(docs) /\ h[j] = at[j] /\ at[j] \in 1..n
            BY <1>2, <3>1, <4>1 DEF Chosen
          <5>2. CASE k = Len(docs) + 1
            BY <5>1, <5>2
          <5>3. CASE k # Len(docs) + 1
            <6>1. k \in 1..Len(docs) /\ h[k] = at[k]
              BY <3>1, <5>3
            <6> QED BY <1>2, <4>1, <5>1, <6>1 DEF Chosen
          <5> QED BY <5>2, <5>3
        <4> QED BY <4>1
      <3>4. \A k \in 1..(Len(docs) + 1) : u[k].id = ids[h[k]]
        BY <1>2, <1>6, <1>9, <2>2, <3>1 DEF Chosen
      <3> HIDE DEF u, h
      <3>5. Chosen(u, ids, n + 1, h)
        BY <3>1, <3>2, <3>3, <3>4 DEF Chosen
      <3> QED BY <2>2, <3>1, <3>5 DEF u
    <2> QED BY <2>1, <2>2
  <1> HIDE DEF more, w
  <1>12. w \in Lookups /\ w.ids = ids /\ w.left = Tail(left) /\ w.docs = more
    BY <1>4, <1>5, <1>7, <1>8, <1>11 DEF Lookups
  <1>13. LookupFits(w)
    BY ZenonT(60), <1>9, <1>10, <1>11, <1>12 DEF LookupFits
  <1> QED BY <1>13 DEF w

\* The ids of a beginning and of what follows it are those of the longer beginning.
LEMMA IdsJoin ==
  ASSUME NEW ds \in Seq(Descriptors), NEW lo \in Nat, NEW hi \in Nat, lo <= hi, hi <= Len(ds)
  PROVE  /\ IdsOf(SubSeq(ds, 1, lo)) \o IdsOf(SubSeq(ds, lo + 1, hi)) = IdsOf(SubSeq(ds, 1, hi))
         /\ IdsOf(SubSeq(ds, 1, hi)) \in Seq(ShellIds)
  <1> DEFINE a == SubSeq(ds, 1, lo)
             b == SubSeq(ds, lo + 1, hi)
             c == SubSeq(ds, 1, hi)
  <1>0. Len(ds) \in Nat /\ lo <= Len(ds)
    OBVIOUS
  <1>1. a \in Seq(Descriptors) /\ Len(a) = lo /\ \A k \in 1..lo : a[k] = ds[k]
    BY <1>0, HeadIs
  <1>2. b \in Seq(Descriptors) /\ Len(b) = hi - lo /\ \A k \in 1..(hi - lo) : b[k] = ds[lo + k]
    BY SliceIs
  <1>3. c \in Seq(Descriptors) /\ Len(c) = hi /\ \A k \in 1..hi : c[k] = ds[k]
    BY <1>0, HeadIs
  <1> HIDE DEF a, b, c
  <1> DEFINE i == IdsOf(a)
             j == IdsOf(b)
             k == IdsOf(c)
  <1>4. /\ i \in Seq(ShellIds) /\ Len(i) = lo /\ \A n \in 1..lo : i[n] = ds[n].id
        /\ j \in Seq(ShellIds) /\ Len(j) = hi - lo /\ \A n \in 1..(hi - lo) : j[n] = ds[lo + n].id
        /\ k \in Seq(ShellIds) /\ Len(k) = hi /\ \A n \in 1..hi : k[n] = ds[n].id
    <2>1. i \in Seq(ShellIds) /\ Len(i) = lo /\ \A n \in 1..lo : i[n] = ds[n].id
      BY <1>1, IdsAre
    <2>2. j \in Seq(ShellIds) /\ Len(j) = hi - lo /\ \A n \in 1..(hi - lo) : j[n] = ds[lo + n].id
      BY <1>2, IdsAre
    <2>3. k \in Seq(ShellIds) /\ Len(k) = hi /\ \A n \in 1..hi : k[n] = ds[n].id
      BY <1>3, IdsAre
    <2> QED BY <2>1, <2>2, <2>3
  <1> HIDE DEF i, j, k
  <1>5. /\ i \o j \in Seq(ShellIds) /\ Len(i \o j) = hi
        /\ \A n \in 1..hi : (i \o j)[n] = IF n <= lo THEN i[n] ELSE j[n - lo]
    <2>1. /\ i \o j \in Seq(ShellIds) /\ Len(i \o j) = Len(i) + Len(j)
          /\ \A n \in 1..(Len(i) + Len(j)) : (i \o j)[n] = IF n <= Len(i) THEN i[n] ELSE j[n - Len(i)]
      BY ZenonT(60), <1>4, ConcatProperties
    <2>2. Len(i) = lo /\ Len(i) + Len(j) = hi
      BY <1>4
    <2> QED BY <2>1, <2>2
  <1> DEFINE m == i \o j
  <1> HIDE DEF m
  <1>6. ASSUME NEW n \in 1..hi PROVE m[n] = k[n]
    <2>1. CASE n <= lo
      <3>1. n \in 1..lo
        BY <2>1
      <3>2. m[n] = i[n]
        BY <1>5, <2>1 DEF m
      <3> QED BY <1>4, <3>1, <3>2
    <2>2. CASE ~(n <= lo)
      <3>1. n - lo \in 1..(hi - lo) /\ lo + (n - lo) = n
        BY <2>2
      <3>2. m[n] = j[n - lo]
        BY <1>5, <2>2 DEF m
      <3>3. j[n - lo] = ds[lo + (n - lo)].id
        BY <1>4, <3>1
      <3> QED BY <1>4, <3>1, <3>2, <3>3
    <2> QED BY <2>1, <2>2
  <1>7. m \in Seq(ShellIds) /\ Len(m) = hi /\ Len(k) = hi
    BY <1>4, <1>5 DEF m
  <1>8. m = k
    BY <1>4, <1>6, <1>7
  <1> QED BY <1>4, <1>8 DEF a, b, c, i, j, k, m

\* A beginning of no length, and one of all.
LEMMA IdsEnds ==
  ASSUME NEW ds \in Seq(Descriptors)
  PROVE  IdsOf(SubSeq(ds, 1, 0)) = <<>> /\ SubSeq(ds, 1, Len(ds)) = ds
  <1>0. Len(ds) \in Nat /\ 0 \in Nat /\ 0 <= Len(ds)
    OBVIOUS
  <1> DEFINE a == SubSeq(ds, 1, 0)
             c == SubSeq(ds, 1, Len(ds))
  <1>1. a \in Seq(Descriptors) /\ Len(a) = 0
    BY <1>0, HeadIs
  <1>2. c \in Seq(Descriptors) /\ Len(c) = Len(ds) /\ \A k \in 1..Len(ds) : c[k] = ds[k]
    BY <1>0, HeadIs
  <1> HIDE DEF a, c
  <1>3. IdsOf(a) \in Seq(ShellIds) /\ Len(IdsOf(a)) = 0
    BY <1>1, IdsAre
  <1> DEFINE e == IdsOf(a)
  <1> HIDE DEF e
  <1>4. e = <<>>
    BY <1>3 DEF e
  <1>5. c = ds
    BY <1>2
  <1> QED BY <1>4, <1>5 DEF a, c, e

\* A page is a slice from the cursor on; a cursor is handed out when more is to come, and
\* names what comes next.
LEMMA PageFits ==
  ASSUME shells \in Seq(Descriptors), hosted \in {"mock", "sut"}, NEW at \in Nat \ {0}, NEW limit \in 0..2,
         hosted = "mock" => at = 1
  PROVE  /\ ShellPage(at, limit).docs \in Seq(Descriptors)
         /\ \E e \in 0..Len(shells) :
               /\ ShellPage(at, limit).docs = SubSeq(shells, at, e)
               /\ ShellPage(at, limit).next = IF e < Len(shells) THEN e + 1 ELSE 0
               /\ e < Len(shells) => at <= e /\ hosted = "sut"
               /\ at - 1 <= Len(shells) => at - 1 <= e
  <1>0. Len(shells) \in Nat /\ at + limit - 1 \in Nat
    OBVIOUS
  <1>1. CASE hosted = "mock"
    <2>1. ShellPage(at, limit) = [docs |-> shells, next |-> 0]
      BY <1>1 DEF ShellPage
    <2>2. at = 1 /\ shells = SubSeq(shells, 1, Len(shells)) /\ Len(shells) \in 0..Len(shells)
      BY <1>0, <1>1, IdsEnds
    <2> DEFINE p == ShellPage(at, limit)
    <2>3. p.docs = shells /\ p.next = 0
      BY <2>1
    <2> HIDE DEF p
    <2>4. /\ p.docs = SubSeq(shells, at, Len(shells))
          /\ p.next = IF Len(shells) < Len(shells) THEN Len(shells) + 1 ELSE 0
      BY <1>0, <2>2, <2>3
    <2>5. /\ Len(shells) < Len(shells) => at <= Len(shells) /\ hosted = "sut"
          /\ at - 1 <= Len(shells) => at - 1 <= Len(shells)
      BY <1>0
    <2> QED BY <2>2, <2>3, <2>4, <2>5 DEF p
  <1>2. CASE hosted # "mock"
    <2> DEFINE last == IF limit = 0 THEN Len(shells) ELSE Min({at + limit - 1, Len(shells)})
    <2>1. /\ last \in 0..Len(shells) /\ (last < Len(shells) => at <= last)
          /\ (at - 1 <= Len(shells) => at - 1 <= last)
      <3>1. CASE limit = 0
        BY <1>0, <3>1
      <3>2. CASE limit # 0
        <4>1. /\ last \in {at + limit - 1, Len(shells)} /\ last <= at + limit - 1 /\ last <= Len(shells)
          BY <1>0, <3>2, LesserOf
        <4> HIDE DEF last
        <4> QED BY <1>0, <3>2, <4>1
      <3> QED BY <3>1, <3>2
    <2>2. ShellPage(at, limit) = [docs |-> SubSeq(shells, at, last), next |-> IF last < Len(shells) THEN last + 1 ELSE 0]
      BY <1>2 DEF ShellPage
    <2> HIDE DEF last
    <2>3. SubSeq(shells, at, last) \in Seq(Descriptors)
      <3>1. at \in Int /\ last \in Int /\ \A i \in at..last : shells[i] \in Descriptors
        BY <1>0, <2>1
      <3> QED BY <3>1, SubSeqProperties
    <2> QED BY <1>2, <2>1, <2>2, <2>3
  <1> QED BY <1>1, <1>2

\* One page more of a walk.
LEMMA WalkGoes ==
  ASSUME TwinParts, NEW limit \in 0..2, NEW a \in HttpAnswers, GetShellDescriptors(limit, a)
  PROVE  ListingFits(page', hosted, shells) /\ PageTold(out', page', shells)
  <1> DEFINE p == ShellPage(page.at, limit)
             ids == IdsOf(ResultPage(a, p.docs))
             next == NextCursor(a, p.next)
             before == IF page.at = 1 THEN <<>> ELSE page.ids
  <1>1. /\ out' = [kind |-> "page", ids |-> ids, cursor |-> next]
        /\ page' = [at |-> IF next = 0 THEN 1 ELSE next, ids |-> before \o ids,
                    still |-> IF a = "ok" THEN IF page.at = 1 THEN "yes" ELSE page.still ELSE "no"]
    BY DEF GetShellDescriptors
  <1>2. /\ shells \in Seq(Descriptors) /\ page.at \in Nat \ {0} /\ page.ids \in Seq(ShellIds)
        /\ page.still \in {"yes", "no"} /\ hosted \in {"mock", "sut"} /\ (hosted = "mock" => page.at = 1)
        /\ page.still = "yes" /\ page.at # 1 =>
              page.at <= Len(shells) /\ page.ids = IdsOf(SubSeq(shells, 1, page.at - 1))
    BY DEF TwinParts, ListingFits, Walks
  <1>3. /\ p.docs \in Seq(Descriptors)
        /\ \E e \in 0..Len(shells) :
               /\ p.docs = SubSeq(shells, page.at, e)
               /\ p.next = IF e < Len(shells) THEN e + 1 ELSE 0
               /\ e < Len(shells) => page.at <= e /\ hosted = "sut"
               /\ page.at - 1 <= Len(shells) => page.at - 1 <= e
    BY <1>2, PageFits
  <1> HIDE DEF p
  <1>4. PICK e \in 0..Len(shells) :
               /\ p.docs = SubSeq(shells, page.at, e)
               /\ p.next = IF e < Len(shells) THEN e + 1 ELSE 0
               /\ e < Len(shells) => page.at <= e /\ hosted = "sut"
               /\ page.at - 1 <= Len(shells) => page.at - 1 <= e
    BY <1>3
  <1>5. Len(shells) \in Nat /\ before \in Seq(ShellIds)
    BY <1>2
  <1>6. CASE a # "ok"
    <2> DEFINE none == <<>>
    <2>1. none \in Seq(Descriptors)
      OBVIOUS
    <2>2. ids = IdsOf(none) /\ next = 0
      BY <1>6 DEF ResultPage, NextCursor
    <2> HIDE DEF none, ids, next
    <2>3. ids \in Seq(ShellIds)
      BY <2>1, <2>2, IdsAre
    <2> HIDE DEF before
    <2>4. page' = [at |-> 1, ids |-> before \o ids, still |-> "no"] /\ before \o ids \in Seq(ShellIds)
      BY <1>1, <1>5, <1>6, <2>2, <2>3
    <2>5. page' \in Walks /\ page'.at = 1 /\ page'.still = "no"
      BY <2>4 DEF Walks
    <2> QED BY <1>2, <2>5 DEF ListingFits, PageTold
  <1>7. CASE a = "ok"
    <2>1. ids = IdsOf(p.docs) /\ next = p.next
      BY <1>7 DEF ResultPage, NextCursor
    <2> HIDE DEF ids, next
    <2>2. ids \in Seq(ShellIds)
      BY <1>3, <2>1, IdsAre
    <2>3. (IF next = 0 THEN 1 ELSE next) \in Nat \ {0} /\ (hosted = "mock" => next = 0)
          /\ (next # 0 => next = e + 1 /\ e < Len(shells) /\ e # 0) /\ (next = 0 => e = Len(shells))
      BY <1>2, <1>4, <1>5, <2>1
    <2> DEFINE still == IF page.at = 1 THEN "yes" ELSE page.still
               after == before \o ids
    <2>4. page' = [at |-> IF next = 0 THEN 1 ELSE next, ids |-> after, still |-> still]
      BY <1>1, <1>7
    <2>5. after \in Seq(ShellIds) /\ still \in {"yes", "no"}
      BY <1>2, <1>5, <2>2
    <2>6. still = "yes" => after = IdsOf(SubSeq(shells, 1, e))
      <3> SUFFICES ASSUME still = "yes" PROVE after = IdsOf(SubSeq(shells, 1, e))
        OBVIOUS
      <3>1. before = IdsOf(SubSeq(shells, 1, page.at - 1)) /\ page.at - 1 <= Len(shells)
        <4>1. CASE page.at = 1
          BY <1>2, <1>5, <4>1, IdsEnds
        <4>2. CASE page.at # 1
          BY <1>2, <1>5, <4>2
        <4> QED BY <4>1, <4>2
      <3> DEFINE lo == page.at - 1
      <3>2. lo \in Nat /\ lo <= e /\ lo + 1 = page.at /\ e \in Nat /\ e <= Len(shells)
        BY <1>2, <1>4, <1>5, <3>1
      <3>3. ids = IdsOf(SubSeq(shells, lo + 1, e)) /\ before = IdsOf(SubSeq(shells, 1, lo))
        BY <1>4, <2>1, <3>1, <3>2
      <3> HIDE DEF lo
      <3> QED BY ZenonT(60), <1>2, <3>2, <3>3, IdsJoin
    <2> HIDE DEF still, after
    <2>7. /\ page' \in Walks /\ page'.at = (IF next = 0 THEN 1 ELSE next) /\ page'.ids = after
          /\ page'.still = still
      BY <2>3, <2>4, <2>5 DEF Walks
    <2>8. page'.still = "yes" /\ page'.at # 1 =>
            page'.at <= Len(shells) /\ page'.ids = IdsOf(SubSeq(shells, 1, page'.at - 1))
      <3> SUFFICES ASSUME still = "yes", next # 0
                   PROVE  e + 1 <= Len(shells) /\ after = IdsOf(SubSeq(shells, 1, (e + 1) - 1))
        BY <2>3, <2>7
      <3>1. (e + 1) - 1 = e
        BY <1>4
      <3> QED BY <1>4, <1>5, <2>3, <2>6, <3>1
    <2>9. next = 0 /\ still = "yes" => after = IdsOf(shells)
      BY <1>2, <2>3, <2>6, IdsEnds
    <2>10. out'.cursor = next
      BY <1>1
    <2> QED BY <1>2, <2>3, <2>7, <2>8, <2>9, <2>10 DEF ListingFits, PageTold
  <1> QED BY <1>6, <1>7

\* What the beginnings of a registry list depends on its ids alone.
LEMMA SameIds ==
  ASSUME NEW ds \in Seq(Descriptors), NEW es \in Seq(Descriptors), Len(es) = Len(ds),
         \A k \in 1..Len(ds) : es[k].id = ds[k].id
  PROVE  IdsOf(es) = IdsOf(ds) /\ \A n \in 0..Len(ds) : IdsOf(SubSeq(es, 1, n)) = IdsOf(SubSeq(ds, 1, n))
  <1>1. ASSUME NEW x \in Seq(Descriptors), NEW y \in Seq(Descriptors), Len(x) = Len(y),
               \A k \in 1..Len(x) : x[k].id = y[k].id
        PROVE  IdsOf(x) = IdsOf(y)
    <2> DEFINE i == IdsOf(x)
               j == IdsOf(y)
    <2>1. i \in Seq(ShellIds) /\ Len(i) = Len(x) /\ \A k \in 1..Len(x) : i[k] = x[k].id
      BY IdsAre
    <2>2. j \in Seq(ShellIds) /\ Len(j) = Len(y) /\ \A k \in 1..Len(y) : j[k] = y[k].id
      BY IdsAre
    <2> HIDE DEF i, j
    <2>3. i = j
      BY <1>1, <2>1, <2>2
    <2> QED BY <2>3 DEF i, j
  <1>2. ASSUME NEW n \in 0..Len(ds) PROVE IdsOf(SubSeq(es, 1, n)) = IdsOf(SubSeq(ds, 1, n))
    <2> DEFINE x == SubSeq(es, 1, n)
               y == SubSeq(ds, 1, n)
    <2>1. n \in Nat /\ n <= Len(ds) /\ n <= Len(es)
      OBVIOUS
    <2>2. x \in Seq(Descriptors) /\ Len(x) = n /\ \A k \in 1..n : x[k] = es[k]
      BY <2>1, HeadIs
    <2>3. y \in Seq(Descriptors) /\ Len(y) = n /\ \A k \in 1..n : y[k] = ds[k]
      BY <2>1, HeadIs
    <2> HIDE DEF x, y
    <2>4. \A k \in 1..n : x[k].id = y[k].id
      BY <2>1, <2>2, <2>3
    <2>5. IdsOf(x) = IdsOf(y)
      BY <1>1, <2>2, <2>3, <2>4
    <2> QED BY <2>5 DEF x, y
  <1> QED BY <1>1, <1>2

\* A run starts with nothing looked up, listed or told.
LEMMA TwinStart == TInit => TwinParts
  <1> SUFFICES ASSUME TInit PROVE TwinParts
    OBVIOUS
  <1> USE DEF TInit
  <1> DEFINE i == CHOOSE i \in ShellIds : TRUE
             e == <<>>
  <1>1. i \in ShellIds
    BY TwinAssumption
  <1>2. e \in Seq(Descriptors) /\ e \in Seq(ShellIds)
    OBVIOUS
  <1> HIDE DEF i
  <1>3. Shell(i, Links) \in Descriptors
    BY <1>1 DEF Shell, Descriptors
  <1>4. shells \in Seq(Descriptors)
    <2>1. shells = e \/ shells = <<Shell(i, Links)>>
      BY DEF i
    <2>2. <<Shell(i, Links)>> \in Seq(Descriptors)
      BY <1>3
    <2> QED BY <1>2, <2>1, <2>2
  <1> HIDE DEF e
  <1>5. LookupFits(look)
    <2> DEFINE q == [kind |-> "none", want |-> {}, ids |-> e, left |-> e, docs |-> <<>>, cursor |-> 0]
    <2>1. LookupFits(q)
      BY <1>2, LookupStarts
    <2>2. look = q
      BY DEF Idle, e
    <2> QED BY <2>1, <2>2
  <1>6. ListingFits(page, hosted, shells)
    <2>1. page.at = 1 /\ page \in Walks
      BY <1>2 DEF NoPage, Walks, e
    <2> QED BY <2>1 DEF ListingFits
  <1>7. out.kind = "none" /\ ToldHolds(told, shells, stored)
    BY DEF Nothing, ToldHolds
  <1> QED BY <1>4, <1>5, <1>6, <1>7 DEF TwinParts, LookupTold, PageTold

\* A step that leaves the registry, the lookup and the walk alone, and tells no list.
LEMMA QuietStep ==
  ASSUME TwinParts, UNCHANGED <<hosted, shells, look, page>>, out'.kind \notin {"lookup", "page"},
         ToldHolds(told, shells, stored)'
  PROVE  TwinParts'
  BY DEF TwinParts, LookupTold, PageTold

\* A step that changes the registry: a walk in progress no longer counts.
LEMMA DisturbingStep ==
  ASSUME TwinParts, UNCHANGED <<hosted, look>>, shells' \in Seq(Descriptors),
         page' = [page EXCEPT !.still = "no"], out' = out \/ out'.kind \notin {"lookup", "page"},
         ToldHolds(told, shells, stored)'
  PROVE  TwinParts'
  <1>1. page \in Walks /\ (hosted = "mock" => page.at = 1) /\ hosted \in {"mock", "sut"}
    BY DEF TwinParts, ListingFits
  <1>2. page' \in Walks /\ page'.still = "no" /\ page'.at = page.at
    BY <1>1 DEF Walks
  <1>3. ListingFits(page', hosted', shells')
    BY <1>1, <1>2 DEF ListingFits
  <1>4. PageTold(out', page', shells')
    BY <1>2 DEF PageTold
  <1>5. LookupTold(out')
    BY DEF TwinParts, LookupTold
  <1> QED BY <1>3, <1>4, <1>5 DEF TwinParts

\* The steps on shells that change the registry.
LEMMA ShellsChange ==
  ASSUME TwinParts, NEW i \in ShellIds
  PROVE  /\ \A ls \in SUBSET Links : Register(i, ls) => TwinParts'
         /\ \A ls \in SUBSET Links, refused \in BOOLEAN : CreateShell(i, ls, refused) => TwinParts'
         /\ Withdraw(i) => TwinParts'
         /\ \A r : DeleteShell(i, r) => TwinParts'
  <1>1. shells \in Seq(Descriptors) /\ told.shells \subseteq Listed /\ told.paths \subseteq stored
        /\ told \in [shells : SUBSET ShellIds, paths : SUBSET Paths]
    BY DEF TwinParts, ToldHolds, Listed
  <1>2. Others(i) \in Seq(Descriptors) /\ Listed \ {i} \subseteq ToSet(IdsOf(Others(i)))
    BY <1>1, OthersFit
  <1>3. ASSUME NEW ls \in SUBSET Links, Register(i, ls) PROVE TwinParts'
    <2>1. shells' = Append(shells, Shell(i, ls)) /\ UNCHANGED <<hosted, look, out, told, stored>>
          /\ page' = [page EXCEPT !.still = "no"]
      BY <1>3 DEF Register
    <2>2. shells' \in Seq(Descriptors) /\ ToSet(IdsOf(shells')) = Listed \cup {i}
      BY <1>1, <2>1, AddFits DEF Listed
    <2>3. ToldHolds(told, shells, stored)'
      BY <1>1, <2>1, <2>2 DEF ToldHolds
    <2> QED BY <2>1, <2>2, <2>3, DisturbingStep
  <1>4. ASSUME NEW ls \in SUBSET Links, NEW refused \in BOOLEAN, CreateShell(i, ls, refused) PROVE TwinParts'
    <2>1. /\ shells' = IF refused THEN shells ELSE Append(shells, Shell(i, ls))
          /\ UNCHANGED <<hosted, look, stored>> /\ page' = [page EXCEPT !.still = "no"]
      BY <1>4 DEF CreateShell
    <2>2. \/ ~refused /\ out' = [kind |-> "created", id |-> i] /\ told' = [told EXCEPT !.shells = @ \cup {i}]
          \/ refused /\ out' = Nothing /\ told' = told
      BY <1>4, Zenon DEF CreateShell, Registered
    <2>3. /\ shells' \in Seq(Descriptors)
          /\ ToSet(IdsOf(shells')) = IF refused THEN Listed ELSE Listed \cup {i}
      BY <1>1, <2>1, AddFits DEF Listed
    <2>4. out'.kind \notin {"lookup", "page"}
      BY <2>2 DEF Nothing
    <2>5. told'.shells = (IF refused THEN told.shells ELSE told.shells \cup {i}) /\ told'.paths = told.paths
          /\ told' \in [shells : SUBSET ShellIds, paths : SUBSET Paths]
      BY <1>1, <2>2
    <2>6. ToldHolds(told, shells, stored)'
      BY <1>1, <2>1, <2>3, <2>5 DEF ToldHolds
    <2> QED BY <2>1, <2>3, <2>4, <2>6, DisturbingStep
  <1>5. ASSUME Withdraw(i) PROVE TwinParts'
    <2>1. shells' = Others(i) /\ UNCHANGED <<hosted, look, out, stored>> /\ page' = [page EXCEPT !.still = "no"]
          /\ told' = [told EXCEPT !.shells = @ \ {i}]
      BY <1>5 DEF Withdraw
    <2>2. told'.shells \subseteq Listed \ {i} /\ told'.paths = told.paths
          /\ told' \in [shells : SUBSET ShellIds, paths : SUBSET Paths]
      BY <1>1, <2>1
    <2>3. ToldHolds(told, shells, stored)'
      BY <1>1, <1>2, <2>1, <2>2 DEF ToldHolds
    <2> QED BY <1>2, <2>1, <2>3, DisturbingStep
  <1>6. ASSUME NEW r, DeleteShell(i, r) PROVE TwinParts'
    <2>1. /\ shells' = IF r.nothing = "yes" THEN Others(i) ELSE shells
          /\ UNCHANGED <<hosted, look, stored>> /\ page' = [page EXCEPT !.still = "no"]
          /\ out' = [kind |-> "deleted", id |-> i, status |-> AnsweredStatus(r, 204, 400)]
          /\ told' = IF AnsweredStatus(r, 204, 400) = 204 THEN [told EXCEPT !.shells = @ \ {i}] ELSE told
      BY <1>6 DEF DeleteShell
    <2>2. r.nothing = "yes" => AnsweredStatus(r, 204, 400) = 204
      BY Zenon DEF AnsweredStatus
    <2>3. told'.shells \subseteq (IF r.nothing = "yes" THEN Listed \ {i} ELSE Listed) /\ told'.paths = told.paths
          /\ told' \in [shells : SUBSET ShellIds, paths : SUBSET Paths]
      BY <1>1, <2>1, <2>2
    <2>4. shells' \in Seq(Descriptors) /\ ToldHolds(told, shells, stored)'
      BY SMTT(60), <1>1, <1>2, <2>1, <2>3 DEF ToldHolds, Listed
    <2>5. out'.kind \notin {"lookup", "page"}
      BY <2>1
    <2> QED BY <2>1, <2>4, <2>5, DisturbingStep
  <1> QED BY <1>3, <1>4, <1>5, <1>6

\* A submodel that is attached changes no id, so a walk goes on.
LEMMA SubmodelsChange ==
  ASSUME TwinParts, NEW i \in ShellIds, NEW url \in Urls, NEW v \in {"value", "submodel"},
         NEW refused \in BOOLEAN, CreateSubmodel(i, url, v, refused)
  PROVE  TwinParts'
  <1> DEFINE sub == SubmodelDocument(url, v)
             es == [k \in DOMAIN shells |-> IF shells[k].id = i
                      THEN [shells[k] EXCEPT !.subs = @ \cup {sub}] ELSE shells[k]]
  <1>1. /\ shells' = IF refused THEN shells ELSE es
        /\ UNCHANGED <<hosted, look, page, told, stored>>
        /\ out' = IF Registered(refused) THEN [kind |-> "attached", id |-> i, sub |-> sub] ELSE Nothing
    BY DEF CreateSubmodel
  <1>2. sub \in Submodels
    BY DEF Submodels
  <1>3. out'.kind \notin {"lookup", "page"}
    BY <1>1 DEF Nothing
  <1> HIDE DEF sub
  <1>4. shells \in Seq(Descriptors)
    BY DEF TwinParts
  <1>5. DOMAIN shells = 1..Len(shells) /\ Len(shells) \in Nat /\ \A k \in 1..Len(shells) : shells[k] \in Descriptors
    BY <1>4
  <1>6. \A d \in Descriptors : [d EXCEPT !.subs = @ \cup {sub}] \in Descriptors
                               /\ [d EXCEPT !.subs = @ \cup {sub}].id = d.id
    BY <1>2 DEF Descriptors
  <1>7. es = [k \in 1..Len(shells) |-> IF shells[k].id = i
                THEN [shells[k] EXCEPT !.subs = @ \cup {sub}] ELSE shells[k]]
    BY <1>5
  <1>8. \A k \in 1..Len(shells) : es[k] \in Descriptors /\ es[k].id = shells[k].id
    BY <1>5, <1>6, <1>7
  <1>9. DOMAIN es = 1..Len(shells) /\ es = [k \in 1..Len(shells) |-> es[k]]
    BY <1>7
  <1> HIDE DEF es
  <1>10. es \in [1..Len(shells) -> Descriptors]
    BY <1>8, <1>9
  <1>11. es \in Seq(Descriptors) /\ Len(es) = Len(shells)
    BY <1>5, <1>10
  <1>12. /\ shells' \in Seq(Descriptors) /\ Len(shells') = Len(shells)
         /\ \A k \in 1..Len(shells) : shells'[k].id = shells[k].id
    BY <1>1, <1>4, <1>8, <1>11
  <1>13. IdsOf(shells') = IdsOf(shells)
         /\ \A n \in 0..Len(shells) : IdsOf(SubSeq(shells', 1, n)) = IdsOf(SubSeq(shells, 1, n))
    BY <1>4, <1>12, SameIds
  <1>14. ToldHolds(told, shells, stored)'
    BY <1>1, <1>13 DEF TwinParts, ToldHolds
  <1>15. ListingFits(page', hosted', shells')
    <2>1. ListingFits(page, hosted, shells) /\ page.at \in Nat \ {0}
      BY DEF TwinParts, ListingFits, Walks
    <2>2. page.at <= Len(shells) => page.at - 1 \in 0..Len(shells)
      BY <1>5, <2>1
    <2> QED BY <1>1, <1>12, <1>13, <2>1, <2>2 DEF ListingFits
  <1> QED BY <1>1, <1>3, <1>12, <1>14, <1>15 DEF TwinParts, LookupTold, PageTold

\* The steps on the registry, on what is looked up and on the pages.
LEMMA LookupSteps ==
  ASSUME TwinParts, NEW a \in HttpAnswers
  PROVE  /\ \A kind \in {"byQuery", "byLink"}, want \in Wanted : LookupShells(kind, want, a) => TwinParts'
         /\ ReadDescriptor(a) => TwinParts'
         /\ LookupOutput => TwinParts'
  <1>1. ASSUME NEW kind \in {"byQuery", "byLink"}, NEW want \in Wanted, LookupShells(kind, want, a) PROVE TwinParts'
    <2> DEFINE ids == ResultPage(a, MockLookup(want))
               cur == IF kind = "byLink" THEN NextCursor(a, 0) ELSE 0
    <2>1. /\ look' = [kind |-> kind, want |-> want, ids |-> ids, left |-> ids, docs |-> <<>>, cursor |-> cur]
          /\ out' = Nothing /\ UNCHANGED <<hosted, shells, stored, page, told>>
      BY <1>1 DEF LookupShells
    <2>2. ids \in Seq(ShellIds)
      <3>1. <<>> \in Seq(ShellIds) /\ MockLookup(want) \in Seq(ShellIds)
        BY MatchesFit DEF TwinParts
      <3> QED BY <3>1 DEF ResultPage
    <2>3. cur = 0 /\ want \in SUBSET Links
      BY DEF NextCursor, Wanted
    <2> HIDE DEF ids, cur
    <2>4. LookupFits(look')
      BY <2>1, <2>2, <2>3, LookupStarts
    <2>5. out'.kind = "none"
      BY <2>1 DEF Nothing
    <2> QED BY <2>1, <2>4, <2>5 DEF TwinParts, LookupTold, PageTold, ToldHolds
  <1>2. ASSUME ReadDescriptor(a) PROVE TwinParts'
    <2> DEFINE found == Found(Head(look.left))
               yes == a = "ok" /\ found # <<>>
               d == Head(found)
    <2>1. /\ look.left # <<>>
          /\ look' = [look EXCEPT !.left = Tail(@), !.docs = IF yes THEN Append(@, d) ELSE @]
          /\ UNCHANGED <<hosted, shells, stored, page, out, told>>
      BY <1>2 DEF ReadDescriptor
    <2>2. yes \in BOOLEAN /\ (yes => d \in Descriptors /\ d.id = Head(look.left))
      BY FoundFits DEF TwinParts
    <2> HIDE DEF yes, d
    <2>3. LookupFits(look)
      BY DEF TwinParts
    <2>4. LookupFits(look')
      BY <2>1, <2>2, <2>3, LookupReads
    <2> QED BY <2>1, <2>4 DEF TwinParts, LookupTold, PageTold, ToldHolds
  <1>3. ASSUME LookupOutput PROVE TwinParts'
    <2>1. /\ look.left = <<>>
          /\ out' = [kind |-> "lookup", want |-> look.want, ids |-> look.ids, docs |-> look.docs, cursor |-> look.cursor]
          /\ look' = Idle /\ UNCHANGED <<hosted, shells, stored, page, told>>
      BY <1>3 DEF LookupOutput
    <2> DEFINE ids == look.ids
               docs == look.docs
    <2>2. look \in Lookups /\ ids \in Seq(ShellIds) /\ docs \in Seq(Descriptors)
      BY DEF TwinParts, LookupFits, Lookups
    <2>3. PICK n \in 0..Len(ids) : Len(look.left) = Len(ids) - n /\ \E at : Chosen(docs, ids, n, at)
      BY DEF TwinParts, LookupFits
    <2>4. n = Len(ids)
      <3>1. Len(look.left) = 0
        BY <2>1
      <3>2. Len(ids) \in Nat
        BY <2>2
      <3> QED BY <2>3, <3>1, <3>2
    <2>5. out'.kind = "lookup" /\ out'.docs = docs /\ out'.ids = ids
      BY <2>1
    <2> HIDE DEF ids, docs
    <2>6. LookupTold(out') /\ PageTold(out', page', shells')
      BY <2>2, <2>3, <2>4, <2>5 DEF LookupTold, PageTold
    <2>7. LookupFits(look')
      <3> DEFINE e == <<>>
      <3>1. e \in Seq(ShellIds) /\ {} \in SUBSET Links
        OBVIOUS
      <3> HIDE DEF e
      <3>2. LookupFits([kind |-> "none", want |-> {}, ids |-> e, left |-> e, docs |-> <<>>, cursor |-> 0])
        BY <3>1, LookupStarts
      <3> QED BY <2>1, <3>2 DEF Idle, e
    <2> QED BY <2>1, <2>6, <2>7 DEF TwinParts, ToldHolds
  <1> QED BY <1>1, <1>2, <1>3

\* A page more, a new walk, one descriptor.
LEMMA PageSteps ==
  ASSUME TwinParts, NEW a \in HttpAnswers
  PROVE  /\ \A limit \in 0..2 : GetShellDescriptors(limit, a) => TwinParts'
         /\ RestartWalk => TwinParts'
         /\ \A i \in ShellIds : GetShellDescriptor(i, a) => TwinParts'
         /\ \A i \in ShellIds, r \in Results : GetShell(i, r) => TwinParts'
  <1>0. ToldHolds(told, shells, stored)
    BY DEF TwinParts
  <1>1. ASSUME NEW limit \in 0..2, GetShellDescriptors(limit, a) PROVE TwinParts'
    <2>1. ListingFits(page', hosted, shells) /\ PageTold(out', page', shells)
      BY <1>1, WalkGoes
    <2>2. UNCHANGED <<hosted, shells, stored, look, told>> /\ out'.kind = "page"
      BY <1>1 DEF GetShellDescriptors
    <2> QED BY <2>1, <2>2 DEF TwinParts, LookupTold, ToldHolds
  <1>2. ASSUME RestartWalk PROVE TwinParts'
    <2>1. page' = NoPage /\ out'.kind = "none" /\ UNCHANGED <<hosted, shells, stored, look, told>>
      BY <1>2 DEF RestartWalk, Nothing
    <2>2. page' \in Walks /\ page'.at = 1
      <3>1. <<>> \in Seq(ShellIds)
        OBVIOUS
      <3> QED BY <2>1, <3>1 DEF NoPage, Walks
    <2>3. ListingFits(page', hosted', shells')
      BY <2>1, <2>2 DEF TwinParts, ListingFits
    <2> QED BY <2>1, <2>3 DEF TwinParts, LookupTold, PageTold, ToldHolds
  <1>3. ASSUME NEW i \in ShellIds, GetShellDescriptor(i, a) PROVE TwinParts'
    <2>1. out'.kind = "get" /\ UNCHANGED <<hosted, shells, stored, look, page, told>>
      BY <1>3 DEF GetShellDescriptor
    <2> QED BY <1>0, <2>1, QuietStep
  <1>4. ASSUME NEW i \in ShellIds, NEW r \in Results, GetShell(i, r) PROVE TwinParts'
    <2>1. out'.kind = "read" /\ UNCHANGED <<hosted, shells, stored, look, page, told>>
      BY <1>4 DEF GetShell
    <2> QED BY <1>0, <2>1, QuietStep
  <1> QED BY <1>1, <1>2, <1>3, <1>4

\* The steps on the submodel server.
LEMMA ServerSteps ==
  ASSUME TwinParts, NEW a \in HttpAnswers
  PROVE  /\ \A s \in {"none", "aspect"}, i \in UploadIds : Upload(s, i, a) => TwinParts'
         /\ \A p \in Paths : DeleteData(p, a) => TwinParts'
         /\ NoSubmodelServer => TwinParts'
  <1>0. /\ told \in [shells : SUBSET ShellIds, paths : SUBSET Paths]
        /\ told.shells \subseteq ToSet(IdsOf(shells)) /\ told.paths \subseteq stored
    BY DEF TwinParts, ToldHolds
  <1>1. ASSUME NEW s \in {"none", "aspect"}, NEW i \in UploadIds, Upload(s, i, a) PROVE TwinParts'
    <2> DEFINE path == StoragePath(s, i)
    <2>1. /\ stored' = IF a = "error" THEN stored ELSE stored \cup {path}
          /\ out' = [kind |-> "uploaded", path |-> path, status |-> IF a = "error" THEN 500 ELSE 200]
          /\ told' = IF a = "error" THEN told ELSE [told EXCEPT !.paths = @ \cup {path}]
          /\ UNCHANGED <<hosted, shells, look, page>>
      BY <1>1 DEF Upload
    <2>2. path \in Paths
      BY DEF Paths
    <2> HIDE DEF path
    <2>3. ToldHolds(told, shells, stored)'
      BY <1>0, <2>1, <2>2 DEF ToldHolds
    <2>4. out'.kind = "uploaded"
      BY <2>1
    <2> QED BY <2>1, <2>3, <2>4, QuietStep
  <1>2. ASSUME NEW p \in Paths, DeleteData(p, a) PROVE TwinParts'
    <2>1. /\ stored' = IF a = "error" THEN stored ELSE stored \ {p}
          /\ out' = [kind |-> "removed", path |-> p, status |-> IF a = "error" THEN 500 ELSE 200]
          /\ told' = IF a = "error" THEN told ELSE [told EXCEPT !.paths = @ \ {p}]
          /\ UNCHANGED <<hosted, shells, look, page>>
      BY <1>2 DEF DeleteData
    <2>2. ToldHolds(told, shells, stored)'
      BY <1>0, <2>1 DEF ToldHolds
    <2>3. out'.kind = "removed"
      BY <2>1
    <2> QED BY <2>1, <2>2, <2>3, QuietStep
  <1>3. ASSUME NoSubmodelServer PROVE TwinParts'
    <2>1. out'.kind = "none" /\ UNCHANGED <<hosted, shells, stored, look, page, told>>
      BY <1>3 DEF NoSubmodelServer, Nothing
    <2>2. ToldHolds(told, shells, stored)'
      BY <1>0, <2>1 DEF ToldHolds
    <2> QED BY <2>1, <2>2, QuietStep
  <1> QED BY <1>1, <1>2, <1>3

\* Every step keeps what is told true.
LEMMA TwinStep == TwinParts /\ [TNext]_tVars => TwinParts'
  <1> SUFFICES ASSUME TwinParts, [TNext]_tVars PROVE TwinParts'
    OBVIOUS
  <1>1. CASE UNCHANGED tVars
    BY <1>1 DEF tVars, TwinParts, LookupTold, PageTold, ToldHolds
  <1>2. ASSUME NEW i \in ShellIds, NEW ls \in {Links, {CHOOSE l \in Links : TRUE}},
               Register(i, ls) \/ \E refused \in BOOLEAN : CreateShell(i, ls, refused)
        PROVE TwinParts'
    <2>1. ls \in SUBSET Links
      BY TwinAssumption
    <2> QED BY <1>2, <2>1, ShellsChange
  <1>3. ASSUME NEW i \in ShellIds, Withdraw(i) PROVE TwinParts'
    BY <1>3, ShellsChange
  <1>4. ASSUME NEW i \in ShellIds, NEW r \in Results, GetShell(i, r) \/ DeleteShell(i, r) PROVE TwinParts'
    <2>1. "ok" \in HttpAnswers
      BY DEF HttpAnswers
    <2> QED BY <1>4, <2>1, ShellsChange, PageSteps
  <1>5. ASSUME NEW i \in ShellIds, NEW v \in {"value", "submodel"}, NEW refused \in BOOLEAN, NEW url \in Urls,
               CreateSubmodel(i, url, v, refused)
        PROVE TwinParts'
    BY <1>5, SubmodelsChange
  <1>6. ASSUME NEW a \in HttpAnswers,
               \/ \E kind \in {"byQuery", "byLink"}, want \in Wanted : LookupShells(kind, want, a)
               \/ ReadDescriptor(a)
        PROVE TwinParts'
    BY <1>6, LookupSteps
  <1>7. ASSUME NEW a \in HttpAnswers,
               \/ \E limit \in 0..2 : GetShellDescriptors(limit, a)
               \/ \E i \in ShellIds : GetShellDescriptor(i, a)
        PROVE TwinParts'
    BY <1>7, PageSteps
  <1>8. ASSUME NEW a \in HttpAnswers,
               \/ \E s \in {"none", "aspect"}, i \in UploadIds : Upload(s, i, a)
               \/ \E p \in Paths : DeleteData(p, a)
        PROVE TwinParts'
    BY <1>8, ServerSteps
  <1>9. CASE LookupOutput \/ RestartWalk \/ NoSubmodelServer
    <2>1. "ok" \in HttpAnswers
      BY DEF HttpAnswers
    <2> QED BY <1>9, <2>1, LookupSteps, PageSteps, ServerSteps
  <1> QED BY <1>1, <1>2, <1>3, <1>4, <1>5, <1>6, <1>7, <1>8, <1>9 DEF TNext

\* A lookup publishes descriptors of the shells it lists and of no other, in their order
\* (registry_reading._shell_descriptor leaves out what it cannot read); a walk over the pages
\* that nobody disturbed ends with every shell of the registry listed once; and what a step
\* said it created or uploaded is there until it is deleted.
THEOREM TwinAlwaysTold == TSpec => []TwinTold
  <1>1. TwinParts => TwinTold
    <2> SUFFICES ASSUME TwinParts PROVE TwinTold
      OBVIOUS
    <2>1. LookupTold(out)
      BY DEF TwinParts
    <2>2. out.kind = "lookup" =>
            \E at \in [DOMAIN out.docs -> DOMAIN out.ids] :
               /\ \A j, k \in DOMAIN out.docs : j < k => at[j] < at[k]
               /\ \A k \in DOMAIN out.docs : out.docs[k].id = out.ids[at[k]]
      BY <2>1, LookupToldIs
    <2>3. out.kind = "page" /\ out.cursor = 0 /\ page.still = "yes" => page.ids = IdsOf(shells)
      BY DEF TwinParts, PageTold
    <2>4. told.shells \subseteq Listed /\ told.paths \subseteq stored
      BY DEF TwinParts, ToldHolds, Listed
    <2> QED BY <2>2, <2>3, <2>4 DEF TwinTold
  <1> QED BY <1>1, TwinStart, TwinStep, PTL DEF TSpec
=============================================================================
