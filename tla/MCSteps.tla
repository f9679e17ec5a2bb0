-------------------------------- MODULE MCSteps --------------------------------
\* The steps beside the negotiation, one part of them per behaviour: digital twins, the market
\* of offers, dynamic mocks, the invocation of a step, and what its records show.
EXTENDS TwinSteps, MarketSteps, DynamicMock, StepInvoke, Secrets
VARIABLE part
vars == <<part, tVars, mVars, dVars, iVars, sVars>>

P(g) == [groups |-> g, other |-> "x"]
MCPolicies == {P(<<>>), P(<<<<"c1">>>>), P(<<<<"c1", "c2">>, <<"c3">>>>), P(<<<<"c2">>>>), [groups |-> <<<<"c1">>>>, other |-> "y"]}
O(i, p) == [id |-> i, policy |-> p]
MCCatalogs == {<<>>,
  <<[asset |-> "a1", type |-> "t1", offers |-> <<O("o1", P(<<<<"c1">>>>)), O("o1", P(<<<<"c2">>>>))>>]>>,
  <<[asset |-> "a1", type |-> "t1", offers |-> <<O("2", P(<<<<"c1">>>>)), O("", P(<<<<"c1", "c2">>, <<"c3">>>>))>>],
    [asset |-> "a2", type |-> "t2", offers |-> <<>>]>>,
  <<[asset |-> "", type |-> "t1", offers |-> <<O("o1", P(<<>>))>>], [asset |-> "a1", type |-> "t2", offers |-> <<O("o1", P(<<>>))>>],
    [asset |-> "a1", type |-> "t2", offers |-> <<O("o1", P(<<<<"c2">>>>))>>]>>}

Init == TInit /\ MInit /\ DInit /\ IInit /\ SInit /\ part \in {"twins", "market", "mock", "invoke", "secrets"}
        /\ (part # "twins" => hosted = "sut" /\ shells = <<>>) /\ (part # "market" => catalog = <<>>) /\ (part # "invoke" => entries = <<>>)
Next ==
    /\ UNCHANGED part
    /\ \/ part = "twins" /\ TNext /\ UNCHANGED <<mVars, dVars, iVars, sVars>>
       \/ part = "market" /\ MNext /\ UNCHANGED <<tVars, dVars, iVars, sVars>>
       \/ part = "mock" /\ DNext /\ UNCHANGED <<tVars, mVars, iVars, sVars>>
       \/ part = "invoke" /\ INext /\ UNCHANGED <<tVars, mVars, dVars, sVars>>
       \/ part = "secrets" /\ SNext /\ UNCHANGED <<tVars, mVars, dVars, iVars>>
Spec ==
    /\ Init /\ [][Next]_vars
    /\ \A c \in Requests : WF_vars(part = "mock" /\ ProcessTimesOut(c) /\ UNCHANGED <<part, tVars, mVars, iVars, sVars>>)
=============================================================================
