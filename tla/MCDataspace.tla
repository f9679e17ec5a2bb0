----------------------------- MODULE MCDataspace ------------------------------
\* The dataspace steps, one part of them per behaviour: the consumer's exchange, the
\* provisioning of two runs on one connector, the retirement of agreements.
EXTENDS DspExchange, ProviderResources, AgreementRetirement
VARIABLE part
vars == <<part, xVars, pVars, rVars>>

Init == XInit /\ PInit /\ RInit /\ part \in {"exchange", "provision", "retire"}
Next ==
    /\ UNCHANGED part
    /\ \/ part = "exchange" /\ XNext /\ UNCHANGED <<pVars, rVars>>
       \/ part = "provision" /\ PNext /\ UNCHANGED <<xVars, rVars>>
       \/ part = "retire" /\ RNext /\ UNCHANGED <<xVars, pVars>>
Spec ==
    /\ Init /\ [][Next]_vars
    /\ WF_vars(part = "exchange" /\ XStepMoves /\ UNCHANGED <<part, pVars, rVars>>)
    /\ WF_vars(part = "retire" /\ RStepMoves /\ UNCHANGED <<part, xVars, pVars>>)

\* Every waiting step ends (poll_until_terminal, await_edr_entry, query_agreements), also when
\* the connector never settles and never answers, or agreements are signed while pages are read.
StepsEnd == StepEnds /\ WalkEnds
=============================================================================
