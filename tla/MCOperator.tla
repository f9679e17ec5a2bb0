------------------------------ MODULE MCOperator ------------------------------
\* What the operator of a run is shown and asked, one part per behaviour: the checkpoints
\* of a test, and the choices its steps put to them.  The test has a call in its setup, a
\* retried choice between a wait and a loop over a wait, and a call in its teardown.
EXTENDS Checkpoints, SelectionDesk, TLC
VARIABLE part

MCUses ==
    LET call == << <<"setup", 1>> >>
        retry == << <<"execution", 1>> >>
        choice == Append(retry, <<"steps", 1>>)
        loop == Append(choice, <<"else", 1>>)
    IN  (call :> "act") @@ (retry :> "retry") @@ (choice :> "if") @@ (loop :> "each") @@
        (Append(choice, <<"then", 1>>) :> "wait") @@ (Append(loop, <<"steps", 1>>) :> "wait") @@
        (<< <<"teardown", 1>> >> :> "act")
MCPlanned == DOMAIN MCUses \ {<< <<"execution", 1>>, <<"steps", 1>> >>, << <<"setup", 1>> >>}
MCMayMiss == {<< <<"execution", 1>>, <<"steps", 1>>, <<"then", 1>> >>}

\* The other part stands still, in one of its initial states.
OInit ==
    /\ Init /\ SInit /\ part \in {"checkpoints", "choices"}
    /\ part = "checkpoints" => answers = "host"
    /\ part = "choices" => missing = {}
ONext ==
    /\ UNCHANGED part
    /\ \/ part = "checkpoints" /\ Next /\ UNCHANGED sVars
       \/ part = "choices" /\ SNext /\ UNCHANGED vars
OSpec ==
    /\ OInit /\ [][ONext]_<<part, vars, sVars>>
    /\ WF_<<part, vars, sVars>>(part = "choices" /\ SLoop /\ UNCHANGED <<part, vars>>)
    /\ WF_<<part, vars, sVars>>(part = "choices" /\ SThread /\ UNCHANGED <<part, vars>>)
    /\ WF_<<part, vars, sVars>>(part = "choices" /\ Tick /\ UNCHANGED <<part, vars>>)
=============================================================================
