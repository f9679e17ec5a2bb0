-------------------------------- MODULE MCJobs --------------------------------
\* A job and its run, one part of it per behaviour: the pauses of one run, and the
\* requests several tasks make of one session. The job has two definitions, two tests of
\* two-step phases and two pauses; the session three tests, one of them on demand and one
\* skipped by the operator, and three tasks.
EXTENDS RunHold, TckSession
VARIABLE part
jobsVars == <<part, vars, sessionVars>>

JobsInit ==
    /\ Init /\ SessionInit /\ part \in {"hold", "session"}
    /\ part # "hold" => connector = {}
    /\ part # "session" => plain = "yes"
JobsNext ==
    /\ UNCHANGED part
    /\ \/ part = "hold" /\ Next /\ UNCHANGED sessionVars
       \/ part = "session" /\ SessionNext /\ UNCHANGED vars
JobsSpec ==
    /\ JobsInit /\ [][JobsNext]_jobsVars
    /\ WF_jobsVars(part = "hold" /\ Run /\ UNCHANGED <<part, sessionVars>>)
    /\ \A c \in Tasks : WF_jobsVars(part = "session" /\ Serve(c) /\ UNCHANGED <<part, vars>>)
=============================================================================
