------------------------------ MODULE JobsProofs ------------------------------
(***************************************************************************)
(* A job and its run, proved for any number of definitions, steps, tests,  *)
(* pauses and tasks: what a pause does to the run, and what closing a      *)
(* session tells of the tests it ran.                                      *)
(***************************************************************************)
EXTENDS RunHold, TckSession, SequenceFilterProofs, TLAPS

(***************************************************************************)
(* The pauses of a run.                                                    *)
(***************************************************************************)

\* The strengthening: neither GateMirrorsStatus nor OffersAccounted is
\* inductive without knowing where the run's task is when the job is held.
IInv ==
    /\ TypeOK
    /\ GateMirrorsStatus
    /\ OffersAccounted
    /\ HoldWellFormed

\* The initial states satisfy the strengthening: JobManager.create opens the gate.
LEMMA InitIInv == Init => IInv
  BY RunHoldAssumption DEF Init, IInv, TypeOK, Flags, Books, Progress,
     GateMirrorsStatus, OffersAccounted, HoldWellFormed, JobStatus,
     Places, Terminal

\* pause_point's withdrawal keeps the books: what it could not take down is kept.
LEMMA TakeDownKeeps ==
  ASSUME IInv, TakeDown, held = "no", pc \notin {"close", "done"}
  PROVE  /\ Books' /\ held' = "yes" /\ UNCHANGED <<status, gate, request, offers, created>>
         /\ offers' \cap connector' \subseteq kept'
         /\ offers' \subseteq connector' \cup reported' \cup withdrawn'
         /\ announced' = withdrawn' /\ withdrawn' \subseteq offers'
  <1>1. announced = {}
    BY DEF IInv, OffersAccounted
  <1> QED BY <1>1 DEF IInv, TypeOK, Books, TakeDown, jobVars

\* pause_point's restoration keeps the books: what did not come back is reported.
LEMMA PutBackKeeps ==
  ASSUME IInv, PutBack, held = "yes"
  PROVE  /\ Books' /\ held' = "no" /\ UNCHANGED <<offers, created>>
         /\ offers' \subseteq connector' \cup reported'
         /\ announced' = {}
  BY DEF IInv, TypeOK, Books, PutBack, RestoreOffers, HoldWellFormed

\* The restoration of a hold whose task is cancelled: what did not come back is still
\* one that was reported as withdrawn.
LEMMA PutBackUntoldKeeps ==
  ASSUME IInv, PutBackUntold, held = "yes"
  PROVE  /\ Books' /\ held' = "no" /\ UNCHANGED <<offers, created>>
         /\ offers' \subseteq connector' \cup reported' \cup announced'
  BY DEF IInv, TypeOK, Books, PutBackUntold, RestoreOffers, HoldWellFormed

\* Counting down the steps of a phase stays within 1..MaxSteps.
LEMMA StepEndsTyped ==
  ASSUME TypeOK, NEW ok \in BOOLEAN, StepEnds(ok)
  PROVE  /\ left' \in 1..MaxSteps /\ phase' \in {"main", "teardown"}
         /\ verdict' \in {"COMPLETED", "FAILED"} /\ pc' \in {"gate", "step", "between"}
  BY RunHoldAssumption DEF TypeOK, Flags, Progress, StepEnds

\* What the steps of a test do to the connector keeps every offer accounted for.
LEMMA StepKeepsBooks ==
  ASSUME IInv, held = "no", CreateDefinition \/ DeleteDefinition \/ UNCHANGED dataVars
  PROVE  /\ Books'
         /\ offers' \subseteq connector' \cup reported' \cup announced'
         /\ offers' \subseteq created'
         /\ announced' = announced
  <1>1. CASE CreateDefinition
    BY <1>1 DEF CreateDefinition, IInv, TypeOK, Books, OffersAccounted, HoldWellFormed
  <1>2. CASE DeleteDefinition
    BY <1>2 DEF DeleteDefinition, IInv, TypeOK, Books, OffersAccounted, HoldWellFormed
  <1>3. CASE UNCHANGED dataVars
    BY <1>3 DEF dataVars, IInv, TypeOK, Books, OffersAccounted, HoldWellFormed
  <1> QED BY <1>1, <1>2, <1>3

\* Every step of the host and of the run preserves the strengthening.
LEMMA NextIInv == IInv /\ [Next]_vars => IInv'
  <1> SUFFICES ASSUME IInv, [Next]_vars PROVE IInv'
    OBVIOUS
  <1> USE DEF jobVars, progVars
  <1>1. CASE Pause
    BY <1>1, RunHoldAssumption DEF Pause, dataVars, IInv, TypeOK, Flags, Books, Progress,
       GateMirrorsStatus, OffersAccounted, HoldWellFormed, JobStatus,
       Terminal
  <1>2. CASE Resume
    BY <1>2 DEF Resume, OpenGate, dataVars, IInv, TypeOK, Flags, Books, Progress,
       GateMirrorsStatus, OffersAccounted, HoldWellFormed, JobStatus,
       Places, Terminal
  <1>3. CASE Cancel
    BY <1>3 DEF Cancel, OpenGate, dataVars, IInv, TypeOK, Flags, Books, Progress,
       GateMirrorsStatus, OffersAccounted, HoldWellFormed, JobStatus,
       Places, Terminal
  <1>4. CASE Open \/ OpenRefused \/ Close
    BY <1>4 DEF Open, OpenRefused, Close, dataVars, IInv, TypeOK, Flags, Books, Progress,
       GateMirrorsStatus, OffersAccounted, HoldWellFormed, JobStatus,
       Places, Terminal
  <1>5. CASE GatePasses \/ StopPasses
    BY <1>5 DEF GatePasses, StopPasses, PassBy, PauseRequested, dataVars, IInv, TypeOK,
       Flags, Books, Progress, GateMirrorsStatus, OffersAccounted,
       HoldWellFormed, Places
  <1>6. CASE GateHolds \/ StopHolds
    <2>1. TakeDown /\ pc' = "held" /\ caller' \in {"gate", "wait"}
          /\ UNCHANGED <<progVars, pauses>> /\ pc \in {"gate", "stopping"}
      BY <1>6 DEF GateHolds, StopHolds
    <2>2. held = "no"
      BY <2>1 DEF IInv, HoldWellFormed, TypeOK, Flags
    <2> QED
      BY <2>1, <2>2, TakeDownKeeps DEF IInv, TypeOK, Flags, Progress, GateMirrorsStatus,
         OffersAccounted, HoldWellFormed, Places
  <1>7. CASE Release
    <2>1. PutBack /\ held = "yes" /\ pc = "woken" /\ pc' \in {"step", "wait"}
          /\ UNCHANGED <<status, gate, caller, progVars, pauses>> /\ request' = "clear"
      BY <1>7 DEF Release, IInv, HoldWellFormed
    <2> QED
      BY <2>1, PutBackKeeps DEF IInv, TypeOK, Flags, Progress, GateMirrorsStatus,
         OffersAccounted, HoldWellFormed, Places
  <1>12. CASE InterruptHold
    <2>1. PutBackUntold /\ held = "yes" /\ pc \in {"held", "woken"} /\ pc' = "close"
          /\ verdict' = "FAILED" /\ UNCHANGED <<jobVars, caller, phase, left, tests, pauses>>
      BY <1>12 DEF InterruptHold, IInv, HoldWellFormed
    <2> QED
      BY <2>1, PutBackUntoldKeeps DEF IInv, TypeOK, Flags, Progress, GateMirrorsStatus,
         OffersAccounted, HoldWellFormed, Places
  <1>8. CASE Interrupt \/ StartWait \/ WaitStops
    BY <1>8 DEF Interrupt, StartWait, WaitStops, dataVars, IInv, TypeOK, Flags, Books,
       Progress, GateMirrorsStatus, OffersAccounted, HoldWellFormed,
       Places
  <1>9. CASE StepPasses \/ StepFails \/ WaitAnswered
    <2>1. PICK ok \in BOOLEAN : StepEnds(ok)
      BY <1>9 DEF StepPasses, StepFails, WaitAnswered
    <2>2. UNCHANGED <<jobVars, held, caller, tests, pauses>>
          /\ pc \in {"step", "wait", "stopping"} /\ held = "no"
          /\ (CreateDefinition \/ DeleteDefinition \/ UNCHANGED dataVars)
      BY <1>9 DEF StepPasses, StepFails, WaitAnswered, IInv, HoldWellFormed, TypeOK, Flags
    <2>3. pc' \in {"gate", "step", "between"} /\ left' \in 1..MaxSteps
          /\ phase' \in {"main", "teardown"} /\ verdict' \in {"COMPLETED", "FAILED"}
      BY <2>1, StepEndsTyped DEF IInv
    <2> QED
      BY <2>2, <2>3, StepKeepsBooks DEF IInv, TypeOK, Flags, Progress, GateMirrorsStatus,
         OffersAccounted, HoldWellFormed, Places
  <1>10. CASE TestEnds
    BY <1>10, RunHoldAssumption DEF TestEnds, dataVars, IInv, TypeOK, Flags, Books,
       Progress, GateMirrorsStatus, OffersAccounted, HoldWellFormed,
       Places
  <1>11. CASE UNCHANGED vars
    BY <1>11 DEF vars, IInv, TypeOK, Flags, Books, Progress, GateMirrorsStatus,
       OffersAccounted, HoldWellFormed
  <1> QED
    BY <1>1, <1>2, <1>3, <1>4, <1>5, <1>6, <1>7, <1>8, <1>9, <1>10, <1>11, <1>12
       DEF Next, Host, Run, Over

\* The strengthening holds in every reachable state of a job and its run.
THEOREM Invariance == Spec => []IInv
  BY InitIInv, NextIInv, PTL DEF Spec

\* Every variable keeps its type, whatever the bounds.
THEOREM TypeCorrect == Spec => []TypeOK
  <1>1. IInv => TypeOK
    BY DEF IInv
  <1> QED BY <1>1, Invariance, PTL

\* No RUNNING or CANCELLED job is blocked on its gate, and no request outlives
\* the pause it stands for (JobManager.pause, resume and cancel).
THEOREM GateSafe == Spec => []GateMirrorsStatus
  <1>1. IInv => GateMirrorsStatus
    BY DEF IInv
  <1> QED BY <1>1, Invariance, PTL

\* RunHold.pause_point, _withdraw and _restore: on hold what is still up was reported as
\* kept; off hold an offer that is down is one the last report says is kept, lost or
\* withdrawn, and withdrawn only where the run's task was cancelled in the hold.
THEOREM AccountedSafe == Spec => []OffersAccounted
  <1>1. IInv => OffersAccounted
    BY DEF IInv
  <1> QED BY <1>1, Invariance, PTL

\* Once the session is open a cancelled job stays cancelled: no resume, no pause and no
\* verdict of its tests (resume, finalize_job) replaces the status.
THEOREM CancelStays == Spec => CancelKept
  <1> DEFINE Stays == status = "CANCELLED" /\ pc # "queued" => status' = "CANCELLED"
  <1>1. ASSUME Next PROVE Stays
    <2>1. CASE Pause \/ Resume \/ Cancel
      BY <2>1 DEF Pause, Resume, Cancel, Terminal
    <2>2. CASE Open \/ OpenRefused \/ Close
      BY <2>2 DEF Open, OpenRefused, Close
    <2>3. CASE GatePasses \/ StopPasses \/ GateHolds \/ StopHolds \/ Release
      BY <2>3 DEF GatePasses, StopPasses, PassBy, GateHolds, StopHolds, TakeDown, Release, jobVars
    <2>4. CASE StepPasses \/ StepFails \/ WaitAnswered \/ WaitStops \/ TestEnds
      BY <2>4 DEF StepPasses, StepFails, WaitAnswered, WaitStops, TestEnds, jobVars
    <2>5. CASE StartWait \/ InterruptHold \/ Interrupt \/ Over
      BY <2>5 DEF StartWait, InterruptHold, Interrupt, Over, jobVars, vars
    <2> QED BY <1>1, <2>1, <2>2, <2>3, <2>4, <2>5 DEF Next, Host, Run
  <1> QED BY <1>1, PTL DEF Spec, CancelKept

-----------------------------------------------------------------------------
(***************************************************************************)
(* The session.                                                            *)
(***************************************************************************)
Busy == {"planned", "single", "close"}

\* The lock: whoever is at it waits for something, once, and only its holder is in a test.
LockFits ==
    /\ queue \in Seq(Tasks) /\ \A i, j \in 1..Len(queue) : queue[i] = queue[j] => i = j
    /\ ask \in [Tasks -> AskRec]
    /\ \A i \in 1..Len(queue) : ask[queue[i]].op \in Busy
    /\ \A c \in Tasks : /\ ask[c].in = "yes" => ask[c].op \in {"planned", "single"} /\ Len(queue) > 0 /\ queue[1] = c
                        /\ ask[c].op \in {"planned", "single"} => ask[c].test \in Tests

\* What is left at the lock without c.
LEMMA WithoutIs ==
  ASSUME LockFits, NEW c \in Tasks
  PROVE  /\ Without(c) \in Seq(Tasks)
         /\ \A i \in 1..Len(Without(c)) : Without(c)[i] # c /\ \E k \in 1..Len(queue) : Without(c)[i] = queue[k]
         /\ \A i, j \in 1..Len(Without(c)) : Without(c)[i] = Without(c)[j] => i = j
         /\ Len(queue) > 0 /\ queue[1] # c => Len(Without(c)) > 0 /\ Without(c)[1] = queue[1]
  <1> DEFINE r == Without(c)
             S == Tasks \ {c}
  <1>1. queue \in Seq(Tasks) /\ Len(queue) \in Nat /\ \A i \in 1..Len(queue) : queue[i] \in Tasks
    BY DEF LockFits
  <1>2. r \in Seq(Tasks) /\ \E g : KeptFrom(r, queue, S, Len(queue), g)
    BY <1>1, FilterFacts DEF Without
  <1> HIDE DEF r
  <1>3. PICK g : KeptFrom(r, queue, S, Len(queue), g)
    BY <1>2
  <1>4. /\ g \in [1..Len(r) -> 1..Len(queue)] /\ \A i \in 1..Len(r) : r[i] = queue[g[i]] /\ r[i] \in S
        /\ \A i, k \in 1..Len(r) : i < k => g[i] < g[k]
        /\ \A j \in 1..Len(queue) : queue[j] \in S => \E i \in 1..Len(r) : g[i] = j
    BY <1>3 DEF KeptFrom
  <1>5. \A i \in 1..Len(r) : r[i] # c /\ \E k \in 1..Len(queue) : r[i] = queue[k]
    BY <1>4
  <1>6. ASSUME NEW i \in 1..Len(r), NEW j \in 1..Len(r), r[i] = r[j] PROVE i = j
    <2>1. g[i] \in 1..Len(queue) /\ g[j] \in 1..Len(queue) /\ queue[g[i]] = queue[g[j]]
      BY <1>4, <1>6
    <2>2. g[i] = g[j]
      BY <2>1 DEF LockFits
    <2>3. (i < j => g[i] < g[j]) /\ (j < i => g[j] < g[i])
      BY <1>4
    <2>4. g[i] \in Nat /\ g[j] \in Nat /\ i \in Nat /\ j \in Nat
      BY <1>1, <1>2, <2>1
    <2> QED BY <2>2, <2>3, <2>4
  <1>7. ASSUME Len(queue) > 0, queue[1] # c PROVE Len(r) > 0 /\ r[1] = queue[1]
    <2>1. 1 \in 1..Len(queue) /\ queue[1] \in S
      BY <1>1, <1>7
    <2>2. PICK i \in 1..Len(r) : g[i] = 1
      BY <1>4, <2>1
    <2>3. Len(r) \in Nat /\ 1 \in 1..Len(r) /\ g[1] \in 1..Len(queue)
      BY <1>2, <1>4, <2>2
    <2>4. g[1] = 1
      BY <1>1, <1>4, <2>2, <2>3
    <2> QED BY <1>4, <2>3, <2>4
  <1> QED BY <1>2, <1>5, <1>6, <1>7 DEF r

\* A task that takes a place at the lock, or moves to its end.
LEMMA Queued ==
  ASSUME LockFits, NEW c \in Tasks, NEW q \in Seq(Tasks), NEW a \in AskRec, a.op \in Busy, a.in = "no",
         a.op \in {"planned", "single"} => a.test \in Tests,
         \A i \in 1..Len(q) : q[i] # c /\ \E k \in 1..Len(queue) : q[i] = queue[k],
         \A i, j \in 1..Len(q) : q[i] = q[j] => i = j,
         Len(queue) > 0 /\ queue[1] # c => Len(q) > 0 /\ q[1] = queue[1],
         queue' = Append(q, c), ask' = [ask EXCEPT ![c] = a]
  PROVE  LockFits' /\ ask'[c] = a /\ \A d \in Tasks : d # c => ask'[d] = ask[d]
  <1>1. /\ queue' \in Seq(Tasks) /\ Len(q) \in Nat /\ Len(queue') = Len(q) + 1 /\ queue'[Len(q) + 1] = c
        /\ \A i \in 1..Len(q) : queue'[i] = q[i]
    OBVIOUS
  <1>2. ask' \in [Tasks -> AskRec] /\ ask'[c] = a /\ \A d \in Tasks : d # c => ask'[d] = ask[d]
    BY DEF LockFits
  <1>3. \A i, j \in 1..Len(queue') : queue'[i] = queue'[j] => i = j
    BY <1>1
  <1>4. \A i \in 1..Len(queue') : ask'[queue'[i]].op \in Busy
    BY <1>1, <1>2 DEF LockFits
  <1>5. ASSUME NEW d \in Tasks
        PROVE  /\ ask'[d].in = "yes" => ask'[d].op \in {"planned", "single"} /\ Len(queue') > 0 /\ queue'[1] = d
               /\ ask'[d].op \in {"planned", "single"} => ask'[d].test \in Tests
    BY <1>1, <1>2 DEF LockFits
  <1> QED BY <1>1, <1>2, <1>3, <1>4, <1>5 DEF LockFits

\* A task that goes.
LEMMA Unqueued ==
  ASSUME LockFits, NEW c \in Tasks, NEW q \in Seq(Tasks), NEW a \in AskRec, a.op \in {"none", "gone"}, a.in = "no",
         \A i \in 1..Len(q) : q[i] # c /\ \E k \in 1..Len(queue) : q[i] = queue[k],
         \A i, j \in 1..Len(q) : q[i] = q[j] => i = j,
         Len(queue) > 0 /\ queue[1] # c => Len(q) > 0 /\ q[1] = queue[1],
         queue' = q, ask' = [ask EXCEPT ![c] = a]
  PROVE  LockFits' /\ ask'[c] = a /\ \A d \in Tasks : d # c => ask'[d] = ask[d]
  <1>1. queue' \in Seq(Tasks) /\ \A i, j \in 1..Len(queue') : queue'[i] = queue'[j] => i = j
    OBVIOUS
  <1>2. ask' \in [Tasks -> AskRec] /\ ask'[c] = a /\ \A d \in Tasks : d # c => ask'[d] = ask[d]
    BY DEF LockFits
  <1>3. \A i \in 1..Len(queue') : ask'[queue'[i]].op \in Busy
    BY <1>2 DEF LockFits
  <1>4. ASSUME NEW d \in Tasks
        PROVE  /\ ask'[d].in = "yes" => ask'[d].op \in {"planned", "single"} /\ Len(queue') > 0 /\ queue'[1] = d
               /\ ask'[d].op \in {"planned", "single"} => ask'[d].test \in Tests
    BY <1>2 DEF LockFits
  <1> QED BY <1>1, <1>2, <1>3, <1>4 DEF LockFits

\* What a task can be at.
LEMMA Requests ==
  /\ \A t \in Tests : Request("planned", t) \in AskRec /\ Request("single", t) \in AskRec
  /\ Request("close", 0) \in AskRec /\ Gone \in AskRec /\ Idle \in AskRec
  /\ Gone.op = "gone" /\ Gone.in = "no" /\ Idle.op = "none" /\ Idle.in = "no"
  /\ \A op, t : Request(op, t).op = op /\ Request(op, t).test = t /\ Request(op, t).in = "no"
  BY TckSessionAssumption DEF Request, AskRec, Gone, Idle, Tests

\* What is left at the lock when its holder leaves it.
LEMMA TailIs ==
  ASSUME LockFits, NEW c \in Tasks, Len(queue) > 0, queue[1] = c
  PROVE  /\ Tail(queue) \in Seq(Tasks)
         /\ \A i \in 1..Len(Tail(queue)) : Tail(queue)[i] # c /\ \E k \in 1..Len(queue) : Tail(queue)[i] = queue[k]
         /\ \A i, j \in 1..Len(Tail(queue)) : Tail(queue)[i] = Tail(queue)[j] => i = j
  <1> DEFINE r == Tail(queue)
  <1>1. /\ r \in Seq(Tasks) /\ Len(queue) \in Nat /\ Len(r) = Len(queue) - 1
        /\ \A i \in 1..Len(r) : r[i] = queue[i + 1] /\ i + 1 \in 1..Len(queue) /\ i + 1 # 1
    BY DEF LockFits
  <1> HIDE DEF r
  <1>2. 1 \in 1..Len(queue) /\ \A i, j \in 1..Len(queue) : queue[i] = queue[j] => i = j
    BY <1>1 DEF LockFits
  <1>3. \A i \in 1..Len(r) : r[i] # c /\ \E k \in 1..Len(queue) : r[i] = queue[k]
    BY <1>1, <1>2
  <1>4. ASSUME NEW i \in 1..Len(r), NEW j \in 1..Len(r), r[i] = r[j] PROVE i = j
    <2>1. i + 1 = j + 1
      BY <1>1, <1>2, <1>4
    <2> QED BY <2>1
  <1> QED BY <1>1, <1>3, <1>4 DEF r

\* Where a task is when it has left the lock: on to the next planned test, to close, or gone.
LEMMA LeaveIs ==
  ASSUME LockFits, NEW c \in Tasks, Len(queue) > 0, queue[1] = c, Leave(c)
  PROVE  /\ LockFits' /\ (\A d \in Tasks : d # c => ask'[d] = ask[d]) /\ ask'[c].in = "no"
         /\ \/ ask[c].op = "planned" /\ ask'[c].op = "planned" /\ ask'[c].test \in Tests /\ ask'[c].test > ask[c].test
            \/ ask[c].op = "planned" /\ plain = "yes" /\ ask'[c].op = "close"
            \/ c = Driver /\ ask'[c].op = "gone"
            \/ c # Driver /\ ask'[c].op = "none"
  <1> DEFINE q == Tail(queue)
             next == IF ask[c].op = "planned" THEN NextPlanned(ask[c].test) ELSE {}
             u == CHOOSE u \in next : TRUE
  <1>1. /\ q \in Seq(Tasks) /\ \A i, j \in 1..Len(q) : q[i] = q[j] => i = j
        /\ \A i \in 1..Len(q) : q[i] # c /\ \E k \in 1..Len(queue) : q[i] = queue[k]
    BY TailIs
  <1>2. \/ next # {} /\ queue' = Append(q, c) /\ ask' = [ask EXCEPT ![c] = Request("planned", u)]
        \/ /\ next = {} /\ ask[c].op = "planned" /\ plain = "yes"
           /\ queue' = Append(q, c) /\ ask' = [ask EXCEPT ![c] = Request("close", 0)]
        \/ queue' = q /\ ask' = [ask EXCEPT ![c] = IF c = Driver THEN Gone ELSE Idle]
    BY DEF Leave
  <1>3. next # {} => ask[c].op = "planned" /\ u \in Tests /\ u > ask[c].test
    BY DEF NextPlanned
  <1>4. Len(queue) > 0 /\ queue[1] # c => Len(q) > 0 /\ q[1] = queue[1]
    OBVIOUS
  <1> HIDE DEF q, next, u
  <1>5. CASE next # {} /\ queue' = Append(q, c) /\ ask' = [ask EXCEPT ![c] = Request("planned", u)]
    <2> DEFINE a == Request("planned", u)
    <2>1. a \in AskRec /\ a.op = "planned" /\ a.in = "no" /\ a.test = u /\ a.op \in Busy /\ u \in Tests
      BY <1>3, <1>5, Requests DEF Busy
    <2>2. ask' = [ask EXCEPT ![c] = a]
      BY <1>5
    <2> HIDE DEF a
    <2>3. LockFits' /\ ask'[c] = a /\ \A d \in Tasks : d # c => ask'[d] = ask[d]
      <3>1. a.op \in {"planned", "single"} => a.test \in Tests
        BY <2>1
      <3>2. queue' = Append(q, c)
        BY <1>5
      <3> QED BY <1>1, <1>4, <2>1, <2>2, <3>1, <3>2, Queued
    <2> QED BY <1>3, <1>5, <2>1, <2>3
  <1>6. CASE /\ next = {} /\ ask[c].op = "planned" /\ plain = "yes"
             /\ queue' = Append(q, c) /\ ask' = [ask EXCEPT ![c] = Request("close", 0)]
    <2> DEFINE a == Request("close", 0)
    <2>1. a \in AskRec /\ a.op = "close" /\ a.in = "no" /\ a.op \in Busy
      BY Requests DEF Busy
    <2>2. ask' = [ask EXCEPT ![c] = a]
      BY <1>6
    <2> HIDE DEF a
    <2>3. LockFits' /\ ask'[c] = a /\ \A d \in Tasks : d # c => ask'[d] = ask[d]
      BY ZenonT(60), <1>1, <1>4, <1>6, <2>1, <2>2, Queued
    <2> QED BY <1>6, <2>1, <2>3
  <1>7. CASE queue' = q /\ ask' = [ask EXCEPT ![c] = IF c = Driver THEN Gone ELSE Idle]
    <2> DEFINE a == IF c = Driver THEN Gone ELSE Idle
    <2>1. a \in AskRec /\ a.op \in {"none", "gone"} /\ a.in = "no" /\ a.op = IF c = Driver THEN "gone" ELSE "none"
      BY Requests
    <2>2. queue' = q /\ ask' = [ask EXCEPT ![c] = a]
      BY <1>7
    <2> HIDE DEF a
    <2>3. LockFits' /\ ask'[c] = a /\ \A d \in Tasks : d # c => ask'[d] = ask[d]
      BY <1>1, <1>4, <2>1, <2>2, Unqueued
    <2> QED BY <2>1, <2>3
  <1> QED BY <1>2, <1>5, <1>6, <1>7

\* Where a task is that an exception took out: a plain run closes, whatever was open is gone.
LEMMA RaisedIs ==
  ASSUME LockFits, NEW c \in Tasks, Raised(c)
  PROVE  /\ LockFits' /\ (\A d \in Tasks : d # c => ask'[d] = ask[d]) /\ ask'[c].in = "no"
         /\ \/ c = Driver /\ plain = "yes" /\ ask[c].op # "close" /\ ask'[c].op = "close"
            \/ ask'[c].op = "gone"
         /\ c = Driver /\ plain = "yes" /\ ask[c].op = "close" => ask'[c].op = "gone"
  <1> DEFINE q == Without(c)
  <1>1. /\ q \in Seq(Tasks) /\ \A i, j \in 1..Len(q) : q[i] = q[j] => i = j
        /\ \A i \in 1..Len(q) : q[i] # c /\ \E k \in 1..Len(queue) : q[i] = queue[k]
        /\ Len(queue) > 0 /\ queue[1] # c => Len(q) > 0 /\ q[1] = queue[1]
    BY WithoutIs
  <1>2. \/ /\ c = Driver /\ plain = "yes" /\ ask[c].op # "close"
           /\ queue' = Append(q, c) /\ ask' = [ask EXCEPT ![c] = Request("close", 0)]
        \/ /\ ~(c = Driver /\ plain = "yes" /\ ask[c].op # "close")
           /\ queue' = q /\ ask' = [ask EXCEPT ![c] = Gone]
    BY DEF Raised
  <1> HIDE DEF q
  <1>4. CASE /\ c = Driver /\ plain = "yes" /\ ask[c].op # "close"
             /\ queue' = Append(q, c) /\ ask' = [ask EXCEPT ![c] = Request("close", 0)]
    <2> DEFINE a == Request("close", 0)
    <2>1. a \in AskRec /\ a.op = "close" /\ a.in = "no" /\ a.op \in Busy
      BY Requests DEF Busy
    <2>2. ask' = [ask EXCEPT ![c] = a]
      BY <1>4
    <2> HIDE DEF a
    <2>3. LockFits' /\ ask'[c] = a /\ \A d \in Tasks : d # c => ask'[d] = ask[d]
      BY ZenonT(60), <1>1, <1>4, <2>1, <2>2, Queued
    <2> QED BY <1>4, <2>1, <2>3
  <1>5. CASE /\ ~(c = Driver /\ plain = "yes" /\ ask[c].op # "close")
             /\ queue' = q /\ ask' = [ask EXCEPT ![c] = Gone]
    <2>1. Gone \in AskRec /\ Gone.op \in {"none", "gone"} /\ Gone.op = "gone" /\ Gone.in = "no"
      BY Requests
    <2>2. LockFits' /\ ask'[c] = Gone /\ \A d \in Tasks : d # c => ask'[d] = ask[d]
      BY <1>1, <1>5, <2>1, Unqueued
    <2> QED BY <1>5, <2>1, <2>2
  <1> QED BY <1>2, <1>4, <1>5

\* A plain run is the driver's alone.  Until it closes, a test that failed is in its results as
\* such, and the one that is being run, or that it was interrupted in, is the unfinished one,
\* announced and not ended; the tests ahead have not run.
RunFits ==
    LET a == ask[Driver] IN
    /\ \A t \in Tests : latest[t] = "FAILED" => results[t] = "FAILED"
    /\ \A t \in Tests : latest[t] \in {"running", "CANCELLED"} => t = unfinished
    /\ a.in = "yes" => unfinished = a.test
    /\ unfinished # 0 => a.in = "yes" \/ (a.op \in {"close", "gone"} /\ latest[unfinished] = "CANCELLED")
    /\ open = IF unfinished = 0 THEN {} ELSE {<<unfinished, attempts[unfinished]>>}
    /\ \A t \in Tests : a.op = "none" \/ (a.op = "planned" /\ (t > a.test \/ (t = a.test /\ a.in = "no"))) => latest[t] = "none"
Told ==
    outcome # "none" =>
        /\ \A t \in Tests : latest[t] = "FAILED" => results[t] = "FAILED" /\ outcome = "FAILED"
        /\ InterruptedTold
PlainFits ==
    plain = "yes" =>
        /\ \A c \in Others : ask[c].op = "none"
        /\ closed = "no" => outcome = "none" /\ RunFits
        /\ closed = "yes" => ask[Driver].op = "gone" /\ Told
SessionInv ==
    /\ SessionTypeOK /\ LockFits /\ PlainFits
    /\ closed = released /\ (closed = "yes" => \A c \in Tasks : ask[c].in = "no")

\* The invariant of the session holds at the start.
LEMMA InitSession == SessionInit => SessionInv
  <1> SUFFICES ASSUME SessionInit PROVE SessionInv
    OBVIOUS
  <1>1. queue \in Seq(Tasks) /\ Len(queue) = 0 /\ DOMAIN queue = 1..Len(queue)
    BY DEF SessionInit
  <1>2. ask \in [Tasks -> AskRec] /\ \A c \in Tasks : ask[c].op = "none" /\ ask[c].in = "no"
    BY Requests DEF SessionInit
  <1>3. SessionTypeOK
    BY <1>1, <1>2, TckSessionAssumption DEF SessionInit, SessionTypeOK, Tests
  <1>4. LockFits
    BY <1>1, <1>2 DEF LockFits
  <1>5. PlainFits
    BY <1>2 DEF PlainFits, RunFits, SessionInit, Tasks
  <1> QED BY <1>2, <1>3, <1>4, <1>5 DEF SessionInv, SessionInit

\* A request waits for the lock alone: the other tasks keep theirs.
LEMMA AskIs ==
  ASSUME LockFits, NEW c \in Tasks, ask[c].op = "none", NEW op \in Busy, NEW t \in 0..N,
         op \in {"planned", "single"} => t \in Tests, op = "close" => t = 0, Ask(c, op, t)
  PROVE  LockFits' /\ ask'[c] = Request(op, t) /\ \A d \in Tasks : d # c => ask'[d] = ask[d]
  <1> DEFINE a == Request(op, t)
  <1>1. a \in AskRec /\ a.op \in Busy /\ a.in = "no" /\ (a.op \in {"planned", "single"} => a.test \in Tests)
    BY Requests DEF Busy
  <1>2. queue' = Append(queue, c) /\ ask' = [ask EXCEPT ![c] = a] /\ queue \in Seq(Tasks)
    BY DEF Ask, LockFits
  <1> HIDE DEF a
  <1>3. \A i \in 1..Len(queue) : queue[i] # c /\ \E k \in 1..Len(queue) : queue[i] = queue[k]
    BY DEF LockFits, Busy
  <1>4. \A i, j \in 1..Len(queue) : queue[i] = queue[j] => i = j
    BY DEF LockFits
  <1>5. Len(queue) > 0 /\ queue[1] # c => Len(queue) > 0 /\ queue[1] = queue[1]
    OBVIOUS
  <1>6. LockFits' /\ ask'[c] = a /\ \A d \in Tasks : d # c => ask'[d] = ask[d]
    BY <1>1, <1>2, <1>3, <1>4, <1>5, Queued
  <1> QED BY <1>6 DEF a

\* The types of the session, but for the lock's.
RestTyped ==
    /\ plain \in {"yes", "no"} /\ asks \in [Tasks -> 0..MaxAsks]
    /\ results \in [Tests -> {"none", "COMPLETED", "FAILED", "SKIPPED", "CANCELLED"}]
    /\ attempts \in [Tests -> Nat] /\ unfinished \in 0..N
    /\ closed \in {"yes", "no"} /\ outcome \in {"none", "COMPLETED", "FAILED"}
    /\ cancelled \in {"yes", "no"} /\ job \in {"RUNNING", "COMPLETED", "FAILED", "CANCELLED"}
    /\ released \in {"yes", "no"}
    /\ latest \in [Tests -> {"none", "running", "COMPLETED", "FAILED", "CANCELLED"}]
    /\ open \subseteq Tests \X Nat
\* The type invariant of the session, the lock apart.
LEMMA TypesSplit == LockFits => (SessionTypeOK <=> RestTyped)
  <1> SUFFICES ASSUME LockFits PROVE SessionTypeOK <=> RestTyped
    OBVIOUS
  <1>1. DOMAIN queue = 1..Len(queue)
    BY DEF LockFits
  <1> QED BY <1>1 DEF LockFits, SessionTypeOK, RestTyped

\* Before a plain run has closed, only its driver is at anything.
LEMMA OnlyDriver ==
  ASSUME SessionInv, plain = "yes", NEW c \in Tasks, ask[c].op # "none"
  PROVE  c = Driver
  BY DEF SessionInv, PlainFits, Tasks

\* Requests that change nothing but the lock's queue.
LEMMA LockOnly ==
  ASSUME SessionInv, LockFits', NEW c \in Tasks, \A d \in Tasks : d # c => ask'[d] = ask[d], ask'[c].in = "no",
         asks' \in [Tasks -> 0..MaxAsks], UNCHANGED <<cancelled, sesVars>>,
         plain = "yes" => /\ c = Driver
                          /\ \/ ask[c].op = "none" /\ ask'[c].op = "planned"
                             \/ closed = "yes" /\ ask'[c].op = "gone"
  PROVE  SessionInv'
  <1>1. UNCHANGED <<plain, results, attempts, unfinished, closed, outcome, job, released, latest, open, cancelled>>
    BY DEF sesVars
  <1>2. RestTyped' /\ SessionTypeOK'
    <2>1. RestTyped'
      BY <1>1, TypesSplit DEF RestTyped, SessionInv
    <2>2. LockFits' => (SessionTypeOK' <=> RestTyped')
      BY TypesSplit, PTL
    <2> QED BY <2>1, <2>2
  <1>3. closed' = released' /\ (closed' = "yes" => \A d \in Tasks : ask'[d].in = "no")
    BY <1>1 DEF SessionInv
  <1>4. PlainFits'
    <2> SUFFICES ASSUME plain = "yes" PROVE PlainFits'
      BY <1>1 DEF PlainFits
    <2>1. c = Driver /\ \A d \in Others : ask'[d].op = "none"
      BY TckSessionAssumption DEF SessionInv, PlainFits, Tasks
    <2>2. CASE ask[c].op = "none" /\ ask'[c].op = "planned"
      <3>1. closed = "no" /\ RunFits /\ outcome = "none"
        BY <2>1, <2>2, TypesSplit DEF SessionInv, PlainFits, RestTyped
      <3>2. ask[Driver].in = "no"
        BY <2>1, <2>2 DEF SessionInv, LockFits, AskRec
      <3>3. RunFits'
        BY <1>1, <2>1, <2>2, <3>1, <3>2 DEF RunFits
      <3> QED BY <1>1, <2>1, <3>1, <3>3 DEF PlainFits
    <2>3. CASE closed = "yes" /\ ask'[c].op = "gone"
      <3>1. Told
        BY <2>3 DEF SessionInv, PlainFits
      <3>2. Told'
        BY <1>1, <3>1 DEF Told, InterruptedTold
      <3> QED BY <1>1, <2>1, <2>3, <3>2 DEF PlainFits
    <2> QED BY <2>2, <2>3
  <1> QED BY <1>2, <1>3, <1>4 DEF SessionInv

\* Requests, and the ones that come too late.
LEMMA AsksFit ==
  ASSUME SessionInv,
         \/ StartPlan
         \/ \E c \in Tasks : AskClose(c) \/ (\E t \in Tests : AskSingle(c, t)) \/ FoundClosed(c) \/ CloseAgain(c)
  PROVE  SessionInv'
  <1>t. LockFits /\ RestTyped /\ Tests \subseteq 0..N /\ 0 \in 0..N /\ Driver \in Tasks
    BY TypesSplit, TckSessionAssumption DEF SessionInv, Tests, Tasks
  <1>1. CASE StartPlan
    <2>1. PICK t \in NextPlanned(0) : Ask(Driver, "planned", t)
      BY <1>1 DEF StartPlan
    <2>2. ask[Driver].op = "none" /\ UNCHANGED <<asks, cancelled, sesVars>> /\ t \in Tests /\ t \in 0..N
      BY <1>1, <1>t DEF StartPlan, NextPlanned
    <2>3. LockFits' /\ ask'[Driver] = Request("planned", t) /\ \A d \in Tasks : d # Driver => ask'[d] = ask[d]
      BY <1>t, <2>1, <2>2, AskIs DEF Busy
    <2>4. ask'[Driver].in = "no" /\ ask'[Driver].op = "planned"
      BY <2>3, Requests
    <2>5. asks' \in [Tasks -> 0..MaxAsks]
      BY <1>t, <2>2 DEF RestTyped
    <2> QED BY <1>t, <2>2, <2>3, <2>4, <2>5, LockOnly
  <1>2. ASSUME NEW c \in Tasks, AskClose(c) \/ \E t \in Tests : AskSingle(c, t) PROVE SessionInv'
    <2>1. /\ plain = "no" /\ ask[c].op = "none" /\ asks[c] < MaxAsks /\ UNCHANGED <<cancelled, sesVars>>
          /\ asks' = [asks EXCEPT ![c] = @ + 1]
      BY <1>2 DEF AskClose, AskSingle
    <2>2. PICK op \in Busy, t \in 0..N : Ask(c, op, t) /\ (op \in {"planned", "single"} => t \in Tests) /\ (op = "close" => t = 0)
      <3>1. CASE AskClose(c)
        BY <1>t, <3>1 DEF AskClose, Busy
      <3>2. CASE \E t \in Tests : AskSingle(c, t)
        BY <1>t, <3>2 DEF AskSingle, Busy
      <3> QED BY <1>2, <3>1, <3>2
    <2>3. LockFits' /\ ask'[c] = Request(op, t) /\ \A d \in Tasks : d # c => ask'[d] = ask[d]
      BY <1>t, <2>1, <2>2, AskIs
    <2>4. ask'[c].in = "no"
      BY <2>3, Requests
    <2>5. asks' \in [Tasks -> 0..MaxAsks]
      BY <1>t, <2>1, TckSessionAssumption DEF RestTyped
    <2>6. plain # "yes"
      BY <2>1
    <2> QED BY <2>1, <2>3, <2>4, <2>5, <2>6, LockOnly
  <1>3. ASSUME NEW c \in Tasks, FoundClosed(c) \/ CloseAgain(c) PROVE SessionInv'
    <2>1. /\ closed = "yes" /\ UNCHANGED <<asks, cancelled, sesVars>> /\ (Raised(c) \/ Leave(c))
          /\ queue # <<>> /\ c = Head(queue) /\ ask[c].op \in {"planned", "single", "close"}
      BY <1>3 DEF FoundClosed, CloseAgain, Enters
    <2>2. Len(queue) > 0 /\ queue[1] = c
      BY <1>t, <2>1 DEF LockFits
    <2>3. LockFits' /\ ask'[c].in = "no" /\ \A d \in Tasks : d # c => ask'[d] = ask[d]
      BY <1>t, <2>1, <2>2, LeaveIs, RaisedIs
    <2>4. plain # "yes"
      <3> SUFFICES ASSUME plain = "yes" PROVE FALSE
        OBVIOUS
      <3>1. c = Driver
        BY <2>1, OnlyDriver
      <3> QED BY <2>1, <3>1 DEF SessionInv, PlainFits
    <2>5. asks' \in [Tasks -> 0..MaxAsks]
      BY <1>t, <2>1 DEF RestTyped
    <2> QED BY <2>1, <2>3, <2>4, <2>5, LockOnly
  <1> QED BY <1>1, <1>2, <1>3

\* The results of a session that closes.
LEMMA EndedIs ==
  ASSUME RestTyped
  PROVE  /\ Ended \in [Tests -> {"COMPLETED", "FAILED", "SKIPPED", "CANCELLED"}]
         /\ Verdict(Ended) \in {"COMPLETED", "FAILED"}
         /\ \A t \in Tests : Ended[t] \in {"FAILED", "CANCELLED"} => Verdict(Ended) = "FAILED"
         /\ \A t \in Tests : /\ t = unfinished => Ended[t] = "CANCELLED"
                             /\ t # unfinished /\ results[t] = "FAILED" => Ended[t] = "FAILED"
  BY DEF RestTyped, Ended, Verdict

\* A skip keeps the invariant.
LEMMA SkipFits ==
  ASSUME SessionInv, NEW c \in Tasks, Skip(c)
  PROVE  SessionInv'
  <1>t. LockFits /\ RestTyped
    BY TypesSplit DEF SessionInv
  <1> DEFINE t == ask[c].test
  <1>1. /\ Len(queue) > 0 /\ queue[1] = c /\ ask[c].op = "planned" /\ ask[c].in = "no" /\ closed = "no" /\ Leave(c)
        /\ results' = [results EXCEPT ![t] = "SKIPPED"]
        /\ UNCHANGED <<plain, asks, cancelled, attempts, unfinished, closed, outcome, job, released, latest, open>>
    BY <1>t DEF Skip, Enters, LockFits
  <1>2. t \in Tests
    BY <1>t, <1>1 DEF LockFits
  <1>3. /\ LockFits' /\ (\A d \in Tasks : d # c => ask'[d] = ask[d]) /\ ask'[c].in = "no"
        /\ \/ ask'[c].op = "planned" /\ ask'[c].test \in Tests /\ ask'[c].test > t
           \/ plain = "yes" /\ ask'[c].op = "close"
           \/ c = Driver /\ ask'[c].op = "gone"
           \/ c # Driver /\ ask'[c].op = "none"
    BY <1>t, <1>1, LeaveIs
  <1>4. RestTyped'
    BY <1>t, <1>1, <1>2 DEF RestTyped
  <1>5. SessionTypeOK'
    <2>1. LockFits' => (SessionTypeOK' <=> RestTyped')
      BY TypesSplit, PTL
    <2> QED BY <1>3, <1>4, <2>1
  <1>6. PlainFits'
    <2> SUFFICES ASSUME plain = "yes" PROVE PlainFits'
      BY <1>1 DEF PlainFits
    <2>1. c = Driver /\ RunFits /\ outcome = "none" /\ \A d \in Others : ask'[d].op = "none"
      BY <1>1, <1>3, OnlyDriver, TckSessionAssumption DEF SessionInv, PlainFits, Tasks
    <2>2. unfinished = 0 /\ latest[t] = "none"
      BY <1>t, <1>1, <1>2, <2>1 DEF RunFits, RestTyped
    <2>3. \A u \in Tests : latest[u] = "FAILED" => results'[u] = "FAILED"
      BY <1>t, <1>1, <1>2, <2>1, <2>2 DEF RunFits, RestTyped
    <2>4. \A u \in Tests : ask'[Driver].op = "planned" /\ (u > ask'[Driver].test \/ u = ask'[Driver].test) => latest[u] = "none"
      <3> SUFFICES ASSUME NEW u \in Tests, ask'[Driver].op = "planned", u > ask'[Driver].test \/ u = ask'[Driver].test
                   PROVE  latest[u] = "none"
        OBVIOUS
      <3>1. u > t
        BY <1>2, <1>3, <2>1 DEF Tests
      <3> QED BY <1>1, <2>1, <3>1 DEF RunFits
    <2>5. RunFits'
      BY <1>1, <1>3, <2>1, <2>2, <2>3, <2>4 DEF RunFits
    <2> QED BY <1>1, <2>1, <2>5 DEF PlainFits
  <1> QED BY <1>1, <1>3, <1>5, <1>6 DEF SessionInv

\* The start of a test keeps the invariant.
LEMMA RunTestFits ==
  ASSUME SessionInv, NEW c \in Tasks, RunTest(c)
  PROVE  SessionInv'
  <1>t. LockFits /\ RestTyped
    BY TypesSplit DEF SessionInv
  <1> DEFINE t == ask[c].test
  <1>1. /\ Len(queue) > 0 /\ queue[1] = c /\ ask[c].op \in {"planned", "single"} /\ ask[c].in = "no" /\ closed = "no"
        /\ attempts' = [attempts EXCEPT ![t] = @ + 1] /\ unfinished' = t /\ latest' = [latest EXCEPT ![t] = "running"]
        /\ open' = open \cup {<<t, attempts[t] + 1>>} /\ ask' = [ask EXCEPT ![c].in = "yes"]
        /\ UNCHANGED <<plain, queue, asks, cancelled, results, closed, outcome, job, released>>
    BY <1>t DEF RunTest, Enters, LockFits
  <1>2. t \in Tests /\ t \in 0..N /\ t # 0
    BY <1>t, <1>1, TckSessionAssumption DEF LockFits, Tests
  <1>3. /\ ask' \in [Tasks -> AskRec] /\ (\A d \in Tasks : d # c => ask'[d] = ask[d])
        /\ ask'[c].in = "yes" /\ ask'[c].op = ask[c].op /\ ask'[c].test = t
    BY <1>t, <1>1 DEF LockFits, AskRec
  <1>4. LockFits'
    <2>1. \A i \in 1..Len(queue) : ask'[queue[i]].op \in Busy
      BY <1>t, <1>3 DEF LockFits
    <2>2. ASSUME NEW d \in Tasks
          PROVE  /\ ask'[d].in = "yes" => ask'[d].op \in {"planned", "single"} /\ Len(queue) > 0 /\ queue[1] = d
                 /\ ask'[d].op \in {"planned", "single"} => ask'[d].test \in Tests
      BY <1>t, <1>1, <1>2, <1>3 DEF LockFits
    <2> QED BY <1>t, <1>1, <1>3, <2>1, <2>2 DEF LockFits
  <1>5. RestTyped'
    <2>1. attempts' \in [Tests -> Nat] /\ latest' \in [Tests -> {"none", "running", "COMPLETED", "FAILED", "CANCELLED"}]
      BY <1>t, <1>1, <1>2 DEF RestTyped
    <2>2. open' \subseteq Tests \X Nat
      BY <1>t, <1>1, <1>2 DEF RestTyped
    <2> QED BY <1>t, <1>1, <1>2, <2>1, <2>2 DEF RestTyped
  <1>6. SessionTypeOK'
    <2>1. LockFits' => (SessionTypeOK' <=> RestTyped')
      BY TypesSplit, PTL
    <2> QED BY <1>4, <1>5, <2>1
  <1>7. PlainFits'
    <2> SUFFICES ASSUME plain = "yes" PROVE PlainFits'
      BY <1>1 DEF PlainFits
    <2>1. c = Driver /\ RunFits /\ outcome = "none" /\ \A d \in Others : ask'[d].op = "none"
      BY <1>1, <1>3, OnlyDriver, TckSessionAssumption DEF SessionInv, PlainFits, Tasks
    <2>2. unfinished = 0 /\ open = {}
      BY <1>t, <1>1, <2>1 DEF RunFits, RestTyped
    <2>3. /\ attempts'[t] = attempts[t] + 1 /\ latest'[t] = "running"
          /\ \A u \in Tests : u # t => latest'[u] = latest[u]
      BY <1>t, <1>1, <1>2 DEF RestTyped
    <2>4. open' = {<<t, attempts'[t]>>}
      BY <1>1, <2>2, <2>3
    <2>5. \A u \in Tests : latest'[u] \in {"running", "CANCELLED"} => u = t
      <3> SUFFICES ASSUME NEW u \in Tests, latest'[u] \in {"running", "CANCELLED"}, u # t PROVE FALSE
        OBVIOUS
      <3>1. u = 0
        BY <2>1, <2>2, <2>3 DEF RunFits
      <3> QED BY <3>1 DEF Tests
    <2>6. \A u \in Tests : u > t /\ ask[c].op = "planned" => latest'[u] = "none"
      <3> SUFFICES ASSUME NEW u \in Tests, u > t, ask[c].op = "planned" PROVE latest'[u] = "none"
        OBVIOUS
      <3>1. u # t
        BY <1>2 DEF Tests
      <3> QED BY <2>1, <2>3, <3>1 DEF RunFits
    <2>7. \A u \in Tests : latest'[u] = "FAILED" => results'[u] = "FAILED"
      BY <1>1, <2>1, <2>3 DEF RunFits
    <2>8. RunFits'
      BY <1>1, <1>2, <1>3, <2>1, <2>4, <2>5, <2>6, <2>7 DEF RunFits
    <2> QED BY <1>1, <2>1, <2>8 DEF PlainFits
  <1> QED BY <1>1, <1>4, <1>6, <1>7 DEF SessionInv

\* The end of a test keeps the invariant.
LEMMA TestEndsFits ==
  ASSUME SessionInv, NEW c \in Tasks, NEW out \in {"COMPLETED", "FAILED"}, SessionTestEnds(c, out)
  PROVE  SessionInv'
  <1>t. LockFits /\ RestTyped
    BY TypesSplit DEF SessionInv
  <1> DEFINE t == ask[c].test
  <1>1. /\ ask[c].in = "yes" /\ unfinished' = 0 /\ Leave(c)
        /\ results' = [results EXCEPT ![t] = out] /\ latest' = [latest EXCEPT ![t] = out]
        /\ open' = open \ {<<t, attempts[t]>>}
        /\ UNCHANGED <<plain, asks, cancelled, attempts, closed, outcome, job, released>>
    BY DEF SessionTestEnds
  <1>2. /\ Len(queue) > 0 /\ queue[1] = c /\ ask[c].op \in {"planned", "single"} /\ t \in Tests /\ closed = "no"
    BY <1>t, <1>1 DEF LockFits, SessionInv, RestTyped
  <1>3. /\ LockFits' /\ (\A d \in Tasks : d # c => ask'[d] = ask[d]) /\ ask'[c].in = "no"
        /\ \/ ask[c].op = "planned" /\ ask'[c].op = "planned" /\ ask'[c].test \in Tests /\ ask'[c].test > t
           \/ plain = "yes" /\ ask'[c].op = "close"
           \/ c = Driver /\ ask'[c].op = "gone"
           \/ c # Driver /\ ask'[c].op = "none"
    BY <1>t, <1>1, <1>2, LeaveIs
  <1>4. RestTyped'
    <2>1. /\ results' \in [Tests -> {"none", "COMPLETED", "FAILED", "SKIPPED", "CANCELLED"}]
          /\ latest' \in [Tests -> {"none", "running", "COMPLETED", "FAILED", "CANCELLED"}]
      BY <1>t, <1>1, <1>2 DEF RestTyped
    <2> QED BY <1>t, <1>1, <2>1, TckSessionAssumption DEF RestTyped
  <1>5. SessionTypeOK'
    <2>1. LockFits' => (SessionTypeOK' <=> RestTyped')
      BY TypesSplit, PTL
    <2> QED BY <1>3, <1>4, <2>1
  <1>6. PlainFits'
    <2> SUFFICES ASSUME plain = "yes" PROVE PlainFits'
      BY <1>1 DEF PlainFits
    <2>1. c = Driver /\ RunFits /\ outcome = "none" /\ \A d \in Others : ask'[d].op = "none"
      BY <1>2, <1>3, OnlyDriver, TckSessionAssumption DEF SessionInv, PlainFits, Tasks
    <2>2. unfinished = t /\ t # 0 /\ open = {<<t, attempts[t]>>}
      BY <1>1, <1>2, <2>1 DEF RunFits, Tests
    <2>3. /\ latest'[t] = out /\ results'[t] = out
          /\ \A u \in Tests : u # t => latest'[u] = latest[u] /\ results'[u] = results[u]
      BY <1>t, <1>1, <1>2 DEF RestTyped
    <2>4. open' = {}
      BY <1>1, <2>2
    <2>5. \A u \in Tests : latest'[u] \notin {"running", "CANCELLED"}
      BY <2>1, <2>2, <2>3 DEF RunFits
    <2>6. \A u \in Tests : ask'[Driver].op = "planned" /\ (u > ask'[Driver].test \/ u = ask'[Driver].test) => latest'[u] = "none"
      <3> SUFFICES ASSUME NEW u \in Tests, ask'[Driver].op = "planned", u > ask'[Driver].test \/ u = ask'[Driver].test
                   PROVE  latest'[u] = "none"
        OBVIOUS
      <3>1. u > t /\ u # t /\ ask[c].op = "planned"
        BY <1>2, <1>3, <2>1 DEF Tests
      <3> QED BY <2>1, <2>3, <3>1 DEF RunFits
    <2>7. \A u \in Tests : latest'[u] = "FAILED" => results'[u] = "FAILED"
      BY <2>1, <2>3 DEF RunFits
    <2>8. RunFits'
      BY <1>1, <1>3, <2>1, <2>4, <2>5, <2>6, <2>7 DEF RunFits
    <2> QED BY <1>1, <1>2, <2>1, <2>8 DEF PlainFits
  <1> QED BY <1>1, <1>2, <1>3, <1>5, <1>6 DEF SessionInv

\* A task interrupted in a test, or while it waits for the lock, keeps the invariant.
LEMMA InterruptFits ==
  ASSUME SessionInv, NEW c \in Tasks, InterruptTask(c)
  PROVE  SessionInv'
  <1>t. LockFits /\ RestTyped
    BY TypesSplit DEF SessionInv
  <1> DEFINE t == ask[c].test
  <1>1. /\ ask[c].op \in Busy /\ Raised(c)
        /\ latest' = IF ask[c].in = "yes" THEN [latest EXCEPT ![t] = "CANCELLED"] ELSE latest
        /\ UNCHANGED <<plain, asks, cancelled, results, attempts, unfinished, closed, outcome, job, released, open>>
    BY DEF InterruptTask, Busy
  <1>2. ask[c].in = "yes" => t \in Tests
    BY <1>t DEF LockFits
  <1>3. /\ LockFits' /\ (\A d \in Tasks : d # c => ask'[d] = ask[d]) /\ ask'[c].in = "no"
        /\ ask'[c].op \in {"close", "gone"}
    BY <1>t, RaisedIs, <1>1
  <1>4. RestTyped'
    BY <1>t, <1>1, <1>2 DEF RestTyped
  <1>5. SessionTypeOK'
    <2>1. LockFits' => (SessionTypeOK' <=> RestTyped')
      BY TypesSplit, PTL
    <2> QED BY <1>3, <1>4, <2>1
  <1>6. PlainFits'
    <2> SUFFICES ASSUME plain = "yes" PROVE PlainFits'
      BY <1>1 DEF PlainFits
    <2>1. c = Driver /\ \A d \in Others : ask'[d].op = "none"
      BY <1>1, <1>3, OnlyDriver, TckSessionAssumption DEF SessionInv, PlainFits, Tasks, Busy
    <2>2. closed = "no" /\ RunFits /\ outcome = "none"
      BY <1>t, <1>1, <2>1 DEF SessionInv, PlainFits, RestTyped, Busy
    <2>3. CASE ask[c].in = "yes"
      <3>1. unfinished = t /\ t \in Tests /\ t # 0
        BY <1>2, <2>1, <2>2, <2>3 DEF RunFits, Tests
      <3>2. latest'[t] = "CANCELLED" /\ \A u \in Tests : u # t => latest'[u] = latest[u]
        BY <1>t, <1>1, <2>3, <3>1 DEF RestTyped
      <3>3. RunFits'
        BY <1>1, <1>3, <2>1, <2>2, <3>1, <3>2 DEF RunFits
      <3> QED BY <1>1, <2>1, <2>2, <3>3 DEF PlainFits
    <2>4. CASE ask[c].in # "yes"
      <3>1. RunFits'
        BY <1>1, <1>3, <2>1, <2>2, <2>4 DEF RunFits
      <3> QED BY <1>1, <2>1, <2>2, <3>1 DEF PlainFits
    <2> QED BY <2>3, <2>4
  <1> QED BY <1>1, <1>3, <1>5, <1>6 DEF SessionInv

\* Nobody is in a test when another task has the lock.
LEMMA AloneInLock ==
  ASSUME SessionInv, NEW c \in Tasks, Enters(c, "close")
  PROVE  LockFits /\ RestTyped /\ Len(queue) > 0 /\ queue[1] = c /\ ask[c].op = "close" /\ \A d \in Tasks : ask[d].in = "no"
  <1>1. LockFits /\ RestTyped
    BY TypesSplit DEF SessionInv
  <1>2. Len(queue) > 0 /\ queue[1] = c /\ ask[c].op = "close"
    BY <1>1 DEF Enters, LockFits
  <1>3. ASSUME NEW d \in Tasks PROVE ask[d].in = "no"
    BY <1>1, <1>2 DEF LockFits, AskRec
  <1> QED BY <1>1, <1>2, <1>3

\* The close, with its verdict, keeps the invariant.
LEMMA CloseFits ==
  ASSUME SessionInv, NEW c \in Tasks, CloseSession(c)
  PROVE  SessionInv'
  <1>1. /\ Enters(c, "close") /\ closed = "no" /\ closed' = "yes" /\ released' = "yes" /\ results' = Ended /\ unfinished' = 0
        /\ open' = IF unfinished = 0 THEN open ELSE open \ {<<unfinished, attempts[unfinished]>>}
        /\ outcome' = Verdict(Ended) /\ job' = IF cancelled = "yes" THEN job ELSE Verdict(Ended)
        /\ Leave(c) /\ UNCHANGED <<plain, asks, cancelled, attempts, latest>>
    BY DEF CloseSession
  <1>2. /\ LockFits /\ RestTyped /\ Len(queue) > 0 /\ queue[1] = c /\ ask[c].op = "close" /\ \A d \in Tasks : ask[d].in = "no"
    BY <1>1, AloneInLock
  <1>3. /\ LockFits' /\ (\A d \in Tasks : d # c => ask'[d] = ask[d]) /\ ask'[c].in = "no" /\ (c = Driver => ask'[c].op = "gone")
    BY <1>1, <1>2, LeaveIs
  <1>4. /\ Ended \in [Tests -> {"COMPLETED", "FAILED", "SKIPPED", "CANCELLED"}] /\ Verdict(Ended) \in {"COMPLETED", "FAILED"}
        /\ \A t \in Tests : Ended[t] \in {"FAILED", "CANCELLED"} => Verdict(Ended) = "FAILED"
        /\ \A t \in Tests : /\ t = unfinished => Ended[t] = "CANCELLED"
                            /\ t # unfinished /\ results[t] = "FAILED" => Ended[t] = "FAILED"
    BY <1>2, EndedIs
  <1>5. RestTyped'
    <2>1. results' \in [Tests -> {"none", "COMPLETED", "FAILED", "SKIPPED", "CANCELLED"}]
      BY <1>1, <1>4
    <2>2. open' \subseteq Tests \X Nat /\ unfinished' \in 0..N
      BY <1>1, <1>2, TckSessionAssumption DEF RestTyped
    <2>3. outcome' \in {"none", "COMPLETED", "FAILED"} /\ job' \in {"RUNNING", "COMPLETED", "FAILED", "CANCELLED"}
      BY <1>1, <1>2, <1>4 DEF RestTyped
    <2> QED BY <1>1, <1>2, <2>1, <2>2, <2>3 DEF RestTyped
  <1>6. SessionTypeOK'
    <2>1. LockFits' => (SessionTypeOK' <=> RestTyped')
      BY TypesSplit, PTL
    <2> QED BY <1>3, <1>5, <2>1
  <1>7. PlainFits'
    <2> SUFFICES ASSUME plain = "yes" PROVE PlainFits'
      BY <1>1 DEF PlainFits
    <2>1. c = Driver /\ \A d \in Others : ask'[d].op = "none"
      BY <1>2, <1>3, OnlyDriver, TckSessionAssumption DEF SessionInv, PlainFits, Tasks
    <2>2. RunFits /\ ask[Driver].in = "no"
      BY <1>1, <1>2, <2>1 DEF SessionInv, PlainFits
    <2>3. unfinished # 0 => latest[unfinished] = "CANCELLED"
      BY <2>2 DEF RunFits
    <2>4. open' = {}
      BY <1>1, <2>2 DEF RunFits
    <2>5. ASSUME NEW t \in Tests, latest[t] = "FAILED" PROVE Ended[t] = "FAILED" /\ Verdict(Ended) = "FAILED"
      <3>1. t # 0
        BY DEF Tests
      <3>2. t # unfinished /\ results[t] = "FAILED"
        BY <2>2, <2>3, <2>5, <3>1 DEF RunFits
      <3> QED BY <1>4, <3>2
    <2>6. ASSUME NEW t \in Tests, latest[t] = "CANCELLED" PROVE Ended[t] = "CANCELLED" /\ Verdict(Ended) = "FAILED"
      BY <1>4, <2>2, <2>6 DEF RunFits
    <2>7. Told'
      BY <1>1, <2>4, <2>5, <2>6 DEF Told, InterruptedTold
    <2> QED BY <1>1, <1>3, <2>1, <2>7 DEF PlainFits
  <1>8. \A d \in Tasks : ask'[d].in = "no"
    BY <1>2, <1>3
  <1> QED BY <1>1, <1>3, <1>6, <1>7, <1>8 DEF SessionInv

\* A close that raises keeps the invariant.
LEMMA CloseRaisesFits ==
  ASSUME SessionInv, NEW c \in Tasks, CloseRaises(c)
  PROVE  SessionInv'
  <1>1. /\ Enters(c, "close") /\ closed = "no" /\ closed' = "yes" /\ released' = "yes" /\ unfinished' = 0
        /\ Raised(c) /\ UNCHANGED <<plain, asks, cancelled, attempts, outcome, job, latest, open>>
    BY DEF CloseRaises
  <1>2. PICK done \in SUBSET Tests : results' = [t \in Tests |-> IF t \in done THEN Ended[t] ELSE results[t]]
    BY DEF CloseRaises
  <1>3. /\ LockFits /\ RestTyped /\ Len(queue) > 0 /\ queue[1] = c /\ ask[c].op = "close" /\ \A d \in Tasks : ask[d].in = "no"
    BY <1>1, AloneInLock
  <1>4. /\ LockFits' /\ (\A d \in Tasks : d # c => ask'[d] = ask[d]) /\ ask'[c].in = "no" /\ ask'[c].op = "gone"
    BY <1>1, <1>3, RaisedIs
  <1>5. RestTyped'
    <2>1. results' \in [Tests -> {"none", "COMPLETED", "FAILED", "SKIPPED", "CANCELLED"}]
      BY <1>2, <1>3, EndedIs DEF RestTyped
    <2> QED BY <1>1, <1>3, <2>1, TckSessionAssumption DEF RestTyped
  <1>6. SessionTypeOK'
    <2>1. LockFits' => (SessionTypeOK' <=> RestTyped')
      BY TypesSplit, PTL
    <2> QED BY <1>4, <1>5, <2>1
  <1>7. PlainFits'
    <2> SUFFICES ASSUME plain = "yes" PROVE PlainFits'
      BY <1>1 DEF PlainFits
    <2>1. c = Driver /\ outcome = "none" /\ \A d \in Others : ask'[d].op = "none"
      BY <1>1, <1>3, <1>4, OnlyDriver, TckSessionAssumption DEF SessionInv, PlainFits, Tasks
    <2> QED BY <1>1, <1>4, <2>1 DEF PlainFits, Told
  <1>8. \A d \in Tasks : ask'[d].in = "no"
    BY <1>3, <1>4
  <1> QED BY <1>1, <1>4, <1>6, <1>7, <1>8 DEF SessionInv

\* Every step keeps the invariant of the session.
LEMMA NextSession == SessionInv /\ [SessionNext]_sessionVars => SessionInv'
  <1> SUFFICES ASSUME SessionInv, [SessionNext]_sessionVars PROVE SessionInv'
    OBVIOUS
  <1>1. CASE StartPlan
    BY <1>1, AsksFit
  <1>2. CASE CancelJob \/ UNCHANGED sessionVars
    <2>1. /\ UNCHANGED <<plain, queue, ask, asks, results, attempts, unfinished, closed, outcome, released, latest, open>>
          /\ cancelled' \in {cancelled, "yes"} /\ job' \in {job, "CANCELLED"}
      BY <1>2 DEF CancelJob, sessionVars
    <2>2. SessionTypeOK' /\ LockFits' /\ PlainFits'
      BY <2>1 DEF SessionInv, SessionTypeOK, LockFits, PlainFits, RunFits, Told, InterruptedTold
    <2> QED BY <2>1, <2>2 DEF SessionInv
  <1>3. ASSUME NEW c \in Tasks, AskClose(c) \/ (\E t \in Tests : AskSingle(c, t)) \/ FoundClosed(c) \/ CloseAgain(c) PROVE SessionInv'
    BY <1>3, AsksFit
  <1>4. ASSUME NEW c \in Tasks, Skip(c) \/ RunTest(c) \/ CloseSession(c) \/ CloseRaises(c) \/ InterruptTask(c) PROVE SessionInv'
    BY <1>4, SkipFits, RunTestFits, CloseFits, CloseRaisesFits, InterruptFits
  <1>5. ASSUME NEW c \in Tasks, NEW out \in {"COMPLETED", "FAILED"}, SessionTestEnds(c, out) PROVE SessionInv'
    BY <1>5, TestEndsFits
  <1> QED BY <1>1, <1>2, <1>3, <1>4, <1>5 DEF SessionNext, Serve

\* A session that closed has released what it held, and the verdict of a plain run tells each
\* test that failed and each it was interrupted in: for any tests, any of them on demand or
\* skipped, any tasks of the host, and an exception or a cancellation wherever a task waits.
THEOREM ClosedTells == SessionSpec => []CloseTells
<1>1. SessionInit => SessionInv
  BY InitSession
<1>2. SessionInv /\ [SessionNext]_sessionVars => SessionInv'
  BY NextSession
<1>3. SessionInv => CloseTells
  <2> SUFFICES ASSUME SessionInv PROVE CloseTells
    OBVIOUS
  <2>1. RestTyped
    BY TypesSplit DEF SessionInv
  <2> QED BY <2>1 DEF SessionInv, CloseTells, PlainFits, Told, RestTyped
<1> QED
  BY <1>1, <1>2, <1>3, PTL DEF SessionSpec

\* The session stays as its verdict describes it (_require_open): nothing runs and no result
\* changes once it closed, however long before the close a request was made.
THEOREM ClosedSessionStays == SessionSpec => [][ClosedStays]_sessionVars
<1>1. SessionInit => SessionInv
  BY InitSession
<1>2. SessionInv /\ [SessionNext]_sessionVars => SessionInv'
  BY NextSession
<1>3. SessionInv /\ [SessionNext]_sessionVars => [ClosedStays]_sessionVars
  <2> SUFFICES ASSUME SessionInv, [SessionNext]_sessionVars, closed = "yes" PROVE attempts' = attempts /\ results' = results
    BY DEF ClosedStays
  <2>1. CASE StartPlan \/ CancelJob
    BY <2>1 DEF StartPlan, CancelJob, sesVars
  <2>2. ASSUME NEW c \in Tasks, AskClose(c) \/ (\E t \in Tests : AskSingle(c, t)) \/ FoundClosed(c) \/ CloseAgain(c) \/ InterruptTask(c)
        PROVE  attempts' = attempts /\ results' = results
    BY <2>2 DEF AskClose, AskSingle, FoundClosed, CloseAgain, InterruptTask, sesVars
  <2>3. ASSUME NEW c \in Tasks, Skip(c) \/ RunTest(c) \/ CloseSession(c) \/ CloseRaises(c) \/ \E out \in {"COMPLETED", "FAILED"} : SessionTestEnds(c, out)
        PROVE  FALSE
    BY <2>3 DEF Skip, RunTest, CloseSession, CloseRaises, SessionTestEnds, SessionInv
  <2>4. CASE UNCHANGED sessionVars
    BY <2>4 DEF sessionVars
  <2> QED BY <2>1, <2>2, <2>3, <2>4 DEF SessionNext, Serve
<1> QED
  BY <1>1, <1>2, <1>3, PTL DEF SessionSpec
=============================================================================
