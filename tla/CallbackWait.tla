---------------------------- MODULE CallbackWait -----------------------------
(***************************************************************************)
(* One listener address of the CallbackManager (server/callbacks.py) and   *)
(* the wait of one run on it across pauses (steps/mock/_paused_wait.py).   *)
(*                                                                         *)
(* The run lives on one asyncio loop, modelled as such: ready is the       *)
(* loop's FIFO of handles, and RunHandle runs the first.  Three tasks take *)
(* part: M runs the step (wait_through_pauses), W runs manager.wait, P     *)
(* runs hold.until_pause_requested; M races W against P.  Calls arrive     *)
(* through the inbound route, on the run's loop (a server that runs jobs)  *)
(* or on the thread of a background mock server (threaded).                *)
(***************************************************************************)
EXTENDS Naturals, Sequences, SequencesExt, SequenceFilter

CONSTANTS Calls,       \* inbound calls, each made once
          Timeout,     \* ticks the wait may take
          Rounds,      \* mock/api + mock/wait pairs of the test
          MaxPauses,   \* bound: how often the host pauses the run
          NoCall

ASSUME CallbackWaitAssumption ==
    /\ Timeout \in Nat /\ Rounds \in Nat \ {0} /\ MaxPauses \in Nat /\ NoCall \notin Calls

VARIABLES
    threaded,  \* the inbound route runs on another thread than the run
    futures,   \* every future made for the address, in order: [st, call]
    listener,  \* _listeners[key]: index into futures, 0 when there is none
    buffered,  \* _buffered[key]
    awaited,   \* key \in _awaited
    ready,     \* handles of the run's loop, in the order they run
    M, W, P,   \* where the three tasks are
    wait,      \* W's locals: [fut, cancelled, expired, out]
    gate, request, paused,  \* the job's pause gate, its request, status = PAUSED
    left,      \* ticks left of the timeout
    round, pauses,
    accepted,  \* calls resolve returned True for
    turned,    \* calls resolve returned False for, and calls refused
    arrived,   \* the round each call arrived in (0: not yet)
    ends,      \* how the wait of each round ended, in order: [round, out, call]
    raised     \* a set_result ran on a future that was done (InvalidStateError)

vars == <<threaded, futures, listener, buffered, awaited, ready, M, W, P, wait, gate, request,
          paused, left, round, pauses, accepted, turned, arrived, ends, raised>>

mgrVars  == <<listener, buffered, awaited>>
jobVars  == <<threaded, gate, request, paused, pauses>>
callVars == <<accepted, turned, arrived>>

\* M: idle      before mock/api of the round
\*    armed     the mock is registered, the wait step has not started
\*    racing    blocked in asyncio.wait({wait, paused})
\*    joining   blocked in asyncio.wait({wait})
\*    held      in pause_point, blocked on the gate
\*    over      the last round has ended
\*    closed    the run was released
\* W, P: off, new (created, not run yet), blocked, done
TypeOK ==
    /\ threaded \in BOOLEAN
    /\ futures \in Seq([st : {"pending", "result", "refused", "cancelled"},
                        call : Calls \cup {NoCall}])
    /\ listener \in 0..Len(futures)
    /\ buffered \in Calls \cup {NoCall}
    /\ awaited \in BOOLEAN
    /\ ready \in Seq([k : {"M", "W", "P", "doneW", "doneP", "set", "settle"},
                      f : 0..Len(futures), c : Calls \cup {NoCall}])
    /\ M \in {"idle", "armed", "racing", "joining", "held", "over", "closed"}
    /\ W \in {"off", "new", "blocked", "done"}
    /\ P \in {"off", "new", "blocked", "done"}
    /\ wait \in [fut : 0..Len(futures), cancelled : BOOLEAN, expired : BOOLEAN,
                 out : {"none", "cancelled", "timeout", "result", "refused"}]
    /\ gate \in {"open", "closed"} /\ request \in {"set", "clear"} /\ paused \in BOOLEAN
    /\ left \in 0..Timeout /\ round \in 0..Rounds /\ pauses \in 0..MaxPauses
    /\ accepted \subseteq Calls /\ turned \subseteq Calls
    /\ arrived \in [Calls -> 0..Rounds]
    /\ ends \in Seq([round : 1..Rounds, out : {"timeout", "result", "refused"},
                     call : Calls \cup {NoCall}])
    /\ raised \in BOOLEAN

Handle(k) == [k |-> k, f |-> 0, c |-> NoCall]
FreshWait == [fut |-> 0, cancelled |-> FALSE, expired |-> FALSE, out |-> "none"]

Init ==
    /\ threaded \in BOOLEAN
    /\ futures = <<>> /\ listener = 0 /\ buffered = NoCall /\ awaited = FALSE
    /\ ready = <<>>
    /\ M = "idle" /\ W = "off" /\ P = "off" /\ wait = FreshWait
    /\ gate = "open" /\ request = "clear" /\ paused = FALSE
    /\ left = Timeout /\ round = 1 /\ pauses = 0
    /\ accepted = {} /\ turned = {} /\ arrived = [c \in Calls |-> 0] /\ ends = <<>>
    /\ raised = FALSE

-----------------------------------------------------------------------------
(***************************************************************************)
(* asyncio, as the code uses it.                                           *)
(***************************************************************************)

\* What Future.set_result or cancel schedules: the task blocked on the future.
\* W has one wake-up at most: a future is done once.
Wakes(f) == IF W = "blocked" /\ wait.fut = f THEN <<Handle("W")>> ELSE <<>>

\* Event.set on the gate and on the request: it wakes the task blocked on it, once,
\* and the task goes on even if the event is cleared before it runs.
Wakeable(k) == \A i \in DOMAIN ready : ready[i].k # k
GateSet == IF M = "held" /\ Wakeable("M") THEN <<Handle("M")>> ELSE <<>>
RequestSet == IF P = "blocked" /\ Wakeable("P") THEN <<Handle("P")>> ELSE <<>>

\* W.cancel(): the future it waits on is cancelled; if that is done already, the
\* CancelledError is thrown into W at its next step instead.
CancelTask(q) ==
    IF futures[wait.fut].st = "pending"
    THEN /\ futures' = [futures EXCEPT ![wait.fut].st = "cancelled"]
         /\ ready' = q \o Wakes(wait.fut)
    ELSE /\ UNCHANGED futures
         /\ ready' = q

-----------------------------------------------------------------------------
(***************************************************************************)
(* CallbackManager.                                                        *)
(***************************************************************************)

\* _is_stale: a listener ended by a refusal (or cancelled) serves no new wait.
Stale(f) == futures[f].st \in {"refused", "cancelled"}

\* register: a listener that is there and not stale is kept; else a new future,
\* resolved at once with the call buffered before it existed.
Register ==
    IF listener # 0 /\ ~Stale(listener)
    THEN UNCHANGED <<futures, listener, buffered>>
    ELSE /\ futures' = Append(futures,
                IF buffered = NoCall THEN [st |-> "pending", call |-> NoCall]
                ELSE [st |-> "result", call |-> buffered])
         /\ listener' = Len(futures) + 1
         /\ buffered' = NoCall

\* The route reaches the manager only for an address with a mock or a listener:
\* the mock stays registered between two waits, until the run is released.
MockUp == M # "closed" /\ (M # "idle" \/ round > 1)

\* resolve, called by the inbound route for call c.
Resolve(c) ==
    /\ c \notin accepted \cup turned
    /\ MockUp
    /\ arrived' = [arrived EXCEPT ![c] = round]
    /\ \/ /\ listener # 0 /\ futures[listener].st = "pending"
          /\ IF threaded
             THEN /\ ready' = Append(ready, [k |-> "set", f |-> listener, c |-> c])
                  /\ UNCHANGED futures
             ELSE /\ futures' = [futures EXCEPT ![listener] = [st |-> "result", call |-> c]]
                  /\ ready' = ready \o Wakes(listener)
          /\ accepted' = accepted \cup {c}
          /\ UNCHANGED <<buffered, turned>>
       \/ /\ listener # 0 /\ futures[listener].st # "pending"
          /\ turned' = turned \cup {c}
          /\ UNCHANGED <<futures, ready, buffered, accepted>>
       \/ /\ listener = 0
          /\ buffered' = c
          /\ accepted' = accepted \cup {c}
          /\ UNCHANGED <<futures, ready, turned>>
    /\ UNCHANGED <<listener, awaited, M, W, P, wait, jobVars, left, round, ends, raised>>

\* reject, called by the inbound route for a call it refused: only an open
\* listener is ended, on its own loop and only if nothing ended it first.
Reject(c) ==
    /\ c \notin accepted \cup turned
    /\ MockUp
    /\ turned' = turned \cup {c}
    /\ arrived' = [arrived EXCEPT ![c] = round]
    /\ IF listener # 0 /\ futures[listener].st = "pending"
       THEN IF threaded
            THEN /\ ready' = Append(ready, [k |-> "settle", f |-> listener, c |-> c])
                 /\ UNCHANGED futures
            ELSE /\ futures' = [futures EXCEPT ![listener] = [st |-> "refused", call |-> c]]
                 /\ ready' = ready \o Wakes(listener)
       ELSE UNCHANGED <<futures, ready>>
    /\ UNCHANGED <<mgrVars, M, W, P, wait, jobVars, left, round, accepted, ends, raised>>

\* Mutant of EndWait: a finally that runs only for a wait that failed.
EndWaitKeepsResolved(f, out) ==
    /\ W' = "done"
    /\ wait' = [wait EXCEPT !.fut = f, !.out = out]
    /\ awaited' = FALSE
    /\ listener' = IF out = "result" THEN listener ELSE 0
    /\ ready' = Append(Tail(ready), Handle("doneW"))
    /\ UNCHANGED <<futures, buffered>>

\* manager.wait: the task W, from its start or its wake-up to its next await.
\* Its finally forgets the listener whatever ended the wait.
EndWait(f, out) ==
    /\ W' = "done"
    /\ wait' = [wait EXCEPT !.fut = f, !.out = out]
    /\ awaited' = FALSE
    /\ listener' = 0
    /\ ready' = Append(Tail(ready), Handle("doneW"))
    /\ UNCHANGED <<futures, buffered>>

WStart ==
    /\ W = "new"
    /\ IF listener = 0
       THEN \* no listener: timed out without waiting
            /\ W' = "done"
            /\ wait' = [wait EXCEPT !.out = "timeout"]
            /\ ready' = Append(Tail(ready), Handle("doneW"))
            /\ UNCHANGED <<futures, mgrVars>>
       ELSE IF futures[listener].st # "pending"
       THEN EndWait(listener, futures[listener].st)
       ELSE IF left = 0
       THEN \* wait_for with nothing left of the timeout cancels the future first
            /\ W' = "blocked"
            /\ wait' = [wait EXCEPT !.fut = listener, !.expired = TRUE]
            /\ awaited' = TRUE
            /\ futures' = [futures EXCEPT ![listener].st = "cancelled"]
            /\ ready' = Append(Tail(ready), Handle("W"))
            /\ UNCHANGED <<listener, buffered>>
       ELSE /\ W' = "blocked"
            /\ wait' = [wait EXCEPT !.fut = listener]
            /\ awaited' = TRUE
            /\ ready' = Tail(ready)
            /\ UNCHANGED <<futures, listener, buffered>>

WWakes ==
    /\ W = "blocked"
    /\ EndWait(wait.fut, IF wait.cancelled THEN "cancelled"
               ELSE IF wait.expired THEN "timeout"
               ELSE futures[wait.fut].st)

\* wait_for's timer: the task is cancelled for the timeout.
TimerFires ==
    /\ W = "blocked" /\ left = 0 /\ ~wait.expired
    /\ wait' = [wait EXCEPT !.expired = TRUE]
    /\ CancelTask(ready)
    /\ UNCHANGED <<mgrVars, M, W, P, jobVars, left, round, callVars, ends, raised>>

Tick ==
    /\ W = "blocked" /\ left > 0
    /\ left' = left - 1
    /\ UNCHANGED <<futures, mgrVars, ready, M, W, P, wait, jobVars, round, callVars, ends, raised>>

-----------------------------------------------------------------------------
(***************************************************************************)
(* The step: mock/api, then mock/wait.                                     *)
(***************************************************************************)

\* publish_mock registers the mock and pre-registers its listener.
Arm ==
    /\ M = "idle"
    /\ Register
    /\ M' = "armed"
    /\ left' = Timeout
    /\ UNCHANGED <<awaited, ready, W, P, wait, jobVars, round, callVars, ends, raised>>

\* _wait_unless_paused creates W and P and blocks in asyncio.wait on both.
Race(q) ==
    /\ ready' = q \o <<Handle("W"), Handle("P")>>
    /\ M' = "racing" /\ W' = "new" /\ P' = "new" /\ wait' = FreshWait

\* WaitForCallStep.execute.
StartWait ==
    /\ M = "armed"
    /\ Register
    /\ Race(ready)
    /\ UNCHANGED <<awaited, jobVars, left, round, callVars, ends, raised>>

\* A mock the test never waits on: the next step arms it again.
SkipWait ==
    /\ M = "armed" /\ round < Rounds
    /\ M' = "idle"
    /\ round' = round + 1
    /\ UNCHANGED <<futures, mgrVars, ready, W, P, wait, jobVars, left, callVars, ends, raised>>

\* The run's records close: forget_run drops all that is kept for the address.
\* A listener left open is cancelled on its loop, where nothing waits on it.
Release ==
    /\ M = "over"
    /\ M' = "closed"
    /\ listener' = 0 /\ buffered' = NoCall /\ awaited' = FALSE
    /\ futures' = IF listener # 0 /\ futures[listener].st = "pending"
                  THEN [futures EXCEPT ![listener].st = "cancelled"] ELSE futures
    /\ UNCHANGED <<ready, W, P, wait, jobVars, left, round, callVars, ends, raised>>

\* What M does once it knows how the wait went.
Finish ==
    /\ W' = "off" /\ P' = "off"
    /\ ends' = Append(ends, [round |-> round, out |-> wait.out,
                             call |-> IF wait.fut = 0 \/ wait.out = "timeout" THEN NoCall
                                      ELSE futures[wait.fut].call])
    /\ M' = IF round = Rounds THEN "over" ELSE "idle"
    /\ round' = IF round = Rounds THEN round ELSE round + 1

\* pause_point of a wait that stopped for the pause, then the wait again.
Suspend ==
    \/ /\ gate = "closed"
       /\ M' = "held" /\ W' = "off"
       /\ ready' = Tail(ready)
       /\ UNCHANGED <<futures, mgrVars, wait, P, request>>
    \/ /\ gate = "open"
       /\ request' = "clear"
       /\ Register
       /\ Race(Tail(ready))
       /\ UNCHANGED awaited

\* The handles left when M leaves asyncio.wait: those of a P that was cancelled,
\* and completions of the wait M has left, do nothing when they run.
Rest(stale) == Filter(Tail(ready), {h \in ToSet(ready) : h.k \notin stale})

\* M wakes from asyncio.wait: P is cancelled, and W too unless it is done.
MDecides ==
    \/ /\ M = "racing" /\ W # "done"
       /\ M' = "joining" /\ P' = "off"
       /\ wait' = [wait EXCEPT !.cancelled = TRUE]
       /\ CancelTask(Rest({"P", "doneP"}))
       /\ UNCHANGED <<mgrVars, W, request, round, ends>>
    \/ /\ M \in {"racing", "joining"} /\ W = "done" /\ wait.out # "cancelled"
       /\ Finish
       /\ ready' = Rest({"P", "doneP", "doneW"})
       /\ UNCHANGED <<futures, mgrVars, wait, request>>
    \/ /\ M = "joining" /\ W = "done" /\ wait.out = "cancelled"
       /\ Suspend
       /\ UNCHANGED <<round, ends>>

\* Mutant of MResumes: the wait goes on without a listener of its own.
MResumesUnregistered ==
    /\ M = "held"
    /\ request' = "clear"
    /\ Race(Tail(ready))
    /\ UNCHANGED <<futures, mgrVars, round, ends>>

\* pause_point after the gate was set, and the wait for the time that was left.
MResumes ==
    /\ M = "held"
    /\ request' = "clear"
    /\ Register
    /\ Race(Tail(ready))
    /\ UNCHANGED <<awaited, round, ends>>

\* until_pause_requested: P runs from its start, or after the request was set.
PRuns(woken) ==
    /\ IF ~woken /\ request = "clear"
       THEN P' = "blocked" /\ ready' = Tail(ready) /\ UNCHANGED request
       ELSE IF gate = "closed"
       THEN P' = "done" /\ ready' = Append(Tail(ready), Handle("doneP")) /\ UNCHANGED request
       ELSE P' = "blocked" /\ ready' = Tail(ready) /\ request' = "clear"
    /\ UNCHANGED <<futures, mgrVars, M, W, wait, round, ends>>

\* asyncio.wait's _on_completion: the first one wakes M.
OnCompletion(k) ==
    /\ ready' = IF \/ M = "racing" /\ Wakeable("M")
                   \/ M = "joining" /\ k = "doneW"
                THEN Append(Tail(ready), Handle("M"))
                ELSE Tail(ready)
    /\ UNCHANGED <<futures, mgrVars, M, W, P, wait, request, round, ends>>

\* A callback another thread scheduled.
Scheduled(h) ==
    LET open == futures[h.f].st = "pending"
        st == IF h.k = "set" THEN "result" ELSE "refused"
    IN  /\ futures' = IF open THEN [futures EXCEPT ![h.f] = [st |-> st, call |-> h.c]]
                      ELSE futures
        /\ ready' = Tail(ready) \o (IF open THEN Wakes(h.f) ELSE <<>>)
        /\ raised' = (raised \/ (h.k = "set" /\ ~open))
        /\ UNCHANGED <<mgrVars, M, W, P, wait, request, round, ends>>

RunHandle ==
    /\ ready # <<>>
    /\ LET h == Head(ready)
       IN  \/ h.k = "W" /\ (WStart \/ WWakes) /\ UNCHANGED <<M, P, request, round, ends, raised>>
           \/ h.k = "P" /\ PRuns(P = "blocked") /\ UNCHANGED raised
           \/ h.k \in {"doneW", "doneP"} /\ OnCompletion(h.k) /\ UNCHANGED raised
           \/ h.k = "M" /\ (MDecides \/ MResumes) /\ UNCHANGED raised
           \/ h.k \in {"set", "settle"} /\ Scheduled(h)
    /\ UNCHANGED <<threaded, gate, paused, pauses, left, callVars>>

-----------------------------------------------------------------------------
(***************************************************************************)
(* The host: JobManager.pause and resume.                                  *)
(***************************************************************************)

Pause ==
    /\ ~paused /\ pauses < MaxPauses /\ M \notin {"over", "closed"}
    /\ paused' = TRUE
    /\ gate' = "closed"
    /\ request' = "set"
    /\ ready' = ready \o RequestSet
    /\ pauses' = pauses + 1
    /\ UNCHANGED <<threaded, futures, mgrVars, M, W, P, wait, left, round, callVars, ends, raised>>

\* Mutant of Resume: the status changes, the gate stays closed.
ResumeKeepsGate ==
    /\ paused
    /\ paused' = FALSE
    /\ request' = "clear"
    /\ UNCHANGED <<threaded, futures, mgrVars, ready, M, W, P, wait, gate, pauses, left, round, callVars, ends, raised>>

Resume ==
    /\ paused
    /\ paused' = FALSE
    /\ gate' = "open"
    /\ request' = "clear"
    /\ ready' = ready \o GateSet
    /\ UNCHANGED <<threaded, futures, mgrVars, M, W, P, wait, pauses, left, round, callVars, ends, raised>>

Over == M = "closed" /\ UNCHANGED vars

Loop == RunHandle \/ TimerFires \/ Tick \/ Arm \/ StartWait \/ SkipWait \/ Release
Next == Loop \/ Pause \/ Resume \/ (\E c \in Calls : Resolve(c) \/ Reject(c)) \/ Over

Spec == Init /\ [][Next]_vars
FairSpec == Spec /\ WF_vars(RunHandle) /\ WF_vars(TimerFires) /\ WF_vars(Tick)
                 /\ WF_vars(Arm) /\ WF_vars(StartWait)
-----------------------------------------------------------------------------
\* A wait under way listens on the listener that is registered, and on no other: what
\* resolve and reject find is what the wait is blocked on, and awaited() names the
\* address exactly then.  A held run has closed its listener: a call that comes late is
\* kept for the wait after the resume, not given to the one that stopped.  So a wait times
\* out only when all of its timeout was spent waiting: the time the run is held does not
\* count, and no wait finds its listener gone.  (With the types of the tables.)
WaitsOnListener ==
    /\ TypeOK
    /\ W = "blocked" <=> awaited
    /\ W = "blocked" => listener = wait.fut
    /\ M = "held" => listener = 0 /\ ~awaited
    /\ W = "done" /\ wait.out = "timeout" => left = 0

Delivery == INSTANCE CallDelivery WITH taken <- accepted, refused <- turned, came <- arrived, upset <- raised

\* The futures, tasks and pauses of CallbackManager and wait_through_pauses deliver calls as
\* CallDelivery says: a call ends one wait at most, because the wait that took it leaves
\* nothing behind that the next wait on the address could mistake for a call of its own; a
\* refused call fails only the wait of the round it came in (_is_stale); and on the run's own
\* loop no call is set on a future that is done already. From the thread of the mock server it
\* may be: resolve schedules set_result without looking again, as reject does.
DeliversCalls == Delivery!DeliverySpec

\* A run that is not left paused ends its wait, by a call or by its timeout.
WaitEnds == <>[]~paused => (M = "racing" ~> M \in {"idle", "over"})

-----------------------------------------------------------------------------
\* _wait_unless_paused: "A call that arrives in the same moment as the pause
\* wins": the wait is never cancelled with its call in the future.
CallWinsOverPause ==
    W = "done" /\ wait.out = "cancelled" => futures[wait.fut].st # "result"
=============================================================================
