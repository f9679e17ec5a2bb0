----------------------------- MODULE EventStream ------------------------------
(***************************************************************************)
(* Jobs submitted over the API and the server-sent events that show them:  *)
(* the run endpoints (server/routes/jobs.py, server/streaming/routes.py),  *)
(* the player's one monitor, which hands every event of every job to every *)
(* registered callback, the queue each connection registers, the per-job   *)
(* ring buffer its events are given ids by, and clients that disconnect    *)
(* and come back with the last id they saw.                                *)
(***************************************************************************)
EXTENDS Naturals, FiniteSets, Sequences, SequencesExt, SequenceFilter

CONSTANTS Jobs, Streams, None,
          K,         \* bound: events a run publishes before its end
          MaxPerJob, \* EventBuffer's max_per_job
          MaxCancels \* bound: the jobs cancelled over the API

ASSUME EventStreamAssumption == K \in Nat \ {0} /\ MaxPerJob \in Nat \ {0} /\ MaxCancels \in Nat /\ None \notin Jobs \cup Streams

VARIABLES
    job,      \* each job's status; ABSENT before it is created
    pending,  \* _pending_jobs
    returned, \* the jobs whose ids the API has given out
    cancels,  \* the jobs cancelled over the API
    run,      \* each run: none, task (created, not run yet), going, raised, over
    starts,   \* how often a run of the job was started
    log,      \* the events the run has published
    counter,  \* EventBuffer._counters
    buffer,   \* EventBuffer._buffers
    stream    \* the connections
vars == <<job, pending, returned, cancels, run, starts, log, counter, buffer, stream>>

\* An event of a job: 1..K by number, the end of the run, the end the API reports for a
\* run that raised, and the job.cancelled the API publishes.
End == K + 1
Error == K + 2
Cancelled == 0
Events == [job : Jobs, n : 0..Error]
Numbered == [id : Nat, ev : Events \cup {None}]   \* None: stream.timeout
Off == [pc |-> "off", job |-> None, after |-> 0, from |-> None, ran |-> "no", queue |-> <<>>, out |-> <<>>]

\* A connection: pc off, new (the response has not run), live, closed by the server,
\* lost by the client; ran: connecting started the run; from: the connection it follows.
StreamRec == [pc : {"off", "new", "live", "closed", "lost"}, job : Jobs \cup {None}, after : Nat,
              from : Streams \cup {None}, ran : {"yes", "no"}, queue : Seq(Events), out : Seq(Numbered)]

TypeOK ==
    /\ job \in [Jobs -> {"ABSENT", "QUEUED", "RUNNING", "ENDED", "CANCELLED"}]
    /\ pending \subseteq Jobs /\ returned \subseteq Jobs /\ cancels \subseteq Jobs
    /\ run \in [Jobs -> {"none", "task", "going", "raised", "over"}]
    /\ starts \in [Jobs -> Nat] /\ log \in [Jobs -> Seq(1..Error)]
    /\ counter \in [Jobs -> Nat]
    /\ buffer \in [Jobs -> Seq(Numbered)] /\ \A j \in Jobs : Len(buffer[j]) <= MaxPerJob
    /\ stream \in [Streams -> StreamRec]

Init ==
    /\ job = [j \in Jobs |-> "ABSENT"] /\ pending = {} /\ returned = {} /\ cancels = {}
    /\ run = [j \in Jobs |-> "none"]
    /\ starts = [j \in Jobs |-> 0] /\ log = [j \in Jobs |-> <<>>]
    /\ counter = [j \in Jobs |-> 0] /\ buffer = [j \in Jobs |-> <<>>]
    /\ stream = [s \in Streams |-> Off]

-----------------------------------------------------------------------------
\* POST /run: the job is queued, and runs when its stream connects.
RunYaml(j) ==
    /\ job[j] = "ABSENT" /\ run[j] = "none"
    /\ job' = [job EXCEPT ![j] = "QUEUED"]
    /\ pending' = pending \cup {j}
    /\ returned' = returned \cup {j}
    /\ UNCHANGED <<cancels, starts, run, log, counter, buffer, stream>>

\* POST /run/package: job j is created and returned; the player, given no job id,
\* will make job k of its own for the run.
RunPackage(j, k) ==
    /\ j # k /\ \A x \in {j, k} : job[x] = "ABSENT" /\ run[x] = "none"
    /\ job' = [job EXCEPT ![j] = "QUEUED"]
    /\ returned' = returned \cup {j}
    /\ starts' = [starts EXCEPT ![k] = @ + 1]
    /\ run' = [run EXCEPT ![k] = "task"]
    /\ UNCHANGED <<pending, cancels, log, counter, buffer, stream>>

\* Mutant of Dispatch: only a response that has run is told.
DispatchToLive(e) ==
    stream' = [s \in Streams |-> IF stream[s].pc # "live" THEN stream[s]
                                 ELSE [stream[s] EXCEPT !.queue = Append(@, e)]]

\* ExecutionMonitor._dispatch: every registered callback is called. One whose response
\* is over stays registered and fills a queue nobody reads, which is left out.
Dispatch(e) ==
    stream' = [s \in Streams |-> IF stream[s].pc \notin {"new", "live"} THEN stream[s]
                                 ELSE [stream[s] EXCEPT !.queue = Append(@, e)]]

\* A run publishes an event.
Publish(j, n) ==
    /\ log' = [log EXCEPT ![j] = Append(@, n)]
    /\ Dispatch([job |-> j, n |-> n])
    /\ UNCHANGED <<pending, returned, cancels, starts, counter, buffer>>

\* The task made for the run gets to run: open_session starts the job, whatever it
\* was, and says so; a run with an input missing is refused at once, its job failed.
Start(j) ==
    /\ run[j] = "task"
    /\ \/ run' = [run EXCEPT ![j] = "going"] /\ job' = [job EXCEPT ![j] = "RUNNING"]
       \/ run' = [run EXCEPT ![j] = "raised"] /\ job' = [job EXCEPT ![j] = "ENDED"]
    /\ Publish(j, 1)

Step(j) ==
    /\ run[j] = "going" /\ Len(log[j]) < K
    /\ Publish(j, Len(log[j]) + 1)
    /\ UNCHANGED <<job, run>>

\* The session closes and says the run ended, which leaves a cancelled job so. A run
\* that raised in a test is closed too, and raises again after it.
RunEnds(j) ==
    /\ run[j] = "going"
    /\ \E after \in {"over", "raised"} : run' = [run EXCEPT ![j] = after]
    /\ job' = [job EXCEPT ![j] = IF @ = "RUNNING" THEN "ENDED" ELSE @]
    /\ Publish(j, End)

\* _execute_tck_bg catches the errors it names, says the job ended and fails it, also
\* when both are done already; the run of a package only logs them.
RunRaises(j) ==
    /\ run[j] = "raised" /\ run' = [run EXCEPT ![j] = "over"]
    /\ \/ /\ j \in returned
          /\ job' = [job EXCEPT ![j] = "ENDED"]
          /\ Publish(j, Error)
       \/ UNCHANGED <<job, pending, returned, cancels, starts, log, counter, buffer, stream>>

\* POST /{job}/cancel: the status unless it is final, and job.cancelled in any case.
CancelJob(j) ==
    /\ job[j] # "ABSENT" /\ j \notin cancels /\ Cardinality(cancels) < MaxCancels
    /\ cancels' = cancels \cup {j}
    /\ job' = [job EXCEPT ![j] = IF @ = "ENDED" THEN @ ELSE "CANCELLED"]
    /\ Dispatch([job |-> j, n |-> Cancelled])
    /\ UNCHANGED <<pending, returned, starts, run, log, counter, buffer>>

\* What a connection starts with.
Fresh(j, after, from) ==
    [Off EXCEPT !.pc = "new", !.job = j, !.after = after, !.from = from,
                !.ran = IF j \in pending THEN "yes" ELSE "no"]

\* Mutant of Connect: the pending job is read, not taken.
ConnectAgain(s, j, after, from) ==
    /\ stream[s].pc = "off" /\ job[j] # "ABSENT"
    /\ stream' = [stream EXCEPT ![s] = Fresh(j, after, from)]
    /\ starts' = [starts EXCEPT ![j] = IF j \in pending THEN @ + 1 ELSE @]
    /\ run' = [run EXCEPT ![j] = IF j \in pending THEN "task" ELSE @]
    /\ UNCHANGED <<job, pending, returned, cancels, log, counter, buffer>>

\* GET /{job}/stream: the queue is registered, then a pending job is started.
Connect(s, j, after, from) ==
    /\ stream[s].pc = "off" /\ job[j] # "ABSENT"
    /\ stream' = [stream EXCEPT ![s] = Fresh(j, after, from)]
    /\ pending' = pending \ {j}
    /\ starts' = [starts EXCEPT ![j] = IF j \in pending THEN @ + 1 ELSE @]
    /\ run' = [run EXCEPT ![j] = IF j \in pending THEN "task" ELSE @]
    /\ UNCHANGED <<job, returned, cancels, log, counter, buffer>>

\* The response begins: what is buffered after the id the client named is replayed.
Replay(s) ==
    /\ stream[s].pc = "new"
    /\ stream' = [stream EXCEPT ![s].pc = "live",
                    ![s].out = IF stream[s].from = None THEN <<>>
                               ELSE LET kept == buffer[stream[s].job]
                                    IN  Filter(kept, {e \in ToSet(kept) : e.id > stream[s].after})]
    /\ UNCHANGED <<job, pending, returned, cancels, starts, run, log, counter, buffer>>

\* Mutant of Number: the id is the place in the ring.
NumberByPlace(j, e) ==
    /\ counter' = [counter EXCEPT ![j] = Len(buffer[j]) + 1]
    /\ buffer' = [buffer EXCEPT ![j] =
          LET all == Append(@, [id |-> Len(@) + 1, ev |-> e])
          IN  IF Len(all) > MaxPerJob THEN Tail(all) ELSE all]

\* EventBuffer.next_id and append: the oldest entry goes when the ring is full.
Number(j, e) ==
    /\ counter' = [counter EXCEPT ![j] = @ + 1]
    /\ buffer' = [buffer EXCEPT ![j] =
          LET all == Append(@, [id |-> counter[j] + 1, ev |-> e])
          IN  IF Len(all) > MaxPerJob THEN Tail(all) ELSE all]

\* sse_event_generator takes the next event of the queue, whichever job it is of.
Terminal(e) == e.n \in {Cancelled, End, Error}
Take(s) ==
    LET x == stream[s]
    IN  /\ x.pc = "live" /\ x.queue # <<>>
        /\ Number(x.job, Head(x.queue))
        /\ stream' = [stream EXCEPT ![s].queue = IF Terminal(Head(@)) THEN <<>> ELSE Tail(@),
                                    ![s].out = Append(@, [id |-> counter'[x.job], ev |-> Head(x.queue)]),
                                    ![s].pc = IF Terminal(Head(x.queue)) THEN "closed" ELSE "live"]
        /\ UNCHANGED <<job, pending, returned, cancels, starts, run, log>>

\* Nothing came for too long: stream.timeout, numbered and buffered as any event.
TimeOut(s) ==
    LET x == stream[s]
    IN  /\ x.pc = "live" /\ x.queue = <<>>
        /\ Number(x.job, None)
        /\ stream' = [stream EXCEPT ![s].out = Append(@, [id |-> counter'[x.job], ev |-> None]),
                                    ![s].pc = "closed"]
        /\ UNCHANGED <<job, pending, returned, cancels, starts, run, log>>

\* The client is gone: the generator is cancelled where it waits.
Disconnect(s) ==
    /\ stream[s].pc \in {"new", "live"}
    /\ stream' = [stream EXCEPT ![s].pc = "lost", ![s].queue = <<>>]
    /\ UNCHANGED <<job, pending, returned, cancels, starts, run, log, counter, buffer>>

\* A client connects for the first time, or follows a connection it lost.
LastId(s) == IF stream[s].out = <<>> THEN 0 ELSE Last(stream[s].out).id
Client(s) ==
    \/ \E j \in Jobs : Connect(s, j, 0, None)
    \/ \E f \in Streams : /\ stream[f].pc \in {"lost", "closed"}
                          /\ Connect(s, stream[f].job, LastId(f), f)

Next ==
    \/ \E j \in Jobs : RunYaml(j) \/ Start(j) \/ Step(j) \/ RunEnds(j) \/ RunRaises(j) \/ CancelJob(j)
    \/ \E j, k \in Jobs : RunPackage(j, k)
    \/ \E s \in Streams : Client(s) \/ Replay(s) \/ Take(s) \/ TimeOut(s) \/ Disconnect(s)

Spec == Init /\ [][Next]_vars
-----------------------------------------------------------------------------
\* A job runs once at most, however many streams connect to it at whatever moment.
RunsOnce == \A j \in Jobs : starts[j] <= 1

\* The connection that starts a run misses none of its events and gets each once, in
\* order: what it has shown and what is queued for it are what the run published
\* ("after the queue is registered so no events are lost").
RunEvents(j) == [job : {j}, n : 1..Error]
Shown(s) == [i \in DOMAIN stream[s].out |-> stream[s].out[i].ev] \o stream[s].queue
OfRun(s) == Filter(Shown(s), RunEvents(stream[s].job))
StarterMissesNothing ==
    \A s \in Streams : stream[s].ran = "yes" /\ stream[s].pc \in {"new", "live"} =>
        [i \in DOMAIN OfRun(s) |-> OfRun(s)[i].n] = log[stream[s].job]

\* "Every event includes a monotonic id": on a connection ids only rise, through its
\* replay and its live part, whatever other connections number at the same time; the buffer
\* they are replayed from is the tail of all that was numbered for the job, without a gap, and
\* never longer than the ring (EventBuffer; TypeOK, with the other types).
MonotonicIds ==
    /\ TypeOK
    /\ \A s \in Streams : \A i, k \in DOMAIN stream[s].out :
        i < k => stream[s].out[i].id < stream[s].out[k].id
    /\ \A j \in Jobs : \A i \in DOMAIN buffer[j] :
        buffer[j][i].id = counter[j] - Len(buffer[j]) + i

-----------------------------------------------------------------------------
\* "Supports reconnection: send Last-Event-ID header to replay missed events": a
\* client that follows a lost connection has, or will be shown, every event so far.
\* The code does not keep this one (README, divergences); no run lists it.
ReconnectMissesNothing ==
    \A s \in Streams : stream[s].pc = "live" /\ stream[s].from # None
                       /\ stream[stream[s].from].ran = "yes" =>
        \A i \in DOMAIN log[stream[s].job] :
            LET e == [job |-> stream[s].job, n |-> log[stream[s].job][i]]
            IN  \/ \E k \in DOMAIN Shown(s) : Shown(s)[k] = e
                \/ \E k \in DOMAIN stream[stream[s].from].out : stream[stream[s].from].out[k].ev = e
=============================================================================
