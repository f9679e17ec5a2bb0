---------------------------- MODULE InboundCalls ------------------------------
(***************************************************************************)
(* How the server answers the calls a system under test makes to the mocks *)
(* of several runs at once: the mock registry (server/mock_registry.py),   *)
(* the keys its mocks require (server/mock_keys.py), the addresses of runs *)
(* (server/inbound/run_scope.py), the callback manager's tables, and the   *)
(* inbound route (server/routes/callbacks.py) that reads all four, with    *)
(* its awaits: the body of a POST, and a mock whose handler is async.      *)
(*                                                                         *)
(* A key path is [run, path]; run = NoRun is a bare path.  The mock, guard *)
(* and listener of a key path are kept per method, under [run, path, meth].*)
(***************************************************************************)
EXTENDS Naturals, FiniteSets, Sequences, SequencesExt

CONSTANTS Runs, NoRun,
          Paths, Methods, Bodied,  \* Bodied: the methods whose body is waiting
          Mocks,       \* the [run, path, meth] the runs' tests arm
          Requests, NoRequest,
          MaxRunKeys,  \* _MAX_RUN_KEYS
          MaxArms,     \* bound: mock/api steps each run executes
          Modes        \* how the server runs, and which mocks have an async handler

Addrs == [run : Runs \cup {NoRun}, path : Paths]
Keys == [run : Runs \cup {NoRun}, path : Paths, meth : Methods]
RunKeys == [run : Runs, path : Paths, meth : Methods]

ASSUME InboundAssumption ==
    /\ IsFiniteSet(Runs) /\ Paths # {} /\ Methods # {}
    /\ NoRun \notin Runs /\ NoRequest \notin Requests
    /\ Bodied \subseteq Methods /\ Mocks \subseteq RunKeys
    /\ MaxRunKeys \in Nat \ {0} /\ MaxArms \in [Runs -> Nat]
    /\ Modes \subseteq [on : {"loop", "thread"}, slow : SUBSET Mocks]

\* The key minted for a run: the n-th one it was given.  NoKey: none was sent or required.
NoKey == [run |-> NoRun, n |-> 0]
MintedOf(r) == [run : {r}, n : 1..MaxArms[r]]
KeyValues == (UNION {MintedOf(r) : r \in Runs}) \cup {NoKey}

VARIABLES
    mode,      \* on: the loop of the runs, or a thread of its own; slow: the async mocks
    routes,    \* _mock_routes: the keys with a mock
    guards,    \* _guards[key], NoKey when there is none
    runKeys,   \* _run_keys, oldest first
    minted,    \* how often each run's key was minted
    listeners, \* _listeners[key]: none, open, answered, refused
    parked,  \* _buffered[key]
    waiting,   \* _awaited
    runAt,       \* each run: phase and the mock its mock/api step is arming
    held,      \* the runs JobManager.is_held says yes of
    arms,
    call       \* each call: where it stands and what it carries
inboundVars == <<mode, routes, guards, runKeys, minted, listeners, parked, waiting, runAt, held, arms, call>>

regVars == <<mode, routes, guards, runKeys, minted>>
tableVars == <<listeners, parked, waiting>>

\* A call: pc   idle, body (await request.json), admitted, handler (await mock), done
\*         addr, meth, key   what was called, and the key its header carries
\*         at    the key path it was located at
\*         mock  the key of the mock that answers it, when one does
\*         ans   the status it was answered with, 0 before
\*         got   the listener keys it changed: resolved, rejected or buffered at
\*         sole  the runs that served the bare path when it came
Idle == [pc |-> "idle", addr |-> [run |-> NoRun, path |-> CHOOSE p \in Paths : TRUE],
         meth |-> CHOOSE m \in Methods : TRUE, key |-> NoKey,
         at |-> {}, mock |-> {}, ans |-> 0, got |-> {}, sole |-> {}]

CallRec == [pc : {"idle", "body", "admitted", "handler", "done"},
            addr : Addrs, meth : Methods, key : KeyValues, at : SUBSET Addrs, mock : SUBSET RunKeys,
            ans : {0, 200, 401, 404, 409, 500}, got : SUBSET Keys, sole : SUBSET Runs]
RunRec == [pc : {"running", "guarded", "routed", "unrouted", "unguarded", "over"}, arming : SUBSET Mocks]

InboundTypeOK ==
    /\ mode \in Modes
    /\ routes \subseteq RunKeys
    /\ guards \in [Keys -> KeyValues]
    /\ runKeys \in Seq(Runs) /\ Len(runKeys) <= MaxRunKeys
    /\ \A r \in Runs : minted[r] \in 0..MaxArms[r]
    /\ listeners \in [Keys -> {"none", "open", "answered", "refused"}]
    /\ parked \in [Keys -> Requests \cup {NoRequest}]
    /\ waiting \subseteq Keys
    /\ runAt \in [Runs -> RunRec]
    /\ held \subseteq Runs
    /\ \A r \in Runs : arms[r] \in 0..MaxArms[r]
    /\ call \in [Requests -> CallRec]

InboundInit ==
    /\ mode \in Modes
    /\ routes = {} /\ guards = [k \in Keys |-> NoKey]
    /\ runKeys = <<>> /\ minted = [r \in Runs |-> 0]
    /\ listeners = [k \in Keys |-> "none"]
    /\ parked = [k \in Keys |-> NoRequest] /\ waiting = {}
    /\ runAt = [r \in Runs |-> [pc |-> "running", arming |-> {}]]
    /\ held = {} /\ arms = [r \in Runs |-> 0]
    /\ call = [c \in Requests |-> Idle]

-----------------------------------------------------------------------------
(***************************************************************************)
(* Looking up.                                                             *)
(***************************************************************************)
AddrOf(k) == [run |-> k.run, path |-> k.path]
KeyAt(a, m) == [run |-> a.run, path |-> a.path, meth |-> m]
Guarded == {k \in Keys : guards[k] # NoKey}
Listening == {k \in Keys : listeners[k] # "none"}

\* What locate calls registered: every key path with a mock, a guard or a listener.
Registered == {AddrOf(k) : k \in routes \cup Guarded \cup Listening}

\* mock_keys.carries_key_of and carries_any_key_of.
CarriesKeyOf(k, key) == guards[k] # NoKey /\ guards[k] = key
CarriesAnyKeyOf(a, key) == \E m \in Methods : CarriesKeyOf(KeyAt(a, m), key)

\* run_scope.pick: the runs serving bare path p, and those whose key a call carries.
Serving(p) == {r \in Runs : [run |-> r, path |-> p] \in Registered}
Named(p, key) == {r \in Serving(p) : CarriesAnyKeyOf([run |-> r, path |-> p], key)}

\* Mutant of Locate: the first run that serves a bare path is guessed.
LocateGuesses(a, key) ==
    IF a \in Registered \/ a.run # NoRun \/ Serving(a.path) = {} THEN {a}
    ELSE {[run |-> CHOOSE r \in Serving(a.path) : TRUE, path |-> a.path]}

\* locate: the key path a call on a is for, {} when no one run can be told.  An
\* address of a run is its own answer, whether or not the run has registered it.
Locate(a, key) ==
    LET runs == IF Cardinality(Serving(a.path)) <= 1 THEN Serving(a.path)
                ELSE Named(a.path, key)
    IN  IF a \in Registered \/ a.run # NoRun \/ Serving(a.path) = {} THEN {a}
        ELSE IF Cardinality(runs) = 1 THEN {[run |-> r, path |-> a.path] : r \in runs}
        ELSE {}

\* mock_registry.refusal: located again, and held against the guard found there.
Refused(a, m, key) ==
    LET found == Locate(a, key)
    IN  found = {} \/ \E b \in found : guards[KeyAt(b, m)] \notin {NoKey, key}

\* resolve_mock: located again; the mock registered there, if any.
MockAt(a, m, key) == {k \in routes : AddrOf(k) \in Locate(a, key) /\ k.meth = m}

\* on_hold, of the key path a call was located at.
OnHold(a) == a.run \in held \/ (a.run = NoRun /\ held # {})

\* A server on the runs' own loop sees no registration half done.
Quiet == mode.on = "thread" \/ \A r \in Runs : runAt[r].pc \in {"running", "over"}

-----------------------------------------------------------------------------
(***************************************************************************)
(* CallbackManager, by key.                                                *)
(***************************************************************************)

\* register keeps a listener that is open or answered; a buffered call answers a new one.
RegisterListener(k) ==
    IF listeners[k] \in {"open", "answered"} THEN UNCHANGED <<listeners, parked>>
    ELSE /\ listeners' = [listeners EXCEPT ![k] = IF parked[k] = NoRequest THEN "open" ELSE "answered"]
         /\ parked' = [parked EXCEPT ![k] = NoRequest]

\* reject, of a set of keys: those with an open listener.
RejectAt(ks) ==
    listeners' = [k \in Keys |-> IF k \in ks /\ listeners[k] = "open" THEN "refused" ELSE listeners[k]]

Open(ks) == {k \in ks : listeners[k] = "open"}

\* The waits misdirected fails for a call located at a: on the same key path by
\* another method, or of a mock whose key the call carries.
Misdirected(a, key) == {k \in waiting : AddrOf(k) = a \/ CarriesKeyOf(k, key)}

-----------------------------------------------------------------------------
(***************************************************************************)
(* The runs.                                                               *)
(***************************************************************************)

\* run_key: minted on first use, and again once it was dropped as the oldest.
RunKey(r) ==
    IF Contains(runKeys, r) THEN UNCHANGED <<runKeys, minted>>
    ELSE /\ minted' = [minted EXCEPT ![r] = @ + 1]
         /\ runKeys' = LET all == Append(runKeys, r)
                       IN  IF Len(all) > MaxRunKeys THEN Tail(all) ELSE all

\* publish_mock and register_mock: the guard, the response, the listener, in this order.
ArmGuard(r, k) ==
    /\ runAt[r].pc = "running" /\ arms[r] < MaxArms[r] /\ r \notin held
    /\ \A w \in waiting : w.run # r
    /\ k.run = r
    /\ RunKey(r)
    /\ guards' = [guards EXCEPT ![k] = [run |-> r, n |-> minted'[r]]]
    /\ runAt' = [runAt EXCEPT ![r] = [pc |-> "guarded", arming |-> {k}]]
    /\ arms' = [arms EXCEPT ![r] = @ + 1]
    /\ UNCHANGED <<mode, routes, tableVars, held, call>>

ArmRoute(r) ==
    /\ runAt[r].pc = "guarded"
    /\ routes' = routes \cup runAt[r].arming
    /\ runAt' = [runAt EXCEPT ![r].pc = "routed"]
    /\ UNCHANGED <<mode, guards, runKeys, minted, tableVars, held, arms, call>>

ArmListener(r) ==
    /\ runAt[r].pc = "routed"
    /\ \E k \in runAt[r].arming : RegisterListener(k)
    /\ runAt' = [runAt EXCEPT ![r] = [pc |-> "running", arming |-> {}]]
    /\ UNCHANGED <<regVars, waiting, held, arms, call>>

\* mock/wait starts, and ends: by what its listener became, or its timeout.
WaitStarts(k) ==
    /\ runAt[k.run].pc = "running" /\ k.run \notin held
    /\ \A w \in waiting : w.run # k.run
    /\ k \in routes
    /\ RegisterListener(k)
    /\ waiting' = waiting \cup {k}
    /\ UNCHANGED <<regVars, runAt, held, arms, call>>

WaitEndsAt(k) ==
    /\ k \in waiting
    /\ waiting' = waiting \ {k}
    /\ listeners' = [listeners EXCEPT ![k] = "none"]
    /\ UNCHANGED <<regVars, parked, runAt, held, arms, call>>

\* RunHold.pause_point: no wait is under way on a run that is held.
Hold(r) ==
    /\ runAt[r].pc = "running" /\ \A w \in waiting : w.run # r
    /\ held' = IF r \in held THEN held \ {r} ELSE held \cup {r}
    /\ UNCHANGED <<regVars, tableVars, runAt, arms, call>>

\* release_mocks, when the run's records close: its mocks, its guards, then forget_run.
ReleaseRoutes(r) ==
    /\ runAt[r].pc = "running" /\ r \notin held /\ arms[r] > 0
    /\ \A w \in waiting : w.run # r
    /\ routes' = {k \in routes : k.run # r}
    /\ runAt' = [runAt EXCEPT ![r].pc = "unrouted"]
    /\ UNCHANGED <<mode, guards, runKeys, minted, tableVars, held, arms, call>>

ReleaseGuards(r) ==
    /\ runAt[r].pc = "unrouted"
    /\ guards' = [k \in Keys |-> IF k.run = r THEN NoKey ELSE guards[k]]
    /\ runAt' = [runAt EXCEPT ![r].pc = "unguarded"]
    /\ UNCHANGED <<mode, routes, runKeys, minted, tableVars, held, arms, call>>

\* Mutant of ForgetRun: the buffered calls are left behind.
ForgetListeners(r) ==
    /\ runAt[r].pc = "unguarded"
    /\ listeners' = [k \in Keys |-> IF k.run = r THEN "none" ELSE listeners[k]]
    /\ waiting' = {k \in waiting : k.run # r}
    /\ runAt' = [runAt EXCEPT ![r].pc = "over"]
    /\ UNCHANGED <<regVars, parked, held, arms, call>>

ForgetRun(r) ==
    /\ runAt[r].pc = "unguarded"
    /\ listeners' = [k \in Keys |-> IF k.run = r THEN "none" ELSE listeners[k]]
    /\ parked' = [k \in Keys |-> IF k.run = r THEN NoRequest ELSE parked[k]]
    /\ waiting' = {k \in waiting : k.run # r}
    /\ runAt' = [runAt EXCEPT ![r].pc = "over"]
    /\ UNCHANGED <<regVars, held, arms, call>>

-----------------------------------------------------------------------------
(***************************************************************************)
(* answer: the inbound route.  Each step runs to the next await.           *)
(***************************************************************************)
At(x) == CHOOSE a \in x.at : TRUE
Answered(c, x, code, keys) ==
    call' = [call EXCEPT ![c] = [x EXCEPT !.pc = "done", !.ans = code, !.got = keys,
                                          !.at = {}, !.meth = Idle.meth]]

\* The call is matched: no mock and no listener, or resolve and the mock's answer.
Deliver(c, x) ==
    LET k == KeyAt(At(x), x.meth)
    IN  \/ /\ x.mock = {} /\ listeners[k] = "none"
           /\ RejectAt(Misdirected(At(x), x.key))
           /\ Answered(c, x, 404, Open(Misdirected(At(x), x.key)))
           /\ UNCHANGED parked
        \/ /\ x.mock # {} \/ listeners[k] # "none"
           /\ listeners[k] = "open"
           /\ listeners' = [listeners EXCEPT ![k] = "answered"]
           /\ Answered(c, x, 200, {k})
           /\ UNCHANGED parked
        \/ /\ x.mock # {} /\ listeners[k] = "none"
           /\ parked' = [parked EXCEPT ![k] = c]
           /\ Answered(c, x, 200, {k})
           /\ UNCHANGED listeners
        \/ /\ listeners[k] \in {"answered", "refused"}
           /\ Answered(c, x, IF x.mock = {} THEN 404 ELSE 200, {})
           /\ UNCHANGED <<listeners, parked>>

\* resolve_mock, and the rest unless the mock is to be waiting.
Match(c, x) ==
    LET mock == MockAt(At(x), x.meth, x.key)
    IN  \/ /\ mock \cap mode.slow # {}
           /\ call' = [call EXCEPT ![c] = [x EXCEPT !.pc = "handler", !.mock = mock]]
           /\ UNCHANGED <<listeners, parked>>
        \/ /\ mock \cap mode.slow = {}
           /\ Deliver(c, [x EXCEPT !.mock = mock])

\* Once the body is read: a caller the mock does not admit is refused.  A server on
\* a thread of its own may be overtaken before it looks the mock up.
Admit(c, x) ==
    \/ /\ Refused(At(x), x.meth, x.key)
       /\ RejectAt({KeyAt(At(x), x.meth)})
       /\ Answered(c, x, 401, Open({KeyAt(At(x), x.meth)}))
       /\ UNCHANGED parked
    \/ /\ ~Refused(At(x), x.meth, x.key)
       /\ IF mode.on = "thread"
          THEN /\ call' = [call EXCEPT ![c] = [x EXCEPT !.pc = "admitted"]]
               /\ UNCHANGED <<listeners, parked>>
          ELSE Match(c, x)

\* The call comes in: located, then the hold, then its body.
Answer(c, a, m, key) ==
    /\ call[c].pc = "idle" /\ Quiet
    /\ LET found == Locate(a, key)
           x == [Idle EXCEPT !.addr = a, !.meth = m, !.key = key, !.at = found,
                             !.sole = IF a.run = NoRun THEN Serving(a.path) ELSE {}]
       IN  \/ found = {} /\ Answered(c, x, 409, {}) /\ UNCHANGED <<listeners, parked>>
           \/ \E b \in found :
                 \/ /\ OnHold(b)
                    /\ Answered(c, x, 404, {}) /\ UNCHANGED <<listeners, parked>>
                 \/ /\ ~OnHold(b) /\ m \in Bodied
                    /\ call' = [call EXCEPT ![c] = [x EXCEPT !.pc = "body"]]
                    /\ UNCHANGED <<listeners, parked>>
                 \/ ~OnHold(b) /\ m \notin Bodied /\ Admit(c, x)
    /\ UNCHANGED <<regVars, waiting, runAt, held, arms>>

BodyRead(c) ==
    /\ call[c].pc = "body" /\ Quiet
    /\ Admit(c, call[c])
    /\ UNCHANGED <<regVars, waiting, runAt, held, arms>>

Matched(c) ==
    /\ call[c].pc = "admitted"
    /\ Match(c, call[c])
    /\ UNCHANGED <<regVars, waiting, runAt, held, arms>>

\* The async handler of the mock returns, or raises.
HandlerReturns(c) ==
    /\ call[c].pc = "handler" /\ Quiet
    /\ Deliver(c, call[c])
    /\ UNCHANGED <<regVars, waiting, runAt, held, arms>>

HandlerRaises(c) ==
    /\ call[c].pc = "handler"
    /\ Answered(c, call[c], 500, {})
    /\ UNCHANGED <<regVars, tableVars, runAt, held, arms>>

AllOver == (\A r \in Runs : runAt[r].pc = "over") /\ UNCHANGED inboundVars

\* The keys in circulation: what a guard requires, or required of an earlier call.
Sent == KeyValues

InboundNext ==
    \/ \E r \in Runs, k \in Mocks : ArmGuard(r, k)
    \/ \E r \in Runs : ArmRoute(r) \/ ArmListener(r) \/ Hold(r)
                       \/ ReleaseRoutes(r) \/ ReleaseGuards(r) \/ ForgetRun(r)
    \/ \E k \in Mocks : WaitStarts(k) \/ WaitEndsAt(k)
    \/ \E c \in Requests :
          \/ \E a \in Addrs, m \in Methods, key \in Sent :
                key.n <= (IF key.run \in Runs THEN minted[key.run] ELSE 0) /\ Answer(c, a, m, key)
          \/ BodyRead(c) \/ Matched(c) \/ HandlerReturns(c) \/ HandlerRaises(c)
    \/ AllOver

InboundSpec == InboundInit /\ [][InboundNext]_inboundVars

-----------------------------------------------------------------------------
\* A call resolves, fails or is buffered for a run only if it named that run: by the
\* address it called, by the key it carried, or because no other run served the
\* bare path it called ("Guessing would hand one run's call to another", run_scope.pick).
\* And "the mock is never reachable without" what it requires: a call a mock of a run
\* answered carried a key of that run. That holds on the loop of the runs; a server
\* thread gets between the reading of the guard and that of the mock.
OnlyNamedRunTouched ==
    \A c \in Requests :
        /\ \A k \in call[c].got :
            \/ k.run = NoRun
            \/ k.run = call[c].addr.run
            \/ k.run = call[c].key.run
            \/ call[c].addr.run = NoRun /\ call[c].sole = {k.run}
        /\ mode.on = "loop" => \A k \in call[c].mock : call[c].key.run = k.run

\* The tables of the server follow the run (mock_registry, mock_keys, CallbackManager).
\* While it runs, every mock of it requires the same key, so that the asset that carries
\* it reaches all of them, unless more runs were given keys than the table holds. Once it has
\* ended nothing is kept at its address: no mock, no guard, no listener, and no call buffered
\* for a wait that will never come. The latter holds as long as no call is overtaken between
\* being matched and delivered: an async handler is awaited there, and a server thread is not
\* alone.  (With the types of the tables.)
TablesFollowRun ==
    /\ InboundTypeOK
    /\ \A k1, k2 \in Guarded : k1.run = k2.run /\ guards[k1] # guards[k2] =>
            Cardinality({r \in Runs : minted[r] > 0}) > MaxRunKeys
    /\ mode.on = "loop" /\ mode.slow = {} => \A k \in RunKeys : runAt[k.run].pc = "over" =>
        /\ k \notin routes \cup waiting
        /\ guards[k] = NoKey /\ listeners[k] = "none" /\ parked[k] = NoRequest
=============================================================================
