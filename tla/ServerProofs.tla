----------------------------- MODULE ServerProofs -----------------------------
(***************************************************************************)
(* What is promised of the server that runs share, proved for any number   *)
(* of runs, paths, mocks, calls, jobs and connections, any length of run   *)
(* and any size of the ring.  Of the calls a system under test makes to    *)
(* the mocks of several runs: a call touches no run it does not name, and  *)
(* the tables follow the runs.  Of the jobs submitted over the API and the *)
(* streams that show them: a job runs at most once, ids only rise on a     *)
(* connection, and the connection that starts a run misses nothing.        *)
(***************************************************************************)
EXTENDS InboundCalls, EventStream, SequenceFilterProofs, FiniteSetTheorems, FunctionTheorems, TLAPS

(***************************************************************************)
(* The invariant.                                                          *)
(***************************************************************************)

\* The tables that TypeOK leaves open, and a key minted for every arm at most.
CountsFit ==
    /\ minted \in [Runs -> Nat] /\ arms \in [Runs -> Nat]
    /\ \A r \in Runs : minted[r] <= arms[r] /\ arms[r] <= MaxArms[r]

\* A guard requires a key that was minted for the run of the mock.
GuardsOwn ==
    \A k \in Keys : guards[k] # NoKey =>
        k.run \in Runs /\ guards[k].run = k.run /\ guards[k].n \in 1..minted[k.run]
        /\ guards[k] = [run |-> k.run, n |-> guards[k].n]

\* A mock that is armed, or being armed, is guarded; released in the order of release_mocks.
RoutesFit ==
    /\ \A r \in Runs : runAt[r].pc \in {"guarded", "routed"} =>
          \A k \in runAt[r].arming : k.run = r /\ guards[k] # NoKey
    /\ \A k \in routes : guards[k] # NoKey /\ runAt[k.run].pc \notin {"unrouted", "unguarded", "over"}
ReleasedFit ==
    \A k \in RunKeys :
        /\ runAt[k.run].pc \in {"unguarded", "over"} => guards[k] = NoKey
        /\ runAt[k.run].pc = "over" =>
              k \notin waiting /\ (mode.on = "loop" /\ mode.slow = {} => listeners[k] = "none" /\ parked[k] = NoRequest)

\* The table of keys: whom it names once was given a key, and whoever was given one is
\* named, and was given no other, until more runs were than it holds.
Overflow == Cardinality({r \in Runs : minted[r] > 0}) > MaxRunKeys
TableFits ==
    /\ \A i \in 1..Len(runKeys) : minted[runKeys[i]] > 0
    /\ \A i, j \in 1..Len(runKeys) : runKeys[i] = runKeys[j] => i = j
    /\ ~Overflow => \A r \in Runs : minted[r] <= 1 /\ (minted[r] > 0 => Contains(runKeys, r))

\* A call names run b.run: by its address, by its key, or because nobody else served its path.
Names(x, b) ==
    b.run = NoRun \/ b.run = x.addr.run \/ b.run = x.key.run \/ (x.addr.run = NoRun /\ x.sole = {b.run})
CallOK(x, md) ==
    /\ x.pc \in {"body", "admitted", "handler"} => \E b \in Addrs : x.at = {b} /\ Names(x, b)
    /\ x.pc # "done" => x.got = {}
    /\ \A k \in x.got : Names(x, k)
    /\ md.on = "loop" => x.pc # "admitted" /\ \A k \in x.mock : x.key.run = k.run
    /\ md.slow = {} => x.pc # "handler"
    /\ x.pc \in {"idle", "body", "admitted"} => x.mock = {}
CallsFit == \A c \in Requests : CallOK(call[c], mode)

InboundInv ==
    /\ InboundTypeOK /\ CountsFit /\ GuardsOwn /\ RoutesFit /\ ReleasedFit /\ TableFits /\ CallsFit

-----------------------------------------------------------------------------
(***************************************************************************)
(* The table of keys.                                                      *)
(***************************************************************************)

\* As many runs are in the table as it has entries.
LEMMA EntriesCounted ==
  ASSUME NEW q \in Seq(Runs), \A i, j \in 1..Len(q) : q[i] = q[j] => i = j, NEW S \in SUBSET Runs,
         \A i \in 1..Len(q) : q[i] \in S
  PROVE  Cardinality(S) \in Nat /\ Len(q) <= Cardinality(S)
  <1> DEFINE T == {q[i] : i \in 1..Len(q)}
  <1>1. Len(q) \in Nat /\ q \in [1..Len(q) -> T]
    OBVIOUS
  <1>2. q \in Bijection(1..Len(q), T)
    <2>1. \A t \in T : \E i \in 1..Len(q) : q[i] = t
      OBVIOUS
    <2> HIDE DEF T
    <2> QED BY <1>1, <2>1, Fun_IsBij
  <1>3. ExistsBijection(1..Len(q), T)
    BY <1>2 DEF ExistsBijection
  <1>4. T \in SUBSET S
    OBVIOUS
  <1> HIDE DEF T
  <1>5. Cardinality(T) = Len(q)
    BY <1>1, <1>3, FS_CountingElements
  <1>6. IsFiniteSet(S)
    BY InboundAssumption, FS_Subset
  <1> QED BY <1>4, <1>5, <1>6, FS_Subset, FS_CardinalityType

\* More runs with keys: a table that overflowed has overflowed.
LEMMA MoreMinted ==
  ASSUME NEW S \in SUBSET Runs, NEW U \in SUBSET Runs, S \subseteq U
  PROVE  Cardinality(S) \in Nat /\ Cardinality(U) \in Nat /\ Cardinality(S) <= Cardinality(U)
  <1>1. IsFiniteSet(U)
    BY InboundAssumption, FS_Subset
  <1> QED BY <1>1, FS_Subset, FS_CardinalityType

\* The n-th key of a run is minted only once it lost its place, to more runs than there is place for.
LEMMA RunKeyDoes ==
  ASSUME InboundInv, NEW r \in Runs, arms[r] < MaxArms[r], RunKey(r)
  PROVE  /\ minted' \in [Runs -> Nat] /\ minted'[r] \in 1..(arms[r] + 1) /\ \A s \in Runs : s # r => minted'[s] = minted[s]
         /\ minted'[r] >= minted[r]
         /\ runKeys' \in Seq(Runs) /\ Len(runKeys') <= MaxRunKeys
         /\ TableFits'
  <1> DEFINE M == {s \in Runs : minted[s] > 0}
             N == {s \in Runs : minted'[s] > 0}
  <1>1. /\ minted \in [Runs -> Nat] /\ arms \in [Runs -> Nat] /\ minted[r] <= arms[r] /\ TableFits
        /\ runKeys \in Seq(Runs) /\ Len(runKeys) <= MaxRunKeys /\ MaxRunKeys \in Nat \ {0}
    BY InboundAssumption DEF InboundInv, CountsFit, InboundTypeOK
  <1>2. CASE Contains(runKeys, r)
    <2>1. UNCHANGED <<runKeys, minted>>
      BY <1>2 DEF RunKey
    <2>2. minted[r] > 0
      BY <1>1, <1>2 DEF Contains, TableFits
    <2>3. TableFits'
      BY <1>1, <2>1 DEF TableFits, Overflow, Contains
    <2> QED BY <1>1, <2>1, <2>2, <2>3
  <1>3. CASE ~Contains(runKeys, r)
    <2> DEFINE all == Append(runKeys, r)
    <2>1. minted' = [minted EXCEPT ![r] = @ + 1] /\ runKeys' = IF Len(all) > MaxRunKeys THEN Tail(all) ELSE all
      BY <1>3 DEF RunKey
    <2>2. /\ all \in Seq(Runs) /\ Len(all) = Len(runKeys) + 1 /\ Len(runKeys) \in Nat /\ all[Len(runKeys) + 1] = r
          /\ \A i \in 1..Len(runKeys) : all[i] = runKeys[i]
      BY <1>1
    <2>3. minted' \in [Runs -> Nat] /\ minted'[r] = minted[r] + 1 /\ \A s \in Runs : s # r => minted'[s] = minted[s]
      BY <1>1, <2>1
    <2> HIDE DEF all
    <2>4. \A i \in 1..Len(all) : i \in 1..Len(runKeys) \/ i = Len(runKeys) + 1
      BY <2>2
    <2>5. \A i \in 1..Len(runKeys) : runKeys[i] \in Runs /\ runKeys[i] # r /\ minted[runKeys[i]] > 0
      <3>1. \A i \in 1..Len(runKeys) : runKeys[i] \in Runs
        BY <1>1
      <3>2. \A i \in 1..Len(runKeys) : runKeys[i] # r
        BY <1>3 DEF Contains
      <3> QED BY <1>1, <3>1, <3>2 DEF TableFits
    <2>6. \A i \in 1..Len(all) : all[i] \in Runs /\ minted'[all[i]] > 0
      <3> SUFFICES ASSUME NEW i \in 1..Len(all) PROVE all[i] \in Runs /\ minted'[all[i]] > 0
        OBVIOUS
      <3>1. CASE i \in 1..Len(runKeys)
        <4>1. all[i] = runKeys[i] /\ runKeys[i] \in Runs /\ minted'[runKeys[i]] = minted[runKeys[i]]
          BY <2>2, <2>3, <2>5, <3>1
        <4> QED BY <2>5, <3>1, <4>1
      <3>2. CASE i = Len(runKeys) + 1
        BY <1>1, <2>2, <2>3, <3>2
      <3> QED BY <2>4, <3>1, <3>2
    <2>7. ASSUME NEW i \in 1..Len(all), NEW j \in 1..Len(all), all[i] = all[j] PROVE i = j
      <3>1. \A m, n \in 1..Len(runKeys) : runKeys[m] = runKeys[n] => m = n
        BY <1>1 DEF TableFits
      <3> QED BY <2>2, <2>4, <2>5, <2>7, <3>1
    <2>8. M \subseteq N
      <3>1. ASSUME NEW s \in Runs, minted[s] > 0 PROVE minted'[s] > 0
        <4>1. minted[s] \in Nat /\ minted'[s] \in {minted[s], minted[s] + 1}
          BY <1>1, <2>3
        <4> QED BY <3>1, <4>1
      <3> QED BY <3>1
    <2>9. N \in SUBSET Runs /\ \A i \in 1..Len(all) : all[i] \in N
      BY <2>6
    <2>10. M \in SUBSET Runs
      OBVIOUS
    <2>11. (Overflow <=> Cardinality(M) > MaxRunKeys) /\ (Overflow' <=> Cardinality(N) > MaxRunKeys)
      BY DEF Overflow
    <2> HIDE DEF M, N
    <2>12. Cardinality(M) \in Nat /\ Cardinality(N) \in Nat /\ Cardinality(M) <= Cardinality(N) /\ Len(all) <= Cardinality(N)
      BY <2>2, <2>7, <2>8, <2>9, <2>10, EntriesCounted, MoreMinted
    <2>13. Len(all) > MaxRunKeys => Overflow'
      BY <1>1, <2>2, <2>11, <2>12
    <2>14. Overflow => Overflow'
      BY <1>1, <2>11, <2>12
    <2>15. /\ runKeys' \in Seq(Runs) /\ Len(runKeys') <= MaxRunKeys
           /\ \A i \in 1..Len(runKeys') : minted'[runKeys'[i]] > 0
           /\ \A i, j \in 1..Len(runKeys') : runKeys'[i] = runKeys'[j] => i = j
      <3>1. CASE Len(all) > MaxRunKeys
        <4>1. runKeys' = Tail(all) /\ all # <<>>
          BY <1>1, <2>1, <2>2, <3>1
        <4>2. /\ runKeys' \in Seq(Runs) /\ Len(runKeys') = Len(runKeys)
              /\ \A i \in 1..Len(runKeys') : i + 1 \in 1..Len(all) /\ runKeys'[i] = all[i + 1]
          BY <2>2, <4>1
        <4>3. ASSUME NEW i \in 1..Len(runKeys'), NEW j \in 1..Len(runKeys'), runKeys'[i] = runKeys'[j] PROVE i = j
          <5>1. i + 1 = j + 1
            BY <2>7, <4>2, <4>3
          <5> QED BY <2>2, <4>2, <5>1
        <4> QED BY <1>1, <2>6, <4>2, <4>3
      <3>2. CASE ~(Len(all) > MaxRunKeys)
        <4>1. runKeys' = all /\ Len(all) <= MaxRunKeys
          BY <1>1, <2>1, <2>2, <3>2
        <4> QED BY <2>2, <2>6, <2>7, <4>1
      <3> QED BY <3>1, <3>2
    <2>16. ~Overflow' => \A s \in Runs : minted'[s] <= 1 /\ (minted'[s] > 0 => Contains(runKeys', s))
      <3> SUFFICES ASSUME ~Overflow', NEW s \in Runs PROVE minted'[s] <= 1 /\ (minted'[s] > 0 => Contains(runKeys', s))
        OBVIOUS
      <3>1. runKeys' = all /\ ~Overflow
        BY <2>1, <2>13, <2>14
      <3>2. \A u \in Runs : minted[u] <= 1 /\ (minted[u] > 0 => Contains(runKeys, u))
        BY <1>1, <3>1 DEF TableFits
      <3>3. CASE s = r
        <4>1. minted[r] = 0
          BY <1>1, <1>3, <3>2
        <4>2. Contains(all, r)
          BY <2>2 DEF Contains
        <4> QED BY <2>3, <3>1, <3>3, <4>1, <4>2
      <3>4. CASE s # r
        <4>1. minted'[s] = minted[s]
          BY <2>3, <3>4
        <4>2. Contains(runKeys, s) => Contains(all, s)
          BY <2>2 DEF Contains
        <4> QED BY <3>1, <3>2, <4>1, <4>2
      <3> QED BY <3>3, <3>4
    <2>17. TableFits'
      BY <2>15, <2>16 DEF TableFits
    <2> QED BY <1>1, <2>3, <2>15, <2>17
  <1> QED BY <1>2, <1>3

-----------------------------------------------------------------------------
(***************************************************************************)
(* The types of what is looked up.                                         *)
(***************************************************************************)

LEMMA KeyTypes ==
  /\ RunKeys \subseteq Keys /\ Mocks \subseteq RunKeys /\ NoKey \in KeyValues /\ NoKey.run = NoRun
  /\ \A k \in Keys : AddrOf(k) \in Addrs /\ AddrOf(k).run = k.run /\ k.run \in Runs \cup {NoRun} /\ KeyAt(AddrOf(k), k.meth) = k
  /\ \A k \in RunKeys : k.run \in Runs
  /\ \A a \in Addrs, m \in Methods : KeyAt(a, m) \in Keys /\ KeyAt(a, m).run = a.run /\ AddrOf(KeyAt(a, m)) = a /\ KeyAt(a, m).meth = m
  /\ \A k \in Keys : k.run # NoRun => k \in RunKeys
  <1>1. Mocks \subseteq RunKeys
    BY InboundAssumption
  <1>2. RunKeys \subseteq Keys
    BY DEF Keys, RunKeys
  <1>3. NoKey \in KeyValues /\ NoKey.run = NoRun
    <2>1. NoKey \in KeyValues
      BY DEF KeyValues
    <2>2. NoKey.run = NoRun
      BY DEF NoKey
    <2> QED BY <2>1, <2>2
  <1>4. ASSUME NEW k \in Keys
        PROVE  /\ AddrOf(k) \in Addrs /\ AddrOf(k).run = k.run /\ k.run \in Runs \cup {NoRun} /\ KeyAt(AddrOf(k), k.meth) = k
               /\ k.run # NoRun => k \in RunKeys
    BY DEF Keys, RunKeys, Addrs, AddrOf, KeyAt
  <1>5. \A k \in RunKeys : k.run \in Runs
    BY DEF RunKeys
  <1>6. ASSUME NEW a \in Addrs, NEW m \in Methods
        PROVE  KeyAt(a, m) \in Keys /\ KeyAt(a, m).run = a.run /\ AddrOf(KeyAt(a, m)) = a /\ KeyAt(a, m).meth = m
    BY DEF Keys, Addrs, AddrOf, KeyAt
  <1> QED BY <1>1, <1>2, <1>3, <1>4, <1>5, <1>6

\* A call that is told a place is told one, of a run it names.
LEMMA LocateNames ==
  ASSUME InboundInv, NEW a \in Addrs, NEW key \in KeyValues
  PROVE  /\ Locate(a, key) \in SUBSET Addrs
         /\ \A b \in Locate(a, key) :
               /\ Locate(a, key) = {b}
               /\ b.run = a.run \/ b.run = key.run \/ (a.run = NoRun /\ Serving(a.path) = {b.run})
         /\ a.run # NoRun => Locate(a, key) = {a}
  <1> DEFINE S == Serving(a.path)
             runs == IF Cardinality(S) <= 1 THEN S ELSE Named(a.path, key)
             there == a \in Registered \/ a.run # NoRun \/ S = {}
  <1>1. Locate(a, key) = IF there THEN {a}
                         ELSE IF Cardinality(runs) = 1 THEN {[run |-> r, path |-> a.path] : r \in runs} ELSE {}
    BY DEF Locate
  <1>2. S \in SUBSET Runs /\ Named(a.path, key) \in SUBSET S
    BY DEF Serving, Named
  <1>3. \A r \in Named(a.path, key) : r = key.run
    <2> SUFFICES ASSUME NEW r \in Named(a.path, key) PROVE r = key.run
      OBVIOUS
    <2> DEFINE b == [run |-> r, path |-> a.path]
    <2>1. r \in Runs /\ CarriesAnyKeyOf(b, key)
      BY <1>2 DEF Named
    <2>2. b \in Addrs /\ b.run = r
      BY <2>1 DEF Addrs
    <2>3. PICK m \in Methods : guards[KeyAt(b, m)] # NoKey /\ guards[KeyAt(b, m)] = key
      BY <2>1 DEF CarriesAnyKeyOf, CarriesKeyOf
    <2> HIDE DEF b
    <2>4. KeyAt(b, m) \in Keys /\ KeyAt(b, m).run = r
      BY <2>2, KeyTypes
    <2>5. GuardsOwn
      BY DEF InboundInv
    <2> QED BY <2>3, <2>4, <2>5 DEF GuardsOwn
  <1>4. \A r \in Runs : [run |-> r, path |-> a.path] \in Addrs /\ [run |-> r, path |-> a.path].run = r
    BY DEF Addrs
  <1>5. ASSUME ~there, Cardinality(runs) = 1
        PROVE  \E r \in Runs : /\ Locate(a, key) = {[run |-> r, path |-> a.path]}
                               /\ r = key.run \/ (a.run = NoRun /\ S = {r})
    <2>1. Locate(a, key) = {[run |-> r, path |-> a.path] : r \in runs} /\ a.run = NoRun
      BY <1>1, <1>5
    <2>2. runs \in SUBSET Runs
      BY <1>2
    <2>3. runs = S \/ runs = Named(a.path, key)
      OBVIOUS
    <2> HIDE DEF runs, S
    <2>4. IsFiniteSet(runs)
      BY <2>2, InboundAssumption, FS_Subset
    <2>5. PICK r : runs = {r}
      BY <1>5, <2>4, FS_Singleton
    <2> QED BY <1>3, <2>1, <2>2, <2>3, <2>5
  <1> HIDE DEF runs
  <1>6. CASE there
    BY <1>1, <1>6
  <1>7. CASE ~there /\ Cardinality(runs) = 1
    <2>1. PICK r \in Runs : Locate(a, key) = {[run |-> r, path |-> a.path]} /\ (r = key.run \/ (a.run = NoRun /\ S = {r}))
      BY <1>5, <1>7
    <2> QED BY <1>4, <1>7, <2>1
  <1>8. CASE ~there /\ Cardinality(runs) # 1
    BY <1>1, <1>8
  <1> QED BY <1>6, <1>7, <1>8

\* The mock that answers a call the mock admits is of the run of the key the call carries.
LEMMA MockCarried ==
  ASSUME InboundInv, NEW a \in Addrs, NEW m \in Methods, NEW key \in KeyValues
  PROVE  /\ MockAt(a, m, key) \in SUBSET RunKeys /\ MockAt(a, m, key) \in SUBSET routes
         /\ a.run # NoRun /\ MockAt(a, m, key) # {} => KeyAt(a, m) \in routes
         /\ ~Refused(a, m, key) => \A k \in MockAt(a, m, key) : key.run = k.run
  <1>1. routes \in SUBSET RunKeys /\ RoutesFit /\ GuardsOwn
    BY DEF InboundInv, InboundTypeOK
  <1>2. ASSUME NEW k \in MockAt(a, m, key)
        PROVE  k \in routes /\ k \in RunKeys /\ k \in Keys /\ AddrOf(k) \in Locate(a, key) /\ k.meth = m /\ KeyAt(AddrOf(k), m) = k
    BY <1>1, KeyTypes DEF MockAt
  <1>3. ASSUME ~Refused(a, m, key), NEW k \in MockAt(a, m, key) PROVE key.run = k.run
    <2>1. guards[k] \in {NoKey, key}
      BY <1>2, <1>3 DEF Refused
    <2>2. guards[k] # NoKey
      BY <1>1, <1>2 DEF RoutesFit
    <2> QED BY <1>1, <1>2, <2>1, <2>2 DEF GuardsOwn
  <1>4. ASSUME a.run # NoRun, NEW k \in MockAt(a, m, key) PROVE KeyAt(a, m) \in routes
    <2>1. AddrOf(k) = a
      BY <1>2, <1>4, LocateNames
    <2> QED BY <1>2, <2>1
  <1> QED BY <1>2, <1>3, <1>4

-----------------------------------------------------------------------------
(***************************************************************************)
(* The calls.                                                              *)
(***************************************************************************)
Kinds == {"none", "open", "answered", "refused"}

\* What a step of a call may do to the tables of the CallbackManager: nothing at the
\* address of a run that is over, if no handler is awaited and no thread overtakes it.
TablesLeft ==
    /\ listeners' \in [Keys -> Kinds] /\ parked' \in [Keys -> Requests \cup {NoRequest}]
    /\ mode.on = "loop" /\ mode.slow = {} =>
          \A k \in RunKeys : runAt[k.run].pc = "over" => listeners'[k] = listeners[k] /\ parked'[k] = parked[k]

\* A move of one call that leaves the tables alone keeps the invariant.
LEMMA CallStepKeeps ==
  ASSUME InboundInv, NEW c \in Requests, NEW y \in CallRec, call' = [call EXCEPT ![c] = y], CallOK(y, mode),
         TablesLeft, UNCHANGED <<regVars, waiting, runAt, held, arms>>
  PROVE  InboundInv'
  <1>1. InboundTypeOK /\ CountsFit /\ GuardsOwn /\ RoutesFit /\ ReleasedFit /\ TableFits /\ CallsFit
    BY DEF InboundInv
  <1>2. UNCHANGED <<mode, routes, guards, runKeys, minted, waiting, runAt, held, arms>>
    BY DEF regVars
  <1>3. call \in [Requests -> CallRec]
    BY <1>1 DEF InboundTypeOK
  <1>4. call' \in [Requests -> CallRec] /\ call'[c] = y /\ \A d \in Requests : d # c => call'[d] = call[d]
    BY <1>3
  <1>5. InboundTypeOK'
    BY <1>1, <1>2, <1>4 DEF InboundTypeOK, TablesLeft, Kinds
  <1>6. CountsFit' /\ GuardsOwn' /\ RoutesFit' /\ TableFits'
    BY <1>1, <1>2 DEF CountsFit, GuardsOwn, RoutesFit, TableFits, Overflow
  <1>7. ReleasedFit'
    BY <1>1, <1>2 DEF ReleasedFit, TablesLeft
  <1>8. CallsFit'
    BY <1>1, <1>2, <1>4 DEF CallsFit
  <1> QED BY <1>5, <1>6, <1>7, <1>8 DEF InboundInv

\* A call is answered.
LEMMA AnsweredKeeps ==
  ASSUME InboundInv, NEW c \in Requests, NEW x \in CallRec, NEW code \in {200, 401, 404, 409, 500}, NEW ks \in SUBSET Keys,
         Answered(c, x, code, ks), \A k \in ks : Names(x, k), mode.on = "loop" => \A k \in x.mock : x.key.run = k.run,
         TablesLeft, UNCHANGED <<regVars, waiting, runAt, held, arms>>
  PROVE  InboundInv'
  <1> DEFINE y == [x EXCEPT !.pc = "done", !.ans = code, !.got = ks, !.at = {}, !.meth = Idle.meth]
  <1>1. Idle.meth \in Methods
    BY InboundAssumption DEF Idle
  <1>2. call' = [call EXCEPT ![c] = y]
    BY DEF Answered
  <1> HIDE DEF Idle
  <1>3. y \in CallRec
    <2> DEFINE n == Idle.meth
               PCs == {"idle", "body", "admitted", "handler", "done"}
               Codes == {0, 200, 401, 404, 409, 500}
    <2>1. n \in Methods /\ "done" \in PCs /\ code \in Codes /\ {} \in SUBSET Addrs
      BY <1>1
    <2>2. x \in [pc : PCs, addr : Addrs, meth : Methods, key : KeyValues, at : SUBSET Addrs, mock : SUBSET RunKeys,
                  ans : Codes, got : SUBSET Keys, sole : SUBSET Runs]
      BY DEF CallRec
    <2> HIDE DEF n, PCs, Codes
    <2>3. [x EXCEPT !.pc = "done", !.ans = code, !.got = ks, !.at = {}, !.meth = n] \in
            [pc : PCs, addr : Addrs, meth : Methods, key : KeyValues, at : SUBSET Addrs, mock : SUBSET RunKeys,
             ans : Codes, got : SUBSET Keys, sole : SUBSET Runs]
      BY <2>1, <2>2
    <2> QED BY <2>3 DEF n, PCs, Codes, CallRec
  <1>4. /\ y.pc = "done" /\ y.got = ks /\ y.mock = x.mock /\ y.key = x.key /\ y.addr = x.addr /\ y.sole = x.sole
    BY DEF CallRec
  <1> HIDE DEF y
  <1>5. CallOK(y, mode)
    BY <1>4 DEF CallOK, Names
  <1> QED BY <1>2, <1>3, <1>5, CallStepKeeps

\* A call under way is at one place, of a run it names.
LEMMA AtIs ==
  ASSUME NEW x \in CallRec, NEW b \in Addrs, x.at = {b}
  PROVE  At(x) = b
  BY DEF At

\* The waits a misdirected call fails are of runs it names.
LEMMA MisdirectedNames ==
  ASSUME InboundInv, NEW x \in CallRec, NEW b \in Addrs, Names(x, b)
  PROVE  Misdirected(b, x.key) \in SUBSET Keys /\ \A k \in Misdirected(b, x.key) : Names(x, k)
  <1>1. waiting \in SUBSET Keys /\ GuardsOwn
    BY DEF InboundInv, InboundTypeOK
  <1>2. ASSUME NEW k \in Misdirected(b, x.key) PROVE k \in Keys /\ Names(x, k)
    <2>1. k \in Keys /\ (AddrOf(k) = b \/ CarriesKeyOf(k, x.key))
      BY <1>1 DEF Misdirected
    <2>2. CASE AddrOf(k) = b
      <3>1. k.run = b.run
        BY <2>1, <2>2, KeyTypes
      <3> QED BY <2>1, <3>1 DEF Names
    <2>3. CASE CarriesKeyOf(k, x.key)
      <3>1. k.run = x.key.run
        BY <1>1, <2>1, <2>3 DEF CarriesKeyOf, GuardsOwn
      <3> QED BY <2>1, <3>1 DEF Names
    <2> QED BY <2>1, <2>2, <2>3
  <1> QED BY <1>2

\* reject fails what is open: a run that is over has no such listener.
LEMMA RejectLeaves ==
  ASSUME InboundInv, NEW ks, RejectAt(ks), UNCHANGED parked
  PROVE  TablesLeft
  <1>1. listeners \in [Keys -> Kinds] /\ parked \in [Keys -> Requests \cup {NoRequest}] /\ ReleasedFit
    BY DEF InboundInv, InboundTypeOK, Kinds
  <1>2. listeners' = [k \in Keys |-> IF k \in ks /\ listeners[k] = "open" THEN "refused" ELSE listeners[k]]
    BY DEF RejectAt
  <1>3. listeners' \in [Keys -> Kinds]
    BY <1>1, <1>2 DEF Kinds
  <1>4. \A k \in RunKeys : listeners[k] = "none" => listeners'[k] = listeners[k]
    BY <1>2, KeyTypes
  <1> QED BY <1>1, <1>3, <1>4 DEF TablesLeft, ReleasedFit

\* Listeners and parked calls that stay as they are are tables left alone.
LEMMA NothingDone ==
  ASSUME InboundInv, UNCHANGED <<listeners, parked>>
  PROVE  TablesLeft
  BY DEF InboundInv, InboundTypeOK, TablesLeft, Kinds

\* The call is matched, resolved, buffered or refused.
LEMMA DeliverKeeps ==
  ASSUME InboundInv, NEW c \in Requests, NEW x \in CallRec, NEW b \in Addrs, x.at = {b}, Names(x, b), Deliver(c, x),
         mode.on = "loop" => \A k \in x.mock : x.key.run = k.run,
         mode.on = "loop" /\ mode.slow = {} /\ b.run # NoRun /\ x.mock # {} => KeyAt(b, x.meth) \in routes,
         UNCHANGED <<regVars, waiting, runAt, held, arms>>
  PROVE  InboundInv'
  <1> DEFINE k == KeyAt(b, x.meth)
  <1>1. At(x) = b
    BY AtIs
  <1>2. x.meth \in Methods
    BY DEF CallRec
  <1>3. k \in Keys /\ k.run = b.run /\ Names(x, k)
    BY <1>2, KeyTypes DEF Names
  <1>4. /\ listeners \in [Keys -> Kinds] /\ parked \in [Keys -> Requests \cup {NoRequest}]
        /\ ReleasedFit /\ RoutesFit /\ routes \in SUBSET RunKeys
    BY DEF InboundInv, InboundTypeOK, Kinds
  <1>5. {k} \in SUBSET Keys /\ \A j \in {k} : Names(x, j)
    BY <1>3
  <1> HIDE DEF k
  <1>6. CASE /\ RejectAt(Misdirected(b, x.key)) /\ Answered(c, x, 404, Open(Misdirected(b, x.key))) /\ UNCHANGED parked
    <2>1. TablesLeft
      BY <1>6, RejectLeaves
    <2>2. Open(Misdirected(b, x.key)) \in SUBSET Keys /\ \A j \in Open(Misdirected(b, x.key)) : Names(x, j)
      BY MisdirectedNames DEF Open
    <2> QED BY <1>6, <2>1, <2>2, AnsweredKeeps
  <1>7. CASE /\ listeners[k] = "open" /\ listeners' = [listeners EXCEPT ![k] = "answered"]
             /\ Answered(c, x, 200, {k}) /\ UNCHANGED parked
    <2>1. listeners' \in [Keys -> Kinds] /\ \A j \in Keys : listeners[j] = "none" => listeners'[j] = listeners[j]
      BY <1>3, <1>4, <1>7 DEF Kinds
    <2>2. TablesLeft
      BY <1>4, <1>7, <2>1, KeyTypes DEF TablesLeft, ReleasedFit
    <2> QED BY <1>5, <1>7, <2>2, AnsweredKeeps
  <1>8. CASE /\ x.mock # {} /\ parked' = [parked EXCEPT ![k] = c] /\ Answered(c, x, 200, {k}) /\ UNCHANGED listeners
    <2>1. parked' \in [Keys -> Requests \cup {NoRequest}] /\ \A j \in Keys : j # k => parked'[j] = parked[j]
      BY <1>3, <1>4, <1>8
    <2>2. ASSUME mode.on = "loop", mode.slow = {}, k \in RunKeys PROVE runAt[k.run].pc # "over"
      <3>1. k.run # NoRun
        BY <2>2, KeyTypes, InboundAssumption
      <3>2. k \in routes
        BY <1>3, <1>8, <2>2, <3>1 DEF k
      <3> QED BY <1>4, <3>2 DEF RoutesFit
    <2>3. TablesLeft
      BY <1>4, <1>8, <2>1, <2>2, KeyTypes DEF TablesLeft
    <2> QED BY <1>5, <1>8, <2>3, AnsweredKeeps
  <1>9. CASE Answered(c, x, IF x.mock = {} THEN 404 ELSE 200, {}) /\ UNCHANGED <<listeners, parked>>
    <2>1. TablesLeft
      BY <1>9, NothingDone
    <2> DEFINE code == IF x.mock = {} THEN 404 ELSE 200
    <2>2. code \in {200, 401, 404, 409, 500} /\ Answered(c, x, code, {})
      BY <1>9
    <2> HIDE DEF code
    <2> QED BY <2>1, <2>2, AnsweredKeeps
  <1> QED BY <1>1, <1>6, <1>7, <1>8, <1>9 DEF Deliver, k

\* The call goes on: to its body, to its mock, to its handler.
LEMMA GoesOnKeeps ==
  ASSUME InboundInv, NEW c \in Requests, NEW x \in CallRec, NEW b \in Addrs, x.at = {b}, Names(x, b), x.got = {},
         NEW p \in {"body", "admitted", "handler"}, NEW mock \in SUBSET RunKeys,
         call' = [call EXCEPT ![c] = [x EXCEPT !.pc = p, !.mock = mock]], UNCHANGED <<listeners, parked>>,
         mode.on = "loop" => p # "admitted" /\ \A k \in mock : x.key.run = k.run,
         mode.slow = {} => p # "handler", p # "handler" => mock = {},
         UNCHANGED <<regVars, waiting, runAt, held, arms>>
  PROVE  InboundInv'
  <1> DEFINE y == [x EXCEPT !.pc = p, !.mock = mock]
  <1>1. /\ y \in CallRec /\ y.pc = p /\ y.mock = mock /\ y.at = {b} /\ y.got = {} /\ y.addr = x.addr /\ y.key = x.key
        /\ y.sole = x.sole
    <2> DEFINE PCs == {"idle", "body", "admitted", "handler", "done"}
               Codes == {0, 200, 401, 404, 409, 500}
               Rec == [pc : PCs, addr : Addrs, meth : Methods, key : KeyValues, at : SUBSET Addrs, mock : SUBSET RunKeys,
                       ans : Codes, got : SUBSET Keys, sole : SUBSET Runs]
    <2>1. CallRec = Rec /\ p \in PCs
      BY DEF CallRec
    <2> HIDE DEF PCs, Codes
    <2> QED BY <2>1
  <1>2. call' = [call EXCEPT ![c] = y]
    OBVIOUS
  <1> HIDE DEF y
  <1>3. CallOK(y, mode)
    BY <1>1 DEF CallOK, Names
  <1>4. TablesLeft
    BY NothingDone
  <1> QED BY <1>1, <1>2, <1>3, <1>4, CallStepKeeps

\* Setting a field to the value it has changes nothing.
LEMMA NoMockYet ==
  ASSUME NEW x \in CallRec, NEW e, x.mock = e, NEW p
  PROVE  [x EXCEPT !.pc = p] = [x EXCEPT !.pc = p, !.mock = e]
  BY ZenonT(60) DEF CallRec

\* resolve_mock, and what follows it. On the loop of the runs the call was admitted by now.
LEMMA MatchKeeps ==
  ASSUME InboundInv, NEW c \in Requests, NEW x \in CallRec, NEW b \in Addrs, x.at = {b}, Names(x, b), x.got = {}, Match(c, x),
         mode.on = "loop" => ~Refused(b, x.meth, x.key), UNCHANGED <<regVars, waiting, runAt, held, arms>>
  PROVE  InboundInv'
  <1> DEFINE mock == MockAt(b, x.meth, x.key)
             y == [x EXCEPT !.mock = mock]
  <1>1. At(x) = b /\ x.meth \in Methods /\ x.key \in KeyValues
    BY AtIs DEF CallRec
  <1>2. /\ mock \in SUBSET RunKeys /\ (b.run # NoRun /\ mock # {} => KeyAt(b, x.meth) \in routes)
        /\ mode.on = "loop" => \A k \in mock : x.key.run = k.run
    BY <1>1, MockCarried
  <1> HIDE DEF mock
  <1>3. CASE /\ mock \cap mode.slow # {} /\ call' = [call EXCEPT ![c] = [x EXCEPT !.pc = "handler", !.mock = mock]]
             /\ UNCHANGED <<listeners, parked>>
    <2>1. mode.slow # {}
      BY <1>3
    <2> QED BY <1>2, <1>3, <2>1, GoesOnKeeps
  <1>4. CASE Deliver(c, y)
    <2>1. /\ y \in CallRec /\ y.mock = mock /\ y.at = {b} /\ y.addr = x.addr /\ y.key = x.key /\ y.sole = x.sole /\ y.meth = x.meth
      BY <1>2 DEF CallRec
    <2> HIDE DEF y
    <2>2. Names(y, b)
      BY <2>1 DEF Names
    <2> QED BY <1>2, <1>4, <2>1, <2>2, DeliverKeeps
  <1> QED BY <1>1, <1>3, <1>4 DEF Match, mock

\* The body is read: the caller is refused, or goes on.
LEMMA AdmitKeeps ==
  ASSUME InboundInv, NEW c \in Requests, NEW x \in CallRec, NEW b \in Addrs, x.at = {b}, Names(x, b), x.got = {}, x.mock = {},
         Admit(c, x), UNCHANGED <<regVars, waiting, runAt, held, arms>>
  PROVE  InboundInv'
  <1>1. At(x) = b /\ x.meth \in Methods
    BY AtIs DEF CallRec
  <1> DEFINE k == KeyAt(b, x.meth)
  <1>2. k \in Keys /\ Names(x, k)
    BY <1>1, KeyTypes DEF Names
  <1> HIDE DEF k
  <1>3. CASE RejectAt({k}) /\ Answered(c, x, 401, Open({k})) /\ UNCHANGED parked
    <2>1. TablesLeft
      BY <1>3, RejectLeaves
    <2>2. Open({k}) \in SUBSET Keys /\ \A j \in Open({k}) : Names(x, j)
      BY <1>2 DEF Open
    <2>3. mode.on = "loop" => \A j \in x.mock : x.key.run = j.run
      OBVIOUS
    <2> DEFINE ks == Open({k})
    <2>4. ks \in SUBSET Keys /\ Answered(c, x, 401, ks) /\ \A j \in ks : Names(x, j)
      BY <1>3, <2>2
    <2> HIDE DEF ks
    <2> QED BY <2>1, <2>3, <2>4, AnsweredKeeps
  <1>4. CASE /\ mode.on = "thread" /\ call' = [call EXCEPT ![c] = [x EXCEPT !.pc = "admitted"]] /\ UNCHANGED <<listeners, parked>>
    <2>1. [x EXCEPT !.pc = "admitted"] = [x EXCEPT !.pc = "admitted", !.mock = {}]
      BY NoMockYet
    <2>2. call' = [call EXCEPT ![c] = [x EXCEPT !.pc = "admitted", !.mock = {}]]
      BY <1>4, <2>1
    <2> DEFINE p == "admitted"
               mock == {}
    <2>3. p \in {"body", "admitted", "handler"} /\ mock \in SUBSET RunKeys /\ mode.on # "loop" /\ p # "handler" /\ mock = {}
      BY <1>4
    <2>4. call' = [call EXCEPT ![c] = [x EXCEPT !.pc = p, !.mock = mock]]
      BY <2>2
    <2> HIDE DEF p, mock
    <2>5. /\ mode.on = "loop" => p # "admitted" /\ \A j \in mock : x.key.run = j.run
          /\ mode.slow = {} => p # "handler"
          /\ p # "handler" => mock = {}
      BY <2>3
    <2> HIDE DEF k
    <2>6. UNCHANGED <<listeners, parked>>
      BY <1>4
    <2> QED BY <2>3, <2>4, <2>5, <2>6, GoesOnKeeps
  <1>5. CASE ~Refused(b, x.meth, x.key) /\ Match(c, x)
    BY <1>5, MatchKeeps
  <1> QED BY <1>1, <1>3, <1>4, <1>5 DEF Admit, k

\* A call that has not come.
LEMMA IdleIs == Idle \in CallRec /\ Idle.mock = {} /\ Idle.got = {} /\ Idle.pc = "idle"
  <1> DEFINE p == CHOOSE q \in Paths : TRUE
             n == CHOOSE q \in Methods : TRUE
             PCs == {"idle", "body", "admitted", "handler", "done"}
             Codes == {0, 200, 401, 404, 409, 500}
             Rec == [pc : PCs, addr : Addrs, meth : Methods, key : KeyValues, at : SUBSET Addrs, mock : SUBSET RunKeys,
                     ans : Codes, got : SUBSET Keys, sole : SUBSET Runs]
             z == [run |-> NoRun, path |-> p]
  <1>1. CallRec = Rec /\ "idle" \in PCs /\ 0 \in Codes
    BY DEF CallRec
  <1>2. p \in Paths /\ n \in Methods /\ NoKey \in KeyValues
    BY InboundAssumption, KeyTypes
  <1>3. z \in Addrs
    BY <1>2 DEF Addrs
  <1>4. Idle = [pc |-> "idle", addr |-> z, meth |-> n, key |-> NoKey, at |-> {}, mock |-> {}, ans |-> 0, got |-> {}, sole |-> {}]
    BY DEF Idle
  <1> HIDE DEF z, p, n, PCs, Codes
  <1> QED BY <1>1, <1>2, <1>3, <1>4

\* A call comes in.
LEMMA AnswerKeeps ==
  ASSUME InboundInv, NEW c \in Requests, NEW a \in Addrs, NEW m \in Methods, NEW key \in KeyValues, Answer(c, a, m, key)
  PROVE  InboundInv'
  <1> DEFINE found == Locate(a, key)
             sole == IF a.run = NoRun THEN Serving(a.path) ELSE {}
             x == [Idle EXCEPT !.addr = a, !.meth = m, !.key = key, !.at = found, !.sole = sole]
  <1>1. /\ found \in SUBSET Addrs
        /\ \A b \in found : found = {b} /\ (b.run = a.run \/ b.run = key.run \/ (a.run = NoRun /\ Serving(a.path) = {b.run}))
    BY LocateNames
  <1>2. sole \in SUBSET Runs
    BY DEF Serving
  <1>3. UNCHANGED <<regVars, waiting, runAt, held, arms>>
    BY DEF Answer
  <1>4. \/ found = {} /\ Answered(c, x, 409, {}) /\ UNCHANGED <<listeners, parked>>
        \/ \E b \in found :
              \/ Answered(c, x, 404, {}) /\ UNCHANGED <<listeners, parked>>
              \/ call' = [call EXCEPT ![c] = [x EXCEPT !.pc = "body"]] /\ UNCHANGED <<listeners, parked>>
              \/ Admit(c, x)
    BY DEF Answer
  <1>5. \A b \in found : b.run = a.run \/ b.run = key.run \/ (a.run = NoRun /\ sole = {b.run})
    BY <1>1
  <1> HIDE DEF found, sole
  <1>6. /\ x \in CallRec /\ x.addr = a /\ x.key = key /\ x.at = found /\ x.sole = sole /\ x.mock = {} /\ x.got = {}
    <2> DEFINE PCs == {"idle", "body", "admitted", "handler", "done"}
               Codes == {0, 200, 401, 404, 409, 500}
               Rec == [pc : PCs, addr : Addrs, meth : Methods, key : KeyValues, at : SUBSET Addrs, mock : SUBSET RunKeys,
                       ans : Codes, got : SUBSET Keys, sole : SUBSET Runs]
    <2>1. CallRec = Rec
      BY DEF CallRec
    <2>2. Idle \in Rec /\ Idle.mock = {} /\ Idle.got = {}
      BY <2>1, IdleIs
    <2> HIDE DEF Idle, PCs, Codes
    <2> QED BY <1>1, <1>2, <2>1, <2>2
  <1> HIDE DEF x
  <1>7. \A b \in found : b \in Addrs /\ x.at = {b} /\ Names(x, b)
    BY <1>1, <1>5, <1>6 DEF Names
  <1>8. mode.on = "loop" => \A k \in x.mock : x.key.run = k.run
    BY <1>6
  <1>9. ASSUME NEW code \in {404, 409}, Answered(c, x, code, {}), UNCHANGED <<listeners, parked>> PROVE InboundInv'
    <2>1. TablesLeft
      BY <1>9, NothingDone
    <2>2. {} \in SUBSET Keys /\ code \in {200, 401, 404, 409, 500} /\ \A k \in {} : Names(x, k)
      OBVIOUS
    <2> QED BY <1>3, <1>6, <1>8, <1>9, <2>1, <2>2, AnsweredKeeps
  <1>10. ASSUME NEW b \in found, call' = [call EXCEPT ![c] = [x EXCEPT !.pc = "body"]], UNCHANGED <<listeners, parked>> PROVE InboundInv'
    <2> DEFINE p == "body"
               mock == {}
    <2>1. p \in {"body", "admitted", "handler"} /\ mock \in SUBSET RunKeys /\ p # "handler" /\ p # "admitted" /\ mock = {}
      OBVIOUS
    <2>2. \A k \in mock : x.key.run = k.run
      OBVIOUS
    <2>3. call' = [call EXCEPT ![c] = [x EXCEPT !.pc = p, !.mock = mock]]
      <3>1. [x EXCEPT !.pc = "body"] = [x EXCEPT !.pc = "body", !.mock = {}]
        BY <1>6, NoMockYet
      <3> QED BY <1>10, <3>1
    <2> HIDE DEF p, mock
    <2>4. /\ mode.on = "loop" => p # "admitted" /\ \A k \in mock : x.key.run = k.run
          /\ mode.slow = {} => p # "handler"
          /\ p # "handler" => mock = {}
      BY <2>1, <2>2
    <2>5. UNCHANGED <<listeners, parked>> /\ b \in Addrs /\ x.at = {b} /\ Names(x, b) /\ x \in CallRec /\ x.got = {}
      BY <1>6, <1>7, <1>10
    <2> QED BY <1>3, <2>1, <2>3, <2>4, <2>5, GoesOnKeeps
  <1>11. ASSUME NEW b \in found, Admit(c, x) PROVE InboundInv'
    BY <1>3, <1>6, <1>7, <1>11, AdmitKeeps
  <1> QED BY <1>4, <1>9, <1>10, <1>11

\* A call under way goes on.
LEMMA CallKeeps ==
  ASSUME InboundInv, NEW c \in Requests, BodyRead(c) \/ Matched(c) \/ HandlerReturns(c) \/ HandlerRaises(c)
  PROVE  InboundInv'
  <1> DEFINE x == call[c]
  <1>1. x \in CallRec /\ CallOK(x, mode) /\ UNCHANGED <<regVars, waiting, runAt, held, arms>>
    BY DEF InboundInv, InboundTypeOK, CallsFit, BodyRead, Matched, HandlerReturns, HandlerRaises, tableVars
  <1>2. x.pc \in {"body", "admitted", "handler"}
    BY DEF BodyRead, Matched, HandlerReturns, HandlerRaises
  <1>3. PICK b \in Addrs : x.at = {b} /\ Names(x, b)
    BY <1>1, <1>2 DEF CallOK
  <1>4. x.got = {} /\ (mode.on = "loop" => \A k \in x.mock : x.key.run = k.run) /\ (x.pc # "handler" => x.mock = {})
    BY <1>1, <1>2 DEF CallOK
  <1>5. CASE BodyRead(c)
    <2>1. Admit(c, x) /\ x.mock = {}
      BY <1>4, <1>5 DEF BodyRead
    <2> HIDE DEF x
    <2> QED BY <1>1, <1>3, <1>4, <2>1, AdmitKeeps
  <1>6. CASE Matched(c)
    <2>1. Match(c, x) /\ mode.on # "loop"
      BY <1>1, <1>6 DEF Matched, CallOK
    <2> HIDE DEF x
    <2> QED BY <1>1, <1>3, <1>4, <2>1, MatchKeeps
  <1>7. CASE HandlerReturns(c)
    <2>1. Deliver(c, x) /\ mode.slow # {}
      BY <1>1, <1>7 DEF HandlerReturns, CallOK
    <2> HIDE DEF x
    <2> QED BY <1>1, <1>3, <1>4, <2>1, DeliverKeeps
  <1>8. CASE HandlerRaises(c)
    <2>1. Answered(c, x, 500, {}) /\ UNCHANGED <<listeners, parked>>
      BY <1>8 DEF HandlerRaises, tableVars
    <2>2. TablesLeft
      BY <2>1, NothingDone
    <2> DEFINE code == 500
    <2>3. {} \in SUBSET Keys /\ code \in {200, 401, 404, 409, 500} /\ (\A k \in {} : Names(x, k)) /\ Answered(c, x, code, {})
      BY <2>1
    <2> HIDE DEF x, code
    <2> QED BY <1>1, <1>4, <2>2, <2>3, AnsweredKeeps
  <1> QED BY <1>5, <1>6, <1>7, <1>8

-----------------------------------------------------------------------------
(***************************************************************************)
(* The runs.                                                               *)
(***************************************************************************)

LEMMA InvParts ==
  ASSUME InboundInv
  PROVE  /\ InboundTypeOK /\ CountsFit /\ GuardsOwn /\ RoutesFit /\ ReleasedFit /\ TableFits /\ CallsFit
         /\ runAt \in [Runs -> RunRec] /\ guards \in [Keys -> KeyValues] /\ routes \in SUBSET RunKeys
         /\ listeners \in [Keys -> Kinds] /\ parked \in [Keys -> Requests \cup {NoRequest}] /\ waiting \in SUBSET Keys
         /\ \A r \in Runs : runAt[r].arming \in SUBSET Mocks
  <1>1. /\ InboundTypeOK /\ CountsFit /\ GuardsOwn /\ RoutesFit /\ ReleasedFit /\ TableFits /\ CallsFit
    BY DEF InboundInv
  <1>2. runAt \in [Runs -> RunRec]
    BY <1>1 DEF InboundTypeOK
  <1>3. \A r \in Runs : runAt[r].arming \in SUBSET Mocks
    BY <1>2 DEF RunRec
  <1> QED BY <1>1, <1>2, <1>3 DEF InboundTypeOK, Kinds

\* A step of a run, to another place of it.
LEMMA RunMoves ==
  ASSUME InboundInv, NEW r \in Runs, NEW y \in RunRec, runAt' = [runAt EXCEPT ![r] = y]
  PROVE  runAt' \in [Runs -> RunRec] /\ runAt'[r] = y /\ \A s \in Runs : s # r => runAt'[s] = runAt[s]
  BY InvParts

\* The guard of a mock keeps the invariant.
LEMMA ArmGuardKeeps ==
  ASSUME InboundInv, NEW r \in Runs, NEW k \in Mocks, ArmGuard(r, k)
  PROVE  InboundInv'
  <1> DEFINE g == [run |-> r, n |-> minted'[r]]
             y == [pc |-> "guarded", arming |-> {k}]
  <1>1. /\ runAt[r].pc = "running" /\ arms[r] < MaxArms[r] /\ k.run = r /\ RunKey(r)
        /\ guards' = [guards EXCEPT ![k] = g] /\ runAt' = [runAt EXCEPT ![r] = y] /\ arms' = [arms EXCEPT ![r] = @ + 1]
        /\ UNCHANGED <<mode, routes, listeners, parked, waiting, held, call>>
    BY DEF ArmGuard, tableVars
  <1>2. /\ InboundTypeOK /\ CountsFit /\ GuardsOwn /\ RoutesFit /\ ReleasedFit /\ CallsFit /\ guards \in [Keys -> KeyValues]
        /\ routes \in SUBSET RunKeys
    BY InvParts
  <1>3. k \in Keys /\ k \in RunKeys /\ RunKeys \subseteq Keys /\ \A j \in RunKeys : j.run \in Runs
    BY KeyTypes
  <1>4. y \in RunRec /\ y.pc = "guarded" /\ y.arming = {k}
    BY DEF RunRec
  <1>5. /\ minted' \in [Runs -> Nat] /\ minted'[r] \in 1..(arms[r] + 1) /\ (\A s \in Runs : s # r => minted'[s] = minted[s])
        /\ minted'[r] >= minted[r] /\ runKeys' \in Seq(Runs) /\ Len(runKeys') <= MaxRunKeys /\ TableFits'
    BY <1>1, RunKeyDoes
  <1>6. arms \in [Runs -> Nat] /\ minted \in [Runs -> Nat] /\ MaxArms \in [Runs -> Nat] /\ \A s \in Runs : minted[s] <= arms[s] /\ arms[s] <= MaxArms[s]
    BY <1>2, InboundAssumption DEF CountsFit
  <1>7. arms' \in [Runs -> Nat] /\ arms'[r] = arms[r] + 1 /\ \A s \in Runs : s # r => arms'[s] = arms[s]
    BY <1>1, <1>6
  <1>8. CountsFit'
    BY <1>1, <1>5, <1>6, <1>7 DEF CountsFit
  <1>9. g \in KeyValues /\ g.run = r /\ g.n = minted'[r] /\ g # NoKey /\ g = [run |-> r, n |-> g.n]
    <2>1. minted'[r] \in 1..MaxArms[r]
      BY <1>1, <1>5, <1>6
    <2>2. g \in MintedOf(r)
      BY <2>1 DEF MintedOf
    <2>3. g.run # NoRun /\ NoKey.run = NoRun
      BY InboundAssumption, KeyTypes
    <2> QED BY <2>2, <2>3 DEF KeyValues
  <1> HIDE DEF g, y
  <1>10. guards' \in [Keys -> KeyValues] /\ guards'[k] = g /\ \A j \in Keys : j # k => guards'[j] = guards[j]
    BY <1>1, <1>2, <1>3, <1>9
  <1>11. runAt' \in [Runs -> RunRec] /\ runAt'[r] = y /\ \A s \in Runs : s # r => runAt'[s] = runAt[s]
    BY <1>1, <1>4, RunMoves
  <1>12. \A s \in Runs : minted'[s] \in 0..MaxArms[s] /\ arms'[s] \in 0..MaxArms[s]
    BY <1>8, InboundAssumption DEF CountsFit
  <1>13. InboundTypeOK'
    BY <1>1, <1>2, <1>5, <1>10, <1>11, <1>12 DEF InboundTypeOK
  <1>14. GuardsOwn'
    <2> SUFFICES ASSUME NEW j \in Keys, guards'[j] # NoKey
                 PROVE  j.run \in Runs /\ guards'[j].run = j.run /\ guards'[j].n \in 1..minted'[j.run]
                        /\ guards'[j] = [run |-> j.run, n |-> guards'[j].n]
      BY DEF GuardsOwn
    <2>1. CASE j = k
      BY <1>1, <1>5, <1>9, <1>10, <2>1
    <2>2. CASE j # k
      <3>1. /\ guards'[j] = guards[j] /\ j.run \in Runs /\ guards[j].run = j.run /\ guards[j].n \in 1..minted[j.run]
            /\ guards[j] = [run |-> j.run, n |-> guards[j].n]
        BY <1>2, <1>10, <2>2 DEF GuardsOwn
      <3>2. minted'[j.run] >= minted[j.run] /\ minted'[j.run] \in Nat /\ minted[j.run] \in Nat
        <4>1. j.run = r \/ minted'[j.run] = minted[j.run]
          BY <1>5, <3>1
        <4>2. minted'[r] >= minted[r] /\ minted'[j.run] \in Nat /\ minted[j.run] \in Nat
          BY <1>5, <1>6, <3>1
        <4> QED BY <4>1, <4>2
      <3> QED BY <3>1, <3>2
    <2> QED BY <2>1, <2>2
  <1>15. RoutesFit'
    <2>1. \A j \in Keys : guards[j] # NoKey => guards'[j] # NoKey
      BY <1>9, <1>10
    <2>2. ASSUME NEW s \in Runs, runAt'[s].pc \in {"guarded", "routed"}, NEW j \in runAt'[s].arming PROVE j.run = s /\ guards'[j] # NoKey
      <3>1. CASE s = r
        BY <1>1, <1>4, <1>9, <1>10, <1>11, <2>2, <3>1
      <3>2. CASE s # r
        <4>1. runAt'[s] = runAt[s] /\ runAt[s].arming \in SUBSET Mocks
          BY <1>11, <3>2, InvParts
        <4> QED BY <1>2, <2>1, <2>2, <4>1, KeyTypes DEF RoutesFit
      <3> QED BY <3>1, <3>2
    <2>3. ASSUME NEW j \in routes' PROVE guards'[j] # NoKey /\ runAt'[j.run].pc \notin {"unrouted", "unguarded", "over"}
      <3>1. j \in routes /\ j \in Keys /\ j.run \in Runs
        BY <1>1, <1>2, <1>3
      <3>2. guards[j] # NoKey /\ runAt[j.run].pc \notin {"unrouted", "unguarded", "over"}
        BY <1>2, <3>1 DEF RoutesFit
      <3> QED BY <1>4, <1>11, <2>1, <3>1, <3>2
    <2> QED BY <2>2, <2>3 DEF RoutesFit
  <1>16. ReleasedFit'
    <2> SUFFICES ASSUME NEW j \in RunKeys, runAt'[j.run].pc \in {"unguarded", "over"}
                 PROVE  guards'[j] = guards[j] /\ runAt'[j.run] = runAt[j.run]
      BY <1>1, <1>2 DEF ReleasedFit
    <2>1. j.run # r
      BY <1>4, <1>11
    <2> QED BY <1>1, <1>3, <1>10, <1>11, <2>1
  <1>17. CallsFit'
    BY <1>1, <1>2 DEF CallsFit
  <1> QED BY <1>5, <1>8, <1>13, <1>14, <1>15, <1>16, <1>17 DEF InboundInv

\* The steps that leave the keys alone.
LEMMA KeysLeft ==
  ASSUME InboundInv, UNCHANGED <<mode, runKeys, minted, arms, call>>, InboundTypeOK', GuardsOwn', RoutesFit', ReleasedFit'
  PROVE  InboundInv'
  BY DEF InboundInv, CountsFit, TableFits, Overflow, CallsFit

\* The route of a mock keeps the invariant.
LEMMA ArmRouteKeeps ==
  ASSUME InboundInv, NEW r \in Runs, ArmRoute(r)
  PROVE  InboundInv'
  <1> DEFINE y == [runAt[r] EXCEPT !.pc = "routed"]
  <1>1. /\ runAt[r].pc = "guarded" /\ routes' = routes \cup runAt[r].arming /\ runAt' = [runAt EXCEPT ![r] = y]
        /\ UNCHANGED <<mode, guards, runKeys, minted, listeners, parked, waiting, held, arms, call>>
    BY InvParts DEF ArmRoute, tableVars, RunRec
  <1>2. runAt[r] \in RunRec /\ runAt[r].arming \in SUBSET Mocks
    BY InvParts
  <1>3. y \in RunRec /\ y.pc = "routed" /\ y.arming = runAt[r].arming
    BY <1>2 DEF RunRec
  <1> HIDE DEF y
  <1>4. runAt' \in [Runs -> RunRec] /\ runAt'[r] = y /\ \A s \in Runs : s # r => runAt'[s] = runAt[s]
    BY <1>1, <1>3, RunMoves
  <1>5. routes' \in SUBSET RunKeys
    BY <1>1, <1>2, InvParts, KeyTypes
  <1>6. InboundTypeOK'
    BY <1>1, <1>4, <1>5, InvParts DEF InboundTypeOK
  <1>7. GuardsOwn'
    BY <1>1, InvParts DEF GuardsOwn
  <1>8. RoutesFit'
    <2>1. \A s \in Runs : runAt'[s].arming = runAt[s].arming /\ (runAt'[s].pc \in {"guarded", "routed"} => runAt[s].pc \in {"guarded", "routed"})
      BY <1>1, <1>3, <1>4
    <2>2. \A j \in runAt[r].arming : j.run = r /\ guards[j] # NoKey
      BY <1>1, InvParts DEF RoutesFit
    <2>3. ASSUME NEW j \in routes' PROVE guards[j] # NoKey /\ runAt'[j.run].pc \notin {"unrouted", "unguarded", "over"}
      <3>1. CASE j \in routes
        <4>1. j.run \in Runs /\ guards[j] # NoKey /\ runAt[j.run].pc \notin {"unrouted", "unguarded", "over"}
          BY <3>1, InvParts, KeyTypes DEF RoutesFit
        <4> QED BY <1>3, <1>4, <4>1
      <3>2. CASE j \in runAt[r].arming
        BY <1>3, <1>4, <2>2, <3>2
      <3> QED BY <1>1, <3>1, <3>2
    <2>4. RoutesFit
      BY InvParts
    <2> QED BY <1>1, <2>1, <2>3, <2>4 DEF RoutesFit
  <1>9. ReleasedFit'
    <2> SUFFICES ASSUME NEW j \in RunKeys, runAt'[j.run].pc \in {"unguarded", "over"}
                 PROVE  runAt'[j.run] = runAt[j.run]
      BY <1>1, InvParts DEF ReleasedFit
    <2> QED BY <1>3, <1>4, KeyTypes
  <1> QED BY <1>1, <1>6, <1>7, <1>8, <1>9, KeysLeft

\* register: a listener of a run that is going on.
LEMMA RegisterDoes ==
  ASSUME InboundInv, NEW k \in Keys, RegisterListener(k)
  PROVE  /\ listeners' \in [Keys -> Kinds] /\ parked' \in [Keys -> Requests \cup {NoRequest}]
         /\ \A j \in Keys : j # k => listeners'[j] = listeners[j] /\ parked'[j] = parked[j]
  <1>1. listeners \in [Keys -> Kinds] /\ parked \in [Keys -> Requests \cup {NoRequest}]
    BY InvParts
  <1>2. CASE UNCHANGED <<listeners, parked>>
    BY <1>1, <1>2
  <1>3. CASE /\ listeners' = [listeners EXCEPT ![k] = IF parked[k] = NoRequest THEN "open" ELSE "answered"]
             /\ parked' = [parked EXCEPT ![k] = NoRequest]
    BY <1>1, <1>3 DEF Kinds
  <1> QED BY <1>2, <1>3 DEF RegisterListener

\* The listener of a mock keeps the invariant.
LEMMA ArmListenerKeeps ==
  ASSUME InboundInv, NEW r \in Runs, ArmListener(r)
  PROVE  InboundInv'
  <1> DEFINE y == [pc |-> "running", arming |-> {}]
  <1>1. /\ runAt[r].pc = "routed" /\ runAt' = [runAt EXCEPT ![r] = y]
        /\ UNCHANGED <<mode, routes, guards, runKeys, minted, waiting, held, arms, call>>
    BY DEF ArmListener, regVars
  <1>2. PICK k \in runAt[r].arming : RegisterListener(k)
    BY DEF ArmListener
  <1>3. k \in Keys /\ k.run = r
    BY <1>1, InvParts, KeyTypes DEF RoutesFit
  <1>4. /\ listeners' \in [Keys -> Kinds] /\ parked' \in [Keys -> Requests \cup {NoRequest}]
        /\ \A j \in Keys : j # k => listeners'[j] = listeners[j] /\ parked'[j] = parked[j]
    BY <1>2, <1>3, RegisterDoes
  <1>5. y \in RunRec /\ y.pc = "running" /\ y.arming = {}
    BY DEF RunRec
  <1> HIDE DEF y
  <1>6. runAt' \in [Runs -> RunRec] /\ runAt'[r] = y /\ \A s \in Runs : s # r => runAt'[s] = runAt[s]
    BY <1>1, <1>5, RunMoves
  <1>7. InboundTypeOK'
    BY <1>1, <1>4, <1>6, InvParts DEF InboundTypeOK, Kinds
  <1>8. GuardsOwn'
    BY <1>1, InvParts DEF GuardsOwn
  <1>9. RoutesFit'
    <2>1. \A s \in Runs : runAt'[s].pc \in {"guarded", "routed"} => runAt'[s] = runAt[s]
      BY <1>5, <1>6
    <2>2. ASSUME NEW j \in routes PROVE runAt'[j.run].pc \notin {"unrouted", "unguarded", "over"}
      <3>1. j.run \in Runs /\ runAt[j.run].pc \notin {"unrouted", "unguarded", "over"}
        BY InvParts, KeyTypes DEF RoutesFit
      <3> QED BY <1>5, <1>6, <3>1
    <2>3. RoutesFit
      BY InvParts
    <2> QED BY <1>1, <2>1, <2>2, <2>3 DEF RoutesFit
  <1>10. ReleasedFit'
    <2> SUFFICES ASSUME NEW j \in RunKeys, runAt'[j.run].pc \in {"unguarded", "over"}
                 PROVE  runAt'[j.run] = runAt[j.run] /\ listeners'[j] = listeners[j] /\ parked'[j] = parked[j]
      BY <1>1, InvParts DEF ReleasedFit
    <2>1. j.run # r /\ j # k /\ j \in Keys /\ j.run \in Runs
      BY <1>3, <1>5, <1>6, KeyTypes
    <2> QED BY <1>4, <1>6, <2>1
  <1> QED BY <1>1, <1>7, <1>8, <1>9, <1>10, KeysLeft

\* A wait starts or ends: of a run that is going on.
LEMMA WaitKeeps ==
  ASSUME InboundInv, NEW k \in Mocks, WaitStarts(k) \/ WaitEndsAt(k)
  PROVE  InboundInv'
  <1>1. /\ k \in Keys /\ k.run \in Runs /\ UNCHANGED <<mode, routes, guards, runKeys, minted, runAt, held, arms, call>>
    BY KeyTypes DEF WaitStarts, WaitEndsAt, regVars
  <1>2. /\ listeners' \in [Keys -> Kinds] /\ parked' \in [Keys -> Requests \cup {NoRequest}] /\ waiting' \in SUBSET Keys
        /\ \A j \in Keys : j # k => listeners'[j] = listeners[j] /\ parked'[j] = parked[j]
        /\ \A j \in waiting' : j = k \/ j \in waiting
    <2>1. CASE WaitStarts(k)
      <3>1. RegisterListener(k) /\ waiting' = waiting \cup {k}
        BY <2>1 DEF WaitStarts
      <3>2. waiting' \in SUBSET Keys /\ \A j \in waiting' : j = k \/ j \in waiting
        BY <1>1, <3>1, InvParts
      <3> QED BY <1>1, <3>1, <3>2, RegisterDoes
    <2>2. CASE WaitEndsAt(k)
      <3>1. listeners' = [listeners EXCEPT ![k] = "none"] /\ parked' = parked /\ waiting' = waiting \ {k}
        BY <2>2 DEF WaitEndsAt
      <3>2. listeners' \in [Keys -> Kinds] /\ \A j \in Keys : j # k => listeners'[j] = listeners[j]
        BY <1>1, <3>1, InvParts DEF Kinds
      <3> QED BY <3>1, <3>2, InvParts
    <2> QED BY <2>1, <2>2
  <1>3. runAt[k.run].pc # "over"
    <2>1. CASE WaitStarts(k)
      BY <2>1 DEF WaitStarts
    <2>2. CASE WaitEndsAt(k)
      <3>1. k \in waiting /\ k \in RunKeys
        BY <2>2, KeyTypes DEF WaitEndsAt
      <3> QED BY <3>1, InvParts DEF ReleasedFit
    <2> QED BY <2>1, <2>2
  <1>4. InboundTypeOK'
    BY <1>1, <1>2, InvParts DEF InboundTypeOK, Kinds
  <1>5. GuardsOwn' /\ RoutesFit'
    BY <1>1, InvParts DEF GuardsOwn, RoutesFit
  <1>6. ReleasedFit'
    <2>1. ASSUME NEW j \in RunKeys, runAt[j.run].pc = "over"
          PROVE  listeners'[j] = listeners[j] /\ parked'[j] = parked[j] /\ (j \notin waiting => j \notin waiting')
      BY <1>2, <1>3, <2>1, KeyTypes
    <2> QED BY <1>1, <2>1, InvParts DEF ReleasedFit
  <1> QED BY <1>1, <1>4, <1>5, <1>6, KeysLeft

\* A hold of the run keeps the invariant.
LEMMA HoldKeeps ==
  ASSUME InboundInv, NEW r \in Runs, Hold(r)
  PROVE  InboundInv'
  <1>1. UNCHANGED <<mode, routes, guards, runKeys, minted, listeners, parked, waiting, runAt, arms, call>>
    BY DEF Hold, regVars, tableVars
  <1>2. held' \in SUBSET Runs
    BY InvParts DEF InboundTypeOK, Hold
  <1>3. InboundTypeOK'
    BY <1>1, <1>2, InvParts DEF InboundTypeOK
  <1>4. GuardsOwn' /\ RoutesFit' /\ ReleasedFit'
    BY <1>1, InvParts DEF GuardsOwn, RoutesFit, ReleasedFit
  <1> QED BY <1>1, <1>3, <1>4, KeysLeft

\* release_mocks, in its three steps.
LEMMA ReleaseRoutesKeeps ==
  ASSUME InboundInv, NEW r \in Runs, ReleaseRoutes(r)
  PROVE  InboundInv'
  <1> DEFINE y == [runAt[r] EXCEPT !.pc = "unrouted"]
  <1>1. /\ runAt[r].pc = "running" /\ routes' = {k \in routes : k.run # r} /\ runAt' = [runAt EXCEPT ![r] = y]
        /\ UNCHANGED <<mode, guards, runKeys, minted, listeners, parked, waiting, held, arms, call>>
    BY InvParts DEF ReleaseRoutes, tableVars, RunRec
  <1>2. runAt[r] \in RunRec
    BY InvParts
  <1>3. y \in RunRec /\ y.pc = "unrouted"
    BY <1>2 DEF RunRec
  <1> HIDE DEF y
  <1>4. runAt' \in [Runs -> RunRec] /\ runAt'[r] = y /\ \A s \in Runs : s # r => runAt'[s] = runAt[s]
    BY <1>1, <1>3, RunMoves
  <1>5. InboundTypeOK'
    BY <1>1, <1>4, InvParts DEF InboundTypeOK
  <1>6. GuardsOwn'
    BY <1>1, InvParts DEF GuardsOwn
  <1>7. RoutesFit'
    <2>1. \A s \in Runs : runAt'[s].pc \in {"guarded", "routed"} => runAt'[s] = runAt[s]
      BY <1>3, <1>4
    <2>2. \A j \in routes' : j \in routes /\ runAt'[j.run] = runAt[j.run]
      BY <1>1, <1>4, InvParts, KeyTypes
    <2>3. RoutesFit
      BY InvParts
    <2> QED BY <1>1, <2>1, <2>2, <2>3 DEF RoutesFit
  <1>8. ReleasedFit'
    <2> SUFFICES ASSUME NEW j \in RunKeys, runAt'[j.run].pc \in {"unguarded", "over"}
                 PROVE  runAt'[j.run] = runAt[j.run]
      BY <1>1, InvParts DEF ReleasedFit
    <2> QED BY <1>3, <1>4, KeyTypes
  <1> QED BY <1>1, <1>5, <1>6, <1>7, <1>8, KeysLeft

\* The release of the guards of a run keeps the invariant.
LEMMA ReleaseGuardsKeeps ==
  ASSUME InboundInv, NEW r \in Runs, ReleaseGuards(r)
  PROVE  InboundInv'
  <1> DEFINE y == [runAt[r] EXCEPT !.pc = "unguarded"]
  <1>1. /\ runAt[r].pc = "unrouted" /\ guards' = [k \in Keys |-> IF k.run = r THEN NoKey ELSE guards[k]] /\ runAt' = [runAt EXCEPT ![r] = y]
        /\ UNCHANGED <<mode, routes, runKeys, minted, listeners, parked, waiting, held, arms, call>>
    BY InvParts DEF ReleaseGuards, tableVars, RunRec
  <1>2. runAt[r] \in RunRec
    BY InvParts
  <1>3. y \in RunRec /\ y.pc = "unguarded"
    BY <1>2 DEF RunRec
  <1> HIDE DEF y
  <1>4. runAt' \in [Runs -> RunRec] /\ runAt'[r] = y /\ \A s \in Runs : s # r => runAt'[s] = runAt[s]
    BY <1>1, <1>3, RunMoves
  <1>5. /\ guards' \in [Keys -> KeyValues] /\ \A k \in Keys : k.run # r => guards'[k] = guards[k]
        /\ \A k \in Keys : k.run = r => guards'[k] = NoKey
    BY <1>1, InvParts, KeyTypes
  <1>6. InboundTypeOK'
    BY <1>1, <1>4, <1>5, InvParts DEF InboundTypeOK
  <1>7. GuardsOwn'
    BY <1>1, <1>5, InvParts DEF GuardsOwn
  <1>8. RoutesFit'
    <2>1. ASSUME NEW s \in Runs, runAt'[s].pc \in {"guarded", "routed"}, NEW j \in runAt'[s].arming PROVE j.run = s /\ guards'[j] # NoKey
      <3>1. s # r /\ runAt'[s] = runAt[s]
        BY <1>3, <1>4, <2>1
      <3>2. j \in Keys /\ j.run = s /\ guards[j] # NoKey
        BY <2>1, <3>1, InvParts, KeyTypes DEF RoutesFit
      <3> QED BY <1>5, <3>1, <3>2
    <2>2. ASSUME NEW j \in routes PROVE guards'[j] # NoKey /\ runAt'[j.run].pc \notin {"unrouted", "unguarded", "over"}
      <3>1. j \in Keys /\ j.run \in Runs /\ guards[j] # NoKey /\ runAt[j.run].pc \notin {"unrouted", "unguarded", "over"}
        BY InvParts, KeyTypes DEF RoutesFit
      <3>2. j.run # r
        BY <1>1, <3>1
      <3> QED BY <1>4, <1>5, <3>1, <3>2
    <2> QED BY <1>1, <2>1, <2>2 DEF RoutesFit
  <1>9. ReleasedFit'
    <2>1. ASSUME NEW j \in RunKeys
          PROVE  /\ runAt'[j.run].pc \in {"unguarded", "over"} => guards'[j] = NoKey
                 /\ runAt'[j.run].pc = "over" => runAt[j.run].pc = "over"
      <3>1. j \in Keys /\ j.run \in Runs
        BY KeyTypes
      <3>2. CASE j.run = r
        BY <1>3, <1>4, <1>5, <3>1, <3>2
      <3>3. CASE j.run # r
        <4>1. runAt'[j.run] = runAt[j.run] /\ guards'[j] = guards[j]
          BY <1>4, <1>5, <3>1, <3>3
        <4> QED BY <4>1, InvParts DEF ReleasedFit
      <3> QED BY <3>2, <3>3
    <2> QED BY <1>1, <2>1, InvParts DEF ReleasedFit
  <1> QED BY <1>1, <1>6, <1>7, <1>8, <1>9, KeysLeft

\* The release of the rest of a run keeps the invariant.
LEMMA ForgetRunKeeps ==
  ASSUME InboundInv, NEW r \in Runs, ForgetRun(r)
  PROVE  InboundInv'
  <1> DEFINE y == [runAt[r] EXCEPT !.pc = "over"]
  <1>1. /\ runAt[r].pc = "unguarded" /\ listeners' = [k \in Keys |-> IF k.run = r THEN "none" ELSE listeners[k]]
        /\ parked' = [k \in Keys |-> IF k.run = r THEN NoRequest ELSE parked[k]]
        /\ waiting' = {k \in waiting : k.run # r} /\ runAt' = [runAt EXCEPT ![r] = y]
        /\ UNCHANGED <<mode, routes, guards, runKeys, minted, held, arms, call>>
    BY InvParts DEF ForgetRun, regVars, RunRec
  <1>2. runAt[r] \in RunRec
    BY InvParts
  <1>3. y \in RunRec /\ y.pc = "over"
    BY <1>2 DEF RunRec
  <1> HIDE DEF y
  <1>4. runAt' \in [Runs -> RunRec] /\ runAt'[r] = y /\ \A s \in Runs : s # r => runAt'[s] = runAt[s]
    BY <1>1, <1>3, RunMoves
  <1>5. listeners' \in [Keys -> Kinds] /\ parked' \in [Keys -> Requests \cup {NoRequest}] /\ waiting' \in SUBSET Keys
    BY <1>1, InvParts DEF Kinds
  <1>6. InboundTypeOK'
    BY <1>1, <1>4, <1>5, InvParts DEF InboundTypeOK, Kinds
  <1>7. GuardsOwn'
    BY <1>1, InvParts DEF GuardsOwn
  <1>8. RoutesFit'
    <2>1. \A s \in Runs : runAt'[s].pc \in {"guarded", "routed"} => runAt'[s] = runAt[s]
      BY <1>3, <1>4
    <2>2. ASSUME NEW j \in routes PROVE runAt'[j.run].pc \notin {"unrouted", "unguarded", "over"}
      <3>1. j.run \in Runs /\ runAt[j.run].pc \notin {"unrouted", "unguarded", "over"}
        BY InvParts, KeyTypes DEF RoutesFit
      <3>2. j.run # r
        BY <1>1, <3>1
      <3> QED BY <1>4, <3>1, <3>2
    <2>3. RoutesFit
      BY InvParts
    <2> QED BY <1>1, <2>1, <2>2, <2>3 DEF RoutesFit
  <1>9. ReleasedFit'
    <2>1. ASSUME NEW j \in RunKeys
          PROVE  /\ runAt'[j.run].pc \in {"unguarded", "over"} => guards'[j] = NoKey
                 /\ runAt'[j.run].pc = "over" =>
                       /\ j \notin waiting'
                       /\ mode'.on = "loop" /\ mode'.slow = {} => listeners'[j] = "none" /\ parked'[j] = NoRequest
      <3>1. j \in Keys /\ j.run \in Runs
        BY KeyTypes
      <3>2. CASE j.run = r
        <4>1. guards[j] = NoKey
          BY <1>1, <3>2, InvParts DEF ReleasedFit
        <4> QED BY <1>1, <3>1, <3>2, <4>1
      <3>3. CASE j.run # r
        <4>1. runAt'[j.run] = runAt[j.run] /\ listeners'[j] = listeners[j] /\ parked'[j] = parked[j] /\ (j \in waiting' => j \in waiting)
          BY <1>1, <1>4, <3>1, <3>3
        <4> QED BY <1>1, <4>1, InvParts DEF ReleasedFit
      <3> QED BY <3>2, <3>3
    <2> QED BY <2>1 DEF ReleasedFit
  <1> QED BY <1>1, <1>6, <1>7, <1>8, <1>9, KeysLeft

-----------------------------------------------------------------------------
(***************************************************************************)
(* The theorems.                                                           *)
(***************************************************************************)

LEMMA InboundStarts == InboundInit => InboundInv
  <1> SUFFICES ASSUME InboundInit PROVE InboundInv
    OBVIOUS
  <1>1. [pc |-> "running", arming |-> {}] \in RunRec /\ [pc |-> "running", arming |-> {}].pc = "running"
    BY DEF RunRec
  <1>2. Idle \in CallRec /\ Idle.mock = {} /\ Idle.got = {} /\ Idle.pc = "idle"
    BY IdleIs
  <1> HIDE DEF Idle
  <1>3. /\ \A k \in Keys : guards[k] = NoKey /\ listeners[k] = "none" /\ parked[k] = NoRequest
        /\ \A r \in Runs : minted[r] = 0 /\ arms[r] = 0 /\ runAt[r].pc = "running"
        /\ routes = {} /\ waiting = {} /\ \A c \in Requests : call[c] = Idle
    BY <1>1 DEF InboundInit
  <1>4. runKeys \in Seq(Runs) /\ Len(runKeys) = 0 /\ 1..0 = {}
    BY DEF InboundInit
  <1>5. NoKey \in KeyValues /\ RunKeys \subseteq Keys
    BY KeyTypes
  <1>6. InboundTypeOK
    <2>1. \A r \in Runs : MaxArms[r] \in Nat /\ MaxRunKeys \in Nat
      BY InboundAssumption
    <2>2. Len(runKeys) <= MaxRunKeys
      BY <1>4, InboundAssumption
    <2>3. guards \in [Keys -> KeyValues] /\ listeners \in [Keys -> Kinds] /\ parked \in [Keys -> Requests \cup {NoRequest}]
      BY <1>5 DEF InboundInit, Kinds
    <2>4. runAt \in [Runs -> RunRec] /\ call \in [Requests -> CallRec]
      BY <1>1, <1>2 DEF InboundInit
    <2>5. mode \in Modes /\ held = {}
      BY DEF InboundInit
    <2> QED BY <1>3, <1>4, <2>1, <2>2, <2>3, <2>4, <2>5 DEF InboundTypeOK, Kinds
  <1>7. CountsFit
    BY InboundAssumption DEF InboundInit, CountsFit
  <1>8. GuardsOwn /\ RoutesFit
    BY <1>3 DEF GuardsOwn, RoutesFit
  <1>9. ReleasedFit
    BY <1>3, <1>5, KeyTypes DEF ReleasedFit
  <1>10. TableFits
    BY <1>3, <1>4 DEF TableFits
  <1>11. CallsFit
    BY <1>2, <1>3 DEF CallsFit, CallOK
  <1> QED BY <1>6, <1>7, <1>8, <1>9, <1>10, <1>11 DEF InboundInv

\* Every step keeps the invariant of the inbound calls.
LEMMA InboundSteps == InboundInv /\ [InboundNext]_inboundVars => InboundInv'
  <1> SUFFICES ASSUME InboundInv, [InboundNext]_inboundVars PROVE InboundInv'
    OBVIOUS
  <1>1. CASE \E r \in Runs, k \in Mocks : ArmGuard(r, k)
    BY <1>1, ArmGuardKeeps
  <1>2. CASE \E r \in Runs : ArmRoute(r) \/ ArmListener(r) \/ Hold(r) \/ ReleaseRoutes(r) \/ ReleaseGuards(r) \/ ForgetRun(r)
    BY <1>2, ArmRouteKeeps, ArmListenerKeeps, HoldKeeps, ReleaseRoutesKeeps, ReleaseGuardsKeeps, ForgetRunKeeps
  <1>3. CASE \E k \in Mocks : WaitStarts(k) \/ WaitEndsAt(k)
    BY <1>3, WaitKeeps
  <1>4. CASE \E c \in Requests, a \in Addrs, m \in Methods, key \in Sent : Answer(c, a, m, key)
    BY <1>4, AnswerKeeps DEF Sent
  <1>5. CASE \E c \in Requests : BodyRead(c) \/ Matched(c) \/ HandlerReturns(c) \/ HandlerRaises(c)
    BY <1>5, CallKeeps
  <1>6. CASE UNCHANGED inboundVars
    BY SMTT(60), <1>6 DEF inboundVars, InboundInv, InboundTypeOK, CountsFit, GuardsOwn, RoutesFit, ReleasedFit, TableFits, Overflow, CallsFit
  <1>7. AllOver => UNCHANGED inboundVars
    BY DEF AllOver
  <1> QED BY <1>1, <1>2, <1>3, <1>4, <1>5, <1>6, <1>7 DEF InboundNext

\* A call resolves, fails or is buffered for a run only if it named that run, by address or
\* key or as the only one that serves the path (run_scope.pick), and on the loop of the runs
\* a mock answers only a call that carried a key of its run (mock_registry.refusal),
\* whatever the runs arm, release and wait for between the awaits of the route.
THEOREM CallsTouchNamedRun == InboundSpec => []OnlyNamedRunTouched
  <1>1. InboundInv => OnlyNamedRunTouched
    <2> SUFFICES ASSUME InboundInv PROVE OnlyNamedRunTouched
      OBVIOUS
    <2>1. \A c \in Requests : CallOK(call[c], mode)
      BY DEF InboundInv, CallsFit
    <2> QED BY <2>1 DEF OnlyNamedRunTouched, CallOK, Names
  <1> QED BY InboundStarts, InboundSteps, <1>1, PTL DEF InboundSpec

\* The guards of a run require one key, as long as the table of keys has not been given more
\* runs than it holds (mock_keys.run_key), and a run that is over has left no mock, guard,
\* listener or buffered call behind (release_mocks, forget_run), unless an await or a
\* thread stands between the match of a call and its delivery.
THEOREM TablesAlwaysFollow == InboundSpec => []TablesFollowRun
  <1>1. InboundInv => TablesFollowRun
    <2> SUFFICES ASSUME InboundInv PROVE TablesFollowRun
      OBVIOUS
    <2>1. InboundTypeOK /\ CountsFit /\ GuardsOwn /\ RoutesFit /\ ReleasedFit /\ TableFits
      BY DEF InboundInv
    <2>2. ASSUME NEW k1 \in Guarded, NEW k2 \in Guarded, k1.run = k2.run, ~Overflow PROVE guards[k1] = guards[k2]
      <3>1. k1 \in Keys /\ k2 \in Keys /\ guards[k1] # NoKey /\ guards[k2] # NoKey
        BY DEF Guarded
      <3>2. /\ k1.run \in Runs /\ guards[k1].n \in 1..minted[k1.run] /\ guards[k1] = [run |-> k1.run, n |-> guards[k1].n]
            /\ guards[k2].n \in 1..minted[k1.run] /\ guards[k2] = [run |-> k1.run, n |-> guards[k2].n]
        BY <2>1, <2>2, <3>1 DEF GuardsOwn
      <3>3. minted[k1.run] <= 1 /\ minted[k1.run] \in Nat
        BY <2>1, <2>2, <3>2 DEF TableFits, CountsFit
      <3>4. guards[k1].n = guards[k2].n
        BY <3>2, <3>3
      <3> QED BY <3>2, <3>4
    <2>3. ASSUME NEW k \in RunKeys, runAt[k.run].pc = "over"
          PROVE  k \notin routes \cup waiting /\ guards[k] = NoKey
      <3>1. k \notin routes
        BY <2>1, <2>3 DEF RoutesFit
      <3> QED BY <2>1, <2>3, <3>1 DEF ReleasedFit
    <2>4. mode.on = "loop" /\ mode.slow = {} => \A k \in RunKeys : runAt[k.run].pc = "over" => listeners[k] = "none" /\ parked[k] = NoRequest
      BY <2>1 DEF ReleasedFit
    <2>5. \A k1, k2 \in Guarded : k1.run = k2.run /\ guards[k1] # guards[k2] => Cardinality({r \in Runs : minted[r] > 0}) > MaxRunKeys
      BY <2>2 DEF Overflow
    <2> QED BY <2>1, <2>3, <2>4, <2>5 DEF TablesFollowRun
  <1> QED BY InboundStarts, InboundSteps, <1>1, PTL DEF InboundSpec

(***************************************************************************)
(* The job API and its event streams.                                      *)
(***************************************************************************)

\* The strengthening: what still waits for its stream has not been started, and a
\* start leaves its mark on the run.
OnceInv ==
    /\ starts \in [Jobs -> Nat] /\ run \in [Jobs -> {"none", "task", "going", "raised", "over"}]
    /\ job \in [Jobs -> {"ABSENT", "QUEUED", "RUNNING", "ENDED", "CANCELLED"}]
    /\ pending \subseteq Jobs
    /\ \A j \in pending : run[j] = "none" /\ job[j] # "ABSENT"
    /\ \A j \in Jobs : run[j] = "none" => starts[j] = 0
    /\ RunsOnce

\* Nothing is pending and nothing was started before the first request.
LEMMA InitOnce == Init => OnceInv
  BY DEF Init, OnceInv, RunsOnce

\* stream_job_events takes the pending job before it starts it.
LEMMA ConnectOnce ==
  ASSUME OnceInv, NEW s \in Streams, NEW j \in Jobs, NEW after, NEW from, Connect(s, j, after, from)
  PROVE  OnceInv'
  <1>1. CASE j \in pending
    BY <1>1 DEF Connect, OnceInv, RunsOnce
  <1>2. CASE j \notin pending
    BY <1>2 DEF Connect, OnceInv, RunsOnce
  <1> QED BY <1>1, <1>2

\* Every request, event and connection keeps a job from a second start.
LEMMA NextOnce == OnceInv /\ [Next]_vars => OnceInv'
  <1> SUFFICES ASSUME OnceInv, [Next]_vars PROVE OnceInv'
    OBVIOUS
  <1>1. ASSUME NEW j \in Jobs, RunYaml(j) PROVE OnceInv'
    BY <1>1 DEF RunYaml, OnceInv, RunsOnce
  <1>2. ASSUME NEW j \in Jobs, NEW k \in Jobs, RunPackage(j, k) PROVE OnceInv'
    BY <1>2 DEF RunPackage, OnceInv, RunsOnce
  <1>3. ASSUME NEW j \in Jobs, Start(j) PROVE OnceInv'
    BY <1>3 DEF Start, Publish, OnceInv, RunsOnce
  <1>4. ASSUME NEW j \in Jobs, Step(j) PROVE OnceInv'
    BY <1>4 DEF Step, Publish, OnceInv, RunsOnce
  <1>5. ASSUME NEW j \in Jobs, RunEnds(j) PROVE OnceInv'
    BY <1>5 DEF RunEnds, Publish, OnceInv, RunsOnce
  <1>6. ASSUME NEW j \in Jobs, RunRaises(j) PROVE OnceInv'
    BY <1>6 DEF RunRaises, Publish, OnceInv, RunsOnce
  <1>7. ASSUME NEW j \in Jobs, CancelJob(j) PROVE OnceInv'
    BY <1>7 DEF CancelJob, OnceInv, RunsOnce
  <1>8. ASSUME NEW s \in Streams, Client(s) PROVE OnceInv'
    <2>1. CASE \E j \in Jobs : Connect(s, j, 0, None)
      BY <2>1, ConnectOnce
    <2>2. CASE \E f \in Streams : /\ stream[f].pc \in {"lost", "closed"}
                                  /\ Connect(s, stream[f].job, LastId(f), f)
      <3>1. PICK f \in Streams : Connect(s, stream[f].job, LastId(f), f)
        BY <2>2
      <3>2. CASE stream[f].job \in Jobs
        BY <3>1, <3>2, ConnectOnce
      <3>3. CASE stream[f].job \notin Jobs
        BY <3>1, <3>3 DEF Connect, OnceInv, RunsOnce
      <3> QED BY <3>2, <3>3
    <2> QED BY <1>8, <2>1, <2>2 DEF Client
  <1>9. ASSUME NEW s \in Streams, Replay(s) \/ Take(s) \/ TimeOut(s) \/ Disconnect(s) PROVE OnceInv'
    BY <1>9 DEF Replay, Take, TimeOut, Disconnect, OnceInv, RunsOnce
  <1>10. CASE UNCHANGED vars
    BY <1>10 DEF vars, OnceInv, RunsOnce
  <1> QED
    BY <1>1, <1>2, <1>3, <1>4, <1>5, <1>6, <1>7, <1>8, <1>9, <1>10 DEF Next

\* However many streams connect to a job, and whenever, one run of it is started at
\* most: _pending_jobs gives its TCK to one of them (streaming/routes.py).
THEOREM StartedOnce == Spec => []RunsOnce
  <1>1. OnceInv => RunsOnce
    BY DEF OnceInv
  <1> QED BY InitOnce, NextOnce, <1>1, PTL DEF Spec

-----------------------------------------------------------------------------
(***************************************************************************)
(* Sequences, put together and taken apart.                                *)
(***************************************************************************)

LEMMA ConcatFacts ==
  ASSUME NEW T, NEW x \in Seq(T), NEW y \in Seq(T)
  PROVE  /\ x \o y \in Seq(T) /\ Len(x \o y) = Len(x) + Len(y) /\ Len(x) \in Nat /\ Len(y) \in Nat
         /\ \A i \in 1..(Len(x) + Len(y)) : (x \o y)[i] = IF i <= Len(x) THEN x[i] ELSE y[i - Len(x)]
  OBVIOUS

\* An appended sequence, place by place.
LEMMA AppendFacts ==
  ASSUME NEW T, NEW x \in Seq(T), NEW e \in T
  PROVE  /\ Append(x, e) \in Seq(T) /\ Len(Append(x, e)) = Len(x) + 1 /\ Len(x) \in Nat
         /\ Append(x, e)[Len(x) + 1] = e /\ \A i \in 1..Len(x) : Append(x, e)[i] = x[i]
  OBVIOUS

\* Two sequences that agree at every place are one.
LEMMA SameSequence ==
  ASSUME NEW T, NEW x \in Seq(T), NEW y \in Seq(T), Len(x) = Len(y), \A i \in 1..Len(x) : x[i] = y[i]
  PROVE  x = y
  OBVIOUS

\* An element more at the end of the second is one more at the end of both.
LEMMA ConcatAppend ==
  ASSUME NEW T, NEW x \in Seq(T), NEW y \in Seq(T), NEW e \in T
  PROVE  x \o Append(y, e) = Append(x \o y, e)
  <1> DEFINE z == Append(y, e)
             l == x \o z
             a == x \o y
             r == Append(a, e)
             m == Len(x)
             n == Len(y)
  <1>1. z \in Seq(T) /\ Len(z) = n + 1 /\ n \in Nat /\ m \in Nat /\ z[n + 1] = e /\ \A i \in 1..n : z[i] = y[i]
    BY AppendFacts
  <1>2. a \in Seq(T) /\ Len(a) = m + n /\ \A i \in 1..(m + n) : a[i] = IF i <= m THEN x[i] ELSE y[i - m]
    BY ConcatFacts
  <1> HIDE DEF z
  <1>3. l \in Seq(T) /\ Len(l) = m + Len(z) /\ \A i \in 1..(m + Len(z)) : l[i] = IF i <= m THEN x[i] ELSE z[i - m]
    BY <1>1, ConcatFacts
  <1> HIDE DEF l, a
  <1>4. r \in Seq(T) /\ Len(r) = m + n + 1 /\ r[m + n + 1] = e /\ \A i \in 1..(m + n) : r[i] = a[i]
    BY <1>2, AppendFacts
  <1> HIDE DEF r, m, n
  <1>5. Len(l) = m + n + 1
    BY <1>1, <1>3
  <1>6. ASSUME NEW i \in 1..(m + n + 1) PROVE l[i] = r[i]
    <2>1. CASE i <= m
      BY <1>1, <1>2, <1>3, <1>4, <2>1
    <2>2. CASE i > m /\ i < m + n + 1
      <3>1. i - m \in 1..n /\ i \in 1..(m + n) /\ i \in 1..(m + (n + 1)) /\ ~(i <= m)
        BY <1>1, <2>2
      <3>2. l[i] = z[i - m] /\ a[i] = y[i - m] /\ z[i - m] = y[i - m] /\ r[i] = a[i]
        BY <1>1, <1>2, <1>3, <1>4, <3>1
      <3> QED BY <3>2
    <2>3. CASE i = m + n + 1
      <3>1. i - m = n + 1 /\ ~(i <= m) /\ i \in 1..(m + (n + 1))
        BY <1>1, <2>3
      <3>2. l[i] = z[n + 1]
        BY <1>1, <1>3, <3>1
      <3> QED BY <1>1, <1>4, <2>3, <3>2
    <2> QED BY <1>1, <2>1, <2>2, <2>3
  <1>7. l = r
    BY <1>3, <1>4, <1>5, <1>6, SameSequence
  <1> QED BY <1>7 DEF l, r, a, z

\* The first element of the second moves to the end of the first.
LEMMA ConcatMove ==
  ASSUME NEW T, NEW x \in Seq(T), NEW y \in Seq(T), y # <<>>
  PROVE  Append(x, Head(y)) \o Tail(y) = x \o y
  <1> DEFINE b == Append(x, Head(y))
             t == Tail(y)
             l == b \o t
             r == x \o y
             m == Len(x)
             n == Len(y)
  <1>1. /\ m \in Nat /\ n \in Nat \ {0} /\ Head(y) = y[1] /\ Head(y) \in T
        /\ t \in Seq(T) /\ Len(t) = n - 1 /\ \A i \in 1..(n - 1) : t[i] = y[i + 1]
    OBVIOUS
  <1>2. b \in Seq(T) /\ Len(b) = m + 1 /\ b[m + 1] = y[1] /\ \A i \in 1..m : b[i] = x[i]
    BY <1>1, AppendFacts
  <1>3. r \in Seq(T) /\ Len(r) = m + n /\ \A i \in 1..(m + n) : r[i] = IF i <= m THEN x[i] ELSE y[i - m]
    BY ConcatFacts
  <1> HIDE DEF b, t, r
  <1>4. l \in Seq(T) /\ Len(l) = Len(b) + Len(t)
        /\ \A i \in 1..(Len(b) + Len(t)) : l[i] = IF i <= Len(b) THEN b[i] ELSE t[i - Len(b)]
    BY <1>1, <1>2, ConcatFacts
  <1> HIDE DEF l, m, n
  <1>5. Len(l) = m + n
    BY <1>1, <1>2, <1>4
  <1>6. \A i \in 1..(m + n) : l[i] = IF i <= m + 1 THEN b[i] ELSE t[i - (m + 1)]
    <2>1. Len(b) + Len(t) = m + n
      BY <1>1, <1>2
    <2> QED BY <1>2, <1>4, <2>1
  <1>7. ASSUME NEW i \in 1..(m + n) PROVE l[i] = r[i]
    <2>1. CASE i <= m
      <3>1. i \in 1..m /\ i <= m + 1
        BY <1>1, <2>1
      <3> QED BY <1>2, <1>3, <1>6, <2>1, <3>1
    <2>2. CASE i = m + 1
      <3>1. i - m = 1 /\ ~(i <= m)
        BY <1>1, <2>2
      <3> QED BY <1>1, <1>2, <1>3, <1>6, <2>2, <3>1
    <2>3. CASE i > m + 1
      <3>1. i - (m + 1) \in 1..(n - 1) /\ ~(i <= m + 1) /\ ~(i <= m) /\ i - (m + 1) + 1 = i - m
        BY <1>1, <2>3
      <3>2. l[i] = t[i - (m + 1)] /\ r[i] = y[i - m]
        BY <1>1, <1>3, <1>6, <3>1
      <3>3. t[i - (m + 1)] = y[i - (m + 1) + 1]
        BY <1>1, <3>1
      <3> QED BY <3>1, <3>2, <3>3
    <2> QED BY <1>1, <2>1, <2>2, <2>3
  <1>8. l = r
    BY <1>3, <1>4, <1>5, <1>7, SameSequence
  <1> QED BY <1>8 DEF l, r, b, t

\* The numbers of the events of a sequence, and of it with one more.
Ns(q) == [i \in DOMAIN q |-> q[i].n]
\* The numbers of an appended queue.
LEMMA NsAppend ==
  ASSUME NEW T, NEW q \in Seq(T), NEW e \in T
  PROVE  Ns(Append(q, e)) = Append(Ns(q), e.n)
  <1> DEFINE r == Append(q, e)
             l == Ns(r)
             a == Ns(q)
             U == {x.n : x \in T}
  <1>1. /\ r \in Seq(T) /\ Len(r) = Len(q) + 1 /\ Len(q) \in Nat /\ r[Len(q) + 1] = e
        /\ \A i \in 1..Len(q) : r[i] = q[i]
        /\ DOMAIN q = 1..Len(q) /\ DOMAIN r = 1..(Len(q) + 1)
    BY AppendFacts
  <1> HIDE DEF r
  <1>2. a \in Seq(U) /\ Len(a) = Len(q) /\ \A i \in 1..Len(q) : a[i] = q[i].n
    BY <1>1 DEF Ns
  <1>3. l \in Seq(U) /\ Len(l) = Len(q) + 1 /\ \A i \in 1..(Len(q) + 1) : l[i] = r[i].n
    BY <1>1 DEF Ns
  <1>4. e.n \in U
    OBVIOUS
  <1> HIDE DEF a, l, U
  <1> DEFINE z == Append(a, e.n)
  <1>5. z \in Seq(U) /\ Len(z) = Len(a) + 1 /\ z[Len(a) + 1] = e.n /\ \A i \in 1..Len(a) : z[i] = a[i]
    BY <1>2, <1>4, AppendFacts
  <1> HIDE DEF z
  <1>6. \A i \in 1..(Len(q) + 1) : i = Len(q) + 1 \/ i \in 1..Len(q)
    BY <1>1
  <1>7. \A i \in 1..Len(l) : l[i] = z[i]
    BY <1>1, <1>2, <1>3, <1>5, <1>6
  <1>8. l = z
    BY <1>2, <1>3, <1>5, <1>7, SameSequence
  <1> QED BY <1>8 DEF l, z, r, a

\* The events of what a connection was sent, and of it with one more.
Evs(q) == [i \in DOMAIN q |-> q[i].ev]
\* The events of a queue, place by place.
LEMMA EvsFacts ==
  ASSUME NEW q \in Seq(Numbered)
  PROVE  Evs(q) \in Seq(Events \cup {None}) /\ Len(Evs(q)) = Len(q) /\ \A i \in 1..Len(q) : Evs(q)[i] = q[i].ev
  <1>1. DOMAIN q = 1..Len(q) /\ Len(q) \in Nat
    OBVIOUS
  <1>2. \A i \in 1..Len(q) : q[i].ev \in Events \cup {None}
    <2> SUFFICES ASSUME NEW i \in 1..Len(q) PROVE q[i].ev \in Events \cup {None}
      OBVIOUS
    <2>1. q[i] \in Numbered
      OBVIOUS
    <2> QED BY <2>1 DEF Numbered
  <1> QED BY <1>1, <1>2 DEF Evs

\* The events of an appended queue.
LEMMA EvsAppend ==
  ASSUME NEW q \in Seq(Numbered), NEW e \in Numbered
  PROVE  Evs(Append(q, e)) = Append(Evs(q), e.ev)
  <1> DEFINE r == Append(q, e)
             l == Evs(r)
             a == Evs(q)
             z == Append(a, e.ev)
  <1>1. /\ r \in Seq(Numbered) /\ Len(r) = Len(q) + 1 /\ Len(q) \in Nat /\ r[Len(q) + 1] = e
        /\ \A i \in 1..Len(q) : r[i] = q[i]
    BY AppendFacts
  <1> HIDE DEF r
  <1>2. a \in Seq(Events \cup {None}) /\ Len(a) = Len(q) /\ \A i \in 1..Len(q) : a[i] = q[i].ev
    BY EvsFacts
  <1>3. l \in Seq(Events \cup {None}) /\ Len(l) = Len(r) /\ \A i \in 1..Len(r) : l[i] = r[i].ev
    BY <1>1, EvsFacts
  <1>4. e.ev \in Events \cup {None}
    BY DEF Numbered
  <1> HIDE DEF a, l
  <1>5. z \in Seq(Events \cup {None}) /\ Len(z) = Len(a) + 1 /\ z[Len(a) + 1] = e.ev /\ \A i \in 1..Len(a) : z[i] = a[i]
    BY <1>2, <1>4, AppendFacts
  <1> HIDE DEF z
  <1>6. \A i \in 1..Len(r) : i = Len(q) + 1 \/ i \in 1..Len(q)
    BY <1>1
  <1>7. \A i \in 1..Len(l) : l[i] = z[i]
    BY <1>1, <1>2, <1>3, <1>5, <1>6
  <1>8. l = z
    BY <1>1, <1>2, <1>3, <1>5, <1>7, SameSequence
  <1> QED BY <1>8 DEF l, z, r, a

-----------------------------------------------------------------------------
(***************************************************************************)
(* The invariant.                                                          *)
(***************************************************************************)

\* A job that waits for its stream has published nothing, and no connection is to it.
PendingFits ==
    /\ \A j \in pending : run[j] = "none" /\ job[j] # "ABSENT"
    /\ \A j \in Jobs : run[j] = "none" => log[j] = <<>>
    /\ \A s \in Streams : stream[s].pc # "off" =>
          stream[s].job \in Jobs /\ stream[s].job \notin pending /\ job[stream[s].job] # "ABSENT"

\* The connection that starts a run follows none, and nothing is sent before the replay.
StreamsFit ==
    \A s \in Streams : /\ stream[s].ran = "yes" => stream[s].from = None
                       /\ stream[s].pc \in {"off", "new"} => stream[s].out = <<>>

\* Ids rise, and none is above the job's counter.
IdsRise(q, top) ==
    /\ \A i \in 1..Len(q) : q[i].id <= top
    /\ \A i, k \in 1..Len(q) : i < k => q[i].id < q[k].id
BufferFits ==
    \A j \in Jobs : Len(buffer[j]) <= counter[j] /\ \A i \in 1..Len(buffer[j]) : buffer[j][i].id = counter[j] - Len(buffer[j]) + i
OutFits ==
    \A s \in Streams : stream[s].pc # "off" => IdsRise(stream[s].out, counter[stream[s].job])

StreamInv == TypeOK /\ PendingFits /\ StreamsFit /\ BufferFits /\ OutFits /\ StarterMissesNothing

\* The types of the tables that the steps below change.
StreamTables ==
    /\ counter \in [Jobs -> Nat]
    /\ buffer \in [Jobs -> Seq(Numbered)] /\ \A j \in Jobs : Len(buffer[j]) <= MaxPerJob
    /\ stream \in [Streams -> StreamRec]

\* A number is given and kept: the ring stays the tail of what was numbered.
LEMMA NumberDoes ==
  ASSUME StreamTables, BufferFits, NEW j \in Jobs, NEW e \in Events \cup {None}, Number(j, e)
  PROVE  /\ counter' \in [Jobs -> Nat] /\ counter'[j] = counter[j] + 1
         /\ \A k \in Jobs : counter[k] \in Nat /\ counter'[k] >= counter[k]
         /\ buffer' \in [Jobs -> Seq(Numbered)] /\ \A k \in Jobs : Len(buffer'[k]) <= MaxPerJob
         /\ BufferFits'
  <1> DEFINE b == buffer[j]
             x == [id |-> counter[j] + 1, ev |-> e]
             all == Append(b, x)
             c == IF Len(all) > MaxPerJob THEN Tail(all) ELSE all
  <1>1. /\ counter \in [Jobs -> Nat] /\ counter' = [counter EXCEPT ![j] = counter[j] + 1]
        /\ buffer \in [Jobs -> Seq(Numbered)] /\ buffer' = [buffer EXCEPT ![j] = c]
    BY DEF StreamTables, Number
  <1>2. counter[j] \in Nat /\ MaxPerJob \in Nat \ {0} /\ b \in Seq(Numbered) /\ Len(b) <= MaxPerJob /\ Len(b) \in Nat
    BY <1>1, EventStreamAssumption DEF StreamTables
  <1>3. x \in Numbered /\ x.id = counter[j] + 1
    BY <1>2 DEF Numbered
  <1>4. Len(b) <= counter[j] /\ \A i \in 1..Len(b) : b[i].id = counter[j] - Len(b) + i
    BY DEF BufferFits
  <1> HIDE DEF x, b
  <1>5. /\ all \in Seq(Numbered) /\ Len(all) = Len(b) + 1 /\ all[Len(b) + 1] = x
        /\ \A i \in 1..Len(b) : all[i] = b[i]
    BY <1>2, <1>3, AppendFacts
  <1> HIDE DEF all
  <1>6. \A i \in 1..Len(all) : all[i].id = counter[j] - Len(b) + i
    <2> SUFFICES ASSUME NEW i \in 1..Len(all) PROVE all[i].id = counter[j] - Len(b) + i
      OBVIOUS
    <2>1. CASE i = Len(b) + 1
      BY <1>2, <1>3, <1>5, <2>1
    <2>2. CASE i \in 1..Len(b)
      BY <1>4, <1>5, <2>2
    <2> QED BY <1>2, <1>5, <2>1, <2>2
  <1>7. /\ c \in Seq(Numbered) /\ Len(c) <= MaxPerJob /\ Len(c) <= counter[j] + 1
        /\ \A i \in 1..Len(c) : c[i].id = counter[j] + 1 - Len(c) + i
    <2>1. CASE Len(all) > MaxPerJob
      <3>1. c = Tail(all) /\ all # <<>>
        BY <1>2, <1>5, <2>1
      <3>2. Tail(all) \in Seq(Numbered) /\ Len(Tail(all)) = Len(all) - 1 /\ \A i \in 1..(Len(all) - 1) : Tail(all)[i] = all[i + 1]
        BY <1>5, <3>1
      <3>3. c \in Seq(Numbered) /\ Len(c) = Len(b) /\ \A i \in 1..Len(b) : c[i] = all[i + 1]
        <4>1. Len(all) - 1 = Len(b)
          BY <1>2, <1>5
        <4> QED BY <3>1, <3>2, <4>1
      <3> HIDE DEF c
      <3>4. \A i \in 1..Len(b) : c[i].id = counter[j] + 1 - Len(b) + i
        <4> SUFFICES ASSUME NEW i \in 1..Len(b) PROVE c[i].id = counter[j] + 1 - Len(b) + i
          OBVIOUS
        <4>1. i + 1 \in 1..Len(all)
          BY <1>2, <1>5
        <4>2. c[i].id = counter[j] - Len(b) + (i + 1)
          BY <1>6, <3>3, <4>1
        <4> QED BY <1>2, <4>2
      <3> QED BY <1>2, <1>4, <3>3, <3>4
    <2>2. CASE ~(Len(all) > MaxPerJob)
      <3>1. c = all
        BY <2>2
      <3>2. \A i \in 1..Len(all) : all[i].id = counter[j] + 1 - Len(all) + i
        BY <1>2, <1>5, <1>6
      <3> HIDE DEF c
      <3> QED BY <1>2, <1>4, <1>5, <2>2, <3>1, <3>2
    <2> QED BY <2>1, <2>2
  <1> HIDE DEF c
  <1>8. counter' \in [Jobs -> Nat] /\ counter'[j] = counter[j] + 1 /\ \A k \in Jobs : k # j => counter'[k] = counter[k]
    BY <1>1, <1>2
  <1>9. buffer' \in [Jobs -> Seq(Numbered)] /\ buffer'[j] = c /\ \A k \in Jobs : k # j => buffer'[k] = buffer[k]
    BY <1>1, <1>7
  <1>10. \A k \in Jobs : counter[k] \in Nat /\ counter'[k] >= counter[k]
    BY <1>1, <1>2, <1>8
  <1>11. \A k \in Jobs : Len(buffer'[k]) <= MaxPerJob
    BY <1>7, <1>9 DEF StreamTables
  <1>12. BufferFits'
    <2> SUFFICES ASSUME NEW k \in Jobs
                 PROVE  Len(buffer'[k]) <= counter'[k] /\ \A i \in 1..Len(buffer'[k]) : buffer'[k][i].id = counter'[k] - Len(buffer'[k]) + i
      BY DEF BufferFits
    <2>1. CASE k = j
      <3>1. buffer'[k] = c /\ counter'[k] = counter[j] + 1
        BY <1>8, <1>9, <2>1
      <3>2. \A i \in 1..Len(c) : c[i].id = counter'[k] - Len(c) + i
        BY <1>2, <1>7, <3>1
      <3>3. Len(c) <= counter'[k]
        BY <1>2, <1>7, <3>1
      <3> QED BY <3>1, <3>2, <3>3, Zenon
    <2>2. CASE k # j
      <3>1. buffer'[k] = buffer[k] /\ counter'[k] = counter[k]
        BY <1>8, <1>9, <2>2
      <3> QED BY <3>1 DEF BufferFits
    <2> QED BY <2>1, <2>2
  <1> QED BY <1>8, <1>9, <1>10, <1>11, <1>12

-----------------------------------------------------------------------------
(***************************************************************************)
(* What a connection shows.                                                *)
(***************************************************************************)

\* A connection as it is after a step, and what of it is of the run.
ShownOf(x) == Evs(x.out) \o x.queue
RunOf(x) == Filter(ShownOf(x), RunEvents(x.job))
\* What a connection sent of its run, and its numbers.
LEMMA OfRunIs == \A s : OfRun(s) = RunOf(stream[s]) /\ Ns(OfRun(s)) = [i \in DOMAIN OfRun(s) |-> OfRun(s)[i].n]
  BY DEF OfRun, RunOf, Shown, ShownOf, Evs, Ns

\* The property, said of the numbers of what the starter sent and has queued.
LEMMA StarterIs ==
    StarterMissesNothing <=> \A s \in Streams :
        stream[s].ran = "yes" /\ stream[s].pc \in {"new", "live"} => Ns(RunOf(stream[s])) = log[stream[s].job]
  <1>1. \A s : Ns(RunOf(stream[s])) = [i \in DOMAIN OfRun(s) |-> OfRun(s)[i].n]
    BY OfRunIs
  <1> QED BY <1>1 DEF StarterMissesNothing

\* An event more in the queue is one more of the run, if it is of the run.
LEMMA QueueMore ==
  ASSUME NEW x \in StreamRec, NEW e \in Events
  PROVE  LET y == [x EXCEPT !.queue = Append(@, e)]
         IN  /\ y \in StreamRec
             /\ y.pc = x.pc /\ y.job = x.job /\ y.from = x.from /\ y.ran = x.ran /\ y.out = x.out
             /\ RunOf(y) = IF e \in RunEvents(x.job) THEN Append(RunOf(x), e) ELSE RunOf(x)
             /\ Ns(RunOf(y)) = IF e \in RunEvents(x.job) THEN Append(Ns(RunOf(x)), e.n) ELSE Ns(RunOf(x))
  <1> DEFINE T == Events \cup {None}
             q == Append(x.queue, e)
             y == [x EXCEPT !.queue = q]
             S == RunEvents(x.job)
             w == ShownOf(x)
  <1>1. x.queue \in Seq(Events) /\ x.out \in Seq(Numbered)
    BY DEF StreamRec
  <1>2. q \in Seq(Events)
    BY <1>1
  <1> HIDE DEF q
  <1>3. y \in StreamRec /\ y.pc = x.pc /\ y.job = x.job /\ y.from = x.from /\ y.ran = x.ran /\ y.out = x.out /\ y.queue = q
    BY <1>2 DEF StreamRec
  <1>4. Evs(x.out) \in Seq(T) /\ x.queue \in Seq(T) /\ e \in T
    BY <1>1, EvsFacts
  <1>5. w \in Seq(T) /\ ShownOf(y) = Append(w, e)
    <2>1. Evs(x.out) \o x.queue \in Seq(T)
      BY <1>4, ConcatFacts
    <2>2. Evs(x.out) \o Append(x.queue, e) = Append(Evs(x.out) \o x.queue, e)
      <3> DEFINE o == Evs(x.out)
                 p == x.queue
      <3>1. o \in Seq(T) /\ p \in Seq(T) /\ e \in T
        BY <1>4
      <3> HIDE DEF o, p, T
      <3>2. o \o Append(p, e) = Append(o \o p, e)
        BY <3>1, ConcatAppend
      <3> QED BY <3>2 DEF o, p
    <2> QED BY <1>3, <2>1, <2>2 DEF ShownOf, q
  <1> HIDE DEF T, y, S, w
  <1>6. RunOf(y) = IF e \in S THEN Append(RunOf(x), e) ELSE RunOf(x)
    <2>1. Filter(Append(w, e), S) = IF e \in S THEN Append(Filter(w, S), e) ELSE Filter(w, S)
      BY <1>4, <1>5, FilterAppend
    <2> QED BY <1>3, <1>5, <2>1 DEF RunOf, S, w
  <1>7. Ns(RunOf(y)) = IF e \in S THEN Append(Ns(RunOf(x)), e.n) ELSE Ns(RunOf(x))
    <2>1. RunOf(x) \in Seq(T)
      BY <1>5, FilterFacts DEF RunOf, w
    <2>2. Ns(Append(RunOf(x), e)) = Append(Ns(RunOf(x)), e.n)
      BY <1>4, <2>1, NsAppend
    <2> QED BY <1>6, <2>2
  <1> QED BY <1>3, <1>6, <1>7 DEF y, q, S

\* A connection that has been sent nothing and has nothing queued.
LEMMA NothingShown ==
  ASSUME NEW x, x.out = <<>>, x.queue = <<>>
  PROVE  Ns(RunOf(x)) = <<>>
  <1>1. <<>> \in Seq(Numbered) /\ <<>> \in Seq(Events \cup {None})
    OBVIOUS
  <1>2. Evs(<<>>) = <<>>
    BY DEF Evs
  <1>3. ShownOf(x) = <<>>
    BY <1>1, <1>2 DEF ShownOf
  <1>4. Filter(<<>>, RunEvents(x.job)) = <<>>
    BY FilterEmpty
  <1> QED BY <1>3, <1>4 DEF RunOf, Ns

\* The first of the queue is sent.
LEMMA QueueToOut ==
  ASSUME NEW x \in StreamRec, x.queue # <<>>, NEW id \in Nat, NEW y,
         y.out = Append(x.out, [id |-> id, ev |-> Head(x.queue)]), y.queue = Tail(x.queue), y.job = x.job
  PROVE  RunOf(y) = RunOf(x)
  <1> DEFINE T == Events \cup {None}
             z == [id |-> id, ev |-> Head(x.queue)]
  <1>1. x.queue \in Seq(Events) /\ x.out \in Seq(Numbered)
    BY DEF StreamRec
  <1>2. Head(x.queue) \in Events
    BY <1>1
  <1>3. z \in Numbered /\ z.ev = Head(x.queue)
    BY <1>2 DEF Numbered
  <1> HIDE DEF z
  <1>4. Evs(y.out) = Append(Evs(x.out), Head(x.queue))
    BY <1>1, <1>3, EvsAppend DEF z
  <1>5. Evs(x.out) \in Seq(T) /\ x.queue \in Seq(T)
    BY <1>1, EvsFacts
  <1>6. Append(Evs(x.out), Head(x.queue)) \o Tail(x.queue) = Evs(x.out) \o x.queue
    BY <1>5, ConcatMove
  <1> QED BY <1>4, <1>6 DEF RunOf, ShownOf

-----------------------------------------------------------------------------
(***************************************************************************)
(* The steps, by what they do to the connections.                          *)
(***************************************************************************)
JobTypes ==
    /\ job \in [Jobs -> {"ABSENT", "QUEUED", "RUNNING", "ENDED", "CANCELLED"}]
    /\ pending \subseteq Jobs /\ returned \subseteq Jobs /\ cancels \subseteq Jobs
    /\ run \in [Jobs -> {"none", "task", "going", "raised", "over"}]
    /\ starts \in [Jobs -> Nat] /\ log \in [Jobs -> Seq(1..Error)]
JobsFit ==
    /\ \A j \in pending : run[j] = "none" /\ job[j] # "ABSENT"
    /\ \A j \in Jobs : run[j] = "none" => log[j] = <<>>

\* The type invariant is the types of the jobs and of the tables.
LEMMA StreamTypes == TypeOK <=> JobTypes /\ StreamTables
  BY DEF TypeOK, JobTypes, StreamTables

\* What holds of each connection.
StreamFits ==
    \A s \in Streams :
        /\ stream[s].pc # "off" =>
              /\ stream[s].job \in Jobs /\ stream[s].job \notin pending /\ job[stream[s].job] # "ABSENT"
              /\ IdsRise(stream[s].out, counter[stream[s].job])
        /\ stream[s].ran = "yes" => stream[s].from = None
        /\ stream[s].pc \in {"off", "new"} => stream[s].out = <<>>
        /\ stream[s].ran = "yes" /\ stream[s].pc \in {"new", "live"} => Ns(RunOf(stream[s])) = log[stream[s].job]

\* The invariant, by its parts.
LEMMA StreamParts == StreamInv <=> JobTypes /\ StreamTables /\ JobsFit /\ BufferFits /\ StreamFits
  BY StreamTypes, StarterIs DEF StreamInv, PendingFits, JobsFit, StreamsFit, OutFits, StreamFits

\* The monitor dispatches an event: each queue it reaches has it, and the log of its run.
LEMMA DispatchKeeps ==
  ASSUME StreamInv, NEW e \in Events, Dispatch(e), UNCHANGED <<counter, buffer>>, JobTypes', JobsFit',
         pending' \subseteq pending, \A k \in Jobs : job[k] # "ABSENT" => job'[k] # "ABSENT",
         \A k \in Jobs : log'[k] = IF e \in RunEvents(k) THEN Append(log[k], e.n) ELSE log[k]
  PROVE  StreamInv'
  <1>1. StreamTables /\ BufferFits /\ stream \in [Streams -> StreamRec]
    BY StreamParts DEF StreamTables
  <1> DEFINE More(x) == [x EXCEPT !.queue = Append(@, e)]
  <1>2. stream' = [s \in Streams |-> IF stream[s].pc \notin {"new", "live"} THEN stream[s] ELSE More(stream[s])]
    BY DEF Dispatch
  <1>3. ASSUME NEW x \in StreamRec
        PROVE  /\ More(x) \in StreamRec
               /\ More(x).pc = x.pc /\ More(x).job = x.job /\ More(x).from = x.from /\ More(x).ran = x.ran /\ More(x).out = x.out
               /\ Ns(RunOf(More(x))) = IF e \in RunEvents(x.job) THEN Append(Ns(RunOf(x)), e.n) ELSE Ns(RunOf(x))
    BY QueueMore
  <1> HIDE DEF More
  <1>4. stream' \in [Streams -> StreamRec]
    BY <1>1, <1>2, <1>3
  <1>5. StreamTables'
    BY <1>1, <1>4 DEF StreamTables
  <1>6. BufferFits'
    BY <1>1 DEF BufferFits
  <1>7. ASSUME NEW s \in Streams
        PROVE  /\ stream'[s].pc # "off" =>
                     /\ stream'[s].job \in Jobs /\ stream'[s].job \notin pending' /\ job'[stream'[s].job] # "ABSENT"
                     /\ IdsRise(stream'[s].out, counter'[stream'[s].job])
               /\ stream'[s].ran = "yes" => stream'[s].from = None
               /\ stream'[s].pc \in {"off", "new"} => stream'[s].out = <<>>
               /\ stream'[s].ran = "yes" /\ stream'[s].pc \in {"new", "live"} =>
                     Ns(RunOf(stream'[s])) = log'[stream'[s].job]
    <2> DEFINE x == stream[s]
               y == stream'[s]
    <2>1. x \in StreamRec
      BY <1>1
    <2>2. /\ y.pc = x.pc /\ y.job = x.job /\ y.from = x.from /\ y.ran = x.ran /\ y.out = x.out
          /\ x.pc \in {"new", "live"} =>
                Ns(RunOf(y)) = IF e \in RunEvents(x.job) THEN Append(Ns(RunOf(x)), e.n) ELSE Ns(RunOf(x))
      <3>1. CASE x.pc \in {"new", "live"}
        <4>1. y = More(x)
          BY <1>2, <3>1
        <4> QED BY <1>3, <2>1, <4>1
      <3>2. CASE x.pc \notin {"new", "live"}
        <4>1. y = x
          BY <1>2, <3>2
        <4> QED BY <3>2, <4>1
      <3> QED BY <3>1, <3>2
    <2>3. /\ x.pc # "off" => x.job \in Jobs /\ x.job \notin pending /\ job[x.job] # "ABSENT" /\ IdsRise(x.out, counter[x.job])
          /\ x.ran = "yes" => x.from = None
          /\ x.pc \in {"off", "new"} => x.out = <<>>
          /\ x.ran = "yes" /\ x.pc \in {"new", "live"} => Ns(RunOf(x)) = log[x.job]
      BY StreamParts DEF StreamFits
    <2> HIDE DEF x, y
    <2>4. y.pc # "off" => y.job \in Jobs /\ y.job \notin pending' /\ job'[y.job] # "ABSENT" /\ IdsRise(y.out, counter'[y.job])
      BY <2>2, <2>3
    <2>5. y.ran = "yes" /\ y.pc \in {"new", "live"} => Ns(RunOf(y)) = log'[y.job]
      BY <2>2, <2>3
    <2> QED BY <2>2, <2>3, <2>4, <2>5 DEF y
  <1>8. JobTypes' /\ StreamTables' /\ JobsFit' /\ BufferFits'
    BY <1>5, <1>6
  <1>9. StreamFits'
    BY <1>7 DEF StreamFits
  <1> QED BY <1>8, <1>9, StreamParts, PTL

\* A step that shows nothing.
LEMMA UnshownKeeps ==
  ASSUME StreamInv, UNCHANGED <<log, counter, buffer, stream>>, JobTypes', JobsFit',
         \A s \in Streams : stream[s].pc # "off" => stream[s].job \notin pending' /\ job'[stream[s].job] # "ABSENT"
  PROVE  StreamInv'
  <1>1. JobTypes' /\ StreamTables' /\ JobsFit' /\ BufferFits'
    BY StreamParts DEF StreamTables, BufferFits
  <1>2. ASSUME NEW s \in Streams
        PROVE  /\ stream'[s].pc # "off" =>
                     /\ stream'[s].job \in Jobs /\ stream'[s].job \notin pending' /\ job'[stream'[s].job] # "ABSENT"
                     /\ IdsRise(stream'[s].out, counter'[stream'[s].job])
               /\ stream'[s].ran = "yes" => stream'[s].from = None
               /\ stream'[s].pc \in {"off", "new"} => stream'[s].out = <<>>
               /\ stream'[s].ran = "yes" /\ stream'[s].pc \in {"new", "live"} =>
                     Ns(RunOf(stream'[s])) = log'[stream'[s].job]
    BY StreamParts DEF StreamFits
  <1>3. StreamFits'
    BY <1>2 DEF StreamFits
  <1> QED BY <1>1, <1>3, StreamParts, PTL

\* A step of one connection.
LEMMA OneStream ==
  ASSUME StreamInv, NEW s \in Streams, stream' \in [Streams -> StreamRec],
         \A t \in Streams : t # s => stream'[t] = stream[t], UNCHANGED <<job, log>>, JobTypes', JobsFit',
         StreamTables', BufferFits', pending' \subseteq pending, \A k \in Jobs : counter[k] \in Nat /\ counter'[k] \in Nat /\ counter'[k] >= counter[k],
         stream'[s].pc # "off" =>
            /\ stream'[s].job \in Jobs /\ stream'[s].job \notin pending' /\ job[stream'[s].job] # "ABSENT"
            /\ IdsRise(stream'[s].out, counter'[stream'[s].job]),
         stream'[s].ran = "yes" => stream'[s].from = None,
         stream'[s].pc \in {"off", "new"} => stream'[s].out = <<>>,
         stream'[s].ran = "yes" /\ stream'[s].pc \in {"new", "live"} => Ns(RunOf(stream'[s])) = log[stream'[s].job]
  PROVE  StreamInv'
  <1>1. ASSUME NEW t \in Streams
        PROVE  /\ stream'[t].pc # "off" =>
                     /\ stream'[t].job \in Jobs /\ stream'[t].job \notin pending' /\ job'[stream'[t].job] # "ABSENT"
                     /\ IdsRise(stream'[t].out, counter'[stream'[t].job])
               /\ stream'[t].ran = "yes" => stream'[t].from = None
               /\ stream'[t].pc \in {"off", "new"} => stream'[t].out = <<>>
               /\ stream'[t].ran = "yes" /\ stream'[t].pc \in {"new", "live"} =>
                     Ns(RunOf(stream'[t])) = log'[stream'[t].job]
    <2>1. CASE t = s
      BY <2>1
    <2>2. CASE t # s
      <3> DEFINE x == stream[t]
      <3>1. stream'[t] = x
        BY <2>2
      <3>2. /\ x.pc # "off" => x.job \in Jobs /\ x.job \notin pending /\ job[x.job] # "ABSENT" /\ IdsRise(x.out, counter[x.job])
            /\ x.ran = "yes" => x.from = None
            /\ x.pc \in {"off", "new"} => x.out = <<>>
            /\ x.ran = "yes" /\ x.pc \in {"new", "live"} => Ns(RunOf(x)) = log[x.job]
        BY StreamParts DEF StreamFits
      <3>3. x.out \in Seq(Numbered)
        BY StreamParts DEF StreamTables, StreamRec
      <3> HIDE DEF x
      <3>4. x.pc # "off" => IdsRise(x.out, counter'[x.job])
        <4> SUFFICES ASSUME x.pc # "off" PROVE IdsRise(x.out, counter'[x.job])
          OBVIOUS
        <4>1. IdsRise(x.out, counter[x.job]) /\ counter[x.job] \in Nat /\ counter'[x.job] \in Nat /\ counter'[x.job] >= counter[x.job]
          BY <3>2
        <4>2. ASSUME NEW i \in 1..Len(x.out) PROVE x.out[i].id \in Nat
          <5>1. x.out[i] \in Numbered
            BY <3>3
          <5> QED BY <5>1 DEF Numbered
        <4> QED BY <4>1, <4>2 DEF IdsRise
      <3> QED BY <3>1, <3>2, <3>4
    <2> QED BY <2>1, <2>2
  <1>2. StreamFits'
    BY <1>1 DEF StreamFits
  <1> QED BY <1>2, StreamParts, PTL

-----------------------------------------------------------------------------
(***************************************************************************)
(* Each step.                                                              *)
(***************************************************************************)

\* The events of a run, and the job.cancelled, are events.
LEMMA EventTypes ==
  ASSUME NEW j \in Jobs
  PROVE  /\ \A n \in 0..Error : [job |-> j, n |-> n] \in Events
         /\ \A k, n : [job |-> j, n |-> n] \in RunEvents(k) <=> k = j /\ n \in 1..Error
         /\ 1 \in 1..Error /\ End \in 1..Error /\ Error \in 1..Error /\ \A n \in 1..K : n \in 1..Error
         /\ Cancelled \in 0..Error /\ Cancelled \notin 1..Error /\ \A n \in 1..Error : n \in 0..Error
  BY EventStreamAssumption DEF Events, RunEvents, End, Error, Cancelled

\* A run publishes an event.
LEMMA PublishKeeps ==
  ASSUME StreamInv, NEW j \in Jobs, NEW n \in 1..Error, Publish(j, n), run[j] # "none",
         job' \in [Jobs -> {"ABSENT", "QUEUED", "RUNNING", "ENDED", "CANCELLED"}],
         \A k \in Jobs : job[k] # "ABSENT" => job'[k] # "ABSENT",
         run' \in [Jobs -> {"none", "task", "going", "raised", "over"}],
         run'[j] # "none", \A k \in Jobs : k # j => run'[k] = run[k]
  PROVE  StreamInv'
  <1> DEFINE e == [job |-> j, n |-> n]
  <1>1. e \in Events /\ e.n = n /\ \A k \in Jobs : e \in RunEvents(k) <=> k = j
    BY EventTypes
  <1>2. /\ Dispatch(e) /\ log' = [log EXCEPT ![j] = Append(@, n)]
        /\ UNCHANGED <<pending, returned, cancels, starts, counter, buffer>>
    BY DEF Publish
  <1>3. JobTypes /\ JobsFit
    BY StreamParts
  <1>4. log' \in [Jobs -> Seq(1..Error)]
    BY <1>2, <1>3 DEF JobTypes
  <1>5. JobTypes'
    BY <1>2, <1>3, <1>4 DEF JobTypes
  <1>6. JobsFit'
    BY <1>2, <1>3 DEF JobTypes, JobsFit
  <1> HIDE DEF e
  <1>7. \A k \in Jobs : log'[k] = IF e \in RunEvents(k) THEN Append(log[k], e.n) ELSE log[k]
    BY <1>1, <1>2, <1>3 DEF JobTypes
  <1>8. pending' \subseteq pending /\ UNCHANGED <<counter, buffer>>
    BY <1>2
  <1> QED BY <1>1, <1>2, <1>5, <1>6, <1>7, <1>8, DispatchKeeps

\* The task of the run, and what the run does.
LEMMA RunKeeps ==
  ASSUME StreamInv, NEW j \in Jobs, Start(j) \/ Step(j) \/ RunEnds(j)
  PROVE  StreamInv'
  <1>1. JobTypes
    BY StreamParts
  <1>2. Len(log[j]) \in Nat
    BY <1>1 DEF JobTypes
  <1>3. CASE Start(j)
    <2>1. Publish(j, 1) /\ 1 \in 1..Error
      BY <1>3, EventTypes DEF Start
    <2>2. /\ job' \in [Jobs -> {"ABSENT", "QUEUED", "RUNNING", "ENDED", "CANCELLED"}]
          /\ \A k \in Jobs : job[k] # "ABSENT" => job'[k] # "ABSENT"
      BY <1>1, <1>3 DEF Start, JobTypes
    <2>3. /\ run' \in [Jobs -> {"none", "task", "going", "raised", "over"}] /\ run[j] # "none"
          /\ run'[j] # "none" /\ \A k \in Jobs : k # j => run'[k] = run[k]
      BY <1>1, <1>3 DEF Start, JobTypes
    <2> QED BY <2>1, <2>2, <2>3, PublishKeeps
  <1>4. CASE Step(j)
    <2>1. Publish(j, Len(log[j]) + 1) /\ Len(log[j]) + 1 \in 1..Error
      BY <1>2, <1>4, EventStreamAssumption DEF Step, Error
    <2> QED BY <1>1, <1>4, <2>1, PublishKeeps DEF Step, JobTypes
  <1>5. CASE RunEnds(j)
    <2>1. Publish(j, End) /\ End \in 1..Error
      BY <1>5, EventTypes DEF RunEnds
    <2>2. /\ job' \in [Jobs -> {"ABSENT", "QUEUED", "RUNNING", "ENDED", "CANCELLED"}]
          /\ \A k \in Jobs : job[k] # "ABSENT" => job'[k] # "ABSENT"
      BY <1>1, <1>5 DEF RunEnds, JobTypes
    <2>3. /\ run' \in [Jobs -> {"none", "task", "going", "raised", "over"}] /\ run[j] # "none"
          /\ run'[j] # "none" /\ \A k \in Jobs : k # j => run'[k] = run[k]
      BY <1>1, <1>5 DEF RunEnds, JobTypes
    <2> QED BY <2>1, <2>2, <2>3, PublishKeeps
  <1> QED BY <1>3, <1>4, <1>5

\* A run that raises keeps the invariant.
LEMMA RunRaisesKeeps ==
  ASSUME StreamInv, NEW j \in Jobs, RunRaises(j)
  PROVE  StreamInv'
  <1>1. JobTypes /\ JobsFit /\ StreamFits
    BY StreamParts
  <1>2. CASE job' = [job EXCEPT ![j] = "ENDED"] /\ Publish(j, Error)
    <2>1. Error \in 1..Error
      BY EventTypes
    <2> QED BY <1>1, <1>2, <2>1, PublishKeeps DEF RunRaises, JobTypes
  <1>3. CASE UNCHANGED <<job, pending, returned, cancels, starts, log, counter, buffer, stream>>
    <2>1. JobTypes'
      BY <1>1, <1>3 DEF RunRaises, JobTypes
    <2>2. JobsFit'
      BY <1>1, <1>3 DEF RunRaises, JobTypes, JobsFit
    <2>3. UNCHANGED <<log, counter, buffer, stream>>
      BY <1>3
    <2>4. \A s \in Streams : stream[s].pc # "off" => stream[s].job \notin pending' /\ job'[stream[s].job] # "ABSENT"
      BY <1>1, <1>3 DEF StreamFits
    <2> QED BY <2>1, <2>2, <2>3, <2>4, UnshownKeeps
  <1> QED BY <1>2, <1>3 DEF RunRaises

\* A cancel keeps the invariant.
LEMMA CancelKeeps ==
  ASSUME StreamInv, NEW j \in Jobs, CancelJob(j)
  PROVE  StreamInv'
  <1> DEFINE e == [job |-> j, n |-> Cancelled]
  <1>1. e \in Events /\ \A k \in Jobs : e \notin RunEvents(k)
    BY EventTypes
  <1>2. Dispatch(e) /\ UNCHANGED <<pending, returned, starts, run, log, counter, buffer>>
    BY DEF CancelJob
  <1>3. JobTypes /\ JobsFit
    BY StreamParts
  <1>4. JobTypes'
    BY <1>2, <1>3 DEF CancelJob, JobTypes
  <1>5. JobsFit'
    BY <1>2, <1>3 DEF CancelJob, JobTypes, JobsFit
  <1>6. \A k \in Jobs : job[k] # "ABSENT" => job'[k] # "ABSENT"
    BY <1>3 DEF CancelJob, JobTypes
  <1> HIDE DEF e
  <1>7. \A k \in Jobs : log'[k] = IF e \in RunEvents(k) THEN Append(log[k], e.n) ELSE log[k]
    BY <1>1, <1>2
  <1>8. pending' \subseteq pending /\ UNCHANGED <<counter, buffer>>
    BY <1>2
  <1> QED BY <1>1, <1>2, <1>4, <1>5, <1>6, <1>7, <1>8, DispatchKeeps

\* A job is created: no connection is to it yet.
LEMMA RunYamlKeeps ==
  ASSUME StreamInv, NEW j \in Jobs, RunYaml(j)
  PROVE  StreamInv'
  <1>1. JobTypes /\ JobsFit /\ StreamFits
    BY StreamParts
  <1>2. JobTypes'
    BY <1>1 DEF RunYaml, JobTypes
  <1>3. JobsFit'
    BY <1>1 DEF RunYaml, JobTypes, JobsFit
  <1>4. UNCHANGED <<log, counter, buffer, stream>>
    BY DEF RunYaml
  <1>5. \A s \in Streams : stream[s].pc # "off" => stream[s].job \notin pending' /\ job'[stream[s].job] # "ABSENT"
    BY <1>1 DEF RunYaml, JobTypes, StreamFits
  <1> QED BY <1>2, <1>3, <1>4, <1>5, UnshownKeeps

\* A package run, with the job it returns and the job it is, keeps the invariant.
LEMMA RunPackageKeeps ==
  ASSUME StreamInv, NEW j \in Jobs, NEW k \in Jobs, RunPackage(j, k)
  PROVE  StreamInv'
  <1>1. JobTypes /\ JobsFit /\ StreamFits
    BY StreamParts
  <1>2. JobTypes'
    BY <1>1 DEF RunPackage, JobTypes
  <1>3. JobsFit'
    BY <1>1 DEF RunPackage, JobTypes, JobsFit
  <1>4. UNCHANGED <<log, counter, buffer, stream>>
    BY DEF RunPackage
  <1>5. \A s \in Streams : stream[s].pc # "off" => stream[s].job \notin pending' /\ job'[stream[s].job] # "ABSENT"
    BY <1>1 DEF RunPackage, JobTypes, StreamFits
  <1> QED BY <1>2, <1>3, <1>4, <1>5, UnshownKeeps

\* GET /{job}/stream: the connection has nothing yet; the run it starts has published nothing.
LEMMA ConnectKeeps ==
  ASSUME StreamInv, NEW s \in Streams, NEW j \in Jobs, NEW after \in Nat, NEW from \in Streams \cup {None},
         j \in pending => from = None, Connect(s, j, after, from)
  PROVE  StreamInv'
  <1> DEFINE x == Fresh(j, after, from)
  <1>1. JobTypes /\ JobsFit /\ StreamTables /\ BufferFits
    BY StreamParts
  <1>2. /\ x \in StreamRec /\ x.pc = "new" /\ x.job = j /\ x.from = from /\ x.out = <<>> /\ x.queue = <<>>
        /\ x.ran = IF j \in pending THEN "yes" ELSE "no"
    <2>1. <<>> \in Seq(Events) /\ <<>> \in Seq(Numbered)
      OBVIOUS
    <2> DEFINE r == IF j \in pending THEN "yes" ELSE "no"
    <2>2. r \in {"yes", "no"}
      OBVIOUS
    <2> HIDE DEF r
    <2>3. x = [Off EXCEPT !.pc = "new", !.job = j, !.after = after, !.from = from, !.ran = r]
      BY DEF Fresh, r
    <2> HIDE DEF x
    <2>4. x = [pc |-> "new", job |-> j, after |-> after, from |-> from, ran |-> r, queue |-> <<>>, out |-> <<>>]
      BY <2>3 DEF Off
    <2>5. x \in StreamRec
      BY <2>1, <2>2, <2>4 DEF StreamRec
    <2> QED BY <2>4, <2>5 DEF r
  <1> HIDE DEF x
  <1>3. stream' = [stream EXCEPT ![s] = x] /\ pending' = pending \ {j} /\ job[j] # "ABSENT" /\ UNCHANGED <<job, log, counter, buffer>>
    BY DEF Connect, x
  <1>4. stream' \in [Streams -> StreamRec] /\ stream'[s] = x /\ \A t \in Streams : t # s => stream'[t] = stream[t]
    BY <1>1, <1>2, <1>3 DEF StreamTables
  <1>5. JobTypes'
    BY <1>1 DEF Connect, JobTypes
  <1>6. JobsFit'
    <2>1. \A k \in Jobs : run'[k] = IF k = j /\ j \in pending THEN "task" ELSE run[k]
      BY <1>1 DEF Connect, JobTypes
    <2>2. \A k \in pending' : k # j /\ k \in pending /\ k \in Jobs
      BY <1>1, <1>3 DEF JobTypes
    <2> QED BY <1>1, <1>3, <2>1, <2>2 DEF JobsFit
  <1>7. StreamTables' /\ BufferFits'
    BY <1>1, <1>3, <1>4 DEF StreamTables, BufferFits
  <1>8. \A k \in Jobs : counter[k] \in Nat /\ counter'[k] \in Nat /\ counter'[k] >= counter[k]
    BY <1>1, <1>3 DEF StreamTables
  <1>9. IdsRise(x.out, counter'[x.job])
    BY <1>2 DEF IdsRise
  <1>10. x.ran = "yes" => x.from = None /\ Ns(RunOf(x)) = log[x.job]
    <2> SUFFICES ASSUME j \in pending PROVE x.from = None /\ Ns(RunOf(x)) = log[x.job]
      BY <1>2
    <2>1. log[j] = <<>>
      BY <1>1 DEF JobTypes, JobsFit
    <2>2. Ns(RunOf(x)) = <<>>
      BY <1>2, NothingShown
    <2> QED BY <1>2, <2>1, <2>2
  <1>11. x.job \in Jobs /\ x.job \notin pending' /\ job[x.job] # "ABSENT"
    BY <1>2, <1>3
  <1>12. pending' \subseteq pending
    BY <1>3
  <1> QED BY <1>2, <1>3, <1>4, <1>5, <1>6, <1>7, <1>8, <1>9, <1>10, <1>11, <1>12, OneStream

\* A client that follows a connection is not the one to start the run.
LEMMA ClientKeeps ==
  ASSUME StreamInv, NEW s \in Streams, Client(s)
  PROVE  StreamInv'
  <1>1. CASE \E j \in Jobs : Connect(s, j, 0, None)
    BY <1>1, ConnectKeeps
  <1>2. CASE \E f \in Streams : /\ stream[f].pc \in {"lost", "closed"}
                                /\ Connect(s, stream[f].job, LastId(f), f)
    <2>1. PICK f \in Streams : stream[f].pc \in {"lost", "closed"} /\ Connect(s, stream[f].job, LastId(f), f)
      BY <1>2
    <2>2. stream[f].job \in Jobs /\ stream[f].job \notin pending
      BY <2>1, StreamParts DEF StreamFits
    <2>3. stream[f].out \in Seq(Numbered)
      BY StreamParts DEF StreamTables, StreamRec
    <2>4. LastId(f) \in Nat
      <3>1. CASE stream[f].out = <<>>
        BY <3>1 DEF LastId
      <3>2. CASE stream[f].out # <<>>
        <4>1. Last(stream[f].out) = stream[f].out[Len(stream[f].out)] /\ Len(stream[f].out) \in 1..Len(stream[f].out)
          BY <2>3, <3>2 DEF Last
        <4>2. Last(stream[f].out) \in Numbered
          BY <2>3, <4>1
        <4> QED BY <3>2, <4>2 DEF LastId, Numbered
      <3> QED BY <3>1, <3>2
    <2> QED BY <2>1, <2>2, <2>4, ConnectKeeps
  <1> QED BY <1>1, <1>2 DEF Client

\* What one more id does.
LEMMA RiseMore ==
  ASSUME NEW q \in Seq(Numbered), NEW e \in Numbered, NEW top \in Nat, IdsRise(q, top), e.id = top + 1
  PROVE  IdsRise(Append(q, e), top + 1)
  <1> DEFINE r == Append(q, e)
  <1>1. /\ r \in Seq(Numbered) /\ Len(r) = Len(q) + 1 /\ Len(q) \in Nat /\ r[Len(q) + 1] = e
        /\ \A i \in 1..Len(q) : r[i] = q[i]
    BY AppendFacts
  <1>2. \A i \in 1..Len(q) : q[i].id \in Nat
    <2> SUFFICES ASSUME NEW i \in 1..Len(q) PROVE q[i].id \in Nat
      OBVIOUS
    <2>1. q[i] \in Numbered
      OBVIOUS
    <2> QED BY <2>1 DEF Numbered
  <1> HIDE DEF r
  <1>3. /\ \A i \in 1..Len(q) : q[i].id <= top
        /\ \A i, k \in 1..Len(q) : i < k => q[i].id < q[k].id
    BY DEF IdsRise
  <1>4. \A i \in 1..Len(r) : i \in 1..Len(q) \/ i = Len(q) + 1
    BY <1>1
  <1>5. \A i \in 1..Len(r) : r[i].id <= top + 1
    BY <1>1, <1>2, <1>3, <1>4
  <1>6. ASSUME NEW i \in 1..Len(r), NEW k \in 1..Len(r), i < k PROVE r[i].id < r[k].id
    <2>1. i \in 1..Len(q)
      BY <1>1, <1>6
    <2>2. CASE k \in 1..Len(q)
      BY <1>1, <1>3, <1>6, <2>1, <2>2
    <2>3. CASE k = Len(q) + 1
      BY <1>1, <1>2, <1>3, <2>1, <2>3
    <2> QED BY <1>4, <2>2, <2>3
  <1>7. IdsRise(r, top + 1)
    BY <1>5, <1>6 DEF IdsRise
  <1> QED BY <1>7 DEF r

\* A part of the ring, in its order, rises as the ring does.
LEMMA RingRises ==
  ASSUME NEW q \in Seq(Numbered), NEW top \in Nat, Len(q) <= top, \A i \in 1..Len(q) : q[i].id = top - Len(q) + i, NEW S
  PROVE  Filter(q, S) \in Seq(Numbered) /\ IdsRise(Filter(q, S), top)
  <1> DEFINE r == Filter(q, S)
  <1>1. r \in Seq(Numbered) /\ \E g : KeptFrom(r, q, S, Len(q), g)
    BY FilterFacts
  <1>2. PICK g : KeptFrom(r, q, S, Len(q), g)
    BY <1>1
  <1> HIDE DEF r
  <1>3. /\ g \in [1..Len(r) -> 1..Len(q)] /\ \A i \in 1..Len(r) : r[i] = q[g[i]]
        /\ \A i, k \in 1..Len(r) : i < k => g[i] < g[k]
    BY <1>2 DEF KeptFrom
  <1>4. Len(q) \in Nat /\ Len(r) \in Nat
    BY <1>1
  <1>5. \A i \in 1..Len(r) : g[i] \in 1..Len(q) /\ r[i].id = top - Len(q) + g[i]
    BY <1>3
  <1>6. \A i \in 1..Len(r) : r[i].id <= top
    BY <1>4, <1>5
  <1>7. \A i, k \in 1..Len(r) : i < k => r[i].id < r[k].id
    BY <1>3, <1>4, <1>5
  <1>8. r \in Seq(Numbered) /\ IdsRise(r, top)
    BY <1>1, <1>6, <1>7 DEF IdsRise
  <1> QED BY <1>8 DEF r

\* The response begins: only a connection that follows another replays anything.
LEMMA ReplayKeeps ==
  ASSUME StreamInv, NEW s \in Streams, Replay(s)
  PROVE  StreamInv'
  <1> DEFINE x == stream[s]
             kept == buffer[x.job]
             out == IF x.from = None THEN <<>> ELSE Filter(kept, {e \in ToSet(kept) : e.id > x.after})
             y == [x EXCEPT !.pc = "live", !.out = out]
  <1>1. JobTypes /\ JobsFit /\ StreamTables /\ BufferFits /\ StreamFits
    BY StreamParts
  <1>2. x \in StreamRec /\ x.pc = "new"
    BY <1>1 DEF Replay, StreamTables
  <1>3. /\ x.job \in Jobs /\ x.job \notin pending /\ job[x.job] # "ABSENT" /\ x.out = <<>>
        /\ x.ran = "yes" => x.from = None /\ Ns(RunOf(x)) = log[x.job]
    BY <1>1, <1>2 DEF StreamFits
  <1>4. /\ kept \in Seq(Numbered) /\ counter[x.job] \in Nat /\ Len(kept) <= counter[x.job]
        /\ \A i \in 1..Len(kept) : kept[i].id = counter[x.job] - Len(kept) + i
    BY <1>1, <1>3 DEF StreamTables, BufferFits
  <1>5. stream' = [stream EXCEPT ![s] = y] /\ UNCHANGED <<job, pending, returned, cancels, starts, run, log, counter, buffer>>
    BY <1>1, <1>2 DEF Replay, StreamTables, StreamRec
  <1>6. out \in Seq(Numbered) /\ IdsRise(out, counter[x.job])
    <2>1. CASE x.from = None
      BY <2>1 DEF IdsRise
    <2>2. CASE x.from # None
      <3> HIDE DEF kept
      <3>1. out = Filter(kept, {e \in ToSet(kept) : e.id > x.after})
        BY <2>2 DEF kept
      <3> HIDE DEF out
      <3> QED BY <1>4, <3>1, RingRises
    <2> QED BY <2>1, <2>2
  <1>7. x.from = None => out = <<>>
    OBVIOUS
  <1> HIDE DEF out
  <1>8. y \in StreamRec /\ y.pc = "live" /\ y.job = x.job /\ y.from = x.from /\ y.ran = x.ran /\ y.out = out /\ y.queue = x.queue
    BY <1>2, <1>6 DEF StreamRec
  <1>9. y.ran = "yes" => Ns(RunOf(y)) = log[y.job]
    <2> SUFFICES ASSUME x.ran = "yes" PROVE Ns(RunOf(y)) = log[y.job]
      BY <1>8
    <2>1. RunOf(y) = RunOf(x)
      BY <1>3, <1>7, <1>8 DEF RunOf, ShownOf
    <2> QED BY <1>3, <1>8, <2>1
  <1> HIDE DEF x, y, kept
  <1>10. stream' \in [Streams -> StreamRec] /\ stream'[s] = y /\ \A t \in Streams : t # s => stream'[t] = stream[t]
    BY <1>1, <1>5, <1>8 DEF StreamTables
  <1>11. JobTypes' /\ JobsFit'
    BY <1>1, <1>5 DEF JobTypes, JobsFit
  <1>12. StreamTables' /\ BufferFits'
    BY <1>1, <1>5, <1>10 DEF StreamTables, BufferFits
  <1>13. \A k \in Jobs : counter[k] \in Nat /\ counter'[k] \in Nat /\ counter'[k] >= counter[k]
    BY <1>1, <1>5 DEF StreamTables
  <1>14. IdsRise(y.out, counter'[y.job]) /\ y.job \in Jobs /\ y.job \notin pending' /\ job[y.job] # "ABSENT"
    BY <1>3, <1>5, <1>6, <1>8
  <1>15. pending' \subseteq pending /\ UNCHANGED <<job, log>>
    BY <1>5
  <1>16. (y.ran = "yes" => y.from = None) /\ y.pc \notin {"off", "new"}
    BY <1>3, <1>8
  <1> QED BY <1>9, <1>10, <1>11, <1>12, <1>13, <1>14, <1>15, <1>16, OneStream

\* One entry of a table is replaced.
LEMMA OneReplaced ==
  ASSUME NEW S, NEW T, NEW f \in [S -> T], NEW s \in S, NEW y \in T, NEW g, g = [f EXCEPT ![s] = y]
  PROVE  g \in [S -> T] /\ g[s] = y /\ \A t \in S : t # s => g[t] = f[t]
  OBVIOUS

\* Something is numbered and sent on a connection.
LEMMA SendKeeps ==
  ASSUME StreamInv, NEW s \in Streams, stream[s].pc = "live", NEW e \in Events \cup {None}, NEW q \in Seq(Events),
         NEW p \in {"live", "closed"}, Number(stream[s].job, e),
         stream' = [stream EXCEPT ![s] =
            [stream[s] EXCEPT !.queue = q, !.out = Append(stream[s].out, [id |-> counter'[stream[s].job], ev |-> e]), !.pc = p]],
         UNCHANGED <<job, pending, returned, cancels, starts, run, log>>,
         p = "live" => stream[s].queue # <<>> /\ e = Head(stream[s].queue) /\ q = Tail(stream[s].queue)
  PROVE  StreamInv'
  <1> DEFINE x == stream[s]
             z == [id |-> counter'[x.job], ev |-> e]
             out == Append(x.out, z)
             y == [x EXCEPT !.queue = q, !.out = out, !.pc = p]
  <1>1. JobTypes /\ JobsFit /\ StreamTables /\ BufferFits /\ StreamFits
    BY StreamParts
  <1>2. x \in StreamRec /\ x.out \in Seq(Numbered)
    BY <1>1 DEF StreamTables, StreamRec
  <1>3. /\ x.job \in Jobs /\ x.job \notin pending /\ job[x.job] # "ABSENT" /\ IdsRise(x.out, counter[x.job])
        /\ x.ran = "yes" => x.from = None /\ Ns(RunOf(x)) = log[x.job]
    BY <1>1 DEF StreamFits
  <1>4. /\ counter' \in [Jobs -> Nat] /\ counter'[x.job] = counter[x.job] + 1
        /\ \A k \in Jobs : counter[k] \in Nat /\ counter'[k] >= counter[k]
        /\ buffer' \in [Jobs -> Seq(Numbered)] /\ \A k \in Jobs : Len(buffer'[k]) <= MaxPerJob
        /\ BufferFits'
    BY <1>1, <1>3, NumberDoes
  <1>5. z \in Numbered /\ z.id = counter[x.job] + 1 /\ z.ev = e
    BY <1>3, <1>4 DEF Numbered
  <1>6. stream' = [stream EXCEPT ![s] = y]
    OBVIOUS
  <1> HIDE DEF z
  <1>7. out \in Seq(Numbered) /\ IdsRise(out, counter'[x.job])
    <2>1. out \in Seq(Numbered)
      BY <1>2, <1>5
    <2>2. IdsRise(Append(x.out, z), counter[x.job] + 1)
      BY <1>2, <1>3, <1>4, <1>5, RiseMore
    <2> QED BY <1>4, <2>1, <2>2
  <1> HIDE DEF out
  <1>8. y \in StreamRec /\ y.pc = p /\ y.job = x.job /\ y.from = x.from /\ y.ran = x.ran /\ y.out = out /\ y.queue = q
    BY <1>2, <1>7 DEF StreamRec
  <1>9. y.ran = "yes" /\ y.pc \in {"new", "live"} => Ns(RunOf(y)) = log[y.job]
    <2> SUFFICES ASSUME x.ran = "yes", p = "live" PROVE Ns(RunOf(y)) = log[y.job]
      BY <1>8
    <2>1. x.queue # <<>> /\ y.out = Append(x.out, [id |-> counter'[x.job], ev |-> Head(x.queue)]) /\ y.queue = Tail(x.queue)
      BY <1>8 DEF out, z
    <2>2. counter'[x.job] \in Nat
      BY <1>3, <1>4
    <2> HIDE DEF x, y
    <2>3. RunOf(y) = RunOf(x)
      BY <1>2, <1>8, <2>1, <2>2, QueueToOut
    <2> QED BY <1>3, <1>8, <2>3
  <1> HIDE DEF x, y
  <1>10. stream' \in [Streams -> StreamRec] /\ stream'[s] = y /\ \A t \in Streams : t # s => stream'[t] = stream[t]
    <2>1. stream \in [Streams -> StreamRec] /\ y \in StreamRec
      BY <1>1, <1>8 DEF StreamTables
    <2> QED BY <1>6, <2>1, OneReplaced
  <1>11. JobTypes' /\ JobsFit'
    BY <1>1 DEF JobTypes, JobsFit
  <1>12. StreamTables' /\ BufferFits'
    BY <1>4, <1>10 DEF StreamTables
  <1>13. \A k \in Jobs : counter[k] \in Nat /\ counter'[k] \in Nat /\ counter'[k] >= counter[k]
    BY <1>4
  <1>14. IdsRise(y.out, counter'[y.job]) /\ y.job \in Jobs /\ y.job \notin pending' /\ job[y.job] # "ABSENT"
    BY <1>3, <1>7, <1>8
  <1>15. pending' \subseteq pending /\ UNCHANGED <<job, log>>
    OBVIOUS
  <1>16. (y.ran = "yes" => y.from = None) /\ y.pc \notin {"off", "new"}
    BY <1>3, <1>8
  <1> QED BY <1>9, <1>10, <1>11, <1>12, <1>13, <1>14, <1>15, <1>16, OneStream

\* An event taken off a queue keeps the invariant.
LEMMA TakeKeeps ==
  ASSUME StreamInv, NEW s \in Streams, Take(s)
  PROVE  StreamInv'
  <1> DEFINE x == stream[s]
             e == Head(x.queue)
             q == IF Terminal(e) THEN <<>> ELSE Tail(x.queue)
             p == IF Terminal(e) THEN "closed" ELSE "live"
  <1>0. stream \in [Streams -> StreamRec] /\ x \in StreamRec
    BY StreamParts DEF StreamTables
  <1>1. x.queue \in Seq(Events) /\ x.queue # <<>> /\ x.pc = "live"
    BY <1>0 DEF Take, StreamRec
  <1>2. e \in Events \cup {None} /\ q \in Seq(Events) /\ p \in {"live", "closed"} /\ (p = "live" => q = Tail(x.queue))
    BY <1>1
  <1>3. /\ Number(x.job, e)
        /\ stream' = [stream EXCEPT ![s] = [stream[s] EXCEPT !.queue = q, !.out = Append(stream[s].out, [id |-> counter'[x.job], ev |-> e]), !.pc = p]]
        /\ UNCHANGED <<job, pending, returned, cancels, starts, run, log>>
    BY <1>0 DEF Take, StreamRec
  <1> HIDE DEF q, p
  <1> QED BY <1>1, <1>2, <1>3, SendKeeps

\* A stream that has been silent too long and is closed keeps the invariant.
LEMMA TimeOutKeeps ==
  ASSUME StreamInv, NEW s \in Streams, TimeOut(s)
  PROVE  StreamInv'
  <1> DEFINE x == stream[s]
  <1>1. x \in StreamRec /\ stream \in [Streams -> StreamRec]
    BY StreamParts DEF StreamTables
  <1>2. x.pc = "live" /\ x.queue = <<>> /\ x.queue \in Seq(Events)
    BY <1>1 DEF TimeOut, StreamRec
  <1>3. Number(x.job, None) /\ UNCHANGED <<job, pending, returned, cancels, starts, run, log>>
    BY DEF TimeOut
  <1>4. stream' = [stream EXCEPT ![s] = [stream[s] EXCEPT !.queue = x.queue, !.out = Append(stream[s].out, [id |-> counter'[x.job], ev |-> None]), !.pc = "closed"]]
    BY <1>1 DEF TimeOut, StreamRec
  <1> QED BY <1>2, <1>3, <1>4, SendKeeps

\* A client that goes keeps the invariant.
LEMMA DisconnectKeeps ==
  ASSUME StreamInv, NEW s \in Streams, Disconnect(s)
  PROVE  StreamInv'
  <1> DEFINE x == stream[s]
             y == [x EXCEPT !.pc = "lost", !.queue = <<>>]
  <1>1. JobTypes /\ JobsFit /\ StreamTables /\ BufferFits /\ StreamFits
    BY StreamParts
  <1>2. x \in StreamRec /\ x.pc \in {"new", "live"}
    BY <1>1 DEF StreamTables, Disconnect
  <1>3. /\ x.job \in Jobs /\ x.job \notin pending /\ job[x.job] # "ABSENT" /\ IdsRise(x.out, counter[x.job])
        /\ x.ran = "yes" => x.from = None
    BY <1>1, <1>2 DEF StreamFits
  <1>4. y \in StreamRec /\ y.pc = "lost" /\ y.job = x.job /\ y.from = x.from /\ y.ran = x.ran /\ y.out = x.out
    <2>1. <<>> \in Seq(Events)
      OBVIOUS
    <2> QED BY <1>2, <2>1 DEF StreamRec
  <1>5. stream' = [stream EXCEPT ![s] = y] /\ UNCHANGED <<job, pending, returned, cancels, starts, run, log, counter, buffer>>
    BY <1>1, <1>2 DEF Disconnect, StreamTables, StreamRec
  <1> HIDE DEF x, y
  <1>6. stream' \in [Streams -> StreamRec] /\ stream'[s] = y /\ \A t \in Streams : t # s => stream'[t] = stream[t]
    BY <1>1, <1>4, <1>5 DEF StreamTables
  <1>7. JobTypes' /\ JobsFit'
    BY <1>1, <1>5 DEF JobTypes, JobsFit
  <1>8. StreamTables' /\ BufferFits'
    BY <1>1, <1>5, <1>6 DEF StreamTables, BufferFits
  <1>9. \A k \in Jobs : counter[k] \in Nat /\ counter'[k] \in Nat /\ counter'[k] >= counter[k]
    BY <1>1, <1>5 DEF StreamTables
  <1>10. IdsRise(y.out, counter'[y.job]) /\ y.job \in Jobs /\ y.job \notin pending' /\ job[y.job] # "ABSENT"
    BY <1>3, <1>4, <1>5
  <1>11. pending' \subseteq pending /\ UNCHANGED <<job, log>>
    BY <1>5
  <1>12. (y.ran = "yes" => y.from = None) /\ y.pc = "lost"
    BY <1>3, <1>4
  <1> QED BY <1>6, <1>7, <1>8, <1>9, <1>10, <1>11, <1>12, OneStream

\* Nothing is running and nobody is connected.
LEMMA StreamInit == Init => StreamInv
  <1> SUFFICES ASSUME Init PROVE StreamInv
    OBVIOUS
  <1>1. Off \in StreamRec /\ Off.pc = "off" /\ Off.out = <<>> /\ Off.ran = "no"
    BY DEF Off, StreamRec
  <1>2. stream = [s \in Streams |-> Off]
    BY DEF Init
  <1> HIDE DEF Off
  <1>3. JobTypes /\ JobsFit
    BY DEF Init, JobTypes, JobsFit
  <1>4. StreamTables /\ BufferFits
    BY <1>1, <1>2, EventStreamAssumption DEF Init, StreamTables, BufferFits
  <1>5. StreamFits
    BY <1>1, <1>2 DEF StreamFits
  <1> QED BY <1>3, <1>4, <1>5, StreamParts

\* Every step keeps the invariant of the streams.
LEMMA StreamNext == StreamInv /\ [Next]_vars => StreamInv'
  <1> SUFFICES ASSUME StreamInv, [Next]_vars PROVE StreamInv'
    OBVIOUS
  <1>1. CASE \E j \in Jobs : RunYaml(j) \/ Start(j) \/ Step(j) \/ RunEnds(j) \/ RunRaises(j) \/ CancelJob(j)
    BY <1>1, RunYamlKeeps, RunKeeps, RunRaisesKeeps, CancelKeeps
  <1>2. CASE \E j, k \in Jobs : RunPackage(j, k)
    BY <1>2, RunPackageKeeps
  <1>3. CASE \E s \in Streams : Client(s) \/ Replay(s) \/ Take(s) \/ TimeOut(s) \/ Disconnect(s)
    BY <1>3, ClientKeeps, ReplayKeeps, TakeKeeps, TimeOutKeeps, DisconnectKeeps
  <1>4. CASE UNCHANGED vars
    <2>1. JobTypes /\ JobsFit /\ StreamFits
      BY StreamParts
    <2>2. UNCHANGED <<log, counter, buffer, stream>> /\ JobTypes' /\ JobsFit'
      BY <1>4, <2>1 DEF vars, JobTypes, JobsFit
    <2>3. \A s \in Streams : stream[s].pc # "off" => stream[s].job \notin pending' /\ job'[stream[s].job] # "ABSENT"
      BY <1>4, <2>1 DEF vars, StreamFits
    <2> QED BY <2>2, <2>3, UnshownKeeps
  <1> QED BY <1>1, <1>2, <1>3, <1>4 DEF Next

\* stream_job_events registers the queue before it starts the run: what the connection
\* that starts a run has sent and still has queued is what the run published, each once
\* and in order, whatever other runs, cancellations and connections do in between.
THEOREM StarterNeverMisses == Spec => []StarterMissesNothing
  <1>1. StreamInv => StarterMissesNothing
    BY DEF StreamInv
  <1> QED BY StreamInit, StreamNext, <1>1, PTL DEF Spec

\* On every connection ids only rise, through replay and live part, however many
\* connections share the job's counter; and EventBuffer keeps, without a gap, the
\* last of what it numbered, never more than max_per_job (event_buffer.py).
THEOREM IdsAlwaysRise == Spec => []MonotonicIds
  <1>1. StreamInv => MonotonicIds
    <2> SUFFICES ASSUME StreamInv PROVE MonotonicIds
      OBVIOUS
    <2>1. TypeOK /\ BufferFits /\ StreamFits /\ StreamTables
      BY StreamParts DEF StreamInv
    <2>2. ASSUME NEW s \in Streams, NEW i \in DOMAIN stream[s].out, NEW k \in DOMAIN stream[s].out, i < k
          PROVE  stream[s].out[i].id < stream[s].out[k].id
      <3>1. stream[s].out \in Seq(Numbered)
        BY <2>1 DEF StreamTables, StreamRec
      <3>2. DOMAIN stream[s].out = 1..Len(stream[s].out)
        BY <3>1
      <3>3. CASE stream[s].pc = "off"
        BY <2>1, <3>3 DEF StreamFits
      <3>4. CASE stream[s].pc # "off"
        <4>1. IdsRise(stream[s].out, counter[stream[s].job])
          BY <2>1, <3>4 DEF StreamFits
        <4> QED BY <2>2, <3>2, <4>1 DEF IdsRise
      <3> QED BY <3>3, <3>4
    <2>3. \A j \in Jobs : \A i \in DOMAIN buffer[j] : buffer[j][i].id = counter[j] - Len(buffer[j]) + i
      <3> SUFFICES ASSUME NEW j \in Jobs, NEW i \in DOMAIN buffer[j] PROVE buffer[j][i].id = counter[j] - Len(buffer[j]) + i
        OBVIOUS
      <3>1. DOMAIN buffer[j] = 1..Len(buffer[j])
        BY <2>1 DEF StreamTables
      <3> QED BY <2>1, <3>1 DEF BufferFits
    <2> QED BY <2>1, <2>2, <2>3 DEF MonotonicIds
  <1> QED BY StreamInit, StreamNext, <1>1, PTL DEF Spec
=============================================================================
