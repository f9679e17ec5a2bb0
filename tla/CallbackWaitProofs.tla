-------------------------- MODULE CallbackWaitProofs --------------------------
(***************************************************************************)
(* The wait of a run on a callback, proved for any calls, any timeout, any *)
(* number of rounds and pauses, on the loop of the run or on a thread: the *)
(* wait under way is the one that is registered, and what the futures,     *)
(* tasks and handles do is a delivery of calls as CallDelivery says.       *)
(***************************************************************************)
EXTENDS CallbackWait, SequenceFilterProofs

\* The handles of the tasks, apart from those another thread schedules.
Kinds == {"W", "P", "M", "doneW", "doneP"}
AnyFuture == [st : {"pending", "result", "refused", "cancelled"}, call : Calls \cup {NoCall}]
HandleUpTo(n) == [k : Kinds \cup {"set", "settle"}, f : 0..n, c : Calls \cup {NoCall}]

\* A handle of kind k is queued; there is one at most; every one of kind k comes before those
\* of kind l.
Has(q, k) == \E i \in 1..Len(q) : q[i].k = k
Once(q, k) == \A i, j \in 1..Len(q) : q[i].k = k /\ q[j].k = k => i = j
Before(q, k, l) == \A i, j \in 1..Len(q) : q[i].k = k /\ q[j].k = l => i < j

\* Where the three tasks can be together.
TasksFit ==
    /\ M \in {"idle", "armed", "held", "over", "closed"} => W = "off" /\ P = "off"
    /\ M = "racing" => W # "off" /\ P # "off"
    /\ M = "joining" => W \in {"blocked", "done"} /\ P = "off"

\* A handle is queued only for a task that it can move, once, and W starts before P.
HandlesFit ==
    /\ \A k \in Kinds : Once(ready, k)
    /\ Has(ready, "W") => W \in {"new", "blocked"}
    /\ W = "new" => Has(ready, "W") /\ P = "new" /\ Before(ready, "W", "P")
    /\ Has(ready, "P") => P \in {"new", "blocked"}
    /\ Has(ready, "doneW") => W = "done" /\ M \in {"racing", "joining"}
    /\ Has(ready, "doneP") => P = "done"
    /\ Has(ready, "M") => M \in {"racing", "joining", "held"}
    /\ M = "racing" /\ Has(ready, "M") => W # "new"
    /\ M = "joining" /\ Has(ready, "M") => W = "done" /\ ~Has(ready, "doneW")

\* The wait and the listener it is on.
ListenerFits ==
    /\ W = "blocked" <=> awaited
    /\ W = "blocked" => listener = wait.fut /\ wait.fut # 0
    /\ W = "new" => listener # 0
    /\ W = "done" => listener = 0 /\ wait.out # "none"
    /\ M = "held" => listener = 0

\* How a wait can end: woken by a future that is done, or with its time spent.
EndFits ==
    /\ W = "blocked" /\ Has(ready, "W") => futures[wait.fut].st # "pending"
    /\ W # "off" /\ wait.expired => left = 0
    /\ W = "done" /\ wait.out = "timeout" => left = 0
    /\ W = "done" /\ wait.out \in {"result", "refused"} =>
          wait.fut # 0 /\ futures[wait.fut].st = wait.out

\* Where the calls are: each was answered as its place says.
FuturePlaced(f) ==
    /\ f.st \in {"pending", "cancelled"} => f.call = NoCall
    /\ f.st = "result" => f.call \in accepted
    /\ f.st = "refused" => f.call \in turned
HandlePlaced(h) ==
    /\ h.k \in Kinds => h.c = NoCall
    /\ h.k \notin Kinds => threaded /\ h.f # 0
    /\ h.k = "set" => h.c \in accepted
    /\ h.k = "settle" => h.c \in turned
CallsPlaced ==
    /\ round >= 1
    /\ \A c \in Calls : arrived[c] = 0 <=> c \notin accepted \cup turned
    /\ \A i \in 1..Len(futures) : FuturePlaced(futures[i])
    /\ buffered # NoCall => buffered \in accepted
    /\ \A i \in 1..Len(ready) : HandlePlaced(ready[i])

\* No call is in two places.
OnceCalls(q) == \A i, j \in 1..Len(q) : q[i].c = q[j].c /\ q[i].c # NoCall => i = j
CallsApart ==
    /\ \A i, j \in 1..Len(futures) : futures[i].call = futures[j].call /\ futures[i].call # NoCall => i = j
    /\ \A i \in 1..Len(futures) : futures[i].call # NoCall => futures[i].call # buffered
    /\ \A i \in 1..Len(futures), j \in 1..Len(ready) : futures[i].call # NoCall => futures[i].call # ready[j].c
    /\ OnceCalls(ready)
    /\ \A i \in 1..Len(ready) : ready[i].c # NoCall => ready[i].c # buffered

\* The future a wait was ended by is behind it: no later wait is on it.
Current(i) == i = listener \/ (W \in {"blocked", "done"} /\ i = wait.fut)
EndsBehind ==
    \A n \in 1..Len(ends) : ends[n].call # NoCall =>
        \E i \in 1..Len(futures) : futures[i].call = ends[n].call /\ ~Current(i)

\* On the run's own loop a refusal in sight came in this round.
RefusalsOfRound ==
    ~threaded /\ M # "idle" =>
        \A i \in 1..Len(futures) : Current(i) /\ futures[i].st = "refused" => arrived[futures[i].call] = round

WaitInv ==
    /\ TypeOK /\ TasksFit /\ HandlesFit /\ ListenerFits /\ EndFits
    /\ CallsPlaced /\ CallsApart /\ EndsBehind /\ RefusalsOfRound

-----------------------------------------------------------------------------
(***************************************************************************)
(* The queue of handles.                                                   *)
(***************************************************************************)

\* r is q with handles of tasks added and others gone.
Quiet(r, q) ==
    /\ \A i \in 1..Len(r) : (r[i].k \in Kinds /\ r[i].c = NoCall) \/ \E j \in 1..Len(q) : r[i] = q[j]
    /\ OnceCalls(q) => OnceCalls(r)

\* What holds of the handles of a queue, whichever some of them are taken out.
LEMMA SubQueue ==
  ASSUME NEW H, NEW q \in Seq(H), NEW r \in Seq(H), NEW g \in [1..Len(r) -> 1..Len(q)],
         \A i \in 1..Len(r) : r[i] = q[g[i]],
         \A i, j \in 1..Len(r) : i < j => g[i] < g[j]
  PROVE  /\ \A k : Has(r, k) => Has(q, k)
         /\ \A k : Once(q, k) => Once(r, k)
         /\ \A k, l : Before(q, k, l) => Before(r, k, l)
         /\ Quiet(r, q)
  <1>1. ASSUME NEW k, Has(r, k) PROVE Has(q, k)
    BY <1>1 DEF Has
  <1>2. ASSUME NEW i \in 1..Len(r), NEW j \in 1..Len(r), g[i] = g[j] PROVE i = j
    <2>1. i \in Nat /\ j \in Nat /\ g[i] \in Nat /\ g[j] \in Nat
      OBVIOUS
    <2> QED BY <1>2, <2>1
  <1>3. ASSUME NEW k, Once(q, k) PROVE Once(r, k)
    BY <1>2, <1>3 DEF Once
  <1>4. ASSUME NEW k, NEW l, Before(q, k, l) PROVE Before(r, k, l)
    <2> SUFFICES ASSUME NEW i \in 1..Len(r), NEW j \in 1..Len(r), r[i].k = k, r[j].k = l PROVE i < j
      BY DEF Before
    <2>1. g[i] < g[j] /\ i \in Nat /\ j \in Nat /\ g[i] \in Nat /\ g[j] \in Nat
      BY <1>4 DEF Before
    <2> QED BY <2>1
  <1>5. OnceCalls(q) => OnceCalls(r)
    BY <1>2 DEF OnceCalls
  <1> QED BY <1>1, <1>3, <1>4, <1>5 DEF Quiet

\* The queue once its first handle was taken.
LEMMA TailQueue ==
  ASSUME NEW H, NEW q \in Seq(H), q # <<>>
  PROVE  /\ Tail(q) \in Seq(H) /\ Head(q) \in H /\ Head(q) = q[1] /\ 1 \in 1..Len(q)
         /\ \A k : Has(Tail(q), k) => Has(q, k)
         /\ \A k : Once(q, k) => Once(Tail(q), k)
         /\ \A k, l : Before(q, k, l) => Before(Tail(q), k, l)
         /\ Quiet(Tail(q), q)
         /\ Has(q, Head(q).k)
         /\ Once(q, Head(q).k) => ~Has(Tail(q), Head(q).k)
         /\ \A k : Has(q, k) /\ k # Head(q).k => Has(Tail(q), k)
         /\ \A j \in 1..Len(Tail(q)) : Tail(q)[j] = q[j + 1] /\ j + 1 \in 1..Len(q)
  <1> DEFINE r == Tail(q)
             g == [i \in 1..Len(r) |-> i + 1]
  <1>1. /\ r \in Seq(H) /\ Len(r) = Len(q) - 1 /\ Len(q) \in Nat \ {0} /\ Head(q) = q[1] /\ Head(q) \in H
        /\ \A i \in 1..Len(r) : r[i] = q[i + 1]
    OBVIOUS
  <1>2. /\ g \in [1..Len(r) -> 1..Len(q)] /\ \A i \in 1..Len(r) : r[i] = q[g[i]]
        /\ \A i, j \in 1..Len(r) : i < j => g[i] < g[j]
    BY <1>1
  <1> HIDE DEF g, r
  <1>3. /\ \A k : Has(r, k) => Has(q, k)
        /\ \A k : Once(q, k) => Once(r, k)
        /\ \A k, l : Before(q, k, l) => Before(r, k, l)
        /\ Quiet(r, q)
    BY <1>1, <1>2, SubQueue
  <1>4. Has(q, Head(q).k)
    BY <1>1 DEF Has
  <1>5. Once(q, Head(q).k) => ~Has(r, Head(q).k)
    BY <1>1 DEF Has, Once
  <1>6. ASSUME NEW k, Has(q, k), k # Head(q).k PROVE Has(r, k)
    <2>1. PICK i \in 1..Len(q) : q[i].k = k
      BY <1>6 DEF Has
    <2>2. i # 1 /\ i - 1 \in 1..Len(r)
      BY <1>1, <1>6, <2>1
    <2>3. r[i - 1] = q[i]
      BY <1>1, <2>1, <2>2
    <2> QED BY <2>1, <2>2, <2>3 DEF Has
  <1>7. \A j \in 1..Len(r) : r[j] = q[j + 1] /\ j + 1 \in 1..Len(q)
    BY <1>1
  <1> QED BY <1>1, <1>3, <1>4, <1>5, <1>6, <1>7 DEF r

\* The queue with a handle more.
LEMMA AppendQueue ==
  ASSUME NEW H, NEW q \in Seq(H), NEW h \in H
  PROVE  /\ Append(q, h) \in Seq(H) /\ q \o <<h>> = Append(q, h)
         /\ \A k : Has(Append(q, h), k) <=> Has(q, k) \/ h.k = k
         /\ \A k : Once(q, k) /\ (h.k = k => ~Has(q, k)) => Once(Append(q, h), k)
         /\ \A k, l : Before(q, k, l) /\ h.k # k => Before(Append(q, h), k, l)
         /\ h.k \in Kinds /\ h.c = NoCall => Quiet(Append(q, h), q)
         /\ \A i \in 1..Len(Append(q, h)) : Append(q, h)[i] = h \/ \E j \in 1..Len(q) : Append(q, h)[i] = q[j]
         /\ OnceCalls(q) /\ (\A j \in 1..Len(q) : q[j].c # h.c) => OnceCalls(Append(q, h))
  <1> DEFINE r == Append(q, h)
  <1>1. /\ r \in Seq(H) /\ Len(r) = Len(q) + 1 /\ Len(q) \in Nat /\ r[Len(q) + 1] = h
        /\ \A i \in 1..Len(q) : r[i] = q[i]
        /\ q \o <<h>> = r
    OBVIOUS
  <1> HIDE DEF r
  <1>2. \A i \in 1..Len(r) : i = Len(q) + 1 \/ i \in 1..Len(q)
    BY <1>1
  <1>3. ASSUME NEW k PROVE Has(r, k) <=> Has(q, k) \/ h.k = k
    <2>1. Has(r, k) => Has(q, k) \/ h.k = k
      BY <1>1, <1>2 DEF Has
    <2>2. Has(q, k) => Has(r, k)
      BY <1>1 DEF Has
    <2>3. h.k = k => Has(r, k)
      BY <1>1 DEF Has
    <2> QED BY <2>1, <2>2, <2>3
  <1>4. ASSUME NEW k, Once(q, k), h.k = k => ~Has(q, k) PROVE Once(r, k)
    BY <1>1, <1>2, <1>4 DEF Once, Has
  <1>5. ASSUME NEW k, NEW l, Before(q, k, l), h.k # k PROVE Before(r, k, l)
    <2> SUFFICES ASSUME NEW i \in 1..Len(r), NEW j \in 1..Len(r), r[i].k = k, r[j].k = l PROVE i < j
      BY DEF Before
    <2>1. i \in 1..Len(q)
      BY <1>1, <1>2, <1>5
    <2> QED BY SMTT(60), <1>1, <1>2, <1>5, <2>1 DEF Before
  <1>6. ASSUME h.c = NoCall, OnceCalls(q) PROVE OnceCalls(r)
    BY <1>1, <1>2, <1>6 DEF OnceCalls
  <1>7. h.k \in Kinds /\ h.c = NoCall => Quiet(r, q)
    BY <1>1, <1>2, <1>6 DEF Quiet
  <1>8. ASSUME OnceCalls(q), \A j \in 1..Len(q) : q[j].c # h.c PROVE OnceCalls(r)
    BY <1>1, <1>2, <1>8 DEF OnceCalls
  <1>9. \A i \in 1..Len(r) : r[i] = h \/ \E j \in 1..Len(q) : r[i] = q[j]
    BY <1>1, <1>2
  <1> QED BY <1>1, <1>3, <1>4, <1>5, <1>7, <1>8, <1>9 DEF r

\* Two handles more, one after the other.
LEMMA TwoMore ==
  ASSUME NEW H, NEW q \in Seq(H), NEW x \in H, NEW y \in H
  PROVE  q \o <<x, y>> = (q \o <<x>>) \o <<y>>
  <1> DEFINE l == q \o <<x, y>>
             a == q \o <<x>>
             r == a \o <<y>>
             n == Len(q)
  <1>1. n \in Nat /\ <<x, y>> \in Seq(H) /\ <<x>> \in Seq(H) /\ <<y>> \in Seq(H)
    OBVIOUS
  <1>2. /\ l \in Seq(H) /\ Len(l) = n + 2 /\ \A i \in 1..n : l[i] = q[i]
        /\ l[n + 1] = x /\ l[n + 2] = y
    BY <1>1
  <1>3. a \in Seq(H) /\ Len(a) = n + 1 /\ a[n + 1] = x /\ \A i \in 1..n : a[i] = q[i]
    BY <1>1
  <1> HIDE DEF l, a
  <1>4. r \in Seq(H) /\ Len(r) = n + 2 /\ r[n + 2] = y /\ \A i \in 1..(n + 1) : r[i] = a[i]
    BY <1>1, <1>3
  <1> HIDE DEF r, n
  <1>5. \A i \in 1..Len(l) : i \in 1..n \/ i = n + 1 \/ i = n + 2
    BY <1>1, <1>2
  <1>6. \A i \in 1..Len(l) : l[i] = r[i]
    BY <1>1, <1>2, <1>3, <1>4, <1>5
  <1>7. l = r
    BY <1>2, <1>4, <1>6
  <1> QED BY <1>7 DEF l, r, a

\* Quiet composes.
LEMMA QuietTwice ==
  ASSUME NEW H, NEW p \in Seq(H), NEW q \in Seq(H), NEW r \in Seq(H), Quiet(r, q), Quiet(q, p)
  PROVE  Quiet(r, p)
  BY SMTT(60) DEF Quiet
\* The queue once its first handle was taken and those of the stale kinds left it.
LEMMA RestQueue ==
  ASSUME NEW H, ready \in Seq(H), ready # <<>>, NEW stale
  PROVE  /\ Rest(stale) \in Seq(H)
         /\ \A k : Has(Rest(stale), k) => k \notin stale /\ Has(Tail(ready), k)
         /\ \A k : Once(ready, k) => Once(Rest(stale), k)
         /\ Quiet(Rest(stale), ready)
  <1> DEFINE q == Tail(ready)
             S == {h \in ToSet(ready) : h.k \notin stale}
             r == Filter(q, S)
  <1>1. /\ q \in Seq(H) /\ Quiet(q, ready)
        /\ \A k : Once(ready, k) => Once(q, k)
    BY TailQueue
  <1> HIDE DEF q, S
  <1>2. r \in Seq(H) /\ \E g : KeptFrom(r, q, S, Len(q), g)
    BY <1>1, FilterFacts
  <1>3. PICK g : KeptFrom(r, q, S, Len(q), g)
    BY <1>2
  <1> HIDE DEF r
  <1>4. /\ \A k : Has(r, k) => Has(q, k)
        /\ \A k : Once(q, k) => Once(r, k)
        /\ Quiet(r, q)
    BY <1>1, <1>2, <1>3, SubQueue DEF KeptFrom
  <1>5. ASSUME NEW k, Has(r, k) PROVE k \notin stale
    <2>1. \A i \in 1..Len(r) : r[i] \in S
      BY <1>3 DEF KeptFrom
    <2> QED BY <1>5, <2>1 DEF Has, S
  <1>6. Quiet(r, ready)
    BY <1>1, <1>2, <1>4, QuietTwice
  <1> QED BY <1>1, <1>2, <1>4, <1>5, <1>6 DEF r, q, S, Rest

-----------------------------------------------------------------------------
(***************************************************************************)
(* The calls.                                                              *)
(***************************************************************************)

\* The types that the steps below need of TypeOK.
Tables ==
    /\ futures \in Seq(AnyFuture) /\ Len(futures) \in Nat
    /\ listener \in 0..Len(futures) /\ buffered \in Calls \cup {NoCall}
    /\ ready \in Seq(HandleUpTo(Len(futures)))
    /\ wait.fut \in 0..Len(futures)

\* The part of the type invariant that speaks of the tables of the loop and the manager.
LEMMA TypedTables == TypeOK => Tables
  BY DEF TypeOK, Tables, AnyFuture, HandleUpTo, Kinds

\* A future gets another state, or a state and a call.
LEMMA FutureSet ==
  ASSUME NEW q \in Seq(AnyFuture), NEW n \in 1..Len(q), NEW v \in AnyFuture
  PROVE  LET r == [q EXCEPT ![n] = v]
         IN  /\ r \in Seq(AnyFuture) /\ Len(r) = Len(q) /\ r[n] = v
             /\ \A i \in 1..Len(q) : i # n => r[i] = q[i]
  OBVIOUS

\* A future that is cancelled changes alone, keeps its call, and the others stay as they are.
LEMMA FutureCancelled ==
  ASSUME NEW q \in Seq(AnyFuture), NEW n \in 1..Len(q), q[n].st = "pending"
  PROVE  LET r == [q EXCEPT ![n].st = "cancelled"]
         IN  /\ r \in Seq(AnyFuture) /\ Len(r) = Len(q) /\ r[n].st = "cancelled"
             /\ \A i \in 1..Len(q) : r[i] = q[i] \/ (q[i].st = "pending" /\ r[i].st = "cancelled"
                                                           /\ r[i].call = q[i].call)
             /\ \A i \in 1..Len(q) : i # n => r[i] = q[i]
  <1> DEFINE v == [q[n] EXCEPT !.st = "cancelled"]
             r == [q EXCEPT ![n] = v]
  <1>1. v \in AnyFuture /\ v.st = "cancelled" /\ v.call = q[n].call
    <2>1. q[n] \in AnyFuture
      OBVIOUS
    <2> QED BY <2>1 DEF AnyFuture
  <1>2. r = [q EXCEPT ![n].st = "cancelled"]
    OBVIOUS
  <1> HIDE DEF v
  <1>3. /\ r \in Seq(AnyFuture) /\ Len(r) = Len(q) /\ r[n] = v
        /\ \A i \in 1..Len(q) : i # n => r[i] = q[i]
    BY <1>1, FutureSet
  <1> HIDE DEF r
  <1> QED BY <1>1, <1>2, <1>3

\* A future that is cancelled, and handles of tasks that come and go, move no call.
LEMMA CallsKeep ==
  ASSUME CallsPlaced, CallsApart, Len(futures') = Len(futures),
         \A i \in 1..Len(futures) :
            futures'[i] = futures[i] \/ (futures[i].st = "pending" /\ futures'[i].st = "cancelled"
                                           /\ futures'[i].call = futures[i].call),
         Quiet(ready', ready), UNCHANGED <<buffered, threaded, callVars>>, round' >= 1
  PROVE  CallsPlaced' /\ CallsApart'
  <1>1. \A i \in 1..Len(futures) : futures'[i].call = futures[i].call /\ FuturePlaced(futures'[i])
    BY DEF CallsPlaced, FuturePlaced
  <1>2. \A i \in 1..Len(ready') : HandlePlaced(ready'[i])
    BY DEF CallsPlaced, HandlePlaced, Quiet, Kinds
  <1>3. CallsPlaced'
    BY <1>1, <1>2 DEF CallsPlaced, FuturePlaced, HandlePlaced, callVars
  <1>4. \A i \in 1..Len(ready') : ready'[i].c # NoCall => \E j \in 1..Len(ready) : ready'[i] = ready[j]
    BY DEF Quiet
  <1>5. OnceCalls(ready)'
    BY DEF CallsApart, Quiet, OnceCalls
  <1>6. ASSUME NEW i \in 1..Len(futures), NEW j \in 1..Len(ready'), futures'[i].call # NoCall
        PROVE  futures'[i].call # ready'[j].c
    BY <1>1, <1>4, <1>6 DEF CallsApart
  <1>7. ASSUME NEW j \in 1..Len(ready'), ready'[j].c # NoCall
        PROVE  ready'[j].c # buffered'
    BY <1>4, <1>7 DEF CallsApart
  <1>8. /\ \A i, j \in 1..Len(futures) : futures'[i].call = futures'[j].call /\ futures'[i].call # NoCall => i = j
        /\ \A i \in 1..Len(futures) : futures'[i].call # NoCall => futures'[i].call # buffered'
    BY <1>1 DEF CallsApart
  <1>9. CallsApart'
    BY <1>5, <1>6, <1>7, <1>8 DEF CallsApart
  <1> QED BY <1>3, <1>9

\* The futures behind the waits stay behind them when no other becomes current.
LEMMA BehindKeeps ==
  ASSUME EndsBehind, UNCHANGED ends, Tables, Len(futures') >= Len(futures), Len(futures') \in Nat,
         \A i \in 1..Len(futures) : futures[i].call # NoCall => futures'[i].call = futures[i].call,
         \A i \in 1..Len(futures) : Current(i)' => Current(i)
  PROVE  EndsBehind'
  <1> SUFFICES ASSUME NEW n \in 1..Len(ends), ends[n].call # NoCall
               PROVE  \E i \in 1..Len(futures') : futures'[i].call = ends[n].call /\ ~Current(i)'
    BY DEF EndsBehind
  <1>1. PICK i \in 1..Len(futures) : futures[i].call = ends[n].call /\ ~Current(i)
    BY DEF EndsBehind
  <1>2. i \in 1..Len(futures')
    BY <1>1 DEF Tables
  <1> QED BY <1>1, <1>2

\* A refusal in sight stays one of this round.
LEMMA RefusalsKeep ==
  ASSUME RefusalsOfRound, UNCHANGED <<threaded, round, arrived>>, M' # "idle" => M # "idle",
         \A i \in 1..Len(futures') : Current(i)' /\ futures'[i].st = "refused" =>
            i \in 1..Len(futures) /\ Current(i) /\ futures'[i] = futures[i]
  PROVE  RefusalsOfRound'
  BY DEF RefusalsOfRound

\* register: a listener is there afterwards, and the call that was buffered is in it.
LEMMA RegisterDoes ==
  ASSUME Tables, Register
  PROVE  /\ futures' \in Seq(AnyFuture) /\ Len(futures') \in {Len(futures), Len(futures) + 1}
         /\ \A i \in 1..Len(futures) : futures'[i] = futures[i]
         /\ listener' \in 1..Len(futures')
         /\ futures'[listener'].st # "refused"
         /\ \/ futures' = futures /\ listener' = listener /\ buffered' = buffered
            \/ /\ listener' = Len(futures) + 1 /\ Len(futures') = Len(futures) + 1 /\ buffered' = NoCall
               /\ futures'[Len(futures) + 1] = IF buffered = NoCall THEN [st |-> "pending", call |-> NoCall]
                                               ELSE [st |-> "result", call |-> buffered]
  <1>1. CASE listener # 0 /\ ~Stale(listener)
    BY <1>1 DEF Register, Tables, Stale
  <1>2. CASE ~(listener # 0 /\ ~Stale(listener))
    <2> DEFINE f == IF buffered = NoCall THEN [st |-> "pending", call |-> NoCall]
                    ELSE [st |-> "result", call |-> buffered]
    <2>1. f \in AnyFuture /\ f.st # "refused"
      BY DEF Tables, AnyFuture
    <2>2. futures' = Append(futures, f) /\ listener' = Len(futures) + 1 /\ buffered' = NoCall
      BY <1>2 DEF Register
    <2> HIDE DEF f
    <2>3. /\ futures' \in Seq(AnyFuture) /\ Len(futures') = Len(futures) + 1
          /\ futures'[Len(futures) + 1] = f
          /\ \A i \in 1..Len(futures) : futures'[i] = futures[i]
      BY <2>1, <2>2 DEF Tables
    <2>4. listener' \in 1..Len(futures')
      BY <2>2, <2>3 DEF Tables
    <2> QED BY <2>1, <2>2, <2>3, <2>4 DEF f
  <1> QED BY <1>1, <1>2

\* Registering a listener moves no call, but for a buffered one that goes into the new future.
LEMMA RegisterCalls ==
  ASSUME Tables, CallsPlaced, CallsApart, Register, Quiet(ready', ready),
         UNCHANGED <<threaded, callVars>>, round' >= 1
  PROVE  CallsPlaced' /\ CallsApart'
  <1>1. CASE futures' = futures /\ listener' = listener /\ buffered' = buffered
    BY <1>1, CallsKeep
  <1>2. CASE /\ listener' = Len(futures) + 1 /\ Len(futures') = Len(futures) + 1 /\ buffered' = NoCall
             /\ futures'[Len(futures) + 1] = IF buffered = NoCall THEN [st |-> "pending", call |-> NoCall]
                                             ELSE [st |-> "result", call |-> buffered]
    <2>1. /\ \A i \in 1..Len(futures) : futures'[i] = futures[i]
          /\ \A i \in 1..Len(futures') : i \in 1..Len(futures) \/ i = Len(futures) + 1
          /\ futures'[Len(futures) + 1].call = buffered
      BY <1>2, RegisterDoes DEF Tables
    <2>2. FuturePlaced(futures'[Len(futures) + 1])
      BY <1>2 DEF CallsPlaced, FuturePlaced
    <2>3. \A i \in 1..Len(ready') : HandlePlaced(ready'[i])
      BY DEF CallsPlaced, HandlePlaced, Quiet, Kinds
    <2>4. CallsPlaced'
      BY <1>2, <2>1, <2>2, <2>3 DEF CallsPlaced, FuturePlaced, HandlePlaced, callVars
    <2>5. \A i \in 1..Len(ready') : ready'[i].c # NoCall => \E j \in 1..Len(ready) : ready'[i] = ready[j]
      BY DEF Quiet
    <2>6. OnceCalls(ready)'
      BY DEF CallsApart, Quiet, OnceCalls
    <2>7. ASSUME NEW i \in 1..Len(futures'), NEW j \in 1..Len(ready'), futures'[i].call # NoCall
          PROVE  futures'[i].call # ready'[j].c
      <3>1. CASE ready'[j].c = NoCall
        BY <2>7, <3>1
      <3>2. CASE ready'[j].c # NoCall
        <4>1. PICK l \in 1..Len(ready) : ready'[j] = ready[l]
          BY <2>5, <3>2
        <4>2. CASE i \in 1..Len(futures)
          BY <2>1, <2>7, <4>1, <4>2 DEF CallsApart
        <4>3. CASE i = Len(futures) + 1
          BY <2>1, <2>7, <3>2, <4>1, <4>3 DEF CallsApart
        <4> QED BY <2>1, <4>2, <4>3
      <3> QED BY <3>1, <3>2
    <2>8. ASSUME NEW i \in 1..Len(futures'), NEW j \in 1..Len(futures'),
                 futures'[i].call = futures'[j].call, futures'[i].call # NoCall
          PROVE  i = j
      BY <2>1, <2>8 DEF CallsApart
    <2>9. CallsApart'
      BY <1>2, <2>6, <2>7, <2>8 DEF CallsApart
    <2> QED BY <2>4, <2>9
  <1> QED BY <1>1, <1>2, RegisterDoes

-----------------------------------------------------------------------------
(***************************************************************************)
(* The parts of the invariant that a step leaves alone.                    *)
(***************************************************************************)

\* The types TypeOK has beside those of the tables.
Small ==
    /\ threaded \in BOOLEAN /\ awaited \in BOOLEAN /\ raised \in BOOLEAN
    /\ M \in {"idle", "armed", "racing", "joining", "held", "over", "closed"}
    /\ W \in {"off", "new", "blocked", "done"}
    /\ P \in {"off", "new", "blocked", "done"}
    /\ wait \in [fut : Nat, cancelled : BOOLEAN, expired : BOOLEAN,
                 out : {"none", "cancelled", "timeout", "result", "refused"}]
    /\ gate \in {"open", "closed"} /\ request \in {"set", "clear"} /\ paused \in BOOLEAN
    /\ left \in 0..Timeout /\ round \in 0..Rounds /\ pauses \in 0..MaxPauses
    /\ accepted \subseteq Calls /\ turned \subseteq Calls
    /\ arrived \in [Calls -> 0..Rounds]
    /\ ends \in Seq([round : 1..Rounds, out : {"timeout", "result", "refused"},
                     call : Calls \cup {NoCall}])

\* The type invariant is its tables and its small variables.
LEMMA TypeSplit == TypeOK <=> Tables /\ Small
  <1>1. TypeOK => Tables
    BY TypedTables
  <1>2. TypeOK => Small
    <2> SUFFICES ASSUME TypeOK PROVE Small
      OBVIOUS
    <2>1. Len(futures) \in Nat
      BY DEF TypeOK
    <2> QED BY <2>1 DEF TypeOK, Small
  <1>3. ASSUME Tables, Small PROVE TypeOK
    <2>1. wait \in [fut : 0..Len(futures), cancelled : BOOLEAN, expired : BOOLEAN,
                    out : {"none", "cancelled", "timeout", "result", "refused"}]
      BY <1>3 DEF Tables, Small
    <2>2. ready \in Seq([k : {"M", "W", "P", "doneW", "doneP", "set", "settle"},
                         f : 0..Len(futures), c : Calls \cup {NoCall}])
      BY <1>3 DEF Tables, HandleUpTo, Kinds
    <2> QED BY <1>3, <2>1, <2>2 DEF Tables, Small, TypeOK, AnyFuture
  <1> QED BY <1>1, <1>2, <1>3

\* The handle of a task.
LEMMA HandleOfTask ==
  ASSUME NEW k \in Kinds, NEW n \in Nat
  PROVE  Handle(k) \in HandleUpTo(n) /\ Handle(k).k = k /\ Handle(k).c = NoCall
  BY DEF Handle, HandleUpTo

\* Handles on futures there are stay such handles when there are more futures.
LEMMA MoreFutures ==
  ASSUME NEW m \in Nat, NEW n \in Nat, m <= n, NEW q \in Seq(HandleUpTo(m))
  PROVE  q \in Seq(HandleUpTo(n))
  <1>1. \A h \in HandleUpTo(m) : h \in HandleUpTo(n)
    BY DEF HandleUpTo
  <1> HIDE DEF HandleUpTo
  <1> QED BY <1>1

\* The queue of the loop once a handle runs.
LEMMA Taken ==
  ASSUME Tables, HandlesFit, ready # <<>>
  PROVE  /\ Tail(ready) \in Seq(HandleUpTo(Len(futures))) /\ Quiet(Tail(ready), ready)
         /\ Head(ready) \in HandleUpTo(Len(futures))
         /\ \A k \in Kinds : Once(Tail(ready), k)
         /\ \A k : Has(Tail(ready), k) => Has(ready, k)
         /\ \A k : Has(ready, k) /\ k # Head(ready).k => Has(Tail(ready), k)
         /\ Has(ready, Head(ready).k)
         /\ Head(ready).k \in Kinds => ~Has(Tail(ready), Head(ready).k)
         /\ Before(ready, "W", "P") => Before(Tail(ready), "W", "P")
  <1>1. ready \in Seq(HandleUpTo(Len(futures)))
    BY DEF Tables
  <1> QED BY <1>1, TailQueue DEF HandlesFit

\* The queue with a handle of a task more.
LEMMA Queued ==
  ASSUME Tables, NEW q \in Seq(HandleUpTo(Len(futures))), NEW k \in Kinds, ~Has(q, k),
         \A l \in Kinds : Once(q, l)
  PROVE  /\ Append(q, Handle(k)) \in Seq(HandleUpTo(Len(futures)))
         /\ q \o <<Handle(k)>> = Append(q, Handle(k))
         /\ \A l \in Kinds : Once(Append(q, Handle(k)), l)
         /\ \A l : Has(Append(q, Handle(k)), l) <=> Has(q, l) \/ l = k
         /\ Quiet(Append(q, Handle(k)), q)
         /\ k # "W" /\ Before(q, "W", "P") => Before(Append(q, Handle(k)), "W", "P")
  <1> DEFINE H == HandleUpTo(Len(futures))
             h == Handle(k)
  <1>1. h \in H /\ h.k = k /\ h.c = NoCall
    BY HandleOfTask DEF Tables
  <1> HIDE DEF H, h
  <1>2. q \in Seq(H)
    BY DEF H
  <1>3. /\ Append(q, h) \in Seq(H) /\ q \o <<h>> = Append(q, h)
        /\ \A l : Has(Append(q, h), l) <=> Has(q, l) \/ h.k = l
        /\ \A l : Once(q, l) /\ (h.k = l => ~Has(q, l)) => Once(Append(q, h), l)
        /\ \A l, m : Before(q, l, m) /\ h.k # l => Before(Append(q, h), l, m)
        /\ h.k \in Kinds /\ h.c = NoCall => Quiet(Append(q, h), q)
    BY <1>1, <1>2, AppendQueue
  <1> QED BY <1>1, <1>3 DEF H, h

\* What becomes of the calls when no future gets one and none comes in sight.
LEMMA CallsStay ==
  ASSUME WaitInv, Len(futures') = Len(futures),
         \A i \in 1..Len(futures) :
            futures'[i] = futures[i] \/ (futures[i].st = "pending" /\ futures'[i].st = "cancelled"
                                           /\ futures'[i].call = futures[i].call),
         Quiet(ready', ready), UNCHANGED <<buffered, threaded, callVars, round, ends>>,
         \A i \in 1..Len(futures) : Current(i)' => Current(i), M' # "idle" => M # "idle"
  PROVE  CallsPlaced' /\ CallsApart' /\ EndsBehind' /\ RefusalsOfRound'
  <1>1. Tables /\ Len(futures') \in Nat /\ Len(futures') >= Len(futures)
    BY TypedTables DEF WaitInv, Tables
  <1>2. CallsPlaced' /\ CallsApart'
    BY CallsKeep DEF WaitInv, CallsPlaced
  <1>3. \A i \in 1..Len(futures) : futures'[i].call = futures[i].call
    OBVIOUS
  <1>4. EndsBehind'
    BY <1>1, <1>3, BehindKeeps DEF WaitInv
  <1>5. ASSUME NEW i \in 1..Len(futures'), Current(i)', futures'[i].st = "refused"
        PROVE  i \in 1..Len(futures) /\ Current(i) /\ futures'[i] = futures[i]
    BY <1>5
  <1>6. RefusalsOfRound'
    BY <1>5, RefusalsKeep DEF WaitInv, callVars
  <1> QED BY <1>2, <1>4, <1>6

\* What becomes of them when a wait registers and nothing waits yet.
LEMMA CallsRegistered ==
  ASSUME WaitInv, Register, Quiet(ready', ready),
         UNCHANGED <<threaded, callVars, round, ends>>, W' \in {"off", "new"}
  PROVE  CallsPlaced' /\ CallsApart' /\ EndsBehind' /\ RefusalsOfRound'
  <1>1. Tables
    BY TypedTables DEF WaitInv
  <1>2. CallsPlaced' /\ CallsApart'
    BY <1>1, RegisterCalls DEF WaitInv, CallsPlaced
  <1>3. /\ Len(futures') \in Nat /\ Len(futures') >= Len(futures)
        /\ \A i \in 1..Len(futures) : futures'[i] = futures[i]
        /\ listener' = listener \/ listener' = Len(futures) + 1
        /\ futures'[listener'].st # "refused"
    BY <1>1, RegisterDoes DEF Tables
  <1>4. \A i : Current(i)' => i = listener'
    BY DEF Current
  <1>5. \A i \in 1..Len(futures) : Current(i)' => Current(i)
    BY <1>1, <1>3, <1>4 DEF Tables, Current
  <1>6. EndsBehind'
    BY <1>1, <1>3, <1>5, BehindKeeps DEF WaitInv
  <1>7. RefusalsOfRound'
    BY <1>3, <1>4 DEF RefusalsOfRound
  <1> QED BY <1>2, <1>6, <1>7

-----------------------------------------------------------------------------
(***************************************************************************)
(* The task of the wait.                                                   *)
(***************************************************************************)

\* What every handle leaves alone, and what the task of the wait does.
LoopFrame == UNCHANGED <<threaded, gate, paused, pauses, left, callVars>>
WaitFrame == LoopFrame /\ UNCHANGED <<M, P, request, round, ends, raised>>

\* The wait ends: its finally forgets the listener it was on.
LEMMA EndKeeps ==
  ASSUME WaitInv, ready # <<>>, Head(ready).k = "W", WaitFrame, NEW f \in 1..Len(futures),
         NEW out \in {"cancelled", "timeout", "result", "refused"}, EndWait(f, out),
         W \in {"new", "blocked"}, f = listener, out = "timeout" => left = 0,
         out \in {"result", "refused"} => futures[f].st = out
  PROVE  WaitInv'
  <1> USE DEF WaitFrame, LoopFrame
  <1>1. Tables /\ Small /\ HandlesFit /\ TasksFit /\ ListenerFits /\ EndFits
    BY TypeSplit DEF WaitInv
  <1>2. /\ Tail(ready) \in Seq(HandleUpTo(Len(futures))) /\ Quiet(Tail(ready), ready)
        /\ \A k \in Kinds : Once(Tail(ready), k)
        /\ \A k : Has(Tail(ready), k) => Has(ready, k)
        /\ ~Has(Tail(ready), "W")
    BY <1>1, Taken DEF Kinds
  <1>3. ~Has(ready, "doneW") /\ M \in {"racing", "joining"} /\ (M = "joining" => ~Has(ready, "M"))
    BY <1>1 DEF HandlesFit, TasksFit, Small
  <1>4. /\ ready' \in Seq(HandleUpTo(Len(futures)))
        /\ \A l \in Kinds : Once(ready', l)
        /\ \A l : Has(ready', l) <=> Has(Tail(ready), l) \/ l = "doneW"
        /\ Quiet(ready', Tail(ready))
    <2>1. ready' = Append(Tail(ready), Handle("doneW"))
      BY DEF EndWait
    <2>2. "doneW" \in Kinds /\ ~Has(Tail(ready), "doneW")
      BY <1>2, <1>3 DEF Kinds
    <2> QED BY <1>1, <1>2, <2>1, <2>2, Queued
  <1>5. /\ W' = "done" /\ awaited' = FALSE /\ listener' = 0 /\ UNCHANGED <<futures, buffered>>
        /\ wait' = [wait EXCEPT !.fut = f, !.out = out]
        /\ wait'.fut = f /\ wait'.out = out /\ wait'.expired = wait.expired
    BY <1>1 DEF EndWait, Small
  <1>6. Small'
    <2>1. f \in Nat
      BY <1>1 DEF Tables
    <2>2. wait' \in [fut : Nat, cancelled : BOOLEAN, expired : BOOLEAN,
                     out : {"none", "cancelled", "timeout", "result", "refused"}]
      BY <1>1, <1>5, <2>1 DEF Small
    <2> QED BY ZenonT(60), <1>1, <1>5, <2>2 DEF Small, callVars
  <1>7. Tables'
    BY <1>1, <1>4, <1>5 DEF Tables
  <1>8. TasksFit'
    BY <1>1, <1>3, <1>5 DEF TasksFit
  <1>9. HandlesFit'
    BY <1>1, <1>2, <1>3, <1>4, <1>5 DEF HandlesFit
  <1>10. ListenerFits'
    BY <1>1, <1>3, <1>5 DEF ListenerFits
  <1>11. EndFits'
    BY <1>1, <1>5 DEF EndFits
  <1>12. Quiet(ready', ready)
    BY <1>1, <1>2, <1>4, QuietTwice DEF Tables
  <1>13. \A i \in 1..Len(futures) : Current(i)' => Current(i)
    BY <1>5 DEF Current
  <1>14. CallsPlaced' /\ CallsApart' /\ EndsBehind' /\ RefusalsOfRound'
    BY <1>5, <1>12, <1>13, CallsStay
  <1>15. TypeOK'
    BY <1>6, <1>7, TypeSplit, PTL
  <1> QED BY <1>8, <1>9, <1>10, <1>11, <1>14, <1>15 DEF WaitInv

\* manager.wait from its start to its first await.
LEMMA StartKeeps ==
  ASSUME WaitInv, ready # <<>>, Head(ready).k = "W", WaitFrame, WStart
  PROVE  WaitInv'
  <1> USE DEF WaitFrame, LoopFrame
  <1>1. Tables /\ Small /\ HandlesFit /\ TasksFit /\ ListenerFits /\ EndFits
    BY TypeSplit DEF WaitInv
  <1>2. W = "new" /\ listener \in 1..Len(futures) /\ futures[listener] \in AnyFuture
    BY <1>1 DEF WStart, ListenerFits, Tables
  <1>3. CASE futures[listener].st # "pending"
    <2>1. EndWait(listener, futures[listener].st)
      BY <1>2, <1>3 DEF WStart
    <2>2. futures[listener].st \in {"cancelled", "result", "refused"}
      BY <1>2, <1>3 DEF AnyFuture
    <2> QED BY <1>2, <2>1, <2>2, EndKeeps
  <1>4. CASE futures[listener].st = "pending"
    <2>1. /\ Tail(ready) \in Seq(HandleUpTo(Len(futures))) /\ Quiet(Tail(ready), ready)
          /\ \A k \in Kinds : Once(Tail(ready), k)
          /\ \A k : Has(Tail(ready), k) => Has(ready, k)
          /\ ~Has(Tail(ready), "W")
      BY <1>1, Taken DEF Kinds
    <2>2. /\ W' = "blocked" /\ awaited' = TRUE /\ UNCHANGED <<listener, buffered>>
          /\ IF left = 0
             THEN /\ wait' = [wait EXCEPT !.fut = listener, !.expired = TRUE]
                  /\ futures' = [futures EXCEPT ![listener].st = "cancelled"]
                  /\ ready' = Append(Tail(ready), Handle("W"))
             ELSE wait' = [wait EXCEPT !.fut = listener] /\ futures' = futures /\ ready' = Tail(ready)
      BY <1>2, <1>4 DEF WStart
    <2>3. /\ Len(futures') = Len(futures) /\ futures' \in Seq(AnyFuture)
          /\ \A i \in 1..Len(futures) :
                futures'[i] = futures[i] \/ (futures[i].st = "pending" /\ futures'[i].st = "cancelled"
                                               /\ futures'[i].call = futures[i].call)
          /\ left = 0 => futures'[listener].st = "cancelled"
      <3>1. CASE left = 0
        <4>1. futures' = [futures EXCEPT ![listener].st = "cancelled"]
          BY <2>2, <3>1
        <4>2. futures \in Seq(AnyFuture)
          BY <1>1 DEF Tables
        <4> QED BY <1>2, <1>4, <4>1, <4>2, FutureCancelled
      <3>2. CASE left # 0
        BY <1>1, <2>2, <3>2 DEF Tables
      <3> QED BY <3>1, <3>2
    <2>4. /\ ready' \in Seq(HandleUpTo(Len(futures)))
          /\ \A l \in Kinds : Once(ready', l)
          /\ \A l : Has(ready', l) => Has(Tail(ready), l) \/ (l = "W" /\ left = 0)
          /\ Quiet(ready', ready)
      <3>1. CASE left = 0
        <4>1. ready' = Append(Tail(ready), Handle("W")) /\ "W" \in Kinds
          BY <2>2, <3>1 DEF Kinds
        <4>2. /\ ready' \in Seq(HandleUpTo(Len(futures)))
              /\ \A l \in Kinds : Once(ready', l)
              /\ \A l : Has(ready', l) <=> Has(Tail(ready), l) \/ l = "W"
              /\ Quiet(ready', Tail(ready))
          BY <1>1, <2>1, <4>1, Queued
        <4>3. Quiet(ready', ready)
          BY <1>1, <2>1, <4>2, QuietTwice DEF Tables
        <4> QED BY <3>1, <4>2, <4>3
      <3>2. CASE left # 0
        BY <2>1, <2>2, <3>2
      <3> QED BY <3>1, <3>2
    <2>5. /\ wait' \in [fut : Nat, cancelled : BOOLEAN, expired : BOOLEAN,
                        out : {"none", "cancelled", "timeout", "result", "refused"}]
          /\ wait'.fut = listener /\ (wait'.expired => left = 0)
      <3>1. listener \in Nat /\ wait \in [fut : Nat, cancelled : BOOLEAN, expired : BOOLEAN,
                                   out : {"none", "cancelled", "timeout", "result", "refused"}]
        BY <1>1 DEF Small, Tables
      <3>2. CASE left = 0
        BY <2>2, <3>1, <3>2
      <3>3. CASE left # 0
        BY <1>1, <1>2, <2>2, <3>1, <3>3 DEF EndFits
      <3> QED BY <3>2, <3>3
    <2>6. Small'
      BY <1>1, <2>2, <2>5 DEF Small, callVars
    <2>7. Tables'
      BY <1>1, <2>2, <2>5, <2>3, <2>4 DEF Tables
    <2>8. TasksFit'
      BY <1>1, <1>2, <2>2 DEF TasksFit
    <2>9. HandlesFit'
      BY <1>1, <1>2, <2>1, <2>2, <2>5, <2>4 DEF HandlesFit
    <2>10. ListenerFits'
      BY <1>1, <1>2, <2>2, <2>5 DEF ListenerFits, TasksFit
    <2>11. EndFits'
      BY <2>1, <2>2, <2>5, <2>3, <2>4 DEF EndFits
    <2>12. \A i \in 1..Len(futures) : Current(i)' => Current(i)
      BY <2>2, <2>5 DEF Current
    <2>13. CallsPlaced' /\ CallsApart' /\ EndsBehind' /\ RefusalsOfRound'
      BY <2>2, <2>3, <2>4, <2>12, CallsStay
    <2>14. TypeOK'
      BY <2>6, <2>7, TypeSplit, PTL
    <2> QED BY <2>8, <2>9, <2>10, <2>11, <2>13, <2>14 DEF WaitInv
  <1> QED BY <1>3, <1>4

\* manager.wait woken by its future or its timer.
LEMMA WakesKeeps ==
  ASSUME WaitInv, ready # <<>>, Head(ready).k = "W", WaitFrame, WWakes
  PROVE  WaitInv'
  <1> DEFINE out == IF wait.cancelled THEN "cancelled" ELSE IF wait.expired THEN "timeout"
                    ELSE futures[wait.fut].st
  <1>1. Tables /\ Small /\ HandlesFit /\ ListenerFits /\ EndFits
    BY TypeSplit DEF WaitInv
  <1>2. W = "blocked" /\ EndWait(wait.fut, out)
    BY DEF WWakes
  <1>3. Has(ready, "W")
    BY <1>1, Taken
  <1>4. wait.fut \in 1..Len(futures) /\ wait.fut = listener /\ futures[wait.fut] \in AnyFuture
    BY <1>1, <1>2 DEF ListenerFits, Tables
  <1>5. futures[wait.fut].st # "pending"
    BY <1>1, <1>2, <1>3 DEF EndFits
  <1>6. /\ out \in {"cancelled", "timeout", "result", "refused"}
        /\ out = "timeout" => left = 0
        /\ out \in {"result", "refused"} => futures[wait.fut].st = out
    BY <1>1, <1>2, <1>4, <1>5 DEF AnyFuture, EndFits
  <1> HIDE DEF out
  <1> QED BY <1>2, <1>4, <1>6, EndKeeps

-----------------------------------------------------------------------------
(***************************************************************************)
(* The watch for a pause, and the completions.                             *)
(***************************************************************************)

\* until_pause_requested.
LEMMA WatchKeeps ==
  ASSUME WaitInv, ready # <<>>, Head(ready).k = "P", PRuns(P = "blocked"), UNCHANGED raised, LoopFrame
  PROVE  WaitInv'
  <1> USE DEF LoopFrame
  <1>1. Tables /\ Small /\ HandlesFit /\ TasksFit /\ ListenerFits /\ EndFits
    BY TypeSplit DEF WaitInv
  <1>2. /\ Tail(ready) \in Seq(HandleUpTo(Len(futures))) /\ Quiet(Tail(ready), ready)
        /\ \A k \in Kinds : Once(Tail(ready), k)
        /\ \A k : Has(Tail(ready), k) => Has(ready, k)
        /\ ~Has(Tail(ready), "P")
    BY <1>1, Taken DEF Kinds
  <1>3. P \in {"new", "blocked"} /\ W # "new" /\ ~Has(Tail(ready), "doneP")
    <2>1. Head(ready) = ready[1] /\ 1 \in 1..Len(ready)
      BY <1>1, TailQueue DEF Tables
    <2>2. ~(Before(ready, "W", "P") /\ Has(ready, "W"))
      BY <1>1, <2>1 DEF Before, Has, Tables
    <2>3. Has(ready, "P")
      BY <2>1 DEF Has
    <2> QED BY <1>1, <1>2, <2>2, <2>3 DEF HandlesFit
  <1>4. /\ P' \in {"blocked", "done"} /\ request' \in {"set", "clear"}
        /\ \/ P' = "blocked" /\ ready' = Tail(ready)
           \/ P' = "done" /\ ready' = Append(Tail(ready), Handle("doneP"))
        /\ UNCHANGED <<futures, listener, buffered, awaited, M, W, wait, round, ends>>
    BY <1>1 DEF PRuns, mgrVars, Small
  <1>5. /\ ready' \in Seq(HandleUpTo(Len(futures)))
        /\ \A l \in Kinds : Once(ready', l)
        /\ \A l : Has(ready', l) => Has(Tail(ready), l) \/ (l = "doneP" /\ P' = "done")
        /\ \A l : Has(Tail(ready), l) => Has(ready', l)
        /\ Quiet(ready', ready)
    <2>1. CASE ready' = Tail(ready)
      BY <1>2, <2>1
    <2>2. CASE P' = "done" /\ ready' = Append(Tail(ready), Handle("doneP"))
      <3>1. "doneP" \in Kinds
        BY DEF Kinds
      <3>2. /\ ready' \in Seq(HandleUpTo(Len(futures)))
            /\ \A l \in Kinds : Once(ready', l)
            /\ \A l : Has(ready', l) <=> Has(Tail(ready), l) \/ l = "doneP"
            /\ Quiet(ready', Tail(ready))
        BY <1>1, <1>2, <1>3, <2>2, <3>1, Queued
      <3>3. Quiet(ready', ready)
        BY <1>1, <1>2, <3>2, QuietTwice DEF Tables
      <3> QED BY <2>2, <3>2, <3>3
    <2> QED BY <1>4, <2>1, <2>2
  <1>6. Small'
    BY <1>1, <1>4 DEF Small, callVars
  <1>7. Tables'
    BY <1>1, <1>4, <1>5 DEF Tables
  <1>8. TasksFit'
    BY <1>1, <1>3, <1>4 DEF TasksFit
  <1>9. HandlesFit'
    <2>1. P = "done" => P' = "done"
      BY <1>3
    <2>2. Has(ready', "P") => P' \in {"new", "blocked"}
      BY <1>2, <1>5
    <2>3. Has(ready', "doneP") => P' = "done"
      BY <1>2, <1>3, <1>5
    <2> QED BY <1>1, <1>2, <1>3, <1>4, <1>5, <2>2, <2>3 DEF HandlesFit
  <1>10. ListenerFits'
    BY <1>1, <1>4 DEF ListenerFits
  <1>11. EndFits'
    BY <1>1, <1>2, <1>4, <1>5 DEF EndFits
  <1>12. \A i \in 1..Len(futures) : Current(i)' => Current(i)
    BY <1>4 DEF Current
  <1>13. CallsPlaced' /\ CallsApart' /\ EndsBehind' /\ RefusalsOfRound'
    BY <1>4, <1>5, <1>12, CallsStay
  <1>14. TypeOK'
    BY <1>6, <1>7, TypeSplit, PTL
  <1> QED BY <1>8, <1>9, <1>10, <1>11, <1>13, <1>14 DEF WaitInv

\* A completion: the first one wakes the step.
LEMMA CompletionKeeps ==
  ASSUME WaitInv, ready # <<>>, NEW k \in {"doneW", "doneP"}, Head(ready).k = k, OnCompletion(k),
         UNCHANGED raised, LoopFrame
  PROVE  WaitInv'
  <1> USE DEF LoopFrame
  <1>1. Tables /\ Small /\ HandlesFit /\ TasksFit /\ ListenerFits /\ EndFits
    BY TypeSplit DEF WaitInv
  <1>2. /\ Tail(ready) \in Seq(HandleUpTo(Len(futures))) /\ Quiet(Tail(ready), ready)
        /\ \A l \in Kinds : Once(Tail(ready), l)
        /\ \A l : Has(Tail(ready), l) => Has(ready, l)
        /\ Has(ready, k) /\ ~Has(Tail(ready), k)
        /\ \A l : Has(ready, l) /\ l # k => Has(Tail(ready), l)
        /\ Before(ready, "W", "P") => Before(Tail(ready), "W", "P")
    BY <1>1, Taken DEF Kinds
  <1>3. W # "new" /\ (k = "doneW" => W = "done")
    BY <1>1, <1>2 DEF HandlesFit
  <1>4. UNCHANGED <<futures, listener, buffered, awaited, M, W, P, wait, request, round, ends>>
    BY DEF OnCompletion, mgrVars
  <1>5. /\ ready' \in Seq(HandleUpTo(Len(futures)))
        /\ \A l \in Kinds : Once(ready', l)
        /\ \A l : Has(ready', l) =>
              Has(Tail(ready), l) \/ (l = "M" /\ (M = "racing" \/ (M = "joining" /\ k = "doneW")))
        /\ Quiet(ready', ready)
    <2> DEFINE wakes == (M = "racing" /\ Wakeable("M")) \/ (M = "joining" /\ k = "doneW")
    <2>1. CASE ~wakes
      BY <1>2, <2>1 DEF OnCompletion
    <2>2. CASE wakes
      <3>1. /\ (M = "racing" /\ Wakeable("M")) \/ (M = "joining" /\ k = "doneW")
            /\ ready' = Append(Tail(ready), Handle("M"))
        BY <2>2 DEF OnCompletion
      <3>2. "M" \in Kinds /\ ~Has(Tail(ready), "M")
        <4>1. DOMAIN ready = 1..Len(ready)
          BY <1>1 DEF Tables
        <4>2. ~Has(ready, "M")
          BY <1>1, <1>2, <3>1, <4>1 DEF HandlesFit, Wakeable, Has
        <4> QED BY <1>2, <4>2 DEF Kinds
      <3>3. /\ ready' \in Seq(HandleUpTo(Len(futures)))
            /\ \A l \in Kinds : Once(ready', l)
            /\ \A l : Has(ready', l) <=> Has(Tail(ready), l) \/ l = "M"
            /\ Quiet(ready', Tail(ready))
        BY <1>1, <1>2, <3>1, <3>2, Queued
      <3>4. Quiet(ready', ready)
        BY <1>1, <1>2, <3>3, QuietTwice DEF Tables
      <3> QED BY <3>1, <3>3, <3>4
    <2> QED BY <2>1, <2>2
  <1>6. Small'
    BY <1>1, <1>4 DEF Small, callVars
  <1>7. Tables'
    BY <1>1, <1>4, <1>5 DEF Tables
  <1>8. TasksFit'
    BY <1>1, <1>4 DEF TasksFit
  <1>9. HandlesFit'
    <2>1. M = "joining" /\ Has(ready', "M") => W = "done" /\ ~Has(ready', "doneW")
      BY <1>1, <1>2, <1>3, <1>5 DEF HandlesFit
    <2>2. Has(ready', "M") => M \in {"racing", "joining", "held"}
      BY <1>1, <1>2, <1>5 DEF HandlesFit
    <2> QED BY <1>1, <1>2, <1>3, <1>4, <1>5, <2>1, <2>2 DEF HandlesFit
  <1>10. ListenerFits'
    BY <1>1, <1>4 DEF ListenerFits
  <1>11. EndFits'
    BY <1>1, <1>2, <1>4, <1>5 DEF EndFits
  <1>12. \A i \in 1..Len(futures) : Current(i)' => Current(i)
    BY <1>4 DEF Current
  <1>13. CallsPlaced' /\ CallsApart' /\ EndsBehind' /\ RefusalsOfRound'
    BY <1>4, <1>5, <1>12, CallsStay
  <1>14. TypeOK'
    BY <1>6, <1>7, TypeSplit, PTL
  <1> QED BY <1>8, <1>9, <1>10, <1>11, <1>13, <1>14 DEF WaitInv

-----------------------------------------------------------------------------
(***************************************************************************)
(* The step.                                                               *)
(***************************************************************************)

\* A wait starts, or starts again: a listener, the task on it and the watch.
LEMMA RaceKeeps ==
  ASSUME WaitInv, Register, NEW q \in Seq(HandleUpTo(Len(futures))), Quiet(q, ready),
         \A k \in Kinds : ~Has(q, k), Race(q), W \in {"off", "done"}, request' \in {"set", "clear"},
         UNCHANGED <<awaited, threaded, gate, paused, pauses, left, callVars, round, ends, raised>>
  PROVE  WaitInv'
  <1> DEFINE a == Append(q, Handle("W"))
             b == Append(a, Handle("P"))
  <1>1. Tables /\ Small /\ HandlesFit /\ ListenerFits /\ EndFits
    BY TypeSplit DEF WaitInv
  <1>2. "W" \in Kinds /\ "P" \in Kinds /\ \A l \in Kinds : Once(q, l)
    BY DEF Kinds, Has, Once
  <1>3. /\ a \in Seq(HandleUpTo(Len(futures))) /\ q \o <<Handle("W")>> = a
        /\ \A l \in Kinds : Once(a, l)
        /\ \A l : Has(a, l) <=> Has(q, l) \/ l = "W"
        /\ Quiet(a, q)
    BY <1>1, <1>2, Queued
  <1> HIDE DEF a
  <1>4. ~Has(a, "P") /\ Before(a, "W", "P")
    <2>1. ~Has(a, "P")
      BY <1>2, <1>3
    <2> QED BY <2>1 DEF Has, Before
  <1>5. /\ b \in Seq(HandleUpTo(Len(futures))) /\ a \o <<Handle("P")>> = b
        /\ \A l \in Kinds : Once(b, l)
        /\ \A l : Has(b, l) <=> Has(a, l) \/ l = "P"
        /\ Quiet(b, a)
        /\ Before(b, "W", "P")
    BY <1>1, <1>2, <1>3, <1>4, Queued
  <1> HIDE DEF b
  <1>6. ready' = b
    <2>1. q \o <<Handle("W"), Handle("P")>> = (q \o <<Handle("W")>>) \o <<Handle("P")>>
      <3> DEFINE H == HandleUpTo(Len(futures))
                 x == Handle("W")
                 y == Handle("P")
      <3>1. x \in H /\ y \in H /\ q \in Seq(H)
        BY <1>1, <1>2, HandleOfTask DEF Tables
      <3> HIDE DEF H, x, y
      <3>2. q \o <<x, y>> = (q \o <<x>>) \o <<y>>
        BY <3>1, TwoMore
      <3> QED BY <3>2 DEF x, y
    <2> QED BY <1>3, <1>5, <2>1 DEF Race
  <1>7. M' = "racing" /\ W' = "new" /\ P' = "new" /\ wait' = FreshWait
    BY DEF Race
  <1>8. Quiet(ready', ready)
    <2>1. Quiet(b, q)
      BY <1>3, <1>5, QuietTwice
    <2> QED BY <1>1, <1>5, <1>6, <2>1, QuietTwice DEF Tables
  <1>9. CallsPlaced' /\ CallsApart' /\ EndsBehind' /\ RefusalsOfRound'
    BY <1>7, <1>8, CallsRegistered
  <1>10. /\ futures' \in Seq(AnyFuture) /\ Len(futures') \in Nat /\ Len(futures) <= Len(futures')
         /\ listener' \in 0..Len(futures') /\ listener' # 0 /\ buffered' \in Calls \cup {NoCall}
    <2>1. Len(futures) \in Nat
      BY <1>1 DEF Tables
    <2>2. futures' \in Seq(AnyFuture) /\ Len(futures') \in {Len(futures), Len(futures) + 1} /\ listener' \in 1..Len(futures')
      BY <1>1, RegisterDoes
    <2>3. buffered' \in {buffered, NoCall}
      BY <1>1, RegisterDoes
    <2> QED BY <1>1, <2>1, <2>2, <2>3 DEF Tables
  <1>11. Tables'
    <2>1. ready' \in Seq(HandleUpTo(Len(futures')))
      BY <1>1, <1>5, <1>6, <1>10, MoreFutures DEF Tables
    <2> QED BY <1>7, <1>10, <2>1 DEF Tables, FreshWait
  <1>12. Small'
    BY <1>1, <1>7 DEF Small, FreshWait, callVars
  <1>13. TasksFit'
    BY <1>7 DEF TasksFit
  <1>14. HandlesFit'
    <2>1. \A l \in Kinds : Has(ready', l) => l \in {"W", "P"}
      BY <1>3, <1>5, <1>6
    <2>2. ~Has(ready', "M") /\ ~Has(ready', "doneW") /\ ~Has(ready', "doneP") /\ Has(ready', "W")
      BY <1>3, <1>5, <1>6, <2>1 DEF Kinds
    <2> QED BY <1>5, <1>6, <1>7, <2>2 DEF HandlesFit
  <1>15. ListenerFits'
    BY <1>1, <1>7, <1>10 DEF ListenerFits
  <1>16. EndFits'
    BY <1>7 DEF EndFits, FreshWait
  <1>17. TypeOK'
    BY <1>11, <1>12, TypeSplit, PTL
  <1> QED BY <1>9, <1>13, <1>14, <1>15, <1>16, <1>17 DEF WaitInv

\* W.cancel(): the future of the wait is done after it.
LEMMA CancelDoes ==
  ASSUME Tables, W = "blocked", wait.fut \in 1..Len(futures), NEW q \in Seq(HandleUpTo(Len(futures))),
         Quiet(q, ready), \A l \in Kinds : Once(q, l), Has(q, "W") => futures[wait.fut].st # "pending",
         CancelTask(q)
  PROVE  /\ futures' \in Seq(AnyFuture) /\ Len(futures') = Len(futures)
         /\ \A i \in 1..Len(futures) :
               futures'[i] = futures[i] \/ (futures[i].st = "pending" /\ futures'[i].st = "cancelled"
                                              /\ futures'[i].call = futures[i].call)
         /\ futures'[wait.fut].st # "pending"
         /\ ready' \in Seq(HandleUpTo(Len(futures))) /\ \A l \in Kinds : Once(ready', l)
         /\ \A l : Has(ready', l) => Has(q, l) \/ l = "W"
         /\ Quiet(ready', ready)
  <1>1. CASE futures[wait.fut].st = "pending"
    <2>1. futures' = [futures EXCEPT ![wait.fut].st = "cancelled"]
      BY <1>1 DEF CancelTask
    <2>2. futures \in Seq(AnyFuture)
      BY DEF Tables
    <2>3. /\ futures' \in Seq(AnyFuture) /\ Len(futures') = Len(futures)
          /\ \A i \in 1..Len(futures) :
                futures'[i] = futures[i] \/ (futures[i].st = "pending" /\ futures'[i].st = "cancelled"
                                               /\ futures'[i].call = futures[i].call)
          /\ futures'[wait.fut].st = "cancelled"
      BY <1>1, <2>1, <2>2, FutureCancelled
    <2>4. ready' = q \o <<Handle("W")>> /\ "W" \in Kinds
      BY <1>1 DEF CancelTask, Wakes, Kinds
    <2>5. /\ ready' \in Seq(HandleUpTo(Len(futures))) /\ \A l \in Kinds : Once(ready', l)
          /\ \A l : Has(ready', l) <=> Has(q, l) \/ l = "W"
          /\ Quiet(ready', q)
      <3>1. ~Has(q, "W")
        BY <1>1
      <3> DEFINE h == Handle("W")
                 r == Append(q, h)
      <3>2. /\ r \in Seq(HandleUpTo(Len(futures))) /\ q \o <<h>> = r
            /\ \A l \in Kinds : Once(r, l)
            /\ \A l : Has(r, l) <=> Has(q, l) \/ l = "W"
            /\ Quiet(r, q)
        BY <2>4, <3>1, Queued
      <3>3. ready' = q \o <<h>>
        BY <2>4
      <3> HIDE DEF r, h
      <3> QED BY <3>2, <3>3
    <2>6. Quiet(ready', ready)
      BY <2>5, QuietTwice DEF Tables
    <2> QED BY <2>3, <2>5, <2>6
  <1>2. CASE futures[wait.fut].st # "pending"
    BY <1>2 DEF CancelTask, Tables
  <1> QED BY <1>1, <1>2

\* A pause wins the race: the watch is cancelled, and the wait with it.
LEMMA GiveUpKeeps ==
  ASSUME WaitInv, ready # <<>>, Head(ready).k = "M", M = "racing", W # "done", M' = "joining", P' = "off",
         wait' = [wait EXCEPT !.cancelled = TRUE], CancelTask(Rest({"P", "doneP"})),
         UNCHANGED <<listener, buffered, awaited, W, request, round, ends, raised>>, LoopFrame
  PROVE  WaitInv'
  <1> DEFINE q == Rest({"P", "doneP"})
  <1> USE DEF LoopFrame
  <1>1. Tables /\ Small /\ HandlesFit /\ TasksFit /\ ListenerFits /\ EndFits
    BY TypeSplit DEF WaitInv
  <1>2. /\ \A k : Has(Tail(ready), k) => Has(ready, k)
        /\ Has(ready, "M") /\ ~Has(Tail(ready), "M")
    BY <1>1, Taken DEF Kinds
  <1>3. W = "blocked" /\ wait.fut \in 1..Len(futures) /\ wait.fut = listener
    BY <1>1, <1>2 DEF HandlesFit, TasksFit, ListenerFits, Small, Tables
  <1>4. /\ q \in Seq(HandleUpTo(Len(futures)))
        /\ \A k : Has(q, k) => k \notin {"P", "doneP"} /\ Has(Tail(ready), k)
        /\ \A k \in Kinds : Once(q, k)
        /\ Quiet(q, ready)
    BY <1>1, RestQueue DEF Tables, HandlesFit
  <1>5. Has(q, "W") => futures[wait.fut].st # "pending"
    BY <1>1, <1>2, <1>3, <1>4 DEF EndFits
  <1>6. CancelTask(q)
    OBVIOUS
  <1> HIDE DEF q
  <1>7. /\ futures' \in Seq(AnyFuture) /\ Len(futures') = Len(futures)
        /\ \A i \in 1..Len(futures) :
              futures'[i] = futures[i] \/ (futures[i].st = "pending" /\ futures'[i].st = "cancelled"
                                             /\ futures'[i].call = futures[i].call)
        /\ futures'[wait.fut].st # "pending"
        /\ ready' \in Seq(HandleUpTo(Len(futures))) /\ \A l \in Kinds : Once(ready', l)
        /\ \A l : Has(ready', l) => Has(q, l) \/ l = "W"
        /\ Quiet(ready', ready)
    BY <1>1, <1>3, <1>4, <1>5, <1>6, CancelDoes
  <1>8. wait'.fut = wait.fut /\ wait'.expired = wait.expired /\ Small'
    BY <1>1 DEF Small, callVars
  <1>9. Tables'
    BY <1>1, <1>7, <1>8 DEF Tables
  <1>10. TasksFit'
    BY <1>3 DEF TasksFit
  <1>11. HandlesFit'
    <2>1. /\ ~Has(ready', "P") /\ ~Has(ready', "doneP") /\ ~Has(ready', "M")
      BY <1>2, <1>4, <1>7
    <2>2. ~Has(ready', "doneW")
      BY <1>1, <1>2, <1>3, <1>4, <1>7 DEF HandlesFit
    <2> QED BY <1>3, <1>7, <2>1, <2>2 DEF HandlesFit
  <1>12. ListenerFits'
    BY <1>1, <1>3, <1>8 DEF ListenerFits
  <1>13. EndFits'
    BY <1>1, <1>3, <1>7, <1>8 DEF EndFits
  <1>14. \A i \in 1..Len(futures) : Current(i)' => Current(i)
    BY <1>8 DEF Current
  <1>15. CallsPlaced' /\ CallsApart' /\ EndsBehind' /\ RefusalsOfRound'
    BY <1>7, <1>14, CallsStay
  <1>16. TypeOK'
    BY <1>8, <1>9, TypeSplit, PTL
  <1> QED BY <1>10, <1>11, <1>12, <1>13, <1>15, <1>16 DEF WaitInv

\* The time of the wait is over.
LEMMA TimerKeeps ==
  ASSUME WaitInv, TimerFires
  PROVE  WaitInv'
  <1>1. Tables /\ Small /\ HandlesFit /\ TasksFit /\ ListenerFits /\ EndFits
    BY TypeSplit DEF WaitInv
  <1>2. /\ W = "blocked" /\ left = 0 /\ wait' = [wait EXCEPT !.expired = TRUE] /\ CancelTask(ready)
        /\ UNCHANGED <<listener, buffered, awaited, M, W, P, threaded, gate, request, paused, pauses,
                       left, round, callVars, ends, raised>>
    BY DEF TimerFires, mgrVars, jobVars
  <1>3. wait.fut \in 1..Len(futures)
    BY <1>1, <1>2 DEF ListenerFits, Tables
  <1>4. Quiet(ready, ready) /\ Has(ready, "W") => futures[wait.fut].st # "pending"
    BY <1>1, <1>2 DEF EndFits
  <1>5. Quiet(ready, ready)
    BY DEF Quiet
  <1>6. /\ futures' \in Seq(AnyFuture) /\ Len(futures') = Len(futures)
        /\ \A i \in 1..Len(futures) :
              futures'[i] = futures[i] \/ (futures[i].st = "pending" /\ futures'[i].st = "cancelled"
                                             /\ futures'[i].call = futures[i].call)
        /\ futures'[wait.fut].st # "pending"
        /\ ready' \in Seq(HandleUpTo(Len(futures))) /\ \A l \in Kinds : Once(ready', l)
        /\ \A l : Has(ready', l) => Has(ready, l) \/ l = "W"
        /\ Quiet(ready', ready)
    <2>1. \A l \in Kinds : Once(ready, l)
      BY <1>1 DEF HandlesFit
    <2>2. ready \in Seq(HandleUpTo(Len(futures)))
      BY <1>1 DEF Tables
    <2> QED BY <1>1, <1>2, <1>3, <1>4, <1>5, <2>1, <2>2, CancelDoes
  <1>7. wait'.fut = wait.fut /\ Small'
    BY ZenonT(60), <1>1, <1>2 DEF Small, callVars
  <1>8. Tables'
    BY <1>1, <1>2, <1>6, <1>7 DEF Tables
  <1>9. TasksFit'
    BY <1>1, <1>2 DEF TasksFit
  <1>10. HandlesFit'
    BY <1>1, <1>2, <1>6 DEF HandlesFit
  <1>11. ListenerFits'
    BY <1>1, <1>2, <1>7 DEF ListenerFits
  <1>12. EndFits'
    BY <1>1, <1>2, <1>6, <1>7 DEF EndFits
  <1>13. \A i \in 1..Len(futures) : Current(i)' => Current(i)
    BY <1>2, <1>7 DEF Current
  <1>14. CallsPlaced' /\ CallsApart' /\ EndsBehind' /\ RefusalsOfRound'
    BY <1>2, <1>6, <1>13, CallsStay
  <1>15. TypeOK'
    BY <1>7, <1>8, TypeSplit, PTL
  <1> QED BY <1>9, <1>10, <1>11, <1>12, <1>14, <1>15 DEF WaitInv

\* What the step knows when the wait is done.
LEMMA WaitIsDone ==
  ASSUME WaitInv, ready # <<>>, Head(ready).k = "M", W = "done"
  PROVE  /\ \A k \in Kinds : Has(Tail(ready), k) => k \in {"P", "doneP", "doneW"}
         /\ M = "joining" => \A k \in Kinds : ~Has(Tail(ready), k)
         /\ listener = 0 /\ awaited = FALSE /\ M \in {"racing", "joining"}
  <1>1. Tables /\ Small /\ HandlesFit /\ TasksFit /\ ListenerFits
    BY TypeSplit DEF WaitInv
  <1>2. /\ \A k : Has(Tail(ready), k) => Has(ready, k)
        /\ Has(ready, "M") /\ ~Has(Tail(ready), "M")
    BY <1>1, Taken DEF Kinds
  <1>3. ~Has(Tail(ready), "W")
    BY <1>1, <1>2 DEF HandlesFit
  <1>4. M = "joining" => ~Has(Tail(ready), "P") /\ ~Has(Tail(ready), "doneP") /\ ~Has(Tail(ready), "doneW")
    BY <1>1, <1>2 DEF HandlesFit, TasksFit
  <1>5. listener = 0 /\ awaited = FALSE /\ M \in {"racing", "joining"}
    BY <1>1 DEF ListenerFits, TasksFit, Small
  <1> QED BY <1>2, <1>3, <1>4, <1>5 DEF Kinds

\* The wait of the round is over: what ended it is behind.
LEMMA FinishKeeps ==
  ASSUME WaitInv, ready # <<>>, Head(ready).k = "M", W = "done", wait.out # "cancelled", Finish,
         ready' = Rest({"P", "doneP", "doneW"}),
         UNCHANGED <<futures, listener, buffered, awaited, wait, request, raised>>, LoopFrame
  PROVE  WaitInv'
  <1> USE DEF LoopFrame
  <1>1. Tables /\ Small /\ HandlesFit /\ TasksFit /\ ListenerFits /\ EndFits /\ CallsPlaced
    BY TypeSplit DEF WaitInv
  <1>2. /\ \A k \in Kinds : Has(Tail(ready), k) => k \in {"P", "doneP", "doneW"}
        /\ listener = 0 /\ awaited = FALSE
    BY WaitIsDone
  <1>3. /\ ready' \in Seq(HandleUpTo(Len(futures)))
        /\ \A k : Has(ready', k) => k \notin {"P", "doneP", "doneW"} /\ Has(Tail(ready), k)
        /\ \A k \in Kinds : Once(ready', k)
        /\ Quiet(ready', ready)
    BY <1>1, RestQueue DEF Tables, HandlesFit
  <1>4. \A k \in Kinds : ~Has(ready', k)
    BY <1>2, <1>3
  <1> DEFINE c == IF wait.fut = 0 \/ wait.out = "timeout" THEN NoCall ELSE futures[wait.fut].call
             e == [round |-> round, out |-> wait.out, call |-> c]
  <1>5. /\ W' = "off" /\ P' = "off" /\ ends' = Append(ends, e) /\ M' \in {"idle", "over"}
        /\ round' = IF round = Rounds THEN round ELSE round + 1
    BY DEF Finish
  <1>6. round \in 1..Rounds /\ round' \in 1..Rounds /\ Rounds \in Nat
    BY <1>1, <1>5, CallbackWaitAssumption DEF Small, CallsPlaced
  <1>7. wait.out \in {"timeout", "result", "refused"}
    BY <1>1 DEF Small, ListenerFits
  <1>8. c \in Calls \cup {NoCall}
    <2>1. wait.fut # 0 => futures[wait.fut] \in AnyFuture
      BY <1>1 DEF Tables
    <2> QED BY <2>1 DEF AnyFuture
  <1>9. c # NoCall => wait.fut \in 1..Len(futures) /\ futures[wait.fut].call = c
    BY <1>1 DEF Tables
  <1> HIDE DEF c
  <1>10. e \in [round : 1..Rounds, out : {"timeout", "result", "refused"}, call : Calls \cup {NoCall}]
    BY <1>6, <1>7, <1>8
  <1>11. e.call = c
    OBVIOUS
  <1> HIDE DEF e
  <1>12. Small'
    BY <1>1, <1>5, <1>6, <1>10 DEF Small, callVars
  <1>13. Tables'
    BY <1>1, <1>3 DEF Tables
  <1>14. TasksFit' /\ ListenerFits' /\ EndFits'
    BY <1>2, <1>5 DEF TasksFit, ListenerFits, EndFits
  <1>15. HandlesFit'
    BY <1>3, <1>4, <1>5 DEF HandlesFit, Kinds
  <1>16. CallsPlaced' /\ CallsApart'
    BY <1>3, <1>6, CallsKeep DEF WaitInv
  <1>17. \A i \in 1..Len(futures) : ~Current(i)'
    BY <1>2, <1>5 DEF Current
  <1>18. EndsBehind'
    <2> SUFFICES ASSUME NEW n \in 1..Len(ends'), ends'[n].call # NoCall
                 PROVE  \E i \in 1..Len(futures) : futures[i].call = ends'[n].call
      BY <1>17 DEF EndsBehind
    <2>1. (n \in 1..Len(ends) /\ ends'[n] = ends[n]) \/ ends'[n] = e
      BY <1>1, <1>5, <1>10 DEF Small
    <2>2. CASE n \in 1..Len(ends) /\ ends'[n] = ends[n]
      BY <2>2 DEF WaitInv, EndsBehind
    <2>3. CASE ends'[n] = e
      BY <1>9, <1>11, <2>3
    <2> QED BY <2>1, <2>2, <2>3
  <1>19. RefusalsOfRound'
    BY <1>17 DEF RefusalsOfRound
  <1>20. TypeOK'
    BY <1>12, <1>13, TypeSplit, PTL
  <1> QED BY <1>14, <1>15, <1>16, <1>18, <1>19, <1>20 DEF WaitInv

\* The run is held: nothing listens.
LEMMA HoldKeeps ==
  ASSUME WaitInv, ready # <<>>, Head(ready).k = "M", M = "joining", W = "done", M' = "held", W' = "off",
         ready' = Tail(ready), UNCHANGED <<futures, listener, buffered, awaited, wait, P, request, round, ends, raised>>,
         LoopFrame
  PROVE  WaitInv'
  <1> USE DEF LoopFrame
  <1>1. Tables /\ Small /\ HandlesFit /\ TasksFit /\ ListenerFits
    BY TypeSplit DEF WaitInv
  <1>2. (\A k \in Kinds : ~Has(ready', k)) /\ listener = 0 /\ awaited = FALSE
    BY WaitIsDone
  <1>3. /\ ready' \in Seq(HandleUpTo(Len(futures))) /\ Quiet(ready', ready)
        /\ \A k \in Kinds : Once(ready', k)
    BY <1>1, Taken
  <1>4. Small'
    BY <1>1 DEF Small, callVars
  <1>5. Tables'
    BY <1>1, <1>3 DEF Tables
  <1>6. TasksFit' /\ ListenerFits' /\ EndFits'
    BY <1>1, <1>2 DEF TasksFit, ListenerFits, EndFits
  <1>7. HandlesFit'
    BY <1>2, <1>3 DEF HandlesFit, Kinds
  <1>8. \A i \in 1..Len(futures) : Current(i)' => Current(i)
    BY <1>2 DEF Current
  <1>9. CallsPlaced' /\ CallsApart' /\ EndsBehind' /\ RefusalsOfRound'
    BY <1>3, <1>8, CallsStay
  <1>10. TypeOK'
    BY <1>4, <1>5, TypeSplit, PTL
  <1> QED BY <1>6, <1>7, <1>9, <1>10 DEF WaitInv

\* The step, each time it wakes.
LEMMA StepKeeps ==
  ASSUME WaitInv, ready # <<>>, Head(ready).k = "M", MDecides \/ MResumes, UNCHANGED raised, LoopFrame
  PROVE  WaitInv'
  <1>1. Tables /\ Small /\ HandlesFit /\ TasksFit
    BY TypeSplit DEF WaitInv
  <1>2. /\ Tail(ready) \in Seq(HandleUpTo(Len(futures))) /\ Quiet(Tail(ready), ready)
        /\ \A k : Has(Tail(ready), k) => Has(ready, k)
        /\ ~Has(Tail(ready), "M")
    BY <1>1, Taken DEF Kinds
  <1>3. CASE /\ M = "racing" /\ W # "done" /\ M' = "joining" /\ P' = "off"
             /\ wait' = [wait EXCEPT !.cancelled = TRUE] /\ CancelTask(Rest({"P", "doneP"}))
             /\ UNCHANGED <<mgrVars, W, request, round, ends>>
    BY <1>3, GiveUpKeeps DEF mgrVars
  <1>4. CASE /\ W = "done" /\ wait.out # "cancelled" /\ Finish /\ ready' = Rest({"P", "doneP", "doneW"})
             /\ UNCHANGED <<futures, mgrVars, wait, request>>
    BY <1>4, FinishKeeps DEF mgrVars
  <1>5. CASE /\ M = "joining" /\ W = "done" /\ gate = "closed" /\ M' = "held" /\ W' = "off"
             /\ ready' = Tail(ready)
             /\ UNCHANGED <<futures, mgrVars, wait, P, request, round, ends>>
    BY <1>5, HoldKeeps DEF mgrVars
  <1>6. CASE /\ M = "joining" /\ W = "done" /\ request' = "clear" /\ Register /\ Race(Tail(ready))
             /\ UNCHANGED <<awaited, round, ends>>
    <2>1. \A k \in Kinds : ~Has(Tail(ready), k)
      BY <1>6, WaitIsDone
    <2> QED BY <1>2, <1>6, <2>1, RaceKeeps DEF LoopFrame
  <1>7. CASE MResumes
    <2>1. M = "held" /\ request' = "clear" /\ Register /\ Race(Tail(ready)) /\ UNCHANGED <<awaited, round, ends>>
      BY <1>7 DEF MResumes
    <2>2. W = "off" /\ P = "off"
      BY <1>1, <2>1 DEF TasksFit
    <2>3. \A k \in Kinds : ~Has(Tail(ready), k)
      BY <1>1, <1>2, <2>1, <2>2 DEF HandlesFit, Kinds
    <2> QED BY <1>2, <2>1, <2>2, <2>3, RaceKeeps DEF LoopFrame
  <1> QED BY <1>3, <1>4, <1>5, <1>6, <1>7 DEF MDecides, Suspend

-----------------------------------------------------------------------------
(***************************************************************************)
(* The steps of the test, the clock and the host.                          *)
(***************************************************************************)

\* What no step of the step's task can find queued when it is not waiting.
LEMMA NothingQueued ==
  ASSUME WaitInv, M \in {"idle", "armed", "over", "closed"}
  PROVE  W = "off" /\ P = "off" /\ \A k \in Kinds : ~Has(ready, k)
  <1>1. W = "off" /\ P = "off"
    BY DEF WaitInv, TasksFit
  <1> QED BY <1>1 DEF WaitInv, HandlesFit, Kinds

\* A queue of handles that did not change has no new call in it.
LEMMA QuietSelf == Quiet(ready, ready)
  BY DEF Quiet

\* A tick of the clock keeps the invariant.
LEMMA TickKeeps ==
  ASSUME WaitInv, Tick
  PROVE  WaitInv'
  <1>1. Tables /\ Small /\ HandlesFit /\ TasksFit /\ ListenerFits /\ EndFits
    BY TypeSplit DEF WaitInv
  <1>2. /\ W = "blocked" /\ left > 0 /\ left' = left - 1
        /\ UNCHANGED <<futures, listener, buffered, awaited, ready, M, W, P, wait, threaded, gate, request,
                       paused, pauses, round, callVars, ends, raised>>
    BY DEF Tick, mgrVars, jobVars
  <1>3. left' \in 0..Timeout
    BY <1>1, <1>2, CallbackWaitAssumption DEF Small
  <1>4. Small' /\ Tables'
    BY <1>1, <1>2, <1>3 DEF Small, Tables, callVars
  <1>5. TasksFit' /\ ListenerFits' /\ HandlesFit'
    BY <1>1, <1>2 DEF TasksFit, ListenerFits, HandlesFit
  <1>6. EndFits'
    BY <1>1, <1>2 DEF EndFits
  <1>7. \A i \in 1..Len(futures) : Current(i)' => Current(i)
    BY <1>2 DEF Current
  <1>8. CallsPlaced' /\ CallsApart' /\ EndsBehind' /\ RefusalsOfRound'
    BY <1>2, <1>7, QuietSelf, CallsStay
  <1>9. TypeOK'
    BY <1>4, TypeSplit, PTL
  <1> QED BY <1>5, <1>6, <1>8, <1>9 DEF WaitInv

\* Arming the route ahead of the wait keeps the invariant.
LEMMA ArmKeeps ==
  ASSUME WaitInv, Arm
  PROVE  WaitInv'
  <1>1. Tables /\ Small /\ HandlesFit /\ TasksFit /\ ListenerFits /\ EndFits
    BY TypeSplit DEF WaitInv
  <1>2. /\ M = "idle" /\ Register /\ M' = "armed" /\ left' = Timeout
        /\ UNCHANGED <<awaited, ready, W, P, wait, threaded, gate, request, paused, pauses, round,
                       callVars, ends, raised>>
    BY DEF Arm, jobVars
  <1>3. W = "off" /\ P = "off" /\ \A k \in Kinds : ~Has(ready, k)
    BY <1>2, NothingQueued
  <1>4. Small'
    BY <1>1, <1>2, CallbackWaitAssumption DEF Small, callVars
  <1>5. Tables'
    <2>1. Len(futures) \in Nat
      BY <1>1 DEF Tables
    <2>2. /\ futures' \in Seq(AnyFuture) /\ Len(futures') \in {Len(futures), Len(futures) + 1}
          /\ listener' \in 1..Len(futures') /\ buffered' \in {buffered, NoCall}
      BY <1>1, <1>2, RegisterDoes
    <2>3. ready \in Seq(HandleUpTo(Len(futures')))
      BY <1>1, <2>1, <2>2, MoreFutures DEF Tables
    <2> QED BY <1>1, <1>2, <2>1, <2>2, <2>3 DEF Tables
  <1>6. TasksFit' /\ ListenerFits' /\ EndFits'
    BY <1>1, <1>2, <1>3 DEF TasksFit, ListenerFits, EndFits
  <1>7. HandlesFit'
    BY <1>1, <1>2, <1>3 DEF HandlesFit, Kinds
  <1>8. CallsPlaced' /\ CallsApart' /\ EndsBehind' /\ RefusalsOfRound'
    BY <1>2, <1>3, QuietSelf, CallsRegistered
  <1>9. TypeOK'
    BY <1>4, <1>5, TypeSplit, PTL
  <1> QED BY <1>6, <1>7, <1>8, <1>9 DEF WaitInv

\* The step that begins to wait keeps the invariant.
LEMMA StartWaitKeeps ==
  ASSUME WaitInv, StartWait
  PROVE  WaitInv'
  <1>1. /\ M = "armed" /\ Register /\ Race(ready)
        /\ UNCHANGED <<awaited, threaded, gate, request, paused, pauses, left, callVars, round, ends, raised>>
    BY DEF StartWait, jobVars
  <1>2. W = "off" /\ \A k \in Kinds : ~Has(ready, k)
    BY <1>1, NothingQueued
  <1>3. ready \in Seq(HandleUpTo(Len(futures))) /\ request' \in {"set", "clear"}
    BY <1>1, TypeSplit DEF WaitInv, Tables, Small
  <1> QED BY <1>1, <1>2, <1>3, QuietSelf, RaceKeeps

\* A round in which nothing is waited for keeps the invariant.
LEMMA SkipKeeps ==
  ASSUME WaitInv, SkipWait
  PROVE  WaitInv'
  <1>1. Tables /\ Small /\ HandlesFit /\ TasksFit /\ ListenerFits /\ EndFits /\ CallsPlaced
    BY TypeSplit DEF WaitInv
  <1>2. /\ M = "armed" /\ round < Rounds /\ M' = "idle" /\ round' = round + 1
        /\ UNCHANGED <<futures, listener, buffered, awaited, ready, W, P, wait, threaded, gate, request,
                       paused, pauses, left, callVars, ends, raised>>
    BY DEF SkipWait, mgrVars, jobVars
  <1>3. W = "off" /\ P = "off" /\ \A k \in Kinds : ~Has(ready, k)
    BY <1>2, NothingQueued
  <1>4. round' \in 0..Rounds /\ round' >= 1
    BY <1>1, <1>2, CallbackWaitAssumption DEF Small, CallsPlaced
  <1>5. Small' /\ Tables'
    BY <1>1, <1>2, <1>4 DEF Small, Tables, callVars
  <1>6. TasksFit' /\ ListenerFits' /\ EndFits'
    BY <1>1, <1>2, <1>3 DEF TasksFit, ListenerFits, EndFits
  <1>7. HandlesFit'
    BY <1>1, <1>2, <1>3 DEF HandlesFit, Kinds
  <1>8. CallsPlaced' /\ CallsApart'
    BY <1>2, <1>4, QuietSelf, CallsKeep DEF WaitInv
  <1>9. \A i \in 1..Len(futures) : Current(i)' => Current(i)
    BY <1>2 DEF Current
  <1>10. EndsBehind'
    BY <1>1, <1>2, <1>9, BehindKeeps DEF WaitInv, Tables
  <1>11. RefusalsOfRound'
    BY <1>2 DEF RefusalsOfRound
  <1>12. TypeOK'
    BY <1>5, TypeSplit, PTL
  <1> QED BY <1>6, <1>7, <1>8, <1>10, <1>11, <1>12 DEF WaitInv

\* The release of the route keeps the invariant.
LEMMA ReleaseKeeps ==
  ASSUME WaitInv, Release
  PROVE  WaitInv'
  <1>1. Tables /\ Small /\ HandlesFit /\ TasksFit /\ ListenerFits /\ EndFits /\ CallsPlaced /\ CallsApart
    BY TypeSplit DEF WaitInv
  <1>2. /\ M = "over" /\ M' = "closed" /\ listener' = 0 /\ buffered' = NoCall /\ awaited' = FALSE
        /\ UNCHANGED <<ready, W, P, wait, threaded, gate, request, paused, pauses, left, round,
                       callVars, ends, raised>>
    BY DEF Release, jobVars
  <1>3. W = "off" /\ P = "off" /\ \A k \in Kinds : ~Has(ready, k)
    BY <1>2, NothingQueued
  <1>4. /\ futures' \in Seq(AnyFuture) /\ Len(futures') = Len(futures)
        /\ \A i \in 1..Len(futures) :
              futures'[i] = futures[i] \/ (futures[i].st = "pending" /\ futures'[i].st = "cancelled"
                                             /\ futures'[i].call = futures[i].call)
    <2>1. CASE listener # 0 /\ futures[listener].st = "pending"
      <3>1. futures' = [futures EXCEPT ![listener].st = "cancelled"] /\ listener \in 1..Len(futures)
        BY <1>1, <2>1 DEF Tables, Release
      <3>2. futures \in Seq(AnyFuture)
        BY <1>1 DEF Tables
      <3> QED BY <2>1, <3>1, <3>2, FutureCancelled
    <2>2. CASE ~(listener # 0 /\ futures[listener].st = "pending")
      BY <1>1, <2>2 DEF Tables, Release
    <2> QED BY <2>1, <2>2
  <1>5. Small'
    <2>1. awaited' \in BOOLEAN /\ M' = "closed"
      BY <1>2
    <2>2. UNCHANGED <<W, P, wait, threaded, gate, request, paused, pauses, left, round, callVars, ends, raised>>
      BY <1>2
    <2> QED BY <1>1, <2>1, <2>2 DEF Small, callVars
  <1>6. Tables'
    BY <1>1, <1>2, <1>4 DEF Tables
  <1>7. TasksFit' /\ ListenerFits' /\ EndFits'
    BY <1>1, <1>2, <1>3 DEF TasksFit, ListenerFits, EndFits
  <1>8. HandlesFit'
    BY <1>1, <1>2, <1>3 DEF HandlesFit, Kinds
  <1>9. \A i \in 1..Len(futures) : futures'[i].call = futures[i].call /\ FuturePlaced(futures'[i])
    BY <1>1, <1>4 DEF CallsPlaced, FuturePlaced
  <1>10. CallsPlaced'
    BY <1>1, <1>2, <1>4, <1>9 DEF CallsPlaced, FuturePlaced, HandlePlaced, callVars
  <1>11. CallsApart'
    BY <1>1, <1>2, <1>4, <1>9 DEF CallsApart, OnceCalls
  <1>12. \A i \in 1..Len(futures) : ~Current(i)'
    BY <1>2, <1>3 DEF Current
  <1>13. EndsBehind'
    BY <1>1, <1>2, <1>4, <1>12, BehindKeeps DEF WaitInv, Tables
  <1>14. RefusalsOfRound'
    BY <1>4, <1>12 DEF RefusalsOfRound
  <1>15. TypeOK'
    BY <1>5, <1>6, TypeSplit, PTL
  <1> QED BY <1>7, <1>8, <1>10, <1>11, <1>13, <1>14, <1>15 DEF WaitInv

\* An event of the host is set: the task blocked on it is queued, once.
LEMMA EventKeeps ==
  ASSUME WaitInv, NEW k \in {"M", "P"}, NEW wakes \in BOOLEAN, wakes => ~Has(ready, k),
         wakes /\ k = "M" => M = "held", wakes /\ k = "P" => P = "blocked",
         ready' = ready \o (IF wakes THEN <<Handle(k)>> ELSE <<>>),
         UNCHANGED <<threaded, futures, listener, buffered, awaited, M, W, P, wait, left, round, callVars, ends, raised>>,
         Small'
  PROVE  WaitInv'
  <1>1. Tables /\ Small /\ HandlesFit /\ TasksFit /\ ListenerFits /\ EndFits
    BY TypeSplit DEF WaitInv
  <1>2. /\ ready' \in Seq(HandleUpTo(Len(futures))) /\ \A l \in Kinds : Once(ready', l)
        /\ \A l : Has(ready', l) => Has(ready, l) \/ (wakes /\ l = k)
        /\ \A l : Has(ready, l) => Has(ready', l)
        /\ Quiet(ready', ready)
        /\ Before(ready, "W", "P") => Before(ready', "W", "P")
    <2>1. ready \in Seq(HandleUpTo(Len(futures))) /\ k \in Kinds /\ \A l \in Kinds : Once(ready, l)
      BY <1>1 DEF Tables, Kinds, HandlesFit
    <2>2. CASE wakes
      <3> DEFINE r == Append(ready, Handle(k))
      <3>1. /\ r \in Seq(HandleUpTo(Len(futures))) /\ ready \o <<Handle(k)>> = r
            /\ \A l \in Kinds : Once(r, l)
            /\ \A l : Has(r, l) <=> Has(ready, l) \/ l = k
            /\ Quiet(r, ready)
            /\ Before(ready, "W", "P") => Before(r, "W", "P")
        BY <1>1, <2>1, <2>2, Queued
      <3>2. ready' = ready \o <<Handle(k)>>
        BY <2>2
      <3> HIDE DEF r
      <3> QED BY <2>2, <3>1, <3>2
    <2>3. CASE ~wakes
      <3>1. ready' = ready
        BY <2>1, <2>3
      <3> QED BY <2>1, <3>1, QuietSelf
    <2> QED BY <2>2, <2>3
  <1>3. Tables'
    BY <1>1, <1>2 DEF Tables
  <1>4. TasksFit' /\ ListenerFits'
    BY <1>1 DEF TasksFit, ListenerFits
  <1>5. HandlesFit'
    <2>1. Has(ready', "W") => Has(ready, "W")
      BY <1>2
    <2>2. Has(ready', "doneW") => Has(ready, "doneW")
      BY <1>2
    <2>3. Has(ready', "doneP") => Has(ready, "doneP")
      BY <1>2
    <2>4. Has(ready', "M") => Has(ready, "M") \/ M = "held"
      BY <1>2
    <2>5. Has(ready', "P") => Has(ready, "P") \/ P = "blocked"
      BY <1>2
    <2>6. Has(ready, "W") => Has(ready', "W")
      BY <1>2
    <2> QED BY <1>1, <1>2, <2>1, <2>2, <2>3, <2>4, <2>5, <2>6 DEF HandlesFit
  <1>6. EndFits'
    <2>1. Has(ready', "W") => Has(ready, "W")
      BY <1>2
    <2> QED BY <1>1, <2>1 DEF EndFits
  <1>7. \A i \in 1..Len(futures) : Current(i)' => Current(i)
    BY DEF Current
  <1>8. CallsPlaced' /\ CallsApart' /\ EndsBehind' /\ RefusalsOfRound'
    BY <1>2, <1>7, CallsStay
  <1>9. TypeOK'
    BY <1>3, TypeSplit, PTL
  <1> QED BY <1>4, <1>5, <1>6, <1>8, <1>9 DEF WaitInv

\* A pause of the job keeps the invariant.
LEMMA PauseKeeps ==
  ASSUME WaitInv, Pause
  PROVE  WaitInv'
  <1>1. Tables /\ Small
    BY TypeSplit DEF WaitInv
  <1> DEFINE wakes == P = "blocked" /\ Wakeable("P")
  <1>2. ready' = ready \o (IF wakes THEN <<Handle("P")>> ELSE <<>>)
    BY DEF Pause, RequestSet
  <1>3. wakes => ~Has(ready, "P") /\ P = "blocked"
    BY <1>1 DEF Tables, Wakeable, Has
  <1>4. UNCHANGED <<threaded, futures, listener, buffered, awaited, M, W, P, wait, left, round, callVars, ends, raised>>
    BY DEF Pause, mgrVars
  <1>5. Small'
    <2>1. pauses' \in 0..MaxPauses
      BY <1>1, CallbackWaitAssumption DEF Small, Pause
    <2>2. gate' = "closed" /\ request' = "set" /\ paused' = TRUE
      BY DEF Pause
    <2> QED BY <1>1, <1>4, <2>1, <2>2 DEF Small, callVars
  <1>6. wakes \in BOOLEAN
    OBVIOUS
  <1> HIDE DEF wakes
  <1> QED BY <1>2, <1>3, <1>4, <1>5, <1>6, EventKeeps

\* A resume of the job keeps the invariant.
LEMMA ResumeKeeps ==
  ASSUME WaitInv, Resume
  PROVE  WaitInv'
  <1>1. Tables /\ Small
    BY TypeSplit DEF WaitInv
  <1> DEFINE wakes == M = "held" /\ Wakeable("M")
  <1>2. ready' = ready \o (IF wakes THEN <<Handle("M")>> ELSE <<>>)
    BY DEF Resume, GateSet
  <1>3. wakes => ~Has(ready, "M") /\ M = "held"
    BY <1>1 DEF Tables, Wakeable, Has
  <1>4. UNCHANGED <<threaded, futures, listener, buffered, awaited, M, W, P, wait, left, round, callVars, ends, raised>>
    BY DEF Resume, mgrVars
  <1>5. Small'
    <2>1. gate' = "open" /\ request' = "clear" /\ paused' \in BOOLEAN /\ pauses' = pauses
      BY DEF Resume
    <2> QED BY <1>1, <1>4, <2>1 DEF Small, callVars
  <1>6. wakes \in BOOLEAN
    OBVIOUS
  <1> HIDE DEF wakes
  <1> QED BY <1>2, <1>3, <1>4, <1>5, <1>6, EventKeeps

-----------------------------------------------------------------------------
(***************************************************************************)
(* The calls that come in.                                                 *)
(***************************************************************************)

\* The answers to the calls after a step: none is taken back, and those there were came
\* when they came.
Answered ==
    /\ accepted \subseteq accepted' /\ turned \subseteq turned'
    /\ \A d \in Calls : arrived'[d] = 0 <=> d \notin accepted' \cup turned'
    /\ \A d \in accepted \cup turned : arrived'[d] = arrived[d]

\* A call is in no place yet.
Nowhere(c, q) ==
    /\ \A i \in 1..Len(futures) : futures[i].call # c
    /\ \A i \in 1..Len(q) : q[i].c # c
    /\ buffered # c

\* An open future gets its call: whoever waits on it wakes.
LEMMA CallSet ==
  ASSUME WaitInv, NEW n \in 1..Len(futures), futures[n].st = "pending", NEW c \in Calls,
         NEW st \in {"result", "refused"}, futures' = [futures EXCEPT ![n] = [st |-> st, call |-> c]],
         NEW q \in Seq(HandleUpTo(Len(futures))), Quiet(q, ready), Nowhere(c, q),
         \A l \in Kinds : Once(q, l) /\ (Has(q, l) <=> Has(ready, l)),
         Before(ready, "W", "P") => Before(q, "W", "P"),
         ready' = q \o Wakes(n), Answered, Small',
         st = "result" => c \in accepted', st = "refused" => c \in turned',
         st = "refused" => threaded \/ arrived'[c] = round,
         UNCHANGED <<threaded, listener, buffered, awaited, M, W, P, wait, left, round, ends>>
  PROVE  WaitInv'
  <1>1. Tables /\ Small /\ HandlesFit /\ TasksFit /\ ListenerFits /\ EndFits /\ CallsPlaced /\ CallsApart
    BY TypeSplit DEF WaitInv
  <1> DEFINE v == [st |-> st, call |-> c]
  <1>2. v \in AnyFuture /\ v.st = st /\ v.call = c
    BY DEF AnyFuture
  <1>3. futures' = [futures EXCEPT ![n] = v] /\ futures \in Seq(AnyFuture)
    BY <1>1 DEF Tables
  <1> HIDE DEF v
  <1>4. /\ futures' \in Seq(AnyFuture) /\ Len(futures') = Len(futures) /\ futures'[n] = v
        /\ \A i \in 1..Len(futures) : i # n => futures'[i] = futures[i]
    BY <1>2, <1>3, FutureSet
  <1>5. futures[n].call = NoCall
    BY <1>1 DEF CallsPlaced, FuturePlaced
  <1> DEFINE wakes == W = "blocked" /\ wait.fut = n
  <1>6. /\ ready' \in Seq(HandleUpTo(Len(futures))) /\ \A l \in Kinds : Once(ready', l)
        /\ \A l \in Kinds : Has(ready', l) <=> Has(ready, l) \/ (wakes /\ l = "W")
        /\ Quiet(ready', q)
        /\ W = "new" => Before(ready', "W", "P")
    <2>1. CASE wakes
      <3>1. ~Has(q, "W") /\ "W" \in Kinds
        BY <1>1, <2>1 DEF EndFits, Kinds
      <3> DEFINE r == Append(q, Handle("W"))
      <3>2. /\ r \in Seq(HandleUpTo(Len(futures))) /\ q \o <<Handle("W")>> = r
            /\ \A l \in Kinds : Once(r, l)
            /\ \A l : Has(r, l) <=> Has(q, l) \/ l = "W"
            /\ Quiet(r, q)
        BY <1>1, <3>1, Queued
      <3>3. ready' = q \o <<Handle("W")>>
        BY <2>1 DEF Wakes
      <3> HIDE DEF r
      <3> QED BY <2>1, <3>2, <3>3
    <2>2. CASE ~wakes
      <3>1. ready' = q
        BY <2>2 DEF Wakes
      <3>2. Quiet(q, q)
        BY DEF Quiet
      <3> QED BY <1>1, <2>2, <3>1, <3>2 DEF HandlesFit
    <2> QED BY <2>1, <2>2
  <1>7. Tables'
    BY <1>1, <1>4, <1>6 DEF Tables
  <1>8. TasksFit' /\ ListenerFits'
    BY <1>1 DEF TasksFit, ListenerFits
  <1>9. HandlesFit'
    <2>1. \A l \in Kinds \ {"W"} : Has(ready', l) <=> Has(ready, l)
      BY <1>6
    <2>2. Has(ready', "W") => Has(ready, "W") \/ W = "blocked"
      BY <1>6 DEF Kinds
    <2>3. Has(ready, "W") => Has(ready', "W")
      BY <1>6 DEF Kinds
    <2>4. /\ Has(ready', "P") => Has(ready, "P")
          /\ Has(ready', "M") => Has(ready, "M")
          /\ Has(ready', "doneW") => Has(ready, "doneW")
          /\ Has(ready', "doneP") => Has(ready, "doneP")
      BY <2>1 DEF Kinds
    <2> QED BY <1>1, <1>6, <2>2, <2>3, <2>4 DEF HandlesFit
  <1>10. EndFits'
    <2>1. Has(ready', "W") => Has(ready, "W") \/ wakes
      BY <1>6 DEF Kinds
    <2>2. W = "blocked" /\ Has(ready', "W") => futures'[wait.fut].st # "pending"
      <3>1. CASE wait.fut = n
        BY <1>2, <1>4, <3>1
      <3>2. CASE wait.fut # n
        BY <1>1, <1>4, <2>1, <3>2 DEF EndFits, ListenerFits, Tables
      <3> QED BY <3>1, <3>2
    <2>3. W = "done" /\ wait.out \in {"result", "refused"} => wait.fut # n /\ futures'[wait.fut].st = wait.out /\ wait.fut # 0
      BY <1>1, <1>4 DEF EndFits, Tables
    <2> QED BY <1>1, <2>2, <2>3 DEF EndFits
  <1>11. \A i \in 1..Len(futures) : FuturePlaced(futures[i])'
    <2> SUFFICES ASSUME NEW i \in 1..Len(futures) PROVE FuturePlaced(futures[i])'
      OBVIOUS
    <2>1. CASE i = n
      BY <1>2, <1>4, <2>1 DEF FuturePlaced
    <2>2. CASE i # n
      BY <1>1, <1>4, <2>2 DEF FuturePlaced, CallsPlaced, Answered
    <2> QED BY <2>1, <2>2
  <1>12. Quiet(ready', ready)
    BY <1>1, <1>6, QuietTwice DEF Tables
  <1>13. \A i \in 1..Len(ready') : HandlePlaced(ready[i])'
    <2> SUFFICES ASSUME NEW i \in 1..Len(ready') PROVE HandlePlaced(ready[i])'
      OBVIOUS
    <2>1. CASE ready'[i].k \in Kinds /\ ready'[i].c = NoCall
      BY <2>1 DEF HandlePlaced, Kinds
    <2>2. CASE \E j \in 1..Len(ready) : ready'[i] = ready[j]
      BY <1>1, <2>2 DEF HandlePlaced, CallsPlaced, Answered
    <2> QED BY <1>12, <2>1, <2>2 DEF Quiet
  <1>14. CallsPlaced'
    BY <1>1, <1>4, <1>11, <1>13 DEF CallsPlaced, Answered
  <1>15. \A i \in 1..Len(ready') : ready'[i].c # NoCall => ready'[i].c # c /\ \E j \in 1..Len(ready) : ready'[i] = ready[j]
    <2>1. \A i \in 1..Len(ready') : ready'[i].c # NoCall => \E j \in 1..Len(q) : ready'[i] = q[j]
      BY <1>6 DEF Quiet
    <2> QED BY <1>12, <2>1 DEF Quiet, Nowhere
  <1>16. CallsApart'
    <2>1. OnceCalls(ready)'
      BY <1>1, <1>12 DEF CallsApart, Quiet, OnceCalls
    <2>2. ASSUME NEW i \in 1..Len(futures), NEW j \in 1..Len(ready'), futures'[i].call # NoCall
          PROVE  futures'[i].call # ready'[j].c
      <3>1. CASE i = n
        BY <1>2, <1>4, <1>15, <2>2, <3>1
      <3>2. CASE i # n
        BY SMTT(60), <1>1, <1>4, <1>15, <2>2, <3>2 DEF CallsApart
      <3> QED BY <3>1, <3>2
    <2>3. \A j \in 1..Len(ready') : ready'[j].c # NoCall => ready'[j].c # buffered'
      BY <1>1, <1>15 DEF CallsApart
    <2>4. ASSUME NEW i \in 1..Len(futures), NEW j \in 1..Len(futures),
                 futures'[i].call = futures'[j].call, futures'[i].call # NoCall
          PROVE  i = j
      BY <1>1, <1>2, <1>4, <2>4 DEF CallsApart, Nowhere
    <2>5. ASSUME NEW i \in 1..Len(futures), futures'[i].call # NoCall
          PROVE  futures'[i].call # buffered'
      BY <1>1, <1>2, <1>4, <2>5 DEF CallsApart, Nowhere
    <2> QED BY <1>4, <2>1, <2>2, <2>3, <2>4, <2>5 DEF CallsApart
  <1>17. \A i \in 1..Len(futures) : Current(i)' => Current(i)
    BY DEF Current
  <1>18. EndsBehind'
    <2>1. \A i \in 1..Len(futures) : futures[i].call # NoCall => futures'[i].call = futures[i].call
      BY <1>4, <1>5
    <2> QED BY <1>1, <1>4, <1>17, <2>1, BehindKeeps DEF WaitInv, Tables
  <1>19. RefusalsOfRound'
    <2> SUFFICES ASSUME ~threaded, M # "idle", NEW i \in 1..Len(futures), Current(i), futures'[i].st = "refused"
                 PROVE  arrived'[futures'[i].call] = round
      BY <1>4, <1>17 DEF RefusalsOfRound
    <2>1. CASE i = n
      BY <1>2, <1>4, <2>1
    <2>2. CASE i # n
      <3>1. futures'[i] = futures[i] /\ futures[i].call \in turned /\ arrived[futures[i].call] = round
        BY <1>1, <1>4, <2>2 DEF CallsPlaced, FuturePlaced, WaitInv, RefusalsOfRound
      <3> QED BY <3>1 DEF Answered
    <2> QED BY <2>1, <2>2
  <1>20. TypeOK'
    BY <1>7, TypeSplit, PTL
  <1> QED BY <1>8, <1>9, <1>10, <1>14, <1>16, <1>18, <1>19, <1>20 DEF WaitInv

\* A call that reaches no future at once: turned away, kept until there is a listener, or
\* scheduled on the loop by the thread it came on.
LEMMA CallKept ==
  ASSUME WaitInv, NEW c \in Calls, Nowhere(c, ready), Answered, Small', ready' \in Seq(HandleUpTo(Len(futures))),
         UNCHANGED <<threaded, futures, listener, awaited, M, W, P, wait, left, round, ends>>,
         NEW h,
         ready' # ready =>
            /\ ready' = Append(ready, h) /\ buffered' = buffered /\ threaded
            /\ h.k \in {"set", "settle"} /\ h.c = c /\ h.f # 0 /\ h \in HandleUpTo(Len(futures))
            /\ h.k = "set" => c \in accepted'
            /\ h.k = "settle" => c \in turned',
         buffered' = buffered \/ (buffered' = c /\ c \in accepted')
  PROVE  WaitInv'
  <1>1. Tables /\ Small /\ HandlesFit /\ TasksFit /\ ListenerFits /\ EndFits /\ CallsPlaced /\ CallsApart
    BY TypeSplit DEF WaitInv
  <1>2. /\ \A l \in Kinds : Once(ready', l) /\ (Has(ready', l) <=> Has(ready, l))
        /\ Before(ready, "W", "P") => Before(ready', "W", "P")
        /\ \A i \in 1..Len(ready') : (ready' # ready /\ ready'[i] = h) \/ \E j \in 1..Len(ready) : ready'[i] = ready[j]
        /\ OnceCalls(ready)'
    <2>1. ready \in Seq(HandleUpTo(Len(futures))) /\ (ready' # ready => h.k \notin Kinds /\ h.k # "W")
      BY <1>1 DEF Tables, Kinds
    <2>2. CASE ready' # ready
      <3> DEFINE r == Append(ready, h)
      <3>1. /\ \A k : Has(r, k) <=> Has(ready, k) \/ h.k = k
            /\ \A k : Once(ready, k) /\ (h.k = k => ~Has(ready, k)) => Once(r, k)
            /\ \A k, l : Before(ready, k, l) /\ h.k # k => Before(r, k, l)
            /\ \A i \in 1..Len(r) : r[i] = h \/ \E j \in 1..Len(ready) : r[i] = ready[j]
            /\ OnceCalls(ready) /\ (\A j \in 1..Len(ready) : ready[j].c # h.c) => OnceCalls(r)
        BY <2>1, <2>2, AppendQueue
      <3> HIDE DEF r
      <3>2. ready' = r
        BY <2>2 DEF r
      <3>3. OnceCalls(r)
        BY <1>1, <2>2, <3>1 DEF CallsApart, Nowhere
      <3>4. \A l \in Kinds : Once(r, l) /\ (Has(r, l) <=> Has(ready, l))
        BY <1>1, <2>1, <2>2, <3>1 DEF HandlesFit
      <3>5. Before(ready, "W", "P") => Before(r, "W", "P")
        BY <2>1, <2>2, <3>1
      <3>6. OnceCalls(ready)'
        BY <3>2, <3>3 DEF OnceCalls
      <3> QED BY <2>2, <3>1, <3>2, <3>4, <3>5, <3>6
    <2>3. CASE ready' = ready
      <3>1. OnceCalls(ready)'
        BY <1>1, <2>3 DEF CallsApart, OnceCalls
      <3> QED BY <1>1, <2>3, <3>1 DEF HandlesFit
    <2> QED BY <2>2, <2>3
  <1>3. Tables'
    BY <1>1 DEF Tables
  <1>4. TasksFit' /\ ListenerFits'
    BY <1>1 DEF TasksFit, ListenerFits
  <1>5. Has(ready', "W") <=> Has(ready, "W")
    BY <1>2 DEF Kinds
  <1>6. HandlesFit'
    <2>1. /\ Has(ready', "P") <=> Has(ready, "P")
          /\ Has(ready', "M") <=> Has(ready, "M")
          /\ Has(ready', "doneW") <=> Has(ready, "doneW")
          /\ Has(ready', "doneP") <=> Has(ready, "doneP")
      BY <1>2 DEF Kinds
    <2> QED BY <1>1, <1>2, <1>5, <2>1 DEF HandlesFit
  <1>7. EndFits'
    BY <1>1, <1>5 DEF EndFits
  <1>8. \A i \in 1..Len(ready') : HandlePlaced(ready[i])'
    <2> SUFFICES ASSUME NEW i \in 1..Len(ready') PROVE HandlePlaced(ready[i])'
      OBVIOUS
    <2>1. CASE ready' # ready /\ ready'[i] = h
      BY <1>1, <2>1 DEF HandlePlaced, Kinds, Tables
    <2>2. CASE \E j \in 1..Len(ready) : ready'[i] = ready[j]
      BY <1>1, <2>2 DEF HandlePlaced, CallsPlaced, Answered
    <2> QED BY <1>2, <2>1, <2>2
  <1>9. CallsPlaced'
    <2>1. \A i \in 1..Len(futures) : FuturePlaced(futures[i])'
      BY <1>1 DEF CallsPlaced, FuturePlaced, Answered
    <2>2. buffered' # NoCall => buffered' \in accepted'
      BY <1>1 DEF CallsPlaced, Answered
    <2> QED BY <1>1, <1>8, <2>1, <2>2 DEF CallsPlaced, Answered
  <1>10. CallsApart'
    <2>1. ASSUME NEW i \in 1..Len(futures), NEW j \in 1..Len(ready'), futures[i].call # NoCall
          PROVE  futures[i].call # ready'[j].c
      BY <1>1, <1>2, <2>1 DEF CallsApart, Nowhere
    <2>2. ASSUME NEW j \in 1..Len(ready'), ready'[j].c # NoCall
          PROVE  ready'[j].c # buffered'
      <3>1. CASE buffered' = buffered
        BY <1>1, <1>2, <2>2, <3>1 DEF CallsApart, Nowhere
      <3>2. CASE ready' = ready /\ buffered' = c
        BY <3>2 DEF Nowhere
      <3> QED BY <3>1, <3>2
    <2>3. \A i \in 1..Len(futures) : futures[i].call # NoCall => futures[i].call # buffered'
      BY <1>1 DEF CallsApart, Nowhere
    <2> QED BY <1>1, <1>2, <2>1, <2>2, <2>3 DEF CallsApart
  <1>11. EndsBehind'
    BY <1>1 DEF WaitInv, EndsBehind, Current
  <1>12. RefusalsOfRound'
    <2> SUFFICES ASSUME ~threaded, M # "idle", NEW i \in 1..Len(futures), Current(i), futures[i].st = "refused"
                 PROVE  arrived'[futures[i].call] = round
      BY DEF RefusalsOfRound, Current
    <2>1. futures[i].call \in turned /\ arrived[futures[i].call] = round
      BY <1>1 DEF CallsPlaced, FuturePlaced, WaitInv, RefusalsOfRound
    <2> QED BY <2>1 DEF Answered
  <1>13. TypeOK'
    BY <1>3, TypeSplit, PTL
  <1> QED BY <1>4, <1>6, <1>7, <1>9, <1>10, <1>11, <1>12, <1>13 DEF WaitInv

\* A call that ends nothing, kept in the buffer or refused, keeps the invariant.
LEMMA KeptCall ==
  ASSUME WaitInv, NEW c \in Calls, Nowhere(c, ready), Answered, Small',
         UNCHANGED <<threaded, futures, ready, listener, awaited, M, W, P, wait, left, round, ends>>,
         buffered' = buffered \/ (buffered' = c /\ accepted' = accepted \cup {c})
  PROVE  WaitInv'
  <1>1. ready' \in Seq(HandleUpTo(Len(futures)))
    BY TypedTables DEF WaitInv, Tables
  <1>2. buffered' = buffered \/ (buffered' = c /\ c \in accepted')
    OBVIOUS
  <1> QED BY <1>1, <1>2, CallKept

\* A call that was not answered yet is nowhere, and its answer changes no other.
LEMMA Told ==
  ASSUME WaitInv, NEW c \in Calls, c \notin accepted \cup turned, arrived' = [arrived EXCEPT ![c] = round],
         \/ accepted' = accepted \cup {c} /\ turned' = turned
         \/ accepted' = accepted /\ turned' = turned \cup {c},
         UNCHANGED <<threaded, awaited, M, W, P, wait, gate, request, paused, pauses, left, round, ends, raised>>
  PROVE  Nowhere(c, ready) /\ Answered /\ Small' /\ arrived'[c] = round
  <1>1. Tables /\ Small /\ CallsPlaced
    BY TypeSplit DEF WaitInv
  <1>2. c # NoCall
    BY CallbackWaitAssumption
  <1>3. \A i \in 1..Len(futures) : futures[i].call # c
    <2>1. ASSUME NEW i \in 1..Len(futures) PROVE futures[i].st \in {"pending", "result", "refused", "cancelled"}
      <3>1. futures[i] \in AnyFuture
        BY <1>1 DEF Tables
      <3> QED BY <3>1 DEF AnyFuture
    <2> QED BY <1>1, <1>2, <2>1 DEF CallsPlaced, FuturePlaced
  <1>4. \A i \in 1..Len(ready) : ready[i].c # c
    <2>1. ASSUME NEW i \in 1..Len(ready) PROVE ready[i].k \in Kinds \cup {"set", "settle"}
      <3>1. ready[i] \in HandleUpTo(Len(futures))
        BY <1>1 DEF Tables
      <3> QED BY <3>1 DEF HandleUpTo
    <2> QED BY <1>1, <1>2, <2>1 DEF CallsPlaced, HandlePlaced
  <1>5. Nowhere(c, ready)
    BY <1>1, <1>2, <1>3, <1>4 DEF Nowhere, CallsPlaced
  <1>6. arrived'[c] = round /\ round # 0 /\ arrived' \in [Calls -> 0..Rounds]
        /\ \A d \in Calls : d # c => arrived'[d] = arrived[d]
    BY <1>1 DEF Small, CallsPlaced
  <1>7. Answered
    BY <1>1, <1>6 DEF Answered, CallsPlaced, Small
  <1>8. Small'
    BY <1>1, <1>6 DEF Small
  <1> QED BY <1>5, <1>6, <1>7, <1>8

\* What a call does to an open listener: at once on the run's loop, else by a handle.
LEMMA OpenListener ==
  ASSUME WaitInv, NEW c \in Calls, NEW k \in {"set", "settle"}, Nowhere(c, ready), Answered, Small',
         arrived'[c] = round, listener # 0, futures[listener].st = "pending",
         k = "set" => c \in accepted', k = "settle" => c \in turned',
         IF threaded
         THEN ready' = Append(ready, [k |-> k, f |-> listener, c |-> c]) /\ futures' = futures
         ELSE /\ futures' = [futures EXCEPT ![listener] =
                                [st |-> IF k = "set" THEN "result" ELSE "refused", call |-> c]]
              /\ ready' = ready \o Wakes(listener),
         UNCHANGED <<threaded, listener, buffered, awaited, M, W, P, wait, left, round, ends>>
  PROVE  WaitInv'
  <1>1. Tables /\ Small /\ HandlesFit
    BY TypeSplit DEF WaitInv
  <1>2. listener \in 1..Len(futures) /\ ready \in Seq(HandleUpTo(Len(futures)))
    BY <1>1 DEF Tables
  <1>3. CASE threaded
    <2> DEFINE h == [k |-> k, f |-> listener, c |-> c]
    <2>1. h \in HandleUpTo(Len(futures)) /\ h.k = k /\ h.c = c /\ h.f # 0
      BY <1>2 DEF HandleUpTo
    <2>2. ready' = Append(ready, h) /\ futures' = futures
      BY <1>3
    <2> HIDE DEF h
    <2>3. ready' \in Seq(HandleUpTo(Len(futures)))
      BY <1>2, <2>1, <2>2
    <2> QED BY <1>3, <2>1, <2>2, <2>3, CallKept
  <1>4. CASE ~threaded
    <2> DEFINE st == IF k = "set" THEN "result" ELSE "refused"
    <2>1. st \in {"result", "refused"} /\ (st = "result" => c \in accepted') /\ (st = "refused" => c \in turned')
      OBVIOUS
    <2>2. futures' = [futures EXCEPT ![listener] = [st |-> st, call |-> c]] /\ ready' = ready \o Wakes(listener)
      BY <1>4
    <2>3. \A l \in Kinds : Once(ready, l)
      BY <1>1 DEF HandlesFit
    <2> HIDE DEF st
    <2> QED BY <1>2, <2>1, <2>2, <2>3, QuietSelf, CallSet
  <1> QED BY <1>3, <1>4

\* A call handed to resolve keeps the invariant.
LEMMA ResolveKeeps ==
  ASSUME WaitInv, NEW c \in Calls, Resolve(c)
  PROVE  WaitInv'
  <1>1. Tables
    BY TypedTables DEF WaitInv
  <1>2. /\ c \notin accepted \cup turned /\ arrived' = [arrived EXCEPT ![c] = round]
        /\ UNCHANGED <<listener, awaited, M, W, P, wait, threaded, gate, request, paused, pauses, left, round, ends, raised>>
    BY DEF Resolve, jobVars
  <1>3. \/ accepted' = accepted \cup {c} /\ turned' = turned
        \/ accepted' = accepted /\ turned' = turned \cup {c}
    BY DEF Resolve
  <1>4. Nowhere(c, ready) /\ Answered /\ Small' /\ arrived'[c] = round
    BY <1>2, <1>3, Told
  <1>5. CASE listener # 0 /\ futures[listener].st = "pending"
    <2>1. /\ IF threaded
             THEN ready' = Append(ready, [k |-> "set", f |-> listener, c |-> c]) /\ futures' = futures
             ELSE /\ futures' = [futures EXCEPT ![listener] = [st |-> "result", call |-> c]]
                  /\ ready' = ready \o Wakes(listener)
          /\ accepted' = accepted \cup {c} /\ buffered' = buffered
      BY <1>5 DEF Resolve
    <2>2. c \in accepted'
      BY <2>1
    <2> QED BY <1>2, <1>4, <1>5, <2>1, <2>2, OpenListener
  <1>6. CASE ~(listener # 0 /\ futures[listener].st = "pending")
    <2>1. /\ UNCHANGED <<futures, ready>>
          /\ buffered' = buffered \/ (listener = 0 /\ buffered' = c /\ accepted' = accepted \cup {c})
      BY <1>6 DEF Resolve
    <2> QED BY <1>1, <1>2, <1>4, <2>1, KeptCall
  <1> QED BY <1>5, <1>6

\* A call handed to reject keeps the invariant.
LEMMA RejectKeeps ==
  ASSUME WaitInv, NEW c \in Calls, Reject(c)
  PROVE  WaitInv'
  <1>1. Tables
    BY TypedTables DEF WaitInv
  <1>2. /\ c \notin accepted \cup turned /\ arrived' = [arrived EXCEPT ![c] = round]
        /\ turned' = turned \cup {c} /\ accepted' = accepted
        /\ UNCHANGED <<listener, buffered, awaited, M, W, P, wait, threaded, gate, request, paused, pauses,
                       left, round, ends, raised>>
    BY DEF Reject, jobVars, mgrVars
  <1>3. Nowhere(c, ready) /\ Answered /\ Small' /\ arrived'[c] = round
    BY <1>2, Told
  <1>4. CASE listener # 0 /\ futures[listener].st = "pending"
    <2>1. IF threaded
          THEN ready' = Append(ready, [k |-> "settle", f |-> listener, c |-> c]) /\ futures' = futures
          ELSE /\ futures' = [futures EXCEPT ![listener] = [st |-> "refused", call |-> c]]
               /\ ready' = ready \o Wakes(listener)
      BY <1>4 DEF Reject
    <2>2. c \in turned'
      BY <1>2
    <2> QED BY <1>2, <1>3, <1>4, <2>1, <2>2, OpenListener
  <1>5. CASE ~(listener # 0 /\ futures[listener].st = "pending")
    <2>1. UNCHANGED <<futures, ready>>
      BY <1>5 DEF Reject
    <2> QED BY <1>1, <1>2, <1>3, <2>1, KeptCall
  <1> QED BY <1>4, <1>5

-----------------------------------------------------------------------------
\* A callback of another thread: on a future that is done, set_result raises and the
\* refusal does nothing.
LEMMA ScheduledKeeps ==
  ASSUME WaitInv, ready # <<>>, Head(ready).k \in {"set", "settle"}, Scheduled(Head(ready)), LoopFrame
  PROVE  WaitInv' /\ threaded
  <1> DEFINE h == Head(ready)
             q == Tail(ready)
  <1>1. Tables /\ Small /\ HandlesFit /\ TasksFit /\ ListenerFits /\ EndFits /\ CallsPlaced /\ CallsApart
    BY TypeSplit DEF WaitInv
  <1>2. /\ q \in Seq(HandleUpTo(Len(futures))) /\ Quiet(q, ready) /\ h \in HandleUpTo(Len(futures))
        /\ \A k \in Kinds : Once(q, k)
        /\ \A k : Has(q, k) => Has(ready, k)
        /\ \A k : Has(ready, k) /\ k # h.k => Has(q, k)
        /\ Before(ready, "W", "P") => Before(q, "W", "P")
    BY <1>1, Taken
  <1>3. /\ h = ready[1] /\ 1 \in 1..Len(ready)
        /\ \A j \in 1..Len(q) : q[j] = ready[j + 1] /\ j + 1 \in 1..Len(ready)
    BY <1>1, TailQueue DEF Tables
  <1>4. HandlePlaced(h) /\ h.k \notin Kinds
    BY <1>1, <1>3 DEF CallsPlaced, Kinds
  <1>5. threaded /\ h.f \in 1..Len(futures) /\ h.c \in Calls
    BY <1>1, <1>2, <1>4, CallbackWaitAssumption DEF HandlePlaced, HandleUpTo, Small, Tables
  <1> DEFINE st == IF h.k = "set" THEN "result" ELSE "refused"
             open == futures[h.f].st = "pending"
  <1>6. /\ futures' = IF open THEN [futures EXCEPT ![h.f] = [st |-> st, call |-> h.c]] ELSE futures
        /\ ready' = q \o (IF open THEN Wakes(h.f) ELSE <<>>)
        /\ raised' = (raised \/ (h.k = "set" /\ ~open))
        /\ UNCHANGED <<listener, buffered, awaited, M, W, P, wait, request, round, ends>>
        /\ UNCHANGED <<threaded, gate, paused, pauses, left, accepted, turned, arrived>>
    BY DEF Scheduled, mgrVars, LoopFrame, callVars
  <1>7. \A k \in Kinds : Has(q, k) <=> Has(ready, k)
    BY <1>2, <1>4
  <1>8. Small'
    <2>1. raised' \in BOOLEAN
      BY <1>6
    <2> QED BY <1>1, <1>6, <2>1 DEF Small
  <1>9. Answered
    BY <1>1, <1>6 DEF Answered, CallsPlaced
  <1>10. Nowhere(h.c, q)
    <2>1. h.c # NoCall
      BY <1>5, CallbackWaitAssumption
    <2>2. \A i \in 1..Len(futures) : futures[i].call # h.c
      BY <1>1, <1>3, <2>1 DEF CallsApart
    <2>3. \A j \in 1..Len(q) : q[j].c # h.c
      <3> SUFFICES ASSUME NEW j \in 1..Len(q), q[j].c = h.c PROVE FALSE
        OBVIOUS
      <3>1. 1 = j + 1 /\ j \in Nat /\ j >= 1
        BY <1>1, <1>3, <2>1 DEF CallsApart, OnceCalls
      <3> QED BY <3>1
    <2>4. buffered # h.c
      BY <1>1, <1>3, <2>1 DEF CallsApart
    <2> QED BY <2>2, <2>3, <2>4 DEF Nowhere
  <1>11. st \in {"result", "refused"} /\ (st = "result" => h.c \in accepted) /\ (st = "refused" => h.c \in turned)
    BY <1>4 DEF HandlePlaced
  <1>12. CASE open
    <2>1. futures' = [futures EXCEPT ![h.f] = [st |-> st, call |-> h.c]] /\ ready' = q \o Wakes(h.f)
      BY <1>6, <1>12
    <2>2. /\ h.f \in 1..Len(futures) /\ futures[h.f].st = "pending" /\ h.c \in Calls /\ threaded
          /\ st = "result" => h.c \in accepted'
          /\ st = "refused" => h.c \in turned'
      BY <1>5, <1>6, <1>11, <1>12
    <2> HIDE DEF h, q, st
    <2> QED BY <1>2, <1>6, <1>7, <1>8, <1>9, <1>10, <1>11, <2>1, <2>2, CallSet
  <1>13. CASE ~open
    <2>1. futures' = futures /\ ready' = q
      BY <1>2, <1>6, <1>13
    <2> HIDE DEF h, q, st, open
    <2>2. Tables'
      BY <1>1, <1>2, <1>6, <2>1 DEF Tables
    <2>3. TasksFit' /\ ListenerFits'
      BY <1>1, <1>6 DEF TasksFit, ListenerFits
    <2>4. /\ Has(q, "W") <=> Has(ready, "W")
          /\ Has(q, "P") <=> Has(ready, "P")
          /\ Has(q, "M") <=> Has(ready, "M")
          /\ Has(q, "doneW") <=> Has(ready, "doneW")
          /\ Has(q, "doneP") <=> Has(ready, "doneP")
      BY <1>7 DEF Kinds
    <2>5. HandlesFit'
      BY <1>1, <1>2, <1>6, <2>1, <2>4 DEF HandlesFit
    <2>6. EndFits'
      BY <1>1, <1>6, <2>1, <2>4 DEF EndFits
    <2>7. \A i \in 1..Len(futures) : Current(i)' => Current(i)
      BY <1>6 DEF Current
    <2>8. CallsPlaced' /\ CallsApart' /\ EndsBehind' /\ RefusalsOfRound'
      BY <1>2, <1>6, <2>1, <2>7, CallsStay DEF callVars
    <2>9. TypeOK'
      BY <1>8, <2>2, TypeSplit, PTL
    <2> QED BY <1>5, <2>3, <2>5, <2>6, <2>8, <2>9 DEF WaitInv
  <1> QED BY <1>5, <1>12, <1>13

-----------------------------------------------------------------------------
(***************************************************************************)
(* The invariant.                                                          *)
(***************************************************************************)

LEMMA WaitInit == Init => WaitInv
  <1> SUFFICES ASSUME Init PROVE WaitInv
    OBVIOUS
  <1>1. futures = <<>> /\ ready = <<>> /\ ends = <<>> /\ Len(futures) = 0 /\ Len(ready) = 0 /\ Len(ends) = 0
    BY DEF Init
  <1>2. Tables
    BY <1>1 DEF Init, Tables, FreshWait
  <1>3. Small
    <2>1. awaited \in BOOLEAN /\ raised \in BOOLEAN /\ paused \in BOOLEAN /\ threaded \in BOOLEAN
      BY DEF Init
    <2>2. wait \in [fut : Nat, cancelled : BOOLEAN, expired : BOOLEAN,
                    out : {"none", "cancelled", "timeout", "result", "refused"}]
      BY DEF Init, FreshWait
    <2>3. /\ M = "idle" /\ W = "off" /\ P = "off" /\ gate = "open" /\ request = "clear"
          /\ left = Timeout /\ round = 1 /\ pauses = 0 /\ accepted = {} /\ turned = {}
          /\ arrived = [c \in Calls |-> 0]
      BY DEF Init
    <2>4. arrived \in [Calls -> 0..Rounds] /\ left \in 0..Timeout /\ round \in 0..Rounds /\ pauses \in 0..MaxPauses
      BY <2>3, CallbackWaitAssumption
    <2> QED BY <1>1, <2>1, <2>2, <2>3, <2>4 DEF Small
  <1>4. TasksFit /\ ListenerFits /\ EndFits
    BY DEF Init, TasksFit, ListenerFits, EndFits
  <1>5. HandlesFit
    BY <1>1 DEF Init, HandlesFit, Has, Once, Before
  <1>6. CallsPlaced
    <2>1. round = 1 /\ buffered = NoCall /\ \A c \in Calls : arrived[c] = 0 /\ c \notin accepted \cup turned
      BY DEF Init
    <2> QED BY <1>1, <2>1 DEF CallsPlaced
  <1>7. CallsApart /\ EndsBehind /\ RefusalsOfRound
    BY <1>1 DEF Init, CallsApart, OnceCalls, EndsBehind, RefusalsOfRound
  <1> QED BY <1>2, <1>3, <1>4, <1>5, <1>6, <1>7, TypeSplit DEF WaitInv

\* The loop runs a handle.
LEMMA HandleKeeps ==
  ASSUME WaitInv, RunHandle
  PROVE  WaitInv'
  <1>1. ready # <<>> /\ LoopFrame
    BY DEF RunHandle, LoopFrame
  <1> DEFINE h == Head(ready)
  <1>2. CASE h.k = "W" /\ (WStart \/ WWakes) /\ UNCHANGED <<M, P, request, round, ends, raised>>
    BY <1>1, <1>2, StartKeeps, WakesKeeps DEF WaitFrame
  <1>3. CASE h.k = "P" /\ PRuns(P = "blocked") /\ UNCHANGED raised
    BY <1>1, <1>3, WatchKeeps
  <1>4. CASE h.k \in {"doneW", "doneP"} /\ OnCompletion(h.k) /\ UNCHANGED raised
    BY <1>1, <1>4, CompletionKeeps
  <1>5. CASE h.k = "M" /\ (MDecides \/ MResumes) /\ UNCHANGED raised
    BY <1>1, <1>5, StepKeeps
  <1>6. CASE h.k \in {"set", "settle"} /\ Scheduled(h)
    BY <1>1, <1>6, ScheduledKeeps
  <1> QED BY <1>2, <1>3, <1>4, <1>5, <1>6 DEF RunHandle

\* A step that changes nothing keeps the invariant.
LEMMA WaitStutter == ASSUME WaitInv, UNCHANGED vars PROVE WaitInv'
  BY DEF WaitInv, vars, TypeOK, TasksFit, HandlesFit, ListenerFits, EndFits, CallsPlaced, CallsApart, EndsBehind,
         RefusalsOfRound, Has, Once, Before, OnceCalls, FuturePlaced, HandlePlaced, Current

\* Every step keeps the invariant.
LEMMA WaitNext == ASSUME WaitInv, [Next]_vars PROVE WaitInv'
  <1>1. CASE RunHandle
    BY <1>1, HandleKeeps
  <1>2. CASE TimerFires
    BY <1>2, TimerKeeps
  <1>3. CASE Tick
    BY <1>3, TickKeeps
  <1>4. CASE Arm
    BY <1>4, ArmKeeps
  <1>5. CASE StartWait
    BY <1>5, StartWaitKeeps
  <1>6. CASE SkipWait
    BY <1>6, SkipKeeps
  <1>7. CASE Release
    BY <1>7, ReleaseKeeps
  <1>8. CASE Pause
    BY <1>8, PauseKeeps
  <1>9. CASE Resume
    BY <1>9, ResumeKeeps
  <1>10. ASSUME NEW c \in Calls, Resolve(c) \/ Reject(c) PROVE WaitInv'
    BY <1>10, ResolveKeeps, RejectKeeps
  <1>11. CASE Over \/ UNCHANGED vars
    BY <1>11, WaitStutter DEF Over
  <1> QED BY <1>1, <1>2, <1>3, <1>4, <1>5, <1>6, <1>7, <1>8, <1>9, <1>10, <1>11 DEF Next, Loop

\* Whatever calls come on whichever thread, and however often the run is paused: the wait
\* under way is on the listener that is registered, a held run has none, and a wait times
\* out only with its time spent.
THEOREM WaitsAlwaysOnListener == Spec => []WaitsOnListener
  <1>1. WaitInv => WaitsOnListener
    <2> SUFFICES ASSUME WaitInv PROVE WaitsOnListener
      OBVIOUS
    <2>1. M = "held" => ~awaited
      BY DEF WaitInv, TasksFit, ListenerFits
    <2> QED BY <2>1 DEF WaitInv, ListenerFits, EndFits, WaitsOnListener
  <1> QED BY <1>1, WaitInit, WaitNext, PTL DEF Spec

-----------------------------------------------------------------------------
(***************************************************************************)
(* The refinement.                                                         *)
(***************************************************************************)

\* A step that answers no call and ends no wait is none of CallDelivery.
LEMMA Unseen ==
  ASSUME UNCHANGED <<threaded, accepted, turned, arrived, round, ends, raised>>
  PROVE  UNCHANGED Delivery!dVars
  BY DEF Delivery!dVars

\* The wait of a round ends by a call that has ended no other.
LEMMA FinishDelivers ==
  ASSUME WaitInv, W = "done", wait.out # "cancelled", Finish, UNCHANGED raised, LoopFrame
  PROVE  Delivery!WaitOver
  <1> DEFINE c == IF wait.fut = 0 \/ wait.out = "timeout" THEN NoCall ELSE futures[wait.fut].call
  <1>1. Tables /\ Small /\ TasksFit /\ ListenerFits /\ EndFits /\ CallsPlaced /\ CallsApart
    BY TypeSplit DEF WaitInv
  <1>2. ends' = Append(ends, [round |-> round, out |-> wait.out, call |-> c])
    BY DEF Finish
  <1>3. wait.out \in {"timeout", "result", "refused"}
    BY <1>1 DEF Small, ListenerFits
  <1>4. round' \in {round, round + 1} /\ round' <= Rounds
    <2>1. round \in 0..Rounds /\ Rounds \in Nat /\ round' = IF round = Rounds THEN round ELSE round + 1
      BY <1>1, CallbackWaitAssumption DEF Small, Finish
    <2> QED BY <2>1
  <1>5. UNCHANGED <<threaded, accepted, turned, arrived, raised>>
    BY DEF LoopFrame, callVars
  <1>6. Delivery!EndsBy(wait.out, c) /\ c \in Calls \cup {NoCall}
    <2>1. CASE wait.out = "timeout"
      BY <2>1 DEF Delivery!EndsBy
    <2>2. CASE wait.out \in {"result", "refused"}
      <3>1. wait.fut \in 1..Len(futures) /\ futures[wait.fut].st = wait.out /\ c = futures[wait.fut].call
        BY <1>1, <2>2 DEF EndFits, Tables
      <3>2. /\ wait.out = "result" => c \in accepted
            /\ wait.out = "refused" => c \in turned
        BY <1>1, <3>1 DEF CallsPlaced, FuturePlaced
      <3>3. c \in Calls /\ c # NoCall
        BY <1>1, <2>2, <3>2, CallbackWaitAssumption DEF Small
      <3>4. \A n \in 1..Len(ends) : ends[n].call # c
        <4> SUFFICES ASSUME NEW n \in 1..Len(ends), ends[n].call = c PROVE FALSE
          OBVIOUS
        <4>1. PICK i \in 1..Len(futures) : futures[i].call = c /\ ~Current(i)
          BY <3>3 DEF WaitInv, EndsBehind
        <4>2. i = wait.fut
          BY <1>1, <3>1, <3>3, <4>1 DEF CallsApart
        <4> QED BY <4>1, <4>2 DEF Current
      <3>5. c \notin Delivery!Used
        <4>1. DOMAIN ends = 1..Len(ends)
          BY <1>1 DEF Small
        <4> QED BY <3>4, <4>1 DEF Delivery!Used
      <3>6. wait.out = "refused" => threaded \/ arrived[c] = round
        <4>1. M # "idle" /\ Current(wait.fut)
          BY <1>1 DEF TasksFit, Current
        <4> QED BY <3>1, <4>1 DEF WaitInv, RefusalsOfRound
      <3> HIDE DEF c
      <3> QED BY <2>2, <3>2, <3>3, <3>5, <3>6 DEF Delivery!EndsBy
    <2> QED BY <1>3, <2>1, <2>2
  <1> HIDE DEF c
  <1> QED BY <1>2, <1>3, <1>4, <1>5, <1>6 DEF Delivery!WaitOver

\* A handle of the loop ends a wait, or finds a call's future done, or is not seen.
LEMMA HandleDelivers ==
  ASSUME WaitInv, RunHandle
  PROVE  Delivery!WaitOver \/ Delivery!Upset \/ UNCHANGED Delivery!dVars
  <1>1. ready # <<>> /\ LoopFrame /\ UNCHANGED <<threaded, accepted, turned, arrived>>
    BY DEF RunHandle, LoopFrame, callVars
  <1> DEFINE h == Head(ready)
  <1>2. CASE h.k = "W" /\ (WStart \/ WWakes) /\ UNCHANGED <<M, P, request, round, ends, raised>>
    BY <1>1, <1>2, Unseen
  <1>3. CASE h.k = "P" /\ PRuns(P = "blocked") /\ UNCHANGED raised
    BY <1>1, <1>3, Unseen DEF PRuns
  <1>4. CASE h.k \in {"doneW", "doneP"} /\ OnCompletion(h.k) /\ UNCHANGED raised
    BY <1>1, <1>4, Unseen DEF OnCompletion
  <1>5. CASE h.k = "M" /\ (MDecides \/ MResumes) /\ UNCHANGED raised
    <2>1. CASE UNCHANGED <<round, ends>>
      BY <1>1, <1>5, <2>1, Unseen
    <2>2. CASE ~UNCHANGED <<round, ends>>
      <3>1. W = "done" /\ wait.out # "cancelled" /\ Finish
        BY <1>5, <2>2 DEF MDecides, MResumes
      <3> QED BY <1>1, <1>5, <3>1, FinishDelivers
    <2> QED BY <2>1, <2>2
  <1>6. CASE h.k \in {"set", "settle"} /\ Scheduled(h)
    <2>1. threaded /\ UNCHANGED <<round, ends>>
      BY <1>1, <1>6, ScheduledKeeps DEF Scheduled
    <2>2. raised' = raised \/ raised' = TRUE
      BY <1>6, TypeSplit DEF Scheduled, WaitInv, Small
    <2>3. CASE raised' = raised
      BY <1>1, <2>1, <2>3, Unseen
    <2>4. CASE raised' = TRUE
      BY <1>1, <2>1, <2>4 DEF Delivery!Upset
    <2> QED BY <2>2, <2>3, <2>4
  <1> QED BY <1>2, <1>3, <1>4, <1>5, <1>6 DEF RunHandle

\* The turn in which resolve or reject answers a call is the Tell of the abstract specification.
LEMMA AnswerDelivers ==
  ASSUME WaitInv, NEW c \in Calls, Resolve(c) \/ Reject(c)
  PROVE  Delivery!Tell(c)
  <1>1. /\ c \notin accepted \cup turned /\ arrived' = [arrived EXCEPT ![c] = round]
        /\ UNCHANGED <<threaded, round, ends, raised>>
        /\ \/ accepted' = accepted \cup {c} /\ turned' = turned
           \/ accepted' = accepted /\ turned' = turned \cup {c}
    <2>1. CASE Resolve(c)
      BY <2>1 DEF Resolve, jobVars
    <2>2. CASE Reject(c)
      BY <2>2 DEF Reject, jobVars
    <2> QED BY <2>1, <2>2
  <1>2. arrived[c] = 0
    BY <1>1 DEF WaitInv, CallsPlaced
  <1> QED BY <1>1, <1>2 DEF Delivery!Tell

\* CallbackManager and wait_through_pauses implement CallDelivery: a call ends one wait at
\* most, a refusal only the wait of the round it came in unless it came on a thread, and a
\* call set on a future that is done happens on a thread only.
THEOREM CallsAreDelivered == Spec => DeliversCalls
  <1>1. Init => Delivery!DeliveryInit
    BY DEF Init, Delivery!DeliveryInit
  <1>2. ASSUME WaitInv, [Next]_vars PROVE [Delivery!DeliveryNext]_(Delivery!dVars)
    <2>1. CASE RunHandle
      BY <1>2, <2>1, HandleDelivers DEF Delivery!DeliveryNext
    <2>2. CASE TimerFires \/ Tick \/ Arm \/ StartWait \/ Release \/ Pause \/ Resume
      <3>1. UNCHANGED <<threaded, accepted, turned, arrived, round, ends, raised>>
        BY <2>2 DEF TimerFires, Tick, Arm, StartWait, Release, Pause, Resume, callVars, jobVars
      <3> QED BY <3>1, Unseen
    <2>3. CASE SkipWait
      <3>1. Delivery!RoundOver
        BY <2>3 DEF SkipWait, callVars, jobVars, Delivery!RoundOver
      <3> QED BY <3>1 DEF Delivery!DeliveryNext
    <2>4. ASSUME NEW c \in Calls, Resolve(c) \/ Reject(c)
          PROVE  [Delivery!DeliveryNext]_(Delivery!dVars)
      BY <1>2, <2>4, AnswerDelivers DEF Delivery!DeliveryNext
    <2>5. CASE Over \/ UNCHANGED vars
      BY <2>5, Unseen DEF Over, vars
    <2> QED BY <1>2, <2>1, <2>2, <2>3, <2>4, <2>5 DEF Next, Loop
  <1> QED BY <1>1, <1>2, WaitInit, WaitNext, PTL DEF Spec, DeliversCalls, Delivery!DeliverySpec
=============================================================================
