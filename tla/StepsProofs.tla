------------------------------ MODULE StepsProofs ------------------------------
(***************************************************************************)
(* Proofs about the steps beside the negotiation: what the records of a    *)
(* run show (Secrets), the calls that are repeated (StepInvoke), what the  *)
(* references of a step come to (Resolution), the documents of APIs that   *)
(* are kept (ApiDocuments), the answers of an API that are judged and told *)
(* of (ApiCalls), and the offers a choice stands for (MarketSteps).        *)
(***************************************************************************)
EXTENDS Secrets, StepInvoke, Resolution, ApiCalls, MarketSteps, SequenceFilterProofs, FiniteSetTheorems, TLAPS

-----------------------------------------------------------------------------
(* Secrets: what is masked is what is registered, or is marked as out of date. *)

GoingType == [to : {"trace"}, shows : SUBSET Written, leak : SUBSET Written]
Windows == [owner : {"none", "loop", "worker"}, depth : Nat, held : Seq(Lines)]
EventType == [seq : Nat, id : (SUBSET Written) \X Nat]

\* The events of a trace with the same masked data.
Alike(t, shows) == {i \in DOMAIN t : t[i].id[1] = shows}

\* An event's occurrence is at most the number of events like it, its number its place, and no
\* two have the same id.
TrailFits(t) ==
    /\ \A i \in DOMAIN t : t[i].seq = i /\ t[i].id[2] <= Cardinality(Alike(t, t[i].id[1]))
    /\ \A i, k \in DOMAIN t : i < k => t[i].id # t[k].id

SecretsInv ==
    /\ stale \in {"yes", "no"} /\ (stale = "no" => pattern = Ought)
    /\ last = {}
    /\ going = NotGoing \/ (going \in GoingType /\ going.leak = {})
    /\ console \in Windows
    /\ console.owner = "none" => console.held = <<>>
    /\ trail \in Seq(EventType) /\ TrailFits(trail)

\* Whatever changed since, the forms a record is masked with are the ones it has to hide.
LEMMA CurrentIsOught == SecretsInv => Current = Ought
  <1>1. Range(kept_) \cup UNION {pins[j] : j \in Jobs} = Ought
    <2> DEFINE A == Range(kept_)
               B == UNION {pins[j] : j \in Jobs}
    <2>1. Ought = B \cup A BY DEF Ought
    <2> HIDE DEF A, B
    <2>2. A \cup B = Ought BY <2>1
    <2> QED BY <2>2 DEF A, B
  <1> QED BY <1>1 DEF SecretsInv, Current

\* An event more, numbered and told apart from those like it, fits as well.
LEMMA OneEventMore ==
  ASSUME NEW t \in Seq(EventType), TrailFits(t), NEW shows \in SUBSET Written,
         NEW e, e = [seq |-> Len(t) + 1, id |-> <<shows, 1 + Cardinality(Alike(t, shows))>>]
  PROVE  Append(t, e) \in Seq(EventType) /\ TrailFits(Append(t, e))
  <1> DEFINE u == Append(t, e)
  <1>1. \A sh : IsFiniteSet(Alike(t, sh)) /\ Cardinality(Alike(t, sh)) \in Nat
    <2> SUFFICES ASSUME NEW sh PROVE IsFiniteSet(Alike(t, sh)) /\ Cardinality(Alike(t, sh)) \in Nat
      OBVIOUS
    <2>1. IsFiniteSet(1..Len(t)) BY FS_Interval
    <2>2. Alike(t, sh) \subseteq 1..Len(t) BY DEF Alike
    <2> QED BY <2>1, <2>2, FS_Subset, FS_CardinalityType
  <1>2. e \in EventType /\ e.seq = Len(t) + 1 /\ e.id[1] = shows /\ e.id[2] = 1 + Cardinality(Alike(t, shows))
    BY <1>1 DEF EventType
  <1>3. u \in Seq(EventType) /\ DOMAIN u = 1..Len(t) + 1 /\ u[Len(t) + 1] = e /\ \A i \in 1..Len(t) : u[i] = t[i]
    BY <1>2
  <1>4. \A i \in DOMAIN t : i \in 1..Len(t) /\ t[i] \in EventType /\ t[i].id[2] \in Nat
    <2>1. \A i \in DOMAIN t : i \in 1..Len(t) /\ t[i] \in EventType OBVIOUS
    <2>2. \A x \in EventType : x.id[2] \in Nat BY DEF EventType
    <2> QED BY <2>1, <2>2
  <1> HIDE DEF u
  <1>5. \A sh : Alike(u, sh) = IF sh = shows THEN Alike(t, sh) \cup {Len(t) + 1} ELSE Alike(t, sh)
    BY <1>2, <1>3, <1>4 DEF Alike
  <1>6. \A sh : Cardinality(Alike(u, sh)) = IF sh = shows THEN Cardinality(Alike(t, sh)) + 1 ELSE Cardinality(Alike(t, sh))
    <2>1. \A sh : Len(t) + 1 \notin Alike(t, sh) BY <1>4 DEF Alike
    <2> QED BY <1>1, <1>5, <2>1, FS_AddElement
  <1>7. \A i \in DOMAIN u : u[i].seq = i /\ u[i].id[2] <= Cardinality(Alike(u, u[i].id[1]))
    <2> SUFFICES ASSUME NEW i \in DOMAIN u PROVE u[i].seq = i /\ u[i].id[2] <= Cardinality(Alike(u, u[i].id[1]))
      OBVIOUS
    <2>1. CASE i \in 1..Len(t)
      <3>1. u[i] = t[i] /\ i \in DOMAIN t BY <2>1, <1>3
      <3>2. t[i].seq = i /\ t[i].id[2] <= Cardinality(Alike(t, t[i].id[1])) BY <3>1 DEF TrailFits
      <3> QED BY <3>1, <3>2, <1>1, <1>4, <1>6
    <2>2. CASE i = Len(t) + 1
      BY <2>2, <1>1, <1>2, <1>3, <1>6
    <2> QED BY <2>1, <2>2, <1>3
  <1>8. \A i, k \in DOMAIN u : i < k => u[i].id # u[k].id
    <2> SUFFICES ASSUME NEW i \in DOMAIN u, NEW k \in DOMAIN u, i < k PROVE u[i].id # u[k].id
      OBVIOUS
    <2>1. i \in 1..Len(t) /\ u[i] = t[i] /\ i \in DOMAIN t BY <1>3
    <2>2. CASE k \in 1..Len(t)
      BY <2>1, <2>2, <1>3 DEF TrailFits
    <2>3. CASE k = Len(t) + 1
      <3>1. t[i].id[2] <= Cardinality(Alike(t, t[i].id[1])) BY <2>1 DEF TrailFits
      <3>2. t[i].id[1] = shows => t[i].id[2] # e.id[2] BY <3>1, <2>1, <1>1, <1>2, <1>4
      <3> QED BY <3>2, <2>1, <2>3, <1>2, <1>3
    <2> QED BY <2>2, <2>3, <1>3
  <1> QED BY <1>3, <1>7, <1>8 DEF TrailFits, u

\* The invariant of the masked values holds at the start.
LEMMA SecretsStart == SInit => SecretsInv
  <1> SUFFICES ASSUME SInit PROVE SecretsInv
    OBVIOUS
  <1>1. TrailFits(trail) /\ trail \in Seq(EventType) BY DEF SInit, TrailFits
  <1>2. console \in Windows /\ console.held = <<>>
    BY DEF SInit, NoWindow, Windows
  <1>3. Ought = {}
    <2>1. Range(kept_) = {} BY DEF SInit, Range
    <2>2. UNION {pins[j] : j \in Jobs} = {} BY DEF SInit
    <2> QED BY <2>1, <2>2 DEF Ought
  <1> QED BY <1>1, <1>2, <1>3 DEF SInit, SecretsInv

\* Of the steps that write a record: what it shows is none of what it had to hide.
LEMMA RecordsHide ==
  ASSUME SecretsInv
  PROVE  /\ \A f : Masked(f) \cap Ought = {}
         /\ \A f : f.name = "secret" => Redacted(f) = {}
  BY CurrentIsOught DEF Masked, Redacted

\* What a compiled pattern finds is what is registered.
LEMMA CompiledFits ==
  ASSUME SecretsInv, Compiled, UNCHANGED <<pins, kept_>>
  PROVE  stale' \in {"yes", "no"} /\ (stale' = "no" => pattern' = Ought')
  BY CurrentIsOught DEF Compiled, Ought

\* Each kind of registration marks the pattern as out of date and leaves the records alone.
LEMMA RegistersFit ==
  ASSUME SecretsInv, stale' = "yes", UNCHANGED <<going, trail, last, console>>
  PROVE  SecretsInv'
  BY DEF SecretsInv

\* Every step keeps the invariant of the masked values.
LEMMA SecretsHold == SecretsInv /\ [SNext]_sVars => SecretsInv'
  <1> SUFFICES ASSUME SecretsInv, [SNext]_sVars PROVE SecretsInv'
    OBVIOUS
  <1>1. ASSUME EmitWrites PROVE SecretsInv'
    <2>1. going \in GoingType /\ going.leak = {} /\ going.shows \in SUBSET Written
      BY <1>1 DEF EmitWrites, SecretsInv, NotGoing, GoingType
    <2> DEFINE e == [seq |-> Len(trail) + 1, id |-> <<going.shows, 1 + Cardinality(Alike(trail, going.shows))>>]
    <2>2. trail' = Append(trail, e)
      BY <1>1 DEF EmitWrites, OccurrenceOf, Alike
    <2>3. trail \in Seq(EventType) /\ TrailFits(trail) BY DEF SecretsInv
    <2>4. e = [seq |-> Len(trail) + 1, id |-> <<going.shows, 1 + Cardinality(Alike(trail, going.shows))>>]
      OBVIOUS
    <2> HIDE DEF e
    <2>5. trail' \in Seq(EventType) /\ TrailFits(trail')
      BY <2>1, <2>2, <2>3, <2>4, OneEventMore
    <2>6. last' = {} /\ going' = NotGoing /\ UNCHANGED <<pins, kept_, pattern, stale, console>>
      BY <1>1, <2>1 DEF EmitWrites
    <2> QED BY <2>5, <2>6 DEF SecretsInv, Ought
  <1>2. ASSUME NEW j \in Jobs, ReleaseRun(j) PROVE SecretsInv'
    BY <1>2, RegistersFit DEF ReleaseRun
  <1>3. ASSUME NEW t \in Tokens, RegisterForProcess(t) PROVE SecretsInv'
    BY <1>3, RegistersFit DEF RegisterForProcess
  <1>4. ASSUME NEW j \in Jobs, NEW t \in Tokens, TokenRequest(j, t) \/ BasicAuth(j, t) \/ Base64(j, t) \/ ApiKeyOutput(j, t)
        PROVE SecretsInv'
    BY <1>4, RegistersFit DEF TokenRequest, BasicAuth, Base64, ApiKeyOutput, Pin
  <1>5. ASSUME NEW j \in Jobs, NEW t \in Tokens, NEW x \in {"yes", "no"}, RegisterSecret(j, t, x) PROVE SecretsInv'
    BY <1>5, RegistersFit DEF RegisterSecret, Pin
  <1>6. ASSUME NEW f \in Field, Exchange(f) PROVE SecretsInv'
    <2>1. last' = {} BY <1>6, RecordsHide DEF Exchange
    <2> QED BY <1>6, <2>1 DEF Exchange, SecretsInv, Ought
  <1>7. ASSUME NEW f \in Lines, EmitMasks(f) PROVE SecretsInv'
    <2>1. Masked(f) \in SUBSET Written /\ Masked(f) \cap Ought = {}
      BY RecordsHide DEF Masked, Lines, Written
    <2>2. going' \in GoingType /\ going'.leak = {}
      BY <1>7, <2>1 DEF EmitMasks, GoingType
    <2>3. stale' \in {"yes", "no"} /\ (stale' = "no" => pattern' = Ought')
      BY <1>7, CompiledFits DEF EmitMasks
    <2>4. UNCHANGED <<trail, last, console>> BY <1>7 DEF EmitMasks
    <2> QED BY <2>2, <2>3, <2>4 DEF SecretsInv
  <1>8. ASSUME NEW j \in Jobs, NEW f \in Field, AsKept(j, f) PROVE SecretsInv'
    <2>1. last' = {} BY <1>8, RecordsHide DEF AsKept, Redacted
    <2>2. stale' \in {"yes", "no"} /\ (stale' = "no" => pattern' = Ought')
      BY <1>8, CompiledFits DEF AsKept
    <2>3. UNCHANGED <<trail, going, console>> BY <1>8 DEF AsKept
    <2> QED BY <2>1, <2>2, <2>3 DEF SecretsInv
  <1>9. ASSUME NEW th_ \in {"loop", "worker"}, NEW f \in Lines, LogLine(th_, f) PROVE SecretsInv'
    <2>1. UNCHANGED <<pins, kept_, going, trail>> BY <1>9 DEF LogLine
    <2>2. CASE console.owner \notin {"none", th_}
      <3>1. console' = [console EXCEPT !.held = Append(@, f)] /\ UNCHANGED <<last, pattern, stale>>
        BY <1>9, <2>2 DEF LogLine
      <3>2. console' \in Windows /\ console'.owner = console.owner
        <4>1. console \in Windows BY DEF SecretsInv
        <4>2. Append(console.held, f) \in Seq(Lines) BY <4>1 DEF Windows
        <4> QED BY <3>1, <4>1, <4>2 DEF Windows
      <3> QED BY <2>1, <2>2, <3>1, <3>2 DEF SecretsInv, Ought
    <2>3. CASE console.owner \in {"none", th_}
      <3>1. last' = {} /\ UNCHANGED console BY <1>9, <2>3, RecordsHide DEF LogLine
      <3>2. stale' \in {"yes", "no"} /\ (stale' = "no" => pattern' = Ought')
        BY <1>9, <2>1, <2>3, CompiledFits DEF LogLine
      <3> QED BY <2>1, <3>1, <3>2 DEF SecretsInv
    <2> QED BY <2>2, <2>3
  <1>10. ASSUME WindowOpens("loop") PROVE SecretsInv'
    <2>1. console' = [console EXCEPT !.owner = "loop", !.depth = @ + 1] /\ UNCHANGED <<pins, kept_, pattern, stale, going, trail, last>>
      BY <1>10 DEF WindowOpens
    <2>2. console' \in Windows /\ console'.owner = "loop"
      <3>1. console \in Windows BY DEF SecretsInv
      <3>2. console.depth + 1 \in Nat /\ console.held \in Seq(Lines) BY <3>1 DEF Windows
      <3>3. console' = [owner |-> "loop", depth |-> console.depth + 1, held |-> console.held] BY <2>1, <3>1 DEF Windows
      <3> QED BY <3>2, <3>3 DEF Windows
    <2> QED BY <2>1, <2>2 DEF SecretsInv, Ought
  <1>11. ASSUME WindowCloses("loop") PROVE SecretsInv'
    <2>1. UNCHANGED <<pins, kept_, going, trail>> BY <1>11 DEF WindowCloses
    <2>2. CASE console.depth > 1
      <3>1. console' = [console EXCEPT !.depth = @ - 1] /\ UNCHANGED <<last, pattern, stale>> /\ console.owner = "loop"
        BY <1>11, <2>2 DEF WindowCloses
      <3>2. console' \in Windows /\ console'.owner = "loop"
        <4>1. console \in Windows BY DEF SecretsInv
        <4> QED BY <2>2, <3>1, <4>1 DEF Windows
      <3> QED BY <2>1, <3>1, <3>2 DEF SecretsInv, Ought
    <2>3. CASE ~(console.depth > 1)
      <3>1. console' = NoWindow /\ Compiled /\ last' = (UNION {Masked(f) : f \in Range(console.held)}) \cap Ought
        BY <1>11, <2>3 DEF WindowCloses
      <3>2. last' = {}
        <4>1. \A f : Masked(f) \cap Ought = {} BY RecordsHide
        <4>2. \A x \in UNION {Masked(f) : f \in Range(console.held)} : x \notin Ought
          <5> SUFFICES ASSUME NEW x, NEW f \in Range(console.held), x \in Masked(f) PROVE x \notin Ought
            OBVIOUS
          <5> QED BY <4>1
        <4> DEFINE A == UNION {Masked(f) : f \in Range(console.held)}
        <4>3. last' = A \cap Ought BY <3>1
        <4> HIDE DEF A
        <4>4. \A x \in A : x \notin Ought BY <4>2 DEF A
        <4> QED BY <4>3, <4>4
      <3>3. stale' \in {"yes", "no"} /\ (stale' = "no" => pattern' = Ought')
        BY <2>1, <3>1, CompiledFits
      <3>4. console' \in Windows /\ console'.held = <<>>
        BY <3>1 DEF NoWindow, Windows
      <3> QED BY <2>1, <3>2, <3>3, <3>4 DEF SecretsInv
    <2> QED BY <2>2, <2>3
  <1>12. ASSUME UNCHANGED sVars PROVE SecretsInv'
    BY <1>12 DEF sVars, SecretsInv, Ought
  <1> QED BY <1>1, <1>2, <1>3, <1>4, <1>5, <1>6, <1>7, <1>8, <1>9, <1>10, <1>11, <1>12 DEF SNext

\* No record of a run shows a registered value (logging/masking, wire, _tee, ExecutionTrace.emit):
\* whatever is registered, released or evicted between, the pattern a record is masked with is
\* marked as out of date or is the one of everything registered; and the ids of a trace differ.
THEOREM NoSecretIsWritten == SSpec => []NoSecretWritten
  <1>1. SecretsInv => NoSecretWritten
    <2> SUFFICES ASSUME SecretsInv PROVE NoSecretWritten
      OBVIOUS
    <2>1. \A i, k \in DOMAIN trail : i < k => trail[i].id # trail[k].id /\ trail[i].seq < trail[k].seq
      BY DEF SecretsInv, TrailFits
    <2> QED BY <2>1 DEF SecretsInv, NoSecretWritten
  <1> QED BY SecretsStart, SecretsHold, <1>1, PTL DEF SSpec

-----------------------------------------------------------------------------
(* StepInvoke: repeated calls, and queries page by page. *)

\* A sequence that has nothing twice.
Once(s) == \A i, j \in 1..Len(s) : s[i] = s[j] => i = j

Invocations == [at : {"idle", "call", "sleep", "refused"}, tries : Nat, max : Nat \ {0}, on : SUBSET Nat]
Queries == [at : {"idle", "asking"}, pages : Nat, ids : Seq(Nat), still : {"yes", "no"}]

\* The pages read so far were full, and the ids are the entries on them.
PagesFit(q, all) ==
    /\ q.pages < QueryPages /\ q.pages * QueryPage <= Len(all)
    /\ q.ids = SubSeq(all, 1, q.pages * QueryPage)

RepeatsInv ==
    /\ inv \in Invocations
    /\ inv.tries <= inv.max /\ (inv.at # "idle" => inv.tries < inv.max)
    /\ inv.at = "idle" /\ said_ = "output" => /\ inv.tries < inv.max => got.status \notin inv.on
                                              /\ \A f \in got.fields : ctxt[f] = inv.tries
    /\ entries \in Seq(Nat) /\ Once(entries) /\ query \in Queries
    /\ query.at = "asking" /\ query.still = "yes" => PagesFit(query, entries)
    /\ said_ = "listed" => query.at = "idle"
    /\ said_ = "listed" /\ query.still = "yes" /\ Len(entries) <= QueryPage * QueryPages => query.ids = entries

\* The smaller of two numbers.
LEMMA MinOfTwo ==
  ASSUME NEW m \in Nat, NEW n \in Nat
  PROVE  Min({m, n}) = IF m <= n THEN m ELSE n
  <1> DEFINE x == IF m <= n THEN m ELSE n
  <1>1. x \in {m, n} /\ \A y \in {m, n} : x <= y
    OBVIOUS
  <1>2. \A z \in {m, n} : (\A y \in {m, n} : z <= y) => z = x
    OBVIOUS
  <1> HIDE DEF x
  <1>3. Min({m, n}) = x
    BY <1>1, <1>2 DEF Min
  <1> QED BY <1>3 DEF x

\* The page of a query that goes undisturbed follows the ids it has, and is new to them.
LEMMA PageFollows ==
  ASSUME NEW all \in Seq(Nat), Once(all), NEW lo \in Nat, NEW hi \in Nat, lo <= hi, hi <= Len(all)
  PROVE  /\ Filter(SubSeq(all, lo + 1, hi), Range(all) \ Range(SubSeq(all, 1, lo))) = SubSeq(all, lo + 1, hi)
         /\ SubSeq(all, 1, lo) \o SubSeq(all, lo + 1, hi) = SubSeq(all, 1, hi)
  <1> DEFINE p == SubSeq(all, lo + 1, hi)
             b == SubSeq(all, 1, lo)
             S == Range(all) \ Range(b)
             n == Len(all)
  <1>0. n \in Nat /\ hi <= n /\ lo <= n /\ DOMAIN all = 1..n
    OBVIOUS
  <1>1. p \in Seq(Nat) /\ Len(p) = hi - lo /\ \A i \in 1..(hi - lo) : p[i] = all[lo + i]
    BY SliceIs
  <1>2. b \in Seq(Nat) /\ Len(b) = lo /\ \A i \in 1..lo : b[i] = all[i]
    BY <1>0, HeadIs
  <1>3. b \o p = SubSeq(all, 1, hi)
    <2>1. 1 \in 1..Len(all) + 1 /\ lo \in 1 - 1..Len(all) /\ hi \in lo..Len(all) BY <1>0
    <2> QED BY <2>1, ConcatAdjacentSubSeq
  <1>4. \A i, j \in 1..n : all[i] = all[j] => i = j
    BY DEF Once
  <1> HIDE DEF p, b, n
  <1>5. ASSUME NEW i \in 1..Len(p) PROVE p[i] \in S
    <2>1. p[i] = all[lo + i] /\ lo + i \in 1..n
      <3>1. i \in 1..(hi - lo) BY <1>1
      <3>2. lo + i \in 1..n BY <1>0, <3>1
      <3> QED BY <1>1, <3>1, <3>2
    <2>2. p[i] \in Range(all) BY <1>0, <2>1 DEF Range
    <2>3. ASSUME NEW j \in 1..lo, b[j] = p[i] PROVE FALSE
      <3>1. j \in 1..n /\ j # lo + i BY <1>0
      <3>2. all[j] = all[lo + i] BY <1>2, <2>1, <2>3
      <3> QED BY <1>4, <3>1, <3>2, <2>1
    <2>4. DOMAIN b = 1..lo BY <1>2
    <2>5. p[i] \notin Range(b) BY <2>3, <2>4 DEF Range
    <2> QED BY <2>2, <2>5
  <1> HIDE DEF S
  <1>6. Filter(p, S) = p
    BY <1>1, <1>5, FilterAll
  <1> QED BY <1>3, <1>6 DEF p, b, S

\* Without one of its entries a sequence still has nothing twice.
LEMMA OnceWithout ==
  ASSUME NEW all \in Seq(Nat), Once(all), NEW k \in DOMAIN all
  PROVE  RemoveAt(all, k) \in Seq(Nat) /\ Once(RemoveAt(all, k))
  <1> DEFINE n == Len(all)
             m == k - 1
             b == SubSeq(all, 1, m)
             p == SubSeq(all, k + 1, n)
             r == b \o p
             h(i) == IF i <= m THEN i ELSE i + 1
  <1>0. n \in Nat /\ k \in 1..n /\ m \in Nat /\ m <= n /\ k \in Nat /\ k <= n /\ m + 1 = k
    OBVIOUS
  <1>1. b \in Seq(Nat) /\ Len(b) = m /\ \A i \in 1..m : b[i] = all[i]
    <2> HIDE DEF m
    <2> QED BY <1>0, HeadIs DEF n
  <1>2. p \in Seq(Nat) /\ Len(p) = n - k /\ \A i \in 1..(n - k) : p[i] = all[k + i]
    <2>1. n <= Len(all) /\ k <= n /\ k \in Nat /\ n \in Nat BY <1>0
    <2> HIDE DEF n, m
    <2> QED BY <2>1, SliceIs
  <1>3. RemoveAt(all, k) = r
    BY DEF RemoveAt
  <1>4. \A i, j \in 1..n : all[i] = all[j] => i = j
    BY DEF Once
  <1> HIDE DEF b, p, n, m
  <1>5. r \in Seq(Nat) /\ Len(r) = m + (n - k) /\ \A i \in 1..Len(r) : r[i] = IF i <= Len(b) THEN b[i] ELSE p[i - Len(b)]
    <2>1. /\ r \in Seq(Nat) /\ Len(r) = Len(b) + Len(p)
          /\ \A i \in 1..Len(b) + Len(p) : r[i] = IF i <= Len(b) THEN b[i] ELSE p[i - Len(b)]
      BY <1>1, <1>2, ConcatProperties
    <2> HIDE DEF r
    <2> QED BY <2>1, <1>1, <1>2
  <1> HIDE DEF r
  <1>6. ASSUME NEW i \in 1..Len(r) PROVE r[i] = all[h(i)] /\ h(i) \in 1..n
    <2>1. i \in 1..(m + (n - k)) BY <1>5
    <2>2. CASE i <= m
      <3>1. i \in 1..m /\ i \in 1..n BY <2>1, <2>2, <1>0
      <3> QED BY <2>2, <3>1, <1>1, <1>5
    <2>3. CASE ~(i <= m)
      <3>1. i - m \in 1..(n - k) /\ k + (i - m) = i + 1 /\ i + 1 \in 1..n
        BY SMTT(60), <2>1, <2>3, <1>0
      <3>2. r[i] = p[i - m] BY <2>3, <1>1, <1>5
      <3>3. p[i - m] = all[i + 1] BY <3>1, <1>2
      <3> QED BY <2>3, <3>1, <3>2, <3>3
    <2> QED BY <2>2, <2>3
  <1>7. ASSUME NEW i \in 1..Len(r), NEW j \in 1..Len(r), h(i) = h(j) PROVE i = j
    BY <1>0, <1>7
  <1> HIDE DEF h
  <1>8. Once(r)
    BY <1>4, <1>6, <1>7 DEF Once
  <1> QED BY <1>3, <1>5, <1>8

\* The invariant of the repeated calls holds at the start.
LEMMA RepeatsStart == IInit => RepeatsInv
  <1> SUFFICES ASSUME IInit PROVE RepeatsInv
    OBVIOUS
  <1>1. PICK n \in 0..MaxEntries : entries = [k \in 1..n |-> k]
    BY DEF IInit
  <1>2. n \in Nat /\ \A k \in 1..n : k \in Nat
    BY InvokeAssumption
  <1>3. entries \in Seq(Nat) /\ Len(entries) = n /\ \A k \in 1..n : entries[k] = k
    BY <1>1, <1>2
  <1>4. Once(entries)
    BY <1>3 DEF Once
  <1>5. inv \in Invocations /\ query \in Queries
    BY DEF IInit, NoCall, Unasked, Invocations, Queries
  <1> QED BY <1>3, <1>4, <1>5 DEF IInit, RepeatsInv, NoCall, Unasked

\* The next page of a query, its ids with it, and what they come to if nobody disturbs it.
PageOf(q, all) == SubSeq(all, q.pages * QueryPage + 1, Min({(q.pages + 1) * QueryPage, Len(all)}))
IdsWith(q, all) == q.ids \o Filter(PageOf(q, all), Range(all) \ Range(q.ids))
OneMore(q, all) ==
    /\ Len(PageOf(q, all)) = QueryPage =>
          /\ (q.pages + 1) * QueryPage <= Len(all)
          /\ IdsWith(q, all) = SubSeq(all, 1, (q.pages + 1) * QueryPage)
    /\ Len(PageOf(q, all)) # QueryPage \/ q.pages + 1 >= QueryPages
          => (Len(all) <= QueryPage * QueryPages => IdsWith(q, all) = all)

\* Where a page of p entries of n, from lo on, ends.
LEMMA PageEnds ==
  ASSUME NEW lo \in Nat, NEW n \in Nat, NEW p \in Nat, lo <= n,
         NEW up, up = lo + p, NEW hi, hi = IF up <= n THEN up ELSE n
  PROVE  /\ hi \in Nat /\ lo <= hi /\ hi <= n
         /\ hi - lo = p => up <= n /\ hi = up
         /\ hi - lo # p \/ n <= up => hi = n
  OBVIOUS

\* One page more of a query adds what is next and nothing twice.
LEMMA OnePageMore ==
  ASSUME NEW q \in Queries, NEW all \in Seq(Nat), Once(all), PagesFit(q, all)
  PROVE  OneMore(q, all)
  <1> DEFINE lo == q.pages * QueryPage
             up == (q.pages + 1) * QueryPage
             n == Len(all)
             hi == Min({up, n})
             page_ == PageOf(q, all)
             ids == IdsWith(q, all)
  <1>1. q.pages \in Nat /\ QueryPage \in Nat \ {0} /\ QueryPages \in Nat \ {0}
    BY InvokeAssumption DEF Queries
  <1>2. lo \in Nat /\ up = lo + QueryPage /\ up \in Nat
    BY <1>1
  <1>3. n \in Nat /\ lo <= n
    BY DEF PagesFit
  <1>4. hi = IF up <= n THEN up ELSE n
    BY <1>2, <1>3, MinOfTwo
  <1>5. q.pages + 1 >= QueryPages => up = QueryPage * QueryPages
    <2>1. q.pages < QueryPages BY DEF PagesFit
    <2>2. q.pages + 1 >= QueryPages => q.pages + 1 = QueryPages BY <1>1, <2>1
    <2> QED BY <2>2, <1>1
  <1>6. q.ids = SubSeq(all, 1, lo) /\ page_ = SubSeq(all, lo + 1, hi) /\ ids = q.ids \o Filter(page_, Range(all) \ Range(q.ids))
    BY DEF PagesFit, PageOf, IdsWith
  <1>7. n = Len(all)
    OBVIOUS
  <1> HIDE DEF lo, up, hi, n, page_, ids
  <1>8. /\ hi \in Nat /\ lo <= hi /\ hi <= n
        /\ hi - lo = QueryPage => up <= n /\ hi = up
        /\ hi - lo # QueryPage \/ n <= up => hi = n
    BY <1>1, <1>2, <1>3, <1>4, PageEnds
  <1>9. Len(page_) = hi - lo
    <2>1. hi <= Len(all) /\ lo \in Nat /\ hi \in Nat /\ lo <= hi BY <1>2, <1>7, <1>8
    <2>2. Len(SubSeq(all, lo + 1, hi)) = hi - lo BY <2>1, SliceIs
    <2> QED BY <2>2, <1>6
  <1>10. ids = SubSeq(all, 1, hi)
    <2>1. hi <= Len(all) /\ lo \in Nat /\ hi \in Nat /\ lo <= hi BY <1>2, <1>7, <1>8
    <2>2. /\ Filter(SubSeq(all, lo + 1, hi), Range(all) \ Range(SubSeq(all, 1, lo))) = SubSeq(all, lo + 1, hi)
          /\ SubSeq(all, 1, lo) \o SubSeq(all, lo + 1, hi) = SubSeq(all, 1, hi)
      BY <2>1, PageFollows
    <2> QED BY <2>2, <1>6
  <1>11. hi = n => ids = all
    <2>1. SubSeq(all, 1, Len(all)) = all BY SubSeqFull
    <2> QED BY <2>1, <1>7, <1>10
  <1>12. Len(page_) = QueryPage => up <= n /\ ids = SubSeq(all, 1, up)
    BY <1>8, <1>9, <1>10
  <1>13. Len(page_) # QueryPage \/ q.pages + 1 >= QueryPages => (n <= QueryPage * QueryPages => ids = all)
    BY <1>5, <1>8, <1>9, <1>11
  <1> QED BY <1>12, <1>13 DEF OneMore, up, n, page_, ids

\* One call more, and one page more, have their types.
Called(v, w) == [v EXCEPT !.tries = @ + 1, !.at = w]
Paged(q, ids, w) == [q EXCEPT !.pages = @ + 1, !.ids = ids, !.at = w]
\* One call more of an invocation is counted, and nothing else of it changes.
LEMMA OneCallMore ==
  \A v \in Invocations, w \in {"idle", "call", "sleep", "refused"} :
     /\ Called(v, w) \in Invocations /\ Called(v, w).tries = v.tries + 1 /\ Called(v, w).max = v.max
     /\ Called(v, w).on = v.on /\ Called(v, w).at = w
  <1> SUFFICES ASSUME NEW v \in Invocations, NEW w \in {"idle", "call", "sleep", "refused"}
               PROVE  /\ Called(v, w) \in Invocations /\ Called(v, w).tries = v.tries + 1 /\ Called(v, w).max = v.max
                      /\ Called(v, w).on = v.on /\ Called(v, w).at = w
    OBVIOUS
  <1>1. v.tries + 1 \in Nat /\ v.max \in Nat \ {0} /\ v.on \in SUBSET Nat
    BY DEF Invocations
  <1>2. v \in [at : {"idle", "call", "sleep", "refused"}, tries : Nat, max : Nat \ {0}, on : SUBSET Nat]
    BY DEF Invocations
  <1>3. /\ Called(v, w).tries = v.tries + 1 /\ Called(v, w).max = v.max
        /\ Called(v, w).on = v.on /\ Called(v, w).at = w
    BY <1>2 DEF Called
  <1>4. Called(v, w) \in [at : {"idle", "call", "sleep", "refused"}, tries : Nat, max : Nat \ {0}, on : SUBSET Nat]
    BY <1>1, <1>2 DEF Called
  <1> QED BY <1>3, <1>4 DEF Invocations

\* A page that is told is counted, and nothing else of the query changes.
LEMMA PageTold ==
  \A q \in Queries, ids \in Seq(Nat), w \in {"idle", "asking"} :
     /\ Paged(q, ids, w) \in Queries /\ Paged(q, ids, w).pages = q.pages + 1 /\ Paged(q, ids, w).ids = ids
     /\ Paged(q, ids, w).still = q.still /\ Paged(q, ids, w).at = w
  <1> SUFFICES ASSUME NEW q \in Queries, NEW ids \in Seq(Nat), NEW w \in {"idle", "asking"}
               PROVE  /\ Paged(q, ids, w) \in Queries /\ Paged(q, ids, w).pages = q.pages + 1 /\ Paged(q, ids, w).ids = ids
                      /\ Paged(q, ids, w).still = q.still /\ Paged(q, ids, w).at = w
    OBVIOUS
  <1>1. q.pages + 1 \in Nat /\ q.still \in {"yes", "no"}
    BY DEF Queries
  <1>2. q \in [at : {"idle", "asking"}, pages : Nat, ids : Seq(Nat), still : {"yes", "no"}]
    BY DEF Queries
  <1>3. /\ Paged(q, ids, w).pages = q.pages + 1 /\ Paged(q, ids, w).ids = ids
        /\ Paged(q, ids, w).still = q.still /\ Paged(q, ids, w).at = w
    BY <1>2 DEF Paged
  <1>4. Paged(q, ids, w) \in [at : {"idle", "asking"}, pages : Nat, ids : Seq(Nat), still : {"yes", "no"}]
    BY <1>1, <1>2 DEF Paged
  <1> QED BY <1>3, <1>4 DEF Queries

\* Every step keeps the invariant of the repeated calls.
LEMMA RepeatsHold == RepeatsInv /\ [INext]_iVars => RepeatsInv'
  <1> SUFFICES ASSUME RepeatsInv, [INext]_iVars PROVE RepeatsInv'
    OBVIOUS
  <1>0. inv \in Invocations /\ query \in Queries /\ NoCall \in Invocations /\ Unasked \in Queries
    BY DEF RepeatsInv, NoCall, Unasked, Invocations, Queries
  <1>1. ASSUME NEW raw, NEW max \in 2..MaxAttempts, NEW on \in {{404}, {404, 503}}, InvokeExtended(raw, max, on)
        PROVE RepeatsInv'
    <2>1. inv' \in Invocations /\ inv'.tries = 0 /\ inv'.max > 0
      <3>1. max \in Nat \ {0} /\ on \in SUBSET Nat
        BY InvokeAssumption
      <3>2. CASE Colliding # {}
        BY <1>0, <1>1, <3>2 DEF InvokeExtended, NoCall
      <3>3. CASE ~(Colliding # {})
        BY <1>1, <3>1, <3>3 DEF InvokeExtended, Invocations
      <3> QED BY <3>2, <3>3
    <2>2. said_' \in {"engine_error", "none"} /\ UNCHANGED <<entries, query>> /\ query.at = "idle"
      BY <1>1 DEF InvokeExtended
    <2> QED BY <2>1, <2>2 DEF RepeatsInv, Invocations
  <1>2. ASSUME Refused PROVE RepeatsInv'
    BY <1>0, <1>2 DEF Refused, RepeatsInv, NoCall
  <1>3. ASSUME SleepOver PROVE RepeatsInv'
    <2>1. inv' \in Invocations /\ inv'.at = "call" /\ inv'.tries = inv.tries /\ inv'.max = inv.max
      BY <1>0, <1>3 DEF SleepOver, Invocations
    <2> QED BY <1>3, <2>1 DEF SleepOver, RepeatsInv
  <1>4. ASSUME StartQuery PROVE RepeatsInv'
    <2>1. query' = [Unasked EXCEPT !.at = "asking"] /\ inv' = NoCall /\ said_' = "none" /\ UNCHANGED entries
      BY <1>4 DEF StartQuery
    <2>2. query' \in Queries /\ query'.pages = 0 /\ query'.ids = <<>>
      BY <1>0, <2>1 DEF Unasked, Queries
    <2>3. PagesFit(query', entries)
      <3>1. 0 * QueryPage = 0 /\ 0 < QueryPages /\ SubSeq(entries, 1, 0) = <<>>
        BY InvokeAssumption, SubSeqEmpty
      <3>2. Len(entries) \in Nat BY DEF RepeatsInv
      <3> QED BY <2>2, <3>1, <3>2 DEF PagesFit
    <2> QED BY <1>0, <2>1, <2>2, <2>3 DEF RepeatsInv, NoCall
  <1>5. ASSUME NEW status \in {200, 404, 503}, NEW fields \in SUBSET Fields, CallAnswers(status, fields) PROVE RepeatsInv'
    <2>1. /\ inv.at = "call" /\ got' = [status |-> status, fields |-> fields]
          /\ inv' = [inv EXCEPT !.tries = @ + 1, !.at = IF Again(status) THEN "sleep" ELSE "idle"]
          /\ ctxt' = PublishOutput(fields, inv.tries + 1)
          /\ said_' = (IF Again(status) THEN "none" ELSE "output") /\ UNCHANGED <<entries, query>>
      BY <1>5 DEF CallAnswers
    <2>2. inv' \in Invocations /\ inv'.tries = inv.tries + 1 /\ inv'.max = inv.max /\ inv'.on = inv.on
          /\ inv'.at = IF Again(status) THEN "sleep" ELSE "idle"
      <3>1. (IF Again(status) THEN "sleep" ELSE "idle") \in {"idle", "call", "sleep", "refused"}
        OBVIOUS
      <3>2. inv' = Called(inv, IF Again(status) THEN "sleep" ELSE "idle")
        BY <2>1 DEF Called
      <3> DEFINE w == IF Again(status) THEN "sleep" ELSE "idle"
      <3>3. inv' = Called(inv, w) /\ w \in {"idle", "call", "sleep", "refused"}
        BY <3>1, <3>2
      <3> HIDE DEF w
      <3>4. inv' \in Invocations /\ inv'.tries = inv.tries + 1 /\ inv'.max = inv.max /\ inv'.on = inv.on /\ inv'.at = w
        BY <1>0, <3>3, OneCallMore
      <3> QED BY <3>4 DEF w
    <2>3. inv.tries < inv.max /\ inv.tries \in Nat /\ inv.max \in Nat
      BY <1>0, <2>1 DEF RepeatsInv, Invocations
    <2>4. inv'.tries <= inv'.max /\ (inv'.at # "idle" => inv'.tries < inv'.max)
      BY <2>2, <2>3 DEF Again
    <2>5. ~Again(status) => (inv'.tries < inv'.max => got'.status \notin inv'.on)
      BY <2>1, <2>2, <2>3 DEF Again
    <2>6. \A f \in got'.fields : ctxt'[f] = inv'.tries
      BY <2>1, <2>2 DEF PublishOutput
    <2>7. said_' = "output" => ~Again(status)
      BY <2>1
    <2>8. said_' # "listed"
      BY <2>1
    <2> QED BY <2>1, <2>2, <2>4, <2>5, <2>6, <2>7, <2>8 DEF RepeatsInv
  <1>6. ASSUME NEW why \in {"connector_error", "wrong_model"} \cup {Bounded(size, 1) : size \in 2..2}, CallRaises(why)
        PROVE RepeatsInv'
    <2>1. why \notin {"output", "listed"}
      BY DEF Bounded
    <2>2. inv' \in Invocations /\ inv'.tries = inv.tries + 1 /\ inv'.max = inv.max /\ inv'.at = "idle" /\ inv.at = "call"
      <3>1. inv' = [inv EXCEPT !.tries = @ + 1, !.at = "idle"] /\ inv.at = "call"
        BY <1>6 DEF CallRaises
      <3>2. inv' = Called(inv, "idle")
        BY <3>1 DEF Called
      <3> QED BY <1>0, <3>1, <3>2, OneCallMore
    <2>3. inv.tries < inv.max /\ inv.tries \in Nat /\ inv.max \in Nat
      BY <1>0, <2>2 DEF RepeatsInv, Invocations
    <2> QED BY <1>6, <2>1, <2>2, <2>3 DEF CallRaises, RepeatsInv
  <1>7. ASSUME NEW d, NEW a, NEW t, SendNotification(d, a, t) PROVE RepeatsInv'
    <2>1. inv' = [NoCall EXCEPT !.tries = 1] /\ query.at = "idle" /\ UNCHANGED <<entries, query>>
      BY <1>7 DEF SendNotification
    <2>2. inv' \in Invocations /\ inv'.tries = 1 /\ inv'.max = 1 /\ inv'.at = "idle"
      BY <1>0, <2>1 DEF NoCall, Invocations
    <2>3. said_' = "failed" \/ (said_' = "output" /\ got'.fields = {})
      BY <1>7 DEF SendNotification
    <2> QED BY <2>1, <2>2, <2>3 DEF RepeatsInv
  <1>8. ASSUME NEW ok \in {"yes", "no"}, QueryAnswers(ok) PROVE RepeatsInv'
    <2> DEFINE page_ == PageAt(query.pages)
               more == Len(page_) = QueryPage /\ query.pages + 1 < QueryPages
               ids == query.ids \o Filter(page_, Range(entries) \ Range(query.ids))
    <2>1. query.at = "asking" /\ UNCHANGED <<inv, got, ctxt, entries>>
      BY <1>8 DEF QueryAnswers
    <2>2. CASE ok = "no"
      <3>1. query' = [Unasked EXCEPT !.still = "no"] /\ said_' = "failed"
        BY <1>8, <2>2 DEF QueryAnswers
      <3>2. query' \in Queries /\ query'.at = "idle"
        BY <1>0, <3>1 DEF Unasked, Queries
      <3> QED BY <2>1, <3>1, <3>2 DEF RepeatsInv
    <2>3. CASE ok = "yes"
      <3>1. /\ query' = [query EXCEPT !.pages = @ + 1, !.ids = ids, !.at = IF more THEN "asking" ELSE "idle"]
            /\ said_' = IF more THEN "none" ELSE "listed"
        BY <1>8, <2>3 DEF QueryAnswers
      <3>2. ids \in Seq(Nat)
        <4>1. page_ \in Seq(Nat)
          <5> DEFINE lo == query.pages * QueryPage
                     up == (query.pages + 1) * QueryPage
                     n == Len(entries)
          <5>1. entries \in Seq(Nat) /\ lo \in Nat /\ up \in Nat /\ n \in Nat
            BY <1>0, InvokeAssumption DEF RepeatsInv, Queries
          <5>2. Min({up, n}) = IF up <= n THEN up ELSE n
            BY <5>1, MinOfTwo
          <5>3. page_ = SubSeq(entries, lo + 1, Min({up, n}))
            BY DEF PageAt
          <5> HIDE DEF lo, up
          <5>4. \A i \in (lo + 1)..Min({up, n}) : entries[i] \in Nat
            BY <5>1, <5>2
          <5> HIDE DEF page_
          <5>5. lo + 1 \in Int /\ Min({up, n}) \in Int
            BY <5>1, <5>2
          <5> QED BY <5>3, <5>4, <5>5, SubSeqProperties
        <4> HIDE DEF page_
        <4>2. Filter(page_, Range(entries) \ Range(query.ids)) \in Seq(Nat)
          BY <4>1, FilterFacts
        <4> QED BY <1>0, <4>2 DEF Queries
      <3>3. query.still = "yes" =>
              /\ Len(page_) = QueryPage => /\ (query.pages + 1) * QueryPage <= Len(entries)
                                          /\ ids = SubSeq(entries, 1, (query.pages + 1) * QueryPage)
              /\ Len(page_) # QueryPage \/ query.pages + 1 >= QueryPages
                   => (Len(entries) <= QueryPage * QueryPages => ids = entries)
        <4> SUFFICES ASSUME query.still = "yes"
                     PROVE  /\ Len(page_) = QueryPage => /\ (query.pages + 1) * QueryPage <= Len(entries)
                                          /\ ids = SubSeq(entries, 1, (query.pages + 1) * QueryPage)
                            /\ Len(page_) # QueryPage \/ query.pages + 1 >= QueryPages
                                 => (Len(entries) <= QueryPage * QueryPages => ids = entries)
          OBVIOUS
        <4>1. page_ = PageOf(query, entries)
          BY DEF PageAt, PageOf
        <4>2. ids = IdsWith(query, entries)
          BY <4>1 DEF IdsWith
        <4>3. entries \in Seq(Nat) /\ Once(entries) /\ PagesFit(query, entries)
          BY <2>1 DEF RepeatsInv
        <4> HIDE DEF page_, ids
        <4>4. OneMore(query, entries)
          BY <1>0, <4>3, OnePageMore
        <4> QED BY <4>1, <4>2, <4>4 DEF OneMore
      <3> HIDE DEF page_, ids
      <3>4. /\ query' \in Queries /\ query'.pages = query.pages + 1 /\ query'.ids = ids /\ query'.still = query.still
            /\ query'.at = IF more THEN "asking" ELSE "idle"
        <4>1. (IF more THEN "asking" ELSE "idle") \in {"idle", "asking"}
          OBVIOUS
        <4> DEFINE w == IF more THEN "asking" ELSE "idle"
        <4>2. query' = Paged(query, ids, w) /\ w \in {"idle", "asking"}
          BY <3>1, <4>1 DEF Paged
        <4> HIDE DEF w
        <4>3. /\ query' \in Queries /\ query'.pages = query.pages + 1 /\ query'.ids = ids /\ query'.still = query.still
              /\ query'.at = w
          BY <1>0, <3>2, <4>2, PageTold
        <4> QED BY <4>3 DEF w
      <3>5. query'.at = "asking" /\ query'.still = "yes" => PagesFit(query', entries)
        BY <3>3, <3>4 DEF PagesFit
      <3>6. said_' = "listed" => ~more
        BY <3>1
      <3>7. query.pages \in Nat /\ QueryPages \in Nat
        BY <1>0, InvokeAssumption DEF Queries
      <3>8. said_' = "listed" /\ query'.still = "yes" /\ Len(entries) <= QueryPage * QueryPages => query'.ids = entries
        BY <3>3, <3>4, <3>6, <3>7
      <3>9. (said_' = "listed" => query'.at = "idle") /\ said_' # "output"
        BY <3>1, <3>4
      <3> HIDE DEF more
      <3> QED BY <2>1, <3>4, <3>5, <3>8, <3>9 DEF RepeatsInv
    <2> QED BY <2>2, <2>3
  <1>9. ASSUME NEW k \in DOMAIN entries, EntryGoes(k) PROVE RepeatsInv'
    <2>1. query.at = "asking" /\ entries' = RemoveAt(entries, k) /\ query' = [query EXCEPT !.still = "no"] /\ UNCHANGED <<inv, got, ctxt, said_>>
      BY <1>9 DEF EntryGoes
    <2>2. entries' \in Seq(Nat) /\ Once(entries')
      BY <2>1, OnceWithout DEF RepeatsInv
    <2>3. query' \in Queries /\ query'.still = "no" /\ query'.at = "asking"
      BY <1>0, <2>1 DEF Queries
    <2>4. said_ # "listed"
      BY <2>1 DEF RepeatsInv
    <2> QED BY <2>1, <2>2, <2>3, <2>4 DEF RepeatsInv
  <1>10. ASSUME UNCHANGED iVars PROVE RepeatsInv'
    BY <1>10 DEF iVars, RepeatsInv
  <1> QED BY <1>1, <1>2, <1>3, <1>4, <1>5, <1>6, <1>7, <1>8, <1>9, <1>10 DEF INext

\* The calls of a step are repeated as its author asked (dataplane_retry, step_contract), and a
\* provider query (_query_all) that nobody disturbs lists what there is: its pages so far were
\* full, and what it has is the beginning of the collection.
THEOREM RepeatsAlwaysTold == ISpec => []RepeatsTold
  <1>1. RepeatsInv => RepeatsTold
    BY DEF RepeatsInv, RepeatsTold
  <1> QED BY RepeatsStart, RepeatsHold, <1>1, PTL DEF ISpec

-----------------------------------------------------------------------------
(* Resolution: what a reference comes to, and whom a failed one is blamed on. *)

Tags == {"text", "ref", "mixed", "cred", "holder", "absent", "dict", "full"}
Origins == {"none", "tck", "sut", "engine"}
SomeReferences == Names \cup Refs \cup {<<>>}
ValueType == [tag : Tags, ref : SomeReferences, by : Nat, tpl : {"yes", "no"}]
ReadType == [tag : Tags \cup {"none", "error"}, by : Nat, via : SUBSET Nat, why : {"none", "unresolved", "misuse", "depth"},
             origin : Origins, of : SomeReferences, ok : {"yes", "no"}]
OutcomeType == [status : {"none", "passed", "failed", "skipped"}, origin : Origins]

\* What is still a template is the package's own, and refers to no call.
NamesFit(all) ==
    /\ all \in [Names -> ValueType]
    /\ \A x \in Names : all[x].tpl = "yes" => all[x].by = 0 /\ (all[x].tag \in {"text", "ref", "mixed"} => all[x].ref[1] # "*")

\* The steps that failed have an origin among these, or the author's.
OutcomesFit(outs, from) ==
    /\ outs \in [AllSteps -> OutcomeType]
    /\ \A at \in AllSteps : outs[at].origin \in {"none", "tck"} \cup from

\* What a reference x may come to, in a place that may carry a credential or not.
FairReply(f, x, ok) ==
    /\ f \in ReadType /\ f.via \subseteq {0}
    /\ f.tag # "holder" /\ (f.tag = "cred" => ok = "yes")
    /\ (f.tag = "error") = (f.why # "none")
    /\ f.why = "unresolved" => f.origin \in {"tck"} \cup fails \/ x[1] = "*"

ResolutionInv ==
    /\ NamesFit(names) /\ runNo \in Nat /\ fails \subseteq Origins
    /\ OutcomesFit(outcomes, fails)
    /\ stopped \in {"none", "tck"} \cup fails
    /\ TextStaysText /\ BlameIsOfThisTest

\* The one name of a call is not a step's, nor the package's.
LEMMA NamesAre == Request \in Names /\ \A x \in Names : x[1] = "*" => x = Request
  <1>1. \A at \in AllSteps : Out(at)[1] # "*"
    <2>1. Out(<<"execution", "a">>)[1] # "*" /\ Out(<<"execution", "n">>)[1] # "*" /\ Out(<<"execution", "b">>)[1] # "*"
          /\ Out(<<"teardown", "z">>)[1] # "*"
      BY DEF Out
    <2> QED BY <2>1 DEF AllSteps
  <1> QED BY <1>1 DEF Names

\* A failed reference that is no call's has an origin of this test, or the author's.
LEMMA OriginIsOfThisTest ==
  ASSUME ResolutionInv, NEW x
  PROVE  OriginOf(x) \in Origins /\ (x[1] # "*" => OriginOf(x) \in {"tck"} \cup fails)
  <1> DEFINE o == outcomes[StepOf(x)]
  <1>1. IsStepRef(x) => o.origin \in {"none", "tck"} \cup fails
    BY DEF ResolutionInv, OutcomesFit, IsStepRef
  <1>2. stopped \in {"none", "tck"} \cup fails /\ fails \subseteq Origins
    BY DEF ResolutionInv
  <1> HIDE DEF o
  <1>3. (OriginOf(x) = "sut" /\ x[1] = "*") \/ OriginOf(x) = "tck" \/ (OriginOf(x) = stopped /\ stopped # "none")
        \/ (IsStepRef(x) /\ OriginOf(x) = o.origin /\ o.origin # "none")
    BY DEF OriginOf, o
  <1>4. o.origin \in {"none", "tck"} \cup fails /\ o.origin # "none" => o.origin \in {"tck"} \cup fails
    OBVIOUS
  <1> QED BY <1>1, <1>2, <1>3, <1>4 DEF Origins

\* What a reference that fails resolves to.
LEMMA ErrorIs ==
  ASSUME NEW why \in {"none", "unresolved", "misuse", "depth"}, NEW origin \in Origins
  PROVE  LET e == FailsFor(why, origin) IN
         e \in ReadType /\ e.via = {} /\ e.tag = "error" /\ e.why = why /\ e.origin = origin
  <1>1. <<>> \in SomeReferences /\ {} \in SUBSET Nat /\ 0 \in Nat
    BY DEF SomeReferences
  <1>2. Unread \in ReadType /\ Unread.via = {}
    BY <1>1 DEF Unread, ReadType, Origins
  <1> DEFINE u == Unread
             u1 == [u EXCEPT !.tag = "error"]
             u2 == [u1 EXCEPT !.why = why]
             u3 == [u2 EXCEPT !.origin = origin]
  <1>3. FailsFor(why, origin) = u3
    BY DEF FailsFor
  <1> HIDE DEF u
  <1>b. u \in ReadType /\ u.via = {}
    BY <1>2 DEF u
  <1>4. u1 \in ReadType /\ u1.via = {} /\ u1.tag = "error"
    BY <1>b DEF ReadType
  <1> HIDE DEF u1
  <1>5. u2 \in ReadType /\ u2.via = {} /\ u2.tag = "error" /\ u2.why = why
    BY <1>4 DEF ReadType
  <1> HIDE DEF u2
  <1>6. u3 \in ReadType /\ u3.via = {} /\ u3.tag = "error" /\ u3.why = why /\ u3.origin = origin
    BY <1>5 DEF ReadType
  <1> QED BY <1>3, <1>6

\* What a value resolves to: itself, by the step it is of.
LEMMA ValueIs ==
  ASSUME NEW v \in ValueType
  PROVE  /\ Got(v) \in ReadType /\ Got(v).via = {} /\ Got(v).why = "none" /\ Got(v).tag = v.tag /\ Got(v).by = v.by
         /\ v.tag # "error"
  <1>1. v.tag \in Tags /\ v.by \in Nat
    BY DEF ValueType
  <1>3. <<>> \in SomeReferences /\ {} \in SUBSET Nat
    BY DEF SomeReferences
  <1> QED BY <1>1, <1>3 DEF Got, ReadType, Tags, Origins

\* What one reference names: a value of that name, part of a call, or an error with its origin.
LEMMA RequireFits ==
  ASSUME ResolutionInv, NEW x
  PROVE  LET f == Require(x) IN
         /\ f \in ReadType /\ f.via = {}
         /\ (f.tag = "error") = (f.why # "none") /\ f.why \in {"none", "unresolved"}
         /\ f.why = "unresolved" => f.origin \in {"tck"} \cup fails \/ x[1] = "*"
         /\ x \in Names /\ f.tag # "error" => f = Got(names[x])
  <1> DEFINE e == FailsFor("unresolved", OriginOf(x))
             root == names[Request]
             w == [root EXCEPT !.tag = "text"]
  <1>0. OriginOf(x) \in Origins /\ (x[1] # "*" => OriginOf(x) \in {"tck"} \cup fails)
    BY OriginIsOfThisTest
  <1>1. e \in ReadType /\ e.via = {} /\ e.tag = "error" /\ e.why = "unresolved" /\ e.origin = OriginOf(x)
    BY <1>0, ErrorIs
  <1>3. names \in [Names -> ValueType] /\ root \in ValueType
    BY NamesAre DEF ResolutionInv, NamesFit
  <1>4. w \in ValueType
    BY <1>3 DEF ValueType, Tags
  <1>5. w.tag = "text" /\ (x \in Names /\ x[1] = "*" => x = Request)
    BY <1>3, NamesAre DEF ValueType
  <1>6. \/ Require(x) = e
        \/ Require(x) = Got(w) /\ x \notin Names
        \/ x \in Names /\ Require(x) = Got(names[x])
    <2>1. CASE x \in Names /\ names[x].tag # "absent"
      BY <2>1 DEF Require
    <2>2. CASE ~(x \in Names /\ names[x].tag # "absent") /\ x[1] # "*"
      BY <2>2 DEF Require
    <2>3. CASE ~(x \in Names /\ names[x].tag # "absent") /\ x[1] = "*"
      <3>1. Require(x) = Walk(x)
        BY <2>3 DEF Require
      <3>2. x \in Names => root.tag # "full"
        BY <2>3, <1>5
      <3> QED BY <3>1, <3>2 DEF Walk
    <2> QED BY <2>1, <2>2, <2>3
  <1>7. Got(w) \in ReadType /\ Got(w).via = {} /\ Got(w).why = "none" /\ Got(w).tag = "text"
    BY <1>4, <1>5, ValueIs
  <1>8. x \in Names => /\ Got(names[x]) \in ReadType /\ Got(names[x]).via = {} /\ Got(names[x]).why = "none"
                       /\ Got(names[x]).tag # "error"
    <2>1. x \in Names => names[x] \in ValueType
      BY <1>3
    <2> QED BY <2>1, ValueIs
  <1> HIDE DEF e, w, root
  <1> QED BY <1>0, <1>1, <1>6, <1>7, <1>8

-----------------------------------------------------------------------------
\* The recursion of ResolveStr.

RepliesAt(deeper, left) == [v \in Texts |-> [ok \in {"yes", "no"} |-> Resolves(v, ok, left, deeper)]]
ReplyStep(R, left) == RepliesAt(R[left - 1], left)

\* At the end of the depth what is deeper does not matter.
LEMMA DeepestReply == \A d1, d2 : RepliesAt(d1, 0) = RepliesAt(d2, 0)
  <1> SUFFICES ASSUME NEW d1, NEW d2 PROVE RepliesAt(d1, 0) = RepliesAt(d2, 0)
    OBVIOUS
  <1>1. \A v, ok : Resolves(v, ok, 0, d1) = Resolves(v, ok, 0, d2)
    BY DEF Resolves
  <1> QED BY <1>1 DEF RepliesAt

\* The recursive equation has a solution for every depth.
LEMMA RepliesExist ==
  ASSUME NEW m \in Nat
  PROVE  \E R : R = [left \in 0..m |-> ReplyStep(R, left)]
  <1> DEFINE T == {n \in Nat : \E R : R = [left \in 0..n |-> ReplyStep(R, left)]}
  <1>1. 0 \in T
    <2> DEFINE R0 == [left \in 0..0 |-> RepliesAt(0, 0)]
    <2>1. ASSUME NEW left \in 0..0 PROVE R0[left] = ReplyStep(R0, left)
      BY DeepestReply DEF ReplyStep
    <2>2. R0 = [left \in 0..0 |-> ReplyStep(R0, left)]
      BY <2>1
    <2> HIDE DEF R0
    <2>3. \E R : R = [left \in 0..0 |-> ReplyStep(R, left)]
      BY <2>2
    <2> QED BY <2>3
  <1>2. ASSUME NEW n \in Nat, n \in T PROVE n + 1 \in T
    <2>1. PICK R : R = [left \in 0..n |-> ReplyStep(R, left)]
      BY <1>2
    <2> DEFINE G == [left \in 0..(n + 1) |-> IF left = n + 1 THEN ReplyStep(R, left) ELSE R[left]]
    <2>2. ASSUME NEW left \in 0..(n + 1) PROVE G[left] = ReplyStep(G, left)
      <3>1. ReplyStep(G, left) = ReplyStep(R, left)
        <4>1. left # 0 => left - 1 \in 0..(n + 1) /\ left - 1 # n + 1
          OBVIOUS
        <4>2. left # 0 => G[left - 1] = R[left - 1]
          BY <4>1
        <4> QED BY <4>2, DeepestReply DEF ReplyStep
      <3>2. left # n + 1 => left \in 0..n /\ R[left] = ReplyStep(R, left)
        BY <2>1
      <3> QED BY <3>1, <3>2
    <2>3. G = [left \in 0..(n + 1) |-> ReplyStep(G, left)]
      BY <2>2
    <2> HIDE DEF G
    <2>4. \E H : H = [left \in 0..(n + 1) |-> ReplyStep(H, left)]
      BY <2>3
    <2> QED BY <2>4
  <1> HIDE DEF T
  <1>3. Nat \subseteq T
    BY <1>1, <1>2, SetInduction
  <1> QED BY <1>3 DEF T

\* The recursive function is the solution of its equation.
LEMMA ResolveStrIs == ResolveStr = [left \in 0..MaxDepth |-> ReplyStep(ResolveStr, left)]
  <1>1. \E R : R = [left \in 0..MaxDepth |-> ReplyStep(R, left)]
    BY ResolutionAssumption, RepliesExist
  <1> QED BY <1>1, Zenon DEF ResolveStr, ReplyStep, RepliesAt

\* One step: the value itself, or what it refers to, or what that comes to in turn.
LEMMA ResolvesFits ==
  ASSUME ResolutionInv, NEW v \in Texts, NEW ok \in {"yes", "no"}, NEW left \in Nat, NEW deeper,
         left # 0 => \A u \in Texts : FairReply(deeper[u][ok], u.ref, ok)
  PROVE  FairReply(Resolves(v, ok, left, deeper), v.ref, ok)
  <1> DEFINE x == v.ref
             f == Require(x)
             g == Resolves(v, ok, left, deeper)
  <1>1. /\ f \in ReadType /\ f.via = {}
        /\ (f.tag = "error") = (f.why # "none") /\ f.why \in {"none", "unresolved"}
        /\ f.why = "unresolved" => f.origin \in {"tck"} \cup fails \/ x[1] = "*"
        /\ x \in Names /\ f.tag # "error" => f = Got(names[x])
    BY RequireFits
  <1>2. NamesFit(names) /\ (x \in Names => names[x] \in ValueType /\ names[x].tpl \in {"yes", "no"})
    BY DEF ResolutionInv, NamesFit, ValueType
  <1>3. v.tag \in {"text", "ref", "mixed"} /\ (v.tag = "text" => v \in ValueType)
    BY DEF Texts, ValueType, Tags, SomeReferences
  <1>4. ASSUME NEW why \in {"misuse", "depth"} PROVE FairReply(FailsFor(why, "tck"), x, ok)
    <2>1. LET e == FailsFor(why, "tck") IN
          e \in ReadType /\ e.via = {} /\ e.tag = "error" /\ e.why = why /\ e.origin = "tck"
      BY ErrorIs DEF Origins
    <2> QED BY <2>1 DEF FairReply
  <1>5. CASE v.tag = "text"
    <2>1. g = Got(v)
      BY <1>5 DEF Resolves
    <2> QED BY <2>1, <1>3, <1>5, ValueIs DEF FairReply
  <1>6. ASSUME f.tag = "error" PROVE FairReply(f, x, ok)
    BY <1>1, <1>6 DEF FairReply
  <1>7. CASE v.tag = "mixed"
    <2>1. g = Interpolated(f)
      BY <1>7 DEF Resolves
    <2>2. CASE f.tag = "cred"
      BY <2>1, <2>2, <1>4 DEF Interpolated
    <2>3. CASE f.tag = "error"
      BY <2>1, <2>3, <1>6 DEF Interpolated
    <2>4. CASE f.tag # "cred" /\ f.tag # "error"
      <3> DEFINE h == [f EXCEPT !.tag = "text"]
      <3>1. h \in ReadType /\ h.via = f.via /\ h.tag = "text" /\ h.why = f.why
        BY <1>1 DEF ReadType, Tags
      <3>2. g = h
        BY <2>1, <2>4 DEF Interpolated
      <3> HIDE DEF f, h
      <3> QED BY <3>1, <3>2, <2>4, <1>1 DEF FairReply
    <2> QED BY <2>2, <2>3, <2>4
  <1>8. ASSUME NEW may \in {"yes", "no"}, may = "yes" => ok = "yes", f.tag # "error"
        PROVE  FairReply(Admitted(f, may), x, ok)
    <2>1. CASE f.tag = "holder" \/ (f.tag = "cred" /\ may = "no")
      BY <2>1, <1>4 DEF Admitted
    <2>2. CASE ~(f.tag = "holder" \/ (f.tag = "cred" /\ may = "no"))
      <3>1. Admitted(f, may) = f
        BY <2>2 DEF Admitted
      <3> HIDE DEF f
      <3> QED BY <3>1, <2>2, <1>1, <1>8 DEF FairReply
    <2> QED BY <2>1, <2>2
  <1>9. CASE v.tag = "ref"
    <2>1. CASE f.tag = "error"
      <3>1. g = f
        BY <1>9, <2>1 DEF Resolves
      <3> QED BY <3>1, <2>1, <1>6
    <2>2. CASE f.tag # "error" /\ (x \notin Names \/ names[x].tpl = "no")
      <3>1. g = Admitted(f, ok)
        BY <1>9, <2>2 DEF Resolves
      <3> QED BY <3>1, <2>2, <1>8
    <2>3. CASE f.tag # "error" /\ ~(x \notin Names \/ names[x].tpl = "no")
      <3>1. x \in Names /\ names[x].tpl = "yes" /\ f = Got(names[x]) /\ names[x] \in ValueType
        BY <1>1, <1>2, <2>3
      <3>2. f.tag = names[x].tag /\ f.by = names[x].by /\ names[x].by = 0
        BY <3>1, <1>2, ValueIs DEF NamesFit
      <3>3. g = IF left = 0 THEN FailsFor("depth", "tck")
                ELSE IF f.tag \in {"text", "ref", "mixed"} THEN Through(deeper[names[x]][ok], f.by)
                ELSE Admitted(f, "no")
        BY <1>9, <2>3 DEF Resolves
      <3>4. CASE left = 0
        BY <3>3, <3>4, <1>4
      <3>5. CASE left # 0 /\ f.tag \notin {"text", "ref", "mixed"}
        BY <3>3, <3>5, <2>3, <1>8
      <3>6. CASE left # 0 /\ f.tag \in {"text", "ref", "mixed"}
        <4> DEFINE u == names[x]
                   d == deeper[u][ok]
                   t == [d EXCEPT !.via = @ \cup {f.by}]
        <4>1. u \in Texts /\ u.ref[1] # "*"
          BY <3>1, <3>2, <3>6, <1>2 DEF Texts, ValueType, SomeReferences, NamesFit
        <4>2. FairReply(d, u.ref, ok)
          BY <4>1, <3>6
        <4>3. g = t
          BY <3>3, <3>6 DEF Through
        <4>4. f.by = 0
          BY <3>2
        <4> HIDE DEF f, d, u
        <4>5. d \in ReadType /\ d.via \subseteq {0}
          BY <4>2 DEF FairReply
        <4>6. t \in ReadType /\ t.via \subseteq {0} /\ t.tag = d.tag /\ t.why = d.why /\ t.origin = d.origin
          BY <4>4, <4>5 DEF ReadType
        <4> HIDE DEF t
        <4> QED BY <4>1, <4>2, <4>3, <4>6 DEF FairReply
      <3> QED BY <3>4, <3>5, <3>6
    <2> QED BY <2>1, <2>2, <2>3
  <1> QED BY <1>3, <1>5, <1>7, <1>9

\* However deep, every reply is fair.
LEMMA RepliesFit ==
  ASSUME ResolutionInv, NEW v \in Texts, NEW ok \in {"yes", "no"}
  PROVE  FairReply(ResolveStr[MaxDepth][v][ok], v.ref, ok)
  <1> DEFINE FairTo(n) == \A u \in Texts : FairReply(ResolveStr[n][u][ok], u.ref, ok)
             T == {n \in Nat : n <= MaxDepth => FairTo(n)}
  <1>0. MaxDepth \in Nat
    BY ResolutionAssumption
  <1>1. ASSUME NEW n \in 0..MaxDepth, NEW u \in Texts
        PROVE  ResolveStr[n][u][ok] = Resolves(u, ok, n, ResolveStr[n - 1])
    <2>1. ResolveStr[n] = ReplyStep(ResolveStr, n)
      BY ResolveStrIs
    <2>2. ReplyStep(ResolveStr, n) = [w \in Texts |-> [may \in {"yes", "no"} |-> Resolves(w, may, n, ResolveStr[n - 1])]]
      BY Zenon DEF ReplyStep, RepliesAt
    <2> QED BY <2>1, <2>2
  <1>2. 0 \in T
    <2>1. ASSUME NEW u \in Texts PROVE FairReply(ResolveStr[0][u][ok], u.ref, ok)
      <3>1. FairReply(Resolves(u, ok, 0, ResolveStr[0 - 1]), u.ref, ok)
        BY ResolvesFits
      <3>2. 0 \in 0..MaxDepth
        BY <1>0
      <3> QED BY <3>1, <3>2, <1>1
    <2> QED BY <2>1
  <1>3. ASSUME NEW n \in Nat, n \in T PROVE n + 1 \in T
    <2> SUFFICES ASSUME n + 1 <= MaxDepth, NEW u \in Texts PROVE FairReply(ResolveStr[n + 1][u][ok], u.ref, ok)
      OBVIOUS
    <2>1. FairTo(n) /\ n + 1 \in 0..MaxDepth /\ n + 1 # 0 /\ (n + 1) - 1 = n
      BY <1>3, <1>0
    <2> DEFINE d == ResolveStr[(n + 1) - 1]
    <2>2. \A w \in Texts : FairReply(d[w][ok], w.ref, ok)
      BY <2>1
    <2>3. ResolveStr[n + 1][u][ok] = Resolves(u, ok, n + 1, d)
      BY <2>1, <1>1
    <2> HIDE DEF d
    <2>4. n + 1 \in Nat
      OBVIOUS
    <2>5. FairReply(Resolves(u, ok, n + 1, d), u.ref, ok)
      BY <2>2, <2>4, ResolvesFits
    <2> QED BY <2>3, <2>5
  <1> HIDE DEF T
  <1>4. MaxDepth \in T
    BY <1>0, <1>2, <1>3, SetInduction
  <1> QED BY <1>0, <1>4 DEF T

-----------------------------------------------------------------------------
\* The steps of a test.

LEMMA SetVariableFits ==
  ASSUME NEW all, NamesFit(all), NEW x, NEW v \in ValueType
  PROVE  NamesFit(SetVariable(all, x, v))
  <1> DEFINE w == [v EXCEPT !.tpl = "no"]
             new == [all EXCEPT ![x] = w]
  <1>1. w \in ValueType /\ w.tpl = "no"
    BY DEF ValueType
  <1> HIDE DEF w
  <1>2. all \in [Names -> ValueType]
    BY DEF NamesFit
  <1>3. new \in [Names -> ValueType] /\ \A y \in Names : new[y] = w \/ new[y] = all[y]
    BY <1>1, <1>2
  <1>4. SetVariable(all, x, v) = new
    BY DEF SetVariable, w
  <1> HIDE DEF new
  <1> QED BY <1>1, <1>3, <1>4 DEF NamesFit

\* A name that is given a value fits.
LEMMA StoreOutputsFits ==
  ASSUME NEW all, NamesFit(all), NEW x, NEW v \in ValueType
  PROVE  NamesFit(StoreOutputs(all, x, v))
  BY SetVariableFits DEF StoreOutputs

\* An outcome that is recorded fits, with one failure more to be blamed.
LEMMA RecordedFits ==
  ASSUME NEW all, NEW from, NEW more, OutcomesFit(all, from), from \subseteq more, NEW x,
         NEW st \in {"none", "passed", "failed", "skipped"}, NEW or \in Origins,
         st = "failed" => or \in {"none", "tck"} \cup more
  PROVE  OutcomesFit(Recorded(all, x, st, or), more)
  <1> DEFINE o == [status |-> st, origin |-> IF st = "failed" THEN or ELSE "none"]
             new == [all EXCEPT ![x] = o]
  <1>1. o \in OutcomeType /\ o.origin \in {"none", "tck"} \cup more
    BY DEF OutcomeType, Origins
  <1> HIDE DEF o
  <1>2. all \in [AllSteps -> OutcomeType]
    BY DEF OutcomesFit
  <1>3. new \in [AllSteps -> OutcomeType] /\ \A y \in AllSteps : new[y] = o \/ new[y] = all[y]
    BY <1>1, <1>2
  <1>4. Recorded(all, x, st, or) = new
    BY DEF Recorded, o
  <1> HIDE DEF new
  <1> QED BY <1>1, <1>3, <1>4 DEF OutcomesFit

\* What a step leaves behind names the origin of its failure among this test's failures.
LEMMA AdvanceFits ==
  ASSUME ResolutionInv, NEW st, NEW or \in Origins, Advance(st, or),
         st = "failed" /\ read'.why = "unresolved" => or \in {"tck"} \cup fails \/ read'.of[1] = "*"
  PROVE  /\ fails \subseteq fails' /\ fails' \subseteq Origins /\ (st = "failed" => or \in {"tck"} \cup fails')
         /\ stopped' \in {"none", "tck"} \cup fails' /\ runNo' = runNo
         /\ st = "failed" /\ read'.why # "unresolved" => or \in fails'
  <1>1. /\ fails' = IF st = "failed" /\ (read'.why = "unresolved" => read'.of[1] = "*") THEN fails \cup {or} ELSE fails
        /\ stopped' = stopped \/ (st = "failed" /\ stopped' = or)
        /\ runNo' = runNo
    BY DEF Advance
  <1>2. fails \subseteq Origins /\ stopped \in {"none", "tck"} \cup fails
    BY DEF ResolutionInv
  <1> QED BY <1>1, <1>2

\* Every writing of a reference is a text that holds it.
LEMMA ReferencesAre ==
  ASSUME NEW x \in Refs, NEW v \in AsWritten(x)
  PROVE  v \in Texts /\ v.ref = x
  BY DEF AsWritten, Texts, Value

\* What the nested steps leave behind fits.
LEMMA NestedFits ==
  ASSUME ResolutionInv, NEW n \in {"none", "untaken", "passed", "sut"}, NEW more, fails \subseteq more,
         n = "sut" => "sut" \in more
  PROVE  LET inner == Nested(n, names, outcomes) IN NamesFit(inner.names) /\ OutcomesFit(inner.outs, more)
  <1>1. NamesFit(names) /\ OutcomesFit(outcomes, fails) /\ runNo \in Nat
    BY DEF ResolutionInv
  <1>2. OutcomesFit(outcomes, more)
    BY <1>1 DEF OutcomesFit
  <1> DEFINE t == Value("text", <<>>, runNo, "no")
  <1>3. t \in ValueType
    BY <1>1 DEF Value, ValueType, Tags, SomeReferences
  <1> HIDE DEF t
  <1>4. NamesFit(StoreOutputs(names, <<"execution", "n">>, t))
    BY <1>1, <1>3, StoreOutputsFits
  <1>5. OutcomesFit(Recorded(outcomes, <<"execution", "n">>, "passed", "none"), more)
    BY <1>2, RecordedFits DEF Origins
  <1>6. OutcomesFit(Recorded(outcomes, <<"execution", "n">>, "skipped", "none"), more)
    BY <1>2, RecordedFits DEF Origins
  <1>7. n = "sut" => OutcomesFit(Recorded(outcomes, <<"execution", "n">>, "failed", n), more)
    BY <1>2, RecordedFits DEF Origins
  <1> DEFINE inner == Nested(n, names, outcomes)
  <1>8. CASE n = "passed"
    <2>1. inner = [names |-> StoreOutputs(names, <<"execution", "n">>, t), outs |-> Recorded(outcomes, <<"execution", "n">>, "passed", "none")]
      BY <1>8 DEF Nested, t
    <2> QED BY <2>1, <1>4, <1>5
  <1>9. CASE n = "none"
    BY <1>9, <1>1, <1>2 DEF Nested
  <1>10. CASE n = "untaken"
    BY <1>10, <1>1, <1>6 DEF Nested
  <1>11. CASE n = "sut"
    BY <1>11, <1>1, <1>7 DEF Nested
  <1> QED BY <1>8, <1>9, <1>10, <1>11

\* The invariant of the names holds at the start.
LEMMA ResolutionStart == VInit => ResolutionInv
  <1> SUFFICES ASSUME VInit PROVE ResolutionInv
    OBVIOUS
  <1> DEFINE all(body) == [x \in Names |->
                    CASE x = <<"e1">> -> Value("ref", <<"e2">>, 0, "yes")
                      [] x = <<"e2">> -> Value("ref", <<"e2">>, 0, "yes")
                      [] x = <<"v">> -> Value("ref", <<"key">>, 0, "yes")
                      [] x = <<"key">> -> Value("cred", <<>>, 0, "no")
                      [] x = <<"holder">> -> Value("holder", <<>>, 0, "yes")
                      [] x = Request -> Value(body, <<>>, 0, "no")
                      [] OTHER -> Absent]
  <1>1. PICK body \in {"absent", "dict", "full"} : names = all(body)
    BY DEF VInit
  <1>2. <<"e2">> \in SomeReferences /\ <<"key">> \in SomeReferences /\ <<>> \in SomeReferences /\ <<"e2">>[1] # "*" /\ <<"key">>[1] # "*"
    BY DEF SomeReferences, Names
  <1> DEFINE Fits(v) == v \in ValueType /\ (v.tpl = "yes" => v.by = 0 /\ (v.tag \in {"text", "ref", "mixed"} => v.ref[1] # "*"))
  <1>3. /\ Fits(Value("ref", <<"e2">>, 0, "yes")) /\ Fits(Value("ref", <<"key">>, 0, "yes")) /\ Fits(Value("cred", <<>>, 0, "no"))
        /\ Fits(Value("holder", <<>>, 0, "yes")) /\ Fits(Value(body, <<>>, 0, "no")) /\ Fits(Absent)
    BY <1>2 DEF Value, Absent, ValueType, Tags
  <1> HIDE DEF Fits
  <1>4. \A x \in Names : Fits(all(body)[x])
    BY <1>3
  <1> HIDE DEF all
  <1>5. names = [x \in Names |-> names[x]]
    BY <1>1 DEF all
  <1>6. NamesFit(names)
    BY <1>1, <1>4, <1>5 DEF NamesFit, Fits
  <1>7. OutcomesFit(outcomes, fails) /\ stopped \in {"none", "tck"} \cup fails /\ fails \subseteq Origins /\ runNo \in Nat
    BY DEF VInit, OutcomesFit, OutcomeType, Unrun, Origins
  <1>8. TextStaysText /\ BlameIsOfThisTest
    BY DEF VInit, TextStaysText, BlameIsOfThisTest, Unread
  <1> QED BY <1>6, <1>7, <1>8 DEF ResolutionInv

\* Every step keeps the invariant of the names.
LEMMA ResolutionHolds == ResolutionInv /\ [VNext]_vVars => ResolutionInv'
  <1> SUFFICES ASSUME ResolutionInv, [VNext]_vVars PROVE ResolutionInv'
    OBVIOUS
  <1>0. NamesFit(names) /\ OutcomesFit(outcomes, fails) /\ runNo \in Nat
    BY DEF ResolutionInv
  <1>a. read' = Unread => TextStaysText' /\ BlameIsOfThisTest'
    BY DEF TextStaysText, BlameIsOfThisTest, Unread
  <1>1. ASSUME NEW again \in {"yes", "no"}, StartTest(again) PROVE ResolutionInv'
    <2>1. read' = Unread /\ runNo' \in Nat /\ fails' = {} /\ stopped' = "none" /\ outcomes' = [s \in AllSteps |-> Unrun]
      BY <1>1, <1>0 DEF StartTest, Cleared
    <2>2. Absent \in ValueType /\ Absent.tpl = "no"
      BY DEF Absent, Value, ValueType, Tags, SomeReferences
    <2>3. NamesFit(ForgetOutputs(names))
      <3> DEFINE new == ForgetOutputs(names)
      <3>1. new = [x \in Names |-> new[x]] /\ \A x \in Names : new[x] = names[x] \/ new[x] = Absent
        BY DEF ForgetOutputs
      <3> HIDE DEF new
      <3>2. NamesFit(new)
        BY <3>1, <2>2, <1>0 DEF NamesFit
      <3> QED BY <3>2 DEF new
    <2>4. NamesFit(names')
      BY <1>1, <1>0, <2>3 DEF StartTest
    <2>5. OutcomesFit(outcomes', fails')
      BY <2>1 DEF OutcomesFit, OutcomeType, Unrun, Origins
    <2> QED BY <2>1, <2>4, <2>5, <1>a DEF ResolutionInv, NamesFit, OutcomesFit
  <1>2. ASSUME NEW c \in Conditions, SkipStep(c) PROVE ResolutionInv'
    <2>1. read' = Unread /\ Advance("skipped", "none") /\ names' = names /\ outcomes' = Recorded(outcomes, Here, "skipped", "none")
      BY <1>2 DEF SkipStep
    <2>2. /\ fails \subseteq fails' /\ fails' \subseteq Origins /\ stopped' \in {"none", "tck"} \cup fails' /\ runNo' = runNo
      BY <2>1, AdvanceFits DEF Origins
    <2>3. OutcomesFit(Recorded(outcomes, Here, "skipped", "none"), fails')
      BY <1>0, <2>2, RecordedFits DEF Origins
    <2> QED BY <1>0, <1>a, <2>1, <2>2, <2>3 DEF ResolutionInv, NamesFit, OutcomesFit
  <1>3. CASE MissingStep
    <2>1. read' = Unread /\ Advance("failed", "sut") /\ names' = names /\ outcomes' = Recorded(outcomes, Here, "failed", "sut")
      BY <1>3 DEF MissingStep
    <2>2. /\ fails \subseteq fails' /\ fails' \subseteq Origins /\ stopped' \in {"none", "tck"} \cup fails' /\ runNo' = runNo
          /\ "sut" \in fails'
      BY <2>1, AdvanceFits DEF Origins, Unread
    <2>3. OutcomesFit(Recorded(outcomes, Here, "failed", "sut"), fails')
      BY <1>0, <2>2, RecordedFits DEF Origins
    <2> QED BY <1>0, <1>a, <2>1, <2>2, <2>3 DEF ResolutionInv, NamesFit, OutcomesFit
  <1>4. ASSUME NEW x \in Refs, NEW v \in AsWritten(x), NEW carrier \in {"yes", "no"}, NEW end \in {"passed", "check_failed", "raised"},
               NEW or \in {"sut", "engine"}, NEW n \in {"none", "untaken", "passed", "sut"},
               NEW val \in {Value("ref", <<"key">>, runNo, "no")},
               end = "check_failed" => or = "sut", n = "sut" => end = "raised" /\ or = "sut",
               RunStep(v, carrier, end, or, n, val)
        PROVE  ResolutionInv'
    <2> DEFINE f == ResolveStr[MaxDepth][v][carrier]
               f1 == [f EXCEPT !.of = x]
               f2 == [f1 EXCEPT !.ok = carrier]
    <2>1. v \in Texts /\ v.ref = x /\ x \in SomeReferences
      BY ReferencesAre DEF SomeReferences
    <2>2. FairReply(f, x, carrier)
      BY <2>1, RepliesFit
    <2>3. read' = f2
      BY <1>4, <2>1 DEF RunStep, ResolveParam
    <2> HIDE DEF f
    <2>4. f1 \in ReadType /\ f1.of = x /\ f1.tag = f.tag /\ f1.why = f.why /\ f1.via = f.via /\ f1.origin = f.origin
      BY <2>1, <2>2 DEF FairReply, ReadType
    <2> HIDE DEF f1
    <2>5. /\ read'.of = x /\ read'.ok = carrier /\ read'.tag = f.tag /\ read'.why = f.why /\ read'.via = f.via
          /\ read'.origin = f.origin /\ f.origin \in Origins
      BY <2>2, <2>3, <2>4 DEF FairReply, ReadType
    <2>6. TextStaysText'
      BY <2>2, <2>5 DEF FairReply, TextStaysText
    <2>7. read'.why = "unresolved" => read'.origin \in {"tck"} \cup fails \/ read'.of[1] = "*"
      BY <2>2, <2>5 DEF FairReply
    <2>8. CASE read'.tag = "error"
      <3>1. outcomes' = Recorded(outcomes, Here, "failed", read'.origin) /\ names' = names /\ Advance("failed", read'.origin)
        BY <1>4, <2>8 DEF RunStep
      <3>2. /\ fails \subseteq fails' /\ fails' \subseteq Origins /\ stopped' \in {"none", "tck"} \cup fails' /\ runNo' = runNo
            /\ read'.origin \in {"tck"} \cup fails' /\ read'.origin \in Origins
        BY <3>1, <2>5, <2>7, AdvanceFits
      <3>3. OutcomesFit(Recorded(outcomes, Here, "failed", read'.origin), fails')
        BY <1>0, <3>2, RecordedFits
      <3>4. BlameIsOfThisTest'
        BY <3>2 DEF BlameIsOfThisTest
      <3> QED BY <1>0, <2>6, <3>1, <3>2, <3>3, <3>4 DEF ResolutionInv, NamesFit, OutcomesFit
    <2>9. CASE read'.tag # "error"
      <3> DEFINE inner == Nested(n, names, outcomes)
                 st == IF end = "passed" THEN "passed" ELSE "failed"
                 o == IF end = "raised" THEN or ELSE "sut"
      <3>1. /\ names' = IF end = "raised" THEN inner.names ELSE StoreOutputs(inner.names, Here, val)
            /\ outcomes' = Recorded(inner.outs, Here, st, o)
            /\ Advance(st, o)
        BY <1>4, <2>9 DEF RunStep
      <3>2. read'.why = "none"
        BY <2>2, <2>5, <2>9 DEF FairReply
      <3>3. st \in {"passed", "failed"} /\ o \in {"sut", "engine"}
        OBVIOUS
      <3>4. /\ fails \subseteq fails' /\ fails' \subseteq Origins /\ stopped' \in {"none", "tck"} \cup fails' /\ runNo' = runNo
            /\ st = "failed" => o \in fails'
        <4> HIDE DEF st, o
        <4> QED BY <3>1, <3>2, <3>3, AdvanceFits DEF Origins
      <3>5. n = "sut" => "sut" \in fails'
        BY <1>4, <3>4
      <3>6. NamesFit(inner.names) /\ OutcomesFit(inner.outs, fails')
        BY <3>4, <3>5, NestedFits
      <3>7. val \in ValueType
        <4>1. <<"key">> \in SomeReferences
          BY DEF SomeReferences, Names
        <4> QED BY <4>1, <1>0 DEF Value, ValueType, Tags
      <3> HIDE DEF inner
      <3>8. NamesFit(names')
        BY <3>1, <3>6, <3>7, StoreOutputsFits
      <3>9. OutcomesFit(outcomes', fails')
        <4> HIDE DEF st, o
        <4>1. OutcomesFit(Recorded(inner.outs, Here, st, o), fails')
          BY <3>3, <3>4, <3>6, RecordedFits DEF Origins
        <4> QED BY <3>1, <4>1
      <3>10. BlameIsOfThisTest'
        BY <3>2 DEF BlameIsOfThisTest
      <3> QED BY <1>0, <2>6, <3>4, <3>8, <3>9, <3>10 DEF ResolutionInv, NamesFit, OutcomesFit
    <2> QED BY <2>8, <2>9
  <1>5. CASE UNCHANGED vVars
    BY <1>5 DEF vVars, ResolutionInv, NamesFit, OutcomesFit, TextStaysText, BlameIsOfThisTest
  <1>6. CASE VNext
    <2>1. ASSUME NEW x \in Refs, NEW v \in AsWritten(x), NEW carrier \in {"yes", "no"}, NEW end \in {"passed", "check_failed", "raised"},
                 NEW or \in {"sut", "engine"}, NEW n \in {"none", "untaken", "passed", "sut"},
                 NEW val \in {Value("ref", <<"key">>, runNo, "no")},
                 (end = "check_failed" => or = "sut") /\ (n = "sut" => end = "raised" /\ or = "sut") /\ RunStep(v, carrier, end, or, n, val)
          PROVE  ResolutionInv'
      BY <2>1, <1>4
    <2> QED BY <1>6, <1>1, <1>2, <1>3, <2>1 DEF VNext
  <1> QED BY <1>5, <1>6

\* What a step wrote is data, never taken for the package's own text again, and a credential goes
\* only where it may, whatever the names, the references, the depth and the number of tests.
THEOREM TextIsNeverReread == VSpec => []TextStaysText
  <1>1. ResolutionInv => TextStaysText BY DEF ResolutionInv
  <1> QED BY ResolutionStart, ResolutionHolds, <1>1, PTL DEF VSpec

\* A reference that came to nothing is never blamed on a failure of another test.
THEOREM BlameStaysInTheTest == VSpec => []BlameIsOfThisTest
  <1>1. ResolutionInv => BlameIsOfThisTest BY DEF ResolutionInv
  <1> QED BY ResolutionStart, ResolutionHolds, <1>1, PTL DEF VSpec

-----------------------------------------------------------------------------
(* ApiDocuments: the byte count of the documents kept. *)

BytesStep(F, cache, n) == IF n = 0 THEN 0 ELSE F[n - 1] + cache[n].size

\* The recursion of Bytes has a solution.
LEMMA BytesExist ==
  ASSUME NEW cache, NEW m \in Nat
  PROVE  \E F : F = [n \in 0..m |-> BytesStep(F, cache, n)]
  <1> DEFINE T == {k \in Nat : \E F : F = [n \in 0..k |-> BytesStep(F, cache, n)]}
  <1>1. 0 \in T
    <2> DEFINE F0 == [n \in 0..0 |-> 0]
    <2>1. F0 = [n \in 0..0 |-> BytesStep(F0, cache, n)]
      BY DEF BytesStep
    <2> QED BY <2>1
  <1>2. ASSUME NEW k \in Nat, k \in T PROVE k + 1 \in T
    <2>1. PICK F : F = [n \in 0..k |-> BytesStep(F, cache, n)]
      BY <1>2
    <2> DEFINE G == [n \in 0..(k + 1) |-> IF n = k + 1 THEN BytesStep(F, cache, n) ELSE F[n]]
    <2>2. ASSUME NEW n \in 0..(k + 1) PROVE G[n] = BytesStep(G, cache, n)
      <3>1. BytesStep(G, cache, n) = BytesStep(F, cache, n)
        <4>1. n # 0 => n - 1 \in 0..(k + 1) /\ n - 1 # k + 1
          OBVIOUS
        <4>2. n # 0 => G[n - 1] = F[n - 1]
          BY <4>1
        <4> QED BY <4>2 DEF BytesStep
      <3>2. n # k + 1 => n \in 0..k /\ F[n] = BytesStep(F, cache, n)
        BY <2>1
      <3> QED BY <3>1, <3>2
    <2>3. G = [n \in 0..(k + 1) |-> BytesStep(G, cache, n)]
      BY <2>2
    <2> HIDE DEF G
    <2>4. \E H : H = [n \in 0..(k + 1) |-> BytesStep(H, cache, n)]
      BY <2>3
    <2> QED BY <2>4
  <1> HIDE DEF T
  <1>3. Nat \subseteq T
    BY <1>1, <1>2, SetInduction
  <1> QED BY <1>3 DEF T

\* An entry of the cache has a key and a size.
Sized(s) == \A i \in 1..Len(s) : s[i].size \in Nat

\* The sizes of a list of entries add up one by one.
LEMMA BytesIs ==
  ASSUME NEW T, NEW s \in Seq(T), Sized(s)
  PROVE  /\ Bytes(s)[0] = 0
         /\ \A n \in 1..Len(s) : Bytes(s)[n] = Bytes(s)[n - 1] + s[n].size
         /\ \A n \in 0..Len(s) : Bytes(s)[n] \in Nat
  <1> DEFINE m == Len(s)
             B == Bytes(s)
  <1>0. m \in Nat
    OBVIOUS
  <1>1. \E F : F = [n \in 0..m |-> BytesStep(F, s, n)]
    <2> HIDE DEF m
    <2> QED BY <1>0, BytesExist
  <1>2. Bytes(s) = [n \in 0..Len(s) |-> BytesStep(Bytes(s), s, n)]
    BY <1>1, Zenon DEF Bytes, BytesStep
  <1>3. \A n \in 0..m : B[n] = BytesStep(B, s, n)
    BY <1>2
  <1> HIDE DEF B
  <1>4. B[0] = 0 /\ \A n \in 1..m : B[n] = B[n - 1] + s[n].size
    BY <1>0, <1>3 DEF BytesStep
  <1> DEFINE N == {n \in Nat : n <= m => B[n] \in Nat}
  <1>5. 0 \in N
    BY <1>4
  <1>6. \A n \in Nat : n \in N => n + 1 \in N
    <2> SUFFICES ASSUME NEW n \in Nat, n \in N, n + 1 <= m PROVE B[n + 1] \in Nat
      OBVIOUS
    <2>1. n + 1 \in 1..m /\ (n + 1) - 1 = n /\ B[n] \in Nat
      BY <1>0
    <2> DEFINE k == n + 1
    <2>2. B[k] = B[k - 1] + s[k].size /\ s[k].size \in Nat
      BY <2>1, <1>4 DEF Sized
    <2> QED BY <2>1, <2>2
  <1> HIDE DEF N
  <1>7. Nat \subseteq N
    BY <1>5, <1>6, SetInduction
  <1>8. \A n \in 0..m : B[n] \in Nat
    BY <1>0, <1>7 DEF N
  <1> QED BY <1>4, <1>8 DEF B

\* Past place lo, t is s without the d documents before it.
Shifted(s, t, lo, d) == lo <= Len(t) /\ Len(t) + d <= Len(s) /\ \A i \in 1..Len(t) : i > lo => t[i] = s[i + d]

\* From that place on the documents of t add up to what those of s do.
LEMMA BytesShift ==
  ASSUME NEW T, NEW s \in Seq(T), NEW t \in Seq(T), Sized(s), Sized(t),
         NEW lo \in Nat, NEW d \in Nat, Shifted(s, t, lo, d)
  PROVE  \A n \in 0..Len(t) : n >= lo => Bytes(t)[n] + Bytes(s)[lo + d] = Bytes(s)[n + d] + Bytes(t)[lo]
  <1> DEFINE A == Bytes(s)
             B == Bytes(t)
             N == {n \in Nat : n >= lo /\ n <= Len(t) => B[n] + A[lo + d] = A[n + d] + B[lo]}
             m == Len(t)
  <1>0. m \in Nat /\ Len(s) \in Nat /\ lo <= m /\ m + d <= Len(s) /\ \A i \in 1..m : i > lo => t[i] = s[i + d]
    BY DEF Shifted
  <1>1. (\A n \in 0..m : B[n] \in Nat) /\ \A n \in 1..m : B[n] = B[n - 1] + t[n].size
    BY BytesIs
  <1>2. (\A n \in 0..Len(s) : A[n] \in Nat) /\ \A n \in 1..Len(s) : A[n] = A[n - 1] + s[n].size
    BY BytesIs
  <1> HIDE DEF A, B
  <1>3. B[lo] \in Nat /\ A[lo + d] \in Nat
    BY <1>0, <1>1, <1>2
  <1>4. 0 \in N
    BY <1>3
  <1>5. \A n \in Nat : n \in N => n + 1 \in N
    <2> SUFFICES ASSUME NEW n \in Nat, n \in N PROVE n + 1 \in N
      OBVIOUS
    <2> SUFFICES ASSUME n + 1 >= lo, n + 1 <= m PROVE B[n + 1] + A[(lo) + d] = A[(n + 1) + d] + B[lo]
      <3>1. n + 1 \in Nat
        OBVIOUS
      <3> QED BY <3>1
    <2>1. CASE n + 1 = lo
      <3>1. B[n + 1] = B[lo] /\ A[(n + 1) + d] = A[lo + d]
        BY <2>1
      <3> DEFINE y == A[lo + d]
                 z == B[lo]
      <3>2. y \in Nat /\ z \in Nat
        BY <1>3
      <3> HIDE DEF y, z
      <3>3. z + y = y + z
        BY <3>2
      <3> QED BY <3>1, <3>3 DEF y, z
    <2>2. CASE n + 1 # lo
      <3>1. n >= lo /\ n <= m /\ n \in 0..m /\ n + d \in 0..Len(s)
        BY <2>2, <1>0
      <3>2. B[n] + A[lo + d] = A[n + d] + B[lo] /\ B[n] \in Nat /\ A[n + d] \in Nat
        BY <3>1, <1>1, <1>2
      <3> DEFINE k == n + 1
                 j == k + d
      <3>3. k \in 1..m /\ k > lo /\ k - 1 = n /\ j \in 1..Len(s) /\ j - 1 = n + d
        BY <3>1, <1>0
      <3>4. t[k] = s[j] /\ s[j].size \in Nat
        BY <3>3, <1>0 DEF Sized
      <3> HIDE DEF k, j
      <3>5. B[k] = B[n] + t[k].size /\ A[j] = A[n + d] + s[j].size
        BY <3>3, <1>1, <1>2
      <3>6. B[k] + A[lo + d] = A[j] + B[lo]
        <4> DEFINE v == s[j].size
                   w == B[n]
                   x == A[n + d]
                   y == A[lo + d]
                   z == B[lo]
        <4>1. B[k] = w + v /\ A[j] = x + v /\ w + y = x + z
          BY <3>2, <3>4, <3>5
        <4>2. v \in Nat /\ w \in Nat /\ x \in Nat /\ y \in Nat /\ z \in Nat
          BY <3>2, <3>4, <1>3
        <4>3. A[lo + d] = y /\ B[lo] = z
          OBVIOUS
        <4> HIDE DEF v, w, x, y, z
        <4>4. (w + v) + y = (x + v) + z
          BY <4>1, <4>2
        <4> QED BY <4>1, <4>3, <4>4
      <3> QED BY <3>6 DEF k, j
    <2> QED BY <2>1, <2>2
  <1> HIDE DEF N
  <1>6. Nat \subseteq N
    BY <1>4, <1>5, SetInduction
  <1> QED BY <1>0, <1>6 DEF N, A, B

DocKeys == ApiPaths \X {f.digest : f \in ApiFiles}
Entries == [key : DocKeys, size : Nat]
ReaderType == [at : {"idle", "parsing", "holds"}, path : ApiPaths \cup {""}, media : {"json", "yaml", ""},
               file : ApiFiles \cup {NoRef}, out : {"none", "served", "refused", "indexed", "translated"}]

\* The documents kept, their count of bytes and the limits.
CacheFits(cache, bytes) ==
    /\ cache \in Seq(Entries) /\ bytes = Bytes(cache)[Len(cache)]
    /\ Len(cache) <= DocsKept /\ (Len(cache) > 1 => bytes <= BytesKept)

ApiCacheInv ==
    /\ onDisk \in [ApiPaths -> ApiFiles]
    /\ reader \in [Readers -> ReaderType]
    /\ \A w \in Readers : reader[w].at = "parsing" => reader[w].path \in ApiPaths /\ reader[w].file \in ApiFiles
    /\ CacheFits(docCache, cachedBytes)

\* Every entry of the cache has a size.
LEMMA EntriesAreSized == \A s \in Seq(Entries) : Sized(s)
  <1> SUFFICES ASSUME NEW s \in Seq(Entries), NEW i \in 1..Len(s) PROVE s[i].size \in Nat
    BY DEF Sized
  <1>1. s[i] \in Entries
    OBVIOUS
  <1> QED BY <1>1 DEF Entries

\* One document more adds its size.
LEMMA BytesAppend ==
  ASSUME NEW s \in Seq(Entries), NEW e \in Entries
  PROVE  LET t == Append(s, e) IN
         /\ t \in Seq(Entries) /\ Len(t) = Len(s) + 1
         /\ Bytes(t)[Len(t)] = Bytes(s)[Len(s)] + e.size /\ Bytes(s)[Len(s)] \in Nat
  <1> DEFINE t == Append(s, e)
             m == Len(s)
             A == Bytes(s)
             B == Bytes(t)
  <1>1. t \in Seq(Entries) /\ Len(t) = m + 1 /\ t[m + 1] = e /\ m \in Nat /\ \A i \in 1..m : t[i] = s[i]
    OBVIOUS
  <1> HIDE DEF t
  <1>2. Sized(s) /\ Sized(t)
    BY <1>1, EntriesAreSized
  <1>3. B[0] = 0 /\ (\A n \in 1..Len(t) : B[n] = B[n - 1] + t[n].size) /\ \A n \in 0..Len(t) : B[n] \in Nat
    BY <1>1, <1>2, BytesIs
  <1>4. A[0] = 0 /\ \A n \in 0..Len(s) : A[n] \in Nat
    BY <1>1, <1>2, BytesIs
  <1> DEFINE z == 0
  <1>5. z \in Nat /\ Shifted(t, s, z, z)
    BY <1>1 DEF Shifted
  <1> HIDE DEF z
  <1>6. \A n \in 0..Len(s) : n >= z => Bytes(s)[n] + Bytes(t)[z + z] = Bytes(t)[n + z] + Bytes(s)[z]
    BY <1>1, <1>2, <1>5, BytesShift
  <1> HIDE DEF A, B, m
  <1>7. m \in 0..Len(s) /\ m >= z /\ m + z = m /\ z + z = z /\ z = 0
    BY <1>1, <1>5 DEF z, m
  <1>8. A[m] + B[z] = B[m] + A[z]
    BY <1>6, <1>7 DEF A, B
  <1>9. A[m] = B[m] /\ A[m] \in Nat
    <2>1. A[m] \in Nat /\ B[m] \in Nat /\ B[z] = 0 /\ A[z] = 0
      BY <1>1, <1>3, <1>4, <1>7
    <2> QED BY <2>1, <1>8
  <1>10. B[m + 1] = B[m] + t[m + 1].size
    <2>1. m + 1 \in 1..Len(t) /\ (m + 1) - 1 = m
      BY <1>1
    <2> QED BY <2>1, <1>3
  <1> QED BY <1>1, <1>9, <1>10 DEF A, B, m, t

\* Without the d oldest, what is kept adds up to what they leave.
LEMMA BytesDrop ==
  ASSUME NEW s \in Seq(Entries), NEW d \in Nat, d <= Len(s)
  PROVE  LET t == SubSeq(s, d + 1, Len(s)) IN
         /\ t \in Seq(Entries) /\ Len(t) = Len(s) - d
         /\ Bytes(t)[Len(t)] + Bytes(s)[d] = Bytes(s)[Len(s)]
         /\ Bytes(t)[Len(t)] \in Nat /\ Bytes(s)[d] \in Nat
  <1> DEFINE t == SubSeq(s, d + 1, Len(s))
             m == Len(s)
             A == Bytes(s)
             B == Bytes(t)
  <1>0. m \in Nat
    OBVIOUS
  <1>1. t \in Seq(Entries) /\ Len(t) = m - d /\ \A i \in 1..(m - d) : t[i] = s[d + i]
    <2>1. m <= Len(s) /\ d <= m
      OBVIOUS
    <2> HIDE DEF m
    <2>2. /\ SubSeq(s, d + 1, m) \in Seq(Entries) /\ Len(SubSeq(s, d + 1, m)) = m - d
          /\ \A i \in 1..(m - d) : SubSeq(s, d + 1, m)[i] = s[d + i]
      BY <1>0, <2>1, SliceIs
    <2> QED BY <2>2 DEF m
  <1> HIDE DEF t
  <1>2. Sized(s) /\ Sized(t)
    BY <1>1, EntriesAreSized
  <1>3. B[0] = 0 /\ \A n \in 0..Len(t) : B[n] \in Nat
    BY <1>1, <1>2, BytesIs
  <1>4. \A n \in 0..Len(s) : A[n] \in Nat
    BY <1>2, BytesIs
  <1> DEFINE z == 0
  <1>5. z \in Nat /\ Shifted(s, t, z, d)
    BY <1>0, <1>1 DEF Shifted
  <1> HIDE DEF z
  <1>6. \A n \in 0..Len(t) : n >= z => Bytes(t)[n] + Bytes(s)[z + d] = Bytes(s)[n + d] + Bytes(t)[z]
    BY <1>1, <1>2, <1>5, BytesShift
  <1> DEFINE k == Len(t)
  <1>7. k \in 0..Len(t) /\ k >= z /\ z + d = d /\ k + d = m /\ z = 0 /\ d \in 0..Len(s) /\ m \in 0..Len(s)
    BY <1>0, <1>1, <1>5 DEF z
  <1> HIDE DEF A, B, m, k
  <1>8. B[k] + A[d] = A[m] + B[z]
    BY <1>6, <1>7 DEF A, B
  <1>9. B[k] \in Nat /\ A[d] \in Nat /\ A[m] \in Nat /\ B[z] = 0
    BY <1>3, <1>4, <1>7
  <1>10. B[k] + A[d] = A[m]
    BY <1>8, <1>9
  <1> QED BY <1>1, <1>9, <1>10 DEF A, B, m, k, t

\* _remember keeps the count and the limits.
LEMMA RememberFits ==
  ASSUME NEW cache, NEW bytes, CacheFits(cache, bytes), NEW k \in DocKeys, NEW size \in Nat
  PROVE  LET kept == Remember(cache, bytes, k, size) IN CacheFits(kept.cache, kept.bytes)
  <1> DEFINE kept == Remember(cache, bytes, k, size)
             e == [key |-> k, size |-> size]
             all == Append(cache, e)
             L == Len(all)
             total(n) == bytes + size - Bytes(all)[n]
             D == {n \in 0..L - 1 : n = L - 1 \/ (L - n <= DocsKept /\ total(n) <= BytesKept)}
             drop == Min(D)
             t == SubSeq(all, drop + 1, L)
  <1>1. CASE \E i \in DOMAIN cache : cache[i].key = k
    BY <1>1 DEF Remember
  <1>2. CASE ~(\E i \in DOMAIN cache : cache[i].key = k)
    <2>1. kept = [cache |-> t, bytes |-> total(drop)]
      BY <1>2 DEF Remember
    <2>2. e \in Entries /\ e.size = size /\ cache \in Seq(Entries) /\ bytes = Bytes(cache)[Len(cache)]
      BY DEF Entries, CacheFits
    <2> HIDE DEF e
    <2>3. all \in Seq(Entries) /\ L = Len(cache) + 1 /\ Bytes(all)[L] = bytes + size /\ bytes \in Nat
      BY <2>2, BytesAppend
    <2>4. L \in Nat /\ L - 1 \in 0..L - 1
      BY <2>2, <2>3
    <2> HIDE DEF all, L
    <2>5. L - 1 \in D /\ D \in SUBSET Nat
      BY <2>4
    <2>6. drop \in D
      <3> HIDE DEF D
      <3>1. \E x \in D : \A y \in D : x <= y
        BY <2>5, LeastNatural
      <3> QED BY <3>1 DEF Min
    <2> HIDE DEF drop
    <2>7. drop \in Nat /\ drop <= L - 1 /\ (drop = L - 1 \/ (L - drop <= DocsKept /\ total(drop) <= BytesKept))
      BY <2>6, <2>4
    <2>8. L = Len(all)
      BY DEF L
    <2>9. drop <= Len(all)
      BY <2>4, <2>7, <2>8
    <2>10. LET u == SubSeq(all, drop + 1, Len(all)) IN
           /\ u \in Seq(Entries) /\ Len(u) = Len(all) - drop
           /\ Bytes(u)[Len(u)] + Bytes(all)[drop] = Bytes(all)[Len(all)]
           /\ Bytes(u)[Len(u)] \in Nat /\ Bytes(all)[drop] \in Nat
      BY <2>3, <2>7, <2>9, BytesDrop
    <2>11. /\ t \in Seq(Entries) /\ Len(t) = L - drop
           /\ Bytes(t)[Len(t)] + Bytes(all)[drop] = bytes + size
           /\ Bytes(t)[Len(t)] \in Nat /\ Bytes(all)[drop] \in Nat
      BY <2>10, <2>8, <2>3
    <2> DEFINE lt == Len(t)
               bt == Bytes(t)[Len(t)]
               ba == Bytes(all)[drop]
               tot == bytes + size - ba
    <2>12. lt = L - drop /\ bt + ba = bytes + size /\ bt \in Nat /\ ba \in Nat
      BY <2>11
    <2>13. total(drop) = tot
      OBVIOUS
    <2> HIDE DEF lt, bt, ba, t
    <2>14. bt = tot
      BY <2>12, <2>3
    <2>15. DocsKept \in Nat \ {0} /\ BytesKept \in Nat
      BY ApiDocumentsAssumption
    <2>16. lt <= DocsKept /\ (lt > 1 => tot <= BytesKept)
      BY <2>4, <2>7, <2>12, <2>13, <2>15
    <2>17. kept.cache = t /\ kept.bytes = tot
      BY <2>1, <2>13
    <2> HIDE DEF kept, total
    <2>18. CacheFits(t, tot)
      BY <2>11, <2>14, <2>16 DEF CacheFits, lt, bt
    <2> QED BY <2>17, <2>18 DEF kept
  <1> QED BY <1>1, <1>2

\* The documents without the one at place i.
LEMMA WithoutOne ==
  ASSUME NEW s \in Seq(Entries), NEW i \in 1..Len(s)
  PROVE  LET t == RemoveAt(s, i) IN
         /\ t \in Seq(Entries) /\ Len(t) = Len(s) - 1
         /\ \A j \in 1..Len(t) : t[j] = IF j < i THEN s[j] ELSE s[j + 1]
  <1> DEFINE m == Len(s)
             h == SubSeq(s, 1, i - 1)
             r == SubSeq(s, i + 1, Len(s))
             t == RemoveAt(s, i)
             k == i - 1
  <1>1. m \in Nat /\ k \in Nat /\ k <= Len(s) /\ i \in Nat /\ i <= m /\ m <= Len(s) /\ k = i - 1
    OBVIOUS
  <1> HIDE DEF k, m
  <1>2. SubSeq(s, 1, k) \in Seq(Entries) /\ Len(SubSeq(s, 1, k)) = k /\ \A j \in 1..k : SubSeq(s, 1, k)[j] = s[j]
    BY <1>1, HeadIs
  <1>3. /\ SubSeq(s, i + 1, m) \in Seq(Entries) /\ Len(SubSeq(s, i + 1, m)) = m - i
        /\ \A j \in 1..(m - i) : SubSeq(s, i + 1, m)[j] = s[i + j]
    BY <1>1, SliceIs
  <1>4. /\ h \in Seq(Entries) /\ Len(h) = k /\ \A j \in 1..k : h[j] = s[j]
        /\ r \in Seq(Entries) /\ Len(r) = m - i /\ \A j \in 1..(m - i) : r[j] = s[i + j]
    BY <1>1, <1>2, <1>3 DEF m
  <1>5. t = h \o r
    BY DEF RemoveAt
  <1> HIDE DEF h, r, t
  <1>6. t \in Seq(Entries) /\ Len(t) = k + (m - i)
    <2>1. h \in Seq(Entries) /\ r \in Seq(Entries)
      BY <1>4
    <2>2. h \o r \in Seq(Entries) /\ Len(h \o r) = Len(h) + Len(r)
      BY <2>1
    <2> QED BY <2>2, <1>4, <1>5
  <1>7. k + (m - i) = m - 1
    BY <1>1
  <1>8. ASSUME NEW j \in 1..Len(t) PROVE t[j] = IF j < i THEN s[j] ELSE s[j + 1]
    <2>1. CASE j < i
      <3>1. j \in 1..k /\ j <= Len(h)
        BY <2>1, <1>1, <1>4
      <3>2. t[j] = h[j]
        BY <3>1, <1>4, <1>5
      <3> QED BY <3>1, <3>2, <2>1, <1>4
    <2>2. CASE ~(j < i)
      <3>1. j - k \in 1..(m - i) /\ j > Len(h) /\ i + (j - k) = j + 1
        BY <2>2, <1>1, <1>4, <1>6, <1>7
      <3>2. t[j] = r[j - k]
        BY <3>1, <1>4, <1>5, <1>6
      <3>3. r[j - k] = s[i + (j - k)]
        BY <3>1, <1>4
      <3> QED BY <3>1, <3>2, <3>3, <2>2
    <2> QED BY <2>1, <2>2
  <1> QED BY <1>1, <1>6, <1>7, <1>8 DEF t, m

\* Taking a document out and putting it at the end leaves the count as it was.
LEMMA MovedAddsUp ==
  ASSUME NEW s \in Seq(Entries), NEW i \in 1..Len(s)
  PROVE  LET u == Append(RemoveAt(s, i), s[i]) IN
         u \in Seq(Entries) /\ Len(u) = Len(s) /\ Bytes(u)[Len(u)] = Bytes(s)[Len(s)]
  <1> DEFINE t == RemoveAt(s, i)
             u == Append(t, s[i])
             m == Len(s)
             l == Len(t)
             k == i - 1
             h == SubSeq(s, 1, k)
             A == Bytes(s)
             B == Bytes(t)
             C == Bytes(h)
  <1>1. m \in Nat /\ k \in Nat /\ k <= Len(s) /\ i \in Nat /\ 1 <= i /\ i <= m /\ k = i - 1 /\ k + 1 = i /\ s[i] \in Entries
    OBVIOUS
  <1>2. t \in Seq(Entries) /\ Len(t) = m - 1 /\ \A j \in 1..Len(t) : t[j] = IF j < i THEN s[j] ELSE s[j + 1]
    BY WithoutOne
  <1> HIDE DEF t, k
  <1>3. h \in Seq(Entries) /\ Len(h) = k /\ \A j \in 1..k : h[j] = s[j]
    BY <1>1, HeadIs
  <1> HIDE DEF h
  <1>4. Sized(s) /\ Sized(t) /\ Sized(h)
    BY <1>2, <1>3, EntriesAreSized
  <1>5. A[0] = 0 /\ (\A n \in 1..Len(s) : A[n] = A[n - 1] + s[n].size) /\ \A n \in 0..Len(s) : A[n] \in Nat
    BY <1>4, BytesIs
  <1>6. B[0] = 0 /\ \A n \in 0..Len(t) : B[n] \in Nat
    BY <1>2, <1>4, BytesIs
  <1>7. C[0] = 0 /\ \A n \in 0..Len(h) : C[n] \in Nat
    BY <1>3, <1>4, BytesIs
  <1> DEFINE z == 0
             o == 1
  <1>8. z \in Nat /\ o \in Nat /\ Shifted(s, h, z, z) /\ Shifted(t, h, z, z) /\ Shifted(s, t, k, o)
    <2>1. Shifted(s, h, z, z)
      BY <1>1, <1>3 DEF Shifted
    <2>2. Shifted(t, h, z, z)
      <3>1. ASSUME NEW j \in 1..Len(h) PROVE h[j] = t[j + z]
        <4>1. j \in 1..k /\ j \in 1..Len(t) /\ j < i /\ j + z = j
          BY <1>1, <1>2, <1>3
        <4> QED BY <4>1, <1>2, <1>3
      <3>2. z <= Len(h) /\ Len(h) + z <= Len(t)
        BY <1>1, <1>2, <1>3
      <3> QED BY <3>1, <3>2 DEF Shifted
    <2>3. Shifted(s, t, k, o)
      BY <1>1, <1>2 DEF Shifted
    <2> QED BY <2>1, <2>2, <2>3
  <1> HIDE DEF z, o
  <1>9. \A n \in 0..Len(h) : n >= z => Bytes(h)[n] + Bytes(s)[z + z] = Bytes(s)[n + z] + Bytes(h)[z]
    BY <1>3, <1>4, <1>8, BytesShift
  <1>10. \A n \in 0..Len(h) : n >= z => Bytes(h)[n] + Bytes(t)[z + z] = Bytes(t)[n + z] + Bytes(h)[z]
    BY <1>2, <1>3, <1>4, <1>8, BytesShift
  <1>11. \A n \in 0..Len(t) : n >= k => Bytes(t)[n] + Bytes(s)[k + o] = Bytes(s)[n + o] + Bytes(t)[k]
    BY <1>1, <1>2, <1>4, <1>8, BytesShift
  <1> HIDE DEF A, B, C, m, l
  <1>12. /\ k \in 0..Len(h) /\ k >= z /\ k + z = k /\ z + z = z /\ k \in 0..Len(t) /\ z = 0
         /\ l \in 0..Len(t) /\ l >= k /\ k + o = i /\ l + o = m /\ i \in 1..Len(s) /\ i - 1 = k /\ m \in 0..Len(s)
         /\ k \in 0..Len(s) /\ i \in 0..Len(s)
    BY <1>1, <1>2, <1>3 DEF z, o, m, l
  <1>13. A[k] = B[k] /\ A[k] \in Nat
    <2>1. C[k] + A[z] = A[k] + C[z] /\ C[k] + B[z] = B[k] + C[z]
      BY <1>9, <1>10, <1>12 DEF A, B, C
    <2>2. C[z] = 0 /\ A[z] = 0 /\ B[z] = 0 /\ C[k] \in Nat /\ A[k] \in Nat /\ B[k] \in Nat
      BY <1>5, <1>6, <1>7, <1>12
    <2> QED BY <2>1, <2>2
  <1>14. B[l] + s[i].size = A[m]
    <2>1. B[l] + A[i] = A[m] + B[k]
      BY <1>11, <1>12 DEF A, B
    <2>2. A[i] = A[k] + s[i].size
      BY <1>5, <1>12
    <2>3. s[i].size \in Nat /\ A[m] \in Nat /\ B[l] \in Nat
      BY <1>1, <1>5, <1>6, <1>12 DEF Entries
    <2> DEFINE p == B[l]
               q == A[m]
               v == s[i].size
               w == A[k]
    <2>4. p + (w + v) = q + w /\ p \in Nat /\ q \in Nat /\ v \in Nat /\ w \in Nat
      BY <2>1, <2>2, <2>3, <1>13
    <2> HIDE DEF p, q, v, w
    <2>5. p + v = q
      BY <2>4
    <2> QED BY <2>5 DEF p, q, v
  <1>15. /\ u \in Seq(Entries) /\ Len(u) = Len(t) + 1
         /\ Bytes(u)[Len(u)] = Bytes(t)[Len(t)] + s[i].size
    BY <1>1, <1>2, BytesAppend
  <1> HIDE DEF u
  <1>16. Len(t) + 1 = m
    BY <1>1, <1>2
  <1> QED BY <1>14, <1>15, <1>16 DEF u, t, l, m, A, B

\* The invariant of the cache holds at the start.
LEMMA ApiCacheStart == CInit => ApiCacheInv
  <1> SUFFICES ASSUME CInit PROVE ApiCacheInv
    OBVIOUS
  <1> DEFINE r0 == [at |-> "idle", path |-> "", media |-> "", file |-> NoRef, out |-> "none"]
  <1>1. r0 \in ReaderType /\ r0.at = "idle"
    BY DEF ReaderType
  <1>2. reader = [w \in Readers |-> r0]
    BY DEF CInit
  <1> HIDE DEF r0
  <1>3. reader \in [Readers -> ReaderType] /\ \A w \in Readers : reader[w].at # "parsing"
    BY <1>1, <1>2
  <1>4. CacheFits(docCache, cachedBytes)
    <2> DEFINE e == <<>>
    <2>1. e \in Seq(Entries) /\ Len(e) = 0
      OBVIOUS
    <2>2. docCache = e /\ cachedBytes = 0
      BY DEF CInit
    <2> HIDE DEF e
    <2>3. Bytes(e)[0] = 0
      BY <2>1, EntriesAreSized, BytesIs
    <2> QED BY <2>1, <2>2, <2>3, ApiDocumentsAssumption DEF CacheFits
  <1> QED BY <1>3, <1>4 DEF CInit, ApiCacheInv

\* Every step keeps the invariant of the cache.
LEMMA ApiCacheHolds == ApiCacheInv /\ [CNext]_cVars => ApiCacheInv'
  <1> SUFFICES ASSUME ApiCacheInv, [CNext]_cVars PROVE ApiCacheInv'
    OBVIOUS
  <1>0. /\ onDisk \in [ApiPaths -> ApiFiles] /\ reader \in [Readers -> ReaderType]
        /\ \A w \in Readers : reader[w].at = "parsing" => reader[w].path \in ApiPaths /\ reader[w].file \in ApiFiles
        /\ CacheFits(docCache, cachedBytes)
    BY DEF ApiCacheInv
  <1>a. ASSUME UNCHANGED <<onDisk, docCache, cachedBytes>>, NEW w \in Readers, NEW rec \in ReaderType, rec.at # "parsing",
               reader' = [reader EXCEPT ![w] = rec]
        PROVE  ApiCacheInv'
    <2>1. reader' \in [Readers -> ReaderType] /\ \A x \in Readers : reader'[x] = rec \/ reader'[x] = reader[x]
      BY <1>a, <1>0
    <2> QED BY <1>0, <1>a, <2>1 DEF ApiCacheInv
  <1>1. ASSUME NEW w \in Readers, NEW p \in ApiPaths, NEW media \in {"json", "yaml"}, LoadApiDocument(w, p, media)
        PROVE  ApiCacheInv'
    <2> DEFINE f == onDisk[p]
               rec(where, out) == [at |-> where, path |-> p, media |-> media, file |-> f, out |-> out]
    <2>0. f \in ApiFiles /\ onDisk' = onDisk /\ cachedBytes' = cachedBytes
      BY <1>0, <1>1 DEF LoadApiDocument
    <2>1. \A where \in {"idle", "parsing", "holds"}, out \in {"none", "served", "refused"} :
            rec(where, out) \in ReaderType /\ rec(where, out).at = where /\ rec(where, out).path = p /\ rec(where, out).file = f
      BY <2>0 DEF ReaderType
    <2>2. \E where \in {"idle", "parsing", "holds"}, out \in {"none", "served", "refused"} : reader' = [reader EXCEPT ![w] = rec(where, out)]
      BY <1>1 DEF LoadApiDocument
    <2> HIDE DEF rec
    <2>3. /\ reader' \in [Readers -> ReaderType]
          /\ \A x \in Readers : reader'[x].at = "parsing" => reader'[x].path \in ApiPaths /\ reader'[x].file \in ApiFiles
      <3>1. PICK where \in {"idle", "parsing", "holds"}, out \in {"none", "served", "refused"} : reader' = [reader EXCEPT ![w] = rec(where, out)]
        BY <2>2
      <3> DEFINE v == rec(where, out)
      <3>2. v \in ReaderType /\ v.path = p /\ v.file = f
        BY <2>1
      <3> HIDE DEF v
      <3>3. reader' \in [Readers -> ReaderType] /\ \A x \in Readers : reader'[x] = v \/ reader'[x] = reader[x]
        BY <3>1, <3>2, <1>0 DEF v
      <3> QED BY <3>2, <3>3, <2>0, <1>0
    <2>4. CacheFits(docCache', cachedBytes')
      <3>1. CASE docCache' = docCache
        BY <3>1, <2>0, <1>0
      <3>2. CASE Cached(DocKey(p, f)) /\ docCache' = MovedToEnd(DocKey(p, f))
        <4> DEFINE k == DocKey(p, f)
                   i == CHOOSE n \in DOMAIN docCache : docCache[n].key = k
                   s == docCache
                   u == Append(RemoveAt(s, i), s[i])
        <4>1. \E n \in DOMAIN docCache : docCache[n].key = k
          BY <3>2 DEF Cached
        <4>2. i \in DOMAIN docCache
          BY <4>1
        <4>3. docCache' = u
          BY <3>2 DEF MovedToEnd
        <4> HIDE DEF i, k
        <4>4. s \in Seq(Entries) /\ i \in 1..Len(s)
          BY <4>2, <1>0 DEF CacheFits
        <4>5. u \in Seq(Entries) /\ Len(u) = Len(s) /\ Bytes(u)[Len(u)] = Bytes(s)[Len(s)]
          BY <4>4, MovedAddsUp
        <4> HIDE DEF u
        <4> QED BY <4>3, <4>5, <2>0, <1>0 DEF CacheFits
      <3> QED BY <3>1, <3>2, <1>1 DEF LoadApiDocument
    <2> QED BY <2>0, <2>3, <2>4, <1>0 DEF ApiCacheInv, CacheFits
  <1>2. ASSUME NEW w \in Readers, Checked(w) PROVE ApiCacheInv'
    <2> DEFINE rec == reader[w]
               k == DocKey(rec.path, rec.file)
               kept == Remember(docCache, cachedBytes, k, rec.file.size)
    <2>1. rec \in ReaderType /\ rec.at = "parsing" /\ rec.path \in ApiPaths /\ rec.file \in ApiFiles /\ onDisk' = onDisk
      BY <1>0, <1>2 DEF Checked
    <2>2. k \in DocKeys /\ rec.file.size \in Nat
      BY <2>1, ApiDocumentsAssumption DEF DocKey, DocKeys
    <2>3. CacheFits(kept.cache, kept.bytes)
      <3> HIDE DEF k
      <3> QED BY <2>2, <1>0, RememberFits
    <2>4. \/ UNCHANGED <<docCache, cachedBytes>>
          \/ docCache' = kept.cache /\ cachedBytes' = kept.bytes
      BY <1>2 DEF Checked
    <2>5. CacheFits(docCache', cachedBytes')
      BY <2>3, <2>4, <1>0
    <2>6. \E where \in {"idle", "holds"}, out \in {"refused", "served"} :
             reader' = [reader EXCEPT ![w] = [[rec EXCEPT !.at = where] EXCEPT !.out = out]]
      <3>1. reader' = [reader EXCEPT ![w].at = "idle", ![w].out = "refused"] \/ reader' = [reader EXCEPT ![w].at = "holds", ![w].out = "served"]
        BY <1>2 DEF Checked
      <3>2. ASSUME NEW where, NEW out
            PROVE  [reader EXCEPT ![w].at = where, ![w].out = out] = [reader EXCEPT ![w] = [[rec EXCEPT !.at = where] EXCEPT !.out = out]]
        <4> DEFINE r1 == [reader EXCEPT ![w].at = where]
        <4>1. r1 = [reader EXCEPT ![w] = [rec EXCEPT !.at = where]]
          BY <1>0
        <4>2. r1[w] = [rec EXCEPT !.at = where]
          BY <4>1, <1>0
        <4> QED BY <4>1, <4>2, <1>0
      <3> QED BY <3>1, <3>2
    <2>7. PICK where \in {"idle", "holds"}, out \in {"refused", "served"} :
             reader' = [reader EXCEPT ![w] = [[rec EXCEPT !.at = where] EXCEPT !.out = out]]
      BY <2>6
    <2> DEFINE v1 == [rec EXCEPT !.at = where]
               v == [v1 EXCEPT !.out = out]
    <2>8. v1 \in ReaderType /\ v1.at = where
      BY <2>1 DEF ReaderType
    <2> HIDE DEF v1
    <2>9. v \in ReaderType /\ v.at = where
      BY <2>8 DEF ReaderType
    <2>10. reader' = [reader EXCEPT ![w] = v]
      BY <2>7 DEF v1
    <2> HIDE DEF v
    <2>11. reader' \in [Readers -> ReaderType] /\ \A x \in Readers : reader'[x] = v \/ reader'[x] = reader[x]
      BY <2>9, <2>10, <1>0
    <2> QED BY <2>1, <2>5, <2>9, <2>11, <1>0 DEF ApiCacheInv, CacheFits
  <1>3. ASSUME UNCHANGED <<onDisk, docCache, cachedBytes>>, NEW w \in Readers, reader[w].at = "holds",
               reader' = [reader EXCEPT ![w].at = "idle"] \/ \E out \in {"indexed", "translated"} : reader' = [reader EXCEPT ![w].out = out]
        PROVE  ApiCacheInv'
    <2> DEFINE rec == reader[w]
               v1 == [rec EXCEPT !.at = "idle"]
               v2(out) == [rec EXCEPT !.out = out]
    <2>1. rec \in ReaderType /\ rec.at = "holds"
      BY <1>0, <1>3
    <2>2. v1 \in ReaderType /\ v1.at = "idle"
      BY <2>1 DEF ReaderType
    <2>3. \A out \in {"indexed", "translated"} : v2(out) \in ReaderType /\ v2(out).at = "holds"
      BY <2>1 DEF ReaderType
    <2>4. reader' = [reader EXCEPT ![w] = v1] \/ \E out \in {"indexed", "translated"} : reader' = [reader EXCEPT ![w] = v2(out)]
      BY <1>3
    <2> HIDE DEF v1, v2
    <2>5. CASE reader' = [reader EXCEPT ![w] = v1]
      BY <2>2, <2>5, <1>3, <1>a
    <2>6. CASE \E out \in {"indexed", "translated"} : reader' = [reader EXCEPT ![w] = v2(out)]
      <3>1. PICK out \in {"indexed", "translated"} : reader' = [reader EXCEPT ![w] = v2(out)]
        BY <2>6
      <3> QED BY <3>1, <2>3, <1>3, <1>a
    <2> QED BY <2>4, <2>5, <2>6
  <1>4. ASSUME NEW w \in Readers, OperationIndex(w) \/ Resource(w) \/ \E p \in Probes : SchemaProblems(w, p) PROVE ApiCacheInv'
    <2>1. UNCHANGED <<onDisk, docCache, cachedBytes>> /\ reader[w].at = "holds"
      BY <1>4 DEF OperationIndex, Resource, SchemaProblems
    <2>2. reader' = [reader EXCEPT ![w].at = "idle"] \/ \E out \in {"indexed", "translated"} : reader' = [reader EXCEPT ![w].out = out]
      BY <1>4 DEF OperationIndex, Resource, SchemaProblems
    <2> QED BY <2>1, <2>2, <1>3
  <1>5. ASSUME NEW p \in ApiPaths, NEW f \in ApiFiles, FileEdited(p, f) PROVE ApiCacheInv'
    <2>1. onDisk' \in [ApiPaths -> ApiFiles] /\ UNCHANGED <<docCache, cachedBytes, reader>>
      BY <1>5, <1>0 DEF FileEdited
    <2> QED BY <2>1, <1>0 DEF ApiCacheInv, CacheFits
  <1>6. CASE Forget
    <2> DEFINE e == <<>>
    <2>1. e \in Seq(Entries) /\ Len(e) = 0
      OBVIOUS
    <2>2. docCache' = e /\ cachedBytes' = 0 /\ UNCHANGED <<onDisk, reader>>
      BY <1>6 DEF Forget
    <2> HIDE DEF e
    <2>3. Bytes(e)[0] = 0
      BY <2>1, EntriesAreSized, BytesIs
    <2>4. CacheFits(docCache', cachedBytes')
      BY <2>1, <2>2, <2>3, ApiDocumentsAssumption DEF CacheFits
    <2> QED BY <2>2, <2>4, <1>0 DEF ApiCacheInv, CacheFits
  <1>7. CASE UNCHANGED cVars
    BY <1>7, <1>0 DEF cVars, ApiCacheInv, CacheFits
  <1> QED BY <1>1, <1>2, <1>4, <1>5, <1>6, <1>7 DEF CNext, CNextWith

\* The byte count is that of the documents kept and both limits hold, whatever threads, files,
\* edits and limits there are: _remember runs after a parse without the lock.
THEOREM CacheAlwaysAddsUp == CSpec => []CacheAddsUp
  <1>1. ApiCacheInv => CacheAddsUp BY DEF ApiCacheInv, CacheFits, CacheAddsUp
  <1> QED BY ApiCacheStart, ApiCacheHolds, <1>1, PTL DEF CSpec

-----------------------------------------------------------------------------
(* ApiCalls: whose answers are judged. *)

IsSequence(s) == \E S : s \in Seq(S)

\* Each answer the journal kept is one the test received.
KeptFromTest(j, answered) ==
    \A k \in DOMAIN j : /\ j[k].answer.status \in Nat
                        /\ \E i \in DOMAIN answered : answered[i].name = j[k].name /\ answered[i].answer.status = j[k].answer.status

JournalInv ==
    /\ IsSequence(received) /\ IsSequence(journal) /\ KeptFromTest(journal, received)
    /\ JudgesThisTest

\* A sequence stays one when an element is put at its end.
LEMMA AppendIsSequence ==
  ASSUME NEW s, IsSequence(s), NEW e
  PROVE  /\ IsSequence(Append(s, e)) /\ Len(s) \in Nat /\ Len(Append(s, e)) = Len(s) + 1
         /\ DOMAIN s = 1..Len(s) /\ DOMAIN Append(s, e) = 1..(Len(s) + 1)
         /\ Append(s, e)[Len(s) + 1] = e /\ \A i \in DOMAIN s : Append(s, e)[i] = s[i]
  <1>1. PICK S : s \in Seq(S)
    BY DEF IsSequence
  <1> DEFINE R == S \cup {e}
             n == Len(s)
  <1>2. n \in Nat /\ s \in [1..n -> S]
    BY <1>1
  <1>3. s \in [1..n -> R]
    BY <1>2
  <1>4. s \in Seq(R)
    BY <1>2, <1>3, SeqDef
  <1> HIDE DEF R, n
  <1>5. e \in R
    BY DEF R
  <1>6. Append(s, e) \in Seq(R)
    BY <1>4, <1>5
  <1> QED BY <1>4, <1>5, <1>6 DEF IsSequence, n

\* The newest n elements of a sequence are elements of it.
LEMMA NewestAreOf ==
  ASSUME NEW s, IsSequence(s), NEW n \in Nat
  PROVE  /\ IsSequence(NewestOf(s, n))
         /\ \A i \in DOMAIN NewestOf(s, n) : \E k \in DOMAIN s : NewestOf(s, n)[i] = s[k]
  <1>1. PICK S : s \in Seq(S)
    BY DEF IsSequence
  <1>2. CASE Len(s) > n
    <2> DEFINE m == Len(s)
               d == m - n
    <2>1. m \in Nat /\ d \in Nat /\ d <= m /\ m <= Len(s)
      BY <1>1, <1>2
    <2>2. NewestOf(s, n) = SubSeq(s, d + 1, m)
      BY <1>2 DEF NewestOf
    <2> DEFINE r == SubSeq(s, d + 1, m)
    <2> HIDE DEF d, m
    <2>3. r \in Seq(S) /\ Len(r) = m - d /\ \A i \in 1..(m - d) : r[i] = s[d + i]
      BY <1>1, <2>1, SliceIs
    <2>4. \A i \in 1..(m - d) : d + i \in 1..Len(s)
      BY <2>1
    <2>5. DOMAIN r = 1..(m - d) /\ DOMAIN s = 1..Len(s)
      BY <1>1, <2>3
    <2> HIDE DEF r
    <2> QED BY <2>2, <2>3, <2>4, <2>5 DEF IsSequence, r
  <1>3. CASE ~(Len(s) > n)
    BY <1>3 DEF NewestOf
  <1> QED BY <1>2, <1>3

\* An answer noted is one more received.
LEMMA NotedFits ==
  ASSUME JournalInv, NEW step, NEW o, NEW a \in ApiAnswers, NEW expect, NEW newest,
         newest.name = Label(o), newest.answer = a
  PROVE  /\ IsSequence(Append(received, newest)) /\ IsSequence(Noted(journal, step, o, a, expect))
         /\ KeptFromTest(Noted(journal, step, o, a, expect), Append(received, newest))
         /\ DOMAIN received \subseteq DOMAIN Append(received, newest)
         /\ \A i \in DOMAIN received : Append(received, newest)[i] = received[i]
  <1> DEFINE e == [step |-> step, doc |-> "api", name |-> Label(o), expect |-> expect,
                   answer |-> IF a.status >= 400 THEN a ELSE [a EXCEPT !.body = "absent", !.leak = "no"]]
             j == Append(journal, e)
             answered == Append(received, newest)
             new == Noted(journal, step, o, a, expect)
  <1>1. "status" \in DOMAIN a /\ a.status \in Nat /\ MaxExchanges \in Nat
    BY ApiCallsAssumption
  <1>2. e.name = Label(o) /\ e.answer.status = a.status
    BY <1>1
  <1>3. IsSequence(journal) /\ IsSequence(received) /\ KeptFromTest(journal, received)
    BY DEF JournalInv
  <1> HIDE DEF e
  <1>4. /\ IsSequence(j) /\ DOMAIN journal = 1..Len(journal) /\ DOMAIN j = 1..(Len(journal) + 1) /\ Len(journal) \in Nat
        /\ j[Len(journal) + 1] = e /\ \A i \in DOMAIN journal : j[i] = journal[i]
    BY <1>3, AppendIsSequence
  <1>5. /\ IsSequence(answered) /\ DOMAIN received = 1..Len(received) /\ DOMAIN answered = 1..(Len(received) + 1) /\ Len(received) \in Nat
        /\ answered[Len(received) + 1] = newest /\ \A i \in DOMAIN received : answered[i] = received[i]
    BY <1>3, AppendIsSequence
  <1>6. new = NewestOf(j, MaxExchanges)
    BY DEF Noted, e
  <1> HIDE DEF j, answered, new
  <1>7. IsSequence(new) /\ \A i \in DOMAIN new : \E k \in DOMAIN j : new[i] = j[k]
    BY SMTT(60), <1>1, <1>4, <1>6, NewestAreOf
  <1>8. ASSUME NEW k \in DOMAIN j
        PROVE  j[k].answer.status \in Nat /\ \E i \in DOMAIN answered : answered[i].name = j[k].name /\ answered[i].answer.status = j[k].answer.status
    <2>1. CASE k \in DOMAIN journal
      <3>1. PICK i \in DOMAIN received : received[i].name = journal[k].name /\ received[i].answer.status = journal[k].answer.status
        BY <2>1, <1>3 DEF KeptFromTest
      <3>2. i \in DOMAIN answered /\ answered[i] = received[i]
        BY <3>1, <1>5
      <3> QED BY <2>1, <3>1, <3>2, <1>3, <1>4 DEF KeptFromTest
    <2>2. CASE k = Len(journal) + 1
      <3>1. Len(received) + 1 \in DOMAIN answered
        BY <1>5
      <3> QED BY <3>1, <2>2, <1>1, <1>2, <1>4, <1>5
    <2> QED BY <2>1, <2>2, <1>4
  <1>9. KeptFromTest(new, answered)
    BY <1>7, <1>8 DEF KeptFromTest
  <1> QED BY <1>5, <1>7, <1>9 DEF answered, new

\* What error_problems finds is of an error among the answers looked at.
LEMMA ProblemsAreErrors ==
  ASSUME NEW ops, NEW es, NEW format, NEW leaks, \A i \in DOMAIN es : es[i].answer.status \in Nat,
         NEW p \in ErrorProblems(ops, es, format, leaks)
  PROVE  p[1] \in DOMAIN es /\ es[p[1]].answer.status >= 400
  <1> DEFINE At(i) == (IF SentWrong(es[i].expect) /\ es[i].answer.status >= 500 THEN {<<i, "client_errors">>} ELSE {})
                      \cup (IF es[i].answer.status < 400 THEN {} ELSE
                            {<<i, c>> : c \in FormatProblems(ops, es[i], format)}
                            \cup (IF leaks = "yes" /\ es[i].answer.leak = "yes" THEN {<<i, "leaks">>} ELSE {}))
  <1>1. PICK i \in DOMAIN es : p \in At(i)
    BY DEF ErrorProblems
  <1>2. p[1] = i /\ (es[i].answer.status >= 500 \/ ~(es[i].answer.status < 400))
    BY <1>1
  <1>3. es[i].answer.status \in Nat
    OBVIOUS
  <1> QED BY <1>2, <1>3

\* The invariant of the journal holds at the start.
LEMMA JournalStart == EInit => JournalInv
  <1> SUFFICES ASSUME EInit PROVE JournalInv
    OBVIOUS
  <1> DEFINE e == <<>>
  <1>1. e \in Seq({}) /\ DOMAIN e = {}
    OBVIOUS
  <1>2. journal = e /\ received = e /\ apiVerdict.of = "none"
    BY DEF EInit
  <1> HIDE DEF e
  <1> QED BY <1>1, <1>2 DEF JournalInv, IsSequence, KeptFromTest, JudgesThisTest

\* Every step keeps the invariant of the journal.
LEMMA JournalHolds == JournalInv /\ [ENext]_aVarsC => JournalInv'
  <1> SUFFICES ASSUME JournalInv, [ENext]_aVarsC PROVE JournalInv'
    OBVIOUS
  <1>a. ASSUME UNCHANGED <<journal, received, apiVerdict>> PROVE JournalInv'
    BY <1>a DEF JournalInv, IsSequence, KeptFromTest, JudgesThisTest
  <1>b. ASSUME NEW step, NEW o, NEW a \in ApiAnswers, NEW expect, NEW newest, newest.name = Label(o), newest.answer = a,
               journal' = Noted(journal, step, o, a, expect), received' = Append(received, newest), apiVerdict' = apiVerdict
        PROVE  JournalInv'
    <2> DEFINE answered == Append(received, newest)
               new == Noted(journal, step, o, a, expect)
    <2>1. /\ IsSequence(answered) /\ IsSequence(new) /\ KeptFromTest(new, answered)
          /\ DOMAIN received \subseteq DOMAIN answered /\ \A i \in DOMAIN received : answered[i] = received[i]
      BY <1>b, NotedFits
    <2>2. journal' = new /\ received' = answered
      BY <1>b
    <2> HIDE DEF answered, new
    <2>3. JudgesThisTest'
      <3> SUFFICES ASSUME apiVerdict.of = "errors", NEW p \in apiVerdict.found
                   PROVE  \E i \in DOMAIN answered : answered[i].name = p[1] /\ answered[i].answer.status >= 400
        BY <1>b, <2>2 DEF JudgesThisTest
      <3>1. PICK i \in DOMAIN received : received[i].name = p[1] /\ received[i].answer.status >= 400
        BY DEF JournalInv, JudgesThisTest
      <3> QED BY <3>1, <2>1
    <2> QED BY <2>1, <2>2, <2>3 DEF JournalInv, IsSequence, KeptFromTest
  <1>c. ASSUME NEW newest, journal' = journal, received' = Append(received, newest), apiVerdict' = apiVerdict
        PROVE  JournalInv'
    <2> DEFINE answered == Append(received, newest)
    <2>1. IsSequence(received) /\ IsSequence(journal) /\ KeptFromTest(journal, received) /\ JudgesThisTest
      BY DEF JournalInv
    <2>2. /\ IsSequence(answered) /\ DOMAIN received = 1..Len(received) /\ DOMAIN answered = 1..(Len(received) + 1)
          /\ Len(received) \in Nat /\ \A i \in DOMAIN received : answered[i] = received[i]
      BY <2>1, AppendIsSequence
    <2> HIDE DEF answered
    <2>3. DOMAIN received \subseteq DOMAIN answered
      BY <2>2
    <2>4. KeptFromTest(journal, answered)
      BY <2>1, <2>2, <2>3 DEF KeptFromTest
    <2>5. JudgesThisTest'
      <3> SUFFICES ASSUME apiVerdict.of = "errors", NEW p \in apiVerdict.found
                   PROVE  \E i \in DOMAIN answered : answered[i].name = p[1] /\ answered[i].answer.status >= 400
        BY <1>c DEF JudgesThisTest, answered
      <3>1. PICK i \in DOMAIN received : received[i].name = p[1] /\ received[i].answer.status >= 400
        BY <2>1 DEF JudgesThisTest
      <3> QED BY <3>1, <2>2, <2>3
    <2>6. received' = answered
      BY <1>c DEF answered
    <2> QED BY <1>c, <2>1, <2>2, <2>4, <2>5, <2>6 DEF JournalInv, IsSequence, KeptFromTest
  <1>1. ASSUME NEW c \in SingleCalls, NEW a \in ApiAnswers, ApiRequest(c, a) PROVE JournalInv'
    <2> DEFINE o == Find(Build(c.doc), c.name)
               x == CHOOSE y \in o : TRUE
               newest == [step |-> "call", name |-> Label(x), answer |-> a, expect |-> c.expect]
    <2>1. journal' = Noted(journal, "call", x, a, c.expect) /\ received' = Append(received, newest) /\ apiVerdict' = apiVerdict
      BY <1>1 DEF ApiRequest
    <2>2. newest.name = Label(x) /\ newest.answer = a
      OBVIOUS
    <2> HIDE DEF x, newest
    <2> QED BY <2>1, <2>2, <1>b
  <1>2. ASSUME NEW e \in Expects, NEW p \in {"yes", "no"}, ApiResponseCheck(e, p) PROVE JournalInv'
    <2>1. apiVerdict'.of = "response" /\ UNCHANGED <<journal, received>>
      BY <1>2 DEF ApiResponseCheck
    <2> QED BY <2>1 DEF JournalInv, IsSequence, KeptFromTest, JudgesThisTest
  <1>3. ASSUME NEW d, NEW st, NEW format, NEW leaks, ApiErrors(d, st, format, leaks) PROVE JournalInv'
    <2> DEFINE S == {e \in ToSet(journal) : st = {} \/ e.step \in st}
               es == Filter(journal, S)
               found == {<<es[p[1]].name, p[2]>> : p \in ErrorProblems(Build(d), es, format, leaks)}
    <2>1. apiVerdict' = [of |-> "errors", found |-> found] /\ UNCHANGED <<journal, received>>
      BY <1>3 DEF ApiErrors
    <2>2. PICK T : journal \in Seq(T)
      BY DEF JournalInv, IsSequence
    <2> HIDE DEF S
    <2>3. es \in Seq(T) /\ \E g : KeptFrom(es, journal, S, Len(journal), g)
      BY <2>2, FilterFacts
    <2>4. PICK g : KeptFrom(es, journal, S, Len(journal), g)
      BY <2>3
    <2>5. DOMAIN es = 1..Len(es) /\ DOMAIN journal = 1..Len(journal)
      BY <2>2, <2>3
    <2> HIDE DEF es
    <2>6. \A i \in DOMAIN es : g[i] \in DOMAIN journal /\ es[i] = journal[g[i]]
      BY <2>4, <2>5 DEF KeptFrom
    <2>7. \A i \in DOMAIN es : es[i].answer.status \in Nat
      BY <2>6 DEF JournalInv, KeptFromTest
    <2>8. ASSUME NEW q \in found PROVE \E i \in DOMAIN received : received[i].name = q[1] /\ received[i].answer.status >= 400
      <3>1. PICK p \in ErrorProblems(Build(d), es, format, leaks) : q = <<es[p[1]].name, p[2]>>
        OBVIOUS
      <3>2. p[1] \in DOMAIN es /\ es[p[1]].answer.status >= 400
        BY <2>7, ProblemsAreErrors
      <3>3. PICK i \in DOMAIN received : /\ received[i].name = es[p[1]].name
                                         /\ received[i].answer.status = es[p[1]].answer.status
        BY <3>2, <2>6 DEF JournalInv, KeptFromTest
      <3>4. q[1] = es[p[1]].name
        BY <3>1
      <3> QED BY <3>2, <3>3, <3>4
    <2> HIDE DEF found
    <2> QED BY <2>1, <2>8 DEF JournalInv, IsSequence, KeptFromTest, JudgesThisTest
  <1>4. CASE NextTest
    <2> DEFINE e == <<>>
    <2>1. e \in Seq({}) /\ DOMAIN e = {}
      OBVIOUS
    <2>2. journal' = e /\ received' = e /\ apiVerdict'.of = "none"
      BY <1>4 DEF NextTest, JournalAtStart
    <2> HIDE DEF e
    <2> QED BY <2>1, <2>2 DEF JournalInv, IsSequence, KeptFromTest, JudgesThisTest
  <1>5. ASSUME NEW o, NEW a \in ApiAnswers, SweptCallAnswers(o, a) PROVE JournalInv'
    <2> DEFINE newest == [step |-> "sweep", name |-> Label(o), answer |-> a, expect |-> NoExpectation]
    <2>1. journal' = Noted(journal, "sweep", o, a, NoExpectation) /\ received' = Append(received, newest) /\ apiVerdict' = apiVerdict
      BY <1>5 DEF SweptCallAnswers, Heard
    <2>2. newest.name = Label(o) /\ newest.answer = a
      OBVIOUS
    <2> HIDE DEF newest
    <2> QED BY <2>1, <2>2, <1>b
  <1>8. ASSUME NEW o, NEW a \in ApiAnswers, JudgingRaises(o, a) PROVE JournalInv'
    <2> DEFINE newest == [step |-> "sweep", name |-> Label(o), answer |-> a, expect |-> NoExpectation]
    <2>1. /\ journal' = journal \/ journal' = Noted(journal, "sweep", o, a, NoExpectation)
          /\ received' = Append(received, newest) /\ apiVerdict' = apiVerdict
      BY <1>8 DEF JudgingRaises, Heard
    <2>2. newest.name = Label(o) /\ newest.answer = a
      OBVIOUS
    <2> HIDE DEF newest
    <2>3. CASE journal' = Noted(journal, "sweep", o, a, NoExpectation)
      BY <2>1, <2>2, <2>3, <1>b
    <2>4. CASE journal' = journal
      BY <2>1, <2>4, <1>c
    <2> QED BY <2>1, <2>3, <2>4
  <1>6. ASSUME \/ \E q \in Sweeps : SweepStarts(q)
               \/ CallStarts \/ BudgetSpent \/ SweepEnds \/ SweepReturns
               \/ \E o \in sweep.flying : CallFails(o)
        PROVE  JournalInv'
    <2>1. UNCHANGED <<journal, received, apiVerdict>>
      BY <1>6 DEF SweepStarts, CallStarts, BudgetSpent, SweepEnds, SweepReturns, CallFails
    <2> QED BY <2>1, <1>a
  <1>7. CASE UNCHANGED aVarsC
    BY <1>7, <1>a DEF aVarsC
  <1> QED BY <1>1, <1>2, <1>3, <1>4, <1>5, <1>6, <1>7, <1>8 DEF ENext

\* api_errors judges this test's answers, whatever documents, sweeps, answers and limits there are.
THEOREM OnlyThisTestIsJudged == ESpec => []JudgesThisTest
  <1>1. JournalInv => JudgesThisTest BY DEF JournalInv, JudgesThisTest
  <1> QED BY JournalStart, JournalHolds, <1>1, PTL DEF ESpec

-----------------------------------------------------------------------------
(* ApiCalls: what the table of a sweep tells. *)

\* The operations a sweep has done with.
DoneWith(s) == s.scope \ (ToSet(s.waiting) \cup s.flying)

\* What a row says of its operation is what was sent.
RowTells(s, o) == Tells(s, s.rows[o.location], o)

SweepFields == {"at", "q", "ops", "scope", "waiting", "flying", "rows", "budget", "sent", "heard", "results"}

\* The operations in scope wait, are in flight, or have their row.
SweepFits(s) ==
    /\ DOMAIN s = SweepFields /\ s.budget \in {"left", "spent"}
    /\ IsSequence(s.ops) /\ s.scope \subseteq ToSet(s.ops)
    /\ s.waiting \in Seq(s.scope) /\ s.flying \subseteq s.scope
    /\ \A x \in s.sent : x[1] \in s.scope /\ x[2] = "left"
    /\ \A h \in s.heard : <<h[1], "left">> \in s.sent
    /\ \A o \in s.flying : <<o, "left">> \in s.sent
    /\ Distinct(s.ops) =>
         /\ \A i, k \in DOMAIN s.waiting : s.waiting[i] = s.waiting[k] => i = k
         /\ \A o \in ToSet(s.waiting) : o \notin s.flying /\ \A x \in s.sent : x[1] # o
         /\ \A o \in s.flying : \A h \in s.heard : h[1] # o
         /\ DOMAIN s.rows = {o.location : o \in DoneWith(s)}
         /\ \A o \in DoneWith(s) : RowTells(s, o)

SweepInv ==
    /\ sweep.at \in {"idle", "running", "done"}
    /\ sweep.at # "idle" => SweepFits(sweep)
    /\ SweepTellsEach

BuiltStep(F, d, n) == IF n = 0 THEN <<>> ELSE F[n - 1] \o OperationsAt(d, d.paths[n])

\* The recursion of Built has a solution.
LEMMA BuiltExists ==
  ASSUME NEW d, NEW m \in Nat
  PROVE  \E F : F = [n \in 0..m |-> BuiltStep(F, d, n)]
  <1> DEFINE T == {k \in Nat : \E F : F = [n \in 0..k |-> BuiltStep(F, d, n)]}
  <1>1. 0 \in T
    <2> DEFINE F0 == [n \in 0..0 |-> <<>>]
    <2>1. F0 = [n \in 0..0 |-> BuiltStep(F0, d, n)]
      BY DEF BuiltStep
    <2> QED BY <2>1
  <1>2. ASSUME NEW k \in Nat, k \in T PROVE k + 1 \in T
    <2>1. PICK F : F = [n \in 0..k |-> BuiltStep(F, d, n)]
      BY <1>2
    <2> DEFINE G == [n \in 0..(k + 1) |-> IF n = k + 1 THEN BuiltStep(F, d, n) ELSE F[n]]
    <2>2. ASSUME NEW n \in 0..(k + 1) PROVE G[n] = BuiltStep(G, d, n)
      <3>1. BuiltStep(G, d, n) = BuiltStep(F, d, n)
        <4>1. n # 0 => n - 1 \in 0..(k + 1) /\ n - 1 # k + 1
          OBVIOUS
        <4>2. n # 0 => G[n - 1] = F[n - 1]
          BY <4>1
        <4> QED BY <4>2 DEF BuiltStep
      <3>2. n # k + 1 => n \in 0..k /\ F[n] = BuiltStep(F, d, n)
        BY <2>1
      <3> QED BY <3>1, <3>2
    <2>3. G = [n \in 0..(k + 1) |-> BuiltStep(G, d, n)]
      BY <2>2
    <2> HIDE DEF G
    <2>4. \E H : H = [n \in 0..(k + 1) |-> BuiltStep(H, d, n)]
      BY <2>3
    <2> QED BY <2>4
  <1> HIDE DEF T
  <1>3. Nat \subseteq T
    BY <1>1, <1>2, SetInduction
  <1> QED BY <1>3 DEF T

\* Two sequences one after the other are one.
LEMMA ConcatIsSequence ==
  ASSUME NEW s, IsSequence(s), NEW t, IsSequence(t)
  PROVE  IsSequence(s \o t)
  <1>1. PICK S : s \in Seq(S)
    BY DEF IsSequence
  <1>2. PICK R : t \in Seq(R)
    BY DEF IsSequence
  <1> DEFINE Q == S \cup R
  <1>3. s \in [1..Len(s) -> S] /\ t \in [1..Len(t) -> R] /\ Len(s) \in Nat /\ Len(t) \in Nat
    BY <1>1, <1>2
  <1>4. s \in [1..Len(s) -> Q] /\ t \in [1..Len(t) -> Q]
    BY <1>3
  <1>5. s \in Seq(Q) /\ t \in Seq(Q)
    BY <1>3, <1>4, SeqDef
  <1> HIDE DEF Q
  <1>6. s \o t \in Seq(Q)
    BY <1>5
  <1> QED BY <1>6 DEF IsSequence

\* The operations of a document are a sequence.
LEMMA BuildIsSequence ==
  ASSUME NEW q \in Sweeps
  PROVE  IsSequence(Build(q.doc))
  <1> DEFINE d == q.doc
             m == Len(d.paths)
             F == Built(d)
  <1>1. d.paths \in Seq(ToSet(d.paths)) /\ m \in Nat
    BY ApiCallsAssumption
  <1>2. \A p \in ToSet(d.paths) : LET at == Follow(d, p.at) IN at # "lost" => d.items[at] \in Seq(ToSet(d.items[at]))
    BY ApiCallsAssumption
  <1> HIDE DEF d
  <1>3. \E H : H = [n \in 0..m |-> BuiltStep(H, d, n)]
    <2> HIDE DEF m
    <2> QED BY <1>1, BuiltExists
  <1>4. Built(d) = [n \in 0..Len(d.paths) |-> BuiltStep(Built(d), d, n)]
    BY <1>3, Zenon DEF Built, BuiltStep
  <1>5. \A n \in 0..m : F[n] = BuiltStep(F, d, n)
    BY <1>4
  <1> HIDE DEF F
  <1>6. ASSUME NEW p \in ToSet(d.paths) PROVE IsSequence(OperationsAt(d, p))
    <2> DEFINE at == Follow(d, p.at)
               r == OperationsAt(d, p)
               list == d.items[at]
    <2>1. CASE at = "lost"
      <3>1. r = <<>>
        BY <2>1 DEF OperationsAt
      <3>2. <<>> \in Seq({})
        OBVIOUS
      <3> QED BY <3>1, <3>2 DEF IsSequence
    <2>2. CASE at # "lost"
      <3>1. list \in Seq(ToSet(list))
        BY <1>2, <2>2
      <3>2. DOMAIN list = 1..Len(list) /\ Len(list) \in Nat
        BY <3>1
      <3> DEFINE Op(o) == [path |-> p.path, method |-> o.method, id |-> o.id, location |-> <<at, o.method>>, tags |-> o.tags,
                           parameters |-> ParametersOf(o.shared, o.own), placeholders |-> p.placeholders,
                           body |-> IF o.bodyRef = "lost" THEN "none" ELSE o.body, responses |-> o.responses]
      <3>3. r = [i \in DOMAIN list |-> Op(list[i])]
        BY <2>2 DEF OperationsAt
      <3> HIDE DEF Op, list
      <3> DEFINE R == {Op(list[i]) : i \in 1..Len(list)}
      <3>4. r \in [1..Len(list) -> R]
        BY <3>2, <3>3
      <3> HIDE DEF R, r
      <3>5. r \in Seq(R)
        BY <3>2, <3>4, SeqDef
      <3> QED BY <3>5 DEF IsSequence, r
    <2> QED BY <2>1, <2>2
  <1> DEFINE N == {n \in Nat : n <= m => IsSequence(F[n])}
  <1>7. 0 \in N
    <2>1. F[0] = <<>>
      BY <1>1, <1>5 DEF BuiltStep
    <2>2. <<>> \in Seq({})
      OBVIOUS
    <2> QED BY <2>1, <2>2 DEF IsSequence
  <1>8. \A n \in Nat : n \in N => n + 1 \in N
    <2> SUFFICES ASSUME NEW n \in Nat, n \in N, n + 1 <= m PROVE IsSequence(F[n + 1])
      OBVIOUS
    <2> DEFINE k == n + 1
    <2>1. k \in 0..m /\ k # 0 /\ k - 1 = n /\ k \in 1..Len(d.paths) /\ IsSequence(F[n])
      BY <1>1
    <2>2. d.paths[k] \in ToSet(d.paths)
      BY <1>1, <2>1
    <2> HIDE DEF k, m
    <2>3. F[k] = F[n] \o OperationsAt(d, d.paths[k])
      BY <1>5, <2>1 DEF BuiltStep
    <2>4. IsSequence(F[k])
      BY <2>1, <2>2, <2>3, <1>6, ConcatIsSequence
    <2> QED BY <2>4 DEF k
  <1> HIDE DEF N
  <1>9. Nat \subseteq N
    BY <1>7, <1>8, SetInduction
  <1>10. IsSequence(F[m])
    BY <1>1, <1>9 DEF N
  <1> QED BY <1>10 DEF F, Build, d

\* In a document without an operation two paths reach, the place of an operation tells it.
LEMMA PlacesTell ==
  ASSUME NEW s, SweepFits(s), Distinct(s.ops), NEW o \in s.scope, NEW p \in s.scope, o.location = p.location
  PROVE  o = p
  <1>1. PICK i \in DOMAIN s.ops : o = s.ops[i]
    BY DEF SweepFits, ToSet
  <1>2. PICK k \in DOMAIN s.ops : p = s.ops[k]
    BY DEF SweepFits, ToSet
  <1> QED BY <1>1, <1>2 DEF Distinct

\* A sequence without repetition of all elements of a set is as long as the set is large.
LEMMA AsManyAs ==
  ASSUME NEW T, NEW s \in Seq(T), ToSet(s) = T, \A i, k \in 1..Len(s) : s[i] = s[k] => i = k
  PROVE  IsFiniteSet(T) /\ Cardinality(T) = Len(s)
  <1> DEFINE n == Len(s)
  <1>1. n \in Nat /\ s \in [1..n -> T] /\ DOMAIN s = 1..n
    OBVIOUS
  <1>2. s \in Bijection(1..n, T)
    BY <1>1 DEF Bijection, Injection, Surjection, IsInjective, ToSet
  <1>3. ExistsBijection(1..n, T)
    BY <1>2 DEF ExistsBijection
  <1> HIDE DEF n
  <1>4. Cardinality(T) = n
    BY <1>1, <1>3, FS_CountingElements
  <1>5. IsFiniteSet(T)
    <2>1. IsFiniteSet(1..n)
      BY <1>1, FS_Interval
    <2> QED BY <2>1, <1>3, FS_Bijection
  <1> QED BY <1>4, <1>5 DEF n

\* The first of a sequence leaves it.
LEMMA HeadLeaves ==
  ASSUME NEW T, NEW w \in Seq(T), w # <<>>
  PROVE  /\ Head(w) \in T /\ Tail(w) \in Seq(T)
         /\ ToSet(w) = ToSet(Tail(w)) \cup {Head(w)}
         /\ (\A i, k \in DOMAIN w : w[i] = w[k] => i = k) =>
              Head(w) \notin ToSet(Tail(w)) /\ \A i, k \in DOMAIN Tail(w) : Tail(w)[i] = Tail(w)[k] => i = k
  <1> DEFINE t == Tail(w)
             h == Head(w)
             n == Len(w)
  <1>1. n \in Nat /\ n >= 1 /\ h = w[1] /\ h \in T /\ DOMAIN w = 1..n
    BY EmptySeq
  <1>2. t \in Seq(T) /\ Len(t) = n - 1 /\ DOMAIN t = 1..(n - 1) /\ \A i \in 1..(n - 1) : t[i] = w[i + 1]
    BY <1>1
  <1> HIDE DEF t, h, n
  <1>3. ASSUME NEW i \in 1..n PROVE w[i] = h \/ \E k \in 1..(n - 1) : w[i] = t[k]
    <2>1. CASE i = 1
      BY <2>1, <1>1
    <2>2. CASE i # 1
      <3>1. i - 1 \in 1..(n - 1) /\ (i - 1) + 1 = i
        BY <2>2, <1>1
      <3> QED BY <3>1, <1>2
    <2> QED BY <2>1, <2>2
  <1>4. \A i \in 1..(n - 1) : i + 1 \in 1..n /\ i + 1 # 1
    BY <1>1
  <1>5. 1 \in 1..n
    BY <1>1
  <1>6. ToSet(w) = ToSet(t) \cup {h}
    <2>1. ToSet(w) = {w[i] : i \in 1..n} /\ ToSet(t) = {t[i] : i \in 1..(n - 1)}
      BY <1>1, <1>2 DEF ToSet
    <2>2. ASSUME NEW x \in ToSet(w) PROVE x \in ToSet(t) \cup {h}
      BY <2>1, <1>3
    <2>3. ASSUME NEW x \in ToSet(t) PROVE x \in ToSet(w)
      <3>1. PICK i \in 1..(n - 1) : x = t[i]
        BY <2>1
      <3>2. i + 1 \in 1..n /\ x = w[i + 1]
        BY <3>1, <1>2, <1>4
      <3> QED BY <3>2, <2>1
    <2>4. h \in ToSet(w)
      BY <2>1, <1>1, <1>5
    <2> QED BY <2>2, <2>3, <2>4
  <1>7. ASSUME \A i, k \in DOMAIN w : w[i] = w[k] => i = k
        PROVE  h \notin ToSet(t) /\ \A i, k \in DOMAIN t : t[i] = t[k] => i = k
    <2>1. ASSUME NEW i \in DOMAIN t PROVE t[i] # h
      <3>1. i + 1 \in DOMAIN w /\ 1 \in DOMAIN w /\ i + 1 # 1 /\ t[i] = w[i + 1]
        BY <1>1, <1>2, <1>4, <1>5
      <3> QED BY <3>1, <1>1, <1>7
    <2>2. ASSUME NEW i \in DOMAIN t, NEW k \in DOMAIN t, t[i] = t[k] PROVE i = k
      <3>1. i + 1 \in DOMAIN w /\ k + 1 \in DOMAIN w /\ w[i + 1] = w[k + 1]
        BY <1>1, <1>2, <1>4, <2>2
      <3>2. i + 1 = k + 1 /\ i \in Nat /\ k \in Nat
        BY <3>1, <1>2, <1>7
      <3> QED BY <3>2
    <2> QED BY <2>1, <2>2 DEF ToSet
  <1> QED BY <1>1, <1>2, <1>6, <1>7 DEF t, h

\* The elements of a sequence that are in a set.
LEMMA FilterIsSet ==
  ASSUME NEW s, IsSequence(s), NEW S, S \subseteq ToSet(s)
  PROVE  /\ Filter(s, S) \in Seq(S) /\ ToSet(Filter(s, S)) = S
         /\ (\A i, k \in DOMAIN s : s[i] = s[k] => i = k) =>
              \A i, k \in DOMAIN Filter(s, S) : Filter(s, S)[i] = Filter(s, S)[k] => i = k
  <1> DEFINE r == Filter(s, S)
  <1>1. PICK T : s \in Seq(T)
    BY DEF IsSequence
  <1>2. r \in Seq(T) /\ \E g : KeptFrom(r, s, S, Len(s), g)
    BY <1>1, FilterFacts
  <1>3. PICK g : KeptFrom(r, s, S, Len(s), g)
    BY <1>2
  <1>4. DOMAIN r = 1..Len(r) /\ Len(r) \in Nat /\ DOMAIN s = 1..Len(s)
    BY <1>1, <1>2
  <1> HIDE DEF r
  <1>5. /\ \A i \in DOMAIN r : g[i] \in DOMAIN s /\ r[i] = s[g[i]] /\ r[i] \in S
        /\ \A i, k \in DOMAIN r : i < k => g[i] < g[k]
        /\ \A j \in DOMAIN s : s[j] \in S => \E i \in DOMAIN r : g[i] = j
    BY <1>3, <1>4 DEF KeptFrom
  <1>6. r \in [1..Len(r) -> S]
    BY <1>2, <1>4, <1>5
  <1>7. r \in Seq(S)
    BY <1>4, <1>6, SeqDef
  <1>8. ToSet(r) = S
    BY <1>5 DEF ToSet
  <1>9. ASSUME \A i, k \in DOMAIN s : s[i] = s[k] => i = k, NEW i \in DOMAIN r, NEW k \in DOMAIN r, r[i] = r[k] PROVE i = k
    <2>1. g[i] = g[k] /\ g[i] \in Nat
      BY <1>4, <1>5, <1>9
    <2>2. ~(i < k) /\ ~(k < i)
      BY <2>1, <1>5
    <2> QED BY <2>2, <1>4
  <1> QED BY <1>7, <1>8, <1>9 DEF r

\* An operation of a sweep that waited or was in flight gets its row, with what was heard of it.
RowWritten(s, new, o, row, news) ==
    /\ DOMAIN new = SweepFields /\ new.budget = s.budget /\ new.ops = s.ops /\ new.scope = s.scope /\ new.sent = s.sent
    /\ o \in s.scope
    /\ new.rows = [l \in DOMAIN s.rows \cup {o.location} |-> IF l = o.location THEN row ELSE s.rows[l]]
    /\ new.waiting \in Seq(s.scope) /\ new.flying \subseteq s.flying
    /\ new.heard = s.heard \cup news
    /\ \A h \in news : h[1] = o /\ <<h[1], "left">> \in s.sent
    /\ Distinct(s.ops) =>
           /\ \A i, k \in DOMAIN new.waiting : new.waiting[i] = new.waiting[k] => i = k
           /\ ToSet(new.waiting) \subseteq ToSet(s.waiting) /\ o \in ToSet(s.waiting) \cup s.flying
           /\ ToSet(new.waiting) \cup new.flying = (ToSet(s.waiting) \cup s.flying) \ {o}
           /\ Tells(new, row, o)

\* Such a row leaves the books of the sweep in order.
LEMMA RowFits ==
  ASSUME NEW s, SweepFits(s), NEW new, NEW o, NEW row, NEW news, RowWritten(s, new, o, row, news)
  PROVE  SweepFits(new)
  <1> USE DEF RowWritten
  <1>0. (\A h \in new.heard : <<h[1], "left">> \in new.sent) /\ \A p \in new.flying : <<p, "left">> \in new.sent
    BY DEF SweepFits
  <1>1. CASE ~Distinct(s.ops)
    BY <1>0, <1>1 DEF SweepFits
  <1>2. CASE Distinct(s.ops)
    <2>1. DoneWith(new) = DoneWith(s) \cup {o} /\ o \notin DoneWith(s) /\ DoneWith(s) \subseteq s.scope
      BY <1>2 DEF DoneWith
    <2>2. \A p \in DoneWith(s) : p.location # o.location
      BY <1>2, <2>1, PlacesTell
    <2>3. DOMAIN s.rows = {p.location : p \in DoneWith(s)} /\ \A p \in DoneWith(s) : RowTells(s, p)
      BY <1>2 DEF SweepFits
    <2>4. DOMAIN new.rows = {p.location : p \in DoneWith(new)}
      BY <2>1, <2>3
    <2>5. ASSUME NEW p \in DoneWith(s) PROVE RowTells(new, p)
      <3>1. new.rows[p.location] = s.rows[p.location]
        BY <2>2, <2>3
      <3> DEFINE old == s.rows[p.location]
      <3>2. Tells(s, old, p)
        BY <2>3 DEF RowTells
      <3> HIDE DEF old
      <3>3. \A h \in new.heard : h[1] = p => h \in s.heard
        BY <2>1
      <3>4. Tells(new, old, p)
        BY <3>2, <3>3 DEF Tells
      <3> QED BY <3>1, <3>4 DEF RowTells, old
    <2>6. RowTells(new, o)
      <3>1. new.rows[o.location] = row
        OBVIOUS
      <3> QED BY <3>1, <1>2 DEF RowTells
    <2>7. \A p \in DoneWith(new) : RowTells(new, p)
      BY <2>1, <2>5, <2>6
    <2>8. /\ \A p \in ToSet(new.waiting) : p \notin new.flying /\ \A x \in new.sent : x[1] # p
          /\ \A p \in new.flying : \A h \in new.heard : h[1] # p
      <3>1. /\ \A p \in ToSet(s.waiting) : p \notin s.flying /\ \A x \in s.sent : x[1] # p
            /\ \A p \in s.flying : \A h \in s.heard : h[1] # p
        BY <1>2 DEF SweepFits
      <3>2. \A p \in new.flying : p # o /\ p \in s.flying
        BY <1>2
      <3>3. ASSUME NEW p \in ToSet(new.waiting) PROVE p \notin new.flying /\ \A x \in new.sent : x[1] # p
        <4>1. p \in ToSet(s.waiting)
          BY <1>2, <3>3
        <4> QED BY <4>1, <3>1, <3>2
      <3>4. ASSUME NEW p \in new.flying, NEW h \in new.heard PROVE h[1] # p
        <4>1. h \in s.heard \/ h[1] = o
          BY <3>4
        <4> QED BY <4>1, <3>1, <3>2, <3>4
      <3> HIDE DEF RowWritten
      <3> QED BY <3>3, <3>4
    <2> QED BY <1>0, <1>2, <2>4, <2>7, <2>8 DEF SweepFits
  <1> QED BY <1>1, <1>2

\* No sweep runs at first.
LEMMA SweepStart == EInit => SweepInv
  <1> SUFFICES ASSUME EInit PROVE SweepInv
    OBVIOUS
  <1>1. sweep.at = "idle"
    BY DEF EInit
  <1> QED BY <1>1 DEF SweepInv, SweepTellsEach

\* The first call waiting is turned away by the budget or by its request, or is sent.
LEMMA CallStartsFits ==
  ASSUME SweepInv, CallStarts
  PROVE  SweepFits(sweep') /\ sweep'.at = "running"
  <1> DEFINE o == Head(sweep.waiting)
             s == sweep
             w == Tail(sweep.waiting)
  <1>1. SweepFits(s) /\ s.at = "running" /\ s.waiting # <<>>
    BY DEF SweepInv, CallStarts
  <1>2. s.waiting \in Seq(s.scope) /\ DOMAIN s = SweepFields
    BY <1>1 DEF SweepFits
  <1>3. /\ o \in s.scope /\ w \in Seq(s.scope) /\ ToSet(s.waiting) = ToSet(w) \cup {o}
        /\ (\A i, k \in DOMAIN s.waiting : s.waiting[i] = s.waiting[k] => i = k) =>
              o \notin ToSet(w) /\ \A i, k \in DOMAIN w : w[i] = w[k] => i = k
    BY <1>1, <1>2, HeadLeaves
  <1>4. Distinct(s.ops) =>
          /\ o \notin ToSet(w) /\ \A i, k \in DOMAIN w : w[i] = w[k] => i = k
          /\ o \notin s.flying /\ (\A x \in s.sent : x[1] # o)
          /\ \A h \in s.heard : h[1] # o
    <2>1. \A h \in s.heard : <<h[1], "left">> \in s.sent
      BY <1>1 DEF SweepFits
    <2>2. (\A x \in s.sent : x[1] # o) => \A h \in s.heard : h[1] # o
      BY <2>1
    <2> QED BY <1>1, <1>3, <2>2 DEF SweepFits
  <1>5. \/ s.budget = "left" /\ s' = [s EXCEPT !.waiting = w, !.flying = @ \cup {o}, !.sent = @ \cup {<<o, s.budget>>}]
        \/ s' = [s EXCEPT !.waiting = w, !.rows = WithRow(o, Row(o, 0, "skipped"))]
        \/ s' = [s EXCEPT !.waiting = w, !.rows = WithRow(o, Row(o, 0, "error"))]
    BY <1>1 DEF CallStarts, SweepFits
  <1> HIDE DEF o, w
  <1>6. ASSUME NEW v \in {"skipped", "error"}, s' = [s EXCEPT !.waiting = w, !.rows = WithRow(o, Row(o, 0, v))]
        PROVE  SweepFits(sweep') /\ sweep'.at = "running"
    <2> DEFINE row == Row(o, 0, v)
    <2>1. row.name = Label(o) /\ row.method = o.method /\ row.path = o.path /\ row.status = 0
      BY DEF Row
    <2> HIDE DEF row
    <2>2. /\ DOMAIN s' = SweepFields /\ s'.at = "running" /\ s'.budget = s.budget /\ s'.ops = s.ops /\ s'.scope = s.scope
          /\ s'.sent = s.sent /\ s'.waiting = w /\ s'.flying = s.flying /\ s'.rows = WithRow(o, row) /\ s'.heard = s.heard
      BY <1>1, <1>2, <1>6 DEF SweepFields, row
    <2> DEFINE new == s'
    <2>3. Distinct(s.ops) =>
            /\ \A i, k \in DOMAIN new.waiting : new.waiting[i] = new.waiting[k] => i = k
            /\ ToSet(new.waiting) \subseteq ToSet(s.waiting) /\ o \in ToSet(s.waiting) \cup s.flying
            /\ ToSet(new.waiting) \cup new.flying = (ToSet(s.waiting) \cup s.flying) \ {o}
            /\ Tells(new, row, o)
      BY <1>3, <1>4, <2>1, <2>2 DEF Tells
    <2>4. new.rows = [l \in DOMAIN s.rows \cup {o.location} |-> IF l = o.location THEN row ELSE s.rows[l]]
      BY <2>2 DEF WithRow
    <2>5. new.waiting \in Seq(s.scope) /\ new.flying \subseteq s.flying
      BY <1>3, <2>2
    <2> HIDE DEF new
    <2>6. RowWritten(s, new, o, row, {})
      <3>1. DOMAIN new = SweepFields /\ new.budget = s.budget /\ new.ops = s.ops /\ new.scope = s.scope /\ new.sent = s.sent
            /\ new.heard = s.heard \cup {}
        BY <2>2 DEF new
      <3> QED BY <1>3, <2>3, <2>4, <2>5, <3>1 DEF RowWritten
    <2>7. SweepFits(new)
      BY <1>1, <2>6, RowFits
    <2> QED BY <2>2, <2>7 DEF new
  <1>7. ASSUME s.budget = "left", s' = [s EXCEPT !.waiting = w, !.flying = @ \cup {o}, !.sent = @ \cup {<<o, s.budget>>}]
        PROVE  SweepFits(sweep') /\ sweep'.at = "running"
    <2>1. /\ DOMAIN s' = SweepFields /\ s'.at = "running" /\ s'.budget = "left" /\ s'.ops = s.ops /\ s'.scope = s.scope
          /\ s'.sent = s.sent \cup {<<o, "left">>} /\ s'.waiting = w /\ s'.flying = s.flying \cup {o} /\ s'.rows = s.rows
          /\ s'.heard = s.heard
      BY <1>1, <1>2, <1>7 DEF SweepFields
    <2>2. Distinct(s.ops) =>
            /\ \A i, k \in DOMAIN w : w[i] = w[k] => i = k
            /\ \A p \in ToSet(w) : p \notin s'.flying /\ \A x \in s'.sent : x[1] # p
            /\ \A p \in s'.flying : \A h \in s'.heard : h[1] # p
            /\ DoneWith(s') = DoneWith(s) /\ o \notin DoneWith(s)
            /\ DOMAIN s.rows = {p.location : p \in DoneWith(s)}
      BY <1>1, <1>3, <1>4, <2>1 DEF SweepFits, DoneWith
    <2>3. ASSUME Distinct(s.ops), NEW p \in DoneWith(s) PROVE RowTells(s', p)
      <3>1. RowTells(s, p) /\ p # o
        BY <1>1, <2>2, <2>3 DEF SweepFits
      <3> DEFINE old == s.rows[p.location]
      <3>2. Tells(s, old, p)
        BY <3>1 DEF RowTells
      <3>3. s'.rows[p.location] = old
        BY <2>1
      <3> HIDE DEF old
      <3>4. Tells(s', old, p)
        BY <3>1, <3>2, <2>1 DEF Tells
      <3> QED BY <3>3, <3>4 DEF RowTells
    <2>4. /\ s'.flying \subseteq s'.scope /\ \A x \in s'.sent : x[1] \in s'.scope /\ x[2] = "left"
          /\ (\A h \in s'.heard : <<h[1], "left">> \in s'.sent) /\ \A p \in s'.flying : <<p, "left">> \in s'.sent
      <3>1. /\ s.flying \subseteq s.scope /\ \A x \in s.sent : x[1] \in s.scope /\ x[2] = "left"
            /\ (\A h \in s.heard : <<h[1], "left">> \in s.sent) /\ \A p \in s.flying : <<p, "left">> \in s.sent
        BY <1>1 DEF SweepFits
      <3> QED BY <3>1, <1>3, <2>1
    <2>5. IsSequence(s'.ops) /\ s'.scope \subseteq ToSet(s'.ops) /\ s'.waiting \in Seq(s'.scope)
      BY <1>1, <1>3, <2>1 DEF SweepFits
    <2>6. Distinct(s'.ops) =>
            /\ \A i, k \in DOMAIN s'.waiting : s'.waiting[i] = s'.waiting[k] => i = k
            /\ \A p \in ToSet(s'.waiting) : p \notin s'.flying /\ \A x \in s'.sent : x[1] # p
            /\ \A p \in s'.flying : \A h \in s'.heard : h[1] # p
            /\ DOMAIN s'.rows = {p.location : p \in DoneWith(s')}
            /\ \A p \in DoneWith(s') : RowTells(s', p)
      BY <2>1, <2>2, <2>3
    <2> QED BY <2>1, <2>4, <2>5, <2>6 DEF SweepFits
  <1> QED BY <1>5, <1>6, <1>7

\* A call in flight gets its row, by an answer or without one.
LEMMA CallEndsFits ==
  ASSUME SweepInv, sweep.at = "running", NEW o \in sweep.flying, NEW status, NEW v, v # "skipped", NEW news,
         sweep' = [sweep EXCEPT !.flying = @ \ {o}, !.heard = @ \cup news, !.rows = WithRow(o, Row(o, status, v))],
         \/ news = {} /\ status = 0
         \/ \E a : /\ news = {<<o, a>>} /\ status = a.status
                   /\ v = "passed" <=> CheckResponse(o, a, NoExpectation, "no") = {}
  PROVE  SweepFits(sweep') /\ sweep'.at = "running"
  <1> DEFINE s == sweep
             row == Row(o, status, v)
             new == s'
  <1>1. SweepFits(s)
    BY DEF SweepInv
  <1>2. s.waiting \in Seq(s.scope) /\ DOMAIN s = SweepFields /\ o \in s.scope
    BY <1>1 DEF SweepFits
  <1>3. row.name = Label(o) /\ row.method = o.method /\ row.path = o.path /\ row.status = status /\ row.verdict = v
    BY DEF Row
  <1> HIDE DEF row
  <1>4. /\ DOMAIN s' = SweepFields /\ s'.at = "running" /\ s'.budget = s.budget /\ s'.ops = s.ops /\ s'.scope = s.scope
        /\ s'.sent = s.sent /\ s'.waiting = s.waiting /\ s'.flying = s.flying \ {o} /\ s'.rows = WithRow(o, row)
        /\ s'.heard = s.heard \cup news
    BY <1>1, <1>2 DEF SweepFields, row
  <1>5. Distinct(s.ops) =>
          /\ \A i, k \in DOMAIN new.waiting : new.waiting[i] = new.waiting[k] => i = k
          /\ ToSet(new.waiting) \subseteq ToSet(s.waiting) /\ o \in ToSet(s.waiting) \cup s.flying
          /\ ToSet(new.waiting) \cup new.flying = (ToSet(s.waiting) \cup s.flying) \ {o}
    BY <1>1, <1>4 DEF SweepFits
  <1>6. new.rows = [l \in DOMAIN s.rows \cup {o.location} |-> IF l = o.location THEN row ELSE s.rows[l]]
    BY <1>4 DEF WithRow
  <1>7. new.waiting \in Seq(s.scope) /\ new.flying \subseteq s.flying
    BY <1>2, <1>4
  <1>10. Distinct(s.ops) => <<o, "left">> \in s.sent /\ \A h \in s.heard : h[1] # o
    BY <1>1 DEF SweepFits
  <1>11. \A h \in news : h[1] = o
    <2>1. CASE news = {}
      BY <2>1
    <2>2. ASSUME NEW a, news = {<<o, a>>} PROVE \A h \in news : h[1] = o
      BY <2>2
    <2> QED BY <2>1, <2>2, Zenon
  <1>12. Distinct(s.ops) => Tells(new, row, o)
    <2> SUFFICES ASSUME Distinct(s.ops) PROVE Tells(new, row, o)
      OBVIOUS
    <2>1. new.sent = s.sent /\ new.heard = s.heard \cup news
      BY <1>4
    <2> HIDE DEF new
    <2>2. CASE news = {} /\ status = 0
      BY <1>3, <1>10, <2>1, <2>2 DEF Tells
    <2>3. ASSUME NEW a, news = {<<o, a>>}, status = a.status, v = "passed" <=> CheckResponse(o, a, NoExpectation, "no") = {}
          PROVE  Tells(new, row, o)
      <3>1. \A h \in new.heard : h[1] = o => h = <<o, a>>
        BY <1>10, <2>1, <2>3
      <3>2. <<o, a>> \in new.heard
        BY <2>1, <2>3
      <3>3. \A h \in new.heard : h[1] = o => h[2] = a
        BY <3>1
      <3>4. \A h \in new.heard : h[1] = o => /\ row.status = h[2].status
                                             /\ row.verdict = "passed" <=> CheckResponse(o, h[2], NoExpectation, "no") = {}
        BY <1>3, <2>3, <3>3
      <3>5. \E h \in new.heard : h[1] = o
        BY <3>2
      <3> QED BY <1>3, <1>10, <2>1, <3>4, <3>5 DEF Tells
    <2> HIDE DEF row
    <2> QED BY <2>2, <2>3, Zenon
  <1>13. \A h \in news : <<h[1], "left">> \in s.sent
    <2>1. <<o, "left">> \in s.sent
      BY <1>1 DEF SweepFits
    <2> QED BY <1>11, <2>1
  <1> HIDE DEF new
  <1>8. RowWritten(s, new, o, row, news)
    <2>1. /\ DOMAIN new = SweepFields /\ new.budget = s.budget /\ new.ops = s.ops /\ new.scope = s.scope /\ new.sent = s.sent
          /\ new.heard = s.heard \cup news
      BY <1>4 DEF new
    <2> QED BY <1>2, <1>5, <1>6, <1>7, <1>11, <1>12, <1>13, <2>1 DEF RowWritten
  <1>9. SweepFits(new)
    BY <1>1, <1>8, RowFits
  <1> QED BY <1>4, <1>9 DEF new

\* A sweep starts with the rows of what it does not call.
LEMMA SweepStartsFits ==
  ASSUME NEW q \in Sweeps, SweepStarts(q)
  PROVE  SweepFits(sweep') /\ sweep'.at = "running"
  <1> DEFINE ops == Build(q.doc)
             scope == {o \in ToSet(ops) : InScope(ops, q, o)}
             off == {o \in scope : HeldBack(ops, q, o) \/ ~Planned(q, o)}
             w == Filter(ops, scope \ off)
             rows == [l \in {o.location : o \in off} |-> Row(CHOOSE o \in off : o.location = l, 0, "skipped")]
             new == sweep'
  <1>1. new = [at |-> "running", q |-> q, ops |-> ops, scope |-> scope, waiting |-> w, flying |-> {}, rows |-> rows,
               budget |-> "left", sent |-> {}, heard |-> {}, results |-> <<>>]
    BY DEF SweepStarts
  <1>2. IsSequence(ops)
    BY BuildIsSequence
  <1>3. scope \subseteq ToSet(ops) /\ off \subseteq scope
    OBVIOUS
  <1> HIDE DEF ops, scope, off
  <1>4. /\ w \in Seq(scope \ off) /\ ToSet(w) = scope \ off
        /\ (\A i, k \in DOMAIN ops : ops[i] = ops[k] => i = k) => \A i, k \in DOMAIN w : w[i] = w[k] => i = k
    BY <1>2, <1>3, FilterIsSet
  <1> HIDE DEF w
  <1>5. w \in Seq(scope)
    <2>1. w \in [1..Len(w) -> scope \ off] /\ Len(w) \in Nat
      BY <1>4
    <2>2. w \in [1..Len(w) -> scope]
      BY <2>1
    <2> QED BY <2>1, <2>2, SeqDef
  <1> HIDE DEF rows
  <1>6. /\ DOMAIN new = SweepFields /\ new.at = "running" /\ new.budget = "left" /\ new.ops = ops /\ new.scope = scope
        /\ new.sent = {} /\ new.heard = {} /\ new.waiting = w /\ new.flying = {} /\ new.rows = rows
    BY <1>1 DEF SweepFields
  <1> HIDE DEF new
  <1>7. ASSUME Distinct(ops) PROVE \A i, k \in DOMAIN w : w[i] = w[k] => i = k
    <2>1. \A i, k \in DOMAIN ops : ops[i] = ops[k] => i = k
      BY <1>7 DEF Distinct
    <2> QED BY <2>1, <1>4
  <1>8. DoneWith(new) = off
    BY <1>3, <1>4, <1>6 DEF DoneWith
  <1>9. DOMAIN rows = {o.location : o \in off}
    BY DEF rows
  <1>10. ASSUME Distinct(ops), NEW o \in off PROVE RowTells(new, o)
    <2> DEFINE p == CHOOSE x \in off : x.location = o.location
    <2>1. p \in off /\ p.location = o.location
      OBVIOUS
    <2> HIDE DEF p
    <2>2. PICK i \in DOMAIN ops : o = ops[i]
      BY <1>3 DEF ToSet
    <2>3. PICK k \in DOMAIN ops : p = ops[k]
      BY <1>3, <2>1 DEF ToSet
    <2>4. p = o
      BY <1>10, <2>1, <2>2, <2>3 DEF Distinct
    <2>5. rows[o.location] = Row(p, 0, "skipped")
      BY DEF rows, p
    <2>6. rows[o.location] = Row(o, 0, "skipped")
      BY <2>4, <2>5
    <2> QED BY <2>6, <1>6 DEF RowTells, Tells, Row
  <1>11. Distinct(new.ops) =>
           /\ \A i, k \in DOMAIN new.waiting : new.waiting[i] = new.waiting[k] => i = k
           /\ \A o \in ToSet(new.waiting) : o \notin new.flying /\ \A x \in new.sent : x[1] # o
           /\ \A o \in new.flying : \A h \in new.heard : h[1] # o
           /\ DOMAIN new.rows = {o.location : o \in DoneWith(new)}
           /\ \A o \in DoneWith(new) : RowTells(new, o)
    BY <1>6, <1>7, <1>8, <1>9, <1>10
  <1>12. SweepFits(new)
    BY <1>2, <1>3, <1>5, <1>6, <1>11 DEF SweepFits
  <1> QED BY <1>6, <1>12 DEF new

\* When nothing waits and nothing is in flight, every operation in scope has its row.
LEMMA SweepEndsTells ==
  ASSUME SweepInv, SweepEnds
  PROVE  SweepFits(sweep') /\ sweep'.at = "done" /\ SweepTellsEach'
  <1> DEFINE s == sweep
             new == s'
             S == {o \in ToSet(s.ops) : o.location \in DOMAIN s.rows}
             kept == Filter(s.ops, S)
             table == [i \in DOMAIN kept |-> s.rows[kept[i].location]]
  <1>1. SweepFits(s) /\ s.waiting = <<>> /\ s.flying = {} /\ new = [s EXCEPT !.at = "done", !.results = table]
    BY DEF SweepInv, SweepEnds, Ordered, Listed
  <1>2. DOMAIN s = SweepFields /\ IsSequence(s.ops) /\ s.scope \subseteq ToSet(s.ops)
    BY <1>1 DEF SweepFits
  <1>3. kept \in Seq(S) /\ ToSet(kept) = S
    BY <1>2, FilterIsSet
  <1> HIDE DEF kept
  <1>4. /\ DOMAIN new = SweepFields /\ new.at = "done" /\ new.budget = s.budget /\ new.ops = s.ops /\ new.scope = s.scope
        /\ new.sent = s.sent /\ new.heard = s.heard /\ new.waiting = s.waiting /\ new.flying = s.flying /\ new.rows = s.rows
        /\ new.results = table
    BY <1>1, <1>2 DEF SweepFields
  <1> HIDE DEF new, table
  <1>5. ASSUME NEW o, NEW row PROVE Tells(s, row, o) <=> Tells(new, row, o)
    BY <1>4 DEF Tells
  <1>6. DoneWith(new) = DoneWith(s)
    BY <1>4 DEF DoneWith
  <1>7. SweepFits(new)
    <2>1. Distinct(new.ops) =>
            /\ DOMAIN new.rows = {o.location : o \in DoneWith(new)}
            /\ \A o \in DoneWith(new) : RowTells(new, o)
      BY <1>1, <1>4, <1>5, <1>6 DEF SweepFits, RowTells
    <2>2. /\ s.budget \in {"left", "spent"} /\ s.waiting \in Seq(s.scope) /\ s.flying \subseteq s.scope
          /\ (\A x \in s.sent : x[1] \in s.scope /\ x[2] = "left") /\ \A h \in s.heard : <<h[1], "left">> \in s.sent
          /\ \A o \in s.flying : <<o, "left">> \in s.sent
      BY <1>1, Zenon DEF SweepFits
    <2>3. Distinct(s.ops) =>
            /\ \A i, k \in DOMAIN s.waiting : s.waiting[i] = s.waiting[k] => i = k
            /\ \A o \in ToSet(s.waiting) : o \notin s.flying /\ \A x \in s.sent : x[1] # o
            /\ \A o \in s.flying : \A h \in s.heard : h[1] # o
      BY <1>1, Zenon DEF SweepFits
    <2>4. Distinct(new.ops) =>
            /\ \A i, k \in DOMAIN new.waiting : new.waiting[i] = new.waiting[k] => i = k
            /\ \A o \in ToSet(new.waiting) : o \notin new.flying /\ \A x \in new.sent : x[1] # o
            /\ \A o \in new.flying : \A h \in new.heard : h[1] # o
      BY <1>4, <2>3
    <2>5. /\ new.budget \in {"left", "spent"} /\ new.waiting \in Seq(new.scope) /\ new.flying \subseteq new.scope
          /\ (\A x \in new.sent : x[1] \in new.scope /\ x[2] = "left") /\ \A h \in new.heard : <<h[1], "left">> \in new.sent
          /\ \A o \in new.flying : <<o, "left">> \in new.sent
      BY <1>4, <2>2
    <2>6. DOMAIN new = SweepFields /\ IsSequence(new.ops) /\ new.scope \subseteq ToSet(new.ops)
      BY <1>2, <1>4
    <2> QED BY <2>1, <2>4, <2>5, <2>6, Zenon DEF SweepFits
  <1>8. ASSUME Distinct(s.ops)
        PROVE  LET listed == Filter(s.ops, s.scope) IN
               Len(table) = Len(listed) /\ \A i \in DOMAIN listed : Tells(new, table[i], listed[i])
    <2>1. DoneWith(s) = s.scope
      <3>1. ToSet(<<>>) = {}
        BY DEF ToSet
      <3> QED BY <3>1, <1>1 DEF DoneWith
    <2>2. DOMAIN s.rows = {p.location : p \in s.scope} /\ \A o \in s.scope : RowTells(s, o)
      BY <1>1, <1>8, <2>1 DEF SweepFits
    <2>3. ASSUME NEW o \in S PROVE o \in s.scope
      <3>1. PICK p \in s.scope : o.location = p.location
        BY <2>2
      <3>2. PICK i \in DOMAIN s.ops : o = s.ops[i]
        BY DEF ToSet
      <3>3. PICK k \in DOMAIN s.ops : p = s.ops[k]
        BY <1>2 DEF ToSet
      <3> QED BY <3>1, <3>2, <3>3, <1>8 DEF Distinct
    <2>4. S = s.scope
      BY <2>2, <2>3, <1>2
    <2> HIDE DEF S
    <2>5. kept = Filter(s.ops, s.scope)
      BY <2>4 DEF kept
    <2>6. DOMAIN kept = 1..Len(kept) /\ Len(kept) \in Nat
      BY <1>3
    <2>7. DOMAIN table = DOMAIN kept /\ \A i \in DOMAIN kept : table[i] = s.rows[kept[i].location]
      BY DEF table
    <2>8. Len(table) = Len(kept)
      <3> DEFINE R == {table[i] : i \in 1..Len(kept)}
      <3>1. table \in [1..Len(kept) -> R]
        BY <2>6, <2>7 DEF table
      <3> HIDE DEF R
      <3>2. table \in Seq(R)
        BY <2>6, <3>1, SeqDef
      <3> QED BY <2>6, <3>1, <3>2
    <2>9. ASSUME NEW i \in DOMAIN kept PROVE Tells(new, table[i], kept[i])
      <3>1. kept[i] \in s.scope
        BY <1>3, <2>4 DEF ToSet
      <3>2. Tells(s, s.rows[kept[i].location], kept[i])
        BY <2>2, <3>1 DEF RowTells
      <3> QED BY <1>5, <2>7, <3>2
    <2> QED BY <2>5, <2>8, <2>9
  <1>9. \A x \in s.sent : x[2] = "left"
    BY <1>1 DEF SweepFits
  <1>10. SweepTellsEach'
    <2> SUFFICES ASSUME Distinct(s'.ops) PROVE
                LET listed == Filter(s'.ops, s'.scope) IN
                /\ Len(s'.results) = Len(listed)
                /\ \A i \in DOMAIN listed : Tells(s', s'.results[i], listed[i])
                /\ \A x \in s'.sent : x[2] = "left"
      BY DEF SweepTellsEach, Distinct, Tells
    <2>1. /\ s'.ops = s.ops /\ s'.scope = s.scope /\ s'.sent = s.sent /\ s'.results = table /\ s' = new
      BY <1>4 DEF new
    <2>2. Distinct(s.ops)
      BY <2>1
    <2> QED BY <2>1, <2>2, <1>8, <1>9
  <1> QED BY <1>4, <1>7, <1>10 DEF new

\* Whatever comes next, the sweep's books stay in order.
LEMMA SweepHolds == SweepInv /\ [ENext]_aVarsC => SweepInv'
  <1> SUFFICES ASSUME SweepInv, [ENext]_aVarsC PROVE SweepInv'
    OBVIOUS
  <1>a. ASSUME SweepFits(sweep'), sweep'.at = "running" PROVE SweepInv'
    <2>1. SweepFits(sweep)'
      BY <1>a DEF SweepFits, Distinct, DoneWith, RowTells, Tells, IsSequence
    <2> QED BY <1>a, <2>1 DEF SweepInv, SweepTellsEach
  <1>1. ASSUME UNCHANGED sweep PROVE SweepInv'
    BY <1>1 DEF SweepInv, SweepTellsEach
  <1>2. ASSUME NEW q \in Sweeps, SweepStarts(q) PROVE SweepInv'
    BY <1>2, <1>a, SweepStartsFits
  <1>3. CASE CallStarts
    BY <1>3, <1>a, CallStartsFits
  <1>4. ASSUME sweep.at = "running", NEW o \in sweep.flying, NEW a \in ApiAnswers, SweptCallAnswers(o, a) PROVE SweepInv'
    <2> DEFINE v == IF CheckResponse(o, a, NoExpectation, "no") = {} THEN "passed" ELSE "failed"
               news == {<<o, a>>}
    <2>1. v # "skipped" /\ (v = "passed" <=> CheckResponse(o, a, NoExpectation, "no") = {})
      OBVIOUS
    <2>2. sweep' = [sweep EXCEPT !.flying = @ \ {o}, !.heard = @ \cup news, !.rows = WithRow(o, Row(o, a.status, v))]
      BY <1>4 DEF SweptCallAnswers
    <2>3. \E b : news = {<<o, b>>} /\ a.status = b.status /\ (v = "passed" <=> CheckResponse(o, b, NoExpectation, "no") = {})
      BY <2>1
    <2> HIDE DEF v, news
    <2> QED BY <1>4, <2>1, <2>2, <2>3, <1>a, CallEndsFits
  <1>5. ASSUME sweep.at = "running", NEW o \in sweep.flying, CallFails(o) PROVE SweepInv'
    <2>1. sweep' = [sweep EXCEPT !.flying = @ \ {o}, !.rows = WithRow(o, Row(o, 0, "error"))]
      BY <1>5 DEF CallFails
    <2>2. DOMAIN sweep = SweepFields
      BY <1>5 DEF SweepInv, SweepFits
    <2>3. sweep' = [sweep EXCEPT !.flying = @ \ {o}, !.heard = @ \cup {}, !.rows = WithRow(o, Row(o, 0, "error"))]
      BY <2>1, <2>2 DEF SweepFields
    <2> QED BY <1>5, <2>3, <1>a, CallEndsFits
  <1>6. CASE BudgetSpent
    <2> DEFINE s == sweep
               new == sweep'
    <2>1. SweepFits(s) /\ s.at = "running" /\ new = [s EXCEPT !.budget = "spent"]
      BY <1>6 DEF BudgetSpent, SweepInv
    <2>2. /\ DOMAIN new = SweepFields /\ new.at = "running" /\ new.budget = "spent" /\ new.ops = s.ops /\ new.scope = s.scope
          /\ new.sent = s.sent /\ new.heard = s.heard /\ new.waiting = s.waiting /\ new.flying = s.flying /\ new.rows = s.rows
      BY <2>1 DEF SweepFits, SweepFields
    <2> HIDE DEF new
    <2>3. ASSUME NEW o PROVE RowTells(s, o) => RowTells(new, o)
      BY <2>2 DEF RowTells, Tells
    <2>4. DoneWith(new) = DoneWith(s)
      BY <2>2 DEF DoneWith
    <2>5. SweepFits(new)
      BY <2>1, <2>2, <2>3, <2>4 DEF SweepFits
    <2> QED BY <2>2, <2>5, <1>a DEF new
  <1>7. CASE SweepEnds
    <2>1. SweepFits(sweep') /\ sweep'.at = "done" /\ SweepTellsEach'
      BY <1>7, SweepEndsTells
    <2>2. SweepFits(sweep)'
      BY <2>1 DEF SweepFits, Distinct, DoneWith, RowTells, Tells, IsSequence
    <2> QED BY <2>1, <2>2 DEF SweepInv
  <1>8. ASSUME SweepReturns \/ \E o \in sweep.flying, a \in ApiAnswers : JudgingRaises(o, a) PROVE SweepInv'
    <2>1. sweep'.at = "idle"
      BY <1>8 DEF SweepReturns, JudgingRaises
    <2> QED BY <2>1 DEF SweepInv, SweepTellsEach
  <1>9. ASSUME \/ \E c \in SingleCalls, a \in ApiAnswers : ApiRequest(c, a)
               \/ \E e \in Expects, p \in {"yes", "no"} : ApiResponseCheck(e, p)
               \/ \E c \in SingleCalls, st \in {{}, {"call"}}, f \in {"declared", "problem"} :
                     ApiErrors(c.doc, st, f, IF f = "declared" THEN "yes" ELSE "no")
               \/ NextTest \/ UNCHANGED aVarsC
        PROVE  UNCHANGED sweep
    BY <1>9 DEF ApiRequest, ApiResponseCheck, ApiErrors, NextTest, aVarsC
  <1> QED BY <1>1, <1>2, <1>3, <1>4, <1>5, <1>6, <1>7, <1>8, <1>9 DEF ENext

\* The table of a sweep tells what happened to each operation in scope, whatever the documents, the
\* operations listed and excluded, the order of the answers, the width of the gate and the budget.
THEOREM SweepsTellEach == ESpec => []SweepTellsEach
  <1>1. SweepInv => SweepTellsEach BY DEF SweepInv
  <1> QED BY SweepStart, SweepHolds, <1>1, PTL DEF ESpec

-----------------------------------------------------------------------------
(* MarketSteps: an option is told apart from the options before it, so what is chosen is what  *)
(* was shown; and an offer that no policy accepts is told of with the closest of them.         *)

\* The first that is kept of a sequence is one of the set, and was there.
LEMMA FirstKept ==
  ASSUME NEW T, NEW s \in Seq(T), NEW S, \E i \in 1..Len(s) : s[i] \in S
  PROVE  Filter(s, S) # <<>> /\ Head(Filter(s, S)) \in S /\ \E i \in 1..Len(s) : Head(Filter(s, S)) = s[i]
  <1> DEFINE r == Filter(s, S)
  <1>1. /\ r \in Seq(T)
        /\ \A i \in 1..Len(r) : r[i] \in S /\ \E j \in 1..Len(s) : r[i] = s[j]
        /\ \A j \in 1..Len(s) : s[j] \in S => \E i \in 1..Len(r) : r[i] = s[j]
    BY FilterKeeps
  <1> HIDE DEF r
  <1>2. PICK k \in 1..Len(r) : r[k] \in S
    BY <1>1
  <1>3. r # <<>> /\ 1 \in 1..Len(r) /\ Head(r) = r[1]
    BY <1>1, <1>2
  <1>4. Head(r) \in S /\ \E i \in 1..Len(s) : Head(r) = s[i]
    BY <1>1, <1>3
  <1> QED BY <1>3, <1>4 DEF r

\* The pair _pairs makes of an offer, after those before it.
PairAfter(o, before) == [id |-> OptionId(o, before), asset |-> o.asset, offer |-> o.offer]

\* One step of the recursion of PairsUpTo.
PairsStep(F, all, n) == IF n = 0 THEN <<>> ELSE Append(F[n - 1], PairAfter(all[n], F[n - 1]))

\* The recursion of PairsUpTo has a solution.
LEMMA PairsExist ==
  ASSUME NEW all, NEW m \in Nat
  PROVE  \E F : F = [n \in 0..m |-> PairsStep(F, all, n)]
  <1> DEFINE T == {k \in Nat : \E F : F = [n \in 0..k |-> PairsStep(F, all, n)]}
  <1>1. 0 \in T
    <2> DEFINE F0 == [n \in 0..0 |-> <<>>]
    <2>1. F0 = [n \in 0..0 |-> PairsStep(F0, all, n)]
      BY DEF PairsStep
    <2> QED BY <2>1
  <1>2. ASSUME NEW k \in Nat, k \in T PROVE k + 1 \in T
    <2>1. PICK F : F = [n \in 0..k |-> PairsStep(F, all, n)]
      BY <1>2
    <2> DEFINE G == [n \in 0..(k + 1) |-> IF n = k + 1 THEN PairsStep(F, all, n) ELSE F[n]]
    <2>2. ASSUME NEW n \in 0..(k + 1) PROVE G[n] = PairsStep(G, all, n)
      <3>1. PairsStep(G, all, n) = PairsStep(F, all, n)
        <4>1. n # 0 => n - 1 \in 0..(k + 1) /\ n - 1 # k + 1
          OBVIOUS
        <4>2. n # 0 => G[n - 1] = F[n - 1]
          BY <4>1
        <4> QED BY <4>2 DEF PairsStep
      <3>2. n # k + 1 => n \in 0..k /\ F[n] = PairsStep(F, all, n)
        BY <2>1
      <3> QED BY <3>1, <3>2
    <2>3. G = [n \in 0..(k + 1) |-> PairsStep(G, all, n)]
      BY <2>2
    <2> HIDE DEF G
    <2>4. \E H : H = [n \in 0..(k + 1) |-> PairsStep(H, all, n)]
      BY <2>3
    <2> QED BY <2>4
  <1> HIDE DEF T
  <1>3. Nat \subseteq T
    BY <1>1, <1>2, SetInduction
  <1> QED BY <1>3 DEF T

\* An id has two parts, or three, the last of which is its place; no two are the same.
ToldApart(q) ==
    /\ \A i \in 1..Len(q) : Len(q[i].id) = 2 \/ (Len(q[i].id) = 3 /\ q[i].id[3] = i)
    /\ \A i, k \in 1..Len(q) : q[i].id = q[k].id => i = k

\* The next option is told apart from those before it, the third of a name included.
LEMMA NextIsToldApart ==
  ASSUME NEW T, NEW q \in Seq(T), ToldApart(q), NEW o
  PROVE  ToldApart(Append(q, PairAfter(o, q)))
  <1> DEFINE plain == <<o.asset, IF o.offer.id = "" THEN Pos[o.place] ELSE o.offer.id>>
             new == PairAfter(o, q)
             r == Append(q, new)
             m == Len(q)
  <1>1. new.id = IF \E j \in DOMAIN q : q[j].id = plain THEN Append(plain, m + 1) ELSE plain
    BY DEF PairAfter, OptionId
  <1>2. Len(plain) = 2 /\ Len(Append(plain, m + 1)) = 3 /\ Append(plain, m + 1)[3] = m + 1
    OBVIOUS
  <1> HIDE DEF plain, new
  <1>3. m \in Nat /\ DOMAIN q = 1..m /\ Len(r) = m + 1 /\ r[m + 1] = new /\ \A i \in 1..m : r[i] = q[i]
    <2>1. new \in T \cup {new} /\ q \in Seq(T \cup {new})
      OBVIOUS
    <2> QED BY <2>1
  <1> HIDE DEF r
  <1>4. ASSUME NEW i \in 1..m PROVE q[i].id # new.id
    <2>1. CASE \E j \in DOMAIN q : q[j].id = plain
      <3>1. Len(new.id) = 3 /\ new.id[3] = m + 1
        BY <1>1, <1>2, <2>1
      <3>2. i # m + 1
        BY <1>3
      <3>3. Len(q[i].id) = 2 \/ q[i].id[3] = i
        BY DEF ToldApart
      <3> QED BY <3>1, <3>2, <3>3
    <2>2. CASE ~\E j \in DOMAIN q : q[j].id = plain
      BY <1>1, <1>3, <2>2
    <2> QED BY <2>1, <2>2
  <1>5. Len(new.id) = 2 \/ (Len(new.id) = 3 /\ new.id[3] = m + 1)
    BY <1>1, <1>2
  <1> HIDE DEF m
  <1>6. \A i \in 1..(m + 1) : i = m + 1 \/ i \in 1..m
    BY <1>3
  <1>7. ASSUME NEW i \in 1..(m + 1)
        PROVE  Len(r[i].id) = 2 \/ (Len(r[i].id) = 3 /\ r[i].id[3] = i)
    <2>1. CASE i \in 1..m
      BY <2>1, <1>3 DEF ToldApart, m
    <2> QED BY <2>1, <1>3, <1>5, <1>6
  <1>8. ASSUME NEW i \in 1..(m + 1), NEW k \in 1..(m + 1), r[i].id = r[k].id PROVE i = k
    <2>1. CASE i \in 1..m /\ k \in 1..m
      BY <2>1, <1>3, <1>8 DEF ToldApart, m
    <2>2. CASE i \in 1..m /\ k = m + 1
      BY <2>2, <1>3, <1>4, <1>8
    <2>3. CASE i = m + 1 /\ k \in 1..m
      BY <2>3, <1>3, <1>4, <1>8
    <2> QED BY <2>1, <2>2, <2>3, <1>6
  <1> QED BY <1>3, <1>7, <1>8 DEF ToldApart, r, new

\* The options of a list of offers are a sequence, told apart by their ids.
LEMMA PairsToldApart ==
  ASSUME NEW T, NEW all \in Seq(T)
  PROVE  LET q == PairsUpTo(all)[Len(all)] IN ToldApart(q) /\ \E S : q \in Seq(S)
  <1> DEFINE m == Len(all)
             F == PairsUpTo(all)
             S == {PairAfter(all[n], F[n - 1]) : n \in 1..m}
             N == {n \in Nat : n <= m => F[n] \in Seq(S) /\ ToldApart(F[n])}
  <1>1. m \in Nat
    OBVIOUS
  <1>2. \E H : H = [n \in 0..m |-> PairsStep(H, all, n)]
    <2> HIDE DEF m
    <2> QED BY <1>1, PairsExist
  <1>3. PairsUpTo(all) = [n \in 0..Len(all) |-> PairsStep(PairsUpTo(all), all, n)]
    BY <1>2, Zenon DEF PairsUpTo, PairsStep, PairAfter
  <1>4. \A n \in 0..m : F[n] = PairsStep(F, all, n)
    BY <1>3
  <1> HIDE DEF F
  <1>5. 0 \in N
    <2>1. F[0] = <<>>
      BY <1>1, <1>4 DEF PairsStep
    <2>2. F[0] \in Seq(S) /\ Len(F[0]) = 0
      BY <2>1
    <2> QED BY <2>2 DEF ToldApart
  <1>6. ASSUME NEW n \in Nat, n \in N PROVE n + 1 \in N
    <2> SUFFICES ASSUME n + 1 <= m PROVE F[n + 1] \in Seq(S) /\ ToldApart(F[n + 1])
      OBVIOUS
    <2>1. F[n] \in Seq(S) /\ ToldApart(F[n])
      BY <1>1, <1>6
    <2>2. n + 1 \in 0..m /\ n + 1 \in 1..m /\ n + 1 # 0 /\ (n + 1) - 1 = n
      BY <1>1
    <2>3. F[n + 1] = Append(F[n], PairAfter(all[n + 1], F[n]))
      BY <1>4, <2>2 DEF PairsStep
    <2>4. PairAfter(all[n + 1], F[n]) \in S
      BY <2>2
    <2> HIDE DEF S
    <2>5. ToldApart(F[n + 1])
      BY <2>1, <2>3, NextIsToldApart
    <2> QED BY <2>1, <2>3, <2>4, <2>5
  <1> HIDE DEF N
  <1>7. Nat \subseteq N
    BY <1>5, <1>6, SetInduction
  <1>8. F[m] \in Seq(S) /\ ToldApart(F[m])
    BY SMTT(60), <1>1, <1>7 DEF N
  <1> QED BY <1>8 DEF F

\* What the offers of some datasets come to.
LEMMA OffersListed ==
  ASSUME MarketAssumption, NEW ds \in Seq(Datasets)
  PROVE  /\ OffersOf(ds) \in Seq(Offers)
         /\ ToldApart(PairsOf(ds)) /\ \E S : PairsOf(ds) \in Seq(S)
  <1> DEFINE T == [asset : {d.asset : d \in Datasets}, place : Nat, offer : Offers]
             m == Len(ds)
  <1>1. m \in Nat /\ DOMAIN ds = 1..m /\ \A k \in 1..m : ds[k] \in Datasets
    OBVIOUS
  <1>2. \A d \in Datasets : d.offers \in Seq(Offers)
    BY DEF MarketAssumption
  <1>3. ASSUME NEW d \in Datasets PROVE Offered(d) \in Seq(T)
    <2> DEFINE n == Len(d.offers)
               e == [k \in 1..n |-> [asset |-> d.asset, place |-> k, offer |-> d.offers[k]]]
    <2>1. n \in Nat /\ DOMAIN d.offers = 1..n /\ \A k \in 1..n : d.offers[k] \in Offers
      BY <1>2
    <2> HIDE DEF n
    <2>2. ASSUME NEW k \in 1..n PROVE e[k] \in T
      BY <2>1
    <2>3. e \in Seq(T)
      <3> HIDE DEF T
      <3>1. e \in [1..n -> T]
        BY <2>2
      <3> QED BY <2>1, <3>1, SeqDef
    <2>4. Offered(d) = <<>> \/ Offered(d) = e
      BY <2>1 DEF Offered
    <2> HIDE DEF e, T
    <2>5. <<>> \in Seq(T)
      OBVIOUS
    <2> QED BY <2>3, <2>4, <2>5
  <1>4. [k \in DOMAIN ds |-> Offered(ds[k])] \in Seq(Seq(T))
    <2> HIDE DEF m, T
    <2>1. [k \in 1..m |-> Offered(ds[k])] \in [1..m -> Seq(T)]
      BY <1>1, <1>3
    <2> QED BY <1>1, <2>1, SeqDef
  <1>5. [k \in DOMAIN ds |-> ds[k].offers] \in Seq(Seq(Offers))
    <2> HIDE DEF m
    <2>1. [k \in 1..m |-> ds[k].offers] \in [1..m -> Seq(Offers)]
      BY <1>1, <1>2
    <2> QED BY <1>1, <2>1, SeqDef
  <1> HIDE DEF T
  <1>6. AllOffered(ds) \in Seq(T)
    BY <1>4, JoinedIsSequence DEF AllOffered
  <1>7. ToldApart(PairsOf(ds)) /\ \E S : PairsOf(ds) \in Seq(S)
    BY <1>6, PairsToldApart DEF PairsOf
  <1>8. OffersOf(ds) \in Seq(Offers)
    BY <1>5, JoinedIsSequence DEF OffersOf
  <1> QED BY <1>7, <1>8

\* What one sequence without repetition has and another has not, counted.
LEMMA WithoutCounted ==
  ASSUME NEW xs \in Seq(Constraints), NEW ys \in Seq(Constraints), \A j, k \in DOMAIN xs : xs[j] = xs[k] => j = k
  PROVE  LET D == Range(xs) \ Range(ys) IN
         IsFiniteSet(D) /\ Cardinality(D) = Len(Without(xs, ys)) /\ Len(Without(xs, ys)) \in Nat
  <1> DEFINE r == Without(xs, ys)
             D == Range(xs) \ Range(ys)
  <1>1. DOMAIN xs = 1..Len(xs) /\ \A i \in 1..Len(xs) : xs[i] \in Constraints
    OBVIOUS
  <1>2. /\ r \in Seq(Constraints)
        /\ \A i \in 1..Len(r) : r[i] \in Constraints \ Range(ys) /\ \E j \in 1..Len(xs) : r[i] = xs[j]
        /\ \A j \in 1..Len(xs) : xs[j] \in Constraints \ Range(ys) => \E i \in 1..Len(r) : r[i] = xs[j]
        /\ \A i, k \in 1..Len(r) : r[i] = r[k] => i = k
    <2> DEFINE S == Constraints \ Range(ys)
    <2>1. r = Filter(xs, S)
      BY DEF Without
    <2>2. \A i, k \in 1..Len(xs) : xs[i] = xs[k] => i = k
      BY <1>1
    <2> HIDE DEF r, S
    <2>3. /\ r \in Seq(Constraints)
          /\ \A i \in 1..Len(r) : r[i] \in S /\ \E j \in 1..Len(xs) : r[i] = xs[j]
          /\ \A j \in 1..Len(xs) : xs[j] \in S => \E i \in 1..Len(r) : r[i] = xs[j]
          /\ (\A i, k \in 1..Len(xs) : xs[i] = xs[k] => i = k) => \A i, k \in 1..Len(r) : r[i] = r[k] => i = k
      BY <2>1, FilterKeeps
    <2> QED BY <2>2, <2>3 DEF S
  <1> HIDE DEF r
  <1>3. Range(xs) = {xs[i] : i \in 1..Len(xs)}
    BY <1>1 DEF Range
  <1>4. {r[i] : i \in 1..Len(r)} = D
    BY <1>1, <1>2, <1>3
  <1> HIDE DEF D
  <1>5. Len(r) \in Nat /\ DOMAIN r = 1..Len(r)
    BY <1>2
  <1>6. r \in [1..Len(r) -> D]
    BY <1>2, <1>4, <1>5
  <1>7. ToSet(r) = D
    BY <1>4, <1>5 DEF ToSet
  <1>8. r \in Seq(D)
    BY <1>5, <1>6, SeqDef
  <1>9. IsFiniteSet(D) /\ Cardinality(D) = Len(r)
    BY <1>2, <1>7, <1>8, AsManyAs
  <1> QED BY <1>5, <1>9 DEF r, D

\* The differences that are counted are the changes, for policies that state nothing twice.
LEMMA DifferencesAreChanges ==
  ASSUME MarketAssumption, NEW p \in Policies, NEW expected \in Seq(Policies), NEW k \in DOMAIN expected
  PROVE  /\ Differences(Compared(p, expected, k)) \in Nat
         /\ Concise(p) /\ Concise(expected[k]) => Changes(p, expected[k]) = Differences(Compared(p, expected, k))
  <1> DEFINE xs == ConstraintsOf(p)
             ys == ConstraintsOf(expected[k])
             A == Range(xs)
             B == Range(ys)
  <1>1. expected[k] \in Policies
    OBVIOUS
  <1>2. xs \in Seq(Constraints) /\ ys \in Seq(Constraints)
    BY <1>1, JoinedIsSequence DEF MarketAssumption, ConstraintsOf
  <1>3. Differences(Compared(p, expected, k)) = Len(Without(xs, ys)) + Len(Without(ys, xs))
    BY DEF Differences, Compared
  <1>4. Concise(p) = (\A j, i \in DOMAIN xs : xs[j] = xs[i] => j = i)
        /\ Concise(expected[k]) = (\A j, i \in DOMAIN ys : ys[j] = ys[i] => j = i)
    BY DEF Concise
  <1>5. Changes(p, expected[k]) = Cardinality((A \ B) \cup (B \ A))
    BY DEF Changes, SymDiff
  <1> HIDE DEF xs, ys
  <1>6. Len(Without(xs, ys)) \in Nat /\ Len(Without(ys, xs)) \in Nat
    <2>1. Without(xs, ys) \in Seq(Constraints) /\ Without(ys, xs) \in Seq(Constraints)
      BY <1>2, FilterKeeps DEF Without
    <2> QED BY <2>1
  <1>7. ASSUME Concise(p), Concise(expected[k])
        PROVE  Changes(p, expected[k]) = Len(Without(xs, ys)) + Len(Without(ys, xs))
    <2>1. IsFiniteSet(A \ B) /\ Cardinality(A \ B) = Len(Without(xs, ys))
      BY <1>2, <1>4, <1>7, WithoutCounted
    <2>2. IsFiniteSet(B \ A) /\ Cardinality(B \ A) = Len(Without(ys, xs))
      BY <1>2, <1>4, <1>7, WithoutCounted
    <2>3. (A \ B) \cap (B \ A) = {}
      OBVIOUS
    <2> DEFINE C == A \ B
               E == B \ A
    <2> HIDE DEF A, B, C, E
    <2>4. Cardinality(C \cup E) = Cardinality(C) + Cardinality(E) - Cardinality(C \cap E)
      BY <2>1, <2>2, FS_Union DEF C, E
    <2>5. Cardinality(C \cap E) = 0
      BY <2>3, FS_EmptySet DEF C, E
    <2>6. Changes(p, expected[k]) = Cardinality(C \cup E)
      BY <1>5 DEF C, E
    <2>7. Cardinality(C) = Len(Without(xs, ys)) /\ Cardinality(E) = Len(Without(ys, xs))
      BY <2>1, <2>2 DEF C, E
    <2> QED BY <1>6, <2>4, <2>5, <2>6, <2>7
  <1> QED BY <1>3, <1>6, <1>7

\* The expected policy that is named is one of the expected, and none has fewer differences.
LEMMA ClosestIsLeast ==
  ASSUME MarketAssumption, NEW p \in Policies, NEW expected \in Seq(Policies), expected # <<>>
  PROVE  LET c == Closest(p, expected) IN
         /\ c.policy = p /\ c.index \in DOMAIN expected /\ c = Compared(p, expected, c.index)
         /\ \A j \in DOMAIN expected : Differences(c) <= Differences(Compared(p, expected, j))
  <1> DEFINE C(k) == Compared(p, expected, k)
             cs == {Compared(p, expected, k) : k \in DOMAIN expected}
             Least(c) == \A d \in cs : Differences(c) < Differences(d) \/ (Differences(c) = Differences(d) /\ c.index <= d.index)
             c == Closest(p, expected)
  <1>1. DOMAIN expected = 1..Len(expected) /\ Len(expected) \in Nat /\ 1 \in DOMAIN expected
    BY EmptySeq
  <1>2. \A k \in DOMAIN expected : Differences(C(k)) \in Nat /\ C(k).policy = p /\ C(k).index = k
    BY DifferencesAreChanges DEF Compared
  <1> HIDE DEF C
  <1>3. \E k \in DOMAIN expected : Least(C(k))
    <2> DEFINE D == {Differences(C(k)) : k \in DOMAIN expected}
    <2>1. D \in SUBSET Nat /\ D # {}
      BY <1>1, <1>2
    <2>2. PICK n \in D : \A x \in D : n <= x
      BY <2>1, LeastNatural
    <2> DEFINE K == {k \in DOMAIN expected : Differences(C(k)) = n}
    <2>3. K \in SUBSET Nat /\ K # {}
      BY <1>1, <2>2
    <2>4. PICK k \in K : \A x \in K : k <= x
      BY <2>3, LeastNatural
    <2>5. ASSUME NEW j \in DOMAIN expected
          PROVE  Differences(C(k)) < Differences(C(j)) \/ (Differences(C(k)) = Differences(C(j)) /\ C(k).index <= C(j).index)
      <3>1. Differences(C(j)) \in D /\ Differences(C(k)) = n /\ k \in DOMAIN expected
        BY <2>4
      <3>2. n <= Differences(C(j)) /\ n \in Nat /\ Differences(C(j)) \in Nat
        BY <1>2, <2>1, <2>2, <3>1
      <3>3. CASE Differences(C(j)) = n
        BY <3>1, <3>3, <2>4, <1>2
      <3>4. CASE Differences(C(j)) # n
        BY <3>1, <3>2, <3>4
      <3> QED BY <3>3, <3>4
    <2>6. Least(C(k))
      BY <2>5 DEF C
    <2> QED BY <2>4, <2>6
  <1>4. c \in cs /\ Least(c)
    <2>1. \E x \in cs : Least(x)
      BY <1>3 DEF C
    <2>2. c = CHOOSE x \in cs : Least(x)
      BY DEF Closest
    <2> HIDE DEF c, cs, Least
    <2> QED BY <2>1, <2>2
  <1> HIDE DEF c
  <1>5. PICK k \in DOMAIN expected : c = C(k)
    BY <1>4 DEF C
  <1>6. c.policy = p /\ c.index = k /\ c = Compared(p, expected, c.index)
    BY <1>2, <1>5 DEF C
  <1>7. ASSUME NEW j \in DOMAIN expected PROVE Differences(c) <= Differences(Compared(p, expected, j))
    <2>1. Differences(C(j)) \in Nat /\ Differences(c) \in Nat
      BY <1>2, <1>5
    <2>2. Differences(c) < Differences(C(j)) \/ Differences(c) = Differences(C(j))
      BY <1>4 DEF C
    <2>3. Differences(c) <= Differences(C(j))
      BY <2>1, <2>2
    <2> QED BY <2>3 DEF C
  <1> QED BY <1>6, <1>7 DEF c

\* What OffersTold rests on: the options that are shown are those of the datasets that were
\* published last.
MarketInv ==
    /\ catalog \in Seq(Datasets) /\ datasets \in Seq(Datasets)
    /\ shown = <<>> \/ shown = PairsOf(datasets)

\* A filter lets datasets through.
LEMMA FilteredDatasets ==
  ASSUME MarketInv, NEW f
  PROVE  Filtered(f) \in Seq(Datasets)
  BY FilterFacts DEF MarketInv, Filtered

\* A mismatch is told of with the closest policy for each offer.
MismatchTold(s) ==
    s.kind = "mismatch" =>
      \A k \in DOMAIN s.offers : \A j \in DOMAIN s.expected :
         Concise(s.offers[k].policy) /\ (\A i \in DOMAIN s.expected : Concise(s.expected[i])) =>
         Changes(s.offers[k].policy, s.expected[s.offers[k].index]) <= Changes(s.offers[k].policy, s.expected[j])

\* What a mismatch is explained by is so.
LEMMA ExplainTells ==
  ASSUME MarketAssumption, NEW ds \in Seq(Datasets), NEW expected \in Seq(Policies)
  PROVE  MismatchTold(Explain(ds, expected))
  <1> DEFINE s == Explain(ds, expected)
             offers == OffersOf(ds)
  <1>1. offers \in Seq(Offers)
    BY OffersListed
  <1>2. s.kind = "mismatch" => s.expected = expected /\ s.offers = Compare(ds, expected)
    BY DEF Explain
  <1> HIDE DEF s
  <1>3. ASSUME s.kind = "mismatch", NEW k \in DOMAIN s.offers, NEW j \in DOMAIN s.expected,
               Concise(s.offers[k].policy), \A i \in DOMAIN s.expected : Concise(s.expected[i])
        PROVE  Changes(s.offers[k].policy, s.expected[s.offers[k].index]) <= Changes(s.offers[k].policy, s.expected[j])
    <2>1. s.expected = expected /\ s.offers = Compare(ds, expected)
      BY <1>2, <1>3
    <2>2. expected # <<>> /\ j \in DOMAIN expected
      BY <2>1
    <2>3. k \in DOMAIN offers /\ s.offers[k] = Closest(offers[k].policy, expected)
      BY <2>1, <2>2 DEF Compare
    <2>4. offers[k].policy \in Policies
      <3> HIDE DEF offers
      <3>1. offers[k] \in Offers
        BY <1>1, <2>3
      <3> QED BY <3>1 DEF Offers
    <2> DEFINE p == offers[k].policy
               c == Closest(p, expected)
    <2> HIDE DEF p, c
    <2>5. p \in Policies /\ s.offers[k] = c
      BY <2>3, <2>4 DEF p, c
    <2>6. c.policy = p /\ c.index \in DOMAIN expected /\ c = Compared(p, expected, c.index)
          /\ Differences(c) <= Differences(Compared(p, expected, j))
      BY <2>2, <2>5, ClosestIsLeast DEF c
    <2>7. Concise(p) /\ \A i \in DOMAIN expected : Concise(expected[i])
      BY <1>3, <2>1, <2>5, <2>6
    <2>8. Changes(p, expected[c.index]) = Differences(c)
      BY <2>5, <2>6, <2>7, DifferencesAreChanges
    <2>9. Changes(p, expected[j]) = Differences(Compared(p, expected, j))
      BY <2>2, <2>5, <2>7, DifferencesAreChanges
    <2> QED BY <2>1, <2>5, <2>6, <2>8, <2>9
  <1> QED BY <1>3 DEF MismatchTold, s

\* A choice publishes the offer that was shown under the option.
ChoiceTold(c) ==
    c # <<>> /\ c[1].option # <<>> => c[1].asset = c[1].option.asset /\ c[1].offer = c[1].option.offer

\* The id that comes back finds the pair it was shown for.
LEMMA ChooseTells ==
  ASSUME MarketAssumption, MarketInv, NEW option, Choose(option)
  PROVE  ChoiceTold(chosen')
  <1> DEFINE q == PairsOf(datasets)
             S == {p \in Range(q) : p.id = option.id}
             pair == Head(Filter(q, S))
  <1>1. PICK k \in DOMAIN shown : shown[k] = option
    BY DEF Choose
  <1>2. shown = q
    BY <1>1 DEF MarketInv
  <1>3. ToldApart(q) /\ \E T : q \in Seq(T)
    BY OffersListed DEF MarketInv
  <1>4. chosen' = <<[option |-> option, asset |-> pair.asset, offer |-> pair.offer]>>
    BY DEF Choose
  <1> HIDE DEF q
  <1>5. PICK T : q \in Seq(T)
    BY <1>3
  <1>6. DOMAIN q = 1..Len(q)
    BY <1>5
  <1>7. k \in 1..Len(q) /\ q[k] = option /\ q[k] \in S
    BY <1>1, <1>2, <1>6 DEF Range
  <1> HIDE DEF S
  <1>8. pair \in S /\ \E i \in 1..Len(q) : pair = q[i]
    BY <1>5, <1>7, FirstKept
  <1>9. PICK i \in 1..Len(q) : pair = q[i]
    BY <1>8
  <1>10. q[i].id = q[k].id
    BY <1>7, <1>8, <1>9 DEF S
  <1>11. i = k
    BY <1>3, <1>10, <1>7 DEF ToldApart
  <1>12. pair = option
    BY <1>7, <1>9, <1>11
  <1> HIDE DEF pair
  <1> QED BY <1>4, <1>12 DEF ChoiceTold

\* The offers negotiated are made under an expected policy.
DealsTold(ds) == \A d \in ds : d.given = "some" => \E k \in DOMAIN d.expected : d.expected[k] = d.policy

\* The policies a test may expect are policies.
LEMMA ExpectedPolicies ==
  Expected \subseteq Seq(Policies) /\ <<>> \in Seq(Policies)
  <1>1. ASSUME NEW e \in Expected PROVE e \in Seq(Policies)
    <2>1. CASE e = <<>>
      BY <2>1
    <2>2. ASSUME NEW p \in Policies, e = <<p>> PROVE e \in Seq(Policies)
      BY <2>2
    <2>3. ASSUME NEW p \in Policies, NEW q \in Policies, e = <<p, q>> PROVE e \in Seq(Policies)
      BY <2>3
    <2> QED BY <2>1, <2>2, <2>3 DEF Expected
  <1> QED BY <1>1

\* A complete flow negotiates under an expected policy, or tells why not.
LEMMA DoDspTells ==
  ASSUME MarketAssumption, MarketInv, DealsTold(deal), NEW f, NEW any, NEW given \in {"none", "some"},
         NEW e \in Seq(Policies), NEW w, NEW end, DoDsp(f, any, given, e, w, end)
  PROVE  DealsTold(deal') /\ MismatchTold(said')
  <1> DEFINE ds == Filtered(f)
             fit == Taken(ds, given, e)
             new == [policy |-> Head(fit).policy, given |-> given, expected |-> e]
             offers == OffersOf(ds)
  <1>1. ds \in Seq(Datasets)
    BY FilteredDatasets
  <1>2. MismatchTold(Explain(ds, e))
    BY <1>1, ExplainTells
  <1>3. offers \in Seq(Offers)
    BY <1>1, OffersListed
  <1>4. \/ said' = [kind |-> "any_offer"] /\ deal' = deal
        \/ said' = [kind |-> "no_policy"] /\ deal' = deal
        \/ said' = [kind |-> "as_it_came"] /\ deal' = deal
        \/ said' = Explain(ds, e) /\ deal' = deal
        \/ said' = [kind |-> "no_endpoint"] /\ deal' = deal
        \/ said' = [kind |-> "none"] /\ fit # <<>> /\ deal' = deal \cup {new}
    BY DEF DoDsp, NoRefusal
  <1> HIDE DEF ds, new
  <1>5. MismatchTold(said')
    BY <1>2, <1>4 DEF MismatchTold
  <1>6. ASSUME fit # <<>>, given = "some" PROVE \E k \in DOMAIN e : e[k] = new.policy
    <2> DEFINE S == {o \in Range(offers) : \E k \in DOMAIN e : o.policy = e[k]}
    <2>1. fit = Filter(offers, S)
      BY <1>6 DEF Taken
    <2> HIDE DEF fit, offers, S
    <2>2. fit \in Seq(Offers) /\ \A i \in 1..Len(fit) : fit[i] \in S
      BY <1>3, <2>1, FilterKeeps
    <2>3. 1 \in 1..Len(fit) /\ Head(fit) = fit[1]
      BY <1>6, <2>2, EmptySeq
    <2>4. Head(fit) \in S
      BY <2>2, <2>3
    <2>5. \E k \in DOMAIN e : Head(fit).policy = e[k]
      BY <2>4 DEF S
    <2> QED BY <2>5 DEF new, fit
  <1> HIDE DEF fit
  <1>7. new.given = given /\ new.expected = e
    BY DEF new
  <1>8. fit # <<>> => DealsTold(deal \cup {new})
    BY <1>6, <1>7 DEF DealsTold
  <1> QED BY <1>4, <1>5, <1>8

\* Nothing has been told when the market opens.
LEMMA MarketStart ==
  ASSUME MarketAssumption, MInit
  PROVE  MarketInv /\ OffersTold
  BY DEF MInit, MarketInv, MarketAssumption, NoRefusal, OffersTold

\* The parts of OffersTold.
LEMMA OffersToldParts ==
  OffersTold <=> /\ \A j, k \in DOMAIN shown : shown[j].id = shown[k].id => j = k
                 /\ ChoiceTold(chosen) /\ DealsTold(deal) /\ MismatchTold(said)
  BY DEF OffersTold, ChoiceTold, DealsTold, MismatchTold

\* What a step of the market leaves true.
LEMMA MarketStep ==
  ASSUME MarketAssumption, MarketInv, OffersTold, [MNext]_mVars
  PROVE  MarketInv' /\ OffersTold'
  <1> DEFINE Parts == /\ \A j, k \in DOMAIN shown' : shown'[j].id = shown'[k].id => j = k
                      /\ ChoiceTold(chosen') /\ DealsTold(deal') /\ MismatchTold(said')
  <1>1. /\ \A j, k \in DOMAIN shown : shown[j].id = shown[k].id => j = k
        /\ ChoiceTold(chosen) /\ DealsTold(deal) /\ MismatchTold(said)
    BY OffersToldParts
  <1>2. OffersTold' <=> Parts
    BY OffersToldParts DEF ChoiceTold, DealsTold, MismatchTold, OffersTold
  <1>3. ChoiceTold(<<>>) /\ \A x : x.option = <<>> => ChoiceTold(<<x>>)
    BY DEF ChoiceTold
  <1>4. \A f : Filtered(f) \in Seq(Datasets)
    BY FilteredDatasets
  <1>5. \A s : s.kind # "mismatch" => MismatchTold(s)
    BY DEF MismatchTold
  <1>6. <<>> \in Seq(Datasets)
    OBVIOUS
  <1> HIDE DEF Parts
  <1> SUFFICES MarketInv' /\ Parts
    BY <1>2
  <1>7. ASSUME catalog' = catalog, datasets' \in Seq(Datasets), shown' = <<>>,
               ChoiceTold(chosen'), deal' = deal, MismatchTold(said')
        PROVE  MarketInv' /\ Parts
    BY <1>1, <1>7 DEF MarketInv, Parts
  <1>8. CASE UNCHANGED mVars
    BY <1>1, <1>8 DEF mVars, MarketInv, Parts
  <1>9. CASE ProviderChanges
    BY <1>1, <1>9 DEF ProviderChanges, MarketAssumption, MarketInv, Parts
  <1>10. CASE ShowOptions
    <2>1. ToldApart(PairsOf(datasets)) /\ \E S : PairsOf(datasets) \in Seq(S)
      BY OffersListed DEF MarketInv
    <2>2. DOMAIN PairsOf(datasets) = 1..Len(PairsOf(datasets))
      BY <2>1
    <2>3. catalog' = catalog /\ datasets' = datasets /\ shown' = PairsOf(datasets) /\ chosen' = <<>> /\ deal' = deal /\ said' = said
      BY <1>10 DEF ShowOptions
    <2>4. MarketInv'
      BY <2>3 DEF MarketInv
    <2>5. \A j, k \in DOMAIN shown' : shown'[j].id = shown'[k].id => j = k
      BY <2>1, <2>2, <2>3 DEF ToldApart
    <2> QED BY <1>1, <1>3, <2>3, <2>4, <2>5 DEF Parts
  <1>11. ASSUME NEW f, NEW g, QueryCatalog(f, g) PROVE MarketInv' /\ Parts
    <2>1. /\ catalog' = catalog /\ datasets' \in Seq(Datasets) /\ shown' = <<>> /\ chosen' = <<>> /\ deal' = deal
          /\ said'.kind # "mismatch"
      BY <1>4, <1>6, <1>11 DEF QueryCatalog, NoRefusal
    <2> QED BY <2>1, <1>3, <1>5, <1>7
  <1>12. ASSUME NEW a, QueryByAsset(a) PROVE MarketInv' /\ Parts
    <2>1. /\ catalog' = catalog /\ datasets' \in Seq(Datasets) /\ shown' = <<>> /\ deal' = deal
          /\ said'.kind # "mismatch"
      BY <1>4, <1>12 DEF QueryByAsset, NoRefusal
    <2>2. chosen' = <<>> \/ \E x : chosen' = <<x>> /\ x.option = <<>>
      BY <1>12 DEF QueryByAsset
    <2> QED BY <2>1, <2>2, <1>3, <1>5, <1>7
  <1>13. ASSUME NEW a, QueryByBpnl(a) PROVE MarketInv' /\ Parts
    <2>1. /\ catalog' = catalog /\ datasets' \in Seq(Datasets) /\ shown' = <<>> /\ chosen' = <<>> /\ deal' = deal
          /\ said'.kind # "mismatch"
      BY <1>4, <1>6, <1>13 DEF QueryByBpnl, NoRefusal
    <2> QED BY <2>1, <1>3, <1>5, <1>7
  <1>14. ASSUME NEW t, ExtractDataset(t) PROVE MarketInv' /\ Parts
    <2>1. /\ catalog' = catalog /\ datasets' = datasets /\ shown' = shown /\ deal' = deal
          /\ said'.kind # "mismatch"
      BY <1>14 DEF ExtractDataset, NoRefusal
    <2>2. chosen' = <<>> \/ \E x : chosen' = <<x>> /\ x.option = <<>>
      <3> DEFINE match == SelectSeq(datasets, LAMBDA d : d.type = t)
                 x == [option |-> <<>>, asset |-> Head(match).asset, offer |-> Head(Head(match).offers)]
      <3>1. chosen' = IF match = <<>> \/ Head(match).offers = <<>> THEN <<>> ELSE <<x>>
        BY <1>14, Zenon DEF ExtractDataset
      <3>2. x.option = <<>>
        OBVIOUS
      <3> HIDE DEF match, x
      <3> QED BY <3>1, <3>2
    <2>3. ChoiceTold(chosen') /\ MismatchTold(said')
      BY <2>1, <2>2, <1>3, <1>5
    <2> QED BY <2>1, <2>3, <1>1 DEF MarketInv, Parts
  <1>15. ASSUME NEW d, DiscoverConnector(d) PROVE MarketInv' /\ Parts
    <2>1. /\ catalog' = catalog /\ datasets' = datasets /\ shown' = shown /\ chosen' = chosen /\ deal' = deal
          /\ said'.kind # "mismatch"
      BY <1>15 DEF DiscoverConnector
    <2>2. MismatchTold(said')
      BY <2>1, <1>5
    <2> QED BY <2>1, <2>2, <1>1 DEF MarketInv, Parts
  <1>16. ASSUME NEW d, NEW b, MockDiscovery(d, b) PROVE MarketInv' /\ Parts
    <2>1. /\ catalog' = catalog /\ datasets' = datasets /\ shown' = shown /\ chosen' = chosen /\ deal' = deal
          /\ said'.kind # "mismatch"
      BY <1>16 DEF MockDiscovery
    <2>2. MismatchTold(said')
      BY <2>1, <1>5
    <2> QED BY <2>1, <2>2, <1>1 DEF MarketInv, Parts
  <1>17. ASSUME NEW f, NEW any, NEW g \in {"none", "some"}, NEW e \in Seq(Policies), NEW w, NEW end,
                DoDsp(f, any, g, e, w, end)
         PROVE  MarketInv' /\ Parts
    <2>1. DealsTold(deal') /\ MismatchTold(said')
      BY <1>1, <1>17, DoDspTells
    <2>2. catalog' = catalog /\ datasets' = datasets /\ shown' = shown /\ chosen' = chosen
      BY <1>17 DEF DoDsp
    <2> QED BY <2>1, <2>2, <1>1 DEF MarketInv, Parts
  <1>18. ASSUME NEW k \in DOMAIN shown, Choose(shown[k]) PROVE MarketInv' /\ Parts
    <2>1. ChoiceTold(chosen')
      BY <1>18, ChooseTells
    <2>2. catalog' = catalog /\ datasets' = datasets /\ shown' = shown /\ deal' = deal /\ said' = said
      BY <1>18 DEF Choose
    <2> QED BY <2>1, <2>2, <1>1 DEF MarketInv, Parts
  <1>19. \A e \in Expected : e \in Seq(Policies)
    BY ExpectedPolicies
  <1>20. <<>> \in Seq(Policies)
    BY ExpectedPolicies
  <1> QED BY <1>8, <1>9, <1>10, <1>11, <1>12, <1>13, <1>14, <1>15, <1>16, <1>17, <1>18, <1>19, <1>20 DEF MNext

\* What the operator and the author are told of the offers is so, for any catalogs and policies:
\* the choice of an option publishes the offer shown under it, a complete flow negotiates under
\* an expected policy alone, and a mismatch names the closest of them.
THEOREM OffersAlwaysTold == MSpec => []OffersTold
  <1>1. MInit => MarketInv /\ OffersTold
    BY MarketAssumption, MarketStart
  <1>2. MarketInv /\ OffersTold /\ [MNext]_mVars => (MarketInv /\ OffersTold)'
    BY MarketAssumption, MarketStep
  <1> QED BY <1>1, <1>2, PTL DEF MSpec
===============================================================================
