------------------------- MODULE OperatorProofs ----------------------------
(***************************************************************************)
(* What the operator is shown and what they say, proved for any steps and  *)
(* options, any tree of steps, any timeout and any number of questions,    *)
(* pauses, tries and runs: the checkpoints of a test (Checkpoints), and    *)
(* the choices of a run (SelectionDesk).                                   *)
(***************************************************************************)
EXTENDS Checkpoints, SelectionDesk, SequenceFilterProofs, TLAPS

-----------------------------------------------------------------------------
(* The checkpoints of a test. *)

\* A prefix agrees with the sequence wherever it has an element.
LEMMA PrefixIs ==
  ASSUME NEW S, NEW q \in Seq(S), NEW p \in Seq(S)
  PROVE  IsPrefix(q, p) <=> Len(q) <= Len(p) /\ \A i \in 1..Len(q) : q[i] = p[i]
  <1>1. SubSeq(q, 1, Len(q)) = q
    BY SubSeqFull
  <1>2. ASSUME Len(q) <= Len(p)
        PROVE  SubSeq(p, 1, Len(q)) \in Seq(S) /\ Len(SubSeq(p, 1, Len(q))) = Len(q)
               /\ \A i \in 1..Len(q) : SubSeq(p, 1, Len(q))[i] = p[i]
    <2>1. Len(q) \in Nat
      OBVIOUS
    <2> QED BY <1>2, <2>1, HeadIs
  <1>3. ASSUME Len(q) <= Len(p) PROVE q = SubSeq(p, 1, Len(q)) <=> \A i \in 1..Len(q) : q[i] = p[i]
    <2> DEFINE r == SubSeq(p, 1, Len(q))
    <2>1. r \in Seq(S) /\ Len(r) = Len(q) /\ \A i \in 1..Len(q) : r[i] = p[i]
      BY <1>2, <1>3
    <2> HIDE DEF r
    <2>2. r = q <=> \A i \in 1..Len(q) : q[i] = r[i]
      BY <2>1
    <2>3. r = q <=> \A i \in 1..Len(q) : q[i] = p[i]
      BY <2>1, <2>2
    <2> QED BY <2>3 DEF r
  <1> QED BY <1>1, <1>3 DEF IsPrefix

\* A longer prefix is no equal one.
LEMMA StrictIs ==
  ASSUME NEW S, NEW q \in Seq(S), NEW p \in Seq(S)
  PROVE  IsStrictPrefix(q, p) <=> Len(q) < Len(p) /\ \A i \in 1..Len(q) : q[i] = p[i]
  <1>1. IsPrefix(q, p) <=> Len(q) <= Len(p) /\ \A i \in 1..Len(q) : q[i] = p[i]
    BY PrefixIs
  <1>2. Len(q) \in Nat /\ Len(p) \in Nat
    OBVIOUS
  <1>3. Len(q) = Len(p) /\ (\A i \in 1..Len(q) : q[i] = p[i]) => q = p
    OBVIOUS
  <1>4. q = p => Len(q) = Len(p)
    OBVIOUS
  <1> QED BY <1>1, <1>2, <1>3, <1>4 DEF IsStrictPrefix

\* A path with one more place.
LEMMA LongerIs ==
  ASSUME NEW S, NEW q \in Seq(S), NEW x \in S
  PROVE  /\ Append(q, x) \in Seq(S) /\ Len(Append(q, x)) = Len(q) + 1 /\ Len(q) \in Nat
         /\ Append(q, x)[Len(q) + 1] = x /\ \A i \in 1..Len(q) : Append(q, x)[i] = q[i]
         /\ IsStrictPrefix(q, Append(q, x))
  <1>1. /\ Append(q, x) \in Seq(S) /\ Len(Append(q, x)) = Len(q) + 1 /\ Len(q) \in Nat
        /\ Append(q, x)[Len(q) + 1] = x /\ \A i \in 1..Len(q) : Append(q, x)[i] = q[i]
    OBVIOUS
  <1>2. Len(q) < Len(Append(q, x))
    BY <1>1
  <1>3. IsStrictPrefix(q, Append(q, x))
    BY <1>1, <1>2, StrictIs
  <1> QED BY <1>1, <1>3

\* What comes under a longer path.
LEMMA UnderLonger ==
  ASSUME NEW S, NEW q \in Seq(S), NEW p \in Seq(S), NEW x \in S
  PROVE  IsPrefix(Append(q, x), p) <=> IsStrictPrefix(q, p) /\ p[Len(q) + 1] = x
  <1> DEFINE r == Append(q, x)
             n == Len(q)
             m == Len(p)
  <1>1. r \in Seq(S) /\ Len(r) = n + 1 /\ n \in Nat /\ r[n + 1] = x /\ \A i \in 1..n : r[i] = q[i]
    BY LongerIs
  <1>2. IsPrefix(r, p) <=> Len(r) <= m /\ \A i \in 1..Len(r) : r[i] = p[i]
    <2> HIDE DEF r
    <2> QED BY <1>1, PrefixIs
  <1>3. IsStrictPrefix(q, p) <=> n < m /\ \A i \in 1..n : q[i] = p[i]
    BY StrictIs
  <1>4. m \in Nat
    OBVIOUS
  <1> HIDE DEF r, n, m
  <1>5. n + 1 <= m <=> n < m
    BY <1>1, <1>4
  <1>6. (\A i \in 1..(n + 1) : r[i] = p[i]) <=> p[n + 1] = x /\ \A i \in 1..n : q[i] = p[i]
    <2>1. \A i \in 1..(n + 1) : i = n + 1 \/ i \in 1..n
      BY <1>1
    <2>2. n + 1 \in 1..(n + 1) /\ \A i \in 1..n : i \in 1..(n + 1)
      BY <1>1
    <2> QED BY <1>1, <2>1, <2>2
  <1>7. IsPrefix(r, p) <=> n < m /\ p[n + 1] = x /\ \A i \in 1..n : q[i] = p[i]
    BY <1>1, <1>2, <1>5, <1>6
  <1> QED BY <1>3, <1>7 DEF r, n

\* What is under what is under a path is under it.
LEMMA UnderUnder ==
  ASSUME NEW S, NEW q \in Seq(S), NEW r \in Seq(S), NEW p \in Seq(S), IsStrictPrefix(q, r), IsPrefix(r, p)
  PROVE  IsStrictPrefix(q, p) /\ p[Len(q) + 1] = r[Len(q) + 1]
  <1> DEFINE n == Len(q)
             k == Len(r)
             m == Len(p)
  <1>1. n < k /\ \A i \in 1..n : q[i] = r[i]
    BY StrictIs
  <1>2. k <= m /\ \A i \in 1..k : r[i] = p[i]
    BY PrefixIs
  <1>3. IsStrictPrefix(q, p) <=> n < m /\ \A i \in 1..n : q[i] = p[i]
    BY StrictIs
  <1>4. n \in Nat /\ k \in Nat /\ m \in Nat
    OBVIOUS
  <1> HIDE DEF n, k, m
  <1>5. n < m /\ n + 1 \in 1..k /\ \A i \in 1..n : i \in 1..k
    BY <1>1, <1>2, <1>4
  <1>6. n < m /\ \A i \in 1..n : q[i] = p[i]
    BY <1>1, <1>2, <1>5
  <1>7. p[n + 1] = r[n + 1]
    BY <1>2, <1>5
  <1> QED BY <1>3, <1>6, <1>7 DEF n

\* A path is a sequence of places and not empty.
LEMMA PathType ==
  ASSUME NEW p \in Paths
  PROVE  p \in Seq(Places) /\ Len(p) \in Nat \ {0} /\ \A i \in 1..Len(p) : p[i] \in Places
  <1>1. p \in Seq(Places) /\ p # <<>>
    BY PathsAssumption
  <1> QED BY <1>1

\* A place is a key and an index.
LEMMA PlaceType ==
  ASSUME NEW x \in Places
  PROVE  x[2] \in Nat \ {0} /\ x = <<x[1], x[2]>> /\ \A k \in Nat \ {0} : <<x[1], k>> \in Places
  BY DEF Places

\* A path is under itself.
LEMMA UnderItself ==
  ASSUME NEW p \in Paths
  PROVE  IsPrefix(p, p)
  <1>1. p \in Seq(Places) /\ Len(p) \in Nat
    BY PathType
  <1> QED BY <1>1, PrefixIs

\* The steps before a path are in its list.
LEMMA ListHasNoGaps ==
  ASSUME NEW q \in Seq(Places), NEW key, NEW n \in Nat \ {0}, NEW k \in 1..n, <<key, n>> \in Places,
         Append(q, <<key, n>>) \in Paths
  PROVE  Append(q, <<key, k>>) \in Paths
  <1> DEFINE p == Append(q, <<key, n>>)
  <1>1. Last(p) = <<key, n>>
    BY DEF Last
  <1>2. Front(p) = q
    BY DEF Front
  <1>3. \A j \in 1..Last(p)[2] : Append(Front(p), <<Last(p)[1], j>>) \in Paths
    BY PathsAssumption
  <1>4. Last(p)[1] = key /\ Last(p)[2] = n
    BY <1>1
  <1> HIDE DEF p
  <1> QED BY <1>2, <1>3, <1>4

\* Between a step and one under it is a step of one of its lists.
LEMMA NextUnder ==
  ASSUME NEW q \in Paths, NEW p \in Paths, IsStrictPrefix(q, p)
  PROVE  /\ p[Len(q) + 1] \in Places /\ p[Len(q) + 1][1] \in Lists(Uses[q])
         /\ Append(q, p[Len(q) + 1]) \in Paths /\ IsPrefix(Append(q, p[Len(q) + 1]), p)
  <1> DEFINE n == Len(q)
             m == Len(p)
             x == p[n + 1]
             r == SubSeq(p, 1, n + 1)
             b == SubSeq(p, 1, n)
  <1>1. q \in Seq(Places) /\ p \in Seq(Places) /\ n \in Nat \ {0} /\ m \in Nat \ {0} /\ \A i \in 1..m : p[i] \in Places
    BY PathType
  <1>2. n < m /\ \A i \in 1..n : q[i] = p[i]
    BY <1>1, StrictIs
  <1>3. \A j \in 1..(m - 1) : SubSeq(p, 1, j) \in Paths /\ p[j + 1][1] \in Lists(Uses[SubSeq(p, 1, j)])
    BY PathsAssumption
  <1>4. n \in Nat /\ n <= m /\ n + 1 \in Nat /\ n + 1 <= m /\ n + 1 \in 1..m /\ n \in 1..(m - 1)
    <2> HIDE DEF n, m
    <2> QED BY <1>1, <1>2
  <1>5. b \in Seq(Places) /\ Len(b) = n /\ \A i \in 1..n : b[i] = p[i]
    BY <1>1, <1>4, HeadIs
  <1>6. r \in Seq(Places) /\ Len(r) = n + 1 /\ \A i \in 1..(n + 1) : r[i] = p[i]
    <2> HIDE DEF n
    <2> QED BY <1>1, <1>4, HeadIs
  <1>7. b = q
    <2> HIDE DEF b
    <2> QED BY <1>1, <1>2, <1>5
  <1>8. r \in Paths
    <2>1. CASE n + 1 = m
      <3>1. r = p
        BY <1>1, <2>1, SubSeqFull
      <3> QED BY <3>1
    <2>2. CASE n + 1 # m
      <3>1. n + 1 \in 1..(m - 1)
        <4> HIDE DEF n, m
        <4> QED BY <1>4, <1>1, <2>2
      <3> HIDE DEF n
      <3> QED BY <1>3, <3>1
    <2> QED BY <2>1, <2>2
  <1>9. x \in Places /\ x[1] \in Lists(Uses[q])
    <2> HIDE DEF n, m
    <2> QED BY <1>1, <1>3, <1>4, <1>7
  <1>10. Append(q, x) = r
    <2>1. Append(q, x) \in Seq(Places) /\ Len(Append(q, x)) = n + 1 /\ Append(q, x)[n + 1] = x
          /\ \A i \in 1..n : Append(q, x)[i] = q[i]
      BY <1>1, <1>9, LongerIs
    <2> HIDE DEF r, n, x
    <2>2. \A i \in 1..(n + 1) : i = n + 1 \/ i \in 1..n
      BY <1>1
    <2>3. \A i \in 1..(n + 1) : Append(q, x)[i] = r[i]
      BY <1>2, <1>4, <1>6, <2>1, <2>2 DEF x
    <2> QED BY <1>6, <2>1, <2>3
  <1>11. IsPrefix(Append(q, x), p)
    <2> HIDE DEF x, n
    <2> QED BY <1>1, <1>9, UnderLonger DEF x, n
  <1> QED BY <1>8, <1>9, <1>10, <1>11

\* A path starts in a phase.
LEMMA PhaseOfPath ==
  ASSUME NEW p \in Paths
  PROVE  /\ p[1] \in Places /\ p[1][1] \in {"setup", "execution", "teardown"}
         /\ <<p[1]>> \in Paths /\ IsPrefix(<<p[1]>>, p)
  <1>1. p \in Seq(Places) /\ Len(p) \in Nat \ {0} /\ \A i \in 1..Len(p) : p[i] \in Places
    BY PathType
  <1>2. 1 \in 1..Len(p) /\ 1 <= Len(p) /\ p[1] \in Places
    BY <1>1
  <1>3. p[1][1] \in {"setup", "execution", "teardown"}
    BY PathsAssumption
  <1>4. SubSeq(p, 1, 1) = <<p[1]>>
    <2>1. SubSeq(p, 1, 1) \in Seq(Places) /\ Len(SubSeq(p, 1, 1)) = 1 /\ \A i \in 1..1 : SubSeq(p, 1, 1)[i] = p[i]
      BY <1>1, <1>2, HeadIs
    <2> DEFINE b == SubSeq(p, 1, 1)
    <2>2. b \in Seq(Places) /\ Len(b) = 1 /\ b[1] = p[1]
      BY <2>1
    <2> HIDE DEF b
    <2>3. b = <<p[1]>>
      BY <2>2
    <2> QED BY <2>3 DEF b
  <1>5. SubSeq(p, 1, 1) \in Paths
    <2>1. CASE Len(p) = 1
      <3>1. SubSeq(p, 1, 1) = p
        BY <1>1, <2>1, SubSeqFull
      <3> QED BY <3>1
    <2>2. CASE Len(p) # 1
      <3> DEFINE m == Len(p)
      <3>0. m \in Nat \ {0} /\ m # 1
        BY <1>1, <2>2
      <3>1. 1 \in 1..(m - 1)
        <4> HIDE DEF m
        <4> QED BY <3>0
      <3> QED BY <3>1, PathsAssumption
    <2> QED BY <2>1, <2>2
  <1>6. IsPrefix(<<p[1]>>, p)
    <2>1. <<p[1]>> \in Seq(Places) /\ Len(<<p[1]>>) = 1 /\ \A i \in 1..1 : <<p[1]>>[i] = p[i]
      BY <1>2
    <2> DEFINE b == <<p[1]>>
    <2> HIDE DEF b
    <2> QED BY <1>1, <1>2, <2>1, PrefixIs DEF b
  <1> QED BY <1>2, <1>3, <1>4, <1>5, <1>6

-----------------------------------------------------------------------------
\* What holds of the checkpoints at every moment.

Statuses == [Planned -> [state : States, attempts : Nat]]
Settled == {"cleared", "skipped"}
Looped(p) == \E q \in Paths : Uses[q] = "each" /\ IsStrictPrefix(q, p)
PlaceUnder(q, p) == p[Len(q) + 1]

\* What frame f says of its step, and of the status st of its checkpoint.
FrameFits(f) ==
    /\ f.stage = "opened" => f.laps = 0 /\ f.asked = "no" /\ f.answered = "no"
    /\ f.laps > 0 => f.branch \in Lists(Uses[f.path])
FrameCounts(f, st) ==
    f.path \in Planned => f.attempt = st[f.path].attempts + (IF f.asked = "yes" THEN 0 ELSE 1)

\* Of a flow step that did not fail so far, what it ran is settled, and what it does not
\* take is not superseded any more.
FrameTaken(f, st) ==
    f.laps > 0 /\ f.last = "PASSED" =>
        \A p \in Planned : ~Looped(p) /\ IsStrictPrefix(f.path, p) =>
            IF PlaceUnder(f.path, p)[1] = f.branch
            THEN PlaceUnder(f.path, p)[2] <= f.done => st[p].state \in Settled
            ELSE st[p].state \notin Superseded

\* Frame g is of a step that frame f runs, or is under it.
RunsUnder(f, g) ==
    IsStrictPrefix(f.path, g.path) /\ PlaceUnder(f.path, g.path) = <<f.branch, f.done + 1>>

StackShape ==
    /\ test # "running" => stack = <<>>
    /\ stack # <<>> => stack[1].path = NextStep
    /\ \A i \in 1..Len(stack) : FrameFits(stack[i]) /\ (stack[i].stage = "opened" => Len(stack) = 1)
    /\ \A i, j \in 1..Len(stack) :
        /\ i < j => RunsUnder(stack[i], stack[j]) /\ stack[i].last = "PASSED"
        /\ j = i + 1 => stack[j].path = Append(stack[i].path, <<stack[i].branch, stack[i].done + 1>>)

FramesAgree ==
    \A i \in 1..Len(stack) : FrameCounts(stack[i], status) /\ FrameTaken(stack[i], status)

Waits(p) == \E i \in 1..Len(stack) :
    stack[i].path = p /\ stack[i].asked = "yes" /\ stack[i].answered # "yes"
NowIsWaiting == \A p \in Planned : status[p].state = "now" <=> Waits(p)
AttemptsAreAsks == \A p \in Planned : status[p].attempts = puts[p]
NoneLeftOpen ==
    test = "over" \/ (test = "idle" /\ outcome # "none") => \A p \in Planned : status[p].state \notin Open
PassedIsSettled ==
    test \in {"idle", "over"} /\ outcome = "COMPLETED" =>
        \A p \in Planned : p[1][1] = "teardown" \/ Looped(p) \/ status[p].state \in Settled

\* What the phases did not come to yet is ahead, and what they passed is settled.
Started == IF stack # <<>> /\ stack[1].stage = "running" THEN 1 ELSE 0
AheadOfRun ==
    test = "running" =>
        \A p \in Planned, n \in 1..3 :
            /\ p[1][1] = Phases[n]
            /\ n > at.phase \/ (n = at.phase /\ p[1][2] > at.done + Started)
            => status[p].state = "ahead"
PhasesSettled ==
    test = "running" /\ at.failed = "no" =>
        \A p \in Planned, n \in 1..2 :
            /\ ~Looped(p) /\ p[1][1] = Phases[n]
            /\ n < at.phase \/ (n = at.phase /\ p[1][2] <= at.done)
            => status[p].state \in Settled

\* The strengthening of ShownAsItIs.
CheckpointsInv ==
    /\ TypeOK /\ StackShape /\ FramesAgree
    /\ NowIsWaiting /\ AttemptsAreAsks /\ NoneLeftOpen /\ PassedIsSettled
    /\ AheadOfRun /\ PhasesSettled

\* The invariant implies what the operator is shown.
LEMMA InvShows == CheckpointsInv => ShownAsItIs
  <1> SUFFICES ASSUME CheckpointsInv PROVE ShownAsItIs
    OBVIOUS
  <1> USE DEF CheckpointsInv
  <1>1. DOMAIN stack = 1..Len(stack)
    BY DEF TypeOK
  <1>2. ASSUME NEW p \in Planned PROVE status[p].state = "now" <=> Waits(p)
    BY DEF NowIsWaiting
  <1>3. ASSUME NEW p \in Planned
        PROVE  test \in {"idle", "over"} /\ outcome = "COMPLETED"
               => p[1][1] = "teardown" \/ Looped(p) \/ status[p].state \in {"cleared", "skipped"}
    BY DEF PassedIsSettled, Settled
  <1>4. ASSUME NEW p \in Planned
        PROVE  test = "over" \/ (test = "idle" /\ outcome # "none") => status[p].state \notin Open
    BY DEF NoneLeftOpen
  <1> QED BY <1>1, <1>2, <1>3, <1>4 DEF ShownAsItIs, AttemptsAreAsks, Waits, Looped

\* A run that was not started has no frames and no question.
LEMMA CheckpointsInit == Init => CheckpointsInv
  <1> SUFFICES ASSUME Init PROVE CheckpointsInv
    OBVIOUS
  <1> USE CheckpointsAssumption DEF Init
  <1>1. TypeOK
    <2>1. stack \in Seq(Frames) /\ Len(Phases) = 3
      BY DEF Phases
    <2> QED BY <2>1 DEF TypeOK, States
  <1>2. StackShape /\ FramesAgree
    BY DEF StackShape, FramesAgree
  <1>3. NowIsWaiting /\ AttemptsAreAsks /\ NoneLeftOpen /\ PassedIsSettled /\ AheadOfRun /\ PhasesSettled
    BY DEF NowIsWaiting, Waits, AttemptsAreAsks, NoneLeftOpen, PassedIsSettled, AheadOfRun, PhasesSettled
  <1> QED BY <1>1, <1>2, <1>3 DEF CheckpointsInv

-----------------------------------------------------------------------------
\* The ends of steps.

\* How a step that ended leaves its checkpoint and what it carries.
LEMMA EndedFacts ==
  ASSUME NEW st \in Statuses, NEW f \in Frames, NEW result
  PROVE  /\ Ended(st, f, result) \in Statuses
         /\ \A p \in Planned :
             LET e == Ended(st, f, result)[p]
             IN  /\ e.attempts = st[p].attempts
                 /\ e # st[p] => IsPrefix(f.path, p)
                 /\ p # f.path => e.state = st[p].state
                                  \/ (IsStrictPrefix(f.path, p) /\ st[p].state \in Open /\ e.state \notin Open)
                 /\ p = f.path => e.state \notin Open
                 /\ result \in {"PASSED", "SKIPPED"} /\ p = f.path => e.state \in Settled
                 /\ result \in {"PASSED", "SKIPPED"} /\ IsStrictPrefix(f.path, p) /\ st[p].state \in Open
                    => e.state \in Settled
  <1> DEFINE E == Ended(st, f, result)
  <1> USE CheckpointsAssumption
  <1>1. OwnStepEnded(f, result) \in States \ Open
        /\ (result \in {"PASSED", "SKIPPED"} => OwnStepEnded(f, result) \in Settled)
    BY DEF OwnStepEnded, States, Open, Settled
  <1>2. CarriedStepEnded(result) \in States \ Open
        /\ (result \in {"PASSED", "SKIPPED"} => CarriedStepEnded(result) \in Settled)
    BY DEF CarriedStepEnded, States, Open, Settled
  <1>3. f.path \in Paths /\ Planned \subseteq Paths
    BY DEF Frames
  <1>4. ASSUME NEW p \in Planned
        PROVE  /\ st[p] \in [state : States, attempts : Nat]
               /\ E[p] = IF p = f.path THEN [st[p] EXCEPT !.state = OwnStepEnded(f, result)]
                         ELSE IF p \in Under(f.path) /\ st[p].state \in Open
                         THEN [st[p] EXCEPT !.state = CarriedStepEnded(result)] ELSE st[p]
    BY DEF Ended, Statuses
  <1>5. \A p \in Planned : p \in Under(f.path) <=> IsPrefix(f.path, p)
    BY DEF Under
  <1>6. IsPrefix(f.path, f.path)
    BY <1>3, UnderItself
  <1>7. \A p \in Planned : p # f.path /\ IsPrefix(f.path, p) <=> IsStrictPrefix(f.path, p)
    BY DEF IsStrictPrefix
  <1>8. ASSUME NEW p \in Planned
        PROVE  LET v == IF p = f.path THEN OwnStepEnded(f, result)
                        ELSE IF IsStrictPrefix(f.path, p) /\ st[p].state \in Open
                        THEN CarriedStepEnded(result) ELSE st[p].state
               IN  /\ E[p] \in [state : States, attempts : Nat] /\ E[p].attempts = st[p].attempts
                   /\ E[p].state = v
                   /\ p # f.path /\ ~(IsStrictPrefix(f.path, p) /\ st[p].state \in Open) => E[p] = st[p]
    <2> HIDE DEF E
    <2>1. OwnStepEnded(f, result) \in States /\ CarriedStepEnded(result) \in States
      BY <1>1, <1>2
    <2> QED BY <1>4, <1>5, <1>7, <2>1
  <1>9. ASSUME NEW p \in Planned PROVE E[p] \in [state : States, attempts : Nat]
    BY <1>8
  <1>10. E \in Statuses
    BY <1>9 DEF Ended, Statuses
  <1>11. ASSUME NEW p \in Planned
         PROVE  /\ E[p].attempts = st[p].attempts
                /\ E[p] # st[p] => IsPrefix(f.path, p)
                /\ p # f.path => E[p].state = st[p].state
                                  \/ (IsStrictPrefix(f.path, p) /\ st[p].state \in Open /\ E[p].state \notin Open)
                /\ p = f.path => E[p].state \notin Open
                /\ result \in {"PASSED", "SKIPPED"} /\ p = f.path => E[p].state \in Settled
                /\ result \in {"PASSED", "SKIPPED"} /\ IsStrictPrefix(f.path, p) /\ st[p].state \in Open
                    => E[p].state \in Settled
    <2> HIDE DEF E
    <2>1. p = f.path => E[p].state = OwnStepEnded(f, result)
      BY <1>8
    <2>2. p # f.path /\ IsStrictPrefix(f.path, p) /\ st[p].state \in Open
          => E[p].state = CarriedStepEnded(result)
      BY <1>8
    <2>3. p # f.path /\ ~(IsStrictPrefix(f.path, p) /\ st[p].state \in Open) => E[p] = st[p]
      BY <1>8
    <2>4. E[p].attempts = st[p].attempts
      BY <1>8
    <2>5. IsStrictPrefix(f.path, p) => p # f.path /\ IsPrefix(f.path, p)
      BY DEF IsStrictPrefix
    <2> QED BY <1>1, <1>2, <1>6, <2>1, <2>2, <2>3, <2>4, <2>5
  <1> QED BY <1>10, <1>11

\* A frame agrees with the statuses still after they changed under a step it runs.
LEMMA BelowAgrees ==
  ASSUME NEW f \in Frames, NEW g \in Frames, RunsUnder(f, g), NEW st1 \in Statuses, NEW st2 \in Statuses,
         \A p \in Planned : st2[p] # st1[p] => IsPrefix(g.path, p),
         FrameCounts(f, st1), FrameTaken(f, st1)
  PROVE  FrameCounts(f, st2) /\ FrameTaken(f, st2)
  <1> USE CheckpointsAssumption
  <1>1. f.path \in Paths /\ g.path \in Paths /\ f.done \in Nat
    BY DEF Frames
  <1>2. f.path \in Seq(Places) /\ g.path \in Seq(Places) /\ \A p \in Planned : p \in Seq(Places)
    BY <1>1, PathType
  <1>3. ASSUME NEW p \in Planned, IsPrefix(g.path, p)
        PROVE  IsStrictPrefix(f.path, p) /\ PlaceUnder(f.path, p) = <<f.branch, f.done + 1>>
    BY <1>2, <1>3, UnderUnder DEF RunsUnder, PlaceUnder
  <1>4. ~IsStrictPrefix(f.path, f.path)
    BY DEF IsStrictPrefix
  <1>5. f.path \in Planned => st2[f.path] = st1[f.path]
    BY <1>3, <1>4
  <1>6. ASSUME NEW p \in Planned, PlaceUnder(f.path, p)[1] = f.branch, PlaceUnder(f.path, p)[2] <= f.done
        PROVE  st2[p] = st1[p]
    <2> SUFFICES ASSUME IsPrefix(g.path, p) PROVE FALSE
      OBVIOUS
    <2>1. PlaceUnder(f.path, p)[2] = f.done + 1
      BY <1>3
    <2> QED BY <1>1, <1>6, <2>1
  <1>7. ASSUME NEW p \in Planned, PlaceUnder(f.path, p)[1] # f.branch
        PROVE  st2[p] = st1[p]
    <2> SUFFICES ASSUME IsPrefix(g.path, p) PROVE FALSE
      OBVIOUS
    <2> QED BY <1>3, <1>7
  <1>8. FrameCounts(f, st2)
    BY <1>5 DEF FrameCounts
  <1>9. FrameTaken(f, st2)
    BY <1>6, <1>7 DEF FrameTaken
  <1> QED BY <1>8, <1>9

-----------------------------------------------------------------------------
\* The steps of a test.

LEMMA TypeFacts ==
  ASSUME CheckpointsInv
  PROVE  /\ status \in Statuses /\ stack \in Seq(Frames) /\ Len(stack) \in Nat /\ Len(Phases) = 3
         /\ at \in [phase : 1..3, done : Nat, failed : {"yes", "no"}]
         /\ at.phase \in 1..3 /\ at.done \in Nat /\ at.failed \in {"yes", "no"}
         /\ Phases[1] = "setup" /\ Phases[2] = "execution" /\ Phases[3] = "teardown"
         /\ stack # <<>> => /\ Len(stack) \in 1..Len(stack) /\ 1 \in 1..Len(stack) /\ Top \in Frames
                            /\ Top = stack[Len(stack)] /\ test = "running"
  <1>1. status \in Statuses /\ stack \in Seq(Frames) /\ at \in [phase : 1..Len(Phases), done : Nat, failed : {"yes", "no"}]
    BY DEF CheckpointsInv, TypeOK, Statuses
  <1>2. Len(Phases) = 3 /\ Phases[1] = "setup" /\ Phases[2] = "execution" /\ Phases[3] = "teardown"
    BY DEF Phases
  <1>3. at \in [phase : 1..3, done : Nat, failed : {"yes", "no"}]
    BY <1>1, <1>2
  <1>4. stack # <<>> => Len(stack) \in 1..Len(stack) /\ 1 \in 1..Len(stack)
    BY <1>1
  <1>5. stack # <<>> => test = "running"
    BY DEF CheckpointsInv, StackShape
  <1> QED BY <1>1, <1>2, <1>3, <1>4, <1>5 DEF Top

\* Every frame is of a step at or under the step the phase is at.
LEMMA RootIs ==
  ASSUME CheckpointsInv, NEW i \in 1..Len(stack)
  PROVE  stack[i].path[1] = <<Phases[at.phase], at.done + 1>>
  <1>1. stack \in Seq(Frames) /\ stack[1].path = NextStep
    BY TypeFacts DEF CheckpointsInv, StackShape
  <1>2. NextStep = << <<Phases[at.phase], at.done + 1>> >>
    BY DEF NextStep
  <1>3. CASE i = 1
    BY <1>1, <1>2, <1>3
  <1>4. CASE i # 1
    <2>1. 1 \in 1..Len(stack) /\ 1 < i
      BY <1>1, <1>4
    <2>2. RunsUnder(stack[1], stack[i])
      BY <2>1 DEF CheckpointsInv, StackShape
    <2>0. stack[1] \in Frames /\ stack[i] \in Frames
      BY <1>1, <2>1
    <2>5. stack[1].path \in Paths /\ stack[i].path \in Paths
      BY <2>0 DEF Frames
    <2>3. stack[1].path \in Seq(Places) /\ stack[i].path \in Seq(Places) /\ Len(stack[1].path) = 1
      <3>1. Len(stack[1].path) = 1
        BY <1>1, <1>2
      <3> QED BY <2>5, <3>1, PathType
    <2>4. \A k \in 1..1 : stack[1].path[k] = stack[i].path[k]
      BY <2>2, <2>3, StrictIs DEF RunsUnder
    <2> QED BY <1>1, <1>2, <2>4
  <1> QED BY <1>3, <1>4

\* What changes only under the step that runs changes nothing the phases say.
LEMMA PhasesAgree ==
  ASSUME CheckpointsInv, stack # <<>>, UNCHANGED <<test, at, outcome>>, stack' # <<>>, stack'[1].stage = "running",
         \A p \in Planned : status'[p] # status[p] => IsPrefix(Top.path, p)
  PROVE  NoneLeftOpen' /\ PassedIsSettled' /\ AheadOfRun' /\ PhasesSettled'
  <1>1. test = "running" /\ Len(stack) \in 1..Len(stack) /\ Top = stack[Len(stack)] /\ Top \in Frames
    BY TypeFacts
  <1>2. NoneLeftOpen' /\ PassedIsSettled'
    BY <1>1 DEF NoneLeftOpen, PassedIsSettled
  <1>3. Top.path[1] = <<Phases[at.phase], at.done + 1>> /\ Top.path \in Paths
    BY <1>1, RootIs DEF Frames
  <1>4. ASSUME NEW p \in Planned, status'[p] # status[p] PROVE p[1] = <<Phases[at.phase], at.done + 1>>
    <2>1. p \in Paths /\ IsPrefix(Top.path, p)
      BY <1>4, CheckpointsAssumption
    <2>2. p \in Seq(Places) /\ Top.path \in Seq(Places) /\ 1 \in 1..Len(Top.path)
      BY <1>3, <2>1, PathType
    <2>3. p[1] = Top.path[1]
      BY <2>1, <2>2, PrefixIs
    <2> QED BY <1>3, <2>3
  <1>5. at.phase \in 1..3 /\ at.done \in Nat /\ Phases[1] = "setup" /\ Phases[2] = "execution" /\ Phases[3] = "teardown"
    BY TypeFacts
  <1>6. ASSUME NEW p \in Planned, NEW n \in 1..3, status'[p] # status[p], p[1][1] = Phases[n]
        PROVE  n = at.phase /\ p[1][2] = at.done + 1
    BY <1>4, <1>5, <1>6
  <1>7. AheadOfRun'
    <2> SUFFICES ASSUME NEW p \in Planned, NEW n \in 1..3, p[1][1] = Phases[n],
                        n > at.phase \/ (n = at.phase /\ p[1][2] > at.done + 1)
                 PROVE  status'[p].state = "ahead"
      BY DEF AheadOfRun, Started
    <2>1. status'[p] = status[p]
      BY <1>5, <1>6
    <2>2. p[1][2] \in Nat
      <3>1. p[1] \in Places
        BY CheckpointsAssumption, PhaseOfPath
      <3> QED BY <3>1, PlaceType
    <2>3. n > at.phase \/ (n = at.phase /\ p[1][2] > at.done + Started)
      BY <1>5, <2>2 DEF Started
    <2> QED BY <1>1, <2>1, <2>3 DEF CheckpointsInv, AheadOfRun
  <1>8. PhasesSettled'
    <2> SUFFICES ASSUME at.failed = "no", NEW p \in Planned, NEW n \in 1..2, ~Looped(p), p[1][1] = Phases[n],
                        n < at.phase \/ (n = at.phase /\ p[1][2] <= at.done)
                 PROVE  status'[p].state \in Settled
      BY DEF PhasesSettled, Looped
    <2>1. status'[p] = status[p]
      BY <1>5, <1>6
    <2> QED BY <1>1, <2>1 DEF CheckpointsInv, PhasesSettled
  <1> QED BY <1>2, <1>7, <1>8

\* Frame f takes the place of the one on top.
OnTop(f) ==
    /\ stack' \in Seq(Frames) /\ Len(stack') = Len(stack) /\ stack'[Len(stack)] = f
    /\ \A i \in 1..(Len(stack) - 1) : stack'[i] = stack[i]

\* Two ways to write the change of the frame on top.
LEMMA OnTopSet ==
  ASSUME stack \in Seq(Frames), stack # <<>>, NEW f \in Frames,
         stack' = [stack EXCEPT ![Len(stack)] = f] \/ stack' = Append(Front(stack), f)
  PROVE  OnTop(f)
  <1> DEFINE n == Len(stack)
             b == SubSeq(stack, 1, n - 1)
  <1>1. n \in Nat /\ n \in 1..n /\ n - 1 \in Nat /\ n - 1 <= n /\ (n - 1) + 1 = n
    OBVIOUS
  <1>2. CASE stack' = [stack EXCEPT ![n] = f]
    <2> DEFINE r == [stack EXCEPT ![n] = f]
    <2>1. r \in Seq(Frames) /\ Len(r) = n /\ r[n] = f /\ \A i \in 1..n : i # n => r[i] = stack[i]
      <3> HIDE DEF n
      <3>1. stack \in Seq(Frames) /\ n = Len(stack)
        BY DEF n
      <3>2. n \in 1..Len(stack)
        BY <1>1, <3>1
      <3>3. /\ r \in Seq(Frames) /\ Len(r) = Len(stack)
            /\ \A j \in 1..Len(stack) : r[j] = IF j = n THEN f ELSE stack[j]
        BY <3>1, <3>2, ExceptSeq
      <3> HIDE DEF r
      <3> QED BY <1>1, <3>1, <3>2, <3>3
    <2> HIDE DEF r
    <2>2. stack' = r
      BY <1>2 DEF r
    <2>3. \A i \in 1..(n - 1) : i \in 1..n /\ i # n
      <3> HIDE DEF n
      <3> QED BY <1>1
    <2> QED BY <2>1, <2>2, <2>3 DEF OnTop
  <1>3. CASE stack' = Append(Front(stack), f)
    <2>1. b \in Seq(Frames) /\ Len(b) = n - 1 /\ \A i \in 1..(n - 1) : b[i] = stack[i]
      <3> DEFINE m == n - 1
      <3>1. m \in Nat /\ m <= Len(stack)
        BY <1>1
      <3> HIDE DEF m
      <3>2. SubSeq(stack, 1, m) \in Seq(Frames) /\ Len(SubSeq(stack, 1, m)) = m
            /\ \A i \in 1..m : SubSeq(stack, 1, m)[i] = stack[i]
        BY <3>1, HeadIs
      <3> QED BY <3>2 DEF m
    <2>2. stack' = Append(b, f)
      BY <1>3 DEF Front
    <2> DEFINE r == Append(b, f)
    <2>3. r \in Seq(Frames) /\ Len(r) = n /\ r[n] = f /\ \A i \in 1..(n - 1) : r[i] = stack[i]
      <3> HIDE DEF b, n
      <3>1. Len(r) = (n - 1) + 1 /\ r[(n - 1) + 1] = f /\ (\A i \in 1..(n - 1) : r[i] = b[i]) /\ r \in Seq(Frames)
        BY <1>1, <2>1
      <3> QED BY <1>1, <2>1, <3>1
    <2> HIDE DEF r
    <2> QED BY <2>2, <2>3 DEF OnTop, r
  <1> QED BY <1>2, <1>3

\* A change of the frame on top, and of statuses under its path only, keeps the invariant.
LEMMA OnTopKeeps ==
  ASSUME CheckpointsInv, stack # <<>>, NEW f \in Frames, OnTop(f), f.path = Top.path,
         f.stage = "running", FrameFits(f), UNCHANGED <<missing, test, at, outcome, runs, cancelled>>,
         status' \in Statuses, puts' \in [Planned -> Nat],
         \A p \in Planned : status'[p] # status[p] => IsPrefix(Top.path, p),
         FrameCounts(f, status'), FrameTaken(f, status'),
         \A p \in Planned : status'[p].attempts = puts'[p],
         \A p \in Planned : p # Top.path => (status'[p].state = "now" <=> status[p].state = "now"),
         Top.path \in Planned => (status'[Top.path].state = "now" <=> f.asked = "yes" /\ f.answered # "yes")
  PROVE  CheckpointsInv'
  <1> DEFINE n == Len(stack)
  <1>1. /\ stack \in Seq(Frames) /\ n \in Nat /\ n \in 1..n /\ 1 \in 1..n /\ Top \in Frames /\ Top = stack[n]
        /\ test = "running" /\ status \in Statuses
    BY TypeFacts
  <1>2. /\ Len(stack') = n /\ stack'[n] = f /\ stack' \in Seq(Frames) /\ stack' # <<>>
        /\ \A i \in 1..n : i # n => stack'[i] = stack[i]
    BY <1>1 DEF OnTop
  <1> HIDE DEF n
  <1>3. \A i \in 1..n : stack'[i].path = stack[i].path /\ stack[i] \in Frames
    BY <1>1, <1>2
  <1>4. TypeOK'
    BY <1>2 DEF CheckpointsInv, TypeOK, Statuses
  <1>5. /\ stack[1].path = NextStep
        /\ \A i \in 1..n : FrameFits(stack[i]) /\ (stack[i].stage = "opened" => n = 1)
        /\ \A i, j \in 1..n :
            /\ i < j => RunsUnder(stack[i], stack[j]) /\ stack[i].last = "PASSED"
            /\ j = i + 1 => stack[j].path = Append(stack[i].path, <<stack[i].branch, stack[i].done + 1>>)
    BY DEF CheckpointsInv, StackShape, n
  <1>6. StackShape'
    <2>1. NextStep' = NextStep
      BY DEF NextStep
    <2>2. stack'[1].path = NextStep'
      BY <1>1, <1>3, <1>5, <2>1
    <2>3. ASSUME NEW i \in 1..n PROVE FrameFits(stack'[i]) /\ (stack'[i].stage = "opened" => n = 1)
      BY <1>2, <1>5
    <2>4. ASSUME NEW i \in 1..n, NEW j \in 1..n
          PROVE  /\ i < j => RunsUnder(stack'[i], stack'[j]) /\ stack'[i].last = "PASSED"
                 /\ j = i + 1 => stack'[j].path = Append(stack'[i].path, <<stack'[i].branch, stack'[i].done + 1>>)
      <3>1. i < j \/ j = i + 1 => i # n
        BY <1>1
      <3> QED BY <1>2, <1>3, <1>5, <3>1 DEF RunsUnder
    <2> QED BY <1>1, <1>2, <2>2, <2>3, <2>4 DEF StackShape, FrameFits, RunsUnder, PlaceUnder
  <1>7. FramesAgree'
    <2>1. ASSUME NEW i \in 1..n PROVE FrameCounts(stack'[i], status') /\ FrameTaken(stack'[i], status')
      <3>1. CASE i = n
        BY <1>2, <3>1
      <3>2. CASE i # n
        <4>1. RunsUnder(stack[i], Top)
          BY <1>1, <1>5, <3>2
        <4>2. FrameCounts(stack[i], status) /\ FrameTaken(stack[i], status)
          BY DEF CheckpointsInv, FramesAgree, n
        <4> QED BY <1>1, <1>2, <1>3, <3>2, <4>1, <4>2, BelowAgrees
      <3> QED BY <3>1, <3>2
    <2> QED BY <1>2, <2>1 DEF FramesAgree, FrameCounts, FrameTaken, Looped, PlaceUnder
  <1>8. NowIsWaiting'
    <2> SUFFICES ASSUME NEW p \in Planned PROVE status'[p].state = "now" <=> Waits(p)'
      BY DEF NowIsWaiting
    <2>1. status[p].state = "now" <=> Waits(p)
      BY DEF CheckpointsInv, NowIsWaiting
    <2>2. CASE p = Top.path
      <3>1. \A i \in 1..n : stack'[i].path = p => i = n
        <4> SUFFICES ASSUME NEW i \in 1..n, stack'[i].path = p, i # n PROVE FALSE
          OBVIOUS
        <4>1. i < n
          BY <1>1
        <4>2. IsStrictPrefix(stack[i].path, stack[n].path)
          BY <1>1, <1>5, <4>1 DEF RunsUnder
        <4> QED BY <1>1, <1>3, <2>2, <4>2 DEF IsStrictPrefix
      <3> QED BY <1>1, <1>2, <2>2, <3>1 DEF Waits
    <2>3. CASE p # Top.path
      BY <1>1, <1>2, <1>3, <2>1, <2>3 DEF Waits, n
    <2> QED BY <2>2, <2>3
  <1>9. AttemptsAreAsks'
    BY DEF AttemptsAreAsks
  <1>10. stack'[1].stage = "running"
    <2>1. CASE n = 1
      BY <1>2, <2>1
    <2>2. CASE n # 1
      <3>1. stack[1].stage # "opened" /\ stack[1] \in Frames /\ stack'[1] = stack[1]
        BY <1>1, <1>2, <1>3, <1>5, <2>2
      <3> QED BY <3>1 DEF Frames
    <2> QED BY <2>1, <2>2
  <1>11. NoneLeftOpen' /\ PassedIsSettled' /\ AheadOfRun' /\ PhasesSettled'
    BY <1>2, <1>10, PhasesAgree
  <1> QED BY <1>4, <1>6, <1>7, <1>8, <1>9, <1>11 DEF CheckpointsInv

\* No two frames are of the same step, and none is under the step on top.
LEMMA FramesApart ==
  ASSUME CheckpointsInv, stack # <<>>, NEW i \in 1..Len(stack)
  PROVE  /\ stack[i] \in Frames
         /\ i # Len(stack) => RunsUnder(stack[i], Top) /\ stack[i].path # Top.path
         /\ ~IsStrictPrefix(Top.path, stack[i].path)
  <1>1. stack \in Seq(Frames) /\ Len(stack) \in 1..Len(stack) /\ Top = stack[Len(stack)] /\ Top \in Frames
    BY TypeFacts
  <1>2. i # Len(stack) => i < Len(stack)
    BY <1>1
  <1>3. i # Len(stack) => RunsUnder(stack[i], Top)
    BY <1>1, <1>2 DEF CheckpointsInv, StackShape
  <1>4. stack[i] \in Frames
    BY <1>1
  <1>5. stack[i].path \in Seq(Places) /\ Top.path \in Seq(Places)
    <2>1. stack[i].path \in Paths /\ Top.path \in Paths
      BY <1>1, <1>4 DEF Frames
    <2> QED BY <2>1, PathType
  <1>6. ~(IsStrictPrefix(stack[i].path, Top.path) /\ IsStrictPrefix(Top.path, stack[i].path))
    <2> DEFINE a == Len(stack[i].path)
               b == Len(Top.path)
    <2>1. a \in Nat /\ b \in Nat
      BY <1>5
    <2>2. ~(a < b /\ b < a)
      <3> HIDE DEF a, b
      <3> QED BY <2>1
    <2> QED BY <1>5, <2>2, StrictIs
  <1>7. ~IsStrictPrefix(Top.path, Top.path)
    BY DEF IsStrictPrefix
  <1> QED BY <1>1, <1>3, <1>4, <1>6, <1>7 DEF RunsUnder, IsStrictPrefix

\* A frame opens for a nested step.
LEMMA PushKeeps ==
  ASSUME CheckpointsInv, stack # <<>>, Top.stage = "running", Top.laps > 0, Top.last = "PASSED",
         Child \in Paths, NEW f \in Frames, f.path = Child, f.stage = "running", f.laps = 0,
         stack' = Append(stack, f), UNCHANGED <<missing, test, at, outcome, runs, cancelled>>,
         status' \in Statuses, puts' \in [Planned -> Nat],
         \A p \in Planned : status'[p] # status[p] => p = Child,
         FrameCounts(f, status'),
         \A p \in Planned : status'[p].attempts = puts'[p],
         Child \in Planned => (status'[Child].state = "now" <=> f.asked = "yes" /\ f.answered # "yes")
  PROVE  CheckpointsInv'
  <1> DEFINE n == Len(stack)
             x == <<Top.branch, Top.done + 1>>
  <1>1. /\ stack \in Seq(Frames) /\ n \in Nat /\ n \in 1..n /\ 1 \in 1..n /\ Top \in Frames /\ Top = stack[n]
        /\ test = "running" /\ status \in Statuses
    BY TypeFacts
  <1>2. /\ Len(stack') = n + 1 /\ stack'[n + 1] = f /\ stack' \in Seq(Frames) /\ stack' # <<>>
        /\ \A i \in 1..n : stack'[i] = stack[i]
    BY <1>1
  <1>3. Child = Append(Top.path, x)
    BY DEF Child
  <1>4. x \in Places
    <2>1. Top.branch \in Lists(Uses[Top.path])
      BY <1>1 DEF CheckpointsInv, StackShape, FrameFits
    <2>2. Top.branch \in {"then", "else", "steps"}
      BY <2>1 DEF Lists
    <2>3. Top.done \in Nat
      BY <1>1 DEF Frames
    <2>4. Top.done + 1 \in Nat \ {0}
      BY <2>3
    <2> QED BY <2>2, <2>4 DEF Places
  <1> HIDE DEF n, x
  <1>5. Top.path \in Seq(Places) /\ Child \in Seq(Places)
    <2>1. Top.path \in Paths
      BY <1>1 DEF Frames
    <2> QED BY <2>1, PathType
  <1>6. IsStrictPrefix(Top.path, Child) /\ PlaceUnder(Top.path, Child) = x
    BY <1>3, <1>4, <1>5, LongerIs DEF PlaceUnder
  <1>7. ASSUME NEW i \in 1..n PROVE RunsUnder(stack[i], f) /\ stack[i].path # Child
    <2>1. CASE i = n
      BY <1>1, <1>6, <2>1 DEF RunsUnder, IsStrictPrefix, x
    <2>2. CASE i # n
      <3>1. RunsUnder(stack[i], Top) /\ stack[i] \in Frames
        BY <2>2, FramesApart DEF n
      <3>2. stack[i].path \in Seq(Places)
        BY <3>1, PathType DEF Frames
      <3>3. IsPrefix(Top.path, Child)
        BY <1>6 DEF IsStrictPrefix
      <3>4. IsStrictPrefix(stack[i].path, Child)
            /\ PlaceUnder(stack[i].path, Child) = PlaceUnder(stack[i].path, Top.path)
        <4> DEFINE q == stack[i].path
                   t == Top.path
        <4>1. IsStrictPrefix(q, t) /\ IsPrefix(t, Child) /\ q \in Seq(Places) /\ t \in Seq(Places)
          BY <1>5, <3>1, <3>2, <3>3 DEF RunsUnder
        <4> HIDE DEF q, t
        <4>2. IsStrictPrefix(q, Child) /\ Child[Len(q) + 1] = t[Len(q) + 1]
          BY <1>5, <4>1, UnderUnder
        <4> QED BY <4>2 DEF PlaceUnder, q, t
      <3> QED BY <3>1, <3>4 DEF RunsUnder, IsStrictPrefix
    <2> QED BY <2>1, <2>2
  <1>8. /\ stack[1].path = NextStep
        /\ \A i \in 1..n : FrameFits(stack[i]) /\ (stack[i].stage = "opened" => n = 1)
        /\ \A i, j \in 1..n :
            /\ i < j => RunsUnder(stack[i], stack[j]) /\ stack[i].last = "PASSED"
            /\ j = i + 1 => stack[j].path = Append(stack[i].path, <<stack[i].branch, stack[i].done + 1>>)
    BY DEF CheckpointsInv, StackShape, n
  <1>9. \A i \in 1..n : stack[i].stage = "running"
    <2> SUFFICES ASSUME NEW i \in 1..n, stack[i].stage = "opened" PROVE FALSE
      <3>1. \A i \in 1..n : stack[i] \in Frames
        BY <1>1 DEF n
      <3> QED BY <3>1 DEF Frames
    <2>1. n = 1 /\ i = 1
      BY <1>8
    <2> QED BY <1>1, <2>1
  <1>10. TypeOK'
    BY <1>2 DEF CheckpointsInv, TypeOK, Statuses
  <1>11. \A i \in 1..(n + 1) : i = n + 1 \/ i \in 1..n
    BY <1>1
  <1>12. StackShape'
    <2>1. NextStep' = NextStep
      BY DEF NextStep
    <2>2. stack'[1].path = NextStep'
      BY <1>1, <1>2, <1>8, <2>1
    <2>3. ASSUME NEW i \in 1..(n + 1) PROVE FrameFits(stack'[i]) /\ stack'[i].stage # "opened"
      <3>1. FrameFits(f)
        BY DEF FrameFits
      <3> QED BY <1>2, <1>8, <1>9, <1>11, <3>1
    <2>4. ASSUME NEW i \in 1..(n + 1), NEW j \in 1..(n + 1)
          PROVE  /\ i < j => RunsUnder(stack'[i], stack'[j]) /\ stack'[i].last = "PASSED"
                 /\ j = i + 1 => stack'[j].path = Append(stack'[i].path, <<stack'[i].branch, stack'[i].done + 1>>)
      <3>1. CASE j = n + 1
        <4>1. i < j \/ j = i + 1 => i \in 1..n
          BY <1>1, <3>1
        <4>2. j = i + 1 => i = n
          BY <1>1, <3>1
        <4>3. i \in 1..n => stack[i].last = "PASSED"
          <5>1. i \in 1..n /\ i # n => i < n
            BY <1>1
          <5> QED BY <1>1, <1>8, <5>1
        <4> QED BY <1>1, <1>2, <1>3, <1>7, <3>1, <4>1, <4>2, <4>3 DEF x
      <3>2. CASE j # n + 1
        <4>1. j \in 1..n /\ (i < j \/ j = i + 1 => i \in 1..n)
          BY <1>1, <3>2
        <4> QED BY <1>2, <1>8, <4>1
      <3> QED BY <3>1, <3>2
    <2>5. /\ stack' # <<>> => stack'[1].path = NextStep'
          /\ \A i \in 1..Len(stack') : FrameFits(stack'[i]) /\ (stack'[i].stage = "opened" => Len(stack') = 1)
          /\ \A i, j \in 1..Len(stack') :
              /\ i < j => RunsUnder(stack'[i], stack'[j]) /\ stack'[i].last = "PASSED"
              /\ j = i + 1 => stack'[j].path = Append(stack'[i].path, <<stack'[i].branch, stack'[i].done + 1>>)
      <3>1. Len(stack') = n + 1
        BY <1>2
      <3>2. \A i \in 1..(n + 1) : FrameFits(stack'[i]) /\ stack'[i].stage # "opened"
        BY <2>3
      <3>3. \A i, j \in 1..(n + 1) :
              /\ i < j => RunsUnder(stack'[i], stack'[j]) /\ stack'[i].last = "PASSED"
              /\ j = i + 1 => stack'[j].path = Append(stack'[i].path, <<stack'[i].branch, stack'[i].done + 1>>)
        BY <2>4
      <3> QED BY ZenonT(60), <2>2, <3>1, <3>2, <3>3
    <2> QED BY <1>1, <2>5 DEF StackShape, FrameFits, RunsUnder, PlaceUnder
  <1>13. FramesAgree'
    <2>1. ASSUME NEW i \in 1..n PROVE FrameCounts(stack'[i], status') /\ FrameTaken(stack'[i], status')
      <3>1. FrameCounts(stack[i], status) /\ FrameTaken(stack[i], status) /\ stack[i] \in Frames
        BY <1>1 DEF CheckpointsInv, FramesAgree, n
      <3>2. \A p \in Planned : status'[p] # status[p] => IsPrefix(f.path, p)
        BY UnderItself
      <3> QED BY <1>1, <1>2, <1>7, <3>1, <3>2, BelowAgrees
    <2>2. FrameTaken(f, status')
      BY DEF FrameTaken
    <2> QED BY <1>2, <1>11, <2>1, <2>2 DEF FramesAgree, FrameCounts, FrameTaken, Looped, PlaceUnder
  <1>14. NowIsWaiting'
    <2> SUFFICES ASSUME NEW p \in Planned PROVE status'[p].state = "now" <=> Waits(p)'
      BY DEF NowIsWaiting
    <2>1. status[p].state = "now" <=> \E i \in 1..n : stack[i].path = p /\ stack[i].asked = "yes" /\ stack[i].answered # "yes"
      BY DEF CheckpointsInv, NowIsWaiting, Waits, n
    <2>2. Waits(p)' <=> \E i \in 1..(n + 1) : stack'[i].path = p /\ stack'[i].asked = "yes" /\ stack'[i].answered # "yes"
      BY <1>2 DEF Waits
    <2>3. \A i \in 1..n : i \in 1..(n + 1)
      BY <1>1
    <2>4. n + 1 \in 1..(n + 1)
      BY <1>1
    <2>5. CASE p = Child
      BY <1>2, <1>7, <1>11, <2>2, <2>4, <2>5
    <2>6. CASE p # Child
      BY <1>2, <1>11, <2>1, <2>2, <2>3, <2>6
    <2> QED BY <2>5, <2>6
  <1>15. AttemptsAreAsks'
    BY DEF AttemptsAreAsks
  <1>16. NoneLeftOpen' /\ PassedIsSettled' /\ AheadOfRun' /\ PhasesSettled'
    <2>1. stack'[1].stage = "running"
      BY <1>1, <1>2, <1>9
    <2>2. \A p \in Planned : status'[p] # status[p] => IsPrefix(Top.path, p)
      BY <1>6 DEF IsStrictPrefix
    <2> QED BY <1>2, <2>1, <2>2, PhasesAgree
  <1> QED BY <1>10, <1>12, <1>13, <1>14, <1>15, <1>16 DEF CheckpointsInv

\* What a step that passes or is skipped carries is settled, or open and settled by its end.
EndsSettled(result) ==
    result \in {"PASSED", "SKIPPED"} =>
        \A p \in Planned : ~Looped(p) /\ IsStrictPrefix(Top.path, p) => status[p].state \in Settled \cup Open

\* The statuses at the end of the step on top.
LEMMA EndFacts ==
  ASSUME CheckpointsInv, stack # <<>>, NEW result, EndsSettled(result), status' = Ended(status, Top, result)
  PROVE  /\ status' \in Statuses
         /\ \A p \in Planned : status'[p].attempts = status[p].attempts
         /\ \A p \in Planned : status'[p] # status[p] => IsPrefix(Top.path, p)
         /\ \A p \in Planned : status'[p].state = "now" <=> status[p].state = "now" /\ p # Top.path
         /\ result \in {"PASSED", "SKIPPED"} =>
             \A p \in Planned : ~Looped(p) /\ IsPrefix(Top.path, p) => status'[p].state \in Settled
  <1>1. status \in Statuses /\ Top \in Frames
    BY TypeFacts
  <1>2. status' \in Statuses
    BY <1>1, EndedFacts
  <1>3. ASSUME NEW p \in Planned
        PROVE  /\ status'[p].attempts = status[p].attempts
               /\ status'[p] # status[p] => IsPrefix(Top.path, p)
               /\ p # Top.path => status'[p].state = status[p].state
                                  \/ (IsStrictPrefix(Top.path, p) /\ status[p].state \in Open /\ status'[p].state \notin Open)
               /\ p = Top.path => status'[p].state \notin Open
               /\ result \in {"PASSED", "SKIPPED"} /\ p = Top.path => status'[p].state \in Settled
               /\ result \in {"PASSED", "SKIPPED"} /\ IsStrictPrefix(Top.path, p) /\ status[p].state \in Open
                    => status'[p].state \in Settled
    BY <1>1, EndedFacts
  <1>4. ASSUME NEW p \in Planned, status[p].state = "now" PROVE ~IsStrictPrefix(Top.path, p)
    <2>1. PICK i \in 1..Len(stack) : stack[i].path = p
      BY <1>4 DEF CheckpointsInv, NowIsWaiting, Waits
    <2> QED BY <2>1, FramesApart
  <1>5. ASSUME NEW p \in Planned PROVE status'[p].state = "now" <=> status[p].state = "now" /\ p # Top.path
    BY <1>3, <1>4 DEF Open
  <1>6. ASSUME NEW p \in Planned, result \in {"PASSED", "SKIPPED"}, ~Looped(p), IsPrefix(Top.path, p)
        PROVE  status'[p].state \in Settled
    <2>1. CASE p = Top.path
      BY <1>3, <1>6, <2>1
    <2>2. CASE p # Top.path
      <3>1. IsStrictPrefix(Top.path, p)
        BY <1>6, <2>2 DEF IsStrictPrefix
      <3>2. status[p].state \in Settled \cup Open
        BY <1>6, <3>1 DEF EndsSettled
      <3> QED BY <1>3, <1>6, <2>2, <3>1, <3>2
    <2> QED BY <2>1, <2>2
  <1> QED BY <1>2, <1>3, <1>5, <1>6

\* A nested step ends, and the flow step that ran it learns how.
LEMMA NestedEndKeeps ==
  ASSUME CheckpointsInv, stack # <<>>, Len(stack) # 1, NEW result \in {"PASSED", "FAILED", "SKIPPED"},
         EndsSettled(result), EndStep(result)
  PROVE  CheckpointsInv'
  <1> DEFINE n == Len(stack)
             m == n - 1
             told == IF result = "FAILED" THEN "FAILED" ELSE "PASSED"
             b == SubSeq(stack, 1, m)
             g == [stack[m] EXCEPT !.done = @ + 1, !.last = told]
  <1>1. /\ stack \in Seq(Frames) /\ n \in Nat /\ n \in 1..n /\ 1 \in 1..n /\ Top \in Frames /\ Top = stack[n]
        /\ test = "running" /\ status \in Statuses
    BY TypeFacts
  <1>2. m \in Nat /\ m \in 1..n /\ m # n /\ m \in 1..m /\ 1 \in 1..m /\ n = m + 1 /\ m <= n /\ n > 1
    <2>1. n # 1
      OBVIOUS
    <2> HIDE DEF n
    <2> QED BY <1>1, <2>1
  <1>3. /\ status' = Ended(status, Top, result) /\ UNCHANGED <<missing, test, at, outcome, runs, cancelled, puts>>
        /\ stack' = [b EXCEPT ![m].done = @ + 1, ![m].last = told]
    BY <1>2 DEF EndStep
  <1>4. /\ status' \in Statuses
        /\ \A p \in Planned : status'[p].attempts = status[p].attempts
        /\ \A p \in Planned : status'[p] # status[p] => IsPrefix(Top.path, p)
        /\ \A p \in Planned : status'[p].state = "now" <=> status[p].state = "now" /\ p # Top.path
        /\ result \in {"PASSED", "SKIPPED"} =>
             \A p \in Planned : ~Looped(p) /\ IsPrefix(Top.path, p) => status'[p].state \in Settled
    BY <1>3, EndFacts
  <1>5. b \in Seq(Frames) /\ Len(b) = m /\ \A i \in 1..m : b[i] = stack[i]
    <2> HIDE DEF m
    <2> QED BY <1>1, <1>2, HeadIs
  <1>6. /\ g \in Frames /\ g.done = stack[m].done + 1 /\ g.last = told /\ g.path = stack[m].path
        /\ g.stage = stack[m].stage /\ g.laps = stack[m].laps /\ g.branch = stack[m].branch
        /\ g.asked = stack[m].asked /\ g.answered = stack[m].answered /\ g.attempt = stack[m].attempt
    <2> DEFINE v == stack[m]
    <2>1. v \in Frames /\ told \in {"PASSED", "FAILED"}
      <3> HIDE DEF m
      <3> QED BY <1>1, <1>2 DEF n
    <2>2. g = [v EXCEPT !.done = @ + 1, !.last = told]
      OBVIOUS
    <2> HIDE DEF v, told, g
    <2>3. v.done \in Nat
      BY <2>1 DEF Frames
    <2>4. /\ g \in Frames /\ g.done = v.done + 1 /\ g.last = told /\ g.path = v.path
          /\ g.stage = v.stage /\ g.laps = v.laps /\ g.branch = v.branch
          /\ g.asked = v.asked /\ g.answered = v.answered /\ g.attempt = v.attempt
      <3> DEFINE d == v.done + 1
      <3>1. d \in Nat
        BY <2>3
      <3>2. g = [v EXCEPT !.done = d, !.last = told]
        BY <2>2
      <3> HIDE DEF d
      <3>3. g \in Frames
        BY <2>1, <3>1, <3>2 DEF Frames
      <3>4. /\ g.done = d /\ g.last = told /\ g.path = v.path
            /\ g.stage = v.stage /\ g.laps = v.laps /\ g.branch = v.branch
            /\ g.asked = v.asked /\ g.answered = v.answered /\ g.attempt = v.attempt
        BY <2>1, <3>2 DEF Frames
      <3> QED BY <3>3, <3>4 DEF d
    <2> QED BY <2>4 DEF v
  <1>7. stack' \in Seq(Frames) /\ Len(stack') = m /\ stack'[m] = g /\ \A i \in 1..m : i # m => stack'[i] = stack[i]
    <2> HIDE DEF m, b
    <2>1. stack' = [b EXCEPT ![m] = [b[m] EXCEPT !.done = @ + 1, !.last = told]]
      BY <1>3
    <2>2. b[m] = stack[m]
      BY <1>2, <1>5
    <2>3. stack' = [b EXCEPT ![m] = g]
      BY <2>1, <2>2
    <2> HIDE DEF g
    <2>4. m \in 1..Len(b)
      BY <1>2, <1>5
    <2>5. /\ stack' \in Seq(Frames) /\ Len(stack') = Len(b)
          /\ \A i \in 1..Len(b) : stack'[i] = IF i = m THEN g ELSE b[i]
      BY <1>5, <1>6, <2>3, <2>4, ExceptSeq
    <2> QED BY <1>2, <1>5, <2>5
  <1>8. /\ stack[1].path = NextStep
        /\ \A i \in 1..n : FrameFits(stack[i]) /\ (stack[i].stage = "opened" => n = 1)
        /\ \A i, j \in 1..n :
            /\ i < j => RunsUnder(stack[i], stack[j]) /\ stack[i].last = "PASSED"
            /\ j = i + 1 => stack[j].path = Append(stack[i].path, <<stack[i].branch, stack[i].done + 1>>)
    BY DEF CheckpointsInv, StackShape
  <1>9. \A i \in 1..n : stack[i] \in Frames
    BY <1>1
  <1> HIDE DEF n, m, b, g, told
  <1>10. \A i \in 1..m : i \in 1..n /\ (i # m => i < m)
    BY <1>1, <1>2
  <1>11. \A i \in 1..m : /\ stack'[i].path = stack[i].path /\ stack'[i].stage = stack[i].stage
                         /\ stack'[i].asked = stack[i].asked /\ stack'[i].answered = stack[i].answered
    BY <1>6, <1>7
  <1>12. TypeOK'
    BY <1>3, <1>4, <1>7 DEF CheckpointsInv, TypeOK, Statuses
  <1>13. StackShape'
    <2>1. NextStep' = NextStep
      BY <1>3 DEF NextStep
    <2>2. stack'[1].path = NextStep'
      BY <1>2, <1>8, <1>11, <2>1
    <2>3. ASSUME NEW i \in 1..m PROVE FrameFits(stack'[i]) /\ stack'[i].stage # "opened"
      <3>1. FrameFits(stack[i]) /\ stack[i].stage # "opened"
        BY <1>2, <1>8, <1>10 DEF n
      <3>2. stack'[i].laps = stack[i].laps /\ stack'[i].branch = stack[i].branch
        BY <1>6, <1>7
      <3> QED BY <1>11, <3>1, <3>2 DEF FrameFits
    <2>4. ASSUME NEW i \in 1..m, NEW j \in 1..m
          PROVE  /\ i < j => RunsUnder(stack'[i], stack'[j]) /\ stack'[i].last = "PASSED"
                 /\ j = i + 1 => stack'[j].path = Append(stack'[i].path, <<stack'[i].branch, stack'[i].done + 1>>)
      <3>1. i < j \/ j = i + 1 => i # m
        BY <1>2
      <3>2. i # m => stack'[i] = stack[i]
        BY <1>7
      <3>3. /\ i < j => RunsUnder(stack[i], stack[j]) /\ stack[i].last = "PASSED"
            /\ j = i + 1 => stack[j].path = Append(stack[i].path, <<stack[i].branch, stack[i].done + 1>>)
        BY <1>8, <1>10
      <3> QED BY <1>11, <3>1, <3>2, <3>3 DEF RunsUnder
    <2>5. /\ stack' # <<>> => stack'[1].path = NextStep'
          /\ \A i \in 1..Len(stack') : FrameFits(stack'[i]) /\ (stack'[i].stage = "opened" => Len(stack') = 1)
          /\ \A i, j \in 1..Len(stack') :
              /\ i < j => RunsUnder(stack'[i], stack'[j]) /\ stack'[i].last = "PASSED"
              /\ j = i + 1 => stack'[j].path = Append(stack'[i].path, <<stack'[i].branch, stack'[i].done + 1>>)
      <3>1. Len(stack') = m
        BY <1>7
      <3>2. \A i \in 1..m : FrameFits(stack'[i]) /\ stack'[i].stage # "opened"
        BY <2>3
      <3>3. \A i, j \in 1..m :
              /\ i < j => RunsUnder(stack'[i], stack'[j]) /\ stack'[i].last = "PASSED"
              /\ j = i + 1 => stack'[j].path = Append(stack'[i].path, <<stack'[i].branch, stack'[i].done + 1>>)
        BY <2>4
      <3> QED BY <2>2, <3>1, <3>2, <3>3
    <2>6. test' = "running"
      BY <1>1, <1>3
    <2> QED BY <2>5, <2>6 DEF StackShape, FrameFits, RunsUnder, PlaceUnder
  <1>14. ASSUME NEW i \in 1..m PROVE FrameCounts(stack[i], status') /\ FrameTaken(stack[i], status')
    <2>1. RunsUnder(stack[i], Top)
      BY <1>2, <1>10, FramesApart DEF n
    <2>2. FrameCounts(stack[i], status) /\ FrameTaken(stack[i], status)
      BY <1>10 DEF CheckpointsInv, FramesAgree, n
    <2> QED BY <1>1, <1>4, <1>9, <1>10, <2>1, <2>2, BelowAgrees
  <1>15. FrameTaken(g, status')
    <2> SUFFICES ASSUME g.laps > 0, g.last = "PASSED", NEW p \in Planned, ~Looped(p), IsStrictPrefix(g.path, p)
                 PROVE  IF PlaceUnder(g.path, p)[1] = g.branch
                        THEN PlaceUnder(g.path, p)[2] <= g.done => status'[p].state \in Settled
                        ELSE status'[p].state \notin Superseded
      BY DEF FrameTaken
    <2> DEFINE f == stack[m]
               y == PlaceUnder(f.path, p)
    <2>1. f.last = "PASSED" /\ f \in Frames
      BY <1>2, <1>8, <1>9
    <2>2. IF y[1] = f.branch THEN y[2] <= f.done => status'[p].state \in Settled
                             ELSE status'[p].state \notin Superseded
      BY <1>2, <1>6, <1>14, <2>1 DEF FrameTaken
    <2>3. result \in {"PASSED", "SKIPPED"}
      BY <1>6 DEF told
    <2>4. f.path \in Paths /\ p \in Paths /\ f.path \in Seq(Places) /\ p \in Seq(Places) /\ f.done \in Nat
      <3>1. f.path \in Paths /\ p \in Paths /\ f.done \in Nat
        BY <2>1, CheckpointsAssumption DEF Frames
      <3> QED BY <3>1, PathType
    <2>5. y \in Places /\ y[2] \in Nat /\ y = <<y[1], y[2]>>
      <3>1. y \in Places
        BY <1>6, <2>4, NextUnder DEF PlaceUnder
      <3> QED BY <3>1, PlaceType
    <2>6. ASSUME y[1] = f.branch, y[2] = f.done + 1 PROVE status'[p].state \in Settled
      <3>1. Top.path = Append(f.path, y)
        BY <1>1, <1>2, <1>8, <2>5, <2>6
      <3>2. IsPrefix(Top.path, p)
        <4> HIDE DEF f
        <4> QED BY <1>6, <2>4, <2>5, <3>1, UnderLonger DEF PlaceUnder, f
      <3> QED BY <1>4, <2>3, <3>2
    <2> HIDE DEF f, y
    <2>7. g.path = f.path /\ g.branch = f.branch /\ g.done = f.done + 1
      BY <1>6 DEF f
    <2>8. y[2] <= f.done + 1 => y[2] <= f.done \/ y[2] = f.done + 1
      BY <2>4, <2>5
    <2> QED BY <2>2, <2>6, <2>7, <2>8 DEF y
  <1>16. FramesAgree'
    <2>1. ASSUME NEW i \in 1..m PROVE FrameCounts(stack'[i], status') /\ FrameTaken(stack'[i], status')
      <3>1. CASE i # m
        BY <1>7, <1>14, <3>1
      <3>2. CASE i = m
        <4>1. FrameCounts(g, status')
          BY <1>2, <1>6, <1>14 DEF FrameCounts
        <4> QED BY <1>7, <1>15, <3>2, <4>1
      <3> QED BY <3>1, <3>2
    <2> QED BY <1>7, <2>1 DEF FramesAgree, FrameCounts, FrameTaken, Looped, PlaceUnder
  <1>17. NowIsWaiting'
    <2> SUFFICES ASSUME NEW p \in Planned PROVE status'[p].state = "now" <=> Waits(p)'
      BY DEF NowIsWaiting
    <2>1. status[p].state = "now" <=> \E i \in 1..n : stack[i].path = p /\ stack[i].asked = "yes" /\ stack[i].answered # "yes"
      BY DEF CheckpointsInv, NowIsWaiting, Waits, n
    <2>2. Waits(p)' <=> \E i \in 1..m : stack[i].path = p /\ stack[i].asked = "yes" /\ stack[i].answered # "yes"
      BY <1>7, <1>11 DEF Waits
    <2>3. \A i \in 1..m : stack[i].path # Top.path
      BY <1>2, <1>10, FramesApart DEF n
    <2>4. \A i \in 1..n : i \in 1..m \/ i = n
      BY <1>1, <1>2
    <2>5. status'[p].state = "now" <=> status[p].state = "now" /\ p # Top.path
      BY <1>4
    <2> QED BY <1>1, <1>10, <2>1, <2>2, <2>3, <2>4, <2>5
  <1>18. AttemptsAreAsks'
    BY <1>3, <1>4 DEF CheckpointsInv, AttemptsAreAsks
  <1>19. NoneLeftOpen' /\ PassedIsSettled' /\ AheadOfRun' /\ PhasesSettled'
    <2>1. stack'[1].stage = "running" /\ stack' # <<>>
      <3>1. stack[1].stage # "opened" /\ stack[1] \in Frames
        BY <1>1, <1>8, <1>9 DEF n
      <3> QED BY SMTT(60), <1>2, <1>7, <1>11, <3>1 DEF Frames
    <2> QED BY <1>3, <1>4, <2>1, PhasesAgree
  <1> QED BY <1>12, <1>13, <1>16, <1>17, <1>18, <1>19 DEF CheckpointsInv

\* A step of a phase ends, and the phase goes on or stops.
LEMMA PhaseStepEndKeeps ==
  ASSUME CheckpointsInv, stack # <<>>, Len(stack) = 1, NEW result \in {"PASSED", "FAILED", "SKIPPED"},
         EndsSettled(result), EndStep(result)
  PROVE  CheckpointsInv'
  <1>1. /\ stack \in Seq(Frames) /\ Top \in Frames /\ Top = stack[1] /\ test = "running" /\ status \in Statuses
        /\ at \in [phase : 1..3, done : Nat, failed : {"yes", "no"}] /\ at.phase \in 1..3 /\ at.done \in Nat
        /\ at.failed \in {"yes", "no"}
        /\ Len(Phases) = 3 /\ Phases[1] = "setup" /\ Phases[2] = "execution" /\ Phases[3] = "teardown"
    BY TypeFacts
  <1> DEFINE stops == result = "FAILED" /\ Phases[at.phase] # "teardown"
  <1>2. /\ status' = Ended(status, Top, result) /\ UNCHANGED <<missing, test, outcome, runs, cancelled, puts>>
        /\ stack' = <<>>
        /\ at' = IF stops THEN [phase |-> 3, done |-> 0, failed |-> "yes"] ELSE [at EXCEPT !.done = @ + 1]
    BY DEF EndStep
  <1>3. /\ at' \in [phase : 1..3, done : Nat, failed : {"yes", "no"}]
        /\ stops => at'.phase = 3 /\ at'.done = 0 /\ at'.failed = "yes" /\ at.phase # 3
        /\ ~stops => at'.phase = at.phase /\ at'.done = at.done + 1 /\ at'.failed = at.failed
    BY <1>1, <1>2
  <1> HIDE DEF stops
  <1>4. /\ status' \in Statuses
        /\ \A p \in Planned : status'[p].attempts = status[p].attempts
        /\ \A p \in Planned : status'[p] # status[p] => IsPrefix(Top.path, p)
        /\ \A p \in Planned : status'[p].state = "now" <=> status[p].state = "now" /\ p # Top.path
        /\ result \in {"PASSED", "SKIPPED"} =>
             \A p \in Planned : ~Looped(p) /\ IsPrefix(Top.path, p) => status'[p].state \in Settled
    BY <1>2, EndFacts
  <1>5. TypeOK'
    <2>1. stack' \in Seq(Frames)
      BY <1>2
    <2> QED BY <1>1, <1>2, <1>3, <1>4, <2>1 DEF CheckpointsInv, TypeOK, Statuses
  <1>6. StackShape' /\ FramesAgree'
    <2>1. Len(stack') = 0 /\ 1..0 = {}
      BY <1>2
    <2> QED BY <1>1, <1>2, <2>1 DEF StackShape, FramesAgree
  <1>7. NowIsWaiting'
    <2> SUFFICES ASSUME NEW p \in Planned PROVE status'[p].state = "now" <=> Waits(p)'
      BY DEF NowIsWaiting
    <2>1. status[p].state = "now" => p = Top.path
      <3>1. \A i \in 1..Len(stack) : i = 1
        OBVIOUS
      <3> QED BY <1>1, <3>1 DEF CheckpointsInv, NowIsWaiting, Waits
    <2>2. Len(stack') = 0 /\ 1..0 = {}
      BY <1>2
    <2> QED BY <1>4, <2>1, <2>2 DEF Waits
  <1>8. AttemptsAreAsks'
    BY <1>2, <1>4 DEF CheckpointsInv, AttemptsAreAsks
  <1>9. NoneLeftOpen' /\ PassedIsSettled'
    BY <1>1, <1>2 DEF NoneLeftOpen, PassedIsSettled
  <1>10. Top.path = << <<Phases[at.phase], at.done + 1>> >>
    BY <1>1 DEF CheckpointsInv, StackShape, NextStep
  <1>11. ASSUME NEW p \in Planned
         PROVE  /\ p[1][2] \in Nat \ {0} /\ p[1] = <<p[1][1], p[1][2]>>
                /\ IsPrefix(Top.path, p) <=> p[1] = <<Phases[at.phase], at.done + 1>>
    <2>1. p \in Paths /\ p[1] \in Places /\ IsPrefix(<<p[1]>>, p) /\ Top.path \in Paths
      BY <1>1, CheckpointsAssumption, PhaseOfPath DEF Frames
    <2>2. p[1][2] \in Nat \ {0} /\ p[1] = <<p[1][1], p[1][2]>>
      BY <2>1, PlaceType
    <2>3. IsPrefix(Top.path, p) => p[1] = Top.path[1]
      <3>1. p \in Seq(Places) /\ Top.path \in Seq(Places) /\ 1 \in 1..Len(Top.path)
        BY <2>1, PathType
      <3> QED BY <3>1, PrefixIs
    <2> QED BY <1>10, <2>1, <2>2, <2>3
  <1>12. ASSUME NEW p \in Planned, NEW k \in 1..3, p[1][1] = Phases[k]
         PROVE  IsPrefix(Top.path, p) <=> k = at.phase /\ p[1][2] = at.done + 1
    <2>1. p[1] = <<p[1][1], p[1][2]>> /\ (IsPrefix(Top.path, p) <=> p[1] = <<Phases[at.phase], at.done + 1>>)
      BY <1>11
    <2> QED BY <1>1, <1>12, <2>1
  <1>13. AheadOfRun'
    <2> SUFFICES ASSUME NEW p \in Planned, NEW k \in 1..3, p[1][1] = Phases[k],
                        k > at'.phase \/ (k = at'.phase /\ p[1][2] > at'.done + 0)
                 PROVE  status'[p].state = "ahead"
      BY <1>2 DEF AheadOfRun, Started
    <2>1. p[1][2] \in Nat
      BY <1>11
    <2>2. ~IsPrefix(Top.path, p)
      BY <1>1, <1>3, <1>12, <2>1
    <2>3. status'[p] = status[p]
      BY <1>4, <2>2
    <2>4. k > at.phase \/ (k = at.phase /\ p[1][2] > at.done + Started)
      BY <1>1, <1>3, <2>1 DEF Started
    <2> QED BY <1>1, <2>3, <2>4 DEF CheckpointsInv, AheadOfRun
  <1>14. PhasesSettled'
    <2> SUFFICES ASSUME at'.failed = "no", NEW p \in Planned, NEW k \in 1..2, ~Looped(p), p[1][1] = Phases[k],
                        k < at'.phase \/ (k = at'.phase /\ p[1][2] <= at'.done)
                 PROVE  status'[p].state \in Settled
      BY DEF PhasesSettled, Looped
    <2>1. p[1][2] \in Nat /\ k \in 1..3 /\ ~stops /\ at.failed = "no"
      BY <1>3, <1>11
    <2>2. CASE IsPrefix(Top.path, p)
      <3>1. k = at.phase
        BY <1>12, <2>1, <2>2
      <3>2. result # "FAILED"
        BY <1>1, <2>1, <3>1 DEF stops
      <3> QED BY <1>4, <2>2, <3>2
    <2>3. CASE ~IsPrefix(Top.path, p)
      <3>1. status'[p] = status[p]
        BY <1>4, <2>3
      <3>2. k < at.phase \/ (k = at.phase /\ p[1][2] <= at.done)
        BY <1>1, <1>3, <1>12, <2>1, <2>3
      <3> QED BY <1>1, <2>1, <3>1, <3>2 DEF CheckpointsInv, PhasesSettled
    <2> QED BY <2>2, <2>3
  <1> QED BY <1>5, <1>6, <1>7, <1>8, <1>9, <1>13, <1>14 DEF CheckpointsInv

\* The end of the step on top, with the states of what it holds settled, keeps the invariant.
LEMMA EndKeeps ==
  ASSUME CheckpointsInv, stack # <<>>, NEW result \in {"PASSED", "FAILED", "SKIPPED"},
         EndsSettled(result), EndStep(result)
  PROVE  CheckpointsInv'
  BY NestedEndKeeps, PhaseStepEndKeeps

\* The test moves on between its steps.
LEMMA ConditionEndsSettled ==
  ASSUME CheckpointsInv, stack # <<>>, Top.stage = "opened", NEW result
  PROVE  EndsSettled(result)
  <1>1. /\ Top \in Frames /\ Top = stack[Len(stack)] /\ test = "running" /\ at.phase \in 1..3 /\ at.done \in Nat
        /\ Len(stack) \in 1..Len(stack)
        /\ Phases[1] = "setup" /\ Phases[2] = "execution" /\ Phases[3] = "teardown"
    BY TypeFacts
  <1>2. Len(stack) = 1
    BY <1>1 DEF CheckpointsInv, StackShape
  <1>3. Top.path = << <<Phases[at.phase], at.done + 1>> >> /\ Started = 0
    BY <1>1, <1>2 DEF CheckpointsInv, StackShape, NextStep, Started
  <1> SUFFICES ASSUME NEW p \in Planned, IsStrictPrefix(Top.path, p) PROVE status[p].state \in Open
    BY DEF EndsSettled
  <1>4. p \in Paths /\ Top.path \in Paths
    BY <1>1, CheckpointsAssumption DEF Frames
  <1>5. p[1] = Top.path[1]
    <2>1. p \in Seq(Places) /\ Top.path \in Seq(Places) /\ 1 \in 1..Len(Top.path)
      BY <1>4, PathType
    <2> QED BY <2>1, StrictIs
  <1>6. p[1][1] = Phases[at.phase] /\ p[1][2] = at.done + 1
    BY <1>3, <1>5
  <1>7. status[p].state = "ahead"
    <2>1. p[1][2] > at.done + Started
      BY <1>1, <1>3, <1>6
    <2> QED BY <1>1, <1>6, <2>1 DEF CheckpointsInv, AheadOfRun
  <1> QED BY <1>7 DEF Open

\* A step that runs no others carries none.
LEMMA LeafEndsSettled ==
  ASSUME CheckpointsInv, Running({"wait", "act"}), NEW result
  PROVE  EndsSettled(result)
  <1> SUFFICES ASSUME NEW p \in Planned, IsStrictPrefix(Top.path, p) PROVE FALSE
    BY DEF EndsSettled
  <1>1. stack # <<>> /\ Uses[Top.path] \in {"wait", "act"}
    BY DEF Running
  <1>2. Top \in Frames
    BY <1>1, TypeFacts
  <1>3. p \in Paths /\ Top.path \in Paths
    BY <1>2, CheckpointsAssumption DEF Frames
  <1>4. p[Len(Top.path) + 1][1] \in Lists(Uses[Top.path])
    BY <1>3, NextUnder
  <1>5. Lists(Uses[Top.path]) = {}
    BY <1>1 DEF Lists
  <1> QED BY <1>4, <1>5

\* A flow step passes with its list done and settled.
LEMMA FlowEndsSettled ==
  ASSUME CheckpointsInv, NEW result \in {"PASSED", "FAILED"}, FlowEnds(result)
  PROVE  EndsSettled(result)
  <1> SUFFICES ASSUME result = "PASSED", NEW p \in Planned, ~Looped(p), IsStrictPrefix(Top.path, p)
               PROVE  status[p].state \in Settled \cup Open
    BY DEF EndsSettled
  <1>1. /\ stack # <<>>
        /\ \/ Top.laps = 0 /\ Uses[Top.path] = "each"
           \/ Top.laps > 0 /\ Top.last = "PASSED" /\ Child \notin Paths
    BY DEF FlowEnds, Running
  <1>2. Top \in Frames /\ Top = stack[Len(stack)] /\ Len(stack) \in 1..Len(stack) /\ status \in Statuses
    BY <1>1, TypeFacts
  <1>3. p \in Paths /\ Top.path \in Paths /\ Top.done \in Nat
    BY <1>2, CheckpointsAssumption DEF Frames
  <1>4. Top.laps > 0 /\ Top.last = "PASSED" /\ Child \notin Paths
    BY <1>1, <1>3 DEF Looped
  <1> DEFINE q == Top.path
             x == PlaceUnder(q, p)
  <1>5. x \in Places /\ Append(q, x) \in Paths /\ q \in Seq(Places)
    BY <1>3, NextUnder, PathType DEF PlaceUnder
  <1>6. x = <<x[1], x[2]>> /\ x[2] \in Nat \ {0}
    BY <1>5, PlaceType
  <1>7. IF x[1] = Top.branch THEN x[2] <= Top.done => status[p].state \in Settled
                             ELSE status[p].state \notin Superseded
    BY <1>2, <1>4 DEF CheckpointsInv, FramesAgree, FrameTaken
  <1> HIDE DEF q, x
  <1>8. CASE x[1] = Top.branch
    <2>1. x[2] <= Top.done
      <3> SUFFICES ASSUME ~(x[2] <= Top.done) PROVE FALSE
        OBVIOUS
      <3>1. Top.done + 1 \in 1..x[2]
        BY <1>3, <1>6
      <3>2. <<x[1], x[2]>> \in Places /\ Append(q, <<x[1], x[2]>>) \in Paths
        BY <1>5, <1>6
      <3>3. Append(q, <<x[1], Top.done + 1>>) \in Paths
        BY <1>5, <1>6, <3>1, <3>2, ListHasNoGaps
      <3> QED BY <1>4, <1>8, <3>3 DEF Child, q
    <2> QED BY <1>7, <1>8, <2>1
  <1>9. CASE x[1] # Top.branch
    <2>1. status[p].state \in States
      BY <1>2 DEF Statuses
    <2> QED BY <1>7, <1>9, <2>1 DEF States, Superseded, Settled, Open
  <1> QED BY <1>8, <1>9

-----------------------------------------------------------------------------
\* An interruption.

UnwoundStep(U, k) == IF k = 0 THEN status ELSE Ended(U[k - 1], stack[Len(stack) + 1 - k], "None")

\* The recursion of Unwound has a solution.
LEMMA UnwoundExists ==
  ASSUME NEW m \in Nat
  PROVE  \E U : U = [k \in 0..m |-> UnwoundStep(U, k)]
  <1> DEFINE T == {n \in Nat : \E U : U = [k \in 0..n |-> UnwoundStep(U, k)]}
  <1>1. 0 \in T
    <2> DEFINE U0 == [k \in 0..0 |-> status]
    <2>1. U0 = [k \in 0..0 |-> UnwoundStep(U0, k)]
      BY DEF UnwoundStep
    <2> QED BY <2>1
  <1>2. ASSUME NEW n \in Nat, n \in T PROVE n + 1 \in T
    <2>1. PICK U : U = [k \in 0..n |-> UnwoundStep(U, k)]
      BY <1>2
    <2> DEFINE G == [k \in 0..(n + 1) |-> IF k = n + 1 THEN UnwoundStep(U, k) ELSE U[k]]
    <2>2. ASSUME NEW k \in 0..(n + 1) PROVE G[k] = UnwoundStep(G, k)
      <3>1. UnwoundStep(G, k) = UnwoundStep(U, k)
        <4>1. k # 0 => k - 1 \in 0..(n + 1) /\ k - 1 # n + 1
          OBVIOUS
        <4>2. k # 0 => G[k - 1] = U[k - 1]
          BY <4>1
        <4> QED BY <4>2 DEF UnwoundStep
      <3>2. k # n + 1 => k \in 0..n /\ U[k] = UnwoundStep(U, k)
        BY <2>1
      <3> QED BY <3>1, <3>2
    <2>3. G = [k \in 0..(n + 1) |-> UnwoundStep(G, k)]
      BY <2>2
    <2> HIDE DEF G
    <2>4. \E H : H = [k \in 0..(n + 1) |-> UnwoundStep(H, k)]
      BY <2>3
    <2> QED BY <2>4
  <1> HIDE DEF T
  <1>3. Nat \subseteq T
    BY <1>1, <1>2, SetInduction
  <1> QED BY <1>3 DEF T

\* The definition of the recursive function, for stacks of any length.
LEMMA UnwoundIs ==
  ASSUME NEW T, stack \in Seq(T)
  PROVE  Unwound = [k \in 0..Len(stack) |-> UnwoundStep(Unwound, k)]
  <1> DEFINE m == Len(stack)
  <1>0. m \in Nat
    OBVIOUS
  <1>1. \E U : U = [k \in 0..m |-> UnwoundStep(U, k)]
    <2> HIDE DEF m
    <2> QED BY <1>0, UnwoundExists
  <1> QED BY <1>1, Zenon DEF Unwound, UnwoundStep

\* What the frames on the way out leave: no question of theirs, and every answer.
UnwoundTo(U, k) ==
    /\ U \in Statuses
    /\ \A p \in Planned :
        /\ U[p].attempts = status[p].attempts
        /\ U[p].state = "now" => status[p].state = "now"
                                 /\ \A i \in 1..Len(stack) : i > Len(stack) - k => stack[i].path # p
        /\ status[p].state = "cleared" /\ (\A i \in 1..Len(stack) : stack[i].path # p) => U[p].state = "cleared"

\* What an interrupt makes of the frames, down to the bottom of the stack.
LEMMA UnwoundFacts ==
  ASSUME CheckpointsInv
  PROVE  UnwoundTo(Unwind, Len(stack))
  <1>1. stack \in Seq(Frames) /\ Len(stack) \in Nat /\ status \in Statuses
    BY TypeFacts
  <1> DEFINE n == Len(stack)
             F == Unwound
             N == {k \in Nat : k <= n => UnwoundTo(F[k], k)}
  <1>2. \A k \in 0..n : F[k] = UnwoundStep(F, k)
    BY <1>1, UnwoundIs
  <1> HIDE DEF F
  <1>3. 0 \in N
    <2>1. 0 \in 0..n
      BY <1>1
    <2>2. F[0] = status
      BY <1>2, <2>1 DEF UnwoundStep
    <2>3. \A i \in 1..n : ~(i > n - 0)
      BY <1>1
    <2>4. UnwoundTo(status, 0)
      BY <1>1, <2>3 DEF UnwoundTo
    <2> QED BY <2>2, <2>4
  <1>4. ASSUME NEW k \in Nat, k \in N PROVE k + 1 \in N
    <2> SUFFICES ASSUME k + 1 <= n PROVE UnwoundTo(F[k + 1], k + 1)
      OBVIOUS
    <2> DEFINE j == n - k
    <2>1. k + 1 \in 0..n /\ k + 1 # 0 /\ k <= n /\ (k + 1) - 1 = k /\ j \in 1..n /\ n + 1 - (k + 1) = j
      <3> HIDE DEF n
      <3> QED BY <1>1 DEF n
    <2>2. UnwoundTo(F[k], k)
      BY <1>4, <2>1
    <2>3. stack[j] \in Frames
      <3> HIDE DEF j
      <3> QED BY <1>1, <2>1
    <2>4. F[k + 1] = Ended(F[k], stack[j], "None")
      BY <1>2, <2>1 DEF UnwoundStep
    <2> DEFINE A == F[k]
               B == F[k + 1]
               f == stack[j]
    <2>5. A \in Statuses /\ B = Ended(A, f, "None") /\ f \in Frames
      BY <2>2, <2>3, <2>4 DEF UnwoundTo
    <2> HIDE DEF A, B, f
    <2>6. B \in Statuses
      BY <2>5, EndedFacts
    <2>7. ASSUME NEW p \in Planned
          PROVE  /\ B[p].attempts = A[p].attempts
                 /\ p # f.path => B[p].state = A[p].state \/ (A[p].state \in Open /\ B[p].state \notin Open)
                 /\ p = f.path => B[p].state \notin Open
      BY <2>5, EndedFacts
    <2>8. ASSUME NEW p \in Planned
          PROVE  /\ A[p].attempts = status[p].attempts
                 /\ A[p].state = "now" => status[p].state = "now"
                                 /\ \A i \in 1..n : i > n - k => stack[i].path # p
                 /\ status[p].state = "cleared" /\ (\A i \in 1..n : stack[i].path # p) => A[p].state = "cleared"
      BY <2>2 DEF UnwoundTo, A
    <2>9. \A i \in 1..n : i > n - (k + 1) => i > n - k \/ i = j
      <3> HIDE DEF n
      <3> QED BY <1>1, <2>1 DEF n
    <2>10. ASSUME NEW p \in Planned
           PROVE  /\ B[p].attempts = status[p].attempts
                  /\ B[p].state = "now" => status[p].state = "now"
                                 /\ \A i \in 1..n : i > n - (k + 1) => stack[i].path # p
                  /\ status[p].state = "cleared" /\ (\A i \in 1..n : stack[i].path # p) => B[p].state = "cleared"
      <3>1. B[p].state = "now" => A[p].state = "now" /\ p # f.path
        BY <2>7 DEF Open
      <3>2. B[p].state = "now" => \A i \in 1..n : i > n - (k + 1) => stack[i].path # p
        BY <2>8, <2>9, <3>1 DEF f
      <3>3. status[p].state = "cleared" /\ (\A i \in 1..n : stack[i].path # p) => B[p].state = "cleared"
        <4>1. (\A i \in 1..n : stack[i].path # p) => p # f.path
          BY <2>1 DEF f
        <4>2. "cleared" \notin Open
          BY DEF Open
        <4> QED BY <2>7, <2>8, <4>1, <4>2
      <3> QED BY <2>7, <2>8, <3>1, <3>2, <3>3
    <2>11. UnwoundTo(B, k + 1)
      BY <2>6, <2>10 DEF UnwoundTo
    <2> QED BY <2>11 DEF B
  <1> HIDE DEF N
  <1>5. Nat \subseteq N
    BY <1>3, <1>4, SetInduction
  <1>6. UnwoundTo(F[n], n)
    BY <1>1, <1>5 DEF N
  <1> QED BY <1>6 DEF Unwind, F

-----------------------------------------------------------------------------
\* The test and the run.

\* Without a frame, nothing is to be said of frames, and nothing may be put to anyone.
LEMMA NoFrames ==
  ASSUME stack' = <<>>, \A p \in Planned : status'[p].state # "now"
  PROVE  StackShape' /\ FramesAgree' /\ NowIsWaiting' /\ stack' \in Seq(Frames)
  <1>1. Len(stack') = 0 /\ 1..0 = {} /\ stack' \in Seq(Frames)
    OBVIOUS
  <1>2. StackShape' /\ FramesAgree'
    BY <1>1 DEF StackShape, FramesAgree
  <1>3. NowIsWaiting'
    BY <1>1 DEF NowIsWaiting, Waits
  <1> QED BY <1>1, <1>2, <1>3

\* A status whose state changed.
LEMMA StateSet ==
  ASSUME status \in Statuses, NEW G, \A p \in Planned : G[p] \in States,
         status' = [p \in Planned |-> [status[p] EXCEPT !.state = G[p]]]
  PROVE  /\ status' \in Statuses
         /\ \A p \in Planned : status'[p].state = G[p] /\ status'[p].attempts = status[p].attempts
  <1>1. ASSUME NEW p \in Planned
        PROVE  /\ [status[p] EXCEPT !.state = G[p]] \in [state : States, attempts : Nat]
               /\ [status[p] EXCEPT !.state = G[p]].state = G[p]
               /\ [status[p] EXCEPT !.state = G[p]].attempts = status[p].attempts
    <2> DEFINE x == status[p]
               v == G[p]
    <2>1. x \in [state : States, attempts : Nat] /\ v \in States
      BY DEF Statuses
    <2> HIDE DEF x, v
    <2>2. /\ [x EXCEPT !.state = v] \in [state : States, attempts : Nat]
          /\ [x EXCEPT !.state = v].state = v
          /\ [x EXCEPT !.state = v].attempts = x.attempts
      BY <2>1
    <2> QED BY <2>2 DEF x, v
  <1> QED BY <1>1 DEF Statuses

\* The end of a test leaves no checkpoint open and changes none that was settled.
LEMMA TestEndedIs ==
  ASSUME NEW state \in States, NEW result
  PROVE  /\ TestEnded(state, result) \in States \ Open
         /\ state \notin Open => TestEnded(state, result) = state
  BY DEF TestEnded, States, Open

\* The start of a test keeps the invariant.
LEMMA TestStartsKeeps == CheckpointsInv /\ TestStarts => CheckpointsInv'
  <1> SUFFICES ASSUME CheckpointsInv, TestStarts PROVE CheckpointsInv'
    OBVIOUS
  <1> USE CheckpointsAssumption
  <1>1. status \in Statuses /\ test # "running" /\ stack = <<>> /\ stack' = <<>> /\ test' = "running"
    BY TypeFacts DEF TestStarts, CheckpointsInv, StackShape
  <1> DEFINE G == [p \in Planned |-> "ahead"]
  <1>2. status' \in Statuses /\ \A p \in Planned : status'[p].state = "ahead" /\ status'[p].attempts = status[p].attempts
    <2>1. (\A p \in Planned : G[p] \in States) /\ status' = [p \in Planned |-> [status[p] EXCEPT !.state = G[p]]]
      BY DEF TestStarts, States
    <2> HIDE DEF G
    <2>2. status' \in Statuses /\ \A p \in Planned : status'[p].state = G[p] /\ status'[p].attempts = status[p].attempts
      BY <1>1, <2>1, StateSet
    <2> QED BY <2>2 DEF G
  <1>3. StackShape' /\ FramesAgree' /\ NowIsWaiting' /\ stack' \in Seq(Frames)
    BY <1>1, <1>2, NoFrames
  <1>4. TypeOK'
    BY <1>1, <1>2, <1>3 DEF TestStarts, CheckpointsInv, TypeOK, Statuses, Phases
  <1>5. AttemptsAreAsks' /\ NoneLeftOpen' /\ PassedIsSettled' /\ AheadOfRun'
    BY <1>1, <1>2 DEF TestStarts, CheckpointsInv, AttemptsAreAsks, NoneLeftOpen, PassedIsSettled, AheadOfRun
  <1>6. PhasesSettled'
    <2> SUFFICES ASSUME NEW p \in Planned, NEW n \in 1..2, p[1][1] = Phases[n],
                        n < at'.phase \/ (n = at'.phase /\ p[1][2] <= at'.done)
                 PROVE  FALSE
      BY DEF PhasesSettled, Looped
    <2>1. at'.phase = 1 /\ at'.done = 0
      BY DEF TestStarts
    <2>2. p[1] \in Places
      BY PhaseOfPath
    <2>3. p[1][2] \in Nat \ {0}
      BY <2>2, PlaceType
    <2> QED BY <2>1, <2>3
  <1> QED BY <1>3, <1>4, <1>5, <1>6 DEF CheckpointsInv

\* The test ends in one way or another: its checkpoints do, and nothing runs.
LEMMA TestOverKeeps ==
  ASSUME CheckpointsInv, stack = <<>>, stack' = <<>>, test' \in {"idle", "over", "interrupted"},
         outcome' \in {"none", "COMPLETED", "FAILED", "SKIPPED", "CANCELLED"},
         UNCHANGED <<missing, at, runs, cancelled, puts>>, status' \in Statuses,
         \A p \in Planned : status'[p].attempts = status[p].attempts /\ status'[p].state # "now",
         NoneLeftOpen', PassedIsSettled'
  PROVE  CheckpointsInv'
  <1>1. StackShape' /\ FramesAgree' /\ NowIsWaiting' /\ stack' \in Seq(Frames)
    BY NoFrames
  <1>2. TypeOK'
    BY <1>1 DEF CheckpointsInv, TypeOK, Statuses
  <1>3. AttemptsAreAsks' /\ AheadOfRun' /\ PhasesSettled'
    BY DEF CheckpointsInv, AttemptsAreAsks, AheadOfRun, PhasesSettled
  <1> QED BY <1>1, <1>2, <1>3 DEF CheckpointsInv

\* A test that is skipped keeps the invariant.
LEMMA TestSkippedKeeps == CheckpointsInv /\ TestSkipped => CheckpointsInv'
  <1> SUFFICES ASSUME CheckpointsInv, TestSkipped PROVE CheckpointsInv'
    OBVIOUS
  <1>1. status \in Statuses /\ stack = <<>> /\ stack' = <<>> /\ test' = "idle" /\ outcome' = "SKIPPED"
    BY TypeFacts DEF TestSkipped, CheckpointsInv, StackShape
  <1> DEFINE G == [p \in Planned |-> TestEnded(status[p].state, "SKIPPED")]
  <1>2. \A p \in Planned : G[p] \in States \ Open
    BY <1>1, TestEndedIs DEF Statuses
  <1>3. status' = [p \in Planned |-> [status[p] EXCEPT !.state = G[p]]]
    BY DEF TestSkipped
  <1> HIDE DEF G
  <1>4. status' \in Statuses /\ \A p \in Planned : status'[p].state = G[p] /\ status'[p].attempts = status[p].attempts
    BY <1>1, <1>2, <1>3, StateSet
  <1>5. NoneLeftOpen' /\ PassedIsSettled' /\ \A p \in Planned : status'[p].state # "now"
    BY <1>1, <1>2, <1>4 DEF NoneLeftOpen, PassedIsSettled, Open
  <1> QED BY <1>1, <1>4, <1>5, TestOverKeeps DEF TestSkipped

\* A phase whose list is done passed every step in it.
LEMMA PhaseDone ==
  ASSUME CheckpointsInv, PhaseOver, NEW p \in Planned, p[1][1] = Phases[at.phase]
  PROVE  p[1][2] <= at.done
  <1> SUFFICES ASSUME ~(p[1][2] <= at.done) PROVE FALSE
    OBVIOUS
  <1> DEFINE k == p[1][2]
             e == <<>>
  <1>1. p[1] \in Places /\ <<p[1]>> \in Paths /\ at.done \in Nat
    BY CheckpointsAssumption, PhaseOfPath, TypeFacts
  <1>2. k \in Nat \ {0} /\ p[1] = <<p[1][1], k>>
    BY <1>1, PlaceType
  <1>3. at.done + 1 \in 1..k
    <2> HIDE DEF k
    <2> QED BY <1>1, <1>2 DEF k
  <1>4. e \in Seq(Places) /\ Append(e, <<p[1][1], k>>) = <<p[1]>>
    BY <1>1, <1>2
  <1>5. <<p[1][1], k>> \in Places /\ Append(e, <<p[1][1], k>>) \in Paths
    BY <1>1, <1>2, <1>4
  <1>6. Append(e, <<p[1][1], at.done + 1>>) \in Paths
    <2> HIDE DEF k, e
    <2> QED BY <1>2, <1>3, <1>4, <1>5, ListHasNoGaps
  <1>7. Append(e, <<p[1][1], at.done + 1>>) = NextStep
    BY DEF NextStep
  <1> QED BY <1>6, <1>7 DEF PhaseOver

\* The next phase keeps the invariant.
LEMMA NextPhaseKeeps == CheckpointsInv /\ NextPhase => CheckpointsInv'
  <1> SUFFICES ASSUME CheckpointsInv, NextPhase PROVE CheckpointsInv'
    OBVIOUS
  <1>1. /\ stack = <<>> /\ stack' = <<>> /\ test = "running" /\ status' = status /\ status \in Statuses
        /\ UNCHANGED <<missing, test, outcome, runs, cancelled, puts>>
    BY TypeFacts DEF NextPhase, PhaseOver
  <1>2. at \in [phase : 1..3, done : Nat, failed : {"yes", "no"}] /\ at.phase \in 1..3 /\ at.phase < 3
    BY TypeFacts DEF NextPhase
  <1>3. /\ at' \in [phase : 1..3, done : Nat, failed : {"yes", "no"}]
        /\ at'.phase = at.phase + 1 /\ at'.done = 0 /\ at'.failed = at.failed
    <2> DEFINE k == at.phase + 1
    <2>1. k \in 1..3
      BY <1>2
    <2>2. at' = [at EXCEPT !.phase = k, !.done = 0]
      BY DEF NextPhase
    <2> HIDE DEF k
    <2>3. /\ at' \in [phase : 1..3, done : Nat, failed : {"yes", "no"}]
          /\ at'.phase = k /\ at'.done = 0 /\ at'.failed = at.failed
      BY <1>2, <2>1, <2>2
    <2> QED BY <2>3 DEF k
  <1>4. \A p \in Planned : status'[p].state # "now"
    <2>1. Len(stack) = 0 /\ 1..0 = {}
      BY <1>1
    <2> QED BY <1>1, <2>1 DEF CheckpointsInv, NowIsWaiting, Waits
  <1>5. StackShape' /\ FramesAgree' /\ NowIsWaiting' /\ stack' \in Seq(Frames)
    BY <1>1, <1>4, NoFrames
  <1>6. TypeOK'
    BY <1>1, <1>3, <1>5, TypeFacts DEF CheckpointsInv, TypeOK
  <1>7. AttemptsAreAsks' /\ NoneLeftOpen' /\ PassedIsSettled'
    BY <1>1 DEF CheckpointsInv, AttemptsAreAsks, NoneLeftOpen, PassedIsSettled
  <1>8. \A p \in Planned : p[1][2] \in Nat \ {0}
    <2>1. \A p \in Planned : p[1] \in Places
      BY CheckpointsAssumption, PhaseOfPath
    <2> QED BY <2>1, PlaceType
  <1>9. AheadOfRun'
    <2> SUFFICES ASSUME NEW p \in Planned, NEW n \in 1..3, p[1][1] = Phases[n],
                        n > at'.phase \/ (n = at'.phase /\ p[1][2] > at'.done + Started')
                 PROVE  status[p].state = "ahead"
      BY <1>1 DEF AheadOfRun
    <2>1. n > at.phase
      BY <1>2, <1>3
    <2> QED BY <1>1, <2>1 DEF CheckpointsInv, AheadOfRun
  <1>10. PhasesSettled'
    <2> SUFFICES ASSUME at.failed = "no", NEW p \in Planned, NEW n \in 1..2, ~Looped(p), p[1][1] = Phases[n],
                        n < at'.phase \/ (n = at'.phase /\ p[1][2] <= at'.done)
                 PROVE  status[p].state \in Settled
      BY <1>1, <1>3 DEF PhasesSettled, Looped
    <2>1. n < at.phase \/ n = at.phase
      BY <1>2, <1>3, <1>8
    <2>2. n = at.phase => p[1][2] <= at.done
      BY PhaseDone DEF NextPhase
    <2> QED BY <1>1, <2>1, <2>2 DEF CheckpointsInv, PhasesSettled
  <1> QED BY <1>5, <1>6, <1>7, <1>9, <1>10 DEF CheckpointsInv

\* The end of a test keeps the invariant.
LEMMA TestEndsKeeps == CheckpointsInv /\ TestEnds => CheckpointsInv'
  <1> SUFFICES ASSUME CheckpointsInv, TestEnds PROVE CheckpointsInv'
    OBVIOUS
  <1>1. /\ stack = <<>> /\ stack' = <<>> /\ test = "running" /\ test' = "idle" /\ status \in Statuses
        /\ at.phase = 3 /\ at.failed \in {"yes", "no"}
        /\ outcome' = IF at.failed = "yes" THEN "FAILED" ELSE "COMPLETED"
        /\ Phases[1] = "setup" /\ Phases[2] = "execution" /\ Phases[3] = "teardown"
    BY TypeFacts DEF TestEnds, PhaseOver
  <1> DEFINE G == [p \in Planned |-> TestEnded(status[p].state, outcome')]
  <1>2. \A p \in Planned : status[p].state \in States
    BY <1>1 DEF Statuses
  <1>3. \A p \in Planned : G[p] \in States \ Open /\ (status[p].state \notin Open => G[p] = status[p].state)
    BY <1>2, TestEndedIs
  <1>4. status' = [p \in Planned |-> [status[p] EXCEPT !.state = G[p]]]
    BY DEF TestEnds
  <1> HIDE DEF G
  <1>5. status' \in Statuses /\ \A p \in Planned : status'[p].state = G[p] /\ status'[p].attempts = status[p].attempts
    BY <1>1, <1>3, <1>4, StateSet
  <1>6. NoneLeftOpen' /\ \A p \in Planned : status'[p].state # "now"
    BY <1>3, <1>5 DEF NoneLeftOpen, Open
  <1>7. PassedIsSettled'
    <2> SUFFICES ASSUME outcome' = "COMPLETED", NEW p \in Planned, p[1][1] # "teardown", ~Looped(p)
                 PROVE  status'[p].state \in Settled
      BY DEF PassedIsSettled, Looped
    <2>1. p[1][1] \in {"setup", "execution"}
      BY CheckpointsAssumption, PhaseOfPath
    <2>2. \E n \in 1..2 : p[1][1] = Phases[n]
      BY <1>1, <2>1
    <2>3. \A n \in 1..2 : n < at.phase
      BY <1>1
    <2>4. at.failed = "no"
      BY <1>1
    <2>5. status[p].state \in Settled
      BY <1>1, <2>2, <2>3, <2>4 DEF CheckpointsInv, PhasesSettled
    <2> QED BY <1>3, <1>5, <2>5 DEF Settled, Open
  <1> QED BY <1>1, <1>5, <1>6, <1>7, TestOverKeeps DEF TestEnds

\* The end of the run keeps the invariant.
LEMMA RunEndsKeeps == CheckpointsInv /\ RunEnds => CheckpointsInv'
  <1> SUFFICES ASSUME CheckpointsInv, RunEnds PROVE CheckpointsInv'
    OBVIOUS
  <1>1. /\ stack = <<>> /\ stack' = <<>> /\ test \in {"idle", "interrupted"} /\ test' = "over" /\ status \in Statuses
        /\ UNCHANGED <<missing, at, runs, cancelled, puts>>
    BY TypeFacts DEF RunEnds, CheckpointsInv, StackShape
  <1> DEFINE told(x) == IF outcome' = outcome THEN x ELSE TestEnded(x, outcome')
             G == [p \in Planned |-> IF told(status[p].state) \in Open THEN "not_reached" ELSE told(status[p].state)]
  <1>2. \A p \in Planned : status[p].state \in States
    BY <1>1 DEF Statuses
  <1>3. ASSUME NEW p \in Planned
        PROVE  G[p] \in States \ Open /\ (status[p].state \notin Open => G[p] = status[p].state)
    <2>1. told(status[p].state) \in States /\ (status[p].state \notin Open => told(status[p].state) = status[p].state)
      BY <1>2, TestEndedIs
    <2> HIDE DEF told
    <2> QED BY <2>1 DEF States, Open
  <1>4. status' = [p \in Planned |-> [status[p] EXCEPT !.state = G[p]]]
    BY DEF RunEnds
  <1> HIDE DEF G
  <1>5. status' \in Statuses /\ \A p \in Planned : status'[p].state = G[p] /\ status'[p].attempts = status[p].attempts
    BY <1>1, <1>3, <1>4, StateSet
  <1>6. NoneLeftOpen' /\ \A p \in Planned : status'[p].state # "now"
    BY <1>3, <1>5 DEF NoneLeftOpen, Open
  <1>7. outcome' \in {"none", "COMPLETED", "FAILED", "SKIPPED", "CANCELLED"}
    BY DEF RunEnds, CheckpointsInv, TypeOK
  <1>8. PassedIsSettled'
    <2> SUFFICES ASSUME outcome' = "COMPLETED", NEW p \in Planned, p[1][1] # "teardown", ~Looped(p)
                 PROVE  status'[p].state \in Settled
      BY DEF PassedIsSettled, Looped
    <2>1. test = "idle" /\ outcome = "COMPLETED"
      BY <1>1 DEF RunEnds
    <2>2. status[p].state \in Settled
      BY <2>1 DEF CheckpointsInv, PassedIsSettled
    <2> QED BY <1>3, <1>5, <2>2 DEF Settled, Open
  <1> QED BY <1>1, <1>5, <1>6, <1>7, <1>8, TestOverKeeps

\* A cancel keeps the invariant.
LEMMA CheckpointsCancelKeeps == CheckpointsInv /\ Cancel => CheckpointsInv'
  <1> SUFFICES ASSUME CheckpointsInv, Cancel PROVE CheckpointsInv'
    OBVIOUS
  <1> USE DEF CheckpointsInv, Cancel
  <1>1. TypeOK'
    BY DEF TypeOK
  <1>2. StackShape'
    BY DEF StackShape, FrameFits, RunsUnder, PlaceUnder, NextStep
  <1>3. FramesAgree'
    BY DEF FramesAgree, FrameCounts, FrameTaken, Looped, PlaceUnder
  <1>4. NowIsWaiting' /\ AttemptsAreAsks' /\ NoneLeftOpen' /\ PassedIsSettled'
    BY DEF NowIsWaiting, Waits, AttemptsAreAsks, NoneLeftOpen, PassedIsSettled, Looped
  <1>5. AheadOfRun' /\ PhasesSettled'
    BY DEF AheadOfRun, Started, PhasesSettled, Looped
  <1> QED BY <1>1, <1>2, <1>3, <1>4, <1>5

\* An interrupt, which unwinds the whole stack, keeps the invariant.
LEMMA InterruptKeeps == CheckpointsInv /\ Interrupt => CheckpointsInv'
  <1> SUFFICES ASSUME CheckpointsInv, Interrupt PROVE CheckpointsInv'
    OBVIOUS
  <1>1. /\ stack' = <<>> /\ test' = "interrupted" /\ status \in Statuses /\ stack \in Seq(Frames) /\ Len(stack) \in Nat
        /\ UNCHANGED <<missing, at, outcome, runs, cancelled, puts>>
    BY TypeFacts DEF Interrupt
  <1>2. status' \in Statuses /\ \A p \in Planned : status'[p].attempts = status[p].attempts /\ status'[p].state # "now"
    <2>1. CASE stack = <<>>
      <3>1. Len(stack) = 0 /\ 1..0 = {} /\ status' = status
        BY <2>1 DEF Interrupt
      <3> QED BY <1>1, <3>1 DEF CheckpointsInv, NowIsWaiting, Waits
    <2>2. CASE stack # <<>>
      <3>1. status' = Unwind
        BY <2>2 DEF Interrupt
      <3>2. UnwoundTo(status', Len(stack))
        BY <3>1, UnwoundFacts
      <3>3. \A i \in 1..Len(stack) : i > Len(stack) - Len(stack)
        BY <1>1
      <3>4. ASSUME NEW p \in Planned, status'[p].state = "now" PROVE FALSE
        <4>1. status[p].state = "now" /\ \A i \in 1..Len(stack) : stack[i].path # p
          BY <3>2, <3>3, <3>4 DEF UnwoundTo
        <4> QED BY <4>1 DEF CheckpointsInv, NowIsWaiting, Waits
      <3> QED BY <3>2, <3>4 DEF UnwoundTo
    <2> QED BY <2>1, <2>2
  <1>3. StackShape' /\ FramesAgree' /\ NowIsWaiting' /\ stack' \in Seq(Frames)
    BY <1>1, <1>2, NoFrames
  <1>4. TypeOK'
    BY <1>1, <1>2, <1>3 DEF CheckpointsInv, TypeOK, Statuses
  <1>5. AttemptsAreAsks' /\ NoneLeftOpen' /\ PassedIsSettled' /\ AheadOfRun' /\ PhasesSettled'
    BY <1>1, <1>2 DEF CheckpointsInv, AttemptsAreAsks, NoneLeftOpen, PassedIsSettled, AheadOfRun, PhasesSettled
  <1> QED BY <1>3, <1>4, <1>5 DEF CheckpointsInv

-----------------------------------------------------------------------------
\* The steps of a test, one by one.

LEMMA TopFacts ==
  ASSUME CheckpointsInv, stack # <<>>
  PROVE  /\ Top \in Frames /\ Top.path \in Paths /\ stack \in Seq(Frames) /\ status \in Statuses
         /\ FrameFits(Top) /\ FrameCounts(Top, status) /\ FrameTaken(Top, status)
         /\ Top.path \in Planned => (status[Top.path].state = "now" <=> Top.asked = "yes" /\ Top.answered # "yes")
         /\ \A p \in Planned : status[p].attempts = puts[p]
         /\ puts \in [Planned -> Nat] /\ Planned \subseteq Paths
  <1>1. Top \in Frames /\ Top = stack[Len(stack)] /\ Len(stack) \in 1..Len(stack) /\ stack \in Seq(Frames) /\ status \in Statuses
    BY TypeFacts
  <1>2. FrameFits(Top) /\ FrameCounts(Top, status) /\ FrameTaken(Top, status)
    BY <1>1 DEF CheckpointsInv, StackShape, FramesAgree
  <1>3. ASSUME Top.path \in Planned PROVE status[Top.path].state = "now" <=> Top.asked = "yes" /\ Top.answered # "yes"
    <2>1. status[Top.path].state = "now" <=> Waits(Top.path)
      BY <1>3 DEF CheckpointsInv, NowIsWaiting
    <2>2. \A i \in 1..Len(stack) : stack[i].path = Top.path => i = Len(stack)
      BY FramesApart
    <2> QED BY <1>1, <2>1, <2>2 DEF Waits
  <1> QED BY <1>1, <1>2, <1>3, CheckpointsAssumption DEF CheckpointsInv, AttemptsAreAsks, TypeOK, Frames

\* A step of which nothing is put, answered or done.
LEMMA QuietTopKeeps ==
  ASSUME CheckpointsInv, stack # <<>>, NEW f \in Frames,
         stack' = [stack EXCEPT ![Len(stack)] = f] \/ stack' = Append(Front(stack), f),
         UNCHANGED <<missing, status, test, at, outcome, runs, cancelled, puts>>,
         f.path = Top.path, f.stage = "running", f.attempt = Top.attempt, f.asked = Top.asked,
         f.answered = "yes" <=> Top.answered = "yes",
         f.laps = Top.laps, f.branch = Top.branch, f.done = Top.done, f.last \in {Top.last, "FAILED"}
  PROVE  CheckpointsInv'
  <1>1. /\ Top \in Frames /\ Top.path \in Paths /\ stack \in Seq(Frames) /\ status \in Statuses
        /\ FrameFits(Top) /\ FrameCounts(Top, status) /\ FrameTaken(Top, status)
        /\ Top.path \in Planned => (status[Top.path].state = "now" <=> Top.asked = "yes" /\ Top.answered # "yes")
        /\ \A p \in Planned : status[p].attempts = puts[p]
        /\ puts \in [Planned -> Nat]
    BY TopFacts
  <1>2. OnTop(f)
    BY <1>1, OnTopSet
  <1>3. FrameFits(f) /\ FrameCounts(f, status') /\ FrameTaken(f, status')
    BY <1>1 DEF FrameFits, FrameCounts, FrameTaken
  <1> QED BY <1>1, <1>2, <1>3, OnTopKeeps

\* A question is put for the step on top, which had none yet.
LEMMA AskTopKeeps ==
  ASSUME CheckpointsInv, stack # <<>>, Top.asked = "no", NEW f \in Frames, Ask(Front(stack), f),
         UNCHANGED <<missing, test, at, outcome, runs, cancelled>>,
         f.path = Top.path, f.stage = "running", f.attempt = Top.attempt, f.answered # "yes",
         f.laps = Top.laps, f.branch = Top.branch, f.done = Top.done, f.last = Top.last
  PROVE  CheckpointsInv'
  <1> DEFINE g == [f EXCEPT !.asked = "yes"]
  <1>1. /\ Top \in Frames /\ Top.path \in Paths /\ stack \in Seq(Frames) /\ status \in Statuses
        /\ FrameFits(Top) /\ FrameCounts(Top, status) /\ FrameTaken(Top, status)
        /\ Top.path \in Planned => (status[Top.path].state = "now" <=> Top.asked = "yes" /\ Top.answered # "yes")
        /\ \A p \in Planned : status[p].attempts = puts[p]
        /\ puts \in [Planned -> Nat] /\ Planned \subseteq Paths
    BY TopFacts
  <1>2. /\ g \in Frames /\ g.asked = "yes" /\ g.path = f.path /\ g.stage = f.stage /\ g.attempt = f.attempt
        /\ g.answered = f.answered /\ g.laps = f.laps /\ g.branch = f.branch /\ g.done = f.done /\ g.last = f.last
    BY DEF Frames
  <1>3. stack' = Append(Front(stack), g)
        /\ IF f.path \in Planned
           THEN /\ status' = [status EXCEPT ![f.path] = [state |-> "now", attempts |-> f.attempt]]
                /\ puts' = [puts EXCEPT ![f.path] = @ + 1]
           ELSE UNCHANGED <<status, puts>>
    BY DEF Ask
  <1> HIDE DEF g
  <1>4. OnTop(g)
    BY <1>1, <1>2, <1>3, OnTopSet
  <1>5. f.attempt \in Nat
    BY DEF Frames
  <1>6. /\ status' \in Statuses /\ puts' \in [Planned -> Nat]
        /\ \A p \in Planned : p # Top.path => status'[p] = status[p] /\ puts'[p] = puts[p]
        /\ Top.path \in Planned => /\ status'[Top.path].state = "now" /\ status'[Top.path].attempts = f.attempt
                                   /\ puts'[Top.path] = puts[Top.path] + 1
    <2>1. CASE f.path \in Planned
      <3> DEFINE c == [state |-> "now", attempts |-> f.attempt]
      <3>1. c \in [state : States, attempts : Nat] /\ c.state = "now" /\ c.attempts = f.attempt
        BY <1>5 DEF States
      <3>2. status' = [status EXCEPT ![Top.path] = c] /\ puts' = [puts EXCEPT ![Top.path] = @ + 1] /\ Top.path \in Planned
        BY <1>3, <2>1
      <3> HIDE DEF c
      <3>3. status' \in Statuses /\ status'[Top.path] = c /\ \A p \in Planned : p # Top.path => status'[p] = status[p]
        BY <1>1, <3>1, <3>2 DEF Statuses
      <3>4. /\ puts' \in [Planned -> Nat] /\ puts'[Top.path] = puts[Top.path] + 1
            /\ \A p \in Planned : p # Top.path => puts'[p] = puts[p]
        BY <1>1, <3>2
      <3> QED BY <3>1, <3>3, <3>4
    <2>2. CASE f.path \notin Planned
      BY <1>1, <1>3, <2>2
    <2> QED BY <2>1, <2>2
  <1>7. FrameFits(g)
    BY <1>1, <1>2 DEF FrameFits
  <1>8. FrameCounts(g, status')
    BY <1>2, <1>5, <1>6 DEF FrameCounts
  <1>9. FrameTaken(g, status')
    <2>1. \A p \in Planned : IsStrictPrefix(Top.path, p) => status'[p] = status[p]
      BY <1>6 DEF IsStrictPrefix
    <2> QED BY <1>1, <1>2, <2>1 DEF FrameTaken
  <1>10. \A p \in Planned : status'[p].attempts = puts'[p]
    BY <1>1, <1>6 DEF FrameCounts
  <1>11. \A p \in Planned : status'[p] # status[p] => IsPrefix(Top.path, p)
    BY <1>1, <1>6, UnderItself
  <1> QED BY <1>2, <1>4, <1>6, <1>7, <1>8, <1>9, <1>10, <1>11, OnTopKeeps

\* A step that begins keeps the invariant.
LEMMA BeginStepKeeps == CheckpointsInv /\ BeginStep => CheckpointsInv'
  <1> SUFFICES ASSUME CheckpointsInv, BeginStep PROVE CheckpointsInv'
    OBVIOUS
  <1> DEFINE f == [Top EXCEPT !.stage = "running"]
  <1>1. stack # <<>> /\ Top.stage = "opened" /\ UNCHANGED <<missing, test, at, outcome, runs, cancelled>>
        /\ Begin(<<>>, f)
    BY DEF BeginStep
  <1>2. /\ Top \in Frames /\ FrameFits(Top) /\ stack \in Seq(Frames)
    BY <1>1, TopFacts
  <1>3. /\ f \in Frames /\ f.stage = "running" /\ f.path = Top.path /\ f.attempt = Top.attempt
        /\ f.asked = Top.asked /\ f.answered = Top.answered
        /\ f.laps = Top.laps /\ f.branch = Top.branch /\ f.done = Top.done /\ f.last = Top.last
    BY <1>2 DEF Frames
  <1>4. Top.asked = "no" /\ Top.answered = "no"
    BY <1>1, <1>2 DEF FrameFits
  <1>5. Front(stack) = <<>>
    <2>1. Top = stack[Len(stack)] /\ Len(stack) \in 1..Len(stack)
      BY <1>1, TypeFacts
    <2>2. Len(stack) = 1
      BY <1>1, <2>1 DEF CheckpointsInv, StackShape
    <2>3. SubSeq(stack, 1, 0) = <<>>
      BY SubSeqEmpty
    <2> QED BY <2>2, <2>3 DEF Front
  <1> HIDE DEF f
  <1>6. CASE f.path \in Planned \ Asks
    <2>1. Ask(Front(stack), f)
      BY <1>1, <1>5, <1>6 DEF Begin
    <2> QED BY <1>1, <1>3, <1>4, <2>1, AskTopKeeps
  <1>7. CASE f.path \notin Planned \ Asks
    <2>1. stack' = Append(Front(stack), f) /\ UNCHANGED <<status, puts>>
      BY <1>1, <1>5, <1>7 DEF Begin
    <2> QED BY <1>1, <1>3, <2>1, QuietTopKeeps
  <1> QED BY <1>6, <1>7

\* A question that is put keeps the invariant.
LEMMA AskedKeeps == CheckpointsInv /\ Asked => CheckpointsInv'
  <1> SUFFICES ASSUME CheckpointsInv, Asked PROVE CheckpointsInv'
    OBVIOUS
  <1> DEFINE f == [Top EXCEPT !.open = "yes"]
  <1>1. /\ stack # <<>> /\ Top.stage = "running" /\ Top.answered = "no"
        /\ UNCHANGED <<missing, test, at, outcome, runs, cancelled>>
        /\ IF Top.asked = "no" THEN Ask(Front(stack), f)
           ELSE stack' = [stack EXCEPT ![Len(stack)] = f] /\ UNCHANGED <<status, puts>>
    BY DEF Asked, Running, SetTop
  <1>2. Top \in Frames
    BY <1>1, TopFacts
  <1>3. /\ f \in Frames /\ f.stage = Top.stage /\ f.path = Top.path /\ f.attempt = Top.attempt
        /\ f.asked = Top.asked /\ f.answered = Top.answered
        /\ f.laps = Top.laps /\ f.branch = Top.branch /\ f.done = Top.done /\ f.last = Top.last
    BY <1>2 DEF Frames
  <1> HIDE DEF f
  <1>4. CASE Top.asked = "no"
    <2>1. Ask(Front(stack), f) /\ f.answered # "yes"
      BY <1>1, <1>3, <1>4
    <2> QED BY <1>1, <1>3, <1>4, <2>1, AskTopKeeps
  <1>5. CASE Top.asked # "no"
    <2>1. stack' = [stack EXCEPT ![Len(stack)] = f] /\ UNCHANGED <<status, puts>>
      BY <1>1, <1>5
    <2> QED BY <1>1, <1>3, <2>1, QuietTopKeeps
  <1> QED BY <1>4, <1>5

\* A question suspended by a hold keeps the invariant.
LEMMA SuspendedKeeps == CheckpointsInv /\ Suspended => CheckpointsInv'
  <1> SUFFICES ASSUME CheckpointsInv, Suspended PROVE CheckpointsInv'
    OBVIOUS
  <1> DEFINE n == Top.pauses + 1
             f == [Top EXCEPT !.open = "no", !.pauses = n]
  <1>1. /\ stack # <<>> /\ Top.stage = "running" /\ Top.pauses < MaxPauses
        /\ UNCHANGED <<missing, status, test, at, outcome, runs, cancelled, puts>>
        /\ stack' = [stack EXCEPT ![Len(stack)] = f]
    BY DEF Suspended, Running, SetTop
  <1>2. Top \in Frames
    BY <1>1, TopFacts
  <1>3. n \in 0..MaxPauses
    BY <1>1, <1>2, CheckpointsAssumption DEF Frames
  <1> HIDE DEF n
  <1>4. /\ f \in Frames /\ f.stage = Top.stage /\ f.path = Top.path /\ f.attempt = Top.attempt
        /\ f.asked = Top.asked /\ f.answered = Top.answered
        /\ f.laps = Top.laps /\ f.branch = Top.branch /\ f.done = Top.done /\ f.last = Top.last
    BY <1>2, <1>3 DEF Frames
  <1> HIDE DEF f
  <1> QED BY <1>1, <1>4, QuietTopKeeps

\* A question that is refused keeps the invariant.
LEMMA RefusedKeeps == CheckpointsInv /\ Refused => CheckpointsInv'
  <1> SUFFICES ASSUME CheckpointsInv, Refused PROVE CheckpointsInv'
    OBVIOUS
  <1> DEFINE f == [Top EXCEPT !.open = "no", !.answered = "refused"]
  <1>1. /\ stack # <<>> /\ Top.stage = "running" /\ Top.answered = "no"
        /\ UNCHANGED <<missing, status, test, at, outcome, runs, cancelled, puts>>
        /\ stack' = [stack EXCEPT ![Len(stack)] = f]
    BY DEF Refused, Running, SetTop
  <1>2. Top \in Frames
    BY <1>1, TopFacts
  <1>3. /\ f \in Frames /\ f.stage = Top.stage /\ f.path = Top.path /\ f.attempt = Top.attempt
        /\ f.asked = Top.asked /\ f.answered = "refused"
        /\ f.laps = Top.laps /\ f.branch = Top.branch /\ f.done = Top.done /\ f.last = Top.last
    BY <1>2 DEF Frames
  <1> HIDE DEF f
  <1> QED BY <1>1, <1>3, QuietTopKeeps

\* A question that is answered keeps the invariant.
LEMMA AnsweredKeeps == CheckpointsInv /\ Answered => CheckpointsInv'
  <1> SUFFICES ASSUME CheckpointsInv, Answered PROVE CheckpointsInv'
    OBVIOUS
  <1> DEFINE f == [Top EXCEPT !.open = "no", !.answered = "yes"]
  <1>1. /\ stack # <<>> /\ Top.stage = "running" /\ Top.asked = "yes"
        /\ UNCHANGED <<missing, test, at, outcome, runs, cancelled, puts>>
        /\ stack' = [stack EXCEPT ![Len(stack)] = f]
        /\ status' = IF Top.path \in Planned THEN [status EXCEPT ![Top.path].state = "cleared"] ELSE status
    BY DEF Answered, Running, SetTop
  <1>2. /\ Top \in Frames /\ Top.path \in Paths /\ stack \in Seq(Frames) /\ status \in Statuses
        /\ FrameFits(Top) /\ FrameCounts(Top, status) /\ FrameTaken(Top, status)
        /\ \A p \in Planned : status[p].attempts = puts[p]
        /\ puts \in [Planned -> Nat] /\ Planned \subseteq Paths
    BY <1>1, TopFacts
  <1>3. /\ f \in Frames /\ f.stage = Top.stage /\ f.path = Top.path /\ f.attempt = Top.attempt
        /\ f.asked = Top.asked /\ f.answered = "yes"
        /\ f.laps = Top.laps /\ f.branch = Top.branch /\ f.done = Top.done /\ f.last = Top.last
    BY <1>2 DEF Frames
  <1> HIDE DEF f
  <1>4. OnTop(f)
    BY <1>1, <1>2, <1>3, OnTopSet
  <1>5. /\ status' \in Statuses
        /\ \A p \in Planned : p # Top.path => status'[p] = status[p]
        /\ Top.path \in Planned => /\ status'[Top.path].state = "cleared"
                                   /\ status'[Top.path].attempts = status[Top.path].attempts
    BY <1>1, <1>2 DEF Statuses, States
  <1>6. FrameFits(f) /\ FrameCounts(f, status')
    BY <1>1, <1>2, <1>3, <1>5 DEF FrameFits, FrameCounts
  <1>7. FrameTaken(f, status')
    <2>1. \A p \in Planned : IsStrictPrefix(Top.path, p) => status'[p] = status[p]
      BY <1>5 DEF IsStrictPrefix
    <2> QED BY <1>2, <1>3, <2>1 DEF FrameTaken
  <1>8. \A p \in Planned : status'[p].attempts = puts'[p]
    BY <1>1, <1>2, <1>5
  <1>9. \A p \in Planned : status'[p] # status[p] => IsPrefix(Top.path, p)
    BY <1>2, <1>5, UnderItself
  <1> QED BY <1>1, <1>2, <1>3, <1>4, <1>5, <1>6, <1>7, <1>8, <1>9, OnTopKeeps

\* A frame with a new lap.
Lapped(f, key) == [f EXCEPT !.branch = key, !.laps = @ + 1, !.done = 0, !.last = "PASSED"]

\* A new lap of a flow step is a frame with nothing done in it.
LEMMA LapFrame ==
  ASSUME NEW f \in Frames, NEW key \in {"then", "else", "steps"}
  PROVE  LET g == Lapped(f, key)
         IN  /\ g \in Frames /\ g.stage = f.stage /\ g.path = f.path /\ g.attempt = f.attempt
             /\ g.asked = f.asked /\ g.answered = f.answered
             /\ g.laps = f.laps + 1 /\ g.branch = key /\ g.done = 0
  <1> DEFINE n == f.laps + 1
             g == [f EXCEPT !.branch = key, !.laps = n, !.done = 0, !.last = "PASSED"]
  <1>1. n \in Nat
    BY DEF Frames
  <1> HIDE DEF n
  <1>2. /\ g \in Frames /\ g.stage = f.stage /\ g.path = f.path /\ g.attempt = f.attempt
        /\ g.asked = f.asked /\ g.answered = f.answered
        /\ g.laps = n /\ g.branch = key /\ g.done = 0
    BY <1>1 DEF Frames
  <1> QED BY <1>2 DEF n, Lapped

\* A flow step starts over, on one of its lists: the others, if any, are not superseded.
LEMMA LapKeeps ==
  ASSUME CheckpointsInv, stack # <<>>, Top.stage = "running", NEW key \in {"then", "else", "steps"},
         key \in Lists(Uses[Top.path]), NewLap(key), status' \in Statuses,
         \A p \in Planned : status'[p].attempts = status[p].attempts,
         \A p \in Planned : status'[p] # status[p] =>
             IsStrictPrefix(Top.path, p) /\ status[p].state # "now" /\ status'[p].state # "now",
         \A p \in Planned, other \in Lists(Uses[Top.path]) :
             other # key /\ IsStrictPrefix(Top.path, p) /\ PlaceUnder(Top.path, p)[1] = other
             => status'[p].state \notin Superseded
  PROVE  CheckpointsInv'
  <1> DEFINE f == Lapped(Top, key)
  <1>1. /\ UNCHANGED <<missing, test, at, outcome, runs, cancelled, puts>>
        /\ stack' = [stack EXCEPT ![Len(stack)] = f]
    BY DEF NewLap, SetTop, Lapped
  <1>2. /\ Top \in Frames /\ Top.path \in Paths /\ stack \in Seq(Frames) /\ status \in Statuses
        /\ FrameFits(Top) /\ FrameCounts(Top, status)
        /\ Top.path \in Planned => (status[Top.path].state = "now" <=> Top.asked = "yes" /\ Top.answered # "yes")
        /\ \A p \in Planned : status[p].attempts = puts[p]
        /\ puts \in [Planned -> Nat] /\ Planned \subseteq Paths
    BY TopFacts
  <1>3. /\ f \in Frames /\ f.stage = Top.stage /\ f.path = Top.path /\ f.attempt = Top.attempt
        /\ f.asked = Top.asked /\ f.answered = Top.answered
        /\ f.laps = Top.laps + 1 /\ f.branch = key /\ f.done = 0
    BY <1>2, LapFrame
  <1> HIDE DEF f
  <1>4. OnTop(f)
    BY <1>1, <1>2, <1>3, OnTopSet
  <1>5. \A p \in Planned : status'[p] # status[p] => IsPrefix(Top.path, p)
    BY DEF IsStrictPrefix
  <1>6. Top.path \in Planned => status'[Top.path] = status[Top.path]
    BY DEF IsStrictPrefix
  <1>7. FrameFits(f) /\ FrameCounts(f, status')
    BY <1>2, <1>3, <1>6 DEF FrameFits, FrameCounts
  <1>8. FrameTaken(f, status')
    <2> SUFFICES ASSUME NEW p \in Planned, IsStrictPrefix(Top.path, p)
                 PROVE  IF PlaceUnder(Top.path, p)[1] = key
                        THEN PlaceUnder(Top.path, p)[2] <= 0 => status'[p].state \in Settled
                        ELSE status'[p].state \notin Superseded
      BY <1>3 DEF FrameTaken
    <2>1. PlaceUnder(Top.path, p) \in Places /\ PlaceUnder(Top.path, p)[1] \in Lists(Uses[Top.path])
      BY <1>2, NextUnder DEF PlaceUnder
    <2>2. PlaceUnder(Top.path, p)[2] \in Nat \ {0}
      BY <2>1, PlaceType
    <2>3. ~(PlaceUnder(Top.path, p)[2] <= 0)
      BY <2>2
    <2> QED BY <2>1, <2>3
  <1>9. \A p \in Planned : status'[p].attempts = puts'[p]
    BY <1>1, <1>2
  <1>10. \A p \in Planned : p # Top.path => (status'[p].state = "now" <=> status[p].state = "now")
    OBVIOUS
  <1>11. Top.path \in Planned => (status'[Top.path].state = "now" <=> f.asked = "yes" /\ f.answered # "yes")
    BY <1>2, <1>3, <1>6
  <1> QED BY <1>1, <1>2, <1>3, <1>4, <1>5, <1>7, <1>8, <1>9, <1>10, <1>11, OnTopKeeps

\* The branch an if takes keeps the invariant.
LEMMA TakeBranchKeeps ==
  ASSUME CheckpointsInv, NEW key \in {"then", "else"}, NEW other \in {"then", "else"}, key # other,
         TakeBranch(key, other)
  PROVE  CheckpointsInv'
  <1>1. stack # <<>> /\ Top.stage = "running" /\ Uses[Top.path] = "if" /\ status' = NotTaken(other) /\ NewLap(key)
    BY DEF TakeBranch, Running
  <1>2. Lists(Uses[Top.path]) = {"then", "else"}
    BY <1>1 DEF Lists
  <1>3. status \in Statuses
    BY TypeFacts
  <1>4. \A p \in Planned : p \in UnderList(Top.path, other)
                           <=> IsStrictPrefix(Top.path, p) /\ PlaceUnder(Top.path, p)[1] = other
    BY DEF UnderList, PlaceUnder
  <1> DEFINE G == [p \in Planned |-> IF p \in UnderList(Top.path, other) /\ status[p].state \in Superseded
                                     THEN "skipped" ELSE status[p].state]
  <1>5. ASSUME NEW p \in Planned
        PROVE  /\ status'[p] \in [state : States, attempts : Nat]
               /\ status'[p].attempts = status[p].attempts /\ status'[p].state = G[p]
               /\ status'[p] # status[p] => p \in UnderList(Top.path, other) /\ status[p].state \in Superseded
    <2>1. status[p] \in [state : States, attempts : Nat]
      BY <1>3 DEF Statuses
    <2>2. status'[p] = IF p \in UnderList(Top.path, other) /\ status[p].state \in Superseded
                       THEN [status[p] EXCEPT !.state = "skipped"] ELSE status[p]
      BY <1>1 DEF NotTaken
    <2> DEFINE x == status[p]
    <2>3. G[p] = IF p \in UnderList(Top.path, other) /\ x.state \in Superseded THEN "skipped" ELSE x.state
      OBVIOUS
    <2> HIDE DEF x, G
    <2>4. /\ [x EXCEPT !.state = "skipped"] \in [state : States, attempts : Nat]
          /\ [x EXCEPT !.state = "skipped"].state = "skipped"
          /\ [x EXCEPT !.state = "skipped"].attempts = x.attempts
      BY <2>1 DEF x, States
    <2> QED BY <2>1, <2>2, <2>3, <2>4 DEF x
  <1> HIDE DEF G
  <1>6. status' \in Statuses
    <2>1. status' = [p \in Planned |-> status'[p]]
      BY <1>1 DEF NotTaken
    <2> QED BY <1>5, <2>1 DEF Statuses
  <1>7. ASSUME NEW p \in Planned, status'[p] # status[p]
        PROVE  IsStrictPrefix(Top.path, p) /\ status[p].state # "now" /\ status'[p].state # "now"
    BY <1>4, <1>5, <1>7 DEF G, Superseded
  <1>8. ASSUME NEW p \in Planned, NEW o \in Lists(Uses[Top.path]), o # key, IsStrictPrefix(Top.path, p),
               PlaceUnder(Top.path, p)[1] = o
        PROVE  status'[p].state \notin Superseded
    <2>1. o = other
      BY <1>2, <1>8
    <2>2. p \in UnderList(Top.path, other)
      BY <1>4, <1>8, <2>1
    <2> QED BY <1>5, <2>2 DEF G, Superseded
  <1> QED BY <1>1, <1>2, <1>5, <1>6, <1>7, <1>8, LapKeeps

\* The next try of a retry and the next item of a loop keep the invariant.
LEMMA LoopKeeps ==
  ASSUME CheckpointsInv, Try \/ NextItem
  PROVE  CheckpointsInv'
  <1>1. /\ stack # <<>> /\ Top.stage = "running" /\ Uses[Top.path] \in {"retry", "each"}
        /\ NewLap("steps") /\ UNCHANGED status
    BY DEF Try, NextItem, Running
  <1>2. Lists(Uses[Top.path]) = {"steps"}
    BY <1>1 DEF Lists
  <1>3. status' \in Statuses
    BY <1>1, TypeFacts
  <1> QED BY <1>1, <1>2, <1>3, LapKeeps

\* A new frame.
LEMMA NewFrameIs ==
  ASSUME CheckpointsInv, NEW p \in Paths, NEW stage \in {"opened", "running"}
  PROVE  LET f == NewFrame(p, stage)
         IN  /\ f \in Frames /\ f.path = p /\ f.stage = stage /\ f.asked = "no" /\ f.answered = "no"
             /\ f.laps = 0 /\ f.last = "PASSED"
             /\ p \in Planned => f.attempt = status[p].attempts + 1
  <1> DEFINE a == IF p \in Planned THEN status[p].attempts + 1 ELSE 0
             c == IF Uses[p] \in {"retry", "each"} THEN "steps" ELSE "none"
             f == NewFrame(p, stage)
  <1>1. a \in Nat
    <2>1. ASSUME p \in Planned PROVE status[p].attempts \in Nat
      BY <2>1, TypeFacts DEF Statuses
    <2> QED BY <2>1
  <1>2. c \in {"none", "steps"} /\ MaxPauses \in Nat /\ 0 \in 0..MaxPauses
    BY CheckpointsAssumption
  <1>3. f = [path |-> p, attempt |-> a, stage |-> stage, asked |-> "no", open |-> "no", answered |-> "no",
             pauses |-> 0, branch |-> c, laps |-> 0, done |-> 0, last |-> "PASSED"]
    BY DEF NewFrame
  <1> HIDE DEF a, c, f
  <1>4. f \in Frames /\ f.path = p /\ f.stage = stage /\ f.asked = "no" /\ f.answered = "no"
        /\ f.laps = 0 /\ f.last = "PASSED" /\ f.attempt = a
    BY <1>1, <1>2, <1>3 DEF Frames
  <1> QED BY <1>4 DEF a, f

\* A step of the phase that is opened keeps the invariant.
LEMMA OpenStepKeeps == CheckpointsInv /\ OpenStep => CheckpointsInv'
  <1> SUFFICES ASSUME CheckpointsInv, OpenStep PROVE CheckpointsInv'
    OBVIOUS
  <1> DEFINE f == NewFrame(NextStep, "opened")
  <1>1. /\ test = "running" /\ stack = <<>> /\ NextStep \in Paths /\ stack' = <<f>>
        /\ UNCHANGED <<missing, status, test, at, outcome, runs, cancelled, puts>>
    BY DEF OpenStep
  <1>2. /\ f \in Frames /\ f.path = NextStep /\ f.stage = "opened" /\ f.asked = "no" /\ f.answered = "no"
        /\ f.laps = 0 /\ (NextStep \in Planned => f.attempt = status[NextStep].attempts + 1)
    BY <1>1, NewFrameIs
  <1> HIDE DEF f
  <1>3. stack' \in Seq(Frames) /\ Len(stack') = 1 /\ stack'[1] = f /\ stack' # <<>>
    BY <1>1, <1>2
  <1>4. \A i \in 1..Len(stack') : i = 1
    BY <1>3
  <1>5. TypeOK'
    BY <1>1, <1>3 DEF CheckpointsInv, TypeOK
  <1>6. StackShape'
    <2>1. NextStep' = NextStep
      BY <1>1 DEF NextStep
    <2>2. FrameFits(f)
      BY <1>2 DEF FrameFits
    <2>3. /\ \A i \in 1..Len(stack') : FrameFits(stack'[i]) /\ (stack'[i].stage = "opened" => Len(stack') = 1)
          /\ \A i, j \in 1..Len(stack') : ~(i < j) /\ ~(j = i + 1)
      <3>1. ~(1 < 1) /\ ~(1 = 1 + 1)
        OBVIOUS
      <3> QED BY <1>3, <1>4, <2>2, <3>1
    <2> QED BY <1>1, <1>2, <1>3, <2>1, <2>3 DEF StackShape, FrameFits
  <1>7. FramesAgree'
    <2>1. FrameCounts(f, status') /\ FrameTaken(f, status')
      BY <1>1, <1>2 DEF FrameCounts, FrameTaken
    <2>2. \A i \in 1..Len(stack') : FrameCounts(stack'[i], status') /\ FrameTaken(stack'[i], status')
      BY <1>3, <1>4, <2>1
    <2> QED BY <2>2 DEF FramesAgree, FrameCounts, FrameTaken, Looped, PlaceUnder
  <1>8. NowIsWaiting'
    <2>1. Len(stack) = 0 /\ 1..0 = {}
      BY <1>1
    <2>2. \A p \in Planned : status[p].state # "now"
      BY <2>1 DEF CheckpointsInv, NowIsWaiting, Waits
    <2> QED BY <1>1, <1>2, <1>3, <1>4, <2>2 DEF NowIsWaiting, Waits
  <1>9. AttemptsAreAsks' /\ NoneLeftOpen' /\ PassedIsSettled' /\ PhasesSettled'
    BY <1>1 DEF CheckpointsInv, AttemptsAreAsks, NoneLeftOpen, PassedIsSettled, PhasesSettled, Looped
  <1>10. AheadOfRun'
    <2>1. Started = 0 /\ Started' = 0
      BY <1>1, <1>2, <1>3 DEF Started
    <2> QED BY <1>1, <2>1 DEF CheckpointsInv, AheadOfRun
  <1> QED BY <1>5, <1>6, <1>7, <1>8, <1>9, <1>10 DEF CheckpointsInv

\* A nested step that is opened keeps the invariant.
LEMMA RunNestedKeeps == CheckpointsInv /\ RunNested => CheckpointsInv'
  <1> SUFFICES ASSUME CheckpointsInv, RunNested PROVE CheckpointsInv'
    OBVIOUS
  <1>1. /\ stack # <<>> /\ Top.stage = "running" /\ Top.laps > 0 /\ Top.last = "PASSED" /\ Child \in Paths
        /\ UNCHANGED <<missing, test, at, outcome, runs, cancelled>>
    BY DEF RunNested, Running
  <1>2. /\ Top \in Frames /\ stack \in Seq(Frames) /\ status \in Statuses
        /\ \A p \in Planned : status[p].attempts = puts[p]
        /\ puts \in [Planned -> Nat] /\ Planned \subseteq Paths
    BY <1>1, TopFacts
  <1>3. CASE Child \in missing
    <2> DEFINE g == [Top EXCEPT !.last = "FAILED"]
    <2>1. stack' = [stack EXCEPT ![Len(stack)] = g] /\ UNCHANGED <<status, puts>>
      BY <1>3 DEF RunNested, SetTop
    <2>2. /\ g \in Frames /\ g.stage = Top.stage /\ g.path = Top.path /\ g.attempt = Top.attempt
          /\ g.asked = Top.asked /\ g.answered = Top.answered
          /\ g.laps = Top.laps /\ g.branch = Top.branch /\ g.done = Top.done /\ g.last = "FAILED"
      BY <1>2 DEF Frames
    <2> HIDE DEF g
    <2> QED BY <1>1, <2>1, <2>2, QuietTopKeeps
  <1>4. CASE Child \notin missing
    <2> DEFINE f == NewFrame(Child, "running")
    <2>1. Begin(stack, f)
      BY <1>4 DEF RunNested
    <2>2. /\ f \in Frames /\ f.path = Child /\ f.stage = "running" /\ f.asked = "no" /\ f.answered = "no"
          /\ f.laps = 0 /\ f.last = "PASSED"
          /\ Child \in Planned => f.attempt = status[Child].attempts + 1
      BY <1>1, NewFrameIs
    <2> HIDE DEF f
    <2>3. Child \in Planned => status[Child].state # "now"
      <3> SUFFICES ASSUME Child \in Planned, status[Child].state = "now" PROVE FALSE
        OBVIOUS
      <3>1. PICK i \in 1..Len(stack) : stack[i].path = Child
        BY DEF CheckpointsInv, NowIsWaiting, Waits
      <3>2. ~IsStrictPrefix(Top.path, Child)
        BY <1>1, <3>1, FramesApart
      <3> DEFINE x == <<Top.branch, Top.done + 1>>
      <3>3. x \in Places
        <4>1. Top.branch \in Lists(Uses[Top.path])
          BY <1>1, TopFacts DEF FrameFits
        <4>2. Top.branch \in {"then", "else", "steps"}
          BY <4>1 DEF Lists
        <4>0. Top.done \in Nat
          BY <1>2 DEF Frames
        <4>3. Top.done + 1 \in Nat \ {0}
          BY <4>0
        <4> QED BY <4>2, <4>3 DEF Places
      <3>4. Child = Append(Top.path, x)
        BY DEF Child
      <3>5. Top.path \in Seq(Places)
        BY <1>1, TopFacts, PathType
      <3> HIDE DEF x
      <3> QED BY <3>2, <3>3, <3>4, <3>5, LongerIs
    <2>4. CASE f.path \in Planned \ Asks
      <3> DEFINE g == [f EXCEPT !.asked = "yes"]
                 c == [state |-> "now", attempts |-> f.attempt]
      <3>1. /\ stack' = Append(stack, g)
            /\ status' = [status EXCEPT ![Child] = c] /\ puts' = [puts EXCEPT ![Child] = @ + 1]
        BY <2>1, <2>2, <2>4 DEF Begin, Ask
      <3>2. /\ g \in Frames /\ g.path = Child /\ g.stage = "running" /\ g.asked = "yes" /\ g.answered = "no"
            /\ g.laps = 0 /\ g.attempt = f.attempt
        BY <2>2 DEF Frames
      <3>3. f.attempt \in Nat
        BY <2>2 DEF Frames
      <3>4. c \in [state : States, attempts : Nat] /\ c.state = "now" /\ c.attempts = f.attempt
        BY <3>3 DEF States
      <3> HIDE DEF g, c
      <3>5. Child \in Planned
        BY <2>2, <2>4
      <3>6. status' \in Statuses /\ status'[Child] = c /\ \A p \in Planned : p # Child => status'[p] = status[p]
        BY <1>2, <3>1, <3>4, <3>5 DEF Statuses
      <3>7. /\ puts' \in [Planned -> Nat] /\ puts'[Child] = puts[Child] + 1
            /\ \A p \in Planned : p # Child => puts'[p] = puts[p]
        BY <1>2, <3>1, <3>5
      <3>8. FrameCounts(g, status')
        BY <3>2, <3>3, <3>4, <3>6 DEF FrameCounts
      <3>9. \A p \in Planned : status'[p].attempts = puts'[p]
        BY <1>2, <2>2, <3>4, <3>5, <3>6, <3>7
      <3> QED BY <1>1, <3>1, <3>2, <3>4, <3>6, <3>7, <3>8, <3>9, PushKeeps
    <2>5. CASE f.path \notin Planned \ Asks
      <3>1. stack' = Append(stack, f) /\ UNCHANGED <<status, puts>>
        BY <2>1, <2>5 DEF Begin
      <3>2. FrameCounts(f, status')
        BY <2>2, <3>1 DEF FrameCounts
      <3> QED BY <1>1, <1>2, <2>2, <2>3, <3>1, <3>2, PushKeeps
    <2> QED BY <2>4, <2>5
  <1> QED BY <1>3, <1>4

-----------------------------------------------------------------------------
\* Every step keeps the invariant of the checkpoints.
LEMMA CheckpointsNext == CheckpointsInv /\ [Next]_vars => CheckpointsInv'
  <1> SUFFICES ASSUME CheckpointsInv, [Next]_vars PROVE CheckpointsInv'
    OBVIOUS
  <1>1. CASE TestStarts BY <1>1, TestStartsKeeps
  <1>2. CASE TestSkipped BY <1>2, TestSkippedKeeps
  <1>3. CASE NextPhase BY <1>3, NextPhaseKeeps
  <1>4. CASE TestEnds BY <1>4, TestEndsKeeps
  <1>5. CASE Interrupt BY <1>5, InterruptKeeps
  <1>6. CASE Cancel BY <1>6, CheckpointsCancelKeeps
  <1>7. CASE RunEnds BY <1>7, RunEndsKeeps
  <1>8. CASE OpenStep BY <1>8, OpenStepKeeps
  <1>9. CASE ConditionSaysNo
    <2>1. stack # <<>> /\ Top.stage = "opened" /\ EndStep("SKIPPED")
      BY <1>9 DEF ConditionSaysNo
    <2> QED BY <2>1, ConditionEndsSettled, EndKeeps
  <1>10. CASE NoImplementation
    <2>1. stack # <<>> /\ EndStep("FAILED") /\ EndsSettled("FAILED")
      BY <1>10 DEF NoImplementation, EndsSettled
    <2> QED BY <2>1, EndKeeps
  <1>11. CASE BeginStep BY <1>11, BeginStepKeeps
  <1>12. CASE Asked BY <1>12, AskedKeeps
  <1>13. CASE Suspended BY <1>13, SuspendedKeeps
  <1>14. CASE Answered BY <1>14, AnsweredKeeps
  <1>15. CASE Refused BY <1>15, RefusedKeeps
  <1>16. ASSUME NEW result \in {"PASSED", "FAILED"}, LeafEnds(result) PROVE CheckpointsInv'
    <2>1. Running({"wait", "act"}) /\ EndStep(result)
      BY <1>16 DEF LeafEnds
    <2>2. EndsSettled(result) /\ stack # <<>>
      BY <2>1, LeafEndsSettled DEF Running
    <2> QED BY <2>1, <2>2, EndKeeps
  <1>17. ASSUME NEW result \in {"PASSED", "FAILED"}, FlowEnds(result) PROVE CheckpointsInv'
    <2>1. stack # <<>> /\ EndStep(result)
      BY <1>17 DEF FlowEnds, Running
    <2> QED BY <1>17, <2>1, FlowEndsSettled, EndKeeps
  <1>18. CASE TakeBranch("then", "else") BY <1>18, TakeBranchKeeps
  <1>19. CASE TakeBranch("else", "then") BY <1>19, TakeBranchKeeps
  <1>20. CASE Try \/ NextItem BY <1>20, LoopKeeps
  <1>21. CASE RunNested BY <1>21, RunNestedKeeps
  <1>22. CASE UNCHANGED vars
    <2> USE <1>22 DEF CheckpointsInv, vars
    <2>1. TypeOK'
      BY DEF TypeOK
    <2>2. StackShape'
      BY DEF StackShape, FrameFits, RunsUnder, PlaceUnder, NextStep
    <2>3. FramesAgree'
      BY DEF FramesAgree, FrameCounts, FrameTaken, Looped, PlaceUnder
    <2>4. NowIsWaiting' /\ AttemptsAreAsks' /\ NoneLeftOpen' /\ PassedIsSettled'
      BY DEF NowIsWaiting, Waits, AttemptsAreAsks, NoneLeftOpen, PassedIsSettled, Looped
    <2>5. AheadOfRun' /\ PhasesSettled'
      BY DEF AheadOfRun, Started, PhasesSettled, Looped
    <2> QED BY <2>1, <2>2, <2>3, <2>4, <2>5
  <1> QED
    BY <1>1, <1>2, <1>3, <1>4, <1>5, <1>6, <1>7, <1>8, <1>9, <1>10, <1>11, <1>12, <1>13, <1>14, <1>15,
       <1>16, <1>17, <1>18, <1>19, <1>20, <1>21, <1>22 DEF Next, Done

\* The states and attempts of the checkpoints always agree with the stack of the steps that run, and
\* with how far the phases have come (player/checkpoints).
THEOREM CheckpointsAlways == Spec => []CheckpointsInv
  <1> QED BY CheckpointsInit, CheckpointsNext, PTL DEF Spec

\* What the operator is shown of the checkpoints of a test is so, however its steps nest,
\* end, are tried again and are interrupted (CheckpointTracker).
THEOREM OperatorSeesWhatIs == Spec => []ShownAsItIs
  <1> QED BY CheckpointsAlways, InvShows, PTL

-----------------------------------------------------------------------------
\* An answer is kept until its own step runs again.
KeepsAnswers ==
    \A p \in Planned :
        status[p].state = "cleared" /\ status'[p].state # "cleared"
        => \/ test # "running" /\ test' = "running"
           \/ \E i \in DOMAIN stack : stack[i].path = p
           \/ \E i \in DOMAIN stack' : stack'[i].path = p

\* The end of a step takes no answer back.
LEMMA EndKeepsAnswers ==
  ASSUME CheckpointsInv, stack # <<>>, NEW result, EndStep(result)
  PROVE  KeepsAnswers
  <1>1. status \in Statuses /\ Top \in Frames /\ Top = stack[Len(stack)] /\ Len(stack) \in 1..Len(stack)
        /\ DOMAIN stack = 1..Len(stack)
    BY TypeFacts
  <1>2. status' = Ended(status, Top, result)
    BY DEF EndStep
  <1>3. \A p \in Planned : p # Top.path => status'[p].state = status[p].state \/ status[p].state \in Open
    BY <1>1, <1>2, EndedFacts
  <1>4. \A p \in Planned : p = Top.path => \E i \in DOMAIN stack : stack[i].path = p
    BY <1>1
  <1> QED BY <1>3, <1>4 DEF KeepsAnswers, Open

\* A frame that asks takes no answer back.
LEMMA AskKeepsAnswers ==
  ASSUME CheckpointsInv, NEW below, below \in Seq(Frames), NEW f \in Frames, Ask(below, f)
  PROVE  KeepsAnswers
  <1> DEFINE g == [f EXCEPT !.asked = "yes"]
  <1>1. stack' = Append(below, g) /\ g \in Frames /\ g.path = f.path
    BY DEF Ask, Frames
  <1> HIDE DEF g
  <1>2. Len(below) + 1 \in DOMAIN stack' /\ stack'[Len(below) + 1] = g
    BY <1>1
  <1>3. status \in Statuses
    BY TypeFacts
  <1>4. \A p \in Planned : p # f.path => status'[p] = status[p]
    BY <1>3 DEF Ask, Statuses
  <1> QED BY <1>1, <1>2, <1>4 DEF KeepsAnswers

\* No step takes an answer back.
LEMMA StepKeepsAnswers == CheckpointsInv /\ [Next]_vars => KeepsAnswers
  <1> SUFFICES ASSUME CheckpointsInv, [Next]_vars PROVE KeepsAnswers
    OBVIOUS
  <1>0. status \in Statuses /\ stack \in Seq(Frames) /\ DOMAIN stack = 1..Len(stack)
        /\ (stack # <<>> => Top = stack[Len(stack)] /\ Len(stack) \in 1..Len(stack) /\ Top \in Frames)
    BY TypeFacts
  <1>1. CASE UNCHANGED status
    BY <1>1 DEF KeepsAnswers
  <1>2. CASE TestStarts
    BY <1>2 DEF KeepsAnswers, TestStarts
  <1>3. ASSUME NEW G, \A p \in Planned : G[p] \in States /\ (status[p].state \notin Open => G[p] = status[p].state),
               status' = [p \in Planned |-> [status[p] EXCEPT !.state = G[p]]]
        PROVE  KeepsAnswers
    <2>1. \A p \in Planned : status'[p].state = G[p]
      BY <1>0, <1>3, StateSet
    <2> QED BY <1>3, <2>1 DEF KeepsAnswers, Open
  <1>4. \A p \in Planned : status[p].state \in States
    BY <1>0 DEF Statuses
  <1>5. CASE TestSkipped
    <2> DEFINE G == [p \in Planned |-> TestEnded(status[p].state, "SKIPPED")]
    <2>1. status' = [p \in Planned |-> [status[p] EXCEPT !.state = G[p]]]
      BY <1>5 DEF TestSkipped
    <2>2. \A p \in Planned : G[p] \in States /\ (status[p].state \notin Open => G[p] = status[p].state)
      BY <1>4, TestEndedIs
    <2> HIDE DEF G
    <2> QED BY <1>3, <2>1, <2>2
  <1>6. CASE TestEnds
    <2> DEFINE G == [p \in Planned |-> TestEnded(status[p].state, outcome')]
    <2>1. status' = [p \in Planned |-> [status[p] EXCEPT !.state = G[p]]]
      BY <1>6 DEF TestEnds
    <2>2. \A p \in Planned : G[p] \in States /\ (status[p].state \notin Open => G[p] = status[p].state)
      BY <1>4, TestEndedIs
    <2> HIDE DEF G
    <2> QED BY <1>3, <2>1, <2>2
  <1>7. CASE RunEnds
    <2> DEFINE told(x) == IF outcome' = outcome THEN x ELSE TestEnded(x, outcome')
               G == [p \in Planned |-> IF told(status[p].state) \in Open THEN "not_reached" ELSE told(status[p].state)]
    <2>1. status' = [p \in Planned |-> [status[p] EXCEPT !.state = G[p]]]
      BY <1>7 DEF RunEnds
    <2>2. ASSUME NEW p \in Planned PROVE G[p] \in States /\ (status[p].state \notin Open => G[p] = status[p].state)
      <3>1. told(status[p].state) \in States /\ (status[p].state \notin Open => told(status[p].state) = status[p].state)
        BY <1>4, TestEndedIs
      <3> HIDE DEF told
      <3> QED BY <3>1 DEF States
    <2> HIDE DEF G
    <2> QED BY <1>3, <2>1, <2>2
  <1>8. CASE Interrupt
    <2>1. CASE stack = <<>>
      BY <1>1, <1>8, <2>1 DEF Interrupt
    <2>2. CASE stack # <<>>
      <3>1. UnwoundTo(status', Len(stack))
        BY <1>8, <2>2, UnwoundFacts DEF Interrupt
      <3> QED BY <1>0, <3>1 DEF UnwoundTo, KeepsAnswers
    <2> QED BY <2>1, <2>2
  <1>9. ASSUME NEW result, EndStep(result), stack # <<>> PROVE KeepsAnswers
    BY <1>9, EndKeepsAnswers
  <1>10. CASE ConditionSaysNo \/ NoImplementation
    BY <1>9, <1>10 DEF ConditionSaysNo, NoImplementation
  <1>11. ASSUME NEW result \in {"PASSED", "FAILED"}, LeafEnds(result) \/ FlowEnds(result) PROVE KeepsAnswers
    BY <1>9, <1>11 DEF LeafEnds, FlowEnds, Running
  <1>12. CASE BeginStep
    <2> DEFINE f == [Top EXCEPT !.stage = "running"]
    <2>1. stack # <<>> /\ Begin(<<>>, f)
      BY <1>12 DEF BeginStep
    <2>0. Top \in Frames
      BY <1>0, <2>1
    <2>3. f \in Frames
      BY <2>0 DEF Frames
    <2>2. f \in Frames /\ <<>> \in Seq(Frames)
      BY <2>3
    <2> HIDE DEF f
    <2> QED BY <1>1, <2>1, <2>2, AskKeepsAnswers DEF Begin
  <1>13. CASE Asked
    <2> DEFINE f == [Top EXCEPT !.open = "yes"]
    <2>1. stack # <<>> /\ (Ask(Front(stack), f) \/ UNCHANGED status)
      BY <1>13 DEF Asked, Running
    <2>0. Top \in Frames
      BY <1>0, <2>1
    <2>2. f \in Frames
      BY <2>0 DEF Frames
    <2>3. Front(stack) \in Seq(Frames)
      <3> DEFINE n == Len(stack)
                 m == n - 1
      <3>1. n \in Nat /\ n \in 1..n
        BY <1>0, <2>1
      <3>2. m \in Nat /\ m <= n
        <4> HIDE DEF n
        <4> QED BY <3>1
      <3> HIDE DEF m
      <3>3. SubSeq(stack, 1, m) \in Seq(Frames)
        BY <1>0, <3>2, HeadIs
      <3> QED BY <3>3 DEF Front, m
    <2> HIDE DEF f
    <2> QED BY <1>1, <2>1, <2>2, <2>3, AskKeepsAnswers
  <1>14. CASE Suspended \/ Refused
    BY <1>1, <1>14 DEF Suspended, Refused
  <1>15. CASE Answered
    <2>1. \A p \in Planned : p # Top.path => status'[p] = status[p]
      BY <1>0, <1>15 DEF Answered, Statuses
    <2>2. \A p \in Planned : p = Top.path => \E i \in DOMAIN stack : stack[i].path = p
      BY <1>0, <1>15 DEF Answered, Running
    <2> QED BY <2>1, <2>2 DEF KeepsAnswers
  <1>16. ASSUME NEW key, NEW other, TakeBranch(key, other) PROVE KeepsAnswers
    <2>1. status' = NotTaken(other)
      BY <1>16 DEF TakeBranch
    <2>2. \A p \in Planned : status[p].state \notin Superseded => status'[p] = status[p]
      BY <2>1 DEF NotTaken
    <2> QED BY <2>2 DEF KeepsAnswers, Superseded
  <1>17. CASE RunNested
    <2>1. stack # <<>> /\ Child \in Paths
      BY <1>17 DEF RunNested, Running
    <2> DEFINE f == NewFrame(Child, "running")
    <2>2. UNCHANGED status \/ Ask(stack, f)
      BY <1>17 DEF RunNested, Begin
    <2>3. f \in Frames
      BY <2>1, NewFrameIs
    <2> HIDE DEF f
    <2> QED BY <1>0, <1>1, <2>2, <2>3, AskKeepsAnswers
  <1>18. CASE NextPhase \/ Cancel \/ OpenStep \/ Try \/ NextItem \/ Done \/ UNCHANGED vars
    BY <1>1, <1>18 DEF NextPhase, Cancel, OpenStep, Try, NextItem, Done, vars
  <1> QED
    BY <1>2, <1>5, <1>6, <1>7, <1>8, <1>10, <1>11, <1>12, <1>13, <1>14, <1>15, <1>16, <1>17, <1>18 DEF Next

\* An answer the operator gave is never taken back by the flow step around it, a branch not
\* taken, the end of the test or an interruption elsewhere (CheckpointTracker._end, not_taken).
THEOREM AnswersAreKept == Spec => AnswerKept
  <1>1. CheckpointsInv /\ [Next]_vars => [KeepsAnswers]_vars
    BY StepKeepsAnswers
  <1>2. Spec => [][KeepsAnswers]_vars
    BY <1>1, CheckpointsAlways, PTL DEF Spec
  <1> QED BY <1>2 DEF AnswerKept, KeepsAnswers

-----------------------------------------------------------------------------
(* The choices of a run. *)

Asking == {"waiting", "held", "woken"}

\* The board shows the question the task waits for, and no question is open that is not on it.
BoardShowsCurrent ==
    /\ board # 0 => board = task.asked /\ task.at \in Asking
    /\ task.at \in Asking => task.asked # 0
    /\ \A n \in Questions :
        /\ question[n].answer = "open" => board = n
        /\ board = n => question[n].answer \in Options \cup {"open"}

\* A question not asked yet has nothing of an answer; the one asked has one, or is open.
AskedInOrder ==
    \A n \in Questions :
        /\ n > task.asked => question[n] = Unasked
        /\ n <= task.asked => question[n].answer # "none"
        /\ question[n].answer \in Options => question[n].answer \in question[n].options
        /\ task.at \in Asking /\ n = task.asked => question[n].ended = "no"

\* The desk asks what was asked, and what it was told it passes on.
DeskInOrder ==
    /\ prompt.at # "none" => prompt.of \in 1..task.asked
    /\ task.at = "briefing" => prompt.at = "none" /\ history.quit = "no"
    /\ history.quit = "yes" => desk.aborted = "yes" \/ (prompt.at = "returned" /\ prompt.got = "quit")

\* What was cut short by a cancel was asked before and is not open any more.
CutIsClosed == \A n \in history.cut : n <= task.asked /\ question[n].answer # "open"

\* The strengthening of AnswersCount.
DeskInv == AnswersCount /\ BoardShowsCurrent /\ AskedInOrder /\ DeskInOrder /\ CutIsClosed

\* A run starts without a question and without a prompt.
LEMMA DeskInit == SInit => DeskInv
  <1> SUFFICES ASSUME SInit PROVE DeskInv
    OBVIOUS
  <1> USE SelectionAssumption DEF SInit, Questions, Unasked, NoPrompt
  <1>1. STypeOK
    BY DEF STypeOK, JobRec, TaskRec, QuestionRec, PromptRec, DeskRec, HistoryRec
  <1>2. AnswerFitsStep /\ EndsAsAnswered /\ CutEndsAtOnce /\ LeavesNoPrompt
    BY DEF AnswerFitsStep, EndsAsAnswered, CutEndsAtOnce, LeavesNoPrompt
  <1>3. BoardShowsCurrent /\ AskedInOrder /\ DeskInOrder /\ CutIsClosed
    BY DEF BoardShowsCurrent, AskedInOrder, DeskInOrder, CutIsClosed, Asking
  <1> QED BY <1>1, <1>2, <1>3 DEF DeskInv, AnswersCount

-----------------------------------------------------------------------------
\* A step that touches no question keeps the strengthening if it keeps the desk in order.
LEMMA QuietKeeps ==
  ASSUME DeskInv, UNCHANGED <<answers, question, board>>,
         job' \in JobRec, task' \in TaskRec, prompt' \in PromptRec, desk' \in DeskRec,
         history' \in HistoryRec, history'.cut = history.cut,
         task'.asked = task.asked, task'.at \in Asking <=> task.at \in Asking,
         DeskInOrder', LeavesNoPrompt'
  PROVE  DeskInv'
  <1> USE DEF DeskInv, AnswersCount
  <1>1. STypeOK' /\ AnswerFitsStep' /\ EndsAsAnswered' /\ CutEndsAtOnce'
    BY DEF STypeOK, AnswerFitsStep, EndsAsAnswered, CutEndsAtOnce
  <1>2. BoardShowsCurrent' /\ AskedInOrder' /\ CutIsClosed'
    BY DEF BoardShowsCurrent, AskedInOrder, CutIsClosed
  <1> QED BY <1>1, <1>2

\* What await_choice leaves when it ends with how.
LEMMA EndsWithDoes ==
  ASSUME STypeOK, task.asked \in Questions, NEW goes \in {"between", "over"},
         NEW how \in Options \cup {"timeout", "cancelled", "interrupted"}, EndsWith(how, goes)
  PROVE  /\ question' \in [Questions -> QuestionRec]
         /\ \A n \in Questions : n # task.asked => question'[n] = question[n]
         /\ LET q == question[task.asked]
                r == question'[task.asked]
            IN  /\ r.step = q.step /\ r.options = q.options /\ r.given = q.given /\ r.ended = how
                /\ r.answer = IF board = task.asked /\ q.answer = "open" THEN "cancelled" ELSE q.answer
         /\ board' = 0
         /\ task' \in TaskRec /\ task'.at = goes /\ task'.asked = task.asked
  <1> DEFINE q == question[task.asked]
             r == [q EXCEPT !.ended = how,
                            !.answer = IF board = task.asked /\ q.answer = "open" THEN "cancelled" ELSE q.answer]
  <1>1. q \in QuestionRec
    BY DEF STypeOK
  <1>2. /\ r \in QuestionRec
        /\ r.step = q.step /\ r.options = q.options /\ r.given = q.given /\ r.ended = how
        /\ r.answer = IF board = task.asked /\ q.answer = "open" THEN "cancelled" ELSE q.answer
    <2> HIDE DEF q
    <2> QED BY <1>1 DEF QuestionRec
  <1>3. question' = [question EXCEPT ![task.asked] = r] /\ board' = 0
    BY DEF EndsWith, Nth
  <1>4. task' \in TaskRec /\ task'.at = goes /\ task'.asked = task.asked
    BY DEF EndsWith, STypeOK, TaskRec
  <1> HIDE DEF r
  <1> QED BY <1>2, <1>3, <1>4 DEF STypeOK

\* An end keeps the strengthening that is a timeout of an open question, the answer that was
\* given, or an interruption.
LEMMA QuestionEndKeeps ==
  ASSUME DeskInv, task.at \in Asking, NEW goes \in {"between", "over"}, NEW how, EndsWith(how, goes),
         UNCHANGED <<answers, prompt, desk, history>>, job' \in JobRec,
         \/ how = "timeout" /\ question[task.asked].answer = "open"
         \/ how = question[task.asked].answer /\ how # "open"
         \/ how = "interrupted"
  PROVE  DeskInv'
  <1> USE SelectionAssumption DEF DeskInv, AnswersCount
  <1>1. task.asked \in Questions /\ how \in Options \cup {"timeout", "cancelled", "interrupted"}
    BY DEF STypeOK, TaskRec, QuestionRec, BoardShowsCurrent, AskedInOrder, Questions
  <1>2. /\ question' \in [Questions -> QuestionRec]
        /\ \A n \in Questions : n # task.asked => question'[n] = question[n]
        /\ LET q == question[task.asked]
               r == question'[task.asked]
           IN  /\ r.step = q.step /\ r.options = q.options /\ r.given = q.given /\ r.ended = how
               /\ r.answer = IF board = task.asked /\ q.answer = "open" THEN "cancelled" ELSE q.answer
        /\ board' = 0
        /\ task' \in TaskRec /\ task'.at = goes /\ task'.asked = task.asked
    BY <1>1, EndsWithDoes
  <1>3. question[task.asked].answer = "open" => board = task.asked
    BY <1>1 DEF BoardShowsCurrent
  <1>4. STypeOK'
    BY <1>2 DEF STypeOK
  <1>5. AnswerFitsStep'
    BY <1>1, <1>2 DEF AnswerFitsStep
  <1>6. EndsAsAnswered'
    BY <1>1, <1>2, <1>3 DEF EndsAsAnswered, AskedInOrder
  <1>7. CutEndsAtOnce' /\ CutIsClosed'
    <2>1. history.cut \subseteq Questions
      BY DEF STypeOK, HistoryRec
    <2>2. question[task.asked].answer # "timeout"
      BY <1>1 DEF STypeOK, QuestionRec
    <2>3. ASSUME NEW n \in history.cut
          PROVE  question'[n].ended # "timeout" /\ n <= task'.asked /\ question'[n].answer # "open"
      BY <1>1, <1>2, <1>3, <2>1, <2>2 DEF CutEndsAtOnce, CutIsClosed
    <2> QED BY <2>3 DEF CutEndsAtOnce, CutIsClosed
  <1>8. LeavesNoPrompt' /\ DeskInOrder'
    BY <1>2 DEF LeavesNoPrompt, DeskInOrder, Asking
  <1>9. BoardShowsCurrent'
    BY <1>1, <1>2, <1>3 DEF BoardShowsCurrent, Asking, Questions
  <1>10. AskedInOrder'
    BY <1>1, <1>2, <1>3 DEF AskedInOrder, Asking, Questions
  <1> QED BY <1>4, <1>5, <1>6, <1>7, <1>8, <1>9, <1>10

\* An answer the board takes keeps the strengthening, whoever gives it.
LEMMA AnswerKeeps ==
  ASSUME DeskInv, NEW value \in Options, NEW step \in Steps \cup {"none", "any"}, Answers(value, step),
         UNCHANGED <<answers, job, task, board, desk, history>>,
         prompt' = prompt \/ (prompt' = NoPrompt /\ prompt.got # "quit")
  PROVE  DeskInv'
  <1> USE SelectionAssumption DEF DeskInv, AnswersCount
  <1>1. /\ board \in Questions /\ question[board].answer = "open"
        /\ step \in {"any", question[board].step} /\ value \in question[board].options
    BY DEF Answers, Takes, STypeOK, Questions
  <1>2. /\ question' \in [Questions -> QuestionRec]
        /\ \A n \in Questions : n # board => question'[n] = question[n]
        /\ LET q == question[board]
               r == question'[board]
           IN  /\ r.step = q.step /\ r.options = q.options /\ r.ended = q.ended
               /\ r.answer = value /\ r.given = step
    BY ZenonT(60), <1>1 DEF Answers, STypeOK, QuestionRec
  <1>3. board = task.asked /\ task.at \in Asking /\ question[board].ended = "no"
    BY <1>1 DEF BoardShowsCurrent, AskedInOrder, Questions
  <1>4. STypeOK'
    BY <1>2 DEF STypeOK, PromptRec, NoPrompt
  <1>5. AnswerFitsStep'
    BY <1>1, <1>2 DEF AnswerFitsStep
  <1>6. EndsAsAnswered'
    BY <1>1, <1>2, <1>3 DEF EndsAsAnswered
  <1>7. CutEndsAtOnce' /\ CutIsClosed'
    <2>1. history.cut \subseteq Questions
      BY DEF STypeOK, HistoryRec
    <2> QED BY <1>1, <1>2, <2>1 DEF CutEndsAtOnce, CutIsClosed
  <1>8. LeavesNoPrompt' /\ DeskInOrder'
    BY <1>3 DEF LeavesNoPrompt, DeskInOrder, Asking, NoPrompt
  <1>9. BoardShowsCurrent'
    BY <1>1, <1>2, <1>3 DEF BoardShowsCurrent
  <1>10. AskedInOrder'
    BY <1>1, <1>2, <1>3 DEF AskedInOrder, STypeOK, TaskRec, Questions
  <1> QED BY <1>4, <1>5, <1>6, <1>7, <1>8, <1>9, <1>10

\* JobManager.cancel keeps the strengthening: the question it finds on the board is closed.
LEMMA CancelKeeps ==
  ASSUME DeskInv, CancelJob, UNCHANGED answers, task.at # "briefing",
         \/ UNCHANGED <<prompt, desk>>
         \/ prompt' = NoPrompt /\ desk' = [desk EXCEPT !.aborted = "yes"]
  PROVE  DeskInv'
  <1> USE SelectionAssumption DEF DeskInv, AnswersCount
  <1>1. /\ question' \in [Questions -> QuestionRec]
        /\ \A n \in Questions :
              LET q == question[n]
                  r == question'[n]
              IN  /\ r.step = q.step /\ r.options = q.options /\ r.ended = q.ended /\ r.given = q.given
                  /\ r.answer = IF n = board /\ q.answer = "open" THEN "cancelled" ELSE q.answer
                  /\ n # board => r = q
    BY DEF CancelJob, STypeOK, QuestionRec
  <1>2. /\ board' = 0 /\ job' \in JobRec /\ task' \in TaskRec /\ task'.asked = task.asked
        /\ task'.at \in Asking <=> task.at \in Asking
        /\ task'.at = "closed" <=> task.at = "closed"
        /\ task'.at # "briefing"
    BY DEF CancelJob, Wakes, STypeOK, JobRec, TaskRec, Asking
  <1>3. /\ history' \in HistoryRec /\ history'.quit = history.quit
        /\ history'.cut = IF board = 0 THEN history.cut ELSE history.cut \cup {board}
    <2> DEFINE cut == IF board = 0 THEN history.cut ELSE history.cut \cup {board}
    <2>1. history \in HistoryRec /\ history' = [history EXCEPT !.cut = cut]
      BY DEF CancelJob, STypeOK
    <2>2. cut \in SUBSET Questions
      BY DEF STypeOK, HistoryRec, Questions
    <2> HIDE DEF cut
    <2>3. history' \in HistoryRec /\ history'.quit = history.quit /\ history'.cut = cut
      BY <2>1, <2>2 DEF HistoryRec
    <2> QED BY <2>3 DEF cut
  <1>4. board # 0 => board \in Questions /\ board = task.asked /\ question[board].ended = "no"
    BY DEF BoardShowsCurrent, AskedInOrder, STypeOK, Questions
  <1>5. STypeOK'
    BY <1>1, <1>2, <1>3 DEF STypeOK, PromptRec, NoPrompt, DeskRec
  <1>6. AnswerFitsStep'
    BY <1>1 DEF AnswerFitsStep
  <1>7. EndsAsAnswered'
    BY <1>1, <1>4 DEF EndsAsAnswered
  <1>8. CutEndsAtOnce' /\ CutIsClosed'
    <2>1. history.cut \subseteq Questions
      BY DEF STypeOK, HistoryRec
    <2>2. ASSUME NEW n \in history'.cut
          PROVE  question'[n].ended # "timeout" /\ n <= task'.asked /\ question'[n].answer # "open"
      BY <1>1, <1>2, <1>3, <1>4, <2>1 DEF CutEndsAtOnce, CutIsClosed, BoardShowsCurrent, Questions, STypeOK, TaskRec
    <2> QED BY <2>2 DEF CutEndsAtOnce, CutIsClosed
  <1>9. LeavesNoPrompt' /\ DeskInOrder'
    BY <1>2, <1>3 DEF LeavesNoPrompt, DeskInOrder, NoPrompt, STypeOK, DeskRec
  <1>10. BoardShowsCurrent'
    BY <1>1, <1>2 DEF BoardShowsCurrent, Questions
  <1>11. AskedInOrder'
    BY <1>1, <1>2, <1>4 DEF AskedInOrder, STypeOK, TaskRec, Questions
  <1> QED BY <1>5, <1>6, <1>7, <1>8, <1>9, <1>10, <1>11

\* The desk that hears of question n again, or for the first time, stays in order.
LEMMA AnnounceKeeps ==
  ASSUME DeskInv, NEW n \in 1..MaxAsks, NEW time \in 0..Timeout, Announce(n, time)
  PROVE  /\ prompt' \in PromptRec /\ history' \in HistoryRec
         /\ history'.cut = history.cut /\ history'.quit = history.quit
         /\ prompt' = prompt \/ (prompt.at = "none" /\ prompt'.at = "queued" /\ prompt'.of = n)
  BY DEF DeskInv, AnswersCount, STypeOK, Announce, PromptRec, HistoryRec, Questions

\* A question that is asked keeps the strengthening: it is a new one.
LEMMA AskKeeps ==
  ASSUME DeskInv, NEW step \in Steps, NEW options \in (SUBSET Options) \ {{}}, AskOperator(step, options)
  PROVE  DeskInv'
  <1> USE SelectionAssumption DEF DeskInv, AnswersCount
  <1> DEFINE n == task.asked + 1
  <1>1. n \in Questions /\ task.asked \in Nat /\ task.at = "between" /\ Timeout \in 0..Timeout
    BY DEF AskOperator, Nth, STypeOK, TaskRec, Questions
  <1>2. board = 0
    BY <1>1 DEF BoardShowsCurrent, Asking
  <1>3. /\ question' \in [Questions -> QuestionRec]
        /\ \A m \in Questions : m # n => question'[m] = question[m]
        /\ LET r == question'[n]
           IN  r.step = step /\ r.options = options /\ r.answer = "open" /\ r.ended = "no" /\ r.given = "none"
    BY <1>1 DEF AskOperator, Nth, STypeOK, QuestionRec
  <1>4. board' = n /\ task' \in TaskRec /\ task'.at = "waiting" /\ task'.asked = n
    BY <1>1 DEF AskOperator, Nth, TaskRec, Questions
  <1>5. /\ prompt' \in PromptRec /\ history' \in HistoryRec
        /\ history'.cut = history.cut /\ history'.quit = history.quit
        /\ prompt' = prompt \/ (prompt.at = "none" /\ prompt'.at = "queued" /\ prompt'.of = n)
    BY <1>1, AnnounceKeeps DEF AskOperator, Nth, Questions
  <1>6. STypeOK'
    BY <1>1, <1>3, <1>4, <1>5 DEF STypeOK, AskOperator, Questions
  <1> HIDE DEF n
  <1>7. AnswerFitsStep' /\ EndsAsAnswered'
    BY <1>1, <1>3 DEF AnswerFitsStep, EndsAsAnswered
  <1>8. CutEndsAtOnce' /\ CutIsClosed'
    <2>1. history.cut \subseteq Questions
      BY DEF STypeOK, HistoryRec
    <2>2. \A m \in history.cut : m # n /\ m <= n
      BY <1>1, <2>1 DEF CutIsClosed, n, Questions
    <2> QED BY <1>3, <1>4, <1>5, <2>1, <2>2 DEF CutEndsAtOnce, CutIsClosed
  <1>9. LeavesNoPrompt' /\ DeskInOrder'
    <2>1. UNCHANGED desk
      BY DEF AskOperator
    <2>2. 1..task.asked \subseteq 1..n /\ n \in 1..n
      BY <1>1 DEF n, Questions
    <2> QED BY <1>4, <1>5, <2>1, <2>2 DEF LeavesNoPrompt, DeskInOrder
  <1>10. BoardShowsCurrent'
    BY <1>1, <1>2, <1>3, <1>4 DEF BoardShowsCurrent, Asking, Questions
  <1>11. AskedInOrder'
    BY <1>1, <1>3, <1>4 DEF AskedInOrder, Questions, n
  <1> QED BY <1>6, <1>7, <1>8, <1>9, <1>10, <1>11

-----------------------------------------------------------------------------
\* Every step of the run, the host, the desk and the operator keeps the strengthening.
LEMMA DeskNext == DeskInv /\ [SNext]_sVars => DeskInv'
  <1> SUFFICES ASSUME DeskInv, [SNext]_sVars PROVE DeskInv'
    OBVIOUS
  <1> USE SelectionAssumption
  <1>0. /\ STypeOK /\ LeavesNoPrompt /\ BoardShowsCurrent /\ DeskInOrder
        /\ task.at \in Asking => task.asked \in 1..MaxAsks
    BY DEF DeskInv, AnswersCount, STypeOK, TaskRec, BoardShowsCurrent
  <1>1. CASE PauseNoticed
    <2>1. /\ UNCHANGED <<answers, question, board, prompt, desk, history>>
          /\ job' \in JobRec /\ task' \in TaskRec /\ task'.asked = task.asked /\ task'.at = task.at
      BY <1>0, <1>1 DEF PauseNoticed, STypeOK, JobRec, TaskRec
    <2> QED BY <1>0, <2>1, QuietKeeps DEF STypeOK, DeskInOrder, LeavesNoPrompt
  <1>2. CASE Decide
    <2>1. CASE Current.answer # "open" /\ EndsWith(Current.answer, "between") /\ UNCHANGED <<prompt, history, job>>
      BY <1>0, <1>2, <2>1, QuestionEndKeeps DEF Decide, Current, Nth, Asking, STypeOK
    <2>2. CASE Current.answer = "open" /\ EndsWith("timeout", "between") /\ UNCHANGED <<prompt, history, job>>
      BY <1>0, <1>2, <2>2, QuestionEndKeeps DEF Decide, Current, Nth, Asking, STypeOK
    <2>3. CASE task' = [task EXCEPT !.at = "held"] /\ UNCHANGED <<board, question, prompt, history, job>>
      <3>1. task' \in TaskRec /\ task'.asked = task.asked /\ task'.at = "held" /\ task.at = "waiting"
        BY <1>0, <1>2, <2>3 DEF Decide, STypeOK, TaskRec
      <3> QED BY <1>0, <1>2, <2>3, <3>1, QuietKeeps DEF Decide, STypeOK, DeskInOrder, LeavesNoPrompt, Asking
    <2>4. CASE /\ task' = [task EXCEPT !.race = "blocked"] /\ job' = [job EXCEPT !.request = "clear"]
               /\ Announce(Nth, task.left)
               /\ UNCHANGED <<board, question>>
      <3>1. /\ task' \in TaskRec /\ task'.asked = task.asked /\ task'.at = task.at /\ task.at = "waiting"
            /\ job' \in JobRec /\ task.left \in 0..Timeout
        BY <1>0, <1>2, <2>4 DEF Decide, STypeOK, TaskRec, JobRec
      <3>2. /\ prompt' \in PromptRec /\ history' \in HistoryRec
            /\ history'.cut = history.cut /\ history'.quit = history.quit
            /\ prompt' = prompt \/ (prompt.at = "none" /\ prompt'.at = "queued" /\ prompt'.of = task.asked)
        BY <1>0, <2>4, <3>1, AnnounceKeeps DEF Nth, Asking
      <3>3. UNCHANGED <<answers, desk, question, board>>
        BY <1>2, <2>4 DEF Decide
      <3>4. DeskInOrder' /\ LeavesNoPrompt'
        BY <1>0, <3>1, <3>2, <3>3 DEF DeskInOrder, LeavesNoPrompt, Asking
      <3> QED BY <1>0, <3>1, <3>2, <3>3, <3>4, QuietKeeps DEF STypeOK
    <2> QED BY <1>2, <2>1, <2>2, <2>3, <2>4 DEF Decide
  <1>3. CASE GoOn
    <2>1. /\ task' \in TaskRec /\ task'.asked = task.asked /\ task'.at = "waiting" /\ task.at = "woken"
          /\ job' \in JobRec /\ task.left \in 0..Timeout /\ UNCHANGED <<answers, desk, question, board>>
      BY <1>0, <1>3 DEF GoOn, STypeOK, TaskRec, JobRec
    <2>2. Announce(Nth, task.left) \/ UNCHANGED <<prompt, history>>
      BY <1>3 DEF GoOn
    <2>3. /\ prompt' \in PromptRec /\ history' \in HistoryRec
          /\ history'.cut = history.cut /\ history'.quit = history.quit
          /\ prompt' = prompt \/ (prompt.at = "none" /\ prompt'.at = "queued" /\ prompt'.of = task.asked)
      BY <1>0, <2>1, <2>2, AnnounceKeeps DEF Nth, Asking, STypeOK
    <2>4. DeskInOrder' /\ LeavesNoPrompt'
      BY <1>0, <2>1, <2>3 DEF DeskInOrder, LeavesNoPrompt, Asking
    <2> QED BY <1>0, <2>1, <2>3, <2>4, QuietKeeps DEF STypeOK, Asking
  <1>4. CASE Settle
    <2>1. /\ UNCHANGED <<answers, question, board, prompt, job, history>>
          /\ task' \in TaskRec /\ task'.asked = task.asked
          /\ task.at \in {"over", "settling"} /\ task'.at \in {"settling", "closed"}
          /\ task'.at = "closed" => prompt.at = "none"
          /\ desk' \in DeskRec /\ desk'.aborted = desk.aborted
      BY <1>0, <1>4 DEF Settle, STypeOK, TaskRec, DeskRec
    <2>2. DeskInOrder' /\ LeavesNoPrompt'
      BY <1>0, <2>1 DEF DeskInOrder, LeavesNoPrompt
    <2> QED BY <1>0, <2>1, <2>2, QuietKeeps DEF STypeOK, Asking
  <1>5. CASE DeskAnswered
    <2>0. prompt.at = "returned" /\ prompt' = NoPrompt /\ UNCHANGED answers /\ task.at # "briefing"
      BY <1>0, <1>5 DEF DeskAnswered, DeskInOrder
    <2>1. CASE desk' = [desk EXCEPT !.aborted = "yes"] /\ UNCHANGED <<job, task, board, question, history>>
      <3>1. desk' \in DeskRec /\ desk'.aborted = "yes" /\ prompt' \in PromptRec /\ prompt'.at = "none"
        BY <1>0, <2>0, <2>1 DEF STypeOK, DeskRec, PromptRec, NoPrompt
      <3>2. DeskInOrder' /\ LeavesNoPrompt'
        BY <1>0, <2>0, <2>1, <3>1 DEF DeskInOrder, LeavesNoPrompt
      <3> QED BY <1>0, <2>0, <2>1, <3>1, <3>2, QuietKeeps DEF STypeOK
    <2>2. CASE desk' = [desk EXCEPT !.aborted = "yes"] /\ CancelJob
      BY <2>0, <2>2, CancelKeeps
    <2>3. CASE /\ prompt.got \in Options /\ Answers(prompt.got, question[prompt.of].step)
               /\ UNCHANGED <<job, task, board, desk, history>>
      <3>1. question[prompt.of].step \in Steps \cup {"none"}
        BY <1>0, <2>0 DEF STypeOK, QuestionRec, DeskInOrder, TaskRec, Questions
      <3> QED BY <2>0, <2>3, <3>1, AnswerKeeps
    <2>4. CASE prompt.got # "quit" /\ UNCHANGED <<job, task, board, question, desk, history>>
      <3>1. prompt' \in PromptRec /\ prompt'.at = "none"
        BY <2>0 DEF PromptRec, NoPrompt
      <3>2. DeskInOrder' /\ LeavesNoPrompt'
        BY <1>0, <2>0, <2>4, <3>1 DEF DeskInOrder, LeavesNoPrompt
      <3> QED BY <1>0, <2>0, <2>4, <3>1, <3>2, QuietKeeps DEF STypeOK
    <2> QED BY <1>5, <2>1, <2>2, <2>3, <2>4 DEF DeskAnswered
  <1>6. CASE SThread \/ Choose
    <2>1. /\ UNCHANGED <<answers, job, task, board, question, desk>> /\ prompt.at \in {"queued", "asking"}
          /\ prompt' \in PromptRec /\ prompt'.of = prompt.of /\ prompt'.at \in {"asking", "returned"}
          /\ history' \in HistoryRec /\ history'.cut = history.cut
          /\ \/ history' = history
             \/ prompt'.at = "returned" /\ prompt'.got = "quit"
      <3>1. \A v \in Options \cup {"none", "quit"} :
              Returns(v) => /\ prompt' \in PromptRec /\ prompt'.of = prompt.of /\ prompt'.at = "returned"
                            /\ prompt'.got = v
        BY <1>0 DEF Returns, STypeOK, PromptRec
      <3>2. CASE SThread
        BY <1>0, <3>1, <3>2 DEF SThread, StartPrompt, NoLine, STypeOK, PromptRec
      <3>3. CASE Choose
        <4>1. question[prompt.of].options \subseteq Options
          BY <1>0, <3>3 DEF Choose, STypeOK, QuestionRec, DeskInOrder, TaskRec, Questions
        <4>2. history' \in HistoryRec /\ history'.cut = history.cut
          BY <1>0, <3>3 DEF Choose, STypeOK, HistoryRec
        <4> QED BY <1>0, <3>1, <3>3, <4>1, <4>2 DEF Choose
      <3> QED BY <1>6, <3>2, <3>3
    <2>2. DeskInOrder' /\ LeavesNoPrompt'
      BY <1>0, <2>1 DEF DeskInOrder, LeavesNoPrompt
    <2> QED BY <1>0, <2>1, <2>2, QuietKeeps DEF STypeOK
  <1>7. CASE Tick
    <2>1. /\ UNCHANGED <<answers, job, board, question, desk, history>>
          /\ task' \in TaskRec /\ task'.asked = task.asked /\ task'.at = task.at
      BY <1>0, <1>7 DEF Tick, STypeOK, TaskRec
    <2>2. prompt' \in PromptRec /\ prompt'.of = prompt.of /\ prompt'.at = prompt.at /\ prompt'.got = prompt.got
      BY <1>0, <1>7 DEF Tick, STypeOK, PromptRec
    <2>3. DeskInOrder' /\ LeavesNoPrompt'
      BY <1>0, <2>1, <2>2 DEF DeskInOrder, LeavesNoPrompt
    <2> QED BY <1>0, <2>1, <2>2, <2>3, QuietKeeps DEF STypeOK
  <1>8. CASE Approve \/ Finish \/ PauseJob \/ ResumeJob
    <2>1. /\ UNCHANGED <<answers, board, question, prompt, desk, history>>
          /\ task' \in TaskRec /\ task'.asked = task.asked
          /\ task'.at \in Asking <=> task.at \in Asking
          /\ task'.at = "briefing" => task.at = "briefing"
          /\ task'.at = "closed" => task.at \in {"briefing", "closed"}
      BY <1>0, <1>8 DEF Approve, Finish, PauseJob, ResumeJob, Wakes, STypeOK, TaskRec, Asking
    <2>2. job' \in JobRec
      <3>1. CASE Approve
        BY <1>0, <3>1 DEF Approve, STypeOK
      <3>2. CASE PauseJob
        BY <1>0, <3>2 DEF PauseJob, STypeOK, JobRec
      <3>3. CASE Finish \/ ResumeJob
        BY <1>0, <3>3 DEF Finish, ResumeJob, STypeOK, JobRec
      <3> QED BY <1>8, <3>1, <3>2, <3>3
    <2>3. DeskInOrder' /\ LeavesNoPrompt'
      BY <1>0, <2>1 DEF DeskInOrder, LeavesNoPrompt
    <2> QED BY <1>0, <2>1, <2>2, <2>3, QuietKeeps DEF STypeOK
  <1>9. CASE InterruptWait
    BY <1>0, <1>9, QuestionEndKeeps DEF InterruptWait, Asking, STypeOK
  <1>10. CASE HostAnswers
    BY <1>10, AnswerKeeps DEF HostAnswers
  <1>11. CASE CancelRun
    BY <1>11, CancelKeeps DEF CancelRun
  <1>12. CASE \E step \in Steps, options \in (SUBSET Options) \ {{}} : AskOperator(step, options)
    BY <1>12, AskKeeps
  <1>13. CASE UNCHANGED sVars
    BY <1>0, <1>13, QuietKeeps DEF sVars, STypeOK, DeskInOrder, LeavesNoPrompt
  <1> QED
    BY <1>1, <1>2, <1>3, <1>4, <1>5, <1>6, <1>7, <1>8, <1>9, <1>10, <1>11, <1>12, <1>13
       DEF SNext, SLoop

\* An answer the board took is the one the step goes on with, for its own step only, a cancel
\* ends the question it finds, and no prompt is left behind (SelectionBoard, await_choice,
\* run_with_operator), however questions, pauses, cancels and clocks interleave.
THEOREM AnswersAlwaysCount == SSpec => []AnswersCount
  <1>1. DeskInv => AnswersCount
    BY DEF DeskInv
  <1> QED BY DeskInit, DeskNext, <1>1, PTL DEF SSpec
=============================================================================
