--------------------------- MODULE MCInboundCalls ----------------------------
\* The calls of a system under test to one of two runs that serve the same path, on the loop
\* of the runs or on a thread, with plain mocks or one async. The first run arms a second mock,
\* and the table of keys holds one run, so that its key may be dropped in between.
EXTENDS InboundCalls
CONSTANTS r1, r2, p, q

\* Both runs arm p by POST, the first also q by GET.
MCShared == [run : {r1, r2}, path : {p}, meth : {"POST"}]
MCMocks == MCShared \cup {[run |-> r1, path |-> q, meth |-> "GET"]}
MCSlow == [run : {r1}, path : {p}, meth : {"POST"}]
MCModes == {[on |-> "loop", slow |-> {}], [on |-> "loop", slow |-> MCSlow],
            [on |-> "thread", slow |-> {}]}
MCMaxArms == [r \in {r1, r2} |-> IF r = r1 THEN 2 ELSE 1]
=============================================================================
