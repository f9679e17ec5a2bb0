----------------------------- MODULE CallDelivery -----------------------------
(***************************************************************************)
(* What the CallbackManager promises the waits on one address              *)
(* (server/callbacks.py), without futures, tasks or pauses: a caller is    *)
(* told its call was taken or not, and the waits end one after the other,  *)
(* each by its timeout, by a call that was taken and has ended no wait     *)
(* before, or by a call that was refused while it was its turn.            *)
(***************************************************************************)
EXTENDS Naturals, Sequences

CONSTANTS Calls, Rounds, NoCall

VARIABLES
    threaded,  \* the calls come from the thread of a mock server
    taken,     \* the calls answered as accepted
    refused,   \* the calls answered as refused, or as come too late
    came,      \* the round each call came in (0: not yet)
    round,     \* the mock/api and mock/wait pair the test is at
    ends,      \* how the waits ended: [round, out, call]
    upset      \* a call that was taken found its wait ended
dVars == <<threaded, taken, refused, came, round, ends, upset>>

Used == {ends[i].call : i \in DOMAIN ends}

DeliveryInit ==
    /\ threaded \in BOOLEAN /\ taken = {} /\ refused = {} /\ came = [c \in Calls |-> 0]
    /\ round = 1 /\ ends = <<>> /\ upset = FALSE

\* A call is answered once, and only while a mock is up.
Tell(c) ==
    /\ came[c] = 0 /\ came' = [came EXCEPT ![c] = round]
    /\ \/ taken' = taken \cup {c} /\ UNCHANGED refused
       \/ refused' = refused \cup {c} /\ UNCHANGED taken
    /\ UNCHANGED <<threaded, round, ends, upset>>

\* The wait of the round ends. A refusal of an earlier round reaches it from a thread only.
EndsBy(out, c) ==
    \/ out = "timeout" /\ c = NoCall
    \/ out = "result" /\ c \in taken \ Used
    \/ out = "refused" /\ c \in refused \ Used /\ (threaded \/ came[c] = round)

WaitOver ==
    /\ \E out \in {"timeout", "result", "refused"}, c \in Calls \cup {NoCall} :
        /\ EndsBy(out, c)
        /\ ends' = Append(ends, [round |-> round, out |-> out, call |-> c])
    /\ round' \in {round, round + 1} /\ round' <= Rounds
    /\ UNCHANGED <<threaded, taken, refused, came, upset>>

\* A round passes without a wait.
RoundOver ==
    /\ round < Rounds /\ round' = round + 1
    /\ UNCHANGED <<threaded, taken, refused, came, ends, upset>>

\* Of two calls taken from a thread for one wait, the second is lost.
Upset == threaded /\ upset' = TRUE /\ UNCHANGED <<threaded, taken, refused, came, round, ends>>

DeliveryNext == (\E c \in Calls : Tell(c)) \/ WaitOver \/ RoundOver \/ Upset
DeliverySpec == DeliveryInit /\ [][DeliveryNext]_dVars
=============================================================================
