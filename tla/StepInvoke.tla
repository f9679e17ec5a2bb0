------------------------------ MODULE StepInvoke ------------------------------
(***************************************************************************)
(* How a step is invoked (steps/step_contract, step_extension): its keys   *)
(* are parted from those of the extensions on it, which run around it, it  *)
(* is bound, executed and its output published.  Calls that are repeated:  *)
(* extensions/labs/dataplane_retry and the pages of provider_query.  Calls *)
(* that fail softly: steps/notification, http_client.                      *)
(***************************************************************************)
EXTENDS Naturals, Sequences, SequencesExt, FiniteSets, FiniteSetsExt, SequenceFilter

CONSTANTS Fields,       \* the fields an output may have
          CoreKeys,     \* the keys the step declares under "with"
          RetryKeys,    \* the keys of the retry extension
          MaxAttempts,  \* bound: retry_attempts
          QueryPage,    \* entries of a page of a provider query (_PAGE_SIZE)
          QueryPages,   \* pages that are read (_MAX_PAGES)
          MaxEntries    \* bound: entries the connector has

ASSUME InvokeAssumption == MaxAttempts \in Nat \ {0, 1} /\ QueryPage \in Nat \ {0} /\ QueryPages \in Nat \ {0} /\ MaxEntries \in Nat

VARIABLES
    inv,    \* the invocation in flight: [at, tries, max, on]
    got,    \* the output of its last call: [status, fields]
    ctxt,   \* the context: the call that set each field's variable (0 for none)
    said_,  \* how the step ended
    entries,\* the connector: the ids it has, in order
    query   \* a provider query: [at, offset, pages, ids, still]
iVars == <<inv, got, ctxt, said_, entries, query>>

NoCall == [at |-> "idle", tries |-> 0, max |-> 1, on |-> {}]
Unasked == [at |-> "idle", pages |-> 0, ids |-> <<>>, still |-> "yes"]
NoOutcome == [status |-> 0, fields |-> {}]

IInit ==
    /\ inv = NoCall /\ got = NoOutcome /\ ctxt = [f \in Fields |-> 0] /\ said_ = "none"
    /\ \E n \in 0..MaxEntries : entries = [k \in 1..n |-> k]
    /\ query = Unasked

-----------------------------------------------------------------------------
(* Extensions around a step. *)

\* colliding_keys: an extension may not declare a key the step, or another one, has.
Colliding == CoreKeys \cap RetryKeys

\* StepExtension: the keys of an extension that are written under "with".
RetryKeysOf(raw) == raw \cap RetryKeys

\* invoke_extended: a key an extension declares is taken from the step's; an extension none
\* of whose keys is written is not run.  The step's keys are bound at its first call.
InvokeExtended(raw, max, on) ==
    /\ inv.at = "idle" /\ query.at = "idle"
    /\ said_' = IF Colliding # {} THEN "engine_error" ELSE "none"
    /\ inv' = IF Colliding # {} THEN NoCall
              ELSE [at |-> IF raw \ RetryKeysOf(raw) \subseteq CoreKeys THEN "call" ELSE "refused", tries |-> 0,
                    max |-> IF RetryKeysOf(raw) = {} THEN 1 ELSE max,
                    on |-> IF RetryKeysOf(raw) = {} THEN {} ELSE on]
    /\ got' = NoOutcome /\ ctxt' = [f \in Fields |-> 0]
    /\ UNCHANGED <<entries, query>>

\* bind_params: a key nobody declares fails the step before it is executed.
Refused ==
    /\ inv.at = "refused" /\ inv' = NoCall /\ said_' = "invalid"
    /\ UNCHANGED <<got, ctxt, entries, query>>

\* publish_output: the fields that are there are set in the context, the others left alone.
PublishOutput(fields, call) == [f \in Fields |-> IF f \in fields THEN call ELSE ctxt[f]]

\* Mutant of Again: one call more than is asked for.
AgainOnce(status) == status \in inv.on /\ inv.tries + 1 <= inv.max

\* DataplaneRetry.around: another call when the status asks for one and one is left.
Again(status) == status \in inv.on /\ inv.tries + 1 < inv.max

\* BaseStep.invoke with what is around it: the call is made, its output bound to the
\* declared model and published, then looked at by the extension.
CallAnswers(status, fields) ==
    /\ inv.at = "call"
    /\ got' = [status |-> status, fields |-> fields]
    /\ ctxt' = PublishOutput(fields, inv.tries + 1)
    /\ inv' = [inv EXCEPT !.tries = @ + 1, !.at = IF Again(status) THEN "sleep" ELSE "idle"]
    /\ said_' = IF Again(status) THEN "none" ELSE "output"
    /\ UNCHANGED <<entries, query>>

\* sdk_call.run and a payload that is not the declared one: the step fails, nothing published,
\* and no extension calls again.
CallRaises(why) ==
    /\ inv.at = "call" /\ inv' = [inv EXCEPT !.tries = @ + 1, !.at = "idle"]
    /\ said_' = why /\ UNCHANGED <<got, ctxt, entries, query>>

\* The sleep between two calls, and the calls of a flow/delay.
SleepOver == inv.at = "sleep" /\ inv' = [inv EXCEPT !.at = "call"] /\ UNCHANGED <<got, ctxt, said_, entries, query>>

-----------------------------------------------------------------------------
(* Calls that end in an output whatever is answered. *)

\* http_client.request: an answer over the limit is not read, and raises.
Bounded(size, limit) == IF limit # 0 /\ size > limit THEN "too_large" ELSE "read"

\* SendNotificationStep: straight to a data plane, where a call that cannot be made or read
\* is a 500 of the output's own; or through the SDK, whose exceptions fail the step.  A
\* credential is not carried along a redirect.
SendNotification(direct, answer, token) ==
    /\ inv.at = "idle" /\ query.at = "idle"
    /\ LET status == IF direct = "no" \/ answer = "ok" THEN 200
                     ELSE IF answer = "redirect" THEN IF token = "credential" THEN 302 ELSE 200 ELSE 500 IN
       IF direct = "no" /\ answer = "broken" THEN said_' = "failed" /\ UNCHANGED got
       ELSE said_' = "output" /\ got' = [status |-> status, fields |-> {}]
    /\ inv' = [NoCall EXCEPT !.tries = 1] /\ ctxt' = [f \in Fields |-> 0]
    /\ UNCHANGED <<entries, query>>

-----------------------------------------------------------------------------
(* Provider queries: all there is, page by page. *)

StartQuery ==
    /\ inv.at = "idle" /\ query.at = "idle"
    /\ query' = [Unasked EXCEPT !.at = "asking"] /\ said_' = "none" /\ inv' = NoCall
    /\ UNCHANGED <<got, ctxt, entries>>

\* _page_of and _matching_ids: anything but a 200 with an array fails the step.
PageAt(n) == SubSeq(entries, n * QueryPage + 1, Min({(n + 1) * QueryPage, Len(entries)}))

\* _query_all: page after page, until one is not full or the last that is read; the ids once each.
QueryAnswers(ok) ==
    /\ query.at = "asking"
    /\ LET page_ == PageAt(query.pages)
           more == Len(page_) = QueryPage /\ query.pages + 1 < QueryPages IN
       IF ok = "no" THEN query' = [Unasked EXCEPT !.still = "no"] /\ said_' = "failed"
       ELSE /\ query' = [query EXCEPT !.pages = @ + 1, !.ids = @ \o Filter(page_, Range(entries) \ Range(query.ids)),
                                      !.at = IF more THEN "asking" ELSE "idle"]
            /\ said_' = IF more THEN "none" ELSE "listed"
    /\ UNCHANGED <<inv, got, ctxt, entries>>

\* Somebody deletes an entry meanwhile, and the pages after it move up.
EntryGoes(k) ==
    /\ query.at = "asking" /\ k \in DOMAIN entries
    /\ entries' = RemoveAt(entries, k) /\ query' = [query EXCEPT !.still = "no"]
    /\ UNCHANGED <<inv, got, ctxt, said_>>

INext ==
    \/ \E raw \in SUBSET (CoreKeys \cup RetryKeys \cup {"other"}), max \in 2..MaxAttempts, on \in {{404}, {404, 503}} : InvokeExtended(raw, max, on)
    \/ Refused \/ SleepOver \/ StartQuery
    \/ \E status \in {200, 404, 503}, fields \in SUBSET Fields : CallAnswers(status, fields)
    \/ \E why \in {"connector_error", "wrong_model"} \cup {Bounded(size, 1) : size \in 2..2} : CallRaises(why)
    \/ \E d \in {"yes", "no"}, a \in {"ok", "redirect", "broken"}, t \in {"credential", "text"} : SendNotification(d, a, t)
    \/ \E ok \in {"yes", "no"} : QueryAnswers(ok)
    \/ \E k \in DOMAIN entries : EntryGoes(k)

ISpec == IInit /\ [][INext]_iVars

-----------------------------------------------------------------------------
\* A call that is repeated is made no more often than its author asked for, ends early only
\* with a status that does not ask for another, and leaves its fields in the context; and a
\* query nobody disturbed, of no more than its pages hold, has listed every entry once.
RepeatsTold ==
    /\ inv.tries <= inv.max
    /\ inv.at = "idle" /\ said_ = "output" => /\ inv.tries < inv.max => got.status \notin inv.on
                                              /\ \A f \in got.fields : ctxt[f] = inv.tries
    /\ said_ = "listed" /\ query.still = "yes" /\ Len(entries) <= QueryPage * QueryPages => query.ids = entries
=============================================================================
