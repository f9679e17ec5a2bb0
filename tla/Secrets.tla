-------------------------------- MODULE Secrets --------------------------------
(***************************************************************************)
(* What the records of a run may show.  Secret values are registered with  *)
(* the process-wide masking (logging/masking, _secret_pattern): pinned to  *)
(* a run while it is open, among the last MAX_SECRETS afterwards.  Every   *)
(* record goes through it: the trace, the transcript, the console, and the *)
(* results that are kept (logging/wire), where names are redacted as well. *)
(***************************************************************************)
EXTENDS Naturals, Sequences, SequencesExt, FiniteSets, FiniteSetsExt

CONSTANTS Jobs,         \* the runs of the process
          Tokens,       \* secret values
          ShortTokens,  \* those shorter than MIN_SECRET_LENGTH, masked only when explicit
          MaxDeclared,  \* MAX_DECLARED_PER_RUN
          MaxKept,      \* MAX_SECRETS
          MaxRegistered,\* bound: registrations
          MaxHeld,      \* bound: lines held back
          MaxTrail      \* bound: events of the trace

ASSUME SecretsAssumption == ShortTokens \subseteq Tokens /\ MaxDeclared \in Nat /\ MaxKept \in Nat \ {0}

VARIABLES
    pins,     \* _pinned: what is pinned to each run
    budget,   \* _declared: declared values of each run so far
    kept_,    \* _secrets: the forms remembered without a run, oldest first
    pattern,  \* _compiled: the forms the compiled pattern finds
    stale,    \* _stale
    unlisted, \* the values withheld from the last step of each run
    going,    \* an event that is masked and not yet in the trace
    trail,    \* the events of the trace: [seq, id]
    last,     \* of the record written last, what it shows and should have hidden
    made,     \* how often a value was registered
    console   \* hold_console: [owner, depth, held]
sVars == <<pins, budget, kept_, pattern, stale, unlisted, going, trail, last, made, console>>

\* forms_of: a value is also found in the encodings it is written in, but not in the
\* encoding of a longer text that has it in the middle ("joined").
Forms(t) == {<<t, "plain">>, <<t, "quoted">>}
Written == Tokens \X {"plain", "quoted", "joined"}
Field == [name : {"secret", "plain"}, form : Written]
Lines == [name : {"plain"}, form : Tokens \X {"plain"}]
NoWindow == [owner |-> "none", depth |-> 0, held |-> <<>>]
NotGoing == [to |-> "none"]

SInit ==
    /\ pins = [j \in Jobs |-> {}] /\ budget = [j \in Jobs |-> 0] /\ kept_ = <<>>
    /\ pattern = {} /\ stale = "no" /\ unlisted = [j \in Jobs |-> {}]
    /\ going = NotGoing /\ trail = <<>> /\ last = {} /\ made = 0 /\ console = NoWindow

-----------------------------------------------------------------------------
(* The registered values. *)

\* _remember: one value is remembered as the newest, the oldest evicted.
Newest(seq, f) == LET all == Append(SelectSeq(seq, LAMBDA g : g # f), f) IN
                  SubSeq(all, IF Len(all) > MaxKept THEN 2 ELSE 1, Len(all))
RememberAll(seq, fs) == FoldSet(LAMBDA f, all : Newest(all, f), seq, fs)

\* register_secret: under the floor it is not taken; declared by a step beyond the run's
\* budget it is withheld; with a run it is pinned to it.
Floor(t, explicit) == explicit = "yes" \/ t \notin ShortTokens
Allowed(j, f) == f \in pins[j] \/ budget[j] < MaxDeclared
\* Mutant of Pin: the pattern in use is not marked as out of date.
PinUnmarked(j, f, fs, declared) ==
    /\ made < MaxRegistered /\ made' = made + 1 /\ pins' = [pins EXCEPT ![j] = @ \cup fs]
    /\ UNCHANGED <<stale, budget, unlisted, kept_>>
Pin(j, f, fs, declared) ==
    /\ made < MaxRegistered /\ made' = made + 1 /\ stale' = "yes"
    /\ IF declared = "yes" /\ ~Allowed(j, f) THEN unlisted' = [unlisted EXCEPT ![j] = {f}] /\ UNCHANGED <<pins, budget>>
       ELSE /\ pins' = [pins EXCEPT ![j] = @ \cup fs]
            /\ budget' = [budget EXCEPT ![j] = IF declared = "yes" /\ f \notin pins[j] THEN @ + 1 ELSE @]
            /\ unlisted' = [unlisted EXCEPT ![j] = {}]
    /\ UNCHANGED kept_

\* mask_secret_inputs (explicit) and the secret fields of an output (declared).
RegisterSecret(j, t, explicit) ==
    /\ Floor(t, explicit)
    /\ Pin(j, <<t, "plain">>, Forms(t), IF explicit = "yes" THEN "no" ELSE "yes")
    /\ UNCHANGED <<pattern, going, trail, last, console>>

\* A secret registered before there is a run: of the configuration, or an extension's.
RegisterForProcess(t) ==
    /\ Floor(t, "no") /\ made < MaxRegistered /\ made' = made + 1 /\ kept_' = RememberAll(kept_, Forms(t)) /\ stale' = "yes"
    /\ UNCHANGED <<pins, budget, pattern, unlisted, going, trail, last, console>>

\* release_run: what was pinned is remembered like the rest.
ReleaseRun(j) ==
    /\ kept_' = RememberAll(kept_, pins[j])
    /\ pins' = [pins EXCEPT ![j] = {}] /\ budget' = [budget EXCEPT ![j] = 0] /\ stale' = "yes"
    /\ unlisted' = [unlisted EXCEPT ![j] = {}] /\ UNCHANGED <<pattern, going, trail, last, console, made>>

\* _current and pattern_for: compiled anew, of everything, when something has changed.
Current == IF stale = "yes" THEN Range(kept_) \cup UNION {pins[j] : j \in Jobs} ELSE pattern
Compiled == pattern' = Current /\ stale' = "no"

\* mask and _masked: the forms of the pattern are not readable; a short one that is only
\* the head of a cut text (cut_prefixes, mask_cut_prefix) is hidden with the rest.
Masked(field) == {field.form} \ Current

-----------------------------------------------------------------------------
(* The steps that make secrets. *)

\* BasicAuthStep: the encoded pair of user and password, as a secret of its own.
BasicAuth(j, t) ==
    /\ Pin(j, <<t, "joined">>, {<<t, "joined">>}, "no")
    /\ UNCHANGED <<pattern, going, trail, last, console>>

\* OAuth2GetTokenStep: the secret fields of the form before the call, explicitly; the
\* access token of the answer is declared by the output.
TokenRequest(j, t) ==
    /\ Pin(j, <<t, "plain">>, Forms(t), "no")
    /\ UNCHANGED <<pattern, going, trail, last, console>>

\* ApiKeyStep: the key goes out under a header, a parameter or a cookie; each is a secret field.
ApiKeyOutput(j, t) ==
    /\ Pin(j, <<t, "plain">>, Forms(t), "yes")
    /\ UNCHANGED <<pattern, going, trail, last, console>>

\* Base64Step: the encoding of a text that would be masked is a secret too, within the budget.
Base64(j, t) ==
    /\ <<t, "plain">> \in Current
    /\ Pin(j, <<t, "joined">>, {<<t, "joined">>}, "yes")
    /\ UNCHANGED <<pattern, going, trail, last, console>>

-----------------------------------------------------------------------------
(* Records. *)

\* What a record has to hide: what is pinned or remembered, whoever registered it.
Ought == (UNION {pins[j] : j \in Jobs}) \cup Range(kept_)

\* _id: of an event's type and masked data, with an occurrence when it was issued before.
OccurrenceOf(shows) == 1 + Cardinality({i \in DOMAIN trail : trail[i].id[1] = shows})

\* ExecutionTrace.emit: the data are masked first; then, under the lock, numbered and written.
EmitMasks(field) ==
    /\ going.to = "none"
    /\ going' = [to |-> "trace", shows |-> Masked(field), leak |-> Masked(field) \cap Ought] /\ Compiled
    /\ UNCHANGED <<pins, budget, kept_, unlisted, trail, last, console, made>>
EmitWrites ==
    /\ going.to = "trace" /\ Len(trail) < MaxTrail
    /\ trail' = Append(trail, [seq |-> Len(trail) + 1, id |-> <<going.shows, OccurrenceOf(going.shows)>>])
    /\ last' = going.leak /\ going' = NotGoing /\ UNCHANGED <<pins, budget, kept_, pattern, stale, unlisted, console, made>>

\* redact_secrets, _holds_credential: the value under a secret name goes, whatever it is.
Redacted(field) == IF field.name = "secret" THEN {} ELSE {field.form}

\* written, _safe_output, _withheld: a result that is kept is redacted by name, then masked,
\* and masked once more with what its step was not allowed to register.
AsKept(j, field) ==
    /\ LET withheld == unlisted[j]
           shows == (Redacted(field) \cap Masked(field)) \ withheld IN
       last' = shows \cap (Ought \cup withheld \cup (IF field.name = "secret" THEN {field.form} ELSE {}))
    /\ Compiled /\ UNCHANGED <<pins, budget, kept_, unlisted, going, trail, console, made>>

\* _to_exchange, attach_to: a call that is recorded shows its address, headers and bodies redacted.
Exchange(field) ==
    /\ field.name = "secret" /\ last' = Redacted(field) \cap {field.form}
    /\ UNCHANGED <<pins, budget, kept_, pattern, stale, unlisted, going, trail, console, made>>

\* CliHandler.emit and _ConsoleHold.keeps: while another thread has a window up a line is
\* held; otherwise it goes to stdout, which _Tee masks for the console and the transcript.
LogLine(thread, field) ==
    /\ IF console.owner \notin {"none", thread}
       THEN /\ Len(console.held) < MaxHeld /\ console' = [console EXCEPT !.held = Append(@, field)]
            /\ UNCHANGED <<last, pattern, stale, made>>
       ELSE last' = Masked(field) \cap Ought /\ Compiled /\ UNCHANGED console
    /\ UNCHANGED <<pins, budget, kept_, unlisted, going, trail, made>>

\* _ConsoleHold: a window may be opened within a window; the last one to close hands out the
\* lines, which are masked only now.
WindowOpens(thread) ==
    /\ console.owner \in {"none", thread} /\ console.depth < 2
    /\ console' = [console EXCEPT !.owner = thread, !.depth = @ + 1]
    /\ UNCHANGED <<pins, budget, kept_, pattern, stale, unlisted, going, trail, last, made>>
WindowCloses(thread) ==
    /\ console.owner = thread
    /\ IF console.depth > 1 THEN console' = [console EXCEPT !.depth = @ - 1] /\ UNCHANGED <<last, pattern, stale>>
       ELSE /\ console' = NoWindow /\ Compiled
            /\ last' = (UNION {Masked(f) : f \in Range(console.held)}) \cap Ought
    /\ UNCHANGED <<pins, budget, kept_, unlisted, going, trail, made>>

SNext ==
    \/ EmitWrites
    \/ \E j \in Jobs : ReleaseRun(j)
    \/ \E t \in Tokens : RegisterForProcess(t)
    \/ \E j \in Jobs, t \in Tokens : TokenRequest(j, t) \/ BasicAuth(j, t) \/ Base64(j, t) \/ ApiKeyOutput(j, t)
    \/ \E j \in Jobs, t \in Tokens, x \in {"yes", "no"} : RegisterSecret(j, t, x)
    \/ \E f \in Field : Exchange(f)
    \/ \E f \in Lines : EmitMasks(f)
    \/ \E j \in Jobs, f \in Field : AsKept(j, f)
    \/ \E th_ \in {"loop", "worker"}, f \in Lines : LogLine(th_, f)
    \/ WindowOpens("loop") \/ WindowCloses("loop")

SSpec == SInit /\ [][SNext]_sVars

-----------------------------------------------------------------------------
\* No record shows a value that was registered when it was masked: not by an open run, not by
\* one that released it and nobody evicted since, not under a secret name, and in a step's own
\* result not even one beyond the budget.  No line stays behind when the window is gone, and
\* no two events of a trace have the same id or a number out of order.
NoSecretWritten ==
    /\ last = {}
    /\ console.owner = "none" => console.held = <<>>
    /\ \A i, k \in DOMAIN trail : i < k => trail[i].id # trail[k].id /\ trail[i].seq < trail[k].seq
=============================================================================
