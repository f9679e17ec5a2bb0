------------------------------- MODULE RunSetup -------------------------------
(***************************************************************************)
(* What a run does before its first test (TestlabPlayer.open_session): the *)
(* deployment the operator configured and registered, the inputs of the    *)
(* run written over it, what the package requires of it, the services and  *)
(* handles made of the result, and the mock server; and what its steps     *)
(* then send where. _open_session has no await, so a run opens in one      *)
(* step; the host and the other runs of the player come in between.        *)
(* A URL is its origin, the empty string is a field left empty. The        *)
(* registries, which take no key, are left out; release stands for the     *)
(* standard and its version too, which travel the same way.                *)
(***************************************************************************)
EXTENDS Naturals, Sequences, SequencesExt, SequenceFilter

CONSTANTS
    SetupRuns,    \* the runs of one player
    Names,        \* the names deployments are registered under
    Layers,       \* config files, environments and callers' blocks: fields some of them state
    RunInputs,    \* what an operator hands a run: such fields, and other names
    Packages,     \* [needs, release, carries, asks, typed]
    Addresses,    \* the origins a request of a test is sent to
    Policies,     \* [released, movable]: credential_release and binding_overrides
    MaxHostActs   \* deployments registered, overlaid or activated while runs are open

VARIABLES
    policy,    \* the config of the engine
    profiles,  \* [name -> deployment]
    active,    \* the name of the deployment the next run uses
    run,       \* [run -> what it was opened with and holds]
    manager,   \* a CallbackManager is set in the process
    server,    \* who answers inbound calls: "none", "host", "player"
    sent,      \* what a step sent last: [run, side, key, to, by]
    hostActs
setupVars == <<policy, profiles, active, run, manager, server, sent, hostActs>>

-----------------------------------------------------------------------------
(* models/domain: what can be bound *)

Sides == {"engine", "sut"}
Leaves == {"management_url", "dsp_url", "participant_id", "api_key", "version", "name"}
Fields == Sides \X Leaves
Empty == [f \in Fields |-> ""]
Origins(d, side) == d[<<side, "management_url">>]

\* identity_field: the engine's connector is operated, the counter-party's only talked to.
Identity(side) == IF side = "engine" THEN "management_url" ELSE "dsp_url"
OperatorFields(side) == {Identity(side), "participant_id"}
IsBound(d, side) == d[<<side, Identity(side)>>] # ""
MissingFields(d, side) == {leaf \in OperatorFields(side) : d[<<side, leaf>>] = ""}

-----------------------------------------------------------------------------
(* infrastructure/mapping and profiles: layers and overrides *)

\* merge, and apply_overrides with credentials_follow: what is stated is written over.
Merge(d, stated) == [f \in Fields |-> IF f \in DOMAIN stated THEN stated[f] ELSE d[f]]

\* _strand_moved_credentials: a key whose capability moved to another origin is dropped,
\* unless the run supplied it.
Stranded(d, stated, f) ==
    /\ f[2] = "api_key" /\ f \notin DOMAIN stated
    /\ Origins(d, f[1]) # "" /\ Origins(d, f[1]) # Origins(Merge(d, stated), f[1])

\* Mutant of ApplyOverrides: the key follows its address.
KeysFollow(d, stated) == Merge(d, stated)

\* InfrastructureManager.resolve: the run's own overrides over the active deployment.
ApplyOverrides(d, stated) ==
    [f \in Fields |-> IF Stranded(d, stated, f) THEN "" ELSE Merge(d, stated)[f]]

\* ConfigLoader._load_infrastructure: the file, the environment over it, the caller over both.
LoadInfrastructure(file, env, caller) == Merge(Merge(Merge(Empty, file), env), caller)

\* InfrastructureManager.align: what the TCK certifies, on every bound capability.
Release(pkg) == IF pkg.release = "" THEN "saturn" ELSE pkg.release
Conflicts(d, pkg) ==
    {side \in Sides : /\ IsBound(d, side) /\ pkg.release # ""
                      /\ d[<<side, "version">>] \notin {"", pkg.release}}
Align(d, pkg) ==
    [f \in Fields |-> IF f[2] = "version" /\ IsBound(d, f[1]) /\ d[f] = "" THEN Release(pkg) ELSE d[f]]

-----------------------------------------------------------------------------
(* player/execution: what a run is seeded with, bound to and served by *)

\* seed_context_variables: the package's values are templates, the run's inputs data over them.
SeededTemplates(pkg, input) == DOMAIN pkg.carries \ DOMAIN input

\* _run_inputs and collect_overrides: what may re-point a binding.
CollectOverrides(pkg, input) ==
    LET store == [f \in DOMAIN input \cup DOMAIN pkg.carries |->
                    IF f \in DOMAIN input THEN input[f] ELSE pkg.carries[f]]
        data == {f \in DOMAIN store : f \in Fields /\ f \notin SeededTemplates(pkg, input)} IN
    [f \in data |-> store[f]]

\* require_inputs, the typo of collect_overrides, _refuse_held_sides, validate and align.
Refusals(pkg, input) ==
    LET over == CollectOverrides(pkg, input)  d == ApplyOverrides(profiles[active], over) IN
    (IF \A n \in pkg.asks : n \in DOMAIN input /\ input[n] # "" THEN {} ELSE {"input"})
    \cup (IF \E f \in DOMAIN input : f[1] \in Sides /\ f \notin Fields THEN {"unknown"} ELSE {})
    \cup (IF \A f \in DOMAIN over : f[1] \in policy.movable THEN {} ELSE {"held"})
    \cup (IF \A side \in pkg.needs : MissingFields(d, side) = {} THEN {} ELSE {"missing"})
    \cup (IF Conflicts(d, pkg) = {} THEN {} ELSE {"release"})

Resolved(pkg, input) == Align(ApplyOverrides(profiles[active], CollectOverrides(pkg, input)), pkg)

\* secret_values, registered by publish_bindings, and the inputs named like a credential.
Masked(d, input) ==
    ({d[<<side, "api_key">>] : side \in {s \in Sides : IsBound(d, s)}}
     \cup {input[f] : f \in {g \in DOMAIN input : g[2] = "api_key"}}) \ {""}

\* flatten and publish_bindings: what infrastructure.<side>.connector.<leaf> reads as, to the
\* end of the run (seal_bindings).
Published(d) ==
    [f \in Fields |-> IF ~IsBound(d, f[1]) \/ d[f] = "" THEN "unset"
                      ELSE IF f[2] = "api_key" THEN "handle" ELSE d[f]]

\* _connector_definition
Connector(name, type, side, d) ==
    [name |-> name, type |-> type, side |-> side, url |-> Origins(d, side), key |-> d[<<side, "api_key">>],
     version |-> IF d[<<side, "version">>] = "" THEN "saturn" ELSE d[<<side, "version">>]]

\* seed_infrastructure_services, in the order of registration.
SeedServices(d) ==
    LET alias == d[<<"engine", "name">>]
        If(b, svc) == IF b THEN <<svc>> ELSE <<>> IN
    If(IsBound(d, "engine"), Connector("__engine_connector__", "consumer", "engine", d))
    \o If(IsBound(d, "engine") /\ alias # "", Connector(alias, "provider", "engine", d))
    \o If(Origins(d, "sut") # "", Connector("__sut_connector__", "provider", "sut", d))
    \o If(IsBound(d, "engine"), Connector("__engine_connector_provider__", "provider", "engine", d))

\* DataspaceAccess.provider, consumer (_first_of) and engine_provider.
Lookup(services, role) ==
    Filter(services, {s \in ToSet(services) :
        IF role = "engine_provider" THEN s.name = "__engine_connector_provider__"
        ELSE s.name # "__engine_connector_provider__" /\ s.type = role})
Roles == {"provider", "consumer", "engine_provider"}

NotOpened == [pc |-> "none", base |-> Empty, input |-> <<>>, pkg |-> <<>>, bound |-> Empty, services |-> <<>>,
              masked |-> {}]
NothingSent == [run |-> "none", side |-> "none", key |-> "", to |-> "", by |-> "none"]

-----------------------------------------------------------------------------
SetupInit ==
    /\ policy \in Policies /\ active = "default"
    /\ \E file, env, caller \in Layers : profiles = [n \in {active} |-> LoadInfrastructure(file, env, caller)]
    /\ run = [r \in SetupRuns |-> NotOpened]
    /\ \/ manager = "none" /\ server = "none"
       \/ manager = "set" /\ server = "host"      \* testlab serve: create_app set it
    /\ sent = NothingSent /\ hostActs = 0

\* InfrastructureManager.register, overlay and activate.
HostActs(prof, act) ==
    /\ hostActs < MaxHostActs /\ hostActs' = hostActs + 1
    /\ profiles' = prof /\ active' = act
    /\ UNCHANGED <<policy, run, manager, server, sent>>
Register(n, layer, activate) ==
    HostActs([m \in DOMAIN profiles \cup {n} |-> IF m = n THEN Merge(Empty, layer) ELSE profiles[m]],
             IF activate = "yes" THEN n ELSE active)
Overlay(layer) == HostActs([profiles EXCEPT ![active] = Merge(@, layer)], active)
Activate(n) == n \in DOMAIN profiles \ {active} /\ HostActs(profiles, n)

\* _ensure_callback_manager: a manager and a server, unless a manager is there.
EnsureCallbackManager ==
    IF manager = "set" THEN UNCHANGED <<manager, server>>
    ELSE manager' = "set" /\ server' = "player"

\* _open_session: the run is seeded, bound, published, served and sealed.
OpenSession(r, pkg, input) ==
    /\ run[r].pc = "none" /\ pkg.typed = "yes" /\ Refusals(pkg, input) = {}
    /\ LET d == Resolved(pkg, input) IN
       run' = [run EXCEPT ![r] =
            [pc |-> "open", base |-> profiles[active], input |-> input, pkg |-> pkg, bound |-> d,
             services |-> SeedServices(d), masked |-> Masked(d, input)]]
    /\ EnsureCallbackManager
    /\ UNCHANGED <<policy, profiles, active, sent, hostActs>>

\* A run that is refused fails its job; one whose value is not of its type raises before that.
\* What either had registered is released with its records.
OpenFails(r, pkg, input) ==
    /\ run[r].pc = "none" /\ (pkg.typed = "no" \/ Refusals(pkg, input) # {})
    /\ run' = [run EXCEPT ![r].pc = IF pkg.typed = "no" THEN "raised" ELSE "refused"]
    /\ UNCHANGED <<policy, profiles, active, manager, server, sent, hostActs>>

Send(r, side, key, to, by) == sent' = [run |-> r, side |-> side, key |-> key, to |-> to, by |-> by]

\* A connector step: ServiceManager.get makes the service, which presents its key.
StepCalls(r, role) ==
    /\ run[r].pc = "open" /\ Lookup(run[r].services, role) # <<>>
    /\ LET s == Lookup(run[r].services, role)[1] IN Send(r, s.side, s.key, s.url, role)
    /\ UNCHANGED <<policy, profiles, active, run, manager, server, hostActs>>

\* http_request with a handle in a header, to any address: Credential.reveal_for.
RevealFor(d, side, url) == side \in policy.released /\ url # "" /\ url = Origins(d, side)
StepSends(r, side, url) ==
    /\ run[r].pc = "open" /\ Published(run[r].bound)[<<side, "api_key">>] = "handle"
    /\ RevealFor(run[r].bound, side, url)
    /\ Send(r, side, run[r].bound[<<side, "api_key">>], url, "request")
    /\ UNCHANGED <<policy, profiles, active, run, manager, server, hostActs>>

\* TckSession.close: services torn down, _stop_mock_server, records closed.
CloseRun(r) ==
    /\ run[r].pc = "open"
    /\ run' = [run EXCEPT ![r] = [NotOpened EXCEPT !.pc = "closed"]]
    /\ server' = IF server = "player" THEN "none" ELSE server
    /\ sent' = IF sent.run = r THEN NothingSent ELSE sent
    /\ UNCHANGED <<policy, profiles, active, manager, hostActs>>

SetupNext ==
    \/ \E r \in SetupRuns :
        \/ \E pkg \in Packages, input \in RunInputs : OpenSession(r, pkg, input) \/ OpenFails(r, pkg, input)
        \/ \E role \in Roles : StepCalls(r, role)
        \/ \E side \in Sides, url \in Addresses : StepSends(r, side, url)
        \/ CloseRun(r)
    \/ \E n \in Names : Activate(n) \/ \E layer \in Layers, a \in {"yes", "no"} : Register(n, layer, a)
    \/ \E layer \in Layers : Overlay(layer)
SetupSpec == SetupInit /\ [][SetupNext]_setupVars

-----------------------------------------------------------------------------
(* Properties *)

\* The address a side of an open run has: the run's inputs' or the deployment's at its opening.
OwnAddress(r, side) ==
    LET f == <<side, "management_url">> IN
    IF f \in DOMAIN run[r].input THEN run[r].input[f] ELSE run[r].base[f]

\* A credential goes nowhere it was not given for. What a step of a run sent last went to the
\* address the run's inputs or, without one, the deployment as it was when the run opened has
\* for that side, whatever the package carries under the same name and whatever the host
\* registered, overlaid or activated since. The key sent is the one the inputs gave, or the
\* deployment's own for that very origin (or for a binding that had no address yet). A
\* request of a test carries a side's key only where the config releases that side, a side
\* the config holds has the address it was configured with, and a key of a bound side is
\* masked while the run is open. A provider step reaches the system under test unless the
\* engine's connector was given a name.
KeysStayHome == sent.run # "none" =>
    LET me == run[sent.run]  side == sent.side  key == <<side, "api_key">>
        home == me.base[<<side, "management_url">>] IN
    /\ sent.to = OwnAddress(sent.run, side)
    /\ sent.key \in {"", IF key \in DOMAIN me.input THEN me.input[key] ELSE me.base[key]}
    /\ sent.key # "" /\ key \notin DOMAIN me.input => home \in {"", sent.to}
    /\ sent.by = "request" => side \in policy.released
    /\ side \notin policy.movable => sent.to = home
    /\ sent.key # "" /\ IsBound(me.bound, side) => sent.key \in me.masked
    /\ sent.by = "provider" /\ me.bound[<<"engine", "name">>] = "" => side = "sut"

\* _ensure_callback_manager: "Ensure a CallbackManager and mock server exist for callback steps."
\* The code does not keep this one (README, divergences); no run lists it.
MocksServed == (\E r \in SetupRuns : run[r].pc = "open") => server # "none"
=============================================================================
