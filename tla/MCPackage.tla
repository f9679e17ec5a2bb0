------------------------------- MODULE MCPackage -------------------------------
\* A package from its sources to the runs of it, one part per behaviour. Its life: a TCK of two
\* tests, an older player without a post-quantum pair and a newer one. And the opening of two
\* runs by a player: a deployment that binds both sides, one that moves the engine's connector
\* and names it, one with a key and no address; inputs that move a side with and without a key
\* of its own, misspell a name or supply a value that is asked for; packages that carry an
\* address, need the sides, state a release or ask for an input.
EXTENDS PackageLife, RunSetup
VARIABLE part

Stp(i, u, r, c) == [id |-> i, uses |-> u, returns |-> r, checks |-> c]
MCTexts ==
    [v1 |-> [setup |-> <<Stp("s", "mock", {"a"}, <<>>)>>,
             execution |-> <<Stp("s", "call", {"a", "b"}, <<"assert">>), Stp("c", "validate", {}, <<>>)>>,
             teardown |-> <<>>, needs |-> {"connector"}],
     v2 |-> [setup |-> <<>>, execution |-> <<Stp("s", "call", {"a"}, <<>>), Stp("s", "call", {"b"}, <<>>)>>,
             teardown |-> <<Stp("s", "call", {"a"}, <<>>)>>, needs |-> {"dtr"}],
     bad |-> [setup |-> <<>>, execution |-> <<>>, teardown |-> <<>>, needs |-> {}]]
MCIndex == [tests |-> <<"t1", "t2">>, assets |-> {"f1", "f2"}, variables |-> {"x"}, needs |-> {}]

T(t1, t2, b1, f) == [tests |-> [t1 |-> t1, t2 |-> t2], beside |-> [t1 |-> b1, t2 |-> "none"], assets |-> [f1 |-> f, f2 |-> "none"]]
MCTree0 == T("v1", "v2", "none", "v1")
MCTrees == {T("v2", "v2", "v1", "v2"), T("bad", "v1", "none", "v1")}

D(a, b, c) == [f \in ToSet(KeyFiles) |-> CASE f \in {"enc.pem", "enc.pub"} -> a [] f \in {"sig.pem", "sig.pub"} -> b [] OTHER -> c]
MCKeyDirs == [compiler |-> D(1, 1, 0), old |-> D(2, 2, 0), new |-> D(3, 3, 3)]

At(side, leaf, v) == <<side, leaf>> :> v
Both == At("engine", "management_url", "E") @@ At("engine", "api_key", "ke") @@ At("engine", "participant_id", "i")
        @@ At("sut", "management_url", "S") @@ At("sut", "dsp_url", "S") @@ At("sut", "api_key", "ks") @@ At("sut", "participant_id", "i")
Moved == At("engine", "management_url", "F") @@ At("engine", "name", "lab") @@ At("sut", "version", "jupiter")
Keyed == At("engine", "api_key", "kf") @@ At("sut", "management_url", "S")
MCLayers == {Both, Moved, Keyed}
MCInputs == {<<>>, At("engine", "management_url", "X"), At("engine", "management_url", "E") @@ At("tck", "x", "v"),
             At("engine", "management_url", "X") @@ At("engine", "api_key", "kx"), At("sut", "management_url", "Y"),
             At("sut", "dsp_url", "Y") @@ At("sut", "api_key", "ky"), At("sut", "managment_url", "Y")}
Pk == [needs |-> {}, release |-> "", carries |-> <<>>, asks |-> {}, typed |-> "yes"]
MCPackages == {[Pk EXCEPT !.carries = At("engine", "management_url", "P")], [Pk EXCEPT !.needs = {"engine", "sut"}, !.release = "saturn"],
               [Pk EXCEPT !.asks = {<<"tck", "x">>}], [Pk EXCEPT !.typed = "no"]}
MCPolicies == {[released |-> {"sut"}, movable |-> {"engine", "sut"}], [released |-> {"engine"}, movable |-> {"sut"}]}

\* The second run comes after the first, of one package and without inputs.
SecondIsPlain == run'["r2"].pc # "none" => /\ run["r1"].pc # "none" /\ run'["r2"].input = <<>>
                                           /\ run'["r2"].pkg \in {<<>>, [Pk EXCEPT !.carries = At("engine", "management_url", "P")]}
Parts == {"life", "setup"}
Init ==
    /\ part \in Parts /\ PInit /\ SetupInit
    /\ part # "setup" => /\ policy = [released |-> {"sut"}, movable |-> {"engine", "sut"}] /\ server = "none"
                         /\ profiles[active] = LoadInfrastructure(Both, Both, Both)
    /\ \E file \in {Both, Keyed}, env \in {Both, Moved} : profiles[active] = LoadInfrastructure(file, env, env)
Next ==
    /\ UNCHANGED part
    /\ \/ part = "life" /\ PNext /\ UNCHANGED setupVars
       \/ part = "setup" /\ SetupNext /\ SecondIsPlain /\ UNCHANGED pVars
Spec == Init /\ [][Next]_<<part, pVars, setupVars>>
=============================================================================
