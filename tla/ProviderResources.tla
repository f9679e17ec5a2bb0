-------------------------- MODULE ProviderResources ---------------------------
(***************************************************************************)
(* What the runs provision on a connector they share (steps/connector/     *)
(* provision, cleanup, steps/http/resource_namespace): assets, policies    *)
(* and contract definitions, each named once within the namespace of its   *)
(* run, created by a typed step or by a raw HTTP call, and deleted by id.  *)
(***************************************************************************)
EXTENDS Naturals, Sequences

CONSTANTS Runs,     \* the runs that share the connector
          Locals,   \* the ids tests are written with
          MaxMade   \* bound: creations asked for

ASSUME ProviderAssumption == MaxMade \in Nat /\ Runs \cap Locals = {} /\ "none" \notin Runs

\* An id is the prefixes it bears and what is left.  A test writes a local one, or one that
\* already bears the prefix of some run, its own or not; the connector has what became of
\* them.  A policy or an asset left out of a definition is the empty id.
Written == {<<l>> : l \in Locals} \cup {<<r, l>> : r \in Runs, l \in Locals}
Prefixed(r, id) == <<r>> \o id
Ids == Written \cup {Prefixed(r, w) : r \in Runs, w \in Written}
NoId == <<>>

VARIABLES
    assets,   \* the connector: the assets it has
    owner,    \* the run that made each asset (history)
    key,      \* the mock key the data address of an asset forwards
    policies, \* the connector: its policy definitions
    defs,     \* the connector: its contract definitions
    fronts,   \* the assets each run was told front its mock
    made      \* creations asked for
pVars == <<assets, owner, key, policies, defs, fronts, made>>

\* A criterion of a selector: the asset with an id, the assets of a namespace, or anything
\* else a test can ask for, which does not tell runs apart.
Criteria == [op : {"=", "like", "other"}, id : Ids \cup {<<r>> : r \in Runs} \cup {NoId}]

PTypeOK ==
    /\ assets \subseteq Ids /\ policies \subseteq Ids
    /\ owner \in [Ids -> Runs \cup {"none"}] /\ key \in [Ids -> Runs \cup {"none"}]
    /\ \A a \in Ids : owner[a] # "none" <=> a \in assets
    /\ \A d \in defs : d.id \in Ids /\ d.by \in Runs /\ d.selector \subseteq Criteria /\ d.policy \in Ids \cup {NoId}
    /\ \A d, e \in defs : d.id = e.id => d = e
    /\ fronts \in [Runs -> SUBSET Ids]
    /\ made \in 0..MaxMade

PInit ==
    /\ assets = {} /\ policies = {} /\ defs = {} /\ made = 0
    /\ owner = [a \in Ids |-> "none"] /\ key = [a \in Ids |-> "none"]
    /\ fronts = [r \in Runs |-> {}]

-----------------------------------------------------------------------------
\* Whether an id starts with the prefix of a run.
Owns(r, id) == id # NoId /\ Head(id) = r

\* Mutant of ResourceId: an id that bears a prefix is taken as it is, whoever's that is.
ResourceIdAsWritten(r, id) == IF id = NoId \/ Head(id) \in Runs THEN id ELSE Prefixed(r, id)

\* StepContext.resource_id: an id is scoped once.
ResourceId(r, id) == IF id = NoId \/ Owns(r, id) THEN id ELSE Prefixed(r, id)

\* An asset offered by a definition satisfies every criterion of its selector (external).
Satisfies(a, c) ==
    \/ c.op = "=" /\ a = c.id
    \/ c.op = "like" /\ Owns(Head(c.id), a)
    \/ c.op = "other"
Offered(d) == {a \in assets : \A c \in d.selector : Satisfies(a, c)}

\* The connector keeps what it has under an id it is asked to create again: a 409, which
\* the creating steps take for "already there".
Asks == made < MaxMade /\ made' = made + 1

PutAsset(r, id, k) ==
    IF id \in assets THEN UNCHANGED <<assets, owner, key>>
    ELSE /\ assets' = assets \cup {id}
         /\ owner' = [owner EXCEPT ![id] = r] /\ key' = [key EXCEPT ![id] = k]

PutDefinition(d) ==
    defs' = IF \E e \in defs : e.id = d.id THEN defs ELSE defs \cup {d}

CreateAsset(r, id) ==
    /\ Asks /\ PutAsset(r, ResourceId(r, id), "none")
    /\ UNCHANGED <<policies, defs, fronts>>

CreatePolicy(r, id) ==
    /\ Asks /\ policies' = policies \cup {ResourceId(r, id)}
    /\ UNCHANGED <<assets, owner, key, defs, fronts>>

\* CreateMockAssetStep: the asset forwards the key of the run's mock, and one that is
\* already there fails the step.  A mock without a key is refused before anything is asked.
CreateMockAsset(r, id) ==
    /\ Asks /\ PutAsset(r, ResourceId(r, id), r)
    /\ fronts' = IF ResourceId(r, id) \in assets THEN fronts
                 ELSE [fronts EXCEPT ![r] = @ \cup {ResourceId(r, id)}]
    /\ UNCHANGED <<policies, defs>>

\* The selector a definition is posted with: the ids it names scoped, and the namespace of
\* the run a criterion of its own.
ScopedSelector(r, selector) ==
    {IF c.op = "=" THEN [c EXCEPT !.id = ResourceId(r, @)] ELSE c : c \in selector}
      \cup {[op |-> "like", id |-> <<r>>]}

\* What a test may ask a definition to select, and the policy it names.
Selectors == {{[op |-> "=", id |-> i]} : i \in Written \cup {NoId}} \cup {{[op |-> "other", id |-> NoId]}}
               \cup {{[op |-> "like", id |-> <<q>>]} : q \in Runs}

CreateContractDefinition(r, id, selector, policy) ==
    /\ Asks
    /\ PutDefinition([id |-> ResourceId(r, id), by |-> r, selector |-> ScopedSelector(r, selector),
                      policy |-> ResourceId(r, policy)])
    /\ UNCHANGED <<assets, owner, key, policies, fronts>>

\* require_resource_namespace: a raw POST is let through when the id, the policy and one
\* criterion of the selector are the run's own.
RequireResourceNamespace(r, id, selector, policy) ==
    /\ Owns(r, id) /\ Owns(r, policy)
    /\ \E c \in selector : c.op \in {"=", "like"} /\ Owns(r, c.id)

\* An HttpRequestStep that posts to the management API of the engine's connector, with the
\* wire body untouched; one the guard turns down fails before it is sent.
RawAsset(r, id) ==
    /\ Owns(r, id) /\ Asks /\ PutAsset(r, id, "none")
    /\ UNCHANGED <<policies, defs, fronts>>

RawPolicy(r, id) ==
    /\ Owns(r, id) /\ Asks /\ policies' = policies \cup {id}
    /\ UNCHANGED <<assets, owner, key, defs, fronts>>

RawDefinition(r, id, selector, policy) ==
    /\ RequireResourceNamespace(r, id, selector, policy)
    /\ Asks
    /\ PutDefinition([id |-> id, by |-> r, selector |-> selector, policy |-> policy])
    /\ UNCHANGED <<assets, owner, key, policies, fronts>>

\* The delete steps take the id as it is given, or from a variable, unscoped.
DeleteAsset(id) ==
    /\ id \in assets
    /\ assets' = assets \ {id}
    /\ owner' = [owner EXCEPT ![id] = "none"] /\ key' = [key EXCEPT ![id] = "none"]
    /\ fronts' = [r \in Runs |-> fronts[r] \ {id}]
    /\ UNCHANGED <<policies, defs, made>>

DeletePolicy(id) ==
    /\ id \in policies /\ policies' = policies \ {id}
    /\ UNCHANGED <<assets, owner, key, defs, fronts, made>>

DeleteDefinition(id) ==
    /\ \E d \in defs : d.id = id
    /\ defs' = {d \in defs : d.id # id}
    /\ UNCHANGED <<assets, owner, key, policies, fronts, made>>

PNext ==
    \/ \E r \in Runs, id \in Written :
          \/ CreateAsset(r, id) \/ CreateMockAsset(r, id) \/ CreatePolicy(r, id) \/ RawAsset(r, id) \/ RawPolicy(r, id)
          \/ \E selector \in Selectors, policy \in Written \cup {NoId} :
                CreateContractDefinition(r, id, selector, policy) \/ RawDefinition(r, id, selector, policy)
    \/ \E id \in Ids : DeleteAsset(id) \/ DeletePolicy(id) \/ DeleteDefinition(id)
PSpec == PInit /\ [][PNext]_pVars

-----------------------------------------------------------------------------
\* A contract definition offers the assets of the run that made it and of no other, however
\* the tests of the runs spell their ids and selectors, and governs them by its own policies;
\* and an asset a run was told fronts its mock forwards that run's key (CreateMockAssetStep), not
\* one that a former run left behind under the same id.
\* (With the types of the connector's inventory.)
OffersOwnAssets ==
    /\ PTypeOK
    /\ \A d \in defs : /\ \A a \in Offered(d) : owner[a] = d.by
                       /\ d.policy \in policies => Owns(d.by, d.policy)
    /\ \A r \in Runs : \A a \in fronts[r] : a \in assets /\ key[a] = r
=============================================================================
