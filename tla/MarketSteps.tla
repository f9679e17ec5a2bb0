----------------------------- MODULE MarketSteps ------------------------------
(***************************************************************************)
(* From a catalog to an offer (steps/connector: catalog_query,             *)
(* catalog_filter, discover_connector, extract, datasets_select, policies, *)
(* policy_reading, policy_mismatch, offer_guard, do_dsp): what the catalog *)
(* steps publish, which offer a choice stands for, and which one a         *)
(* complete flow negotiates or refuses.  The provider changes its catalog  *)
(* between the steps.                                                      *)
(***************************************************************************)
EXTENDS Naturals, Sequences, SequencesExt, FiniteSets, SequenceFilter

CONSTANTS Catalogs,   \* the catalogs the provider may have: sequences of datasets
          Policies,   \* the policies a test may expect
          MaxAsked    \* bound: steps run

Pos == <<"1", "2", "3", "4">>  \* the places an offer has in its dataset; an id may be one of them
Constraints == UNION {UNION {Range(g) : g \in Range(p.groups)} : p \in Policies}
Offers == [id : STRING, policy : Policies]
Datasets == UNION {Range(c) : c \in Catalogs}

\* A dataset is [asset, type, offers], an offer [id, policy], a policy [groups, other]: its
\* constraints in and/or groups, and the rest of the document.  "" is an id left out; no id ends
\* in the "#n" an option is told apart by.
ASSUME MarketAssumption ==
    /\ MaxAsked \in Nat
    /\ \A p \in Policies : p.groups \in Seq(Seq(Constraints))
    /\ \A c \in Catalogs : c \in Seq(Datasets)
    /\ \A d \in Datasets : d.offers \in Seq(Offers) /\ Len(d.offers) <= Len(Pos)

VARIABLES
    catalog,  \* what the provider has on offer now
    datasets, \* what the last catalog query published
    shown,    \* the options the operator is asked to choose from: [id, asset, offer]
    chosen,   \* what the choice published: [option, asset, offer]
    deal,     \* the offers negotiated by a complete flow: [policy, expected]
    said,     \* what else the last step said: why it failed, or what it discovered
    asked     \* steps run
mVars == <<catalog, datasets, shown, chosen, deal, said, asked>>

NoRefusal == [kind |-> "none"]
MInit ==
    /\ catalog \in Catalogs /\ datasets = <<>> /\ shown = <<>> /\ chosen = <<>>
    /\ deal = {} /\ said = NoRefusal /\ asked = 0

Asked == asked < MaxAsked /\ asked' = asked + 1
ProviderChanges == Asked /\ catalog' \in Catalogs \ {catalog} /\ UNCHANGED <<datasets, shown, chosen, deal, said>>

-----------------------------------------------------------------------------
(* Asking for the catalog. *)

\* discovery_address: discovery appends the version path, so one that is there is dropped;
\* no address is resolved from the BPN.
DiscoveryAddress(address) == IF address = "versioned" THEN "root" ELSE address

\* DiscoverConnectorStep._read: the key under the namespace, or bare.
ReadKey(document, key) == IF <<"ns", key>> \in document THEN <<"ns", key>> ELSE <<"", key>>

\* DiscoverConnectorStep: the whole of endpoint, identity and protocol, or a failed step; a
\* service that is not a Saturn one offers no discovery.
Discovery(document) ==
    LET keys == {"address", "id", "protocol"} IN
    IF \A k \in keys : ReadKey(document, k) \in document THEN {ReadKey(document, k) : k \in keys} ELSE {}

DiscoverConnector(document) ==
    /\ Asked
    /\ said' = IF Discovery(document) = {} THEN [kind |-> "no_discovery"] ELSE [kind |-> "discovered", keys |-> Discovery(document)]
    /\ UNCHANGED <<catalog, datasets, shown, chosen, deal>>

\* MockDiscoveryStep: the mapped ones of the BPNs asked for, all of them when none is named.
MockDiscovered(mapping, bpns) ==
    LET wanted == IF bpns = <<>> THEN SetToSeq(DOMAIN mapping) ELSE bpns IN
    [b \in Range(wanted) \cap DOMAIN mapping |-> mapping[b]]

MockDiscovery(mapping, bpns) ==
    /\ Asked /\ said' = [kind |-> "mapped", found |-> MockDiscovered(mapping, bpns)]
    /\ UNCHANGED <<catalog, datasets, shown, chosen, deal>>

\* The datasets a filter lets through (the provider's doing; external).
Filtered(filter) == Filter(catalog, {d \in Datasets : filter = "" \/ d.asset = filter})

\* QueryCatalogStep and QueryCatalogWithFiltersStep: no catalog at all fails the step, a
\* catalog without datasets does not; one dataset may come as a bare object.
QueryCatalog(filter, gone) ==
    /\ Asked
    /\ datasets' = IF gone = "yes" THEN <<>> ELSE Filtered(filter)
    /\ shown' = <<>> /\ chosen' = <<>>
    /\ said' = IF gone = "yes" THEN [kind |-> "no_catalog"] ELSE NoRefusal
    /\ UNCHANGED <<catalog, deal>>

\* _first_offer: the first dataset that has one.
FirstOffer(ds) ==
    LET offering == SelectSeq(ds, LAMBDA d : d.offers # <<>>) IN
    IF offering = <<>> THEN <<>> ELSE <<[asset |-> Head(offering).asset, offer |-> Head(Head(offering).offers)]>>

\* QueryCatalogByAssetIdStep: the first offer too, when the catalog has one.
QueryByAsset(asset) ==
    /\ Asked /\ datasets' = Filtered(asset)
    /\ chosen' = IF FirstOffer(Filtered(asset)) = <<>> THEN <<>>
                 ELSE LET f == Head(FirstOffer(Filtered(asset))) IN <<[option |-> <<>>, asset |-> f.asset, offer |-> f.offer]>>
    /\ shown' = <<>> /\ said' = NoRefusal
    /\ UNCHANGED <<catalog, deal>>

\* QueryCatalogByBpnlStep: through discovery; an empty answer is published as it is.
QueryByBpnl(address) ==
    /\ Asked /\ datasets' = IF DiscoveryAddress(address) = "versioned" THEN <<>> ELSE Filtered("")
    /\ shown' = <<>> /\ chosen' = <<>> /\ said' = NoRefusal
    /\ UNCHANGED <<catalog, deal>>

-----------------------------------------------------------------------------
(* Taking an offer out of what was published. *)

\* ExtractDatasetStep: the first dataset of the type with its first offer, or nothing.
ExtractDataset(type) ==
    /\ Asked
    /\ LET match == SelectSeq(datasets, LAMBDA d : d.type = type) IN
       chosen' = IF match = <<>> \/ Head(match).offers = <<>> THEN <<>>
                 ELSE <<[option |-> <<>>, asset |-> Head(match).asset, offer |-> Head(Head(match).offers)]>>
    /\ said' = NoRefusal
    /\ UNCHANGED <<catalog, datasets, shown, deal>>

\* The offers of the datasets, each with its place; a dataset without an asset id has no options.
Offered(d) ==
    IF d.asset = "" THEN <<>> ELSE [k \in DOMAIN d.offers |-> [asset |-> d.asset, place |-> k, offer |-> d.offers[k]]]
AllOffered(ds) == Joined([k \in DOMAIN ds |-> Offered(ds[k])])

\* Mutant of OptionId: an option is named by its offer alone.
OptionIdPlain(o, before) == <<o.asset, IF o.offer.id = "" THEN Pos[o.place] ELSE o.offer.id>>

\* _pairs: the asset and the id of the offer, or its place; an id that is already there gets
\* the place in the whole list.
OptionId(o, before) ==
    LET plain == <<o.asset, IF o.offer.id = "" THEN Pos[o.place] ELSE o.offer.id>>
    IN  IF \E j \in DOMAIN before : before[j].id = plain THEN Append(plain, Len(before) + 1) ELSE plain

\* What _pairs has after each of the offers.
PairsUpTo(all) ==
    LET P[n \in 0..Len(all)] ==
          IF n = 0 THEN <<>>
          ELSE Append(P[n - 1], [id |-> OptionId(all[n], P[n - 1]), asset |-> all[n].asset, offer |-> all[n].offer])
    IN  P
PairsOf(ds) == PairsUpTo(AllOffered(ds))[Len(AllOffered(ds))]

\* SelectDatasetStep: the options are put to the operator ...
ShowOptions ==
    /\ Asked /\ datasets # <<>> /\ shown' = PairsOf(datasets) /\ chosen' = <<>>
    /\ UNCHANGED <<catalog, datasets, deal, said>>

\* ... and the id that comes back is looked up in the same pairs.
Choose(option) ==
    /\ chosen = <<>> /\ \E k \in DOMAIN shown : shown[k] = option
    /\ LET pair == Head(Filter(PairsOf(datasets), {p \in Range(PairsOf(datasets)) : p.id = option.id})) IN
       chosen' = <<[option |-> option, asset |-> pair.asset, offer |-> pair.offer]>>
    /\ UNCHANGED <<catalog, datasets, shown, deal, said, asked>>

-----------------------------------------------------------------------------
(* Policies: what a test expects and what an offer is made under. *)

\* as_raw_policy: text is read once, a variable that holds a policy is unwrapped as often as
\* it takes; what is left may be no policy at all (a policy is its wrappings, outermost first).
Wraps == UNION {[1..n -> {"text", "artifact"}] : n \in 0..3}
AsRawPolicy[w \in Wraps] ==
    LET read == IF w # <<>> /\ Head(w) = "text" THEN Tail(w) ELSE w IN
    IF read # <<>> /\ Head(read) = "artifact" THEN AsRawPolicy[Tail(read)] ELSE read

\* as_policy_list: one policy or several, each unwrapped again, respelled in ODRL and
\* without the keys only the author uses; nothing given stays nothing.
AsPolicyList(w) == AsRawPolicy[w] = <<>>

\* constraints_of: every atom of every rule, whichever group it is in.
ConstraintsOf(p) == Joined(p.groups)

\* offers_of: each offer of each dataset.
OffersOf(ds) == Joined([k \in DOMAIN ds |-> ds[k].offers])

\* _ordered: what is on one side and not on the other.
Without(xs, ys) == Filter(xs, Constraints \ Range(ys))

Compared(offered, expected, k) ==
    [policy |-> offered, index |-> k, more |-> Without(ConstraintsOf(offered), ConstraintsOf(expected[k])),
     less |-> Without(ConstraintsOf(expected[k]), ConstraintsOf(offered))]
Differences(c) == Len(c.more) + Len(c.less)

\* _closest: the expected policy with the fewest differences, the first of them.
Closest(offered, expected) ==
    LET cs == {Compared(offered, expected, k) : k \in DOMAIN expected} IN
    CHOOSE c \in cs : \A d \in cs : Differences(c) < Differences(d) \/ (Differences(c) = Differences(d) /\ c.index <= d.index)

\* compare: nothing to say when nothing is expected.
Compare(ds, expected) ==
    IF expected = <<>> THEN <<>> ELSE [k \in DOMAIN OffersOf(ds) |-> Closest(OffersOf(ds)[k].policy, expected)]

\* _explain: a said of another kind, or one without a catalog to compare, is told as it
\* came; an empty list of expected policies accepts no offer.
Explain(ds, expected) ==
    IF Compare(ds, expected) = <<>> /\ expected # <<>> THEN [kind |-> "as_it_came"]
    ELSE [kind |-> "mismatch", expected |-> expected, offers |-> Compare(ds, expected)]

\* The offer the SDK takes: the first made under an expected policy, in full; any when no
\* policies are given (external).
Taken(ds, given, expected) ==
    Filter(OffersOf(ds), IF given = "none" THEN Range(OffersOf(ds)) ELSE {o \in Range(OffersOf(ds)) : \E k \in DOMAIN expected : o.policy = expected[k]})

\* DoDspStep, DoDspWithBpnlStep and DiscoverDtrAuthStep: without filters the flow is refused
\* unless any offer will do; a flow that ends without an endpoint fails.
DoDsp(filter, allowAny, given, expected, wrap, endpoint) ==
    /\ Asked
    /\ LET ds == Filtered(filter)
           fit == Taken(ds, given, expected) IN
       IF filter = "" /\ allowAny = "no" THEN said' = [kind |-> "any_offer"] /\ UNCHANGED deal
       ELSE IF ~AsPolicyList(wrap) THEN said' = [kind |-> "no_policy"] /\ UNCHANGED deal
       ELSE IF fit = <<>> THEN said' = (IF given = "none" THEN [kind |-> "as_it_came"] ELSE Explain(ds, expected)) /\ UNCHANGED deal
       ELSE IF endpoint = "no" THEN said' = [kind |-> "no_endpoint"] /\ UNCHANGED deal
       ELSE /\ deal' = deal \cup {[policy |-> Head(fit).policy, given |-> given, expected |-> expected]}
            /\ said' = NoRefusal
    /\ UNCHANGED <<catalog, datasets, shown, chosen>>

Expected == {<<>>} \cup {<<p>> : p \in Policies} \cup {<<p, q>> : p, q \in Policies}
Ends == {<<<<>>, "yes">>, <<<<>>, "no">>, <<<<"text", "artifact">>, "yes">>, <<<<"text", "text">>, "yes">>}
Documents == {{}, {<<"ns", "address">>, <<"", "id">>, <<"", "protocol">>}, {<<"ns", "id">>, <<"", "id">>, <<"ns", "protocol">>}}
MNext ==
    \/ ProviderChanges \/ ShowOptions
    \/ \E f \in {"", "a1"} :
          \/ \E g \in {"yes", "no"} : QueryCatalog(f, g)
          \/ \E any \in {"yes", "no"}, w \in Ends :
                \/ DoDsp(f, any, "none", <<>>, w[1], w[2])
                \/ \E e \in Expected : DoDsp(f, any, "some", e, w[1], w[2])
    \/ \E d \in Documents : DiscoverConnector(d)
    \/ \E bpns \in {<<>>, <<"b1", "b3">>} : MockDiscovery([b \in {"b1", "b2"} |-> b], bpns)
    \/ QueryByAsset("a1") \/ QueryByBpnl("versioned")
    \/ \E t \in {"t1", "t2"} : ExtractDataset(t)
    \/ \E k \in DOMAIN shown : Choose(shown[k])

MSpec == MInit /\ [][MNext]_mVars

-----------------------------------------------------------------------------
\* A policy that states no constraint twice.
Concise(p) == \A j, k \in DOMAIN ConstraintsOf(p) : ConstraintsOf(p)[j] = ConstraintsOf(p)[k] => j = k

\* The constraints to add to one policy and to take from it to make it the other.
Changes(p, q) == Cardinality(SymDiff(Range(ConstraintsOf(p)), Range(ConstraintsOf(q))))

\* What the operator and the author are told of the offers is so. What a choice publishes is
\* the offer the operator was shown under that option, though offers have no ids, or the ids
\* of another, or their own place for an id. A complete flow negotiates an offer only under an
\* expected policy, and a mismatch names for each offer the expected policy that the fewest
\* changes would make it match, among policies that state no constraint twice (a second time
\* is counted a second time).
OffersTold ==
    /\ \A j, k \in DOMAIN shown : shown[j].id = shown[k].id => j = k
    /\ chosen # <<>> /\ chosen[1].option # <<>> =>
          chosen[1].asset = chosen[1].option.asset /\ chosen[1].offer = chosen[1].option.offer
    /\ \A d \in deal : d.given = "some" => \E k \in DOMAIN d.expected : d.expected[k] = d.policy
    /\ said.kind = "mismatch" =>
          \A k \in DOMAIN said.offers : \A j \in DOMAIN said.expected :
             Concise(said.offers[k].policy) /\ (\A i \in DOMAIN said.expected : Concise(said.expected[i])) =>
             Changes(said.offers[k].policy, said.expected[said.offers[k].index])
               <= Changes(said.offers[k].policy, said.expected[j])
=============================================================================
