------------------------------ MODULE TwinSteps -------------------------------
(***************************************************************************)
(* The steps on a digital twin registry and its submodel server (steps/    *)
(* digital_twin_registry, registry_reading, registry_models) and the       *)
(* registry a run can mock itself (steps/mock/dtr).  Other participants    *)
(* register and remove shells while a step is reading.                     *)
(***************************************************************************)
EXTENDS Naturals, Sequences, SequencesExt, FiniteSets, FiniteSetsExt, SequenceFilter

CONSTANTS ShellIds,  \* identifiers of shells
          Links,     \* specific asset ids: the name and value pairs a shell is found by
          MaxCalls   \* bound: steps run

ASSUME TwinAssumption == MaxCalls \in Nat /\ ShellIds # {} /\ Links # {}

\* What is answered to one HTTP call: 200 with JSON, 200 with anything else, another status.
HttpAnswers == {"ok", "garbled", "error"}

VARIABLES
    hosted,  \* "mock" when the run hosts the registry itself, "sut" when it is somebody's
    shells,  \* the registry: its descriptors [id, links, subs], in the order they came
    stored,  \* the submodel server: the paths that hold data
    look,    \* the lookup in flight
    page,    \* where the walk over the pages is, and what it has listed
    out,     \* what the last step published
    told,    \* what the steps were told is there: shells and paths (history)
    calls    \* steps run
tVars == <<hosted, shells, stored, look, page, out, told, calls>>

Shell(i, ls) == [id |-> i, links |-> ls, subs |-> {}]
IdsOf(ds) == [k \in DOMAIN ds |-> ds[k].id]
Listed == ToSet(IdsOf(shells))

Idle == [kind |-> "none", want |-> {}, ids |-> <<>>, left |-> <<>>, docs |-> <<>>, cursor |-> 0]
NoPage == [at |-> 1, ids |-> <<>>, still |-> "yes"]
Nothing == [kind |-> "none"]

TInit ==
    /\ hosted \in {"mock", "sut"} /\ stored = {} /\ look = Idle /\ page = NoPage
    /\ shells \in {<<>>, <<Shell(CHOOSE i \in ShellIds : TRUE, Links)>>}
    /\ out = Nothing /\ told = [shells |-> {}, paths |-> {}] /\ calls = 0

Calls == look.kind = "none" /\ calls < MaxCalls /\ calls' = calls + 1

-----------------------------------------------------------------------------
(* The registry. *)

\* _matches_asset_ids: a shell has every pair that is asked for.
Matches(d, want) == want \subseteq d.links

\* MockDtrStep._lookup_shells and the lookup of a registry that follows the standard: the
\* ids of the shells that match, every one of them when nothing is asked for.  A criterion
\* that is no encoded object is a 400 (an "error" to the caller).
MockLookup(want) == IdsOf(Filter(shells, {d \in ToSet(shells) : Matches(d, want)}))

\* MockDtrStep._list_shells: all there is, whatever page is asked for; a registry of
\* another participant gives the page from the cursor on and says whether one follows.
ShellPage(at, limit) ==
    LET last == IF limit = 0 THEN Len(shells) ELSE Min({at + limit - 1, Len(shells)}) IN
    IF hosted = "mock" THEN [docs |-> shells, next |-> 0]
    ELSE [docs |-> SubSeq(shells, at, last), next |-> IF last < Len(shells) THEN last + 1 ELSE 0]

\* The descriptors with the id, and those without.
Found(i) == Filter(shells, {d \in ToSet(shells) : d.id = i})
Others(i) == Filter(shells, {d \in ToSet(shells) : d.id # i})

\* The registry is changed by somebody else: MockDtrStep._register_shell takes whatever is
\* posted, a second descriptor of one id too; another's registry also refuses and deletes.
Register(i, ls) ==
    /\ calls < MaxCalls /\ calls' = calls + 1
    /\ hosted = "sut" => i \notin Listed
    /\ shells' = Append(shells, Shell(i, ls))
    /\ page' = [page EXCEPT !.still = "no"]
    /\ UNCHANGED <<hosted, stored, look, out, told>>

Withdraw(i) ==
    /\ hosted = "sut" /\ i \in Listed
    /\ shells' = Others(i)
    /\ told' = [told EXCEPT !.shells = @ \ {i}] /\ page' = [page EXCEPT !.still = "no"]
    /\ UNCHANGED <<hosted, stored, look, out, calls>>

-----------------------------------------------------------------------------
(* Reading it through the data plane. *)

\* _result_page and _shell_ids: no 200 or no JSON is an empty page, not a failure.
ResultPage(a, entries) == IF a = "ok" THEN entries ELSE <<>>

\* _next_cursor: only a readable answer has one (0 is none).
NextCursor(a, cursor) == IF a = "ok" THEN cursor ELSE 0

\* The lookup of the ids, by assetIds in the query (lookup_shell, and the provider's
\* lookup_shells) or by the links in the body (lookup_shells_by_asset_link, whose answer
\* may have a cursor).
LookupShells(kind, want, a) ==
    /\ Calls
    /\ LET ids == ResultPage(a, MockLookup(want)) IN
       look' = [kind |-> kind, want |-> want, ids |-> ids, left |-> ids, docs |-> <<>>,
                cursor |-> IF kind = "byLink" THEN NextCursor(a, 0) ELSE 0]
    /\ out' = Nothing
    /\ UNCHANGED <<hosted, shells, stored, page, told>>

\* _shell_descriptor and MockDtrStep._get_shell: one call per id, answered by the first
\* descriptor of that id; a shell that is gone, or an answer that cannot be read, is left out.
ReadDescriptor(a) ==
    /\ look.left # <<>>
    /\ LET found == Found(Head(look.left)) IN
       look' = [look EXCEPT !.left = Tail(@),
                            !.docs = IF a = "ok" /\ found # <<>> THEN Append(@, Head(found)) ELSE @]
    /\ UNCHANGED <<hosted, shells, stored, page, out, told, calls>>

\* The output of a lookup: the ids that matched and the descriptors that were read.
LookupOutput ==
    /\ look.kind # "none" /\ look.left = <<>>
    /\ out' = [kind |-> "lookup", want |-> look.want, ids |-> look.ids, docs |-> look.docs, cursor |-> look.cursor]
    /\ look' = Idle
    /\ UNCHANGED <<hosted, shells, stored, page, told, calls>>

\* DataplaneGetShellDescriptorsStep: one page, from the cursor of the page before it; a test
\* goes on with the cursor it was given, and an unreadable page has none.
GetShellDescriptors(limit, a) ==
    /\ Calls
    /\ LET p == ShellPage(page.at, limit)
           ids == IdsOf(ResultPage(a, p.docs))
           next == NextCursor(a, p.next)
           first == page.at = 1 IN
       /\ out' = [kind |-> "page", ids |-> ids, cursor |-> next]
       /\ page' = [at |-> IF next = 0 THEN 1 ELSE next,
                   ids |-> (IF first THEN <<>> ELSE page.ids) \o ids,
                   still |-> IF a = "ok" THEN IF first THEN "yes" ELSE page.still ELSE "no"]
    /\ UNCHANGED <<hosted, shells, stored, look, told>>

\* A new walk starts without a cursor.
RestartWalk ==
    /\ look.kind = "none" /\ page.at # 1 /\ page' = NoPage /\ out' = Nothing
    /\ UNCHANGED <<hosted, shells, stored, look, told, calls>>

\* DataplaneGetShellDescriptorStep: an empty document unless the answer is a 200 with JSON.
GetShellDescriptor(i, a) ==
    /\ Calls
    /\ out' = [kind |-> "get", docs |-> IF a = "ok" /\ Found(i) # <<>> THEN <<Head(Found(i))>> ELSE <<>>]
    /\ UNCHANGED <<hosted, shells, stored, look, page, told>>

-----------------------------------------------------------------------------
(* The provider's steps, through the SDK: an AAS document, or a result with messages. *)

\* _answered_status: nothing is what a success answers; else the first code that is a
\* number (0 is a code that is none).
AnsweredStatus(r, accepted, unreadable) ==
    LET numbers == SelectSeq(r.codes, LAMBDA c : c # 0) IN
    IF r.nothing = "yes" THEN accepted ELSE IF numbers = <<>> THEN unreadable ELSE Head(numbers)

\* Mutant of Registered: a refusal is taken for the document.
RegisteredAnyway(refused) == TRUE

\* _registered: a result where a document was expected is a refusal, and fails the step.
Registered(refused) == ~refused

\* CreateShellDescriptorStep, and the wizard, which writes the document itself and names it
\* afresh when it is given no id.
CreateShell(i, ls, refused) ==
    /\ Calls /\ (i \in Listed => refused)
    /\ shells' = IF refused THEN shells ELSE Append(shells, Shell(i, ls))
    /\ IF Registered(refused)
       THEN out' = [kind |-> "created", id |-> i] /\ told' = [told EXCEPT !.shells = @ \cup {i}]
       ELSE out' = Nothing /\ UNCHANGED told
    /\ page' = [page EXCEPT !.still = "no"]
    /\ UNCHANGED <<hosted, stored, look>>

\* GetShellDescriptorStep: the document or the result, as it came, with the status told of it.
GetShell(i, r) ==
    /\ Calls /\ (r.nothing = "yes" => i \in Listed)
    /\ out' = [kind |-> "read", id |-> i, status |-> AnsweredStatus(r, 200, 200)]
    /\ UNCHANGED <<hosted, shells, stored, look, page, told>>

\* DeleteShellDescriptorStep: 204 when the SDK answers nothing, else what the registry said.
DeleteShell(i, r) ==
    /\ Calls /\ hosted = "sut"
    /\ r.nothing = "yes" => i \in Listed
    /\ shells' = IF r.nothing = "yes" THEN Others(i) ELSE shells
    /\ LET status == AnsweredStatus(r, 204, 400) IN
       /\ out' = [kind |-> "deleted", id |-> i, status |-> status]
       /\ told' = IF status = 204 THEN [told EXCEPT !.shells = @ \ {i}] ELSE told
    /\ page' = [page EXCEPT !.still = "no"]
    /\ UNCHANGED <<hosted, stored, look>>

\* endpoint_href: a VALUE interface is called as it is written, so its href ends in a
\* $-segment; the other one has the bare URL.  (A URL is its segments.)
EndpointHref(url, value) ==
    IF value = "value"
    THEN IF Last(url) = "$value" THEN url ELSE IF Last(url) = "submodel" THEN Append(url, "$value")
         ELSE url \o <<"submodel", "$value">>
    ELSE IF Last(url) = "$value" THEN Front(url) ELSE url

\* submodel_document: where the data is served and how, under the asset it is offered as.
SubmodelDocument(path, value) == [interface |-> value, href |-> EndpointHref(path, value)]

\* CreateSubmodelDescriptorStep, and the wizard: attached to a shell the registry has.
CreateSubmodel(i, path, value, refused) ==
    /\ Calls /\ (i \notin Listed => refused)
    /\ shells' = IF refused THEN shells
                 ELSE [k \in DOMAIN shells |-> IF shells[k].id = i
                        THEN [shells[k] EXCEPT !.subs = @ \cup {SubmodelDocument(path, value)}] ELSE shells[k]]
    /\ out' = IF Registered(refused) THEN [kind |-> "attached", id |-> i, sub |-> SubmodelDocument(path, value)] ELSE Nothing
    /\ UNCHANGED <<hosted, stored, look, page, told>>

-----------------------------------------------------------------------------
(* The submodel server of the engine. *)

\* _storage_path: under the aspect when one is given.
StoragePath(semantic, id) == IF semantic = "none" THEN <<id>> ELSE <<semantic, id>>

\* The ids an upload takes: one segment, or one made up when none is given; a URL or a path
\* is refused before anything is sent.
UploadIds == {"m1", "u1"}

\* UploadBackendDataStep: the published path is the one the data was posted to, whatever the
\* server answered.
Upload(semantic, id, a) ==
    /\ Calls
    /\ LET path == StoragePath(semantic, id) IN
       /\ stored' = IF a = "error" THEN stored ELSE stored \cup {path}
       /\ out' = [kind |-> "uploaded", path |-> path, status |-> IF a = "error" THEN 500 ELSE 200]
       /\ told' = IF a = "error" THEN told ELSE [told EXCEPT !.paths = @ \cup {path}]
    /\ UNCHANGED <<hosted, shells, look, page>>

\* DeleteBackendDataStep: a path relative to the server, as an upload published it.
DeleteData(path, a) ==
    /\ Calls
    /\ stored' = IF a = "error" THEN stored ELSE stored \ {path}
    /\ out' = [kind |-> "removed", path |-> path, status |-> IF a = "error" THEN 500 ELSE 200]
    /\ told' = IF a = "error" THEN told ELSE [told EXCEPT !.paths = @ \ {path}]
    /\ UNCHANGED <<hosted, shells, look, page>>

\* Without a submodel server in the profile both fail, and change nothing.
NoSubmodelServer == Calls /\ out' = Nothing /\ UNCHANGED <<hosted, shells, stored, look, page, told>>

-----------------------------------------------------------------------------
Wanted == (SUBSET Links) \ {{}}
Results == {[nothing |-> "yes", codes |-> <<>>]} \cup [nothing : {"no"}, codes : {<<>>, <<0>>, <<0, 404>>}]
Paths == {StoragePath(s, i) : s \in {"none", "aspect"}, i \in UploadIds}
Urls == {<<"m1">>, <<"m1", "submodel">>, <<"m1", "submodel", "$value">>}
TNext ==
    \/ \E i \in ShellIds :
          \/ \E ls \in {Links, {CHOOSE l \in Links : TRUE}} : Register(i, ls) \/ \E refused \in BOOLEAN : CreateShell(i, ls, refused)
          \/ Withdraw(i)
          \/ \E r \in Results : GetShell(i, r) \/ DeleteShell(i, r)
          \/ \E v \in {"value", "submodel"}, refused \in BOOLEAN, url \in Urls : CreateSubmodel(i, url, v, refused)
    \/ \E a \in HttpAnswers :
          \/ \E kind \in {"byQuery", "byLink"}, want \in Wanted : LookupShells(kind, want, a)
          \/ ReadDescriptor(a)
          \/ \E limit \in 0..2 : GetShellDescriptors(limit, a)
          \/ \E i \in ShellIds : GetShellDescriptor(i, a)
          \/ \E s \in {"none", "aspect"}, i \in UploadIds : Upload(s, i, a)
          \/ \E p \in Paths : DeleteData(p, a)
    \/ LookupOutput \/ RestartWalk \/ NoSubmodelServer
TSpec == TInit /\ [][TNext]_tVars

-----------------------------------------------------------------------------
\* A lookup publishes descriptors of the shells it lists and of no other, in their order,
\* though shells come and go between the lookup and the reads; a walk over the pages that
\* nobody disturbed has, at its last page, listed every shell once; and a shell a creating
\* step passed for is in the registry until a deletion says 204 or somebody else removes it.
TwinTold ==
    /\ out.kind = "lookup" =>
          \E at \in [DOMAIN out.docs -> DOMAIN out.ids] :
             /\ \A j, k \in DOMAIN out.docs : j < k => at[j] < at[k]
             /\ \A k \in DOMAIN out.docs : out.docs[k].id = out.ids[at[k]]
    /\ out.kind = "page" /\ out.cursor = 0 /\ page.still = "yes" => page.ids = IdsOf(shells)
    /\ told.shells \subseteq Listed /\ told.paths \subseteq stored
=============================================================================
