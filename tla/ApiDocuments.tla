----------------------------- MODULE ApiDocuments -----------------------------
\* API files (openapi/): how one is read, checked, kept and indexed, how its references are
\* followed, and how the validators of its schemas are kept.
\* Several engine threads load and index at once; each cache is guarded by a lock that is not
\* held while a document is parsed or an index or a validator is built.
EXTENDS Naturals, FiniteSets, Sequences, SequencesExt, FiniteSetsExt

CONSTANTS
    Readers,         \* threads of the engine that load API files
    ApiFiles,        \* what a path may hold: [digest, size, text, top, openapi, info, sections, shape, nodes, paths, items, server]
    ApiPaths,        \* paths of API files
    MaxApiBytes,     \* MAX_API_FILE_BYTES
    DocsKept,        \* CACHE_SIZE, DOCUMENTS_CACHED
    BytesKept,       \* CACHE_BYTES
    ValidatorsKept,  \* VALIDATORS_CACHED
    MaxChain,        \* MAX_REF_CHAIN and MAX_HOPS, one number in the code
    MaxLoads,        \* bound: loads started in a behaviour
    Probes,          \* what is checked: [schema, defs, value], an OpenAPI 3.0 schema, those it refers to, and a value
    Judgement(_)     \* what the validator says of a probe (ApiSchemas): [schema, defs, value, ok]

ASSUME ApiDocumentsAssumption ==
    /\ DocsKept \in Nat \ {0} /\ BytesKept \in Nat
    /\ \A f \in ApiFiles : f.size \in Nat

VARIABLES
    onDisk,      \* path -> the file it holds
    docCache,    \* _cache of document.py, oldest first: <<[key, size]>>
    cachedBytes, \* _cached_bytes
    reader,      \* reader -> what it is doing: [at, path, media, file, out]
    indexes,     \* _cache of operation_index.py, oldest first: document keys
    resources,   \* _resources of validator_cache.py, oldest first: document keys
    validators,  \* _validators, oldest first: <<document key, schema>>
    loads,       \* loads started
    judged       \* the last schema a value was checked against
cVars == <<onDisk, docCache, cachedBytes, reader, indexes, resources, validators, loads, judged>>

NoSchema == [ref |-> "none"]

(* ---------------------------------------------------------------- references *)
NoRef == [to |-> "", how |-> "none"]

\* A pointer as the loader resolves it: percent-encoding is undone first.
LoaderResolves(d, r) == r.how \in {"plain", "encoded"} /\ r.to \in DOMAIN d.nodes

\* The reference the target of `r` holds, if it holds one.
Following(d, r) == IF LoaderResolves(d, r) THEN d.nodes[r.to].ref ELSE NoRef

\* What is wrong with a reference: it names nothing, or its chain is circular or too long.
RefProblem(d, r) ==
    LET seen[n \in 1..MaxChain + 1] == IF n = 1 THEN r ELSE Following(d, seen[n - 1])
    IN  ~LoaderResolves(d, r) \/ seen[MaxChain + 1] # NoRef
        \/ \E i, j \in 1..MaxChain + 1 : i < j /\ seen[i] = seen[j] /\ seen[i] # NoRef

\* References sit where OpenAPI and JSON Schema put one; an example, a default, an enum, a
\* vendor key and a map keyed by name hold data.
References(d) == {d.nodes[p].ref : p \in {q \in DOMAIN d.nodes : d.nodes[q].role = "object"}} \ {NoRef}

ReferenceProblems(d) == {r \in References(d) : RefProblem(d, r)}

\* A pointer as everything after the loader resolves it: taken literally.
Resolve(d, r) == IF r.how = "plain" /\ r.to \in DOMAIN d.nodes THEN r.to ELSE "lost"

\* follow: the place a node's chain of references ends at, within MAX_HOPS looks.
Follow(d, p) ==
    LET at[n \in 0..MaxChain] == IF n = 0 THEN p ELSE IF at[n - 1] = "lost" THEN "lost" ELSE
                                 IF d.nodes[at[n - 1]].ref = NoRef THEN at[n - 1] ELSE Resolve(d, d.nodes[at[n - 1]].ref)
        ends == {n \in 0..MaxChain - 1 : at[n] # "lost" /\ d.nodes[at[n]].ref = NoRef}
    IN  IF ends = {} THEN "lost" ELSE at[Min(ends)]

(* ------------------------------------------------------------------- loading *)
\* Reading the text as the declared type; YAML reads JSON too, and both refuse duplicate keys,
\* numbers and tags JSON has not, and text that nests too deeply.
Parse(f, media) ==
    CASE media = "json" /\ f.text = "json" -> "read"
      [] media = "yaml" /\ f.text \in {"json", "yaml"} -> "read"
      [] OTHER -> "refused"

VersionProblems(f) ==
    \/ f.openapi \notin {"3.0", "3.1"}
    \/ f.info # "complete"
    \/ f.sections \cap (IF f.openapi = "3.0" THEN {"paths"} ELSE {"paths", "webhooks", "components"}) = {}

\* _checked: why the bytes are no API document, or none.
RefusedFile(f, media) ==
    \/ Parse(f, media) = "refused" \/ f.top # "mapping"
    \/ VersionProblems(f)
    \/ f.shape # "plain"               \* too many nodes, too deep, or it contains itself
    \/ ReferenceProblems(f) # {}

Touched(seq, x) == Append(SelectSeq(seq, LAMBDA y : y # x), x)
DocKey(p, f) == <<p, f.digest>>
Cached(k) == \E i \in DOMAIN docCache : docCache[i].key = k

\* A hit: the document moves to the end.
MovedToEnd(k) == LET i == CHOOSE n \in DOMAIN docCache : docCache[n].key = k
                 IN  Append(RemoveAt(docCache, i), docCache[i])

\* The size of the first n documents of a cache, for every n.
Bytes(cache) ==
    LET upTo[n \in 0..Len(cache)] == IF n = 0 THEN 0 ELSE upTo[n - 1] + cache[n].size
    IN  upTo

\* Mutant of Remember: a document another thread has kept meanwhile is counted again.
RememberTwice(cache, bytes, k, size) ==
    IF \E i \in DOMAIN cache : cache[i].key = k THEN [cache |-> cache, bytes |-> bytes + size] ELSE
    LET all == Append(cache, [key |-> k, size |-> size]) IN [cache |-> all, bytes |-> bytes + size]

\* _remember: the document is kept once, and the oldest leave until both limits hold or one is left.
Remember(cache, bytes, k, size) ==
    IF \E i \in DOMAIN cache : cache[i].key = k THEN [cache |-> cache, bytes |-> bytes] ELSE
    LET all == Append(cache, [key |-> k, size |-> size])
        total(n) == bytes + size - Bytes(all)[n]
        drop == Min({n \in 0..Len(all) - 1 : n = Len(all) - 1 \/ (Len(all) - n <= DocsKept /\ total(n) <= BytesKept)})
    IN  [cache |-> SubSeq(all, drop + 1, Len(all)), bytes |-> total(drop)]

\* load_api_document up to the lock: the bytes are read and hashed, and looked up.
LoadApiDocument(w, p, media) ==
    LET f == onDisk[p] IN
    /\ reader[w].at = "idle" /\ loads < MaxLoads
    /\ loads' = loads + 1
    /\ IF f.size > MaxApiBytes
         THEN /\ reader' = [reader EXCEPT ![w] = [at |-> "idle", path |-> p, media |-> media, file |-> f, out |-> "refused"]]
              /\ UNCHANGED docCache
         ELSE IF Cached(DocKey(p, f))
         THEN /\ docCache' = MovedToEnd(DocKey(p, f))
              /\ reader' = [reader EXCEPT ![w] = [at |-> "holds", path |-> p, media |-> media, file |-> f, out |-> "served"]]
         ELSE /\ reader' = [reader EXCEPT ![w] = [at |-> "parsing", path |-> p, media |-> media, file |-> f, out |-> "none"]]
              /\ UNCHANGED docCache
    /\ UNCHANGED <<onDisk, cachedBytes, indexes, resources, validators, judged>>

\* The rest of it: the document is checked without the lock, and kept under it.
Checked(w) ==
    LET r == reader[w] kept == Remember(docCache, cachedBytes, DocKey(r.path, r.file), r.file.size) IN
    /\ r.at = "parsing"
    /\ IF RefusedFile(r.file, r.media)
         THEN reader' = [reader EXCEPT ![w].at = "idle", ![w].out = "refused"] /\ UNCHANGED <<docCache, cachedBytes>>
         ELSE /\ reader' = [reader EXCEPT ![w].at = "holds", ![w].out = "served"]
              /\ docCache' = kept.cache /\ cachedBytes' = kept.bytes
    /\ UNCHANGED <<onDisk, indexes, resources, validators, loads, judged>>

\* The author edits the file between two loads.
FileEdited(p, f) ==
    /\ onDisk' = [onDisk EXCEPT ![p] = f] /\ f # onDisk[p]
    /\ UNCHANGED <<docCache, cachedBytes, reader, indexes, resources, validators, loads, judged>>

\* forget_api_documents, forget_operation_indexes and forget_validators.
Forget ==
    /\ docCache # <<>>
    /\ docCache' = <<>> /\ cachedBytes' = 0 /\ indexes' = <<>> /\ resources' = <<>> /\ validators' = <<>>
    /\ UNCHANGED <<onDisk, reader, loads, judged>>

NewestOf(seq, n) == IF Len(seq) > n THEN SubSeq(seq, Len(seq) - n + 1, Len(seq)) ELSE seq

\* operation_index: a hit moves to the end, a miss is built without the lock and then kept.
OperationIndex(w) ==
    /\ reader[w].at = "holds" /\ reader[w].out = "served"
    /\ indexes' = NewestOf(Touched(indexes, reader[w].file.digest), DocsKept)
    /\ reader' = [reader EXCEPT ![w].out = "indexed"]
    /\ UNCHANGED <<onDisk, docCache, cachedBytes, resources, validators, loads, judged>>

\* _resource: the translated document of a body check; a document that leaves takes its validators.
Resource(w) ==
    /\ reader[w].at = "holds" /\ reader[w].out = "indexed"
    /\ resources' = NewestOf(Touched(resources, reader[w].file.digest), DocsKept)
    /\ validators' = SelectSeq(validators, LAMBDA v : v[1] \notin ToSet(resources) \ ToSet(resources'))
    /\ reader' = [reader EXCEPT ![w].out = "translated"]
    /\ UNCHANGED <<onDisk, docCache, cachedBytes, indexes, loads, judged>>

\* _validator and schema_problems: the validator of one schema of the document, kept, checks a value.
SchemaProblems(w, p) ==
    /\ reader[w].at = "holds" /\ reader[w].out = "translated"
    /\ validators' = NewestOf(Touched(validators, <<reader[w].file.digest, "schema">>), ValidatorsKept)
    /\ judged' = IF reader[w].file.openapi = "3.0"
                   THEN Judgement(p) ELSE judged
    /\ reader' = [reader EXCEPT ![w].at = "idle"]
    /\ UNCHANGED <<onDisk, docCache, cachedBytes, indexes, resources, loads>>

CInit ==
    /\ onDisk \in [ApiPaths -> ApiFiles]
    /\ docCache = <<>> /\ cachedBytes = 0 /\ indexes = <<>> /\ resources = <<>> /\ validators = <<>>
    /\ reader = [w \in Readers |-> [at |-> "idle", path |-> "", media |-> "", file |-> NoRef, out |-> "none"]]
    /\ loads = 0 /\ judged = NoSchema

CNextWith(probes) ==
    \/ \E w \in Readers, p \in ApiPaths, m \in {"json", "yaml"} : LoadApiDocument(w, p, m)
    \/ \E w \in Readers : Checked(w) \/ OperationIndex(w) \/ Resource(w)
    \/ \E w \in Readers, p \in probes : SchemaProblems(w, p)
    \/ \E p \in ApiPaths, f \in ApiFiles : FileEdited(p, f)
    \/ Forget
CNext == CNextWith(Probes)
CSpec == CInit /\ [][CNext]_cVars

(* ---------------------------------------------------------------- properties *)
\* The byte count is that of the documents kept, and both limits hold, however loads of one file,
\* edits of it and evictions interleave: _remember runs after an unlocked parse, so two threads may
\* arrive with the same document (document.py _remember); one document may exceed the byte limit alone.
CacheAddsUp ==
    /\ cachedBytes = Bytes(docCache)[Len(docCache)]
    /\ Len(docCache) <= DocsKept /\ (Len(docCache) > 1 => cachedBytes <= BytesKept)

\* pointers.py: "Every $ref of an API file is internal and resolves (the loader refuses any other)":
\* following a reference of a document that loaded reaches the object the loader saw there.
\* The code does not keep this one (README, divergences); no run lists it.
FollowsWhatItLoaded ==
    \A w \in Readers : reader[w].at = "holds" =>
        \A p \in DOMAIN reader[w].file.nodes : reader[w].file.nodes[p].role = "object" => Follow(reader[w].file, p) # "lost"
=============================================================================
