----------------------------- MODULE PackageLife -----------------------------
(***************************************************************************)
(* A package from its sources to a run: the keys (security), the compile   *)
(* (compiler/, cli/compile, cli/_tck_packager), the store (server/storage) *)
(* and the load (player/loading), each step where it reads or writes a     *)
(* file, so that an edit, a second compile, a new key or a crash falls     *)
(* between two of them. A digest is what it is taken over, a fingerprint   *)
(* the key, a key pair one number; texts of tests and assets are versions. *)
(***************************************************************************)
EXTENDS Naturals, Sequences, SequencesExt, FiniteSets, FiniteSetsExt, Functions, SequenceFilter

CONSTANTS
    Index,       \* index.yaml: the tests and assets it lists
    Texts,       \* what a test file says, by version; "bad" is refused by validation
    Tree0, Trees, \* the sources at first, and those an author may save
    KeyDirs0, Rekeyed, \* the key directories at first, and those a keygen is run on
    Addressed,   \* the sets of players a compile seals for; {} is a plain package
    Stored,      \* the ids of the package store
    RequireHybrid, \* the players whose engine has TESTLAB_REQUIRE_PQ_ENCRYPTION set
    MaxKeys, MaxCompiles, MaxLoads,
    MaxWork      \* compiles, edits, new keys, crashes, and files put together or deleted, in all

VARIABLES
    tree,     \* [tests, beside, assets]: the files under tests/, beside index.yaml, under assets
    keydir,   \* [who -> [file -> key or 0]]
    writing,  \* the key files a keygen still has to write
    trusted,  \* the signing keys in the engine's trust store
    files,    \* [place -> package file]
    build,    \* the compile under way
    made,     \* the packages compiles have written
    load,     \* the load under way, or the last one
    count     \* [keys, compiles, loads, upsets] so far
pVars == <<tree, keydir, writing, trusted, files, build, made, load, count>>

None == [form |-> "none"]
Torn == [form |-> "torn"]     \* begun and not finished: no ZIP directory at its end
NoSignature == [by |-> 0, over |-> <<>>]
Shelves == {"out"} \cup Stored
Players == DOMAIN KeyDirs0 \ {"compiler"}
Count(f) == [count EXCEPT ![f] = @ + 1]

-----------------------------------------------------------------------------
(* Keys: security/crypto/keygen, security/trust, cli/keys *)

KeyFiles == <<"enc.pem", "enc.pub", "sig.pem", "sig.pub", "pq.pem", "pq.pub">>

\* One key is the newest, and no two directories hold the same key to encrypt for.
ASSUME PackageAssumption ==
    /\ Index.tests \in Seq(ToSet(Index.tests))
    /\ "compiler" \in DOMAIN KeyDirs0 /\ KeyDirs0 \in [DOMAIN KeyDirs0 -> [ToSet(KeyFiles) -> Nat]]
    /\ Rekeyed \subseteq DOMAIN KeyDirs0 /\ \A players \in Addressed : players \subseteq DOMAIN KeyDirs0
    /\ \E w \in DOMAIN KeyDirs0, f \in ToSet(KeyFiles) :
          \A v \in DOMAIN KeyDirs0, g \in ToSet(KeyFiles) : KeyDirs0[v][g] <= KeyDirs0[w][f]
    /\ \A v, w \in DOMAIN KeyDirs0 :
          v # w /\ KeyDirs0[v]["enc.pub"] = KeyDirs0[w]["enc.pub"] => KeyDirs0[v]["enc.pub"] = 0

\* PlayerIdentity.load: the post-quantum pair only where its private half is.
CanLoad(d) == /\ \A f \in {"enc.pem", "enc.pub", "sig.pem", "sig.pub"} : d[f] # 0
              /\ d["pq.pem"] # 0 => d["pq.pub"] # 0

\* keygen: a whole new identity, or the pair an older identity lacks.
Keygen(w, override) ==
    /\ writing = <<>> /\ count.keys < MaxKeys /\ count.compiles + count.upsets < MaxWork
    /\ LET fresh == count.keys + 1
           used == \E f \in ToSet(KeyFiles) : keydir[w][f] # 0
           wanted == IF override = "no" /\ used THEN SubSeq(KeyFiles, 5, 6) ELSE KeyFiles IN
       /\ override = "no" /\ used => CanLoad(keydir[w]) /\ keydir[w]["pq.pem"] = 0
       /\ writing' = [k \in DOMAIN wanted |-> [dir |-> w, file |-> wanted[k], key |-> fresh]]
    /\ count' = [Count("keys") EXCEPT !.upsets = @ + 1]
    /\ UNCHANGED <<tree, keydir, trusted, files, build, made, load>>

\* save_keypair, one file after another.
WriteKeyFile ==
    /\ writing # <<>>
    /\ LET f == Head(writing) IN keydir' = [keydir EXCEPT ![f.dir][f.file] = f.key]
    /\ writing' = Tail(writing)
    /\ UNCHANGED <<tree, trusted, files, build, made, load, count>>

KeygenDies ==
    /\ writing # <<>> /\ count.compiles + count.upsets < MaxWork
    /\ writing' = <<>> /\ count' = Count("upsets")
    /\ UNCHANGED <<tree, keydir, trusted, files, build, made, load>>

\* TrustStore.add and remove, keyed by the key's fingerprint.
Trust(k) ==
    /\ k \notin trusted \cup {0}
    /\ trusted' = trusted \cup {k}
    /\ UNCHANGED <<tree, keydir, writing, files, build, made, load, count>>

Distrust(k) ==
    /\ k \in trusted /\ count.compiles + count.upsets < MaxWork
    /\ trusted' = trusted \ {k} /\ count' = Count("upsets")
    /\ UNCHANGED <<tree, keydir, writing, files, build, made, load>>

-----------------------------------------------------------------------------
(* The wrap of a content key: security/crypto/key_wrap, encryption *)

\* wrap_rsa, or wrap_hybrid where a post-quantum key lies beside the public key.
Wrap(pub, kem, content) == [player |-> pub, kem |-> kem, content |-> content]

\* unwrap_hybrid: refused without the very ML-KEM key it was wrapped with.
UnwrapHybrid(entry, own) == IF own.kem = entry.kem THEN entry.content ELSE 0

\* content_key_for: the key an entry gives the holder of these private keys, 0 where it is
\* refused, RSA alone too where that is not allowed.
Unwrap(entry, own, strict) ==
    CASE entry.kem # 0 -> UnwrapHybrid(entry, own)
      [] entry.kem = 0 /\ strict # {} -> 0
      [] OTHER -> entry.content

\* Mutant of ContentKey: the first entry is tried instead of this player's.
ContentKeyOfFirst(players, own, strict) == Unwrap(CHOOSE e \in players : TRUE, own, strict)

\* _entry_for: the entry of this player's key.
ContentKey(players, own, strict) ==
    LET mine == {e \in players : e.player = own.rsa} IN
    IF mine = {} THEN 0 ELSE Unwrap(CHOOSE e \in mine : TRUE, own, strict)

\* encrypt_for_recipients: one content key, wrapped for every player.
WrapForAll(to, content) == {Wrap(r.rsa, r.kem, content) : r \in to}

\* AES-GCM: what was encrypted with another key does not open.
Decrypts(payload, key) == key # 0 /\ payload.key = key

\* sign_bytes over package_signing_message.
Signed(key, manifest, payload) == [by |-> key, over |-> <<manifest, payload>>]

-----------------------------------------------------------------------------
(* The seal: compiler/package_digest *)

\* compute: over the manifest without its checksum and every other entry by name.
Compute(e) == <<[e.manifest EXCEPT !.checksum = <<>>], [n \in DOMAIN e \ {"manifest"} |-> e[n]]>>

Seal(e) == [e EXCEPT !.manifest.checksum = Compute(e)]
Verify(e) == e.manifest.checksum # <<>> /\ Compute(e) = e.manifest.checksum

-----------------------------------------------------------------------------
(* The execution plan: compiler/ir *)

\* resolve_test_path: a file beside the index before the one under tests/.
ResolveTestPath(t, id) == IF t.beside[id] # "none" THEN t.beside[id] ELSE t.tests[id]

\* embed_bundle_yaml looks under tests/ first.
BundledText(t, id) == IF t.tests[id] # "none" THEN t.tests[id] ELSE t.beside[id]

PhaseNames == <<"setup", "execution", "teardown">>

\* What an author saves: a file that is there is one of the texts, and every asset the index
\* lists may be there. A text has steps in every phase, or none.
Sources == {Tree0} \cup Trees
ASSUME SourcesAssumption ==
    /\ \A t \in Sources : /\ \A i \in ToSet(Index.tests) : {t.tests[i], t.beside[i]} \subseteq DOMAIN Texts \cup {"none"}
                          /\ Index.assets \subseteq DOMAIN t.assets
    /\ \A x \in DOMAIN Texts, p \in ToSet(PhaseNames) : Texts[x][p] \in Seq(Range(Texts[x][p]))

\* _build_validate_block: a validation used as a step is its own check.
ChecksOf(s) == IF s.uses = "validate" /\ s.checks = <<>> THEN <<"itself">> ELSE s.checks

\* _build_instruction
Instruction(s, index, p, k) ==
    [index |-> index, id |-> s.id, phase |-> PhaseNames[p], phase_index |-> k - 1,
     returns |-> s.returns, validate |-> ChecksOf(s)]

\* The instructions of one phase, after those of the phases ahead of it.
PhasePlan(text, p, before) ==
    [k \in DOMAIN Texts[text][PhaseNames[p]] |-> Instruction(Texts[text][PhaseNames[p]][k], before + k - 1, p, k)]

\* Mutant of BuildInstructions: the index starts again in every phase.
BuildInstructionsPerPhase(text) == PhasePlan(text, 1, 0) \o PhasePlan(text, 2, 0) \o PhasePlan(text, 3, 0)

\* build_instructions: the phases one after the other, numbered through.
BuildInstructions(text) ==
    LET setup == Len(Texts[text].setup) IN
    PhasePlan(text, 1, 0) \o PhasePlan(text, 2, setup) \o PhasePlan(text, 3, setup + Len(Texts[text].execution))

\* _collect_step_symbols
SymbolsOf(i) == {<<i.phase, i.id, f>> : f \in i.returns}

\* build_test_symbols: what each step returns, under its phase; a later step of the same name wins.
StepSymbols(plan) ==
    LET hits(key) == {k \in DOMAIN plan : key \in SymbolsOf(plan[k])} IN
    [key \in UNION {SymbolsOf(plan[k]) : k \in DOMAIN plan} |-> plan[Max(hits(key))].index]

CompileTest(text) == LET plan == BuildInstructions(text) IN
    [instructions |-> plan, symbols |-> StepSymbols(plan), needs |-> Texts[text].needs]

\* build_asset_entries: a listed file that is not there is left out.
AssetEntries(t) == {[id |-> a, digest |-> t.assets[a]] : a \in {x \in Index.assets : t.assets[x] # "none"}}

\* _build_infrastructure: what the index declares, else what its tests do together.
Infrastructure(t) == IF Index.needs # {} THEN Index.needs
                     ELSE UNION {Texts[ResolveTestPath(t, Index.tests[k])].needs : k \in DOMAIN Index.tests}

\* What tck-execution.json says of a test, from the text it was compiled from.
CompiledTests(e) == [k \in DOMAIN e.execution |-> CompileTest(e.execution[k])]

\* _build_tests_list
TestsList(t) == [k \in DOMAIN Index.tests |-> [id |-> Index.tests[k], hash |-> ResolveTestPath(t, Index.tests[k])]]

\* _copy_assets: the folders whole, listed or not.
CopyAssets(t) == Restrict(t.assets, {a \in DOMAIN t.assets : t.assets[a] # "none"})

\* build_ir: manifest.yaml, tck-execution.json and the copied asset folders. The plan is kept
\* as the texts it is made from: CompileTest says the rest.
BuildIr(t) ==
    [manifest |-> [checksum |-> <<>>, tests |-> TestsList(t), assets |-> AssetEntries(t), needs |-> Infrastructure(t)],
     execution |-> [k \in DOMAIN Index.tests |-> ResolveTestPath(t, Index.tests[k])],
     assets |-> CopyAssets(t)]

\* embed_bundle_yaml: the index as authored, and each test file that is found.
EmbedBundle(e, t) == [n \in DOMAIN e \cup {"bundle", "tests"} |->
    CASE n = "bundle" -> Index.tests
      [] n = "tests" -> LET at == [i \in ToSet(Index.tests) |-> BundledText(t, i)] IN
                        Restrict(at, {i \in DOMAIN at : at[i] # "none"})
      [] OTHER -> e[n]]

-----------------------------------------------------------------------------
(* The compile: cli/compile, cli/_tck_packager *)

Idle == [at |-> "idle"]

\* compile: with both kinds of key or neither; the identity and the players' public keys
\* are read before the sources are.
CompileBegins(players) ==
    /\ build = Idle /\ count.compiles < MaxCompiles /\ count.compiles + count.upsets < MaxWork
    /\ players # {} => /\ CanLoad(keydir["compiler"])
                       /\ \A w \in players : keydir[w]["enc.pub"] # 0
    /\ build' = [at |-> "validate", form |-> IF players = {} THEN "plain" ELSE "encrypted",
                 signer |-> [pem |-> keydir["compiler"]["sig.pem"], pub |-> keydir["compiler"]["sig.pub"]],
                 to |-> {[rsa |-> keydir[w]["enc.pub"], kem |-> keydir[w]["pq.pub"]] : w \in players},
                 quiet |-> "yes", entries |-> <<>>]
    /\ count' = Count("compiles")
    /\ UNCHANGED <<tree, keydir, writing, trusted, files, made, load>>

\* Compiler.validate reads tests/<id> of every entry.
CompileValidates ==
    /\ build.at = "validate"
    /\ build' = IF \A k \in DOMAIN Index.tests : tree.tests[Index.tests[k]] \notin {"none", "bad"}
                THEN [build EXCEPT !.at = "ir"] ELSE Idle
    /\ UNCHANGED <<tree, keydir, writing, trusted, files, made, load, count>>

\* build_ir reads them again, from its own places; a file it cannot find ends the compile.
CompileBuildsIr ==
    /\ build.at = "ir"
    /\ build' = IF \E k \in DOMAIN Index.tests : ResolveTestPath(tree, Index.tests[k]) = "none" THEN Idle
                ELSE [build EXCEPT !.at = "bundle", !.entries = BuildIr(tree)]
    /\ UNCHANGED <<tree, keydir, writing, trusted, files, made, load, count>>

CompileBundles ==
    /\ build.at = "bundle"
    /\ build' = [build EXCEPT !.at = "write", !.entries = Seal(EmbedBundle(build.entries, tree))]
    /\ UNCHANGED <<tree, keydir, writing, trusted, files, made, load, count>>

\* build_redacted_manifest; the content key is this compile's own.
Redacted(b) == [checksum |-> b.entries.manifest.checksum, compiler |-> b.signer.pub,
                players |-> WrapForAll(b.to, count.compiles)]

\* _seal_and_encrypt
PackageOf(b) ==
    IF b.form = "plain" THEN [form |-> "plain", entries |-> b.entries]
    ELSE LET payload == [key |-> count.compiles, entries |-> b.entries] IN
         [form |-> "encrypted", manifest |-> Redacted(b), payload |-> payload,
          sig |-> Signed(b.signer.pem, Redacted(b), payload)]

\* The archive is written in place: until it is complete there is no package in the file.
WriteBegins ==
    /\ build.at = "write"
    /\ build' = [build EXCEPT !.at = "close"]
    /\ files' = [files EXCEPT !["out"] = Torn]
    /\ load' = [load EXCEPT !.calm = IF load.place = "out" THEN "no" ELSE @]
    /\ UNCHANGED <<tree, keydir, writing, trusted, made, count>>

WriteEnds ==
    /\ build.at = "close"
    /\ files' = [files EXCEPT !["out"] = PackageOf(build)]
    /\ made' = made \cup {[file |-> PackageOf(build), quiet |-> build.quiet, tree |-> tree,
                           signer |-> build.signer, to |-> build.to]}
    /\ build' = Idle
    /\ load' = [load EXCEPT !.calm = IF load.place = "out" THEN "no" ELSE @]
    /\ UNCHANGED <<tree, keydir, writing, trusted, count>>

CompileDies ==
    /\ build.at = "close" /\ count.compiles + count.upsets < MaxWork
    /\ build' = Idle /\ count' = Count("upsets")
    /\ UNCHANGED <<tree, keydir, writing, trusted, files, made, load>>

\* The author saves the sources, also while a compile reads them.
EditSource(t) ==
    /\ count.compiles + count.upsets < MaxWork /\ t # tree
    /\ tree' = t /\ count' = Count("upsets")
    /\ build' = IF build = Idle THEN build ELSE [build EXCEPT !.quiet = "no"]
    /\ UNCHANGED <<keydir, writing, trusted, files, made, load>>

\* Whoever carries packages puts together parts of two of them, or leaves the signature out.
MadeIn(form) == {m.file : m \in {x \in made : x.file.form = form}}
WithEntry(a, b, n) == [form |-> "plain", entries |-> [a.entries EXCEPT ![n] = b.entries[n]]]
WithPayload(a, b, s) == [a EXCEPT !.payload = b.payload, !.sig = s]
Remixed ==
    {WithEntry(a, b, n) : a \in MadeIn("plain"), b \in MadeIn("plain"), n \in {"tests", "execution", "assets", "bundle"}}
    \cup {WithPayload(a, b, s) : a \in MadeIn("encrypted"), b \in MadeIn("encrypted"),
                                 s \in {p.sig : p \in MadeIn("encrypted")} \cup {NoSignature}}
    \cup {[form |-> "plain", entries |-> [manifest |-> a.manifest]] : a \in MadeIn("encrypted")}

Remix(p) ==
    /\ p \in Remixed /\ p # files["out"] /\ count.compiles + count.upsets < MaxWork
    /\ files' = [files EXCEPT !["out"] = p] /\ count' = Count("upsets")
    /\ load' = [load EXCEPT !.calm = IF load.place = "out" THEN "no" ELSE @]
    /\ UNCHANGED <<tree, keydir, writing, trusted, build, made>>

-----------------------------------------------------------------------------
(* The store: server/storage, server/routes/packages *)

\* upload_package: a new directory and the bytes in it; the size and name checks refuse before that.
Upload(i) ==
    /\ i \in Stored /\ files[i] = None /\ files["out"] # None
    /\ files' = [files EXCEPT ![i] = files["out"]]
    /\ UNCHANGED <<tree, keydir, writing, trusted, build, made, load, count>>

Delete(i) ==
    /\ i \in Stored /\ files[i] # None /\ count.compiles + count.upsets < MaxWork
    /\ files' = [files EXCEPT ![i] = None] /\ count' = Count("upsets")
    /\ load' = [load EXCEPT !.calm = IF load.place = i THEN "no" ELSE @]
    /\ UNCHANGED <<tree, keydir, writing, trusted, build, made>>

-----------------------------------------------------------------------------
(* The load: player/loading, player.run, cli/inspect *)

NoKeys == [rsa |-> 0, kem |-> 0]
Refuse == [load EXCEPT !.at = "refused"]

LoadOf(shelf) ==
    [at |-> "verify", place |-> shelf, calm |-> "yes", own |-> NoKeys, compiler |-> 0, strict |-> {},
     manifest |-> <<>>, entries |-> <<>>, tests |-> <<>>]

\* decryption_keys: the private halves that are there.
DecryptionKeys(w) == [rsa |-> keydir[w]["enc.pem"], kem |-> keydir[w]["pq.pem"]]

\* TrustStore.find
Find(fingerprint) == IF fingerprint \in trusted THEN fingerprint ELSE 0

\* engine_package_keys: refused without an identity of its own, or when the compiler the package
\* names is not trusted.
WithEngineKeys(l, w, p) ==
    [l EXCEPT !.own = DecryptionKeys(w), !.compiler = Find(p.manifest.compiler),
              !.at = IF DecryptionKeys(w).rsa # 0 /\ Find(p.manifest.compiler) # 0 THEN @ ELSE "refused"]

\* PackageStorage.get_path, or the path that was named.
Starts(shelf) == load.at \notin {"verify", "open"} /\ count.loads < MaxLoads /\ files[shelf] # None

\* TestlabPlayer.run looks whether the package is encrypted and gets the keys for it.
RunBegins(shelf, w) ==
    /\ Starts(shelf)
    /\ LET l == [LoadOf(shelf) EXCEPT !.strict = RequireHybrid \cap {w}] IN
       load' = IF files[shelf].form = "encrypted" THEN WithEngineKeys(l, w, files[shelf]) ELSE l
    /\ count' = Count("loads")
    /\ UNCHANGED <<tree, keydir, writing, trusted, files, build, made>>

\* inspect takes the keys the operator names.
InspectBegins(shelf, w) ==
    /\ Starts(shelf)
    /\ load' = [LoadOf(shelf) EXCEPT !.own = DecryptionKeys(w), !.compiler = keydir["compiler"]["sig.pub"]]
    /\ count' = Count("loads")
    /\ UNCHANGED <<tree, keydir, writing, trusted, files, build, made>>

\* _load_tests: a file that is not there is warned about and left out; one that does not
\* parse refuses the package.
LoadTests(e) == Filter(e.bundle, DOMAIN e.tests)

\* _load_tck_package from the entries on: the bundle must be there, the digest must hold.
Opened(e) ==
    IF "bundle" \in DOMAIN e /\ Verify(e) /\ \A i \in ToSet(LoadTests(e)) : e.tests[i] # "bad"
    THEN [load EXCEPT !.at = "loaded", !.entries = e, !.tests = LoadTests(e)]
    ELSE Refuse

\* Mutant of SignatureHolds: the signature is looked for, not checked.
SignatureIsThere(p, key) == p.sig # NoSignature

\* verify_manifest: by the compiler's key, over this manifest and this payload.
SignatureHolds(p, key) == p.sig # NoSignature /\ key # 0 /\ p.sig = Signed(key, p.manifest, p.payload)

\* The loader opens the file again: a plain package is read and checked at once.
LoadVerifies ==
    /\ load.at = "verify"
    /\ LET p == files[load.place] IN
       load' = CASE p.form = "plain" -> Opened(p.entries)
                 [] p.form = "encrypted" /\ load.own.rsa # 0 /\ SignatureHolds(p, load.compiler) ->
                        [load EXCEPT !.at = "open", !.manifest = p.manifest]
                 [] OTHER -> Refuse
    /\ UNCHANGED <<tree, keydir, writing, trusted, files, build, made, count>>

\* open_encrypted_package reads the payload once more: what it decrypts must be sealed as the
\* manifest it verified before says (_require_described_content).
LoadOpens ==
    /\ load.at = "open"
    /\ LET p == files[load.place]
           key == ContentKey(load.manifest.players, load.own, load.strict) IN
       load' = IF /\ p.form = "encrypted" /\ Decrypts(p.payload, key)
                  /\ p.payload.entries.manifest.checksum = load.manifest.checksum
               THEN Opened(p.payload.entries) ELSE Refuse
    /\ UNCHANGED <<tree, keydir, writing, trusted, files, build, made, count>>

-----------------------------------------------------------------------------
PInit ==
    /\ tree = Tree0 /\ keydir = KeyDirs0 /\ writing = <<>> /\ trusted = {KeyDirs0["compiler"]["sig.pub"]}
    /\ files = [p \in Shelves |-> None] /\ build = Idle /\ made = {}
    /\ load = [at |-> "none", place |-> "none", calm |-> "no"]
    /\ count = [keys |-> Max(UNION {Range(KeyDirs0[w]) : w \in DOMAIN KeyDirs0}),
                compiles |-> 0, loads |-> 0, upsets |-> 0]

PNext ==
    \/ \E w \in Rekeyed, o \in {"yes", "no"} : Keygen(w, o)
    \/ WriteKeyFile \/ KeygenDies
    \/ Trust(keydir["compiler"]["sig.pub"])
    \/ \E k \in trusted : Distrust(k)
    \/ \E players \in Addressed : CompileBegins(players)
    \/ CompileValidates \/ CompileBuildsIr \/ CompileBundles \/ WriteBegins \/ WriteEnds \/ CompileDies
    \/ \E t \in Trees : EditSource(t)
    \/ \E p \in Remixed : Remix(p)
    \/ \E i \in Stored : Upload(i) \/ Delete(i)
    \/ \E p \in Shelves, w \in Players : RunBegins(p, w) \/ InspectBegins(p, w)
    \/ LoadVerifies \/ LoadOpens
PSpec == PInit /\ [][PNext]_pVars

-----------------------------------------------------------------------------
(* Properties *)

Entries(p) == IF p.form = "plain" THEN p.entries ELSE p.payload.entries

\* What the loader accepts is, entry for entry, what one compile sealed: whatever was put
\* together from parts of packages, replaced between the reads of one load or cut off while
\* it was written is refused (package_digest.verify, verify_manifest,
\* _require_described_content). An encrypted package it accepts was signed with the private
\* half of the very key the load was told to trust and sealed for a key this player holds.
\* (Parts are put together as they are and not sealed again: the digest of a plain package is
\* unkeyed and tells of damage, not of who wrote it.)
LoadedAsSealed == load.at = "loaded" =>
    \E m \in made :
        /\ load.entries = Entries(m.file)
        /\ load.manifest # <<>> => /\ m.file.form = "encrypted" /\ m.signer.pem = load.compiler
                                   /\ \E r \in m.to : r.rsa = load.own.rsa /\ r.kem \in {0, load.own.kem}

\* A package that is as its compile wrote it loads: when nothing changed it during the load,
\* its signer's key pair belonged together, that key is the one the load trusts and the player
\* holds the private keys it was sealed for, the only refusal left is the engine's own demand
\* for the post-quantum wrap (content_key_for). Every step of keygen, seal, wrap, sign and
\* bundle has to fit the step of the load that undoes it.
GoodPackageLoads == load.at = "refused" /\ load.calm = "yes" =>
    \A m \in made : m.file = files[load.place] /\ m.quiet = "yes" =>
        /\ m.file.form = "encrypted"
        /\ \/ m.signer.pem # m.signer.pub
           \/ m.signer.pub # load.compiler
           \/ ~\E r \in m.to : r.rsa = load.own.rsa /\ r.kem \in {0, load.own.kem}
           \/ load.strict # {} /\ \E r \in m.to : r.rsa = load.own.rsa /\ r.kem = 0

\* A sealed package tells of itself what is in it: every test its index lists is bundled, each
\* source hash is that of the bundled file unless a file of that name also lies beside the
\* index, asset digests are those of the packed files, and a symbol of the execution plan names
\* the instruction that returns it (build_ir, embed_bundle_yaml, build_test_symbols). Only an
\* edit during the compile may upset the first three.
ManifestTellsContent == \A m \in made :
    LET e == Entries(m.file) IN
    /\ m.quiet = "yes" =>
        /\ \A k \in DOMAIN e.bundle : e.bundle[k] \in DOMAIN e.tests /\ e.manifest.tests[k].id = e.bundle[k]
        /\ \A k \in DOMAIN e.bundle : m.tree.beside[e.bundle[k]] = "none" => e.manifest.tests[k].hash = e.tests[e.bundle[k]]
        /\ \A a \in e.manifest.assets : e.assets[a.id] = a.digest
    /\ \A k \in DOMAIN e.execution :
        LET t == CompiledTests(e)[k] IN
        \A key \in DOMAIN t.symbols :
            \E j \in DOMAIN t.instructions :
                /\ j = t.symbols[key] + 1 /\ t.instructions[j].index = t.symbols[key]
                /\ t.instructions[j].phase = key[1] /\ t.instructions[j].id = key[2] /\ key[3] \in t.instructions[j].returns

\* The source hash and the plan of a test are those of the file under tests/ that runs.
\* The code does not keep this one (README, divergences); no run lists it.
HashIsOfTheTestThatRuns == \A m \in made :
    m.quiet = "yes" => \A k \in DOMAIN Entries(m.file).bundle :
        Entries(m.file).manifest.tests[k].hash = Entries(m.file).tests[Entries(m.file).bundle[k]]
=============================================================================
