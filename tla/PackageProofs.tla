---------------------------- MODULE PackageProofs -----------------------------
(***************************************************************************)
(* A package and the run of it. The opening of a run, for any deployments, *)
(* inputs, packages and policies, and whatever the host registers,         *)
(* overlays and activates while runs are open: where the keys of its       *)
(* bindings may travel. And the life of a package, for any sources, keys   *)
(* and players, and whatever is edited, renewed, put together, cut off or  *)
(* replaced on the way: what a load accepts, and that it accepts what a    *)
(* compile nobody disturbed wrote for the player that loads it. And before *)
(* that, for any TCK, what the validation of its tests and manifest        *)
(* accepts.                                                                *)
(***************************************************************************)
EXTENDS RunSetup, PackageLife, Validation, SequenceFilterProofs, TLAPS

(***************************************************************************)
(* What a run is bound to.                                                 *)
(***************************************************************************)

\* What the package carries re-points nothing: an override is a field the inputs state.
LEMMA OverridesAreInputs ==
  ASSUME NEW pkg, NEW input
  PROVE  /\ DOMAIN CollectOverrides(pkg, input) = DOMAIN input \cap Fields
         /\ \A f \in DOMAIN input \cap Fields : CollectOverrides(pkg, input)[f] = input[f]
  BY DEF CollectOverrides, SeededTemplates

\* The address and the key of a side that a run is bound to.
Bound(base, pkg, input) == Align(ApplyOverrides(base, CollectOverrides(pkg, input)), pkg)

\* Both are of the inputs or of the deployment, and the deployment's key is for its address.
Homed(d, base, input, side) ==
    LET url == <<side, "management_url">>
        key == <<side, "api_key">>
    IN  /\ d[url] = IF url \in DOMAIN input THEN input[url] ELSE base[url]
        /\ d[key] \in {"", IF key \in DOMAIN input THEN input[key] ELSE base[key]}
        /\ d[key] # "" /\ key \notin DOMAIN input => base[url] \in {"", d[url]}

\* What a run binds is at home in the base, its package or its input.
LEMMA BoundIs ==
  ASSUME NEW base, NEW pkg, NEW input, NEW side \in Sides
  PROVE  Homed(Bound(base, pkg, input), base, input, side)
  <1> DEFINE over == CollectOverrides(pkg, input)
             app == ApplyOverrides(base, over)
             d == Align(app, pkg)
             url == <<side, "management_url">>
             key == <<side, "api_key">>
  <1>1. url \in Fields /\ key \in Fields /\ url[1] = side /\ url[2] = "management_url" /\ key[1] = side /\ key[2] = "api_key"
    BY DEF Fields, Leaves
  <1>2. /\ \A f \in Fields : f \in DOMAIN over <=> f \in DOMAIN input
        /\ \A f \in Fields : f \in DOMAIN over => over[f] = input[f]
    BY OverridesAreInputs
  <1>3. \A f \in Fields : f[2] # "version" => d[f] = app[f]
    BY DEF Align
  <1> HIDE DEF over, d
  <1>4. \A f \in Fields : Merge(base, over)[f] = IF f \in DOMAIN input THEN input[f] ELSE base[f]
    BY <1>2 DEF Merge
  <1>5. /\ app[url] = Merge(base, over)[url]
        /\ app[key] = IF Stranded(base, over, key) THEN "" ELSE Merge(base, over)[key]
    BY <1>1 DEF ApplyOverrides, Stranded
  <1>6. Stranded(base, over, key) <=>
           key \notin DOMAIN input /\ base[url] # "" /\ base[url] # Merge(base, over)[url]
    BY <1>1, <1>2 DEF Stranded, Origins
  <1> HIDE DEF app, url, key
  <1>7. d[url] = Merge(base, over)[url] /\ d[key] = app[key]
    BY <1>1, <1>3, <1>5
  <1>8. /\ d[url] = IF url \in DOMAIN input THEN input[url] ELSE base[url]
        /\ d[key] \in {"", IF key \in DOMAIN input THEN input[key] ELSE base[key]}
        /\ d[key] # "" /\ key \notin DOMAIN input => base[url] \in {"", d[url]}
    BY <1>1, <1>4, <1>5, <1>6, <1>7
  <1> QED BY <1>8 DEF Homed, Bound, url, key, d, app, over

\* The services of a run: each has the address and the key of its side, and a provider that
\* is not asked for by its own name is the system under test, or the engine's named one.
Served(s, d) ==
    /\ s.side \in Sides /\ s.url = Origins(d, s.side) /\ s.key = d[<<s.side, "api_key">>]
    /\ s.type = "provider" /\ s.name # "__engine_connector_provider__" /\ d[<<"engine", "name">>] = "" => s.side = "sut"

\* A connector service is made of the data of its side.
LEMMA ConnectorIs ==
  ASSUME NEW name, NEW type, NEW side, NEW d
  PROVE  LET c == Connector(name, type, side, d)
         IN  c.name = name /\ c.type = type /\ c.side = side /\ c.url = Origins(d, side) /\ c.key = d[<<side, "api_key">>]
  BY DEF Connector

\* Every service that is seeded is made of the data it is seeded from.
LEMMA ServicesAre ==
  ASSUME NEW d
  PROVE  \E T : SeedServices(d) \in Seq(T) /\ \A s \in T : Served(s, d)
  <1> DEFINE alias == d[<<"engine", "name">>]
             c1 == Connector("__engine_connector__", "consumer", "engine", d)
             c2 == Connector(alias, "provider", "engine", d)
             c3 == Connector("__sut_connector__", "provider", "sut", d)
             c4 == Connector("__engine_connector_provider__", "provider", "engine", d)
             T == {c1, c3, c4} \cup (IF alias # "" THEN {c2} ELSE {})
             s1 == IF IsBound(d, "engine") THEN <<c1>> ELSE <<>>
             s2 == IF IsBound(d, "engine") /\ alias # "" THEN <<c2>> ELSE <<>>
             s3 == IF Origins(d, "sut") # "" THEN <<c3>> ELSE <<>>
             s4 == IF IsBound(d, "engine") THEN <<c4>> ELSE <<>>
  <1>1. SeedServices(d) = s1 \o s2 \o s3 \o s4
    BY DEF SeedServices
  <1>2. Served(c1, d) /\ Served(c3, d) /\ Served(c4, d) /\ (alias # "" => Served(c2, d))
    <2>1. c1.type = "consumer" /\ c1.side = "engine" /\ c1.url = Origins(d, "engine") /\ c1.key = d[<<"engine", "api_key">>]
      BY ConnectorIs
    <2>2. c2.side = "engine" /\ c2.url = Origins(d, "engine") /\ c2.key = d[<<"engine", "api_key">>]
      BY ConnectorIs
    <2>3. c3.side = "sut" /\ c3.url = Origins(d, "sut") /\ c3.key = d[<<"sut", "api_key">>]
      BY ConnectorIs
    <2>4. /\ c4.name = "__engine_connector_provider__" /\ c4.side = "engine"
          /\ c4.url = Origins(d, "engine") /\ c4.key = d[<<"engine", "api_key">>]
      BY ConnectorIs
    <2> HIDE DEF c1, c2, c3, c4
    <2>5. Served(c1, d)
      BY <2>1 DEF Served, Sides
    <2>6. Served(c3, d)
      BY <2>3 DEF Served, Sides
    <2>7. Served(c4, d)
      BY <2>4 DEF Served, Sides
    <2>8. alias # "" => Served(c2, d)
      BY <2>2 DEF Served, Sides
    <2> QED BY <2>5, <2>6, <2>7, <2>8
  <1> HIDE DEF c1, c2, c3, c4
  <1>3. \A s \in T : Served(s, d)
    BY <1>2
  <1>7. c1 \in T /\ c3 \in T /\ c4 \in T /\ (alias # "" => c2 \in T)
    OBVIOUS
  <1> HIDE DEF T, alias
  <1>8. <<>> \in Seq(T) /\ \A c \in T : <<c>> \in Seq(T)
    OBVIOUS
  <1>4. /\ c1 \in T /\ c3 \in T /\ c4 \in T /\ (alias # "" => c2 \in T)
        /\ <<>> \in Seq(T) /\ \A c \in T : <<c>> \in Seq(T)
    BY <1>7, <1>8
  <1>6. s1 \in Seq(T) /\ s2 \in Seq(T) /\ s3 \in Seq(T) /\ s4 \in Seq(T)
    BY <1>4
  <1> HIDE DEF s1, s2, s3, s4
  <1>5. s1 \o s2 \o s3 \o s4 \in Seq(T)
    BY <1>6
  <1> QED BY <1>1, <1>3, <1>5

\* The service a step of a role gets.
LEMMA LookupIs ==
  ASSUME NEW d, NEW role \in Roles, Lookup(SeedServices(d), role) # <<>>
  PROVE  LET s == Lookup(SeedServices(d), role)[1]
         IN  Served(s, d) /\ (role = "provider" => s.type = "provider" /\ s.name # "__engine_connector_provider__")
  <1> DEFINE services == SeedServices(d)
             S == {s \in ToSet(services) :
                     IF role = "engine_provider" THEN s.name = "__engine_connector_provider__"
                     ELSE s.name # "__engine_connector_provider__" /\ s.type = role}
             r == Lookup(services, role)
  <1>1. PICK T : services \in Seq(T) /\ \A s \in T : Served(s, d)
    BY ServicesAre
  <1>2. r = Filter(services, S) /\ r # <<>>
    BY DEF Lookup
  <1>3. \A s \in S : role = "provider" => s.type = "provider" /\ s.name # "__engine_connector_provider__"
    OBVIOUS
  <1> HIDE DEF services, S, r
  <1>4. r \in Seq(T) /\ \E g : KeptFrom(r, services, S, Len(services), g)
    BY <1>1, <1>2, FilterFacts
  <1>5. PICK g : KeptFrom(r, services, S, Len(services), g)
    BY <1>4
  <1>6. 1 \in 1..Len(r) /\ r[1] \in T
    BY <1>2, <1>4
  <1>7. r[1] \in S
    BY <1>5, <1>6 DEF KeptFrom
  <1> QED BY <1>1, <1>3, <1>6, <1>7 DEF r, services

(***************************************************************************)
(* The invariant. What a run holds was made in one step of the deployment  *)
(* and the inputs of its opening, which it keeps beside it; what was sent  *)
(* last is what the run it is of still holds.                              *)
(***************************************************************************)

\* What _open_session made of an open run.
OpenFits(me) == me.pc = "open" =>
    /\ me.bound = Bound(me.base, me.pkg, me.input)
    /\ me.services = SeedServices(me.bound)
    /\ me.masked = Masked(me.bound, me.input)
    /\ \A f \in DOMAIN CollectOverrides(me.pkg, me.input) : f[1] \in policy.movable

SentFits == sent.run # "none" =>
    /\ sent.run \in SetupRuns /\ run[sent.run].pc = "open" /\ sent.side \in Sides
    /\ sent.to = Origins(run[sent.run].bound, sent.side)
    /\ sent.key = run[sent.run].bound[<<sent.side, "api_key">>]
    /\ sent.by = "request" => sent.side \in policy.released
    /\ sent.by = "provider" /\ run[sent.run].bound[<<"engine", "name">>] = "" => sent.side = "sut"

SetupInv ==
    /\ DOMAIN run = SetupRuns /\ run = [r \in SetupRuns |-> run[r]]
    /\ \A r \in SetupRuns : "pc" \in DOMAIN run[r] /\ OpenFits(run[r])
    /\ SentFits

\* A run that opens fits what it was opened with, and the others stay as they are.
LEMMA OpenedFits ==
  ASSUME NEW r \in SetupRuns, NEW pkg, NEW input, SetupInv, OpenSession(r, pkg, input)
  PROVE  /\ DOMAIN run' = SetupRuns /\ run' = [q \in SetupRuns |-> run'[q]]
         /\ \A q \in SetupRuns : q # r => run'[q] = run[q]
         /\ "pc" \in DOMAIN run'[r] /\ OpenFits(run[r])'
  <1> DEFINE d == Resolved(pkg, input)
             rec == [pc |-> "open", base |-> profiles[active], input |-> input, pkg |-> pkg, bound |-> d,
                     services |-> SeedServices(d), masked |-> Masked(d, input)]
  <1>1. run' = [run EXCEPT ![r] = rec] /\ policy' = policy
    BY DEF OpenSession
  <1>2. \A f \in DOMAIN CollectOverrides(pkg, input) : f[1] \in policy.movable
    <2>1. Refusals(pkg, input) = {} /\ "held" \in {"held"}
      BY DEF OpenSession
    <2> QED BY <2>1 DEF Refusals
  <1>3. d = Bound(profiles[active], pkg, input)
    BY DEF Resolved, Bound
  <1>4. /\ "pc" \in DOMAIN rec /\ rec.base = profiles[active] /\ rec.pkg = pkg /\ rec.input = input
        /\ rec.bound = d /\ rec.services = SeedServices(d) /\ rec.masked = Masked(d, input)
    OBVIOUS
  <1> HIDE DEF rec, d
  <1>5. run'[r] = rec /\ DOMAIN run' = SetupRuns /\ run' = [q \in SetupRuns |-> run'[q]]
    BY <1>1 DEF SetupInv
  <1>6. \A q \in SetupRuns : q # r => run'[q] = run[q]
    BY <1>1 DEF SetupInv
  <1>7. OpenFits(run[r])'
    BY <1>1, <1>2, <1>3, <1>4, <1>5 DEF OpenFits
  <1> QED BY <1>4, <1>5, <1>6, <1>7

\* Every step keeps the invariant of the runs.
LEMMA SetupStep == SetupInv /\ [SetupNext]_setupVars => SetupInv'
  <1> SUFFICES ASSUME SetupInv, [SetupNext]_setupVars PROVE SetupInv'
    OBVIOUS
  <1>0. /\ DOMAIN run = SetupRuns /\ run = [r \in SetupRuns |-> run[r]]
        /\ \A r \in SetupRuns : "pc" \in DOMAIN run[r] /\ OpenFits(run[r])
        /\ SentFits
    BY DEF SetupInv
  <1>1. ASSUME NEW r \in SetupRuns, NEW pkg \in Packages, NEW input \in RunInputs, OpenSession(r, pkg, input)
        PROVE  SetupInv'
    <2>1. /\ DOMAIN run' = SetupRuns /\ run' = [q \in SetupRuns |-> run'[q]]
          /\ \A q \in SetupRuns : q # r => run'[q] = run[q]
          /\ "pc" \in DOMAIN run'[r] /\ OpenFits(run[r])'
      BY <1>1, OpenedFits
    <2>2. run[r].pc = "none" /\ sent' = sent /\ policy' = policy
      BY <1>1 DEF OpenSession
    <2>3. ASSUME NEW q \in SetupRuns PROVE "pc" \in DOMAIN run'[q] /\ OpenFits(run[q])'
      <3>1. CASE q = r
        BY <3>1, <2>1
      <3>2. CASE q # r
        BY <3>2, <2>1, <2>2, <1>0 DEF OpenFits
      <3> QED BY <3>1, <3>2
    <2>4. sent.run # "none" => run'[sent.run] = run[sent.run]
      BY <1>0, <2>1, <2>2 DEF SentFits
    <2>5. SentFits'
      BY <1>0, <2>2, <2>4 DEF SentFits
    <2> QED BY <2>1, <2>3, <2>5 DEF SetupInv
  <1>2. ASSUME NEW r \in SetupRuns, NEW pkg \in Packages, NEW input \in RunInputs, OpenFails(r, pkg, input)
        PROVE  SetupInv'
    <2> DEFINE rec == [run[r] EXCEPT !.pc = IF pkg.typed = "no" THEN "raised" ELSE "refused"]
    <2>1. run' = [run EXCEPT ![r] = rec] /\ run[r].pc = "none" /\ sent' = sent /\ policy' = policy
      BY <1>2 DEF OpenFails
    <2>2. "pc" \in DOMAIN rec /\ rec.pc # "open"
      BY <1>0
    <2> HIDE DEF rec
    <2>3. /\ DOMAIN run' = SetupRuns /\ run' = [q \in SetupRuns |-> run'[q]] /\ run'[r] = rec
          /\ \A q \in SetupRuns : q # r => run'[q] = run[q]
      BY <1>0, <2>1
    <2>4. ASSUME NEW q \in SetupRuns PROVE "pc" \in DOMAIN run'[q] /\ OpenFits(run[q])'
      BY <1>0, <2>1, <2>2, <2>3 DEF OpenFits
    <2>5. sent.run # "none" => run'[sent.run] = run[sent.run]
      BY <1>0, <2>1, <2>3 DEF SentFits
    <2>6. SentFits'
      BY <1>0, <2>1, <2>5 DEF SentFits
    <2> QED BY <2>3, <2>4, <2>6 DEF SetupInv
  <1>3. ASSUME NEW r \in SetupRuns, NEW role \in Roles, StepCalls(r, role)
        PROVE  SetupInv'
    <2> DEFINE s == Lookup(run[r].services, role)[1]
               d == run[r].bound
    <2>1. /\ run[r].pc = "open" /\ run' = run /\ policy' = policy /\ Lookup(run[r].services, role) # <<>>
          /\ sent' = [run |-> r, side |-> s.side, key |-> s.key, to |-> s.url, by |-> role]
      BY <1>3 DEF StepCalls, Send
    <2>2. run[r].services = SeedServices(d)
      BY <1>0, <2>1 DEF OpenFits
    <2>3. Served(s, d) /\ (role = "provider" => s.type = "provider" /\ s.name # "__engine_connector_provider__")
      BY <2>1, <2>2, LookupIs
    <2> HIDE DEF s
    <2>4. role # "request"
      BY DEF Roles
    <2>5. SentFits'
      BY <2>1, <2>3, <2>4 DEF SentFits, Served
    <2>6. \A q \in SetupRuns : OpenFits(run[q])'
      BY <1>0, <2>1 DEF OpenFits
    <2> QED BY <1>0, <2>1, <2>5, <2>6 DEF SetupInv
  <1>4. ASSUME NEW r \in SetupRuns, NEW side \in Sides, NEW url \in Addresses, StepSends(r, side, url)
        PROVE  SetupInv'
    <2>1. /\ run[r].pc = "open" /\ run' = run /\ policy' = policy
          /\ side \in policy.released /\ url = Origins(run[r].bound, side)
          /\ sent' = [run |-> r, side |-> side, key |-> run[r].bound[<<side, "api_key">>], to |-> url, by |-> "request"]
      BY <1>4 DEF StepSends, Send, RevealFor
    <2>2. SentFits'
      BY <2>1 DEF SentFits
    <2>3. \A q \in SetupRuns : OpenFits(run[q])'
      BY <1>0, <2>1 DEF OpenFits
    <2> QED BY <1>0, <2>1, <2>2, <2>3 DEF SetupInv
  <1>5. ASSUME NEW r \in SetupRuns, CloseRun(r)
        PROVE  SetupInv'
    <2> DEFINE rec == [NotOpened EXCEPT !.pc = "closed"]
    <2>1. /\ run' = [run EXCEPT ![r] = rec] /\ policy' = policy
          /\ sent' = IF sent.run = r THEN NothingSent ELSE sent
      BY <1>5 DEF CloseRun
    <2>2. "pc" \in DOMAIN rec /\ rec.pc # "open"
      BY DEF NotOpened
    <2> HIDE DEF rec
    <2>3. /\ DOMAIN run' = SetupRuns /\ run' = [q \in SetupRuns |-> run'[q]] /\ run'[r] = rec
          /\ \A q \in SetupRuns : q # r => run'[q] = run[q]
      BY <1>0, <2>1
    <2>4. ASSUME NEW q \in SetupRuns PROVE "pc" \in DOMAIN run'[q] /\ OpenFits(run[q])'
      BY <1>0, <2>1, <2>2, <2>3 DEF OpenFits
    <2>5. NothingSent.run = "none"
      BY DEF NothingSent
    <2>6. SentFits'
      BY <1>0, <2>1, <2>3, <2>5 DEF SentFits
    <2> QED BY <2>3, <2>4, <2>6 DEF SetupInv
  <1>6. ASSUME UNCHANGED <<policy, run, sent>>
        PROVE  SetupInv'
    BY <1>0, <1>6 DEF SetupInv, OpenFits, SentFits
  <1>7. CASE UNCHANGED setupVars
    BY <1>6, <1>7 DEF setupVars
  <1>8. CASE SetupNext
    <2>1. ASSUME NEW n \in Names, NEW layer \in Layers, NEW a \in {"yes", "no"},
                 Activate(n) \/ Register(n, layer, a) \/ Overlay(layer)
          PROVE  UNCHANGED <<policy, run, sent>>
      BY <2>1 DEF Activate, Register, Overlay, HostActs
    <2>2. ASSUME NEW n, Activate(n) PROVE UNCHANGED <<policy, run, sent>>
      BY <2>2 DEF Activate, HostActs
    <2>3. ASSUME NEW layer, Overlay(layer) PROVE UNCHANGED <<policy, run, sent>>
      BY <2>3 DEF Overlay, HostActs
    <2> QED BY <1>1, <1>2, <1>3, <1>4, <1>5, <1>6, <1>8, <2>1, <2>2, <2>3 DEF SetupNext
  <1> QED BY <1>7, <1>8

\* The invariant of the runs always holds.
LEMMA SetupHolds == SetupSpec => []SetupInv
  <1>1. SetupInit => SetupInv
    <2> SUFFICES ASSUME SetupInit PROVE SetupInv
      OBVIOUS
    <2>1. run = [r \in SetupRuns |-> NotOpened] /\ sent.run = "none"
      BY DEF SetupInit, NothingSent
    <2>2. "pc" \in DOMAIN NotOpened /\ OpenFits(NotOpened)
      BY DEF NotOpened, OpenFits
    <2> QED BY <2>1, <2>2 DEF SetupInv, SentFits
  <1> QED BY <1>1, SetupStep, PTL DEF SetupSpec

(***************************************************************************)
(* For any deployments, inputs, packages and config, however many runs are *)
(* open and whatever the host registers, overlays or activates meanwhile:  *)
(* a key a step sends goes to the address it was given for, is one the     *)
(* config releases if a request of a test carries it, and is masked        *)
(* (KeysStayHome, of open_session and the steps that send).                *)
(***************************************************************************)
THEOREM KeysAlwaysHome == SetupSpec => []KeysStayHome
  <1>1. SetupInv => KeysStayHome
    <2> SUFFICES ASSUME SetupInv, sent.run # "none" PROVE KeysStayHome
      BY DEF KeysStayHome
    <2> DEFINE me == run[sent.run]
               side == sent.side
               url == <<side, "management_url">>
               key == <<side, "api_key">>
    <2>1. /\ sent.run \in SetupRuns /\ me.pc = "open" /\ side \in Sides
          /\ sent.to = me.bound[url] /\ sent.key = me.bound[key]
          /\ sent.by = "request" => side \in policy.released
          /\ sent.by = "provider" /\ me.bound[<<"engine", "name">>] = "" => side = "sut"
      BY DEF SetupInv, SentFits, Origins
    <2>2. /\ me.bound = Bound(me.base, me.pkg, me.input) /\ me.masked = Masked(me.bound, me.input)
          /\ \A f \in DOMAIN CollectOverrides(me.pkg, me.input) : f[1] \in policy.movable
      BY <2>1 DEF SetupInv, OpenFits
    <2>3. /\ me.bound[url] = IF url \in DOMAIN me.input THEN me.input[url] ELSE me.base[url]
          /\ me.bound[key] \in {"", IF key \in DOMAIN me.input THEN me.input[key] ELSE me.base[key]}
          /\ me.bound[key] # "" /\ key \notin DOMAIN me.input => me.base[url] \in {"", me.bound[url]}
      <3>1. Homed(Bound(me.base, me.pkg, me.input), me.base, me.input, side)
        BY <2>1, BoundIs
      <3>2. Homed(me.bound, me.base, me.input, side)
        BY <2>2, <3>1
      <3> QED BY <3>2 DEF Homed
    <2>4. side \notin policy.movable => url \notin DOMAIN me.input
      <3>1. url \in Fields /\ url[1] = side
        BY <2>1 DEF Fields, Leaves
      <3>2. DOMAIN CollectOverrides(me.pkg, me.input) = DOMAIN me.input \cap Fields
        BY OverridesAreInputs
      <3> QED BY <2>2, <3>1, <3>2
    <2>5. sent.key # "" /\ IsBound(me.bound, side) => sent.key \in me.masked
      <3>1. SUFFICES ASSUME sent.key # "", IsBound(me.bound, side) PROVE sent.key \in me.masked
        OBVIOUS
      <3> QED BY <2>1, <2>2, <3>1 DEF Masked
    <2>6. sent.to = OwnAddress(sent.run, side)
      BY <2>1, <2>3 DEF OwnAddress
    <2> HIDE DEF me, side, url, key
    <2>7. /\ sent.key \in {"", IF key \in DOMAIN me.input THEN me.input[key] ELSE me.base[key]}
          /\ sent.key # "" /\ key \notin DOMAIN me.input => me.base[url] \in {"", sent.to}
          /\ side \notin policy.movable => sent.to = me.base[url]
      BY <2>1, <2>3, <2>4
    <2> QED BY <2>1, <2>5, <2>6, <2>7 DEF KeysStayHome, me, side, url, key
  <1> QED BY <1>1, SetupHolds, PTL

(***************************************************************************)
(* The life of a package: the seal.                                        *)
(***************************************************************************)

\* What Seal returns: entries whose manifest holds the digest of all the others.
Sealed(e) == /\ e = [n \in DOMAIN e |-> e[n]] /\ "manifest" \in DOMAIN e
             /\ e.manifest.checksum = Compute(e)

\* Sealing writes the digests into the manifest and nothing else.
LEMMA SealSeals ==
  ASSUME NEW e, "manifest" \in DOMAIN e, "checksum" \in DOMAIN e.manifest
  PROVE  Sealed(Seal(e)) /\ DOMAIN Seal(e) = DOMAIN e /\ \A n \in DOMAIN e : n # "manifest" => Seal(e)[n] = e[n]
  <1> DEFINE s == Seal(e)
             man == [e.manifest EXCEPT !.checksum = Compute(e)]
  <1>1. s = [e EXCEPT !["manifest"] = man]
    BY DEF Seal
  <1> HIDE DEF s
  <1>2. man.checksum = Compute(e) /\ [man EXCEPT !.checksum = <<>>] = [e.manifest EXCEPT !.checksum = <<>>]
    OBVIOUS
  <1> HIDE DEF man
  <1>3. /\ s.manifest = man /\ DOMAIN s = DOMAIN e /\ \A n \in DOMAIN e : n # "manifest" => s[n] = e[n]
        /\ s = [n \in DOMAIN s |-> s[n]]
    BY <1>1
  <1>4. [n \in DOMAIN s \ {"manifest"} |-> s[n]] = [n \in DOMAIN e \ {"manifest"} |-> e[n]]
    BY <1>3
  <1>5. Compute(s) = Compute(e)
    BY <1>2, <1>3, <1>4 DEF Compute
  <1> QED BY <1>2, <1>3, <1>5 DEF Sealed, s

\* One entry of a sealed package replaced: the digest holds only if it is the same entry.
LEMMA SealTells ==
  ASSUME NEW a, NEW n, NEW x, Sealed(a), n # "manifest", Verify([a EXCEPT ![n] = x])
  PROVE  [a EXCEPT ![n] = x] = a
  <1> DEFINE e == [a EXCEPT ![n] = x]
  <1>1. DOMAIN e = DOMAIN a /\ e.manifest = a.manifest /\ e = [k \in DOMAIN a |-> e[k]]
    BY DEF Sealed
  <1>2. Verify(e)
    OBVIOUS
  <1> HIDE DEF e
  <1>3. Compute(e) = Compute(a)
    BY <1>1, <1>2 DEF Sealed, Verify
  <1>4. [k \in DOMAIN e \ {"manifest"} |-> e[k]] = [k \in DOMAIN a \ {"manifest"} |-> a[k]]
    BY <1>3 DEF Compute
  <1>5. ASSUME NEW k \in DOMAIN a PROVE e[k] = a[k]
    <2>1. CASE k = "manifest"
      BY <1>1, <2>1
    <2>2. CASE k # "manifest"
      <3>1. k \in DOMAIN e \ {"manifest"} /\ k \in DOMAIN a \ {"manifest"}
        BY <1>1, <2>2
      <3> QED BY <1>4, <3>1
    <2> QED BY <2>1, <2>2
  <1>6. a = [k \in DOMAIN a |-> a[k]]
    BY DEF Sealed
  <1>7. e = a
    BY <1>1, <1>5, <1>6
  <1> QED BY <1>7 DEF e

\* A content key a player gets out of a wrap is the one that was wrapped, for a key it holds.
LEMMA KeyIsWrapped ==
  ASSUME NEW to, NEW content, NEW own, NEW strict, ContentKey(WrapForAll(to, content), own, strict) # 0
  PROVE  /\ ContentKey(WrapForAll(to, content), own, strict) = content
         /\ \E r \in to : r.rsa = own.rsa /\ r.kem \in {0, own.kem}
  <1> DEFINE mine == {e \in WrapForAll(to, content) : e.player = own.rsa}
             e == CHOOSE x \in mine : TRUE
             key == ContentKey(WrapForAll(to, content), own, strict)
  <1>1. mine # {} /\ key = Unwrap(e, own, strict)
    BY DEF ContentKey
  <1>2. e \in mine
    BY <1>1
  <1> HIDE DEF e, key
  <1>3. PICK r \in to : e = Wrap(r.rsa, r.kem, content)
    BY <1>2 DEF WrapForAll
  <1>4. e.player = r.rsa /\ e.kem = r.kem /\ e.content = content /\ e.player = own.rsa
    BY <1>2, <1>3 DEF Wrap
  <1>5. key # 0
    BY DEF key
  <1>6. key = content /\ r.kem \in {0, own.kem}
    BY <1>1, <1>4, <1>5 DEF Unwrap, UnwrapHybrid
  <1> QED BY <1>4, <1>6 DEF key

(***************************************************************************)
(* The invariant: what each compile wrote is sealed, and signed and        *)
(* wrapped under a content key of its own; what lies on a shelf is made of *)
(* parts of that, a plain one with a digest that holds of all of one; and  *)
(* what a load has verified is the manifest of one compile.                *)
(***************************************************************************)

Crypts(M) == {m \in M : m.file.form = "encrypted"}

MadeFits(m, c) ==
    /\ m.file.form \in {"plain", "encrypted"} /\ Sealed(Entries(m.file))
    /\ m.file.form = "encrypted" =>
        /\ {"form", "manifest", "payload", "sig"} \subseteq DOMAIN m.file
        /\ m.file.payload.key \in Nat /\ 0 < m.file.payload.key /\ m.file.payload.key <= c
        /\ m.file.manifest.players = WrapForAll(m.to, m.file.payload.key)
        /\ m.file.sig = Signed(m.signer.pem, m.file.manifest, m.file.payload)

\* No two compiles share a content key.
OwnKeys(M) == \A m, n \in Crypts(M) : m.file.payload.key = n.file.payload.key => m = n

BuildFits(b, c, M) == b # Idle =>
    /\ {"at", "form", "signer", "to", "quiet", "entries"} \subseteq DOMAIN b
    /\ b.form \in {"plain", "encrypted"}
    /\ 0 < c /\ \A m \in Crypts(M) : m.file.payload.key < c
    /\ b.at = "bundle" => "manifest" \in DOMAIN b.entries /\ "checksum" \in DOMAIN b.entries.manifest
    /\ b.at \in {"write", "close"} => Sealed(b.entries)

FileFits(p, M) ==
    /\ p.form \in {"none", "torn", "plain", "encrypted"}
    /\ p.form = "plain" /\ "bundle" \in DOMAIN p.entries /\ Verify(p.entries) => \E m \in M : p.entries = Entries(m.file)
    /\ p.form = "encrypted" => /\ \E m \in Crypts(M) : p.payload = m.file.payload
                               /\ p.sig = NoSignature \/ \E m \in Crypts(M) : p.sig = m.file.sig

\* LoadedAsSealed, of a load and the packages made.
Accepted(l, M) == l.at = "loaded" =>
    \E m \in M :
        /\ l.entries = Entries(m.file)
        /\ l.manifest # <<>> => /\ m.file.form = "encrypted" /\ m.signer.pem = l.compiler
                                /\ \E r \in m.to : r.rsa = l.own.rsa /\ r.kem \in {0, l.own.kem}

LoadParts == {"at", "place", "calm", "own", "compiler", "strict", "manifest", "entries", "tests"}
LoadFits(l, M) ==
    /\ "at" \in DOMAIN l /\ (l.at # "none" => LoadParts \subseteq DOMAIN l)
    /\ l.at \in {"verify", "open"} => l.place \in Shelves
    /\ l.at = "verify" => l.manifest = <<>>
    /\ l.at = "open" => \E m \in Crypts(M) : l.manifest = m.file.manifest /\ l.compiler = m.signer.pem
    /\ Accepted(l, M)

PackInv ==
    /\ "compiles" \in DOMAIN count /\ count.compiles \in Nat
    /\ \A m \in made : MadeFits(m, count.compiles)
    /\ OwnKeys(made)
    /\ BuildFits(build, count.compiles, made)
    /\ DOMAIN files = Shelves /\ \A s \in Shelves : FileFits(files[s], made)
    /\ LoadFits(load, made)

(***************************************************************************)
(* What a load finds.                                                      *)
(***************************************************************************)

LEMMA FileGrows ==
  ASSUME NEW p, NEW M, NEW N, M \subseteq N, FileFits(p, M)
  PROVE  FileFits(p, N)
  BY DEF FileFits, Crypts

\* A load fits when more has been compiled meanwhile.
LEMMA LoadGrows ==
  ASSUME NEW l, NEW M, NEW N, M \subseteq N, LoadFits(l, M)
  PROVE  LoadFits(l, N)
  <1>1. Accepted(l, N)
    BY DEF LoadFits, Accepted
  <1> QED BY <1>1 DEF LoadFits, Crypts

\* A file that changes under a load does not change what the load is.
LEMMA CalmOnly ==
  ASSUME NEW l, NEW M, NEW c, LoadFits(l, M)
  PROVE  LoadFits([l EXCEPT !.calm = c], M)
  <1> DEFINE k == [l EXCEPT !.calm = c]
  <1>1. DOMAIN k = DOMAIN l /\ \A f \in DOMAIN l : f # "calm" => k[f] = l[f]
    OBVIOUS
  <1> HIDE DEF k
  <1>2. k.at = l.at
    BY <1>1 DEF LoadFits
  <1>3. l.at # "none" => /\ k.place = l.place /\ k.manifest = l.manifest /\ k.compiler = l.compiler
                         /\ k.entries = l.entries /\ k.own = l.own
    BY <1>1 DEF LoadFits, LoadParts
  <1>4. Accepted(k, M)
    BY <1>2, <1>3 DEF LoadFits, Accepted
  <1>5. LoadFits(k, M)
    BY <1>1, <1>2, <1>3, <1>4 DEF LoadFits
  <1> QED BY <1>5 DEF k

\* A load that is refused fits still.
LEMMA RefusedFits ==
  ASSUME NEW l, NEW M, LoadFits(l, M)
  PROVE  LoadFits([l EXCEPT !.at = "refused"], M) \/ l.at = "none"
  <1> DEFINE k == [l EXCEPT !.at = "refused"]
  <1>1. l.at # "none" => k.at = "refused" /\ LoadParts \subseteq DOMAIN k /\ "at" \in DOMAIN k
    BY DEF LoadFits
  <1> HIDE DEF k
  <1>2. l.at # "none" => LoadFits(k, M)
    BY <1>1 DEF LoadFits, Accepted
  <1> QED BY <1>2 DEF k

\* A manifest that a compile with this signer's key wrote.
Described(man, key, M) == \E m \in Crypts(M) : man = m.file.manifest /\ key = m.signer.pem

\* A file with a valid signature is described by the manifest of a compile of that signer.
LEMMA SignatureTells ==
  ASSUME NEW p, NEW key, NEW M, NEW c, FileFits(p, M), \A m \in M : MadeFits(m, c),
         p.form = "encrypted", SignatureHolds(p, key)
  PROVE  Described(p.manifest, key, M)
  <1>1. PICK m \in Crypts(M) : p.sig = m.file.sig
    BY DEF FileFits, SignatureHolds
  <1>2. m.file.sig = Signed(m.signer.pem, m.file.manifest, m.file.payload)
    BY DEF Crypts, MadeFits
  <1>3. Signed(key, p.manifest, p.payload) = Signed(m.signer.pem, m.file.manifest, m.file.payload)
    BY <1>1, <1>2 DEF SignatureHolds
  <1>4. key = m.signer.pem /\ <<p.manifest, p.payload>> = <<m.file.manifest, m.file.payload>>
    BY <1>3 DEF Signed
  <1> QED BY <1>4 DEF Described

\* A payload that opens with the key a verified manifest gives this player is of that compile.
LEMMA PayloadTells ==
  ASSUME NEW p, NEW M, NEW c, NEW m \in Crypts(M), NEW own, NEW strict, FileFits(p, M), OwnKeys(M),
         \A n \in M : MadeFits(n, c), p.form = "encrypted",
         Decrypts(p.payload, ContentKey(m.file.manifest.players, own, strict))
  PROVE  /\ p.payload.entries = Entries(m.file)
         /\ \E r \in m.to : r.rsa = own.rsa /\ r.kem \in {0, own.kem}
  <1> DEFINE k == m.file.payload.key
             key == ContentKey(m.file.manifest.players, own, strict)
  <1>1. m \in M /\ m.file.form = "encrypted" /\ m.file.manifest.players = WrapForAll(m.to, k)
    BY DEF Crypts, MadeFits
  <1>2. key # 0 /\ p.payload.key = key
    BY DEF Decrypts
  <1>3. key = k /\ \E r \in m.to : r.rsa = own.rsa /\ r.kem \in {0, own.kem}
    BY <1>1, <1>2, KeyIsWrapped
  <1>4. PICK n \in Crypts(M) : p.payload = n.file.payload
    BY DEF FileFits
  <1>5. n = m
    BY <1>2, <1>3, <1>4 DEF OwnKeys
  <1> QED BY <1>1, <1>3, <1>4, <1>5 DEF Entries

\* Opened ends in a load of those entries or in a refusal.
LEMMA OpenedOrRefused ==
  ASSUME NEW e, NEW M, LoadFits(load, M), load.at \in {"verify", "open"},
         "bundle" \in DOMAIN e /\ Verify(e) =>
            \E m \in M : /\ e = Entries(m.file)
                         /\ load.manifest # <<>> => /\ m.file.form = "encrypted" /\ m.signer.pem = load.compiler
                                                    /\ \E r \in m.to : r.rsa = load.own.rsa /\ r.kem \in {0, load.own.kem}
  PROVE  LoadFits(Opened(e), M)
  <1> DEFINE t == LoadTests(e)
             k == [load EXCEPT !.at = "loaded", !.entries = e, !.tests = t]
  <1>1. CASE Opened(e) = Refuse
    BY <1>1, RefusedFits DEF Refuse
  <1>2. CASE Opened(e) # Refuse
    <2>1. Opened(e) = k /\ "bundle" \in DOMAIN e /\ Verify(e)
      BY <1>2 DEF Opened
    <2> HIDE DEF t
    <2>2. LoadParts \subseteq DOMAIN load
      BY DEF LoadFits
    <2>3. /\ k.at = "loaded" /\ k.entries = e /\ k.manifest = load.manifest /\ k.compiler = load.compiler
          /\ k.own = load.own /\ LoadParts \subseteq DOMAIN k /\ "at" \in DOMAIN k
      BY <2>2 DEF LoadParts
    <2> HIDE DEF k
    <2>4. Accepted(k, M)
      BY <2>1, <2>3 DEF Accepted
    <2> QED BY <2>1, <2>3, <2>4 DEF LoadFits
  <1> QED BY <1>1, <1>2

\* Whatever is put together from two packages and is not one of them does not open.
LEMMA RemixFits ==
  ASSUME NEW p, PackInv, p \in Remixed
  PROVE  FileFits(p, made)
  <1>0. \A m \in made : MadeFits(m, count.compiles)
    BY DEF PackInv
  <1>1. ASSUME NEW a \in MadeIn("plain"), NEW n, NEW x, n # "manifest",
               p = [form |-> "plain", entries |-> [a.entries EXCEPT ![n] = x]]
        PROVE  FileFits(p, made)
    <2>1. PICK m \in made : m.file = a /\ a.form = "plain"
      BY DEF MadeIn
    <2>2. Entries(m.file) = a.entries /\ Sealed(a.entries)
      BY <1>0, <2>1 DEF MadeFits, Entries
    <2>3. Verify(p.entries) => p.entries = a.entries
      BY <1>1, <2>2, SealTells
    <2>4. p.form = "plain"
      BY <1>1
    <2> QED BY <2>1, <2>2, <2>3, <2>4 DEF FileFits
  <1>2. ASSUME NEW a \in MadeIn("encrypted"), NEW b \in MadeIn("encrypted"), NEW s \in {q.sig : q \in MadeIn("encrypted")} \cup {NoSignature},
               p = [a EXCEPT !.payload = b.payload, !.sig = s]
        PROVE  FileFits(p, made)
    <2>1. PICK m \in made : m.file = a /\ a.form = "encrypted"
      BY DEF MadeIn
    <2>2. PICK n \in made : n.file = b /\ b.form = "encrypted"
      BY DEF MadeIn
    <2>3. {"form", "manifest", "payload", "sig"} \subseteq DOMAIN a
      BY <1>0, <2>1 DEF MadeFits
    <2>4. p.form = "encrypted" /\ p.payload = b.payload /\ p.sig = s
      BY <1>2, <2>1, <2>3
    <2>5. n \in Crypts(made) /\ p.payload = n.file.payload
      BY <2>2, <2>4 DEF Crypts
    <2>6. s = NoSignature \/ \E k \in Crypts(made) : s = k.file.sig
      BY DEF Crypts, MadeIn
    <2> QED BY <2>4, <2>5, <2>6 DEF FileFits
  <1>3. ASSUME NEW x, p = [form |-> "plain", entries |-> [manifest |-> x]]
        PROVE  FileFits(p, made)
    <2>1. p.form = "plain" /\ "bundle" \notin DOMAIN p.entries
      BY <1>3
    <2> QED BY <2>1 DEF FileFits
  <1>4. \/ \E a, b \in MadeIn("plain"), n \in {"tests", "execution", "assets", "bundle"} : p = WithEntry(a, b, n)
        \/ \E a, b \in MadeIn("encrypted"), s \in {q.sig : q \in MadeIn("encrypted")} \cup {NoSignature} : p = WithPayload(a, b, s)
        \/ \E a \in MadeIn("encrypted") : p = [form |-> "plain", entries |-> [manifest |-> a.manifest]]
    BY DEF Remixed
  <1> QED BY <1>1, <1>2, <1>3, <1>4 DEF WithEntry, WithPayload

\* What the compile under way writes.
LEMMA WrittenFits ==
  ASSUME PackInv, build # Idle, build.at = "close", NEW q, NEW t
  PROVE  LET m == [file |-> PackageOf(build), quiet |-> q, tree |-> t, signer |-> build.signer, to |-> build.to]
         IN  /\ MadeFits(m, count.compiles)
             /\ m.file.form = "encrypted" => m.file.payload.key = count.compiles
             /\ FileFits(PackageOf(build), made \cup {m})
  <1> DEFINE f == PackageOf(build)
             m == [file |-> f, quiet |-> q, tree |-> t, signer |-> build.signer, to |-> build.to]
             c == count.compiles
  <1>1. build.form \in {"plain", "encrypted"} /\ 0 < c /\ c \in Nat /\ Sealed(build.entries)
    BY DEF PackInv, BuildFits
  <1>2. m.file = f /\ m.signer = build.signer /\ m.to = build.to
    OBVIOUS
  <1>3. CASE build.form = "plain"
    <2>1. f = [form |-> "plain", entries |-> build.entries]
      BY <1>3 DEF PackageOf
    <2>2. f.form = "plain" /\ f.entries = build.entries
      BY <2>1
    <2> HIDE DEF f, m
    <2>3. Entries(m.file) = build.entries
      BY <1>2, <2>2 DEF Entries
    <2>4. MadeFits(m, c)
      BY <1>1, <1>2, <2>2, <2>3 DEF MadeFits
    <2>5. FileFits(f, made \cup {m})
      BY <2>2, <2>3 DEF FileFits
    <2> QED BY <1>2, <2>2, <2>4, <2>5 DEF f, m
  <1>4. CASE build.form = "encrypted"
    <2> DEFINE payload == [key |-> c, entries |-> build.entries]
               man == Redacted(build)
               sig == Signed(build.signer.pem, man, payload)
    <2>1. f = [form |-> "encrypted", manifest |-> man, payload |-> payload, sig |-> sig]
      BY <1>4 DEF PackageOf
    <2>2. man.players = WrapForAll(build.to, c)
      BY DEF Redacted
    <2>3. payload.key = c /\ payload.entries = build.entries
      OBVIOUS
    <2> HIDE DEF payload, man
    <2>4. /\ f.form = "encrypted" /\ f.manifest = man /\ f.payload = payload /\ f.sig = sig
          /\ {"form", "manifest", "payload", "sig"} \subseteq DOMAIN f
      BY <2>1
    <2> HIDE DEF f, m
    <2>5. Entries(m.file) = build.entries
      BY <1>2, <2>3, <2>4 DEF Entries
    <2>6. m.file.payload.key = c /\ m.file.manifest.players = WrapForAll(m.to, c)
      BY <1>2, <2>2, <2>3, <2>4
    <2>7. m.file.sig = Signed(m.signer.pem, m.file.manifest, m.file.payload)
      BY <1>2, <2>4
    <2> HIDE DEF c, sig
    <2>8. MadeFits(m, c)
      BY <1>1, <1>2, <2>4, <2>5, <2>6, <2>7 DEF MadeFits
    <2>9. m \in Crypts(made \cup {m})
      BY <1>2, <2>4 DEF Crypts
    <2>10. FileFits(f, made \cup {m})
      BY <1>2, <2>4, <2>9 DEF FileFits
    <2> QED BY <1>2, <2>6, <2>8, <2>10 DEF f, m, c
  <1> QED BY <1>1, <1>3, <1>4

\* Only a compile counts as one.
LEMMA CountsOther ==
  ASSUME NEW f, f # "compiles", "compiles" \in DOMAIN count
  PROVE  "compiles" \in DOMAIN Count(f) /\ Count(f).compiles = count.compiles
  BY DEF Count

\* A step that makes no package: what is left to show of it.
LEMMA NothingMade ==
  ASSUME PackInv, made' = made, "compiles" \in DOMAIN count', count'.compiles = count.compiles,
         BuildFits(build', count.compiles, made),
         DOMAIN files' = Shelves, \A s \in Shelves : FileFits(files'[s], made), LoadFits(load', made)
  PROVE  PackInv'
  BY DEF PackInv

\* The steps of a compile before it writes, and edits of the source, keep the invariant.
LEMMA BuildStep ==
  ASSUME PackInv,
         \/ \E players \in Addressed : CompileBegins(players)
         \/ CompileValidates \/ CompileBuildsIr \/ CompileBundles \/ CompileDies
         \/ \E t \in Trees : EditSource(t)
  PROVE  PackInv'
  <1> DEFINE c == count.compiles
  <1>0. /\ "compiles" \in DOMAIN count /\ c \in Nat
        /\ \A m \in made : MadeFits(m, c)
        /\ OwnKeys(made) /\ BuildFits(build, c, made)
        /\ DOMAIN files = Shelves /\ \A s \in Shelves : FileFits(files[s], made)
        /\ LoadFits(load, made)
    BY DEF PackInv
  <1>1. UNCHANGED <<files, made, load>>
    BY DEF CompileBegins, CompileValidates, CompileBuildsIr, CompileBundles, CompileDies, EditSource
  <1>2. ASSUME NEW players \in Addressed, CompileBegins(players) PROVE PackInv'
    <2> DEFINE signer == [pem |-> keydir["compiler"]["sig.pem"], pub |-> keydir["compiler"]["sig.pub"]]
               to == {[rsa |-> keydir[w]["enc.pub"], kem |-> keydir[w]["pq.pub"]] : w \in players}
               form == IF players = {} THEN "plain" ELSE "encrypted"
    <2>1. /\ build = Idle /\ count' = Count("compiles")
          /\ build' = [at |-> "validate", form |-> form, signer |-> signer, to |-> to, quiet |-> "yes", entries |-> <<>>]
      BY <1>2 DEF CompileBegins
    <2>2. form \in {"plain", "encrypted"}
      OBVIOUS
    <2> HIDE DEF signer, to, form
    <2>3. "compiles" \in DOMAIN count' /\ count'.compiles = c + 1
      BY <1>0, <2>1 DEF Count
    <2>4. \A m \in Crypts(made) : m.file.payload.key < c + 1
      BY <1>0 DEF Crypts, MadeFits
    <2>5. \A m \in made : MadeFits(m, c + 1)
      BY <1>0 DEF MadeFits
    <2>6. {"at", "form", "signer", "to", "quiet", "entries"} \subseteq DOMAIN build' /\ build'.form = form /\ build'.at = "validate"
      BY <2>1
    <2>7. BuildFits(build', c + 1, made)
      BY <1>0, <2>2, <2>4, <2>6 DEF BuildFits
    <2> QED BY <1>0, <1>1, <2>3, <2>5, <2>7 DEF PackInv
  <1>3. ASSUME "compiles" \in DOMAIN count', count'.compiles = c, BuildFits(build', c, made) PROVE PackInv'
    BY <1>0, <1>1, <1>3, NothingMade
  <1>4. BuildFits(Idle, c, made)
    BY DEF BuildFits
  <1>5. CASE CompileValidates
    <2>1. count' = count /\ (build' = Idle \/ build' = [build EXCEPT !.at = "ir"]) /\ build.at = "validate"
      BY <1>5 DEF CompileValidates
    <2>2. build # Idle
      BY <2>1 DEF Idle
    <2>3. CASE build' = [build EXCEPT !.at = "ir"]
      <3>1. /\ {"at", "form", "signer", "to", "quiet", "entries"} \subseteq DOMAIN build'
            /\ build'.form = build.form /\ build'.at = "ir"
        BY <1>0, <2>2, <2>3 DEF BuildFits
      <3>2. BuildFits(build', c, made)
        BY <1>0, <2>2, <3>1 DEF BuildFits
      <3> QED BY <1>0, <1>3, <2>1, <3>2
    <2> QED BY <1>0, <1>3, <1>4, <2>1, <2>3
  <1>6. CASE CompileBuildsIr
    <2> DEFINE ir == BuildIr(tree)
    <2>1. count' = count /\ (build' = Idle \/ build' = [build EXCEPT !.at = "bundle", !.entries = ir]) /\ build.at = "ir"
      BY <1>6 DEF CompileBuildsIr
    <2>2. build # Idle
      BY <2>1 DEF Idle
    <2>3. "manifest" \in DOMAIN ir /\ "checksum" \in DOMAIN ir.manifest
      BY DEF BuildIr
    <2> HIDE DEF ir
    <2>4. CASE build' = [build EXCEPT !.at = "bundle", !.entries = ir]
      <3>1. /\ {"at", "form", "signer", "to", "quiet", "entries"} \subseteq DOMAIN build'
            /\ build'.form = build.form /\ build'.at = "bundle" /\ build'.entries = ir
        BY <1>0, <2>2, <2>4 DEF BuildFits
      <3>2. BuildFits(build', c, made)
        BY <1>0, <2>2, <2>3, <3>1 DEF BuildFits
      <3> QED BY <1>0, <1>3, <2>1, <3>2
    <2> QED BY <1>0, <1>3, <1>4, <2>1, <2>4
  <1>7. CASE CompileBundles
    <2> DEFINE e == EmbedBundle(build.entries, tree)
               sealed == Seal(e)
    <2>1. count' = count /\ build' = [build EXCEPT !.at = "write", !.entries = sealed] /\ build.at = "bundle"
      BY <1>7 DEF CompileBundles
    <2>2. build # Idle
      BY <2>1 DEF Idle
    <2>3. "manifest" \in DOMAIN build.entries /\ "checksum" \in DOMAIN build.entries.manifest
      BY <1>0, <2>1, <2>2 DEF BuildFits
    <2>4. "manifest" \in DOMAIN e /\ e.manifest = build.entries.manifest
      BY <2>3 DEF EmbedBundle
    <2> HIDE DEF e
    <2>5. Sealed(sealed)
      BY <2>3, <2>4, SealSeals
    <2> HIDE DEF sealed
    <2>6. /\ {"at", "form", "signer", "to", "quiet", "entries"} \subseteq DOMAIN build'
          /\ build'.form = build.form /\ build'.at = "write" /\ build'.entries = sealed
      BY <1>0, <2>1, <2>2 DEF BuildFits
    <2>7. BuildFits(build', c, made)
      BY <1>0, <2>2, <2>5, <2>6 DEF BuildFits
    <2> QED BY <1>0, <1>3, <2>1, <2>7
  <1>8. CASE CompileDies
    BY <1>0, <1>3, <1>4, <1>8, CountsOther DEF CompileDies
  <1>9. ASSUME NEW t \in Trees, EditSource(t) PROVE PackInv'
    <2>1. count' = Count("upsets") /\ build' = IF build = Idle THEN build ELSE [build EXCEPT !.quiet = "no"]
      BY <1>9 DEF EditSource
    <2>2. CASE build = Idle
      BY <1>0, <1>3, <2>1, <2>2, CountsOther
    <2>3. CASE build # Idle
      <3>1. /\ {"at", "form", "signer", "to", "quiet", "entries"} \subseteq DOMAIN build'
            /\ build'.form = build.form /\ build'.at = build.at /\ build'.entries = build.entries
        BY <1>0, <2>1, <2>3 DEF BuildFits
      <3>2. BuildFits(build', c, made)
        BY <1>0, <2>3, <3>1 DEF BuildFits
      <3> QED BY <1>0, <1>3, <2>1, <3>2, CountsOther
    <2> QED BY <2>2, <2>3
  <1> QED BY <1>2, <1>5, <1>6, <1>7, <1>8, <1>9

\* The steps that open, mix, store or delete a file keep the invariant.
LEMMA FileStep ==
  ASSUME PackInv,
         \/ WriteBegins \/ (\E p \in Remixed : Remix(p))
         \/ \E i \in Stored : Upload(i) \/ Delete(i)
  PROVE  PackInv'
  <1> DEFINE c == count.compiles
  <1>0. /\ "compiles" \in DOMAIN count /\ BuildFits(build, c, made)
        /\ DOMAIN files = Shelves /\ \A s \in Shelves : FileFits(files[s], made)
        /\ LoadFits(load, made)
    BY DEF PackInv
  <1>1. ASSUME NEW x \in Shelves, NEW p, FileFits(p, made), files' = [files EXCEPT ![x] = p]
        PROVE  DOMAIN files' = Shelves /\ \A s \in Shelves : FileFits(files'[s], made)
    BY <1>0, <1>1
  <1>2. FileFits(None, made) /\ FileFits(Torn, made)
    BY DEF FileFits, None, Torn
  <1>3. "out" \in Shelves /\ Stored \subseteq Shelves
    BY DEF Shelves
  <1>4. CASE WriteBegins
    <2>1. /\ build' = [build EXCEPT !.at = "close"] /\ build.at = "write" /\ made' = made /\ count' = count
          /\ files' = [files EXCEPT !["out"] = Torn]
          /\ load' = [load EXCEPT !.calm = IF load.place = "out" THEN "no" ELSE @]
      BY <1>4 DEF WriteBegins
    <2>2. build # Idle
      BY <2>1 DEF Idle
    <2>3. /\ {"at", "form", "signer", "to", "quiet", "entries"} \subseteq DOMAIN build'
          /\ build'.form = build.form /\ build'.at = "close" /\ build'.entries = build.entries
      BY <1>0, <2>1, <2>2 DEF BuildFits
    <2>4. BuildFits(build', c, made)
      BY <1>0, <2>1, <2>2, <2>3 DEF BuildFits
    <2>5. LoadFits(load', made)
      BY <1>0, <2>1, CalmOnly
    <2>6. DOMAIN files' = Shelves /\ \A s \in Shelves : FileFits(files'[s], made)
      BY <1>1, <1>2, <1>3, <2>1
    <2> QED BY <1>0, <2>1, <2>4, <2>5, <2>6, NothingMade
  <1>5. ASSUME NEW p \in Remixed, Remix(p) PROVE PackInv'
    <2>1. /\ build' = build /\ made' = made /\ count' = Count("upsets")
          /\ files' = [files EXCEPT !["out"] = p]
          /\ load' = [load EXCEPT !.calm = IF load.place = "out" THEN "no" ELSE @]
      BY <1>5 DEF Remix
    <2>2. LoadFits(load', made)
      BY <1>0, <2>1, CalmOnly
    <2>3. FileFits(p, made)
      BY RemixFits
    <2>4. DOMAIN files' = Shelves /\ \A s \in Shelves : FileFits(files'[s], made)
      BY <1>1, <1>3, <2>1, <2>3
    <2>5. "compiles" \in DOMAIN count' /\ count'.compiles = c
      BY <1>0, <2>1, CountsOther
    <2> QED BY <1>0, <2>1, <2>2, <2>4, <2>5, NothingMade
  <1>6. ASSUME NEW i \in Stored, Upload(i) PROVE PackInv'
    <2>1. UNCHANGED <<build, made, load, count>> /\ files' = [files EXCEPT ![i] = files["out"]]
      BY <1>6 DEF Upload
    <2>2. DOMAIN files' = Shelves /\ \A s \in Shelves : FileFits(files'[s], made)
      BY <1>0, <1>1, <1>3, <2>1
    <2> QED BY <1>0, <2>1, <2>2, NothingMade
  <1>7. ASSUME NEW i \in Stored, Delete(i) PROVE PackInv'
    <2>1. /\ build' = build /\ made' = made /\ count' = Count("upsets")
          /\ files' = [files EXCEPT ![i] = None]
          /\ load' = [load EXCEPT !.calm = IF load.place = i THEN "no" ELSE @]
      BY <1>7 DEF Delete
    <2>2. LoadFits(load', made)
      BY <1>0, <2>1, CalmOnly
    <2>3. DOMAIN files' = Shelves /\ \A s \in Shelves : FileFits(files'[s], made)
      BY <1>1, <1>2, <1>3, <2>1
    <2>4. "compiles" \in DOMAIN count' /\ count'.compiles = c
      BY <1>0, <2>1, CountsOther
    <2> QED BY <1>0, <2>1, <2>2, <2>3, <2>4, NothingMade
  <1> QED BY <1>4, <1>5, <1>6, <1>7

\* The end of a write keeps the invariant.
LEMMA WriteStep ==
  ASSUME PackInv, WriteEnds
  PROVE  PackInv'
  <1> DEFINE c == count.compiles
             m == [file |-> PackageOf(build), quiet |-> build.quiet, tree |-> tree, signer |-> build.signer, to |-> build.to]
             M == made \cup {m}
  <1>0. /\ "compiles" \in DOMAIN count /\ c \in Nat
        /\ \A x \in made : MadeFits(x, c)
        /\ OwnKeys(made) /\ BuildFits(build, c, made)
        /\ DOMAIN files = Shelves /\ \A s \in Shelves : FileFits(files[s], made)
        /\ LoadFits(load, made)
    BY DEF PackInv
  <1>1. /\ build.at = "close" /\ build' = Idle /\ made' = M /\ count' = count
        /\ files' = [files EXCEPT !["out"] = PackageOf(build)]
        /\ load' = [load EXCEPT !.calm = IF load.place = "out" THEN "no" ELSE @]
    BY DEF WriteEnds
  <1>2. build # Idle
    BY <1>1 DEF Idle
  <1>3. /\ MadeFits(m, c)
        /\ m.file.form = "encrypted" => m.file.payload.key = c
        /\ FileFits(PackageOf(build), M)
    BY <1>1, <1>2, WrittenFits
  <1> HIDE DEF m
  <1>4. \A x \in Crypts(made) : x.file.payload.key < c /\ x.file.payload.key \in Nat
    BY <1>0, <1>2 DEF BuildFits, MadeFits, Crypts
  <1>5. OwnKeys(M)
    <2> SUFFICES ASSUME NEW x \in Crypts(M), NEW y \in Crypts(M), x.file.payload.key = y.file.payload.key
                 PROVE  x = y
      BY DEF OwnKeys
    <2>1. (x \in Crypts(made) \/ x = m) /\ (y \in Crypts(made) \/ y = m)
      BY DEF Crypts
    <2>2. x = m => x.file.payload.key = c
      BY <1>3 DEF Crypts
    <2>3. y = m => y.file.payload.key = c
      BY <1>3 DEF Crypts
    <2>4. x \in Crypts(made) => x.file.payload.key # c
      BY <1>0, <1>4
    <2>5. y \in Crypts(made) => y.file.payload.key # c
      BY <1>0, <1>4
    <2> QED BY <1>0, <2>1, <2>2, <2>3, <2>4, <2>5 DEF OwnKeys
  <1>6. \A x \in M : MadeFits(x, c)
    BY <1>0, <1>3
  <1>7. DOMAIN files' = Shelves /\ \A s \in Shelves : FileFits(files'[s], M)
    <2>1. "out" \in Shelves /\ made \subseteq M
      BY DEF Shelves
    <2>2. \A s \in Shelves : FileFits(files[s], M)
      BY <1>0, <2>1, FileGrows
    <2> QED BY <1>0, <1>1, <1>3, <2>2
  <1>8. LoadFits(load', M)
    <2>1. made \subseteq M /\ LoadFits(load', made)
      BY <1>0, <1>1, CalmOnly
    <2> QED BY <2>1, LoadGrows
  <1>9. BuildFits(Idle, c, M)
    BY DEF BuildFits
  <1> HIDE DEF M
  <1> QED BY <1>0, <1>1, <1>5, <1>6, <1>7, <1>8, <1>9 DEF PackInv

\* A load begins with nothing verified.
LEMMA BegunFits ==
  ASSUME NEW shelf \in Shelves, NEW M, NEW l, LoadParts \subseteq DOMAIN l,
         l.at \in {"verify", "refused"}, l.place = shelf, l.manifest = <<>>
  PROVE  LoadFits(l, M)
  BY DEF LoadFits, Accepted, LoadParts

\* The steps of a load keep the invariant.
LEMMA LoadStep ==
  ASSUME PackInv,
         \/ \E p \in Shelves, w \in Players : RunBegins(p, w) \/ InspectBegins(p, w)
         \/ LoadVerifies \/ LoadOpens
  PROVE  PackInv'
  <1> DEFINE c == count.compiles
  <1>0. /\ "compiles" \in DOMAIN count /\ c \in Nat
        /\ \A x \in made : MadeFits(x, c)
        /\ OwnKeys(made) /\ BuildFits(build, c, made)
        /\ DOMAIN files = Shelves /\ \A s \in Shelves : FileFits(files[s], made)
        /\ LoadFits(load, made)
    BY DEF PackInv
  <1>1. UNCHANGED <<files, build, made>>
    BY DEF RunBegins, InspectBegins, LoadVerifies, LoadOpens
  <1>2. ASSUME "compiles" \in DOMAIN count', count'.compiles = c, LoadFits(load', made) PROVE PackInv'
    BY <1>0, <1>1, <1>2, NothingMade
  <1>3. ASSUME NEW shelf
        PROVE  /\ LoadParts = DOMAIN LoadOf(shelf) /\ LoadOf(shelf).at = "verify" /\ LoadOf(shelf).place = shelf
               /\ LoadOf(shelf).manifest = <<>>
    BY DEF LoadOf, LoadParts
  <1>4. ASSUME NEW p \in Shelves, NEW w \in Players, RunBegins(p, w) PROVE PackInv'
    <2> DEFINE o == LoadOf(p)
               strict == RequireHybrid \cap {w}
               l == [o EXCEPT !.strict = strict]
    <2>1. count' = Count("loads") /\ (load' = WithEngineKeys(l, w, files[p]) \/ load' = l)
      BY <1>4 DEF RunBegins
    <2>2. LoadParts = DOMAIN o /\ o.at = "verify" /\ o.place = p /\ o.manifest = <<>>
      BY <1>3
    <2> HIDE DEF o, strict
    <2>3. LoadParts = DOMAIN l /\ l.at = "verify" /\ l.place = p /\ l.manifest = <<>>
      BY <2>2 DEF LoadParts
    <2> HIDE DEF l
    <2>4. CASE load' = l
      BY <1>0, <1>2, <2>1, <2>3, <2>4, BegunFits, CountsOther
    <2>5. CASE load' = WithEngineKeys(l, w, files[p])
      <3> DEFINE own == DecryptionKeys(w)
                 compiler == Find(files[p].manifest.compiler)
                 at == IF own.rsa # 0 /\ compiler # 0 THEN l.at ELSE "refused"
      <3>1. load' = [l EXCEPT !.own = own, !.compiler = compiler, !.at = at]
        BY <2>5 DEF WithEngineKeys
      <3>2. at \in {"verify", "refused"}
        BY <2>3
      <3> HIDE DEF own, compiler, at
      <3>3. LoadParts \subseteq DOMAIN load' /\ load'.at = at /\ load'.place = p /\ load'.manifest = <<>>
        BY <2>3, <3>1 DEF LoadParts
      <3> QED BY <1>0, <1>2, <2>1, <3>2, <3>3, BegunFits, CountsOther
    <2> QED BY <2>1, <2>4, <2>5
  <1>5. ASSUME NEW p \in Shelves, NEW w \in Players, InspectBegins(p, w) PROVE PackInv'
    <2> DEFINE o == LoadOf(p)
               own == DecryptionKeys(w)
               compiler == keydir["compiler"]["sig.pub"]
    <2>1. count' = Count("loads") /\ load' = [o EXCEPT !.own = own, !.compiler = compiler]
      BY <1>5 DEF InspectBegins
    <2>2. LoadParts = DOMAIN o /\ o.at = "verify" /\ o.place = p /\ o.manifest = <<>>
      BY <1>3
    <2> HIDE DEF o, own, compiler
    <2>3. LoadParts \subseteq DOMAIN load' /\ load'.at = "verify" /\ load'.place = p /\ load'.manifest = <<>>
      BY <2>1, <2>2 DEF LoadParts
    <2> QED BY <1>0, <1>2, <2>1, <2>3, BegunFits, CountsOther
  <1>6. CASE LoadVerifies
    <2> DEFINE p == files[load.place]
               man == p.manifest
    <2>1. /\ load.at = "verify" /\ count' = count
          /\ load' = CASE p.form = "plain" -> Opened(p.entries)
                       [] p.form = "encrypted" /\ load.own.rsa # 0 /\ SignatureHolds(p, load.compiler) ->
                            [load EXCEPT !.at = "open", !.manifest = man]
                       [] OTHER -> Refuse
      BY <1>6 DEF LoadVerifies
    <2>2. load.place \in Shelves /\ load.manifest = <<>> /\ LoadParts \subseteq DOMAIN load /\ FileFits(p, made)
      BY <1>0, <2>1 DEF LoadFits
    <2> HIDE DEF p
    <2>3. CASE p.form = "plain"
      <3>1. load' = Opened(p.entries)
        BY <2>1, <2>3
      <3>2. "bundle" \in DOMAIN p.entries /\ Verify(p.entries) => \E m \in made : p.entries = Entries(m.file)
        BY <2>2, <2>3 DEF FileFits
      <3>3. LoadFits(load', made)
        BY <1>0, <2>1, <2>2, <3>1, <3>2, OpenedOrRefused
      <3> QED BY <1>0, <1>2, <2>1, <3>3
    <2>4. CASE p.form = "encrypted" /\ load.own.rsa # 0 /\ SignatureHolds(p, load.compiler)
      <3>1. load' = [load EXCEPT !.at = "open", !.manifest = man]
        BY <2>1, <2>4
      <3>2. \E m \in Crypts(made) : man = m.file.manifest /\ load.compiler = m.signer.pem
        <4> DEFINE key == load.compiler
        <4>1. FileFits(p, made) /\ (\A m \in made : MadeFits(m, c)) /\ p.form = "encrypted" /\ SignatureHolds(p, key)
          BY <1>0, <2>2, <2>4
        <4> HIDE DEF key, c
        <4>2. Described(p.manifest, key, made)
          BY <4>1, SignatureTells
        <4> QED BY <4>2 DEF key, Described
      <3> HIDE DEF man
      <3>3. /\ load'.at = "open" /\ load'.manifest = man /\ load'.compiler = load.compiler /\ load'.place = load.place
            /\ LoadParts \subseteq DOMAIN load' /\ "at" \in DOMAIN load'
        BY <2>2, <3>1 DEF LoadParts
      <3>4. LoadFits(load', made)
        BY <2>2, <3>2, <3>3 DEF LoadFits, Accepted
      <3> QED BY <1>0, <1>2, <2>1, <3>4
    <2>5. CASE load' = Refuse
      <3>1. LoadFits(load', made)
        BY <1>0, <2>1, <2>5, RefusedFits DEF Refuse
      <3> QED BY <1>0, <1>2, <2>1, <3>1
    <2> QED BY <2>1, <2>3, <2>4, <2>5
  <1>7. CASE LoadOpens
    <2> DEFINE p == files[load.place]
               key == ContentKey(load.manifest.players, load.own, load.strict)
               good == p.form = "encrypted" /\ Decrypts(p.payload, key)
                       /\ p.payload.entries.manifest.checksum = load.manifest.checksum
    <2>1. load.at = "open" /\ count' = count /\ load' = IF good THEN Opened(p.payload.entries) ELSE Refuse
      BY <1>7 DEF LoadOpens
    <2>2. load.place \in Shelves /\ FileFits(p, made)
      BY <1>0, <2>1 DEF LoadFits
    <2> HIDE DEF p
    <2>3. PICK m \in Crypts(made) : load.manifest = m.file.manifest /\ load.compiler = m.signer.pem
      BY <1>0, <2>1 DEF LoadFits
    <2>4. CASE good
      <3>1. /\ p.payload.entries = Entries(m.file)
            /\ \E r \in m.to : r.rsa = load.own.rsa /\ r.kem \in {0, load.own.kem}
        BY <1>0, <2>2, <2>3, <2>4, PayloadTells
      <3>2. m \in made /\ m.file.form = "encrypted"
        BY DEF Crypts
      <3>3. LoadFits(Opened(p.payload.entries), made)
        BY <1>0, <2>1, <2>3, <3>1, <3>2, OpenedOrRefused
      <3> QED BY <1>0, <1>2, <2>1, <2>4, <3>3
    <2>5. CASE ~good
      <3>1. LoadFits(load', made)
        BY <1>0, <2>1, <2>5, RefusedFits DEF Refuse
      <3> QED BY <1>0, <1>2, <2>1, <3>1
    <2> QED BY <2>4, <2>5
  <1> QED BY <1>4, <1>5, <1>6, <1>7

\* The invariant of the packages always holds.
LEMMA PackHolds == PSpec => []PackInv
  <1>1. PInit => PackInv
    <2> SUFFICES ASSUME PInit PROVE PackInv
      OBVIOUS
    <2>1. /\ files = [p \in Shelves |-> None] /\ build = Idle /\ made = {}
          /\ load = [at |-> "none", place |-> "none", calm |-> "no"]
          /\ "compiles" \in DOMAIN count /\ count.compiles = 0
      BY DEF PInit
    <2>2. FileFits(None, made)
      BY DEF FileFits, None
    <2>3. "at" \in DOMAIN load /\ load.at = "none"
      BY <2>1
    <2>4. LoadFits(load, made)
      BY <2>3 DEF LoadFits, Accepted
    <2>5. OwnKeys(made) /\ \A m \in made : MadeFits(m, count.compiles)
      BY <2>1 DEF OwnKeys, Crypts
    <2> QED BY <2>1, <2>2, <2>4, <2>5 DEF PackInv, BuildFits
  <1>2. PackInv /\ [PNext]_pVars => PackInv'
    <2> SUFFICES ASSUME PackInv, [PNext]_pVars PROVE PackInv'
      OBVIOUS
    <2>1. ASSUME UNCHANGED <<files, build, made, load>>, "compiles" \in DOMAIN count', count'.compiles = count.compiles
          PROVE  PackInv'
      BY <2>1, NothingMade DEF PackInv
    <2>2. CASE UNCHANGED pVars
      BY <2>1, <2>2 DEF pVars, PackInv
    <2>3. ASSUME NEW w, NEW o, Keygen(w, o) PROVE PackInv'
      <3>1. "compiles" \in DOMAIN Count("keys") /\ Count("keys").compiles = count.compiles
        BY CountsOther DEF PackInv
      <3>2. UNCHANGED <<files, build, made, load>> /\ count' = [Count("keys") EXCEPT !.upsets = @ + 1]
        BY <2>3 DEF Keygen
      <3>3. "compiles" \in DOMAIN count' /\ count'.compiles = count.compiles
        BY <3>1, <3>2
      <3> QED BY <2>1, <3>2, <3>3
    <2>4. CASE WriteKeyFile \/ Trust(keydir["compiler"]["sig.pub"])
      BY <2>1, <2>4 DEF WriteKeyFile, Trust, PackInv
    <2>5. ASSUME KeygenDies \/ \E k \in trusted : Distrust(k) PROVE PackInv'
      <3>1. UNCHANGED <<files, build, made, load>> /\ count' = Count("upsets")
        BY <2>5 DEF KeygenDies, Distrust
      <3>2. "compiles" \in DOMAIN count' /\ count'.compiles = count.compiles
        BY <3>1, CountsOther DEF PackInv
      <3> QED BY <2>1, <3>1, <3>2
    <2> QED BY <2>2, <2>3, <2>4, <2>5, BuildStep, FileStep, WriteStep, LoadStep DEF PNext
  <1> QED BY <1>1, <1>2, PTL DEF PSpec

(***************************************************************************)
(* For any sources, keys, players and packages, and whatever is edited,    *)
(* put together from parts of other packages, replaced between the reads   *)
(* of a load or cut off while it is written: what a load accepts is entry  *)
(* for entry what one compile sealed, signed by the key the load trusts    *)
(* and wrapped for a key this player holds if it is encrypted              *)
(* (LoadedAsSealed, of the loader).                                        *)
(***************************************************************************)
THEOREM LoadsOnlySealed == PSpec => []LoadedAsSealed
  <1>1. PackInv => LoadedAsSealed
    BY DEF PackInv, LoadFits, Accepted, LoadedAsSealed
  <1> QED BY <1>1, PackHolds, PTL

(***************************************************************************)
(* A package that is as its compile wrote it loads. The second invariant:  *)
(* every player's encryption key is its own, what a quiet compile wrote    *)
(* opens, and a load that was refused for an undisturbed file was refused  *)
(* for a reason that can still be read off the file.                       *)
(***************************************************************************)

Dirs == DOMAIN KeyDirs0

\* The keys a directory has, or is about to have, to encrypt for.
Holds(v) == {keydir[v]["enc.pub"]} \cup {writing[k].key : k \in {i \in DOMAIN writing : writing[i].dir = v}}

OwnDirs ==
    /\ "keys" \in DOMAIN count /\ count.keys \in Nat
    /\ keydir \in [Dirs -> [ToSet(KeyFiles) -> Nat]]
    /\ writing \in Seq([dir : Dirs, file : ToSet(KeyFiles), key : Nat])
    /\ \A v \in Dirs : \A x \in Holds(v) : x <= count.keys
    /\ \A v, w \in Dirs : \A x \in Holds(v) : v # w /\ x # 0 => x \notin Holds(w)

\* The loader opens these entries.
Opens(e) == "bundle" \in DOMAIN e /\ Verify(e) /\ \A i \in ToSet(LoadTests(e)) : e.tests[i] # "bad"

\* Validation found every test.
ValidTree(t) == \A k \in DOMAIN Index.tests : t.tests[Index.tests[k]] \notin {"none", "bad"}

\* The players a compile seals for have keys of their own, and its signer a key.
SealsFor(form, to, signer) ==
    /\ \A r \in to : r.rsa # 0 /\ \A s \in to : s.rsa = r.rsa => s = r
    /\ form = "encrypted" => signer.pem # 0

BuildKnows(b, t) == b # Idle =>
    /\ SealsFor(b.form, b.to, b.signer)
    /\ b.quiet = "yes" =>
        /\ b.at \in {"ir", "bundle"} => ValidTree(t)
        /\ b.at = "bundle" => b.entries = BuildIr(t)
        /\ b.at \in {"write", "close"} => Opens(b.entries)

MadeKnows(m) ==
    /\ SealsFor(m.file.form, m.to, m.signer)
    /\ m.quiet = "yes" => Opens(Entries(m.file))
    /\ m.file.form = "encrypted" => m.file.manifest.checksum = m.file.payload.entries.manifest.checksum

\* Why a load of this file was refused.
Refusable(l, p) ==
    /\ p.form = "plain" => ~Opens(p.entries)
    /\ p.form = "encrypted" =>
        \/ l.own.rsa = 0
        \/ ~SignatureHolds(p, l.compiler)
        \/ ~Decrypts(p.payload, ContentKey(p.manifest.players, l.own, l.strict))
        \/ p.payload.entries.manifest.checksum # p.manifest.checksum
        \/ ~Opens(p.payload.entries)

\* A load nothing disturbed still has its file before it.
LoadKnows(l, f) ==
    /\ l.at \in {"none", "verify", "open", "loaded", "refused"}
    /\ {"at", "place", "calm"} \subseteq DOMAIN l
    /\ l.at # "none" => LoadParts \subseteq DOMAIN l /\ l.place \in Shelves
    /\ l.at # "none" /\ l.calm = "yes" =>
        /\ f[l.place] # None
        /\ l.at = "refused" => Refusable(l, f[l.place])
        /\ l.at = "open" => f[l.place].form = "encrypted" /\ l.manifest = f[l.place].manifest

LifeInv ==
    /\ OwnDirs
    /\ BuildKnows(build, tree)
    /\ \A m \in made : MadeKnows(m)
    /\ LoadKnows(load, files)

\* The key of a player's own entry is the content key, unless its engine will not have it.
LEMMA KeyIsGiven ==
  ASSUME NEW to, NEW content, NEW own, NEW strict, \A r \in to : \A s \in to : s.rsa = r.rsa => s = r,
         NEW r \in to, r.rsa = own.rsa, r.kem \in {0, own.kem}, strict = {} \/ r.kem # 0
  PROVE  ContentKey(WrapForAll(to, content), own, strict) = content
  <1> DEFINE all == WrapForAll(to, content)
             mine == {e \in all : e.player = own.rsa}
             w == Wrap(r.rsa, r.kem, content)
             e == CHOOSE x \in mine : TRUE
  <1>1. w \in mine
    BY DEF WrapForAll, Wrap
  <1>2. ASSUME NEW x \in mine PROVE x = w
    <2>1. PICK s \in to : x = Wrap(s.rsa, s.kem, content)
      BY DEF WrapForAll
    <2>2. s.rsa = own.rsa
      BY <2>1 DEF Wrap
    <2> QED BY <2>1, <2>2
  <1>3. e = w
    <2>1. e \in mine
      BY <1>1
    <2> QED BY <1>2, <2>1
  <1>4. mine # {} /\ ContentKey(all, own, strict) = Unwrap(e, own, strict)
    BY <1>1 DEF ContentKey
  <1> HIDE DEF all, mine, e
  <1>5. w.kem = r.kem /\ w.content = content
    BY DEF Wrap
  <1> HIDE DEF w
  <1>6. Unwrap(w, own, strict) = content
    BY <1>5 DEF Unwrap, UnwrapHybrid
  <1> QED BY <1>3, <1>4, <1>6 DEF all

\* What a compile that nobody disturbed bundles opens.
LEMMA QuietOpens ==
  ASSUME NEW t, ValidTree(t)
  PROVE  Opens(Seal(EmbedBundle(BuildIr(t), t)))
  <1> DEFINE e == EmbedBundle(BuildIr(t), t)
             s == Seal(e)
             at == [i \in ToSet(Index.tests) |-> BundledText(t, i)]
             tests == Restrict(at, {i \in DOMAIN at : at[i] # "none"})
  <1>1. /\ "manifest" \in DOMAIN e /\ "bundle" \in DOMAIN e /\ "tests" \in DOMAIN e
        /\ e.manifest = BuildIr(t).manifest /\ e.bundle = Index.tests /\ e.tests = tests
    BY DEF EmbedBundle, BuildIr
  <1>2. "checksum" \in DOMAIN e.manifest
    BY <1>1 DEF BuildIr
  <1> HIDE DEF e, tests
  <1>3. Sealed(s) /\ DOMAIN s = DOMAIN e /\ \A n \in DOMAIN e : n # "manifest" => s[n] = e[n]
    BY <1>1, <1>2, SealSeals
  <1> HIDE DEF s
  <1>4. s.bundle = Index.tests /\ s.tests = tests /\ "bundle" \in DOMAIN s
    BY <1>1, <1>3
  <1>5. Compute(s) # <<>>
    BY DEF Compute
  <1>6. Verify(s)
    BY <1>3, <1>5 DEF Sealed, Verify
  <1>7. ASSUME NEW i \in ToSet(LoadTests(s)) PROVE s.tests[i] # "bad"
    <2>1. LoadTests(s) = Filter(Index.tests, DOMAIN tests)
      BY <1>4 DEF LoadTests
    <2> DEFINE r == Filter(Index.tests, DOMAIN tests)
    <2>2. \E g : KeptFrom(r, Index.tests, DOMAIN tests, Len(Index.tests), g)
      BY PackageAssumption, FilterFacts
    <2>3. PICK g : KeptFrom(r, Index.tests, DOMAIN tests, Len(Index.tests), g)
      BY <2>2
    <2> HIDE DEF r
    <2>4. PICK k \in DOMAIN r : r[k] = i
      BY <2>1 DEF ToSet, r
    <2>5. r \in Seq(ToSet(Index.tests))
      BY PackageAssumption, FilterFacts DEF r
    <2>6. k \in 1..Len(r)
      BY <2>5
    <2>7. i = Index.tests[g[k]] /\ g[k] \in 1..Len(Index.tests) /\ i \in DOMAIN tests
      BY <2>3, <2>4, <2>6 DEF KeptFrom
    <2>8. g[k] \in DOMAIN Index.tests
      BY <2>7, PackageAssumption
    <2>9. t.tests[i] \notin {"none", "bad"}
      BY <2>7, <2>8 DEF ValidTree
    <2>10. tests[i] = BundledText(t, i)
      BY <2>7 DEF tests, Restrict
    <2> QED BY <1>4, <2>9, <2>10 DEF BundledText
  <1> QED BY <1>4, <1>6, <1>7 DEF Opens, s, e

\* A package a quiet compile wrote is refused for one of the reasons there are.
LEMMA GoodLoads == PackInv /\ LifeInv => GoodPackageLoads
  <1> SUFFICES ASSUME PackInv, LifeInv, load.at = "refused", load.calm = "yes",
                      NEW m \in made, m.file = files[load.place], m.quiet = "yes"
               PROVE  /\ m.file.form = "encrypted"
                      /\ \/ m.signer.pem # m.signer.pub
                         \/ m.signer.pub # load.compiler
                         \/ ~\E r \in m.to : r.rsa = load.own.rsa /\ r.kem \in {0, load.own.kem}
                         \/ load.strict # {} /\ \E r \in m.to : r.rsa = load.own.rsa /\ r.kem = 0
    BY DEF GoodPackageLoads
  <1> DEFINE p == m.file
  <1>1. Refusable(load, p)
    BY DEF LifeInv, LoadKnows
  <1>2. MadeFits(m, count.compiles) /\ MadeKnows(m)
    BY DEF PackInv, LifeInv
  <1>3. Opens(Entries(p))
    BY <1>2 DEF MadeKnows
  <1>4. p.form = "encrypted"
    BY <1>1, <1>2, <1>3 DEF Refusable, MadeFits, Entries
  <1>5. ASSUME m.signer.pem = m.signer.pub, m.signer.pub = load.compiler,
               NEW r \in m.to, r.rsa = load.own.rsa, r.kem \in {0, load.own.kem},
               load.strict = {} \/ \A s \in m.to : s.rsa = load.own.rsa => s.kem # 0
        PROVE  FALSE
    <2> DEFINE k == p.payload.key
    <2>1. k \in Nat /\ k # 0 /\ p.manifest.players = WrapForAll(m.to, k) /\ p.sig = Signed(m.signer.pem, p.manifest, p.payload)
      BY <1>2, <1>4 DEF MadeFits
    <2>2. /\ \A x \in m.to : x.rsa # 0 /\ \A s \in m.to : s.rsa = x.rsa => s = x
          /\ m.signer.pem # 0 /\ p.manifest.checksum = p.payload.entries.manifest.checksum
      BY <1>2, <1>4 DEF MadeKnows, SealsFor
    <2>3. load.own.rsa # 0
      BY <1>5, <2>2
    <2>4. SignatureHolds(p, load.compiler)
      BY <1>5, <2>1, <2>2 DEF SignatureHolds, Signed, NoSignature
    <2>5. ContentKey(p.manifest.players, load.own, load.strict) = k
      <3> DEFINE own == load.own
                 strict == load.strict
      <3>1. strict = {} \/ r.kem # 0
        BY <1>5
      <3>2. r.rsa = own.rsa /\ r.kem \in {0, own.kem}
        BY <1>5
      <3> HIDE DEF own, strict, k
      <3>3. ContentKey(WrapForAll(m.to, k), own, strict) = k
        BY <2>2, <3>1, <3>2, KeyIsGiven
      <3> QED BY <2>1, <3>3 DEF own, strict, k
    <2>6. Decrypts(p.payload, ContentKey(p.manifest.players, load.own, load.strict))
      BY <2>1, <2>5 DEF Decrypts
    <2>7. Opens(p.payload.entries)
      BY <1>3, <1>4 DEF Entries
    <2> QED BY <1>1, <1>4, <2>2, <2>3, <2>4, <2>6, <2>7 DEF Refusable
  <1> QED BY <1>4, <1>5

\* The keys a directory comes to hold are those it was to get.
LEMMA HoldsOnly ==
  ASSUME OwnDirs, keydir' \in [Dirs -> [ToSet(KeyFiles) -> Nat]],
         writing' \in Seq([dir : Dirs, file : ToSet(KeyFiles), key : Nat]),
         "keys" \in DOMAIN count', count'.keys = count.keys,
         \A v \in Dirs : Holds(v)' \subseteq Holds(v)
  PROVE  OwnDirs'
  <1> DEFINE H(v) == Holds(v)
             G(v) == Holds(v)'
  <1>1. /\ \A v \in Dirs : \A x \in H(v) : x <= count.keys
        /\ \A v, w \in Dirs : \A x \in H(v) : v # w /\ x # 0 => x \notin H(w)
        /\ count.keys \in Nat
    BY DEF OwnDirs
  <1>2. \A v \in Dirs : G(v) \subseteq H(v)
    OBVIOUS
  <1> HIDE DEF H, G
  <1>3. \A v \in Dirs : \A x \in G(v) : x <= count'.keys
    BY <1>1, <1>2
  <1>4. \A v, w \in Dirs : \A x \in G(v) : v # w /\ x # 0 => x \notin G(w)
    BY <1>1, <1>2
  <1>5. Dirs' = Dirs /\ ToSet(KeyFiles)' = ToSet(KeyFiles)
    BY DEF Dirs, KeyFiles, ToSet
  <1> QED BY <1>1, <1>3, <1>4, <1>5 DEF OwnDirs, G

\* Writing a key file of a new pair leaves the directories without a key in common.
LEMMA WrittenKey == ASSUME OwnDirs, WriteKeyFile PROVE OwnDirs'
  <1> DEFINE f == Head(writing)
             W == [dir : Dirs, file : ToSet(KeyFiles), key : Nat]
  <1>1. /\ writing # <<>> /\ keydir' = [keydir EXCEPT ![f.dir][f.file] = f.key]
        /\ writing' = Tail(writing) /\ count' = count
    BY DEF WriteKeyFile
  <1>2. writing \in Seq(W) /\ keydir \in [Dirs -> [ToSet(KeyFiles) -> Nat]] /\ "keys" \in DOMAIN count
    BY DEF OwnDirs
  <1> HIDE DEF W
  <1>3. f \in W /\ writing' \in Seq(W) /\ f = writing[1] /\ 1 \in DOMAIN writing
    BY <1>1, <1>2
  <1>4. \A k \in DOMAIN writing' : k + 1 \in DOMAIN writing /\ writing'[k] = writing[k + 1]
    BY <1>1, <1>2
  <1> HIDE DEF f
  <1>5. f.dir \in Dirs /\ f.file \in ToSet(KeyFiles) /\ f.key \in Nat
    BY <1>3 DEF W
  <1>6. keydir' \in [Dirs -> [ToSet(KeyFiles) -> Nat]]
    BY <1>1, <1>2, <1>5
  <1>7. ASSUME NEW v \in Dirs PROVE Holds(v)' \subseteq Holds(v)
    <2>1. "enc.pub" \in ToSet(KeyFiles)
      BY DEF ToSet, KeyFiles
    <2>2. keydir'[v]["enc.pub"] = IF v = f.dir /\ f.file = "enc.pub" THEN f.key ELSE keydir[v]["enc.pub"]
      BY <1>1, <1>2, <1>5, <2>1
    <2>3. f.dir = v => f.key \in Holds(v)
      BY <1>3 DEF Holds
    <2>4. keydir'[v]["enc.pub"] \in Holds(v)
      BY <2>2, <2>3 DEF Holds
    <2>5. ASSUME NEW k \in DOMAIN writing', writing'[k].dir = v PROVE writing'[k].key \in Holds(v)
      BY <1>4, <2>5 DEF Holds
    <2> QED BY <2>4, <2>5 DEF Holds
  <1> QED BY <1>1, <1>2, <1>3, <1>6, <1>7, HoldsOnly DEF W

\* A pair that is made anew is the pair of no other directory.
LEMMA NewKey == ASSUME OwnDirs, NEW w \in Rekeyed, NEW o, Keygen(w, o) PROVE OwnDirs'
  <1> DEFINE fresh == count.keys + 1
             used == \E f \in ToSet(KeyFiles) : keydir[w][f] # 0
             wanted == IF o = "no" /\ used THEN SubSeq(KeyFiles, 5, 6) ELSE KeyFiles
             W == [dir : Dirs, file : ToSet(KeyFiles), key : Nat]
  <1>0. /\ "keys" \in DOMAIN count /\ count.keys \in Nat /\ keydir \in [Dirs -> [ToSet(KeyFiles) -> Nat]]
        /\ \A v \in Dirs : \A x \in Holds(v) : x <= count.keys
        /\ \A v, u \in Dirs : \A x \in Holds(v) : v # u /\ x # 0 => x \notin Holds(u)
    BY DEF OwnDirs
  <1>1. /\ writing = <<>> /\ keydir' = keydir
        /\ writing' = [k \in DOMAIN wanted |-> [dir |-> w, file |-> wanted[k], key |-> fresh]]
        /\ count' = [Count("keys") EXCEPT !.upsets = @ + 1]
    BY DEF Keygen
  <1>2. w \in Dirs
    BY PackageAssumption DEF Dirs
  <1>3. wanted \in Seq(ToSet(KeyFiles))
    <2>1. KeyFiles \in Seq(ToSet(KeyFiles)) /\ Len(KeyFiles) = 6
      BY DEF KeyFiles, ToSet
    <2>2. \A S : \A q \in Seq(S) : Len(q) = 6 => SubSeq(q, 5, 6) \in Seq(S)
      BY SMTT(60)
    <2>3. SubSeq(KeyFiles, 5, 6) \in Seq(ToSet(KeyFiles))
      BY <2>1, <2>2
    <2> HIDE DEF used
    <2> QED BY <2>1, <2>3
  <1> HIDE DEF wanted
  <1>4. fresh \in Nat /\ count.keys < fresh
    BY <1>0
  <1>5. "keys" \in DOMAIN count' /\ count'.keys = fresh
    BY <1>0, <1>1 DEF Count
  <1> HIDE DEF fresh
  <1>6. ASSUME NEW k \in DOMAIN wanted
        PROVE  /\ [dir |-> w, file |-> wanted[k], key |-> fresh] \in W
               /\ writing'[k].dir = w /\ writing'[k].key = fresh
    BY <1>1, <1>2, <1>3, <1>4
  <1>7. writing' \in Seq(W) /\ DOMAIN writing' = DOMAIN wanted
    <2>1. DOMAIN wanted = 1..Len(wanted) /\ Len(wanted) \in Nat
      BY <1>3
    <2>2. \A k \in DOMAIN wanted : [dir |-> w, file |-> wanted[k], key |-> fresh] \in W
      BY <1>6
    <2> HIDE DEF W
    <2> QED BY <1>1, <2>1, <2>2
  <1>8. ASSUME NEW v \in Dirs PROVE Holds(v)' \subseteq Holds(v) \cup (IF v = w THEN {fresh} ELSE {})
    <2>1. keydir'[v]["enc.pub"] \in Holds(v)
      BY <1>1 DEF Holds
    <2>2. ASSUME NEW k \in DOMAIN writing', writing'[k].dir = v PROVE v = w /\ writing'[k].key = fresh
      BY <1>6, <1>7, <2>2
    <2> QED BY <2>1, <2>2 DEF Holds
  <1> DEFINE H(v) == Holds(v)
             G(v) == Holds(v)'
  <1>9. /\ \A v \in Dirs : \A x \in H(v) : x <= count.keys
        /\ \A v, u \in Dirs : \A x \in H(v) : v # u /\ x # 0 => x \notin H(u)
        /\ \A v \in Dirs : G(v) \subseteq H(v) \cup (IF v = w THEN {fresh} ELSE {})
    BY <1>0, <1>8
  <1>10. \A v \in Dirs : \A x \in H(v) : x \in Nat
    <2> SUFFICES ASSUME NEW v \in Dirs PROVE Holds(v) \subseteq Nat
      OBVIOUS
    <2>1. writing = <<>> /\ "enc.pub" \in ToSet(KeyFiles)
      BY <1>1 DEF ToSet, KeyFiles
    <2> QED BY <1>0, <2>1 DEF Holds
  <1> HIDE DEF H, G
  <1>11. \A v \in Dirs : \A x \in G(v) : x <= fresh
    BY <1>0, <1>4, <1>9, <1>10
  <1>12. ASSUME NEW v \in Dirs, NEW u \in Dirs, NEW x \in G(v), v # u, x # 0 PROVE x \notin G(u)
    <2>1. \A d \in Dirs : \A y \in H(d) : y # fresh
      BY <1>0, <1>4, <1>9, <1>10
    <2> QED BY <1>9, <1>12, <2>1
  <1>13. Dirs' = Dirs /\ ToSet(KeyFiles)' = ToSet(KeyFiles)
    BY DEF Dirs, KeyFiles, ToSet
  <1> QED BY <1>0, <1>1, <1>4, <1>5, <1>7, <1>11, <1>12, <1>13 DEF OwnDirs, G

\* A step that begins no key.
LEMMA NoNewKey ==
  ASSUME OwnDirs, keydir' = keydir, writing' \in {writing, <<>>},
         "keys" \in DOMAIN count', count'.keys = count.keys
  PROVE  OwnDirs'
  <1> DEFINE W == [dir : Dirs, file : ToSet(KeyFiles), key : Nat]
  <1>1. keydir' \in [Dirs -> [ToSet(KeyFiles) -> Nat]] /\ writing \in Seq(W)
    BY DEF OwnDirs
  <1>2. writing' \in Seq(W)
    <2>1. <<>> \in Seq(W)
      OBVIOUS
    <2> HIDE DEF W
    <2> QED BY <1>1, <2>1
  <1>3. ASSUME NEW v \in Dirs PROVE Holds(v)' \subseteq Holds(v)
    BY DEF Holds
  <1> QED BY <1>1, <1>2, <1>3, HoldsOnly DEF W

\* Another counter than that of the keys leaves it as it is.
LEMMA KeysCount ==
  ASSUME NEW f, f # "keys", "keys" \in DOMAIN count
  PROVE  "keys" \in DOMAIN Count(f) /\ Count(f).keys = count.keys
  BY DEF Count

\* No step makes two directories share a key.
LEMMA OwnStep == ASSUME OwnDirs, [PNext]_pVars PROVE OwnDirs'
  <1>1. ASSUME keydir' = keydir, writing' \in {writing, <<>>},
               \/ count' = count
               \/ \E f \in {"upsets", "compiles", "loads"} : count' = Count(f)
        PROVE  OwnDirs'
    <2>1. "keys" \in DOMAIN count
      BY DEF OwnDirs
    <2>2. "keys" \in DOMAIN count' /\ count'.keys = count.keys
      BY <1>1, <2>1, KeysCount
    <2> QED BY <1>1, <2>2, NoNewKey
  <1>2. CASE UNCHANGED pVars
    BY <1>1, <1>2 DEF pVars
  <1>3. CASE KeygenDies \/ Trust(keydir["compiler"]["sig.pub"]) \/ (\E k \in trusted : Distrust(k))
    BY <1>1, <1>3 DEF KeygenDies, Trust, Distrust
  <1>4. CASE \/ \E players \in Addressed : CompileBegins(players)
             \/ CompileValidates \/ CompileBuildsIr \/ CompileBundles
    BY <1>1, <1>4 DEF CompileBegins, CompileValidates, CompileBuildsIr, CompileBundles
  <1>5. CASE WriteBegins \/ WriteEnds \/ CompileDies \/ \E t \in Trees : EditSource(t)
    BY <1>1, <1>5 DEF WriteBegins, WriteEnds, CompileDies, EditSource
  <1>6. CASE (\E p \in Remixed : Remix(p)) \/ \E i \in Stored : Upload(i) \/ Delete(i)
    BY <1>1, <1>6 DEF Remix, Upload, Delete
  <1>7. CASE \/ \E p \in Shelves, w \in Players : RunBegins(p, w) \/ InspectBegins(p, w)
             \/ LoadVerifies \/ LoadOpens
    BY <1>1, <1>7 DEF RunBegins, InspectBegins, LoadVerifies, LoadOpens
  <1> QED BY <1>2, <1>3, <1>4, <1>5, <1>6, <1>7, NewKey, WrittenKey DEF PNext

\* What a compile reads of the keys.
LEMMA BegunSeals ==
  ASSUME OwnDirs, NEW players \in Addressed, CompileBegins(players)
  PROVE  SealsFor(build'.form, build'.to, build'.signer) /\ build'.at = "validate"
  <1> DEFINE pub(w) == keydir[w]["enc.pub"]
             kem(w) == keydir[w]["pq.pub"]
             pem == keydir["compiler"]["sig.pem"]
             signer == [pem |-> pem, pub |-> keydir["compiler"]["sig.pub"]]
             to == {[rsa |-> pub(w), kem |-> kem(w)] : w \in players}
             form == IF players = {} THEN "plain" ELSE "encrypted"
  <1>1. build' = [at |-> "validate", form |-> form, signer |-> signer, to |-> to, quiet |-> "yes", entries |-> <<>>]
    BY DEF CompileBegins
  <1>2. players # {} => pem # 0 /\ \A w \in players : pub(w) # 0
    BY DEF CompileBegins, CanLoad
  <1>3. players \subseteq Dirs
    BY PackageAssumption DEF Dirs
  <1>4. \A v, w \in players : pub(v) = pub(w) => v = w
    <2>1. \A v \in Dirs : pub(v) \in Holds(v)
      BY DEF Holds
    <2>2. \A v, w \in Dirs : \A x \in Holds(v) : v # w /\ x # 0 => x \notin Holds(w)
      BY DEF OwnDirs
    <2> HIDE DEF pub, kem, pem
    <2> QED BY <1>2, <1>3, <2>1, <2>2
  <1>5. signer.pem = pem
    OBVIOUS
  <1> HIDE DEF pub, kem, pem
  <1>6. \A r \in to : r.rsa # 0 /\ \A s \in to : s.rsa = r.rsa => s = r
    <2> SUFFICES ASSUME NEW v \in players, NEW w \in players
                 PROVE  pub(v) # 0 /\ (pub(w) = pub(v) => w = v)
      OBVIOUS
    <2> QED BY <1>2, <1>4
  <1>7. form = "encrypted" => players # {}
    OBVIOUS
  <1> HIDE DEF to, signer, form
  <1>8. SealsFor(form, to, signer)
    BY <1>2, <1>5, <1>6, <1>7 DEF SealsFor
  <1>9. build'.form = form /\ build'.to = to /\ build'.signer = signer /\ build'.at = "validate"
    BY <1>1
  <1> QED BY <1>8, <1>9

\* What is known of a compile under way stays so when it only moves on.
LEMMA CompileKnows == ASSUME PackInv, LifeInv, [PNext]_pVars PROVE BuildKnows(build', tree')
  <1> DEFINE parts == {"at", "form", "signer", "to", "quiet", "entries"}
  <1>0. OwnDirs /\ BuildKnows(build, tree) /\ (build # Idle => parts \subseteq DOMAIN build)
    BY DEF LifeInv, PackInv, BuildFits
  <1>1. BuildKnows(Idle, tree')
    BY DEF BuildKnows
  <1>2. ASSUME build' = build, tree' = tree PROVE BuildKnows(build', tree')
    BY <1>0, <1>2
  <1>3. ASSUME NEW players \in Addressed, CompileBegins(players) PROVE BuildKnows(build', tree')
    BY <1>0, <1>3, BegunSeals DEF BuildKnows
  <1>4. CASE CompileValidates
    <2>1. /\ build.at = "validate" /\ tree' = tree /\ build # Idle
          /\ build' = IF ValidTree(tree) THEN [build EXCEPT !.at = "ir"] ELSE Idle
      BY <1>4 DEF CompileValidates, ValidTree, Idle
    <2>2. CASE ValidTree(tree)
      <3>1. build' = [build EXCEPT !.at = "ir"]
        BY <2>1, <2>2
      <3>2. build'.at = "ir" /\ build'.form = build.form /\ build'.to = build.to /\ build'.signer = build.signer
        BY <1>0, <2>1, <3>1
      <3> QED BY <1>0, <2>1, <2>2, <3>2 DEF BuildKnows
    <2> QED BY <1>1, <2>1, <2>2
  <1>5. CASE CompileBuildsIr
    <2> DEFINE ir == BuildIr(tree)
    <2>1. /\ build.at = "ir" /\ tree' = tree /\ build # Idle
          /\ build' = Idle \/ build' = [build EXCEPT !.at = "bundle", !.entries = ir]
      BY <1>5 DEF CompileBuildsIr, Idle
    <2> HIDE DEF ir
    <2>2. CASE build' = [build EXCEPT !.at = "bundle", !.entries = ir]
      <3>1. /\ build'.at = "bundle" /\ build'.form = build.form /\ build'.to = build.to /\ build'.signer = build.signer
            /\ build'.quiet = build.quiet /\ build'.entries = ir
        BY <1>0, <2>1, <2>2
      <3> QED BY <1>0, <2>1, <3>1 DEF BuildKnows, ir
    <2> QED BY <1>1, <2>1, <2>2
  <1>6. CASE CompileBundles
    <2> DEFINE sealed == Seal(EmbedBundle(build.entries, tree))
    <2>1. /\ build.at = "bundle" /\ tree' = tree /\ build # Idle
          /\ build' = [build EXCEPT !.at = "write", !.entries = sealed]
      BY <1>6 DEF CompileBundles, Idle
    <2>2. build.quiet = "yes" => Opens(sealed)
      BY <1>0, <2>1, QuietOpens DEF BuildKnows
    <2> HIDE DEF sealed
    <2>3. /\ build'.at = "write" /\ build'.form = build.form /\ build'.to = build.to /\ build'.signer = build.signer
          /\ build'.quiet = build.quiet /\ build'.entries = sealed
      BY <1>0, <2>1
    <2> QED BY <1>0, <2>1, <2>2, <2>3 DEF BuildKnows
  <1>7. CASE WriteBegins
    <2>1. build.at = "write" /\ tree' = tree /\ build # Idle /\ build' = [build EXCEPT !.at = "close"]
      BY <1>7 DEF WriteBegins, Idle
    <2>2. /\ build'.at = "close" /\ build'.form = build.form /\ build'.to = build.to /\ build'.signer = build.signer
          /\ build'.quiet = build.quiet /\ build'.entries = build.entries
      BY <1>0, <2>1
    <2> QED BY <1>0, <2>1, <2>2 DEF BuildKnows
  <1>8. CASE WriteEnds \/ CompileDies
    BY <1>1, <1>8 DEF WriteEnds, CompileDies
  <1>9. ASSUME NEW t \in Trees, EditSource(t) PROVE BuildKnows(build', tree')
    <2>1. build' = IF build = Idle THEN build ELSE [build EXCEPT !.quiet = "no"]
      BY <1>9 DEF EditSource
    <2>2. CASE build # Idle
      <3>1. build'.form = build.form /\ build'.to = build.to /\ build'.signer = build.signer /\ build'.quiet = "no"
        BY <1>0, <2>1, <2>2
      <3> QED BY <1>0, <2>2, <3>1 DEF BuildKnows
    <2> QED BY <1>1, <2>1, <2>2
  <1>10. CASE UNCHANGED pVars \/ WriteKeyFile \/ KeygenDies \/ Trust(keydir["compiler"]["sig.pub"])
              \/ (\E w \in Rekeyed, o \in {"yes", "no"} : Keygen(w, o)) \/ \E k \in trusted : Distrust(k)
    BY <1>2, <1>10 DEF pVars, WriteKeyFile, KeygenDies, Trust, Keygen, Distrust
  <1>11. CASE (\E p \in Remixed : Remix(p)) \/ (\E i \in Stored : Upload(i) \/ Delete(i))
              \/ (\E p \in Shelves, w \in Players : RunBegins(p, w) \/ InspectBegins(p, w))
              \/ LoadVerifies \/ LoadOpens
    BY <1>2, <1>11 DEF Remix, Upload, Delete, RunBegins, InspectBegins, LoadVerifies, LoadOpens
  <1> QED BY <1>3, <1>4, <1>5, <1>6, <1>7, <1>8, <1>9, <1>10, <1>11 DEF PNext

\* The package a compile writes, and the manifest that describes it.
LEMMA WrittenKnows ==
  ASSUME PackInv, LifeInv, WriteEnds, NEW m \in made'
  PROVE  MadeKnows(m)
  <1> DEFINE f == PackageOf(build)
             n == [file |-> f, quiet |-> build.quiet, tree |-> tree, signer |-> build.signer, to |-> build.to]
  <1>1. build.at = "close" /\ made' = made \cup {n} /\ build # Idle
    BY DEF WriteEnds, Idle
  <1>2. /\ SealsFor(build.form, build.to, build.signer) /\ (build.quiet = "yes" => Opens(build.entries))
        /\ build.form \in {"plain", "encrypted"}
    BY <1>1 DEF LifeInv, BuildKnows, PackInv, BuildFits
  <1>3. n.file = f /\ n.quiet = build.quiet /\ n.signer = build.signer /\ n.to = build.to
    OBVIOUS
  <1>4. /\ f.form = build.form /\ Entries(f) = build.entries
        /\ f.form = "encrypted" => f.manifest.checksum = f.payload.entries.manifest.checksum
    <2>1. CASE build.form = "plain"
      BY <2>1 DEF PackageOf, Entries
    <2>2. CASE build.form = "encrypted"
      BY <2>2 DEF PackageOf, Entries, Redacted
    <2> QED BY <1>2, <2>1, <2>2
  <1> HIDE DEF f, n
  <1>5. MadeKnows(n)
    BY <1>2, <1>3, <1>4 DEF MadeKnows
  <1> QED BY <1>1, <1>5 DEF LifeInv

\* A load whose file is replaced is no longer undisturbed; another keeps its file.
LEMMA ReplacedKnows ==
  ASSUME LoadKnows(load, files), DOMAIN files = Shelves, NEW x \in Shelves, NEW p,
         files' = [files EXCEPT ![x] = p],
         load' = [load EXCEPT !.calm = IF load.place = x THEN "no" ELSE @]
  PROVE  LoadKnows(load', files')
  <1> DEFINE k == [load EXCEPT !.calm = IF load.place = x THEN "no" ELSE @]
  <1>1. {"at", "place", "calm"} \subseteq DOMAIN load
    BY DEF LoadKnows
  <1>2. DOMAIN k = DOMAIN load /\ \A f \in DOMAIN load : f # "calm" => k[f] = load[f]
    OBVIOUS
  <1>3. k.calm = "yes" => load.calm = "yes" /\ load.place # x
    BY <1>1
  <1>4. load' = k
    OBVIOUS
  <1> HIDE DEF k
  <1>5. k.at = load.at /\ k.place = load.place
    BY <1>1, <1>2
  <1>6. load.at # "none" => /\ k.own = load.own /\ k.compiler = load.compiler /\ k.strict = load.strict
                            /\ k.manifest = load.manifest
    BY <1>2 DEF LoadKnows, LoadParts
  <1>7. load.at # "none" /\ load.place # x => files'[load.place] = files[load.place]
    BY DEF LoadKnows
  <1>8. ASSUME NEW q, load.at = "refused", Refusable(load, q) PROVE Refusable(k, q)
    BY <1>6, <1>8 DEF Refusable
  <1> QED BY <1>1, <1>2, <1>3, <1>4, <1>5, <1>6, <1>7, <1>8 DEF LoadKnows

\* The parts of a load that has begun.
Begun(l, shelf) == /\ LoadParts \subseteq DOMAIN l /\ l.place = shelf
                   /\ l.at \in {"verify", "refused"}

\* A load that has begun knows nothing but that it is calm while the file stays.
LEMMA BegunKnows ==
  ASSUME NEW l, NEW shelf \in Shelves, Begun(l, shelf), files[shelf] # None,
         l.at = "refused" => Refusable(l, files[shelf])
  PROVE  LoadKnows(l, files)
  BY DEF Begun, LoadKnows, LoadParts

\* Opened ends in a load or in a refusal of what does not open.
LEMMA OpenedKnows ==
  ASSUME LoadKnows(load, files), load.at \in {"verify", "open"}, NEW e,
         load.calm = "yes" /\ ~Opens(e) => Refusable(load, files[load.place])
  PROVE  LoadKnows(Opened(e), files)
  <1> DEFINE tests == LoadTests(e)
             k == [load EXCEPT !.at = "loaded", !.entries = e, !.tests = tests]
             l == [load EXCEPT !.at = "refused"]
  <1>0. Opened(e) = IF Opens(e) THEN k ELSE l
    BY DEF Opened, Opens, Refuse
  <1> HIDE DEF tests
  <1>1. LoadParts \subseteq DOMAIN load /\ load.place \in Shelves
    BY DEF LoadKnows
  <1>2. CASE Opens(e)
    <2>1. LoadParts \subseteq DOMAIN k /\ k.at = "loaded" /\ k.place = load.place /\ k.calm = load.calm
      BY <1>1 DEF LoadParts
    <2> HIDE DEF k
    <2>2. LoadKnows(k, files)
      BY <1>1, <2>1 DEF LoadKnows, LoadParts
    <2> QED BY <1>0, <1>2, <2>2
  <1>3. CASE ~Opens(e)
    <2>1. /\ LoadParts \subseteq DOMAIN l /\ l.at = "refused" /\ l.place = load.place /\ l.calm = load.calm
          /\ l.own = load.own /\ l.compiler = load.compiler /\ l.strict = load.strict
      BY <1>1 DEF LoadParts
    <2> HIDE DEF l
    <2>2. load.calm = "yes" => Refusable(l, files[load.place])
      BY <1>3, <2>1 DEF Refusable
    <2>3. LoadKnows(l, files)
      BY <1>1, <2>1, <2>2 DEF LoadKnows, LoadParts
    <2> QED BY <1>0, <1>3, <2>3
  <1> QED BY <1>2, <1>3

\* A refusal can be read off the file as long as nothing has disturbed it.
LEMMA RefuseKnows ==
  ASSUME LoadKnows(load, files), load.at \in {"verify", "open"},
         load.calm = "yes" => Refusable(load, files[load.place])
  PROVE  LoadKnows(Refuse, files)
  <1> DEFINE l == [load EXCEPT !.at = "refused"]
  <1>1. LoadParts \subseteq DOMAIN load /\ load.place \in Shelves
    BY DEF LoadKnows
  <1>2. /\ LoadParts \subseteq DOMAIN l /\ l.at = "refused" /\ l.place = load.place /\ l.calm = load.calm
        /\ l.own = load.own /\ l.compiler = load.compiler /\ l.strict = load.strict
    BY <1>1 DEF LoadParts
  <1>3. Refuse = l
    BY DEF Refuse
  <1> HIDE DEF l
  <1>4. load.calm = "yes" => Refusable(l, files[load.place])
    BY <1>2 DEF Refusable
  <1> QED BY <1>1, <1>2, <1>3, <1>4 DEF LoadKnows, LoadParts

\* What a calm load has read stays what the file holds, whatever step is taken.
LEMMA LoadKeepsKnowing ==
  ASSUME PackInv, LifeInv, [PNext]_pVars
  PROVE  LoadKnows(load', files')
  <1>0. /\ LoadKnows(load, files) /\ DOMAIN files = Shelves
        /\ \A s \in Shelves : files[s].form \in {"none", "torn", "plain", "encrypted"}
    BY DEF LifeInv, PackInv, FileFits
  <1>1. CASE UNCHANGED <<load, files>>
    BY <1>0, <1>1
  <1>2. "out" \in Shelves /\ Stored \subseteq Shelves
    BY DEF Shelves
  <1>3. CASE WriteBegins \/ WriteEnds \/ (\E p \in Remixed : Remix(p)) \/ \E i \in Stored : Delete(i)
    BY <1>0, <1>2, <1>3, ReplacedKnows DEF WriteBegins, WriteEnds, Remix, Delete
  <1>4. ASSUME NEW i \in Stored, Upload(i) PROVE LoadKnows(load', files')
    <2>1. load' = load /\ files[i] = None /\ files' = [files EXCEPT ![i] = files["out"]]
      BY <1>4 DEF Upload
    <2>2. load.at # "none" /\ load.calm = "yes" => files'[load.place] = files[load.place]
      BY <1>0, <2>1 DEF LoadKnows
    <2> QED BY <1>0, <2>1, <2>2 DEF LoadKnows
  <1>5. ASSUME NEW p \in Shelves, NEW w \in Players, RunBegins(p, w) PROVE LoadKnows(load', files')
    <2> DEFINE o == LoadOf(p)
               strict == RequireHybrid \cap {w}
               l == [o EXCEPT !.strict = strict]
    <2>1. /\ files[p] # None /\ files' = files
          /\ load' = IF files[p].form = "encrypted" THEN WithEngineKeys(l, w, files[p]) ELSE l
      BY <1>5 DEF RunBegins, Starts
    <2>2. LoadParts = DOMAIN o /\ o.at = "verify" /\ o.place = p
      BY DEF LoadOf, LoadParts
    <2> HIDE DEF o, strict
    <2>3. LoadParts = DOMAIN l /\ l.at = "verify" /\ l.place = p
      BY <2>2 DEF LoadParts
    <2> HIDE DEF l
    <2>4. CASE load' = l
      BY <2>1, <2>3, <2>4, BegunKnows DEF Begun
    <2>5. CASE load' = WithEngineKeys(l, w, files[p]) /\ files[p].form = "encrypted"
      <3> DEFINE own == DecryptionKeys(w)
                 compiler == Find(files[p].manifest.compiler)
                 at == IF own.rsa # 0 /\ compiler # 0 THEN l.at ELSE "refused"
      <3>1. load' = [l EXCEPT !.own = own, !.compiler = compiler, !.at = at]
        BY <2>5 DEF WithEngineKeys
      <3>2. at \in {"verify", "refused"} /\ (at = "refused" => own.rsa = 0 \/ compiler = 0)
        BY <2>3
      <3> HIDE DEF own, compiler, at
      <3>3. LoadParts \subseteq DOMAIN load' /\ load'.at = at /\ load'.place = p /\ load'.own = own /\ load'.compiler = compiler
        BY <2>3, <3>1 DEF LoadParts
      <3>4. at = "refused" => Refusable(load', files[p])
        BY <2>5, <3>2, <3>3 DEF Refusable, SignatureHolds
      <3> QED BY <2>1, <3>2, <3>3, <3>4, BegunKnows DEF Begun
    <2> QED BY <2>1, <2>4, <2>5
  <1>6. ASSUME NEW p \in Shelves, NEW w \in Players, InspectBegins(p, w) PROVE LoadKnows(load', files')
    <2> DEFINE o == LoadOf(p)
               own == DecryptionKeys(w)
               compiler == keydir["compiler"]["sig.pub"]
    <2>1. files[p] # None /\ files' = files /\ load' = [o EXCEPT !.own = own, !.compiler = compiler]
      BY <1>6 DEF InspectBegins, Starts
    <2>2. LoadParts = DOMAIN o /\ o.at = "verify" /\ o.place = p
      BY DEF LoadOf, LoadParts
    <2> HIDE DEF o, own, compiler
    <2>3. LoadParts \subseteq DOMAIN load' /\ load'.at = "verify" /\ load'.place = p
      BY <2>1, <2>2 DEF LoadParts
    <2> QED BY <2>1, <2>3, BegunKnows DEF Begun
  <1>7. CASE LoadVerifies
    <2> DEFINE p == files[load.place]
               man == p.manifest
    <2>1. /\ load.at = "verify" /\ files' = files
          /\ load' = CASE p.form = "plain" -> Opened(p.entries)
                       [] p.form = "encrypted" /\ load.own.rsa # 0 /\ SignatureHolds(p, load.compiler) ->
                            [load EXCEPT !.at = "open", !.manifest = man]
                       [] OTHER -> Refuse
      BY <1>7 DEF LoadVerifies
    <2>2. LoadParts \subseteq DOMAIN load /\ load.place \in Shelves /\ (load.calm = "yes" => p # None)
      BY <1>0, <2>1 DEF LoadKnows
    <2>3. CASE p.form = "plain"
      <3>1. ~Opens(p.entries) => Refusable(load, p)
        BY <2>3 DEF Refusable
      <3>2. load' = Opened(p.entries)
        BY <2>1, <2>3
      <3> HIDE DEF p
      <3> QED BY <1>0, <2>1, <3>1, <3>2, OpenedKnows DEF p
    <2>4. CASE p.form = "encrypted" /\ load.own.rsa # 0 /\ SignatureHolds(p, load.compiler)
      <3>1. load' = [load EXCEPT !.at = "open", !.manifest = man]
        BY <2>1, <2>4
      <3>2. p.form = "encrypted" /\ man = p.manifest
        BY <2>4
      <3> HIDE DEF p, man
      <3>3. /\ LoadParts \subseteq DOMAIN load' /\ load'.at = "open" /\ load'.place = load.place
            /\ load'.calm = load.calm /\ load'.manifest = man
        BY <2>2, <3>1 DEF LoadParts
      <3> QED BY <2>1, <2>2, <3>2, <3>3 DEF LoadKnows, LoadParts, p
    <2>5. CASE p.form # "plain" /\ ~(p.form = "encrypted" /\ load.own.rsa # 0 /\ SignatureHolds(p, load.compiler))
      <3>1. load' = Refuse
        BY <2>1, <2>5
      <3>2. Refusable(load, p)
        BY <2>5 DEF Refusable
      <3> HIDE DEF p
      <3> QED BY <1>0, <2>1, <3>1, <3>2, RefuseKnows DEF p
    <2> QED BY <2>3, <2>4, <2>5
  <1>8. CASE LoadOpens
    <2> DEFINE p == files[load.place]
               key == ContentKey(load.manifest.players, load.own, load.strict)
               good == p.form = "encrypted" /\ Decrypts(p.payload, key)
                       /\ p.payload.entries.manifest.checksum = load.manifest.checksum
    <2>1. load.at = "open" /\ files' = files /\ load' = IF good THEN Opened(p.payload.entries) ELSE Refuse
      BY <1>8 DEF LoadOpens
    <2>2. load.calm = "yes" => p.form = "encrypted" /\ load.manifest = p.manifest
      BY <1>0, <2>1 DEF LoadKnows
    <2>3. CASE good
      <3>1. load.calm = "yes" /\ ~Opens(p.payload.entries) => Refusable(load, p)
        BY <2>2, <2>3 DEF Refusable
      <3> HIDE DEF p
      <3> QED BY <1>0, <2>1, <2>3, <3>1, OpenedKnows DEF p
    <2>4. CASE ~good
      <3>1. load.calm = "yes" => Refusable(load, p)
        BY <2>2, <2>4 DEF Refusable
      <3> HIDE DEF p
      <3> QED BY <1>0, <2>1, <2>4, <3>1, RefuseKnows DEF p
    <2> QED BY <2>3, <2>4
  <1>9. CASE UNCHANGED pVars \/ WriteKeyFile \/ KeygenDies \/ Trust(keydir["compiler"]["sig.pub"])
             \/ (\E w \in Rekeyed, o \in {"yes", "no"} : Keygen(w, o)) \/ \E k \in trusted : Distrust(k)
    BY <1>1, <1>9 DEF pVars, WriteKeyFile, KeygenDies, Trust, Keygen, Distrust
  <1>10. CASE (\E players \in Addressed : CompileBegins(players)) \/ CompileValidates \/ CompileBuildsIr
              \/ CompileBundles \/ CompileDies \/ \E t \in Trees : EditSource(t)
    BY <1>1, <1>10 DEF CompileBegins, CompileValidates, CompileBuildsIr, CompileBundles, CompileDies, EditSource
  <1> QED BY <1>3, <1>4, <1>5, <1>6, <1>7, <1>8, <1>9, <1>10 DEF PNext

\* The invariant of a calm life holds at the start.
LEMMA LifeStart == PInit => LifeInv
  <1> SUFFICES ASSUME PInit PROVE LifeInv
    OBVIOUS
  <1> DEFINE All == UNION {Range(KeyDirs0[w]) : w \in Dirs}
             W == [dir : Dirs, file : ToSet(KeyFiles), key : Nat]
  <1>1. /\ keydir = KeyDirs0 /\ writing = <<>> /\ build = Idle /\ made = {}
        /\ load = [at |-> "none", place |-> "none", calm |-> "no"]
        /\ "keys" \in DOMAIN count /\ count.keys = Max(All)
    BY DEF PInit, Dirs
  <1>2. KeyDirs0 \in [Dirs -> [ToSet(KeyFiles) -> Nat]]
    BY PackageAssumption DEF Dirs
  <1>3. Max(All) \in Nat /\ \A v \in Dirs, g \in ToSet(KeyFiles) : KeyDirs0[v][g] <= Max(All)
    <2>1. PICK w \in Dirs, f \in ToSet(KeyFiles) :
             \A v \in Dirs, g \in ToSet(KeyFiles) : KeyDirs0[v][g] <= KeyDirs0[w][f]
      BY PackageAssumption DEF Dirs
    <2>2. \A x \in All : \E v \in Dirs, g \in ToSet(KeyFiles) : x = KeyDirs0[v][g]
      BY <1>2 DEF Range
    <2>3. \A v \in Dirs, g \in ToSet(KeyFiles) : KeyDirs0[v][g] \in All
      BY <1>2 DEF Range
    <2> DEFINE top == KeyDirs0[w][f]
    <2>4. top \in All /\ top \in Nat /\ \A x \in All : top >= x
      BY <1>2, <2>1, <2>2, <2>3
    <2> HIDE DEF All, top
    <2>5. Max(All) \in All /\ \A x \in All : Max(All) >= x
      BY <2>4 DEF Max
    <2>6. \A x \in All : x \in Nat
      BY <1>2, <2>2
    <2> QED BY <2>3, <2>5, <2>6
  <1> HIDE DEF All
  <1>4. OwnDirs
    <2>1. "enc.pub" \in ToSet(KeyFiles)
      BY DEF ToSet, KeyFiles
    <2>2. \A v \in Dirs : Holds(v) = {KeyDirs0[v]["enc.pub"]}
      BY <1>1 DEF Holds
    <2>3. \A v, w \in Dirs : v # w /\ KeyDirs0[v]["enc.pub"] = KeyDirs0[w]["enc.pub"] => KeyDirs0[v]["enc.pub"] = 0
      BY PackageAssumption DEF Dirs
    <2>4. writing \in Seq(W)
      <3> HIDE DEF W
      <3> QED BY <1>1
    <2>5. \A v \in Dirs : \A x \in Holds(v) : x <= count.keys
      BY <1>1, <1>3, <2>1, <2>2
    <2>6. \A v, w \in Dirs : \A x \in Holds(v) : v # w /\ x # 0 => x \notin Holds(w)
      BY <2>2, <2>3
    <2> QED BY <1>1, <1>2, <1>3, <2>4, <2>5, <2>6 DEF OwnDirs
  <1>5. LoadKnows(load, files)
    BY <1>1 DEF LoadKnows
  <1> QED BY <1>1, <1>4, <1>5 DEF LifeInv, BuildKnows

\* Only the end of a write makes a package.
LEMMA MadeOnlyWritten ==
  ASSUME [PNext]_pVars
  PROVE  WriteEnds \/ made' = made
  BY DEF pVars, PNext, WriteKeyFile, KeygenDies, Trust, Keygen, Distrust, CompileBegins, CompileValidates,
         CompileBuildsIr, CompileBundles, WriteBegins, CompileDies, EditSource, Remix, Upload, Delete,
         RunBegins, InspectBegins, LoadVerifies, LoadOpens

\* What is known of keys, compiles, packages and loads holds throughout.
LEMMA LifeHolds == PSpec => []LifeInv
  <1>1. PackInv /\ LifeInv /\ [PNext]_pVars => LifeInv'
    <2> SUFFICES ASSUME PackInv, LifeInv, [PNext]_pVars PROVE LifeInv'
      OBVIOUS
    <2>1. OwnDirs' /\ BuildKnows(build', tree') /\ LoadKnows(load', files')
      BY OwnStep, CompileKnows, LoadKeepsKnowing DEF LifeInv
    <2>2. \A m \in made' : MadeKnows(m)
      <3>1. CASE WriteEnds
        BY <3>1, WrittenKnows
      <3>2. CASE made' = made
        BY <3>2 DEF LifeInv
      <3> QED BY <3>1, <3>2, MadeOnlyWritten
    <2> QED BY <2>1, <2>2 DEF LifeInv
  <1> QED BY <1>1, LifeStart, PackHolds, PTL DEF PSpec

(***************************************************************************)
(* For any sources, keys and players, and whatever else an author, a       *)
(* keygen or a carrier of packages does on the way: a package that is as   *)
(* its compile wrote it, from sources nobody edited meanwhile, is refused  *)
(* by an undisturbed load only where the keys do not belong together or    *)
(* the engine demands the post-quantum wrap (GoodPackageLoads).            *)
(***************************************************************************)
THEOREM GoodPackagesLoad == PSpec => []GoodPackageLoads
  BY GoodLoads, LifeHolds, PackHolds, PTL

(***************************************************************************)
(* What a package tells of itself: the plan of a test numbers its          *)
(* instructions by their places, and the digests a compile wrote are of    *)
(* the files it bundled.                                                   *)
(***************************************************************************)

\* The largest of some numbers up to n is one of them.
LEMMA LargestIsOne ==
  ASSUME NEW n \in Nat, NEW S \in SUBSET (1..n), S # {}
  PROVE  Max(S) \in S
  <1> DEFINE U == {u \in Nat : \A y \in S : y <= u}
  <1>1. n \in U
    OBVIOUS
  <1>2. PICK u \in U : \A v \in U : u <= v
    BY <1>1, LeastNatural
  <1>3. u \in S
    <2> SUFFICES ASSUME u \notin S PROVE FALSE
      OBVIOUS
    <2>1. PICK y \in S : TRUE
      OBVIOUS
    <2>2. y \in Nat /\ y >= 1 /\ y <= u /\ u \in Nat
      BY <1>2
    <2>3. u - 1 \in Nat /\ u - 1 < u
      BY <2>2
    <2>4. ASSUME NEW x \in S PROVE x <= u - 1
      <3>1. x \in Nat /\ x <= u /\ x # u
        BY <1>2
      <3> QED BY <2>2, <3>1
    <2>5. u - 1 \in U
      BY <2>3, <2>4
    <2> QED BY <1>2, <2>3, <2>5
  <1>4. \A y \in S : u >= y
    BY <1>2
  <1> QED BY <1>3, <1>4 DEF Max

\* The plan of a phase is as long as the phase, and an instruction bears its place in the plan.
LEMMA PhaseIsNumbered ==
  ASSUME NEW x \in DOMAIN Texts, NEW p \in 1..3, NEW before \in Nat
  PROVE  LET q == PhasePlan(x, p, before)
             n == Len(Texts[x][PhaseNames[p]]) IN
         /\ n \in Nat /\ Len(q) = n /\ (\E S : q \in Seq(S)) /\ \A k \in 1..n : q[k].index = before + k - 1
  <1> DEFINE s == Texts[x][PhaseNames[p]]
             n == Len(s)
             q == PhasePlan(x, p, before)
             S == {Instruction(s[k], before + k - 1, p, k) : k \in 1..n}
  <1>1. PhaseNames[p] \in ToSet(PhaseNames)
    BY DEF PhaseNames, ToSet
  <1>2. s \in Seq(Range(s))
    BY <1>1, SourcesAssumption
  <1> HIDE DEF s
  <1>3. n \in Nat /\ DOMAIN s = 1..n
    BY <1>2
  <1>4. q = [k \in 1..n |-> Instruction(s[k], before + k - 1, p, k)]
    BY <1>3 DEF PhasePlan, s
  <1> HIDE DEF q, n
  <1>5. q \in [1..n -> S]
    BY <1>4
  <1>6. q \in Seq(S)
    BY <1>3, <1>5, SeqDef
  <1>7. Len(q) = n
    BY <1>3, <1>5
  <1>8. \A k \in 1..n : q[k].index = before + k - 1
    BY <1>4 DEF Instruction
  <1> QED BY <1>3, <1>6, <1>7, <1>8 DEF s, q, n

\* Two plans one after the other are numbered through when each is.
LEMMA JoinedPlans ==
  ASSUME NEW S, NEW a \in Seq(S), NEW b \in Seq(S),
         \A k \in 1..Len(a) : a[k].index = k - 1,
         \A k \in 1..Len(b) : b[k].index = Len(a) + k - 1
  PROVE  /\ a \o b \in Seq(S) /\ Len(a \o b) = Len(a) + Len(b)
         /\ \A k \in 1..Len(a \o b) : (a \o b)[k].index = k - 1
  <1>1. a \o b \in Seq(S) /\ Len(a \o b) = Len(a) + Len(b) /\ Len(a) \in Nat /\ Len(b) \in Nat
    OBVIOUS
  <1>2. ASSUME NEW k \in 1..(Len(a) + Len(b)) PROVE (a \o b)[k].index = k - 1
    <2>1. CASE k <= Len(a)
      BY <1>1, <2>1
    <2>2. CASE k > Len(a)
      <3>1. (a \o b)[k] = b[k - Len(a)] /\ k - Len(a) \in 1..Len(b)
        BY <1>1, <2>2
      <3>2. b[k - Len(a)].index = Len(a) + (k - Len(a)) - 1
        BY <3>1
      <3> QED BY <1>1, <3>1, <3>2
    <2> QED BY <1>1, <2>1, <2>2
  <1> QED BY <1>1, <1>2

\* A plan is numbered through from its first instruction to its last.
LEMMA PlanIsNumbered ==
  ASSUME NEW x \in DOMAIN Texts
  PROVE  LET plan == BuildInstructions(x) IN
         (\E S : plan \in Seq(S)) /\ \A k \in DOMAIN plan : plan[k].index = k - 1
  <1> DEFINE a == PhasePlan(x, 1, 0)
             n == Len(Texts[x].setup)
             b == PhasePlan(x, 2, n)
             m == Len(Texts[x].execution)
             c == PhasePlan(x, 3, n + m)
  <1>1. PhaseNames[1] = "setup" /\ PhaseNames[2] = "execution"
    BY DEF PhaseNames
  <1>2. n \in Nat /\ Len(a) = n /\ (\E S : a \in Seq(S)) /\ \A k \in 1..n : a[k].index = 0 + k - 1
    BY <1>1, PhaseIsNumbered
  <1>3. m \in Nat /\ Len(b) = m /\ (\E S : b \in Seq(S)) /\ \A k \in 1..m : b[k].index = n + k - 1
    BY <1>1, <1>2, PhaseIsNumbered
  <1>4. (\E S : c \in Seq(S)) /\ \A k \in 1..Len(c) : c[k].index = (n + m) + k - 1
    <2> HIDE DEF n, m
    <2>1. n + m \in Nat
      BY <1>2, <1>3
    <2>2. /\ Len(c) = Len(Texts[x][PhaseNames[3]]) /\ \E S : c \in Seq(S)
          /\ \A k \in 1..Len(Texts[x][PhaseNames[3]]) : c[k].index = (n + m) + k - 1
      BY <2>1, PhaseIsNumbered
    <2> QED BY <2>2
  <1>5. BuildInstructions(x) = a \o b \o c
    BY DEF BuildInstructions
  <1> HIDE DEF a, b, c, n, m
  <1>6. PICK S1 : a \in Seq(S1)
    BY <1>2
  <1>7. PICK S2 : b \in Seq(S2)
    BY <1>3
  <1>8. PICK S3 : c \in Seq(S3)
    BY <1>4
  <1> DEFINE S == S1 \cup S2 \cup S3
  <1>9. a \in Seq(S) /\ b \in Seq(S) /\ c \in Seq(S)
    BY <1>6, <1>7, <1>8
  <1> HIDE DEF S
  <1>10. /\ a \o b \in Seq(S) /\ Len(a \o b) = n + m
         /\ \A k \in 1..Len(a \o b) : (a \o b)[k].index = k - 1
    <2>1. \A k \in 1..Len(a) : a[k].index = k - 1
      BY <1>2
    <2>2. \A k \in 1..Len(b) : b[k].index = Len(a) + k - 1
      BY <1>2, <1>3
    <2>3. /\ a \o b \in Seq(S) /\ Len(a \o b) = Len(a) + Len(b)
          /\ \A k \in 1..Len(a \o b) : (a \o b)[k].index = k - 1
      BY <1>9, <2>1, <2>2, JoinedPlans
    <2> QED BY <1>2, <1>3, <2>3
  <1> DEFINE d == a \o b
  <1> HIDE DEF d
  <1>11. /\ d \in Seq(S) /\ Len(d) = n + m /\ \A k \in 1..Len(d) : d[k].index = k - 1
    BY <1>10 DEF d
  <1>12. d \o c \in Seq(S) /\ \A k \in 1..Len(d \o c) : (d \o c)[k].index = k - 1
    <2>1. \A k \in 1..Len(c) : c[k].index = Len(d) + k - 1
      BY <1>4, <1>11
    <2> QED BY <1>9, <1>11, <2>1, JoinedPlans
  <1>13. DOMAIN (d \o c) = 1..Len(d \o c)
    BY <1>12
  <1> QED BY <1>5, <1>12, <1>13 DEF d

\* A symbol of a plan names the instruction that returns it.
SymbolsTell(t) ==
    \A key \in DOMAIN t.symbols :
        \E j \in DOMAIN t.instructions :
            /\ j = t.symbols[key] + 1 /\ t.instructions[j].index = t.symbols[key]
            /\ t.instructions[j].phase = key[1] /\ t.instructions[j].id = key[2] /\ key[3] \in t.instructions[j].returns

\* The symbols of a text are so.
LEMMA TextTells ==
  ASSUME NEW x \in DOMAIN Texts
  PROVE  SymbolsTell(CompileTest(x))
  <1> DEFINE plan == BuildInstructions(x)
             keys == UNION {SymbolsOf(plan[k]) : k \in DOMAIN plan}
             hits(key) == {k \in DOMAIN plan : key \in SymbolsOf(plan[k])}
             sym == StepSymbols(plan)
             t == CompileTest(x)
  <1>1. (\E S : plan \in Seq(S)) /\ \A k \in DOMAIN plan : plan[k].index = k - 1
    BY PlanIsNumbered
  <1>2. t.instructions = plan /\ t.symbols = sym
    BY DEF CompileTest
  <1> HIDE DEF plan, t
  <1>3. Len(plan) \in Nat /\ DOMAIN plan = 1..Len(plan)
    BY <1>1
  <1>4. DOMAIN sym = keys /\ \A key \in keys : sym[key] = plan[Max(hits(key))].index
    BY DEF StepSymbols
  <1> HIDE DEF sym
  <1>5. ASSUME NEW key \in keys
        PROVE  \E j \in DOMAIN plan : /\ j = sym[key] + 1 /\ plan[j].index = sym[key]
                                      /\ plan[j].phase = key[1] /\ plan[j].id = key[2] /\ key[3] \in plan[j].returns
    <2> DEFINE j == Max(hits(key))
    <2>1. hits(key) # {} /\ hits(key) \in SUBSET (1..Len(plan))
      BY <1>3
    <2>2. j \in hits(key)
      <3> HIDE DEF hits
      <3> QED BY <1>3, <2>1, LargestIsOne
    <2>3. j \in DOMAIN plan /\ key \in SymbolsOf(plan[j])
      BY <2>2
    <2>4. sym[key] = plan[j].index
      BY <1>4
    <2> HIDE DEF j
    <2>5. plan[j].index = j - 1 /\ j \in Nat
      BY <1>1, <1>3, <2>3
    <2>6. PICK f \in plan[j].returns : key = <<plan[j].phase, plan[j].id, f>>
      BY <2>3 DEF SymbolsOf
    <2> QED BY <2>3, <2>4, <2>5, <2>6
  <1> HIDE DEF keys
  <1> QED BY <1>2, <1>4, <1>5 DEF SymbolsTell, t

\* What a package says of the files in it is so, but for files that also lie beside the index.
FilesTell(e, t) ==
    /\ \A k \in DOMAIN e.bundle : e.bundle[k] \in DOMAIN e.tests /\ e.manifest.tests[k].id = e.bundle[k]
    /\ \A k \in DOMAIN e.bundle : t.beside[e.bundle[k]] = "none" => e.manifest.tests[k].hash = e.tests[e.bundle[k]]
    /\ \A a \in e.manifest.assets : e.assets[a.id] = a.digest

\* What is compiled is made of texts.
PlansFit(e) == \A k \in DOMAIN e.execution : e.execution[k] \in DOMAIN Texts

\* A compile that has read the sources made its plans of texts, and tells of the files if nobody
\* edited them.
BuildTells(b, t) == b # Idle =>
    /\ b.at \in {"bundle", "write", "close"} => PlansFit(b.entries) /\ "execution" \in DOMAIN b.entries
    /\ b.at = "bundle" => "manifest" \in DOMAIN b.entries /\ "checksum" \in DOMAIN b.entries.manifest
    /\ b.at \in {"write", "close"} /\ b.quiet = "yes" => FilesTell(b.entries, t)

MadeTells(m) ==
    /\ PlansFit(Entries(m.file))
    /\ m.quiet = "yes" => FilesTell(Entries(m.file), m.tree)

TellInv ==
    /\ tree \in Sources
    /\ BuildTells(build, tree)
    /\ \A m \in made : MadeTells(m)

\* Bundling and sealing leave the plans.
LEMMA BundledPlans ==
  ASSUME NEW e, NEW t, "manifest" \in DOMAIN e, "execution" \in DOMAIN e, "checksum" \in DOMAIN e.manifest, PlansFit(e)
  PROVE  PlansFit(Seal(EmbedBundle(e, t))) /\ "execution" \in DOMAIN Seal(EmbedBundle(e, t))
  <1> DEFINE b == EmbedBundle(e, t)
             s == Seal(b)
  <1>1. DOMAIN b = DOMAIN e \cup {"bundle", "tests"} /\ b.manifest = e.manifest /\ b.execution = e.execution
    BY DEF EmbedBundle
  <1> HIDE DEF b
  <1>2. DOMAIN s = DOMAIN b /\ \A n \in DOMAIN b : n # "manifest" => s[n] = b[n]
    BY <1>1, SealSeals
  <1> HIDE DEF s
  <1>3. s.execution = e.execution
    BY <1>1, <1>2
  <1> QED BY <1>1, <1>2, <1>3 DEF PlansFit, b, s

\* A compile nobody disturbed tells of its files as they are.
LEMMA QuietTells ==
  ASSUME NEW t \in Sources, ValidTree(t)
  PROVE  FilesTell(Seal(EmbedBundle(BuildIr(t), t)), t)
  <1> DEFINE ir == BuildIr(t)
             e == EmbedBundle(ir, t)
             s == Seal(e)
             at == [i \in ToSet(Index.tests) |-> BundledText(t, i)]
             tests == Restrict(at, {i \in DOMAIN at : at[i] # "none"})
             man == [ir.manifest EXCEPT !.checksum = Compute(e)]
  <1>1. /\ DOMAIN e = {"manifest", "execution", "assets", "bundle", "tests"} /\ e.manifest = ir.manifest
        /\ e.bundle = Index.tests /\ e.tests = tests /\ e.assets = CopyAssets(t)
    BY DEF EmbedBundle, BuildIr
  <1>2. /\ ir.manifest.tests = TestsList(t) /\ ir.manifest.assets = AssetEntries(t)
        /\ DOMAIN ir.manifest = {"checksum", "tests", "assets", "needs"}
    BY DEF BuildIr
  <1> HIDE DEF e, tests, ir
  <1>3. DOMAIN s = DOMAIN e /\ \A n \in DOMAIN e : n # "manifest" => s[n] = e[n]
    BY <1>1, <1>2, SealSeals
  <1>4. s.manifest = man
    BY <1>1 DEF Seal
  <1>5. man.tests = TestsList(t) /\ man.assets = AssetEntries(t)
    BY <1>2
  <1> HIDE DEF s, man
  <1>6. s.bundle = Index.tests /\ s.tests = tests /\ s.assets = CopyAssets(t)
    BY <1>1, <1>3
  <1>7. ASSUME NEW k \in DOMAIN Index.tests
        PROVE  /\ Index.tests[k] \in DOMAIN tests
               /\ tests[Index.tests[k]] = t.tests[Index.tests[k]]
               /\ man.tests[k].id = Index.tests[k]
               /\ t.beside[Index.tests[k]] = "none" => man.tests[k].hash = tests[Index.tests[k]]
    <2> DEFINE i == Index.tests[k]
    <2>1. i \in ToSet(Index.tests)
      BY DEF ToSet
    <2>2. t.tests[i] # "none"
      BY DEF ValidTree
    <2>3. at[i] = t.tests[i]
      BY <2>1, <2>2 DEF BundledText
    <2>4. i \in DOMAIN tests /\ tests[i] = t.tests[i]
      BY <2>1, <2>2, <2>3 DEF tests, Restrict
    <2>5. man.tests[k] = [id |-> i, hash |-> ResolveTestPath(t, i)]
      BY <1>5 DEF TestsList
    <2>6. man.tests[k].id = i /\ man.tests[k].hash = ResolveTestPath(t, i)
      BY <2>5
    <2> HIDE DEF i
    <2>7. t.beside[i] = "none" => man.tests[k].hash = tests[i]
      BY <2>4, <2>6 DEF ResolveTestPath
    <2> QED BY <2>4, <2>6, <2>7 DEF i
  <1>8. ASSUME NEW a \in man.assets PROVE s.assets[a.id] = a.digest
    <2>1. PICK x \in Index.assets : t.assets[x] # "none" /\ a = [id |-> x, digest |-> t.assets[x]]
      BY <1>5, <1>8 DEF AssetEntries
    <2>2. x \in DOMAIN t.assets
      BY <2>1, SourcesAssumption
    <2>3. CopyAssets(t)[x] = t.assets[x]
      BY <2>1, <2>2 DEF CopyAssets, Restrict
    <2> QED BY <1>6, <2>1, <2>3
  <1>9. /\ \A k \in DOMAIN s.bundle : s.bundle[k] \in DOMAIN s.tests /\ s.manifest.tests[k].id = s.bundle[k]
        /\ \A k \in DOMAIN s.bundle : t.beside[s.bundle[k]] = "none" => s.manifest.tests[k].hash = s.tests[s.bundle[k]]
    BY <1>4, <1>6, <1>7
  <1>10. \A a \in s.manifest.assets : s.assets[a.id] = a.digest
    BY <1>4, <1>8
  <1>11. FilesTell(s, t)
    BY <1>9, <1>10 DEF FilesTell
  <1> QED BY <1>11 DEF s, e, ir

\* What a compile reads of the sources is texts.
LEMMA ReadTexts ==
  ASSUME NEW t \in Sources, \A k \in DOMAIN Index.tests : ResolveTestPath(t, Index.tests[k]) # "none"
  PROVE  /\ PlansFit(BuildIr(t)) /\ {"manifest", "execution"} \subseteq DOMAIN BuildIr(t)
         /\ "checksum" \in DOMAIN BuildIr(t).manifest
  <1>1. /\ BuildIr(t).execution = [k \in DOMAIN Index.tests |-> ResolveTestPath(t, Index.tests[k])]
        /\ {"manifest", "execution"} \subseteq DOMAIN BuildIr(t) /\ "checksum" \in DOMAIN BuildIr(t).manifest
    BY DEF BuildIr
  <1>2. ASSUME NEW k \in DOMAIN Index.tests PROVE ResolveTestPath(t, Index.tests[k]) \in DOMAIN Texts
    <2>1. Index.tests[k] \in ToSet(Index.tests)
      BY DEF ToSet
    <2>2. {t.tests[Index.tests[k]], t.beside[Index.tests[k]]} \subseteq DOMAIN Texts \cup {"none"}
      BY <2>1, SourcesAssumption
    <2> QED BY <2>2 DEF ResolveTestPath
  <1> QED BY <1>1, <1>2 DEF PlansFit

\* What is known of the compile under way stays so.
LEMMA BuildStepTells ==
  ASSUME PackInv, LifeInv, TellInv, [PNext]_pVars
  PROVE  tree' \in Sources /\ BuildTells(build', tree')
  <1> DEFINE parts == {"at", "form", "signer", "to", "quiet", "entries"}
  <1>0. BuildKnows(build, tree) /\ BuildTells(build, tree) /\ tree \in Sources /\ (build # Idle => parts \subseteq DOMAIN build)
    BY DEF LifeInv, PackInv, BuildFits, TellInv
  <1>1. BuildTells(Idle, tree')
    BY DEF BuildTells
  <1>2. ASSUME build' = build, tree' = tree PROVE tree' \in Sources /\ BuildTells(build', tree')
    BY <1>0, <1>2
  <1>3. ASSUME NEW players \in Addressed, CompileBegins(players) PROVE tree' \in Sources /\ BuildTells(build', tree')
    <2>1. tree' = tree /\ build'.at = "validate"
      BY <1>3 DEF CompileBegins
    <2> QED BY <1>0, <2>1 DEF BuildTells
  <1>4. CASE CompileValidates
    <2>1. tree' = tree /\ build # Idle /\ (build' = Idle \/ build' = [build EXCEPT !.at = "ir"])
      BY <1>4 DEF CompileValidates, Idle
    <2>2. CASE build' = [build EXCEPT !.at = "ir"]
      <3>1. build'.at = "ir"
        BY <1>0, <2>1, <2>2
      <3> QED BY <1>0, <2>1, <3>1 DEF BuildTells
    <2> QED BY <1>0, <1>1, <2>1, <2>2
  <1>5. CASE CompileBuildsIr
    <2> DEFINE ir == BuildIr(tree)
               found == \A k \in DOMAIN Index.tests : ResolveTestPath(tree, Index.tests[k]) # "none"
    <2>1. /\ tree' = tree /\ build # Idle
          /\ build' = Idle \/ (found /\ build' = [build EXCEPT !.at = "bundle", !.entries = ir])
      BY <1>5 DEF CompileBuildsIr, Idle
    <2>2. CASE found /\ build' = [build EXCEPT !.at = "bundle", !.entries = ir]
      <3>1. PlansFit(ir) /\ {"manifest", "execution"} \subseteq DOMAIN ir /\ "checksum" \in DOMAIN ir.manifest
        BY <1>0, <2>2, ReadTexts
      <3> HIDE DEF ir
      <3>2. build'.at = "bundle" /\ build'.entries = ir
        BY <1>0, <2>1, <2>2
      <3> QED BY <1>0, <2>1, <3>1, <3>2 DEF BuildTells
    <2> QED BY <1>0, <1>1, <2>1, <2>2
  <1>6. CASE CompileBundles
    <2> DEFINE e == build.entries
               sealed == Seal(EmbedBundle(e, tree))
    <2>1. /\ build.at = "bundle" /\ tree' = tree /\ build # Idle
          /\ build' = [build EXCEPT !.at = "write", !.entries = sealed]
      BY <1>6 DEF CompileBundles, Idle
    <2>2. /\ PlansFit(e) /\ "execution" \in DOMAIN e
          /\ "manifest" \in DOMAIN e /\ "checksum" \in DOMAIN e.manifest
      BY <1>0, <2>1 DEF BuildTells
    <2>3. PlansFit(sealed) /\ "execution" \in DOMAIN sealed
      <3> HIDE DEF e
      <3> QED BY <2>2, BundledPlans
    <2>4. build.quiet = "yes" => FilesTell(sealed, tree)
      BY <1>0, <2>1, QuietTells DEF BuildKnows
    <2> HIDE DEF sealed, e
    <2>5. build'.at = "write" /\ build'.quiet = build.quiet /\ build'.entries = sealed
      BY <1>0, <2>1
    <2> QED BY <1>0, <2>1, <2>3, <2>4, <2>5 DEF BuildTells
  <1>7. CASE WriteBegins
    <2>1. build.at = "write" /\ tree' = tree /\ build # Idle /\ build' = [build EXCEPT !.at = "close"]
      BY <1>7 DEF WriteBegins, Idle
    <2>2. build'.at = "close" /\ build'.quiet = build.quiet /\ build'.entries = build.entries
      BY <1>0, <2>1
    <2> QED BY <1>0, <2>1, <2>2 DEF BuildTells
  <1>8. CASE WriteEnds \/ CompileDies
    BY <1>0, <1>1, <1>8 DEF WriteEnds, CompileDies
  <1>9. ASSUME NEW t \in Trees, EditSource(t) PROVE tree' \in Sources /\ BuildTells(build', tree')
    <2>1. tree' \in Sources /\ build' = IF build = Idle THEN build ELSE [build EXCEPT !.quiet = "no"]
      BY <1>9 DEF EditSource, Sources
    <2>2. CASE build # Idle
      <3>1. build'.at = build.at /\ build'.entries = build.entries /\ build'.quiet = "no"
        BY <1>0, <2>1, <2>2
      <3> QED BY <1>0, <2>1, <2>2, <3>1 DEF BuildTells
    <2> QED BY <1>1, <2>1, <2>2
  <1>10. CASE UNCHANGED pVars \/ WriteKeyFile \/ KeygenDies \/ Trust(keydir["compiler"]["sig.pub"])
              \/ (\E w \in Rekeyed, o \in {"yes", "no"} : Keygen(w, o)) \/ \E k \in trusted : Distrust(k)
    BY <1>2, <1>10 DEF pVars, WriteKeyFile, KeygenDies, Trust, Keygen, Distrust
  <1>11. CASE (\E p \in Remixed : Remix(p)) \/ (\E i \in Stored : Upload(i) \/ Delete(i))
              \/ (\E p \in Shelves, w \in Players : RunBegins(p, w) \/ InspectBegins(p, w))
              \/ LoadVerifies \/ LoadOpens
    BY <1>2, <1>11 DEF Remix, Upload, Delete, RunBegins, InspectBegins, LoadVerifies, LoadOpens
  <1> QED BY <1>3, <1>4, <1>5, <1>6, <1>7, <1>8, <1>9, <1>10, <1>11 DEF PNext

\* The package a compile writes tells what the compile knows.
LEMMA WrittenTells ==
  ASSUME PackInv, TellInv, WriteEnds, NEW m \in made'
  PROVE  MadeTells(m)
  <1> DEFINE f == PackageOf(build)
             n == [file |-> f, quiet |-> build.quiet, tree |-> tree, signer |-> build.signer, to |-> build.to]
  <1>1. build.at = "close" /\ made' = made \cup {n} /\ build # Idle
    BY DEF WriteEnds, Idle
  <1>2. PlansFit(build.entries) /\ (build.quiet = "yes" => FilesTell(build.entries, tree)) /\ build.form \in {"plain", "encrypted"}
    BY <1>1 DEF TellInv, BuildTells, PackInv, BuildFits
  <1>3. n.file = f /\ n.quiet = build.quiet /\ n.tree = tree
    OBVIOUS
  <1>4. Entries(f) = build.entries
    <2>1. CASE build.form = "plain"
      BY <2>1 DEF PackageOf, Entries
    <2>2. CASE build.form = "encrypted"
      BY <2>2 DEF PackageOf, Entries
    <2> QED BY <1>2, <2>1, <2>2
  <1> HIDE DEF f, n
  <1>5. MadeTells(n)
    BY <1>2, <1>3, <1>4 DEF MadeTells
  <1> QED BY <1>1, <1>5 DEF TellInv

\* What is known of packages is what ManifestTellsContent says.
LEMMA TellingTells == TellInv => ManifestTellsContent
  <1> SUFFICES ASSUME TellInv, NEW m \in made
               PROVE  LET e == Entries(m.file) IN
                      /\ m.quiet = "yes" => FilesTell(e, m.tree)
                      /\ \A k \in DOMAIN e.execution : SymbolsTell(CompiledTests(e)[k])
    BY DEF ManifestTellsContent, FilesTell, SymbolsTell
  <1> DEFINE e == Entries(m.file)
  <1>1. PlansFit(e) /\ (m.quiet = "yes" => FilesTell(e, m.tree))
    BY DEF TellInv, MadeTells
  <1> HIDE DEF e
  <1>2. ASSUME NEW k \in DOMAIN e.execution PROVE SymbolsTell(CompiledTests(e)[k])
    <2>1. CompiledTests(e)[k] = CompileTest(e.execution[k])
      BY DEF CompiledTests
    <2>2. e.execution[k] \in DOMAIN Texts
      BY <1>1 DEF PlansFit
    <2> QED BY <2>1, <2>2, TextTells
  <1> QED BY <1>1, <1>2 DEF e

(***************************************************************************)
(* For any sources, of any number and length, and whatever an author edits *)
(* during a compile: a package bundles every test it lists, its digests    *)
(* are those of the files in it, and a symbol of its plan names the        *)
(* instruction that returns it (ManifestTellsContent).                     *)
(***************************************************************************)
THEOREM PackagesTellContent == PSpec => []ManifestTellsContent
  <1>1. PInit => TellInv
    BY DEF PInit, TellInv, Sources, BuildTells
  <1>2. PackInv /\ LifeInv /\ TellInv /\ [PNext]_pVars => TellInv'
    <2> SUFFICES ASSUME PackInv, LifeInv, TellInv, [PNext]_pVars PROVE TellInv'
      OBVIOUS
    <2>1. tree' \in Sources /\ BuildTells(build', tree')
      BY BuildStepTells
    <2>2. \A m \in made' : MadeTells(m)
      <3>1. CASE WriteEnds
        BY <3>1, WrittenTells
      <3>2. CASE made' = made
        BY <3>2 DEF TellInv
      <3>3. WriteEnds \/ made' = made
        BY MadeOnlyWritten
      <3> QED BY <3>1, <3>2, <3>3
    <2> QED BY <2>1, <2>2 DEF TellInv
  <1> QED BY <1>1, <1>2, TellingTells, LifeHolds, PackHolds, PTL DEF PSpec

(***************************************************************************)
(* What validation accepts.                                                *)
(***************************************************************************)
WInv ==
    /\ tck \in Docs /\ played \in Nat /\ stage \in {"draft", "checked", "accepted", "refused"}
    /\ stage = "checked" => issues = TestIssues(tck)
    /\ stage = "accepted" => Valid(TestIssues(tck) \cup ManifestIssues(tck))
    /\ AcceptedRuns

\* An error that is among valid findings was not made.
LEMMA NoError ==
  ASSUME NEW found, Valid(found), NEW bad \in BOOLEAN, NEW rule, Error(bad, rule) \subseteq found
  PROVE  ~bad
  BY DEF Valid, Error, Issue

\* The steps of a test, one after another.
LEMMA StepsInOrder ==
  ASSUME NEW t \in Docs
  PROVE  /\ DOMAIN StepsOf(t) = 1..Len(StepsOf(t)) /\ Len(StepsOf(t)) \in Nat
         /\ \A k \in DOMAIN StepsOf(t) : /\ StepsOf(t)[k].phase \in Range(Phases)
                                        /\ \E p \in Range(Phases) : StepsOf(t)[k].step \in Range(t.steps[p])
  <1> DEFINE T == [phase : Range(Phases), step : UNION {Range(t.steps[p]) : p \in Range(Phases)}]
  <1>1. {"setup", "execution", "teardown"} = Range(Phases)
    <2>1. Phases = <<"setup", "execution", "teardown">>
      BY DEF Phases
    <2>2. DOMAIN Phases = {1, 2, 3} /\ Phases[1] = "setup" /\ Phases[2] = "execution" /\ Phases[3] = "teardown"
      BY <2>1
    <2> QED BY <2>2 DEF Range
  <1>2. ASSUME NEW p \in {"setup", "execution", "teardown"} PROVE Phased(t, p) \in Seq(T)
    <2> DEFINE u == t.steps[p]
               A == Range(u)
    <2>1. u \in Seq(A)
      BY <1>1, ValidationAssumption
    <2>2. Phased(t, p) = [k \in DOMAIN u |-> [phase |-> p, step |-> u[k]]]
      BY DEF Phased
    <2>3. \A k \in DOMAIN u : [phase |-> p, step |-> u[k]] \in T
      <3>1. \A k \in DOMAIN u : u[k] \in Range(u)
        BY DEF Range
      <3> QED BY <1>1, <3>1
    <2> HIDE DEF u, A, T
    <2>4. DOMAIN u = 1..Len(u) /\ Len(u) \in Nat
      BY <2>1
    <2>5. [k \in 1..Len(u) |-> [phase |-> p, step |-> u[k]]] \in [1..Len(u) -> T]
      BY <2>3, <2>4
    <2> QED BY <2>2, <2>4, <2>5
  <1> DEFINE a == Phased(t, "setup")
             b == Phased(t, "execution")
             c == Phased(t, "teardown")
             s == StepsOf(t)
  <1>3. a \in Seq(T) /\ b \in Seq(T) /\ c \in Seq(T) /\ s = (a \o b) \o c
    BY <1>2 DEF StepsOf
  <1> HIDE DEF a, b, c, T
  <1>4. (a \o b) \o c \in Seq(T)
    BY <1>3
  <1> HIDE DEF s
  <1>5. s \in Seq(T)
    BY <1>3, <1>4
  <1>6. DOMAIN s = 1..Len(s) /\ Len(s) \in Nat /\ \A k \in DOMAIN s : s[k] \in T
    BY <1>5
  <1>7. \A x \in T : x.phase \in Range(Phases) /\ \E p \in Range(Phases) : x.step \in Range(t.steps[p])
    BY DEF T
  <1> QED BY <1>6, <1>7 DEF s

\* A step of a test is one of those the phases list, so its condition names a sequence.
LEMMA CondNames ==
  ASSUME NEW t \in Docs, NEW k \in DOMAIN StepsOf(t)
  PROVE  StepsOf(t)[k].step.cond.name \in Seq(Range(StepsOf(t)[k].step.cond.name))
  <1>1. \E p \in Range(Phases) : StepsOf(t)[k].step \in Range(t.steps[p])
    BY StepsInOrder
  <1> QED BY <1>1, ValidationAssumption

\* What an accepted test is free of.
LEMMA AcceptedFree ==
  ASSUME NEW t \in Docs, Valid(TestIssues(t) \cup ManifestIssues(t)), NEW k \in DOMAIN StepsOf(t)
  PROVE  /\ Misplaced(StepsOf(t)[k].step) = {} /\ ~ConditionProblem(t, k)
         /\ \A v \in Range(t.vars) : v.value # "credential"
  <1> DEFINE found == TestIssues(t) \cup ManifestIssues(t)
             s == StepsOf(t)[k].step
  <1>0. Valid(found) /\ TestIssues(t) \subseteq found /\ ManifestIssues(t) \subseteq found
    OBVIOUS
  <1>1. t.file = "parsed"
    <2> SUFFICES ASSUME t.file # "parsed" PROVE FALSE
      OBVIOUS
    <2>1. TestIssues(t) = Error(TRUE, "test_file")
      BY DEF TestIssues
    <2> HIDE DEF found
    <2> QED BY <1>0, <2>1, NoError
  <1>2. StepIssues(t, k) \subseteq TestIssues(t)
    BY <1>1 DEF TestIssues
  <1>3. /\ Error(ConditionProblem(t, k), "condition") \subseteq StepIssues(t, k)
        /\ Error(Misplaced(s) # {}, "credential") \subseteq StepIssues(t, k)
    BY Zenon DEF StepIssues
  <1>4. Error(\E v \in Range(t.vars) : v.value = "credential", "credential") \subseteq ManifestIssues(t)
    BY Zenon DEF ManifestIssues, DeclarationIssues
  <1> HIDE DEF found, s
  <1>5. ~ConditionProblem(t, k)
    <2>1. ConditionProblem(t, k) \in BOOLEAN
      BY DEF ConditionProblem
    <2>2. Error(ConditionProblem(t, k), "condition") \subseteq found
      BY <1>0, <1>2, <1>3
    <2> DEFINE bad == ConditionProblem(t, k)
    <2> HIDE DEF bad
    <2>3. ~bad
      BY <1>0, <2>1, <2>2, NoError DEF bad
    <2> QED BY <2>3 DEF bad
  <1>6. Misplaced(s) = {}
    <2> DEFINE bad == Misplaced(s) # {}
    <2>1. bad \in BOOLEAN /\ Error(bad, "credential") \subseteq found
      BY <1>0, <1>2, <1>3
    <2> HIDE DEF bad
    <2>2. ~bad
      BY <1>0, <2>1, NoError
    <2> QED BY <2>2 DEF bad
  <1>7. ~\E v \in Range(t.vars) : v.value = "credential"
    <2> DEFINE bad == \E v \in Range(t.vars) : v.value = "credential"
    <2>1. bad \in BOOLEAN /\ Error(bad, "credential") \subseteq found
      BY <1>0, <1>4
    <2> HIDE DEF bad
    <2>2. ~bad
      BY <1>0, <2>1, NoError
    <2> QED BY <2>2 DEF bad
  <1> QED BY <1>5, <1>6, <1>7 DEF s

\* A name and its parts.
LEMMA PartsOf ==
  ASSUME NEW S, NEW n \in Seq(S)
  PROVE  /\ Len(n) = 1 => n = <<n[1]>>
         /\ Len(n) = 2 => n = <<n[1], n[2]>> /\ Take(n, 2) = n
         /\ Len(n) = 3 => n = <<n[1], n[2], n[3]>> /\ Take(n, 2) = <<n[1], n[2]>>
         /\ Len(n) = 4 => Take(n, 4) = n
  <1>1. Len(n) \in Nat /\ n \in [1..Len(n) -> S]
    OBVIOUS
  <1>2. Len(n) = 1 => n = <<n[1]>>
    BY <1>1
  <1>3. Len(n) = 2 => n = <<n[1], n[2]>>
    BY <1>1
  <1>4. Len(n) = 3 => n = <<n[1], n[2], n[3]>>
    BY <1>1
  <1>5. ASSUME NEW m \in Nat, m <= Len(n)
        PROVE  /\ Take(n, m) = SubSeq(n, 1, m) /\ Take(n, m) \in Seq(S) /\ Len(Take(n, m)) = m
               /\ \A i \in 1..m : Take(n, m)[i] = n[i]
    <2>1. Take(n, m) = SubSeq(n, 1, m)
      <3>1. (IF Len(n) < m THEN Len(n) ELSE m) = m
        <4> DEFINE z == Len(n)
        <4>1. z \in Nat /\ m <= z
          BY <1>1, <1>5
        <4> HIDE DEF z
        <4>2. z < m => z = m
          BY <4>1
        <4>3. (IF z < m THEN z ELSE m) = m
          BY <4>2
        <4> QED BY <4>3 DEF z
      <3> QED BY <3>1 DEF Take
    <2>2. SubSeq(n, 1, m) \in Seq(S) /\ Len(SubSeq(n, 1, m)) = m /\ \A i \in 1..m : SubSeq(n, 1, m)[i] = n[i]
      BY <1>5, HeadIs
    <2> QED BY <2>1, <2>2
  <1>6. ASSUME NEW m \in Nat, m = Len(n) PROVE Take(n, m) = n
    <2> DEFINE u == Take(n, m)
    <2>1. u \in Seq(S) /\ Len(u) = m /\ \A i \in 1..m : u[i] = n[i]
      BY <1>5, <1>6
    <2> HIDE DEF u
    <2>2. u = n
      BY <1>6, <2>1
    <2> QED BY <2>2 DEF u
  <1>7. Len(n) = 3 => Take(n, 2) = <<n[1], n[2]>>
    <2> SUFFICES ASSUME Len(n) = 3 PROVE Take(n, 2) = <<n[1], n[2]>>
      OBVIOUS
    <2> DEFINE u == Take(n, 2)
    <2>1. u \in Seq(S) /\ Len(u) = 2 /\ \A i \in 1..2 : u[i] = n[i]
      <3>1. 2 \in Nat /\ 2 <= Len(n)
        OBVIOUS
      <3> QED BY <1>5, <3>1
    <2> HIDE DEF u
    <2>2. u = <<n[1], n[2]>>
      BY <2>1
    <2> QED BY <2>2 DEF u
  <1> QED BY <1>2, <1>3, <1>4, <1>6, <1>7

\* No step of an accepted test is handed a credential it was given out of place.
LEMMA NoMisuse ==
  ASSUME NEW s, Misplaced(s) = {}, \A v \in Range(tck.vars) : v.value # "credential", NEW x \in {s} \cup Deep(s)
  PROVE  Misused(x, GivenNames) = {}
  <1> SUFFICES ASSUME NEW r \in Misused(x, GivenNames) PROVE FALSE
    OBVIOUS
  <1>1. r \in x.refs /\ r.name \in GivenNames /\ ~(r.at = "headers" /\ r.whole = "yes")
    BY DEF Misused
  <1>2. r.name = Secret_
    <2>1. {w \in Range(tck.vars) : w.value = "credential"} = {}
      OBVIOUS
    <2>2. {<<"env", v.id>> : v \in {w \in Range(tck.vars) : w.value = "credential"}} = {}
      BY <2>1, Zenon
    <2>3. GivenNames = {Secret_}
      BY <2>2, Zenon DEF GivenNames
    <2> QED BY <1>1, <2>3
  <1>3. RootOf(r.name) = Secret_
    <2> DEFINE n == Secret_
    <2>1. n \in Seq({"infrastructure", "sut", "connector", "api_key"}) /\ Len(n) = 4 /\ n[1] = "infrastructure"
      <3>1. n = <<"infrastructure", "sut", "connector", "api_key">>
        BY DEF Secret_
      <3>2. n \in Seq({"infrastructure", "sut", "connector", "api_key"})
        BY <3>1
      <3>3. Len(n) = 4
        BY <3>1
      <3>4. n[1] = "infrastructure"
        BY <3>1
      <3> QED BY <3>2, <3>3, <3>4
    <2>2. RootOf(r.name) = Take(n, 4)
      <3> HIDE DEF n
      <3>1. r.name = n /\ "infrastructure" # "*"
        BY <1>2 DEF n
      <3> QED BY <2>1, <3>1 DEF RootOf
    <2> HIDE DEF n
    <2>3. Take(n, 4) = n
      BY <2>1, PartsOf
    <2> QED BY <2>2, <2>3 DEF n
  <1>4. r \in Misplaced(s)
    <2>1. OutOfPlace(r)
      BY <1>1, <1>3 DEF OutOfPlace, Carrier
    <2>2. r \in UNION {y.refs : y \in {s} \cup Deep(s)}
      BY <1>1
    <2> QED BY <2>1, <2>2, Zenon DEF Misplaced
  <1> QED BY <1>4

\* The steps the validator takes for the earlier ones are those that are written before.
LEMMA EarlierSteps ==
  ASSUME NEW k \in DOMAIN StepsOf(tck)
  PROVE  Publishing(tck, k) = WrittenBefore(k)
  <1>1. Before(tck, k) = 1..(k - 1)
    <2>1. DOMAIN StepsOf(tck) = 1..Len(StepsOf(tck)) /\ Len(StepsOf(tck)) \in Nat
      BY StepsInOrder
    <2> DEFINE n == Len(StepsOf(tck))
    <2>2. n \in Nat /\ k \in 1..n /\ Before(tck, k) = {j \in 1..n : j < k}
      BY <2>1 DEF Before
    <2> HIDE DEF n
    <2>3. {j \in 1..n : j < k} = 1..(k - 1)
      BY <2>2
    <2> QED BY <2>2, <2>3
  <1>2. {u \in Registered : Holds_(u)} = {"flow", "mock"}
    BY DEF Registered, Holds_
  <1>3. \A s : Deep(s) = Within(s, {"flow", "mock"})
    BY <1>2 DEF Deep
  <1> DEFINE F(j) == {[phase |-> StepsOf(tck)[j].phase, step |-> s] : s \in {StepsOf(tck)[j].step} \cup Deep(StepsOf(tck)[j].step)}
             G(j) == {[phase |-> StepsOf(tck)[j].phase, step |-> s] : s \in {StepsOf(tck)[j].step} \cup Within(StepsOf(tck)[j].step, {"flow", "mock"})}
  <1>4. ASSUME NEW j PROVE F(j) = G(j)
    BY <1>3
  <1>5. Publishing(tck, k) = UNION {F(j) : j \in 1..(k - 1)} /\ WrittenBefore(k) = UNION {G(j) : j \in 1..(k - 1)}
    BY <1>1 DEF Publishing, WrittenBefore
  <1> HIDE DEF F, G
  <1>6. {F(j) : j \in 1..(k - 1)} = {G(j) : j \in 1..(k - 1)}
    BY <1>4, Zenon
  <1> QED BY <1>5, <1>6

\* The names of steps the validator knows are those of the steps a run can run.
LEMMA NamesOfSteps ==
  StepNames(tck) = WholeSteps
  <1>1. {u \in Registered : Holds_(u) /\ ~OfCall(u)} = {"flow"}
    BY DEF Registered, Holds_, OfCall
  <1>2. ASSUME NEW e
        PROVE  {<<e.phase, e.step.id>>} \cup {<<e.phase, i>> : i \in InnerIds(e.step)} = {<<e.phase, x.id>> : x \in Ran(e.step)}
    <2> DEFINE w == Within(e.step, {"flow"})
    <2>1. InnerIds(e.step) = {i.id : i \in w} /\ Ran(e.step) = {e.step} \cup w
      BY <1>1, Zenon DEF InnerIds, Ran
    <2> HIDE DEF w
    <2>2. {<<e.phase, i>> : i \in {j.id : j \in w}} = {<<e.phase, j.id>> : j \in w}
      BY Zenon
    <2>3. {<<e.phase, x.id>> : x \in {e.step} \cup w} = {<<e.phase, e.step.id>>} \cup {<<e.phase, j.id>> : j \in w}
      BY Zenon
    <2> QED BY <2>1, <2>2, <2>3
  <1> DEFINE F(e) == {<<e.phase, e.step.id>>} \cup {<<e.phase, i>> : i \in InnerIds(e.step)}
             G(e) == {<<e.phase, x.id>> : x \in Ran(e.step)}
  <1>3. StepNames(tck) = UNION {F(e) : e \in Range(StepsOf(tck))}
    BY DEF StepNames
  <1>4. ASSUME NEW e PROVE F(e) = G(e)
    BY <1>2
  <1>5. {F(e) : e \in Range(StepsOf(tck))} = {G(e) : e \in Range(StepsOf(tck))}
    <2> HIDE DEF F, G
    <2> QED BY <1>4, Zenon
  <1>6. WholeSteps = UNION {G(e) : e \in Range(StepsOf(tck))}
    BY DEF WholeSteps
  <1> QED BY <1>3, <1>5, <1>6

\* What a step before returned is held, or is of a mock's calls.
LEMMA PublishedNames ==
  ASSUME NEW k \in DOMAIN StepsOf(tck), NEW e \in Publishing(tck, k), NEW x \in e.step.returns
  PROVE  {<<x>>, <<e.phase, e.step.id, x>>} \subseteq HeldAt(k) \cup OverlookedAt(k)
  <1>1. {<<x>>, <<e.phase, e.step.id, x>>} \subseteq Returned(e)
    BY Zenon DEF Returned
  <1>2. CASE e \in RunBefore(k)
    <2>1. Returned(e) \subseteq HeldAt(k)
      <3> DEFINE F(i) == Returned(i) \cup {<<y>> : y \in Publishes(i.step.uses)}
      <3>1. UNION {F(i) : i \in RunBefore(k)} \subseteq HeldAt(k)
        BY Zenon DEF HeldAt
      <3>2. Returned(e) \subseteq F(e)
        BY Zenon
      <3> HIDE DEF F
      <3>3. F(e) \subseteq UNION {F(i) : i \in RunBefore(k)}
        BY <1>2, Zenon
      <3> QED BY <3>1, <3>2, <3>3
    <2> QED BY <1>1, <2>1
  <1>3. CASE e \notin RunBefore(k)
    <2>1. e \in WrittenBefore(k) \ RunBefore(k)
      BY <1>3, EarlierSteps
    <2>2. Returned(e) \subseteq OverlookedAt(k)
      BY <2>1, Zenon DEF OverlookedAt
    <2> QED BY <1>1, <2>2
  <1> QED BY <1>2, <1>3

\* A name without the env before it, and what is in scope with it.
LEMMA EnvNames ==
  ASSUME tck \in Docs, NEW k, NEW S, NEW name \in Seq(S), <<"env">> \o name \in ScopeOf(tck)
  PROVE  name \in HeldAt(k)
  <1> DEFINE full == <<"env">> \o name
  <1>1. full[1] = "env" /\ Len(full) = Len(name) + 1 /\ Len(name) \in Nat /\ \A i \in 1..Len(name) : full[i + 1] = name[i]
    <2> DEFINE one == <<"env">>
    <2>1. one \in Seq(S \cup {"env"}) /\ name \in Seq(S \cup {"env"}) /\ Len(one) = 1 /\ one[1] = "env"
      OBVIOUS
    <2> HIDE DEF one
    <2>2. /\ Len(one \o name) = Len(one) + Len(name)
          /\ \A i \in 1..(Len(one) + Len(name)) : (one \o name)[i] = IF i <= Len(one) THEN one[i] ELSE name[i - Len(one)]
      BY <2>1, ConcatProperties
    <2>3. Len(name) \in Nat
      OBVIOUS
    <2>4. 1 \in 1..(Len(one) + Len(name)) /\ 1 <= Len(one)
      BY <2>1, <2>3
    <2>5. \A i \in 1..Len(name) : i + 1 \in 1..(Len(one) + Len(name)) /\ ~(i + 1 <= Len(one)) /\ (i + 1) - Len(one) = i
      BY <2>1, <2>3
    <2> QED BY <2>1, <2>2, <2>3, <2>4, <2>5 DEF one
  <1> HIDE DEF full
  <1>2. full \in ScopeOf(tck)
    BY DEF full
  <1>3. \/ \E x \in VariableIds(tck) : full = <<"env", x>>
        \/ \E f \in tck.files : full = <<"env", f[1], f[2]>>
        \/ full \in StepNames(tck) \/ full \in Bindings \/ full \in RunNames
    BY <1>2, Zenon DEF ScopeOf
  <1>4. ASSUME NEW x \in VariableIds(tck), full = <<"env", x>> PROVE name \in HeldAt(k)
    <2>1. Len(full) = 2 /\ full[2] = x
      BY <1>4
    <2>2. Len(name) = 1 /\ name[1] = x
      <3>1. Len(name) = 1
        <4> DEFINE y == Len(full)
                   z == Len(name)
        <4>1. y = 2 /\ y = z + 1 /\ z \in Nat
          BY <1>1, <2>1
        <4> HIDE DEF y, z
        <4>2. z = 1
          BY <4>1
        <4> QED BY <4>2 DEF z
      <3>2. 1 \in 1..Len(name) /\ 1 + 1 = 2
        BY <3>1
      <3> QED BY <1>1, <2>1, <3>1, <3>2
    <2>3. name = <<x>>
      BY <2>2, PartsOf
    <2> QED BY <1>4, <2>3, Zenon DEF HeldAt
  <1>5. ASSUME NEW f \in tck.files, full = <<"env", f[1], f[2]>> PROVE name \in HeldAt(k)
    <2>1. Len(full) = 3 /\ full[2] = f[1] /\ full[3] = f[2]
      BY <1>5
    <2>2. Len(name) = 2 /\ name[1] = f[1] /\ name[2] = f[2]
      <3>1. Len(name) = 2
        <4> DEFINE y == Len(full)
                   z == Len(name)
        <4>1. y = 3 /\ y = z + 1 /\ z \in Nat
          BY <1>1, <2>1
        <4> HIDE DEF y, z
        <4>2. z = 2
          BY <4>1
        <4> QED BY <4>2 DEF z
      <3>2. 1 \in 1..Len(name) /\ 2 \in 1..Len(name) /\ 1 + 1 = 2 /\ 2 + 1 = 3
        BY <3>1
      <3> QED BY <1>1, <2>1, <3>1, <3>2
    <2>3. name = <<f[1], f[2]>>
      BY <2>2, PartsOf
    <2> QED BY <1>5, <2>3, Zenon DEF HeldAt, HeldFiles
  <1>6. full \notin StepNames(tck)
    <2> SUFFICES ASSUME full \in StepNames(tck) PROVE FALSE
      OBVIOUS
    <2>1. PICK e \in Range(StepsOf(tck)) : full \in {<<e.phase, e.step.id>>} \cup {<<e.phase, i>> : i \in InnerIds(e.step)}
      BY Zenon DEF StepNames
    <2>2. full[1] = e.phase
      BY <2>1
    <2>3. e.phase \in Range(Phases)
      BY StepsInOrder DEF Range
    <2>4. "env" \notin Range(Phases)
      BY DEF Range, Phases
    <2> QED BY <1>1, <2>2, <2>3, <2>4
  <1>7. full \notin Bindings /\ full \notin RunNames
    BY <1>1 DEF Bindings, Secret_, RunNames
  <1> QED BY <1>3, <1>4, <1>5, <1>6, <1>7

\* The parts of what is overlooked.
LEMMA OverlookedParts ==
  ASSUME NEW k \in DOMAIN StepsOf(tck)
  PROVE  /\ StepNames(tck) \ {<<e.phase, e.step.id>> : e \in Publishing(tck, k)} \subseteq OverlookedAt(k)
         /\ {<<"env", "apis", i>> : i \in Apis(tck)} \subseteq OverlookedAt(k)
  <1> DEFINE a == UNION {Returned(e) : e \in WrittenBefore(k) \ RunBefore(k)}
             b == StepNames(tck) \ {<<e.phase, e.step.id>> : e \in Publishing(tck, k)}
             c == {<<"env", "apis", i>> : i \in Apis(tck)}
  <1>1. OverlookedAt(k) = a \cup b \cup c
    <2> DEFINE u == Publishing(tck, k)
               v == WrittenBefore(k)
               names == WholeSteps
               are(w) == {<<e.phase, e.step.id>> : e \in w}
    <2>1. u = v
      BY EarlierSteps
    <2>2. StepNames(tck) = names
      BY NamesOfSteps
    <2>3. b = StepNames(tck) \ are(u)
      BY DEF b
    <2>4. OverlookedAt(k) = a \cup (names \ are(v)) \cup c
      BY DEF OverlookedAt
    <2> HIDE DEF a, b, c, u, v, names, are
    <2>5. b = names \ are(v)
      BY <2>1, <2>2, <2>3
    <2> QED BY <2>4, <2>5
  <1> HIDE DEF a, b, c
  <1>2. b \subseteq OverlookedAt(k) /\ c \subseteq OverlookedAt(k)
    BY <1>1
  <1> QED BY <1>2 DEF b, c

\* A name in scope as it is written.
LEMMA ScopeNames ==
  ASSUME NEW k \in DOMAIN StepsOf(tck), NEW S, NEW name \in Seq(S), name \in ScopeOf(tck),
         ~(name[1] = "env" /\ Len(name) = 2),
         name \notin {<<e.phase, e.step.id>> : e \in Publishing(tck, k)}
  PROVE  name \in HeldAt(k) \cup OverlookedAt(k)
  <1>1. \/ \E x \in VariableIds(tck) : name = <<"env", x>>
        \/ \E f \in tck.files : name = <<"env", f[1], f[2]>>
        \/ name \in StepNames(tck) \/ name \in Bindings \/ name \in RunNames
    BY Zenon DEF ScopeOf
  <1>2. ~\E x \in VariableIds(tck) : name = <<"env", x>>
    OBVIOUS
  <1>3. ASSUME NEW f \in tck.files, name = <<"env", f[1], f[2]>> PROVE name \in HeldAt(k) \cup OverlookedAt(k)
    <2>1. CASE f[1] # "apis"
      <3>1. name \in HeldFiles
        BY <1>3, <2>1, Zenon DEF HeldFiles
      <3> QED BY <3>1, Zenon DEF HeldAt
    <2>2. CASE f[1] = "apis"
      <3>1. f[2] \in Apis(tck)
        BY <2>2, Zenon DEF Apis
      <3>2. name = <<"env", "apis", f[2]>>
        BY <1>3, <2>2
      <3>3. name \in {<<"env", "apis", i>> : i \in Apis(tck)}
        BY <3>1, <3>2
      <3>4. {<<"env", "apis", i>> : i \in Apis(tck)} \subseteq OverlookedAt(k)
        BY OverlookedParts
      <3> QED BY <3>3, <3>4
    <2> QED BY <2>1, <2>2
  <1>4. CASE name \in StepNames(tck)
    <2>1. name \in StepNames(tck) \ {<<e.phase, e.step.id>> : e \in Publishing(tck, k)}
      BY <1>4
    <2>2. StepNames(tck) \ {<<e.phase, e.step.id>> : e \in Publishing(tck, k)} \subseteq OverlookedAt(k)
      BY OverlookedParts
    <2> QED BY <2>1, <2>2
  <1>5. CASE name \in Bindings \/ name \in RunNames
    BY <1>5, Zenon DEF HeldAt
  <1> QED BY <1>1, <1>2, <1>3, <1>4, <1>5

\* What a condition that has no problem names.
LEMMA ConditionNames ==
  ASSUME tck \in Docs, NEW k \in DOMAIN StepsOf(tck), NEW S, NEW name \in Seq(S), ~VariableProblem(tck, k, name)
  PROVE  name \in HeldAt(k) \cup OverlookedAt(k)
  <1> DEFINE from == {e \in Publishing(tck, k) : <<e.phase, e.step.id>> = Take(name, 2)}
  <1>1. CASE name[1] \in Range(Phases) /\ Len(name) > 2
    <2>1. Len(name) = 3 /\ \E e \in from : name[3] \in e.step.returns
      BY <1>1, Zenon DEF VariableProblem
    <2>2. PICK e \in Publishing(tck, k) : <<e.phase, e.step.id>> = Take(name, 2) /\ name[3] \in e.step.returns
      BY <2>1
    <2>3. name = <<name[1], name[2], name[3]>> /\ Take(name, 2) = <<name[1], name[2]>>
      BY <2>1, PartsOf
    <2>4. e.phase = name[1] /\ e.step.id = name[2]
      BY <2>2, <2>3
    <2>5. name = <<e.phase, e.step.id, name[3]>>
      BY <2>3, <2>4
    <2> QED BY <2>2, <2>5, PublishedNames
  <1>2. CASE ~(name[1] \in Range(Phases) /\ Len(name) > 2)
    <2>1. /\ ~(Len(name) = 2 /\ from # {})
          /\ \/ \E e \in Publishing(tck, k) : Len(name) = 1 /\ name[1] \in e.step.returns
             \/ <<"env">> \o name \in ScopeOf(tck)
             \/ name \in ScopeOf(tck) /\ ~(name[1] = "env" /\ Len(name) = 2)
      BY <1>2, Zenon DEF VariableProblem
    <2>2. ASSUME NEW e \in Publishing(tck, k), Len(name) = 1, name[1] \in e.step.returns
          PROVE name \in HeldAt(k) \cup OverlookedAt(k)
      <3>1. name = <<name[1]>>
        BY <2>2, PartsOf
      <3> QED BY <2>2, <3>1, PublishedNames
    <2>3. CASE <<"env">> \o name \in ScopeOf(tck)
      BY <2>3, EnvNames
    <2>4. CASE name \in ScopeOf(tck) /\ ~(name[1] = "env" /\ Len(name) = 2)
      <3>1. name \notin {<<e.phase, e.step.id>> : e \in Publishing(tck, k)}
        <4> SUFFICES ASSUME NEW e \in Publishing(tck, k), name = <<e.phase, e.step.id>> PROVE FALSE
          OBVIOUS
        <4>1. Len(name) = 2
          OBVIOUS
        <4>2. Take(name, 2) = name
          BY <4>1, PartsOf
        <4> QED BY <2>1, <4>1, <4>2
      <3> QED BY <2>4, <3>1, ScopeNames
    <2> QED BY <2>1, <2>2, <2>3, <2>4
  <1> QED BY <1>1, <1>2

\* A step of a run of an accepted test.
LEMMA PlayFits ==
  ASSUME WInv, PlayStep
  PROVE  AcceptedRuns'
  <1> DEFINE k == played'
             e == StepsOf(tck)[k]
             c == e.step.cond
             all == {e.step} \cup Deep(e.step)
  <1>1. /\ stage = "accepted" /\ played < Len(StepsOf(tck)) /\ k = played + 1
        /\ met' = {[kind |-> "misuse"] : x \in {s \in all : Misused(s, GivenNames) # {}}}
              \cup {[kind |-> "issued"] : x \in {s \in all : Misused(s, IssuedNames(k, s)) # {}}}
              \cup IF c.kind \in {"compare", "truthy"} /\ c.name \notin HeldAt(k)
                   THEN {[kind |-> IF c.name \in OverlookedAt(k) THEN "overlooked" ELSE "unheld"]} ELSE {}
    BY DEF PlayStep
  <1>2. k \in DOMAIN StepsOf(tck)
    <2>1. DOMAIN StepsOf(tck) = 1..Len(StepsOf(tck)) /\ Len(StepsOf(tck)) \in Nat /\ played \in Nat
      BY StepsInOrder DEF WInv
    <2> HIDE DEF k
    <2> QED BY <1>1, <2>1
  <1> HIDE DEF k
  <1>3. /\ Misplaced(e.step) = {} /\ ~ConditionProblem(tck, k)
        /\ \A v \in Range(tck.vars) : v.value # "credential"
    BY <1>1, <1>2, AcceptedFree DEF WInv
  <1>4. \A x \in all : Misused(x, GivenNames) = {}
    BY <1>3, NoMisuse
  <1>5. c.kind \in {"compare", "truthy"} => ~VariableProblem(tck, k, c.name)
    BY <1>3, Zenon DEF ConditionProblem
  <1>6. c.name \in Seq(Range(c.name))
    BY <1>2, CondNames DEF WInv
  <1>7. c.kind \in {"compare", "truthy"} => c.name \in HeldAt(k) \cup OverlookedAt(k)
    BY <1>2, <1>5, <1>6, ConditionNames DEF WInv
  <1> HIDE DEF e, c, all
  <1>8. {[kind |-> "misuse"] : x \in {s \in all : Misused(s, GivenNames) # {}}} = {}
    BY <1>4
  <1>9. met' \subseteq {[kind |-> "overlooked"], [kind |-> "issued"]}
    BY <1>1, <1>7, <1>8
  <1>10. [kind |-> "overlooked"].kind = "overlooked" /\ [kind |-> "issued"].kind = "issued" /\ [kind |-> "misuse"].kind = "misuse" /\ [kind |-> "unheld"].kind = "unheld"
    OBVIOUS
  <1> QED BY <1>9, <1>10 DEF AcceptedRuns

\* What validation accepts does not fail for its author's mistake, for any document: no step,
\* however deep, is handed a credential of a binding or of the manifest out of place
\* (_credential_references.py; those its own steps are issued are not known to it), and a condition
\* names what the run holds when the step starts or what _conditions.py overlooks.
THEOREM AcceptedAlwaysRuns == WSpec => []AcceptedRuns
  <1>1. WInit => WInv
    BY DEF WInit, WInv, AcceptedRuns
  <1>2. WInv /\ [WNext]_wVars => WInv'
    <2> SUFFICES ASSUME WInv, [WNext]_wVars PROVE WInv'
      OBVIOUS
    <2>1. CASE CheckTests
      BY <2>1 DEF CheckTests, WInv, AcceptedRuns
    <2>2. CASE CheckManifest
      <3>1. issues' = TestIssues(tck) \cup ManifestIssues(tck) /\ stage' = (IF Valid(issues') THEN "accepted" ELSE "refused")
            /\ UNCHANGED <<tck, played, met>>
        BY <2>2 DEF CheckManifest, WInv
      <3> QED BY <3>1 DEF WInv, AcceptedRuns
    <2>3. CASE PlayStep
      <3>1. AcceptedRuns'
        BY <2>3, PlayFits
      <3>2. played' = played + 1 /\ UNCHANGED <<tck, stage, issues>>
        BY <2>3 DEF PlayStep
      <3> QED BY <3>1, <3>2 DEF WInv
    <2>4. CASE UNCHANGED wVars
      BY <2>4 DEF wVars, WInv, AcceptedRuns
    <2> QED BY <2>1, <2>2, <2>3, <2>4 DEF WNext
  <1>3. WInv => AcceptedRuns
    BY DEF WInv
  <1> QED BY <1>1, <1>2, <1>3, PTL DEF WSpec
=============================================================================
