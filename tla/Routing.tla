------------------------------- MODULE Routing ------------------------------
(***************************************************************************)
(* How a request gets its list of attempts, while the model policy is      *)
(* reloaded, the capability index refreshed and other requests move the    *)
(* session affinity (internal/router/router.go and the router_*.go files   *)
(* of the planner, the provider registry, the capability index, context    *)
(* windows, ranking, affinity and traces).                                 *)
(*                                                                         *)
(* The live policy is in several variables that have locks of their own or *)
(* are set one at a time; each read or write of one is a step.  A version  *)
(* of the policy file is a number; a variable of the live policy holds the *)
(* version it was loaded from, or Nil.  Scores, pressure and latency are   *)
(* left open: the providers may be ranked in every order.  The attempts    *)
(* themselves are in Chain; here each one succeeds or fails.               *)
(*                                                                         *)
(* A definition that no action uses, placed before the one it resembles,   *)
(* is a deliberate fault that shows that a property can fail.              *)
(***************************************************************************)
EXTENDS Naturals, Sequences, FiniteSets, Functions

CONSTANTS
    Requests,
    Sessions,
    SessionOf,     \* SessionOf[r]: the session that request r belongs to
    Kinds,         \* what may be asked: [profile, images, tools, path, pin, big, effort]
    Config,        \* Config[v]: version v of the policy; Config[1] is compiled in
    Bare,          \* model names without a vendor prefix
    Strict,        \* PROXY_STRICT_PROFILE_NAMES
    RequestTimeout, MaxProfileTimeout,
    Snapshots,     \* capabilities OpenRouter may publish, by model
    Credentialed,  \* the providers there is a key for
    ChatOnly,      \* the providers without the messages format
    OpenRouter,    \* the default executor
    Reloaders,     \* SIGHUP and POST /admin/reload
    MaxAttempts, MaxPins, TTL

Versions == DOMAIN Config
Nil == 0
None == "none"
AnyModel == "auto"    \* the request leaves the model to the proxy
Unset == "unset"
Own == "own"          \* the body says itself how to reason
Efforts == {"low", "medium", "high"}
NoRoute == <<"none", "none">>

(* The models, and the provider and model pairs, of all versions of the    *)
(* policy.                                                                 *)
Models == UNION {UNION {Config[v].chain[p] : p \in DOMAIN Config[v].chain} : v \in Versions}
Routes == UNION {UNION {Config[v].targets[p] : p \in DOMAIN Config[v].targets} : v \in Versions}

ASSUME RoutingAssumption ==
    /\ Len(Config) \in Nat \ {0} /\ Versions = 1 .. Len(Config)
    /\ IsFiniteSet(Models) /\ IsFiniteSet(Routes)
    /\ SessionOf \in [Requests -> Sessions]
    /\ MaxAttempts \in Nat \ {0} /\ MaxPins \in Nat \ {0} /\ TTL \in Nat
    /\ RequestTimeout \in Nat \ {0} /\ MaxProfileTimeout \in Nat

VARIABLES
    disk,      \* version of the policy file
    live,      \* [policy, targets, reasoning, timeouts, windows, caps]: versions in use
    auto,      \* the published capabilities last fetched
    reload,    \* reload[k]: [pc, v]
    mixed,     \* history: the file changed, or another reload ran, during a reload
    pins,      \* the affinity store, most recently used first
    req        \* req[r]: a request

vars == <<disk, live, auto, reload, mixed, pins, req>>
config == <<disk, live, auto, reload, mixed>>

Resting == [pc |-> "idle", v |-> Nil]
Quiet == [pc |-> "idle", kind |-> None, needs |-> {}, profile |-> None,
          targets |-> Nil, could |-> {}, list |-> <<>>, pref |-> NoRoute, again |-> NoRoute,
          wait |-> RequestTimeout, body |-> None]
Ended == [Quiet EXCEPT !.pc = "end"]   \* what its handler knew is forgotten

Init ==
    /\ disk = 1
    /\ live = [policy |-> 1, targets |-> 1, reasoning |-> 1, timeouts |-> 1,
               windows |-> 1, caps |-> 1]
    /\ auto = <<>>
    /\ reload = [k \in Reloaders |-> Resting]
    /\ mixed = FALSE
    /\ pins = <<>>
    /\ req = [r \in Requests |-> Quiet]

----------------------------------------------------------------------------
(* ReloadModelPolicy.  The file is read at the start, ... *)
Reloading(k) == reload[k].pc # "idle"
Edit ==
    /\ disk < Len(Config)
    /\ disk' = disk + 1
    /\ mixed' = (mixed \/ \E k \in Reloaders : Reloading(k))
    /\ UNCHANGED <<live, auto, reload, pins, req>>

BeginReload(k) ==
    /\ ~Reloading(k)
    /\ reload' = [reload EXCEPT ![k] = [pc |-> "policy", v |-> disk]]
    /\ mixed' = (mixed \/ \E j \in Reloaders : Reloading(j))
    /\ UNCHANGED <<disk, live, auto, pins, req>>

(* ... refused when strict validation fails, ... *)
RefuseReload(k) ==
    /\ reload[k].pc = "policy"
    /\ reload' = [reload EXCEPT ![k] = Resting]
    /\ UNCHANGED <<disk, live, auto, mixed, pins, req>>

(* ... and read again for each of the further parts.  setModelPolicyConfig *)
(* forgets the parts that hang off the profiles; ...                       *)
Swapped(old, v) == [old EXCEPT !.policy = v, !.targets = Nil, !.reasoning = Nil,
                                 !.timeouts = Nil]

Part == [targets |-> "reasoning", reasoning |-> "timeouts", timeouts |-> "windows",
         windows |-> "caps", caps |-> "idle"]

SetPolicy(k) ==
    /\ reload[k].pc = "policy"
    /\ live' = Swapped(live, reload[k].v)
    /\ reload' = [reload EXCEPT ![k].pc = "targets"]
    /\ UNCHANGED <<disk, auto, mixed, pins, req>>

(* ... setProviderProfiles, setReasoningProfiles and setProfileTimeouts,   *)
(* the context windows and setOverrides follow.                            *)
LoadedNoCaps(part) == IF part = "caps" THEN live[part] ELSE disk

Loaded(part) == disk

SetPart(k) ==
    /\ reload[k].pc \in DOMAIN Part
    /\ live' = [live EXCEPT ![reload[k].pc] = Loaded(reload[k].pc)]
    /\ reload' = [reload EXCEPT ![k] = IF reload[k].pc = "caps" THEN Resting
                                       ELSE [pc |-> Part[reload[k].pc], v |-> reload[k].v]]
    /\ UNCHANGED <<disk, auto, mixed, pins, req>>

(* What the loaders make of a version of the file: an effort that is not   *)
(* one and a timeout out of range are dropped; the windows and the         *)
(* overrides of the compiled-in policy stand where the file has none.      *)
parseReasoningProfiles(v) ==
    LET raw == IF v = Nil THEN <<>> ELSE Config[v].reasoning
    IN [p \in {x \in DOMAIN raw : raw[x] \in Efforts} |-> raw[p]]

parseProfileTimeouts(v) ==
    LET raw == IF v = Nil THEN <<>> ELSE Config[v].timeouts
    IN [p \in {x \in DOMAIN raw : raw[x] \in 1 .. MaxProfileTimeout} |-> raw[p]]

Over(f, g) == [x \in DOMAIN f \cup DOMAIN g |-> IF x \in DOMAIN f THEN f[x] ELSE g[x]]

loadContextWindows(v) == Over(Config[v].windows, Config[1].windows)

loadCapabilityOverrides(v) == Over(Config[v].caps, Config[1].caps)

(* fetchOpenRouterCapabilities: a list without models is an error, and     *)
(* startCapabilityRefresh keeps what there is then.                        *)
Fetched == {s \in Snapshots : DOMAIN s # {}}

Refresh ==
    /\ auto' \in Fetched
    /\ auto' # auto
    /\ UNCHANGED <<disk, live, reload, mixed, pins, req>>

----------------------------------------------------------------------------
(* The capability index: the published capabilities, changed by the        *)
(* overrides of the policy file (rebuildLocked).                           *)
Overrides == loadCapabilityOverrides(live.caps)
Known(m) == m \in DOMAIN auto \cup DOMAIN Overrides
Can(m) ==
    LET published == IF m \in DOMAIN auto THEN auto[m] ELSE {}
    IN IF m \in DOMAIN Overrides
       THEN (published \cup Overrides[m].plus) \ Overrides[m].minus
       ELSE published

Satisfies(m, needs) == needs = {} \/ (Known(m) /\ needs \subseteq Can(m))

Goto(r, pc) == req' = [req EXCEPT ![r].pc = pc]
With(r, could, pc) == req' = [req EXCEPT ![r].pc = pc, ![r].could = could, ![r].targets = Nil]
End(r) == req' = [req EXCEPT ![r] = Ended]

capsRequired(kind) == (IF kind.images THEN {"vision"} ELSE {})
                      \cup (IF kind.tools THEN {"tools"} ELSE {})

(* determineProfile: images go to the vision chain when it can serve them. *)
ServesVision(chain, needs) == \E m \in chain : ~Known(m) \/ Satisfies(m, needs)

Profile(kind) ==
    LET chains == Config[live.policy].chain
        chosen == IF /\ kind.images /\ "vision" \in DOMAIN chains
                     /\ ServesVision(chains["vision"], capsRequired(kind))
                  THEN "vision" ELSE kind.profile
    IN IF chosen \in DOMAIN chains THEN chosen ELSE Config[live.policy].default

(* rejectUnknownProfile: under strict names, a bare name that no chain has *)
(* is refused.                                                             *)
Unknown(name) ==
    LET chains == Config[live.policy].chain
    IN name \in Bare /\ name \notin DOMAIN chains \cup UNION {chains[p] : p \in DOMAIN chains}

(* RouteRequestWithProvider up to dispatchChain. *)
Arrive(r) ==
    /\ req[r].pc = "idle"
    /\ \E kind \in Kinds :
          req' = [req EXCEPT ![r] =
                    IF Strict /\ Unknown(kind.pin) THEN Ended
                    ELSE [Quiet EXCEPT !.pc = "gate", !.kind = kind,
                                       !.needs = capsRequired(kind), !.profile = Profile(kind)]]
    /\ UNCHANGED <<config, pins>>

(* A pinned model that cannot do what the request needs is refused. *)
Gate(r) ==
    /\ req[r].pc = "gate"
    /\ IF req[r].kind.pin # AnyModel /\ ~Satisfies(req[r].kind.pin, req[r].needs)
       THEN End(r) ELSE Goto(r, "targets")
    /\ UNCHANGED <<config, pins>>

(* planModelAttempts reads the provider profiles, ... *)
ReadTargets(r) ==
    /\ req[r].pc = "targets"
    /\ req' = [req EXCEPT ![r].pc = "plan", ![r].targets = live.targets]
    /\ UNCHANGED <<config, pins>>

(* ... and then the model policy.  The profile's provider and model pairs  *)
(* are the plan, unless there are none or the request names a model: then  *)
(* the models of the chain go to the default executor.  (The requested     *)
(* model joins the chain that the policy library selects; a default that   *)
(* is no profile, which only strict validation refuses, has an empty one.) *)
(* The order of the plan does not matter here, since any ranking may       *)
(* follow.                                                                 *)
Chain(v, q) ==
    LET chains == Config[v].chain
        selected == IF q.profile \in DOMAIN chains THEN q.profile ELSE Config[v].default
    IN (UNION {chains[p] : p \in {selected} \cap DOMAIN chains}) \cup ({q.kind.pin} \ {AnyModel})

Targets(v, profile) ==
    IF v # Nil /\ profile \in DOMAIN Config[v].targets
    THEN Config[v].targets[profile] ELSE {}

Plan(tv, pv, q) ==
    IF Targets(tv, q.profile) # {} /\ q.kind.pin = AnyModel
    THEN Targets(tv, q.profile)
    ELSE {OpenRouter} \X Chain(pv, q)

(* filterConfiguredAttempts *)
Configured(S, path) ==
    {a \in S : a[1] \in Credentialed /\ ~(path = "messages" /\ a[1] \in ChatOnly)}

MakePlan(r) ==
    /\ req[r].pc = "plan"
    /\ With(r, Configured(Plan(req[r].targets, live.policy, req[r]), req[r].kind.path),
            IF req[r].needs = {} THEN "fit" ELSE "caps")
    /\ UNCHANGED <<config, pins>>

(* applyCapabilityFilter *)
FilterCapable(r) ==
    /\ req[r].pc = "caps"
    /\ LET able == {a \in req[r].could : Satisfies(a[2], req[r].needs)}
       IN With(r, able, IF able = {} THEN "rescue" ELSE "fit")
    /\ UNCHANGED <<config, pins>>

(* capabilityRescue: whatever the configured profiles have that is able,   *)
(* through the credential and format gates again.                          *)
Pool ==
    LET profiles == IF live.targets = Nil THEN <<>> ELSE Config[live.targets].targets
        chains == Config[live.policy].chain
    IN IF DOMAIN profiles # {}
       THEN UNION {profiles[p] : p \in DOMAIN profiles}
       ELSE {OpenRouter} \X UNION {chains[p] : p \in DOMAIN chains}

RegatedNot(S, path) == S

Regated(S, path) == Configured(S, path)

Rescue(r) ==
    /\ req[r].pc = "rescue"
    /\ LET able == {a \in Pool : Satisfies(a[2], req[r].needs)}
           left == Regated(able, req[r].kind.path)
       IN IF left = {} THEN End(r) ELSE With(r, left, "fit")
    /\ UNCHANGED <<config, pins>>

(* filterAvailableAttempts, of which any part may be cooling, and          *)
(* filterContextFit; nothing left is an answer too.                        *)
Fits(a, kind) ==
    LET windows == loadContextWindows(live.windows)
    IN kind.big /\ a \in DOMAIN windows => windows[a] # "small"

Fit(r) ==
    /\ req[r].pc = "fit"
    /\ \E up \in SUBSET req[r].could :
         LET left == {a \in up : Fits(a, req[r].kind)}
         IN IF left = {} THEN End(r) ELSE With(r, left, "promote")
    /\ UNCHANGED <<config, pins>>

----------------------------------------------------------------------------
(* affinityStore, a list of entries with the most recently used in front.  *)
(* preferred drops an entry that has expired and renews one that it        *)
(* returns; pin evicts the last one.                                       *)
At(s) == {i \in DOMAIN pins : pins[i].session = s}
Entry(s) == CHOOSE i \in At(s) : TRUE
Fresh(s) == At(s) # {} /\ pins[Entry(s)].age <= TTL
Route(s) == IF Fresh(s) THEN pins[Entry(s)].route ELSE NoRoute

Drop(list, i) == SubSeq(list, 1, i - 1) \o SubSeq(list, i + 1, Len(list))

Without(s) == IF At(s) = {} THEN pins ELSE Drop(pins, Entry(s))
Foremost(s, a) == <<[session |-> s, route |-> a, age |-> 0]>> \o Without(s)
Looked(s) == IF Fresh(s) THEN Foremost(s, Route(s)) ELSE Without(s)

PinnedKeepAll(s, a) == Foremost(s, a)

Pinned(s, a) ==
    IF Len(Foremost(s, a)) <= MaxPins THEN Foremost(s, a)
    ELSE SubSeq(Foremost(s, a), 1, MaxPins)
Forgotten(s, a) == IF At(s) # {} /\ pins[Entry(s)].route = a THEN Without(s) ELSE pins

Tick ==
    /\ \E i \in DOMAIN pins : pins[i].age <= TTL
    /\ pins' = [i \in DOMAIN pins |->
                  [pins[i] EXCEPT !.age = IF @ > TTL THEN @ ELSE @ + 1]]
    /\ UNCHANGED <<config, req>>

(* quotaRankAndReserve.  The attempts are ranked by score and the route of *)
(* the session is moved to the front (applySessionAffinity); ...           *)
PromoteNothing(list, a) == list

Promote(list, a) ==
    IF a \notin Range(list) THEN list
    ELSE LET i == CHOOSE n \in DOMAIN list : list[n] = a
         IN [n \in DOMAIN list |-> IF n = 1 THEN a
                                   ELSE IF n <= i THEN list[n - 1] ELSE list[n]]

Lists(S) == Bijection(1 .. Cardinality(S), S)

Order(r) ==
    /\ req[r].pc = "promote"
    /\ \E ranked \in Lists(req[r].could) :
          req' = [req EXCEPT ![r].pc = "rank", ![r].could = {},
                             ![r].pref = Route(SessionOf[r]),
                             ![r].list = Promote(ranked, Route(SessionOf[r]))]
    /\ pins' = Looked(SessionOf[r])
    /\ UNCHANGED config

(* ... the affinity is asked again, the attempts that do not fit a quota   *)
(* are left out, the others grouped by provider, the groups sorted - the   *)
(* one of the session's route first - and interleaved: an attempt goes by  *)
(* its depth in its group, and then by the turn of its group.              *)
Depth(list, left, i) == Cardinality({j \in left : j < i /\ list[j][1] = list[i][1]})
Turn(list, order, i) == CHOOSE g \in DOMAIN order : order[g] = list[i][1]

Sorted(S, before) ==
    CHOOSE s \in Lists(S) :
        \A m, n \in 1 .. Cardinality(S) : m < n => <<s[m], s[n]>> \in before

Concatenated(list, left, order) ==
    LET before == {p \in left \X left :
                     \/ Turn(list, order, p[1]) < Turn(list, order, p[2])
                     \/ list[p[1]][1] = list[p[2]][1] /\ p[1] < p[2]}
    IN [n \in 1 .. Cardinality(left) |-> list[Sorted(left, before)[n]]]

Sooner(list, left, order) ==
    {p \in left \X left :
       \/ Depth(list, left, p[1]) < Depth(list, left, p[2])
       \/ /\ Depth(list, left, p[1]) = Depth(list, left, p[2])
          /\ Turn(list, order, p[1]) < Turn(list, order, p[2])}

Interleaved(list, left, order) ==
    LET sorted == Sorted(left, Sooner(list, left, order))
    IN [n \in 1 .. Cardinality(left) |-> list[sorted[n]]]

Rank(r) ==
    LET list == req[r].list
        again == Route(SessionOf[r])
    IN /\ req[r].pc = "rank"
       /\ \E left \in SUBSET DOMAIN list :
            \E order \in Lists({list[i][1] : i \in left}) :
              /\ again \in {list[i] : i \in left} => order[1] = again[1]
              /\ IF left = {} THEN End(r)
                 ELSE req' = [req EXCEPT ![r].pc = "reserve",
                                         ![r].list = Interleaved(list, left, order),
                                         ![r].again = again]
       /\ pins' = Looked(SessionOf[r])
       /\ UNCHANGED config

(* The attempt at the front must get its quota; those that lose the race   *)
(* for it are dropped.  What is left is cut to MaxAttempts.                *)
Kept(list) == SubSeq(list, 1, IF Len(list) < MaxAttempts THEN Len(list) ELSE MaxAttempts)

(* attemptTimeoutForProfile only shrinks the time an attempt is given. *)
Wait(profile) ==
    LET own == parseProfileTimeouts(live.timeouts)
    IN IF profile \in DOMAIN own /\ own[profile] < RequestTimeout
       THEN own[profile] ELSE RequestTimeout

Reserve(r) ==
    /\ req[r].pc = "reserve"
    /\ \E n \in 0 .. Len(req[r].list) :
         LET left == SubSeq(req[r].list, n + 1, Len(req[r].list))
         IN IF left = <<>> THEN End(r)
            ELSE req' = [req EXCEPT ![r].pc = "try", ![r].list = Kept(left),
                                    ![r].wait = Wait(req[r].profile),
                                    ![r].pref = NoRoute, ![r].again = NoRoute]
    /\ UNCHANGED <<config, pins>>

(* requestBodyForAttempt: the effort the request asks for, or else its     *)
(* profile's, in the form the model takes, if it takes one.  Every attempt *)
(* starts from the request as it came, and a body that has a field for it  *)
(* already is left alone.                                                  *)
resolveReasoningEffort(q) ==
    LET own == parseReasoningProfiles(live.reasoning)
    IN IF q.kind.effort # Unset THEN q.kind.effort
       ELSE IF q.profile \in DOMAIN own THEN own[q.profile] ELSE Unset

Shape(q) ==
    IF q.kind.effort = Own \/ resolveReasoningEffort(q) = Unset THEN None
    ELSE IF Satisfies(q.list[1][2], {"effort"}) THEN "effort"
    ELSE IF Satisfies(q.list[1][2], {"reasoning"}) THEN "reasoning" ELSE None

Build(r) ==
    /\ req[r].pc = "try"
    /\ req' = [req EXCEPT ![r].pc = "sent", ![r].body = Shape(req[r])]
    /\ UNCHANGED <<config, pins>>

(* An attempt succeeds and becomes the session's route, or fails. *)
Succeed(r) ==
    /\ req[r].pc = "sent"
    /\ pins' = Pinned(SessionOf[r], req[r].list[1])
    /\ End(r)
    /\ UNCHANGED config

Fail(r) ==
    /\ req[r].pc = "sent"
    /\ pins' = Forgotten(SessionOf[r], req[r].list[1])
    /\ IF Len(req[r].list) = 1 THEN End(r)
       ELSE req' = [req EXCEPT ![r].list = Tail(@), ![r].pc = "try", ![r].body = None]
    /\ UNCHANGED config

Finish(r) ==
    /\ req[r].pc = "end"
    /\ req' = [req EXCEPT ![r] = Quiet]
    /\ UNCHANGED <<config, pins>>

(* Requests of other clients look their sessions up, pin and forget. *)
Elsewhere ==
    /\ \E s \in Sessions :
         \/ pins' = Looked(s)
         \/ \E a \in Routes : pins' = Pinned(s, a) \/ pins' = Forgotten(s, a)
    /\ UNCHANGED <<config, req>>

Next ==
    \/ Edit \/ Refresh \/ Tick \/ Elsewhere
    \/ \E k \in Reloaders : BeginReload(k) \/ RefuseReload(k) \/ SetPolicy(k) \/ SetPart(k)
    \/ \E r \in Requests :
          Arrive(r) \/ Gate(r) \/ ReadTargets(r) \/ MakePlan(r) \/ FilterCapable(r)
          \/ Rescue(r) \/ Fit(r) \/ Order(r) \/ Rank(r) \/ Reserve(r)
          \/ Build(r) \/ Succeed(r) \/ Fail(r) \/ Finish(r)

Spec == Init /\ [][Next]_vars

----------------------------------------------------------------------------
Attempts == Routes \cup ({OpenRouter} \X (Models \cup ({k.pin : k \in Kinds} \ {AnyModel})))

(* The parts of the live policy are versions of the file, only the parts   *)
(* setModelPolicyConfig drops can be missing, and the affinity store holds *)
(* one route for a session and never more than maxEntries.  No profile     *)
(* gives an attempt more time than the request has.                        *)
TypeOK ==
    /\ disk \in Versions
    /\ live \in [policy : Versions, targets : Versions \cup {Nil},
                 reasoning : Versions \cup {Nil}, timeouts : Versions \cup {Nil},
                 windows : Versions, caps : Versions]
    /\ Len(pins) <= MaxPins
    /\ \A i, j \in DOMAIN pins : pins[i].session = pins[j].session => i = j
    /\ \A r \in Requests : /\ req[r].wait \in 1 .. RequestTimeout
                           /\ req[r].could \subseteq Attempts
                           /\ Range(req[r].list) \subseteq Attempts

(* The gates of dispatchChain, with reloads and refreshes at any moment:   *)
(* every attempt of the final list has a credential and speaks the wire    *)
(* format of the request, and its model is one that the published list or  *)
(* some override declares able to do all the request needs - also when the *)
(* list comes from capabilityRescue.  And an attempt is sent a reasoning   *)
(* field only in a form that its own model may take.                       *)
MayBeAble(m, c) ==
    \/ \E a \in Snapshots : m \in DOMAIN a /\ c \in a[m]
    \/ \E v \in Versions : m \in DOMAIN Config[v].caps /\ c \in Config[v].caps[m].plus

OnlyEligible ==
    \A r \in Requests :
        /\ req[r].pc \in {"promote", "rank", "reserve", "try", "sent"} =>
            \A a \in req[r].could \cup Range(req[r].list) :
                /\ a \in Configured({a}, req[r].kind.path)
                /\ \A c \in req[r].needs : MayBeAble(a[2], c)
        /\ req[r].pc = "sent" /\ req[r].body # None =>
            MayBeAble(req[r].list[1][2], req[r].body)

(* The interleaving of quotaRankAndReserve: however many attempts at the   *)
(* front lose the race for their quota, what MaxAttempts leaves of the     *)
(* rest has a second provider whenever the rest has one.                   *)
KeepsAlternative ==
    MaxAttempts > 1 =>
      \A r \in Requests : req[r].pc = "reserve" =>
        \A n \in DOMAIN req[r].list :
            LET rest == SubSeq(req[r].list, n, Len(req[r].list))
            IN (\E a, b \in Range(rest) : a[1] # b[1])
                 => \E a, b \in Range(Kept(rest)) : a[1] # b[1]

(* Session affinity: a session whose route was the same at both looks of   *)
(* the ranking and is still in the running is served by that route first.  *)
RouteGoesFirst ==
    \A r \in Requests :
        LET q == req[r]
        IN q.pc = "reserve" /\ q.pref = q.again /\ q.pref \in Range(q.list)
             => q.list[1] = q.pref

(* ReloadModelPolicy: after reloads that neither overlapped one another    *)
(* nor an edit of the file, all parts of the live policy come from one     *)
(* version of the file.                                                    *)
Whole ==
    \A f, g \in DOMAIN live : live[f] = live[g]

ReloadedWhole == mixed \/ (\E k \in Reloaders : Reloading(k)) \/ Whole

(* ReloadModelPolicy "atomically swaps it in": a request is planned from   *)
(* one version of the policy.                                              *)
PlanFromOneVersion ==
    \A r \in Requests :
        LET q == req[r]
        IN q.pc = "caps" \/ (q.pc = "fit" /\ q.needs = {})
             => \E v \in Versions : q.could = Configured(Plan(v, v, q), q.kind.path)
=============================================================================
