---------------------------- MODULE ModelPolicy ----------------------------
(***************************************************************************)
(* Which provider and which model a name stands for, and whether it may be *)
(* used: providers/registry.py and utils/model_restrictions.py.            *)
(*                                                                         *)
(* A policy is what the environment configures: allow (the *_ALLOWED_MODELS*)
(* of each provider), disabled (DISABLED_MODELS, pairs of a provider or    *)
(* None and a name) and preferred (PREFERRED_MODELS).  The restriction     *)
(* service keeps the allowlists in `restrictions', here st, and adds to    *)
(* them the canonical name of an alias whenever a query needs it; every    *)
(* operator that asks the service takes st, and Learn says what st becomes. *)
(***************************************************************************)
EXTENDS ModelRegistry, FiniteSetsExt

CONSTANTS Names,           \* model names, aliases included
          Priority,        \* the configured providers, by priority
          AcceptsAny,      \* the provider of unregistered vendor/model names
          Vendored,        \* those names
          Tagged,          \* names with a colon
          Compatible,      \* the OpenAI-compatible providers
          Gemini, Pro, Flash,  \* the provider that chooses by family, and the families
          Ranking          \* other provider with preferences -> category -> its names

ProviderSet == ToSet(Priority)

ASSUME PolicyAssumption ==
    /\ Priority \in Seq(ProviderSet) /\ ProviderSet \subseteq DOMAIN Manifest
    /\ None \notin Names \cup ProviderSet
    /\ \A p \in ProviderSet : DOMAIN Catalog[p] \cup DOMAIN Deployed[p] \subseteq Names
    /\ Vendored \subseteq Names /\ Tagged \subseteq Names
    \* One router takes names that no manifest has; deployments are not its business.
    /\ \A p, q \in AcceptsAny : p = q
    /\ AcceptsAny \cap Deployers = {}

Canonicals(p) == {Catalog[p][n] : n \in DOMAIN Catalog[p]}

-----------------------------------------------------------------------------
(* ModelRestrictionService. *)

IsAllowlisted(st, p, canonical, original) ==
    \/ st[p] = {}
    \/ {canonical, original} \cap st[p] # {}
    \/ \E entry \in st[p] : ResolveIn(p, entry) \in {canonical, original}

\* Every name that is asked for is kept, allowed or not.
LearnUnasked(st, queries) ==
    [p \in DOMAIN st |-> st[p] \cup {q[2] : q \in queries}]

\* The canonical name found behind an alias is kept in the allowlist.  It stands for
\* itself, so that one question never prepares the answer to another.
Learn(st, queries) ==
    [p \in DOMAIN st |->
        st[p] \cup {c \in {ResolveIn(p, entry) : entry \in st[p]} : <<p, c>> \in queries}]

\* Denies compared as they are written.
IsDisabledVerbatim(policy, p, name) == \E d \in policy.disabled : d \in {<<None, name>>, <<p, name>>}

IsDisabled(policy, p, name) ==
    LET identity(n) == IF ResolveIn(p, n) = None THEN n ELSE ResolveIn(p, n) IN
    \E d \in policy.disabled : d[1] \in {None, p} /\ identity(d[2]) = identity(name)

IsAllowed(policy, st, p, canonical, original) ==
    IsAllowlisted(st, p, canonical, original) /\ ~IsDisabled(policy, p, canonical)

HasRestrictions(policy, st, p) ==
    st[p] # {} \/ \E d \in policy.disabled : d[1] \in {None, p}

-----------------------------------------------------------------------------
(* Identity: the first provider whose catalog has the name. *)

NoIdentity == [provider |-> None, model |-> None]

\* Capabilities exist for catalog names and, at one provider, for vendor/model names.
Supports(p, name) == ResolveIn(p, name) # None \/ (p \in AcceptsAny /\ name \in Vendored)

CanonicalAt(p, name) == IF ResolveIn(p, name) = None THEN name ELSE ResolveIn(p, name)

\* OpenAI-compatible providers check the configured allowlist once more, in a copy of
\* their own that learns nothing.
EnsureModelAllowed(policy, st, p, canonical, requested) ==
    /\ IsAllowed(policy, st, p, canonical, requested)
    /\ p \in Compatible => \/ policy.allow[p] = {}
                            \/ {canonical, requested} \cap policy.allow[p] # {}
                            \/ \E entry \in policy.allow[p] : ResolveIn(p, entry) = canonical

\* get_capabilities succeeds.
Validates(policy, st, p, name) ==
    Supports(p, name) /\ EnsureModelAllowed(policy, st, p, CanonicalAt(p, name), name)

FirstOf(providers) ==
    LET places == {i \in DOMAIN Priority : Priority[i] \in providers}
    IN IF places = {} THEN None ELSE Priority[Min(places)]

IdentityAt(p, name) == IF p = None THEN NoIdentity ELSE [provider |-> p, model |-> CanonicalAt(p, name)]

CatalogIdentities == [name \in Names \cup {None} |->
    IdentityAt(FirstOf({p \in ProviderSet : ResolveIn(p, name) # None}), name)]

CatalogIdentity(name) == CatalogIdentities[name]

\* A catalog entry wins whatever the policy says of it.  Tagged names never fall back.
Identity(policy, st, name) ==
    IF CatalogIdentity(name) # NoIdentity \/ name \in Tagged THEN CatalogIdentity(name)
    ELSE IdentityAt(FirstOf({p \in ProviderSet : Validates(policy, st, p, name)}), name)

IfServed(policy, st, id) ==
    IF id # NoIdentity /\ Validates(policy, st, id.provider, id.model) THEN id ELSE NoIdentity

\* get_provider_for_model
Routed(policy, st, name) == IfServed(policy, st, Identity(policy, st, name))

\* Models off by default are discovered if configured by their canonical name.
IsDiscoverable(policy, p, canonical) ==
    \/ CapabilitiesOf(p, canonical).enabled
    \/ canonical \in policy.allow[p]
    \/ /\ canonical \in ToSet(policy.preferred)
       /\ CatalogIdentity(canonical) = [provider |-> p, model |-> canonical]

-----------------------------------------------------------------------------
(* What is advertised, and what auto mode chooses. *)

\* list_models: the provider of vendor/model names hides aliases from a restricted list.
Listed(policy, st, p) ==
    {n \in DOMAIN Catalog[p] :
        LET c == Catalog[p][n] IN
        /\ IsAllowed(policy, st, p, c, c) /\ IsDiscoverable(policy, p, c)
        /\ p \in AcceptsAny /\ HasRestrictions(policy, st, p) => n = c}

AllQueries == UNION {{<<p, c>> : c \in Canonicals(p)} : p \in ProviderSet}

\* Listing asks the service about every model.
Learned(st) == Learn(st, AllQueries)

\* The names shown for a provider with restrictions are those of its allowlist, or
\* those it lists when none of the allowlist is usable.
Displayed(policy, st, p) ==
    IF \E n \in st[p] : Validates(policy, st, p, n)
    THEN {n \in st[p] : Validates(policy, st, p, n)}
    ELSE Listed(policy, st, p)

IsReached(policy, id) == id # NoIdentity /\ IsDiscoverable(policy, id.provider, id.model)

AvailableAfter(policy, learned) ==
    {n \in UNION {Displayed(policy, learned, p) : p \in ProviderSet} :
        IsReached(policy, Routed(policy, learned, n))}

\* get_available_models: a name is shown with the provider a call would reach.
Available(policy, st) == AvailableAfter(policy, Learned(st))

\* Where names lead.
Routes(policy, st) == [n \in Names |-> Routed(policy, st, n)]

\* get_preferred_model_choices: the first of them that may be used.
Preference(policy, st) ==
    LET usable == {i \in DOMAIN policy.preferred :
                      IsReached(policy, IfServed(policy, st, CatalogIdentity(policy.preferred[i])))}
    IN IF usable = {} THEN None ELSE policy.preferred[Min(usable)]

\* _get_allowed_models_for_provider
EligibleAfter(policy, learned) == [p \in ProviderSet |->
    {n \in Listed(policy, learned, p) :
        IsAllowed(policy, learned, p, n, n) /\ Routed(policy, learned, n).provider = p}]

\* What a provider would rather use, most wanted first: for Gemini families of models,
\* for the others a list of names; what follows the last tier is whatever is allowed.
GeminiTiers(category) ==
    LET thinking == {n \in Canonicals(Gemini) : CapabilitiesOf(Gemini, n).thinks} IN
    (IF category = "extended_reasoning" THEN <<Pro \cap thinking, thinking, Pro>> ELSE << >>)
      \o <<Flash, Pro>>

RankedTiers(p, category) == [i \in DOMAIN Ranking[p][category] |-> {Ranking[p][category][i]}]

FirstTier(tiers, eligible) ==
    LET i == SelectInSeq(tiers, LAMBDA tier : tier \cap eligible # {}) IN tiers[i] \cap eligible

Preferred(p, category, eligible) ==
    FirstTier((IF p = Gemini THEN GeminiTiers(category) ELSE RankedTiers(p, category)) \o <<eligible>>,
              eligible)

\* A preference gives its canonical name only if it leads back to the same identity.
PreferredName(name) ==
    LET id == CatalogIdentity(name) IN IF CatalogIdentity(id.model) = id THEN id.model ELSE name

\* The choice of the first provider that makes one, or a model of the first that has any.
FirstChoice(eligible, category) ==
    LET having == {p \in ProviderSet : eligible[p] # {}}
        chooser == FirstOf(having \cap ({Gemini} \cup DOMAIN Ranking))
    IN CASE chooser # None -> Preferred(chooser, category, eligible[chooser])
         [] chooser = None /\ having # {} -> eligible[FirstOf(having)]
         [] OTHER -> {}

FallbacksAmong(preference, eligible, category) ==
    IF preference # None THEN {PreferredName(preference)} ELSE FirstChoice(eligible, category)

\* get_preferred_fallback_model
Fallbacks(policy, st, category) ==
    FallbacksAmong(Preference(policy, st), EligibleAfter(policy, Learned(st)), category)
=============================================================================
