----------------------------- MODULE ModelAdvice -----------------------------
(***************************************************************************)
(* What clients are told about models: the listmodels tool, the model      *)
(* field of a tool's schema and the messages of a refusal                  *)
(* (tools/listmodels.py and tools/shared/base_tool.py).  Ranks, of which   *)
(* the schema prints the best five, are left out.                          *)
(***************************************************************************)
EXTENDS ModelPolicy

CONSTANT AutoMode

\* Without a default that is served, schemas ask the client to choose.
IsEffectiveAutoMode(policy, st) ==
    policy.default = AutoMode \/ Routed(policy, st, policy.default) = NoIdentity

\* What each provider lists, and the advertised names that it serves.
AllListed(policy, st) == [p \in ProviderSet |-> Listed(policy, st, p)]

ServedBy(available, routes) == [p \in ProviderSet |-> {n \in available : routes[n].provider = p}]

Restricted(policy, st) == {p \in ProviderSet : HasRestrictions(policy, st, p)}

\* The catalogs as they are, whoever serves a name.
ListingOfCatalogs(restricted, mine, listed) ==
    [p \in ProviderSet |-> IF p \in restricted THEN mine[p] ELSE listed[p]]

\* listmodels: the advertised names that a provider serves, all of them if it is
\* restricted; otherwise its models with their aliases, and a router's names as it
\* lists them.
ListingFrom(restricted, mine, listed) ==
    [p \in ProviderSet |->
        CASE p \in restricted -> mine[p]
          [] p \in AcceptsAny \ restricted -> mine[p] \cap listed[p]
          [] OTHER -> {n \in mine[p] : CanonicalAt(p, n) \in mine[p]}]

Listing(policy, learned) ==
    ListingFrom(Restricted(policy, learned),
                ServedBy(AvailableAfter(policy, learned), Routes(policy, learned)),
                AllListed(policy, learned))

\* _get_ranked_model_summaries: each model once, of a provider with an allowlist only
\* if the allowlist, with what was learned, names it or the name it was found by.
SummarisedOf(available, routes, learned) ==
    {routes[n].model : n \in
        {m \in available : LET id == routes[m] IN
            learned[id.provider] = {} \/ {m, id.model} \cap learned[id.provider] # {}}}

Summarised(policy, learned) ==
    SummarisedOf(AvailableAfter(policy, learned), Routes(policy, learned), learned)
=============================================================================
