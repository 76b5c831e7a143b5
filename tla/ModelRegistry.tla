---------------------------- MODULE ModelRegistry ----------------------------
(***************************************************************************)
(* The manifests in conf/: which names a provider's catalog has, and what  *)
(* an entry says of its model (providers/registries, shared/temperature.py *)
(* and shared/model_capabilities.py).                                      *)
(*                                                                         *)
(* A manifest is [status, explicit, entries]: what reading the file gave,  *)
(* whether the environment names the file, and its entries in order.       *)
(* Temperatures are in tenths, a temperature constraint is the set of the  *)
(* temperatures it accepts.                                                *)
(***************************************************************************)
EXTENDS Naturals, Sequences, SequencesExt, TLC

CONSTANTS None,
          Manifest,        \* provider -> manifest
          Optional,        \* the providers whose manifest may be absent
          Protocolled,     \* the providers whose entries state their endpoint
          Deployers        \* the providers whose entries name a deployment

-----------------------------------------------------------------------------
(* Temperatures. *)

\* TemperatureConstraint.create; no hint means a range.
Hinted(hint) ==
    CASE hint = "fixed" -> {10}
      [] hint = "discrete" -> {0, 3, 7, 10, 15, 20}
      [] OTHER -> 0..20

\* get_corrected_value: the accepted temperature itself, the end of the range, the
\* fixed value, or the nearest of a list, the lower one of two.
Corrected(accepted, t) ==
    LET distance(x) == IF x > t THEN x - t ELSE t - x IN
    CHOOSE x \in accepted : \A y \in accepted :
        distance(x) < distance(y) \/ (distance(x) = distance(y) /\ x <= y)

-----------------------------------------------------------------------------
(* Entries. *)

\* _convert_entry refuses unknown hints and negative numbers.
IsEntry(entry) ==
    /\ entry.hint \in {None, "fixed", "discrete", "range"}
    /\ {entry.window, entry.ceiling, entry.budget} \subseteq Nat

\* OpenCode Go: what an entry says of its endpoint must agree with its protocol.
AgreesWithProtocol(entry) ==
    /\ entry.protocol \in {"chat_completions", "responses"}
    /\ entry.responses \in {None, entry.protocol = "responses"}
    /\ entry.field \in {None, IF entry.protocol = "responses" THEN "max_output_tokens" ELSE "max_tokens"}

Capabilities(p, entry) ==
    LET responses == IF p \in Protocolled THEN entry.protocol = "responses"
                                          ELSE entry.responses = TRUE
    IN [window |-> entry.window, ceiling |-> entry.ceiling, vision |-> entry.vision,
        verified |-> TRUE, enabled |-> IF entry.enabled = None THEN p \notin Protocolled ELSE entry.enabled,
        samples |-> entry.samples, temperatures |-> Hinted(entry.hint),
        responses |-> responses,
        field |-> IF p \notin Protocolled THEN entry.field
                  ELSE IF responses THEN "max_output_tokens" ELSE "max_tokens",
        thinks |-> entry.thinks, control |-> entry.control, levels |-> entry.levels,
        budget |-> entry.budget]

\* What a router assumes of a vendor/model name it has no entry for.
GenericCapabilities ==
    [window |-> 32768, ceiling |-> 32768, vision |-> FALSE, verified |-> FALSE, enabled |-> TRUE,
     samples |-> TRUE, temperatures |-> 0..20, responses |-> FALSE, field |-> None,
     thinks |-> FALSE, control |-> None, levels |-> {}, budget |-> 0]

-----------------------------------------------------------------------------
(* Names. *)

\* What an entry may be called.
Keys(entry) == {entry.name} \cup entry.aliases

\* _build_maps: a model's name must be new, an alias must not be another model's.
NamesAreUnambiguous(entries) ==
    \A i, j \in DOMAIN entries : i # j => Keys(entries[i]) \cap Keys(entries[j]) = {}

NamesOf(entries) ==
    [n \in UNION {Keys(e) : e \in ToSet(entries)} |->
        (CHOOSE e \in ToSet(entries) : n \in Keys(e)).name]

\* The registry of deployments: each is its own model's, whatever else it is called.
DeploymentsAreUnambiguous(entries) ==
    \A i \in DOMAIN entries :
        LET e == entries[i]
            names == NamesOf(entries)
        IN /\ e.deployment # None
           /\ e.deployment \in DOMAIN names => names[e.deployment] = e.name
           /\ \A j \in DOMAIN entries \ {i} : entries[j].deployment # e.deployment

\* _load_config_data: an absent file is an empty one if nobody asked for it.
Entries(p, manifest) ==
    IF manifest.status = "missing" /\ p \in Optional /\ ~manifest.explicit THEN << >>
    ELSE manifest.entries

IsRead(p, manifest) ==
    manifest.status = "read" \/ (manifest.status = "missing" /\ p \in Optional /\ ~manifest.explicit)

\* reload; a manifest that does not load ends the start of the server.
Loads(p, manifest) ==
    LET entries == Entries(p, manifest) IN
    /\ IsRead(p, manifest)
    /\ entries # << >> \/ p \in Optional
    /\ \A e \in ToSet(entries) : IsEntry(e) /\ (p \in Protocolled => AgreesWithProtocol(e))
    /\ NamesAreUnambiguous(entries)
    /\ p \in Deployers => DeploymentsAreUnambiguous(entries)

Starts == \A p \in DOMAIN Manifest : Loads(p, Manifest[p])

Catalog == [p \in DOMAIN Manifest |-> NamesOf(Entries(p, Manifest[p]))]

\* Deployments are found by their names too, but not listed.
Deployed == [p \in DOMAIN Manifest |->
    LET entries == Entries(p, Manifest[p]) IN
    [d \in IF p \in Deployers THEN {e.deployment : e \in ToSet(entries)} ELSE {} |->
        (CHOOSE e \in ToSet(entries) : e.deployment = d).name]]

\* ModelProvider.resolve_model_identity: the catalog, without policy.
ResolveIn(p, name) ==
    CASE name \in DOMAIN Deployed[p] -> Deployed[p][name]
      [] name \in DOMAIN Catalog[p] -> Catalog[p][name]
      [] OTHER -> None

\* What the endpoint is told to use.
WireName(p, canonical) ==
    IF p \in Deployers THEN CHOOSE d \in DOMAIN Deployed[p] : Deployed[p][d] = canonical
    ELSE canonical

Known == [p \in DOMAIN Manifest |->
    [c \in {Catalog[p][n] : n \in DOMAIN Catalog[p]} |->
        Capabilities(p, CHOOSE e \in ToSet(Entries(p, Manifest[p])) : e.name = c)]]

\* _lookup_capabilities
CapabilitiesOf(p, canonical) ==
    IF canonical \in DOMAIN Known[p] THEN Known[p][canonical] ELSE GenericCapabilities
=============================================================================
