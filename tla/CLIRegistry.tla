---------------------------- MODULE CLIRegistry ----------------------------
(***************************************************************************)
(* clink/registry.py and clink/models.py: the CLI clients, read from       *)
(* layers of manifests, and the command line an agent builds for a call.   *)
(*                                                                         *)
(* A manifest is a record [name, args, safe, edit, dir, budget, roles]:    *)
(* sets of flags, a directory or None, a history budget, and a function    *)
(* from role names to sets of flags.  Names are lower case.                *)
(***************************************************************************)
EXTENDS Naturals, Sequences, SequencesExt, FiniteSets, WorkingDirectory

CONSTANTS Dangerous,    \* flags that let a CLI write
          Reserved      \* agy's protocol, prompt and continuation flags

Supported == {"agy", "gemini", "codex", "claude"}

IsManifest(m, Path) ==
    /\ DOMAIN m = {"name", "args", "safe", "edit", "dir", "budget", "roles"}
    /\ m.dir \in Path \cup {None}

\* INTERNAL_DEFAULTS: what the program itself passes.
InternalArgs(name) == {"internal"}

\* The validators of CLIClientConfig, and the refusals of _resolve_config.
IsValid(m) ==
    /\ m.name \in Supported
    /\ m.safe \cup m.edit # {} => m.safe # m.edit
    /\ m.args \cap Dangerous = {}

\* A role "default" is always there.
RolesOf(m) == [r \in DOMAIN m.roles \cup {"default"} |-> IF r \in DOMAIN m.roles THEN m.roles[r] ELSE {}]

Resolved(m) == [m EXCEPT !.roles = RolesOf(m)]

\* _load: in the order of the layers, a later manifest replaces an earlier one
\* of the same name; one that is invalid fails them all.
Loads(manifests) == manifests # << >> /\ \A i \in DOMAIN manifests : IsValid(manifests[i])

Load(manifests) ==
    [name \in {manifests[i].name : i \in DOMAIN manifests} |->
        Resolved(manifests[CHOOSE i \in DOMAIN manifests :
                    /\ manifests[i].name = name
                    /\ \A j \in DOMAIN manifests : manifests[j].name = name => j =< i])]

-----------------------------------------------------------------------------
(* Command lines, as sets of flags. *)

SupportsEditablePaths(name) == name = "claude"

\* agy refuses configurations that interfere with its protocol.
RefusesCommand(client, role) ==
    /\ client.name = "agy"
    /\ (client.args \cup client.safe \cup client.edit \cup client.roles[role]) \cap Reserved # {}

\* _extra_command_args, _build_path_restriction_args and agy's mode; `scratch' says
\* that PAL made the directory.
ExtraArgs(name, edits, editable, scratch) ==
    {f \in {"skip_git_check", "system_prompt", "allowed_paths", "accept_edits"} :
        \/ f = "skip_git_check" /\ name = "codex" /\ scratch
        \/ f = "system_prompt" /\ name = "claude"
        \/ f = "allowed_paths" /\ name = "claude" /\ edits /\ editable
        \/ f = "accept_edits" /\ name = "agy" /\ edits}

Command(client, role, edits, editable, scratch) ==
    InternalArgs(client.name) \cup client.args
        \cup (IF edits THEN client.edit ELSE client.safe)
        \cup ExtraArgs(client.name, edits, editable, scratch)
        \cup client.roles[role]
=============================================================================
