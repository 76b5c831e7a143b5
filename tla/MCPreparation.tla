---------------------------- MODULE MCPreparation ----------------------------
(* A native provider, one of named deployments, one that ranks its models, a proxy, a  *)
(* subscription whose models need an opt-in, and a router of vendor/model names.       *)
EXTENDS Preparation

CONSTANTS native, cloud, ranked, proxy, go, router,
          big, fast, shared, reasoner, hidden, goShared, small, smallFor, vendor, oddTag, hosted,
          dep, deep, quick, slow,
          f1, f2, f3, broken, pic,
          dir, sub, ownDir, docs, link, linkDir, hid, data, sys, link2, ownFile, prompt, gone

MCNames == {big, fast, shared, reasoner, hidden, goShared, small, smallFor, vendor, oddTag, hosted, dep,
            deep, quick, slow}

MCPriority == <<native, cloud, ranked, proxy, go, router>>

MCDialect ==
    native :> "gemini" @@ cloud :> "azure" @@ ranked :> "xai" @@ proxy :> "dial"
      @@ go :> "opencode" @@ router :> "openrouter"

Entry(name, aliases) ==
    [name |-> name, aliases |-> aliases, window |-> 32000, ceiling |-> 16000, hint |-> None,
     samples |-> TRUE, responses |-> None, protocol |-> None, field |-> None, vision |-> FALSE,
     thinks |-> FALSE, control |-> None, levels |-> {}, budget |-> 0, enabled |-> None,
     deployment |-> None]

\* `fast' names a model of two providers, `shared' is in two catalogs, `hidden' needs an
\* opt-in; `shared' was never given a thinking control.
MCManifest ==
    LET file(entries) == [status |-> "read", explicit |-> FALSE, entries |-> entries] IN
    native :> file(<<[Entry(big, {fast}) EXCEPT !.window = 300000, !.ceiling = 60000, !.vision = TRUE,
                          !.thinks = TRUE, !.control = "thinking_level", !.levels = {"low", "high"}],
                     [Entry(shared, {}) EXCEPT !.thinks = TRUE],
                     [Entry(deep, {}) EXCEPT !.thinks = TRUE, !.control = "thinking_budget", !.budget = 24576]>>)
      @@ cloud :> file(<<[Entry(hosted, {}) EXCEPT !.deployment = dep, !.samples = FALSE, !.vision = TRUE]>>)
      @@ ranked :> file(<<Entry(slow, {}), Entry(quick, {})>>)
      @@ proxy :> file(<<[Entry(reasoner, {}) EXCEPT !.hint = "fixed", !.field = "max_completion_tokens"]>>)
      @@ go :> file(<<[Entry(hidden, {}) EXCEPT !.protocol = "responses", !.hint = "fixed", !.vision = TRUE],
                      [Entry(shared, {goShared}) EXCEPT !.protocol = "chat_completions",
                                                        !.enabled = TRUE, !.hint = "discrete"]>>)
      @@ router :> file(<<[Entry(small, {fast}) EXCEPT !.hint = "discrete"]>>)

Allow(a, b, c) == native :> a @@ cloud :> {} @@ ranked :> {} @@ proxy :> {} @@ go :> b @@ router :> c

MCAllow == {Allow(a, {}, {}) : a \in {{}, {fast}, {big, shared}}}
               \cup {Allow({fast}, {hidden}, {fast}), Allow({shared}, {}, {vendor})}

MCPolicies ==
    {[allow |-> a, disabled |-> {<<None, fast>>}, preferred |-> << >>, default |-> AutoMode] : a \in MCAllow}
      \cup {[allow |-> a, disabled |-> {}, preferred |-> <<hidden, small>>, default |-> reasoner] :
               a \in MCAllow}
      \cup {[allow |-> a, disabled |-> {<<router, small>>, <<native, shared>>}, preferred |-> <<fast>>,
             default |-> AutoMode] : a \in MCAllow}
      \cup {[allow |-> Allow({}, {shared}, {}), disabled |-> {}, preferred |-> <<goShared>>, default |-> AutoMode]}

MCRanking == ranked :> [balanced |-> <<quick, slow>>, extended_reasoning |-> <<slow>>]

MCBase(n) == IF n = smallFor THEN small ELSE big

Path(in, to, kind, tokens) ==
    [in |-> in, to |-> to, kind |-> kind, tokens |-> tokens, skipped |-> FALSE, code |-> TRUE]

\* A project with a subdirectory, the server's own code, a hidden file, data, and links to
\* a large file elsewhere, to a system file and to a directory.
MCTree ==
    dir :> Path(dir, dir, "directory", 0) @@ sub :> Path(dir, sub, "directory", 0)
      @@ docs :> Path(docs, docs, "directory", 0) @@ ownDir :> Path(dir, ownDir, "directory", 0)
      @@ f1 :> Path(sub, f1, "file", 2970) @@ f2 :> Path(dir, f2, "file", 2270)
      @@ f3 :> Path(docs, f3, "file", 79970) @@ broken :> Path(docs, broken, "large", 300000)
      @@ link :> Path(sub, f3, "file", 0) @@ link2 :> Path(docs, sys, "file", 0)
      @@ linkDir :> Path(dir, docs, "directory", 0) @@ sys :> Path(sys, sys, "file", 500)
      @@ hid :> [Path(dir, hid, "file", 100) EXCEPT !.skipped = TRUE]
      @@ data :> [Path(sub, data, "file", 100) EXCEPT !.code = FALSE]
      @@ ownFile :> Path(ownDir, ownFile, "file", 100)
      @@ prompt :> Path(prompt, prompt, "file", 7000)

MCPathOrder == <<dir, docs, broken, f3, link2, f2, hid, linkDir, ownDir, ownFile, prompt, sub, data, f1,
                 link, sys, gone>>

Req(m, fs, imgs, input) ==
    [model |-> m, category |-> "balanced", files |-> fs, images |-> imgs, input |-> input,
     temperature |-> None, thinking |-> "max"]

Warm(request) == [request EXCEPT !.category = "extended_reasoning", !.temperature = 13, !.thinking = "minimal"]

MCRequests ==
    {Req(m, << >>, {}, 100) : m \in {AutoMode, smallFor, oddTag, vendor}}
      \cup {Warm(Req(m, << >>, {}, 100)) : m \in {AutoMode, shared, reasoner, small, big, dep, deep}}
      \cup {Req(None, fs, {}, 1000) : fs \in {<<link, f1>>, <<docs, prompt>>, <<f2, gone, dir>>}}
      \cup {Req(None, <<f1>>, {pic}, 8000), Req(small, <<f1>>, {}, 12800),
             Req(small, <<f1, prompt>>, {}, 100),
             Req(hidden, <<prompt>>, {}, 100), Req(hidden, << >>, {}, 16000)}
=============================================================================
