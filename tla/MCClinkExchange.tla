-------------------------- MODULE MCClinkExchange --------------------------
(* Two projects, a link that leads to either, and servers with one CLI, two, or a *)
(* built-in manifest replaced by the user's.                                      *)
EXTENDS ClinkExchange

CONSTANTS p, q, alias, d1, d2, d3

World1 == p :> p @@ q :> q @@ alias :> p
World2 == p :> p @@ q :> q @@ alias :> q

MCPath == {p, q, alias}
MCLinks == {World1, World2}
MCAts == {p :> d1 @@ q :> d2, p :> d3 @@ q :> d2, p :> None @@ q :> d2}

Manifest(name, args, safe, edit, dir, budget, roles) ==
    [name |-> name, args |-> args, safe |-> safe, edit |-> edit, dir |-> dir,
     budget |-> budget, roles |-> roles]

NoRole == [r \in {} |-> {}]
Codex == Manifest("codex", {"--json"}, {}, {"--yolo"}, None, 16, NoRole)
MyCodex == Manifest("codex", {"--json"}, {}, {"--yolo"}, q, 8, "planner" :> {"--plan"})
Gemini == Manifest("gemini", {}, {}, {"--yolo"}, None, 16, "planner" :> {})
Claude == Manifest("claude", {}, {"--ask"}, {"--accept"}, None, 16, NoRole)
Agy == Manifest("agy", {}, {}, {}, None, 16, "planner" :> {"--print"})
Unsafe == Manifest("gemini", {"--yolo"}, {}, {}, None, 16, NoRole)
Idle == Manifest("claude", {}, {"--ask"}, {"--ask"}, None, 16, NoRole)

MCLayers == {<<Codex, Gemini, MyCodex>>, <<Agy>>, <<Claude>>, <<Codex, Unsafe>>, <<Idle>>}

R(cli, role, dir, edits, editable) ==
    [cli |-> cli, role |-> role, dir |-> dir, edits |-> edits, editable |-> editable, tokens |-> 1]

MCRequests ==
    {R(None, None, dir, FALSE, FALSE) : dir \in {None, p, alias}}
      \cup {R("gemini", "planner", None, FALSE, FALSE), R("codex", None, q, TRUE, FALSE),
            R(None, "planner", None, FALSE, FALSE), R(None, None, None, TRUE, TRUE)}

Result(type, result, failed, message) == <<Entry(type, result, failed, message)>>

MCOutputs(cli) ==
    CASE cli = "codex" -> {{"message"}, {"message", "error"}, {"message", "turn_failed"}, {"error"}, {}}
      [] cli = "claude" ->
            {[array |-> FALSE, stderr |-> FALSE, entries |-> e] :
                e \in {<< >>, Result("result", "text", FALSE, FALSE), Result("result", "text", TRUE, FALSE)}}
            \cup {[array |-> TRUE, stderr |-> s, entries |->
                      Result("assistant", "none", FALSE, m) \o Result("result", "empty", FALSE, FALSE)] :
                    s, m \in BOOLEAN}
      [] cli = "gemini" ->
            {[stdout |-> "object", error |-> e, response |-> r, explained |-> TRUE,
              block |-> e, marker |-> {}] : e, r \in BOOLEAN}
            \cup {[stdout |-> "garbage", error |-> FALSE, response |-> FALSE, explained |-> FALSE,
                   block |-> b, marker |-> {"stdout"}] : b \in BOOLEAN}
      [] cli = "agy" ->
            {[garbled |-> g, results |-> rs] : g \in BOOLEAN, rs \in
                {<< >>, <<[status |-> "SUCCESS", response |-> TRUE]>>,
                 <<[status |-> "SUCCESS", response |-> FALSE]>>, <<[status |-> "ERROR", response |-> TRUE]>>}}

MCReplies == {[tokens |-> 2, summary |-> 0], [tokens |-> 7, summary |-> 0], [tokens |-> 7, summary |-> 1]}
=============================================================================
