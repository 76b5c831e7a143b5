---------------------------- MODULE ProviderRequest ----------------------------
(***************************************************************************)
(* What a provider puts on the wire for an assembled request, or why it    *)
(* refuses: generate_content of providers/gemini.py, openai_compatible.py, *)
(* opencode_go.py and dial.py.                                             *)
(*                                                                         *)
(* c is what the catalog says of the model (ModelRegistry), ask the request *)
(* [temperature, thinking, images, limit].  Of what is sent, temperature   *)
(* and thinking are sets: empty when the parameter is left out.            *)
(***************************************************************************)
EXTENDS ContextPlan, ModelRegistry

Refusal == [outcome |-> "refused"]

-----------------------------------------------------------------------------
(* What a tool asks for. *)

\* The request's wish as it is.
AskedTemperature(c, asked, default) == IF asked = None THEN default ELSE asked

\* get_validated_temperature: its default unless the request names one, made acceptable.
ToolTemperature(c, asked, default) ==
    Corrected(c.temperatures, IF asked = None THEN default ELSE asked)

\* calculate_token_allocation with a limit of the caller.
ResponseLimit(c, wanted) == Least(c.window - Allocation(c).content, wanted)

-----------------------------------------------------------------------------
(* OpenAI-compatible endpoints. *)

\* get_effective_temperature
EffectiveTemperature(c, t) == IF c.samples THEN {Corrected(c.temperatures, t)} ELSE {}

\* _output_token_parameter: None when the catalog contradicts the endpoint.
OutputField(c) ==
    LET allowed == IF c.responses THEN {"max_output_tokens"} ELSE {"max_tokens", "max_completion_tokens"}
        field == IF c.field # None THEN c.field
                 ELSE IF c.responses THEN "max_output_tokens" ELSE "max_tokens"
    IN IF field \in allowed THEN field ELSE None

\* Images are dropped, not refused, where the model sees none.
SeenImages(c, ask) == IF c.vision THEN ask.images ELSE {}

ChatRequest(c, ask) ==
    [outcome |-> "sent", endpoint |-> "chat",
     temperature |-> EffectiveTemperature(c, ask.temperature), thinking |-> {},
     field |-> OutputField(c), limit |-> ResponseLimit(c, ask.limit),
     stored |-> FALSE, images |-> SeenImages(c, ask)]

\* Reasoning models: neither sampling nor a thinking mode, and the answer is kept
\* by the endpoint unless it is a router's or a subscription's.
ResponsesRequest(c, ask, dialect) ==
    [ChatRequest(c, ask) EXCEPT !.endpoint = "responses", !.temperature = {},
                                !.stored = dialect \notin {"openrouter", "opencode"}]

CompatibleRequest(c, ask, dialect) ==
    IF OutputField(c) = None THEN Refusal
    ELSE IF c.responses THEN ResponsesRequest(c, ask, dialect) ELSE ChatRequest(c, ask)

\* A deployment has no responses endpoint; the temperature goes out as it came.
DialRequest(c, ask) ==
    IF c.responses \/ OutputField(c) = None THEN Refusal
    ELSE [ChatRequest(c, ask) EXCEPT !.endpoint = "deployment",
                                     !.temperature = IF c.samples THEN {ask.temperature} ELSE {}]

-----------------------------------------------------------------------------
(* Gemini. *)

Levels == <<"minimal", "low", "medium", "high">>
Permille == [minimal |-> 5, low |-> 80, medium |-> 330, high |-> 670, max |-> 1000]

Rank(level) == CHOOSE i \in DOMAIN Levels : Levels[i] = level

\* The highest supported level up to the one asked for, or the lowest there is.
ThinkingLevel(c, mode) ==
    LET desired == Rank(IF mode = "max" THEN "high" ELSE mode)
        ranks == {Rank(l) : l \in c.levels}
        lower == {r \in ranks : r <= desired}
    IN Levels[IF lower # {} THEN Max(lower) ELSE Min(ranks)]

ThinkingBudget(c, mode) == (c.budget * Permille[mode]) \div 1000

\* _thinking_config: only controls the catalog has verified.
ThinkingIsKnown(c, mode) ==
    c.thinks => \/ c.control = "thinking_level" /\ c.levels # {} /\ c.levels \subseteq ToSet(Levels)
                \/ c.control = "thinking_budget" /\ c.levels = {} /\ ThinkingBudget(c, mode) > 0

Thinking(c, mode) ==
    IF ~c.thinks THEN {}
    ELSE IF c.control = "thinking_level" THEN {<<"level", ThinkingLevel(c, mode)>>}
    ELSE {<<"budget", ThinkingBudget(c, mode)>>}

\* validate_parameters raises; whether the model samples at all is not asked.
GeminiRequest(c, ask) ==
    IF \/ ask.temperature \notin c.temperatures
       \/ c.field \notin {None, "max_output_tokens"}
       \/ ~ThinkingIsKnown(c, ask.thinking)
    THEN Refusal
    ELSE [outcome |-> "sent", endpoint |-> "gemini",
          temperature |-> {ask.temperature}, thinking |-> Thinking(c, ask.thinking),
          field |-> "max_output_tokens", limit |-> ResponseLimit(c, ask.limit),
          stored |-> FALSE, images |-> SeenImages(c, ask)]

ProviderCall(dialect, c, ask) ==
    CASE dialect = "gemini" -> GeminiRequest(c, ask)
      [] dialect = "dial" -> DialRequest(c, ask)
      [] OTHER -> CompatibleRequest(c, ask, dialect)
-----------------------------------------------------------------------------
(* What is made of the answer. *)

\* A response: whether it has a text, its candidates ("none" for an empty list), the
\* reason why the first one finished, and whether a rating of it says blocked.
Responses ==
    [text : BOOLEAN, candidates : {"some", "none", "absent"},
     finish : {"STOP", "MAX_TOKENS", None}, flagged : BOOLEAN]

GeminiReading(response) ==
    [content |-> response.text,
     blocked |-> \/ response.candidates = "none"
                 \/ response.candidates = "some" /\ ~response.text /\ response.flagged,
     finish |-> CASE response.candidates = "none" -> "SAFETY"
                  [] response.candidates = "absent" -> "UNKNOWN"
                  [] OTHER -> IF response.finish = None THEN "STOP" ELSE response.finish]

\* Other endpoints name their reasons in lower case, or none.
CompatibleReading(response) == [content |-> response.text, blocked |-> FALSE, finish |-> "other"]

\* SimpleTool.execute: only a model that stopped of itself without a word is asked again.
Verdict(dialect, response, retried) ==
    LET reading == IF dialect = "gemini" THEN GeminiReading(response) ELSE CompatibleReading(response) IN
    CASE reading.content -> "answer"
      [] ~reading.content /\ ~reading.blocked /\ reading.finish = "STOP" /\ ~retried -> "clarify"
      [] OTHER -> "error"
=============================================================================
