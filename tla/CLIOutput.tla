----------------------------- MODULE CLIOutput -----------------------------
(***************************************************************************)
(* What clink makes of a finished CLI: the parsers of clink/parsers and    *)
(* the recovery of clink/agents from a bad exit status.                    *)
(*                                                                         *)
(* A text is abstracted to the facts about it the parsers ask for, one     *)
(* record type per CLI.  The result is Unparsed, a parser's error, or      *)
(* Parsed(e), where e says whether the CLI reports a failure.              *)
(***************************************************************************)
EXTENDS Naturals, Sequences

Unparsed == [kind |-> "unparsed"]
Parsed(isError) == [kind |-> "parsed", isError |-> isError]

-----------------------------------------------------------------------------
(* codex: the set of the kinds of events among its JSON lines; other lines are *)
(* skipped, and the order does not matter.                                     *)

CodexEvent == {"message", "error", "turn_failed", "broken_item"}

CodexParse(out) ==
    LET isError == "turn_failed" \in out \/ ("message" \notin out /\ "error" \in out)
    IN IF "broken_item" \in out \/ ("message" \notin out /\ ~isError) THEN Unparsed
       ELSE Parsed(isError)

-----------------------------------------------------------------------------
(* claude: one JSON object, or an array of them.  An entry has a type, perhaps a *)
(* field "result" with or without text, flags of failure, and perhaps a message. *)

Entry(type, result, failed, message) ==
    [type |-> type, result |-> result, failed |-> failed, message |-> message]

\* The first result, else the last assistant entry, else the last entry.
Payload(entries) ==
    LET Results == {i \in DOMAIN entries : entries[i].type = "result" \/ entries[i].result # "none"}
        Answers == {i \in DOMAIN entries : entries[i].type = "assistant"}
    IN IF Results # {} THEN entries[CHOOSE i \in Results : \A j \in Results : i =< j]
       ELSE IF Answers # {} THEN entries[CHOOSE i \in Answers : \A j \in Answers : i >= j]
       ELSE entries[Len(entries)]

ClaudeParse(out) ==
    LET payload == Payload(out.entries)
        said == \/ payload.result = "text" \/ payload.message
                \/ \E i \in DOMAIN out.entries :
                      /\ out.array /\ out.entries[i].type = "assistant" /\ out.entries[i].message
                      /\ \A j \in DOMAIN out.entries : out.entries[j].type = "assistant" => i >= j
    IN IF out.entries = << >> THEN Unparsed
       ELSE IF said THEN Parsed(payload.failed)
       ELSE IF payload.failed \/ out.stderr THEN Parsed(TRUE)
       ELSE Unparsed

-----------------------------------------------------------------------------
(* gemini: stdout is empty, garbage, an array or an object, which has an error, a *)
(* response, or neither; the marker UNSUPPORTED_CLIENT may occur in several       *)
(* places; `explained' says that stderr or the statistics explain an empty reply, *)
(* `block' that stderr and stdout end in an object with an error block.           *)

GeminiParse(out) ==
    LET unsupported == \/ "stderr" \in out.marker
                       \/ "stdout" \in out.marker /\ out.stdout = "garbage"
    IN IF out.stdout = "object" /\ out.error THEN Parsed(TRUE)
       ELSE IF out.stdout = "object" /\ out.response THEN Parsed(FALSE)
       ELSE IF unsupported \/ (out.stdout = "object" /\ out.explained) THEN Parsed(TRUE)
       ELSE Unparsed

\* The marker counts outside the answer only.
GeminiRecover(out) ==
    IF \/ "stderr" \in out.marker
       \/ "stdout" \in out.marker /\ out.stdout = "garbage"
       \/ "error" \in out.marker /\ out.stdout = "object"
    THEN Parsed(TRUE)
    ELSE IF out.block THEN Parsed(FALSE)
    ELSE Unparsed

-----------------------------------------------------------------------------
(* agy: a stream of lines, one of them the result. *)

AgyParse(out) ==
    IF out.garbled \/ Len(out.results) # 1 THEN Unparsed
    ELSE IF out.results[1].status = "SUCCESS" /\ out.results[1].response THEN Parsed(FALSE)
    ELSE Unparsed

-----------------------------------------------------------------------------
(* The texts the CLIs may print. *)

PossibleOutputs(cli) ==
    CASE cli = "codex" -> SUBSET CodexEvent
      [] cli = "claude" ->
            [array : BOOLEAN, stderr : BOOLEAN,
             entries : Seq([type : STRING, result : {"none", "empty", "text"},
                            failed : BOOLEAN, message : BOOLEAN])]
      [] cli = "gemini" ->
            [stdout : {"empty", "garbage", "array", "object"}, error : BOOLEAN, response : BOOLEAN,
             explained : BOOLEAN, block : BOOLEAN, marker : SUBSET {"stderr", "stdout", "error"}]
      [] cli = "agy" -> [garbled : BOOLEAN, results : Seq([status : STRING, response : BOOLEAN])]

-----------------------------------------------------------------------------
(* _run_in_directory from the exit of the process on, for each agent. *)

Parse(cli, out) ==
    CASE cli = "codex" -> CodexParse(out)
      [] cli = "claude" -> ClaudeParse(out)
      [] cli = "gemini" -> GeminiParse(out)
      [] cli = "agy" -> AgyParse(out)

\* _recover_from_error: agy's never recovers anything.
Recover(cli, out) ==
    CASE cli \in {"codex", "claude"} -> Parse(cli, out)
      [] cli = "gemini" -> GeminiRecover(out)
      [] cli = "agy" -> Unparsed

AgentOutput(cli, out, code) == IF code = 0 THEN Parse(cli, out) ELSE Recover(cli, out)

-----------------------------------------------------------------------------
(* What each CLI itself says of its run, for the properties. *)

ReportsSuccess(cli, out) ==
    CASE cli = "codex" -> "message" \in out /\ "turn_failed" \notin out
      [] cli = "claude" -> /\ ~Payload(out.entries).failed
                           /\ \E i \in DOMAIN out.entries :
                                 out.entries[i].result = "text" \/ out.entries[i].message
      [] cli = "gemini" -> out.response /\ ~out.error
      [] cli = "agy" -> [status |-> "SUCCESS", response |-> TRUE] \in {out.results[i] : i \in DOMAIN out.results}
=============================================================================
