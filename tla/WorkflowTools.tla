---------------------------- MODULE WorkflowTools ----------------------------
(***************************************************************************)
(* The tables of the eleven workflow tools (tools/*.py): what a tool keeps *)
(* of a step, when it asks an expert model, what it demands of the agent   *)
(* before the next call and which call it names.  A request is a record    *)
(*   [tool, call, number, total, next, confidence, review, assistant,      *)
(*    files, issues, named, undocumented, mode, adds]                      *)
(* where call identifies the call, named says that the caller gave a       *)
(* continuation id, review is the validation type of a review,             *)
(* undocumented says that docgen's counters differ, and adds that the step *)
(* opens a branch of a plan or gives a thought its problem context.        *)
(* Actions and guidance are long texts in the code; here a list of actions *)
(* is the name of its branch, and a guidance is [call, pause, cites]: the  *)
(* step number it tells the agent to use next (0: none), what the agent    *)
(* must do before ("work", "ask" the user, or "now" for at once), and the  *)
(* list of actions it repeats (or "none").                                 *)
(***************************************************************************)
EXTENDS Naturals, Sequences, FiniteSets

Tools == {"analyze", "codereview", "debug", "docgen", "planner", "precommit",
          "refactor", "secaudit", "testgen", "thinkdeep", "tracer"}

(* Tools whose requires_expert_analysis() is False.                        *)
SelfContained == {"docgen", "planner", "tracer"}

RequestRecords ==
  [tool : Tools, call : Nat, number : Nat, total : Nat, next : BOOLEAN, confidence : STRING,
   review : {"external", "internal", "null"}, assistant : BOOLEAN, files : BOOLEAN, issues : BOOLEAN,
   named : BOOLEAN, undocumented : BOOLEAN, mode : STRING, adds : BOOLEAN]

(* What the request models refuse before anything is saved: these tools    *)
(* need files on their first step.                                         *)
StartsFromFiles == {"analyze", "codereview", "refactor", "testgen"}

Valid(q) == /\ q.number >= 1 /\ q.total >= 1
            /\ q.number = 1 /\ q.tool \in StartsFromFiles => q.files

(* max(total_steps, step_number), computed before the step is processed.   *)
Total(q) == IF q.number > q.total THEN q.number ELSE q.total

----------------------------------------------------------------------------
(* prepare_step_data: which of the caller's data a tool keeps in a step.   *)

DropsFiles  == {"planner"}
DropsIssues == {"debug", "docgen", "planner", "testgen", "tracer"}

Recorded(q) ==
  [call   |-> q.call,
   number |-> q.number,
   files  |-> q.files  /\ q.tool \notin DropsFiles,
   issues |-> q.issues /\ q.tool \notin DropsIssues]

----------------------------------------------------------------------------
(* The configuration a tool keeps beside its history, as the set of calls  *)
(* it was taken from.                                                      *)

AnalyzeConfig(q, c)    == IF q.number = 1 /\ q.files THEN {q.call} ELSE c
CodereviewConfig(q, c) == IF q.number = 1 /\ q.files THEN {q.call} ELSE c
RefactorConfig(q, c)   == IF q.number = 1 /\ q.files THEN {q.call} ELSE c
PrecommitConfig(q, c)  == IF q.number = 1 THEN {q.call} ELSE c
SecauditConfig(q, c)   == IF q.number = 1 THEN {q.call} ELSE c
TracerConfig(q, c)     == IF q.number = 1 THEN {q.call} ELSE c
PlannerConfig(q, c)    == IF q.adds THEN c \cup {q.call} ELSE c

(* Of thinkdeep's, the problem context and the focus areas, given together *)
(* here, which replace those of an earlier call; temperature and thinking  *)
(* mode are not quoted to the expert.                                      *)
ThinkdeepConfig(q, c) ==
  IF q.adds THEN {q.call} ELSE IF q.number = 1 THEN {} ELSE c

(* thinkdeep and secaudit take their configuration before the step is      *)
(* processed, secaudit completes it when the response is customised, the   *)
(* others take it only then.                                               *)
ConfigBefore(q, c) == CASE q.tool = "thinkdeep" -> ThinkdeepConfig(q, c)
                        [] q.tool = "secaudit"  -> SecauditConfig(q, c)
                        [] OTHER                -> c

ConfigAfter(q, c) == CASE q.tool = "analyze"    -> AnalyzeConfig(q, c)
                       [] q.tool = "codereview" -> CodereviewConfig(q, c)
                       [] q.tool = "refactor"   -> RefactorConfig(q, c)
                       [] q.tool = "precommit"  -> PrecommitConfig(q, c)
                       [] q.tool = "tracer"     -> TracerConfig(q, c)
                       [] q.tool = "planner"    -> PlannerConfig(q, c)
                       [] OTHER                 -> c

----------------------------------------------------------------------------
(* Whether a last step asks an expert.  h is the history with this step.   *)

AnyFiles(h)    == \E i \in DOMAIN h : h[i].files
AnyIssues(h)   == \E i \in DOMAIN h : h[i].issues
Substantial(h) == AnyFiles(h) \/ Len(h) >= 2 \/ AnyIssues(h)

(* get_review_validation_type, get_precommit_type: null is external.       *)
ReviewType(q) == IF q.review = "internal" THEN "internal" ELSE "external"

(* An external review that continues a conversation.                       *)
FastTrack(q) == q.named /\ ReviewType(q) = "external"

SkipsExpert(q) ==
  /\ ~q.next
  /\ \/ q.tool \in {"debug", "secaudit", "testgen", "thinkdeep", "docgen"} /\ q.confidence = "certain"
     \/ q.tool = "refactor" /\ q.confidence = "complete"
     \/ q.tool \in {"codereview", "precommit"} /\ q.review = "internal"

AnalyzeCalls(q, h)    == q.assistant /\ (AnyFiles(h) \/ Len(h) >= 1)
TestgenCalls(q, h)    == q.assistant /\ (AnyFiles(h) \/ Len(h) >= 1)
DebugCalls(q, h)      == q.assistant /\ Substantial(h)
SecauditCalls(q, h)   == q.assistant /\ Substantial(h)
(* An external review also needs findings.                                 *)
CodereviewCallsOnIssues(q, h) == q.assistant /\ AnyIssues(h)

CodereviewCalls(q, h) == q.assistant /\ (FastTrack(q) \/ Substantial(h))

(* precommit reads the field itself here and in its guidance.              *)
PrecommitCalls(q, h) ==
  q.assistant /\ ((q.named /\ q.review = "external") \/ Substantial(h))

RefactorCalls(q, h)   == q.assistant /\ q.confidence # "complete" /\ Substantial(h)
ThinkdeepCalls(q, h)  == q.confidence # "certain" /\ ~q.next

CallsExpert(q, h) ==
  CASE q.tool = "analyze"    -> AnalyzeCalls(q, h)
    [] q.tool = "testgen"    -> TestgenCalls(q, h)
    [] q.tool = "debug"      -> DebugCalls(q, h)
    [] q.tool = "secaudit"   -> SecauditCalls(q, h)
    [] q.tool = "codereview" -> CodereviewCalls(q, h)
    [] q.tool = "precommit"  -> PrecommitCalls(q, h)
    [] q.tool = "refactor"   -> RefactorCalls(q, h)
    [] q.tool = "thinkdeep"  -> ThinkdeepCalls(q, h)
    [] OTHER                 -> FALSE

----------------------------------------------------------------------------
(* get_required_actions.  c is the confidence the caller of it passes.     *)

Low      == {"exploring", "low"}
Middling == {"medium", "high"}

(* The four stages most tools share: by step, then by confidence.          *)
ByConfidence(q, c, middling) ==
  CASE q.number = 1   -> "explore"
    [] q.number > 1 /\ c \in Low      -> "deepen"
    [] q.number > 1 /\ c \in middling -> "confirm"
    [] OTHER                          -> "general"

AnalyzeActions(q) ==
  CASE q.number = 1                          -> "explore"
    [] q.number > 1 /\ q.number < Total(q)   -> "deepen"
    [] OTHER                                 -> "verify"

CodereviewActions(q) ==
  CASE FastTrack(q) /\ q.number = 1  -> "quick_review"
    [] FastTrack(q) /\ q.number > 1  -> "complete"
    [] ~FastTrack(q) /\ q.number = 1 -> "explore"
    [] ~FastTrack(q) /\ q.number = 2 -> "deepen"
    [] OTHER                         -> "verify"

DebugActions(q, c) ==
  IF q.number > 1 /\ c = "almost_certain" THEN "finalise"
  ELSE ByConfidence(q, c, Middling \cup {"very_high"})

DocgenActions(q) ==
  CASE q.number = 1      -> "discover"
    [] q.number = 2      -> "first_file"
    [] q.number \in 3..4 -> "next_file"
    [] OTHER             -> "check_counters"

PlannerActions(q) ==
  CASE q.number = 1                       -> "scope"
    [] q.number = 2 /\ Total(q) >= 5      -> "evaluate"
    [] q.number = 3 /\ Total(q) >= 5      -> "validate"
    [] OTHER                              -> "concretise"

(* Findings are at most two lines long here, so the issues decide.         *)
PrecommitActions(q, h) ==
  CASE FastTrack(q) /\ q.number = 1  -> "save_changeset"
    [] FastTrack(q) /\ q.number > 1  -> "complete"
    [] ~FastTrack(q) /\ q.number = 1 -> "explore"
    [] ~FastTrack(q) /\ q.number = 2 -> "deepen"
    [] OTHER -> IF AnyIssues(h) THEN "verify" ELSE "general"

RefactorActions(q, c) ==
  CASE q.number = 1                                        -> "explore"
    [] q.number > 1 /\ c \in {"exploring", "incomplete"}   -> "deepen"
    [] q.number > 1 /\ c = "partial"                       -> "confirm"
    [] OTHER                                               -> "general"

(* Six sections of the audit, then the report.                             *)
SecauditActions(q) ==
  CASE q.number = 1 -> "attack_surface"  [] q.number = 2 -> "authentication"
    [] q.number = 3 -> "input"           [] q.number = 4 -> "OWASP"
    [] q.number = 5 -> "dependencies"    [] q.number = 6 -> "compliance"
    [] OTHER        -> "report"

TestgenActions(q, c) == ByConfidence(q, c, Middling)

(* The last branch is meant for "certain"; "exploring" falls into it too.  *)
ThinkdeepActions(q, c) ==
  CASE q.number = 1 -> "explore"
    [] q.number > 1 /\ c \in {"low", "medium", "high", "very_high", "almost_certain"} -> c
    [] OTHER -> "ready"

(* mode is the trace mode kept in trace_config when the text is built.     *)
TracerActions(q, c, mode) ==
  IF q.number = 1 /\ mode = "ask" THEN "ask_for_mode" ELSE ByConfidence(q, c, Middling)

Actions(q, h, c, mode) ==
  CASE q.tool = "analyze"    -> AnalyzeActions(q)
    [] q.tool = "codereview" -> CodereviewActions(q)
    [] q.tool = "debug"      -> DebugActions(q, c)
    [] q.tool = "docgen"     -> DocgenActions(q)
    [] q.tool = "planner"    -> PlannerActions(q)
    [] q.tool = "precommit"  -> PrecommitActions(q, h)
    [] q.tool = "refactor"   -> RefactorActions(q, c)
    [] q.tool = "secaudit"   -> SecauditActions(q)
    [] q.tool = "testgen"    -> TestgenActions(q, c)
    [] q.tool = "thinkdeep"  -> ThinkdeepActions(q, c)
    [] q.tool = "tracer"     -> TracerActions(q, c, mode)

(* get_request_confidence: the caller may pass null, which counts as low   *)
(* here, but not where a tool reads request.confidence.                    *)
RequestConfidence(q) ==
  IF q.confidence # "null" THEN q.confidence
  ELSE IF q.tool = "tracer" THEN "exploring" ELSE "low"

----------------------------------------------------------------------------
(* The guidance of a pause.  It is built only when the caller announced    *)
(* another step, so the branches the code has for next_step_required =     *)
(* False are never taken and are left out.                                 *)

Guide(call, pause, cites) == [call |-> call, pause |-> pause, cites |-> cites]

(* Step one says what to look for in words of its own; later steps repeat  *)
(* the actions and name the next step.                                     *)
WorkThenNext(q, actions) ==
  Guide(q.number + 1, "work", IF q.number = 1 THEN "none" ELSE actions)

(* The fast track of reviews that continue a conversation; review is the   *)
(* validation type as the tool reads it.                                   *)
ReviewGuidance(q, review, actions) ==
  CASE q.named /\ review = "external" /\ q.number = 1 -> Guide(2, "work", actions)
    [] q.named /\ review = "external" /\ q.number = 2 -> Guide(0, "now", "none")
    [] q.named /\ review = "internal" /\ q.number = 1 -> Guide(0, "work", actions)
    [] OTHER                                          -> Guide(q.number + 1, "work", actions)

AnalyzeGuidance(q)       == WorkThenNext(q, AnalyzeActions(q))
CodereviewGuidance(q)    == ReviewGuidance(q, ReviewType(q), CodereviewActions(q))
PrecommitGuidance(q, h)  == ReviewGuidance(q, q.review, PrecommitActions(q, h))
RefactorGuidance(q)      == WorkThenNext(q, RefactorActions(q, q.confidence))
SecauditGuidance(q)      == WorkThenNext(q, SecauditActions(q))
TestgenGuidance(q)       == WorkThenNext(q, TestgenActions(q, q.confidence))
DocgenGuidance(q)        == Guide(q.number + 1, "work", DocgenActions(q))
ThinkdeepGuidance(q)     == Guide(q.number + 1, "none", "none")

DebugGuidance(q) ==
  IF q.number > 1 /\ q.confidence = "almost_certain"
  THEN Guide(0, "work", DebugActions(q, q.confidence))
  ELSE WorkThenNext(q, DebugActions(q, q.confidence))

PlannerGuidance(q) ==
  Guide(q.number + 1, IF Total(q) >= 5 /\ q.number <= 3 THEN "work" ELSE "none", "none")

TracerGuidance(q, mode) ==
  CASE q.number = 1 /\ mode = "ask"            -> Guide(1, "ask", "none")
    [] q.number = 1 /\ mode # "ask"            -> Guide(2, "work", "none")
    [] q.number > 1 /\ q.confidence \in Low \cup Middling
         -> Guide(q.number + 1, "work", TracerActions(q, q.confidence, mode))
    [] OTHER                                   -> Guide(q.number + 1, "none", "none")

Guidance(q, h, mode) ==
  CASE q.tool = "analyze"    -> AnalyzeGuidance(q)
    [] q.tool = "codereview" -> CodereviewGuidance(q)
    [] q.tool = "debug"      -> DebugGuidance(q)
    [] q.tool = "docgen"     -> DocgenGuidance(q)
    [] q.tool = "planner"    -> PlannerGuidance(q)
    [] q.tool = "precommit"  -> PrecommitGuidance(q, h)
    [] q.tool = "refactor"   -> RefactorGuidance(q)
    [] q.tool = "secaudit"   -> SecauditGuidance(q)
    [] q.tool = "testgen"    -> TestgenGuidance(q)
    [] q.tool = "thinkdeep"  -> ThinkdeepGuidance(q)
    [] q.tool = "tracer"     -> TracerGuidance(q, mode)
=============================================================================
