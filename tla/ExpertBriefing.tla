---------------------------- MODULE ExpertBriefing ----------------------------
(***************************************************************************)
(* What a workflow tool tells the expert model of an investigation, and    *)
(* what its reply says became of the files.  c is the call in progress     *)
(* (WorkflowState): its request q, history, initial request and            *)
(* configuration.  A briefing names the calls its parts come from: the     *)
(* request it states (0: none), the steps whose findings it repeats, the   *)
(* issues it lists, the files whose content it carries and the             *)
(* configuration it quotes.  Files that only other turns of the            *)
(* conversation name are attached too and are left out here.               *)
(***************************************************************************)
EXTENDS WorkflowTools

StepsOf(h)  == {h[i].call : i \in DOMAIN h}
IssuesOf(h) == {h[i].call : i \in {j \in DOMAIN h : h[j].issues}}
FilesOf(h)  == {h[i].call : i \in {j \in DOMAIN h : h[j].files}}

(* The first request and the findings of every step, in each tool's frame. *)
Summary(c) == [request |-> c.initial, steps |-> StepsOf(c.history),
               issues |-> {}, files |-> {}, config |-> {}]

AnalyzeBriefing(c)    == [Summary(c) EXCEPT !.config = c.config]
CodereviewBriefing(c) == [Summary(c) EXCEPT !.config = c.config, !.issues = IssuesOf(c.history)]
PrecommitBriefing(c)  == [Summary(c) EXCEPT !.config = c.config, !.issues = IssuesOf(c.history)]
RefactorBriefing(c)   == [Summary(c) EXCEPT !.config = c.config, !.issues = IssuesOf(c.history)]
SecauditBriefing(c)   == [Summary(c) EXCEPT !.config = c.config, !.issues = IssuesOf(c.history)]
DebugBriefing(c)      == [Summary(c) EXCEPT !.files = FilesOf(c.history)]
TestgenBriefing(c)    == Summary(c)
ThinkdeepBriefing(c)  == [Summary(c) EXCEPT !.request = 0, !.config = c.config,
                                            !.issues = IssuesOf(c.history)]

Context(c) ==
  CASE c.q.tool = "analyze"    -> AnalyzeBriefing(c)
    [] c.q.tool = "codereview" -> CodereviewBriefing(c)
    [] c.q.tool = "debug"      -> DebugBriefing(c)
    [] c.q.tool = "precommit"  -> PrecommitBriefing(c)
    [] c.q.tool = "refactor"   -> RefactorBriefing(c)
    [] c.q.tool = "secaudit"   -> SecauditBriefing(c)
    [] c.q.tool = "testgen"    -> TestgenBriefing(c)
    [] c.q.tool = "thinkdeep"  -> ThinkdeepBriefing(c)
    [] OTHER                   -> Summary(c)

(* should_include_files_in_expert_prompt.                                  *)
IncludesFiles == {"analyze", "codereview", "precommit", "refactor", "secaudit", "testgen"}

(* A tool that put files into its own part does not get them again.        *)
AttachedFiles(c) ==
  IF c.q.tool \in IncludesFiles \/ Context(c).files = {} THEN FilesOf(c.history) ELSE {}

Briefing(c) == [Context(c) EXCEPT !.files = @ \cup AttachedFiles(c)]

----------------------------------------------------------------------------
(* The files of the step itself.                                           *)

(* Content is read on a last step only; other steps name their files.      *)
EmbedsFiles(q)     == ~q.next /\ q.files
ReferencesFiles(q) == q.next /\ q.files

(* file_context of the reply.  report: files were rendered since the tool  *)
(* last cleared its report; attempted: a provider was asked.               *)
FileContext(q, report, attempted) ==
  CASE report /\ attempted                           -> "embedded"
    [] report /\ ~attempted                          -> "reference_only"
    [] ~report /\ EmbedsFiles(q)                     -> "embedded"
    [] ~report /\ ReferencesFiles(q)                 -> "reference_only"
    [] OTHER                                         -> "none"
=============================================================================
