------------------------------ MODULE MCWorkflow ------------------------------
(***************************************************************************)
(* Instances of WorkflowState: the requests of each tool that tell its     *)
(* tables apart, and Spec for one team of tools at a time.                 *)
(***************************************************************************)
EXTENDS WorkflowState

(* A last step that asks for an expert, found nothing, and gives no        *)
(* confidence of its own.                                                  *)
Plain == [tool |-> "analyze", call |-> 0, number |-> 1, total |-> 2, next |-> FALSE,
          confidence |-> "low", review |-> "external", assistant |-> TRUE, files |-> FALSE,
          issues |-> FALSE, named |-> FALSE, undocumented |-> FALSE,
          mode |-> "ask", adds |-> FALSE]

(* First steps name files where the tool insists on them.                  *)
Steps(tool) == {[Plain EXCEPT !.tool = tool, !.number = n, !.next = b,
                              !.files = n = 1 /\ tool \in StartsFromFiles] :
                  n \in 1..3, b \in BOOLEAN}

Confident(R, levels) == {[r EXCEPT !.confidence = c] : r \in R, c \in levels}
WithFiles(R) == R \cup {[r EXCEPT !.files = TRUE] : r \in R}
WithIssues(R) == R \cup {[r EXCEPT !.issues = TRUE] : r \in R}
Alone(R) == R \cup {[r EXCEPT !.assistant = FALSE] : r \in {s \in R : ~s.next}}

RequestsOf(tool) ==
  CASE tool = "analyze"   -> Alone(WithFiles(Steps(tool)))
    [] tool \in {"codereview", "precommit"} ->
         Alone(WithIssues(Steps(tool)))
         \cup {[r EXCEPT !.review = v] : r \in Steps(tool), v \in {"internal", "null"}}
    [] tool = "debug"     -> WithFiles(Steps(tool))
                             \cup Confident(Steps(tool), {"medium", "almost_certain", "certain", "null"})
    [] tool = "docgen"    -> Confident(Steps(tool), {"low", "certain"})
                             \cup {[r EXCEPT !.undocumented = TRUE] : r \in Steps(tool)}
    [] tool = "planner"   -> Steps(tool) \cup {[r EXCEPT !.total = 5, !.adds = TRUE] : r \in Steps(tool)}
    [] tool = "refactor"  -> WithFiles(Confident(Steps(tool), {"incomplete"}))
                             \cup Confident(Steps(tool), {"partial", "complete", "null"})
    [] tool = "secaudit"  -> WithIssues(Steps(tool)) \cup Confident(Steps(tool), {"certain"})
    [] tool = "testgen"   -> WithFiles(Steps(tool)) \cup Confident(Steps(tool), {"medium", "certain", "null"})
    [] tool = "thinkdeep" -> Confident(Steps(tool), {"exploring", "medium", "certain"})
                             \cup {[r EXCEPT !.adds = TRUE] : r \in Steps(tool)}
    [] tool = "tracer"    -> {[r EXCEPT !.mode = "precision"] : r \in Steps(tool)}
                             \cup Confident(Steps(tool), {"low", "high", "certain"})

AllRequests == UNION {RequestsOf(t) : t \in Tools}

(* The conversations explored: one tool with chat, or two tools.           *)
Teams == {{t, "chat"} : t \in Tools} \cup {{"docgen", "secaudit"}, {"thinkdeep", "planner"}}

OneTeam == \E T \in Teams : \A i \in DOMAIN thread.turns : thread.turns[i].tool \in T
=============================================================================
