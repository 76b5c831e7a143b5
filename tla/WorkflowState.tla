---------------------------- MODULE WorkflowState ----------------------------
(***************************************************************************)
(* A multi-step investigation with the workflow tools                      *)
(* (tools/workflow/workflow_mixin.py).  Every call builds a fresh tool     *)
(* object, so what the earlier steps found lives in the turns of the       *)
(* conversation: a call restores the latest state its tool saved there,    *)
(* adds its own step, maybe asks an expert model, and saves the state      *)
(* again, on its reply or, when the provider failed, on its own input.     *)
(* One thread is modelled; the coordinator makes its calls one at a time   *)
(* (ConversationCoordination), so they interleave only with the thread's   *)
(* expiry and with their own cancellation.                                 *)
(***************************************************************************)
EXTENDS ExpertBriefing

CONSTANTS Requests,  \* what clients may ask; Admit fills in call and named
          Others,    \* tools that use the conversation and keep no workflow state
          MaxTurns,  \* MAX_CONVERSATION_TURNS
          MaxCalls   \* bound: the calls of a run

ASSUME WorkflowAssumption ==
  /\ Requests \subseteq RequestRecords
  /\ Others \cap Tools = {}
  /\ MaxTurns \in Nat /\ MaxCalls \in Nat

VARIABLES thread,       \* [alive, turns], a turn being [role, tool, state]
          call,         \* the call in progress
          reply,        \* the last reply
          count,        \* the calls made so far
          acknowledged  \* per tool: the steps whose replies told the client that
                        \* they are saved, of the investigation it is in, and
                        \* how its last guidance told it to proceed

vars == <<thread, call, reply, count, acknowledged>>

NoState == [history |-> <<>>, initial |-> 0, config |-> {}]
NoCall  == [phase |-> "idle"]
NoReply == [status |-> "none"]
NoGuide == Guide(0, "none", "none")
NoBriefing == [request |-> 0, steps |-> {}, issues |-> {}, files |-> {}, config |-> {}]

Turn(role, tool, state) == [role |-> role, tool |-> tool, state |-> state]

(* The initial request is not saved.                                       *)
StateWithoutRequest(c) == [history |-> c.history, initial |-> 0, config |-> c.config]

StateOf(c) == [history |-> c.history, initial |-> c.initial, config |-> c.config]

Init == /\ thread = [alive |-> TRUE, turns |-> <<>>]
        /\ call = NoCall /\ reply = NoReply /\ count = 0
        /\ acknowledged = [t \in Tools |-> [steps |-> <<>>, told |-> "none"]]

----------------------------------------------------------------------------
(* Admission: the input is saved before the tool runs.                     *)

HasRoom == MaxTurns - Len(thread.turns) >= 2

Admit(r) ==
  /\ call = NoCall /\ count < MaxCalls
  /\ Valid(r)
  /\ thread.alive /\ HasRoom
  /\ count' = count + 1
  /\ call' = [phase |-> "admitted",
              q |-> [r EXCEPT !.call = count', !.named = thread.turns # <<>>]]
  /\ thread' = [thread EXCEPT !.turns = Append(@, Turn("user", r.tool, NoState))]
  /\ reply' = NoReply
  /\ UNCHANGED acknowledged

(* A tool without workflow state (chat, clink) takes a turn of its own.    *)
AnotherTool(t) ==
  /\ call = NoCall /\ count < MaxCalls
  /\ thread.alive /\ HasRoom
  /\ count' = count + 1
  /\ thread' = [thread EXCEPT !.turns =
                  @ \o <<Turn("user", t, NoState), Turn("assistant", t, NoState)>>]
  /\ reply' = NoReply
  /\ UNCHANGED <<call, acknowledged>>

----------------------------------------------------------------------------
(* The step.                                                               *)

(* The turns a later step of a tool may restore its state from.            *)
(* Only replies are looked at.                                             *)
SavedOnReplies(tool) ==
  {i \in DOMAIN thread.turns : /\ thread.turns[i].tool = tool
                               /\ thread.turns[i].state # NoState
                               /\ thread.turns[i].role = "assistant"}

Saved(tool) == {i \in DOMAIN thread.turns : /\ thread.turns[i].tool = tool
                                            /\ thread.turns[i].state # NoState}

Latest(S) == CHOOSE i \in S : \A j \in S : j <= i

Restored(q) == IF q.number = 1 \/ Saved(q.tool) = {} THEN NoState
               ELSE thread.turns[Latest(Saved(q.tool))].state

(* The trace mode of the restored configuration: a first step finds none.  *)
TraceMode(config) == IF config = {} THEN "ask" ELSE "chosen"

(* A later step fails if the thread is gone by now; an invalid path or an  *)
(* exhausted file budget fails any step.                                   *)
StepFails ==
  /\ call.phase = "admitted"
  /\ call' = NoCall
  /\ reply' = [status |-> "failed", q |-> call.q, offered |-> FALSE]
  /\ UNCHANGED <<thread, count, acknowledged>>

Prepare ==
  /\ call.phase = "admitted"
  /\ thread.alive \/ call.q.number = 1
  /\ LET q == call.q
         s == Restored(q)
     IN call' = [phase   |-> "prepared", q |-> q,
                 history |-> Append(s.history, Recorded(q)),
                 initial |-> IF s.initial = 0 THEN q.call ELSE s.initial,
                 config  |-> ConfigBefore(q, s.config),
                 mode    |-> TraceMode(s.config),
                 attempted |-> FALSE, failed |-> FALSE,
                 report |-> EmbedsFiles(q), told |-> NoBriefing,
                 status |-> "in_progress", complete |-> FALSE,
                 actions |-> "none", guide |-> NoGuide]
  /\ UNCHANGED <<thread, reply, count, acknowledged>>

(* Another step was announced: the agent must investigate before it.       *)
Continue ==
  /\ call.phase = "prepared" /\ call.q.next
  /\ LET q == call.q
     IN call' = [call EXCEPT !.phase = "built", !.status = "pause",
                             !.actions = Actions(q, call.history, RequestConfidence(q), call.mode),
                             !.guide = Guidance(q, call.history, call.mode)]
  /\ UNCHANGED <<thread, reply, count, acknowledged>>

(* docgen refuses to finish while its counters differ.                     *)
MustDocumentMore(q) == q.tool = "docgen" /\ q.undocumented

ForceContinuation ==
  /\ call.phase = "prepared" /\ ~call.q.next /\ MustDocumentMore(call.q)
  /\ call' = [call EXCEPT !.phase = "built", !.status = "forced",
                          !.guide = Guide(call.q.number + 1, "work", "none")]
  /\ UNCHANGED <<thread, reply, count, acknowledged>>

AsksExpert(q, h) ==
  ~SkipsExpert(q) /\ q.tool \notin SelfContained /\ CallsExpert(q, h)

FinishLocally ==
  /\ call.phase = "prepared" /\ ~call.q.next /\ ~MustDocumentMore(call.q)
  /\ ~AsksExpert(call.q, call.history)
  /\ call' = [call EXCEPT !.phase = "built", !.complete = TRUE,
                          !.status = IF SkipsExpert(call.q) THEN "skipped" ELSE "local"]
  /\ UNCHANGED <<thread, reply, count, acknowledged>>

----------------------------------------------------------------------------
(* The expert.  provider_failed is set just before the request is sent.    *)

AskExpert ==
  /\ call.phase = "prepared" /\ ~call.q.next
  /\ AsksExpert(call.q, call.history)
  /\ call' = [call EXCEPT !.phase = "expert", !.attempted = TRUE,
                          !.failed = TRUE, !.complete = TRUE,
                          !.told = Briefing(call), !.report = Briefing(call).files # {}]
  /\ UNCHANGED <<thread, reply, count, acknowledged>>

(* An error completes the workflow like an analysis.                       *)
PromoteAlways(attempted, failed, report, status) ==
  call' = [call EXCEPT !.phase = "built", !.attempted = attempted, !.failed = failed,
                       !.report = report, !.status = status, !.complete = TRUE]

Promote(attempted, failed, report, status) ==
  call' = [call EXCEPT !.phase = "built", !.attempted = attempted, !.failed = failed,
                       !.report = report, !.status = status, !.complete = status # "error"]

(* The prompt cannot be built, so nothing is sent, before or after its     *)
(* files are rendered; or its size leaves no room for an answer, which is  *)
(* found when the call already counts as failed.                           *)
ExpertUnreachable ==
  /\ call.phase = "prepared" /\ ~call.q.next
  /\ AsksExpert(call.q, call.history)
  /\ LET rendered == Briefing(call).files # {}
     IN \/ Promote(FALSE, FALSE, FALSE, "error")
        \/ \E failed \in BOOLEAN : Promote(FALSE, failed, rendered, "error")
  /\ UNCHANGED <<thread, reply, count, acknowledged>>

(* The answer is an analysis, asks for files or a pause, or is JSON that   *)
(* reports an error of its own.                                            *)
ExpertAnswers ==
  /\ call.phase = "expert"
  /\ \E status \in {"analysis", "special", "error"} : Promote(TRUE, FALSE, call.report, status)
  /\ UNCHANGED <<thread, reply, count, acknowledged>>

(* An exception, or an empty answer.                                       *)
ExpertFails ==
  /\ call.phase = "expert"
  /\ Promote(TRUE, TRUE, call.report, "error")
  /\ UNCHANGED <<thread, reply, count, acknowledged>>

(* The request is cancelled while it waits: nothing more is written.       *)
Cancel ==
  /\ call.phase = "expert"
  /\ call' = NoCall
  /\ UNCHANGED <<thread, reply, count, acknowledged>>

----------------------------------------------------------------------------
(* The reply: the tool takes its configuration and renames the status,     *)
(* the state is saved, and an error is raised only after that.             *)

Customised ==
  [call EXCEPT !.config = ConfigAfter(call.q, call.config),
               !.status = IF call.q.tool = "tracer" /\ call.q.number = 1 /\ call.q.mode = "ask"
                          THEN "mode_selection" ELSE @]

Published(c, offered) ==
  [status |-> c.status, q |-> c.q, complete |-> c.complete, actions |-> c.actions,
   guide |-> c.guide, attempted |-> c.attempted, failed |-> c.failed,
   files |-> FileContext(c.q, c.report, c.attempted),
   offered |-> offered, steps |-> Len(c.history)]

(* The steps a client knows to be saved: a first step starts over.         *)
Acknowledge(q) ==
  acknowledged' = [acknowledged EXCEPT
    ![q.tool] = [steps |-> Append(IF q.number = 1 THEN <<>> ELSE @.steps, q.call),
                 told  |-> call.guide.pause]]

SaveOnReply ==
  /\ call.phase = "built" /\ ~call.failed /\ thread.alive
  /\ LET c == Customised
     IN /\ thread' = [thread EXCEPT !.turns =
                        Append(@, Turn("assistant", c.q.tool, StateOf(c)))]
        /\ reply' = Published(c, TRUE)
        /\ Acknowledge(c.q)
  /\ call' = NoCall
  /\ UNCHANGED count

SaveOnInput ==
  /\ call.phase = "built" /\ call.failed /\ thread.alive
  /\ LET c == Customised
     IN /\ thread' = [thread EXCEPT !.turns[Len(thread.turns)].state = StateOf(c)]
        /\ reply' = Published(c, TRUE)
        /\ Acknowledge(c.q)
  /\ call' = NoCall
  /\ UNCHANGED count

(* The thread expired: the reply warns that nothing was saved.             *)
ReplyUnsaved ==
  /\ call.phase = "built" /\ ~thread.alive
  /\ reply' = Published(Customised, FALSE)
  /\ call' = NoCall
  /\ UNCHANGED <<thread, count, acknowledged>>

Expire ==
  /\ thread.alive /\ thread.turns # <<>>
  /\ thread' = [thread EXCEPT !.alive = FALSE]
  /\ UNCHANGED <<call, reply, count, acknowledged>>

Next ==
  \/ \E r \in Requests : Admit(r)
  \/ \E t \in Others : AnotherTool(t)
  \/ Prepare \/ StepFails
  \/ Continue \/ ForceContinuation \/ FinishLocally
  \/ AskExpert \/ ExpertUnreachable \/ ExpertAnswers \/ ExpertFails \/ Cancel
  \/ SaveOnReply \/ SaveOnInput \/ ReplyUnsaved \/ Expire

Spec == Init /\ [][Next]_vars

----------------------------------------------------------------------------
(* Properties.                                                             *)

Working == call.phase \in {"prepared", "expert", "built"}

(* A step works on exactly the steps the client knows to be saved, in      *)
(* order, and its own: failures, cancellations, steps of other tools and   *)
(* the return of a provider failure in between lose and add none           *)
(* (restore_workflow_state, store_conversation_turn).                      *)
AcknowledgedIsRestored ==
  Working =>
    [i \in DOMAIN call.history |-> call.history[i].call]
      = Append(IF call.q.number = 1 THEN <<>> ELSE acknowledged[call.q.tool].steps, call.q.call)

(* An investigation never takes its request or its configuration from an   *)
(* earlier one on the same thread, and the expert hears of all of it: the  *)
(* request, the findings of every step, every issue a step kept, every     *)
(* file and the configuration, however often the tool object was rebuilt   *)
(* in between.  thinkdeep states its problem in the configuration, and     *)
(* analyze never passes issues on.                                         *)
InvestigationIsWhole ==
  /\ Working => /\ call.initial = call.history[1].call
                /\ call.config \subseteq StepsOf(call.history)
  /\ call.phase = "expert" =>
       /\ call.told.request = IF call.q.tool = "thinkdeep" THEN 0 ELSE call.history[1].call
       /\ call.told.steps = StepsOf(call.history)
       /\ call.told.issues = IF call.q.tool = "analyze" THEN {} ELSE IssuesOf(call.history)
       /\ call.told.files = FilesOf(call.history)
       /\ call.told.config = call.config

(* Completion is claimed only for a last step that did not fail, an expert *)
(* is credited only if it answered, files are said to be embedded only if  *)
(* they were sent, unless the reply is an error, and a reply stands in the *)
(* conversation unless the provider failed: then the state is on the input. *)
ReplyIsHonest ==
  (call = NoCall /\ reply.status \notin {"none", "failed"}) =>
    /\ reply.complete => ~reply.q.next /\ reply.status # "error"
    /\ reply.status \in {"analysis", "special"} => reply.attempted /\ ~reply.failed
    /\ reply.failed => ~reply.complete
    /\ reply.files = "embedded" => reply.attempted \/ reply.status = "error"
    /\ reply.offered =>
         \E i \in DOMAIN thread.turns :
           /\ thread.turns[i].state # NoState
           /\ Len(thread.turns[i].state.history) = reply.steps
           /\ thread.turns[i].state.history[reply.steps].call = reply.q.call
           /\ thread.turns[i].role = IF reply.failed THEN "user" ELSE "assistant"

(* What a reply tells the agent to do is kept: the actions a pause demands *)
(* are the ones its guidance repeats, unless the caller's confidence is    *)
(* null, and a review told to complete at once, because an expert will     *)
(* validate it, is not finished locally if it follows and asks for one     *)
(* (get_step_guidance_message, should_call_expert_analysis).               *)
GuidanceIsKept ==
  /\ (reply.status = "pause" /\ reply.q.confidence # "null") =>
       reply.guide.cites \in {"none", reply.actions}
  /\ (Working /\ call.status = "local") =>
       ~(acknowledged[call.q.tool].told = "now" /\ call.q.review = "external" /\ call.q.assistant)
=============================================================================
