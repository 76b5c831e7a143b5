------------------------- MODULE WorkflowState_proof -------------------------
(***************************************************************************)
(* Proofs about WorkflowState, for any requests, any other tools and any   *)
(* numbers of turns and calls: a step works on exactly the steps the       *)
(* client knows to be saved, an expert hears of the whole investigation,   *)
(* replies are honest and guidance is kept.                                *)
(*                                                                         *)
(* The invariant says of every state saved in the thread that it is the    *)
(* state of one investigation, and of the last one a tool saved that its   *)
(* steps are those acknowledged to the client.  A call in progress ends    *)
(* the thread with its own input, and holds such a state itself.           *)
(***************************************************************************)
EXTENDS WorkflowState, SequenceTheorems, TLAPS

StepRecords == [call : Nat, number : Nat, files : BOOLEAN, issues : BOOLEAN]
States      == [history : Seq(StepRecords), initial : Nat, config : SUBSET Nat]
Turns       == [role : {"user", "assistant"}, tool : Tools \cup Others, state : States]

\* The tools whose guidance has a fast track.
Reviews == {"codereview", "precommit"}

Calls(h) == [i \in DOMAIN h |-> h[i].call]

SavedIn(turns, tool) ==
  {i \in DOMAIN turns : turns[i].tool = tool /\ turns[i].state # NoState}

\* The last state of tool in turns holds the given steps.
Ends(turns, tool, steps) ==
  \/ SavedIn(turns, tool) = {} /\ steps = <<>>
  \/ \E i \in SavedIn(turns, tool) :
       /\ \A j \in SavedIn(turns, tool) : j <= i
       /\ Calls(turns[i].state.history) = steps

\* The state of one investigation with a tool, from its request on.
Sound(tool, s) ==
  /\ s.history # <<>> /\ s.initial = s.history[1].call /\ s.initial # 0
  /\ s.config \subseteq StepsOf(s.history)
  /\ tool \in {"debug", "testgen"} => s.config = {}
  /\ tool \in DropsIssues => IssuesOf(s.history) = {}

SoundTurns(turns) ==
  \A i \in DOMAIN turns : turns[i].state # NoState => Sound(turns[i].tool, turns[i].state)

ThreadInv ==
  /\ thread \in [alive : BOOLEAN, turns : Seq(Turns)]
  /\ SoundTurns(thread.turns)
  /\ count \in Nat

AckInv ==
  /\ DOMAIN acknowledged = Tools
  /\ \A t \in Tools :
       /\ Ends(thread.turns, t, acknowledged[t].steps)
       /\ acknowledged[t].told = "now" => t \in Reviews /\ thread.turns # <<>>

Fields == {"phase", "q", "history", "initial", "config", "mode", "attempted", "failed",
           "report", "told", "status", "complete", "actions", "guide"}

RequestInv ==
  /\ call.q \in RequestRecords /\ call.q.call # 0
  /\ thread.turns # <<>>
  /\ LET last == thread.turns[Len(thread.turns)]
     IN last.role = "user" /\ last.tool = call.q.tool
  /\ acknowledged[call.q.tool].told = "now" => call.q.named

StateInv ==
  /\ StateOf(call) \in States /\ Sound(call.q.tool, StateOf(call))
  /\ call.history[Len(call.history)].call = call.q.call
  /\ Calls(call.history) =
       Append(IF call.q.number = 1 THEN <<>> ELSE acknowledged[call.q.tool].steps, call.q.call)

\* What the expert was told is the whole investigation.
Told ==
  /\ call.told.request = IF call.q.tool = "thinkdeep" THEN 0 ELSE call.history[1].call
  /\ call.told.steps = StepsOf(call.history)
  /\ call.told.issues = IF call.q.tool = "analyze" THEN {} ELSE IssuesOf(call.history)
  /\ call.told.files = FilesOf(call.history)
  /\ call.told.config = call.config

PreparedInv ==
  /\ call.phase = "prepared" /\ call.status = "in_progress" /\ call.complete = FALSE
  /\ call.attempted = FALSE /\ call.failed = FALSE /\ call.report = EmbedsFiles(call.q)
  /\ call.guide = NoGuide

ExpertInv ==
  /\ call.phase = "expert" /\ call.status = "in_progress" /\ call.q.next = FALSE
  /\ call.report \in BOOLEAN /\ call.guide = NoGuide
  /\ call.q.tool \notin SelfContained
  /\ Told

BuiltInv ==
  /\ call.phase = "built"
  /\ call.complete \in BOOLEAN /\ call.failed \in BOOLEAN /\ call.attempted \in BOOLEAN
  /\ call.report \in BOOLEAN
  /\ call.complete => call.q.next = FALSE /\ call.status # "error"
  /\ call.status \in {"analysis", "special"} => call.attempted /\ ~call.failed
  /\ call.failed => ~call.complete
  /\ EmbedsFiles(call.q) /\ ~call.report => call.attempted \/ call.status = "error"
  /\ call.status = "error" => call.q.tool # "tracer"
  /\ call.status = "pause" /\ call.q.confidence # "null" =>
       call.guide.cites \in {"none", call.actions}
  /\ call.guide.pause = "now" => call.q.tool \in Reviews
  /\ call.status = "local" =>
       ~(acknowledged[call.q.tool].told = "now" /\ call.q.review = "external" /\ call.q.assistant)

CallInv ==
  \/ call = NoCall
  \/ /\ call = [phase |-> "admitted", q |-> call.q]
     /\ reply = NoReply /\ RequestInv
  \/ /\ DOMAIN call = Fields
     /\ reply = NoReply /\ RequestInv /\ StateInv
     /\ PreparedInv \/ ExpertInv \/ BuiltInv

Kept == (reply.status = "pause" /\ reply.q.confidence # "null") =>
           reply.guide.cites \in {"none", reply.actions}

ReplyInv == Kept /\ ReplyIsHonest

CInv == ThreadInv /\ AckInv /\ CallInv /\ ReplyInv

-----------------------------------------------------------------------------
(* The tables of the tools.                                                *)

LEMMA RecordedFacts ==
  ASSUME NEW q \in RequestRecords
  PROVE  /\ Recorded(q) \in StepRecords /\ Recorded(q).call = q.call
         /\ q.tool \in DropsIssues => Recorded(q).issues = FALSE
BY DEF RequestRecords, Recorded, StepRecords

\* A configuration is taken from the call itself or kept, and two tools keep none.
LEMMA ConfigFacts ==
  ASSUME NEW q \in RequestRecords, NEW c
  PROVE  /\ ConfigBefore(q, c) \subseteq c \cup {q.call}
         /\ ConfigAfter(q, c) \subseteq c \cup {q.call}
         /\ q.tool \in {"debug", "testgen"} => ConfigBefore(q, c) = c /\ ConfigAfter(q, c) = c
<1>1. q.tool \in Tools
  BY DEF RequestRecords
<1>2. ConfigBefore(q, c) \subseteq c \cup {q.call}
  BY DEF ConfigBefore, ThinkdeepConfig, SecauditConfig
<1>3. ConfigAfter(q, c) \subseteq c \cup {q.call}
  BY DEF ConfigAfter, AnalyzeConfig, CodereviewConfig, RefactorConfig, PrecommitConfig,
         TracerConfig, PlannerConfig
<1>4. q.tool \in {"debug", "testgen"} => ConfigBefore(q, c) = c /\ ConfigAfter(q, c) = c
  BY DEF ConfigBefore, ConfigAfter
<1> QED  BY <1>2, <1>3, <1>4

\* Every branch of the guidance that repeats actions repeats those of the same request.
LEMMA GuidanceFacts ==
  ASSUME NEW q \in RequestRecords, NEW h, NEW mode
  PROVE  /\ q.confidence # "null" =>
              Guidance(q, h, mode).cites \in {"none", Actions(q, h, RequestConfidence(q), mode)}
         /\ Guidance(q, h, mode).pause = "now" => q.tool \in Reviews
<1> DEFINE c == RequestConfidence(q)
           g == Guidance(q, h, mode)
<1>0. q.tool \in Tools /\ (q.confidence # "null" => c = q.confidence)
  BY DEF RequestRecords, RequestConfidence
<1>1. CASE q.tool = "analyze"
  <2>1. g = AnalyzeGuidance(q) /\ Actions(q, h, c, mode) = AnalyzeActions(q)
    BY <1>1 DEF Guidance, Actions
  <2> QED  BY <2>1 DEF AnalyzeGuidance, WorkThenNext, Guide
<1>2. CASE q.tool = "codereview"
  <2>1. g = CodereviewGuidance(q) /\ Actions(q, h, c, mode) = CodereviewActions(q)
    BY <1>2 DEF Guidance, Actions
  <2> QED  BY <1>2, <2>1 DEF CodereviewGuidance, ReviewGuidance, Guide, Reviews
<1>3. CASE q.tool = "debug"
  <2>1. g = DebugGuidance(q) /\ Actions(q, h, c, mode) = DebugActions(q, c)
    BY <1>3 DEF Guidance, Actions
  <2> QED  BY <1>0, <2>1 DEF DebugGuidance, WorkThenNext, Guide
<1>4. CASE q.tool = "docgen"
  <2>1. g = DocgenGuidance(q) /\ Actions(q, h, c, mode) = DocgenActions(q)
    BY <1>4 DEF Guidance, Actions
  <2> QED  BY <2>1 DEF DocgenGuidance, Guide
<1>5. CASE q.tool = "planner"
  <2>1. g = PlannerGuidance(q)
    BY <1>5 DEF Guidance
  <2> QED  BY <2>1 DEF PlannerGuidance, Guide
<1>6. CASE q.tool = "precommit"
  <2>1. g = PrecommitGuidance(q, h) /\ Actions(q, h, c, mode) = PrecommitActions(q, h)
    BY <1>6 DEF Guidance, Actions
  <2> QED  BY <1>6, <2>1 DEF PrecommitGuidance, ReviewGuidance, Guide, Reviews
<1>7. CASE q.tool = "refactor"
  <2>1. g = RefactorGuidance(q) /\ Actions(q, h, c, mode) = RefactorActions(q, c)
    BY <1>7 DEF Guidance, Actions
  <2> QED  BY <1>0, <2>1 DEF RefactorGuidance, WorkThenNext, Guide
<1>8. CASE q.tool = "secaudit"
  <2>1. g = SecauditGuidance(q) /\ Actions(q, h, c, mode) = SecauditActions(q)
    BY <1>8 DEF Guidance, Actions
  <2> QED  BY <2>1 DEF SecauditGuidance, WorkThenNext, Guide
<1>9. CASE q.tool = "testgen"
  <2>1. g = TestgenGuidance(q) /\ Actions(q, h, c, mode) = TestgenActions(q, c)
    BY <1>9 DEF Guidance, Actions
  <2> QED  BY <1>0, <2>1 DEF TestgenGuidance, WorkThenNext, Guide
<1>10. CASE q.tool = "thinkdeep"
  <2>1. g = ThinkdeepGuidance(q)
    BY <1>10 DEF Guidance
  <2> QED  BY <2>1 DEF ThinkdeepGuidance, Guide
<1>11. CASE q.tool = "tracer"
  <2>1. g = TracerGuidance(q, mode) /\ Actions(q, h, c, mode) = TracerActions(q, c, mode)
    BY <1>11 DEF Guidance, Actions
  <2> QED  BY <1>0, <2>1 DEF TracerGuidance, Guide
<1> QED
  BY <1>0, <1>1, <1>2, <1>3, <1>4, <1>5, <1>6, <1>7, <1>8, <1>9, <1>10, <1>11 DEF Tools

\* A review that was told to complete at once asks the expert.
LEMMA FastTrackFacts ==
  ASSUME NEW q \in RequestRecords, NEW h,
         q.tool \in Reviews, q.named, q.review = "external", q.assistant
  PROVE  CallsExpert(q, h) /\ q.tool \notin SelfContained
<1>1. CASE q.tool = "codereview"
  BY <1>1 DEF CallsExpert, CodereviewCalls, FastTrack, ReviewType, SelfContained
<1>2. CASE q.tool = "precommit"
  BY <1>2 DEF CallsExpert, PrecommitCalls, SelfContained
<1> QED  BY <1>1, <1>2 DEF Reviews

\* Only eight tools ask an expert.
Asking == {"analyze", "codereview", "debug", "precommit", "refactor", "secaudit", "testgen",
           "thinkdeep"}

LEMMA AskingFacts ==
  ASSUME NEW q \in RequestRecords, NEW h, CallsExpert(q, h)
  PROVE  q.tool \in Asking
BY DEF RequestRecords, Tools, Asking, CallsExpert

\* Whatever the frame of the tool, the expert is told of the whole state.
LEMMA BriefingFacts ==
  ASSUME NEW c, c.q.tool \in Asking,
         c.q.tool \in {"debug", "testgen"} => c.config = {},
         c.q.tool \in DropsIssues => IssuesOf(c.history) = {}
  PROVE  /\ Briefing(c).request = IF c.q.tool = "thinkdeep" THEN 0 ELSE c.initial
         /\ Briefing(c).steps = StepsOf(c.history)
         /\ Briefing(c).issues = IF c.q.tool = "analyze" THEN {} ELSE IssuesOf(c.history)
         /\ Briefing(c).files = FilesOf(c.history)
         /\ Briefing(c).config = c.config
<1> DEFINE s == Summary(c)
<1>0. s = [request |-> c.initial, steps |-> StepsOf(c.history), issues |-> {}, files |-> {}, config |-> {}]
  BY DEF Summary
<1> HIDE DEF s
<1>1. /\ DOMAIN Context(c) = {"request", "steps", "issues", "files", "config"}
      /\ Context(c).request = IF c.q.tool = "thinkdeep" THEN 0 ELSE c.initial
      /\ Context(c).steps = StepsOf(c.history)
      /\ Context(c).issues = IF c.q.tool = "analyze" THEN {} ELSE IssuesOf(c.history)
      /\ Context(c).files = IF c.q.tool = "debug" THEN FilesOf(c.history) ELSE {}
      /\ Context(c).config = c.config
  <2>1. CASE c.q.tool = "analyze"
    BY <1>0, <2>1 DEF Context, AnalyzeBriefing, s
  <2>2. CASE c.q.tool = "codereview"
    <3>1. Context(c) = [s EXCEPT !.config = c.config, !.issues = IssuesOf(c.history)]
      BY <2>2 DEF Context, CodereviewBriefing, s
    <3> QED  BY <1>0, <2>2, <3>1
  <2>3. CASE c.q.tool = "debug"
    BY <1>0, <2>3 DEF Context, DebugBriefing, s, DropsIssues
  <2>4. CASE c.q.tool = "precommit"
    <3>1. Context(c) = [s EXCEPT !.config = c.config, !.issues = IssuesOf(c.history)]
      BY <2>4 DEF Context, PrecommitBriefing, s
    <3> QED  BY <1>0, <2>4, <3>1
  <2>5. CASE c.q.tool = "refactor"
    <3>1. Context(c) = [s EXCEPT !.config = c.config, !.issues = IssuesOf(c.history)]
      BY <2>5 DEF Context, RefactorBriefing, s
    <3> QED  BY <1>0, <2>5, <3>1
  <2>6. CASE c.q.tool = "secaudit"
    <3>1. Context(c) = [s EXCEPT !.config = c.config, !.issues = IssuesOf(c.history)]
      BY <2>6 DEF Context, SecauditBriefing, s
    <3> QED  BY <1>0, <2>6, <3>1
  <2>7. CASE c.q.tool = "testgen"
    BY <1>0, <2>7 DEF Context, TestgenBriefing, s, DropsIssues
  <2>8. CASE c.q.tool = "thinkdeep"
    <3>1. Context(c) = [s EXCEPT !.request = 0, !.config = c.config, !.issues = IssuesOf(c.history)]
      BY <2>8 DEF Context, ThinkdeepBriefing, s
    <3> QED  BY <1>0, <2>8, <3>1
  <2> QED  BY <2>1, <2>2, <2>3, <2>4, <2>5, <2>6, <2>7, <2>8 DEF Asking
<1>2. AttachedFiles(c) = IF c.q.tool = "debug" /\ FilesOf(c.history) # {} THEN {} ELSE FilesOf(c.history)
  BY <1>1 DEF AttachedFiles, IncludesFiles, Asking
<1> QED  BY <1>1, <1>2 DEF Briefing

-----------------------------------------------------------------------------
(* The turns of a thread.                                                  *)

LEMMA TurnFacts ==
  ASSUME NEW turns \in Seq(Turns)
  PROVE  /\ Len(turns) \in Nat /\ DOMAIN turns = 1 .. Len(turns)
         /\ \A i \in DOMAIN turns :
              turns[i] \in Turns /\ turns[i].state \in States
  <1>1. \A i \in DOMAIN turns : turns[i] \in Turns
    OBVIOUS
  <1> QED  BY <1>1 DEF Turns

LEMMA AppendFacts ==
  ASSUME NEW turns \in Seq(Turns), NEW turn \in Turns
  PROVE  LET new == Append(turns, turn)
         IN  /\ new \in Seq(Turns) /\ Len(new) = Len(turns) + 1
             /\ new[Len(turns) + 1] = turn
             /\ \A i \in 1 .. Len(turns) : new[i] = turns[i]
OBVIOUS

\* A turn without state changes nothing of what is saved.
LEMMA AppendSilent ==
  ASSUME NEW turns \in Seq(Turns), NEW turn \in Turns, turn.state = NoState
  PROVE  /\ SoundTurns(turns) => SoundTurns(Append(turns, turn))
         /\ \A t, steps : Ends(turns, t, steps) => Ends(Append(turns, turn), t, steps)
<1> DEFINE new == Append(turns, turn)
<1>1. /\ Len(turns) \in Nat /\ DOMAIN turns = 1 .. Len(turns)
      /\ new \in Seq(Turns) /\ DOMAIN new = 1 .. (Len(turns) + 1)
      /\ new[Len(turns) + 1] = turn
      /\ \A i \in DOMAIN turns : new[i] = turns[i]
  BY AppendFacts, TurnFacts
<1> HIDE DEF new
<1>2. \A i \in DOMAIN new : new[i].state # NoState => i \in DOMAIN turns /\ new[i] = turns[i]
  BY <1>1
<1>3. \A t : SavedIn(new, t) = SavedIn(turns, t)
  BY <1>1, <1>2 DEF SavedIn
<1>4. SoundTurns(turns) => SoundTurns(new)
  BY <1>2 DEF SoundTurns
<1>5. ASSUME NEW t, NEW steps, Ends(turns, t, steps) PROVE Ends(new, t, steps)
  BY <1>1, <1>3, <1>5 DEF Ends, SavedIn
<1> QED  BY <1>4, <1>5 DEF new

\* The last turn takes a state of its tool: then that is the tool's last state, and the states
\* of the other tools stay.
LEMMA LastSaves ==
  ASSUME NEW turns \in Seq(Turns), NEW new \in Seq(Turns), NEW n \in Nat, n >= 1,
         Len(new) = n, Len(turns) \in {n - 1, n},
         \A i \in 1 .. (n - 1) : new[i] = turns[i],
         Len(turns) = n => turns[n].tool = new[n].tool,
         new[n].state # NoState
  PROVE  /\ Ends(new, new[n].tool, Calls(new[n].state.history))
         /\ \A t, steps : t # new[n].tool /\ Ends(turns, t, steps) => Ends(new, t, steps)
         /\ SoundTurns(turns) /\ Sound(new[n].tool, new[n].state) => SoundTurns(new)
<1>1. DOMAIN new = 1 .. n /\ DOMAIN turns \subseteq 1 .. n /\ 1 .. (n - 1) \subseteq DOMAIN turns
  BY TurnFacts
<1>2. \A i \in 1 .. n : i = n \/ i \in 1 .. (n - 1)
  OBVIOUS
<1>3. Ends(new, new[n].tool, Calls(new[n].state.history))
  <2>1. n \in SavedIn(new, new[n].tool) /\ \A j \in SavedIn(new, new[n].tool) : j <= n
    BY <1>1 DEF SavedIn
  <2> QED  BY <2>1 DEF Ends
<1>4. ASSUME NEW t, NEW steps, t # new[n].tool, Ends(turns, t, steps) PROVE Ends(new, t, steps)
  <2>1. SavedIn(new, t) \subseteq 1 .. (n - 1) /\ SavedIn(turns, t) \subseteq 1 .. (n - 1)
    BY <1>1, <1>2, <1>4 DEF SavedIn
  <2>2. SavedIn(new, t) = SavedIn(turns, t)
    BY <1>1, <2>1 DEF SavedIn
  <2> QED  BY <1>4, <2>1, <2>2 DEF Ends
<1>5. ASSUME SoundTurns(turns), Sound(new[n].tool, new[n].state) PROVE SoundTurns(new)
  BY <1>1, <1>2, <1>5 DEF SoundTurns
<1> QED  BY <1>3, <1>4, <1>5

LEMMA CallsAppend ==
  ASSUME NEW h \in Seq(StepRecords), NEW r \in StepRecords
  PROVE  /\ Append(h, r) \in Seq(StepRecords) /\ Append(h, r) # <<>>
         /\ Len(Append(h, r)) = Len(h) + 1 /\ Append(h, r)[Len(h) + 1] = r
         /\ Calls(Append(h, r)) = Append(Calls(h), r.call)
         /\ StepsOf(Append(h, r)) = StepsOf(h) \cup {r.call}
         /\ IssuesOf(h) = {} /\ ~r.issues => IssuesOf(Append(h, r)) = {}
<1> DEFINE new == Append(h, r)
<1>1. /\ Len(h) \in Nat /\ DOMAIN h = 1 .. Len(h) /\ new \in Seq(StepRecords)
      /\ Len(new) = Len(h) + 1 /\ DOMAIN new = 1 .. (Len(h) + 1) /\ new[Len(h) + 1] = r
      /\ \A i \in 1 .. Len(h) : new[i] = h[i]
      /\ \A i \in DOMAIN new : i = Len(h) + 1 \/ i \in DOMAIN h
      /\ \A i \in 1 .. Len(h) : h[i] \in StepRecords
  OBVIOUS
<1> HIDE DEF new
<1>2. Calls(new) = Append(Calls(h), r.call)
  <2>1. \A i \in 1 .. Len(h) : h[i].call \in Nat
    BY <1>1 DEF StepRecords
  <2>2. Calls(h) \in Seq(Nat) /\ Len(Calls(h)) = Len(h) /\ DOMAIN Calls(h) = 1 .. Len(h)
    BY <1>1, <2>1 DEF Calls
  <2>3. /\ DOMAIN Append(Calls(h), r.call) = 1 .. (Len(h) + 1)
        /\ \A i \in 1 .. (Len(h) + 1) :
             Append(Calls(h), r.call)[i] = IF i = Len(h) + 1 THEN r.call ELSE Calls(h)[i]
    BY <1>1, <2>2
  <2>4. \A i \in 1 .. (Len(h) + 1) :
          Calls(new)[i] = IF i = Len(h) + 1 THEN r.call ELSE Calls(h)[i]
    BY <1>1 DEF Calls
  <2>5. \A i \in 1 .. (Len(h) + 1) : new[i].call \in Nat
    BY <1>1 DEF StepRecords
  <2>6. Calls(new) \in Seq(Nat) /\ Len(Calls(new)) = Len(h) + 1
    BY <1>1, <2>5 DEF Calls
  <2>7. r.call \in Nat
    BY DEF StepRecords
  <2>8. Append(Calls(h), r.call) \in Seq(Nat) /\ Len(Append(Calls(h), r.call)) = Len(h) + 1
    BY <2>2, <2>7
  <2> QED  BY <2>3, <2>4, <2>6, <2>8, SeqEqual
<1>3. StepsOf(new) = StepsOf(h) \cup {r.call}
  BY <1>1 DEF StepsOf
<1>4. IssuesOf(h) = {} /\ ~r.issues => IssuesOf(new) = {}
  BY <1>1 DEF IssuesOf
<1> QED  BY <1>1, <1>2, <1>3, <1>4 DEF new

\* The state a call starts from is the last its tool saved, and the client knows its steps.
LEMMA RestoredFacts ==
  ASSUME ThreadInv, AckInv, NEW q \in RequestRecords
  PROVE  LET s == Restored(q)
         IN  /\ s \in States
             /\ s = NoState \/ Sound(q.tool, s)
             /\ q.number = 1 => s = NoState
             /\ Calls(s.history) = IF q.number = 1 THEN <<>> ELSE acknowledged[q.tool].steps
<1> DEFINE S == SavedIn(thread.turns, q.tool)
           steps == acknowledged[q.tool].steps
<1>0. S = Saved(q.tool) /\ q.tool \in Tools /\ NoState \in States /\ Calls(NoState.history) = <<>>
  BY DEF Saved, SavedIn, RequestRecords, States, NoState, Calls
<1>1. CASE q.number = 1
  BY <1>0, <1>1 DEF Restored
<1>2. CASE q.number # 1 /\ S = {}
  <2>1. Restored(q) = NoState
    BY <1>0, <1>2 DEF Restored
  <2>2. steps = <<>>
    BY <1>0, <1>2 DEF AckInv, Ends
  <2> QED  BY <1>0, <1>2, <2>1, <2>2
<1>3. CASE q.number # 1 /\ S # {}
  <2>1. PICK i \in S : (\A j \in S : j <= i) /\ Calls(thread.turns[i].state.history) = steps
    BY <1>0, <1>3 DEF AckInv, Ends
  <2>2. S \subseteq Nat
    BY TurnFacts DEF ThreadInv, SavedIn
  <2>3. \A k \in S : (\A j \in S : j <= k) => k = i
    BY <2>1, <2>2
  <2>4. Latest(S) = i
    BY <2>1, <2>3 DEF Latest
  <2>5. Restored(q) = thread.turns[i].state
    BY <1>0, <1>3, <2>4 DEF Restored
  <2>6. /\ thread.turns[i].tool = q.tool /\ thread.turns[i].state # NoState
        /\ thread.turns[i].state \in States /\ i \in DOMAIN thread.turns
    BY TurnFacts DEF ThreadInv, SavedIn
  <2>7. Sound(q.tool, thread.turns[i].state)
    BY <2>6 DEF ThreadInv, SoundTurns
  <2> QED  BY <1>3, <2>1, <2>5, <2>6, <2>7
<1> QED  BY <1>1, <1>2, <1>3

-----------------------------------------------------------------------------
(* What the invariant gives.                                               *)

LEMMA WorkingFacts ==
  ASSUME CInv, call.phase \in {"prepared", "expert", "built"}
  PROVE  /\ call # NoCall /\ DOMAIN call = Fields /\ reply = NoReply /\ RequestInv /\ StateInv
         /\ call.phase = "prepared" => PreparedInv
         /\ call.phase = "expert" => ExpertInv
         /\ call.phase = "built" => BuiltInv
<1>1. call # NoCall
  BY DEF NoCall
<1>2. ~(call = [phase |-> "admitted", q |-> call.q])
  OBVIOUS
<1> QED  BY <1>1, <1>2 DEF CInv, CallInv, PreparedInv, ExpertInv, BuiltInv

LEMMA CInvImplies ==
  CInv => AcknowledgedIsRestored /\ InvestigationIsWhole /\ ReplyIsHonest /\ GuidanceIsKept
<1> SUFFICES ASSUME CInv
             PROVE  AcknowledgedIsRestored /\ InvestigationIsWhole /\ ReplyIsHonest /\ GuidanceIsKept
  OBVIOUS
<1>1. AcknowledgedIsRestored
  BY WorkingFacts DEF AcknowledgedIsRestored, Working, StateInv, Calls
<1>2. InvestigationIsWhole
  <2>1. Working => call.initial = call.history[1].call /\ call.config \subseteq StepsOf(call.history)
    BY WorkingFacts DEF Working, StateInv, Sound, StateOf
  <2>2. call.phase = "expert" => Told
    BY WorkingFacts DEF ExpertInv
  <2> QED  BY <2>1, <2>2 DEF InvestigationIsWhole, Told
<1>3. ReplyIsHonest
  BY DEF CInv, ReplyInv
<1>4. GuidanceIsKept
  <2>1. Working /\ call.status = "local" =>
          ~(acknowledged[call.q.tool].told = "now" /\ call.q.review = "external" /\ call.q.assistant)
    BY WorkingFacts DEF Working, PreparedInv, ExpertInv, BuiltInv
  <2> QED  BY <2>1 DEF GuidanceIsKept, CInv, ReplyInv, Kept
<1> QED  BY <1>1, <1>2, <1>3, <1>4

-----------------------------------------------------------------------------
(* Steps.                                                                  *)

LEMMA InitCInv == Init => CInv
<1> SUFFICES ASSUME Init PROVE CInv
  OBVIOUS
<1>1. thread \in [alive : BOOLEAN, turns : Seq(Turns)] /\ thread.turns = <<>>
  BY DEF Init
<1>2. ThreadInv
  BY <1>1 DEF Init, ThreadInv, SoundTurns
<1>3. \A t \in Tools : acknowledged[t].steps = <<>> /\ acknowledged[t].told = "none"
  BY DEF Init
<1>4. AckInv
  BY <1>1, <1>3 DEF Init, AckInv, Ends, SavedIn
<1>5. ReplyInv
  BY DEF Init, ReplyInv, Kept, ReplyIsHonest, NoReply
<1> QED  BY <1>2, <1>4, <1>5 DEF Init, CInv, CallInv

LEMMA NoReplyKeeps == reply' = NoReply => ReplyInv'
BY DEF ReplyInv, Kept, ReplyIsHonest, NoReply

LEMMA ThreadKeeps ==
  ASSUME CInv, UNCHANGED <<thread, count, acknowledged>>
  PROVE  ThreadInv' /\ AckInv'
BY DEF CInv, ThreadInv, AckInv

\* A step of the call that keeps its request and its state.
LEMMA CallKeeps ==
  ASSUME CInv, call.phase \in {"prepared", "expert"},
         DOMAIN call' = Fields, call'.q = call.q, call'.history = call.history,
         call'.initial = call.initial, call'.config = call.config,
         UNCHANGED <<thread, reply, count, acknowledged>>,
         PreparedInv' \/ ExpertInv' \/ BuiltInv'
  PROVE  CInv'
<1>1. DOMAIN call = Fields /\ reply = NoReply /\ RequestInv /\ StateInv
  BY WorkingFacts
<1>2. RequestInv' /\ StateInv'
  BY <1>1 DEF RequestInv, StateInv, StateOf
<1>3. ThreadInv' /\ AckInv' /\ ReplyInv'
  BY <1>1, ThreadKeeps, NoReplyKeeps
<1>4. CallInv'
  BY <1>1, <1>2 DEF CallInv
<1> QED  BY <1>3, <1>4 DEF CInv

LEMMA AdmitKeeps ==
  ASSUME CInv, NEW r \in Requests, Admit(r)
  PROVE  CInv'
<1> DEFINE turn == Turn("user", r.tool, NoState)
           q == [r EXCEPT !.call = count', !.named = thread.turns # <<>>]
<1>1. /\ r \in RequestRecords /\ r.tool \in Tools /\ count \in Nat /\ count' = count + 1
      /\ thread' = [thread EXCEPT !.turns = Append(@, turn)]
      /\ call' = [phase |-> "admitted", q |-> q] /\ reply' = NoReply
      /\ acknowledged' = acknowledged
  BY WorkflowAssumption DEF Admit, CInv, ThreadInv, RequestRecords
<1>2. turn \in Turns /\ turn.state = NoState /\ turn.role = "user" /\ turn.tool = r.tool
  BY <1>1 DEF Turn, Turns, States, NoState
<1> HIDE DEF turn
<1>3. /\ thread.turns \in Seq(Turns) /\ thread'.turns = Append(thread.turns, turn)
      /\ thread' \in [alive : BOOLEAN, turns : Seq(Turns)]
      /\ thread'.turns # <<>> /\ Len(thread'.turns) = Len(thread.turns) + 1
      /\ thread'.turns[Len(thread.turns) + 1] = turn
  <2>1. thread \in [alive : BOOLEAN, turns : Seq(Turns)]
    BY DEF CInv, ThreadInv
  <2>2. thread.turns \in Seq(Turns)
    BY <2>1
  <2>3. thread'.turns = Append(thread.turns, turn) /\ thread'.alive = thread.alive
        /\ DOMAIN thread' = {"alive", "turns"}
    BY <1>1, <2>1
  <2>4. thread' \in [alive : BOOLEAN, turns : Seq(Turns)]
    BY <1>1, <1>2, <2>1, <2>2, AppendFacts
  <2>5. /\ Len(thread'.turns) = Len(thread.turns) + 1 /\ Len(thread.turns) \in Nat
        /\ thread'.turns[Len(thread.turns) + 1] = turn
    BY <1>2, <2>2, <2>3, AppendFacts
  <2>6. thread'.turns # <<>>
    BY <2>5
  <2> QED  BY <2>2, <2>3, <2>4, <2>5, <2>6
<1>4. /\ SoundTurns(thread'.turns)
      /\ \A t, steps : Ends(thread.turns, t, steps) => Ends(thread'.turns, t, steps)
  BY <1>2, <1>3, AppendSilent DEF CInv, ThreadInv
<1>5. ThreadInv'
  BY <1>1, <1>3, <1>4 DEF ThreadInv
<1>6. AckInv'
  BY <1>1, <1>3, <1>4 DEF CInv, AckInv
<1>7. /\ q \in RequestRecords /\ q.call # 0 /\ q.tool = r.tool
      /\ q.named = (thread.turns # <<>>)
  <2>1. count' \in Nat /\ count' # 0 /\ (thread.turns # <<>>) \in BOOLEAN
    BY <1>1
  <2> QED  BY <1>1, <2>1 DEF RequestRecords
<1>8. acknowledged[r.tool].told = "now" => q.named
  BY <1>1, <1>7 DEF CInv, AckInv
<1> HIDE DEF q
<1>9. RequestInv'
  BY <1>1, <1>2, <1>3, <1>7, <1>8 DEF RequestInv
<1>10. CallInv'
  BY <1>1, <1>9 DEF CallInv
<1> QED  BY <1>1, <1>5, <1>6, <1>10, NoReplyKeeps DEF CInv

LEMMA AnotherToolKeeps ==
  ASSUME CInv, NEW t \in Others, AnotherTool(t)
  PROVE  CInv'
<1> DEFINE a == Turn("user", t, NoState)
           b == Turn("assistant", t, NoState)
<1>1. /\ count \in Nat /\ count' = count + 1 /\ call = NoCall /\ call' = NoCall
      /\ thread' = [thread EXCEPT !.turns = @ \o <<a, b>>] /\ reply' = NoReply
      /\ acknowledged' = acknowledged
  BY DEF AnotherTool, CInv, ThreadInv
<1>2. /\ a \in Turns /\ a.state = NoState /\ b \in Turns /\ b.state = NoState
  BY DEF Turn, Turns, States, NoState
<1> HIDE DEF a, b
<1>3. /\ thread.turns \in Seq(Turns)
      /\ thread.turns \o <<a, b>> = Append(Append(thread.turns, a), b)
      /\ Append(thread.turns, a) \in Seq(Turns)
      /\ thread.turns \o <<a, b>> \in Seq(Turns)
      /\ thread.turns \o <<a, b>> # <<>>
  BY <1>2 DEF CInv, ThreadInv
<1>4. /\ thread'.turns = thread.turns \o <<a, b>>
      /\ thread' \in [alive : BOOLEAN, turns : Seq(Turns)]
  BY <1>1, <1>3 DEF CInv, ThreadInv
<1>5. /\ SoundTurns(thread'.turns)
      /\ \A u, steps : Ends(thread.turns, u, steps) => Ends(thread'.turns, u, steps)
  BY <1>2, <1>3, <1>4, AppendSilent DEF CInv, ThreadInv
<1>6. ThreadInv'
  BY <1>1, <1>4, <1>5 DEF ThreadInv
<1>7. AckInv'
  BY <1>1, <1>3, <1>4, <1>5 DEF CInv, AckInv
<1> QED  BY <1>1, <1>6, <1>7, NoReplyKeeps DEF CInv, CallInv

LEMMA PrepareKeeps ==
  ASSUME CInv, Prepare
  PROVE  CInv'
<1> DEFINE q == call.q
           s == Restored(q)
<1>1. /\ call = [phase |-> "admitted", q |-> q] /\ reply = NoReply /\ RequestInv
  <2>1. call.phase = "admitted" /\ call # NoCall
    BY DEF Prepare, NoCall
  <2> QED  BY <2>1 DEF CInv, CallInv, PreparedInv, ExpertInv, BuiltInv
<1>2. /\ q \in RequestRecords /\ q.call \in Nat /\ q.call # 0
  BY <1>1 DEF RequestInv, RequestRecords
<1>3. /\ s \in States /\ (s = NoState \/ Sound(q.tool, s)) /\ (q.number = 1 => s = NoState)
      /\ Calls(s.history) = IF q.number = 1 THEN <<>> ELSE acknowledged[q.tool].steps
  BY <1>2, RestoredFacts DEF CInv
<1>4. /\ call'.phase = "prepared" /\ call'.q = q /\ DOMAIN call' = Fields
      /\ call'.history = Append(s.history, Recorded(q))
      /\ call'.initial = IF s.initial = 0 THEN q.call ELSE s.initial
      /\ call'.config = ConfigBefore(q, s.config)
      /\ call'.attempted = FALSE /\ call'.failed = FALSE /\ call'.report = EmbedsFiles(q)
      /\ call'.status = "in_progress" /\ call'.complete = FALSE /\ call'.guide = NoGuide
      /\ UNCHANGED <<thread, reply, count, acknowledged>>
  BY DEF Prepare, Fields
<1> HIDE DEF s
<1>5. /\ s.history \in Seq(StepRecords) /\ s.initial \in Nat /\ s.config \in SUBSET Nat
      /\ Len(s.history) \in Nat
  BY <1>3 DEF States
<1>6. /\ Recorded(q) \in StepRecords /\ Recorded(q).call = q.call
      /\ q.tool \in DropsIssues => Recorded(q).issues = FALSE
  BY <1>2, RecordedFacts
<1>7. /\ ConfigBefore(q, s.config) \subseteq s.config \cup {q.call}
      /\ q.tool \in {"debug", "testgen"} => ConfigBefore(q, s.config) = s.config
  BY <1>2, ConfigFacts
<1>8. /\ call'.history \in Seq(StepRecords) /\ call'.history # <<>>
      /\ Len(call'.history) = Len(s.history) + 1
      /\ call'.history[Len(s.history) + 1] = Recorded(q)
      /\ Calls(call'.history) = Append(Calls(s.history), q.call)
      /\ StepsOf(call'.history) = StepsOf(s.history) \cup {q.call}
      /\ IssuesOf(s.history) = {} /\ q.tool \in DropsIssues => IssuesOf(call'.history) = {}
  BY <1>4, <1>5, <1>6, CallsAppend
<1>9. /\ call'.initial = call'.history[1].call /\ call'.initial # 0 /\ call'.initial \in Nat
      /\ call'.config \subseteq StepsOf(call'.history) /\ call'.config \in SUBSET Nat
      /\ q.tool \in {"debug", "testgen"} => call'.config = {}
      /\ q.tool \in DropsIssues => IssuesOf(call'.history) = {}
  <2>1. CASE s = NoState
    <3>1. s.history = <<>> /\ s.initial = 0 /\ s.config = {} /\ IssuesOf(s.history) = {}
      BY <2>1 DEF NoState, IssuesOf
    <3> QED  BY <1>2, <1>4, <1>6, <1>7, <1>8, <3>1
  <2>2. CASE Sound(q.tool, s)
    <3>1. Len(s.history) >= 1 /\ s.history[1] = call'.history[1]
      <4>1. s.history # <<>>
        BY <2>2 DEF Sound
      <4> QED  BY <1>4, <1>5, <1>6, <4>1
    <3> QED  BY <1>2, <1>4, <1>5, <1>7, <1>8, <2>2, <3>1 DEF Sound
  <2> QED  BY <1>3, <2>1, <2>2
<1>10. StateOf(call') \in States /\ Sound(q.tool, StateOf(call'))
  BY <1>8, <1>9 DEF StateOf, States, Sound
<1>11. RequestInv' /\ StateInv'
  <2>1. RequestInv'
    BY <1>1, <1>4 DEF RequestInv
  <2>2. call'.history[Len(call'.history)].call = q.call
    BY <1>6, <1>8
  <2> QED  BY <1>3, <1>4, <1>8, <1>10, <2>1, <2>2 DEF StateInv
<1>12. PreparedInv'
  BY <1>4 DEF PreparedInv
<1>13. CallInv'
  BY <1>1, <1>4, <1>11, <1>12 DEF CallInv
<1> QED  BY <1>1, <1>4, <1>13, ThreadKeeps, NoReplyKeeps DEF CInv

LEMMA ContinueKeeps ==
  ASSUME CInv, Continue
  PROVE  CInv'
<1> DEFINE q == call.q
<1>1. /\ DOMAIN call = Fields /\ PreparedInv /\ RequestInv /\ q.next
  BY WorkingFacts DEF Continue
<1>2. /\ call'.phase = "built" /\ call'.status = "pause"
      /\ call'.actions = Actions(q, call.history, RequestConfidence(q), call.mode)
      /\ call'.guide = Guidance(q, call.history, call.mode)
      /\ DOMAIN call' = Fields /\ call'.q = q /\ call'.history = call.history
      /\ call'.initial = call.initial /\ call'.config = call.config
      /\ call'.complete = call.complete /\ call'.failed = call.failed
      /\ call'.attempted = call.attempted /\ call'.report = call.report
      /\ UNCHANGED <<thread, reply, count, acknowledged>>
  BY <1>1 DEF Continue, Fields
<1>3. /\ q.confidence # "null" => call'.guide.cites \in {"none", call'.actions}
      /\ call'.guide.pause = "now" => q.tool \in Reviews
  BY <1>1, <1>2, GuidanceFacts DEF RequestInv
<1>4. EmbedsFiles(q) \in BOOLEAN
  BY DEF EmbedsFiles
<1>5. BuiltInv'
  BY <1>1, <1>2, <1>3, <1>4 DEF BuiltInv, PreparedInv
<1> QED  BY <1>2, <1>5, CallKeeps DEF Continue

LEMMA ForceContinuationKeeps ==
  ASSUME CInv, ForceContinuation
  PROVE  CInv'
<1>1. /\ DOMAIN call = Fields /\ PreparedInv
  BY WorkingFacts DEF ForceContinuation
<1>2. /\ call'.phase = "built" /\ call'.status = "forced"
      /\ call'.guide = Guide(call.q.number + 1, "work", "none")
      /\ DOMAIN call' = Fields /\ call'.q = call.q /\ call'.history = call.history
      /\ call'.initial = call.initial /\ call'.config = call.config
      /\ call'.complete = call.complete /\ call'.failed = call.failed
      /\ call'.attempted = call.attempted /\ call'.report = call.report
      /\ UNCHANGED <<thread, reply, count, acknowledged>>
  BY <1>1 DEF ForceContinuation, Fields
<1>3. EmbedsFiles(call.q) \in BOOLEAN /\ call'.guide.pause # "now"
  BY <1>2 DEF EmbedsFiles, Guide
<1>4. BuiltInv'
  BY <1>1, <1>2, <1>3 DEF BuiltInv, PreparedInv
<1> QED  BY <1>2, <1>4, CallKeeps DEF ForceContinuation

LEMMA FinishLocallyKeeps ==
  ASSUME CInv, FinishLocally
  PROVE  CInv'
<1> DEFINE q == call.q
<1>1. /\ DOMAIN call = Fields /\ PreparedInv /\ RequestInv /\ ~q.next
      /\ q \in RequestRecords /\ q.tool \in Tools
  BY WorkingFacts DEF FinishLocally, RequestInv, RequestRecords
<1>2. /\ call'.phase = "built" /\ call'.complete = TRUE
      /\ call'.status = IF SkipsExpert(q) THEN "skipped" ELSE "local"
      /\ DOMAIN call' = Fields /\ call'.q = q /\ call'.history = call.history
      /\ call'.initial = call.initial /\ call'.config = call.config
      /\ call'.failed = call.failed /\ call'.guide = call.guide
      /\ call'.attempted = call.attempted /\ call'.report = call.report
      /\ UNCHANGED <<thread, reply, count, acknowledged>>
  BY <1>1 DEF FinishLocally, Fields
<1>3. ~AsksExpert(q, call.history)
  BY DEF FinishLocally
<1>4. ~SkipsExpert(q) => ~(acknowledged[q.tool].told = "now" /\ q.review = "external" /\ q.assistant)
  <2> SUFFICES ASSUME ~SkipsExpert(q), acknowledged[q.tool].told = "now", q.review = "external", q.assistant
               PROVE  FALSE
    OBVIOUS
  <2>1. q.tool \in Reviews /\ q.named
    BY <1>1 DEF CInv, AckInv, RequestInv
  <2>2. CallsExpert(q, call.history) /\ q.tool \notin SelfContained
    BY <1>1, <2>1, FastTrackFacts
  <2> QED  BY <1>3, <2>2 DEF AsksExpert
<1>5. EmbedsFiles(q) \in BOOLEAN /\ q.next = FALSE
  BY <1>1 DEF EmbedsFiles, RequestRecords
<1>6. call'.status \in {"skipped", "local"} /\ (call'.status = "local" => ~SkipsExpert(q))
  BY <1>2
<1>7. call'.guide.pause = "now" => q.tool \in Reviews
  BY <1>1, <1>2 DEF PreparedInv, NoGuide, Guide
<1>8. BuiltInv'
  BY <1>1, <1>2, <1>4, <1>5, <1>6, <1>7 DEF BuiltInv, PreparedInv
<1> QED  BY <1>2, <1>8, CallKeeps DEF FinishLocally

\* A call that goes to the expert.
LEMMA ExpertFacts ==
  ASSUME CInv, call.phase = "prepared", ~call.q.next, AsksExpert(call.q, call.history)
  PROVE  /\ call.q.next = FALSE /\ call.q.tool \in Asking
         /\ call.q.tool \notin SelfContained /\ call.q.tool # "tracer"
         /\ Briefing(call).request = IF call.q.tool = "thinkdeep" THEN 0 ELSE call.history[1].call
         /\ Briefing(call).steps = StepsOf(call.history)
         /\ Briefing(call).issues = IF call.q.tool = "analyze" THEN {} ELSE IssuesOf(call.history)
         /\ Briefing(call).files = FilesOf(call.history)
         /\ Briefing(call).config = call.config
<1>1. call.q \in RequestRecords /\ StateInv
  BY WorkingFacts DEF RequestInv
<1>2. /\ call.q.tool \in Asking /\ call.q.tool \notin SelfContained /\ call.q.next = FALSE
  BY <1>1, AskingFacts DEF AsksExpert, RequestRecords
<1>3. /\ call.q.tool \in {"debug", "testgen"} => call.config = {}
      /\ call.q.tool \in DropsIssues => IssuesOf(call.history) = {}
      /\ call.initial = call.history[1].call
  BY <1>1 DEF StateInv, Sound, StateOf
<1> QED  BY <1>2, <1>3, BriefingFacts DEF SelfContained

LEMMA AskExpertKeeps ==
  ASSUME CInv, AskExpert
  PROVE  CInv'
<1>1. /\ DOMAIN call = Fields /\ PreparedInv
  BY WorkingFacts DEF AskExpert
<1>2. /\ call'.phase = "expert" /\ call'.told = Briefing(call) /\ call'.status = call.status
      /\ DOMAIN call' = Fields /\ call'.q = call.q /\ call'.history = call.history
      /\ call'.initial = call.initial /\ call'.config = call.config
      /\ call'.report = (Briefing(call).files # {}) /\ call'.guide = call.guide
      /\ UNCHANGED <<thread, reply, count, acknowledged>>
  BY <1>1 DEF AskExpert, Fields
<1>3. ExpertInv'
  BY <1>1, <1>2, ExpertFacts DEF AskExpert, ExpertInv, Told, PreparedInv
<1> QED  BY <1>2, <1>3, CallKeeps DEF AskExpert

\* An expert that answered, failed or could not be asked.
LEMMA PromoteKeeps ==
  ASSUME CInv, call.phase \in {"prepared", "expert"}, call.q.next = FALSE,
         call.q.tool \notin SelfContained,
         NEW attempted \in BOOLEAN, NEW failed \in BOOLEAN, NEW report \in BOOLEAN, NEW status,
         Promote(attempted, failed, report, status),
         \/ status = "error"
         \/ status \in {"analysis", "special"} /\ attempted /\ ~failed,
         UNCHANGED <<thread, reply, count, acknowledged>>
  PROVE  CInv'
<1>1. /\ DOMAIN call = Fields
      /\ call.guide.pause = "now" => call.q.tool \in Reviews
  <2>1. DOMAIN call = Fields /\ (PreparedInv \/ ExpertInv)
    BY WorkingFacts
  <2>2. call.guide = NoGuide
    BY <2>1 DEF PreparedInv, ExpertInv
  <2> QED  BY <2>1, <2>2 DEF NoGuide, Guide
<1>2. /\ call'.phase = "built" /\ call'.attempted = attempted /\ call'.failed = failed
      /\ call'.report = report /\ call'.status = status /\ call'.complete = (status # "error")
      /\ DOMAIN call' = Fields /\ call'.q = call.q /\ call'.history = call.history
      /\ call'.initial = call.initial /\ call'.config = call.config /\ call'.guide = call.guide
  BY <1>1 DEF Promote, Fields
<1>3. call.q.tool # "tracer"
  BY DEF SelfContained
<1>4. BuiltInv'
  BY <1>1, <1>2, <1>3 DEF BuiltInv
<1> QED  BY <1>2, <1>4, CallKeeps

LEMMA ExpertUnreachableKeeps ==
  ASSUME CInv, ExpertUnreachable
  PROVE  CInv'
<1>1. /\ call.phase = "prepared" /\ call.q.next = FALSE /\ call.q.tool \notin SelfContained
      /\ UNCHANGED <<thread, reply, count, acknowledged>>
  BY ExpertFacts DEF ExpertUnreachable
<1>2. CASE Promote(FALSE, FALSE, FALSE, "error")
  BY <1>1, <1>2, PromoteKeeps
<1>3. ASSUME NEW failed \in BOOLEAN, Promote(FALSE, failed, Briefing(call).files # {}, "error")
      PROVE  CInv'
  <2>1. PICK rendered \in BOOLEAN : rendered = (Briefing(call).files # {})
    OBVIOUS
  <2>2. Promote(FALSE, failed, rendered, "error")
    BY <1>3, <2>1
  <2> QED  BY <1>1, <2>2, PromoteKeeps
<1> QED  BY <1>2, <1>3 DEF ExpertUnreachable

LEMMA ExpertEndsKeeps ==
  ASSUME CInv, ExpertAnswers \/ ExpertFails
  PROVE  CInv'
<1>1. /\ call.phase = "expert" /\ UNCHANGED <<thread, reply, count, acknowledged>>
  BY DEF ExpertAnswers, ExpertFails
<1>2. call.q.next = FALSE /\ call.q.tool \notin SelfContained /\ call.report \in BOOLEAN
  BY <1>1, WorkingFacts DEF ExpertInv
<1>3. ASSUME NEW status \in {"analysis", "special", "error"},
             Promote(TRUE, FALSE, call.report, status)
      PROVE  CInv'
  BY <1>1, <1>2, <1>3, PromoteKeeps
<1>4. CASE Promote(TRUE, TRUE, call.report, "error")
  BY <1>1, <1>2, <1>4, PromoteKeeps
<1> QED  BY <1>3, <1>4 DEF ExpertAnswers, ExpertFails

\* A call that ends without an outcome.
LEMMA StepFailsKeeps ==
  ASSUME CInv, StepFails
  PROVE  CInv'
<1>1. call' = NoCall /\ reply'.status = "failed" /\ UNCHANGED <<thread, count, acknowledged>>
  BY DEF StepFails
<1>2. ReplyInv'
  BY <1>1 DEF ReplyInv, Kept, ReplyIsHonest
<1> QED  BY <1>1, <1>2, ThreadKeeps DEF CInv, CallInv

LEMMA CancelKeeps ==
  ASSUME CInv, Cancel
  PROVE  CInv'
<1>1. call' = NoCall /\ reply' = NoReply /\ UNCHANGED <<thread, count, acknowledged>>
  BY WorkingFacts DEF Cancel
<1> QED  BY <1>1, ThreadKeeps, NoReplyKeeps DEF CInv, CallInv

\* What the tool adds when it customises its response keeps the state of the investigation.
LEMMA CustomisedFacts ==
  ASSUME CInv, call.phase = "built"
  PROVE  LET c == Customised
         IN  /\ c.q = call.q /\ c.history = call.history /\ c.guide = call.guide
             /\ c.complete = call.complete /\ c.actions = call.actions
             /\ c.attempted = call.attempted /\ c.failed = call.failed /\ c.report = call.report
             /\ c.status = call.status \/ (c.status = "mode_selection" /\ c.q.tool = "tracer")
             /\ StateOf(c) \in States /\ StateOf(c) # NoState /\ Sound(c.q.tool, StateOf(c))
             /\ StateOf(c).history = call.history
<1> DEFINE c == Customised
<1>1. DOMAIN call = Fields /\ StateInv /\ call.q \in RequestRecords
  BY WorkingFacts DEF RequestInv
<1>2. /\ c.q = call.q /\ c.history = call.history /\ c.guide = call.guide
      /\ c.complete = call.complete /\ c.actions = call.actions /\ c.initial = call.initial
      /\ c.attempted = call.attempted /\ c.failed = call.failed /\ c.report = call.report
      /\ c.status = call.status \/ (c.status = "mode_selection" /\ c.q.tool = "tracer")
      /\ c.config = ConfigAfter(call.q, call.config)
  BY <1>1 DEF Customised, Fields
<1> HIDE DEF c
<1>3. /\ call.history \in Seq(StepRecords) /\ call.initial \in Nat /\ call.config \in SUBSET Nat
      /\ call.history # <<>> /\ call.initial = call.history[1].call /\ call.initial # 0
      /\ call.config \subseteq StepsOf(call.history)
      /\ call.q.tool \in {"debug", "testgen"} => call.config = {}
      /\ call.q.tool \in DropsIssues => IssuesOf(call.history) = {}
      /\ call.history[Len(call.history)].call = call.q.call
  BY <1>1 DEF StateInv, Sound, StateOf, States
<1>4. call.q.call \in StepsOf(call.history) /\ call.q.call \in Nat
  <2>1. Len(call.history) \in DOMAIN call.history
    BY <1>3
  <2> QED  BY <1>1, <1>3, <2>1 DEF StepsOf, RequestRecords
<1>5. /\ c.config \subseteq call.config \cup {call.q.call}
      /\ call.q.tool \in {"debug", "testgen"} => c.config = call.config
  BY <1>1, <1>2, ConfigFacts
<1>6. StateOf(c) \in States /\ Sound(c.q.tool, StateOf(c)) /\ StateOf(c).history = call.history
  BY <1>2, <1>3, <1>4, <1>5 DEF StateOf, States, Sound
<1>7. StateOf(c) # NoState
  BY <1>3, <1>6 DEF NoState
<1> QED  BY <1>2, <1>6, <1>7 DEF c

\* A reply that is honest about the call keeps to what a reader can check of it.
LEMMA PublishedKeeps ==
  ASSUME CInv, call.phase = "built", NEW offered \in BOOLEAN,
         reply' = Published(Customised, offered),
         offered =>
           \E i \in DOMAIN thread'.turns :
             /\ thread'.turns[i].state # NoState
             /\ thread'.turns[i].state.history = call.history
             /\ thread'.turns[i].role = IF call.failed THEN "user" ELSE "assistant"
  PROVE  ReplyInv'
<1>1. BuiltInv /\ StateInv /\ call.q \in RequestRecords
  BY WorkingFacts DEF RequestInv
<1>2. PICK c : c = Customised
  OBVIOUS
<1>3. /\ c.q = call.q /\ c.history = call.history /\ c.guide = call.guide
      /\ c.complete = call.complete /\ c.actions = call.actions
      /\ c.attempted = call.attempted /\ c.failed = call.failed /\ c.report = call.report
      /\ c.status = call.status \/ (c.status = "mode_selection" /\ c.q.tool = "tracer")
  BY <1>2, CustomisedFacts
<1>4. /\ reply'.status = c.status /\ reply'.q = call.q /\ reply'.complete = call.complete
      /\ reply'.actions = call.actions /\ reply'.guide = call.guide
      /\ reply'.attempted = call.attempted /\ reply'.failed = call.failed
      /\ reply'.files = FileContext(call.q, call.report, call.attempted)
      /\ reply'.offered = offered /\ reply'.steps = Len(call.history)
  BY <1>2, <1>3 DEF Published
<1>5. Kept'
  BY <1>1, <1>3, <1>4 DEF Kept, BuiltInv
<1>6. reply'.complete => ~reply'.q.next /\ reply'.status # "error"
  BY <1>1, <1>3, <1>4 DEF BuiltInv
<1>7. /\ reply'.status \in {"analysis", "special"} => reply'.attempted /\ ~reply'.failed
      /\ reply'.failed => ~reply'.complete
  BY <1>1, <1>3, <1>4 DEF BuiltInv
<1>8. reply'.files = "embedded" => reply'.attempted \/ reply'.status = "error"
  <2>1. call.report \in BOOLEAN /\ call.attempted \in BOOLEAN
    BY <1>1 DEF BuiltInv
  <2>2. FileContext(call.q, call.report, call.attempted) = "embedded" /\ ~call.attempted =>
          ~call.report /\ EmbedsFiles(call.q)
    BY <2>1 DEF FileContext
  <2>3. call.status = "error" => c.status = "error"
    BY <1>1, <1>3 DEF BuiltInv
  <2> QED  BY <1>1, <1>4, <2>1, <2>2, <2>3 DEF BuiltInv
<1>9. call.history[Len(call.history)].call = call.q.call
  BY <1>1 DEF StateInv
<1> QED  BY <1>4, <1>5, <1>6, <1>7, <1>8, <1>9 DEF ReplyInv, ReplyIsHonest

\* The state is saved: on a turn of the reply, or on the input.
LEMMA SaveKeeps ==
  ASSUME CInv, call.phase = "built", call' = NoCall, count' = count,
         reply' = Published(Customised, TRUE), Acknowledge(call.q),
         thread' \in [alive : BOOLEAN, turns : Seq(Turns)],
         NEW n \in Nat, n >= 1, Len(thread'.turns) = n, Len(thread.turns) \in {n - 1, n},
         \A i \in 1 .. (n - 1) : thread'.turns[i] = thread.turns[i],
         Len(thread.turns) = n => thread.turns[n].tool = call.q.tool,
         thread'.turns[n].tool = call.q.tool, thread'.turns[n].state = StateOf(Customised),
         thread'.turns[n].role = IF call.failed THEN "user" ELSE "assistant"
  PROVE  CInv'
<1> DEFINE t == call.q.tool
<1>1. BuiltInv /\ StateInv /\ t \in Tools
  BY WorkingFacts DEF RequestInv, RequestRecords
<1>2. PICK s \in States : s = StateOf(Customised)
  BY CustomisedFacts
<1>3. /\ thread'.turns[n].state = s /\ s # NoState /\ Sound(t, s) /\ s.history = call.history
      /\ thread'.turns[n].tool = t
  BY <1>2, CustomisedFacts
<1>4. thread.turns \in Seq(Turns) /\ thread'.turns \in Seq(Turns) /\ SoundTurns(thread.turns)
  BY DEF CInv, ThreadInv
<1>5. /\ Ends(thread'.turns, t, Calls(call.history))
      /\ \A u, steps : u # t /\ Ends(thread.turns, u, steps) => Ends(thread'.turns, u, steps)
      /\ SoundTurns(thread'.turns)
  BY <1>3, <1>4, LastSaves
<1>6. ThreadInv'
  BY <1>5 DEF CInv, ThreadInv
<1>7. /\ acknowledged'[t].steps = Calls(call.history) /\ acknowledged'[t].told = call.guide.pause
      /\ \A u \in Tools : u # t => acknowledged'[u] = acknowledged[u]
      /\ DOMAIN acknowledged' = Tools
  <2>1. DOMAIN acknowledged = Tools
    BY DEF CInv, AckInv
  <2>2. acknowledged' = [acknowledged EXCEPT ![t] =
                           [steps |-> Calls(call.history), told |-> call.guide.pause]]
    <3>1. acknowledged' = [acknowledged EXCEPT ![t] =
             [steps |-> Append(IF call.q.number = 1 THEN <<>> ELSE acknowledged[t].steps, call.q.call),
              told |-> call.guide.pause]]
      BY <1>1, <2>1 DEF Acknowledge
    <3> QED  BY <1>1, <3>1 DEF StateInv
  <2> QED  BY <1>1, <2>1, <2>2
<1>8. thread'.turns # <<>>
  BY <1>4
<1>9. AckInv'
  <2>1. ASSUME NEW u \in Tools
        PROVE  /\ Ends(thread'.turns, u, acknowledged'[u].steps)
               /\ acknowledged'[u].told = "now" => u \in Reviews
    <3>1. CASE u = t
      BY <1>1, <1>5, <1>7, <3>1 DEF BuiltInv
    <3>2. CASE u # t
      BY <1>5, <1>7, <3>2 DEF CInv, AckInv
    <3> QED  BY <3>1, <3>2
  <2> QED  BY <1>7, <1>8, <2>1 DEF AckInv
<1>10. n \in DOMAIN thread'.turns
  BY <1>4
<1>11. ReplyInv'
  BY <1>3, <1>10, PublishedKeeps
<1> QED  BY <1>6, <1>9, <1>11 DEF CInv, CallInv

LEMMA SaveOnReplyKeeps ==
  ASSUME CInv, SaveOnReply
  PROVE  CInv'
<1> DEFINE n == Len(thread.turns) + 1
           turn == Turn("assistant", call.q.tool, StateOf(Customised))
<1>1. call.phase = "built" /\ ~call.failed
  BY DEF SaveOnReply
<1>2. Customised.q = call.q /\ StateOf(Customised) \in States /\ call.q.tool \in Tools
  BY <1>1, CustomisedFacts, WorkingFacts DEF RequestInv, RequestRecords
<1>3. /\ turn \in Turns /\ turn.tool = call.q.tool /\ turn.role = "assistant"
      /\ turn.state = StateOf(Customised)
  BY <1>2 DEF Turn, Turns
<1>4. /\ thread' = [thread EXCEPT !.turns = Append(@, turn)]
      /\ reply' = Published(Customised, TRUE) /\ Acknowledge(call.q)
      /\ call' = NoCall /\ count' = count
  BY <1>2 DEF SaveOnReply
<1> HIDE DEF turn
<1>5. thread \in [alive : BOOLEAN, turns : Seq(Turns)] /\ thread.turns \in Seq(Turns)
  BY DEF CInv, ThreadInv
<1>6. /\ thread' \in [alive : BOOLEAN, turns : Seq(Turns)]
      /\ thread'.turns = Append(thread.turns, turn)
  BY <1>3, <1>4, <1>5, AppendFacts
<1>7. /\ n \in Nat /\ n >= 1 /\ Len(thread'.turns) = n /\ Len(thread.turns) = n - 1
      /\ \A i \in 1 .. (n - 1) : thread'.turns[i] = thread.turns[i]
      /\ thread'.turns[n] = turn
  BY <1>3, <1>5, <1>6, AppendFacts
<1> HIDE DEF n
<1> QED  BY <1>1, <1>3, <1>4, <1>6, <1>7, SaveKeeps

LEMMA SaveOnInputKeeps ==
  ASSUME CInv, SaveOnInput
  PROVE  CInv'
<1> DEFINE n == Len(thread.turns)
<1>1. call.phase = "built" /\ call.failed
  BY DEF SaveOnInput
<1>2. /\ Customised.q = call.q /\ RequestInv
  BY <1>1, CustomisedFacts, WorkingFacts
<1>3. PICK s \in States : s = StateOf(Customised)
  BY <1>1, CustomisedFacts
<1>4. /\ thread' = [thread EXCEPT !.turns[n].state = s]
      /\ reply' = Published(Customised, TRUE) /\ Acknowledge(call.q)
      /\ call' = NoCall /\ count' = count
  BY <1>2, <1>3 DEF SaveOnInput
<1>5. thread \in [alive : BOOLEAN, turns : Seq(Turns)] /\ thread.turns \in Seq(Turns)
  BY DEF CInv, ThreadInv
<1>6. /\ n \in Nat /\ n >= 1 /\ DOMAIN thread.turns = 1 .. n
      /\ thread.turns[n] \in Turns /\ thread.turns[n].role = "user"
      /\ thread.turns[n].tool = call.q.tool
  BY <1>2, <1>5 DEF RequestInv
<1> HIDE DEF n
<1>7. /\ thread'.turns = [thread.turns EXCEPT ![n].state = s]
      /\ thread' = [thread EXCEPT !.turns = [thread.turns EXCEPT ![n].state = s]]
  BY <1>4, <1>5
<1>8. [thread.turns[n] EXCEPT !.state = s] \in Turns
  BY <1>6 DEF Turns
<1>9. thread'.turns = [thread.turns EXCEPT ![n] = [thread.turns[n] EXCEPT !.state = s]]
  BY <1>7
<1>10. thread'.turns \in Seq(Turns) /\ Len(thread'.turns) = n
  BY <1>5, <1>6, <1>8, <1>9 DEF n
<1>11. /\ \A i \in 1 .. (n - 1) : thread'.turns[i] = thread.turns[i]
       /\ thread'.turns[n] = [thread.turns[n] EXCEPT !.state = s]
  BY <1>6, <1>9
<1>12. /\ thread'.turns[n].state = s /\ thread'.turns[n].tool = call.q.tool
       /\ thread'.turns[n].role = "user"
  BY <1>6, <1>11 DEF Turns
<1>13. thread' \in [alive : BOOLEAN, turns : Seq(Turns)]
  BY <1>5, <1>7, <1>10
<1>14. Len(thread.turns) = n
  BY DEF n
<1> QED  BY <1>1, <1>3, <1>4, <1>6, <1>10, <1>11, <1>12, <1>13, <1>14, SaveKeeps

LEMMA ReplyUnsavedKeeps ==
  ASSUME CInv, ReplyUnsaved
  PROVE  CInv'
<1>1. /\ call.phase = "built" /\ reply' = Published(Customised, FALSE) /\ call' = NoCall
      /\ UNCHANGED <<thread, count, acknowledged>>
  BY DEF ReplyUnsaved
<1>2. ReplyInv'
  BY <1>1, PublishedKeeps
<1> QED  BY <1>1, <1>2, ThreadKeeps DEF CInv, CallInv

\* Expiry takes the thread from the client, not the turns from those that say what was saved.
LEMMA ExpireKeeps ==
  ASSUME CInv, Expire
  PROVE  CInv'
<1>1. /\ thread' \in [alive : BOOLEAN, turns : Seq(Turns)] /\ thread'.turns = thread.turns
      /\ UNCHANGED <<call, reply, count, acknowledged>>
  BY DEF Expire, CInv, ThreadInv
<1>2. ThreadInv' /\ AckInv'
  BY <1>1 DEF CInv, ThreadInv, AckInv
<1>3. CallInv'
  BY <1>1 DEF CInv, CallInv, RequestInv, StateInv, PreparedInv, ExpertInv, Told, BuiltInv
<1>4. ReplyInv'
  BY <1>1 DEF CInv, ReplyInv, Kept, ReplyIsHonest
<1> QED  BY <1>2, <1>3, <1>4 DEF CInv

LEMMA StutterKeeps ==
  ASSUME CInv, UNCHANGED vars
  PROVE  CInv'
<1>1. UNCHANGED <<thread, call, reply, count, acknowledged>>
  BY DEF vars
<1>2. ThreadInv' /\ AckInv'
  BY <1>1, ThreadKeeps
<1>3. CallInv'
  BY <1>1 DEF CInv, CallInv, RequestInv, StateInv, PreparedInv, ExpertInv, Told, BuiltInv
<1>4. ReplyInv'
  BY <1>1 DEF CInv, ReplyInv, Kept, ReplyIsHonest
<1> QED  BY <1>2, <1>3, <1>4 DEF CInv

LEMMA NextCInv == CInv /\ [Next]_vars => CInv'
<1> SUFFICES ASSUME CInv, [Next]_vars PROVE CInv'
  OBVIOUS
<1>1. ASSUME NEW r \in Requests, Admit(r) PROVE CInv'
  BY <1>1, AdmitKeeps
<1>2. ASSUME NEW t \in Others, AnotherTool(t) PROVE CInv'
  BY <1>2, AnotherToolKeeps
<1>3. CASE Prepare \/ StepFails
  BY <1>3, PrepareKeeps, StepFailsKeeps
<1>4. CASE Continue \/ ForceContinuation \/ FinishLocally
  BY <1>4, ContinueKeeps, ForceContinuationKeeps, FinishLocallyKeeps
<1>5. CASE AskExpert \/ ExpertUnreachable \/ ExpertAnswers \/ ExpertFails \/ Cancel
  BY <1>5, AskExpertKeeps, ExpertUnreachableKeeps, ExpertEndsKeeps, CancelKeeps
<1>6. CASE SaveOnReply \/ SaveOnInput \/ ReplyUnsaved
  BY <1>6, SaveOnReplyKeeps, SaveOnInputKeeps, ReplyUnsavedKeeps
<1>7. CASE Expire
  BY <1>7, ExpireKeeps
<1>8. CASE UNCHANGED vars
  BY <1>8, StutterKeeps
<1> QED  BY <1>1, <1>2, <1>3, <1>4, <1>5, <1>6, <1>7, <1>8 DEF Next

-----------------------------------------------------------------------------
\* Every state saved in a thread is that of one investigation, the last one a tool saved holds the
\* steps the client knows of, and a call in progress works on it.
THEOREM Invariance == Spec => []CInv
BY InitCInv, NextCInv, PTL DEF Spec

\* A step works on exactly the steps the client knows to be saved, in order, and its own
\* (tools/workflow/workflow_mixin.py: restore_workflow_state, store_conversation_turn).
THEOREM AcknowledgedIsRestoredHolds == Spec => []AcknowledgedIsRestored
BY CInvImplies, Invariance, PTL

\* No investigation takes its request or configuration from an earlier one, and an expert hears
\* of all of it (_call_expert_analysis and the prompts of the tools).
THEOREM InvestigationIsWholeHolds == Spec => []InvestigationIsWhole
BY CInvImplies, Invariance, PTL

\* What a reply claims of completion, of the expert, of the files and of what is saved is what
\* happened (execute_workflow, handle_work_completion).
THEOREM ReplyIsHonestHolds == Spec => []ReplyIsHonest
BY CInvImplies, Invariance, PTL

\* A pause repeats the actions it demands, and a review told to complete at once is not finished
\* without the expert it was promised (get_step_guidance_message, should_call_expert_analysis).
THEOREM GuidanceIsKeptHolds == Spec => []GuidanceIsKept
BY CInvImplies, Invariance, PTL
=============================================================================
