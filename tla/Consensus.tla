------------------------------ MODULE Consensus ------------------------------
(***************************************************************************)
(* The consensus tool (tools/consensus.py): one call per participant, each *)
(* a model with a stance, and a summary of all their outcomes.  The panel, *)
(* the proposal and the responses so far are workflow state, saved in the  *)
(* conversation (WorkflowState) and restored by every call but a first     *)
(* step.  Clients may repeat, skip and exceed steps; a consultation may    *)
(* fail or be cancelled; the conversation may expire.                      *)
(***************************************************************************)
EXTENDS Naturals, Sequences, FiniteSets

CONSTANTS Panels,    \* lists of participants a client may ask for
          MaxSteps,  \* bound: the largest step number a client uses
          MaxCalls   \* bound: the calls of a run

(* A participant is a model with a stance and maybe instructions of its    *)
(* own; a request repeats no model and stance (validate_step_one).         *)
Who(p) == <<p.model, p.stance>>

Participants == [model : STRING, stance : STRING, custom : STRING]

ASSUME ConsensusAssumption ==
  /\ MaxSteps \in Nat /\ MaxCalls \in Nat
  /\ Panels \subseteq Seq(Participants)
  /\ \A panel \in Panels :
       /\ panel # <<>>
       /\ \A i, j \in DOMAIN panel : Who(panel[i]) = Who(panel[j]) => i = j

VARIABLES saved,    \* the state of the latest turn that holds one, or NoSession
          alive,    \* is the conversation still there?
          call,     \* the call in progress
          reply,    \* the last reply
          count,    \* calls made so far
          ledger,   \* the outcomes the client was told are saved, this session
          expected, \* the step the last reply asked for
          guided    \* has the client always called the step it was asked for?

vars == <<saved, alive, call, reply, count, ledger, expected, guided>>

NoSession == [panel |-> <<>>, proposal |-> 0, responses |-> <<>>]
NoCall    == [phase |-> "idle"]
NoReply   == [kind |-> "none"]

Init == /\ saved = NoSession /\ alive = TRUE
        /\ call = NoCall /\ reply = NoReply /\ count = 0
        /\ ledger = <<>> /\ expected = 1 /\ guided = TRUE

----------------------------------------------------------------------------
(* The summary takes the latest outcome of every requested participant.    *)

Responses(session, p) ==
  {i \in DOMAIN session.responses : session.responses[i].who = Who(p)}

(* The first outcome stands.                                               *)
OutcomeFirst(session, p) ==
  LET S == Responses(session, p)
  IN IF S = {} THEN "pending"
     ELSE session.responses[CHOOSE i \in S : \A j \in S : i <= j].outcome

Outcome(session, p) ==
  LET S == Responses(session, p)
  IN IF S = {} THEN "pending"
     ELSE session.responses[CHOOSE i \in S : \A j \in S : j <= i].outcome

Having(session, outcome) ==
  {i \in DOMAIN session.panel : Outcome(session, session.panel[i]) = outcome}

Summary(session) ==
  [successful |-> Having(session, "success"),
   failed     |-> Having(session, "error"),
   pending    |-> Having(session, "pending"),
   status     |-> IF Having(session, "success") = {} THEN "failed"
                  ELSE IF Having(session, "success") = DOMAIN session.panel
                       THEN "complete" ELSE "partial"]

(* What completion tells the client, which asks for no further step.       *)
Completion(session) ==
  [kind |-> "summary", summary |-> Summary(session),
   complete |-> Summary(session).status = "complete", session |-> session]

(* Instructions of the caller replace those of the stance; an unknown      *)
(* stance counts as neutral.                                               *)
StancePrompt(p) ==
  IF p.custom # "" THEN p.custom
  ELSE IF p.stance \in {"for", "against"} THEN p.stance ELSE "neutral"

----------------------------------------------------------------------------
(* A call begins: its input is saved and its state restored.               *)

Restored(n, panel) ==
  IF n = 1 THEN [panel |-> panel, proposal |-> count + 1, responses |-> <<>>] ELSE saved

(* Steps up to the number of participants consult one.                     *)
Consult(n, panel) ==
  /\ call = NoCall /\ count < MaxCalls /\ alive
  /\ LET s == Restored(n, panel)
     IN /\ s.panel # <<>> /\ n <= Len(s.panel)
        /\ call' = [phase |-> "consulting", number |-> n, session |-> s]
  /\ count' = count + 1
  /\ guided' = (guided /\ n = expected)
  /\ reply' = NoReply
  /\ UNCHANGED <<saved, alive, ledger, expected>>

(* Without a panel nothing can be consulted.                               *)
NoPanel(n) ==
  /\ call = NoCall /\ count < MaxCalls /\ alive
  /\ n # 1 /\ saved.panel = <<>>
  /\ count' = count + 1
  /\ guided' = (guided /\ n = expected)
  /\ reply' = [kind |-> "restart"]
  /\ UNCHANGED <<saved, alive, call, ledger, expected>>

(* Steps past the last participant run the ordinary workflow: a pause that *)
(* asks for the participant the caller's index names, or the summary.      *)
Beyond(n, next, index) ==
  /\ call = NoCall /\ count < MaxCalls /\ alive
  /\ saved.panel # <<>> /\ n > Len(saved.panel)
  /\ count' = count + 1
  /\ guided' = (guided /\ n = expected)
  /\ reply' = IF ~next THEN Completion(saved)
              ELSE [kind |-> IF index < Len(saved.panel) THEN "next_model" ELSE "synthesis"]
  /\ UNCHANGED <<saved, alive, call, ledger, expected>>

----------------------------------------------------------------------------
(* The consultation.  The participant sees the proposal of the first step  *)
(* and its own instructions, never another response.                       *)

Response(outcome) ==
  LET p == call.session.panel[call.number]
  IN [who |-> Who(p), outcome |-> outcome,
      proposal |-> call.session.proposal, prompt |-> StancePrompt(p)]

Told(session, n) ==
  IF n = Len(session.panel) THEN Completion(session)
  ELSE [kind |-> "consulted", outcome |-> session.responses[Len(session.responses)].outcome]

(* A failure, an empty answer included, is an outcome like any other; the  *)
(* state is saved on the input then, and on the reply otherwise.           *)
Answer(outcome) ==
  /\ call.phase = "consulting"
  /\ LET s == [call.session EXCEPT !.responses = Append(@, Response(outcome))]
     IN /\ reply' = Told(s, call.number)
        /\ IF alive
           THEN /\ saved' = s
                /\ ledger' = Append(IF call.number = 1 THEN <<>> ELSE ledger,
                                    <<call.number, outcome>>)
                /\ expected' = IF call.number = Len(s.panel) THEN 1 ELSE call.number + 1
           ELSE UNCHANGED <<saved, ledger, expected>>
  /\ call' = NoCall
  /\ UNCHANGED <<alive, count, guided>>

(* Cancellation is no outcome: it is not caught, and nothing is saved.     *)
Cancel ==
  /\ call.phase = "consulting"
  /\ call' = NoCall
  /\ UNCHANGED <<saved, alive, reply, count, ledger, expected, guided>>

Expire ==
  /\ alive /\ count > 0
  /\ alive' = FALSE
  /\ UNCHANGED <<saved, call, reply, count, ledger, expected, guided>>

Next ==
  \/ \E n \in 1..MaxSteps, panel \in Panels : Consult(n, panel)
  \/ \E n \in 1..MaxSteps : NoPanel(n)
  \/ \E n \in 1..MaxSteps, next \in BOOLEAN, index \in 0..1 : Beyond(n, next, index)
  \/ \E outcome \in {"success", "error"} : Answer(outcome)
  \/ Cancel \/ Expire

Spec == Init /\ [][Next]_vars

----------------------------------------------------------------------------
(* Properties.                                                             *)

LastTold(n) == LET S == {i \in DOMAIN ledger : ledger[i][1] = n}
               IN IF S = {} THEN "pending"
                  ELSE ledger[CHOOSE i \in S : \A j \in S : j <= i][2]

(* A summary of a saved session agrees with what the client was told of    *)
(* every participant, whatever was repeated, skipped, cancelled or         *)
(* retried: consensus is complete only if the last word of each was a      *)
(* success, and failed only if none was (_build_consensus_summary).  A     *)
(* client that always called the step each reply asked for, failures       *)
(* included, ends with nobody pending (execute_workflow).                  *)
SummaryAgrees ==
  (reply.kind = "summary" /\ alive) =>
    /\ \A i \in DOMAIN reply.session.panel :
         /\ i \in reply.summary.successful <=> LastTold(i) = "success"
         /\ i \in reply.summary.failed     <=> LastTold(i) = "error"
         /\ i \in reply.summary.pending    <=> LastTold(i) = "pending"
    /\ reply.complete <=> \A i \in DOMAIN reply.session.panel : LastTold(i) = "success"
    /\ guided => reply.summary.pending = {}

(* Everyone on a panel is asked about the same proposal, that of the call  *)
(* that named the panel, and each by its own stance (_consult_model).      *)
OneProposal ==
  \A i \in DOMAIN saved.responses :
    LET r == saved.responses[i]
    IN /\ r.proposal = saved.proposal
       /\ \E p \in {saved.panel[j] : j \in DOMAIN saved.panel} :
            Who(p) = r.who /\ StancePrompt(p) = r.prompt

(* What consensus reports is what its participants said, each of them of   *)
(* the one proposal (tools/consensus.py): summaries agree with what was    *)
(* told, and nobody was asked about anything else.                         *)
SummaryIsTrue == SummaryAgrees /\ OneProposal
=============================================================================
