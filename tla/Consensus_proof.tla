--------------------------- MODULE Consensus_proof ---------------------------
(***************************************************************************)
(* Proofs about Consensus, for any panels of participants and any numbers  *)
(* of steps and calls: a summary agrees with what the client was told, and *)
(* everyone was asked about the one proposal.                              *)
(*                                                                         *)
(* The invariant ties the saved responses to the ledger, one by one: the   *)
(* i-th response is by the participant whose step the client was told of   *)
(* in the i-th place.  As no two participants are the same, looking a      *)
(* participant up among the responses is looking its number up in the      *)
(* ledger.                                                                 *)
(***************************************************************************)
EXTENDS Consensus, WellFoundedInduction, NaturalsInduction, TLAPS

Outcomes == {"success", "error"}

Reports ==
  [who : STRING \X STRING, outcome : Outcomes, proposal : Nat, prompt : STRING \cup {"neutral"}]

Sessions == [panel : Panels \cup {<<>>}, proposal : Nat, responses : Seq(Reports)]

\* The client was told the outcome of participant n.
Covered(n) == \E i \in DOMAIN ledger : ledger[i][1] = n

TypeInv ==
  /\ saved \in Sessions /\ ledger \in Seq(Nat \X Outcomes)
  /\ count \in Nat /\ expected \in Nat /\ guided \in BOOLEAN /\ alive \in BOOLEAN

\* Response r is what the client was told with entry e of the ledger.
Tells(r, e) ==
  LET p == saved.panel[e[1]]
  IN /\ e[1] \in DOMAIN saved.panel
     /\ r.who = Who(p) /\ r.outcome = e[2]
     /\ r.proposal = saved.proposal /\ r.prompt = StancePrompt(p)

LedgerInv ==
  /\ Len(ledger) = Len(saved.responses)
  /\ \A i \in DOMAIN ledger : Tells(saved.responses[i], ledger[i])

CallInv ==
  \/ call = NoCall
  \/ /\ call = [phase |-> "consulting", number |-> call.number, session |-> call.session]
     /\ call.session \in Sessions /\ call.session.panel \in Panels
     /\ call.number \in DOMAIN call.session.panel
     /\ call.number = 1 => call.session.responses = <<>>
     /\ call.number # 1 => call.session = saved
     /\ guided => call.number = expected
     /\ reply = NoReply

ReplyInv ==
  reply.kind = "summary" /\ alive =>
    /\ reply = Completion(saved) /\ saved.panel \in Panels
    /\ guided => \A n \in DOMAIN saved.panel : Covered(n)

\* A client that is guided has covered the participants before the next.
GuideInv ==
  guided /\ alive =>
    \/ expected = 1
    \/ /\ expected \in DOMAIN saved.panel
       /\ \A n \in 1 .. (expected - 1) : Covered(n)

CInv == TypeInv /\ LedgerInv /\ CallInv /\ ReplyInv /\ GuideInv

-----------------------------------------------------------------------------
(* Operators. *)

LEMMA PanelFacts ==
  ASSUME NEW panel \in Panels
  PROVE  /\ panel \in Seq(Participants) /\ panel # <<>>
         /\ DOMAIN panel = 1 .. Len(panel) /\ Len(panel) \in Nat /\ Len(panel) >= 1
         /\ \A n \in DOMAIN panel : panel[n] \in Participants
BY ConsensusAssumption

LEMMA ParticipantFacts ==
  ASSUME NEW p \in Participants
  PROVE  Who(p) \in STRING \X STRING /\ StancePrompt(p) \in STRING \cup {"neutral"}
<1>1. p.model \in STRING /\ p.stance \in STRING /\ p.custom \in STRING
  BY DEF Participants
<1>2. Who(p) \in STRING \X STRING
  BY <1>1 DEF Who
<1>3. StancePrompt(p) \in {p.custom, p.stance, "neutral"}
  BY DEF StancePrompt
<1> QED  BY <1>1, <1>2, <1>3

\* A non-empty set of places in a list has a last one.
LEMMA LastPlace ==
  ASSUME NEW n \in Nat, NEW S \in SUBSET (1 .. n), S # {}
  PROVE  \E m \in S : \A j \in S : j <= m
<1> DEFINE D == {n - j : j \in S}
<1>0. \A j \in S : j \in 1 .. n /\ n - j \in Nat
  OBVIOUS
<1>1. D \in SUBSET Nat /\ D # {}
  BY <1>0
<1>2. PICK d \in D : \A e \in D : d <= e
  <2> DEFINE R == OpToRel(<, Nat)
  <2>1. IsWellFoundedOn(R, Nat)
    BY NatLessThanWellFounded
  <2>2. PICK d \in D : \A e \in D : <<e, d>> \notin R
    BY <1>1, <2>1, WFMin
  <2>3. \A e \in D : ~(e < d)
    BY <1>1, <2>2 DEF OpToRel
  <2>4. \A e \in D : d <= e
    <3> SUFFICES ASSUME NEW e \in D PROVE d <= e
      OBVIOUS
    <3>1. d \in Nat /\ e \in Nat /\ ~(e < d)
      BY <1>1, <2>3
    <3> QED  BY <3>1
  <2> QED  BY <2>4
<1>3. PICK m \in S : d = n - m
  OBVIOUS
<1>4. \A j \in S : d <= n - j
  BY <1>2
<1> QED  BY <1>3, <1>4

\* What is found of participant i of the saved panel among the responses is what the ledger says.
LEMMA OutcomeIsTold ==
  ASSUME CInv, saved.panel \in Panels, NEW n \in DOMAIN saved.panel
  PROVE  /\ Outcome(saved, saved.panel[n]) = LastTold(n)
         /\ LastTold(n) \in Outcomes \cup {"pending"}
         /\ LastTold(n) = "pending" <=> ~Covered(n)
<1> DEFINE S == Responses(saved, saved.panel[n])
           T == {i \in DOMAIN ledger : ledger[i][1] = n}
<1>1. /\ DOMAIN ledger = 1 .. Len(ledger) /\ Len(ledger) \in Nat
      /\ DOMAIN saved.responses = 1 .. Len(saved.responses)
      /\ Len(ledger) = Len(saved.responses)
  BY DEF CInv, TypeInv, Sessions, LedgerInv
<1>2. \A i \in DOMAIN ledger : Who(saved.panel[ledger[i][1]]) = Who(saved.panel[n]) <=> ledger[i][1] = n
  BY ConsensusAssumption DEF CInv, LedgerInv, Tells
<1>3. S = T
  BY <1>1, <1>2 DEF Responses, CInv, LedgerInv, Tells
<1>4. T # {} <=> Covered(n)
  BY DEF Covered
<1>5. CASE T = {}
  BY <1>3, <1>4, <1>5 DEF Outcome, LastTold
<1>6. CASE T # {}
  <2>1. \E m \in T : \A j \in T : j <= m
    BY <1>1, <1>6, LastPlace
  <2> DEFINE k == CHOOSE i \in T : \A j \in T : j <= i
  <2>2. k \in T
    BY <2>1
  <2>3. LastTold(n) = ledger[k][2]
    BY <1>6 DEF LastTold
  <2>4. Outcome(saved, saved.panel[n]) = saved.responses[k].outcome
    BY <1>3, <1>6 DEF Outcome
  <2> HIDE DEF k
  <2>5. saved.responses[k].outcome = ledger[k][2]
    BY <2>2 DEF CInv, LedgerInv, Tells
  <2>6. ledger[k][2] \in Outcomes
    BY <1>1, <2>2 DEF CInv, TypeInv
  <2> QED  BY <1>4, <1>6, <2>3, <2>4, <2>5, <2>6 DEF Outcomes
<1> QED  BY <1>5, <1>6

\* A summary of the saved session agrees with what was told.
LEMMA SummaryTells ==
  ASSUME CInv, saved.panel \in Panels
  PROVE  LET summary == Summary(saved)
         IN  /\ \A n \in DOMAIN saved.panel :
                  /\ n \in summary.successful <=> LastTold(n) = "success"
                  /\ n \in summary.failed     <=> LastTold(n) = "error"
                  /\ n \in summary.pending    <=> LastTold(n) = "pending"
             /\ (summary.status = "complete") <=>
                   \A n \in DOMAIN saved.panel : LastTold(n) = "success"
             /\ (\A n \in DOMAIN saved.panel : Covered(n)) => summary.pending = {}
<1>1. \A n \in DOMAIN saved.panel :
        /\ Outcome(saved, saved.panel[n]) = LastTold(n)
        /\ LastTold(n) = "pending" <=> ~Covered(n)
  BY OutcomeIsTold
<1>2. 1 \in DOMAIN saved.panel
  BY PanelFacts
<1> QED  BY <1>1, <1>2 DEF Summary, Having

\* The proposal of a saved response and its prompt are those of its panel.
LEMMA CInvImplies == CInv => SummaryIsTrue
<1> SUFFICES ASSUME CInv PROVE SummaryIsTrue
  OBVIOUS
<1>1. SummaryAgrees
  <2> SUFFICES ASSUME reply.kind = "summary", alive
               PROVE  /\ \A i \in DOMAIN reply.session.panel :
                           /\ i \in reply.summary.successful <=> LastTold(i) = "success"
                           /\ i \in reply.summary.failed     <=> LastTold(i) = "error"
                           /\ i \in reply.summary.pending    <=> LastTold(i) = "pending"
                      /\ reply.complete <=>
                           \A i \in DOMAIN reply.session.panel : LastTold(i) = "success"
                      /\ guided => reply.summary.pending = {}
    BY DEF SummaryAgrees
  <2>1. /\ reply = Completion(saved) /\ saved.panel \in Panels
        /\ guided => \A n \in DOMAIN saved.panel : Covered(n)
    BY DEF CInv, ReplyInv
  <2>2. /\ reply.session = saved /\ reply.summary = Summary(saved)
        /\ reply.complete = (Summary(saved).status = "complete")
    BY <2>1 DEF Completion
  <2> QED  BY <2>1, <2>2, SummaryTells
<1>2. OneProposal
  <2> SUFFICES ASSUME NEW i \in DOMAIN saved.responses
               PROVE  /\ saved.responses[i].proposal = saved.proposal
                      /\ \E p \in {saved.panel[j] : j \in DOMAIN saved.panel} :
                            Who(p) = saved.responses[i].who
                            /\ StancePrompt(p) = saved.responses[i].prompt
    BY DEF OneProposal
  <2>1. i \in DOMAIN ledger
    BY DEF CInv, LedgerInv, TypeInv, Sessions
  <2> QED  BY <2>1 DEF CInv, LedgerInv, Tells
<1> QED  BY <1>1, <1>2 DEF SummaryIsTrue

-----------------------------------------------------------------------------
(* Steps. *)

LEMMA InitCInv == Init => CInv
<1> SUFFICES ASSUME Init PROVE CInv
  OBVIOUS
<1>1. saved \in Sessions
  BY DEF Init, Sessions, NoSession
<1>2. TypeInv
  BY <1>1 DEF Init, TypeInv
<1>3. LedgerInv
  BY DEF Init, LedgerInv, NoSession
<1> QED  BY <1>2, <1>3 DEF Init, CInv, CallInv, ReplyInv, GuideInv, NoReply

LEMMA ConsultKeeps ==
  ASSUME CInv, NEW n \in 1 .. MaxSteps, NEW panel \in Panels, Consult(n, panel)
  PROVE  CInv'
<1> DEFINE s == Restored(n, panel)
<1>1. /\ call = NoCall /\ s.panel # <<>> /\ n <= Len(s.panel)
      /\ call' = [phase |-> "consulting", number |-> n, session |-> s]
      /\ count' = count + 1 /\ guided' = (guided /\ n = expected) /\ reply' = NoReply
      /\ UNCHANGED <<saved, alive, ledger, expected>>
  BY DEF Consult
<1>2. s \in Sessions /\ s.panel \in Panels /\ (n = 1 => s.responses = <<>>) /\ (n # 1 => s = saved)
  BY <1>1 DEF Restored, Sessions, CInv, TypeInv
<1> HIDE DEF s
<1>3. n \in DOMAIN s.panel
  BY <1>1, <1>2, PanelFacts, ConsensusAssumption
<1>4. CallInv'
  BY <1>1, <1>2, <1>3 DEF CallInv
<1>5. TypeInv' /\ LedgerInv'
  BY <1>1 DEF CInv, TypeInv, LedgerInv, Tells
<1>6. ReplyInv' /\ GuideInv'
  BY <1>1 DEF CInv, ReplyInv, GuideInv, NoReply, Covered
<1> QED  BY <1>4, <1>5, <1>6 DEF CInv

\* A call that consults nobody leaves a guided client's path, and may summarise.
LEMMA AsideKeeps ==
  ASSUME CInv, NEW n \in 1 .. MaxSteps,
         call = NoCall, n # 1, saved.panel = <<>> \/ n > Len(saved.panel),
         count' = count + 1, guided' = (guided /\ n = expected), alive,
         UNCHANGED <<saved, alive, call, ledger, expected>>,
         reply'.kind # "summary" \/ (reply' = Completion(saved) /\ saved.panel \in Panels)
  PROVE  CInv'
<1>1. n \notin DOMAIN saved.panel
  BY PanelFacts, ConsensusAssumption DEF CInv, TypeInv, Sessions
<1>2. ~guided'
  BY <1>1 DEF CInv, GuideInv
<1>3. TypeInv' /\ LedgerInv' /\ CallInv' /\ GuideInv'
  BY <1>2 DEF CInv, TypeInv, LedgerInv, Tells, CallInv, GuideInv
<1>4. ReplyInv'
  BY <1>2 DEF ReplyInv
<1> QED  BY <1>3, <1>4 DEF CInv

\* What a response is.
LEMMA ResponseFacts ==
  ASSUME CInv, call # NoCall, NEW outcome \in Outcomes
  PROVE  LET p == call.session.panel[call.number]
         IN  /\ Response(outcome) \in Reports
             /\ Response(outcome).who = Who(p) /\ Response(outcome).outcome = outcome
             /\ Response(outcome).proposal = call.session.proposal
             /\ Response(outcome).prompt = StancePrompt(p)
<1>1. call.session \in Sessions /\ call.session.panel[call.number] \in Participants
  BY PanelFacts DEF CInv, CallInv
<1>2. call.session.proposal \in Nat
  BY <1>1 DEF Sessions
<1> QED  BY <1>1, <1>2, ParticipantFacts DEF Response, Reports

\* An answer in a conversation that still lives.
LEMMA SavedAnswer ==
  ASSUME CInv, NEW outcome \in Outcomes, Answer(outcome), alive
  PROVE  CInv'
<1> DEFINE n == call.number
           old == IF n = 1 THEN <<>> ELSE ledger
           r == Response(outcome)
<1>0. call # NoCall /\ CallInv
  BY DEF Answer, NoCall, CInv
<1>1. PICK s : s = [call.session EXCEPT !.responses = Append(@, r)]
  OBVIOUS
<1>2. /\ reply' = Told(s, n) /\ saved' = s /\ ledger' = Append(old, <<n, outcome>>)
      /\ expected' = IF n = Len(s.panel) THEN 1 ELSE n + 1
      /\ call' = NoCall /\ UNCHANGED <<alive, count, guided>>
  BY <1>1 DEF Answer
<1>3. /\ call.session \in Sessions /\ call.session.panel \in Panels
      /\ n \in DOMAIN call.session.panel
      /\ n = 1 => call.session.responses = <<>>
      /\ n # 1 => call.session = saved
      /\ guided => n = expected
  BY <1>0 DEF CallInv
<1>4. /\ n \in Nat /\ n >= 1 /\ n <= Len(call.session.panel) /\ Len(call.session.panel) \in Nat
      /\ DOMAIN call.session.panel = 1 .. Len(call.session.panel)
  BY <1>3, PanelFacts
<1>5. /\ r \in Reports /\ r.who = Who(call.session.panel[n]) /\ r.outcome = outcome
      /\ r.proposal = call.session.proposal /\ r.prompt = StancePrompt(call.session.panel[n])
  BY <1>0, ResponseFacts
<1> HIDE DEF r
<1>6. /\ call.session.responses \in Seq(Reports) /\ old \in Seq(Nat \X Outcomes)
      /\ Len(old) = Len(call.session.responses)
  BY <1>3 DEF Sessions, CInv, TypeInv, LedgerInv
<1>7. /\ s.panel = call.session.panel /\ s.proposal = call.session.proposal
      /\ s.responses = Append(call.session.responses, r)
      /\ s \in Sessions
  <2>1. Append(call.session.responses, r) \in Seq(Reports)
    BY <1>5, <1>6
  <2> QED  BY <1>1, <1>3, <2>1 DEF Sessions
<1>8. /\ Len(s.responses) = Len(old) + 1 /\ s.responses[Len(old) + 1] = r
      /\ \A i \in 1 .. Len(old) : s.responses[i] = call.session.responses[i]
  BY <1>5, <1>6, <1>7
<1>9. /\ ledger' \in Seq(Nat \X Outcomes) /\ Len(ledger') = Len(old) + 1 /\ Len(old) \in Nat
      /\ DOMAIN ledger' = 1 .. (Len(old) + 1)
      /\ ledger'[Len(old) + 1] = <<n, outcome>>
      /\ \A i \in 1 .. Len(old) : ledger'[i] = old[i]
  <2>1. <<n, outcome>> \in Nat \X Outcomes
    BY <1>4
  <2> QED  BY <1>2, <1>6, <2>1
<1>10. TypeInv'
  <2>1. expected' \in Nat
    BY <1>2, <1>4
  <2> QED  BY <1>2, <1>7, <1>9, <2>1 DEF CInv, TypeInv
<1>11. LedgerInv'
  <2> DEFINE Holds(i) == /\ ledger'[i][1] \in DOMAIN s.panel
                         /\ s.responses[i].who = Who(s.panel[ledger'[i][1]])
                         /\ s.responses[i].outcome = ledger'[i][2]
                         /\ s.responses[i].proposal = s.proposal
                         /\ s.responses[i].prompt = StancePrompt(s.panel[ledger'[i][1]])
  <2>1. ASSUME NEW i \in 1 .. Len(old) PROVE Holds(i)
    <3>1. n # 1
      BY <1>6, <1>3
    <3>2. /\ old = ledger /\ s.panel = saved.panel /\ s.proposal = saved.proposal
          /\ s.responses[i] = saved.responses[i] /\ ledger'[i] = ledger[i] /\ i \in DOMAIN ledger
      <4>1. old = ledger /\ call.session = saved
        BY <1>3, <3>1
      <4>2. DOMAIN ledger = 1 .. Len(old)
        BY <1>6, <4>1
      <4> QED  BY <1>7, <1>8, <1>9, <2>1, <4>1, <4>2
    <3>3. Tells(saved.responses[i], ledger[i])
      BY <3>2 DEF CInv, LedgerInv
    <3> QED  BY <3>2, <3>3 DEF Tells
  <2>2. Holds(Len(old) + 1)
    BY <1>3, <1>5, <1>7, <1>8, <1>9
  <2> HIDE DEF Holds
  <2>3. \A i \in 1 .. (Len(old) + 1) : Holds(i)
    BY <1>9, <2>1, <2>2
  <2> QED  BY <1>2, <1>8, <1>9, <2>3 DEF LedgerInv, Tells, Holds
<1>12. guided => \A m \in 1 .. n : Covered(m)'
  <2> SUFFICES ASSUME guided, NEW m \in 1 .. n PROVE \E i \in DOMAIN ledger' : ledger'[i][1] = m
    BY DEF Covered
  <2>1. CASE m = n
    BY <1>9, <2>1
  <2>2. CASE m # n
    <3>1. n # 1 /\ n = expected /\ m \in 1 .. (expected - 1) /\ old = ledger
      BY <1>3, <1>4, <2>2
    <3>2. Covered(m)
      BY <1>4, <3>1 DEF CInv, GuideInv
    <3>3. PICK i \in DOMAIN ledger : ledger[i][1] = m
      BY <3>2 DEF Covered
    <3>4. i \in 1 .. Len(old)
      BY <1>6, <3>1
    <3> QED  BY <1>9, <3>1, <3>3, <3>4
  <2> QED  BY <2>1, <2>2
<1>13. ReplyInv'
  <2>1. CASE n = Len(s.panel)
    <3>1. reply' = Completion(saved') /\ saved'.panel \in Panels
      BY <1>2, <1>3, <1>7, <2>1 DEF Told
    <3>2. guided => \A m \in DOMAIN saved'.panel : Covered(m)'
      BY <1>2, <1>4, <1>7, <1>12, <2>1
    <3> QED  BY <1>2, <3>1, <3>2 DEF ReplyInv
  <2>2. CASE n # Len(s.panel)
    <3>1. reply'.kind # "summary"
      BY <1>2, <2>2 DEF Told
    <3> QED  BY <3>1 DEF ReplyInv
  <2> QED  BY <2>1, <2>2
<1>14. GuideInv'
  <2>1. CASE n = Len(s.panel)
    BY <1>2, <2>1 DEF GuideInv
  <2>2. CASE n # Len(s.panel)
    <3>1. /\ expected' = n + 1 /\ expected' \in DOMAIN saved'.panel /\ expected' - 1 = n
      BY <1>2, <1>4, <1>7, <2>2
    <3> QED  BY <1>2, <1>12, <3>1 DEF GuideInv
  <2> QED  BY <2>1, <2>2
<1> QED  BY <1>2, <1>10, <1>11, <1>13, <1>14 DEF CInv, CallInv

LEMMA LostAnswer ==
  ASSUME CInv, NEW outcome \in Outcomes, Answer(outcome), ~alive
  PROVE  CInv'
<1>1. call' = NoCall /\ UNCHANGED <<saved, alive, ledger, expected, count, guided>>
  BY DEF Answer
<1> QED
  BY <1>1 DEF CInv, TypeInv, LedgerInv, Tells, CallInv, ReplyInv, GuideInv

LEMMA NextCInv == CInv /\ [Next]_vars => CInv'
<1> SUFFICES ASSUME CInv, [Next]_vars PROVE CInv'
  OBVIOUS
<1>1. ASSUME NEW n \in 1 .. MaxSteps, NEW panel \in Panels, Consult(n, panel) PROVE CInv'
  BY <1>1, ConsultKeeps
<1>2. ASSUME NEW n \in 1 .. MaxSteps, NoPanel(n) PROVE CInv'
  BY <1>2, AsideKeeps DEF NoPanel
<1>3. ASSUME NEW n \in 1 .. MaxSteps, NEW next \in BOOLEAN, NEW index \in 0 .. 1,
             Beyond(n, next, index)
      PROVE  CInv'
  <2>1. saved.panel \in Panels
    BY <1>3 DEF Beyond, CInv, TypeInv, Sessions
  <2>2. n # 1
    BY <1>3, <2>1, PanelFacts DEF Beyond
  <2> QED  BY <1>3, <2>1, <2>2, AsideKeeps DEF Beyond
<1>4. ASSUME NEW outcome \in {"success", "error"}, Answer(outcome) PROVE CInv'
  BY <1>4, SavedAnswer, LostAnswer DEF Outcomes
<1>5. CASE Cancel
  BY <1>5 DEF Cancel, CInv, TypeInv, LedgerInv, Tells, CallInv, ReplyInv, GuideInv, Covered
<1>6. CASE Expire
  BY <1>6 DEF Expire, CInv, TypeInv, LedgerInv, Tells, CallInv, ReplyInv, GuideInv
<1>7. CASE UNCHANGED vars
  BY <1>7 DEF vars, CInv, TypeInv, LedgerInv, Tells, CallInv, ReplyInv, GuideInv, Covered
<1> QED  BY <1>1, <1>2, <1>3, <1>4, <1>5, <1>6, <1>7 DEF Next

\* What the client was told of every participant is what is saved of it, in the same order.
THEOREM Invariance == Spec => []CInv
BY InitCInv, NextCInv, PTL DEF Spec

\* A summary agrees with what the client was told of every participant, a client that called
\* what it was asked for ends with nobody pending, and everyone was asked about the one proposal,
\* each by its own stance (tools/consensus.py: _build_consensus_summary, _consult_model).
THEOREM SummaryIsTrueHolds == Spec => []SummaryIsTrue
BY CInvImplies, Invariance, PTL
=============================================================================
