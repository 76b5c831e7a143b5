------------------------- MODULE ClinkExchange_proof -------------------------
(***************************************************************************)
(* Proofs about clink.                                                     *)
(*                                                                         *)
(* Part 1, CLIProcess: what one run of a CLI leaves behind, for every      *)
(* interleaving of the caller, its child, the cleanup task and those who   *)
(* cancel.  NothingIsLeft and CancellationIsKept speak of the end of a     *)
(* run.  They hold there because of what is true on the way: RunInv says,  *)
(* for each place where BaseCLIAgent.run may be, what the child, the       *)
(* cleanup task, the pipes and the directory can be, and where a           *)
(* cancellation is kept.                                                   *)
(*                                                                         *)
(* Part 2, ClinkExchange, for every registry of CLIs, file system,         *)
(* sequence of calls and limit: a conversation stays in its project, a     *)
(* follow-up call inherits what the last saved exchange ran with, and what *)
(* a CLI is shown as history is what successful CLIs said to this client.  *)
(* All follow from one inductive invariant, IInv.  It relates the saved    *)
(* conversation, or the snapshot the present call works with, to the runs  *)
(* and to the answers told so far: a call that ends leaves either that     *)
(* conversation, or that conversation with its own exchange behind it, or  *)
(* none.                                                                   *)
(***************************************************************************)
EXTENDS CLIProcess, ClinkExchange, FiniteSetTheorems, SequenceTheorems, TLAPS

-----------------------------------------------------------------------------
(* Part 1: one run of a CLI. *)

\* Before there is a child.
EarlyInv ==
    caller \in {"check", "launch", "recheck"} =>
        /\ process = "none" /\ pipes = "none" /\ cleanup = "none"
        /\ ~thrown /\ ~cancelled
        /\ scratch # "removed"

\* While communicate is awaited.
TalkInv ==
    caller = "talk" =>
        /\ process # "none" /\ pipes = "open" /\ cleanup = "none"
        /\ ~thrown /\ ~cancelled
        /\ scratch # "removed"

\* While the cleanup task is awaited; the cancellation is the error to come, or noted.
ReapInv ==
    caller = "reap" =>
        /\ process # "none" /\ cleanup # "none"
        /\ cleanup \in {"closing", "done"} => pipes = "closed"
        /\ cleanup = "done" => process = "reaped"
        /\ error \in Outcomes
        /\ thrown => cancelled \/ error = "cancelled"
        /\ scratch # "removed"

DoneInv ==
    caller = "done" =>
        /\ process \in {"none", "reaped"}
        /\ cleanup \in {"none", "done"}
        /\ pipes # "open"
        /\ output # "present"
        /\ scratch = "present" => outcome = "failed"
        /\ thrown => outcome = "cancelled" \/ scratch = "present"

RunInv == TypeOK /\ EarlyInv /\ TalkInv /\ ReapInv /\ DoneInv

-----------------------------------------------------------------------------

LEMMA RunInitEstablishes == RunInit => RunInv
BY DEF RunInit, RunInv, TypeOK, EarlyInv, TalkInv, ReapInv, DoneInv

\* The end of a call, from wherever it is reached.
LEMMA FinishKeeps ==
    ASSUME NEW how \in Outcomes, RunInv, Finish(how),
           process \in {"none", "reaped"}, cleanup \in {"none", "done"}, pipes' # "open",
           thrown' \in BOOLEAN, thrown' => how = "cancelled",
           pipes' \in {"none", "open", "closed"},
           UNCHANGED <<mode, process, killed, descendants, cleanup, error, cancelled>>
    PROVE  RunInv'
BY DEF RunInv, TypeOK, EarlyInv, TalkInv, ReapInv, DoneInv, Finish, Gone, Outcomes

LEMMA RunNextPreserves == RunInv /\ [RunNext]_cliVars => RunInv'
<1> SUFFICES ASSUME RunInv, [RunNext]_cliVars PROVE RunInv'
    OBVIOUS
<1> USE DEF Outcomes
<1>1. CASE ProjectIsChecked
    <2>1. CASE Finish("directory")
        BY <1>1, <2>1, FinishKeeps DEF ProjectIsChecked, RunInv, EarlyInv, TypeOK
    <2>2. CASE caller' = "launch" /\ UNCHANGED <<outcome, output, scratch>>
        BY <1>1, <2>2 DEF ProjectIsChecked, RunInv, TypeOK, EarlyInv, TalkInv, ReapInv, DoneInv
    <2> QED  BY <1>1, <2>1, <2>2 DEF ProjectIsChecked
<1>2. CASE ScratchIsCreated
    <2>1. CASE Finish("directory")
        BY <1>2, <2>1, FinishKeeps DEF ScratchIsCreated, RunInv, EarlyInv, TypeOK
    <2>2. CASE caller' = "launch" /\ scratch' = "present" /\ UNCHANGED <<outcome, output>>
        BY <1>2, <2>2 DEF ScratchIsCreated, RunInv, TypeOK, EarlyInv, TalkInv, ReapInv, DoneInv
    <2> QED  BY <1>2, <2>1, <2>2 DEF ScratchIsCreated
<1>3. CASE NothingToLaunch
    BY <1>3, FinishKeeps DEF NothingToLaunch, RunInv, EarlyInv, TypeOK
<1>4. CASE OutputFileIsCreated
    BY <1>4 DEF OutputFileIsCreated, RunInv, TypeOK, EarlyInv, TalkInv, ReapInv, DoneInv
<1>5. CASE ChildStarts
    BY <1>5 DEF ChildStarts, RunInv, TypeOK, EarlyInv, TalkInv, ReapInv, DoneInv
<1>6. CASE LaunchFails
    <2>1. CASE Finish("directory") \/ Finish("failed")
        BY <1>6, <2>1, FinishKeeps DEF LaunchFails, RunInv, EarlyInv, TypeOK
    <2>2. CASE caller' = "recheck" /\ UNCHANGED <<outcome, output, scratch>>
        BY <1>6, <2>2 DEF LaunchFails, RunInv, TypeOK, EarlyInv, TalkInv, ReapInv, DoneInv
    <2> QED  BY <1>6, <2>1, <2>2 DEF LaunchFails
<1>7. CASE DirectoryIsRechecked
    BY <1>7, FinishKeeps DEF DirectoryIsRechecked, RunInv, EarlyInv, TypeOK
<1>8. CASE CancelBeforeTalk
    BY <1>8, FinishKeeps DEF CancelBeforeTalk, RunInv, EarlyInv, TypeOK
<1>9. CASE ChildForks \/ DescendantLets \/ ChildExits \/ ExitIsNoticed
    BY <1>9 DEF ChildForks, DescendantLets, ChildExits, ExitIsNoticed,
                RunInv, TypeOK, EarlyInv, TalkInv, ReapInv, DoneInv
<1>10. CASE CommunicateReturns
    BY <1>10, FinishKeeps DEF CommunicateReturns, Communicated, RunInv, TalkInv, TypeOK
<1>11. CASE TimeoutExpires \/ CommunicateFails \/ CancelTalk
    <2>1. killed' \in BOOLEAN
        BY <1>11 DEF TimeoutExpires, CommunicateFails, CancelTalk, KillAndReap
    <2>2. /\ caller = "talk" /\ caller' = "reap" /\ cleanup' = "draining"
          /\ error' \in {"timeout", "failed", "cancelled"}
          /\ UNCHANGED <<mode, process, descendants, pipes, scratch, output, cancelled, outcome>>
        BY <1>11 DEF TimeoutExpires, CommunicateFails, CancelTalk, KillAndReap
    <2>3. \/ thrown' = thrown
          \/ thrown' = TRUE /\ error' = "cancelled"
        BY <1>11 DEF TimeoutExpires, CommunicateFails, CancelTalk, KillAndReap
    <2>4. thrown = FALSE
        BY <2>2 DEF RunInv, TypeOK, TalkInv
    <2> QED  BY <2>1, <2>2, <2>3, <2>4 DEF RunInv, TypeOK, EarlyInv, TalkInv, ReapInv, DoneInv
<1>12. CASE Drained \/ DrainGivesUp
    <2>1. killed' \in BOOLEAN
        BY <1>12 DEF Drained, DrainGivesUp, CloseTransport
    <2>2. /\ cleanup = "draining" /\ cleanup' = "closing" /\ pipes' = "closed"
          /\ UNCHANGED <<mode, caller, process, descendants, scratch, output, error, cancelled,
                         thrown, outcome>>
        BY <1>12 DEF Drained, DrainGivesUp, CloseTransport
    <2> QED  BY <2>1, <2>2 DEF RunInv, TypeOK, EarlyInv, TalkInv, ReapInv, DoneInv
<1>13. CASE Waited
    BY <1>13 DEF Waited, RunInv, TypeOK, EarlyInv, TalkInv, ReapInv, DoneInv
<1>14. CASE CancelReap
    BY <1>14 DEF CancelReap, RunInv, TypeOK, EarlyInv, TalkInv, ReapInv, DoneInv
<1>15. CASE ReapEnds
    BY <1>15, FinishKeeps DEF ReapEnds, RunInv, ReapInv, TypeOK
<1>16. CASE Over \/ UNCHANGED cliVars
    BY <1>16 DEF Over, cliVars, RunInv, TypeOK, EarlyInv, TalkInv, ReapInv, DoneInv
<1> QED  BY <1>1, <1>2, <1>3, <1>4, <1>5, <1>6, <1>7, <1>8, <1>9, <1>10, <1>11, <1>12,
            <1>13, <1>14, <1>15, <1>16 DEF RunNext

\* The invariant of every reachable state of a CLI call (clink/agents/base.py).
THEOREM RunInvariance == RunSpec => []RunInv
BY RunInitEstablishes, RunNextPreserves, PTL DEF RunSpec

\* Whenever the timeout fires and however often the caller is cancelled, no directory is
\* removed under a running child and nothing of an ended call is left.
THEOREM NothingIsLeftHolds == RunSpec => []NothingIsLeft
<1>1. RunInv => NothingIsLeft
    BY DEF RunInv, TypeOK, EarlyInv, TalkInv, ReapInv, DoneInv, NothingIsLeft
<1> QED  BY <1>1, RunInvariance, PTL

\* A cancellation comes out of the call unless the directory could not be removed.
THEOREM CancellationIsKeptHolds == RunSpec => []CancellationIsKept
<1>1. RunInv => CancellationIsKept
    BY DEF RunInv, DoneInv, CancellationIsKept
<1> QED  BY <1>1, RunInvariance, PTL

-----------------------------------------------------------------------------
(* Part 2: the calls of a conversation. *)

RunRecords ==
    [n : Nat, cli : Supported, role : Role, binding : Bindings \ {Missing},
     request : RequestRecords, honest : BOOLEAN, saved : BOOLEAN]

AnswerRecords == [n : Nat, tokens : Nat]

TypeInv ==
    /\ \A c \in DOMAIN clients : c \in Supported /\ clients[c].dir \in Path \cup {None}
    /\ world.link \in [Path -> Path]
    /\ thread \in {None} \cup Threads
    /\ calls \in Nat
    /\ told \in Seq(AnswerRecords)
    /\ runs \in Seq(RunRecords)
    /\ pc \in {"idle", "request", "bound", "check", "launch", "running"}

\* A call works with its own snapshot; meanwhile the conversation can only expire.
CallInv ==
    pc # "idle" =>
        /\ DOMAIN call = {"request", "snapshot", "cli", "role", "candidate", "binding",
                          "shown", "world", "command"}
        /\ call.request \in RequestRecords
        /\ call.snapshot \in {None} \cup Threads
        /\ call.cli \in DOMAIN clients
        /\ call.cli = CliFor(call.request, call.snapshot)
        /\ call.role \in Role
        /\ call.role = RoleFor(call.request, call.snapshot)
        /\ thread \in {None, call.snapshot}

\* The directory that was asked for is the candidate,
CandidateInv ==
    pc \notin {"idle", "request"} =>
        /\ call.request.dir = None => call.candidate = NoCandidate
        /\ call.request.dir # None =>
              call.candidate \in [mode : {"directory"}, launch : {call.request.dir}, canonical : Path]

\* and the one that is chosen agrees with it and with the project.
BindingInv ==
    Prepared =>
        /\ call.binding \in Bindings \ {Missing}
        /\ Binding(call.snapshot).mode = "directory" =>
              /\ call.binding = Binding(call.snapshot)
              /\ SameFile(call.world, call.binding.launch, call.binding.canonical)
        /\ Binding(call.snapshot) = Scratch /\ call.request.dir = None => call.binding = Scratch
        /\ call.request.dir # None => SameFile(call.world, call.binding.launch, call.request.dir)

ShownInv ==
    Prepared =>
        /\ call.shown = History(Turns(call.snapshot), clients[call.cli].budget)
        /\ call.shown # None

CommandInv ==
    pc = "running" =>
        call.command = Command(clients[call.cli], call.role, call.request.edits,
                               call.request.editable, call.binding = Scratch)

\* The conversation the present call began with, or the saved one between calls,
\* and the number of the last call that came before.
Base == IF pc = "idle" THEN thread ELSE call.snapshot
Done == IF pc = "idle" THEN calls ELSE calls - 1

\* The turns are in the order of the calls, and an answer follows its question.
Ordered(turns) ==
    /\ \A i, j \in DOMAIN turns : i < j =>
          /\ turns[i].n <= turns[j].n
          /\ turns[j].role = "user" => turns[i].n < turns[j].n
    /\ \A j \in DOMAIN turns : turns[j].role = "assistant" =>
          /\ j - 1 \in DOMAIN turns
          /\ turns[j - 1].role = "user" /\ turns[j - 1].n = turns[j].n

TurnsFit(turns, done) == Ordered(turns) /\ \A i \in DOMAIN turns : turns[i].n <= done

\* What the client was told of a turn is what a rendering of it shows.
ToldFits(answers, turns, done) ==
    \A j \in DOMAIN answers :
        /\ answers[j].n <= done
        /\ \A k \in DOMAIN turns : turns[k].role = "assistant" /\ answers[j].n = turns[k].n =>
              answers[j].tokens = Rendered(turns[k])

\* The runs whose exchanges a conversation holds.
Kept(trace, turns) ==
    {i \in DOMAIN trace : trace[i].saved /\ \E k \in DOMAIN turns : turns[k].n = trace[i].n}

\* Runs in a project stay there, and the last run is what the conversation inherits.
RunsFit(trace, conversation, done) ==
    LET kept == Kept(trace, Turns(conversation))
    IN /\ \A i \in DOMAIN trace : trace[i].n <= done /\ trace[i].honest
       /\ \A i \in kept : trace[i].binding # Scratch =>
             /\ Binding(conversation) = trace[i].binding
             /\ \A j \in kept : i < j => trace[j].binding = trace[i].binding
       /\ \A i \in kept : (\A j \in kept : j <= i) =>
             /\ Binding(conversation) = trace[i].binding
             /\ Defaults(conversation) = [cli |-> trace[i].cli, role |-> trace[i].role]

Fits(conversation, answers, trace, done) ==
    /\ TurnsFit(Turns(conversation), done)
    /\ ToldFits(answers, Turns(conversation), done)
    /\ RunsFit(trace, conversation, done)

ConversationInv == Fits(Base, told, runs, Done)

IInv ==
    /\ TypeInv
    /\ CallInv
    /\ CandidateInv
    /\ BindingInv
    /\ ShownInv
    /\ CommandInv
    /\ ConversationInv

-----------------------------------------------------------------------------
(* Turns that are added. *)

\* Adding a turn behind a sequence of turns.
LEMMA BehindOne ==
    ASSUME NEW turns \in Seq(TurnRecords), NEW u \in TurnRecords
    PROVE  LET more == turns \o <<u>>
           IN /\ more \in Seq(TurnRecords)
              /\ DOMAIN more = DOMAIN turns \cup {Len(turns) + 1}
              /\ \A i \in DOMAIN turns : more[i] = turns[i]
              /\ more[Len(turns) + 1] = u
<1>1. <<u>> \in Seq(TurnRecords) /\ Len(<<u>>) = 1 /\ <<u>>[1] = u
  OBVIOUS
<1> QED
  BY <1>1, ConcatProperties

\* Adding a question and its answer.
LEMMA BehindTwo ==
    ASSUME NEW turns \in Seq(TurnRecords), NEW u \in TurnRecords, NEW a \in TurnRecords
    PROVE  LET more == turns \o <<u, a>>
           IN /\ more \in Seq(TurnRecords)
              /\ DOMAIN more = DOMAIN turns \cup {Len(turns) + 1, Len(turns) + 2}
              /\ \A i \in DOMAIN turns : more[i] = turns[i]
              /\ more[Len(turns) + 1] = u
              /\ more[Len(turns) + 2] = a
<1>1. <<u, a>> \in Seq(TurnRecords) /\ Len(<<u, a>>) = 2 /\ <<u, a>>[1] = u /\ <<u, a>>[2] = a
  OBVIOUS
<1> QED
  BY <1>1, ConcatProperties

\* A question with its answer, or alone.
LEMMA FirstOfTwo ==
    ASSUME NEW u \in TurnRecords, NEW a \in TurnRecords
    PROVE  SubSeq(<<u, a>>, 1, 2) = <<u, a>> /\ SubSeq(<<u, a>>, 1, 1) = <<u>>
<1> DEFINE q == <<u, a>>
<1>1. q \in Seq(TurnRecords) /\ Len(q) = 2 /\ q[1] = u /\ q[2] = a
  OBVIOUS
<1>2. <<u>> \in Seq(TurnRecords) /\ Len(<<u>>) = 1 /\ <<u>>[1] = u
  OBVIOUS
<1> HIDE DEF q
<1>3. SubSeq(q, 1, 2) \in Seq(TurnRecords) /\ Len(SubSeq(q, 1, 2)) = 2
      /\ \A i \in 1 .. 2 : SubSeq(q, 1, 2)[i] = q[i]
  BY <1>1
<1>4. SubSeq(q, 1, 1) \in Seq(TurnRecords) /\ Len(SubSeq(q, 1, 1)) = 1
      /\ \A i \in 1 .. 1 : SubSeq(q, 1, 1)[i] = q[i]
  BY <1>1
<1>5. SubSeq(q, 1, 2) = q
  BY <1>1, <1>3, SeqEqual
<1>6. SubSeq(q, 1, 1) = <<u>>
  <2>1. SubSeq(q, 1, 1)[1] = <<u>>[1]
    BY <1>1, <1>2, <1>4
  <2> DEFINE f == SubSeq(q, 1, 1)
             g == <<u>>
  <2>2. \A i \in 1 .. 1 : f[i] = g[i]
    BY <2>1
  <2> HIDE DEF f, g
  <2> QED
    BY <1>2, <1>4, <2>2, SeqEqual DEF f, g
<1> QED
  BY <1>5, <1>6 DEF q

\* A question with the number of a new call keeps the order.
LEMMA QuestionFits ==
    ASSUME NEW turns \in Seq(TurnRecords), NEW n \in Nat, NEW done \in Int, done < n,
           TurnsFit(turns, done),
           NEW u \in TurnRecords, u.role = "user", u.n = n
    PROVE  TurnsFit(turns \o <<u>>, n)
<1> DEFINE more == turns \o <<u>>
<1>1. /\ more \in Seq(TurnRecords)
      /\ DOMAIN more = DOMAIN turns \cup {Len(turns) + 1}
      /\ \A i \in DOMAIN turns : more[i] = turns[i]
      /\ more[Len(turns) + 1] = u
  BY BehindOne
<1>2. DOMAIN turns = 1 .. Len(turns) /\ Len(turns) \in Nat
  OBVIOUS
<1>3. \A i \in DOMAIN turns : turns[i].n \in Nat /\ turns[i].n < n
  <2>1. ASSUME NEW i \in DOMAIN turns PROVE turns[i] \in TurnRecords
    OBVIOUS
  <2> QED
    BY <2>1 DEF TurnsFit, TurnRecords
<1> HIDE DEF more
<1>4. \A i, j \in DOMAIN more : i < j =>
          /\ more[i].n <= more[j].n
          /\ more[j].role = "user" => more[i].n < more[j].n
  BY <1>1, <1>2, <1>3 DEF TurnsFit, Ordered
<1>5. \A j \in DOMAIN more : more[j].role = "assistant" =>
          /\ j - 1 \in DOMAIN more
          /\ more[j - 1].role = "user" /\ more[j - 1].n = more[j].n
  BY <1>1, <1>2 DEF TurnsFit, Ordered
<1>6. \A i \in DOMAIN more : more[i].n <= n
  BY <1>1, <1>3
<1> QED
  BY <1>4, <1>5, <1>6 DEF TurnsFit, Ordered, more

LEMMA ExchangeFits ==
    ASSUME NEW turns \in Seq(TurnRecords), NEW n \in Nat, NEW done \in Int, done < n,
           TurnsFit(turns, done),
           NEW u \in TurnRecords, u.role = "user", u.n = n,
           NEW a \in TurnRecords, a.role = "assistant", a.n = n
    PROVE  TurnsFit(turns \o <<u, a>>, n)
<1> DEFINE more == turns \o <<u, a>>
<1>1. /\ more \in Seq(TurnRecords)
      /\ DOMAIN more = DOMAIN turns \cup {Len(turns) + 1, Len(turns) + 2}
      /\ \A i \in DOMAIN turns : more[i] = turns[i]
      /\ more[Len(turns) + 1] = u
      /\ more[Len(turns) + 2] = a
  BY BehindTwo
<1>2. DOMAIN turns = 1 .. Len(turns) /\ Len(turns) \in Nat
  OBVIOUS
<1>3. \A i \in DOMAIN turns : turns[i].n \in Nat /\ turns[i].n < n
  <2>1. ASSUME NEW i \in DOMAIN turns PROVE turns[i] \in TurnRecords
    OBVIOUS
  <2> QED
    BY <2>1 DEF TurnsFit, TurnRecords
<1> HIDE DEF more
<1>4. \A i, j \in DOMAIN more : i < j =>
          /\ more[i].n <= more[j].n
          /\ more[j].role = "user" => more[i].n < more[j].n
  BY <1>1, <1>2, <1>3 DEF TurnsFit, Ordered
<1>5. \A j \in DOMAIN more : more[j].role = "assistant" =>
          /\ j - 1 \in DOMAIN more
          /\ more[j - 1].role = "user" /\ more[j - 1].n = more[j].n
  BY <1>1, <1>2 DEF TurnsFit, Ordered
<1>6. \A i \in DOMAIN more : more[i].n <= n
  BY <1>1, <1>3
<1> QED
  BY <1>4, <1>5, <1>6 DEF TurnsFit, Ordered, more

LEMMA NothingFits ==
    ASSUME NEW done PROVE TurnsFit(<< >>, done)
BY DEF TurnsFit, Ordered
-----------------------------------------------------------------------------
(* What was told of them. *)

LEMMA ToldOfNothing ==
    ASSUME NEW answers, NEW turns, NEW done, ToldFits(answers, turns, done)
    PROVE  ToldFits(answers, << >>, done)
BY DEF ToldFits

LEMMA Element ==
    ASSUME NEW answers \in Seq(AnswerRecords), NEW j \in DOMAIN answers
    PROVE  answers[j].n \in Nat
<1>1. answers[j] \in AnswerRecords
  OBVIOUS
<1> QED
  BY <1>1 DEF AnswerRecords

\* Turns with the number of a new call are not what was told before.
LEMMA ToldBefore ==
    ASSUME NEW answers \in Seq(AnswerRecords), NEW turns \in Seq(TurnRecords),
           NEW more \in Seq(TurnRecords), NEW n \in Nat, NEW done \in Int, done < n,
           ToldFits(answers, turns, done),
           DOMAIN turns \subseteq DOMAIN more,
           \A i \in DOMAIN turns : more[i] = turns[i],
           \A i \in DOMAIN more \ DOMAIN turns : more[i].n = n
    PROVE  ToldFits(answers, more, n)
<1> SUFFICES ASSUME NEW j \in DOMAIN answers
             PROVE  /\ answers[j].n <= n
                    /\ \A k \in DOMAIN more : more[k].role = "assistant" /\ answers[j].n = more[k].n =>
                          answers[j].tokens = Rendered(more[k])
  BY DEF ToldFits
<1>1. answers[j].n \in Nat
  BY Element
<1>2. answers[j].n \in Nat /\ answers[j].n <= done
  BY <1>1 DEF ToldFits
<1>3. ASSUME NEW k \in DOMAIN more, more[k].role = "assistant", answers[j].n = more[k].n
      PROVE  answers[j].tokens = Rendered(more[k])
  <2>1. k \in DOMAIN turns
    BY <1>2, <1>3
  <2> QED
    BY <2>1, <1>3 DEF ToldFits
<1> QED
  BY <1>2, <1>3

\* An answer is told as its turn is rendered.
LEMMA ToldAnswer ==
    ASSUME NEW answers \in Seq(AnswerRecords), NEW turns, NEW n \in Nat,
           ToldFits(answers, turns, n), NEW tokens \in Nat,
           \A k \in DOMAIN turns : turns[k].role = "assistant" /\ n = turns[k].n =>
               tokens = Rendered(turns[k])
    PROVE  ToldFits(Append(answers, [n |-> n, tokens |-> tokens]), turns, n)
<1> DEFINE answer == [n |-> n, tokens |-> tokens]
           more == Append(answers, answer)
<1>1. answer \in AnswerRecords /\ answer.n = n /\ answer.tokens = tokens
  BY DEF AnswerRecords
<1> HIDE DEF answer
<1>2. /\ DOMAIN more = DOMAIN answers \cup {Len(answers) + 1}
      /\ \A j \in DOMAIN answers : more[j] = answers[j]
      /\ more[Len(answers) + 1] = answer
  BY <1>1
<1> HIDE DEF more
<1>3. ToldFits(more, turns, n)
  BY <1>1, <1>2 DEF ToldFits
<1> QED
  BY <1>3 DEF more, answer

-----------------------------------------------------------------------------
(* Runs. *)

\* A conversation that is forgotten holds no run.
LEMMA RunsForgotten ==
    ASSUME NEW trace, NEW conversation, NEW done, RunsFit(trace, conversation, done)
    PROVE  RunsFit(trace, None, done)
<1>1. Kept(trace, Turns(None)) = {}
  BY DEF Kept, Turns
<1> QED
  BY <1>1 DEF RunsFit

\* Turns with the number of a new call belong to no run before.
LEMMA KeptBefore ==
    ASSUME NEW trace \in Seq(RunRecords), NEW turns \in Seq(TurnRecords), NEW more,
           NEW n \in Nat, NEW done \in Int, done < n,
           \A i \in DOMAIN trace : trace[i].n <= done,
           DOMAIN turns \subseteq DOMAIN more,
           \A i \in DOMAIN turns : more[i] = turns[i],
           \A i \in DOMAIN more \ DOMAIN turns : more[i].n = n
    PROVE  Kept(trace, more) = Kept(trace, turns)
<1>1. ASSUME NEW i \in DOMAIN trace PROVE trace[i].n \in Nat /\ trace[i].n < n
  <2>1. trace[i] \in RunRecords
    OBVIOUS
  <2> QED
    BY <2>1 DEF RunRecords
<1>2. ASSUME NEW i \in DOMAIN trace
      PROVE  (\E k \in DOMAIN more : more[k].n = trace[i].n)
                <=> (\E k \in DOMAIN turns : turns[k].n = trace[i].n)
  BY <1>1
<1> QED
  BY <1>2 DEF Kept

\* Another tool's turns leave the runs and what is inherited alone.
LEMMA RunsOfOthers ==
    ASSUME NEW trace \in Seq(RunRecords), NEW old, NEW new,
           NEW n \in Nat, NEW done \in Int, done < n,
           RunsFit(trace, old, done),
           Binding(new) = Binding(old), Defaults(new) = Defaults(old),
           Kept(trace, Turns(new)) = Kept(trace, Turns(old))
    PROVE  RunsFit(trace, new, n)
<1>1. ASSUME NEW i \in DOMAIN trace PROVE trace[i].n <= n
  <2>1. trace[i] \in RunRecords
    OBVIOUS
  <2> QED
    BY <2>1 DEF RunRecords, RunsFit
<1> QED
  BY <1>1 DEF RunsFit

\* A run that is not saved is kept by no conversation.
LEMMA RunUnsaved ==
    ASSUME NEW trace \in Seq(RunRecords), NEW run \in RunRecords, NEW conversation,
           NEW n \in Nat, NEW done \in Int, done < n,
           RunsFit(trace, conversation, done), run.n = n, run.honest
    PROVE  RunsFit(Append(trace, run), None, n)
<1> DEFINE more == Append(trace, run)
<1>1. /\ DOMAIN more = DOMAIN trace \cup {Len(trace) + 1}
      /\ \A i \in DOMAIN trace : more[i] = trace[i]
      /\ more[Len(trace) + 1] = run
  OBVIOUS
<1>2. ASSUME NEW i \in DOMAIN trace PROVE trace[i].n <= n /\ trace[i].honest
  <2>1. trace[i] \in RunRecords
    OBVIOUS
  <2> QED
    BY <2>1 DEF RunRecords, RunsFit
<1>3. Kept(more, Turns(None)) = {}
  BY DEF Kept, Turns
<1> HIDE DEF more
<1>4. RunsFit(more, None, n)
  BY <1>1, <1>2, <1>3 DEF RunsFit
<1> QED
  BY <1>4 DEF more

\* A run whose exchange is saved, in the directory the conversation has if it has one.
LEMMA RunSaved ==
    ASSUME NEW trace \in Seq(RunRecords), NEW run \in RunRecords, NEW old, NEW new,
           NEW n \in Nat, NEW done \in Int, done < n,
           RunsFit(trace, old, done), run.n = n, run.honest, run.saved,
           Kept(trace, Turns(new)) = Kept(trace, Turns(old)),
           \E k \in DOMAIN Turns(new) : Turns(new)[k].n = n,
           Binding(old).mode = "directory" => run.binding = Binding(old),
           Binding(new) = run.binding,
           Defaults(new) = [cli |-> run.cli, role |-> run.role]
    PROVE  RunsFit(Append(trace, run), new, n)
<1> DEFINE more == Append(trace, run)
           last == Len(trace) + 1
           before == Kept(trace, Turns(old))
           kept == Kept(more, Turns(new))
<1>1. /\ DOMAIN more = DOMAIN trace \cup {last}
      /\ DOMAIN trace = 1 .. Len(trace)
      /\ \A i \in DOMAIN trace : more[i] = trace[i] /\ i < last
      /\ more[last] = run
      /\ last \in Nat
  OBVIOUS
<1>2. ASSUME NEW i \in DOMAIN trace
      PROVE  trace[i].n <= n /\ trace[i].honest /\ trace[i].binding \in Bindings \ {Missing}
  <2>1. trace[i] \in RunRecords
    OBVIOUS
  <2> QED
    BY <2>1 DEF RunRecords, RunsFit
<1> HIDE DEF more, last
<1>3. kept = before \cup {last}
  <2>1. ASSUME NEW i \in DOMAIN trace PROVE i \in kept <=> i \in Kept(trace, Turns(new))
    BY <1>1 DEF Kept
  <2>2. last \in kept
    BY <1>1 DEF Kept
  <2>3. kept \subseteq DOMAIN trace \cup {last} /\ before \subseteq DOMAIN trace
    BY <1>1 DEF Kept
  <2> QED
    BY <2>1, <2>2, <2>3
<1>4. before \subseteq DOMAIN trace
  BY DEF Kept
<1>5. ASSUME NEW i \in before, trace[i].binding # Scratch
      PROVE  run.binding = trace[i].binding
  <2>1. Binding(old) = trace[i].binding
    BY <1>5 DEF RunsFit
  <2>2. trace[i].binding.mode = "directory"
    BY <1>5, <1>4, <1>2 DEF Bindings
  <2> QED
    BY <2>1, <2>2
<1> HIDE DEF kept
<1>6. \A i \in DOMAIN more : more[i].n <= n /\ more[i].honest
  BY <1>1, <1>2
<1>7. ASSUME NEW i \in kept, more[i].binding # Scratch
      PROVE  /\ Binding(new) = more[i].binding
             /\ \A j \in kept : i < j => more[j].binding = more[i].binding
  <2>1. CASE i = last
    <3>1. \A j \in kept : ~(i < j)
      BY <2>1, <1>1, <1>3, <1>4
    <3> QED
      BY <2>1, <3>1, <1>1
  <2>2. CASE i \in before
    <3>1. more[i] = trace[i] /\ trace[i].binding # Scratch
      BY <2>2, <1>1, <1>4, <1>7
    <3>2. run.binding = trace[i].binding
      BY <2>2, <3>1, <1>5
    <3>3. \A j \in before : i < j => trace[j].binding = trace[i].binding
      BY <2>2, <3>1 DEF RunsFit
    <3>4. ASSUME NEW j \in kept, i < j PROVE more[j].binding = more[i].binding
      BY <3>1, <3>2, <3>3, <3>4, <1>1, <1>3, <1>4
    <3> QED
      BY <3>1, <3>2, <3>4
  <2> QED
    BY <2>1, <2>2, <1>3
<1>8. ASSUME NEW i \in kept, \A j \in kept : j <= i
      PROVE  /\ Binding(new) = more[i].binding
             /\ Defaults(new) = [cli |-> more[i].cli, role |-> more[i].role]
  <2>1. i = last
    BY <1>1, <1>3, <1>4, <1>8
  <2> QED
    BY <2>1, <1>1
<1>9. RunsFit(more, new, n)
  BY <1>6, <1>7, <1>8 DEF RunsFit, kept
<1> QED
  BY <1>9 DEF more
-----------------------------------------------------------------------------
(* Numbers in order. *)

\* A set of numbers that is not empty has a least one.
LEMMA LeastNumber ==
    ASSUME NEW S \in SUBSET Nat, S # {}
    PROVE  Min(S) \in S /\ \A i \in S : Min(S) <= i
<1> DEFINE R == OpToRel(<, Nat)
<1>1. IsWellFoundedOn(R, Nat)
  BY NatLessThanWellFounded
<1>2. PICK m \in S : \A i \in S : <<i, m>> \notin R
  BY <1>1, WFMin
<1>3. \A i \in S : ~(i < m)
  BY <1>2 DEF OpToRel
<1>4. \A i \in S : m <= i
  BY <1>3
<1> QED
  BY <1>4 DEF Min

\* A set of places of a sequence that is not empty has a last one.
LEMMA LastNumber ==
    ASSUME NEW n \in Nat, NEW S \in SUBSET (1 .. n), S # {}
    PROVE  Max(S) \in S /\ \A i \in S : i <= Max(S)
<1> DEFINE D == {n - i : i \in S}
<1>1. \A i \in S : i \in 1 .. n /\ n - i \in Nat
  OBVIOUS
<1>2. D \in SUBSET Nat /\ D # {}
  BY <1>1
<1>3. Min(D) \in D /\ \A d \in D : Min(D) <= d
  BY <1>2, LeastNumber
<1>4. PICK m \in S : Min(D) = n - m
  BY <1>3
<1>5. \A i \in S : Min(D) <= n - i
  BY <1>3
<1> HIDE DEF D
<1>6. ASSUME NEW i \in S PROVE m >= i
  <2>1. n - m <= n - i
    BY <1>4, <1>5
  <2> QED
    BY <2>1, <1>1
<1> QED
  BY <1>1, <1>6 DEF Max

-----------------------------------------------------------------------------
(* What a CLI is shown. *)

\* An exchange is a question and its one answer.
LEMMA GroupIsExchange ==
    ASSUME NEW turns \in Seq(TurnRecords), Ordered(turns), NEW i \in GroupStarts(turns)
    PROVE  Group(turns, i) = {i, i + 1}
<1>1. /\ i \in 1 .. Len(turns) /\ i + 1 \in 1 .. Len(turns) /\ Len(turns) \in Nat
      /\ turns[i].role = "user" /\ turns[i + 1].role = "assistant"
  BY DEF GroupStarts
<1>2. ASSUME NEW k \in i .. Len(turns), \A j \in i + 1 .. k : turns[j].role = "assistant"
      PROVE  k = i \/ k = i + 1
  <2>1. SUFFICES ASSUME k > i + 1 PROVE FALSE
    BY <1>1
  <2>2. i + 2 \in i + 1 .. k /\ i + 2 \in DOMAIN turns /\ (i + 2) - 1 = i + 1
    BY <1>1, <2>1
  <2>3. turns[i + 2].role = "assistant"
    BY <1>2, <2>2
  <2>4. turns[(i + 2) - 1].role = "user"
    BY <2>2, <2>3 DEF Ordered
  <2> QED
    BY <2>2, <2>4, <1>1
<1>3. i \in Group(turns, i) /\ i + 1 \in Group(turns, i)
  BY <1>1 DEF Group
<1> QED
  BY <1>2, <1>3 DEF Group

\* A history that is shown begins with a question, leaves out no exchange after it, and
\* none before it from which all that follows would fit.
LEMMA HistoryIsSuffix ==
    ASSUME NEW turns \in Seq(TurnRecords), Ordered(turns), NEW budget,
           History(turns, budget) # None, History(turns, budget) # {}
    PROVE  \E start \in GroupStarts(turns) :
              /\ \A k : k \in History(turns, budget) <=>
                    \E i \in GroupStarts(turns) : i >= start /\ k \in {i, i + 1}
              /\ Min(History(turns, budget)) = start
              /\ HistoryTokens(turns, History(turns, budget)) =< budget
              /\ \A i \in GroupStarts(turns) :
                    HistoryTokens(turns, SuffixFrom(turns, i)) =< budget => start =< i
<1> DEFINE Fitting == {i \in GroupStarts(turns) : HistoryTokens(turns, SuffixFrom(turns, i)) =< budget}
           start == HistoryStart(turns, budget)
           shown == History(turns, budget)
<1>1. GroupStarts(turns) \in SUBSET Nat
  BY DEF GroupStarts
<1>2. shown = SuffixFrom(turns, start) /\ start # 0
  BY DEF History
<1>3. Fitting # {} /\ start = Min(Fitting)
  BY <1>2 DEF HistoryStart
<1>4. /\ start \in GroupStarts(turns) /\ HistoryTokens(turns, SuffixFrom(turns, start)) =< budget
      /\ \A i \in GroupStarts(turns) :
            HistoryTokens(turns, SuffixFrom(turns, i)) =< budget => start =< i
  <2>1. Fitting \in SUBSET Nat
    BY <1>1
  <2>2. Min(Fitting) \in Fitting /\ \A i \in Fitting : Min(Fitting) =< i
    BY <2>1, <1>3, LeastNumber
  <2> QED
    BY <2>2, <1>3
<1> HIDE DEF Fitting, start, shown
<1>5. ASSUME NEW k
      PROVE  k \in shown <=> \E i \in GroupStarts(turns) : i >= start /\ k \in {i, i + 1}
  BY <1>2, GroupIsExchange DEF SuffixFrom
<1>6. Min(shown) = start
  <2>1. start \in shown /\ \A k \in shown : k \in Nat /\ start <= k
    <3>1. start \in shown
      <4>1. start \in GroupStarts(turns) /\ start \in Nat
        BY <1>1, <1>4
      <4>2. start >= start /\ start \in {start, start + 1}
        BY <4>1
      <4> QED
        BY <4>1, <4>2, <1>5
    <3>2. ASSUME NEW k \in shown PROVE k \in Nat /\ start <= k
      <4>1. PICK i \in GroupStarts(turns) : i >= start /\ k \in {i, i + 1}
        BY <1>5
      <4> QED
        BY <4>1, <1>1, <1>4
    <3> QED
      BY <3>1, <3>2
  <2>2. shown \in SUBSET Nat /\ shown # {}
    BY <2>1
  <2>3. Min(shown) \in shown /\ Min(shown) <= start
    BY <2>1, <2>2, LeastNumber
  <2>4. start <= Min(shown) /\ Min(shown) \in Nat /\ start \in Nat
    BY <2>1, <2>3
  <2> QED
    BY <2>3, <2>4
<1> QED
  BY <1>2, <1>4, <1>5, <1>6 DEF start, shown

\* Nothing is shown only of a conversation without turns.
LEMMA EmptyHistory ==
    ASSUME NEW turns \in Seq(TurnRecords), Ordered(turns), NEW budget,
           History(turns, budget) = {}, {} # None
    PROVE  turns = << >>
<1> SUFFICES ASSUME turns # << >> PROVE FALSE
  OBVIOUS
<1> DEFINE Fitting == {i \in GroupStarts(turns) : HistoryTokens(turns, SuffixFrom(turns, i)) =< budget}
<1>1. /\ SuffixFrom(turns, HistoryStart(turns, budget)) = {}
      /\ HistoryStart(turns, budget) # 0
  BY DEF History
<1>2. Fitting # {} /\ HistoryStart(turns, budget) = Min(Fitting)
  BY <1>1 DEF HistoryStart
<1>3. Fitting \in SUBSET Nat
  BY DEF GroupStarts
<1>4. HistoryStart(turns, budget) \in GroupStarts(turns) \cap Nat
  BY <1>2, <1>3, LeastNumber
<1>5. HistoryStart(turns, budget) \in SuffixFrom(turns, HistoryStart(turns, budget))
  BY <1>4, GroupIsExchange DEF SuffixFrom
<1> QED
  BY <1>1, <1>5

-----------------------------------------------------------------------------
(* What counts as an answer. *)

LEMMA CodexAnswers ==
    ASSUME NEW out \in SUBSET CodexEvent,
           CodexParse(out).kind = "parsed", ~CodexParse(out).isError
    PROVE  "message" \in out /\ "turn_failed" \notin out
<1> DEFINE isError == "turn_failed" \in out \/ ("message" \notin out /\ "error" \in out)
<1>1. isError \in BOOLEAN
  OBVIOUS
<1>2. ~("broken_item" \in out \/ ("message" \notin out /\ ~isError))
  BY DEF CodexParse, Unparsed
<1>3. CodexParse(out) = Parsed(isError)
  BY <1>2 DEF CodexParse
<1> HIDE DEF isError
<1>4. Parsed(isError).isError = isError
  BY DEF Parsed
<1>5. ~isError
  BY <1>1, <1>3, <1>4
<1> QED
  BY <1>2, <1>5 DEF isError

LEMMA ClaudeAnswers ==
    ASSUME NEW out \in PossibleOutputs("claude"),
           ClaudeParse(out).kind = "parsed", ~ClaudeParse(out).isError
    PROVE  ReportsSuccess("claude", out)
<1> DEFINE entries == out.entries
           payload == Payload(entries)
           Records == [type : STRING, result : {"none", "empty", "text"},
                       failed : BOOLEAN, message : BOOLEAN]
           said == \/ payload.result = "text" \/ payload.message
                   \/ \E i \in DOMAIN out.entries :
                         /\ out.array /\ out.entries[i].type = "assistant" /\ out.entries[i].message
                         /\ \A j \in DOMAIN out.entries : out.entries[j].type = "assistant" => i >= j
<1>1. entries \in Seq(Records) /\ out.stderr \in BOOLEAN
  BY DEF PossibleOutputs
<1>2. entries # << >>
  BY DEF ClaudeParse, Unparsed
<1>3. \E i \in DOMAIN entries : payload = entries[i]
  <2> DEFINE Results == {i \in DOMAIN entries : entries[i].type = "result" \/ entries[i].result # "none"}
             Spoken == {i \in DOMAIN entries : entries[i].type = "assistant"}
  <2>1. Len(entries) \in DOMAIN entries /\ DOMAIN entries = 1 .. Len(entries) /\ Len(entries) \in Nat
    BY <1>1, <1>2
  <2>2. CASE Results # {}
    <3>1. \E i \in Results : \A j \in Results : i =< j
      <4>1. Results \in SUBSET Nat
        BY <2>1
      <4> QED
        BY <2>2, <4>1, LeastNumber
    <3>2. payload = entries[CHOOSE i \in Results : \A j \in Results : i =< j]
      BY <2>2 DEF Payload
    <3> QED
      BY <3>1, <3>2
  <2>3. CASE Results = {} /\ Spoken # {}
    <3>1. \E i \in Spoken : \A j \in Spoken : i >= j
      <4>1. Spoken \in SUBSET (1 .. Len(entries))
        BY <2>1
      <4>2. Max(Spoken) \in Spoken /\ \A j \in Spoken : j <= Max(Spoken)
        BY <2>1, <2>3, <4>1, LastNumber
      <4> QED
        BY <4>1, <4>2
    <3>2. payload = entries[CHOOSE i \in Spoken : \A j \in Spoken : i >= j]
      BY <2>3 DEF Payload
    <3> QED
      BY <3>1, <3>2
  <2>4. CASE Results = {} /\ Spoken = {}
    BY <2>1, <2>4 DEF Payload
  <2> QED
    BY <2>2, <2>3, <2>4
<1> HIDE DEF Records, payload, entries
<1>4. payload \in Records
  BY <1>1, <1>3
<1> USE DEF Records, entries
<1>5. said /\ ClaudeParse(out) = Parsed(payload.failed)
  <2>1. CASE said
    BY <1>2, <2>1 DEF ClaudeParse, payload
  <2>2. CASE ~said
    <3>1. ~(payload.failed \/ out.stderr)
      <4>1. SUFFICES ASSUME payload.failed \/ out.stderr PROVE FALSE
        OBVIOUS
      <4>2. ClaudeParse(out) = Parsed(TRUE)
        BY <1>2, <2>2, <4>1 DEF ClaudeParse, payload
      <4> QED
        BY <4>2 DEF Parsed
    <3>2. ClaudeParse(out) = Unparsed
      BY <1>2, <2>2, <3>1 DEF ClaudeParse, payload
    <3> QED
      BY <3>2 DEF Unparsed
  <2> QED
    BY <2>1, <2>2
<1>6. ~payload.failed
  BY <1>4, <1>5 DEF Parsed
<1>7. \E i \in DOMAIN entries : entries[i].result = "text" \/ entries[i].message
  BY <1>3, <1>5
<1> QED
  BY <1>6, <1>7 DEF ReportsSuccess, payload

LEMMA GeminiAnswers ==
    ASSUME NEW out \in PossibleOutputs("gemini"),
           GeminiParse(out).kind = "parsed", ~GeminiParse(out).isError
    PROVE  ReportsSuccess("gemini", out)
<1>1. out.error \in BOOLEAN /\ out.response \in BOOLEAN /\ out.explained \in BOOLEAN
  BY DEF PossibleOutputs
<1>2. Parsed(TRUE).isError /\ Unparsed.kind # "parsed"
  BY DEF Parsed, Unparsed
<1>3. GeminiParse(out) # Parsed(TRUE) /\ GeminiParse(out) # Unparsed
  BY <1>2
<1>4. ~(out.stdout = "object" /\ out.error)
  BY <1>3 DEF GeminiParse
<1>5. out.stdout = "object" /\ out.response
  BY <1>3 DEF GeminiParse
<1> QED
  BY <1>4, <1>5 DEF ReportsSuccess

LEMMA AgyAnswers ==
    ASSUME NEW out \in PossibleOutputs("agy"), AgyParse(out).kind = "parsed"
    PROVE  ReportsSuccess("agy", out)
<1> DEFINE Records == [status : STRING, response : BOOLEAN]
           results == out.results
<1>1. results \in Seq(Records)
  BY DEF PossibleOutputs
<1>2. results[1].status = "SUCCESS" /\ results[1].response
  BY DEF AgyParse, Unparsed
<1>3. Len(results) = 1
  BY DEF AgyParse, Unparsed
<1> HIDE DEF results, Records
<1>4. 1 \in DOMAIN results
  BY <1>1, <1>3
<1>5. results[1] \in Records
  BY <1>1, <1>4
<1> USE DEF results, Records
<1>6. out.results[1] = [status |-> "SUCCESS", response |-> TRUE]
  BY <1>2, <1>5
<1> QED
  BY <1>4, <1>6 DEF ReportsSuccess

\* What is used as a CLI's answer is what the CLI itself reports as a success.
LEMMA AnswerIsHonest ==
    ASSUME NEW cli \in Supported, NEW out \in PossibleOutputs(cli), NEW code,
           IsAnswer(AgentOutput(cli, out, code), code)
    PROVE  code = 0 /\ ReportsSuccess(cli, out)
<1>1. code = 0 /\ Parse(cli, out).kind = "parsed" /\ ~Parse(cli, out).isError
  BY DEF IsAnswer, AgentOutput
<1>2. CASE cli = "codex"
  <2>1. out \in SUBSET CodexEvent /\ Parse(cli, out) = CodexParse(out)
    BY <1>2 DEF PossibleOutputs, Parse
  <2> QED
    BY <1>1, <1>2, <2>1, CodexAnswers DEF ReportsSuccess
<1>3. CASE cli = "claude"
  <2>1. Parse(cli, out) = ClaudeParse(out)
    BY <1>3 DEF Parse
  <2> QED
    BY <1>1, <1>3, <2>1, ClaudeAnswers
<1>4. CASE cli = "gemini"
  <2>1. Parse(cli, out) = GeminiParse(out)
    BY <1>4 DEF Parse
  <2> QED
    BY <1>1, <1>4, <2>1, GeminiAnswers
<1>5. CASE cli = "agy"
  <2>1. Parse(cli, out) = AgyParse(out)
    BY <1>5 DEF Parse
  <2> QED
    BY <1>1, <1>5, <2>1, AgyAnswers
<1> QED
  BY <1>2, <1>3, <1>4, <1>5 DEF Supported
-----------------------------------------------------------------------------
(* Conversations as a whole. *)

LEMMA TurnsAreTyped ==
    ASSUME NEW conversation \in {None} \cup Threads
    PROVE  Turns(conversation) \in Seq(TurnRecords)
BY DEF Turns, Threads

\* What fits still does after another call, and when the conversation is forgotten.
LEMMA FitsLater ==
    ASSUME NEW conversation \in {None} \cup Threads, NEW answers \in Seq(AnswerRecords),
           NEW trace \in Seq(RunRecords), NEW done \in Int, NEW n \in Nat, done <= n,
           Fits(conversation, answers, trace, done)
    PROVE  Fits(conversation, answers, trace, n) /\ Fits(None, answers, trace, n)
<1> DEFINE turns == Turns(conversation)
<1>1. TurnsFit(turns, n)
  <2>1. turns \in Seq(TurnRecords)
    BY TurnsAreTyped
  <2> HIDE DEF turns
  <2>2. ASSUME NEW i \in DOMAIN turns PROVE turns[i].n \in Nat
    <3>1. turns[i] \in TurnRecords
      BY <2>1
    <3> QED
      BY <3>1 DEF TurnRecords
  <2>3. TurnsFit(turns, done)
    BY DEF Fits, turns
  <2> QED
    BY <2>2, <2>3 DEF TurnsFit
<1>2. ToldFits(answers, turns, n)
  <2>1. ToldFits(answers, turns, done)
    BY DEF Fits
  <2> HIDE DEF turns
  <2>2. \A j \in DOMAIN answers : answers[j].n \in Nat
    BY Element
  <2> QED
    BY <2>1, <2>2 DEF ToldFits
<1>3. RunsFit(trace, conversation, n)
  <2>1. ASSUME NEW i \in DOMAIN trace PROVE trace[i].n \in Nat
    <3>1. trace[i] \in RunRecords
      OBVIOUS
    <3> QED
      BY <3>1 DEF RunRecords
  <2>2. RunsFit(trace, conversation, done)
    BY DEF Fits
  <2> QED
    BY <2>1, <2>2 DEF RunsFit
<1>4. Turns(None) = << >>
  BY DEF Turns
<1> QED
  BY <1>1, <1>2, <1>3, <1>4, NothingFits, ToldOfNothing, RunsForgotten DEF Fits

LEMMA FitsFresh ==
    ASSUME NEW n PROVE Fits(None, << >>, << >>, n)
BY NothingFits DEF Fits, Turns, ToldFits, RunsFit, Kept

-----------------------------------------------------------------------------
(* Steps. *)

\* The manifests of a server are its registry, each under its name.
LEMMA RegistryIsTyped ==
    ASSUME NEW manifests \in Layers, Loads(manifests)
    PROVE  \A c \in DOMAIN Load(manifests) :
              c \in Supported /\ Load(manifests)[c].dir \in Path \cup {None}
<1> SUFFICES ASSUME NEW c \in DOMAIN Load(manifests)
             PROVE  c \in Supported /\ Load(manifests)[c].dir \in Path \cup {None}
  OBVIOUS
<1> DEFINE Named == {i \in DOMAIN manifests : manifests[i].name = c}
           last == CHOOSE i \in DOMAIN manifests :
                     /\ manifests[i].name = c
                     /\ \A j \in DOMAIN manifests : manifests[j].name = c => j =< i
<1>1. manifests \in Seq(ToSet(manifests)) /\ \A i \in DOMAIN manifests : IsManifest(manifests[i], Path)
  BY ClinkAssumption DEF ToSet
<1>2. DOMAIN manifests = 1 .. Len(manifests) /\ Len(manifests) \in Nat
  BY <1>1
<1>3. Named # {} /\ Named \in SUBSET (1 .. Len(manifests))
  BY <1>2 DEF Load
<1>4. Max(Named) \in Named /\ \A j \in Named : j <= Max(Named)
  BY <1>2, <1>3, LastNumber
<1>5. last \in DOMAIN manifests /\ manifests[last].name = c
  BY <1>4
<1>6. Load(manifests)[c] = Resolved(manifests[last])
  BY DEF Load
<1> HIDE DEF last, Named
<1>7. c \in Supported
  BY <1>5 DEF Loads, IsValid
<1>8. Resolved(manifests[last]).dir = manifests[last].dir
  BY <1>1, <1>5 DEF Resolved, IsManifest
<1>9. manifests[last].dir \in Path \cup {None}
  BY <1>1, <1>5 DEF IsManifest
<1> QED
  BY <1>6, <1>7, <1>8, <1>9

LEMMA WorldIsTyped ==
    ASSUME NEW w \in Worlds PROVE w.link \in [Path -> Path]
BY ClinkAssumption DEF Worlds

LEMMA InitIInv == Init => IInv
<1> SUFFICES ASSUME Init PROVE IInv
  OBVIOUS
<1>1. \A c \in DOMAIN clients : c \in Supported /\ clients[c].dir \in Path \cup {None}
  BY RegistryIsTyped DEF Init
<1>2. world.link \in [Path -> Path]
  BY WorldIsTyped DEF Init
<1>3. CASE thread = None
  <2>1. TypeInv
    BY <1>1, <1>2, <1>3 DEF Init, TypeInv
  <2>2. ConversationInv
    BY <1>3, FitsFresh DEF Init, ConversationInv, Base
  <2> QED
    BY <2>1, <2>2 DEF Init, IInv, CallInv, CandidateInv, BindingInv, ShownInv, CommandInv, Prepared
<1>4. CASE thread # None
  <2>1. PICK t \in Chats : thread = Thread(<<Turn("user", 0, t, None), Turn("assistant", 0, t, None)>>)
    BY <1>4 DEF Init
  <2> DEFINE u == Turn("user", 0, t, None)
             a == Turn("assistant", 0, t, None)
  <2>2. /\ u \in TurnRecords /\ u.role = "user" /\ u.n = 0
        /\ a \in TurnRecords /\ a.role = "assistant" /\ a.n = 0
    BY ClinkAssumption DEF Turn, TurnRecords
  <2> HIDE DEF u, a
  <2>3. <<u, a>> \in Seq(TurnRecords) /\ thread.turns = <<u, a>>
    BY <2>1, <2>2 DEF Thread, u, a
  <2>4. thread \in Threads
    BY <2>1, <2>3 DEF Thread, Threads, Bindings
  <2>5. TypeInv
    BY <1>1, <1>2, <2>4 DEF Init, TypeInv
  <2>6. Turns(Base) = <<u, a>> /\ Done = 0
    BY <1>4, <2>3 DEF Init, Base, Turns, Done
  <2>7. TurnsFit(<<u, a>>, 0)
    <3>1. << >> \o <<u, a>> = <<u, a>>
      BY <2>3
    <3>2. PICK before \in Int : before < 0
      BY -1 \in Int, -1 < 0
    <3>3. TurnsFit(<< >>, before) /\ << >> \in Seq(TurnRecords) /\ 0 \in Nat
      BY NothingFits
    <3>4. TurnsFit(<< >> \o <<u, a>>, 0)
      BY <3>2, <3>3, <2>2, ExchangeFits
    <3> QED
      BY <3>1, <3>4
  <2>8. ConversationInv
    BY <2>6, <2>7 DEF Init, ConversationInv, Fits, ToldFits, RunsFit, Kept
  <2> QED
    BY <2>5, <2>8 DEF Init, IInv, CallInv, CandidateInv, BindingInv, ShownInv, CommandInv, Prepared
<1> QED
  BY <1>3, <1>4
LEMMA NoneIsNoError ==
    ASSUME NEW e \in Errors PROVE e # None
BY ClinkAssumption

LEMMA BindingIsTyped ==
    ASSUME NEW conversation \in {None} \cup Threads
    PROVE  Binding(conversation) \in Bindings /\ Binding(conversation) # Malformed
<1>1. Binding(conversation) \in Bindings
  BY DEF Binding, Threads, Bindings
<1> QED
  BY <1>1 DEF Bindings, Missing, Scratch, Malformed

\* A call begins with the conversation as it is.
LEMMA CallStep ==
    ASSUME IInv, NEW request \in Requests, Call(request)
    PROVE  IInv'
<1>1. /\ pc = "idle" /\ pc' = "request" /\ calls' = calls + 1
      /\ UNCHANGED <<clients, world, thread>>
  BY DEF Call
<1>2. /\ DOMAIN call' = {"request", "snapshot", "cli", "role", "candidate", "binding",
                         "shown", "world", "command"}
      /\ call'.request = request /\ call'.snapshot = thread
      /\ call'.cli = CliFor(request, thread) /\ call'.role = RoleFor(request, thread)
  BY DEF Call
<1>3. request \in RequestRecords /\ thread \in {None} \cup Threads /\ calls \in Nat
  BY ClinkAssumption DEF IInv, TypeInv
<1>4. RoleFor(request, thread) \in Role
  <2>1. CASE request.role # None
    BY <2>1, <1>3 DEF RoleFor, RequestRecords
  <2>2. CASE request.role = None /\ Defaults(thread) # None
    <3>1. Defaults(thread) \in SelectionDefaults
      BY <2>2, <1>3 DEF Defaults, Threads
    <3> QED
      BY <2>2, <3>1 DEF RoleFor, SelectionDefaults
  <2>3. CASE request.role = None /\ Defaults(thread) = None
    <3>1. RoleFor(request, thread) = "default"
      BY <2>3 DEF RoleFor
    <3> QED
      BY <3>1, ClinkAssumption
  <2> QED
    BY <2>1, <2>2, <2>3
<1>5. CliFor(request, thread)' = CliFor(request, thread)
  BY <1>1 DEF CliFor
<1>6. CallInv'
  <2>1. CliFor(request, thread) \in DOMAIN clients
    BY DEF Call
  <2>2. call'.cli = CliFor(request, thread)'
    BY <1>2, <1>5
  <2> QED
    BY <1>1, <1>2, <1>3, <1>4, <2>1, <2>2 DEF CallInv, CliFor
<1>7. CASE thread = None
  <2>1. told' = << >> /\ runs' = << >>
    BY <1>7 DEF Call
  <2>2. Base' = None
    BY <1>1, <1>2, <1>7 DEF Base
  <2>3. ConversationInv'
    BY <2>1, <2>2, FitsFresh DEF ConversationInv
  <2>4. TypeInv'
    BY <1>1, <2>1 DEF IInv, TypeInv
  <2> QED
    BY <1>1, <1>6, <2>3, <2>4 DEF IInv, CandidateInv, BindingInv, ShownInv, CommandInv, Prepared
<1>8. CASE thread # None
  <2>1. told' = told /\ runs' = runs
    BY <1>8 DEF Call
  <2>2. Base' = Base /\ Done' = Done
    BY <1>1, <1>2, <1>3 DEF Base, Done
  <2>3. ConversationInv'
    BY <2>1, <2>2 DEF IInv, ConversationInv
  <2>4. TypeInv'
    BY <1>1, <2>1 DEF IInv, TypeInv
  <2> QED
    BY <1>1, <1>6, <2>3, <2>4 DEF IInv, CandidateInv, BindingInv, ShownInv, CommandInv, Prepared
<1> QED
  BY <1>7, <1>8

\* A call that ends without an answer leaves the conversation, or its end.
LEMMA EndsStep ==
    ASSUME IInv, pc # "idle", Ends
    PROVE  IInv'
<1>1. /\ pc' = "idle"
      /\ UNCHANGED <<clients, world, thread, calls, told, runs>>
  BY DEF Ends
<1>2. TypeInv'
  BY <1>1 DEF IInv, TypeInv
<1>3. ConversationInv'
  <2>1. Base = call.snapshot /\ Done = calls - 1 /\ Base' = thread /\ Done' = calls
    BY <1>1 DEF Base, Done
  <2>2. /\ Base \in {None} \cup Threads /\ calls \in Nat
        /\ told \in Seq(AnswerRecords) /\ runs \in Seq(RunRecords)
        /\ thread \in {None, Base}
    BY <2>1 DEF IInv, TypeInv, CallInv
  <2>3. Fits(Base, told, runs, calls) /\ Fits(None, told, runs, calls)
    <3>1. Fits(Base, told, runs, Done)
      BY DEF IInv, ConversationInv
    <3>2. Done \in Int /\ Done <= calls
      BY <2>1, <2>2
    <3> QED
      BY <2>2, <3>1, <3>2, FitsLater
  <2> QED
    BY <1>1, <2>1, <2>2, <2>3 DEF ConversationInv
<1> QED
  BY <1>1, <1>2, <1>3 DEF IInv, CallInv, CandidateInv, BindingInv, ShownInv, CommandInv, Prepared

\* A call that goes on works with the same snapshot.
LEMMA GoesOn ==
    ASSUME IInv, pc # "idle", pc' # "idle", call'.snapshot = call.snapshot,
           UNCHANGED <<thread, calls, told, runs>>
    PROVE  ConversationInv'
<1>1. Base' = Base /\ Done' = Done
  BY DEF Base, Done
<1> QED
  BY <1>1 DEF IInv, ConversationInv

LEMMA RequestedStep ==
    ASSUME IInv, RequestedIsChecked
    PROVE  IInv'
<1> DEFINE c == Candidate(world, Binding(call.snapshot), call.request.dir)
<1>1. pc = "request"
  BY DEF RequestedIsChecked
<1>2. CASE Ends
  BY <1>1, <1>2, EndsStep
<1>3. CASE ~Ends
  <2>1. /\ c.error = None /\ pc' = "bound" /\ call' = [call EXCEPT !.candidate = c.binding]
        /\ UNCHANGED <<clients, world, thread, calls, told, runs>>
    BY <1>3 DEF RequestedIsChecked
  <2>2. DOMAIN call = {"request", "snapshot", "cli", "role", "candidate", "binding",
                       "shown", "world", "command"}
    BY <1>1 DEF IInv, CallInv
  <2>3. /\ DOMAIN call' = DOMAIN call
        /\ call'.request = call.request /\ call'.snapshot = call.snapshot
        /\ call'.cli = call.cli /\ call'.role = call.role
        /\ call'.candidate = c.binding
    BY <2>1, <2>2
  <2>4. CallInv'
    <3>1. CliFor(call.request, call.snapshot)' = CliFor(call.request, call.snapshot)
      BY <2>1, <2>3 DEF CliFor
    <3>2. RoleFor(call.request, call.snapshot)' = RoleFor(call.request, call.snapshot)
      BY <2>3 DEF RoleFor
    <3> QED
      BY <1>1, <2>1, <2>2, <2>3, <3>1, <3>2 DEF IInv, CallInv
  <2>5. CandidateInv'
    <3>1. Binding(call.snapshot) # Malformed
      BY <1>1, BindingIsTyped DEF IInv, CallInv
    <3>2. call.request.dir = None => c.binding = NoCandidate
      BY <3>1 DEF Candidate, Selected
    <3>3. ASSUME call.request.dir # None
          PROVE  c.binding \in [mode : {"directory"}, launch : {call.request.dir}, canonical : Path]
      <4>1. Usable(world, call.request.dir)
        <5>1. SUFFICES ASSUME ~Usable(world, call.request.dir) PROVE FALSE
          OBVIOUS
        <5>2. c.error = "InvalidDirectory"
          BY <3>1, <3>3, <5>1 DEF Candidate, Refused
        <5>3. "InvalidDirectory" # None
          BY NoneIsNoError DEF Errors
        <5> QED
          BY <2>1, <5>2, <5>3
      <4>2. c.binding = Project(call.request.dir, Canonical(world, call.request.dir))
        BY <3>1, <3>3, <4>1 DEF Candidate, Selected
      <4>3. Canonical(world, call.request.dir) \in Path
        BY <1>1, <3>3 DEF Canonical, IInv, TypeInv, CallInv, RequestRecords
      <4> QED
        BY <4>2, <4>3 DEF Project
    <3> QED
      BY <2>1, <2>3, <3>2, <3>3 DEF CandidateInv
  <2>6. TypeInv'
    BY <2>1 DEF IInv, TypeInv
  <2>7. ConversationInv'
    BY <1>1, <2>1, <2>3, GoesOn
  <2> QED
    BY <2>1, <2>4, <2>5, <2>6, <2>7 DEF IInv, BindingInv, ShownInv, CommandInv, Prepared
<1> QED
  BY <1>2, <1>3

\* What the call's record keeps when other fields of it are set.
LEMMA CallKept ==
    ASSUME IInv, pc # "idle", pc' # "idle",
           DOMAIN call' = DOMAIN call, call'.request = call.request,
           call'.snapshot = call.snapshot, call'.cli = call.cli, call'.role = call.role,
           UNCHANGED <<clients, thread>>
    PROVE  CallInv'
<1>1. CliFor(call.request, call.snapshot)' = CliFor(call.request, call.snapshot)
  BY DEF CliFor
<1>2. RoleFor(call.request, call.snapshot)' = RoleFor(call.request, call.snapshot)
  BY DEF RoleFor
<1> QED
  BY <1>1, <1>2 DEF IInv, CallInv

\* The directory a call is given: the project's own if it has one, else the one it
\* asked for, else a scratch directory if it has that.
LEMMA ResolutionKeepsProject ==
    ASSUME NEW w, w.link \in [Path -> Path], NEW saved \in Bindings,
           NEW dir \in Path \cup {None}, NEW candidate,
           dir = None => candidate = NoCandidate,
           dir # None => candidate \in [mode : {"directory"}, launch : {dir}, canonical : Path],
           NEW configured \in Path \cup {None},
           Resolution(w, saved, candidate, configured).error = None
    PROVE  LET chosen == Resolution(w, saved, candidate, configured).binding
           IN /\ chosen \in Bindings \ {Missing}
              /\ saved.mode = "directory" =>
                    chosen = saved /\ SameFile(w, chosen.launch, chosen.canonical)
              /\ saved = Scratch /\ dir = None => chosen = Scratch
              /\ dir # None => SameFile(w, chosen.launch, dir)
<1> DEFINE r == Resolution(w, saved, candidate, configured)
<1>1. ASSUME NEW e \in Errors PROVE r # Refused(e)
  <2>1. Refused(e).error = e
    BY DEF Refused
  <2> QED
    BY <2>1, NoneIsNoError
<1>2. /\ r # Refused("BoundUnavailable") /\ r # Refused("InvalidDirectory")
      /\ r # Refused("Conflict")
  BY <1>1 DEF Errors
<1>3. \A b, source : Selected(b, source).binding = b
  BY DEF Selected
<1>4. dir # None => candidate # NoCandidate /\ candidate.launch = dir
                    /\ candidate \in Bindings \ {Missing}
  BY DEF NoCandidate, Bindings, Missing, Scratch
<1> HIDE DEF r
<1>5. CASE saved.mode = "directory"
  <2>1. /\ StillThere(w, saved) /\ Agrees(w, saved, candidate)
        /\ r = Selected(saved, "conversation")
    BY <1>2, <1>5 DEF r, Resolution
  <2>2. saved \in Bindings \ {Missing} /\ saved # Scratch
    BY <1>5 DEF Missing, Scratch
  <2>3. dir # None => SameFile(w, saved.launch, dir)
    BY <2>1, <1>4 DEF Agrees
  <2> QED
    BY <2>1, <2>2, <2>3, <1>3 DEF StillThere, r
<1>6. CASE saved.mode # "directory" /\ dir # None
  <2>1. r = Selected(candidate, "request")
    BY <1>4, <1>6 DEF r, Resolution
  <2> QED
    BY <2>1, <1>3, <1>4, <1>6 DEF SameFile, r
<1>7. CASE saved.mode # "directory" /\ dir = None
  <2>1. candidate = NoCandidate
    BY <1>7
  <2>2. CASE saved = Scratch
    <3>1. r = Selected(Scratch, "conversation")
      BY <1>7, <2>1, <2>2 DEF r, Resolution
    <3> QED
      BY <3>1, <1>3, <1>7, <2>2 DEF r, Bindings, Missing, Scratch
  <2>3. CASE saved # Scratch /\ configured = None
    <3>1. r = Selected(Scratch, "scratch")
      BY <1>7, <2>1, <2>3 DEF r, Resolution
    <3> QED
      BY <3>1, <1>3, <1>7, <2>3 DEF r, Bindings, Missing, Scratch
  <2>4. CASE saved # Scratch /\ configured # None
    <3>1. r = Selected(Project(configured, Canonical(w, configured)), "configuration")
      BY <1>2, <1>7, <2>1, <2>4 DEF r, Resolution
    <3>2. Canonical(w, configured) \in Path
      BY <2>4 DEF Canonical
    <3>3. Project(configured, Canonical(w, configured)) \in Bindings \ {Missing}
      BY <2>4, <3>2 DEF Project, Bindings, Missing
    <3> QED
      BY <3>1, <3>3, <1>3, <1>7, <2>4 DEF r
  <2> QED
    BY <2>2, <2>3, <2>4
<1> QED
  BY <1>5, <1>6, <1>7

LEMMA ResolvedStep ==
    ASSUME IInv, DirectoryIsResolved
    PROVE  IInv'
<1> DEFINE client == clients[call.cli]
           r == Resolution(world, Binding(call.snapshot), call.candidate, client.dir)
           shown == History(Turns(call.snapshot), client.budget)
<1>1. pc = "bound"
  BY DEF DirectoryIsResolved
<1>2. CASE Ends
  BY <1>1, <1>2, EndsStep
<1>3. CASE ~Ends
  <2>1. /\ r.error = None /\ shown # None /\ pc' \in {"launch", "check"}
        /\ call' = [call EXCEPT !.binding = r.binding, !.shown = shown, !.world = world]
        /\ UNCHANGED <<clients, world, thread, calls, told, runs>>
    BY <1>3 DEF DirectoryIsResolved
  <2>2. /\ DOMAIN call = {"request", "snapshot", "cli", "role", "candidate", "binding",
                          "shown", "world", "command"}
        /\ call.request.dir \in Path \cup {None} /\ call.snapshot \in {None} \cup Threads
        /\ client.dir \in Path \cup {None} /\ world.link \in [Path -> Path]
    BY <1>1 DEF IInv, TypeInv, CallInv, RequestRecords
  <2> HIDE DEF r, shown, client
  <2>3. /\ DOMAIN call' = DOMAIN call
        /\ call'.request = call.request /\ call'.snapshot = call.snapshot
        /\ call'.cli = call.cli /\ call'.role = call.role /\ call'.candidate = call.candidate
        /\ call'.binding = r.binding /\ call'.shown = shown /\ call'.world = world
    BY <2>1, <2>2
  <2>4. CallInv'
    BY <1>1, <2>1, <2>3, CallKept
  <2>5. CandidateInv'
    BY <1>1, <2>1, <2>3 DEF IInv, CandidateInv
  <2>6. BindingInv'
    <3>1. Binding(call.snapshot) \in Bindings
      BY <2>2, BindingIsTyped
    <3>2. /\ call.request.dir = None => call.candidate = NoCandidate
          /\ call.request.dir # None =>
               call.candidate \in [mode : {"directory"}, launch : {call.request.dir}, canonical : Path]
      BY <1>1 DEF IInv, CandidateInv
    <3>3. /\ r.binding \in Bindings \ {Missing}
          /\ Binding(call.snapshot).mode = "directory" =>
                /\ r.binding = Binding(call.snapshot)
                /\ SameFile(world, r.binding.launch, r.binding.canonical)
          /\ Binding(call.snapshot) = Scratch /\ call.request.dir = None => r.binding = Scratch
          /\ call.request.dir # None => SameFile(world, r.binding.launch, call.request.dir)
      BY <2>1, <2>2, <3>1, <3>2, ResolutionKeepsProject DEF r
    <3>4. Binding(call.snapshot)' = Binding(call.snapshot)
      BY <2>3 DEF Binding
    <3> QED
      BY <2>3, <3>3, <3>4 DEF BindingInv, SameFile, There
  <2>7. ShownInv'
    <3>1. clients'[call'.cli].budget = client.budget
      BY <2>1, <2>3 DEF client
    <3>2. History(Turns(call.snapshot), clients[call.cli].budget)' = shown
      BY <2>3, <3>1 DEF shown, History, HistoryStart, Turns
    <3> QED
      BY <2>1, <2>3, <3>2 DEF ShownInv
  <2>8. TypeInv'
    BY <2>1 DEF IInv, TypeInv
  <2>9. ConversationInv'
    BY <1>1, <2>1, <2>3, GoesOn
  <2> QED
    BY <2>1, <2>4, <2>5, <2>6, <2>7, <2>8, <2>9 DEF IInv, CommandInv
<1> QED
  BY <1>2, <1>3

LEMMA CheckedStep ==
    ASSUME IInv, DirectoryIsChecked
    PROVE  IInv'
<1>1. pc = "check"
  BY DEF DirectoryIsChecked
<1>2. CASE Ends
  BY <1>1, <1>2, EndsStep
<1>3. CASE ~Ends
  <2>1. pc' = "launch" /\ UNCHANGED <<clients, world, thread, call, calls, told, runs>>
    BY <1>3 DEF DirectoryIsChecked
  <2>2. TypeInv' /\ CandidateInv'
    BY <1>1, <2>1 DEF IInv, TypeInv, CandidateInv
  <2>3. CallInv'
    BY <1>1, <2>1, CallKept
  <2>4. ConversationInv'
    BY <1>1, <2>1, GoesOn
  <2>5. BindingInv'
    BY <1>1, <2>1 DEF IInv, BindingInv, Prepared
  <2>6. ShownInv'
    BY <1>1, <2>1 DEF IInv, ShownInv, Prepared
  <2> QED
    BY <2>1, <2>2, <2>3, <2>4, <2>5, <2>6 DEF IInv, CommandInv
<1> QED
  BY <1>2, <1>3

LEMMA LaunchStep ==
    ASSUME IInv, Launch
    PROVE  IInv'
<1> DEFINE command == Command(clients[call.cli], call.role, call.request.edits,
                              call.request.editable, call.binding = Scratch)
<1>1. pc = "launch"
  BY DEF Launch
<1>2. CASE Ends
  BY <1>1, <1>2, EndsStep
<1>3. CASE ~Ends
  <2>1. /\ pc' = "running" /\ call' = [call EXCEPT !.command = command]
        /\ UNCHANGED <<clients, world, thread, calls, told, runs>>
    BY <1>3 DEF Launch
  <2>2. DOMAIN call = {"request", "snapshot", "cli", "role", "candidate", "binding",
                       "shown", "world", "command"}
    BY <1>1 DEF IInv, CallInv
  <2> HIDE DEF command
  <2>3. /\ DOMAIN call' = DOMAIN call
        /\ call'.request = call.request /\ call'.snapshot = call.snapshot
        /\ call'.cli = call.cli /\ call'.role = call.role /\ call'.candidate = call.candidate
        /\ call'.binding = call.binding /\ call'.shown = call.shown /\ call'.world = call.world
        /\ call'.command = command
    BY <2>1, <2>2
  <2>4. CallInv'
    BY <1>1, <2>1, <2>3, CallKept
  <2>5. TypeInv' /\ CandidateInv'
    BY <1>1, <2>1, <2>3 DEF IInv, TypeInv, CandidateInv
  <2>6. BindingInv'
    BY <1>1, <2>1, <2>3 DEF IInv, BindingInv, Prepared, Binding, SameFile, There
  <2>7. ShownInv'
    BY <1>1, <2>1, <2>3 DEF IInv, ShownInv, Prepared, Turns, History, HistoryStart
  <2>8. CommandInv'
    BY <2>1, <2>3 DEF CommandInv, command, Command
  <2>9. ConversationInv'
    BY <1>1, <2>1, <2>3, GoesOn
  <2> QED
    BY <2>4, <2>5, <2>6, <2>7, <2>8, <2>9 DEF IInv
<1> QED
  BY <1>2, <1>3
LEMMA FailsStep ==
    ASSUME IInv, Fails
    PROVE  IInv'
BY EndsStep DEF Fails

\* What the client sees of an answer, in full, summed up or as an excerpt.
LEMMA VisibleIsTyped ==
    ASSUME NEW reply \in Replies
    PROVE  Visible(reply) \in {None} \cup [tokens : Nat] /\ Seen(reply) \in Nat
<1>1. reply.tokens \in Nat /\ reply.summary \in Nat /\ ReplyLimit \in Nat /\ ExcerptTokens \in Nat
  BY ClinkAssumption
<1>2. Min({reply.summary, ReplyLimit}) \in Nat
  BY <1>1, LeastNumber
<1>3. Visible(reply) \in {None} \cup [tokens : Nat]
  BY <1>1, <1>2 DEF Visible
<1> QED
  BY <1>1, <1>3 DEF Seen

\* An answer that is used is told, and saved unless the conversation has expired.
LEMMA AnswersStep ==
    ASSUME IInv, NEW reply \in Replies, NEW code \in {0, 1}, NEW out \in Outputs(call.cli),
           Answers(reply, out, code)
    PROVE  IInv'
<1> DEFINE u == Turn("user", calls, call.request.tokens, None)
           a == Turn("assistant", calls, reply.tokens, Visible(reply))
           answer == [n |-> calls, tokens |-> Seen(reply)]
           run == [n |-> calls, cli |-> call.cli, role |-> call.role,
                   binding |-> call.binding, request |-> call.request,
                   honest |-> code = 0 /\ ReportsSuccess(call.cli, out),
                   saved |-> thread = call.snapshot]
           turns == Turns(call.snapshot)
<1>1. /\ pc = "running" /\ pc' = "idle" /\ UNCHANGED <<clients, world, calls>>
      /\ thread' = IF thread = call.snapshot THEN Committed(reply) ELSE thread
      /\ told' = Append(told, answer) /\ runs' = Append(runs, run)
  BY DEF Answers
<1>2. /\ call.request \in RequestRecords /\ call.request.tokens \in Nat
      /\ call.cli \in Supported /\ call.role \in Role /\ call.binding \in Bindings \ {Missing}
      /\ call.snapshot \in {None} \cup Threads /\ thread \in {None, call.snapshot}
      /\ calls \in Nat /\ told \in Seq(AnswerRecords) /\ runs \in Seq(RunRecords)
  BY <1>1 DEF IInv, TypeInv, CallInv, BindingInv, Prepared, RequestRecords
<1>3. reply.tokens \in Nat /\ Visible(reply) \in {None} \cup [tokens : Nat] /\ Seen(reply) \in Nat
  BY VisibleIsTyped, ClinkAssumption
<1>4. /\ u \in TurnRecords /\ u.role = "user" /\ u.n = calls
      /\ a \in TurnRecords /\ a.role = "assistant" /\ a.n = calls
      /\ Rendered(a) = Seen(reply)
  BY <1>2, <1>3 DEF Turn, TurnRecords, Rendered, Seen
<1>5. answer \in AnswerRecords
  BY <1>2, <1>3 DEF AnswerRecords
<1>6. code = 0 /\ ReportsSuccess(call.cli, out)
  BY <1>2, AnswerIsHonest, ClinkAssumption DEF Answers
<1>7. /\ run \in RunRecords /\ run.n = calls /\ run.honest
      /\ run.cli = call.cli /\ run.role = call.role /\ run.binding = call.binding
      /\ run.saved <=> thread = call.snapshot
  BY <1>2, <1>6 DEF RunRecords
<1>8. turns \in Seq(TurnRecords)
  BY <1>2, TurnsAreTyped
<1>9. /\ Base = call.snapshot /\ Base' = thread' /\ Done' = calls
      /\ Done = calls - 1 /\ Done \in Int /\ Done < calls
  BY <1>1, <1>2 DEF Base, Done
<1>10. TurnsFit(turns, Done) /\ ToldFits(told, turns, Done) /\ RunsFit(runs, call.snapshot, Done)
  BY <1>9 DEF IInv, ConversationInv, Fits
<1> HIDE DEF u, a, answer, run, turns
<1>11. told' \in Seq(AnswerRecords) /\ runs' \in Seq(RunRecords)
  BY <1>1, <1>2, <1>5, <1>7
<1>12. thread' \in {None} \cup Threads /\ Fits(thread', told', runs', calls)
  <2>1. CASE thread = call.snapshot
    <3> DEFINE new == Committed(reply)
               more == turns \o <<u, a>>
    <3>1. thread' = new
      BY <1>1, <2>1
    <3>2. new = [turns |-> more, defaults |-> [cli |-> call.cli, role |-> call.role],
                 binding |-> call.binding]
      BY DEF Committed, turns, u, a
    <3>3. /\ more \in Seq(TurnRecords)
          /\ DOMAIN more = DOMAIN turns \cup {Len(turns) + 1, Len(turns) + 2}
          /\ \A i \in DOMAIN turns : more[i] = turns[i]
          /\ more[Len(turns) + 1] = u
          /\ more[Len(turns) + 2] = a
      BY <1>4, <1>8, BehindTwo
    <3> HIDE DEF new, more
    <3>4. new \in Threads
      BY <1>2, <3>2, <3>3 DEF Threads, SelectionDefaults
    <3>5. new # None
      BY <3>4, ClinkAssumption
    <3>6. /\ Turns(new) = more /\ Binding(new) = run.binding
          /\ Defaults(new) = [cli |-> run.cli, role |-> run.role]
      BY <1>7, <3>2, <3>5 DEF Turns, Binding, Defaults
    <3>7. \A i \in DOMAIN more \ DOMAIN turns : more[i].n = calls
      BY <1>4, <3>3
    <3>8. TurnsFit(more, calls)
      BY <1>2, <1>4, <1>8, <1>9, <1>10, ExchangeFits DEF more
    <3>9. ToldFits(told', more, calls)
      <4>1. ToldFits(told, more, calls)
        BY <1>2, <1>8, <1>9, <1>10, <3>3, <3>7, ToldBefore
      <4>2. \A k \in DOMAIN more : more[k].role = "assistant" /\ calls = more[k].n =>
                Seen(reply) = Rendered(more[k])
        <5> SUFFICES ASSUME NEW k \in DOMAIN more, more[k].role = "assistant", calls = more[k].n
                     PROVE  Seen(reply) = Rendered(more[k])
          OBVIOUS
        <5>1. k \notin DOMAIN turns
          BY <1>2, <1>9, <1>10, <3>3 DEF TurnsFit
        <5>2. k = Len(turns) + 1 \/ k = Len(turns) + 2
          BY <3>3, <5>1
        <5> QED
          BY <1>4, <3>3, <5>2
      <4>3. ToldFits(Append(told, answer), more, calls)
        BY <1>2, <1>3, <4>1, <4>2, ToldAnswer DEF answer
      <4> QED
        BY <4>3, <1>1
    <3>10. RunsFit(runs', new, calls)
      <4>1. Kept(runs, Turns(new)) = Kept(runs, Turns(call.snapshot))
        <5>1. \A i \in DOMAIN runs : runs[i].n <= Done
          BY <1>10 DEF RunsFit
        <5>2. Kept(runs, more) = Kept(runs, turns)
          BY <1>2, <1>8, <1>9, <3>3, <3>7, <5>1, KeptBefore
        <5> QED
          BY <5>2, <3>6 DEF turns
      <4>2. \E k \in DOMAIN Turns(new) : Turns(new)[k].n = calls
        BY <1>4, <3>3, <3>6
      <4>3. Binding(call.snapshot).mode = "directory" => run.binding = Binding(call.snapshot)
        BY <1>1, <1>7 DEF IInv, BindingInv, Prepared
      <4>4. run.saved
        BY <1>7, <2>1
      <4>5. RunsFit(Append(runs, run), new, calls)
        BY <1>2, <1>7, <1>9, <1>10, <3>6, <4>1, <4>2, <4>3, <4>4, RunSaved
      <4> QED
        BY <4>5, <1>1
    <3> QED
      BY <3>1, <3>4, <3>6, <3>8, <3>9, <3>10 DEF Fits
  <2>2. CASE thread # call.snapshot
    <3>1. thread' = None /\ Turns(None) = << >>
      BY <1>1, <1>2, <2>2 DEF Turns
    <3>2. ToldFits(Append(told, answer), << >>, calls)
      <4>1. Fits(None, told, runs, calls)
        <5>1. Fits(call.snapshot, told, runs, Done) /\ Done <= calls
          <6>1. Fits(call.snapshot, told, runs, Done)
            BY <1>9 DEF IInv, ConversationInv
          <6> QED
            BY <6>1, <1>2, <1>9
        <5> QED
          BY <1>2, <1>9, <5>1, FitsLater
      <4>2. ToldFits(told, << >>, calls)
        BY <4>1, <3>1 DEF Fits
      <4> QED
        BY <1>2, <1>3, <4>2, ToldAnswer DEF answer
    <3>3. RunsFit(Append(runs, run), None, calls)
      BY <1>2, <1>7, <1>9, <1>10, RunUnsaved
    <3> QED
      BY <3>1, <3>2, <3>3, <1>1, NothingFits DEF Fits
  <2> QED
    BY <2>1, <2>2
<1>13. TypeInv'
  BY <1>1, <1>11, <1>12 DEF IInv, TypeInv
<1>14. ConversationInv'
  BY <1>9, <1>12 DEF ConversationInv
<1> QED
  BY <1>1, <1>13, <1>14 DEF IInv, CallInv, CandidateInv, BindingInv, ShownInv, CommandInv, Prepared

\* A chat of another tool adds its own turns and nothing else.
LEMMA OtherToolStep ==
    ASSUME IInv, NEW tokens \in Chats, OtherTool(tokens)
    PROVE  IInv'
<1> DEFINE u == Turn("user", calls', tokens, None)
           a == Turn("assistant", calls', tokens, None)
           answer == [n |-> calls', tokens |-> tokens]
<1>1. /\ pc = "idle" /\ thread # None /\ calls' = calls + 1
      /\ told' = Append(told, answer) /\ UNCHANGED <<clients, world, pc, call, runs>>
  BY DEF OtherTool
<1>2. /\ thread \in Threads /\ calls \in Nat /\ calls' \in Nat /\ calls < calls' /\ tokens \in Nat
      /\ told \in Seq(AnswerRecords) /\ runs \in Seq(RunRecords)
  BY <1>1, ClinkAssumption DEF IInv, TypeInv
<1>3. /\ u \in TurnRecords /\ u.role = "user" /\ u.n = calls'
      /\ a \in TurnRecords /\ a.role = "assistant" /\ a.n = calls' /\ Rendered(a) = tokens
      /\ answer \in AnswerRecords
  BY <1>2 DEF Turn, TurnRecords, Rendered, AnswerRecords
<1>4. PICK answered \in BOOLEAN : thread' = [thread EXCEPT !.turns = @ \o
              SubSeq(<<u, a>>, 1, IF answered THEN 2 ELSE 1)]
  BY DEF OtherTool
<1> DEFINE turns == thread.turns
           more == turns \o SubSeq(<<u, a>>, 1, IF answered THEN 2 ELSE 1)
<1>5. /\ turns \in Seq(TurnRecords) /\ thread.defaults \in {None} \cup SelectionDefaults
      /\ thread.binding \in Bindings /\ DOMAIN thread = {"turns", "defaults", "binding"}
  BY <1>2 DEF Threads
<1> HIDE DEF u, a, answer
<1>6. /\ more \in Seq(TurnRecords)
      /\ DOMAIN turns \subseteq DOMAIN more
      /\ \A i \in DOMAIN turns : more[i] = turns[i]
      /\ \A i \in DOMAIN more \ DOMAIN turns : more[i].n = calls' /\ more[i] \in {u, a}
      /\ TurnsFit(turns, calls) => TurnsFit(more, calls')
  <2>1. CASE answered
    <3>1. SubSeq(<<u, a>>, 1, 2) = <<u, a>>
      BY <1>3, FirstOfTwo
    <3>2. more = turns \o <<u, a>>
      BY <2>1, <3>1
    <3> HIDE DEF turns, more
    <3>3. TurnsFit(turns, calls) => TurnsFit(more, calls')
      BY <1>2, <1>3, <1>5, <3>2, ExchangeFits
    <3>4. /\ more \in Seq(TurnRecords)
          /\ DOMAIN more = DOMAIN turns \cup {Len(turns) + 1, Len(turns) + 2}
          /\ \A i \in DOMAIN turns : more[i] = turns[i]
          /\ more[Len(turns) + 1] = u
          /\ more[Len(turns) + 2] = a
      BY <1>3, <1>5, <3>2, BehindTwo
    <3> QED
      BY <1>3, <3>3, <3>4
  <2>2. CASE ~answered
    <3>1. SubSeq(<<u, a>>, 1, 1) = <<u>>
      BY <1>3, FirstOfTwo
    <3>2. more = turns \o <<u>>
      BY <2>2, <3>1
    <3> HIDE DEF turns, more
    <3>3. TurnsFit(turns, calls) => TurnsFit(more, calls')
      BY <1>2, <1>3, <1>5, <3>2, QuestionFits
    <3>4. /\ more \in Seq(TurnRecords)
          /\ DOMAIN more = DOMAIN turns \cup {Len(turns) + 1}
          /\ \A i \in DOMAIN turns : more[i] = turns[i]
          /\ more[Len(turns) + 1] = u
      BY <1>3, <1>5, <3>2, BehindOne
    <3> QED
      BY <1>3, <3>3, <3>4
  <2> QED
    BY <2>1, <2>2
<1>7. /\ thread'.turns = more /\ thread'.defaults = thread.defaults
      /\ thread'.binding = thread.binding
      /\ thread' = [turns |-> more, defaults |-> thread.defaults, binding |-> thread.binding]
  <2>1. thread = [turns |-> turns, defaults |-> thread.defaults, binding |-> thread.binding]
    BY <1>2 DEF Threads
  <2> QED
    BY <1>4, <1>5, <2>1
<1> HIDE DEF more, turns
<1>8. thread' \in Threads
  BY <1>5, <1>6, <1>7 DEF Threads
<1>9. thread' # None
  BY <1>8, ClinkAssumption
<1>10. /\ Turns(thread) = turns /\ Turns(thread') = more
       /\ Binding(thread') = Binding(thread) /\ Defaults(thread') = Defaults(thread)
  BY <1>1, <1>7, <1>9 DEF Turns, Binding, Defaults, turns
<1>11. Base = thread /\ Base' = thread' /\ Done = calls /\ Done' = calls'
  BY <1>1 DEF Base, Done
<1>12. TurnsFit(turns, calls) /\ ToldFits(told, turns, calls) /\ RunsFit(runs, thread, calls)
  BY <1>10, <1>11 DEF IInv, ConversationInv, Fits
<1>13. ToldFits(told', more, calls')
  <2>1. ToldFits(told, more, calls')
    BY <1>2, <1>5, <1>6, <1>12, ToldBefore
  <2>2. \A k \in DOMAIN more : more[k].role = "assistant" /\ calls' = more[k].n =>
            tokens = Rendered(more[k])
    <3> SUFFICES ASSUME NEW k \in DOMAIN more, more[k].role = "assistant", calls' = more[k].n
                 PROVE  tokens = Rendered(more[k])
      OBVIOUS
    <3>1. k \notin DOMAIN turns
      BY <1>2, <1>6, <1>12 DEF TurnsFit
    <3> QED
      BY <1>3, <1>6, <3>1
  <2>3. ToldFits(Append(told, answer), more, calls')
    BY <1>2, <2>1, <2>2, ToldAnswer DEF answer
  <2> QED
    BY <2>3, <1>1
<1>14. RunsFit(runs, thread', calls')
  <2>1. \A i \in DOMAIN runs : runs[i].n <= calls
    BY <1>12 DEF RunsFit
  <2>2. \A i \in DOMAIN more \ DOMAIN turns : more[i].n = calls'
    BY <1>6
  <2>3. Kept(runs, more) = Kept(runs, turns)
    <3>1. /\ runs \in Seq(RunRecords) /\ turns \in Seq(TurnRecords)
          /\ calls' \in Nat /\ calls \in Int /\ calls < calls'
      BY <1>2, <1>5
    <3>2. DOMAIN turns \subseteq DOMAIN more /\ \A i \in DOMAIN turns : more[i] = turns[i]
      BY <1>6
    <3> QED
      BY <2>1, <2>2, <3>1, <3>2, KeptBefore
  <2> QED
    BY <1>2, <1>10, <1>12, <2>3, RunsOfOthers
<1>15. ConversationInv'
  BY <1>1, <1>6, <1>10, <1>11, <1>12, <1>13, <1>14 DEF ConversationInv, Fits
<1>16. told' \in Seq(AnswerRecords)
  BY <1>1, <1>2, <1>3
<1>17. TypeInv'
  BY <1>1, <1>2, <1>8, <1>16 DEF IInv, TypeInv
<1> QED
  BY <1>1, <1>15, <1>17 DEF IInv, CallInv, CandidateInv, BindingInv, ShownInv, CommandInv, Prepared

LEMMA ExpireStep ==
    ASSUME IInv, Expire
    PROVE  IInv'
<1>1. thread' = None /\ UNCHANGED <<clients, world, pc, call, calls>>
  BY DEF Expire
<1>2. CASE pc = "idle"
  <2>1. told' = << >> /\ runs' = << >>
    BY <1>2 DEF Expire
  <2>2. ConversationInv'
    BY <1>1, <1>2, <2>1, FitsFresh DEF ConversationInv, Base
  <2>3. TypeInv'
    BY <1>1, <2>1 DEF IInv, TypeInv
  <2> QED
    BY <1>1, <1>2, <2>2, <2>3 DEF IInv, CallInv, CandidateInv, BindingInv, ShownInv, CommandInv, Prepared
<1>3. CASE pc # "idle"
  <2>1. UNCHANGED <<told, runs>>
    BY <1>3 DEF Expire
  <2>2. ConversationInv'
    <3>1. Base' = Base /\ Done' = Done
      BY <1>1, <1>3 DEF Base, Done
    <3> QED
      BY <2>1, <3>1 DEF IInv, ConversationInv
  <2>3. TypeInv'
    BY <1>1, <2>1 DEF IInv, TypeInv
  <2>4. CallInv'
    <3>1. CliFor(call.request, call.snapshot)' = CliFor(call.request, call.snapshot)
      BY <1>1 DEF CliFor
    <3> QED
      BY <1>1, <3>1 DEF IInv, CallInv, RoleFor, Defaults
  <2>5. BindingInv' /\ CandidateInv' /\ CommandInv'
    BY <1>1 DEF IInv, BindingInv, CandidateInv, CommandInv, Prepared
  <2>6. ShownInv'
    BY <1>1 DEF IInv, ShownInv, Prepared
  <2> QED
    BY <2>2, <2>3, <2>4, <2>5, <2>6 DEF IInv
<1> QED
  BY <1>2, <1>3

LEMMA WorldStep ==
    ASSUME IInv, WorldChanges
    PROVE  IInv'
<1>1. world' \in Worlds /\ UNCHANGED <<clients, thread, pc, call, calls, told, runs>>
  BY DEF WorldChanges
<1>2. TypeInv'
  <2>1. world'.link \in [Path -> Path]
    BY <1>1, WorldIsTyped
  <2> QED
    BY <1>1, <2>1 DEF IInv, TypeInv
<1>3. ConversationInv'
  <2>1. Base' = Base /\ Done' = Done
    BY <1>1 DEF Base, Done
  <2> QED
    BY <1>1, <2>1 DEF IInv, ConversationInv
<1>4. CallInv'
  <2>1. CliFor(call.request, call.snapshot)' = CliFor(call.request, call.snapshot)
    BY <1>1 DEF CliFor
  <2> QED
    BY <1>1, <2>1 DEF IInv, CallInv, RoleFor, Defaults
<1>5. BindingInv' /\ CandidateInv' /\ CommandInv'
  BY <1>1 DEF IInv, BindingInv, CandidateInv, CommandInv, Prepared
<1>6. ShownInv'
  BY <1>1 DEF IInv, ShownInv, Prepared
<1> QED
  BY <1>2, <1>3, <1>4, <1>5, <1>6 DEF IInv

LEMMA StutterStep ==
    ASSUME IInv, UNCHANGED vars
    PROVE  IInv'
<1>1. UNCHANGED <<clients, world, thread, pc, call, calls, told, runs>>
  BY DEF vars
<1>2. TypeInv'
  BY <1>1 DEF IInv, TypeInv
<1>3. ConversationInv'
  <2>1. Base' = Base /\ Done' = Done
    BY <1>1 DEF Base, Done
  <2> QED
    BY <1>1, <2>1 DEF IInv, ConversationInv
<1>4. CallInv'
  <2>1. CliFor(call.request, call.snapshot)' = CliFor(call.request, call.snapshot)
    BY <1>1 DEF CliFor
  <2> QED
    BY <1>1, <2>1 DEF IInv, CallInv, RoleFor, Defaults
<1>5. BindingInv' /\ CandidateInv' /\ CommandInv'
  BY <1>1 DEF IInv, BindingInv, CandidateInv, CommandInv, Prepared
<1>6. ShownInv'
  BY <1>1 DEF IInv, ShownInv, Prepared
<1> QED
  BY <1>2, <1>3, <1>4, <1>5, <1>6 DEF IInv

LEMMA NextStep == IInv /\ [Next]_vars => IInv'
<1> SUFFICES ASSUME IInv, [Next]_vars PROVE IInv'
  OBVIOUS
<1>1. CASE \E request \in Requests : Call(request)
  BY <1>1, CallStep
<1>2. CASE RequestedIsChecked
  BY <1>2, RequestedStep
<1>3. CASE DirectoryIsResolved
  BY <1>3, ResolvedStep
<1>4. CASE DirectoryIsChecked
  BY <1>4, CheckedStep
<1>5. CASE Launch
  BY <1>5, LaunchStep
<1>6. CASE \E reply \in Replies, code \in {0, 1} :
              pc = "running" /\ \E out \in Outputs(call.cli) : Answers(reply, out, code)
  BY <1>6, AnswersStep
<1>7. CASE Fails
  BY <1>7, FailsStep
<1>8. CASE \E tokens \in Chats : OtherTool(tokens)
  BY <1>8, OtherToolStep
<1>9. CASE Expire
  BY <1>9, ExpireStep
<1>10. CASE WorldChanges
  BY <1>10, WorldStep
<1>11. CASE UNCHANGED vars
  BY <1>11, StutterStep
<1> QED
  BY <1>1, <1>2, <1>3, <1>4, <1>5, <1>6, <1>7, <1>8, <1>9, <1>10, <1>11 DEF Next

-----------------------------------------------------------------------------
(* Theorems. *)

\* The exchanges the properties speak of are in the conversation the call works with.
LEMMA ExchangesAreKept ==
    ASSUME IInv, NEW i \in Exchanges
    PROVE  i \in Kept(runs, Turns(Base))
<1>1. thread # None
  BY DEF Exchanges
<1>2. Base = thread
  BY <1>1 DEF IInv, CallInv, Base
<1> QED
  BY <1>1, <1>2 DEF Exchanges, Kept, Turns

\* At every await of a call, the saved conversation, the snapshot, the runs and the
\* answers agree: what the properties rest on.
THEOREM Invariance == Spec => []IInv
<1>1. Init => IInv
  BY InitIInv
<1>2. IInv /\ [Next]_vars => IInv'
  BY NextStep
<1> QED
  BY <1>1, <1>2, PTL DEF Spec

\* A conversation stays in its project.
THEOREM ProjectIsKeptHolds == Spec => []ProjectIsKept
<1>1. IInv => ProjectIsKept
  <2> SUFFICES ASSUME IInv PROVE ProjectIsKept
    OBVIOUS
  <2>1. ASSUME NEW i \in Exchanges, NEW j \in Exchanges, i < j, runs[i].binding # Scratch
        PROVE  runs[j].binding = runs[i].binding
    <3>1. i \in Kept(runs, Turns(Base)) /\ j \in Kept(runs, Turns(Base))
      BY ExchangesAreKept
    <3> QED
      BY <2>1, <3>1 DEF IInv, ConversationInv, Fits, RunsFit
  <2> QED
    BY <2>1 DEF IInv, BindingInv, ProjectIsKept
<1> QED
  BY <1>1, Invariance, PTL

\* A call that names nothing runs like the last exchange that was saved, and one that
\* does not ask to edit gets no flag for it.
THEOREM FollowUpInheritsHolds == Spec => []FollowUpInherits
<1>1. IInv => FollowUpInherits
  <2> SUFFICES ASSUME IInv, pc = "running", Exchanges # {}, thread = call.snapshot
               PROVE  LET last == runs[Max(Exchanges)]
                          client == clients[call.cli]
                      IN /\ call.request.cli = None => call.cli = last.cli
                         /\ call.request.role = None => call.role = last.role
                         /\ call.request.dir = None => call.binding = last.binding
                         /\ ~call.request.edits =>
                               client.edit \cap call.command \subseteq UneditingFlags(client, call.role)
    BY DEF FollowUpInherits
  <2> DEFINE m == Max(Exchanges)
             last == runs[m]
             client == clients[call.cli]
  <2>1. thread # None /\ Base = call.snapshot
    BY DEF Exchanges, Base
  <2>2. Exchanges = Kept(runs, Turns(Base))
    BY <2>1 DEF Exchanges, Kept, Turns
  <2>3. m \in Exchanges /\ \A i \in Exchanges : i <= m
    <3>1. runs \in Seq(RunRecords)
      BY DEF IInv, TypeInv
    <3>2. Exchanges \in SUBSET (1 .. Len(runs)) /\ Len(runs) \in Nat
      BY <3>1 DEF Exchanges
    <3> QED
      BY <3>2, LastNumber
  <2> HIDE DEF m
  <2>4. /\ Binding(call.snapshot) = last.binding
        /\ Defaults(call.snapshot) = [cli |-> last.cli, role |-> last.role]
    BY <2>1, <2>2, <2>3 DEF IInv, ConversationInv, Fits, RunsFit
  <2>5. /\ call.snapshot \in {None} \cup Threads /\ call.cli = CliFor(call.request, call.snapshot)
        /\ call.role = RoleFor(call.request, call.snapshot)
    BY DEF IInv, CallInv
  <2>6. Defaults(call.snapshot) # None
    <3>1. m \in DOMAIN runs /\ runs \in Seq(RunRecords)
      BY <2>3 DEF Exchanges, IInv, TypeInv
    <3>2. last \in RunRecords
      BY <3>1
    <3>3. [cli |-> last.cli, role |-> last.role] \in SelectionDefaults
      BY <3>2 DEF RunRecords, SelectionDefaults
    <3> QED
      BY <2>4, <3>3, ClinkAssumption
  <2>7. call.request.cli = None => call.cli = last.cli
    BY <2>4, <2>5, <2>6 DEF CliFor
  <2>8. call.request.role = None => call.role = last.role
    BY <2>4, <2>5, <2>6 DEF RoleFor
  <2>9. call.request.dir = None => call.binding = last.binding
    <3>1. Binding(call.snapshot) \in Bindings
      BY <2>5, BindingIsTyped
    <3>2. last.binding # Missing
      <4>1. m \in DOMAIN runs /\ runs \in Seq(RunRecords)
        BY <2>3 DEF Exchanges, IInv, TypeInv
      <4>2. last \in RunRecords
        BY <4>1
      <4> QED
        BY <4>2 DEF RunRecords
    <3>3. Binding(call.snapshot).mode = "directory" \/ Binding(call.snapshot) = Scratch
      BY <3>1, <3>2, <2>4 DEF Bindings
    <3> QED
      BY <3>3, <2>4 DEF IInv, BindingInv, Prepared
  <2>10. ~call.request.edits =>
             client.edit \cap call.command \subseteq UneditingFlags(client, call.role)
    <3> SUFFICES ASSUME ~call.request.edits, NEW f \in call.command
                 PROVE  f \in UneditingFlags(client, call.role)
      OBVIOUS
    <3>1. call.command = Command(client, call.role, call.request.edits,
                                 call.request.editable, call.binding = Scratch)
      BY DEF IInv, CommandInv
    <3>2. \A name : ExtraArgs(name, call.request.edits, call.request.editable, call.binding = Scratch)
                       \subseteq ExtraArgs(name, FALSE, FALSE, TRUE)
      BY DEF ExtraArgs
    <3> QED
      BY <3>1, <3>2 DEF Command, UneditingFlags
  <2> QED
    BY <2>7, <2>8, <2>9, <2>10 DEF m
<1> QED
  BY <1>1, Invariance, PTL

\* What a CLI is shown as history is complete exchanges as the client saw them, and
\* what was saved as an answer is a success.
THEOREM HistoryIsTrueHolds == Spec => []HistoryIsTrue
<1>1. IInv => OnlySuccessIsSaved
  BY DEF IInv, ConversationInv, Fits, RunsFit, OnlySuccessIsSaved
<1>2. IInv => HistoryIsComplete
  <2> SUFFICES ASSUME IInv, Prepared PROVE HistoryIsComplete
    BY DEF HistoryIsComplete
  <2> DEFINE shown == call.shown
             turns == Turns(call.snapshot)
             budget == clients[call.cli].budget
             answered == {turns[i].n : i \in {j \in DOMAIN turns : turns[j].role = "assistant"}}
  <2>1. /\ Base = call.snapshot /\ shown = History(turns, budget) /\ shown # None
        /\ turns \in Seq(TurnRecords)
    BY TurnsAreTyped DEF IInv, CallInv, ShownInv, Prepared, Base
  <2>2. Ordered(turns) /\ ToldFits(told, turns, Done)
    BY <2>1 DEF IInv, ConversationInv, Fits, TurnsFit
  <2> HIDE DEF shown, turns, budget
  <2>3. CASE shown = {}
    <3>1. turns = << >>
      BY <2>1, <2>2, <2>3, EmptyHistory
    <3>2. GroupStarts(turns) = {}
      BY <3>1 DEF GroupStarts
    <3> QED
      BY <2>3, <3>2 DEF HistoryIsComplete, shown, turns
  <2>4. CASE shown # {}
    <3>1. PICK start \in GroupStarts(turns) :
              /\ \A k : k \in shown <=> \E i \in GroupStarts(turns) : i >= start /\ k \in {i, i + 1}
              /\ Min(shown) = start
              /\ HistoryTokens(turns, shown) =< budget
              /\ \A i \in GroupStarts(turns) :
                    HistoryTokens(turns, SuffixFrom(turns, i)) =< budget => start =< i
      BY <2>1, <2>2, <2>4, HistoryIsSuffix
    <3>2. \A i \in GroupStarts(turns) :
              /\ i \in DOMAIN turns /\ i + 1 \in DOMAIN turns /\ i \in Nat
              /\ turns[i].role = "user" /\ turns[i + 1].role = "assistant"
              /\ turns[i].n = turns[i + 1].n
      <4> SUFFICES ASSUME NEW i \in GroupStarts(turns)
                   PROVE  /\ i \in DOMAIN turns /\ i + 1 \in DOMAIN turns /\ i \in Nat
                          /\ turns[i].role = "user" /\ turns[i + 1].role = "assistant"
                          /\ turns[i].n = turns[i + 1].n
        OBVIOUS
      <4>1. /\ i \in DOMAIN turns /\ i + 1 \in DOMAIN turns
            /\ turns[i].role = "user" /\ turns[i + 1].role = "assistant"
        BY DEF GroupStarts
      <4>2. i \in Nat /\ (i + 1) - 1 = i
        BY <2>1, <4>1
      <4>3. turns[(i + 1) - 1].n = turns[i + 1].n
        BY <2>2, <4>1 DEF Ordered
      <4> QED
        BY <4>1, <4>2, <4>3
    <3>3. ASSUME NEW k \in shown
          PROVE  turns[k].n \in answered /\ turns[k].n >= turns[start].n
      <4>1. PICK i \in GroupStarts(turns) : i >= start /\ k \in {i, i + 1}
        BY <3>1
      <4>2. turns[k].n = turns[i + 1].n /\ turns[i + 1].n \in answered
        BY <4>1, <3>2
      <4>3. turns[i].n >= turns[start].n
        <5>1. turns[i] \in TurnRecords /\ turns[start] \in TurnRecords
          BY <2>1, <3>2
        <5>2. turns[i].n \in Nat /\ turns[start].n \in Nat
          BY <5>1 DEF TurnRecords
        <5>3. i = start \/ start < i
          BY <3>2, <4>1
        <5>4. start < i => turns[start].n <= turns[i].n
          BY <2>2, <3>2 DEF Ordered
        <5> QED
          BY <5>2, <5>3, <5>4
      <4> QED
        BY <4>1, <4>2, <4>3, <3>2
    <3>4. ASSUME NEW n \in answered, n >= turns[start].n
          PROVE  \E k \in shown : turns[k].n = n
      <4>1. PICK j \in DOMAIN turns : turns[j].role = "assistant" /\ turns[j].n = n
        OBVIOUS
      <4>2. /\ j - 1 \in DOMAIN turns /\ turns[j - 1].role = "user" /\ turns[j - 1].n = n
            /\ j \in Nat /\ (j - 1) + 1 = j /\ j - 1 \in Nat
        BY <2>1, <2>2, <4>1 DEF Ordered
      <4>3. j - 1 \in GroupStarts(turns)
        BY <4>1, <4>2 DEF GroupStarts
      <4>4. j - 1 >= start
        <5>1. SUFFICES ASSUME j - 1 < start PROVE FALSE
          BY <3>2, <4>2
        <5>2. turns[j - 1].n < turns[start].n
          BY <2>2, <3>2, <4>2, <5>1 DEF Ordered
        <5>3. turns[j - 1] \in TurnRecords /\ turns[start] \in TurnRecords
          BY <2>1, <3>2, <4>2
        <5>4. turns[j - 1].n \in Nat /\ turns[start].n \in Nat
          BY <5>3 DEF TurnRecords
        <5> QED
          BY <3>4, <4>2, <5>2, <5>4
      <4>5. j - 1 \in shown
        BY <3>1, <4>3, <4>4
      <4> QED
        BY <4>2, <4>5
    <3>5. {turns[k].n : k \in shown} = {n \in answered : n >= turns[Min(shown)].n}
      BY <3>1, <3>3, <3>4
    <3>6. ASSUME NEW k \in shown
          PROVE  /\ turns[k].role = "user" => k + 1 \in shown /\ turns[k + 1].role = "assistant"
                 /\ turns[k].role = "assistant" =>
                       \A j \in DOMAIN told : told[j].n = turns[k].n => told[j].tokens = Rendered(turns[k])
      <4>1. PICK i \in GroupStarts(turns) : i >= start /\ k \in {i, i + 1}
        BY <3>1
      <4>2. k \in DOMAIN turns
        BY <3>2, <4>1
      <4>3. turns[k].role = "user" => k = i
        BY <3>2, <4>1
      <4>4. i + 1 \in shown
        BY <3>1, <4>1
      <4>5. turns[k].role = "user" => k + 1 \in shown /\ turns[k + 1].role = "assistant"
        BY <3>2, <4>1, <4>3, <4>4
      <4>6. ASSUME turns[k].role = "assistant", NEW j \in DOMAIN told, told[j].n = turns[k].n
            PROVE  told[j].tokens = Rendered(turns[k])
        BY <2>2, <4>2, <4>6 DEF ToldFits
      <4> QED
        BY <4>5, <4>6
    <3>7. ASSUME NEW i \in GroupStarts(turns),
                 HistoryTokens(turns, SuffixFrom(turns, i)) =< budget
          PROVE  i \in shown
      <4>1. start =< i /\ start \in Nat /\ i \in Nat
        BY <3>1, <3>2, <3>7
      <4> QED
        BY <3>1, <4>1
    <3> QED
      BY <3>1, <3>5, <3>6, <3>7 DEF HistoryIsComplete, shown, turns, budget
  <2> QED
    BY <2>3, <2>4
<1>3. IInv => HistoryIsTrue
  BY <1>1, <1>2 DEF HistoryIsTrue
<1> QED
  BY <1>3, Invariance, PTL
=============================================================================
