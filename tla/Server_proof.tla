---------------------------- MODULE Server_proof ----------------------------
(***************************************************************************)
(* Calls, actions of Jules and the shutdown of the server, for any number  *)
(* of calls, providers and attempts, and whether or not wait_for may drop  *)
(* a cancellation.                                                         *)
(*                                                                         *)
(* First what is always true of the record of one call, and that each      *)
(* operation on it keeps it; then of an action of Jules beside its call;   *)
(* then the steps of the server, which apply both.  The three parts of the *)
(* inductive invariant are independent but for one thing: providers are    *)
(* closed only when no call is in flight.                                  *)
(***************************************************************************)
EXTENDS Server, TLAPS

----------------------------------------------------------------------------
(* One call.                                                               *)

ProgramCounters ==
    {"new", "reporting", "sending", "called", "working", "joining", "replied", "ended"}
CompletedStages == {"provider_completed", "provider_retry_completed", "jules_request_completed"}
Stages == {"started", "completed", "failed"} \cup Operations \cup CompletedStages
Statuses == {"running", "completed", "failed", "cancelled"}
Replies == {None, "content", "empty", "blocked"}

Record ==
    [token : BOOLEAN, pc : ProgramCounters, stage : Stages,
     operations : Seq([stage : Operations, status : Statuses]),
     warned : BOOLEAN, beat : {"none", "sleeping", "sending", "finished"},
     stop : {"none", "created", "asked", "lost"}, attempt : Nat,
     errors : Seq({"retryable", "permanent"}), reply : Replies,
     raised : {None, "error", "cancelled"}, caught : BOOLEAN, cancelled : BOOLEAN,
     outcome : {None, "answer", "failed", "cancelled"}]

\* An operation has begun and not ended.
Busy(r) ==
    \/ r.pc = "working"
    \/ r.pc \in {"reporting", "sending"} /\ r.stage \in Operations

LastIs(r, status) ==
    r.operations # << >> /\ r.operations[Len(r.operations)].status = status

\* The place of the task and what it reports or works on.
StageFits(r) ==
    /\ r.pc \in {"working", "joining"} => r.stage \in Operations
    /\ r.pc = "replied" => r.stage \in CompletedStages
    /\ r.pc \in {"new", "called"} => r.stage = "started"
    /\ r.pc = "ended" <=> r.outcome # None

\* The operations before the last are over and were not cancelled.
OperationsFit(r) ==
    /\ \A i \in DOMAIN r.operations :
           /\ r.operations[i].status = "running" => i = Len(r.operations) /\ Busy(r)
           /\ r.operations[i].status = "cancelled" => i = Len(r.operations)
    /\ Busy(r) => LastIs(r, "running")
    /\ LastIs(r, "cancelled") => \/ r.pc = "joining" /\ r.raised = "cancelled"
                                 \/ r.outcome = "cancelled"
    /\ r.stage = "started" => r.operations = << >>

\* An answer rests on the operation just completed.
AnswerFits(r) ==
    /\ r.pc \in {"reporting", "sending", "replied"} /\ r.stage \in CompletedStages
           => LastIs(r, "completed")
    /\ r.pc \in {"reporting", "sending"} /\ r.stage = "completed"
           => LastIs(r, "completed") /\ r.reply = "content"
    /\ r.outcome = "answer" => LastIs(r, "completed") /\ r.reply = "content"

\* What the operation raises, and a cancellation caught while joining.
RaisedFits(r) ==
    /\ r.pc = "joining" =>
           /\ r.raised = None => LastIs(r, "completed")
           /\ r.raised = "error" => LastIs(r, "failed")
           /\ r.raised = "cancelled" => LastIs(r, "cancelled")
    /\ r.pc \in {"new", "called", "working", "replied"} => r.raised = None
    /\ r.pc \in {"reporting", "sending"} /\ r.stage # "failed" => r.raised = None
    /\ r.caught => r.pc = "joining" \/ r.outcome = "cancelled"

\* The attempts at the provider.
ErrorsFit(r) ==
    /\ \A i \in DOMAIN r.errors : i < Len(r.errors) => r.errors[i] = "retryable"
    /\ LastIs(r, "failed") =>
           /\ r.errors # << >>
           /\ Len(r.errors) = MaxAttempts \/ r.errors[Len(r.errors)] = "permanent"
    /\ r.pc = "working" =>
           /\ Len(r.errors) + 1 = r.attempt /\ r.attempt <= MaxAttempts
           /\ \A i \in DOMAIN r.errors : r.errors[i] = "retryable"

BeatFits(r) == r.beat \in {"sleeping", "sending"} => r.pc \in {"working", "joining"}

CallOK(r) ==
    /\ r \in Record
    /\ StageFits(r) /\ OperationsFit(r) /\ AnswerFits(r) /\ RaisedFits(r)
    /\ ErrorsFit(r) /\ BeatFits(r)

\* About to report: its notification is sent next, or skipped.
Reporting(r) == [r EXCEPT !.pc = "reporting"]

\* The operation is over; its heartbeat may not be.
Joining(r) == [r EXCEPT !.pc = "joining"]

-----------------------------------------------------------------------------

LEMMA StagesAreDistinct ==
    /\ \A o \in Operations : Completed[o] \in CompletedStages
    /\ Operations \cap CompletedStages = {}
    /\ {"started", "completed", "failed"} \cap (Operations \cup CompletedStages) = {}
BY DEF Completed, Operations, ProviderOperations, CompletedStages

LEMMA LastElement ==
    ASSUME NEW S, NEW s \in Seq(S), s # << >>
    PROVE  Len(s) \in DOMAIN s /\ s[Len(s)] \in S
OBVIOUS

\* All but the heartbeat, the task that stops it, and two flags.
SameCourse(n, r) ==
    /\ n.pc = r.pc /\ n.stage = r.stage /\ n.operations = r.operations
    /\ n.attempt = r.attempt /\ n.errors = r.errors /\ n.reply = r.reply
    /\ n.raised = r.raised /\ n.caught = r.caught /\ n.outcome = r.outcome

\* A call that is cancelled, or whose heartbeat moves, is where it was.
LEMMA MarksKeep ==
    ASSUME NEW r, CallOK(r), NEW n \in Record, SameCourse(n, r),
           n.beat \in {"sleeping", "sending"} => r.pc \in {"working", "joining"}
    PROVE  CallOK(n)
<1>1. /\ Busy(n) <=> Busy(r)
      /\ \A status : LastIs(n, status) <=> LastIs(r, status)
    BY DEF Busy, LastIs, SameCourse
<1>2. OperationsFit(n) /\ ErrorsFit(n)
    BY <1>1 DEF CallOK, OperationsFit, ErrorsFit, SameCourse
<1>3. StageFits(n) /\ AnswerFits(n) /\ RaisedFits(n) /\ BeatFits(n)
    BY <1>1 DEF CallOK, StageFits, AnswerFits, RaisedFits, BeatFits, SameCourse
<1> QED  BY <1>2, <1>3 DEF CallOK

LEMMA EndKeeps ==
    ASSUME NEW r \in Record, CallOK(Reporting(r)) \/ CallOK(Joining(r)),
           r.beat \notin {"sleeping", "sending"},
           NEW outcome \in {"answer", "failed", "cancelled"},
           outcome = "answer" => LastIs(r, "completed") /\ r.reply = "content",
           outcome # "cancelled" => ~r.caught,
           LastIs(r, "cancelled") => outcome = "cancelled",
           ~LastIs(r, "running"), r.stage # "started" \/ r.operations = << >>
    PROVE  CallOK(End(r, outcome))
<1> DEFINE e == End(r, outcome)
<1>1. /\ e \in Record /\ e.pc = "ended" /\ e.outcome = outcome
      /\ e.stage = r.stage /\ e.operations = r.operations /\ e.attempt = r.attempt
      /\ e.errors = r.errors /\ e.reply = r.reply /\ e.raised = r.raised
      /\ e.caught = r.caught /\ e.beat = r.beat
    BY DEF End, Record, ProgramCounters
<1>2. PICK s \in {Reporting(r), Joining(r)} : CallOK(s)
    OBVIOUS
<1>3. /\ s.operations = r.operations /\ s.errors = r.errors
      /\ s.stage = r.stage /\ s.outcome = r.outcome
      /\ r.outcome \in {None, "answer", "failed", "cancelled"}
      /\ r.operations \in Seq([stage : Operations, status : Statuses])
    BY DEF Reporting, Joining, Record
<1>4. OperationsFit(s) /\ ErrorsFit(s)
    BY <1>2 DEF CallOK
<1> HIDE DEF e
<1>5. outcome # None
    BY RequestAssumption
<1>6. OperationsFit(e)
    <2>1. \A i \in DOMAIN e.operations :
             /\ e.operations[i].status # "running"
             /\ e.operations[i].status = "cancelled" => i = Len(e.operations)
        BY <1>1, <1>3, <1>4 DEF OperationsFit, LastIs
    <2> QED  BY <2>1, <1>1, <1>5 DEF OperationsFit, Busy, LastIs
<1>7. ErrorsFit(e)
    BY <1>1, <1>3, <1>4 DEF ErrorsFit, LastIs
<1>8. StageFits(e) /\ AnswerFits(e) /\ RaisedFits(e) /\ BeatFits(e)
    BY <1>1, <1>5 DEF StageFits, AnswerFits, RaisedFits, BeatFits, LastIs
<1> QED  BY <1>1, <1>6, <1>7, <1>8 DEF CallOK, e

\* What follows the return of report.
LEMMA AfterReportKeeps ==
    ASSUME NEW r \in Record, CallOK(Reporting(r))
    PROVE  CallOK(AfterReport(r))
<1> DEFINE p == Reporting(r)
<1>1. /\ p \in Record /\ p.pc = "reporting" /\ p.stage = r.stage /\ p.operations = r.operations
      /\ p.errors = r.errors /\ p.reply = r.reply /\ p.raised = r.raised /\ p.caught = r.caught
      /\ p.outcome = r.outcome /\ p.beat = r.beat
    BY DEF Reporting, Record, ProgramCounters
<1>2. /\ StageFits(p) /\ OperationsFit(p) /\ AnswerFits(p) /\ RaisedFits(p) /\ ErrorsFit(p)
      /\ BeatFits(p)
    BY DEF CallOK
<1> HIDE DEF p
<1>3. /\ r.outcome = None /\ r.beat \notin {"sleeping", "sending"} /\ ~r.caught
      /\ ~LastIs(r, "cancelled")
      /\ r.raised \in {None, "error", "cancelled"}
    BY <1>1, <1>2, RequestAssumption
       DEF StageFits, BeatFits, RaisedFits, OperationsFit, LastIs, Record
<1>4. r.stage \in Operations \/ ~LastIs(r, "running")
    <2> SUFFICES ASSUME LastIs(r, "running") PROVE r.stage \in Operations
        OBVIOUS
    <2>1. Len(p.operations) \in DOMAIN p.operations
        BY <1>1 DEF Record, LastIs
    <2> QED  BY <1>1, <1>2, <2>1 DEF OperationsFit, LastIs, Busy
<1>5. CASE r.stage = "started"
    <2> DEFINE n == [r EXCEPT !.pc = "called"]
    <2>1. AfterReport(r) = n
        BY <1>5 DEF AfterReport, Operations, ProviderOperations, Completed
    <2>2. /\ n \in Record /\ n.pc = "called" /\ n.stage = r.stage /\ n.operations = r.operations
          /\ n.errors = r.errors /\ n.reply = r.reply /\ n.raised = r.raised
          /\ n.caught = r.caught /\ n.outcome = r.outcome /\ n.beat = r.beat
        BY DEF Record, ProgramCounters
    <2> HIDE DEF n
    <2>3. OperationsFit(n)
        BY <1>1, <1>2, <1>5, <2>2, StagesAreDistinct DEF OperationsFit, Busy, LastIs
    <2>4. ErrorsFit(n)
        BY <1>1, <1>2, <2>2 DEF ErrorsFit, LastIs
    <2>5. StageFits(n) /\ AnswerFits(n) /\ RaisedFits(n) /\ BeatFits(n)
        BY <1>1, <1>2, <1>3, <1>5, <2>2, StagesAreDistinct, RequestAssumption
           DEF StageFits, AnswerFits, RaisedFits, BeatFits
    <2> QED  BY <2>1, <2>2, <2>3, <2>4, <2>5 DEF CallOK
<1>6. CASE r.stage \in Operations
    <2> DEFINE n == AfterReport(r)
    <2>1. n = [r EXCEPT !.pc = "working", !.attempt = 1, !.errors = << >>,
                        !.beat = IF Enabled(r) THEN "sleeping" ELSE "none", !.stop = "none"]
        BY <1>6, StagesAreDistinct DEF AfterReport
    <2>2. /\ n \in Record /\ n.pc = "working" /\ n.stage = r.stage /\ n.operations = r.operations
          /\ n.errors = << >> /\ n.attempt = 1 /\ n.raised = r.raised
          /\ n.caught = r.caught /\ n.outcome = r.outcome
        <3> HIDE DEF n
        <3>1. << >> \in Seq({"retryable", "permanent"})
            OBVIOUS
        <3> QED  BY <2>1, <3>1 DEF Record, ProgramCounters
    <2> HIDE DEF n
    <2>3. OperationsFit(n) /\ LastIs(n, "running")
        BY <1>1, <1>2, <1>3, <1>6, <2>2, StagesAreDistinct DEF OperationsFit, Busy, LastIs
    <2>4. ErrorsFit(n)
        BY <2>2, <2>3, RequestAssumption DEF ErrorsFit, LastIs
    <2>5. StageFits(n) /\ AnswerFits(n) /\ RaisedFits(n) /\ BeatFits(n)
        BY <1>1, <1>2, <1>3, <1>6, <2>2, StagesAreDistinct, RequestAssumption
           DEF StageFits, AnswerFits, RaisedFits, BeatFits
    <2> QED  BY <2>2, <2>3, <2>4, <2>5 DEF CallOK, n
<1>7. CASE r.stage \in CompletedStages
    <2> DEFINE n == [r EXCEPT !.pc = "replied"]
    <2>1. AfterReport(r) = n
        BY <1>7, StagesAreDistinct
           DEF AfterReport, Completed, CompletedStages, Operations, ProviderOperations
    <2>2. /\ n \in Record /\ n.pc = "replied" /\ n.stage = r.stage /\ n.operations = r.operations
          /\ n.errors = r.errors /\ n.reply = r.reply /\ n.raised = r.raised
          /\ n.caught = r.caught /\ n.outcome = r.outcome /\ n.beat = r.beat
        BY DEF Record, ProgramCounters
    <2> HIDE DEF n
    <2>3. OperationsFit(n)
        BY <1>1, <1>2, <1>7, <2>2, StagesAreDistinct DEF OperationsFit, Busy, LastIs
    <2>4. ErrorsFit(n)
        BY <1>1, <1>2, <2>2 DEF ErrorsFit, LastIs
    <2>5. StageFits(n) /\ BeatFits(n)
        BY <1>1, <1>2, <1>3, <1>7, <2>2, StagesAreDistinct, RequestAssumption
           DEF StageFits, BeatFits
    <2>6. AnswerFits(n)
        BY <1>1, <1>2, <1>3, <1>7, <2>2, StagesAreDistinct, RequestAssumption
           DEF AnswerFits, LastIs
    <2>7. RaisedFits(n)
        BY <1>1, <1>2, <1>3, <1>7, <2>2, StagesAreDistinct, RequestAssumption DEF RaisedFits
    <2> QED  BY <2>1, <2>2, <2>3, <2>4, <2>5, <2>6, <2>7 DEF CallOK
<1>8. CASE r.stage \in {"completed", "failed"}
    <2>1. AfterReport(r) = End(r, IF r.stage = "completed" THEN "answer" ELSE "failed")
        BY <1>8 DEF AfterReport, Completed, Operations, ProviderOperations
    <2>2. r.stage = "completed" => LastIs(r, "completed") /\ r.reply = "content"
        BY <1>1, <1>2 DEF AnswerFits, LastIs
    <2>3. ~LastIs(r, "running") /\ r.stage # "started"
        BY <1>4, <1>8, StagesAreDistinct
    <2> QED  BY <1>3, <1>8, <2>1, <2>2, <2>3, EndKeeps
<1> QED
    BY <1>5, <1>6, <1>7, <1>8 DEF Record, Stages

LEMMA ReportKeeps ==
    ASSUME NEW r \in Record, NEW stage \in Stages,
           CallOK([r EXCEPT !.pc = "reporting", !.stage = stage])
    PROVE  CallOK(Report(r, stage))
<1> DEFINE s == [r EXCEPT !.stage = stage]
<1>1. s \in Record /\ Reporting(s) = [r EXCEPT !.pc = "reporting", !.stage = stage]
    BY DEF Record, Reporting
<1>2. Report(r, stage) \in {Reporting(s), AfterReport(s)}
    BY DEF Report, Reporting
<1> HIDE DEF s
<1> QED
    BY <1>1, <1>2, AfterReportKeeps

\* What follows the join: the heartbeat has ended.
LEMMA AfterJoinKeeps ==
    ASSUME NEW r \in Record, CallOK(Joining(r)), r.beat \notin {"sleeping", "sending"}
    PROVE  CallOK(AfterJoin(r))
<1> DEFINE p == Joining(r)
<1>1. /\ p \in Record /\ p.pc = "joining" /\ p.stage = r.stage /\ p.operations = r.operations
      /\ p.errors = r.errors /\ p.reply = r.reply /\ p.raised = r.raised /\ p.caught = r.caught
      /\ p.outcome = r.outcome
    BY DEF Joining, Record, ProgramCounters
<1>2. /\ StageFits(p) /\ OperationsFit(p) /\ RaisedFits(p) /\ ErrorsFit(p)
    BY DEF CallOK
<1> HIDE DEF p
<1>3. /\ r.stage \in Operations /\ r.outcome = None
      /\ r.raised \in {None, "error", "cancelled"} /\ r.caught \in BOOLEAN
    BY <1>1, <1>2 DEF StageFits, Record
<1>4. ~LastIs(r, "running")
    <2> SUFFICES ASSUME LastIs(r, "running") PROVE FALSE
        OBVIOUS
    <2>1. Len(p.operations) \in DOMAIN p.operations
        BY <1>1 DEF Record, LastIs
    <2> QED  BY <1>1, <1>2, <2>1 DEF OperationsFit, LastIs, Busy
<1>5. CASE r.caught \/ r.raised = "cancelled"
    <2>1. AfterJoin(r) = End(r, "cancelled")
        BY <1>5 DEF AfterJoin
    <2>2. r.stage # "started"
        BY <1>3, StagesAreDistinct
    <2> QED  BY <1>4, <2>1, <2>2, EndKeeps
<1>6. CASE ~r.caught /\ r.raised = "error"
    <2> DEFINE n == [r EXCEPT !.pc = "reporting", !.stage = "failed"]
    <2>1. AfterJoin(r) = Report(r, "failed")
        BY <1>6 DEF AfterJoin
    <2>2. /\ n \in Record /\ n.pc = "reporting" /\ n.stage = "failed"
          /\ n.operations = r.operations /\ n.errors = r.errors /\ n.raised = r.raised
          /\ n.caught = r.caught /\ n.outcome = r.outcome /\ n.beat = r.beat
        BY DEF Record, ProgramCounters, Stages
    <2> HIDE DEF n
    <2>3. LastIs(r, "failed")
        BY <1>1, <1>2, <1>6 DEF RaisedFits, LastIs
    <2>4. OperationsFit(n)
        BY <1>1, <1>2, <1>4, <1>6, <2>2, <2>3, StagesAreDistinct DEF OperationsFit, Busy, LastIs
    <2>5. ErrorsFit(n)
        BY <1>1, <1>2, <2>2 DEF ErrorsFit, LastIs
    <2>6. StageFits(n) /\ AnswerFits(n) /\ RaisedFits(n) /\ BeatFits(n)
        BY <1>3, <1>6, <2>2, StagesAreDistinct, RequestAssumption
           DEF StageFits, AnswerFits, RaisedFits, BeatFits
    <2>7. CallOK(n)
        BY <2>2, <2>4, <2>5, <2>6 DEF CallOK
    <2> QED  BY <2>1, <2>7, ReportKeeps DEF n, Stages
<1>7. CASE ~r.caught /\ r.raised = None
    <2>1. PICK done \in CompletedStages : done = Completed[r.stage]
        BY <1>3, StagesAreDistinct
    <2> DEFINE n == [r EXCEPT !.pc = "reporting", !.stage = done]
    <2>2. AfterJoin(r) = Report(r, done)
        BY <1>7, <2>1, RequestAssumption DEF AfterJoin
    <2>3. /\ n \in Record /\ n.pc = "reporting" /\ n.stage = done
          /\ n.operations = r.operations /\ n.errors = r.errors /\ n.raised = r.raised
          /\ n.caught = r.caught /\ n.outcome = r.outcome /\ n.beat = r.beat
        BY DEF Record, ProgramCounters, Stages
    <2> HIDE DEF n
    <2>4. LastIs(r, "completed")
        BY <1>1, <1>2, <1>7 DEF RaisedFits, LastIs
    <2>5. OperationsFit(n)
        BY <1>1, <1>2, <1>4, <1>7, <2>1, <2>3, <2>4, StagesAreDistinct
           DEF OperationsFit, Busy, LastIs
    <2>6. ErrorsFit(n)
        BY <1>1, <1>2, <2>3 DEF ErrorsFit, LastIs
    <2>7. AnswerFits(n)
        BY <1>3, <2>1, <2>3, <2>4, StagesAreDistinct, RequestAssumption DEF AnswerFits, LastIs
    <2>8. StageFits(n) /\ RaisedFits(n) /\ BeatFits(n)
        BY <1>3, <1>7, <2>1, <2>3, StagesAreDistinct, RequestAssumption
           DEF StageFits, RaisedFits, BeatFits
    <2>9. CallOK(n)
        BY <2>3, <2>5, <2>6, <2>7, <2>8 DEF CallOK
    <2> QED  BY <2>1, <2>2, <2>9, ReportKeeps DEF n, Stages
<1> QED
    BY <1>3, <1>5, <1>6, <1>7

LEMMA LeaveKeeps ==
    ASSUME NEW r \in Record, CallOK(Joining(r))
    PROVE  CallOK(Leave(r))
<1>1. CASE r.beat = "none"
    BY <1>1, AfterJoinKeeps DEF Leave
<1>2. CASE r.beat # "none"
    <2>1. /\ Leave(r) \in Record /\ Joining(r) \in Record /\ Joining(r).pc = "joining"
          /\ SameCourse(Leave(r), Joining(r))
        BY <1>2 DEF Leave, Joining, Record, SameCourse, ProgramCounters
    <2> QED  BY <2>1, MarksKeep
<1> QED  BY <1>1, <1>2

\* An operation ends: its status, and what it raises.
LEMMA OperationEnds ==
    ASSUME NEW r, CallOK(r), r.pc = "working",
           NEW raised \in {None, "error", "cancelled"},
           NEW errors \in Seq({"retryable", "permanent"}),
           NEW reply \in Replies,
           \A i \in DOMAIN errors : i < Len(errors) => errors[i] = "retryable",
           raised = "error" =>
               /\ errors # << >>
               /\ Len(errors) = MaxAttempts \/ errors[Len(errors)] = "permanent"
    PROVE  LET status == CASE raised = "error" -> "failed"
                           [] raised = "cancelled" -> "cancelled"
                           [] OTHER -> "completed"
               m == Marked([r EXCEPT !.raised = raised, !.errors = errors, !.reply = reply],
                           status)
           IN  m \in Record /\ CallOK(Joining(m))
<1> DEFINE status == CASE raised = "error" -> "failed"
                       [] raised = "cancelled" -> "cancelled"
                       [] OTHER -> "completed"
           m == Marked([r EXCEPT !.raised = raised, !.errors = errors, !.reply = reply], status)
           p == Joining(m)
           last == Len(r.operations)
<1>1. /\ status \in {"completed", "failed", "cancelled"}
      /\ raised = None <=> status = "completed"
      /\ raised = "error" <=> status = "failed"
      /\ raised = "cancelled" <=> status = "cancelled"
    BY RequestAssumption
<1> HIDE DEF status
<1>2. /\ r \in Record /\ r.operations \in Seq([stage : Operations, status : Statuses])
      /\ LastIs(r, "running") /\ r.stage \in Operations
    BY DEF CallOK, OperationsFit, Busy, StageFits, Record
<1>3. last \in DOMAIN r.operations /\ r.operations[last] \in [stage : Operations, status : Statuses]
    BY <1>2, LastElement DEF LastIs
<1> DEFINE ops == [r.operations EXCEPT ![last].status = status]
<1>4. /\ ops \in Seq([stage : Operations, status : Statuses])
      /\ Len(ops) = last /\ DOMAIN ops = DOMAIN r.operations
      /\ ops[last].status = status
      /\ \A i \in DOMAIN ops : i # last => ops[i] = r.operations[i]
    <2>1. [r.operations[last] EXCEPT !.status = status] \in [stage : Operations, status : Statuses]
        BY <1>1, <1>3 DEF Statuses
    <2> QED  BY <1>2, <1>3, <2>1
<1>5. m = [r EXCEPT !.raised = raised, !.errors = errors, !.reply = reply, !.operations = ops]
    BY <1>2 DEF Marked, Record
<1> HIDE DEF ops, last, m
<1>6. m \in Record
    BY <1>2, <1>4, <1>5 DEF Record
<1>7. /\ m.stage = r.stage /\ m.operations = ops /\ m.errors = errors /\ m.raised = raised
      /\ m.caught = r.caught /\ m.outcome = r.outcome
    BY <1>2, <1>5 DEF Record
<1>8. /\ p \in Record /\ p.pc = "joining" /\ p.stage = r.stage
      /\ p.operations = ops /\ p.errors = errors /\ p.raised = raised
      /\ p.caught = r.caught /\ p.outcome = r.outcome
    BY <1>6, <1>7 DEF Joining, Record, ProgramCounters
<1> HIDE DEF p
<1>9. /\ LastIs(p, "completed") <=> status = "completed"
      /\ LastIs(p, "failed") <=> status = "failed"
      /\ LastIs(p, "cancelled") <=> status = "cancelled"
    <2>1. ops # << >>
        BY <1>3, <1>4
    <2> QED  BY <1>4, <1>8, <2>1 DEF LastIs
<1>10. OperationsFit(p)
    <2>1. \A i \in DOMAIN ops :
             /\ ops[i].status # "running"
             /\ ops[i].status = "cancelled" => i = last
        <3> TAKE i \in DOMAIN ops
        <3>1. CASE i = last
            BY <1>1, <1>4, <3>1
        <3>2. CASE i # last
            BY <1>4, <3>2 DEF CallOK, OperationsFit, last
        <3> QED  BY <3>1, <3>2
    <2>2. r.stage # "started"
        BY <1>2, StagesAreDistinct
    <2> QED  BY <1>1, <1>4, <1>8, <1>9, <2>1, <2>2 DEF OperationsFit, Busy
<1>11. ErrorsFit(p)
    BY <1>1, <1>8, <1>9 DEF ErrorsFit
<1>12. r.outcome = None /\ ~r.caught
    BY <1>2, RequestAssumption DEF CallOK, StageFits, RaisedFits
<1>13. StageFits(p) /\ AnswerFits(p) /\ RaisedFits(p) /\ BeatFits(p)
    BY <1>1, <1>2, <1>8, <1>9, <1>12, RequestAssumption
       DEF StageFits, AnswerFits, RaisedFits, BeatFits
<1> QED
    BY <1>6, <1>8, <1>10, <1>11, <1>13 DEF CallOK, m, p, status

LEMMA BegunIsRecord ==
    ASSUME NEW r \in Record, NEW o \in Operations
    PROVE  Begun(r, o) \in Record
<1>1. Append(r.operations, [stage |-> o, status |-> "running"])
          \in Seq([stage : Operations, status : Statuses])
    BY DEF Record, Statuses
<1> DEFINE ops == Append(r.operations, [stage |-> o, status |-> "running"])
<1>2. Begun(r, o) = [r EXCEPT !.operations = ops]
    BY DEF Begun
<1> HIDE DEF ops
<1> QED  BY <1>1, <1>2 DEF Record, ops

LEMMA MarkedIsRecord ==
    ASSUME NEW r \in Record, NEW status \in Statuses, r.operations # << >>
    PROVE  LET m == Marked(r, status) IN
           /\ m \in Record /\ m.stage = r.stage /\ m.raised = r.raised /\ m.pc = r.pc
<1> DEFINE last == Len(r.operations)
           ops == [r.operations EXCEPT ![last].status = status]
<1>1. last \in DOMAIN r.operations /\ r.operations[last] \in [stage : Operations, status : Statuses]
    BY LastElement DEF Record
<1>2. ops \in Seq([stage : Operations, status : Statuses])
    <2>1. [r.operations[last] EXCEPT !.status = status] \in [stage : Operations, status : Statuses]
        BY <1>1
    <2> QED  BY <1>1, <2>1 DEF Record
<1>3. Marked(r, status) = [r EXCEPT !.operations = ops]
    BY DEF Marked
<1> HIDE DEF ops
<1> QED  BY <1>2, <1>3 DEF Record

\* The same for an operation whose errors, reply and exception are noted first.
LEMMA EndedWorkIsRecord ==
    ASSUME NEW r, CallOK(r), r.pc = "working", NEW status \in Statuses,
           NEW s \in Record, s.stage = r.stage, s.operations = r.operations
    PROVE  LET m == Marked(s, status) IN
           m \in Record /\ m.stage = r.stage /\ m.raised = s.raised
<1>1. r.operations # << >>
    BY DEF CallOK, OperationsFit, Busy, LastIs
<1> QED  BY <1>1, MarkedIsRecord

\* Another operation begins: the first one, or the one that repeats an empty answer.
LEMMA OperationBegins ==
    ASSUME NEW r, CallOK(r), r.pc = "called" \/ r.pc = "replied", NEW o \in Operations
    PROVE  CallOK(Report(Begun(r, o), o))
<1> DEFINE b == Begun(r, o)
           n == [b EXCEPT !.pc = "reporting", !.stage = o]
           ops == Append(r.operations, [stage |-> o, status |-> "running"])
<1>1. /\ r \in Record /\ r.operations \in Seq([stage : Operations, status : Statuses])
      /\ r.outcome = None /\ r.raised = None /\ ~r.caught
    BY RequestAssumption DEF CallOK, StageFits, RaisedFits, Record
<1>2. /\ ops \in Seq([stage : Operations, status : Statuses])
      /\ Len(ops) = Len(r.operations) + 1
      /\ ops[Len(ops)].status = "running" /\ ops # << >>
      /\ \A i \in DOMAIN ops : i # Len(ops) =>
             i \in DOMAIN r.operations /\ ops[i] = r.operations[i]
    BY <1>1 DEF Statuses
<1>3. b = [r EXCEPT !.operations = ops]
    BY DEF Begun
<1> HIDE DEF ops
<1>4. /\ b \in Record /\ n \in Record /\ n.pc = "reporting" /\ n.stage = o /\ n.operations = ops
      /\ n.errors = r.errors /\ n.raised = r.raised /\ n.caught = r.caught
      /\ n.outcome = r.outcome /\ n.beat = r.beat
    BY <1>1, <1>2, <1>3 DEF Record, ProgramCounters, Stages
<1> HIDE DEF b, n
<1>5. \A i \in DOMAIN r.operations : r.operations[i].status \notin {"running", "cancelled"}
    <2> SUFFICES ASSUME NEW i \in DOMAIN r.operations,
                        r.operations[i].status \in {"running", "cancelled"}
                 PROVE  FALSE
        OBVIOUS
    <2>1. CASE r.pc = "called"
        BY <2>1, <1>1 DEF CallOK, StageFits, OperationsFit
    <2>2. CASE r.pc = "replied"
        BY <2>2, <1>1 DEF CallOK, StageFits, OperationsFit, AnswerFits, LastIs, Busy
    <2> QED  BY <2>1, <2>2
<1>6. LastIs(n, "running") /\ ~LastIs(n, "cancelled") /\ ~LastIs(n, "failed")
    BY <1>2, <1>4 DEF LastIs
<1>7. OperationsFit(n)
    <2>1. o # "started" /\ Busy(n)
        BY <1>4, StagesAreDistinct DEF Busy
    <2> QED  BY <1>2, <1>4, <1>5, <1>6, <2>1 DEF OperationsFit
<1>8. ErrorsFit(n)
    BY <1>4, <1>6 DEF ErrorsFit, CallOK
<1>9. r.beat \notin {"sleeping", "sending"}
    BY DEF CallOK, BeatFits
<1>10. StageFits(n) /\ AnswerFits(n) /\ RaisedFits(n) /\ BeatFits(n)
    BY <1>1, <1>4, <1>9, StagesAreDistinct, RequestAssumption
       DEF StageFits, AnswerFits, RaisedFits, BeatFits
<1>11. CallOK(n)
    BY <1>4, <1>7, <1>8, <1>10 DEF CallOK
<1> QED
    BY <1>4, <1>11, ReportKeeps DEF b, n, Stages

\* A notification is about to be sent, or being sent.
LEMMA NotifyingKeeps ==
    ASSUME NEW r, CallOK(r), r.pc \in {"reporting", "sending"},
           NEW pc \in {"reporting", "sending"}, NEW warned \in BOOLEAN
    PROVE  LET n == [r EXCEPT !.pc = pc, !.warned = warned] IN n \in Record /\ CallOK(n)
<1> DEFINE n == [r EXCEPT !.pc = pc, !.warned = warned]
<1>1. /\ n \in Record /\ n.pc = pc /\ n.stage = r.stage /\ n.operations = r.operations
      /\ n.errors = r.errors /\ n.reply = r.reply /\ n.raised = r.raised
      /\ n.caught = r.caught /\ n.outcome = r.outcome /\ n.beat = r.beat
    BY DEF CallOK, Record, ProgramCounters
<1> HIDE DEF n
<1>2. /\ Busy(n) <=> Busy(r)
      /\ \A status : LastIs(n, status) <=> LastIs(r, status)
    BY <1>1 DEF Busy, LastIs
<1>3. OperationsFit(n)
    BY <1>1, <1>2 DEF CallOK, OperationsFit
<1>4. ErrorsFit(n)
    BY <1>1, <1>2 DEF CallOK, ErrorsFit
<1>5. StageFits(n) /\ AnswerFits(n) /\ RaisedFits(n) /\ BeatFits(n)
    BY <1>1, <1>2 DEF CallOK, StageFits, AnswerFits, RaisedFits, BeatFits
<1> QED  BY <1>1, <1>3, <1>4, <1>5 DEF CallOK, n

\* The call is refused, or answered.
LEMMA VerdictIsReported ==
    ASSUME NEW r, CallOK(r), r.pc \in {"called", "replied"},
           NEW stage \in {"completed", "failed"},
           stage = "completed" => r.pc = "replied" /\ r.reply = "content"
    PROVE  CallOK(Report(r, stage))
<1> DEFINE n == [r EXCEPT !.pc = "reporting", !.stage = stage]
<1>1. /\ n \in Record /\ n.pc = "reporting" /\ n.stage = stage /\ n.operations = r.operations
      /\ n.errors = r.errors /\ n.reply = r.reply /\ n.raised = r.raised
      /\ n.caught = r.caught /\ n.outcome = r.outcome /\ n.beat = r.beat
      /\ r \in Record /\ stage \in Stages
    BY DEF CallOK, Record, ProgramCounters, Stages
<1> HIDE DEF n
<1>2. /\ \A status : LastIs(n, status) <=> LastIs(r, status)
      /\ stage \notin Operations \cup CompletedStages /\ stage # "started"
      /\ ~Busy(r) /\ ~Busy(n)
    BY <1>1, StagesAreDistinct DEF LastIs, Busy
<1>3. OperationsFit(n)
    BY <1>1, <1>2, StagesAreDistinct DEF CallOK, OperationsFit
<1>4. ErrorsFit(n)
    BY <1>1, <1>2 DEF CallOK, ErrorsFit
<1>5. r.raised = None /\ r.outcome = None /\ ~r.caught /\ r.beat \notin {"sleeping", "sending"}
    BY <1>1, RequestAssumption DEF CallOK, StageFits, RaisedFits, BeatFits
<1>6. stage = "completed" => LastIs(r, "completed")
    BY DEF CallOK, StageFits, AnswerFits
<1>7. StageFits(n) /\ AnswerFits(n) /\ RaisedFits(n) /\ BeatFits(n)
    BY <1>1, <1>2, <1>5, <1>6, RequestAssumption
       DEF StageFits, AnswerFits, RaisedFits, BeatFits
<1> QED  BY <1>1, <1>3, <1>4, <1>7, ReportKeeps DEF CallOK, n

-----------------------------------------------------------------------------
(* The steps of a call. *)

CallsOK == call \in [Calls -> Record] /\ \A c \in Calls : CallOK(call[c])

LEMMA CallsBegin == CallInit => CallsOK
<1> SUFFICES ASSUME CallInit PROVE CallsOK
    OBVIOUS
<1>1. \A token \in BOOLEAN : CallOK(New(token))
    <2> TAKE token \in BOOLEAN
    <2> DEFINE n == New(token)
    <2>1. /\ n \in Record /\ n.pc = "new" /\ n.stage = "started" /\ n.operations = << >>
          /\ n.errors = << >> /\ n.raised = None /\ ~n.caught /\ n.outcome = None
          /\ n.beat = "none"
        <3>1. /\ << >> \in Seq([stage : Operations, status : Statuses])
              /\ << >> \in Seq({"retryable", "permanent"})
            OBVIOUS
        <3> QED  BY <3>1 DEF New, Record, ProgramCounters, Stages, Replies
    <2> HIDE DEF n
    <2>2. OperationsFit(n) /\ ErrorsFit(n)
        BY <2>1, StagesAreDistinct DEF OperationsFit, ErrorsFit, LastIs, Busy
    <2>3. StageFits(n) /\ AnswerFits(n) /\ RaisedFits(n) /\ BeatFits(n)
        BY <2>1, RequestAssumption DEF StageFits, AnswerFits, RaisedFits, BeatFits
    <2> QED  BY <2>1, <2>2, <2>3 DEF CallOK, n
<1>2. \A c \in Calls : CallOK(call[c])
    BY <1>1 DEF CallInit
<1> QED
    BY <1>2 DEF CallsOK, CallInit, CallOK

\* The step touches the record of one call.
OnlyOf(c) == call' \in [Calls -> Record] /\ \A d \in Calls \ {c} : call'[d] = call[d]

LEMMA OneCallChanges ==
    ASSUME CallsOK, NEW c \in Calls, NEW r, CallOK(r), call' = [call EXCEPT ![c] = r]
    PROVE  CallsOK' /\ OnlyOf(c) /\ call'[c] = r
BY DEF CallsOK, CallOK, OnlyOf

LEMMA BeatStepKeeps ==
    ASSUME CallsOK, NEW c \in Calls,
           BeatWakes(c) \/ BeatSteps(c) \/ CancelBeat(c) \/ Cancel(c)
    PROVE  CallsOK' /\ OnlyOf(c) /\ SameCourse(call'[c], call[c])
<1>1. call \in [Calls -> Record] /\ CallOK(call[c])
    BY DEF CallsOK
<1>2. PICK n : /\ call' = [call EXCEPT ![c] = n]
               /\ n \in Record /\ SameCourse(n, call[c])
               /\ n.beat \in {"sleeping", "sending"} => call[c].beat \in {"sleeping", "sending"}
    <2> PICK r \in Record : r = call[c]
        BY <1>1
    <2> DEFINE Fits(n) ==
            /\ n \in Record /\ SameCourse(n, r)
            /\ n.beat \in {"sleeping", "sending"} => r.beat \in {"sleeping", "sending"}
    <2> SUFFICES \E n : call' = [call EXCEPT ![c] = n] /\ Fits(n)
        OBVIOUS
    <2>1. CASE BeatWakes(c)
        <3> DEFINE n == [r EXCEPT !.beat = IF Enabled(r) THEN "sending" ELSE "finished"]
        <3>1. call' = [call EXCEPT ![c] = n]
            BY <1>1, <2>1 DEF BeatWakes
        <3>2. Fits(n)
            BY <2>1 DEF BeatWakes, Record, SameCourse
        <3> QED  BY <3>1, <3>2
    <2>2. CASE BeatSent(c)
        <3> DEFINE n == [r EXCEPT !.beat = "sleeping"]
        <3>1. call' = [call EXCEPT ![c] = n]
            BY <1>1, <2>2 DEF BeatSent
        <3>2. Fits(n)
            BY <2>2 DEF BeatSent, Record, SameCourse
        <3> QED  BY <3>1, <3>2
    <2>3. CASE BeatSendFails(c)
        <3> DEFINE n == [r EXCEPT !.beat = "finished", !.warned = TRUE]
        <3>1. call' = [call EXCEPT ![c] = n]
            BY <1>1, <2>3 DEF BeatSendFails
        <3>2. Fits(n)
            BY <2>3 DEF BeatSendFails, Record, SameCourse
        <3> QED  BY <3>1, <3>2
    <2>4. CASE BeatCancelled(c)
        <3> DEFINE n == [r EXCEPT !.beat = "finished"]
        <3>1. call' = [call EXCEPT ![c] = n]
            BY <1>1, <2>4 DEF BeatCancelled
        <3>2. Fits(n)
            BY <2>4 DEF BeatCancelled, Record, SameCourse
        <3> QED  BY <3>1, <3>2
    <2>5. CASE BeatKeepsResult(c)
        <3> DEFINE n == [r EXCEPT !.beat = "sleeping", !.stop = "lost"]
        <3>1. call' = [call EXCEPT ![c] = n]
            BY <1>1, <2>5 DEF BeatKeepsResult
        <3>2. Fits(n)
            BY <2>5 DEF BeatKeepsResult, Record, SameCourse
        <3> QED  BY <3>1, <3>2
    <2>6. CASE CancelBeat(c)
        <3> DEFINE n == [r EXCEPT !.stop = "asked"]
        <3>1. call' = [call EXCEPT ![c] = n]
            BY <1>1, <2>6 DEF CancelBeat
        <3>2. Fits(n)
            BY <2>6 DEF CancelBeat, Record, SameCourse
        <3> QED  BY <3>1, <3>2
    <2>7. CASE Cancel(c)
        <3> DEFINE n == [r EXCEPT !.cancelled = TRUE]
        <3>1. call' = [call EXCEPT ![c] = n]
            BY <1>1, <2>7 DEF Cancel
        <3>2. Fits(n)
            BY <2>7 DEF Cancel, Record, SameCourse
        <3> QED  BY <3>1, <3>2
    <2> QED
        BY <2>1, <2>2, <2>3, <2>4, <2>5, <2>6, <2>7 DEF BeatSteps
<1>3. n.beat \in {"sleeping", "sending"} => call[c].pc \in {"working", "joining"}
    BY <1>1, <1>2 DEF CallOK, BeatFits
<1>4. CallOK(n)
    BY <1>1, <1>2, <1>3, MarksKeep
<1> QED
    BY <1>2, <1>4, OneCallChanges

\* The steps of the task that change its place, one operator each.
TaskMoves(c) ==
    \/ Arrive(c) \/ Refuse(c) \/ Enter(c)
    \/ Send(c) \/ Sent(c) \/ SendFails(c) \/ Joined(c) \/ Examine(c)
    \/ \E reply \in Replies \ {None} : ProviderAnswers(c, reply)
    \/ \E error \in {"retryable", "permanent"} : AttemptFails(c, error)
    \/ Deliver(c)

\* A notification is no longer awaited.
LEMMA NotificationEnds ==
    ASSUME NEW r, CallOK(r), r.pc \in {"reporting", "sending"}, NEW warned \in BOOLEAN
    PROVE  CallOK(AfterReport([r EXCEPT !.warned = warned]))
<1> DEFINE w == [r EXCEPT !.warned = warned]
           n == [r EXCEPT !.pc = "reporting", !.warned = warned]
<1>1. n \in Record /\ CallOK(n)
    BY NotifyingKeeps
<1>2. w \in Record /\ Reporting(w) = n
    BY DEF CallOK, Record, Reporting
<1> HIDE DEF n, w
<1>3. CallOK(AfterReport(w))
    BY <1>1, <1>2, AfterReportKeeps
<1> QED  BY <1>3 DEF w

\* A call is cut off while it waits for its notification.
LEMMA NotificationIsCut ==
    ASSUME NEW r, CallOK(r), r.pc \in {"reporting", "sending"}
    PROVE  CallOK(IF r.stage \in Operations THEN End(Marked(r, "cancelled"), "cancelled")
                                            ELSE End(r, "cancelled"))
<1>0. r \in Record /\ r.outcome = None /\ r.beat \notin {"sleeping", "sending"}
    BY DEF CallOK, StageFits, BeatFits
<1>1. CASE r.stage \notin Operations
    <2>1. CallOK(Reporting(r))
        <3>1. Reporting(r) = [r EXCEPT !.pc = "reporting", !.warned = r.warned]
            BY <1>0 DEF Reporting, Record
        <3>2. r.warned \in BOOLEAN
            BY <1>0 DEF Record
        <3>3. CallOK([r EXCEPT !.pc = "reporting", !.warned = r.warned])
            BY <3>2, NotifyingKeeps
        <3> QED  BY <3>1, <3>3
    <2>2. ~LastIs(r, "running")
        <3> SUFFICES ASSUME LastIs(r, "running") PROVE FALSE
            OBVIOUS
        <3>1. Len(r.operations) \in DOMAIN r.operations
            BY <1>0, LastElement DEF LastIs, Record
        <3> QED  BY <1>1, <3>1 DEF LastIs, CallOK, OperationsFit, Busy
    <2>3. r.stage = "started" => r.operations = << >>
        BY DEF CallOK, OperationsFit
    <2> QED  BY <1>0, <1>1, <2>1, <2>2, <2>3, EndKeeps
<1>2. CASE r.stage \in Operations
    <2> DEFINE e == End(Marked(r, "cancelled"), "cancelled")
               last == Len(r.operations)
               ops == [r.operations EXCEPT ![last].status = "cancelled"]
    <2>1. /\ r.operations \in Seq([stage : Operations, status : Statuses])
          /\ LastIs(r, "running") /\ ~r.caught
        BY <1>0, <1>2, RequestAssumption DEF CallOK, OperationsFit, RaisedFits, Busy, Record
    <2>2. last \in DOMAIN r.operations /\ r.operations[last] \in [stage : Operations, status : Statuses]
        BY <2>1, LastElement DEF LastIs
    <2>3. /\ ops \in Seq([stage : Operations, status : Statuses])
          /\ Len(ops) = last /\ DOMAIN ops = DOMAIN r.operations
          /\ ops[last].status = "cancelled" /\ ops # << >>
          /\ \A i \in DOMAIN ops : i # last => ops[i] = r.operations[i]
        <3>1. [r.operations[last] EXCEPT !.status = "cancelled"]
                  \in [stage : Operations, status : Statuses]
            BY <2>2 DEF Statuses
        <3> QED  BY <2>1, <2>2, <3>1
    <2>4. e = [r EXCEPT !.operations = ops, !.pc = "ended", !.outcome = "cancelled"]
        BY <1>0 DEF Marked, End, Record
    <2> HIDE DEF ops, last, e
    <2>5. /\ e \in Record /\ e.pc = "ended" /\ e.outcome = "cancelled" /\ e.stage = r.stage
          /\ e.operations = ops /\ e.errors = r.errors /\ e.beat = r.beat /\ e.caught = r.caught
        BY <1>0, <2>3, <2>4 DEF Record, ProgramCounters
    <2>6. ~LastIs(e, "failed") /\ ~LastIs(e, "running")
        BY <2>3, <2>5 DEF LastIs
    <2>7. OperationsFit(e)
        <3>1. \A i \in DOMAIN ops :
                 /\ ops[i].status # "running"
                 /\ ops[i].status = "cancelled" => i = last
            <4> TAKE i \in DOMAIN ops
            <4>1. CASE i = last
                BY <2>3, <4>1
            <4>2. CASE i # last
                BY <2>3, <4>2 DEF CallOK, OperationsFit, last
            <4> QED  BY <4>1, <4>2
        <3> QED  BY <1>2, <2>3, <2>5, <2>6, <3>1, StagesAreDistinct DEF OperationsFit, Busy
    <2>8. ErrorsFit(e)
        BY <2>5, <2>6 DEF CallOK, ErrorsFit
    <2>9. StageFits(e) /\ AnswerFits(e) /\ RaisedFits(e) /\ BeatFits(e)
        BY <1>0, <2>1, <2>5, RequestAssumption DEF StageFits, AnswerFits, RaisedFits, BeatFits
    <2>10. CallOK(e)
        BY <2>5, <2>7, <2>8, <2>9 DEF CallOK
    <2> QED  BY <1>2, <2>10 DEF e
<1> QED  BY <1>1, <1>2

LEMMA TaskMovesKeep ==
    ASSUME CallsOK, NEW c \in Calls, TaskMoves(c)
    PROVE  CallsOK' /\ OnlyOf(c)
<1> PICK r : r = call[c]
    OBVIOUS
<1>1. call \in [Calls -> Record] /\ CallOK(r) /\ r \in Record
    BY DEF CallsOK, CallOK
<1> SUFFICES \E n : call' = [call EXCEPT ![c] = n] /\ CallOK(n)
    BY OneCallChanges
<1>2. r.warned \in BOOLEAN /\ r = [r EXCEPT !.warned = r.warned]
    BY <1>1 DEF Record
<1>3. CASE Arrive(c)
    <2>1. r.pc = "new" /\ call' = [call EXCEPT ![c] = Report(r, "started")]
        BY <1>1, <1>3 DEF Arrive
    <2>2. CallOK([r EXCEPT !.pc = "reporting", !.stage = "started"])
        <3> DEFINE n == [r EXCEPT !.pc = "reporting", !.stage = "started"]
        <3>1. /\ n \in Record /\ n.pc = "reporting" /\ n.stage = "started"
              /\ n.operations = r.operations /\ n.errors = r.errors /\ n.raised = r.raised
              /\ n.caught = r.caught /\ n.outcome = r.outcome /\ n.beat = r.beat
            BY <1>1 DEF Record, ProgramCounters, Stages
        <3> HIDE DEF n
        <3>2. r.stage = "started" /\ r.raised = None /\ r.outcome = None /\ ~r.caught
              /\ r.beat \notin {"sleeping", "sending"} /\ r.operations = << >>
            BY <1>1, <2>1, RequestAssumption
               DEF CallOK, StageFits, RaisedFits, BeatFits, OperationsFit
        <3>3. OperationsFit(n)
            BY <3>1, <3>2, StagesAreDistinct DEF OperationsFit, Busy, LastIs
        <3>4. ErrorsFit(n)
            BY <1>1, <3>1, <3>2 DEF CallOK, ErrorsFit, LastIs
        <3>5. StageFits(n) /\ AnswerFits(n) /\ RaisedFits(n) /\ BeatFits(n)
            BY <3>1, <3>2, StagesAreDistinct, RequestAssumption
               DEF StageFits, AnswerFits, RaisedFits, BeatFits
        <3> QED  BY <3>1, <3>3, <3>4, <3>5 DEF CallOK, n
    <2>3. CallOK(Report(r, "started"))
        BY <1>1, <2>2, ReportKeeps DEF Stages
    <2> QED  BY <2>1, <2>3
<1>4. CASE Refuse(c)
    <2>1. r.pc = "called" /\ call' = [call EXCEPT ![c] = Report(r, "failed")]
        BY <1>1, <1>4 DEF Refuse
    <2> QED  BY <1>1, <2>1, VerdictIsReported
<1>5. CASE Enter(c)
    <2>1. r.pc = "called" /\ call' = [call EXCEPT ![c] = Report(Begun(r, "provider"), "provider")]
        BY <1>1, <1>5 DEF Enter
    <2>2. "provider" \in Operations
        BY DEF Operations, ProviderOperations
    <2> QED  BY <1>1, <2>1, <2>2, OperationBegins
<1>6. CASE Send(c)
    <2>1. r.pc = "reporting"
          /\ call' = [call EXCEPT ![c] = IF Enabled(r) THEN [r EXCEPT !.pc = "sending"]
                                                       ELSE AfterReport(r)]
        BY <1>1, <1>6 DEF Send
    <2>2. CallOK([r EXCEPT !.pc = "sending"])
        <3>1. [r EXCEPT !.pc = "sending"] = [r EXCEPT !.pc = "sending", !.warned = r.warned]
            BY <1>1 DEF Record
        <3> QED  BY <1>1, <1>2, <2>1, <3>1, NotifyingKeeps
    <2>3. CallOK(AfterReport(r))
        BY <1>1, <1>2, <2>1, NotificationEnds
    <2> QED  BY <2>1, <2>2, <2>3
<1>7. CASE Sent(c)
    <2>1. r.pc = "sending" /\ call' = [call EXCEPT ![c] = AfterReport(r)]
        BY <1>1, <1>7 DEF Sent
    <2>2. CallOK(AfterReport(r))
        BY <1>1, <1>2, <2>1, NotificationEnds
    <2> QED  BY <2>1, <2>2
<1>8. CASE SendFails(c)
    <2>1. r.pc = "sending" /\ call' = [call EXCEPT ![c] = AfterReport([r EXCEPT !.warned = TRUE])]
        BY <1>1, <1>8 DEF SendFails
    <2>2. CallOK(AfterReport([r EXCEPT !.warned = TRUE]))
        BY <1>1, <2>1, NotificationEnds
    <2> QED  BY <2>1, <2>2
<1>9. CASE Joined(c)
    <2>1. r.pc = "joining" /\ r.beat = "finished" /\ call' = [call EXCEPT ![c] = AfterJoin(r)]
        BY <1>1, <1>9 DEF Joined
    <2>2. Joining(r) = r
        BY <1>1, <2>1 DEF Joining, Record
    <2> QED  BY <1>1, <2>1, <2>2, AfterJoinKeeps
<1>10. CASE Examine(c)
    <2>1. r.pc = "replied"
          /\ call' = [call EXCEPT ![c] =
                 IF r.reply = "content" THEN Report(r, "completed")
                 ELSE IF r.reply = "empty" /\ r.stage = "provider_completed"
                      THEN Report(Begun(r, "provider_retry"), "provider_retry")
                 ELSE Report(r, "failed")]
        BY <1>1, <1>10 DEF Examine
    <2>2. "provider_retry" \in Operations
        BY DEF Operations, ProviderOperations
    <2>3. r.reply = "content" => CallOK(Report(r, "completed"))
        BY <1>1, <2>1, VerdictIsReported
    <2>4. CallOK(Report(r, "failed"))
        BY <1>1, <2>1, VerdictIsReported
    <2>5. CallOK(Report(Begun(r, "provider_retry"), "provider_retry"))
        BY <1>1, <2>1, <2>2, OperationBegins
    <2> QED  BY <2>1, <2>3, <2>4, <2>5
<1>11. ASSUME NEW reply \in Replies \ {None}, ProviderAnswers(c, reply)
       PROVE  \E n : call' = [call EXCEPT ![c] = n] /\ CallOK(n)
    <2> DEFINE m == Marked([r EXCEPT !.raised = None, !.errors = r.errors, !.reply = reply],
                           "completed")
    <2>1. r.pc = "working" /\ r.raised = None /\ r.errors \in Seq({"retryable", "permanent"})
        BY <1>1, <1>11 DEF ProviderAnswers, CallOK, RaisedFits, Record
    <2>2. [r EXCEPT !.reply = reply] = [r EXCEPT !.raised = None, !.errors = r.errors, !.reply = reply]
        BY <1>1, <2>1 DEF Record
    <2>3. call' = [call EXCEPT ![c] = Leave(m)]
        BY <1>1, <1>11, <2>2 DEF ProviderAnswers
    <2>4. m \in Record /\ CallOK(Joining(m))
        <3>1. \A i \in DOMAIN r.errors : i < Len(r.errors) => r.errors[i] = "retryable"
            BY <1>1 DEF CallOK, ErrorsFit
        <3> QED  BY <1>1, <2>1, <3>1, OperationEnds, RequestAssumption
    <2> HIDE DEF m
    <2>5. CallOK(Leave(m))
        BY <2>4, LeaveKeeps
    <2> QED  BY <2>3, <2>5
<1>12. ASSUME NEW error \in {"retryable", "permanent"}, AttemptFails(c, error)
       PROVE  \E n : call' = [call EXCEPT ![c] = n] /\ CallOK(n)
    <2> DEFINE errors == Append(r.errors, error)
               f == [r EXCEPT !.errors = errors]
               m == Marked([r EXCEPT !.raised = "error", !.errors = errors, !.reply = r.reply],
                           "failed")
    <2>1. /\ r.pc = "working" /\ r.errors \in Seq({"retryable", "permanent"})
          /\ Len(r.errors) + 1 = r.attempt /\ r.attempt <= MaxAttempts /\ r.attempt \in Nat
          /\ \A i \in DOMAIN r.errors : r.errors[i] = "retryable"
          /\ r.reply \in Replies
        BY <1>1, <1>12 DEF AttemptFails, CallOK, ErrorsFit, Record
    <2>2. /\ errors \in Seq({"retryable", "permanent"}) /\ errors # << >>
          /\ Len(errors) = r.attempt /\ errors[Len(errors)] = error
          /\ \A i \in DOMAIN errors : i < Len(errors) => errors[i] = "retryable"
        BY <2>1
    <2>3. /\ f.attempt = r.attempt
          /\ [f EXCEPT !.raised = "error"]
                 = [r EXCEPT !.raised = "error", !.errors = errors, !.reply = r.reply]
        BY <1>1 DEF Record
    <2>4. call' = [call EXCEPT ![c] =
                 IF GivesUp(f, error) THEN Leave(m)
                 ELSE [r EXCEPT !.errors = errors, !.attempt = r.attempt + 1]]
        <3>1. f = [call[c] EXCEPT !.errors = Append(call[c].errors, error)]
            OBVIOUS
        <3>2. call' = [call EXCEPT ![c] =
                  IF GivesUp(f, error) THEN Leave(Marked([f EXCEPT !.raised = "error"], "failed"))
                  ELSE [f EXCEPT !.attempt = f.attempt + 1]]
            BY <1>12 DEF AttemptFails
        <3>3. [f EXCEPT !.attempt = f.attempt + 1]
                  = [r EXCEPT !.errors = errors, !.attempt = r.attempt + 1]
            BY <1>1, <2>3
        <3> HIDE DEF f, errors
        <3> QED  BY <2>3, <3>2, <3>3
    <2>5. CASE GivesUp(f, error)
        <3>1. Len(errors) = MaxAttempts \/ errors[Len(errors)] = "permanent"
            BY <2>1, <2>2, <2>3, <2>5, RequestAssumption DEF GivesUp
        <3> HIDE DEF errors
        <3>2. m \in Record /\ CallOK(Joining(m))
            BY <1>1, <2>1, <2>2, <3>1, OperationEnds
        <3> HIDE DEF m
        <3> QED  BY <2>4, <2>5, <3>2, LeaveKeeps
    <2>6. CASE ~GivesUp(f, error)
        <3> DEFINE n == [r EXCEPT !.errors = errors, !.attempt = r.attempt + 1]
        <3> HIDE DEF errors
        <3>0. n \in Record
            <4>1. r.attempt + 1 \in Nat /\ errors \in Seq({"retryable", "permanent"}) /\ r \in Record
                BY <1>1, <2>1, <2>2
            <4> QED  BY <4>1 DEF Record
        <3>1. /\ n.errors = errors /\ n.attempt = r.attempt + 1
              /\ n.pc = r.pc /\ n.stage = r.stage /\ n.operations = r.operations
              /\ n.reply = r.reply /\ n.raised = r.raised /\ n.caught = r.caught
              /\ n.outcome = r.outcome /\ n.beat = r.beat
            BY <1>1 DEF Record
        <3>2. error = "retryable" /\ r.attempt < MaxAttempts
            BY <2>1, <2>3, <2>6, RequestAssumption DEF GivesUp
        <3> HIDE DEF n
        <3>3. /\ Busy(n) <=> Busy(r)
              /\ \A status : LastIs(n, status) <=> LastIs(r, status)
            BY <3>1 DEF Busy, LastIs
        <3>4. OperationsFit(n)
            BY <1>1, <3>1, <3>3 DEF CallOK, OperationsFit
        <3>5. ErrorsFit(n)
            <4>1. \A i \in DOMAIN errors : errors[i] = "retryable"
                BY <2>2, <3>2
            <4>2. ~LastIs(n, "failed")
                BY <1>1, <2>1, <3>3 DEF CallOK, OperationsFit, LastIs, Busy
            <4> QED  BY <2>1, <2>2, <3>1, <3>2, <4>1, <4>2, RequestAssumption DEF ErrorsFit
        <3>6. StageFits(n) /\ AnswerFits(n) /\ RaisedFits(n) /\ BeatFits(n)
            BY <1>1, <3>1, <3>3 DEF CallOK, StageFits, AnswerFits, RaisedFits, BeatFits
        <3>7. CallOK(n)
            BY <3>0, <3>4, <3>5, <3>6 DEF CallOK
        <3> QED  BY <2>4, <2>6, <3>7 DEF n
    <2> QED  BY <2>5, <2>6
<1>13. CASE Deliver(c)
    <2>1. CASE r.pc = "joining"
        <3> DEFINE n == [r EXCEPT !.caught = TRUE]
        <3>1. call' = [call EXCEPT ![c] = n]
            BY <1>1, <1>13, <2>1 DEF Deliver
        <3>2. /\ n \in Record /\ n.pc = "joining" /\ n.caught
              /\ n.stage = r.stage /\ n.operations = r.operations /\ n.errors = r.errors
              /\ n.attempt = r.attempt /\ n.reply = r.reply /\ n.raised = r.raised
              /\ n.outcome = r.outcome /\ n.beat = r.beat
            BY <1>1, <2>1 DEF Record
        <3> HIDE DEF n
        <3>3. /\ Busy(n) <=> Busy(r)
              /\ \A status : LastIs(n, status) <=> LastIs(r, status)
            BY <2>1, <3>2 DEF Busy, LastIs
        <3>4. OperationsFit(n) /\ ErrorsFit(n)
            BY <1>1, <2>1, <3>2, <3>3 DEF CallOK, OperationsFit, ErrorsFit
        <3>5. StageFits(n) /\ AnswerFits(n) /\ RaisedFits(n) /\ BeatFits(n)
            BY <1>1, <2>1, <3>2, <3>3 DEF CallOK, StageFits, AnswerFits, RaisedFits, BeatFits
        <3>6. CallOK(n)
            BY <3>2, <3>4, <3>5 DEF CallOK
        <3> QED  BY <3>1, <3>6
    <2>2. CASE r.pc = "working"
        <3> DEFINE m == Marked([r EXCEPT !.raised = "cancelled", !.errors = r.errors,
                                         !.reply = r.reply], "cancelled")
        <3>1. /\ r.errors \in Seq({"retryable", "permanent"}) /\ r.reply \in Replies
              /\ \A i \in DOMAIN r.errors : i < Len(r.errors) => r.errors[i] = "retryable"
            BY <1>1 DEF CallOK, ErrorsFit, Record
        <3>2. [r EXCEPT !.raised = "cancelled"]
                  = [r EXCEPT !.raised = "cancelled", !.errors = r.errors, !.reply = r.reply]
            BY <1>1 DEF Record
        <3>3. call' = [call EXCEPT ![c] = Leave(m)]
            BY <1>1, <1>13, <2>2, <3>2 DEF Deliver
        <3>4. m \in Record /\ CallOK(Joining(m))
            BY <1>1, <2>2, <3>1, OperationEnds
        <3> HIDE DEF m
        <3> QED  BY <3>3, <3>4, LeaveKeeps
    <2>3. CASE r.pc \in {"reporting", "sending"}
        <3>1. call' = [call EXCEPT ![c] =
                  IF r.stage \in Operations THEN End(Marked(r, "cancelled"), "cancelled")
                                            ELSE End(r, "cancelled")]
            BY <1>1, <1>13, <2>3 DEF Deliver
        <3> QED  BY <1>1, <2>3, <3>1, NotificationIsCut
    <2> QED
        BY <1>13, <2>1, <2>2, <2>3 DEF Deliver
<1> QED
    BY <1>3, <1>4, <1>5, <1>6, <1>7, <1>8, <1>9, <1>10, <1>11, <1>12, <1>13 DEF TaskMoves

----------------------------------------------------------------------------
(* An action of Jules beside its call.                                     *)
(*                                                                         *)
(* JulesIsHonest speaks of what the client is told.  It holds because of   *)
(* where the action can be at each place of its call: asking (the          *)
(* operation is being reported), at work, or over, when only a request     *)
(* that was given up may still have an effect, and then nothing definite   *)
(* has been said.                                                          *)

Asking(r) == r.pc \in {"reporting", "sending"} /\ r.stage = "jules_request"
Working(r) == r.pc = "working" /\ r.stage = "jules_request"

\* The call is past its operation, or never has this one.
Left(r) == r.stage # "started" /\ ~Asking(r) /\ ~Working(r)

\* A cancellation was thrown into the operation.
Cut(r) == (r.pc = "joining" /\ r.raised = "cancelled") \/ r.outcome = "cancelled"

JulesRecord ==
    [action : Actions \cup {None}, step : Nat,
     wire : {"idle", "sent", "applied", "rejected", "abandoned"}, applied : Nat,
     told : {None, "accepted", "read", "unknown", "refused"}]

\* Before the mutation, at it, and after it.
ProgressFits(j) ==
    /\ Current(j) \in {"look", "read"} => j.applied = 0 /\ j.wire \in {"idle", "sent"}
    /\ Current(j) = "refresh" => j.applied = 1 /\ j.wire \in {"idle", "sent"}
    /\ Current(j) = "post" => /\ j.wire \in {"idle", "sent", "applied", "rejected"}
                              /\ j.applied = IF j.wire = "applied" THEN 1 ELSE 0

OverFits(j) ==
    /\ j.wire \in {"idle", "abandoned"} /\ j.applied \in {0, 1}
    /\ j.wire = "abandoned" =>
           Current(j) = "post" /\ j.applied = 0 /\ j.told \in {None, "unknown"}
    /\ j.told = "accepted" => j.applied = 1
    /\ j.told \in {"refused", "read"} => j.applied = 0 /\ j.wire = "idle"

JulesOK(r, j) ==
    /\ j \in JulesRecord
    /\ j.action = None => j = NoAction /\ r.stage # "jules_request"
    /\ j.action # None =>
           /\ j.step \in DOMAIN RequestsOf(j.action)
           /\ r.stage # "started"
           /\ Asking(r) => j.step = 1 /\ j.wire = "idle" /\ j.applied = 0 /\ j.told = None
           /\ Working(r) => j.told = None /\ ProgressFits(j)
           /\ Left(r) => OverFits(j) /\ (j.told = None => Cut(r))

JulesAlwaysOK ==
    jules \in [Calls -> JulesRecord] /\ \A c \in Calls : JulesOK(call[c], jules[c])

-----------------------------------------------------------------------------
(* Actions and their requests. *)

\* A mutation comes once, before it only looks, after it only refreshes.
LEMMA RequestsAreOrdered ==
    ASSUME NEW action \in Actions, NEW i \in DOMAIN RequestsOf(action)
    PROVE  /\ RequestsOf(action)[i] \in {"look", "post", "refresh", "read"}
           /\ Len(RequestsOf(action)) \in 1..3 /\ DOMAIN RequestsOf(action) = 1..Len(RequestsOf(action))
           /\ 1 \in DOMAIN RequestsOf(action)
           /\ RequestsOf(action)[1] # "refresh"
           /\ i < Len(RequestsOf(action)) =>
                /\ i + 1 \in DOMAIN RequestsOf(action)
                /\ RequestsOf(action)[i] = "look" => RequestsOf(action)[i + 1] = "post"
                /\ RequestsOf(action)[i] = "post" => RequestsOf(action)[i + 1] = "refresh"
                /\ RequestsOf(action)[i] = "read" => RequestsOf(action)[i + 1] = "read"
                /\ RequestsOf(action)[i] # "refresh"
           /\ i = Len(RequestsOf(action)) => RequestsOf(action)[i] # "look"
<1>1. CASE action = "approve"
    <2>1. RequestsOf(action) = <<"look", "post", "refresh">>
        BY <1>1 DEF RequestsOf
    <2> QED  BY <2>1
<1>2. CASE action = "message"
    <2>1. RequestsOf(action) = <<"post", "refresh">>
        BY <1>2 DEF RequestsOf
    <2> QED  BY <2>1
<1>3. CASE action \in {"create", "archive"}
    <2>1. RequestsOf(action) = <<"post">>
        BY <1>3 DEF RequestsOf
    <2> QED  BY <2>1
<1>4. CASE action = "status"
    <2>1. RequestsOf(action) = <<"read", "read">>
        BY <1>4 DEF RequestsOf
    <2> QED  BY <2>1
<1>5. CASE action = "list_sources"
    <2>1. RequestsOf(action) = <<"read">>
        BY <1>5 DEF RequestsOf
    <2> QED  BY <2>1
<1> QED  BY <1>1, <1>2, <1>3, <1>4, <1>5 DEF Actions

-----------------------------------------------------------------------------
(* Where the operators of RequestProgress lead. *)

LEMMA AfterReportLands ==
    ASSUME NEW r \in Record
    PROVE  LET n == AfterReport(r) IN
           /\ n.stage = r.stage /\ n.pc \in {"called", "working", "replied", "ended"}
           /\ n.pc = "called" => r.stage = "started"
           /\ n.pc = "working" => r.stage \in Operations
           /\ r.stage = "jules_request" => n.pc = "working"
<1>1. r.stage \in Stages
    BY DEF Record
<1>2. CASE r.stage = "started"
    BY <1>2 DEF AfterReport, Operations, ProviderOperations, Completed, Record
<1>3. CASE r.stage \in Operations
    BY <1>3 DEF AfterReport, Operations, ProviderOperations, Completed, Record
<1>4. CASE r.stage \in CompletedStages
    <2>1. AfterReport(r) = [r EXCEPT !.pc = "replied"]
        BY <1>4 DEF AfterReport, Operations, ProviderOperations, Completed, CompletedStages
    <2> QED  BY <1>4, <2>1, StagesAreDistinct DEF Record, Operations, ProviderOperations
<1>5. CASE r.stage \in {"completed", "failed"}
    <2>1. AfterReport(r) = End(r, IF r.stage = "completed" THEN "answer" ELSE "failed")
        BY <1>5 DEF AfterReport, Operations, ProviderOperations, Completed
    <2> QED  BY <1>5, <2>1, StagesAreDistinct DEF End, Record, Operations, ProviderOperations
<1> QED  BY <1>1, <1>2, <1>3, <1>4, <1>5 DEF Stages

LEMMA ReportLands ==
    ASSUME NEW r \in Record, NEW stage \in Stages
    PROVE  LET n == Report(r, stage) IN
           /\ n.stage = stage /\ n.pc \in {"reporting", "called", "working", "replied", "ended"}
           /\ n.pc = "called" => stage = "started"
           /\ n.pc = "working" => stage \in Operations
           /\ stage = "jules_request" => n.pc \in {"reporting", "working"}
<1> DEFINE s == [r EXCEPT !.stage = stage]
<1>1. s \in Record /\ s.stage = stage
    BY DEF Record
<1>2. Report(r, stage) \in {[s EXCEPT !.pc = "reporting"], AfterReport(s)}
    BY DEF Report
<1> HIDE DEF s
<1>3. "jules_request" \in Operations
    BY DEF Operations
<1>4. CASE Report(r, stage) = [s EXCEPT !.pc = "reporting"]
    BY <1>1, <1>4 DEF Record
<1>5. CASE Report(r, stage) = AfterReport(s)
    BY <1>1, <1>5, AfterReportLands
<1> QED  BY <1>2, <1>4, <1>5

\* What an operation that was not cut leads to.
LEMMA AfterJoinReports ==
    ASSUME NEW r \in Record, r.stage \in Operations, ~(r.caught \/ r.raised = "cancelled")
    PROVE  \E stage \in Stages : /\ AfterJoin(r) = Report(r, stage)
                                 /\ stage \notin Operations \cup {"started"}
<1>1. AfterJoin(r) \in {Report(r, "failed"), Report(r, Completed[r.stage])}
    BY DEF AfterJoin
<1>2. Completed[r.stage] \in CompletedStages
    BY StagesAreDistinct
<1>3. \A stage \in CompletedStages \cup {"failed"} :
          stage \in Stages /\ stage \notin Operations \cup {"started"}
    BY StagesAreDistinct DEF Stages
<1> QED  BY <1>1, <1>2, <1>3

LEMMA AfterJoinLands ==
    ASSUME NEW r \in Record, r.stage \in Operations
    PROVE  LET n == AfterJoin(r) IN
           /\ Left(n)
           /\ r.raised = "cancelled" => n.outcome = "cancelled"
           /\ r.stage # "jules_request" => n.stage # "jules_request"
<1>1. CASE r.caught \/ r.raised = "cancelled"
    <2>1. AfterJoin(r) = End(r, "cancelled")
        BY <1>1 DEF AfterJoin
    <2> QED  BY <2>1, StagesAreDistinct DEF End, Record, Left, Asking, Working
<1>2. CASE ~(r.caught \/ r.raised = "cancelled")
    <2>1. PICK stage \in Stages : /\ AfterJoin(r) = Report(r, stage)
                                  /\ stage \notin Operations \cup {"started"}
        BY <1>2, AfterJoinReports
    <2>2. "jules_request" \in Operations
        BY DEF Operations
    <2> QED  BY <1>2, <2>1, <2>2, ReportLands DEF Left, Asking, Working
<1> QED  BY <1>1, <1>2

LEMMA LeaveLands ==
    ASSUME NEW r \in Record, r.stage \in Operations
    PROVE  LET n == Leave(r) IN
           /\ Left(n) /\ n.pc # "working"
           /\ r.raised = "cancelled" => Cut(n)
           /\ r.stage # "jules_request" => n.stage # "jules_request"
<1>1. CASE r.beat = "none"
    <2>1. Leave(r) = AfterJoin(r)
        BY <1>1 DEF Leave
    <2>2. Left(Leave(r)) => Leave(r).pc # "working" \/ Leave(r).stage # "jules_request"
        BY DEF Left, Working
    <2>3. AfterJoin(r).pc # "working"
        <3>1. CASE r.caught \/ r.raised = "cancelled"
            BY <3>1 DEF AfterJoin, End, Record
        <3>2. CASE ~(r.caught \/ r.raised = "cancelled")
            <4>1. PICK stage \in Stages : /\ AfterJoin(r) = Report(r, stage)
                                          /\ stage \notin Operations
                BY <3>2, AfterJoinReports
            <4> QED  BY <4>1, ReportLands
        <3> QED  BY <3>1, <3>2
    <2> QED  BY <2>1, <2>3, AfterJoinLands DEF Cut
<1>2. CASE r.beat # "none"
    BY <1>2, StagesAreDistinct DEF Leave, Record, Left, Asking, Working, Cut
<1> QED  BY <1>1, <1>2

\* Where a step of the task leads, seen from an operation of Jules.
Follows(r, n) ==
    /\ r.stage \notin {"started", "jules_request"} => n.stage \notin {"started", "jules_request"}
    /\ r.stage = "started" => n.stage # "jules_request"
    /\ Asking(r) => Asking(n) \/ Working(n) \/ (Left(n) /\ Cut(n))
    /\ Working(r) => Left(n) /\ Cut(n) /\ n.pc # "working"
    /\ Left(r) => Left(n) /\ (Cut(r) => Cut(n))

LEMMA WorkIsLeft ==
    ASSUME NEW r, NEW m \in Record, NEW n, n = Leave(m), m.stage = r.stage,
           r.pc = "working", r.stage \in ProviderOperations, r.outcome # "cancelled"
    PROVE  Follows(r, n)
<1>1. /\ m.stage \in Operations /\ r.stage # "jules_request" /\ r.stage # "started"
    BY DEF Operations, ProviderOperations
<1>2. Left(n) /\ n.stage # "jules_request"
    BY <1>1, LeaveLands
<1> QED
    BY <1>1, <1>2 DEF Follows, Left, Asking, Working, Cut

LEMMA TaskMovesLand ==
    ASSUME CallsOK, NEW c \in Calls, TaskMoves(c)
    PROVE  Follows(call[c], call'[c])
<1> PICK r \in Record : r = call[c]
    BY DEF CallsOK
<1> PICK n : n = call'[c]
    OBVIOUS
<1> SUFFICES Follows(r, n)
    OBVIOUS
<1>1. call \in [Calls -> Record] /\ CallOK(r)
    BY DEF CallsOK
<1>2. /\ StageFits(r)
      /\ r.outcome \in {None, "answer", "failed", "cancelled"}
      /\ "jules_request" \in Operations /\ "started" \notin Operations \cup CompletedStages
      /\ "jules_request" \notin CompletedStages
      /\ None # "cancelled"
      /\ r.pc # "ended" => r.outcome = None
    BY <1>1, StagesAreDistinct, RequestAssumption DEF CallOK, Operations, Record, StageFits
<1> USE DEF Follows, Left, Asking, Working, Cut
<1>3. CASE Arrive(c)
    <2>1. r.pc = "new" /\ n = Report(r, "started")
        BY <1>1, <1>3 DEF Arrive
    <2>2. n.stage = "started"
        BY <2>1, ReportLands DEF Stages
    <2> QED  BY <1>2, <2>1, <2>2 DEF StageFits
<1>4. CASE Refuse(c)
    <2>1. r.pc = "called" /\ n = Report(r, "failed")
        BY <1>1, <1>4 DEF Refuse
    <2>2. n.stage = "failed"
        BY <2>1, ReportLands DEF Stages
    <2> QED  BY <1>2, <2>1, <2>2 DEF StageFits
<1>5. CASE Enter(c)
    <2>1. r.pc = "called" /\ n = Report(Begun(r, "provider"), "provider")
        BY <1>1, <1>5 DEF Enter
    <2>2. n.stage = "provider"
        <3>1. Begun(r, "provider") \in Record
            BY BegunIsRecord DEF Operations, ProviderOperations
        <3> QED  BY <2>1, <3>1, ReportLands DEF Stages, Operations, ProviderOperations
    <2> QED  BY <1>2, <2>1, <2>2 DEF StageFits
<1>6. CASE Send(c) \/ Sent(c) \/ SendFails(c)
    <2>1. r.pc \in {"reporting", "sending"} /\ r.outcome = None
        BY <1>1, <1>2, <1>6 DEF Send, Sent, SendFails, StageFits
    <2>2. PICK s \in Record :
              /\ s.stage = r.stage
              /\ n \in {[r EXCEPT !.pc = "sending"], AfterReport(s)}
        <3>1. [r EXCEPT !.warned = TRUE] \in Record /\ [r EXCEPT !.warned = TRUE].stage = r.stage
            BY DEF Record
        <3>2. CASE Send(c)
            BY <1>1, <3>2 DEF Send
        <3>3. CASE Sent(c)
            BY <1>1, <3>3 DEF Sent
        <3>4. CASE SendFails(c)
            BY <1>1, <3>1, <3>4 DEF SendFails
        <3> QED  BY <1>6, <3>2, <3>3, <3>4
    <2>3. ~Working(r) /\ ~Cut(r) /\ (Asking(r) <=> r.stage = "jules_request")
        BY <1>2, <2>1
    <2>4. CASE n = [r EXCEPT !.pc = "sending"]
        <3>1. n.pc = "sending" /\ n.stage = r.stage
            BY <2>4 DEF Record
        <3> QED  BY <2>3, <3>1
    <2>5. CASE n = AfterReport(s)
        <3>1. /\ n.stage = r.stage /\ n.pc \in {"called", "working", "replied", "ended"}
              /\ r.stage = "jules_request" => n.pc = "working"
            BY <2>2, <2>5, AfterReportLands
        <3> QED  BY <2>3, <3>1
    <2> QED  BY <2>2, <2>4, <2>5
<1>7. CASE Joined(c)
    <2>1. r.pc = "joining" /\ n = AfterJoin(r) /\ r.stage \in Operations
        BY <1>1, <1>2, <1>7 DEF Joined, StageFits
    <2>2. r.outcome # "cancelled"
        BY <1>2, <2>1 DEF StageFits
    <2> QED  BY <1>2, <2>1, <2>2, AfterJoinLands
<1>8. CASE Examine(c)
    <2>1. r.pc = "replied" /\ r.stage \in CompletedStages /\ r.outcome # "cancelled"
        BY <1>1, <1>2, <1>8 DEF Examine, StageFits
    <2>2. n \in {Report(r, "completed"), Report(r, "failed"),
                        Report(Begun(r, "provider_retry"), "provider_retry")}
        BY <1>1, <1>8 DEF Examine
    <2>3. n.stage \in {"completed", "failed", "provider_retry"}
        <3>1. Begun(r, "provider_retry") \in Record
            BY BegunIsRecord DEF Operations, ProviderOperations
        <3> QED  BY <2>2, <3>1, ReportLands DEF Stages, Operations, ProviderOperations
    <2> QED  BY <1>2, <2>1, <2>3
<1>9. ASSUME NEW reply \in Replies \ {None}, ProviderAnswers(c, reply)
      PROVE  Follows(r, n)
    <2> DEFINE m == Marked([r EXCEPT !.raised = r.raised, !.errors = r.errors, !.reply = reply],
                           "completed")
    <2>1. [r EXCEPT !.reply = reply]
              = [r EXCEPT !.raised = r.raised, !.errors = r.errors, !.reply = reply]
        BY DEF Record
    <2>2. r.pc = "working" /\ r.stage \in ProviderOperations /\ n = Leave(m)
        BY <1>1, <1>9, <2>1 DEF ProviderAnswers
    <2>3. m \in Record /\ m.stage = r.stage
        <3>1. /\ r.raised \in {None, "error", "cancelled"}
              /\ r.errors \in Seq({"retryable", "permanent"}) /\ "completed" \in Statuses
            BY DEF Record, Statuses
        <3> DEFINE s == [r EXCEPT !.raised = r.raised, !.errors = r.errors, !.reply = reply]
        <3>2. s \in Record /\ s.stage = r.stage /\ s.operations = r.operations
            BY <3>1 DEF Record
        <3>3. m = Marked(s, "completed")
            OBVIOUS
        <3> HIDE DEF m, s
        <3> QED  BY <1>1, <2>2, <3>1, <3>2, <3>3, EndedWorkIsRecord
    <2> HIDE DEF m
    <2> QED  BY <1>2, <2>2, <2>3, WorkIsLeft
<1>10. ASSUME NEW error \in {"retryable", "permanent"}, AttemptFails(c, error)
       PROVE  Follows(r, n)
    <2> DEFINE errors == Append(r.errors, error)
               f == [r EXCEPT !.errors = errors]
               m == Marked([r EXCEPT !.raised = "error", !.errors = errors, !.reply = r.reply],
                           "failed")
    <2>1. r.pc = "working" /\ r.stage \in ProviderOperations
        BY <1>1, <1>10 DEF AttemptFails
    <2>2. errors \in Seq({"retryable", "permanent"}) /\ r.reply \in Replies
        BY DEF Record
    <2>3. f = [call[c] EXCEPT !.errors = Append(call[c].errors, error)]
        OBVIOUS
    <2>4. n \in {Leave(Marked([f EXCEPT !.raised = "error"], "failed")),
                 [f EXCEPT !.attempt = f.attempt + 1]}
        BY <1>1, <1>10 DEF AttemptFails
    <2>5. [f EXCEPT !.raised = "error"]
              = [r EXCEPT !.raised = "error", !.errors = errors, !.reply = r.reply]
        BY DEF Record
    <2> HIDE DEF errors
    <2>6. CASE n = Leave(m)
        <3>1. m \in Record /\ m.stage = r.stage
            <4>1. "failed" \in Statuses /\ CallOK(r) /\ r.pc = "working"
                BY <1>1, <2>1 DEF Statuses
            <4> DEFINE s == [r EXCEPT !.raised = "error", !.errors = errors, !.reply = r.reply]
            <4>2. s \in Record /\ s.stage = r.stage /\ s.operations = r.operations
                BY <2>2 DEF Record
            <4>3. m = Marked(s, "failed")
                OBVIOUS
            <4> HIDE DEF m, s
            <4> QED  BY <4>1, <4>2, <4>3, EndedWorkIsRecord
        <3> HIDE DEF m
        <3> QED  BY <1>2, <2>1, <2>6, <3>1, WorkIsLeft
    <2>7. CASE n = [f EXCEPT !.attempt = f.attempt + 1]
        <3>1. n.pc = r.pc /\ n.stage = r.stage /\ n.raised = r.raised /\ n.outcome = r.outcome
            BY <2>7 DEF Record
        <3> QED  BY <3>1, <2>1 DEF ProviderOperations
    <2> QED  BY <2>4, <2>5, <2>6, <2>7
<1>11. CASE Deliver(c)
    <2>1. CASE r.pc = "joining"
        <3>1. n = [r EXCEPT !.caught = TRUE]
            BY <1>1, <1>11, <2>1 DEF Deliver
        <3>2. n.pc = r.pc /\ n.stage = r.stage /\ n.raised = r.raised /\ n.outcome = r.outcome
            BY <3>1 DEF Record
        <3> QED  BY <2>1, <3>2
    <2>2. CASE r.pc = "working"
        <3> DEFINE m == Marked([r EXCEPT !.raised = "cancelled", !.errors = r.errors,
                                         !.reply = r.reply], "cancelled")
        <3>1. [r EXCEPT !.raised = "cancelled"]
                  = [r EXCEPT !.raised = "cancelled", !.errors = r.errors, !.reply = r.reply]
            BY DEF Record
        <3>2. n = Leave(m)
            BY <1>1, <1>11, <2>2, <3>1 DEF Deliver
        <3>3. m \in Record /\ m.stage = r.stage /\ m.raised = "cancelled"
            <4>1. /\ r.errors \in Seq({"retryable", "permanent"}) /\ r.reply \in Replies
                  /\ "cancelled" \in Statuses
                BY DEF Record, Statuses
            <4> DEFINE s == [r EXCEPT !.raised = "cancelled", !.errors = r.errors,
                                      !.reply = r.reply]
            <4>2. /\ s \in Record /\ s.stage = r.stage /\ s.operations = r.operations
                  /\ s.raised = "cancelled"
                BY <4>1 DEF Record
            <4>3. m = Marked(s, "cancelled")
                OBVIOUS
            <4> HIDE DEF m, s
            <4> QED  BY <1>1, <2>2, <4>1, <4>2, <4>3, EndedWorkIsRecord
        <3> HIDE DEF m
        <3>4. /\ Left(n) /\ Cut(n) /\ n.pc # "working"
              /\ r.stage # "jules_request" => n.stage # "jules_request"
            BY <1>2, <2>2, <3>2, <3>3, LeaveLands DEF StageFits
        <3>5. ~Asking(r) /\ r.stage # "started"
            BY <1>2, <2>2 DEF StageFits
        <3> QED  BY <3>4, <3>5
    <2>3. CASE r.pc \in {"reporting", "sending"}
        <3>1. n \in {End(Marked(r, "cancelled"), "cancelled"), End(r, "cancelled")}
              /\ (r.stage \notin Operations => n = End(r, "cancelled"))
            BY <1>1, <1>11, <2>3 DEF Deliver
        <3>2. n.pc = "ended" /\ n.outcome = "cancelled" /\ n.stage = r.stage
            <4>1. CASE n = End(r, "cancelled")
                BY <4>1 DEF End, Record
            <4>2. CASE n = End(Marked(r, "cancelled"), "cancelled") /\ r.stage \in Operations
                <5> DEFINE m == Marked(r, "cancelled")
                <5>1. r.operations # << >>
                    BY <1>1, <2>3, <4>2 DEF CallOK, OperationsFit, Busy, LastIs
                <5>2. m \in Record /\ m.stage = r.stage
                    BY <5>1, MarkedIsRecord DEF Statuses
                <5> HIDE DEF m
                <5>3. n = End(m, "cancelled")
                    BY <4>2 DEF m
                <5> QED  BY <5>2, <5>3 DEF End, Record
            <4> QED  BY <3>1, <4>1, <4>2
        <3>3. ~Working(r) /\ ~Working(n) /\ ~Asking(n) /\ Cut(n)
            BY <2>3, <3>2
        <3>4. r.stage # "started" => Left(n)
            BY <3>2, <3>3
        <3> QED  BY <3>2, <3>3, <3>4
    <2> QED  BY <1>1, <1>11, <2>1, <2>2, <2>3 DEF Deliver
<1> QED
    BY <1>3, <1>4, <1>5, <1>6, <1>7, <1>8, <1>9, <1>10, <1>11 DEF TaskMoves

-----------------------------------------------------------------------------
(* The steps of a call, and the request that follows them. *)

LEMMA CurrentIsKnown ==
    ASSUME NEW j \in JulesRecord, j.action \in Actions, j.step \in DOMAIN RequestsOf(j.action)
    PROVE  Current(j) \in {"look", "post", "refresh", "read"}
BY RequestsAreOrdered DEF Current

\* What is given up: only a mutation on its way may still have an effect.
LEMMA AbandonedFits ==
    ASSUME NEW j \in JulesRecord, j.action \in Actions, j.step \in DOMAIN RequestsOf(j.action),
           ProgressFits(j)
    PROVE  LET a == Abandoned(j) IN
           /\ a \in JulesRecord /\ a.action = j.action /\ a.step = j.step /\ a.told = j.told
           /\ a.applied = j.applied /\ a.applied \in {0, 1}
           /\ a.wire = IF j.wire = "sent" /\ Current(j) = "post" THEN "abandoned" ELSE "idle"
           /\ a.wire = "abandoned" => Current(a) = "post" /\ a.applied = 0
<1> DEFINE a == Abandoned(j)
<1>1. /\ a \in JulesRecord /\ a.action = j.action /\ a.step = j.step /\ a.told = j.told
      /\ a.applied = j.applied
      /\ a.wire = IF j.wire = "sent" /\ Current(j) = "post" THEN "abandoned" ELSE "idle"
    BY DEF Abandoned, JulesRecord
<1>2. Current(a) = Current(j)
    BY <1>1 DEF Current
<1> HIDE DEF a
<1>3. j.applied \in {0, 1}
    BY CurrentIsKnown DEF ProgressFits
<1>4. a.wire = "abandoned" => Current(a) = "post" /\ a.applied = 0
    BY <1>1, <1>2 DEF ProgressFits
<1> QED  BY <1>1, <1>3, <1>4 DEF a

LEMMA OneActionChanges ==
    ASSUME JulesAlwaysOK, NEW c \in Calls, OnlyOf(c), NEW j, JulesOK(call'[c], j),
           jules' = [jules EXCEPT ![c] = j]
    PROVE  JulesAlwaysOK'
BY DEF JulesAlwaysOK, OnlyOf, JulesOK

LEMMA JulesFollowsKeeps ==
    ASSUME CallsOK, JulesAlwaysOK, NEW c \in Calls, OnlyOf(c), JulesFollows(c),
           Follows(call[c], call'[c]) \/ SameCourse(call'[c], call[c])
    PROVE  JulesAlwaysOK'
<1> PICK r, n, j : r = call[c] /\ n = call'[c] /\ j = jules[c]
    OBVIOUS
<1>1. JulesOK(r, j) /\ jules \in [Calls -> JulesRecord] /\ j \in JulesRecord
    BY DEF JulesAlwaysOK
<1>2. CallOK(r)
    BY DEF CallsOK
<1> SUFFICES \E k : jules' = [jules EXCEPT ![c] = k] /\ JulesOK(n, k)
    BY OneActionChanges
<1>3. jules = [jules EXCEPT ![c] = j]
    BY <1>1
<1>4. CASE Working(r) /\ n.pc # "working"
    <2>1. jules' = [jules EXCEPT ![c] = Abandoned(j)]
        BY <1>4 DEF JulesFollows, AtWork, Working
    <2>2. Left(n) /\ Cut(n)
        BY <1>4 DEF Follows, SameCourse, Working
    <2>3. /\ j.action \in Actions /\ j.step \in DOMAIN RequestsOf(j.action)
          /\ j.told = None /\ ProgressFits(j)
        BY <1>1, <1>4 DEF JulesOK, JulesRecord, Working
    <2>4. JulesOK(n, Abandoned(j))
        BY <1>1, <2>2, <2>3, AbandonedFits, JulesAssumption
           DEF JulesOK, OverFits, Left, Asking, Working
    <2> QED  BY <2>1, <2>4
<1>5. CASE ~(Working(r) /\ n.pc # "working")
    <2>1. jules' = [jules EXCEPT ![c] = j]
        BY <1>3, <1>5 DEF JulesFollows, AtWork, Working
    <2>2. CASE SameCourse(n, r)
        <3>1. /\ Asking(n) <=> Asking(r)
              /\ Working(n) <=> Working(r)
              /\ Left(n) <=> Left(r)
              /\ Cut(n) <=> Cut(r)
              /\ n.stage = r.stage
            BY <2>2 DEF SameCourse, Asking, Working, Left, Cut
        <3>2. JulesOK(n, j)
            BY <1>1, <3>1 DEF JulesOK
        <3> QED  BY <2>1, <3>2
    <2>3. CASE Follows(r, n)
        <3>1. CASE j.action = None
            BY <1>1, <2>1, <2>3, <3>1 DEF JulesOK, Follows
        <3>2. CASE j.action # None /\ Left(r)
            <4>1. Left(n) /\ (Cut(r) => Cut(n))
                BY <2>3, <3>2 DEF Follows
            <4>2. JulesOK(n, j)
                BY <1>1, <3>2, <4>1 DEF JulesOK, Left
            <4> QED  BY <2>1, <4>2
        <3>3. CASE j.action # None /\ Asking(r)
            <4>1. /\ j.action \in Actions /\ j.step = 1 /\ 1 \in DOMAIN RequestsOf(j.action)
                  /\ j.wire = "idle" /\ j.applied = 0 /\ j.told = None
                BY <1>1, <3>3 DEF JulesOK, JulesRecord
            <4>2. ProgressFits(j) /\ OverFits(j)
                BY <4>1, RequestsAreOrdered, JulesAssumption DEF ProgressFits, OverFits, Current
            <4>3. Asking(n) \/ Working(n) \/ (Left(n) /\ Cut(n))
                BY <2>3, <3>3 DEF Follows
            <4>4. n.stage # "started"
                BY <4>3 DEF Asking, Working, Left
            <4>5. JulesOK(n, j)
                BY <1>1, <3>3, <4>1, <4>2, <4>3, <4>4 DEF JulesOK, Asking, Working, Left
            <4> QED  BY <2>1, <4>5
        <3>4. CASE Working(r)
            BY <1>5, <2>3, <3>4 DEF Follows
        <3>5. j.action # None => Left(r) \/ Asking(r) \/ Working(r)
            BY <1>1 DEF JulesOK, Left
        <3> QED  BY <3>1, <3>2, <3>3, <3>4, <3>5
    <2> QED  BY <2>2, <2>3
<1> QED  BY <1>4, <1>5

-----------------------------------------------------------------------------
(* The steps of an action. *)

\* The end of the operation, seen from the call.
LEMMA OperationIsOver ==
    ASSUME CallsOK, NEW c \in Calls, NEW told, Working(call[c]),
           Succeed(c, told) \/ FailAs(c, told)
    PROVE  CallsOK' /\ OnlyOf(c) /\ Left(call'[c])
<1> PICK r \in Record : r = call[c]
    BY DEF CallsOK
<1>1. call \in [Calls -> Record] /\ CallOK(r)
    BY DEF CallsOK
<1>2. /\ call \in [Calls -> Record] /\ CallOK(r) /\ r.pc = "working" /\ r.stage = "jules_request"
      /\ r.errors \in Seq({"retryable", "permanent"}) /\ r.reply \in Replies
    BY <1>1 DEF Working, Record
<1>3. \A i \in DOMAIN r.errors : i < Len(r.errors) => r.errors[i] = "retryable"
    BY <1>1 DEF CallOK, ErrorsFit
<1>4. r.raised = None
    BY <1>1, <1>2 DEF CallOK, RaisedFits
<1>5. PICK m \in Record : /\ call' = [call EXCEPT ![c] = Leave(m)]
                          /\ CallOK(Joining(m)) /\ m.stage = r.stage
    <2>1. CASE Succeed(c, told)
        <3> DEFINE m == Marked([r EXCEPT !.raised = None, !.errors = r.errors,
                                         !.reply = "content"], "completed")
        <3>1. [r EXCEPT !.reply = "content"]
                  = [r EXCEPT !.raised = None, !.errors = r.errors, !.reply = "content"]
            BY <1>4 DEF Record
        <3>2. call' = [call EXCEPT ![c] = Leave(m)]
            BY <1>2, <2>1, <3>1 DEF Succeed
        <3>3. m \in Record /\ CallOK(Joining(m))
            <4>1. "content" \in Replies
                BY DEF Replies
            <4> QED  BY <1>2, <1>3, <4>1, OperationEnds, RequestAssumption
        <3>4. m.stage = r.stage
            <4> DEFINE s == [r EXCEPT !.raised = None, !.errors = r.errors, !.reply = "content"]
            <4>1. s \in Record /\ s.stage = r.stage /\ s.operations = r.operations
                <5>1. "content" \in Replies
                    BY DEF Replies
                <5> QED  BY <5>1 DEF Record
            <4>2. m = Marked(s, "completed")
                OBVIOUS
            <4> HIDE DEF m, s
            <4> QED  BY <1>2, <4>1, <4>2, EndedWorkIsRecord DEF Statuses
        <3> HIDE DEF m
        <3> QED  BY <3>2, <3>3, <3>4
    <2>2. CASE FailAs(c, told)
        <3> DEFINE errors == <<"permanent">>
                   s == [r EXCEPT !.raised = "error", !.errors = errors, !.reply = r.reply]
                   m == Marked([r EXCEPT !.raised = "error", !.errors = errors,
                                         !.reply = r.reply], "failed")
        <3>1. [r EXCEPT !.raised = "error", !.errors = errors] = s
            BY <1>2 DEF Record
        <3>2. call' = [call EXCEPT ![c] = Leave(m)]
            BY <1>2, <2>2, <3>1 DEF FailAs
        <3>3. /\ errors \in Seq({"retryable", "permanent"}) /\ errors # << >>
              /\ errors[Len(errors)] = "permanent"
              /\ \A i \in DOMAIN errors : i < Len(errors) => errors[i] = "retryable"
            OBVIOUS
        <3> HIDE DEF errors
        <3>4. m \in Record /\ CallOK(Joining(m))
            BY <1>2, <3>3, OperationEnds
        <3>5. m.stage = r.stage
            <4>1. s \in Record /\ s.stage = r.stage /\ s.operations = r.operations
                BY <1>2, <3>3 DEF Record
            <4>2. m = Marked(s, "failed")
                OBVIOUS
            <4> HIDE DEF m, s
            <4> QED  BY <1>2, <4>1, <4>2, EndedWorkIsRecord DEF Statuses
        <3> HIDE DEF m
        <3> QED  BY <3>2, <3>4, <3>5
    <2> QED  BY <2>1, <2>2
<1>6. CallOK(Leave(m)) /\ Left(Leave(m))
    BY <1>2, <1>5, LeaveKeeps, LeaveLands DEF Operations
<1> QED  BY <1>5, <1>6, OneCallChanges

LEMMA JulesStepKeeps ==
    ASSUME CallsOK, JulesAlwaysOK, NEW c \in Calls, JulesStep(c)
    PROVE  CallsOK' /\ JulesAlwaysOK' /\ OnlyOf(c)
<1> PICK r \in Record, j \in JulesRecord : r = call[c] /\ j = jules[c]
    BY DEF CallsOK, JulesAlwaysOK
<1>1. /\ call \in [Calls -> Record] /\ jules \in [Calls -> JulesRecord]
      /\ CallOK(r) /\ JulesOK(r, j)
    BY DEF CallsOK, JulesAlwaysOK
\* The call does not move, only the request.
<1>2. ASSUME UNCHANGED call, NEW k, jules' = [jules EXCEPT ![c] = k], JulesOK(r, k)
      PROVE  CallsOK' /\ JulesAlwaysOK' /\ OnlyOf(c)
    <2>1. CallsOK' /\ OnlyOf(c) /\ call'[c] = r
        BY <1>1, <1>2 DEF CallsOK, OnlyOf
    <2> QED  BY <1>2, <2>1, OneActionChanges
\* At work.
<1>3. ASSUME AtWork(c)
      PROVE  /\ Working(r) /\ j.action \in Actions /\ j.step \in DOMAIN RequestsOf(j.action)
             /\ j.told = None /\ ProgressFits(j)
             /\ Current(j) \in {"look", "post", "refresh", "read"}
    BY <1>1, <1>3, CurrentIsKnown DEF AtWork, Working, JulesOK, JulesRecord
<1>4. ASSUME NEW k \in JulesRecord, k.action = j.action, k.told = None,
             k.step \in DOMAIN RequestsOf(j.action), ProgressFits(k),
             Working(r), j.action \in Actions
      PROVE  JulesOK(r, k)
    <2>1. k.action # None /\ r.stage # "started" /\ ~Asking(r) /\ ~Left(r)
        BY <1>4, JulesAssumption DEF Working, Asking, Left
    <2> QED  BY <1>4, <2>1 DEF JulesOK
\* The operation ends, and with it the request.
<1>5. ASSUME AtWork(c), NEW told \in {"accepted", "read", "unknown", "refused"},
             Succeed(c, told) \/ FailAs(c, told),
             told = "accepted" => j.applied = 1,
             told \in {"refused", "read"} =>
                 j.applied = 0 /\ ~(j.wire = "sent" /\ Current(j) = "post"),
             told = "accepted" => ~(j.wire = "sent" /\ Current(j) = "post")
      PROVE  CallsOK' /\ JulesAlwaysOK' /\ OnlyOf(c)
    <2>1. CallsOK' /\ OnlyOf(c) /\ Left(call'[c])
        BY <1>3, <1>5, OperationIsOver
    <2> DEFINE a == Abandoned(j)
               k == [a EXCEPT !.told = told]
    <2>2. jules' = [jules EXCEPT ![c] = k]
        BY <1>5 DEF Succeed, FailAs
    <2>3. /\ a \in JulesRecord /\ a.action = j.action /\ a.step = j.step
          /\ a.applied = j.applied /\ a.applied \in {0, 1}
          /\ a.wire = IF j.wire = "sent" /\ Current(j) = "post" THEN "abandoned" ELSE "idle"
          /\ a.wire = "abandoned" => Current(a) = "post" /\ a.applied = 0
        BY <1>3, <1>5, AbandonedFits
    <2> HIDE DEF a
    <2>4. /\ k \in JulesRecord /\ k.action = j.action /\ k.step = j.step /\ k.told = told
          /\ k.applied = j.applied /\ k.applied \in {0, 1} /\ k.wire = a.wire
        BY <2>3 DEF JulesRecord
    <2>5. Current(k) = Current(a)
        BY <2>3, <2>4 DEF Current
    <2> HIDE DEF k
    <2>6. OverFits(k)
        BY <1>5, <2>3, <2>4, <2>5 DEF OverFits
    <2>7. told # None /\ j.action # None
        BY <1>3, <1>5, JulesAssumption
    <2>8. JulesOK(call'[c], k)
        BY <1>3, <1>5, <2>1, <2>4, <2>6, <2>7 DEF JulesOK, Left
    <2> QED  BY <2>1, <2>2, <2>8, OneActionChanges
<1>6. ASSUME NEW action \in Actions, EnterJules(c, action)
      PROVE  CallsOK' /\ JulesAlwaysOK' /\ OnlyOf(c)
    <2> DEFINE n == Report(Begun(r, "jules_request"), "jules_request")
               k == [j EXCEPT !.action = action, !.step = 1]
    <2>1. r.pc = "called" /\ call' = [call EXCEPT ![c] = n] /\ jules' = [jules EXCEPT ![c] = k]
        BY <1>1, <1>6 DEF EnterJules
    <2>2. "jules_request" \in Operations
        BY DEF Operations
    <2>3. CallOK(n)
        BY <1>1, <2>1, <2>2, OperationBegins
    <2>4. n.stage = "jules_request" /\ n.pc \in {"reporting", "working"}
        BY <2>2, BegunIsRecord, ReportLands DEF Stages
    <2>5. r.stage = "started"
        BY <1>1, <2>1 DEF CallOK, StageFits
    <2>6. j = NoAction
        BY <1>1, <2>5 DEF JulesOK
    <2>7. /\ k \in JulesRecord /\ k.action = action /\ k.step = 1 /\ k.wire = "idle"
          /\ k.applied = 0 /\ k.told = None
        <3>1. j.wire = "idle" /\ j.applied = 0 /\ j.told = None
            BY <2>6 DEF NoAction
        <3> QED  BY <3>1 DEF JulesRecord
    <2> HIDE DEF n, k
    <2>8. /\ 1 \in DOMAIN RequestsOf(action) /\ Current(k) = RequestsOf(action)[1]
          /\ RequestsOf(action)[1] # "refresh"
        <3>1. 1 \in DOMAIN RequestsOf(action)
            BY DEF RequestsOf, Actions
        <3> QED  BY <2>7, <3>1, RequestsAreOrdered DEF Current
    <2>9. ProgressFits(k)
        BY <2>7, <2>8 DEF ProgressFits
    <2>10. JulesOK(n, k)
        BY <2>4, <2>7, <2>8, <2>9, JulesAssumption DEF JulesOK, Asking, Working, Left
    <2> QED  BY <2>1, <2>3, <2>10, OneCallChanges, OneActionChanges
<1>7. CASE Ask(c)
    <2> DEFINE k == [j EXCEPT !.wire = "sent"]
    <2>1. AtWork(c) /\ j.wire = "idle" /\ UNCHANGED call /\ jules' = [jules EXCEPT ![c] = k]
        BY <1>1, <1>7 DEF Ask
    <2>2. /\ k \in JulesRecord /\ k.action = j.action /\ k.step = j.step /\ k.told = j.told
          /\ k.applied = j.applied /\ k.wire = "sent"
        BY DEF JulesRecord
    <2> HIDE DEF k
    <2>3. Current(k) = Current(j)
        BY <2>2 DEF Current
    <2>4. ProgressFits(k)
        BY <1>3, <2>1, <2>2, <2>3 DEF ProgressFits
    <2> QED  BY <1>2, <1>3, <1>4, <2>1, <2>2, <2>4
<1>8. CASE Understands(c)
    <2>1. AtWork(c) /\ j.wire = IF Current(j) = "post" THEN "applied" ELSE "sent"
        BY <1>8 DEF Understands
    <2>2. CASE j.step < Len(RequestsOf(j.action))
        <3> DEFINE k == [j EXCEPT !.step = j.step + 1, !.wire = "idle"]
        <3>1. UNCHANGED call /\ jules' = [jules EXCEPT ![c] = k]
            BY <1>1, <1>8, <2>2 DEF Understands
        <3>2. j.step + 1 \in DOMAIN RequestsOf(j.action) /\ j.step + 1 \in Nat
            BY <1>3, <2>1, <2>2, RequestsAreOrdered DEF JulesRecord
        <3>3. /\ k \in JulesRecord /\ k.action = j.action /\ k.step = j.step + 1 /\ k.told = j.told
              /\ k.applied = j.applied /\ k.wire = "idle"
            BY <3>2 DEF JulesRecord
        <3> HIDE DEF k
        <3>4. /\ Current(j) = "look" => Current(k) = "post"
              /\ Current(j) = "post" => Current(k) = "refresh"
              /\ Current(j) = "read" => Current(k) = "read"
              /\ Current(j) # "refresh"
            BY <1>3, <2>1, <2>2, <3>3, RequestsAreOrdered DEF Current
        <3>5. ProgressFits(k)
            BY <1>3, <2>1, <3>3, <3>4 DEF ProgressFits
        <3> QED  BY <1>2, <1>3, <1>4, <2>1, <3>1, <3>2, <3>3, <3>5
    <2>3. CASE ~(j.step < Len(RequestsOf(j.action)))
        <3>1. Succeed(c, IF Current(j) = "read" THEN "read" ELSE "accepted")
            BY <1>8, <2>3 DEF Understands
        <3>2. j.step = Len(RequestsOf(j.action))
            BY <1>3, <2>1, <2>3, RequestsAreOrdered DEF JulesRecord
        <3>3. Current(j) # "look"
            BY <1>3, <2>1, <3>2, RequestsAreOrdered DEF Current
        <3>4. CASE Current(j) = "read"
            <4>1. j.applied = 0 /\ Succeed(c, "read")
                BY <1>3, <2>1, <3>1, <3>4 DEF ProgressFits
            <4> QED  BY <1>5, <2>1, <3>4, <4>1
        <3>5. CASE Current(j) # "read"
            <4>1. j.applied = 1 /\ Succeed(c, "accepted")
                BY <1>3, <2>1, <3>1, <3>3, <3>5 DEF ProgressFits
            <4> QED  BY <1>5, <2>1, <4>1
        <3> QED  BY <3>4, <3>5
    <2> QED  BY <2>2, <2>3
<1>9. CASE NotAwaitingApproval(c)
    <2>1. AtWork(c) /\ Current(j) = "look" /\ FailAs(c, "refused")
        BY <1>9 DEF NotAwaitingApproval
    <2>2. j.applied = 0
        BY <1>3, <2>1 DEF ProgressFits
    <2> QED  BY <1>5, <2>1, <2>2
<1>10. ASSUME NEW failure \in Failures, Fails(c, failure)
       PROVE  CallsOK' /\ JulesAlwaysOK' /\ OnlyOf(c)
    <2>1. /\ AtWork(c) /\ CanFail(j, failure)
          /\ IF Current(j) = "refresh" THEN Succeed(c, "accepted")
             ELSE FailAs(c, IF OutcomeUnknown(Current(j), failure) THEN "unknown" ELSE "refused")
        BY <1>10 DEF Fails
    <2>2. CASE Current(j) = "refresh"
        <3>1. j.applied = 1 /\ Succeed(c, "accepted")
            BY <1>3, <2>1, <2>2 DEF ProgressFits
        <3> QED  BY <1>5, <2>1, <2>2, <3>1
    <2>3. CASE Current(j) # "refresh" /\ OutcomeUnknown(Current(j), failure)
        <3>1. FailAs(c, "unknown")
            BY <2>1, <2>3
        <3> QED  BY <1>5, <2>1, <3>1
    <2>4. CASE Current(j) # "refresh" /\ ~OutcomeUnknown(Current(j), failure)
        <3>1. FailAs(c, "refused")
            BY <2>1, <2>4
        <3>2. CASE Current(j) # "post"
            <4>1. j.applied = 0
                BY <1>3, <2>1, <2>4, <3>2 DEF ProgressFits
            <4> QED  BY <1>5, <2>1, <3>1, <3>2, <4>1
        <3>3. CASE Current(j) = "post"
            <4>1. failure = "client_error"
                BY <2>4, <3>3 DEF OutcomeUnknown
            <4>2. j.wire = "rejected"
                BY <2>1, <3>3, <4>1 DEF CanFail
            <4>3. j.applied = 0
                BY <1>3, <2>1, <3>3, <4>2 DEF ProgressFits
            <4> QED  BY <1>5, <2>1, <3>1, <4>2, <4>3
        <3> QED  BY <3>2, <3>3
    <2> QED  BY <2>2, <2>3, <2>4
<1>11. CASE Serve(c)
    <2>1. /\ j.wire \in {"sent", "abandoned"} /\ Current(j) = "post" /\ UNCHANGED call
          /\ \E wire \in {"applied", "rejected"} :
                LET after == IF j.wire = "sent" THEN wire ELSE "idle" IN
                jules' = [jules EXCEPT ![c] = [j EXCEPT !.wire = after,
                              !.applied = IF wire = "applied" THEN j.applied + 1 ELSE j.applied]]
        <3>1. j = [j EXCEPT !.applied = j.applied]
            BY DEF JulesRecord
        <3>2. CASE jules' = [jules EXCEPT ![c] = [j EXCEPT
                        !.wire = IF j.wire = "sent" THEN "applied" ELSE "idle",
                        !.applied = j.applied + 1]]
            BY <1>11, <3>2 DEF Serve
        <3>3. CASE jules' = [jules EXCEPT ![c] = [j EXCEPT
                        !.wire = IF j.wire = "sent" THEN "rejected" ELSE "idle"]]
            <4>1. [j EXCEPT !.wire = IF j.wire = "sent" THEN "rejected" ELSE "idle"]
                    = [j EXCEPT !.wire = IF j.wire = "sent" THEN "rejected" ELSE "idle",
                                !.applied = j.applied]
                BY DEF JulesRecord
            <4> QED  BY <1>11, <3>3, <4>1 DEF Serve
        <3> QED  BY <1>1, <1>11, <3>2, <3>3 DEF Serve
    <2>2. PICK how \in {"applied", "rejected"}, wire \in {"applied", "rejected", "idle"},
               applied \in Nat :
              /\ jules' = [jules EXCEPT ![c] = [j EXCEPT !.wire = wire, !.applied = applied]]
              /\ wire = IF j.wire = "sent" THEN how ELSE "idle"
              /\ applied = IF how = "applied" THEN j.applied + 1 ELSE j.applied
        <3>1. j.applied \in Nat /\ j.applied + 1 \in Nat
            BY DEF JulesRecord
        <3> QED  BY <2>1, <3>1
    <2> DEFINE k == [j EXCEPT !.wire = wire, !.applied = applied]
    <2>3. /\ k \in JulesRecord /\ k.action = j.action /\ k.step = j.step /\ k.told = j.told
          /\ k.wire = wire /\ k.applied = applied
        BY DEF JulesRecord
    <2>4. jules' = [jules EXCEPT ![c] = k]
        BY <2>2
    <2> HIDE DEF k
    <2>5. Current(k) = Current(j)
        BY <2>3 DEF Current
    <2>6. j.action # None
        BY <1>1, <2>1 DEF JulesOK, NoAction
    <2>7. CASE Working(r)
        <3>1. /\ j.action \in Actions /\ j.told = None /\ ProgressFits(j)
              /\ j.step \in DOMAIN RequestsOf(j.action)
            BY <1>1, <2>6, <2>7 DEF JulesOK, JulesRecord
        <3>2. ProgressFits(k)
            BY <2>1, <2>2, <2>3, <2>5, <3>1 DEF ProgressFits
        <3> QED  BY <1>2, <1>4, <2>1, <2>3, <2>4, <2>7, <3>1, <3>2
    <2>8. CASE Left(r)
        <3>1. OverFits(j) /\ j.wire = "abandoned" /\ j.applied = 0 /\ j.told \in {None, "unknown"}
            BY <1>1, <2>1, <2>6, <2>8 DEF JulesOK, OverFits
        <3>2. OverFits(k)
            BY <2>2, <2>3, <3>1, JulesAssumption DEF OverFits
        <3>3. JulesOK(r, k)
            BY <1>1, <2>3, <2>6, <2>8, <3>2 DEF JulesOK, Left
        <3> QED  BY <1>2, <2>1, <2>4, <3>3
    <2>9. ~Asking(r)
        BY <1>1, <2>1, <2>6 DEF JulesOK
    <2>10. Working(r) \/ Left(r)
        BY <1>1, <2>6, <2>9 DEF JulesOK, Left
    <2> QED  BY <2>7, <2>8, <2>10
<1> QED
    BY <1>6, <1>7, <1>8, <1>9, <1>10, <1>11 DEF JulesStep

----------------------------------------------------------------------------
(* The server.                                                             *)

Results == {"ok", "raised", "timeout", "cancelled"}

ServerTypeOK ==
    /\ phase \in {"starting", "serving", "draining", "closing", "exited"}
    /\ primary \in {None, "error", "cancelled"}
    /\ interrupted \in BOOLEAN
    /\ closures \in Seq([provider : Providers, result : Results])

\* Providers are closed when nobody uses them, each that was allocated and each once.
ClosuresFit ==
    /\ closures # << >> => phase \in {"closing", "exited"}
    /\ phase \in {"closing", "exited"} => InFlight = {}
    /\ \A i, k \in DOMAIN closures : closures[i].provider = closures[k].provider => i = k

\* firstError is the first failure.
FailureFits ==
    \/ firstError = None /\ \A i \in DOMAIN closures : closures[i].result = "ok"
    \/ \E i \in DOMAIN closures :
           /\ firstError = closures[i].result /\ firstError # "ok"
           /\ \A k \in 1..(i - 1) : closures[k].result = "ok"

ExitFits ==
    phase = "exited" =>
        /\ Attempted = Allocated
        /\ exit = IF interrupted THEN "cancelled"
                  ELSE IF primary # None THEN primary
                  ELSE IF firstError # None THEN firstError ELSE "clean"

ShutdownOK == ServerTypeOK /\ ClosuresFit /\ FailureFits /\ ExitFits

IInv == CallsOK /\ JulesAlwaysOK /\ ShutdownOK

-----------------------------------------------------------------------------

\* An attempt to close a provider has one of the four results.
LEMMA ResultsAreKnown ==
    ASSUME NEW s \in Seq([provider : Providers, result : Results]), NEW i \in DOMAIN s
    PROVE  s[i].result \in Results
<1> DEFINE S == [provider : Providers, result : Results]
<1>1. s \in Seq(S)
    OBVIOUS
<1> HIDE DEF S
<1>2. s[i] \in S
    BY <1>1
<1> QED  BY <1>2 DEF S

LEMMA InitEstablishes == Init => IInv
<1> SUFFICES ASSUME Init PROVE IInv
    OBVIOUS
<1>1. CallsOK
    BY CallsBegin DEF Init
<1>2. JulesAlwaysOK
    <2>1. NoAction \in JulesRecord
        BY DEF NoAction, JulesRecord
    <2>2. \A c \in Calls : call[c].stage # "jules_request"
        BY DEF Init, CallInit, New
    <2>3. NoAction.action = None
        BY DEF NoAction
    <2>4. jules = [c \in Calls |-> NoAction]
        BY DEF Init, JulesInit
    <2> QED  BY <2>1, <2>2, <2>3, <2>4 DEF JulesAlwaysOK, JulesOK
<1>3. ShutdownOK
    <2>1. phase = "starting" /\ primary = None /\ interrupted = FALSE /\ closures = << >>
          /\ firstError = None
        BY DEF Init
    <2>2. << >> \in Seq([provider : Providers, result : Results]) /\ DOMAIN << >> = {}
        OBVIOUS
    <2>3. ServerTypeOK
        BY <2>1, <2>2 DEF ServerTypeOK
    <2>4. ClosuresFit
        BY <2>1, <2>2 DEF ClosuresFit
    <2>5. FailureFits
        BY <2>1, <2>2 DEF FailureFits
    <2>6. ExitFits
        BY <2>1 DEF ExitFits
    <2> QED  BY <2>3, <2>4, <2>5, <2>6 DEF ShutdownOK
<1> QED  BY <1>1, <1>2, <1>3 DEF IInv

-----------------------------------------------------------------------------
(* The steps of calls. *)

\* A call that is not in flight does not come back.
LEMMA OutOfFlightStays ==
    ASSUME IInv, NEW c \in Calls, CallStep(c)
    PROVE  ShutdownOK'
<1>1. UNCHANGED serverVars
    BY DEF CallStep
<1>2. ASSUME phase \in {"closing", "exited"}, NEW d \in Calls
      PROVE  call'[d].pc = call[d].pc
    <2>1. call[d].pc \in {"new", "ended"} /\ call[c].pc \in {"new", "ended"}
        BY <1>2 DEF IInv, ShutdownOK, ClosuresFit, InFlight
    <2>2. call \in [Calls -> Record]
        BY DEF IInv, CallsOK
    <2>3. CASE BeatWakes(c) \/ BeatSteps(c) \/ CancelBeat(c) \/ Cancel(c)
        BY <2>3, BeatStepKeeps DEF IInv, OnlyOf, SameCourse
    <2>4. CASE JulesStep(c)
        <3>1. UNCHANGED call
            BY <2>1, <2>4 DEF JulesStep, EnterJules, Ask, Understands, NotAwaitingApproval,
                              Fails, AtWork, Serve
        <3> QED  BY <3>1
    <2>5. phase # "serving"
        BY <1>2
    <2>6. ~(Refuse(c) \/ Enter(c))
        BY <2>1 DEF Refuse, Enter
    <2>7. ~(Send(c) \/ Sent(c) \/ SendFails(c) \/ Joined(c) \/ Examine(c) \/ Deliver(c))
        BY <2>1 DEF Send, Sent, SendFails, Joined, Examine, Deliver
    <2>8. ~Work(c)
        BY <2>1 DEF Work, ProviderAnswers, AttemptFails
    <2> QED
        BY <2>3, <2>4, <2>5, <2>6, <2>7, <2>8 DEF CallStep, Proceed, Beat, TaskSteps
<1> QED
    BY <1>1, <1>2 DEF IInv, ShutdownOK, ServerTypeOK, ClosuresFit, FailureFits, ExitFits,
                      InFlight, Attempted, Allocated, serverVars

LEMMA CallStepKeeps ==
    ASSUME IInv, NEW c \in Calls, CallStep(c)
    PROVE  IInv'
<1>1. CallsOK /\ JulesAlwaysOK
    BY DEF IInv
<1>2. CallsOK' /\ JulesAlwaysOK'
    <2>1. CASE JulesStep(c)
        BY <1>1, <2>1, JulesStepKeeps
    <2>2. CASE (BeatWakes(c) \/ BeatSteps(c) \/ CancelBeat(c) \/ Cancel(c)) /\ JulesFollows(c)
        BY <1>1, <2>2, BeatStepKeeps, JulesFollowsKeeps
    <2>3. CASE TaskMoves(c) /\ JulesFollows(c)
        BY <1>1, <2>3, TaskMovesKeep, TaskMovesLand, JulesFollowsKeeps
    <2>4. Work(c) => TaskMoves(c)
        <3>1. \A error \in Errors, gemini \in BOOLEAN : Judged(error, gemini) \in {"retryable", "permanent"}
            BY DEF Judged
        <3>2. {"content", "empty", "blocked"} \subseteq Replies \ {None}
            BY RequestAssumption DEF Replies
        <3> QED  BY <3>1, <3>2 DEF Work, TaskMoves
    <2>5. Proceed(c) \/ Arrive(c) => TaskMoves(c) \/ CancelBeat(c)
        BY DEF Proceed, TaskSteps, TaskMoves
    <2> QED
        BY <2>1, <2>2, <2>3, <2>4, <2>5 DEF CallStep, Beat
<1> QED
    BY <1>2, OutOfFlightStays DEF IInv

-----------------------------------------------------------------------------
(* The steps of the server. *)

\* Everybody in flight is cancelled, and nobody moves.
LEMMA CancellingAllKeeps ==
    ASSUME CallsOK, JulesAlwaysOK, call' = AllCancelled, UNCHANGED jules
    PROVE  CallsOK' /\ JulesAlwaysOK'
<1>1. call' \in [Calls -> Record]
    <2> SUFFICES ASSUME NEW c \in Calls
                 PROVE  (IF c \in InFlight THEN [call[c] EXCEPT !.cancelled = TRUE] ELSE call[c])
                            \in Record
        BY DEF AllCancelled
    <2> PICK r \in Record : r = call[c]
        BY DEF CallsOK
    <2>1. [r EXCEPT !.cancelled = TRUE] \in Record
        BY DEF Record
    <2> QED  BY <2>1
<1>2. ASSUME NEW c \in Calls
      PROVE  /\ SameCourse(call'[c], call[c]) /\ call'[c].beat = call[c].beat
    <2>1. call[c] \in Record
        BY DEF CallsOK
    <2>2. call'[c] \in {call[c], [call[c] EXCEPT !.cancelled = TRUE]}
        BY DEF AllCancelled
    <2> QED  BY <2>1, <2>2 DEF SameCourse, Record
<1>3. ASSUME NEW c \in Calls PROVE CallOK(call'[c])
    <2>1. CallOK(call[c]) /\ call'[c] \in Record
        BY <1>1 DEF CallsOK
    <2> QED  BY <1>2, <2>1, MarksKeep DEF CallOK, BeatFits
<1>4. ASSUME NEW c \in Calls PROVE JulesOK(call'[c], jules[c])
    <2>1. /\ Asking(call'[c]) <=> Asking(call[c])
          /\ Working(call'[c]) <=> Working(call[c])
          /\ Left(call'[c]) <=> Left(call[c])
          /\ Cut(call'[c]) <=> Cut(call[c])
          /\ call'[c].stage = call[c].stage
        BY <1>2 DEF SameCourse, Asking, Working, Left, Cut
    <2>2. JulesOK(call[c], jules[c])
        BY DEF JulesAlwaysOK
    <2> QED  BY <2>1, <2>2 DEF JulesOK
<1> QED  BY <1>1, <1>3, <1>4 DEF CallsOK, JulesAlwaysOK

LEMMA NextPreserves == IInv /\ [Next]_vars => IInv'
<1> SUFFICES ASSUME IInv, [Next]_vars PROVE IInv'
    OBVIOUS
<1> USE DEF IInv
<1>0. CallsOK /\ JulesAlwaysOK /\ ServerTypeOK /\ ClosuresFit /\ FailureFits /\ ExitFits
    BY DEF ShutdownOK
\* Most steps leave the calls alone.
<1>1. UNCHANGED <<call, jules>> => CallsOK' /\ JulesAlwaysOK' /\ InFlight' = InFlight
    BY DEF CallsOK, JulesAlwaysOK, InFlight
<1>2. ASSUME NEW p \in Providers,
             ConfigureProvider(p) \/ SkipProvider(p) \/ ConfigurationFails(p)
      PROVE  IInv'
    <2>1. /\ phase = "starting" /\ phase' \in {"starting", "draining"}
          /\ primary' \in {primary, "error"}
          /\ UNCHANGED <<call, jules, interrupted, closures, firstError, exit>>
        BY <1>2 DEF ConfigureProvider, SkipProvider, ConfigurationFails
    <2> QED
        BY <1>0, <1>1, <2>1 DEF ShutdownOK, ServerTypeOK, ClosuresFit, FailureFits, ExitFits
<1>3. CASE StartServing
    BY <1>0, <1>1, <1>3 DEF StartServing, ShutdownOK, ServerTypeOK, ClosuresFit, FailureFits,
                            ExitFits
<1>4. ASSUME NEW c \in Calls, CallStep(c) PROVE IInv'
    BY <1>4, CallStepKeeps
<1>5. CASE StdinCloses
    <2>1. CallsOK' /\ JulesAlwaysOK'
        BY <1>0, <1>1, <1>5, CancellingAllKeeps DEF StdinCloses
    <2> QED
        BY <1>0, <1>5, <2>1 DEF StdinCloses, ShutdownOK, ServerTypeOK, ClosuresFit, FailureFits,
                                ExitFits
<1>6. ASSUME NEW how \in {"error", "cancelled"}, ServeAborts(how) PROVE IInv'
    <2>1. CallsOK' /\ JulesAlwaysOK'
        BY <1>0, <1>6, CancellingAllKeeps DEF ServeAborts
    <2> QED
        BY <1>0, <1>6, <2>1 DEF ServeAborts, ShutdownOK, ServerTypeOK, ClosuresFit, FailureFits,
                                ExitFits
<1>7. CASE BeginCleanup
    BY <1>0, <1>1, <1>7 DEF BeginCleanup, ShutdownOK, ServerTypeOK, ClosuresFit, FailureFits,
                            ExitFits
<1>8. CASE InterruptCleanup
    BY <1>0, <1>1, <1>8 DEF InterruptCleanup, ShutdownOK, ServerTypeOK, ClosuresFit,
                            FailureFits, ExitFits
<1>9. CASE Exit
    <2>1. phase = "closing" /\ phase' = "exited" /\ Attempted = Allocated
          /\ UNCHANGED <<call, jules, configured, primary, interrupted, closures, firstError>>
        BY <1>9 DEF Exit
    <2>2. Attempted' = Allocated'
        BY <2>1 DEF Attempted, Allocated
    <2>3. ExitFits'
        BY <1>9, <2>1, <2>2 DEF Exit, ExitFits
    <2> QED  BY <1>0, <1>1, <2>1, <2>3 DEF ShutdownOK, ServerTypeOK, ClosuresFit, FailureFits
<1>10. ASSUME NEW p \in Providers, Closes(p) PROVE IInv'
    <2>1. PICK result \in Results :
              /\ phase = "closing" /\ p \notin Attempted
              /\ closures' = Append(closures, [provider |-> p, result |-> result])
              /\ firstError' = IF firstError = None /\ result # "ok" THEN result ELSE firstError
              /\ UNCHANGED <<call, jules, phase, configured, primary, interrupted, exit>>
        BY <1>10 DEF Closes, CloseProvider, Results
    <2> DEFINE n == Len(closures) + 1
    <2>2. /\ closures' \in Seq([provider : Providers, result : Results])
          /\ Len(closures') = n /\ DOMAIN closures' = DOMAIN closures \cup {n}
          /\ closures'[n] = [provider |-> p, result |-> result]
          /\ \A i \in DOMAIN closures : closures'[i] = closures[i] /\ i < n /\ i \in Nat
          /\ DOMAIN closures = 1..(n - 1) /\ n \in Nat
        BY <1>0, <2>1 DEF ServerTypeOK
    <2> HIDE DEF n
    <2>3. \A i \in DOMAIN closures : closures[i].provider # p
        BY <2>1 DEF Attempted
    <2>4. ClosuresFit'
        <3>1. \A i, k \in DOMAIN closures' :
                  closures'[i].provider = closures'[k].provider => i = k
            BY <1>0, <2>2, <2>3 DEF ClosuresFit
        <3> QED  BY <1>0, <1>1, <2>1, <3>1 DEF ClosuresFit
    <2>5. FailureFits'
        <3>1. CASE firstError = None /\ \A i \in DOMAIN closures : closures[i].result = "ok"
            <4>1. CASE result = "ok"
                <5>1. \A i \in DOMAIN closures' : closures'[i].result = "ok"
                    BY <2>2, <3>1, <4>1
                <5>2. firstError' = None
                    BY <2>1, <3>1, <4>1
                <5> QED  BY <5>1, <5>2 DEF FailureFits
            <4>2. CASE result # "ok"
                <5>1. firstError' = closures'[n].result /\ firstError' # "ok" /\ n \in DOMAIN closures'
                    BY <2>1, <2>2, <3>1, <4>2
                <5>2. \A k \in 1..(n - 1) : closures'[k].result = "ok"
                    BY <2>2, <3>1
                <5> QED  BY <5>1, <5>2 DEF FailureFits
            <4> QED  BY <4>1, <4>2
        <3>2. CASE \E i \in DOMAIN closures :
                      /\ firstError = closures[i].result /\ firstError # "ok"
                      /\ \A k \in 1..(i - 1) : closures[k].result = "ok"
            <4>1. PICK i \in DOMAIN closures :
                      /\ firstError = closures[i].result /\ firstError # "ok"
                      /\ \A k \in 1..(i - 1) : closures[k].result = "ok"
                BY <3>2
            <4>2. closures[i].result \in Results
                BY <1>0, ResultsAreKnown DEF ServerTypeOK
            <4>3. firstError' = firstError
                BY <2>1, <4>1, <4>2, ServerAssumption, RequestAssumption DEF Results
            <4>4. i \in DOMAIN closures' /\ closures'[i] = closures[i]
                BY <2>2
            <4>5. \A k \in 1..(i - 1) : k \in DOMAIN closures /\ closures'[k] = closures[k]
                BY <2>2
            <4> QED  BY <4>1, <4>3, <4>4, <4>5 DEF FailureFits
        <3> QED  BY <1>0, <3>1, <3>2 DEF FailureFits
    <2> QED  BY <1>0, <1>1, <2>1, <2>2, <2>4, <2>5 DEF ShutdownOK, ServerTypeOK, ExitFits
<1>11. CASE UNCHANGED vars
    BY <1>0, <1>1, <1>11
       DEF vars, serverVars, ShutdownOK, ServerTypeOK, ClosuresFit, FailureFits, ExitFits,
           Attempted, Allocated
<1> QED
    BY <1>2, <1>3, <1>4, <1>5, <1>6, <1>7, <1>8, <1>9, <1>10, <1>11 DEF Next

\* The inductive invariant holds in every reachable state.
THEOREM Invariance == Spec => []IInv
<1>1. IInv /\ [Next]_vars => IInv'
    BY NextPreserves
<1> QED  BY InitEstablishes, <1>1, PTL DEF Spec

-----------------------------------------------------------------------------

\* No heartbeat outlives its operation (utils/progress.py).
THEOREM BeatBelongsToOperationHolds == Spec => []BeatBelongsToOperation
<1>1. IInv => BeatBelongsToOperation
    BY DEF IInv, CallsOK, CallOK, BeatFits, BeatBelongsToOperation
<1> QED  BY Invariance, <1>1, PTL

\* What an ended call reports of its operations, attempts and cancellation is true.
THEOREM EndIsTrueHolds == Spec => []EndIsTrue
<1>1. IInv => EndIsTrue
    <2> SUFFICES ASSUME IInv, NEW c \in Calls, Ended(c)
                 PROVE  LET r == call[c] IN
        /\ \A i \in DOMAIN r.operations : r.operations[i].status # "running"
        /\ r.outcome = "answer" => /\ r.operations # << >>
                                   /\ Last(r.operations).status = "completed"
                                   /\ r.reply = "content"
        /\ r.caught \/ (\E i \in DOMAIN r.operations : r.operations[i].status = "cancelled")
               => r.outcome = "cancelled"
        /\ \A i \in DOMAIN r.errors : i < Len(r.errors) => r.errors[i] = "retryable"
        /\ r.operations # << >> /\ Last(r.operations).status = "failed"
               => Len(r.errors) = MaxAttempts \/ Last(r.errors) = "permanent"
        BY DEF EndIsTrue
    <2> PICK r : r = call[c]
        OBVIOUS
    <2>1. CallOK(r) /\ r.pc = "ended"
        BY DEF IInv, CallsOK, Ended
    <2>2. \A i \in DOMAIN r.operations :
              /\ r.operations[i].status # "running"
              /\ r.operations[i].status = "cancelled" => r.outcome = "cancelled"
        BY <2>1 DEF CallOK, OperationsFit, Busy, LastIs
    <2>3. r.outcome = "answer" => LastIs(r, "completed") /\ r.reply = "content"
        BY <2>1 DEF CallOK, AnswerFits
    <2>4. r.caught => r.outcome = "cancelled"
        BY <2>1 DEF CallOK, RaisedFits
    <2>5. /\ \A i \in DOMAIN r.errors : i < Len(r.errors) => r.errors[i] = "retryable"
          /\ LastIs(r, "failed") =>
                 Len(r.errors) = MaxAttempts \/ r.errors[Len(r.errors)] = "permanent"
        BY <2>1 DEF CallOK, ErrorsFit
    <2> QED  BY <2>2, <2>3, <2>4, <2>5 DEF LastIs, Last
<1> QED  BY Invariance, <1>1, PTL

\* What the client of tools/jules.py is told of a mutation is true and stays true.
THEOREM JulesIsHonestHolds == Spec => []JulesIsHonest
<1>1. IInv => JulesIsHonest
    <2> SUFFICES ASSUME IInv, NEW c \in Calls
                 PROVE  LET j == jules[c] IN
        /\ j.applied <= 1
        /\ j.told = "accepted" => j.applied = 1
        /\ j.told \in {"refused", "read"} => j.applied = 0 /\ j.wire = "idle"
        /\ Ended(c) /\ j.applied = 1 => j.told \in {"accepted", "unknown"} \/ call[c].outcome = "cancelled"
        BY DEF JulesIsHonest
    <2> PICK r, j : r = call[c] /\ j = jules[c]
        OBVIOUS
    <2>1. JulesOK(r, j) /\ CallOK(r) /\ j \in JulesRecord
        BY DEF IInv, CallsOK, JulesAlwaysOK
    <2>2. CASE j.action = None
        BY <2>1, <2>2, JulesAssumption DEF JulesOK, NoAction
    <2>3. CASE j.action # None /\ Asking(r)
        BY <2>1, <2>3, JulesAssumption DEF JulesOK, Asking, Ended
    <2>4. CASE j.action # None /\ Working(r)
        <3>1. j.told = None /\ ProgressFits(j) /\ Current(j) \in {"look", "post", "refresh", "read"}
            BY <2>1, <2>4, CurrentIsKnown DEF JulesOK, JulesRecord
        <3>2. j.applied \in {0, 1}
            BY <3>1 DEF ProgressFits
        <3> QED  BY <2>4, <3>1, <3>2, JulesAssumption DEF Working, Ended
    <2>5. CASE j.action # None /\ Left(r)
        <3>1. OverFits(j) /\ (j.told = None => Cut(r))
            BY <2>1, <2>5 DEF JulesOK
        <3>2. j.told \in {None, "accepted", "read", "unknown", "refused"}
            BY <2>1 DEF JulesRecord
        <3> QED  BY <3>1, <3>2 DEF OverFits, Cut, Ended
    <2> QED  BY <2>1, <2>2, <2>3, <2>4, <2>5 DEF JulesOK, Left
<1> QED  BY Invariance, <1>1, PTL

\* Shutdown closes every provider once, under no call, and exits as what happened demands
\* (server.py, main).
THEOREM ShutdownIsCompleteHolds == Spec => []ShutdownIsComplete
<1>1. IInv => ProvidersAreClosed
    <2> SUFFICES ASSUME IInv PROVE ProvidersAreClosed
        OBVIOUS
    <2>1. closures # << >> => InFlight = {}
        BY DEF IInv, ShutdownOK, ClosuresFit
    <2>2. ASSUME phase = "exited", NEW p \in Allocated
          PROVE  \E i \in DOMAIN closures :
                     /\ closures[i].provider = p
                     /\ \A k \in DOMAIN closures : closures[k].provider = p => i = k
        <3>1. p \in Attempted
            BY <2>2 DEF IInv, ShutdownOK, ExitFits
        <3> QED  BY <3>1 DEF IInv, ShutdownOK, ClosuresFit, Attempted
    <2> QED  BY <2>1, <2>2 DEF ProvidersAreClosed
<1>2. IInv => ExitIsHonest
    <2> SUFFICES ASSUME IInv, phase = "exited" PROVE ExitIsHonest
        BY DEF ExitIsHonest
    <2>1. exit = IF interrupted THEN "cancelled"
                 ELSE IF primary # None THEN primary
                 ELSE IF firstError # None THEN firstError ELSE "clean"
        BY DEF IInv, ShutdownOK, ExitFits
    <2>2. FailureFits /\ closures \in Seq([provider : Providers, result : Results])
        BY DEF IInv, ShutdownOK, ServerTypeOK
    <2>3. \A i \in DOMAIN closures : closures[i].result # None
        <3>1. None \notin Results
            BY ServerAssumption, RequestAssumption DEF Results
        <3> QED  BY <2>2, <3>1, ResultsAreKnown
    <2> QED  BY <2>1, <2>2, <2>3 DEF ExitIsHonest, FailureFits
<1> QED  BY Invariance, <1>1, <1>2, PTL DEF ShutdownIsComplete
=============================================================================
