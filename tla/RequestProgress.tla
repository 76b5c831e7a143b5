-------------------------- MODULE RequestProgress --------------------------
(***************************************************************************)
(* One tool call from its arrival to its answer: utils/progress.py with    *)
(* the operations of tools/simple/base.py and the retries of               *)
(* providers/base.py inside it.  The operation of tools/jules.py runs in   *)
(* the same frame: module JulesExchange.                                   *)
(*                                                                         *)
(* Three tasks act for a call: the request's own task (pc), the heartbeat  *)
(* of the running operation (beat), and the task that stops it (stop).     *)
(* A call waits for its conversation before its first operation; that wait *)
(* is the subject of module ConversationCoordination and left out here.    *)
(*                                                                         *)
(* A cancellation comes from MCP's cancel scope and is thrown again at     *)
(* every await until the task has left.  The heartbeat is no member of the *)
(* scope: _stop_heartbeat cancels it, once.                                *)
(***************************************************************************)
EXTENDS Naturals, Sequences, SequencesExt

CONSTANTS Calls,
          None,
          MaxAttempts,         \* attempts of a provider request
          LosesCancellation    \* may asyncio.wait_for drop a cancellation?

ASSUME RequestAssumption ==
    /\ None \notin Calls
    /\ None \notin {"content", "empty", "blocked", "error", "answer", "failed", "cancelled"}
    /\ MaxAttempts \in Nat \ {0}
    \* Python 3.10 and 3.11 return the result of a coroutine that completes as
    \* its wait_for is cancelled; 3.12 raises the cancellation.
    /\ LosesCancellation \in BOOLEAN

VARIABLE call    \* the state of each call, a record as below

ProviderOperations == {"provider", "provider_retry"}
Operations == ProviderOperations \cup {"jules_request"}

Completed == [o \in Operations |->
    CASE o = "provider" -> "provider_completed"
      [] o = "provider_retry" -> "provider_retry_completed"
      [] o = "jules_request" -> "jules_request_completed"]

New(token) ==
    [token |-> token,          \* did the client supply a progressToken?
     pc |-> "new",
     stage |-> "started",      \* what the task reports, or works on
     operations |-> << >>,     \* [stage, status] of each operation
     warned |-> FALSE,         \* has a notification failed?
     beat |-> "none",          \* the heartbeat of the last operation
     stop |-> "none",          \* the task that stops it
     attempt |-> 0,            \* the running attempt at the provider
     errors |-> << >>,         \* the operation's failed attempts (history)
     reply |-> None,           \* what the provider returned
     raised |-> None,          \* what the operation raises
     caught |-> FALSE,         \* was a cancellation caught while joining the heartbeat?
     cancelled |-> FALSE,      \* has the client, or the server, cancelled the call?
     outcome |-> None]

CallInit == call \in [Calls -> {New(token) : token \in BOOLEAN}]

Enabled(r) == r.token /\ ~r.warned

\* The reporter's asyncio lock is held exactly while a notification is sent.
ReporterIsFree(c) == call[c].pc # "sending" /\ call[c].beat # "sending"

\* Statuses of operations, and the last one changed.
Begun(r, o) == [r EXCEPT !.operations = Append(@, [stage |-> o, status |-> "running"])]
Marked(r, status) == [r EXCEPT !.operations[Len(r.operations)].status = status]

End(r, outcome) == [r EXCEPT !.pc = "ended", !.outcome = outcome]

-----------------------------------------------------------------------------
(* report, and what follows its return. *)

\* A heartbeat is only created if notifications are enabled after the first.
AfterReport(r) ==
    CASE r.stage = "started" -> [r EXCEPT !.pc = "called"]
      [] r.stage \in Operations ->
            [r EXCEPT !.pc = "working", !.attempt = 1, !.errors = << >>,
                      !.beat = IF Enabled(r) THEN "sleeping" ELSE "none",
                      !.stop = "none"]
      [] r.stage \in {Completed[o] : o \in Operations} -> [r EXCEPT !.pc = "replied"]
      [] r.stage = "completed" -> End(r, "answer")
      [] r.stage = "failed" -> End(r, "failed")

Report(r, stage) ==
    LET s == [r EXCEPT !.stage = stage] IN
    IF Enabled(r) THEN [s EXCEPT !.pc = "reporting"] ELSE AfterReport(s)

\* Enabled is looked at again once the lock is held.
Send(c) ==
    /\ call[c].pc = "reporting" /\ ReporterIsFree(c)
    /\ call' = [call EXCEPT ![c] = IF Enabled(@) THEN [@ EXCEPT !.pc = "sending"]
                                                 ELSE AfterReport(@)]

Sent(c) ==
    /\ call[c].pc = "sending"
    /\ call' = [call EXCEPT ![c] = AfterReport(@)]

\* The transport raises, or one second passes.
SendFails(c) ==
    /\ call[c].pc = "sending"
    /\ call' = [call EXCEPT ![c] = AfterReport([@ EXCEPT !.warned = TRUE])]

-----------------------------------------------------------------------------
(* The heartbeat. *)

BeatWakes(c) ==
    /\ call[c].beat = "sleeping" /\ call[c].stop # "asked" /\ ReporterIsFree(c)
    /\ call' = [call EXCEPT ![c].beat = IF Enabled(call[c]) THEN "sending" ELSE "finished"]

BeatSent(c) ==
    /\ call[c].beat = "sending" /\ call[c].stop # "asked"
    /\ call' = [call EXCEPT ![c].beat = "sleeping"]

BeatSendFails(c) ==
    /\ call[c].beat = "sending" /\ call[c].stop # "asked"
    /\ call' = [call EXCEPT ![c].beat = "finished", ![c].warned = TRUE]

BeatCancelled(c) ==
    /\ call[c].beat \in {"sleeping", "sending"} /\ call[c].stop = "asked"
    /\ call' = [call EXCEPT ![c].beat = "finished"]

\* The notification completes in the loop iteration of task.cancel: its result is
\* returned, the cancellation is not raised, and the loop goes on.
BeatKeepsResult(c) ==
    /\ LosesCancellation
    /\ call[c].beat = "sending" /\ call[c].stop = "asked"
    /\ call' = [call EXCEPT ![c].beat = "sleeping", ![c].stop = "lost"]

-----------------------------------------------------------------------------
(* The end of an operation: the heartbeat is stopped and joined. *)

\* A cancellation caught while joining is forgotten.
AfterJoinForgetting(r) ==
    IF r.raised = "cancelled" THEN End(r, "cancelled")
    ELSE IF r.raised = "error" THEN Report(r, "failed")
    ELSE Report(r, Completed[r.stage])

\* A cancellation caught while joining is raised now; one raised by the operation goes
\* on; an error is turned into the tool's error (the retry's own is caught by the tool).
AfterJoin(r) ==
    IF r.caught \/ r.raised = "cancelled" THEN End(r, "cancelled")
    ELSE IF r.raised = "error" THEN Report(r, "failed")
    ELSE Report(r, Completed[r.stage])

\* The heartbeat is stopped without being joined, or joined without being stopped.
LeaveUnjoined(r) == AfterJoin([r EXCEPT !.stop = IF r.beat = "none" THEN "none" ELSE "created"])
LeaveUnstopped(r) == IF r.beat = "none" THEN AfterJoin(r) ELSE [r EXCEPT !.pc = "joining"]

Leave(r) == IF r.beat = "none" THEN AfterJoin(r)
            ELSE [r EXCEPT !.pc = "joining", !.stop = "created"]

\* The new task runs task.cancel(); a finished heartbeat ignores it.
CancelBeat(c) ==
    /\ call[c].stop = "created"
    /\ call' = [call EXCEPT ![c].stop = "asked"]

Joined(c) ==
    /\ call[c].pc = "joining" /\ call[c].stop # "created" /\ call[c].beat = "finished"
    /\ call' = [call EXCEPT ![c] = AfterJoin(@)]

-----------------------------------------------------------------------------
(* The call. *)

Arrive(c) ==
    /\ call[c].pc = "new"
    /\ call' = [call EXCEPT ![c] = Report(@, "started")]

\* The tool needs a provider and none is configured; or admission, the model or the
\* request is refused before an operation begins.
Refuse(c) ==
    /\ call[c].pc = "called"
    /\ call' = [call EXCEPT ![c] = Report(@, "failed")]

Enter(c) ==
    /\ call[c].pc = "called"
    /\ call' = [call EXCEPT ![c] = Report(Begun(@, "provider"), "provider")]

\* The provider answers with content, with nothing (finish reason STOP), or was blocked.
ProviderAnswers(c, reply) ==
    /\ call[c].pc = "working" /\ call[c].stage \in ProviderOperations
    /\ call' = [call EXCEPT ![c] = Leave(Marked([@ EXCEPT !.reply = reply], "completed"))]

\* What _is_error_retryable finds in an error: a timeout, a broken connection or a 5xx; a
\* 429 for the rate; one for the quota, which Gemini never retries; a request that is too
\* large for its limits; any other refusal.
Errors == {"transient", "rate", "quota", "too large", "refused"}
RetryableCompatible == {"transient", "rate", "quota"}
RetryableGemini == {"transient", "rate"}

Judged(error, gemini) ==
    IF error \in (IF gemini THEN RetryableGemini ELSE RetryableCompatible)
    THEN "retryable" ELSE "permanent"

GivesUp(r, error) == error = "permanent" \/ r.attempt >= MaxAttempts

\* _run_with_retries_async; the delay is part of the next attempt.
AttemptFails(c, error) ==
    /\ call[c].pc = "working" /\ call[c].stage \in ProviderOperations
    /\ LET r == [call[c] EXCEPT !.errors = Append(@, error)] IN
       call' = [call EXCEPT ![c] =
           IF GivesUp(r, error) THEN Leave(Marked([r EXCEPT !.raised = "error"], "failed"))
           ELSE [r EXCEPT !.attempt = @ + 1]]

\* An empty answer is asked for once more, in an operation of its own.
Examine(c) ==
    /\ call[c].pc = "replied"
    /\ call' = [call EXCEPT ![c] =
          IF @.reply = "content" THEN Report(@, "completed")
          ELSE IF @.reply = "empty" /\ @.stage = "provider_completed"
               THEN Report(Begun(@, "provider_retry"), "provider_retry")
          ELSE Report(@, "failed")]

-----------------------------------------------------------------------------
(* Cancellation. *)

Cancel(c) ==
    /\ call[c].pc \notin {"new", "ended"} /\ ~call[c].cancelled
    /\ call' = [call EXCEPT ![c].cancelled = TRUE]

\* It is thrown where the task waits.  While joining it is only remembered.
Deliver(c) ==
    /\ call[c].cancelled
    /\ \/ call[c].pc \in {"sending", "working"}
       \/ call[c].pc = "reporting" /\ ~ReporterIsFree(c)
       \/ call[c].pc = "joining" /\ ~call[c].caught
    /\ call' = [call EXCEPT ![c] =
          CASE @.pc = "joining" -> [@ EXCEPT !.caught = TRUE]
            [] @.pc = "working" -> Leave(Marked([@ EXCEPT !.raised = "cancelled"], "cancelled"))
            [] @.pc \in {"sending", "reporting"} /\ @.stage \in Operations ->
                    End(Marked(@, "cancelled"), "cancelled")
            [] OTHER -> End(@, "cancelled")]

-----------------------------------------------------------------------------
(* Properties. *)

Ended(c) == call[c].pc = "ended"

\* The tasks of a call: what the event loop will run without anybody else's help.
\* An answer of the provider is not among them.
TaskSteps(c) ==
    \/ Send(c) \/ Sent(c) \/ SendFails(c)
    \/ CancelBeat(c) \/ Joined(c) \/ Examine(c) \/ Deliver(c)

BeatSteps(c) == BeatSent(c) \/ BeatSendFails(c) \/ BeatCancelled(c) \/ BeatKeepsResult(c)

\* A heartbeat lives only within its operation, as the docs' "owned" says: whatever is
\* cancelled while it is being stopped, no notification of it follows the operation's end.
BeatBelongsToOperation ==
    \A c \in Calls : call[c].beat \in {"sleeping", "sending"}
                         => call[c].pc \in {"working", "joining"}

\* What metadata.execution says of an ended call fits its outcome: no operation is left
\* running, an answer rests on a completed last operation, and a cancellation thrown
\* into an operation or caught while joining is the outcome.  A failed operation has used
\* all its attempts unless the provider called the error permanent, and only retryable
\* errors were followed by another attempt.
EndIsTrue ==
    \A c \in Calls : Ended(c) =>
        LET r == call[c] IN
        /\ \A i \in DOMAIN r.operations : r.operations[i].status # "running"
        /\ r.outcome = "answer" => /\ r.operations # << >>
                                   /\ Last(r.operations).status = "completed"
                                   /\ r.reply = "content"
        /\ r.caught \/ (\E i \in DOMAIN r.operations : r.operations[i].status = "cancelled")
               => r.outcome = "cancelled"
        /\ \A i \in DOMAIN r.errors : i < Len(r.errors) => r.errors[i] = "retryable"
        /\ r.operations # << >> /\ Last(r.operations).status = "failed"
               => Len(r.errors) = MaxAttempts \/ Last(r.errors) = "permanent"

\* docs/progress.md:18: a cancellation propagates after the heartbeat is cancelled and
\* joined; a cancelled call ends although the provider never answers.
CancellationPropagates == \A c \in Calls : call[c].cancelled ~> Ended(c)
=============================================================================
