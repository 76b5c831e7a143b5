--------------------------- MODULE JulesExchange ---------------------------
(***************************************************************************)
(* tools/jules.py: one action of the remote Jules service as the operation *)
(* of a tool call.                                                         *)
(*                                                                         *)
(* An action is one to three HTTP requests, each with a deadline.  The     *)
(* service is external: it may answer wrongly, late or never, and carry    *)
(* out a request whose client has given it up or was cancelled.            *)
(***************************************************************************)
EXTENDS RequestProgress

VARIABLE jules    \* of each call: the action, its current request and what became of it

\* unarchive goes the way of archive.
Actions == {"list_sources", "status", "create", "message", "approve", "archive"}

\* _dispatch and _steer: "post" is the mutation; approve looks at the session first, and
\* where the mutation does not return a session it is read afterwards.
RequestsOf(action) ==
    CASE action = "approve" -> <<"look", "post", "refresh">>
      [] action = "message" -> <<"post", "refresh">>
      [] action \in {"create", "archive"} -> <<"post">>
      [] action = "status" -> <<"read", "read">>
      [] action = "list_sources" -> <<"read">>

ASSUME JulesAssumption == None \notin Actions \cup {"accepted", "read", "unknown", "refused"}

NoAction ==
    [action |-> None, step |-> 0,
     wire |-> "idle",      \* the current request: idle, sent, applied, rejected or abandoned
     applied |-> 0,        \* how often the service carried the mutation out (history)
     told |-> None]        \* accepted, read, unknown or refused

JulesInit == jules = [c \in Calls |-> NoAction]

Current(j) == RequestsOf(j.action)[j.step]

AtWork(c) == call[c].pc = "working" /\ call[c].stage = "jules_request"

\* The deadline, a cancellation or an answer ends the wait; only what is on its way to
\* the service may still have an effect.
Abandoned(j) ==
    [j EXCEPT !.wire = IF @ = "sent" /\ Current(j) = "post" THEN "abandoned" ELSE "idle"]

-----------------------------------------------------------------------------
(* The tool. *)

\* execute, past its checks of the request and of the key.
EnterJules(c, action) ==
    /\ call[c].pc = "called"
    /\ call' = [call EXCEPT ![c] = Report(Begun(@, "jules_request"), "jules_request")]
    /\ jules' = [jules EXCEPT ![c].action = action, ![c].step = 1]

Ask(c) ==
    /\ AtWork(c) /\ jules[c].wire = "idle"
    /\ jules' = [jules EXCEPT ![c].wire = "sent"]
    /\ UNCHANGED call

Succeed(c, told) ==
    /\ call' = [call EXCEPT ![c] = Leave(Marked([@ EXCEPT !.reply = "content"], "completed"))]
    /\ jules' = [jules EXCEPT ![c] = [Abandoned(@) EXCEPT !.told = told]]

\* Nothing is retried.
FailAs(c, told) ==
    /\ call' = [call EXCEPT ![c] =
           Leave(Marked([@ EXCEPT !.raised = "error", !.errors = <<"permanent">>], "failed"))]
    /\ jules' = [jules EXCEPT ![c] = [Abandoned(@) EXCEPT !.told = told]]

\* A usable answer: the next request, or the end.
Understands(c) ==
    LET j == jules[c] IN
    /\ AtWork(c)
    /\ j.wire = IF Current(j) = "post" THEN "applied" ELSE "sent"
    /\ IF j.step < Len(RequestsOf(j.action))
       THEN /\ jules' = [jules EXCEPT ![c].step = @ + 1, ![c].wire = "idle"]
            /\ UNCHANGED call
       ELSE Succeed(c, IF Current(j) = "read" THEN "read" ELSE "accepted")

NotAwaitingApproval(c) ==
    /\ AtWork(c) /\ jules[c].wire = "sent" /\ Current(jules[c]) = "look"
    /\ FailAs(c, "refused")

\* What can go wrong: client errors are answers with a status below 500.
Failures == {"timeout", "transport", "client_error", "server_error", "malformed"}

\* Without deadlines only the service ends a wait.
CanFailOnAnswers(j, failure) ==
    CASE failure \in {"client_error", "server_error"} -> j.wire = "rejected"
      [] failure = "malformed" -> j.wire = "applied"
      [] OTHER -> FALSE

CanFail(j, failure) ==
    /\ j.wire # "idle"
    /\ \/ failure \in {"timeout", "transport"} \/ Current(j) # "post"
       \/ failure = "client_error" /\ j.wire = "rejected"
       \/ failure = "server_error" /\ j.wire \in {"applied", "rejected"}
       \/ failure = "malformed" /\ j.wire = "applied"

\* Only a request without an answer is in doubt.
UnknownUnanswered(request, failure) == request = "post" /\ failure \in {"timeout", "transport"}

\* _request and _session: a mutation whose outcome the answer does not settle.
OutcomeUnknown(request, failure) == request = "post" /\ failure # "client_error"

\* A failed refresh does not undo an accepted mutation.
Fails(c, failure) ==
    LET j == jules[c] IN
    /\ AtWork(c) /\ CanFail(j, failure)
    /\ IF Current(j) = "refresh" THEN Succeed(c, "accepted")
       ELSE FailAs(c, IF OutcomeUnknown(Current(j), failure) THEN "unknown" ELSE "refused")

-----------------------------------------------------------------------------
(* The service. *)

Serve(c) ==
    /\ jules[c].wire \in {"sent", "abandoned"} /\ Current(jules[c]) = "post"
    /\ LET answered(how) == IF jules[c].wire = "sent" THEN how ELSE "idle" IN
       \/ jules' = [jules EXCEPT ![c].wire = answered("applied"), ![c].applied = @ + 1]
       \/ jules' = [jules EXCEPT ![c].wire = answered("rejected")]
    /\ UNCHANGED call

JulesStep(c) ==
    \/ \E action \in Actions : EnterJules(c, action)
    \/ Ask(c) \/ Understands(c) \/ NotAwaitingApproval(c)
    \/ \E failure \in Failures : Fails(c, failure)
    \/ Serve(c)

\* What cuts a call short cuts its request.
JulesFollows(c) ==
    jules' = IF AtWork(c) /\ call'[c].pc # "working"
             THEN [jules EXCEPT ![c] = Abandoned(@)] ELSE jules

-----------------------------------------------------------------------------
(* Properties. *)

\* docs/tools/jules.md: an action is carried out at most once; what the client is told
\* was accepted was carried out, and an error that does not say the outcome is unknown
\* (outcome_unknown) means that the action never was and, whatever is still on its way,
\* never will be: a client that repeats only such actions never does one twice.
JulesIsHonest ==
    \A c \in Calls :
        LET j == jules[c] IN
        /\ j.applied <= 1
        /\ j.told = "accepted" => j.applied = 1
        /\ j.told \in {"refused", "read"} => j.applied = 0 /\ j.wire = "idle"
        /\ Ended(c) /\ j.applied = 1 => j.told \in {"accepted", "unknown"} \/ call[c].outcome = "cancelled"

\* Every call to Jules ends although the service never answers and nobody cancels it.
JulesCallsEnd == \A c \in Calls : jules[c].action # None ~> Ended(c)
=============================================================================
