----------------------- MODULE ConversationLifecycle -----------------------
(***************************************************************************)
(* What an invocation does to its conversation between the acquisition and *)
(* the release of the coordinator (ConversationCoordination):              *)
(*                                                                         *)
(*  - an API tool (utils/conversation_context.py, tools/simple/base.py,    *)
(*    tools/workflow/workflow_mixin.py) admits the request by saving its   *)
(*    input, awaits the provider, then saves the reply; a workflow tool    *)
(*    whose provider failed saves its state on the input instead;          *)
(*  - clink (clink/conversation.py) takes a snapshot, awaits the CLI, and  *)
(*    commits input and reply together if the snapshot is still current.   *)
(*                                                                         *)
(* A thread is the sequence of its turns.  A turn is named after the       *)
(* request that wrote it; `state' names the request whose failed workflow  *)
(* state it carries.  `memory' is what the storage lets a reader see (the  *)
(* `live' of ExpiringStore, which InMemoryStorage implements); when a      *)
(* thread expires is left open.                                            *)
(***************************************************************************)
EXTENDS ConversationCoordination

CONSTANTS Workflow,       \* the requests to workflow tools
          MaxTurns,       \* MAX_CONVERSATION_TURNS
          Existing,       \* threads that exist when the run starts
          Old,            \* the author of their turns
          TranscriptsEnabled,
          ListedThreads   \* do clients take ids from the pal://threads index?

ASSUME LifecycleAssumption ==
    /\ Workflow \subseteq Caller \ Clink
    /\ MaxTurns \in Nat
    /\ Existing \subseteq Thread
    /\ Old \notin Caller \cup {None}
    /\ TranscriptsEnabled \in BOOLEAN
    /\ ListedThreads \in BOOLEAN
    /\ ListedThreads => TranscriptsEnabled

VARIABLES memory,    \* per thread: its turns, or None when it does not exist
          audit,     \* per thread: the turn events of its transcript
          issued,    \* the thread ids that have been generated
          known,     \* the thread ids a client can have
          body,      \* per caller: where the body of its execute() is
          target,    \* per caller: the thread its invocation writes to
          free,      \* per API caller: the free slots it was admitted with
          snapshot,  \* per clink caller: the stored thread it loaded
          result     \* per caller: what it answers

lifecycleVars ==
    <<memory, audit, issued, known, body, target, free, snapshot, result>>
allVars == <<coordinationVars, lifecycleVars>>

Turns == [role : {"user", "assistant"}, by : Caller \cup {Old}, state : Caller \cup {None}]

Turn(role, c) == [role |-> role, by |-> c, state |-> None]

Answer(kind, remaining) == [kind |-> kind, remaining |-> remaining]

\* Threads of earlier requests: one whose first request failed, a complete
\* exchange, and an exchange followed by an unanswered input.
PastThreads ==
    {<<Turn("user", Old)>>,
     <<Turn("user", Old), Turn("assistant", Old)>>,
     <<Turn("user", Old), Turn("assistant", Old), Turn("user", Old)>>}

LifecycleInit ==
    /\ CoordinationInit
    /\ memory \in {m \in [Thread -> PastThreads \cup {None}] :
                      \A t \in Thread : m[t] # None <=> t \in Existing}
    /\ audit = [t \in Thread |-> << >>]
    /\ issued = Existing
    /\ known = Existing
    /\ body = [c \in Caller |-> "start"]
    /\ target = [c \in Caller |-> None]
    /\ free = [c \in Caller |-> 0]
    /\ snapshot = [c \in Caller |-> None]
    /\ result = [c \in Caller |-> None]

-----------------------------------------------------------------------------
(* Storage, transcript and identifiers. *)

\* _save_thread.
Save(t, turns) == memory' = [memory EXCEPT ![t] = turns]

\* Mutant: the swap does not compare.
ReplaceBlindly(t, expected, turns) == Save(t, turns)

\* compare_and_setex: it returns True, or False.
Replace(t, expected, turns) == memory[t] = expected /\ Save(t, turns)
Conflict(t, expected) == memory[t] # expected /\ UNCHANGED memory

\* Mutant: room for the input alone.
HasOneSlot(t) == MaxTurns - Len(memory[t]) >= 1

\* Room for an input and its reply, on a thread that exists.
HasRoom(t) == MaxTurns - Len(memory[t]) >= 2

Remaining(turns) == IF Len(turns) < MaxTurns THEN MaxTurns - Len(turns) ELSE 0

\* Of the turns first .. last those whose events reach the transcript, in order:
\* each append may fail, and a failure is only logged.
Excerpts(first, last) ==
    IF TranscriptsEnabled
    THEN {s \in SeqOf(first .. last, last - first + 1) :
             \A i, j \in DOMAIN s : i < j => s[i] < s[j]}
    ELSE {<< >>}

Event(turns, n) == [turn |-> n, by |-> turns[n].by, role |-> turns[n].role]

\* Mutant: the number is taken before the turn is appended.
RecordNumberedBefore(t, turns, first) ==
    \E s \in Excerpts(first, Len(turns)) :
        audit' = [audit EXCEPT ![t] =
                     @ \o [i \in DOMAIN s |-> [Event(turns, s[i]) EXCEPT !.turn = @ - 1]]]

\* record_event for turns first .. Len(turns).
Record(t, turns, first) ==
    \E s \in Excerpts(first, Len(turns)) :
        audit' = [audit EXCEPT ![t] = @ \o [i \in DOMAIN s |-> Event(turns, s[i])]]

\* uuid4: an id that nobody has seen.
FreshThread(t) == t \notin issued

\* Creating a thread makes its id visible only in the transcript index.
Create(t) ==
    /\ FreshThread(t)
    /\ issued' = issued \cup {t}
    /\ known' = IF ListedThreads THEN known \cup {t} ELSE known

\* The body of c ends with an answer.
End(c, answer) ==
    /\ body' = [body EXCEPT ![c] = "ended"]
    /\ result' = [result EXCEPT ![c] = answer]

Executing(c, stage) == pc[c] = "running" /\ body[c] = stage

-----------------------------------------------------------------------------
(* Requests to API tools: conversation_request and the tools it wraps. *)

\* Validation fails before anything is read or written.
Refuse(c) ==
    /\ Executing(c, "start")
    /\ End(c, Answer("refused", None))
    /\ UNCHANGED <<memory, audit, issued, known, target, free, snapshot>>

\* The thread is gone, or lacks the two slots for an input and a reply.
Unavailable(c) ==
    /\ Executing(c, "start")
    /\ thread[c] # None
    /\ memory[thread[c]] # None => ~HasRoom(thread[c])
    /\ End(c, Answer("refused", None))
    /\ UNCHANGED <<memory, audit, issued, known, target, free, snapshot>>

\* Admission on an existing thread: the input is saved before the provider is
\* asked.
Admit(c) ==
    LET t == thread[c] IN
    /\ Executing(c, "start")
    /\ c \notin Clink
    /\ t # None
    /\ memory[t] # None
    /\ HasRoom(t)
    /\ free' = [free EXCEPT ![c] = MaxTurns - Len(memory[t])]
    /\ LET turns == Append(memory[t], Turn("user", c))
       IN  Save(t, turns) /\ Record(t, turns, Len(turns))
    /\ target' = [target EXCEPT ![c] = t]
    /\ body' = [body EXCEPT ![c] = "asking"]
    /\ UNCHANGED <<issued, known, snapshot, result>>

\* Admission without continuation id: create_thread, then save the input.
AdmitNew(c, t) ==
    LET turns == <<Turn("user", c)>> IN
    /\ Executing(c, "start")
    /\ c \notin Clink
    /\ thread[c] = None
    /\ MaxTurns >= 2
    /\ Create(t)
    /\ Save(t, turns) /\ Record(t, turns, 1)
    /\ free' = [free EXCEPT ![c] = MaxTurns]
    /\ target' = [target EXCEPT ![c] = t]
    /\ body' = [body EXCEPT ![c] = "asking"]
    /\ UNCHANGED <<snapshot, result>>

\* The provider answered: the reply is saved and the continuation offered.
SaveReply(c) ==
    LET t == target[c]
        turns == Append(memory[t], Turn("assistant", c))
    IN  /\ Executing(c, "asking")
        /\ c \notin Clink
        /\ memory[t] # None
        /\ Len(memory[t]) < MaxTurns
        /\ Save(t, turns) /\ Record(t, turns, Len(turns))
        /\ known' = known \cup {t}
        /\ End(c, Answer("replied", Remaining(turns)))
        /\ UNCHANGED <<issued, target, free, snapshot>>

\* The provider answered but the reply cannot be saved: the answer carries a
\* warning and no continuation.
ReplyUnsaved(c) ==
    /\ Executing(c, "asking")
    /\ c \notin Clink
    /\ memory[target[c]] # None => Len(memory[target[c]]) >= MaxTurns
    /\ End(c, Answer("unsaved", None))
    /\ UNCHANGED <<memory, audit, issued, known, target, free, snapshot>>

\* Mutant: the input is not counted.
LeftAtAdmission(c) == free[c]

\* What an error says is left: admission's count, less the input.
LeftAfterInput(c) == free[c] - 1

\* A workflow tool that fails outside the provider call saves the error as its
\* reply, then raises it: the error counts both slots as used.
SaveErrorReply(c) ==
    LET t == target[c]
        turns == Append(memory[t], Turn("assistant", c))
    IN  /\ Executing(c, "asking")
        /\ c \in Workflow
        /\ memory[t] # None
        /\ Len(memory[t]) < MaxTurns
        /\ Save(t, turns) /\ Record(t, turns, Len(turns))
        /\ known' = known \cup {t}
        /\ End(c, Answer("failed", free[c] - 2))
        /\ UNCHANGED <<issued, target, free, snapshot>>

\* The provider of a workflow tool failed: save_failed_workflow_state puts the
\* resumable state on the last turn, which must be an input to the tool.
SaveFailedState(c) ==
    LET t == target[c]
        n == Len(memory[t])
    IN  /\ Executing(c, "asking")
        /\ c \in Workflow
        /\ memory[t] # None
        /\ memory[t][n].role = "user" /\ memory[t][n].by \in Workflow \cup {Old}
        /\ Save(t, [memory[t] EXCEPT ![n].state = c])
        /\ known' = known \cup {t}
        /\ End(c, Answer("failed", LeftAfterInput(c)))
        /\ UNCHANGED <<audit, issued, target, free, snapshot>>

\* The provider failed, or the failure of a workflow tool could not be saved:
\* the error reports what admission left free after the input.
FailUnrecorded(c) ==
    /\ Executing(c, "asking")
    /\ c \notin Clink
    /\ known' = known \cup {target[c]}
    /\ End(c, Answer("failed", LeftAfterInput(c)))
    /\ UNCHANGED <<memory, audit, issued, target, free, snapshot>>

-----------------------------------------------------------------------------
(* Requests to clink: CLIConversation. *)

\* load: the snapshot of a thread with two free slots.
Load(c) ==
    LET t == thread[c] IN
    /\ Executing(c, "start")
    /\ c \in Clink
    /\ t # None
    /\ memory[t] # None
    /\ HasRoom(t)
    /\ snapshot' = [snapshot EXCEPT ![c] = memory[t]]
    /\ target' = [target EXCEPT ![c] = t]
    /\ body' = [body EXCEPT ![c] = "asking"]
    /\ UNCHANGED <<memory, audit, issued, known, free, result>>

\* load without continuation id: a new thread that is not stored yet.
LoadNew(c, t) ==
    /\ Executing(c, "start")
    /\ c \in Clink
    /\ thread[c] = None
    /\ MaxTurns >= 2
    /\ FreshThread(t)
    /\ issued' = issued \cup {t}
    /\ target' = [target EXCEPT ![c] = t]
    /\ body' = [body EXCEPT ![c] = "asking"]
    /\ UNCHANGED <<memory, audit, known, free, snapshot, result>>

Exchange(c) == <<Turn("user", c), Turn("assistant", c)>>

Base(c) == IF snapshot[c] = None THEN << >> ELSE snapshot[c]

\* commit: both turns by compare-and-set, then their events.
Commit(c) ==
    LET t == target[c]
        turns == Base(c) \o Exchange(c)
    IN  /\ Executing(c, "asking")
        /\ c \in Clink
        /\ Replace(t, snapshot[c], turns)
        /\ Record(t, turns, Len(Base(c)) + 1)
        /\ known' = known \cup {t}
        /\ End(c, Answer("replied", Remaining(turns)))
        /\ UNCHANGED <<issued, target, free, snapshot>>

\* The compare-and-set failed: a warning, no events.
CommitConflict(c) ==
    /\ Executing(c, "asking")
    /\ c \in Clink
    /\ Conflict(target[c], snapshot[c])
    /\ End(c, Answer("unsaved", None))
    /\ UNCHANGED <<audit, issued, known, target, free, snapshot>>

\* The CLI failed or timed out: nothing is persisted.
CLIFails(c) ==
    /\ Executing(c, "asking")
    /\ c \in Clink
    /\ End(c, Answer("failed", None))
    /\ UNCHANGED <<memory, audit, issued, known, target, free, snapshot>>

-----------------------------------------------------------------------------

\* The task is cancelled while it awaits the provider or the CLI; before that,
\* the body has no suspension point that follows a write.
Abandon(c) ==
    /\ Executing(c, "asking")
    /\ End(c, Answer("cancelled", None))
    /\ UNCHANGED <<memory, audit, issued, known, target, free, snapshot>>

\* The time to live of a thread passes.
Expire(t) ==
    /\ memory[t] # None
    /\ Save(t, None)
    /\ UNCHANGED <<audit, issued, known, body, target, free, snapshot, result>>

\* What the body of c does up to its next suspension or its end.
BodyStep(c) ==
    \/ Refuse(c) \/ Unavailable(c) \/ Admit(c) \/ Load(c)
    \/ \E t \in Thread : AdmitNew(c, t) \/ LoadNew(c, t)
    \/ SaveReply(c) \/ ReplyUnsaved(c)
    \/ SaveErrorReply(c) \/ SaveFailedState(c) \/ FailUnrecorded(c)
    \/ Commit(c) \/ CommitConflict(c) \/ CLIFails(c)
    \/ Abandon(c)

\* The coordinator is left when the body has ended, and entered with a thread id
\* that some client can have.
CoordinationStep(c) ==
    \/ \E t \in known : RejectBusy(c, t) \/ AcquireNow(c, t) \/ Enqueue(c, t)
    \/ RunUncoordinated(c)
    \/ Resume(c)
    \/ CancelWaiting(c)
    \/ Unwind(c)
    \/ body[c] = "ended" /\ Finish(c)

LifecycleNext ==
    \/ \E c \in Caller : BodyStep(c) /\ UNCHANGED coordinationVars
    \/ \E c \in Caller : CoordinationStep(c) /\ UNCHANGED lifecycleVars
    \/ \E t \in Thread : Expire(t) /\ UNCHANGED coordinationVars
    \/ Quiescent /\ UNCHANGED lifecycleVars

LifecycleSpec == LifecycleInit /\ [][LifecycleNext]_allVars

-----------------------------------------------------------------------------
(* Properties. *)

Asking(c) == pc[c] = "running" /\ body[c] = "asking"

\* Between its input and its reply an API request has its thread to itself: as
\* long as the thread lives, the last turn is the request's own input.  So the
\* reply lands right behind it, a failed workflow marks its own input, and the
\* provider was asked about the newest input.
InputAwaitsItsReply ==
    \A c \in Caller \ Clink :
        Asking(c) /\ memory[target[c]] # None
            => Last(memory[target[c]]).role = "user" /\ Last(memory[target[c]]).by = c

\* The two slots demanded at admission are still there when the provider
\* answers: no admitted request is refused its reply for lack of room.
AdmittedReplyFits ==
    \A c \in Caller \ Clink :
        Asking(c) /\ memory[target[c]] # None => Len(memory[target[c]]) < MaxTurns

\* Every reply in a thread answers the turn before it, for both protocols.
RepliesFollowInputs ==
    \A t \in Thread : memory[t] # None =>
        \A i \in DOMAIN memory[t] :
            memory[t][i].role = "assistant" =>
                /\ i > 1
                /\ memory[t][i - 1].role = "user"
                /\ memory[t][i - 1].by = memory[t][i].by

\* A failed workflow leaves its state on its own input and nowhere else.
FailedStateOnOwnInput ==
    \A t \in Thread : memory[t] # None =>
        \A i \in DOMAIN memory[t] :
            memory[t][i].state # None => memory[t][i].state = memory[t][i].by

\* While clink's CLI runs, nobody changes the thread it was given: a commit can
\* only fail because the thread expired, never because of another tool.
SnapshotStaysCurrent ==
    \A c \in Clink :
        Asking(c) /\ memory[target[c]] # None => memory[target[c]] = snapshot[c]

\* Requests that follow each other on a thread never get mixed up, whoever waits,
\* fails, is cancelled or finds the thread expired (utils/conversation_context.py,
\* clink/conversation.py).
ExchangesStayTogether ==
    /\ InputAwaitsItsReply /\ RepliesFollowInputs
    /\ FailedStateOnOwnInput /\ SnapshotStaysCurrent

\* What an answer says about the remaining turns is what the thread has left
\* when the answer is given; the error path computes it from the admission.
RemainingIsTrue ==
    [][\A c \in Caller :
          (/\ result'[c] # result[c]
           /\ result'[c].remaining # None
           /\ memory'[target'[c]] # None)
          => result'[c].remaining = MaxTurns - Len(memory'[target'[c]])]_allVars

\* A request that is refused, or a CLI exchange that is not committed, leaves no
\* turn in any thread and no event in any transcript.
NoTraceOfTheUncommitted ==
    \A c \in Caller :
        (/\ result[c] # None
         /\ \/ result[c].kind = "refused"
            \/ c \in Clink /\ result[c].kind # "replied")
        => /\ \A t \in Thread : memory[t] # None => \A i \in DOMAIN memory[t] : memory[t][i].by # c
           /\ \A t \in Thread : \A i \in DOMAIN audit[t] : audit[t][i].by # c

\* The transcript is an ordered excerpt of the thread: its turn numbers grow, and
\* each event describes the turn that has its number, although appends may fail.
AuditMatchesMemory ==
    \A t \in Thread :
        /\ \A i, j \in DOMAIN audit[t] : i < j => audit[t][i].turn < audit[t][j].turn
        /\ memory[t] # None =>
              \A i \in DOMAIN audit[t] :
                  /\ audit[t][i].turn \in DOMAIN memory[t]
                  /\ memory[t][audit[t][i].turn].by = audit[t][i].by
                  /\ memory[t][audit[t][i].turn].role = audit[t][i].role

\* The transcripts tell what memory holds, and nothing else (utils/transcripts.py).
TranscriptIsTrue == AuditMatchesMemory /\ NoTraceOfTheUncommitted

\* "MCP calls use fresh tool instances and serialize updates to the same
\* continuation ID through reply persistence" (docs/context-revival.md): no two
\* invocations are between admission and persistence on one thread.
UpdatesAreSerialized ==
    \A c, d \in Caller : Asking(c) /\ Asking(d) /\ target[c] = target[d] => c = d

-----------------------------------------------------------------------------
(* The abstract history of a conversation. *)

\* The threads that may still come into existence: their id has not been
\* generated, or clink has and is waiting for its CLI.
NotYetStored ==
    (Thread \ issued) \cup {target[c] : c \in {d \in Clink : Asking(d) /\ snapshot[d] = None}}

Log == INSTANCE ConversationLog WITH history <- memory, fresh <- NotYetStored

ImplementsLog == Log!Spec
=============================================================================
