--------------------------- MODULE ClinkExchange ---------------------------
(***************************************************************************)
(* tools/clink.py with clink/conversation.py: the clink calls on one       *)
(* conversation, from their arguments to the saved exchange, while the     *)
(* file system changes and other tools add to the conversation.            *)
(*                                                                         *)
(* The coordinator lets one call at a time work on a conversation (module  *)
(* ConversationCoordination); between its awaits nothing interferes, at    *)
(* each of them the directories may change, the conversation may expire,   *)
(* and the call may be cancelled.  How the child itself is run, timed out  *)
(* and reaped is module CLIProcess; here it is one step with its result.   *)
(***************************************************************************)
EXTENDS CLIOutput, CLIRegistry, FiniteSetsExt

CONSTANTS Path,           \* the absolute paths
          Role,           \* the names of roles
          Layers,         \* the sequences of manifests a server may be started with
          Links,          \* the possible link functions of the file system
          Ats,            \* and the possible contents of its canonical paths
          Requests,       \* records [cli, role, dir, edits, editable, tokens]
          Outputs(_),     \* what a CLI may print
          Replies,        \* records [tokens, summary] of what it may answer
          Chats,          \* the tokens of other tools' turns
          ReplyLimit,     \* MAX_RESPONSE_CHARS, in tokens
          ExcerptTokens,  \* the notice with an excerpt that replaces a long answer
          FrameTokens,    \* the headings of a rendered history
          MaxTurns,
          MaxCalls        \* a bound on the calls

RequestRecords ==
    [cli : Supported \cup {None}, role : Role \cup {None}, dir : Path \cup {None},
     edits : BOOLEAN, editable : BOOLEAN, tokens : Nat]

\* Conversations as they are saved.
TurnRecords ==
    [role : {"user", "assistant"}, n : Nat, tokens : Nat, visible : {None} \cup [tokens : Nat]]
SelectionDefaults == [cli : Supported, role : Role]
Bindings == {Missing, Scratch} \cup [mode : {"directory"}, launch : Path, canonical : Path]
Threads == [turns : Seq(TurnRecords), defaults : {None} \cup SelectionDefaults, binding : Bindings]

ASSUME ClinkAssumption ==
    /\ \A manifests \in Layers :
          /\ manifests \in Seq(ToSet(manifests))
          /\ \A m \in ToSet(manifests) : IsManifest(m, Path)
    /\ Links \subseteq [Path -> Path]
    /\ "default" \in Role
    /\ Requests \subseteq RequestRecords
    /\ \A cli \in Supported : Outputs(cli) \subseteq PossibleOutputs(cli)
    /\ Replies \subseteq [tokens : Nat, summary : Nat]
    /\ Chats \subseteq Nat
    /\ ReplyLimit \in Nat /\ ExcerptTokens \in Nat
    /\ None \notin Errors \cup SelectionDefaults \cup Threads

VARIABLES clients,   \* the registry
          world,     \* the file system
          thread,    \* the saved conversation, or None
          pc,        \* where the current call is
          call,      \* its request, snapshot and choices
          calls,     \* the number of calls so far
          told,      \* what the client got as the answer of each call (history)
          runs       \* how each call ran its CLI (history)

vars == <<clients, world, thread, pc, call, calls, told, runs>>

Turn(role, n, tokens, visible) == [role |-> role, n |-> n, tokens |-> tokens, visible |-> visible]

\* A thread another tool began has no clink data.
Thread(turns) == [turns |-> turns, defaults |-> None, binding |-> Missing]

Worlds == {w \in [link : Links, at : Ats] : TRUE}

Init ==
    /\ \E manifests \in Layers : Loads(manifests) /\ clients = Load(manifests)
    /\ world \in Worlds
    /\ thread \in {None} \cup {Thread(<<Turn("user", 0, t, None), Turn("assistant", 0, t, None)>>) :
                                 t \in Chats}
    /\ pc = "idle" /\ call = None
    /\ calls = 0 /\ told = << >> /\ runs = << >>

-----------------------------------------------------------------------------
(* render_history. *)

\* The turns a group begins with, and the groups: one user turn and all the
\* assistant turns that follow it; a user turn without an answer is no group.
GroupStarts(turns) ==
    {i \in DOMAIN turns : /\ turns[i].role = "user"
                          /\ i + 1 \in DOMAIN turns /\ turns[i + 1].role = "assistant"}
Group(turns, i) ==
    {k \in i .. Len(turns) : \A j \in i + 1 .. k : turns[j].role = "assistant"}

\* A history is the set of its turns' places.
SuffixFrom(turns, start) == UNION {Group(turns, i) : i \in {j \in GroupStarts(turns) : j >= start}}

\* Mutant: the answer as the CLI gave it.
RenderedInFull(turn) == turn.tokens

\* _render_turn: of an answer that was shortened, what the client saw.
Rendered(turn) == IF turn.visible = None THEN turn.tokens ELSE turn.visible.tokens

HistoryTokens(turns, shown) ==
    FrameTokens + MapThenSumSet(LAMBDA k : Rendered(turns[k]), shown)

\* Where the longest suffix of complete exchanges begins that fits the budget.
HistoryStart(turns, budget) ==
    LET Fitting == {i \in GroupStarts(turns) : HistoryTokens(turns, SuffixFrom(turns, i)) =< budget}
    IN IF Fitting = {} THEN 0 ELSE Min(Fitting)

\* The turns shown, or None if the newest exchange does not fit or none is complete.
History(turns, budget) ==
    IF turns = << >> THEN {}
    ELSE IF HistoryStart(turns, budget) = 0 THEN None
    ELSE SuffixFrom(turns, HistoryStart(turns, budget))

-----------------------------------------------------------------------------
(* A call. *)

Turns(snapshot) == IF snapshot = None THEN << >> ELSE snapshot.turns
Binding(snapshot) == IF snapshot = None THEN Missing ELSE snapshot.binding
Defaults(snapshot) == IF snapshot = None THEN None ELSE snapshot.defaults

HasRoom(snapshot) == MaxTurns - Len(Turns(snapshot)) >= 2

\* resolve_selection: the CLI and role of the last success unless others are named.
CliFor(request, snapshot) ==
    IF request.cli # None THEN request.cli
    ELSE IF Defaults(snapshot) # None THEN Defaults(snapshot).cli
    ELSE IF Cardinality(DOMAIN clients) = 1 THEN CHOOSE c \in DOMAIN clients : TRUE
    ELSE None

RoleFor(request, snapshot) ==
    IF request.role # None THEN request.role
    ELSE IF Defaults(snapshot) # None THEN Defaults(snapshot).role
    ELSE "default"

\* prepare_request, load, resolve_selection and get_client, up to the first await;
\* a call that goes no further changes nothing.
Call(request) ==
    /\ pc = "idle" /\ calls < MaxCalls
    /\ request.editable => request.edits
    /\ HasRoom(thread)
    /\ CliFor(request, thread) \in DOMAIN clients
    /\ pc' = "request"
    /\ call' = [request |-> request, snapshot |-> thread,
                cli |-> CliFor(request, thread), role |-> RoleFor(request, thread),
                candidate |-> None, binding |-> None, shown |-> None, world |-> None,
                command |-> None]
    /\ calls' = calls + 1
    /\ IF thread = None THEN told' = << >> /\ runs' = << >> ELSE UNCHANGED <<told, runs>>
    /\ UNCHANGED <<clients, world, thread>>

\* Any end without an answer: nothing is saved, the client is told of the error.
Ends ==
    /\ pc' = "idle" /\ call' = None
    /\ UNCHANGED <<clients, world, thread, calls, told, runs>>

\* In a worker thread: the requested directory,
RequestedIsChecked ==
    LET c == Candidate(world, Binding(call.snapshot), call.request.dir)
    IN /\ pc = "request"
       /\ \/ c.error # None /\ Ends
          \/ /\ c.error = None
             /\ pc' = "bound"
             /\ call' = [call EXCEPT !.candidate = c.binding]
             /\ UNCHANGED <<clients, world, thread, calls, told, runs>>

\* then the bound one and the others; back in the event loop, role, permissions and
\* history.  The chosen directory replaces the configured one for this call.
DirectoryIsResolved ==
    LET client == clients[call.cli]
        r == Resolution(world, Binding(call.snapshot), call.candidate, client.dir)
        shown == History(Turns(call.snapshot), client.budget)
        proceeds == /\ r.error = None
                    /\ call.role \in DOMAIN client.roles
                    /\ call.request.editable => SupportsEditablePaths(call.cli)
                    /\ shown # None
    IN /\ pc = "bound"
       /\ \/ ~proceeds /\ Ends
          \/ /\ proceeds
             /\ pc' = IF r.binding = Scratch THEN "launch" ELSE "check"
             /\ call' = [call EXCEPT !.binding = r.binding, !.shown = shown, !.world = world]
             /\ UNCHANGED <<clients, world, thread, calls, told, runs>>

\* The agent checks its directory, in a worker thread again.
DirectoryIsChecked ==
    /\ pc = "check"
    /\ \/ ~Usable(world, call.binding.launch) /\ Ends
       \/ /\ Usable(world, call.binding.launch)
          /\ pc' = "launch"
          /\ UNCHANGED <<clients, world, thread, call, calls, told, runs>>

Launch ==
    LET client == clients[call.cli]
        scratch == call.binding = Scratch
    IN /\ pc = "launch"
       /\ \/ RefusesCommand(client, call.role) /\ Ends
          \/ ~scratch /\ ~Usable(world, call.binding.launch) /\ Ends
          \/ /\ ~RefusesCommand(client, call.role)
             /\ ~scratch => Usable(world, call.binding.launch)
             /\ pc' = "running"
             /\ call' = [call EXCEPT !.command = Command(client, call.role, call.request.edits,
                                                        call.request.editable, scratch)]
             /\ UNCHANGED <<clients, world, thread, calls, told, runs>>

\* _apply_output_limit: a long answer is replaced by its summary, or by an excerpt.
Visible(reply) ==
    IF reply.tokens =< ReplyLimit THEN None
    ELSE IF reply.summary = 0 THEN [tokens |-> ExcerptTokens]
    ELSE [tokens |-> Min({reply.summary, ReplyLimit})]

Seen(reply) == IF Visible(reply) = None THEN reply.tokens ELSE Visible(reply).tokens

\* The result is used only if the process succeeded, too: gemini's recovery from a bad
\* exit status returns a result that is no error by itself.
IsAnswer(result, code) == code = 0 /\ result.kind = "parsed" /\ ~result.isError

\* Mutant: the CLI and role of the first exchange stay the defaults.
CommittedFirst(reply) ==
    [turns |-> Turns(call.snapshot) \o <<Turn("user", calls, call.request.tokens, None),
                                         Turn("assistant", calls, reply.tokens, Visible(reply))>>,
     defaults |-> IF Defaults(call.snapshot) # None THEN Defaults(call.snapshot)
                  ELSE [cli |-> call.cli, role |-> call.role],
     binding |-> call.binding]

Committed(reply) ==
    [turns |-> Turns(call.snapshot) \o <<Turn("user", calls, call.request.tokens, None),
                                         Turn("assistant", calls, reply.tokens, Visible(reply))>>,
     defaults |-> [cli |-> call.cli, role |-> call.role],
     binding |-> call.binding]

\* The CLI answers, and the exchange is saved unless the thread is not the snapshot
\* any more; then the client gets the answer with a warning.
Answers(reply, out, code) ==
    /\ pc = "running"
    /\ IsAnswer(AgentOutput(call.cli, out, code), code)
    /\ thread' = IF thread = call.snapshot THEN Committed(reply) ELSE thread
    /\ told' = Append(told, [n |-> calls, tokens |-> Seen(reply)])
    /\ runs' = Append(runs, [n |-> calls, cli |-> call.cli, role |-> call.role,
                             binding |-> call.binding, request |-> call.request,
                             honest |-> code = 0 /\ ReportsSuccess(call.cli, out),
                             saved |-> thread = call.snapshot])
    /\ pc' = "idle" /\ call' = None
    /\ UNCHANGED <<clients, world, calls>>

\* No answer: a bad exit, an error, a timeout, a cancellation.
Fails ==
    /\ pc \in {"request", "bound", "check", "launch", "running"}
    /\ Ends

-----------------------------------------------------------------------------
(* The others. *)

\* A chat and its answer, or a chat whose model failed.
OtherTool(tokens) ==
    /\ pc = "idle" /\ calls < MaxCalls
    /\ thread # None /\ HasRoom(thread)
    /\ calls' = calls + 1
    /\ \E answered \in BOOLEAN :
          thread' = [thread EXCEPT !.turns = @ \o
              SubSeq(<<Turn("user", calls', tokens, None), Turn("assistant", calls', tokens, None)>>,
                     1, IF answered THEN 2 ELSE 1)]
    /\ told' = Append(told, [n |-> calls', tokens |-> tokens])
    /\ UNCHANGED <<clients, world, pc, call, runs>>

\* A conversation without a call is then forgotten by the history variables, too.
Expire ==
    /\ thread # None /\ thread' = None
    /\ IF pc = "idle" THEN told' = << >> /\ runs' = << >> ELSE UNCHANGED <<told, runs>>
    /\ UNCHANGED <<clients, world, pc, call, calls>>

\* A directory is removed, replaced or linked elsewhere, one thing at a time.
WorldChanges ==
    /\ world' \in Worlds
    /\ world'.link = world.link \/ world'.at = world.at
    /\ pc # "idle" \/ runs # << >>
    /\ UNCHANGED <<clients, thread, pc, call, calls, told, runs>>

Next ==
    \/ \E request \in Requests : Call(request)
    \/ RequestedIsChecked \/ DirectoryIsResolved \/ DirectoryIsChecked \/ Launch
    \/ \E reply \in Replies, code \in {0, 1} :
          pc = "running" /\ \E out \in Outputs(call.cli) : Answers(reply, out, code)
    \/ Fails
    \/ \E tokens \in Chats : OtherTool(tokens)
    \/ Expire \/ WorldChanges

Spec == Init /\ [][Next]_vars

-----------------------------------------------------------------------------
(* Properties. *)

\* The runs whose exchanges are saved in the conversation as it is now.
Exchanges == {i \in DOMAIN runs : /\ runs[i].saved /\ thread # None
                                 /\ \E k \in DOMAIN thread.turns : thread.turns[k].n = runs[i].n}

Prepared == pc \in {"check", "launch", "running"}

\* A conversation stays in its project, whatever calls fail, are refused, or
\* end unsaved in between (clink/working_directory.py).  Once an exchange ran in a
\* directory, all later ones of that conversation ran there by the same path.  When
\* it was chosen for a call, that path led to the project's canonical place, and
\* to the directory the call asked for, if it asked for one.
ProjectIsKept ==
    /\ \A i, j \in Exchanges :
          i < j /\ runs[i].binding # Scratch => runs[j].binding = runs[i].binding
    /\ Prepared /\ Binding(call.snapshot).mode = "directory" =>
          /\ call.binding = Binding(call.snapshot)
          /\ SameFile(call.world, call.binding.launch, call.binding.canonical)
    /\ Prepared /\ call.request.dir # None =>
          SameFile(call.world, call.binding.launch, call.request.dir)

\* The flags a command may have that is not to edit.
UneditingFlags(client, role) ==
    client.args \cup client.safe \cup client.roles[role]
        \cup InternalArgs(client.name) \cup ExtraArgs(client.name, FALSE, FALSE, TRUE)

\* "Inherit only successful CLI/role defaults, never request permissions"
\* (clink/conversation.py): a call that names nothing runs like the last exchange that
\* was saved; the flags for edits are in its command only if it asks for them itself.
FollowUpInherits ==
    pc = "running" /\ Exchanges # {} /\ thread = call.snapshot =>
        LET last == runs[Max(Exchanges)]
            client == clients[call.cli]
        IN /\ call.request.cli = None => call.cli = last.cli
           /\ call.request.role = None => call.role = last.role
           /\ call.request.dir = None => call.binding = last.binding
           /\ ~call.request.edits =>
                  client.edit \cap call.command \subseteq UneditingFlags(client, call.role)

\* The history a CLI is shown is what the client saw: complete exchanges within the
\* CLI's budget, each answer as it was told, none left out since the oldest one
\* shown, and as many as the budget takes (render_history).
HistoryIsComplete ==
    Prepared =>
        LET shown == call.shown
            turns == Turns(call.snapshot)
            answered == {turns[i].n : i \in {j \in DOMAIN turns : turns[j].role = "assistant"}}
        IN /\ shown # {} =>
                  /\ {turns[k].n : k \in shown} = {n \in answered : n >= turns[Min(shown)].n}
                  /\ HistoryTokens(turns, shown) =< clients[call.cli].budget
           /\ \A i \in GroupStarts(turns) :
                  HistoryTokens(turns, SuffixFrom(turns, i)) =< clients[call.cli].budget => i \in shown
           /\ \A k \in shown :
                  /\ turns[k].role = "user" => k + 1 \in shown /\ turns[k + 1].role = "assistant"
                  /\ turns[k].role = "assistant" =>
                        \A j \in DOMAIN told : told[j].n = turns[k].n => told[j].tokens = Rendered(turns[k])

\* Nothing enters a conversation as a CLI's answer unless the CLI exited with success
\* and itself reports success (tools/clink.py, clink/agents, clink/parsers).
OnlySuccessIsSaved == \A i \in DOMAIN runs : runs[i].honest

\* What a CLI is shown as history, and later clients read as its answers, is what
\* successful CLIs said to this client (clink/conversation.py, tools/clink.py).
HistoryIsTrue == HistoryIsComplete /\ OnlySuccessIsSaved
=============================================================================
