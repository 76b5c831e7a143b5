------------------------------- MODULE Server -------------------------------
(***************************************************************************)
(* server.py: startup, tool calls, and main's cleanup.                     *)
(*                                                                         *)
(* The process configures its providers, serves, and closes each provider  *)
(* instance before it exits, whatever ended it: a broken configuration,    *)
(* the end of stdin, a transport error or an interrupt, which may also     *)
(* come while providers are being closed.  MCP's server.run is external:   *)
(* it leaves its task group only when every call has ended.                *)
(***************************************************************************)
EXTENDS JulesExchange

CONSTANT Providers

ASSUME ServerAssumption == None \notin {"ok", "raised", "timeout"}

VARIABLES phase,       \* starting, serving, draining, closing or exited
          configured,  \* the providers examined so far, each with what came of it
          primary,     \* how _serve ended: None, "error" or "cancelled"
          interrupted, \* was main cancelled while it joined the cleanup?
          closures,    \* the attempts to close a provider, in their order
          firstError,  \* the first that failed
          exit         \* how main ended

serverVars == <<phase, configured, primary, interrupted, closures, firstError, exit>>
vars == <<call, jules, serverVars>>

\* The instances in ModelProviderRegistry._initialized_providers.
Allocated == {p \in DOMAIN configured : configured[p] = "instance"}

Init ==
    /\ CallInit /\ JulesInit
    /\ phase = "starting" /\ configured = << >>
    /\ primary = None /\ interrupted = FALSE
    /\ closures = << >> /\ firstError = None /\ exit = None

-----------------------------------------------------------------------------
(* Startup: initialize_runtime. *)

Recorded(p, how) == [q \in DOMAIN configured \cup {p} |->
                        IF q = p THEN how ELSE configured[q]]

\* Credentials, a catalog and get_provider: the registry keeps the instance.
ConfigureProvider(p) ==
    /\ phase = "starting" /\ p \notin DOMAIN configured
    /\ configured' = Recorded(p, "instance")
    /\ UNCHANGED <<call, jules, phase, primary, interrupted, closures, firstError, exit>>

SkipProvider(p) ==
    /\ phase = "starting" /\ p \notin DOMAIN configured
    /\ configured' = Recorded(p, "skipped")
    /\ UNCHANGED <<call, jules, phase, primary, interrupted, closures, firstError, exit>>

\* A broken registry file, or a constructor that raises, ends the startup.
ConfigurationFails(p) ==
    /\ phase = "starting" /\ p \notin DOMAIN configured
    /\ phase' = "draining" /\ primary' = "error"
    /\ UNCHANGED <<call, jules, configured, interrupted, closures, firstError, exit>>

StartServing ==
    /\ phase = "starting" /\ DOMAIN configured = Providers
    /\ phase' = "serving"
    /\ UNCHANGED <<call, jules, configured, primary, interrupted, closures, firstError, exit>>

-----------------------------------------------------------------------------
(* Service. *)

\* Tools that need a provider are refused before locks if there is none.
Proceed(c) ==
    \/ Refuse(c)
    \/ Allocated # {} /\ Enter(c)
    \/ TaskSteps(c)

Work(c) ==
    \/ \E reply \in {"content", "empty", "blocked"} : ProviderAnswers(c, reply)
    \/ \E error \in Errors, gemini \in BOOLEAN : AttemptFails(c, Judged(error, gemini))

Beat(c) == BeatWakes(c) \/ BeatSteps(c)

CallStep(c) ==
    /\ \/ /\ \/ phase = "serving" /\ Arrive(c)
             \/ Proceed(c) \/ Work(c) \/ Beat(c) \/ Cancel(c)
          /\ JulesFollows(c)
       \/ JulesStep(c)
    /\ UNCHANGED serverVars

InFlight == {c \in Calls : call[c].pc \notin {"new", "ended"}}

\* An interrupt leaves the calls alone.
NoneCancelled == call

AllCancelled == [c \in Calls |-> IF c \in InFlight THEN [call[c] EXCEPT !.cancelled = TRUE]
                                                   ELSE call[c]]

\* The client closes stdin.  Releases of MCP differ in whether calls are then cancelled.
StdinCloses ==
    /\ phase = "serving"
    /\ phase' = "draining"
    /\ call' \in {call, AllCancelled}
    /\ UNCHANGED <<jules, configured, primary, interrupted, closures, firstError, exit>>

\* asyncio.run cancels main on the first SIGINT, the transport may raise; both leave
\* the task group through the cancellation of its calls.
ServeAborts(how) ==
    /\ phase \in {"serving", "draining"} /\ primary = None
    /\ phase' = "draining" /\ primary' = how
    /\ call' = AllCancelled
    /\ UNCHANGED <<jules, configured, interrupted, closures, firstError, exit>>

-----------------------------------------------------------------------------
(* Cleanup: _close_providers in a task of its own, joined by main. *)

BeginCleanup ==
    /\ phase = "draining" /\ InFlight = {}
    /\ phase' = "closing"
    /\ UNCHANGED <<call, jules, configured, primary, interrupted, closures, firstError, exit>>

Attempted == {closures[i].provider : i \in DOMAIN closures}

\* The last failure is kept.
CloseProviderKeepingLast(p, result) ==
    /\ phase = "closing" /\ p \in Allocated \ Attempted
    /\ closures' = Append(closures, [provider |-> p, result |-> result])
    /\ firstError' = IF result # "ok" THEN result ELSE firstError
    /\ UNCHANGED <<call, jules, phase, configured, primary, interrupted, exit>>

\* aclose returns, raises, cancels itself, or is given up after 30 seconds.
CloseProvider(p, result) ==
    /\ phase = "closing" /\ p \in Allocated \ Attempted
    /\ closures' = Append(closures, [provider |-> p, result |-> result])
    /\ firstError' = IF firstError = None /\ result # "ok" THEN result ELSE firstError
    /\ UNCHANGED <<call, jules, phase, configured, primary, interrupted, exit>>

\* main is cancelled while it joins the cleanup, which goes on behind the shield.  A second
\* SIGINT kills the process and is left out.
InterruptCleanup ==
    /\ phase = "closing" /\ primary # "cancelled" /\ ~interrupted
    /\ interrupted' = TRUE
    /\ UNCHANGED <<call, jules, phase, configured, primary, closures, firstError, exit>>

\* An interrupt outranks what ended the service, which outranks a failed cleanup.
Exit ==
    /\ phase = "closing" /\ Attempted = Allocated
    /\ phase' = "exited"
    /\ exit' = IF interrupted THEN "cancelled"
               ELSE IF primary # None THEN primary
               ELSE IF firstError # None THEN firstError ELSE "clean"
    /\ UNCHANGED <<call, jules, configured, primary, interrupted, closures, firstError>>

Closes(p) == \E result \in {"ok", "raised", "timeout", "cancelled"} : CloseProvider(p, result)

Next ==
    \/ \E p \in Providers : ConfigureProvider(p) \/ SkipProvider(p) \/ ConfigurationFails(p)
    \/ StartServing
    \/ \E c \in Calls : CallStep(c)
    \/ StdinCloses \/ ServeAborts("error") \/ ServeAborts("cancelled")
    \/ BeginCleanup \/ InterruptCleanup \/ Exit
    \/ \E p \in Providers : Closes(p)

\* The event loop runs every ready task; sends, closings and requests to Jules have
\* deadlines.  Nothing is asked of the provider, the service, the client or the user.
Fairness ==
    /\ \A c \in Calls :
           /\ WF_vars(Proceed(c) /\ JulesFollows(c) /\ UNCHANGED serverVars)
           /\ WF_vars(BeatSteps(c) /\ JulesFollows(c) /\ UNCHANGED serverVars)
           /\ WF_vars((Ask(c) \/ Fails(c, "timeout")) /\ UNCHANGED serverVars)
    /\ WF_vars(BeginCleanup) /\ WF_vars(Exit)
    /\ \A p \in Providers : WF_vars(Closes(p))

Spec == Init /\ [][Next]_vars /\ Fairness

-----------------------------------------------------------------------------
(* Properties. *)

\* No provider is closed under a call, and none that startup allocated is left open:
\* not when the configuration breaks half way, another provider hangs or fails, or
\* main is cancelled meanwhile.
ProvidersAreClosed ==
    /\ closures # << >> => InFlight = {}
    /\ phase = "exited" =>
           \A p \in Allocated : \E i \in DOMAIN closures :
               /\ closures[i].provider = p
               /\ \A j \in DOMAIN closures : closures[j].provider = p => i = j

\* main returns normally only after an undisturbed service and cleanup; an interrupt
\* is never lost; and a cleanup that failed is reported by its first failure.
ExitIsHonest ==
    phase = "exited" =>
        /\ interrupted => exit = "cancelled"
        /\ ~interrupted /\ primary # None => exit = primary
        /\ ~interrupted /\ primary = None =>
               \/ exit = "clean" /\ \A i \in DOMAIN closures : closures[i].result = "ok"
               \/ \E i \in DOMAIN closures :
                      /\ exit = closures[i].result /\ exit # "ok"
                      /\ \A k \in 1..(i - 1) : closures[k].result = "ok"

\* Shutdown leaves nothing open and reports what happened (server.py, main).
ShutdownIsComplete == ProvidersAreClosed /\ ExitIsHonest

\* An interrupted server exits, whatever its calls, their heartbeats and its providers
\* are doing.
InterruptEndsServer == primary = "cancelled" ~> phase = "exited"
=============================================================================
