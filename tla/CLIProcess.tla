----------------------------- MODULE CLIProcess -----------------------------
(***************************************************************************)
(* clink/agents/base.py: one run of a CLI as a child process, with its     *)
(* scratch directory, its pipes, its timeout, and the task that kills and  *)
(* reaps it.                                                               *)
(*                                                                         *)
(* Four parties take steps: the caller's coroutine (caller), the child     *)
(* (process), the cleanup task (cleanup), and whoever cancels.  A          *)
(* cancellation may come at every suspension point, again and again: MCP's *)
(* cancel scopes deliver it until the task has left.  `descendants' are    *)
(* processes the child started; they may outlive it and may hold its       *)
(* pipes.  A failing unlink of the output file is only logged, and is left *)
(* out.                                                                    *)
(***************************************************************************)
EXTENDS Naturals

CONSTANT Unset

VARIABLES mode,         \* where the child runs: a "scratch" or "project" directory
          caller,       \* where BaseCLIAgent.run is
          process,      \* the child; "reaped" when its returncode is known
          killed,       \* has a SIGKILL been sent?
          descendants,  \* "none", "holding" the pipes, or "detached" from them
          pipes,        \* our ends of the child's pipes
          scratch,      \* the scratch directory
          output,       \* the file some CLIs write their answer to; "kept" if it is to stay
          cleanup,      \* the task drain_and_reap
          error,        \* what the call will raise after reaping
          cancelled,    \* was a cancellation thrown into _kill_and_reap?
          thrown,       \* was one thrown into this call? (history)
          outcome       \* how the call ended

cliVars == <<mode, caller, process, killed, descendants, pipes, scratch, output,
             cleanup, error, cancelled, thrown, outcome>>

Outcomes == {"answer", "failed", "directory", "timeout", "cancelled"}

TypeOK ==
    /\ mode \in {"scratch", "project"}
    /\ caller \in {"check", "launch", "recheck", "talk", "reap", "done"}
    /\ process \in {"none", "running", "exited", "reaped"}
    /\ killed \in BOOLEAN /\ cancelled \in BOOLEAN /\ thrown \in BOOLEAN
    /\ descendants \in {"none", "holding", "detached"}
    /\ pipes \in {"none", "open", "closed"}
    /\ scratch \in {"none", "present", "removed"}
    /\ output \in {"none", "present", "kept", "removed"}
    /\ cleanup \in {"none", "draining", "closing", "done"}
    /\ error \in Outcomes \cup {Unset}
    /\ outcome \in IF caller = "done" THEN Outcomes ELSE {Unset}

RunInit ==
    /\ mode \in {"scratch", "project"}
    /\ caller = "check"
    /\ process = "none" /\ killed = FALSE /\ descendants = "none" /\ pipes = "none"
    /\ scratch = "none" /\ output = "none"
    /\ cleanup = "none" /\ error = Unset /\ cancelled = FALSE
    /\ thrown = FALSE /\ outcome = Unset

-----------------------------------------------------------------------------
(* The end of a call: what it created for itself is removed. *)

Gone(file) == IF file = "present" THEN "removed" ELSE file

\* What a child or its descendants left in the directory may resist removal; that
\* error then replaces whatever the call was about to return or raise.
Finish(how) ==
    /\ caller' = "done"
    /\ output' = Gone(output)
    /\ \/ scratch' = Gone(scratch) /\ outcome' = how
       \/ process # "none" /\ scratch = "present" /\ outcome' = "failed" /\ UNCHANGED scratch

-----------------------------------------------------------------------------
(* Before the child runs. *)

\* A configured directory is checked in a worker thread.
ProjectIsChecked ==
    /\ caller = "check" /\ mode = "project"
    /\ \/ caller' = "launch" /\ UNCHANGED <<outcome, output, scratch>>
       \/ Finish("directory")
    /\ UNCHANGED <<mode, process, killed, descendants, pipes, cleanup, error, cancelled, thrown>>

\* Otherwise a scratch directory is created, or cannot be.
ScratchIsCreated ==
    /\ caller = "check" /\ mode = "scratch"
    /\ \/ caller' = "launch" /\ scratch' = "present" /\ UNCHANGED <<outcome, output>>
       \/ Finish("directory")
    /\ UNCHANGED <<mode, process, killed, descendants, pipes, cleanup, error, cancelled, thrown>>

\* The executable is not found, or the file's name does not fit the command.
NothingToLaunch ==
    /\ caller = "launch"
    /\ Finish("failed")
    /\ UNCHANGED <<mode, process, killed, descendants, pipes, cleanup, error, cancelled, thrown>>

\* Some CLIs get a file for their answer first; a manifest may ask to keep it.
OutputFileIsCreated ==
    /\ caller = "launch" /\ output = "none"
    /\ output' \in {"present", "kept"}
    /\ UNCHANGED <<mode, caller, process, killed, descendants, pipes, scratch, cleanup, error,
                   cancelled, thrown, outcome>>

ChildStarts ==
    /\ caller = "launch"
    /\ caller' = "talk"
    /\ process' = "running"
    /\ pipes' = "open"
    /\ UNCHANGED <<mode, killed, descendants, scratch, output, cleanup, error, cancelled,
                   thrown, outcome>>

\* The operating system refuses: it blames the directory, or the executable, or
\* nobody, and then the directory is checked once more.
LaunchFails ==
    /\ caller = "launch"
    /\ \/ Finish("directory") \/ Finish("failed")
       \/ caller' = "recheck" /\ UNCHANGED <<outcome, output, scratch>>
    /\ UNCHANGED <<mode, process, killed, descendants, pipes, cleanup, error, cancelled, thrown>>

DirectoryIsRechecked ==
    /\ caller = "recheck"
    /\ Finish("directory") \/ Finish("failed")
    /\ UNCHANGED <<mode, process, killed, descendants, pipes, cleanup, error, cancelled, thrown>>

\* A cancellation at a suspension point before the child is there.
CancelBeforeTalk ==
    /\ caller \in {"check", "launch", "recheck"}
    /\ caller = "check" => mode = "project"
    /\ Finish("cancelled")
    /\ thrown' = TRUE
    /\ UNCHANGED <<mode, process, killed, descendants, pipes, cleanup, error, cancelled>>

-----------------------------------------------------------------------------
(* The child. *)

ChildForks ==
    /\ process = "running" /\ descendants = "none" /\ ~killed
    /\ descendants' \in {"holding", "detached"}
    /\ UNCHANGED <<mode, caller, process, killed, pipes, scratch, output, cleanup, error,
                   cancelled, thrown, outcome>>

DescendantLets ==
    /\ descendants # "none"
    /\ descendants' \in {"none", "detached"} \ {descendants}
    /\ UNCHANGED <<mode, caller, process, killed, pipes, scratch, output, cleanup, error,
                   cancelled, thrown, outcome>>

ChildExits ==
    /\ process = "running"
    /\ process' = "exited"
    /\ UNCHANGED <<mode, caller, killed, descendants, pipes, scratch, output, cleanup, error,
                   cancelled, thrown, outcome>>

\* asyncio's child watcher collects the exit status.
ExitIsNoticed ==
    /\ process = "exited"
    /\ process' = "reaped"
    /\ UNCHANGED <<mode, caller, killed, descendants, pipes, scratch, output, cleanup, error,
                   cancelled, thrown, outcome>>

-----------------------------------------------------------------------------
(* communicate, and its ends. *)

\* End of file on both pipes, and a known returncode.
Communicated == process = "reaped" /\ descendants # "holding"

\* The answer is used; a bad exit status or an output that does not parse is an
\* error unless the agent can recover an answer from it.
CommunicateReturns ==
    /\ caller = "talk" /\ Communicated
    /\ Finish("answer") \/ Finish("failed")
    /\ pipes' = "closed"
    /\ UNCHANGED <<mode, process, killed, descendants, cleanup, error, cancelled, thrown>>

\* _kill_and_reap up to its first suspension.
KillAndReap(why) ==
    /\ caller' = "reap"
    /\ error' = why
    /\ killed' = (killed \/ process \in {"running", "exited"})
    /\ cleanup' = "draining"
    /\ UNCHANGED <<mode, process, descendants, pipes, scratch, output, cancelled, outcome>>

TimeoutExpires ==
    /\ caller = "talk"
    /\ KillAndReap("timeout")
    /\ UNCHANGED thrown

CommunicateFails ==
    /\ caller = "talk"
    /\ KillAndReap("failed")
    /\ UNCHANGED thrown

\* When the answer is there already, wait_for of Python 3.10 and 3.11 returns it
\* and drops the cancellation: that one is not thrown into the call.
CancelTalk ==
    /\ caller = "talk"
    /\ KillAndReap("cancelled")
    /\ thrown' = TRUE

-----------------------------------------------------------------------------
(* The cleanup task, and the caller that awaits it. *)

\* The `finally' of drain_and_reap: closing the transport closes our pipe ends
\* and kills a child that still runs.
CloseTransport ==
    /\ cleanup' = "closing"
    /\ pipes' = "closed"
    /\ killed' = (killed \/ process = "running")
    /\ UNCHANGED <<mode, caller, process, descendants, scratch, output, error, cancelled,
                   thrown, outcome>>

Drained ==
    /\ cleanup = "draining" /\ Communicated
    /\ CloseTransport

\* Mutants: the drain has no limit; a transport that is left open.
DrainGoesOn ==
    /\ cleanup = "draining" /\ Communicated
    /\ CloseTransport

\* The drain takes too long, or fails.
DrainGivesUp ==
    /\ cleanup = "draining"
    /\ CloseTransport

Waited ==
    /\ cleanup = "closing" /\ process = "reaped"
    /\ cleanup' = "done"
    /\ UNCHANGED <<mode, caller, process, killed, descendants, pipes, scratch, output, error,
                   cancelled, thrown, outcome>>

\* Mutants: the caller does not go on waiting after a cancellation.
CancelReapLeaving ==
    /\ caller = "reap"
    /\ thrown' = TRUE
    /\ Finish("cancelled")
    /\ UNCHANGED <<mode, process, killed, descendants, pipes, cleanup, error, cancelled>>

\* The caller is shielded: it notes a cancellation and waits on.
CancelReap ==
    /\ caller = "reap"
    /\ cancelled' = TRUE
    /\ thrown' = TRUE
    /\ UNCHANGED <<mode, caller, process, killed, descendants, pipes, scratch, output, cleanup,
                   error, outcome>>

\* Mutants: the noted cancellation is forgotten.
ReapEndsAsItBegan ==
    /\ caller = "reap" /\ cleanup = "done"
    /\ Finish(error)
    /\ UNCHANGED <<mode, process, killed, descendants, pipes, cleanup, error, cancelled, thrown>>

ReapEnds ==
    /\ caller = "reap" /\ cleanup = "done"
    /\ Finish(IF cancelled THEN "cancelled" ELSE error)
    /\ UNCHANGED <<mode, process, killed, descendants, pipes, cleanup, error, cancelled, thrown>>

-----------------------------------------------------------------------------

\* The call is over; its child's descendants are not its business.
Over == caller = "done" /\ UNCHANGED cliVars

RunNext ==
    \/ ProjectIsChecked \/ ScratchIsCreated \/ NothingToLaunch \/ OutputFileIsCreated
    \/ ChildStarts \/ LaunchFails \/ DirectoryIsRechecked \/ CancelBeforeTalk
    \/ ChildForks \/ DescendantLets \/ ChildExits \/ ExitIsNoticed
    \/ CommunicateReturns \/ TimeoutExpires \/ CommunicateFails \/ CancelTalk
    \/ Drained \/ DrainGivesUp \/ Waited \/ CancelReap \/ ReapEnds
    \/ Over

RunSpec == RunInit /\ [][RunNext]_cliVars

\* The event loop runs what is ready and its timers expire; a process that was
\* sent SIGKILL dies, and its exit is noticed.  The child itself need never
\* exit, its descendants need never let go of its pipes.
RunFairness ==
    /\ WF_cliVars(ProjectIsChecked \/ ScratchIsCreated)
    /\ WF_cliVars(NothingToLaunch \/ ChildStarts \/ LaunchFails)
    /\ WF_cliVars(DirectoryIsRechecked)
    /\ WF_cliVars(killed /\ ChildExits)
    /\ WF_cliVars(ExitIsNoticed)
    /\ WF_cliVars(TimeoutExpires)
    /\ WF_cliVars(DrainGivesUp)
    /\ WF_cliVars(Waited)
    /\ WF_cliVars(ReapEnds)

FairRunSpec == RunSpec /\ RunFairness

-----------------------------------------------------------------------------
(* Properties. *)

\* "Immediate-child termination/reaping precedes scratch cleanup"
\* (docs/tools/clink.md): the directory a child runs in is not removed under it, whenever
\* the timeout fires and however often the caller is cancelled.  When the call has ended
\* nothing of it is left: no child, no cleanup task, no pipe, no output file but one that
\* is to be kept, and no scratch directory, or else the call has failed for it.
NothingIsLeft ==
    /\ scratch = "removed" => process \in {"none", "reaped"}
    /\ caller = "done" =>
        /\ process \in {"none", "reaped"}
        /\ cleanup \in {"none", "done"}
        /\ pipes # "open"
        /\ output # "present"
        /\ scratch = "present" => outcome = "failed"

\* A cancellation that was thrown into the call comes out of it, also when it
\* arrived while a timed-out child was being reaped; only the failure to remove
\* the scratch directory can take its place.
CancellationIsKept ==
    caller = "done" /\ thrown => outcome = "cancelled" \/ scratch = "present"

\* "Draining output pipes is bounded": every call ends, even if the child hangs
\* and its descendants keep the pipes open for ever.
EveryCallEnds == <>(caller = "done")
=============================================================================
