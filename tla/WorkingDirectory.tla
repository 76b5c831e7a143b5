-------------------------- MODULE WorkingDirectory --------------------------
(***************************************************************************)
(* clink/working_directory.py: in which directory a CLI call runs.         *)
(*                                                                         *)
(* A world is a record [link, at]: `link' maps each path to its canonical  *)
(* one (a symbolic link to its target, another path to itself), `at' maps  *)
(* canonical paths to the directory there, or to None: nothing, a file, or *)
(* a directory that may not be entered.  Relative and malformed paths are  *)
(* paths where there is never anything.                                    *)
(***************************************************************************)
CONSTANT None

Scratch == [mode |-> "scratch"]
Project(launch, canonical) == [mode |-> "directory", launch |-> launch, canonical |-> canonical]

\* A conversation may have no binding (Missing), or one that does not decode.
Missing == [mode |-> "missing"]
Malformed == [mode |-> "malformed"]

There(world, path) == world.at[world.link[path]]
Usable(world, path) == There(world, path) # None
SameFile(world, p, q) == There(world, p) = There(world, q)
Canonical(world, path) == world.link[path]

Selected(binding, source) == [error |-> None, binding |-> binding, source |-> source]
Refused(error) == [error |-> error]
Errors == {"InvalidBinding", "InvalidDirectory", "BoundUnavailable", "Conflict"}
NoCandidate == [mode |-> "no_candidate"]

\* Up to the candidate: the saved data decodes and the requested directory is valid.
Candidate(world, saved, requested) ==
    IF saved = Malformed THEN Refused("InvalidBinding")
    ELSE IF requested = None THEN Selected(NoCandidate, None)
    ELSE IF Usable(world, requested)
         THEN Selected(Project(requested, Canonical(world, requested)), "request")
    ELSE Refused("InvalidDirectory")

\* Mutant: the canonical path is not compared.
StillThereByLaunchPath(world, bound) == Usable(world, bound.launch)

StillThere(world, bound) ==
    /\ Usable(world, bound.launch)
    /\ Usable(world, bound.canonical)
    /\ SameFile(world, bound.launch, bound.canonical)

Agrees(world, bound, candidate) ==
    candidate = NoCandidate \/ SameFile(world, bound.launch, candidate.launch)

\* The rest: the bound project first, then the request, a bound scratch directory,
\* the configuration, and scratch.
Resolution(world, saved, candidate, configured) ==
    IF saved.mode = "directory"
    THEN IF ~StillThere(world, saved) THEN Refused("BoundUnavailable")
         ELSE IF candidate # NoCandidate /\ ~Usable(world, candidate.launch)
              THEN Refused("InvalidDirectory")
         ELSE IF ~Agrees(world, saved, candidate) THEN Refused("Conflict")
         ELSE Selected(saved, "conversation")
    ELSE IF candidate # NoCandidate THEN Selected(candidate, "request")
    ELSE IF saved = Scratch THEN Selected(Scratch, "conversation")
    ELSE IF configured = None THEN Selected(Scratch, "scratch")
    ELSE IF Usable(world, configured)
         THEN Selected(Project(configured, Canonical(world, configured)), "configuration")
    ELSE Refused("InvalidDirectory")
=============================================================================
