----------------------------- MODULE FileInputs -----------------------------
(***************************************************************************)
(* From the paths a request names to the files that are read:              *)
(* utils/file_utils.py, and the special place of prompt.txt in             *)
(* tools/shared/base_tool.py.                                              *)
(*                                                                         *)
(* Tree maps a path to [in, to, kind, tokens, skipped, code]: the          *)
(* directory that lists it (a top directory lists itself), the canonical   *)
(* path it resolves to, what it is ("file", "large", "unreadable" or       *)
(* "directory"), the tokens of its text, whether a walk passes over its    *)
(* name (hidden or excluded), and whether its extension is that of code.   *)
(* Nothing is at other paths.  Paths are absolute: admission refuses       *)
(* others.                                                                 *)
(***************************************************************************)
EXTENDS Naturals, Sequences, SequencesExt

CONSTANTS Tree,
          PathOrder,         \* the paths considered, in the order of their names
          Protected,         \* system directories with all below, and the home directory itself
          Own,               \* the server's own directories
          PromptNamed,       \* the paths named prompt.txt
          MarkTokens,        \* the lines around the content of a file
          DiagnosticTokens   \* what is written instead of a file that cannot be read

\* FoldLeft, by recursion on places, which can be reasoned about.
Folded(op(_, _), base, s) ==
    LET upTo[i \in 0..Len(s)] == IF i = 0 THEN base ELSE op(upTo[i - 1], s[i])
    IN upTo[Len(s)]

\* Items in order of their first occurrence.
Distinct(s) == Folded(LAMBDA found, x : IF Contains(found, x) THEN found ELSE Append(found, x),
                      << >>, s)

\* The items of s that are in S.
Among(s, S) == Folded(LAMBDA kept, x : IF x \in S THEN Append(kept, x) ELSE kept, << >>, s)

Paths == ToSet(PathOrder)

\* A tree as file systems have them: what is listed is listed by a directory, whose name
\* comes first; what a path resolves to resolves to itself.
ASSUME FileAssumption ==
    /\ PathOrder \in Seq(Paths) /\ DOMAIN Tree \subseteq Paths
    /\ \A p \in DOMAIN Tree :
          /\ Tree[p].in \in DOMAIN Tree /\ Tree[p].to \in Paths /\ Tree[p].tokens \in Nat
          /\ Tree[p].to \in DOMAIN Tree => Tree[Tree[p].to].to = Tree[p].to
          /\ Tree[p].in # p => LET d == Tree[Tree[p].in] IN d.kind = "directory" /\ d.to = Tree[p].in
    /\ \A i, j \in DOMAIN PathOrder :
          PathOrder[j] \in DOMAIN Tree /\ Tree[PathOrder[j]].in = PathOrder[i] => i <= j
    /\ MarkTokens \in Nat /\ DiagnosticTokens \in Nat

CanonicalPath == [p \in Paths |-> IF p \in DOMAIN Tree THEN Tree[p].to ELSE p]

Kind == [p \in Paths |-> LET c == CanonicalPath[p] IN
                         IF c \in DOMAIN Tree THEN Tree[c].kind ELSE "missing"]

\* resolve_and_validate_path looks at a path as it is spelled and at what it resolves to.
Rejected == {p \in Paths : {p, CanonicalPath[p]} \cap Protected # {}}

-----------------------------------------------------------------------------
(* expand_paths *)

Directories == {p \in Paths : Kind[p] = "directory"}

Inside(d) == {p \in DOMAIN Tree : Tree[p].in = d /\ p # d /\ ~Tree[p].skipped}

\* os.walk lists a link to a directory and does not follow it.
Descends(d) == {p \in Inside(d) \cap Directories : CanonicalPath[p] = p} \ Own

\* What is found is spelled as it was found, links included.
Walk[d \in Directories] ==
    {p \in Inside(d) \ Directories : Tree[p].code} \cup UNION {Walk[s] : s \in Descends(d)}

Ordered(paths) == Among(PathOrder, paths)

ExpandPath(p) ==
    LET c == CanonicalPath[p] IN
    IF p \in Rejected \/ Kind[p] = "missing" \/ c \in Own THEN << >>
    ELSE IF p \in Directories THEN Ordered(Walk[c])
    ELSE <<c>>

\* A path that gives nothing is kept, for its diagnostic.
Expansion == [p \in Paths |-> IF ExpandPath(p) = << >> THEN <<p>> ELSE ExpandPath(p)]

Expanded(paths) == FlattenSeq([i \in DOMAIN paths |-> Expansion[paths[i]]])

\* expand_file_inputs: however a file is spelled, it is read once.
Resolved == [p \in Paths |-> IF p \in Rejected THEN p ELSE CanonicalPath[p]]

ExpandFileInputs(paths) ==
    LET found == Expanded(paths) IN Distinct([i \in DOMAIN found |-> Resolved[found[i]]])

-----------------------------------------------------------------------------
(* read_file_content *)

Readable == {p \in Paths \ Rejected : Kind[p] = "file"}

FileTokens == [p \in Paths |-> IF p \in Readable THEN Tree[CanonicalPath[p]].tokens + MarkTokens
                               ELSE DiagnosticTokens]

-----------------------------------------------------------------------------
(* Admission of a simple tool's request. *)

\* handle_prompt_file: the text of the last prompt.txt, if any.  Of the diagnostics only
\* those of an error are told from a text.
PromptText(files) ==
    LET prompts == Among(files, PromptNamed)
        last == Last(prompts)
    IN IF prompts = << >> \/ last \in Rejected \/ Kind[last] = "unreadable" THEN {}
       ELSE {IF last \in Readable THEN Tree[CanonicalPath[last]].tokens ELSE DiagnosticTokens}

\* A prompt.txt that is alone stays among the files.
OtherFiles(files) ==
    LET others == Among(files, Paths \ PromptNamed)
    IN IF others = << >> THEN files ELSE others

\* What the invocation saves and renders in place of the request's own prompt and files.
AdmittedFiles(files) == Distinct(Expanded(OtherFiles(files)))
AdmittedInput(files, input) ==
    IF PromptText(files) = {} THEN input ELSE CHOOSE t \in PromptText(files) : TRUE
=============================================================================
