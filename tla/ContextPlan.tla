---------------------------- MODULE ContextPlan ----------------------------
(***************************************************************************)
(* What of a conversation and of its files goes into a prompt: the token   *)
(* allowances of utils/model_context.py, the file reader's selection in    *)
(* utils/file_utils.py and the history of utils/conversation_memory.py, as *)
(* utils/conversation_context.py uses them.                                *)
(*                                                                         *)
(* Texts are their estimated tokens.  A turn is a record [role, files,     *)
(* images, tokens, model]; a model is a record [window, ceiling, vision,   *)
(* verified].                                                              *)
(***************************************************************************)
EXTENDS FileInputs, Integers, FiniteSetsExt

CONSTANTS MaxTurns,
          FrameTokens,     \* headings and the turn counter of a history
          ClosingTokens,   \* its closing guidance, which no history budget counts
          FollowUpTokens,  \* the follow-up instructions
          SystemTokens     \* system prompt with language instruction

ImageTokens == 8192
MaxImages == 5
Reserve == 1000

\* What is written around files and turns; the reserve covers the instructions.
ASSUME ContextAssumption ==
    /\ {FrameTokens, ClosingTokens, SystemTokens} \subseteq Nat
    /\ FollowUpTokens \in 0..Reserve

Least(a, b) == IF a < b THEN a ELSE b
Most(a, b) == IF a > b THEN a ELSE b
Total(s) == Folded(+, 0, s)

\* get_conversation_file_list: newest turn first.
ConversationFiles(turns) ==
    Distinct(FlattenSeq([i \in DOMAIN turns |-> Reverse(turns)[i].files]))

\* get_conversation_image_list: each image once.
ConversationImages(turns) == UNION {turns[i].images : i \in DOMAIN turns}

-----------------------------------------------------------------------------
(* Allowances. *)

\* calculate_token_allocation; a model without verified capacities has none.
Allocation(model) ==
    LET large == model.window >= 300000
        response == Least((model.window * (IF large THEN 2 ELSE 4)) \div 10, model.ceiling)
        content == model.window - response
    IN [content |-> content,
        files |-> (content * (IF large THEN 4 ELSE 3)) \div 10,
        history |-> (content * (IF large THEN 4 ELSE 5)) \div 10]

\* Neither margin nor reserve.
FileLimitToTheBrim(model, remaining) == Least(Allocation(model).files, remaining)

\* file_budget: the margin of the final check is taken off first.
FileLimit(model, remaining) ==
    LET a == Allocation(model)
        left == Most(0, ((a.content - 64) * 10) \div 11
                            - (a.content - Least(remaining, a.content)))
    IN Most(0, Least(a.files, left) - Reserve)

\* request_budget, the final check of an assembled request.
Estimate(text, images) == (text * 11 + 9) \div 10 + 64 + ImageTokens * images
Fits(model, text, images) == Estimate(text, images) <= Allocation(model).content

-----------------------------------------------------------------------------
(* read_files: files in order, each taken if it still fits. *)

Separator == 2
OmissionNote == 45

Cost(chosen, f) == FileTokens[f] + (IF chosen = << >> THEN 0 ELSE Separator)
Spent(chosen) == Total([i \in DOMAIN chosen |-> FileTokens[chosen[i]]])
                     + Separator * Most(0, Len(chosen) - 1)

Taken(files, limit) ==
    Folded(LAMBDA chosen, f : IF Spent(chosen) + Cost(chosen, f) <= limit
                              THEN Append(chosen, f) ELSE chosen,
           << >>, files)

\* Blocks from the end make room for the note that something is missing.
Trimmed(chosen, limit) ==
    LET fits == {n \in 0..Len(chosen) :
                    n = 0 \/ Spent(SubSeq(chosen, 1, n)) + Separator + OmissionNote <= limit}
    IN SubSeq(chosen, 1, Max(fits))

Kept(files, limit) ==
    LET all == Taken(files, limit) IN
    IF Len(all) = Len(files) THEN all ELSE Trimmed(all, limit)

\* FileReadReport: what is missing is noted if the note still fits.
Report(files, kept, limit) ==
    LET note == Len(kept) < Len(files)
                    /\ Spent(kept) + OmissionNote + (IF kept = << >> THEN 0 ELSE Separator) <= limit
    IN [included |-> ToSet(kept) \cap Readable,
        omitted |-> (ToSet(files) \cap Readable) \ ToSet(kept),
        unavailable |-> ToSet(files) \ Readable,
        required |-> Spent(files),
        tokens |-> Spent(kept) + (IF note THEN OmissionNote ELSE 0)]

ReadEach(files, limit) == Report(files, Kept(files, limit), limit)
ReadFiles(paths, limit) == ReadEach(ExpandFileInputs(paths), limit)

NoFiles == [included |-> {}, omitted |-> {}, unavailable |-> {}, required |-> 0, tokens |-> 0]

\* check_total_file_size refuses what the reader could not take whole.
TooLarge(report, limit) == report.required > limit

-----------------------------------------------------------------------------
(* build_conversation_history: newest turns first until one does not fit. *)

TurnsShown(turns, model, fileTokens) ==
    LET fits(n) == FrameTokens + fileTokens
                       + Total([i \in 1..n |-> Reverse(turns)[i].tokens])
                       <= Allocation(model).history
    IN Max({0} \cup {n \in 1..Len(turns) : fits(n)})

HistoryTokens(turns, model, fileTokens) ==
    LET shown == TurnsShown(turns, model, fileTokens) IN
    FrameTokens + fileTokens + ClosingTokens
        + Total([i \in 1..shown |-> Reverse(turns)[i].tokens])

\* The last turn is the current input, whose text is put outside the history.
Blanked(turns) == [turns EXCEPT ![Len(turns)].tokens = 10]

\* remaining_input_budget: everything but the files.
Remaining(turns, input, model) ==
    Most(0, Allocation(model).content
                - HistoryTokens(Blanked(turns), model, 0) - input - SystemTokens
                - ImageTokens * Cardinality(ConversationImages(turns)))

-----------------------------------------------------------------------------
(* The prompt of a simple tool's request: invocation_history for a follow-up,          *)
(* _prepare_file_content_for_prompt for a first request; then the checks of execute.  *)

\* _validate_image_limits counts the images of the whole conversation.
ImagesRefused(turns, model) ==
    LET images == Cardinality(ConversationImages(turns)) IN
    images > 0 /\ (~model.vision \/ images > MaxImages)

PlanWith(turns, requested, input, model, limit, report) ==
    LET followUp == Len(turns) > 1
        text == input + SystemTokens + FollowUpTokens
                    + (IF followUp THEN HistoryTokens(Blanked(turns), model, report.tokens)
                                   ELSE report.tokens)
        refused == TooLarge(report, limit)
                       /\ (followUp => report.omitted \cap ToSet(ExpandFileInputs(requested)) # {})
    IN [outcome |-> IF ~model.verified THEN "unverified"
                    ELSE IF refused THEN "code_too_large"
                    ELSE IF ImagesRefused(turns, model) THEN "images"
                    ELSE IF ~Fits(model, text, Cardinality(ConversationImages(turns))) THEN "too_large"
                    ELSE "sent",
        report |-> report, limit |-> limit, text |-> text,
        shown |-> IF followUp THEN TurnsShown(Blanked(turns), model, report.tokens) ELSE 0]

Plan(turns, requested, input, model) ==
    LET files == IF Len(turns) > 1 THEN ConversationFiles(turns) ELSE requested
        limit == FileLimit(model, Remaining(turns, input, model))
    IN PlanWith(turns, requested, input, model, limit,
                IF files = << >> THEN NoFiles ELSE ReadFiles(files, limit))
=============================================================================
