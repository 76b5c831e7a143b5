----------------------------- MODULE Preparation -----------------------------
(***************************************************************************)
(* What server.py and tools/simple/base.py decide between the arrival of a *)
(* request to a simple tool and its provider call: the model and its       *)
(* provider (ModelPolicy), what the prompt holds (ContextPlan) and what    *)
(* the provider sends of it (ProviderRequest).  One conversation, in a     *)
(* server whose restriction service learns from every question it is       *)
(* asked, those of other conversations included.                           *)
(***************************************************************************)
EXTENDS ModelAdvice, ProviderRequest

CONSTANTS Policies,        \* the configurations considered
          Requests,        \* [model, category, files, images, input, temperature, thinking]
          Base(_),         \* a tagged name without its last tag
          Stances,         \* the tagged names whose last tag is a stance
          Dialect,         \* provider -> how it is talked to
          DefaultTemperature,  \* the tool's, in tenths
          PromptLimit,     \* MCP_PROMPT_SIZE_LIMIT
          ClarificationTokens, \* the plea added to a prompt that was answered by nothing
          ReplyTokens      \* the sizes of replies considered

\* Names are those of Names; AutoMode and None are none of them.
ASSUME PreparationAssumption ==
    /\ AutoMode \notin Names \cup {None}
    /\ \A p \in Policies :
          /\ p.allow \in [ProviderSet -> SUBSET Names]
          /\ p.preferred \in Seq(Names)
          /\ p.default \in Names \cup {AutoMode}
    /\ \A request \in Requests :
          /\ DOMAIN request = {"model", "category", "files", "images", "input", "temperature", "thinking"}
          /\ request.model \in Names \cup {AutoMode, None}
          /\ request.files \in Seq(Paths) /\ IsFiniteSet(request.images) /\ request.input \in Nat
          /\ request.temperature \in Nat \cup {None} /\ request.thinking \in DOMAIN Permille
    /\ \A name \in Stances : Base(name) \in Names
    /\ ReplyTokens \subseteq Nat /\ {DefaultTemperature, ClarificationTokens} \subseteq Nat

VARIABLES policy, st, turns, prepared

vars == <<policy, st, turns, prepared>>

Idle == [request |-> None]

Categories == {request.category : request \in Requests}

Init ==
    /\ Starts
    /\ policy \in Policies
    /\ st = policy.allow
    /\ turns = << >>
    /\ prepared = Idle

-----------------------------------------------------------------------------
(* Which model. *)

\* _dispatch_tool: a follow-up that names no model goes to that of the last reply.
Wanted(request) ==
    LET replies == {i \in DOMAIN turns : turns[i].role = "assistant"} IN
    IF request.model # None THEN request.model
    ELSE IF replies # {} THEN turns[Max(replies)].model
    ELSE policy.default

\* parse_model_option: registered names are whole; otherwise only a stance may be cut off.
Parsed(policies, learned, name) ==
    IF name \notin Tagged \/ CatalogIdentity(name) # NoIdentity THEN name
    ELSE IF name \in Stances /\ Identity(policies, learned, Base(name)) # NoIdentity THEN Base(name)
    ELSE None

\* The names a wish may end up as; None is a refusal.
Candidates(request) ==
    IF Wanted(request) # AutoMode THEN {Parsed(policy, st, Wanted(request))}
    ELSE Fallbacks(policy, st, request.category)

\* What the service is asked on the way: auto mode and the message of a refusal list models.
Questions(request, name) ==
    IF Wanted(request) = AutoMode \/ name = None THEN AllQueries
    ELSE LET id == Routed(policy, st, name) IN
         IF id = NoIdentity THEN AllQueries ELSE {<<id.provider, id.model>>}

-----------------------------------------------------------------------------
(* Steps. *)

Turn(role, files, images, tokens, model) ==
    [role |-> role, files |-> files, images |-> images, tokens |-> tokens, model |-> model]

PlanFor(id, after, request) ==
    Plan(after, request.files, request.input, CapabilitiesOf(id.provider, id.model))

\* What execute passes to the provider, and what the provider makes of it.
SentFor(id, after, request, plan) ==
    LET c == CapabilitiesOf(id.provider, id.model) IN
    IF plan.outcome # "sent" THEN Refusal
    ELSE ProviderCall(Dialect[id.provider], c,
             [temperature |-> ToolTemperature(c, request.temperature, DefaultTemperature),
              thinking |-> request.thinking, images |-> ConversationImages(after),
              limit |-> c.window - Allocation(c).content])

IsSent == prepared # Idle /\ prepared.sent.outcome = "sent"

Returns(verdict) ==
    verdict \in {Verdict(Dialect[prepared.identity.provider], response, prepared.retried) :
                    response \in Responses}

\* Admission takes no prompt that is too long, and needs room for an input and a reply.
IsAdmissible(request) == request.input <= PromptLimit /\ Len(turns) + 2 <= MaxTurns

\* Refused before anything is saved: for its model, or, the model being chosen, by admission.
Refuse(request) ==
    /\ prepared = Idle
    /\ \E name \in IF Candidates(request) = {} THEN {None} ELSE Candidates(request) :
         /\ name = None \/ ~IsAdmissible(request) \/ Routed(policy, st, name) = NoIdentity
         /\ st' = Learn(st, Questions(request, name))
    /\ UNCHANGED <<policy, turns, prepared>>

\* conversation_request: a prompt.txt takes the place of the prompt, directories that of
\* their files.
Admitted(request) ==
    [request EXCEPT !.files = AdmittedFiles(@), !.input = AdmittedInput(request.files, @)]

\* The input is saved, then the prompt is put together; refusals leave the input.
Prepare(request) ==
    /\ prepared = Idle
    /\ IsAdmissible(request)
    /\ \E r \in {Admitted(request)} :
       /\ turns' = Append(turns, Turn("user", r.files, r.images, r.input, None))
       /\ \E name \in Candidates(r) \ {None} : \E id \in {Routed(policy, st, name)} \ {NoIdentity} :
            /\ st' = Learn(st, Questions(r, name))
            /\ \E plan \in {PlanFor(id, turns', r)} :
                   prepared' = [request |-> r, asked |-> request.files,
                                wish |-> Wanted(r), name |-> name,
                                identity |-> id, wire |-> WireName(id.provider, id.model),
                                plan |-> plan, sent |-> SentFor(id, turns', r, plan),
                                retried |-> FALSE]
    /\ UNCHANGED policy

\* The plea is sent if the longer prompt fits.
Clarify ==
    /\ IsSent /\ Returns("clarify")
    /\ LET text == prepared.plan.text + ClarificationTokens IN
       /\ Fits(CapabilitiesOf(prepared.identity.provider, prepared.identity.model), text,
               Cardinality(ConversationImages(turns)))
       /\ prepared' = [prepared EXCEPT !.retried = TRUE, !.plan.text = text]
    /\ UNCHANGED <<policy, st, turns>>

\* The reply is saved with the name the request resolved to.
Answer(tokens) ==
    /\ IsSent /\ Returns("answer")
    /\ turns' = Append(turns, Turn("assistant", << >>, {}, tokens, prepared.name))
    /\ prepared' = Idle
    /\ UNCHANGED <<policy, st>>

\* A refusal, an error of the provider, or a response that is no answer: the input stays
\* without a reply.
Fail ==
    /\ prepared # Idle
    /\ prepared' = Idle
    /\ UNCHANGED <<policy, st, turns>>

\* listmodels, or a request of another conversation.
ListModels ==
    /\ st' = Learn(st, AllQueries)
    /\ UNCHANGED <<policy, turns, prepared>>

Next ==
    \/ \E request \in Requests : Refuse(request) \/ Prepare(request)
    \/ \E tokens \in ReplyTokens : Answer(tokens)
    \/ Clarify
    \/ Fail
    \/ ListModels

Spec == Init /\ [][Next]_vars

-----------------------------------------------------------------------------
(* Properties. *)

\* The configuration, read without the service: a model may be used if an allowlist
\* that exists names it or an alias of it and no deny does.
Permitted(p, canonical) ==
    /\ \/ policy.allow[p] = {}
       \/ \E n \in policy.allow[p] : CanonicalAt(p, n) = canonical
    /\ ~\E d \in policy.disabled : d[1] \in {None, p} /\ CanonicalAt(p, d[2]) = canonical

\* What the service learns is a cache: neither where a name leads nor what clients are
\* told depends on the questions it was asked before.  (Looked at between requests, where
\* every state of the service is met.)
PolicyIsStable ==
    prepared = Idle =>
    /\ Available(policy, st) = Available(policy, policy.allow)
    /\ \A category \in Categories :
           Fallbacks(policy, st, category) = Fallbacks(policy, policy.allow, category)
    /\ Summarised(policy, Learned(st)) = Summarised(policy, Learned(policy.allow))
    /\ Routes(policy, st) = Routes(policy, policy.allow)

\* listmodels: a name is under the provider that would serve it, and every advertised
\* name is there, but for an alias whose model another provider serves.
ListsWhatIsServed(listing, available, served) ==
    /\ \A p \in ProviderSet : \A n \in listing[p] :
           served[n].provider = p /\ Permitted(p, served[n].model)
    /\ \A n \in available \ UNION {listing[p] : p \in ProviderSet} :
           served[n].model # n /\ served[served[n].model] # served[n]

\* What listmodels shows can be called.  Schemas and refusals name exactly the models the
\* advertised names stand for; auto mode takes an advertised one, or an alias that is
\* preferred by that name, and a default that a schema offers instead of a choice is one
\* that is served.
AdviceIsSound ==
    prepared = Idle =>
    LET learned == Learned(st) IN
    /\ ListsWhatIsServed(Listing(policy, learned), Available(policy, st), Routes(policy, learned))
    /\ Summarised(policy, learned) = {Routed(policy, learned, n).model : n \in Available(policy, st)}
    /\ \A category \in Categories :
           Fallbacks(policy, st, category) \subseteq Available(policy, st) \cup ToSet(policy.preferred)
    /\ ~IsEffectiveAutoMode(policy, st) =>
           Routed(policy, st, Parsed(policy, st, policy.default)) # NoIdentity

\* A request only ever goes to a permitted model; in auto mode to an advertised or preferred
\* one, and a follow-up that names none to the name that answered last.
ChosenIsPermitted ==
    prepared # Idle =>
        /\ Permitted(prepared.identity.provider, prepared.identity.model)
        /\ prepared.wish = AutoMode =>
               prepared.name \in Available(policy, st) \cup ToSet(policy.preferred)
        /\ prepared.wish \notin {AutoMode, prepared.name} => prepared.wish \in Stances

\* What a catalog has to say of a model for its endpoint to be usable: where the limit of
\* an answer goes and, for Gemini, how a model that thinks is told how much.
IsCallable(dialect, c) ==
    IF dialect = "gemini"
    THEN /\ c.field \in {None, "max_output_tokens"}
         /\ c.thinks => \/ /\ c.control = "thinking_level"
                           /\ c.levels # {} /\ c.levels \subseteq ToSet(Levels)
                        \/ /\ c.control = "thinking_budget"
                           /\ c.levels = {} /\ \A mode \in DOMAIN Permille : ThinkingBudget(c, mode) > 0
    ELSE OutputField(c) # None /\ (dialect = "dial" => ~c.responses)

\* What goes out is for the model that was chosen and is what it takes: an accepted
\* temperature or none, a thinking control it has, images only if it sees; with the answer it
\* reserves it fits the window, the plea of a retry included.  Past the checks of the tool
\* a provider refuses no request, but models of which the catalog says too little.
SentIsAcceptable ==
    prepared # Idle =>
        LET p == prepared.identity.provider
            c == CapabilitiesOf(p, prepared.identity.model)
            sent == prepared.sent
        IN /\ CanonicalAt(p, prepared.wire) = prepared.identity.model
           /\ IsSent =>
                /\ sent.temperature \subseteq c.temperatures
                /\ \A control \in sent.thinking :
                       \/ control[1] = "level" /\ control[2] \in c.levels
                       \/ control[1] = "budget" /\ control[2] \in 1..c.budget
                /\ sent.images # {} => c.vision
                /\ Estimate(prepared.plan.text, Cardinality(sent.images)) + sent.limit <= c.window
           /\ prepared.plan.outcome = "sent" /\ ~IsSent => ~IsCallable(Dialect[p], c)

\* The directories from which a walk comes to p, seen from p.
Above[p \in DOMAIN Tree] ==
    IF Tree[p].skipped \/ Tree[p].in = p THEN {} ELSE {Tree[p].in} \cup Above[Tree[p].in]

\* The files a path means: that itself, or the visible code below a directory.
MeantBy == [f \in Paths |->
    {CanonicalPath[p] : p \in {p \in Readable :
        p = f \/ (/\ Tree[p].code /\ Above[p] \cap Own = {}
                 /\ f \notin Rejected /\ CanonicalPath[f] \in Above[p])}}]

Meant(files) == UNION {MeantBy[f] : f \in ToSet(files)}

\* What is asked for now, by whatever path and in whatever directory, is in the prompt
\* once, whatever older files of the conversation compete with it, or cannot be read, or the
\* request is refused; and files are fitted to what the rest leaves: a prompt refused as
\* too large would be too large without them.
FilesAreFitted ==
    prepared # Idle =>
        LET plan == prepared.plan
            bare == [i \in DOMAIN turns |-> [turns[i] EXCEPT !.files = << >>]]
        IN /\ plan.outcome = "sent" => Meant(OtherFiles(prepared.asked)) \subseteq plan.report.included
           /\ \A f \in plan.report.included : CanonicalPath[f] = f
           /\ plan.outcome = "too_large" =>
                  Plan(bare, << >>, prepared.request.input,
                       CapabilitiesOf(prepared.identity.provider, prepared.identity.model)).outcome
                    = "too_large"
=============================================================================
