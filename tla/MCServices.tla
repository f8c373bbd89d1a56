----------------------------- MODULE MCServices -----------------------------
(***************************************************************************)
(* What the engine does at the request of the shell: a behaviour is one of *)
(* three imports that publish to one library, one of corpus synthesis, one *)
(* of requests that switch, import, pause, cancel and shut down, one of    *)
(* questions in a conversation, or one of an answer on its way.  They have *)
(* nothing in common, so that a run of each is enough; the properties are  *)
(* the same where the code promises the same.                              *)
(***************************************************************************)
EXTENDS MCImportJobs, Sequences

CONSTANTS
    d1, d2, i1, i2, x,                      \* documents, identities and an item
    a1, a2, s1, o1, o2, p1, q1, c1, k1, k2  \* requests and knowledge bases

VARIABLES
    part,
    registry, available, graph, work, generation, count, current, suspended, synthesized, gateway,
    rerun, running, pipe, env, events,
    reader, target, told, active, cancelled, nonCancelable, queue, pc, bound, found, reply,
    transitioning, leases, paused, stopped, controls, lock, activity, kb, imported, changed, plan,
    jobs, happens, exists, messages, flat, task,
    waiter, attempt, slot, stopped_by_user, provider, sent, chunks, streams, client, visible,
    shell, rest, stored

SynthesisDocs == {d1, d2}
SynthesisIdentities == {i1, i2}
SynthesisItems == {x}
SynthesisMentions == (d1 :> {i1}) @@ (d2 :> {i1, i2})
SynthesisEnvs ==
    {{"graph"}, {"availability", "call_fails", "invalid"},
     {"reanalysis", "direct", "unqualified"}, {"open", "other", "retire"},
     {"open", "crash", "db_error"}}

\* The instances are of the modules with the proofs, whose theorems hold of these parts.
Synthesis == INSTANCE CorpusSynthesisProofs WITH
    Docs <- SynthesisDocs, Identities <- SynthesisIdentities, Items <- SynthesisItems,
    Mentions <- SynthesisMentions, Envs <- SynthesisEnvs,
    MaxCandidates <- 2, MaxGenerations <- 8, MaxEvents <- 4, active <- synthesized

\* Two imports, one of which may be resumed, two switches, and requests about the first.
EngineRequests == {a1, a2, s1, o1, o2, p1, q1, c1}
EngineMethod ==
    [r \in EngineRequests |->
        CASE r \in {a1, a2} -> "import" [] r = s1 -> "resume" [] r \in {o1, o2} -> "open"
          [] r = p1 -> "page" [] r = q1 -> "pause" [] r = c1 -> "cancel"]
EngineParam ==
    [r \in EngineRequests |->
        CASE r = o1 -> k1 [] r = o2 -> k2 [] r \in {s1, q1, c1} -> a1 [] OTHER -> None]
EnginePlans ==
    {[requests |-> {a1, a2, o2}, env |-> {"fail"}],
     [requests |-> {a1, o2, p1}, env |-> {}],
     [requests |-> {a1, o1, s1, q1}, env |-> {}],
     [requests |-> {a1, o1, o2}, env |-> {"fail"}],
     [requests |-> {a1, q1, s1, c1}, env |-> {}],
     [requests |-> {a1, a2, p1}, env |-> {"eof"}],
     [requests |-> {a1, o2}, env |-> {"cancel", "shutdown"}]}

EngineBases == {k1, k2}

\* Four requests about one conversation, or about the flat answers.
AskTwiceAnd(third, fourth) == <<"ask", "ask", third, fourth>>
ConversationJobs ==
    {AskTwiceAnd("regenerate", "regenerate"), AskTwiceAnd("ask", "regenerate"),
     <<"answer", "retry", "retry", "ask">>}
ConversationEnvs ==
    {{"select", "reopen"}, {"select", "raise", "write_fails"}, {"delete", "restart", "raise"},
     {"reopen", "raise"}}

\* Conversations, with the EngineServer as Requests!Engine and an AnswerStream as
\* Requests!Stream.
Requests == INSTANCE RequestsProofs WITH
    Tasks <- 1..4, Jobs <- ConversationJobs, Envs <- ConversationEnvs, ContextTurns <- 1,
    env <- happens,
    Requests <- EngineRequests, Method <- EngineMethod, Param <- EngineParam,
    KnowledgeBases <- EngineBases, First <- k1, PoolSize <- 3, MaxStages <- 2,
    Plans <- EnginePlans, job <- imported,
    MaxAttempts <- 3, MaxChunks <- 2

ASSUME ServicesAssumption ==
    /\ Synthesis!CorpusAssumption
    /\ Requests!Engine!EngineAssumption
    /\ Requests!ConversationAssumption
    /\ Requests!Stream!StreamAssumption

synthesis == <<registry, available, graph, work, generation, count, current, suspended, synthesized,
               gateway, rerun, running, pipe, env, events>>
engine == <<reader, target, told, active, cancelled, nonCancelable, queue, pc, bound, found,
            reply, transitioning, leases, paused, stopped, controls, lock, activity, kb, imported,
            changed, plan>>
chat == <<jobs, happens, exists, messages, flat, task>>
stream == <<waiter, attempt, slot, stopped_by_user, provider, sent, chunks, streams, client,
            visible, shell, rest, stored>>
all == <<part, vars, synthesis, engine, chat, stream>>

NoSynthesis ==
    /\ registry = None /\ available = None /\ graph = None /\ work = None
    /\ generation = None /\ count = None /\ current = None /\ suspended = None
    /\ synthesized = None /\ gateway = None /\ rerun = None /\ running = None /\ pipe = None
    /\ env = None /\ events = None
NoEngine ==
    /\ reader = None /\ target = None /\ told = None /\ active = None /\ cancelled = None
    /\ nonCancelable = None /\ queue = None /\ pc = None /\ bound = None /\ found = None
    /\ reply = None /\ transitioning = None /\ leases = None /\ paused = None /\ stopped = None
    /\ controls = None /\ lock = None /\ activity = None /\ kb = None /\ imported = None
    /\ changed = None /\ plan = None

NoChat ==
    /\ jobs = None /\ happens = None /\ exists = None /\ messages = None /\ flat = None
    /\ task = None
NoStream ==
    /\ waiter = None /\ attempt = None /\ slot = None /\ stopped_by_user = None
    /\ provider = None /\ sent = None /\ chunks = None /\ streams = None /\ client = None
    /\ visible = None /\ shell = None /\ rest = None /\ stored = None

\* While it is another part, the library is empty.
NoImports ==
    /\ source = CHOOSE f \in Sources : TRUE
    /\ job = [j \in Jobs |-> "absent"] /\ stage = [j \in Jobs |-> Fresh]
    /\ ckpt = [j \in Jobs |-> NoCheckpoints] /\ quarantined = [j \in Jobs |-> None]
    /\ document = [j \in Jobs |-> None] /\ docs = [b \in Bytes |-> None] /\ open = FALSE
    /\ wk = [w \in Workers |-> Thread("idle", None)]
    /\ reg = [j \in Jobs |-> None] /\ cancelling = [j \in Jobs |-> "no"]

MCInit ==
    \/ part = "imports" /\ Init /\ NoSynthesis /\ NoEngine /\ NoChat /\ NoStream
    \/ part = "synthesis" /\ Synthesis!Init /\ NoImports /\ NoEngine /\ NoChat /\ NoStream
    \/ part = "engine" /\ Requests!Engine!Init /\ NoImports /\ NoSynthesis /\ NoChat /\ NoStream
    \/ part = "chat" /\ Requests!Init /\ NoImports /\ NoSynthesis /\ NoEngine /\ NoStream
    \/ part = "stream" /\ Requests!Stream!Init /\ NoImports /\ NoSynthesis /\ NoEngine /\ NoChat

OfImports == part = "imports" /\ UNCHANGED <<part, synthesis, engine, chat, stream>>
OfSynthesis == part = "synthesis" /\ UNCHANGED <<part, vars, engine, chat, stream>>
OfEngine == part = "engine" /\ UNCHANGED <<part, vars, synthesis, chat, stream>>
OfChat == part = "chat" /\ UNCHANGED <<part, vars, synthesis, engine, stream>>
OfStream == part = "stream" /\ UNCHANGED <<part, vars, synthesis, engine, chat>>

MCNext ==
    \/ OfImports /\ Next
    \/ OfSynthesis /\ Synthesis!Next
    \/ OfEngine /\ Requests!Engine!Next
    \/ OfChat /\ Requests!Next
    \/ OfStream /\ Requests!Stream!Next

\* Threads run, the provider answers or its calls end, and so do the stages of an import; but
\* the provider of a streamed answer may be silent for ever.
MCSpec ==
    /\ MCInit /\ [][MCNext]_all
    /\ WF_all(\/ OfSynthesis /\ Synthesis!WorkerStep
              \/ OfEngine /\ Requests!Engine!Serve
              \/ OfChat /\ Requests!TaskStep
              \/ OfStream /\ (Requests!Stream!RequestStep \/ Requests!Stream!Unblocked))
    /\ \A p \in {"worker", "reanalysis"} : WF_all(OfSynthesis /\ Synthesis!Pipeline(p))

\* Every row, frame and request has a state that the code knows.
ServicesTypeOK ==
    CASE part = "imports" -> TypeOK
      [] part = "synthesis" -> Synthesis!TypeOK
      [] part = "engine" -> Requests!Engine!TypeOK
      [] part = "chat" -> Requests!TypeOK
      [] part = "stream" -> Requests!Stream!TypeOK

\* A generation that is not finished belongs to the thread that prepared it; a running
\* import to one thread, which honours the control that the engine finds for its job; a
\* message that is generating to a thread, and a connection to a request that waits for it.
WorkHasItsOwner ==
    CASE part = "imports" -> TRUE  \* see MCInterrupted and ImportJobs_cancelled.cfg
      [] part = "synthesis" -> Synthesis!PendingIsWorkedOn
      [] part = "engine" -> Requests!Engine!RunningImportHasItsControl
      [] part = "chat" -> Requests!GeneratingIsWorkedOn
      [] part = "stream" -> Requests!Stream!ConnectionsAreOwned

\* Whoever works on a knowledge base finds it bound until the work is done.
BindingIsStable == part = "engine" => Requests!Engine!BindingIsStable

\* A request that was reported as cancelled changes nothing.
CancellationIsTruthful == part = "engine" => Requests!Engine!CancellationIsTruthful

\* No change of a document is consumed by a generation that does not render it.
ConsumedIsRendered == part = "synthesis" => Synthesis!ConsumedIsRendered

\* What the user sees of an answer is what is stored of it: a settled message shows the
\* status of its selected version, and a stream ends with the text of the answer.
ShownIsStored ==
    /\ part = "chat" => Requests!StatusIsOfSelected
    /\ part = "stream" => Requests!Stream!ShownIsStored /\ Requests!Stream!AttemptsAreNotMixed

\* Only completed answers to earlier questions are the context of another.
ContextIsSettled == part = "chat" => Requests!ContextIsSettled

\* Two answers of a conversation are not generated at once.
OneAnswerAtATime == part = "chat" => Requests!OneAnswerAtATime

\* What has failed, was cancelled or superseded is not revived by a late thread, and what
\* was answered is not lost.
TerminalStays ==
    [][/\ part = "synthesis" => Synthesis!StaysTerminal
       /\ part = "chat" => Requests!AnswersAreKept]_all

\* What becomes current was made from what is current.
ActivationIsCurrent == [][part = "synthesis" => Synthesis!ActivatesCurrent]_all

\* Queued work is served once the worker was started for it, and every request of the shell
\* is answered, whatever is switched, paused or shut down meanwhile; a question does not stay
\* unanswered if its end can be stored; and whatever the provider does, a request that was
\* stopped ends, with its connections.
Awaits(d) ==
    \/ part = "synthesis" /\ Synthesis!WaitsForWorker(d)
    \/ part = "engine" /\ ~Requests!Engine!AllAreAnswered
    \/ part = "chat" /\ Requests!Generates
    \/ part = "stream" /\ stopped_by_user /\ ~Requests!Stream!HasStopped
IsServed(d) ==
    \/ part = "synthesis" /\ Synthesis!WorkIsDone(d)
    \/ part = "engine" /\ Requests!Engine!AllAreAnswered
    \/ part = "chat" /\ ~Requests!Generates
    \/ part = "stream" /\ Requests!Stream!HasStopped
RequestsAreServed == \A d \in SynthesisDocs : Awaits(d) ~> IsServed(d)

=============================================================================
