--------------------------- MODULE Conversations ---------------------------
(***************************************************************************)
(* openkb/answers/conversations.py, with conversation_snapshots.py, and    *)
(* the older answers/store.py: one conversation and the flat answers of a  *)
(* knowledge base while several requests work on them.                     *)
(*                                                                         *)
(* Each action is one transaction under the ingest lock.  A request begins *)
(* a turn or a regeneration in one, generates without a lock, and stores   *)
(* in another what it got, while versions are selected, the conversation   *)
(* is deleted, or the knowledge base is opened again under it: answers     *)
(* hold no lease, so the recovery of an opening may meet their threads.    *)
(*                                                                         *)
(* A message stands for a question and the assistant's message to it, a    *)
(* version for its answer; titles, drafts and citations are left out.      *)
(***************************************************************************)
EXTENDS Integers, Sequences, FiniteSets, SequencesExt

CONSTANTS
    Tasks,         \* the threads of requests
    Jobs,          \* what each of them may be asked to do: see Kinds
    ContextTurns,  \* how many turns enter the context of a question
    Envs           \* what may happen around them, a set for each behaviour

Kinds == {"ask", "regenerate", "answer", "retry"}
Events == {"select", "delete", "reopen", "restart", "raise", "write_fails"}

ConversationAssumption ==
    /\ Jobs \subseteq [Tasks -> Kinds]
    /\ ContextTurns \in Nat \ {0}
    /\ Envs \subseteq SUBSET Events

VARIABLES
    jobs,      \* jobs[t]: what task t does, one member of Jobs
    env,       \* what happens, one member of Envs
    exists,    \* whether the conversation is there
    messages,  \* its assistant messages in order, with their versions
    flat,      \* grounded_answers: the flat answers
    task       \* task[t]: how far task t is, on what, and the context it was given

vars == <<jobs, env, exists, messages, flat, task>>

\* No version is selected.
NoVersion == 0

\* Nothing was begun.
Idle == [pc |-> "idle", of |-> 0, context |-> <<>>]

Init ==
    /\ jobs \in Jobs
    /\ env \in Envs
    /\ exists = TRUE
    /\ messages = <<>>
    /\ flat = <<>>
    /\ task = [t \in Tasks |-> Idle]

-----------------------------------------------------------------------------
(* Reading the conversation.                                               *)

Works(t, kind) == task[t].pc = "working" /\ jobs[t] = kind
WorksOnMessage(t) == jobs[t] \in {"ask", "regenerate"} /\ task[t].pc = "working"

has_running_message == \E m \in DOMAIN messages : messages[m].status = "generating"

SelectedOf(m) == messages[m].versions[messages[m].selected]

\* The status that a message has when nobody works on it.
SettledStatus(m) ==
    IF messages[m].selected = NoVersion THEN "interrupted" ELSE SelectedOf(m).status

IsSettled(m) == messages[m].status = "completed" /\ SettledStatus(m) = "completed"

\* The last ContextTurns of some messages, each with the version that is selected.
LastTurns(turns) ==
    LET last == {m \in turns : Cardinality({k \in turns : k > m}) < ContextTurns}
    IN  [m \in last |-> messages[m].selected]

\* Near miss: the turns after the one that is regenerated enter its context.
context_of_all(before) == LastTurns({m \in DOMAIN messages : IsSettled(m)})

\* Near miss: whatever is selected enters the context.
context_of_any(before) ==
    LastTurns({m \in DOMAIN messages : m < before /\ messages[m].selected # NoVersion})

\* The last completed turns before a message; they are put in the order of their messages.
conversation_context(before) ==
    LastTurns({m \in DOMAIN messages : m < before /\ IsSettled(m)})

-----------------------------------------------------------------------------
(* Beginning.  A request that is refused leaves nothing behind.            *)

Begin(t, of, context) ==
    task' = [task EXCEPT ![t] = [pc |-> "working", of |-> of, context |-> context]]

begin_turn(t) ==
    /\ jobs[t] = "ask" /\ task[t].pc = "idle"
    /\ exists /\ ~has_running_message
    /\ LET m == Len(messages) + 1 IN
       /\ messages' =
              Append(messages, [status |-> "generating", selected |-> NoVersion, versions |-> <<>>])
       /\ Begin(t, m, conversation_context(m))
    /\ UNCHANGED <<jobs, env, exists, flat>>

\* Near miss: an answer that was never stored can be regenerated.
MayRegenerateAny(m) == TRUE

MayRegenerate(m) == messages[m].selected # NoVersion

begin_regeneration(t) ==
    /\ jobs[t] = "regenerate" /\ task[t].pc = "idle"
    /\ exists /\ ~has_running_message
    /\ \E m \in DOMAIN messages :
           /\ MayRegenerate(m)
           /\ messages' = [messages EXCEPT ![m].status = "generating"]
           /\ Begin(t, m, conversation_context(m))
    /\ UNCHANGED <<jobs, env, exists, flat>>

\* answer: nothing is stored before it is there.
BeginAnswer(t) ==
    /\ jobs[t] = "answer" /\ task[t].pc = "idle"
    /\ Begin(t, 0, <<>>)
    /\ UNCHANGED <<jobs, env, exists, messages, flat>>

\* retry: of an interrupted answer, which stays until it can be replaced.
BeginRetry(t) ==
    /\ jobs[t] = "retry" /\ task[t].pc = "idle"
    /\ \E a \in DOMAIN flat : flat[a].status = "interrupted" /\ Begin(t, a, <<>>)
    /\ UNCHANGED <<jobs, env, exists, messages, flat>>

-----------------------------------------------------------------------------
(* Ending.  The message may be gone, or may not be generating any more.    *)

Ends(t) == task' = [task EXCEPT ![t].pc = "done"]

Version(t, status) == [status |-> status, context |-> task[t].context]

\* The version is selected, and the message shows its status.
append_answer_version(m, version) ==
    [messages EXCEPT ![m] = [status |-> version.status, selected |-> Len(@.versions) + 1,
                             versions |-> Append(@.versions, version)]]

\* Near miss: a regeneration that fails leaves the message generating.
restore_nothing(m) == messages

restore_selected_answer_status(m) == [messages EXCEPT ![m].status = SettledStatus(m)]

mark_generation_failed(m) == [messages EXCEPT ![m].status = "interrupted"]

\* The conversation was deleted meanwhile: nothing is updated.
IfThere(m, value) == messages' = IF m \in DOMAIN messages THEN value ELSE messages

\* Near miss: a regeneration stores what it got, as a first answer does.
FinishAnyAnswer(t, status) ==
    LET m == task[t].of IN
    /\ WorksOnMessage(t)
    /\ IfThere(m, append_answer_version(m, Version(t, status)))
    /\ Ends(t)
    /\ UNCHANGED <<jobs, env, exists, flat>>

\* generate has returned an answer, completed or interrupted.  A regeneration keeps
\* complete answers only.
FinishAnswer(t, status) ==
    LET m == task[t].of IN
    /\ WorksOnMessage(t)
    /\ IF jobs[t] = "ask" \/ status = "completed"
       THEN IfThere(m, append_answer_version(m, Version(t, status)))
       ELSE IfThere(m, restore_selected_answer_status(m))
    /\ Ends(t)
    /\ UNCHANGED <<jobs, env, exists, flat>>

\* generate has raised.
FailAnswer(t) ==
    LET m == task[t].of IN
    /\ "raise" \in env
    /\ WorksOnMessage(t)
    /\ IF jobs[t] = "ask"
       THEN IfThere(m, mark_generation_failed(m))
       ELSE IfThere(m, restore_selected_answer_status(m))
    /\ Ends(t)
    /\ UNCHANGED <<jobs, env, exists, flat>>

\* The last transaction fails itself; nothing tries it again.
LoseAnswer(t) ==
    /\ "write_fails" \in env
    /\ WorksOnMessage(t)
    /\ task' = [task EXCEPT ![t].pc = "lost"]
    /\ UNCHANGED <<jobs, env, exists, messages, flat>>

SaveFlat(t, status) ==
    /\ Works(t, "answer")
    /\ flat' = Append(flat, [status |-> status, by |-> t])
    /\ Ends(t)
    /\ UNCHANGED <<jobs, env, exists, messages>>

\* Near miss: the answer is replaced, whatever has become of it.
replace_any(a, t) == [flat EXCEPT ![a] = [status |-> "completed", by |-> t]]

\* An answer that is not interrupted any more is not replaced: the retry is refused.
replace_interrupted(a, t) ==
    IF flat[a].status = "interrupted"
    THEN [flat EXCEPT ![a] = [status |-> "completed", by |-> t]] ELSE flat

FinishRetry(t, status) ==
    /\ Works(t, "retry")
    /\ flat' = IF status = "completed" THEN replace_interrupted(task[t].of, t) ELSE flat
    /\ Ends(t)
    /\ UNCHANGED <<jobs, env, exists, messages>>

-----------------------------------------------------------------------------
(* Around the tasks.                                                       *)

\* At any time, also while the message is generating.
select_answer_version ==
    /\ "select" \in env
    /\ \E m \in DOMAIN messages : \E v \in DOMAIN messages[m].versions :
           messages' = [messages EXCEPT ![m] = [status |-> @.versions[v].status, selected |-> v,
                                                versions |-> @.versions]]
    /\ UNCHANGED <<jobs, env, exists, flat, task>>

\* Messages and versions go with it.
delete ==
    /\ "delete" \in env
    /\ exists /\ exists' = FALSE
    /\ messages' = <<>>
    /\ UNCHANGED <<jobs, env, flat, task>>

\* Near miss: what is generating was interrupted.
recover_as_interrupted ==
    [m \in DOMAIN messages |->
        IF messages[m].status = "generating" THEN [messages[m] EXCEPT !.status = "interrupted"]
        ELSE messages[m]]

recover_generating_messages ==
    [m \in DOMAIN messages |->
        IF messages[m].status = "generating" THEN [messages[m] EXCEPT !.status = SettledStatus(m)]
        ELSE messages[m]]

\* recover_stale_conversation_generations, when the knowledge base is opened again
\* while its threads go on (once in a behaviour).
Reopen ==
    /\ "reopen" \in env
    /\ env' = env \ {"reopen"}
    /\ messages' = recover_generating_messages
    /\ UNCHANGED <<jobs, exists, flat, task>>

\* ... or after the engine was gone.
Restart ==
    /\ "restart" \in env
    /\ env' = env \ {"restart"}
    /\ messages' = recover_generating_messages
    /\ task' = [t \in Tasks |-> IF task[t].pc = "idle" THEN task[t] ELSE [task[t] EXCEPT !.pc = "done"]]
    /\ UNCHANGED <<jobs, exists, flat>>

\* What a thread does when its generation has come to an end.
End(t) ==
    \/ \E status \in {"completed", "interrupted"} :
           FinishAnswer(t, status) \/ SaveFlat(t, status) \/ FinishRetry(t, status)
    \/ FailAnswer(t)
    \/ LoseAnswer(t)

TaskStep == \E t \in Tasks : End(t)

Next ==
    \/ \E t \in Tasks :
           begin_turn(t) \/ begin_regeneration(t) \/ BeginAnswer(t) \/ BeginRetry(t)
    \/ TaskStep
    \/ select_answer_version
    \/ delete
    \/ Reopen
    \/ Restart

Spec == Init /\ [][Next]_vars

-----------------------------------------------------------------------------
TypeOK ==
    /\ jobs \in Jobs /\ exists \in BOOLEAN
    /\ \A m \in DOMAIN messages :
           /\ messages[m].status \in {"completed", "generating", "interrupted"}
           /\ messages[m].selected \in {NoVersion} \cup DOMAIN messages[m].versions
    /\ \A t \in Tasks : task[t].pc \in {"idle", "working", "lost", "done"}

\* A message that is not generating shows the status of the version that is selected.
StatusIsOfSelected ==
    \A m \in DOMAIN messages :
        messages[m].status # "generating" => messages[m].status = SettledStatus(m)

\* A message that is generating has a thread, unless that thread could not store its end:
\* it does not block the conversation for ever.
GeneratingIsWorkedOn ==
    \A m \in DOMAIN messages : messages[m].status = "generating" =>
        \E t \in Tasks :
            /\ jobs[t] \in {"ask", "regenerate"} /\ task[t].of = m
            /\ task[t].pc \in {"working", "lost"}

\* An answer was made in the light of completed answers to earlier questions only
\* (ADR 0024: "Interrupted Answers never enter that context").
ContextIsSettled ==
    \A m \in DOMAIN messages : \A v \in DOMAIN messages[m].versions :
        LET context == messages[m].versions[v].context IN
        /\ Cardinality(DOMAIN context) <= ContextTurns
        /\ \A k \in DOMAIN context :
               k < m /\ messages[k].versions[context[k]].status = "completed"

\* Answers are snapshots: no version of a conversation changes, a completed flat answer is
\* never replaced, and only the user replaces a completed version by one that is not.
AnswersAreKept ==
    /\ \A m \in DOMAIN messages : m \in DOMAIN messages' =>
           /\ IsPrefix(messages[m].versions, messages'[m].versions)
           /\ messages[m].selected # NoVersion /\ SelectedOf(m).status = "completed" =>
                  messages'[m].selected \in DOMAIN messages[m].versions
                  \/ SettledStatus(m)' = "completed"
    /\ \A a \in DOMAIN flat : flat[a].status = "completed" => flat'[a] = flat[a]

\* A conversation runs one answer at a time (docs/design, 6.4).
OneAnswerAtATime ==
    exists => Cardinality({t \in Tasks : WorksOnMessage(t)}) <= 1

\* Nothing goes on.
Generates == has_running_message /\ \A t \in Tasks : task[t].pc # "lost"

=============================================================================
