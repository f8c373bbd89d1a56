---------------------------- MODULE AnswerStream ----------------------------
(***************************************************************************)
(* One streamed answer, from the provider to the shell: the attempts of    *)
(* models/terminal.py, the wait of response_wait.py, the connection that   *)
(* transport.py and active_streams.py keep for the request, the assembly   *)
(* of the answer in answers/grounded.py and the text that the shell shows. *)
(*                                                                         *)
(* A thread of the engine waits and does all that follows from an event;   *)
(* each attempt has a daemon thread that talks to the provider and queues  *)
(* what arrives.  The user may cancel at any time.  A text is a sequence   *)
(* of chunks, <<attempt, ordinal>>; the guard of citations and the         *)
(* deterministic answer replace it by texts of attempt 0.                  *)
(***************************************************************************)
EXTENDS Integers, Sequences, FiniteSets

CONSTANTS
    MaxAttempts,  \* MAX_TERMINAL_MODEL_ATTEMPTS
    MaxChunks,    \* how many chunks an attempt or a replacement text may have
    None

\* What is stored of an answer; None stands for no answer, and no connection.
Answers == [status : {"completed", "interrupted"}, text : Seq(Nat \X Nat)]

StreamAssumption ==
    /\ MaxAttempts \in Nat \ {0} /\ MaxChunks \in Nat \ {0}
    /\ None \notin Nat /\ None \notin Answers

VARIABLES
    waiter,     \* how far the thread of the request is
    attempt,    \* the attempt it is at
    slot,       \* whether it holds a slot of the concurrency gate
    cancelled,  \* the cancel event of the request
    provider,   \* provider[a]: how far the thread of attempt a is
    sent,       \* sent[a]: the text that thread has received
    queue,      \* the chunks that the waiter has not seen yet
    streams,    \* DesktopActiveModelStreams: what is known of the request
    client,     \* client[a]: the connection of attempt a
    visible,    \* what the answer service takes to be shown: attempt, text, replace_pending
    shell,      \* what the shell shows: attempt and text
    rest,       \* chunks of a final text that are still to be emitted, and how
    stored      \* the answer that is stored in the end

vars == <<waiter, attempt, slot, cancelled, provider, sent, queue, streams, client, visible,
          shell, rest, stored>>

Attempts == 1..MaxAttempts

Init ==
    /\ waiter = "queued" /\ attempt = 1 /\ slot = FALSE
    /\ cancelled = FALSE
    /\ provider = [a \in Attempts |-> "none"]
    /\ sent = [a \in Attempts |-> <<>>]
    /\ queue = <<>>
    /\ streams = [pending |-> FALSE, cancelled |-> FALSE, open |-> None]
    /\ client = [a \in Attempts |-> "none"]
    /\ visible = [attempt |-> 0, text |-> <<>>, replace |-> FALSE]
    /\ shell = [attempt |-> 0, text |-> <<>>]
    /\ rest = None
    /\ stored = None

requesting == <<waiter, attempt, slot, rest, stored>>
providing == <<provider, sent, streams, client>>
showing == <<visible, shell>>

-----------------------------------------------------------------------------
(* What is shown: emit and reset of _attempt, and the reducer of the shell *)
(* for answer.delta events.                                                *)

\* DesktopConversationPanel.tsx: an event of an earlier attempt is ignored, the first of a
\* later one replaces.
ReduceDelta(event) ==
    IF event.attempt < shell.attempt THEN shell
    ELSE [attempt |-> event.attempt,
          text |-> IF event.replace \/ event.attempt > shell.attempt
                   THEN event.delta ELSE shell.text \o event.delta]

\* Near miss: a new attempt goes on where the last one stopped.
replaces_if_asked(a, replace) == replace

replaces(a, replace) == replace \/ a > visible.attempt \/ visible.replace

\* emit: nothing for an attempt that is over.
emit(text, a, replace) ==
    IF a < visible.attempt THEN UNCHANGED showing
    ELSE LET over == replaces(a, replace) IN
         /\ visible' = [attempt |-> a, replace |-> FALSE,
                        text |-> IF over THEN text ELSE visible.text \o text]
         /\ shell' = ReduceDelta([attempt |-> a, replace |-> over, delta |-> text])

\* Near miss: what was shown so far is forgotten at once.
reset_and_forget(a) == [attempt |-> a, text |-> <<>>, replace |-> TRUE]

\* reset: what is shown stays until the next attempt has something to show.
reset(a) ==
    IF a <= visible.attempt THEN visible
    ELSE [attempt |-> a, text |-> visible.text, replace |-> TRUE]

-----------------------------------------------------------------------------
(* The connection of the request.  Its attempts share one identity.        *)

\* prepare: before the provider's thread can race with a cancellation.
prepare ==
    [streams EXCEPT !.pending = TRUE,
                    !.cancelled = IF streams.open = None THEN FALSE ELSE @]

\* Near miss: a cancellation that came before the connection is not seen.
register_anyway(a) ==
    /\ streams' = [streams EXCEPT !.pending = FALSE, !.open = a]
    /\ client' = [client EXCEPT ![a] = "open"]

\* register: a connection of a cancelled request is closed at once.
register(a) ==
    /\ streams' = [streams EXCEPT !.pending = FALSE, !.open = IF streams.cancelled THEN @ ELSE a]
    /\ client' = [client EXCEPT ![a] = IF streams.cancelled THEN "closed" ELSE "open"]

\* Near miss: the connection is forgotten and stays open.
release_unclosed(a) ==
    /\ streams' = [pending |-> FALSE, cancelled |-> FALSE, open |-> None]
    /\ UNCHANGED client

\* The callback of register: forget the request, close the connection (once).
release(a) ==
    /\ streams' = [pending |-> FALSE, cancelled |-> FALSE,
                   open |-> IF streams.open = a THEN None ELSE streams.open]
    /\ client' = [client EXCEPT ![a] = "closed"]

\* close: a connection that is still to come will find the request cancelled.
close ==
    IF streams.pending \/ streams.open # None
    THEN /\ streams' = [streams EXCEPT !.cancelled = TRUE]
         /\ client' = IF streams.open = None THEN client
                      ELSE [client EXCEPT ![streams.open] = "closed"]
    ELSE UNCHANGED <<streams, client>>

-----------------------------------------------------------------------------
(* The thread of an attempt.                                               *)

\* terminal_completion_client and register; a bad configuration ends it before.
Connect(a) ==
    /\ provider[a] = "starting"
    /\ \/ register(a) /\ provider' = [provider EXCEPT ![a] = "streaming"]
       \/ /\ streams' = [streams EXCEPT !.pending = FALSE, !.cancelled = FALSE]
          /\ provider' = [provider EXCEPT ![a] = "failed"]
          /\ UNCHANGED client
    /\ UNCHANGED <<requesting, showing, cancelled, sent, queue>>

\* _consume_stream and queue_delta: the chunk is part of the response; it is queued
\* unless the wait is over or the request is cancelled.
Receive(a) ==
    /\ provider[a] = "streaming" /\ client[a] = "open" /\ Len(sent[a]) < MaxChunks
    /\ LET chunk == <<a, Len(sent[a]) + 1>> IN
       /\ sent' = [sent EXCEPT ![a] = Append(@, chunk)]
       /\ queue' = IF waiter = "waiting" /\ attempt = a /\ ~cancelled
                   THEN Append(queue, chunk) ELSE queue
    /\ UNCHANGED <<requesting, showing, cancelled, provider, streams, client>>

\* The stream ends, breaks off, or was closed under the thread.  The connection is
\* closed before the waiter hears of it.
StreamEnds(a) ==
    /\ provider[a] = "streaming"
    /\ \E outcome \in {"answered", "broken", "rejected"} :
           /\ client[a] = "closed" => outcome = "broken"
           /\ provider' = [provider EXCEPT ![a] = outcome]
    /\ release(a)
    /\ UNCHANGED <<requesting, showing, cancelled, sent, queue>>

-----------------------------------------------------------------------------
(* The thread of the request.                                              *)

\* The answer is stored: complete, or what is shown of it.
Store(status, text) ==
    /\ stored' = [status |-> status, text |-> text]
    /\ waiter' = "done"

Interrupt == Store("interrupted", visible.text)

\* _run: the gate lets the attempt through, unless the request is cancelled.
StartAttempt ==
    /\ waiter = "queued"
    /\ \/ /\ ~cancelled
          /\ waiter' = "waiting" /\ slot' = TRUE
          /\ provider' = [provider EXCEPT ![attempt] = "starting"]
          /\ streams' = prepare
          /\ UNCHANGED stored
       \/ cancelled /\ Interrupt /\ UNCHANGED <<slot, provider, streams>>
    /\ UNCHANGED <<attempt, rest, cancelled, sent, queue, client, showing>>

Completed == provider[attempt] \in {"answered", "broken", "rejected", "failed"}

\* The chunks of the queue, in their order, as one.
Flush ==
    /\ IF queue = <<>> THEN UNCHANGED showing ELSE emit(queue, attempt, FALSE)
    /\ queue' = <<>>

\* Near miss: the provider's connection is left to itself.
WaitWithoutClosing ==
    /\ waiter = "waiting" /\ ~Completed /\ cancelled
    /\ queue' = <<>>
    /\ slot' = FALSE /\ Interrupt
    /\ UNCHANGED <<attempt, rest, cancelled, providing, showing>>

\* One round of wait_for_model_response that finds the request cancelled.  What has been
\* queued since it looked is lost.
WaitCancelled ==
    /\ waiter = "waiting" /\ ~Completed /\ cancelled
    /\ queue' = <<>>
    /\ close
    /\ slot' = FALSE /\ Interrupt
    /\ UNCHANGED <<attempt, rest, cancelled, provider, sent, showing>>

\* A round before that, and the one after the end: what has arrived is shown.
WaitRound ==
    /\ waiter = "waiting" /\ queue # <<>>
    /\ Flush
    /\ UNCHANGED <<requesting, cancelled, providing>>

\* _citation_guarded_answer: the text, a changed one, or none, for which the
\* deterministic answer stands in.
FinalTexts(text) ==
    {[text |-> text, changed |-> FALSE], [text |-> <<<<0, 1>>>>, changed |-> TRUE]}

\* What _attempt does with a text.  It is streamed (again) where it is not what is shown.
ShowFinal(final) ==
    IF final.changed \/ visible.text # final.text
    THEN /\ waiter' = "showing"
         /\ rest' = [text |-> final.text, next |-> 1,
                     attempt |-> IF visible.attempt > 0 THEN visible.attempt + 1 ELSE 1]
         /\ UNCHANGED stored
    ELSE Store("completed", final.text) /\ UNCHANGED rest

\* The response is there, and all of it was emitted.  An empty text is an error that is
\* not retried.
TakeResponse ==
    /\ waiter = "waiting" /\ Completed /\ queue = <<>>
    /\ provider[attempt] = "answered"
    /\ slot' = FALSE
    /\ IF cancelled \/ sent[attempt] = <<>>
       THEN Interrupt /\ UNCHANGED rest
       ELSE \E final \in FinalTexts(sent[attempt]) : ShowFinal(final)
    /\ UNCHANGED <<attempt, cancelled, providing, queue, showing>>

NextAttempt ==
    /\ waiter' = "backoff" /\ attempt' = attempt + 1
    /\ visible' = reset(attempt + 1)
    /\ UNCHANGED stored

\* It failed; a failure of the network is retried.
TakeFailure ==
    /\ waiter = "waiting" /\ Completed /\ queue = <<>>
    /\ provider[attempt] # "answered"
    /\ slot' = FALSE
    /\ IF ~cancelled /\ provider[attempt] = "broken" /\ attempt < MaxAttempts
       THEN NextAttempt
       ELSE Interrupt /\ UNCHANGED <<visible, attempt>>
    /\ UNCHANGED <<rest, cancelled, providing, queue, shell>>

\* _wait_for_retry
Retry ==
    /\ waiter = "backoff"
    /\ \/ ~cancelled /\ waiter' = "queued" /\ UNCHANGED stored
       \/ cancelled /\ Interrupt
    /\ UNCHANGED <<attempt, slot, rest, cancelled, providing, queue, showing>>

\* One round of the loop over _stream_chunks, or its end.
ShowChunk ==
    /\ waiter = "showing"
    /\ IF cancelled THEN Interrupt /\ UNCHANGED <<rest, showing>>
       ELSE IF rest.next > Len(rest.text)
            THEN Store("completed", rest.text) /\ UNCHANGED <<rest, showing>>
            ELSE /\ emit(<<rest.text[rest.next]>>, rest.attempt, rest.next = 1)
                 /\ rest' = [rest EXCEPT !.next = @ + 1]
                 /\ UNCHANGED <<waiter, stored>>
    /\ UNCHANGED <<attempt, slot, cancelled, providing, queue>>

Cancel ==
    /\ ~cancelled /\ waiter # "done"
    /\ cancelled' = TRUE
    /\ UNCHANGED <<requesting, providing, queue, showing>>

RequestStep ==
    \/ StartAttempt \/ WaitCancelled \/ WaitRound \/ TakeResponse \/ TakeFailure
    \/ Retry \/ ShowChunk

ProviderStep == \E a \in Attempts : Connect(a) \/ Receive(a) \/ StreamEnds(a)

Next == RequestStep \/ ProviderStep \/ Cancel

Spec == Init /\ [][Next]_vars

\* A read from a closed connection ends; a provider may be silent for ever.
Unblocked == \E a \in Attempts : Connect(a) \/ (client[a] = "closed" /\ StreamEnds(a))

-----------------------------------------------------------------------------
IsLive(a) == provider[a] \in {"starting", "streaming"}

TypeOK ==
    /\ waiter \in {"queued", "waiting", "backoff", "showing", "done"}
    /\ attempt \in Attempts /\ slot \in BOOLEAN /\ cancelled \in BOOLEAN
    /\ \A a \in Attempts : client[a] \in {"none", "open", "closed"}
    /\ streams.open \in {None} \cup Attempts
    /\ (stored # None) = (waiter = "done")

\* In the end the shell shows what is stored, whether the answer is complete, was guarded
\* or replaced, or stopped in the middle of any attempt.
ShownIsStored == waiter = "done" => shell.text = stored.text

\* Texts of two attempts are never mixed.
AttemptsAreNotMixed ==
    \A i, k \in DOMAIN shell.text : shell.text[i][1] = shell.text[k][1]

\* One attempt at a time talks to the provider; it holds the slot, unless it was cancelled.
\* No connection stays open behind a request that does not wait for it.
ConnectionsAreOwned ==
    \A a \in Attempts :
        /\ IsLive(a) => a = attempt /\ (slot \/ cancelled)
        /\ client[a] = "open" => IsLive(a) /\ waiter = "waiting" /\ streams.open = a

\* A cancelled request is at its end, and so are its connections.
HasStopped == waiter = "done" /\ \A a \in Attempts : ~IsLive(a)

=============================================================================
