--------------------------- MODULE RequestsProofs ---------------------------
(***************************************************************************)
(* What the engine does for the shell, for any requests: a conversation    *)
(* and its answers, the stream of one answer, and the binding of the       *)
(* engine under imports and switches.  The three have variables of their   *)
(* own, and a section each; the conversation is the module that this one   *)
(* extends, the others are its instances Stream and Engine.                *)
(***************************************************************************)
EXTENDS Conversations, FiniteSetTheorems, SequenceTheorems, WellFoundedInduction, TLAPS

CONSTANTS
    MaxAttempts, MaxChunks, None,
    Requests, Method, Param, KnowledgeBases, First, PoolSize, MaxStages, Plans

VARIABLES
    waiter, attempt, slot, stopped_by_user, provider, sent, chunks, streams, client, visible,
    shell, rest, stored,
    reader, target, told, active, cancelled, nonCancelable, queue, pc, bound, found, reply,
    transitioning, leases, paused, stopped, controls, lock, activity, kb, job, changed, plan

\* The cancel event of one request and its chunks, beside the frames of all requests.
Stream == INSTANCE AnswerStream WITH cancelled <- stopped_by_user, queue <- chunks

Engine == INSTANCE EngineServer

-----------------------------------------------------------------------------
(* A conversation and its answers, for any number of requests of any kind, *)
(* contexts of any length, and whatever happens around them.               *)
(*                                                                         *)
(* Two facts carry the proofs.  Until the conversation is deleted its      *)
(* messages only grow: no version of a message goes away or changes, so    *)
(* a context that was read is as good later as it was then.  And while a   *)
(* first answer is generated its message has no version, so that nobody    *)
(* else can work on it.                                                    *)

Contexts == UNION {[D -> Nat] : D \in SUBSET Nat}

VersionRows == [status : {"completed", "interrupted"}, context : Contexts]

MessageRows ==
    [status : {"completed", "generating", "interrupted"}, selected : Nat,
     versions : Seq(VersionRows)]

FlatRows == [status : {"completed", "interrupted"}, by : Tasks]

Shapes ==
    /\ jobs \in Jobs
    /\ exists \in BOOLEAN
    /\ messages \in Seq(MessageRows)
    /\ \A m \in DOMAIN messages : messages[m].selected \in 0..Len(messages[m].versions)
    /\ flat \in Seq(FlatRows)
    /\ task \in [Tasks -> [pc : {"idle", "working", "lost", "done"}, of : Nat, context : Contexts]]
    /\ ~exists => messages = <<>>

\* A context names completed versions of earlier messages, and not too many.
ContextOk(rows, m, context) ==
    /\ Cardinality(DOMAIN context) <= ContextTurns
    /\ \A k \in DOMAIN context :
           /\ k \in DOMAIN rows /\ k < m
           /\ context[k] \in DOMAIN rows[k].versions
           /\ rows[k].versions[context[k]].status = "completed"

VersionsInv ==
    \A m \in DOMAIN messages : \A v \in DOMAIN messages[m].versions :
        ContextOk(messages, m, messages[m].versions[v].context)

\* Who works on a message finds it there; a first answer finds it without a version.
TasksInv == exists =>
    \A t \in Tasks : WorksOnMessage(t) =>
        /\ task[t].of \in DOMAIN messages
        /\ ContextOk(messages, task[t].of, task[t].context)
        /\ messages[task[t].of].versions = <<>> <=> jobs[t] = "ask"

\* A first answer is worked on by one thread.
FirstsInv == exists =>
    \A t, u \in Tasks :
        WorksOnMessage(t) /\ WorksOnMessage(u) /\ jobs[t] = "ask" /\ task[t].of = task[u].of
            => t = u

IInv ==
    /\ Shapes /\ VersionsInv /\ TasksInv /\ FirstsInv
    /\ StatusIsOfSelected /\ GeneratingIsWorkedOn

-----------------------------------------------------------------------------
(* Contexts.                                                               *)

\* A finite set of numbers has a least one.
LEMMA LeastOf ==
  ASSUME NEW T \in SUBSET Nat, IsFiniteSet(T), T # {}
  PROVE  \E x \in T : \A y \in T : x <= y
<1> DEFINE Below(x) == {y \in T : y < x}
           F == {Below(x) : x \in T}
<1>1. F \subseteq FiniteSubsetsOf(T) /\ F # {}
  <2>1. ASSUME NEW x \in T PROVE Below(x) \in FiniteSubsetsOf(T)
    <3>1. Below(x) \in SUBSET T OBVIOUS
    <3>2. IsFiniteSet(Below(x)) BY <3>1, FS_Subset
    <3> QED BY <3>1, <3>2 DEF FiniteSubsetsOf
  <2> QED BY <2>1
<1>2. PICK G \in F : \A H \in F : ~(<<H, G>> \in StrictSubsetOrdering(T))
  <2>1. IsWellFoundedOn(StrictSubsetOrdering(T), FiniteSubsetsOf(T))
    BY FS_StrictSubsetOrderingWellFounded
  <2> HIDE DEF F
  <2> QED BY <1>1, <2>1, WFMin
<1>3. PICK x \in T : G = Below(x) OBVIOUS
<1>4. ASSUME NEW y \in T, ~(x <= y) PROVE FALSE
  <2>1. y < x BY <1>4
  <2>2. y \in Below(x) /\ y \notin Below(y) BY <2>1
  <2>3. Below(y) \subseteq Below(x)
    <3>1. ASSUME NEW z \in T, z < y PROVE z < x
      <4>1. z \in Nat /\ y \in Nat /\ x \in Nat OBVIOUS
      <4> QED BY <2>1, <3>1, <4>1
    <3> QED BY <3>1
  <2>4. <<Below(y), Below(x)>> \in StrictSubsetOrdering(T)
    BY <2>2, <2>3 DEF StrictSubsetOrdering
  <2> QED BY <1>2, <1>3, <2>4
<1> QED BY <1>3, <1>4

\* _conversation_context, ORDER BY ... DESC LIMIT: as many turns as are allowed, and with the
\* versions that are selected.
LEMMA LastTurnsFacts ==
  ASSUME ConversationAssumption, NEW turns \in SUBSET Nat, IsFiniteSet(turns)
  PROVE  /\ DOMAIN LastTurns(turns) \subseteq turns
         /\ Cardinality(DOMAIN LastTurns(turns)) <= ContextTurns
         /\ \A k \in DOMAIN LastTurns(turns) : LastTurns(turns)[k] = messages[k].selected
<1> DEFINE After(m) == {k \in turns : k > m}
           last == {m \in turns : Cardinality(After(m)) < ContextTurns}
<1>1. LastTurns(turns) = [m \in last |-> messages[m].selected] BY DEF LastTurns
<1>2. ContextTurns \in Nat \ {0} BY DEF ConversationAssumption
<1>3. last \in SUBSET turns /\ last \in SUBSET Nat /\ IsFiniteSet(last)
  <2>1. last \in SUBSET turns OBVIOUS
  <2> HIDE DEF last
  <2> QED BY <2>1, FS_Subset
<1>4. Cardinality(last) <= ContextTurns
  <2>1. CASE last = {}
    <3> HIDE DEF last
    <3>1. Cardinality(last) = 0 BY <2>1, FS_EmptySet
    <3> QED BY <3>1, <1>2
  <2>2. CASE last # {}
    <3>1. PICK x \in last : \A y \in last : x <= y
      <4> HIDE DEF last
      <4> QED BY <1>3, <2>2, LeastOf
    <3>2. Cardinality(After(x)) < ContextTurns /\ x \in Nat BY <3>1
    <3>3. last \ {x} \in SUBSET After(x)
      <4>1. ASSUME NEW y \in last, y # x PROVE y \in turns /\ y > x
        BY <3>1, <3>2, <4>1, <1>3
      <4> HIDE DEF last
      <4> QED BY <4>1
    <3>4. IsFiniteSet(After(x)) BY FS_Subset
    <3>5. Cardinality(last \ {x}) <= Cardinality(After(x)) BY <3>3, <3>4, FS_Subset
    <3>6. Cardinality(last \ {x}) = Cardinality(last) - 1
      <4> HIDE DEF last
      <4> QED BY <1>3, <3>1, FS_RemoveElement
    <3>7. Cardinality(last) \in Nat /\ Cardinality(After(x)) \in Nat
      BY <1>3, <3>4, FS_CardinalityType
    <3> HIDE DEF last, After
    <3> QED BY <1>2, <3>2, <3>5, <3>6, <3>7
  <2> QED BY <2>1, <2>2
<1> HIDE DEF last
<1> QED BY <1>1, <1>3, <1>4

\* What is given to a question is good for its message.
LEMMA ContextFacts ==
  ASSUME ConversationAssumption, Shapes, NEW m \in Nat
  PROVE  /\ conversation_context(m) \in Contexts
         /\ ContextOk(messages, m, conversation_context(m))
<1> DEFINE turns == {k \in DOMAIN messages : k < m /\ IsSettled(k)}
<1>0. /\ DOMAIN messages = 1..Len(messages) /\ Len(messages) \in Nat
      /\ \A k \in DOMAIN messages : messages[k] \in MessageRows
  BY LenProperties, ElementOfSeq DEF Shapes
<1>1. turns \in SUBSET Nat /\ turns \in SUBSET (1..Len(messages)) BY <1>0
<1>2. IsFiniteSet(turns)
  <2>1. IsFiniteSet(1..Len(messages)) BY <1>0, FS_Interval
  <2> HIDE DEF turns
  <2> QED BY <1>1, <2>1, FS_Subset
<1>3. conversation_context(m) = LastTurns(turns) BY DEF conversation_context
<1> DEFINE C == LastTurns(turns)
<1>4. /\ DOMAIN C \subseteq turns
      /\ Cardinality(DOMAIN C) <= ContextTurns
      /\ \A k \in DOMAIN C : C[k] = messages[k].selected
  BY <1>1, <1>2, LastTurnsFacts
<1>5. ASSUME NEW k \in turns
      PROVE  /\ k \in DOMAIN messages /\ k < m
             /\ messages[k].selected \in DOMAIN messages[k].versions
             /\ messages[k].versions[messages[k].selected].status = "completed"
  <2>1. k \in DOMAIN messages /\ k < m /\ SettledStatus(k) = "completed" BY DEF IsSettled
  <2>2. messages[k].selected # NoVersion
        /\ messages[k].versions[messages[k].selected].status = "completed"
    BY <2>1 DEF SettledStatus, SelectedOf
  <2>3. messages[k].selected \in 0..Len(messages[k].versions)
        /\ messages[k].versions \in Seq(VersionRows)
    BY <1>0, <2>1 DEF Shapes, MessageRows
  <2>4. messages[k].selected \in DOMAIN messages[k].versions
    BY <2>2, <2>3, LenProperties DEF NoVersion
  <2> QED BY <2>1, <2>2, <2>4
<1>6. C \in [DOMAIN C -> Nat]
  <2>1. \A k \in DOMAIN C : C[k] \in Nat BY <1>0, <1>4, <1>5 DEF MessageRows
  <2>2. C = [k \in DOMAIN C |-> C[k]] BY DEF LastTurns
  <2> HIDE DEF C
  <2> QED BY <2>1, <2>2
<1> HIDE DEF C, turns
<1>7. C \in Contexts BY <1>1, <1>4, <1>6 DEF Contexts
<1>8. ContextOk(messages, m, C) BY <1>4, <1>5 DEF ContextOk
<1> QED BY <1>3, <1>7, <1>8 DEF C

-----------------------------------------------------------------------------
(* Rows.                                                                   *)

Kept(old, new) ==
    \A v \in DOMAIN old : v \in DOMAIN new /\ new[v] = old[v]

StatusOf(row) ==
    IF row.selected = NoVersion THEN "interrupted" ELSE row.versions[row.selected].status

RowFits(row) == row \in MessageRows /\ row.selected \in 0..Len(row.versions)

\* Rows of the message table are rows.
LEMMA RowFacts ==
  ASSUME Shapes
  PROVE  /\ DOMAIN messages = 1..Len(messages) /\ Len(messages) \in Nat
         /\ \A m \in DOMAIN messages :
                /\ RowFits(messages[m])
                /\ messages[m] = [status |-> messages[m].status, selected |-> messages[m].selected,
                                  versions |-> messages[m].versions]
                /\ DOMAIN messages[m].versions = 1..Len(messages[m].versions)
                /\ Len(messages[m].versions) \in Nat
                /\ SettledStatus(m) = StatusOf(messages[m])
                /\ StatusOf(messages[m]) \in {"completed", "interrupted"}
<1>1. DOMAIN messages = 1..Len(messages) /\ Len(messages) \in Nat
  BY LenProperties DEF Shapes
<1>2. ASSUME NEW m \in DOMAIN messages
      PROVE  /\ RowFits(messages[m])
             /\ messages[m] = [status |-> messages[m].status, selected |-> messages[m].selected,
                               versions |-> messages[m].versions]
             /\ DOMAIN messages[m].versions = 1..Len(messages[m].versions)
             /\ Len(messages[m].versions) \in Nat
             /\ SettledStatus(m) = StatusOf(messages[m])
             /\ StatusOf(messages[m]) \in {"completed", "interrupted"}
  <2>1. messages[m] \in MessageRows BY <1>1, ElementOfSeq DEF Shapes
  <2>2. messages[m].versions \in Seq(VersionRows) BY <2>1 DEF MessageRows
  <2>3. /\ DOMAIN messages[m].versions = 1..Len(messages[m].versions)
        /\ Len(messages[m].versions) \in Nat
    BY <2>2, LenProperties
  <2>4. RowFits(messages[m]) BY <2>1 DEF RowFits, Shapes
  <2>5. messages[m] = [status |-> messages[m].status, selected |-> messages[m].selected,
                       versions |-> messages[m].versions]
    BY <2>1 DEF MessageRows
  <2>6. SettledStatus(m) = StatusOf(messages[m]) BY DEF SettledStatus, SelectedOf, StatusOf
  <2>7. StatusOf(messages[m]) \in {"completed", "interrupted"}
    <3>1. CASE messages[m].selected = NoVersion BY <3>1 DEF StatusOf
    <3>2. CASE messages[m].selected # NoVersion
      <4>1. messages[m].selected \in 1..Len(messages[m].versions)
        BY <2>3, <2>4, <3>2 DEF RowFits, NoVersion
      <4>2. messages[m].versions[messages[m].selected] \in VersionRows
        BY <2>2, <4>1, ElementOfSeq
      <4> QED BY <3>2, <4>2 DEF StatusOf, VersionRows
    <3> QED BY <3>1, <3>2
  <2> QED BY <2>3, <2>4, <2>5, <2>6, <2>7
<1> QED BY <1>1, <1>2

\* A row of the table is replaced.
LEMMA Replaced ==
  ASSUME Shapes, NEW m \in DOMAIN messages, NEW row, RowFits(row),
         messages' = [messages EXCEPT ![m] = row]
  PROVE  /\ messages' \in Seq(MessageRows)
         /\ DOMAIN messages' = DOMAIN messages
         /\ messages'[m] = row
         /\ \A k \in DOMAIN messages : k # m => messages'[k] = messages[k]
         /\ \A k \in DOMAIN messages' : messages'[k].selected \in 0..Len(messages'[k].versions)
<1>1. m \in 1..Len(messages) /\ DOMAIN messages = 1..Len(messages) BY RowFacts
<1>2. /\ messages' \in Seq(MessageRows) /\ Len(messages') = Len(messages)
      /\ \A k \in 1..Len(messages) : messages'[k] = IF k = m THEN row ELSE messages[k]
  BY <1>1, ExceptSeq DEF Shapes, RowFits
<1>3. DOMAIN messages' = DOMAIN messages BY <1>1, <1>2, LenProperties
<1>4. \A k \in DOMAIN messages' : messages'[k].selected \in 0..Len(messages'[k].versions)
  BY <1>1, <1>2, <1>3 DEF Shapes, RowFits
<1> QED BY <1>1, <1>2, <1>3, <1>4

\* What a context names stays: versions are only added.
LEMMA ContextKept ==
  ASSUME NEW old, NEW new, NEW m, NEW context, ContextOk(old, m, context),
         \A k \in DOMAIN old : k \in DOMAIN new /\ Kept(old[k].versions, new[k].versions)
  PROVE  ContextOk(new, m, context)
BY DEF ContextOk, Kept

\* The message that a thread works on is settled, and it ends; or a version is selected.
LEMMA SettledOk ==
  ASSUME ConversationAssumption, IInv, exists, UNCHANGED <<jobs, exists>>,
         NEW m \in DOMAIN messages, NEW row, RowFits(row), messages' = [messages EXCEPT ![m] = row],
         row.status = StatusOf(row),
         Kept(messages[m].versions, row.versions),
         \A v \in DOMAIN row.versions :
             \/ v \in DOMAIN messages[m].versions
             \/ ContextOk(messages, m, row.versions[v].context),
         \A u \in Tasks : /\ task'[u].of = task[u].of /\ task'[u].context = task[u].context
                          /\ task'[u].pc = "working" => task[u].pc = "working"
                          /\ task'[u].pc # task[u].pc => task[u].of = m,
         \/ row.versions = <<>> <=> messages[m].versions = <<>>
         \/ \A u \in Tasks : WorksOnMessage(u)' => task[u].of # m
  PROVE  VersionsInv' /\ TasksInv' /\ FirstsInv' /\ StatusIsOfSelected' /\ GeneratingIsWorkedOn'
<1> USE DEF IInv
<1>1. /\ DOMAIN messages' = DOMAIN messages /\ messages'[m] = row
      /\ \A k \in DOMAIN messages : k # m => messages'[k] = messages[k]
  BY Replaced
<1>2. \A k \in DOMAIN messages : k \in DOMAIN messages' /\ Kept(messages[k].versions, messages'[k].versions)
  BY <1>1 DEF Kept
<1>3. \A k, c : ContextOk(messages, k, c) => ContextOk(messages', k, c)
  BY <1>2, ContextKept
<1>4. VersionsInv'
  <2>1. ASSUME NEW k \in DOMAIN messages', NEW v \in DOMAIN messages'[k].versions
        PROVE ContextOk(messages', k, messages'[k].versions[v].context)
    <3>1. CASE k = m
      <4>1. CASE v \in DOMAIN messages[m].versions
        <5>1. row.versions[v] = messages[m].versions[v] BY <4>1 DEF Kept
        <5> QED BY <1>1, <1>3, <3>1, <4>1, <5>1 DEF VersionsInv
      <4>2. CASE ContextOk(messages, m, row.versions[v].context) BY <1>1, <1>3, <3>1, <4>2
      <4> QED BY <1>1, <3>1, <4>1, <4>2
    <3>2. CASE k # m BY <1>1, <1>3, <2>1, <3>2 DEF VersionsInv
    <3> QED BY <3>1, <3>2
  <2> QED BY <2>1 DEF VersionsInv
<1>5. \A u \in Tasks : WorksOnMessage(u)' => WorksOnMessage(u) BY DEF WorksOnMessage
<1>6. TasksInv'
  <2>1. ASSUME NEW u \in Tasks, WorksOnMessage(u)'
        PROVE  /\ task[u].of \in DOMAIN messages'
               /\ ContextOk(messages', task[u].of, task[u].context)
               /\ messages'[task[u].of].versions = <<>> <=> jobs[u] = "ask"
    <3>0. WorksOnMessage(u) BY <2>1, <1>5
    <3>1. task[u].of \in DOMAIN messages /\ ContextOk(messages, task[u].of, task[u].context)
          /\ (messages[task[u].of].versions = <<>> <=> jobs[u] = "ask")
      BY <3>0 DEF TasksInv
    <3>2. messages'[task[u].of].versions = <<>> <=> messages[task[u].of].versions = <<>>
      BY <1>1, <2>1, <3>1
    <3> QED BY <1>1, <1>3, <3>1, <3>2
  <2> QED BY <2>1 DEF TasksInv
<1>7. FirstsInv' BY <1>5 DEF FirstsInv
<1>8. StatusIsOfSelected'
  <2>1. ASSUME NEW k \in DOMAIN messages', messages'[k].status # "generating"
        PROVE messages'[k].status = StatusOf(messages'[k])
    <3>1. CASE k = m BY <1>1, <3>1
    <3>2. CASE k # m
      <4>1. messages[k].status = StatusOf(messages[k])
        BY <1>1, <2>1, <3>2, RowFacts DEF StatusIsOfSelected
      <4> QED BY <1>1, <3>2, <4>1
    <3> QED BY <3>1, <3>2
  <2> QED BY <2>1 DEF StatusIsOfSelected, SettledStatus, SelectedOf, StatusOf
<1>9. GeneratingIsWorkedOn'
  <2>1. ASSUME NEW k \in DOMAIN messages', messages'[k].status = "generating"
        PROVE \E t \in Tasks : /\ jobs[t] \in {"ask", "regenerate"} /\ task'[t].of = k
                               /\ task'[t].pc \in {"working", "lost"}
    <3>1. row.status # "generating"
      <4>1. row.selected = NoVersion => StatusOf(row) = "interrupted" BY DEF StatusOf
      <4>2. row.selected # NoVersion => row.versions[row.selected] \in VersionRows
        <5> SUFFICES ASSUME row.selected # NoVersion PROVE row.versions[row.selected] \in VersionRows
          OBVIOUS
        <5>1. row.versions \in Seq(VersionRows) /\ row.selected \in 0..Len(row.versions)
          BY DEF RowFits, MessageRows
        <5>2. row.selected \in 1..Len(row.versions) BY <5>1, LenProperties DEF NoVersion
        <5> QED BY <5>1, <5>2, ElementOfSeq
      <4> QED BY <4>1, <4>2 DEF StatusOf, VersionRows
    <3>2. k # m /\ k \in DOMAIN messages /\ messages[k].status = "generating"
      BY <1>1, <2>1, <3>1
    <3>3. PICK t \in Tasks : /\ jobs[t] \in {"ask", "regenerate"} /\ task[t].of = k
                             /\ task[t].pc \in {"working", "lost"}
      BY <3>2 DEF GeneratingIsWorkedOn
    <3> QED BY <3>2, <3>3
  <2> QED BY <2>1 DEF GeneratingIsWorkedOn
<1> QED BY <1>4, <1>6, <1>7, <1>8, <1>9

\* Messages are left alone, and nobody begins to work on one.
LEMMA MessagesFrame ==
  ASSUME IInv, UNCHANGED <<jobs, exists, messages>>,
         \A u \in Tasks : jobs[u] \in {"ask", "regenerate"} =>
             /\ task'[u].of = task[u].of /\ task'[u].context = task[u].context
             /\ task'[u].pc = "working" => task[u].pc = "working"
             /\ task[u].pc \in {"working", "lost"} => task'[u].pc \in {"working", "lost"}
  PROVE  VersionsInv' /\ TasksInv' /\ FirstsInv' /\ StatusIsOfSelected' /\ GeneratingIsWorkedOn'
<1> USE DEF IInv
<1>1. \A u \in Tasks : WorksOnMessage(u)' =>
          WorksOnMessage(u) /\ task'[u].of = task[u].of /\ task'[u].context = task[u].context
  BY DEF WorksOnMessage
<1>2. VersionsInv' BY DEF VersionsInv
<1>3. TasksInv' BY <1>1 DEF TasksInv
<1>4. FirstsInv' BY <1>1 DEF FirstsInv
<1>5. StatusIsOfSelected' BY DEF StatusIsOfSelected, SettledStatus, SelectedOf
<1>6. GeneratingIsWorkedOn' BY DEF GeneratingIsWorkedOn
<1> QED BY <1>2, <1>3, <1>4, <1>5, <1>6

\* There are no messages.
LEMMA DeletedOk ==
  ASSUME messages' = <<>>, exists' = FALSE
  PROVE  VersionsInv' /\ TasksInv' /\ FirstsInv' /\ StatusIsOfSelected' /\ GeneratingIsWorkedOn'
<1>1. DOMAIN messages' = {} OBVIOUS
<1> QED BY <1>1 DEF VersionsInv, TasksInv, FirstsInv, StatusIsOfSelected, GeneratingIsWorkedOn

\* _append_answer_version: one more version, which is selected.
LEMMA AppendRow ==
  ASSUME Shapes, NEW m \in DOMAIN messages, NEW version \in VersionRows
  PROVE  \E row :
             /\ RowFits(row) /\ append_answer_version(m, version) = [messages EXCEPT ![m] = row]
             /\ row.status = StatusOf(row)
             /\ Kept(messages[m].versions, row.versions)
             /\ \A v \in DOMAIN row.versions :
                    v \in DOMAIN messages[m].versions \/ row.versions[v] = version
             /\ row.versions # <<>>
             /\ row.status = version.status
<1> DEFINE old == messages[m].versions
           new == Append(old, version)
           row == [status |-> version.status, selected |-> Len(old) + 1, versions |-> new]
<1>1. /\ old \in Seq(VersionRows) /\ Len(old) \in Nat /\ DOMAIN old = 1..Len(old)
      /\ messages[m] = [status |-> messages[m].status, selected |-> messages[m].selected,
                        versions |-> old]
  BY RowFacts DEF RowFits, MessageRows
<1>2. /\ new \in Seq(VersionRows) /\ new # <<>> /\ Len(new) = Len(old) + 1
      /\ \A i \in 1..Len(old) : new[i] = old[i]
      /\ new[Len(old) + 1] = version
  BY <1>1, AppendProperties
<1>3. DOMAIN new = 1..Len(old) + 1 BY <1>2, LenProperties
<1> HIDE DEF old, new
<1>4. row \in MessageRows BY <1>1, <1>2 DEF MessageRows, VersionRows
<1>5. row.selected \in 0..Len(row.versions) BY <1>1, <1>2
<1>6. append_answer_version(m, version) = [messages EXCEPT ![m] = row]
  BY DEF append_answer_version, old, new
<1>7. row.status = StatusOf(row)
  <2>1. row.selected # NoVersion BY <1>1 DEF NoVersion
  <2> QED BY <1>2, <2>1 DEF StatusOf
<1>8. Kept(old, row.versions) BY <1>1, <1>2, <1>3 DEF Kept
<1>9. \A v \in DOMAIN row.versions : v \in DOMAIN old \/ row.versions[v] = version
  BY <1>1, <1>2, <1>3
<1>10. row.versions # <<>> /\ row.status = version.status BY <1>2
<1>11. RowFits(row) BY <1>4, <1>5 DEF RowFits
<1> HIDE DEF row
<1> QED BY <1>6, <1>7, <1>8, <1>9, <1>10, <1>11 DEF old

\* The status of a message is set, and nothing else of it.
LEMMA StatusRow ==
  ASSUME Shapes, NEW m \in DOMAIN messages,
         NEW status \in {"completed", "generating", "interrupted"}
  PROVE  \E row :
             /\ RowFits(row) /\ [messages EXCEPT ![m].status = status] = [messages EXCEPT ![m] = row]
             /\ row.status = status
             /\ row.versions = messages[m].versions /\ row.selected = messages[m].selected
             /\ StatusOf(row) = StatusOf(messages[m])
             /\ Kept(messages[m].versions, row.versions)
<1> DEFINE row == [status |-> status, selected |-> messages[m].selected,
                   versions |-> messages[m].versions]
<1>1. RowFits(messages[m])
      /\ messages[m] = [status |-> messages[m].status, selected |-> messages[m].selected,
                        versions |-> messages[m].versions]
  BY RowFacts
<1>2. RowFits(row) BY <1>1 DEF RowFits, MessageRows
<1>3. [messages[m] EXCEPT !.status = status] = row BY <1>1
<1>4. [messages EXCEPT ![m].status = status] = [messages EXCEPT ![m] = row] BY <1>3
<1>5. StatusOf(row) = StatusOf(messages[m]) BY DEF StatusOf
<1>6. Kept(messages[m].versions, row.versions) BY DEF Kept
<1>7. row.status = status /\ row.versions = messages[m].versions
      /\ row.selected = messages[m].selected
  OBVIOUS
<1> HIDE DEF row
<1> QED BY <1>2, <1>4, <1>5, <1>6, <1>7

\* select_answer_version: the message shows another version and its status.
LEMMA SelectRow ==
  ASSUME Shapes, NEW m \in DOMAIN messages, NEW v \in DOMAIN messages[m].versions
  PROVE  \E row :
             /\ RowFits(row)
             /\ row = [status |-> messages[m].versions[v].status, selected |-> v,
                       versions |-> messages[m].versions]
             /\ row.status = StatusOf(row)
             /\ row.versions = messages[m].versions /\ row.selected = v
             /\ Kept(messages[m].versions, row.versions)
<1> DEFINE st == messages[m].versions[v].status
           row == [status |-> st, selected |-> v, versions |-> messages[m].versions]
<1>1. /\ RowFits(messages[m])
      /\ messages[m] = [status |-> messages[m].status, selected |-> messages[m].selected,
                        versions |-> messages[m].versions]
      /\ DOMAIN messages[m].versions = 1..Len(messages[m].versions)
      /\ Len(messages[m].versions) \in Nat
  BY RowFacts
<1>2. v \in 1..Len(messages[m].versions) /\ messages[m].versions \in Seq(VersionRows)
  BY <1>1 DEF RowFits, MessageRows
<1>3. messages[m].versions[v] \in VersionRows BY <1>2, ElementOfSeq
<1>4. st \in {"completed", "interrupted"} BY <1>3 DEF VersionRows
<1> HIDE DEF st
<1>5. RowFits(row) BY <1>1, <1>2, <1>4 DEF RowFits, MessageRows
<1>8. row.status = StatusOf(row)
  <2>1. v # NoVersion BY <1>2 DEF NoVersion
  <2> QED BY <2>1 DEF StatusOf, st
<1>9. Kept(messages[m].versions, row.versions) BY DEF Kept
<1>10. row.versions = messages[m].versions /\ row.selected = v OBVIOUS
<1> QED BY <1>5, <1>8, <1>9, <1>10 DEF st

-----------------------------------------------------------------------------
(* The steps.                                                              *)

InvParts == VersionsInv /\ TasksInv /\ FirstsInv /\ StatusIsOfSelected /\ GeneratingIsWorkedOn

\* What a thread that works on a message may rely on.
LEMMA WorkingFacts ==
  ASSUME IInv, NEW t \in Tasks, WorksOnMessage(t)
  PROVE  /\ exists <=> task[t].of \in DOMAIN messages
         /\ exists => /\ ContextOk(messages, task[t].of, task[t].context)
                      /\ messages[task[t].of].versions = <<>> <=> jobs[t] = "ask"
                      /\ \A u \in Tasks : u # t /\ WorksOnMessage(u) /\ task[u].of = task[t].of
                             => jobs[u] # "ask" /\ jobs[t] # "ask"
         /\ task[t].context \in Contexts /\ task[t].of \in Nat
<1>1. exists => task[t].of \in DOMAIN messages BY DEF IInv, TasksInv
<1>2. ~exists => DOMAIN messages = {} BY DEF IInv, Shapes
<1>3. exists => /\ ContextOk(messages, task[t].of, task[t].context)
                /\ messages[task[t].of].versions = <<>> <=> jobs[t] = "ask"
                /\ \A u \in Tasks : u # t /\ WorksOnMessage(u) /\ task[u].of = task[t].of
                       => jobs[u] # "ask" /\ jobs[t] # "ask"
  BY DEF IInv, TasksInv, FirstsInv
<1>4. task[t].context \in Contexts /\ task[t].of \in Nat BY DEF IInv, Shapes
<1> QED BY <1>1, <1>2, <1>3, <1>4

\* A thread ends, and its message, if it is there, gets another row.
LEMMA EndOk ==
  ASSUME ConversationAssumption, IInv, NEW t \in Tasks, WorksOnMessage(t), Ends(t),
         UNCHANGED <<jobs, exists, flat>>,
         \/ task[t].of \notin DOMAIN messages /\ UNCHANGED messages
         \/ /\ task[t].of \in DOMAIN messages
            /\ \E row : /\ RowFits(row) /\ messages' = [messages EXCEPT ![task[t].of] = row]
                        /\ row.status = StatusOf(row)
                        /\ Kept(messages[task[t].of].versions, row.versions)
                        /\ \A v \in DOMAIN row.versions :
                               \/ v \in DOMAIN messages[task[t].of].versions
                               \/ row.versions[v].context = task[t].context
                        /\ jobs[t] = "regenerate" => row.versions # <<>>
  PROVE  Shapes' /\ InvParts'
<1> DEFINE m == task[t].of
<1>0. /\ \A u \in Tasks : u # t => task'[u] = task[u]
      /\ task'[t].pc = "done" /\ task'[t].of = m /\ task'[t].context = task[t].context
      /\ task' \in [Tasks -> [pc : {"idle", "working", "lost", "done"}, of : Nat, context : Contexts]]
  BY DEF Ends, IInv, Shapes
<1>w. /\ exists <=> m \in DOMAIN messages
      /\ exists => /\ ContextOk(messages, m, task[t].context)
                   /\ messages[m].versions = <<>> <=> jobs[t] = "ask"
                   /\ \A u \in Tasks : u # t /\ WorksOnMessage(u) /\ task[u].of = m
                          => jobs[u] # "ask" /\ jobs[t] # "ask"
  BY WorkingFacts
<1>1. CASE m \notin DOMAIN messages /\ UNCHANGED messages
  <2>1. exists' = FALSE /\ messages' = <<>>
    BY <1>1, <1>w DEF IInv, Shapes
  <2>2. Shapes' BY <1>0, <1>1, <2>1 DEF IInv, Shapes
  <2> QED BY <2>1, <2>2, DeletedOk DEF InvParts
<1>2. CASE m \in DOMAIN messages
  <2>1. PICK row : /\ RowFits(row) /\ messages' = [messages EXCEPT ![m] = row]
                   /\ row.status = StatusOf(row)
                   /\ Kept(messages[m].versions, row.versions)
                   /\ \A v \in DOMAIN row.versions :
                          \/ v \in DOMAIN messages[m].versions
                          \/ row.versions[v].context = task[t].context
                   /\ jobs[t] = "regenerate" => row.versions # <<>>
    BY <1>2
  <2>2. exists BY <1>2, <1>w
  <2>3. /\ messages' \in Seq(MessageRows)
        /\ \A k \in DOMAIN messages' : messages'[k].selected \in 0..Len(messages'[k].versions)
    BY <1>2, <2>1, Replaced DEF IInv
  <2>4. Shapes' BY <1>0, <2>2, <2>3 DEF IInv, Shapes
  <2>5. \/ row.versions = <<>> <=> messages[m].versions = <<>>
        \/ \A u \in Tasks : WorksOnMessage(u)' => task[u].of # m
    <3>1. jobs[t] \in {"ask", "regenerate"} BY DEF WorksOnMessage
    <3>2. CASE jobs[t] = "regenerate" BY <1>w, <2>1, <2>2, <3>2
    <3>3. CASE jobs[t] = "ask"
      <4>1. ASSUME NEW u \in Tasks, WorksOnMessage(u)', task[u].of = m PROVE FALSE
        <5>1. u # t BY <1>0, <4>1 DEF WorksOnMessage
        <5>2. WorksOnMessage(u) BY <1>0, <4>1, <5>1 DEF WorksOnMessage
        <5> QED BY <1>w, <2>2, <3>3, <4>1, <5>1, <5>2
      <4> QED BY <4>1
    <3> QED BY <3>1, <3>2, <3>3
  <2>6. \A v \in DOMAIN row.versions :
            v \in DOMAIN messages[m].versions \/ ContextOk(messages, m, row.versions[v].context)
    BY <1>w, <2>1, <2>2
  <2>7. \A u \in Tasks : /\ task'[u].of = task[u].of /\ task'[u].context = task[u].context
                         /\ task'[u].pc = "working" => task[u].pc = "working"
                         /\ task'[u].pc # task[u].pc => task[u].of = m
    BY <1>0
  <2>8. VersionsInv' /\ TasksInv' /\ FirstsInv' /\ StatusIsOfSelected' /\ GeneratingIsWorkedOn'
    <3> HIDE DEF m
    <3> QED BY <1>2, <2>1, <2>2, <2>5, <2>6, <2>7, SettledOk
  <2> QED BY <2>4, <2>8 DEF InvParts
<1> QED BY <1>1, <1>2

\* The ends of a first answer and of a regeneration.
LEMMA FinishOk ==
  ASSUME ConversationAssumption, IInv, NEW t \in Tasks,
         \/ \E status \in {"completed", "interrupted"} : FinishAnswer(t, status)
         \/ FailAnswer(t)
  PROVE  Shapes' /\ InvParts'
<1> DEFINE m == task[t].of
<1>0. WorksOnMessage(t) /\ Ends(t) /\ UNCHANGED <<jobs, exists, flat>>
  BY DEF FinishAnswer, FailAnswer
<1>j. jobs[t] \in {"ask", "regenerate"} BY <1>0 DEF WorksOnMessage
<1>1. CASE m \notin DOMAIN messages
  <2>1. UNCHANGED messages BY <1>1 DEF FinishAnswer, FailAnswer, IfThere
  <2> QED BY <1>0, <1>1, <2>1, EndOk
<1>2. CASE m \in DOMAIN messages
  <2>0. /\ exists /\ (messages[m].versions = <<>> <=> jobs[t] = "ask")
        /\ task[t].context \in Contexts
        /\ RowFits(messages[m]) /\ SettledStatus(m) = StatusOf(messages[m])
        /\ StatusOf(messages[m]) \in {"completed", "interrupted"}
    BY <1>0, <1>2, WorkingFacts, RowFacts DEF IInv
  <2>1. \/ \E status \in {"completed", "interrupted"} :
               messages' = append_answer_version(m, Version(t, status))
        \/ jobs[t] = "regenerate" /\ messages' = restore_selected_answer_status(m)
        \/ jobs[t] = "ask" /\ messages' = mark_generation_failed(m)
    BY <1>2, <1>j DEF FinishAnswer, FailAnswer, IfThere
  <2>2. CASE \E status \in {"completed", "interrupted"} :
                 messages' = append_answer_version(m, Version(t, status))
    <3>1. PICK status \in {"completed", "interrupted"} :
              messages' = append_answer_version(m, Version(t, status))
      BY <2>2
    <3>2. Version(t, status) \in VersionRows /\ Version(t, status).context = task[t].context
      BY <2>0 DEF Version, VersionRows
    <3>3. PICK row :
              /\ RowFits(row)
              /\ append_answer_version(m, Version(t, status)) = [messages EXCEPT ![m] = row]
              /\ row.status = StatusOf(row)
              /\ Kept(messages[m].versions, row.versions)
              /\ \A v \in DOMAIN row.versions :
                     v \in DOMAIN messages[m].versions \/ row.versions[v] = Version(t, status)
              /\ row.versions # <<>>
      <4> HIDE DEF m
      <4>1. Shapes BY DEF IInv
      <4> DEFINE version == Version(t, status)
      <4>2. version \in VersionRows BY <3>2
      <4> HIDE DEF version
      <4>3. \E row :
              /\ RowFits(row)
              /\ append_answer_version(m, version) = [messages EXCEPT ![m] = row]
              /\ row.status = StatusOf(row)
              /\ Kept(messages[m].versions, row.versions)
              /\ \A v \in DOMAIN row.versions :
                     v \in DOMAIN messages[m].versions \/ row.versions[v] = version
              /\ row.versions # <<>>
        BY <1>2, <4>1, <4>2, AppendRow
      <4> QED BY <4>3 DEF version
    <3> QED BY <1>0, <1>2, <3>1, <3>2, <3>3, EndOk
  <2>3. CASE \/ jobs[t] = "regenerate" /\ messages' = restore_selected_answer_status(m)
             \/ jobs[t] = "ask" /\ messages' = mark_generation_failed(m)
    <3>1. messages' = [messages EXCEPT ![m].status = StatusOf(messages[m])]
      <4>1. CASE jobs[t] = "regenerate" BY <2>0, <2>3, <4>1 DEF restore_selected_answer_status
      <4>2. CASE jobs[t] = "ask"
        <5>1. Len(messages[m].versions) = 0 BY <2>0, <4>2
        <5>2. messages[m].selected = NoVersion BY <2>0, <5>1 DEF RowFits, NoVersion
        <5>3. StatusOf(messages[m]) = "interrupted" BY <5>2 DEF StatusOf
        <5> QED BY <2>3, <4>2, <5>3 DEF mark_generation_failed
      <4> QED BY <1>j, <4>1, <4>2
    <3>2. PICK row :
              /\ RowFits(row) /\ messages' = [messages EXCEPT ![m] = row]
              /\ row.status = StatusOf(messages[m])
              /\ row.versions = messages[m].versions
              /\ StatusOf(row) = StatusOf(messages[m])
              /\ Kept(messages[m].versions, row.versions)
      <4> HIDE DEF m
      <4>1. Shapes BY DEF IInv
      <4> DEFINE status == StatusOf(messages[m])
      <4>2. status \in {"completed", "generating", "interrupted"} BY <2>0
      <4> HIDE DEF status
      <4>3. \E row :
              /\ RowFits(row) /\ [messages EXCEPT ![m].status = status] = [messages EXCEPT ![m] = row]
              /\ row.status = status
              /\ row.versions = messages[m].versions
              /\ StatusOf(row) = StatusOf(messages[m])
              /\ Kept(messages[m].versions, row.versions)
        BY <1>2, <4>1, <4>2, StatusRow
      <4> QED BY <3>1, <4>3 DEF status
    <3>3. jobs[t] = "regenerate" => row.versions # <<>> BY <2>0, <3>2
    <3> QED BY <1>0, <1>2, <3>2, <3>3, EndOk
  <2> QED BY <2>1, <2>2, <2>3
<1> QED BY <1>1, <1>2

\* A question is added, and a thread begins to answer it.
LEMMA BeginTurnOk ==
  ASSUME ConversationAssumption, IInv, NEW t \in Tasks, begin_turn(t)
  PROVE  Shapes' /\ InvParts'
<1> DEFINE m == Len(messages) + 1
           row == [status |-> "generating", selected |-> NoVersion, versions |-> <<>>]
           context == conversation_context(m)
<1>0. /\ jobs[t] = "ask" /\ task[t].pc = "idle" /\ exists
      /\ messages' = Append(messages, row)
      /\ task' = [task EXCEPT ![t] = [pc |-> "working", of |-> m, context |-> context]]
      /\ UNCHANGED <<jobs, exists, flat>>
  BY DEF begin_turn, Begin
<1>1. /\ DOMAIN messages = 1..Len(messages) /\ Len(messages) \in Nat /\ m \in Nat
      /\ messages \in Seq(MessageRows)
  BY RowFacts DEF IInv, Shapes
<1>2. row \in MessageRows /\ RowFits(row)
  <2>1. <<>> \in Seq(VersionRows) /\ Len(<<>>) = 0 BY EmptySeq
  <2> QED BY <2>1 DEF MessageRows, RowFits, NoVersion
<1>3. context \in Contexts /\ ContextOk(messages, m, context)
  BY <1>1, ContextFacts DEF IInv
<1> HIDE DEF context
<1>4. /\ messages' \in Seq(MessageRows) /\ Len(messages') = m
      /\ \A k \in DOMAIN messages : messages'[k] = messages[k]
      /\ messages'[m] = row
  <2> HIDE DEF row
  <2> QED BY <1>0, <1>1, <1>2, AppendProperties
<1>5. DOMAIN messages' = DOMAIN messages \cup {m}
  <2>1. DOMAIN messages' = 1..m BY <1>4, LenProperties
  <2> QED BY <1>1, <2>1
<1>6. /\ task'[t] = [pc |-> "working", of |-> m, context |-> context]
      /\ \A u \in Tasks : u # t => task'[u] = task[u]
      /\ task' \in [Tasks -> [pc : {"idle", "working", "lost", "done"}, of : Nat, context : Contexts]]
  BY <1>0, <1>1, <1>3 DEF IInv, Shapes
<1>7. \A k \in DOMAIN messages : k \in DOMAIN messages' /\ Kept(messages[k].versions, messages'[k].versions)
  BY <1>4, <1>5 DEF Kept
<1>8. \A k, c : ContextOk(messages, k, c) => ContextOk(messages', k, c) BY <1>7, ContextKept
<1>9. m \notin DOMAIN messages BY <1>1
<1>n. \A u \in Tasks : u # t /\ WorksOnMessage(u)' =>
          WorksOnMessage(u) /\ task'[u] = task[u] /\ task[u].of \in DOMAIN messages
  BY <1>0, <1>6, WorkingFacts DEF WorksOnMessage
<1> HIDE DEF m
<1>10. Shapes'
  <2>1. \A k \in DOMAIN messages' : messages'[k].selected \in 0..Len(messages'[k].versions)
    BY <1>2, <1>4, <1>5 DEF IInv, Shapes, RowFits
  <2> QED BY <1>0, <1>4, <1>6, <2>1 DEF IInv, Shapes
<1>11. VersionsInv'
  <2>1. ASSUME NEW k \in DOMAIN messages', NEW v \in DOMAIN messages'[k].versions
        PROVE ContextOk(messages', k, messages'[k].versions[v].context)
    <3>1. CASE k = m
      <4>1. DOMAIN row.versions = {} OBVIOUS
      <4> QED BY <1>4, <2>1, <3>1, <4>1
    <3>2. CASE k # m
      <4>1. k \in DOMAIN messages /\ messages'[k] = messages[k] BY <1>4, <1>5, <3>2
      <4> QED BY <1>8, <2>1, <4>1 DEF IInv, VersionsInv
    <3> QED BY <3>1, <3>2
  <2> QED BY <2>1 DEF VersionsInv
<1>12. TasksInv'
  <2>1. ASSUME NEW u \in Tasks, WorksOnMessage(u)'
        PROVE  /\ task'[u].of \in DOMAIN messages'
               /\ ContextOk(messages', task'[u].of, task'[u].context)
               /\ messages'[task'[u].of].versions = <<>> <=> jobs'[u] = "ask"
    <3>1. CASE u = t BY <1>0, <1>3, <1>4, <1>5, <1>6, <1>8, <3>1
    <3>2. CASE u # t
      <4>1. WorksOnMessage(u) /\ task'[u] = task[u] /\ task[u].of \in DOMAIN messages
        BY <1>n, <2>1, <3>2
      <4>2. ContextOk(messages, task[u].of, task[u].context)
            /\ (messages[task[u].of].versions = <<>> <=> jobs[u] = "ask")
        BY <1>0, <4>1, WorkingFacts
      <4> QED BY <1>0, <1>4, <1>5, <1>8, <4>1, <4>2
    <3> QED BY <3>1, <3>2
  <2> QED BY <2>1 DEF TasksInv
<1>13. FirstsInv'
  <2>1. ASSUME NEW u \in Tasks, NEW v \in Tasks, WorksOnMessage(u)', WorksOnMessage(v)',
               jobs'[u] = "ask", task'[u].of = task'[v].of
        PROVE u = v
    <3>1. CASE u = t /\ v # t BY <1>6, <1>9, <1>n, <2>1, <3>1
    <3>2. CASE u # t /\ v = t BY <1>6, <1>9, <1>n, <2>1, <3>2
    <3>3. CASE u # t /\ v # t BY <1>0, <1>n, <2>1, <3>3 DEF IInv, FirstsInv
    <3> QED BY <3>1, <3>2, <3>3
  <2> QED BY <2>1 DEF FirstsInv
<1>14. StatusIsOfSelected'
  <2>1. ASSUME NEW k \in DOMAIN messages', messages'[k].status # "generating"
        PROVE messages'[k].status = StatusOf(messages'[k])
    <3>1. k # m BY <1>4, <2>1
    <3>2. k \in DOMAIN messages /\ messages'[k] = messages[k] BY <1>4, <1>5, <3>1
    <3> QED BY <2>1, <3>2, RowFacts DEF IInv, StatusIsOfSelected
  <2> QED BY <2>1 DEF StatusIsOfSelected, SettledStatus, SelectedOf, StatusOf
<1>15. GeneratingIsWorkedOn'
  <2>1. ASSUME NEW k \in DOMAIN messages', messages'[k].status = "generating"
        PROVE \E u \in Tasks : /\ jobs'[u] \in {"ask", "regenerate"} /\ task'[u].of = k
                               /\ task'[u].pc \in {"working", "lost"}
    <3>1. CASE k = m BY <1>0, <1>6, <3>1
    <3>2. CASE k # m
      <4>1. k \in DOMAIN messages /\ messages[k].status = "generating" BY <1>4, <1>5, <2>1, <3>2
      <4>2. PICK u \in Tasks : /\ jobs[u] \in {"ask", "regenerate"} /\ task[u].of = k
                               /\ task[u].pc \in {"working", "lost"}
        BY <4>1 DEF IInv, GeneratingIsWorkedOn
      <4>3. u # t BY <1>0, <4>2
      <4> QED BY <1>0, <1>6, <4>2, <4>3
    <3> QED BY <3>1, <3>2
  <2> QED BY <2>1 DEF GeneratingIsWorkedOn
<1> QED BY <1>10, <1>11, <1>12, <1>13, <1>14, <1>15 DEF InvParts

\* A message that has a version is regenerated: nobody else answers it for the first time.
LEMMA BeginRegenerationOk ==
  ASSUME ConversationAssumption, IInv, NEW t \in Tasks, begin_regeneration(t)
  PROVE  Shapes' /\ InvParts'
<1>0. /\ jobs[t] = "regenerate" /\ task[t].pc = "idle" /\ exists
      /\ UNCHANGED <<jobs, exists, flat>>
      /\ Shapes
  BY DEF begin_regeneration, IInv
<1>1. PICK m \in DOMAIN messages :
          /\ messages[m].selected # NoVersion
          /\ messages' = [messages EXCEPT ![m].status = "generating"]
          /\ Begin(t, m, conversation_context(m))
  BY DEF begin_regeneration, MayRegenerate
<1>2. PICK row :
          /\ RowFits(row) /\ [messages EXCEPT ![m].status = "generating"] = [messages EXCEPT ![m] = row]
          /\ row.status = "generating"
          /\ row.versions = messages[m].versions
  BY <1>0, StatusRow
<1>3. /\ messages' \in Seq(MessageRows) /\ DOMAIN messages' = DOMAIN messages
      /\ messages'[m] = row
      /\ \A k \in DOMAIN messages : k # m => messages'[k] = messages[k]
      /\ \A k \in DOMAIN messages' : messages'[k].selected \in 0..Len(messages'[k].versions)
  <2>1. messages' = [messages EXCEPT ![m] = row] BY <1>1, <1>2
  <2> QED BY <1>0, <1>2, <2>1, Replaced
<1>4. m \in Nat /\ messages[m].versions # <<>>
  <2>1. m \in 1..Len(messages) /\ Len(messages) \in Nat /\ RowFits(messages[m]) BY <1>0, RowFacts
  <2>2. messages[m].selected \in 1..Len(messages[m].versions)
    BY <1>1, <2>1, LenProperties DEF RowFits, MessageRows, NoVersion
  <2>3. messages[m].versions = <<>> => Len(messages[m].versions) = 0 OBVIOUS
  <2> QED BY <2>1, <2>2, <2>3
<1> DEFINE context == conversation_context(m)
<1>5. context \in Contexts /\ ContextOk(messages, m, context)
  BY <1>0, <1>4, ContextFacts
<1>6. /\ task'[t] = [pc |-> "working", of |-> m, context |-> context]
      /\ \A u \in Tasks : u # t => task'[u] = task[u]
      /\ task' \in [Tasks -> [pc : {"idle", "working", "lost", "done"}, of : Nat, context : Contexts]]
  <2>1. task' = [task EXCEPT ![t] = [pc |-> "working", of |-> m, context |-> context]]
    BY <1>1 DEF Begin
  <2> HIDE DEF context
  <2> QED BY <1>0, <1>4, <1>5, <2>1 DEF Shapes
<1> HIDE DEF context
<1>7. \A k, c : ContextOk(messages, k, c) => ContextOk(messages', k, c)
  <2>1. \A k \in DOMAIN messages :
            k \in DOMAIN messages' /\ Kept(messages[k].versions, messages'[k].versions)
    BY <1>2, <1>3 DEF Kept
  <2> QED BY <2>1, ContextKept
<1>8. \A k \in DOMAIN messages' : messages'[k].versions = messages[k].versions BY <1>2, <1>3
<1>9. \A u \in Tasks : u # t /\ WorksOnMessage(u)' => WorksOnMessage(u) /\ task'[u] = task[u]
  BY <1>0, <1>6 DEF WorksOnMessage
<1>10. Shapes' BY <1>0, <1>3, <1>6 DEF Shapes
<1>11. VersionsInv' BY <1>3, <1>7, <1>8 DEF IInv, VersionsInv
<1>12. TasksInv'
  <2>1. ASSUME NEW u \in Tasks, WorksOnMessage(u)'
        PROVE  /\ task'[u].of \in DOMAIN messages'
               /\ ContextOk(messages', task'[u].of, task'[u].context)
               /\ messages'[task'[u].of].versions = <<>> <=> jobs'[u] = "ask"
    <3>1. CASE u = t BY <1>0, <1>3, <1>4, <1>5, <1>6, <1>7, <1>8, <3>1
    <3>2. CASE u # t
      <4>1. WorksOnMessage(u) /\ task'[u] = task[u] BY <1>9, <2>1, <3>2
      <4>2. /\ task[u].of \in DOMAIN messages
            /\ ContextOk(messages, task[u].of, task[u].context)
            /\ messages[task[u].of].versions = <<>> <=> jobs[u] = "ask"
        BY <1>0, <4>1 DEF IInv, TasksInv
      <4> QED BY <1>0, <1>3, <1>7, <1>8, <4>1, <4>2
    <3> QED BY <3>1, <3>2
  <2> QED BY <2>1 DEF TasksInv
<1>13. FirstsInv'
  <2>1. ASSUME NEW u \in Tasks, NEW v \in Tasks, WorksOnMessage(u)', WorksOnMessage(v)',
               jobs'[u] = "ask", task'[u].of = task'[v].of
        PROVE u = v
    <3>1. u # t BY <1>0, <2>1
    <3>2. WorksOnMessage(u) /\ task'[u] = task[u] BY <1>9, <2>1, <3>1
    <3>3. messages[task[u].of].versions = <<>> BY <1>0, <2>1, <3>2 DEF IInv, TasksInv
    <3>4. v # t BY <1>4, <1>6, <2>1, <3>2, <3>3
    <3>5. WorksOnMessage(v) /\ task'[v] = task[v] BY <1>9, <2>1, <3>4
    <3> QED BY <1>0, <2>1, <3>2, <3>5 DEF IInv, FirstsInv
  <2> QED BY <2>1 DEF FirstsInv
<1>14. StatusIsOfSelected'
  <2>1. ASSUME NEW k \in DOMAIN messages', messages'[k].status # "generating"
        PROVE messages'[k].status = StatusOf(messages'[k])
    <3>1. k \in DOMAIN messages /\ messages'[k] = messages[k] BY <1>2, <1>3, <2>1
    <3> QED BY <1>0, <2>1, <3>1, RowFacts DEF IInv, StatusIsOfSelected
  <2> QED BY <2>1 DEF StatusIsOfSelected, SettledStatus, SelectedOf, StatusOf
<1>15. GeneratingIsWorkedOn'
  <2>1. ASSUME NEW k \in DOMAIN messages', messages'[k].status = "generating"
        PROVE \E u \in Tasks : /\ jobs'[u] \in {"ask", "regenerate"} /\ task'[u].of = k
                               /\ task'[u].pc \in {"working", "lost"}
    <3>1. CASE k = m BY <1>0, <1>6, <3>1
    <3>2. CASE k # m
      <4>1. k \in DOMAIN messages /\ messages[k].status = "generating" BY <1>3, <2>1, <3>2
      <4>2. PICK u \in Tasks : /\ jobs[u] \in {"ask", "regenerate"} /\ task[u].of = k
                               /\ task[u].pc \in {"working", "lost"}
        BY <4>1 DEF IInv, GeneratingIsWorkedOn
      <4>3. u # t BY <1>0, <4>2
      <4> QED BY <1>0, <1>6, <4>2, <4>3
    <3> QED BY <3>1, <3>2
  <2> QED BY <2>1 DEF GeneratingIsWorkedOn
<1> QED BY <1>10, <1>11, <1>12, <1>13, <1>14, <1>15 DEF InvParts

\* select_answer_version: also while the message is generating, which it then does not show.
LEMMA SelectOk ==
  ASSUME ConversationAssumption, IInv, select_answer_version
  PROVE  Shapes' /\ InvParts'
<1>0. UNCHANGED <<jobs, exists, flat, task>> /\ Shapes BY DEF select_answer_version, IInv
<1>1. PICK m \in DOMAIN messages : \E v \in DOMAIN messages[m].versions :
          messages' = [messages EXCEPT ![m] = [status |-> @.versions[v].status, selected |-> v,
                                               versions |-> @.versions]]
  BY DEF select_answer_version
<1>2. PICK v \in DOMAIN messages[m].versions :
          messages' = [messages EXCEPT ![m] = [status |-> @.versions[v].status, selected |-> v,
                                               versions |-> @.versions]]
  BY <1>1
<1>3. PICK row :
          /\ RowFits(row)
          /\ row = [status |-> messages[m].versions[v].status, selected |-> v,
                    versions |-> messages[m].versions]
          /\ row.status = StatusOf(row)
          /\ row.versions = messages[m].versions
          /\ Kept(messages[m].versions, row.versions)
  BY <1>0, SelectRow
<1>4. messages' = [messages EXCEPT ![m] = row] BY <1>2, <1>3
<1>5. /\ messages' \in Seq(MessageRows)
      /\ \A k \in DOMAIN messages' : messages'[k].selected \in 0..Len(messages'[k].versions)
  BY <1>0, <1>3, <1>4, Replaced
<1>6. exists
  <2>1. messages # <<>> BY <1>0, RowFacts
  <2> QED BY <1>0, <2>1 DEF Shapes
<1>7. Shapes' BY <1>0, <1>5, <1>6 DEF Shapes
<1>8. VersionsInv' /\ TasksInv' /\ FirstsInv' /\ StatusIsOfSelected' /\ GeneratingIsWorkedOn'
  BY <1>0, <1>3, <1>4, <1>6, SettledOk
<1> QED BY <1>7, <1>8 DEF InvParts

\* _recover_generating_messages: every message is settled again.
LEMMA RecoverOk ==
  ASSUME ConversationAssumption, IInv, Reopen \/ Restart
  PROVE  Shapes' /\ InvParts'
<1>0. /\ UNCHANGED <<jobs, exists, flat>> /\ messages' = recover_generating_messages
      /\ Shapes
  BY DEF Reopen, Restart, IInv
<1>1. /\ DOMAIN messages = 1..Len(messages) /\ Len(messages) \in Nat
      /\ \A m \in DOMAIN messages :
             /\ RowFits(messages[m]) /\ SettledStatus(m) = StatusOf(messages[m])
             /\ StatusOf(messages[m]) \in {"completed", "interrupted"}
  BY <1>0, RowFacts
<1>2. DOMAIN messages' = DOMAIN messages BY <1>0 DEF recover_generating_messages
<1>3. ASSUME NEW m \in DOMAIN messages
      PROVE  /\ RowFits(messages'[m])
             /\ messages'[m].versions = messages[m].versions
             /\ messages'[m].selected = messages[m].selected
             /\ messages'[m].status = StatusOf(messages'[m])
             /\ messages'[m].status # "generating"
  <2>0. messages[m] \in MessageRows BY <1>1 DEF RowFits
  <2>1. CASE messages[m].status = "generating"
    <3>1. messages'[m] = [messages[m] EXCEPT !.status = StatusOf(messages[m])]
      BY <1>0, <1>1, <2>1 DEF recover_generating_messages
    <3>2. messages'[m] = [status |-> StatusOf(messages[m]), selected |-> messages[m].selected,
                          versions |-> messages[m].versions]
      BY <2>0, <3>1 DEF MessageRows
    <3>3. RowFits(messages'[m]) BY <1>1, <3>2 DEF RowFits, MessageRows
    <3>4. messages'[m].status = StatusOf(messages'[m]) BY <3>2 DEF StatusOf
    <3> QED BY <1>1, <3>2, <3>3, <3>4
  <2>2. CASE messages[m].status # "generating"
    <3>1. messages'[m] = messages[m] BY <1>0, <2>2 DEF recover_generating_messages
    <3>2. messages[m].status = StatusOf(messages[m]) BY <1>1, <2>2 DEF IInv, StatusIsOfSelected
    <3> QED BY <1>1, <2>2, <3>1, <3>2
  <2> QED BY <2>1, <2>2
<1>4. messages' \in Seq(MessageRows)
  <2>1. messages' \in [1..Len(messages) -> MessageRows]
    <3>1. \A m \in DOMAIN messages : messages'[m] \in MessageRows BY <1>3 DEF RowFits
    <3> QED BY <1>0, <1>1, <3>1 DEF recover_generating_messages
  <2> QED BY <1>1, <2>1, IsASeq
<1>5. task' \in [Tasks -> [pc : {"idle", "working", "lost", "done"}, of : Nat, context : Contexts]]
      /\ \A u \in Tasks : /\ task'[u].of = task[u].of /\ task'[u].context = task[u].context
                          /\ task'[u].pc = "working" => task[u].pc = "working"
  <2>1. CASE UNCHANGED task BY <1>0, <2>1 DEF Shapes
  <2>2. CASE task' = [t \in Tasks |-> IF task[t].pc = "idle" THEN task[t]
                                      ELSE [task[t] EXCEPT !.pc = "done"]]
    BY <1>0, <2>2 DEF Shapes
  <2> QED BY <2>1, <2>2 DEF Reopen, Restart
<1>6. Shapes'
  <2>1. ~exists' => messages' = <<>>
    <3>1. ASSUME ~exists PROVE messages' = <<>>
      <4>1. messages = <<>> BY <1>0, <3>1 DEF Shapes
      <4>2. Len(messages) = 0 BY <4>1
      <4>3. DOMAIN messages' = {} BY <1>1, <1>2, <4>2
      <4>4. Len(messages') = 0
        <5>1. DOMAIN messages' = 1..Len(messages') /\ Len(messages') \in Nat
          BY <1>4, LenProperties
        <5> QED BY <4>3, <5>1
      <4> QED BY <1>4, <4>4, EmptySeq
    <3> QED BY <1>0, <3>1
  <2>2. \A m \in DOMAIN messages' : messages'[m].selected \in 0..Len(messages'[m].versions)
    BY <1>2, <1>3 DEF RowFits
  <2> QED BY <1>0, <1>4, <1>5, <2>1, <2>2 DEF Shapes
<1>7. \A k, c : ContextOk(messages, k, c) => ContextOk(messages', k, c)
  <2>1. \A k \in DOMAIN messages :
            k \in DOMAIN messages' /\ Kept(messages[k].versions, messages'[k].versions)
    BY <1>2, <1>3 DEF Kept
  <2> QED BY <2>1, ContextKept
<1>8. VersionsInv' BY <1>2, <1>3, <1>7 DEF IInv, VersionsInv
<1>9. \A u \in Tasks : WorksOnMessage(u)' =>
          WorksOnMessage(u) /\ task'[u].of = task[u].of /\ task'[u].context = task[u].context
  BY <1>0, <1>5 DEF WorksOnMessage
<1>10. TasksInv' BY <1>0, <1>2, <1>3, <1>7, <1>9 DEF IInv, TasksInv
<1>11. FirstsInv' BY <1>0, <1>9 DEF IInv, FirstsInv
<1>12. StatusIsOfSelected'
  <2>1. \A m \in DOMAIN messages' : messages'[m].status = StatusOf(messages'[m]) BY <1>2, <1>3
  <2> QED BY <2>1 DEF StatusIsOfSelected, SettledStatus, SelectedOf, StatusOf
<1>13. GeneratingIsWorkedOn' BY <1>2, <1>3 DEF GeneratingIsWorkedOn
<1> QED BY <1>6, <1>8, <1>10, <1>11, <1>12, <1>13 DEF InvParts

\* The flat answers, and the threads that begin and lose: the messages are left alone.
LEMMA OtherStepsOk ==
  ASSUME ConversationAssumption, IInv, NEW t \in Tasks,
         \/ BeginAnswer(t) \/ BeginRetry(t) \/ LoseAnswer(t)
         \/ \E status \in {"completed", "interrupted"} : SaveFlat(t, status) \/ FinishRetry(t, status)
  PROVE  Shapes' /\ InvParts'
<1>0. UNCHANGED <<jobs, exists, messages>> /\ Shapes
  BY DEF BeginAnswer, BeginRetry, LoseAnswer, SaveFlat, FinishRetry, IInv
<1>1. <<>> \in Contexts
  <2>1. DOMAIN <<>> = {} OBVIOUS
  <2>2. <<>> \in [{} -> Nat] BY <2>1
  <2> QED BY <2>2 DEF Contexts
<1>2. PICK place \in {"working", "lost", "done"}, of \in Nat, context \in Contexts :
          /\ task' = [task EXCEPT ![t] = [pc |-> place, of |-> of, context |-> context]]
          /\ \/ jobs[t] \notin {"ask", "regenerate"}
             \/ /\ of = task[t].of /\ context = task[t].context
                /\ task[t].pc = "working" /\ place = "lost"
  <2>0. /\ task[t].of \in Nat /\ task[t].context \in Contexts
        /\ task[t] = [pc |-> task[t].pc, of |-> task[t].of, context |-> task[t].context]
    BY <1>0 DEF Shapes
  <2>1. CASE BeginAnswer(t)
    <3>1. /\ task' = [task EXCEPT ![t] = [pc |-> "working", of |-> 0, context |-> <<>>]]
          /\ jobs[t] \notin {"ask", "regenerate"}
      BY <2>1 DEF BeginAnswer, Begin
    <3> QED BY <1>1, <3>1
  <2>2. CASE BeginRetry(t)
    <3>1. PICK a \in DOMAIN flat : Begin(t, a, <<>>) BY <2>2 DEF BeginRetry
    <3>2. a \in Nat BY <1>0, LenProperties DEF Shapes
    <3>3. task' = [task EXCEPT ![t] = [pc |-> "working", of |-> a, context |-> <<>>]]
      BY <3>1 DEF Begin
    <3>4. jobs[t] \notin {"ask", "regenerate"} BY <2>2 DEF BeginRetry
    <3> QED BY <1>1, <3>2, <3>3, <3>4
  <2>3. CASE LoseAnswer(t)
    <3>1. task' = [task EXCEPT ![t] = [pc |-> "lost", of |-> task[t].of, context |-> task[t].context]]
      <4>1. task' = [task EXCEPT ![t].pc = "lost"] BY <2>3 DEF LoseAnswer
      <4>2. [task[t] EXCEPT !.pc = "lost"]
                = [pc |-> "lost", of |-> task[t].of, context |-> task[t].context]
        BY <2>0
      <4> QED BY <4>1, <4>2
    <3>2. task[t].pc = "working" BY <2>3 DEF LoseAnswer, WorksOnMessage
    <3> QED BY <2>0, <3>1, <3>2
  <2>4. CASE \E status \in {"completed", "interrupted"} : SaveFlat(t, status) \/ FinishRetry(t, status)
    <3>1. task' = [task EXCEPT ![t] = [pc |-> "done", of |-> task[t].of, context |-> task[t].context]]
          /\ jobs[t] \notin {"ask", "regenerate"}
      BY <2>0, <2>4 DEF SaveFlat, FinishRetry, Works, Ends
    <3> QED BY <2>0, <3>1
  <2> QED BY <2>1, <2>2, <2>3, <2>4
<1>3. /\ task' \in [Tasks -> [pc : {"idle", "working", "lost", "done"}, of : Nat, context : Contexts]]
      /\ \A u \in Tasks : u # t => task'[u] = task[u]
      /\ task'[t] = [pc |-> place, of |-> of, context |-> context]
  BY <1>0, <1>2 DEF Shapes
<1>4. flat' \in Seq(FlatRows)
  <2>0. flat \in Seq(FlatRows) BY <1>0 DEF Shapes
  <2>1. CASE UNCHANGED flat BY <2>0, <2>1
  <2>2. CASE \E status \in {"completed", "interrupted"} : SaveFlat(t, status)
    <3>1. PICK status \in {"completed", "interrupted"} :
              flat' = Append(flat, [status |-> status, by |-> t])
      BY <2>2 DEF SaveFlat
    <3>2. [status |-> status, by |-> t] \in FlatRows BY DEF FlatRows
    <3> QED BY <2>0, <3>1, <3>2, AppendProperties
  <2>3. CASE \E status \in {"completed", "interrupted"} : FinishRetry(t, status)
    <3> DEFINE a == task[t].of
               row == [status |-> "completed", by |-> t]
    <3>1. flat' = flat \/ (flat[a].status = "interrupted" /\ flat' = [flat EXCEPT ![a] = row])
      BY <2>3 DEF FinishRetry, replace_interrupted
    <3>2. row \in FlatRows BY DEF FlatRows
    <3>3. CASE flat' = flat BY <2>0, <3>3
    <3>4. CASE flat' = [flat EXCEPT ![a] = row] /\ a \in DOMAIN flat
      <4>1. a \in 1..Len(flat) BY <2>0, <3>4, LenProperties
      <4> HIDE DEF row
      <4> QED BY <2>0, <3>2, <3>4, <4>1, ExceptSeq
    <3>5. CASE flat' = [flat EXCEPT ![a] = row] /\ a \notin DOMAIN flat
      <4>1. [flat EXCEPT ![a] = row] = [b \in DOMAIN flat |-> flat[b]]
        BY <3>5
      <4>2. flat = [b \in DOMAIN flat |-> flat[b]]
        <5>1. flat \in [1..Len(flat) -> FlatRows] BY <2>0, SeqDef
        <5> QED BY <5>1
      <4> QED BY <2>0, <3>5, <4>1, <4>2
    <3> QED BY <3>1, <3>3, <3>4, <3>5
  <2> QED BY <2>1, <2>2, <2>3 DEF BeginAnswer, BeginRetry, LoseAnswer
<1>5. Shapes' BY <1>0, <1>3, <1>4 DEF Shapes
<1>6. \A u \in Tasks : jobs[u] \in {"ask", "regenerate"} =>
          /\ task'[u].of = task[u].of /\ task'[u].context = task[u].context
          /\ task'[u].pc = "working" => task[u].pc = "working"
          /\ task[u].pc \in {"working", "lost"} => task'[u].pc \in {"working", "lost"}
  BY <1>2, <1>3
<1>7. InvParts' BY <1>0, <1>6, MessagesFrame DEF InvParts
<1> QED BY <1>5, <1>7

-----------------------------------------------------------------------------
(* The theorems.                                                           *)

\* At the start there is a conversation without messages.
LEMMA InitOk ==
  ASSUME ConversationAssumption, Init
  PROVE  IInv
<1>1. <<>> \in Contexts
  <2>1. DOMAIN <<>> = {} OBVIOUS
  <2>2. <<>> \in [{} -> Nat] BY <2>1
  <2> QED BY <2>2 DEF Contexts
<1>2. messages \in Seq(MessageRows) /\ flat \in Seq(FlatRows) BY EmptySeq DEF Init
<1>3. DOMAIN messages = {} BY DEF Init
<1>4. Shapes BY <1>1, <1>2, <1>3 DEF Init, Shapes, Idle
<1>5. \A t \in Tasks : ~WorksOnMessage(t) BY DEF Init, Idle, WorksOnMessage
<1>6. VersionsInv /\ TasksInv /\ FirstsInv /\ StatusIsOfSelected /\ GeneratingIsWorkedOn
  BY <1>3, <1>5 DEF VersionsInv, TasksInv, FirstsInv, StatusIsOfSelected, GeneratingIsWorkedOn
<1> QED BY <1>4, <1>6 DEF IInv

\* Every transaction on the conversation keeps the invariant.
LEMMA NextOk ==
  ASSUME ConversationAssumption, IInv, [Next]_vars
  PROVE  IInv'
<1>1. ASSUME NEW t \in Tasks, begin_turn(t) PROVE Shapes' /\ InvParts'
  BY <1>1, BeginTurnOk
<1>2. ASSUME NEW t \in Tasks, begin_regeneration(t) PROVE Shapes' /\ InvParts'
  BY <1>2, BeginRegenerationOk
<1>3. ASSUME NEW t \in Tasks, BeginAnswer(t) \/ BeginRetry(t) PROVE Shapes' /\ InvParts'
  BY <1>3, OtherStepsOk
<1>4. ASSUME TaskStep PROVE Shapes' /\ InvParts'
  <2>1. PICK t \in Tasks : End(t) BY <1>4 DEF TaskStep
  <2>2. \/ (\E status \in {"completed", "interrupted"} : FinishAnswer(t, status)) \/ FailAnswer(t)
        \/ \/ BeginAnswer(t) \/ BeginRetry(t) \/ LoseAnswer(t)
           \/ \E status \in {"completed", "interrupted"} : SaveFlat(t, status) \/ FinishRetry(t, status)
    BY <2>1 DEF End
  <2>3. CASE (\E status \in {"completed", "interrupted"} : FinishAnswer(t, status)) \/ FailAnswer(t)
    BY <2>3, FinishOk
  <2>4. CASE \/ BeginAnswer(t) \/ BeginRetry(t) \/ LoseAnswer(t)
             \/ \E status \in {"completed", "interrupted"} : SaveFlat(t, status) \/ FinishRetry(t, status)
    BY <2>4, OtherStepsOk
  <2> QED BY <2>2, <2>3, <2>4
<1>5. ASSUME select_answer_version PROVE Shapes' /\ InvParts' BY <1>5, SelectOk
<1>6. ASSUME delete PROVE Shapes' /\ InvParts'
  <2>1. messages' = <<>> /\ exists' = FALSE /\ UNCHANGED <<jobs, flat, task>>
    BY <1>6 DEF delete
  <2>2. messages' \in Seq(MessageRows) BY <2>1, EmptySeq
  <2>3. DOMAIN messages' = {} BY <2>1
  <2>4. Shapes /\ exists' \in BOOLEAN BY <2>1 DEF IInv
  <2>5. Shapes' BY <2>1, <2>2, <2>3, <2>4 DEF Shapes
  <2> QED BY <2>1, <2>5, DeletedOk DEF InvParts
<1>7. ASSUME Reopen \/ Restart PROVE Shapes' /\ InvParts' BY <1>7, RecoverOk
<1>8. ASSUME UNCHANGED vars PROVE Shapes' /\ InvParts'
  <2>1. UNCHANGED <<jobs, exists, messages, flat, task>> BY <1>8 DEF vars
  <2>2. Shapes' BY <2>1 DEF IInv, Shapes
  <2>3. InvParts' BY <2>1, MessagesFrame DEF InvParts
  <2> QED BY <2>2, <2>3
<1>9. Shapes' /\ InvParts' BY <1>1, <1>2, <1>3, <1>4, <1>5, <1>6, <1>7, <1>8 DEF Next
<1> QED BY <1>9 DEF IInv, InvParts

\* Whatever the requests on a conversation do and whatever happens around them (transactions
\* of conversations.py), its messages, versions and threads fit together.
THEOREM ConversationInvariant ==
  ASSUME ConversationAssumption
  PROVE  Spec => []IInv
<1>1. Init => IInv BY InitOk
<1>2. IInv /\ [Next]_vars => IInv' BY NextOk
<1> QED BY <1>1, <1>2, PTL DEF Spec

\* The parts of the invariant that the runs check.
LEMMA InvariantMeans ==
  ASSUME IInv
  PROVE  TypeOK /\ ContextIsSettled /\ StatusIsOfSelected /\ GeneratingIsWorkedOn
<1>1. ContextIsSettled BY DEF IInv, VersionsInv, ContextOk, ContextIsSettled
<1>2. TypeOK
  <2>1. ASSUME NEW m \in DOMAIN messages
        PROVE  /\ messages[m].status \in {"completed", "generating", "interrupted"}
               /\ messages[m].selected \in {NoVersion} \cup DOMAIN messages[m].versions
    <3>1. messages[m] \in MessageRows /\ messages[m].selected \in 0..Len(messages[m].versions)
      BY ElementOfSeq, LenProperties DEF IInv, Shapes
    <3>2. /\ messages[m].versions \in Seq(VersionRows)
          /\ messages[m].status \in {"completed", "generating", "interrupted"}
      BY <3>1 DEF MessageRows
    <3>3. /\ DOMAIN messages[m].versions = 1..Len(messages[m].versions)
          /\ Len(messages[m].versions) \in Nat
      BY <3>2, LenProperties
    <3> QED BY <3>1, <3>2, <3>3 DEF NoVersion
  <2>2. \A t \in Tasks : task[t].pc \in {"idle", "working", "lost", "done"} BY DEF IInv, Shapes
  <2> QED BY <2>1, <2>2 DEF IInv, Shapes, TypeOK
<1> QED BY <1>1, <1>2 DEF IInv

\* The rows of a conversation have states the code knows, and a message shows one of its
\* versions (selected_answer_version_id).
THEOREM ConversationTypes ==
  ASSUME ConversationAssumption
  PROVE  Spec => []TypeOK
<1>1. IInv => TypeOK BY InvariantMeans
<1> QED BY <1>1, ConversationInvariant, PTL

\* An answer is made in the light of completed answers to earlier questions only
\* (_conversation_context).
THEOREM ContextsAreSettled ==
  ASSUME ConversationAssumption
  PROVE  Spec => []ContextIsSettled
<1>1. IInv => ContextIsSettled BY InvariantMeans
<1> QED BY <1>1, ConversationInvariant, PTL

\* A message that is not generating shows the status of the version that is selected
\* (_restore_selected_answer_status, recover_stale_conversation_generations).
THEOREM ShowsTheSelected ==
  ASSUME ConversationAssumption
  PROVE  Spec => []StatusIsOfSelected
<1>1. IInv => StatusIsOfSelected BY InvariantMeans
<1> QED BY <1>1, ConversationInvariant, PTL

\* What is generating has a thread, or one that could not store its end
\* (_begin_turn, _mark_generation_failed).
THEOREM GeneratingHasAThread ==
  ASSUME ConversationAssumption
  PROVE  Spec => []GeneratingIsWorkedOn
<1>1. IInv => GeneratingIsWorkedOn BY InvariantMeans
<1> QED BY <1>1, ConversationInvariant, PTL

\* A sequence of versions that keeps another one begins with it.
LEMMA KeptIsPrefix ==
  ASSUME NEW old \in Seq(VersionRows), NEW new \in Seq(VersionRows), Kept(old, new)
  PROVE  IsPrefix(old, new)
<1>1. /\ DOMAIN old = 1..Len(old) /\ Len(old) \in Nat
      /\ DOMAIN new = 1..Len(new) /\ Len(new) \in Nat
  BY LenProperties
<1>2. Len(old) <= Len(new)
  <2>1. CASE Len(old) = 0 BY <1>1, <2>1
  <2>2. CASE Len(old) # 0
    <3>1. Len(old) \in DOMAIN new BY <1>1, <2>2 DEF Kept
    <3> QED BY <1>1, <3>1
  <2> QED BY <2>1, <2>2
<1>3. /\ \A i \in 1..Len(old) : old[i] \in VersionRows
      /\ \A i \in 1..Len(old) : new[i] \in VersionRows
      /\ \A i \in 1..Len(old) : new[i] = old[i]
  <2>1. \A i \in 1..Len(old) : old[i] \in VersionRows BY ElementOfSeq
  <2>2. \A i \in 1..Len(old) : new[i] = old[i] BY <1>1 DEF Kept
  <2> QED BY <2>1, <2>2
<1> DEFINE a == SubSeq(old, 1, Len(old))
           b == SubSeq(new, 1, Len(old))
<1>4. /\ a \in Seq(VersionRows) /\ Len(a) = Len(old)
      /\ \A i \in 1..Len(old) : a[i] = old[i]
  <2>1. /\ a \in Seq(VersionRows) /\ Len(a) = IF 1 <= Len(old) THEN Len(old) - 1 + 1 ELSE 0
        /\ \A i \in 1..(Len(old) - 1 + 1) : a[i] = old[1 + i - 1]
    BY <1>1, <1>3, SubSeqProperties
  <2> HIDE DEF a
  <2> QED BY <1>1, <2>1
<1>5. /\ b \in Seq(VersionRows) /\ Len(b) = Len(old)
      /\ \A i \in 1..Len(old) : b[i] = new[i]
  <2>1. /\ b \in Seq(VersionRows) /\ Len(b) = IF 1 <= Len(old) THEN Len(old) - 1 + 1 ELSE 0
        /\ \A i \in 1..(Len(old) - 1 + 1) : b[i] = new[1 + i - 1]
    BY <1>1, <1>3, SubSeqProperties
  <2> HIDE DEF b
  <2> QED BY <1>1, <2>1
<1>6. a = b
  <2>1. \A i \in 1..Len(a) : a[i] = b[i] BY <1>3, <1>4, <1>5
  <2> HIDE DEF a, b
  <2> QED BY <1>4, <1>5, <2>1, SeqEqual
<1> QED BY <1>2, <1>6 DEF IsPrefix

MessagesAreKept ==
    \A m \in DOMAIN messages : m \in DOMAIN messages' =>
        /\ IsPrefix(messages[m].versions, messages'[m].versions)
        /\ messages[m].selected # NoVersion /\ SelectedOf(m).status = "completed" =>
               messages'[m].selected \in DOMAIN messages[m].versions
               \/ SettledStatus(m)' = "completed"

FlatIsKept ==
    \A a \in DOMAIN flat : flat[a].status = "completed" => flat'[a] = flat[a]

\* Versions stay, and the selection moves to one that was there, or to a completed one.
LEMMA KeptMessages ==
  ASSUME Shapes, Shapes',
         \A m \in DOMAIN messages : m \in DOMAIN messages' =>
             /\ Kept(messages[m].versions, messages'[m].versions)
             /\ \/ messages'[m].selected = messages[m].selected
                \/ messages'[m].selected \in DOMAIN messages[m].versions
                \/ messages[m].selected = NoVersion
                \/ StatusOf(messages'[m]) = "completed"
  PROVE  MessagesAreKept
<1>1. ASSUME NEW m \in DOMAIN messages, m \in DOMAIN messages'
      PROVE  /\ IsPrefix(messages[m].versions, messages'[m].versions)
             /\ messages[m].selected # NoVersion =>
                    messages'[m].selected \in DOMAIN messages[m].versions
                    \/ SettledStatus(m)' = "completed"
  <2>1. messages[m] \in MessageRows /\ messages'[m] \in MessageRows
        /\ messages[m].selected \in 0..Len(messages[m].versions)
    BY <1>1, LenProperties, ElementOfSeq DEF Shapes
  <2>2. messages[m].versions \in Seq(VersionRows) /\ messages'[m].versions \in Seq(VersionRows)
    BY <2>1 DEF MessageRows
  <2>3. IsPrefix(messages[m].versions, messages'[m].versions) BY <1>1, <2>2, KeptIsPrefix
  <2>4. messages[m].selected # NoVersion =>
            messages[m].selected \in DOMAIN messages[m].versions
    BY <2>1, <2>2, LenProperties DEF NoVersion
  <2>5. SettledStatus(m)' = StatusOf(messages'[m]) BY DEF SettledStatus, SelectedOf, StatusOf
  <2> QED BY <1>1, <2>3, <2>4, <2>5
<1> QED BY <1>1 DEF MessagesAreKept

\* _append_answer_version with a completed answer, or with the first one, keeps them.
LEMMA FinishKeeps ==
  ASSUME ConversationAssumption, IInv, Shapes', NEW t \in Tasks,
         \/ \E status \in {"completed", "interrupted"} : FinishAnswer(t, status)
         \/ FailAnswer(t)
  PROVE  MessagesAreKept
<1> DEFINE m == task[t].of
<1>0. WorksOnMessage(t) /\ Shapes BY DEF FinishAnswer, FailAnswer, IInv
<1>1. CASE m \notin DOMAIN messages
  <2>1. UNCHANGED messages BY <1>1 DEF FinishAnswer, FailAnswer, IfThere
  <2>2. \A k \in DOMAIN messages : Kept(messages[k].versions, messages'[k].versions)
    BY <2>1 DEF Kept
  <2> QED BY <1>0, <2>1, <2>2, KeptMessages
<1>2. CASE m \in DOMAIN messages
  <2>0. /\ exists /\ (messages[m].versions = <<>> <=> jobs[t] = "ask")
        /\ task[t].context \in Contexts
        /\ RowFits(messages[m]) /\ SettledStatus(m) = StatusOf(messages[m])
        /\ StatusOf(messages[m]) \in {"completed", "interrupted"}
    BY <1>0, <1>2, WorkingFacts, RowFacts
  <2>1. PICK row :
            /\ RowFits(row) /\ messages' = [messages EXCEPT ![m] = row]
            /\ Kept(messages[m].versions, row.versions)
            /\ \/ row.selected = messages[m].selected
               \/ messages[m].selected = NoVersion
               \/ StatusOf(row) = "completed"
    <3>1. \/ \E status \in {"completed", "interrupted"} :
                 /\ jobs[t] = "ask" \/ status = "completed"
                 /\ messages' = append_answer_version(m, Version(t, status))
          \/ messages' = [messages EXCEPT ![m].status = StatusOf(messages[m])]
          \/ messages' = [messages EXCEPT ![m].status = "interrupted"]
      BY <1>2, <2>0 DEF FinishAnswer, FailAnswer, IfThere, restore_selected_answer_status,
                        mark_generation_failed
    <3>2. CASE \E status \in {"completed", "interrupted"} :
                   /\ jobs[t] = "ask" \/ status = "completed"
                   /\ messages' = append_answer_version(m, Version(t, status))
      <4>1. PICK status \in {"completed", "interrupted"} :
                /\ jobs[t] = "ask" \/ status = "completed"
                /\ messages' = append_answer_version(m, Version(t, status))
        BY <3>2
      <4> DEFINE version == Version(t, status)
      <4>2. version \in VersionRows /\ version.status = status
        BY <2>0 DEF Version, VersionRows
      <4>3. messages' = append_answer_version(m, version) BY <4>1
      <4> HIDE DEF m, version
      <4>4. PICK row :
                /\ RowFits(row)
                /\ append_answer_version(m, version) = [messages EXCEPT ![m] = row]
                /\ row.status = StatusOf(row)
                /\ Kept(messages[m].versions, row.versions)
                /\ row.status = version.status
        BY <1>0, <1>2, <4>2, AppendRow
      <4>5. jobs[t] = "ask" => messages[m].selected = NoVersion
        <5>1. jobs[t] = "ask" => Len(messages[m].versions) = 0 BY <2>0
        <5> QED BY <2>0, <5>1 DEF RowFits, NoVersion
      <4> QED BY <4>1, <4>2, <4>3, <4>4, <4>5
    <3>3. ASSUME NEW status \in {"completed", "interrupted"},
                 messages' = [messages EXCEPT ![m].status = status]
          PROVE  \E row : /\ RowFits(row) /\ messages' = [messages EXCEPT ![m] = row]
                          /\ Kept(messages[m].versions, row.versions)
                          /\ row.selected = messages[m].selected
      <4> HIDE DEF m
      <4>1. status \in {"completed", "generating", "interrupted"} OBVIOUS
      <4>2. PICK row :
                /\ RowFits(row)
                /\ [messages EXCEPT ![m].status = status] = [messages EXCEPT ![m] = row]
                /\ row.selected = messages[m].selected
                /\ Kept(messages[m].versions, row.versions)
        BY <1>0, <1>2, <4>1, StatusRow
      <4> QED BY <3>3, <4>2
    <3> HIDE DEF m
    <3> QED BY <2>0, <3>1, <3>2, <3>3
  <2> HIDE DEF m
  <2>2. /\ DOMAIN messages' = DOMAIN messages /\ messages'[m] = row
        /\ \A k \in DOMAIN messages : k # m => messages'[k] = messages[k]
    BY <1>0, <1>2, <2>1, Replaced
  <2>3. \A k \in DOMAIN messages :
            /\ Kept(messages[k].versions, messages'[k].versions)
            /\ \/ messages'[k].selected = messages[k].selected
               \/ messages'[k].selected \in DOMAIN messages[k].versions
               \/ messages[k].selected = NoVersion
               \/ StatusOf(messages'[k]) = "completed"
    BY <2>1, <2>2 DEF Kept
  <2> QED BY <1>0, <2>3, KeptMessages
<1> QED BY <1>1, <1>2

\* What else happens to a conversation leaves its versions and its selection, or moves the
\* selection to a version that was there (select_answer_version, _recover_generating_messages).
LEMMA OthersKeep ==
  ASSUME ConversationAssumption, IInv, Shapes', [Next]_vars,
         ~\E t \in Tasks : \/ \E status \in {"completed", "interrupted"} : FinishAnswer(t, status)
                           \/ FailAnswer(t)
  PROVE  MessagesAreKept
<1>0. Shapes BY DEF IInv
<1>1. CASE UNCHANGED messages
  <2>1. \A k \in DOMAIN messages : Kept(messages[k].versions, messages'[k].versions)
    BY <1>1 DEF Kept
  <2> QED BY <1>0, <1>1, <2>1, KeptMessages
<1>2. ASSUME NEW t \in Tasks, begin_turn(t) PROVE MessagesAreKept
  <2> DEFINE row == [status |-> "generating", selected |-> NoVersion, versions |-> <<>>]
  <2>1. messages' = Append(messages, row) /\ messages \in Seq(MessageRows)
    BY <1>0, <1>2 DEF begin_turn, Shapes
  <2>2. row \in MessageRows
    <3>1. <<>> \in Seq(VersionRows) BY EmptySeq
    <3> QED BY <3>1 DEF MessageRows, NoVersion
  <2> HIDE DEF row
  <2>3. \A k \in DOMAIN messages : messages'[k] = messages[k]
    <3>1. \A k \in 1..Len(messages) : messages'[k] = messages[k] BY <2>1, <2>2, AppendProperties
    <3> QED BY <1>0, <3>1, RowFacts
  <2>4. \A k \in DOMAIN messages : Kept(messages[k].versions, messages'[k].versions)
    BY <2>3 DEF Kept
  <2> QED BY <1>0, <2>3, <2>4, KeptMessages
<1>3. ASSUME NEW t \in Tasks, begin_regeneration(t) PROVE MessagesAreKept
  <2>1. PICK m \in DOMAIN messages : messages' = [messages EXCEPT ![m].status = "generating"]
    BY <1>3 DEF begin_regeneration
  <2>2. PICK row :
            /\ RowFits(row)
            /\ [messages EXCEPT ![m].status = "generating"] = [messages EXCEPT ![m] = row]
            /\ row.selected = messages[m].selected
            /\ Kept(messages[m].versions, row.versions)
    BY <1>0, StatusRow
  <2>3. /\ messages'[m] = row
        /\ \A k \in DOMAIN messages : k # m => messages'[k] = messages[k]
    BY <1>0, <2>1, <2>2, Replaced
  <2>4. \A k \in DOMAIN messages :
            Kept(messages[k].versions, messages'[k].versions)
            /\ messages'[k].selected = messages[k].selected
    BY <2>2, <2>3 DEF Kept
  <2> QED BY <1>0, <2>4, KeptMessages
<1>4. ASSUME select_answer_version PROVE MessagesAreKept
  <2>1. PICK m \in DOMAIN messages : \E v \in DOMAIN messages[m].versions :
            messages' = [messages EXCEPT ![m] = [status |-> @.versions[v].status, selected |-> v,
                                                 versions |-> @.versions]]
    BY <1>4 DEF select_answer_version
  <2>2. PICK v \in DOMAIN messages[m].versions :
            messages' = [messages EXCEPT ![m] = [status |-> @.versions[v].status, selected |-> v,
                                                 versions |-> @.versions]]
    BY <2>1
  <2>3. \A k \in DOMAIN messages :
            /\ messages'[k].versions = messages[k].versions
            /\ messages'[k].selected = IF k = m THEN v ELSE messages[k].selected
    BY <2>2
  <2>4. \A k \in DOMAIN messages : Kept(messages[k].versions, messages'[k].versions)
    BY <2>3 DEF Kept
  <2> QED BY <1>0, <2>3, <2>4, KeptMessages
<1>5. ASSUME delete PROVE MessagesAreKept
  <2>1. DOMAIN messages' = {} BY <1>5 DEF delete
  <2> QED BY <2>1 DEF MessagesAreKept
<1>6. ASSUME Reopen \/ Restart PROVE MessagesAreKept
  <2>1. messages' = recover_generating_messages BY <1>6 DEF Reopen, Restart
  <2>2. ASSUME NEW k \in DOMAIN messages
        PROVE  /\ messages'[k].versions = messages[k].versions
               /\ messages'[k].selected = messages[k].selected
    <3>1. messages[k] \in MessageRows BY <1>0, RowFacts DEF RowFits
    <3>2. messages'[k] = IF messages[k].status = "generating"
                         THEN [messages[k] EXCEPT !.status = SettledStatus(k)] ELSE messages[k]
      BY <2>1 DEF recover_generating_messages
    <3> QED BY <3>1, <3>2 DEF MessageRows
  <2>3. \A k \in DOMAIN messages : Kept(messages[k].versions, messages'[k].versions)
    BY <2>2 DEF Kept
  <2> QED BY <1>0, <2>2, <2>3, KeptMessages
<1>7. ASSUME NEW t \in Tasks,
             \/ BeginAnswer(t) \/ BeginRetry(t) \/ LoseAnswer(t)
             \/ \E status \in {"completed", "interrupted"} : SaveFlat(t, status) \/ FinishRetry(t, status)
      PROVE  UNCHANGED messages
  BY <1>7 DEF BeginAnswer, BeginRetry, LoseAnswer, SaveFlat, FinishRetry
<1>8. UNCHANGED vars => UNCHANGED messages BY DEF vars
<1>9. TaskStep => UNCHANGED messages BY <1>7 DEF TaskStep, End
<1> QED BY <1>1, <1>2, <1>3, <1>4, <1>5, <1>6, <1>7, <1>8, <1>9 DEF Next

\* replace_interrupted leaves a completed flat answer alone, also one that another retry made.
LEMMA FlatKeeps ==
  ASSUME IInv, [Next]_vars
  PROVE  FlatIsKept
<1>0. flat \in Seq(FlatRows) BY DEF IInv, Shapes
<1>1. ASSUME UNCHANGED flat PROVE FlatIsKept BY <1>1 DEF FlatIsKept
<1>2. ASSUME NEW t \in Tasks, NEW status \in {"completed", "interrupted"}, SaveFlat(t, status)
      PROVE  FlatIsKept
  <2> DEFINE row == [status |-> status, by |-> t]
  <2>1. flat' = Append(flat, row) BY <1>2 DEF SaveFlat
  <2>2. row \in FlatRows BY DEF FlatRows
  <2> HIDE DEF row
  <2>3. \A a \in 1..Len(flat) : flat'[a] = flat[a] BY <1>0, <2>1, <2>2, AppendProperties
  <2>4. DOMAIN flat = 1..Len(flat) BY <1>0, LenProperties
  <2> QED BY <2>3, <2>4 DEF FlatIsKept
<1>3. ASSUME NEW t \in Tasks, NEW status \in {"completed", "interrupted"}, FinishRetry(t, status)
      PROVE  FlatIsKept
  <2>1. \/ UNCHANGED flat
        \/ /\ flat[task[t].of].status = "interrupted"
           /\ flat' = [flat EXCEPT ![task[t].of] = [status |-> "completed", by |-> t]]
    BY <1>3 DEF FinishRetry, replace_interrupted
  <2>2. CASE UNCHANGED flat BY <1>1, <2>2
  <2>3. CASE /\ flat[task[t].of].status = "interrupted"
             /\ flat' = [flat EXCEPT ![task[t].of] = [status |-> "completed", by |-> t]]
    BY <2>3 DEF FlatIsKept
  <2> QED BY <2>1, <2>2, <2>3
<1>4. ASSUME NEW t \in Tasks,
             \/ begin_turn(t) \/ begin_regeneration(t) \/ BeginAnswer(t) \/ BeginRetry(t)
             \/ LoseAnswer(t) \/ FailAnswer(t)
             \/ \E status \in {"completed", "interrupted"} : FinishAnswer(t, status)
      PROVE  UNCHANGED flat
  BY <1>4 DEF begin_turn, begin_regeneration, BeginAnswer, BeginRetry, LoseAnswer, FailAnswer,
              FinishAnswer
<1>5. select_answer_version \/ delete \/ Reopen \/ Restart \/ UNCHANGED vars => UNCHANGED flat
  BY DEF select_answer_version, delete, Reopen, Restart, vars
<1>6. TaskStep => FlatIsKept BY <1>1, <1>2, <1>3, <1>4 DEF TaskStep, End
<1> QED BY <1>1, <1>4, <1>5, <1>6 DEF Next

\* No step takes an answer away (_append_answer_version, replace_interrupted, select_answer_version).
LEMMA StepKeeps ==
  ASSUME ConversationAssumption, IInv, IInv', [Next]_vars
  PROVE  AnswersAreKept
<1>1. Shapes' BY DEF IInv
<1>2. FlatIsKept BY FlatKeeps
<1>3. MessagesAreKept
  <2>1. CASE \E t \in Tasks : \/ \E status \in {"completed", "interrupted"} : FinishAnswer(t, status)
                              \/ FailAnswer(t)
    BY <1>1, <2>1, FinishKeeps
  <2>2. CASE ~\E t \in Tasks : \/ \E status \in {"completed", "interrupted"} : FinishAnswer(t, status)
                               \/ FailAnswer(t)
    BY <1>1, <2>2, OthersKeep
  <2> QED BY <2>1, <2>2
<1> QED BY <1>2, <1>3 DEF AnswersAreKept, MessagesAreKept, FlatIsKept

\* Answers are snapshots: no version of a conversation changes, a completed flat answer is
\* never replaced, and only the user replaces a completed version by one that is not.
THEOREM AnswersStay ==
  ASSUME ConversationAssumption
  PROVE  Spec => [][AnswersAreKept]_vars
<1>1. IInv /\ IInv' /\ [Next]_vars => [AnswersAreKept]_vars BY StepKeeps
<1> QED BY <1>1, ConversationInvariant, PTL DEF Spec

-----------------------------------------------------------------------------
(* One streamed answer, for any number of attempts and chunks.             *)
(*                                                                         *)
(* What is shown is kept twice, by the answer service and by the shell,    *)
(* and the two differ while an attempt that was reset has nothing to show  *)
(* yet: the service is at the next attempt then, the shell at the one      *)
(* before, and the texts are the same.  The chunks of a text carry the     *)
(* attempt that they are of.                                               *)

Chunk == Nat \X Nat
Text == Seq(Chunk)

Tagged(text, a) == \A i \in 1..Len(text) : text[i][1] = a
Uniform(text) == \E a \in 0..MaxAttempts : Tagged(text, a)

StreamShapes ==
    /\ waiter \in {"queued", "waiting", "backoff", "showing", "done"}
    /\ attempt \in Stream!Attempts /\ slot \in BOOLEAN /\ stopped_by_user \in BOOLEAN
    /\ provider \in [Stream!Attempts -> {"none", "starting", "streaming",
                                  "answered", "broken", "rejected", "failed"}]
    /\ sent \in [Stream!Attempts -> Text]
    /\ chunks \in Text
    /\ streams \in [pending : BOOLEAN, cancelled : BOOLEAN, open : {None} \cup Stream!Attempts]
    /\ client \in [Stream!Attempts -> {"none", "open", "closed"}]
    /\ visible \in [attempt : Nat, text : Text, replace : BOOLEAN]
    /\ shell \in [attempt : Nat, text : Text]
    /\ waiter = "showing" => rest \in [text : Text, next : Nat \ {0}, attempt : Nat]

\* The slot is held exactly during the wait; a connection that is to come is pending, or
\* will find that nobody waits for it any more.
Connections ==
    /\ slot <=> waiter = "waiting"
    /\ waiter \in {"queued", "backoff"} => provider[attempt] = "none"
    /\ \A a \in Stream!Attempts : a > attempt => provider[a] = "none"
    /\ \A a \in Stream!Attempts : Stream!IsLive(a) =>
           a = attempt /\ (waiter = "waiting" \/ (waiter = "done" /\ stopped_by_user))
    /\ streams.open # None => provider[streams.open] = "streaming"
    /\ \A a \in Stream!Attempts : client[a] = "open" =>
           provider[a] = "streaming" /\ streams.open = a /\ waiter = "waiting"
    /\ \A a \in Stream!Attempts : provider[a] = "starting" =>
           /\ waiter = "waiting" => streams.pending
           /\ waiter = "done" => streams.cancelled

\* The shell is behind by resets only, and has the same text.
InStep ==
    /\ shell.text = visible.text
    /\ shell.attempt <= visible.attempt
    /\ ~visible.replace => shell.attempt = visible.attempt

\* The part of the final text that has been emitted is what is shown.
FinalIsShown == waiter = "showing" =>
    /\ Uniform(rest.text) /\ Len(rest.text) > 0
    /\ rest.next <= Len(rest.text) + 1
    /\ rest.next = 1 => rest.attempt > visible.attempt
    /\ rest.next > 1 => /\ rest.attempt = visible.attempt /\ ~visible.replace
                        /\ visible.text = SubSeq(rest.text, 1, rest.next - 1)

StoredIsVisible == waiter = "done" => stored.text = visible.text

\* The answer is stored when the request ends.
StoredAtTheEnd ==
    /\ waiter = "done" => stored \in Stream!Answers
    /\ waiter # "done" => stored = None

Tags ==
    /\ \A a \in Stream!Attempts : Tagged(sent[a], a)
    /\ Tagged(chunks, attempt)
    /\ waiter # "waiting" => chunks = <<>>
    /\ Uniform(visible.text)
    /\ waiter \in {"queued", "waiting", "backoff"} =>
           /\ visible.attempt <= attempt
           /\ visible.attempt = attempt /\ ~visible.replace => Tagged(visible.text, attempt)

StreamIInv ==
    /\ StreamShapes /\ Connections /\ InStep /\ FinalIsShown
    /\ StoredIsVisible /\ StoredAtTheEnd /\ Tags

-----------------------------------------------------------------------------
(* Texts.                                                                  *)

\* Chunks of one attempt after chunks of the same attempt.
LEMMA TaggedConcat ==
  ASSUME NEW s \in Text, NEW t \in Text, NEW a, Tagged(s, a), Tagged(t, a)
  PROVE  s \o t \in Text /\ Tagged(s \o t, a)
<1>1. /\ s \o t \in Text /\ Len(s \o t) = Len(s) + Len(t)
      /\ \A i \in 1..Len(s) + Len(t) :
             (s \o t)[i] = IF i <= Len(s) THEN s[i] ELSE t[i - Len(s)]
  BY ConcatProperties DEF Text
<1>2. Len(s) \in Nat /\ Len(t) \in Nat BY LenProperties DEF Text
<1>3. ASSUME NEW i \in 1..Len(s) + Len(t) PROVE (s \o t)[i][1] = a
  <2>1. CASE i <= Len(s)
    <3>1. i \in 1..Len(s) BY <1>2, <2>1
    <3> QED BY <1>1, <2>1, <3>1 DEF Tagged
  <2>2. CASE ~(i <= Len(s))
    <3>1. i - Len(s) \in 1..Len(t) BY <1>2, <2>2
    <3> QED BY <1>1, <2>2, <3>1 DEF Tagged
  <2> QED BY <2>1, <2>2
<1> QED BY <1>1, <1>3 DEF Tagged

\* The next chunk of a text, after those before it.
LEMMA NextChunk ==
  ASSUME NEW text \in Text, NEW n \in 1..Len(text)
  PROVE  /\ <<text[n]>> \in Text
         /\ SubSeq(text, 1, n) = SubSeq(text, 1, n - 1) \o <<text[n]>>
         /\ SubSeq(text, 1, 1) = <<text[1]>>
<1>0. Len(text) \in Nat /\ 1 \in 1..Len(text) BY LenProperties DEF Text
<1>1. text[n] \in Chunk /\ text[1] \in Chunk BY <1>0, ElementOfSeq DEF Text
<1>2. SubSeq(text, 1, n) = SubSeq(text, 1, n - 1) \o <<text[n]>>
  BY <1>0, SubSeqRecursiveSecond DEF Text
<1>3. SubSeq(text, 1, 1) = SubSeq(text, 1, 0) \o <<text[1]>>
  <2>1. 1 \in 1..Len(text) /\ 1 - 1 = 0 BY <1>0
  <2>2. SubSeq(text, 1, 1) = SubSeq(text, 1, 1 - 1) \o <<text[1]>>
    BY <2>1, SubSeqRecursiveSecond DEF Text
  <2> QED BY <2>1, <2>2
<1>4. SubSeq(text, 1, 0) = <<>> BY SubSeqEmpty
<1>5. <<text[1]>> \in Seq(Chunk) /\ <<text[n]>> \in Seq(Chunk) BY <1>1
<1>6. <<>> \o <<text[1]>> = <<text[1]>> BY <1>5, ConcatEmptySeq
<1> QED BY <1>2, <1>3, <1>4, <1>5, <1>6 DEF Text

\* A part of a text of one attempt.
LEMMA UniformPart ==
  ASSUME NEW text \in Text, Uniform(text), NEW n \in 0..Len(text)
  PROVE  SubSeq(text, 1, n) \in Text /\ Uniform(SubSeq(text, 1, n))
<1>0. Len(text) \in Nat BY LenProperties DEF Text
<1>1. \A i \in 1..n : text[i] \in Chunk BY <1>0, ElementOfSeq DEF Text
<1>2. /\ SubSeq(text, 1, n) \in Seq(Chunk)
      /\ Len(SubSeq(text, 1, n)) = n
      /\ \A i \in 1..n - 1 + 1 : SubSeq(text, 1, n)[i] = text[1 + i - 1]
  <2>1. Len(SubSeq(text, 1, n)) = IF 1 <= n THEN n - 1 + 1 ELSE 0
    BY <1>1, SubSeqProperties
  <2>2. SubSeq(text, 1, n) \in Seq(Chunk) BY <1>1, SubSeqProperties
  <2>3. \A i \in 1..n - 1 + 1 : SubSeq(text, 1, n)[i] = text[1 + i - 1]
    BY <1>1, SubSeqProperties
  <2> QED BY <2>1, <2>2, <2>3
<1>3. \A i \in 1..n : SubSeq(text, 1, n)[i] = text[i]
  <2> TAKE i \in 1..n
  <2>1. i \in 1..n - 1 + 1 /\ 1 + i - 1 = i OBVIOUS
  <2>2. SubSeq(text, 1, n)[i] = text[1 + i - 1] BY <1>2, <2>1
  <2> QED BY <2>1, <2>2
<1>4. PICK a \in 0..MaxAttempts : Tagged(text, a) BY DEF Uniform
<1>5. Tagged(SubSeq(text, 1, n), a)
  <2> SUFFICES ASSUME NEW i \in 1..n PROVE SubSeq(text, 1, n)[i][1] = a BY <1>2 DEF Tagged
  <2>1. i \in 1..Len(text) BY <1>0
  <2>2. text[i][1] = a BY <1>4, <2>1 DEF Tagged
  <2> QED BY <1>3, <2>2
<1> QED BY <1>2, <1>5 DEF Uniform, Text

\* emit for an attempt that is not over, and the reducer of the shell.
LEMMA EmitFacts ==
  ASSUME StreamShapes, InStep, NEW text \in Text, NEW a \in Nat, NEW replace \in BOOLEAN,
         visible.attempt <= a, Stream!emit(text, a, replace)
  PROVE  /\ visible' = [attempt |-> a, replace |-> FALSE,
                        text |-> IF Stream!replaces(a, replace) THEN text ELSE visible.text \o text]
         /\ shell' = [attempt |-> a, text |-> visible'.text]
         /\ visible' \in [attempt : Nat, text : Text, replace : BOOLEAN]
         /\ shell' \in [attempt : Nat, text : Text]
         /\ InStep'
<1>0. /\ visible.attempt \in Nat /\ shell.attempt \in Nat /\ visible.replace \in BOOLEAN
      /\ visible.text \in Text /\ shell.text = visible.text
      /\ shell.attempt <= visible.attempt
      /\ ~visible.replace => shell.attempt = visible.attempt
  BY DEF StreamShapes, InStep
<1>1. visible' = [attempt |-> a, replace |-> FALSE,
                  text |-> IF Stream!replaces(a, replace) THEN text ELSE visible.text \o text]
  BY <1>0 DEF Stream!emit
<1>2. shell' = Stream!ReduceDelta([attempt |-> a, replace |-> Stream!replaces(a, replace), delta |-> text])
  BY <1>0 DEF Stream!emit
<1>3. shell' = [attempt |-> a,
                text |-> IF Stream!replaces(a, replace) \/ a > shell.attempt
                         THEN text ELSE shell.text \o text]
  BY <1>0, <1>2 DEF Stream!ReduceDelta
<1>4. a > shell.attempt => Stream!replaces(a, replace) BY <1>0 DEF Stream!replaces
<1>5. shell' = [attempt |-> a, text |-> visible'.text]
  <2>1. CASE Stream!replaces(a, replace) BY <1>1, <1>3, <2>1
  <2>2. CASE ~Stream!replaces(a, replace) BY <1>0, <1>1, <1>3, <1>4, <2>2
  <2> QED BY <2>1, <2>2
<1>6. visible'.text \in Text
  <2>1. visible.text \o text \in Text BY <1>0, ConcatProperties DEF Text
  <2> QED BY <1>1, <2>1
<1>7. visible' \in [attempt : Nat, text : Text, replace : BOOLEAN] BY <1>1, <1>6
<1>8. shell' \in [attempt : Nat, text : Text] BY <1>5, <1>6
<1>9. InStep' BY <1>1, <1>5 DEF InStep
<1> QED BY <1>1, <1>5, <1>7, <1>8, <1>9

\* One chunk of a final text: what is shown is the part of it up to that chunk.
LEMMA ChunkShown ==
  ASSUME StreamShapes, InStep, FinalIsShown, waiter = "showing", rest.next <= Len(rest.text),
         Stream!emit(<<rest.text[rest.next]>>, rest.attempt, rest.next = 1)
  PROVE  /\ visible' = [attempt |-> rest.attempt, replace |-> FALSE,
                        text |-> SubSeq(rest.text, 1, rest.next)]
         /\ visible' \in [attempt : Nat, text : Text, replace : BOOLEAN]
         /\ shell' \in [attempt : Nat, text : Text]
         /\ InStep'
<1>0. /\ rest.text \in Text /\ rest.next \in Nat \ {0} /\ rest.attempt \in Nat
      /\ visible.attempt \in Nat /\ visible.replace \in BOOLEAN
  BY DEF StreamShapes
<1>1. rest.next \in 1..Len(rest.text) /\ Len(rest.text) \in Nat
  BY <1>0, LenProperties DEF Text
<1>2. /\ <<rest.text[rest.next]>> \in Text
      /\ SubSeq(rest.text, 1, rest.next) =
             SubSeq(rest.text, 1, rest.next - 1) \o <<rest.text[rest.next]>>
      /\ SubSeq(rest.text, 1, 1) = <<rest.text[1]>>
  BY <1>0, <1>1, NextChunk
<1>3. visible.attempt <= rest.attempt BY <1>0 DEF FinalIsShown
<1>4. (rest.next = 1) \in BOOLEAN OBVIOUS
<1>5. /\ visible' = [attempt |-> rest.attempt, replace |-> FALSE,
                     text |-> IF Stream!replaces(rest.attempt, rest.next = 1)
                              THEN <<rest.text[rest.next]>>
                              ELSE visible.text \o <<rest.text[rest.next]>>]
      /\ visible' \in [attempt : Nat, text : Text, replace : BOOLEAN]
      /\ shell' \in [attempt : Nat, text : Text]
      /\ InStep'
  BY <1>0, <1>2, <1>3, <1>4, EmitFacts
<1>6. CASE rest.next = 1
  <2>1. Stream!replaces(rest.attempt, rest.next = 1) BY <1>6 DEF Stream!replaces
  <2> QED BY <1>2, <1>5, <1>6, <2>1
<1>7. CASE rest.next # 1
  <2>1. rest.next > 1 BY <1>0, <1>7
  <2>2. rest.attempt = visible.attempt /\ ~visible.replace
        /\ visible.text = SubSeq(rest.text, 1, rest.next - 1)
    BY <2>1 DEF FinalIsShown
  <2>3. ~Stream!replaces(rest.attempt, rest.next = 1) BY <1>0, <1>7, <2>2 DEF Stream!replaces
  <2> QED BY <1>2, <1>5, <2>2, <2>3
<1> QED BY <1>6, <1>7

\* What the waiter shows of its queue.
LEMMA FlushFacts ==
  ASSUME Stream!StreamAssumption, StreamShapes, InStep, Tags, waiter = "waiting", chunks # <<>>,
         Stream!Flush
  PROVE  /\ visible' \in [attempt : Nat, text : Text, replace : BOOLEAN]
         /\ shell' \in [attempt : Nat, text : Text]
         /\ InStep'
         /\ visible'.attempt = attempt
         /\ Tagged(visible'.text, attempt)
<1>0. /\ attempt \in Nat /\ chunks \in Text /\ visible.attempt <= attempt
      /\ visible.text \in Text /\ visible.attempt \in Nat
  BY DEF StreamShapes, Tags, Stream!Attempts
<1>1. Stream!emit(chunks, attempt, FALSE) BY DEF Stream!Flush
<1>2. /\ visible' = [attempt |-> attempt, replace |-> FALSE,
                     text |-> IF Stream!replaces(attempt, FALSE) THEN chunks ELSE visible.text \o chunks]
      /\ visible' \in [attempt : Nat, text : Text, replace : BOOLEAN]
      /\ shell' \in [attempt : Nat, text : Text]
      /\ InStep'
  BY <1>0, <1>1, EmitFacts
<1>3. CASE Stream!replaces(attempt, FALSE) BY <1>2, <1>3 DEF Tags
<1>4. CASE ~Stream!replaces(attempt, FALSE)
  <2>1. visible.attempt = attempt /\ ~visible.replace BY <1>0, <1>4 DEF Stream!replaces
  <2>2. Tagged(visible.text, attempt) /\ Tagged(chunks, attempt) BY <2>1 DEF Tags
  <2>3. Tagged(visible.text \o chunks, attempt) BY <1>0, <2>2, TaggedConcat
  <2> QED BY <1>2, <1>4, <2>3
<1> QED BY <1>2, <1>3, <1>4

\* A chunk that arrives is one of the attempt.
LEMMA ReceiveFacts ==
  ASSUME Stream!StreamAssumption, StreamShapes, Tags, NEW a \in Stream!Attempts, Stream!Receive(a)
  PROVE  /\ sent' \in [Stream!Attempts -> Text] /\ chunks' \in Text
         /\ \A b \in Stream!Attempts : Tagged(sent'[b], b)
         /\ Tagged(chunks', attempt)
         /\ waiter # "waiting" => chunks' = chunks
<1> DEFINE chunk == <<a, Len(sent[a]) + 1>>
           one == <<chunk>>
<1>0. /\ a \in Nat /\ attempt \in Nat /\ sent[a] \in Text /\ chunks \in Text
      /\ \A b \in Stream!Attempts : sent[b] \in Text /\ Tagged(sent[b], b)
      /\ Tagged(chunks, attempt)
  BY DEF StreamShapes, Stream!Attempts, Tags
<1>1. Len(sent[a]) \in Nat BY <1>0, LenProperties DEF Text
<1>2. chunk \in Chunk BY <1>0, <1>1 DEF Chunk
<1>3. one \in Text BY <1>2 DEF Text
<1>4. Tagged(one, a) BY DEF Tagged
<1>5. /\ sent' = [sent EXCEPT ![a] = Append(@, chunk)]
      /\ chunks' = IF waiter = "waiting" /\ attempt = a /\ ~stopped_by_user
                  THEN Append(chunks, chunk) ELSE chunks
  BY DEF Stream!Receive
<1> HIDE DEF chunk
<1>6. Append(sent[a], chunk) = sent[a] \o one /\ Append(chunks, chunk) = chunks \o one
  BY <1>0, <1>2, AppendIsConcat DEF Text
<1>7. Append(sent[a], chunk) \in Text /\ Tagged(Append(sent[a], chunk), a)
  BY <1>0, <1>3, <1>4, <1>6, TaggedConcat
<1>8. attempt = a => Append(chunks, chunk) \in Text /\ Tagged(Append(chunks, chunk), a)
  BY <1>0, <1>3, <1>4, <1>6, TaggedConcat
<1>9. sent \in [Stream!Attempts -> Text] BY DEF StreamShapes
<1>10. sent' \in [Stream!Attempts -> Text] BY <1>5, <1>7, <1>9
<1>11. \A b \in Stream!Attempts : Tagged(sent'[b], b)
  <2> TAKE b \in Stream!Attempts
  <2>1. CASE b = a BY <1>5, <1>7, <1>9, <2>1
  <2>2. CASE b # a BY <1>0, <1>5, <1>9, <2>2
  <2> QED BY <2>1, <2>2
<1> QED BY <1>0, <1>5, <1>8, <1>10, <1>11

-----------------------------------------------------------------------------
(* The steps.                                                              *)

\* What is made of the text of an attempt: it is stored if it is shown already; otherwise the
\* emission of a final text begins.
LEMMA FinalFacts ==
  ASSUME Stream!StreamAssumption, StreamShapes, InStep, Tags, NEW text \in Text, Len(text) > 0,
         Uniform(text),
         NEW final \in Stream!FinalTexts(text), Stream!ShowFinal(final), UNCHANGED Stream!showing
  PROVE  /\ waiter' \in {"showing", "done"}
         /\ waiter' = "showing" => rest' \in [text : Text, next : Nat \ {0}, attempt : Nat]
         /\ FinalIsShown' /\ StoredIsVisible'
<1>0. visible.attempt \in Nat /\ visible' = visible BY DEF StreamShapes, Stream!showing
<1>1. final.text \in Text /\ Len(final.text) > 0 /\ Uniform(final.text)
  <2>1. CASE final = [text |-> text, changed |-> FALSE] BY <2>1
  <2>2. CASE final = [text |-> <<<<0, 1>>>>, changed |-> TRUE]
    <3>1. <<0, 1>> \in Chunk BY DEF Chunk
    <3>2. <<<<0, 1>>>> \in Text BY <3>1 DEF Text
    <3>3. Tagged(<<<<0, 1>>>>, 0) BY DEF Tagged
    <3>4. 0 \in 0..MaxAttempts BY DEF Stream!StreamAssumption
    <3>5. Uniform(<<<<0, 1>>>>) BY <3>3, <3>4 DEF Uniform
    <3> QED BY <2>2, <3>2, <3>5
  <2> QED BY <2>1, <2>2 DEF Stream!FinalTexts
<1>2. CASE final.changed \/ visible.text # final.text
  <2>1. /\ waiter' = "showing"
        /\ rest' = [text |-> final.text, next |-> 1,
                    attempt |-> IF visible.attempt > 0 THEN visible.attempt + 1 ELSE 1]
    BY <1>2 DEF Stream!ShowFinal
  <2>2. /\ rest'.text = final.text /\ rest'.next = 1
        /\ rest'.attempt = IF visible.attempt > 0 THEN visible.attempt + 1 ELSE 1
    BY <2>1
  <2>3. rest'.attempt > visible'.attempt /\ rest'.attempt \in Nat BY <2>2, <1>0
  <2>4. Len(rest'.text) \in Nat BY <2>2, <1>1, LenProperties DEF Text
  <2>5. FinalIsShown' BY <1>1, <2>2, <2>3, <2>4 DEF FinalIsShown
  <2> QED BY <1>1, <2>1, <2>3, <2>5 DEF StoredIsVisible
<1>3. CASE ~(final.changed \/ visible.text # final.text)
  <2>1. waiter' = "done" /\ stored'.text = visible.text BY <1>3 DEF Stream!ShowFinal, Stream!Store
  <2> QED BY <1>0, <2>1 DEF FinalIsShown, StoredIsVisible
<1> QED BY <1>2, <1>3

\* The steps of the request's thread keep the texts in order.
LEMMA RequestOk ==
  ASSUME Stream!StreamAssumption, StreamIInv, Stream!RequestStep
  PROVE  StreamShapes' /\ InStep' /\ FinalIsShown' /\ StoredIsVisible' /\ Tags'
<1> USE DEF StreamIInv
<1>0. attempt \in Nat /\ visible.attempt \in Nat /\ attempt \in Stream!Attempts
  BY DEF StreamShapes, Stream!Attempts
<1>t. \A a \in Stream!Attempts : sent[a] \in Text BY DEF StreamShapes
<1>i. ASSUME waiter' = "done", stored'.text = visible.text, UNCHANGED <<visible, shell>>
      PROVE  InStep' /\ FinalIsShown' /\ StoredIsVisible'
  BY <1>i DEF InStep, FinalIsShown, StoredIsVisible
<1>1. CASE Stream!StartAttempt
  <2>1. /\ UNCHANGED <<attempt, rest, stopped_by_user, sent, chunks, client, visible, shell>>
        /\ \/ waiter' = "waiting" /\ slot' = TRUE /\ streams' = Stream!prepare
              /\ provider' = [provider EXCEPT ![attempt] = "starting"]
           \/ /\ waiter' = "done" /\ stored' = [status |-> "interrupted", text |-> visible.text]
              /\ UNCHANGED <<slot, provider, streams>>
        /\ waiter = "queued"
    BY <1>1 DEF Stream!StartAttempt, Stream!Interrupt, Stream!Store, Stream!showing
  <2>2. Stream!prepare \in [pending : BOOLEAN, cancelled : BOOLEAN, open : {None} \cup Stream!Attempts]
    BY DEF Stream!prepare, StreamShapes
  <2>3. StreamShapes' BY <2>1, <2>2, <1>0 DEF StreamShapes
  <2>4. InStep' BY <2>1 DEF InStep
  <2>5. FinalIsShown' /\ StoredIsVisible' BY <2>1 DEF FinalIsShown, StoredIsVisible
  <2>6. Tags' BY <2>1 DEF Tags
  <2> QED BY <2>3, <2>4, <2>5, <2>6
<1>2. CASE Stream!WaitCancelled
  <2>1. /\ waiter = "waiting" /\ chunks' = <<>> /\ slot' = FALSE /\ waiter' = "done"
        /\ stored'.text = visible.text
        /\ UNCHANGED <<attempt, rest, stopped_by_user, provider, sent, visible, shell>>
    BY <1>2 DEF Stream!WaitCancelled, Stream!Interrupt, Stream!Store, Stream!showing
  <2>2. /\ streams' \in [pending : BOOLEAN, cancelled : BOOLEAN, open : {None} \cup Stream!Attempts]
        /\ client' \in [Stream!Attempts -> {"none", "open", "closed"}]
    BY <1>2 DEF Stream!WaitCancelled, Stream!close, StreamShapes
  <2>3. <<>> \in Text /\ Tagged(<<>>, attempt) BY EmptySeq DEF Text, Tagged
  <2>4. StreamShapes' BY <2>1, <2>2, <2>3 DEF StreamShapes
  <2>5. Tags' BY <2>1, <2>3 DEF Tags
  <2> QED BY <2>1, <2>4, <2>5, <1>i
<1>3. CASE Stream!WaitRound
  <2>1. /\ waiter = "waiting" /\ chunks # <<>> /\ Stream!Flush /\ chunks' = <<>>
        /\ UNCHANGED <<waiter, attempt, slot, rest, stored, stopped_by_user, provider, sent,
                       streams,
                       client>>
    BY <1>3 DEF Stream!WaitRound, Stream!Flush, Stream!requesting, Stream!providing
  <2>2. /\ visible' \in [attempt : Nat, text : Text, replace : BOOLEAN]
        /\ shell' \in [attempt : Nat, text : Text]
        /\ InStep' /\ visible'.attempt = attempt /\ Tagged(visible'.text, attempt)
    BY <2>1, FlushFacts
  <2>3. <<>> \in Text /\ Tagged(<<>>, attempt) BY EmptySeq DEF Text, Tagged
  <2>4. StreamShapes' BY <2>1, <2>2, <2>3 DEF StreamShapes
  <2>5. FinalIsShown' /\ StoredIsVisible' BY <2>1 DEF FinalIsShown, StoredIsVisible
  <2>6. attempt \in 0..MaxAttempts BY <1>0 DEF Stream!Attempts, Stream!StreamAssumption
  <2>7. Tags' BY <2>1, <2>2, <2>3, <2>6, <1>0 DEF Tags, Uniform
  <2> QED BY <2>2, <2>4, <2>5, <2>7
<1>4. CASE Stream!TakeResponse
  <2>1. /\ waiter = "waiting" /\ chunks = <<>> /\ slot' = FALSE
        /\ UNCHANGED <<attempt, stopped_by_user, provider, sent, streams, client, chunks,
                       visible, shell>>
    BY <1>4 DEF Stream!TakeResponse, Stream!providing, Stream!showing
  <2>2. InStep' BY <2>1 DEF InStep
  <2>3. Tags' /\ StoredIsVisible' /\ FinalIsShown' /\ waiter' \in {"showing", "done"}
        /\ (waiter' = "showing" => rest' \in [text : Text, next : Nat \ {0}, attempt : Nat])
    <3>1. CASE stopped_by_user \/ sent[attempt] = <<>>
      <4>1. waiter' = "done" /\ stored'.text = visible.text
        BY <1>4, <3>1 DEF Stream!TakeResponse, Stream!Interrupt, Stream!Store
      <4>2. Tags' BY <2>1, <4>1 DEF Tags
      <4> QED BY <2>1, <4>1, <4>2, <1>i
    <3>2. CASE ~(stopped_by_user \/ sent[attempt] = <<>>)
      <4>1. PICK final \in Stream!FinalTexts(sent[attempt]) : Stream!ShowFinal(final)
        BY <1>4, <3>2 DEF Stream!TakeResponse
      <4>2. Len(sent[attempt]) > 0
        <5>1. Len(sent[attempt]) \in Nat \ {0} BY <1>0, <1>t, <3>2, EmptySeq DEF Text
        <5> QED BY <5>1
      <4>3. Uniform(sent[attempt])
        <5>1. attempt \in 0..MaxAttempts BY <1>0 DEF Stream!Attempts, Stream!StreamAssumption
        <5> QED BY <5>1, <1>0 DEF Uniform, Tags
      <4>4. UNCHANGED Stream!showing BY <2>1 DEF Stream!showing
      <4>5. /\ waiter' \in {"showing", "done"} /\ FinalIsShown' /\ StoredIsVisible'
            /\ waiter' = "showing" => rest' \in [text : Text, next : Nat \ {0}, attempt : Nat]
        BY <4>1, <4>2, <4>3, <4>4, <1>0, <1>t, FinalFacts
      <4>6. Tags' BY <2>1, <4>5 DEF Tags
      <4> QED BY <4>5, <4>6
    <3> QED BY <3>1, <3>2
  <2>4. StreamShapes' BY <2>1, <2>3 DEF StreamShapes
  <2> QED BY <2>2, <2>3, <2>4
<1>5. CASE Stream!TakeFailure
  <2>1. /\ waiter = "waiting" /\ chunks = <<>> /\ slot' = FALSE
        /\ UNCHANGED <<rest, stopped_by_user, provider, sent, streams, client, chunks, shell>>
    BY <1>5 DEF Stream!TakeFailure, Stream!providing
  <2>2. CASE waiter' = "backoff" /\ attempt' = attempt + 1 /\ attempt < MaxAttempts
             /\ visible' = Stream!reset(attempt + 1)
    <3>1. visible' = [attempt |-> attempt + 1, text |-> visible.text, replace |-> TRUE]
      BY <2>1, <2>2, <1>0 DEF Stream!reset, Tags
    <3>2. attempt' \in Stream!Attempts BY <2>2, <1>0 DEF Stream!Attempts, Stream!StreamAssumption
    <3>3. visible' \in [attempt : Nat, text : Text, replace : BOOLEAN]
      BY <3>1, <1>0 DEF StreamShapes
    <3>4. StreamShapes' BY <2>1, <2>2, <3>2, <3>3 DEF StreamShapes
    <3>5. shell.attempt <= attempt + 1
      BY <1>0, <2>1 DEF InStep, Tags, StreamShapes
    <3>6. InStep' BY <2>1, <3>1, <3>5 DEF InStep
    <3>7. Tagged(chunks', attempt') BY <2>1 DEF Tagged
    <3>8. Tags' BY <2>1, <2>2, <3>1, <3>7, <1>0 DEF Tags
    <3> QED BY <2>2, <3>4, <3>6, <3>8 DEF FinalIsShown, StoredIsVisible
  <2>3. CASE waiter' = "done" /\ stored'.text = visible.text /\ UNCHANGED <<visible, attempt>>
    <3>1. StreamShapes' BY <2>1, <2>3 DEF StreamShapes
    <3>2. Tags' BY <2>1, <2>3 DEF Tags
    <3> QED BY <2>1, <2>3, <3>1, <3>2, <1>i
  <2> QED BY <1>5, <2>2, <2>3 DEF Stream!TakeFailure, Stream!NextAttempt, Stream!Interrupt,
                                  Stream!Store
<1>6. CASE Stream!Retry
  <2>1. /\ waiter = "backoff"
        /\ \/ waiter' = "queued" \/ (waiter' = "done" /\ stored'.text = visible.text)
        /\ UNCHANGED <<attempt, slot, rest, stopped_by_user, provider, sent, streams, client,
                       chunks,
                       visible, shell>>
    BY <1>6 DEF Stream!Retry, Stream!Interrupt, Stream!Store, Stream!providing, Stream!showing
  <2>2. StreamShapes' BY <2>1 DEF StreamShapes
  <2>3. InStep' BY <2>1 DEF InStep
  <2>4. FinalIsShown' /\ StoredIsVisible' BY <2>1 DEF FinalIsShown, StoredIsVisible
  <2>5. Tags' BY <2>1 DEF Tags
  <2> QED BY <2>2, <2>3, <2>4, <2>5
<1>7. CASE Stream!ShowChunk
  <2>1. /\ waiter = "showing"
        /\ UNCHANGED <<attempt, slot, stopped_by_user, provider, sent, streams, client, chunks>>
    BY <1>7 DEF Stream!ShowChunk, Stream!providing
  <2>0. /\ rest \in [text : Text, next : Nat \ {0}, attempt : Nat] /\ Len(rest.text) \in Nat
        /\ rest.next \in Nat \ {0} /\ rest.text \in Text /\ rest.attempt \in Nat
    BY <2>1, LenProperties DEF StreamShapes, Text
  <2>2. CASE stopped_by_user
    <3>1. waiter' = "done" /\ stored'.text = visible.text /\ UNCHANGED <<visible, shell>>
      BY <1>7, <2>2 DEF Stream!ShowChunk, Stream!Interrupt, Stream!Store, Stream!showing
    <3>2. StreamShapes' BY <2>1, <3>1 DEF StreamShapes
    <3>3. Tags' BY <2>1, <3>1 DEF Tags
    <3> QED BY <3>1, <3>2, <3>3, <1>i
  <2>3. CASE ~stopped_by_user /\ rest.next > Len(rest.text)
    <3>1. waiter' = "done" /\ stored'.text = rest.text /\ UNCHANGED <<visible, shell>>
      BY <1>7, <2>3 DEF Stream!ShowChunk, Stream!Store, Stream!showing
    <3>2. rest.text = visible.text
      <4>1. rest.next > 1 /\ rest.next - 1 = Len(rest.text)
        BY <2>0, <2>1, <2>3 DEF FinalIsShown
      <4>2. visible.text = SubSeq(rest.text, 1, Len(rest.text))
        BY <2>1, <4>1 DEF FinalIsShown
      <4> QED BY <2>0, <4>2, SubSeqFull DEF Text
    <3>3. StreamShapes' BY <2>1, <3>1 DEF StreamShapes
    <3>4. Tags' BY <2>1, <3>1 DEF Tags
    <3> QED BY <3>1, <3>2, <3>3, <3>4, <1>i
  <2>4. CASE ~stopped_by_user /\ ~(rest.next > Len(rest.text))
    <3>1. /\ Stream!emit(<<rest.text[rest.next]>>, rest.attempt, rest.next = 1)
          /\ rest' = [rest EXCEPT !.next = @ + 1]
          /\ UNCHANGED <<waiter, stored>>
      BY <1>7, <2>4 DEF Stream!ShowChunk
    <3>2. /\ visible' = [attempt |-> rest.attempt, replace |-> FALSE,
                         text |-> SubSeq(rest.text, 1, rest.next)]
          /\ visible' \in [attempt : Nat, text : Text, replace : BOOLEAN]
          /\ shell' \in [attempt : Nat, text : Text]
          /\ InStep'
      <4>1. rest.next <= Len(rest.text) BY <2>0, <2>4
      <4> QED BY <2>1, <3>1, <4>1, ChunkShown
    <3>3. /\ rest'.text = rest.text /\ rest'.attempt = rest.attempt
          /\ rest'.next = rest.next + 1
          /\ rest' \in [text : Text, next : Nat \ {0}, attempt : Nat]
      BY <2>0, <3>1
    <3>4. StreamShapes' BY <2>1, <3>1, <3>2, <3>3 DEF StreamShapes
    <3>5. Uniform(visible'.text)
      <4>1. rest.next \in 0..Len(rest.text) BY <2>0, <2>4
      <4> QED BY <2>0, <2>1, <3>2, <4>1, UniformPart DEF FinalIsShown
    <3>6. FinalIsShown'
      <4>1. rest'.next - 1 = rest.next /\ rest'.next > 1 /\ rest'.next <= Len(rest'.text) + 1
        BY <2>0, <2>4, <3>3
      <4> QED BY <2>0, <2>1, <3>2, <3>3, <4>1 DEF FinalIsShown
    <3>7. Tags' BY <2>1, <3>1, <3>5 DEF Tags
    <3> QED BY <2>1, <3>1, <3>2, <3>4, <3>6, <3>7 DEF StoredIsVisible
  <2> QED BY <2>2, <2>3, <2>4
<1> QED BY <1>1, <1>2, <1>3, <1>4, <1>5, <1>6, <1>7 DEF Stream!RequestStep

\* The threads of the provider, and a cancellation, show nothing.
LEMMA OthersOk ==
  ASSUME Stream!StreamAssumption, StreamIInv,
         Stream!ProviderStep \/ Stream!Cancel \/ UNCHANGED Stream!vars
  PROVE  StreamShapes' /\ InStep' /\ FinalIsShown' /\ StoredIsVisible' /\ Tags'
<1> USE DEF StreamIInv
<1>1. UNCHANGED <<waiter, attempt, slot, rest, stored, visible, shell>>
  BY DEF Stream!ProviderStep, Stream!Connect, Stream!Receive, Stream!StreamEnds, Stream!Cancel,
         Stream!vars, Stream!requesting, Stream!showing
<1>2. InStep' BY <1>1 DEF InStep
<1>3. FinalIsShown' /\ StoredIsVisible' BY <1>1 DEF FinalIsShown, StoredIsVisible
<1>4. ASSUME NEW a \in Stream!Attempts, Stream!Connect(a) PROVE StreamShapes' /\ Tags'
  <2>1. UNCHANGED <<stopped_by_user, sent, chunks>> BY <1>4 DEF Stream!Connect
  <2>2. /\ provider' \in [Stream!Attempts -> {"none", "starting", "streaming",
                                      "answered", "broken", "rejected", "failed"}]
        /\ streams' \in [pending : BOOLEAN, cancelled : BOOLEAN, open : {None} \cup Stream!Attempts]
        /\ client' \in [Stream!Attempts -> {"none", "open", "closed"}]
    <3>1. CASE Stream!register(a) /\ provider' = [provider EXCEPT ![a] = "streaming"]
      BY <3>1 DEF Stream!register, StreamShapes
    <3>2. CASE /\ streams' = [streams EXCEPT !.pending = FALSE, !.cancelled = FALSE]
               /\ provider' = [provider EXCEPT ![a] = "failed"]
               /\ UNCHANGED client
      BY <3>2 DEF StreamShapes
    <3> QED BY <1>4, <3>1, <3>2 DEF Stream!Connect
  <2> QED BY <1>1, <2>1, <2>2 DEF StreamShapes, Tags
<1>5. ASSUME NEW a \in Stream!Attempts, Stream!Receive(a) PROVE StreamShapes' /\ Tags'
  <2>1. UNCHANGED <<stopped_by_user, provider, streams, client>> BY <1>5 DEF Stream!Receive
  <2>2. /\ sent' \in [Stream!Attempts -> Text] /\ chunks' \in Text
        /\ \A b \in Stream!Attempts : Tagged(sent'[b], b)
        /\ Tagged(chunks', attempt)
        /\ waiter # "waiting" => chunks' = chunks
    BY <1>5, ReceiveFacts
  <2>3. StreamShapes' BY <1>1, <2>1, <2>2 DEF StreamShapes
  <2>4. Tags' BY <1>1, <2>2 DEF Tags
  <2> QED BY <2>3, <2>4
<1>6. ASSUME NEW a \in Stream!Attempts, Stream!StreamEnds(a) PROVE StreamShapes' /\ Tags'
  <2>1. UNCHANGED <<stopped_by_user, sent, chunks>> BY <1>6 DEF Stream!StreamEnds
  <2>2. /\ provider' \in [Stream!Attempts -> {"none", "starting", "streaming",
                                      "answered", "broken", "rejected", "failed"}]
        /\ streams' \in [pending : BOOLEAN, cancelled : BOOLEAN, open : {None} \cup Stream!Attempts]
        /\ client' \in [Stream!Attempts -> {"none", "open", "closed"}]
    BY <1>6 DEF Stream!StreamEnds, Stream!release, StreamShapes
  <2> QED BY <1>1, <2>1, <2>2 DEF StreamShapes, Tags
<1>7. ASSUME Stream!Cancel PROVE StreamShapes' /\ Tags'
  <2>1. UNCHANGED <<provider, sent, streams, client, chunks>> /\ stopped_by_user' = TRUE
    BY <1>7 DEF Stream!Cancel, Stream!providing
  <2>2. StreamShapes' BY <1>1, <2>1 DEF StreamShapes
  <2>3. Tags' BY <1>1, <2>1 DEF Tags
  <2> QED BY <2>2, <2>3
<1>8. ASSUME UNCHANGED Stream!vars PROVE StreamShapes' /\ Tags'
  <2>1. UNCHANGED <<waiter, attempt, slot, stopped_by_user, provider, sent, chunks, streams,
                    client,
                    visible, shell, rest>>
    BY <1>8 DEF Stream!vars
  <2>2. StreamShapes' BY <2>1 DEF StreamShapes
  <2>3. Tags' BY <2>1 DEF Tags
  <2> QED BY <2>2, <2>3
<1> QED BY <1>2, <1>3, <1>4, <1>5, <1>6, <1>7, <1>8 DEF Stream!ProviderStep

\* A step of the request's thread that changes neither connections nor threads of the
\* provider, where no thread of the provider is left.
LEMMA QuietSteps ==
  ASSUME Stream!StreamAssumption, StreamShapes, Connections, UNCHANGED <<provider, streams,
                                                                         client>>,
         \A a \in Stream!Attempts : ~Stream!IsLive(a),
         slot' <=> waiter' = "waiting",
         waiter' # "waiting",
         \/ waiter' \in {"done", "showing"} /\ attempt' = attempt
         \/ /\ waiter' \in {"queued", "backoff"} /\ attempt' \in Stream!Attempts /\ attempt' >= attempt
            /\ provider[attempt'] = "none"
  PROVE  Connections'
<1>0. /\ attempt \in Nat /\ attempt' \in Nat
      /\ \A a \in Stream!Attempts : a \in Nat
  BY DEF StreamShapes, Stream!Attempts
<1>1. \A a \in Stream!Attempts : provider[a] \notin {"starting", "streaming"} BY DEF Stream!IsLive
<1>2. streams.open \in Stream!Attempts \/ streams.open = None BY DEF StreamShapes
<1>3. streams.open = None BY <1>1, <1>2 DEF Connections
<1>4. \A a \in Stream!Attempts : a > attempt' => provider[a] = "none" BY <1>0 DEF Connections
<1>5. \A a \in Stream!Attempts : client[a] # "open" BY <1>1 DEF Connections
<1> QED BY <1>1, <1>3, <1>4, <1>5 DEF Connections, Stream!IsLive

\* A connection is pending before it can be cancelled, closed before its wait is over, and one
\* that comes too late finds its request cancelled.
LEMMA ConnectionsOk ==
  ASSUME Stream!StreamAssumption, StreamIInv, [Stream!Next]_(Stream!vars) PROVE Connections'
<1> USE DEF StreamIInv
<1>0. /\ attempt \in Nat /\ attempt \in Stream!Attempts /\ \A a \in Stream!Attempts : a \in Nat
      /\ None \notin Stream!Attempts
  BY DEF StreamShapes, Stream!Attempts, Stream!StreamAssumption
<1>o. /\ provider \in [Stream!Attempts -> {"none", "starting", "streaming",
                                    "answered", "broken", "rejected", "failed"}]
      /\ client \in [Stream!Attempts -> {"none", "open", "closed"}]
      /\ streams \in [pending : BOOLEAN, cancelled : BOOLEAN, open : {None} \cup Stream!Attempts]
  BY DEF StreamShapes
<1>d. Stream!Completed => \A a \in Stream!Attempts : ~Stream!IsLive(a)
  BY DEF Stream!Completed, Connections, Stream!IsLive
<1>e. waiter \in {"queued", "backoff", "showing"} => \A a \in Stream!Attempts : ~Stream!IsLive(a)
  BY DEF Connections
<1>1. CASE Stream!StartAttempt
  <2>1. CASE stopped_by_user /\ Stream!Interrupt /\ UNCHANGED <<slot, provider, streams>>
    <3>1. waiter' = "done" /\ UNCHANGED <<attempt, client>> /\ ~slot'
      BY <1>1, <2>1 DEF Stream!StartAttempt, Stream!Interrupt, Stream!Store, Connections
    <3> QED BY <1>1, <1>e, <2>1, <3>1, QuietSteps DEF Stream!StartAttempt
  <2>2. CASE ~stopped_by_user
    <3>1. /\ waiter' = "waiting" /\ slot' = TRUE /\ streams' = Stream!prepare
          /\ provider' = [provider EXCEPT ![attempt] = "starting"]
          /\ UNCHANGED <<attempt, client, stopped_by_user>>
      BY <1>1, <2>2 DEF Stream!StartAttempt
    <3>2. \A a \in Stream!Attempts : ~Stream!IsLive(a) BY <1>1, <1>e DEF Stream!StartAttempt
    <3>3. streams.open = None BY <3>2, <1>o DEF Connections, Stream!IsLive
    <3>4. streams'.pending = TRUE /\ streams'.open = None BY <3>1, <3>3, <1>o DEF Stream!prepare
    <3>5. /\ provider'[attempt] = "starting"
          /\ \A a \in Stream!Attempts : a # attempt => provider'[a] = provider[a]
      BY <3>1, <1>0, <1>o
    <3>6. \A a \in Stream!Attempts : client[a] # "open" BY <3>2 DEF Connections, Stream!IsLive
    <3>7. \A a \in Stream!Attempts : a > attempt => provider'[a] = "none"
      BY <1>0, <3>5 DEF Connections
    <3>8. \A a \in Stream!Attempts : Stream!IsLive(a)' => a = attempt BY <3>2, <3>5
                                                                      DEF Stream!IsLive
    <3> QED BY <3>1, <3>4, <3>6, <3>7, <3>8 DEF Connections
  <2> QED BY <1>1, <2>1, <2>2 DEF Stream!StartAttempt
<1>2. CASE Stream!WaitCancelled
  <2>1. /\ waiter = "waiting" /\ ~Stream!Completed /\ stopped_by_user /\ Stream!close /\ slot' = FALSE
        /\ waiter' = "done" /\ UNCHANGED <<attempt, stopped_by_user, provider>>
    BY <1>2 DEF Stream!WaitCancelled, Stream!Interrupt, Stream!Store
  <2>2. \A a \in Stream!Attempts : client'[a] # "open"
    <3>1. CASE streams.open = None
      <4>1. UNCHANGED client BY <2>1, <3>1 DEF Stream!close
      <4> QED BY <3>1, <4>1, <1>0 DEF Connections
    <3>2. CASE streams.open # None
      <4>1. client' = [client EXCEPT ![streams.open] = "closed"] BY <2>1, <3>2 DEF Stream!close
      <4>2. \A a \in Stream!Attempts : a # streams.open => client[a] # "open" BY DEF Connections
      <4> QED BY <4>1, <4>2, <1>o
    <3> QED BY <3>1, <3>2
  <2>3. streams'.open = streams.open BY <2>1, <1>o DEF Stream!close
  <2>4. \A a \in Stream!Attempts : provider[a] = "starting" => streams'.cancelled
    <3> TAKE a \in Stream!Attempts
    <3>1. provider[a] = "starting" => streams.pending BY <2>1 DEF Connections
    <3>2. streams.pending => streams'.cancelled BY <2>1, <1>o DEF Stream!close
    <3> QED BY <3>1, <3>2
  <2>5. \A a \in Stream!Attempts : Stream!IsLive(a)' => a = attempt BY <2>1 DEF Stream!IsLive,
                                                                                Connections
  <2>6. streams'.open # None => provider[streams'.open] = "streaming"
    BY <2>3 DEF Connections
  <2> QED BY <2>1, <2>2, <2>4, <2>5, <2>6 DEF Connections
<1>3. CASE Stream!WaitRound
  BY <1>3 DEF Stream!WaitRound, Stream!requesting, Stream!providing, Connections, Stream!IsLive
<1>4. CASE Stream!TakeResponse
  <2>1. Stream!Completed /\ slot' = FALSE /\ UNCHANGED <<attempt, provider, streams, client>>
    BY <1>4 DEF Stream!TakeResponse, Stream!providing
  <2>2. waiter' \in {"done", "showing"}
    BY <1>4 DEF Stream!TakeResponse, Stream!Interrupt, Stream!Store, Stream!ShowFinal
  <2> QED BY <1>d, <2>1, <2>2, QuietSteps
<1>5. CASE Stream!TakeFailure
  <2>1. Stream!Completed /\ slot' = FALSE /\ UNCHANGED <<provider, streams, client>>
    BY <1>5 DEF Stream!TakeFailure, Stream!providing
  <2>2. \/ waiter' = "done" /\ attempt' = attempt
        \/ waiter' = "backoff" /\ attempt' = attempt + 1 /\ attempt < MaxAttempts
    BY <1>5 DEF Stream!TakeFailure, Stream!NextAttempt, Stream!Interrupt, Stream!Store
  <2>3. CASE waiter' = "done" /\ attempt' = attempt BY <1>d, <2>1, <2>3, QuietSteps
  <2>4. CASE waiter' = "backoff" /\ attempt' = attempt + 1 /\ attempt < MaxAttempts
    <3>1. attempt + 1 \in Stream!Attempts /\ attempt + 1 >= attempt /\ attempt + 1 > attempt
      BY <1>0, <2>4 DEF Stream!Attempts, Stream!StreamAssumption
    <3>2. provider[attempt + 1] = "none" BY <3>1 DEF Connections
    <3> QED BY <1>d, <2>1, <2>4, <3>1, <3>2, QuietSteps
  <2> QED BY <2>2, <2>3, <2>4
<1>6. CASE Stream!Retry
  <2>1. waiter = "backoff" /\ UNCHANGED <<attempt, slot, provider, streams, client>>
    BY <1>6 DEF Stream!Retry, Stream!providing
  <2>2. waiter' \in {"queued", "done"} BY <1>6 DEF Stream!Retry, Stream!Interrupt, Stream!Store
  <2>3. ~slot /\ provider[attempt] = "none" /\ attempt >= attempt
    BY <2>1, <1>0 DEF Connections
  <2> QED BY <1>0, <1>e, <2>1, <2>2, <2>3, QuietSteps
<1>7. CASE Stream!ShowChunk
  <2>1. waiter = "showing" /\ UNCHANGED <<attempt, slot, provider, streams, client>>
    BY <1>7 DEF Stream!ShowChunk, Stream!providing
  <2>2. waiter' \in {"done", "showing"} BY <1>7 DEF Stream!ShowChunk, Stream!Interrupt,
                                                    Stream!Store
  <2>3. ~slot BY <2>1 DEF Connections
  <2> QED BY <1>e, <2>1, <2>2, <2>3, QuietSteps
<1>8. ASSUME NEW a \in Stream!Attempts, Stream!Connect(a) PROVE Connections'
  <2>1. provider[a] = "starting" /\ UNCHANGED <<waiter, attempt, slot, stopped_by_user>>
    BY <1>8 DEF Stream!Connect, Stream!requesting
  <2>2. a = attempt /\ waiter \in {"waiting", "done"} /\ (waiter = "done" => stopped_by_user)
    BY <2>1 DEF Connections, Stream!IsLive
  <2>3. streams.open = None
    <3>1. ASSUME streams.open \in Stream!Attempts, provider[streams.open] = "streaming" PROVE FALSE
      <4>1. streams.open = attempt BY <3>1 DEF Connections, Stream!IsLive
      <4> QED BY <2>1, <2>2, <3>1, <4>1
    <3> QED BY <3>1, <1>o DEF Connections
  <2>4. \A b \in Stream!Attempts : client[b] # "open" BY <2>3, <1>0 DEF Connections
  <2>5. \A b \in Stream!Attempts : b # a => ~Stream!IsLive(b) BY <2>2 DEF Connections
  <2>6. CASE Stream!register(a) /\ provider' = [provider EXCEPT ![a] = "streaming"]
    <3>1. provider'[a] = "streaming" /\ \A b \in Stream!Attempts : b # a => provider'[b] = provider[b]
      BY <2>6, <1>o
    <3>2. streams'.open = None \/ streams'.open = a BY <2>3, <2>6, <1>o DEF Stream!register
    <3>3. \A b \in Stream!Attempts : client'[b] = "open" => b = a /\ streams'.open = a /\ waiter = "waiting"
      <4>1. CASE streams.cancelled
        <5>1. client' = [client EXCEPT ![a] = "closed"] BY <2>6, <4>1 DEF Stream!register
        <5> QED BY <2>4, <5>1, <1>o
      <4>2. CASE ~streams.cancelled
        <5>1. client' = [client EXCEPT ![a] = "open"] /\ streams'.open = a
          BY <2>6, <4>2, <1>o DEF Stream!register
        <5>2. waiter = "waiting" BY <2>1, <2>2, <4>2 DEF Connections
        <5> QED BY <2>4, <5>1, <5>2, <1>o
      <4> QED BY <4>1, <4>2
    <3>4. \A b \in Stream!Attempts : provider'[b] # "starting" BY <2>5, <3>1 DEF Stream!IsLive
    <3>5. \A b \in Stream!Attempts : Stream!IsLive(b)' => b = a BY <2>5, <3>1 DEF Stream!IsLive
    <3>6. \A b \in Stream!Attempts : b > attempt => provider'[b] = "none"
      BY <1>0, <2>2, <3>1 DEF Connections
    <3>7. slot' <=> waiter' = "waiting" BY <2>1 DEF Connections
    <3> QED BY <2>1, <2>2, <3>1, <3>2, <3>3, <3>4, <3>5, <3>6, <3>7 DEF Connections
  <2>7. CASE /\ streams' = [streams EXCEPT !.pending = FALSE, !.cancelled = FALSE]
             /\ provider' = [provider EXCEPT ![a] = "failed"]
             /\ UNCHANGED client
    <3>1. provider'[a] = "failed" /\ \A b \in Stream!Attempts : b # a => provider'[b] = provider[b]
      BY <2>7, <1>o
    <3>2. streams'.open = None BY <2>3, <2>7, <1>o
    <3>3. \A b \in Stream!Attempts : ~Stream!IsLive(b)' /\ provider'[b] # "starting"
      BY <2>5, <3>1 DEF Stream!IsLive
    <3>4. \A b \in Stream!Attempts : b > attempt => provider'[b] = "none"
      BY <1>0, <2>2, <3>1 DEF Connections
    <3>5. slot' <=> waiter' = "waiting" BY <2>1 DEF Connections
    <3> QED BY <2>1, <2>2, <2>4, <2>7, <3>2, <3>3, <3>4, <3>5 DEF Connections
  <2> QED BY <1>8, <2>6, <2>7 DEF Stream!Connect
<1>9. ASSUME NEW a \in Stream!Attempts, Stream!Receive(a) PROVE Connections'
  BY <1>9 DEF Stream!Receive, Stream!requesting, Connections, Stream!IsLive
<1>10. ASSUME NEW a \in Stream!Attempts, Stream!StreamEnds(a) PROVE Connections'
  <2>1. /\ provider[a] = "streaming" /\ Stream!release(a)
        /\ UNCHANGED <<waiter, attempt, slot, stopped_by_user>>
    BY <1>10 DEF Stream!StreamEnds, Stream!requesting
  <2>2. PICK outcome \in {"answered", "broken", "rejected"} :
            provider' = [provider EXCEPT ![a] = outcome]
    BY <1>10 DEF Stream!StreamEnds
  <2>3. a = attempt /\ waiter \in {"waiting", "done"} BY <2>1 DEF Connections, Stream!IsLive
  <2>4. \A b \in Stream!Attempts : b # a => ~Stream!IsLive(b) BY <2>3 DEF Connections
  <2>5. provider'[a] = outcome /\ \A b \in Stream!Attempts : b # a => provider'[b] = provider[b]
    BY <2>2, <1>o
  <2>6. \A b \in Stream!Attempts : ~Stream!IsLive(b)' /\ provider'[b] # "starting"
    BY <2>4, <2>5 DEF Stream!IsLive
  <2>7. streams.open = None \/ streams.open = a BY <2>4, <1>o DEF Connections, Stream!IsLive
  <2>8. streams'.open = None BY <2>1, <2>7 DEF Stream!release
  <2>9. \A b \in Stream!Attempts : client'[b] # "open"
    <3>1. client' = [client EXCEPT ![a] = "closed"] BY <2>1 DEF Stream!release
    <3>2. \A b \in Stream!Attempts : b # a => client[b] # "open" BY <2>4 DEF Connections,
                                                                             Stream!IsLive
    <3> QED BY <3>1, <3>2, <1>o
  <2>10. \A b \in Stream!Attempts : b > attempt => provider'[b] = "none"
    BY <1>0, <2>3, <2>5 DEF Connections
  <2>11. slot' <=> waiter' = "waiting" BY <2>1 DEF Connections
  <2> QED BY <2>1, <2>3, <2>6, <2>8, <2>9, <2>10, <2>11 DEF Connections
<1>11. CASE Stream!Cancel
  BY <1>11 DEF Stream!Cancel, Stream!requesting, Stream!providing, Connections, Stream!IsLive
<1>12. CASE UNCHANGED Stream!vars BY <1>12 DEF Stream!vars, Connections, Stream!IsLive
<1> QED
  BY <1>1, <1>2, <1>3, <1>4, <1>5, <1>6, <1>7, <1>8, <1>9, <1>10, <1>11, <1>12
  DEF Stream!Next, Stream!RequestStep, Stream!ProviderStep

-----------------------------------------------------------------------------
(* The answer that is stored.                                              *)

\* _attempt and _interrupt: a request that ends stores an answer, once.
LEMMA StoredOk ==
  ASSUME Stream!StreamAssumption, StreamIInv, [Stream!Next]_(Stream!vars)
  PROVE  StoredAtTheEnd'
<1> USE DEF StreamIInv
<1>1. ASSUME NEW status \in {"completed", "interrupted"}, NEW text \in Text, Stream!Store(status, text)
      PROVE  StoredAtTheEnd'
  BY <1>1 DEF Stream!Store, Stream!Answers, StoredAtTheEnd, Text, Chunk
<1>2. ASSUME waiter # "done", waiter' # "done", UNCHANGED stored PROVE StoredAtTheEnd'
  BY <1>2 DEF StoredAtTheEnd
<1>3. ASSUME Stream!Interrupt PROVE StoredAtTheEnd'
  <2>1. visible.text \in Text BY DEF StreamShapes
  <2> QED BY <1>1, <1>3, <2>1 DEF Stream!Interrupt
<1>4. CASE UNCHANGED Stream!requesting
  BY <1>4 DEF Stream!requesting, StoredAtTheEnd
<1>5. CASE Stream!StartAttempt BY <1>2, <1>3, <1>5 DEF Stream!StartAttempt
<1>6. CASE Stream!WaitRound BY <1>4, <1>6 DEF Stream!WaitRound
<1>7. CASE Stream!WaitCancelled BY <1>3, <1>7 DEF Stream!WaitCancelled
<1>8. CASE Stream!TakeResponse
  <2>1. CASE Stream!Interrupt BY <1>3, <2>1
  <2>2. ASSUME NEW final \in Stream!FinalTexts(sent[attempt]), Stream!ShowFinal(final)
        PROVE  StoredAtTheEnd'
    <3>1. attempt \in Stream!Attempts /\ sent[attempt] \in Text BY DEF StreamShapes
    <3>2. <<<<0, 1>>>> \in Text BY DEF Text, Chunk
    <3>3. final.text \in Text BY <2>2, <3>1, <3>2 DEF Stream!FinalTexts
    <3>4. waiter # "done" BY <1>8 DEF Stream!TakeResponse
    <3> QED BY <1>1, <1>2, <2>2, <3>3, <3>4 DEF Stream!ShowFinal
  <2> QED BY <1>8, <2>1, <2>2 DEF Stream!TakeResponse
<1>9. CASE Stream!TakeFailure
  BY <1>2, <1>3, <1>9 DEF Stream!TakeFailure, Stream!NextAttempt
<1>10. CASE Stream!Retry BY <1>2, <1>3, <1>10 DEF Stream!Retry
<1>11. CASE Stream!ShowChunk
  <2>1. waiter = "showing" /\ rest.text \in Text BY <1>11 DEF Stream!ShowChunk, StreamShapes
  <2> QED BY <1>1, <1>2, <1>3, <1>11, <2>1 DEF Stream!ShowChunk
<1>12. CASE Stream!ProviderStep
  BY <1>4, <1>12 DEF Stream!ProviderStep, Stream!Connect, Stream!Receive, Stream!StreamEnds
<1>13. CASE Stream!Cancel BY <1>4, <1>13 DEF Stream!Cancel
<1>14. CASE UNCHANGED Stream!vars BY <1>4, <1>14 DEF Stream!vars, Stream!requesting
<1> QED
  BY <1>5, <1>6, <1>7, <1>8, <1>9, <1>10, <1>11, <1>12, <1>13, <1>14
  DEF Stream!Next, Stream!RequestStep

-----------------------------------------------------------------------------
(* What the stream promises.                                               *)

\* A request that waits for its turn has shown and stored nothing, and has no connection.
LEMMA StreamInitOk == ASSUME Stream!StreamAssumption, Stream!Init PROVE StreamIInv
<1> USE DEF Stream!Init
<1>0. 1 \in Stream!Attempts /\ 0 \in 0..MaxAttempts /\ <<>> \in Text
  BY EmptySeq DEF Stream!Attempts, Stream!StreamAssumption, Text
<1>1. StreamShapes
  <2>1. visible \in [attempt : Nat, text : Text, replace : BOOLEAN]
        /\ shell \in [attempt : Nat, text : Text]
    BY <1>0
  <2>2. sent \in [Stream!Attempts -> Text] BY <1>0
  <2> QED BY <1>0, <2>1, <2>2 DEF StreamShapes
<1>2. Connections BY <1>0 DEF Connections, Stream!IsLive
<1>3. InStep /\ FinalIsShown /\ StoredIsVisible /\ StoredAtTheEnd
  BY DEF InStep, FinalIsShown, StoredIsVisible, StoredAtTheEnd
<1>4. \A a : Tagged(<<>>, a) BY DEF Tagged
<1>5. Tags BY <1>0, <1>4 DEF Tags, Uniform
<1> QED BY <1>1, <1>2, <1>3, <1>5 DEF StreamIInv

\* Every step of a request, of the provider's thread and of the shell keeps what the
\* attempts, the message and the connection rely on.
LEMMA StreamNextOk ==
  ASSUME Stream!StreamAssumption, StreamIInv, [Stream!Next]_(Stream!vars)
  PROVE  StreamIInv'
<1>1. Connections' BY ConnectionsOk
<1>2. StreamShapes' /\ InStep' /\ FinalIsShown' /\ StoredIsVisible' /\ Tags'
  BY RequestOk, OthersOk DEF Stream!Next
<1>3. StoredAtTheEnd' BY StoredOk
<1> QED BY <1>1, <1>2, <1>3 DEF StreamIInv

\* The inductive invariant of the streamed answer.
THEOREM StreamInvariant == ASSUME Stream!StreamAssumption PROVE Stream!Spec => []StreamIInv
<1>1. Stream!Init => StreamIInv BY StreamInitOk
<1>2. StreamIInv /\ [Stream!Next]_(Stream!vars) => StreamIInv' BY StreamNextOk
<1> QED BY <1>1, <1>2, PTL DEF Stream!Spec

\* The parts of the invariant that the runs check.
LEMMA StreamMeans ==
  ASSUME Stream!StreamAssumption, StreamIInv
  PROVE  /\ Stream!TypeOK /\ Stream!ShownIsStored /\ Stream!AttemptsAreNotMixed
         /\ Stream!ConnectionsAreOwned
<1> USE DEF StreamIInv
<1>1. Stream!ShownIsStored BY DEF InStep, StoredIsVisible, Stream!ShownIsStored
<1>2. Stream!AttemptsAreNotMixed
  <2>1. PICK a \in 0..MaxAttempts : Tagged(shell.text, a) BY DEF InStep, Tags, Uniform
  <2>2. shell.text \in Text BY DEF StreamShapes
  <2>3. DOMAIN shell.text = 1..Len(shell.text) BY <2>2, LenProperties DEF Text
  <2> QED BY <2>1, <2>3 DEF Stream!AttemptsAreNotMixed, Tagged
<1>3. Stream!ConnectionsAreOwned
  BY DEF Connections, Stream!ConnectionsAreOwned, Stream!IsLive
<1>4. Stream!TypeOK
  <2>1. (stored # None) <=> (waiter = "done")
    BY DEF StoredAtTheEnd, Stream!StreamAssumption
  <2>2. (stored # None) = (waiter = "done") BY <2>1
  <2>3. \A a \in Stream!Attempts : client[a] \in {"none", "open", "closed"} BY DEF StreamShapes
  <2>4. streams.open \in {None} \cup Stream!Attempts BY DEF StreamShapes
  <2> QED BY <2>2, <2>3, <2>4 DEF StreamShapes, Stream!TypeOK
<1> QED BY <1>1, <1>2, <1>3, <1>4

\* The request, its slot and its connections have states that the code knows, and an answer
\* is stored exactly when the request has ended (_attempt, _interrupt).
THEOREM StreamTypes ==
  ASSUME Stream!StreamAssumption
  PROVE  Stream!Spec => []Stream!TypeOK
<1>1. StreamIInv => Stream!TypeOK BY StreamMeans
<1> QED BY <1>1, StreamInvariant, PTL

\* The answer of grounded.py and the reducer of the shell: what is stored of an answer, however
\* it ended, is what the shell shows of it.
THEOREM StoredIsShown ==
  ASSUME Stream!StreamAssumption
  PROVE  Stream!Spec => []Stream!ShownIsStored
<1>1. StreamIInv => Stream!ShownIsStored BY StreamMeans
<1> QED BY <1>1, StreamInvariant, PTL

\* emit and reset: no text that the shell shows has chunks of two attempts.
THEOREM AttemptsStayApart ==
  ASSUME Stream!StreamAssumption
  PROVE  Stream!Spec => []Stream!AttemptsAreNotMixed
<1>1. StreamIInv => Stream!AttemptsAreNotMixed BY StreamMeans
<1> QED BY <1>1, StreamInvariant, PTL

\* DesktopActiveModelStreams: no connection is left open behind a request that has gone, and
\* one attempt at a time talks to the provider.
THEOREM ConnectionsHaveOwners ==
  ASSUME Stream!StreamAssumption
  PROVE  Stream!Spec => []Stream!ConnectionsAreOwned
<1>1. StreamIInv => Stream!ConnectionsAreOwned BY StreamMeans
<1> QED BY <1>1, StreamInvariant, PTL

-----------------------------------------------------------------------------
(* The binding of an engine is stable under its leases, for any requests,  *)
(* any number of workers and of knowledge bases.                           *)
(*                                                                         *)
(* Three facts carry the proof: one activation is under way at a time,     *)
(* and no lease is given meanwhile; when it takes the lock, there is no    *)
(* lease on another knowledge base than the one it opens; and only who     *)
(* holds the lock binds.  A running job is in the hands of one import that *)
(* holds a lease, so that what is bound for it stays bound.                *)

Places == Engine!Waiting \cup
    {"admit", "bind", "start", "first", "stage", "services", "release", "leave", "drain", "lock",
     "begin", "load", "recover", "unlock", "commit", "readmit", "find", "ask", "reply"}

JobRows ==
    [status : {"none", "running", "paused", "recoverable", "cancelled", "failed", "completed"},
     kb : KnowledgeBases \cup {None}, stage : Nat]

\* Where the handlers of the methods may be.
Leased == {"bind", "start", "first", "stage", "services", "release", "leave"}
Locked == {"begin", "load", "recover", "commit", "unlock"}
Activating == {"drain", "lock", "begin", "load", "recover", "unlock", "readmit"}

EngineShapes ==
    /\ pc \in [Requests -> Places]
    /\ bound \in [Requests -> KnowledgeBases \cup {None}]
    /\ found \in [Requests -> Engine!Importing \cup {None}]
    /\ reply \in [Requests -> {"none", "ok", "error", "cancelled"}]
    /\ controls \in [Engine!Imports -> Engine!Importing \cup {None}]
    /\ job \in [Engine!Imports -> JobRows]
    /\ kb \in KnowledgeBases \cup {None}
    /\ lock \in Requests \cup {None}
    /\ transitioning \in BOOLEAN
    /\ changed \subseteq Requests

\* What the thread that reads frames knows of the requests.
FramesInv ==
    /\ reader \in {"reading", "cancelling", "closing", "joining", "ended"}
    /\ target \in Requests \cup {None}
    /\ told \subseteq cancelled /\ nonCancelable \subseteq active /\ active \subseteq plan.requests
    /\ \A r \in Requests : pc[r] \notin {"unsent", "ended"} => r \in active

\* A request waits once for a worker.
QueueInv ==
    /\ queue \in Seq(Requests)
    /\ \A i \in 1..Len(queue) : pc[queue[i]] = "queued"
    /\ \A i, k \in 1..Len(queue) : queue[i] = queue[k] => i = k

\* A handler takes the way of its method.
WaysInv ==
    \A r \in Requests : pc[r] \notin Engine!Waiting \cup {"reply"} =>
        \/ r \in Engine!Importing /\ pc[r] \in {"admit"} \cup Leased
        \/ r \in Engine!Opening /\ pc[r] \in {"admit"} \cup Activating
        \/ Method[r] = "page" /\ pc[r] \in {"lock", "begin", "commit", "unlock"}
        \/ Method[r] \in {"pause", "cancel"} /\ pc[r] \in {"find", "ask"}

\* Who is where it needs the lock, has it; and one activation is under way.
LockInv ==
    /\ \A r \in Requests : pc[r] \in Locked <=> lock = r
    /\ \A r \in Engine!Opening : pc[r] \in Activating => transitioning
    /\ \A r, s \in Engine!Opening : pc[r] \in Activating /\ pc[s] \in Activating => r = s

\* Leases are on the knowledge base that is bound; who is about to bind another finds none.
LeasesInv ==
    /\ leases = {r \in Engine!Importing : pc[r] \in Leased}
    /\ \A r \in leases : bound[r] = kb
    /\ \A r \in Requests : pc[r] \in {"begin", "load", "commit"} => bound[r] = kb
    /\ \A r \in Engine!Opening :
        /\ pc[r] = "lock" /\ kb # Param[r] => leases = {}
        /\ pc[r] \in {"begin", "load", "recover"} /\ bound[r] # Param[r] => leases = {}
        /\ pc[r] = "recover" => kb = Param[r]

\* A running job is in the hands of one import, which its knowledge base knows.
JobsInv ==
    /\ activity = {r \in Engine!Importing : pc[r] \in Engine!AtWork}
    /\ \A r \in Engine!Importing : pc[r] \in Engine!AtWork =>
        job[Engine!JobOf(r)].status = "running" /\ job[Engine!JobOf(r)].kb = bound[r]
    /\ \A j \in Engine!Imports : job[j].status = "running" =>
        \E r \in Engine!Importing : Engine!JobOf(r) = j /\ pc[r] \in Engine!AtWork
    /\ \A r, s \in Engine!Importing :
        pc[r] \in Engine!AtWork /\ pc[s] \in Engine!AtWork /\ Engine!JobOf(r) = Engine!JobOf(s) => r = s
    /\ \A r \in Engine!Importing : pc[r] = "stage" => controls[Engine!JobOf(r)] = r
    /\ \A r \in Engine!Imports :
        pc[r] \in {"unsent", "queued", "admit", "bind", "start"} => job[r].status = "none"

EngineIInv == EngineShapes /\ FramesInv /\ QueueInv /\ WaysInv /\ LockInv /\ LeasesInv /\ JobsInv

-----------------------------------------------------------------------------
(* What the steps of handlers have in common.                              *)

\* A handler goes on (worker threads of request_workers.py): the reader and the queue of the
\* pool are not concerned.
LEMMA HandlerFrame ==
  ASSUME EngineShapes, FramesInv, QueueInv, NEW r \in Requests, NEW to \in Places,
         pc[r] \notin Engine!Waiting, to \notin Engine!Waiting, Engine!Goes(r, to),
         UNCHANGED <<Engine!frames, active, queue, plan>>,
         cancelled \subseteq cancelled', nonCancelable' \subseteq active
  PROVE  /\ FramesInv' /\ QueueInv'
         /\ pc' \in [Requests -> Places] /\ pc'[r] = to
         /\ \A s \in Requests : s # r => pc'[s] = pc[s]
<1>1. /\ pc' \in [Requests -> Places] /\ pc'[r] = to
      /\ \A s \in Requests : s # r => pc'[s] = pc[s]
  BY DEF EngineShapes, Engine!Goes
<1>2. FramesInv' BY <1>1 DEF FramesInv, Engine!frames, Engine!Waiting
<1>3. QueueInv'
  <2>1. \A i \in 1..Len(queue) : queue[i] \in Requests BY ElementOfSeq DEF QueueInv
  <2>2. \A i \in 1..Len(queue) : queue[i] # r BY <2>1 DEF QueueInv, Engine!Waiting
  <2> QED BY <1>1, <2>1, <2>2 DEF QueueInv
<1> QED BY <1>1, <1>2, <1>3

\* A request about no import, or an import that does not hold its lock: no job is concerned.
LEMMA JobsFrame ==
  ASSUME EngineShapes, JobsInv, NEW r \in Requests, NEW to \in Places, Engine!Goes(r, to),
         pc[r] \notin Engine!AtWork, to \notin Engine!AtWork,
         r \in Engine!Imports /\ to \in {"unsent", "queued", "admit", "bind", "start"} =>
             pc[r] \in {"unsent", "queued", "admit", "bind", "start"},
         UNCHANGED <<controls, activity, job>>,
         \A s \in Requests : pc[s] \in Engine!AtWork => bound'[s] = bound[s]
  PROVE  JobsInv'
<1>1. /\ pc'[r] = to /\ \A s \in Requests : s # r => pc'[s] = pc[s] BY DEF EngineShapes,
                                                                           Engine!Goes
<1>2. Engine!Importing \subseteq Requests /\ Engine!Imports \subseteq Requests
  BY DEF Engine!Importing, Engine!Imports
<1>3. \A s \in Requests : pc'[s] \in Engine!AtWork <=> pc[s] \in Engine!AtWork BY <1>1
<1>4. \A s \in Requests : pc'[s] = "stage" <=> pc[s] = "stage" BY <1>1 DEF Engine!AtWork
<1> QED BY <1>1, <1>2, <1>3, <1>4 DEF JobsInv

\* A handler that takes nor leaves a lease, lock or activation.
LEMMA WorkspaceFrame ==
  ASSUME EngineShapes, LockInv, LeasesInv, NEW r \in Requests, NEW to \in Places, Engine!Goes(r,
         to),
         pc[r] \in Leased <=> to \in Leased,
         pc[r] \notin Locked \cup Activating, to \notin Locked \cup Activating,
         UNCHANGED <<transitioning, leases, bound, lock, kb>>
  PROVE  LockInv' /\ LeasesInv'
<1>1. /\ pc'[r] = to /\ \A s \in Requests : s # r => pc'[s] = pc[s] BY DEF EngineShapes,
                                                                           Engine!Goes
<1>2. Engine!Importing \subseteq Requests /\ Engine!Opening \subseteq Requests
  BY DEF Engine!Importing, Engine!Opening
<1>3. LockInv' BY <1>1, <1>2 DEF LockInv
<1>4. LeasesInv' BY <1>1, <1>2 DEF LeasesInv, Locked, Activating
<1> QED BY <1>3, <1>4

-----------------------------------------------------------------------------
(* The thread that reads frames, and the pool.                             *)

\* _start_request: a request waits for a worker.
LEMMA SendOk ==
  ASSUME Engine!EngineAssumption, EngineIInv, NEW r \in Requests, Engine!Send(r)
  PROVE  EngineIInv'
<1> USE DEF EngineIInv
<1>0. /\ pc[r] = "unsent" /\ Engine!Goes(r, "queued") /\ r \in plan.requests
      /\ queue' = Append(queue, r) /\ active' = active \cup {r}
      /\ UNCHANGED <<Engine!frames, cancelled, nonCancelable, bound, found, reply,
                     Engine!transition,
                     controls, Engine!workspace, job, changed, plan>>
  BY DEF Engine!Send
<1>1. /\ pc' \in [Requests -> Places] /\ pc'[r] = "queued"
      /\ \A s \in Requests : s # r => pc'[s] = pc[s]
  BY <1>0 DEF EngineShapes, Engine!Goes, Places, Engine!Waiting
<1>2. EngineShapes' BY <1>0, <1>1 DEF EngineShapes, Engine!transition, Engine!workspace
<1>3. FramesInv' BY <1>0, <1>1 DEF FramesInv, Engine!frames
<1>4. QueueInv'
  <2>1. /\ queue' \in Seq(Requests) /\ Len(queue') = Len(queue) + 1
        /\ \A i \in 1..Len(queue) : queue'[i] = queue[i]
        /\ queue'[Len(queue) + 1] = r
    BY <1>0, AppendProperties DEF QueueInv
  <2>2. Len(queue) \in Nat /\ \A i \in 1..Len(queue) : queue[i] \in Requests /\ queue[i] # r
    BY <1>0, LenProperties, ElementOfSeq DEF QueueInv
  <2>3. \A i \in 1..Len(queue') : i \in 1..Len(queue) \/ i = Len(queue) + 1 BY <2>1, <2>2
  <2> QED BY <1>1, <2>1, <2>2, <2>3 DEF QueueInv
<1>5. WaysInv' BY <1>1 DEF WaysInv, Engine!Waiting
<1>6. LockInv' /\ LeasesInv'
  BY <1>0, WorkspaceFrame DEF Engine!transition, Engine!workspace, Places, Engine!Waiting,
                              Leased, Locked, Activating
<1>7. JobsInv'
  BY <1>0, JobsFrame DEF Engine!workspace, Places, Engine!Waiting, Engine!AtWork
<1> QED BY <1>2, <1>3, <1>4, <1>5, <1>6, <1>7

\* engine.cancel and the end of serve: the thread that reads frames touches no handler.
LEMMA ReaderOk ==
  ASSUME EngineIInv,
         (\E r \in Requests : Engine!FindCancellable(r)) \/ Engine!StopReading \/ Engine!Reading
  PROVE  EngineIInv'
<1> USE DEF EngineIInv
<1>0. UNCHANGED <<active, nonCancelable, queue, Engine!handlers, transitioning, leases, controls,
                  Engine!workspace, job, changed, plan>>
  BY DEF Engine!FindCancellable, Engine!StopReading, Engine!Reading, Engine!ReportCancelled,
         Engine!Close, Engine!Joined, Engine!requests,
              Engine!transition
<1>1. EngineShapes' BY <1>0 DEF EngineShapes, Engine!handlers, Engine!workspace
<1>2. FramesInv'
  BY <1>0 DEF FramesInv, Engine!frames, Engine!handlers, Engine!FindCancellable,
              Engine!StopReading, Engine!Reading,
               Engine!ReportCancelled, Engine!Close, Engine!Joined, Engine!requests
<1>3. QueueInv' /\ WaysInv' BY <1>0 DEF QueueInv, WaysInv, Engine!handlers
<1>4. LockInv' /\ LeasesInv' BY <1>0 DEF LockInv, LeasesInv, Engine!handlers, Engine!workspace
<1>5. JobsInv' BY <1>0 DEF JobsInv, Engine!handlers, Engine!workspace
<1> QED BY <1>1, <1>2, <1>3, <1>4, <1>5

\* _run_request: a worker takes the first request that waits.
LEMMA TakeOk ==
  ASSUME Engine!EngineAssumption, EngineIInv, Engine!Take
  PROVE  EngineIInv'
<1> USE DEF EngineIInv
<1> DEFINE r == Head(queue)
<1>0. /\ queue # <<>> /\ queue' = Tail(queue)
      /\ UNCHANGED <<Engine!frames, active, cancelled, nonCancelable, bound, found,
                     Engine!transition, controls,
                     Engine!workspace, job, changed, plan>>
  BY DEF Engine!Take
<1>1. /\ r \in Requests /\ pc[r] = "queued"
      /\ Tail(queue) \in Seq(Requests) /\ Len(Tail(queue)) = Len(queue) - 1
      /\ \A i \in 1..Len(Tail(queue)) : Tail(queue)[i] = queue[i + 1]
      /\ Len(queue) \in Nat \ {0} /\ r = queue[1]
  <2>1. queue \in Seq(Requests) BY DEF QueueInv
  <2>2. r \in Requests /\ Tail(queue) \in Seq(Requests) /\ Len(Tail(queue)) = Len(queue) - 1
        /\ \A i \in 1..Len(Tail(queue)) : Tail(queue)[i] = queue[i + 1]
    BY <1>0, <2>1, HeadTailProperties
  <2>3. Len(queue) \in Nat \ {0} BY <1>0, <2>1, EmptySeq
  <2>4. r = queue[1] BY <1>0, <2>1
  <2>5. pc[r] = "queued" BY <2>3, <2>4 DEF QueueInv
  <2> QED BY <2>2, <2>3, <2>4, <2>5
<1>2. PICK to \in {"reply", "admit", "lock", "find"} :
          /\ Engine!Goes(r, to)
          /\ reply' = reply \/ reply' = [reply EXCEPT ![r] = "cancelled"]
          /\ to = "reply" \/ to = (CASE Method[r] \in {"import", "resume", "open"} -> "admit"
                                     [] Method[r] = "page" -> "lock"
                                     [] OTHER -> "find")
  BY DEF Engine!Take, Engine!Ends
<1> HIDE DEF r
<1>3. /\ pc' \in [Requests -> Places] /\ pc'[r] = to
      /\ \A s \in Requests : s # r => pc'[s] = pc[s]
  BY <1>1, <1>2 DEF EngineShapes, Engine!Goes, Places
<1>4. EngineShapes'
  <2>1. reply' \in [Requests -> {"none", "ok", "error", "cancelled"}] BY <1>2 DEF EngineShapes
  <2> QED BY <1>0, <1>3, <2>1 DEF EngineShapes, Engine!transition, Engine!workspace
<1>5. FramesInv' BY <1>0, <1>1, <1>3 DEF FramesInv, Engine!frames
<1>6. QueueInv'
  <2>1. \A i \in 1..Len(queue') : /\ i + 1 \in 1..Len(queue) /\ queue'[i] = queue[i + 1]
                                  /\ queue[i + 1] # queue[1] /\ queue[i + 1] \in Requests
    <3>1. ASSUME NEW i \in 1..Len(queue')
          PROVE  /\ i + 1 \in 1..Len(queue) /\ queue'[i] = queue[i + 1]
                 /\ queue[i + 1] # queue[1] /\ queue[i + 1] \in Requests
      <4>1. i \in Nat /\ i + 1 \in 1..Len(queue) /\ 1 \in 1..Len(queue) /\ i + 1 # 1
            /\ queue'[i] = queue[i + 1]
        BY <1>0, <1>1, <3>1
      <4>2. queue[i + 1] # queue[1] BY <4>1 DEF QueueInv
      <4>3. queue[i + 1] \in Requests BY <4>1, ElementOfSeq DEF QueueInv
      <4> QED BY <4>1, <4>2, <4>3
    <3> QED BY <3>1
  <2>2. \A i \in 1..Len(queue') : pc'[queue'[i]] = "queued"
    BY <1>1, <1>3, <2>1 DEF QueueInv
  <2>3. \A i, k \in 1..Len(queue') : queue'[i] = queue'[k] => i = k
    <3>1. ASSUME NEW i \in 1..Len(queue'), NEW k \in 1..Len(queue'), queue'[i] = queue'[k]
          PROVE  i = k
      <4>1. i + 1 = k + 1 BY <2>1, <3>1 DEF QueueInv
      <4>2. i \in Int /\ k \in Int OBVIOUS
      <4> QED BY <4>1, <4>2
    <3> QED BY <3>1
  <2> QED BY <1>0, <1>1, <2>2, <2>3 DEF QueueInv
<1>7. WaysInv'
  BY <1>1, <1>2, <1>3 DEF WaysInv, Engine!Waiting, Engine!EngineAssumption, Engine!Importing,
                          Engine!Opening, Activating
<1>8. LockInv' /\ LeasesInv'
  <2>1. CASE to # "lock"
    BY <1>0, <1>1, <1>2, <2>1, WorkspaceFrame DEF Engine!transition, Engine!workspace, Places,
                                                  Leased, Locked, Activating
  <2>2. CASE to = "lock"
    <3>1. r \notin Engine!Opening /\ r \notin Engine!Importing BY <1>2, <2>2 DEF Engine!Opening,
                                                                                 Engine!Importing
    <3>2. LockInv' BY <1>0, <1>1, <1>3, <2>2, <3>1
      DEF LockInv, Engine!transition, Engine!workspace, Locked, Engine!Opening, Activating
    <3>3. LeasesInv' BY <1>0, <1>1, <1>3, <2>2, <3>1
      DEF LeasesInv, Engine!transition, Engine!workspace, Leased, Engine!Importing, Engine!Opening
    <3> QED BY <3>2, <3>3
  <2> QED BY <2>1, <2>2
<1>9. JobsInv' BY <1>0, <1>1, <1>2, JobsFrame DEF Engine!workspace, Places, Engine!AtWork
<1> QED BY <1>4, <1>5, <1>6, <1>7, <1>8, <1>9

\* The end of _run_request; pause_import_job and cancel_import_job.
LEMMA RequestsOk ==
  ASSUME Engine!EngineAssumption, EngineIInv, NEW r \in Requests,
         Engine!Reply(r) \/ Engine!Find(r) \/ Engine!Ask(r)
  PROVE  EngineIInv'
<1> USE DEF EngineIInv
<1>1. CASE Engine!Reply(r)
  <2>0. /\ pc[r] = "reply" /\ Engine!Goes(r, "ended")
        /\ active' = active \ {r} /\ nonCancelable' = nonCancelable \ {r}
        /\ UNCHANGED <<Engine!frames, cancelled, queue, bound, found, Engine!transition,
                       controls, Engine!workspace, job,
                       changed, plan>>
    BY <1>1 DEF Engine!Reply, Engine!Ends
  <2>1. /\ pc' \in [Requests -> Places] /\ pc'[r] = "ended"
        /\ \A s \in Requests : s # r => pc'[s] = pc[s]
    BY <2>0 DEF EngineShapes, Engine!Goes, Places, Engine!Waiting
  <2>2. reply' \in [Requests -> {"none", "ok", "error", "cancelled"}]
    BY <1>1 DEF Engine!Reply, Engine!Ends, EngineShapes
  <2>3. EngineShapes' BY <2>0, <2>1, <2>2 DEF EngineShapes, Engine!transition, Engine!workspace
  <2>4. FramesInv' BY <2>0, <2>1 DEF FramesInv, Engine!frames
  <2>5. QueueInv'
    <3>1. \A i \in 1..Len(queue) : queue[i] \in Requests BY ElementOfSeq DEF QueueInv
    <3> QED BY <2>0, <2>1, <3>1 DEF QueueInv
  <2>6. WaysInv' BY <2>1 DEF WaysInv, Engine!Waiting
  <2>7. LockInv' /\ LeasesInv'
    BY <2>0, WorkspaceFrame DEF Engine!transition, Engine!workspace, Places, Engine!Waiting,
                                Leased, Locked, Activating
  <2>8. JobsInv' BY <2>0, JobsFrame DEF Engine!workspace, Places, Engine!Waiting, Engine!AtWork
  <2> QED BY <2>3, <2>4, <2>5, <2>6, <2>7, <2>8
<1>2. CASE Engine!Find(r)
  <2>0. /\ pc[r] = "find" /\ UNCHANGED <<Engine!frames, Engine!requests, bound,
                                         Engine!transition, controls, Engine!workspace,
                                         changed, plan>>
    BY <1>2 DEF Engine!Find
  <2>1. PICK to \in {"ask", "reply"} : Engine!Goes(r, to) BY <1>2 DEF Engine!Find, Engine!Ends
  <2>2. Method[r] \in {"pause", "cancel"} /\ r \notin Engine!Importing
    BY <2>0 DEF WaysInv, Engine!Waiting, Leased, Activating, Engine!Importing
  <2>3. Engine!JobOf(r) \in Engine!Imports
    BY <2>2 DEF Engine!EngineAssumption, Engine!JobOf
  <2>4. /\ FramesInv' /\ QueueInv' /\ pc' \in [Requests -> Places] /\ pc'[r] = to
        /\ \A s \in Requests : s # r => pc'[s] = pc[s]
    BY <2>0, <2>1, HandlerFrame DEF Engine!requests, Places, Engine!Waiting, FramesInv
  <2>5. \/ UNCHANGED job
        \/ /\ job[Engine!JobOf(r)].status \in {"paused", "recoverable"}
           /\ job' = [job EXCEPT ![Engine!JobOf(r)].status = "cancelled"]
    BY <1>2 DEF Engine!Find
  <2>6. /\ job' \in [Engine!Imports -> JobRows]
        /\ \A j \in Engine!Imports : \/ job'[j] = job[j]
                                     \/ /\ job[j].status \in {"paused", "recoverable"}
                                               /\ job'[j].status = "cancelled"
    BY <2>3, <2>5 DEF EngineShapes, JobRows
  <2>7. /\ found' \in [Requests -> Engine!Importing \cup {None}]
        /\ reply' \in [Requests -> {"none", "ok", "error", "cancelled"}]
    BY <1>2, <2>3 DEF Engine!Find, Engine!Ends, EngineShapes
  <2>8. EngineShapes' BY <2>0, <2>4, <2>6, <2>7 DEF EngineShapes, Engine!transition,
                                                    Engine!workspace
  <2>9. WaysInv' BY <2>1, <2>2, <2>4 DEF WaysInv, Engine!Waiting
  <2>10. LockInv' /\ LeasesInv'
    BY <2>0, <2>1, WorkspaceFrame DEF Engine!transition, Engine!workspace, Places, Leased,
                                      Locked, Activating
  <2>11. JobsInv'
    <3>1. Engine!Importing \subseteq Requests /\ Engine!Imports \subseteq Requests
      BY DEF Engine!Importing, Engine!Imports
    <3>2. \A s \in Engine!Importing : s # r /\ pc'[s] = pc[s] BY <2>2, <2>4, <3>1
    <3>3. \A s \in Engine!Imports : s # r /\ pc'[s] = pc[s] BY <2>2, <2>4, <3>1
                                                            DEF Engine!Importing, Engine!Imports
    <3>4. \A s \in Engine!Importing : Engine!JobOf(s) \in Engine!Imports
      BY DEF Engine!EngineAssumption, Engine!JobOf, Engine!Importing, Engine!Imports
    <3>5. UNCHANGED <<controls, activity, bound>> BY <2>0 DEF Engine!workspace
    <3>6. activity' = {s \in Engine!Importing : pc'[s] \in Engine!AtWork} BY <3>2, <3>5
                                                                          DEF JobsInv
    <3>7. \A s \in Engine!Importing : pc'[s] \in Engine!AtWork =>
              job'[Engine!JobOf(s)].status = "running" /\ job'[Engine!JobOf(s)].kb = bound'[s]
      BY <2>6, <3>2, <3>4, <3>5 DEF JobsInv
    <3>8. \A j \in Engine!Imports : job'[j].status = "running" =>
              \E s \in Engine!Importing : Engine!JobOf(s) = j /\ pc'[s] \in Engine!AtWork
      BY <2>6, <3>2 DEF JobsInv
    <3>9. \A s \in Engine!Imports :
              pc'[s] \in {"unsent", "queued", "admit", "bind", "start"} => job'[s].status = "none"
      BY <2>6, <3>3 DEF JobsInv
    <3> QED BY <3>2, <3>5, <3>6, <3>7, <3>8, <3>9 DEF JobsInv
  <2> QED BY <2>4, <2>8, <2>9, <2>10, <2>11
<1>3. CASE Engine!Ask(r)
  <2>0. /\ pc[r] = "ask" /\ Engine!Goes(r, "reply")
        /\ UNCHANGED <<Engine!frames, Engine!requests, bound, found, transitioning, leases,
                       controls, Engine!workspace,
                       job, changed, plan>>
        /\ reply' \in [Requests -> {"none", "ok", "error", "cancelled"}]
    BY <1>3 DEF Engine!Ask, Engine!Ends, EngineShapes
  <2>1. /\ FramesInv' /\ QueueInv' /\ pc' \in [Requests -> Places] /\ pc'[r] = "reply"
        /\ \A s \in Requests : s # r => pc'[s] = pc[s]
    BY <2>0, HandlerFrame DEF Engine!requests, Places, Engine!Waiting, FramesInv
  <2>2. EngineShapes' BY <2>0, <2>1 DEF EngineShapes, Engine!workspace
  <2>3. WaysInv' BY <2>1 DEF WaysInv
  <2>4. LockInv' /\ LeasesInv'
    BY <2>0, WorkspaceFrame DEF Engine!workspace, Places, Leased, Locked, Activating
  <2>5. JobsInv' BY <2>0, JobsFrame DEF Engine!workspace, Places, Engine!AtWork
  <2> QED BY <2>1, <2>2, <2>3, <2>4, <2>5
<1> QED BY <1>1, <1>2, <1>3

-----------------------------------------------------------------------------
(* Imports.                                                                *)

\* The thread of an import, and the job that it is about.
LEMMA ImportFacts ==
  ASSUME Engine!EngineAssumption, EngineShapes
  PROVE  /\ Engine!Importing \subseteq Requests /\ Engine!Imports \subseteq Engine!Importing
         /\ Engine!Opening \subseteq Requests /\ Engine!Importing \cap Engine!Opening = {}
         /\ None \notin Requests
         /\ \A r \in Engine!Importing : /\ Engine!JobOf(r) \in Engine!Imports /\ job[Engine!JobOf(r)] \in JobRows
                                        /\ r \in Engine!Imports => Engine!JobOf(r) = r
BY DEF Engine!EngineAssumption, EngineShapes, Engine!Importing, Engine!Imports, Engine!Opening,
       Engine!JobOf

\* A lease is given while no activation is under way (WorkspaceTransition.import_job).
LEMMA AdmitOk ==
  ASSUME Engine!EngineAssumption, EngineIInv, NEW r \in Requests, Engine!Admit(r)
  PROVE  EngineIInv'
<1> USE DEF EngineIInv
<1>0. /\ pc[r] = "admit" /\ r \in Engine!Importing /\ ~transitioning
      /\ UNCHANGED <<Engine!frames, Engine!requests, found, transitioning, paused, stopped,
                     controls,
                     Engine!workspace, job, changed, plan>>
  BY DEF Engine!Admit
<1>1. PICK to \in {"reply", "bind"} :
          /\ Engine!Goes(r, to)
          /\ to = "reply" => UNCHANGED <<bound, leases>>
          /\ to = "bind" => leases' = leases \cup {r} /\ bound' = [bound EXCEPT ![r] = kb]
  BY DEF Engine!Admit, Engine!Ends
<1>2. reply' \in [Requests -> {"none", "ok", "error", "cancelled"}] BY DEF Engine!Admit,
                                                                           Engine!Ends, EngineShapes
<1>3. /\ FramesInv' /\ QueueInv' /\ pc' \in [Requests -> Places] /\ pc'[r] = to
      /\ \A s \in Requests : s # r => pc'[s] = pc[s]
  BY <1>0, <1>1, HandlerFrame DEF Engine!requests, Places, Engine!Waiting, FramesInv
<1>4. /\ bound' \in [Requests -> KnowledgeBases \cup {None}]
      /\ \A s \in Requests : s # r => bound'[s] = bound[s]
      /\ to = "bind" => bound'[r] = kb
  BY <1>1 DEF EngineShapes
<1>5. EngineShapes' BY <1>0, <1>2, <1>3, <1>4 DEF EngineShapes, Engine!workspace
<1>6. WaysInv' BY <1>0, <1>1, <1>3 DEF WaysInv, Leased, Engine!Waiting
<1>7. LockInv'
  BY <1>0, <1>1, <1>3, ImportFacts DEF LockInv, Engine!workspace, Locked
<1>8. LeasesInv'
  <2>1. leases' = {s \in Engine!Importing : pc'[s] \in Leased}
    BY <1>0, <1>1, <1>3, ImportFacts DEF LeasesInv, Leased
  <2>2. \A s \in leases' : bound'[s] = kb'
    BY <1>0, <1>1, <1>4, ImportFacts DEF LeasesInv, Engine!workspace
  <2>3. \A s \in Requests : pc'[s] \in {"begin", "load", "commit"} => bound'[s] = kb'
    BY <1>0, <1>1, <1>3, <1>4 DEF LeasesInv, Engine!workspace
  <2>4. \A s \in Engine!Opening : pc'[s] \notin Activating
    BY <1>0, <1>3, ImportFacts DEF LockInv
  <2> QED BY <2>1, <2>2, <2>3, <2>4 DEF LeasesInv, Activating
<1>9. JobsInv' BY <1>0, <1>1, <1>4, JobsFrame DEF Engine!workspace, Places, Engine!AtWork
<1> QED BY <1>3, <1>5, <1>6, <1>7, <1>8, <1>9

\* What an import does between its lease and its reply, without its lock: it is bound, its
\* services are started and it leaves (import handlers of engine/imports.py).
LEMMA BetweenOk ==
  ASSUME Engine!EngineAssumption, EngineIInv, NEW r \in Requests,
         Engine!Bind(r) \/ Engine!StartServices(r) \/ Engine!ReleaseControl(r)
  PROVE  EngineIInv'
<1> USE DEF EngineIInv
<1>0. UNCHANGED <<Engine!frames, active, cancelled, queue, bound, found, Engine!transition,
                  Engine!workspace, job,
                  changed, plan>>
  BY DEF Engine!Bind, Engine!StartServices, Engine!ReleaseControl, Engine!requests
<1>1. PICK to \in {"leave", "start", "release"} : Engine!Goes(r, to)
  BY DEF Engine!Bind, Engine!StartServices, Engine!ReleaseControl, Engine!Ends
<1>2. /\ pc[r] \in {"bind", "services", "release"} /\ r \in Engine!Importing
      /\ to = "start" => pc[r] = "bind"
  <2>1. pc[r] \in {"bind", "services", "release"} BY DEF Engine!Bind, Engine!StartServices,
                                                         Engine!ReleaseControl
  <2>2. to = "start" => pc[r] = "bind"
    BY <1>1 DEF Engine!Bind, Engine!StartServices, Engine!ReleaseControl, Engine!Goes,
                EngineShapes
  <2> QED BY <2>1, <2>2 DEF WaysInv, Engine!Waiting, Activating
<1>3. reply' \in [Requests -> {"none", "ok", "error", "cancelled"}]
  BY DEF Engine!Bind, Engine!StartServices, Engine!ReleaseControl, Engine!Ends, EngineShapes
<1>4. nonCancelable' \subseteq active
  BY <1>2 DEF Engine!Bind, Engine!StartServices, Engine!ReleaseControl, Engine!requests, FramesInv
<1>5. /\ FramesInv' /\ QueueInv' /\ pc' \in [Requests -> Places] /\ pc'[r] = to
      /\ \A s \in Requests : s # r => pc'[s] = pc[s]
  BY <1>0, <1>1, <1>2, <1>4, HandlerFrame DEF Places, Engine!Waiting
<1>6. /\ controls' \in [Engine!Imports -> Engine!Importing \cup {None}]
      /\ \A j \in Engine!Imports : controls'[j] = controls[j] \/ controls[j] = r
  BY DEF Engine!Bind, Engine!StartServices, Engine!ReleaseControl, EngineShapes
<1>7. EngineShapes' BY <1>0, <1>3, <1>5, <1>6 DEF EngineShapes, Engine!transition,
                                                  Engine!workspace
<1>8. WaysInv' BY <1>1, <1>2, <1>5 DEF WaysInv, Leased
<1>9. LockInv' /\ LeasesInv'
  BY <1>0, <1>1, <1>2, WorkspaceFrame DEF Engine!transition, Engine!workspace, Places, Leased,
                                          Locked, Activating
<1>10. JobsInv'
  <2>1. \A s \in Engine!Importing : pc'[s] \in Engine!AtWork <=> pc[s] \in Engine!AtWork
    BY <1>1, <1>2, <1>5, ImportFacts DEF Engine!AtWork
  <2>2. \A s \in Engine!Importing : pc'[s] = "stage" => controls'[Engine!JobOf(s)] = s
    BY <1>1, <1>2, <1>5, <1>6, ImportFacts DEF JobsInv
  <2>3. \A s \in Engine!Imports :
            pc'[s] \in {"unsent", "queued", "admit", "bind", "start"} => job[s].status = "none"
    BY <1>1, <1>2, <1>5, ImportFacts DEF JobsInv
  <2> QED BY <1>0, <2>1, <2>2, <2>3 DEF JobsInv, Engine!workspace
<1> QED BY <1>5, <1>7, <1>8, <1>9, <1>10

\* The end of import_job: the lease is returned.
LEMMA ReturnLeaseOk ==
  ASSUME Engine!EngineAssumption, EngineIInv, NEW r \in Requests, Engine!ReturnLease(r)
  PROVE  EngineIInv'
<1> USE DEF EngineIInv
<1>0. /\ pc[r] = "leave" /\ Engine!Goes(r, "reply") /\ leases' = leases \ {r}
      /\ UNCHANGED <<Engine!frames, Engine!requests, bound, found, reply, transitioning, paused,
                     stopped,
                     controls, Engine!workspace, job, changed, plan>>
  BY DEF Engine!ReturnLease
<1>1. r \in Engine!Importing BY <1>0 DEF WaysInv, Engine!Waiting, Activating
<1>2. /\ FramesInv' /\ QueueInv' /\ pc' \in [Requests -> Places] /\ pc'[r] = "reply"
      /\ \A s \in Requests : s # r => pc'[s] = pc[s]
  BY <1>0, HandlerFrame DEF Engine!requests, Places, Engine!Waiting, FramesInv
<1>3. EngineShapes' BY <1>0, <1>2 DEF EngineShapes, Engine!workspace
<1>4. WaysInv' BY <1>2 DEF WaysInv
<1>5. LockInv' BY <1>0, <1>1, <1>2, ImportFacts DEF LockInv, Engine!workspace, Locked
<1>6. LeasesInv'
  <2>1. leases' = {s \in Engine!Importing : pc'[s] \in Leased}
    BY <1>0, <1>2, ImportFacts DEF LeasesInv, Leased
  <2>2. leases' \subseteq leases BY <1>0
  <2> QED BY <1>0, <1>2, <2>1, <2>2, ImportFacts DEF LeasesInv, Engine!workspace
<1>7. JobsInv' BY <1>0, JobsFrame DEF Engine!workspace, Places, Engine!AtWork
<1> QED BY <1>2, <1>3, <1>4, <1>5, <1>6, <1>7

\* An import that is at work or leaves it has a lease, and nobody else is at work on its job.
LEMMA AtWorkFacts ==
  ASSUME Engine!EngineAssumption, EngineIInv, NEW r \in Requests, pc[r] \in Engine!AtWork
  PROVE  /\ r \in Engine!Importing /\ Engine!JobOf(r) \in Engine!Imports
         /\ job[Engine!JobOf(r)].status = "running" /\ job[Engine!JobOf(r)].kb = bound[r]
         /\ \A s \in Engine!Importing : pc[s] \in Engine!AtWork /\ Engine!JobOf(s) = Engine!JobOf(r) => s = r
<1>1. r \in Engine!Importing
  BY DEF EngineIInv, WaysInv, Engine!Waiting, Engine!AtWork, Activating
<1> QED BY <1>1, ImportFacts DEF EngineIInv, JobsInv

\* import_text and resume_text: an import gets its lock and its job, unless the job is not one
\* that can be resumed.
LEMMA StartOk ==
  ASSUME Engine!EngineAssumption, EngineIInv, NEW r \in Requests, Engine!Start(r)
  PROVE  EngineIInv'
<1> USE DEF EngineIInv
<1> DEFINE j == Engine!JobOf(r)
<1>0. /\ pc[r] = "start"
      /\ UNCHANGED <<Engine!frames, Engine!requests, bound, found, Engine!transition, controls,
                     lock, kb, plan>>
  BY DEF Engine!Start
<1>1. r \in Engine!Importing /\ j \in Engine!Imports /\ job[j] \in JobRows
  BY <1>0, ImportFacts DEF WaysInv, Engine!Waiting, Activating
<1>2. PICK to \in {"first", "release"} :
          /\ Engine!Goes(r, to)
          /\ to = "first" =>
                 /\ Method[r] = "import" \/ job[j].status \in {"paused", "recoverable"}
                 /\ job' = [job EXCEPT ![j] = [status |-> "running", kb |-> bound[r],
                                               stage |-> @.stage]]
                 /\ activity' = activity \cup {r} /\ changed' = changed \cup {r}
                 /\ UNCHANGED reply
          /\ to = "release" =>
                 UNCHANGED <<job, activity, changed>> /\ reply' = [reply EXCEPT ![r] = "error"]
  BY DEF Engine!Start, Engine!Ends
<1>3. /\ FramesInv' /\ QueueInv' /\ pc' \in [Requests -> Places] /\ pc'[r] = to
      /\ \A s \in Requests : s # r => pc'[s] = pc[s]
  BY <1>0, <1>2, HandlerFrame DEF Engine!requests, Places, Engine!Waiting, FramesInv
<1> HIDE DEF j
<1>4. /\ job' \in [Engine!Imports -> JobRows]
      /\ \A i \in Engine!Imports : i # j => job'[i] = job[i]
      /\ to = "first" => job'[j].status = "running" /\ job'[j].kb = bound[r]
  <2>1. bound[r] \in KnowledgeBases \cup {None} /\ job[j].stage \in Nat
    BY <1>1 DEF EngineShapes, JobRows
  <2>2. [status |-> "running", kb |-> bound[r], stage |-> job[j].stage] \in JobRows
    BY <2>1 DEF JobRows
  <2> QED BY <1>1, <1>2, <2>2 DEF EngineShapes
<1>5. EngineShapes' BY <1>0, <1>2, <1>3, <1>4 DEF EngineShapes, Engine!transition
<1>6. WaysInv' BY <1>1, <1>2, <1>3 DEF WaysInv, Leased
<1>7. LockInv' /\ LeasesInv'
  BY <1>0, <1>2, WorkspaceFrame DEF Engine!transition, Places, Leased, Locked, Activating
<1>8. JobsInv'
  <2>1. CASE to = "release"
    BY <1>0, <1>2, <2>1, JobsFrame DEF Places, Engine!AtWork
  <2>2. CASE to = "first"
    <3>1. job[j].status # "running"
      <4>1. CASE Method[r] = "import"
        <5>1. r \in Engine!Imports /\ j = r BY <4>1 DEF Engine!Imports, Engine!JobOf, j
        <5> QED BY <1>0, <5>1 DEF JobsInv
      <4>2. CASE job[j].status \in {"paused", "recoverable"} BY <4>2
      <4> QED BY <1>2, <2>2, <4>1, <4>2
    <3>2. \A s \in Engine!Importing : pc[s] \in Engine!AtWork => Engine!JobOf(s) # j
      BY <3>1 DEF JobsInv
    <3>3. \A s \in Engine!Importing : pc'[s] \in Engine!AtWork <=> pc[s] \in Engine!AtWork \/ s = r
      BY <1>3, <2>2, ImportFacts DEF Engine!AtWork
    <3>4. activity' = {s \in Engine!Importing : pc'[s] \in Engine!AtWork}
      BY <1>1, <1>2, <2>2, <3>3 DEF JobsInv
    <3>5. \A s \in Engine!Importing : pc'[s] \in Engine!AtWork =>
              job'[Engine!JobOf(s)].status = "running" /\ job'[Engine!JobOf(s)].kb = bound'[s]
      BY <1>0, <1>4, <2>2, <3>2, <3>3, ImportFacts DEF JobsInv, j
    <3>6. \A i \in Engine!Imports : job'[i].status = "running" =>
              \E s \in Engine!Importing : Engine!JobOf(s) = i /\ pc'[s] \in Engine!AtWork
      BY <1>1, <1>4, <3>3 DEF JobsInv, j
    <3>7. \A s, u \in Engine!Importing :
              pc'[s] \in Engine!AtWork /\ pc'[u] \in Engine!AtWork /\ Engine!JobOf(s) = Engine!JobOf(u) => s = u
      BY <3>2, <3>3 DEF JobsInv, j
    <3>8. \A s \in Engine!Importing : pc'[s] = "stage" => controls'[Engine!JobOf(s)] = s
      BY <1>0, <1>3, <2>2, ImportFacts DEF JobsInv
    <3>9. \A s \in Engine!Imports :
              pc'[s] \in {"unsent", "queued", "admit", "bind", "start"} => job'[s].status = "none"
      <4>1. ASSUME NEW s \in Engine!Imports, pc'[s] \in {"unsent", "queued", "admit", "bind", "start"}
            PROVE job'[s].status = "none"
        <5>1. s # r /\ pc'[s] = pc[s] BY <1>3, <2>2, <4>1, ImportFacts
        <5>2. job[s].status = "none" BY <4>1, <5>1 DEF JobsInv
        <5>3. s # j
          <6>1. CASE Method[r] = "import" BY <5>1, <6>1 DEF j, Engine!JobOf
          <6>2. CASE job[j].status \in {"paused", "recoverable"} BY <5>2, <6>2
          <6> QED BY <1>2, <2>2, <6>1, <6>2
        <5> QED BY <1>4, <5>2, <5>3
      <4> QED BY <4>1
    <3> QED BY <3>4, <3>5, <3>6, <3>7, <3>8, <3>9 DEF JobsInv
  <2> QED BY <1>2, <2>1, <2>2
<1> QED BY <1>3, <1>5, <1>6, <1>7, <1>8

\* A stage is recorded, or the import leaves its work: its job is then not running any more
\* (_record_import_stage, _honor_control).
LEMMA StageOk ==
  ASSUME Engine!EngineAssumption, EngineIInv, NEW r \in Requests,
         Engine!Stage(r) \/ Engine!HonorControl(r) \/ Engine!FailStage(r)
  PROVE  EngineIInv'
<1> USE DEF EngineIInv
<1> DEFINE j == Engine!JobOf(r)
<1>0. /\ pc[r] \in Engine!AtWork /\ controls' = [controls EXCEPT ![j] = r]
      /\ UNCHANGED <<Engine!frames, Engine!requests, bound, found, Engine!transition, lock, kb,
                     changed, plan>>
  BY DEF Engine!Stage, Engine!HonorControl, Engine!FailStage, Engine!Recorded
<1>1. /\ r \in Engine!Importing /\ j \in Engine!Imports /\ job[j] \in JobRows
      /\ job[j].status = "running" /\ job[j].kb = bound[r]
      /\ \A s \in Engine!Importing : pc[s] \in Engine!AtWork /\ Engine!JobOf(s) = j => s = r
  BY <1>0, AtWorkFacts, ImportFacts
<1>2. PICK to \in {"stage", "services", "release"},
           status \in {"running", "completed", "cancelled", "paused", "failed"}, stage \in Nat :
          /\ Engine!Goes(r, to) /\ (to = "stage" <=> status = "running")
          /\ activity' = IF to = "stage" THEN activity ELSE activity \ {r}
          /\ job' = [job EXCEPT ![j] = [status |-> status, kb |-> job[j].kb, stage |-> stage]]
          /\ reply' \in [Requests -> {"none", "ok", "error", "cancelled"}]
  <2>0. job[j] = [status |-> "running", kb |-> job[j].kb, stage |-> job[j].stage]
        /\ job[j].stage \in Nat
    BY <1>1 DEF JobRows
  <2>1. CASE Engine!Stage(r)
    <3> DEFINE last == job[j].stage + 1 = MaxStages
    <3>1. job' = [job EXCEPT ![j] = [status |-> IF last THEN "completed" ELSE @.status,
                                     kb |-> @.kb, stage |-> @.stage + 1]]
      BY <2>1 DEF Engine!Stage
    <3>2. /\ last => Engine!Ends(r, "services", "ok") /\ activity' = activity \ {r}
          /\ ~last => Engine!Goes(r, "stage") /\ UNCHANGED <<reply, activity>>
      BY <2>1 DEF Engine!Stage
    <3> HIDE DEF j, last
    <3>3. job' = [job EXCEPT ![j] = [status |-> IF last THEN "completed" ELSE "running",
                                     kb |-> job[j].kb, stage |-> job[j].stage + 1]]
      <4>1. job[j].status = "running" BY <1>1 DEF j
      <4> QED BY <3>1, <4>1
    <3>4. job[j].stage + 1 \in Nat BY <2>0
    <3>5. CASE last BY <3>2, <3>3, <3>4, <3>5 DEF Engine!Ends, EngineShapes
    <3>6. CASE ~last BY <3>2, <3>3, <3>4, <3>6 DEF Engine!Ends, EngineShapes
    <3> QED BY <3>5, <3>6
  <2>2. CASE Engine!HonorControl(r) \/ Engine!FailStage(r)
    <3>1. PICK status \in {"cancelled", "paused", "failed"} : job' = [job EXCEPT ![j].status = status]
      BY <2>2 DEF Engine!HonorControl, Engine!FailStage
    <3>2. activity' = activity \ {r} /\ Engine!Ends(r, "release", "error")
      BY <2>2 DEF Engine!HonorControl, Engine!FailStage
    <3> HIDE DEF j
    <3>3. job' = [job EXCEPT ![j] = [status |-> status, kb |-> job[j].kb, stage |-> job[j].stage]]
      <4>1. [job[j] EXCEPT !.status = status]
                = [status |-> status, kb |-> job[j].kb, stage |-> job[j].stage]
        BY <2>0
      <4> QED BY <3>1, <4>1
    <3>4. Engine!Goes(r, "release") /\ reply' \in [Requests -> {"none", "ok", "error", "cancelled"}]
      BY <3>2 DEF Engine!Ends, EngineShapes
    <3>5. activity' = IF "release" = "stage" THEN activity ELSE activity \ {r} BY <3>2
    <3>6. "release" = "stage" <=> status = "running" OBVIOUS
    <3> QED BY <2>0, <3>3, <3>4, <3>5, <3>6
  <2> QED BY <2>1, <2>2
<1>3. /\ FramesInv' /\ QueueInv' /\ pc' \in [Requests -> Places] /\ pc'[r] = to
      /\ \A s \in Requests : s # r => pc'[s] = pc[s]
  BY <1>0, <1>2, HandlerFrame DEF Engine!requests, Places, Engine!Waiting, FramesInv,
                                  Engine!AtWork
<1> HIDE DEF j
<1>4. /\ job' \in [Engine!Imports -> JobRows]
      /\ \A i \in Engine!Imports : i # j => job'[i] = job[i]
      /\ job'[j].status = status /\ job'[j].kb = bound[r]
  <2>1. [status |-> status, kb |-> job[j].kb, stage |-> stage] \in JobRows
    BY <1>1 DEF JobRows
  <2> QED BY <1>1, <1>2, <2>1 DEF EngineShapes
<1>5. EngineShapes' BY <1>0, <1>1, <1>2, <1>3, <1>4 DEF EngineShapes, Engine!transition
<1>6. WaysInv' BY <1>1, <1>2, <1>3 DEF WaysInv, Leased
<1>7. LockInv' /\ LeasesInv'
  BY <1>0, <1>2, WorkspaceFrame DEF Engine!transition, Places, Leased, Locked, Activating,
                                    Engine!AtWork
<1>8. JobsInv'
  <2>1. \A s \in Engine!Importing : pc'[s] \in Engine!AtWork <=> pc[s] \in Engine!AtWork /\ (s = r => to = "stage")
    BY <1>0, <1>2, <1>3, ImportFacts DEF Engine!AtWork
  <2>2. activity' = {s \in Engine!Importing : pc'[s] \in Engine!AtWork}
    BY <1>0, <1>1, <1>2, <2>1 DEF JobsInv
  <2>3. \A s \in Engine!Importing : pc'[s] \in Engine!AtWork =>
            job'[Engine!JobOf(s)].status = "running" /\ job'[Engine!JobOf(s)].kb = bound'[s]
    <3>1. ASSUME NEW s \in Engine!Importing, pc'[s] \in Engine!AtWork
          PROVE job'[Engine!JobOf(s)].status = "running" /\ job'[Engine!JobOf(s)].kb = bound[s]
      <4>1. CASE s = r BY <1>2, <1>4, <2>1, <3>1, <4>1 DEF j
      <4>2. CASE s # r
        <5>1. Engine!JobOf(s) \in Engine!Imports /\ Engine!JobOf(s) # j BY <1>1, <2>1, <3>1,
                                                                           <4>2, ImportFacts
        <5> QED BY <1>4, <2>1, <3>1, <5>1 DEF JobsInv
      <4> QED BY <4>1, <4>2
    <3> QED BY <1>0, <3>1
  <2>4. \A i \in Engine!Imports : job'[i].status = "running" =>
            \E s \in Engine!Importing : Engine!JobOf(s) = i /\ pc'[s] \in Engine!AtWork
    <3>1. ASSUME NEW i \in Engine!Imports, job'[i].status = "running"
          PROVE \E s \in Engine!Importing : Engine!JobOf(s) = i /\ pc'[s] \in Engine!AtWork
      <4>1. CASE i = j BY <1>0, <1>1, <1>2, <1>4, <2>1, <3>1, <4>1 DEF j
      <4>2. CASE i # j
        <5>1. PICK s \in Engine!Importing : Engine!JobOf(s) = i /\ pc[s] \in Engine!AtWork
          BY <1>4, <3>1, <4>2 DEF JobsInv
        <5>2. s # r BY <4>2, <5>1 DEF j
        <5> QED BY <2>1, <5>1, <5>2
      <4> QED BY <4>1, <4>2
    <3> QED BY <3>1
  <2>5. \A s, u \in Engine!Importing :
            pc'[s] \in Engine!AtWork /\ pc'[u] \in Engine!AtWork /\ Engine!JobOf(s) = Engine!JobOf(u) => s = u
    BY <2>1 DEF JobsInv
  <2>6. \A s \in Engine!Importing : pc'[s] = "stage" => controls'[Engine!JobOf(s)] = s
    <3>1. ASSUME NEW s \in Engine!Importing, pc'[s] = "stage" PROVE controls'[Engine!JobOf(s)] = s
      <4>1. CASE s = r BY <1>0, <1>1, <4>1 DEF EngineShapes, j
      <4>2. CASE s # r
        <5>1. pc[s] = "stage" /\ Engine!JobOf(s) \in Engine!Imports BY <1>3, <3>1, <4>2,
                                                                       ImportFacts
        <5>2. Engine!JobOf(s) # j BY <1>1, <4>2, <5>1 DEF Engine!AtWork
        <5> QED BY <1>0, <5>1, <5>2 DEF JobsInv, EngineShapes, j
      <4> QED BY <4>1, <4>2
    <3> QED BY <3>1
  <2>7. \A s \in Engine!Imports :
            pc'[s] \in {"unsent", "queued", "admit", "bind", "start"} => job'[s].status = "none"
    BY <1>1, <1>2, <1>3, <1>4, ImportFacts DEF JobsInv
  <2> QED BY <2>2, <2>3, <2>4, <2>5, <2>6, <2>7 DEF JobsInv
<1> QED BY <1>3, <1>5, <1>6, <1>7, <1>8

-----------------------------------------------------------------------------
(* Activations, and requests that change the workspace.                    *)

\* activation: admission is closed, and the imports of another knowledge base are drained.
LEMMA DrainOk ==
  ASSUME Engine!EngineAssumption, EngineIInv, NEW r \in Requests,
         Engine!CloseAdmission(r) \/ Engine!Drain(r)
  PROVE  EngineIInv'
<1> USE DEF EngineIInv
<1>0. UNCHANGED <<Engine!frames, Engine!requests, bound, found, reply, leases, stopped, controls,
                  Engine!workspace, job,
                  changed, plan>>
  BY DEF Engine!CloseAdmission, Engine!Drain, Engine!transition
<1>1. PICK to \in {"drain", "lock"} :
          /\ Engine!Goes(r, to)
          /\ to = "drain" => pc[r] = "admit" /\ r \in Engine!Opening /\ ~transitioning /\ transitioning' = TRUE
          /\ to = "lock" => /\ pc[r] = "drain" /\ (kb # Param[r] => Engine!LeasesOf(kb) = {})
                            /\ UNCHANGED transitioning
  BY DEF Engine!CloseAdmission, Engine!Drain, Engine!transition
<1>2. r \in Engine!Opening
  BY <1>1 DEF WaysInv, Engine!Waiting, Leased
<1>3. /\ FramesInv' /\ QueueInv' /\ pc' \in [Requests -> Places] /\ pc'[r] = to
      /\ \A s \in Requests : s # r => pc'[s] = pc[s]
  BY <1>0, <1>1, HandlerFrame DEF Engine!requests, Places, Engine!Waiting, FramesInv
<1>4. EngineShapes' BY <1>0, <1>1, <1>3 DEF EngineShapes, Engine!workspace
<1>5. WaysInv' BY <1>1, <1>2, <1>3 DEF WaysInv, Activating
<1>6. LockInv'
  <2>1. \A s \in Engine!Opening : pc[s] \in Activating => to = "lock"
    BY <1>1 DEF LockInv
  <2>2. \A s \in Engine!Opening : pc'[s] \in Activating => transitioning'
    BY <1>1, <1>3, ImportFacts DEF LockInv, Activating
  <2>3. \A s, u \in Engine!Opening : pc'[s] \in Activating /\ pc'[u] \in Activating => s = u
    <3>1. ASSUME NEW s \in Engine!Opening, s # r, pc'[s] \in Activating PROVE FALSE
      <4>1. pc[s] \in Activating BY <1>3, <3>1, ImportFacts
      <4>2. to = "lock" BY <2>1, <4>1
      <4>3. pc[r] \in Activating BY <1>1, <4>2 DEF Activating
      <4> QED BY <1>2, <3>1, <4>1, <4>3 DEF LockInv
    <3> QED BY <3>1
  <2>4. \A s \in Requests : pc'[s] \in Locked <=> lock' = s
    BY <1>0, <1>1, <1>3, ImportFacts DEF LockInv, Engine!workspace, Locked
  <2> QED BY <2>2, <2>3, <2>4 DEF LockInv
<1>7. LeasesInv'
  <2>1. leases' = {s \in Engine!Importing : pc'[s] \in Leased}
    BY <1>0, <1>1, <1>2, <1>3, ImportFacts DEF LeasesInv
  <2>2. /\ \A s \in leases' : bound'[s] = kb'
        /\ \A s \in Requests : pc'[s] \in {"begin", "load", "commit"} => bound'[s] = kb'
    BY <1>0, <1>1, <1>3 DEF LeasesInv, Engine!workspace
  <2>3. to = "lock" /\ kb # Param[r] => leases = {}
    BY <1>1 DEF LeasesInv, Engine!LeasesOf
  <2>4. \A s \in Engine!Opening :
            /\ pc'[s] = "lock" /\ kb # Param[s] => leases = {}
            /\ pc'[s] \in {"begin", "load", "recover"} /\ bound[s] # Param[s] => leases = {}
            /\ pc'[s] = "recover" => kb = Param[s]
    BY <1>1, <1>3, <2>3, ImportFacts DEF LeasesInv
  <2> QED BY <1>0, <2>1, <2>2, <2>4 DEF LeasesInv, Engine!workspace
<1>8. JobsInv' BY <1>0, <1>1, JobsFrame DEF Engine!workspace, Places, Engine!AtWork
<1> QED BY <1>3, <1>4, <1>5, <1>6, <1>7, <1>8

\* The lock of the workspace is taken, and with it the knowledge base that is bound is read.
LEMMA TakeLockOk ==
  ASSUME Engine!EngineAssumption, EngineIInv, NEW r \in Requests, Engine!TakeLock(r)
  PROVE  EngineIInv'
<1> USE DEF EngineIInv
<1>0. /\ pc[r] = "lock" /\ lock \in {None, r} /\ lock' = r
      /\ bound' = [bound EXCEPT ![r] = kb] /\ Engine!Goes(r, "begin")
      /\ UNCHANGED <<Engine!frames, Engine!requests, found, reply, Engine!transition, controls,
                     activity, kb, job,
                     changed, plan>>
  BY DEF Engine!TakeLock
<1>1. r \notin Engine!Importing
  BY <1>0 DEF WaysInv, Engine!Waiting, Leased, Engine!Importing, Engine!Opening
<1>2. /\ FramesInv' /\ QueueInv' /\ pc' \in [Requests -> Places] /\ pc'[r] = "begin"
      /\ \A s \in Requests : s # r => pc'[s] = pc[s]
  BY <1>0, HandlerFrame DEF Engine!requests, Places, Engine!Waiting, FramesInv
<1>3. /\ bound' \in [Requests -> KnowledgeBases \cup {None}] /\ bound'[r] = kb
      /\ \A s \in Requests : s # r => bound'[s] = bound[s]
  BY <1>0 DEF EngineShapes
<1>4. EngineShapes' BY <1>0, <1>2, <1>3 DEF EngineShapes, Engine!transition
<1>5. WaysInv' BY <1>0, <1>2 DEF WaysInv, Engine!Waiting, Leased, Activating
<1>6. lock = None
  BY <1>0, ImportFacts DEF LockInv, Locked
<1>7. LockInv'
  BY <1>0, <1>2, <1>6, ImportFacts DEF LockInv, Locked, Activating, Engine!transition
<1>8. LeasesInv'
  <2>1. leases' = {s \in Engine!Importing : pc'[s] \in Leased}
    BY <1>0, <1>1, <1>2, ImportFacts DEF LeasesInv, Engine!transition
  <2>2. \A s \in leases' : bound'[s] = kb'
    BY <1>0, <1>1, <1>3, ImportFacts DEF LeasesInv, Engine!transition
  <2>3. \A s \in Requests : pc'[s] \in {"begin", "load", "commit"} => bound'[s] = kb'
    BY <1>0, <1>2, <1>3 DEF LeasesInv
  <2>4. \A s \in Engine!Opening :
            /\ pc'[s] = "lock" /\ kb' # Param[s] => leases' = {}
            /\ pc'[s] \in {"begin", "load", "recover"} /\ bound'[s] # Param[s] => leases' = {}
            /\ pc'[s] = "recover" => kb' = Param[s]
    BY <1>0, <1>2, <1>3, ImportFacts DEF LeasesInv, Engine!transition
  <2> QED BY <2>1, <2>2, <2>3, <2>4 DEF LeasesInv
<1>9. JobsInv'
  <2>1. \A s \in Requests : pc[s] \in Engine!AtWork => bound'[s] = bound[s] BY <1>0, <1>3
                                                                            DEF Engine!AtWork
  <2> QED BY <1>0, <2>1, JobsFrame DEF Places, Engine!AtWork
<1> QED BY <1>2, <1>4, <1>5, <1>7, <1>8, <1>9

\* Under the lock: what is bound and what is held stays (_begin_workspace_mutation, a load that
\* fails, the change of a request on the workspace).
LEMMA UnderLockOk ==
  ASSUME Engine!EngineAssumption, EngineIInv, NEW r \in Requests,
         Engine!Begin(r) \/ Engine!LoadFails(r) \/ Engine!Commit(r)
  PROVE  EngineIInv'
<1> USE DEF EngineIInv
<1>0. UNCHANGED <<Engine!frames, active, cancelled, queue, bound, found, Engine!transition,
                  controls, Engine!workspace,
                  job, plan>>
  BY DEF Engine!Begin, Engine!LoadFails, Engine!Commit, Engine!requests
<1>1. PICK to \in {"unlock", "load", "commit"} : Engine!Goes(r, to)
  BY DEF Engine!Begin, Engine!LoadFails, Engine!Commit, Engine!Ends
<1>2. /\ pc[r] \in {"begin", "load", "commit"}
      /\ to \in {"load", "commit"} => pc[r] = "begin"
      /\ to = "load" => r \in Engine!Opening
      /\ to = "commit" => r \notin Engine!Opening
  <2>1. pc[r] \in {"begin", "load", "commit"} BY DEF Engine!Begin, Engine!LoadFails, Engine!Commit
  <2>2. pc'[r] = to BY <1>1 DEF Engine!Goes, EngineShapes
  <2>3. Engine!Begin(r) => /\ pc[r] = "begin"
                           /\ pc'[r] = "unlock" \/ pc'[r] = (IF r \in Engine!Opening THEN "load" ELSE "commit")
    BY DEF Engine!Begin, Engine!Goes, Engine!Ends, EngineShapes
  <2>4. Engine!LoadFails(r) \/ Engine!Commit(r) => pc'[r] = "unlock"
    BY DEF Engine!LoadFails, Engine!Commit, Engine!Goes, Engine!Ends, EngineShapes
  <2> QED BY <2>1, <2>2, <2>3, <2>4
<1>3. r \notin Engine!Importing
      /\ (r \in Engine!Opening \/ Method[r] = "page")
  BY <1>2 DEF WaysInv, Engine!Waiting, Leased, Engine!Importing, Engine!Opening
<1>4. /\ reply' \in [Requests -> {"none", "ok", "error", "cancelled"}]
      /\ changed' \subseteq Requests
  BY DEF Engine!Begin, Engine!LoadFails, Engine!Commit, Engine!Ends, EngineShapes
<1>5. nonCancelable' \subseteq active
  BY <1>2 DEF Engine!Begin, Engine!LoadFails, Engine!Commit, Engine!requests, FramesInv,
              Engine!Waiting
<1>6. /\ FramesInv' /\ QueueInv' /\ pc' \in [Requests -> Places] /\ pc'[r] = to
      /\ \A s \in Requests : s # r => pc'[s] = pc[s]
  BY <1>0, <1>1, <1>2, <1>5, HandlerFrame DEF Places, Engine!Waiting
<1>7. EngineShapes' BY <1>0, <1>4, <1>6 DEF EngineShapes, Engine!transition, Engine!workspace
<1>8. WaysInv'
  <2>1. \/ to \in {"load", "unlock"} /\ r \in Engine!Opening
        \/ to \in {"commit", "unlock"} /\ Method[r] = "page"
    <3>1. CASE r \in Engine!Opening BY <1>1, <1>2, <3>1
    <3>2. CASE r \notin Engine!Opening BY <1>1, <1>2, <1>3, <3>2
    <3> QED BY <3>1, <3>2
  <2> QED BY <1>6, <2>1 DEF WaysInv, Activating
<1>9. LockInv'
  <2>1. \A s \in Requests : pc'[s] \in Locked <=> lock' = s
    BY <1>0, <1>1, <1>2, <1>6 DEF LockInv, Locked, Engine!workspace
  <2>2. \A s \in Engine!Opening : pc'[s] \in Activating => pc[s] \in Activating
    <3>1. r \in Engine!Opening => pc[r] \in Activating
      BY <1>2, <1>3 DEF WaysInv, Engine!Waiting, Engine!Opening, Activating
    <3> QED BY <1>6, <3>1, ImportFacts
  <2> QED BY <1>0, <2>1, <2>2 DEF LockInv, Engine!transition
<1>10. LeasesInv'
  <2>1. leases' = {s \in Engine!Importing : pc'[s] \in Leased}
    BY <1>0, <1>3, <1>6, ImportFacts DEF LeasesInv, Engine!transition
  <2>2. /\ \A s \in leases' : bound'[s] = kb'
        /\ \A s \in Requests : pc'[s] \in {"begin", "load", "commit"} => bound'[s] = kb'
    BY <1>0, <1>1, <1>2, <1>6 DEF LeasesInv, Engine!transition, Engine!workspace
  <2>3. \A s \in Engine!Opening :
            /\ pc'[s] = "lock" /\ kb' # Param[s] => leases' = {}
            /\ pc'[s] \in {"begin", "load", "recover"} /\ bound'[s] # Param[s] => leases' = {}
            /\ pc'[s] = "recover" => kb' = Param[s]
    BY <1>0, <1>1, <1>2, <1>6, ImportFacts DEF LeasesInv, Engine!transition, Engine!workspace
  <2> QED BY <2>1, <2>2, <2>3 DEF LeasesInv
<1>11. JobsInv' BY <1>0, <1>1, <1>2, JobsFrame DEF Engine!workspace, Places, Engine!AtWork
<1> QED BY <1>6, <1>7, <1>8, <1>9, <1>10, <1>11

\* _activate: another knowledge base is bound, or the old one again; no lease is on any other.
LEMMA BindingOk ==
  ASSUME Engine!EngineAssumption, EngineIInv, NEW r \in Requests,
         Engine!Load(r) \/ Engine!Recover(r)
  PROVE  EngineIInv'
<1> USE DEF EngineIInv
<1>0. UNCHANGED <<Engine!frames, Engine!requests, bound, found, Engine!transition, controls,
                  lock, activity, plan>>
  BY DEF Engine!Load, Engine!Recover
<1>1. PICK to \in {"recover", "unlock"} :
          /\ Engine!Goes(r, to)
          /\ to = "recover" => pc[r] = "load" /\ kb' = Param[r]
          /\ to = "unlock" => pc[r] = "recover" /\ kb' \in {kb, bound[r]} /\ UNCHANGED job
  BY DEF Engine!Load, Engine!Recover, Engine!Ends
<1>2. r \in Engine!Opening /\ r \notin Engine!Importing /\ Param[r] \in KnowledgeBases
  BY <1>1, ImportFacts DEF WaysInv, Engine!Waiting, Leased, Engine!EngineAssumption
<1>3. /\ reply' \in [Requests -> {"none", "ok", "error", "cancelled"}]
      /\ changed' \subseteq Requests
  BY DEF Engine!Load, Engine!Recover, Engine!Ends, EngineShapes
<1>4. /\ FramesInv' /\ QueueInv' /\ pc' \in [Requests -> Places] /\ pc'[r] = to
      /\ \A s \in Requests : s # r => pc'[s] = pc[s]
  BY <1>0, <1>1, HandlerFrame DEF Engine!requests, Places, Engine!Waiting, FramesInv
<1>5. leases # {} => kb' = kb
  <2>1. ASSUME leases # {} PROVE kb' = kb
    <3>1. pc[r] \in {"load", "recover"} BY <1>1
    <3>2. bound[r] = Param[r] BY <1>2, <2>1, <3>1 DEF LeasesInv
    <3>3. CASE to = "recover" BY <1>1, <1>2, <3>2, <3>3 DEF LeasesInv
    <3>4. CASE to = "unlock" BY <1>1, <1>2, <3>2, <3>4 DEF LeasesInv
    <3> QED BY <1>1, <3>3, <3>4
  <2> QED BY <2>1
<1>6. UNCHANGED job
  <2>1. CASE to = "unlock" BY <1>1, <2>1
  <2>2. CASE to = "recover"
    <3>1. /\ \A i \in activity : bound[i] # Param[r]
          /\ job' = Engine!Recoverable(Param[r])
      <4>1. pc'[r] # "unlock" BY <1>4, <2>2
      <4>2. ~Engine!Recover(r) BY <4>1 DEF Engine!Recover, Engine!Ends, Engine!Goes, EngineShapes
      <4> QED BY <4>2 DEF Engine!Load
    <3>2. ASSUME NEW j \in Engine!Imports, job[j].status = "running", job[j].kb = Param[r] PROVE FALSE
      <4>1. PICK s \in Engine!Importing : Engine!JobOf(s) = j /\ pc[s] \in Engine!AtWork
        BY <3>2 DEF JobsInv
      <4>2. s \in activity /\ bound[s] = Param[r] BY <3>2, <4>1 DEF JobsInv
      <4> QED BY <3>1, <4>2
    <3>3. job' = [j \in Engine!Imports |-> job[j]] BY <3>1, <3>2 DEF Engine!Recoverable
    <3> QED BY <3>3 DEF EngineShapes
  <2> QED BY <1>1, <2>1, <2>2
<1>7. EngineShapes'
  <2>1. kb' \in KnowledgeBases \cup {None} BY <1>1, <1>2 DEF EngineShapes
  <2> QED BY <1>0, <1>3, <1>4, <1>6, <2>1 DEF EngineShapes, Engine!transition
<1>8. WaysInv' BY <1>1, <1>2, <1>4 DEF WaysInv, Activating
<1>9. LockInv'
  <2>1. \A s \in Requests : pc'[s] \in Locked <=> lock' = s
    BY <1>0, <1>1, <1>4 DEF LockInv, Locked
  <2>2. \A s \in Engine!Opening : pc'[s] \in Activating => pc[s] \in Activating
    BY <1>1, <1>4, ImportFacts DEF Activating
  <2> QED BY <1>0, <2>1, <2>2 DEF LockInv, Engine!transition
<1>10. LeasesInv'
  <2>1. leases' = {s \in Engine!Importing : pc'[s] \in Leased}
    BY <1>0, <1>2, <1>4, ImportFacts DEF LeasesInv, Engine!transition
  <2>2. \A s \in leases' : bound'[s] = kb' BY <1>0, <1>5 DEF LeasesInv, Engine!transition
  <2>3. \A s \in Requests : s # r => pc[s] \notin Locked
    BY <1>1 DEF LockInv, Locked
  <2>4. \A s \in Requests : pc'[s] \in {"begin", "load", "commit"} => bound'[s] = kb'
    BY <1>1, <1>4, <2>3 DEF Locked
  <2>5. \A s \in Engine!Opening : s # r => pc'[s] \notin Activating
    BY <1>1, <1>2, <1>4, ImportFacts DEF LockInv, Activating
  <2>6. /\ pc'[r] = "lock" /\ kb' # Param[r] => leases' = {}
        /\ pc'[r] \in {"begin", "load", "recover"} /\ bound'[r] # Param[r] => leases' = {}
        /\ pc'[r] = "recover" => kb' = Param[r]
    BY <1>0, <1>1, <1>2, <1>4 DEF LeasesInv, Engine!transition
  <2> QED BY <2>1, <2>2, <2>4, <2>5, <2>6 DEF LeasesInv, Activating
<1>11. JobsInv' BY <1>0, <1>1, <1>6, JobsFrame DEF Places, Engine!AtWork
<1> QED BY <1>4, <1>7, <1>8, <1>9, <1>10, <1>11

\* The end of activation: the lock is given back, and admission is open again.
LEMMA LeaveOk ==
  ASSUME Engine!EngineAssumption, EngineIInv, NEW r \in Requests,
         Engine!Unlock(r) \/ Engine!Readmit(r)
  PROVE  EngineIInv'
<1> USE DEF EngineIInv
<1>0. UNCHANGED <<Engine!frames, Engine!requests, bound, found, reply, leases, controls,
                  activity, kb, job,
                  changed, plan>>
  BY DEF Engine!Unlock, Engine!Readmit, Engine!transition, Engine!workspace
<1>1. PICK to \in {"readmit", "reply"} :
          /\ Engine!Goes(r, to)
          /\ \/ /\ pc[r] = "unlock" /\ lock' = None /\ UNCHANGED transitioning
                /\ to = IF r \in Engine!Opening THEN "readmit" ELSE "reply"
             \/ /\ pc[r] = "readmit" /\ UNCHANGED lock /\ transitioning' = FALSE
                /\ to = "reply"
  BY DEF Engine!Unlock, Engine!Readmit, Engine!transition, Engine!workspace
<1>2. r \notin Engine!Importing /\ (pc[r] = "readmit" => r \in Engine!Opening)
  BY <1>1, ImportFacts DEF WaysInv, Engine!Waiting, Leased, Engine!Importing
<1>3. /\ FramesInv' /\ QueueInv' /\ pc' \in [Requests -> Places] /\ pc'[r] = to
      /\ \A s \in Requests : s # r => pc'[s] = pc[s]
  BY <1>0, <1>1, HandlerFrame DEF Engine!requests, Places, Engine!Waiting, FramesInv
<1>4. EngineShapes' BY <1>0, <1>1, <1>3 DEF EngineShapes
<1>5. WaysInv' BY <1>1, <1>3 DEF WaysInv, Activating
<1>6. LockInv'
  <2>1. \A s \in Requests : pc'[s] \in Locked <=> lock' = s
    BY <1>1, <1>3, ImportFacts DEF LockInv, Locked
  <2>2. \A s \in Engine!Opening : pc'[s] \in Activating => pc[s] \in Activating
    BY <1>1, <1>3, ImportFacts DEF Activating
  <2>3. \A s \in Engine!Opening : pc'[s] \in Activating => transitioning'
    <3>1. CASE pc[r] = "readmit"
      <4>1. r \in Engine!Opening /\ pc[r] \in Activating /\ pc'[r] = "reply"
        BY <1>1, <1>2, <1>3, <3>1 DEF Activating
      <4>2. \A s \in Engine!Opening : pc'[s] \notin Activating
        BY <2>2, <4>1 DEF LockInv, Activating
      <4> QED BY <4>2
    <3>2. CASE pc[r] # "readmit" BY <1>1, <2>2, <3>2 DEF LockInv
    <3> QED BY <3>1, <3>2
  <2> QED BY <2>1, <2>2, <2>3 DEF LockInv
<1>7. LeasesInv'
  <2>1. leases' = {s \in Engine!Importing : pc'[s] \in Leased}
    BY <1>0, <1>2, <1>3, ImportFacts DEF LeasesInv
  <2> QED BY <1>0, <1>1, <1>3, <2>1, ImportFacts DEF LeasesInv
<1>8. JobsInv' BY <1>0, <1>1, JobsFrame DEF Places, Engine!AtWork
<1> QED BY <1>3, <1>4, <1>5, <1>6, <1>7, <1>8

-----------------------------------------------------------------------------
(* What the engine promises.                                               *)

\* At the start no request was sent and nothing is held.
LEMMA EngineInitOk ==
  ASSUME Engine!EngineAssumption, Engine!Init
  PROVE  EngineIInv
<1>1. EngineShapes BY DEF Engine!Init, EngineShapes, Engine!EngineAssumption, Places,
                          Engine!Waiting, JobRows, Engine!NoJob
<1>2. FramesInv BY DEF Engine!Init, FramesInv
<1>3. QueueInv
  <2>1. queue \in Seq(Requests) /\ Len(queue) = 0 BY EmptySeq DEF Engine!Init
  <2> QED BY <2>1 DEF QueueInv
<1>4. WaysInv BY DEF Engine!Init, WaysInv, Engine!Waiting
<1>5. LockInv BY DEF Engine!Init, LockInv, Locked, Activating, Engine!EngineAssumption,
                     Engine!Opening
<1>6. LeasesInv BY DEF Engine!Init, LeasesInv, Leased, Engine!Importing, Engine!Opening
<1>7. JobsInv BY DEF Engine!Init, JobsInv, Engine!AtWork, Engine!Importing, Engine!Imports,
                     Engine!NoJob
<1> QED BY <1>1, <1>2, <1>3, <1>4, <1>5, <1>6, <1>7 DEF EngineIInv

\* Every step of a handler and of the thread that reads frames keeps the invariant.
LEMMA EngineNextOk ==
  ASSUME Engine!EngineAssumption, EngineIInv, [Engine!Next]_(Engine!vars)
  PROVE  EngineIInv'
<1>1. ASSUME NEW r \in Requests, Engine!Send(r) PROVE EngineIInv' BY <1>1, SendOk
<1>2. ASSUME NEW r \in Requests, Engine!Handle(r) PROVE EngineIInv'
  BY <1>2, RequestsOk, AdmitOk, BetweenOk, ReturnLeaseOk, StartOk, StageOk, DrainOk, TakeLockOk,
     UnderLockOk, BindingOk, LeaveOk DEF Engine!Handle
<1>3. ASSUME (\E r \in Requests : Engine!FindCancellable(r)) \/ Engine!StopReading \/ Engine!Reading PROVE EngineIInv'
  BY <1>3, ReaderOk
<1>4. ASSUME Engine!Take PROVE EngineIInv' BY <1>4, TakeOk
<1>5. ASSUME UNCHANGED Engine!vars PROVE EngineIInv'
  BY <1>5 DEF Engine!vars, Engine!frames, Engine!requests, Engine!handlers, Engine!transition,
              Engine!workspace, EngineIInv, EngineShapes, FramesInv,
              QueueInv, WaysInv, LockInv, LeasesInv, JobsInv
<1> QED BY <1>1, <1>2, <1>3, <1>4, <1>5 DEF Engine!Next

\* Whatever is sent, switched, paused, cancelled or shut down, and whatever fails: leases, the
\* lock of the workspace and the jobs fit together (workspace/transition.py, engine/server.py).
THEOREM EngineInvariant ==
  ASSUME Engine!EngineAssumption
  PROVE  Engine!Spec => []EngineIInv
<1>1. Engine!Init => EngineIInv BY EngineInitOk
<1>2. EngineIInv /\ [Engine!Next]_(Engine!vars) => EngineIInv' BY EngineNextOk
<1> QED BY <1>1, <1>2, PTL DEF Engine!Spec

\* The cardinality of the instance is that of the library.
LEMMA SameCardinality ==
  ASSUME NEW S
  PROVE  Engine!Cardinality(S) = Cardinality(S)
BY DEF Engine!Cardinality, Cardinality

\* The parts of the invariant that the runs check.
LEMMA EngineMeans ==
  ASSUME Engine!EngineAssumption, EngineIInv
  PROVE  Engine!TypeOK /\ Engine!BindingIsStable /\ Engine!RunningImportHasItsControl
<1> USE DEF EngineIInv
<1>1. Engine!TypeOK
  <2>1. \A j \in Engine!Imports :
            job[j].status \in {"none", "running", "paused", "recoverable", "cancelled", "failed",
                               "completed"}
    BY DEF EngineShapes, JobRows
  <2>2. leases \subseteq Engine!Importing /\ activity \subseteq Engine!Importing
    BY DEF LeasesInv, JobsInv
  <2> QED BY <2>1, <2>2 DEF EngineShapes, FramesInv, Engine!TypeOK, Places
<1>2. Engine!BindingIsStable
  <2>1. ASSUME NEW j \in Engine!Imports, job[j].status = "running" PROVE job[j].kb = kb
    <3>1. PICK r \in Engine!Importing : Engine!JobOf(r) = j /\ pc[r] \in Engine!AtWork
      BY <2>1 DEF JobsInv
    <3>2. job[j].kb = bound[r] BY <3>1 DEF JobsInv
    <3>3. r \in leases BY <3>1 DEF LeasesInv, Engine!AtWork, Leased
    <3>4. bound[r] = kb BY <3>3 DEF LeasesInv
    <3> QED BY <3>2, <3>4
  <2> QED BY <2>1 DEF LeasesInv, Engine!BindingIsStable
<1>3. Engine!RunningImportHasItsControl
  <2>1. ASSUME NEW j \in Engine!Imports
        PROVE  job[j].status = "running" <=>
                   Engine!Cardinality({r \in Engine!Importing :
                                          Engine!JobOf(r) = j /\ pc[r] \in Engine!AtWork}) = 1
    <3> DEFINE Threads == {r \in Engine!Importing : Engine!JobOf(r) = j /\ pc[r] \in Engine!AtWork}
    <3>1. ASSUME job[j].status = "running" PROVE Cardinality(Threads) = 1
      <4>1. PICK r \in Engine!Importing : Engine!JobOf(r) = j /\ pc[r] \in Engine!AtWork
        BY <3>1 DEF JobsInv
      <4>2. Threads = {r} BY <4>1 DEF JobsInv
      <4> HIDE DEF Threads
      <4> QED BY <4>2, FS_Singleton
    <3>2. ASSUME Cardinality(Threads) = 1 PROVE job[j].status = "running"
      <4>1. Threads # {}
        <5> HIDE DEF Threads
        <5> QED BY <3>2, FS_EmptySet
      <4>2. PICK r \in Engine!Importing : Engine!JobOf(r) = j /\ pc[r] \in Engine!AtWork BY <4>1
      <4> QED BY <4>2 DEF JobsInv
    <3>3. Engine!Cardinality(Threads) = Cardinality(Threads)
      <4> HIDE DEF Threads
      <4> QED BY SameCardinality
    <3> QED BY <3>1, <3>2, <3>3
  <2> QED BY <2>1 DEF JobsInv, Engine!RunningImportHasItsControl
<1> QED BY <1>1, <1>2, <1>3

\* Every request, frame and row has a state that the code knows, and a request that is reported
\* as cancelled has its event set (_active_requests, _non_cancelable_mutations).
THEOREM EngineTypes ==
  ASSUME Engine!EngineAssumption
  PROVE  Engine!Spec => []Engine!TypeOK
<1>1. EngineIInv => Engine!TypeOK BY EngineMeans
<1> QED BY <1>1, EngineInvariant, PTL

\* Whoever works on a knowledge base finds it bound until the work is done, and no job of
\* another one is shown as running (WorkspaceTransition: imports are paused before rebinding).
THEOREM BindingStays ==
  ASSUME Engine!EngineAssumption
  PROVE  Engine!Spec => []Engine!BindingIsStable
<1>1. EngineIInv => Engine!BindingIsStable BY EngineMeans
<1> QED BY <1>1, EngineInvariant, PTL

\* A running job has one thread, and the control that the engine finds for it is the one that
\* thread honours (_record_import_stage, _release_import_control).
THEOREM ControlsAreHonoured ==
  ASSUME Engine!EngineAssumption
  PROVE  Engine!Spec => []Engine!RunningImportHasItsControl
<1>1. EngineIInv => Engine!RunningImportHasItsControl BY EngineMeans
<1> QED BY <1>1, EngineInvariant, PTL

=============================================================================
