------------------------ MODULE CorpusSynthesisProofs ------------------------
(***************************************************************************)
(* The generations of knowledge pages, for any documents, identities and   *)
(* mentions, and any number of generations.                                *)
(*                                                                         *)
(* A thread may come back to a generation that was taken from it, by the   *)
(* recovery at an opening of the knowledge base: what it holds has then    *)
(* failed, and stays so.  That no change is consumed unrendered needs the  *)
(* revisions of the queue: from the listing of the queue to the end of the *)
(* generation, a document whose revision is still the listed one has the   *)
(* candidates that the generation was prepared from.                       *)
(***************************************************************************)
EXTENDS CorpusSynthesis, TLAPS

Points == {"idle", "begin", "prepare", "plan", "deferred", "complete", "commit", "finish",
           "raised", "top", "list", "final", "restart"}
Outcomes == {"none", "active", "unchanged", "failed", "cancelled", "superseded"}
States == {"none", "identity_ready", "active", "direct", "superseded", "failed", "cancelled"}
Qualities == {"none", "ready", "degraded", "unavailable_optional"}
Inputs == [Docs -> 0..MaxCandidates]

Manifests == [parent : 0..MaxGenerations, inputs : Inputs, graphs : [Docs -> Qualities],
              identities : SUBSET Identities,
              pages : [Identities -> SUBSET (Docs \X (0..MaxCandidates))],
              items : SUBSET Items, state : States, owner : Pipes \cup {None}]

Threads == [pc : Points, stale : BOOLEAN, gw : 0..3, revisions : [Docs -> Nat],
            gen : 0..MaxGenerations, asks : BOOLEAN, planned : SUBSET Identities,
            outcome : Outcomes]

\* Where a thread has a generation, and what may have become of it meanwhile.
Holding == {"plan", "deferred", "complete", "commit"}
Prepared == {"identity_ready", "failed", "superseded", "cancelled"}

Rows ==
    /\ registry \in Inputs /\ available \subseteq Docs
    /\ graph \in [Docs -> {None} \cup [gen : 1..MaxCandidates, quality : {"ready", "degraded"}]]
    /\ work \in [Docs -> [status : {"none", "pending", "failed"}, revision : Nat]]
    /\ suspended \in BOOLEAN /\ active \in BOOLEAN /\ rerun \in BOOLEAN /\ running \in BOOLEAN
    /\ gateway \in 0..3

\* The row of the n-th generation, when there are c of them.
RowOk(g, n, c) ==
    /\ g \in Manifests
    /\ g.parent \in 0..(n - 1)
    /\ g.state = "none" <=> n > c
    /\ g.owner # None <=> g.state = "identity_ready"

\* What is current was published.
GenerationsInv ==
    /\ count \in 0..MaxGenerations /\ current \in 0..count
    /\ generation \in [Generations -> Manifests]
    /\ \A n \in Generations : RowOk(generation[n], n, count)
    /\ current # 0 => generation[current].state \in {"active", "direct"}

ThreadOk(r, gens, c) ==
    /\ r \in Threads
    /\ r.gen # 0 <=> r.pc \in Holding
    /\ r.gen # 0 => r.gen \in 1..c /\ gens[r.gen].state \in Prepared
    /\ r.stale => env \cap {"open", "other"} # {}

Disturbed == env \cap {"db_error", "crash", "open", "other"} # {}

ThreadsInv ==
    /\ pipe \in [Pipes -> Threads]
    /\ \A p \in Pipes : ThreadOk(pipe[p], generation, count)
    /\ \A p, q \in Pipes : pipe[p].gen # 0 /\ pipe[p].gen = pipe[q].gen => p = q
    /\ \A n \in Generations :
          generation[n].state = "identity_ready" => pipe[generation[n].owner].gen = n \/ Disturbed
    /\ running <=> Worker.pc \notin {"idle", "restart"}

\* The candidates of d are to be found in the current pages.
Rendered(d) == \A i \in Mentions[d] : <<d, registry[d]>> \in Parent.pages[i]

\* Nothing is queued for d, or the worker will consume what is.
Settled(d) == registry[d] # 0 /\ (work[d].status = "none" \/ Held(Worker.revisions, d))

Busy == {"begin", "prepare", "plan", "complete", "commit", "finish"}

\* While nothing fails: the generation that is being made has what it is to have.
CalmInv ==
    Undisturbed =>
        /\ available = Docs /\ ~suspended /\ ~Worker.stale /\ pipe["reanalysis"].pc = "idle"
        /\ Worker.pc # "deferred" /\ (Worker.pc = "prepare" => Worker.asks)
        /\ Worker.pc \in Busy => \A d \in Docs : Worker.revisions[d] <= work[d].revision
        /\ \A i \in Identities : Parent.pages[i] # {} => i \in Parent.identities
        /\ Worker.pc \in {"plan", "complete", "commit"} =>
              \A d \in Docs : Settled(d) =>
                  /\ generation[Worker.gen].inputs[d] = registry[d]
                  /\ Mentions[d] \subseteq generation[Worker.gen].identities
        /\ Worker.pc \in {"complete", "commit"} =>
              Worker.planned = generation[Worker.gen].identities
        /\ Worker.pc = "finish" /\ Worker.outcome \in {"active", "unchanged"} =>
              \A d \in Docs : Settled(d) => Rendered(d)
        /\ \A d \in Docs : registry[d] # 0 /\ work[d].status = "none" => Rendered(d)

IInv == Rows /\ GenerationsInv /\ ThreadsInv /\ CalmInv

-----------------------------------------------------------------------------
(* What the operators on generations and on the queue make.                *)

\* enqueue_corpus_work_in: one document has a new revision.
LEMMA EnqueuedOk ==
    ASSUME Rows, NEW d \in Docs, NEW w, w = Enqueued(work, d)
    PROVE  /\ w \in [Docs -> [status : {"none", "pending", "failed"}, revision : Nat]]
           /\ w[d].status = "pending" /\ w[d].revision = work[d].revision + 1
           /\ \A e \in Docs \ {d} : w[e] = work[e]
BY DEF Enqueued, Rows

\* CorpusWorkQueue.finish: what is done with has no row, or a failed one.
LEMMA FinishedOk ==
    ASSUME Rows, NEW revisions \in [Docs -> Nat], NEW done \in BOOLEAN, NEW w,
           w = Finished(revisions, done)
    PROVE  /\ w \in [Docs -> [status : {"none", "pending", "failed"}, revision : Nat]]
           /\ \A d \in Docs : w[d].status = "none" =>
                 work[d].status = "none" \/ (done /\ Held(revisions, d))
BY DEF Finished, NoWork, Rows

\* capture_corpus_candidate_inputs_in: the current candidates of what is available.
LEMMA CapturedOk ==
    ASSUME CorpusAssumption, NEW reg \in Inputs, NEW inputs, inputs = Captured(reg)
    PROVE  /\ inputs \in Inputs
           /\ \A d \in Docs : d \in available => inputs[d] = reg[d]
           /\ \A d \in InputDocs(inputs) : d \in available /\ inputs[d] = reg[d]
<1>1. inputs = [d \in Docs |-> IF d \in available THEN reg[d] ELSE 0] BY DEF Captured
<1>2. \A d \in Docs : reg[d] \in 0..MaxCandidates BY DEF Inputs
<1>3. \A d \in Docs : inputs[d] = IF d \in available THEN reg[d] ELSE 0 BY <1>1
<1>4. inputs \in Inputs
  <2>1. 0 \in 0..MaxCandidates BY DEF CorpusAssumption
  <2> QED BY <1>1, <1>2, <2>1 DEF Inputs
<1> QED BY <1>3, <1>4 DEF InputDocs

\* bind_generation_graph_inputs_in: each document has a quality.
LEMMA GraphInputsOk ==
    ASSUME CorpusAssumption, Rows, NEW inputs \in Inputs
    PROVE  GraphInputs(inputs) \in [Docs -> Qualities]
<1>1. \A d \in Docs : graph[d] # None => graph[d].quality \in Qualities BY DEF Rows, Qualities
<1> QED BY <1>1 DEF GraphInputs, Qualities

\* A manifest without a page, as _prepare_generation writes it.
LEMMA EmptyOk ==
    ASSUME CorpusAssumption
    PROVE  /\ NoGeneration \in Manifests
           /\ NoGeneration.state = "none" /\ NoGeneration.owner = None
           /\ NoGeneration.parent = 0
           /\ \A i \in Identities : NoGeneration.pages[i] = {}
BY DEF NoGeneration, NoPages, Manifests, Inputs, Qualities, States, CorpusAssumption

\* What is current has a manifest.
LEMMA ParentOk ==
    ASSUME CorpusAssumption, GenerationsInv
    PROVE  Parent \in Manifests
<1>1. CASE current = 0 BY <1>1, EmptyOk DEF Parent
<1>2. CASE current # 0
  <2>1. current \in Generations BY <1>2 DEF GenerationsInv, Generations, CorpusAssumption
  <2> QED BY <1>2, <2>1 DEF Parent, GenerationsInv
<1> QED BY <1>1, <1>2

\* publish_incremental_corpus_generation_in and publish_corpus_generation_in.
LEMMA IdentitiesOfOk ==
    ASSUME CorpusAssumption, NEW inputs, NEW D
    PROVE  IdentitiesOf(inputs, D) \subseteq Identities
BY DEF IdentitiesOf, InputDocs, CorpusAssumption

\* A new manifest, full or incremental, has the current generation as its parent, the captured
\* inputs, and no page yet.
LEMMA PreparedOk ==
    ASSUME CorpusAssumption, Rows, GenerationsInv, NEW inputs \in Inputs, NEW D, NEW g,
           g \in {Incremental(inputs, D), Full(inputs)}
    PROVE  /\ g \in Manifests /\ g.state = "identity_ready" /\ g.owner = None
           /\ g.parent = current /\ g.inputs = inputs
           /\ \A i \in Identities : g.pages[i] = {}
<1>1. Parent \in Manifests /\ NoGeneration \in Manifests BY ParentOk, EmptyOk
<1>2. GraphInputs(inputs) \in [Docs -> Qualities] BY GraphInputsOk
<1>3. \A E : IdentitiesOf(inputs, E) \in SUBSET Identities BY IdentitiesOfOk
<1>4. current \in 0..MaxGenerations BY DEF GenerationsInv, CorpusAssumption
<1>5. CASE g = Incremental(inputs, D)
  <2> DEFINE ids == Parent.identities \cup IdentitiesOf(inputs, D)
  <2>1. ids \in SUBSET Identities /\ Parent.items \in SUBSET Items BY <1>1, <1>3 DEF Manifests
  <2>2. g = [NoGeneration EXCEPT !.parent = current, !.inputs = inputs,
                !.graphs = GraphInputs(inputs), !.identities = ids,
                !.items = Parent.items, !.state = "identity_ready"]
    BY <1>5 DEF Incremental
  <2> HIDE DEF ids
  <2>3. g \in Manifests BY <1>1, <1>2, <1>4, <2>1, <2>2 DEF Manifests, States
  <2>4. g.state = "identity_ready" /\ g.parent = current /\ g.inputs = inputs
        /\ g.owner = NoGeneration.owner /\ g.pages = NoGeneration.pages
    BY <1>1, <2>2 DEF Manifests
  <2> QED BY <2>3, <2>4, EmptyOk
<1>6. CASE g = Full(inputs)
  <2> DEFINE ids == IdentitiesOf(inputs, Docs)
  <2>1. ids \in SUBSET Identities BY <1>3
  <2>2. g = [NoGeneration EXCEPT !.parent = current, !.inputs = inputs,
                !.graphs = GraphInputs(inputs), !.identities = ids, !.state = "identity_ready"]
    BY <1>6 DEF Full
  <2> HIDE DEF ids
  <2>3. g \in Manifests BY <1>1, <1>2, <1>4, <2>1, <2>2 DEF Manifests, States
  <2>4. g.state = "identity_ready" /\ g.parent = current /\ g.inputs = inputs
        /\ g.owner = NoGeneration.owner /\ g.pages = NoGeneration.pages
    BY <1>1, <2>2 DEF Manifests
  <2> QED BY <2>3, <2>4, EmptyOk
<1> QED BY <1>5, <1>6

\* _persist_deferred_page_in: a page is carried on whole, or not at all.
LEMMA CarriedOk ==
    ASSUME CorpusAssumption, GenerationsInv, NEW g \in Manifests, NEW i \in Identities, NEW page,
           page = Carried(g, i)
    PROVE  /\ page \in SUBSET (Docs \X (0..MaxCandidates))
           /\ \A c \in page : c[1] \in available
<1> DEFINE old == IF g.parent = 0 THEN {} ELSE generation[g.parent].pages[i]
<1>1. page = IF \A c \in old : c[1] \in available THEN old ELSE {} BY DEF Carried
<1>2. old \in SUBSET (Docs \X (0..MaxCandidates))
  <2>1. CASE g.parent = 0 BY <2>1
  <2>2. CASE g.parent # 0
    <3>1. g.parent \in 0..MaxGenerations BY DEF Manifests
    <3>2. g.parent \in Generations BY <2>2, <3>1 DEF Generations, CorpusAssumption
    <3>3. generation[g.parent] \in Manifests BY <3>2 DEF GenerationsInv
    <3> QED BY <2>2, <3>3 DEF Manifests
  <2> QED BY <2>1, <2>2
<1> HIDE DEF old
<1> QED BY <1>1, <1>2

\* The claims of the inputs on an identity.
LEMMA ClaimsOk ==
    ASSUME NEW inputs \in Inputs, NEW i \in Identities
    PROVE  /\ Claims(inputs, i) \in SUBSET (Docs \X (0..MaxCandidates))
           /\ \A c \in Claims(inputs, i) : c[1] \in InputDocs(inputs)
BY DEF Claims, InputDocs, Inputs

\* build_generation_knowledge_pages_in.
LEMMA BuiltOk ==
    ASSUME CorpusAssumption, GenerationsInv, NEW g \in Manifests, NEW planned, NEW b,
           b = Built(g, planned)
    PROVE  /\ b \in Manifests
           /\ b.parent = g.parent /\ b.inputs = g.inputs /\ b.state = g.state /\ b.owner = g.owner
           /\ \A i \in Identities : b.pages[i] # {} => i \in b.identities
           /\ \A i \in Identities : \A c \in b.pages[i] :
                 c[1] \in available \/ c[1] \in InputDocs(g.inputs)
           /\ \A i \in g.identities :
                 b.pages[i] = IF i \in planned /\ Claims(g.inputs, i) # {}
                              THEN Claims(g.inputs, i) ELSE Carried(g, i)
<1> DEFINE pages == [i \in Identities |->
                       IF i \notin g.identities THEN {}
                       ELSE IF i \in planned /\ Claims(g.inputs, i) # {} THEN Claims(g.inputs, i)
                       ELSE Carried(g, i)]
           ids == {i \in g.identities : pages[i] # {}}
<1>1. b = [g EXCEPT !.pages = pages, !.identities = ids] BY DEF Built
<1>2. g.inputs \in Inputs /\ g.identities \subseteq Identities BY DEF Manifests
<1>3. \A i \in Identities : pages[i] \in SUBSET (Docs \X (0..MaxCandidates))
                          /\ \A c \in pages[i] : c[1] \in available \/ c[1] \in InputDocs(g.inputs)
  BY <1>2, ClaimsOk, CarriedOk
<1>4. \A i \in Identities : pages[i] # {} => i \in ids OBVIOUS
<1>5. \A i \in g.identities : pages[i] = IF i \in planned /\ Claims(g.inputs, i) # {}
                                        THEN Claims(g.inputs, i) ELSE Carried(g, i)
  BY <1>2
<1>6. pages \in [Identities -> SUBSET (Docs \X (0..MaxCandidates))] /\ ids \in SUBSET Identities
  <2>1. pages = [i \in Identities |-> pages[i]] OBVIOUS
  <2> HIDE DEF pages
  <2> QED BY <1>2, <1>3, <2>1
<1> HIDE DEF pages, ids
<1>7. b \in Manifests BY <1>1, <1>6 DEF Manifests
<1>8. /\ b.parent = g.parent /\ b.inputs = g.inputs /\ b.state = g.state /\ b.owner = g.owner
      /\ b.pages = pages /\ b.identities = ids
  BY <1>1 DEF Manifests
<1> QED BY <1>3, <1>4, <1>5, <1>7, <1>8

-----------------------------------------------------------------------------
(* The rows of the generations.                                            *)

\* Nothing is published: what is terminal is not current.
LEMMA NothingPublished ==
    ASSUME CorpusAssumption, GenerationsInv, UNCHANGED published
    PROVE  GenerationsInv' /\ StaysTerminal /\ ActivatesCurrent
<1>1. current # 0 => generation[current].state \in {"active", "direct"} BY DEF GenerationsInv
<1>2. \A n \in Generations : n # 0 BY DEF Generations, CorpusAssumption
<1> QED BY <1>1, <1>2 DEF published, GenerationsInv, RowOk, StaysTerminal, ActivatesCurrent

\* One generation that is not current is given a new row.
LEMMA RowChanges ==
    ASSUME CorpusAssumption, GenerationsInv, NEW n \in Generations, NEW g,
           generation' = [generation EXCEPT ![n] = g], current' = current,
           count' = count \/ (count' = count + 1 /\ n = count + 1),
           RowOk(g, n, count'), n # current,
           generation[n].state \in {"failed", "cancelled", "superseded"} =>
               g.state \in {"failed", "cancelled", "superseded"}
    PROVE  GenerationsInv' /\ StaysTerminal /\ ActivatesCurrent
<1>1. /\ count \in 0..MaxGenerations /\ current \in 0..count /\ MaxGenerations \in Nat
      /\ \A m \in Generations : m \in Nat /\ m # 0 /\ m <= MaxGenerations
      /\ generation \in [Generations -> Manifests]
  BY DEF GenerationsInv, Generations, CorpusAssumption
<1>2. g \in Manifests BY DEF RowOk
<1>3. generation' \in [Generations -> Manifests] BY <1>1, <1>2
<1>4. \A m \in Generations : generation'[m] = IF m = n THEN g ELSE generation[m] BY <1>1
<1>5. count' \in 0..MaxGenerations /\ current' \in 0..count' BY <1>1
<1>6. \A m \in Generations : RowOk(generation'[m], m, count')
  <2> SUFFICES ASSUME NEW m \in Generations PROVE RowOk(generation'[m], m, count') OBVIOUS
  <2>1. CASE m = n BY <1>4, <2>1
  <2>2. CASE m # n
    <3>1. RowOk(generation[m], m, count) /\ generation'[m] = generation[m]
      BY <1>4, <2>2 DEF GenerationsInv
    <3>2. m > count <=> m > count' BY <1>1, <2>2
    <3> QED BY <3>1, <3>2 DEF RowOk
  <2> QED BY <2>1, <2>2
<1>7. current # 0 => current \in Generations BY <1>1 DEF Generations
<1>8. current # 0 => generation'[current].state = generation[current].state BY <1>4, <1>7
<1>9. GenerationsInv' BY <1>3, <1>5, <1>6, <1>8 DEF GenerationsInv
<1>10. StaysTerminal BY <1>1, <1>4, <1>7 DEF StaysTerminal, GenerationsInv
<1>11. ActivatesCurrent BY DEF ActivatesCurrent
<1> QED BY <1>9, <1>10, <1>11

\* activate_qualified_corpus_generation_in: what becomes current is complete.
LEMMA Activates ==
    ASSUME CorpusAssumption, GenerationsInv, NEW n \in Generations, NEW g \in Manifests,
           generation' = Activated(generation, n, g), current' = n, g.parent \in 0..(n - 1),
           \/ count' = count /\ n <= count /\ generation[n].state = "identity_ready"
           \/ count' = count + 1 /\ n = count + 1,
           \A d \in InputDocs(g.inputs) : d \in available' /\ g.inputs[d] = registry'[d],
           \A i \in Identities : \A c \in g.pages[i] : c[1] \in available'
    PROVE  /\ GenerationsInv' /\ StaysTerminal /\ ActivatesCurrent
           /\ n # current
           /\ \A m \in Generations : generation'[m].state = "identity_ready" =>
                 m # n /\ generation'[m] = generation[m]
           /\ \A m \in Generations : m # n /\ generation[m].state \in Prepared =>
                 generation'[m] = generation[m]
           /\ generation'[n].pages = g.pages /\ generation'[n].identities = g.identities
<1>1. /\ count \in 0..MaxGenerations /\ current \in 0..count /\ MaxGenerations \in Nat
      /\ \A m \in Generations : m \in Nat /\ m # 0 /\ m <= MaxGenerations
      /\ generation \in [Generations -> Manifests]
      /\ \A m \in Generations : RowOk(generation[m], m, count)
      /\ None \notin Pipes
  BY DEF GenerationsInv, Generations, CorpusAssumption, Pipes
<1>2. current # 0 => current \in Generations /\ generation[current].state \in {"active", "direct"}
  BY <1>1 DEF GenerationsInv, Generations
<1>3. n # current BY <1>1, <1>2
<1> DEFINE h == [g EXCEPT !.state = "active", !.owner = None]
<1>4. /\ h \in Manifests /\ h.state = "active" /\ h.owner = None /\ h.parent = g.parent
      /\ h.inputs = g.inputs /\ h.pages = g.pages /\ h.identities = g.identities
  BY DEF Manifests, States
<1>5. \A m \in Generations :
         generation'[m] = CASE m = n -> h
                            [] m = current /\ m # n /\ generation[m].state = "active" ->
                                  [generation[m] EXCEPT !.state = "superseded"]
                            [] OTHER -> generation[m]
  BY DEF Activated
<1> HIDE DEF h
<1>6. generation'[n] = h BY <1>5
<1>7. \A m \in Generations : m # n /\ (m # current \/ generation[m].state # "active") =>
         generation'[m] = generation[m]
  BY <1>5
<1>8. \A m \in Generations : m # n /\ m = current /\ generation[m].state = "active" =>
         /\ generation'[m] = [generation[m] EXCEPT !.state = "superseded"]
         /\ generation'[m] \in Manifests /\ generation'[m].state = "superseded"
         /\ generation'[m].owner = generation[m].owner
         /\ generation'[m].parent = generation[m].parent
  <2> SUFFICES ASSUME NEW m \in Generations, m # n, m = current, generation[m].state = "active"
               PROVE  LET r == [generation[m] EXCEPT !.state = "superseded"]
                      IN  generation'[m] = r /\ r \in Manifests /\ r.state = "superseded"
                          /\ r.owner = generation[m].owner /\ r.parent = generation[m].parent
    OBVIOUS
  <2>1. generation'[m] = [generation[m] EXCEPT !.state = "superseded"] BY <1>5
  <2>2. generation[m] \in Manifests BY <1>1
  <2> QED BY <2>1, <2>2 DEF Manifests, States
<1>9. \A m \in Generations : RowOk(generation'[m], m, count')
  <2> SUFFICES ASSUME NEW m \in Generations PROVE RowOk(generation'[m], m, count') OBVIOUS
  <2>0. RowOk(generation[m], m, count) BY <1>1
  <2>1. CASE m = n
    <3>1. ~(n > count') BY <1>1
    <3> QED BY <1>4, <1>6, <2>1, <3>1 DEF RowOk
  <2>2. CASE m # n
    <3>1. m > count <=> m > count' BY <1>1, <2>2
    <3>2. CASE m # current \/ generation[m].state # "active"
      BY <1>7, <2>0, <2>2, <3>1, <3>2 DEF RowOk
    <3>3. CASE m = current /\ generation[m].state = "active"
      BY <1>8, <2>0, <2>2, <3>1, <3>3 DEF RowOk
    <3> QED BY <3>2, <3>3
  <2> QED BY <2>1, <2>2
<1>10. generation' \in [Generations -> Manifests]
  <2>1. \A m \in Generations : generation'[m] \in Manifests BY <1>9 DEF RowOk
  <2>2. generation' = [m \in Generations |-> generation'[m]] BY DEF Activated
  <2> QED BY <2>1, <2>2
<1>11. GenerationsInv'
  <2>1. count' \in 0..MaxGenerations /\ current' \in 0..count' BY <1>1
  <2> QED BY <1>4, <1>6, <1>9, <1>10, <2>1 DEF GenerationsInv
<1>12. StaysTerminal
  <2>1. generation[n].state \in {"none", "identity_ready"}
    <3>1. RowOk(generation[n], n, count) BY <1>1
    <3> QED BY <1>1, <3>1 DEF RowOk
  <2>2. \A m \in Generations : generation[m].state \in {"failed", "cancelled", "superseded"} =>
           m # n /\ generation'[m] = generation[m]
    BY <1>7, <2>1
  <2> QED BY <2>2 DEF StaysTerminal
<1>13. ActivatesCurrent BY <1>4, <1>6 DEF ActivatesCurrent
<1>14. \A m \in Generations : generation'[m].state = "identity_ready" =>
          m # n /\ generation'[m] = generation[m]
  BY <1>4, <1>6, <1>7, <1>8
<1>15. \A m \in Generations : m # n /\ generation[m].state \in Prepared =>
          generation'[m] = generation[m]
  BY <1>7 DEF Prepared
<1> QED BY <1>3, <1>4, <1>6, <1>11, <1>12, <1>13, <1>14, <1>15

\* An import and a reanalysis publish a generation that is complete.
LEMMA PublishesAtOnce ==
    ASSUME CorpusAssumption, Rows, GenerationsInv, NEW reg \in Inputs, NEW D, NEW g,
           g \in {Incremental(Captured(reg), D), Full(Captured(reg))}, PublishAtOnce(g),
           registry' = reg, available' = available
    PROVE  /\ GenerationsInv' /\ StaysTerminal /\ ActivatesCurrent
           /\ count' = count + 1 /\ current' = count + 1 /\ count + 1 \in Generations
           /\ \A m \in Generations : generation'[m].state = "identity_ready" =>
                 generation'[m] = generation[m]
           /\ \A m \in Generations : m <= count /\ generation[m].state \in Prepared =>
                 generation'[m] = generation[m]
           /\ generation'[count + 1].pages = Built(g, {}).pages
           /\ generation'[count + 1].identities = Built(g, {}).identities
<1> DEFINE inputs == Captured(reg)  n == count + 1
<1>1. /\ inputs \in Inputs
      /\ \A d \in InputDocs(inputs) : d \in available /\ inputs[d] = reg[d]
  BY CapturedOk
<1>2. g \in Manifests /\ g.parent = current /\ g.inputs = inputs BY <1>1, PreparedOk
<1> HIDE DEF inputs
<1>3. /\ count \in 0..MaxGenerations /\ current \in 0..count /\ MaxGenerations \in Nat
  BY DEF GenerationsInv, CorpusAssumption
<1>4. n \in Generations /\ current \in 0..(n - 1) BY <1>3 DEF PublishAtOnce, Generations
<1> DEFINE b == Built(g, {})
<1>5. b \in Manifests /\ b.parent = g.parent /\ b.inputs = g.inputs
      /\ \A i \in Identities : \A c \in b.pages[i] :
            c[1] \in available \/ c[1] \in InputDocs(g.inputs)
  BY <1>2, BuiltOk
<1>6. generation' = Activated(generation, n, b) /\ current' = n /\ count' = n
  BY DEF PublishAtOnce
<1> HIDE DEF b
<1>7. /\ \A d \in InputDocs(b.inputs) : d \in available' /\ b.inputs[d] = registry'[d]
      /\ \A i \in Identities : \A c \in b.pages[i] : c[1] \in available'
  BY <1>1, <1>2, <1>5
<1>8. /\ GenerationsInv' /\ StaysTerminal /\ ActivatesCurrent
      /\ \A m \in Generations : generation'[m].state = "identity_ready" =>
            m # n /\ generation'[m] = generation[m]
      /\ \A m \in Generations : m # n /\ generation[m].state \in Prepared =>
            generation'[m] = generation[m]
      /\ generation'[n].pages = b.pages /\ generation'[n].identities = b.identities
  BY <1>2, <1>4, <1>5, <1>6, <1>7, Activates
<1>9. \A m \in Generations : m <= count => m # n BY <1>3 DEF Generations
<1> QED BY <1>4, <1>6, <1>8, <1>9 DEF b

-----------------------------------------------------------------------------
(* The threads.                                                            *)

\* When p goes on with r, the other threads keep what they hold, and what is in work has
\* its thread.
OthersKeep(p, r) ==
    \A q \in Pipes \ {p} : pipe[q].gen # 0 =>
        /\ pipe[q].gen \in 1..count' /\ generation'[pipe[q].gen].state \in Prepared
        /\ pipe[q].gen # r.gen

AllAreOwned(p, r) ==
    \A n \in Generations : generation'[n].state = "identity_ready" =>
        \/ Disturbed
        \/ generation'[n].owner = p /\ r.gen = n
        \/ generation'[n].owner \in Pipes \ {p} /\ pipe[generation'[n].owner].gen = n

\* The thread p goes on with r.
LEMMA ThreadChanges ==
    ASSUME CorpusAssumption, ThreadsInv, NEW p \in Pipes, NEW r, pipe' = [pipe EXCEPT ![p] = r],
           env' = env, ThreadOk(r, generation', count'), OthersKeep(p, r), AllAreOwned(p, r),
           running' <=> (IF p = "worker" THEN r.pc ELSE Worker.pc) \notin {"idle", "restart"}
    PROVE  ThreadsInv'
<1>1. pipe \in [Pipes -> Threads] /\ r \in Threads /\ "worker" \in Pipes
  BY DEF ThreadsInv, ThreadOk, Pipes
<1>2. pipe' \in [Pipes -> Threads] BY <1>1
<1>3. \A q \in Pipes : pipe'[q] = IF q = p THEN r ELSE pipe[q] BY <1>1
<1>4. \A q \in Pipes : ThreadOk(pipe'[q], generation', count')
  BY <1>1, <1>3 DEF ThreadsInv, ThreadOk, OthersKeep
<1>5. \A q, s \in Pipes : pipe'[q].gen # 0 /\ pipe'[q].gen = pipe'[s].gen => q = s
  BY <1>3 DEF ThreadsInv, OthersKeep
<1>6. \A n \in Generations :
         generation'[n].state = "identity_ready" => pipe'[generation'[n].owner].gen = n \/ Disturbed
  BY <1>3 DEF AllAreOwned
<1>7. running' <=> pipe'["worker"].pc \notin {"idle", "restart"} BY <1>1, <1>3 DEF Worker
<1> QED BY <1>2, <1>4, <1>5, <1>6, <1>7 DEF ThreadsInv, ThreadOk, Disturbed, Worker, Generations

\* It keeps what it holds, or leaves it, and nothing is published meanwhile.
LEMMA ThreadMoves ==
    ASSUME CorpusAssumption, GenerationsInv, ThreadsInv, NEW p \in Pipes, NEW r \in Threads,
           pipe' = [pipe EXCEPT ![p] = r], UNCHANGED published, env' = env,
           r.gen # 0 <=> r.pc \in Holding,
           r.stale => pipe[p].stale \/ env \cap {"open", "other"} # {},
           \/ r.gen = pipe[p].gen
           \/ r.gen = 0 /\ (pipe[p].gen = 0 \/ ~Own(p) \/ Disturbed),
           running' <=> (IF p = "worker" THEN r.pc ELSE Worker.pc) \notin {"idle", "restart"}
    PROVE  ThreadsInv'
<1>1. generation' = generation /\ count' = count BY DEF published
<1>2. \A q \in Pipes : ThreadOk(pipe[q], generation, count) BY DEF ThreadsInv
<1>3. r.gen = pipe[p].gen \/ r.gen = 0 OBVIOUS
<1>4. ThreadOk(r, generation, count) BY <1>2, <1>3 DEF ThreadOk
<1>5. \A q \in Pipes \ {p} : pipe[q].gen # 0 =>
         /\ pipe[q].gen \in 1..count /\ generation[pipe[q].gen].state \in Prepared
         /\ pipe[q].gen # r.gen
  BY <1>2, <1>3 DEF ThreadsInv, ThreadOk
<1>6. \A n \in Generations : generation[n].state = "identity_ready" =>
         \/ Disturbed
         \/ generation[n].owner = p /\ r.gen = n
         \/ generation[n].owner \in Pipes \ {p} /\ pipe[generation[n].owner].gen = n
  <2> SUFFICES ASSUME NEW n \in Generations, generation[n].state = "identity_ready", ~Disturbed
               PROVE  \/ generation[n].owner = p /\ r.gen = n
                      \/ generation[n].owner \in Pipes \ {p} /\ pipe[generation[n].owner].gen = n
    OBVIOUS
  <2>1. pipe[generation[n].owner].gen = n BY DEF ThreadsInv
  <2>2. generation[n].owner \in Pipes
    <3>1. RowOk(generation[n], n, count) BY DEF GenerationsInv
    <3> QED BY <3>1 DEF RowOk, Manifests
  <2>3. CASE generation[n].owner = p
    <3>1. n # 0 BY DEF Generations, CorpusAssumption
    <3>2. Own(p) BY <2>1, <2>3, <3>1 DEF Own
    <3> QED BY <2>1, <2>3, <3>1, <3>2
  <2> QED BY <2>1, <2>2, <2>3
<1>7. ThreadOk(r, generation', count') BY <1>1, <1>4
<1>8. \A q \in Pipes \ {p} : pipe[q].gen # 0 =>
         /\ pipe[q].gen \in 1..count' /\ generation'[pipe[q].gen].state \in Prepared
         /\ pipe[q].gen # r.gen
  BY <1>1, <1>5
<1>9. \A n \in Generations : generation'[n].state = "identity_ready" =>
         \/ Disturbed
         \/ generation'[n].owner = p /\ r.gen = n
         \/ generation'[n].owner \in Pipes \ {p} /\ pipe[generation'[n].owner].gen = n
  BY <1>1, <1>6
<1>10. OthersKeep(p, r) /\ AllAreOwned(p, r)
  BY <1>8, <1>9 DEF OthersKeep, AllAreOwned
<1> QED BY <1>7, <1>10, ThreadChanges

\* It leaves the generation that it has closed.
LEMMA ThreadCloses ==
    ASSUME CorpusAssumption, GenerationsInv, ThreadsInv, NEW p \in Pipes, NEW r \in Threads,
           pipe' = [pipe EXCEPT ![p] = r], env' = env, count' = count,
           r.gen = 0, r.pc \notin Holding, r.stale = pipe[p].stale, pipe[p].gen # 0,
           generation'[pipe[p].gen].state # "identity_ready",
           \A m \in Generations : generation'[m].state = "identity_ready" =>
               generation'[m] = generation[m],
           \A m \in Generations : m # pipe[p].gen /\ generation[m].state \in Prepared =>
               generation'[m].state \in Prepared,
           running' <=> (IF p = "worker" THEN r.pc ELSE Worker.pc) \notin {"idle", "restart"}
    PROVE  ThreadsInv'
<1>2. \A q \in Pipes : ThreadOk(pipe[q], generation, count) BY DEF ThreadsInv
<1>4. ThreadOk(r, generation', count') BY <1>2 DEF ThreadOk
<1>5. \A q \in Pipes \ {p} : pipe[q].gen # 0 =>
         /\ pipe[q].gen \in 1..count' /\ generation'[pipe[q].gen].state \in Prepared
         /\ pipe[q].gen # r.gen
  <2> SUFFICES ASSUME NEW q \in Pipes \ {p}, pipe[q].gen # 0
               PROVE  pipe[q].gen \in 1..count' /\ generation'[pipe[q].gen].state \in Prepared
    OBVIOUS
  <2>1. pipe[q].gen \in 1..count /\ generation[pipe[q].gen].state \in Prepared BY <1>2 DEF ThreadOk
  <2>2. pipe[q].gen # pipe[p].gen BY DEF ThreadsInv
  <2>3. pipe[q].gen \in Generations BY <2>1 DEF Generations, GenerationsInv, CorpusAssumption
  <2> QED BY <2>1, <2>2, <2>3
<1>6. \A n \in Generations : generation'[n].state = "identity_ready" =>
         \/ Disturbed
         \/ generation'[n].owner \in Pipes \ {p} /\ pipe[generation'[n].owner].gen = n
  <2> SUFFICES ASSUME NEW n \in Generations, generation'[n].state = "identity_ready", ~Disturbed
               PROVE  generation[n].owner \in Pipes \ {p} /\ pipe[generation[n].owner].gen = n
    OBVIOUS
  <2>1. generation'[n] = generation[n] OBVIOUS
  <2>2. pipe[generation[n].owner].gen = n BY <2>1 DEF ThreadsInv
  <2>3. generation[n].owner \in Pipes
    <3>1. RowOk(generation[n], n, count) BY DEF GenerationsInv
    <3> QED BY <2>1, <3>1 DEF RowOk, Manifests
  <2> QED BY <2>2, <2>3
<1>7. OthersKeep(p, r) /\ AllAreOwned(p, r)
  BY <1>5, <1>6 DEF OthersKeep, AllAreOwned
<1> QED BY <1>4, <1>7, ThreadChanges

\* The rest of the engine changes no generation that is in work.
LEMMA ThreadsStay ==
    ASSUME CorpusAssumption, GenerationsInv, ThreadsInv, UNCHANGED <<pipe, running, env>>,
           count' = count \/ count' = count + 1,
           \A m \in Generations : generation'[m].state = "identity_ready" =>
               generation'[m] = generation[m],
           \A m \in Generations : m <= count /\ generation[m].state \in Prepared =>
               generation'[m].state \in Prepared
    PROVE  ThreadsInv'
<1>1. \A q \in Pipes : ThreadOk(pipe[q], generation, count) BY DEF ThreadsInv
<1>2. \A q \in Pipes : ThreadOk(pipe[q], generation', count')
  <2> SUFFICES ASSUME NEW q \in Pipes PROVE ThreadOk(pipe[q], generation', count') OBVIOUS
  <2>1. pipe[q].gen # 0 => pipe[q].gen \in Generations /\ pipe[q].gen <= count
    BY <1>1 DEF ThreadOk, Generations, GenerationsInv, CorpusAssumption
  <2>2. pipe[q].gen # 0 => pipe[q].gen \in 1..count'
    BY <1>1 DEF ThreadOk, GenerationsInv, CorpusAssumption
  <2> QED BY <1>1, <2>1, <2>2 DEF ThreadOk
<1> QED BY <1>2 DEF ThreadsInv, ThreadOk, Disturbed, Worker, Generations

-----------------------------------------------------------------------------
(* While nothing fails.                                                    *)

\* The thread p goes on with r, and nothing changes of what is queued and current.
LEMMA CalmMoves ==
    ASSUME CorpusAssumption, ThreadsInv, CalmInv, UNCHANGED <<knowledge, work, env>>,
           Undisturbed => suspended' = suspended,
           current' = current, current # 0 => generation'[current] = generation[current],
           NEW p \in Pipes, NEW r \in Threads, pipe' = [pipe EXCEPT ![p] = r],
           Undisturbed => p = "worker" /\ ~r.stale /\ r.pc # "deferred",
           Undisturbed => (r.pc = "prepare" => r.asks),
           Undisturbed => (r.pc \in Busy => \A d \in Docs : r.revisions[d] <= work[d].revision),
           Undisturbed => (r.pc \in {"plan", "complete", "commit"} =>
               \A d \in Docs :
                   registry[d] # 0 /\ (work[d].status = "none" \/ Held(r.revisions, d)) =>
                       /\ generation'[r.gen].inputs[d] = registry[d]
                       /\ Mentions[d] \subseteq generation'[r.gen].identities),
           Undisturbed => (r.pc \in {"complete", "commit"} =>
               r.planned = generation'[r.gen].identities),
           Undisturbed => (r.pc = "finish" /\ r.outcome \in {"active", "unchanged"} =>
               \A d \in Docs : registry[d] # 0 /\ Held(r.revisions, d) => Rendered(d))
    PROVE  CalmInv'
<1> SUFFICES ASSUME Undisturbed' PROVE CalmInv' BY DEF CalmInv
<1>1. Undisturbed BY DEF Undisturbed
<1>2. pipe'["worker"] = r /\ pipe'["reanalysis"] = pipe["reanalysis"]
  BY <1>1 DEF ThreadsInv, Pipes
<1>3. Worker' = r BY <1>2 DEF Worker
<1>4. Parent' = Parent BY DEF Parent
<1>5. \A d \in Docs : Rendered(d)' <=> Rendered(d) BY <1>4 DEF Rendered, knowledge
<1>6. \A d \in Docs : Held(r.revisions, d)' <=> Held(r.revisions, d) BY DEF Held
<1>7. registry' = registry /\ available' = available /\ work' = work /\ suspended' = suspended
  BY <1>1 DEF knowledge
<1>8. r.pc \in {"plan", "complete", "commit"} =>
         \A d \in Docs : Settled(d)' =>
             /\ generation'[r.gen].inputs[d] = registry'[d]
             /\ Mentions[d] \subseteq generation'[r.gen].identities
  <2> SUFFICES ASSUME r.pc \in {"plan", "complete", "commit"}, NEW d \in Docs, Settled(d)'
               PROVE  /\ generation'[r.gen].inputs[d] = registry'[d]
                      /\ Mentions[d] \subseteq generation'[r.gen].identities
    OBVIOUS
  <2>1. registry[d] # 0 /\ (work[d].status = "none" \/ Held(r.revisions, d))
    BY <1>3, <1>6, <1>7 DEF Settled
  <2> QED BY <1>1, <1>7, <2>1
<1>9. r.pc = "finish" /\ r.outcome \in {"active", "unchanged"} =>
         \A d \in Docs : Settled(d)' => Rendered(d)'
  <2> SUFFICES ASSUME r.pc = "finish", r.outcome \in {"active", "unchanged"}, NEW d \in Docs,
                      Settled(d)'
               PROVE  Rendered(d)'
    OBVIOUS
  <2>1. registry[d] # 0 /\ (work[d].status = "none" \/ Held(r.revisions, d))
    BY <1>3, <1>6, <1>7 DEF Settled
  <2>2. Rendered(d) BY <1>1, <2>1 DEF CalmInv
  <2> QED BY <1>5, <2>2
<1>10. \A d \in Docs : registry'[d] # 0 /\ work'[d].status = "none" => Rendered(d)'
  BY <1>1, <1>5, <1>7 DEF CalmInv
<1>11. r.pc \in {"complete", "commit"} => r.planned = generation'[r.gen].identities
  BY <1>1
<1>12. available' = Docs /\ ~suspended' /\ pipe'["reanalysis"].pc = "idle"
       /\ \A i \in Identities : Parent'.pages[i] # {} => i \in Parent'.identities
  BY <1>1, <1>2, <1>4, <1>7 DEF CalmInv
<1>13. /\ ~r.stale /\ r.pc # "deferred" /\ (r.pc = "prepare" => r.asks)
       /\ r.pc \in Busy => \A d \in Docs : r.revisions[d] <= work'[d].revision
  BY <1>1, <1>7
<1> QED BY <1>3, <1>8, <1>9, <1>10, <1>11, <1>12, <1>13 DEF CalmInv

\* In a quiet behaviour only the worker runs the pipeline.
LEMMA OnlyTheWorker ==
    ASSUME CalmInv, NEW p \in Pipes, pipe[p].pc # "idle"
    PROVE  Undisturbed => p = "worker"
BY DEF CalmInv, Pipes

-----------------------------------------------------------------------------
(* The steps of the pipeline.                                              *)

\* What every step does.
Kept == IInv' /\ StaysTerminal /\ ActivatesCurrent

\* Outcome: the thread leaves its generation, and the pipeline.
LEMMA OutcomeOk ==
    ASSUME CorpusAssumption, ThreadsInv, NEW p \in Pipes, NEW o \in Outcomes, Outcome(p, o)
    PROVE  \E r \in Threads :
              /\ pipe' = [pipe EXCEPT ![p] = r]
              /\ r.gen = 0 /\ r.pc = (IF p = "worker" THEN "finish" ELSE "idle") /\ r.outcome = o
              /\ r.stale = pipe[p].stale /\ r.revisions = pipe[p].revisions
<1> DEFINE r == [pipe[p] EXCEPT !.pc = IF p = "worker" THEN "finish" ELSE "idle",
                                !.outcome = o, !.gen = 0, !.planned = {}]
<1>1. pipe[p] \in Threads /\ pipe \in [Pipes -> Threads] BY DEF ThreadsInv
<1>5. 0 \in 0..MaxGenerations BY DEF CorpusAssumption
<1>6. (IF p = "worker" THEN "finish" ELSE "idle") \in Points BY DEF Points
<1>2. r \in Threads BY <1>1, <1>5, <1>6 DEF Threads
<1>3. r.gen = 0 /\ r.pc = (IF p = "worker" THEN "finish" ELSE "idle") /\ r.outcome = o
      /\ r.stale = pipe[p].stale /\ r.revisions = pipe[p].revisions
  BY <1>1 DEF Threads
<1>4. pipe' = [pipe EXCEPT ![p] = r] BY <1>1 DEF Outcome
<1> HIDE DEF r
<1> QED BY <1>2, <1>3, <1>4

\* A thread has nothing, or what it has was taken from it.
LEMMA LeavesIt ==
    ASSUME CorpusAssumption, IInv, NEW p \in Pipes, NEW o \in Outcomes, Outcome(p, o),
           pipe[p].pc \in {"begin", "prepare", "plan", "deferred", "complete", "commit"},
           pipe[p].gen = 0 \/ ~Own(p) \/ Disturbed,
           UNCHANGED <<knowledge, work, published, suspended, engine, quiet>>,
           Undisturbed /\ p = "worker" /\ o \in {"active", "unchanged"} =>
               \A d \in Docs : registry[d] # 0 /\ Held(Worker.revisions, d) => Rendered(d)
    PROVE  Kept
<1> USE DEF IInv
<1>1. PICK r \in Threads :
         /\ pipe' = [pipe EXCEPT ![p] = r]
         /\ r.gen = 0 /\ r.pc = (IF p = "worker" THEN "finish" ELSE "idle") /\ r.outcome = o
         /\ r.stale = pipe[p].stale /\ r.revisions = pipe[p].revisions
  BY OutcomeOk
<1>2. GenerationsInv' /\ StaysTerminal /\ ActivatesCurrent BY NothingPublished
<1>3. Rows' BY DEF Rows, knowledge, engine
<1>4. ThreadsInv'
  <2>1. r.pc \notin Holding BY <1>1 DEF Holding
  <2>2. running' <=> (IF p = "worker" THEN r.pc ELSE Worker.pc) \notin {"idle", "restart"}
    BY <1>1 DEF ThreadsInv, engine, Worker
  <2> QED BY <1>1, <2>1, <2>2, ThreadMoves DEF quiet
<1>5. CalmInv'
  <2>1. Undisturbed => p = "worker" BY OnlyTheWorker
  <2>2. ASSUME Undisturbed
        PROVE  /\ ~r.stale /\ r.pc = "finish" /\ Worker = pipe[p]
               /\ \A d \in Docs : r.revisions[d] <= work[d].revision
               /\ r.outcome \in {"active", "unchanged"} =>
                     \A d \in Docs : registry[d] # 0 /\ Held(r.revisions, d) => Rendered(d)
    <3>1. p = "worker" /\ Worker = pipe[p] BY <2>1, <2>2 DEF Worker
    <3>2. Worker.pc \in Busy BY <2>2, <3>1 DEF CalmInv, Busy
    <3> QED BY <1>1, <2>2, <3>1, <3>2 DEF CalmInv
  <2>3. current' = current /\ (current # 0 => generation'[current] = generation[current])
    BY DEF published
  <2> QED BY <1>1, <2>1, <2>2, <2>3, CalmMoves DEF quiet
<1> QED BY <1>2, <1>3, <1>4, <1>5 DEF Kept

\* _finish_terminal, or a completion that is refused: the row is closed and left.
LEMMA ClosesIt ==
    ASSUME CorpusAssumption, IInv, NEW p \in Pipes, NEW s \in {"failed", "cancelled", "superseded"},
           Outcome(p, s), pipe[p].pc \in Holding,
           generation' = [generation EXCEPT ![pipe[p].gen] = Closed(generation[pipe[p].gen], s)],
           UNCHANGED <<knowledge, work, count, current, suspended, engine, quiet>>
    PROVE  Kept
<1> USE DEF IInv
<1> DEFINE n == pipe[p].gen  g == Closed(generation[n], s)
<1>1. PICK r \in Threads :
         /\ pipe' = [pipe EXCEPT ![p] = r]
         /\ r.gen = 0 /\ r.pc = (IF p = "worker" THEN "finish" ELSE "idle") /\ r.outcome = s
         /\ r.stale = pipe[p].stale /\ r.revisions = pipe[p].revisions
  BY OutcomeOk DEF Outcomes
<1>2. n # 0 /\ n \in 1..count /\ generation[n].state \in Prepared BY DEF ThreadsInv, ThreadOk
<1>3. /\ count \in 0..MaxGenerations /\ current \in 0..count /\ MaxGenerations \in Nat
      /\ n \in Generations
  BY <1>2 DEF GenerationsInv, CorpusAssumption, Generations
<1>4. RowOk(generation[n], n, count) BY <1>3 DEF GenerationsInv
<1>5. generation[n] \in Manifests BY <1>4 DEF RowOk
<1>6. /\ g \in Manifests /\ g.state = s /\ g.owner = None /\ g.parent = generation[n].parent
  BY <1>5 DEF Closed, Manifests, States
<1>7. generation' = [generation EXCEPT ![n] = g] OBVIOUS
<1> HIDE DEF n, g
<1>8. RowOk(g, n, count)
  <2>1. ~(n > count) BY <1>2, <1>3
  <2> QED BY <1>4, <1>6, <2>1 DEF RowOk
<1>9. n # current BY <1>2 DEF GenerationsInv, Prepared
<1>10. GenerationsInv' /\ StaysTerminal /\ ActivatesCurrent
  <2>1. g.state \in {"failed", "cancelled", "superseded"} BY <1>6
  <2> QED BY <1>3, <1>7, <1>8, <1>9, <2>1, RowChanges
<1>11. Rows' BY DEF Rows, knowledge, engine
<1>12. \A m \in Generations : generation'[m] = IF m = n THEN g ELSE generation[m]
  BY <1>7 DEF GenerationsInv
<1>13. ThreadsInv'
  <2>1. r.pc \notin Holding BY <1>1 DEF Holding
  <2>2. running' <=> (IF p = "worker" THEN r.pc ELSE Worker.pc) \notin {"idle", "restart"}
    BY <1>1 DEF ThreadsInv, engine, Worker, Holding
  <2>3. generation'[n].state # "identity_ready" BY <1>3, <1>6, <1>12
  <2>4. \A m \in Generations : generation'[m].state = "identity_ready" =>
            generation'[m] = generation[m]
    BY <1>6, <1>12
  <2>5. \A m \in Generations : m # n /\ generation[m].state \in Prepared =>
            generation'[m].state \in Prepared
    BY <1>12
  <2> QED BY <1>1, <1>2, <2>1, <2>2, <2>3, <2>4, <2>5, ThreadCloses DEF quiet, n
<1>14. CalmInv'
  <2>1. Undisturbed => p = "worker" BY OnlyTheWorker DEF Holding
  <2>2. ASSUME Undisturbed
        PROVE  /\ ~r.stale /\ r.pc = "finish"
               /\ \A d \in Docs : r.revisions[d] <= work[d].revision
    <3>1. p = "worker" /\ Worker = pipe[p] BY <2>1, <2>2 DEF Worker
    <3>2. Worker.pc \in Busy BY <2>2, <3>1 DEF CalmInv, Busy, Holding
    <3> QED BY <1>1, <2>2, <3>1, <3>2 DEF CalmInv
  <2>3. current' = current /\ (current # 0 => generation'[current] = generation[current])
    BY <1>3, <1>9, <1>12 DEF Generations
  <2>4. r.outcome \notin {"active", "unchanged"} BY <1>1
  <2> QED BY <1>1, <2>1, <2>2, <2>3, <2>4, CalmMoves DEF quiet
<1> QED BY <1>10, <1>11, <1>13, <1>14 DEF Kept

\* The same step, as _finish_terminal writes it.
LEMMA CancelledKept ==
    ASSUME CorpusAssumption, IInv, NEW p \in Pipes, Cancelled(p), pipe[p].pc \in Holding,
           UNCHANGED <<knowledge, work, suspended, engine, quiet>>
    PROVE  Kept
<1> DEFINE n == pipe[p].gen
<1>1. n # 0 /\ n \in 1..count /\ generation[n].state \in Prepared BY DEF IInv, ThreadsInv, ThreadOk
<1>2. generation' = [generation EXCEPT ![n] = Closed(generation[n], "cancelled")]
  BY <1>1 DEF Cancelled, Closed, Prepared
<1>3. Outcome(p, "cancelled") /\ UNCHANGED <<count, current>> BY DEF Cancelled
<1> QED BY <1>2, <1>3, ClosesIt

\* LateOutcome: what a thread finds that comes too late.
LEMMA LateKept ==
    ASSUME CorpusAssumption, IInv, NEW p \in Pipes, LateOutcome(p), pipe[p].pc \in Holding,
           ~Own(p) \/ Disturbed,
           UNCHANGED <<knowledge, work, published, suspended, engine, quiet>>
    PROVE  Kept
<1> DEFINE state == generation[pipe[p].gen].state
           o == IF state \in {"cancelled", "superseded"} THEN state ELSE "failed"
<1>1. Outcome(p, o) BY DEF LateOutcome
<1>2. o \in {"cancelled", "superseded", "failed"} OBVIOUS
<1> HIDE DEF o
<1>3. o \in Outcomes /\ o \notin {"active", "unchanged"} BY <1>2 DEF Outcomes
<1> QED BY <1>1, <1>3, LeavesIt DEF Holding

\* run_generation.
LEMMA BeginKept ==
    ASSUME CorpusAssumption, IInv, NEW p \in Pipes, Begin(p)
    PROVE  Kept
<1>1. pipe[p].pc = "begin" /\ UNCHANGED <<knowledge, work, published, suspended, engine, quiet>>
  BY DEF Begin
<1>2. pipe[p].gen = 0 BY <1>1 DEF IInv, ThreadsInv, ThreadOk, Holding
<1>3. CASE Outcome(p, "cancelled")
  <2>1. "cancelled" \in Outcomes /\ "cancelled" \notin {"active", "unchanged"} BY DEF Outcomes
  <2> QED BY <1>1, <1>2, <1>3, <2>1, LeavesIt
<1>4. CASE ~ShouldStop(p)
           /\ pipe' = [pipe EXCEPT ![p] = [@ EXCEPT !.pc = "prepare", !.asks = ~suspended]]
  <2> USE DEF IInv
  <2> DEFINE r == [pipe[p] EXCEPT !.pc = "prepare", !.asks = ~suspended]
  <2>1. pipe[p] \in Threads /\ pipe \in [Pipes -> Threads] BY DEF ThreadsInv
  <2>2. /\ r \in Threads /\ r.pc = "prepare" /\ r.asks = ~suspended /\ r.gen = pipe[p].gen
        /\ r.stale = pipe[p].stale /\ r.revisions = pipe[p].revisions
    BY <2>1 DEF Threads, Points
  <2>3. pipe' = [pipe EXCEPT ![p] = r] BY <1>4, <2>1
  <2> HIDE DEF r
  <2>4. GenerationsInv' /\ StaysTerminal /\ ActivatesCurrent BY <1>1, NothingPublished
  <2>5. Rows' BY <1>1 DEF Rows, knowledge, engine
  <2>6. ThreadsInv'
    <3>1. r.pc \notin Holding BY <2>2 DEF Holding
    <3>2. running' <=> (IF p = "worker" THEN r.pc ELSE Worker.pc) \notin {"idle", "restart"}
      BY <1>1, <2>2 DEF ThreadsInv, engine, Worker
    <3> QED BY <1>1, <1>2, <2>2, <2>3, <3>1, <3>2, ThreadMoves DEF quiet
  <2>7. CalmInv'
    <3>1. Undisturbed => p = "worker" BY <1>1, OnlyTheWorker
    <3>2. ASSUME Undisturbed
          PROVE  ~r.stale /\ r.asks /\ \A d \in Docs : r.revisions[d] <= work[d].revision
      <4>1. p = "worker" /\ Worker = pipe[p] BY <3>1, <3>2 DEF Worker
      <4>2. Worker.pc \in Busy BY <1>1, <4>1 DEF Busy
      <4> QED BY <2>2, <3>2, <4>1, <4>2 DEF CalmInv
    <3>3. current' = current /\ (current # 0 => generation'[current] = generation[current])
      BY <1>1 DEF published
    <3> QED BY <1>1, <2>2, <2>3, <3>1, <3>2, <3>3, CalmMoves DEF quiet
  <2> QED BY <2>4, <2>5, <2>6, <2>7 DEF Kept
<1> QED BY <1>3, <1>4 DEF Begin


\* An exception ends the pipeline.
LEMMA RaiseKept ==
    ASSUME CorpusAssumption, IInv, NEW p \in Pipes, Raise(p),
           pipe[p].pc \in {"list", "begin"} \cup {"prepare", "plan", "complete", "deferred", "commit"},
           pipe[p].gen = 0 \/ Disturbed, env' = env,
           UNCHANGED <<knowledge, work, published, suspended, engine>>
    PROVE  Kept
<1> USE DEF IInv
<1> DEFINE pc == IF p = "worker" THEN "raised" ELSE "idle"
           r == [pipe[p] EXCEPT !.pc = pc, !.gen = 0, !.planned = {}]
<1>1. pipe[p] \in Threads /\ pipe \in [Pipes -> Threads] BY DEF ThreadsInv
<1>2. pc \in Points /\ 0 \in 0..MaxGenerations BY DEF Points, CorpusAssumption
<1>3. pc \in {"raised", "idle"} /\ (p = "worker" => pc = "raised") OBVIOUS
<1>4. pipe' = [pipe EXCEPT ![p] = r] BY <1>1 DEF Raise
<1> HIDE DEF pc
<1>5. r \in Threads BY <1>1, <1>2 DEF Threads
<1>6. r.pc = pc /\ r.gen = 0 /\ r.stale = pipe[p].stale BY <1>1 DEF Threads
<1> HIDE DEF r
<1>7. GenerationsInv' /\ StaysTerminal /\ ActivatesCurrent BY NothingPublished
<1>8. Rows' BY DEF Rows, knowledge, engine
<1>9. ThreadsInv'
  <2>1. r.pc \notin Holding BY <1>3, <1>6 DEF Holding
  <2>2. running' <=> (IF p = "worker" THEN r.pc ELSE Worker.pc) \notin {"idle", "restart"}
    BY <1>3, <1>6 DEF ThreadsInv, engine, Worker
  <2> QED BY <1>4, <1>5, <1>6, <2>1, <2>2, ThreadMoves
<1>10. CalmInv'
  <2>1. Undisturbed => p = "worker" BY OnlyTheWorker
  <2>2. Undisturbed => ~r.stale BY <1>6, <2>1 DEF CalmInv, Worker
  <2>3. r.pc \notin Busy /\ r.pc \notin {"deferred", "prepare", "plan", "complete", "commit", "finish"}
    BY <1>3, <1>6 DEF Busy
  <2>4. current' = current /\ (current # 0 => generation'[current] = generation[current])
    BY DEF published
  <2> QED BY <1>4, <1>5, <2>1, <2>2, <2>3, <2>4, CalmMoves
<1> QED BY <1>7, <1>8, <1>9, <1>10 DEF Kept

\* _run catches what the database raises: the thread lets go of its generation, which stays.
LEMMA DatabaseErrorKept ==
    ASSUME CorpusAssumption, IInv, NEW p \in Pipes, DatabaseError(p)
    PROVE  Kept
<1>1. Disturbed /\ env' = env BY DEF DatabaseError, Disturbed, Event
<1> QED BY <1>1, RaiseKept DEF DatabaseError

\* The row of the generation n has become h.
OneIsNew(n, h) ==
    \A m \in Generations : generation'[m] = IF m = n THEN h ELSE generation[m]

\* The thread gets a new generation.
LEMMA ThreadPrepares ==
    ASSUME CorpusAssumption, GenerationsInv, ThreadsInv, NEW p \in Pipes, NEW r \in Threads, NEW h,
           NEW n \in Generations, n = count + 1, count' = n, pipe' = [pipe EXCEPT ![p] = r],
           env' = env, pipe[p].gen = 0, r.gen = n, r.pc \in Holding, r.stale = pipe[p].stale,
           h.state = "identity_ready", h.owner = p,
           OneIsNew(n, h),
           running' <=> (IF p = "worker" THEN r.pc ELSE Worker.pc) \notin {"idle", "restart"}
    PROVE  ThreadsInv'
<1> USE DEF OneIsNew
<1>1. \A q \in Pipes : ThreadOk(pipe[q], generation, count) BY DEF ThreadsInv
<1>2. count \in Nat /\ n \in Nat /\ n # 0 BY DEF GenerationsInv, CorpusAssumption, Generations
<1>3. ThreadOk(r, generation', count')
  <2>1. generation'[n].state \in Prepared BY DEF Prepared
  <2>2. r.stale => env \cap {"open", "other"} # {} BY <1>1 DEF ThreadOk
  <2>3. n \in 1..count' BY <1>2
  <2> QED BY <1>2, <2>1, <2>2, <2>3 DEF ThreadOk
<1>4. \A q \in Pipes \ {p} : pipe[q].gen # 0 =>
         /\ pipe[q].gen \in 1..count' /\ generation'[pipe[q].gen].state \in Prepared
         /\ pipe[q].gen # r.gen
  <2> SUFFICES ASSUME NEW q \in Pipes \ {p}, pipe[q].gen # 0
               PROVE  /\ pipe[q].gen \in 1..count' /\ generation'[pipe[q].gen].state \in Prepared
                      /\ pipe[q].gen # r.gen
    OBVIOUS
  <2>1. pipe[q].gen \in 1..count /\ generation[pipe[q].gen].state \in Prepared
    BY <1>1 DEF ThreadOk
  <2>2. pipe[q].gen \in Generations /\ pipe[q].gen # n /\ pipe[q].gen \in 1..count'
    BY <1>2, <2>1 DEF Generations, GenerationsInv, CorpusAssumption
  <2> QED BY <2>1, <2>2
<1>5. \A m \in Generations : generation'[m].state = "identity_ready" =>
         \/ Disturbed
         \/ generation'[m].owner = p /\ r.gen = m
         \/ generation'[m].owner \in Pipes \ {p} /\ pipe[generation'[m].owner].gen = m
  <2> SUFFICES ASSUME NEW m \in Generations, generation'[m].state = "identity_ready", ~Disturbed
               PROVE  \/ generation'[m].owner = p /\ r.gen = m
                      \/ generation'[m].owner \in Pipes \ {p} /\ pipe[generation'[m].owner].gen = m
    OBVIOUS
  <2>1. CASE m = n BY <2>1
  <2>2. CASE m # n
    <3>1. generation'[m] = generation[m] BY <2>2
    <3>2. pipe[generation[m].owner].gen = m BY <3>1 DEF ThreadsInv
    <3>3. generation[m].owner \in Pipes
      <4>1. RowOk(generation[m], m, count) BY DEF GenerationsInv
      <4> QED BY <3>1, <4>1 DEF RowOk, Manifests
    <3>4. m # 0 BY DEF Generations, CorpusAssumption
    <3> QED BY <3>1, <3>2, <3>3, <3>4
  <2> QED BY <2>1, <2>2
<1>6. OthersKeep(p, r) /\ AllAreOwned(p, r)
  BY <1>4, <1>5 DEF OthersKeep, AllAreOwned
<1> QED BY <1>3, <1>6, ThreadChanges

\* _prepare_generation: a generation of its own for the thread.
LEMMA PreparesOne ==
    ASSUME CorpusAssumption, IInv, NEW p \in Pipes, pipe[p].pc = "prepare",
           NEW D, NEW g, NEW inputs, inputs = Captured(registry), count < MaxGenerations,
           D = {d \in Docs : pipe[p].revisions[d] # 0},
           g = (IF p = "worker" THEN Incremental(inputs, D) ELSE Full(inputs)),
           count' = count + 1,
           generation' = [generation EXCEPT ![count + 1] = [g EXCEPT !.owner = p]],
           pipe' = [pipe EXCEPT ![p] = [@ EXCEPT !.pc = IF pipe[p].asks THEN "plan" ELSE "deferred",
                                                 !.gen = count + 1]],
           UNCHANGED <<current, knowledge, work, suspended, engine, quiet>>
    PROVE  Kept
<1> USE DEF IInv
<1> DEFINE n == count + 1
           h == [g EXCEPT !.owner = p]
           pc == IF pipe[p].asks THEN "plan" ELSE "deferred"
           r == [pipe[p] EXCEPT !.pc = pc, !.gen = n]
<1>1. registry \in Inputs /\ registry' = registry /\ available' = available BY DEF Rows, knowledge
<1>2. inputs \in Inputs /\ \A d \in Docs : d \in available => inputs[d] = registry[d]
  BY <1>1, CapturedOk
<1>3. /\ g \in Manifests /\ g.state = "identity_ready" /\ g.parent = current /\ g.inputs = inputs
  <2>1. g \in {Incremental(inputs, D), Full(inputs)} OBVIOUS
  <2>2. Rows /\ GenerationsInv /\ inputs \in Inputs BY <1>2
  <2> HIDE DEF h, r, n
  <2> QED BY <2>1, <2>2, PreparedOk
<1>4. /\ count \in 0..MaxGenerations /\ current \in 0..count /\ MaxGenerations \in Nat
      /\ n \in Generations /\ n \in Nat /\ n # 0
  BY DEF GenerationsInv, CorpusAssumption, Generations
<1>5. p # None BY DEF CorpusAssumption, Pipes
<1>6. /\ h \in Manifests /\ h.state = "identity_ready" /\ h.owner = p /\ h.parent = current
      /\ h.inputs = inputs /\ h.identities = g.identities
  BY <1>3 DEF Manifests
<1>7. pipe[p] \in Threads /\ pipe \in [Pipes -> Threads] BY DEF ThreadsInv
<1>8. pc \in Points /\ pc \in {"plan", "deferred"} /\ (pipe[p].asks => pc = "plan") BY DEF Points
<1>9. n \in 0..MaxGenerations BY <1>4
<1>10. generation' = [generation EXCEPT ![n] = h] OBVIOUS
<1>11. pipe' = [pipe EXCEPT ![p] = r] BY <1>7
<1> HIDE DEF h, pc
<1> HIDE DEF n
<1>12. r \in Threads BY <1>7, <1>8, <1>9 DEF Threads
<1>13. r.pc = pc /\ r.gen = n /\ r.stale = pipe[p].stale /\ r.revisions = pipe[p].revisions
  BY <1>7 DEF Threads
<1> HIDE DEF r
<1>14. n = count + 1 /\ count' = n BY DEF n
<1>15. GenerationsInv' /\ StaysTerminal /\ ActivatesCurrent
  <2>1. RowOk(h, n, count') BY <1>4, <1>5, <1>6, <1>14 DEF RowOk
  <2>2. n # current BY <1>4, <1>14
  <2>3. generation[n].state = "none"
    <3>1. RowOk(generation[n], n, count) BY <1>4 DEF GenerationsInv
    <3> QED BY <1>4, <1>14, <3>1 DEF RowOk
  <2> QED BY <1>4, <1>10, <1>14, <2>1, <2>2, <2>3, RowChanges
<1>16. Rows' BY DEF Rows, knowledge, engine
<1>17. \A m \in Generations : generation'[m] = IF m = n THEN h ELSE generation[m]
  BY <1>10 DEF GenerationsInv
<1>19. ThreadsInv'
  <2>1. running' <=> (IF p = "worker" THEN r.pc ELSE Worker.pc) \notin {"idle", "restart"}
    BY <1>8, <1>13 DEF ThreadsInv, engine, Worker
  <2>2. env' = env BY DEF quiet
  <2>3. GenerationsInv /\ ThreadsInv OBVIOUS
  <2>4. pipe[p].gen = 0 BY DEF ThreadsInv, ThreadOk, Holding
  <2>5. r.pc \in Holding BY <1>8, <1>13 DEF Holding
  <2>6. OneIsNew(n, h) BY <1>17 DEF OneIsNew
  <2> HIDE DEF IInv
  <2> QED
    BY <1>4, <1>6, <1>11, <1>12, <1>13, <1>14, <2>1, <2>2, <2>3, <2>4, <2>5, <2>6, ThreadPrepares
<1>20. CalmInv'
  <2>1. Undisturbed => p = "worker" BY OnlyTheWorker
  <2>2. ASSUME Undisturbed
        PROVE  /\ ~r.stale /\ r.pc = "plan" /\ Worker = pipe[p] /\ available = Docs
               /\ \A d \in Docs : r.revisions[d] <= work[d].revision
    <3>1. p = "worker" /\ Worker = pipe[p] BY <2>1, <2>2 DEF Worker
    <3>2. Worker.pc \in Busy BY <3>1 DEF Busy
    <3> QED BY <1>8, <1>13, <2>2, <3>1, <3>2 DEF CalmInv
  <2>3. current' = current /\ (current # 0 => generation'[current] = generation[current])
    <3>1. current # 0 => current \in Generations /\ current # n BY <1>4, <1>14 DEF Generations
    <3> QED BY <1>17, <3>1
  <2>4. ASSUME Undisturbed, NEW d \in Docs, registry[d] # 0,
               work[d].status = "none" \/ Held(r.revisions, d)
        PROVE  /\ generation'[r.gen].inputs[d] = registry[d]
               /\ Mentions[d] \subseteq generation'[r.gen].identities
    <3>1. generation'[r.gen] = h BY <1>4, <1>13, <1>17
    <3>2. inputs[d] = registry[d] BY <1>2, <2>2, <2>4
    <3>3. h.identities = Parent.identities \cup IdentitiesOf(inputs, D)
      <4>1. g = Incremental(inputs, D) BY <2>1, <2>4
      <4>2. Parent \in Manifests /\ NoGeneration \in Manifests BY ParentOk, EmptyOk
      <4>3. g.identities = Parent.identities \cup IdentitiesOf(inputs, D)
        BY <4>1, <4>2 DEF Incremental, Manifests
      <4> QED BY <1>6, <4>3
    <3>4. CASE work[d].status = "none"
      <4>1. Rendered(d) BY <2>4, <3>4 DEF CalmInv
      <4>2. \A i \in Mentions[d] : i \in Identities BY DEF CorpusAssumption
      <4>3. \A i \in Mentions[d] : i \in Parent.identities
        BY <2>4, <4>1, <4>2 DEF CalmInv, Rendered
      <4> QED BY <1>6, <3>1, <3>2, <3>3, <4>3
    <3>5. CASE Held(r.revisions, d)
      <4>1. d \in D BY <1>13, <3>5 DEF Held
      <4>2. d \in InputDocs(inputs) BY <2>4, <3>2 DEF InputDocs
      <4>3. Mentions[d] \subseteq IdentitiesOf(inputs, D) BY <4>1, <4>2 DEF IdentitiesOf
      <4> QED BY <1>6, <3>1, <3>2, <3>3, <4>3
    <3> QED BY <2>4, <3>4, <3>5
  <2> QED BY <1>11, <1>12, <2>1, <2>2, <2>3, <2>4, CalmMoves DEF quiet
<1> QED BY <1>15, <1>16, <1>19, <1>20 DEF Kept

\* _prepare_generation captures the inputs, and makes a generation of them or finds nothing to do.
LEMMA PrepareKept ==
    ASSUME CorpusAssumption, IInv, NEW p \in Pipes, Prepare(p)
    PROVE  Kept
<1> DEFINE inputs == Captured(registry)
           D == {d \in Docs : pipe[p].revisions[d] # 0}
           affected == IF p = "worker" THEN IdentitiesOf(inputs, D) ELSE IdentitiesOf(inputs, Docs)
           g == IF p = "worker" THEN Incremental(inputs, D) ELSE Full(inputs)
<1>1. pipe[p].pc = "prepare" /\ UNCHANGED <<knowledge, work, suspended, engine, quiet>>
  BY DEF Prepare
<1>2. pipe[p].gen = 0 BY <1>1 DEF IInv, ThreadsInv, ThreadOk, Holding
<1>3. CASE InputDocs(inputs) = {}
  <2>1. Raise(p) /\ UNCHANGED published BY <1>3 DEF Prepare
  <2> QED BY <1>1, <1>2, <2>1, RaiseKept DEF quiet
<1>4. CASE InputDocs(inputs) # {} /\ affected = {}
  <2>1. Outcome(p, "unchanged") /\ UNCHANGED published BY <1>4 DEF Prepare
  <2>2. ASSUME Undisturbed, p = "worker", NEW d \in Docs, registry[d] # 0,
               Held(Worker.revisions, d)
        PROVE  Rendered(d)
    <3>1. d \in D BY <2>2 DEF Held, Worker
    <3>2. registry \in Inputs /\ d \in available BY <2>2 DEF IInv, Rows, CalmInv
    <3>3. inputs[d] = registry[d] BY <3>2, CapturedOk
    <3>4. d \in InputDocs(inputs) BY <2>2, <3>3 DEF InputDocs
    <3>5. Mentions[d] = {} BY <1>4, <2>2, <3>1, <3>4 DEF IdentitiesOf
    <3> QED BY <3>5 DEF Rendered
  <2>3. "unchanged" \in Outcomes BY DEF Outcomes
  <2> HIDE DEF inputs, D, affected, g
  <2> QED BY <1>1, <1>2, <2>1, <2>2, <2>3, LeavesIt
<1>5. CASE InputDocs(inputs) # {} /\ affected # {}
  <2>1. /\ count < MaxGenerations /\ count' = count + 1
        /\ generation' = [generation EXCEPT ![count + 1] = [g EXCEPT !.owner = p]]
        /\ pipe' = [pipe EXCEPT ![p] = [@ EXCEPT !.pc = IF pipe[p].asks THEN "plan" ELSE "deferred",
                                                 !.gen = count + 1]]
        /\ UNCHANGED current
    BY <1>5 DEF Prepare
  <2>2. /\ inputs = Captured(registry) /\ D = {d \in Docs : pipe[p].revisions[d] # 0}
        /\ g = (IF p = "worker" THEN Incremental(inputs, D) ELSE Full(inputs))
    OBVIOUS
  <2> HIDE DEF inputs, D, affected, g
  <2> QED BY <1>1, <2>1, <2>2, PreparesOne
<1> QED BY <1>3, <1>4, <1>5


\* The thread goes on with its generation.
LEMMA GoesOn ==
    ASSUME CorpusAssumption, IInv, NEW p \in Pipes, NEW r \in Threads, pipe' = [pipe EXCEPT ![p] = r],
           pipe[p].pc \in Holding, r.pc \in {"complete", "commit"}, r.gen = pipe[p].gen,
           r.stale = pipe[p].stale, r.revisions = pipe[p].revisions,
           UNCHANGED <<knowledge, work, published, engine, quiet>>,
           suspended' \in BOOLEAN,
           Undisturbed => suspended' = suspended,
           Undisturbed => r.planned = generation[r.gen].identities
    PROVE  Kept
<1> USE DEF IInv
<1>1. GenerationsInv' /\ StaysTerminal /\ ActivatesCurrent BY NothingPublished
<1>2. Rows' BY DEF Rows, knowledge, engine
<1>3. ThreadsInv'
  <2>1. r.pc \in Holding /\ r.gen # 0 BY DEF Holding, ThreadsInv, ThreadOk
  <2>2. running' <=> (IF p = "worker" THEN r.pc ELSE Worker.pc) \notin {"idle", "restart"}
    BY DEF ThreadsInv, engine, Worker, Holding
  <2> QED BY <2>1, <2>2, ThreadMoves DEF quiet
<1>4. CalmInv'
  <2>1. Undisturbed => p = "worker" BY OnlyTheWorker DEF Holding
  <2>2. ASSUME Undisturbed
        PROVE  /\ ~r.stale /\ Worker = pipe[p] /\ Worker.pc \in {"plan", "complete", "commit"}
               /\ \A d \in Docs : r.revisions[d] <= work[d].revision
    <3>1. p = "worker" /\ Worker = pipe[p] BY <2>1, <2>2 DEF Worker
    <3>2. Worker.pc \in {"plan", "complete", "commit"} BY <2>2, <3>1 DEF CalmInv, Holding
    <3>3. Worker.pc \in Busy BY <3>2 DEF Busy
    <3> QED BY <2>2, <3>1, <3>2, <3>3 DEF CalmInv
  <2>3. current' = current /\ generation' = generation BY DEF published
  <2>4. ASSUME Undisturbed, NEW d \in Docs, registry[d] # 0,
               work[d].status = "none" \/ Held(r.revisions, d)
        PROVE  /\ generation'[r.gen].inputs[d] = registry[d]
               /\ Mentions[d] \subseteq generation'[r.gen].identities
    <3>1. Settled(d) BY <2>2, <2>4 DEF Settled
    <3> QED BY <2>2, <2>3, <2>4, <3>1 DEF CalmInv
  <2> QED BY <2>1, <2>2, <2>3, <2>4, CalmMoves DEF quiet
<1> QED BY <1>1, <1>2, <1>3, <1>4 DEF Kept

\* Goto, with a generation in work.
LEMMA GotoCommit ==
    ASSUME CorpusAssumption, IInv, NEW p \in Pipes, pipe[p].pc \in {"deferred", "complete"},
           Goto(p, "commit"), UNCHANGED <<knowledge, work, published, suspended, engine, quiet>>
    PROVE  Kept
<1> DEFINE r == [pipe[p] EXCEPT !.pc = "commit"]
<1>1. pipe[p] \in Threads /\ pipe \in [Pipes -> Threads] BY DEF IInv, ThreadsInv
<1>2. r \in Threads BY <1>1 DEF Threads, Points
<1>3. /\ r.pc = "commit" /\ r.gen = pipe[p].gen /\ r.stale = pipe[p].stale
      /\ r.revisions = pipe[p].revisions /\ r.planned = pipe[p].planned
  BY <1>1 DEF Threads
<1>4. pipe' = [pipe EXCEPT ![p] = r] BY <1>1 DEF Goto
<1> HIDE DEF r
<1>5. pipe[p].pc \in Holding BY DEF Holding
<1>6. suspended' \in BOOLEAN BY DEF IInv, Rows
<1>7. Undisturbed => r.planned = generation[r.gen].identities
  <2> SUFFICES ASSUME Undisturbed PROVE r.planned = generation[r.gen].identities OBVIOUS
  <2>1. CalmInv BY DEF IInv
  <2>2. p = "worker" BY <2>1, OnlyTheWorker
  <2>3. Worker.pc = "complete" BY <2>1, <2>2 DEF CalmInv, Worker
  <2> QED BY <1>3, <2>1, <2>2, <2>3 DEF CalmInv, Worker
<1> QED BY <1>2, <1>3, <1>4, <1>5, <1>6, <1>7, GoesOn

\* _plan_generation.
LEMMA PlanKept ==
    ASSUME CorpusAssumption, IInv, NEW p \in Pipes, Plan(p)
    PROVE  Kept
<1> DEFINE identities == generation[pipe[p].gen].identities
<1>1. /\ pipe[p].pc = "plan" /\ UNCHANGED <<knowledge, work, published, engine, quiet>>
  BY DEF Plan
<1>2. PICK planned \in SUBSET identities :
         /\ planned # identities => env \cap {"invalid", "call_fails"} # {} \/ suspended
         /\ suspended' \in {suspended} \cup
               (IF planned # identities /\ "call_fails" \in env THEN {TRUE} ELSE {})
         /\ pipe' = [pipe EXCEPT ![p] = [@ EXCEPT !.pc = "complete", !.planned = planned]]
  BY DEF Plan
<1>3. pipe[p] \in Threads /\ pipe \in [Pipes -> Threads] BY DEF IInv, ThreadsInv
<1>4. planned \in SUBSET Identities
  <2>1. pipe[p].gen \in 1..count BY <1>1 DEF IInv, ThreadsInv, ThreadOk, Holding
  <2>2. pipe[p].gen \in Generations
    BY <2>1 DEF IInv, GenerationsInv, Generations, CorpusAssumption
  <2>3. generation[pipe[p].gen] \in Manifests BY <2>2 DEF IInv, GenerationsInv
  <2> QED BY <2>3 DEF Manifests
<1> DEFINE r == [pipe[p] EXCEPT !.pc = "complete", !.planned = planned]
<1>5. r \in Threads BY <1>3, <1>4 DEF Threads, Points
<1>6. /\ r.pc = "complete" /\ r.gen = pipe[p].gen /\ r.stale = pipe[p].stale
      /\ r.revisions = pipe[p].revisions /\ r.planned = planned
  BY <1>3 DEF Threads
<1>7. pipe' = [pipe EXCEPT ![p] = r] BY <1>2, <1>3
<1> HIDE DEF r
<1>8. pipe[p].pc \in Holding BY <1>1 DEF Holding
<1>9. suspended' \in BOOLEAN BY <1>2 DEF IInv, Rows
<1>10. ASSUME Undisturbed PROVE suspended' = suspended /\ planned = identities
  <2>1. env \cap {"invalid", "call_fails"} = {} /\ "call_fails" \notin env
    BY <1>10 DEF Undisturbed
  <2>2. ~suspended BY <1>10 DEF IInv, CalmInv
  <2>3. planned = identities BY <1>2, <2>1, <2>2
  <2> QED BY <1>2, <2>3
<1> QED BY <1>1, <1>5, <1>6, <1>7, <1>8, <1>9, <1>10, GoesOn

\* A thread that is to stop, or has lost its gateway or its claim, calls no model and closes its
\* generation, if it may (_run_model_generation).
LEMMA PlanStoppedKept ==
    ASSUME CorpusAssumption, IInv, NEW p \in Pipes, PlanStopped(p)
    PROVE  Kept
<1>1. /\ pipe[p].pc = "plan" /\ UNCHANGED <<knowledge, work, suspended, engine, quiet>>
      /\ \/ Cancelled(p)
         \/ ~Own(p) /\ LateOutcome(p) /\ UNCHANGED published
  BY DEF PlanStopped
<1>2. pipe[p].pc \in Holding BY <1>1 DEF Holding
<1> QED BY <1>1, <1>2, CancelledKept, LateKept

\* _run_without_planner: only a thread that is to stop leaves its generation as it is.
LEMMA StoppedIsDisturbed ==
    ASSUME IInv, NEW p \in Pipes, ShouldStop(p)
    PROVE  Disturbed
BY DEF IInv, ThreadsInv, ThreadOk, ShouldStop, Disturbed

\* _run_without_planner: the generation goes on without a model, unless the thread is to stop.
LEMMA DeferredKept ==
    ASSUME CorpusAssumption, IInv, NEW p \in Pipes, Deferred(p)
    PROVE  Kept
<1>1. /\ pipe[p].pc = "deferred" /\ UNCHANGED <<knowledge, work, suspended, engine, quiet>>
      /\ \/ Cancelled(p)
         \/ ShouldStop(p) /\ LateOutcome(p) /\ UNCHANGED published
         \/ Goto(p, "commit") /\ UNCHANGED published
  BY DEF Deferred
<1>2. pipe[p].pc \in Holding BY <1>1 DEF Holding
<1> QED BY <1>1, <1>2, CancelledKept, LateKept, GotoCommit, StoppedIsDisturbed

\* _complete_generation, before its transaction: should_stop and the inputs are tested.
LEMMA CompleteCheckKept ==
    ASSUME CorpusAssumption, IInv, NEW p \in Pipes, CompleteCheck(p)
    PROVE  Kept
<1>1. /\ pipe[p].pc = "complete" /\ UNCHANGED <<knowledge, work, suspended, engine, quiet>>
      /\ \/ Cancelled(p)
         \/ ~Own(p) /\ LateOutcome(p) /\ UNCHANGED published
         \/ Goto(p, "commit") /\ UNCHANGED published
  BY DEF CompleteCheck
<1>2. pipe[p].pc \in Holding BY <1>1 DEF Holding
<1> QED BY <1>1, <1>2, CancelledKept, LateKept, GotoCommit

\* The second transaction of a generation, when it becomes the current one.
LEMMA CommitsIt ==
    ASSUME CorpusAssumption, IInv, NEW p \in Pipes, pipe[p].pc = "commit", NEW n, n = pipe[p].gen,
           NEW g, g = Built(generation[n], pipe[p].planned), Own(p), Compatible(g, registry),
           generation' = Activated(generation, n, g), current' = n, Outcome(p, "active"),
           UNCHANGED <<knowledge, work, count, suspended, engine, quiet>>
    PROVE  Kept
<1> DEFINE old == generation[n]
<1>1. GenerationsInv /\ ThreadsInv /\ Rows /\ CalmInv BY DEF IInv
<1>2. n \in 1..count /\ n # 0 BY <1>1 DEF ThreadsInv, ThreadOk, Holding
<1>3. /\ count \in 0..MaxGenerations /\ current \in 0..count /\ MaxGenerations \in Nat
      /\ n \in Generations
  BY <1>1, <1>2 DEF GenerationsInv, CorpusAssumption, Generations
<1>4. old \in Manifests /\ RowOk(old, n, count) BY <1>1, <1>3 DEF GenerationsInv
<1>5. old.state = "identity_ready"
  <2>1. old.owner # None BY DEF Own, CorpusAssumption, Pipes
  <2> QED BY <1>4, <2>1 DEF RowOk
<1>6. /\ g \in Manifests /\ g.parent = old.parent /\ g.inputs = old.inputs
      /\ \A i \in Identities : g.pages[i] # {} => i \in g.identities
      /\ \A i \in Identities : \A c \in g.pages[i] :
            c[1] \in available \/ c[1] \in InputDocs(old.inputs)
      /\ \A i \in old.identities :
            g.pages[i] = IF i \in pipe[p].planned /\ Claims(old.inputs, i) # {}
                         THEN Claims(old.inputs, i) ELSE Carried(old, i)
  <2>1. g = Built(old, pipe[p].planned) OBVIOUS
  <2>2. GenerationsInv /\ old \in Manifests BY <1>1, <1>4
  <2> HIDE DEF old
  <2> QED BY <2>1, <2>2, BuiltOk
<1>7. registry' = registry /\ available' = available BY DEF knowledge
<1>8. /\ \A d \in InputDocs(g.inputs) : d \in available' /\ g.inputs[d] = registry'[d]
      /\ \A i \in Identities : \A c \in g.pages[i] : c[1] \in available'
  BY <1>6, <1>7 DEF Compatible
<1>9. g.parent \in 0..(n - 1) BY <1>4, <1>6 DEF RowOk
<1>10. /\ GenerationsInv' /\ StaysTerminal /\ ActivatesCurrent
       /\ n # current
       /\ \A m \in Generations : generation'[m].state = "identity_ready" =>
             m # n /\ generation'[m] = generation[m]
       /\ \A m \in Generations : m # n /\ generation[m].state \in Prepared =>
             generation'[m] = generation[m]
       /\ generation'[n].pages = g.pages /\ generation'[n].identities = g.identities
  <2>1. count' = count /\ n <= count BY <1>2, <1>3
  <2> QED BY <1>1, <1>3, <1>5, <1>6, <1>8, <1>9, <2>1, Activates
<1>11. Rows' BY <1>1 DEF Rows, knowledge, engine
<1>12. PICK r \in Threads :
          /\ pipe' = [pipe EXCEPT ![p] = r]
          /\ r.gen = 0 /\ r.pc = (IF p = "worker" THEN "finish" ELSE "idle") /\ r.outcome = "active"
          /\ r.stale = pipe[p].stale /\ r.revisions = pipe[p].revisions
  BY <1>1, OutcomeOk DEF Outcomes
<1>13. ThreadsInv'
  <2>1. r.pc \notin Holding BY <1>12 DEF Holding
  <2>2. running' <=> (IF p = "worker" THEN r.pc ELSE Worker.pc) \notin {"idle", "restart"}
    BY <1>1, <1>12 DEF ThreadsInv, engine, Worker
  <2>3. generation'[n].state # "identity_ready" BY <1>3, <1>10
  <2>4. env' = env /\ count' = count BY DEF quiet
  <2> HIDE DEF old
  <2> QED BY <1>1, <1>2, <1>10, <1>12, <2>1, <2>2, <2>3, <2>4, ThreadCloses
<1>14. CalmInv'
  <2> SUFFICES ASSUME Undisturbed' PROVE CalmInv' BY DEF CalmInv
  <2>1. Undisturbed BY DEF Undisturbed, quiet
  <2>2. p = "worker" /\ Worker = pipe[p] /\ Worker.pc = "commit"
    BY <1>1, <2>1, OnlyTheWorker DEF Worker
  <2>3. Worker' = r /\ pipe'["reanalysis"] = pipe["reanalysis"]
    BY <1>1, <1>12, <2>2 DEF ThreadsInv, Pipes, Worker
  <2>4. r.pc = "finish" /\ r.revisions = Worker.revisions /\ ~r.stale
    BY <1>1, <1>12, <2>1, <2>2 DEF CalmInv
  <2>5. Parent' = generation'[n] BY <1>2 DEF Parent
  <2>6. Parent'.pages = g.pages /\ Parent'.identities = g.identities BY <1>10, <2>5
  <2>7. /\ available = Docs /\ ~suspended /\ pipe["reanalysis"].pc = "idle"
        /\ \A d \in Docs : Worker.revisions[d] <= work[d].revision
        /\ pipe[p].planned = old.identities
        /\ \A d \in Docs : Settled(d) =>
              old.inputs[d] = registry[d] /\ Mentions[d] \subseteq old.identities
    BY <1>1, <2>1, <2>2 DEF CalmInv, Busy
  <2>8. ASSUME NEW d \in Docs, Settled(d) PROVE Rendered(d)'
    <3> SUFFICES ASSUME NEW i \in Mentions[d] PROVE <<d, registry'[d]>> \in Parent'.pages[i]
      BY DEF Rendered
    <3>1. i \in old.identities /\ i \in pipe[p].planned BY <2>7, <2>8
    <3>2. old.inputs[d] = registry[d] /\ registry[d] # 0 BY <2>7, <2>8 DEF Settled
    <3>3. <<d, registry[d]>> \in Claims(old.inputs, i) BY <3>2 DEF Claims, InputDocs
    <3>4. g.pages[i] = Claims(old.inputs, i) BY <1>6, <3>1, <3>3
    <3> QED BY <1>7, <2>6, <3>3, <3>4
  <2>9. \A d \in Docs : Settled(d)' => Settled(d)
    BY <1>7, <2>3, <2>4 DEF Settled, Held
  <2>10. \A d \in Docs : registry'[d] # 0 /\ work'[d].status = "none" => Rendered(d)'
    BY <1>7, <2>8 DEF Settled
  <2>11. available' = Docs /\ ~suspended' /\ work' = work BY <1>7, <2>7
  <2> HIDE DEF old
  <2> QED BY <1>6, <2>3, <2>4, <2>6, <2>7, <2>8, <2>9, <2>10, <2>11 DEF CalmInv
<1> QED BY <1>10, <1>11, <1>13, <1>14 DEF Kept, IInv

\* _complete_generation, in its transaction: the pages are built of inputs that are current, and
\* the generation is activated, or it is closed.
LEMMA CommitKept ==
    ASSUME CorpusAssumption, IInv, NEW p \in Pipes, Commit(p)
    PROVE  Kept
<1> DEFINE n == pipe[p].gen  g == Built(generation[n], pipe[p].planned)
<1>1. pipe[p].pc = "commit" /\ UNCHANGED <<knowledge, work, count, suspended, engine, quiet>>
  BY DEF Commit
<1>2. pipe[p].pc \in Holding BY <1>1 DEF Holding
<1>3. CASE ~Own(p) /\ LateOutcome(p) /\ UNCHANGED <<generation, current>>
  BY <1>1, <1>2, <1>3, LateKept DEF published
<1>4. ASSUME NEW s \in {"failed", "superseded"}, Outcome(p, s), UNCHANGED current,
             generation' = [generation EXCEPT ![n] = Closed(@, s)]
      PROVE  Kept
  <2>1. generation' = [generation EXCEPT ![n] = Closed(generation[n], s)] BY <1>4
  <2> QED BY <1>1, <1>2, <1>4, <2>1, ClosesIt
<1>5. CASE /\ Own(p) /\ Compatible(g, registry)
           /\ generation' = Activated(generation, n, g) /\ current' = n /\ Outcome(p, "active")
  <2> HIDE DEF n, g
  <2>1. n = pipe[p].gen /\ g = Built(generation[n], pipe[p].planned) BY DEF n, g
  <2> QED BY <1>1, <1>5, <2>1, CommitsIt
<1> QED BY <1>3, <1>4, <1>5 DEF Commit


-----------------------------------------------------------------------------
(* The worker.                                                             *)

\* The worker goes on with r, outside of the pipeline.
LEMMA WorkerMoves ==
    ASSUME CorpusAssumption, IInv, NEW r \in Threads, pipe' = [pipe EXCEPT !["worker"] = r],
           UNCHANGED <<knowledge, work, published, suspended, env>>,
           Worker.pc \notin Holding, r.gen = 0, r.pc \in Points \ Holding, r.pc # "prepare", r.pc # "finish",
           r.pc = "begin" => \A d \in Docs : r.revisions[d] <= work[d].revision,
           r.stale => Worker.stale,
           active' \in BOOLEAN, rerun' \in BOOLEAN, running' \in BOOLEAN, gateway' \in 0..3,
           running' <=> r.pc \notin {"idle", "restart"}
    PROVE  Kept
<1> USE DEF IInv
<1>1. GenerationsInv' /\ StaysTerminal /\ ActivatesCurrent BY NothingPublished
<1>2. Rows' BY DEF Rows, knowledge
<1>3. "worker" \in Pipes /\ Worker = pipe["worker"] BY DEF Pipes, Worker
<1>4. pipe["worker"].gen = 0 BY <1>3 DEF ThreadsInv, ThreadOk
<1>5. ThreadsInv'
  <2>1. r.gen # 0 <=> r.pc \in Holding OBVIOUS
  <2> QED BY <1>3, <1>4, <2>1, ThreadMoves
<1>6. CalmInv'
  <2>1. Undisturbed => ~r.stale BY DEF CalmInv
  <2>2. r.pc \notin {"deferred", "prepare", "plan", "complete", "commit", "finish"} BY DEF Holding
  <2>3. r.pc \in Busy => \A d \in Docs : r.revisions[d] <= work[d].revision BY <2>2 DEF Busy
  <2>4. current' = current /\ (current # 0 => generation'[current] = generation[current])
    BY DEF published
  <2> QED BY <1>3, <2>1, <2>2, <2>3, <2>4, CalmMoves
<1> QED BY <1>1, <1>2, <1>5, <1>6 DEF Kept

\* The threads are left alone.
LEMMA PipeStays ==
    ASSUME CorpusAssumption, IInv, UNCHANGED <<knowledge, work, published, suspended, env, pipe, running>>,
           active' \in BOOLEAN, rerun' \in BOOLEAN, gateway' \in 0..3
    PROVE  Kept
<1> USE DEF IInv
<1>1. GenerationsInv' /\ StaysTerminal /\ ActivatesCurrent BY NothingPublished
<1>2. Rows' BY DEF Rows, knowledge
<1>3. ThreadsInv' BY ThreadsStay DEF published
<1>4. CalmInv'
  BY DEF CalmInv, Undisturbed, Worker, Parent, Settled, Held, Rendered, knowledge, published
<1> QED BY <1>1, <1>2, <1>3, <1>4 DEF Kept

\* A thread that does nothing.
LEMMA IdleOk ==
    ASSUME CorpusAssumption
    PROVE  /\ Idle \in Threads /\ Idle.pc = "idle" /\ Idle.gen = 0 /\ ~Idle.stale
           /\ \A pc \in Points : [Idle EXCEPT !.pc = pc] \in Threads
                              /\ [Idle EXCEPT !.pc = pc].pc = pc /\ [Idle EXCEPT !.pc = pc].gen = 0
                              /\ ~[Idle EXCEPT !.pc = pc].stale
           /\ \A g \in 0..3 : [Idle EXCEPT !.pc = "restart", !.gw = g] \in Threads
                            /\ [Idle EXCEPT !.pc = "restart", !.gw = g].pc = "restart"
                            /\ [Idle EXCEPT !.pc = "restart", !.gw = g].gen = 0
                            /\ ~[Idle EXCEPT !.pc = "restart", !.gw = g].stale
<1>1. 0 \in 0..MaxGenerations /\ 0 \in 0..3 BY DEF CorpusAssumption
<1>2. Idle \in Threads BY <1>1 DEF Idle, Threads, Points, Outcomes
<1>3. Idle.pc = "idle" /\ Idle.gen = 0 /\ Idle.stale = FALSE BY DEF Idle
<1> QED BY <1>2, <1>3 DEF Threads, Points

\* What the worker is when it changes nothing but its place.
LEMMA WorkerGoes ==
    ASSUME CorpusAssumption, IInv, NEW pc \in {"top", "final"}, Goto("worker", pc),
           Worker.pc \in {"top", "list", "finish", "raised"}
    PROVE  \E r \in Threads : /\ pipe' = [pipe EXCEPT !["worker"] = r]
                              /\ r.pc = pc /\ r.gen = 0 /\ r.stale = Worker.stale
<1> DEFINE r == [pipe["worker"] EXCEPT !.pc = pc]
<1>1. pipe["worker"] \in Threads /\ pipe \in [Pipes -> Threads] /\ "worker" \in Pipes
  BY DEF IInv, ThreadsInv, Pipes
<1>2. pipe["worker"].gen = 0 BY <1>1 DEF IInv, ThreadsInv, ThreadOk, Holding, Worker
<1>3. r \in Threads /\ r.pc = pc /\ r.gen = 0 /\ r.stale = Worker.stale
  BY <1>1, <1>2 DEF Threads, Points, Worker
<1>4. pipe' = [pipe EXCEPT !["worker"] = r] BY <1>1 DEF Goto
<1> HIDE DEF r
<1> QED BY <1>3, <1>4

\* The loop of _run: leave, or list the queue for the gateway of now.
LEMMA TopKept ==
    ASSUME CorpusAssumption, IInv, Top
    PROVE  Kept
<1>1. /\ Worker.pc = "top" /\ env' = env /\ rerun' \in BOOLEAN
      /\ UNCHANGED <<knowledge, work, published, suspended, active, gateway, running>>
  BY DEF Top, quiet, IInv, Rows
<1>2. active' \in BOOLEAN /\ running' \in BOOLEAN /\ gateway' \in 0..3 /\ running'
  BY <1>1 DEF IInv, Rows, ThreadsInv
<1>3. Worker.pc \notin Holding BY <1>1 DEF Holding
<1>4. CASE Goto("worker", "final")
  <2>1. PICK r \in Threads : /\ pipe' = [pipe EXCEPT !["worker"] = r]
                             /\ r.pc = "final" /\ r.gen = 0 /\ r.stale = Worker.stale
    BY <1>1, <1>4, WorkerGoes
  <2>2. r.pc \in Points \ Holding BY <2>1 DEF Points, Holding
  <2> QED BY <1>1, <1>2, <1>3, <2>1, <2>2, WorkerMoves
<1>5. CASE pipe' = [pipe EXCEPT !["worker"] = [@ EXCEPT !.pc = "list", !.gw = gateway]]
  <2> DEFINE r == [pipe["worker"] EXCEPT !.pc = "list", !.gw = gateway]
  <2>1. pipe["worker"] \in Threads /\ pipe \in [Pipes -> Threads] /\ "worker" \in Pipes
    BY DEF IInv, ThreadsInv, Pipes
  <2>2. pipe["worker"].gen = 0 BY <1>1, <2>1 DEF IInv, ThreadsInv, ThreadOk, Holding, Worker
  <2>3. gateway \in 0..3 BY DEF IInv, Rows
  <2>4. r \in Threads /\ r.pc = "list" /\ r.gen = 0 /\ r.stale = Worker.stale
    BY <2>1, <2>2, <2>3 DEF Threads, Points, Worker
  <2>5. pipe' = [pipe EXCEPT !["worker"] = r] BY <1>5, <2>1
  <2> HIDE DEF r
  <2>6. r.pc \in Points \ Holding BY <2>4 DEF Points, Holding
  <2> QED BY <1>1, <1>2, <1>3, <2>4, <2>5, <2>6, WorkerMoves
<1> QED BY <1>4, <1>5 DEF Top

\* The revisions that are pending are listed (CorpusWorkQueue.pending).
LEMMA ListKept ==
    ASSUME CorpusAssumption, IInv, List
    PROVE  Kept
<1>1. /\ Worker.pc = "list" /\ env' = env
      /\ UNCHANGED <<knowledge, work, published, suspended, engine>>
  BY DEF List, quiet
<1>2. /\ active' \in BOOLEAN /\ rerun' \in BOOLEAN /\ running' \in BOOLEAN /\ gateway' \in 0..3
      /\ running'
  BY <1>1 DEF IInv, Rows, ThreadsInv, engine
<1>3. Worker.pc \notin Holding BY <1>1 DEF Holding
<1> DEFINE pc == IF \A d \in Docs : PendingRevisions[d] = 0 THEN "final" ELSE "begin"
           r == [pipe["worker"] EXCEPT !.pc = pc, !.revisions = PendingRevisions]
<1>4. pipe["worker"] \in Threads /\ pipe \in [Pipes -> Threads] /\ "worker" \in Pipes
  BY DEF IInv, ThreadsInv, Pipes
<1>5. pipe["worker"].gen = 0 BY <1>1, <1>4 DEF IInv, ThreadsInv, ThreadOk, Holding, Worker
<1>6. /\ PendingRevisions \in [Docs -> Nat]
      /\ \A d \in Docs : PendingRevisions[d] <= work[d].revision
  <2>1. \A d \in Docs : work[d].revision \in Nat BY DEF IInv, Rows
  <2> QED BY <2>1 DEF PendingRevisions
<1>7. pc \in {"final", "begin"} OBVIOUS
<1>8. pipe' = [pipe EXCEPT !["worker"] = r] BY <1>4 DEF List
<1> HIDE DEF pc
<1>9. pc \in Points BY <1>7 DEF Points
<1>10. r \in Threads BY <1>4, <1>6, <1>9 DEF Threads
<1>11. r.pc = pc /\ r.gen = 0 /\ r.stale = Worker.stale /\ r.revisions = PendingRevisions
  BY <1>4, <1>5 DEF Threads, Worker
<1> HIDE DEF r
<1>12. r.pc \in Points \ Holding BY <1>7, <1>9, <1>11 DEF Holding
<1> QED BY <1>1, <1>2, <1>3, <1>6, <1>7, <1>8, <1>10, <1>11, <1>12, WorkerMoves

\* The end of _run: a thread that was asked to run again restarts, another one leaves.
LEMMA FinalKept ==
    ASSUME CorpusAssumption, IInv, Final
    PROVE  Kept
<1>1. /\ Worker.pc = "final" /\ env' = env /\ gateway' = 0 /\ rerun' = FALSE /\ running' = FALSE
      /\ UNCHANGED <<knowledge, work, published, suspended, active>>
  BY DEF Final, quiet
<1>2. Worker.pc \notin Holding BY <1>1 DEF Holding
<1>3. /\ gateway \in 0..3 /\ active \in BOOLEAN /\ active' \in BOOLEAN /\ gateway' \in 0..3
      /\ rerun' \in BOOLEAN /\ running' \in BOOLEAN
  <2>1. gateway \in 0..3 /\ active \in BOOLEAN BY DEF IInv, Rows
  <2>2. 0 \in 0..3 OBVIOUS
  <2> QED BY <1>1, <2>1, <2>2
<1>4. \E r \in Threads : /\ pipe' = [pipe EXCEPT !["worker"] = r] /\ r.gen = 0 /\ ~r.stale
                         /\ r.pc \in {"idle", "restart"}
  <2>1. CASE rerun /\ gateway # 0
    <3>1. pipe' = [pipe EXCEPT !["worker"] = [Idle EXCEPT !.pc = "restart", !.gw = gateway]]
      BY <2>1 DEF Final
    <3> QED BY <1>3, <3>1, IdleOk
  <2>2. CASE ~(rerun /\ gateway # 0)
    <3>1. pipe' = [pipe EXCEPT !["worker"] = Idle] BY <2>2 DEF Final
    <3> QED BY <3>1, IdleOk
  <2> QED BY <2>1, <2>2
<1>5. PICK r \in Threads : /\ pipe' = [pipe EXCEPT !["worker"] = r] /\ r.gen = 0 /\ ~r.stale
                           /\ r.pc \in {"idle", "restart"}
  BY <1>4
<1>6. r.pc \in Points \ Holding BY <1>5 DEF Points, Holding
<1> QED BY <1>1, <1>2, <1>3, <1>5, <1>6, WorkerMoves

\* A thread that is to restart starts a worker as any caller does (CorpusSynthesisWorkers.start).
LEMMA RestartKept ==
    ASSUME CorpusAssumption, IInv, Restart
    PROVE  Kept
<1>1. /\ Worker.pc = "restart" /\ env' = env
      /\ Start(Worker.gw, [pipe EXCEPT !["worker"] = Idle])
      /\ UNCHANGED <<knowledge, work, published, suspended, active>>
  BY DEF Restart, quiet
<1>2. Worker.pc \notin Holding /\ ~running BY <1>1 DEF Holding, IInv, ThreadsInv
<1>3. /\ gateway \in 0..3 /\ active \in BOOLEAN /\ rerun \in BOOLEAN /\ running = FALSE
      /\ pipe \in [Pipes -> Threads] /\ Worker.gw \in 0..3
  BY <1>2 DEF IInv, Rows, ThreadsInv, Worker, Pipes, Threads
<1>4. CASE ~active
  <2>1. /\ UNCHANGED <<gateway, rerun, running>> /\ pipe' = [pipe EXCEPT !["worker"] = Idle]
    BY <1>1, <1>4 DEF Start
  <2>2. Idle \in Threads /\ Idle.pc = "idle" /\ Idle.gen = 0 /\ ~Idle.stale BY IdleOk
  <2>3. Idle.pc \in Points \ Holding BY <2>2 DEF Points, Holding
  <2> QED BY <1>1, <1>2, <1>3, <2>1, <2>2, <2>3, WorkerMoves
<1>5. CASE active
  <2> DEFINE r == [Idle EXCEPT !.pc = "top"]
  <2>1. gateway' = Worker.gw /\ running' = TRUE /\ rerun' = (rerun \/ running)
    BY <1>1, <1>5 DEF Start
  <2>2. pipe' = [[pipe EXCEPT !["worker"] = Idle] EXCEPT !["worker"] = r]
    BY <1>1, <1>3, <1>5 DEF Start
  <2>3. pipe' = [pipe EXCEPT !["worker"] = r] BY <1>3, <2>2
  <2>4. r \in Threads /\ r.pc = "top" /\ r.gen = 0 /\ ~r.stale BY IdleOk DEF Points
  <2> HIDE DEF r
  <2>5. r.pc \in Points \ Holding BY <2>4 DEF Points, Holding
  <2>6. rerun' \in BOOLEAN /\ active' \in BOOLEAN /\ gateway' \in 0..3 BY <1>1, <1>3, <2>1
  <2> QED BY <1>1, <1>2, <2>1, <2>3, <2>4, <2>5, <2>6, WorkerMoves
<1> QED BY <1>3, <1>4, <1>5

\* CorpusWorkQueue.finish, after the generation or after an exception.
LEMMA FinishesWork ==
    ASSUME CorpusAssumption, IInv, NEW pc \in {"top", "final"}, Goto("worker", pc),
           Worker.pc \in {"finish", "raised"}, NEW done \in BOOLEAN,
           work' = work \/ work' = Finished(Worker.revisions, done),
           done => Worker.pc = "finish" /\ Worker.outcome \in {"active", "unchanged"},
           UNCHANGED <<knowledge, published, suspended, engine, quiet>>
    PROVE  Kept
<1>1. GenerationsInv /\ ThreadsInv /\ Rows /\ CalmInv BY DEF IInv
<1>2. PICK r \in Threads : /\ pipe' = [pipe EXCEPT !["worker"] = r]
                           /\ r.pc = pc /\ r.gen = 0 /\ r.stale = Worker.stale
  BY WorkerGoes
<1>3. GenerationsInv' /\ StaysTerminal /\ ActivatesCurrent BY <1>1, NothingPublished
<1>4. "worker" \in Pipes /\ Worker = pipe["worker"] /\ Worker.revisions \in [Docs -> Nat]
  BY <1>1 DEF Pipes, Worker, ThreadsInv, Threads
<1>5. /\ work' \in [Docs -> [status : {"none", "pending", "failed"}, revision : Nat]]
      /\ \A d \in Docs : work'[d].status = "none" =>
            work[d].status = "none" \/ (done /\ Held(Worker.revisions, d))
  <2>1. CASE work' = work BY <1>1, <2>1 DEF Rows
  <2>2. CASE work' = Finished(Worker.revisions, done) BY <1>1, <1>4, <2>2, FinishedOk
  <2> QED BY <2>1, <2>2
<1>6. Rows' BY <1>1, <1>5 DEF Rows, knowledge, engine
<1>7. r.pc \notin Holding /\ r.pc \notin {"idle", "restart"} BY <1>2 DEF Holding
<1>8. ThreadsInv'
  <2>1. running' BY <1>1 DEF ThreadsInv, engine
  <2>2. pipe["worker"].gen = 0 BY <1>1, <1>4 DEF ThreadsInv, ThreadOk, Holding
  <2>3. env' = env BY DEF quiet
  <2> QED BY <1>1, <1>2, <1>4, <1>7, <2>1, <2>2, <2>3, ThreadMoves
<1>9. CalmInv'
  <2> SUFFICES ASSUME Undisturbed' PROVE CalmInv' BY DEF CalmInv
  <2>1. Undisturbed BY DEF Undisturbed, quiet
  <2>2. Worker' = r /\ pipe'["reanalysis"] = pipe["reanalysis"]
    BY <1>1, <1>2 DEF ThreadsInv, Pipes, Worker
  <2>3. Parent' = Parent /\ registry' = registry /\ available' = available /\ suspended' = suspended
    BY DEF Parent, knowledge, published
  <2>4. \A d \in Docs : registry'[d] # 0 /\ work'[d].status = "none" => Rendered(d)'
    <3> SUFFICES ASSUME NEW d \in Docs, registry[d] # 0, work'[d].status = "none"
                 PROVE  Rendered(d)'
      BY <2>3
    <3>1. Rendered(d) BY <1>1, <1>5, <2>1 DEF CalmInv, Settled
    <3> QED BY <2>3, <3>1 DEF Rendered
  <2>5. r.pc \notin Busy /\ r.pc \notin {"deferred", "prepare", "plan", "complete", "commit", "finish"}
    BY <1>2 DEF Busy
  <2>6. /\ available' = Docs /\ ~suspended' /\ pipe'["reanalysis"].pc = "idle" /\ ~r.stale
        /\ \A i \in Identities : Parent'.pages[i] # {} => i \in Parent'.identities
    BY <1>1, <1>2, <2>1, <2>2, <2>3 DEF CalmInv
  <2> QED BY <2>2, <2>4, <2>5, <2>6 DEF CalmInv
<1> QED BY <1>3, <1>6, <1>8, <1>9 DEF Kept, IInv

\* CorpusWorkQueue.finish: of what was listed, the revisions that are still the latest are done.
LEMMA FinishKept ==
    ASSUME CorpusAssumption, IInv, Finish
    PROVE  Kept
<1> DEFINE done == Worker.outcome \in {"active", "unchanged"}
<1>1. /\ Worker.pc = "finish" /\ UNCHANGED <<knowledge, published, suspended, engine, quiet>>
      /\ Goto("worker", "final") \/ Goto("worker", "top")
      /\ work' = work \/ work' = Finished(Worker.revisions, done)
  BY DEF Finish
<1>2. done \in BOOLEAN /\ (done => Worker.outcome \in {"active", "unchanged"}) OBVIOUS
<1> HIDE DEF done
<1> QED BY <1>1, <1>2, FinishesWork

\* After an error the revisions of the list are finished as failed.
LEMMA RaisedKept ==
    ASSUME CorpusAssumption, IInv, Raised
    PROVE  Kept
BY FinishesWork DEF Raised


-----------------------------------------------------------------------------
(* Imports, the user, and the rest of the engine.                          *)

\* NewGateway is a gateway that neither the worker nor the engine has.
LEMMA NewGatewayOk == NewGateway \in 0..3
<1>1. \E g \in 1..3 : g # gateway /\ g # Worker.gw
  <2>1. \/ 1 # gateway /\ 1 # Worker.gw
        \/ 2 # gateway /\ 2 # Worker.gw
        \/ 3 # gateway /\ 3 # Worker.gw
    OBVIOUS
  <2> QED BY <2>1
<1>2. NewGateway \in 1..3 BY <1>1 DEF NewGateway
<1> QED BY <1>2

\* run_import starts the worker once its document is published.
LEMMA StartAfterImportKept ==
    ASSUME CorpusAssumption, IInv, StartAfterImport
    PROVE  Kept
<1>1. /\ env' = env /\ Start(NewGateway, pipe)
      /\ UNCHANGED <<knowledge, work, published, suspended, active>>
  BY DEF StartAfterImport, Event
<1>2. /\ gateway \in 0..3 /\ active \in BOOLEAN /\ active' \in BOOLEAN /\ rerun \in BOOLEAN
      /\ running \in BOOLEAN
  BY <1>1 DEF IInv, Rows
<1>3. CASE ~active
  <2>1. UNCHANGED <<gateway, rerun, running, pipe>> BY <1>1, <1>3 DEF Start
  <2> QED BY <1>1, <1>2, <2>1, PipeStays
<1>4. CASE active
  <2>1. /\ gateway' = NewGateway /\ running' = TRUE /\ rerun' = (rerun \/ running)
        /\ pipe' = IF running THEN pipe ELSE [pipe EXCEPT !["worker"] = [Idle EXCEPT !.pc = "top"]]
    BY <1>1, <1>4 DEF Start
  <2>2. gateway' \in 0..3 /\ rerun' \in BOOLEAN BY <1>2, <2>1, NewGatewayOk
  <2>3. CASE running
    <3>1. UNCHANGED <<pipe, running>> BY <1>2, <2>1, <2>3
    <3> QED BY <1>1, <1>2, <2>2, <3>1, PipeStays
  <2>4. CASE ~running
    <3> DEFINE r == [Idle EXCEPT !.pc = "top"]
    <3>1. pipe' = [pipe EXCEPT !["worker"] = r] BY <2>1, <2>4
    <3>2. r \in Threads /\ r.pc = "top" /\ r.gen = 0 /\ ~r.stale BY IdleOk DEF Points
    <3> HIDE DEF r
    <3>3. r.pc \in Points \ Holding BY <3>2 DEF Points, Holding
    <3>4. Worker.pc \notin Holding BY <2>4 DEF IInv, ThreadsInv, Holding
    <3> QED BY <1>1, <1>2, <2>1, <2>2, <3>1, <3>2, <3>3, <3>4, WorkerMoves
  <2> QED BY <2>3, <2>4
<1> QED BY <1>2, <1>3, <1>4

\* A document has news, which are queued, and no page is lost.
LEMMA CalmGrows ==
    ASSUME CorpusAssumption, IInv, NEW d \in Docs, work' = Enqueued(work, d),
           UNCHANGED <<available, suspended, env, pipe>>,
           \A e \in Docs \ {d} : registry'[e] = registry[e],
           Undisturbed => \A i \in Identities : Parent'.pages[i] # {} => i \in Parent'.identities,
           Undisturbed => \A i \in Parent.identities : Parent'.pages[i] = Parent.pages[i],
           Worker.pc \in Holding => generation'[Worker.gen] = generation[Worker.gen]
    PROVE  CalmInv'
<1>1. GenerationsInv /\ ThreadsInv /\ Rows /\ CalmInv BY DEF IInv
<1> SUFFICES ASSUME Undisturbed' PROVE CalmInv' BY DEF CalmInv
<1>2. Undisturbed BY DEF Undisturbed
<1>3. Worker' = Worker BY DEF Worker
<1>4. /\ work' \in [Docs -> [status : {"none", "pending", "failed"}, revision : Nat]]
      /\ work'[d].status = "pending" /\ work'[d].revision = work[d].revision + 1
      /\ \A e \in Docs \ {d} : work'[e] = work[e]
  BY <1>1, EnqueuedOk
<1>5. /\ \A e \in Docs : work[e].revision \in Nat
      /\ \A e \in Docs : Worker.revisions[e] \in Nat
  BY <1>1 DEF Rows, ThreadsInv, Worker, Threads, Pipes
<1>6. Worker.pc \in Busy => \A e \in Docs : /\ Worker.revisions[e] <= work[e].revision
                                           /\ Worker.revisions[e] <= work'[e].revision
  <2>1. Worker.pc \in Busy => \A e \in Docs : Worker.revisions[e] <= work[e].revision
    BY <1>1, <1>2 DEF CalmInv
  <2> SUFFICES ASSUME Worker.pc \in Busy, NEW e \in Docs
               PROVE  Worker.revisions[e] <= work'[e].revision
    BY <2>1
  <2>2. CASE e = d BY <1>4, <1>5, <2>1, <2>2
  <2>3. CASE e # d BY <1>4, <2>1, <2>3
  <2> QED BY <2>2, <2>3
<1>7. ASSUME NEW e \in Docs, Rendered(e), e # d PROVE Rendered(e)'
  <2> SUFFICES ASSUME NEW i \in Mentions[e] PROVE <<e, registry'[e]>> \in Parent'.pages[i]
    BY DEF Rendered
  <2>1. <<e, registry[e]>> \in Parent.pages[i] BY <1>7 DEF Rendered
  <2>2. i \in Identities BY DEF CorpusAssumption
  <2>3. i \in Parent.identities BY <1>1, <1>2, <2>1, <2>2 DEF CalmInv
  <2>4. Parent'.pages[i] = Parent.pages[i] BY <1>2, <2>3
  <2> QED BY <1>7, <2>1, <2>4
<1>8. ASSUME NEW e \in Docs, Settled(e)', Worker.pc \in Busy PROVE e # d /\ Settled(e)
  <2>1. e # d
    <3> SUFFICES ASSUME e = d PROVE FALSE OBVIOUS
    <3>1. work'[d].revision = Worker.revisions[d] BY <1>3, <1>4, <1>8 DEF Settled, Held
    <3>2. Worker.revisions[d] <= work[d].revision BY <1>6, <1>8
    <3> QED BY <1>4, <1>5, <3>1, <3>2
  <2>2. registry'[e] = registry[e] /\ work'[e] = work[e] BY <1>4, <2>1
  <2> QED BY <1>3, <1>8, <2>1, <2>2 DEF Settled, Held
<1>9. Worker.pc \in {"plan", "complete", "commit"} =>
         \A e \in Docs : Settled(e)' =>
             /\ generation'[Worker.gen].inputs[e] = registry'[e]
             /\ Mentions[e] \subseteq generation'[Worker.gen].identities
  <2> SUFFICES ASSUME Worker.pc \in {"plan", "complete", "commit"}, NEW e \in Docs, Settled(e)'
               PROVE  /\ generation'[Worker.gen].inputs[e] = registry'[e]
                      /\ Mentions[e] \subseteq generation'[Worker.gen].identities
    OBVIOUS
  <2>1. Worker.pc \in Busy /\ Worker.pc \in Holding BY DEF Busy, Holding
  <2>2. e # d /\ Settled(e) BY <1>8, <2>1
  <2>3. registry'[e] = registry[e] BY <2>2
  <2> QED BY <1>1, <1>2, <2>1, <2>2, <2>3 DEF CalmInv
<1>10. Worker.pc = "finish" /\ Worker.outcome \in {"active", "unchanged"} =>
          \A e \in Docs : Settled(e)' => Rendered(e)'
  <2> SUFFICES ASSUME Worker.pc = "finish", Worker.outcome \in {"active", "unchanged"},
                      NEW e \in Docs, Settled(e)'
               PROVE  Rendered(e)'
    OBVIOUS
  <2>1. Worker.pc \in Busy BY DEF Busy
  <2>2. e # d /\ Settled(e) BY <1>8, <2>1
  <2>3. Rendered(e) BY <1>1, <1>2, <2>2 DEF CalmInv
  <2> QED BY <1>7, <2>2, <2>3
<1>11. \A e \in Docs : registry'[e] # 0 /\ work'[e].status = "none" => Rendered(e)'
  <2> SUFFICES ASSUME NEW e \in Docs, registry'[e] # 0, work'[e].status = "none"
               PROVE  Rendered(e)'
    OBVIOUS
  <2>1. e # d BY <1>4
  <2>2. Rendered(e) BY <1>1, <1>2, <1>4, <2>1 DEF CalmInv
  <2> QED BY <1>7, <2>1, <2>2
<1>12. Worker.pc \in {"complete", "commit"} =>
          Worker.planned = generation'[Worker.gen].identities
  BY <1>1, <1>2 DEF CalmInv, Holding
<1>13. /\ available' = Docs /\ ~suspended' /\ pipe'["reanalysis"].pc = "idle" /\ ~Worker.stale
       /\ Worker.pc # "deferred" /\ (Worker.pc = "prepare" => Worker.asks)
       /\ \A i \in Identities : Parent'.pages[i] # {} => i \in Parent'.identities
  BY <1>1, <1>2 DEF CalmInv
<1>14. Worker.pc \in Busy => \A e \in Docs : Worker.revisions[e] <= work'[e].revision BY <1>6
<1> QED BY <1>3, <1>9, <1>10, <1>11, <1>12, <1>13, <1>14 DEF CalmInv

\* What a thread holds is one of the generations there are, and not finished.
LEMMA HeldIsThere ==
    ASSUME CorpusAssumption, IInv, Worker.pc \in Holding
    PROVE  /\ Worker.gen \in Generations /\ Worker.gen <= count
           /\ generation[Worker.gen].state \in Prepared
<1>1. Worker = pipe["worker"] /\ "worker" \in Pipes BY DEF Worker, Pipes
<1>2. Worker.gen \in 1..count /\ generation[Worker.gen].state \in Prepared
  BY <1>1 DEF IInv, ThreadsInv, ThreadOk
<1> QED BY <1>2 DEF IInv, GenerationsInv, Generations, CorpusAssumption

\* publish_incremental_corpus_generation_in loses no page while every document is available.
LEMMA CarriesOn ==
    ASSUME CorpusAssumption, Rows, GenerationsInv, available = Docs, NEW inputs \in Inputs, NEW D,
           NEW g, g = Incremental(inputs, D), NEW b, b = Built(g, {}),
           NEW i \in Parent.identities
    PROVE  b.pages[i] = Parent.pages[i]
<1>1. Parent \in Manifests /\ NoGeneration \in Manifests BY ParentOk, EmptyOk
<1>2. g \in Manifests /\ g.parent = current BY PreparedOk
<1>3. g.identities = Parent.identities \cup IdentitiesOf(inputs, D)
  BY <1>1 DEF Incremental, Manifests
<1>4. i \in g.identities BY <1>3
<1>5. b.pages[i] = Carried(g, i)
  <2>1. b.pages[i] = IF i \in {} /\ Claims(g.inputs, i) # {}
                     THEN Claims(g.inputs, i) ELSE Carried(g, i)
    BY <1>2, <1>4, BuiltOk
  <2> QED BY <2>1
<1>6. i \in Identities BY <1>1 DEF Manifests
<1>7. Parent.pages[i] \subseteq Docs \X (0..MaxCandidates) BY <1>1, <1>6 DEF Manifests
<1>8. (IF g.parent = 0 THEN {} ELSE generation[g.parent].pages[i]) = Parent.pages[i]
  BY <1>2, <1>6, EmptyOk DEF Parent
<1>9. \A c \in Parent.pages[i] : c[1] \in available BY <1>7
<1> QED BY <1>5, <1>8, <1>9 DEF Carried

\* apply_import_knowledge_analysis.
LEMMA ImportKept ==
    ASSUME CorpusAssumption, IInv, NEW d \in Docs, Import(d)
    PROVE  Kept
<1> DEFINE reg == [registry EXCEPT ![d] = @ + 1]
           g == Incremental(Captured(reg), {d})
<1>1. GenerationsInv /\ ThreadsInv /\ Rows /\ CalmInv BY DEF IInv
<1>2. /\ registry' = reg /\ work' = Enqueued(work, d) /\ env' = env
      /\ registry[d] < MaxCandidates
      /\ UNCHANGED <<available, graph, suspended, engine, pipe>>
  BY DEF Import, Event
<1>3. registry \in Inputs /\ registry[d] \in 0..MaxCandidates BY <1>1 DEF Rows, Inputs
<1>4. reg \in Inputs
  <2>1. registry[d] + 1 \in 0..MaxCandidates BY <1>2, <1>3 DEF CorpusAssumption
  <2> QED BY <1>3, <2>1 DEF Inputs
<1>5. \A e \in Docs \ {d} : registry'[e] = registry[e] BY <1>2, <1>3 DEF Inputs
<1>6. work' \in [Docs -> [status : {"none", "pending", "failed"}, revision : Nat]]
  BY <1>1, <1>2, EnqueuedOk
<1>7. Rows' BY <1>1, <1>2, <1>4, <1>6 DEF Rows, engine
<1>8. running' = running /\ pipe' = pipe BY <1>2 DEF engine
<1>9. CASE Mentions[d] = {}
  <2>1. UNCHANGED published BY <1>9 DEF Import
  <2>2. GenerationsInv' /\ StaysTerminal /\ ActivatesCurrent BY <1>1, <2>1, NothingPublished
  <2>3. ThreadsInv' BY <1>1, <1>2, <1>8, <2>1, ThreadsStay DEF published
  <2>4. Parent' = Parent /\ generation' = generation BY <2>1 DEF Parent, published
  <2>5. CalmInv'
    <3>1. Undisturbed => \A i \in Identities : Parent'.pages[i] # {} => i \in Parent'.identities
      BY <1>1, <2>4 DEF CalmInv
    <3> HIDE DEF reg, g
    <3> QED BY <1>2, <1>5, <2>4, <3>1, CalmGrows
  <2> QED BY <1>7, <2>2, <2>3, <2>5 DEF Kept, IInv
<1>10. CASE Mentions[d] # {}
  <2>1. PublishAtOnce(g) BY <1>10 DEF Import
  <2> DEFINE b == Built(g, {})
  <2>2. /\ GenerationsInv' /\ StaysTerminal /\ ActivatesCurrent
        /\ count' = count + 1 /\ current' = count + 1 /\ count + 1 \in Generations
        /\ \A m \in Generations : generation'[m].state = "identity_ready" =>
              generation'[m] = generation[m]
        /\ \A m \in Generations : m <= count /\ generation[m].state \in Prepared =>
              generation'[m] = generation[m]
        /\ generation'[count + 1].pages = Built(g, {}).pages
        /\ generation'[count + 1].identities = Built(g, {}).identities
    <3> HIDE DEF reg
    <3>1. g \in {Incremental(Captured(reg), {d}), Full(Captured(reg))} OBVIOUS
    <3>2. available' = available BY <1>2
    <3> HIDE DEF g
    <3> QED BY <1>1, <1>2, <1>4, <2>1, <3>1, <3>2, PublishesAtOnce
  <2>3. ThreadsInv'
    <3>1. \A m \in Generations : m <= count /\ generation[m].state \in Prepared =>
             generation'[m].state \in Prepared
      BY <2>2
    <3>2. count' = count + 1 BY <2>2
    <3>3. \A m \in Generations : generation'[m].state = "identity_ready" =>
              generation'[m] = generation[m]
      BY <2>2
    <3> QED BY <1>1, <1>2, <1>8, <3>1, <3>2, <3>3, ThreadsStay
  <2>4. Parent'.pages = b.pages /\ Parent'.identities = b.identities
    <3>1. current' # 0 /\ Parent' = generation'[count + 1]
      BY <2>2 DEF Parent, Generations, CorpusAssumption
    <3> QED BY <2>2, <3>1
  <2>5. Captured(reg) \in Inputs BY <1>4, CapturedOk
  <2>6. g \in Manifests BY <1>1, <2>5, PreparedOk
  <2>7. \A i \in Identities : b.pages[i] # {} => i \in b.identities BY <1>1, <2>6, BuiltOk
  <2>8. Undisturbed => \A i \in Parent.identities : b.pages[i] = Parent.pages[i]
    <3> SUFFICES ASSUME Undisturbed, NEW i \in Parent.identities PROVE b.pages[i] = Parent.pages[i]
      OBVIOUS
    <3>1. available = Docs BY <1>1 DEF CalmInv
    <3> QED BY <1>1, <2>5, <3>1, CarriesOn
  <2>9. Worker.pc \in Holding => generation'[Worker.gen] = generation[Worker.gen]
    BY <2>2, HeldIsThere
  <2>10. CalmInv'
    <3>1. /\ Undisturbed => \A i \in Identities : Parent'.pages[i] # {} => i \in Parent'.identities
          /\ Undisturbed => \A i \in Parent.identities : Parent'.pages[i] = Parent.pages[i]
      BY <2>4, <2>7, <2>8
    <3> HIDE DEF reg, g, b
    <3> QED BY <1>2, <1>5, <2>9, <3>1, CalmGrows
  <2> QED BY <1>7, <2>2, <2>3, <2>10 DEF Kept, IInv
<1> QED BY <1>9, <1>10

\* _publish_and_complete of the knowledge graph.
LEMMA PublishGraphKept ==
    ASSUME CorpusAssumption, IInv, NEW d \in Docs, NEW quality \in {"ready", "degraded"},
           PublishGraph(d, quality)
    PROVE  Kept
<1>1. GenerationsInv /\ ThreadsInv /\ Rows /\ CalmInv BY DEF IInv
<1>2. /\ env' = env /\ work' = Enqueued(work, d) /\ registry[d] # 0
      /\ UNCHANGED <<registry, available, published, suspended, engine, pipe>>
  BY DEF PublishGraph, Event
<1>3. graph' \in [Docs -> {None} \cup [gen : 1..MaxCandidates, quality : {"ready", "degraded"}]]
  <2> DEFINE row == IF graph[d] # None /\ graph[d].gen = registry[d] /\ graph[d].quality = "ready"
                       /\ quality = "degraded"
                    THEN graph[d] ELSE [gen |-> registry[d], quality |-> quality]
  <2>1. graph \in [Docs -> {None} \cup [gen : 1..MaxCandidates, quality : {"ready", "degraded"}]]
    BY <1>1 DEF Rows
  <2>2. registry[d] \in 1..MaxCandidates BY <1>1, <1>2 DEF Rows, Inputs, CorpusAssumption
  <2>3. row \in {None} \cup [gen : 1..MaxCandidates, quality : {"ready", "degraded"}]
    BY <2>1, <2>2
  <2>4. graph' = [graph EXCEPT ![d] = row] BY <2>1 DEF PublishGraph
  <2> HIDE DEF row
  <2> QED BY <2>1, <2>3, <2>4
<1>4. work' \in [Docs -> [status : {"none", "pending", "failed"}, revision : Nat]]
  BY <1>1, <1>2, EnqueuedOk
<1>5. Rows' BY <1>1, <1>2, <1>3, <1>4 DEF Rows, engine
<1>6. GenerationsInv' /\ StaysTerminal /\ ActivatesCurrent BY <1>1, <1>2, NothingPublished
<1>7. ThreadsInv' BY <1>1, <1>2, ThreadsStay DEF published, engine
<1>8. Parent' = Parent /\ generation' = generation BY <1>2 DEF Parent, published
<1>9. CalmInv'
  <2>1. Undisturbed => \A i \in Identities : Parent'.pages[i] # {} => i \in Parent'.identities
    BY <1>1, <1>8 DEF CalmInv
  <2> QED BY <1>2, <1>8, <2>1, CalmGrows
<1> QED BY <1>5, <1>6, <1>7, <1>9 DEF Kept, IInv


\* What happens besides imports and graphs leaves no quiet behaviour.
LEMMA NotCalm ==
    ASSUME NEW e \in env \ {"graph"}, env' = env
    PROVE  CalmInv'
BY DEF CalmInv, Undisturbed

\* _apply_result of the last job of a reanalysis.
LEMMA ReanalysedKept ==
    ASSUME CorpusAssumption, IInv, NEW d \in Docs, Reanalysed(d)
    PROVE  Kept
<1> DEFINE reg == [registry EXCEPT ![d] = @ + 1]  g == Full(Captured(reg))
           r == [pipe["reanalysis"] EXCEPT !.pc = "begin"]
<1>1. GenerationsInv /\ ThreadsInv /\ Rows BY DEF IInv
<1>2. /\ "reanalysis" \in env /\ registry' = reg /\ env' = env
      /\ registry[d] \in 1..(MaxCandidates - 1)
      /\ pipe["reanalysis"].pc = "idle" /\ PublishAtOnce(g) /\ Goto("reanalysis", "begin")
      /\ UNCHANGED <<available, graph, work, suspended, engine>>
  BY DEF Reanalysed, Event
<1>3. registry \in Inputs BY <1>1 DEF Rows
<1>4. reg \in Inputs
  <2>1. registry[d] + 1 \in 0..MaxCandidates BY <1>2 DEF CorpusAssumption
  <2> QED BY <1>3, <2>1 DEF Inputs
<1>5. Rows' BY <1>1, <1>2, <1>4 DEF Rows, engine
<1>6. pipe["reanalysis"] \in Threads /\ pipe \in [Pipes -> Threads] /\ "reanalysis" \in Pipes
  BY <1>1 DEF ThreadsInv, Pipes
<1>7. pipe["reanalysis"].gen = 0 BY <1>1, <1>2, <1>6 DEF ThreadsInv, ThreadOk, Holding
<1>8. /\ r \in Threads /\ r.pc = "begin" /\ r.gen = 0 /\ r.stale = pipe["reanalysis"].stale
  BY <1>6, <1>7 DEF Threads, Points
<1>9. pipe' = [pipe EXCEPT !["reanalysis"] = r] BY <1>2, <1>6 DEF Goto
<1> HIDE DEF r
<1>10. /\ GenerationsInv' /\ StaysTerminal /\ ActivatesCurrent
       /\ count' = count + 1
       /\ \A m \in Generations : generation'[m].state = "identity_ready" =>
             generation'[m] = generation[m]
       /\ \A m \in Generations : m <= count /\ generation[m].state \in Prepared =>
             generation'[m] = generation[m]
  <2> HIDE DEF reg
  <2>1. g \in {Incremental(Captured(reg), {d}), Full(Captured(reg))} OBVIOUS
  <2>2. available' = available BY <1>2
  <2> HIDE DEF g
  <2> QED BY <1>1, <1>2, <1>4, <2>1, <2>2, PublishesAtOnce
<1>11. ThreadsInv'
  <2>1. \A q \in Pipes : ThreadOk(pipe[q], generation, count) BY <1>1 DEF ThreadsInv
  <2>2. ThreadOk(r, generation', count') BY <1>2, <1>6, <1>8, <2>1 DEF ThreadOk, Holding
  <2>3. OthersKeep("reanalysis", r)
    <3> SUFFICES ASSUME NEW q \in Pipes, pipe[q].gen # 0
                 PROVE  pipe[q].gen \in 1..count' /\ generation'[pipe[q].gen].state \in Prepared
      BY <1>8 DEF OthersKeep
    <3>1. pipe[q].gen \in 1..count /\ generation[pipe[q].gen].state \in Prepared
      BY <2>1 DEF ThreadOk
    <3>2. pipe[q].gen \in Generations /\ pipe[q].gen \in 1..count' /\ pipe[q].gen <= count
      BY <1>1, <1>10, <3>1 DEF GenerationsInv, Generations, CorpusAssumption
    <3> QED BY <1>10, <3>1, <3>2
  <2>4. AllAreOwned("reanalysis", r)
    <3> SUFFICES ASSUME NEW n \in Generations, generation'[n].state = "identity_ready", ~Disturbed
                 PROVE  /\ generation'[n].owner \in Pipes \ {"reanalysis"}
                        /\ pipe[generation'[n].owner].gen = n
      BY DEF AllAreOwned
    <3>1. generation'[n] = generation[n] BY <1>10
    <3>2. pipe[generation[n].owner].gen = n BY <1>1, <3>1 DEF ThreadsInv
    <3>3. generation[n].owner \in Pipes
      <4>1. RowOk(generation[n], n, count) BY <1>1 DEF GenerationsInv
      <4> QED BY <3>1, <4>1 DEF RowOk, Manifests
    <3>4. n # 0 BY DEF Generations, CorpusAssumption
    <3> QED BY <1>7, <3>1, <3>2, <3>3, <3>4
  <2>5. running' <=> (IF "reanalysis" = "worker" THEN r.pc ELSE Worker.pc) \notin {"idle", "restart"}
    BY <1>1, <1>2 DEF ThreadsInv, engine
  <2> QED BY <1>1, <1>2, <1>6, <1>9, <2>2, <2>3, <2>4, <2>5, ThreadChanges
<1>12. CalmInv' BY <1>2, NotCalm
<1> QED BY <1>5, <1>10, <1>11, <1>12 DEF Kept, IInv

\* publish_generation_changes_in: the generation of an item has no manifest.
LEMMA PublishItemKept ==
    ASSUME CorpusAssumption, IInv, NEW x \in Items, PublishItem(x)
    PROVE  Kept
<1> DEFINE n == count + 1
           g == [NoGeneration EXCEPT !.parent = current, !.identities = Parent.identities,
                                     !.pages = Parent.pages, !.items = Parent.items \cup {x},
                                     !.state = "direct"]
<1>1. GenerationsInv /\ ThreadsInv /\ Rows BY DEF IInv
<1>2. /\ "direct" \in env /\ env' = env /\ count < MaxGenerations /\ count' = n /\ current' = n
      /\ generation' = [generation EXCEPT ![n] = g]
      /\ UNCHANGED <<knowledge, work, suspended, engine, pipe>>
  BY DEF PublishItem, Event
<1>3. Parent \in Manifests /\ NoGeneration \in Manifests /\ NoGeneration.owner = None
  BY <1>1, ParentOk, EmptyOk
<1>4. /\ count \in 0..MaxGenerations /\ current \in 0..count /\ MaxGenerations \in Nat
      /\ n \in Generations /\ n # 0
  BY <1>1, <1>2 DEF GenerationsInv, CorpusAssumption, Generations
<1>5. g \in Manifests
  <2>1. current \in 0..MaxGenerations BY <1>4
  <2> QED BY <1>3, <2>1 DEF Manifests, States
<1>6. g.state = "direct" /\ g.owner = None /\ g.parent = current BY <1>3 DEF Manifests
<1> HIDE DEF g
<1>7. \A m \in Generations : generation'[m] = IF m = n THEN g ELSE generation[m]
  BY <1>1, <1>2 DEF GenerationsInv
<1>8. generation' \in [Generations -> Manifests] BY <1>1, <1>2, <1>5 DEF GenerationsInv
<1>9. \A m \in Generations : RowOk(generation'[m], m, count')
  <2> SUFFICES ASSUME NEW m \in Generations PROVE RowOk(generation'[m], m, count') OBVIOUS
  <2>1. CASE m = n
    <3>1. ~(m > count') /\ current \in 0..(m - 1) BY <1>2, <1>4, <2>1
    <3> QED BY <1>5, <1>6, <1>7, <2>1, <3>1 DEF RowOk
  <2>2. CASE m # n
    <3>1. RowOk(generation[m], m, count) BY <1>1 DEF GenerationsInv
    <3>2. m > count <=> m > count' BY <1>2, <1>4, <2>2 DEF Generations
    <3> QED BY <1>7, <2>2, <3>1, <3>2 DEF RowOk
  <2> QED BY <2>1, <2>2
<1>10. GenerationsInv'
  <2>1. count' \in 0..MaxGenerations /\ current' \in 0..count' BY <1>2, <1>4
  <2>2. generation'[current'].state = "direct" BY <1>2, <1>4, <1>6, <1>7
  <2> QED BY <1>8, <1>9, <2>1, <2>2 DEF GenerationsInv
<1>11. generation[n].state = "none"
  <2>1. RowOk(generation[n], n, count) BY <1>1, <1>4 DEF GenerationsInv
  <2> QED BY <1>4, <2>1 DEF RowOk
<1>12. StaysTerminal
  <2>1. \A m \in Generations : generation[m].state \in {"failed", "cancelled", "superseded"} =>
           m # n /\ generation'[m] = generation[m]
    BY <1>7, <1>11
  <2> QED BY <1>2, <2>1 DEF StaysTerminal
<1>13. ActivatesCurrent
  <2>1. generation'[current'].state = "direct" BY <1>2, <1>4, <1>6, <1>7
  <2> QED BY <2>1 DEF ActivatesCurrent
<1>14. ThreadsInv'
  <2>1. \A m \in Generations : generation'[m].state = "identity_ready" =>
           generation'[m] = generation[m]
    BY <1>6, <1>7
  <2>2. \A m \in Generations : m <= count /\ generation[m].state \in Prepared =>
           generation'[m].state \in Prepared
    BY <1>4, <1>7 DEF Generations
  <2>3. running' = running BY <1>2 DEF engine
  <2> QED BY <1>1, <1>2, <2>1, <2>2, <2>3, ThreadsStay
<1>15. Rows' BY <1>1, <1>2 DEF Rows, knowledge, engine
<1>16. CalmInv' BY <1>2, NotCalm
<1> QED BY <1>10, <1>12, <1>13, <1>14, <1>15, <1>16 DEF Kept, IInv

\* verify_available_documents withdraws a document, or restores one.
LEMMA ChangeAvailabilityKept ==
    ASSUME CorpusAssumption, IInv, NEW d \in Docs, ChangeAvailability(d)
    PROVE  Kept
<1>1. GenerationsInv /\ ThreadsInv /\ Rows BY DEF IInv
<1>2. /\ "availability" \in env /\ env' = env /\ available' \subseteq Docs
      /\ UNCHANGED <<registry, graph, work, published, suspended, engine, pipe>>
  BY <1>1 DEF ChangeAvailability, Event, Rows
<1>3. Rows' BY <1>1, <1>2 DEF Rows, engine
<1>4. GenerationsInv' /\ StaysTerminal /\ ActivatesCurrent BY <1>1, <1>2, NothingPublished
<1>5. ThreadsInv' BY <1>1, <1>2, ThreadsStay DEF published, engine
<1>6. CalmInv' BY <1>2, NotCalm
<1> QED BY <1>3, <1>4, <1>5, <1>6 DEF Kept, IInv

\* invalidate: the worker is told, or there is none.
LEMMA OutdatedOk ==
    ASSUME CorpusAssumption, ThreadsInv, pipe' = Outdated
    PROVE  \E r \in Threads : /\ pipe' = [pipe EXCEPT !["worker"] = r]
                              /\ r.pc = Worker.pc /\ r.gen = Worker.gen
<1> DEFINE stale == pipe["worker"].stale \/ Worker.pc \notin {"idle", "restart"}
           r == [pipe["worker"] EXCEPT !.stale = stale]
<1>1. pipe["worker"] \in Threads /\ pipe \in [Pipes -> Threads] /\ "worker" \in Pipes
  BY DEF ThreadsInv, Pipes
<1>2. pipe' = [pipe EXCEPT !["worker"] = r] BY <1>1 DEF Outdated
<1>3. stale \in BOOLEAN OBVIOUS
<1> HIDE DEF stale
<1>4. r \in Threads /\ r.pc = Worker.pc /\ r.gen = Worker.gen BY <1>1, <1>3 DEF Threads, Worker
<1> HIDE DEF r
<1> QED BY <1>2, <1>4

\* The knowledge base is closed, with all that runs on it.
LEMMA OpenOtherKept ==
    ASSUME CorpusAssumption, IInv, OpenOther
    PROVE  Kept
<1>1. GenerationsInv /\ ThreadsInv /\ Rows BY DEF IInv
<1>2. /\ "other" \in env /\ env' = env /\ active' = FALSE /\ gateway' = 0 /\ rerun' = FALSE
      /\ pipe' = Outdated /\ UNCHANGED <<knowledge, work, published, suspended, running>>
  BY DEF OpenOther, Event
<1>3. 0 \in 0..3 OBVIOUS
<1>4. Rows' BY <1>1, <1>2, <1>3 DEF Rows, knowledge
<1>5. GenerationsInv' /\ StaysTerminal /\ ActivatesCurrent BY <1>1, <1>2, NothingPublished
<1>6. PICK r \in Threads : /\ pipe' = [pipe EXCEPT !["worker"] = r]
                           /\ r.pc = Worker.pc /\ r.gen = Worker.gen
  BY <1>1, <1>2, OutdatedOk
<1>7. ThreadsInv'
  <2>1. "worker" \in Pipes /\ Worker = pipe["worker"] BY DEF Pipes, Worker
  <2>2. r.gen # 0 <=> r.pc \in Holding BY <1>1, <1>6, <2>1 DEF ThreadsInv, ThreadOk
  <2>3. running' <=> r.pc \notin {"idle", "restart"} BY <1>1, <1>2, <1>6 DEF ThreadsInv
  <2>4. env \cap {"open", "other"} # {} BY <1>2
  <2>5. r.gen = pipe["worker"].gen BY <1>6, <2>1
  <2> QED BY <1>1, <1>2, <1>6, <2>1, <2>2, <2>3, <2>4, <2>5, ThreadMoves
<1>8. CalmInv' BY <1>2, NotCalm
<1> QED BY <1>4, <1>5, <1>7, <1>8 DEF Kept, IInv

\* recover_interrupted_corpus_generations_in: nothing is in work after an opening.
LEMMA OpenKept ==
    ASSUME CorpusAssumption, IInv, Open
    PROVE  Kept
<1>1. GenerationsInv /\ ThreadsInv /\ Rows BY DEF IInv
<1>2. /\ "open" \in env /\ env' = env /\ active' = TRUE /\ gateway' = 0 /\ rerun' = FALSE
      /\ pipe' = Outdated /\ generation' = Recovered
      /\ UNCHANGED <<knowledge, work, count, current, suspended, running>>
  BY DEF Open, Event
<1>3. 0 \in 0..3 OBVIOUS
<1>4. Rows' BY <1>1, <1>2, <1>3 DEF Rows, knowledge
<1>5. \A n \in Generations :
         /\ RowOk(generation'[n], n, count)
         /\ generation[n].state = "identity_ready" => generation'[n].state = "failed"
         /\ generation[n].state # "identity_ready" => generation'[n] = generation[n]
  <2> SUFFICES ASSUME NEW n \in Generations
               PROVE  /\ RowOk(generation'[n], n, count)
                      /\ generation[n].state = "identity_ready" => generation'[n].state = "failed"
                      /\ generation[n].state # "identity_ready" => generation'[n] = generation[n]
    OBVIOUS
  <2>1. RowOk(generation[n], n, count) BY <1>1 DEF GenerationsInv
  <2>2. CASE generation[n].state # "identity_ready"
    <3>1. generation'[n] = generation[n] BY <1>2, <2>2 DEF Recovered
    <3> QED BY <2>1, <2>2, <3>1
  <2>3. CASE generation[n].state = "identity_ready"
    <3> DEFINE g == Closed(generation[n], "failed")
    <3>1. generation'[n] = g BY <1>2, <2>3 DEF Recovered
    <3>2. generation[n] \in Manifests BY <2>1 DEF RowOk
    <3>3. g \in Manifests /\ g.state = "failed" /\ g.owner = None
          /\ g.parent = generation[n].parent
      BY <3>2 DEF Closed, Manifests, States
    <3> HIDE DEF g
    <3>4. RowOk(g, n, count) BY <2>1, <2>3, <3>3 DEF RowOk
    <3> QED BY <2>3, <3>1, <3>3, <3>4
  <2> QED BY <2>2, <2>3
<1>6. generation' \in [Generations -> Manifests]
  <2>1. \A n \in Generations : generation'[n] \in Manifests BY <1>5 DEF RowOk
  <2>2. generation' = [n \in Generations |-> generation'[n]] BY <1>2 DEF Recovered
  <2> QED BY <2>1, <2>2
<1>7. current # 0 => current \in Generations
  BY <1>1 DEF GenerationsInv, Generations, CorpusAssumption
<1>8. GenerationsInv' BY <1>1, <1>2, <1>5, <1>6, <1>7 DEF GenerationsInv
<1>9. StaysTerminal
  <2>1. \A n \in Generations : n # 0 BY DEF Generations, CorpusAssumption
  <2> QED BY <1>1, <1>2, <1>5, <1>7, <2>1 DEF StaysTerminal, GenerationsInv
<1>10. ActivatesCurrent BY <1>2 DEF ActivatesCurrent
<1>11. PICK r \in Threads : /\ pipe' = [pipe EXCEPT !["worker"] = r]
                            /\ r.pc = Worker.pc /\ r.gen = Worker.gen
  BY <1>1, <1>2, OutdatedOk
<1>12. ThreadsInv'
  <2>1. "worker" \in Pipes /\ Worker = pipe["worker"] BY DEF Pipes, Worker
  <2>2. \A q \in Pipes : ThreadOk(pipe[q], generation, count) BY <1>1 DEF ThreadsInv
  <2>3. \A q \in Pipes : pipe[q].gen # 0 => generation'[pipe[q].gen].state \in Prepared
    <3> SUFFICES ASSUME NEW q \in Pipes, pipe[q].gen # 0
                 PROVE  generation'[pipe[q].gen].state \in Prepared
      OBVIOUS
    <3>1. pipe[q].gen \in 1..count /\ generation[pipe[q].gen].state \in Prepared
      BY <2>2 DEF ThreadOk
    <3>2. pipe[q].gen \in Generations
      BY <1>1, <3>1 DEF GenerationsInv, Generations, CorpusAssumption
    <3> QED BY <1>5, <3>1, <3>2 DEF Prepared
  <2>4. ThreadOk(r, generation', count')
    <3>1. env \cap {"open", "other"} # {} BY <1>2
    <3>2. ThreadOk(pipe["worker"], generation, count) BY <2>1, <2>2
    <3> QED BY <1>2, <1>11, <2>1, <2>3, <3>1, <3>2 DEF ThreadOk
  <2>5. OthersKeep("worker", r)
    <3>1. \A q \in Pipes \ {"worker"} : pipe[q].gen # 0 => pipe[q].gen # r.gen
      BY <1>1, <1>11, <2>1 DEF ThreadsInv
    <3> QED BY <1>2, <2>2, <2>3, <3>1 DEF OthersKeep, ThreadOk
  <2>6. AllAreOwned("worker", r) BY <1>5 DEF AllAreOwned
  <2>7. running' <=> (IF "worker" = "worker" THEN r.pc ELSE Worker.pc) \notin {"idle", "restart"}
    BY <1>1, <1>2, <1>11 DEF ThreadsInv
  <2> QED BY <1>1, <1>2, <1>11, <2>1, <2>4, <2>5, <2>6, <2>7, ThreadChanges
<1>13. CalmInv' BY <1>2, NotCalm
<1> QED BY <1>4, <1>8, <1>9, <1>10, <1>12, <1>13 DEF Kept, IInv

\* CorpusSynthesisWorkers.retire: other settings, and no gateway any more.
LEMMA RetireKept ==
    ASSUME CorpusAssumption, IInv, Retire
    PROVE  Kept
<1>1. /\ env' = env /\ gateway' = 0 /\ rerun' = FALSE
      /\ UNCHANGED <<knowledge, work, published, suspended, active, running, pipe>>
  BY DEF Retire, Event
<1>2. active' \in BOOLEAN /\ rerun' \in BOOLEAN /\ gateway' \in 0..3
  <2>1. active \in BOOLEAN /\ 0 \in 0..3 BY DEF IInv, Rows
  <2> QED BY <1>1, <2>1
<1> QED BY <1>1, <1>2, PipeStays

\* The engine dies, with all its threads.
LEMMA CrashKept ==
    ASSUME CorpusAssumption, IInv, Crash
    PROVE  Kept
<1>1. GenerationsInv /\ ThreadsInv /\ Rows BY DEF IInv
<1>2. /\ "crash" \in env /\ env' = env /\ active' = FALSE /\ gateway' = 0 /\ rerun' = FALSE
      /\ running' = FALSE /\ pipe' = [p \in Pipes |-> Idle]
      /\ UNCHANGED <<knowledge, work, published, suspended>>
  BY DEF Crash, Event
<1>3. 0 \in 0..3 OBVIOUS
<1>4. Rows' BY <1>1, <1>2, <1>3 DEF Rows, knowledge
<1>5. GenerationsInv' /\ StaysTerminal /\ ActivatesCurrent BY <1>1, <1>2, NothingPublished
<1>6. ThreadsInv'
  <2>1. Idle \in Threads /\ Idle.pc = "idle" /\ Idle.gen = 0 /\ ~Idle.stale BY IdleOk
  <2>2. \A p \in Pipes : pipe'[p] = Idle BY <1>2
  <2>3. pipe' \in [Pipes -> Threads] BY <1>2, <2>1
  <2>4. Disturbed' BY <1>2 DEF Disturbed
  <2>5. \A p \in Pipes : ThreadOk(pipe'[p], generation', count')
    BY <1>2, <2>1, <2>2 DEF ThreadOk, Holding
  <2>6. "worker" \in Pipes BY DEF Pipes
  <2> QED BY <1>2, <2>1, <2>2, <2>3, <2>4, <2>5, <2>6 DEF ThreadsInv, Worker, ThreadOk, Holding
<1>7. CalmInv' BY <1>2, NotCalm
<1> QED BY <1>4, <1>5, <1>6, <1>7 DEF Kept, IInv

-----------------------------------------------------------------------------
(* The invariant, and what it means.                                       *)

\* An empty knowledge base.
LEMMA InvariantInit ==
    ASSUME CorpusAssumption, Init
    PROVE  IInv
<1> USE DEF Init
<1>1. NoGeneration \in Manifests /\ NoGeneration.state = "none" /\ NoGeneration.owner = None
      /\ NoGeneration.parent = 0 /\ \A i \in Identities : NoGeneration.pages[i] = {}
  BY EmptyOk
<1>2. Idle \in Threads /\ Idle.pc = "idle" /\ Idle.gen = 0 /\ ~Idle.stale BY IdleOk
<1>3. 0 \in 0..MaxCandidates /\ 0 \in 0..MaxGenerations /\ 0 \in 0..3 BY DEF CorpusAssumption
<1>4. Rows BY <1>3 DEF Rows, Inputs, NoWork
<1>5. GenerationsInv
  <2>1. \A n \in Generations : n \in Nat /\ n > 0 /\ 0 \in 0..(n - 1)
    BY DEF Generations, CorpusAssumption
  <2>2. \A n \in Generations : RowOk(NoGeneration, n, 0) BY <1>1, <2>1 DEF RowOk
  <2> QED BY <1>1, <1>3, <2>2 DEF GenerationsInv
<1>6. ThreadsInv
  <2>1. \A p \in Pipes : pipe[p] = Idle /\ ThreadOk(pipe[p], generation, count)
    BY <1>2 DEF ThreadOk, Holding
  <2>2. \A n \in Generations : generation[n].state # "identity_ready" BY <1>1
  <2>3. Worker = Idle BY DEF Worker, Pipes
  <2> QED BY <1>2, <2>1, <2>2, <2>3 DEF ThreadsInv
<1>7. CalmInv
  <2>1. Worker = Idle /\ pipe["reanalysis"] = Idle BY DEF Worker, Pipes
  <2>2. Parent = NoGeneration BY DEF Parent
  <2> QED BY <1>1, <1>2, <2>1, <2>2 DEF CalmInv, Busy
<1> QED BY <1>4, <1>5, <1>6, <1>7 DEF IInv

\* Every step of the threads, of the imports and of the user.
LEMMA InvariantStep ==
    ASSUME CorpusAssumption, IInv, [Next]_vars
    PROVE  IInv' /\ StaysTerminal /\ ActivatesCurrent
<1> SUFFICES Kept BY DEF Kept
<1>1. ASSUME NEW p \in Pipes, Pipeline(p) \/ DatabaseError(p) PROVE Kept
  BY <1>1, BeginKept, PrepareKept, PlanKept, PlanStoppedKept, DeferredKept, CompleteCheckKept,
     CommitKept, DatabaseErrorKept DEF Pipeline
<1>2. CASE WorkerStep
  BY <1>2, TopKept, ListKept, FinishKept, RaisedKept, FinalKept, RestartKept DEF WorkerStep
<1>3. ASSUME NEW d \in Docs, DocumentStep(d) PROVE Kept
  BY <1>3, ImportKept, ReanalysedKept, ChangeAvailabilityKept, PublishGraphKept DEF DocumentStep
<1>4. CASE EngineStep
  BY <1>4, StartAfterImportKept, OpenKept, OpenOtherKept, RetireKept, CrashKept, PublishItemKept
  DEF EngineStep
<1>5. CASE UNCHANGED vars
  <2>1. active \in BOOLEAN /\ rerun \in BOOLEAN /\ gateway \in 0..3 BY DEF IInv, Rows
  <2> QED BY <1>5, <2>1, PipeStays DEF vars, engine
<1> QED BY <1>1, <1>2, <1>3, <1>4, <1>5 DEF Next

\* The parts of the invariant that the runs check.
LEMMA InvariantMeans ==
    ASSUME CorpusAssumption, IInv
    PROVE  TypeOK /\ PendingIsWorkedOn /\ ConsumedIsRendered
<1>1. GenerationsInv /\ ThreadsInv /\ Rows /\ CalmInv BY DEF IInv
<1>2. TypeOK
  <2>1. \A d \in Docs : work[d].status \in {"none", "pending", "failed"} /\ work[d].revision \in Nat
    BY <1>1 DEF Rows
  <2>2. \A n \in Generations :
           /\ generation[n].parent \in 0..(n - 1)
           /\ generation[n].state \in States
           /\ generation[n].state = "none" <=> n > count
           /\ generation[n].owner \in Pipes \cup {None}
    BY <1>1 DEF GenerationsInv, RowOk, Manifests
  <2> QED BY <1>1, <2>1, <2>2 DEF TypeOK, Rows, Inputs, GenerationsInv, ThreadsInv, States
<1>3. PendingIsWorkedOn
  <2>1. \A n \in Generations : generation[n].state = "identity_ready" => generation[n].owner # None
    BY <1>1 DEF GenerationsInv, RowOk
  <2> QED BY <1>1, <2>1 DEF PendingIsWorkedOn, ThreadsInv, Disturbed
<1>4. ConsumedIsRendered BY <1>1 DEF ConsumedIsRendered, CalmInv, Rendered
<1> QED BY <1>2, <1>3, <1>4

-----------------------------------------------------------------------------
(* The theorems.                                                           *)

\* The strengthening is an invariant of every behaviour of the pipeline, its worker, the
\* imports and the engine.
THEOREM CorpusInvariant == ASSUME CorpusAssumption PROVE Spec => []IInv
<1>1. Init => IInv BY InvariantInit
<1>2. IInv /\ [Next]_vars => IInv' BY InvariantStep
<1> QED BY <1>1, <1>2, PTL DEF Spec

\* The rows of documents, generations and threads have states the code knows, and a
\* generation was made from an earlier one.
THEOREM CorpusTypes == ASSUME CorpusAssumption PROVE Spec => []TypeOK
<1>1. IInv => TypeOK BY InvariantMeans
<1> QED BY <1>1, CorpusInvariant, PTL

\* _prepare_generation and _complete_generation: a generation that is not finished belongs to the thread
\* that prepared it, unless an error of the database, a crash or another open disturbed it.
THEOREM CorpusPendingIsWorkedOn == ASSUME CorpusAssumption PROVE Spec => []PendingIsWorkedOn
<1>1. IInv => PendingIsWorkedOn BY InvariantMeans
<1> QED BY <1>1, CorpusInvariant, PTL

\* _complete_generation: where only imports and graphs act on the corpus, a revision that is no
\* longer queued is cited by the current page of each identity that its document mentions.
THEOREM CorpusConsumedIsRendered == ASSUME CorpusAssumption PROVE Spec => []ConsumedIsRendered
<1>1. IInv => ConsumedIsRendered BY InvariantMeans
<1> QED BY <1>1, CorpusInvariant, PTL

\* _complete_generation, fail_corpus_manifest_in and recover_interrupted_corpus_generations_in: no
\* late thread revives a generation that has ended.
THEOREM CorpusStaysTerminal == ASSUME CorpusAssumption PROVE Spec => [][StaysTerminal]_vars
<1>1. IInv /\ [Next]_vars => [StaysTerminal]_vars BY InvariantStep
<1> QED BY <1>1, CorpusInvariant, PTL DEF Spec

\* The checks of _complete_generation (corpus_manifest_compatibility_issues_in): what becomes
\* active was made from the revisions that are current, and cites available documents only.
THEOREM CorpusActivatesCurrent == ASSUME CorpusAssumption PROVE Spec => [][ActivatesCurrent]_vars
<1>1. IInv /\ [Next]_vars => [ActivatesCurrent]_vars BY InvariantStep
<1> QED BY <1>1, CorpusInvariant, PTL DEF Spec

=============================================================================
