------------------------ MODULE AnalysisBatchesProofs ------------------------
(***************************************************************************)
(* The analysis of a document in batches, for any plan and topology, any   *)
(* number of imports and of runs of the same import at once.               *)
(*                                                                         *)
(* A run trusts what it has fetched, although another run of the same      *)
(* import may write to the same rows: an answer, once there, is never      *)
(* written again, so that what a run has got is what the rows hold.  That  *)
(* the result is made of all the answers follows from the ranks: when a    *)
(* run goes on to a rank, it has got every answer of the ranks below.      *)
(***************************************************************************)
EXTENDS AnalysisBatches, FiniteSetTheorems, TLAPS

Points == {"idle", "enter", "load", "map", "closing", "merge", "level", "merged", "finish",
           "publish", "raised", "failed", "quarantine", "ending"}
Phases == {"none", "owed", "queued"} \cup Active \cup Finished
Errors == {"none", "state", "control", "suspended", "invalid", "failed", "interrupted"}
Answers == [Tasks -> Workers \cup {None}]

Runs == [pc : Points, job : Jobs \cup {None}, scope : Jobs \cup {None}, authorized : SUBSET Contracts,
         control : Controls, rank : Nat, at : [Tasks -> Phases], half : [Tasks -> 0..2],
         repairs : SUBSET Tasks, errors : [Tasks -> Errors], got : Answers,
         culprit : Tasks \cup {None}]

\* Where a run has no task of its pool, and no error of one.
Between == {"idle", "enter", "load", "merge", "level", "merged", "finish", "publish"}

Flying == {"queued"} \cup Active \cup Finished
Waiting == {"queued"} \cup Active

\* What a run is and has got, at each point of it.
RunOk(r) ==
    /\ r \in Runs
    /\ r.pc = "idle" => r.scope = None
    /\ r.pc # "idle" => r.job \in Jobs
    /\ r.pc \notin {"map", "closing"} => \A t \in Tasks : r.at[t] \notin Waiting
    /\ r.pc \in Between => \A t \in Tasks : r.at[t] = "none" /\ r.errors[t] = "none"
    /\ r.pc = "map" => \A t \in Tasks : r.errors[t] # "none" => r.at[t] \in {"failing", "error"}
    /\ \A t \in Tasks : r.at[t] \in {"failing", "error"} => r.errors[t] # "none"
    /\ \A t \in Tasks : r.at[t] # "none" => Rank(t) = r.rank
    /\ r.pc \in {"closing", "raised"} => r.culprit \in Tasks /\ r.errors[r.culprit] # "none"
    /\ Cardinality({t \in Tasks : r.at[t] \in Flying}) <= Maximum

\* It has got the answers of the ranks that it has left behind.
HasGot(r) ==
    /\ r.pc \in {"map", "closing"} => \A t \in Tasks : Rank(t) < r.rank => r.got[t] # None
    /\ r.pc = "map" => \A t \in Tasks : Rank(t) = r.rank => r.got[t] # None \/ r.at[t] # "none"
    /\ r.pc \in {"merge", "level"} => \A t \in Tasks : Rank(t) <= r.rank => r.got[t] # None
    /\ r.pc = "merge" => r.rank = 0
    /\ r.pc \in {"merged", "finish"} => \A t \in Tasks : r.got[t] # None

\* What it has got, and what it has saved, is what the rows hold.
Agrees(r, w, rows) ==
    \A t \in Tasks : /\ r.got[t] # None => rows[t] = r.got[t]
                     /\ r.at[t] = "ok" => rows[t] = w

\* A run w is fine, with the answers and the results of the stage that are saved.
Fine(r, w, answers, results) ==
    /\ RunOk(r) /\ HasGot(r)
    /\ r.pc # "idle" => Agrees(r, w, answers[r.job])
    /\ r.pc = "publish" => results[r.job] # None

RunsInv == \A w \in Workers : Fine(run[w], w, answer, analysis)

Shapes ==
    /\ job \in [Jobs -> Statuses] /\ quarantined \subseteq Jobs
    /\ answer \in [Jobs -> Answers]
    /\ merged \in [Jobs -> Answers \cup {None}] /\ analysis \in [Jobs -> Answers \cup {None}]
    /\ ledger \in Ledger!Ledgers
    /\ run = [w \in Workers |-> run[w]]

\* A checkpoint of the merge or of the stage is made of all the answers.
IsWhole(j, result) == result # None => result = answer[j] /\ \A t \in Tasks : answer[j][t] # None

WholeInv == \A j \in Jobs : IsWhole(j, merged[j]) /\ IsWhole(j, analysis[j])

\* An import that counts as running has a run that will still set its status.
Decides(r) == r.pc \notin {"idle", "ending"} /\ \A t \in Tasks : r.errors[t] # "control"

JobsInv ==
    \A j \in Jobs :
        /\ job[j] = "running" => \E w \in Workers : run[w].job = j /\ Decides(run[w])
        /\ job[j] = "completed" => analysis[j] # None

IInv == Shapes /\ RunsInv /\ WholeInv /\ JobsInv /\ PermitsHaveOwner

-----------------------------------------------------------------------------
(* The plan, and the number of tasks in flight.                            *)

\* The topology of a plan: a node is above what it merges, and the last rank above all.
LEMMA Ranks ==
    ASSUME AnalysisAssumption
    PROVE  /\ \A t \in Tasks : Rank(t) \in Nat /\ Rank(t) <= LastRank
           /\ LastRank \in Nat
           /\ \A n \in Nodes : \A c \in Children[n] : c \in Tasks /\ Rank(c) < Rank(n)
           /\ IsFiniteSet(Tasks) /\ Maximum \in Nat
           /\ Nodes \subseteq Tasks
           /\ None \notin Jobs /\ None \notin Workers /\ None \notin Answers
<1>1. \A t \in Tasks : Rank(t) \in Nat BY DEF Rank, AnalysisAssumption
<1>2. LastRank \in {Rank(t) : t \in Tasks} /\ \A t \in Tasks : Rank(t) <= LastRank
  BY DEF LastRank, AnalysisAssumption
<1>3. IsFiniteSet(1..Batches) BY FS_Interval DEF AnalysisAssumption
<1>4. IsFiniteSet(Tasks) BY <1>3, FS_Union DEF Tasks, AnalysisAssumption
<1>5. \A n \in Nodes : \A c \in Children[n] : c \in Tasks /\ Rank(c) < Rank(n)
  BY DEF Rank, AnalysisAssumption
<1> QED BY <1>1, <1>2, <1>4, <1>5 DEF AnalysisAssumption, Tasks, Answers

\* When no task takes off, no more are in flight.
LEMMA NoTakeOff ==
    ASSUME AnalysisAssumption, NEW f, NEW g, \A t \in Tasks : g[t] \in Flying => f[t] \in Flying,
           Cardinality({t \in Tasks : f[t] \in Flying}) <= Maximum
    PROVE  Cardinality({t \in Tasks : g[t] \in Flying}) <= Maximum
<1> DEFINE F == {t \in Tasks : f[t] \in Flying}  G == {t \in Tasks : g[t] \in Flying}
<1>1. IsFiniteSet(F) /\ G \subseteq F BY Ranks, FS_Subset
<1>2. Cardinality(G) <= Cardinality(F) /\ Cardinality(F) \in Nat /\ Cardinality(G) \in Nat
  BY <1>1, FS_Subset, FS_CardinalityType
<1> QED BY <1>2, Ranks

\* submit_next puts one more in flight.
LEMMA TakingOff ==
    ASSUME AnalysisAssumption, NEW f, NEW g, NEW u \in Tasks,
           \A t \in Tasks \ {u} : g[t] \in Flying => f[t] \in Flying,
           Cardinality({t \in Tasks : f[t] \in Flying}) < Maximum
    PROVE  Cardinality({t \in Tasks : g[t] \in Flying}) <= Maximum
<1> DEFINE F == {t \in Tasks : f[t] \in Flying}  G == {t \in Tasks : g[t] \in Flying}
<1>1. IsFiniteSet(F) /\ G \subseteq F \cup {u} BY Ranks, FS_Subset
<1>4. Cardinality(F) < Maximum OBVIOUS
<1> HIDE DEF F
<1>5. Cardinality(F) \in Nat BY <1>1, FS_CardinalityType
<1>6. /\ IsFiniteSet(F \cup {u})
      /\ Cardinality(F \cup {u}) = IF u \in F THEN Cardinality(F) ELSE Cardinality(F) + 1
  BY <1>1, FS_AddElement
<1>2. IsFiniteSet(F \cup {u}) /\ Cardinality(F \cup {u}) <= Cardinality(F) + 1
  BY <1>5, <1>6
<1>3. Cardinality(G) <= Cardinality(F \cup {u}) /\ Cardinality(G) \in Nat
      /\ Cardinality(F) \in Nat /\ Cardinality(F \cup {u}) \in Nat
  BY <1>1, <1>2, FS_Subset, FS_CardinalityType
<1> QED BY <1>2, <1>3, <1>4, Ranks

-----------------------------------------------------------------------------
(* The ledger of contracts.                                                *)

\* What suspends a contract, and what makes one ready, grants nothing.
Grants(m, l) == m \in Ledger!Ledgers /\ m.permits \subseteq l.permits

\* suspend
LEMMA Suspending ==
    ASSUME NEW l \in Ledger!Ledgers, NEW c \in Contracts, NEW signature \in {"configuration", "result", None},
           NEW m, m = Ledger!Suspend(l, c, signature)
    PROVE  Grants(m, l)
<1>1. m.signature \in [Contracts -> {"configuration", "result", None}]
  BY DEF Ledger!Suspend, Ledger!Signed, Ledger!Ledgers
<1>2. /\ m = [suspended |-> l.suspended \cup {c}, signature |-> m.signature,
              permits |-> l.permits \ Ledger!PermitsOf(l, c),
              spent |-> l.spent \cup Ledger!PermitsOf(l, c)]
      /\ Ledger!PermitsOf(l, c) \subseteq l.permits
  BY DEF Ledger!Suspend, Ledger!PermitsOf
<1> QED BY <1>1, <1>2 DEF Ledger!Ledgers, Grants

\* mark_ready
LEMMA Readying ==
    ASSUME NEW l \in Ledger!Ledgers, NEW c \in Contracts, NEW m, m = Ledger!Ready(l, c)
    PROVE  Grants(m, l)
<1>1. m.signature \in [Contracts -> {"configuration", "result", None}]
  BY DEF Ledger!Ready, Ledger!Signed, Ledger!Ledgers
<1>2. m = [suspended |-> l.suspended \ {c}, signature |-> m.signature,
           permits |-> {p \in l.permits : p[1] # c}, spent |-> {p \in l.spent : p[1] # c}]
  BY DEF Ledger!Ready
<1> QED BY <1>1, <1>2 DEF Ledger!Ledgers, Grants

\* suspend_model_call_operation: of the request and, if it is a repair, of its parent.
LEMMA SuspendingFailedCall ==
    ASSUME NEW l \in Ledger!Ledgers, NEW c \in Contracts, NEW parent \in Contracts \cup {None},
           NEW m, m = Ledger!SuspendFailedCall(l, c, parent, "transport")
    PROVE  Grants(m, l)
<1> DEFINE k == Ledger!Suspend(l, c, None)
<1>1. m = IF parent = None THEN k ELSE Ledger!Suspend(k, parent, None)
  BY DEF Ledger!SuspendFailedCall, Ledger!SuspendParent, Ledger!Signature
<1>2. Grants(k, l) BY Suspending
<1> HIDE DEF k
<1>3. CASE parent = None BY <1>1, <1>2, <1>3
<1>4. CASE parent # None
  <2>1. k \in Ledger!Ledgers /\ parent \in Contracts BY <1>2, <1>4 DEF Grants
  <2>2. Grants(m, k) BY <2>1, <1>1, <1>4, Suspending
  <2> QED BY <2>2, <1>2 DEF Grants
<1> QED BY <1>3, <1>4

\* The contracts of a task.
LEMMA TaskContracts ==
    ASSUME NEW w, NEW t
    PROVE  Parent(t) \in Contracts /\ Request(w, t) \in Contracts
  BY DEF Parent, Request, Contracts

-----------------------------------------------------------------------------
(* The tasks of the pool.                                                  *)

Failing == {"failing", "error"}

\* What a step of task t makes of its run: it was waited for, and it goes on or fails.
Advances(r, s, t) ==
    /\ s \in Runs
    /\ s.pc = r.pc /\ s.job = r.job /\ s.scope = r.scope /\ s.rank = r.rank /\ s.got = r.got
    /\ s.culprit = r.culprit
    /\ \A u \in Tasks \ {t} : s.at[u] = r.at[u] /\ s.errors[u] = r.errors[u]
    /\ r.at[t] \in Waiting /\ s.at[t] \in Active \cup Finished
    /\ IF s.at[t] \in Failing THEN s.errors[t] # "none"
       ELSE r.at[t] # "failing" /\ s.errors[t] = r.errors[t]

\* What it writes: its answer, if there is none yet, and the status that was asked for.
Writes(w, t, s) ==
    /\ UNCHANGED <<quarantined, merged, analysis, quiet>>
    /\ \/ answer' = answer /\ s.at[t] # "ok"
       \/ /\ s.at[t] = "ok" /\ run[w].at[t] = "answered" /\ answer[Of(w)][t] = None
          /\ answer' = [answer EXCEPT ![Of(w)][t] = w]
    /\ \/ job' = job /\ (s.errors[t] = "control" => run[w].errors[t] = "control")
       \/ Controlled(w) /\ job' = Honored(w)
    /\ ledger' \in Ledger!Ledgers
    /\ \A p \in ledger'.permits : p \in ledger.permits \/ p[2] = s.scope

\* A run that waits for a task is at its map, or closes it.
LEMMA AtWork ==
    ASSUME RunsInv, NEW w \in Workers, NEW t \in Tasks, run[w].at[t] \in Waiting
    PROVE  /\ run[w] \in Runs /\ Of(w) \in Jobs /\ run[w].pc \in {"map", "closing"}
           /\ Rank(t) = run[w].rank
           /\ run[w].at[t] \in Failing => run[w].errors[t] # "none"
<1>1. RunOk(run[w]) BY DEF RunsInv, Fine
<1>2. run[w].at[t] # "none" BY DEF Waiting, Active
<1> QED BY <1>1, <1>2 DEF RunOk, Of, Failing

\* Moving a task on.
LEMMA MovingTask ==
    ASSUME Shapes, RunsInv, NEW w \in Workers, NEW t \in Tasks, NEW phase \in Active \cup Finished,
           run[w].at[t] \in Waiting, run[w].at[t] # "failing", phase \notin Failing, Move(w, t, phase)
    PROVE  /\ run' = [run EXCEPT ![w] = run'[w]]
           /\ Advances(run[w], run'[w], t) /\ run'[w].at[t] = phase
           /\ run'[w].errors[t] = run[w].errors[t]
<1>1. run[w] \in Runs /\ phase \in Phases BY AtWork DEF Phases
<1>2. run'[w] = [run[w] EXCEPT !.at[t] = phase] /\ run' = [run EXCEPT ![w] = run'[w]]
  BY DEF Move, Shapes
<1>3. run'[w] \in Runs /\ run'[w].at = [run[w].at EXCEPT ![t] = phase]
  BY <1>1, <1>2 DEF Runs
<1>4. run'[w].at[t] = phase /\ \A u \in Tasks \ {t} : run'[w].at[u] = run[w].at[u]
  BY <1>1, <1>3 DEF Runs
<1> QED BY <1>1, <1>2, <1>3, <1>4 DEF Advances, Runs

\* A task that fails.
LEMMA FailingTask ==
    ASSUME Shapes, RunsInv, NEW w \in Workers, NEW t \in Tasks, NEW phase \in Failing,
           NEW error \in Errors \ {"none"},
           run[w].at[t] \in Waiting, Fails(w, t, phase, error)
    PROVE  /\ run' = [run EXCEPT ![w] = run'[w]]
           /\ Advances(run[w], run'[w], t) /\ run'[w].at[t] = phase /\ run'[w].errors[t] = error
<1>1. run[w] \in Runs /\ phase \in Phases /\ phase \in Active \cup Finished
  BY AtWork DEF Phases, Failing, Active, Finished
<1>2. run'[w] = [run[w] EXCEPT !.at[t] = phase, !.errors[t] = error] /\ run' = [run EXCEPT ![w] = run'[w]]
  BY DEF Fails, Shapes
<1>5. /\ run'[w].at = [run[w].at EXCEPT ![t] = phase]
      /\ run'[w].errors = [run[w].errors EXCEPT ![t] = error]
      /\ run[w].at \in [Tasks -> Phases] /\ run[w].errors \in [Tasks -> Errors]
  BY <1>1, <1>2 DEF Runs
<1>6. run'[w].at \in [Tasks -> Phases] /\ run'[w].errors \in [Tasks -> Errors]
  BY <1>1, <1>5
<1>3. /\ run'[w].at = [run[w].at EXCEPT ![t] = phase]
      /\ run'[w].errors = [run[w].errors EXCEPT ![t] = error]
      /\ run'[w] \in Runs
  BY <1>1, <1>2, <1>5, <1>6 DEF Runs
<1>4. /\ run'[w].at[t] = phase /\ run'[w].errors[t] = error
      /\ \A u \in Tasks \ {t} : run'[w].at[u] = run[w].at[u] /\ run'[w].errors[u] = run[w].errors[u]
  BY <1>1, <1>3 DEF Runs
<1> QED BY <1>1, <1>2, <1>3, <1>4 DEF Advances, Runs

Requesting(r, t, phase, h, R) == [r EXCEPT !.at[t] = phase, !.half[t] = h, !.repairs = R]

\* The record of a run, with another request of a task.
LEMMA OtherRequest ==
    ASSUME NEW r \in Runs, NEW t \in Tasks, NEW phase \in Phases, NEW h \in 0..2, NEW R \in SUBSET Tasks,
           NEW s, s = Requesting(r, t, phase, h, R)
    PROVE  /\ s \in Runs /\ s.errors = r.errors
           /\ s.at[t] = phase /\ \A u \in Tasks \ {t} : s.at[u] = r.at[u]
           /\ s.pc = r.pc /\ s.job = r.job /\ s.scope = r.scope /\ s.rank = r.rank
           /\ s.got = r.got /\ s.culprit = r.culprit /\ s.control = r.control
<1> DEFINE p == [r.at EXCEPT ![t] = phase]  q == [r.half EXCEPT ![t] = h]
<1>1. r.at \in [Tasks -> Phases] /\ r.half \in [Tasks -> 0..2] BY DEF Runs
<1>2. p \in [Tasks -> Phases] /\ q \in [Tasks -> 0..2] BY <1>1
<1>3. s = [r EXCEPT !.at = p, !.half = q, !.repairs = R] BY DEF Requesting
<1>5. p[t] = phase /\ \A u \in Tasks \ {t} : p[u] = r.at[u] BY <1>1
<1> HIDE DEF p, q
<1>4. /\ s \in Runs /\ s.at = p /\ s.errors = r.errors
      /\ s.pc = r.pc /\ s.job = r.job /\ s.scope = r.scope /\ s.rank = r.rank
      /\ s.got = r.got /\ s.culprit = r.culprit /\ s.control = r.control
  BY <1>2, <1>3 DEF Runs
<1> QED BY <1>4, <1>5

\* A call that goes on by another request of the task.
LEMMA CallingAgain ==
    ASSUME Shapes, RunsInv, NEW w \in Workers, NEW t \in Tasks,
           NEW phase \in {"honor", "answered", "dispatch"}, NEW h \in 0..2, NEW R \in SUBSET Tasks,
           run[w].at[t] = "call",
           NEW s, s = Requesting(run[w], t, phase, h, R),
           run' = [run EXCEPT ![w] = s]
    PROVE  /\ run' = [run EXCEPT ![w] = run'[w]]
           /\ Advances(run[w], run'[w], t) /\ run'[w].at[t] = phase
           /\ run'[w].errors[t] = run[w].errors[t]
<1>0. run[w].at[t] \in Waiting BY DEF Waiting, Active
<1>1. run[w] \in Runs /\ phase \in Phases /\ phase \in Active /\ phase \notin Failing
  BY <1>0, AtWork DEF Phases, Active, Failing
<1>2. run'[w] = s BY DEF Shapes
<1>3. /\ s \in Runs /\ s.errors = run[w].errors
      /\ s.at[t] = phase /\ \A u \in Tasks \ {t} : s.at[u] = run[w].at[u]
      /\ s.pc = run[w].pc /\ s.job = run[w].job /\ s.scope = run[w].scope
      /\ s.rank = run[w].rank /\ s.got = run[w].got /\ s.culprit = run[w].culprit
  BY <1>1, OtherRequest
<1> QED BY <1>0, <1>1, <1>2, <1>3 DEF Advances


\* Two calls of Ready, of the repair and of what it repairs.
LEMMA ReadyingBoth ==
    ASSUME ledger \in Ledger!Ledgers, NEW c \in Contracts, NEW d \in Contracts,
           NEW m, m = Ledger!Ready(Ledger!Ready(ledger, c), d)
    PROVE  Grants(m, ledger)
<1> DEFINE k == Ledger!Ready(ledger, c)
<1>1. Grants(k, ledger) BY Readying
<1>2. m = Ledger!Ready(k, d) OBVIOUS
<1> HIDE DEF k
<1>3. k \in Ledger!Ledgers BY <1>1 DEF Grants
<1>4. Grants(m, k) BY <1>2, <1>3, Readying
<1> QED BY <1>1, <1>4 DEF Grants

\* Every step of a task but the authorization moves it on, and writes what it may.
LEMMA TaskAdvances ==
    ASSUME AnalysisAssumption, IInv, NEW w \in Workers, NEW t \in Tasks, Task(w, t), ~Authorize(w, t)
    PROVE  /\ run' = [run EXCEPT ![w] = run'[w]]
           /\ Advances(run[w], run'[w], t) /\ Writes(w, t, run'[w])
<1> USE DEF IInv
<1>0. Shapes /\ RunsInv /\ ledger \in Ledger!Ledgers BY DEF Shapes
<1>a. /\ {"honor", "starting", "dispatch", "call", "answered", "failing", "ok", "error"} = Active \cup Finished
      /\ {"honor", "starting", "dispatch", "call", "answered", "failing", "queued"} = Waiting
      /\ {"failing", "error"} = Failing
  BY DEF Active, Finished, Waiting, Failing
<1> DEFINE r == run[w]  s == run'[w]
           Done == /\ run' = [run EXCEPT ![w] = run'[w]]
                   /\ Advances(run[w], run'[w], t) /\ Writes(w, t, run'[w])
<1>m. ASSUME NEW phase, phase \in {"honor", "starting", "dispatch", "call", "ok"},
             Move(w, t, phase), r.at[t] \in Waiting, r.at[t] # "failing"
      PROVE  /\ run' = [run EXCEPT ![w] = run'[w]] /\ Advances(r, s, t)
             /\ s.at[t] = phase /\ s.errors[t] = r.errors[t]
  <2>1. phase \in Active \cup Finished /\ phase \notin Failing BY <1>m, <1>a DEF Failing
  <2> QED BY <2>1, <1>m, <1>0, MovingTask
<1>f. ASSUME NEW phase, phase \in {"failing", "error"}, NEW error, error \in Errors \ {"none"},
             Fails(w, t, phase, error), r.at[t] \in Waiting
      PROVE  /\ run' = [run EXCEPT ![w] = run'[w]] /\ Advances(r, s, t)
             /\ s.at[t] = phase /\ s.errors[t] = error
  BY <1>f, <1>a, <1>0, FailingTask DEF Failing
<1>w. ASSUME UNCHANGED <<job, quarantined, saved, ledger, quiet>>, s.at[t] # "ok",
             s.errors[t] = "control" => r.errors[t] = "control"
      PROVE  Writes(w, t, s)
  BY <1>w, <1>0 DEF Writes, saved
<1> HIDE DEF r, s
<1>1. CASE Start(w, t)
  <2>1. r.at[t] \in Waiting /\ r.at[t] # "failing" BY <1>1 DEF Start, Waiting, Active, r
  <2>2. UNCHANGED <<job, quarantined, saved, ledger, quiet>> BY <1>1 DEF Start, jobs
  <2>3. CASE answer[Of(w)][t] # None
    <3>1. Fails(w, t, "error", "state") BY <1>1, <2>3 DEF Start
    <3> QED BY <3>1, <1>f, <1>w, <2>1, <2>2 DEF Errors, r, s
  <2>4. CASE ~(answer[Of(w)][t] # None)
    <3>1. Move(w, t, IF t \in Nodes THEN "dispatch" ELSE "honor") BY <1>1, <2>4 DEF Start
    <3>2. PICK phase \in {"honor", "dispatch"} : Move(w, t, phase) BY <3>1
    <3> QED BY <3>2, <1>m, <1>w, <2>1, <2>2 DEF r, s
  <2> QED BY <2>3, <2>4
<1>2. CASE Honor(w, t)
  <2>1. r.at[t] \in Waiting /\ r.at[t] # "failing" BY <1>2 DEF Honor, Waiting, Active, r
  <2>2. UNCHANGED <<quarantined, saved, ledger, quiet>> BY <1>2 DEF Honor
  <2>3. CASE Controlled(w)
    <3>1. job' = Honored(w) /\ Fails(w, t, IF t \in Nodes THEN "error" ELSE "failing", "control")
      BY <1>2, <2>3 DEF Honor
    <3>2. PICK phase \in {"error", "failing"} : Fails(w, t, phase, "control") BY <3>1
    <3>3. /\ run' = [run EXCEPT ![w] = run'[w]] /\ Advances(r, s, t)
          /\ s.at[t] = phase /\ s.errors[t] = "control"
      BY <3>2, <1>f, <2>1 DEF Errors
    <3>4. Writes(w, t, s) BY <3>1, <3>3, <2>2, <2>3, <1>0 DEF Writes, saved
    <3> QED BY <3>3, <3>4 DEF r, s
  <2>4. CASE ~Controlled(w)
    <3>1. job' = job /\ Move(w, t, IF t \in Nodes THEN "starting" ELSE "dispatch")
      BY <1>2, <2>4 DEF Honor
    <3>2. PICK phase \in {"starting", "dispatch"} : Move(w, t, phase) BY <3>1
    <3> QED BY <3>1, <3>2, <1>m, <1>w, <2>1, <2>2 DEF r, s
  <2> QED BY <2>3, <2>4
<1>3. CASE Dispatch(w, t)
  <2>1. r.at[t] \in Waiting /\ r.at[t] # "failing" BY <1>3 DEF Dispatch, Waiting, Active, r
  <2>2. UNCHANGED <<job, quarantined, saved, ledger, quiet>> BY <1>3 DEF Dispatch, jobs
  <2>3. Move(w, t, "call") \/ Fails(w, t, "failing", "suspended") BY <1>3 DEF Dispatch
  <2>4. CASE Move(w, t, "call") BY <2>4, <1>m, <1>w, <2>1, <2>2 DEF r, s
  <2>5. CASE Fails(w, t, "failing", "suspended") BY <2>5, <1>f, <1>w, <2>1, <2>2 DEF r, s, Errors
  <2> QED BY <2>3, <2>4, <2>5
<1>4. CASE Valid(w, t)
  <2>1. PICK phase \in {"honor", "answered"}, h \in 0..2, R \in SUBSET Tasks :
            run' = [run EXCEPT ![w] = Requesting(r, t, phase, h, R)]
    <3> DEFINE phase == IF run[w].half[t] = 1 THEN "honor" ELSE "answered"
               h == IF run[w].half[t] = 1 THEN 2 ELSE 0
               R == run[w].repairs \ {t}
    <3>1. r \in Runs BY <1>0 DEF RunsInv, Fine, RunOk, r
    <3>2. run' = [run EXCEPT ![w].at[t] = phase, ![w].half[t] = h, ![w].repairs = R]
      BY <1>4 DEF Valid
    <3>3. phase \in {"honor", "answered"} /\ h \in 0..2 /\ R \in SUBSET Tasks
      BY <3>1 DEF Runs, r
    <3> HIDE DEF phase, h, R
    <3>4. run' = [run EXCEPT ![w] = Requesting(r, t, phase, h, R)]
      BY <3>2 DEF Requesting, r
    <3> QED BY <3>3, <3>4
  <2>2. r.at[t] = "call" /\ UNCHANGED <<job, quarantined, saved, quiet>> BY <1>4 DEF Valid, jobs, r
  <2>3. /\ run' = [run EXCEPT ![w] = run'[w]] /\ Advances(r, s, t)
        /\ s.at[t] = phase /\ s.errors[t] = r.errors[t]
    BY <2>1, <2>2, <1>0, CallingAgain DEF r, s
  <2>4. Grants(ledger', ledger)
    BY <1>4, <1>0, ReadyingBoth, TaskContracts DEF Valid
  <2>5. Writes(w, t, s) BY <2>2, <2>3, <2>4, <2>1 DEF Writes, saved, Grants, r
  <2> QED BY <2>3, <2>5 DEF r, s
<1>5. CASE Limit(w, t)
  <2>1. PICK h \in 0..2, R \in SUBSET Tasks : run' = [run EXCEPT ![w] = Requesting(r, t, "honor", h, R)]
    <3> DEFINE R == run[w].repairs \ {t}
    <3>1. r \in Runs BY <1>0 DEF RunsInv, Fine, RunOk, r
    <3>2. run' = [run EXCEPT ![w].at[t] = "honor", ![w].half[t] = 1, ![w].repairs = R]
      BY <1>5 DEF Limit
    <3>3. R \in SUBSET Tasks BY <3>1 DEF Runs, r
    <3> HIDE DEF R
    <3>4. run' = [run EXCEPT ![w] = Requesting(r, t, "honor", 1, R)]
      BY <3>2 DEF Requesting, r
    <3>5. 1 \in 0..2 OBVIOUS
    <3> QED BY <3>3, <3>4, <3>5, Zenon
  <2>2. r.at[t] = "call" /\ UNCHANGED <<job, quarantined, saved, ledger, quiet>> BY <1>5 DEF Limit, jobs, r
  <2>3. /\ run' = [run EXCEPT ![w] = run'[w]] /\ Advances(r, s, t)
        /\ s.at[t] = "honor" /\ s.errors[t] = r.errors[t]
    BY <2>1, <2>2, <1>0, CallingAgain DEF r, s
  <2> QED BY <2>2, <2>3, <1>w DEF r, s
<1>6. CASE Invalid(w, t)
  <2>2. r.at[t] = "call" /\ UNCHANGED <<job, quarantined, saved, ledger, quiet>> BY <1>6 DEF Invalid, jobs, r
  <2>1. r.at[t] \in Waiting BY <2>2 DEF Waiting, Active
  <2>3. CASE t \in run[w].repairs
    <3>1. Fails(w, t, "failing", "invalid") BY <1>6, <2>3 DEF Invalid
    <3> QED BY <3>1, <1>f, <1>w, <2>1, <2>2 DEF r, s, Errors
  <2>4. CASE t \notin run[w].repairs
    <3>1. r \in Runs BY <1>0 DEF RunsInv, Fine, RunOk, r
    <3>2. PICK h \in 0..2, R \in SUBSET Tasks :
              run' = [run EXCEPT ![w] = Requesting(r, t, "dispatch", h, R)]
      <4> DEFINE R == run[w].repairs \cup {t}  h == run[w].half[t]
      <4>1. run' = [run EXCEPT ![w].at[t] = "dispatch", ![w].repairs = R]
        BY <1>6, <2>4 DEF Invalid
      <4>2. run[w].half = [run[w].half EXCEPT ![t] = h] /\ h \in 0..2 /\ R \in SUBSET Tasks
        BY <3>1 DEF Runs, r
      <4>3. run[w] = [run[w] EXCEPT !.half = [run[w].half EXCEPT ![t] = h]]
        BY <4>2, <3>1 DEF Runs, r
      <4> HIDE DEF R, h
      <4>4. run' = [run EXCEPT ![w] = [run[w] EXCEPT !.at[t] = "dispatch", !.repairs = R]]
        BY <4>1
      <4>5. [run[w] EXCEPT !.at[t] = "dispatch", !.repairs = R]
              = Requesting(r, t, "dispatch", h, R)
        BY <4>3, <4>2, <3>1 DEF Requesting, r, Runs
      <4> QED BY <4>2, <4>4, <4>5
    <3>3. /\ run' = [run EXCEPT ![w] = run'[w]] /\ Advances(r, s, t)
          /\ s.at[t] = "dispatch" /\ s.errors[t] = r.errors[t]
      BY <3>2, <2>2, <1>0, CallingAgain DEF r, s
    <3> QED BY <2>2, <3>3, <1>w DEF r, s
  <2> QED BY <2>3, <2>4
<1>7. CASE CallFails(w, t)
  <2>1. r.at[t] \in Waiting BY <1>7 DEF CallFails, Waiting, Active, r
  <2>2. UNCHANGED <<job, quarantined, saved, ledger, quiet>> /\ Fails(w, t, "failing", "failed")
    BY <1>7 DEF CallFails, jobs
  <2> QED BY <1>f, <1>w, <2>1, <2>2 DEF r, s, Errors
<1>8. CASE Interrupted(w, t)
  <2>1. r.at[t] \in Waiting BY <1>8 DEF Interrupted, Waiting, Active, r
  <2>2. UNCHANGED <<job, quarantined, saved, ledger, quiet>> /\ Fails(w, t, "error", "interrupted")
    BY <1>8 DEF Interrupted, jobs
  <2> QED BY <1>f, <1>w, <2>1, <2>2 DEF r, s, Errors
<1>9. CASE Save(w, t)
  <2>1. r.at[t] = "answered" /\ r.at[t] \in Waiting BY <1>9 DEF Save, Waiting, Active, r
  <2>2. UNCHANGED <<job, quarantined, merged, analysis, ledger, quiet>> BY <1>9 DEF Save, jobs
  <2>3. CASE answer[Of(w)][t] # None
    <3>1. Fails(w, t, "error", "state") /\ answer' = answer BY <1>9, <2>3 DEF Save
    <3> QED BY <3>1, <1>f, <1>w, <2>1, <2>2 DEF r, s, Errors, saved
  <2>4. CASE answer[Of(w)][t] = None
    <3>1. Move(w, t, "ok") /\ answer' = [answer EXCEPT ![Of(w)][t] = w] BY <1>9, <2>4 DEF Save
    <3>2. /\ run' = [run EXCEPT ![w] = run'[w]] /\ Advances(r, s, t)
          /\ s.at[t] = "ok" /\ s.errors[t] = r.errors[t]
      BY <3>1, <1>m, <2>1
    <3>3. Writes(w, t, s) BY <3>1, <3>2, <2>1, <2>2, <2>4, <1>0 DEF Writes, r
    <3> QED BY <3>2, <3>3 DEF r, s
  <2> QED BY <2>3, <2>4
<1>10. CASE FailRow(w, t)
  <2>1. r.at[t] = "failing" /\ r.at[t] \in Waiting BY <1>10 DEF FailRow, Waiting, Active, r
  <2>2. UNCHANGED <<job, quarantined, saved, ledger, quiet>> BY <1>10 DEF FailRow, jobs
  <2>3. r.errors[t] \in Errors \ {"none"}
    <3>1. run[w] \in Runs /\ run[w].errors[t] # "none" BY <2>1, <1>0, <1>a, AtWork DEF r, Failing
    <3> QED BY <3>1 DEF Runs, r
  <2>4. Fails(w, t, "error", IF answer[Of(w)][t] # None THEN "state" ELSE run[w].errors[t])
    BY <1>10 DEF FailRow
  <2>5. PICK error \in Errors \ {"none"} :
            Fails(w, t, "error", error) /\ error \in {"state", r.errors[t]}
    BY <2>3, <2>4 DEF Errors, r
  <2> QED BY <2>5, <1>f, <1>w, <2>1, <2>2 DEF r, s
<1> QED BY <1>1, <1>2, <1>3, <1>4, <1>5, <1>6, <1>7, <1>8, <1>9, <1>10 DEF Task

-----------------------------------------------------------------------------
(* What a step of a run leaves intact.                                     *)

\* A run that changes; those beside it rely on the answers and results there are.
LEMMA RunChanges ==
    ASSUME AnalysisAssumption, IInv, NEW w \in Workers, NEW s, run' = [run EXCEPT ![w] = s],
           Fine(s, w, answer', analysis'),
           \A j \in Jobs, t \in Tasks : answer[j][t] # None => answer'[j][t] = answer[j][t],
           \A j \in Jobs : analysis[j] # None => analysis'[j] # None
    PROVE  RunsInv' /\ run' = [u \in Workers |-> run'[u]]
<1>1. run' = [u \in Workers |-> run'[u]] /\ run'[w] = s /\ \A u \in Workers \ {w} : run'[u] = run[u]
  BY DEF IInv, Shapes
<1>2. ASSUME NEW u \in Workers \ {w}
      PROVE  Fine(run[u], u, answer', analysis')
  <2>1. Fine(run[u], u, answer, analysis) BY DEF IInv, RunsInv
  <2>2. run[u].pc # "idle" => run[u].job \in Jobs BY <2>1 DEF Fine, RunOk
  <2>3. ASSUME run[u].pc # "idle"
        PROVE  Agrees(run[u], u, answer'[run[u].job])
    <3>1. Agrees(run[u], u, answer[run[u].job]) BY <2>1, <2>3 DEF Fine
    <3> QED BY <3>1, <2>2, <2>3, Ranks DEF Agrees
  <2>4. run[u].pc = "publish" => analysis'[run[u].job] # None BY <2>1, <2>2 DEF Fine
  <2> QED BY <2>1, <2>3, <2>4 DEF Fine
<1> QED BY <1>1, <1>2 DEF RunsInv

\* What becomes of the status of imports, as a run goes from r to s.
Minds(r, s, results) ==
    \/ job' = job /\ (Decides(r) => Decides(s))
    \/ \E status \in Statuses \ {"running"} :
          /\ job' = [job EXCEPT ![r.job] = status]
          /\ status = "completed" => results[r.job] # None
    \/ job' = [job EXCEPT ![r.job] = "running"] /\ Decides(s)

\* A thread changes its own run, and keeps to the job as long as it decides: then whoever
\* has a running job in hand still has it.
LEMMA JobChanges ==
    ASSUME IInv, NEW w \in Workers, NEW s, run' = [run EXCEPT ![w] = s],
           run[w].job \in Jobs, Decides(s) => s.job = run[w].job, Minds(run[w], s, analysis'),
           \A j \in Jobs : analysis[j] # None => analysis'[j] # None
    PROVE  JobsInv' /\ job' \in [Jobs -> Statuses]
<1>1. run'[w] = s /\ (\A u \in Workers \ {w} : run'[u] = run[u]) /\ job \in [Jobs -> Statuses] /\ JobsInv
  BY DEF IInv, Shapes
<1>2. ASSUME NEW j \in Jobs, job[j] = "running", Decides(run[w]) /\ run[w].job = j => Decides(s) /\ s.job = j
      PROVE  \E u \in Workers : run'[u].job = j /\ Decides(run'[u])
  <2>1. PICK u \in Workers : run[u].job = j /\ Decides(run[u]) BY <1>2, <1>1 DEF JobsInv
  <2>2. CASE u = w BY <2>1, <2>2, <1>1, <1>2
  <2>3. CASE u # w BY <2>1, <2>3, <1>1
  <2> QED BY <2>2, <2>3
<1>3. CASE job' = job /\ (Decides(run[w]) => Decides(s)) BY <1>1, <1>2, <1>3 DEF JobsInv
<1>4. ASSUME NEW status \in Statuses \ {"running"}, job' = [job EXCEPT ![run[w].job] = status],
             status = "completed" => analysis'[run[w].job] # None
      PROVE  JobsInv' /\ job' \in [Jobs -> Statuses]
  <2>1. job' \in [Jobs -> Statuses] BY <1>4, <1>1
  <2>2. ASSUME NEW j \in Jobs, job'[j] = "running"
        PROVE  \E u \in Workers : run'[u].job = j /\ Decides(run'[u])
    BY <2>2, <1>1, <1>2, <1>4
  <2>3. \A j \in Jobs : job'[j] = "completed" => analysis'[j] # None BY <1>4, <1>1 DEF JobsInv
  <2> QED BY <2>1, <2>2, <2>3 DEF JobsInv
<1>5. CASE job' = [job EXCEPT ![run[w].job] = "running"] /\ Decides(s)
  <2>1. job' \in [Jobs -> Statuses] BY <1>5, <1>1 DEF Statuses
  <2>2. ASSUME NEW j \in Jobs, job'[j] = "running"
        PROVE  \E u \in Workers : run'[u].job = j /\ Decides(run'[u])
    BY <2>2, <1>1, <1>2, <1>5
  <2>3. \A j \in Jobs : job'[j] = "completed" => analysis'[j] # None BY <1>5, <1>1 DEF JobsInv
  <2> QED BY <2>1, <2>2, <2>3 DEF JobsInv
<1> QED BY <1>3, <1>4, <1>5 DEF Minds

\* Permits that were there before, or that the run itself has been granted.
LEMMA PermitsStay ==
    ASSUME IInv, NEW w \in Workers, NEW s, run' = [run EXCEPT ![w] = s],
           \A p \in ledger'.permits : p \in ledger.permits \/ p[2] = s.scope,
           \A p \in ledger'.permits : p[2] = run[w].scope => p[2] = s.scope
    PROVE  PermitsHaveOwner'
<1>1. run'[w] = s /\ (\A u \in Workers \ {w} : run'[u] = run[u]) BY DEF IInv, Shapes
<1>2. ASSUME NEW p \in ledger'.permits
      PROVE  \E u \in Workers : run'[u].scope = p[2]
  <2>1. CASE p[2] = s.scope BY <2>1, <1>1
  <2>2. CASE p \in ledger.permits /\ p[2] # s.scope
    <3>1. PICK u \in Workers : run[u].scope = p[2] BY <2>2 DEF IInv, PermitsHaveOwner
    <3> QED BY <3>1, <2>2, <1>1
  <2> QED BY <2>1, <2>2
<1> QED BY <1>2 DEF PermitsHaveOwner

\* A run that has a task at work stays in order while the task advances.
LEMMA AdvancesKeep ==
    ASSUME AnalysisAssumption, NEW r, NEW s, NEW t \in Tasks, RunOk(r), HasGot(r), Advances(r, s, t)
    PROVE  RunOk(s) /\ HasGot(s)
<1>1. r.at[t] # "none" /\ s.at[t] # "none" BY DEF Advances, Waiting, Active, Finished
<1>2. r.pc \in {"map", "closing"} /\ s.pc = r.pc BY DEF RunOk, Advances
<1>3. \A u \in Tasks : s.at[u] = "none" <=> r.at[u] = "none" BY <1>1 DEF Advances
<1>4. HasGot(s) BY <1>2, <1>3 DEF HasGot, Advances
<1>5. Cardinality({u \in Tasks : s.at[u] \in Flying}) <= Maximum
  <2>1. \A u \in Tasks : s.at[u] \in Flying => r.at[u] \in Flying
    BY DEF Advances, Flying, Waiting
  <2> QED BY <2>1, NoTakeOff DEF RunOk
<1>6. \A u \in Tasks : s.at[u] # "none" => Rank(u) = s.rank BY <1>3 DEF RunOk, Advances
<1>7. \A u \in Tasks : s.at[u] \in {"failing", "error"} => s.errors[u] # "none"
  BY DEF RunOk, Advances, Failing
<1>8. s.pc = "map" => \A u \in Tasks : s.errors[u] # "none" => s.at[u] \in {"failing", "error"}
  BY DEF RunOk, Advances, Failing, Waiting, Active
<1>9. s.pc = "closing" => s.culprit \in Tasks /\ s.errors[s.culprit] # "none"
  BY DEF RunOk, Advances, Failing
<1> QED BY <1>2, <1>4, <1>5, <1>6, <1>7, <1>8, <1>9 DEF RunOk, Advances, Between

\* An answer is saved for a task whose children have theirs.
LEMMA TaskKeeps ==
    ASSUME AnalysisAssumption, IInv, NEW w \in Workers, NEW t \in Tasks,
           run' = [run EXCEPT ![w] = run'[w]], Advances(run[w], run'[w], t), Writes(w, t, run'[w])
    PROVE  IInv' /\ InTurn
<1> DEFINE r == run[w]  s == run'[w]  j == Of(w)
<1>1. Fine(r, w, answer, analysis) /\ r.at[t] \in Waiting
  BY DEF IInv, RunsInv, Advances
<1>2. /\ j \in Jobs /\ r.pc \in {"map", "closing"} /\ Rank(t) = r.rank /\ r.job = j /\ s.job = j
      /\ s.pc = r.pc /\ s.scope = r.scope /\ s.got = r.got
      /\ \A u \in Tasks \ {t} : s.at[u] = r.at[u]
  BY <1>1, AtWork DEF IInv, Of, Advances
<1>3. Agrees(r, w, answer[j]) BY <1>1, <1>2 DEF Fine
<1>4. UNCHANGED <<quarantined, merged, analysis>> BY DEF Writes
<1>5. /\ answer' \in [Jobs -> Answers]
      /\ \A k \in Jobs, u \in Tasks : answer[k][u] # None => answer'[k][u] = answer[k][u]
      /\ \A k \in Jobs, u \in Tasks : answer'[k][u] # answer[k][u] => k = j /\ u = t /\ answer[j][t] = None
      /\ s.at[t] = "ok" => answer'[j][t] = w
  <2>0. answer \in [Jobs -> Answers] BY DEF IInv, Shapes
  <2>1. CASE answer' = answer /\ s.at[t] # "ok" BY <2>0, <2>1
  <2>2. CASE answer[j][t] = None /\ answer' = [answer EXCEPT ![j][t] = w]
    <3>1. answer[j] \in [Tasks -> Workers \cup {None}] BY <2>0, <1>2 DEF Answers
    <3>2. [answer[j] EXCEPT ![t] = w] \in [Tasks -> Workers \cup {None}] BY <3>1
    <3>3. /\ answer' = [answer EXCEPT ![j] = [answer[j] EXCEPT ![t] = w]]
          /\ answer'[j] = [answer[j] EXCEPT ![t] = w]
          /\ \A k \in Jobs \ {j} : answer'[k] = answer[k]
      BY <2>0, <2>2, <1>2
    <3>4. answer'[j][t] = w /\ \A u \in Tasks \ {t} : answer'[j][u] = answer[j][u]
      BY <3>1, <3>3
    <3>5. answer' \in [Jobs -> Answers] BY <3>2, <3>3, <2>0 DEF Answers
    <3> QED BY <3>3, <3>4, <3>5, <2>2
  <2> QED BY <2>1, <2>2 DEF Writes
<1>6. Agrees(s, w, answer'[j]) BY <1>2, <1>3, <1>5, Ranks DEF Agrees
<1>7. Fine(s, w, answer', analysis') BY <1>1, <1>2, <1>6, AdvancesKeep DEF Fine
<1>8. RunsInv' /\ run' = [u \in Workers |-> run'[u]] BY <1>4, <1>5, <1>7, RunChanges
<1>9. Minds(r, s, analysis')
  <2>1. CASE job' = job /\ (s.errors[t] = "control" => r.errors[t] = "control")
    <3>1. Decides(r) => Decides(s) BY <2>1, <1>2 DEF Decides, Advances
    <3> QED BY <2>1, <3>1 DEF Minds
  <2>2. CASE Controlled(w) /\ job' = Honored(w)
    <3>1. r.control \in {"paused", "cancelled"} BY <2>2, <1>1 DEF Controlled, Fine, RunOk, Runs, Controls
    <3>2. job' = [job EXCEPT ![r.job] = r.control] BY <2>2 DEF Honored, Of
    <3>3. r.control \in Statuses \ {"running"} /\ r.control # "completed" BY <3>1 DEF Statuses
    <3> QED BY <3>2, <3>3 DEF Minds
  <2> QED BY <2>1, <2>2 DEF Writes
<1>10. JobsInv' /\ job' \in [Jobs -> Statuses] BY <1>2, <1>4, <1>9, JobChanges
<1>11. PermitsHaveOwner' BY <1>2, PermitsStay DEF Writes
<1>12. WholeInv'
  <2>1. \A k \in Jobs : (\A u \in Tasks : answer[k][u] # None) => answer'[k] = answer[k]
    <3>1. \A k \in Jobs : answer[k] = [u \in Tasks |-> answer[k][u]] /\ answer'[k] = [u \in Tasks |-> answer'[k][u]]
      BY <1>5 DEF IInv, Shapes, Answers
    <3>2. ASSUME NEW k \in Jobs, \A u \in Tasks : answer[k][u] # None
          PROVE  answer'[k] = answer[k]
      <4>1. \A u \in Tasks : answer'[k][u] = answer[k][u] BY <3>2, <1>5
      <4> QED BY <4>1, <3>1
    <3> QED BY <3>2
  <2>2. WholeInv BY DEF IInv
  <2> QED BY <2>1, <2>2, <1>4 DEF WholeInv, IsWhole
<1>13. Shapes' BY <1>4, <1>5, <1>8, <1>10 DEF Shapes, IInv, Writes
<1>14. InTurn
  <2>1. ASSUME NEW k \in Jobs, NEW u \in Tasks, answer[k][u] = None, answer'[k][u] # None, u \in Nodes,
               NEW c \in Children[u]
        PROVE  answer[k][c] # None
    <3>1. k = j /\ u = t BY <2>1, <1>5
    <3>2. c \in Tasks /\ Rank(c) < r.rank BY <3>1, <2>1, <1>2, Ranks
    <3>3. r.got[c] # None BY <3>2, <1>1, <1>2 DEF Fine, HasGot
    <3> QED BY <3>1, <3>2, <3>3, <1>3 DEF Agrees
  <2> QED BY <2>1, <1>5 DEF InTurn
<1> QED BY <1>8, <1>10, <1>11, <1>12, <1>13, <1>14 DEF IInv

\* _authorize_retry: a permit of the scope of the run, for a contract of a task.
LEMMA AuthorizeKeeps ==
    ASSUME AnalysisAssumption, IInv, NEW w \in Workers, NEW t \in Tasks, Authorize(w, t)
    PROVE  IInv' /\ InTurn
<1> DEFINE r == run[w]  s == run'[w]  c == Request(w, t)  C == r.authorized \cup {c}
<1>0. UNCHANGED <<job, quarantined, answer, merged, analysis>> BY DEF Authorize, jobs, saved
<1>1. Fine(r, w, answer, analysis) BY DEF IInv, RunsInv
<1>2. run' = [run EXCEPT ![w] = s] /\ s = [r EXCEPT !.authorized = C]
  BY DEF Authorize, IInv, Shapes
<1>3. r \in Runs /\ C \in SUBSET Contracts
  <2>1. r \in Runs BY <1>1 DEF Fine, RunOk
  <2> QED BY <2>1, TaskContracts DEF Runs
<1>4. /\ s \in Runs /\ s.pc = r.pc /\ s.job = r.job /\ s.scope = r.scope /\ s.rank = r.rank
      /\ s.at = r.at /\ s.errors = r.errors /\ s.got = r.got /\ s.culprit = r.culprit
  BY <1>2, <1>3 DEF Runs
<1>5. Fine(s, w, answer', analysis') BY <1>0, <1>1, <1>4 DEF Fine, RunOk, HasGot, Agrees
<1>6. RunsInv' /\ run' = [u \in Workers |-> run'[u]] BY <1>0, <1>2, <1>5, RunChanges
<1>7. r.at[t] = "dispatch" /\ r.scope # None BY DEF Authorize
<1>8. r.job \in Jobs /\ r.pc \in {"map", "closing"} /\ r.scope \in Jobs
  <2>1. r.at[t] \in Waiting BY <1>7 DEF Waiting, Active
  <2> QED BY <2>1, <1>3, <1>7, AtWork DEF Of, IInv, Runs
<1>9. Decides(r) => Decides(s) BY <1>4 DEF Decides
<1>10. Minds(r, s, analysis') BY <1>0, <1>9 DEF Minds
<1>11. JobsInv' /\ job' \in [Jobs -> Statuses] BY <1>0, <1>2, <1>4, <1>8, <1>10, JobChanges
<1>12. /\ ledger' = Ledger!Authorize(ledger, {c}, r.scope) /\ ledger \in Ledger!Ledgers /\ c \in Contracts
  BY TaskContracts DEF Authorize, IInv, Shapes
<1>13. /\ ledger' \in Ledger!Ledgers
       /\ \A p \in ledger'.permits : p \in ledger.permits \/ p[2] = r.scope
  BY <1>8, <1>12 DEF Ledger!Authorize, Ledger!Ledgers
<1>14. PermitsHaveOwner'
  <2>1. \A p \in ledger'.permits : p \in ledger.permits \/ p[2] = s.scope BY <1>4, <1>13
  <2>2. \A p \in ledger'.permits : p[2] = run[w].scope => p[2] = s.scope BY <1>4
  <2> QED BY <2>1, <2>2, <1>2, PermitsStay
<1>15. Shapes' BY <1>0, <1>6, <1>13 DEF Shapes, IInv
<1>16. WholeInv' BY <1>0 DEF WholeInv, IsWhole, IInv
<1>17. InTurn BY <1>0 DEF InTurn
<1> QED BY <1>6, <1>11, <1>14, <1>15, <1>16, <1>17 DEF IInv

-----------------------------------------------------------------------------
(* The thread of the import.                                               *)

\* A step of the import that writes no answer, and grants nothing.
LEMMA MainKeeps ==
    ASSUME AnalysisAssumption, IInv, NEW w \in Workers, NEW s, run' = [run EXCEPT ![w] = s],
           run[w].job \in Jobs, Fine(s, w, answer', analysis'), Minds(run[w], s, analysis'),
           Decides(s) => s.job = run[w].job,
           answer' = answer, quarantined' \subseteq Jobs,
           merged' \in [Jobs -> Answers \cup {None}], analysis' \in [Jobs -> Answers \cup {None}],
           \A j \in Jobs : analysis[j] # None => analysis'[j] # None,
           WholeInv', Grants(ledger', ledger),
           \A p \in ledger'.permits : p[2] = run[w].scope => p[2] = s.scope
    PROVE  IInv' /\ InTurn
<1>1. RunsInv' /\ run' = [u \in Workers |-> run'[u]] BY RunChanges
<1>2. JobsInv' /\ job' \in [Jobs -> Statuses] BY JobChanges
<1>3. \A p \in ledger'.permits : p \in ledger.permits \/ p[2] = s.scope BY DEF Grants
<1>4. PermitsHaveOwner' BY <1>3, PermitsStay
<1>5. Shapes' BY <1>1, <1>2 DEF Shapes, IInv, Grants
<1> QED BY <1>1, <1>2, <1>4, <1>5 DEF IInv, InTurn

\* A run that goes to another point of the stage.
LEMMA GoingOn ==
    ASSUME IInv, NEW w \in Workers, NEW q \in Points \ {"idle", "map", "closing"}, Goto(w, q),
           run[w].pc # "idle", \A t \in Tasks : run[w].at[t] \notin Waiting,
           q \in Between => \A t \in Tasks : run[w].at[t] = "none" /\ run[w].errors[t] = "none",
           q = "raised" => run[w].pc = "closing",
           q \in {"merge", "level"} => \A t \in Tasks : Rank(t) <= run[w].rank => run[w].got[t] # None,
           q = "merge" => run[w].rank = 0,
           q \in {"merged", "finish"} => \A t \in Tasks : run[w].got[t] # None,
           q = "publish" => analysis'[run[w].job] # None, answer' = answer
    PROVE  /\ run' = [run EXCEPT ![w] = run'[w]] /\ Fine(run'[w], w, answer', analysis')
           /\ run'[w].pc = q /\ run'[w].job = run[w].job /\ run'[w].scope = run[w].scope
           /\ run'[w].errors = run[w].errors
<1> DEFINE r == run[w]  s == run'[w]
<1>1. Fine(r, w, answer, analysis) BY DEF IInv, RunsInv
<1>2. run' = [run EXCEPT ![w] = s] /\ s = [r EXCEPT !.pc = q] BY DEF Goto, IInv, Shapes
<1>3. r \in Runs BY <1>1 DEF Fine, RunOk
<1>4. /\ s \in Runs /\ s.pc = q /\ s.job = r.job /\ s.scope = r.scope /\ s.rank = r.rank
      /\ s.at = r.at /\ s.errors = r.errors /\ s.got = r.got /\ s.culprit = r.culprit
  BY <1>2, <1>3 DEF Runs
<1>5. RunOk(s) BY <1>1, <1>4 DEF Fine, RunOk
<1>6. HasGot(s) BY <1>1, <1>4 DEF HasGot
<1>7. Agrees(s, w, answer'[s.job]) BY <1>1, <1>4 DEF Fine, Agrees
<1> QED BY <1>2, <1>4, <1>5, <1>6, <1>7 DEF Fine

\* At its points between the maps, a run has no task in its hands.
LEMMA AtRestThere ==
    ASSUME IInv, NEW w \in Workers, run[w].pc \in Between \cup {"raised", "failed", "quarantine", "ending"}
    PROVE  /\ \A t \in Tasks : run[w].at[t] \notin Waiting
           /\ run[w].pc \in Between => \A t \in Tasks : run[w].at[t] = "none" /\ run[w].errors[t] = "none"
           /\ run[w].pc # "idle" => Of(w) \in Jobs /\ Of(w) = run[w].job
           /\ Fine(run[w], w, answer, analysis) /\ run[w] \in Runs
<1>1. Fine(run[w], w, answer, analysis) BY DEF IInv, RunsInv
<1> QED BY <1>1 DEF Fine, RunOk, Between, Of

\* _honor_control: the status that the user has asked for is not running, nor completed.
LEMMA Honoring ==
    ASSUME IInv, NEW w \in Workers, NEW s, Controlled(w), job' = Honored(w)
    PROVE  Minds(run[w], s, analysis')
<1>1. run[w] \in Runs BY DEF IInv, RunsInv, Fine, RunOk
<1>2. run[w].control \in {"paused", "cancelled"} BY <1>1 DEF Controlled, Runs, Controls
<1>3. job' = [job EXCEPT ![run[w].job] = run[w].control] BY DEF Honored, Of
<1>4. run[w].control \in Statuses \ {"running"} /\ run[w].control # "completed" BY <1>2 DEF Statuses
<1> QED BY <1>3, <1>4 DEF Minds

\* A step that changes the status of the import and where its run is, and no more.
LEMMA StatusKeeps ==
    ASSUME AnalysisAssumption, IInv, NEW w \in Workers, run[w].pc # "idle",
           run' = [run EXCEPT ![w] = run'[w]], Fine(run'[w], w, answer', analysis'),
           run'[w].job = run[w].job, run'[w].scope = run[w].scope,
           Minds(run[w], run'[w], analysis'), quarantined' \subseteq Jobs,
           UNCHANGED saved, Grants(ledger', ledger)
    PROVE  IInv' /\ InTurn
<1>1. run[w].job \in Jobs BY DEF IInv, RunsInv, Fine, RunOk
<1>2. /\ answer' = answer /\ merged' = merged /\ analysis' = analysis BY DEF saved
<1>3. WholeInv' BY <1>2 DEF IInv, WholeInv, IsWhole
<1>4. merged' \in [Jobs -> Answers \cup {None}] /\ analysis' \in [Jobs -> Answers \cup {None}]
  BY <1>2 DEF IInv, Shapes
<1> HIDE DEF IInv
<1>5. \A j \in Jobs : analysis[j] # None => analysis'[j] # None BY <1>2
<1>6. \A p \in ledger'.permits : p[2] = run[w].scope => p[2] = run'[w].scope OBVIOUS
<1> QED BY <1>1, <1>2, <1>3, <1>4, <1>5, <1>6, MainKeeps

\* Nothing is granted by a ledger that stays.
LEMMA SameLedger == ASSUME IInv, ledger' = ledger PROVE Grants(ledger', ledger)
  BY DEF IInv, Shapes, Grants

\* run_knowledge_analysis begins, or uses the checkpoint of the stage.
LEMMA EnterKeeps ==
    ASSUME AnalysisAssumption, IInv, NEW w \in Workers, Enter(w)
    PROVE  IInv' /\ InTurn
<1>1. /\ run[w].pc = "enter" /\ UNCHANGED <<quarantined, answer, merged, analysis, ledger>>
      /\ UNCHANGED saved
  BY DEF Enter, saved
<1>2. /\ \A t \in Tasks : run[w].at[t] \notin Waiting /\ run[w].at[t] = "none" /\ run[w].errors[t] = "none"
      /\ Of(w) \in Jobs /\ Of(w) = run[w].job
  BY <1>1, AtRestThere DEF Between
<1>3. Grants(ledger', ledger) /\ quarantined' \subseteq Jobs BY <1>1, SameLedger DEF IInv, Shapes
<1>4. CASE Controlled(w)
  <2>1. job' = Honored(w) /\ Goto(w, "ending") BY <1>4 DEF Enter
  <2>2. /\ run' = [run EXCEPT ![w] = run'[w]] /\ Fine(run'[w], w, answer', analysis')
        /\ run'[w].job = run[w].job /\ run'[w].scope = run[w].scope
    BY <1>1, <1>2, <2>1, GoingOn DEF Points, Between
  <2>3. Minds(run[w], run'[w], analysis') BY <1>4, <2>1, Honoring
  <2> QED BY <1>1, <1>3, <2>2, <2>3, StatusKeeps
<1>5. CASE ~Controlled(w) /\ analysis[Of(w)] # None
  <2>1. job' = job /\ Goto(w, "publish") BY <1>5 DEF Enter
  <2>2. /\ run' = [run EXCEPT ![w] = run'[w]] /\ Fine(run'[w], w, answer', analysis')
        /\ run'[w].job = run[w].job /\ run'[w].scope = run[w].scope
        /\ run'[w].pc = "publish" /\ run'[w].errors = run[w].errors
    BY <1>1, <1>2, <1>5, <2>1, GoingOn DEF Points, Between
  <2>3. Minds(run[w], run'[w], analysis') BY <1>2, <2>1, <2>2 DEF Minds, Decides
  <2> QED BY <1>1, <1>3, <2>2, <2>3, StatusKeeps
<1>6. CASE ~Controlled(w) /\ ~(analysis[Of(w)] # None)
  <2>1. job' = [job EXCEPT ![Of(w)] = "running"] /\ Goto(w, "load") BY <1>6 DEF Enter
  <2>2. /\ run' = [run EXCEPT ![w] = run'[w]] /\ Fine(run'[w], w, answer', analysis')
        /\ run'[w].job = run[w].job /\ run'[w].scope = run[w].scope
        /\ run'[w].pc = "load" /\ run'[w].errors = run[w].errors
    BY <1>1, <1>2, <2>1, GoingOn DEF Points, Between
  <2>3. Minds(run[w], run'[w], analysis') BY <1>2, <2>1, <2>2 DEF Minds, Decides
  <2> QED BY <1>1, <1>3, <2>2, <2>3, StatusKeeps
<1> QED BY <1>4, <1>5, <1>6

\* The steps that end the run: what it has met becomes the status of the import.
LEMMA EndingsKeep ==
    ASSUME AnalysisAssumption, IInv, NEW w \in Workers,
           Publish(w) \/ Raised(w) \/ Failed(w) \/ Quarantine(w)
    PROVE  IInv' /\ InTurn
<1>1. /\ run[w].pc \in {"publish", "raised", "failed", "quarantine"}
      /\ UNCHANGED saved /\ answer' = answer /\ analysis' = analysis
  BY DEF Publish, Raised, Failed, Quarantine, saved
<1>2. /\ \A t \in Tasks : run[w].at[t] \notin Waiting
      /\ Of(w) \in Jobs /\ Of(w) = run[w].job
      /\ Fine(run[w], w, answer, analysis) /\ run[w] \in Runs
  BY <1>1, AtRestThere DEF Between
<1>3. ASSUME NEW q \in {"ending", "failed", "quarantine"}, Goto(w, q)
      PROVE  /\ run' = [run EXCEPT ![w] = run'[w]] /\ Fine(run'[w], w, answer', analysis')
             /\ run'[w].job = run[w].job /\ run'[w].scope = run[w].scope
             /\ run'[w].pc = q /\ run'[w].errors = run[w].errors
  <2>1. q \in Points \ {"idle", "map", "closing"} /\ q \notin Between
        /\ q \notin {"raised", "merge", "level", "merged", "finish", "publish"} /\ run[w].pc # "idle"
    BY <1>1 DEF Points, Between
  <2> QED BY <1>1, <1>2, <1>3, <2>1, GoingOn
<1>4. ASSUME NEW q \in {"ending", "failed", "quarantine"}, Goto(w, q), Minds(run[w], run'[w], analysis'),
             quarantined' \subseteq Jobs, Grants(ledger', ledger)
      PROVE  IInv' /\ InTurn
  BY <1>1, <1>3, <1>4, StatusKeeps
<1>5. quarantined \subseteq Jobs /\ ledger \in Ledger!Ledgers /\ Grants(ledger, ledger)
  BY DEF IInv, Shapes, Grants
<1>6. CASE Publish(w)
  <2>1. /\ run[w].pc = "publish" /\ Goto(w, "ending") /\ ledger' = ledger
        /\ quarantined' = IF Controlled(w) THEN quarantined ELSE quarantined \ {Of(w)}
    BY <1>6 DEF Publish
  <2>2. Minds(run[w], run'[w], analysis')
    <3>1. CASE Controlled(w)
      <4>1. job' = Honored(w) BY <1>6, <3>1 DEF Publish
      <4> QED BY <3>1, <4>1, Honoring
    <3>2. CASE ~Controlled(w)
      <4>1. job' = [job EXCEPT ![run[w].job] = "completed"] BY <1>6, <3>2, <1>2 DEF Publish
      <4>2. analysis'[run[w].job] # None BY <1>1, <1>2, <2>1 DEF Fine
      <4>3. "completed" \in Statuses \ {"running"} BY DEF Statuses
      <4> QED BY <4>1, <4>2, <4>3 DEF Minds
    <3> QED BY <3>1, <3>2
  <2> QED BY <1>4, <1>5, <2>1, <2>2
<1>7. CASE Failed(w) \/ Quarantine(w)
  <2>1. /\ job' = [job EXCEPT ![run[w].job] = "failed"] /\ Goto(w, "ending") /\ ledger' = ledger
        /\ quarantined' \subseteq Jobs
    BY <1>2, <1>5, <1>7 DEF Failed, Quarantine
  <2>3. "failed" \in Statuses \ {"running"} /\ "failed" # "completed" BY DEF Statuses
  <2>2. Minds(run[w], run'[w], analysis') BY <2>1, <2>3 DEF Minds
  <2> QED BY <1>4, <1>5, <2>1, <2>2
<1>8. CASE Raised(w)
  <2> DEFINE t == run[w].culprit  error == run[w].errors[t]
             parent == IF t \in run[w].repairs THEN Parent(t) ELSE None
  <2>1. /\ t \in Tasks /\ error \in Errors \ {"none"} /\ quarantined' = quarantined
        /\ run[w].pc = "raised"
    <3>1. run[w].pc = "raised" /\ quarantined' = quarantined BY <1>8 DEF Raised
    <3>2. t \in Tasks /\ error # "none" BY <3>1, <1>2 DEF Fine, RunOk
    <3> QED BY <3>1, <3>2, <1>2 DEF Runs
  <2>2. Parent(t) \in Contracts /\ Request(w, t) \in Contracts /\ parent \in Contracts \cup {None}
    BY TaskContracts
  <2>3. CASE error = "control"
    <3>1. Goto(w, "ending") /\ job' = job /\ ledger' = ledger BY <1>8, <2>3 DEF Raised
    <3>2. ~Decides(run[w]) BY <2>1, <2>3 DEF Decides
    <3>3. Minds(run[w], run'[w], analysis') BY <3>1, <3>2 DEF Minds
    <3> QED BY <1>4, <1>5, <2>1, <3>1, <3>3
  <2>4. CASE error = "interrupted"
    <3>1. Goto(w, "ending") /\ job' = [job EXCEPT ![run[w].job] = "paused"] /\ ledger' = ledger
      BY <1>2, <1>8, <2>4 DEF Raised
    <3>3. "paused" \in Statuses \ {"running"} /\ "paused" # "completed" BY DEF Statuses
    <3>2. Minds(run[w], run'[w], analysis') BY <3>1, <3>3 DEF Minds
    <3> QED BY <1>4, <1>5, <2>1, <3>1, <3>2
  <2>5. ASSUME NEW q \in {"failed", "quarantine"}, Goto(w, q), job' = job
        PROVE  Minds(run[w], run'[w], analysis')
    <3>1. Decides(run'[w]) \/ ~Decides(run[w]) BY <1>3, <2>5 DEF Decides
    <3> QED BY <2>5, <3>1 DEF Minds
  <2>6. CASE error \in {"suspended", "state"}
    <3>1. Goto(w, "failed") /\ job' = job /\ ledger' = ledger BY <1>8, <2>6 DEF Raised
    <3>2. Minds(run[w], run'[w], analysis') BY <2>5, <3>1
    <3> QED BY <1>4, <1>5, <2>1, <3>1, <3>2
  <2>7. CASE error = "invalid"
    <3>1. /\ Goto(w, "quarantine") /\ job' = job
          /\ ledger' = Ledger!Suspend(ledger, Parent(t), None)
      BY <1>8, <2>7 DEF Raised
    <3>2. Minds(run[w], run'[w], analysis') BY <2>5, <3>1
    <3>3. Grants(ledger', ledger) BY <3>1, <2>2, <1>5, Suspending
    <3> QED BY <1>4, <1>5, <2>1, <3>1, <3>2, <3>3
  <2>8. CASE error = "failed"
    <3>1. /\ Goto(w, "quarantine") /\ job' = job
          /\ ledger' = Ledger!SuspendFailedCall(ledger, Request(w, t), parent, "transport")
      BY <1>8, <2>8 DEF Raised
    <3>2. Minds(run[w], run'[w], analysis') BY <2>5, <3>1
    <3>3. Grants(ledger', ledger) BY <3>1, <2>2, <1>5, SuspendingFailedCall
    <3> QED BY <1>4, <1>5, <2>1, <3>1, <3>2, <3>3
  <2> QED BY <2>1, <2>3, <2>4, <2>6, <2>7, <2>8 DEF Errors
<1> QED BY <1>6, <1>7, <1>8

\* A step that changes only what its run has in hand: nothing is saved, no status set.
LEMMA RunKeeps ==
    ASSUME AnalysisAssumption, IInv, NEW w \in Workers, run[w].pc # "idle",
           run' = [run EXCEPT ![w] = run'[w]], Fine(run'[w], w, answer, analysis),
           run'[w].job = run[w].job, run'[w].scope = run[w].scope,
           Decides(run[w]) => Decides(run'[w]),
           UNCHANGED <<jobs, saved, ledger, quiet>>
    PROVE  IInv' /\ InTurn
<1>1. /\ UNCHANGED saved /\ Fine(run'[w], w, answer', analysis')
      /\ job' = job /\ quarantined' \subseteq Jobs
  BY DEF jobs, saved, IInv, Shapes
<1>2. Grants(ledger', ledger) BY SameLedger
<1>3. Minds(run[w], run'[w], analysis') BY <1>1 DEF Minds
<1> QED BY <1>1, <1>2, <1>3, StatusKeeps

\* The point of a run, and what follows from it.
LEMMA AtMap ==
    ASSUME IInv, NEW w \in Workers, run[w].pc \in {"map", "closing"}
    PROVE  /\ RunOk(run[w]) /\ HasGot(run[w]) /\ run[w] \in Runs /\ run[w].job \in Jobs
           /\ Agrees(run[w], w, answer[run[w].job])
           /\ run[w].at \in [Tasks -> Phases] /\ run[w].got \in Answers /\ run[w].rank \in Nat
           /\ run[w].culprit \in Tasks \cup {None}
<1>1. Fine(run[w], w, answer, analysis) BY DEF IInv, RunsInv
<1>2. run[w] \in Runs /\ run[w].job \in Jobs BY <1>1 DEF Fine, RunOk
<1> QED BY <1>1, <1>2 DEF Fine, Runs

\* load_or_create, merge_node_checkpoint: the answers of a rank, and the tasks that are owed.
LEMMA FetchingKeeps ==
    ASSUME AnalysisAssumption, IInv, NEW w \in Workers, NEW n \in Nat,
           run' = [run EXCEPT ![w] = Fetched(w, n)], UNCHANGED <<jobs, saved, ledger, quiet>>,
           run[w].pc \in {"load", "level"},
           \A t \in Tasks : Rank(t) < n => run[w].got[t] # None
    PROVE  IInv' /\ InTurn
<1> DEFINE r == run[w]  s == run'[w]  rows == answer[Of(w)]
           rank == {t \in Tasks : Rank(t) = n}
           g == [t \in Tasks |-> IF t \in rank THEN rows[t] ELSE r.got[t]]
           f == [t \in Tasks |-> IF t \in rank /\ rows[t] = None THEN "owed" ELSE r.at[t]]
<1>1. /\ \A t \in Tasks : r.at[t] = "none" /\ r.errors[t] = "none"
      /\ Of(w) \in Jobs /\ Of(w) = r.job /\ Fine(r, w, answer, analysis) /\ r \in Runs
  BY AtRestThere DEF Between
<1>2. r.got \in Answers /\ r.at \in [Tasks -> Phases] /\ rows \in Answers /\ r.culprit \in Tasks \cup {None}
  BY <1>1 DEF Runs, IInv, Shapes
<1>3. g \in Answers /\ f \in [Tasks -> Phases] BY <1>2 DEF Answers, Phases
<1>4. /\ \A t \in Tasks : f[t] \in {"none", "owed"}
      /\ \A t \in Tasks : f[t] # "none" => Rank(t) = n
      /\ \A t \in Tasks : Rank(t) = n => g[t] # None \/ f[t] # "none"
      /\ \A t \in Tasks : Rank(t) < n => g[t] # None
      /\ \A t \in Tasks : g[t] # None => rows[t] = g[t]
  <2>1. Agrees(r, w, rows) BY <1>1 DEF Fine
  <2>2. \A t \in Tasks : Rank(t) \in Nat BY Ranks
  <2> QED BY <1>1, <2>1, <2>2 DEF Agrees
<1>6. s = Fetched(w, n) /\ run' = [run EXCEPT ![w] = s] BY DEF IInv, Shapes
<1>14. Fetched(w, n) = [r EXCEPT !.pc = "map", !.rank = n, !.got = g, !.at = f]
  BY <1>1 DEF Fetched, Runs
<1> HIDE DEF f, g, rows
<1>5. s = [r EXCEPT !.pc = "map", !.rank = n, !.got = g, !.at = f] BY <1>6, <1>14
<1> HIDE DEF s
<1>7. /\ s \in Runs /\ s.pc = "map" /\ s.rank = n /\ s.at = f /\ s.got = g
      /\ s.job = r.job /\ s.scope = r.scope /\ s.errors = r.errors
  BY <1>1, <1>3, <1>5 DEF Runs, Points
<1>8. Cardinality({t \in Tasks : s.at[t] \in Flying}) <= Maximum
  <2>1. Cardinality({t \in Tasks : r.at[t] \in Flying}) <= Maximum BY <1>1 DEF Fine, RunOk
  <2>2. \A t \in Tasks : s.at[t] \notin Flying BY <1>4, <1>7 DEF Flying, Active, Finished
  <2> QED BY <2>1, <2>2, NoTakeOff
<1>9. RunOk(s) BY <1>1, <1>4, <1>7, <1>8 DEF RunOk, Between, Waiting, Active
<1>10. HasGot(s) BY <1>4, <1>7 DEF HasGot
<1>11. Agrees(s, w, rows) BY <1>4, <1>7 DEF Agrees
<1>12. Fine(s, w, answer, analysis) BY <1>1, <1>7, <1>9, <1>10, <1>11 DEF Fine, rows
<1>13. Decides(s) BY <1>1, <1>7 DEF Decides
<1>15. r.pc # "idle" OBVIOUS
<1> QED BY <1>6, <1>7, <1>12, <1>13, <1>15, RunKeeps DEF s

\* load_or_create, and the next level: what is below it has been got.
LEMMA LevelsKeep ==
    ASSUME AnalysisAssumption, IInv, NEW w \in Workers, Load(w) \/ NextLevel(w)
    PROVE  IInv' /\ InTurn
<1>1. Fine(run[w], w, answer, analysis) /\ run[w] \in Runs BY DEF IInv, RunsInv, Fine, RunOk
<1>2. run[w].rank \in Nat /\ \A t \in Tasks : Rank(t) \in Nat BY <1>1, Ranks DEF Runs
<1>3. CASE Load(w)
  <2>1. \A t \in Tasks : ~(Rank(t) < 0) BY <1>2
  <2>2. 0 \in Nat OBVIOUS
  <2>3. /\ run' = [run EXCEPT ![w] = Fetched(w, 0)] /\ UNCHANGED <<jobs, saved, ledger, quiet>>
        /\ run[w].pc \in {"load", "level"}
    BY <1>3 DEF Load
  <2>4. \A t \in Tasks : Rank(t) < 0 => run[w].got[t] # None BY <2>1
  <2> QED BY <2>2, <2>3, <2>4, FetchingKeeps
<1>4. CASE NextLevel(w)
  <2> DEFINE n == run[w].rank + 1
  <2>1. /\ run' = [run EXCEPT ![w] = Fetched(w, n)] /\ UNCHANGED <<jobs, saved, ledger, quiet>>
        /\ run[w].pc = "level"
    BY <1>4 DEF NextLevel
  <2>2. \A t \in Tasks : Rank(t) <= run[w].rank => run[w].got[t] # None
    BY <2>1, <1>1 DEF Fine, HasGot
  <2>3. \A t \in Tasks : Rank(t) < n => run[w].got[t] # None BY <2>2, <1>2
  <2>4. n \in Nat BY <1>2
  <2> HIDE DEF n
  <2> QED BY <2>1, <2>3, <2>4, FetchingKeeps
<1> QED BY <1>3, <1>4

\* parallel_map_ordered, submit_next and the cancellation of what is queued.
LEMMA QueueKeeps ==
    ASSUME AnalysisAssumption, IInv, NEW w \in Workers,
           Submit(w) \/ \E t \in Tasks : CancelQueued(w, t)
    PROVE  IInv' /\ InTurn
<1> DEFINE r == run[w]  s == run'[w]
<1>1. PICK t \in Tasks, phase \in {"queued", "none"} :
          /\ Move(w, t, phase) /\ UNCHANGED <<jobs, saved, ledger, quiet>>
          /\ \/ /\ phase = "queued" /\ r.pc = "map" /\ r.at[t] = "owed"
                /\ Cardinality(InFlight(w)) < Maximum
             \/ phase = "none" /\ r.pc = "closing" /\ r.at[t] = "queued"
  <2>1. CASE Submit(w)
    <3>1. PICK t \in At(w, {"owed"}) : Move(w, t, "queued") BY <2>1 DEF Submit
    <3>2. t \in Tasks /\ run[w].at[t] = "owed" BY <3>1 DEF At
    <3> QED BY <2>1, <3>1, <3>2 DEF Submit, CanSubmit
  <2>2. CASE \E t \in Tasks : CancelQueued(w, t) BY <2>2 DEF CancelQueued
  <2> QED BY <2>1, <2>2
<1>2. /\ RunOk(r) /\ HasGot(r) /\ r \in Runs /\ r.job \in Jobs /\ Agrees(r, w, answer[r.job])
      /\ r.at \in [Tasks -> Phases] /\ r.got \in Answers /\ r.rank \in Nat /\ r.culprit \in Tasks \cup {None}
  BY <1>1, AtMap
<1> DEFINE f == [r.at EXCEPT ![t] = phase]
<1>3. /\ f \in [Tasks -> Phases] /\ f[t] = phase /\ \A u \in Tasks \ {t} : f[u] = r.at[u]
  BY <1>2 DEF Phases
<1>4. run' = [run EXCEPT ![w] = s] /\ s = [r EXCEPT !.at = f] BY <1>1 DEF Move, IInv, Shapes
<1> HIDE DEF f
<1>5. /\ s \in Runs /\ s.pc = r.pc /\ s.rank = r.rank /\ s.at = f /\ s.got = r.got /\ s.culprit = r.culprit
      /\ s.job = r.job /\ s.scope = r.scope /\ s.errors = r.errors
  BY <1>2, <1>3, <1>4 DEF Runs
<1>6. Cardinality({u \in Tasks : s.at[u] \in Flying}) <= Maximum
  <2>1. CASE phase = "none"
    <3>1. \A u \in Tasks : s.at[u] \in Flying => r.at[u] \in Flying
      BY <2>1, <1>3, <1>5 DEF Flying, Active, Finished
    <3> QED BY <3>1, <1>2, NoTakeOff DEF RunOk
  <2>2. CASE phase = "queued"
    <3>1. Cardinality({u \in Tasks : r.at[u] \in Flying}) < Maximum
      BY <1>1, <2>2 DEF InFlight, At, Flying
    <3>2. \A u \in Tasks \ {t} : s.at[u] \in Flying => r.at[u] \in Flying BY <1>3, <1>5
    <3> QED BY <3>1, <3>2, TakingOff
  <2> QED BY <2>1, <2>2
<1>7. RunOk(s)
  <2>1. \A u \in Tasks : s.at[u] # "none" => r.at[u] # "none" BY <1>1, <1>3, <1>5
  <2>2. \A u \in Tasks : s.at[u] \in {"failing", "error"} => r.at[u] \in {"failing", "error"}
    BY <1>1, <1>3, <1>5
  <2>3. r.pc = "map" => \A u \in Tasks : s.errors[u] # "none" => s.at[u] \in {"failing", "error"}
    BY <1>1, <1>2, <1>3, <1>5 DEF RunOk
  <2> QED BY <1>1, <1>2, <1>5, <1>6, <2>1, <2>2, <2>3 DEF RunOk, Between
<1>8. HasGot(s) BY <1>1, <1>2, <1>3, <1>5 DEF HasGot
<1>9. Agrees(s, w, answer[s.job]) BY <1>1, <1>2, <1>3, <1>5 DEF Agrees
<1>10. Fine(s, w, answer, analysis) BY <1>1, <1>5, <1>7, <1>8, <1>9 DEF Fine
<1>11. Decides(r) => Decides(s) BY <1>5 DEF Decides
<1>12. r.pc # "idle" BY <1>1
<1> QED BY <1>1, <1>4, <1>5, <1>10, <1>11, <1>12, RunKeeps

\* parallel_map_ordered, collect: what has finished is taken, or its error kept.
LEMMA CollectKeeps ==
    ASSUME AnalysisAssumption, IInv, NEW w \in Workers, Collect(w)
    PROVE  IInv' /\ InTurn
<1> DEFINE r == run[w]  s == run'[w]
           done == At(w, Finished)
           f == [t \in Tasks |-> IF t \in done THEN "none" ELSE r.at[t]]
           g == [t \in Tasks |-> IF t \in done THEN w ELSE r.got[t]]
<1>1. r.pc = "map" /\ UNCHANGED <<jobs, saved, ledger, quiet>> BY DEF Collect
<1>2. /\ RunOk(r) /\ HasGot(r) /\ r \in Runs /\ r.job \in Jobs /\ Agrees(r, w, answer[r.job])
      /\ r.at \in [Tasks -> Phases] /\ r.got \in Answers /\ r.rank \in Nat /\ r.culprit \in Tasks \cup {None}
  BY <1>1, AtMap
<1>3. /\ f \in [Tasks -> Phases] /\ g \in Answers
      /\ \A t \in Tasks : f[t] # "none" => f[t] = r.at[t] /\ r.at[t] \notin Finished
      /\ \A t \in Tasks : f[t] = "none" => r.at[t] \in Finished \cup {"none"}
  BY <1>2 DEF Answers, Phases, At
<1>f. \A t \in Tasks : f[t] \in Flying => r.at[t] \in Flying BY <1>3 DEF Flying, Active, Finished
<1>4. CASE /\ At(w, {"error"}) = {}
           /\ run' = [run EXCEPT ![w].at = f, ![w].got = [t \in Tasks |-> IF t \in done THEN w ELSE @[t]]]
  <2>1. s = [r EXCEPT !.at = f, !.got = g] /\ run' = [run EXCEPT ![w] = s]
    <3>1. run' = [run EXCEPT ![w] = [run[w] EXCEPT !.at = f, !.got = g]] BY <1>4
    <3> HIDE DEF f, g
    <3> QED BY <3>1 DEF IInv, Shapes
  <2>2. \A t \in Tasks : /\ t \in done <=> r.at[t] \in Finished
                         /\ r.at[t] \in Finished => r.at[t] = "ok"
    BY <1>4 DEF At, Finished
  <2>3. \A t \in Tasks : g[t] # None <=> r.got[t] # None \/ r.at[t] = "ok"
    BY <2>2, Ranks DEF Finished
  <2>4. \A t \in Tasks : g[t] = r.got[t] \/ (g[t] = w /\ r.at[t] = "ok") BY <2>2
  <2> HIDE DEF f, g, s
  <2>5. /\ s \in Runs /\ s.pc = "map" /\ s.rank = r.rank /\ s.at = f /\ s.got = g /\ s.culprit = r.culprit
        /\ s.job = r.job /\ s.scope = r.scope /\ s.errors = r.errors
    BY <1>1, <1>2, <1>3, <2>1 DEF Runs
  <2>6. Cardinality({t \in Tasks : s.at[t] \in Flying}) <= Maximum
    BY <1>f, <1>2, <2>5, NoTakeOff DEF RunOk
  <2>7. \A t \in Tasks : s.errors[t] # "none" => s.at[t] \in {"failing", "error"}
    <3>1. \A t \in Tasks : r.at[t] = "failing" => f[t] = "failing" BY <1>3 DEF Finished
    <3>2. \A t \in Tasks : r.at[t] # "error" BY <1>4 DEF At
    <3> QED BY <3>1, <3>2, <1>1, <1>2, <2>5 DEF RunOk
  <2>8. RunOk(s) BY <1>1, <1>2, <1>3, <2>5, <2>6, <2>7 DEF RunOk, Between
  <2>9. HasGot(s)
    <3>1. \A t \in Tasks : Rank(t) = r.rank => g[t] # None \/ f[t] # "none"
      <4>1. \A t \in Tasks : Rank(t) = r.rank => r.got[t] # None \/ r.at[t] # "none"
        BY <1>1, <1>2 DEF HasGot
      <4> QED BY <4>1, <1>3, <2>2, <2>3
    <3>2. \A t \in Tasks : Rank(t) < r.rank => g[t] # None BY <1>1, <1>2, <2>3 DEF HasGot
    <3> QED BY <3>1, <3>2, <2>5 DEF HasGot
  <2>10. Agrees(s, w, answer[s.job]) BY <1>2, <1>3, <2>4, <2>5, Ranks DEF Agrees, Finished
  <2>11. Fine(s, w, answer, analysis) BY <2>5, <2>8, <2>9, <2>10 DEF Fine
  <2>12. Decides(r) => Decides(s) BY <2>5, <1>1 DEF Decides
  <2>13. r.pc # "idle" BY <1>1
  <2> QED BY <1>1, <2>1, <2>5, <2>11, <2>12, <2>13, RunKeeps DEF s
<1>5. ASSUME NEW t \in At(w, {"error"}),
             run' = [run EXCEPT ![w].at = f, ![w].culprit = t, ![w].pc = "closing"]
      PROVE  IInv' /\ InTurn
  <2>1. s = [r EXCEPT !.at = f, !.culprit = t, !.pc = "closing"] /\ run' = [run EXCEPT ![w] = s]
    <3> HIDE DEF f
    <3>1. run' = [run EXCEPT ![w] = [run[w] EXCEPT !.at = f, !.culprit = t, !.pc = "closing"]] BY <1>5
    <3> QED BY <3>1 DEF IInv, Shapes
  <2>2. t \in Tasks /\ r.at[t] = "error" BY DEF At
  <2> HIDE DEF f, s
  <2>5. /\ s \in Runs /\ s.pc = "closing" /\ s.rank = r.rank /\ s.at = f /\ s.got = r.got /\ s.culprit = t
        /\ s.job = r.job /\ s.scope = r.scope /\ s.errors = r.errors
    BY <1>1, <1>2, <1>3, <2>1, <2>2 DEF Runs, Points
  <2>6. Cardinality({u \in Tasks : s.at[u] \in Flying}) <= Maximum
    BY <1>f, <1>2, <2>5, NoTakeOff DEF RunOk
  <2>7. s.errors[t] # "none" BY <1>2, <2>2, <2>5 DEF RunOk
  <2>8. RunOk(s) BY <1>1, <1>2, <1>3, <2>2, <2>5, <2>6, <2>7 DEF RunOk, Between
  <2>9. HasGot(s) BY <1>1, <1>2, <2>5 DEF HasGot
  <2>10. Agrees(s, w, answer[s.job]) BY <1>2, <1>3, <2>5 DEF Agrees, Finished
  <2>11. Fine(s, w, answer, analysis) BY <2>5, <2>8, <2>9, <2>10 DEF Fine
  <2>12. Decides(r) => Decides(s) BY <2>5, <1>1 DEF Decides
  <2>13. r.pc # "idle" BY <1>1
  <2> QED BY <1>1, <2>1, <2>5, <2>11, <2>12, <2>13, RunKeeps DEF s
<1> QED BY <1>4, <1>5 DEF Collect

\* The map is left when nothing is owed or in flight, and closed when nothing is waited for.
LEMMA MapEndsKeep ==
    ASSUME AnalysisAssumption, IInv, NEW w \in Workers, Closed(w) \/ MapDone(w)
    PROVE  IInv' /\ InTurn
<1> DEFINE r == run[w]
<1>1. r.pc \in {"map", "closing"} /\ UNCHANGED <<jobs, saved, ledger, quiet>>
      /\ answer' = answer /\ analysis' = analysis
  BY DEF Closed, MapDone, saved
<1>2. /\ RunOk(r) /\ HasGot(r) /\ r \in Runs /\ r.job \in Jobs
      /\ r.at \in [Tasks -> Phases] /\ r.rank \in Nat
  BY <1>1, AtMap
<1>3. ASSUME NEW q \in {"raised", "merge", "merged", "level"}, Goto(w, q), \A t \in Tasks : r.at[t] \notin Waiting,
             q # "raised" => \A t \in Tasks : r.at[t] = "none" /\ r.errors[t] = "none",
             q = "raised" => r.pc = "closing",
             q \in {"merge", "level"} => \A t \in Tasks : Rank(t) <= r.rank => r.got[t] # None,
             q = "merge" => r.rank = 0, q = "merged" => \A t \in Tasks : r.got[t] # None
      PROVE  IInv' /\ InTurn
  <2>1. q \in Points \ {"idle", "map", "closing"} /\ q \notin {"finish", "publish", "idle", "ending"}
        /\ (q \in Between => q # "raised") /\ r.pc # "idle"
    BY <1>1 DEF Points, Between
  <2>2. /\ run' = [run EXCEPT ![w] = run'[w]] /\ Fine(run'[w], w, answer', analysis')
        /\ run'[w].pc = q /\ run'[w].job = r.job /\ run'[w].scope = r.scope
        /\ run'[w].errors = r.errors
    BY <1>1, <1>3, <2>1, GoingOn
  <2>3. Decides(r) => Decides(run'[w]) BY <2>1, <2>2 DEF Decides
  <2> QED BY <1>1, <2>1, <2>2, <2>3, RunKeeps
<1>4. CASE Closed(w)
  <2>1. r.pc = "closing" /\ Goto(w, "raised") /\ \A t \in Tasks : r.at[t] \notin Waiting
    BY <1>4 DEF Closed, At, Waiting
  <2> QED BY <1>3, <2>1
<1>5. CASE MapDone(w)
  <2>1. r.pc = "map" /\ At(w, {"owed"}) \cup InFlight(w) = {} BY <1>5 DEF MapDone
  <2>2. \A t \in Tasks : r.at[t] = "none"
    <3>1. \A t \in Tasks : r.at[t] # "owed" /\ r.at[t] \notin Flying BY <2>1 DEF At, InFlight, Flying
    <3> QED BY <3>1, <1>2 DEF Phases, Flying
  <2>3. \A t \in Tasks : r.errors[t] = "none" BY <2>1, <2>2, <1>2 DEF RunOk
  <2>4. \A t \in Tasks : Rank(t) <= r.rank => r.got[t] # None
    <3>1. \A t \in Tasks : Rank(t) \in Nat BY Ranks
    <3>2. \A t \in Tasks : Rank(t) < r.rank \/ Rank(t) = r.rank => r.got[t] # None
      BY <2>1, <2>2, <1>2 DEF HasGot
    <3> QED BY <3>1, <3>2, <1>2
  <2>5. \A t \in Tasks : r.at[t] \notin Waiting BY <2>2 DEF Waiting, Active
  <2>6. CASE r.rank = 0
    <3>1. Goto(w, "merge") BY <1>5, <2>6 DEF MapDone
    <3> QED BY <3>1, <1>3, <2>2, <2>3, <2>4, <2>5, <2>6
  <2>7. CASE r.rank # 0 /\ r.rank = LastRank
    <3>1. Goto(w, "merged")
      <4>1. LastRank > 0 BY <1>2, <2>7
      <4> QED BY <4>1, <1>5, <2>7 DEF MapDone
    <3>2. \A t \in Tasks : r.got[t] # None BY <2>4, <2>7, Ranks
    <3> QED BY <3>1, <3>2, <1>3, <2>2, <2>3, <2>5
  <2>8. CASE r.rank # 0 /\ r.rank # LastRank
    <3>1. Goto(w, "level") BY <1>5, <2>8 DEF MapDone
    <3> QED BY <3>1, <1>3, <2>2, <2>3, <2>4, <2>5
  <2> QED BY <2>6, <2>7, <2>8
<1> QED BY <1>4, <1>5

\* merge_checkpoint is used again if it is there: it is made of all the answers.
LEMMA BeginMergeKeeps ==
    ASSUME AnalysisAssumption, IInv, NEW w \in Workers, BeginMerge(w)
    PROVE  IInv' /\ InTurn
<1> DEFINE r == run[w]  s == run'[w]
<1>1. /\ r.pc = "merge" /\ UNCHANGED <<quarantined, answer, merged, analysis, ledger>>
      /\ UNCHANGED <<quarantined, saved, ledger, quiet>>
  BY DEF BeginMerge, saved
<1>2. /\ \A t \in Tasks : r.at[t] \notin Waiting /\ r.at[t] = "none" /\ r.errors[t] = "none"
      /\ Of(w) \in Jobs /\ Of(w) = r.job /\ Fine(r, w, answer, analysis) /\ r \in Runs
  BY <1>1, AtRestThere DEF Between
<1>3. Grants(ledger', ledger) /\ quarantined' \subseteq Jobs BY <1>1, SameLedger DEF IInv, Shapes
<1>4. CASE merged[Of(w)] # None
  <2> DEFINE g == merged[Of(w)]
  <2>1. run' = [run EXCEPT ![w].pc = "finish", ![w].got = g] /\ job' = job BY <1>4 DEF BeginMerge
  <2>2. g \in Answers /\ g = answer[r.job] /\ \A t \in Tasks : g[t] # None
    BY <1>2, <1>4 DEF IInv, Shapes, WholeInv, IsWhole
  <2>3. s = [r EXCEPT !.pc = "finish", !.got = g] /\ run' = [run EXCEPT ![w] = s]
    <3> HIDE DEF g
    <3> QED BY <2>1 DEF IInv, Shapes
  <2> HIDE DEF g, s
  <2>4. /\ s \in Runs /\ s.pc = "finish" /\ s.rank = r.rank /\ s.at = r.at /\ s.got = g
        /\ s.culprit = r.culprit /\ s.job = r.job /\ s.scope = r.scope /\ s.errors = r.errors
    BY <1>2, <2>2, <2>3 DEF Runs, Points
  <2>5. RunOk(s) BY <1>2, <2>4 DEF Fine, RunOk
  <2>6. HasGot(s) /\ Agrees(s, w, answer[s.job]) BY <1>2, <2>2, <2>4 DEF HasGot, Agrees
  <2>7. Fine(s, w, answer, analysis) BY <2>4, <2>5, <2>6 DEF Fine
  <2>8. Decides(s) BY <1>2, <2>4 DEF Decides
  <2>9. r.pc # "idle" /\ UNCHANGED <<jobs, saved, ledger, quiet>> BY <1>1, <2>1 DEF jobs
  <2> QED BY <2>3, <2>4, <2>7, <2>8, <2>9, RunKeeps DEF s
<1>5. CASE merged[Of(w)] = None /\ Controlled(w)
  <2>1. job' = Honored(w) /\ Goto(w, "ending") BY <1>5 DEF BeginMerge
  <2>2. /\ run' = [run EXCEPT ![w] = run'[w]] /\ Fine(run'[w], w, answer', analysis')
        /\ run'[w].job = run[w].job /\ run'[w].scope = run[w].scope
    BY <1>1, <1>2, <2>1, GoingOn DEF Points, Between
  <2>3. Minds(run[w], run'[w], analysis') BY <1>5, <2>1, Honoring
  <2>4. run[w].pc # "idle" BY <1>1
  <2> QED BY <1>1, <1>3, <2>2, <2>3, <2>4, StatusKeeps
<1>6. CASE merged[Of(w)] = None /\ ~Controlled(w)
  <2>1. PICK q \in {"merged", "level"} :
            Goto(w, q) /\ job' = job /\ (q = "merged" => LastRank = 0)
    BY <1>6 DEF BeginMerge
  <2>2. \A t \in Tasks : Rank(t) <= r.rank => r.got[t] # None BY <1>1, <1>2 DEF Fine, HasGot
  <2>3. q = "merged" => \A t \in Tasks : r.got[t] # None
    <3>1. r.rank = 0 BY <1>1, <1>2 DEF Fine, HasGot
    <3> QED BY <3>1, <2>1, <2>2, Ranks
  <2>4. q \in Points \ {"idle", "map", "closing"} /\ q \in Between /\ q \notin {"raised", "finish", "publish", "merge"}
    BY DEF Points, Between
  <2>5. /\ run' = [run EXCEPT ![w] = run'[w]] /\ Fine(run'[w], w, answer', analysis')
        /\ run'[w].job = run[w].job /\ run'[w].scope = run[w].scope
        /\ run'[w].pc = q /\ run'[w].errors = run[w].errors
    BY <1>1, <1>2, <2>1, <2>2, <2>3, <2>4, GoingOn
  <2>6. Decides(run'[w]) BY <1>2, <2>5 DEF Decides
  <2>7. r.pc # "idle" /\ UNCHANGED <<jobs, saved, ledger, quiet>> BY <1>1, <2>1 DEF jobs
  <2>8. Fine(run'[w], w, answer, analysis) BY <1>1, <2>5
  <2> QED BY <2>5, <2>6, <2>7, <2>8, RunKeeps
<1> QED BY <1>4, <1>5, <1>6

\* What a run has got when it has every answer is what the rows hold.
LEMMA GotAll ==
    ASSUME AnalysisAssumption, IInv, NEW w \in Workers, run[w].pc \in {"merged", "finish"}
    PROVE  /\ run[w].got = answer[run[w].job] /\ run[w].got \in Answers /\ run[w].got # None
           /\ \A t \in Tasks : answer[run[w].job][t] # None
<1>1. Fine(run[w], w, answer, analysis) BY DEF IInv, RunsInv
<1>2. run[w].job \in Jobs /\ run[w].got \in Answers BY <1>1 DEF Fine, RunOk, Runs
<1>3. \A t \in Tasks : run[w].got[t] # None BY <1>1 DEF Fine, HasGot
<1>4. Agrees(run[w], w, answer[run[w].job]) BY <1>1 DEF Fine
<1>5. \A t \in Tasks : answer[run[w].job][t] = run[w].got[t] BY <1>3, <1>4 DEF Agrees
<1>6. answer[run[w].job] \in Answers BY <1>2 DEF IInv, Shapes
<1>7. answer[run[w].job] = run[w].got BY <1>2, <1>5, <1>6 DEF Answers
<1> QED BY <1>2, <1>3, <1>7, Ranks

\* complete_merge, and the checkpoint of the stage: made of all the answers.
LEMMA CheckpointsKeep ==
    ASSUME AnalysisAssumption, IInv, NEW w \in Workers, CompleteMerge(w) \/ Finish(w)
    PROVE  IInv' /\ InTurn
<1> DEFINE r == run[w]  s == run'[w]
<1>1. /\ r.pc \in {"merged", "finish"} /\ r.pc # "idle"
      /\ UNCHANGED <<quarantined, answer, ledger>>
      /\ answer' = answer
  BY DEF CompleteMerge, Finish, jobs
<1>2. /\ \A t \in Tasks : r.at[t] \notin Waiting /\ r.at[t] = "none" /\ r.errors[t] = "none"
      /\ Of(w) \in Jobs /\ Of(w) = r.job /\ Fine(r, w, answer, analysis) /\ r \in Runs
  BY <1>1, AtRestThere DEF Between
<1>3. Grants(ledger', ledger) /\ quarantined' \subseteq Jobs BY <1>1, SameLedger DEF IInv, Shapes
<1>4. /\ r.got = answer[r.job] /\ r.got \in Answers /\ r.got # None
      /\ \A t \in Tasks : answer[r.job][t] # None /\ r.got[t] # None
  BY <1>1, GotAll
<1>5. /\ merged \in [Jobs -> Answers \cup {None}] /\ analysis \in [Jobs -> Answers \cup {None}] /\ WholeInv
  BY DEF IInv, Shapes
<1>6. ASSUME NEW q \in {"failed", "finish", "publish"}, Goto(w, q), q = "publish" => analysis'[r.job] # None
      PROVE  /\ run' = [run EXCEPT ![w] = run'[w]] /\ Fine(run'[w], w, answer', analysis')
             /\ run'[w].pc = q /\ run'[w].job = r.job /\ run'[w].scope = r.scope
             /\ Decides(run'[w])
  <2>1. q \in Points \ {"idle", "map", "closing"} /\ q \notin {"raised", "merge", "level", "merged"}
    BY DEF Points
  <2>2. /\ run' = [run EXCEPT ![w] = run'[w]] /\ Fine(run'[w], w, answer', analysis')
        /\ run'[w].pc = q /\ run'[w].job = r.job /\ run'[w].scope = r.scope
        /\ run'[w].errors = r.errors
    BY <1>1, <1>2, <1>4, <1>6, <2>1, GoingOn
  <2> QED BY <2>2, <1>2 DEF Decides
<1>7. CASE CompleteMerge(w)
  <2>1. /\ job' = job /\ analysis' = analysis
        /\ \/ Goto(w, "failed") /\ merged' = merged
           \/ Goto(w, "finish") /\ merged' = [merged EXCEPT ![r.job] = r.got]
    BY <1>2, <1>7 DEF CompleteMerge, jobs
  <2>2. /\ run' = [run EXCEPT ![w] = run'[w]] /\ Fine(run'[w], w, answer', analysis')
        /\ run'[w].job = r.job /\ run'[w].scope = r.scope /\ Decides(run'[w])
    BY <2>1, <1>6
  <2>3. Minds(run[w], run'[w], analysis') BY <2>1, <2>2 DEF Minds
  <2>4. merged' \in [Jobs -> Answers \cup {None}] /\ \A j \in Jobs : merged'[j] \in {merged[j], IF j = r.job THEN r.got ELSE merged[j]}
    BY <2>1, <1>2, <1>4, <1>5
  <2>5. WholeInv' BY <2>1, <2>4, <1>1, <1>4, <1>5 DEF WholeInv, IsWhole
  <2>6. \A p \in ledger'.permits : p[2] = run[w].scope => p[2] = run'[w].scope BY <2>2
  <2>7. analysis' \in [Jobs -> Answers \cup {None}] /\ \A j \in Jobs : analysis[j] # None => analysis'[j] # None
    BY <2>1, <1>5
  <2>8. run[w].job \in Jobs /\ (Decides(run'[w]) => run'[w].job = run[w].job) BY <1>2, <2>2
  <2> HIDE DEF IInv
  <2> QED BY <1>1, <1>3, <2>2, <2>3, <2>4, <2>5, <2>6, <2>7, <2>8, MainKeeps
<1>8. CASE Finish(w)
  <2>1. /\ job' = [job EXCEPT ![r.job] = "running"] /\ merged' = merged /\ Goto(w, "publish")
        /\ analysis' = [analysis EXCEPT ![r.job] = r.got]
    BY <1>2, <1>8 DEF Finish
  <2>2. /\ analysis' \in [Jobs -> Answers \cup {None}] /\ analysis'[r.job] = r.got
        /\ \A j \in Jobs \ {r.job} : analysis'[j] = analysis[j]
    BY <2>1, <1>2, <1>4, <1>5
  <2>3. analysis'[r.job] # None /\ \A j \in Jobs : analysis[j] # None => analysis'[j] # None
    BY <2>2, <1>4
  <2>4. /\ run' = [run EXCEPT ![w] = run'[w]] /\ Fine(run'[w], w, answer', analysis')
        /\ run'[w].job = r.job /\ run'[w].scope = r.scope /\ Decides(run'[w])
    BY <2>1, <2>3, <1>6
  <2>5. Minds(run[w], run'[w], analysis') BY <2>1, <2>4 DEF Minds
  <2>6. WholeInv' BY <2>1, <2>2, <1>1, <1>4, <1>5 DEF WholeInv, IsWhole
  <2>7. \A p \in ledger'.permits : p[2] = run[w].scope => p[2] = run'[w].scope BY <2>4
  <2>8. run[w].job \in Jobs /\ (Decides(run'[w]) => run'[w].job = run[w].job) BY <1>2, <2>4
  <2>9. merged' \in [Jobs -> Answers \cup {None}] BY <2>1, <1>5
  <2> HIDE DEF IInv
  <2> QED BY <1>1, <1>3, <2>2, <2>3, <2>4, <2>5, <2>6, <2>7, <2>8, <2>9, MainKeeps
<1> QED BY <1>7, <1>8

\* A run that is idle.
LEMMA IdleOk ==
    ASSUME AnalysisAssumption
    PROVE  /\ Idle \in Runs /\ RunOk(Idle) /\ HasGot(Idle) /\ Idle.pc = "idle" /\ Idle.scope = None
           /\ ~Decides(Idle)
<1>1. NoAnswers \in Answers BY DEF NoAnswers, Answers
<1>2. Idle \in Runs
  <2>1. [t \in Tasks |-> "none"] \in [Tasks -> Phases] BY DEF Phases
  <2>2. [t \in Tasks |-> "none"] \in [Tasks -> Errors] BY DEF Errors
  <2>3. 0 \in Nat /\ 0 \in 0..2 OBVIOUS
  <2>4. [t \in Tasks |-> 0] \in [Tasks -> 0..2] BY <2>3
  <2> QED BY <1>1, <2>1, <2>2, <2>3, <2>4 DEF Idle, Runs, Points, Controls
<1>3. /\ Idle.pc = "idle" /\ Idle.scope = None /\ \A t \in Tasks : Idle.at[t] = "none" /\ Idle.errors[t] = "none"
  BY DEF Idle
<1>4. Cardinality({t \in Tasks : Idle.at[t] \in Flying}) <= Maximum
  <2>1. {t \in Tasks : Idle.at[t] \in Flying} = {} BY <1>3 DEF Flying, Active, Finished
  <2>2. Cardinality({t \in Tasks : Idle.at[t] \in Flying}) = 0 BY <2>1, FS_EmptySet
  <2> QED BY <2>2, Ranks
<1>5. RunOk(Idle) BY <1>2, <1>3, <1>4 DEF RunOk, Waiting, Active, Between
<1>6. HasGot(Idle) BY <1>3 DEF HasGot
<1> QED BY <1>2, <1>3, <1>5, <1>6 DEF Decides

\* end_recovery: the run leaves no permit of its scope.
LEMMA EndKeeps ==
    ASSUME AnalysisAssumption, IInv, NEW w \in Workers, End(w)
    PROVE  IInv' /\ InTurn
<1> DEFINE r == run[w]
<1>1. /\ r.pc = "ending" /\ UNCHANGED <<job, quarantined, answer, merged, analysis>>
      /\ run' = [run EXCEPT ![w] = Idle]
      /\ ledger' = IF r.scope = None THEN ledger ELSE Ledger!Revoke(ledger, r.scope)
  BY DEF End, jobs, saved
<1>2. r.job \in Jobs /\ r \in Runs BY <1>1 DEF IInv, RunsInv, Fine, RunOk
<1>3. ~Decides(r) BY <1>1 DEF Decides
<1>4. Minds(r, Idle, analysis') BY <1>1, <1>3 DEF Minds
<1>5. ledger \in Ledger!Ledgers /\ None \notin Jobs BY Ranks DEF IInv, Shapes
<1>6. /\ Grants(ledger', ledger)
      /\ \A p \in ledger'.permits : p[2] = r.scope => p[2] = Idle.scope
  <2>1. CASE r.scope = None
    <3>1. \A p \in ledger.permits : p[2] \in Jobs BY <1>5 DEF Ledger!Ledgers
    <3> QED BY <1>1, <1>5, <2>1, <3>1 DEF Grants
  <2>2. CASE r.scope # None
    <3>1. ledger' = Ledger!Revoke(ledger, r.scope) BY <1>1, <2>2
    <3> QED BY <1>5, <3>1 DEF Grants, Ledger!Revoke, Ledger!Ledgers
  <2> QED BY <2>1, <2>2
<1>7. Fine(Idle, w, answer', analysis') BY IdleOk DEF Fine
<1>8. WholeInv' BY <1>1 DEF IInv, WholeInv, IsWhole
<1>9. /\ merged' \in [Jobs -> Answers \cup {None}] /\ analysis' \in [Jobs -> Answers \cup {None}]
      /\ quarantined' \subseteq Jobs
  BY <1>1 DEF IInv, Shapes
<1>10. ~Decides(Idle) BY IdleOk
<1>11. \A j \in Jobs : analysis[j] # None => analysis'[j] # None BY <1>1
<1>12. answer' = answer BY <1>1
<1> HIDE DEF IInv
<1> QED BY <1>1, <1>2, <1>4, <1>6, <1>7, <1>8, <1>9, <1>10, <1>11, <1>12, MainKeeps

-----------------------------------------------------------------------------
(* Requests, and the whole.                                                *)

\* A request begins a run of its own, beside those of the same import that have not ended.
LEMMA BeginningKeeps ==
    ASSUME AnalysisAssumption, IInv, NEW w \in Workers, NEW j \in Jobs, NEW scope \in Jobs \cup {None},
           Begun(w, j, scope), UNCHANGED <<quarantined, saved, ledger>>
    PROVE  IInv' /\ InTurn
<1> DEFINE s == [Idle EXCEPT !.pc = "enter", !.job = j, !.scope = scope]
<1>1. /\ run[w].pc = "idle" /\ run' = [run EXCEPT ![w] = s] /\ job' = [job EXCEPT ![j] = "running"]
      /\ UNCHANGED <<quarantined, answer, merged, analysis, ledger>>
  BY DEF Begun, saved
<1>2. /\ s \in Runs /\ s.pc = "enter" /\ s.job = j /\ s.scope = scope
      /\ s.at = Idle.at /\ s.errors = Idle.errors /\ s.got = Idle.got
  BY IdleOk DEF Runs, Points
<1>3. /\ \A t \in Tasks : Idle.at[t] = "none" /\ Idle.errors[t] = "none" /\ Idle.got[t] = None
      /\ Cardinality({t \in Tasks : Idle.at[t] \in Flying}) <= Maximum
  BY IdleOk DEF RunOk, Between, Idle, NoAnswers
<1> HIDE DEF s
<1>4. Fine(s, w, answer', analysis')
  BY <1>2, <1>3 DEF Fine, RunOk, HasGot, Agrees, Waiting, Active
<1>5. RunsInv' /\ run' = [u \in Workers |-> run'[u]]
  <2>1. \A k \in Jobs, t \in Tasks : answer[k][t] # None => answer'[k][t] = answer[k][t] BY <1>1
  <2>2. \A k \in Jobs : analysis[k] # None => analysis'[k] # None BY <1>1
  <2> HIDE DEF IInv
  <2> QED BY <1>1, <1>4, <2>1, <2>2, RunChanges
<1>6. run'[w] = s /\ \A u \in Workers \ {w} : run'[u] = run[u] BY <1>1 DEF IInv, Shapes
<1>7. JobsInv' /\ job' \in [Jobs -> Statuses]
  <2>1. job \in [Jobs -> Statuses] /\ JobsInv BY DEF IInv, Shapes
  <2>2. Decides(s) /\ ~Decides(run[w]) BY <1>1, <1>2, <1>3 DEF Decides
  <2>3. /\ job' \in [Jobs -> Statuses] /\ job'[j] = "running"
        /\ \A k \in Jobs \ {j} : job'[k] = job[k]
    BY <1>1, <2>1 DEF Statuses
  <2>4. ASSUME NEW k \in Jobs, job'[k] = "running"
        PROVE  \E u \in Workers : run'[u].job = k /\ Decides(run'[u])
    <3>1. CASE k = j BY <3>1, <1>2, <1>6, <2>2
    <3>2. CASE k # j
      <4>1. PICK u \in Workers : run[u].job = k /\ Decides(run[u]) BY <3>2, <2>1, <2>3, <2>4 DEF JobsInv
      <4> QED BY <4>1, <1>6, <2>2
    <3> QED BY <3>1, <3>2
  <2>5. \A k \in Jobs : job'[k] = "completed" => analysis'[k] # None BY <1>1, <2>1, <2>3 DEF JobsInv
  <2> QED BY <2>3, <2>4, <2>5 DEF JobsInv
<1>8. PermitsHaveOwner'
  <2>1. \A p \in ledger.permits : p[2] \in Jobs BY DEF IInv, Shapes, Ledger!Ledgers
  <2>2. run[w].scope = None BY <1>1 DEF IInv, RunsInv, Fine, RunOk
  <2>3. \A p \in ledger'.permits : p[2] = run[w].scope => p[2] = s.scope BY <1>1, <2>1, <2>2, Ranks
  <2>4. \A p \in ledger'.permits : p \in ledger.permits \/ p[2] = s.scope BY <1>1
  <2> QED BY <1>1, <2>3, <2>4, PermitsStay
<1>9. WholeInv' BY <1>1 DEF IInv, WholeInv, IsWhole
<1>10. Shapes' BY <1>1, <1>5, <1>7 DEF IInv, Shapes
<1>11. InTurn BY <1>1 DEF InTurn
<1> QED BY <1>5, <1>7, <1>8, <1>9, <1>10, <1>11 DEF IInv

\* request_pause and request_cancel: what the run has in hand is the same.
LEMMA ControlKeeps ==
    ASSUME AnalysisAssumption, IInv, NEW w \in Workers, Control(w)
    PROVE  IInv' /\ InTurn
<1> DEFINE r == run[w]  s == run'[w]
<1>1. PICK c \in Controls : run' = [run EXCEPT ![w].control = c] BY DEF Control, Controls
<1>2. /\ r.pc # "idle" /\ UNCHANGED saved /\ job' = job /\ quarantined' = quarantined /\ ledger' = ledger
      /\ answer' = answer /\ analysis' = analysis
  BY DEF Control, jobs, saved
<1>3. Fine(r, w, answer, analysis) /\ r \in Runs BY DEF IInv, RunsInv, Fine, RunOk
<1>4. run' = [run EXCEPT ![w] = s] /\ s = [r EXCEPT !.control = c] BY <1>1 DEF IInv, Shapes
<1>5. /\ s \in Runs /\ s.pc = r.pc /\ s.job = r.job /\ s.scope = r.scope /\ s.rank = r.rank
      /\ s.at = r.at /\ s.errors = r.errors /\ s.got = r.got /\ s.culprit = r.culprit
  BY <1>3, <1>4 DEF Runs
<1>6. Fine(s, w, answer', analysis') BY <1>2, <1>3, <1>5 DEF Fine, RunOk, HasGot, Agrees
<1>7. Minds(r, s, analysis') BY <1>2, <1>5 DEF Minds, Decides
<1>8. Grants(ledger', ledger) /\ quarantined' \subseteq Jobs BY <1>2, SameLedger DEF IInv, Shapes
<1> QED BY <1>2, <1>4, <1>5, <1>6, <1>7, <1>8, StatusKeeps

\* The engine dies: no run is left, no import counts as running, and no permit is good.
LEMMA CrashKeeps ==
    ASSUME AnalysisAssumption, IInv, Crash
    PROVE  IInv' /\ InTurn
<1>1. /\ run' = [w \in Workers |-> Idle] /\ UNCHANGED <<quarantined, answer, merged, analysis>>
      /\ job' = [j \in Jobs |-> IF job[j] = "running" THEN "recoverable" ELSE job[j]]
      /\ ledger' = Ledger!DiscardPermits(ledger)
  BY DEF Crash, saved
<1>2. ledger' \in Ledger!Ledgers /\ ledger'.permits = {}
  BY <1>1 DEF IInv, Shapes, Ledger!DiscardPermits, Ledger!Ledgers
<1>3. job' \in [Jobs -> Statuses] /\ \A j \in Jobs : job'[j] # "running"
      /\ (job'[j] = "completed" => job[j] = "completed")
  BY <1>1 DEF IInv, Shapes, Statuses
<1>4. JobsInv' BY <1>1, <1>3 DEF IInv, JobsInv
<1>5. RunsInv' BY <1>1, IdleOk DEF RunsInv, Fine
<1>6. run' = [w \in Workers |-> run'[w]] BY <1>1
<1>7. Shapes' BY <1>1, <1>2, <1>3, <1>6 DEF IInv, Shapes
<1>8. PermitsHaveOwner' BY <1>2 DEF PermitsHaveOwner
<1>9. WholeInv' BY <1>1 DEF IInv, WholeInv, IsWhole
<1>10. InTurn BY <1>1 DEF InTurn
<1> QED BY <1>4, <1>5, <1>7, <1>8, <1>9, <1>10 DEF IInv

\* At first nothing is imported, and no run is at work (load_or_create).
LEMMA InvariantInit == ASSUME AnalysisAssumption, Init PROVE IInv
<1>1. run = [w \in Workers |-> run[w]] /\ \A w \in Workers : run[w] = Idle BY DEF Init
<1>2. RunsInv BY <1>1, IdleOk DEF RunsInv, Fine
<1>3. ledger \in Ledger!Ledgers /\ ledger.permits = {} BY DEF Init, Ledger!EmptyLedger, Ledger!Ledgers
<1>4. NoAnswers \in Answers BY DEF NoAnswers, Answers
<1>5. Shapes BY <1>1, <1>3, <1>4 DEF Init, Shapes, Statuses
<1>6. JobsInv BY DEF Init, JobsInv
<1>7. WholeInv BY DEF Init, WholeInv, IsWhole
<1>8. PermitsHaveOwner BY <1>3 DEF PermitsHaveOwner
<1> QED BY <1>2, <1>5, <1>6, <1>7, <1>8 DEF IInv

\* Every step keeps the invariant, and saves answers in turn and for good.
LEMMA InvariantStep ==
    ASSUME AnalysisAssumption, IInv, [Next]_vars
    PROVE  IInv' /\ InTurn
<1>1. CASE UNCHANGED vars
  <2>1. UNCHANGED <<job, quarantined, answer, merged, analysis, run, ledger>>
    BY <1>1 DEF vars, jobs, saved
  <2>2. InTurn BY <2>1 DEF InTurn
  <2>3. IInv' BY <2>1 DEF IInv, Shapes, RunsInv, Fine, WholeInv, IsWhole, JobsInv, PermitsHaveOwner
  <2> QED BY <2>2, <2>3
<1>2. ASSUME NEW w \in Workers, NEW j \in Jobs, Import(w, j) \/ Resume(w, j) \/ Recover(w, j)
      PROVE  IInv' /\ InTurn
  <2>1. PICK scope \in Jobs \cup {None} : Begun(w, j, scope) BY <1>2 DEF Import, Resume, Recover
  <2>2. UNCHANGED <<quarantined, saved, ledger>> BY <1>2 DEF Import, Resume, Recover
  <2> QED BY <2>1, <2>2, BeginningKeeps
<1>3. ASSUME NEW w \in Workers, Control(w) PROVE IInv' /\ InTurn BY <1>3, ControlKeeps
<1>4. ASSUME NEW w \in Workers, Main(w) PROVE IInv' /\ InTurn
  BY <1>4, EnterKeeps, LevelsKeep, QueueKeeps, CollectKeeps, MapEndsKeep, BeginMergeKeeps,
     CheckpointsKeep, EndingsKeep, EndKeeps DEF Main
<1>5. ASSUME NEW w \in Workers, NEW t \in Tasks, Task(w, t) PROVE IInv' /\ InTurn
  <2>1. CASE Authorize(w, t) BY <2>1, AuthorizeKeeps
  <2>2. CASE ~Authorize(w, t) BY <2>2, <1>5, TaskAdvances, TaskKeeps
  <2> QED BY <2>1, <2>2
<1>6. ASSUME Crash PROVE IInv' /\ InTurn BY <1>6, CrashKeeps
<1> QED BY <1>1, <1>2, <1>3, <1>4, <1>5, <1>6 DEF Next, Work

\* What the invariant says of each state.
LEMMA InvariantMeans ==
    ASSUME AnalysisAssumption, IInv
    PROVE  TypeOK /\ PermitsHaveOwner /\ RunningIsWorkedOn /\ CompletedHasResult
<1>1. ASSUME NEW w \in Workers
      PROVE  /\ run[w].control \in Controls
             /\ run[w].pc = "idle" \/ run[w].job \in Jobs
             /\ Cardinality(InFlight(w)) <= Maximum
             /\ At(w, Active) # {} => run[w].pc \in {"map", "closing"}
  <2>1. RunOk(run[w]) BY DEF IInv, RunsInv, Fine
  <2>2. run[w] \in Runs BY <2>1 DEF RunOk
  <2>3. Cardinality(InFlight(w)) <= Maximum BY <2>1 DEF RunOk, InFlight, At, Flying
  <2>4. At(w, Active) # {} => run[w].pc \in {"map", "closing"} BY <2>1 DEF RunOk, At, Waiting
  <2> QED BY <2>1, <2>2, <2>3, <2>4 DEF RunOk, Runs
<1>2. TypeOK BY <1>1 DEF IInv, Shapes, TypeOK, Answers
<1>3. RunningIsWorkedOn BY <1>1 DEF IInv, JobsInv, RunningIsWorkedOn
<1>4. CompletedHasResult BY DEF IInv, JobsInv, WholeInv, IsWhole, CompletedHasResult
<1> QED BY <1>2, <1>3, <1>4 DEF IInv

\* The invariant: whatever the plan, the imports, the runs and their failures.
THEOREM BatchesInvariant == ASSUME AnalysisAssumption PROVE Spec => []IInv
<1>1. Init => IInv BY InvariantInit
<1>2. IInv /\ [Next]_vars => IInv' BY InvariantStep
<1> QED BY <1>1, <1>2, PTL DEF Spec

\* The statuses, checkpoints and contracts have their types, and a run never has more calls in
\* flight than a document may have (parallel_map_ordered, max_workers).
THEOREM BatchesTypes == ASSUME AnalysisAssumption PROVE Spec => []TypeOK
<1>1. IInv => TypeOK BY InvariantMeans
<1> QED BY <1>1, BatchesInvariant, PTL

\* A permit is there only under the scope of a recovery that is at work (end_recovery).
THEOREM BatchesPermitsHaveOwner == ASSUME AnalysisAssumption PROVE Spec => []PermitsHaveOwner
<1>1. IInv => PermitsHaveOwner BY InvariantMeans
<1> QED BY <1>1, BatchesInvariant, PTL

\* No thread of the pool works for a run that has left its map (the except clause of
\* parallel_map_ordered), and an import that counts as running is run by someone.
THEOREM BatchesRunningIsWorkedOn == ASSUME AnalysisAssumption PROVE Spec => []RunningIsWorkedOn
<1>1. IInv => RunningIsWorkedOn BY InvariantMeans
<1> QED BY <1>1, BatchesInvariant, PTL

\* The checkpoint of the stage is made of all the answers that are saved, however many runs
\* of the import there were (complete_merge, run_knowledge_analysis).
THEOREM BatchesCompletedHasResult == ASSUME AnalysisAssumption PROVE Spec => []CompletedHasResult
<1>1. IInv => CompletedHasResult BY InvariantMeans
<1> QED BY <1>1, BatchesInvariant, PTL

\* An answer is written once, and that of a node after those that it merges (complete_batch,
\* complete_merge_node).
THEOREM BatchesInTurn == ASSUME AnalysisAssumption PROVE Spec => [][InTurn]_vars
<1>1. IInv /\ [Next]_vars => InTurn BY InvariantStep
<1>2. IInv /\ [Next]_vars => IInv' BY InvariantStep
<1> QED BY <1>1, <1>2, BatchesInvariant, PTL DEF Spec

=============================================================================
