--------------------------- MODULE ModelDispatch ---------------------------
(***************************************************************************)
(* openkb/models/dispatch.py: how the model calls of one knowledge base    *)
(* are let through to the provider.  A call passes two gates and gives the *)
(* first back when it ends:                                                *)
(*   - the concurrency gate of its lane (background: Analysis Concurrency; *)
(*     interactive: one slot), whose waiters are queued by group (the job  *)
(*     or document of a background call) and served in turns;              *)
(*   - the rate limiter both lanes share (requests and tokens per window), *)
(*     where interactive calls come first and background ones take turns.  *)
(* Both queue background calls in the same way, a rotor here.  A waiter    *)
(* polls its condition, so no notification can be missed.                  *)
(***************************************************************************)
EXTENDS SequencesExt

CONSTANTS
    Calls,        \* the threads that make model calls, one call at a time each
    Interactive,  \* those in the interactive lane; the others are background calls
    GroupOf,      \* the job or document of a background call (_request_dispatch_group)
    SignalOf,     \* the cancel signal a call listens to (its is_cancelled callback)
    Need,         \* the tokens a call is estimated to take
    Used,         \* the numbers of tokens that calls turn out to have taken
    Maxima,       \* the values of Analysis Concurrency that are configured
    Limits,       \* the rate limits that are configured
    Env,          \* what may happen: "cancel", "configure"
    None

\* What is assumed of the constants; an instance states it for its own.
DispatchAssumption ==
    /\ IsFiniteSet(Calls) /\ Interactive \subseteq Calls
    /\ None \notin Calls \cup {GroupOf[c] : c \in Calls}
    /\ Maxima # {} /\ Maxima \subseteq Nat \ {0}
    /\ Limits # {} /\ Limits \subseteq [calls : Nat \ {0}, tokens : Nat \ {0}]
    /\ Need \in [Calls -> Nat \ {0}]
    /\ Used \subseteq Nat
    /\ Env \subseteq {"cancel", "configure"}

VARIABLES
    pc,            \* pc[c]: how far call c has come
    gate,          \* gate[l]: the rotor of the concurrency gate of lane l
    active,        \* active[l]: its slots that are taken
    maximum,       \* Analysis Concurrency
    limiter,       \* the rotor of the rate limiter
    questions,     \* its interactive waiters
    limits,        \* requests and tokens per window
    reservations,  \* the calls of the current window
    cancelled      \* the cancel signals that are set

dispatch ==
    <<pc, gate, active, maximum, limiter, questions, limits, reservations, cancelled>>

Lanes == {"background", "interactive"}

\* Near miss: answers queue with background work.
OneLane(c) == "background"

LaneOf(c) == IF c \in Interactive THEN "interactive" ELSE "background"

\* A call without a group forms a group of its own.
Group(c) == IF c \in Interactive THEN c ELSE GroupOf[c]
Groups == {Group(c) : c \in Calls}

\* Interactive answers always have one slot.
Maximum(l) == IF l = "interactive" THEN 1 ELSE maximum

-----------------------------------------------------------------------------
(* Rotors: the waiters of each group in order, the groups with waiters in  *)
(* the order of their turns, and the group served last.                    *)

EmptyRotor == [queue |-> [g \in Groups |-> <<>>], ready |-> <<>>, last |-> None]

\* Near miss: a group that comes back goes first.
JoinFirst(r, c) ==
    [r EXCEPT !.queue[Group(c)] = Append(@, c),
              !.ready = IF r.queue[Group(c)] = <<>> THEN Cons(Group(c), @) ELSE @]

Join(r, c) ==
    [queue |-> [r.queue EXCEPT ![Group(c)] = Append(@, c)],
     ready |-> IF r.queue[Group(c)] = <<>> THEN Append(r.ready, Group(c)) ELSE r.ready,
     last |-> r.last]

\* Near miss: the group served last is not passed over.
FirstGroup(r) == Head(r.ready)

NextGroup(r) ==
    IF Len(r.ready) > 1 /\ Head(r.ready) = r.last THEN r.ready[2] ELSE Head(r.ready)

IsNext(r, c) == NextGroup(r) = Group(c) /\ Head(r.queue[Group(c)]) = c

\* Near miss: the rest of the group goes with the first of it.
ServeGroup(r, g) ==
    [queue |-> [r.queue EXCEPT ![g] = <<>>], ready |-> RemoveFirst(r.ready, g), last |-> g]

\* The first of group g goes through; the group has its next turn last.
Serve(r, g) ==
    LET rest == Tail(r.queue[g])
        others == RemoveFirst(r.ready, g) IN
    [queue |-> [r.queue EXCEPT ![g] = rest],
     ready |-> IF rest = <<>> THEN others ELSE Append(others, g),
     last |-> g]

\* Near miss: a group that has no waiter left keeps its turn.
AbandonReady(r, g) == [r EXCEPT !.queue[g] = Tail(@)]

\* A waiter of group g leaves.  Tickets are dataclasses that compare by their
\* group, so deque.remove takes the first ticket of the group, whosever it is.
Abandon(r, g) ==
    LET rest == Tail(r.queue[g]) IN
    [queue |-> [r.queue EXCEPT ![g] = rest],
     ready |-> IF rest = <<>> THEN RemoveFirst(r.ready, g) ELSE r.ready,
     last |-> r.last]

-----------------------------------------------------------------------------
DispatchInit ==
    /\ pc = [c \in Calls |-> "out"]
    /\ gate = [l \in Lanes |-> EmptyRotor]
    /\ active = [l \in Lanes |-> 0]
    /\ maximum \in Maxima
    /\ limiter = EmptyRotor
    /\ questions = <<>>
    /\ limits \in Limits
    /\ reservations = <<>>
    /\ cancelled = {}

IsCancelled(c) == SignalOf[c] \in cancelled
Moves(c, to) == pc' = [pc EXCEPT ![c] = to]

(* The concurrency gate.                                                   *)

CanAdmit(l, r, c) == active[l] < Maximum(l) /\ IsNext(r, c)

\* One round of the loop of acquire_until_cancelled on rotor r.
TryGate(c, r) ==
    LET l == LaneOf(c) IN
    /\ \/ /\ CanAdmit(l, r, c)
          /\ gate' = [gate EXCEPT ![l] = Serve(r, Group(c))]
          /\ active' = [active EXCEPT ![l] = @ + 1]
          /\ Moves(c, "granted")
       \/ /\ ~CanAdmit(l, r, c)
          /\ gate' = [gate EXCEPT ![l] = IF IsCancelled(c) THEN Abandon(r, Group(c)) ELSE r]
          /\ Moves(c, IF IsCancelled(c) THEN "out" ELSE "gate")
          /\ UNCHANGED active
    /\ UNCHANGED <<maximum, limiter, questions, limits, reservations, cancelled>>

EnterGate(c) ==
    /\ pc[c] = "out" /\ ~IsCancelled(c)
    /\ TryGate(c, Join(gate[LaneOf(c)], c))

RetestGate(c) ==
    /\ pc[c] = "gate"
    /\ TryGate(c, gate[LaneOf(c)])

(* The rate limiter.                                                       *)

Tokens == FoldLeft(LAMBDA sum, x : sum + x.tokens, 0, reservations)

HasCapacity(c) ==
    /\ Len(reservations) < limits.calls
    /\ Tokens + Need[c] <= limits.tokens

\* Whether c is next among the interactive waiters w and the background rotor r.
LimiterNext(c, r, w) ==
    IF c \in Interactive THEN Head(w) = c ELSE w = <<>> /\ IsNext(r, c)

\* Near miss: the slot in the lane is not given back.
RefuseAndForget(c) == Moves(c, "out")

\* The limiter raises and the slot in the lane is given back.
Refuse(c) == Moves(c, "releasing")

\* One round of the loop of acquire on rotor r and interactive waiters w.
TryLimiter(c, r, w) ==
    LET admitted == LimiterNext(c, r, w) /\ HasCapacity(c)
        answers == c \in Interactive IN
    /\ \/ /\ admitted
          /\ limiter' = IF answers THEN r ELSE Serve(r, Group(c))
          /\ questions' = IF answers THEN Tail(w) ELSE w
          /\ reservations' = Append(reservations, [call |-> c, tokens |-> Need[c]])
          /\ Moves(c, "calling")
       \/ /\ ~admitted /\ IsCancelled(c)
          /\ limiter' = IF answers THEN r ELSE Abandon(r, Group(c))
          /\ questions' = IF answers THEN RemoveFirst(w, c) ELSE w
          /\ Refuse(c)
          /\ UNCHANGED reservations
       \/ /\ ~admitted /\ ~IsCancelled(c)
          /\ limiter' = r
          /\ questions' = w
          /\ Moves(c, "limit")
          /\ UNCHANGED reservations
    /\ UNCHANGED <<gate, active, maximum, limits, cancelled>>

EnterLimiter(c) ==
    /\ pc[c] = "granted"
    /\ \/ /\ Need[c] > limits.tokens
          /\ Refuse(c)
          /\ UNCHANGED <<gate, active, maximum, limiter, questions, limits, reservations, cancelled>>
       \/ /\ Need[c] <= limits.tokens
          /\ IF c \in Interactive THEN TryLimiter(c, limiter, Append(questions, c))
                                  ELSE TryLimiter(c, Join(limiter, c), questions)

RetestLimiter(c) ==
    /\ pc[c] = "limit"
    /\ TryLimiter(c, limiter, questions)

(* The call itself.                                                        *)

\* The last reservation of c, if the window still holds it.
LastOf(c) ==
    {i \in DOMAIN reservations :
        /\ reservations[i].call = c
        /\ \A k \in DOMAIN reservations : reservations[k].call = c => k <= i}

\* The provider answers and the reservation, if the window still holds it, is
\* corrected to what the call took; or the call fails or is cancelled.
Return(c) ==
    /\ pc[c] = "calling"
    /\ Moves(c, "releasing")
    /\ \/ UNCHANGED reservations
       \/ \E i \in LastOf(c), used \in Used :
             reservations' = [reservations EXCEPT ![i] = [call |-> c, tokens |-> used]]
    /\ UNCHANGED <<gate, active, maximum, limiter, questions, limits, cancelled>>

\* Near miss: the error handler and the finally clause both release.
ReleaseTwice(c) ==
    /\ pc[c] = "releasing"
    /\ active' = [active EXCEPT ![LaneOf(c)] = @ - 2]
    /\ Moves(c, "out")
    /\ UNCHANGED <<gate, maximum, limiter, questions, limits, reservations, cancelled>>

Release(c) ==
    /\ pc[c] = "releasing"
    /\ active' = [active EXCEPT ![LaneOf(c)] = @ - 1]
    /\ Moves(c, "out")
    /\ UNCHANGED <<gate, maximum, limiter, questions, limits, reservations, cancelled>>

\* The oldest reservation leaves the window.
Expire ==
    /\ reservations # <<>>
    /\ reservations' = Tail(reservations)
    /\ UNCHANGED <<pc, gate, active, maximum, limiter, questions, limits, cancelled>>

Cancel(s) ==
    /\ "cancel" \in Env
    /\ s \notin cancelled
    /\ cancelled' = cancelled \cup {s}
    /\ UNCHANGED <<pc, gate, active, maximum, limiter, questions, limits, reservations>>

\* The model settings are saved; gates and limiter that exist are configured.
Configure ==
    /\ "configure" \in Env
    /\ \/ maximum' \in Maxima \ {maximum} /\ UNCHANGED limits
       \/ limits' \in Limits \ {limits} /\ UNCHANGED maximum
    /\ UNCHANGED <<pc, gate, active, limiter, questions, reservations, cancelled>>

DispatchNext ==
    \/ \E c \in Calls : \/ EnterGate(c) \/ RetestGate(c) \/ EnterLimiter(c)
                        \/ RetestLimiter(c) \/ Return(c) \/ Release(c)
    \/ \E s \in {SignalOf[c] : c \in Calls} : Cancel(s)
    \/ Expire
    \/ Configure

DispatchSpec == DispatchInit /\ [][DispatchNext]_dispatch

\* Waiters poll and the window moves on.  Nothing is assumed of the provider: a call
\* has a timeout for connecting only (wait_for_model_response waits for its end).
Polls(c) == RetestGate(c) \/ EnterLimiter(c) \/ RetestLimiter(c) \/ Release(c)

FairDispatch ==
    /\ DispatchSpec
    /\ \A c \in Calls : WF_dispatch(Polls(c))
    /\ WF_dispatch(Expire)

-----------------------------------------------------------------------------
(* Properties.                                                             *)

Holding == {"granted", "limit", "calling", "releasing"}
In(l, S) == {c \in Calls : LaneOf(c) = l /\ pc[c] \in S}
Waiters(l, g, at) == {c \in In(l, {at}) : Group(c) = g}
Rotor(r) ==
    /\ r.queue \in [Groups -> Seq(Calls)]
    /\ r.ready \in Seq(Groups)
    /\ r.last \in Groups \cup {None}

\* Types (dispatch.py: the fields of the gate and of the limiter).
DispatchTypeOK ==
    /\ pc \in [Calls -> {"out", "gate"} \cup Holding]
    /\ \A l \in Lanes : Rotor(gate[l])
    /\ active \in [Lanes -> Nat]
    /\ maximum \in Maxima
    /\ Rotor(limiter)
    /\ questions \in Seq(Interactive)
    /\ limits \in Limits
    /\ reservations \in Seq([call : Calls, tokens : Nat])
    /\ cancelled \subseteq {SignalOf[c] : c \in Calls}

\* Every slot that is taken belongs to a call that gives it back: a call that is
\* refused by the limiter or cancelled anywhere leaks none and frees none twice
\* (prepare_terminal_model_request, once).
SlotsAreOwned == \A l \in Lanes : active[l] = Cardinality(In(l, Holding))

\* A rotor has one ticket for each waiter and a turn for each group that has any,
\* whatever order waiters come, go through and give up in; a turn without a ticket
\* would raise in the next waiter's test (_next_ready_group, _remove_waiter).
RotorAgrees(r, l, at) ==
    /\ \A g \in Groups : Len(r.queue[g]) = Cardinality(Waiters(l, g, at))
    /\ IsInjective(r.ready)
    /\ ToSet(r.ready) = {g \in Groups : r.queue[g] # <<>>}

QueuesMatchWaiters ==
    /\ \A l \in Lanes : RotorAgrees(gate[l], l, "gate")
    /\ RotorAgrees(limiter, "background", "limit")
    /\ ToSet(questions) = In("interactive", {"limit"}) /\ IsInjective(questions)

\* A call that waits and is not cancelled has its own ticket in the queue, so its
\* turn comes (acquire_until_cancelled: group_waiters[0] is ticket).
WaitersAreQueued ==
    \A c \in Calls : ~IsCancelled(c) =>
        /\ pc[c] = "gate" => c \in ToSet(gate[LaneOf(c)].queue[Group(c)])
        /\ pc[c] = "limit" /\ c \notin Interactive => c \in ToSet(limiter.queue[Group(c)])

TicketsMatchWaiters == QueuesMatchWaiters /\ WaitersAreQueued

\* "Scheduling is fair across documents": a group is not served twice in a row, at
\* the gate or by the limiter, while a call of another group of its lane waits.
ServedInTurn ==
    \A c \in Calls :
        /\ pc[c] \in {"out", "gate"} /\ pc'[c] = "granted" /\ Group(c) = gate[LaneOf(c)].last =>
              \A d \in Calls :
                  pc[d] = "gate" /\ LaneOf(d) = LaneOf(c) => Group(d) = Group(c)
        /\ c \notin Interactive /\ pc[c] \in {"granted", "limit"} /\ pc'[c] = "calling" =>
              \A d \in Calls \ Interactive :
                  pc[d] = "limit" /\ Group(c) = limiter.last => Group(d) = Group(c)
TurnsAlternate == [][ServedInTurn]_dispatch

\* Background calls that never end cannot keep an answer from the provider: a
\* question that waits goes on or gives up, whatever background work does (ADR 0035).
QuestionsNeedNoBackground ==
    \A c \in Interactive :
        pc[c] \in {"gate", "granted", "limit"} ~> pc[c] \in {"calling", "releasing", "out"}

\* Background calls are all served as long as those before them end, questions do not
\* keep coming and no limit is set below the size of a call (a call that waits is not
\* tested against the new limit, and then holds up every other): taking turns starves
\* no document.
CallsAreServed ==
    (/\ \A c \in Calls : []<>(pc[c] # "calling")
     /\ <>[](\A c \in Interactive : pc[c] = "out")
     /\ <>[](\A c \in Calls : Need[c] <= limits.tokens))
    => \A c \in Calls \ Interactive :
           pc[c] \in {"gate", "granted", "limit"} ~> pc[c] \in {"calling", "releasing", "out"}

=============================================================================
