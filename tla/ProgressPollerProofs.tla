------------------------- MODULE ProgressPollerProofs -------------------------
(***************************************************************************)
(* The events of a build are well formed and stop() delivers all of them,  *)
(* for every number of items, however the workers, the poller and stop()   *)
(* interleave, as long as the join of stop() does not time out.            *)
(*                                                                         *)
(* Then one thread dispatches at a time: the main thread only once the     *)
(* poller has exited, over the counters as the build left them.  A         *)
(* snapshot never exceeds the counters, and the book is never ahead of the *)
(* snapshot being dispatched; so what the book lets through is in order.   *)
(***************************************************************************)
EXTENDS ProgressPoller, FiniteSetTheorems, TLAPS

-----------------------------------------------------------------------------
(* The invariant.                                                          *)

Threads == {Poller, Main}

States == {"waiting", "started", "finished"}

Counter == [phase : 0 .. Plugins, finished : BOOLEAN,
            total : [Phase -> Nat], done : [Phase -> Nat], slots : Seq(States)]

Signals == {"plugin_start", "plugin_end"} \X Nat

Book == [started : SUBSET Phase, ended : SUBSET Phase,
         last : [Phase -> Nat], signalled : SUBSET Signals]

Thread == [pc : {"poll", "start", "progress", "slots", "end", "flushed",
                 "dispatched", "wait", "exited"},
           snap : Counter, phase : Phase, slot : Nat, ended : BOOLEAN, again : BOOLEAN]

Event == {"phase_start", "phase_progress", "phase_end", "plugin_start", "plugin_end"}
           \X Phase \X Nat

TypeOK ==
  /\ counters \in Counter /\ building \in BOOLEAN /\ stopping \in BOOLEAN
  /\ book \in Book /\ thread \in [Threads -> Thread] /\ log \in Seq(Event)

(* Counters, of now or of a snapshot: nothing of a phase before it starts,  *)
(* and never more than its total.                                           *)
Sane(c) ==
  /\ \A p \in Phase : c.phase < p => c.total[p] = 0 /\ c.done[p] = 0
  /\ \A p \in Phase : p <= c.phase => c.total[p] = Total[p]
  /\ \A p \in Phase : c.done[p] <= Work[p] /\ c.done[p] <= c.total[p]
  /\ c.phase < Plugins => c.slots = << >>
  /\ c.phase = Plugins => Len(c.slots) = Total[Plugins]

(* A slot only moves on.                                                    *)
Reached(now, was) ==
  /\ was = "started" => now \in {"started", "finished"}
  /\ was = "finished" => now = "finished"

(* s was taken before: nothing has gone back, and nothing moves once the    *)
(* build is finished.                                                       *)
Before(s, c) ==
  /\ s.phase <= c.phase
  /\ \A p \in Phase : s.done[p] <= c.done[p]
  /\ \A i \in DOMAIN s.slots : i \in DOMAIN c.slots /\ Reached(c.slots[i], s.slots[i])
  /\ s.finished => s = c

CountersOK ==
  /\ Sane(counters)
  /\ counters.finished = ~building
  /\ stopping => ~building
  /\ \A t \in Threads : Sane(Snap(t)) /\ Before(Snap(t), counters)

(* The main thread dispatches after the poller, over the final counters.    *)
TurnsOK ==
  /\ thread[Main].pc \notin {"wait", "exited"}
  /\ thread[Main].pc # "poll" =>
       thread[Poller].pc = "exited" /\ counters.finished /\ Snap(Main) = counters
  /\ \A t \in Threads : ~Dispatching(t) => At(t) = Enum

Due(what, state) ==
  \/ what = "plugin_start" /\ state \in {"started", "finished"}
  \/ what = "plugin_end" /\ state = "finished"

Reported(c) ==
  \A what \in {"plugin_start", "plugin_end"}, i \in DOMAIN c.slots :
    Due(what, c.slots[i]) => <<what, i>> \in book.signalled

BookOK ==
  /\ book.ended \subseteq book.started
  /\ \A p \in Phase \ book.ended : book.last[p] <= counters.done[p] + 1
  /\ \A what \in {"plugin_start", "plugin_end"}, i \in Nat :
       <<what, i>> \in book.signalled =>
         i \in DOMAIN counters.slots /\ Due(what, counters.slots[i])
  /\ Plugins \in book.ended => counters.finished /\ Reported(counters)

(* A phase the snapshot has left behind.                                    *)
Left(c, p) == p <= c.phase /\ (p < c.phase \/ c.finished)

SlotOf(i, what) == IF what = "plugin_start" THEN 2 * i - 1 ELSE 2 * i

DispatchOK(t) ==
  Dispatching(t) =>
    /\ \A p \in Phase \ book.ended : book.last[p] <= Snap(t).done[p] + 1
    /\ \A p \in Phase : p < At(t) /\ Left(Snap(t), p) => p \in book.ended
    /\ thread[t].pc # "start" /\ At(t) <= Snap(t).phase => At(t) \in book.started
    /\ thread[t].pc \in {"progress", "slots", "end"} =>
         (thread[t].ended <=> At(t) \in book.ended)
    /\ thread[t].pc = "flushed" => At(t) \in book.ended
    /\ thread[t].pc = "slots" =>
         /\ thread[t].slot > 0 /\ At(t) = Plugins
         /\ Plugins \in book.started /\ Plugins \notin book.ended
         /\ \A what \in {"plugin_start", "plugin_end"}, i \in DOMAIN Snap(t).slots :
              SlotOf(i, what) < thread[t].slot /\ Due(what, Snap(t).slots[i])
                => <<what, i>> \in book.signalled
    /\ thread[t].pc = "end" /\ At(t) = Plugins /\ Running(t) => Reported(Snap(t))

ReturnedOK ==
  Returned => \A p \in Phase : p <= counters.phase => p \in book.ended

(* The phases whose end is written in the book and not called back yet.     *)
Flushing == {At(t) : t \in {u \in Threads : thread[u].pc = "flushed"}}

Is(e, kind, p) == e[1] = kind /\ e[2] = p

MayFollow(e, f) ==
  e[2] = f[2] =>
    /\ f[1] # "phase_progress" /\ e[1] = f[1] =>
         f[1] \in {"plugin_start", "plugin_end"} /\ e[3] # f[3]
    /\ f[1] = "phase_progress" => e[1] # "phase_end"
    /\ f[1] = "phase_progress" /\ e[1] = f[1] => e[3] < f[3]

(* Event i of the log, against the ones before it and the book.             *)
Justified(l, b, flushing, i) ==
  LET kind == l[i][1]
      p    == l[i][2]
  IN  /\ \A j \in DOMAIN l : j < i => MayFollow(l[j], l[i])
      /\ kind = "phase_start" =>
           /\ p \in b.started
           /\ p > Enum => \E j \in DOMAIN l : j < i /\ Is(l[j], "phase_end", p - 1)
      /\ kind \in {"phase_progress", "phase_end"} =>
           \E j \in DOMAIN l : j < i /\ Is(l[j], "phase_start", p)
      /\ kind = "phase_progress" => l[i][3] < b.last[p]
      /\ kind = "phase_end" => p \in b.ended \ flushing
      /\ kind \in {"plugin_start", "plugin_end"} =>
           p = Plugins /\ <<kind, l[i][3]>> \in b.signalled

(* Everything in the book has been called back.                             *)
Delivered(l, b, flushing) ==
  /\ \A p \in b.started : \E i \in DOMAIN l : Is(l[i], "phase_start", p)
  /\ \A p \in b.ended \ flushing : \E i \in DOMAIN l : Is(l[i], "phase_end", p)
  /\ \A s \in b.signalled : \E i \in DOMAIN l : l[i] = <<s[1], Plugins, s[2]>>

LogFits(l, b, flushing) ==
  (\A i \in DOMAIN l : Justified(l, b, flushing, i)) /\ Delivered(l, b, flushing)

IInv ==
  /\ TypeOK /\ CountersOK /\ TurnsOK
  /\ BookOK /\ \A t \in Threads : DispatchOK(t)
  /\ ReturnedOK /\ LogFits(log, book, Flushing)

-----------------------------------------------------------------------------
(* The build moves the counters.                                           *)

(* Phases are numbered.                                                     *)
LEMMA PhaseFacts ==
  /\ Phase \subseteq Nat /\ Enum \in Phase /\ Fqname \in Phase /\ Plugins \in Phase
  /\ \A p \in Phase : Enum <= p /\ p <= Plugins
  /\ \A n \in Nat : Enum <= n /\ n <= Plugins => n \in Phase
  /\ 0 .. Plugins \subseteq Nat /\ \A p \in 0 .. Plugins : p <= Plugins
  /\ Enum = 1 /\ Plugins \in Nat /\ Enum < Plugins
BY DEF Phase, Enum, Fqname, Plugins

(* A snapshot of before is one of before still.                             *)
LEMMA BeforeIsTransitive ==
  ASSUME NEW a \in Counter, NEW b \in Counter, NEW c \in Counter,
         Before(a, b), Before(b, c), ~b.finished
  PROVE  Before(a, c)
<1>1. a.phase <= c.phase
  <2>1. a.phase \in Nat /\ b.phase \in Nat /\ c.phase \in Nat
    BY DEF Counter, Plugins
  <2>2. a.phase <= b.phase /\ b.phase <= c.phase
    BY DEF Before
  <2> QED
    BY <2>1, <2>2
<1>2. \A p \in Phase : a.done[p] <= c.done[p]
  <2> TAKE p \in Phase
  <2>1. a.done[p] \in Nat /\ b.done[p] \in Nat /\ c.done[p] \in Nat
    BY DEF Counter
  <2> QED
    BY <2>1 DEF Before
<1>3. \A i \in DOMAIN a.slots : i \in DOMAIN c.slots /\ Reached(c.slots[i], a.slots[i])
  BY DEF Before, Reached
<1>4. ~a.finished
  BY DEF Before
<1> QED
  BY <1>1, <1>2, <1>3, <1>4 DEF Before

(* While it builds no phase of plugins was ended, and nobody is in stop().  *)
LEMMA WhileBuilding ==
  ASSUME IInv, building
  PROVE  /\ ~counters.finished /\ ~stopping /\ thread[Main].pc = "poll"
         /\ Plugins \notin book.ended
BY DEF IInv, CountersOK, TurnsOK, BookOK

(* Whatever the workers and the building thread count, if counts only grow. *)
LEMMA CountersMove ==
  ASSUME IInv, building, building' \in BOOLEAN,
         counters' \in Counter, Sane(counters'), Before(counters, counters'),
         counters'.finished = ~building',
         UNCHANGED <<stopping, book, thread, log>>
  PROVE  IInv'
<1>1. ~counters.finished /\ ~stopping /\ thread[Main].pc = "poll" /\ Plugins \notin book.ended
  BY WhileBuilding
<1>2. TypeOK'
  BY DEF IInv, TypeOK
<1>3. CountersOK'
  <2>1. \A t \in Threads : Snap(t) \in Counter /\ counters \in Counter
    BY DEF IInv, TypeOK, Snap, Thread
  <2>2. \A t \in Threads : Snap(t)' = Snap(t)
    BY DEF Snap
  <2>3. \A t \in Threads : Before(Snap(t), counters')
    BY <2>1, <1>1, BeforeIsTransitive DEF IInv, CountersOK
  <2>4. \A t \in Threads : Before(Snap(t), counters)'
    BY <2>2, <2>3 DEF Before, Reached
  <2>5. \A t \in Threads : Sane(Snap(t))'
    BY <2>2 DEF IInv, CountersOK, Sane
  <2>6. Sane(counters)'
    BY DEF Sane
  <2> QED
    BY <2>4, <2>5, <2>6, <1>1 DEF CountersOK
<1>4. TurnsOK'
  BY <1>1 DEF IInv, TurnsOK, Dispatching, At
<1>5. BookOK'
  <2>1. book' = book
    OBVIOUS
  <2>2. \A p \in Phase \ book.ended : book.last[p] <= counters'.done[p] + 1
    <3> TAKE p \in Phase \ book.ended
    <3>1. /\ book.last[p] \in Nat /\ counters.done[p] \in Nat /\ counters'.done[p] \in Nat
      BY DEF IInv, TypeOK, Counter, Book
    <3>2. book.last[p] <= counters.done[p] + 1 /\ counters.done[p] <= counters'.done[p]
      BY DEF IInv, BookOK, Before
    <3> QED
      BY <3>1, <3>2
  <2>3. \A what \in {"plugin_start", "plugin_end"}, i \in Nat :
          <<what, i>> \in book.signalled =>
            i \in DOMAIN counters'.slots /\ Due(what, counters'.slots[i])
    <3> TAKE what \in {"plugin_start", "plugin_end"}, i \in Nat
    <3> HAVE <<what, i>> \in book.signalled
    <3>1. i \in DOMAIN counters.slots /\ Due(what, counters.slots[i])
      BY DEF IInv, BookOK
    <3>2. i \in DOMAIN counters'.slots /\ Reached(counters'.slots[i], counters.slots[i])
      BY <3>1 DEF Before
    <3> QED
      BY <3>1, <3>2 DEF Due, Reached
  <2>4. book.ended \subseteq book.started
    BY DEF IInv, BookOK
  <2> QED
    BY <1>1, <2>1, <2>2, <2>3, <2>4 DEF BookOK
<1>6. \A t \in Threads : DispatchOK(t)'
  BY DEF IInv, DispatchOK, Dispatching, Snap, At, Running, Reported
<1>7. ReturnedOK'
  BY <1>1 DEF ReturnedOK, Returned
<1>8. LogFits(log, book, Flushing)'
  <2>1. Flushing' = Flushing
    BY DEF Flushing, At
  <2> QED
    BY <2>1 DEF IInv, LogFits, Justified, Delivered
<1> QED
  BY <1>2, <1>3, <1>4, <1>5, <1>6, <1>7, <1>8 DEF IInv

(* A slot that moves on: plugin_started and plugin_finished.                *)
LEMMA SlotMoves ==
  ASSUME counters \in Counter, Sane(counters), ~counters.finished, counters.phase = Plugins,
         NEW i \in DOMAIN counters.slots, NEW state \in States, Reached(state, counters.slots[i]),
         counters' = [counters EXCEPT !.slots[i] = state]
  PROVE  counters' \in Counter /\ Sane(counters') /\ Before(counters, counters')
           /\ ~counters'.finished
<1> DEFINE slots == [counters.slots EXCEPT ![i] = state]
<1>1. /\ counters.phase \in 0 .. Plugins /\ counters.finished \in BOOLEAN
      /\ counters.total \in [Phase -> Nat] /\ counters.done \in [Phase -> Nat]
      /\ counters.slots \in Seq(States)
  BY DEF Counter
<1>2. counters' = [counters EXCEPT !.slots = slots]
  OBVIOUS
<1>3. /\ slots \in Seq(States) /\ Len(slots) = Len(counters.slots)
      /\ DOMAIN slots = DOMAIN counters.slots
      /\ \A k \in DOMAIN slots : slots[k] = IF k = i THEN state ELSE counters.slots[k]
  BY <1>1
<1> HIDE DEF slots
<1>4. /\ counters'.phase = counters.phase /\ counters'.finished = counters.finished
      /\ counters'.total = counters.total /\ counters'.done = counters.done
      /\ counters'.slots = slots /\ counters' \in Counter
  BY <1>1, <1>2, <1>3 DEF Counter
<1>5. Sane(counters')
  BY <1>3, <1>4 DEF Sane
<1>6. Before(counters, counters')
  <2>1. \A k \in DOMAIN counters.slots : k \in DOMAIN slots /\ Reached(slots[k], counters.slots[k])
    BY <1>3 DEF Reached
  <2>2. /\ counters.phase <= counters'.phase
        /\ \A p \in Phase : counters.done[p] <= counters'.done[p]
    BY <1>1, <1>4 DEF Plugins
  <2> QED
    BY <2>1, <2>2, <1>4 DEF Before
<1> QED
  BY <1>4, <1>5, <1>6

(* A count that goes up, to no more than the work of its phase.             *)
LEMMA CountMoves ==
  ASSUME counters \in Counter, Sane(counters), ~counters.finished,
         NEW p \in Phase, p <= counters.phase,
         NEW n \in Nat, counters.done[p] <= n, n <= Work[p],
         counters' = [counters EXCEPT !.done[p] = n]
  PROVE  counters' \in Counter /\ Sane(counters') /\ Before(counters, counters')
           /\ ~counters'.finished
<1> DEFINE done == [counters.done EXCEPT ![p] = n]
<1>1. /\ counters.phase \in 0 .. Plugins /\ counters.finished \in BOOLEAN
      /\ counters.total \in [Phase -> Nat] /\ counters.done \in [Phase -> Nat]
      /\ counters.slots \in Seq(States)
  BY DEF Counter
<1>2. counters' = [counters EXCEPT !.done = done]
  OBVIOUS
<1>3. /\ done \in [Phase -> Nat]
      /\ \A q \in Phase : done[q] = IF q = p THEN n ELSE counters.done[q]
  BY <1>1
<1> HIDE DEF done
<1>4. /\ counters'.phase = counters.phase /\ counters'.finished = counters.finished
      /\ counters'.total = counters.total /\ counters'.done = done
      /\ counters'.slots = counters.slots /\ counters' \in Counter
  BY <1>1, <1>2, <1>3 DEF Counter
<1>5. Work[p] <= Total[p] /\ Work[p] \in Nat /\ Total[p] \in Nat
  BY PhasesAssumption
<1>6. p \in Nat /\ counters.phase \in Nat /\ Phase \subseteq Nat
  BY <1>1, PhaseFacts
<1>7. Sane(counters')
  <2>1. \A q \in Phase : counters.phase < q => counters.total[q] = 0 /\ done[q] = 0
    BY <1>3, <1>6 DEF Sane
  <2>2. \A q \in Phase : done[q] <= Work[q] /\ done[q] <= counters.total[q]
    BY <1>3, <1>5 DEF Sane
  <2> QED
    BY <2>1, <2>2, <1>4 DEF Sane
<1>8. Before(counters, counters')
  <2>1. \A q \in Phase : counters.done[q] <= done[q]
    <3> TAKE q \in Phase
    <3>1. counters.done[q] \in Nat
      BY <1>1
    <3> QED
      BY <3>1, <1>3
  <2>2. counters.phase <= counters'.phase
    BY <1>4, <1>6
  <2>3. \A k \in DOMAIN counters.slots : Reached(counters.slots[k], counters.slots[k])
    BY DEF Reached
  <2> QED
    BY <2>1, <2>2, <2>3, <1>4 DEF Before
<1> QED
  BY <1>4, <1>7, <1>8

(* start_phase announces the next phase.                                    *)
LEMMA StartPhaseKeeps ==
  ASSUME IInv, StartPhase
  PROVE  IInv'
<1> DEFINE p == counters.phase + 1
           first == IF p = Enum THEN Total[p] ELSE 0
           total == [counters.total EXCEPT ![p] = Total[p]]
           done == [counters.done EXCEPT ![p] = first]
           slots == IF p = Plugins THEN [i \in 1 .. Total[p] |-> "waiting"] ELSE counters.slots
<1>1. /\ counters \in Counter /\ Sane(counters)
      /\ building /\ p \in Phase
      /\ UNCHANGED <<building, stopping, book, thread, log>>
  BY DEF StartPhase, IInv, TypeOK, CountersOK
<1>2. /\ counters.phase \in 0 .. Plugins /\ counters.finished = FALSE
      /\ counters.total \in [Phase -> Nat] /\ counters.done \in [Phase -> Nat]
      /\ counters.slots \in Seq(States)
  BY <1>1, WhileBuilding DEF Counter
<1>3. /\ Total[p] \in Nat /\ Work[p] \in Nat /\ (p = Enum => Work[p] = Total[p])
      /\ \A q \in Phase : Work[q] \in Nat
  BY <1>1, PhasesAssumption
<1>4. /\ counters.phase \in Nat /\ p \in Nat /\ p <= Plugins /\ counters.phase < Plugins
      /\ Phase \subseteq Nat
  BY <1>1, <1>2, PhaseFacts
<1>5. /\ total \in [Phase -> Nat]
      /\ \A q \in Phase : total[q] = IF q = p THEN Total[p] ELSE counters.total[q]
  BY <1>2, <1>3
<1>6. first \in Nat /\ first <= Work[p] /\ first <= Total[p]
  BY <1>3
<1>7. /\ done \in [Phase -> Nat]
      /\ \A q \in Phase : done[q] = IF q = p THEN first ELSE counters.done[q]
  BY <1>2, <1>6
<1>8. counters.slots = << >>
  BY <1>1, <1>4 DEF Sane
<1>9. /\ slots \in Seq(States)
      /\ p < Plugins => slots = << >>
      /\ p = Plugins => Len(slots) = Total[p]
  BY <1>3, <1>4, <1>8 DEF States
<1>10. counters' = [counters EXCEPT !.phase = p, !.total = total, !.done = done, !.slots = slots]
  BY DEF StartPhase
<1>11. counters = [phase |-> counters.phase, finished |-> counters.finished,
                   total |-> counters.total, done |-> counters.done, slots |-> counters.slots]
  BY <1>1 DEF Counter
<1> HIDE DEF total, done, slots, first
<1>12. counters' = [phase |-> p, finished |-> counters.finished,
                    total |-> total, done |-> done, slots |-> slots]
  BY <1>10, <1>11
<1>13. /\ counters'.phase = p /\ counters'.finished = FALSE
       /\ counters'.total = total /\ counters'.done = done /\ counters'.slots = slots
  BY <1>2, <1>12
<1> HIDE DEF p
<1>14. p \in 0 .. Plugins
  BY <1>4 DEF Plugins
<1>15. counters' \in Counter
  BY <1>2, <1>5, <1>7, <1>9, <1>12, <1>14 DEF Counter
<1>16. Sane(counters')
  <2>1. \A q \in Phase : p < q => total[q] = 0 /\ done[q] = 0
    BY <1>1, <1>4, <1>5, <1>7 DEF Sane, p
  <2>2. \A q \in Phase : q <= p => total[q] = Total[q]
    <3> TAKE q \in Phase
    <3> HAVE q <= p
    <3>1. q = p \/ q <= counters.phase
      BY <1>4 DEF p
    <3> QED
      BY <3>1, <1>1, <1>5 DEF Sane
  <2>3. \A q \in Phase : done[q] <= Work[q] /\ done[q] <= total[q]
    BY <1>1, <1>5, <1>6, <1>7 DEF Sane
  <2> QED
    BY <2>1, <2>2, <2>3, <1>9, <1>13 DEF Sane
<1>17. Before(counters, counters')
  <2>1. \A q \in Phase : counters.done[q] <= done[q]
    <3> TAKE q \in Phase
    <3>1. CASE q = p
      <4>1. counters.done[q] = 0
        BY <3>1, <1>1, <1>4 DEF Sane, p
      <4> QED
        BY <4>1, <3>1, <1>6, <1>7
    <3>2. CASE q # p
      <4>1. done[q] = counters.done[q] /\ counters.done[q] \in Nat
        BY <3>2, <1>2, <1>7
      <4> QED
        BY <4>1
    <3> QED
      BY <3>1, <3>2
  <2>2. counters.phase <= p
    BY <1>4 DEF p
  <2> QED
    BY <2>1, <2>2, <1>2, <1>8, <1>13 DEF Before
<1> QED
  BY <1>1, <1>13, <1>15, <1>16, <1>17, CountersMove DEF IInv, TypeOK

LEMMA CountDoneKeeps ==
  ASSUME IInv, CountDone
  PROVE  IInv'
<1>1. PICK p \in Phase \ {Plugins} :
        /\ Workers(p) /\ ~AllDone(p)
        /\ counters' = [counters EXCEPT !.done[p] = IF p = Fqname THEN Work[p] ELSE @ + 1]
        /\ UNCHANGED <<building, stopping, book, thread, log>>
  BY DEF CountDone
<1> DEFINE n == IF p = Fqname THEN Work[p] ELSE counters.done[p] + 1
<1>2. counters \in Counter /\ Sane(counters) /\ building /\ ~counters.finished /\ counters.phase = p
  BY <1>1, WhileBuilding DEF IInv, TypeOK, CountersOK, Workers
<1>3. /\ counters.done[p] \in Nat /\ Work[p] \in Nat /\ counters.done[p] < Work[p]
      /\ p \in Phase /\ p \in Nat
  <2>1. counters.done[p] \in Nat /\ Work[p] \in Nat
    BY <1>2, PhasesAssumption DEF Counter
  <2>2. counters.done[p] <= Work[p] /\ counters.done[p] # Work[p]
    BY <1>1, <1>2 DEF Sane, AllDone
  <2> QED
    BY <1>1, <2>1, <2>2, PhaseFacts
<1>4. n \in Nat /\ counters.done[p] <= n /\ n <= Work[p]
  BY <1>3
<1>5. counters' = [counters EXCEPT !.done[p] = n]
  BY <1>1
<1> HIDE DEF n
<1>6. counters' \in Counter /\ Sane(counters') /\ Before(counters, counters') /\ ~counters'.finished
  BY <1>2, <1>3, <1>4, <1>5, CountMoves
<1> QED
  BY <1>1, <1>2, <1>6, CountersMove DEF IInv, TypeOK, Counter

LEMMA PluginMovesKeeps ==
  ASSUME IInv, NEW i \in DOMAIN counters.slots, PluginStarted(i) \/ PluginFinished(i)
  PROVE  IInv'
<1>1. PICK state \in States :
        /\ Workers(Plugins) /\ Reached(state, counters.slots[i])
        /\ counters' = [counters EXCEPT !.slots[i] = state]
        /\ UNCHANGED <<building, stopping, book, thread, log>>
  BY DEF PluginStarted, PluginFinished, Reached, States
<1>2. /\ counters \in Counter /\ Sane(counters) /\ building /\ ~counters.finished
      /\ counters.phase = Plugins
  BY <1>1, WhileBuilding DEF IInv, TypeOK, CountersOK, Workers
<1>3. counters' \in Counter /\ Sane(counters') /\ Before(counters, counters') /\ ~counters'.finished
  BY <1>1, <1>2, SlotMoves
<1> QED
  BY <1>1, <1>2, <1>3, CountersMove DEF IInv, TypeOK, Counter

(* No more plugins are counted than there are.                              *)
LEMMA PluginCountedKeeps ==
  ASSUME IInv, PluginCounted
  PROVE  IInv'
<1> DEFINE finished == {i \in DOMAIN counters.slots : counters.slots[i] = "finished"}
           n == counters.done[Plugins] + 1
<1>1. /\ Workers(Plugins) /\ counters.done[Plugins] < Cardinality(finished)
      /\ counters' = [counters EXCEPT !.done[Plugins] = @ + 1]
      /\ UNCHANGED <<building, stopping, book, thread, log>>
  BY DEF PluginCounted
<1>2. /\ counters \in Counter /\ Sane(counters) /\ building /\ ~counters.finished
      /\ counters.phase = Plugins
  BY <1>1, WhileBuilding DEF IInv, TypeOK, CountersOK, Workers
<1>3. Plugins \in Phase /\ Plugins \in Nat
  BY DEF Phase, Enum, Plugins
<1>4. /\ Work[Plugins] = Total[Plugins] /\ Total[Plugins] \in Nat
      /\ counters.done[Plugins] \in Nat
  BY <1>2, <1>3, PhasesAssumption DEF Counter
<1>5. Cardinality(finished) \in Nat /\ Cardinality(finished) <= Total[Plugins]
  <2>1. DOMAIN counters.slots = 1 .. Total[Plugins]
    BY <1>2 DEF Sane, Counter
  <2>2. IsFiniteSet(1 .. Total[Plugins]) /\ Cardinality(1 .. Total[Plugins]) = Total[Plugins]
    BY <1>4, FS_Interval
  <2>3. finished \in SUBSET (1 .. Total[Plugins])
    BY <2>1
  <2> QED
    BY <2>2, <2>3, FS_Subset, FS_CardinalityType
<1>6. n \in Nat /\ counters.done[Plugins] <= n /\ n <= Work[Plugins]
  BY <1>1, <1>4, <1>5
<1>7. counters' = [counters EXCEPT !.done[Plugins] = n]
  BY <1>1
<1>8. Plugins <= counters.phase
  BY <1>2, <1>3
<1> HIDE DEF n
<1>9. counters' \in Counter /\ Sane(counters') /\ Before(counters, counters') /\ ~counters'.finished
  BY <1>2, <1>3, <1>6, <1>7, <1>8, CountMoves
<1> QED
  BY <1>1, <1>2, <1>9, CountersMove DEF IInv, TypeOK, Counter

(* The build ends, well or badly: the counters stay as they are.            *)
LEMMA EndOfBuildKeeps ==
  ASSUME IInv, Succeed \/ Fail
  PROVE  IInv'
<1>1. /\ building /\ building' = FALSE
      /\ counters' = [counters EXCEPT !.finished = TRUE]
      /\ UNCHANGED <<stopping, book, thread, log>>
  BY DEF Succeed, Fail, Workers
<1>2. counters \in Counter /\ Sane(counters) /\ ~counters.finished
  BY <1>1, WhileBuilding DEF IInv, TypeOK, CountersOK
<1>3. /\ counters' \in Counter /\ counters'.finished = TRUE
      /\ counters'.phase = counters.phase /\ counters'.total = counters.total
      /\ counters'.done = counters.done /\ counters'.slots = counters.slots
  BY <1>1, <1>2 DEF Counter
<1>4. Sane(counters')
  BY <1>2, <1>3 DEF Sane
<1>5. Before(counters, counters')
  <2>1. counters.phase <= counters.phase /\ \A p \in Phase : counters.done[p] <= counters.done[p]
    BY <1>2 DEF Counter, Plugins
  <2> QED
    BY <2>1, <1>2, <1>3 DEF Before, Reached
<1> QED
  BY <1>1, <1>3, <1>4, <1>5, CountersMove

-----------------------------------------------------------------------------
(* The log.                                                                *)

(* What an event must be to be called back next.                            *)
Admitted(l, b, flushing, e) ==
  /\ \A j \in DOMAIN l : MayFollow(l[j], e)
  /\ e[1] = "phase_start" =>
       /\ e[2] \in b.started
       /\ e[2] > Enum => \E j \in DOMAIN l : Is(l[j], "phase_end", e[2] - 1)
  /\ e[1] \in {"phase_progress", "phase_end"} => \E j \in DOMAIN l : Is(l[j], "phase_start", e[2])
  /\ e[1] = "phase_progress" => e[3] < b.last[e[2]]
  /\ e[1] = "phase_end" => e[2] \in b.ended \ flushing
  /\ e[1] \in {"plugin_start", "plugin_end"} => e[2] = Plugins /\ <<e[1], e[3]>> \in b.signalled

(* The book may only gain, and no end called back is taken back.            *)
Gains(b, flushing, c, now) ==
  /\ b.started \subseteq c.started /\ b.signalled \subseteq c.signalled
  /\ b.ended \ flushing \subseteq c.ended \ now
  /\ \A p \in Phase : b.last[p] <= c.last[p]

(* All it gains is the event.                                               *)
GainsOnly(b, flushing, c, now, e) ==
  /\ \A p \in c.started \ b.started : Is(e, "phase_start", p)
  /\ \A p \in (c.ended \ now) \ (b.ended \ flushing) : Is(e, "phase_end", p)
  /\ \A s \in c.signalled \ b.signalled : e = <<s[1], Plugins, s[2]>>

(* An event appended to the log of sequence type.                           *)
LEMMA AppendFacts ==
  ASSUME NEW l \in Seq(Event), NEW e \in Event
  PROVE  /\ Append(l, e) \in Seq(Event)
         /\ DOMAIN l = 1 .. Len(l) /\ Len(l) \in Nat
         /\ DOMAIN Append(l, e) = 1 .. Len(l) + 1
         /\ \A i \in DOMAIN l : i \in DOMAIN Append(l, e) /\ Append(l, e)[i] = l[i]
         /\ Append(l, e)[Len(l) + 1] = e
         /\ \A i \in DOMAIN Append(l, e) : i \in DOMAIN l \/ i = Len(l) + 1
OBVIOUS

LEMMA AppendFits ==
  ASSUME NEW l \in Seq(Event), NEW b \in Book, NEW c \in Book, NEW flushing, NEW now,
         NEW e \in Event,
         LogFits(l, b, flushing), Gains(b, flushing, c, now), GainsOnly(b, flushing, c, now, e),
         Admitted(l, c, now, e)
  PROVE  LogFits(Append(l, e), c, now)
<1> DEFINE m == Append(l, e)
           N == Len(l) + 1
<1>1. /\ m \in Seq(Event) /\ DOMAIN l = 1 .. Len(l) /\ Len(l) \in Nat
      /\ DOMAIN m = 1 .. N
      /\ \A i \in DOMAIN l : i \in DOMAIN m /\ m[i] = l[i]
      /\ m[N] = e
      /\ \A i \in DOMAIN m : i \in DOMAIN l \/ i = N
  BY AppendFacts
<1>2. N \in DOMAIN m /\ \A i \in DOMAIN l : i < N /\ i \in Nat
  BY <1>1
<1> HIDE DEF m, N
<1>3. \A i, j \in DOMAIN m : i \in DOMAIN l /\ j < i => j \in DOMAIN l
  BY <1>1, <1>2
<1>4. ASSUME NEW i \in DOMAIN l
      PROVE  Justified(m, c, now, i)
  <2> DEFINE kind == l[i][1]
             p == l[i][2]
  <2>1. Justified(l, b, flushing, i)
    BY DEF LogFits
  <2>2. m[i] = l[i] /\ i \in DOMAIN m
    BY <1>1
  <2>3. l[i] \in Event /\ p \in Phase /\ l[i][3] \in Nat
    BY DEF Event
  <2>4. \A j \in DOMAIN m : j < i => MayFollow(m[j], m[i])
    <3> TAKE j \in DOMAIN m
    <3> HAVE j < i
    <3>1. j \in DOMAIN l /\ m[j] = l[j]
      BY <1>1, <1>3, <2>2
    <3> QED
      BY <3>1, <2>1, <2>2 DEF Justified
  <2>5. kind = "phase_start" =>
           /\ p \in c.started
           /\ p > Enum => \E j \in DOMAIN m : j < i /\ Is(m[j], "phase_end", p - 1)
    <3> HAVE kind = "phase_start"
    <3>1. p \in b.started /\ (p > Enum => \E j \in DOMAIN l : j < i /\ Is(l[j], "phase_end", p - 1))
      BY <2>1 DEF Justified
    <3> QED
      BY <3>1, <1>1 DEF Gains
  <2>6. kind \in {"phase_progress", "phase_end"} =>
           \E j \in DOMAIN m : j < i /\ Is(m[j], "phase_start", p)
    <3> HAVE kind \in {"phase_progress", "phase_end"}
    <3>1. \E j \in DOMAIN l : j < i /\ Is(l[j], "phase_start", p)
      BY <2>1 DEF Justified
    <3> QED
      BY <3>1, <1>1
  <2>7. kind = "phase_progress" => l[i][3] < c.last[p]
    <3> HAVE kind = "phase_progress"
    <3>1. l[i][3] < b.last[p] /\ b.last[p] <= c.last[p]
      BY <2>1, <2>3 DEF Justified, Gains
    <3>2. b.last[p] \in Nat /\ c.last[p] \in Nat
      BY <2>3 DEF Book
    <3> QED
      BY <3>1, <3>2, <2>3
  <2>8. kind = "phase_end" => p \in c.ended \ now
    BY <2>1 DEF Justified, Gains
  <2>9. kind \in {"plugin_start", "plugin_end"} => p = Plugins /\ <<kind, l[i][3]>> \in c.signalled
    BY <2>1 DEF Justified, Gains
  <2> QED
    BY <2>2, <2>4, <2>5, <2>6, <2>7, <2>8, <2>9 DEF Justified
<1>5. Justified(m, c, now, N)
  <2>1. m[N] = e
    BY <1>1
  <2>2. \A j \in DOMAIN m : j < N => MayFollow(m[j], m[N])
    <3> TAKE j \in DOMAIN m
    <3> HAVE j < N
    <3>1. j \in DOMAIN l /\ m[j] = l[j]
      BY <1>1, <1>2
    <3> QED
      BY <3>1, <2>1 DEF Admitted
  <2>3. ASSUME NEW kind, NEW p, \E j \in DOMAIN l : Is(l[j], kind, p)
        PROVE  \E j \in DOMAIN m : j < N /\ Is(m[j], kind, p)
    BY <2>3, <1>1, <1>2
  <2>4. e[1] = "phase_start" =>
           /\ e[2] \in c.started
           /\ e[2] > Enum => \E j \in DOMAIN m : j < N /\ Is(m[j], "phase_end", e[2] - 1)
    BY <2>3 DEF Admitted
  <2>5. e[1] \in {"phase_progress", "phase_end"} =>
           \E j \in DOMAIN m : j < N /\ Is(m[j], "phase_start", e[2])
    BY <2>3 DEF Admitted
  <2>6. /\ e[1] = "phase_progress" => e[3] < c.last[e[2]]
        /\ e[1] = "phase_end" => e[2] \in c.ended \ now
        /\ e[1] \in {"plugin_start", "plugin_end"} =>
             e[2] = Plugins /\ <<e[1], e[3]>> \in c.signalled
    BY DEF Admitted
  <2> QED
    BY <2>1, <2>2, <2>4, <2>5, <2>6 DEF Justified
<1>6. Delivered(m, c, now)
  <2>1. ASSUME NEW p \in c.started
        PROVE  \E i \in DOMAIN m : Is(m[i], "phase_start", p)
    <3>1. CASE p \in b.started
      BY <3>1, <1>1 DEF LogFits, Delivered
    <3>2. CASE p \notin b.started
      BY <3>2, <1>1, <1>2 DEF GainsOnly
    <3> QED
      BY <3>1, <3>2
  <2>2. ASSUME NEW p \in c.ended \ now
        PROVE  \E i \in DOMAIN m : Is(m[i], "phase_end", p)
    <3>1. CASE p \in b.ended \ flushing
      BY <3>1, <1>1 DEF LogFits, Delivered
    <3>2. CASE p \notin b.ended \ flushing
      BY <3>2, <1>1, <1>2 DEF GainsOnly
    <3> QED
      BY <3>1, <3>2
  <2>3. ASSUME NEW s \in c.signalled
        PROVE  \E i \in DOMAIN m : m[i] = <<s[1], Plugins, s[2]>>
    <3>1. CASE s \in b.signalled
      BY <3>1, <1>1 DEF LogFits, Delivered
    <3>2. CASE s \notin b.signalled
      BY <3>2, <1>1, <1>2 DEF GainsOnly
    <3> QED
      BY <3>1, <3>2
  <2> QED
    BY <2>1, <2>2, <2>3 DEF Delivered
<1>7. \A i \in DOMAIN m : Justified(m, c, now, i)
  BY <1>1, <1>4, <1>5
<1> QED
  BY <1>6, <1>7 DEF LogFits, m

(* Nothing of a phase is called back before its start.                      *)
LEMMA StartAdmitted ==
  ASSUME NEW l \in Seq(Event), NEW b \in Book, NEW c \in Book, NEW flushing,
         NEW p \in Phase, NEW n \in Nat,
         LogFits(l, b, flushing), p \notin b.started, p \in c.started,
         p > Enum => p - 1 \in b.ended \ flushing
  PROVE  Admitted(l, c, flushing, <<"phase_start", p, n>>)
<1> DEFINE e == <<"phase_start", p, n>>
<1>1. e[1] = "phase_start" /\ e[2] = p /\ e[3] = n
  OBVIOUS
<1> HIDE DEF e
<1>2. ASSUME NEW j \in DOMAIN l
      PROVE  MayFollow(l[j], e)
  <2>1. Justified(l, b, flushing, j)
    BY DEF LogFits
  <2>2. ~Is(l[j], "phase_start", p)
    BY <2>1 DEF Justified, Is
  <2> QED
    BY <1>1, <2>2 DEF MayFollow, Is
<1>3. p > Enum => \E j \in DOMAIN l : Is(l[j], "phase_end", p - 1)
  BY DEF LogFits, Delivered
<1> QED
  BY <1>1, <1>2, <1>3 DEF Admitted, e

(* A count, while the end of the phase has not been called back.            *)
LEMMA ProgressAdmitted ==
  ASSUME NEW l \in Seq(Event), NEW b \in Book, NEW c \in Book, NEW flushing, NEW now,
         NEW p \in Phase, NEW n \in Nat,
         LogFits(l, b, flushing), p \in b.started, p \notin b.ended,
         b.last[p] <= n, c.last[p] = n + 1
  PROVE  Admitted(l, c, now, <<"phase_progress", p, n>>)
<1> DEFINE e == <<"phase_progress", p, n>>
<1>1. e[1] = "phase_progress" /\ e[2] = p /\ e[3] = n
  OBVIOUS
<1> HIDE DEF e
<1>2. ASSUME NEW j \in DOMAIN l
      PROVE  MayFollow(l[j], e)
  <2>1. Justified(l, b, flushing, j) /\ l[j] \in Event
    BY DEF LogFits
  <2>2. ~Is(l[j], "phase_end", p)
    BY <2>1 DEF Justified, Is
  <2>3. Is(l[j], "phase_progress", p) => l[j][3] < n
    <3> HAVE Is(l[j], "phase_progress", p)
    <3>1. l[j][3] < b.last[p]
      BY <2>1 DEF Justified, Is
    <3>2. l[j][3] \in Nat /\ b.last[p] \in Nat
      BY <2>1 DEF Event, Book
    <3> QED
      BY <3>1, <3>2
  <2> QED
    BY <1>1, <2>2, <2>3 DEF MayFollow, Is
<1>3. \E j \in DOMAIN l : Is(l[j], "phase_start", p)
  BY DEF LogFits, Delivered
<1>4. n < c.last[p]
  OBVIOUS
<1> QED
  BY <1>1, <1>2, <1>3, <1>4 DEF Admitted, e

(* The end of a phase, once.                                                *)
LEMMA EndAdmitted ==
  ASSUME NEW l \in Seq(Event), NEW b \in Book, NEW c \in Book, NEW flushing, NEW now,
         NEW p \in Phase,
         LogFits(l, b, flushing), p \in b.started,
         p \notin b.ended \ flushing, p \in c.ended \ now
  PROVE  Admitted(l, c, now, <<"phase_end", p, 0>>)
<1> DEFINE e == <<"phase_end", p, 0>>
<1>1. e[1] = "phase_end" /\ e[2] = p /\ e[3] = 0
  OBVIOUS
<1> HIDE DEF e
<1>2. ASSUME NEW j \in DOMAIN l
      PROVE  MayFollow(l[j], e)
  <2>1. Justified(l, b, flushing, j)
    BY DEF LogFits
  <2>2. ~Is(l[j], "phase_end", p)
    BY <2>1 DEF Justified, Is
  <2> QED
    BY <1>1, <2>2 DEF MayFollow, Is
<1>3. \E j \in DOMAIN l : Is(l[j], "phase_start", p)
  BY DEF LogFits, Delivered
<1> QED
  BY <1>1, <1>2, <1>3 DEF Admitted, e

(* A plugin's start or end, once.                                           *)
LEMMA PluginAdmitted ==
  ASSUME NEW l \in Seq(Event), NEW b \in Book, NEW c \in Book, NEW flushing,
         NEW what \in {"plugin_start", "plugin_end"}, NEW i \in Nat,
         LogFits(l, b, flushing),
         <<what, i>> \notin b.signalled, <<what, i>> \in c.signalled
  PROVE  Admitted(l, c, flushing, <<what, Plugins, i>>)
<1> DEFINE e == <<what, Plugins, i>>
<1>1. e[1] = what /\ e[2] = Plugins /\ e[3] = i
  OBVIOUS
<1> HIDE DEF e
<1>2. ASSUME NEW j \in DOMAIN l
      PROVE  MayFollow(l[j], e)
  <2>1. Justified(l, b, flushing, j)
    BY DEF LogFits
  <2>2. l[j][1] = what => l[j][3] # i
    BY <2>1 DEF Justified
  <2> QED
    BY <1>1, <2>2 DEF MayFollow
<1> QED
  BY <1>1, <1>2 DEF Admitted, e

-----------------------------------------------------------------------------
(* The two threads.                                                        *)

(* What stays of thread t, and all of the other.                            *)
Same(t) == \A u \in Threads : u # t => thread'[u] = thread[u]

(* A step of a thread: where it is, and what goes with it.                  *)
LEMMA GotoFacts ==
  ASSUME thread \in [Threads -> Thread], NEW t \in Threads, NEW pc, Goto(t, pc)
  PROVE  /\ Same(t) /\ DOMAIN thread' = Threads
         /\ thread'[t] = [thread[t] EXCEPT !.pc = pc]
         /\ thread'[t].pc = pc /\ thread'[t].snap = thread[t].snap
         /\ thread'[t].phase = thread[t].phase /\ thread'[t].slot = thread[t].slot
         /\ thread'[t].ended = thread[t].ended /\ thread'[t].again = thread[t].again
<1>1. thread[t] \in Thread /\ DOMAIN thread = Threads
  OBVIOUS
<1>2. thread' = [thread EXCEPT ![t] = [thread[t] EXCEPT !.pc = pc]]
  BY DEF Goto
<1>3. thread'[t] = [thread[t] EXCEPT !.pc = pc] /\ Same(t) /\ DOMAIN thread' = Threads
  BY <1>1, <1>2 DEF Same
<1> QED
  BY <1>1, <1>3 DEF Thread

LEMMA TakeSnapshotFacts ==
  ASSUME thread \in [Threads -> Thread], NEW t \in Threads, TakeSnapshot(t)
  PROVE  /\ Same(t) /\ DOMAIN thread' = Threads
         /\ thread'[t] = [[thread[t] EXCEPT !.pc = "start"] EXCEPT !.snap = counters]
         /\ thread'[t].pc = "start" /\ thread'[t].snap = counters
         /\ thread'[t].phase = thread[t].phase /\ thread'[t].slot = thread[t].slot
         /\ thread'[t].ended = thread[t].ended /\ thread'[t].again = thread[t].again
<1>1. thread[t] \in Thread /\ DOMAIN thread = Threads
  OBVIOUS
<1>2. thread' = [thread EXCEPT ![t] = [[thread[t] EXCEPT !.pc = "start"] EXCEPT !.snap = counters]]
  BY <1>1 DEF TakeSnapshot
<1>3. /\ thread'[t] = [[thread[t] EXCEPT !.pc = "start"] EXCEPT !.snap = counters]
      /\ Same(t) /\ DOMAIN thread' = Threads
  BY <1>1, <1>2 DEF Same
<1> QED
  BY <1>1, <1>3 DEF Thread

LEMMA NextPhaseFacts ==
  ASSUME thread \in [Threads -> Thread], NEW t \in Threads, NextPhase(t)
  PROVE  LET pc == IF At(t) = Plugins THEN "dispatched" ELSE "start"
             ph == IF At(t) = Plugins THEN Enum ELSE At(t) + 1
         IN  /\ Same(t) /\ DOMAIN thread' = Threads
             /\ thread'[t] = [[thread[t] EXCEPT !.pc = pc] EXCEPT !.phase = ph]
             /\ thread'[t].pc = pc /\ thread'[t].snap = thread[t].snap
             /\ thread'[t].phase = ph /\ thread'[t].slot = thread[t].slot
             /\ thread'[t].ended = thread[t].ended /\ thread'[t].again = thread[t].again
<1> DEFINE pc == IF At(t) = Plugins THEN "dispatched" ELSE "start"
           ph == IF At(t) = Plugins THEN Enum ELSE At(t) + 1
           r == [[thread[t] EXCEPT !.pc = pc] EXCEPT !.phase = ph]
<1>1. thread[t] \in Thread /\ DOMAIN thread = Threads
  OBVIOUS
<1>2. thread' = [thread EXCEPT ![t] = r]
  BY <1>1 DEF NextPhase, At
<1> HIDE DEF pc, ph
<1>3. thread'[t] = r /\ Same(t) /\ DOMAIN thread' = Threads
  BY <1>1, <1>2 DEF Same
<1>4. /\ r.pc = pc /\ r.snap = thread[t].snap
      /\ r.phase = ph /\ r.slot = thread[t].slot
      /\ r.ended = thread[t].ended /\ r.again = thread[t].again
  BY <1>1 DEF Thread
<1> QED
  BY <1>3, <1>4 DEF pc, ph

(* The join lets one thread dispatch at a time.                             *)
LEMMA OneDispatches ==
  ASSUME IInv, NEW t \in Threads, Dispatching(t)
  PROVE  /\ \A u \in Threads : u # t => ~Dispatching(u)
         /\ Flushing = IF thread[t].pc = "flushed" THEN {At(t)} ELSE {}
<1>1. \A u \in Threads : u # t => ~Dispatching(u)
  BY DEF IInv, TurnsOK, Dispatching, Threads
<1>2. \A u \in Threads : thread[u].pc = "flushed" => u = t
  BY <1>1 DEF Dispatching
<1>3. Flushing = IF thread[t].pc = "flushed" THEN {At(t)} ELSE {}
  BY <1>2 DEF Flushing
<1> QED
  BY <1>1, <1>3

(* A step of the thread that dispatches.                                    *)
Steps(t) ==
  /\ UNCHANGED <<counters, building, stopping>>
  /\ thread' \in [Threads -> Thread] /\ Same(t)
  /\ thread'[t].snap = thread[t].snap
  /\ thread'[t].pc \in {"start", "progress", "slots", "end", "flushed", "dispatched"}
  /\ thread'[t].pc = "dispatched" => thread'[t].phase = Enum

LEMMA DispatchSteps ==
  ASSUME IInv, NEW t \in Threads, Dispatching(t), Steps(t),
         book' \in Book, log' \in Seq(Event),
         BookOK', DispatchOK(t)',
         thread'[t].pc = "dispatched" =>
           \A p \in Phase : Left(Snap(t), p) => p \in book'.ended,
         LogFits(log', book', IF thread'[t].pc = "flushed" THEN {thread'[t].phase} ELSE {})
  PROVE  IInv'
<1>1. TypeOK'
  BY DEF IInv, TypeOK, Steps
<1>2. CountersOK'
  <2>1. \A u \in Threads : Snap(u)' = Snap(u)
    BY DEF Steps, Same, Snap
  <2>2. counters' = counters /\ building' = building /\ stopping' = stopping
    BY DEF Steps
  <2> QED
    BY <2>1, <2>2 DEF IInv, CountersOK, Sane, Before, Reached
<1>3. \A u \in Threads : u # t => ~Dispatching(u) /\ thread'[u] = thread[u]
  BY OneDispatches DEF Steps, Same
<1>4. TurnsOK'
  <2>1. ASSUME NEW u \in Threads, ~Dispatching(u)'
        PROVE  At(u)' = Enum
    BY <2>1, <1>3 DEF IInv, TurnsOK, Dispatching, At, Steps
  <2>2. CASE t = Main
    <3>1. /\ thread[Main].pc # "poll" /\ thread'[Main].pc \notin {"wait", "exited"}
          /\ thread'[Poller] = thread[Poller]
          /\ Snap(Main)' = Snap(Main) /\ counters' = counters
      BY <2>2, <1>3 DEF Dispatching, Steps, Threads, Main, Poller, Snap
    <3> QED
      BY <2>1, <3>1 DEF IInv, TurnsOK
  <2>3. CASE t = Poller
    <3>1. thread[Main].pc = "poll" /\ thread'[Main] = thread[Main]
      BY <2>3, <1>3 DEF IInv, TurnsOK, Dispatching, Threads, Main, Poller
    <3> QED
      BY <2>1, <3>1 DEF TurnsOK
  <2> QED
    BY <2>2, <2>3 DEF Threads
<1>5. \A u \in Threads : DispatchOK(u)'
  <2>1. ASSUME NEW u \in Threads, u # t PROVE ~Dispatching(u)'
    BY <2>1, <1>3 DEF Dispatching
  <2> QED
    BY <2>1 DEF DispatchOK
<1>6. ReturnedOK'
  <2>1. CASE t = Main
    <3>1. Snap(Main) = counters /\ counters.finished /\ counters' = counters
      BY <2>1 DEF IInv, TurnsOK, Dispatching, Steps
    <3>2. counters.phase \in Nat /\ Phase \subseteq Nat
      BY PhaseFacts DEF IInv, TypeOK, Counter
    <3>3. \A p \in Phase : p <= counters.phase => Left(Snap(Main), p)
      BY <3>1, <3>2 DEF Left
    <3> QED
      BY <2>1, <3>1, <3>3 DEF ReturnedOK, Returned
  <2>2. CASE t = Poller
    <3>1. thread'[Main].pc = "poll"
      BY <2>2, <1>3 DEF IInv, TurnsOK, Dispatching, Threads, Main, Poller
    <3> QED
      BY <3>1 DEF ReturnedOK, Returned
  <2> QED
    BY <2>1, <2>2 DEF Threads
<1>7. Flushing' = IF thread'[t].pc = "flushed" THEN {thread'[t].phase} ELSE {}
  <2>1. \A u \in Threads : thread'[u].pc = "flushed" => u = t
    BY <1>3 DEF Dispatching
  <2> QED
    BY <2>1 DEF Flushing, At
<1>8. LogFits(log, book, Flushing)'
  BY <1>7 DEF LogFits, Justified, Delivered
<1> QED
  BY <1>1, <1>2, <1>4, <1>5, <1>6, <1>8 DEF IInv

-----------------------------------------------------------------------------
(* The steps of a dispatch.                                                *)

(* What is known of the thread and of its snapshot.                         *)
LEMMA DispatcherFacts ==
  ASSUME IInv, NEW t \in Threads, Dispatching(t)
  PROVE  /\ thread \in [Threads -> Thread] /\ thread[t] \in Thread
         /\ Snap(t) = thread[t].snap /\ At(t) = thread[t].phase
         /\ Snap(t) \in Counter /\ counters \in Counter
         /\ At(t) \in Phase /\ At(t) \in Nat /\ Snap(t).phase \in Nat
         /\ Sane(Snap(t)) /\ Before(Snap(t), counters)
         /\ \A p \in Phase : /\ Snap(t).done[p] \in Nat /\ Snap(t).total[p] \in Nat
                             /\ counters.done[p] \in Nat /\ book.last[p] \in Nat
                             /\ Snap(t).done[p] <= Snap(t).total[p]
                             /\ Snap(t).done[p] <= counters.done[p]
         /\ Snap(t).phase <= Plugins
         /\ book \in Book /\ log \in Seq(Event)
         /\ BookOK /\ DispatchOK(t) /\ LogFits(log, book, Flushing)
<1>1. thread \in [Threads -> Thread] /\ thread[t] \in Thread
  BY DEF IInv, TypeOK
<1>2. Snap(t) \in Counter /\ counters \in Counter /\ book \in Book /\ log \in Seq(Event)
  BY <1>1 DEF IInv, TypeOK, Snap, Thread
<1>3. At(t) \in Phase /\ At(t) \in Nat /\ Snap(t).phase \in Nat /\ Snap(t).phase <= Plugins
  BY <1>1, <1>2, PhaseFacts DEF At, Thread, Counter
<1>4. Sane(Snap(t)) /\ Before(Snap(t), counters)
  BY DEF IInv, CountersOK
<1>5. \A p \in Phase : /\ Snap(t).done[p] \in Nat /\ Snap(t).total[p] \in Nat
                       /\ counters.done[p] \in Nat /\ book.last[p] \in Nat
                       /\ Snap(t).done[p] <= Snap(t).total[p]
                       /\ Snap(t).done[p] <= counters.done[p]
  BY <1>2, <1>4 DEF Counter, Book, Sane, Before
<1>6. BookOK /\ DispatchOK(t) /\ LogFits(log, book, Flushing)
  BY DEF IInv
<1> QED
  BY <1>1, <1>2, <1>3, <1>4, <1>5, <1>6 DEF Snap, At

(* On to the next phase, or out of the loop.                                *)
LEMMA Advances ==
  ASSUME IInv, NEW t \in Threads, Dispatching(t), NextPhase(t),
         UNCHANGED <<counters, building, stopping>>,
         book.ended \subseteq book'.ended,
         \A p \in Phase \ book'.ended : book'.last[p] <= Snap(t).done[p] + 1,
         Left(Snap(t), At(t)) => At(t) \in book'.ended
  PROVE  /\ Steps(t) /\ DispatchOK(t)'
         /\ thread'[t].pc = "dispatched" =>
              \A p \in Phase : Left(Snap(t), p) => p \in book'.ended
         /\ thread'[t].pc # "flushed"
<1> DEFINE pc == IF At(t) = Plugins THEN "dispatched" ELSE "start"
           ph == IF At(t) = Plugins THEN Enum ELSE At(t) + 1
<1>1. /\ thread \in [Threads -> Thread] /\ thread[t] \in Thread
      /\ At(t) \in Phase /\ At(t) \in Nat /\ DispatchOK(t)
      /\ Snap(t) = thread[t].snap
  BY DispatcherFacts
<1>2. /\ Same(t) /\ DOMAIN thread' = Threads
      /\ thread'[t] = [[thread[t] EXCEPT !.pc = pc] EXCEPT !.phase = ph]
      /\ thread'[t].pc = pc /\ thread'[t].snap = thread[t].snap
      /\ thread'[t].phase = ph
  BY <1>1, NextPhaseFacts
<1>3. ph \in Phase /\ pc \in {"start", "dispatched"} /\ (pc = "dispatched" => ph = Enum)
  BY <1>1, PhaseFacts
<1>4. thread'[t] \in Thread
  <2> HIDE DEF pc, ph
  <2> QED
    BY <1>1, <1>2, <1>3 DEF Thread
<1>5. thread' \in [Threads -> Thread]
  <2>1. thread' = [u \in Threads |-> IF u = t THEN thread'[t] ELSE thread[u]]
    <3>1. thread' = [thread EXCEPT ![t] = thread'[t]]
      BY <1>1, <1>2 DEF NextPhase, At
    <3> QED
      BY <1>1, <3>1
  <2>2. \A u \in Threads : thread[u] \in Thread
    BY <1>1
  <2> QED
    BY <1>4, <2>1, <2>2
<1>6. Steps(t)
  BY <1>2, <1>3, <1>5 DEF Steps
<1>7. \A p \in Phase : p <= At(t) /\ Left(Snap(t), p) => p \in book'.ended
  <2> TAKE p \in Phase
  <2> HAVE p <= At(t) /\ Left(Snap(t), p)
  <2>1. p < At(t) => p \in book.ended
    BY <1>1 DEF DispatchOK
  <2>2. p < At(t) \/ p = At(t)
    BY <1>1, PhaseFacts
  <2> QED
    BY <2>1, <2>2
<1>8. DispatchOK(t)'
  <2>1. SUFFICES ASSUME Dispatching(t)' PROVE DispatchOK(t)'
    BY DEF DispatchOK
  <2>2. pc = "start" /\ ph = At(t) + 1
    BY <2>1, <1>2 DEF Dispatching
  <2>3. Snap(t)' = Snap(t) /\ At(t)' = At(t) + 1 /\ thread'[t].pc = "start"
    BY <1>1, <1>2, <2>2 DEF Snap, At
  <2>4. \A p \in Phase : p < At(t) + 1 /\ Left(Snap(t), p) => p \in book'.ended
    BY <1>1, <1>7, PhaseFacts
  <2> QED
    BY <2>3, <2>4 DEF DispatchOK
<1>9. thread'[t].pc = "dispatched" =>
        \A p \in Phase : Left(Snap(t), p) => p \in book'.ended
  <2> HAVE thread'[t].pc = "dispatched"
  <2>1. At(t) = Plugins
    BY <1>2
  <2> QED
    BY <2>1, <1>7, PhaseFacts
<1> QED
  BY <1>2, <1>3, <1>6, <1>8, <1>9

(* A step within the phase.                                                 *)
StaysInPhase(t, pc) ==
  /\ Steps(t)
  /\ thread'[t].pc = pc /\ thread'[t].phase = thread[t].phase
  /\ Snap(t)' = Snap(t) /\ At(t)' = At(t)

LEMMA StepInPhase ==
  ASSUME IInv, NEW t \in Threads, Dispatching(t),
         UNCHANGED <<counters, building, stopping>>,
         NEW r \in Thread, thread' = [thread EXCEPT ![t] = r],
         r.pc \in {"progress", "slots", "end", "flushed"},
         r.snap = thread[t].snap, r.phase = thread[t].phase
  PROVE  StaysInPhase(t, r.pc) /\ thread'[t] = r
<1>1. thread \in [Threads -> Thread]
  BY DispatcherFacts
<1>2. thread' \in [Threads -> Thread] /\ thread'[t] = r /\ Same(t)
  BY <1>1 DEF Same
<1> QED
  BY <1>2 DEF Steps, StaysInPhase, Snap, At

LEMMA GotoInPhase ==
  ASSUME IInv, NEW t \in Threads, Dispatching(t),
         UNCHANGED <<counters, building, stopping>>,
         NEW pc \in {"progress", "slots", "end", "flushed"}, Goto(t, pc)
  PROVE  /\ StaysInPhase(t, pc)
         /\ thread'[t].slot = thread[t].slot /\ thread'[t].ended = thread[t].ended
<1> DEFINE r == [thread[t] EXCEPT !.pc = pc]
<1>1. thread[t] \in Thread
  BY DispatcherFacts
<1>2. thread' = [thread EXCEPT ![t] = r]
  BY DEF Goto
<1>3. r \in Thread /\ r.pc = pc /\ r.snap = thread[t].snap /\ r.phase = thread[t].phase
      /\ r.slot = thread[t].slot /\ r.ended = thread[t].ended
  BY <1>1 DEF Thread
<1> HIDE DEF r
<1>4. StaysInPhase(t, r.pc) /\ thread'[t] = r
  BY <1>2, <1>3, StepInPhase
<1> QED
  BY <1>3, <1>4

(* Whether the phase has ended is read.                                     *)
LEMMA ReadsEnded ==
  ASSUME IInv, NEW t \in Threads, Dispatching(t),
         UNCHANGED <<counters, building, stopping>>, NEW p, NEW S,
         thread' = [thread EXCEPT ![t].pc = "progress", ![t].ended = p \in S]
  PROVE  StaysInPhase(t, "progress") /\ (thread'[t].ended <=> p \in S)
<1> DEFINE ended == p \in S
           r == [[thread[t] EXCEPT !.pc = "progress"] EXCEPT !.ended = ended]
<1>1. thread[t] \in Thread /\ DOMAIN thread = Threads
  BY DispatcherFacts
<1>2. thread' = [thread EXCEPT ![t] = r]
  BY <1>1
<1>3. ended \in BOOLEAN
  OBVIOUS
<1>4. /\ r \in Thread /\ r.pc = "progress" /\ r.snap = thread[t].snap /\ r.phase = thread[t].phase
      /\ r.ended = ended
  <2> HIDE DEF ended
  <2> QED
    BY <1>1, <1>3 DEF Thread
<1> HIDE DEF r
<1>5. StaysInPhase(t, r.pc) /\ thread'[t] = r
  BY <1>2, <1>4, StepInPhase
<1> QED
  BY <1>4, <1>5

(* The first slot, and the next one.                                        *)
LEMMA FirstSlot ==
  ASSUME IInv, NEW t \in Threads, Dispatching(t),
         UNCHANGED <<counters, building, stopping>>,
         thread' = [thread EXCEPT ![t].pc = "slots", ![t].slot = 1]
  PROVE  /\ StaysInPhase(t, "slots")
         /\ thread'[t].slot = 1 /\ thread'[t].ended = thread[t].ended
<1> DEFINE r == [[thread[t] EXCEPT !.pc = "slots"] EXCEPT !.slot = 1]
<1>1. thread[t] \in Thread /\ DOMAIN thread = Threads
  BY DispatcherFacts
<1>2. thread' = [thread EXCEPT ![t] = r]
  BY <1>1
<1>3. r \in Thread /\ r.pc = "slots" /\ r.snap = thread[t].snap /\ r.phase = thread[t].phase
      /\ r.slot = 1 /\ r.ended = thread[t].ended
  BY <1>1 DEF Thread
<1> HIDE DEF r
<1>4. StaysInPhase(t, r.pc) /\ thread'[t] = r
  BY <1>2, <1>3, StepInPhase
<1> QED
  BY <1>3, <1>4

LEMMA NextSlot ==
  ASSUME IInv, NEW t \in Threads, Dispatching(t), thread[t].pc = "slots",
         UNCHANGED <<counters, building, stopping>>,
         thread' = [thread EXCEPT ![t].slot = @ + 1]
  PROVE  /\ StaysInPhase(t, "slots")
         /\ thread'[t].slot = thread[t].slot + 1 /\ thread'[t].ended = thread[t].ended
<1> DEFINE r == [thread[t] EXCEPT !.slot = thread[t].slot + 1]
<1>1. thread[t] \in Thread /\ DOMAIN thread = Threads
  BY DispatcherFacts
<1>2. thread' = [thread EXCEPT ![t] = r]
  BY <1>1
<1>3. r \in Thread /\ r.pc = "slots" /\ r.snap = thread[t].snap /\ r.phase = thread[t].phase
      /\ r.slot = thread[t].slot + 1 /\ r.ended = thread[t].ended
  BY <1>1 DEF Thread
<1> HIDE DEF r
<1>4. StaysInPhase(t, r.pc) /\ thread'[t] = r
  BY <1>2, <1>3, StepInPhase
<1> QED
  BY <1>3, <1>4

(* phase_start.                                                             *)
LEMMA DispatchStartKeeps ==
  ASSUME IInv, NEW t \in Threads, DispatchStart(t)
  PROVE  IInv'
<1> DEFINE p == At(t)
           alive == Snap(t).phase >= p \/ Snap(t).done[p] > 0 \/ Snap(t).total[p] > 0
           begin == /\ alive /\ p \notin book.started
                    /\ book' = [book EXCEPT !.started = @ \cup {p}]
                    /\ log' = Append(log, <<"phase_start", p, Snap(t).total[p]>>)
           skip == /\ ~alive \/ p \in book.started
                   /\ UNCHANGED <<book, log>>
<1>1. /\ thread[t].pc = "start" /\ Dispatching(t)
      /\ UNCHANGED <<counters, building, stopping>>
      /\ thread' = [thread EXCEPT ![t].pc = "progress", ![t].ended = p \in book.ended]
      /\ begin \/ skip
  BY DEF DispatchStart, Dispatching, Emit
<1>2. /\ thread \in [Threads -> Thread] /\ thread[t] \in Thread
      /\ Snap(t) = thread[t].snap /\ At(t) = thread[t].phase
      /\ p \in Phase /\ p \in Nat /\ Snap(t).phase \in Nat /\ Sane(Snap(t))
      /\ \A q \in Phase : Snap(t).done[q] \in Nat /\ Snap(t).total[q] \in Nat
      /\ book \in Book /\ log \in Seq(Event) /\ BookOK /\ DispatchOK(t)
      /\ LogFits(log, book, {})
  BY <1>1, DispatcherFacts, OneDispatches
<1>5. /\ Steps(t) /\ thread'[t].pc = "progress" /\ (thread'[t].ended <=> p \in book.ended)
      /\ Snap(t)' = Snap(t) /\ At(t)' = p
  BY <1>1, ReadsEnded DEF StaysInPhase
<1>6. alive <=> p <= Snap(t).phase
  <2>1. Snap(t).phase < p => Snap(t).done[p] = 0 /\ Snap(t).total[p] = 0
    BY <1>2 DEF Sane
  <2> QED
    BY <2>1, <1>2
<1> HIDE DEF alive
<1>7. CASE skip
  <2>1. p <= Snap(t).phase => p \in book.started
    BY <1>6, <1>7
  <2>2. book' = book /\ log' = log
    BY <1>7
  <2>3. DispatchOK(t)'
    BY <2>1, <2>2, <1>1, <1>2, <1>5 DEF DispatchOK, Dispatching
  <2>4. BookOK'
    BY <2>2, <1>1, <1>2 DEF BookOK, Reported
  <2> QED
    BY <2>2, <2>3, <2>4, <1>1, <1>2, <1>5, DispatchSteps
<1>8. CASE begin
  <2>1. p <= Snap(t).phase /\ p \notin book.started
    BY <1>6, <1>8
  <2>2. /\ book' \in Book /\ book'.started = book.started \cup {p} /\ book'.ended = book.ended
        /\ book'.last = book.last /\ book'.signalled = book.signalled
    BY <1>2, <1>8 DEF Book
  <2>3. BookOK'
    BY <2>2, <1>1, <1>2 DEF BookOK, Reported
  <2>4. DispatchOK(t)'
    BY <2>2, <1>1, <1>2, <1>5 DEF DispatchOK, Dispatching
  <2>5. p > Enum => p - 1 \in book.ended
    <3> HAVE p > Enum
    <3>1. p - 1 \in Phase /\ p - 1 < p /\ p - 1 < Snap(t).phase
      BY <1>2, <2>1, PhaseFacts
    <3>2. Left(Snap(t), p - 1)
      BY <3>1, <1>2, PhaseFacts DEF Left
    <3> QED
      BY <3>1, <3>2, <1>1, <1>2 DEF DispatchOK
  <2> DEFINE n == Snap(t).total[p]
             e == <<"phase_start", p, n>>
  <2>6. n \in Nat /\ e \in Event /\ log' = Append(log, e)
    BY <1>2, <1>8 DEF Event
  <2>7. e[1] = "phase_start" /\ e[2] = p
    OBVIOUS
  <2>8. Admitted(log, book', {}, e)
    <3>1. p > Enum => p - 1 \in book.ended \ {}
      BY <2>5
    <3>2. p \in book'.started
      BY <2>2
    <3> HIDE DEF n
    <3> QED
      BY <3>1, <3>2, <2>1, <2>2, <2>6, <1>2, StartAdmitted
  <2>9. Gains(book, {}, book', {}) /\ GainsOnly(book, {}, book', {}, e)
    <3>1. \A q \in Phase : book.last[q] <= book.last[q]
      BY <1>2 DEF Book
    <3> HIDE DEF e
    <3> QED
      BY <3>1, <2>2, <2>7 DEF Gains, GainsOnly, Is
  <2> HIDE DEF e
  <2>10. LogFits(log', book', {}) /\ log' \in Seq(Event)
    BY <2>2, <2>6, <2>8, <2>9, <1>2, AppendFits, AppendFacts
  <2> QED
    BY <2>2, <2>3, <2>4, <2>10, <1>1, <1>5, DispatchSteps
<1> QED
  BY <1>1, <1>7, <1>8

(* phase_progress: a count is called back when it differs from the last.    *)
LEMMA DispatchProgressKeeps ==
  ASSUME IInv, NEW t \in Threads, DispatchProgress(t)
  PROVE  IInv'
<1> DEFINE p == At(t)
           n == Snap(t).done[p]
           slotwise == Running(t) /\ p = Plugins
           fresh == Running(t) /\ book.last[p] # n + 1
           count == /\ fresh
                    /\ book' = [book EXCEPT !.last[p] = n + 1]
                    /\ log' = Append(log, <<"phase_progress", p, n>>)
           skip == ~fresh /\ UNCHANGED <<book, log>>
           pc == IF slotwise THEN "slots" ELSE "end"
           slot == IF slotwise THEN 1 ELSE thread[t].slot
<1>1. /\ thread[t].pc = "progress" /\ Dispatching(t)
      /\ UNCHANGED <<counters, building, stopping>>
      /\ slotwise => thread' = [thread EXCEPT ![t].pc = "slots", ![t].slot = 1]
      /\ ~slotwise => Goto(t, "end")
      /\ count \/ skip
  BY DEF DispatchProgress, Dispatching, Emit
<1>2. /\ thread \in [Threads -> Thread] /\ thread[t] \in Thread
      /\ Snap(t) = thread[t].snap /\ At(t) = thread[t].phase
      /\ p \in Phase /\ p \in Nat /\ n \in Nat /\ Snap(t) \in Counter
      /\ \A q \in Phase : /\ Snap(t).done[q] \in Nat /\ counters.done[q] \in Nat
                          /\ book.last[q] \in Nat /\ Snap(t).done[q] <= counters.done[q]
      /\ book \in Book /\ log \in Seq(Event) /\ BookOK /\ DispatchOK(t)
      /\ LogFits(log, book, {})
  BY <1>1, DispatcherFacts, OneDispatches
<1>5. /\ Steps(t) /\ thread'[t].pc = pc /\ thread'[t].ended = thread[t].ended
      /\ Snap(t)' = Snap(t) /\ At(t)' = p /\ thread'[t].slot = slot
      /\ pc \in {"slots", "end"}
  <2>1. CASE slotwise
    BY <2>1, <1>1, FirstSlot DEF StaysInPhase
  <2>2. CASE ~slotwise
    BY <2>2, <1>1, GotoInPhase DEF StaysInPhase
  <2> QED
    BY <2>1, <2>2
<1>6. /\ thread[t].ended <=> p \in book.ended
      /\ p <= Snap(t).phase => p \in book.started
      /\ Running(t) <=> p \in book.started /\ p \notin book.ended
  BY <1>1, <1>2 DEF DispatchOK, Running
<1>7. /\ book' \in Book /\ book'.started = book.started /\ book'.ended = book.ended
      /\ book'.signalled = book.signalled
      /\ \A q \in Phase : book'.last[q] = IF fresh /\ q = p THEN n + 1 ELSE book.last[q]
  <2>1. CASE skip
    BY <2>1, <1>2
  <2>2. CASE count
    <3> DEFINE last == [book.last EXCEPT ![p] = n + 1]
    <3>1. last \in [Phase -> Nat] /\ \A q \in Phase : last[q] = IF q = p THEN n + 1 ELSE book.last[q]
      BY <1>2 DEF Book
    <3>2. book' = [book EXCEPT !.last = last]
      BY <2>2
    <3> HIDE DEF last
    <3> QED
      BY <3>1, <3>2, <2>2, <1>2 DEF Book
  <2> QED
    BY <2>1, <2>2, <1>1
<1> HIDE DEF n
<1>8. \A q \in Phase \ book.ended : book'.last[q] <= Snap(t).done[q] + 1
  <2> TAKE q \in Phase \ book.ended
  <2>1. book.last[q] <= Snap(t).done[q] + 1
    BY <1>1, <1>2 DEF DispatchOK
  <2>2. fresh /\ q = p => book'.last[q] <= Snap(t).done[q] + 1
    BY <1>2, <1>7 DEF n
  <2> QED
    BY <2>1, <2>2, <1>7
<1>9. BookOK'
  <2>1. \A q \in Phase \ book.ended : book'.last[q] <= counters.done[q] + 1
    <3> TAKE q \in Phase \ book.ended
    <3>1. /\ book'.last[q] <= Snap(t).done[q] + 1 /\ Snap(t).done[q] <= counters.done[q]
          /\ Snap(t).done[q] \in Nat /\ counters.done[q] \in Nat /\ book'.last[q] \in Nat
      BY <1>2, <1>7, <1>8 DEF Book
    <3> QED
      BY <3>1
  <2> QED
    BY <2>1, <1>1, <1>2, <1>7 DEF BookOK, Reported
<1>10. DispatchOK(t)'
  <2>1. CASE slotwise
    <3>1. pc = "slots" /\ slot = 1 /\ p = Plugins /\ p \in book.started /\ p \notin book.ended
      BY <2>1, <1>6
    <3>2. \A what \in {"plugin_start", "plugin_end"}, i \in DOMAIN Snap(t).slots :
            ~(SlotOf(i, what) < 1)
      BY <1>2 DEF Counter, SlotOf
    <3>3. /\ \A q \in Phase : q < p /\ Left(Snap(t), q) => q \in book.ended
          /\ thread[t].ended <=> p \in book.ended
      BY <1>1, <1>2, <1>6 DEF DispatchOK
    <3> QED
      BY <3>1, <3>2, <3>3, <1>5, <1>7, <1>8 DEF DispatchOK
  <2>2. CASE ~slotwise
    <3>1. pc = "end" /\ Running(t)' = Running(t)
      BY <2>2, <1>5, <1>7 DEF Running
    <3>2. /\ \A q \in Phase : q < p /\ Left(Snap(t), q) => q \in book.ended
          /\ thread[t].ended <=> p \in book.ended
      BY <1>1, <1>2, <1>6 DEF DispatchOK
    <3> QED
      BY <2>2, <3>1, <3>2, <1>5, <1>6, <1>7, <1>8 DEF DispatchOK
  <2> QED
    BY <2>1, <2>2
<1>11. LogFits(log', book', {}) /\ log' \in Seq(Event)
  <2>1. CASE skip
    BY <2>1, <1>2
  <2>2. CASE count
    <3> DEFINE e == <<"phase_progress", p, n>>
    <3>1. e \in Event /\ log' = Append(log, e)
      BY <2>2, <1>2 DEF Event
    <3>2. book.last[p] <= n /\ book'.last[p] = n + 1 /\ p \in book.started /\ p \notin book.ended
      <4>1. p \in book.started /\ p \notin book.ended /\ book.last[p] # n + 1
        BY <2>2, <1>6
      <4>2. book.last[p] <= n + 1 /\ book.last[p] \in Nat
        BY <4>1, <1>1, <1>2 DEF DispatchOK, n
      <4> QED
        BY <4>1, <4>2, <2>2, <1>2, <1>7
    <3>3. Admitted(log, book', {}, e)
      BY <3>2, <1>2, <1>7, ProgressAdmitted
    <3>4. Gains(book, {}, book', {}) /\ GainsOnly(book, {}, book', {}, e)
      <4>1. \A q \in Phase : book.last[q] <= book'.last[q]
        BY <3>2, <1>2, <1>7
      <4> QED
        BY <4>1, <1>7 DEF Gains, GainsOnly
    <3> HIDE DEF e
    <3> QED
      BY <3>1, <3>3, <3>4, <1>2, <1>7, AppendFits, AppendFacts
  <2> QED
    BY <2>1, <2>2, <1>1
<1> QED
  BY <1>1, <1>5, <1>7, <1>9, <1>10, <1>11, DispatchSteps

(* The slot of a plugin's start or end.                                     *)
LEMMA SlotFacts ==
  ASSUME NEW slot \in Nat, slot > 0, NEW N \in Nat, slot <= 2 * N
  PROVE  LET i    == (slot + 1) \div 2
             what == IF slot % 2 = 1 THEN "plugin_start" ELSE "plugin_end"
         IN  /\ i \in 1 .. N /\ what \in {"plugin_start", "plugin_end"}
             /\ \A k \in 1 .. N, w \in {"plugin_start", "plugin_end"} :
                  SlotOf(k, w) < slot + 1 => SlotOf(k, w) < slot \/ (k = i /\ w = what)
<1> DEFINE i == (slot + 1) \div 2
           what == IF slot % 2 = 1 THEN "plugin_start" ELSE "plugin_end"
<1>1. i \in Nat /\ ((slot % 2 = 1 /\ slot + 1 = 2 * i) \/ (slot % 2 = 0 /\ slot = 2 * i))
  <2>1. i \in Nat /\ (slot % 2 = 0 \/ slot % 2 = 1)
    OBVIOUS
  <2>2. slot % 2 = 1 => slot + 1 = 2 * i
    OBVIOUS
  <2>3. slot % 2 = 0 => slot = 2 * i
    OBVIOUS
  <2> HIDE DEF i
  <2> QED
    BY <2>1, <2>2, <2>3
<1> HIDE DEF i
<1>2. i \in 1 .. N
  BY <1>1
<1>3. ASSUME NEW k \in 1 .. N, NEW w \in {"plugin_start", "plugin_end"},
             SlotOf(k, w) < slot + 1, ~(SlotOf(k, w) < slot)
      PROVE  k = i /\ w = what
  <2>1. SlotOf(k, w) = slot /\ (w = "plugin_start" => slot = 2 * k - 1)
          /\ (w = "plugin_end" => slot = 2 * k)
    BY <1>3 DEF SlotOf
  <2>2. CASE w = "plugin_start"
    BY <1>1, <2>1, <2>2
  <2>3. CASE w = "plugin_end"
    BY <1>1, <2>1, <2>3
  <2> QED
    BY <2>2, <2>3
<1> QED
  BY <1>2, <1>3 DEF i

(* A plugin's start or end is called back if the slot says so, and once.    *)
LEMMA DispatchSlotKeeps ==
  ASSUME IInv, NEW t \in Threads, DispatchSlot(t)
  PROVE  IInv'
<1> DEFINE slot == thread[t].slot
           i == (slot + 1) \div 2
           what == IF slot % 2 = 1 THEN "plugin_start" ELSE "plugin_end"
           seen == IF what = "plugin_start" THEN {"started", "finished"} ELSE {"finished"}
           due == Snap(t).slots[i] \in seen /\ <<what, i>> \notin book.signalled
           report == /\ due
                     /\ book' = [book EXCEPT !.signalled = @ \cup {<<what, i>>}]
                     /\ log' = Append(log, <<what, Plugins, i>>)
           skip == ~due /\ UNCHANGED <<book, log>>
<1>1. /\ thread[t].pc = "slots" /\ Dispatching(t)
      /\ slot <= 2 * Len(Snap(t).slots)
      /\ UNCHANGED <<counters, building, stopping>>
      /\ thread' = [thread EXCEPT ![t].slot = @ + 1]
      /\ report \/ skip
  BY DEF DispatchSlot, Dispatching, Emit
<1>2. /\ thread[t] \in Thread /\ Snap(t) \in Counter /\ Before(Snap(t), counters)
      /\ At(t) = thread[t].phase
      /\ book \in Book /\ log \in Seq(Event) /\ BookOK /\ DispatchOK(t)
      /\ LogFits(log, book, {})
  BY <1>1, DispatcherFacts, OneDispatches
<1>3. /\ Steps(t) /\ thread'[t].pc = "slots" /\ thread'[t].ended = thread[t].ended
      /\ Snap(t)' = Snap(t) /\ At(t)' = At(t) /\ thread'[t].slot = slot + 1
  BY <1>1, NextSlot DEF StaysInPhase
<1>4. /\ slot \in Nat /\ slot > 0 /\ At(t) = Plugins
      /\ Plugins \in book.started /\ Plugins \notin book.ended
      /\ thread[t].ended <=> At(t) \in book.ended
      /\ \A p \in Phase \ book.ended : book.last[p] <= Snap(t).done[p] + 1
      /\ \A p \in Phase : p < At(t) /\ Left(Snap(t), p) => p \in book.ended
      /\ \A w \in {"plugin_start", "plugin_end"}, k \in DOMAIN Snap(t).slots :
           SlotOf(k, w) < slot /\ Due(w, Snap(t).slots[k]) => <<w, k>> \in book.signalled
  BY <1>1, <1>2 DEF DispatchOK, Thread
<1>5. Len(Snap(t).slots) \in Nat /\ DOMAIN Snap(t).slots = 1 .. Len(Snap(t).slots)
  BY <1>2 DEF Counter
<1>6. /\ i \in DOMAIN Snap(t).slots /\ i \in Nat /\ what \in {"plugin_start", "plugin_end"}
      /\ \A k \in DOMAIN Snap(t).slots, w \in {"plugin_start", "plugin_end"} :
           SlotOf(k, w) < slot + 1 => SlotOf(k, w) < slot \/ (k = i /\ w = what)
  BY <1>1, <1>4, <1>5, SlotFacts
<1>7. Snap(t).slots[i] \in seen <=> Due(what, Snap(t).slots[i])
  BY <1>6 DEF Due
<1> HIDE DEF slot, i, what, seen
<1>8. /\ book' \in Book /\ book'.started = book.started /\ book'.ended = book.ended
      /\ book'.last = book.last
      /\ book.signalled \subseteq book'.signalled
      /\ book'.signalled \subseteq book.signalled \cup {<<what, i>>}
      /\ Due(what, Snap(t).slots[i]) => <<what, i>> \in book'.signalled
      /\ <<what, i>> \in book'.signalled \ book.signalled => Due(what, Snap(t).slots[i])
  <2>1. CASE skip
    BY <2>1, <1>2, <1>7
  <2>2. CASE report
    <3>1. <<what, i>> \in Signals
      BY <1>6 DEF Signals
    <3>2. book' \in Book /\ book' = [book EXCEPT !.signalled = book.signalled \cup {<<what, i>>}]
      BY <3>1, <2>2, <1>2 DEF Book
    <3> QED
      BY <3>2, <2>2, <1>2, <1>7 DEF Book
  <2> QED
    BY <2>1, <2>2, <1>1
<1>9. BookOK'
  <2>1. \A w \in {"plugin_start", "plugin_end"}, k \in Nat :
          <<w, k>> \in book'.signalled =>
            k \in DOMAIN counters.slots /\ Due(w, counters.slots[k])
    <3> TAKE w \in {"plugin_start", "plugin_end"}, k \in Nat
    <3> HAVE <<w, k>> \in book'.signalled
    <3>1. CASE <<w, k>> \in book.signalled
      BY <3>1, <1>2 DEF BookOK
    <3>2. CASE <<w, k>> \notin book.signalled
      <4>1. <<w, k>> = <<what, i>>
        BY <3>2, <1>8
      <4>2. w = what /\ k = i
        BY <4>1
      <4>3. Due(what, Snap(t).slots[i])
        BY <3>2, <4>2, <1>8
      <4>4. i \in DOMAIN counters.slots /\ Reached(counters.slots[i], Snap(t).slots[i])
        BY <1>2, <1>6 DEF Before
      <4> QED
        BY <4>2, <4>3, <4>4 DEF Due, Reached
    <3> QED
      BY <3>1, <3>2
  <2> QED
    BY <2>1, <1>1, <1>2, <1>4, <1>8 DEF BookOK
<1>10. DispatchOK(t)'
  <2>1. \A w \in {"plugin_start", "plugin_end"}, k \in DOMAIN Snap(t).slots :
          SlotOf(k, w) < slot + 1 /\ Due(w, Snap(t).slots[k]) => <<w, k>> \in book'.signalled
    BY <1>4, <1>6, <1>8
  <2> QED
    BY <2>1, <1>3, <1>4, <1>8 DEF DispatchOK
<1>11. LogFits(log', book', {}) /\ log' \in Seq(Event)
  <2>1. CASE skip
    BY <2>1, <1>2
  <2>2. CASE report
    <3> DEFINE e == <<what, Plugins, i>>
    <3>1. e \in Event /\ log' = Append(log, e)
      BY <2>2, <1>6, PhaseFacts DEF Event
    <3>2. <<what, i>> \notin book.signalled /\ <<what, i>> \in book'.signalled
      BY <2>2, <1>7, <1>8
    <3>3. Admitted(log, book', {}, e)
      BY <3>2, <1>2, <1>6, <1>8, PluginAdmitted
    <3>4. Gains(book, {}, book', {}) /\ GainsOnly(book, {}, book', {}, e)
      <4>1. \A q \in Phase : book.last[q] <= book'.last[q]
        BY <1>2, <1>8 DEF Book
      <4>2. \A s \in book'.signalled \ book.signalled : e = <<s[1], Plugins, s[2]>>
        BY <1>8
      <4> QED
        BY <4>1, <4>2, <1>8 DEF Gains, GainsOnly
    <3> HIDE DEF e
    <3> QED
      BY <3>1, <3>3, <3>4, <1>2, <1>8, AppendFits, AppendFacts
  <2> QED
    BY <2>1, <2>2, <1>1
<1> QED
  BY <1>1, <1>3, <1>8, <1>9, <1>10, <1>11, DispatchSteps

(* Past the last slot, all the plugins of the snapshot are reported.        *)
LEMMA SlotsDoneKeeps ==
  ASSUME IInv, NEW t \in Threads, SlotsDone(t)
  PROVE  IInv'
<1>1. /\ thread[t].pc = "slots" /\ Dispatching(t)
      /\ thread[t].slot > 2 * Len(Snap(t).slots) /\ Goto(t, "end")
      /\ UNCHANGED <<counters, building, stopping>> /\ book' = book /\ log' = log
  BY DEF SlotsDone, Dispatching
<1>2. /\ thread[t] \in Thread /\ Snap(t) \in Counter
      /\ book \in Book /\ log \in Seq(Event) /\ BookOK /\ DispatchOK(t)
      /\ LogFits(log, book, {})
  BY <1>1, DispatcherFacts, OneDispatches
<1>3. /\ Steps(t) /\ thread'[t].pc = "end" /\ thread'[t].ended = thread[t].ended
      /\ Snap(t)' = Snap(t) /\ At(t)' = At(t)
  BY <1>1, GotoInPhase DEF StaysInPhase
<1>4. Reported(Snap(t))
  <2>1. Len(Snap(t).slots) \in Nat /\ DOMAIN Snap(t).slots = 1 .. Len(Snap(t).slots)
          /\ thread[t].slot \in Nat
    BY <1>2 DEF Counter, Thread
  <2>2. \A w \in {"plugin_start", "plugin_end"}, k \in DOMAIN Snap(t).slots :
          SlotOf(k, w) < thread[t].slot
    BY <2>1, <1>1 DEF SlotOf
  <2> QED
    BY <2>2, <1>1, <1>2 DEF DispatchOK, Reported
<1>5. DispatchOK(t)'
  BY <1>1, <1>2, <1>3, <1>4 DEF DispatchOK, Reported
<1>6. BookOK'
  BY <1>1, <1>2 DEF BookOK, Reported
<1> QED
  BY <1>1, <1>2, <1>3, <1>5, <1>6, DispatchSteps

(* phase_end; a total that was never reported comes first.                  *)
LEMMA DispatchEndKeeps ==
  ASSUME IInv, NEW t \in Threads, DispatchEnd(t)
  PROVE  IInv'
<1> DEFINE p == At(t)
           total == Snap(t).total[p]
           over == Running(t) /\ (Snap(t).phase > p \/ Snap(t).finished)
           short == total > 0 /\ book.last[p] # total + 1
           flush == /\ over /\ short
                    /\ book' = [book EXCEPT !.ended = @ \cup {p}, !.last[p] = total + 1]
                    /\ log' = Append(log, <<"phase_progress", p, total>>)
                    /\ Goto(t, "flushed")
           finish == /\ over /\ ~short
                     /\ book' = [book EXCEPT !.ended = @ \cup {p}]
                     /\ log' = Append(log, <<"phase_end", p, 0>>)
                     /\ NextPhase(t)
           skip == ~over /\ NextPhase(t) /\ UNCHANGED <<book, log>>
<1>1. /\ thread[t].pc = "end" /\ Dispatching(t)
      /\ UNCHANGED <<counters, building, stopping>>
      /\ flush \/ finish \/ skip
  BY DEF DispatchEnd, Dispatching, Emit
<1>2. /\ Snap(t) \in Counter /\ Sane(Snap(t)) /\ Before(Snap(t), counters)
      /\ Snap(t).phase \in Nat /\ Snap(t).phase <= Plugins
      /\ p \in Phase /\ p \in Nat /\ total \in Nat
      /\ \A q \in Phase : /\ Snap(t).done[q] \in Nat /\ Snap(t).done[q] <= Snap(t).total[q]
                          /\ counters.done[q] \in Nat /\ book.last[q] \in Nat
                          /\ Snap(t).done[q] <= counters.done[q]
      /\ book \in Book /\ log \in Seq(Event) /\ BookOK /\ DispatchOK(t)
      /\ LogFits(log, book, {})
  BY <1>1, DispatcherFacts, OneDispatches
<1>3. /\ thread[t].ended <=> p \in book.ended
      /\ p <= Snap(t).phase => p \in book.started
      /\ p = Plugins /\ Running(t) => Reported(Snap(t))
      /\ \A q \in Phase \ book.ended : book.last[q] <= Snap(t).done[q] + 1
      /\ \A q \in Phase : q < p /\ Left(Snap(t), q) => q \in book.ended
  BY <1>1, <1>2 DEF DispatchOK
<1>4. Running(t) <=> p \in book.started /\ p \notin book.ended
  BY <1>3 DEF Running
<1>5. Left(Snap(t), p) => over \/ p \in book.ended
  BY <1>2, <1>3, <1>4 DEF Left
<1>6. over /\ p = Plugins => counters.finished /\ Reported(counters)
  <2> HAVE over /\ p = Plugins
  <2>1. Snap(t).finished
    BY <1>2
  <2> QED
    BY <2>1, <1>2, <1>3 DEF Before
<1>7. CASE skip
  <2>1. BookOK'
    BY <1>1, <1>2, <1>7 DEF BookOK, Reported
  <2>2. /\ Steps(t) /\ DispatchOK(t)' /\ thread'[t].pc # "flushed"
        /\ thread'[t].pc = "dispatched" =>
             \A q \in Phase : Left(Snap(t), q) => q \in book'.ended
    BY <1>1, <1>3, <1>5, <1>7, Advances
  <2> QED
    BY <2>1, <2>2, <1>1, <1>2, <1>7, DispatchSteps
<1>8. CASE finish
  <2>1. /\ book' \in Book /\ book'.started = book.started /\ book'.ended = book.ended \cup {p}
        /\ book'.last = book.last /\ book'.signalled = book.signalled
    BY <1>2, <1>8 DEF Book
  <2>2. BookOK'
    BY <2>1, <1>1, <1>2, <1>4, <1>6, <1>8 DEF BookOK, Reported
  <2>3. /\ Steps(t) /\ DispatchOK(t)' /\ thread'[t].pc # "flushed"
        /\ thread'[t].pc = "dispatched" =>
             \A q \in Phase : Left(Snap(t), q) => q \in book'.ended
    BY <2>1, <1>1, <1>3, <1>8, Advances
  <2>4. LogFits(log', book', {}) /\ log' \in Seq(Event)
    <3> DEFINE e == <<"phase_end", p, 0>>
    <3>1. e \in Event /\ log' = Append(log, e)
      BY <1>2, <1>8 DEF Event
    <3>2. p \in book.started /\ p \notin book.ended \ {} /\ p \in book'.ended \ {}
      BY <2>1, <1>4, <1>8
    <3>3. Admitted(log, book', {}, e)
      BY <3>2, <2>1, <1>2, EndAdmitted
    <3>4. Gains(book, {}, book', {}) /\ GainsOnly(book, {}, book', {}, e)
      <4>1. \A q \in Phase : book.last[q] <= book'.last[q]
        BY <2>1, <1>2 DEF Book
      <4>2. Is(e, "phase_end", p)
        BY DEF Is
      <4> HIDE DEF e
      <4> QED
        BY <4>1, <4>2, <2>1 DEF Gains, GainsOnly
    <3> HIDE DEF e
    <3> QED
      BY <3>1, <3>3, <3>4, <2>1, <1>2, AppendFits, AppendFacts
  <2> QED
    BY <2>1, <2>2, <2>3, <2>4, <1>1, DispatchSteps
<1>9. CASE flush
  <2> DEFINE last == [book.last EXCEPT ![p] = total + 1]
  <2>1. /\ last \in [Phase -> Nat]
        /\ \A q \in Phase : last[q] = IF q = p THEN total + 1 ELSE book.last[q]
    BY <1>2 DEF Book
  <2>2. book' = [book EXCEPT !.ended = @ \cup {p}, !.last = last]
    BY <1>9
  <2> HIDE DEF last
  <2>3. /\ book' \in Book /\ book'.started = book.started /\ book'.ended = book.ended \cup {p}
        /\ book'.last = last /\ book'.signalled = book.signalled
    BY <2>1, <2>2, <1>2 DEF Book
  <2>4. p \in book.started /\ p \notin book.ended /\ book.last[p] <= total
    <3>1. p \in book.started /\ p \notin book.ended /\ book.last[p] # total + 1
      BY <1>4, <1>9
    <3>2. book.last[p] <= Snap(t).done[p] + 1 /\ Snap(t).done[p] <= total
      BY <3>1, <1>2, <1>3
    <3> QED
      BY <3>1, <3>2, <1>2
  <2>5. BookOK'
    <3>1. \A q \in Phase \ book'.ended : book'.last[q] <= counters.done[q] + 1
      BY <2>1, <2>3, <1>2 DEF BookOK
    <3> QED
      BY <3>1, <2>3, <2>4, <1>1, <1>2, <1>6, <1>9 DEF BookOK, Reported
  <2>6. /\ Steps(t) /\ thread'[t].pc = "flushed" /\ thread'[t].phase = p
        /\ Snap(t)' = Snap(t) /\ At(t)' = p
    BY <1>1, <1>9, GotoInPhase DEF StaysInPhase, At
  <2>7. DispatchOK(t)'
    <3>1. \A q \in Phase \ book'.ended : book'.last[q] <= Snap(t).done[q] + 1
      BY <2>1, <2>3, <1>3
    <3>2. \A q \in Phase : q < p /\ Left(Snap(t), q) => q \in book'.ended
      BY <2>3, <1>3
    <3> QED
      BY <3>1, <3>2, <2>3, <2>4, <2>6 DEF DispatchOK
  <2>8. LogFits(log', book', {p}) /\ log' \in Seq(Event)
    <3> DEFINE e == <<"phase_progress", p, total>>
    <3>1. e \in Event /\ log' = Append(log, e)
      BY <1>2, <1>9 DEF Event
    <3>2. book'.last[p] = total + 1
      BY <2>1, <2>3, <1>2
    <3>3. Admitted(log, book', {p}, e)
      BY <3>2, <2>3, <2>4, <1>2, ProgressAdmitted
    <3>4. Gains(book, {}, book', {p}) /\ GainsOnly(book, {}, book', {p}, e)
      <4>1. \A q \in Phase : book.last[q] <= book'.last[q]
        <5> TAKE q \in Phase
        <5>1. CASE q = p
          BY <5>1, <3>2, <2>4, <1>2
        <5>2. CASE q # p
          BY <5>2, <2>1, <2>3, <1>2
        <5> QED
          BY <5>1, <5>2
      <4> QED
        BY <4>1, <2>3, <2>4 DEF Gains, GainsOnly
    <3> HIDE DEF e
    <3> QED
      BY <3>1, <3>3, <3>4, <2>3, <1>2, AppendFits, AppendFacts
  <2> QED
    BY <2>3, <2>5, <2>6, <2>7, <2>8, <1>1, DispatchSteps
<1> QED
  BY <1>1, <1>7, <1>8, <1>9

(* The phase_end that was due after the last count.                         *)
LEMMA DispatchFlushedKeeps ==
  ASSUME IInv, NEW t \in Threads, DispatchFlushed(t)
  PROVE  IInv'
<1> DEFINE p == At(t)
           e == <<"phase_end", p, 0>>
<1>1. /\ thread[t].pc = "flushed" /\ Dispatching(t)
      /\ UNCHANGED <<counters, building, stopping>> /\ book' = book
      /\ log' = Append(log, e) /\ NextPhase(t)
  BY DEF DispatchFlushed, Dispatching, Emit
<1>2. /\ p \in Phase
      /\ \A q \in Phase : book.last[q] \in Nat
      /\ book \in Book /\ log \in Seq(Event) /\ BookOK /\ DispatchOK(t)
      /\ LogFits(log, book, {p})
  BY <1>1, DispatcherFacts, OneDispatches
<1>3. p \in book.ended /\ p \in book.started
  BY <1>1, <1>2 DEF DispatchOK, BookOK
<1>4. \A q \in Phase \ book.ended : book.last[q] <= Snap(t).done[q] + 1
  BY <1>1, <1>2 DEF DispatchOK
<1>5. /\ Steps(t) /\ DispatchOK(t)' /\ thread'[t].pc # "flushed"
      /\ thread'[t].pc = "dispatched" =>
           \A q \in Phase : Left(Snap(t), q) => q \in book'.ended
  BY <1>1, <1>3, <1>4, Advances
<1>6. BookOK'
  BY <1>1, <1>2 DEF BookOK, Reported
<1>7. LogFits(log', book', {}) /\ log' \in Seq(Event)
  <2>1. e \in Event
    BY <1>2 DEF Event
  <2>2. p \notin book.ended \ {p} /\ p \in book.ended \ {}
    BY <1>3
  <2>3. Admitted(log, book, {}, e)
    BY <2>2, <1>2, <1>3, EndAdmitted
  <2>4. Gains(book, {p}, book, {}) /\ GainsOnly(book, {p}, book, {}, e)
    <3>1. \A q \in Phase : book.last[q] <= book.last[q]
      BY <1>2
    <3>2. Is(e, "phase_end", p)
      BY DEF Is
    <3> HIDE DEF e
    <3> QED
      BY <3>1, <3>2 DEF Gains, GainsOnly
  <2> HIDE DEF e
  <2> QED
    BY <2>1, <2>3, <2>4, <1>1, <1>2, AppendFits, AppendFacts
<1> QED
  BY <1>1, <1>2, <1>5, <1>6, <1>7, DispatchSteps

-----------------------------------------------------------------------------
(* Between two dispatches.                                                 *)

(* A thread that is not dispatching waits, exits, or takes a snapshot; and  *)
(* the main thread waits for the poller to exit.                            *)
LEMMA QuietStepKeeps ==
  ASSUME IInv, NEW t \in Threads, ~Dispatching(t),
         NEW r \in Thread, thread' = [thread EXCEPT ![t] = r],
         UNCHANGED <<counters, building, stopping, book, log>>,
         r.snap = thread[t].snap \/ r.snap = counters, r.phase = thread[t].phase,
         r.pc \in {"start", "poll", "wait", "exited"}, r.pc = "start" => r.snap = counters,
         t = Poller => thread[Poller].pc # "exited",
         t = Main => r.pc = "start" /\ thread[Poller].pc = "exited" /\ stopping
  PROVE  IInv'
<1>1. /\ thread \in [Threads -> Thread] /\ thread' \in [Threads -> Thread] /\ thread'[t] = r
      /\ \A u \in Threads : u # t => thread'[u] = thread[u]
  BY DEF IInv, TypeOK
<1>2. /\ Snap(t)' = r.snap /\ At(t)' = At(t) /\ At(t) = Enum
      /\ Sane(Snap(t)) /\ Before(Snap(t), counters) /\ Sane(counters)
  BY <1>1 DEF IInv, CountersOK, TurnsOK, Snap, At
<1>3. Poller # Main /\ Poller \in Threads /\ Main \in Threads
  BY DEF Poller, Main, Threads
<1>4. t = Poller => thread[Main].pc = "poll" /\ thread'[Main].pc = "poll"
  BY <1>1, <1>3 DEF IInv, TurnsOK
<1>5. TypeOK'
  BY <1>1 DEF IInv, TypeOK
<1>6. CountersOK'
  <2>1. Before(counters, counters)
    <3>1. /\ counters.phase \in Nat /\ \A p \in Phase : counters.done[p] \in Nat
      BY DEF IInv, TypeOK, Counter, Plugins
    <3> QED
      BY <3>1 DEF Before, Reached
  <2>2. Sane(r.snap) /\ Before(r.snap, counters)
    BY <2>1, <1>2 DEF Snap
  <2>3. ASSUME NEW u \in Threads
        PROVE  Sane(Snap(u)') /\ Before(Snap(u)', counters)
    <3>1. CASE u = t
      BY <3>1, <2>2, <1>2
    <3>2. CASE u # t
      <4>1. Snap(u)' = Snap(u)
        BY <3>2, <1>1 DEF Snap
      <4> QED
        BY <4>1 DEF IInv, CountersOK
    <3> QED
      BY <3>1, <3>2
  <2>4. \A u \in Threads : Sane(Snap(u))' /\ Before(Snap(u), counters)'
    BY <2>3 DEF Sane, Before, Reached
  <2> QED
    BY <2>4 DEF IInv, CountersOK, Sane
<1>7. TurnsOK'
  <2>1. ASSUME NEW u \in Threads, ~Dispatching(u)'
        PROVE  At(u)' = Enum
    <3>1. CASE u = t
      BY <3>1, <1>2
    <3>2. CASE u # t
      BY <2>1, <3>2, <1>1 DEF IInv, TurnsOK, Dispatching, At
    <3> QED
      BY <3>1, <3>2
  <2>2. CASE t = Poller
    BY <2>1, <2>2, <1>4 DEF TurnsOK
  <2>3. CASE t = Main
    <3>1. counters'.finished /\ r.snap = counters' /\ thread'[Poller].pc = "exited"
            /\ r.pc = "start"
      BY <2>3, <1>1, <1>3 DEF IInv, CountersOK
    <3> QED
      BY <2>1, <2>3, <3>1, <1>1, <1>2 DEF TurnsOK
  <2> QED
    BY <2>2, <2>3 DEF Threads
<1>8. BookOK'
  BY DEF IInv, BookOK, Reported
<1>9. \A u \in Threads : DispatchOK(u)'
  <2>1. DispatchOK(t)'
    <3>1. SUFFICES ASSUME Dispatching(t)' PROVE DispatchOK(t)'
      BY DEF DispatchOK
    <3>2. thread'[t].pc = "start" /\ Snap(t)' = counters /\ At(t)' = Enum
      BY <3>1, <1>1, <1>2 DEF Dispatching
    <3>3. \A p \in Phase \ book.ended : book.last[p] <= counters.done[p] + 1
      BY DEF IInv, BookOK
    <3>4. \A p \in Phase : ~(p < Enum)
      BY PhaseFacts
    <3> QED
      BY <3>2, <3>3, <3>4 DEF DispatchOK
  <2>2. ASSUME NEW u \in Threads, u # t
        PROVE  DispatchOK(u)'
    <3>1. thread'[u] = thread[u]
      BY <2>2, <1>1
    <3> QED
      BY <3>1 DEF IInv, DispatchOK, Dispatching, Snap, At, Running, Reported
  <2> QED
    BY <2>1, <2>2
<1>10. ReturnedOK'
  <2>1. thread'[Main].pc # "dispatched"
    BY <1>1, <1>4 DEF Threads
  <2> QED
    BY <2>1 DEF ReturnedOK, Returned
<1>11. LogFits(log, book, Flushing)'
  <2>1. Flushing' = Flushing
    <3>1. thread[t].pc # "flushed" /\ thread'[t].pc # "flushed"
      BY <1>1 DEF Dispatching
    <3> QED
      BY <3>1, <1>1 DEF Flushing, At
  <2> QED
    BY <2>1 DEF IInv, LogFits, Justified, Delivered
<1> QED
  BY <1>5, <1>6, <1>7, <1>8, <1>9, <1>10, <1>11 DEF IInv

LEMMA PollKeeps ==
  ASSUME IInv, Poll
  PROVE  IInv'
<1> DEFINE r == [[thread[Poller] EXCEPT !.pc = "start"] EXCEPT !.snap = counters]
<1>1. /\ thread[Poller].pc = "poll" /\ TakeSnapshot(Poller)
      /\ UNCHANGED <<counters, building, stopping, book, log>>
  BY DEF Poll
<1>2. Poller \in Threads /\ Poller # Main /\ thread[Poller] \in Thread /\ counters \in Counter
  BY DEF IInv, TypeOK, Threads, Poller, Main
<1>3. thread' = [thread EXCEPT ![Poller] = r]
  BY <1>1, <1>2 DEF TakeSnapshot, IInv, TypeOK
<1>4. r \in Thread /\ r.snap = counters /\ r.phase = thread[Poller].phase /\ r.pc = "start"
  BY <1>2 DEF Thread
<1> HIDE DEF r
<1> QED
  BY <1>1, <1>2, <1>3, <1>4, QuietStepKeeps DEF Dispatching

(* The final drain comes after the poller, if the join waits for it.        *)
LEMMA JoinKeeps ==
  ASSUME IInv, Join, ~JoinMayTimeOut
  PROVE  IInv'
<1> DEFINE r == [[thread[Main] EXCEPT !.pc = "start"] EXCEPT !.snap = counters]
<1>1. /\ thread[Main].pc = "poll" /\ TakeSnapshot(Main)
      /\ stopping /\ thread[Poller].pc = "exited"
      /\ UNCHANGED <<counters, building, stopping, book, log>>
  BY DEF Join
<1>2. Main \in Threads /\ Poller # Main /\ thread[Main] \in Thread /\ counters \in Counter
  BY DEF IInv, TypeOK, Threads, Poller, Main
<1>3. thread' = [thread EXCEPT ![Main] = r]
  BY <1>1, <1>2 DEF TakeSnapshot, IInv, TypeOK
<1>4. r \in Thread /\ r.snap = counters /\ r.phase = thread[Main].phase /\ r.pc = "start"
  BY <1>2 DEF Thread
<1> HIDE DEF r
<1> QED
  BY <1>1, <1>2, <1>3, <1>4, QuietStepKeeps DEF Dispatching

(* Once more after the finish was seen, and then out.                       *)
LEMMA PollerMovesKeeps ==
  ASSUME IInv, Polled \/ Wait
  PROVE  IInv'
<1>1. /\ thread[Poller].pc \in {"dispatched", "wait"}
      /\ UNCHANGED <<counters, building, stopping, book, log>>
  BY DEF Polled, Wait
<1>2. Poller \in Threads /\ Poller # Main /\ thread[Poller] \in Thread /\ thread \in [Threads -> Thread]
  BY DEF IInv, TypeOK, Threads, Poller, Main
<1>3. CASE \E pc \in {"poll", "wait", "exited"} : Goto(Poller, pc)
  <2>1. PICK pc \in {"poll", "wait", "exited"} : Goto(Poller, pc)
    BY <1>3
  <2> DEFINE r == [thread[Poller] EXCEPT !.pc = pc]
  <2>2. thread' = [thread EXCEPT ![Poller] = r]
    BY <2>1 DEF Goto
  <2>3. r \in Thread /\ r.snap = thread[Poller].snap /\ r.phase = thread[Poller].phase /\ r.pc = pc
    BY <2>1, <1>2 DEF Thread
  <2> HIDE DEF r
  <2> QED
    BY <1>1, <1>2, <2>1, <2>2, <2>3, QuietStepKeeps DEF Dispatching
<1>4. CASE thread' = [thread EXCEPT ![Poller].pc = "poll", ![Poller].again = TRUE]
  <2> DEFINE r == [[thread[Poller] EXCEPT !.pc = "poll"] EXCEPT !.again = TRUE]
  <2>1. thread' = [thread EXCEPT ![Poller] = r]
    BY <1>4, <1>2
  <2>2. r \in Thread /\ r.snap = thread[Poller].snap /\ r.phase = thread[Poller].phase
          /\ r.pc = "poll"
    BY <1>2 DEF Thread
  <2> HIDE DEF r
  <2> QED
    BY <1>1, <1>2, <2>1, <2>2, QuietStepKeeps DEF Dispatching
<1> QED
  BY <1>3, <1>4 DEF Polled, Wait

LEMMA StopKeeps ==
  ASSUME IInv, Stop
  PROVE  IInv'
<1>1. ~building /\ stopping' = TRUE /\ UNCHANGED <<counters, building, book, thread, log>>
  BY DEF Stop
<1>2. TypeOK' /\ CountersOK' /\ TurnsOK' /\ BookOK' /\ ReturnedOK'
  BY <1>1 DEF IInv, TypeOK, CountersOK, TurnsOK, BookOK, Reported, ReturnedOK, Returned,
     Sane, Before, Reached, Snap, Dispatching, At
<1>3. \A t \in Threads : DispatchOK(t)'
  BY <1>1 DEF IInv, DispatchOK, Dispatching, Snap, At, Running, Reported
<1>4. LogFits(log, book, Flushing)'
  <2>1. Flushing' = Flushing
    BY <1>1 DEF Flushing, At
  <2> QED
    BY <1>1, <2>1 DEF IInv, LogFits, Justified, Delivered
<1> QED
  BY <1>2, <1>3, <1>4 DEF IInv

LEMMA StutterKeeps ==
  ASSUME IInv, UNCHANGED vars
  PROVE  IInv'
<1>1. UNCHANGED <<counters, building, stopping, book, thread, log>>
  BY DEF vars
<1>2. TypeOK' /\ CountersOK' /\ TurnsOK' /\ BookOK' /\ ReturnedOK'
  BY <1>1 DEF IInv, TypeOK, CountersOK, TurnsOK, BookOK, Reported, ReturnedOK, Returned,
     Sane, Before, Reached, Snap, Dispatching, At
<1>3. \A t \in Threads : DispatchOK(t)'
  BY <1>1 DEF IInv, DispatchOK, Dispatching, Snap, At, Running, Reported
<1>4. LogFits(log, book, Flushing)'
  <2>1. Flushing' = Flushing
    BY <1>1 DEF Flushing, At
  <2> QED
    BY <1>1, <2>1 DEF IInv, LogFits, Justified, Delivered
<1> QED
  BY <1>2, <1>3, <1>4 DEF IInv

-----------------------------------------------------------------------------
(* The invariant holds.                                                    *)

LEMMA InitHolds ==
  ASSUME Init
  PROVE  IInv
<1> DEFINE r == [pc |-> "poll", snap |-> counters, phase |-> Enum, slot |-> 1,
                 ended |-> FALSE, again |-> FALSE]
<1>1. /\ counters = [phase |-> 0, finished |-> FALSE, total |-> NoneDone, done |-> NoneDone,
                     slots |-> << >>]
      /\ building = TRUE /\ stopping = FALSE /\ log = << >>
      /\ book = [started |-> {}, ended |-> {}, last |-> NoneDone, signalled |-> {}]
      /\ thread = [t \in Threads |-> r]
  BY DEF Init, Threads
<1>2. NoneDone \in [Phase -> Nat] /\ \A p \in Phase : NoneDone[p] = 0
  BY DEF NoneDone
<1> HIDE DEF NoneDone
<1>3. /\ counters \in Counter /\ counters.phase = 0 /\ counters.finished = FALSE
      /\ counters.total = NoneDone /\ counters.done = NoneDone /\ counters.slots = << >>
  BY <1>1, <1>2 DEF Counter, Plugins
<1>4. /\ book \in Book /\ book.started = {} /\ book.ended = {} /\ book.last = NoneDone
      /\ book.signalled = {}
  BY <1>1, <1>2 DEF Book
<1>5. /\ r \in Thread /\ r.pc = "poll" /\ r.snap = counters /\ r.phase = Enum
  BY <1>3, PhaseFacts DEF Thread
<1> HIDE DEF r
<1>6. \A t \in Threads : thread[t] = r
  BY <1>1
<1>7. TypeOK
  <2>1. thread \in [Threads -> Thread]
    BY <1>1, <1>5
  <2>2. log \in Seq(Event)
    BY <1>1
  <2>3. building \in BOOLEAN /\ stopping \in BOOLEAN
    BY <1>1
  <2> QED
    BY <1>3, <1>4, <2>1, <2>2, <2>3 DEF TypeOK
<1>8. Sane(counters) /\ Before(counters, counters)
  <2>1. \A p \in Phase : p \in Nat /\ p > 0 /\ Work[p] \in Nat
    BY PhasesAssumption, PhaseFacts
  <2>2. 0 < Plugins /\ 0 # Plugins
    BY DEF Plugins
  <2> QED
    BY <1>2, <1>3, <2>1, <2>2 DEF Sane, Before
<1>9. CountersOK
  BY <1>1, <1>3, <1>5, <1>6, <1>8 DEF CountersOK, Snap
<1>10. TurnsOK
  BY <1>5, <1>6 DEF TurnsOK, Threads, At
<1>11. BookOK
  BY <1>2, <1>3, <1>4 DEF BookOK
<1>12. \A t \in Threads : DispatchOK(t)
  BY <1>5, <1>6 DEF DispatchOK, Dispatching
<1>13. ReturnedOK
  BY <1>5, <1>6 DEF ReturnedOK, Returned, Threads
<1>14. LogFits(log, book, Flushing)
  BY <1>1, <1>4 DEF LogFits, Delivered
<1> QED
  BY <1>7, <1>9, <1>10, <1>11, <1>12, <1>13, <1>14 DEF IInv

LEMMA NextKeeps ==
  ASSUME IInv, [Next]_vars, ~JoinMayTimeOut
  PROVE  IInv'
<1>1. CASE Build
  <2>1. CASE \E i \in DOMAIN counters.slots : PluginStarted(i) \/ PluginFinished(i)
    BY <2>1, PluginMovesKeeps
  <2> QED
    BY <1>1, <2>1, StartPhaseKeeps, CountDoneKeeps, EndOfBuildKeeps, PluginCountedKeeps DEF Build
<1>2. ASSUME NEW t \in Threads, Dispatch(t)
      PROVE  IInv'
  BY <1>2, DispatchStartKeeps, DispatchProgressKeeps, DispatchSlotKeeps, SlotsDoneKeeps,
     DispatchEndKeeps, DispatchFlushedKeeps DEF Dispatch
<1> QED
  BY <1>1, <1>2, EndOfBuildKeeps, PollKeeps, PollerMovesKeeps, StopKeeps, JoinKeeps, StutterKeeps
  DEF Next, Threads

-----------------------------------------------------------------------------
(* What it says of the events.                                             *)

LEMMA AtMostOne ==
  ASSUME NEW S \in SUBSET Nat, \A i, j \in S : ~(i < j)
  PROVE  Cardinality(S) <= 1 /\ (S # {} => Cardinality(S) = 1) /\ (S = {} => Cardinality(S) = 0)
<1>1. CASE S = {}
  BY <1>1, FS_EmptySet
<1>2. CASE S # {}
  <2>1. PICK i \in S : TRUE
    BY <1>2
  <2>2. \A j \in S : j = i
    <3> TAKE j \in S
    <3>1. i \in Nat /\ j \in Nat /\ ~(i < j) /\ ~(j < i)
      BY <2>1
    <3> QED
      BY <3>1
  <2>3. S = {i}
    BY <2>1, <2>2
  <2>4. Cardinality({i}) = 1
    BY FS_Singleton
  <2> QED
    BY <1>2, <2>3, <2>4
<1> QED
  BY <1>1, <1>2

(* Two events of the log, and one against the book.                         *)
LEMMA LogFacts ==
  ASSUME IInv
  PROVE  /\ log \in Seq(Event) /\ DOMAIN log \subseteq Nat
         /\ \A i \in DOMAIN log : Justified(log, book, Flushing, i)
         /\ \A i, j \in DOMAIN log : i < j => MayFollow(log[i], log[j])
         /\ Delivered(log, book, Flushing)
<1>1. log \in Seq(Event) /\ LogFits(log, book, Flushing)
  BY DEF IInv, TypeOK
<1>2. \A i, j \in DOMAIN log : i < j => MayFollow(log[i], log[j])
  BY <1>1 DEF LogFits, Justified
<1> QED
  BY <1>1, <1>2 DEF LogFits

(* A kind of event that a phase may have but once.                          *)
LEMMA OnceAPhase ==
  ASSUME IInv, NEW kind \in {"phase_start", "phase_end"}, NEW p
  PROVE  /\ Cardinality(Positions(kind, p)) <= 1
         /\ Positions(kind, p) # {} => Cardinality(Positions(kind, p)) = 1
<1>1. Positions(kind, p) \in SUBSET Nat
  BY LogFacts DEF Positions
<1>2. ASSUME NEW i \in Positions(kind, p), NEW j \in Positions(kind, p), i < j
      PROVE  FALSE
  <2>1. MayFollow(log[i], log[j]) /\ log[i][2] = log[j][2] /\ log[i][1] = kind /\ log[j][1] = kind
    BY <1>2, LogFacts DEF Positions
  <2> QED
    BY <2>1 DEF MayFollow
<1> QED
  BY <1>1, <1>2, AtMostOne

LEMMA FitsIsWellFormed ==
  ASSUME IInv
  PROVE  EventsWellFormed
<1> SUFFICES ASSUME NEW p \in Phase
             PROVE  LET starts == Positions("phase_start", p)
                        ends   == Positions("phase_end", p)
                        counts == Positions("phase_progress", p)
                    IN  /\ Cardinality(starts) <= 1 /\ Cardinality(ends) <= 1
                        /\ \A i \in counts \cup ends : \E j \in starts : j < i
                        /\ \A i \in counts, j \in ends : i < j
                        /\ \A i, j \in counts : i < j => log[i][3] < log[j][3]
                        /\ p > Enum => \A i \in starts : \E j \in Positions("phase_end", p - 1) : j < i
  BY DEF EventsWellFormed
<1> DEFINE starts == Positions("phase_start", p)
           ends   == Positions("phase_end", p)
           counts == Positions("phase_progress", p)
<1>1. Cardinality(starts) <= 1 /\ Cardinality(ends) <= 1
  BY OnceAPhase
<1>2. ASSUME NEW i \in counts \cup ends
      PROVE  \E j \in starts : j < i
  <2>1. /\ i \in DOMAIN log /\ log[i][2] = p /\ log[i][1] \in {"phase_progress", "phase_end"}
        /\ Justified(log, book, Flushing, i)
    BY LogFacts DEF Positions
  <2>2. \E j \in DOMAIN log : j < i /\ Is(log[j], "phase_start", p)
    BY <2>1 DEF Justified
  <2> QED
    BY <2>2 DEF Positions, Is
<1>3. ASSUME NEW i \in counts, NEW j \in ends
      PROVE  i < j
  <2>1. /\ i \in DOMAIN log /\ log[i][2] = p /\ log[i][1] = "phase_progress"
        /\ j \in DOMAIN log /\ log[j][2] = p /\ log[j][1] = "phase_end"
        /\ i \in Nat /\ j \in Nat
    BY LogFacts DEF Positions
  <2>2. ~(j < i)
    <3>1. j < i => MayFollow(log[j], log[i])
      BY <2>1, LogFacts
    <3> QED
      BY <2>1, <3>1 DEF MayFollow
  <2> QED
    BY <2>1, <2>2
<1>4. ASSUME NEW i \in counts, NEW j \in counts, i < j
      PROVE  log[i][3] < log[j][3]
  <2>1. /\ i \in DOMAIN log /\ log[i][2] = p /\ log[i][1] = "phase_progress"
        /\ j \in DOMAIN log /\ log[j][2] = p /\ log[j][1] = "phase_progress"
    BY DEF Positions
  <2>2. MayFollow(log[i], log[j])
    BY <2>1, <1>4, LogFacts
  <2> QED
    BY <2>1, <2>2 DEF MayFollow
<1>5. ASSUME p > Enum, NEW i \in starts
      PROVE  \E j \in Positions("phase_end", p - 1) : j < i
  <2>1. /\ i \in DOMAIN log /\ log[i][2] = p /\ log[i][1] = "phase_start"
        /\ Justified(log, book, Flushing, i)
    BY LogFacts DEF Positions
  <2>2. \E j \in DOMAIN log : j < i /\ Is(log[j], "phase_end", p - 1)
    BY <1>5, <2>1 DEF Justified
  <2> QED
    BY <2>2 DEF Positions, Is
<1> HIDE DEF starts, ends, counts
<1>6. QED
  BY <1>1, <1>2, <1>3, <1>4, <1>5 DEF starts, ends, counts

(* The reports of plugin i: one if it is due, none if it is not.            *)
Reports(kind, i) == {j \in Positions(kind, Plugins) : log[j][3] = i}

LEMMA ReportsAreExact ==
  ASSUME IInv, Reported(counters),
         NEW kind \in {"plugin_start", "plugin_end"}, NEW i \in DOMAIN counters.slots
  PROVE  Cardinality(Reports(kind, i)) = IF Due(kind, counters.slots[i]) THEN 1 ELSE 0
<1> DEFINE R == Reports(kind, i)
<1>1. R \in SUBSET Nat
  BY LogFacts DEF Positions, Reports
<1>2. ASSUME NEW j \in R, NEW k \in R, j < k
      PROVE  FALSE
  <2>1. /\ MayFollow(log[j], log[k]) /\ log[j][2] = log[k][2] /\ log[j][1] = log[k][1]
        /\ log[j][3] = log[k][3] /\ log[k][1] = kind
    BY <1>2, LogFacts DEF Positions, Reports
  <2> QED
    BY <2>1 DEF MayFollow
<1>3. Cardinality(R) <= 1 /\ (R # {} => Cardinality(R) = 1) /\ (R = {} => Cardinality(R) = 0)
  <2> HIDE DEF R
  <2> QED
    BY <1>1, <1>2, AtMostOne
<1>4. Due(kind, counters.slots[i]) => R # {}
  <2> HAVE Due(kind, counters.slots[i])
  <2>1. <<kind, i>> \in book.signalled
    BY DEF Reported
  <2>2. PICK j \in DOMAIN log : log[j] = <<kind, Plugins, i>>
    BY <2>1, LogFacts DEF Delivered
  <2>3. log[j][1] = kind /\ log[j][2] = Plugins /\ log[j][3] = i
    BY <2>2
  <2>4. j \in R
    BY <2>3 DEF Reports, Positions
  <2> QED
    BY <2>4
<1>5. R # {} => Due(kind, counters.slots[i])
  <2> HAVE R # {}
  <2>1. PICK j \in R : TRUE
    OBVIOUS
  <2>2. /\ j \in DOMAIN log /\ log[j][1] = kind /\ log[j][3] = i
        /\ Justified(log, book, Flushing, j)
    BY <2>1, LogFacts DEF Reports, Positions
  <2>3. <<kind, i>> \in book.signalled
    BY <2>2 DEF Justified
  <2>4. i \in Nat
    BY DEF IInv, TypeOK, Counter
  <2> QED
    BY <2>3, <2>4 DEF IInv, BookOK
<1> HIDE DEF R
<1> QED
  BY <1>3, <1>4, <1>5 DEF R

LEMMA ReturnedIsComplete ==
  ASSUME IInv
  PROVE  StopDeliversEverything
<1> SUFFICES ASSUME Returned PROVE StopDeliversEverything
  BY DEF StopDeliversEverything
<1>1. Flushing = {}
  <2>1. \A t \in Threads : thread[t].pc # "flushed"
    BY DEF IInv, TurnsOK, Returned, Threads
  <2> QED
    BY <2>1 DEF Flushing
<1>2. counters \in Counter /\ counters.phase \in Nat /\ counters.phase <= Plugins
  BY PhaseFacts DEF IInv, TypeOK, Counter
<1>3. ASSUME NEW p \in Enum .. counters.phase
      PROVE  Cardinality(Positions("phase_end", p)) = 1
  <2>1. p \in Phase /\ p <= counters.phase
    BY <1>2, PhaseFacts
  <2>2. p \in book.ended \ Flushing
    BY <2>1, <1>1 DEF IInv, ReturnedOK
  <2>3. \E i \in DOMAIN log : Is(log[i], "phase_end", p)
    BY <2>2, LogFacts DEF Delivered
  <2>4. Positions("phase_end", p) # {}
    BY <2>3 DEF Positions, Is
  <2> QED
    BY <2>4, OnceAPhase
<1>4. ASSUME NEW i \in DOMAIN counters.slots
      PROVE  /\ Cardinality(Reports("plugin_start", i)) = (IF counters.slots[i] = "waiting" THEN 0 ELSE 1)
             /\ Cardinality(Reports("plugin_end", i)) = (IF counters.slots[i] = "finished" THEN 1 ELSE 0)
  <2>1. counters.slots[i] \in States
    BY <1>2 DEF Counter
  <2>2. ~(counters.phase < Plugins)
    <3>1. counters.phase < Plugins => counters.slots = << >>
      BY DEF IInv, CountersOK, Sane
    <3> QED
      BY <3>1
  <2>3. Plugins <= counters.phase /\ Plugins \in Phase
    BY <2>2, <1>2, PhaseFacts
  <2>4. Reported(counters)
    BY <2>3 DEF IInv, ReturnedOK, BookOK
  <2>5. /\ Due("plugin_start", counters.slots[i]) <=> counters.slots[i] # "waiting"
        /\ Due("plugin_end", counters.slots[i]) <=> counters.slots[i] = "finished"
    BY <2>1 DEF Due, States
  <2>6. /\ Cardinality(Reports("plugin_start", i)) = IF Due("plugin_start", counters.slots[i]) THEN 1 ELSE 0
        /\ Cardinality(Reports("plugin_end", i)) = IF Due("plugin_end", counters.slots[i]) THEN 1 ELSE 0
    BY <2>4, ReportsAreExact
  <2> QED
    BY <2>5, <2>6
<1> QED
  BY <1>3, <1>4 DEF StopDeliversEverything, Reports

-----------------------------------------------------------------------------
(* The theorems.                                                           *)

(* The invariant holds if the join of stop() waits for the poller, as       *)
(* _ProgressPoller.stop does unless a callback outlasts its timeout.        *)
THEOREM PollerInvariant ==
  ASSUME ~JoinMayTimeOut
  PROVE  Spec => []IInv
<1>1. Init => IInv
  BY InitHolds
<1>2. IInv /\ [Next]_vars => IInv'
  BY NextKeeps
<1> QED
  BY <1>1, <1>2, PTL DEF Spec

(* Whatever the workers count, whenever the poller and stop() take their    *)
(* snapshots: the phases come one after the other, each with one start, at  *)
(* most one end, and counts in between that only grow (_dispatch).          *)
THEOREM EventsAreWellFormed ==
  ASSUME ~JoinMayTimeOut
  PROVE  Spec => []EventsWellFormed
<1>1. IInv => EventsWellFormed
  BY FitsIsWellFormed
<1> QED
  BY <1>1, PollerInvariant, PTL

(* And when stop() returns, each phase entered and each plugin run has been *)
(* reported, exactly once, whether the build succeeded or raised.           *)
THEOREM StopIsComplete ==
  ASSUME ~JoinMayTimeOut
  PROVE  Spec => []StopDeliversEverything
<1>1. IInv => StopDeliversEverything
  BY ReturnedIsComplete
<1> QED
  BY <1>1, PollerInvariant, PTL
=============================================================================
