---------------------------- MODULE ProgressPoller ----------------------------
(***************************************************************************)
(* Build progress: the counters of src/runtime/src/progress.rs, bumped     *)
(* without the GIL by the workers of materialize, and the _ProgressPoller  *)
(* of src/python/dead_cst/analyze.py, which turns snapshots of them into   *)
(* callback events on a thread of its own and, once more, in stop().       *)
(*                                                                         *)
(* The building thread holds the GIL except while workers run, and a       *)
(* snapshot needs it: the writes the building thread makes between two     *)
(* releases are one step, and so is a snapshot.  A dispatch may be         *)
(* interrupted wherever it calls back.  Durations are left out.            *)
(***************************************************************************)
EXTENDS Naturals, Sequences, FiniteSets

CONSTANTS
  Total,             \* phase -> the items start_phase announces
  Work,              \* phase -> the items that get counted as done
  JoinMayTimeOut     \* whether a callback may outlast the join of stop()

Enum == 1
Fqname == 4
Plugins == 5
Phase == Enum .. Plugins

(* An incremental build announces every file and assembles the dirty ones.  *)
ASSUME PhasesAssumption ==
  /\ Total \in [Phase -> Nat] /\ Work \in [Phase -> Nat]
  /\ \A p \in Phase : Work[p] <= Total[p]
  /\ \A p \in {Enum, Fqname, Plugins} : Work[p] = Total[p]
  /\ JoinMayTimeOut \in BOOLEAN

VARIABLES
  counters,    \* ProgressCounters
  building,    \* whether the main thread is still inside materialize
  stopping,    \* _ProgressPoller._stop
  book,        \* _started, _ended, _last_progress, _plugins_signalled_*
  thread,      \* of the poller and of the main thread: where its dispatch is
  log          \* the events called back, in order

vars == <<counters, building, stopping, book, thread, log>>

Poller == "poller"
Main == "main"

-----------------------------------------------------------------------------
(* The build.                                                              *)

Workers(p) == counters.phase = p /\ building

AllDone(p) == counters.done[p] = Work[p]

(* start_phase, when the workers of the last phase are joined.  Enumeration *)
(* is counted in one go; the plugin slots exist from the plugin phase on.   *)
StartPhase ==
  LET p == counters.phase + 1
  IN  /\ building /\ p \in Phase
      /\ p > Enum => AllDone(p - 1)
      /\ counters' = [counters EXCEPT
           !.phase = p, !.total[p] = Total[p],
           !.done[p] = IF p = Enum THEN Total[p] ELSE 0,
           !.slots = IF p = Plugins THEN [i \in 1 .. Total[p] |-> "waiting"] ELSE @]
      /\ UNCHANGED <<building, stopping, book, thread, log>>

(* populate_inc, assemble_inc, and fqname_add, which counts a whole batch.  *)
CountDone ==
  \E p \in Phase \ {Plugins} :
    /\ Workers(p) /\ ~AllDone(p)
    /\ counters' = [counters EXCEPT !.done[p] = IF p = Fqname THEN Work[p] ELSE @ + 1]
    /\ UNCHANGED <<building, stopping, book, thread, log>>

PluginStarted(i) ==
  /\ Workers(Plugins) /\ counters.slots[i] = "waiting"
  /\ counters' = [counters EXCEPT !.slots[i] = "started"]
  /\ UNCHANGED <<building, stopping, book, thread, log>>

PluginFinished(i) ==
  /\ Workers(Plugins) /\ counters.slots[i] = "started"
  /\ counters' = [counters EXCEPT !.slots[i] = "finished"]
  /\ UNCHANGED <<building, stopping, book, thread, log>>

(* plugins_inc follows plugin_finished in the same worker.                  *)
PluginCounted ==
  /\ Workers(Plugins)
  /\ counters.done[Plugins] < Cardinality({i \in DOMAIN counters.slots : counters.slots[i] = "finished"})
  /\ counters' = [counters EXCEPT !.done[Plugins] = @ + 1]
  /\ UNCHANGED <<building, stopping, book, thread, log>>

(* materialize returns or raises; either way the counters are finished.     *)
Succeed ==
  /\ Workers(Plugins) /\ AllDone(Plugins)
  /\ counters' = [counters EXCEPT !.finished = TRUE]
  /\ building' = FALSE
  /\ UNCHANGED <<stopping, book, thread, log>>

(* Workers that run are joined first, whichever of them panicked.           *)
Fail ==
  /\ building
  /\ \A i \in DOMAIN counters.slots :
       counters.slots[i] = "finished" =>
         counters.done[Plugins] = Cardinality({j \in DOMAIN counters.slots : counters.slots[j] = "finished"})
  /\ counters' = [counters EXCEPT !.finished = TRUE]
  /\ building' = FALSE
  /\ UNCHANGED <<stopping, book, thread, log>>

-----------------------------------------------------------------------------
(* _dispatch, by thread t over the snapshot it took.                       *)

Snap(t) == thread[t].snap
At(t)   == thread[t].phase

Emit(event) == log' = Append(log, event)

(* The next phase of the loop, or the end of the dispatch.                  *)
NextPhase(t) ==
  thread' = [thread EXCEPT
    ![t].pc    = IF At(t) = Plugins THEN "dispatched" ELSE "start",
    ![t].phase = IF At(t) = Plugins THEN Enum ELSE @ + 1]

Goto(t, pc) == thread' = [thread EXCEPT ![t].pc = pc]

(* phase_start, once the phase has any sign of life.  Whether it already    *)
(* ended is read here and used to the end of this iteration.                *)
DispatchStart(t) ==
  LET p == At(t)
      alive == Snap(t).phase >= p \/ Snap(t).done[p] > 0 \/ Snap(t).total[p] > 0
  IN  /\ thread[t].pc = "start"
      /\ thread' = [thread EXCEPT ![t].pc = "progress", ![t].ended = p \in book.ended]
      /\ \/ /\ alive /\ p \notin book.started
            /\ book' = [book EXCEPT !.started = @ \cup {p}]
            /\ Emit(<<"phase_start", p, Snap(t).total[p]>>)
         \/ /\ ~alive \/ p \in book.started
            /\ UNCHANGED <<book, log>>
      /\ UNCHANGED <<counters, building, stopping>>

Running(t) == At(t) \in book.started /\ ~thread[t].ended

DispatchProgress(t) ==
  LET p == At(t)
      fresh == Running(t) /\ book.last[p] # Snap(t).done[p] + 1
  IN  /\ thread[t].pc = "progress"
      /\ IF Running(t) /\ p = Plugins THEN thread' = [thread EXCEPT ![t].pc = "slots", ![t].slot = 1]
         ELSE Goto(t, "end")
      /\ \/ /\ fresh
            /\ book' = [book EXCEPT !.last[p] = Snap(t).done[p] + 1]
            /\ Emit(<<"phase_progress", p, Snap(t).done[p]>>)
         \/ ~fresh /\ UNCHANGED <<book, log>>
      /\ UNCHANGED <<counters, building, stopping>>

(* _emit_plugin_events_from_slots: the start and then the end of slot after *)
(* slot; slot 2 * i - 1 of the loop is the start of plugin i, 2 * i its end. *)
DispatchSlot(t) ==
  LET slot == thread[t].slot
      i    == (slot + 1) \div 2
      what == IF slot % 2 = 1 THEN "plugin_start" ELSE "plugin_end"
      seen == IF what = "plugin_start" THEN {"started", "finished"} ELSE {"finished"}
      due  == Snap(t).slots[i] \in seen /\ <<what, i>> \notin book.signalled
  IN  /\ thread[t].pc = "slots"
      /\ slot <= 2 * Len(Snap(t).slots)
      /\ thread' = [thread EXCEPT ![t].slot = @ + 1]
      /\ \/ /\ due
            /\ book' = [book EXCEPT !.signalled = @ \cup {<<what, i>>}]
            /\ Emit(<<what, Plugins, i>>)
         \/ ~due /\ UNCHANGED <<book, log>>
      /\ UNCHANGED <<counters, building, stopping>>

SlotsDone(t) ==
  /\ thread[t].pc = "slots" /\ thread[t].slot > 2 * Len(Snap(t).slots)
  /\ Goto(t, "end")
  /\ UNCHANGED <<counters, building, stopping, book, log>>

(* phase_end, after a last phase_progress if the total was never reported.  *)
DispatchEnd(t) ==
  LET p == At(t)
      total == Snap(t).total[p]
      over  == Running(t) /\ (Snap(t).phase > p \/ Snap(t).finished)
      short == total > 0 /\ book.last[p] # total + 1
  IN  /\ thread[t].pc = "end"
      /\ \/ /\ over /\ short
            /\ book' = [book EXCEPT !.ended = @ \cup {p}, !.last[p] = total + 1]
            /\ Emit(<<"phase_progress", p, total>>)
            /\ Goto(t, "flushed")
         \/ /\ over /\ ~short
            /\ book' = [book EXCEPT !.ended = @ \cup {p}]
            /\ Emit(<<"phase_end", p, 0>>)
            /\ NextPhase(t)
         \/ ~over /\ NextPhase(t) /\ UNCHANGED <<book, log>>
      /\ UNCHANGED <<counters, building, stopping>>

DispatchFlushed(t) ==
  /\ thread[t].pc = "flushed"
  /\ Emit(<<"phase_end", At(t), 0>>)
  /\ NextPhase(t)
  /\ UNCHANGED <<counters, building, stopping, book>>

Dispatch(t) ==
  \/ DispatchStart(t) \/ DispatchProgress(t) \/ DispatchSlot(t) \/ SlotsDone(t)
  \/ DispatchEnd(t) \/ DispatchFlushed(t)

Dispatching(t) == thread[t].pc \in {"start", "progress", "slots", "end", "flushed"}

(* ProgressHandle.snapshot.                                                 *)
TakeSnapshot(t) ==
  thread' = [thread EXCEPT ![t].pc = "start", ![t].snap = counters]

-----------------------------------------------------------------------------
(* _run and stop.                                                          *)

Poll ==
  /\ thread[Poller].pc = "poll"
  /\ TakeSnapshot(Poller)
  /\ UNCHANGED <<counters, building, stopping, book, log>>

(* Mutant: that the finish was seen is not remembered.                      *)
PolledForgetful ==
  /\ thread[Poller].pc = "dispatched"
  /\ Goto(Poller, IF Snap(Poller).finished THEN "poll" ELSE "wait")
  /\ UNCHANGED <<counters, building, stopping, book, log>>

(* One more round after the first snapshot that is finished.                *)
Polled ==
  /\ thread[Poller].pc = "dispatched"
  /\ \/ /\ thread[Poller].again
        /\ Goto(Poller, "exited")
     \/ /\ ~thread[Poller].again /\ Snap(Poller).finished
        /\ thread' = [thread EXCEPT ![Poller].pc = "poll", ![Poller].again = TRUE]
     \/ /\ ~thread[Poller].again /\ ~Snap(Poller).finished
        /\ Goto(Poller, "wait")
  /\ UNCHANGED <<counters, building, stopping, book, log>>

(* _stop.wait(interval).                                                    *)
Wait ==
  /\ thread[Poller].pc = "wait"
  /\ Goto(Poller, IF stopping THEN "exited" ELSE "poll")
  /\ UNCHANGED <<counters, building, stopping, book, log>>

Stop ==
  /\ ~building /\ ~stopping
  /\ stopping' = TRUE
  /\ UNCHANGED <<counters, building, book, thread, log>>

(* Mutant: the poller is not joined.                                        *)
DrainAtOnce ==
  /\ stopping /\ thread[Main].pc = "poll"
  /\ TakeSnapshot(Main)
  /\ UNCHANGED <<counters, building, stopping, book, log>>

(* Mutant: stop() ends with the join.                                       *)
JoinOnly ==
  /\ stopping /\ thread[Main].pc = "poll"
  /\ thread[Poller].pc = "exited"
  /\ Goto(Main, "dispatched")
  /\ UNCHANGED <<counters, building, stopping, book, log>>

(* The join, and the snapshot of the final drain.                           *)
Join ==
  /\ stopping /\ thread[Main].pc = "poll"
  /\ thread[Poller].pc = "exited" \/ (JoinMayTimeOut /\ Dispatching(Poller))
  /\ TakeSnapshot(Main)
  /\ UNCHANGED <<counters, building, stopping, book, log>>

Returned == thread[Main].pc = "dispatched"

-----------------------------------------------------------------------------
NoneDone == [p \in Phase |-> 0]

Init ==
  /\ counters = [phase |-> 0, finished |-> FALSE, total |-> NoneDone, done |-> NoneDone, slots |-> <<>>]
  /\ building = TRUE
  /\ stopping = FALSE
  /\ book = [started |-> {}, ended |-> {}, last |-> NoneDone, signalled |-> {}]
  /\ thread = [t \in {Poller, Main} |->
       [pc |-> "poll", snap |-> counters, phase |-> Enum, slot |-> 1, ended |-> FALSE, again |-> FALSE]]
  /\ log = <<>>

Build ==
  \/ StartPhase \/ CountDone \/ Succeed \/ PluginCounted
  \/ \E i \in DOMAIN counters.slots : PluginStarted(i) \/ PluginFinished(i)

Next ==
  \/ Build \/ Fail
  \/ Poll \/ Polled \/ Wait \/ Dispatch(Poller)
  \/ Stop \/ Join \/ Dispatch(Main)

(* Every thread runs on: a callback returns, a worker finishes its item.    *)
Spec ==
  /\ Init /\ [][Next]_vars
  /\ WF_vars(Build)
  /\ WF_vars(Poll \/ Polled \/ Wait \/ Dispatch(Poller))
  /\ WF_vars(Stop \/ Join \/ Dispatch(Main))

-----------------------------------------------------------------------------
(* Properties.                                                             *)

Positions(kind, p) == {i \in DOMAIN log : log[i][1] = kind /\ log[i][2] = p}

(* The callback sees every phase bracketed: at most one phase_start and one *)
(* phase_end, the counts between them and never going back, one phase over  *)
(* before the next begins.                                                  *)
EventsWellFormed ==
  \A p \in Phase :
    LET starts == Positions("phase_start", p)
        ends   == Positions("phase_end", p)
        counts == Positions("phase_progress", p)
    IN  /\ Cardinality(starts) <= 1 /\ Cardinality(ends) <= 1
        /\ \A i \in counts \cup ends : \E j \in starts : j < i
        /\ \A i \in counts, j \in ends : i < j
        /\ \A i, j \in counts : i < j => log[i][3] < log[j][3]
        /\ p > Enum => \A i \in starts : \E j \in Positions("phase_end", p - 1) : j < i

(* When stop() returns, every phase the build entered has been ended, every *)
(* plugin that started or finished has been reported, each exactly once.    *)
StopDeliversEverything ==
  Returned =>
    /\ \A p \in Enum .. counters.phase : Cardinality(Positions("phase_end", p)) = 1
    /\ \A i \in DOMAIN counters.slots :
         LET reports(kind) == Cardinality({j \in Positions(kind, Plugins) : log[j][3] = i})
         IN  /\ reports("plugin_start") = (IF counters.slots[i] = "waiting" THEN 0 ELSE 1)
             /\ reports("plugin_end") = (IF counters.slots[i] = "finished" THEN 1 ELSE 0)

(* A build that ends, well or badly, gets out of stop(), and the poller is  *)
(* gone.                                                                    *)
StopReturns == <>(Returned /\ thread[Poller].pc = "exited")
=============================================================================
