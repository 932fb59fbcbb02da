---------------------------- MODULE ExpiryTicker ----------------------------
(***************************************************************************)
(* How Start and Shutdown of the engine hand their goroutine over with the *)
(* channels stop and done.  The fields are written under orderMu, but the  *)
(* goroutine reads e.done when it begins and e.stop each time it enters    *)
(* its select, without a lock, so the identity of the channels matters:    *)
(* channel g is made by the g-th effective Start, 0 is nil.                *)
(*                                                                         *)
(* SamplingEngine has the buffer, one ticker and its Shutdowns one after   *)
(* the other; here several callers of Shutdown overlap, and Start restarts *)
(* an engine that was shut down.                                           *)
(***************************************************************************)
EXTENDS Integers, FiniteSets

CONSTANTS
  Closers,      \* the calls of Shutdown
  Overlapping,  \* whether Start may be called while one of them runs
  MaxStarts     \* bound: how often Start makes a ticker

ASSUME OverlappingAssumption == Overlapping \in BOOLEAN
ASSUME StartsAssumption == MaxStarts \in Nat

VARIABLES
  stop, done,    \* the fields: a channel, or Nil
  stopped,
  starts,        \* the tickers made so far
  stopClosed,    \* the stop channels that are closed
  doneClosed,    \* the done channels that are closed
  ticker,        \* where each goroutine is
  closesDone,    \* the channel that its deferred close will close
  listens,       \* the channel its select waits for
  closer,        \* where each Shutdown is
  awaits,        \* the done channel it waits for
  panicked       \* a closed channel was closed

fields == <<stop, done, stopped, starts>>
channels == <<stopClosed, doneClosed, panicked>>
goroutines == <<ticker, closesDone, listens>>
calls == <<closer, awaits>>
vars == <<fields, channels, goroutines, calls>>

Nil == 0
Tickers == 1..MaxStarts
Running == {g \in Tickers : ticker[g] \notin {"none", "gone"}}

TypeOK ==
  /\ stop \in 0..starts /\ done \in 0..starts /\ stopped \in BOOLEAN /\ starts \in 0..MaxStarts
  /\ stopClosed \subseteq Tickers /\ doneClosed \subseteq Tickers /\ panicked \in BOOLEAN
  /\ ticker \in [Tickers -> {"none", "spawned", "loop", "select", "expire", "exit", "gone"}]
  /\ closesDone \in [Tickers -> 0..MaxStarts] /\ listens \in [Tickers -> 0..MaxStarts]
  /\ closer \in [Closers -> {"new", "wait", "clear", "drain", "returned"}]
  /\ awaits \in [Closers -> 0..MaxStarts]

Init ==
  /\ stop = Nil /\ done = Nil /\ stopped = FALSE /\ starts = 0
  /\ stopClosed = {} /\ doneClosed = {} /\ panicked = FALSE
  /\ ticker = [g \in Tickers |-> "none"]
  /\ closesDone = [g \in Tickers |-> Nil] /\ listens = [g \in Tickers |-> Nil]
  /\ closer = [c \in Closers |-> "new"] /\ awaits = [c \in Closers |-> Nil]

-----------------------------------------------------------------------------
(* Start and its goroutine.                                                *)

\* The collector does not start a component that it is shutting down.
MayStart ==
  starts < MaxStarts /\ (Overlapping \/ \A c \in Closers : closer[c] \in {"new", "returned"})

\* While stop is set, Start does nothing.
Start ==
  /\ MayStart /\ stop = Nil
  /\ starts' = starts + 1 /\ stop' = starts' /\ done' = starts' /\ stopped' = FALSE
  /\ ticker' = [ticker EXCEPT ![starts'] = "spawned"]
  /\ UNCHANGED <<channels, closesDone, listens, calls>>

At(g, here, there) == ticker[g] = here /\ ticker' = [ticker EXCEPT ![g] = there]

\* The argument of the deferred close is evaluated here.
Begin(g) ==
  /\ At(g, "spawned", "loop")
  /\ closesDone' = [closesDone EXCEPT ![g] = done]
  /\ UNCHANGED <<fields, channels, listens, calls>>

EnterSelect(g) ==
  /\ At(g, "loop", "select")
  /\ listens' = [listens EXCEPT ![g] = stop]
  /\ UNCHANGED <<fields, channels, closesDone, calls>>

Tick(g) == At(g, "select", "expire") /\ UNCHANGED <<fields, channels, closesDone, listens, calls>>

\* expire has had ingestMu and orderMu.
Expired(g) == At(g, "expire", "loop") /\ UNCHANGED <<fields, channels, closesDone, listens, calls>>

\* Nothing is received from nil.
SeesStop(g) ==
  /\ At(g, "select", "exit") /\ listens[g] \in stopClosed
  /\ UNCHANGED <<fields, channels, closesDone, listens, calls>>

Exit(g) ==
  /\ At(g, "exit", "gone")
  /\ doneClosed' = doneClosed \cup {closesDone[g]}
  /\ panicked' = (panicked \/ closesDone[g] \in doneClosed)
  /\ UNCHANGED <<fields, stopClosed, closesDone, listens, calls>>

-----------------------------------------------------------------------------
(* Shutdown, up to its drain.                                              *)

CloseStop == stopClosed' = stopClosed \cup {stop} /\ panicked' = (panicked \/ stop \in stopClosed)

\* Mutant: stop is cleared at once, so that nobody can close it again.
ShutdownBeginClearing(c) ==
  /\ closer[c] = "new"
  /\ IF stop # Nil /\ ~stopped
     THEN stopped' = TRUE /\ CloseStop
     ELSE UNCHANGED <<stopped, stopClosed, panicked>>
  /\ stop' = Nil
  /\ awaits' = [awaits EXCEPT ![c] = done]
  /\ closer' = [closer EXCEPT ![c] = IF stop # Nil THEN "wait" ELSE "drain"]
  /\ UNCHANGED <<done, starts, doneClosed, goroutines>>

\* Mutant: without the mark that stop was closed.
ShutdownBeginUnmarked(c) ==
  /\ closer[c] = "new"
  /\ IF stop # Nil THEN CloseStop ELSE UNCHANGED <<stopClosed, panicked>>
  /\ awaits' = [awaits EXCEPT ![c] = done]
  /\ closer' = [closer EXCEPT ![c] = IF stop # Nil THEN "wait" ELSE "drain"]
  /\ UNCHANGED <<fields, doneClosed, goroutines>>

ShutdownBegin(c) ==
  /\ closer[c] = "new"
  /\ IF stop # Nil /\ ~stopped
     THEN stopped' = TRUE /\ CloseStop
     ELSE UNCHANGED <<stopped, stopClosed, panicked>>
  /\ awaits' = [awaits EXCEPT ![c] = done]
  /\ closer' = [closer EXCEPT ![c] = IF stop # Nil THEN "wait" ELSE "drain"]
  /\ UNCHANGED <<stop, done, starts, doneClosed, goroutines>>

Goto(c, here, there) == closer[c] = here /\ closer' = [closer EXCEPT ![c] = there]

ShutdownAwaited(c) ==
  /\ Goto(c, "wait", "clear") /\ awaits[c] \in doneClosed
  /\ UNCHANGED <<fields, channels, goroutines, awaits>>

ShutdownClears(c) ==
  /\ Goto(c, "clear", "drain") /\ stop' = Nil
  /\ UNCHANGED <<done, stopped, starts, channels, goroutines, awaits>>

\* Mutant: a Shutdown that gives up waiting clears stop as well.
ShutdownCancelledClearing(c) ==
  /\ Goto(c, "wait", "drain") /\ stop' = Nil
  /\ UNCHANGED <<done, stopped, starts, channels, goroutines, awaits>>

\* ctx was cancelled: stop stays set.
ShutdownCancelled(c) ==
  /\ Goto(c, "wait", "drain")
  /\ UNCHANGED <<fields, channels, goroutines, awaits>>

ShutdownReturns(c) ==
  Goto(c, "drain", "returned") /\ UNCHANGED <<fields, channels, goroutines, awaits>>

-----------------------------------------------------------------------------
Goroutine(g) == Begin(g) \/ EnterSelect(g) \/ Expired(g) \/ Exit(g)

Shutdown(c) ==
  \/ ShutdownBegin(c) \/ ShutdownAwaited(c) \/ ShutdownClears(c)
  \/ ShutdownCancelled(c) \/ ShutdownReturns(c)

Next ==
  \/ Start
  \/ \E g \in Tickers : Goroutine(g) \/ Tick(g) \/ SeesStop(g)
  \/ \E c \in Closers : Shutdown(c)

Spec == Init /\ [][Next]_vars

\* Goroutines run on; a select that is offered a closed channel again and again
\* takes it; a Shutdown whose channel is closed goes on. No ctx is cancelled.
Fairness ==
  /\ \A g \in Tickers : WF_vars(Goroutine(g)) /\ SF_vars(SeesStop(g))
  /\ \A c \in Closers :
       WF_vars(ShutdownAwaited(c)) /\ WF_vars(ShutdownClears(c)) /\ WF_vars(ShutdownReturns(c))

FairSpec == Spec /\ Fairness

-----------------------------------------------------------------------------
(* Properties.                                                             *)

\* "stop is cleared only after the ticker exits": when it is nil, and Start may
\* make a ticker, none is running, although a Shutdown may have given up.
StopClearedAfterExit == stop = Nil => Running = {}

\* A running ticker can be stopped: stop and done are its channels, the channel
\* it listens to is stop, and the one it will close is done. A ticker whose
\* channels were forgotten runs for ever and shares the engine with the next.
RunningIsOwned ==
  \A g \in Running :
    /\ stop = g /\ done = g
    /\ ticker[g] # "spawned" => closesDone[g] = g
    /\ ticker[g] \in {"select", "expire", "exit"} => listens[g] = g

\* No channel is closed twice, whoever calls Shutdown again and while another
\* is waiting ("so a second Shutdown cannot panic on a closed channel").
NeverPanics == ~panicked

\* A ticker whose stop was closed exits, and no Shutdown waits for ever.
ShutdownEnds ==
  /\ \A g \in Tickers : (g \in stopClosed) ~> (ticker[g] = "gone")
  /\ \A c \in Closers : (closer[c] = "wait") ~> (closer[c] = "returned")
=============================================================================
