------------------------- MODULE ExpiryTickerProofs -------------------------
(***************************************************************************)
(* Theorems about ExpiryTicker, for any number of Shutdowns and restarts.  *)
(***************************************************************************)
EXTENDS ExpiryTicker, TLAPS

\* Only the newest ticker may be running, done is its channel and stop, unless
\* it was cleared, as well; stopped tells whether stop is closed, and done is
\* closed when the ticker is gone (Start, Shutdown).
NewestOnly ==
  /\ done = starts /\ stop \in {Nil, starts}
  /\ stop # Nil => (stopped <=> stop \in stopClosed)
  /\ \A g \in Tickers :
       /\ g < starts => ticker[g] = "gone"
       /\ g = starts => ticker[g] # "none"
       /\ g > starts => ticker[g] = "none" /\ g \notin stopClosed
       /\ g \in doneClosed <=> ticker[g] = "gone"

\* A Shutdown that waits, or is about to clear stop, waits for the newest ticker
\* (no Start runs meanwhile).
WaitsForNewest ==
  \A c \in Closers :
    /\ closer[c] \in {"wait", "clear"} => starts > 0 /\ awaits[c] = starts
    /\ closer[c] = "clear" => ticker[starts] = "gone"

TickerInv == TypeOK /\ NewestOnly /\ WaitsForNewest /\ RunningIsOwned /\ NeverPanics

LEMMA InitInv == Init => TickerInv
<1> SUFFICES ASSUME Init PROVE TickerInv
  OBVIOUS
<1>1. TypeOK
  <2>1. stop \in 0..starts /\ done \in 0..starts /\ starts \in 0..MaxStarts
    BY StartsAssumption DEF Init, Nil
  <2>2. /\ closesDone \in [Tickers -> 0..MaxStarts] /\ listens \in [Tickers -> 0..MaxStarts]
        /\ awaits \in [Closers -> 0..MaxStarts]
    BY StartsAssumption DEF Init, Nil
  <2> QED BY <2>1, <2>2 DEF Init, TypeOK
<1>2. NewestOnly /\ WaitsForNewest
  BY StartsAssumption DEF Init, NewestOnly, WaitsForNewest, Tickers, Nil
<1>3. RunningIsOwned /\ NeverPanics
  BY DEF Init, RunningIsOwned, Running, NeverPanics
<1> QED BY <1>1, <1>2, <1>3 DEF TickerInv

\* A new ticker is made only when no other is running.
LEMMA StartInv ==
  ASSUME ~Overlapping, TickerInv, Start
  PROVE  TickerInv'
<1> USE StartsAssumption
    DEF TickerInv, fields, channels, goroutines, calls
<1>1. /\ starts \in Nat /\ starts + 1 \in Tickers /\ stop = Nil /\ starts' = starts + 1
      /\ stop' = starts + 1 /\ done' = starts + 1 /\ stopped' = FALSE
      /\ ticker' = [ticker EXCEPT ![starts + 1] = "spawned"]
      /\ UNCHANGED <<stopClosed, doneClosed, panicked, closesDone, listens, closer, awaits>>
      /\ \A c \in Closers : closer[c] \in {"new", "returned"}
  BY DEF Start, MayStart, TypeOK, Tickers
<1>2. Running = {}
  BY <1>1 DEF RunningIsOwned, Running, Tickers, Nil
<1>3. TypeOK'
  <2>1. stop' \in 0..starts' /\ done' \in 0..starts' /\ starts' \in 0..MaxStarts
    BY <1>1 DEF Tickers
  <2>2. ticker' \in [Tickers -> {"none", "spawned", "loop", "select", "expire", "exit", "gone"}]
    BY <1>1 DEF TypeOK
  <2> QED BY <1>1, <2>1, <2>2 DEF TypeOK
<1>4. NewestOnly'
  <2>1. \A g \in Tickers : g # starts + 1 => ticker'[g] = ticker[g]
    BY <1>1 DEF TypeOK
  <2>2. ticker'[starts + 1] = "spawned"
    BY <1>1 DEF TypeOK
  <2>3. starts + 1 \notin stopClosed /\ starts + 1 \notin doneClosed
    BY <1>1 DEF NewestOnly, TypeOK
  <2>4. \A g \in Tickers : g < starts + 1 => ticker[g] = "gone"
    <3> SUFFICES ASSUME 0 < starts, starts \in Tickers PROVE ticker[starts] = "gone"
      BY <1>1 DEF NewestOnly, Tickers
    <3> QED BY <1>2 DEF NewestOnly, Running
  <2> QED BY <1>1, <2>1, <2>2, <2>3, <2>4 DEF NewestOnly, Tickers
<1>5. WaitsForNewest' /\ NeverPanics'
  BY <1>1 DEF WaitsForNewest, NeverPanics
<1>6. RunningIsOwned'
  BY <1>1, <1>2 DEF RunningIsOwned, Running, TypeOK, Tickers
<1> QED BY <1>3, <1>4, <1>5, <1>6

\* A ticker reads the channels of its own start, and closes its done once.
LEMMA GoroutineInv ==
  ASSUME TickerInv, NEW g \in Tickers, Goroutine(g) \/ Tick(g) \/ SeesStop(g)
  PROVE  TickerInv'
<1> USE StartsAssumption DEF TickerInv, fields, channels, goroutines, calls, At
<1>1. /\ UNCHANGED <<stop, done, stopped, starts, stopClosed, closer, awaits>>
      /\ g \in Running /\ ticker \in [Tickers -> {"none", "spawned", "loop", "select", "expire", "exit", "gone"}]
      /\ \A h \in Tickers \ {g} : ticker'[h] = ticker[h]
  BY DEF Goroutine, Begin, EnterSelect, Tick, Expired, SeesStop, Exit, Running, TypeOK
<1>2. stop = g /\ done = g /\ g = starts
  BY <1>1 DEF RunningIsOwned, NewestOnly, Nil, Tickers
<1>3. TypeOK'
  <2>1. ticker' \in [Tickers -> {"none", "spawned", "loop", "select", "expire", "exit", "gone"}]
    BY DEF Goroutine, Begin, EnterSelect, Tick, Expired, SeesStop, Exit, TypeOK
  <2>2. /\ closesDone' \in [Tickers -> 0..MaxStarts] /\ listens' \in [Tickers -> 0..MaxStarts]
    <3>1. stop \in 0..MaxStarts /\ done \in 0..MaxStarts
      BY <1>2 DEF Tickers
    <3> QED BY <3>1 DEF Goroutine, Begin, EnterSelect, Tick, Expired, SeesStop, Exit, TypeOK
  <2>3. doneClosed' \subseteq Tickers /\ panicked' \in BOOLEAN
    <3>1. CASE Exit(g)
      <4>1. closesDone[g] = g
        BY <1>1, <3>1 DEF Exit, RunningIsOwned
      <4> QED BY <3>1, <4>1 DEF Exit, TypeOK
    <3>2. CASE ~Exit(g)
      BY <3>2 DEF Goroutine, Begin, EnterSelect, Tick, Expired, SeesStop, TypeOK
    <3> QED BY <3>1, <3>2
  <2> QED BY <1>1, <2>1, <2>2, <2>3 DEF TypeOK
<1>4. RunningIsOwned'
  BY <1>1, <1>2
  DEF Goroutine, Begin, EnterSelect, Tick, Expired, SeesStop, Exit, TypeOK, RunningIsOwned, Running
<1>5. CASE Exit(g)
  <2>1. closesDone[g] = g /\ g \notin doneClosed /\ ticker'[g] = "gone"
    BY <1>1, <1>5 DEF Exit, RunningIsOwned, NewestOnly, Running
  <2>2. doneClosed' = doneClosed \cup {g} /\ ~panicked'
    BY <1>5, <2>1 DEF Exit, NeverPanics
  <2>3. NewestOnly'
    BY <1>1, <1>2, <2>1, <2>2 DEF NewestOnly
  <2>4. WaitsForNewest'
    BY <1>1, <2>1 DEF WaitsForNewest, Tickers, TypeOK
  <2> QED BY <1>3, <1>4, <2>2, <2>3, <2>4 DEF NeverPanics
<1>6. CASE ~Exit(g)
  <2>1. UNCHANGED <<doneClosed, panicked>> /\ ticker'[g] \notin {"none", "gone"}
    BY <1>1, <1>6 DEF Goroutine, Begin, EnterSelect, Tick, Expired, SeesStop
  <2>2. NewestOnly'
    <3>1. g \notin doneClosed
      BY <1>1 DEF NewestOnly, Running
    <3> QED BY <1>1, <1>2, <2>1, <3>1 DEF NewestOnly
  <2>3. WaitsForNewest'
    BY <1>1, <1>2, <2>1 DEF WaitsForNewest, Running
  <2> QED BY <1>1, <1>3, <1>4, <2>1, <2>2, <2>3 DEF NeverPanics
<1> QED BY <1>5, <1>6

\* Whoever comes first closes stop, and it is cleared when its ticker is gone.
LEMMA ShutdownInv ==
  ASSUME TickerInv, NEW c \in Closers, Shutdown(c)
  PROVE  TickerInv'
<1> USE StartsAssumption DEF TickerInv, fields, channels, goroutines, calls, Goto
<1>1. UNCHANGED <<done, starts, doneClosed, ticker, closesDone, listens>>
  BY DEF Shutdown, ShutdownBegin, ShutdownAwaited, ShutdownClears, ShutdownCancelled, ShutdownReturns
<1>2. CASE ShutdownBegin(c)
  <2>1. stop' = stop /\ panicked' = FALSE /\ stopped' \in BOOLEAN /\ stopClosed' \subseteq Tickers
    <3>1. CASE stop # Nil /\ ~stopped
      <4>1. stop \in Tickers
        BY <3>1 DEF TypeOK, Nil, Tickers
      <4> QED
        BY <1>2, <3>1, <4>1 DEF ShutdownBegin, CloseStop, NewestOnly, NeverPanics, TypeOK
    <3>2. CASE ~(stop # Nil /\ ~stopped)
      BY <1>2, <3>2 DEF ShutdownBegin, NeverPanics, TypeOK
    <3> QED BY <3>1, <3>2
  <2>2. /\ stop = Nil => stopClosed' = stopClosed
        /\ stop # Nil => stop = starts /\ stopped' = TRUE /\ stopClosed' = stopClosed \cup {stop}
    BY <1>2 DEF ShutdownBegin, CloseStop, NewestOnly, TypeOK
  <2>3. TypeOK'
    <3>1. closer' \in [Closers -> {"new", "wait", "clear", "drain", "returned"}]
      BY <1>2 DEF ShutdownBegin, TypeOK
    <3>2. awaits' \in [Closers -> 0..MaxStarts]
      BY <1>2 DEF ShutdownBegin, TypeOK
    <3> QED BY <1>1, <2>1, <3>1, <3>2 DEF TypeOK
  <2>4. NewestOnly'
    BY <1>1, <2>1, <2>2 DEF NewestOnly, TypeOK, Tickers
  <2>5. WaitsForNewest'
    BY <1>1, <1>2 DEF ShutdownBegin, WaitsForNewest, NewestOnly, TypeOK, Nil
  <2>6. RunningIsOwned' /\ NeverPanics'
    BY <1>1, <2>1 DEF RunningIsOwned, Running, NeverPanics
  <2> QED BY <2>3, <2>4, <2>5, <2>6
<1>3. CASE ShutdownClears(c)
  <2>1. /\ stop' = Nil /\ UNCHANGED <<stopped, stopClosed, panicked, awaits>>
        /\ closer' = [closer EXCEPT ![c] = "drain"] /\ ticker[starts] = "gone"
    BY <1>3 DEF ShutdownClears, WaitsForNewest
  <2>2. Running = {}
    BY <2>1 DEF NewestOnly, Running, Tickers, TypeOK
  <2>3. TypeOK'
    BY <1>1, <2>1 DEF TypeOK, Nil
  <2>4. NewestOnly' /\ NeverPanics'
    BY <1>1, <2>1 DEF NewestOnly, NeverPanics
  <2>5. WaitsForNewest'
    BY <1>1, <2>1 DEF WaitsForNewest, TypeOK
  <2>6. RunningIsOwned'
    BY <1>1, <2>2 DEF RunningIsOwned, Running
  <2> QED BY <2>3, <2>4, <2>5, <2>6
<1>4. CASE ShutdownAwaited(c) \/ ShutdownCancelled(c) \/ ShutdownReturns(c)
  <2>1. UNCHANGED <<stop, stopped, stopClosed, panicked, awaits>>
    BY <1>4 DEF ShutdownAwaited, ShutdownCancelled, ShutdownReturns
  <2>2. TypeOK'
    BY <1>1, <1>4, <2>1 DEF ShutdownAwaited, ShutdownCancelled, ShutdownReturns, TypeOK
  <2>3. NewestOnly' /\ NeverPanics' /\ RunningIsOwned'
    BY <1>1, <2>1 DEF NewestOnly, NeverPanics, RunningIsOwned, Running
  <2>4. WaitsForNewest'
    BY <1>1, <1>4, <2>1
    DEF ShutdownAwaited, ShutdownCancelled, ShutdownReturns, WaitsForNewest, NewestOnly, TypeOK, Tickers
  <2> QED BY <2>2, <2>3, <2>4
<1> QED BY <1>2, <1>3, <1>4 DEF Shutdown

\* The inductive invariant of the handover, when no Start overlaps a Shutdown.
THEOREM HandoverInvariant ==
  ASSUME ~Overlapping
  PROVE  Spec => []TickerInv
<1>1. ASSUME TickerInv, [Next]_vars
      PROVE  TickerInv'
  <2>1. CASE UNCHANGED vars
    BY <1>1, <2>1
    DEF TickerInv, TypeOK, NewestOnly, WaitsForNewest, RunningIsOwned, Running, NeverPanics, vars, fields,
        channels, goroutines, calls
  <2>2. CASE Next
    BY <1>1, <2>2, StartInv, GoroutineInv, ShutdownInv DEF Next
  <2> QED BY <1>1, <2>1, <2>2
<1> QED BY <1>1, InitInv, PTL DEF Spec

\* However many Shutdowns overlap, give up or are repeated, a running ticker can
\* be stopped and its end waited for.
THEOREM TickersAreOwned ==
  ASSUME ~Overlapping
  PROVE  Spec => []RunningIsOwned
BY HandoverInvariant, PTL DEF TickerInv

\* No Shutdown closes stop a second time, and no ticker the done of another.
THEOREM ChannelsClosedOnce ==
  ASSUME ~Overlapping
  PROVE  Spec => []NeverPanics
BY HandoverInvariant, PTL DEF TickerInv
=============================================================================
