------------------------------ MODULE Subscriber ------------------------------
(***************************************************************************)
(* Collector.RunStream of src/TelemetryClient/internal/collector/          *)
(* subscriber.go: the subscribe-mode core of the telemetry collector.      *)
(*                                                                         *)
(* Two goroutines share the per-table batches.  The stream goroutine runs  *)
(* the reconnect loop; while a stream is open it also runs the response    *)
(* handler, which adds entries and, when a batch is large, drains and      *)
(* posts it itself.  The flusher drains and posts every batch on a ticker  *)
(* and once more when the stream context is done.  The two interleave      *)
(* between any two critical sections of a batch's mutex.                   *)
(*                                                                         *)
(* An entry is an identity: what a transformer puts in it is of no         *)
(* concern here.  A post is one step that succeeds or fails: a dry run     *)
(* always succeeds (it prints), a missing logger always fails.             *)
(***************************************************************************)
EXTENDS Naturals, FiniteSets

CONSTANTS Entry,         \* entries the transformers may ever return
          Table,         \* Azure tables named by the enabled paths
          NPaths,        \* number of enabled paths
          TableOf,       \* TableOf[i]: table of the i-th enabled path
          BatchSize,     \* defaultBatchSize
          InitialDelay,  \* initialReconnectDelay
          MaxDelay,      \* maxReconnectDelay
          TLSEnabled     \* cfg.Target.TLS.Enabled

ASSUME BatchAssumption == /\ NPaths \in Nat \ {0}
                          /\ TableOf \in [1..NPaths -> Table]
                          /\ BatchSize \in Nat \ {0}
                          /\ TLSEnabled \in BOOLEAN

ASSUME DelayAssumption == /\ InitialDelay \in Nat \ {0}
                          /\ MaxDelay \in Nat
                          /\ InitialDelay <= MaxDelay

VARIABLES
  main,            \* where the stream goroutine is
  at,              \* enabled path the handler is routing
  err,             \* what Subscribe returned last
  healthy,         \* updateCount > 0 in this session
  delay,           \* delay of the next backoff
  result,          \* why RunStream returns
  flusher,         \* where the flush goroutine is
  todo,            \* tables this sweep (flushAll) has still to visit
  final,           \* this sweep is the one on streamCtx.Done
  batch,           \* batch[t]: entries waiting for table t
  inflight,        \* inflight[a]: entries goroutine a drained and is posting
  posted, dropped, \* how entries ended
  ctxDone,         \* ctx is cancelled (SIGINT, SIGTERM)
  streamCancelled, \* streamCancel was called
  late,            \* history: entries added after ctx was cancelled
  lastWait,        \* history: delay of the last backoff waited out
  progressed       \* history: a healthy session or a healed client since then

stream  == <<main, at, err, healthy, delay, result, streamCancelled>>
sweep   == <<flusher, todo, final>>
content == <<batch, inflight, posted, dropped, late>>
backoff == <<lastWait, progressed>>
vars    == <<stream, sweep, content, backoff, ctxDone>>

Goroutine == {"stream", "flusher"}
StreamPC  == {"connect", "recv", "route", "check", "drain", "post", "ended",
              "heal", "backoff", "join", "returned"}
FlusherPC == {"select", "sweep", "post", "done"}
StreamErr == {"none", "canceled", "transient", "invalid", "cert"}
Result    == {"none", "cancelled", "idle", "permanent"}

\* streamCtx is a child of ctx.
StreamDone == ctxDone \/ streamCancelled

Batched == UNION {batch[t] : t \in Table}
Posting == UNION {inflight[a] : a \in Goroutine}
Known   == Batched \cup Posting \cup posted \cup dropped

CapAt(n, max) == IF n > max THEN max ELSE n

TypeOK ==
  /\ main \in StreamPC /\ flusher \in FlusherPC
  /\ at \in 1..NPaths + 1 /\ (main \in {"check", "drain", "post"} => at <= NPaths)
  /\ err \in StreamErr /\ result \in Result
  /\ delay \in InitialDelay..MaxDelay /\ lastWait \in 0..MaxDelay
  /\ healthy \in BOOLEAN /\ final \in BOOLEAN /\ progressed \in BOOLEAN
  /\ ctxDone \in BOOLEAN /\ streamCancelled \in BOOLEAN
  /\ todo \subseteq Table
  /\ batch \in [Table -> SUBSET Entry]
  /\ inflight \in [Goroutine -> SUBSET Entry]
  /\ posted \subseteq Entry /\ dropped \subseteq Entry /\ late \subseteq Entry

Init ==
  /\ main = "connect" /\ at = 1 /\ err = "none" /\ healthy = FALSE
  /\ delay = InitialDelay /\ result = "none" /\ streamCancelled = FALSE
  /\ flusher = "select" /\ todo = {} /\ final = FALSE
  /\ batch = [t \in Table |-> {}] /\ inflight = [a \in Goroutine |-> {}]
  /\ posted = {} /\ dropped = {} /\ late = {}
  /\ lastWait = 0 /\ progressed = TRUE
  /\ ctxDone = FALSE

-----------------------------------------------------------------------------
(* The batch: tableBatch.add, tableBatch.drain, and the end of flushBatch. *)

Add(t, E) ==
  /\ batch' = [batch EXCEPT ![t] = @ \cup E]
  /\ late' = IF ctxDone THEN late \cup E ELSE late
  /\ UNCHANGED <<inflight, posted, dropped>>

\* Seeded fault: drain copies the batch and does not clear it.
DrainKeeps(a, t) ==
  /\ inflight' = [inflight EXCEPT ![a] = batch[t]]
  /\ UNCHANGED <<batch, posted, dropped, late>>

Drain(a, t) ==
  /\ inflight' = [inflight EXCEPT ![a] = batch[t]]
  /\ batch' = [batch EXCEPT ![t] = {}]
  /\ UNCHANGED <<posted, dropped, late>>

\* Seeded fault: a failed post puts the entries nowhere.
SettleSilently(a) ==
  /\ inflight' = [inflight EXCEPT ![a] = {}]
  /\ \/ posted' = posted \cup inflight[a]
     \/ UNCHANGED posted
  /\ UNCHANGED <<batch, dropped, late>>

Settle(a) ==
  /\ inflight' = [inflight EXCEPT ![a] = {}]
  /\ \/ posted' = posted \cup inflight[a] /\ UNCHANGED dropped
     \/ dropped' = dropped \cup inflight[a] /\ UNCHANGED posted
  /\ UNCHANGED <<batch, late>>

-----------------------------------------------------------------------------
(* The stream goroutine inside subscribeOnce: Recv and the handler.        *)

\* subscribeOnce starts.  Opening a stream on a context that is already done
\* fails; a stream that cannot be opened for another reason is one that
\* opens and fails before its first response.
Open ==
  /\ main = "connect"
  /\ healthy' = FALSE
  /\ IF StreamDone THEN main' = "ended" /\ err' = "canceled"
                   ELSE main' = "recv" /\ UNCHANGED err
  /\ UNCHANGED <<at, delay, result, streamCancelled, sweep, content, backoff, ctxDone>>

\* Recv returns a response.  One that was received before a cancellation may
\* still be delivered after it.
Receive ==
  /\ main = "recv"
  /\ main' = "route" /\ at' = 1
  /\ UNCHANGED <<err, healthy, delay, result, streamCancelled, sweep, content, backoff, ctxDone>>

\* The response holds nothing for this path, or its transformer fails or
\* returns nothing.
SkipPath ==
  /\ main = "route" /\ at <= NPaths
  /\ at' = at + 1
  /\ UNCHANGED <<main, err, healthy, delay, result, streamCancelled, sweep, content, backoff, ctxDone>>

AddEntries ==
  /\ main = "route" /\ at <= NPaths
  /\ \E E \in (SUBSET (Entry \ Known)) \ {{}} : IsFiniteSet(E) /\ Add(TableOf[at], E)
  /\ healthy' = TRUE /\ progressed' = TRUE
  /\ main' = "check"
  /\ UNCHANGED <<at, err, delay, result, streamCancelled, sweep, lastWait, ctxDone>>

\* Seeded fault: the batch is flushed only when it exceeds the limit.
CheckSizeLate ==
  /\ main = "check"
  /\ IF Cardinality(batch[TableOf[at]]) > BatchSize
     THEN main' = "drain" /\ UNCHANGED at
     ELSE main' = "route" /\ at' = at + 1
  /\ UNCHANGED <<err, healthy, delay, result, streamCancelled, sweep, content, backoff, ctxDone>>

CheckSize ==
  /\ main = "check"
  /\ IF Cardinality(batch[TableOf[at]]) >= BatchSize
     THEN main' = "drain" /\ UNCHANGED at
     ELSE main' = "route" /\ at' = at + 1
  /\ UNCHANGED <<err, healthy, delay, result, streamCancelled, sweep, content, backoff, ctxDone>>

\* The flusher may have drained the batch since its size was read.
HandlerDrain ==
  /\ main = "drain"
  /\ Drain("stream", TableOf[at])
  /\ IF batch[TableOf[at]] # {}
     THEN main' = "post" /\ UNCHANGED at
     ELSE main' = "route" /\ at' = at + 1
  /\ UNCHANGED <<err, healthy, delay, result, streamCancelled, sweep, backoff, ctxDone>>

HandlerPost ==
  /\ main = "post"
  /\ Settle("stream")
  /\ main' = "route" /\ at' = at + 1
  /\ UNCHANGED <<err, healthy, delay, result, streamCancelled, sweep, backoff, ctxDone>>

HandlerReturns ==
  /\ main = "route" /\ at = NPaths + 1
  /\ main' = "recv"
  /\ UNCHANGED <<at, err, healthy, delay, result, streamCancelled, sweep, content, backoff, ctxDone>>

StreamEnds(e) ==
  /\ main = "recv"
  /\ e = "canceled" => StreamDone
  /\ main' = "ended" /\ err' = e
  /\ UNCHANGED <<at, healthy, delay, result, streamCancelled, sweep, content, backoff, ctxDone>>

-----------------------------------------------------------------------------
(* The stream goroutine between two sessions: the reconnect loop.          *)

\* What the loop makes of the end of a session, in the order of its tests.
\* Seeded fault: the loop does not look at ctx first.
ClassifyNoCtx == IF err = "invalid" THEN "permanent"
                 ELSE IF err = "cert" /\ TLSEnabled THEN "heal"
                 ELSE "backoff"

Classify == IF ctxDone THEN "cancelled"
            ELSE IF err = "invalid" THEN "permanent"
            ELSE IF err = "cert" /\ TLSEnabled THEN "heal"
            ELSE "backoff"

\* Seeded fault: the flush goroutine is awaited but not told to stop.
ReturnNoCancel(why) ==
  /\ result' = why
  /\ main' = "join"
  /\ UNCHANGED <<at, err, healthy, delay, streamCancelled, sweep, content, backoff, ctxDone>>

Return(why) ==
  /\ streamCancelled' = TRUE
  /\ result' = why
  /\ main' = "join"
  /\ UNCHANGED <<at, err, healthy, delay, sweep, content, backoff, ctxDone>>

ReturnCancelled == main = "ended" /\ Classify = "cancelled" /\ Return("cancelled")

ReturnPermanent == main = "ended" /\ Classify = "permanent" /\ Return("permanent")

BeginHeal ==
  /\ main = "ended" /\ Classify = "heal"
  /\ main' = "heal"
  /\ UNCHANGED <<at, err, healthy, delay, result, streamCancelled, sweep, content, backoff, ctxDone>>

\* The client was rebuilt (ReplaceClient): connect again without waiting.
HealSucceeds ==
  /\ main = "heal"
  /\ delay' = InitialDelay /\ progressed' = TRUE
  /\ main' = "connect"
  /\ UNCHANGED <<at, err, healthy, result, streamCancelled, sweep, content, lastWait, ctxDone>>

\* Seeded fault: a healthy session does not reset the delay.
BackoffFromNoReset ==
  /\ main' = "backoff" /\ UNCHANGED delay
  /\ UNCHANGED <<at, err, healthy, result, streamCancelled, sweep, content, backoff, ctxDone>>

BackoffFrom ==
  /\ main' = "backoff"
  /\ delay' = IF healthy THEN InitialDelay ELSE delay
  /\ UNCHANGED <<at, err, healthy, result, streamCancelled, sweep, content, backoff, ctxDone>>

HealFails == main = "heal" /\ BackoffFrom

EnterBackoff == main = "ended" /\ Classify = "backoff" /\ BackoffFrom

\* Seeded fault: the doubled delay is not capped.
RetryUncapped ==
  /\ main = "backoff"
  /\ delay' = 2 * delay
  /\ lastWait' = delay /\ progressed' = FALSE
  /\ main' = "connect"
  /\ UNCHANGED <<at, err, healthy, result, streamCancelled, sweep, content, ctxDone>>

Retry ==
  /\ main = "backoff"
  /\ delay' = CapAt(2 * delay, MaxDelay)
  /\ lastWait' = delay /\ progressed' = FALSE
  /\ main' = "connect"
  /\ UNCHANGED <<at, err, healthy, result, streamCancelled, sweep, content, ctxDone>>

BackoffCancelled == main = "backoff" /\ ctxDone /\ Return("idle")

\* Seeded fault: RunStream returns without waiting on flushDone.
JoinNoWait ==
  /\ main = "join"
  /\ main' = "returned"
  /\ UNCHANGED <<at, err, healthy, delay, result, streamCancelled, sweep, content, backoff, ctxDone>>

Join ==
  /\ main = "join" /\ flusher = "done"
  /\ main' = "returned"
  /\ UNCHANGED <<at, err, healthy, delay, result, streamCancelled, sweep, content, backoff, ctxDone>>

-----------------------------------------------------------------------------
(* The flush goroutine.                                                    *)

Tick ==
  /\ flusher = "select"
  /\ flusher' = "sweep" /\ todo' = Table /\ final' = FALSE
  /\ UNCHANGED <<stream, content, backoff, ctxDone>>

\* Seeded fault: the goroutine returns on Done without a last sweep.
SeeDoneNoFlush ==
  /\ flusher = "select" /\ StreamDone
  /\ flusher' = "done" /\ UNCHANGED <<todo, final>>
  /\ UNCHANGED <<stream, content, backoff, ctxDone>>

SeeDone ==
  /\ flusher = "select" /\ StreamDone
  /\ flusher' = "sweep" /\ todo' = Table /\ final' = TRUE
  /\ UNCHANGED <<stream, content, backoff, ctxDone>>

\* flushAll visits the tables in the order of a Go map: any order.
FlusherDrain(t) ==
  /\ flusher = "sweep" /\ t \in todo
  /\ todo' = todo \ {t}
  /\ Drain("flusher", t)
  /\ flusher' = IF batch[t] # {} THEN "post" ELSE "sweep"
  /\ UNCHANGED <<final, stream, backoff, ctxDone>>

FlusherPost ==
  /\ flusher = "post"
  /\ Settle("flusher")
  /\ flusher' = "sweep"
  /\ UNCHANGED <<todo, final, stream, backoff, ctxDone>>

\* Seeded fault: a sweep that was running when the context was cancelled is
\* taken for the last one.
SweepEndsEarly ==
  /\ flusher = "sweep" /\ todo = {}
  /\ flusher' = IF StreamDone THEN "done" ELSE "select"
  /\ UNCHANGED <<todo, final, stream, content, backoff, ctxDone>>

SweepEnds ==
  /\ flusher = "sweep" /\ todo = {}
  /\ flusher' = IF final THEN "done" ELSE "select"
  /\ UNCHANGED <<todo, final, stream, content, backoff, ctxDone>>

-----------------------------------------------------------------------------
\* SIGINT or SIGTERM (main.go).
Cancel ==
  /\ ~ctxDone /\ main # "returned"
  /\ ctxDone' = TRUE
  /\ UNCHANGED <<stream, sweep, content, backoff>>

\* RunStream has returned: nothing more happens.
Stopped == main = "returned" /\ UNCHANGED vars

Handler == SkipPath \/ AddEntries \/ CheckSize \/ HandlerDrain \/ HandlerPost \/ HandlerReturns

Reconnect == \/ Open \/ ReturnCancelled \/ ReturnPermanent \/ BeginHeal \/ HealSucceeds
             \/ HealFails \/ EnterBackoff \/ Retry \/ BackoffCancelled \/ Join

Flusher == Tick \/ SeeDone \/ (\E t \in Table : FlusherDrain(t)) \/ FlusherPost \/ SweepEnds

Next == \/ Handler \/ Reconnect \/ Flusher \/ Receive \/ Cancel \/ Stopped
        \/ \E e \in StreamErr \ {"none"} : StreamEnds(e)

Spec == Init /\ [][Next]_vars

\* Fairness.  Goroutines run, posts and probes end (HTTP and dial time-outs),
\* timers fire.  Nothing obliges the switch to send, or to break the stream.
\* The choice between a ready ticker and a done context is Go's random
\* select, and so is the one between a received message and a done context
\* inside Recv: hence strong fairness for the two that end the session.
Fairness == /\ WF_vars(Handler) /\ WF_vars(Reconnect) /\ WF_vars(Flusher)
            /\ SF_vars(SeeDone) /\ SF_vars(StreamEnds("canceled"))

FairSpec == Spec /\ Fairness

-----------------------------------------------------------------------------
(* Properties.                                                             *)

\* An entry is in one batch, or in one post, or posted, or dropped, never in
\* two of these: the two goroutines never both take an entry, whatever the
\* interleaving of drain and add.
OnePlace ==
  /\ \A t, u \in Table : t # u => batch[t] \cap batch[u] = {}
  /\ inflight["stream"] \cap inflight["flusher"] = {}
  /\ Batched \cap Posting = {}
  /\ (Batched \cup Posting) \cap (posted \cup dropped) = {}
  /\ posted \cap dropped = {}

\* A batch is at its limit only while the handler that filled it is about to
\* drain it: between two responses every batch is below defaultBatchSize,
\* although size and drain are separate critical sections.
BatchBounded ==
  \A t \in Table : Cardinality(batch[t]) >= BatchSize
                     => main \in {"check", "drain"} /\ t = TableOf[at]

\* When RunStream returns the flush goroutine has ended and no post is under
\* way: the caller may exit the process without cutting one short.
QuiescentReturn == main = "returned" => flusher = "done" /\ Posting = {}

\* What was added before the shutdown signal is never left in a batch by a
\* graceful return, even if a periodic sweep was under way at the signal.
EarlyEntriesFlushed == main = "returned" => Batched \subseteq late

\* A return on a configuration error, or on a signal received while waiting
\* to reconnect, leaves nothing in any batch.
IdleReturnFlushesAll ==
  main = "returned" /\ result \in {"idle", "permanent"} => Batched = {}

\* Exponential backoff: without progress since the last wait the next one is
\* twice as long up to the cap, after progress it is the initial one; over
\* any sequence of sessions, cert repairs and failures.
BackoffExponential ==
  main = "backoff" => delay = IF progressed THEN InitialDelay
                                            ELSE CapAt(2 * lastWait, MaxDelay)

\* The comment "Final flush on shutdown" (subscriber.go:119), taken as what it
\* says: a return leaves nothing in the batches.
FinalFlushComplete == main = "returned" => Batched = {}

\* The abstract ledger: buffered is what sits in a batch or in a post.
Ledger == INSTANCE BatchLedger WITH buffered <- Batched \cup Posting

LedgerSpec == Ledger!LedgerSpec

\* After a signal, or once RunStream has decided to return, it does return: the
\* stream goroutine and the flusher do not wait for each other for ever.
ShutdownCompletes == (ctxDone \/ main = "join") ~> main = "returned"

\* An entry buffered while the process is not shutting down is posted or
\* dropped in the end, also when a shutdown begins before that.
EntrySettles ==
  \A e \in Entry : (e \in Batched \cup Posting /\ ~ctxDone) ~> (e \in posted \cup dropped)

\* Every wait ends in a new stream or in a return.
KeepsConnecting == main = "backoff" ~> main \in {"recv", "returned"}
=============================================================================
