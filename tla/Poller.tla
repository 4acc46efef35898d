-------------------------------- MODULE Poller --------------------------------
(***************************************************************************)
(* The collector process once it is connected (cmd/gnmi-collector/main.go  *)
(* from the choice of the mode on), its collection cycle                   *)
(* (Collector.RunOnce, fetchAndTransform), and the posts of a cycle        *)
(* (azure.Logger.Send with its failover to the secondary key).             *)
(*                                                                         *)
(* Beside the main goroutine there are the ticker, whose channel holds one *)
(* tick, the signal goroutine and the timer that forces the process to     *)
(* exit.  A cycle does not look at the context: a signal and the forced    *)
(* exit may fall between any two of its RPCs and posts.                    *)
(*                                                                         *)
(* The entries of a path in one cycle are one unit, named by the path.  In *)
(* subscribe mode a cycle stands for one flush window of RunStream, which  *)
(* Subscriber.tla models in full.                                          *)
(***************************************************************************)
EXTENDS Naturals, FiniteSets

CONSTANTS NPaths,    \* enabled paths, in the order of the configuration
          Table,     \* Azure tables
          TableOf,   \* TableOf[i]: table of path i
          Settings   \* the ways in which the process may be started

Path == 1..NPaths

\* mode is "once" with the flag -once, else that of the configuration; dryRun
\* is set by its flag, or for want of Azure credentials; output stands for
\* -output; secondary says whether there is a second shared key.
Setting == [mode : {"poll", "subscribe", "once"}, dryRun : BOOLEAN,
            output : BOOLEAN, secondary : BOOLEAN]

ASSUME PollerAssumption == /\ NPaths \in Nat \ {0}
                           /\ TableOf \in [Path -> Table]
                           /\ Settings \subseteq Setting

VARIABLES
  set,       \* how this process was started
  pc,        \* where the main goroutine is
  at,        \* path RunOnce is at
  failed,    \* paths counted as failures of this cycle
  empty,     \* paths that returned nothing in this cycle
  collected, \* paths whose entries are collected
  todo,      \* tables that are still to be sent
  table,     \* table being sent
  key,       \* shared key Send is using
  ingested,  \* ingested[p]: times Azure has stored the entries of p
  handled,   \* paths whose entries were sent, printed or written
  refused,   \* paths whose entries were given up with an error in the log
  tick,      \* the ticker's channel holds a tick
  ctxDone,   \* a signal was received; the exit timer runs
  exit       \* exit status of the process

cycle  == <<at, failed, empty, collected>>
sends  == <<todo, table, key, ingested, handled, refused>>
outer  == <<set, tick, ctxDone, exit>>
vars   == <<pc, cycle, sends, outer>>

PC == {"select", "get", "onceAfterError", "onceAfterEmpty", "transform",
       "send", "post", "report", "exited"}

TypeOK ==
  /\ set \in Settings
  /\ pc \in PC /\ at \in 1..NPaths + 1
  /\ (pc \in {"onceAfterError", "onceAfterEmpty", "transform"} => at <= NPaths)
  /\ failed \subseteq Path /\ empty \subseteq Path /\ collected \subseteq Path
  /\ todo \subseteq Table /\ table \in Table /\ key \in {"primary", "secondary"}
  /\ ingested \in [Path -> Nat]
  /\ handled \subseteq Path /\ refused \subseteq Path
  /\ tick \in BOOLEAN /\ ctxDone \in BOOLEAN
  /\ exit \in {"running", "0", "1", "killed"}

\* The first collection of the poll loop, and the only one of -once, starts
\* at once; RunStream starts by waiting for a batch.
Init ==
  /\ set \in Settings
  /\ pc = IF set.mode = "subscribe" THEN "select" ELSE "get"
  /\ at = 1 /\ failed = {} /\ empty = {} /\ collected = {}
  /\ todo = {} /\ table \in Table /\ key = "primary"
  /\ ingested = [p \in Path |-> 0] /\ handled = {} /\ refused = {}
  /\ tick = FALSE /\ ctxDone = FALSE /\ exit = "running"

\* Where the entries of a cycle go.  RunOnce knows the output directory,
\* flushBatch does not; there is no logger when one is set.
Sink == IF set.dryRun THEN "stdout"
        ELSE IF ~set.output THEN "azure"
        ELSE IF set.mode = "subscribe" THEN "nowhere" ELSE "file"

Fresh == /\ failed' = {} /\ empty' = {} /\ handled' = {} /\ refused' = {}
         /\ ingested' = [p \in Path |-> 0]

-----------------------------------------------------------------------------
(* fetchAndTransform, one RPC at a time.                                   *)

GetReturns(answer) ==
  /\ pc = "get" /\ at <= NPaths
  /\ \/ answer = "error" /\ pc' = "onceAfterError" /\ UNCHANGED cycle
     \/ answer = "blank" /\ pc' = "onceAfterEmpty" /\ UNCHANGED cycle
     \/ answer = "data"  /\ pc' = "transform" /\ UNCHANGED cycle
     \/ answer = "none"  /\ empty' = empty \cup {at} /\ at' = at + 1
                         /\ UNCHANGED <<pc, failed, collected>>
  /\ UNCHANGED <<sends, outer>>

\* Seeded fault: the cycle goes on without counting the failure.
FailUncounted == /\ pc' = "get" /\ at' = at + 1
                 /\ UNCHANGED <<failed, empty, collected>>

Fail == /\ pc' = "get" /\ at' = at + 1 /\ failed' = failed \cup {at}
        /\ UNCHANGED <<empty, collected>>

\* Subscribe ONCE stands in for a Get that failed; blank values are asked
\* for a second time.
OnceAfterError(answer) ==
  /\ pc = "onceAfterError"
  /\ \/ answer \in {"error", "none"} /\ Fail
     \/ answer = "blank" /\ pc' = "onceAfterEmpty" /\ UNCHANGED cycle
     \/ answer = "data"  /\ pc' = "transform" /\ UNCHANGED cycle
  /\ UNCHANGED <<sends, outer>>

\* Whatever it answers, there is something to transform.
OnceAfterEmpty ==
  /\ pc = "onceAfterEmpty"
  /\ pc' = "transform"
  /\ UNCHANGED <<cycle, sends, outer>>

Transform ==
  /\ pc = "transform"
  /\ \/ Fail
     \/ pc' = "get" /\ at' = at + 1 /\ empty' = empty \cup {at}
        /\ UNCHANGED <<failed, collected>>
     \/ pc' = "get" /\ at' = at + 1 /\ collected' = collected \cup {at}
        /\ UNCHANGED <<failed, empty>>
  /\ UNCHANGED <<sends, outer>>

-----------------------------------------------------------------------------
(* RunOnce after the last path, and the flush of a window.                 *)

Of(t) == {p \in collected : TableOf[p] = t}

AllFetched ==
  /\ pc = "get" /\ at = NPaths + 1
  /\ pc' = "send" /\ todo' = {TableOf[p] : p \in collected}
  /\ UNCHANGED <<cycle, table, key, ingested, handled, refused, outer>>

\* The tables are visited in the order of a Go map.
SendTable(t) ==
  /\ pc = "send" /\ t \in todo
  /\ todo' = todo \ {t} /\ table' = t /\ key' = "primary"
  /\ IF Sink = "azure" THEN pc' = "post" /\ UNCHANGED <<handled, refused>>
     ELSE /\ UNCHANGED pc
          /\ \/ Sink # "nowhere" /\ handled' = handled \cup Of(t) /\ UNCHANGED refused
             \/ Sink # "stdout"  /\ refused' = refused \cup Of(t) /\ UNCHANGED handled
  /\ UNCHANGED <<cycle, ingested, outer>>

\* What Azure may have done with a post: an answer of 200 says that it
\* stored the batch, an error or a time-out does not say that it did not.
Stored(t) == ingested' = [p \in Path |-> IF p \in Of(t) THEN ingested[p] + 1 ELSE ingested[p]]

PostSucceeds ==
  /\ pc = "post" /\ Stored(table)
  /\ handled' = handled \cup Of(table) /\ pc' = "send"
  /\ UNCHANGED <<cycle, todo, table, key, refused, outer>>

\* Seeded fault: after a failure on one table the others are not sent.
PostFailsAbort ==
  /\ pc = "post"
  /\ Stored(table) \/ UNCHANGED ingested
  /\ IF set.secondary /\ key = "primary"
     THEN key' = "secondary" /\ UNCHANGED <<pc, refused, todo>>
     ELSE pc' = "send" /\ todo' = {} /\ refused' = refused \cup Of(table) /\ UNCHANGED key
  /\ UNCHANGED <<cycle, table, handled, outer>>

\* Seeded fault: the keys are tried in turn until one is accepted.
PostFailsForever ==
  /\ pc = "post"
  /\ Stored(table) \/ UNCHANGED ingested
  /\ key' = IF set.secondary /\ key = "primary" THEN "secondary" ELSE "primary"
  /\ UNCHANGED <<pc, refused, cycle, todo, table, handled, outer>>

PostFails ==
  /\ pc = "post"
  /\ Stored(table) \/ UNCHANGED ingested
  /\ IF set.secondary /\ key = "primary"
     THEN key' = "secondary" /\ UNCHANGED <<pc, refused>>
     ELSE pc' = "send" /\ refused' = refused \cup Of(table) /\ UNCHANGED key
  /\ UNCHANGED <<cycle, todo, table, handled, outer>>

AllSent ==
  /\ pc = "send" /\ todo = {}
  /\ pc' = "report"
  /\ UNCHANGED <<cycle, sends, outer>>

\* RunOnce returns: -once exits with a status, the poll loop logs an error
\* and waits on.
\* Seeded fault: an error of a cycle ends the poll loop.
ReportFatal ==
  /\ pc = "report"
  /\ IF set.mode = "once" \/ failed # {}
     THEN pc' = "exited" /\ exit' = IF failed = {} THEN "0" ELSE "1"
     ELSE pc' = "select" /\ UNCHANGED exit
  /\ UNCHANGED <<cycle, sends, set, tick, ctxDone>>

Report ==
  /\ pc = "report"
  /\ IF set.mode = "once" THEN pc' = "exited" /\ exit' = IF failed = {} THEN "0" ELSE "1"
                      ELSE pc' = "select" /\ UNCHANGED exit
  /\ UNCHANGED <<cycle, sends, set, tick, ctxDone>>

-----------------------------------------------------------------------------
(* main: the poll loop, the stream, signals.                               *)

TickFires ==
  /\ set.mode = "poll" /\ pc # "exited" /\ ~tick
  /\ tick' = TRUE
  /\ UNCHANGED <<pc, cycle, sends, set, ctxDone, exit>>

NextCycle ==
  /\ set.mode = "poll" /\ pc = "select" /\ tick
  /\ tick' = FALSE /\ pc' = "get" /\ at' = 1 /\ collected' = {} /\ Fresh
  /\ UNCHANGED <<todo, table, key, set, ctxDone, exit>>

\* A flush window of RunStream with entries of the paths P.
NextWindow ==
  /\ set.mode = "subscribe" /\ pc = "select"
  /\ \E P \in (SUBSET Path) \ {{}} : collected' = P /\ todo' = {TableOf[p] : p \in P}
  /\ pc' = "send" /\ Fresh
  /\ UNCHANGED <<at, table, key, outer>>

\* RunStream returns a configuration error: log.Fatalf.
StreamRefused ==
  /\ set.mode = "subscribe" /\ pc = "select"
  /\ pc' = "exited" /\ exit' = "1"
  /\ UNCHANGED <<cycle, sends, set, tick, ctxDone>>

\* Both select loops may take a tick, or a last batch, before they see Done.
\* Seeded fault: the context is also looked at between two tables.
StopInCycle ==
  /\ pc \in {"select", "send"} /\ ctxDone
  /\ pc' = "exited" /\ exit' = "0"
  /\ UNCHANGED <<cycle, sends, set, tick, ctxDone>>

StopOnDone ==
  /\ pc = "select" /\ ctxDone
  /\ pc' = "exited" /\ exit' = "0"
  /\ UNCHANGED <<cycle, sends, set, tick, ctxDone>>

\* The signal is caught, except by -once, which installs no handler.
Signal ==
  /\ pc # "exited" /\ ~ctxDone
  /\ ctxDone' = TRUE
  /\ IF set.mode = "once" THEN pc' = "exited" /\ exit' = "killed" ELSE UNCHANGED <<pc, exit>>
  /\ UNCHANGED <<cycle, sends, set, tick>>

\* Seeded fault: the timer is stopped by a cycle that is under way.
ForceExitIdle ==
  /\ pc = "select" /\ ctxDone
  /\ pc' = "exited" /\ exit' = "1"
  /\ UNCHANGED <<cycle, sends, set, tick, ctxDone>>

ForceExit ==
  /\ pc # "exited" /\ ctxDone
  /\ pc' = "exited" /\ exit' = "1"
  /\ UNCHANGED <<cycle, sends, set, tick, ctxDone>>

Exited == pc = "exited" /\ UNCHANGED vars

Answer == {"error", "none", "blank", "data"}

Fetch == \/ OnceAfterEmpty \/ Transform
         \/ \E a \in Answer : GetReturns(a) \/ OnceAfterError(a)
Sends == \/ AllFetched \/ (\E t \in Table : SendTable(t))
         \/ PostSucceeds \/ PostFails \/ AllSent \/ Report
Loop  == NextCycle \/ NextWindow \/ StreamRefused \/ StopOnDone

Next == Fetch \/ Sends \/ Loop \/ TickFires \/ Signal \/ ForceExit \/ Exited

Spec == Init /\ [][Next]_vars

\* Fairness.  Every RPC of a cycle has a time-out (Collection.Timeout), every
\* post has one (30 s), the ticker ticks.  Only the exit timer is assumed for
\* the shutdown: in subscribe mode a Recv may block for long.
PollFairness == WF_vars(Fetch) /\ WF_vars(Sends) /\ WF_vars(NextCycle) /\ WF_vars(TickFires)
ExitFairness == WF_vars(ForceExit)

FairSpec == Spec /\ PollFairness /\ ExitFairness

-----------------------------------------------------------------------------
(* Properties.                                                             *)

\* At the end of a cycle every path is accounted for exactly once (failed,
\* empty, or collected) and the entries of every collected path were handed
\* over or refused with an error of their own: no failure of a path or of a
\* table takes the entries of another with it.
CycleAccounted ==
  pc = "report" =>
    /\ collected = handled \cup refused /\ handled \cap refused = {}
    /\ set.mode # "subscribe" => /\ failed \cup empty \cup collected = Path
                             /\ failed \cap empty = {}
                             /\ (failed \cup empty) \cap collected = {}

\* Entries are stored at most once per shared key in a cycle, and what Send
\* reports as sent was stored.
StoredPerKey ==
  /\ \A p \in Path : ingested[p] <= IF set.secondary THEN 2 ELSE 1
  /\ Sink = "azure" => \A p \in handled : ingested[p] >= 1

\* -once exits with 0 only if every enabled path answered and was transformed.
OnceStatus == exit = "0" /\ set.mode = "once" => collected \cup empty = Path

\* A graceful exit (status 0) never cuts a cycle short: what was collected
\* has been handed over or refused.
GracefulExitComplete == exit = "0" => collected = handled \cup refused

\* A signal ends the process, wherever it is and whatever it waits for.
ExitsAfterSignal == ctxDone ~> pc = "exited"

\* Collections go on for as long as there is no signal, whatever fails.
KeepsPolling == set.mode = "poll" => []<>(ctxDone \/ (pc = "get" /\ at = 1))
=============================================================================
