--------------------------- MODULE SubscriberProofs ---------------------------
(***************************************************************************)
(* Theorems about Subscriber, for every set of entries and tables, every   *)
(* assignment of paths to tables, batch limit and pair of delays allowed   *)
(* by BatchAssumption and DelayAssumption.                                 *)
(***************************************************************************)
EXTENDS Subscriber, FiniteSetTheorems, TLAPS

\* One step of the specification, action by action: the case split that every
\* invariance proof below starts from.
LEMMA StepCases ==
  ASSUME Next
  PROVE  \/ Open \/ Receive \/ SkipPath \/ AddEntries \/ CheckSize
         \/ HandlerDrain \/ HandlerPost \/ HandlerReturns
         \/ \E e \in StreamErr \ {"none"} : StreamEnds(e)
         \/ ReturnCancelled \/ ReturnPermanent \/ BeginHeal \/ HealSucceeds
         \/ HealFails \/ EnterBackoff \/ Retry \/ BackoffCancelled \/ Join
         \/ Tick \/ SeeDone \/ (\E t \in Table : FlusherDrain(t))
         \/ FlusherPost \/ SweepEnds \/ Cancel \/ UNCHANGED vars
BY DEF Next, Handler, Reconnect, Flusher, Stopped

\* Doubling and capping a delay that is in range leaves it in range.
LEMMA CapInRange ==
  ASSUME NEW d \in InitialDelay..MaxDelay
  PROVE  CapAt(2 * d, MaxDelay) \in InitialDelay..MaxDelay
BY DelayAssumption DEF CapAt

\* The four operations on the batches keep the types of what they touch.
LEMMA AddType ==
  ASSUME TypeOK, NEW t \in Table, NEW E \in SUBSET Entry, Add(t, E)
  PROVE  /\ batch' \in [Table -> SUBSET Entry]
         /\ inflight' \in [Goroutine -> SUBSET Entry]
         /\ posted' \subseteq Entry /\ dropped' \subseteq Entry /\ late' \subseteq Entry
BY DEF TypeOK, Add

\* A drain keeps the types.
LEMMA DrainType ==
  ASSUME TypeOK, NEW a \in Goroutine, NEW t \in Table, Drain(a, t)
  PROVE  /\ batch' \in [Table -> SUBSET Entry]
         /\ inflight' \in [Goroutine -> SUBSET Entry]
         /\ posted' \subseteq Entry /\ dropped' \subseteq Entry /\ late' \subseteq Entry
BY DEF TypeOK, Drain

\* The end of a post keeps the types.
LEMMA SettleType ==
  ASSUME TypeOK, NEW a \in Goroutine, Settle(a)
  PROVE  /\ batch' \in [Table -> SUBSET Entry]
         /\ inflight' \in [Goroutine -> SUBSET Entry]
         /\ posted' \subseteq Entry /\ dropped' \subseteq Entry /\ late' \subseteq Entry
BY DEF TypeOK, Settle

\* RunStream starts with well-typed variables.
LEMMA InitType == Init => TypeOK
<1> SUFFICES ASSUME Init PROVE TypeOK
  OBVIOUS
<1>1. at \in 1..NPaths + 1 /\ main \notin {"check", "drain", "post"}
  BY BatchAssumption DEF Init
<1>2. delay \in InitialDelay..MaxDelay /\ lastWait \in 0..MaxDelay
  BY DelayAssumption DEF Init
<1>3. /\ batch \in [Table -> SUBSET Entry]
      /\ inflight \in [Goroutine -> SUBSET Entry]
  BY DEF Init
<1>4. QED
  BY <1>1, <1>2, <1>3 DEF Init, TypeOK, StreamPC, FlusherPC, StreamErr, Result

\* Every step keeps the types: in particular the delay stays within its range
\* and the path index within the enabled paths where the batch is looked up.
LEMMA StepType == TypeOK /\ [Next]_vars => TypeOK'
<1> SUFFICES ASSUME TypeOK, [Next]_vars PROVE TypeOK'
  OBVIOUS
<1> USE BatchAssumption
        DEF TypeOK, StreamPC, FlusherPC, StreamErr, Result,
            stream, sweep, content, backoff
<1>1. ASSUME UNCHANGED vars PROVE TypeOK'
  BY <1>1 DEF vars
<1>2. ASSUME Open PROVE TypeOK'
  BY <1>2 DEF Open
<1>3. ASSUME Receive PROVE TypeOK'
  BY <1>3 DEF Receive
<1>4. ASSUME SkipPath PROVE TypeOK'
  BY <1>4 DEF SkipPath
<1>5. ASSUME AddEntries PROVE TypeOK'
  <2>1. /\ batch' \in [Table -> SUBSET Entry]
        /\ inflight' \in [Goroutine -> SUBSET Entry]
        /\ posted' \subseteq Entry /\ dropped' \subseteq Entry /\ late' \subseteq Entry
    BY <1>5, AddType DEF AddEntries
  <2>2. QED BY <1>5, <2>1 DEF AddEntries
<1>6. ASSUME CheckSize PROVE TypeOK'
  BY <1>6 DEF CheckSize
<1>7. ASSUME HandlerDrain PROVE TypeOK'
  <2>1. /\ batch' \in [Table -> SUBSET Entry]
        /\ inflight' \in [Goroutine -> SUBSET Entry]
        /\ posted' \subseteq Entry /\ dropped' \subseteq Entry /\ late' \subseteq Entry
    BY <1>7, DrainType DEF HandlerDrain, Goroutine
  <2>2. QED BY <1>7, <2>1 DEF HandlerDrain
<1>8. ASSUME HandlerPost PROVE TypeOK'
  <2>1. /\ batch' \in [Table -> SUBSET Entry]
        /\ inflight' \in [Goroutine -> SUBSET Entry]
        /\ posted' \subseteq Entry /\ dropped' \subseteq Entry /\ late' \subseteq Entry
    BY <1>8, SettleType DEF HandlerPost, Goroutine
  <2>2. QED BY <1>8, <2>1 DEF HandlerPost
<1>9. ASSUME HandlerReturns PROVE TypeOK'
  BY <1>9 DEF HandlerReturns
<1>10. ASSUME NEW e \in StreamErr \ {"none"}, StreamEnds(e) PROVE TypeOK'
  BY <1>10 DEF StreamEnds
<1>11. ASSUME ReturnCancelled \/ ReturnPermanent \/ BackoffCancelled PROVE TypeOK'
  BY <1>11 DEF ReturnCancelled, ReturnPermanent, BackoffCancelled, Return
<1>12. ASSUME BeginHeal \/ HealSucceeds PROVE TypeOK'
  <2>1. CASE BeginHeal
    BY <2>1 DEF BeginHeal
  <2>2. CASE HealSucceeds
    <3>1. delay' \in InitialDelay..MaxDelay
      BY <2>2, DelayAssumption DEF HealSucceeds
    <3>2. QED BY <2>2, <3>1 DEF HealSucceeds
  <2>3. QED BY <1>12, <2>1, <2>2
<1>13. ASSUME HealFails \/ EnterBackoff PROVE TypeOK'
  BY <1>13, DelayAssumption DEF HealFails, EnterBackoff, BackoffFrom
<1>14. ASSUME Retry PROVE TypeOK'
  <2>1. delay' \in InitialDelay..MaxDelay /\ lastWait' \in 0..MaxDelay
    BY <1>14, CapInRange, DelayAssumption DEF Retry
  <2>2. QED BY <1>14, <2>1 DEF Retry
<1>15. ASSUME Join \/ Tick \/ SeeDone \/ SweepEnds \/ Cancel PROVE TypeOK'
  <2>1. CASE Join
    BY <2>1 DEF Join
  <2>2. CASE Cancel
    BY <2>2 DEF Cancel
  <2>3. CASE Tick
    <3>1. flusher' \in FlusherPC /\ final' \in BOOLEAN /\ todo' \subseteq Table
      BY <2>3 DEF Tick
    <3>2. QED BY <2>3, <3>1 DEF Tick
  <2>4. CASE SeeDone
    BY <2>4 DEF SeeDone
  <2>5. CASE SweepEnds
    BY <2>5 DEF SweepEnds
  <2>6. QED BY <1>15, <2>1, <2>2, <2>3, <2>4, <2>5
<1>16. ASSUME NEW t \in Table, FlusherDrain(t) PROVE TypeOK'
  <2>1. /\ batch' \in [Table -> SUBSET Entry]
        /\ inflight' \in [Goroutine -> SUBSET Entry]
        /\ posted' \subseteq Entry /\ dropped' \subseteq Entry /\ late' \subseteq Entry
    BY <1>16, DrainType DEF FlusherDrain, Goroutine
  <2>2. QED BY <1>16, <2>1 DEF FlusherDrain
<1>17. ASSUME FlusherPost PROVE TypeOK'
  <2>1. /\ batch' \in [Table -> SUBSET Entry]
        /\ inflight' \in [Goroutine -> SUBSET Entry]
        /\ posted' \subseteq Entry /\ dropped' \subseteq Entry /\ late' \subseteq Entry
    BY <1>17, SettleType DEF FlusherPost, Goroutine
  <2>2. QED BY <1>17, <2>1 DEF FlusherPost
<1>18. QED
  BY <1>1, <1>2, <1>3, <1>4, <1>5, <1>6, <1>7, <1>8, <1>9, <1>10, <1>11,
     <1>12, <1>13, <1>14, <1>15, <1>16, <1>17, StepCases

\* Every variable of the collector's stream loop keeps its type.
THEOREM TypeCorrect == Spec => []TypeOK
<1>1. QED BY InitType, StepType, PTL DEF Spec

-----------------------------------------------------------------------------
(* Where entries are: OnePlace and the refinement of BatchLedger.          *)

\* A goroutine holds drained entries only while it is posting.
PostingPC == /\ main # "post" => inflight["stream"] = {}
             /\ flusher # "post" => inflight["flusher"] = {}

\* What the three operations on the batches do to the two unions.
LEMMA AddEffect ==
  ASSUME TypeOK, NEW t \in Table, NEW E \in SUBSET Entry, Add(t, E)
  PROVE  Batched' = Batched \cup E /\ Posting' = Posting
<1>1. \A u \in Table : batch'[u] = IF u = t THEN batch[u] \cup E ELSE batch[u]
  BY DEF TypeOK, Add
<1>2. Batched' = Batched \cup E
  BY <1>1 DEF Batched
<1>3. QED BY <1>2 DEF Posting, Add

\* A drain moves one batch, whole, into the post of the goroutine that drains.
LEMMA DrainEffect ==
  ASSUME TypeOK, OnePlace, NEW a \in Goroutine, NEW t \in Table,
         inflight[a] = {}, Drain(a, t)
  PROVE  Batched' = Batched \ batch[t] /\ Posting' = Posting \cup batch[t]
<1>1. \A u \in Table : batch'[u] = IF u = t THEN {} ELSE batch[u]
  BY DEF TypeOK, Drain
<1>2. \A b \in Goroutine : inflight'[b] = IF b = a THEN batch[t] ELSE inflight[b]
  BY DEF TypeOK, Drain
<1>3. Batched' = Batched \ batch[t]
  BY <1>1 DEF Batched, OnePlace
<1>4. Posting' = Posting \cup batch[t]
  BY <1>2 DEF Posting
<1>5. QED BY <1>3, <1>4

\* The end of a post takes the entries out of flight.
LEMMA SettleEffect ==
  ASSUME TypeOK, OnePlace, NEW a \in Goroutine, Settle(a)
  PROVE  Batched' = Batched /\ Posting' = Posting \ inflight[a]
<1>1. \A b \in Goroutine : inflight'[b] = IF b = a THEN {} ELSE inflight[b]
  BY DEF TypeOK, Settle
<1>2. \A b \in Goroutine : b # a => inflight[b] \cap inflight[a] = {}
  BY DEF OnePlace, Goroutine
<1>3. Posting' = Posting \ inflight[a]
  BY <1>1, <1>2 DEF Posting
<1>4. QED BY <1>3 DEF Settle, Batched

\* The same operations keep every entry in one place.
LEMMA AddKeepsPlace ==
  ASSUME TypeOK, OnePlace, NEW t \in Table, NEW E \in SUBSET (Entry \ Known), Add(t, E)
  PROVE  OnePlace'
<1>1. \A u \in Table : batch'[u] = IF u = t THEN batch[u] \cup E ELSE batch[u]
  BY DEF TypeOK, Add
<1>2. Batched' = Batched \cup E /\ Posting' = Posting
  BY AddEffect
<1>3. \A u, v \in Table : u # v => batch'[u] \cap batch'[v] = {}
  <2>1. \A u \in Table : batch[u] \cap E = {}
    BY DEF Known, Batched
  <2>2. QED BY <1>1, <2>1 DEF OnePlace
<1>4. E \cap (Batched \cup Posting \cup posted \cup dropped) = {}
  BY DEF Known
<1>5. inflight' = inflight /\ posted' = posted /\ dropped' = dropped
  BY DEF Add
<1>6. QED BY <1>2, <1>3, <1>4, <1>5 DEF OnePlace

\* A drain by a goroutine that holds nothing keeps every entry in one place.
LEMMA DrainKeepsPlace ==
  ASSUME TypeOK, OnePlace, NEW a \in Goroutine, NEW t \in Table,
         inflight[a] = {}, Drain(a, t)
  PROVE  OnePlace'
<1>1. \A u \in Table : batch'[u] = IF u = t THEN {} ELSE batch[u]
  BY DEF TypeOK, Drain
<1>2. Batched' = Batched \ batch[t] /\ Posting' = Posting \cup batch[t]
  BY DrainEffect
<1>3. \A u, v \in Table : u # v => batch'[u] \cap batch'[v] = {}
  BY <1>1 DEF OnePlace
<1>4. batch[t] \subseteq Batched
  BY DEF Batched
<1>5. inflight'["stream"] \cap inflight'["flusher"] = {}
  <2>1. \A b \in Goroutine : inflight'[b] = IF b = a THEN batch[t] ELSE inflight[b]
    BY DEF TypeOK, Drain
  <2>2. \A b \in Goroutine : inflight[b] \cap batch[t] = {}
    BY <1>4 DEF OnePlace, Posting
  <2>3. QED BY <2>1, <2>2 DEF Goroutine
<1>6. posted' = posted /\ dropped' = dropped
  BY DEF Drain
<1>7. QED BY <1>2, <1>3, <1>4, <1>5, <1>6 DEF OnePlace

\* The end of a post keeps every entry in one place.
LEMMA SettleKeepsPlace ==
  ASSUME TypeOK, OnePlace, NEW a \in Goroutine, Settle(a)
  PROVE  OnePlace'
<1>1. Batched' = Batched /\ Posting' = Posting \ inflight[a]
  BY SettleEffect
<1>2. inflight[a] \subseteq Posting
  BY DEF Posting
<1>3. inflight'["stream"] \cap inflight'["flusher"] = {}
  BY DEF TypeOK, Settle, Goroutine, OnePlace
<1>4. /\ batch' = batch
      /\ \/ posted' = posted \cup inflight[a] /\ dropped' = dropped
         \/ dropped' = dropped \cup inflight[a] /\ posted' = posted
  BY DEF Settle
<1>5. QED BY <1>1, <1>2, <1>3, <1>4 DEF OnePlace

PlaceInv == TypeOK /\ OnePlace /\ PostingPC

\* RunStream starts with no entry anywhere.
LEMMA InitPlace == Init => OnePlace /\ PostingPC
BY DEF Init, OnePlace, PostingPC, Batched, Posting, Goroutine

\* Every step keeps every entry in one place, and a goroutine holds drained
\* entries only while it posts them.
LEMMA StepPlace == PlaceInv /\ [Next]_vars => (OnePlace /\ PostingPC)'
<1> SUFFICES ASSUME PlaceInv, [Next]_vars PROVE OnePlace' /\ PostingPC'
  OBVIOUS
<1> USE DEF PlaceInv
<1>1. ASSUME AddEntries PROVE OnePlace' /\ PostingPC'
  <2>1. TableOf[at] \in Table
    BY <1>1, BatchAssumption DEF AddEntries, TypeOK
  <2>2. PICK E \in SUBSET (Entry \ Known) : Add(TableOf[at], E)
    BY <1>1 DEF AddEntries
  <2>3. OnePlace'
    BY <2>1, <2>2, AddKeepsPlace
  <2>4. QED BY <1>1, <2>2, <2>3 DEF AddEntries, PostingPC, Add, sweep
<1>2. ASSUME HandlerDrain PROVE OnePlace' /\ PostingPC'
  <2>1. TableOf[at] \in Table
    BY <1>2, BatchAssumption DEF HandlerDrain, TypeOK
  <2>2. inflight["stream"] = {} /\ Drain("stream", TableOf[at])
    BY <1>2 DEF HandlerDrain, PostingPC
  <2>3. OnePlace'
    BY <2>1, <2>2, DrainKeepsPlace DEF Goroutine
  <2>4. PostingPC'
    BY <1>2, <2>2 DEF HandlerDrain, PostingPC, Drain, TypeOK, Goroutine, sweep
  <2>5. QED BY <2>3, <2>4
<1>3. ASSUME NEW t \in Table, FlusherDrain(t) PROVE OnePlace' /\ PostingPC'
  <2>1. inflight["flusher"] = {} /\ Drain("flusher", t)
    BY <1>3 DEF FlusherDrain, PostingPC
  <2>2. OnePlace'
    BY <2>1, DrainKeepsPlace DEF Goroutine
  <2>3. PostingPC'
    BY <1>3, <2>1 DEF FlusherDrain, PostingPC, Drain, TypeOK, Goroutine, stream
  <2>4. QED BY <2>2, <2>3
<1>4. ASSUME HandlerPost PROVE OnePlace' /\ PostingPC'
  <2>1. OnePlace'
    BY <1>4, SettleKeepsPlace DEF HandlerPost, Goroutine
  <2>2. PostingPC'
    BY <1>4 DEF HandlerPost, PostingPC, Settle, TypeOK, Goroutine, sweep
  <2>3. QED BY <2>1, <2>2
<1>5. ASSUME FlusherPost PROVE OnePlace' /\ PostingPC'
  <2>1. OnePlace'
    BY <1>5, SettleKeepsPlace DEF FlusherPost, Goroutine
  <2>2. PostingPC'
    BY <1>5 DEF FlusherPost, PostingPC, Settle, TypeOK, Goroutine, stream
  <2>3. QED BY <2>1, <2>2
\* Every other step leaves the entries where they are.
<1>6. ASSUME UNCHANGED content,
             main # "post" \/ main' = main, flusher # "post" \/ flusher' = flusher
      PROVE  OnePlace' /\ PostingPC'
  BY <1>6 DEF content, OnePlace, PostingPC, Batched, Posting
<1>7. ASSUME Open \/ Receive \/ SkipPath \/ CheckSize \/ HandlerReturns
             \/ \E e \in StreamErr \ {"none"} : StreamEnds(e)
      PROVE  OnePlace' /\ PostingPC'
  BY <1>7, <1>6
     DEF Open, Receive, SkipPath, CheckSize, HandlerReturns, StreamEnds, sweep
<1>8. ASSUME \/ ReturnCancelled \/ ReturnPermanent \/ BeginHeal \/ HealSucceeds
             \/ HealFails \/ EnterBackoff \/ Retry \/ BackoffCancelled \/ Join
      PROVE  OnePlace' /\ PostingPC'
  BY <1>8, <1>6
     DEF ReturnCancelled, ReturnPermanent, BackoffCancelled, Return, BeginHeal,
         HealSucceeds, HealFails, EnterBackoff, BackoffFrom, Retry, Join, sweep
<1>9. ASSUME Tick \/ SeeDone \/ SweepEnds \/ Cancel \/ UNCHANGED vars
      PROVE  OnePlace' /\ PostingPC'
  BY <1>9, <1>6 DEF Tick, SeeDone, SweepEnds, Cancel, vars, stream, sweep
<1>10. QED
  BY <1>1, <1>2, <1>3, <1>4, <1>5, <1>7, <1>8, <1>9, StepCases

\* The inductive invariant about the whereabouts of entries.
THEOREM PlaceInvariant == Spec => []PlaceInv
<1>1. Init => PlaceInv
  BY InitType, InitPlace DEF PlaceInv
<1>2. PlaceInv /\ [Next]_vars => PlaceInv'
  BY StepType, StepPlace DEF PlaceInv
<1>3. QED BY <1>1, <1>2, PTL DEF Spec

\* The two goroutines never both take an entry: at any time it is in one
\* batch, in one post, posted or dropped, never in two of these.
THEOREM EveryEntryInOnePlace == Spec => []OnePlace
<1>1. PlaceInv => OnePlace
  BY DEF PlaceInv
<1>2. QED BY <1>1, PlaceInvariant, PTL

-----------------------------------------------------------------------------
(* Subscriber implements BatchLedger.                                      *)

\* The initial state is an initial state of the ledger.
LEMMA InitLedger == Init => Ledger!LInit
BY DEF Init, Ledger!LInit, Batched, Posting

\* A drain moves entries inside the buffer: the ledger does not move.
LEMMA DrainStutters ==
  ASSUME PlaceInv, NEW a \in Goroutine, NEW t \in Table,
         inflight[a] = {}, Drain(a, t)
  PROVE  UNCHANGED Ledger!ledger
<1>1. Batched' = Batched \ batch[t] /\ Posting' = Posting \cup batch[t]
  BY DrainEffect DEF PlaceInv
<1>2. batch[t] \subseteq Batched
  BY DEF Batched
<1>3. QED BY <1>1, <1>2 DEF Ledger!ledger, Drain

\* The end of a post is a Post or a Drop of the ledger, or nothing if the
\* goroutine held nothing.
LEMMA SettleImplements ==
  ASSUME PlaceInv, NEW a \in Goroutine, Settle(a)
  PROVE  Ledger!LNext \/ UNCHANGED Ledger!ledger
<1> DEFINE E == inflight[a]
<1>1. Batched' = Batched /\ Posting' = Posting \ E
  BY SettleEffect DEF PlaceInv
<1>2. E \in SUBSET Entry /\ E \subseteq Posting /\ E \cap Batched = {}
  BY DEF PlaceInv, TypeOK, Posting, OnePlace
<1>3. (Batched \cup Posting)' = (Batched \cup Posting) \ E
  BY <1>1, <1>2
<1>4. CASE E = {}
  BY <1>3, <1>4 DEF Settle, Ledger!ledger
<1>5. CASE E # {}
  <2>1. Ledger!Post(E) \/ Ledger!Drop(E)
    BY <1>2, <1>3, <1>5 DEF Settle, Ledger!Post, Ledger!Drop
  <2>2. QED BY <1>2, <2>1 DEF Ledger!LNext
<1>6. QED BY <1>4, <1>5

\* Every step is a step of the ledger or leaves it alone.
LEMMA StepLedger ==
  PlaceInv /\ [Next]_vars => [Ledger!LNext]_(Ledger!ledger)
<1> SUFFICES ASSUME PlaceInv, [Next]_vars
             PROVE  Ledger!LNext \/ UNCHANGED Ledger!ledger
  OBVIOUS
<1>1. ASSUME AddEntries PROVE Ledger!LNext
  <2>1. PICK E \in (SUBSET (Entry \ Known)) \ {{}} : Add(TableOf[at], E)
    BY <1>1 DEF AddEntries
  <2>2. TableOf[at] \in Table
    BY <1>1, BatchAssumption DEF AddEntries, PlaceInv, TypeOK
  <2>3. Batched' = Batched \cup E /\ Posting' = Posting
    BY <2>1, <2>2, AddEffect DEF PlaceInv
  <2>4. Ledger!Accept(E)
    <3>1. E # {} /\ E \cap (Batched \cup Posting \cup posted \cup dropped) = {}
      BY <2>1 DEF Known
    <3>2. posted' = posted /\ dropped' = dropped
      BY <2>1 DEF Add
    <3>3. (Batched \cup Posting)' = (Batched \cup Posting) \cup E
      BY <2>3
    <3>4. QED BY <3>1, <3>2, <3>3 DEF Ledger!Accept, Ledger!Known
  <2>5. QED BY <2>1, <2>4 DEF Ledger!LNext
<1>2. ASSUME HandlerDrain PROVE UNCHANGED Ledger!ledger
  <2>1. TableOf[at] \in Table
    BY <1>2, BatchAssumption DEF HandlerDrain, PlaceInv, TypeOK
  <2>2. QED
    BY <1>2, <2>1, DrainStutters DEF HandlerDrain, PlaceInv, PostingPC, Goroutine
<1>3. ASSUME NEW t \in Table, FlusherDrain(t) PROVE UNCHANGED Ledger!ledger
  BY <1>3, DrainStutters DEF FlusherDrain, PlaceInv, PostingPC, Goroutine
<1>4. ASSUME HandlerPost \/ FlusherPost
      PROVE  Ledger!LNext \/ UNCHANGED Ledger!ledger
  BY <1>4, SettleImplements DEF HandlerPost, FlusherPost, Goroutine
<1>5. ASSUME UNCHANGED content PROVE UNCHANGED Ledger!ledger
  BY <1>5 DEF content, Ledger!ledger, Batched, Posting
<1>6. ASSUME Open \/ Receive \/ SkipPath \/ CheckSize \/ HandlerReturns
             \/ \E e \in StreamErr \ {"none"} : StreamEnds(e)
      PROVE  UNCHANGED Ledger!ledger
  BY <1>6, <1>5 DEF Open, Receive, SkipPath, CheckSize, HandlerReturns, StreamEnds
<1>7. ASSUME \/ ReturnCancelled \/ ReturnPermanent \/ BeginHeal \/ HealSucceeds
             \/ HealFails \/ EnterBackoff \/ Retry \/ BackoffCancelled \/ Join
      PROVE  UNCHANGED Ledger!ledger
  BY <1>7, <1>5
     DEF ReturnCancelled, ReturnPermanent, BackoffCancelled, Return, BeginHeal,
         HealSucceeds, HealFails, EnterBackoff, BackoffFrom, Retry, Join
<1>8. ASSUME Tick \/ SeeDone \/ SweepEnds \/ Cancel \/ UNCHANGED vars
      PROVE  UNCHANGED Ledger!ledger
  BY <1>8, <1>5 DEF Tick, SeeDone, SweepEnds, Cancel, vars
<1>9. QED
  BY <1>1, <1>2, <1>3, <1>4, <1>6, <1>7, <1>8, StepCases

\* The batching code, with its two goroutines, refines the ledger: whatever
\* the interleaving, an entry that was added is buffered until it is posted
\* or dropped, once.
THEOREM ImplementsLedger == Spec => LedgerSpec
<1>1. QED
  BY InitLedger, StepLedger, PlaceInvariant, PTL
     DEF Spec, LedgerSpec, Ledger!LedgerSpec

-----------------------------------------------------------------------------
(* Shutdown: what a return leaves behind.                                  *)

\* A return is decided once, and streamCancel is called by it and only by it.
ReturnDecided == (streamCancelled <=> main \in {"join", "returned"})

\* The history variable says what it should, and where nothing can have been
\* added since the context was last seen alive it is empty.
LateInv == /\ ~ctxDone => late = {}
           /\ main \in {"connect", "heal", "backoff"} => late = {}
           /\ result \in {"idle", "permanent"} => late = {} /\ streamCancelled

\* The tables the last sweep has visited hold only late entries.
SweptInv == /\ final /\ flusher \in {"sweep", "post"}
                 => StreamDone /\ \A t \in Table \ todo : batch[t] \subseteq late
            /\ flusher = "done"
                 => StreamDone /\ \A t \in Table : batch[t] \subseteq late

ShutdownInv == /\ PlaceInv /\ ReturnDecided /\ LateInv /\ SweptInv
               /\ main = "returned" => flusher = "done"

\* The shutdown facts hold before any signal.
LEMMA InitShutdown == Init => ReturnDecided /\ LateInv /\ SweptInv /\ main # "returned"
BY DEF Init, ReturnDecided, LateInv, SweptInv

\* Every step keeps the shutdown facts: the reason of a return, what is late,
\* and what the last sweep has emptied.
LEMMA StepShutdown ==
  ShutdownInv /\ [Next]_vars
    => (ReturnDecided /\ LateInv /\ SweptInv /\ (main = "returned" => flusher = "done"))'
<1> DEFINE Goal == ReturnDecided /\ LateInv /\ SweptInv
                   /\ (main = "returned" => flusher = "done")
<1> SUFFICES ASSUME ShutdownInv, [Next]_vars PROVE Goal'
  OBVIOUS
<1> USE DEF ShutdownInv, ReturnDecided, LateInv, SweptInv, StreamDone,
            stream, sweep, content
<1>1. ASSUME AddEntries PROVE Goal'
  <2>1. TableOf[at] \in Table
    BY <1>1, BatchAssumption DEF AddEntries, PlaceInv, TypeOK
  <2>2. PICK E \in SUBSET (Entry \ Known) : Add(TableOf[at], E)
    BY <1>1 DEF AddEntries
  <2>3. /\ late' = IF ctxDone THEN late \cup E ELSE late
        /\ \A u \in Table : batch'[u] = IF u = TableOf[at] THEN batch[u] \cup E ELSE batch[u]
    BY <2>1, <2>2 DEF Add, PlaceInv, TypeOK
  <2>4. UNCHANGED <<ctxDone, streamCancelled, result, sweep>> /\ main = "route" /\ main' = "check"
    BY <1>1 DEF AddEntries
  <2>5. ReturnDecided' /\ LateInv'
    BY <2>3, <2>4
  <2>6. SweptInv'
    BY <2>3, <2>4
  <2>7. QED BY <2>4, <2>5, <2>6
<1>2. ASSUME HandlerDrain PROVE Goal'
  <2>1. late' = late /\ \A u \in Table : batch'[u] \subseteq batch[u]
    BY <1>2 DEF HandlerDrain, Drain, PlaceInv, TypeOK
  <2>2. UNCHANGED <<ctxDone, streamCancelled, result, sweep>>
        /\ main = "drain" /\ main' \in {"post", "route"}
    BY <1>2 DEF HandlerDrain
  <2>3. QED BY <2>1, <2>2
<1>3. ASSUME NEW t \in Table, FlusherDrain(t) PROVE Goal'
  <2>1. late' = late /\ \A u \in Table : batch'[u] = IF u = t THEN {} ELSE batch[u]
    BY <1>3 DEF FlusherDrain, Drain, PlaceInv, TypeOK
  <2>2. /\ UNCHANGED <<ctxDone, stream, final>>
        /\ flusher = "sweep" /\ flusher' \in {"post", "sweep"} /\ todo' = todo \ {t}
    BY <1>3 DEF FlusherDrain
  <2>3. QED BY <2>1, <2>2
<1>4. ASSUME HandlerPost \/ FlusherPost PROVE Goal'
  BY <1>4 DEF HandlerPost, FlusherPost, Settle
<1>5. ASSUME Open \/ Receive \/ SkipPath \/ CheckSize \/ HandlerReturns
             \/ \E e \in StreamErr \ {"none"} : StreamEnds(e)
      PROVE  Goal'
  BY <1>5 DEF Open, Receive, SkipPath, CheckSize, HandlerReturns, StreamEnds
<1>6. ASSUME ReturnCancelled \/ ReturnPermanent \/ BackoffCancelled PROVE Goal'
  BY <1>6 DEF ReturnCancelled, ReturnPermanent, BackoffCancelled, Return, Classify
<1>7. ASSUME BeginHeal \/ HealSucceeds \/ HealFails \/ EnterBackoff \/ Retry
      PROVE  Goal'
  BY <1>7 DEF BeginHeal, HealSucceeds, HealFails, EnterBackoff, BackoffFrom,
              Retry, Classify
<1>8. ASSUME Join \/ Cancel \/ UNCHANGED vars PROVE Goal'
  BY <1>8 DEF Join, Cancel, vars
<1>9. ASSUME Tick \/ SeeDone \/ SweepEnds PROVE Goal'
  BY <1>9 DEF Tick, SeeDone, SweepEnds, PlaceInv, TypeOK
<1>10. QED
  BY <1>1, <1>2, <1>3, <1>4, <1>5, <1>6, <1>7, <1>8, <1>9, StepCases

\* The inductive invariant of the shutdown.
THEOREM ShutdownInvariant == Spec => []ShutdownInv
<1>1. Init => ShutdownInv
  BY InitType, InitPlace, InitShutdown DEF ShutdownInv, PlaceInv
<1>2. ShutdownInv /\ [Next]_vars => ShutdownInv'
  BY StepType, StepPlace, StepShutdown DEF ShutdownInv, PlaceInv
<1>3. QED BY <1>1, <1>2, PTL DEF Spec

\* When RunStream returns the flusher has ended and no post is under way.
THEOREM ReturnIsQuiescent == Spec => []QuiescentReturn
<1>1. ShutdownInv => QuiescentReturn
  BY DEF ShutdownInv, PlaceInv, PostingPC, QuiescentReturn, Posting, Goroutine
<1>2. QED BY <1>1, ShutdownInvariant, PTL

\* A graceful return leaves in the batches only what was added after the
\* signal.
THEOREM ReturnFlushesEarlyEntries == Spec => []EarlyEntriesFlushed
<1>1. ShutdownInv => EarlyEntriesFlushed
  BY DEF ShutdownInv, SweptInv, EarlyEntriesFlushed, Batched
<1>2. QED BY <1>1, ShutdownInvariant, PTL

\* A return on a configuration error or out of a backoff leaves nothing.
THEOREM IdleReturnFlushes == Spec => []IdleReturnFlushesAll
<1>1. ShutdownInv => IdleReturnFlushesAll
  BY DEF ShutdownInv, SweptInv, LateInv, IdleReturnFlushesAll, Batched
<1>2. QED BY <1>1, ShutdownInvariant, PTL

-----------------------------------------------------------------------------
(* The size of a batch.                                                    *)

\* An empty batch is below the limit.
LEMMA EmptyBelowLimit == ~(Cardinality({}) >= BatchSize)
BY FS_EmptySet, BatchAssumption

\* Every step keeps the batches below the limit, or about to be drained.
LEMMA StepBounded == TypeOK /\ BatchBounded /\ [Next]_vars => BatchBounded'
<1> SUFFICES ASSUME TypeOK, BatchBounded, [Next]_vars PROVE BatchBounded'
  OBVIOUS
<1> USE DEF BatchBounded
<1>1. ASSUME AddEntries PROVE BatchBounded'
  <2>1. /\ main' = "check" /\ at' = at /\ main = "route"
        /\ \A u \in Table : u # TableOf[at] => batch'[u] = batch[u]
    BY <1>1 DEF AddEntries, Add, TypeOK
  <2>2. QED BY <2>1
\* The limit is tested where it can be reached.
<1>2. ASSUME CheckSize PROVE BatchBounded'
  <2>1. batch' = batch
    BY <1>2 DEF CheckSize, content
  <2>2. CASE Cardinality(batch[TableOf[at]]) >= BatchSize
    BY <1>2, <2>1, <2>2 DEF CheckSize
  <2>3. CASE ~(Cardinality(batch[TableOf[at]]) >= BatchSize)
    BY <1>2, <2>1, <2>3 DEF CheckSize
  <2>4. QED BY <2>2, <2>3
<1>3. ASSUME HandlerDrain PROVE BatchBounded'
  <2>1. \A u \in Table : batch'[u] = IF u = TableOf[at] THEN {} ELSE batch[u]
    BY <1>3 DEF HandlerDrain, Drain, TypeOK
  <2>2. QED BY <2>1, EmptyBelowLimit
<1>4. ASSUME NEW t \in Table, FlusherDrain(t) PROVE BatchBounded'
  <2>1. \A u \in Table : batch'[u] = IF u = t THEN {} ELSE batch[u]
    BY <1>4 DEF FlusherDrain, Drain, TypeOK
  <2>2. main' = main /\ at' = at
    BY <1>4 DEF FlusherDrain, stream
  <2>3. QED BY <2>1, <2>2, EmptyBelowLimit
<1>5. ASSUME UNCHANGED batch, main \notin {"check", "drain"} \/ UNCHANGED <<main, at>>
      PROVE  BatchBounded'
  BY <1>5
<1>6. ASSUME Open \/ Receive \/ SkipPath \/ HandlerReturns \/ HandlerPost
             \/ \E e \in StreamErr \ {"none"} : StreamEnds(e)
      PROVE  BatchBounded'
  BY <1>6, <1>5
     DEF Open, Receive, SkipPath, HandlerReturns, HandlerPost, Settle, StreamEnds, content
<1>7. ASSUME \/ ReturnCancelled \/ ReturnPermanent \/ BeginHeal \/ HealSucceeds
             \/ HealFails \/ EnterBackoff \/ Retry \/ BackoffCancelled \/ Join
      PROVE  BatchBounded'
  BY <1>7, <1>5
     DEF ReturnCancelled, ReturnPermanent, BackoffCancelled, Return, BeginHeal,
         HealSucceeds, HealFails, EnterBackoff, BackoffFrom, Retry, Join, content
<1>8. ASSUME Tick \/ SeeDone \/ SweepEnds \/ FlusherPost \/ Cancel \/ UNCHANGED vars
      PROVE  BatchBounded'
  BY <1>8, <1>5 DEF Tick, SeeDone, SweepEnds, FlusherPost, Settle, Cancel, vars,
                    stream, content
<1>9. QED
  BY <1>1, <1>2, <1>3, <1>4, <1>6, <1>7, <1>8, StepCases

\* Between two responses every batch is below defaultBatchSize, although its
\* size and its content are read in separate critical sections.
THEOREM BatchesBounded == Spec => []BatchBounded
<1>1. Init => BatchBounded
  BY EmptyBelowLimit DEF Init, BatchBounded
<1>2. TypeOK /\ BatchBounded /\ [Next]_vars => BatchBounded'
  BY StepBounded
<1>3. QED BY <1>1, <1>2, TypeCorrect, PTL DEF Spec

-----------------------------------------------------------------------------
(* The reconnect delay.                                                    *)

\* Progress of this session shows in the history, and the delay is what the
\* history says it should be wherever a backoff can be entered from.
DelayInv == /\ main # "connect" /\ healthy => progressed
            /\ ~progressed => delay = CapAt(2 * lastWait, MaxDelay)
            /\ progressed /\ (main \in {"connect", "backoff"} \/ ~healthy)
                 => delay = InitialDelay

\* Every step keeps the relation between the delay and the last wait.
LEMMA StepDelay == TypeOK /\ DelayInv /\ [Next]_vars => DelayInv'
<1> SUFFICES ASSUME TypeOK, DelayInv, [Next]_vars PROVE DelayInv'
  OBVIOUS
<1> USE DEF DelayInv, backoff
<1>1. ASSUME Open PROVE DelayInv'
  BY <1>1 DEF Open
<1>2. ASSUME AddEntries PROVE DelayInv'
  BY <1>2 DEF AddEntries
<1>3. ASSUME Receive \/ SkipPath \/ CheckSize \/ HandlerDrain \/ HandlerPost
             \/ HandlerReturns \/ \E e \in StreamErr \ {"none"} : StreamEnds(e)
      PROVE  DelayInv'
  BY <1>3 DEF Receive, SkipPath, CheckSize, HandlerDrain, HandlerPost,
              HandlerReturns, StreamEnds
<1>4. ASSUME ReturnCancelled \/ ReturnPermanent \/ BackoffCancelled \/ BeginHeal \/ Join
      PROVE  DelayInv'
  BY <1>4 DEF ReturnCancelled, ReturnPermanent, BackoffCancelled, Return, BeginHeal, Join
<1>5. ASSUME HealFails \/ EnterBackoff PROVE DelayInv'
  BY <1>5 DEF HealFails, EnterBackoff, BackoffFrom
<1>6. ASSUME HealSucceeds PROVE DelayInv'
  BY <1>6 DEF HealSucceeds
<1>7. ASSUME Retry PROVE DelayInv'
  BY <1>7 DEF Retry
<1>8. ASSUME Tick \/ SeeDone \/ (\E t \in Table : FlusherDrain(t)) \/ FlusherPost
             \/ SweepEnds \/ Cancel \/ UNCHANGED vars
      PROVE  DelayInv'
  BY <1>8 DEF Tick, SeeDone, FlusherDrain, FlusherPost, SweepEnds, Cancel, vars, stream
<1>9. QED
  BY <1>1, <1>2, <1>3, <1>4, <1>5, <1>6, <1>7, <1>8, StepCases

\* The wait before a reconnect doubles up to the cap unless there was progress
\* since the last one, for every pair of initial and maximal delays.
THEOREM BackoffIsExponential == Spec => []BackoffExponential
<1>1. Init => DelayInv
  BY DEF Init, DelayInv
<1>2. TypeOK /\ DelayInv /\ [Next]_vars => DelayInv'
  BY StepDelay
<1>3. DelayInv => BackoffExponential
  BY DEF DelayInv, BackoffExponential
<1>4. QED BY <1>1, <1>2, <1>3, TypeCorrect, PTL DEF Spec
=============================================================================
