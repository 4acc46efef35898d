----------------------------- MODULE CollectorProofs -----------------------------
(***************************************************************************)
(* Theorems about the two models of internal/collector/collector.go:       *)
(*  - Poller, for any number of paths, every set of tables, every          *)
(*    assignment of paths to tables and every way to start the process;    *)
(*  - Merge, for every set of sources and windows of any length: where     *)
(*    each data type is of one kind (OneKind), comparing the first two     *)
(*    entries of a group is as good as comparing all of them.              *)
(***************************************************************************)
EXTENDS Poller, Merge, TLAPS

\* One step of the process, action by action: the case split that every
\* invariance proof below starts from.
LEMMA PollStepCases ==
  ASSUME Next
  PROVE  \/ \E a \in Answer : GetReturns(a) \/ OnceAfterError(a)
         \/ OnceAfterEmpty \/ Transform
         \/ AllFetched \/ (\E t \in Table : SendTable(t))
         \/ PostSucceeds \/ PostFails \/ AllSent \/ Report
         \/ NextCycle \/ NextWindow \/ StreamRefused \/ StopOnDone
         \/ TickFires \/ Signal \/ ForceExit \/ UNCHANGED vars
BY DEF Next, Fetch, Sends, Loop, Exited

-----------------------------------------------------------------------------
(* Types.                                                                  *)

\* The process starts with well-typed variables.
LEMMA InitPollType == Init => TypeOK
<1> SUFFICES ASSUME Init PROVE TypeOK
  OBVIOUS
<1>1. 1 \in 1..NPaths + 1 /\ ingested \in [Path -> Nat]
  BY PollerAssumption DEF Init
<1>2. QED BY <1>1 DEF Init, TypeOK, PC

\* A post counts the paths of its table once more, and no other.
LEMMA StoredEffect ==
  ASSUME TypeOK, NEW t, Stored(t)
  PROVE  /\ ingested' \in [Path -> Nat]
         /\ \A p \in Path : ingested'[p] = IF p \in Of(t) THEN ingested[p] + 1 ELSE ingested[p]
BY DEF TypeOK, Stored

\* Every step keeps the types: the index stays within the paths where one is
\* asked for.
LEMMA StepPollType == TypeOK /\ [Next]_vars => TypeOK'
<1> SUFFICES ASSUME TypeOK, [Next]_vars PROVE TypeOK'
  OBVIOUS
<1>0. /\ 1 \in 1..NPaths + 1
      /\ at <= NPaths => at \in Path /\ at + 1 \in 1..NPaths + 1
  BY PollerAssumption DEF TypeOK, Path
<1> USE <1>0 DEF TypeOK, PC, cycle, sends, outer
<1>1. CASE UNCHANGED vars
  BY <1>1 DEF vars
<1>2. ASSUME NEW a \in Answer, GetReturns(a) PROVE TypeOK'
  <2>1. at \in Path /\ at' \in 1..NPaths + 1 /\ pc' \in PC
    BY <1>2 DEF GetReturns
  <2>2. failed' \subseteq Path /\ empty' \subseteq Path /\ collected' \subseteq Path
    BY <1>2, <2>1 DEF GetReturns
  <2>3. pc' \in {"onceAfterError", "onceAfterEmpty", "transform"} => at' <= NPaths
    BY <1>2 DEF GetReturns
  <2>4. QED BY <1>2, <2>1, <2>2, <2>3 DEF GetReturns
<1>3. ASSUME NEW a \in Answer, OnceAfterError(a) PROVE TypeOK'
  BY <1>3 DEF OnceAfterError, Fail
<1>4. CASE OnceAfterEmpty
  BY <1>4 DEF OnceAfterEmpty
<1>5. CASE Transform
  BY <1>5 DEF Transform, Fail
<1>6. CASE AllFetched
  BY <1>6, PollerAssumption DEF AllFetched
<1>7. ASSUME NEW t \in Table, SendTable(t) PROVE TypeOK'
  BY <1>7 DEF SendTable, Of, Path
<1>8. CASE PostSucceeds
  BY <1>8, StoredEffect DEF PostSucceeds, Of, Path
<1>9. CASE PostFails
  BY <1>9, StoredEffect DEF PostFails, Of, Path
<1>10. CASE AllSent
  BY <1>10 DEF AllSent
<1>11. CASE Report
  BY <1>11 DEF Report
<1>12. CASE NextCycle
  <2>1. ingested' \in [Path -> Nat]
    BY <1>12 DEF NextCycle, Fresh
  <2>2. QED BY <1>12, <2>1 DEF NextCycle, Fresh
<1>13. CASE NextWindow
  <2>1. ingested' \in [Path -> Nat] /\ collected' \subseteq Path
    BY <1>13 DEF NextWindow, Fresh
  <2>2. todo' \subseteq Table
    BY <1>13, PollerAssumption DEF NextWindow
  <2>3. QED BY <1>13, <2>1, <2>2 DEF NextWindow, Fresh
<1>14. CASE StreamRefused
  BY <1>14 DEF StreamRefused
<1>15. CASE StopOnDone
  BY <1>15 DEF StopOnDone
<1>16. CASE TickFires
  BY <1>16 DEF TickFires
<1>17. CASE Signal
  BY <1>17 DEF Signal
<1>18. CASE ForceExit
  BY <1>18 DEF ForceExit
<1>19. QED
  BY <1>1, <1>2, <1>3, <1>4, <1>5, <1>6, <1>7, <1>8, <1>9, <1>10, <1>11, <1>12,
     <1>13, <1>14, <1>15, <1>16, <1>17, <1>18, PollStepCases

\* The types of Poller hold in every reachable state.
THEOREM PollTypeCorrect == Spec => []TypeOK
<1>1. QED BY InitPollType, StepPollType, PTL DEF Spec

-----------------------------------------------------------------------------
(* What becomes of the paths of a cycle.                                   *)

Getting == {"get", "onceAfterError", "onceAfterEmpty", "transform"}

\* The paths RunOnce has passed are failed, empty or collected, one of them;
\* -once succeeds when none has failed.
FetchInv ==
  /\ set.mode = "subscribe" => pc \notin Getting
  /\ set.mode = "once" => pc # "select"
  /\ pc \in Getting => failed \cup empty \cup collected = 1..at - 1
  /\ set.mode # "subscribe" =>
       /\ pc \in {"send", "post", "report"} => failed \cup empty \cup collected = Path
       /\ failed \cap empty = {} /\ (failed \cup empty) \cap collected = {}
  /\ exit = "0" => pc = "exited" /\ (set.mode = "once" => collected \cup empty = Path)

\* The process starts before the first path.
LEMMA InitFetch == Init => FetchInv
BY PollerAssumption DEF Init, FetchInv, Getting, Setting

\* Every step keeps FetchInv.
LEMMA StepFetch == TypeOK /\ FetchInv /\ [Next]_vars => FetchInv'
<1> SUFFICES ASSUME TypeOK, FetchInv, [Next]_vars PROVE FetchInv'
  OBVIOUS
<1> USE PollerAssumption DEF TypeOK, FetchInv, Getting, Path, cycle, sends, outer
<1>1. CASE UNCHANGED vars
  BY <1>1 DEF vars
<1>2. ASSUME NEW a \in Answer, GetReturns(a) PROVE FetchInv'
  BY <1>2 DEF GetReturns
<1>3. ASSUME NEW a \in Answer, OnceAfterError(a) PROVE FetchInv'
  BY <1>3 DEF OnceAfterError, Fail
<1>4. CASE OnceAfterEmpty
  BY <1>4 DEF OnceAfterEmpty
<1>5. CASE Transform
  BY <1>5 DEF Transform, Fail
<1>6. CASE AllFetched
  BY <1>6 DEF AllFetched
<1>7. ASSUME NEW t \in Table, SendTable(t) PROVE FetchInv'
  BY <1>7 DEF SendTable
<1>8. CASE PostSucceeds
  BY <1>8 DEF PostSucceeds
<1>9. CASE PostFails
  BY <1>9 DEF PostFails
<1>10. CASE AllSent
  BY <1>10 DEF AllSent
<1>11. CASE Report
  BY <1>11 DEF Report
<1>12. CASE NextCycle
  BY <1>12 DEF NextCycle, Fresh
<1>13. CASE NextWindow
  BY <1>13 DEF NextWindow, Fresh
<1>14. CASE StreamRefused
  BY <1>14 DEF StreamRefused
<1>15. CASE StopOnDone
  BY <1>15 DEF StopOnDone
<1>16. CASE TickFires
  BY <1>16 DEF TickFires
<1>17. CASE Signal
  BY <1>17 DEF Signal
<1>18. CASE ForceExit
  BY <1>18 DEF ForceExit
<1>19. QED
  BY <1>1, <1>2, <1>3, <1>4, <1>5, <1>6, <1>7, <1>8, <1>9, <1>10, <1>11, <1>12,
     <1>13, <1>14, <1>15, <1>16, <1>17, <1>18, PollStepCases

\* While a cycle is sent, the entries of a collected path are given away when
\* its table has left the list of tables and its post has ended, to one side
\* only.  A process that exits gracefully has given everything away.
SendInv ==
  /\ handled \cap refused = {} /\ handled \cup refused \subseteq collected
  /\ pc \in Getting => handled = {} /\ refused = {}
  /\ pc \in {"send", "post"} => \A p \in collected :
       p \in handled \cup refused <=> TableOf[p] \notin todo /\ (pc = "post" => TableOf[p] # table)
  /\ pc = "post" => table \notin todo /\ Sink = "azure"
  /\ pc \in {"report", "select"} \/ exit = "0" => collected = handled \cup refused
  /\ pc = "exited" <=> exit # "running"

\* The process starts with nothing to send.
LEMMA InitSend == Init => SendInv
BY DEF Init, SendInv, Getting

\* Every step keeps SendInv.
LEMMA StepSend == TypeOK /\ SendInv /\ [Next]_vars => SendInv'
<1> SUFFICES ASSUME TypeOK, SendInv, [Next]_vars PROVE SendInv'
  OBVIOUS
<1> USE DEF TypeOK, SendInv, Getting, Sink, cycle, sends, outer
<1>1. CASE UNCHANGED vars
  BY <1>1 DEF vars
<1>2. ASSUME NEW a \in Answer, GetReturns(a) PROVE SendInv'
  BY <1>2 DEF GetReturns
<1>3. ASSUME NEW a \in Answer, OnceAfterError(a) PROVE SendInv'
  BY <1>3 DEF OnceAfterError, Fail
<1>4. CASE OnceAfterEmpty
  BY <1>4 DEF OnceAfterEmpty
<1>5. CASE Transform
  BY <1>5 DEF Transform, Fail
<1>6. CASE AllFetched
  BY <1>6 DEF AllFetched
<1>7. ASSUME NEW t \in Table, SendTable(t) PROVE SendInv'
  BY <1>7 DEF SendTable, Of
<1>8. CASE PostSucceeds
  BY <1>8 DEF PostSucceeds, Of
<1>9. CASE PostFails
  BY <1>9 DEF PostFails, Of
<1>10. CASE AllSent
  BY <1>10 DEF AllSent
<1>11. CASE Report
  BY <1>11 DEF Report
<1>12. CASE NextCycle
  BY <1>12 DEF NextCycle, Fresh
<1>13. CASE NextWindow
  BY <1>13 DEF NextWindow, Fresh
<1>14. CASE StreamRefused
  BY <1>14 DEF StreamRefused
<1>15. CASE StopOnDone
  BY <1>15 DEF StopOnDone
<1>16. CASE TickFires
  BY <1>16 DEF TickFires
<1>17. CASE Signal
  BY <1>17 DEF Signal
<1>18. CASE ForceExit
  BY <1>18 DEF ForceExit
<1>19. QED
  BY <1>1, <1>2, <1>3, <1>4, <1>5, <1>6, <1>7, <1>8, <1>9, <1>10, <1>11, <1>12,
     <1>13, <1>14, <1>15, <1>16, <1>17, <1>18, PollStepCases

-----------------------------------------------------------------------------
(* How often Azure stores an entry.                                        *)

\* The entries of a path are stored only once their table is posted, and then
\* once with each key at most.
StoreInv ==
  /\ \A p \in Path :
       /\ ingested[p] <= IF set.secondary THEN 2 ELSE 1
       /\ p \notin handled \cup refused /\ pc # "exited" /\ (pc = "post" => p \notin Of(table)) =>
            ingested[p] = 0
       /\ pc = "post" /\ p \in Of(table) => ingested[p] <= IF key = "primary" THEN 0 ELSE 1
       /\ Sink = "azure" /\ p \in handled => ingested[p] >= 1
  /\ pc = "post" /\ key = "secondary" => set.secondary

\* The process starts with nothing stored.
LEMMA InitStore == Init => StoreInv
BY DEF Init, StoreInv

\* Every step keeps StoreInv: a post follows the one before it only with the
\* other key.
LEMMA StepStore == TypeOK /\ SendInv /\ StoreInv /\ [Next]_vars => StoreInv'
<1> SUFFICES ASSUME TypeOK, SendInv, StoreInv, [Next]_vars PROVE StoreInv'
  OBVIOUS
<1> USE DEF TypeOK, SendInv, StoreInv, Getting, Sink, Of, cycle, sends, outer
<1>1. CASE UNCHANGED vars
  BY <1>1 DEF vars
<1>2. ASSUME NEW a \in Answer, GetReturns(a) PROVE StoreInv'
  BY <1>2 DEF GetReturns
<1>3. ASSUME NEW a \in Answer, OnceAfterError(a) PROVE StoreInv'
  BY <1>3 DEF OnceAfterError, Fail
<1>4. CASE OnceAfterEmpty
  BY <1>4 DEF OnceAfterEmpty
<1>5. CASE Transform
  BY <1>5 DEF Transform, Fail
<1>6. CASE AllFetched
  BY <1>6 DEF AllFetched
<1>7. ASSUME NEW t \in Table, SendTable(t) PROVE StoreInv'
  BY <1>7 DEF SendTable, Of
<1>8. CASE PostSucceeds
  BY <1>8, StoredEffect DEF PostSucceeds, Of
<1>9. CASE PostFails
  BY <1>9, StoredEffect DEF PostFails, Of
<1>10. CASE AllSent
  BY <1>10 DEF AllSent
<1>11. CASE Report
  BY <1>11 DEF Report
<1>12. CASE NextCycle
  BY <1>12 DEF NextCycle, Fresh
<1>13. CASE NextWindow
  BY <1>13 DEF NextWindow, Fresh
<1>14. CASE StreamRefused
  BY <1>14 DEF StreamRefused
<1>15. CASE StopOnDone
  BY <1>15 DEF StopOnDone
<1>16. CASE TickFires
  BY <1>16 DEF TickFires
<1>17. CASE Signal
  BY <1>17 DEF Signal
<1>18. CASE ForceExit
  BY <1>18 DEF ForceExit
<1>19. QED
  BY <1>1, <1>2, <1>3, <1>4, <1>5, <1>6, <1>7, <1>8, <1>9, <1>10, <1>11, <1>12,
     <1>13, <1>14, <1>15, <1>16, <1>17, <1>18, PollStepCases

-----------------------------------------------------------------------------
(* The properties.                                                         *)

\* Together.
PollInv == TypeOK /\ FetchInv /\ SendInv /\ StoreInv

\* The conjunction holds in every reachable state.
THEOREM PollInvariant == Spec => []PollInv
<1>1. QED
  BY InitPollType, StepPollType, InitFetch, StepFetch, InitSend, StepSend, InitStore, StepStore,
     PTL DEF Spec, PollInv

\* Every path of a cycle is accounted for, and no failure takes the entries of
\* another path or table with it, for any number of paths and tables.
THEOREM CyclesAccounted == Spec => []CycleAccounted
<1>1. PollInv => CycleAccounted
  BY DEF PollInv, FetchInv, SendInv, CycleAccounted
<1>2. QED BY <1>1, PollInvariant, PTL

\* No entry is stored twice with one key, and what was reported as sent was
\* stored.
THEOREM EntriesStoredPerKey == Spec => []StoredPerKey
<1>1. PollInv => StoredPerKey
  <2> SUFFICES ASSUME PollInv PROVE StoredPerKey
    OBVIOUS
  <2>1. handled \subseteq Path
    BY DEF PollInv, TypeOK
  <2>2. QED BY <2>1 DEF PollInv, StoreInv, StoredPerKey
<1>2. QED BY <1>1, PollInvariant, PTL

\* A graceful exit has given away all that was collected.
THEOREM GracefulExitIsComplete == Spec => []GracefulExitComplete
<1>1. PollInv => GracefulExitComplete
  BY DEF PollInv, SendInv, GracefulExitComplete
<1>2. QED BY <1>1, PollInvariant, PTL

\* -once succeeds only if every path did.
THEOREM OnceStatusHonest == Spec => []OnceStatus
<1>1. PollInv => OnceStatus
  BY DEF PollInv, FetchInv, OnceStatus
<1>2. QED BY <1>1, PollInvariant, PTL

-----------------------------------------------------------------------------
(* Merge: entries and data types.                                          *)

DataTypes == {TypeOf[s] : s \in Source}
Entries   == {Entry(s, n) : s \in Source, n \in Nat}

-----------------------------------------------------------------------------
(* The loop that groups.                                                   *)

Grouping == [order : Seq(DataTypes), of : UNION {[T -> Seq(Entries)] : T \in SUBSET DataTypes}]

\* After k entries: a group per data type seen, with its entries and no others.
GroupsRight(base, s, k, g) ==
  /\ g \in Grouping
  /\ \A t \in DataTypes : t \in ToSet(g.order) <=> t \in DOMAIN g.of
  /\ \A t \in DOMAIN g.of : /\ g.of[t] # <<>>
                            /\ \A e \in ToSet(g.of[t]) : e.type = t /\ \E i \in 1..k : s[i] = e
  /\ \A i \in 1..k : s[i].type \in DOMAIN g.of /\ s[i] \in ToSet(g.of[s[i].type])

GroupLoop == INSTANCE Loops WITH Op <- AddEntry, Inv <- GroupsRight

\* An entry behind a group.
LEMMA AppendElements ==
  ASSUME NEW S, NEW s \in Seq(S), NEW e \in S
  PROVE  /\ Append(s, e) \in Seq(S) /\ Append(s, e) # <<>>
         /\ \A x : x \in ToSet(Append(s, e)) <=> x \in ToSet(s) \/ x = e
<1> DEFINE q == Append(s, e)
<1>1. /\ q \in Seq(S) /\ DOMAIN q = DOMAIN s \cup {Len(s) + 1}
      /\ q[Len(s) + 1] = e /\ \A i \in DOMAIN s : q[i] = s[i]
  OBVIOUS
<1> HIDE DEF q
<1>2. q # <<>>
  BY <1>1
<1>3. QED BY <1>1, <1>2 DEF ToSet, q

\* h is g with e added to the group of its data type.
Added(g, e, h) ==
  /\ h \in Grouping /\ e.type \in DataTypes
  /\ DOMAIN h.of = DOMAIN g.of \cup {e.type} /\ DOMAIN g.of \subseteq DataTypes
  /\ \A u \in DOMAIN g.of : u # e.type => h.of[u] = g.of[u]
  /\ h.of[e.type] # <<>>
  /\ \A x : x \in ToSet(h.of[e.type])
              <=> x = e \/ (e.type \in DOMAIN g.of /\ x \in ToSet(g.of[e.type]))
  /\ \A u : u \in ToSet(h.order)
              <=> u \in ToSet(g.order) \/ (u = e.type /\ e.type \notin DOMAIN g.of)

\* The body of the loop.
LEMMA AddEntryEffect ==
  ASSUME NEW g \in Grouping, NEW e \in Entries
  PROVE  Added(g, e, AddEntry(g, e))
<1> DEFINE t == e.type
           h == AddEntry(g, e)
<1>1. /\ t \in DataTypes /\ g.order \in Seq(DataTypes)
      /\ g = [order |-> g.order, of |-> g.of]
      /\ g.of \in [DOMAIN g.of -> Seq(Entries)] /\ DOMAIN g.of \in SUBSET DataTypes
  <2>1. t \in DataTypes
    BY DEF Entries, Entry, DataTypes
  <2>2. /\ g.order \in Seq(DataTypes) /\ g = [order |-> g.order, of |-> g.of]
        /\ g.of \in UNION {[T -> Seq(Entries)] : T \in SUBSET DataTypes}
    BY DEF Grouping
  <2>3. PICK T \in SUBSET DataTypes : g.of \in [T -> Seq(Entries)]
    BY <2>2
  <2>4. DOMAIN g.of = T
    BY <2>3
  <2>5. QED BY <2>1, <2>2, <2>3, <2>4
<1>2. CASE t \in DOMAIN g.of
  <2> DEFINE q == Append(g.of[t], e)
             f == [g.of EXCEPT ![t] = q]
  <2>1. /\ q \in Seq(Entries) /\ q # <<>>
        /\ \A x : x \in ToSet(q) <=> x \in ToSet(g.of[t]) \/ x = e
    BY <1>1, <1>2, AppendElements
  <2>2. h = [g EXCEPT !.of = f]
    BY <1>2 DEF AddEntry
  <2> HIDE DEF q, h
  <2>3. /\ f \in [DOMAIN g.of -> Seq(Entries)] /\ DOMAIN f = DOMAIN g.of
        /\ f[t] = q /\ \A u \in DOMAIN g.of : u # t => f[u] = g.of[u]
    BY <1>1, <1>2, <2>1
  <2> HIDE DEF f
  <2>4. h = [order |-> g.order, of |-> f]
    BY <1>1, <2>2
  <2>5. h \in Grouping
    BY <1>1, <2>3, <2>4 DEF Grouping
  <2>6. Added(g, e, h)
    <3>1. h.order = g.order /\ h.of = f
      BY <2>4
    <3>2. QED BY <1>1, <1>2, <2>1, <2>3, <2>5, <3>1 DEF Added
  <2>7. QED BY <2>6 DEF h
<1>3. CASE t \notin DOMAIN g.of
  <2> DEFINE f == [u \in DOMAIN g.of \cup {t} |-> IF u = t THEN <<e>> ELSE g.of[u]]
  <2>1. h = [order |-> Append(g.order, t), of |-> f]
    BY <1>3 DEF AddEntry
  <2>2. <<e>> \in Seq(Entries) /\ <<e>> # <<>> /\ ToSet(<<e>>) = {e}
    BY DEF ToSet
  <2> HIDE DEF t, h
  <2>3. /\ f \in [DOMAIN g.of \cup {t} -> Seq(Entries)] /\ DOMAIN f = DOMAIN g.of \cup {t}
        /\ f[t] = <<e>> /\ \A u \in DOMAIN g.of : u # t => f[u] = g.of[u]
    BY <1>1, <2>2
  <2> HIDE DEF f
  <2>4. /\ Append(g.order, t) \in Seq(DataTypes)
        /\ \A x : x \in ToSet(Append(g.order, t)) <=> x \in ToSet(g.order) \/ x = t
    BY <1>1, AppendElements
  <2>5. h \in Grouping /\ DOMAIN g.of \cup {t} \in SUBSET DataTypes
    BY <1>1, <2>1, <2>3, <2>4 DEF Grouping
  <2>6. Added(g, e, h)
    <3>1. h.order = Append(g.order, t) /\ h.of = f
      BY <2>1
    <3>2. QED BY <1>1, <1>3, <2>2, <2>3, <2>4, <2>5, <3>1 DEF Added, t
  <2>7. QED BY <2>6 DEF h
<1>4. QED BY <1>2, <1>3

\* Every entry is in the group of its data type, and every group has a place in
\* the order.
LEMMA GroupsEffect ==
  ASSUME NEW s \in Seq(Entries)
  PROVE  GroupsRight([order |-> <<>>, of |-> <<>>], s, Len(s), Groups(s))
<1> DEFINE base == [order |-> <<>>, of |-> <<>>]
<1>1. GroupsRight(base, s, 0, base)
  <2>1. base \in Grouping
    <3>1. <<>> \in [{} -> Seq(Entries)] /\ {} \in SUBSET DataTypes /\ <<>> \in Seq(DataTypes)
      OBVIOUS
    <3>2. <<>> \in UNION {[T -> Seq(Entries)] : T \in SUBSET DataTypes}
      BY <3>1
    <3>3. QED BY <3>1, <3>2 DEF Grouping
  <2>2. base.order = <<>> /\ base.of = <<>> /\ ToSet(<<>>) = {} /\ DOMAIN <<>> = {} /\ 1..0 = {}
    BY DEF ToSet
  <2>3. QED BY <2>1, <2>2 DEF GroupsRight
<1> HIDE DEF base
<1>2. ASSUME NEW k \in 1..Len(s), NEW g, GroupsRight(base, s, k - 1, g)
      PROVE  GroupsRight(base, s, k, AddEntry(g, s[k]))
  <2> DEFINE e == s[k]
             t == e.type
             h == AddEntry(g, e)
  <2>1. /\ 1..k = (1..(k - 1)) \cup {k} /\ k \in 1..k /\ e \in Entries
        /\ g \in Grouping
    BY <1>2 DEF GroupsRight
  <2>2. /\ \A u \in DataTypes : u \in ToSet(g.order) <=> u \in DOMAIN g.of
        /\ \A u \in DOMAIN g.of : g.of[u] # <<>>
    BY <1>2 DEF GroupsRight
  <2>3. \A u \in DOMAIN g.of : \A x \in ToSet(g.of[u]) : x.type = u /\ \E i \in 1..k : s[i] = x
    BY <1>2, <2>1 DEF GroupsRight
  <2>4. \A i \in 1..(k - 1) : s[i].type \in DOMAIN g.of /\ s[i] \in ToSet(g.of[s[i].type])
    BY <1>2 DEF GroupsRight
  <2>5. s[k] = e /\ e.type = t
    OBVIOUS
  <2>6. /\ h \in Grouping /\ t \in DataTypes
        /\ DOMAIN h.of = DOMAIN g.of \cup {t} /\ DOMAIN g.of \subseteq DataTypes
        /\ \A u \in DOMAIN g.of : u # t => h.of[u] = g.of[u]
        /\ h.of[t] # <<>>
        /\ \A x : x \in ToSet(h.of[t]) <=> x = e \/ (t \in DOMAIN g.of /\ x \in ToSet(g.of[t]))
        /\ \A u : u \in ToSet(h.order) <=> u \in ToSet(g.order) \/ (u = t /\ t \notin DOMAIN g.of)
    BY <2>1, AddEntryEffect DEF Added
  <2> HIDE DEF e, t, h
  <2>7. \A u \in DataTypes : u \in ToSet(h.order) <=> u \in DOMAIN h.of
    BY <2>2, <2>6
  <2>8. ASSUME NEW u \in DOMAIN h.of
        PROVE  h.of[u] # <<>> /\ \A x \in ToSet(h.of[u]) : x.type = u /\ \E i \in 1..k : s[i] = x
    <3>1. CASE u = t
      BY <2>1, <2>3, <2>5, <2>6, <3>1
    <3>2. CASE u # t
      BY <2>2, <2>3, <2>6, <3>2
    <3>3. QED BY <3>1, <3>2
  <2>9. ASSUME NEW i \in 1..k
        PROVE  s[i].type \in DOMAIN h.of /\ s[i] \in ToSet(h.of[s[i].type])
    <3>1. CASE i = k
      BY <2>5, <2>6, <3>1
    <3>2. CASE i # k
      <4>1. s[i].type \in DOMAIN g.of /\ s[i] \in ToSet(g.of[s[i].type])
        BY <2>1, <2>4, <3>2
      <4>2. QED BY <2>6, <4>1
    <3>3. QED BY <3>1, <3>2
  <2>10. QED BY <2>6, <2>7, <2>8, <2>9 DEF GroupsRight, h, e
<1>3. Len(s) \in Nat /\ DOMAIN s = 1..Len(s)
  OBVIOUS
<1>4. GroupsRight(base, s, Len(s), GroupLoop!FoldLeft(AddEntry, base, s))
  BY <1>1, <1>2, <1>3, GroupLoop!FoldInvariant
<1>5. GroupLoop!FoldLeft(AddEntry, base, s) = FoldLeft(AddEntry, base, s)
  BY DEF GroupLoop!FoldLeft, GroupLoop!MapThenFoldSet, GroupLoop!Max, FoldLeft, MapThenFoldSet, Max
<1>6. QED BY <1>4, <1>5 DEF Groups, base

-----------------------------------------------------------------------------
(* The loop that combines.                                                 *)

\* Maps that have a field in common have the same value of it.
Agree(base, s) ==
  /\ \A i \in DOMAIN s : \A f \in DOMAIN s[i].msg : f \in DOMAIN base => s[i].msg[f] = base[f]
  /\ \A i, j \in DOMAIN s : \A f \in DOMAIN s[i].msg :
       f \in DOMAIN s[j].msg => s[i].msg[f] = s[j].msg[f]

\* After k entries: the fields of base and of these entries, with their values.
Written(base, s, k, m) ==
  Agree(base, s) =>
    /\ \A f \in DOMAIN base : f \in DOMAIN m /\ m[f] = base[f]
    /\ \A i \in 1..k : \A f \in DOMAIN s[i].msg : f \in DOMAIN m /\ m[f] = s[i].msg[f]

CombineLoop == INSTANCE Loops WITH Op <- OverEntry, Inv <- Written

LEMMA WrittenEffect ==
  ASSUME NEW base, NEW s \in Seq(Entries)
  PROVE  Written(base, s, Len(s), FoldLeft(OverEntry, base, s))
<1>1. Written(base, s, 0, base)
  BY DEF Written
<1>2. ASSUME NEW k \in 1..Len(s), NEW m, Written(base, s, k - 1, m)
      PROVE  Written(base, s, k, OverEntry(m, s[k]))
  <2> SUFFICES ASSUME Agree(base, s)
               PROVE  /\ \A f \in DOMAIN base : f \in DOMAIN OverEntry(m, s[k])
                                                /\ OverEntry(m, s[k])[f] = base[f]
                      /\ \A i \in 1..k : \A f \in DOMAIN s[i].msg :
                           f \in DOMAIN OverEntry(m, s[k]) /\ OverEntry(m, s[k])[f] = s[i].msg[f]
    BY DEF Written
  <2> DEFINE g == s[k].msg
             h == OverEntry(m, s[k])
  <2>1. /\ DOMAIN h = DOMAIN m \cup DOMAIN g
        /\ \A f \in DOMAIN g : h[f] = g[f]
        /\ \A f \in DOMAIN m : f \notin DOMAIN g => h[f] = m[f]
    BY DEF OverEntry, Over
  <2>2. /\ 1..k = (1..(k - 1)) \cup {k} /\ 1..k \subseteq DOMAIN s /\ k \in DOMAIN s
    OBVIOUS
  <2>3. /\ \A f \in DOMAIN base : f \in DOMAIN m /\ m[f] = base[f]
        /\ \A i \in 1..(k - 1) : \A f \in DOMAIN s[i].msg : f \in DOMAIN m /\ m[f] = s[i].msg[f]
    BY <1>2 DEF Written
  <2>4. /\ \A f \in DOMAIN g : f \in DOMAIN base => g[f] = base[f]
        /\ \A i \in 1..k : \A f \in DOMAIN s[i].msg : f \in DOMAIN g => s[i].msg[f] = g[f]
    BY <2>2 DEF Agree
  <2> HIDE DEF g, h
  <2>5. \A f \in DOMAIN base : f \in DOMAIN h /\ h[f] = base[f]
    BY <2>1, <2>3, <2>4
  <2>6. ASSUME NEW i \in 1..k, NEW f \in DOMAIN s[i].msg
        PROVE  f \in DOMAIN h /\ h[f] = s[i].msg[f]
    <3>1. CASE i = k
      BY <2>1, <3>1 DEF g
    <3>2. CASE i # k
      <4>1. f \in DOMAIN m /\ m[f] = s[i].msg[f]
        BY <2>2, <2>3, <3>2
      <4>2. QED BY <2>1, <2>4, <4>1
    <3>3. QED BY <3>1, <3>2
  <2>7. QED BY <2>5, <2>6 DEF h
<1>3. Len(s) \in Nat /\ DOMAIN s = 1..Len(s)
  OBVIOUS
<1>4. Written(base, s, Len(s), CombineLoop!FoldLeft(OverEntry, base, s))
  BY <1>1, <1>2, <1>3, CombineLoop!FoldInvariant
<1>5. CombineLoop!FoldLeft(OverEntry, base, s) = FoldLeft(OverEntry, base, s)
  BY DEF CombineLoop!FoldLeft, CombineLoop!MapThenFoldSet, CombineLoop!Max, FoldLeft, MapThenFoldSet, Max
<1>6. QED BY <1>4, <1>5

\* A group that is combined loses no field, unless two values compete for it.
LEMMA CombineEffect ==
  ASSUME NEW q \in Seq(Entries), q # <<>>,
         \A d, e \in ToSet(q) : \A f \in DOMAIN d.msg : f \in DOMAIN e.msg => d.msg[f] = e.msg[f]
  PROVE  /\ Combine(q).type = q[1].type
         /\ \A e \in ToSet(q) : \A f \in DOMAIN e.msg :
              f \in DOMAIN Combine(q).msg /\ Combine(q).msg[f] = e.msg[f]
<1> DEFINE b == q[1]
           s == Tail(q)
           m == FoldLeft(OverEntry, b.msg, s)
<1>1. /\ b \in Entries /\ s \in Seq(Entries) /\ DOMAIN s = 1..Len(s) /\ 1 \in DOMAIN q
      /\ Head(q) = b /\ \A i \in DOMAIN s : i + 1 \in DOMAIN q /\ s[i] = q[i + 1]
  OBVIOUS
<1>2. \A i \in DOMAIN q : i # 1 => i - 1 \in DOMAIN s /\ s[i - 1] = q[i]
  OBVIOUS
<1>3. b \in ToSet(q) /\ \A i \in DOMAIN s : s[i] \in ToSet(q)
  BY <1>1 DEF ToSet
<1> HIDE DEF b, s
<1>4. Agree(b.msg, s)
  BY <1>3 DEF Agree
<1>5. /\ \A f \in DOMAIN b.msg : f \in DOMAIN m /\ m[f] = b.msg[f]
      /\ \A i \in DOMAIN s : \A f \in DOMAIN s[i].msg : f \in DOMAIN m /\ m[f] = s[i].msg[f]
  <2>1. Written(b.msg, s, Len(s), m)
    BY <1>1, WrittenEffect
  <2> HIDE DEF m
  <2>2. QED BY <1>1, <1>4, <2>1 DEF Written
<1> HIDE DEF m
<1>6. Combine(q).type = b.type /\ Combine(q).msg = m
  <2>1. Combine(q) = [b EXCEPT !.msg = m]
    BY <1>1 DEF Combine, m, s
  <2>2. QED BY <1>1, <2>1 DEF Entries, Entry
<1>7. ASSUME NEW e \in ToSet(q), NEW f \in DOMAIN e.msg
      PROVE  f \in DOMAIN m /\ m[f] = e.msg[f]
  <2>1. PICK i \in DOMAIN q : q[i] = e
    BY DEF ToSet
  <2>2. CASE i = 1
    BY <1>5, <2>1, <2>2 DEF b
  <2>3. CASE i # 1
    BY <1>2, <1>5, <2>1, <2>3
  <2>4. QED BY <2>2, <2>3
<1>8. QED BY <1>6, <1>7 DEF b

-----------------------------------------------------------------------------
(* What becomes of a window.                                               *)

\* A source of which a window has one entry at most has no two of them.
WindowOK(w) ==
  /\ w \in Seq(Entries)
  /\ \A i, j \in DOMAIN w : w[i].src = w[j].src /\ w[i].src \notin Repeats => i = j

\* Each field of e is in one of rows.
FieldsIn(e, rows) ==
  \A f \in DOMAIN e.msg : \E r \in rows : r.type = e.type /\ f \in DOMAIN r.msg /\ r.msg[f] = e.msg[f]

\* q has all entries of type t of window w, and no others.
GroupOf(q, w, t) ==
  /\ q \in Seq(Entries) /\ q # <<>>
  /\ \A e : e \in ToSet(q) <=> \E i \in DOMAIN w : w[i] = e /\ e.type = t

\* What is known of an entry from its source.
LEMMA EntryFacts ==
  ASSUME NEW e \in Entries
  PROVE  /\ e.src \in Source /\ e.type = TypeOf[e.src] /\ DOMAIN e.msg = FieldsOf[e.src]
         /\ e.map <=> e.src \notin StructSource
         /\ \A t : e.type = t /\ e.map => e.src \in Maps(t)
<1>1. PICK s \in Source, n \in Nat : e = Entry(s, n)
  BY DEF Entries
<1>2. e.src = s /\ e.type = TypeOf[s] /\ e.map = (s \notin StructSource) /\ DOMAIN e.msg = FieldsOf[s]
  BY <1>1 DEF Entry
<1>3. QED BY <1>2 DEF Maps

\* Two entries of a window that share a field are about entities, if both are
\* maps: as fragments they would be one entry.
LEMMA SharedFields ==
  ASSUME OneKind, NEW w, WindowOK(w), NEW i \in DOMAIN w, NEW j \in DOMAIN w, i # j,
         w[i].type = w[j].type, w[i].map, w[j].map, DOMAIN w[i].msg \cap DOMAIN w[j].msg # {}
  PROVE  Entities(w[i].type)
<1>1. w[i] \in Entries /\ w[j] \in Entries
  BY DEF WindowOK
<1>2. /\ w[i].src \in Source /\ w[i].type = TypeOf[w[i].src]
      /\ w[i].src \in Maps(w[i].type) /\ w[j].src \in Maps(w[i].type)
      /\ FieldsOf[w[i].src] \cap FieldsOf[w[j].src] # {}
  BY <1>1, EntryFacts
<1>3. ~Fragments(w[i].type)
  BY <1>2 DEF Fragments, WindowOK
<1>4. QED BY <1>2, <1>3 DEF OneKind

\* Entries about entities are never combined, nor is a group with one that is
\* not a map.
LEMMA NotCombined ==
  ASSUME NEW q \in Seq(Entries), q # <<>>, NEW t, \A e \in ToSet(q) : e.type = t,
         Entities(t) \/ \E e \in ToSet(q) : ~e.map
  PROVE  Rows(q) = q
<1> SUFFICES ASSUME Len(q) > 1, AllMaps(q) PROVE MapsOverlap(q)
  BY DEF Rows
<1>1. 1 \in DOMAIN q /\ 2 \in DOMAIN q /\ q[1] \in Entries /\ q[2] \in Entries
  OBVIOUS
<1>2. q[1] \in ToSet(q) /\ q[2] \in ToSet(q)
  BY <1>1 DEF ToSet
<1>3. \A e \in ToSet(q) : e.map
  BY DEF AllMaps, ToSet
<1>4. Entities(t) /\ q[1].src \in Maps(t) /\ q[2].src \in Maps(t)
  BY <1>1, <1>2, <1>3, EntryFacts
<1>5. DOMAIN q[1].msg \cap DOMAIN q[2].msg # {}
  BY <1>1, <1>4, EntryFacts DEF Entities
<1>6. QED BY <1>5 DEF MapsOverlap

\* The rows of a group.
LEMMA RowsEffect ==
  ASSUME OneKind, NEW w, WindowOK(w), NEW t, NEW q, GroupOf(q, w, t)
  PROVE  /\ Rows(q) \in Seq(ToSet(Rows(q)))
         /\ \A e \in ToSet(q) : FieldsIn(e, ToSet(Rows(q)))
         /\ \A i, j \in DOMAIN w :
              i # j /\ w[i].type = t /\ w[j].type = t /\ DOMAIN w[i].msg \cap DOMAIN w[j].msg # {}
                => w[i] \in ToSet(Rows(q)) /\ w[j] \in ToSet(Rows(q))
<1>1. /\ q \in Seq(Entries) /\ q # <<>> /\ \A e \in ToSet(q) : e.type = t
      /\ \A i \in DOMAIN w : w[i].type = t => w[i] \in ToSet(q)
      /\ \A e \in ToSet(q) : \E i \in DOMAIN w : w[i] = e
  BY DEF GroupOf
<1>2. ASSUME NEW i \in DOMAIN w, NEW j \in DOMAIN w, i # j, w[i].type = t, w[j].type = t,
             DOMAIN w[i].msg \cap DOMAIN w[j].msg # {}
      PROVE  Rows(q) = q
  <2>1. Entities(t) \/ ~w[i].map \/ ~w[j].map
    BY <1>2, SharedFields
  <2>2. QED BY <1>1, <1>2, <2>1, NotCombined
<1>3. CASE Rows(q) = q
  <2>1. q \in Seq(ToSet(q))
    BY <1>1 DEF ToSet
  <2>2. \A e \in ToSet(q) : FieldsIn(e, ToSet(q))
    BY DEF FieldsIn
  <2>3. QED BY <1>1, <1>3, <2>1, <2>2
<1>4. CASE Rows(q) # q
  <2>1. Rows(q) = << Combine(q) >>
    BY <1>4 DEF Rows
  <2>2. ToSet(Rows(q)) = {Combine(q)} /\ Rows(q) \in Seq(ToSet(Rows(q)))
    BY <2>1 DEF ToSet
  <2>3. \A d, e \in ToSet(q) : \A f \in DOMAIN d.msg : f \in DOMAIN e.msg => d.msg[f] = e.msg[f]
    BY <1>1, <1>2, <1>4
  <2>4. /\ Combine(q).type = q[1].type
        /\ \A e \in ToSet(q) : \A f \in DOMAIN e.msg :
             f \in DOMAIN Combine(q).msg /\ Combine(q).msg[f] = e.msg[f]
    BY <1>1, <2>3, CombineEffect
  <2>5. q[1].type = t
    BY <1>1 DEF ToSet
  <2>6. \A e \in ToSet(q) : FieldsIn(e, ToSet(Rows(q)))
    BY <1>1, <2>2, <2>4, <2>5 DEF FieldsIn
  <2>7. QED BY <1>2, <1>4, <2>2, <2>6
<1>5. QED BY <1>3, <1>4

\* A sequence over a set is one over a larger set.
LEMMA WiderSeq ==
  ASSUME NEW S, NEW T, S \subseteq T, NEW q \in Seq(S)
  PROVE  q \in Seq(T)
OBVIOUS

\* A window that is merged keeps its fields, and its entities apart.
LEMMA MergeEffect ==
  ASSUME OneKind, NEW w, WindowOK(w)
  PROVE  LET out == mergeByDataType(w)
         IN  /\ \A e \in ToSet(w) : FieldsIn(e, ToSet(out))
             /\ \A i, j \in DOMAIN w :
                  i # j /\ w[i].type = w[j].type /\ DOMAIN w[i].msg \cap DOMAIN w[j].msg # {}
                    => w[i] \in ToSet(out) /\ w[j] \in ToSet(out)
<1> DEFINE g == Groups(w)
           ss == [i \in DOMAIN g.order |-> Rows(g.of[g.order[i]])]
           S == UNION {ToSet(ss[i]) : i \in DOMAIN ss}
           out == mergeByDataType(w)
<1>1. GroupsRight([order |-> <<>>, of |-> <<>>], w, Len(w), g) /\ DOMAIN w = 1..Len(w)
  BY GroupsEffect DEF WindowOK
<1>2. out = FlattenSeq(ss)
  BY DEF mergeByDataType
<1> HIDE DEF g, out
<1>3. /\ g.order \in Seq(DataTypes) /\ \A t \in DOMAIN g.of : g.of[t] \in Seq(Entries)
      /\ \A t \in DOMAIN g.of : \E i \in DOMAIN g.order : g.order[i] = t
      /\ \A i \in DOMAIN g.order : g.order[i] \in DOMAIN g.of
  <2>1. g \in Grouping /\ \A t \in DataTypes : t \in ToSet(g.order) <=> t \in DOMAIN g.of
    BY <1>1 DEF GroupsRight
  <2>2. /\ g.order \in Seq(DataTypes) /\ DOMAIN g.of \subseteq DataTypes
        /\ \A t \in DOMAIN g.of : g.of[t] \in Seq(Entries)
    BY <2>1 DEF Grouping
  <2>3. QED BY <2>1, <2>2 DEF ToSet
<1>4. ASSUME NEW t \in DOMAIN g.of PROVE GroupOf(g.of[t], w, t)
  <2>1. /\ g.of[t] # <<>>
        /\ \A e \in ToSet(g.of[t]) : e.type = t /\ \E i \in 1..Len(w) : w[i] = e
        /\ \A i \in 1..Len(w) : w[i] \in ToSet(g.of[w[i].type])
    BY <1>1 DEF GroupsRight
  <2>2. \A e : e \in ToSet(g.of[t]) <=> \E i \in DOMAIN w : w[i] = e /\ e.type = t
    BY <1>1, <2>1
  <2>3. QED BY <1>3, <2>1, <2>2 DEF GroupOf
<1>5. ASSUME NEW i \in DOMAIN ss
      PROVE  ss[i] \in Seq(ToSet(ss[i])) /\ ToSet(ss[i]) \subseteq S
  BY <1>3, <1>4, RowsEffect
<1>6. ss \in Seq(Seq(S))
  <2>1. \A i \in DOMAIN ss : ss[i] \in Seq(S)
    <3> HIDE DEF ss, S
    <3>1. QED BY <1>5, WiderSeq
  <2>2. ss \in [1..Len(g.order) -> Seq(S)] /\ Len(g.order) \in Nat
    <3> HIDE DEF S
    <3>1. DOMAIN g.order = 1..Len(g.order) /\ Len(g.order) \in Nat
      BY <1>3
    <3>2. QED BY <2>1, <3>1
  <2> HIDE DEF S, ss
  <2>3. QED BY <2>2
<1>7. \A e : e \in ToSet(out) <=> \E i \in DOMAIN ss : e \in ToSet(ss[i])
  <2>1. \A q : GroupLoop!ToSet(q) = ToSet(q)
    BY DEF GroupLoop!ToSet, ToSet
  <2>2. GroupLoop!FlattenSeq(ss) = FlattenSeq(ss)
    BY DEF GroupLoop!FlattenSeq, FlattenSeq
  <2> HIDE DEF S, ss
  <2>3. \A e : e \in GroupLoop!ToSet(GroupLoop!FlattenSeq(ss))
                 <=> \E i \in DOMAIN ss : e \in GroupLoop!ToSet(ss[i])
    BY <1>6, GroupLoop!FlattenElements
  <2>4. QED BY <1>2, <2>1, <2>2, <2>3
<1>8. ASSUME NEW t \in DOMAIN g.of, NEW r \in ToSet(Rows(g.of[t])) PROVE r \in ToSet(out)
  BY <1>3, <1>7
<1>9. ASSUME NEW e \in ToSet(w) PROVE FieldsIn(e, ToSet(out))
  <2>1. e.type \in DOMAIN g.of /\ e \in ToSet(g.of[e.type])
    BY <1>1 DEF GroupsRight, ToSet
  <2>2. FieldsIn(e, ToSet(Rows(g.of[e.type])))
    BY <1>4, <2>1, RowsEffect
  <2>3. QED BY <1>8, <2>1, <2>2 DEF FieldsIn
<1>10. ASSUME NEW i \in DOMAIN w, NEW j \in DOMAIN w, i # j, w[i].type = w[j].type,
              DOMAIN w[i].msg \cap DOMAIN w[j].msg # {}
       PROVE  w[i] \in ToSet(out) /\ w[j] \in ToSet(out)
  <2>1. w[i].type \in DOMAIN g.of
    BY <1>1 DEF GroupsRight
  <2>2. w[i] \in ToSet(Rows(g.of[w[i].type])) /\ w[j] \in ToSet(Rows(g.of[w[i].type]))
    BY <1>4, <1>10, <2>1, RowsEffect
  <2>3. QED BY <1>8, <2>1, <2>2
<1>11. QED BY <1>9, <1>10 DEF out

-----------------------------------------------------------------------------
(* Every window.                                                           *)

\* A window in the making, and the last one flushed with what was made of it.
MergeInv ==
  /\ sample \in Nat /\ WindowOK(window) /\ WindowOK(In)
  /\ In = <<>> \/ Out = mergeByDataType(In)

LEMMA InitMerge == MergeInit => MergeInv
BY DEF MergeInit, MergeInv, WindowOK, In, Out

LEMMA StepMerge == MergeInv /\ [MergeNext]_mergeVars => MergeInv'
<1> SUFFICES ASSUME MergeInv, [MergeNext]_mergeVars PROVE MergeInv'
  OBVIOUS
<1>1. ASSUME NEW s \in Source, Arrive(s) PROVE MergeInv'
  <2> DEFINE e == Entry(s, sample')
  <2>1. e \in Entries /\ e.src = s /\ sample' \in Nat
    BY <1>1 DEF Arrive, Entries, Entry, MergeInv
  <2>2. window \in Seq(Entries) /\ window' = Append(window, e)
    BY <1>1 DEF Arrive, MergeInv, WindowOK
  <2>3. s \in Repeats \/ \A i \in DOMAIN window : window[i].src # s
    BY <1>1 DEF Arrive
  <2> HIDE DEF e
  <2>4. WindowOK(window')
    <3>1. /\ window' \in Seq(Entries) /\ DOMAIN window' = DOMAIN window \cup {Len(window) + 1}
          /\ window'[Len(window) + 1] = e /\ \A i \in DOMAIN window : window'[i] = window[i]
      BY <2>1, <2>2
    <3>2. QED BY <2>1, <2>3, <3>1 DEF MergeInv, WindowOK
  <2>5. QED BY <1>1, <2>1, <2>4 DEF Arrive, MergeInv, In, Out
<1>2. CASE Flush
  <2>1. WindowOK(<<>>)
    BY DEF WindowOK
  <2>2. QED BY <1>2, <2>1 DEF Flush, MergeInv, In, Out
<1>3. CASE UNCHANGED mergeVars
  BY <1>3 DEF mergeVars, MergeInv, In, Out
<1>4. QED BY <1>1, <1>2, <1>3 DEF MergeNext, Done

\* What was flushed is the merge of a window in which sources that do not repeat
\* are present once.
THEOREM MergeInvariant == MergeSpec => []MergeInv
<1>1. QED BY InitMerge, StepMerge, PTL DEF MergeSpec

\* Where every data type is of one kind no window loses a sampled value, however
\* long it is and in whatever order its entries arrive (mergeByDataType).
THEOREM MergeLosesNothing ==
  ASSUME OneKind
  PROVE  MergeSpec => []NoFieldLost
<1>1. MergeInv => NoFieldLost
  <2> SUFFICES ASSUME MergeInv PROVE NoFieldLost
    OBVIOUS
  <2>1. CASE In = <<>>
    BY <2>1 DEF NoFieldLost, ToSet
  <2>2. CASE Out = mergeByDataType(In)
    BY <2>2, MergeEffect DEF MergeInv, NoFieldLost, FieldsIn
  <2>3. QED BY <2>1, <2>2 DEF MergeInv
<1>2. QED BY <1>1, MergeInvariant, PTL

\* Where every data type is of one kind entries that share a key come out as they
\* came in, although only the first two of a group are compared (mapsOverlap).
THEOREM EntitiesStayApart ==
  ASSUME OneKind
  PROVE  MergeSpec => []KeptApart
<1>1. MergeInv => KeptApart
  <2> SUFFICES ASSUME MergeInv PROVE KeptApart
    OBVIOUS
  <2>1. CASE In = <<>>
    BY <2>1 DEF KeptApart
  <2>2. CASE Out = mergeByDataType(In)
    BY <2>2, MergeEffect DEF MergeInv, KeptApart
  <2>3. QED BY <2>1, <2>2 DEF MergeInv
<1>2. QED BY <1>1, MergeInvariant, PTL
=============================================================================
