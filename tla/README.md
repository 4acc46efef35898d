# Verification of arc-switch

TLA+ models of the programs in this repository, the TLC runs that check them on
small instances, and TLAPS proofs of the most important results for every size.
The models are written from the Go code. Paths below are relative to
`src/TelemetryClient/` unless they say otherwise.

## 1. The system

arc-switch collects telemetry from data-centre switches and sends it to Azure
Log Analytics. Its largest program, and the one with concurrency and failure
handling, is `gnmi-collector`. It runs on the switch (or next to it), talks gNMI
to the switch, transforms what it gets into rows, and posts the rows.

    switch --gNMI--> Client --notifications--> Collector --entries--> Logger --HTTP--> Azure
                       |                          |
                    tls.go (pin, repair)    poll: RunOnce per tick
                                            subscribe: RunStream

| Component | State it keeps | Operations | Interacts with | What is hard |
|---|---|---|---|---|
| Stream loop, `internal/collector/subscriber.go` | one batch of entries per table, reconnect delay, stream context | open a stream, handle a response, add, drain and post a batch, periodic sweep, reconnect, repair, shut down | Client (callbacks from `Recv`), Logger (posts), main (context) | two goroutines on one set of batches; shutdown in the middle of a response; which delay after which failure |
| Poll loop and cycle, `cmd/gnmi-collector/main.go`, `internal/collector/collector.go` | one pending tick, the entries of the cycle, failure counts | get a path with two fallbacks, transform, merge, send per table, report; signal; forced exit | Client, Logger, ticker, signals | isolation of failures; a signal in the middle of a cycle; the exit timer racing a graceful end |
| Posts, `internal/azure/logger.go` | none | send with the primary key, then with the secondary | Azure | an answer lost after the post was stored |
| Certificate trust, `internal/gnmi/tls.go`, `NewClient` | pool of the client, `ca_file`, its temporary file | load, probe, save, re-fetch, rebuild the client | the switch (rotations), the operator, systemd (restarts) | a kill between write and rename; a pin that went stale while the process was down; a repair that never waits |
| Merging, `mergeByDataType` | none | group by data type, merge maps whose keys are disjoint | batches, cycles | which entries meet in one window; only two entries are compared |
| Normalization, `internal/gnmi/client.go` | none | print paths, fold leaf updates into one tree | the response handler | Go's map order; slashes in key values; list elements identified by keys |
| Routing, `subscriber.go` | the subscribed paths, a lookup table to transformers | drill a notification down to each subscribed path | Normalization, transformers | paths compared with keys on one side only; entities told apart after keys were stripped |
| Discovery, `internal/collector/discovery.go` | the expanded list of paths | ask for the network instances, probe each for BGP, expand templates | Client, at startup only | one failed probe removes a path for the life of the process |
| Configuration, `internal/config` | none | load, default, override from the environment, validate | everything, at startup | defaults against explicit values |
| Transformers, `internal/transform` | none | the notifications about a path to rows, one transformer for each registered path | Routing, cycle | the same path is answered in several shapes; who a reading is about is found in a key, a leaf or a list |
| Syslog client, writer library and Dell tools, `src/SyslogTools`, `src/SwitchOutput/DellOS/10/lldp-sylog`, `interface_phyeth` | counters | read lines, check, truncate, write, report with an exit status | the local system log | limits at a boundary; a write that fails in the middle; what a success promises |
| Switch output parsers, `src/SwitchOutput` | position in the text, the entry being built, flags | `show` output to JSON lines, in one parser per command and one program per family of switches | a CLI | order of lines, missing sections, free text among the lines |
| Onboarding scripts, Arc services, usage monitor, workflows | files | installation | the operator | not programs of the running system |

What makes each of them correct, in one line each:

- stream loop: an entry is taken by one goroutine only and ends posted or
  dropped, once; a shutdown returns, and leaves behind nothing that was there
  before the signal; the delays double and reset as documented;
- process and cycle: a failing path or table takes no other with it; a graceful
  exit completes its cycle; a signal always ends the process;
- posts: nothing is stored twice with one key;
- trust: a pinned certificate changes only in the repair of a rejected handshake
  (or when `os.Stat` fails on it), is never corrupted by a crash, and the repair
  ends in a stream without becoming a busy loop (unless reads keep failing);
- merging: no sampled value is lost;
- normalization and routing: every leaf of a response reaches the transformers
  of the paths above it, at its place and with its entity, and nothing else does;
- transformers: each entity of an answer has one row, with its own readings in
  the columns meant for them, in whatever form it is answered;
- syslog tools: the counts, the log and the exit status tell the same story, and
  test mode predicts it;
- parsers: what is printed of a thing is reported of this thing, and of no other,
  whatever is printed before and after it;
- discovery: every instance of the switch is collected, or left out for a reason
  the switch or a failed probe gave; no path is collected twice; a start that
  fails is repeated until one succeeds.

## 2. Plan

Most important behaviour first. Done in this version:

1. `BatchLedger`, `Subscriber`, `SubscriberProofs`: the stream loop, what it
   promises of an entry, and proofs.
2. `CertTrust`: trust, crash and repair.
3. `Poller`: process, cycle, posts.
4. `Merge`, `Normalize`, `Routing`: the data path, as pure operators applied to
   every window and every response of a small switch.
5. `Discovery`: the requests of the startup and the expansion of templates.
6. `TextParser` and the modules of the parsers: fifteen parsers of both families
   of switches as loops over lines, under `SwitchParser`, which extends
   `NexusParser`.
7. `Values`, `OpenConfigRows`, `NativeRows`, `SwitchAnswers`, `Transform`: every
   transformer of the registry.
8. `Syslog`: the four tools that write to the system log.
9. `CertTrustProofs`, `CollectorProofs`, `SyslogProofs`: all safety properties of
   these components, for every size.
10. `Loops`, `DiscoveryProofs`, `RoutingProofs`: induction over the loops of a
   program, and safety properties of the components built from them.
11. `NexusProofs`: what the parsers of LLDP neighbors, BGP peers and transceivers
   report, for texts of any length.

Next, in this order:

12. The content of Get and Subscribe ONCE (cap of 1000 notifications, time-out),
    the decoding of values and the validation of the configuration, as
    refinements of the answers that `Poller` and `Discovery` take as inputs.
13. `Transform` composed with `Routing`: the rows made of a response that was
    folded and drilled, instead of the answers of `SwitchAnswers`.
14. Proofs for the other parsers, along the lines of `NexusProofs`: one
    invariant over the positions of a text for each of them.

Abstract specifications: `BatchLedger` (done) is what `Subscriber` promises of
entries; the cycle of `Poller` with a flush window of `Subscriber` in its place
is a composition still to be made. `Routing` extends `Normalize`: a response is
printed, folded and drilled in one model.

## 3. Modules

### BatchLedger: what is promised of an entry

An entry handed to a batch is buffered until it is posted or dropped, and it is
accepted at most once. The actions are `Accept` (`tableBatch.add`), `Post` and
`Drop` (the two ends of `flushBatch`). Nothing is said of goroutines or tables.

### Subscriber: RunStream

`main` is where the stream goroutine is, `flusher` where the flush goroutine is.
`main` goes `connect` (`Client.Subscribe`), `recv` (inside `Recv`), `route`
(the handler's loop over paths), `check`, `drain`, `post` (a batch at its limit
is drained and posted by the handler), `ended` (the stream returned an error),
`heal`, `backoff`, `join` (`<-flushDone`), `returned`. One action per critical
section: `tableBatch.add`, `size` and `drain` take the mutex separately, so the
flusher may act between any two of them. `Cancel` may happen at any moment.
The error of a stream is one of five classes, those the loop distinguishes; the
order of the tests (`ctx.Err()`, permanent, certificate, other) is in `Classify`
and in the actions behind it. `delay` is the variable of the code, in its own
unit; `InitialDelay` 2 and `MaxDelay` 5 make a delay that is doubled and one
that is capped below the next double.

An entry is an identity: it is added once and has no content. `posted` and
`dropped` stand for the two ends of `flushBatch`. `late`, `lastWait` and
`progressed` are history variables, read by properties only.

### CertTrust: certificates

`pc` is where the process is in `BootstrapCert`/`TOFUCertPool`/`NewClient`
(`down`, `new`, `saveBoot`, `renameBoot`, `caps`) and in the repair (`connect`,
`stream`, `certError`, `refetch`, `saveHeal`, `renameHeal`, `backoff`); `by` says
which of the two builds a client. `SaveCertPEM` is two steps, `WriteTmp` and
`Rename`: a kill in the first leaves garbage in the temporary file. `caFile`
says whether a `ca_file` is configured. External: `Handshake` (the TLS library:
the certificate presented must be the one in the pool, and one that can be
verified at all), `Rotate`, `Crash` (with the restart by systemd that
`Arcnet_Sonic_gNMI_Setup` configures) and `Install` (the operator copies a
certificate). `TOFURefetch` has no caller outside tests and is left out.
With `ReadMayFail` the file system may fail on a `ca_file` that is there:
`StatFails` is `os.Stat` failing, which `BootstrapCert` takes for a missing file,
`LoadFails` the read that ends `NewClient`, and `RefetchUnread` the read whose
error `RefetchAndSave` swallows. `failed`, `strikes`, `unread` and `cause` are
history variables, read by properties only.

### Poller: the process

`set` is how the process was started: mode, dry run, `-output`, second key.
`pc` follows `main` and, inside it, `RunOnce` and `Logger.Send`. An RPC gives
`error`, `none` (no notification), `blank` (only empty values) or `data`. The
ticker's channel holds one tick. `ForceExit` is the timer that the signal
goroutine starts; it may fire at any step. In subscribe mode a cycle stands for
one flush window: `NextWindow` draws the paths it holds.

### Merge: mergeByDataType

`Arrive` adds an entry to the window, `Flush` applies `mergeByDataType` to it.
Every window up to the bound is therefore an input. A field holds the number of
its sample, so that one sample overwriting another can be seen. The two loops of
the code are the folds `Groups` and `Combine`, with one operator for the body of
each (`AddEntry`, `OverEntry`). `OneKind` is what the comment of the function
takes for granted: the sources of a data type are `Fragments` of one row, each
once in a window, or they are about `Entities` and share a key.

### Normalize and Routing: from a response to the transformers

The state is one response. `Receive` draws any sequence of leaves of a small
switch and prints it as `pathToString` does: a key set in any order (a Go map),
with or without a prefix on the notification. `NormalizeSubscribeNotifications`
and `drillDownToSubscribedPath` are operators with the names of the code; what
`setNestedValue` does to maps and lists is expressed on a function from
positions to scalars, so that "the value gives way to a map" is a deletion of
positions. Left out: array values, JSON decoding, module prefixes. A switch is
assumed not to report a container and leaves below it in one response: the code
assigns a value over whatever was built below its place. `WellFormed` says this of
the instance, and that its list entries have one key.

### Discovery: from templates to paths

`pc` follows `DiscoverAndExpand`: `get`, `once` and `blank` are the request for
the instances and its two fallbacks, `extract` the choice of the names, `expand`
the loop over the paths (`at`), `probe` and `probeOnce` the probe of instance
`ni` and its fallback. `failed` is `log.Fatalf` in `main`; `Restart` is systemd.
An answer is a sequence of updates of which only the names matter: one or more
updates per instance (`Keyed`), a list in one value (`Listed`), an answer folded
by `NormalizeSubscribeNotifications` into a value that names nobody (`Folded`),
empty values (`Blank`), or nothing. External, and assumed: an answer that names
instances names all of them, and a probe that is answered finds BGP where there
is BGP. The second is more than the code has: see the observations.

### Values, OpenConfigRows, NativeRows, SwitchAnswers and Transform

`Values` has the accessors of `common.go` (`GetString`, `GetMap`, `extractKey`,
...) on decoded values: a map, a list, a leaf, a Boolean or a float in base64. A
reading is a tuple of the entity, the sample and the column it belongs to, and
`Zero` is the zero value of every Go type, because `""`, `0` and `false` look
alike in a row. `OpenConfigRows` and `NativeRows` have one operator per
transformer, named for it, which makes the messages of an update; of the columns
that are read by the same accessor from the same container one or two stand for
all. `Rows` in `Transform` is the registry. `SwitchAnswers` is external: the
answers the code, its comments and its tests expect, in each form it has a branch
for (a list in one value, an update per entity, wrapped in containers or bare,
with or without a `state`).

The state of `Transform` is one call: `Notify` and `NotifyOther` collect
notifications, `CallTransform` makes the rows. `reported` is a history of the
entities the notifications are about. A sample has all columns, none, or all but
one, and what the first entity of a sample lacks the second has, so that a value
taken from the other entity is seen.

### Syslog: the tools that write to the system log

`tool` is one of four: `syslog-client`, the library `syslogwriter` under a caller
as its README shows, and the Dell tools `lldp_syslog` and
`show_interface_phy_eth`. `set` are the flags, `input` the lines. A line is its
kind: blank, valid, without a message, invalid, long (to be truncated), huge
(above what a `bufio.Scanner` takes). `pc` goes `start`, `connect`, `open`,
`read`, and for each entry `validate`, `size`, `write`. `stats` is `Statistics`
of the client; `journal` is the log, external, each write to which may fail.

### TextParser and the parsers of the two families

A parser is a loop over the lines of a show command: `text` are the lines not
yet read, `current` is the entry being built, `scratch` what else the loop keeps
(flags, collected lines, the section), `out` the finished entries. An action is
one branch of the loop, named for the line it reads; that a branch comes before
another is in their guards. `printed` is what the switch was asked about, as
records; `Init` prints it as a text. A value is a tuple that begins with the
number of the neighbor, route, section or interface it was printed of, so that a
value that ends in another entry can be seen. Fields that are assigned alike are
one field (`late` in `LldpText` stands for eight), and lines of one shape are one
line.

- `LldpText`: a description is a sequence of lines, each of which may look like
  any line of the command: be empty, begin with a label (`Chassis id`, `System
  Name`, `Time remaining`, `Capabilities`, ...) or with a number, hold a colon, or be
  text. `scratch` is `inSystemDesc`, `systemDescLines`, `inVlanNames`,
  `vlanNameLines`. `name` stands for the four fields that are read inside of a
  description too.
- `RouteText`: the parts of a next hop are told apart by what they look like;
  `TakenFor` is the chain of tests, and a part says which test it passes. A protocol
  that contains a w or a d (`direct`) is one that the age rule takes first.
- `BgpText`: sections of one VRF that follow each other become one entry.
- `TransceiverText`: the text form as a loop, the JSON form as an operator
  (`parseJSON`). An interface is a breakout port or not, and a transceiver has any
  number of link lengths and lanes, and a cable type or none.
- `CounterText`: tables joined by interface; here `current` is `interfaceMap`.
- `StatusText`: rows of fixed width whose type may be cut, with what is left of
  it ending in a way the parser knows or not, and a short or a long rest; `current`
  is the interface that waits for the rest of its type.
- `TableText`: MAC addresses, ARP entries and temperatures, where each row is
  matched alone, behind the head of its table; the form of a row says which
  expression or test of the loop it meets.
- `BlockText`: inventory, class maps and power supplies, where a line opens a
  block and the following lines belong to it.
- `DellText`: Dell OS10 neighbors, system and BGP summary.
- `NexusParser` is `cisco-parser` when it is asked for LLDP neighbors, BGP peers or
  transceivers, and `SwitchParser` extends it by all else of `cisco-parser` and
  `dell-parser`: the flag chooses one for the whole run, so that the behaviors of
  `NexusSpec` are those of `Spec` with one of these three flags. They are two
  modules because the proofs about the first would take far longer in a module that
  instantiates all parsers.

External, and assumed: the texts are printed as in the samples and documents of
the repository, one after the other and complete. A BGP peer with a long address
takes two lines, as NX-OS prints IPv6 peers; the repository has no sample of it.

## 4. Runs

| Run | What it asks | Instance |
|---|---|---|
| `subscriber` | six invariants of both goroutines, the ledger, three liveness properties | 2 entries, 3 paths, 2 tables of which one is shared, limit 2, delays 2 and 5, TLS on |
| `subscriber_final_flush` | "Final flush on shutdown": violated | the same |
| `cert` | crash safety of `ca_file`, when the pin may change, no busy loop, recovery | 3 certificates of which one can never be verified, with and without `ca_file`, which is absent, garbage or valid at first; 3 rotations, 2 crashes, 1 edit; examining and reading the file may fail |
| `cert_restart` | recovery after a restart: violated | `ca_file`, one rotation |
| `merge` | that no value is lost in any window | 6 sources: three fragments of a row, two kinds of entities, one whose message is not a map; windows up to 5 entries |
| `poll` | four invariants and two liveness properties of the process | 3 paths, 2 tables, all 24 settings |
| `routing` | four properties of every response | 8 leaves, up to 4 of them in every order, 4 subscriptions, one of which ends at a list; one interface has a slash in its name |
| `routing_keyed` | what a comment says about paths with keys: violated | one subscribed path with a key |
| `discovery` | what a start may leave out, order and uniqueness of the paths, and that a start succeeds | 3 instances, 1 of them without BGP, 5 paths: two BGP templates around a plain path, a template without BGP, a disabled path; answers of up to 4 updates |
| `transform` | a row per entity, with its readings; the newest readings of the system | 34 transformers, each with every form of its answers, up to 2 notifications about up to 2 entities |
| `parsers` | what each of fifteen parsers promises, and that no line stops a loop (deadlock) | texts of 2 neighbors with 8 descriptions of up to 6 lines of 13 kinds, 3 BGP sections of 2 VRFs with up to 2 peers, 2 routes with 2 next hops, 3 interfaces, breakout ports or not, with up to 3 link lengths and 2 lanes, 2 of 3 counter tables for some of 2 ports, 3 rows in up to 2 tables, 2 blocks with 2 rules, 4 Dell units and trays |
| `syslog` | statistics, exit status, test mode | four tools, all flags, inputs of up to 4 lines of 6 kinds |

Why the bounds are enough. The two goroutines of `Subscriber` differ on at most
two tables at a time (one being swept, one being filled); two tables of which
one has two paths give every such pair. With a limit of 2 and two entries a batch
reaches its limit, is drained by the other goroutine between the test and the
drain, and both goroutines hold one entry each; that more entries change nothing
is proved (`EveryEntryInOnePlace`, `BatchesBounded`). Three certificates and
three rotations give a rotation during the probe, during the save and during the
repair of the one before. Three paths with two
tables give a failing, an empty and a good path in one cycle and two paths in
one post. Four of eight leaves give a majority of scalar leaves with a map among
them, two entries of one list, and a prefix that is longer or shorter than the
subscribed paths; the fold treats updates one by one, so that a loss needs two. Two BGP paths and
three instances let a probe fail at the first, at a middle and at the last
instance of a path with another path behind it; four updates for three instances
make every order of names with one of them repeated. A transformer keeps nothing
between entities or calls, so that two of each show a mixture. A parser carries
what it keeps from one thing to the next, so two things show a value that is left
over, and three a section or an interface between two others; the four Dell parts
are a unit, a tray that is recognized, one that is not, and another behind it.
Four lines give a failure before, between and after successes, with a line that is
skipped; more are proved. A description with a line of each kind that the LLDP loop
acts on, in the description and behind an empty line, and a neighbor before and
behind it show what such a line can reach; three interfaces put a breakout port
first, between two others and last, and two of them behind one interface.

Named bounds: `MaxRotations`, `MaxCrashes`, `MaxEdits` limit the environment and
`MaxStrikes` and `MaxUnread` history counters in `CertTrust` (at most one
swallowed read between two waits, hence at most three of four strikes); `MaxWindow`, `MaxSample` in
`Merge`; `MaxUpdates` in `Normalize` and in `Discovery`; `MaxEntities` and
`MaxReports` in `Transform`; `MaxLines` in `Syslog`;
`MaxNeighbors`, `MaxRoutes`, `MaxHops`, `MaxSections`, `MaxInterfaces`,
`MaxTables`, `MaxRows`, `MaxBlocks`, `MaxRules` and `MaxParts` in the parsers. Everything else is finite by itself.
Deadlock is checked in every run: a returned or exited process stutters in an
action of its own (`Stopped`, `Exited`, `Done`, `Called`, `Parsed`).

### Fairness

- `Subscriber`: weak fairness of each goroutine (posts and dials have
  time-outs). A ready ticker and a done context are chosen between at random by
  Go's `select`, and a received message and a done context by `Recv`; hence
  strong fairness of `SeeDone` and of the stream ending as cancelled. Nothing
  makes the switch send, or break a stream.
- `CertTrust`: the process runs and is restarted; probes, writes, loads and
  handshakes may fail any number of times but not for ever.
- `Poller`: RPCs and posts have time-outs, the ticker ticks, the exit timer
  fires. The graceful exit is not assumed: in subscribe mode `Recv` may block.
- `Discovery`: requests have time-outs and systemd restarts a failed process.
  Any request may fail at any start. Assumed of the switch: a Get that is
  repeated for ever is answered with the names some time (strong fairness);
  nothing is assumed of the probes, because no start depends on them.

The other models have no liveness property: a call, a parse and a line of a file
end by their own steps, and that they never get stuck is the deadlock check.

## 5. Proofs

`SubscriberProofs` proves, for all constants that `BatchAssumption` and
`DelayAssumption` admit (at least one path, every path has a table, a limit of
at least 1, 0 < initial delay <= maximal delay):

| Theorem | Statement | Argument |
|---|---|---|
| `TypeCorrect` | `[]TypeOK` | inductive; the delay stays in range because `CapAt` caps |
| `EveryEntryInOnePlace` | `[]OnePlace` | not inductive alone: a goroutine that is not posting must have nothing in flight (`PostingPC`), or a drain would overwrite it. `PlaceInv` is the conjunction |
| `ImplementsLedger` | `LedgerSpec` | buffered is what is in a batch or in a post; drains stutter, adds accept, the end of a post posts or drops; needs `OnePlace` |
| `ShutdownInvariant` | `[]ShutdownInv` | why the return was decided, what is late, and which batches the final sweep has emptied of early entries |
| `ReturnIsQuiescent`, `ReturnFlushesEarlyEntries`, `IdleReturnFlushes` | the three statements about a return | from `ShutdownInv` and `PlaceInv` |
| `BatchesBounded` | `[]BatchBounded` | inductive with `TypeOK`: only the handler adds, and it checks the table it added to before it goes on |
| `BackoffIsExponential` | `[]BackoffExponential` | `DelayInv` ties the variable `delay` to the last wait at every point of the loop, not only in the backoff |

`CertTrustProofs`, for all constants that `CertAssumption` admits (any set of
certificates and of verifiable ones, any first content of `ca_file`, any bounds on
the environment):

| Theorem | Statement | Argument |
|---|---|---|
| `CertTypeCorrect` | `[]TypeOK` | inductive |
| `FileStaysIntact` | `FileIntact` | only a rename and the operator write `ca_file` (`FileWriters`); `PinInv`: what is renamed is what was probed |
| `PinChangesHaveCause` | `RepinHasCause` | `PinInv`: a first save finds no file unless it was edited or `os.Stat` failed on it, a save of the repair follows a rejected handshake |
| `RepairBoundedByReads` | `[]StrikesBounded` | `StrikeInv` says where a repair is after each strike: after one, what is saved and loaded is the certificate of the switch; after two, the file holds it already and the repair waits unless it fails to read it |

`CollectorProofs`, of `Poller`, for all constants that `PollerAssumption` admits (at least one
path, every path has a table):

| Theorem | Statement | Argument |
|---|---|---|
| `PollTypeCorrect` | `[]TypeOK` | inductive |
| `PollInvariant` | `[]PollInv` | `FetchInv`: the paths passed are failed, empty or collected, one of them. `SendInv`: a collected path is given away when its table has left the list and its post has ended. `StoreInv`: a path is stored only once its table is posted, once with each key |
| `CyclesAccounted`, `EntriesStoredPerKey`, `GracefulExitIsComplete`, `OnceStatusHonest` | the four invariants of the run `poll` | from `PollInv` |

`SyslogProofs`, for inputs of any number of lines:

| Theorem | Statement | Argument |
|---|---|---|
| `StatisticsAddUp` | `[]StatsAddUp` | inductive with `PlaceInv`, which says what may be processed where |
| `SyslogInvariant` | `[]SyslogInv` | `WrittenInv` relates the log, the counts and the lines before the next one; `ReadInv` says the same of what test mode accepts |
| `ExitIsTruthful`, `TestsPredict` | `[]ExitTellsTruth`, `[]TestPredicts` | from `SyslogInv` at the end of the input |

`DiscoveryProofs`, for every switch, list of paths and order of failing requests.
`DiscoveryAssumption` is that the switch has finitely many instances and that the
empty name is not one of them (the code uses it for "no name"):

| Theorem | Statement | Argument |
|---|---|---|
| `DiscoveryInvariant` | `[]DiscoveryInv` | the names are distinct and name the instances of the answer; the paths before `at`, and the instances before `ni` of the path at `at`, are accounted for (`AccountOK`), and what is in the result is in order (`Ordered`). `PlaceOK` says which of `at` and `ni` mean something where |
| `AllInstancesAccounted`, `ResultInConfigOrder` | `[]InstancesAccounted`, `[]ConfigOrder` | from `DiscoveryInv` when the collection starts |

`CollectorProofs`, of `Merge` (`MergeSpec`), for every set of sources and windows of any length, under `OneKind`
(without it both are false: see the observations):

| Theorem | Statement | Argument |
|---|---|---|
| `MergeInvariant` | `[]MergeInv` | what was flushed is the merge of a window, and a window has entries of its sources, a source that does not repeat once |
| `MergeLosesNothing` | `[]NoFieldLost` | the loop that groups loses no entry; a group is merged only if its first two maps are disjoint, which under `OneKind` makes all of them disjoint, so that no field is overwritten by the loop that merges |
| `EntitiesStayApart` | `[]KeptApart` | two entries that share a key are entities under `OneKind`, and so are the first two of their group |

`RoutingProofs`, for every set of leaves that `NormalizeAssumption` admits (a list
entry is reported as a map), in responses of any length, order and prefix:

| Theorem | Statement | Argument |
|---|---|---|
| `TextInvariant` | `[]TextInv` | each path is printed as a text with its names and keys; a prefix of the notification is printed once and hence alike in all texts |
| `NoValueInvented` | `[]NothingInvented` | an update adds its value and the keys of the list entries it goes through, and each that it leaves was there before (`Entered`, `UpdateAdded`, `Built`); positions have the names of the path they were reached by, behind a prefix whose segments are counted right if none has a slash |
| `EveryLeafKept` | `[]FactsPreserved`, under `WellFormed` | after every update the tree holds exactly a set of facts (`Represents`): values of leaves and keys of list entries, which `Coherent` says do not contradict each other |
| `RoutedAsSubscribed` | `[]RoutedExactly`, under `WellFormed` and `PlainSubs` | each scalar that is delivered is at the place, with the value, of one in the tree (`Same`), and the subscribed path leads to it (`DrilledSound`); and each to which it leads is delivered (`DrilledComplete`) |
| `EntitiesKeepKeys` | `[]EntityKept`, under `WellFormed` and `NameKeyed` | what the tree holds is facts of the leaves of this response (`SentRepresented`), each with the keys of the entries it is in (`Told`); entering a list moves the key of the entry from the tree to the path (`NamedEntity`, `ToldDrilled`) |

`EveryLeafKept` is the long one. That nothing overwrites what was folded before is
not inductive by itself: it takes to know where each fact is. `Represents` relates
the tree to a set of facts and a numbering `ix` of the list entries among them. A
fact is at the position with the names of its place and the numbers of the entries
on it; no two entries of a list have one number, the numbers of a list go from 1 on
without a gap, and each entry has its key in the tree, which is what the code finds
it by (`EntryElements`, `FoundEntry`). A plain segment keeps all of this because
what is there is a map already (`PlainEntered`); a list segment finds the entry, or
appends one, and the numbering grows by it (`EntryAdded`); the last assignment
displaces nothing but the same fact (`FactAssigned`), since no other fact is at or
below the place (`AloneFacts`, from `WellFormed`). The updates are folded below
their common prefix, so the facts are first cut there (`BelowCoherent`); that no
path ends with the prefix is a consequence of `WellFormed` too (`StemElements`).
`WellFormed` is needed: the observations name what is lost without it.

`RoutedAsSubscribed` adds the drill-down to both of these theorems. The three cases of
`drillDownToSubscribedPath` share one measure, the names that lead to a scalar
(`Reading`): at the path nothing is done, below it the missing names are put before
each position (`WrappedTree`), above it the names of the positions that were entered
are moved from the tree to the path (`DrilledPath`, `DrilledTree`). An update above a
path is only entered if its value is a map; a scalar has the root of its tree as its
only position, and the tree of a folded response has none there
(`NormalizedRoutable`). `PlainSubs` is needed: `routing_keyed` shows what a
subscribed path with a key is given, which is nothing.

`EntitiesKeepKeys` follows one scalar. In the folded tree it is under the keys of its
place, those of the prefix in the path and those of each list entry next to what is in
the entry (`KeyBelow`, `ToldWithin`): the facts are those of the leaves that were sent
and of no others, since a key that another leaf would have reported is not there.
Entering the list takes the key with the entry, because the name of the entry is read
from the element itself and not from the one before it (`KeyEntered`). What is
delivered without entering anything has the keys it had. `NameKeyed` says that the key
of every list is "name". It is needed: `getEntityName` writes whatever key it finds as
"name" (see the observations).

`CollectorProofs`, `DiscoveryProofs` and `RoutingProofs` rest on `Loops`, which turns the two folds of the library into loops with an
invariant. Its constants are a loop body `Op` and an invariant `Inv` of the part of
the input that was read; an INSTANCE for each loop gives them values. The library's
induction theorems cannot be used here, because they take an operator as a
parameter. `Loops` derives induction over a range (`RangeInduction`) from the fact
that inclusion of finite sets is well-founded, and from it that the recursive
functions behind `FoldLeft` and `FlattenSeq` exist and what they compute.

`NexusProofs`, of `NexusSpec`, for every text of `show lldp neighbors detail`: any number of
neighbors with descriptions and lists of VLANs that `LldpAssumption` admits, which
are sequences of any length of lines of any kind the loop tells apart (lists of VLANs:
of the kinds it continues them with), and either end of the text; for every text of `show bgp all summary`:
any number of sections with lists of peers of any length, of VRFs whose AS is known
(`BgpAssumption`); and for every text of `show interface transceiver details`: any
number of interfaces, breakout ports or not, with or without a transceiver, of any
number of link lengths and lanes (`TransceiverAssumption`, which says no more than
what these are):

| Theorem | Statement | Argument |
|---|---|---|
| `NeighborsReportedAlways` | `[]NeighborsReported` | `LldpInv`, inductive: what the loop holds at each position of the text |
| `SectionsReportedAlways` | `[]SectionsReported` | `BgpInv`, inductive: what the loop holds at each line of each section |
| `TransceiversReportedAlways` | `[]TransceiversReported` | `OpticInv`, inductive: whose values the loop holds at each line, and exactly which if the interface is no breakout port |

LLDP. The printout of a neighbor is a block of lines, and the text is the blocks one after
the other (`LldpBlocks`). The text that is left to read is always what is left from
some line of some block on (`Left`, `PrintoutLines`, from what `Loops` says of
appending to and taking the first part of what is flattened). Of a line at a known
position it is known which kinds it can be of and whose value it has (`LineOf`), and
exactly which line it is if the description is plain (`PlainLine`), that is without a
line the loop acts on (`Heard`). `Held` says what the
parser has at each position: the neighbors before this one are saved as they should
be (`Saved`, which is about entries and not about neighbors, because a chassis id in a
description makes a second entry), each begun by a chassis id of the neighbor
it is of (`Begun`) and without a value of another (`OwnEntry`); and the entry in memory
is of this one (`Building`), with values of this one in the entry and in the lists
that are being collected. If its description is plain, it has what the lines read
so far say: the lines of the description, in order and
from line 1 (`DescHeld`), the VLANs, whose lists may be continued on later lines
(`VlansHeld`), and the rest (`RestHeld`). An empty line in the description may end a
neighbor early; then there is nothing in memory up to the next chassis id (`HeldNone`).
There is one lemma for
each kind of line (`NameRead`, `DescriptionRead`, ..., `AllRead`) of a plain
neighbor, and `LineStep` for all of any other. None of the parts
can be left out: what is flushed at the end of a description depends on which lines
were collected, and those on where the neighbor began; and that a description stays
with its neighbor depends on the chassis id, which begins an entry in any state.

BGP. A position is a section, a block of it (the heading, a peer or the empty line)
and a line of that block (`BgpAt`). The difficulty is that a section is complete long
before it is reported: it stays in memory as the address family being read, then in
the summary being built, and leaves only with the first section of another VRF or at
the end. `Open` says that the finished summaries and the one being built together
tell the sections before this one, in order (`Told`, `ToldOf`), and that no two
summaries that follow each other are of one VRF, the one being built included
(`Apart`, `ApartFrom`); `Got` says which peers of the section are in memory after
the first m of them. The header of a section is where it is decided whether the
summary is kept or given away (`VrfRead`): in both cases one more section is told
(`Stored`, `Emitted`). The session type of a peer is told from the AS in memory, so
the invariant says that this is the AS of the VRF from the router line on; a peer on
two lines leaves the memory as it is (`PartRead`).

Transceivers. An interface is a head of two or more lines, three lines for each lane and
an empty line (`OpticBlocks`), and `OpticHeld` says what the parser remembers
at each of them. The name of a breakout port changes nothing, so what is held belongs
to the last interface that is none (`Holder`), and may be of any interface from that
one on up to the one that is being read (`Loose`, `MixedEntry`); at a line of an interface
that is no breakout port it is known exactly (`InHead`, `InLane`). What matters is when it
changes: an interface is reported only when
the name of the next one is recognized, or at the end, and its diagnostics are copied
into it only then (`OpticSaved`). Up to that line the entry has none of them, and the
list of readings holds those of the last lane that was begun (`DomAfter`), which
is why the last lane is the one that is reported; the name of the next interface must
empty the list, or an interface without diagnostics inherits it. At that line the
interfaces from the holder on are its group for good (`GroupOf`), and `SavedUpTo` says what
was reported of the groups before: in full where the group is one interface. `WholeReported`
reads the fields of such an entry off `Whole`, and `WholeAgrees` compares them with what
`parseJSON` gives. Blocks framed by a first and a last one
are common to the BGP and transceiver texts (`Framed`, `TextRead`).

The three parts of `ShutdownInv` are needed together: that nothing early is left
at the return follows from what the final sweep emptied, which is only final
because the context stays done, which is what the decision to return records.

Each property that is proved is checked by a run as well. The inductive invariants of
the parsers are only proved: they speak of positions in the text that the model has no
variable for.

Model-checked only:

- all liveness: fairness and ENABLED are beyond the prover;
- `Transform`: a property of the 34 answers that `SwitchAnswers` lists, which are
  values and not constants of the module;
- the other parsers of `SwitchParser` (`RoutesReported`, `TablesReported`,
  `BlocksReported`): each has its own format and needs an invariant
  of its own over the positions of its text, and several of these properties are
  stated with `SelectSeq`, which the prover cannot expand. The run has a text for each
  thing that may be left over in the entry that is carried from line to line.

## 6. Findings

Each is a run that TLC refutes with a short trace.

- `subscriber_final_flush`: the final flush runs as soon as the context is done,
  while the handler of an earlier response may still add entries. `RunStream`
  waits for the flusher and returns; these entries are neither posted nor
  reported (`internal/collector/subscriber.go:118`). What was there before the
  signal is safe (`EarlyEntriesFlushed`, proved).
- `cert_restart`: with a `ca_file` a rotation while the process is down makes
  every start end in `log.Fatalf` after Capabilities
  (`cmd/gnmi-collector/main.go:78`). The documentation promises recovery from
  rotations without this exception.
- `routing_keyed`: update paths are compared without keys, subscribed paths with
  theirs (`subscriber.go:358`): a path with a key, as Discovery makes them, is
  never delivered in subscribe mode.

Observed while modelling, without a run of their own:

- Without `ca_file` the repair re-creates the client and continues with no wait
  (`subscriber.go:178`); a certificate that is fetched but can never be verified
  makes this a busy loop. `StrikesBounded` holds with `ca_file` only, which is
  what `cert` checks.
- `BootstrapCert` takes every error of `os.Stat` for a missing `ca_file`
  (`tls.go:162`, without `os.IsNotExist`; its comment says "if the file doesn't
  exist"): a passing error of the file system at a start, or when the repair
  builds its client, makes it probe the switch and save what it presents over the
  pin. `RepinHasCause` names this as the second cause of a new pin.
- `RefetchAndSave` swallows a failing read of `ca_file` (`tls.go:247`): the
  certificate that the file holds already counts as a new one, is saved again, and
  the loop connects without a wait. With a certificate that no handshake accepts
  this is a busy loop as long as the reads fail; `StrikesBounded` counts one
  handshake more for each of them.
- `RefetchAndSave` compares the probe with the file, not with the pool in use
  (`tls.go:255`): after an operator has installed the new certificate while the
  process runs, every repair says "unchanged" and the old pool stays. The same happens when
  `NewClient` could not read the file it had just saved. Both are in
  `BeyondRepair`, the exception of `Recovers`, with certificates that nothing
  verifies and restarts on a stale `ca_file`.
- `mapsOverlap` compares the first two entries of a group only
  (`collector.go:218`; its comment says "any two"). In a window with CPU, memory
  and CPU again the second CPU sample is merged over the first, and the row mixes
  two times. It takes a source that reports twice in a window: a sample interval
  below the 30 s after which a batch is flushed, or two samples that arrive late;
  the configurations in the repository sample each 60 s or less often. This is
  what `OneKind` excludes; with `Repeats <- MCSource` in `MCMerge.cfg`, and without
  the assumption of `MCMerge`, TLC finds the loss with three entries.
- A flush between the CPU and the memory sample makes two rows of one half each
  (`subscriber.go:518`), where `design.md` promises one.
- In subscribe mode `-output` is ignored and no logger exists: every batch is
  given up (`subscriber.go:528`). `Poller` models this (`Sink` is "nowhere").
- A key value with a slash (`eth1/1`) is counted as two segments of the common
  prefix (`internal/gnmi/client.go:657`), which `splitPathSegments` had counted as
  one: in a response about that interface alone, leaves directly below it are
  skipped and others lose a level. `SlashFree` is the exception in
  `FactsPreserved`, `NothingInvented` and `RoutedExactly`; without it TLC finds
  the loss with two leaves. A slash in any other segment does no harm.
- An update that is a map, and whose path is the common prefix of its response, is
  skipped by the fold (`client.go:664`): it is lost if the response has more leaves
  than maps, such as a list entry reported as a map before leaves of that entry.
- List entries are told apart by the key printed first, and keys are printed in
  the order of a Go map (`client.go:784`, `client.go:890`): entries of a list
  with two keys may fall together. The leaves of `routing` have one key each.
- An update below the subscribed path is delivered under the subscribed path,
  without the keys of its own (`subscriber.go:376`). `EntityKept` is stated for
  the two other cases.
- Entering a list, an entry without a "name" is called by its "id" or "index", and
  the key is written "name" all the same (`subscriber.go:441`, `subscriber.go:457`); an
  entry with another key, such as the address of a BGP neighbor, is entered without
  a key. `EntityKept` holds where the lists are keyed by name, as `routing` has them.
- Transformers are looked up by YANG path (`subscriber.go:82`): of several
  enabled paths with one YANG path, as in `config.sonic.yaml:167-186`, only the
  last transformer is called.
- A disabled path with a template is passed through unexpanded, as a test says
  it should (`discovery_test.go:131`); if another template is enabled, the final
  check (`discovery.go:103`) then refuses to start because of it. The instance
  of `discovery` has no such path; with one, no start succeeds.
- The names of several instances in one Subscribe ONCE notification are folded
  away before discovery sees them: such a start fails with "no instances", and
  an answer that mixes such a notification with one about a single instance
  loses instances silently.
- A BGP probe does not fall back when Get answers with empty values, as
  discovery itself does (`discovery.go:240`): "configured" and "not configured"
  then look alike. A start whose templates expand to nothing runs, and collects
  nothing.
- "direct" contains a d: the route parser takes it for an age
  (`ip_route_parser.go:196`), the protocol stays empty and the age is overwritten
  (its sample output `ip_route.json` shows `"age":"direct"`, its README the
  protocol), and a route that is not `attached` gets no type from it, where the
  README (`ip_route_parser/README.md:129`, `:142`) and a test of
  `determineRouteType` (`ip_route_parser_test.go:60`) say `direct`. `HopsFiled` and
  `TypeOfRoute`, parts of `RoutesReported`, demand nothing of the age and protocol of
  such a hop, and of the type of such a route only that it is none of a
  protocol it does not have. A route whose protocols are not recognized has an empty type
  and not the documented `unknown`.
- An age below a day (`00:12:34`) is not recognized and not reported.
- The LLDP parser drops a system description that has an empty line, and all
  fields behind a second empty line (`lldp_neighbor_parser.go:180`). It looks for a
  chassis id (`:203`), and for the port ids, the port description, the system name
  and the time (`:234`), inside of a description too: a line of it that begins
  like one of these makes a second entry of the neighbor, or overwrites what the
  switch printed and is missing in the description; the time also ends the
  description. Of the two parts of `NeighborsReported`, `Complete` is stated for
  descriptions without a line the loop acts on, `Unmixed` for all.
- The BGP parser passes over a peer that is printed on two lines
  (`bgp_all_summary_parser.go:283`); `PeersKept` says the others are not harmed.
- Of a transceiver with several lanes the text form reports the last, the JSON
  form the first (`transceiver_parser.go:267`), and only the JSON form its number
  (`:291`). Of several link lengths the text form reports the last (`:483`), the
  JSON form the first of copper, OM3, OM2 and 62.5/125um (`:225`). The JSON form has no
  cable type, although `transceiver_parser/README.md:98` promises "All text format fields
  in structured JSON". `FormatsAgree` claims none of these, and holds for all other
  fields. In the text form a value that is
  flagged (`++`) has one more column, so that the thresholds behind it shift.
- The text form does not recognize the name of a breakout port (`Ethernet1/36/1`,
  `transceiver_parser.go:372`; the JSON sample and the test have one): no entry
  is made of it, and the lines below overwrite the fields of the interface before it.
  `TransceiversKept` says that nothing reaches an interface before or behind these, and is
  exact for an interface that no breakout port follows.
- `parsePath` splits configured paths at every slash, also inside of a key value
  (`client.go:375`), against the example in its own comment.
- `interface_status_parser.go:102`: a type that ends like a cut one
  (`10Gbase-SR`, `-LR`, `-CR`, `-P`) is held back for a rest that does not come;
  the interface is lost when another row follows, unless it is the last, and may
  get the rest of a row that was not read. A cut type whose visible part ends in none of
  the seven ways of `isIncompleteLine` (`:236`) is reported cut and its rest is dropped,
  and a rest of more than four characters is not taken for one. `StatusReported` demands the
  whole type of the others only, and that all of this costs no other interface anything.
  A name that holds a status word (`uplink up`) is taken for the status.
- An ARP entry with the flag `#` ends like the prompt and is dropped
  (`ip_arp_parser.go:77`), although the parser has a field for the flag (`:33`, `:179`)
  and its README documents it (`ip_arp_parser/README.md:154`). `RowsReported` asks nothing
  of such an entry, so that it holds with and without it.
- ARP entries without an age (the switch's own) or of incomplete neighbors,
  and temperature sensors without digits, are not reported. A MAC
  row marked `~` is read one column too far to the left, and its VSAN is never
  true. A MAC text without a table is an error, not an empty table.
- An inventory item with quotes in its description is lost. A class map with
  `====` in its description loses the description and its rules; `match any` has
  no value and is not recognized. Absent power supplies, printed as dashes, are
  skipped.
- Dell OS10: a line of dashes in a description makes two neighbors of one; the
  fans of a tray that is not recognized go to the tray before it; a BGP summary
  without neighbors is dropped unless it is the last, and the VRF is always
  "default".
- `lldp_syslog` stores a neighbor at each separator only, also an empty one, and
  exits with 0 after a `logger` that failed; the field expression of
  `show_interface_phy_eth` cannot match names of several words.
- `RegisteredNames` is said to be sorted (`registry.go:53`) and is in map order;
  `getInt64Multi` is said to return the first value that is not zero
  (`interface_ethernet.go:67`) and returns the first key that is there.
- Counters of a BGP address family are taken from the last container that has
  them, those given plainly from the first family (`bgp_summary.go`).
- Transformers about the whole system make an empty row of an answer without
  data; that of the route summary carries the clock of the collector and not the
  time of the answer (`native_route.go:41`, `common.go:32`). A reading that is
  absent looks like a reading of zero.
- `syslog-client/main.go:320` calls functions that `syslogwriter.go` of this
  repository does not have; the client does not build against it. `Syslog` models
  the client as if it did, with known and unknown names of levels.
- The README of the syslog tools says that oversized entries are truncated and
  processing continues (`SyslogTools/syslog-client/README.md:207`); a line of 64 KiB ends the
  file instead, with status 1. A truncated entry is not JSON any more. A maximum
  size below 3 panics (`syslog-client/main.go:141`); `StatsAddUp` excepts this.

## 7. Not modelled

- Configuration and the decoding of typed values: pure functions of data. Their
  guarantees (an enabled path, positive intervals, maps and lists of leaves) are
  assumptions of the modules.
- The content of Get and Subscribe ONCE: `Poller` and `Discovery` take it as an
  input. The cap of 1000 notifications is a hazard without a property.
- Conversions of single values in the parsers and transformers (durations,
  numbers, thresholds, dates), the stand-alone main functions of the parsers, and
  the text that `lldp_syslog` and `show_interface_phy_eth` read.
- `interface_counters_parser`: its tables are joined by the loop that
  `CounterText` models of the error counters. The remaining parsers of both
  families (version, uptime, resources, CPU, Dell interface status, inventory and
  temperatures) match one line at a time or read labels into one entry.
- The onboarding scripts, the Arc guest services, the usage monitor and the
  workflows are not part of the running programs.
- Timing is abstracted to order: no property is about how long a delay is, only
  about which one it is.

## 8. How to run

    tlc -workers 2 -config MCSubscriber.cfg MCSubscriber
    tlapm SubscriberProofs.tla      # and CertTrustProofs, CollectorProofs, SyslogProofs,
                                    # DiscoveryProofs, Loops, RoutingProofs,
                                    # NexusProofs

`PROJECT.json` lists the runs with their configurations, the mutants (a
definition and a faulty version of it, defined just before it under the comment
"Seeded fault", with the property that must then fail), the map from definitions
to source lines, the hazards and the theorems.
