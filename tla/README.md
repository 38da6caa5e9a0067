# A TLA+ verification of musubi

musubi turns recorded unmanned-system data into evidence envelopes, carries them through links
that go down, and hands them to consumers of several dialects without losing their trust fields.
This directory holds TLA+ models of the parts of it that keep state or decide an order, TLC
configurations that check them on small instances, and TLAPS proofs for every value of the
constants. All paths below are relative to `src/`.

The program has no threads, locks or async code. What makes it hard is elsewhere. In the Rust
crates the methods of a stateful object are called in any order and any number of times by code
that is not here (a transport's link callback, a retransmitting sender, a person on shift),
evidence arrives out of causal order, queues are bounded, and one consumer of several may fail. In
the Python converters the order is in the data: packets lost, repeated or interleaved by whoever
recorded them, number spaces that wrap, windows cut out of longer files. And their output is
published by processes that may fail, die, or run twice on the same target.

## The system

| Component | State | Operations | Who calls it |
|---|---|---|---|
| Vector clock (`crates/core/src/vector_clock.rs`) | a counter per source | `increment`, `merge`, `relation` | whoever emits or receives an update |
| Store-and-forward buffer (`crates/core/src/store_and_forward.rs`) | queue, replay window, link gate, counters | `with_capacity`, `set_link`, `push`, `drain` | the pipeline pushes and drains, the transport's callback sets the link |
| DDIL profiles (`crates/core/src/ddil.rs`) | none (tables) | profile to ORDER_UNKNOWN policy | looked up when a drained item is routed |
| MARK, canonical bytes, seal (`crates/core/src/lib.rs`) | none | `derive_mark`, `seal_digest`, `verify_digest` | adapters, then whoever re-checks |
| Quarantine boundary (`crates/core/src/quarantine.rs`) | none | size, encoding, nesting checks | readers, before parsing |
| Fan-out (`crates/northbound/src/fanout.rs`) | one report per call | `fan_out` | the reference run, once per step |
| Human review lane (same file) | entries, sequence counters, owner, handoff log | `push`, `ack`, `handoff`, `pending`, `oldest_pending_age` | the run pushes, a person acknowledges and hands over |
| Reference run (`crates/reference-fanout/src/lib.rs`) | reports, lane, totals | `build_steps`, `run`, `concat_by_dialect` | the `fanout` binary |
| Readers, absence detector, cause classification (`crates/reference-readers/src/`) | none | parse, detect, classify | the pipeline |
| Adapters (`crates/adapter-*`) | none | one record to one envelope | the pipeline |
| Dialect policies (`crates/northbound/src/*_policy.rs`, `host_state_json.rs`) | none | format and validate | the sinks |
| Converters (`scripts/convert_*.py` and a few beside them) | the local variables of one loop over a saved file | `convert()`: carry, count or refuse each record | `main()`, from a command line |
| Publication (the tail of every `main()` under `scripts/`) | the files of one target | create, open, write, undo | one or more processes |
| Simulation, evaluation, viewer, conformance, the generators and checkers among `scripts/*.py` | none that outlives a call | batch jobs and tools | a person |

How they meet: an adapter makes an envelope with a clock beside it; `push` queues it unless the
replay window knows its content; `drain` hands out the queue in causal order with an
ORDER_UNKNOWN flag per item; the envelope goes to `fan_out`, which gives each sink the envelope,
or withholds it where the sink cannot carry its MARK; what was withheld goes into the lane, where
a person reviews it and hands what is left to the next shift. The shared objects are the buffer
(pushed, drained and gated by different callers) and the lane (filled by the run, reviewed and
evicted from independently). Everything is in memory; nothing is restored after a restart.

The converters come before all this: each turns one saved export (a packet capture, a bag, a
journal, a fleet server's answers) into rows of a CSV, which the readers take in. They do not
call each other. A converter reads its bounded input once, in order. For every record it either
writes rows, or passes it over and counts it in the report, or raises `ValueError`; then nothing
is written. What its loop remembers between records (open transfers, waiting requests, the canvas,
the last stamp, identifiers seen) is where it can go wrong. Afterwards `main()` creates the target
and writes a fixed list of files; the file system is the only thing two processes share.

What makes each stateful part correct:

- **Buffer.** Queue and window keep their bounds; each accepted frame is in exactly one place
  (waiting, handed out, or handed back as evicted); eviction takes the oldest; a retransmission is
  refused for as long as the window remembers, whatever happened to the first copy; a batch shows
  no effect before its cause and is otherwise left in arrival order; ORDER_UNKNOWN is raised only
  where the place of an item really is open, independently of arrival order; the sort always
  finds a next item (its `expect` would otherwise panic after the queue was emptied).
- **Lane.** Each sequence number issued is held or was handed back; an unreviewed entry is given
  up only if nothing reviewed could go instead, oldest first; unreviewed entries belong to the person
  on shift, reviewed ones keep their reviewer; the handoff log is an unbroken chain.
- **Fan-out and run.** A failing sink takes nothing from the others; a sink shows a faithful MARK
  or nothing, and where nothing, the ledger or the outcome says so; whatever is withheld reaches
  the lane; the totals agree with the streams; a run returns only after its last step.
- **Converters.** What is put together from parts has all its parts, in order, and none of
  another message; a conclusion (a limit held for a duration, a state that changed, two rows of
  the same identity, a reply to a request) rests on records that follow each other without a gap
  and is not drawn twice from one record; a window has its records and no others; every byte or
  record is carried or counted; where several answers are possible the result says so instead of
  choosing one.
- **Publication.** A file one process published is never changed by another; a report never
  stands without the data it reports; a refusal leaves nothing where the tool undoes its files.

## Modules

| Module | Models | Correspondence |
|---|---|---|
| `CausalClock` | `VectorClock` | A `BTreeMap` in which a missing key reads 0 is a total function. `MaxCounter` is `u64::MAX`. `Relation` collects two flags and matches on the pair, as the code does. |
| `CausalDrain` | `causal_sort`, `annotate_order_unknown` as functions | `Ready` is the condition of the inner scan, `Least` that the scan goes upward, `EmissionOrder` the rounds. |
| `StoreAndForward` | `StoreAndForwardBuffer` | Variables are its fields; `Init` is `with_capacity`; `SetLink`, `Push` (rejected, accepted, evicting) and `Drain` (down, up) are its methods. `pushes`, `accepted`, `delivered`, `evicted` and `batch` record what the caller saw and are never read by the code. |
| `CausalOutbox` | the promise of the buffer | No window, no counter, no sorting algorithm: refuses only known contents, gives back only the oldest of a full queue, releases all of it in *some* linear extension of causality. `StoreAndForward` implements it (`ImplementsOutbox`). |
| `CausalSortLoop` | `causal_sort` as a loop | One action per round and one for the return; a round without a ready item is the panic of the `expect`. |
| `HumanLane` | `HumanLane` | Variables are its fields; `Push` (kept, evicting), `Ack`, `Handoff`; `OldestPendingAge` with its saturating subtraction. `evicted` and `reviewer` record what the caller was told. |
| `FanOutRun` | `run` with `fan_out` inlined and the lane as an INSTANCE of `HumanLane` | One publisher of one step, or one withheld envelope, per step of the model. An envelope is reduced to its MARK status and the shape of its observation, which is all that decides its fate at the four sinks; the capabilities and error conditions come from the sinks' code. |
| `StoreAndForwardProofs`, `CausalDrainProofs`, `CausalSortProofs`, `HumanLaneProofs`, `FanOutRunProofs` | theorems | see below |
| `OrderLemmas` | facts about finite orders, sequences, rows put in order, places in pieces of given sizes | shared by the proofs |
| `RtpRecords` | `convert_rtp_records` | Per source: highest number, cycles, epoch, remembered numbers, highest timestamp. Sequence and timestamp arithmetic is modulo `RtpSeqMod` and `RtpTsMod`. |
| `RtpH264` | `convert_rtp_h264_stream` | The access unit and the FU-A chain under assembly; every ambiguity refuses the capture, as in the code. |
| `CanTransport` | the four transports of `convert_dronecan_capture` | One action per protocol; `canPending` holds the open transfers. |
| `RequestMatch` | `convert_request_response_match` | `mRows` are the rows read; the indexes and doubts of `convert` are operators over them, and each request gets one outcome. |
| `SavedLists` | dictionaries, lists, and rows put in an order, as operators on values | a `dict` with a key set or deleted, `sorted` with a key |
| `SavedLines` | what the converters and the readers' scans share | see below |
| `ReaderScans` | three scans of the Rust crates: the absence detector, the observation grid of `build_steps_with`, the nesting check of the quarantine boundary | Each goes once over a list and is treated as one more converter: `fed` are the observations or bytes, `lines` the absences or observation steps. The definitions follow the passes of the code: window, frozen rule, admitting fields, stretches; the fold of `position_at`; the three locals of the nesting check. |
| `SavedEvents` | eight converters that conclude something from several records | Electrical events, state transitions, video intervals, ages, row identities, unique identifiers, software versions, gateway links. `EventSpec` is these eight as one specification, with `EventRecords` and `EventDeclarations` (constants) saying what each may be given. |
| `SavedHosts`, `SavedRovers`, `SavedFlight`, `SavedMissions`, `SavedLinks`, `SavedFleets`, `SavedServers`, `SavedBags`, `SavedPackets` | seventy-six converters of saved records, by the kind of system that saved them | One operator per round of a converter's loop and one for what follows the loop; a comment before each says what its declaration, its records and `held` stand for. |
| `SavedConversions` | these seventy-six as one specification | One converter and one declaration per behaviour. `Records` and `Declared` (constants) say what each may be given, with the assumptions its reader establishes beforehand; the properties of several converters are put together here. |
| `SavedOutput` | how a `main()` publishes | `disk` maps a name to who wrote it and whether it is whole; a process is converting, creating, writing, undoing, or has ended. |
| `SavedOutputTools` | each `main()`'s list of files | One definition per script, named after it: the files in the order written, and what the tool asks and undoes. |
| `SavedOutputProofs`, `SavedReaderProofs` | theorems about `SavedOutput` and `SavedConversions`, and about `RequestMatch`, `CanTransport`, `RtpRecords`, `RtpH264` and `SavedEvents` | see below |
| `MC*` | instances for TLC | frames, queues, step lists, symmetry |

`replay_key` hashes an injective encoding of platform, position, mode, time of observation and
claim; SHA-256 is taken to have no collision, and the fields other than the platform are one
value, `content`. The receipt fields that stay out of the key are `received_at`. The clock is
outside the key as in the code: a stationary platform that reports the same content under a later
clock is a duplicate.

**The framework of the converters.** `SavedLines` has the variables of any converter: `declared`
(its arguments or declaration file), `fed` (the records read), `lines` (the rows written),
`passed` (what it counted instead), `keys` (the set it refuses duplicates with), `held` (its other
local variables) and `verdict`. A behaviour picks one converter and one declaration, feeds it
records one by one, and ends it. `ReaderScans` uses the same frame, without `Refuse`: its scans
take any list, and only the nesting check has an error, which is an action. `Refuse` is always possible, because every converter bounds its
input and checks the form of every cell, and those checks are left out; a guard of an action is a
condition that relates a record to other records, to the declaration, or to its own fields. That
hides nothing the properties say: they are about what is in the output while the converter has
*not* refused. `fed` is the input itself; the properties compare the output with it. Values are
reduced to what the conditions tell apart: a stamp is a small number, a payload or an identifier a
name, an unavailable cell is `Absent`.

A definition whose name starts with `Mutant` stands just above the definition it distorts and is
used by no specification. It replaces that definition in a run of its own, to show that each
property fails when the code has the plausible bug the mutant describes (`PROJECT.json` lists the
pairs).

## Runs

| Run | Question | Instance |
|---|---|---|
| `sf_causal` | Does a drained batch respect causality, flag only what is open, lose nothing, and is the buffer a causal outbox? | five frames of two sources: two chains of two and a frame after both; capacities 1, 3, 4; five pushes |
| `sf_replay` | Do the type, counters, eviction order and the replay guarantee survive retransmission? | same content with another receipt and with a later clock; capacities and windows 0 to 3; five pushes |
| `sort_loop` | Is the loop of the sort safe, stable, terminating, and equal to the function `drain` is modelled with? | every queue of at most four items over the eight clocks of three sources with counters 0 and 1 |
| `human_lane` | Is anything withheld lost, given to the wrong person, or evicted before its turn? | five pushes, two handoffs, two people, capacities 0, 2, 3 |
| `fan_out_run` | Are failures isolated, trust fields kept or reported, the lane large enough? | four sinks, every list of at most two steps over three statuses and four shapes |
| `saved_transport` | Are numbers, streams or transfers ever joined over a gap, a wrap, a restart, or from two senders? | RTP: four packets over number spaces of 8, two sources; H.264: five packets over three numbers; CAN: six frames of each of the four protocols, two senders |
| `saved_events` | Is a conclusion ever drawn over a gap, or a reply credited twice? Is a silence unreported, a dead source shown as fresh, a text judged against its structure? | eight converters over up to four records; four rows of requests and responses under each declaration; three observations in any order under five expectations, four positions of two sources, every text of six bytes |
| `saved_records` | Is what twenty-nine of the converters put together whole, are their windows exact, is what they read carried or counted? The others have no property of their own. | seventy-six converters over every file of one to eight records (`RecordBound` gives the number per converter) |
| `saved_output` | Do reports stand without data, do refusals leave files, do processes overwrite each other? | every tool but one, two processes on one target, each refused, failing at any file, killed or done |
| `nothing_written` | `convert_rtp_h264_stream`: "nothing was written" | violated, see findings |
| `sf_drain_doc` | The doc of `drain`: `pending_len + drained_total` is always the number of pushes | violated, see findings |
| `sf_incomparable` | README, `mark.rs`, doc of `drain`: incomparable updates are marked ORDER_UNKNOWN | violated, see findings |

**Why the bounds are enough.** An order violation of the sort needs a cause, an effect and one
intruder; the flags need a batch with and without a floater; four items also give two chains and
a diamond. Five frames let an item be overtaken by two others, and five pushes fill a
queue of four and evict, or drain one batch and fill another. A window of 1 or 2 keys forgets
within five pushes, whether shorter or longer than the queue; 0 exercises the constructor's clamp. A lane of three with five
pushes evicts twice, once from the middle if the reviewer acknowledged there, and two handoffs
give a predecessor, a holder and a successor. Four sinks with two steps put a failure before and
after a success within a call and between calls. The bounds are `MaxPushes`,
`MaxHandoffs`, `MaxCounter`, `MaxLen` and `MaxSteps`; the bounded calls are guards of the modules, so the
counters are finite without a state constraint.

For the converters the bounds are `MaxRecords` (per converter), `MaxRtpPackets`,
`MaxH264Packets`, `MaxCanFrames` and `MaxMatchRows`. Each is the length at which that loop can go
wrong: a reassembly of two or three parts with an intruder, a repetition or a loss; a run that
begins, breaks and begins again; two requests and two replies; a window with a record before, in
and after it. Three observations give a frozen value with a beginning, a middle and an end, or
a silence before, between and after two of them; six bytes hold a string with an escape inside a
nesting of two. The number spaces are reduced (`RtpSeqMod`, `H264SeqMod`, `SequenceSpace`: 2^16 and
2^32 in the code; `StreamLimit`, the 16 MiB of `convert_imc_sensors.LIMIT`, is 5 of 8 numbers here; three numbers for H.264, so that a chain in five packets can span a wrap)
together with the distances the code compares them with (`MaxDropout`, `MaxMisorder`,
`MaxForward`), so that every comparison has both outcomes and a wrap is reached within the bound; `RtpWindows` states how they relate in the code. `RecentSequences` and
`MaxSources` are 2, so that both are exceeded. Two processes are enough for publication: what a
process finds depends only on whether a name exists and whose it is, and the theorems hold for any
number.

**Symmetry** is used in `human_lane` only, over the people on shift: no expression there tells them
apart, and the run checks no liveness.

**Fairness.** `causal_sort` is a sequential function of the program: once called it goes on, so its
specification states `WF_vars(Next)` and nothing stronger, and deadlock is not checked there because
a function that has returned does stop (that it cannot stop earlier is `NeverPanics`, that it
finishes is `Returns`). `run` is a loop over its steps and sinks that no error leaves; that it ends
is plain, so no liveness is claimed for it, and `EverySinkIsServed` says that what it returns covers
every step. The buffer and
the lane are passive objects: nobody is obliged to call `drain` or `ack`, so nothing is assumed
fair about them and no liveness is claimed for them. The converters and the publication claim none
either: a process may be killed at any point. They end, by their verdict or exit, so deadlock is
not checked in their runs.

## What is proved

For every set of sources, contents and people, every `MaxCounter`, capacity, window and number of
calls:

- **`StoreAndForwardProofs`.** `CountersConserve`, `QueueIsMostRecent` and `ReplaysAreSpaced`
  with `TypeCorrect` are the four invariants of `sf_replay`; `BoundsHold` adds that queue and window
  keep their bounds, and `QueueHasNoTwins` what follows from these: `PendingDistinct`. The inductive invariant `IInv` adds
  `WindowIsMostRecent`, a statement about two pieces of state: the window is exactly the keys of
  the last min(accepted, window cap) accepted frames. With it, a push that passes the window's
  test differs from all of these, so two equal contents lie more than the window apart
  (`KeySpacing`, which is `ReplaySpacing` because `KeyIsContent`: no receipt field enters the
  key); and as the queue is a suffix of the accepted frames no longer than the capacity, a window
  of capacity - 1 keeps the queue free of twins.

  Every property of `sf_causal` is a theorem too. `BatchComesFromDrain` says that a batch is the
  annotated sort of *some* queue; with what `CausalDrainProofs` says of the sort,
  `BatchesAreCausal` and `FlagsAreSound` follow. `FlagsIgnoreArrival` moves the flags along a
  permutation of the queue. `NothingIsDropped` counts copies of a frame (`Ledger`): each action
  moves one or all of them from one place to another, and `TimesConcat` and `TimesSorted` say that
  concatenation and sorting keep the count. `BufferIsAnOutbox` is the refinement: `InitImplements`
  and `NextImplements` map each action of the buffer to one of `CausalOutbox` or a stutter, the
  refusals by `RefusedIsSeen` (the window forgets but never invents), the drains by
  `SortedIsExtension`.
- **`CausalDrainProofs`.** About clocks: `HappensBefore` is irreflexive and transitive, `Merge` is
  the least upper bound of two clocks, and `Increment` moves strictly forward except at
  saturation. About the recursive function `CausalSort`, for queues of any length:
  `SortPermutes`, `SortIsCausal` and `SortKeepsCausalQueue`. A recursive definition has to be
  shown to have a solution; `RoundsExist` does so by a least counterexample in place of an
  induction. `SomeoneIsReady` then says that each round finds an item (clocks are acyclic), and
  `RoundsPickReady` that it is the least ready index not taken yet; the three theorems read off
  the finished order.
- **`CausalSortProofs`.** For every input queue: `LoopNeverPanics`, `OutputIsCausal`,
  `OutputIsPermutation` and `StableUpToCausality`. `LoopNeverPanics` rests on `MinimalElement` (a
  nonempty finite set has a minimal element under a strict order), applied to the items left; its
  proof uses irreflexivity and transitivity from `CausalDrainProofs`. The inductive invariant
  adds `RoundsPickLeast`: each index was the least ready one given those before it. By the same
  fact `LoopReturnsCausalSort`: the loop, when it returns, has computed `CausalSort`.
- **`HumanLaneProofs`.** The seven properties of `human_lane`: `NothingVanishes`, `OrderIsKept`,
  `ShiftContract`, `ReviewersAreKept`, `CustodyIsUnbroken`, `AgeCoversBacklog` and the action property
  `EvictionSparesUnreviewed`; beyond the run, `TypeCorrect`. The properties need each other. That a reviewer is kept over an
  acknowledgement needs the number to be unique, hence the order of the numbers *and* that no
  evicted entry shares one (`Partition`); that the reviewer is the entry's owner at all is the
  shift contract of the moment before. `PushedBack` and `Removed` treat a push as the code does,
  first longer than the capacity, then one shorter. `AgeCoversBacklog` counts: the other entries
  that wait have distinct numbers above the oldest one, so there are no more of them than its age
  (`AgeIsEnough`); `FreshIsContiguous` is the part about a lane nobody has reviewed yet, whose
  numbers have no holes.
- **`FanOutRunProofs`.** The four safety properties of `fan_out_run`, for every list of sinks,
  repeated dialects included, and every list of steps, and `TypesAreRight`. `FailuresAreIsolated`
  and `TrustIsReported` speak of finished reports; the inductive invariant says what a report is
  after each sink: one outcome per sink served, in order, and entries in the ledger for exactly
  those that did not fail (`ReportOf`). `NextSink` is the argument: whichever of the four ways a
  sink's turn ends, the report is that of one sink more, and a failure changes nothing for the
  next; `ReturnsAtTheEnd` adds that the run goes on to its last step. `TotalsAreRight` adds that the totals count the outcomes (`Counting`): each is published,
  withheld or failed (`ThreeEnds`), so a finished step adds as many as there are sinks, and one
  more publication is one more piece of output (`SentNext`). `LaneIsLargeEnough` then needs no
  more than that the withheld of all steps are at most steps times sinks, which is the capacity
  `run` gives the lane: whenever one is routed there is room for it (`RoomForOne`), so the lane
  never evicts.
- **`SavedOutputProofs`.** For any number of processes and any set of safe tools (`SafeTool`: a
  directory of its own or mode `"x"`; only loose files are all taken back), `PublicationIsFinal`
  and `RefusalsAreClean`. Neither is inductive. The
  invariant says who owns what: a working process still owns every file it opened
  (`OwnsWhatItWrote`), everything in a directory belongs to the one process that made it
  (`DirectoryHasOneOwner`), which has opened all of it (`WriterKnowsItsFiles`). So a writer never
  meets a name that exists, and opening for writing replaces nothing even in the tools that do not
  say mode `"x"` (`OpensNewFile`); and whoever makes the directory finds nobody at work.
  `FirstFileFirst` and `RollbackKnowsItsFiles` carry what a refusal may leave. The premise is a
  condition on the tools, not on behaviours: `ToolsAreSafe` in `MCSavedOutput`, evaluated by TLC
  on every tool under `scripts/` but `convert_ping_frames`, which does not meet it.
  `AccountsHaveTheirData` is the third property of the run, `DataBeforeAccount`, for any tools
  that write their accounts after the data they speak of (`OrderedTool`, checked of the same tools
  by `ToolsAreOrdered`). Its invariant `OrderInv` goes along the list of files: what a process has
  behind it is whole and its own or was left out (`BehindIsWhole`), and nothing of it lies ahead
  (`AheadIsEmpty`). Taking back is the case that needs care: a directory loses only the file being
  written (`UndoesTheLast`), so a process killed while undoing leaves no account alone, and an
  output described by a sidecar is the last file, after which nothing is taken back
  (`OutputEndsTheRun`).

  Two converters have a specification of their own beside the run that reads them with all the
  others (`CanvasSpec`, `EchoSpec`: the same actions, any frames and packets), and a theorem each.
  `CanvasesAreLatest` is `CanvasIsLatest`: the canvas that is held, and not only a drawn one, shows
  the latest of the frames read, so a row only has to be a copy of it. What a frame does to it is
  one of `ShownEmptied`, `ShownWritten` and `ShownAgain`. `EchoesFindTheirReplies` is
  `EchoesArePaired`. Its invariant `EchoKept` says that the request a key waits with is the only
  one of its key, in no row yet, with no reply of its key after it (`WaitsAlone`); that what was
  read is waiting or in a row (`AllTold`), in one only (`Once`); and that a key is never ambiguous
  and answered at once, so an answered key gets no second request (`RowStaysSound`). `EchoStep` is
  the step in general, each branch of the code an instance of it; at the end what still waits is
  written (`EchoEnds`).

  The three properties of `saved_records` are theorems of `SavedConversions`: files of any length,
  any declarations and records its ASSUMEs admit. Each is a conjunction of what seventeen, three or seven
  converters promise, and each conjunct has an inductive invariant of its own, which says of the
  loop's variables what the property says of the output.
  - `NothingIsLost` is `AccountsAreComplete`: bytes of streams, runs of a map, and the records of
    the host reports, are carried or counted. Counts are sets of positions or of bytes
    (`TotalOf`), so that one record more is one position more, without a sum.
  - `SelectionsAreExact` is `WindowsAreExact`. For a bag it ties the groups to the chunks the reader
    has passed; for a data array, whose window runs over several groups, to the number of values
    in all groups read (`TotalOf` again); for an ArduSub session, the rows to the positions read.
  - `PartsArePutTogether` is `ReassembliesAreSound`: a WebSocket message, a status text, a ULog
    stream, a parameter, an IMC stream, a batch and a chain of pages. The TCP stream is the one that
    needs an argument. `TcpInv` says that each selected packet's bytes lie where their sequence
    number puts them, counted from the opening one modulo `SequenceSpace` (`PlaceOf`), that the
    segments told cover the stream from its first byte to its last (`SpanIsSo`), and that what is
    expected next is its end (`Expects`). A number is a place only because a stream is shorter
    than the number space: `StreamLimit < SequenceSpace`, 16 MiB against 2^32
    (`NumbersOfStream`). `StreamGrows` and `StreamAgain` are the two ways a packet is accepted,
    as the next bytes or as a copy of bytes that are there. At the end the frames found in the
    stream do not overlap, so their ascending starts are linked each to the next (`FramesInOrder`).
- **`SavedReaderProofs`.** Four readers of one file, and four converters that draw conclusions from
  many records, for files of any length.
  - `OutcomesAreSound` is `MatchesAreSound` of `RequestMatch`. All requests are decided at once, so
    the invariant is only that the outcomes are those of the rows read; the argument is about the
    rows. Two requests with a candidate in common are of one party; the earlier is then retried, or
    if they share a time each is outstanding for the other (`SharedReplyIsDoubtful`). That the code
    looks at the latest earlier request alone is enough, because a reply after it is a reply
    after all the others (`LatestSettlesTheClass`).
  - `RebuiltTransfersAreSound` is `TransfersAreSound` of `CanTransport`, for all four protocols.
    The invariant `CanInv` says of every open transfer that it gathered each frame of its key since
    its first one, counting upward (`OpenTransfers`), and under RTS/CTS what its last grant allows
    (`UnderControl`: between a grant and its last packet, or with grants that tile the packets
    sent); of every decoded one what the property asks (`DoneTransfers`); and that every frame read
    lies in exactly one place (`OnePlace`).
  - `NumbersAreSound` is `SequenceNumbersAreSound` of `RtpRecords`. The rows alone do not carry it,
    because the memory of a source is bounded. `RtpInv` ties the two: a number given out is in the
    memory with only later ones behind it, or as many as the memory holds were given out since
    (`Remembered`; `NewNumber` counts when one is pushed out); and the highest number is never
    pushed out (`HighestSound`), because what came after it is late and the window of late arrivals
    is smaller than the memory (`LateSound`). So `repeat_of_highest` always finds its number, and
    the branch of `order` that would call an unknown highest number a duplicate is never taken
    (`OrderMeaning`). `ResolveMeaning` is the arithmetic of the wraps.
  - `StreamsAreFaithful` is `RebuiltIsFaithful` of `RtpH264`. `AvcInv` says that the closed units
    and the open one share out the packets read (`Assembled`) and that the open chain has every
    packet of the declared type since its start (`ChainSound`); a packet either joins the open unit
    or closes it (`BaseSound`), and a chain's last packet turns the one into the other
    (`ChainIsWhole`). That the first slice has its parameter sets in front of it is then a matter of
    the first unit with a slice and the first slice in it (`FirstSlice`). The elapsed axis is a
    recursive function: that it exists is proved first (`AxisExists`), then that it rises
    (`AxisRises`), because the stamps of neighbouring units differ. The proof corrected the
    property: a chain's packets are consecutive only up to whole wraps (see "Noted while reading").
  - `ConclusionsAreDrawn` is `ConclusionsAreSound` of `SavedEvents`, for any records, declarations
    and windows its ASSUMEs admit. Its four conjuncts have an inductive invariant each.
    `RunsHold`: what `best_run` keeps after n samples is the best of *all* runs among them, of those
    that follow a sample which does not cross, and of those of them that last (`BestRuns`), with the
    run the last sample ends (`LastRun`); one sample more continues every chain that reaches the
    last one or breaks them all (`ChainsAreExtended`), so `RunsGrow` and `RunsStay` are the only two
    cases. `IntervalsHold`: the open interval of a detector is its last and the others
    have ended by a frame held (`OpenAt`); for a freeze, which is told late, that frame is where its
    start is looked up from (`held.floor`), so the start found cannot lie inside the one before. `UniquenessHolds`: the counts held
    are those of the rows of each source (`ShapesAre`), and the groups hold the rows of their window
    that speak of the subject or do not say of whom (`GroupsAre`). `ChangesHold`: what is
    held of a subject is its last row (`LastsAre`), so the pairs told are the neighbouring rows that
    differ and one is added exactly when a row differs from the last of its subject
    (`DifferingGrows`). A row of a subject lies in one of its windows because a distance lies in
    one of the spans laid behind one another (`OneSpan`, `OneTile`), and ordering the output by time only
    permutes it (`ByTimePermutes`), so that what holds of changes and windows still does after it.

The proofs assume what the modules' named ASSUMEs say (`ClockAssumption`,
`BufferAssumption`, `InputsAssumption`, `LaneAssumption`, `RunAssumption`, `MatchAssumption`,
`CanAssumption`, `RtpWindows`, `H264Windows`, `EchoAssumption`, `StreamLimitAssumption`, and those of
`SavedConversions` and `SavedEvents`): the constants have the types the code gives them.
Nine say more.
`StreamLimitAssumption` has a stream shorter than the number space, as above. `BagAssumption` has
no message later than the last of its chunk, which `mcap_file_preflight` refuses before the
selection, and an interval with both ends or none, which the arguments' check asks for; the other
ASSUMEs of `SavedConversions` say what a record of that kind is (a list, a number of two bytes, at
least one byte).
`EventAssumption` has an empty cell be no number, a window be positive and nothing but the two
detectors be declared, and `UniquenessAssumption` a source belong to one window
(`convert` refuses one that repeats across windows) and a subject be named.
`MatchAssumption` has the window positive, which the code asks of its argument. `CanAssumption`
has a key of DroneCAN or NMEA either a transport's or not, because the key holds the identifier
that decides it. `EchoAssumption` has `None` be no index of a packet. `RtpWindows` has the windows apart (3000 + 100 of 65 536 numbers) and the memory no smaller
than the window of late arrivals (512 and 100). `H264Windows` has a NAL unit in every payload the
parser accepts.

## What is only model-checked

- Liveness (`Returns`), which is beyond the prover.
- `ScansAreExact`. The three scans of the Rust crates are folds over a list, the properties compare
  them with a definition over the whole list, and to prove that is an induction over the data.

## Findings

- **Incomparable but unmarked** (`sf_incomparable`). `README.md` (line 31), `types/src/mark.rs` and the doc of
  `drain` say incomparable updates are marked. `annotate_order_unknown` marks an item only if it
  is concurrent with *all* others of its batch (as its own doc says). Two independent chains a1 < a2
  and b1 < b2 drained together come out as one line in which four pairs are incomparable and no item
  is marked. What the narrower rule does give is `FlaggedItemsFloat`.
- **The sum in the doc of `drain`** (`sf_drain_doc`). `pending_len + drained_total` is not the number of pushes once a push was
  rejected or evicted; with the two terms the doc of `drained_total` adds, it is (`Conservation`).

- **"Nothing was written", with files on the disk** (`nothing_written`).
  `convert_rtp_h264_stream.py` ends every error with these words (line 656), also when its
  directory and `elementary.h264` were written and `access_units.json` could not be. Its sibling
  `convert_moos_declarations.py` distinguishes the two cases, with a comment (line 545) that saying
  otherwise would be false.

`convert_ping_frames.py` asks whether its target exists and then writes it with `write_text` (line
151), two steps: what another process publishes between them is overwritten. It is the only tool
that is not exclusive, `PublishedIsFinal` fails for it, and the run and the theorem leave it out
(`ExclusiveTools`). No doc promises otherwise for this tool, so it is a hazard and not a finding.

Noted while reading, without a run: the default capacity (10 000) and window (4 096) do not meet the premise of
`PendingDistinct`, so with the defaults a retransmission can be queued beside its first copy; and
a frame evicted under load is refused when its sender retries within the window. In
`convert_rtp_h264_stream.py` the fragments of a chain follow each other modulo 2^16 (line 152), and
packets of other payload types count in the same numbers: in a capture (up to 16 MiB) that has
65 535 of them between two fragments the chain goes on across a whole wrap. `WhollyFrom` says of the
chains what the code does, whole wraps included, so no property rules this out. Nor does one cover the
one nanosecond by which `convert_rosbag_observations.py` asks storage earlier (line 2061): without it
the first message of a window would be missing, and the converter's count against the index (line
2303) would refuse the bag, while `WindowIsComplete` speaks of converted bags.

## Not modelled, and why

- **Bytes.** Binary and text formats (readers, writers, dialect policies, adapters, the cell
  checks of the converters, units, column names, digests, the fields decoded from a message) are
  functions of bytes with no state. They are abstracted where a converter's loop uses them, and
  otherwise left out.
- **Other scripts.** Converters whose loop treats one record at a time without relating it to
  others, and the generators and checkers of documents. What their `main()` publishes *is*
  modelled (`SavedOutputTools`).
- **A network of senders.** `increment` and `merge` are not called by code in this repository, and
  the transport is not here either; what holds between the batches of several `drain` calls
  depends on both. Within a batch see `sf_causal`.
- **DDIL profiles** are a constant table and a predicate on it, which only tests combine with the
  buffer; a property could only repeat the table.
- **The rest of `build_steps`.** The absence and cause markers copy a row each and the slots only
  lay them out. `FanOutRun` takes its steps as given; the observation grid is in `ReaderScans`.
- **Cause classification and time alignment** are floating-point scores over one list.
- **Seal.** Which fields a re-check notices is a fact about an encoding under a hash.
- **The files of the `fanout` binary**, written one after the other and stopped at the first error. It
  creates directories that may exist and overwrites, like `convert_ping_frames`; no text promises
  an order or a clean refusal to check it against.
- The numerical simulation, scores and percentiles are floating point; the viewer presents.

`PROJECT.json` lists every component with its status and, for each hazard that no property covers,
the reason.
