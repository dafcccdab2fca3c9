# A TLA+ model of JayBeams

JayBeams reads market data feeds (mostly NASDAQ ITCH-5.0), rebuilds the order
books of every security from them, replays recorded feeds over the network, and
publishes the best quotes. This directory holds TLA+ modules that model the
parts of it that have state and control, the TLC configurations that check them
and the proofs TLAPS checks. Paths below are relative to the repository.

1. [Inventory](#1-inventory)
2. [Modules](#2-modules)
3. [Runs](#3-runs)
4. [Fairness](#4-fairness)
5. [Proofs](#5-proofs)
6. [Where the code departs from its documentation](#6-where-the-code-departs-from-its-documentation)
7. [What is not modelled](#7-what-is-not-modelled)
8. [Plan](#8-plan)

## 1. Inventory

| component | state | operations | who calls whom |
|---|---|---|---|
| `map_based_book_side` (`src/jb/itch5/map_based_order_book.hpp`) | a sorted map from price to quantity | `add_order`, `reduce_order`, best, worst, count | the sides of an `order_book` |
| `array_based_book_side` (`array_based_order_book.hpp`) | a vector of the levels near the inside, a sorted map of the others, the inside, the limits of the window | the same | the same; must be interchangeable with the map |
| `order_book` (`order_book.hpp`) | two sides | picks the side of an operation | `compute_book` |
| `compute_book` (`compute_book.hpp`) | live orders by id, books by security | one handler per message type | the message readers call it; it calls the output layer once per update |
| output layers (`generate_inside.hpp`, `moldfeedhandler.cpp`) | none; a file or a socket | decide whether the inside changed, write or send it | called by `compute_book` with the book after the update |
| `mold_udp_pacer` (`mold_udp_pacer.hpp`) | the packet under construction, the time of the last send | `handle_message`, `flush`, `heartbeat` | called for every message of a file; calls a sink (UDP) and a sleeper |
| `mold_udp_channel` (`mold_udp_channel.cpp`) | the expected sequence number, the offset, the pending callback | `handle_received` | called by the `io_service`; calls the handler of every message |
| `process_iostream_mlist` (`process_iostream_mlist.hpp`) | the position in a file | reads message by message | drives the pacer, or `compute_book` |
| `replayer_control`, `session` (`moldreplay.cpp`) | the state of the replay, the session, its stop flag | `status`, `start`, `stop` (HTTP), the replay thread | HTTP requests and a detached thread share them under `mu_` |
| `acceptor`, `connection`, `request_dispatcher` (`src/jb/ehs`) | the pending accept, the sockets, handlers by path, counters | Boost.Asio callbacks | serve the requests of every program |
| `event_rate_estimator` (`event_rate_estimator.hpp`) | a ring of counters | `sample` | the rates of the statistics |
| `histogram` and its binning strategies (`src/jb/histogram.hpp`, ...) | counts by bin, the extremes | `weighted_sample`, `estimated_quantile` | every statistic |
| `offline_feed_statistics` (`offline_feed_statistics.cpp`) | three rates, two histograms, the times of the last message and report | `sample`, `log_final_progress`, `print_csv` | the callbacks of the programs, one object per security and one for all |
| `price_levels`, `level_to_price` (`src/jb/itch5/price_levels.hpp`) | none | conversion of prices and levels | the array based sides |
| `config_object` (`src/jb/config_object.cpp`, `config_recurse.hpp`, `merge_yaml.cpp`) | the attributes | `load_overrides` | every program, at its start |
| `generic_reduce` (`src/jb/opencl`) | two device buffers, a queue of passes | `execute`, and the kernels | the time delay estimators on a GPU |

What is hard in it, in the order of how much a fault would matter:

* **The window of an array based side.** It moves with the inside, in both
  directions, and moves levels between two structures. A level that is lost or
  doubled shows many orders later.
* **Orders and books in step.** ITCH-5.0 names the security, side and price of
  an order only when it is added. Every later message depends on `orders_`, and
  every handler changes two collections, some of them partly when it throws.
* **Deciding after the fact.** The output layers decide from the new book and
  one price whether the inside has changed.
* **The feed over UDP.** Sequence numbers, packets at their limits, delays,
  heartbeats; packets lost, duplicated and reordered on the way.
* **Requests racing the replay thread**, with failures at every step of it.
* **A reduction by many work items in many passes**, ordered by barriers and
  events only, with work that does not divide evenly.
* **Overrides of overrides.** Values by name, by class, by scope and from the
  command line meet in one recursive function over shared nodes.
* **Time that jumps**, in both directions, over a ring of counters.
* **Asynchronous callbacks that must be registered again**, in the channel, the
  acceptor and the connections, or the program stops without an error.

`PROJECT.json` lists the hazards at their lines, each with the properties that
would catch it going wrong.

What makes each component correct:

* a side: every sequence of operations gives what one sorted map would give,
  and the returned value tells whether the best quote changed;
* `compute_book`: a book is the sum of the live orders; an update explains
  every change;
* output: a reader knows the inside, or at least never a worse one;
* pacer and channel: the messages of the file, each once, in order, in packets
  that fit, none held back too long; no gap unreported;
* replay control: one replay at a time, a stop takes effect, a running replay
  always gives the control object back;
* HTTP server: accepting for as long as it runs, its counters add up;
* statistics: histograms that are the tallies of the true rates, interarrival
  times and latencies, and reports that do not fail;
* configuration: the documented precedence, scope by scope;
* reduction: each input once, no race, an end;
* levels: order and identity of prices, but for fractions of a penny.

## 2. Modules

Definitions keep the names of the source. Operators under a comment *Faulty
variant* are not part of a model: they are small mistakes of the kind this code
could have, each of which one of the properties rejects.

| module | models | notes |
|---|---|---|
| `BookPrices` | the order of levels on each side, the level of an empty side | constants and their assumptions |
| `BookLevels` | `std::map` as a function from levels to quantities | used by `MapBookSide` and `ComputeBook` |
| `MapBookSide` | `map_based_book_side` | the specification of a side |
| `ArrayBookSide` | `array_based_book_side` | implements `MapBookSide` (`ImplementsMap`) |
| `FoldLemmas` | | lemmas on sums over finite sets, concatenations, smallest numbers |
| `ArrayBookSideProofs` | | invariant, implementation and observers of the side, proved |
| `ComputeBook` | `compute_book` and `order_book` | one action per handler |
| `InsideOutput`, `MCInsideOutput` | the output layers on top of `ComputeBook` | a step is a message and its callback |
| `ComputeBookProofs` | | invariants of the books and of the outputs, and their proofs |
| `MoldPacer` | `mold_udp_pacer` and the stream it reads | |
| `MoldChannel` | `mold_udp_channel` | |
| `MessageStream` | what a feed promises: a first-in first-out stream | abstract |
| `MoldFeed` | `MoldPacer`, a network, `MoldChannel` | implements `MessageStream` on a perfect network (`ImplementsStream`) |
| `MoldFeedProofs` | | invariants of the pacer and of the feed, and their proofs |
| `ReplayControl` | `replayer_control`, `session`, `launch_thread` | one action per request and per step of a thread between two uses of shared state |
| `ReplayControlProofs` | | invariant and its proof |
| `Ehs`, `MCEhs` | `jb::ehs` | one action per outcome of a callback |
| `EventRateEstimator` | `event_rate_estimator` | operators on its record |
| `Histogram` | `histogram`, `integer_range_binning`, `explicit_cuts_binning`, linear interpolation | operators, and a reference: the tally and the quantile of a sequence |
| `FeedStatistics` | `offline_feed_statistics`, `event_rate_histogram` | composes the two above |
| `FeedStatisticsProofs` | | tallies, rings, and the invariants with their proofs |
| `GenericReduce` | `generic_reduce` and its kernels | host and device, one action per step of a work item |
| `GenericReduceProofs` | | invariant and its proof |
| `ConfigObject`, `MCConfigObject` | `config_object`, `config_recurse`, `yaml::merge` | one action, `load_overrides`, with one operator for each `apply_overrides` |
| `ProgramProofs` | | `Ehs` and `ConfigObject`, what every program starts with: their invariants and proofs |
| `PriceLevels` | `price_levels`, `level_to_price` | operators; the theorems about them are in `ArrayBookSideProofs` |

How state and actions correspond to the code, where it is not evident:

* **Prices are levels.** An array based side works on `price_levels(0, px)`; the
  models identify a price with its level. `tk_empty_quote` is level 0 on the
  BUY side and `LevelMax` on the SELL side, as in the code.
* **`bottom_levels_`** never holds a zero, so it is a total function with 0 for
  "no such key"; `MapBookSide` keeps the domain instead.
* **`TopAfterMove`, `BottomAfterMove`, `MoveBottomToTop`** are the loops of
  `move_top_to_bottom` and `move_bottom_to_top`, stated as functions. They keep
  the code's details, such as `emplace_hint` not replacing an entry, or the loop
  that clears slot i after copying it.
* **A step of `ComputeBook`** is a message. `status` holds the exception that
  ends the program; what was changed before the throw stays changed.
* **`stream` of `MoldPacer`** is where `process_iostream_mlist` has got to, and
  how long the caller has slept so far. `packets` is the history of the sink.
* **`handled` and `mismatches` of `MoldChannel`** are the calls of the handler
  and of the log. `expected_sequence_number_` is passed to the handler as the
  code passes it.
* **`thread` of `ReplayControl`** is the next thing a replay thread does. The
  HTTP handlers hold `mu_` from the first line to the last and are one step
  each; the thread locks it in `start_check` and `replay_done` only, so the
  check of the stop flag and the sending of the message are separate steps.
* **A value of `GenericReduce`** is the sequence of the inputs combined into it,
  so a lost, doubled or foreign input is visible. A barrier is one step of its
  workgroup; the two reads and the write between barriers are steps of their
  item. The device starts a pass when the one before it has completed, since
  `execute` passes the event of each to the next.
* **The scales of `FeedStatistics`** keep the relation of the code's: what one
  rate measures over is the next one's sampling period. `samples` is the history.
* **A node of `ConfigObject`** is a function from paths to scalars, and a scalar
  is the path that set it: the value of an attribute tells where it comes from.
  The `apply_overrides` of the code call each other along the nesting of the
  classes, which is fixed, so there is one operator for each type and no recursion.
  `yaml::clone` makes such functions; `ScopeUncloned` is the code without it.
* **`connection` of `Ehs`** is what a connection waits for. A connection whose
  last callback is gone is destroyed in the same step.

## 3. Runs

| run | module, configuration | what it checks |
|---|---|---|
| `array_side` | `ArrayBookSide` | types; `WindowOK`: the vector holds the best levels with the inside last, the map only worse ones; `ObserversAgree`: best, worst and count are those of the map; `ImplementsMap`: the side implements `MapBookSide`; `InsideChangeReported`: the returned value tells exactly whether the best quote changed |
| `books_and_outputs` | `MCInsideOutput` | `BooksMatchOrders`: each level is the sum of its live orders; `ReductionsSucceed`: the assertions hold and no reduction asks for a level that is not there; `UpdateExplainsBooks`: the callback accounts for every change of every level; `FileOutUpToDate`; `UdpOutNeverBehind`: the UDP reader never knows a worse price than the inside; `InsideChangesDetected`: the test of `generate_inside` is exact for every message but a replace |
| `feed_reliable` | `MoldFeed`, `MoldFeedReliable` | a replay over a perfect network: `ImplementsStream`; `SentIsHandled`; `OnlyQueueUnhandled`: at the end only the pacer's queue is missing; `SleepsMatchIntervals` |
| `feed_faults` | `MoldFeed`, `MoldFeedFaults` | types; the pacer with bursts, pauses, flushes and heartbeats: `PacketsFit`: limits of size and block count; `StreamPreserved`: packets and queue carry the stream, and sequence numbers are right, heartbeats included; `DelayBounded`: no block is in the queue for `max_delay_`; the channel with lost, duplicated and reordered packets and socket errors: `NoSilentGap` |
| `replay_control` | `ReplayControl` | types; `ControlMatchesThread`: one running thread, and it is the one the control object knows; `StopsFlowing`: at most one message after a stop; `RunningEnds`: a replay that runs ends, and the control object is idle then |
| `ehs` | `MCEhs` | types; `ConnectionsAccounted`, `ResponsesAccounted`; `KeepsAccepting`: until an exception leaves `io_service::run` or the acceptor is closed an accept is pending |
| `feed_statistics` | `FeedStatistics` | `RatesTallied`: each rate histogram counts every period once, with its true rate, and the ring holds the last periods; `ArrivalsTallied`: the other two histograms; `QuantilesTrue`: estimates are right to a bin, and monotone; `FailsOnlyInFirstPeriod`: when a report can fail; `SummaryComplete`: the summary does not throw, and has all messages once a period of the slowest rate is over |
| `generic_reduce` | `GenericReduce` | `NothingLostOrDoubled`: at any moment the work items hold each input once, and so does the result; `NoRaces` on the local memory; `Termination` |
| `config_object` | `MCConfigObject` | `ByNameWins`, `ScopesIsolated`, `InnermostScopeWins`; `ClassOverridesReach`: the override of a class reaches its objects, but for elements of lists |
| `inside_out_replace` | `MCInsideOutput`, `InsideOutReplace` | violated: `InsideOutUpToDate`, see section 6 |
| `feed_summary_count` | `FeedStatistics`, `FeedSummaryCount` | violated: `SummaryCountsSamples` |
| `replay_stop_early` | `ReplayControl`, `ReplayStopEarly` | violated: `StoppingEnds` |

Bounds, and why they are enough:

* `array_side`: 9 levels and a vector of 4. The window is pushed against either
  end, moves by less and by more than its width, and leaves levels behind on
  both sides; quantities 0..2 at a level tell a partial reduction, an exact and
  an excessive one, and an invalid quantity. Nothing in the code compares
  quantities of different levels.
* `books_and_outputs`: three orders are enough for two at a level and one
  elsewhere, and for a replace between them; two securities for updates of the
  wrong one; three prices an order can have: behind, at and better than the
  inside. The price `PriceMax` and the quantity 0 are those an array based book
  rejects; a map based book is the same without the rejections. Orders have 2
  shares, and reductions of 1, of all and of 3 are a partial, an exact and an
  excessive one. Orders and securities are interchangeable (symmetry).
  The constraint `MissedWithOneBook` bounds the histories of the outputs: with
  two books, a state in which an output has missed something is checked and not
  left. Every output is about one security, so what follows such a state is
  explored with one book. To add an order, or to execute part of one, leaves no
  output behind, so the constraint keeps no combination of orders and books from
  being reached; and the properties are invariants and action properties, which
  it cannot make hold.
* `inside_out_replace`: one security and two orders are enough for a replace.
* feeds: messages of different lengths in packets of at most 12 with a
  header of 2: a packet is left full by one, two or three messages, one message
  is too long and fails the assertion, and `MaxBlocks` = 2 stands for the 16-bit
  limit. Times between messages are 0 to `max_delay_` = 2. `MaxIdleSends` bounds
  flushes and heartbeats. In `feed_faults`, 3 messages in up to 3 packets can be
  lost, doubled and overtake each other; `MaxWire` and `MaxMismatches` bound
  only the making of duplicates.
* `replay_control`: three sessions, so that a thread left over from the first
  may meet the third; a file of two messages.
* `ehs`: two connections, two paths; `MaxEvents` bounds requests and failed
  accepts.
* `feed_statistics`: rings of two periods on three scales, sampled every 1, 2
  and 4 ticks; four messages at times that are in one period, in neighbouring ones, or apart by less and by more
  than each ring, in any order; ranges so small that samples fall below, in and
  above the bins. `feed_summary_count` has the same bounds.
* `generic_reduce`: work groups of 2, 4 and 8 items, inputs that fill none, some
  and all of the items, with and without a remainder, in up to four groups: up
  to three passes, so that a buffer is written again, and passes with fewer
  items in a group than the first.
* `config_object`: documents of up to four entries out of seventeen, which are
  entries by name, class overrides at the outermost level, and in the scopes of
  an object, of an object inside it and of an element of a list; none, one or
  two elements from the code; options for an attribute, for an element that is
  always there and for one that may be missing. An override beats at most three
  others. Lists may have six elements, which is what the override of a class,
  whose keys are taken for elements, can make of a list.

`CHECK_DEADLOCK FALSE` appears where a system really stops: a program ended by
an exception or at the end of its file (`books_and_outputs`, the feeds, the
runs of `FeedStatistics`), the server that has been shut down (`ehs`), a program that
has its configuration (`config_object`).

## 4. Fairness

* `MoldFeed`: weak fairness of `Receive`. The `io_service` runs the callback of
  a socket that has a datagram. Nothing is assumed about the sender, which may
  stop at any time, or about faults.
* `ReplayControl`: weak fairness of every replay thread. The operating system
  runs it, no step of it waits for anything but `mu_`, every holder of `mu_`
  releases it, and the longest sleep is 10 seconds. Nothing is assumed about
  requests. The two runs with liveness properties there are `replay_control`,
  where a running replay ends although requests, failures and other sessions
  interfere, and `replay_stop_early`, where it does not help.

* `GenericReduce`: weak fairness of the host's loop and of the device together.
  An OpenCL device runs what is enqueued, and every work item of a group that
  has reached a barrier waits for the others only.

## 5. Proofs

Each theorem holds for every value of the constants that meets the `ASSUME`s of
the modules and the hypotheses named here. The proofs split a step into the
actions of the model; the lemma about an action is stated on what the action
changes, so that it can be used for the handlers that share code.

**The array based side** (`ArrayBookSideProofs`): every window size of at least
2, every highest level, every choice of prices but 0, every quantity and both
sides.

* `TypeCorrect`: `Spec => []TypeOK`;
* `WindowCorrect`: `Spec => []WindowOK`, so every index stays in the vector;
* `ArrayImplementsMap`: `Spec => ImplementsMap`, that is `Map!Spec`;
* `ObserversCorrect`: `Spec => []ObserversAgree`;
* `ChangesReported`: `Spec => InsideChangeReported`.

Assumptions: those of `BookPrices` and `ArrayBookSide` on the constants, and
`UsableParameters == 0 \notin Prices /\ MaxSize >= 2`. Both parts of it are
necessary (section 6).

The inductive invariant is `IInv == TypeOK /\ WindowOK`. `WindowOK` is stronger
than what a user of the side needs, and each part is there for a reason:

* `EmptySide`: an empty side has no window and both structures are empty. Without
  it the first order would meet old levels in the vector.
* `InsideInWindow`: the window lies around the inside and has its full width
  unless it ends at the last level. This is what bounds every index.
* `InsideIsBest`: the inside is the best non-empty slot, so `next_best_price_level`
  finds the next level of the whole side, and slots stand for valid levels only.
* `BottomBehindWindow`: the map holds only levels worse than the window. So no
  level is in both structures, `emplace_hint` never meets an existing key, and
  `bottom_levels_.begin()` is the best of what is left when the vector is empty.

There is one lemma for each operation (`AddToBottom`, `AddInNewWindow`, ...,
`RefillWindow`), which rest on lemmas about `get_limits` (the limits enclose the
level and have the width stated), about slots and levels as inverse functions on
each side, and about the two moves. The refinement reuses the invariant: under
it `LevelQty` of each level is in one structure only, so a step of the array
based side changes `AllLevels` at one level as the map does (or not at all, when
only the window moves), and "no better level" in the map is "the inside, or
better" in the array. The worst level is the last of the map, or else the lowest
slot that is not empty; the count is the sum of two, because slots and levels
correspond one to one. `ChangesReported` follows without looking at the window
again: a step changes the quantity of one level, and the best quote as a
function of the quantities changes just when no better level is there.

**Levels** (also in `ArrayBookSideProofs`), for every price: `LevelsOrdered`, `LevelRoundTrip`,
`PriceRoundTrip`. It is why the other modules may take levels for prices, and
what they leave out: orders less than a penny apart, above a dollar, are one
level of an array based side and two of a map based one. The proofs split at a
dollar and reduce to division by 100.

**The books** (`ComputeBookProofs`), for all orders, securities, prices, shares
and both kinds of book: `BooksMatch` (`BooksMatchOrders`),
`ReductionsAlwaysSucceed` (`ReductionsSucceed`), `UpdatesExplain`
(`UpdateExplainsBooks`). Hypothesis: `UsableOrders`, no order of 0 shares unless
the book rejects it (section 6). The invariant is `InStep(orders_, books_)`:
every level is the sum of the live orders at its price. It is a predicate of two
values and not of the state because a replace goes through a third pair, after
the old order was removed and before the new one is added, which no state shows;
`ReduceInStep` and `AddInStep` are about any such pair and are used for the
single messages and, one after the other, for a replace. That a reduction finds
its level, and enough on it, is one term of a sum of positive numbers being at
most the sum. The same lemmas give the change of the levels, which is what an
update reports.

**What is published** (also in `ComputeBookProofs`), under the same hypothesis:
`FileUpToDate` (`FileOutUpToDate`), `UdpNotBehind` (`UdpOutNeverBehind`),
`ChangesDetected` (`InsideChangesDetected`). The code decides from the book after
the update; the proofs go the same way, from the new book and the update back to
the old book (`LevelExplained`: the new quantity of a level less what the update
reports is the old one). `TopDetected` is about one side: if one level changes,
the best quote changes just when the best quote now is not better than that
level. `NotAtInside`: after an update that is not sent no best price is better
than it was. The invariant `OutputInv` relates the readers' last quotes to the
books, and holds them to be quotes at all.

**The pacer and the feed** (`MoldFeedProofs`), for every `mtu_`, `max_delay_`,
stream and number of flushes and heartbeats:

* `TypeCorrect` (`PacerTypeOK`), `DelayCorrect` (`DelayBounded`);
* `NumbersCorrect`: every packet starts at the number that follows the packet
  before it, and carries as many consecutive messages as it says in less than
  `mtu_` bytes;
* `PacketsCorrect` (`PacketsFit`) and `StreamCorrect` (`StreamPreserved`): from
  that, packet by packet, their sum and their concatenation are the stream;
* `SleepsCorrect` (`SleepsMatchIntervals`), if `MaxIdleSends` = 0 (section 6).

The invariant is about two things: the queue continues the packets and ends with
the last message accepted (`QueueInOrder`), and the time of the last send is not
after the first message of the queue (`ClockBehind`). Without the latter a
message that is not late by the last send could still be late by the first
message of the queue; it survives `heartbeat`, which moves the time of the last
send back, because it bounds that time from above only. `SleepsInv` adds that in
a replay the queue is never empty after the first message, so every sleep is the
interval between two sends.

`FeedImplementsPacer` carries these over to the composition. For it,

* `FeedTyped` (`FeedTypeOK`) and `GapsReported` (`NoSilentGap`) hold whatever the
  network does. `FeedInv` adds that no packet reaches beyond the queue
  (`PacketsPast`), that the channel's offset is the length of what it handled
  (`OffsetsAddUp`), and that until the first mismatch it has handled the first
  messages (`NoGapYet`);
* `QueueUnhandled` (`OnlyQueueUnhandled`) and `FeedIsStream` (`ImplementsStream`)
  hold if `NetworkFaults = {}` (`Perfect`). Then the packets on the wire continue
  what was received and end where the queue starts (`WireInOrder`), so the
  messages handled, on the wire and in the queue are the stream of the
  refinement.

**The replay control** (`ReplayControlProofs`), for any number of sessions, every
length of the file and whatever fails: `TypeCorrect`, `ControlCorrect`
(`ControlMatchesThread`) and `StopCorrect` (`StopsFlowing`). None of the three is
inductive. The invariant adds:

* `OneThread`: a thread between its launch and `replay_done` is the one of the
  current session. `start` is refused while there is one, since
* `StateOfThread`: for such a thread the state is `starting` or `replaying`, or
  `stopping` once its flag is set, so never `idle`;
* `StoppedAfterStart`: a flag is set on launched sessions only, so a new session
  begins with its flag clear;
* `OneMessageLeft`: a thread that has read its flag before it was set has one
  message to send, one that has not has none.

**The HTTP server** (`ProgramProofs`), for every set of connections and paths:
`EhsTyped` (`TypeOK`), `ConnectionsAddUp` (`ConnectionsAccounted`),
`ResponsesAddUp` (`ResponsesAccounted`), `AlwaysAccepts` (`KeepsAccepting`, which
is about the time before an exception leaves `io_service::run`; section 6). They
are inductive together, in the form of `Tally`: the connections that are reading
and those that are writing are counted apart, since a response moves one from
one set to the other, and the sets must be known to be finite for their sizes to
move by one.

**The configuration** (`ProgramProofs`), for every set of entries that a reader
of the types can convert, every set of options and every bound: `NamesWin`
(`ByNameWins`), `ScopesApart` (`ScopesIsolated`), `InnerScopesWin`
(`InnermostScopeWins`) and `ClassesReach` (`ClassOverridesReach`, for objects that
are attributes; not for the elements of a list as objects of the class of the
list, which the code does not reach, section 6). The only hypothesis is `ConfigObjectAssumption`.

A program loads its configuration once, so nothing accumulates; the proof is
about what the nested `apply_overrides` compute. All four properties follow from
one invariant, `ConfigInv`. It says which attributes there are (`Leaves`) and
that the value of each is the first of a list of paths that the document has, or
else what the code gave (`Winner`). For `primary.reader.affinity` the list is

    primary.reader.affinity, primary.reader.:cpu_set, primary.:cpu_set,
    :cpu_set, primary.:thread_config.affinity, :thread_config.affinity,
    :worker_config.reader.affinity, :worker_config.reader.:cpu_set

which is the order of precedence in full, and shows what the four properties have
to allow for: an override of an inner class beats one of an outer class, even one
by name. The lemmas go the way of the code:

* what a node says at a path, as a function of the nodes it is made of: a
  sub-node (`AtKey`), a scope merged over another one, an object put together
  from its attributes;
* for each `apply_overrides`, the value it leaves at each attribute, as a list
  of what the nodes it is given say (`WorkerByClassGets`, `ElementOverridden`,
  `WorkersOverridden`, `PrimaryOverridden`);
* what each of these nodes says in terms of the document (`Says`, `ScopeSays`);
  put together, `ProgramOverridden` gives each attribute its `Winner`;
* for lists, how many elements there are before and after the override of
  their class, which makes elements of its keys (`ClassKeysCounted`), and of
  the command line, which makes a first one (`FirstElementGets`).

Then each property is a statement on the list of paths: the scope of every one
is a prefix of the attribute (`ScopePrefix`), the scopes of one override come
from the innermost one outwards (`FurtherInside`), and each override of a class
at the outermost level that reaches the attribute is in it (`ClassReaches`).

**The reduction** (`GenericReduceProofs`), for every size of the input and every
work group size of 2 to 1024 that is a power of two: `RacesExcluded` (`NoRaces`)
and `ResultComplete` (`NothingLostOrDoubled`). The only hypothesis is
`GenericReduceAssumption`. The invariant has a part for the host, one for the
queue, one for the data and one for the device:

* the passes in the queue are a chain: each reads the buffer the one before it
  writes, and expects as many values as that has groups. The host is ahead of
  the device, so what it believes is in `ping_` is about the last pass only
  (`QueueOK`, `HostOK`); the data in the buffers are known for the first
  (`DataOK`);
* *tiling*: a family of values in which each element of the input is in one
  value, once. The input of a pass is a tiling (`DataOK`), so are the shares of
  its work items (`SharesTile`, which is where the rounding up of the division
  matters), what the items hold at each moment (`Running`), and the results of
  its groups (`ResultsTile`), which the next pass reads;
* every group is in one `Phase`: gathering, in the round of some stride, or
  writing. A barrier is what leads from one to the next (`BarrierRuns`). In a
  round of stride r only the first r items write, each the slot it reads itself,
  and the other slot it reads is at r or above: hence no races;
* between two rounds a value only moves from two slots to one
  (`RoundKeepsTiling`), and the strides halve down to 1 because the size of a
  group is a power of two.

`SmallerWorkgroupFits` is the reason why the loop of the host does not fail its
assertion: for a pass that is smaller than the work group, `p2ceil(n) / 2` is at
most n.

**The statistics** (`FeedStatisticsProofs`), for every feed, every size of the
ring and of the histograms: `RatesCorrect` (`RatesTallied`), `ArrivalsCorrect`
(`ArrivalsTallied`), `QuantilesCorrect` (`QuantilesTrue`), `ReportsFailOnlyAtFirst`
(`FailsOnlyInFirstPeriod`) and `SummaryCorrect` (`SummaryComplete`). The hypotheses are the modules'
assumptions; of these, that timestamps, latencies and the number of messages are
below `SampleLimit` stands for their being in the range of the sample type. In
the invariants

* `Tally` says of a histogram what `IsTallyOf` does, in terms of counts of a
  sequence; `TallyGrows` is about `weighted_sample`: w more values, all the same,
  and one count grows by w. The extremes of an empty histogram are part of it;
* `RingAt` says of an estimator what `RingHoldsLastPeriods` does, for any
  function that gives the period of each event and any period. A rotation takes
  it to the next period (`RotateKeeps`), the jump to any later one if the ring is
  empty (`JumpKeeps`), and an event adds one (`CountedKeeps`). The loop of
  `sample` is a chain of rotations (`RotatedRings`), and where it stops is either
  the period of the event or an empty ring, which is why the estimates that
  follow may be issued as zeros all at once (`SampledKeeps`, `IssuedFor`);
* the updates are a fold, and `TallyOfUpdates` goes along it. An event does not
  change the estimates of the periods before its own (`EstimatesGoOn`), so the
  histogram that held the estimates before holds those after;
* `EndInv` keeps why a report failed and what the summary said, which is 0
  messages if a histogram is empty; `SummaryComplete` is what remains true. That a rate is
  empty is that its first period is not over (`Sizes`), and that on the slowest
  scale this lasts longest is that its period is a multiple of the others
  (`Coarser`): x / P is not above y / P, hence x / (P m) not above y / (P m);
* for the quantiles a histogram is what it says of the number of values up to a
  number (`CountsOfTally`). `IsQuantile` says in these counts what the true
  quantile x is, the first value with enough values up to it, and the three
  branches of `estimated_quantile` are the three places of x: below, inside and
  above the bins. In each, the counts on both sides enclose the rank
  (`IsBin`), so the interpolation stays in the bin (`Interpolated`) and grows
  with the quantile (`InterpolatedGrows`). The two comparisons that
  differ, one strict and one not, meet in the largest value (`AboveBins`).

**Induction over data.** Sums and concatenations are folds, and the induction
theorems of the library cannot be used here. `FoldLemmas` proves what is needed
of them by a smallest counterexample instead: if some part of a finite set has a
property, some part of it has it and none of the sets made by removing an
element has (`SmallestSubset`, from the well-foundedness of the subsets of a
finite set), and likewise for numbers (`SmallestNumber`).
From these it follows that a fold is the one function that meets its recursion,
what a sum is when an element is added, removed or changed, and what
`FlattenSeq` is when a sequence is appended.

**Model-checked only:** liveness (`RunningEnds`, `StoppingEnds`, `Termination`,
`SentIsHandled` need fairness). Every safety property that a passing run checks is
also proved.

## 6. Where the code departs from its documentation

Three departures are runs:

* `inside_out_replace`: for a cancel/replace `record_latency_stats` looks at the
  old price only, and at the book after the replace. So a replace that improves
  the inside is not reported, whether the old order was at the inside or behind
  it. TLC's trace is the shortest: the only order, which is the inside, is
  replaced at a better price.
* `feed_summary_count`: `print_csv` writes 0 for "the number of samples received"
  (`offline_feed_statistics.hpp:78`) if one of its histograms is empty: after a
  single message, or as long as all messages are in one sampling period of a
  rate. TLC's trace has one message. The test has no messages or four seconds
  of them. `SummaryComplete` says from when on the number is right.
* `replay_stop_early`: a stop between `start` and the thread's `start_check`
  leaves the state `stopping` for ever, since the thread returns without
  `replay_done`; later starts are rejected.

Others shape the models and their properties:

* Price 0 passes the validation of an array based side ("px should be in
  [0, max)"), but on the BUY side its level is the one that stands for an empty
  side, and on the SELL side no window can hold it. `max_size` 1 passes as well
  and gives an empty window. Hence `UsableParameters`, and prices from 1 in the
  run. With price 0 or size 1 TLC finds sequences of two or three calls after
  which `ImplementsMap` fails.
* `send_inside_levels_update` compares the update with the best price after it,
  so the removal of the best level is not sent. `UdpOutNeverBehind` states what
  its readers can rely on.
* `heartbeat` records the timestamp of the last first block as the time of the
  send; the next message may then sleep again for time slept before.
  A `flush` from outside has the same effect when the message that follows is
  late by the same first block. `SleepsMatchIntervals` is about replays, which
  do neither (`MaxIdleSends` = 0), and `SleepsCorrect` has that as a hypothesis.
* A map based book accepts an order of 0 shares, where an array based one throws.
  The next reduction at that price finds the level without quantity and erases
  it, so a reduction that follows misses it although its order is alive. With
  0 among the shares and `ValidatingBook` = FALSE, TLC finds that
  `ReductionsSucceed` fails. ITCH-5.0 has no order of 0 shares; the theorems
  about `ComputeBook` state the hypothesis as `UsableOrders`.
* Nothing flushes the pacer at the end of a file: the last messages are never
  sent (`OnlyQueueUnhandled`).
* If a replay thread cannot be launched or configured, the state stays
  `starting` with no thread; a stop request turns that into `stopping`. So
  `RunningEnds` speaks of threads that have passed `start_check`.
* `write_ok` of the HTTP server is never incremented. `written` in `Ehs` is the
  number of responses written.
* `handle_received` hands `expected_sequence_number_` to the handler and
  advances it only after the packet (`mold_udp_channel.cpp:93`): all messages of
  a packet get the number of the first one, where `mold_udp_channel.hpp:32` says
  "the sequence number for this particular message". No program uses it.
* `log_progress` tests the interarrival histogram only
  (`offline_feed_statistics.cpp:214`). With two messages in one millisecond and
  no period over, the rate per second has no sample, and `estimated_quantile`
  throws. `FailsOnlyInFirstPeriod` says that this is the only way to fail. An
  interval of 0, which "suppresses all logging", logs at every later timestamp.
* `effective_workgroup_size_` of `generic_reduce` is a quotient of device limits
  and need not be a power of two, as the comment at line 174 says it should be;
  with a size of 3 `reduce_scratch` passes over elements, with 1 the loop never
  ends, with 0 it divides by zero. `GenericReduceAssumption` leaves these out.
  `p2ceil` is strictly larger than its argument, as its own comment says and the
  loop needs; the comment at lines 175-178 says "greather or equal".
* Class overrides apply "to all objects of type config0, wherever they are
  found" (`ut_config_object.cpp:334`), but the elements of a list are not: the
  class of the list attribute is that of its elements
  (`src/examples/configuration.cpp:74`), and its override is a map that the list
  takes for elements (`config_recurse.hpp:86-108`), so `:worker_config` with a
  `cl-device-name` leaves that of `workers.0` at its default even if the document
  has an element 0. An attribute inside an element is reached by the override of
  its own class, if the document has the element: those that a list gets from
  the code or the command line alone are not overridden at all. Hence
  `IsElement` and `InDocument` in `ClassOverridesReach`. Class keys inside an element of a list, or directly inside a
  class override, are not scopes; and a by-name entry inside the override of a
  container (`:worker_config.reader.affinity`) loses to the override of the inner
  class (`:thread_config.affinity`). A scope overrides the classes of what it
  contains, not of itself: `:thread_config` inside `primary.reader` does nothing
  for that reader, and the `:thread_config` outside of it stays in force. So
  `InnermostScopeWins` asks for an object of the class inside the inner scope.
* A list of objects has at least one element once the command line has been
  processed (`config_recurse.hpp:239`).
* The configuration file next to the program is looked for only if there is an
  argument (`argc > 1`, `config_object.cpp:36` and `:51`).
* `level_to_price` compares levels with `denom`, which is the number of levels
  below a dollar for `price4_t` only. For `price8_t` it is not the inverse of
  `price_levels`; the books use `price4_t`.
* A client that is gone before its connection object is made ends the server:
  `remote_endpoint()` throws in `on_accept`, with no accept pending and the
  acceptor open. `KeepsAccepting` holds until then.
* `generic_reduce::execute(begin, end)` hands the buffer of `begin` to the kernel
  and drops its position (`generic_reduce.hpp:157`): the input is read from the
  start of the buffer. Every caller passes the begin of a vector; the model does
  the same.

## 7. What is not modelled

* Decoding and printing of ITCH-5.0 and PITCH-2 messages: functions of bytes,
  with no state.
* `histogram::estimated_mean`, the summaries and `book_depth_statistics`:
  arithmetic on counts that are modelled. Rounding of doubles in the quantiles.
* The search for configuration files, `--help`, validation, attributes that are
  pairs or lists of scalars. Logging, files and thread attributes: start-up code
  and system calls. Their failures appear where a modelled part meets them.
* Time delay estimators, FFTW plans, the other OpenCL kernels: numerical code.
* Integer widths: quantities at a level (`int`) are bounded in `array_side`, not
  wrapped; counters and sequence numbers are 64 bits wide and do not wrap.

## 8. Plan

Done: the sides, `compute_book` and its outputs, the feed, the replay control,
the HTTP server, the statistics, the reduction, the configuration; theorems for
every safety property of all of these, and both refinements.

Next: a composition of `MoldFeed` and `ComputeBook`, that is the books of the
receiver when packets are lost or come twice.
