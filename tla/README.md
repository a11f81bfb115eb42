# A TLA+ model of pgfault

pgfault is a proxy that sits between a PostgreSQL client and a server, infers
from the frames it relays what the session is doing, and injects faults at
points of that inferred history: "lose the acknowledgement of the second
COMMIT", "cut this result after two rows".  Its worth depends on two promises.
The inferred history must be right, whatever the client pipelines and however
the two directions interleave; and a fault must happen exactly where the
scenario says, which for a commit means that the server has committed and the
client has not heard of it.  This directory models the code that keeps those
promises, checks the models with TLC and proves most of their safety properties with
TLAPS.

Line numbers refer to `src/crates/pgfault-state/src/lib.rs` (state),
`src/crates/pgfault-proxy/src/lib.rs` (proxy),
`src/crates/pgfault-scenario/src/lib.rs` (scenario), and so on for wire, events,
trace; tls is `src/crates/pgfault-proxy/src/tls.rs` and cli
`src/crates/pgfault-cli/src/main.rs`.

## 1. The system

| Component | State | Operations | Interaction |
|---|---|---|---|
| Accept loop, proxy `serve` | connection counter, set of tasks | accept, reap a finished task, shutdown | spawns `connection` with an ordinal and fresh matchers |
| Startup, proxy `connection` before its loop | client and server stream, startup metadata | SSLRequest, GSSENCRequest, CancelRequest, StartupMessage, TLS to the server | hands the streams and the metadata to the relay loop |
| Relay loop, proxy `connection`, `apply` | `ConnectionState`, matchers, frames behind the gate, truncation counter | one arm of `select!` per direction; end of stream; error; abort | calls `frontend`/`backend`, shows the events to the matchers, carries out the actions, writes to the sockets and the trace |
| Semantic state, `pgfault-state` | transaction state and epoch, speculative and confirmed prepared statements and portals, queue of query cycles, `reliable` | `frontend(f)`, `backend(f)`, `forwarded()`, `completion_boundary(f)` | called by the relay loop for each frame; returns events |
| Scenarios, `pgfault-scenario` | per connection and scenario: `seen`, `fired` | `validate`, `selects`, `observe`, `needs_gate` | called by the relay loop for each event |
| Framing, `pgfault-wire` | read buffer | `next`, `startup`, `decode`, `cstr` | read side of both arms |
| Vocabulary, `pgfault-events` | none | `classify`, `Statement::new` | used by the semantic state |
| Trace, `pgfault-trace` | file behind a lock | `record`, `replay` | written by the relay loop, read by `replay` |
| TLS streams, proxy `tls` | a socket, or a TLS session on one | write, shutdown, `reset`, `accept`, `connect`, `into_plain` | both sides of the relay loop |
| Command line, `pgfault-cli` | child process, shutdown channel, exit code | `run`, `replay`, `probe`, `validate` | starts the rest, shuts it down, asks the server what is true |

What is hard here:

* **Two directions, one inference.**  The proxy sees a request when the client
  sends it and the reply when the server gets round to it.  A request is filed
  under the newest cycle, a reply under the oldest; every reply must find the
  statement it belongs to through two queues.
* **Speculation.**  Parse, Bind and Close take effect on the server, but the
  proxy must act on them before the server has answered, and take them back
  when the server reports an error and skips to Sync.
* **Deciding early.**  The gate has to hold a CommandComplete back before
  ReadyForQuery tells whether the transaction is over, and let it go or throw
  it away afterwards.
* **One task for both directions**, with delays and writes inside the arms, over
  sockets of bounded size; the arm not taken is cancelled wherever it is.
* **Many tasks, one process.**  Connections share a trace file and an accept loop;
  one of them can end them all, and a shutdown may find each at any await.
* **Ends of a connection** in the middle of all that: disconnects that a
  scenario asks for, end of stream, failed writes, a full gate, shutdown.

`PROJECT.json` lists the hazards one by one, at their lines, with the property
that would catch each, or a note why no passing run can check it.

## 2. Modules

```
Protocol ── ConnectionState ── Proxy ──────── Session ── Replay ── MCReplay
    │            └ MCConn.State   │ └ Relay       │  └──── MCSession ──┘
    ├──────── Scenario ───────────┘ └ MCProxy     │
    │            └ Scenarios (MCProxy, MCSession) │
    └──────── Postgres ───────────────────────────┘

Wire, Stream, Backpressure, Trace, Server ── MCParts
                                   Server ── Cli
SqlScan, Startup ── MCTexts

SequenceFacts ── ConnectionStateProofs (ConnectionState) ── ProxyProofs (Proxy) ── SessionProofs (Session)
            │                                                                        └─ FaultProofs
            ├─── TraceProofs (Trace)
            ├─── WireProofs (Wire)
            └─── ServerProofs (Server, Cli)
```

The upper half is the inference and what is done with it, the lower half the
machinery it runs on.  Each module of the lower half stands for one part and
abstracts from the others: to `Wire` a frame is bytes, to `Stream` and
`Backpressure` a unit of data, to `Trace` a line, to `Server` a stage of a task.

### The inference and the faults

**Protocol** is the shared vocabulary: statements, frames, event names.  A
statement is its SQL text; its class is the parameter `Classify`, its
fingerprint the text itself.  `NoSql` is `Statement::default()` and "absent" in
the maps of statements.  A frame is a record of its tag and of the fields the
code looks at; a body that `cstr` rejects shows as `NoSql` or `None`.

**ConnectionState** is `pgfault-state`.  Its variables are the fields of the
struct and `events`, the vector the last call returned.  There is one action for
each arm of `frontend` and `backend`:

| Code | Definition |
|---|---|
| `cycle(extended)` (64) | `OpensCycle`, `FreshCycle`, `CyclesWith`, `IdsWith` |
| `event(name, front)` (76) | `FrontendEvent`, `BackendEvent` |
| `frontend` P, B, C, Q/E, S (120–215) | `FrontendParse`, `FrontendBind`, `FrontendClose`, `FrontendQuery`, `FrontendExecute`, `FrontendSync` |
| `completion_boundary` (219) | `CompletionBoundary`, `TransactionEnd` |
| `backend` S, 1/2/3, T, D, C, s, E, Z (240–363) | `BackendParameterStatus`, `BackendAcknowledge`, `BackendRowDescription`, `BackendDataRow`, `BackendCommandComplete`, `BackendPortalSuspended`, `BackendError`, `BackendReady` |

Nothing is assumed here of client or server: the frames are arbitrary, the
malformed ones included.  The per-name counters behind `occurrence` are left
out; matchers count for themselves and no selector reads them.

**Scenario** is `pgfault-scenario`: the record types, `Valid` (`validate`),
`Selects`, and the matcher with `Observe` and `NeedsGate`.  A matcher looks at
one event at a time; the model lets it look at the events of one call at once,
which is the same because no call returns two events of one name
(`OneEventPerName`).  **Scenarios** holds the shipped scenario files and a few
more that the runs use.

**Proxy** is the relay loop.  An arm of `select!` runs to its end before the
next frame is read, so each arm is one action: `ClientFrame(f)` and
`ServerFrame(f)`.  The latter is split along the code's early returns:

| Proxy lines | Definition |
|---|---|
| gate decided before `backend` consumes the frame (163) | `Gate` |
| `apply` (197–240) | `Fired`, `ObserveAll`, `RecordFaults`, `SeveredBy`, `Truncates` |
| `d.disconnect` (166) | `ServerDisconnected` |
| row N+1 (168–169) | `CutsHere`, `ServerCut` |
| ReadyForQuery releases or discards (170–172) | `ServerReady` |
| hold, drop or write, row N (173–179) | `ServerRelayed`, `ServerWriteFails`, `Disposal`, `RowsLeft` |

`Promise` is the refinement: with `open <- conn = "open"`, `queue <- held` and
`armed` the scenarios whose matcher has not fired, the loop implements **Relay**,
which knows nothing of cycles, classes or gates: two FIFO channels in which each
scenario interferes once.  What `Relay` forbids is a frame lost, duplicated or
moved in a step in which no scenario fires, a reply kept back when none is left
to fire, and a reply kept back beyond a ReadyForQuery.

`conn` records how `connection` returned and `sockets` what became of the two
sockets.  `ack` is a history variable: the fate of the latest CommandComplete of
the oldest cycle.  A record that cannot be written inside `apply` (proxy 199–207) ends
the connection like a failed write, possibly after the matcher has fired; here that is
the failure of the connection, and what it means for the trace is in `Trace`.

**Postgres** is external: the server as far as pgfault depends on it.  Each reply
carries, beside the frame, the truth the proxy has to infer: the cycle and
statement it is about, how the cycle really went, and the server's transaction status,
statements, portals and number of acknowledgements at that moment.  The server counts its
transactions by what it runs (`xact`, `open`): a statement that runs outside of one begins
one, which COMMIT, ROLLBACK or the end of the cycle ends.  A Parse may be refused, and one
of the unnamed statement drops the old one first, refused or not.  **Session** composes a
protocol-abiding client, one connection and the server.  As the server's answers
depend only on its requests and their order, it answers at once into `replies`,
and the proxy reads from there at any later time; this yields all
interleavings of the two directions that matter to the proxy.  The server runs
texts of several statements, empty ones, `COPY ... FROM STDIN` (in which it
ignores Sync until CopyDone), portals with a row limit, and Flush.

**Replay** adds to a session the events seen so far, and `Replayed`, the scenario
`replay()` makes of a fault (trace 66–81).

### The machinery

**Wire** is `FrameReader` (wire 25–58) twice, under the `select!` of the loop.
`Poll`, `Read`, `Returned`, `Invalid` and `EndOfStream` are the points where
`next()` waits, gets bytes, returns a frame, an error or the end; `Returned` also
drops the other future, whose buffer must survive.  The length field has one byte
instead of four in the run and `MAX_FRAME` is small; everything else is byte by byte.
`MessagesAssumption` says how a byte stream is cut into the frames a peer means:
well-formed ones, up to the first with a length no frame has, after which anything may
come.  Any bytes can be read so, which makes it no restriction on the peer.  The
model lets one future read between the other's read and its return, which the code
does not: it has more interleavings, not fewer.

**Stream** is the write side of `tls::Stream`: `WriteAll` begins a `write_all()`,
`WritePlain` and `WriteTls` are its polls, with short writes; `ShutdownStream`,
`EmptySession` and `CloseStream` the orderly end, `Reset` the other one.  What a
TLS session buffers and when it passes it on is the library's and external.

**Backpressure** is the loop with sockets of bounded size: `ReadsRequest`,
`WritesRequest`, `ReadsAnswer`, `WritesAnswer` are the awaits of the two arms, and
`hand` is the frame the task holds between a read and a write, during which it
reads nothing.  `window`, how many requests the client has under way, is chosen in the
initial state.

**Trace** is `Recorder` shared by tasks: `Lock`, two partial writes, failure after
either, a kill at any moment.  A fault takes effect only after its line; `Parses`,
`Faults` and `Replay` are the reading side (trace 60–91).

**Server** is `serve` and `connection` up to the relay loop.  A task runs between
two awaits without interruption, so `stage` is the await it stands at and each
action the code up to the next one:

| Proxy lines | Definition |
|---|---|
| accept, join, shutdown, drain (27–52) | `Accept`, `Join`, `AcceptFails`, `JoinPanicked`, `Stop`, `Aborted`, `ServeReturns` |
| SSLRequest (90–98, tls 59) | `SslRequest` (panics when the stream is TLS already), `TlsAccepted` |
| CancelRequest (100–105) | `CancelRequest`, `CancelConnected`, `CancelForwarded` |
| StartupMessage, TLS to the server (106–140) | `StartupMessage`, `Connected`, `SslReply`, `TlsConnected`, `StartupWritten` |
| any `?`, the end of the loop, a truncation | `Returns`, `Truncated` |
| a record that cannot be written (43, 104, 139, 169) | `Lifecycle`, `StartupUnrecorded` |

Every write of a record may fail.  That of the startup and of a cancel ends
`connection` with an error, that of `connection.closed` is ignored (`let _ =`, proxy 43).
`lost` is a history variable: the connections of which a record was not written.

**Cli** is `main` around it: `Load`, `Configure`, `Create`, `Bind` in the code's
order, then a run that ends by a signal, or a probe: `Spawn`, `ChildEnds`,
`SendShutdown`, `ServerJoined`, `Verify`, `ProbeEnds`.  The command's traffic is a
statement that is sent, forwarded, executed and answered.  pgfault may be killed,
and started again with the same arguments; starts that left no trace file are not
counted towards the bound on them, since they change nothing that a later start finds.

**SqlScan** is `classify` (events 39–154) over symbols, next to a definition of
PostgreSQL's lexical rules.  **Startup** is `metadata` (proxy 59–81) over bytes,
next to what the server makes of a startup packet: the later of two values counts, and
the database is the one named like the user if the packet names none or an empty one.
Both use recursive operators and stay with TLC.


## 3. What the runs show

Runs that pass:

| Run | Instance | Properties |
|---|---|---|
| `state` (MCConnectionState) | any 5 frames from either side | `TypeOK`; `Structure`: ids are consecutive, replies touch the oldest cycle only, one epoch per cycle, nothing joins a simple cycle; `QuiescentMapsConfirmed`: speculation leaves no trace; `OneEventPerName`; `UnreliableUntilDrained` |
| `gate` (MCProxy) | any 6 frames; scenarios that drop the second commit and the second query, cut at a rollback, cut a result at once, cut the second result after a row | `RelaysFaithfully`: the loop implements `Relay`; `GateHolds`; `HeldWithinCycle`; `FaultsRecorded`; `ProxyTypeOK` |
| `session_extended` | extended protocol, named statements, errors; 5 client frames | `EventsTruthful`: events name the cycle and statement the server is at, completions are reported exactly; `PictureAgrees`; `BindsResolved`; `EpochPerTransaction` |
| `session_simple` | pipelined simple queries, COPY, empty texts, up to 3 rows, sockets may fail; 4 client frames | `EventsTruthful`; `ExactRows` |
| `session_pipelined` | pipelined simple and extended cycles; 5 client frames | `CyclesAligned`, `IndicesExact`, `CompletionWithheld`, `EventuallyQuiet` (liveness) |
| `session_portals` (MCReplay) | Execute with a row limit, Flush; 6 client frames | `EventsTruthful`; `ReplayExact`: the scenario `replay()` makes of a fault matches the event it was recorded at and none before |
| `parts` (MCParts) | each part of the machinery but the command line | `FramesExact`, `EndsRightly`, `EveryFrameArrives` (Wire); `ShutdownDelivers`, `PlainArrives` (Stream); `AnsweredOrJammed` (Backpressure); `ActedRecorded`, `ReplayComplete` (Trace); `LifeRecorded`, `StartupPassedOnce`, `ShutdownCompletes` (Server) |
| `cli` (Cli) | 2 connections, a statement, 2 starts, TLS to the server | `SuccessMeans`, `TraceKept`, `VerifiedUndisturbed`, `ProbeCompletes` |
| `texts` (MCTexts) | every text of up to 6 symbols, every startup body of up to 9 bytes | `ManyAreOther`, `OneHasItsClass`; `ParametersSeen` |

`parts` checks five modules in one run: `part`, chosen in the initial state, says
which of them moves, and the others rest in an initial state.  A behaviour of the
run is a behaviour of that one module.

Some of these say less than their names may suggest:

* `TrueEnding`, by which `EventsTruthful` judges the end of a cycle, looks at the last
  statement of a cycle without an error, as the code does (state 326).  A COMMIT that ran
  before an error, or before another statement, of the same extended cycle has committed in
  PostgreSQL; the code reports no completion for it, and the property asks for none.
* `PictureAgrees` makes one exception.  PostgreSQL drops the unnamed statement before it
  looks at the text of the next one; if that Parse is refused, the proxy takes the
  acknowledged state back (state 310, 356) and keeps a statement the server no longer has.
  `BindsResolved` holds all the same: the server refuses a Bind of it.
* `EpochPerTransaction` says that an epoch is counted only while the server has no
  transaction open, and that one is counted whenever the first statement of a cycle begins
  a transaction.  The code gives an epoch to a cycle, so the number of epochs is not the
  number of transactions: a transaction begun after a COMMIT in the same cycle shares the
  epoch of the one before, and a statement that the server refuses or skips may use one up.
* `HeldWithinCycle` includes the limit on what the gate holds (proxy 175).
* `LifeRecorded` promises the closing record of a connection, and `StartupPassedOnce` that
  of its startup, unless a write of the connection's records failed.
* `AnsweredOrJammed` is what remains of "every request is answered" when one task relays both
  directions: all requests are answered, or the task and the server wait for each other for
  ever, and that only if the client has at least `Capacity + 2` requests under way.
  `Standstill` shows that it happens.
* `ParametersSeen` leaves a session on the database of its user's name by default: there
  `metadata` sees no database, or an empty one, and no selector on a database selects it.

Runs that refute a sentence of the repository (each is a finding in
`PROJECT.json`, with the sentence quoted):

| Run | Property | What happens |
|---|---|---|
| `pipelined_attribution` | `EventsAttributed` | The client sends a query that leaves the session idle and pipelines Parse and Bind behind it; ReadyForQuery(Idle) of the first cycle clears `portals` (state 351), so the Execute that follows is filed as class Other, still marked reliable. A COMMIT in it neither fires a scenario nor is gated. |
| `quickstart` | `CompletionExact` | The README's quickstart sends `BEGIN; INSERT ...; COMMIT;` as one simple query, which `classify` calls Other on purpose; its commit is not reported, and the scenario of the quickstart does not fire. |
| `replication_reset` | `SeveredAfterRequest` | The shipped scenario fires at the ReadyForQuery that ends the handshake, before START_REPLICATION can be sent. |

### Where the properties stop holding

The passing runs exclude some behaviours because a property fails there.  Each
exclusion has a configuration that shows what happens; they are run by hand, as
`tlc -config X.cfg M`, and end with the violation named (`HeldFrames`, `ProbeVerdict` and
`StreamLosses` have two; with `-continue` TLC shows both).

| Configuration (module) | Property | What happens |
|---|---|---|
| `EmptyQuery` (MCSession) | `CompletionExact` | EmptyQueryResponse has no arm in `backend` (state 360), so the Execute of an empty statement keeps its place in the queue, and a COMMIT after it in the cycle is taken for it. |
| `CopyExtended` (MCSession) | `EventsAttributed` | In the extended protocol the server ignores a Sync sent before CopyDone; `frontend` has counted it (state 199), and every later reply is filed one cycle too early. |
| `SuppressedExecute` (MCSession) | `EventsAttributed` | `frontend` has filed the statement of an Execute before `apply` suppresses it (proxy 153); the completion of the next one is attributed to it. |
| `PipelinedEpochs` (MCSession) | `EpochPerTransaction` | A transaction pipelined behind another cycle gets no epoch of its own, or gets one, depending on which frame is read first (state 206). |
| `SuspendedIndex` (MCSession) | `IndicesExact` | PortalSuspended does not advance `statement_index` (state 297); later events of the cycle carry an index one too small.  For the same reason, and because the row count starts anew, rows on both sides of it share a coordinate: `ReplayExact` speaks of the events after the last one only. |
| `LostSpeculation` (MCSession) | `BindsResolved` | An error in one cycle also forgets the Parse of a later, pipelined one, which the server carries out (state 310). |
| `ResultStart` (MCSession) | `ResultStartAttributed` | RowDescription answers Describe; if the proxy reads it before the client's Execute, `result.started` names no statement or the one before (state 275). |
| `TwoResultsTruncated` (MCSession) | `ExactRows` | The truncation counter is reset at ReadyForQuery only, so in a string of two queries it runs on into the second result (proxy 172). |
| `HeldFrames` (MCSession) | `NothingLostAtClose` | The server closes its stream between CommandComplete and ReadyForQuery; the held frames are dropped although no scenario fired (proxy 162). |
| `HeldFrames` (MCSession) | `FlushAnswered` | A client that flushes after COMMIT and waits before it syncs waits for a frame behind the gate (proxy 176). |
| `SuspendedCompletion` (MCSession) | `CompletionWithheld` | The CommandComplete of a SET passes, since class Other is not gated; a SELECT after it in the cycle is suspended and becomes the last statement (state 297), and ReadyForQuery reports `transaction.implicit.completed` although the client has seen a CommandComplete of that transaction. |
| `ReplayOrdinal` (MCReplay) | `OrdinalsIgnored` | A replayed scenario keeps `connection_ordinal`, against the comment at trace 59. |
| `ScanBackslash` (SqlScan) | `ManyAreOther` | The scan takes a backslash in any string for an escape (events 87), PostgreSQL only in `E''`; the closing quote is missed, and with it a semicolon. |
| `Standstill` (Backpressure) | `AllAnswered` | With more requests under way than the server, its socket and the task hold, the task waits to write a request while the server waits to write answers, though the client reads all the time (proxy 153). |
| `StreamLosses` (Stream) | `TlsArrives` | The loop never flushes; the tail of a frame can stay in the TLS session until the next write. |
| `StreamLosses` (Stream) | `RowsBeforeReset` | SO_LINGER with zero discards rows written and not yet read by the client (tls 50): a truncation delivers at most N rows. |
| `ProbeVerdict` (Cli) | `ExitMatches` | `server.await??` (cli 181) returns the error of `serve` before the command's status is looked at. |
| `ProbeVerdict` (Cli) | `GroundTruthFinal` | The server may still be executing a forwarded statement when the verify query runs (cli 204). |

### Bounds, and why they are enough

* *Frames.*  Five frames are one more than the shortest extended cycle
  (Parse, Bind, Execute, Sync), so cycles can be pipelined, joined and sealed.
  In `state` and `gate` the bound counts both directions, and `gate` has six so
  that a second COMMIT can complete; in the session runs it
  counts only the client's frames (a closing Sync and a CopyDone are free), and the
  server's replies come on top.  `session_portals` needs six: BEGIN, an extended
  cycle with two Executes.  `session_simple` needs four: two transactions.
* *Names.*  The unnamed statement and one named one: the code compares names for
  equality only and treats the empty one specially.
* *SQL.*  One text per class that some branch tells apart.
* *GateLimit = 2*: the code's 1 MiB, counted in frames, so that a CommandComplete
  and a frame after it fit and the next one overflows.
* *MaxRows*: 1 where rows only have to exist, 2 where coordinates of two rows are
  compared, 3 where they are counted.
* *One connection* in the upper half.  Connections share only the scenario list,
  which is read-only, the trace (module Trace) and the process (module Server).
* *Wire*: two peers that may say nothing, two good frames, one of the greatest
  length, a length too small, a length too great; a close may come anywhere.
* *Stream*: frames of 3 units over a send buffer of 2 and a session of 4, so every
  write is short.  *Backpressure*: sockets of 2 frames and 4 answers a request, so
  that the way back fills; windows of 1 to 5, of which 3 is the largest that the server's
  socket and the task's hand hold, so that both outcomes happen.  *Trace*: two tasks with two faults each.  *Server*, *Cli*: two
  connections, one to misbehave and one to suffer; `parts` has TLS on both sides,
  `cli` on the server's only, which is where its order matters.
* *Texts*: six symbols hold two statements with a comment or a string between them;
  the alphabet leaves out what the scan treats like another symbol, and the
  backslash (`ScanBackslash`).  Nine bytes hold two parameters, one of them twice, or the
  user and the database; each of the three names is one byte, and longer ones are unknown.

Deadlock is checked in `state`, `gate` and the sessions: `Session!Finished` and the
`Done` actions stutter only at the bound, on a closed connection, or when the client
waits for a reply that a scenario has suppressed.  In `parts`, `cli` and `texts` the
system stops of its own accord (a process exits, a stream ends, a text has its
greatest length).

### Fairness

* `EventuallyQuiet`: weak fairness of reading a reply and of the client's Sync, stated for
  what only a `ServerStep` does (it shortens `replies`) and only a Sync (it ends a batch).  The
  first is what the code gives: `select!` polls both arms, in random order, so a
  reply that stays readable is read.  The second is an assumption about the client:
  one that has begun an extended cycle ends it.  Without it the server owes no
  ReadyForQuery and the gate is right to wait.  Nothing is assumed of a client that
  starts new cycles.
* `EveryFrameArrives`: weak fairness of each reader, for the same reason, and of
  peers that write what they have to write.  No peer has to close.
* `AnsweredOrJammed`: weak fairness of every read and write that stays possible; strong
  fairness of the two arms' reads, because the other arm may disable one by taking
  the task: `select!` chooses at random, so neither loses for ever.
* `ShutdownDelivers`, `PlainArrives`: the task polls its write, a shutdown is carried
  out, the peer reads.  Nothing has to be written.
* `ShutdownCompletes`, `ProbeCompletes`: tokio polls what is ready, an aborted task is
  dropped when it is polled next, `main` goes on when what it awaits is there.  No
  connection and no command has to end by itself.

## 4. What is proved

Every theorem is about the specification the runs check, for every value of its
constants that meets the named assumptions and, for the session, the hypotheses in the
last column; every property below is also an invariant or a property of a run.

| Module | Theorem | Statement | Hypotheses |
|---|---|---|---|
| `ConnectionStateProofs` | `TypeCorrect` | `Spec => []TypeOK` | |
| | `StructureCorrect` | `Spec => []Structure` | |
| | `QuiescentMapsCorrect` | `Spec => []QuiescentMapsConfirmed` | |
| | `UnreliableCorrect` | `Spec => UnreliableUntilDrained` | |
| | `OneEventPerNameCorrect` | `Spec => []OneEventPerName` | |
| `ProxyProofs` | `ProxyTypeCorrect` | `ProxySpec => []ProxyTypeOK` | |
| | `FaultsRecordedCorrect` | `ProxySpec => []FaultsRecorded` | |
| | `HeldCorrect` | `ProxySpec => []HeldWithinCycle` | |
| | `GateCorrect` | `ProxySpec => []GateHolds` | |
| | `RelayCorrect` | `ProxySpec => RelaysFaithfully` (the refinement of `Relay`) | |
| `SessionProofs` | `CyclesAlignedCorrect` | `SessionSpec => CyclesAligned` | `Orderly` |
| | `EpochPerTransactionCorrect` | `SessionSpec => EpochPerTransaction` | `Lockstep` |
| | `PictureAgreesCorrect` | `SessionSpec => []PictureAgrees` | `Lockstep`, `UnnamedPortals` |
| | `BindsResolvedCorrect` | `SessionSpec => BindsResolved` | `Lockstep`, `UnnamedPortals` |
| | `EventsTruthfulCorrect` | `SessionSpec => EventsTruthful` | `Lockstep`, `UnnamedPortals`, `OneStatement` |
| `FaultProofs` | `ExactRowsCorrect` | `SessionSpec => []ExactRows` | `Orderly`, `SimpleOnly`, `Short`, `Unbroken` |
| | `BlockEndWithheldCorrect` | `SessionSpec => CompletionWithheld` | `Orderly`, `~MaySuspend`, `Explicit` |
| | `CompletionWithheldCorrect` | `SessionSpec => CompletionWithheld` | `Lockstep`, `UnnamedPortals`, `OneStatement`, `~MaySuspend` |
| | `IndicesExactCorrect` | `SessionSpec => IndicesExact` | `Lockstep`, `UnnamedPortals`, `OneStatement`, `~MaySuspend` |
| `TraceProofs` | `ActedRecordedCorrect` | `TraceSpec => []ActedRecorded` | |
| | `ReplayCompleteCorrect` | `TraceSpec => []ReplayComplete` | |
| `WireProofs` | `FramesExactCorrect` | `WireSpec => []FramesExact` | |
| | `EndsRightlyCorrect` | `WireSpec => []EndsRightly` | |
| `ServerProofs` | `StartupPassedOnceCorrect` | `ServerSpec => []StartupPassedOnce` | |
| | `LifeRecordedCorrect` | `ServerSpec => []LifeRecorded` | |
| | `SuccessMeansCorrect` | `CliSpec => []SuccessMeans` | |
| | `TraceKeptCorrect` | `CliSpec => TraceKept` | |
| | `VerifiedUndisturbedCorrect` | `CliSpec => VerifiedUndisturbed` | |

### Assumptions

TLC evaluates each of them in every run that uses the module.

* `NameAssumption`: the empty name is a name; `None` is neither a name, a text, a
  number nor a transaction state.  `SqlAssumption`: `NoSql` is no text, `Classify` gives
  each text a class.  `StartupAssumption`: the ordinal is a number, the metadata are
  well formed.  Used for the semantic state and the relay loop.
* `ConfigAssumption`: the scenarios are well formed and passed `validate()`, as the
  command line makes sure; the gate's limit is a number; `None` is no event.
* `TraceAssumption`, `ServerAssumption`, `CliAssumption`: numbers are numbers, flags are
  flags, exit codes are the three kinds the code tells apart.
* `WireAssumption`: bytes are the digits of some base, the length field has at least
  one; `MessagesAssumption`, see Wire.

Nothing is assumed of the frames in `ConnectionStateProofs`.  `ProxySpec` lets the
server send what `ServerMaySend` allows: a ReadyForQuery states a transaction status,
and a COMMIT or ROLLBACK is not suspended like a portal with rows.

* `SessionAssumption`, `ScriptAssumption`, `EventAssumption`: the client's frames are well
  formed (a body that `cstr` rejects gets an error from the server at once), the
  statements of a text are texts, `None` is no event.

The hypotheses about a session say which clients and scenarios a theorem is for.  Most
exclude a behaviour in which the property is false, and section 3 has the configuration
that shows it; the others say so:

* `Orderly`: no scenario suppresses a frame of the client (`SuppressedExecute`), a COPY is
  sent in the simple protocol only (`CopyExtended`), and the client sends no Describe:
  `frontend` has no arm for it, so the answer to a Describe that begins the client's work
  is filed under no cycle if it is read before the next frame (TLC shows this for
  `CyclesAligned` with `DescribingClient`).
* `Lockstep`: `Orderly`, and the client waits for ReadyForQuery before it begins a new
  cycle (`pipelined_attribution`, `PipelinedEpochs`, `LostSpeculation`), and no COPY.
* `UnnamedPortals`: every Bind uses the unnamed portal.  With a named one, a COMMIT and a
  BEGIN in the same extended cycle leave the proxy a portal that the server dropped at the
  COMMIT, since `backend` drops portals at ReadyForQuery only (state 351).
* `OneStatement`: every text is one statement.  A text of several is of class Other and its
  completion goes unreported (`quickstart`); one of none keeps its place in the queue of
  statements in the extended protocol (`EmptyQuery`).
* `~MaySuspend`: no Execute has a row limit that is reached (`SuspendedIndex`,
  `SuspendedCompletion`).
* `Short`: a text has at most one statement (`TwoResultsTruncated`).
* `SimpleOnly`: the client sends simple queries only, CopyDone and Terminate.  In the
  extended protocol the RowDescription that arms the truncation answers a Describe, which
  `Orderly` excludes; that a client which mixes the two protocols is left out is a limit of
  the proof.
* `Unbroken`: scenarios suppress nothing but the end of a transaction block.  A row that
  another scenario suppresses has been counted and does not arrive; a suppressed
  CommandComplete leaves a result without an end.
* `Explicit`: no scenario waits for the end of an implicit transaction.  A limit of the
  proof: for such scenarios `CompletionWithheldCorrect` needs `Noted`, which is shown for a
  client that waits.

The runs satisfy them: `session_extended` has a client within all of them but those of
`ExactRowsCorrect`, which `session_simple` satisfies; `session_pipelined` has one within
`Orderly`.  Outside of them the runs go further than the theorems: `session_simple` checks
`EventsTruthful` for pipelined simple queries and empty texts, `session_pipelined`
`IndicesExact` for pipelined cycles, and `CompletionWithheld` for pipelined cycles with a
scenario for implicit transactions.

### Arguments

*Induction.*  An induction theorem with a predicate as parameter is beyond the
installed provers.  `SequenceFacts` states induction for a *set* of numbers
(`InductionOverNat`, from the well-foundedness of `<`), and from it that a function
defined by recursion exists and is unique (`RecursionExists`, `RecursionUnique`).
That is enough for the recursive functions of `Wire` (`Flatten`) and `Server`
(`EventsIn`): what each does when something is appended is proved, not assumed.

*Semantic state.*  `TypeOK` is inductive by itself; there is one lemma per direction,
with one step per action.  The four structural invariants are not inductive one
by one: that an epoch is allocated once per cycle needs that later cycles have
none, which needs that a reply changes the oldest cycle only and that the cycle
left in front after a pop is an unanswered one; and that a simple cycle stays
alone needs that it is sealed and that joining work looks at the seal of the
newest cycle.  `Structured(cs, next, epoch)` is their conjunction as a predicate
on a queue.  The queue only ever changes in three ways, and one lemma each shows
that `Structured` survives: a fresh cycle is appended (`AppendStructured`), a
cycle is replaced by one with the same answers (`ReplaceStructured`), the oldest
one is dropped (`RestStructured`).  The actions reduce to these.
`QuiescentMapsCorrect` rests on the fact that `frontend` never leaves the queue
empty after changing a speculative map (`FrontendOutstanding`); an empty queue
arises only at ReadyForQuery, which resynchronises the maps, or at a frame that
does not touch them.  `OneEventPerName` holds after each call by itself: the names each
arm pushes are distinct.

*Relay loop.*  `DrivesState` (`ProxySpec => Spec`) carries the results about the
semantic state over.  `FaultsRecorded` is inductive with the types.  The gate decides
early, at CommandComplete, about what is reported late, at ReadyForQuery; that the two
agree rests on four facts: no frame of the client changes the last statement or the
command of the oldest cycle (`FrontendFront`); of the replies only CommandComplete and
PortalSuspended do (`BackendFront`); only ReadyForQuery reports a completion, so no
matcher that waits for one fires before (`SilentStep`, `WaitingMatchersKept`); and the
cycle in front after a ReadyForQuery is an unanswered one, which is `Structure`.  `HeldWithinCycle` needs `HeldArmed` beside it: as long as
something is held, a scenario for a completion has not fired.  The refinement uses
`HeldArmed` for what `Relay` says about keeping back, and has one lemma for each
direction.  Its proof corrected `Relay`: a connection may end while the last row of a
truncated result has just gone behind the gate, so `End` must allow the input to be
appended to the queue; the fifth scenario of the `gate` run makes TLC reach that case.

*Trace.*  `TraceInvariant`: at most one task is in the midst of a line, it has the
mutex, its half line is the last thing in the file (`Mutex`, `LastPiece`), and the
file without it parses unless a write failed (`Shape`).  Lines are only appended, so
a line once whole stays whole (`InFileKept`).

*Framing.*  `WireInvariant`: for each peer the frames returned, the buffer, the bytes
under way and those not yet sent make up its message (`Whole`); a future that waits
has a buffer that `decode` calls incomplete (`WaitsRightly`); a stream that has ended
stays as it was found (`FoundSo`).  The heart is `DecodeJudges`: on an aligned stream
`decode` returns the peer's next frame, refuses a length exactly where the peer sent
one no frame has, and waits otherwise.  `waiting` matters because end of stream is
only noticed by a future that has found its buffer incomplete: otherwise frames
left in the buffer would be lost in silence.

*Accept loop.*  `ServerInvariant`: the await a task stands at determines what it has
written to the server (`WrittenSoFar`) and recorded (`RecordedSoFar`); a task that has
ended keeps both, but for the records that were `lost`.  Its lemmas are stated over steps of one task, so any number of
others may run.

*Command line.*  `CliInvariant` adds that the trace is only written while its file is
at the path, that the verify query comes after `serve` returned, and that `serve`
returns only when its tasks have ended.  `TraceKept` and `VerifiedUndisturbed` are
step properties under it.

*Session.*  Invariants one on top of the other.  `AlignedInv` links the two
queues: the cycle numbers of the replies under way form a chain that ends at the server's
current cycle (`Chained`), and the oldest reply's number plus the length of the proxy's
queue is the number of cycles the client has opened (`InStep`).  So the front of the queue
is the cycle of the reply read next, however many are in flight.  What a text of several
statements does to the server is shown by `InductionOverNat` over its statements.  `LockInv`
adds, for a client that waits, that a ReadyForQuery can only be the last reply under way
(`InTurn`) and that proxy and server count statements alike and, at the first statement of
a cycle, agree on whether a transaction is under way, unless one is (`Counted`).  `MapInv` compares the maps.  The proxy's confirmed maps lag behind the
server's by the replies under way, and its speculative ones run ahead by what the server
will skip.  Neither can be compared with the server's current maps; so `Viewed` has a
sequence of views, numbered by acknowledgements: the confirmed maps are the view the
replies start from, each unacknowledged mutation of the oldest cycle leads to the next
view, each reply shows the server at the view of its own number, and the server stands at
the last view unless it skips.  A view agrees with the server up to the unnamed statement,
which the server may have dropped (`Covers`).  A Parse of it makes the two equal again, and
every other mutation keeps them so far apart at most, so a view that covers the server is
followed by one that does.  `Settled` has what is independent of the views: nothing but
ReadyForQuery follows an error (`Failing`), which is why the proxy may drop the mutations
there; no error means that the speculative statements cover the server's.  `NoteInv` adds
what either side remembers of the cycle for the event at its end.  A mark is the last
statement, the command tag, the error and the number of executions over, as seen at one
point of the stream of replies: the proxy's cycle is the mark before the oldest reply, each
reply under way continues the mark before it, and the newest one is the server's record
(`Noted`).  That the queue `statements` names what the server runs needs the statements of
the whole cycle, answered or not, which the proxy forgets; a ghost sequence has them
(`Filed`), and a portal that the server has is the proxy's while the server skips nothing
(`Bound`).

*Faults.*  `RowInv` follows a truncated result through the stream.  `Succeeds` says which
reply may come after which, and `Ordered` that the whole stream keeps to it; it pauses at
ReadyForQuery or CopyInResponse only.  So from RowDescription on nothing but rows reach the
client until the result ends, and the counter plus the rows shown is what the scenario that
fired last asks for (`Owed`).  That takes three more facts: only `result.started` sets the
counter (`validate`); the newest recorded fault is the one with the largest cycle number,
which is the cycle of the result; and none of the frames is suppressed, since the command
of a block's end is COMMIT or ROLLBACK and that of a result is not.  `WithheldInv` carries
`GateHolds` over to implicit transactions (`Guarded`): while a scenario waits for the end
that is imminent, its CommandComplete has not been written.  The two places that decide
differ in the code: the gate leaves BEGIN out (state 231), the report at ReadyForQuery does
not (state 335).  They agree because a BEGIN that did not fail leaves the server in a
transaction (`Opens`), so ReadyForQuery says so, and because the statement and the error
the proxy remembers are the server's (`Noted`).  `IndexInv` adds to `NoteInv` that
`statement_index` is the number of executions answered.

### Only model-checked

* `ReplayExact`; `EventsTruthful`, `IndicesExact` and, for implicit transactions,
  `CompletionWithheld` for clients that pipeline.
* `ManyAreOther`, `OneHasItsClass`, `ParametersSeen`: recursive operators, which the
  prover does not support.
* Liveness (`EventuallyQuiet`, `EveryFrameArrives`, `ShutdownDelivers`, `PlainArrives`,
  `AnsweredOrJammed`, `ShutdownCompletes`, `ProbeCompletes`): fairness is ENABLED, which is
  outside the prover's reach.

## 5. What is not modelled

* TLS handshakes, certificates and their verification: the library's.  That they
  succeed or fail is an action of `Server`, that the files load one of `Cli`.
* SSLRequest and GSSENCRequest that are declined: answered `N`, no state changes.
* Function calls and COPY TO: the semantic state ignores their frames; they are
  among the tags `H` and `N`.
* A `$` inside an identifier, which the scan does not know of: texts that have one are
  left out of `OneHasItsClass`.
* The length of a delay.  A delay only keeps the connection's task busy, and an
  arm is one step however long it takes.
* The syntax of scenarios (YAML), of the trace (JSON) and of the command line, and
  what is printed: no state of their own.
* The driver harnesses, the scripts and the case studies: they use the program and
  are no part of it.

## 6. Plan

1. *(done)* Vocabulary, semantic state, scenarios, relay loop, server, session.
2. *(done)* Proofs about the semantic state.
3. *(done)* `Relay` and the refinement; the machinery: framing, streams, bounded
   sockets, trace and replay, accept loop and startup, command line, the scanners.
4. *(done)* `ProxyProofs`: the relay loop for every configuration, and that it
   implements `Relay`.
5. *(done)* `OneEventPerName` for every sequence of frames.
6. *(done)* `TraceProofs`, `WireProofs`, `ServerProofs`: the machinery for any number of
   tasks, peers and connections.
7. *(done)* `SessionProofs`: `CyclesAligned`, `EpochPerTransaction`, `PictureAgrees`,
   `BindsResolved` and `EventsTruthful`.  `FaultProofs`: `ExactRows`,
   `CompletionWithheld` and `IndicesExact`.
8. `Startup` and `SqlScan` with recursive functions in place of operators, so that
   `RecursionExists` applies to them.
