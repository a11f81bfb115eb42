------------------------------- MODULE Proxy -------------------------------
(***************************************************************************)
(* One proxied connection once its startup packet has gone upstream: the   *)
(* loop of connection(), whose two arms relay a client frame and a server  *)
(* frame, and apply(), which lets the scenarios' matchers see the events   *)
(* of the frame and carries out the actions of those that fire.            *)
(*                                                                         *)
(* The loop is a single task: an arm runs to its end, delays included,     *)
(* before the next frame is read, so an arm is one action.  Frames are     *)
(* relayed as they are; `to_server' and `to_client' are what the last arm  *)
(* wrote to the two sockets and `fired' the scenarios it fired.  Here the  *)
(* frames are arbitrary, but for what ServerMaySend says.                  *)
(***************************************************************************)
EXTENDS ConnectionState, Scenario, FiniteSets

CONSTANTS
    Config,      \* the scenarios, in order
    GateLimit    \* frames the completion gate may hold: the code's 1 MiB,
                 \* a frame counting for one unit

ASSUME ConfigAssumption ==
    /\ None \notin Event
    /\ Config \in Seq(ScenarioType)
    /\ \A i \in DOMAIN Config : Valid(Config[i])
    /\ GateLimit \in Nat

VARIABLES
    matchers,    \* one Matcher per scenario
    held,        \* server frames behind the completion gate
    truncate,    \* rows still to be delivered before the cut, or None
    conn,        \* "open", or how connection() returned
    sockets,     \* what happened to the two sockets
    input,       \* the frame the last arm read, or None
    to_server,   \* frames the last arm wrote to the server
    to_client,   \* frames the last arm wrote to the client
    fired,       \* scenarios the last arm fired
    faults,      \* the coordinate each scenario fired at, or None
    ack          \* history: what became of the latest CommandComplete of
                 \* the oldest cycle

relayVars == <<matchers, held, truncate, conn, sockets, input, to_server,
               to_client, fired, faults, ack>>
proxyVars == <<stateVars, relayVars>>

Sockets == [frontend : {"open", "close", "reset"}, upstream : {"open", "close", "reset"}]

ProxyInit ==
    /\ Init
    /\ matchers = [i \in DOMAIN Config |-> NewMatcher]
    /\ held = <<>>
    /\ truncate = None
    /\ conn = "open"
    /\ sockets = [frontend |-> "open", upstream |-> "open"]
    /\ input = None
    /\ to_server = <<>>
    /\ to_client = <<>>
    /\ fired = {}
    /\ faults = [i \in DOMAIN Config |-> None]
    /\ ack = "none"

-----------------------------------------------------------------------------
(***************************************************************************)
(* apply(events, ...): `ms' are the matchers before the call.              *)
(***************************************************************************)
Fired(ms, es) == {i \in DOMAIN Config : Fires(Config[i], ms[i], es)}

ObserveAll(ms, es) == [i \in DOMAIN Config |-> Observe(Config[i], ms[i], es)]

RecordFaults(fs, ms, es) ==
    [i \in DOMAIN Config |-> IF Fires(Config[i], ms[i], es)
                             THEN Coordinate(Config[i], ms[i], es) ELSE fs[i]]

Suppresses(F) == \E i \in F : Config[i].action.suppress = TRUE

Disconnects(F) == \E i \in F : Config[i].action.disconnect # None

(***************************************************************************)
(* The scenario that comes last in the list has the last word.             *)
(***************************************************************************)
Truncates(F, before) ==
    LET cutting == {i \in F : Config[i].action.truncate_result # None}
    IN  IF cutting = {} THEN before
        ELSE Config[CHOOSE i \in cutting : \A j \in cutting : j <= i].action.truncate_result

(***************************************************************************)
(* A disconnect resets or shuts down the socket it names; returning from   *)
(* connection() then drops both.                                           *)
(***************************************************************************)
SeveredBy(F) ==
    LET resets(side) == \E i \in F :
                           Config[i].action.disconnect = [side |-> side, mode |-> "reset"]
    IN  [frontend |-> IF resets("frontend") THEN "reset" ELSE "close",
         upstream |-> IF resets("upstream") THEN "reset" ELSE "close"]

Return(how, ends) == conn' = how /\ sockets' = ends

BothClosed == [frontend |-> "close", upstream |-> "close"]

ClientReset == [frontend |-> "reset", upstream |-> "close"]

StayOpen == UNCHANGED <<conn, sockets>>

-----------------------------------------------------------------------------
(***************************************************************************)
(* The client's arm of the loop, whose write to the server succeeds or     *)
(* not.  A Query or Execute that went upstream has one more event,         *)
(* query.forwarded, whose suppression means nothing.                       *)
(***************************************************************************)
ClientRelay(f, succeeds) ==
    /\ conn = "open"
    /\ Frontend(f)
    /\ input' = f
    /\ \E first \in {Fired(matchers, events')}, ms \in {ObserveAll(matchers, events')} :
       LET writes == ~Disconnects(first) /\ ~Suppresses(first)
           forwarded == IF writes /\ succeeds /\ f.tag \in {"Q", "E"}
                        THEN <<Forwarded(cycles', tx_epoch')>> ELSE <<>>
       IN  /\ writes \/ succeeds
           /\ fired' = first \cup Fired(ms, forwarded)
           /\ matchers' = ObserveAll(ms, forwarded)
           /\ faults' = RecordFaults(RecordFaults(faults, matchers, events'), ms, forwarded)
           /\ truncate' = Truncates(Fired(ms, forwarded), Truncates(first, truncate))
           /\ to_server' = IF writes /\ succeeds THEN <<f>> ELSE <<>>
    /\ IF Disconnects(fired') THEN Return("disconnected", SeveredBy(fired'))
       ELSE IF ~succeeds THEN Return("error", BothClosed)
       ELSE IF f.tag = "X" THEN Return("closed", BothClosed)
       ELSE StayOpen
    /\ to_client' = <<>>
    /\ UNCHANGED <<held, ack>>

ClientFrame(f) == ClientRelay(f, TRUE) \/ ClientRelay(f, FALSE)

(***************************************************************************)
(* The server's arm.  Its first part, up to the disconnect: the gate is    *)
(* decided before backend() consumes the frame.                            *)
(***************************************************************************)
GateImplicitOnly(f) ==                                         \* mutant: COMMIT passes
    \E i \in DOMAIN Config :
        /\ CompletionBoundary(f) = "transaction.implicit.completed"
        /\ NeedsGate(Config[i], matchers[i], CompletionBoundary(f))

GateAnyFrame(f) ==                                             \* mutant: no boundary needed
    \E i \in DOMAIN Config, b \in CompletedEvent : NeedsGate(Config[i], matchers[i], b)

Gate(f) ==
    \E i \in DOMAIN Config :
        /\ CompletionBoundary(f) # None
        /\ NeedsGate(Config[i], matchers[i], CompletionBoundary(f))

Observed(f) ==
    /\ conn = "open"
    /\ Backend(f)
    /\ input' = f
    /\ fired' = Fired(matchers, events')
    /\ matchers' = ObserveAll(matchers, events')
    /\ faults' = RecordFaults(faults, matchers, events')
    /\ to_server' = <<>>

TruncateNow == Truncates(fired', truncate)

ServerDisconnected ==
    /\ Disconnects(fired')
    /\ truncate' = TruncateNow
    /\ Return("disconnected", SeveredBy(fired'))
    /\ to_client' = <<>>
    /\ UNCHANGED <<held, ack>>

CutsNever(f) == FALSE                                          \* mutant: row N+1 not caught

CutsHere(f) == f.tag = "D" /\ TruncateNow = 0

(***************************************************************************)
(* The row after the last one to deliver.  A cut at zero rows comes here;  *)
(* any other cut has already been made after its last row.                 *)
(***************************************************************************)
ServerCut(f) ==
    /\ ~Disconnects(fired')
    /\ CutsHere(f)
    /\ truncate' = TruncateNow
    /\ Return("truncated", ClientReset)
    /\ to_client' = <<>>
    /\ UNCHANGED <<held, ack>>

ReleasedLate(f) == <<f>> \o held                               \* mutant: out of order

Released(f) == Append(held, f)

(***************************************************************************)
(* ReadyForQuery opens the gate, or discards what is behind it; any body   *)
(* will do.  The write may fail after any of the frames.                   *)
(***************************************************************************)
ServerReady(f) ==
    /\ ~Disconnects(fired')
    /\ f.tag = "Z"
    /\ ack' = "none"
    /\ \/ /\ Suppresses(fired')
          /\ to_client' = <<>>
          /\ held' = <<>> /\ truncate' = None /\ StayOpen
       \/ /\ ~Suppresses(fired')
          /\ to_client' = Released(f)
          /\ held' = <<>> /\ truncate' = None /\ StayOpen
       \/ /\ ~Suppresses(fired')
          /\ \E n \in 0 .. Len(held) : to_client' = SubSeq(held, 1, n)
          /\ held' = <<>> /\ truncate' = TruncateNow
          /\ Return("error", BothClosed)

(***************************************************************************)
(* Any other frame is dropped, held or written, and a row is counted       *)
(* whichever it was; a write may fail.                                     *)
(***************************************************************************)
Disposal(f) ==
    CASE Suppresses(fired') -> "dropped"
      [] ~Suppresses(fired') /\ (Gate(f) \/ held # <<>>) ->
            IF Len(held) + 1 > GateLimit THEN "overflow" ELSE "held"
      [] OTHER -> "written"

RowsLeftWithHeader(f) ==                                       \* mutant: counts the header
    IF f.tag \in {"T", "D"} /\ TruncateNow # None /\ TruncateNow # 0
    THEN TruncateNow - 1 ELSE TruncateNow

RowsLeft(f) == IF f.tag = "D" /\ TruncateNow # None THEN TruncateNow - 1 ELSE TruncateNow

ServerRelayed(f) ==
    /\ ~Disconnects(fired')
    /\ f.tag # "Z"
    /\ ~CutsHere(f)
    /\ truncate' = RowsLeft(f)
    /\ held' = IF Disposal(f) = "held" THEN Append(held, f) ELSE held
    /\ to_client' = IF Disposal(f) = "written" THEN <<f>> ELSE <<>>
    /\ ack' = IF f.tag = "C" THEN Disposal(f) ELSE ack
    /\ CASE Disposal(f) = "overflow" -> Return("error", BothClosed)
         [] Disposal(f) # "overflow" /\ f.tag = "D" /\ RowsLeft(f) = 0 ->
               Return("truncated", ClientReset)
         [] OTHER -> StayOpen

ServerWriteFails(f) ==
    /\ ~Disconnects(fired')
    /\ f.tag # "Z"
    /\ ~CutsHere(f)
    /\ Disposal(f) = "written"
    /\ truncate' = RowsLeft(f)
    /\ to_client' = <<>>
    /\ Return("error", BothClosed)
    /\ UNCHANGED <<held, ack>>

ServerFrame(f) ==
    /\ Observed(f)
    /\ \/ ServerDisconnected
       \/ ServerCut(f)
       \/ ServerReady(f)
       \/ ServerRelayed(f)
       \/ ServerWriteFails(f)

(***************************************************************************)
(* The other ways out of the loop: either peer closes its stream, a read   *)
(* fails, or serve() aborts the task on shutdown.                          *)
(***************************************************************************)
Unrelayed ==
    /\ input' = None /\ to_server' = <<>> /\ to_client' = <<>> /\ fired' = {}
    /\ UNCHANGED <<stateVars, matchers, held, truncate, faults, ack>>

ClientEof == conn = "open" /\ Return("closed", BothClosed) /\ Unrelayed

UpstreamEof == conn = "open" /\ Return("upstream closed", BothClosed) /\ Unrelayed

Failure == conn = "open" /\ Return("error", BothClosed) /\ Unrelayed

(***************************************************************************)
(* What is taken for granted of PostgreSQL: ReadyForQuery carries one of   *)
(* the three transaction states, and COMMIT and ROLLBACK return no rows,   *)
(* so their portals are never suspended.                                   *)
(***************************************************************************)
ServerMaySend(f) ==
    /\ f.tag = "Z" => f.status # "?"
    /\ f.tag = "s" /\ cycles # <<>> =>
         ClassOf(CurrentStatement(Head(cycles))) \notin {"Commit", "Rollback"}

ProxyNext ==
    \/ \E f \in FrontendFrame : ClientFrame(f)
    \/ \E f \in BackendFrame : ServerMaySend(f) /\ ServerFrame(f)
    \/ ClientEof
    \/ UpstreamEof
    \/ Failure

ProxySpec == ProxyInit /\ [][ProxyNext]_proxyVars

-----------------------------------------------------------------------------
(***************************************************************************)
(* Type invariant of the connection's relaying state.                      *)
(***************************************************************************)
ProxyTypeOK ==
    /\ matchers \in [DOMAIN Config -> Matcher]
    /\ held \in Seq(BackendFrame)
    /\ truncate \in Nat \cup {None}
    /\ conn \in {"open", "disconnected", "truncated", "closed", "upstream closed", "error"}
    /\ sockets \in Sockets
    /\ input \in FrontendFrame \cup BackendFrame \cup {None}
    /\ to_server \in Seq(FrontendFrame)
    /\ to_client \in Seq(BackendFrame)
    /\ fired \in SUBSET DOMAIN Config
    /\ faults \in [DOMAIN Config -> Event \cup {None}]
    /\ ack \in {"none", "dropped", "held", "overflow", "written"}

(***************************************************************************)
(* A scenario fires at most once, is recorded exactly when it fires, and   *)
(* the recorded coordinate is a reliable event that satisfies all of its   *)
(* filters (Matcher::observe and the Fault record written by apply()).     *)
(***************************************************************************)
FaultsRecorded ==
    \A i \in DOMAIN Config :
        /\ matchers[i].fired <=> faults[i] # None
        /\ ~matchers[i].fired => matchers[i].seen < Occurrence(Config[i])
        /\ faults[i] # None => /\ faults[i].reliable
                               /\ faults[i].event = Config[i].when.event
                               /\ Selects(Config[i], faults[i])

(***************************************************************************)
(* The transaction end that the oldest cycle will report as it stands.     *)
(***************************************************************************)
Ending ==
    IF cycles = <<>> \/ ~reliable THEN None
    ELSE LET c == Head(cycles) IN
         CASE ClassOf(c.last) = "Commit" /\ c.command = "COMMIT" ->
                 "transaction.commit.completed"
           [] ClassOf(c.last) = "Rollback" /\ c.command = "ROLLBACK" ->
                 "transaction.rollback.completed"
           [] OTHER -> None

(***************************************************************************)
(* The completion gate: between the CommandComplete of a COMMIT (or a      *)
(* ROLLBACK) and its ReadyForQuery, while some scenario may still fire on  *)
(* the completed event, that CommandComplete has not reached the client.   *)
(***************************************************************************)
GateHolds ==
    conn = "open" /\ Ending # None
    /\ (\E i \in DOMAIN Config : ~matchers[i].fired /\ Config[i].when.event = Ending)
    => ack \in {"held", "dropped"}

(***************************************************************************)
(* The gate only closes on a CommandComplete of the oldest cycle and never *)
(* outlives it: what is held starts with a CommandComplete, holds no       *)
(* ReadyForQuery, and there is a cycle whose ReadyForQuery is to come.  It *)
(* is never more than the limit: the frame that would be ends the          *)
(* connection.                                                             *)
(***************************************************************************)
HeldWithinCycle ==
    conn = "open" /\ held # <<>> =>
        /\ cycles # <<>>
        /\ held[1].tag = "C"
        /\ \A k \in DOMAIN held : held[k].tag # "Z"
        /\ Len(held) <= GateLimit

(***************************************************************************)
(* The connection implements Relay: whatever the frames and the scenarios, *)
(* it is a FIFO relay in which each scenario interferes at most once, and  *)
(* a transparent one when none is left to fire (connection() and apply()). *)
(***************************************************************************)
Promise == INSTANCE Relay WITH
    Scenarios <- DOMAIN Config, open <- conn = "open",
    armed <- {i \in DOMAIN Config : ~matchers[i].fired},
    queue <- held, up <- to_server, down <- to_client

RelaysFaithfully == Promise!Spec
=============================================================================
