------------------------------ MODULE Session ------------------------------
(***************************************************************************)
(* A client and a PostgreSQL server talking through one proxied            *)
(* connection.  The client keeps to the protocol: it waits for the first   *)
(* ReadyForQuery, ends extended work with Sync before a simple query,      *)
(* waits for the answers to what it has flushed, ends a COPY it began and, *)
(* unless Pipelining, sends a new cycle only when every earlier one has    *)
(* been answered.  Otherwise it may send any of ClientFrames at any time.  *)
(*                                                                         *)
(* The server answers the frames it gets in order; as its answers depend   *)
(* on nothing else, it is taken to answer at once, into the queue          *)
(* `replies' that the proxy reads from at any later time.                  *)
(***************************************************************************)
EXTENDS Proxy, Postgres

CONSTANTS
    ClientFrames,       \* what the client may send
    MaxFrames,          \* bound: frames the client sends (a closing Sync apart)
    Pipelining,         \* may the client run ahead of the server?
    CanBreak            \* may a socket or the server fail?

ASSUME SessionAssumption ==
    /\ ClientFrames \subseteq FrontendFrame
    /\ \A f \in ClientFrames : /\ f.tag \in {"P", "Q"} => f.sql # NoSql
                               /\ f.tag \in {"B", "E"} => f.portal # None
                               /\ f.tag = "C" => f.name # None /\ f.kind # "?"
    /\ Startup.application_name \in Text
    /\ MaxFrames \in Nat /\ MaxRows \in Nat
    /\ {Pipelining, CanBreak, MayFail, MaySuspend} \subseteq BOOLEAN

VARIABLES
    srv,         \* the server
    replies,     \* its replies the proxy has not read
    reply,       \* the reply the proxy handled last, or None
    sent,        \* frames the client has sent
    batch,       \* has the client an extended cycle open?
    awaited,     \* ReadyForQuery the client still expects
    flushed,     \* does the client wait for the answers to a Flush?
    shown        \* rows the client has received of the current result

sessionVars == <<proxyVars, srv, replies, reply, sent, batch, awaited, flushed, shown>>

SessionInit ==
    /\ ProxyInit
    /\ srv = NewServer
    /\ replies = Welcome(NewServer, Startup.application_name)
    /\ reply = None
    /\ sent = 0
    /\ batch = FALSE
    /\ awaited = 1
    /\ flushed = FALSE
    /\ shown = 0

(***************************************************************************)
(* A client step: one frame, through the client's arm of the proxy to the  *)
(* server.                                                                 *)
(***************************************************************************)
Welcomed == reply # None /\ reply.frame.tag # "S"

StartsCycle(f) == ~batch /\ f.tag \notin {"X", "c"}

Delivered == replies = <<>> /\ held = <<>>

MaySend(f) ==
    /\ sent < MaxFrames \/ (batch /\ f.tag = "S") \/ f.tag = "c"
    /\ StartsCycle(f) => awaited = 0 \/ (Pipelining /\ Welcomed)
    /\ f.tag \in {"Q", "X"} => ~batch
    /\ flushed => Delivered
    /\ srv.copy # "no" => f.tag \in {"S", "c"}
    /\ f.tag = "c" => srv.copy # "no" /\ Delivered

ClientStep(f) ==
    /\ MaySend(f)
    /\ ClientFrame(f)
    /\ sent' = IF sent < MaxFrames THEN sent + 1 ELSE sent
    /\ batch' = (f.tag \notin {"Q", "S", "X"} /\ ~(f.tag = "c" /\ srv.copy = "Q"))
    /\ awaited' = CASE f.tag \in {"Q", "S"} -> awaited + 1
                    [] f.tag = "c" -> awaited - srv.ignored
                    [] OTHER -> awaited
    /\ flushed' = (f.tag = "H")
    /\ \/ /\ to_server' = <<>>
          /\ UNCHANGED <<srv, replies>>
       \/ /\ to_server' # <<>>
          /\ \E a \in Answers(srv, to_server'[1]) :
                srv' = a.srv /\ replies' = replies \o a.out
    /\ UNCHANGED <<reply, shown>>

(***************************************************************************)
(* A server step: one reply, through the server's arm to the client.       *)
(***************************************************************************)
CountReady(fs) == Cardinality({k \in DOMAIN fs : fs[k].tag = "Z"})

RowsShown(fs, n) ==
    LET ends == {k \in DOMAIN fs : fs[k].tag \in {"C", "Z", "E"}}
        from == IF ends = {} THEN 0 ELSE CHOOSE k \in ends : \A j \in ends : j <= k
    IN  (IF ends = {} THEN n ELSE 0)
        + Cardinality({k \in DOMAIN fs : k > from /\ fs[k].tag = "D"})

ServerStep ==
    /\ replies # <<>>
    /\ ServerFrame(Head(replies).frame)
    /\ reply' = Head(replies)
    /\ replies' = Tail(replies)
    /\ awaited' = awaited - CountReady(to_client')
    /\ shown' = RowsShown(to_client', shown)
    /\ UNCHANGED <<srv, sent, batch, flushed>>

(***************************************************************************)
(* The ends of a session that no fault caused.                             *)
(***************************************************************************)
Break ==
    /\ CanBreak
    /\ ClientEof \/ UpstreamEof \/ Failure
    /\ UNCHANGED <<srv, replies, reply, sent, batch, awaited, flushed, shown>>

(***************************************************************************)
(* Nothing is left to do, or the connection is over, or the client waits   *)
(* for a reply that a scenario suppressed.  Any other wait is a deadlock.  *)
(***************************************************************************)
Withheld == \E i \in DOMAIN Config : faults[i] # None /\ Config[i].action.suppress = TRUE

Finished ==
    /\ conn # "open" \/ (replies = <<>> /\ (Withheld \/ (sent = MaxFrames /\ awaited = 0)))
    /\ UNCHANGED sessionVars

SessionNext ==
    \/ \E f \in ClientFrames : ClientStep(f)
    \/ ServerStep
    \/ Break
    \/ Finished

SessionSpec == SessionInit /\ [][SessionNext]_sessionVars

(***************************************************************************)
(* The proxy's task polls both arms of its loop, so a reply that can be    *)
(* read is read in the end (only ServerStep shortens `replies'); a client  *)
(* that began extended work syncs (only a Sync ends a batch).              *)
(***************************************************************************)
ReadReply == conn = "open" /\ replies # <<>> /\ replies' = Tail(replies)

Sync == conn = "open" /\ batch /\ MaySend([tag |-> "S"]) /\ batch' = FALSE

FairSpec == SessionSpec /\ WF_replies(ReadReply) /\ WF_batch(Sync)

-----------------------------------------------------------------------------
(***************************************************************************)
(* Steps in which the proxy handled a reply.                               *)
(***************************************************************************)
Handled == Len(replies') < Len(replies)

NewEvents == {events'[k] : k \in DOMAIN events'}

(***************************************************************************)
(* An event marked semantic_reliable names the query cycle that the server *)
(* is really answering, and if it reports a row or the completion of a     *)
(* statement it names the statement that the server is really executing    *)
(* (the queue of cycles and of statements in ConnectionState).             *)
(***************************************************************************)
Attribution ==
    \A e \in NewEvents : e.reliable =>
        /\ e.cycle = reply'.cycle
        /\ e.event \in {"result.row", "result.completed", "backend.command_complete",
                        "statement.execution_completed"} => e.stmt = reply'.sql

EventsAttributed == [][Handled => Attribution]_sessionVars

(***************************************************************************)
(* The transaction_epoch, which every event carries, never changes inside  *)
(* a transaction of the server, and a transaction that begins with the     *)
(* first statement of its cycle has an epoch of its own (tx_epoch, which   *)
(* the client's direction counts by the status of the last ReadyForQuery). *)
(* An epoch is given to a cycle, though: a transaction begun after a       *)
(* COMMIT in the same cycle shares that of the one before, and a statement *)
(* that never runs may use one up.                                         *)
(***************************************************************************)
EpochPerTransaction ==
    [][/\ tx_epoch' # tx_epoch => tx_epoch' = tx_epoch + 1 /\ ~srv.open
       /\ srv'.xact # srv.xact /\ ~srv.open /\ srv.index = 0 => tx_epoch' # tx_epoch]_sessionVars

(***************************************************************************)
(* The statement_index of a reliable event about a statement is the        *)
(* position of that statement in its cycle (executions and                 *)
(* statement_index, which the two directions count separately).            *)
(***************************************************************************)
IndicesExact ==
    [][Handled => \A e \in NewEvents :
          e.reliable /\ e.event \in {"result.row", "statement.execution_completed"}
          => e.index = reply'.index]_sessionVars

(***************************************************************************)
(* The part of it that survives pipelining: the cycle.                     *)
(***************************************************************************)
CyclesAligned ==
    [][Handled => \A e \in NewEvents : e.cycle = reply'.cycle]_sessionVars

(***************************************************************************)
(* How the server ended the cycle of a ReadyForQuery: by its last          *)
(* statement, and without an error in it.  A COMMIT that ran before an     *)
(* error, or before another statement, of the same extended cycle has      *)
(* committed all the same; it is not looked for here, as it is not in the  *)
(* code (state 326).                                                       *)
(***************************************************************************)
TrueEnding(r) ==
    IF r.frame.tag # "Z" \/ r.failed THEN {}
    ELSE IF r.frame.status # "I" THEN {}
    ELSE CASE ClassOf(r.last) = "Commit" ->
                 IF r.command = "COMMIT" THEN {"transaction.commit.completed"} ELSE {}
           [] ClassOf(r.last) = "Rollback" -> {"transaction.rollback.completed"}
           [] ClassOf(r.last) = "Other" -> {}
           [] OTHER -> IF r.start = "I" /\ r.command # ""
                       THEN {"transaction.implicit.completed"} ELSE {}

Reported == {e.event : e \in NewEvents} \cap CompletedEvent

(***************************************************************************)
(* The transaction-completed event at a ReadyForQuery is exactly the one   *)
(* the server's own record of the cycle calls for: neither a COMMIT that   *)
(* was turned into a rollback, nor one in a failed cycle, nor another      *)
(* cycle's, is reported as completed, and none is missed (backend(Z)).     *)
(***************************************************************************)
CompletionExact == [][Handled => Reported = TrueEnding(reply')]_sessionVars

(***************************************************************************)
(* The inferred history is the true one: both of these at once.  Wherever  *)
(* a scenario may fire the server really is, and where it should fire at   *)
(* the end of a transaction there is an event to fire on.                  *)
(***************************************************************************)
EventsTruthful ==
    [][Handled => Attribution /\ Reported = TrueEnding(reply')]_sessionVars

(***************************************************************************)
(* Once every cycle is answered the proxy's picture is the server's: the   *)
(* flag semantic_reliable is back, and transaction state, prepared         *)
(* statements and portals are those of the server (prepared, portals and   *)
(* their confirmed copies across errors, skips, COMMIT and simple queries).*)
(* The unnamed statement is the exception: the server drops it at the next *)
(* Parse of one, and if that fails the proxy still has it.                 *)
(***************************************************************************)
StatusName(tx) == CASE tx = "I" -> "Idle" [] tx = "T" -> "InTransaction"
                    [] OTHER -> "FailedTransaction"

PictureAgrees ==
    conn = "open" /\ cycles = <<>> /\ replies = <<>> =>
        /\ reliable
        /\ tx_state = StatusName(srv.tx)
        /\ \A n \in Name \ {Unnamed} : srv.stmts[n] = prepared[n]
        /\ srv.stmts[Unnamed] \in {NoSql, prepared[Unnamed]}
        /\ portals = srv.portals

(***************************************************************************)
(* A Bind that the server accepts means the same statement to the proxy    *)
(* (the speculative map `prepared', which errors and ReadyForQuery replace *)
(* by the confirmed one).                                                  *)
(***************************************************************************)
BindsResolved ==
    [][~Handled /\ to_server' # <<>> /\ to_server'[1].tag = "B" /\ ~srv.skip =>
          srv.stmts[to_server'[1].stmt] \in {NoSql, prepared[to_server'[1].stmt]}]_sessionVars

(***************************************************************************)
(* The acknowledgement of a transaction, implicit ones included, has not   *)
(* reached the client when a scenario fires on its completion, and is      *)
(* never written if the scenario suppresses it or disconnects.             *)
(***************************************************************************)
CompletionWithheld ==
    [][\A i \in fired' : Config[i].when.event \in CompletedEvent =>
          /\ ack # "written"
          /\ Config[i].action.suppress = TRUE \/ Config[i].action.disconnect # None
             => to_client' = <<>> /\ (held' = <<>> \/ conn' # "open")]_sessionVars

(***************************************************************************)
(* truncate_result: when the proxy cuts a result, the client has received  *)
(* exactly as many rows of it as the scenario that fired last asks for.    *)
(***************************************************************************)
ExactRows ==
    LET cutting == {i \in DOMAIN Config : /\ faults[i] # None
                                          /\ Config[i].action.truncate_result # None}
    IN  conn = "truncated" => \E i \in cutting :
            /\ \A j \in cutting : faults[j].cycle <= faults[i].cycle
            /\ Config[i].action.truncate_result = shown

(***************************************************************************)
(* What a doc or a comment of the repository says and the code does not    *)
(* do; a configuration of its own refutes each (README, section 3).        *)
(***************************************************************************)

(***************************************************************************)
(* result.started, too, names the statement whose result it is, however    *)
(* the frames interleave ("fires at the same logical point on every run"). *)
(***************************************************************************)
ResultStartAttributed ==
    [][Handled => \A e \in NewEvents :
          e.event = "result.started" /\ e.reliable => e.stmt = reply'.sql]_sessionVars

(***************************************************************************)
(* Without a fault every frame the server sent reaches the client, also    *)
(* when the server then closes the connection ("relays every byte          *)
(* unchanged").                                                            *)
(***************************************************************************)
NothingLostAtClose ==
    conn = "upstream closed" /\ (\A i \in DOMAIN Config : faults[i] = None) => held = <<>>

(***************************************************************************)
(* A client that has flushed gets what the server has answered without     *)
(* having to send anything more.                                           *)
(***************************************************************************)
FlushAnswered == conn = "open" /\ flushed /\ replies = <<>> => held = <<>>

(***************************************************************************)
(* The scenario replication-connection-reset severs the connection after   *)
(* replication has started, so after the client has asked for it.          *)
(***************************************************************************)
SeveredAfterRequest == conn = "disconnected" => sent > 0

(***************************************************************************)
(* Nothing is stranded: every frame behind the gate is released or thrown  *)
(* away and every cycle is answered in the end, unless the connection is   *)
(* over first.                                                             *)
(***************************************************************************)
EventuallyQuiet ==
    <>[](conn # "open" \/ (held = <<>> /\ cycles = <<>> /\ replies = <<>> /\ reliable))
=============================================================================
