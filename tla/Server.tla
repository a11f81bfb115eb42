------------------------------- MODULE Server -------------------------------
(***************************************************************************)
(* The proxy process: serve(), which accepts clients, gives each an        *)
(* ordinal and a task, joins the tasks and shuts down; and the part of     *)
(* connection() that comes before the relay loop: the negotiation with the *)
(* client, the connection to the server and TLS on either side.  The relay *)
(* loop itself (module Proxy) is one stage here.                           *)
(*                                                                         *)
(* A task runs between two awaits without being interrupted, so what it    *)
(* does there is one action; it can be aborted only at an await.           *)
(***************************************************************************)
EXTENDS Naturals, Sequences, FiniteSets

CONSTANTS
    MaxConnections,    \* bound: clients accepted
    FrontendTls,       \* is there a certificate for clients?
    UpstreamTls        \* is TLS wanted towards the server?

ASSUME ServerAssumption ==
    MaxConnections \in Nat /\ {FrontendTls, UpstreamTls} \subseteq BOOLEAN

Connection == 1 .. MaxConnections

VARIABLES
    serving,     \* "accepting", "stopping", or how serve() returned
    shutdown,    \* has the shutdown future completed?
    next_id,     \* ordinal of the last client accepted
    task,        \* state of each connection's task
    stage,       \* the await it stands at
    frontend,    \* "plain" or "tls"
    upstream,    \* "none", "plain" or "tls"
    written,     \* packets written to the server, each with its layer
    trace,       \* lifecycle records, in order
    lost         \* connections a record of which could not be written

serveVars == <<serving, shutdown, next_id>>
connectionVars == <<stage, frontend, upstream, written, trace, lost>>
vars == <<serving, shutdown, next_id, task, stage, frontend, upstream, written, trace, lost>>

ServerInit ==
    /\ serving = "accepting"
    /\ shutdown = FALSE
    /\ next_id = 0
    /\ task = [c \in Connection |-> "none"]
    /\ stage = [c \in Connection |-> "negotiating"]
    /\ frontend = [c \in Connection |-> "plain"]
    /\ upstream = [c \in Connection |-> "none"]
    /\ written = [c \in Connection |-> <<>>]
    /\ trace = <<>>
    /\ lost = {}

-----------------------------------------------------------------------------
(***************************************************************************)
(* connection(), up to the relay loop.  A task that is being aborted may   *)
(* still be running towards its next await.                                *)
(***************************************************************************)
At(c, s) == task[c] \in {"running", "aborting"} /\ stage[c] = s

Goto(c, s) == stage' = [stage EXCEPT ![c] = s]

Record(c, event) == [id |-> c, event |-> event]

WriteUp(c, packet) ==
    written' = [written EXCEPT ![c] = Append(@, [packet |-> packet, layer |-> upstream'[c]])]

(***************************************************************************)
(* What a call of lifecycle() adds to the trace: its record, or nothing if *)
(* the write fails.                                                        *)
(***************************************************************************)
Lifecycle(c, event) == {<<Record(c, event)>>, <<>>}

Missed(c, records) == IF records = <<>> THEN {c} ELSE {}

(***************************************************************************)
(* The task's end: connection() has returned, its last records written or  *)
(* missed, and the task records the end if it can: nobody looks at the     *)
(* result of that write.                                                   *)
(***************************************************************************)
Finish(c, records, missed) ==
    \E closing \in Lifecycle(c, "connection.closed") :
        /\ trace' = trace \o records \o closing
        /\ lost' = lost \cup missed \cup Missed(c, closing)
        /\ task' = [task EXCEPT ![c] = "finished"]

(***************************************************************************)
(* SSLRequest: declined without a certificate, answered and followed by a  *)
(* handshake with one.  into_plain() panics on a stream that is TLS.       *)
(***************************************************************************)
SslRequest(c) ==
    /\ At(c, "negotiating") /\ FrontendTls
    /\ \/ /\ frontend[c] = "plain"
          /\ Goto(c, "tls accept")
          /\ UNCHANGED task
       \/ /\ frontend[c] = "tls"
          /\ task' = [task EXCEPT ![c] = "panicked"]
          /\ UNCHANGED stage
    /\ UNCHANGED <<serveVars, frontend, upstream, written, trace, lost>>

TlsAccepted(c) ==
    /\ At(c, "tls accept")
    /\ frontend' = [frontend EXCEPT ![c] = "tls"]
    /\ Goto(c, "negotiating")
    /\ UNCHANGED <<serveVars, task, upstream, written, trace, lost>>

(***************************************************************************)
(* CancelRequest: a connection of its own, without TLS, then the end.      *)
(***************************************************************************)
CancelRequest(c) ==
    /\ At(c, "negotiating")
    /\ Goto(c, "cancel connect")
    /\ UNCHANGED <<serveVars, task, frontend, upstream, written, trace, lost>>

CancelConnected(c) ==
    /\ At(c, "cancel connect")
    /\ upstream' = [upstream EXCEPT ![c] = "plain"]
    /\ WriteUp(c, "cancel")
    /\ Goto(c, "cancel shutdown")
    /\ UNCHANGED <<serveVars, task, frontend, trace, lost>>

CancelForwarded(c) ==
    /\ At(c, "cancel shutdown")
    /\ \E records \in Lifecycle(c, "cancel.forwarded") : Finish(c, records, Missed(c, records))
    /\ UNCHANGED <<serveVars, stage, frontend, upstream, written>>

(***************************************************************************)
(* StartupMessage: connect to the server, negotiate TLS if it is wanted,   *)
(* and pass the packet on.                                                 *)
(***************************************************************************)
StartupMessage(c) ==
    /\ At(c, "negotiating")
    /\ Goto(c, "connect")
    /\ UNCHANGED <<serveVars, task, frontend, upstream, written, trace, lost>>

ConnectedPlainOnly(c) ==                                       \* mutant: TLS never asked for
    /\ At(c, "connect")
    /\ upstream' = [upstream EXCEPT ![c] = "plain"]
    /\ Goto(c, "write startup")
    /\ UNCHANGED <<serveVars, task, frontend, written, trace, lost>>

Connected(c) ==
    /\ At(c, "connect")
    /\ upstream' = [upstream EXCEPT ![c] = "plain"]
    /\ IF UpstreamTls THEN WriteUp(c, "ssl request") /\ Goto(c, "read ssl reply")
       ELSE UNCHANGED written /\ Goto(c, "write startup")
    /\ UNCHANGED <<serveVars, task, frontend, trace, lost>>

SslReply(c) ==
    /\ At(c, "read ssl reply")
    /\ Goto(c, "tls connect")
    /\ UNCHANGED <<serveVars, task, frontend, upstream, written, trace, lost>>

TlsConnected(c) ==
    /\ At(c, "tls connect")
    /\ upstream' = [upstream EXCEPT ![c] = "tls"]
    /\ Goto(c, "write startup")
    /\ UNCHANGED <<serveVars, task, frontend, written, trace, lost>>

StartupWritten(c) ==
    /\ At(c, "write startup")
    /\ UNCHANGED upstream
    /\ WriteUp(c, "startup")
    /\ trace' = Append(trace, Record(c, "startup"))
    /\ Goto(c, "relay")
    /\ UNCHANGED <<serveVars, task, frontend, lost>>

(***************************************************************************)
(* The packet went out and the startup could not be recorded, which ends   *)
(* connection().                                                           *)
(***************************************************************************)
StartupUnrecorded(c) ==
    /\ At(c, "write startup")
    /\ UNCHANGED upstream
    /\ WriteUp(c, "startup")
    /\ Finish(c, <<>>, {c})
    /\ Goto(c, "unrecorded")
    /\ UNCHANGED <<serveVars, frontend>>

(***************************************************************************)
(* connection() returns: the relay loop ends, or an await fails (an I/O    *)
(* error, the 30 seconds for a packet, a malformed or unsupported packet,  *)
(* a server that declines TLS, a failed handshake).                        *)
(***************************************************************************)
ReturnsUnrecorded(c) ==                                        \* mutant: the record forgotten
    /\ task[c] \in {"running", "aborting"}
    /\ task' = [task EXCEPT ![c] = "finished"]
    /\ UNCHANGED <<serveVars, connectionVars>>

Returns(c) ==
    /\ task[c] \in {"running", "aborting"}
    /\ Finish(c, <<>>, {})
    /\ UNCHANGED <<serveVars, stage, frontend, upstream, written>>

(***************************************************************************)
(* The relay loop has cut a result off.                                    *)
(***************************************************************************)
Truncated(c) ==
    /\ At(c, "relay")
    /\ \E records \in Lifecycle(c, "result.truncated") : Finish(c, records, Missed(c, records))
    /\ UNCHANGED <<serveVars, stage, frontend, upstream, written>>

Step(c) ==
    \/ SslRequest(c) \/ TlsAccepted(c)
    \/ CancelRequest(c) \/ CancelConnected(c) \/ CancelForwarded(c)
    \/ StartupMessage(c) \/ Connected(c) \/ SslReply(c) \/ TlsConnected(c)
    \/ StartupWritten(c) \/ StartupUnrecorded(c) \/ Truncated(c) \/ Returns(c)

-----------------------------------------------------------------------------
(***************************************************************************)
(* serve().                                                                *)
(***************************************************************************)
Accept ==
    /\ serving = "accepting"
    /\ next_id < MaxConnections
    /\ next_id' = next_id + 1
    /\ task' = [task EXCEPT ![next_id'] = "running"]
    /\ UNCHANGED <<serving, shutdown, connectionVars>>

Join(c) ==
    /\ serving \in {"accepting", "stopping"}
    /\ task[c] = "finished"
    /\ task' = [task EXCEPT ![c] = "joined"]
    /\ UNCHANGED <<serveVars, connectionVars>>

AbortAll == task' = [c \in Connection |-> IF task[c] = "running" THEN "aborting" ELSE task[c]]

(***************************************************************************)
(* A failed accept() or a panicked task makes serve() return; dropping the *)
(* JoinSet aborts the other tasks and waits for none.                      *)
(***************************************************************************)
ServeFails ==
    /\ serving = "accepting"
    /\ serving' = "failed"
    /\ AbortAll
    /\ UNCHANGED <<shutdown, next_id, connectionVars>>

AcceptFails == ServeFails

JoinPanicked == (\E c \in Connection : task[c] = "panicked") /\ ServeFails

StopUnaborted ==                                               \* mutant: no abort_all
    /\ serving = "accepting" /\ shutdown
    /\ serving' = "stopping"
    /\ UNCHANGED <<shutdown, next_id, task, connectionVars>>

Stop ==
    /\ serving = "accepting" /\ shutdown
    /\ serving' = "stopping"
    /\ AbortAll
    /\ UNCHANGED <<shutdown, next_id, connectionVars>>

Aborted(c) ==
    /\ task[c] = "aborting"
    /\ task' = [task EXCEPT ![c] = "aborted"]
    /\ UNCHANGED <<serveVars, connectionVars>>

Drained == \A c \in Connection : task[c] \in {"none", "joined", "panicked", "aborted"}

ServeReturns ==
    /\ serving = "stopping" /\ Drained
    /\ serving' = "returned"
    /\ UNCHANGED <<shutdown, next_id, task, connectionVars>>

(***************************************************************************)
(* The environment: SIGINT, SIGTERM or the end of a probe.                 *)
(***************************************************************************)
Shutdown ==
    /\ ~shutdown
    /\ shutdown' = TRUE
    /\ UNCHANGED <<serving, next_id, task, connectionVars>>

Serve == Accept \/ AcceptFails \/ JoinPanicked \/ Stop \/ ServeReturns
         \/ \E c \in Connection : Step(c) \/ Join(c) \/ Aborted(c)

ServerNext == Serve \/ Shutdown

ServerSpec == ServerInit /\ [][ServerNext]_vars

(***************************************************************************)
(* tokio polls serve() and every task that is ready; an aborted task is    *)
(* dropped when it is polled next.                                         *)
(***************************************************************************)
Scheduled ==
    /\ WF_vars(Stop) /\ WF_vars(ServeReturns)
    /\ \A c \in Connection : WF_vars(Join(c)) /\ WF_vars(Aborted(c))

FairServerSpec == ServerSpec /\ Scheduled

-----------------------------------------------------------------------------
(***************************************************************************)
(* The trace tells the life of each connection in order: a startup or a    *)
(* cancel or neither, a truncation only after a startup, and the end last  *)
(* and once.  While the task runs, or if it was aborted or panicked, there *)
(* is nothing but the startup; once it ended by itself the end is there,   *)
(* unless a write of its records failed.                                   *)
(***************************************************************************)
EventsIn(records, c) ==
    LET upto[k \in 0 .. Len(records)] ==
            IF k = 0 THEN <<>>
            ELSE IF records[k].id = c THEN Append(upto[k - 1], records[k].event)
            ELSE upto[k - 1]
    IN  upto[Len(records)]

Events(c) == EventsIn(trace, c)

Recorded(c) == {Events(c)[k] : k \in DOMAIN Events(c)}

Lives ==
    {<<>>, <<"connection.closed">>,
     <<"startup">>, <<"startup", "connection.closed">>,
     <<"startup", "result.truncated">>,
     <<"startup", "result.truncated", "connection.closed">>,
     <<"cancel.forwarded">>, <<"cancel.forwarded", "connection.closed">>}

LifeRecorded ==
    \A c \in Connection :
        /\ Events(c) \in Lives
        /\ IF task[c] \in {"finished", "joined"}
           THEN \/ Events(c) # <<>> /\ Events(c)[Len(Events(c))] = "connection.closed"
                \/ c \in lost
           ELSE Events(c) \in {<<>>, <<"startup">>}

(***************************************************************************)
(* What the server gets from a connection: a cancel, or a startup packet   *)
(* at the layer that was asked for, once; a connection recorded as started *)
(* is one whose startup packet went out, and one whose packet went out is  *)
(* recorded, unless that write failed.                                     *)
(***************************************************************************)
Plain(packet) == [packet |-> packet, layer |-> "plain"]

StartupPassedOnce ==
    \A c \in Connection :
        LET startup == IF UpstreamTls
                       THEN <<Plain("ssl request"), [packet |-> "startup", layer |-> "tls"]>>
                       ELSE <<Plain("startup")>>
        IN  /\ written[c] \in {<<>>, <<Plain("cancel")>>, SubSeq(startup, 1, 1), startup}
            /\ "startup" \in Recorded(c) => written[c] = startup
            /\ written[c] = startup => "startup" \in Recorded(c) \/ c \in lost

(***************************************************************************)
(* A shutdown request leads to the end of serve(), whatever the tasks are  *)
(* waiting for.                                                            *)
(***************************************************************************)
ShutdownCompletes == shutdown ~> serving \in {"returned", "failed"}
=============================================================================
