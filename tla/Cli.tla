-------------------------------- MODULE Cli --------------------------------
(***************************************************************************)
(* The pgfault command: the start common to run, replay and probe (load,   *)
(* trace file, listener), validate, the end of a run by a signal, and a    *)
(* probe: a command run against the proxy, the shutdown of the proxy, and  *)
(* a query straight to the server for what is true there.  The proxy is    *)
(* module Server; the command's traffic is one statement per connection.   *)
(* A user may start pgfault again with the same arguments, --trace among   *)
(* them; the path taken without it is new at every start.                  *)
(***************************************************************************)
EXTENDS Server, SequencesExt

CONSTANTS
    Codes,             \* how the probed command may end
    MaxStarts,         \* bound: starts of pgfault, those that left no file not counted
    MaxStatements      \* bound: statements of the probed command

ASSUME CliAssumption ==
    /\ Codes \subseteq {"0", "2", "signaled"}
    /\ MaxStarts \in Nat \ {0} /\ MaxStatements \in Nat

VARIABLES
    subcommand,  \* "run" (and replay), "probe" or "validate"
    pc,          \* where main() stands
    exists,      \* is there a file at the path of the trace?
    child,       \* the probed command: "none", "running" or how it ended
    work,        \* how far each connection's statement has got
    truth,       \* connections whose statement the verify query saw
    exit,        \* pgfault's exit code, once pc is "exited"
    starts       \* bound: starts so far, those that left no file not counted

cliVars == <<pc, exists, child, work, truth, exit>>
argumentVars == <<subcommand, starts>>
allVars == <<vars, cliVars, argumentVars>>

CliInit ==
    /\ ServerInit
    /\ subcommand \in {"run", "probe", "validate"}
    /\ pc = "load"
    /\ exists = FALSE
    /\ child = "none"
    /\ work = [c \in Connection |-> "none"]
    /\ truth = {}
    /\ exit = "none"
    /\ starts = 1

(***************************************************************************)
(* The process ends: whatever it still ran is gone with it.                *)
(***************************************************************************)
ExitWith(code) ==
    /\ pc' = "exited" /\ exit' = code
    /\ serving' = IF serving = "returned" THEN serving ELSE "failed"
    /\ task' = [c \in Connection |->
                    IF task[c] \in {"running", "aborting"} THEN "aborted" ELSE task[c]]
    /\ UNCHANGED <<shutdown, next_id, connectionVars, argumentVars>>

-----------------------------------------------------------------------------
(***************************************************************************)
(* The start, in the code's order: the scenarios and the certificates, the *)
(* trace file, which must be new, and the listener.                        *)
(***************************************************************************)
Load ==
    /\ pc = "load"
    /\ \/ ExitWith("1")
       \/ subcommand = "validate" /\ ExitWith("0")
       \/ subcommand # "validate" /\ pc' = "configure" /\ UNCHANGED <<vars, argumentVars, exit>>
    /\ UNCHANGED <<exists, child, work, truth>>

(***************************************************************************)
(* The acceptor reads a certificate and a key; the connector may read a CA *)
(* certificate.                                                            *)
(***************************************************************************)
AcceptorFails == FrontendTls

ConnectorFails == UpstreamTls

Configure ==
    /\ pc = "configure"
    /\ \/ (AcceptorFails \/ ConnectorFails) /\ ExitWith("1")
       \/ pc' = "create" /\ UNCHANGED <<vars, argumentVars, exit>>
    /\ UNCHANGED <<exists, child, work, truth>>

CreateTruncating ==                                  \* mutant: create instead of create_new
    /\ pc = "create" /\ pc' = "bind"
    /\ trace' = <<>>
    /\ exists' = TRUE
    /\ UNCHANGED <<argumentVars, serveVars, task, stage, frontend, upstream, written, lost,
                   child, work, truth, exit>>

Create ==
    /\ pc = "create"
    /\ IF exists
       THEN ExitWith("1") /\ UNCHANGED exists
       ELSE /\ pc' = "bind"
            /\ trace' = <<>>
            /\ exists' = TRUE
            /\ UNCHANGED <<argumentVars, serveVars, task, stage, frontend, upstream, written, lost,
                            exit>>
    /\ UNCHANGED <<child, work, truth>>

Bind ==
    /\ pc = "bind"
    /\ \/ ExitWith("1")
       \/ pc' = "serve" /\ UNCHANGED <<vars, argumentVars, exit>>
    /\ UNCHANGED <<exists, child, work, truth>>

-----------------------------------------------------------------------------
(***************************************************************************)
(* run and replay: a signal ends serve(), whose result is the exit code.   *)
(***************************************************************************)
Signal ==
    /\ subcommand = "run" /\ pc = "serve"
    /\ Shutdown
    /\ UNCHANGED <<cliVars, argumentVars>>

RunEnds ==
    /\ subcommand = "run" /\ pc = "serve"
    /\ \/ serving = "returned" /\ ExitWith("0")
       \/ serving = "failed" /\ ExitWith("1")
    /\ UNCHANGED <<exists, child, work, truth>>

(***************************************************************************)
(* probe: the command ends when none of its statements waits for an answer *)
(* over a connection that is still open, or at any time by a signal.       *)
(***************************************************************************)
Spawn ==
    /\ subcommand = "probe" /\ pc = "serve" /\ child = "none"
    /\ \/ ExitWith("1") /\ UNCHANGED child
       \/ child' = "running" /\ UNCHANGED <<vars, argumentVars, pc, exit>>
    /\ UNCHANGED <<exists, work, truth>>

Settled(c) == work[c] \in {"none", "answered"} \/ task[c] # "running"

ChildEnds(code) ==
    /\ child = "running"
    /\ code = "signaled" \/ \A c \in Connection : Settled(c)
    /\ child' = code
    /\ UNCHANGED <<vars, argumentVars, pc, exists, work, truth, exit>>

SendShutdownNever == FALSE                           \* mutant: the sender kept

SendShutdown ==
    /\ pc = "serve" /\ child \in Codes
    /\ pc' = "await"
    /\ shutdown' = TRUE
    /\ UNCHANGED <<serving, next_id, task, connectionVars, argumentVars,
                   exists, child, work, truth, exit>>

ServerAwaitedNot == TRUE                             \* mutant: server.await forgotten

ServerAwaited == serving = "returned"

ServerJoinedLoosely ==                               \* mutant: server.await, its result dropped
    /\ pc = "await"
    /\ serving \in {"returned", "failed"}
    /\ pc' = "verify"
    /\ UNCHANGED <<vars, argumentVars, exit, exists, child, work, truth>>

ServerJoined ==
    /\ pc = "await"
    /\ \/ ServerAwaited /\ pc' = "verify" /\ UNCHANGED <<vars, argumentVars, exit>>
       \/ serving = "failed" /\ ExitWith("1")
    /\ UNCHANGED <<exists, child, work, truth>>

(***************************************************************************)
(* The verify query, which is optional, sees what the server has executed; *)
(* it may fail, and shows in the output only: the exit code is the         *)
(* command's.                                                              *)
(***************************************************************************)
Executed == {c \in Connection : work[c] \in {"executed", "answered"}}

VerifyQuery == {Executed, {}}

Verify ==
    /\ pc = "verify"
    /\ truth' \in VerifyQuery
    /\ pc' = IF truth' = Executed THEN "verified" ELSE "unverified"
    /\ UNCHANGED <<vars, argumentVars, exists, child, work, exit>>

ProbeEnds ==
    /\ pc \in {"verified", "unverified"}
    /\ ExitWith(IF child = "signaled" THEN "1" ELSE child)
    /\ UNCHANGED <<exists, child, work, truth>>

-----------------------------------------------------------------------------
(***************************************************************************)
(* The proxy at work.  A statement is sent by the command, forwarded and   *)
(* answered by the connection's task, and executed by the server, which    *)
(* works on what it got whatever becomes of the connection.                *)
(***************************************************************************)
Advance(c, from, to) ==
    /\ work[c] = from
    /\ work' = [work EXCEPT ![c] = to]
    /\ UNCHANGED <<vars, argumentVars, pc, exists, child, truth, exit>>

SendStatement(c) ==
    /\ child = "running" /\ At(c, "relay")
    /\ Cardinality({d \in Connection : work[d] # "none"}) < MaxStatements
    /\ Advance(c, "none", "sent")

Forward(c) == At(c, "relay") /\ Advance(c, "sent", "forwarded")

Execute(c) == Advance(c, "forwarded", "executed")

Answer(c) == At(c, "relay") /\ Advance(c, "executed", "answered")

Proxying == pc \in {"serve", "await", "verify", "verified", "unverified"} /\ Serve
            /\ UNCHANGED <<cliVars, argumentVars>>

(***************************************************************************)
(* The process is killed; pgfault is started again.                        *)
(***************************************************************************)
Killed ==
    /\ pc # "exited"
    /\ ExitWith("killed")
    /\ UNCHANGED <<exists, child, work, truth>>

StartAgain ==
    /\ pc = "exited" /\ starts < MaxStarts
    /\ starts' = IF exists THEN starts + 1 ELSE starts
    /\ pc' = "load" /\ child' = "none" /\ exit' = "none"
    /\ work' = [c \in Connection |-> "none"] /\ truth' = {}
    /\ serving' = "accepting" /\ shutdown' = FALSE /\ next_id' = 0
    /\ task' = [c \in Connection |-> "none"]
    /\ stage' = [c \in Connection |-> "negotiating"]
    /\ frontend' = [c \in Connection |-> "plain"]
    /\ upstream' = [c \in Connection |-> "none"]
    /\ written' = [c \in Connection |-> <<>>]
    /\ lost' = {}
    /\ UNCHANGED <<trace, subcommand, exists>>

CliNext ==
    \/ Load \/ Configure \/ Create \/ Bind \/ Signal \/ RunEnds
    \/ Spawn \/ (\E code \in Codes : ChildEnds(code)) \/ SendShutdown \/ ServerJoined
    \/ Verify \/ ProbeEnds
    \/ \E c \in Connection : SendStatement(c) \/ Forward(c) \/ Execute(c) \/ Answer(c)
    \/ Proxying \/ Killed \/ StartAgain

(***************************************************************************)
(* main() goes on when what it awaits is there, tokio schedules the proxy  *)
(* and the verify query is answered or fails.  Neither the command nor a   *)
(* connection has to end by itself.                                        *)
(***************************************************************************)
CliSpec ==
    /\ CliInit /\ [][CliNext]_allVars
    /\ WF_allVars(Load \/ Configure \/ Create \/ Bind \/ RunEnds)
    /\ WF_allVars(Spawn \/ SendShutdown \/ ServerJoined \/ Verify \/ ProbeEnds)
    /\ WF_allVars(Proxying /\ Stop) /\ WF_allVars(Proxying /\ ServeReturns)
    /\ \A c \in Connection :
           WF_allVars(Proxying /\ Join(c)) /\ WF_allVars(Proxying /\ Aborted(c))

-----------------------------------------------------------------------------
(***************************************************************************)
(* What a trace file has got is never lost, whoever starts pgfault again   *)
(* with the same --trace (create_new).                                     *)
(***************************************************************************)
TraceKept == [][IsPrefix(trace, trace')]_allVars

(***************************************************************************)
(* From the verify query on, nothing passes the proxy: no statement is     *)
(* forwarded and nothing is added to the trace, though the command may     *)
(* have left connections behind.                                           *)
(***************************************************************************)
Verifying == pc \in {"verify", "verified", "unverified"}

Unsent == {c \in Connection : work[c] = "sent"}

VerifiedUndisturbed ==
    [][Verifying =>
          UNCHANGED <<trace, written>> /\ Unsent \subseteq Unsent']_allVars

(***************************************************************************)
(* A probe that exits with 0 ran a command that did, and every connection  *)
(* it made was handled to its end by a proxy that had not failed.          *)
(***************************************************************************)
SuccessMeans ==
    exit = "0" /\ subcommand = "probe" => child = "0" /\ serving = "returned" /\ Drained

(***************************************************************************)
(* A probe whose command has ended comes to its own end.                   *)
(***************************************************************************)
ProbeCompletes == child \in Codes ~> pc = "exited"

(***************************************************************************)
(* README: pgfault's own exit code matches the probed command's. Does not  *)
(* hold (ProbeVerdict.cfg): an error of serve is returned first.           *)
(***************************************************************************)
ExitMatches ==
    pc = "exited" /\ child \in {"0", "2"} => exit \in {child, "killed"}

(***************************************************************************)
(* README: the query shows what is actually true. What it saw is still all *)
(* there is when pgfault ends. Does not hold (ProbeVerdict.cfg): the       *)
(* server may still be executing.                                          *)
(***************************************************************************)
GroundTruthFinal == pc = "verified" => truth = Executed
=============================================================================
