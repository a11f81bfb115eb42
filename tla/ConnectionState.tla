-------------------------- MODULE ConnectionState --------------------------
(***************************************************************************)
(* pgfault's ConnectionState: what the proxy infers about one PostgreSQL   *)
(* session by watching the frames it relays.  It keeps a queue of query    *)
(* cycles (a cycle is what one ReadyForQuery answers), the statement each  *)
(* outstanding Execute runs, two views of the prepared statements and      *)
(* portals (speculative, as requested by the client, and confirmed, as     *)
(* acknowledged by the server) and the transaction state.                  *)
(*                                                                         *)
(* Each call of frontend(f) or backend(f) is one action; `events' is the   *)
(* vector that call returns.  Here the frames are arbitrary: nothing is    *)
(* assumed of the client or of the server.  The per-name event counters    *)
(* (`occurrence' in an Event) are left out: no selector reads them.        *)
(***************************************************************************)
EXTENDS Protocol

CONSTANTS
    Id,         \* the ordinal of the connection
    Startup     \* the metadata of the startup packet

VARIABLES
    startup,             \* StartupMetadata
    tx_state,            \* what the last ReadyForQuery said
    tx_epoch,            \* transactions started so far
    prepared, portals,                       \* speculative: name -> statement
    confirmed_prepared, confirmed_portals,   \* acknowledged: name -> statement
    cycles,              \* outstanding cycles, oldest first
    next_cycle,          \* id of the newest cycle
    reliable,            \* is the attribution of replies trusted?
    events               \* events returned by the last call

stateVars == <<startup, tx_state, tx_epoch, prepared, portals,
               confirmed_prepared, confirmed_portals, cycles, next_cycle,
               reliable, events>>

StartupMetadata == [user : Text \cup {None}, database : Text \cup {None},
                    application_name : Text \cup {None}]

ASSUME StartupAssumption == Id \in Nat /\ Startup \in StartupMetadata

(***************************************************************************)
(* A mutation is a Parse, Bind or Close the server has not acknowledged.   *)
(* `stmt' is meaningful for Parse and Bind, `kind' for Close.              *)
(***************************************************************************)
Mutation == [op : {"Parse", "Bind", "Close"}, kind : {"S", "P", "?"},
             name : Name, stmt : Statement]

Cycle == [id : Nat, statements : Seq(Statement), last : Statement, rows : Nat,
          command : CommandTag, error : BOOLEAN, extended : BOOLEAN,
          sealed : BOOLEAN, statement_index : Nat, executions : Nat,
          epoch_allocated : BOOLEAN, mutations : Seq(Mutation)]

Event == [event : EventName, connection_id : Nat, reliable : BOOLEAN,
          startup : StartupMetadata, epoch : Nat, cycle : Nat, index : Nat,
          stmt : Statement, row : Nat \cup {None}]

NoStatements == [n \in Name |-> NoSql]

Init ==
    /\ startup = Startup
    /\ tx_state = "Idle"
    /\ tx_epoch = 0
    /\ prepared = NoStatements
    /\ portals = NoStatements
    /\ confirmed_prepared = NoStatements
    /\ confirmed_portals = NoStatements
    /\ cycles = <<>>
    /\ next_cycle = 0
    /\ reliable = TRUE
    /\ events = <<>>

-----------------------------------------------------------------------------
(***************************************************************************)
(* cycle(extended): the cycle new frontend work belongs to.  A simple      *)
(* query always opens its own; extended work joins the newest cycle until  *)
(* a Sync (or a simple query) has sealed it.                               *)
(***************************************************************************)
Back(cs) == cs[Len(cs)]

SetBack(cs, c) == [cs EXCEPT ![Len(cs)] = c]

OpensCycleUnlessNew(extended) == ~extended \/ cycles = <<>>     \* mutant: ignores the seal

OpensCycle(extended) == ~extended \/ cycles = <<>> \/ Back(cycles).sealed

FreshCycle(id, extended) ==
    [id |-> id, statements |-> <<>>, last |-> NoSql, rows |-> 0,
     command |-> "", error |-> FALSE, extended |-> extended,
     sealed |-> ~extended, statement_index |-> 0, executions |-> 0,
     epoch_allocated |-> FALSE, mutations |-> <<>>]

CyclesWith(extended) ==
    IF OpensCycle(extended)
    THEN Append(cycles, FreshCycle(next_cycle + 1, extended))
    ELSE cycles

IdsWith(extended) ==
    IF OpensCycle(extended) THEN next_cycle + 1 ELSE next_cycle

(***************************************************************************)
(* event(name, front): the coordinates of an event.  Frontend events       *)
(* describe the newest cycle and its newest statement, backend events the  *)
(* oldest cycle and the statement it is executing.  `cs' and `epoch' are   *)
(* the values of cycles and tx_epoch at the moment of the call.            *)
(***************************************************************************)
CurrentStatement(c) == IF c.statements = <<>> THEN c.last ELSE Head(c.statements)

NewestStatement(c) == IF c.statements = <<>> THEN c.last ELSE Back(c.statements)

BackendIndexCompleted(c) ==                                    \* mutant: completions only
    IF c.statement_index = 0 THEN 1 ELSE c.statement_index

BackendIndex(c) ==
    IF c.statements # <<>> THEN c.statement_index + 1
    ELSE IF c.statement_index = 0 THEN 1 ELSE c.statement_index

FrontendEvent(name, cs, epoch) ==
    [event |-> name, connection_id |-> Id, reliable |-> reliable,
     startup |-> startup, epoch |-> epoch,
     cycle |-> IF cs = <<>> THEN 0 ELSE Back(cs).id,
     index |-> IF cs = <<>> THEN 0 ELSE Back(cs).executions,
     stmt |-> IF cs = <<>> THEN NoSql ELSE NewestStatement(Back(cs)),
     row |-> None]

BackendEvent(name, cs) ==
    [event |-> name, connection_id |-> Id, reliable |-> reliable,
     startup |-> startup, epoch |-> tx_epoch,
     cycle |-> IF cs = <<>> THEN 0 ELSE Head(cs).id,
     index |-> IF cs = <<>> THEN 0 ELSE BackendIndex(Head(cs)),
     stmt |-> IF cs = <<>> THEN NoSql ELSE CurrentStatement(Head(cs)),
     row |-> IF name = "result.row" /\ cs # <<>> THEN Head(cs).rows ELSE None]

FrontendEvents(names, cs, epoch) ==
    [k \in DOMAIN names |-> FrontendEvent(names[k], cs, epoch)]

BackendEvents(names, cs) == [k \in DOMAIN names |-> BackendEvent(names[k], cs)]

-----------------------------------------------------------------------------
(***************************************************************************)
(* frontend(f), one action per tag.  `Set' is insert, and remove when the  *)
(* value is NoSql.                                                         *)
(***************************************************************************)
Set(map, n, s) == [map EXCEPT ![n] = s]

PushMutation(cs, m) == [cs EXCEPT ![Len(cs)].mutations = Append(@, m)]

FrontendParse(f) ==
    /\ f.tag = "P"
    /\ prepared' = IF f.sql = NoSql THEN prepared ELSE Set(prepared, f.name, f.sql)
    /\ cycles' = IF f.sql = NoSql THEN CyclesWith(TRUE)
                 ELSE PushMutation(CyclesWith(TRUE),
                        [op |-> "Parse", kind |-> "S", name |-> f.name, stmt |-> f.sql])
    /\ next_cycle' = IdsWith(TRUE)
    /\ events' = <<>>
    /\ UNCHANGED <<startup, tx_state, tx_epoch, portals, confirmed_prepared,
                   confirmed_portals, reliable>>

(***************************************************************************)
(* A Bind of a statement the speculative map does not have leaves no       *)
(* mutation behind: its BindComplete will find the wrong one, or none.     *)
(***************************************************************************)
FrontendBind(f) ==
    /\ f.tag = "B"
    /\ LET parses == f.portal # None
           s == prepared[f.stmt]
       IN  /\ portals' = IF parses THEN Set(portals, f.portal, s) ELSE portals
           /\ cycles' = IF parses /\ s # NoSql
                        THEN PushMutation(CyclesWith(TRUE),
                               [op |-> "Bind", kind |-> "P", name |-> f.portal, stmt |-> s])
                        ELSE CyclesWith(TRUE)
    /\ next_cycle' = IdsWith(TRUE)
    /\ events' = <<>>
    /\ UNCHANGED <<startup, tx_state, tx_epoch, prepared, confirmed_prepared,
                   confirmed_portals, reliable>>

FrontendClose(f) ==
    /\ f.tag = "C"
    /\ f.name # None
    /\ cycles' = PushMutation(CyclesWith(TRUE),
                   [op |-> "Close", kind |-> f.kind, name |-> f.name, stmt |-> NoSql])
    /\ next_cycle' = IdsWith(TRUE)
    /\ prepared' = IF f.kind = "S" THEN Set(prepared, f.name, NoSql) ELSE prepared
    /\ portals' = IF f.kind = "P" THEN Set(portals, f.name, NoSql) ELSE portals
    /\ events' = <<>>
    /\ UNCHANGED <<startup, tx_state, tx_epoch, confirmed_prepared,
                   confirmed_portals, reliable>>

RequestedAgain(s) == <<"statement.execution_started">>         \* mutant: a name pushed twice

Requested(s) ==
    CASE ClassOf(s) = "Begin"    -> <<"transaction.begin.requested">>
      [] ClassOf(s) = "Commit"   -> <<"transaction.commit.requested">>
      [] ClassOf(s) = "Rollback" -> <<"transaction.rollback.requested">>
      [] OTHER                   -> <<>>

(***************************************************************************)
(* The part Query and Execute share: the statement joins its cycle, and a  *)
(* transaction epoch is allocated when the session is idle and the cycle   *)
(* is the only outstanding one.                                            *)
(***************************************************************************)
AllocatesPipelined(cs) == tx_state = "Idle" /\ ~Head(cs).epoch_allocated   \* mutant

AllocatesRepeatedly(cs) == tx_state = "Idle" /\ Len(cs) = 1                \* mutant

AllocatesEpoch(cs) ==
    tx_state = "Idle" /\ Len(cs) = 1 /\ ~Head(cs).epoch_allocated

StartStatement(received, s, extended) ==
    LET opened == CyclesWith(extended)
        alloc == AllocatesEpoch(opened)
        c == Back(opened)
    IN  /\ cycles' = SetBack(opened,
                       [c EXCEPT !.statements = Append(@, s),
                                 !.executions = @ + 1,
                                 !.epoch_allocated = @ \/ alloc])
        /\ next_cycle' = IdsWith(extended)
        /\ tx_epoch' = IF alloc THEN tx_epoch + 1 ELSE tx_epoch
        /\ events' = FrontendEvents(
                       <<received, "statement.execution_started">> \o Requested(s),
                       cycles', tx_epoch')

FrontendQuery(f) ==
    /\ f.tag = "Q"
    /\ StartStatement("query.received", f.sql, FALSE)
    /\ prepared' = Set(prepared, Unnamed, NoSql)
    /\ portals' = Set(portals, Unnamed, NoSql)
    /\ confirmed_prepared' = Set(confirmed_prepared, Unnamed, NoSql)
    /\ confirmed_portals' = Set(confirmed_portals, Unnamed, NoSql)
    /\ UNCHANGED <<startup, tx_state, reliable>>

FrontendExecute(f) ==
    /\ f.tag = "E"
    /\ StartStatement("frontend.execute",
                      IF f.portal = None THEN NoSql ELSE portals[f.portal], TRUE)
    /\ UNCHANGED <<startup, tx_state, prepared, portals, confirmed_prepared,
                   confirmed_portals, reliable>>

FrontendSync(f) ==
    /\ f.tag = "S"
    /\ cycles' = LET cs == CyclesWith(TRUE) IN [cs EXCEPT ![Len(cs)].sealed = TRUE]
    /\ next_cycle' = IdsWith(TRUE)
    /\ events' = FrontendEvents(<<"frontend.sync">>, cycles', tx_epoch)
    /\ UNCHANGED <<startup, tx_state, tx_epoch, prepared, portals,
                   confirmed_prepared, confirmed_portals, reliable>>

FrontendOther(f) ==
    /\ f.tag \in {"D", "H", "c", "X"} \/ (f.tag = "C" /\ f.name = None)
    /\ events' = <<>>
    /\ UNCHANGED <<startup, tx_state, tx_epoch, prepared, portals,
                   confirmed_prepared, confirmed_portals, cycles, next_cycle,
                   reliable>>

Frontend(f) ==
    \/ FrontendParse(f)
    \/ FrontendBind(f)
    \/ FrontendClose(f)
    \/ FrontendQuery(f)
    \/ FrontendExecute(f)
    \/ FrontendSync(f)
    \/ FrontendOther(f)

(***************************************************************************)
(* forwarded(): the event of a Query or Execute that went upstream.        *)
(***************************************************************************)
Forwarded(cs, epoch) == FrontendEvent("query.forwarded", cs, epoch)

-----------------------------------------------------------------------------
(***************************************************************************)
(* How a transaction ends, by the class of a statement and its command     *)
(* tag: the match that completion_boundary() and backend(Z) share.         *)
(* `implicit' is the condition each of them puts on an implicit end.       *)
(***************************************************************************)
TransactionEnd(class, command, implicit) ==
    CASE class = "Commit" ->
           IF command = "COMMIT" THEN "transaction.commit.completed" ELSE None
      [] class = "Rollback" ->
           IF command = "ROLLBACK" THEN "transaction.rollback.completed" ELSE None
      [] OTHER -> IF implicit THEN "transaction.implicit.completed" ELSE None

(***************************************************************************)
(* completion_boundary(f): the event that the end of the cycle will report *)
(* if f is the last CommandComplete before it, or None.                    *)
(***************************************************************************)
CompletionBoundary(f) ==
    IF f.tag # "C" \/ ~reliable \/ cycles = <<>> THEN None
    ELSE LET class == ClassOf(CurrentStatement(Head(cycles))) IN
         IF f.command = "" THEN None
         ELSE TransactionEnd(class, f.command,
                             tx_state = "Idle" /\ class \notin {"Begin", "Other"})

-----------------------------------------------------------------------------
(***************************************************************************)
(* backend(f), one action per tag.  Every reply is attributed to the       *)
(* oldest outstanding cycle; with none outstanding only the events remain. *)
(***************************************************************************)
SetNewest(c) == IF cycles = <<>> THEN cycles ELSE SetBack(cycles, c)        \* mutant

SetFront(c) == IF cycles = <<>> THEN cycles ELSE [cycles EXCEPT ![1] = c]

BackendParameterStatus(f) ==
    /\ f.tag = "S"
    /\ startup' = [startup EXCEPT !.application_name = f.application_name]
    /\ events' = <<>>
    /\ UNCHANGED <<tx_state, tx_epoch, prepared, portals, confirmed_prepared,
                   confirmed_portals, cycles, next_cycle, reliable>>

Acknowledges(tag, m) == \/ tag = "1" /\ m.op = "Parse"
                        \/ tag = "2" /\ m.op = "Bind"
                        \/ tag = "3" /\ m.op = "Close"

OnStatementsParseOnly(m) == m.op = "Parse"                     \* mutant: Close hits portals

OnStatementsCloseOnly(m) == m.op = "Close" /\ m.kind = "S"     \* mutant: no Parse confirmed

OnStatements(m) == m.op = "Parse" \/ (m.op = "Close" /\ m.kind = "S")

Unacknowledged == IF cycles = <<>> THEN <<>> ELSE Head(cycles).mutations

BackendAcknowledge(f) ==
    /\ f.tag \in {"1", "2", "3"}
    /\ events' = <<>>
    /\ \/ /\ Unacknowledged # <<>>
          /\ LET m == Head(Unacknowledged) IN
             /\ cycles' = [cycles EXCEPT ![1].mutations = Tail(@)]
             /\ reliable' = (reliable /\ Acknowledges(f.tag, m))
             /\ confirmed_prepared' = IF Acknowledges(f.tag, m) /\ OnStatements(m)
                                      THEN Set(confirmed_prepared, m.name, m.stmt)
                                      ELSE confirmed_prepared
             /\ confirmed_portals' = IF Acknowledges(f.tag, m) /\ ~OnStatements(m)
                                     THEN Set(confirmed_portals, m.name, m.stmt)
                                     ELSE confirmed_portals
       \/ /\ Unacknowledged = <<>>
          /\ reliable' = FALSE
          /\ UNCHANGED <<cycles, confirmed_prepared, confirmed_portals>>
    /\ UNCHANGED <<startup, tx_state, tx_epoch, prepared, portals, next_cycle>>

BackendRowDescription(f) ==
    /\ f.tag = "T"
    /\ events' = BackendEvents(<<"result.started">>, cycles)
    /\ UNCHANGED <<startup, tx_state, tx_epoch, prepared, portals, confirmed_prepared,
                   confirmed_portals, cycles, next_cycle, reliable>>

BackendDataRow(f) ==
    /\ f.tag = "D"
    /\ cycles' = SetFront([Head(cycles) EXCEPT !.rows = @ + 1])
    /\ events' = BackendEvents(<<"result.row">>, cycles')
    /\ UNCHANGED <<startup, tx_state, tx_epoch, prepared, portals, confirmed_prepared,
                   confirmed_portals, next_cycle, reliable>>

(***************************************************************************)
(* The executing statement is over: it becomes `last'.                     *)
(***************************************************************************)
Rest(q) == IF q = <<>> THEN <<>> ELSE Tail(q)

Finish(c) == [c EXCEPT !.statements = Rest(@), !.last = CurrentStatement(c), !.rows = 0]

BackendCommandComplete(f) ==
    /\ f.tag = "C"
    /\ events' = BackendEvents(<<"backend.command_complete",
                                 "statement.execution_completed",
                                 "result.completed">>, cycles)
    /\ cycles' = LET c == Finish(Head(cycles)) IN
                 SetFront([c EXCEPT !.command = f.command,
                                    !.statement_index = IF c.extended THEN @ + 1 ELSE @])
    /\ UNCHANGED <<startup, tx_state, tx_epoch, prepared, portals, confirmed_prepared,
                   confirmed_portals, next_cycle, reliable>>

SuspendedIgnored(f) ==                                         \* mutant: still executing
    /\ f.tag = "s"
    /\ events' = <<>>
    /\ UNCHANGED <<startup, tx_state, tx_epoch, prepared, portals, confirmed_prepared,
                   confirmed_portals, cycles, next_cycle, reliable>>

BackendPortalSuspended(f) ==
    /\ f.tag = "s"
    /\ cycles' = SetFront(Finish(Head(cycles)))
    /\ events' = <<>>
    /\ UNCHANGED <<startup, tx_state, tx_epoch, prepared, portals, confirmed_prepared,
                   confirmed_portals, next_cycle, reliable>>

BackendError(f) ==
    /\ f.tag = "E"
    /\ cycles' = SetFront([Head(cycles) EXCEPT !.error = TRUE, !.mutations = <<>>])
    /\ prepared' = confirmed_prepared
    /\ portals' = confirmed_portals
    /\ events' = BackendEvents(<<"backend.error">>, cycles')
    /\ UNCHANGED <<startup, tx_state, tx_epoch, confirmed_prepared, confirmed_portals,
                   next_cycle, reliable>>

(***************************************************************************)
(* ReadyForQuery ends the oldest cycle.  Completed(new) is the completion  *)
(* event, if any: the session is idle, the cycle saw no error and its last *)
(* statement and command tag say how its transaction ended.                *)
(***************************************************************************)
StatusUnchecked(f) ==                                          \* mutant: no early return
    CASE f.status = "I" -> "Idle"
      [] f.status = "T" -> "InTransaction"
      [] f.status = "E" -> "FailedTransaction"
      [] OTHER -> f.status

StatusOf(f) == CASE f.status = "I" -> "Idle"
                 [] f.status = "T" -> "InTransaction"
                 [] f.status = "E" -> "FailedTransaction"
                 [] OTHER -> None

CompletedDespiteError(new) ==                                  \* mutant: ignores c.error
    IF cycles = <<>> \/ new # "Idle" \/ ~reliable THEN None
    ELSE LET c == Head(cycles) IN
         TransactionEnd(ClassOf(c.last), c.command,
                        /\ tx_state = "Idle" /\ c.command # ""
                        /\ ClassOf(c.last) # "Other")

Completed(new) ==
    IF cycles = <<>> \/ new # "Idle" \/ ~reliable THEN None
    ELSE LET c == Head(cycles) IN
         IF c.error THEN None
         ELSE TransactionEnd(ClassOf(c.last), c.command,
                             /\ tx_state = "Idle" /\ c.command # ""
                             /\ ClassOf(c.last) # "Other")

IfAny(name) == IF name = None THEN <<>> ELSE <<name>>

(***************************************************************************)
(* What the ReadyForQuery that leaves the queue empty restores.            *)
(***************************************************************************)
SpeculationKept(rest, speculative, confirmed) == speculative   \* mutant: never restored

Speculation(rest, speculative, confirmed) ==
    IF rest = <<>> THEN confirmed ELSE speculative

TrustAtReady(rest) == TRUE                                     \* mutant: any ReadyForQuery

TrustLost(rest) == reliable                                    \* mutant: never regained

Trust(rest) == rest = <<>> \/ reliable

BackendReady(f) ==
    /\ f.tag = "Z"
    /\ StatusOf(f) # None
    /\ LET new == StatusOf(f)
           rest == Rest(cycles)
           failed == IF new = "FailedTransaction" /\ tx_state # new
                     THEN "transaction.failed" ELSE None
           cleared(map) == IF new = "Idle" THEN NoStatements ELSE map
       IN  /\ events' = BackendEvents(<<"backend.ready">> \o IfAny(failed)
                                        \o IfAny(Completed(new)) \o <<"connection.ready">>,
                                      cycles)
           /\ tx_state' = new
           /\ cycles' = rest
           /\ reliable' = Trust(rest)
           /\ confirmed_portals' = cleared(confirmed_portals)
           /\ prepared' = Speculation(rest, prepared, confirmed_prepared)
           /\ portals' = Speculation(rest, cleared(portals), cleared(confirmed_portals))
    /\ UNCHANGED <<startup, tx_epoch, confirmed_prepared, next_cycle>>

BackendOther(f) ==
    /\ f.tag = "N" \/ (f.tag = "Z" /\ StatusOf(f) = None)
    /\ events' = <<>>
    /\ UNCHANGED <<startup, tx_state, tx_epoch, prepared, portals, confirmed_prepared,
                   confirmed_portals, cycles, next_cycle, reliable>>

Backend(f) ==
    \/ BackendParameterStatus(f)
    \/ BackendAcknowledge(f)
    \/ BackendRowDescription(f)
    \/ BackendDataRow(f)
    \/ BackendCommandComplete(f)
    \/ BackendPortalSuspended(f)
    \/ BackendError(f)
    \/ BackendReady(f)
    \/ BackendOther(f)

Next == \/ \E f \in FrontendFrame : Frontend(f)
        \/ \E f \in BackendFrame : Backend(f)

Spec == Init /\ [][Next]_stateVars

-----------------------------------------------------------------------------
(***************************************************************************)
(* Properties, for arbitrary frames from both sides.                       *)
(***************************************************************************)

(***************************************************************************)
(* Type invariant of every field of ConnectionState and of the events      *)
(* frontend() and backend() return.                                        *)
(***************************************************************************)
TypeOK ==
    /\ startup \in StartupMetadata
    /\ tx_state \in TxState
    /\ tx_epoch \in Nat
    /\ prepared \in [Name -> Statement]
    /\ portals \in [Name -> Statement]
    /\ confirmed_prepared \in [Name -> Statement]
    /\ confirmed_portals \in [Name -> Statement]
    /\ cycles \in Seq(Cycle)
    /\ next_cycle \in Nat
    /\ reliable \in BOOLEAN
    /\ events \in Seq(Event)

(***************************************************************************)
(* Cycle ids are consecutive: the queue always holds the cycles            *)
(* next_cycle - Len + 1 .. next_cycle, so the query_cycle of an event      *)
(* names one cycle, none is skipped and none is reused, whatever frames    *)
(* arrive (cycle() and the pop at ReadyForQuery).                          *)
(***************************************************************************)
ConsecutiveIds ==
    /\ Len(cycles) <= next_cycle
    /\ \A i \in DOMAIN cycles : cycles[i].id = (next_cycle - Len(cycles)) + i

(***************************************************************************)
(* Replies touch only the oldest cycle: whatever the client pipelines, a   *)
(* later cycle has no row, command, error or finished statement yet and no *)
(* epoch (backend() and the epoch rule of frontend()).                     *)
(***************************************************************************)
LaterCyclesUnanswered ==
    \A i \in 2 .. Len(cycles) :
        LET c == cycles[i] IN
        /\ c.rows = 0 /\ c.command = "" /\ ~c.error /\ c.last = NoSql
        /\ c.statement_index = 0 /\ ~c.epoch_allocated

(***************************************************************************)
(* Transaction epochs are allocated at most once per query cycle, in the   *)
(* oldest one: tx_epoch never overtakes the cycles that have started.      *)
(***************************************************************************)
EpochBound ==
    tx_epoch <= (next_cycle - Len(cycles))
                + (IF cycles # <<>> /\ Head(cycles).epoch_allocated THEN 1 ELSE 0)

(***************************************************************************)
(* A simple-query cycle is never joined by extended work: it is sealed,    *)
(* runs exactly one Query and has no Parse, Bind or Close to acknowledge.  *)
(***************************************************************************)
SimpleCyclesAlone ==
    \A i \in DOMAIN cycles : LET c == cycles[i] IN
        ~c.extended => /\ c.sealed /\ c.executions = 1 /\ Len(c.statements) <= 1
                       /\ c.mutations = <<>> /\ c.statement_index = 0

(***************************************************************************)
(* The queue of cycles is sound: all of these, each of which the others    *)
(* need (cycle(), frontend(), backend()).                                  *)
(***************************************************************************)
Structure == ConsecutiveIds /\ LaterCyclesUnanswered /\ EpochBound /\ SimpleCyclesAlone

(***************************************************************************)
(* With nothing outstanding the speculative maps are the confirmed ones:   *)
(* a rejected or skipped Parse, Bind or Close leaves no trace once every   *)
(* cycle has been answered.                                                *)
(***************************************************************************)
QuiescentMapsConfirmed ==
    cycles = <<>> => prepared = confirmed_prepared /\ portals = confirmed_portals

(***************************************************************************)
(* No handler returns two events of one name, so a matcher can count at    *)
(* most one occurrence per frame.                                          *)
(***************************************************************************)
OneEventPerName ==
    \A j, k \in DOMAIN events : events[j].event = events[k].event => j = k

(***************************************************************************)
(* Lost confidence is regained only by the ReadyForQuery that drains the   *)
(* pipeline, and no transaction-completed event is emitted before that.    *)
(***************************************************************************)
UnreliableUntilDrained ==
    [][~reliable => /\ reliable' => cycles' = <<>>
                    /\ \A k \in DOMAIN events' : events'[k].event \notin CompletedEvent]_stateVars
=============================================================================
