----------------------------- MODULE Scenarios -----------------------------
(***************************************************************************)
(* The scenarios that ship with pgfault, and a few more that the runs use. *)
(***************************************************************************)
EXTENDS Scenario

AnyConnection ==
    [application_name |-> None, user |-> None, database |-> None,
     connection_ordinal |-> None, transaction |-> None, query_cycle |-> None,
     statement |-> None, sql_fingerprint |-> None]

Application(name) == [AnyConnection EXCEPT !.application_name = name]

On(event) == [event |-> event, occurrence |-> None, statement_class |-> {}, row |-> None]

NoAction == [suppress |-> None, disconnect |-> None, delay |-> None, truncate_result |-> None]

Suppress == [NoAction EXCEPT !.suppress = TRUE]

Disconnect(side, mode) == [NoAction EXCEPT !.disconnect = [side |-> side, mode |-> mode]]

(***************************************************************************)
(* Shipped scenarios; the application names and the row count are          *)
(* parameters.                                                             *)
(***************************************************************************)
AmbiguousCommit(app) ==
    [selector |-> Application(app),
     when |-> [On("transaction.commit.completed") EXCEPT !.occurrence = 1],
     action |-> [Disconnect("frontend", "reset") EXCEPT !.suppress = TRUE]]

WriteResponseDelay ==
    [selector |-> AnyConnection,
     when |-> [On("statement.execution_completed") EXCEPT
                 !.statement_class = {"Insert", "Update", "Delete"}],
     action |-> [NoAction EXCEPT !.delay = "downstream"]]

ReplicationConnectionReset(app) ==
    [selector |-> Application(app),
     when |-> [On("connection.ready") EXCEPT !.occurrence = 1],
     action |-> Disconnect("upstream", "reset")]

PartialSelect(n) ==
    [selector |-> AnyConnection, when |-> On("result.started"),
     action |-> [NoAction EXCEPT !.truncate_result = n]]

(***************************************************************************)
(* Others.                                                                 *)
(***************************************************************************)
Everywhere(when, action) == [selector |-> AnyConnection, when |-> when, action |-> action]

LoseImplicit == Everywhere(On("transaction.implicit.completed"), Suppress)

CutRollback == Everywhere(On("transaction.rollback.completed"), Disconnect("frontend", "reset"))

SecondCommit ==
    Everywhere([On("transaction.commit.completed") EXCEPT !.occurrence = 2], Suppress)
=============================================================================
