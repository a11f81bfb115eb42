----------------------------- MODULE MCSession -----------------------------
(***************************************************************************)
(* Constants for the runs of Session.                                      *)
(***************************************************************************)
EXTENDS Session, Scenarios

MCClassify == [s \in Sql |-> CASE s = "BEGIN" -> "Begin"
                               [] s = "COMMIT" -> "Commit"
                               [] s = "ROLLBACK" -> "Rollback"
                               [] s = "SELECT" -> "Select"
                               [] s = "INSERT" -> "Insert"
                               [] OTHER -> "Other"]

MCStartup == [user |-> None, database |-> None, application_name |-> "app"]

Extended(sqls) ==
    [tag : {"P"}, name : {Unnamed}, sql : sqls]
    \cup [tag : {"B"}, portal : {Unnamed}, stmt : {Unnamed}]
    \cup [tag : {"E"}, portal : {Unnamed}]
    \cup [tag : {"S"}]

Simple(sqls) == [tag : {"Q"}, sql : sqls]

(***************************************************************************)
(* Texts that are not one statement: the transaction of the Quickstart, a  *)
(* query with two results, and the empty text.                             *)
(***************************************************************************)
NoScripts == [s \in {} |-> <<>>]

TwoSelects == [s \in {"SELECT; SELECT"} |-> <<"SELECT", "SELECT">>]

Quickstart == [s \in {"BEGIN; INSERT; COMMIT"} |-> <<"BEGIN", "INSERT", "COMMIT">>]

EmptyText == [s \in {"EMPTY"} |-> <<>>]

(***************************************************************************)
(* Client vocabularies.                                                    *)
(***************************************************************************)
SimpleClient == Simple(Sql) \cup [tag : {"c"}]

ScriptClient == Simple(DOMAIN Script)

SyncClient ==
    [tag : {"P"}, name : {Unnamed}, sql : {"COMMIT", "INSERT"}]
    \cup [tag : {"P"}, name : {"a"}, sql : {"INSERT"}]
    \cup [tag : {"B"}, portal : {Unnamed}, stmt : Name]
    \cup [tag : {"C"}, kind : {"S"}, name : {"a"}]
    \cup [tag : {"C"}, kind : {"P"}, name : {Unnamed}]
    \cup [tag : {"E"}, portal : {Unnamed}]
    \cup [tag : {"S"}]
    \cup Simple({"BEGIN", "ROLLBACK"})

PipelineClient == Extended({"COMMIT", "INSERT"}) \cup Simple({"BEGIN", "COMMIT"})

NamedClient ==
    [tag : {"P"}, name : {"a"}, sql : {"INSERT"}]
    \cup [tag : {"B"}, portal : {Unnamed}, stmt : {"a"}]
    \cup [tag : {"S"}]

PortalClient == Extended({"SELECT", "COMMIT"}) \cup Simple({"BEGIN"}) \cup [tag : {"H"}]

SuspendingClient == Extended({"SELECT", "SET"})

DescribingClient == Extended({"SELECT"}) \cup [tag : {"D"}, portal : {Unnamed}]

EmptyClient == Extended({"EMPTY", "COMMIT"})

CopyClient == Extended({"COPY"}) \cup [tag : {"c"}] \cup Simple({"BEGIN"})

FlushingClient == Extended({"COMMIT"}) \cup [tag : {"H"}]

(***************************************************************************)
(* Scenario lists.                                                         *)
(***************************************************************************)
CommitScenarios == <<AmbiguousCommit("app"), LoseImplicit>>

AmbiguousScenarios == <<AmbiguousCommit("app")>>

RollbackScenarios == <<CutRollback>>

ImplicitScenarios == <<LoseImplicit>>

SimpleScenarios ==
    <<SecondCommit, CutRollback, WriteResponseDelay,
      PartialSelect(2), [PartialSelect(0) EXCEPT !.when.occurrence = 2]>>

OneTruncation == <<PartialSelect(2)>>

ReplicationScenarios == <<ReplicationConnectionReset("app")>>

SuppressedExecute == <<Everywhere(On("frontend.execute"), Suppress)>>
=============================================================================
