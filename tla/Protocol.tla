------------------------------ MODULE Protocol ------------------------------
(***************************************************************************)
(* The vocabulary shared by every module of the project: statements, the   *)
(* frames of PostgreSQL's frontend/backend protocol as far as pgfault      *)
(* looks into them, and the names of pgfault's semantic events.            *)
(*                                                                         *)
(* A statement is identified with its SQL text.  The two fields of the     *)
(* code's Statement are functions of that text: the class (Classify, a     *)
(* parameter) and the SHA-256 fingerprint, which tells two texts apart and *)
(* is therefore the text itself here.  NoSql is Statement::default(): the  *)
(* class Other with an empty fingerprint, which no SQL text has.           *)
(***************************************************************************)
EXTENDS Naturals, Sequences

CONSTANTS
    Name,       \* names of prepared statements and portals
    Unnamed,    \* the empty name
    Sql,        \* SQL texts
    NoSql,      \* no text: Statement::default(), and "absent" in a map
    Classify,   \* the class classify() gives to each text
    Text,       \* values of startup parameters
    None        \* an Option that is None, and a name that does not parse

StatementClass == {"Begin", "Commit", "Rollback", "Select", "Insert",
                   "Update", "Delete", "Merge", "Ddl", "Other"}

TxState == {"Idle", "InTransaction", "FailedTransaction"}

ASSUME NameAssumption ==
    Unnamed \in Name /\ None \notin Name \cup Text \cup Nat \cup TxState

ASSUME SqlAssumption == NoSql \notin Sql /\ Classify \in [Sql -> StatementClass]

Statement == Sql \cup {NoSql}

ClassOf(s) == IF s = NoSql THEN "Other" ELSE Classify[s]

(***************************************************************************)
(* The tag of a CommandComplete: the two texts the code compares with, any *)
(* other text, and "" for a body that is not a terminated string (no       *)
(* server sends an empty tag).                                             *)
(***************************************************************************)
CommandTag == {"COMMIT", "ROLLBACK", "DONE", ""}

(***************************************************************************)
(* Frames, one record set per kind of frame.  A body that the parsing      *)
(* helpers of pgfault-wire reject is shown by NoSql or None in the first   *)
(* field.  Describe (of a portal, "D"), CopyDone ("c") and Terminate ("X") *)
(* have no effect on the state; "H" stands for every other tag it ignores  *)
(* (Flush, Copy data, passwords, function calls, ...).                     *)
(***************************************************************************)
FrontendFrame ==
         [tag : {"P"}, name : Name, sql : Statement]
    \cup [tag : {"B"}, portal : Name \cup {None}, stmt : Name]
    \cup [tag : {"C"}, kind : {"S", "P", "?"}, name : Name \cup {None}]
    \cup [tag : {"Q"}, sql : Statement]
    \cup [tag : {"E"}, portal : Name \cup {None}]
    \cup [tag : {"D"}, portal : Name]
    \cup [tag : {"S", "H", "c", "X"}]

(***************************************************************************)
(* "N" stands for every backend tag the state ignores (notices, keys,      *)
(* NoData, EmptyQueryResponse, Copy data, ...).  A ParameterStatus that is *)
(* not a well-formed application_name is one of those too.                 *)
(***************************************************************************)
BackendFrame ==
         [tag : {"S"}, application_name : Text]
    \cup [tag : {"1", "2", "3", "T", "D", "s", "E", "N"}]
    \cup [tag : {"C"}, command : CommandTag]
    \cup [tag : {"Z"}, status : {"I", "T", "E", "?"}]

(***************************************************************************)
(* EVENTS, the closed vocabulary of semantic events.                       *)
(***************************************************************************)
CompletedEvent == {"transaction.commit.completed",
                   "transaction.rollback.completed",
                   "transaction.implicit.completed"}

EventName ==
    {"query.received", "query.forwarded", "statement.execution_started",
     "statement.execution_completed", "transaction.begin.requested",
     "transaction.commit.requested", "transaction.rollback.requested",
     "transaction.failed", "result.started", "result.row",
     "result.completed", "connection.ready", "frontend.execute",
     "frontend.sync", "backend.error", "backend.command_complete",
     "backend.ready"} \cup CompletedEvent

ASSUME EventAssumption == None \notin EventName
=============================================================================
