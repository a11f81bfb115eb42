------------------------------ MODULE Postgres ------------------------------
(***************************************************************************)
(* The server behind the proxy, as far as pgfault depends on it: an        *)
(* external system, described by the answers it may give to a frontend     *)
(* frame.  It keeps a transaction status, prepared statements and portals, *)
(* skips everything up to Sync after an error in the extended protocol,    *)
(* and answers in the order of the requests.                               *)
(*                                                                         *)
(* Each reply carries, next to the frame, what the proxy cannot see and    *)
(* must infer: the query cycle it answers, the statement it is about and,  *)
(* for ReadyForQuery, how the cycle really went.                           *)
(***************************************************************************)
EXTENDS Protocol

CONSTANTS MaxRows,        \* rows of a result
          MayFail,        \* may a statement fail of its own accord?
          MaySuspend,     \* may a portal be suspended by a row limit?
          Script,         \* the statements of the texts that are not just one
          CopyIn          \* the texts that are COPY ... FROM STDIN

ASSUME ScriptAssumption ==
    DOMAIN Script \subseteq Sql /\ CopyIn \subseteq Sql
    /\ \A s \in DOMAIN Script : Script[s] \in Seq(Sql \ CopyIn)

StatementsOf(text) == IF text \in DOMAIN Script THEN Script[text] ELSE <<text>>

ServerState ==
           [tx : {"I", "T", "E"}, skip : BOOLEAN,
            stmts : [Name -> Statement], portals : [Name -> Statement],
            cycle : Nat, start : {"I", "T", "E"}, last : Statement,
            command : CommandTag, failed : BOOLEAN,
            index : Nat, xact : Nat, open : BOOLEAN, acks : Nat,
            copy : {"no", "Q", "E"}, ignored : Nat]

NewServer ==
    [tx |-> "I", skip |-> FALSE, stmts |-> [n \in Name |-> NoSql],
     portals |-> [n \in Name |-> NoSql], cycle |-> 1, start |-> "I",
     last |-> NoSql, command |-> "", failed |-> FALSE,
     index |-> 0, xact |-> 0, open |-> FALSE, acks |-> 0, copy |-> "no", ignored |-> 0]

Reply(srv, frame, sql) ==
    [frame |-> frame, cycle |-> srv.cycle, sql |-> sql, start |-> srv.start,
     last |-> srv.last, command |-> srv.command, failed |-> srv.failed,
     index |-> srv.index, acks |-> srv.acks,
     tx |-> srv.tx, stmts |-> srv.stmts, portals |-> srv.portals]

Tagged(tag) == [tag |-> tag]

Complete(command) == [tag |-> "C", command |-> command]

Answer(srv, out) == [srv |-> srv, out |-> out]

(***************************************************************************)
(* An error: skip to the next Sync, and fail or abandon the transaction.   *)
(***************************************************************************)
Fail(srv, sql) ==
    LET s == [srv EXCEPT !.failed = TRUE, !.skip = TRUE,
                         !.tx = IF @ = "I" THEN "I" ELSE "E",
                         !.portals = IF srv.tx = "I" THEN [n \in Name |-> NoSql] ELSE @]
    IN  Answer(s, <<Reply(s, Tagged("E"), sql)>>)

(***************************************************************************)
(* Run one statement of a text to its end: the ways it may go, each with   *)
(* the session after it and the frames it sends.  `header' is the          *)
(* RowDescription of a simple query; the extended protocol sends it for    *)
(* Describe instead.  A COPY FROM STDIN waits for the client's CopyDone.   *)
(***************************************************************************)
TxAfter(tx, class) == CASE class = "Begin" -> "T"
                        [] class \in {"Commit", "Rollback"} -> "I"
                        [] OTHER -> tx

TagOf(tx, class) ==
    CASE class = "Commit" -> IF tx = "E" THEN "ROLLBACK" ELSE "COMMIT"
      [] class = "Rollback" -> "ROLLBACK"
      [] OTHER -> "DONE"

Ran(srv, text, sql, frames) ==
    LET class == ClassOf(sql)
        s == [srv EXCEPT !.tx = TxAfter(@, class), !.last = sql,
                         !.command = TagOf(srv.tx, class),
                         !.open = @ /\ class \notin {"Commit", "Rollback"},
                         !.portals = IF class \in {"Commit", "Rollback"}
                                     THEN [n \in Name |-> NoSql] ELSE @]
    IN  Answer(s, [k \in DOMAIN frames |->
                     Reply(IF frames[k].tag = "C" THEN s ELSE srv, frames[k], text)])

(***************************************************************************)
(* A statement that runs while no transaction is under way begins one; it  *)
(* ends with a COMMIT or a ROLLBACK, or with the cycle if no BEGIN made it *)
(* a block.                                                                *)
(***************************************************************************)
Began(srv) == IF srv.open THEN srv ELSE [srv EXCEPT !.open = TRUE, !.xact = @ + 1]

Rows(n) == [k \in 1 .. n |-> Tagged("D")]

Result(header, n) == header \o Rows(n) \o <<Complete("DONE")>>

Suspended(srv, text, sql, n) ==
    LET s == [srv EXCEPT !.last = sql] IN
    Answer(s, [k \in 1 .. n + 1 |-> IF k <= n THEN Reply(srv, Tagged("D"), text)
                                    ELSE Reply(s, Tagged("s"), text)])

Copying(srv, text, sql, mode) ==
    LET s == [srv EXCEPT !.last = sql, !.copy = mode] IN
    Answer(s, <<Reply(srv, Tagged("N"), text)>>)

Run(srv, text, sql, header) ==
    LET class == ClassOf(sql)
        simple == header # <<>>
    IN  IF srv.tx = "E" /\ class \notin {"Commit", "Rollback"} THEN {Fail(srv, text)}
        ELSE IF class \in {"Begin", "Commit", "Rollback"}
        THEN {Ran(srv, text, sql, <<Complete(TagOf(srv.tx, class))>>)}
        ELSE IF sql \in CopyIn THEN {Copying(srv, text, sql, IF simple THEN "Q" ELSE "E")}
        ELSE (IF MayFail THEN {Fail(srv, text)} ELSE {})
             \cup (IF class = "Select"
                   THEN {Ran(srv, text, sql, Result(header, n)) : n \in 0 .. MaxRows}
                   ELSE {Ran(srv, text, sql, <<Complete("DONE")>>)})
             \cup (IF MaySuspend /\ ~simple /\ class = "Select"
                   THEN {Suspended(srv, text, sql, n) : n \in 1 .. MaxRows}
                   ELSE {})

(***************************************************************************)
(* The statements of a text one after the other, up to the first that      *)
(* fails.  A text without a statement gets an EmptyQueryResponse.          *)
(***************************************************************************)
RunText(srv, text, header) ==
    LET sqls == StatementsOf(text)
        after[n \in 0 .. Len(sqls)] ==
            IF n = 0 THEN {Answer(srv, <<>>)}
            ELSE UNION {IF a.srv.skip THEN {a}
                        ELSE {Answer(b.srv, a.out \o b.out) :
                                 b \in Run(Began(a.srv), text, sqls[n], header)} :
                        a \in after[n - 1]}
    IN  IF sqls = <<>> THEN {Answer(srv, <<Reply(srv, Tagged("N"), text)>>)}
        ELSE after[Len(sqls)]

(***************************************************************************)
(* ReadyForQuery ends the cycle; outside a transaction the portals are     *)
(* gone.                                                                   *)
(***************************************************************************)
Ready(a) ==
    LET s == [a.srv EXCEPT !.portals = IF a.srv.tx = "I" THEN [n \in Name |-> NoSql] ELSE @] IN
    Answer([s EXCEPT !.skip = FALSE, !.cycle = @ + 1, !.start = s.tx, !.open = s.tx # "I",
                     !.last = NoSql, !.command = "", !.failed = FALSE,
                     !.index = 0, !.acks = 0, !.ignored = 0],
           Append(a.out, Reply(s, [tag |-> "Z", status |-> s.tx], s.last)))

Acknowledge(srv, tag) ==
    LET s == [srv EXCEPT !.acks = @ + 1] IN Answer(s, <<Reply(s, Tagged(tag), NoSql)>>)

(***************************************************************************)
(* What the server may do with each frame of a client.  Parse drops the    *)
(* unnamed statement before it looks at the new text, which it may refuse. *)
(* In a failed transaction a portal bound before the error cannot be run,  *)
(* though it still has its name.                                           *)
(***************************************************************************)
Aborted(srv, sql) == srv.tx = "E" /\ ClassOf(sql) \notin {"Commit", "Rollback"}

ParseAnswers(srv, f) ==
    LET s == [srv EXCEPT !.stmts[Unnamed] = IF f.name = Unnamed THEN NoSql ELSE @]
        refused == \/ Aborted(s, f.sql)
                   \/ Len(StatementsOf(f.sql)) > 1
                   \/ s.stmts[f.name] # NoSql
    IN  (IF refused \/ MayFail THEN {Fail(s, f.sql)} ELSE {})
        \cup (IF refused THEN {}
              ELSE {Acknowledge([s EXCEPT !.stmts[f.name] = f.sql], "1")})

BindAnswers(srv, f) ==
    LET sql == srv.stmts[f.stmt] IN
    IF sql = NoSql \/ Aborted(srv, sql)
    THEN {Fail(srv, sql)}
    ELSE {Acknowledge([srv EXCEPT !.portals[f.portal] = sql], "2")}

CloseAnswers(srv, f) ==
    {Acknowledge(IF f.kind = "S" THEN [srv EXCEPT !.stmts[f.name] = NoSql]
                 ELSE [srv EXCEPT !.portals[f.name] = NoSql], "3")}

DescribeAnswers(srv, f) ==
    LET sql == srv.portals[f.portal] IN
    {IF sql = NoSql THEN Fail(srv, sql)
     ELSE Answer(srv, <<Reply(srv, Tagged(IF ClassOf(sql) = "Select" THEN "T" ELSE "N"),
                              sql)>>)}

ExecuteAnswers(srv, f) ==
    LET sql == srv.portals[f.portal] IN
    (IF sql = NoSql \/ srv.tx = "E" THEN {Fail(srv, sql)} ELSE {})
    \cup (IF sql = NoSql THEN {} ELSE RunText(srv, sql, <<>>))

QueryAnswers(srv, f) ==
    LET s == [srv EXCEPT !.stmts[Unnamed] = NoSql, !.portals[Unnamed] = NoSql] IN
    {IF a.srv.copy = "no" THEN Ready(a) ELSE a : a \in RunText(s, f.sql, <<Tagged("T")>>)}

(***************************************************************************)
(* In copy-in mode the server takes no notice of Flush and Sync; CopyDone  *)
(* ends the COPY and, in the simple protocol, the cycle.                   *)
(***************************************************************************)
CopyAnswers(srv, f) ==
    LET a == Ran([srv EXCEPT !.copy = "no"], srv.last, srv.last, <<Complete("DONE")>>) IN
    {CASE f.tag = "c" -> IF srv.copy = "Q" THEN Ready(a) ELSE a
       [] f.tag = "S" -> Answer([srv EXCEPT !.ignored = @ + 1], <<>>)
       [] OTHER -> Answer(srv, <<>>)}

(***************************************************************************)
(* Query and Execute are the next statement of their cycle.                *)
(***************************************************************************)
Numbered(srv, f) == IF f.tag \in {"Q", "E"} THEN [srv EXCEPT !.index = @ + 1] ELSE srv

AnswersTo(srv, f) ==
    CASE f.tag = "S" -> {Ready(Answer(srv, <<>>))}
      [] f.tag # "S" /\ srv.skip -> {Answer(srv, <<>>)}
      [] f.tag = "P" /\ ~srv.skip -> ParseAnswers(srv, f)
      [] f.tag = "B" /\ ~srv.skip -> BindAnswers(srv, f)
      [] f.tag = "C" /\ ~srv.skip -> CloseAnswers(srv, f)
      [] f.tag = "D" /\ ~srv.skip -> DescribeAnswers(srv, f)
      [] f.tag = "E" /\ ~srv.skip -> ExecuteAnswers(srv, f)
      [] f.tag = "Q" /\ ~srv.skip -> QueryAnswers(srv, f)
      [] OTHER -> {Answer(srv, <<>>)}

Answers(srv, f) ==
    IF srv.copy # "no" THEN CopyAnswers(srv, f) ELSE AnswersTo(Numbered(srv, f), f)

(***************************************************************************)
(* The end of session startup: an application_name and the first Ready.    *)
(***************************************************************************)
Welcome(srv, application_name) ==
    LET at0 == [srv EXCEPT !.cycle = 0] IN
    <<Reply(at0, [tag |-> "S", application_name |-> application_name], NoSql),
      Reply(at0, [tag |-> "Z", status |-> "I"], NoSql)>>
=============================================================================
